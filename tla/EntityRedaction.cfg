CONSTANTS
    person = person
    org = org
    NoLabel = NoLabel
    Labels = {person, org}
    Texts <- MCTexts
SPECIFICATION Spec
INVARIANTS
    TypeOK
    OthersKept
    TagsWhereLabelsChange
