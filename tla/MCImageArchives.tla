-------------------------- MODULE MCImageArchives --------------------------
(* ImageArchives with two images of one sanitized name, a registry image, a digest
   and a public image, in every list of up to three containers. *)
EXTENDS ImageArchives, SequencesExt

CONSTANTS internal, cluster, localhost, public

Tagged == <<"app", ":", "1">>
Dashed == <<"app", "-", "1", "-">>
OnPort == <<"registry", ":", "5000", "/", "app">>
Remote == <<"team", "/", "app">>
Digest == <<"app", "@", "sha256">>
Nginx == <<"nginx", ":", "1">>

MCContainerLists ==
    BoundedSeq({Tagged, Dashed, Nginx}, 3) \cup BoundedSeq({OnPort, Remote, Digest, <<>>, Tagged}, 2)
MCPublicImages == {<<"nginx">>, <<"postgres">>}
MCHosts == {internal, cluster, localhost, public}
MCInternalHosts == {internal, cluster}
=============================================================================
