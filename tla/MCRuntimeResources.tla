------------------------- MODULE MCRuntimeResources -------------------------
(* RuntimeResources on five kinds of hosts: one container of every sort; two containers;
   a cluster of every sort; a container and a cluster; nothing to report, with every
   combination of settings and sockets. *)
EXTENDS RuntimeResources, TLC

CONSTANTS web, db, one, two, latest, v1, pause, uid0, app

MCReferences == {latest, v1, pause}
MCExcluded == {"k8s_pod_app"} \X (References \cup Images) \cup Names \X {pause}

-----------------------------------------------------------------------------
(* Clusters: pods in every phase and of a system namespace, statuses in another order or
   missing, a service and an ingress that come and go, and one pod for every combination
   of security contexts. *)

Container(name, user, nonRoot) == [name |-> name, user |-> user, nonRoot |-> nonRoot, privileged |-> {}]
Status(name, id) == [name |-> name, id |-> {id}, hash |-> {id}, state |-> "running"]
Waiting(name) == [name |-> name, id |-> {}, hash |-> {}, state |-> "waiting"]
Pod(name, namespace, phase, some, statuses) ==
    [name |-> name, namespace |-> namespace, phase |-> phase, user |-> {}, nonRoot |-> {},
     containers |-> some, statuses |-> statuses]

Api == Container("api", {}, {})
Sidecar == Container("sidecar", {}, {})

Phases == {Pod("web", "prod", phase, <<Api, Sidecar>>, <<Status("sidecar", "s1"), Status("api", "a1")>>) :
              phase \in {"Running", "Succeeded", "Failed", "Unknown"}}
Pending == Pod("web", "prod", "Pending", <<Api, Sidecar>>, <<>>)
Starting == Pod("web", "prod", "Pending", <<Api, Sidecar>>, <<Status("sidecar", "s1"), Waiting("api")>>)
System == Pod("web", "kube-system", "Running", <<Api>>, <<Status("api", "k1")>>)

Options(S) == {{}} \cup {{x} : x \in S}
Secured ==
    {[Pod(ToString(<<u, n, pu, pn>>), "prod", "Running", <<Container("api", u, n)>>, <<>>)
         EXCEPT !.user = pu, !.nonRoot = pn] :
        u \in Options({0, 1000}), n \in Options(BOOLEAN),
        pu \in Options({0, 1000}), pn \in Options(BOOLEAN)}

Service(namespace) == [name |-> "web", namespace |-> namespace]
Ingress ==
    [name |-> "web", namespace |-> "prod",
     backends |-> <<[kind |-> "service", name |-> "web", port |-> {80}],
                    [kind |-> "none", name |-> "", port |-> {}],
                    [kind |-> "resource", name |-> "bucket", port |-> {}]>>]

Objects(pods, services, ingresses) ==
    [Pod |-> pods, Service |-> services, Ingress |-> ingresses]

NoObjects == Objects({}, {}, {})
Small == Objects({Starting}, {Service("prod")}, {})
MCClusters ==
    {Objects({pod, System}, {Service("prod")}, {Ingress}) : pod \in Phases}
    \cup {Objects({pod}, services, {}) : pod \in {Pending, Starting},
              services \in {{}, {Service("kube-system")}, {Service("prod")}}}
    \cup {Objects({}, {}, {Ingress}), Objects(Secured, {}, {}), NoObjects}

-----------------------------------------------------------------------------
(* Daemons. *)

Of(name, reference, image) ==
    [name |-> name, reference |-> reference, image |-> image, user |-> app, running |-> TRUE]
Daemons(some, tagged) ==
    [containers : some, tags : tagged, withHash : BOOLEAN]

Tagged == {t \in [References -> Images \cup {None}] : t[pause] = None}
AnyContainer == {web :> Of(name, reference, image) :
                    name \in Names, reference \in References, image \in Images}
TwoContainers == {web :> Of("app", latest, one) @@ db :> [Of("app", v1, two) EXCEPT !.user = uid0],
                  web :> Of("app", latest, one) @@ db :> Of("k8s_pod_app", v1, one)}
AsPulled == {latest :> one @@ v1 :> two @@ pause :> None}

Plain(kube) == [host |-> <<>>, home |-> FALSE, context |-> "default", runtime |-> <<>>, kube |-> kube]
Host(s, existing, daemons, clusters, changes) ==
    [settings |-> s, sockets |-> existing, daemons |-> daemons, clusters |-> clusters,
     changes |-> changes]
Nothing == Daemons({<<>>}, AsPulled)

MCHosts ==
    {Host(Plain(FALSE), {"system"}, Daemons(AnyContainer, Tagged), {NoObjects}, 2),
     Host(Plain(FALSE), {"system"}, Daemons(TwoContainers, AsPulled), {NoObjects}, 2),
     Host(Plain(TRUE), {}, Nothing, MCClusters, 2),
     Host(Plain(TRUE), {"system"}, Daemons({web :> Of("app", v1, one)}, AsPulled), {Small}, 2)}
    \cup {Host(s, existing, Nothing, {NoObjects}, 0) : s \in Settings, existing \in SUBSET Sockets}
=============================================================================
