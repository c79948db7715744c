--------------------------- MODULE MCTopologyMerge ---------------------------
(* TopologyMerge with a container that Docker and Kubernetes both report, the
   containers of two replicas that have no id yet, a service and an ingress. *)
EXTENDS TopologyMerge

CONSTANT None

MCText == {"abc", "docker", "api", "k8s_api", "web", "api:1", "web:1", "v1", "true", "false",
           "sha256:a", "sha256:b", "/etc", "/root", "bridge", "overlay",
           "TCP", "tcp", "80", "3000", "0.0.0.0", "::", "10.0.0.1", " 10.0.0.1", "/v1", "Prefix", "default"}
MCEnvKeys == {"DB_HOST", "DB_PORT"}
MCLowerCase == [t \in MCText |-> IF t = "TCP" THEN "tcp" ELSE t]
MCHostName ==
    [t \in MCText |-> IF t \in {"0.0.0.0", "::"} THEN None ELSE IF t = " 10.0.0.1" THEN "10.0.0.1" ELSE t]

NoAttrs == [a \in Attributes |-> None]
NoEnv == [e \in MCEnvKeys |-> None]

DockerNode ==
    [id |-> [runtime |-> None, value |-> "abc"], name |-> "k8s_api", image |-> None,
     attrs |-> [NoAttrs EXCEPT !["privileged"] = "true"],
     image_hash |-> None, image_sha256 |-> "sha256:a",
     env |-> [NoEnv EXCEPT !["DB_HOST"] = "web"],
     volumes |-> {"/etc"}, networks |-> {"bridge"}]

PodNode ==
    [id |-> [runtime |-> "docker", value |-> "abc"], name |-> "api", image |-> "api:1",
     attrs |-> [NoAttrs EXCEPT !["privileged"] = "false", !["image_version"] = "v1"],
     image_hash |-> "sha256:b", image_sha256 |-> None,
     env |-> [NoEnv EXCEPT !["DB_HOST"] = "api", !["DB_PORT"] = "80"],
     volumes |-> {"/root"}, networks |-> {"overlay"}]

Replica ==
    [id |-> [runtime |-> None, value |-> None], name |-> "web", image |-> "web:1",
     attrs |-> NoAttrs, image_hash |-> None, image_sha256 |-> None, env |-> NoEnv,
     volumes |-> {}, networks |-> {}]

MCNodes == {DockerNode, PodNode, Replica}

Binding(protocol, host, host_port, source) ==
    [number |-> "80", protocol |-> protocol, host |-> host, host_port |-> host_port, source |-> source]

MCBindings == {
    Binding("TCP", "0.0.0.0", "3000", "docker_summary"),
    Binding("tcp", "::", "3000", "docker_port_bindings"),
    Binding("TCP", None, "3000", "k8s_container"),
    Binding("tcp", " 10.0.0.1", "3000", "docker_summary"),
    Binding("tcp", None, None, "docker_exposed_ports")}

MCServices == {
    [name |-> "api", namespace |-> "default", cluster_ip |-> "10.0.0.1",
     ports |-> {[port |-> "80", protocol |-> "TCP", target_port |-> "3000", node_port |-> None]}]}

Backend == [service_name |-> "api", port_name |-> None, port_number |-> "80"]

MCIngresses == {
    [name |-> "web", namespace |-> "default", default_backend |-> {Backend},
     rules |-> {[host |-> None, paths |-> {[path |-> "/v1", path_type |-> "Prefix", backend |-> Backend]}],
                [host |-> "0.0.0.0", paths |-> {[path |-> "/v1", path_type |-> "Prefix", backend |-> Backend]}]}]}
=============================================================================
