-------------------------- MODULE MCContainersCrawl --------------------------
(* Three containers; the first two share the host's PID namespace. *)
EXTENDS ContainersCrawl, TLC

CONSTANTS c1, c2, c3

MCContainers == {c1, c2, c3}
MCPidOf == (c1 :> 11) @@ (c2 :> 12) @@ (c3 :> 13)
MCHostPid == {c1, c2}
MCPlugins == <<"list", "generator">>
=============================================================================
