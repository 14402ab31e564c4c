----------------------------- MODULE MCLogsLinker -----------------------------
(* Three containers, of which c3 may take the name c1 had, and two PIDs. *)
EXTENDS LogsLinker, TLC

CONSTANTS c1, c2, c3, n1, n2, p1, p2

MCContainers == {c1, c2, c3}
MCNames == {n1, n2}
MCNameReused == (c1 :> n1) @@ (c2 :> n2) @@ (c3 :> n1)
\* c1 and c2 share a PID namespace.
MCNs == (c1 :> 1) @@ (c2 :> 1) @@ (c3 :> 3)
MCPids == {p1, p2}
Symmetry == Permutations(MCPids)

\* Two containers, with names of their own.
MCTwo == {c1, c2}
MCTwoNames == (c1 :> n1) @@ (c2 :> n2)
MCTwoNs == (c1 :> 1) @@ (c2 :> 2)
=============================================================================
