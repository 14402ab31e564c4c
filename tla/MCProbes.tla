------------------------------ MODULE MCProbes ------------------------------
(* Two containers with an interface each. *)
EXTENDS ProbePlugins, TLC
CONSTANTS c1, c2, i1, i2, f1, p1, p2

MCOwner == (i1 :> c1) @@ (i2 :> c2)
MCNext == (c1 :> c2) @@ (c2 :> c1)

\* One interface and two failures, or two interfaces and one failure.
MCInit ==
  /\ Init
  /\ faults < 2 /\ crawled = c1
  /\ iface[i1] = "absent" /\ (faults = 0 <=> iface[i2] = "gone")

MCSpec == MCInit /\ [][Next]_vars /\ Fairness
=============================================================================
