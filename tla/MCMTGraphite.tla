----------------------------- MODULE MCMTGraphite -----------------------------
(* The constants are numbers; each cfg chooses them. *)
EXTENDS MTGraphite
=============================================================================
