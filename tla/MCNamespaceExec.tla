--------------------------- MODULE MCNamespaceExec ---------------------------
(* The constants are numbers; each cfg chooses them. *)
EXTENDS NamespaceExec
=============================================================================
