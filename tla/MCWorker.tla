------------------------------ MODULE MCWorker ------------------------------
(* One-shot, back-to-back and periodic crawlers in one run. *)
EXTENDS Worker

MCFrequencies == {-1, 0, 1, 2}
=============================================================================
