------------------------------- MODULE MCRates -------------------------------
(***************************************************************************)
(* Values of the constants for TLC.                                        *)
(***************************************************************************)
EXTENDS Rates, TLC

MCKinds == {"interface_vm", "interface_container", "interface_host",
            "diskio_host", "cpu_container", "metric_vm"}

MCSymmetry == Permutations(Pids)
=============================================================================
