------------------------ MODULE MCDataParallelWaves ------------------------
(* Instances of the data-parallel engines for TLC. *)
EXTENDS DataParallelWaves

MCModes == {"abort", "keep"}
=============================================================================
