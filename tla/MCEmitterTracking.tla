-------------------------- MODULE MCEmitterTracking --------------------------
(* EmitterTracking for TLC.  Threads, addresses and files are interchangeable *)
(* in the safety run; the liveness run uses no symmetry.                      *)
EXTENDS EmitterTracking, TLC

ThreadSymmetry ==
  UNION {Permutations(Games), Permutations(Peers), Permutations(Emitters), Permutations(Files)}
=============================================================================
