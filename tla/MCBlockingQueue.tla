--------------------------- MODULE MCBlockingQueue ---------------------------
(***************************************************************************)
(* BlockingQueue for TLC.  The threads of one role are interchangeable.    *)
(***************************************************************************)
EXTENDS BlockingQueueProofs, TLC

Symmetry == Permutations(Adders) \cup Permutations(Takers)
==============================================================================
