-------------------------- MODULE MCCommandProcessor --------------------------
(* CommandProcessor on a small instance. *)
EXTENDS CommandProcessor, TLC

\* Threads run the same code.
Symmetry == Permutations(Threads)
=============================================================================
