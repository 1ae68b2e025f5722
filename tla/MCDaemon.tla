------------------------------- MODULE MCDaemon -------------------------------
(* Daemon on a small instance. *)
EXTENDS Daemon, TLC

\* One connection sends requests of every kind; the others come, take a place, and leave.
Busy == CHOOSE h \in Handlers : TRUE
OneSends == [h \in Handlers |-> IF h = Busy THEN RequestKinds ELSE {}]

\* The others run the same code, and so do the threads of signals.
Symmetry == Permutations(Handlers \ {Busy}) \cup Permutations(Signals)
=============================================================================
