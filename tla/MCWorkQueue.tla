---------------------------- MODULE MCWorkQueue ----------------------------
(* Small instances of WorkQueue for TLC. *)
EXTENDS WorkQueue, TLC

\* Interchangeable sockets, producers and workers.
Symmetry == Permutations(Socket) \cup Permutations(Producer) \cup Permutations(Worker)
=============================================================================
