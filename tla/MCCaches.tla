------------------------------- MODULE MCCaches -------------------------------
(* Instances of Caches for TLC. *)
EXTENDS Caches, TLC

\* Calls with the same question are interchangeable, and so are seats.
Interchangeable == Permutations(Reader) \cup Permutations(Seat)
=============================================================================
