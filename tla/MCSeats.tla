------------------------------- MODULE MCSeats -------------------------------
(* Instances of Seats for TLC. *)
EXTENDS Seats, TLC

\* Calls with the same arguments are interchangeable, and so are users.
Interchangeable == Permutations(Request) \cup Permutations(Payment) \cup Permutations(User)
=============================================================================
