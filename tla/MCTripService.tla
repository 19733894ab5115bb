--------------------------- MODULE MCTripService ---------------------------
(* TripService on small instances.  Trip ids and sockets are interchangeable. *)
EXTENDS TripService, TLC

Symmetry == Permutations(Trips) \cup Permutations(Sockets)

\* The second frame is the fastest, and all three together are as fast on
\* average as the first.
Speeds == [at \in 1..MaxStamp |-> <<5000, 7000, 3000>>[at]]
============================================================================
