------------------------------ MODULE MCTracker ------------------------------
(* Constants for the model-checking runs of Tracker. *)
EXTENDS Tracker, TLC

CONSTANTS a, b, c, lan, wan, k1, k2, k3, k4

\* a and b share an overflow network, c has another.
MCNetOf == [ip \in IP |-> IF ip = c THEN wan ELSE lan]

\* Connections are interchangeable, and so are the two clients of one network.
MCSymmetry == Permutations(Conn) \cup Permutations({a, b})
=============================================================================
