------------------------------- MODULE MCDial -------------------------------
(* Constants for the model-checking runs of Dial. *)
EXTENDS Dial

v4(i) == [v4 |-> TRUE, id |-> i]
v6(i) == [v4 |-> FALSE, id |-> i]

\* One family, two families in either order and interleaved, and more
\* addresses of a family than are tried.
MCAddrLists == { <<v4(1)>>,
                 <<v6(1), v6(2)>>,
                 <<v4(1), v6(1)>>,
                 <<v6(1), v4(1), v6(2)>>,
                 <<v6(1), v6(2), v6(3), v6(4), v4(1), v4(2), v4(3), v4(4)>> }
=============================================================================
