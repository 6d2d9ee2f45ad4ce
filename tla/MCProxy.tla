------------------------------ MODULE MCProxy ------------------------------
(* Two configs: the first serves both clients, the second drops one of them, *)
(* lowers the limits and allows the other another host at another address.   *)
EXTENDS Proxy

CONSTANTS k1, k2, k3, p, q, old, new, lan, h, g, x, y

MCClientOf == [k \in Conn |-> IF k = k3 THEN q ELSE p]
MCSubnetIn == [c \in Config |-> [cl \in Client |-> IF c = new /\ cl = q THEN Nil ELSE lan]]
MCHostOK == [c \in Config |-> [s \in Subnet |-> IF c = old THEN {h} ELSE {g}]]
MCAddrOK == [c \in Config |-> [s \in Subnet |-> IF c = old THEN {x} ELSE {y}]]
MCPerClient == [c \in Config |-> IF c = old THEN 2 ELSE 1]
MCTotal == [c \in Config |-> 2]
=============================================================================
