-------------------------------- MODULE Gate --------------------------------
(***************************************************************************)
(* What the proxy promises, with no sockets, handlers or lookups: clients  *)
(* knock one at a time, are let in by the rules they knocked under, and    *)
(* leave; a request of a client that is inside gets a ticket for the       *)
(* addresses the rules of that moment permit, and a link to upstream is    *)
(* made on a ticket only.  Proxy implements it.                            *)
(***************************************************************************)
EXTENDS Integers, FiniteSets

CONSTANTS Conn, ClientOf, Config, FirstConfig, Nil, SubnetIn, Host, HostOK, AddrOK,
          PerClient, Total   \* as in Proxy

VARIABLES
  cur,      \* the rules in force
  door,     \* per connection: the rules it is being held against, while at the door
  inside,   \* connections that have been let in
  ticket,   \* per connection: the addresses its request may be sent to
  link      \* per connection: the address it is linked to

vars == <<cur, door, inside, ticket, link>>

\* Where the rules c let a client send a request for host h.
Permitted(c, cl, h) ==
  LET s == SubnetIn[c][cl]
  IN IF s # Nil /\ h \in HostOK[c][s] THEN AddrOK[c][s] ELSE {}

Init ==
  /\ cur = FirstConfig /\ inside = {} /\ door = [k \in Conn |-> Nil]
  /\ ticket = [k \in Conn |-> {}] /\ link = [k \in Conn |-> Nil]

\* One at a time, so a change of the rules is followed by at most one decision
\* under those it replaced.
Knock(k) ==
  /\ k \notin inside /\ \A i \in Conn : door[i] = Nil
  /\ door' = [door EXCEPT ![k] = cur]
  /\ UNCHANGED <<cur, inside, ticket, link>>

\* Only clients of a subnet, and no more than the limits allow, by the rules
\* that were in force at the knock.
Enter(k) ==
  /\ door[k] # Nil /\ SubnetIn[door[k]][ClientOf[k]] # Nil
  /\ Cardinality({i \in inside : ClientOf[i] = ClientOf[k]}) < PerClient[door[k]]
  /\ Cardinality(inside) < Total[door[k]]
  /\ inside' = inside \cup {k} /\ door' = [door EXCEPT ![k] = Nil]
  /\ UNCHANGED <<cur, ticket, link>>

TurnAway(k) ==
  /\ door[k] # Nil
  /\ door' = [door EXCEPT ![k] = Nil]
  /\ UNCHANGED <<cur, inside, ticket, link>>

Ask(k, h) ==
  /\ k \in inside /\ ticket[k] = {} /\ link[k] = Nil
  /\ ticket' = [ticket EXCEPT ![k] = Permitted(cur, ClientOf[k], h)]
  /\ UNCHANGED <<cur, door, inside, link>>

Connect(k) ==
  /\ k \in inside /\ link[k] = Nil
  /\ \E a \in ticket[k] : link' = [link EXCEPT ![k] = a]
  /\ UNCHANGED <<cur, door, inside, ticket>>

\* The request is over; its connection stays.
Finish(k) ==
  /\ ticket[k] # {}
  /\ ticket' = [ticket EXCEPT ![k] = {}] /\ link' = [link EXCEPT ![k] = Nil]
  /\ UNCHANGED <<cur, door, inside>>

\* Connections go, with whatever they were doing.
Leave(K) ==
  /\ inside' = inside \ K
  /\ ticket' = [k \in Conn |-> IF k \in K THEN {} ELSE ticket[k]]
  /\ link' = [k \in Conn |-> IF k \in K THEN Nil ELSE link[k]]
  /\ UNCHANGED <<cur, door>>

ChangeRules == cur' \in Config /\ UNCHANGED <<door, inside, ticket, link>>

Next ==
  \/ ChangeRules
  \/ \E k \in Conn : Knock(k) \/ Enter(k) \/ TurnAway(k)
  \/ \E k \in Conn : Connect(k) \/ Finish(k) \/ \E h \in Host : Ask(k, h)
  \/ \E K \in SUBSET inside : Leave(K)

Spec == Init /\ [][Next]_vars
=============================================================================
