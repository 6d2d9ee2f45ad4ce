------------------------ MODULE UpstreamPoolsProofs ------------------------
(***************************************************************************)
(* Proofs about UpstreamPools, for any requests, destinations, vettings    *)
(* and limits: a pooled connection only serves requests approved for where *)
(* it leads, the map never outgrows maxUpstreamPools and gives up the      *)
(* least recently used pool, and no connection is forgotten.               *)
(*                                                                         *)
(* The argument follows the addresses from the key of a pool to its        *)
(* transport, from the transport to the requests that hold it and to the   *)
(* connections it dialled, and from there to the request a connection      *)
(* serves, which has it for itself.                                        *)
(***************************************************************************)
EXTENDS UpstreamPools, FiniteSetTheorems, TLAPS

\* Zenon first: SMT is for the leaves that need arithmetic or records.
USE ZenonT(4), SMTT(15)

Pool == [key : [dest : Dest, addrs : Vettings], tr : Tr, age : Age]

Transport == [addrs : Vettings \cup {{}}, closeIdle : BOOLEAN]

Request == [pc : {"none", "vetted", "got", "using"}, dest : Dest \cup {Nil},
            addrs : Vettings \cup {{}}, age : Age, tr : Tr \cup {Nil}, conn : Conn \cup {Nil}]

\* The dialer of a pool's transport reaches the addresses of its key.
KeyedRight == \A p \in pools : tr[p.tr].addrs = p.key.addrs

\* A request holds a transport made for the addresses it was approved for.
HeldRight(r) ==
  req[r].pc \in {"got", "using"} => req[r].tr \in Tr /\ tr[req[r].tr].addrs = req[r].addrs

\* What passed the check, and nothing before.
VettedRight(r) == req[r].pc # "none" => req[r].dest \in Dest /\ req[r].addrs \in Vettings

\* A connection leads where its transport dials.
LeadsRight(c) == conn[c] # Nil => conn[c].addr \in tr[conn[c].tr].addrs

\* A request has a busy connection of its transport.
UsesRight(r) ==
  req[r].pc = "using" => /\ req[r].conn \in Conn /\ conn[req[r].conn] # Nil
                         /\ conn[req[r].conn].st = "busy" /\ conn[req[r].conn].tr = req[r].tr

\* No two requests have the same one.
Exclusive ==
  \A r, s \in Req : r # s /\ req[r].pc = "using" /\ req[s].pc = "using" => req[r].conn # req[s].conn

RequestsRight == \A r \in Req : VettedRight(r) /\ HeldRight(r) /\ UsesRight(r)

IInv == TypeOK /\ KeyedRight /\ RequestsRight /\ (\A c \in Conn : LeadsRight(c)) /\ Exclusive

\* The map has one pool per key, and never more than maxUpstreamPools
\* (upstream.go:60), however requests and sweeps interleave.
MapBounded ==
  /\ \A p, q \in pools : p.key = q.key => p = q
  /\ IsFiniteSet(pools) /\ Cardinality(pools) <= MaxPools

-----------------------------------------------------------------------------
(* What a step that moves nothing else leaves as it was *)

\* Transports that are in use before and after the step dial the same addresses.
SameAddrs == \A t \in Tr : ~Unused(t) /\ ~Unused(t)' => tr'[t].addrs = tr[t].addrs

\* A request goes on as before, and so does the connection it has.
Same(r) ==
  /\ req'[r].pc = req[r].pc /\ req'[r].dest = req[r].dest /\ req'[r].addrs = req[r].addrs
  /\ req'[r].tr = req[r].tr /\ req'[r].conn = req[r].conn
  /\ req[r].pc = "using" => conn'[req[r].conn] = conn[req[r].conn]

\* The type invariant, with the names of the parts.
LEMMA TypeOKParts ==
  TypeOK <=> /\ pools \subseteq Pool /\ tr \in [Tr -> Transport]
             /\ conn \in [Conn -> Connection \cup {Nil}] /\ req \in [Req -> Request]
  BY DEF TypeOK, Pool, Transport, Request

\* Times are numbers, and ageing saturates.
LEMMA Ages == 0 \in Age /\ \A a \in Age : Older(a) \in Age
  BY UpstreamPoolsAssumption DEF Age, Older

\* A request that is over, and a transport that is gone.
LEMMA EmptyTypes == NoReq \in Request /\ Garbage \in Transport
  BY Ages DEF NoReq, Garbage, Request, Transport

\* The garbage collector takes only what nobody uses.
LEMMA TransportsStep ==
  ASSUME NEW f \in [Tr -> Transport], Transports(f)
  PROVE  tr' \in [Tr -> Transport] /\ \A t \in Tr : ~Unused(t)' => tr'[t] = f[t]
  BY EmptyTypes DEF Transports

\* CloseIdleConnections closes idle connections only.
LEMMA CloseIdleStep ==
  ASSUME TypeOK, NEW T, CloseIdle(T)
  PROVE  /\ conn' \in [Conn -> Connection \cup {Nil}]
         /\ \A c \in Conn : conn'[c] # Nil => conn'[c] = conn[c]
         /\ \A c \in Conn : conn[c].st = "busy" => conn'[c] = conn[c]
  BY TypeOKParts DEF CloseIdle

\* It leaves the transports' addresses alone.
LEMMA ClosingStep ==
  ASSUME TypeOK, NEW T
  PROVE  Closing(T) \in [Tr -> Transport] /\ \A t \in Tr : Closing(T)[t].addrs = tr[t].addrs
  BY TypeOKParts DEF Closing, Transport

\* What a change of one request changes.
LEMMA RequestStep ==
  ASSUME req \in [Req -> Request], NEW r \in Req, NEW q \in Request,
         req' = [req EXCEPT ![r] = q]
  PROVE  req' \in [Req -> Request] /\ req'[r] = q /\ \A s \in Req : s # r => req'[s] = req[s]
  OBVIOUS

\* transport() hands a request its transport.
LEMMA GotStep ==
  ASSUME req \in [Req -> Request], NEW r \in Req, NEW t \in Tr,
         req' = [req EXCEPT ![r].pc = "got", ![r].age = 0, ![r].tr = t]
  PROVE  /\ req' \in [Req -> Request] /\ \A s \in Req : s # r => req'[s] = req[s]
         /\ req'[r].pc = "got" /\ req'[r].dest = req[r].dest /\ req'[r].addrs = req[r].addrs
         /\ req'[r].tr = t
<1>1. 0 \in Age
  BY Ages
<1>2. req[r] \in Request
  OBVIOUS
<1> DEFINE got == [[[req[r] EXCEPT !.pc = "got"] EXCEPT !.age = 0] EXCEPT !.tr = t]
<1>3. req' = [req EXCEPT ![r] = got]
  BY DEF Request
<1>4. /\ got \in Request /\ got.pc = "got" /\ got.dest = req[r].dest
      /\ got.addrs = req[r].addrs /\ got.tr = t
  BY <1>1, <1>2 DEF Request
<1>5. req' \in [Req -> Request] /\ req'[r] = got /\ \A s \in Req : s # r => req'[s] = req[s]
  <2> HIDE DEF got
  <2> QED BY <1>3, <1>4, RequestStep
<1> QED BY <1>4, <1>5

\* Pools that stay in the map stay keyed by what their transport dials.
LEMMA KeepsKeyed ==
  ASSUME TypeOK, TypeOK', KeyedRight, SameAddrs, NEW p \in pools',
         \E q \in pools : q.key = p.key /\ q.tr = p.tr
  PROVE  tr'[p.tr].addrs = p.key.addrs
<1>1. PICK q \in pools : q.key = p.key /\ q.tr = p.tr
  OBVIOUS
<1>2. p.tr \in Tr
  BY <1>1, TypeOKParts DEF Pool
<1>3. ~Unused(p.tr) /\ ~Unused(p.tr)'
  BY <1>1 DEF Unused
<1> QED BY <1>1, <1>2, <1>3 DEF SameAddrs, KeyedRight

\* Connections that stay lead where they led.
LEMMA KeepsLeading ==
  ASSUME TypeOK, NEW c \in Conn, LeadsRight(c), SameAddrs,
         conn'[c] # Nil => /\ conn[c] # Nil /\ conn'[c].addr = conn[c].addr
                           /\ conn'[c].tr = conn[c].tr
  PROVE  LeadsRight(c)'
<1> SUFFICES ASSUME conn'[c] # Nil PROVE conn'[c].addr \in tr'[conn'[c].tr].addrs
  BY DEF LeadsRight
<1>1. PICK t \in Tr : t = conn[c].tr
  BY TypeOKParts DEF Connection
<1>2. ~Unused(t) /\ ~Unused(t)'
  BY <1>1 DEF Unused
<1> QED BY <1>1, <1>2 DEF SameAddrs, LeadsRight

\* Requests that are not touched keep what they have.
LEMMA KeepsRequest ==
  ASSUME NEW r \in Req, VettedRight(r), HeldRight(r), UsesRight(r), SameAddrs, Same(r)
  PROVE  VettedRight(r)' /\ HeldRight(r)' /\ UsesRight(r)'
<1>1. VettedRight(r)'
  BY DEF VettedRight, Same
<1>2. HeldRight(r)'
  <2> SUFFICES ASSUME req[r].pc \in {"got", "using"}
               PROVE  req[r].tr \in Tr /\ tr'[req[r].tr].addrs = req[r].addrs
    BY DEF HeldRight, Same
  <2>1. PICK t \in Tr : t = req[r].tr
    BY DEF HeldRight
  <2>2. ~Unused(t) /\ ~Unused(t)'
    BY <2>1 DEF Unused, Same
  <2> QED BY <2>1, <2>2 DEF HeldRight, SameAddrs
<1>3. UsesRight(r)'
  BY DEF UsesRight, Same
<1> QED BY <1>1, <1>2, <1>3

-----------------------------------------------------------------------------
(* One step per action *)

\* A request that passes the check has no transport and no connection yet.
LEMMA VettedStep ==
  ASSUME IInv, NEW r \in Req, NEW d \in Dest, NEW A \in Vettings, Vetted(r, d, A)
  PROVE  IInv'
<1>0. /\ pools \subseteq Pool /\ tr \in [Tr -> Transport]
      /\ conn \in [Conn -> Connection \cup {Nil}] /\ req \in [Req -> Request]
  BY TypeOKParts DEF IInv
<1>1. req' = [req EXCEPT ![r] = [NoReq EXCEPT !.pc = "vetted", !.dest = d, !.addrs = A]]
  BY DEF Vetted
<1>2. UNCHANGED <<pools, tr, conn>>
  BY DEF Vetted
<1>3. [NoReq EXCEPT !.pc = "vetted", !.dest = d, !.addrs = A] \in Request
  BY Ages DEF NoReq, Request
<1>4. /\ req' \in [Req -> Request] /\ \A s \in Req : s # r => req'[s] = req[s]
      /\ req'[r].pc = "vetted" /\ req'[r].dest = d /\ req'[r].addrs = A
  BY <1>0, <1>1, <1>3 DEF NoReq
<1>5. TypeOK' /\ SameAddrs
  BY <1>0, <1>2, <1>4, TypeOKParts DEF TypeOK, Pool, Transport, Request, SameAddrs
<1>6. KeyedRight' /\ \A c \in Conn : LeadsRight(c)'
  BY <1>2 DEF IInv, KeyedRight, LeadsRight
<1>7. ASSUME NEW s \in Req, s # r PROVE VettedRight(s)' /\ HeldRight(s)' /\ UsesRight(s)'
  BY <1>2, <1>4, <1>5, <1>7, KeepsRequest DEF IInv, RequestsRight, Same
<1>8. VettedRight(r)' /\ HeldRight(r)' /\ UsesRight(r)'
  BY <1>4 DEF VettedRight, HeldRight, UsesRight
<1>9. Exclusive'
  BY <1>4 DEF IInv, Exclusive
<1> QED BY <1>5, <1>6, <1>7, <1>8, <1>9 DEF IInv, RequestsRight

\* The pool of exactly this destination and these addresses: its transport
\* dials what the request was approved for.
LEMMA TransportHitStep ==
  ASSUME IInv, NEW r \in Req, TransportHit(r)
  PROVE  IInv'
<1>0. /\ pools \subseteq Pool /\ tr \in [Tr -> Transport]
      /\ conn \in [Conn -> Connection \cup {Nil}] /\ req \in [Req -> Request]
  BY TypeOKParts DEF IInv
<1>1. PICK p \in InMap(Key(req[r].dest, req[r].addrs)) :
        /\ pools' = (pools \ {p}) \cup {[p EXCEPT !.age = req[r].age]}
        /\ req' = [req EXCEPT ![r].pc = "got", ![r].age = 0, ![r].tr = p.tr]
  BY DEF TransportHit
<1>2. UNCHANGED <<tr, conn>> /\ req[r].pc = "vetted"
  BY DEF TransportHit
<1>3. p \in pools /\ p.key.addrs = req[r].addrs /\ p \in Pool /\ p.tr \in Tr
  BY <1>0, <1>1 DEF InMap, Key, Pool
<1>4. /\ req' \in [Req -> Request] /\ \A s \in Req : s # r => req'[s] = req[s]
      /\ req'[r].pc = "got" /\ req'[r].dest = req[r].dest /\ req'[r].addrs = req[r].addrs
      /\ req'[r].tr = p.tr
  BY <1>0, <1>1, <1>3, GotStep
<1>5. /\ [p EXCEPT !.age = req[r].age] \in Pool
      /\ [p EXCEPT !.age = req[r].age].key = p.key /\ [p EXCEPT !.age = req[r].age].tr = p.tr
  BY <1>0, <1>3 DEF Pool, Request
<1>6. TypeOK' /\ SameAddrs
  BY <1>0, <1>1, <1>2, <1>4, <1>5, TypeOKParts DEF TypeOK, Pool, Transport, Request, SameAddrs
<1>7. KeyedRight'
  <2>1. ASSUME NEW q \in pools' PROVE \E o \in pools : o.key = q.key /\ o.tr = q.tr
    BY <1>1, <1>3, <1>5
  <2> QED BY <1>6, <2>1, KeepsKeyed DEF IInv, KeyedRight
<1>8. \A c \in Conn : LeadsRight(c)'
  BY <1>2 DEF IInv, LeadsRight
<1>9. ASSUME NEW s \in Req, s # r PROVE VettedRight(s)' /\ HeldRight(s)' /\ UsesRight(s)'
  BY <1>2, <1>4, <1>6, <1>9, KeepsRequest DEF IInv, RequestsRight, Same
<1>10. VettedRight(r)' /\ HeldRight(r)' /\ UsesRight(r)'
  BY <1>2, <1>3, <1>4 DEF IInv, KeyedRight, RequestsRight, VettedRight, HeldRight, UsesRight
<1>11. Exclusive'
  BY <1>4 DEF IInv, Exclusive
<1> QED BY <1>6, <1>7, <1>8, <1>9, <1>10, <1>11 DEF IInv, RequestsRight

\* A new transport is nobody else's, and dials what this request was approved
\* for; the one that makes room loses idle connections only.
LEMMA TransportMissStep ==
  ASSUME IInv, NEW r \in Req, TransportMiss(r)
  PROVE  IInv'
<1> DEFINE k == Key(req[r].dest, req[r].addrs)
<1>0. /\ pools \subseteq Pool /\ tr \in [Tr -> Transport] /\ TypeOK
      /\ conn \in [Conn -> Connection \cup {Nil}] /\ req \in [Req -> Request]
  BY TypeOKParts DEF IInv
<1>1. PICK D \in (IF Full THEN {{p} : p \in Oldest(pools)} ELSE {{}}),
           t \in {u \in Tr : NewTransport(u)} :
        /\ CloseIdle({p.tr : p \in D})
        /\ pools' = (pools \ D) \cup {[key |-> k, tr |-> t, age |-> req[r].age]}
        /\ req' = [req EXCEPT ![r].pc = "got", ![r].age = 0, ![r].tr = t]
        /\ Transports([Closing({p.tr : p \in D}) EXCEPT ![t] =
                         [addrs |-> req[r].addrs, closeIdle |-> FALSE]])
  BY DEF TransportMiss
<1>2. req[r].pc = "vetted" /\ req[r].dest \in Dest /\ req[r].addrs \in Vettings
  BY DEF TransportMiss, IInv, RequestsRight, VettedRight
<1> DEFINE T == {p.tr : p \in D}
           f == [Closing(T) EXCEPT ![t] = [addrs |-> req[r].addrs, closeIdle |-> FALSE]]
<1>3. t \in Tr /\ Unused(t)
  BY <1>1 DEF NewTransport
<1>4. /\ req' \in [Req -> Request] /\ \A s \in Req : s # r => req'[s] = req[s]
      /\ req'[r].pc = "got" /\ req'[r].dest = req[r].dest /\ req'[r].addrs = req[r].addrs
      /\ req'[r].tr = t
  BY <1>0, <1>1, <1>3, GotStep
<1>5. /\ conn' \in [Conn -> Connection \cup {Nil}]
      /\ \A c \in Conn : conn'[c] # Nil => conn'[c] = conn[c]
      /\ \A c \in Conn : conn[c].st = "busy" => conn'[c] = conn[c]
  BY <1>0, <1>1, CloseIdleStep
<1>6. /\ f \in [Tr -> Transport] /\ f[t].addrs = req[r].addrs
      /\ \A u \in Tr : u # t => f[u].addrs = tr[u].addrs
  <2> HIDE DEF T
  <2>1. Closing(T) \in [Tr -> Transport] /\ \A u \in Tr : Closing(T)[u].addrs = tr[u].addrs
    BY <1>0, ClosingStep
  <2>2. [addrs |-> req[r].addrs, closeIdle |-> FALSE] \in Transport
    BY <1>2 DEF Transport
  <2> QED BY <1>3, <2>1, <2>2
<1>7. Transports(f)
  BY <1>1
<1> HIDE DEF f, T
<1>8. tr' \in [Tr -> Transport] /\ \A u \in Tr : ~Unused(u)' => tr'[u] = f[u]
  BY <1>6, <1>7, TransportsStep
<1>9. k \in [dest : Dest, addrs : Vettings] /\ k.addrs = req[r].addrs
  BY <1>2 DEF Key
<1> HIDE DEF k
<1>10. [key |-> k, tr |-> t, age |-> req[r].age] \in Pool
  BY <1>0, <1>3, <1>9 DEF Pool, Request
<1>11. TypeOK'
  BY <1>0, <1>1, <1>4, <1>5, <1>8, <1>10, TypeOKParts DEF TypeOK, Pool, Transport, Request
<1>12. SameAddrs
  BY <1>3, <1>6, <1>8 DEF SameAddrs
<1>13. tr'[t].addrs = req[r].addrs
  <2>1. ~Unused(t)'
    BY <1>4 DEF Unused
  <2> QED BY <1>3, <1>6, <1>8, <2>1
<1>14. KeyedRight'
  <2> SUFFICES ASSUME NEW p \in pools' PROVE tr'[p.tr].addrs = p.key.addrs
    BY DEF KeyedRight
  <2>1. CASE p = [key |-> k, tr |-> t, age |-> req[r].age]
    BY <1>9, <1>13, <2>1
  <2>2. CASE p \in pools
    BY <1>0, <1>11, <1>12, <2>2, KeepsKeyed DEF IInv
  <2> QED BY <1>1, <2>1, <2>2
<1>15. ASSUME NEW c \in Conn PROVE LeadsRight(c)'
  BY <1>0, <1>5, <1>12, KeepsLeading DEF IInv
<1>16. ASSUME NEW s \in Req, s # r PROVE VettedRight(s)' /\ HeldRight(s)' /\ UsesRight(s)'
  <2>1. Same(s)
    BY <1>4, <1>5, <1>16 DEF Same, IInv, RequestsRight, UsesRight
  <2> QED BY <1>12, <2>1, KeepsRequest DEF IInv, RequestsRight
<1>17. VettedRight(r)' /\ HeldRight(r)' /\ UsesRight(r)'
  BY <1>2, <1>3, <1>4, <1>13 DEF VettedRight, HeldRight, UsesRight
<1>18. Exclusive'
  BY <1>4 DEF IInv, Exclusive
<1> QED BY <1>11, <1>14, <1>15, <1>16, <1>17, <1>18 DEF IInv, RequestsRight

\* A request begins to use connection c, which led where its transport dials
\* and which nobody else uses: an idle one, or a new one.
LEMMA UsesStep ==
  ASSUME IInv, NEW r \in Req, NEW c \in Conn, req[r].pc = "got",
         req' = [req EXCEPT ![r].pc = "using", ![r].conn = c],
         tr' = [tr EXCEPT ![req[r].tr].closeIdle = FALSE], UNCHANGED pools,
         conn[c] # Nil => conn[c].st = "idle",
         conn' \in [Conn -> Connection \cup {Nil}],
         \A i \in Conn : i # c => conn'[i] = conn[i],
         conn'[c] # Nil, conn'[c].st = "busy", conn'[c].tr = req[r].tr,
         conn'[c].addr \in tr[req[r].tr].addrs
  PROVE  IInv'
<1>0. /\ pools \subseteq Pool /\ tr \in [Tr -> Transport] /\ TypeOK
      /\ conn \in [Conn -> Connection \cup {Nil}] /\ req \in [Req -> Request]
  BY TypeOKParts DEF IInv
<1>1. req[r].tr \in Tr /\ tr[req[r].tr].addrs = req[r].addrs
  BY DEF IInv, RequestsRight, HeldRight
<1>2. tr' \in [Tr -> Transport] /\ \A t \in Tr : tr'[t].addrs = tr[t].addrs
  <2>1. /\ tr[req[r].tr] \in Transport
        /\ tr' = [tr EXCEPT ![req[r].tr] = [tr[req[r].tr] EXCEPT !.closeIdle = FALSE]]
    BY <1>0, <1>1
  <2>2. /\ [tr[req[r].tr] EXCEPT !.closeIdle = FALSE] \in Transport
        /\ [tr[req[r].tr] EXCEPT !.closeIdle = FALSE].addrs = tr[req[r].tr].addrs
    BY <2>1 DEF Transport
  <2> QED BY <1>0, <1>1, <2>1, <2>2
<1>3. /\ req' \in [Req -> Request] /\ \A s \in Req : s # r => req'[s] = req[s]
      /\ req'[r].pc = "using" /\ req'[r].dest = req[r].dest /\ req'[r].addrs = req[r].addrs
      /\ req'[r].tr = req[r].tr /\ req'[r].conn = c
  <2> DEFINE using == [[req[r] EXCEPT !.pc = "using"] EXCEPT !.conn = c]
  <2>1. req' = [req EXCEPT ![r] = using] /\ req[r] \in Request
    BY <1>0 DEF Request
  <2>2. /\ using \in Request /\ using.pc = "using" /\ using.dest = req[r].dest
        /\ using.addrs = req[r].addrs /\ using.tr = req[r].tr /\ using.conn = c
    BY <2>1 DEF Request
  <2>3. req' \in [Req -> Request] /\ req'[r] = using /\ \A s \in Req : s # r => req'[s] = req[s]
    <3> HIDE DEF using
    <3> QED BY <1>0, <2>1, <2>2, RequestStep
  <2> QED BY <2>2, <2>3
<1>4. TypeOK' /\ SameAddrs
  BY <1>0, <1>2, <1>3, TypeOKParts DEF TypeOK, Pool, Transport, Request, SameAddrs
<1>5. KeyedRight'
  BY <1>0, <1>4, KeepsKeyed DEF IInv, KeyedRight
<1>6. ASSUME NEW i \in Conn PROVE LeadsRight(i)'
  <2>1. CASE i = c
    BY <1>1, <1>2, <2>1 DEF LeadsRight
  <2>2. CASE i # c
    BY <1>0, <1>4, <2>2, KeepsLeading DEF IInv
  <2> QED BY <2>1, <2>2
<1>7. ASSUME NEW s \in Req, s # r
      PROVE  /\ VettedRight(s)' /\ HeldRight(s)' /\ UsesRight(s)'
             /\ req'[s].pc = "using" => req'[s].conn # c
  <2>1. req[s].pc = "using" => req[s].conn # c
    BY DEF IInv, RequestsRight, UsesRight
  <2>2. Same(s)
    BY <1>3, <1>7, <2>1 DEF Same, IInv, RequestsRight, UsesRight
  <2> QED BY <1>3, <1>4, <1>7, <2>1, <2>2, KeepsRequest DEF IInv, RequestsRight
<1>8. VettedRight(r)' /\ HeldRight(r)' /\ UsesRight(r)'
  BY <1>1, <1>2, <1>3 DEF IInv, RequestsRight, VettedRight, HeldRight, UsesRight
<1>9. Exclusive'
  BY <1>3, <1>7 DEF IInv, Exclusive
<1> QED BY <1>4, <1>5, <1>6, <1>7, <1>8, <1>9 DEF IInv, RequestsRight

\* An idle connection of the request's own transport.
LEMMA ReuseStep ==
  ASSUME IInv, NEW r \in Req, NEW c \in Conn, Reuse(r, c)
  PROVE  IInv'
<1>0. conn \in [Conn -> Connection \cup {Nil}] /\ LeadsRight(c) /\ Nil \notin Connection
  BY TypeOKParts, UpstreamPoolsAssumption DEF IInv
<1>1. conn[c] # Nil /\ conn[c].st = "idle" /\ conn[c].tr = req[r].tr /\ conn[c] \in Connection
  BY <1>0 DEF Reuse
<1>2. conn' = [conn EXCEPT ![c].st = "busy"]
  BY DEF Reuse
<1>3. /\ conn' \in [Conn -> Connection \cup {Nil}] /\ conn'[c] \in Connection
      /\ \A i \in Conn : i # c => conn'[i] = conn[i]
      /\ conn'[c].st = "busy" /\ conn'[c].tr = conn[c].tr /\ conn'[c].addr = conn[c].addr
  BY <1>0, <1>1, <1>2 DEF Connection
<1>4. conn'[c] # Nil /\ conn'[c].addr \in tr[req[r].tr].addrs
  BY <1>0, <1>1, <1>3 DEF LeadsRight
<1> QED BY <1>1, <1>3, <1>4, UsesStep DEF Reuse

\* A connection its transport dials.
LEMMA DialNewStep ==
  ASSUME IInv, NEW r \in Req, NEW c \in Conn, DialNew(r, c)
  PROVE  IInv'
<1>0. /\ tr \in [Tr -> Transport] /\ conn \in [Conn -> Connection \cup {Nil}]
      /\ req[r].tr \in Tr /\ Nil \notin Connection
  BY TypeOKParts, UpstreamPoolsAssumption DEF IInv, RequestsRight, HeldRight, DialNew
<1>1. PICK a \in tr[req[r].tr].addrs :
        conn' = [conn EXCEPT ![c] = [addr |-> a, tr |-> req[r].tr, st |-> "busy", age |-> 0]]
  BY DEF DialNew
<1>2. [addr |-> a, tr |-> req[r].tr, st |-> "busy", age |-> 0] \in Connection
  BY <1>0, <1>1, Ages DEF Connection, Transport
<1>3. /\ conn' \in [Conn -> Connection \cup {Nil}] /\ conn'[c] \in Connection
      /\ \A i \in Conn : i # c => conn'[i] = conn[i]
      /\ conn'[c].st = "busy" /\ conn'[c].tr = req[r].tr /\ conn'[c].addr = a
  BY <1>0, <1>1, <1>2
<1> QED BY <1>0, <1>1, <1>3, UsesStep DEF DialNew

\* A request is over; the connections that others use are left alone.
LEMMA OverStep ==
  ASSUME IInv, NEW r \in Req, req' = [req EXCEPT ![r] = NoReq], UNCHANGED pools,
         NEW f \in [Tr -> Transport], \A t \in Tr : f[t].addrs = tr[t].addrs, Transports(f),
         conn' \in [Conn -> Connection \cup {Nil}],
         \A c \in Conn : conn'[c] # Nil => /\ conn[c] # Nil /\ conn'[c].addr = conn[c].addr
                                           /\ conn'[c].tr = conn[c].tr,
         \A s \in Req : s # r /\ req[s].pc = "using" => conn'[req[s].conn] = conn[req[s].conn]
  PROVE  IInv'
<1>0. /\ pools \subseteq Pool /\ tr \in [Tr -> Transport] /\ TypeOK
      /\ conn \in [Conn -> Connection \cup {Nil}] /\ req \in [Req -> Request]
  BY TypeOKParts DEF IInv
<1>1. tr' \in [Tr -> Transport] /\ \A t \in Tr : ~Unused(t)' => tr'[t] = f[t]
  BY TransportsStep
<1>2. /\ req' \in [Req -> Request] /\ \A s \in Req : s # r => req'[s] = req[s]
      /\ req'[r].pc = "none"
  BY <1>0, EmptyTypes DEF NoReq
<1>3. TypeOK' /\ SameAddrs
  BY <1>0, <1>1, <1>2, TypeOKParts DEF TypeOK, Pool, Transport, Request, SameAddrs
<1>4. KeyedRight'
  BY <1>0, <1>3, KeepsKeyed DEF IInv, KeyedRight
<1>5. ASSUME NEW c \in Conn PROVE LeadsRight(c)'
  BY <1>0, <1>3, KeepsLeading DEF IInv
<1>6. ASSUME NEW s \in Req, s # r PROVE VettedRight(s)' /\ HeldRight(s)' /\ UsesRight(s)'
  <2>1. Same(s)
    BY <1>2, <1>6 DEF Same
  <2> QED BY <1>3, <2>1, KeepsRequest DEF IInv, RequestsRight
<1>7. VettedRight(r)' /\ HeldRight(r)' /\ UsesRight(r)'
  BY <1>2 DEF VettedRight, HeldRight, UsesRight
<1>8. Exclusive'
  BY <1>2 DEF IInv, Exclusive
<1> QED BY <1>3, <1>4, <1>5, <1>6, <1>7, <1>8 DEF IInv, RequestsRight

\* The dial fails.
LEMMA DialFailsStep ==
  ASSUME IInv, NEW r \in Req, DialFails(r)
  PROVE  IInv'
<1> DEFINE f == [tr EXCEPT ![req[r].tr].closeIdle = FALSE]
<1>0. tr \in [Tr -> Transport] /\ conn \in [Conn -> Connection \cup {Nil}] /\ req[r].tr \in Tr
  BY TypeOKParts DEF IInv, RequestsRight, HeldRight, DialFails
<1>1. f \in [Tr -> Transport] /\ \A t \in Tr : f[t].addrs = tr[t].addrs
  BY <1>0 DEF Transport
<1>2. Transports(f) /\ req' = [req EXCEPT ![r] = NoReq] /\ UNCHANGED <<pools, conn>>
  BY DEF DialFails
<1> HIDE DEF f
<1> QED BY <1>0, <1>1, <1>2, OverStep

\* The response ends: the connection was the request's own.
LEMMA FinishStep ==
  ASSUME IInv, NEW r \in Req, NEW good \in BOOLEAN, Finish(r, good)
  PROVE  IInv'
<1>0. /\ tr \in [Tr -> Transport] /\ conn \in [Conn -> Connection \cup {Nil}]
      /\ req[r].pc = "using" /\ req[r].conn \in Conn /\ conn[req[r].conn] # Nil
  BY TypeOKParts DEF IInv, RequestsRight, UsesRight, Finish
<1> DEFINE c == req[r].conn
           back == [conn[c] EXCEPT !.st = "idle", !.age = 0]
<1>1. /\ back \in Connection /\ back.addr = conn[c].addr /\ back.tr = conn[c].tr
  BY <1>0, Ages DEF Connection
<1>2. \/ conn' = [conn EXCEPT ![c] = back]
      \/ conn' = [conn EXCEPT ![c] = Nil]
  BY <1>0 DEF Finish
<1> HIDE DEF back
<1>3. /\ conn' \in [Conn -> Connection \cup {Nil}]
      /\ \A i \in Conn : i # c => conn'[i] = conn[i]
      /\ \A i \in Conn : conn'[i] # Nil => /\ conn[i] # Nil /\ conn'[i].addr = conn[i].addr
                                           /\ conn'[i].tr = conn[i].tr
  BY <1>0, <1>1, <1>2
<1>4. ASSUME NEW s \in Req, s # r, req[s].pc = "using"
      PROVE  conn'[req[s].conn] = conn[req[s].conn]
  BY <1>0, <1>3, <1>4 DEF IInv, Exclusive, RequestsRight, UsesRight
<1>5. Transports(tr) /\ req' = [req EXCEPT ![r] = NoReq] /\ UNCHANGED pools
  BY DEF Finish
<1> QED BY <1>0, <1>3, <1>4, <1>5, OverStep

\* Connections nobody uses are closed, and pools go from the map.
LEMMA ClosesStep ==
  ASSUME IInv, UNCHANGED req, pools' \subseteq pools,
         NEW f \in [Tr -> Transport], \A t \in Tr : f[t].addrs = tr[t].addrs, Transports(f),
         conn' \in [Conn -> Connection \cup {Nil}],
         \A c \in Conn : conn'[c] # Nil => conn'[c] = conn[c],
         \A c \in Conn : conn[c].st = "busy" => conn'[c] = conn[c]
  PROVE  IInv'
<1>0. /\ pools \subseteq Pool /\ tr \in [Tr -> Transport] /\ TypeOK
      /\ conn \in [Conn -> Connection \cup {Nil}] /\ req \in [Req -> Request]
  BY TypeOKParts DEF IInv
<1>1. tr' \in [Tr -> Transport] /\ \A t \in Tr : ~Unused(t)' => tr'[t] = f[t]
  BY TransportsStep
<1>2. TypeOK' /\ SameAddrs
  BY <1>0, <1>1, TypeOKParts DEF TypeOK, Pool, Transport, Request, SameAddrs
<1>3. KeyedRight'
  BY <1>0, <1>2, KeepsKeyed DEF IInv, KeyedRight
<1>4. ASSUME NEW c \in Conn PROVE LeadsRight(c)'
  BY <1>0, <1>2, KeepsLeading DEF IInv
<1>5. ASSUME NEW s \in Req PROVE VettedRight(s)' /\ HeldRight(s)' /\ UsesRight(s)'
  <2>1. Same(s)
    BY DEF Same, IInv, RequestsRight, UsesRight
  <2> QED BY <1>2, <2>1, KeepsRequest DEF IInv, RequestsRight
<1>6. Exclusive'
  BY DEF IInv, Exclusive
<1> QED BY <1>2, <1>3, <1>4, <1>5, <1>6 DEF IInv, RequestsRight

\* IdleConnTimeout.
LEMMA ExpireStep ==
  ASSUME IInv, NEW c \in Conn, Expire(c)
  PROVE  IInv'
<1>0. tr \in [Tr -> Transport] /\ conn \in [Conn -> Connection \cup {Nil}]
  BY TypeOKParts DEF IInv
<1>1. /\ conn' \in [Conn -> Connection \cup {Nil}]
      /\ \A i \in Conn : conn'[i] # Nil => conn'[i] = conn[i]
      /\ \A i \in Conn : conn[i].st = "busy" => conn'[i] = conn[i]
  BY <1>0 DEF Expire, TimedOut
<1> QED BY <1>0, <1>1, ClosesStep DEF Expire

\* sweep takes pools, and their idle connections.
LEMMA SweepStep ==
  ASSUME IInv, Sweep
  PROVE  IInv'
<1> DEFINE T == {p.tr : p \in Stale}
<1>0. TypeOK
  BY DEF IInv
<1>1. CloseIdle(T) /\ Transports(Closing(T)) /\ UNCHANGED req /\ pools' \subseteq pools
  BY DEF Sweep
<1> HIDE DEF T
<1> QED BY <1>0, <1>1, CloseIdleStep, ClosingStep, ClosesStep

\* Time passes.
LEMMA TickStep ==
  ASSUME IInv, Tick
  PROVE  IInv'
<1>0. /\ pools \subseteq Pool /\ tr \in [Tr -> Transport] /\ TypeOK
      /\ conn \in [Conn -> Connection \cup {Nil}] /\ req \in [Req -> Request]
      /\ Nil \notin Connection
  BY TypeOKParts, UpstreamPoolsAssumption DEF IInv
<1>1. ASSUME NEW p \in pools'
      PROVE  p \in Pool /\ \E q \in pools : q.key = p.key /\ q.tr = p.tr
  <2>1. PICK q \in pools : p = [q EXCEPT !.age = Older(@)]
    BY DEF Tick
  <2>2. q \in Pool /\ Older(q.age) \in Age
    BY <1>0, Ages DEF Pool
  <2> QED BY <2>1, <2>2 DEF Pool
<1>2. ASSUME NEW c \in Conn
      PROVE  /\ conn'[c] \in Connection \cup {Nil} /\ (conn'[c] # Nil <=> conn[c] # Nil)
             /\ conn[c] # Nil => conn'[c].addr = conn[c].addr /\ conn'[c].tr = conn[c].tr
             /\ conn[c] # Nil /\ conn[c].st = "busy" => conn'[c] = conn[c]
  <2>1. CASE conn[c] # Nil /\ conn[c].st = "idle"
    <3>1. conn'[c] = [conn[c] EXCEPT !.age = Older(@)] /\ conn[c] \in Connection
      BY <1>0, <2>1 DEF Tick
    <3>2. Older(conn[c].age) \in Age
      BY <3>1, Ages DEF Connection
    <3>3. conn'[c] \in Connection /\ conn'[c].addr = conn[c].addr /\ conn'[c].tr = conn[c].tr
      BY <3>1, <3>2 DEF Connection
    <3> QED BY <1>0, <2>1, <3>3
  <2>2. CASE ~(conn[c] # Nil /\ conn[c].st = "idle")
    <3>1. conn'[c] = conn[c]
      BY <2>2 DEF Tick
    <3> QED BY <1>0, <3>1
  <2> QED BY <2>1, <2>2
<1>3. ASSUME NEW r \in Req
      PROVE  /\ req'[r] \in Request /\ req'[r].pc = req[r].pc /\ req'[r].dest = req[r].dest
             /\ req'[r].addrs = req[r].addrs /\ req'[r].tr = req[r].tr
             /\ req'[r].conn = req[r].conn
  <2>1. CASE req[r].pc = "vetted"
    <3>1. req'[r] = [req[r] EXCEPT !.age = Older(@)] /\ req[r] \in Request
      BY <1>0, <2>1 DEF Tick
    <3>2. Older(req[r].age) \in Age
      BY <3>1, Ages DEF Request
    <3> QED BY <3>1, <3>2 DEF Request
  <2>2. CASE req[r].pc # "vetted"
    <3>1. req'[r] = req[r]
      BY <2>2 DEF Tick
    <3> QED BY <1>0, <3>1
  <2> QED BY <2>1, <2>2
<1>4. /\ pools' \subseteq Pool /\ conn' \in [Conn -> Connection \cup {Nil}]
      /\ req' \in [Req -> Request] /\ tr' = tr
  BY <1>1, <1>2, <1>3 DEF Tick
<1>5. TypeOK' /\ SameAddrs
  BY <1>0, <1>4, TypeOKParts DEF TypeOK, Pool, Transport, Request, SameAddrs
<1>6. KeyedRight'
  BY <1>0, <1>1, <1>5, KeepsKeyed DEF IInv, KeyedRight
<1>7. ASSUME NEW c \in Conn PROVE LeadsRight(c)'
  BY <1>0, <1>2, <1>5, KeepsLeading DEF IInv
<1>8. ASSUME NEW s \in Req PROVE VettedRight(s)' /\ HeldRight(s)' /\ UsesRight(s)'
  <2>1. Same(s)
    BY <1>2, <1>3 DEF Same, IInv, RequestsRight, UsesRight
  <2> QED BY <1>5, <2>1, KeepsRequest DEF IInv, RequestsRight
<1>9. Exclusive'
  BY <1>3 DEF IInv, Exclusive
<1> QED BY <1>5, <1>6, <1>7, <1>8, <1>9 DEF IInv, RequestsRight

\* There are no requests, pools or connections at first.
LEMMA InitInv == Init => IInv
<1> SUFFICES ASSUME Init PROVE IInv
  OBVIOUS
<1>1. TypeOK
  BY EmptyTypes, TypeOKParts DEF Init
<1>2. KeyedRight /\ \A c \in Conn : LeadsRight(c)
  BY DEF Init, KeyedRight, LeadsRight
<1>3. RequestsRight /\ Exclusive
  BY DEF Init, RequestsRight, VettedRight, HeldRight, UsesRight, Exclusive, NoReq
<1> QED BY <1>1, <1>2, <1>3 DEF IInv

-----------------------------------------------------------------------------
(* Theorems *)

\* The addresses a request was approved for are those its pool, its transport
\* and its connection stand for, in every state (upstream.go).
THEOREM Inductive == Spec => []IInv
<1>1. IInv /\ [Next]_vars => IInv'
  <2> SUFFICES ASSUME IInv, [Next]_vars PROVE IInv'
    OBVIOUS
  <2>1. CASE UNCHANGED vars
    BY <2>1 DEF vars, IInv, TypeOK, KeyedRight, RequestsRight, VettedRight, HeldRight, UsesRight,
                LeadsRight, Exclusive
  <2> QED
    BY <2>1, VettedStep, TransportHitStep, TransportMissStep, DialFailsStep, ReuseStep, DialNewStep,
       FinishStep, ExpireStep, SweepStep, TickStep DEF Next
<1> QED BY <1>1, InitInv, PTL DEF Spec

\* The pools, transports, connections and requests have their types.
THEOREM TypeCorrect == Spec => []TypeOK
<1>1. IInv => TypeOK
  BY DEF IInv
<1> QED BY <1>1, Inductive, PTL

\* For any number of requests, pools and vettings, and whatever is evicted,
\* swept or reused: a pooled connection never serves a request that was not
\* approved for where it leads (upstream.go:24).
THEOREM ApprovedAlways == Spec => []ServedWhereApproved
<1>1. IInv => ServedWhereApproved
  BY DEF IInv, ServedWhereApproved, RequestsRight, HeldRight, UsesRight, LeadsRight
<1> QED BY <1>1, Inductive, PTL

\* Of a set within a bound, taking one out makes room for one.
LEMMA TakeOne ==
  ASSUME NEW S, IsFiniteSet(S), NEW x \in S, NEW n \in Nat, Cardinality(S) <= n
  PROVE  IsFiniteSet(S \ {x}) /\ Cardinality(S \ {x}) < n
<1>1. Cardinality(S) \in Nat
  BY FS_CardinalityType
<1>2. IsFiniteSet(S \ {x}) /\ Cardinality(S \ {x}) = Cardinality(S) - 1
  BY FS_RemoveElement
<1> QED BY <1>1, <1>2

\* With room for one, one more is within the bound.
LEMMA PutOne ==
  ASSUME NEW S, IsFiniteSet(S), NEW x, NEW n \in Nat, Cardinality(S) < n
  PROVE  IsFiniteSet(S \cup {x}) /\ Cardinality(S \cup {x}) <= n
<1>1. Cardinality(S) \in Nat
  BY FS_CardinalityType
<1>2. /\ IsFiniteSet(S \cup {x})
      /\ Cardinality(S \cup {x}) = Cardinality(S) \/ Cardinality(S \cup {x}) = Cardinality(S) + 1
  BY FS_AddElement
<1> QED BY <1>1, <1>2

\* Putting one in and taking none or one out, with room for it.
LEMMA MissBounded ==
  ASSUME TypeOK, MapBounded, NEW r \in Req, TransportMiss(r)
  PROVE  MapBounded'
<1> DEFINE k == Key(req[r].dest, req[r].addrs)
<1>1. PICK D \in (IF Full THEN {{p} : p \in Oldest(pools)} ELSE {{}}), t \in Tr :
        pools' = (pools \ D) \cup {[key |-> k, tr |-> t, age |-> req[r].age]}
  BY DEF TransportMiss
<1> DEFINE new == [key |-> k, tr |-> t, age |-> req[r].age]
<1>2. new.key = k /\ \A p \in pools : p.key # k
  BY DEF TransportMiss, InMap
<1> HIDE DEF new, k
<1>3. pools' = (pools \ D) \cup {new}
  BY <1>1 DEF new
<1>4. \A p, q \in pools' : p.key = q.key => p = q
  BY <1>2, <1>3 DEF MapBounded
<1>5. IsFiniteSet(pools) /\ Cardinality(pools) \in Nat /\ MaxPools \in Nat
      /\ Cardinality(pools) <= MaxPools
  BY FS_CardinalityType, UpstreamPoolsAssumption DEF MapBounded
<1>6. IsFiniteSet(pools \ D) /\ Cardinality(pools \ D) < MaxPools
  <2>1. CASE Full
    <3>1. PICK p \in pools : D = {p}
      BY <1>1, <2>1 DEF Oldest
    <3> QED BY <1>5, <3>1, TakeOne
  <2>2. CASE ~Full
    <3>1. D = {} /\ pools \ D = pools
      BY <1>1, <2>2
    <3> QED BY <1>5, <2>2, <3>1 DEF Full
  <2> QED BY <2>1, <2>2
<1>7. IsFiniteSet(pools') /\ Cardinality(pools') <= MaxPools
  BY <1>3, <1>5, <1>6, PutOne
<1> QED BY <1>4, <1>7 DEF MapBounded

\* A hit changes the time a pool was used.
LEMMA HitBounded ==
  ASSUME TypeOK, MapBounded, NEW r \in Req, TransportHit(r)
  PROVE  MapBounded'
<1>1. PICK p \in pools : pools' = (pools \ {p}) \cup {[p EXCEPT !.age = req[r].age]}
  BY DEF TransportHit, InMap
<1>2. p \in Pool
  BY TypeOKParts
<1> DEFINE q == [p EXCEPT !.age = req[r].age]
<1>3. q.key = p.key /\ pools' = (pools \ {p}) \cup {q}
  BY <1>1, <1>2 DEF Pool
<1> HIDE DEF q
<1>4. \A a, b \in pools' : a.key = b.key => a = b
  BY <1>3 DEF MapBounded
<1>5. IsFiniteSet(pools) /\ Cardinality(pools) \in Nat /\ Cardinality(pools) <= MaxPools
      /\ MaxPools \in Nat
  BY FS_CardinalityType, UpstreamPoolsAssumption DEF MapBounded
<1>6. IsFiniteSet(pools \ {p}) /\ Cardinality(pools \ {p}) < MaxPools
  BY <1>5, TakeOne
<1>7. IsFiniteSet(pools') /\ Cardinality(pools') <= MaxPools
  BY <1>3, <1>5, <1>6, PutOne
<1> QED BY <1>4, <1>7 DEF MapBounded

\* Ageing maps pools to pools.
LEMMA TickBounded ==
  ASSUME TypeOK, MapBounded, Tick
  PROVE  MapBounded'
<1> DEFINE f == [p \in pools |-> [p EXCEPT !.age = Older(@)]]
<1>1. \A p \in pools : f[p].key = p.key
  BY TypeOKParts DEF Pool
<1>2. pools' = {f[p] : p \in pools}
  BY DEF Tick
<1> HIDE DEF f
<1>3. f \in Surjection(pools, pools')
  BY <1>2 DEF Surjection, f
<1>4. \A a, b \in pools' : a.key = b.key => a = b
  BY <1>1, <1>2 DEF MapBounded
<1>5. /\ IsFiniteSet(pools') /\ Cardinality(pools') <= Cardinality(pools)
      /\ Cardinality(pools') \in Nat /\ Cardinality(pools) \in Nat
  BY <1>3, FS_Surjection, FS_CardinalityType DEF MapBounded
<1> QED BY <1>4, <1>5, UpstreamPoolsAssumption DEF MapBounded

\* For any maxUpstreamPools and any order of hits, misses and sweeps, the map
\* stays within it (transport and dropOldestLocked).
THEOREM PoolsStayBounded == Spec => []MapBounded
<1>1. Init => MapBounded
  BY FS_EmptySet, UpstreamPoolsAssumption DEF Init, MapBounded
<1>2. TypeOK /\ MapBounded /\ [Next]_vars => MapBounded'
  <2> SUFFICES ASSUME TypeOK, MapBounded, [Next]_vars PROVE MapBounded'
    OBVIOUS
  <2>1. CASE Sweep
    <3>1. pools' \in SUBSET pools
      BY <2>1 DEF Sweep
    <3>2. /\ IsFiniteSet(pools') /\ Cardinality(pools') <= Cardinality(pools)
          /\ Cardinality(pools') \in Nat /\ Cardinality(pools) \in Nat
      BY <3>1, FS_Subset, FS_CardinalityType DEF MapBounded
    <3> QED BY <3>1, <3>2, UpstreamPoolsAssumption DEF MapBounded
  <2>2. CASE UNCHANGED pools
    BY <2>2 DEF MapBounded
  <2>3. \/ Sweep \/ Tick \/ UNCHANGED pools
        \/ \E r \in Req : TransportHit(r) \/ TransportMiss(r)
    BY DEF Next, vars, Vetted, DialFails, Reuse, DialNew, Finish, Expire
  <2> QED BY <2>1, <2>2, <2>3, HitBounded, MissBounded, TickBounded
<1> QED BY <1>1, <1>2, TypeCorrect, PTL DEF Spec

-----------------------------------------------------------------------------
(* What leaves the map, and what is left behind *)

\* A pool goes from the map only after upstreamIdleTimeout without use, or to
\* make room in a full map of pools that were all used since.
GoesForAReason ==
  [][\A p \in pools : (\A q \in pools' : q.key # p.key) =>
       \/ p.age > IdleTimeout
       \/ Cardinality(pools) = MaxPools /\ \A q \in pools : q.age <= p.age]_vars

\* A step of Next that is neither a sweep nor a miss keeps the keys.
LEMMA KeysStay ==
  ASSUME TypeOK, [Next]_vars, ~Sweep, \A r \in Req : ~TransportMiss(r), NEW p \in pools
  PROVE  \E q \in pools' : q.key = p.key
<1>0. pools \subseteq Pool
  BY TypeOKParts
<1>1. CASE UNCHANGED pools
  BY <1>1
<1>2. ASSUME NEW r \in Req, TransportHit(r) PROVE \E q \in pools' : q.key = p.key
  <2>1. PICK o \in pools : pools' = (pools \ {o}) \cup {[o EXCEPT !.age = req[r].age]}
    BY <1>2 DEF TransportHit, InMap
  <2>2. [o EXCEPT !.age = req[r].age].key = o.key
    BY <1>0, <2>1 DEF Pool
  <2> QED BY <2>1, <2>2
<1>3. CASE Tick
  <2>1. [p EXCEPT !.age = Older(@)] \in pools'
    BY <1>3 DEF Tick
  <2>2. [p EXCEPT !.age = Older(@)].key = p.key
    BY <1>0 DEF Pool
  <2> QED BY <2>1, <2>2
<1> QED BY <1>1, <1>2, <1>3 DEF Next, vars, Vetted, DialFails, Reuse, DialNew, Finish, Expire

\* dropOldestLocked takes a pool only from a full map and the least recently
\* used one, and sweep only stale ones (upstream.go:60), for any
\* maxUpstreamPools, although a request may read the clock before others and
\* reach the mutex after them; a hit or the clock takes none.
THEOREM OldestMakesRoom == Spec => GoesForAReason
<1>1. ASSUME TypeOK, MapBounded, [Next]_vars, NEW p \in pools, \A q \in pools' : q.key # p.key
      PROVE  \/ p.age > IdleTimeout
             \/ Cardinality(pools) = MaxPools /\ \A q \in pools : q.age <= p.age
  <2>1. CASE Sweep
    <3>1. p \notin pools'
      BY <1>1
    <3> QED BY <2>1, <3>1 DEF Sweep, Stale
  <2>2. ASSUME NEW r \in Req, TransportMiss(r)
        PROVE  Cardinality(pools) = MaxPools /\ \A q \in pools : q.age <= p.age
    <3>1. PICK D \in (IF Full THEN {{o} : o \in Oldest(pools)} ELSE {{}}) : pools \ D \subseteq pools'
      BY <2>2 DEF TransportMiss
    <3>2. p \in D
      BY <1>1, <3>1
    <3>3. Full /\ p \in Oldest(pools)
      BY <3>1, <3>2
    <3>4. Cardinality(pools) \in Nat /\ MaxPools \in Nat /\ Cardinality(pools) <= MaxPools
      BY <1>1, FS_CardinalityType, UpstreamPoolsAssumption DEF MapBounded
    <3>5. Cardinality(pools) = MaxPools
      BY <3>3, <3>4 DEF Full
    <3> QED BY <3>3, <3>5 DEF Oldest
  <2> QED BY <1>1, <2>1, <2>2, KeysStay
<1>2. TypeOK /\ MapBounded /\ [Next]_vars =>
        [\A p \in pools : (\A q \in pools' : q.key # p.key) =>
           \/ p.age > IdleTimeout
           \/ Cardinality(pools) = MaxPools /\ \A q \in pools : q.age <= p.age]_vars
  BY <1>1
<1> QED BY <1>2, TypeCorrect, PoolsStayBounded, PTL DEF Spec, GoesForAReason

\* A busy connection has a request, and an idle one a timer that has not run out.
ConnsOwned ==
  \A c \in Conn : conn[c] # Nil =>
    /\ conn[c].st = "busy" => \E r \in Req : req[r].pc = "using" /\ req[r].conn = c
    /\ conn[c].st = "idle" => conn[c].age <= IdleTimeout

\* No connection is forgotten: one of a transport that is in nobody's hands and
\* out of the map is idle, and closed within IdleConnTimeout of its last use.
NoneForgotten ==
  \A c \in Conn : conn[c] # Nil =>
    \/ \E r \in Req : req[r].pc = "using" /\ req[r].conn = c /\ req[r].tr = conn[c].tr
    \/ conn[c].st = "idle" /\ conn[c].age <= IdleTimeout

\* Requests that use a connection go on, and connections stay as they are or close.
LEMMA KeepsOwned ==
  ASSUME ConnsOwned, \A c \in Conn : conn'[c] # Nil => conn'[c] = conn[c],
         \A r \in Req : req[r].pc = "using" => req'[r].pc = "using" /\ req'[r].conn = req[r].conn
  PROVE  ConnsOwned'
  BY DEF ConnsOwned

\* The steps of requests before they have a connection.
LEMMA EarlyOwned ==
  ASSUME IInv, ConnsOwned, NEW r \in Req,
         \/ \E d \in Dest, A \in Vettings : Vetted(r, d, A)
         \/ TransportHit(r) \/ TransportMiss(r) \/ DialFails(r)
  PROVE  ConnsOwned'
<1>0. req \in [Req -> Request] /\ TypeOK
  BY TypeOKParts DEF IInv
<1>1. req[r].pc # "using" /\ \A s \in Req : s # r => req'[s] = req[s]
  BY <1>0 DEF Vetted, TransportHit, TransportMiss, DialFails
<1>2. \A c \in Conn : conn'[c] # Nil => conn'[c] = conn[c]
  BY <1>0, CloseIdleStep DEF Vetted, TransportHit, TransportMiss, DialFails
<1> QED BY <1>1, <1>2, KeepsOwned

\* RoundTrip takes a connection, and has it.
LEMMA TakesOwned ==
  ASSUME IInv, ConnsOwned, NEW r \in Req, NEW c \in Conn, Reuse(r, c) \/ DialNew(r, c)
  PROVE  ConnsOwned'
<1>0. req \in [Req -> Request] /\ conn \in [Conn -> Connection \cup {Nil}]
  BY TypeOKParts DEF IInv
<1>1. req[r].pc = "got" /\ req' = [req EXCEPT ![r].pc = "using", ![r].conn = c]
  BY DEF Reuse, DialNew
<1>2. /\ req'[r].pc = "using" /\ req'[r].conn = c
      /\ \A s \in Req : s # r => req'[s] = req[s]
  BY <1>0, <1>1 DEF Request
<1>3. conn'[c].st = "busy" /\ \A i \in Conn : i # c => conn'[i] = conn[i]
  BY <1>0 DEF Reuse, DialNew, Connection
<1> SUFFICES ASSUME NEW i \in Conn, conn'[i] # Nil
             PROVE  /\ conn'[i].st = "busy" => \E s \in Req : req'[s].pc = "using" /\ req'[s].conn = i
                    /\ conn'[i].st = "idle" => conn'[i].age <= IdleTimeout
  BY DEF ConnsOwned
<1>4. CASE i = c
  BY <1>2, <1>3, <1>4
<1>5. CASE i # c
  <2>1. conn'[i] = conn[i]
    BY <1>3, <1>5
  <2>2. \A s \in Req : req[s].pc = "using" => req'[s] = req[s]
    BY <1>1, <1>2
  <2> QED BY <2>1, <2>2 DEF ConnsOwned
<1> QED BY <1>4, <1>5

\* The response ends, and with it the use of its connection.
LEMMA FinishOwned ==
  ASSUME IInv, ConnsOwned, NEW r \in Req, NEW good \in BOOLEAN, Finish(r, good)
  PROVE  ConnsOwned'
<1>0. /\ req \in [Req -> Request] /\ conn \in [Conn -> Connection \cup {Nil}]
      /\ IdleTimeout \in Nat
  BY TypeOKParts, UpstreamPoolsAssumption DEF IInv
<1>1. PICK c \in Conn : c = req[r].conn /\ conn[c] # Nil
  BY DEF IInv, RequestsRight, UsesRight, Finish
<1>2. \A s \in Req : s # r => req'[s] = req[s]
  BY <1>0 DEF Finish
<1>3. \A i \in Conn : i # c => conn'[i] = conn[i]
  BY <1>0, <1>1 DEF Finish
<1>4. conn'[c] # Nil => conn'[c].st = "idle" /\ conn'[c].age = 0
  <2>1. conn[c] \in Connection
    BY <1>0, <1>1
  <2>2. [conn[c] EXCEPT !.st = "idle", !.age = 0].st = "idle"
        /\ [conn[c] EXCEPT !.st = "idle", !.age = 0].age = 0
    BY <2>1 DEF Connection
  <2>3. conn'[c] \in {[conn[c] EXCEPT !.st = "idle", !.age = 0], Nil}
    BY <1>0, <1>1 DEF Finish
  <2> QED BY <2>2, <2>3
<1> SUFFICES ASSUME NEW i \in Conn, conn'[i] # Nil
             PROVE  /\ conn'[i].st = "busy" => \E s \in Req : req'[s].pc = "using" /\ req'[s].conn = i
                    /\ conn'[i].st = "idle" => conn'[i].age <= IdleTimeout
  BY DEF ConnsOwned
<1>5. CASE i = c
  <2>1. 0 <= IdleTimeout
    BY <1>0
  <2>2. conn'[i].st # "busy" /\ conn'[i].age = 0
    BY <1>4, <1>5
  <2> QED BY <2>1, <2>2
<1>6. CASE i # c
  <2>1. conn'[i] = conn[i]
    BY <1>3, <1>6
  <2>2. \A s \in Req : req[s].conn = i => req'[s] = req[s]
    BY <1>1, <1>2, <1>6
  <2> QED BY <2>1, <2>2 DEF ConnsOwned
<1> QED BY <1>5, <1>6

\* Time passes only when no idle connection is due.
LEMMA TickOwned ==
  ASSUME IInv, ConnsOwned, Tick
  PROVE  ConnsOwned'
<1>0. /\ req \in [Req -> Request] /\ conn \in [Conn -> Connection \cup {Nil}]
      /\ IdleTimeout \in Nat
  BY TypeOKParts, UpstreamPoolsAssumption DEF IInv
<1>1. \A r \in Req : req[r].pc = "using" => req'[r] = req[r]
  BY <1>0 DEF Tick
<1> SUFFICES ASSUME NEW c \in Conn, conn'[c] # Nil
             PROVE  /\ conn'[c].st = "busy" => \E s \in Req : req'[s].pc = "using" /\ req'[s].conn = c
                    /\ conn'[c].st = "idle" => conn'[c].age <= IdleTimeout
  BY DEF ConnsOwned
<1>2. CASE conn[c] # Nil /\ conn[c].st = "idle"
  <2>1. conn[c] \in Connection /\ conn[c].age \in Nat /\ ~(conn[c].age >= IdleTimeout)
    BY <1>0, <1>2 DEF Tick, TimedOut, Connection, Age
  <2>2. conn'[c] = [conn[c] EXCEPT !.age = Older(conn[c].age)]
    BY <1>0, <1>2 DEF Tick
  <2>3. conn'[c].st = "idle" /\ conn'[c].age = Older(conn[c].age)
    BY <1>2, <2>1, <2>2 DEF Connection
  <2>4. Older(conn[c].age) <= IdleTimeout
    BY <1>0, <2>1 DEF Older
  <2> QED BY <2>3, <2>4
<1>3. CASE ~(conn[c] # Nil /\ conn[c].st = "idle")
  <2>1. conn'[c] = conn[c]
    BY <1>3 DEF Tick
  <2> QED BY <1>1, <2>1 DEF ConnsOwned
<1> QED BY <1>2, <1>3

\* The safety half of DroppedDrain: whatever is evicted or swept while
\* requests run, every connection is somebody's or its timer runs, so that
\* nothing idles outside the map for longer than upstreamIdleTimeout.
THEOREM NoConnectionForgotten == Spec => []NoneForgotten
<1>1. Init => ConnsOwned
  BY DEF Init, ConnsOwned
<1>2. IInv /\ ConnsOwned /\ [Next]_vars => ConnsOwned'
  <2> SUFFICES ASSUME IInv, ConnsOwned, [Next]_vars PROVE ConnsOwned'
    OBVIOUS
  <2>1. CASE UNCHANGED vars
    BY <2>1 DEF vars, ConnsOwned
  <2>2. ASSUME NEW c \in Conn, Expire(c) PROVE ConnsOwned'
    <3>1. \A i \in Conn : conn'[i] # Nil => conn'[i] = conn[i]
      BY <2>2, TypeOKParts DEF Expire, IInv
    <3> QED BY <2>2, <3>1, KeepsOwned DEF Expire
  <2>3. CASE Sweep
    <3>1. \A i \in Conn : conn'[i] # Nil => conn'[i] = conn[i]
      BY <2>3, CloseIdleStep DEF Sweep, IInv
    <3> QED BY <2>3, <3>1, KeepsOwned DEF Sweep
  <2> QED BY <2>1, <2>2, <2>3, EarlyOwned, TakesOwned, FinishOwned, TickOwned DEF Next
<1>3. ASSUME IInv, ConnsOwned PROVE NoneForgotten
  <2> SUFFICES ASSUME NEW c \in Conn, conn[c] # Nil
               PROVE  \/ \E r \in Req : req[r].pc = "using" /\ req[r].conn = c /\ req[r].tr = conn[c].tr
                      \/ conn[c].st = "idle" /\ conn[c].age <= IdleTimeout
    BY DEF NoneForgotten
  <2>1. conn[c].st \in {"busy", "idle"}
    BY <1>3, TypeOKParts DEF IInv, Connection
  <2> QED BY <1>3, <2>1 DEF ConnsOwned, IInv, RequestsRight, UsesRight
<1> QED BY <1>1, <1>2, <1>3, Inductive, PTL DEF Spec
=============================================================================
