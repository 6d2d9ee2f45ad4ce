--------------------------- MODULE UpstreamPools ---------------------------
(***************************************************************************)
(* internal/proxy/upstream.go: requests that passed the check share        *)
(* http.Transports, one per approved destination.  A transport is an       *)
(* object with an identity: a request keeps the one it was given when the  *)
(* pool is dropped from the map meanwhile.                                 *)
(*                                                                         *)
(* What http.Transport does with a connection (take an idle one or dial,   *)
(* put it back, close it after IdleConnTimeout, close the idle ones on     *)
(* CloseIdleConnections and keep none until the next request) is external. *)
(* Times are ages that saturate just past upstreamIdleTimeout.             *)
(***************************************************************************)
EXTENDS Integers, FiniteSets

CONSTANTS
  Req,          \* request slots, reused by later requests
  Dest,         \* scheme|host|port
  Vettings,     \* the address sets a check may approve
  Tr,           \* identities of transports
  Conn,         \* identities of upstream connections
  Nil,
  MaxPools,     \* maxUpstreamPools
  IdleTimeout   \* upstreamIdleTimeout, in ticks

Age == 0..IdleTimeout + 1

\* A connection of a transport.
Connection == [addr : UNION Vettings, tr : Tr, st : {"busy", "idle"}, age : Age]

ASSUME UpstreamPoolsAssumption ==
  /\ MaxPools \in Nat \ {0} /\ IdleTimeout \in Nat \ {0}
  /\ Nil \notin Connection

VARIABLES
  pools,   \* the map: a set of [key, tr, age], age since used
  tr,      \* Tr -> Nil or the addresses its dialer reaches, and closeIdle
  conn,    \* Conn -> Nil or [addr, tr, st, age]
  req      \* Req -> step, vetted destination, age of its now, transport and connection

vars == <<pools, tr, conn, req>>

NoReq == [pc |-> "none", dest |-> Nil, addrs |-> {}, age |-> 0, tr |-> Nil, conn |-> Nil]

Older(a) == IF a > IdleTimeout THEN a ELSE a + 1

-----------------------------------------------------------------------------
\* Mutated form: the vetted addresses are not part of the key.
KeyNameOnly(d, A) == [dest |-> d, addrs |-> {}]

\* Mutated form: one address stands for all of them.
KeyOneAddr(d, A) == [dest |-> d, addrs |-> {CHOOSE a \in A : TRUE}]

\* poolKey: the sorted addresses are a set.
Key(d, A) == [dest |-> d, addrs |-> A]

InMap(k) == {p \in pools : p.key = k}

\* check approved the destination; roundTrip refuses an empty vetting, and
\* transport() reads the clock before it waits for the mutex.
Vetted(r, d, A) ==
  /\ req[r].pc = "none"
  /\ A # {}
  /\ req' = [req EXCEPT ![r] = [NoReq EXCEPT !.pc = "vetted", !.dest = d, !.addrs = A]]
  /\ UNCHANGED <<pools, tr, conn>>

\* CloseIdleConnections on the transports in T.
CloseIdle(T) ==
  conn' = [c \in Conn |-> IF conn[c] # Nil /\ conn[c].st = "idle" /\ conn[c].tr \in T
                          THEN Nil ELSE conn[c]]

\* A transport nobody can reach any more is garbage.
Unused(t) == /\ \A p \in pools : p.tr # t
             /\ \A r \in Req : req[r].tr # t
             /\ \A c \in Conn : conn[c] = Nil \/ conn[c].tr # t

Garbage == [addrs |-> {}, closeIdle |-> FALSE]

\* The transports are as in f, except those this step makes garbage.
Transports(f) == tr' = [t \in Tr |-> IF Unused(t)' THEN Garbage ELSE f[t]]

\* Their idle connections were closed last: CloseIdleConnections.
Closing(T) == [t \in Tr |-> IF t \in T THEN [tr[t] EXCEPT !.closeIdle = TRUE] ELSE tr[t]]

\* t is what newUpstreamTransport allocates.
NewTransport(t) == Unused(t) /\ t = CHOOSE u \in Tr : Unused(u)

\* dropOldestLocked: the map is walked in any order, so any of the oldest.
Oldest(ps) == {p \in ps : \A q \in ps : q.age <= p.age}

Full == Cardinality(pools) >= MaxPools

\* transport(), under the mutex.
TransportHit(r) ==
  /\ req[r].pc = "vetted"
  /\ \E p \in InMap(Key(req[r].dest, req[r].addrs)) :
       /\ pools' = (pools \ {p}) \cup {[p EXCEPT !.age = req[r].age]}
       /\ req' = [req EXCEPT ![r].pc = "got", ![r].age = 0, ![r].tr = p.tr]
  /\ UNCHANGED <<tr, conn>>

TransportMiss(r) ==
  LET k == Key(req[r].dest, req[r].addrs)
  IN /\ req[r].pc = "vetted" /\ InMap(k) = {}
     /\ \E D \in IF Full THEN {{p} : p \in Oldest(pools)} ELSE {{}},
           t \in {u \in Tr : NewTransport(u)} :
          /\ CloseIdle({p.tr : p \in D})
          /\ pools' = (pools \ D) \cup {[key |-> k, tr |-> t, age |-> req[r].age]}
          /\ req' = [req EXCEPT ![r].pc = "got", ![r].age = 0, ![r].tr = t]
          /\ Transports([Closing({p.tr : p \in D}) EXCEPT ![t] =
                           [addrs |-> req[r].addrs, closeIdle |-> FALSE]])

\* RoundTrip takes an idle connection of its transport.
Reuse(r, c) ==
  /\ req[r].pc = "got"
  /\ conn[c] # Nil /\ conn[c].st = "idle" /\ conn[c].tr = req[r].tr
  /\ conn' = [conn EXCEPT ![c].st = "busy"]
  /\ tr' = [tr EXCEPT ![req[r].tr].closeIdle = FALSE]
  /\ req' = [req EXCEPT ![r].pc = "using", ![r].conn = c]
  /\ UNCHANGED pools

\* It finds none and dials, with the dial of the request that made the pool.
DialNew(r, c) ==
  /\ req[r].pc = "got" /\ conn[c] = Nil /\ c = CHOOSE i \in Conn : conn[i] = Nil
  /\ \A i \in Conn : conn[i] # Nil => ~(conn[i].st = "idle" /\ conn[i].tr = req[r].tr)
  /\ \E a \in tr[req[r].tr].addrs :
       conn' = [conn EXCEPT ![c] = [addr |-> a, tr |-> req[r].tr, st |-> "busy", age |-> 0]]
  /\ tr' = [tr EXCEPT ![req[r].tr].closeIdle = FALSE]
  /\ req' = [req EXCEPT ![r].pc = "using", ![r].conn = c]
  /\ UNCHANGED pools

\* The dial fails, or the client goes away before it is done.
DialFails(r) ==
  /\ req[r].pc = "got"
  /\ req' = [req EXCEPT ![r] = NoReq]
  /\ UNCHANGED <<pools, conn>>
  /\ Transports([tr EXCEPT ![req[r].tr].closeIdle = FALSE])

\* The response ends.  A connection in good order goes back to its transport,
\* which keeps it unless its idle connections were closed meanwhile.
Finish(r, good) ==
  /\ req[r].pc = "using"
  /\ conn' = [conn EXCEPT ![req[r].conn] =
                IF good /\ ~tr[req[r].tr].closeIdle THEN [@ EXCEPT !.st = "idle", !.age = 0]
                ELSE Nil]
  /\ req' = [req EXCEPT ![r] = NoReq]
  /\ UNCHANGED pools
  /\ Transports(tr)

\* IdleConnTimeout, as newUpstreamTransport sets it.
TimedOut(c) == conn[c] # Nil /\ conn[c].st = "idle" /\ conn[c].age >= IdleTimeout

\* Mutated form: the idle timer fires and the connection stays open.
ExpireKeeps(c) == TimedOut(c) /\ UNCHANGED vars

Expire(c) ==
  /\ TimedOut(c)
  /\ conn' = [conn EXCEPT ![c] = Nil]
  /\ UNCHANGED <<pools, req>>
  /\ Transports(tr)

Stale == {p \in pools : p.age > IdleTimeout}

\* upstreamPools.sweep, from maintain's ticker.
Sweep ==
  /\ Stale # {}
  /\ CloseIdle({p.tr : p \in Stale})
  /\ pools' = pools \ Stale
  /\ UNCHANGED req
  /\ Transports(Closing({p.tr : p \in Stale}))

Tick ==
  /\ \A c \in Conn : ~TimedOut(c)
  /\ pools' = {[p EXCEPT !.age = Older(@)] : p \in pools}
  /\ conn' = [c \in Conn |-> IF conn[c] # Nil /\ conn[c].st = "idle"
                             THEN [conn[c] EXCEPT !.age = Older(@)] ELSE conn[c]]
  /\ req' = [r \in Req |-> IF req[r].pc = "vetted" THEN [req[r] EXCEPT !.age = Older(@)]
                            ELSE req[r]]
  /\ UNCHANGED tr

Init ==
  /\ pools = {}
  /\ tr = [t \in Tr |-> Garbage]
  /\ conn = [c \in Conn |-> Nil]
  /\ req = [r \in Req |-> NoReq]

Next ==
  \/ \E r \in Req :
       \/ \E d \in Dest, A \in Vettings : Vetted(r, d, A)
       \/ TransportHit(r) \/ TransportMiss(r) \/ DialFails(r)
       \/ \E c \in Conn : Reuse(r, c) \/ DialNew(r, c)
       \/ \E good \in BOOLEAN : Finish(r, good)
  \/ \E c \in Conn : Expire(c)
  \/ Sweep \/ Tick

Spec == Init /\ [][Next]_vars

\* Time passes, timers fire, maintain runs; requests may last for ever.
FairSpec == Spec /\ WF_vars(Tick) /\ WF_vars(Sweep) /\ \A c \in Conn : WF_vars(Expire(c))

-----------------------------------------------------------------------------
(* Properties *)

\* Type invariant.
TypeOK ==
  /\ pools \subseteq [key : [dest : Dest, addrs : Vettings], tr : Tr, age : Age]
  /\ tr \in [Tr -> [addrs : Vettings \cup {{}}, closeIdle : BOOLEAN]]
  /\ conn \in [Conn -> Connection \cup {Nil}]
  /\ req \in [Req -> [pc : {"none", "vetted", "got", "using"}, dest : Dest \cup {Nil},
                      addrs : Vettings \cup {{}}, age : Age,
                      tr : Tr \cup {Nil}, conn : Conn \cup {Nil}]]

\* upstream.go:24 "a pooled connection never serves a request that wasn't
\* approved for where it leads": whoever dialled it, however long ago, and
\* whatever was evicted or swept meanwhile.
ServedWhereApproved ==
  \A r \in Req : req[r].pc = "using" => conn[req[r].conn].addr \in req[r].addrs

\* A transport that is not in the map, with a connection and with no request to
\* close or return it.
Orphaned(t) == /\ \A p \in pools : p.tr # t
               /\ \A r \in Req : req[r].tr # t
               /\ \E c \in Conn : conn[c] # Nil /\ conn[c].tr = t

\* A transport that was dropped from the map and that no request holds is left
\* with no connection in the end: nothing idles outside the map for ever.
DroppedDrain == \A t \in Tr : []<>~Orphaned(t)
=============================================================================
