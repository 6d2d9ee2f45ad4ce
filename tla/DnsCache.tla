------------------------------ MODULE DnsCache ------------------------------
(***************************************************************************)
(* internal/dnscache: the caching resolver.  Callers of LookupNetIP and    *)
(* the goroutine of each lookup in flight (Resolver.run) are processes;    *)
(* a step is a critical section of Resolver.mu, a channel operation, or    *)
(* the upstream resolver's answer.  A flight and a clientSlots struct are  *)
(* heap cells: the maps, the waiting callers and the release closures all  *)
(* hold pointers to them.                                                  *)
(*                                                                         *)
(* A tick of the clock is long compared with the instructions between an   *)
(* answer and close(f.done), so time does not pass between those.          *)
(***************************************************************************)
EXTENDS Integers, FiniteSets

CONSTANTS
  Caller, Key, Client, NoClient,  \* goroutines, names, clients, "untagged"
  Tags,                           \* the tags each caller's contexts carry
  Flight, Slots, Nil,             \* heap cells, the nil pointer
  MaxPerClient, MaxConcurrent, MaxEntries,
  TTL, NegativeTTL, FailureTTL, LookupTimeout,
  Outcomes,                       \* the kinds of answer the upstream resolver gives
  MaxNow                          \* bound of the model: the clock

ASSUME DnsCacheAssumption ==
  /\ Nil \notin Flight /\ Nil \notin Slots /\ NoClient \notin Client
  /\ Tags \in [Caller -> SUBSET (Client \cup {NoClient})]
  /\ IsFiniteSet(Caller) /\ IsFiniteSet(Flight) /\ IsFiniteSet(Key)
  /\ MaxPerClient \in Nat \ {0} /\ MaxConcurrent \in Nat \ {0}
  /\ MaxEntries \in Nat \ {0} /\ LookupTimeout \in Nat
  /\ TTL \in Nat \ {0} /\ NegativeTTL \in Nat \ {0} /\ FailureTTL \in Nat \ {0}

VARIABLES
  now,
  entries,   \* entries: Key -> cached answer, or Nil
  flights,   \* flights: Key -> the lookup in flight, or Nil
  clients,   \* clients: Client -> its clientSlots, or Nil
  slots,     \* contents of the clientSlots structs
  global,    \* lookups holding a slot of the global channel
  fl,        \* the flights: the run goroutine's progress and the answer
  call       \* the callers: where in LookupNetIP, and the last result

vars == <<now, entries, flights, clients, slots, global, fl, call>>

-----------------------------------------------------------------------------
(* Answers and the cache *)

\* What the upstream resolver returns: addresses, NXDOMAIN, another error, or
\* an empty list; "late" marks one that was asked after the deadline.
Kind == {"addrs", "notfound", "failure", "empty"}

ASSUME OutcomesAssumption == Outcomes \subseteq Kind /\ "failure" \in Outcomes

Answer == [kind : Kind \cup {"ctx"}, key : Key, at : Nat, late : BOOLEAN]
CtxErr(k) == [kind |-> "ctx", key |-> k, at |-> now, late |-> FALSE]

Lifetime(kind) == CASE kind = "addrs"    -> TTL
                    [] kind = "notfound" -> NegativeTTL
                    [] kind = "failure"  -> FailureTTL
                    [] OTHER             -> 0

\* Mutated form: an entry is served at the instant it expires too.
FreshAtExpiry(k) == entries[k] # Nil /\ now <= entries[k].expires

Fresh(k) == entries[k] # Nil /\ now < entries[k].expires

\* Mutated form: findLocked forgets to look for a flight.
FoundCacheOnly(k) == IF Fresh(k) THEN "cached" ELSE "miss"

\* findLocked.
Found(k) == IF Fresh(k) THEN "cached" ELSE IF flights[k] # Nil THEN "flight" ELSE "miss"

Stored == {k \in Key : entries[k] # Nil}

\* The sets of keys store may leave in the cache before inserting: all of
\* them while there is room, else the live ones less arbitrary victims.
Evicted ==
  LET live == {j \in Stored : now < entries[j].expires}
  IN  IF Cardinality(Stored) < MaxEntries THEN {Stored}
      ELSE IF Cardinality(live) < MaxEntries THEN {live}
      ELSE {S \in SUBSET live : Cardinality(S) = MaxEntries - 1}

\* The answers store keeps: everything but an empty list without an error.
Storable(a) == a.kind # "empty"

\* store(key, addrs, err).
Store(k, a) ==
  IF Storable(a)
  THEN \E keep \in Evicted :
         entries' = [j \in Key |->
           IF j = k THEN [answer |-> a, expires |-> now + Lifetime(a.kind)]
           ELSE IF j \in keep THEN entries[j] ELSE Nil]
  ELSE UNCHANGED entries

-----------------------------------------------------------------------------
(* Per-client slots *)

\* Mutated form: the entry is dropped although others still use it.
DroppedBySem(cs) == slots[cs].sem <= 1

\* Mutated form: the entry is never dropped.
DroppedNever(cs) == FALSE

\* The entry is dropped from the map when its last user leaves.
Dropped(cs) == slots[cs].users = 1

\* Mutated form: whoever leaves gives a place back, taken or not.
LeaveGivesBack(c, cs, held) ==
  /\ slots' = [slots EXCEPT ![cs] = [sem |-> @.sem - 1, users |-> @.users - 1]]
  /\ clients' = IF Dropped(cs) THEN [clients EXCEPT ![c] = Nil] ELSE clients

\* leave(), after giving back `held` places of the channel.
Leave(c, cs, held) ==
  /\ slots' = [slots EXCEPT ![cs] = [sem |-> @.sem - held, users |-> @.users - 1]]
  /\ clients' = IF Dropped(cs) THEN [clients EXCEPT ![c] = Nil] ELSE clients

\* The release func that acquireClient returns; for an untagged context it
\* does nothing.
ReleaseSlot(c, cs) ==
  IF cs = Nil THEN UNCHANGED <<slots, clients>> ELSE Leave(c, cs, 1)

-----------------------------------------------------------------------------
(* LookupNetIP *)

NoCall == [pc |-> "returned", key |-> Nil, client |-> NoClient, f |-> Nil, cs |-> Nil,
           start |-> 0, res |-> Nil]

\* The call returns the answer in its res, or its context's error.
Return(t) == call' = [call EXCEPT ![t] = NoCall]

\* Entry up to the first unlock.
Lookup(t, k, c) ==
  /\ call[t].pc = "returned"
  /\ LET started == [NoCall EXCEPT !.key = k, !.start = now]
     IN  call' = [call EXCEPT ![t] =
           CASE Found(k) = "cached" -> NoCall      \* returns the entry at once
             [] Found(k) = "flight" -> [started EXCEPT !.pc = "wait", !.f = flights[k]]
             [] Found(k) = "miss"   ->
                  [started EXCEPT !.pc = IF c = NoClient THEN "recheck" ELSE "enter",
                                  !.client = c]]
  /\ UNCHANGED <<now, entries, flights, clients, slots, global, fl>>

FreeSlots == {cs \in Slots : slots[cs].users = 0}

\* acquireClient's critical section: find or create the client's slots.
EnterClient(t) ==
  LET c == call[t].client
      cs == IF clients[c] # Nil THEN clients[c] ELSE CHOOSE s \in FreeSlots : TRUE
  IN  /\ call[t].pc = "enter"
      /\ clients[c] # Nil \/ FreeSlots # {}
      /\ clients' = [clients EXCEPT ![c] = cs]
      /\ slots' = [slots EXCEPT ![cs].users = @ + 1]
      /\ call' = [call EXCEPT ![t].pc = "sem", ![t].cs = cs]
      /\ UNCHANGED <<now, entries, flights, global, fl>>

\* cs.sem <- struct{}{}
TakeSlot(t) ==
  /\ call[t].pc = "sem"
  /\ slots[call[t].cs].sem < MaxPerClient
  /\ slots' = [slots EXCEPT ![call[t].cs].sem = @ + 1]
  /\ call' = [call EXCEPT ![t].pc = "recheck"]
  /\ UNCHANGED <<now, entries, flights, clients, global, fl>>

\* The caller's context ends while it waits for a slot.
GiveUpSlot(t) ==
  /\ call[t].pc = "sem"
  /\ Leave(call[t].client, call[t].cs, 0)
  /\ Return(t)
  /\ UNCHANGED <<now, entries, flights, global, fl>>

FreeFlights == {f \in Flight : fl[f].pc = "gone"}

\* The second critical section: the name may have been looked up meanwhile;
\* otherwise this caller starts the flight, which takes over its slot.
Recheck(t) ==
  LET k == call[t].key
      f == CHOOSE g \in FreeFlights : TRUE
  IN  /\ call[t].pc = "recheck"
      /\ CASE Found(k) = "cached" ->
                /\ call' = [call EXCEPT ![t].pc = "release", ![t].res = entries[k].answer]
                /\ UNCHANGED <<fl, flights>>
           [] Found(k) = "flight" ->
                /\ call' = [call EXCEPT ![t].pc = "join", ![t].f = flights[k]]
                /\ UNCHANGED <<fl, flights>>
           [] Found(k) = "miss" ->
                /\ FreeFlights # {}
                /\ fl' = [fl EXCEPT ![f] =
                     [pc |-> "queued", key |-> k, client |-> call[t].client,
                      cs |-> call[t].cs, deadline |-> now + LookupTimeout, res |-> Nil]]
                /\ flights' = [flights EXCEPT ![k] = f]
                /\ call' = [call EXCEPT ![t].pc = "wait", ![t].f = f, ![t].cs = Nil,
                                        ![t].client = NoClient]
      /\ UNCHANGED <<now, entries, clients, slots, global>>

\* release() of a caller that found the name after all, and its return or wait.
CallerReleases(t) ==
  /\ call[t].pc \in {"release", "join"}
  /\ ReleaseSlot(call[t].client, call[t].cs)
  /\ IF call[t].pc = "release" THEN Return(t)
     ELSE call' = [call EXCEPT ![t].pc = IF call[t].f = Nil THEN "ready" ELSE "wait",
                               ![t].cs = Nil, ![t].client = NoClient]
  /\ UNCHANGED <<now, entries, flights, global, fl>>

\* wait: the flight's answer, or the caller's context ends first.  An answer
\* does not change once f.done is closed, so Close hands it to the waiters;
\* the select may still prefer the context.
WaitDone(t) ==
  /\ call[t].pc = "ready"
  /\ Return(t)
  /\ UNCHANGED <<now, entries, flights, clients, slots, global, fl>>

WaitGivesUp(t) ==
  /\ call[t].pc \in {"wait", "ready"}
  /\ Return(t)
  /\ UNCHANGED <<now, entries, flights, clients, slots, global, fl>>

-----------------------------------------------------------------------------
(* run: one goroutine per flight *)

\* r.global <- struct{}{}: the select takes a free slot even if the deadline
\* has passed as well.
TakeGlobal(f) ==
  /\ fl[f].pc = "queued" /\ global < MaxConcurrent
  /\ global' = global + 1
  /\ fl' = [fl EXCEPT ![f].pc = IF now < fl[f].deadline THEN "lookup" ELSE "late"]
  /\ UNCHANGED <<now, entries, flights, clients, slots, call>>

\* No slot before the deadline: the error goes to the waiters, not the cache.
Congested(f) ==
  /\ fl[f].pc = "queued" /\ now >= fl[f].deadline
  /\ fl' = [fl EXCEPT ![f].pc = "stored", ![f].deadline = 0, ![f].res = CtxErr(fl[f].key)]
  /\ UNCHANGED <<now, entries, flights, clients, slots, global, call>>

\* The upstream resolver answers (with an error once the context is over) and
\* the global slot is given back.
Answered(f, kind) ==
  LET a == [kind |-> kind, key |-> fl[f].key, at |-> now, late |-> fl[f].pc = "late"]
  IN  /\ fl[f].pc \in {"lookup", "late"}
      /\ fl[f].pc = "late" \/ now > fl[f].deadline => kind = "failure"
      /\ global' = global - 1
      /\ fl' = [fl EXCEPT ![f].pc = "answered", ![f].deadline = 0, ![f].res = a]
      /\ UNCHANGED <<now, entries, flights, clients, slots, call>>

\* r.store(key, f.addrs, f.err)
StoreAnswer(f) ==
  /\ fl[f].pc = "answered"
  /\ Store(fl[f].key, fl[f].res)
  /\ fl' = [fl EXCEPT ![f].pc = "stored"]
  /\ UNCHANGED <<now, flights, clients, slots, global, call>>

\* delete(r.flights, key)
Unmap(f) ==
  /\ fl[f].pc = "stored"
  /\ flights' = [flights EXCEPT ![fl[f].key] = Nil]
  /\ fl' = [fl EXCEPT ![f].pc = "unmapped"]
  /\ UNCHANGED <<now, entries, clients, slots, global, call>>

\* close(f.done)
Close(f) ==
  /\ fl[f].pc = "unmapped"
  /\ fl' = [fl EXCEPT ![f].pc = "closed", ![f].res = Nil]
  /\ call' = [t \in Caller |->
       IF call[t].f # f THEN call[t]
       ELSE [call[t] EXCEPT !.pc = IF @ = "wait" THEN "ready" ELSE @,
                            !.f = Nil, !.res = fl[f].res]]
  /\ UNCHANGED <<now, entries, flights, clients, slots, global>>

NoFlight == [pc |-> "gone", key |-> Nil, client |-> NoClient, cs |-> Nil,
             deadline |-> 0, res |-> Nil]

\* Mutated form: the flight ends and keeps its client's slot.
FlightReleasesNothing(f) ==
  /\ fl[f].pc = "closed"
  /\ fl' = [fl EXCEPT ![f] = NoFlight]
  /\ UNCHANGED <<now, entries, flights, global, call, slots, clients>>

\* The deferred release.
FlightReleases(f) ==
  /\ fl[f].pc = "closed"
  /\ ReleaseSlot(fl[f].client, fl[f].cs)
  /\ fl' = [fl EXCEPT ![f] = NoFlight]
  /\ UNCHANGED <<now, entries, flights, global, call>>

Tick ==
  /\ now < MaxNow
  /\ \A f \in Flight : fl[f].pc \notin {"answered", "stored", "unmapped"}
  /\ now' = now + 1
  /\ UNCHANGED <<entries, flights, clients, slots, global, fl, call>>

-----------------------------------------------------------------------------
Init ==
  /\ now = 0
  /\ entries = [k \in Key |-> Nil]
  /\ flights = [k \in Key |-> Nil]
  /\ clients = [c \in Client |-> Nil]
  /\ slots = [cs \in Slots |-> [sem |-> 0, users |-> 0]]
  /\ global = 0
  /\ fl = [f \in Flight |-> NoFlight]
  /\ call = [t \in Caller |-> NoCall]

CallerStep(t) ==
  \/ EnterClient(t) \/ TakeSlot(t) \/ Recheck(t) \/ CallerReleases(t) \/ WaitDone(t)

FlightStep(f) ==
  \/ TakeGlobal(f) \/ Congested(f) \/ StoreAnswer(f) \/ Unmap(f) \/ Close(f) \/ FlightReleases(f)
  \/ \E kind \in Outcomes : Answered(f, kind)

Next ==
  \/ \E t \in Caller, k \in Key : \E c \in Tags[t] : Lookup(t, k, c)
  \/ \E t \in Caller : CallerStep(t) \/ GiveUpSlot(t) \/ WaitGivesUp(t)
  \/ \E f \in Flight : FlightStep(f)
  \/ Tick

Spec == Init /\ [][Next]_vars

\* Every goroutine keeps running, and a select whose case stays or repeatedly
\* becomes ready takes it: Go channels serve blocked senders in order.  The
\* upstream resolver returns, at the latest when its context ends.  Nothing
\* is assumed about callers' contexts: they may never end.
FairSpec ==
  /\ Spec
  /\ \A t \in Caller : WF_vars(CallerStep(t)) /\ SF_vars(TakeSlot(t))
  /\ \A f \in Flight : WF_vars(FlightStep(f)) /\ SF_vars(TakeGlobal(f))

-----------------------------------------------------------------------------
(* Properties *)

Active == {f \in Flight : fl[f].pc # "gone"}
Upstream == {f \in Flight : fl[f].pc \in {"lookup", "late"}}

\* Callers that hold a client slot without having started a flight.
Holding == {t \in Caller : call[t].pc \in {"recheck", "release", "join"} /\ call[t].cs # Nil}

\* Type invariant.
TypeOK ==
  /\ now \in Nat /\ global \in Nat
  /\ entries \in [Key -> [answer : Answer, expires : Nat] \cup {Nil}]
  /\ flights \in [Key -> Flight \cup {Nil}]
  /\ clients \in [Client -> Slots \cup {Nil}]
  /\ slots \in [Slots -> [sem : Nat, users : Nat]]
  /\ fl \in [Flight -> [pc : {"queued", "lookup", "late", "answered", "stored", "unmapped",
                              "closed"},
                        key : Key, client : Client \cup {NoClient},
                        cs : Slots \cup {Nil}, deadline : Nat, res : Answer \cup {Nil}]
                       \cup {NoFlight}]
  /\ call \in [Caller -> [pc : {"returned", "enter", "sem", "recheck", "release", "join",
                               "wait", "ready"},
                          key : Key \cup {Nil}, client : Client \cup {NoClient},
                          f : Flight \cup {Nil}, cs : Slots \cup {Nil}, start : Nat,
                          res : Answer \cup {Nil}]]

\* Concurrent lookups of a name are merged: never two flights that queue, ask
\* upstream or have an answer to store for one key, however callers, cache
\* expiry and flight teardown interleave.
SingleFlight ==
  \A f, g \in {h \in Active : fl[h].pc \notin {"unmapped", "closed"}} :
    fl[f].key = fl[g].key => f = g

\* At most maxPerClient lookups run or queue for one client, although its
\* slots are dropped and created anew as its callers come and go.
PerClientCap ==
  \A c \in Client :
    Cardinality({f \in Active : fl[f].client = c}) +
    Cardinality({t \in Holding : call[t].client = c}) <= MaxPerClient

\* No slot and no map entry leaks: a clientSlots entry is in the map exactly
\* while somebody uses it, and once nothing runs everything is given back; the
\* cache never outgrows maxEntries.
NothingLeaks ==
  /\ global = Cardinality(Upstream) /\ global <= MaxConcurrent
  /\ \A c \in Client :
       clients[c] # Nil <=> \/ \E f \in Active : fl[f].client = c
                            \/ \E t \in Holding : call[t].client = c
                            \/ \E t \in Caller : call[t].pc = "sem" /\ call[t].client = c
  /\ \A k \in Key : flights[k] # Nil => fl[flights[k]].pc \notin {"gone", "closed", "unmapped"}
  /\ Cardinality(Stored) <= MaxEntries

Good(a, k, start) ==
  a.key = k /\ (a.at >= start \/ a.at + Lifetime(a.kind) > start)

\* A caller gets an answer to its own question, and never one older than its
\* TTL was when the call began: neither the answer a caller is about to
\* return nor the one the cache would give a new caller now.
AnswersFresh ==
  /\ \A t \in Caller : call[t].res # Nil => Good(call[t].res, call[t].key, call[t].start)
  /\ \A k \in Key : Found(k) = "cached" => Good(entries[k].answer, k, now)


\* Every call returns, even one whose context never ends: no cycle of callers
\* and flights waiting for client slots, global slots and each other.
CallsReturn ==
  \A t \in Caller : call[t].pc # "returned" ~> call[t].pc = "returned"
=============================================================================
