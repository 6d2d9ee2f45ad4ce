--------------------------- MODULE DnsCacheProofs ---------------------------
(***************************************************************************)
(* Proofs about DnsCache, for any number of callers, names, clients and    *)
(* flights, any limits and lifetimes, and any order of the critical        *)
(* sections: one flight per name, the cap per client, nothing leaks, no    *)
(* answer is stale or somebody else's, and nobody waits for nothing.       *)
(*                                                                         *)
(* The counters of a clientSlots struct are the numbers of callers and     *)
(* flights that hold a pointer to it (SlotsExact), a client is mapped to   *)
(* the struct that all its holders point to (CallInv, FlightInv), and      *)
(* two clients never share one (ClientsInv).                               *)
(***************************************************************************)
EXTENDS DnsCache, FiniteSetTheorems, TLAPS

\* Zenon first: SMT is for the leaves that need arithmetic or records.
USE ZenonT(4), SMTT(15)

FlightRec == [pc : {"queued", "lookup", "late", "answered", "stored", "unmapped", "closed"},
              key : Key, client : Client \cup {NoClient},
              cs : Slots \cup {Nil}, deadline : Nat, res : Answer \cup {Nil}]

CallRec == [pc : {"returned", "enter", "sem", "recheck", "release", "join", "wait", "ready"},
            key : Key \cup {Nil}, client : Client \cup {NoClient},
            f : Flight \cup {Nil}, cs : Slots \cup {Nil}, start : Nat, res : Answer \cup {Nil}]

Entry == [answer : Answer, expires : Nat]

\* Whoever points to the clientSlots struct cs, and who has a place in its channel.
CallersOf(cs) == {t \in Caller : call[t].cs = cs}
HoldersOf(cs) == {t \in CallersOf(cs) : call[t].pc # "sem"}
FlightsOf(cs) == {f \in Flight : fl[f].cs = cs}

SlotsExact ==
  \A cs \in Slots :
    /\ slots[cs].sem = Cardinality(FlightsOf(cs)) + Cardinality(HoldersOf(cs))
    /\ slots[cs].users = Cardinality(FlightsOf(cs)) + Cardinality(CallersOf(cs))
    /\ slots[cs].sem <= MaxPerClient

\* A mapped struct is used, and by one client only.
ClientsInv ==
  \A c \in Client : clients[c] # Nil =>
    /\ slots[clients[c]].users > 0
    /\ \A d \in Client : clients[d] = clients[c] => d = c

\* A pointer to a struct is its client's.
PointsRight(r) ==
  /\ r.cs # Nil => r.client \in Client /\ clients[r.client] = r.cs
  /\ r.cs = Nil => r.client = NoClient

CallInv(t) ==
  /\ call[t].pc = "returned" => call[t] = NoCall
  /\ call[t].pc = "enter" => call[t].client \in Client /\ call[t].cs = Nil
  /\ call[t].pc # "enter" => PointsRight(call[t])
  /\ call[t].pc = "sem" => call[t].cs # Nil
  /\ call[t].pc \in {"wait", "ready"} => call[t].cs = Nil
  /\ call[t].pc # "returned" => call[t].key \in Key /\ call[t].start <= now

\* What a caller waits for is a lookup of its name, not done yet; what it has
\* got is good.
WaitInv(t) ==
  /\ call[t].f # Nil => /\ fl[call[t].f].key = call[t].key
                        /\ fl[call[t].f].pc \notin {"gone", "closed"}
  /\ call[t].res # Nil => Good(call[t].res, call[t].key, call[t].start)

Mapped == {"queued", "lookup", "late", "answered", "stored"}

\* An answer is about the name of its flight, is closed in its tick, and is a
\* failure when it was asked too late.
AnswerInv(r) == /\ r.res \in Answer /\ r.res.key = r.key /\ r.res.at = now
                /\ r.res.late => r.res.kind = "failure"

\* A flight is in the map until its answer is stored.
FlightInv(f) ==
  /\ PointsRight(fl[f])
  /\ fl[f].pc \in Mapped => flights[fl[f].key] = f
  /\ fl[f].pc \in {"answered", "stored", "unmapped"} => AnswerInv(fl[f])

MapInv == \A k \in Key : flights[k] # Nil => fl[flights[k]].key = k /\ fl[flights[k]].pc \in Mapped

EntryInv(k) ==
  entries[k] # Nil =>
    /\ entries[k].answer.key = k
    /\ entries[k].expires = entries[k].answer.at + Lifetime(entries[k].answer.kind)

GlobalExact == global = Cardinality(Upstream) /\ global <= MaxConcurrent

IInv ==
  /\ TypeOK /\ SlotsExact /\ ClientsInv /\ MapInv /\ GlobalExact
  /\ \A t \in Caller : CallInv(t) /\ WaitInv(t)
  /\ \A f \in Flight : FlightInv(f)
  /\ \A k \in Key : EntryInv(k)
  /\ Cardinality(Stored) <= MaxEntries

-----------------------------------------------------------------------------
(* Types and counting *)

\* The type invariant, with the names of the parts.
LEMMA TypeOKParts ==
  TypeOK <=> /\ now \in Nat /\ global \in Nat
             /\ entries \in [Key -> Entry \cup {Nil}]
             /\ flights \in [Key -> Flight \cup {Nil}]
             /\ clients \in [Client -> Slots \cup {Nil}]
             /\ slots \in [Slots -> [sem : Nat, users : Nat]]
             /\ fl \in [Flight -> FlightRec \cup {NoFlight}]
             /\ call \in [Caller -> CallRec]
  BY DEF TypeOK, FlightRec, CallRec, Entry

\* A call that has returned is a call.
LEMMA NoCallType == NoCall \in CallRec /\ NoCall.cs = Nil /\ NoCall.client = NoClient
  BY DEF NoCall, CallRec

\* Lifetimes are natural numbers.
LEMMA LifetimeType ==
  ASSUME NEW kind
  PROVE  Lifetime(kind) \in Nat
  BY DnsCacheAssumption DEF Lifetime

\* What the pc of a flight says about it.
LEMMA FlightKinds ==
  ASSUME NEW x \in FlightRec \cup {NoFlight}
  PROVE  /\ x.pc \in Mapped => x \in FlightRec /\ x.key \in Key
         /\ x.pc \notin {"gone", "unmapped", "closed"} => x.pc \in Mapped
         /\ x.cs # Nil => x.pc # "gone"
<1>1. CASE x \in FlightRec
  BY <1>1 DEF FlightRec, Mapped
<1>2. CASE x = NoFlight
  BY <1>2 DEF NoFlight, Mapped
<1> QED BY <1>1, <1>2

\* A call's record changes, and no other.
LEMMA CallStep ==
  ASSUME call \in [Caller -> CallRec], NEW t \in Caller, NEW r \in CallRec,
         call' = [call EXCEPT ![t] = r]
  PROVE  call' \in [Caller -> CallRec] /\ call'[t] = r /\ \A u \in Caller : u # t => call'[u] = call[u]
  OBVIOUS

\* A flight's record changes, and no other.
LEMMA FlightChange ==
  ASSUME fl \in [Flight -> FlightRec \cup {NoFlight}], NEW f \in Flight,
         NEW r \in FlightRec \cup {NoFlight}, fl' = [fl EXCEPT ![f] = r]
  PROVE  /\ fl' \in [Flight -> FlightRec \cup {NoFlight}]
         /\ fl'[f] = r /\ \A g \in Flight : g # f => fl'[g] = fl[g]
  OBVIOUS

\* A slot's counters change, and no other's.
LEMMA SlotStep ==
  ASSUME slots \in [Slots -> [sem : Nat, users : Nat]], NEW cs \in Slots,
         NEW r \in [sem : Nat, users : Nat], slots' = [slots EXCEPT ![cs] = r]
  PROVE  /\ slots' \in [Slots -> [sem : Nat, users : Nat]]
         /\ slots'[cs] = r /\ \A c \in Slots : c # cs => slots'[c] = slots[c]
  OBVIOUS

\* The sets that are counted are finite.
LEMMA Finite ==
  ASSUME NEW cs
  PROVE  /\ IsFiniteSet(CallersOf(cs)) /\ Cardinality(CallersOf(cs)) \in Nat
         /\ IsFiniteSet(HoldersOf(cs)) /\ Cardinality(HoldersOf(cs)) \in Nat
         /\ IsFiniteSet(FlightsOf(cs)) /\ Cardinality(FlightsOf(cs)) \in Nat
<1>1. /\ CallersOf(cs) \in SUBSET Caller /\ HoldersOf(cs) \in SUBSET Caller
      /\ FlightsOf(cs) \in SUBSET Flight
  BY DEF CallersOf, HoldersOf, FlightsOf
<1> QED BY <1>1, FS_Subset, FS_CardinalityType, DnsCacheAssumption

\* One more of them.
LEMMA CountIn ==
  ASSUME NEW S, NEW T, NEW x, IsFiniteSet(S), x \notin S, T = S \cup {x}
  PROVE  Cardinality(T) = Cardinality(S) + 1
  BY FS_AddElement

\* One less of them.
LEMMA CountOut ==
  ASSUME NEW S, NEW T, NEW x \in S, IsFiniteSet(S), T = S \ {x}
  PROVE  Cardinality(T) = Cardinality(S) - 1 /\ Cardinality(S) > 0
<1>1. Cardinality(S) \in Nat /\ Cardinality(S) # 0
  BY FS_CardinalityType, FS_EmptySet
<1> QED BY <1>1, FS_RemoveElement

-----------------------------------------------------------------------------
(* What a step that moves no pointer leaves as it was *)

\* The counters stay exact when nobody takes or drops a pointer or a place.
LEMMA SlotsSame ==
  ASSUME SlotsExact, slots' = slots,
         \A t \in Caller : /\ call'[t].cs = call[t].cs
                           /\ call[t].cs \in Slots => (call'[t].pc = "sem" <=> call[t].pc = "sem"),
         \A f \in Flight : fl'[f].cs = fl[f].cs
  PROVE  SlotsExact'
<1> SUFFICES ASSUME NEW cs \in Slots
             PROVE  /\ CallersOf(cs)' = CallersOf(cs) /\ HoldersOf(cs)' = HoldersOf(cs)
                    /\ FlightsOf(cs)' = FlightsOf(cs)
  BY DEF SlotsExact
<1> QED BY DEF CallersOf, HoldersOf, FlightsOf

\* A caller that waits for nothing new and moves no pointer.
LEMMA WaitSame ==
  ASSUME NEW t \in Caller, WaitInv(t), call'[t] = call[t],
         \A f \in Flight : fl'[f].key = fl[f].key /\ (fl'[f].pc \in {"gone", "closed"} =>
                                                        fl[f].pc \in {"gone", "closed"}),
         call[t].f \in Flight \cup {Nil}
  PROVE  WaitInv(t)'
  BY DEF WaitInv, Good

\* Steps of a caller alone.
LEMMA CallerOnly ==
  ASSUME IInv, NEW t \in Caller, NEW r \in CallRec, call' = [call EXCEPT ![t] = r],
         UNCHANGED <<now, entries, flights, clients, slots, global, fl>>,
         r.cs = call[t].cs, r.cs \in Slots => (r.pc = "sem" <=> call[t].pc = "sem"),
         CallInv(t)', WaitInv(t)'
  PROVE  IInv'
<1>0. TypeOK /\ call \in [Caller -> CallRec]
  BY TypeOKParts DEF IInv
<1>1. call' \in [Caller -> CallRec] /\ call'[t] = r /\ \A u \in Caller : u # t => call'[u] = call[u]
  BY <1>0, CallStep
<1>2. TypeOK'
  BY <1>0, <1>1 DEF TypeOK, CallRec
<1>3. SlotsExact'
  BY <1>1, SlotsSame DEF IInv
<1>4. ClientsInv' /\ MapInv' /\ GlobalExact' /\ (\A f \in Flight : FlightInv(f)')
      /\ (\A k \in Key : EntryInv(k)') /\ Cardinality(Stored') <= MaxEntries
  BY DEF IInv, ClientsInv, MapInv, GlobalExact, Upstream, FlightInv, AnswerInv, PointsRight, EntryInv,
         Stored
<1>5. ASSUME NEW u \in Caller, u # t PROVE CallInv(u)' /\ WaitInv(u)'
  BY <1>1, <1>5 DEF IInv, CallInv, WaitInv, Good, PointsRight
<1> QED BY <1>2, <1>3, <1>4, <1>5 DEF IInv

-----------------------------------------------------------------------------
(* One step per action: the callers *)

\* A call that returns has nothing any more, if it had no slot.
LEMMA ReturnStep ==
  ASSUME IInv, NEW t \in Caller, Return(t), call[t].cs = Nil,
         UNCHANGED <<now, entries, flights, clients, slots, global, fl>>
  PROVE  IInv'
<1>0. call \in [Caller -> CallRec] /\ NoCall \in CallRec /\ NoCall.cs = Nil /\ Nil \notin Slots
  BY TypeOKParts, NoCallType, DnsCacheAssumption DEF IInv
<1>1. call'[t] = NoCall
  BY <1>0 DEF Return
<1>2. CallInv(t)' /\ WaitInv(t)'
  BY <1>1 DEF CallInv, WaitInv, PointsRight, NoCall
<1> QED BY <1>0, <1>2, CallerOnly, Zenon DEF Return

\* findLocked: the flight a caller joins is one of its name.
LEMMA LookupStep ==
  ASSUME IInv, NEW t \in Caller, NEW k \in Key, NEW c \in Tags[t], Lookup(t, k, c)
  PROVE  IInv'
<1> DEFINE started == [NoCall EXCEPT !.key = k, !.start = now]
           pc == IF c = NoClient THEN "recheck" ELSE "enter"
           waits == [started EXCEPT !.pc = "wait", !.f = flights[k]]
           starts == [started EXCEPT !.pc = pc, !.client = c]
<1>0. /\ call \in [Caller -> CallRec] /\ now \in Nat /\ flights \in [Key -> Flight \cup {Nil}]
      /\ c \in Client \cup {NoClient} /\ NoClient \notin Client /\ MapInv
  BY TypeOKParts, DnsCacheAssumption DEF IInv
<1>1. call[t].pc = "returned" /\ call[t] = NoCall
      /\ UNCHANGED <<now, entries, flights, clients, slots, global, fl>>
  BY DEF Lookup, IInv, CallInv
<1>2. CASE Found(k) = "cached"
  <2>1. Return(t) /\ call[t].cs = Nil
    BY <1>1, <1>2 DEF Lookup, Return, NoCall
  <2> QED BY <1>1, <2>1, ReturnStep
<1>3. CASE Found(k) = "flight"
  <2>1. flights[k] \in Flight /\ flights[k] # Nil
    BY <1>0, <1>3 DEF Found
  <2>2. call' = [call EXCEPT ![t] = waits]
    BY <1>3 DEF Lookup
  <2>3. /\ waits \in CallRec /\ waits.cs = Nil /\ waits.pc = "wait" /\ waits.client = NoClient
        /\ waits.key = k /\ waits.start = now /\ waits.f = flights[k] /\ waits.res = Nil
    BY <1>0, <2>1, Zenon DEF CallRec, NoCall
  <2> HIDE DEF waits
  <2>4. call'[t] = waits
    BY <1>0, <2>2
  <2>5. CallInv(t)'
    BY <1>0, <1>1, <2>3, <2>4 DEF CallInv, PointsRight
  <2>6. fl[flights[k]].key = k /\ fl[flights[k]].pc \in Mapped
    BY <1>0, <2>1 DEF MapInv
  <2>7. WaitInv(t)'
    BY <1>1, <2>3, <2>4, <2>6 DEF WaitInv, Mapped
  <2> QED BY <1>1, <2>2, <2>3, <2>5, <2>7, NoCallType, CallerOnly, DnsCacheAssumption, Zenon
<1>4. CASE Found(k) = "miss"
  <2>1. call' = [call EXCEPT ![t] = starts]
    BY <1>4 DEF Lookup
  <2>2. /\ starts \in CallRec /\ starts.cs = Nil /\ starts.pc = pc /\ starts.client = c
        /\ starts.key = k /\ starts.start = now /\ starts.f = Nil /\ starts.res = Nil
    BY <1>0, Zenon DEF CallRec, NoCall
  <2> HIDE DEF starts
  <2>3. call'[t] = starts
    BY <1>0, <2>1
  <2>4. CallInv(t)' /\ WaitInv(t)'
    BY <1>0, <1>1, <2>2, <2>3 DEF CallInv, WaitInv, PointsRight
  <2> QED BY <1>1, <2>1, <2>2, <2>4, NoCallType, CallerOnly, DnsCacheAssumption, Zenon
<1> QED BY <1>2, <1>3, <1>4 DEF Found

\* wait returns: such a caller has no slot.
LEMMA WaitStep ==
  ASSUME IInv, NEW t \in Caller, WaitDone(t) \/ WaitGivesUp(t)
  PROVE  IInv'
<1>1. call[t].cs = Nil
  BY DEF WaitDone, WaitGivesUp, IInv, CallInv
<1> QED BY <1>1, ReturnStep DEF WaitDone, WaitGivesUp

\* Steps of a caller that also move its client's counters.
LEMMA CallerAndSlots ==
  ASSUME IInv, NEW t \in Caller, UNCHANGED <<now, entries, flights, global, fl>>,
         TypeOK', SlotsExact', ClientsInv', CallInv(t)', WaitInv(t)',
         \A u \in Caller : u # t => /\ call'[u] = call[u]
                                    /\ call[u].cs # Nil =>
                                         clients'[call[u].client] = clients[call[u].client],
         \A f \in Flight : fl[f].cs # Nil => clients'[fl[f].client] = clients[fl[f].client]
  PROVE  IInv'
<1>1. ASSUME NEW u \in Caller, u # t PROVE CallInv(u)' /\ WaitInv(u)'
  <2>1. CallInv(u) /\ WaitInv(u) /\ call'[u] = call[u]
    BY <1>1 DEF IInv
  <2>2. PointsRight(call[u]) => PointsRight(call[u])'
    BY <1>1, <2>1 DEF PointsRight
  <2> QED BY <2>1, <2>2 DEF CallInv, WaitInv, Good
<1>2. ASSUME NEW f \in Flight PROVE FlightInv(f)'
  <2>1. FlightInv(f) /\ fl'[f] = fl[f]
    BY DEF IInv
  <2>2. PointsRight(fl[f]) => PointsRight(fl[f])'
    BY <2>1 DEF PointsRight
  <2> QED BY <2>1, <2>2 DEF FlightInv, AnswerInv
<1>3. MapInv' /\ GlobalExact' /\ (\A k \in Key : EntryInv(k)') /\ Cardinality(Stored') <= MaxEntries
  BY DEF IInv, MapInv, GlobalExact, Upstream, EntryInv, Stored
<1> QED BY <1>1, <1>2, <1>3 DEF IInv

\* acquireClient: a client that is not mapped gets a struct that nobody uses.
LEMMA EnterClientStep ==
  ASSUME IInv, NEW t \in Caller, EnterClient(t)
  PROVE  IInv'
<1>0. /\ call \in [Caller -> CallRec] /\ slots \in [Slots -> [sem : Nat, users : Nat]]
      /\ clients \in [Client -> Slots \cup {Nil}] /\ Nil \notin Slots /\ TypeOK
      /\ SlotsExact /\ ClientsInv /\ CallInv(t) /\ WaitInv(t)
  BY TypeOKParts, DnsCacheAssumption DEF IInv
<1>c. PICK c \in Client : c = call[t].client
  BY <1>0 DEF EnterClient, CallInv
<1>1. /\ call[t].pc = "enter" /\ c = call[t].client /\ call[t].cs = Nil /\ call[t] \in CallRec
      /\ UNCHANGED <<now, entries, flights, global, fl>>
  BY <1>0, <1>c DEF EnterClient, CallInv
<1>2. PICK cs \in Slots :
         /\ clients[c] # Nil => cs = clients[c]
         /\ clients[c] = Nil => slots[cs].users = 0
         /\ clients' = [clients EXCEPT ![c] = cs]
         /\ slots' = [slots EXCEPT ![cs].users = @ + 1]
         /\ call' = [call EXCEPT ![t].pc = "sem", ![t].cs = cs]
  <2> DEFINE s == IF clients[c] # Nil THEN clients[c] ELSE CHOOSE d \in FreeSlots : TRUE
  <2>1. /\ s \in Slots
        /\ clients[c] # Nil => s = clients[c]
        /\ clients[c] = Nil => slots[s].users = 0
    <3>1. CASE clients[c] # Nil
      BY <1>0, <1>1, <3>1
    <3>2. CASE clients[c] = Nil
      <4>1. s \in FreeSlots
        BY <1>1, <3>2 DEF EnterClient
      <4> QED BY <3>2, <4>1 DEF FreeSlots
    <3> QED BY <3>1, <3>2
  <2>2. /\ clients' = [clients EXCEPT ![c] = s]
        /\ slots' = [slots EXCEPT ![s].users = @ + 1]
        /\ call' = [call EXCEPT ![t].pc = "sem", ![t].cs = s]
    BY <1>1 DEF EnterClient
  <2> HIDE DEF s
  <2> QED BY <2>1, <2>2, Zenon
<1> DEFINE r == [[call[t] EXCEPT !.pc = "sem"] EXCEPT !.cs = cs]
<1>4. /\ r \in CallRec /\ r.pc = "sem" /\ r.cs = cs /\ r.client = call[t].client
      /\ r.key = call[t].key /\ r.start = call[t].start /\ r.f = call[t].f /\ r.res = call[t].res
  BY <1>1, <1>2, Zenon DEF CallRec
<1>5. call' = [call EXCEPT ![t] = r]
  BY <1>0, <1>2, Zenon
<1> HIDE DEF r
<1>6. call' \in [Caller -> CallRec] /\ call'[t] = r /\ \A u \in Caller : u # t => call'[u] = call[u]
  BY <1>0, <1>4, <1>5, CallStep
<1>7. /\ slots' \in [Slots -> [sem : Nat, users : Nat]]
      /\ slots'[cs].sem = slots[cs].sem /\ slots'[cs].users = slots[cs].users + 1
      /\ \A d \in Slots : d # cs => slots'[d] = slots[d]
  BY <1>0, <1>2
<1>8. /\ clients' \in [Client -> Slots \cup {Nil}] /\ clients'[c] = cs
      /\ \A d \in Client : d # c => clients'[d] = clients[d]
  BY <1>0, <1>1, <1>2
<1>9. TypeOK'
  BY <1>0, <1>1, <1>6, <1>7, <1>8 DEF TypeOK, CallRec
<1>10. SlotsExact'
  <2> SUFFICES ASSUME NEW d \in Slots
               PROVE  /\ slots'[d].sem = Cardinality(FlightsOf(d)') + Cardinality(HoldersOf(d)')
                      /\ slots'[d].users = Cardinality(FlightsOf(d)') + Cardinality(CallersOf(d)')
                      /\ slots'[d].sem <= MaxPerClient
    BY DEF SlotsExact
  <2>1. FlightsOf(d)' = FlightsOf(d)
    BY <1>1 DEF FlightsOf
  <2>2. HoldersOf(d)' = HoldersOf(d)
    BY <1>0, <1>1, <1>4, <1>6 DEF HoldersOf, CallersOf
  <2>3. CASE d = cs
    <3>1. CallersOf(cs)' = CallersOf(cs) \cup {t} /\ t \notin CallersOf(cs)
      BY <1>0, <1>1, <1>2, <1>4, <1>6 DEF CallersOf
    <3>2. Cardinality(CallersOf(cs)') = Cardinality(CallersOf(cs)) + 1
      BY <3>1, Finite, CountIn
    <3> QED BY <1>0, <1>2, <1>7, <2>1, <2>2, <2>3, <3>2, Finite DEF SlotsExact
  <2>4. CASE d # cs
    <3>1. CallersOf(d)' = CallersOf(d)
      BY <1>0, <1>1, <1>4, <1>6, <2>4 DEF CallersOf
    <3> QED BY <1>0, <1>7, <2>1, <2>2, <2>4, <3>1 DEF SlotsExact
  <2> QED BY <2>3, <2>4
<1>11. ClientsInv'
  <2> SUFFICES ASSUME NEW d \in Client, clients'[d] # Nil
               PROVE  /\ slots'[clients'[d]].users > 0
                      /\ \A e \in Client : clients'[e] = clients'[d] => e = d
    BY DEF ClientsInv
  <2>1. slots'[clients'[d]].users > 0
    BY <1>0, <1>1, <1>2, <1>7, <1>8 DEF ClientsInv
  <2>2. ASSUME NEW e \in Client, e # c, clients[e] = cs PROVE FALSE
    BY <1>0, <1>1, <1>2, <2>2 DEF ClientsInv
  <2> QED BY <1>0, <1>8, <2>1, <2>2 DEF ClientsInv
<1>12. CallInv(t)' /\ WaitInv(t)'
  <2>1. CallInv(t)'
    BY <1>0, <1>1, <1>2, <1>4, <1>6, <1>8 DEF CallInv, PointsRight
  <2>2. WaitInv(t)'
    BY <1>0, <1>1, <1>4, <1>6 DEF WaitInv, Good
  <2> QED BY <2>1, <2>2
<1>13. ASSUME NEW u \in Caller, call[u].cs # Nil
       PROVE  clients'[call[u].client] = clients[call[u].client]
  BY <1>1, <1>2, <1>8, <1>13 DEF IInv, CallInv, PointsRight
<1>14. ASSUME NEW f \in Flight, fl[f].cs # Nil
       PROVE  clients'[fl[f].client] = clients[fl[f].client]
  BY <1>1, <1>2, <1>8, <1>14 DEF IInv, FlightInv, AnswerInv, PointsRight
<1> QED BY <1>1, <1>6, <1>9, <1>10, <1>11, <1>12, <1>13, <1>14, CallerAndSlots

\* cs.sem <- struct{}{}: a caller takes a place that is free.
LEMMA TakeSlotStep ==
  ASSUME IInv, NEW t \in Caller, TakeSlot(t)
  PROVE  IInv'
<1>0. /\ call \in [Caller -> CallRec] /\ slots \in [Slots -> [sem : Nat, users : Nat]]
      /\ Nil \notin Slots /\ TypeOK /\ SlotsExact /\ ClientsInv /\ CallInv(t) /\ WaitInv(t)
      /\ clients \in [Client -> Slots \cup {Nil}]
  BY TypeOKParts, DnsCacheAssumption DEF IInv
<1>1. PICK cs \in Slots : cs = call[t].cs
  BY <1>0 DEF TakeSlot, CallInv, CallRec
<1>2. /\ call[t].pc = "sem" /\ slots[cs].sem < MaxPerClient
      /\ slots' = [slots EXCEPT ![cs].sem = @ + 1]
      /\ UNCHANGED <<now, entries, flights, clients, global, fl>>
  BY <1>1 DEF TakeSlot
<1> DEFINE r == [call[t] EXCEPT !.pc = "recheck"]
<1>3. /\ r \in CallRec /\ r.pc = "recheck" /\ r.cs = cs /\ r.client = call[t].client
      /\ r.key = call[t].key /\ r.start = call[t].start /\ r.f = call[t].f /\ r.res = call[t].res
  BY <1>0, <1>1 DEF CallRec
<1>4. call' = [call EXCEPT ![t] = r]
  BY <1>0 DEF TakeSlot
<1> HIDE DEF r
<1>5. call' \in [Caller -> CallRec] /\ call'[t] = r /\ \A u \in Caller : u # t => call'[u] = call[u]
  BY <1>0, <1>3, <1>4, CallStep
<1>6. /\ slots' \in [Slots -> [sem : Nat, users : Nat]]
      /\ slots'[cs].sem = slots[cs].sem + 1 /\ slots'[cs].users = slots[cs].users
      /\ \A d \in Slots : d # cs => slots'[d] = slots[d]
  BY <1>0, <1>2
<1>7. TypeOK'
  BY <1>0, <1>2, <1>5, <1>6 DEF TypeOK, CallRec
<1>8. SlotsExact'
  <2> SUFFICES ASSUME NEW d \in Slots
               PROVE  /\ slots'[d].sem = Cardinality(FlightsOf(d)') + Cardinality(HoldersOf(d)')
                      /\ slots'[d].users = Cardinality(FlightsOf(d)') + Cardinality(CallersOf(d)')
                      /\ slots'[d].sem <= MaxPerClient
    BY DEF SlotsExact
  <2>1. FlightsOf(d)' = FlightsOf(d)
    BY <1>2 DEF FlightsOf
  <2>2. CallersOf(d)' = CallersOf(d)
    BY <1>1, <1>3, <1>5 DEF CallersOf
  <2>3. CASE d = cs
    <3>1. HoldersOf(cs)' = HoldersOf(cs) \cup {t} /\ t \notin HoldersOf(cs)
      BY <1>1, <1>2, <1>3, <1>5 DEF HoldersOf, CallersOf
    <3>2. Cardinality(HoldersOf(cs)') = Cardinality(HoldersOf(cs)) + 1
      BY <3>1, Finite, CountIn
    <3> QED BY <1>0, <1>2, <1>6, <2>1, <2>2, <2>3, <3>2, Finite, DnsCacheAssumption DEF SlotsExact
  <2>4. CASE d # cs
    <3>1. HoldersOf(d)' = HoldersOf(d)
      BY <1>1, <1>3, <1>5, <2>4 DEF HoldersOf, CallersOf
    <3> QED BY <1>0, <1>6, <2>1, <2>2, <2>4, <3>1 DEF SlotsExact
  <2> QED BY <2>3, <2>4
<1>9. ClientsInv'
  BY <1>0, <1>2, <1>6 DEF ClientsInv
<1>10. CallInv(t)' /\ WaitInv(t)'
  BY <1>0, <1>1, <1>2, <1>3, <1>5 DEF CallInv, WaitInv, Good, PointsRight
<1> QED BY <1>2, <1>5, <1>7, <1>8, <1>9, <1>10, CallerAndSlots

\* leave: the counters of the struct stay exact, and its client stays mapped
\* to it for whoever still has a pointer to it.
LEMMA LeaveStep ==
  ASSUME slots \in [Slots -> [sem : Nat, users : Nat]], clients \in [Client -> Slots \cup {Nil}],
         SlotsExact, ClientsInv, NEW c \in Client, NEW cs \in Slots, NEW held \in {0, 1},
         clients[c] = cs, Leave(c, cs, held),
         Cardinality(FlightsOf(cs)') + Cardinality(CallersOf(cs)')
           = (Cardinality(FlightsOf(cs)) + Cardinality(CallersOf(cs))) - 1,
         Cardinality(FlightsOf(cs)') + Cardinality(HoldersOf(cs)')
           = (Cardinality(FlightsOf(cs)) + Cardinality(HoldersOf(cs))) - held,
         \A d \in Slots \ {cs} : /\ FlightsOf(d)' = FlightsOf(d) /\ CallersOf(d)' = CallersOf(d)
                                 /\ HoldersOf(d)' = HoldersOf(d)
  PROVE  /\ slots' \in [Slots -> [sem : Nat, users : Nat]] /\ clients' \in [Client -> Slots \cup {Nil}]
         /\ SlotsExact' /\ ClientsInv'
         /\ \A d \in Client : clients[d] # cs => clients'[d] = clients[d]
         /\ FlightsOf(cs)' # {} \/ CallersOf(cs)' # {} => clients' = clients
<1> DEFINE r == [sem |-> slots[cs].sem - held, users |-> slots[cs].users - 1]
           left == Cardinality(FlightsOf(cs)') + Cardinality(CallersOf(cs)')
           leftSem == Cardinality(FlightsOf(cs)') + Cardinality(HoldersOf(cs)')
<1>0. Nil \notin Slots /\ MaxPerClient \in Nat
  BY DnsCacheAssumption
<1>1. /\ IsFiniteSet(FlightsOf(cs)') /\ Cardinality(FlightsOf(cs)') \in Nat
      /\ IsFiniteSet(CallersOf(cs)') /\ Cardinality(CallersOf(cs)') \in Nat
      /\ Cardinality(HoldersOf(cs)') \in Nat
  <2>1. /\ CallersOf(cs)' \in SUBSET Caller /\ HoldersOf(cs)' \in SUBSET Caller
        /\ FlightsOf(cs)' \in SUBSET Flight
    BY DEF CallersOf, HoldersOf, FlightsOf
  <2> QED BY <2>1, FS_Subset, FS_CardinalityType, DnsCacheAssumption
<1>2. /\ slots[cs].users - 1 = left /\ slots[cs].sem - held = leftSem
      /\ slots[cs].sem <= MaxPerClient /\ slots[cs].sem \in Nat /\ slots[cs].users \in Nat
      /\ left \in Nat /\ leftSem \in Nat
  <2>1. /\ slots[cs].sem = Cardinality(FlightsOf(cs)) + Cardinality(HoldersOf(cs))
        /\ slots[cs].users = Cardinality(FlightsOf(cs)) + Cardinality(CallersOf(cs))
        /\ slots[cs].sem <= MaxPerClient
    BY DEF SlotsExact
  <2>2. slots[cs].sem \in Nat /\ slots[cs].users \in Nat
    OBVIOUS
  <2>3. left = slots[cs].users - 1 /\ leftSem = slots[cs].sem - held
    BY <2>1
  <2>4. left \in Nat /\ leftSem \in Nat
    BY <1>1
  <2> QED BY <2>1, <2>2, <2>3, <2>4
<1> HIDE DEF left, leftSem
<1>3. r \in [sem : Nat, users : Nat] /\ r.sem = leftSem /\ r.users = left /\ r.sem <= MaxPerClient
  BY <1>0, <1>2
<1>4. slots' = [slots EXCEPT ![cs] = r]
  BY DEF Leave
<1> HIDE DEF r
<1>5. /\ slots' \in [Slots -> [sem : Nat, users : Nat]]
      /\ slots'[cs] = r /\ \A d \in Slots : d # cs => slots'[d] = slots[d]
  BY <1>3, <1>4, SlotStep
<1>6. SlotsExact'
  BY <1>3, <1>5 DEF SlotsExact, left, leftSem
<1>7. CASE slots[cs].users = 1
  <2>1. clients' = [clients EXCEPT ![c] = Nil] /\ left = 0
    BY <1>2, <1>7 DEF Leave, Dropped
  <2>2. /\ clients' \in [Client -> Slots \cup {Nil}] /\ clients'[c] = Nil
        /\ \A d \in Client : d # c => clients'[d] = clients[d]
    BY <2>1
  <2>3. Cardinality(FlightsOf(cs)') = 0 /\ Cardinality(CallersOf(cs)') = 0
    BY <1>1, <2>1 DEF left
  <2>4. FlightsOf(cs)' = {} /\ CallersOf(cs)' = {}
    BY <1>1, <2>3, FS_EmptySet
  <2>5. \A d \in Client : d # c => clients[d] # cs
    BY <1>0 DEF ClientsInv
  <2>6. ClientsInv'
    BY <1>5, <2>2, <2>5 DEF ClientsInv
  <2> QED BY <1>5, <1>6, <2>2, <2>4, <2>6
<1>8. CASE slots[cs].users # 1
  <2>1. clients' = clients /\ left > 0
    BY <1>2, <1>8 DEF Leave, Dropped
  <2>2. ClientsInv'
    BY <1>3, <1>5, <2>1 DEF ClientsInv
  <2> QED BY <1>5, <1>6, <2>1, <2>2
<1> QED BY <1>7, <1>8

\* A caller that gives its struct up, and its place if it has one.
LEMMA CallerLeaves ==
  ASSUME IInv, NEW t \in Caller, NEW r \in CallRec, call' = [call EXCEPT ![t] = r], r.cs = Nil,
         call[t].cs # Nil, call[t].pc # "enter", NEW held \in {0, 1},
         held = 0 <=> call[t].pc = "sem", Leave(call[t].client, call[t].cs, held),
         UNCHANGED <<now, entries, flights, global, fl>>, CallInv(t)', WaitInv(t)'
  PROVE  IInv'
<1>0. /\ call \in [Caller -> CallRec] /\ slots \in [Slots -> [sem : Nat, users : Nat]]
      /\ clients \in [Client -> Slots \cup {Nil}] /\ Nil \notin Slots
      /\ TypeOK /\ SlotsExact /\ ClientsInv /\ CallInv(t)
  BY TypeOKParts, DnsCacheAssumption DEF IInv
<1>1. PICK cs \in Slots : cs = call[t].cs
  BY <1>0 DEF CallRec
<1>2. PICK c \in Client : c = call[t].client
  BY <1>0 DEF CallInv, PointsRight
<1>3. clients[c] = cs /\ Leave(c, cs, held)
  BY <1>0, <1>1, <1>2 DEF CallInv, PointsRight
<1>4. call' \in [Caller -> CallRec] /\ call'[t] = r /\ \A u \in Caller : u # t => call'[u] = call[u]
  BY <1>0, CallStep
<1>5. ASSUME NEW d PROVE FlightsOf(d)' = FlightsOf(d)
  BY DEF FlightsOf
<1>6. Cardinality(FlightsOf(cs)') + Cardinality(CallersOf(cs)')
        = (Cardinality(FlightsOf(cs)) + Cardinality(CallersOf(cs))) - 1
  <2>1. CallersOf(cs)' = CallersOf(cs) \ {t} /\ t \in CallersOf(cs)
    BY <1>0, <1>1, <1>4 DEF CallersOf
  <2>2. Cardinality(CallersOf(cs)') = Cardinality(CallersOf(cs)) - 1
    BY <2>1, Finite, CountOut
  <2> QED BY <1>5, <2>2, Finite
<1>7. Cardinality(FlightsOf(cs)') + Cardinality(HoldersOf(cs)')
        = (Cardinality(FlightsOf(cs)) + Cardinality(HoldersOf(cs))) - held
  <2>1. CASE held = 0
    <3>1. HoldersOf(cs)' = HoldersOf(cs)
      BY <1>0, <1>1, <1>4, <2>1 DEF HoldersOf, CallersOf
    <3> QED BY <1>5, <2>1, <3>1, Finite
  <2>2. CASE held = 1
    <3>1. HoldersOf(cs)' = HoldersOf(cs) \ {t} /\ t \in HoldersOf(cs)
      BY <1>0, <1>1, <1>4, <2>2 DEF HoldersOf, CallersOf
    <3>2. Cardinality(HoldersOf(cs)') = Cardinality(HoldersOf(cs)) - 1
      BY <3>1, Finite, CountOut
    <3> QED BY <1>5, <2>2, <3>2, Finite
  <2> QED BY <2>1, <2>2
<1>8. ASSUME NEW d \in Slots \ {cs}
      PROVE  /\ FlightsOf(d)' = FlightsOf(d) /\ CallersOf(d)' = CallersOf(d)
             /\ HoldersOf(d)' = HoldersOf(d)
  BY <1>0, <1>1, <1>4, <1>5, <1>8 DEF CallersOf, HoldersOf
<1>9. /\ slots' \in [Slots -> [sem : Nat, users : Nat]] /\ clients' \in [Client -> Slots \cup {Nil}]
      /\ SlotsExact' /\ ClientsInv'
      /\ \A d \in Client : clients[d] # cs => clients'[d] = clients[d]
      /\ FlightsOf(cs)' # {} \/ CallersOf(cs)' # {} => clients' = clients
  BY <1>0, <1>3, <1>6, <1>7, <1>8, LeaveStep
<1>10. TypeOK'
  BY <1>0, <1>4, <1>9 DEF TypeOK, CallRec
<1>11. ASSUME NEW u \in Caller, u # t, call[u].cs # Nil
       PROVE  clients'[call[u].client] = clients[call[u].client]
  <2>1. CASE call[u].cs = cs
    BY <1>4, <1>9, <1>11, <2>1 DEF CallersOf
  <2>2. CASE call[u].cs # cs
    BY <1>9, <1>11, <2>2 DEF IInv, CallInv, PointsRight
  <2> QED BY <2>1, <2>2
<1>12. ASSUME NEW f \in Flight, fl[f].cs # Nil
       PROVE  clients'[fl[f].client] = clients[fl[f].client]
  <2>1. CASE fl[f].cs = cs
    BY <1>9, <2>1 DEF FlightsOf
  <2>2. CASE fl[f].cs # cs
    BY <1>9, <1>12, <2>2 DEF IInv, FlightInv, AnswerInv, PointsRight
  <2> QED BY <2>1, <2>2
<1> QED BY <1>4, <1>9, <1>10, <1>11, <1>12, CallerAndSlots

\* acquireClient gives up: the caller waited without a place.
LEMMA GiveUpStep ==
  ASSUME IInv, NEW t \in Caller, GiveUpSlot(t)
  PROVE  IInv'
<1>0. call \in [Caller -> CallRec] /\ NoCall \in CallRec /\ NoCall.cs = Nil /\ CallInv(t)
  BY TypeOKParts, NoCallType DEF IInv
<1>1. /\ call' = [call EXCEPT ![t] = NoCall] /\ call[t].pc = "sem" /\ call[t].cs # Nil
      /\ Leave(call[t].client, call[t].cs, 0) /\ UNCHANGED <<now, entries, flights, global, fl>>
  BY <1>0 DEF GiveUpSlot, Return, CallInv
<1>2. CallInv(t)' /\ WaitInv(t)'
  BY <1>0, <1>1 DEF CallInv, WaitInv, PointsRight, NoCall
<1> QED BY <1>0, <1>1, <1>2, CallerLeaves, Zenon

\* release() of a caller that found the name after all.
LEMMA CallerReleasesStep ==
  ASSUME IInv, NEW t \in Caller, CallerReleases(t)
  PROVE  IInv'
<1> DEFINE pc == IF call[t].f = Nil THEN "ready" ELSE "wait"
           waits == [[[call[t] EXCEPT !.pc = pc] EXCEPT !.cs = Nil] EXCEPT !.client = NoClient]
<1>0. /\ call \in [Caller -> CallRec] /\ NoCall \in CallRec /\ NoCall.cs = Nil
      /\ CallInv(t) /\ WaitInv(t) /\ Nil \notin Slots
  BY TypeOKParts, NoCallType, DnsCacheAssumption DEF IInv
<1>1. /\ call[t].pc \in {"release", "join"} /\ UNCHANGED <<now, entries, flights, global, fl>>
      /\ ReleaseSlot(call[t].client, call[t].cs)
  BY DEF CallerReleases
<1>2. PICK r \in CallRec : /\ call' = [call EXCEPT ![t] = r] /\ r.cs = Nil /\ r.pc # "sem"
                           /\ CallInv(t)' /\ WaitInv(t)'
  <2>1. CASE call[t].pc = "release"
    <3>1. call' = [call EXCEPT ![t] = NoCall]
      BY <2>1 DEF CallerReleases, Return
    <3>2. CallInv(t)' /\ WaitInv(t)'
      BY <1>0, <3>1 DEF CallInv, WaitInv, PointsRight, NoCall
    <3> QED BY <1>0, <3>1, <3>2, Zenon DEF NoCall
  <2>2. CASE call[t].pc = "join"
    <3>1. call' = [call EXCEPT ![t] = waits]
      BY <1>0, <2>2, Zenon DEF CallerReleases
    <3>2. /\ waits \in CallRec /\ waits.pc \in {"wait", "ready"} /\ waits.cs = Nil
          /\ waits.client = NoClient /\ waits.key = call[t].key /\ waits.start = call[t].start
          /\ waits.f = call[t].f /\ waits.res = call[t].res
      <4>1. call[t] \in CallRec /\ pc \in {"wait", "ready"}
        BY <1>0
      <4> HIDE DEF pc
      <4> QED BY <4>1, Zenon DEF CallRec
    <3> HIDE DEF waits
    <3>3. call'[t] = waits
      BY <1>0, <3>1
    <3>4. CallInv(t)'
      BY <1>0, <1>1, <2>2, <3>2, <3>3 DEF CallInv, PointsRight
    <3>5. WaitInv(t)'
      BY <1>0, <1>1, <3>2, <3>3 DEF WaitInv, Good
    <3> QED BY <3>1, <3>2, <3>4, <3>5, Zenon
  <2> QED BY <1>1, <2>1, <2>2
<1>3. CASE call[t].cs = Nil
  BY <1>0, <1>1, <1>2, <1>3, CallerOnly, Zenon DEF ReleaseSlot
<1>4. CASE call[t].cs # Nil
  <2>1. Leave(call[t].client, call[t].cs, 1) /\ call[t].pc # "sem" /\ call[t].pc # "enter"
    BY <1>1, <1>4 DEF ReleaseSlot
  <2>2. (1 = 0) <=> call[t].pc = "sem"
    BY <2>1
  <2> QED BY <1>1, <1>2, <1>4, <2>1, <2>2, CallerLeaves, Zenon
<1> QED BY <1>3, <1>4

\* LookupNetIP's second look: an entry that is served is a good answer, and a
\* new flight takes the caller's struct and place over.
LEMMA RecheckStep ==
  ASSUME IInv, NEW t \in Caller, Recheck(t)
  PROVE  IInv'
<1>0. /\ call \in [Caller -> CallRec] /\ fl \in [Flight -> FlightRec \cup {NoFlight}]
      /\ entries \in [Key -> Entry \cup {Nil}] /\ flights \in [Key -> Flight \cup {Nil}]
      /\ now \in Nat /\ slots \in [Slots -> [sem : Nat, users : Nat]]
      /\ Nil \notin Slots /\ Nil \notin Flight /\ TypeOK
      /\ SlotsExact /\ MapInv /\ CallInv(t) /\ WaitInv(t)
  BY TypeOKParts, DnsCacheAssumption DEF IInv
<1>1. PICK k \in Key : k = call[t].key
  BY <1>0, Zenon DEF Recheck, CallInv
<1>2. /\ call[t].pc = "recheck" /\ call[t] \in CallRec /\ PointsRight(call[t])
      /\ call[t].start <= now /\ call[t].start \in Nat
      /\ UNCHANGED <<now, entries, clients, slots, global>>
  BY <1>0, Zenon DEF Recheck, CallInv, CallRec
<1>3. CASE Found(k) = "cached"
  <2> DEFINE r == [[call[t] EXCEPT !.pc = "release"] EXCEPT !.res = entries[k].answer]
  <2>1. entries[k] \in Entry /\ now < entries[k].expires
    BY <1>0, <1>3 DEF Found, Fresh
  <2>2. call' = [call EXCEPT ![t] = r] /\ UNCHANGED <<fl, flights>>
    BY <1>0, <1>1, <1>3, Zenon DEF Recheck
  <2>3. /\ r \in CallRec /\ r.pc = "release" /\ r.cs = call[t].cs /\ r.client = call[t].client
        /\ r.key = k /\ r.start = call[t].start /\ r.f = call[t].f /\ r.res = entries[k].answer
    BY <1>1, <1>2, <2>1, Zenon DEF CallRec, Entry
  <2> HIDE DEF r
  <2>4. call'[t] = r
    BY <1>0, <2>2
  <2>5. CallInv(t)'
    BY <1>0, <1>1, <1>2, <2>3, <2>4 DEF CallInv, PointsRight
  <2>6. Good(entries[k].answer, k, call[t].start)
    <3>1. entries[k].answer.key = k
          /\ entries[k].expires = entries[k].answer.at + Lifetime(entries[k].answer.kind)
      BY <1>3 DEF IInv, EntryInv, Found, Fresh
    <3>2. entries[k].answer.at \in Nat /\ entries[k].expires \in Nat
      BY <2>1 DEF Entry, Answer
    <3>3. entries[k].expires > call[t].start
      BY <1>0, <1>2, <2>1, <3>2
    <3> QED BY <3>1, <3>3 DEF Good
  <2>7. WaitInv(t)'
    BY <1>0, <1>1, <2>2, <2>3, <2>4, <2>6 DEF WaitInv, Good
  <2> QED BY <1>2, <2>2, <2>3, <2>5, <2>7, CallerOnly, Zenon
<1>4. CASE Found(k) = "flight"
  <2> DEFINE r == [[call[t] EXCEPT !.pc = "join"] EXCEPT !.f = flights[k]]
  <2>1. flights[k] \in Flight /\ flights[k] # Nil
    BY <1>0, <1>4 DEF Found
  <2>2. call' = [call EXCEPT ![t] = r] /\ UNCHANGED <<fl, flights>>
    BY <1>0, <1>1, <1>4, Zenon DEF Recheck
  <2>3. /\ r \in CallRec /\ r.pc = "join" /\ r.cs = call[t].cs /\ r.client = call[t].client
        /\ r.key = k /\ r.start = call[t].start /\ r.f = flights[k] /\ r.res = call[t].res
    BY <1>1, <1>2, <2>1, Zenon DEF CallRec
  <2> HIDE DEF r
  <2>4. call'[t] = r
    BY <1>0, <2>2
  <2>5. CallInv(t)'
    BY <1>0, <1>1, <1>2, <2>3, <2>4 DEF CallInv, PointsRight
  <2>6. fl[flights[k]].key = k /\ fl[flights[k]].pc \in Mapped
    BY <1>0, <2>1 DEF MapInv
  <2>7. WaitInv(t)'
    BY <1>0, <1>1, <2>2, <2>3, <2>4, <2>6 DEF WaitInv, Good, Mapped
  <2> QED BY <1>2, <2>2, <2>3, <2>5, <2>7, CallerOnly, Zenon
<1>5. CASE Found(k) = "miss"
  <2>1. flights[k] = Nil
    BY <1>5 DEF Found
  <2>2. PICK f \in FreeFlights :
           /\ fl' = [fl EXCEPT ![f] =
                 [pc |-> "queued", key |-> k, client |-> call[t].client,
                  cs |-> call[t].cs, deadline |-> now + LookupTimeout, res |-> Nil]]
           /\ flights' = [flights EXCEPT ![k] = f]
           /\ call' = [call EXCEPT ![t].pc = "wait", ![t].f = f, ![t].cs = Nil,
                                   ![t].client = NoClient]
    <3> DEFINE g == CHOOSE h \in FreeFlights : TRUE
    <3>1. g \in FreeFlights
      BY <1>1, <1>5, Zenon DEF Recheck
    <3>2. /\ fl' = [fl EXCEPT ![g] =
                 [pc |-> "queued", key |-> k, client |-> call[t].client,
                  cs |-> call[t].cs, deadline |-> now + LookupTimeout, res |-> Nil]]
          /\ flights' = [flights EXCEPT ![k] = g]
          /\ call' = [call EXCEPT ![t].pc = "wait", ![t].f = g, ![t].cs = Nil,
                                  ![t].client = NoClient]
      BY <1>1, <1>5, Zenon DEF Recheck
    <3> HIDE DEF g
    <3> QED BY <3>1, <3>2, Zenon
  <2>3. f \in Flight /\ fl[f].pc = "gone" /\ fl[f].cs = Nil
    BY <1>0, <2>2 DEF FreeFlights, FlightRec, NoFlight
  <2> DEFINE q == [pc |-> "queued", key |-> k, client |-> call[t].client,
                   cs |-> call[t].cs, deadline |-> now + LookupTimeout, res |-> Nil]
             r == [[[[call[t] EXCEPT !.pc = "wait"] EXCEPT !.f = f] EXCEPT !.cs = Nil]
                     EXCEPT !.client = NoClient]
  <2>4. /\ q \in FlightRec /\ q.pc = "queued" /\ q.key = k /\ q.client = call[t].client
        /\ q.cs = call[t].cs
    BY <1>0, <1>2, DnsCacheAssumption DEF FlightRec, CallRec
  <2>5. /\ r \in CallRec /\ r.pc = "wait" /\ r.cs = Nil /\ r.client = NoClient
        /\ r.key = k /\ r.start = call[t].start /\ r.f = f /\ r.res = call[t].res
    BY <1>1, <1>2, <2>3, Zenon DEF CallRec
  <2>6. fl' = [fl EXCEPT ![f] = q] /\ call' = [call EXCEPT ![t] = r]
    BY <1>0, <2>2, Zenon
  <2> HIDE DEF q, r
  <2>7. call' \in [Caller -> CallRec] /\ call'[t] = r /\ \A u \in Caller : u # t => call'[u] = call[u]
    BY <1>0, <2>5, <2>6, CallStep
  <2>8. /\ fl' \in [Flight -> FlightRec \cup {NoFlight}]
        /\ fl'[f] = q /\ \A g \in Flight : g # f => fl'[g] = fl[g]
    BY <1>0, <2>3, <2>4, <2>6, FlightChange
  <2>9. /\ flights' \in [Key -> Flight \cup {Nil}] /\ flights'[k] = f
        /\ \A j \in Key : j # k => flights'[j] = flights[j]
    BY <1>0, <2>2, <2>3
  <2>10. TypeOK'
    BY <1>0, <1>2, <2>7, <2>8, <2>9, TypeOKParts DEF TypeOK, CallRec, FlightRec
  <2>11. SlotsExact'
    <3> SUFFICES ASSUME NEW d \in Slots
                 PROVE  /\ slots[d].sem = Cardinality(FlightsOf(d)') + Cardinality(HoldersOf(d)')
                        /\ slots[d].users = Cardinality(FlightsOf(d)') + Cardinality(CallersOf(d)')
      BY <1>0, <1>2 DEF SlotsExact
    <3>1. CASE d = call[t].cs
      <4>1. FlightsOf(d)' = FlightsOf(d) \cup {f} /\ f \notin FlightsOf(d)
        BY <1>0, <2>3, <2>4, <2>8, <3>1 DEF FlightsOf
      <4>2. CallersOf(d)' = CallersOf(d) \ {t} /\ t \in CallersOf(d)
        BY <1>0, <2>5, <2>7, <3>1 DEF CallersOf
      <4>3. HoldersOf(d)' = HoldersOf(d) \ {t} /\ t \in HoldersOf(d)
        BY <1>0, <1>2, <2>5, <2>7, <3>1 DEF HoldersOf, CallersOf
      <4>4. /\ Cardinality(FlightsOf(d)') = Cardinality(FlightsOf(d)) + 1
            /\ Cardinality(CallersOf(d)') = Cardinality(CallersOf(d)) - 1
            /\ Cardinality(HoldersOf(d)') = Cardinality(HoldersOf(d)) - 1
        BY <4>1, <4>2, <4>3, Finite, CountIn, CountOut
      <4> QED BY <1>0, <4>4, Finite DEF SlotsExact
    <3>2. CASE d # call[t].cs
      <4>1. FlightsOf(d)' = FlightsOf(d)
        BY <1>0, <2>3, <2>4, <2>8, <3>2 DEF FlightsOf
      <4>2. t \notin CallersOf(d) /\ t \notin CallersOf(d)'
        BY <1>0, <2>5, <2>7, <3>2 DEF CallersOf
      <4>3. CallersOf(d)' = CallersOf(d) /\ HoldersOf(d)' = HoldersOf(d)
        BY <2>7, <4>2 DEF HoldersOf, CallersOf
      <4> QED BY <1>0, <4>1, <4>3 DEF SlotsExact
    <3> QED BY <3>1, <3>2
  <2>12. ClientsInv' /\ (\A j \in Key : EntryInv(j)') /\ Cardinality(Stored') <= MaxEntries
    BY <1>2 DEF IInv, ClientsInv, EntryInv, Stored
  <2>13. MapInv'
    <3> SUFFICES ASSUME NEW j \in Key, flights'[j] # Nil
                 PROVE  fl'[flights'[j]].key = j /\ fl'[flights'[j]].pc \in Mapped
      BY DEF MapInv, Mapped
    <3>1. CASE j = k
      BY <2>4, <2>8, <2>9, <3>1 DEF Mapped
    <3>2. CASE j # k
      <4>1. flights'[j] = flights[j] /\ flights[j] \in Flight
            /\ fl[flights[j]].key = j /\ fl[flights[j]].pc \in Mapped
        BY <1>0, <2>9, <3>2 DEF MapInv
      <4>2. flights[j] # f
        BY <2>3, <4>1 DEF Mapped
      <4> QED BY <2>8, <4>1, <4>2
    <3> QED BY <3>1, <3>2
  <2>14. GlobalExact'
    <3>1. Upstream' = Upstream
      BY <2>3, <2>4, <2>8 DEF Upstream
    <3> QED BY <1>2, <3>1 DEF IInv, GlobalExact
  <2>15. ASSUME NEW u \in Caller PROVE CallInv(u)' /\ WaitInv(u)'
    <3>1. CASE u = t
      <4>1. CallInv(t)'
        BY <1>0, <1>1, <1>2, <2>5, <2>7 DEF CallInv, PointsRight
      <4>2. call[t].res # Nil => Good(call[t].res, k, call[t].start)
        BY <1>0, <1>1 DEF WaitInv
      <4>3. fl'[f].key = k /\ fl'[f].pc = "queued"
        BY <2>4, <2>8
      <4>4. WaitInv(t)'
        BY <2>5, <2>7, <4>2, <4>3 DEF WaitInv, Good
      <4> QED BY <3>1, <4>1, <4>4
    <3>2. CASE u # t
      <4>1. CallInv(u) /\ WaitInv(u) /\ call'[u] = call[u] /\ call[u].f \in Flight \cup {Nil}
        BY <1>0, <2>7, <3>2 DEF IInv, CallRec
      <4>2. CallInv(u)'
        BY <1>2, <4>1 DEF CallInv, PointsRight
      <4>3. call[u].f # f
        BY <1>0, <2>3, <4>1 DEF WaitInv
      <4>4. WaitInv(u)'
        BY <2>8, <4>1, <4>3 DEF WaitInv, Good
      <4> QED BY <4>2, <4>4
    <3> QED BY <3>1, <3>2
  <2>16. ASSUME NEW g \in Flight PROVE FlightInv(g)'
    <3>1. CASE g = f
      BY <1>2, <2>4, <2>8, <2>9, <3>1 DEF FlightInv, AnswerInv, PointsRight
    <3>2. CASE g # f
      <4>1. FlightInv(g) /\ fl'[g] = fl[g]
        BY <2>8, <3>2 DEF IInv
      <4>2. fl[g].pc \in Mapped => fl[g].key \in Key /\ fl[g].key # k
        BY <1>0, <2>1, <4>1 DEF FlightInv, Mapped, FlightRec, NoFlight
      <4> QED BY <1>2, <2>9, <4>1, <4>2 DEF FlightInv, AnswerInv, PointsRight
    <3> QED BY <3>1, <3>2
  <2> QED BY <2>10, <2>11, <2>12, <2>13, <2>14, <2>15, <2>16 DEF IInv
<1> QED BY <1>3, <1>4, <1>5 DEF Found

-----------------------------------------------------------------------------
(* One step per action: the flights *)

\* Steps of a flight that keeps its name, its client and its struct, and stays
\* in the map until it leaves it.
LEMMA FlightOnly ==
  ASSUME IInv, NEW f \in Flight, fl[f].pc \in Mapped, NEW q \in FlightRec,
         fl' = [fl EXCEPT ![f] = q], UNCHANGED <<now, clients, slots, call>>,
         q.key = fl[f].key, q.client = fl[f].client, q.cs = fl[f].cs,
         q.pc \in Mapped \cup {"unmapped"},
         q.pc \in {"answered", "stored", "unmapped"} => AnswerInv(q),
         flights' \in [Key -> Flight \cup {Nil}],
         \A j \in Key : j # fl[f].key => flights'[j] = flights[j],
         flights'[fl[f].key] = IF q.pc = "unmapped" THEN Nil ELSE f,
         entries' \in [Key -> Entry \cup {Nil}], \A j \in Key : EntryInv(j)',
         Cardinality(Stored') <= MaxEntries, global' \in Nat, GlobalExact'
  PROVE  IInv'
<1>0. /\ call \in [Caller -> CallRec] /\ fl \in [Flight -> FlightRec \cup {NoFlight}]
      /\ flights \in [Key -> Flight \cup {Nil}] /\ Nil \notin Flight /\ TypeOK /\ MapInv
      /\ fl[f].key \in Key /\ FlightInv(f)
  BY TypeOKParts, DnsCacheAssumption DEF IInv, Mapped, FlightRec, NoFlight
<1>1. /\ fl' \in [Flight -> FlightRec \cup {NoFlight}]
      /\ fl'[f] = q /\ \A g \in Flight : g # f => fl'[g] = fl[g]
  BY <1>0, FlightChange
<1>2. TypeOK'
  BY <1>0, <1>1 DEF TypeOK, FlightRec, Entry
<1>3. SlotsExact'
  BY <1>1, SlotsSame DEF IInv
<1>4. ClientsInv'
  BY DEF IInv, ClientsInv
<1>5. flights[fl[f].key] = f
  BY <1>0 DEF FlightInv
<1>6. MapInv'
  <2> SUFFICES ASSUME NEW j \in Key, flights'[j] # Nil
               PROVE  fl'[flights'[j]].key = j /\ fl'[flights'[j]].pc \in Mapped
    BY DEF MapInv, Mapped
  <2>1. CASE j = fl[f].key
    BY <1>0, <1>1, <2>1 DEF Mapped
  <2>2. CASE j # fl[f].key
    <3>1. flights'[j] = flights[j] /\ flights[j] \in Flight
          /\ fl[flights[j]].key = j /\ fl[flights[j]].pc \in Mapped
      BY <1>0, <2>2 DEF MapInv
    <3> QED BY <1>1, <2>2, <3>1
  <2> QED BY <2>1, <2>2
<1>7. ASSUME NEW u \in Caller PROVE CallInv(u)' /\ WaitInv(u)'
  <2>1. CallInv(u) /\ WaitInv(u) /\ call[u].f \in Flight \cup {Nil}
    BY <1>0 DEF IInv, CallRec
  <2>2. CallInv(u)'
    BY <2>1 DEF CallInv, PointsRight
  <2>3. ASSUME NEW g \in Flight
        PROVE  fl'[g].key = fl[g].key /\ (fl'[g].pc \in {"gone", "closed"} =>
                                            fl[g].pc \in {"gone", "closed"})
    BY <1>1 DEF Mapped
  <2>4. WaitInv(u)'
    BY <2>1, <2>3, WaitSame
  <2> QED BY <2>2, <2>4
<1>8. ASSUME NEW g \in Flight PROVE FlightInv(g)'
  <2>1. CASE g = f
    BY <1>0, <1>1, <2>1 DEF FlightInv, PointsRight, AnswerInv, Mapped
  <2>2. CASE g # f
    <3>1. FlightInv(g) /\ fl'[g] = fl[g]
      BY <1>1, <2>2 DEF IInv
    <3>2. fl[g].pc \in Mapped => fl[g].key \in Key /\ fl[g].key # fl[f].key
      <4>1. fl[g].pc \in Mapped => fl[g].key \in Key
        BY <1>0, FlightKinds
      <4> QED BY <1>5, <2>2, <3>1, <4>1 DEF FlightInv
    <3> QED BY <3>1, <3>2 DEF FlightInv, AnswerInv, PointsRight
  <2> QED BY <2>1, <2>2
<1> QED BY <1>2, <1>3, <1>4, <1>6, <1>7, <1>8 DEF IInv

\* The set of flights that ask upstream is finite.
LEMMA UpstreamFinite == IsFiniteSet(Upstream) /\ Cardinality(Upstream) \in Nat
<1>1. Upstream \in SUBSET Flight
  BY DEF Upstream
<1> QED BY <1>1, FS_Subset, FS_CardinalityType, DnsCacheAssumption

\* The flight of a name, while it is in the map.
LEMMA MappedFlight ==
  ASSUME IInv, NEW f \in Flight, fl[f].pc \in Mapped
  PROVE  /\ fl[f] \in FlightRec /\ fl[f].key \in Key /\ flights[fl[f].key] = f
         /\ fl \in [Flight -> FlightRec \cup {NoFlight}]
<1>1. FlightInv(f) /\ fl \in [Flight -> FlightRec \cup {NoFlight}]
  BY TypeOKParts DEF IInv
<1>2. fl[f] \in FlightRec /\ fl[f].key \in Key
  BY <1>1, FlightKinds
<1> QED BY <1>1, <1>2 DEF FlightInv

\* r.global <- struct{}{}: the flight takes a slot that is free.
LEMMA TakeGlobalStep ==
  ASSUME IInv, NEW f \in Flight, TakeGlobal(f)
  PROVE  IInv'
<1> DEFINE pc == IF now < fl[f].deadline THEN "lookup" ELSE "late"
           q == [fl[f] EXCEPT !.pc = pc]
<1>0. /\ TypeOK /\ global \in Nat /\ GlobalExact
      /\ flights \in [Key -> Flight \cup {Nil}] /\ entries \in [Key -> Entry \cup {Nil}]
      /\ (\A j \in Key : EntryInv(j)) /\ Cardinality(Stored) <= MaxEntries
  BY TypeOKParts DEF IInv
<1>1. /\ fl[f].pc = "queued" /\ global < MaxConcurrent /\ global' = global + 1
      /\ fl' = [fl EXCEPT ![f].pc = pc]
      /\ UNCHANGED <<now, entries, flights, clients, slots, call>>
  BY DEF TakeGlobal
<1>2. /\ fl[f] \in FlightRec /\ fl[f].key \in Key /\ flights[fl[f].key] = f
      /\ fl \in [Flight -> FlightRec \cup {NoFlight}] /\ fl[f].pc \in Mapped
  BY <1>1, MappedFlight DEF Mapped
<1>3. pc \in {"lookup", "late"}
  OBVIOUS
<1> HIDE DEF pc
<1>4. /\ q \in FlightRec /\ q.pc = pc /\ q.key = fl[f].key /\ q.client = fl[f].client
      /\ q.cs = fl[f].cs
  BY <1>2, <1>3 DEF FlightRec
<1>5. fl' = [fl EXCEPT ![f] = q]
  BY <1>1, <1>2
<1> HIDE DEF q
<1>6. Upstream' = Upstream \cup {f} /\ f \notin Upstream
  BY <1>1, <1>2, <1>3, <1>4, <1>5, FlightChange DEF Upstream
<1>7. GlobalExact' /\ global' \in Nat
  <2>1. Cardinality(Upstream') = Cardinality(Upstream) + 1
    BY <1>6, UpstreamFinite, CountIn
  <2> QED BY <1>0, <1>1, <2>1, DnsCacheAssumption DEF GlobalExact
<1>8. (\A j \in Key : EntryInv(j)') /\ Cardinality(Stored') <= MaxEntries
  BY <1>0, <1>1 DEF EntryInv, Stored
<1>9. q.pc \in Mapped \cup {"unmapped"} /\ q.pc \notin {"answered", "stored", "unmapped"}
  BY <1>3, <1>4 DEF Mapped
<1> QED BY <1>0, <1>1, <1>2, <1>4, <1>5, <1>7, <1>8, <1>9, FlightOnly, Zenon

\* No global slot before the deadline: the flight ends with an error.
LEMMA CongestedStep ==
  ASSUME IInv, NEW f \in Flight, Congested(f)
  PROVE  IInv'
<1> DEFINE a == CtxErr(fl[f].key)
           q == [[[fl[f] EXCEPT !.pc = "stored"] EXCEPT !.deadline = 0] EXCEPT !.res = a]
<1>0. /\ TypeOK /\ now \in Nat /\ global \in Nat /\ GlobalExact
      /\ flights \in [Key -> Flight \cup {Nil}] /\ entries \in [Key -> Entry \cup {Nil}]
      /\ (\A j \in Key : EntryInv(j)) /\ Cardinality(Stored) <= MaxEntries
  BY TypeOKParts DEF IInv
<1>1. /\ fl[f].pc = "queued" /\ UNCHANGED <<now, entries, flights, clients, slots, global, call>>
  BY DEF Congested
<1>2. /\ fl[f] \in FlightRec /\ fl[f].key \in Key /\ flights[fl[f].key] = f
      /\ fl \in [Flight -> FlightRec \cup {NoFlight}] /\ fl[f].pc \in Mapped
  BY <1>1, MappedFlight DEF Mapped
<1>3. a \in Answer /\ a.key = fl[f].key /\ a.at = now /\ ~a.late
  BY <1>0, <1>2 DEF CtxErr, Answer
<1> HIDE DEF a
<1>4. /\ q \in FlightRec /\ q.pc = "stored" /\ q.key = fl[f].key /\ q.client = fl[f].client
      /\ q.cs = fl[f].cs /\ q.res = a
  BY <1>2, <1>3, Zenon DEF FlightRec
<1>5. fl' = [fl EXCEPT ![f] = q]
  BY <1>2, Zenon DEF Congested, a
<1> HIDE DEF q
<1>6. Upstream' = Upstream
  BY <1>1, <1>2, <1>4, <1>5, FlightChange DEF Upstream
<1>7. GlobalExact' /\ global' \in Nat /\ (\A j \in Key : EntryInv(j)') /\ Cardinality(Stored') <= MaxEntries
  BY <1>0, <1>1, <1>6 DEF EntryInv, Stored, GlobalExact
<1>8. q.pc \in Mapped \cup {"unmapped"} /\ q.pc # "unmapped" /\ AnswerInv(q)
  BY <1>3, <1>4 DEF Mapped, AnswerInv
<1> QED BY <1>0, <1>1, <1>2, <1>3, <1>4, <1>5, <1>7, <1>8, FlightOnly, Zenon

\* store keeps answers of their names only, and never too many.
LEMMA StoreStep ==
  ASSUME now \in Nat, entries \in [Key -> Entry \cup {Nil}], \A j \in Key : EntryInv(j),
         Cardinality(Stored) <= MaxEntries, NEW k \in Key, NEW a \in Answer,
         a.key = k, a.at = now, Store(k, a)
  PROVE  /\ entries' \in [Key -> Entry \cup {Nil}] /\ \A j \in Key : EntryInv(j)'
         /\ Cardinality(Stored') <= MaxEntries
<1>1. CASE ~Storable(a)
  BY <1>1 DEF Store, EntryInv, Stored
<1>2. CASE Storable(a)
  <2> DEFINE e == [answer |-> a, expires |-> now + Lifetime(a.kind)]
  <2>1. PICK keep \in Evicted :
           entries' = [j \in Key |-> IF j = k THEN e ELSE IF j \in keep THEN entries[j] ELSE Nil]
    BY <1>2 DEF Store
  <2>2. e \in Entry /\ e.answer = a /\ e.expires = a.at + Lifetime(a.kind)
    BY LifetimeType DEF Entry
  <2> HIDE DEF e
  <2>3. entries' \in [Key -> Entry \cup {Nil}]
    BY <2>1, <2>2
  <2>4. ASSUME NEW j \in Key PROVE EntryInv(j)'
    BY <2>1, <2>2 DEF EntryInv, Lifetime
  <2>5. IsFiniteSet(Stored) /\ Cardinality(Stored) \in Nat
    <3>1. Stored \in SUBSET Key
      BY DEF Stored
    <3> QED BY <3>1, FS_Subset, FS_CardinalityType, DnsCacheAssumption
  <2>6. keep \subseteq Stored /\ IsFiniteSet(keep) /\ Cardinality(keep) \in Nat
        /\ Cardinality(keep) <= MaxEntries - 1
    <3> DEFINE live == {j \in Stored : now < entries[j].expires}
    <3>1. live \subseteq Stored /\ IsFiniteSet(live) /\ Cardinality(live) \in Nat
      BY <2>5, FS_Subset, FS_CardinalityType
    <3>2. keep \in IF Cardinality(Stored) < MaxEntries THEN {Stored}
                   ELSE IF Cardinality(live) < MaxEntries THEN {live}
                   ELSE {S \in SUBSET live : Cardinality(S) = MaxEntries - 1}
      BY DEF Evicted
    <3> HIDE DEF live
    <3>3. \/ keep = Stored /\ Cardinality(Stored) < MaxEntries
          \/ keep = live /\ Cardinality(live) < MaxEntries
          \/ keep \subseteq live /\ Cardinality(keep) = MaxEntries - 1
      BY <3>2
    <3>4. keep \subseteq Stored
      BY <3>1, <3>3
    <3>5. IsFiniteSet(keep) /\ Cardinality(keep) \in Nat
      BY <2>5, <3>4, FS_Subset, FS_CardinalityType
    <3> QED BY <2>5, <3>1, <3>3, <3>4, <3>5, DnsCacheAssumption
  <2>7. Stored' \subseteq keep \cup {k}
    BY <2>1 DEF Stored
  <2>8. IsFiniteSet(keep \cup {k}) /\ Cardinality(keep \cup {k}) <= MaxEntries
    <3>0. MaxEntries \in Nat
      BY DnsCacheAssumption
    <3>1. CASE k \in keep
      <4>1. keep \cup {k} = keep
        BY <3>1
      <4>2. IsFiniteSet(keep \cup {k}) /\ Cardinality(keep \cup {k}) = Cardinality(keep)
        BY <2>6, <4>1, Zenon
      <4> QED BY <2>6, <3>0, <4>2
    <3>2. CASE k \notin keep
      <4>1. IsFiniteSet(keep \cup {k}) /\ Cardinality(keep \cup {k}) = Cardinality(keep) + 1
        BY <2>6, <3>2, FS_AddElement
      <4> QED BY <2>6, <3>0, <4>1
    <3> QED BY <3>1, <3>2
  <2>9. Cardinality(Stored') <= Cardinality(keep \cup {k}) /\ Cardinality(Stored') \in Nat
        /\ Cardinality(keep \cup {k}) \in Nat
    BY <2>7, <2>8, FS_Subset, FS_CardinalityType
  <2> QED BY <2>3, <2>4, <2>8, <2>9, DnsCacheAssumption
<1> QED BY <1>1, <1>2

\* The answer arrives and the global slot is given back.
LEMMA AnsweredStep ==
  ASSUME IInv, NEW f \in Flight, NEW kind \in Outcomes, Answered(f, kind)
  PROVE  IInv'
<1> DEFINE a == [kind |-> kind, key |-> fl[f].key, at |-> now, late |-> fl[f].pc = "late"]
           q == [[[fl[f] EXCEPT !.pc = "answered"] EXCEPT !.deadline = 0] EXCEPT !.res = a]
<1>0. /\ TypeOK /\ now \in Nat /\ global \in Nat /\ GlobalExact
      /\ flights \in [Key -> Flight \cup {Nil}] /\ entries \in [Key -> Entry \cup {Nil}]
      /\ (\A j \in Key : EntryInv(j)) /\ Cardinality(Stored) <= MaxEntries
  BY TypeOKParts DEF IInv
<1>1. /\ fl[f].pc \in {"lookup", "late"} /\ global' = global - 1
      /\ UNCHANGED <<now, entries, flights, clients, slots, call>>
      /\ fl[f].pc = "late" => kind = "failure"
  BY DEF Answered
<1>2. /\ fl[f] \in FlightRec /\ fl[f].key \in Key /\ flights[fl[f].key] = f
      /\ fl \in [Flight -> FlightRec \cup {NoFlight}] /\ fl[f].pc \in Mapped
  BY <1>1, MappedFlight DEF Mapped
<1>3. a \in Answer /\ a.key = fl[f].key /\ a.at = now /\ (a.late => a.kind = "failure")
  BY <1>0, <1>1, <1>2, OutcomesAssumption DEF Answer
<1>4. fl' = [fl EXCEPT ![f] = q]
  BY <1>2, Zenon DEF Answered
<1> HIDE DEF a
<1>5. /\ q \in FlightRec /\ q.pc = "answered" /\ q.key = fl[f].key /\ q.client = fl[f].client
      /\ q.cs = fl[f].cs /\ q.res = a
  BY <1>2, <1>3, Zenon DEF FlightRec
<1> HIDE DEF q
<1>6. Upstream' = Upstream \ {f} /\ f \in Upstream
  BY <1>1, <1>2, <1>4, <1>5, FlightChange DEF Upstream
<1>7. GlobalExact' /\ global' \in Nat
  <2>1. Cardinality(Upstream') = Cardinality(Upstream) - 1 /\ Cardinality(Upstream) > 0
    BY <1>6, UpstreamFinite, CountOut
  <2>2. Cardinality(Upstream) \in Nat /\ global = Cardinality(Upstream) /\ global <= MaxConcurrent
    BY <1>0, UpstreamFinite DEF GlobalExact
  <2>3. MaxConcurrent \in Nat
    BY DnsCacheAssumption
  <2>4. global' \in Nat /\ global' = Cardinality(Upstream') /\ global' <= MaxConcurrent
    BY <1>1, <2>1, <2>2, <2>3
  <2> QED BY <2>4 DEF GlobalExact
<1>8. /\ entries' \in [Key -> Entry \cup {Nil}] /\ (\A j \in Key : EntryInv(j)')
      /\ Cardinality(Stored') <= MaxEntries
  BY <1>0, <1>1 DEF EntryInv, Stored
<1>9. q.pc \in Mapped \cup {"unmapped"} /\ q.pc # "unmapped" /\ AnswerInv(q)
  BY <1>1, <1>3, <1>5 DEF Mapped, AnswerInv
<1> QED BY <1>0, <1>1, <1>2, <1>3, <1>4, <1>5, <1>7, <1>8, <1>9, FlightOnly, Zenon

\* r.store(key, f.addrs, f.err): the flight stays in the map.
LEMMA StoreAnswerStep ==
  ASSUME IInv, NEW f \in Flight, StoreAnswer(f)
  PROVE  IInv'
<1> DEFINE q == [fl[f] EXCEPT !.pc = "stored"]
<1>0. /\ TypeOK /\ now \in Nat /\ global \in Nat /\ GlobalExact
      /\ flights \in [Key -> Flight \cup {Nil}] /\ entries \in [Key -> Entry \cup {Nil}]
      /\ (\A j \in Key : EntryInv(j)) /\ Cardinality(Stored) <= MaxEntries /\ FlightInv(f)
  BY TypeOKParts DEF IInv
<1>1. /\ fl[f].pc = "answered" /\ Store(fl[f].key, fl[f].res)
      /\ UNCHANGED <<now, flights, clients, slots, global, call>>
  BY DEF StoreAnswer
<1>2. /\ fl[f] \in FlightRec /\ fl[f].key \in Key /\ flights[fl[f].key] = f
      /\ fl \in [Flight -> FlightRec \cup {NoFlight}] /\ fl[f].pc \in Mapped
  BY <1>1, MappedFlight DEF Mapped
<1>3. AnswerInv(fl[f])
  BY <1>0, <1>1 DEF FlightInv
<1>4. /\ q \in FlightRec /\ q.pc = "stored" /\ q.key = fl[f].key /\ q.client = fl[f].client
      /\ q.cs = fl[f].cs /\ q.res = fl[f].res
  BY <1>2 DEF FlightRec
<1>5. fl' = [fl EXCEPT ![f] = q]
  BY <1>2 DEF StoreAnswer
<1> HIDE DEF q
<1>6. Upstream' = Upstream
  BY <1>1, <1>2, <1>4, <1>5, FlightChange DEF Upstream
<1>7. GlobalExact' /\ global' \in Nat
  BY <1>0, <1>1, <1>6 DEF GlobalExact
<1>8. /\ entries' \in [Key -> Entry \cup {Nil}] /\ (\A j \in Key : EntryInv(j)')
      /\ Cardinality(Stored') <= MaxEntries
  BY <1>0, <1>1, <1>2, <1>3, StoreStep DEF AnswerInv
<1>9. q.pc \in Mapped \cup {"unmapped"} /\ q.pc # "unmapped" /\ AnswerInv(q)
  BY <1>3, <1>4 DEF Mapped, AnswerInv
<1> QED BY <1>0, <1>1, <1>2, <1>4, <1>5, <1>7, <1>8, <1>9, FlightOnly, Zenon

\* delete(r.flights, key).
LEMMA UnmapStep ==
  ASSUME IInv, NEW f \in Flight, Unmap(f)
  PROVE  IInv'
<1> DEFINE q == [fl[f] EXCEPT !.pc = "unmapped"]
<1>0. /\ TypeOK /\ global \in Nat /\ GlobalExact
      /\ flights \in [Key -> Flight \cup {Nil}] /\ entries \in [Key -> Entry \cup {Nil}]
      /\ (\A j \in Key : EntryInv(j)) /\ Cardinality(Stored) <= MaxEntries /\ FlightInv(f)
  BY TypeOKParts DEF IInv
<1>1. /\ fl[f].pc = "stored" /\ UNCHANGED <<now, entries, clients, slots, global, call>>
      /\ flights' = [flights EXCEPT ![fl[f].key] = Nil]
  BY DEF Unmap
<1>2. /\ fl[f] \in FlightRec /\ fl[f].key \in Key
      /\ fl \in [Flight -> FlightRec \cup {NoFlight}] /\ fl[f].pc \in Mapped
  BY <1>1, MappedFlight DEF Mapped
<1>3. /\ q \in FlightRec /\ q.pc = "unmapped" /\ q.key = fl[f].key /\ q.client = fl[f].client
      /\ q.cs = fl[f].cs /\ q.res = fl[f].res
  BY <1>2 DEF FlightRec
<1>4. fl' = [fl EXCEPT ![f] = q]
  BY <1>2 DEF Unmap
<1> HIDE DEF q
<1>5. /\ flights' \in [Key -> Flight \cup {Nil}] /\ flights'[fl[f].key] = Nil
      /\ \A j \in Key : j # fl[f].key => flights'[j] = flights[j]
  BY <1>0, <1>1, <1>2
<1>6. AnswerInv(q)
  BY <1>0, <1>1, <1>3 DEF FlightInv, AnswerInv
<1>7. Upstream' = Upstream
  BY <1>1, <1>2, <1>3, <1>4, FlightChange DEF Upstream
<1>8. GlobalExact' /\ global' \in Nat /\ (\A j \in Key : EntryInv(j)') /\ Cardinality(Stored') <= MaxEntries
  BY <1>0, <1>1, <1>7 DEF EntryInv, Stored, GlobalExact
<1> QED BY <1>0, <1>1, <1>2, <1>3, <1>4, <1>5, <1>6, <1>8, FlightOnly, Zenon

\* close(f.done): what the waiters get is about their name, and no older than
\* their calls.
LEMMA CloseStep ==
  ASSUME IInv, NEW f \in Flight, Close(f)
  PROVE  IInv'
<1> DEFINE q == [[fl[f] EXCEPT !.pc = "closed"] EXCEPT !.res = Nil]
           pc(t) == IF call[t].pc = "wait" THEN "ready" ELSE call[t].pc
           got(t) == [[[call[t] EXCEPT !.pc = pc(t)] EXCEPT !.f = Nil] EXCEPT !.res = fl[f].res]
<1>0. /\ TypeOK /\ now \in Nat /\ GlobalExact /\ MapInv /\ FlightInv(f) /\ Nil \notin Flight
      /\ call \in [Caller -> CallRec] /\ fl \in [Flight -> FlightRec \cup {NoFlight}]
      /\ flights \in [Key -> Flight \cup {Nil}]
  BY TypeOKParts, DnsCacheAssumption DEF IInv
<1>1. /\ fl[f].pc = "unmapped" /\ UNCHANGED <<now, entries, flights, clients, slots, global>>
      /\ fl[f].res \in Answer /\ fl[f].res.key = fl[f].key /\ fl[f].res.at = now
      /\ fl[f] \in FlightRec
  <2>1. fl[f].pc = "unmapped" /\ UNCHANGED <<now, entries, flights, clients, slots, global>>
    BY Zenon DEF Close
  <2>2. fl[f] \in FlightRec
    BY <1>0, <2>1 DEF NoFlight
  <2> QED BY <1>0, <2>1, <2>2 DEF FlightInv, AnswerInv
<1>2. /\ q \in FlightRec /\ q.pc = "closed" /\ q.key = fl[f].key /\ q.client = fl[f].client
      /\ q.cs = fl[f].cs
  BY <1>1, Zenon DEF FlightRec
<1>3. fl' = [fl EXCEPT ![f] = q]
  BY <1>0, Zenon DEF Close
<1> HIDE DEF q
<1>4. /\ fl' \in [Flight -> FlightRec \cup {NoFlight}]
      /\ fl'[f] = q /\ \A g \in Flight : g # f => fl'[g] = fl[g]
  BY <1>0, <1>2, <1>3, FlightChange
<1>5. call' = [t \in Caller |-> IF call[t].f # f THEN call[t] ELSE got(t)]
  BY <1>0, Zenon DEF Close
<1>6. ASSUME NEW t \in Caller
      PROVE  /\ got(t) \in CallRec /\ got(t).pc = pc(t) /\ got(t).f = Nil /\ got(t).res = fl[f].res
             /\ got(t).key = call[t].key /\ got(t).client = call[t].client
             /\ got(t).cs = call[t].cs /\ got(t).start = call[t].start
  <2>1. call[t] \in CallRec /\ pc(t) \in {"returned", "enter", "sem", "recheck", "release", "join", "wait", "ready"}
    BY <1>0 DEF CallRec
  <2> HIDE DEF pc
  <2> QED BY <1>1, <2>1, Zenon DEF CallRec
<1> HIDE DEF got
<1>7. call' \in [Caller -> CallRec]
  BY <1>0, <1>5, <1>6
<1>8. TypeOK'
  BY <1>0, <1>1, <1>4, <1>7 DEF TypeOK, FlightRec, CallRec
<1>9. SlotsExact'
  <2>1. ASSUME NEW t \in Caller
        PROVE  call'[t].cs = call[t].cs /\ (call'[t].pc = "sem" <=> call[t].pc = "sem")
    BY <1>5, <1>6
  <2>2. ASSUME NEW g \in Flight PROVE fl'[g].cs = fl[g].cs
    BY <1>2, <1>4
  <2> QED BY <1>1, <2>1, <2>2, SlotsSame DEF IInv
<1>10. ClientsInv' /\ (\A j \in Key : EntryInv(j)') /\ Cardinality(Stored') <= MaxEntries
  BY <1>1 DEF IInv, ClientsInv, EntryInv, Stored
<1>11. MapInv'
  BY <1>0, <1>1, <1>4 DEF MapInv, Mapped
<1>12. GlobalExact'
  <2>1. Upstream' = Upstream
    BY <1>1, <1>2, <1>4 DEF Upstream
  <2> QED BY <1>0, <1>1, <2>1 DEF GlobalExact
<1>13. ASSUME NEW t \in Caller PROVE CallInv(t)' /\ WaitInv(t)'
  <2>0. CallInv(t) /\ WaitInv(t) /\ call[t] \in CallRec
    BY <1>0 DEF IInv
  <2>1. CASE call[t].f # f
    <3>1. call'[t] = call[t]
      BY <1>5, <2>1
    <3>2. CallInv(t)'
      BY <1>1, <2>0, <3>1, Zenon DEF CallInv, PointsRight
    <3>3. call[t].f # Nil => fl'[call[t].f] = fl[call[t].f]
      BY <1>4, <2>0, <2>1 DEF CallRec
    <3>4. WaitInv(t)'
      BY <2>0, <3>1, <3>3 DEF WaitInv, Good
    <3> QED BY <3>2, <3>4
  <2>2. CASE call[t].f = f
    <3>1. call'[t] = got(t)
      BY <1>5, <2>2
    <3>2. call[t].pc # "returned" /\ call[t].key = fl[f].key
      BY <1>0, <2>0, <2>2 DEF CallInv, WaitInv, NoCall
    <3>3. call[t].start <= now /\ call[t].start \in Nat
      BY <2>0, <3>2 DEF CallInv, CallRec
    <3>4. CallInv(t)'
      BY <1>1, <1>6, <2>0, <3>1, <3>2, Zenon DEF CallInv, PointsRight
    <3>5. Good(fl[f].res, call[t].key, call[t].start)
      BY <1>0, <1>1, <3>2, <3>3 DEF Good
    <3>6. WaitInv(t)'
      BY <1>6, <3>1, <3>5 DEF WaitInv, Good
    <3> QED BY <3>4, <3>6
  <2> QED BY <2>1, <2>2
<1>14. ASSUME NEW g \in Flight PROVE FlightInv(g)'
  <2>1. CASE g = f
    BY <1>0, <1>1, <1>2, <1>4, <2>1 DEF FlightInv, PointsRight, Mapped
  <2>2. CASE g # f
    BY <1>1, <1>4, <2>2 DEF IInv, FlightInv, AnswerInv, PointsRight
  <2> QED BY <2>1, <2>2
<1> QED BY <1>8, <1>9, <1>10, <1>11, <1>12, <1>13, <1>14 DEF IInv

\* The deferred release: the flight gives its struct and its place back.
LEMMA FlightReleasesStep ==
  ASSUME IInv, NEW f \in Flight, FlightReleases(f)
  PROVE  IInv'
<1>0. /\ TypeOK /\ GlobalExact /\ MapInv /\ FlightInv(f) /\ SlotsExact /\ ClientsInv
      /\ Nil \notin Slots /\ Nil \notin Flight
      /\ call \in [Caller -> CallRec] /\ fl \in [Flight -> FlightRec \cup {NoFlight}]
      /\ flights \in [Key -> Flight \cup {Nil}] /\ clients \in [Client -> Slots \cup {Nil}]
      /\ slots \in [Slots -> [sem : Nat, users : Nat]]
  BY TypeOKParts, DnsCacheAssumption DEF IInv
<1>1. /\ fl[f].pc = "closed" /\ UNCHANGED <<now, entries, flights, global, call>>
      /\ ReleaseSlot(fl[f].client, fl[f].cs) /\ fl' = [fl EXCEPT ![f] = NoFlight]
  BY DEF FlightReleases
<1>2. fl[f] \in FlightRec
  BY <1>0, <1>1 DEF NoFlight
<1>3. /\ fl' \in [Flight -> FlightRec \cup {NoFlight}]
      /\ fl'[f] = NoFlight /\ \A g \in Flight : g # f => fl'[g] = fl[g]
  BY <1>0, <1>1, FlightChange
<1>4. NoFlight.pc = "gone" /\ NoFlight.cs = Nil /\ NoFlight.client = NoClient
  BY DEF NoFlight
<1>5. ASSUME NEW d PROVE CallersOf(d)' = CallersOf(d) /\ HoldersOf(d)' = HoldersOf(d)
  BY <1>1 DEF CallersOf, HoldersOf
<1>6. /\ slots' \in [Slots -> [sem : Nat, users : Nat]] /\ clients' \in [Client -> Slots \cup {Nil}]
      /\ SlotsExact' /\ ClientsInv'
      /\ \A u \in Caller : call[u].pc # "enter" /\ call[u].cs # Nil =>
           clients'[call[u].client] = clients[call[u].client]
      /\ \A g \in Flight \ {f} : fl[g].cs # Nil => clients'[fl[g].client] = clients[fl[g].client]
  <2>1. CASE fl[f].cs = Nil
    <3>1. UNCHANGED <<slots, clients>>
      BY <1>1, <2>1 DEF ReleaseSlot
    <3>2. ASSUME NEW g \in Flight PROVE fl'[g].cs = fl[g].cs
      BY <1>3, <1>4, <2>1
    <3>3. SlotsExact'
      BY <1>0, <1>1, <3>1, <3>2, SlotsSame
    <3> QED BY <1>0, <3>1, <3>3 DEF ClientsInv
  <2>2. CASE fl[f].cs # Nil
    <3>1. PICK cs \in Slots : cs = fl[f].cs
      BY <1>2, <2>2 DEF FlightRec
    <3>2. PICK c \in Client : c = fl[f].client
      BY <1>0, <2>2 DEF FlightInv, AnswerInv, PointsRight
    <3>3. clients[c] = cs /\ Leave(c, cs, 1)
      BY <1>0, <1>1, <2>2, <3>1, <3>2 DEF FlightInv, PointsRight, ReleaseSlot
    <3>4. Cardinality(FlightsOf(cs)') = Cardinality(FlightsOf(cs)) - 1
      <4>1. FlightsOf(cs)' = FlightsOf(cs) \ {f} /\ f \in FlightsOf(cs)
        BY <1>0, <1>3, <1>4, <3>1 DEF FlightsOf
      <4> QED BY <4>1, Finite, CountOut
    <3>5. /\ Cardinality(FlightsOf(cs)') + Cardinality(CallersOf(cs)')
               = (Cardinality(FlightsOf(cs)) + Cardinality(CallersOf(cs))) - 1
          /\ Cardinality(FlightsOf(cs)') + Cardinality(HoldersOf(cs)')
               = (Cardinality(FlightsOf(cs)) + Cardinality(HoldersOf(cs))) - 1
      BY <1>5, <3>4, Finite
    <3>6. ASSUME NEW d \in Slots \ {cs} PROVE FlightsOf(d)' = FlightsOf(d)
      BY <1>0, <1>3, <1>4, <3>1, <3>6 DEF FlightsOf
    <3>7. /\ slots' \in [Slots -> [sem : Nat, users : Nat]]
          /\ clients' \in [Client -> Slots \cup {Nil}]
          /\ SlotsExact' /\ ClientsInv'
          /\ \A d \in Client : clients[d] # cs => clients'[d] = clients[d]
          /\ FlightsOf(cs)' # {} \/ CallersOf(cs)' # {} => clients' = clients
      BY <1>0, <1>5, <3>3, <3>5, <3>6, LeaveStep
    <3>8. ASSUME NEW u \in Caller, call[u].pc # "enter", call[u].cs # Nil
          PROVE  clients'[call[u].client] = clients[call[u].client]
      <4>1. CASE call[u].cs = cs
        <5>1. u \in CallersOf(cs)
          BY <4>1 DEF CallersOf
        <5>2. CallersOf(cs)' # {}
          BY <1>5, <5>1
        <5> QED BY <3>7, <5>2
      <4>2. CASE call[u].cs # cs
        BY <3>7, <3>8, <4>2 DEF IInv, CallInv, PointsRight
      <4> QED BY <4>1, <4>2
    <3>9. ASSUME NEW g \in Flight \ {f}, fl[g].cs # Nil
          PROVE  clients'[fl[g].client] = clients[fl[g].client]
      <4>1. CASE fl[g].cs = cs
        BY <1>3, <3>7, <3>9, <4>1 DEF FlightsOf
      <4>2. CASE fl[g].cs # cs
        BY <3>7, <3>9, <4>2 DEF IInv, FlightInv, AnswerInv, PointsRight
      <4> QED BY <4>1, <4>2
    <3> QED BY <3>7, <3>8, <3>9
  <2> QED BY <2>1, <2>2
<1>7. TypeOK'
  BY <1>0, <1>1, <1>3, <1>6 DEF TypeOK, FlightRec
<1>8. (\A j \in Key : EntryInv(j)') /\ Cardinality(Stored') <= MaxEntries
  BY <1>1 DEF IInv, EntryInv, Stored
<1>9. MapInv'
  BY <1>0, <1>1, <1>3 DEF MapInv, Mapped
<1>10. GlobalExact'
  <2>1. Upstream' = Upstream
    BY <1>1, <1>3, <1>4 DEF Upstream
  <2> QED BY <1>0, <1>1, <2>1 DEF GlobalExact
<1>11. ASSUME NEW t \in Caller PROVE CallInv(t)' /\ WaitInv(t)'
  <2>1. CallInv(t) /\ WaitInv(t) /\ call[t].f \in Flight \cup {Nil} /\ call'[t] = call[t]
    BY <1>0, <1>1 DEF IInv, CallRec
  <2>2. call[t].pc # "enter" => (PointsRight(call[t]) => PointsRight(call[t])')
    BY <1>1, <1>6 DEF PointsRight
  <2>3. CallInv(t)'
    BY <1>1, <2>1, <2>2 DEF CallInv
  <2>4. call[t].f # f
    BY <1>0, <1>1, <2>1 DEF WaitInv
  <2>5. WaitInv(t)'
    BY <1>3, <2>1, <2>4 DEF WaitInv, Good
  <2> QED BY <2>3, <2>5
<1>12. ASSUME NEW g \in Flight PROVE FlightInv(g)'
  <2>1. CASE g = f
    BY <1>3, <1>4, <2>1 DEF FlightInv, PointsRight, Mapped
  <2>2. CASE g # f
    <3>1. FlightInv(g) /\ fl'[g] = fl[g]
      BY <1>3, <2>2 DEF IInv
    <3>2. PointsRight(fl[g]) => PointsRight(fl[g])'
      BY <1>1, <1>6, <2>2, <3>1 DEF PointsRight
    <3> QED BY <1>1, <3>1, <3>2 DEF FlightInv, AnswerInv
  <2> QED BY <2>1, <2>2
<1> QED BY <1>6, <1>7, <1>8, <1>9, <1>10, <1>11, <1>12 DEF IInv

-----------------------------------------------------------------------------
(* The clock, the start, and the theorems *)

\* Time does not pass between an answer and close(f.done).
LEMMA TickStep ==
  ASSUME IInv, Tick
  PROVE  IInv'
<1>0. TypeOK /\ now \in Nat /\ call \in [Caller -> CallRec]
  BY TypeOKParts DEF IInv
<1>1. /\ now' = now + 1 /\ UNCHANGED <<entries, flights, clients, slots, global, fl, call>>
      /\ \A f \in Flight : fl[f].pc \notin {"answered", "stored", "unmapped"}
  BY DEF Tick
<1>2. TypeOK'
  BY <1>0, <1>1 DEF TypeOK
<1>3. SlotsExact'
  BY <1>1, SlotsSame DEF IInv
<1>4. /\ ClientsInv' /\ MapInv' /\ GlobalExact' /\ (\A k \in Key : EntryInv(k)')
      /\ Cardinality(Stored') <= MaxEntries
  BY <1>1 DEF IInv, ClientsInv, MapInv, GlobalExact, Upstream, EntryInv, Stored
<1>5. ASSUME NEW t \in Caller PROVE CallInv(t)' /\ WaitInv(t)'
  <2>1. CallInv(t) /\ WaitInv(t) /\ call[t].start \in Nat
    BY <1>0 DEF IInv, CallRec
  <2>2. call[t].start <= now => call[t].start <= now'
    BY <1>0, <1>1, <2>1
  <2> QED BY <1>1, <2>1, <2>2 DEF CallInv, WaitInv, Good, PointsRight
<1>6. ASSUME NEW f \in Flight PROVE FlightInv(f)'
  BY <1>1 DEF IInv, FlightInv, AnswerInv, PointsRight
<1> QED BY <1>2, <1>3, <1>4, <1>5, <1>6 DEF IInv

\* Nothing is held and nothing is cached in the beginning.
LEMMA Initially == Init => IInv
<1> SUFFICES ASSUME Init PROVE IInv
  OBVIOUS
<1>1. /\ \A t \in Caller : call[t] = NoCall
      /\ \A f \in Flight : fl[f] = NoFlight
      /\ \A k \in Key : entries[k] = Nil /\ flights[k] = Nil
      /\ \A c \in Client : clients[c] = Nil
      /\ \A cs \in Slots : slots[cs].sem = 0 /\ slots[cs].users = 0
      /\ now = 0 /\ global = 0
  BY DEF Init
<1>2. TypeOK
  <2>1. /\ call \in [Caller -> CallRec] /\ fl \in [Flight -> FlightRec \cup {NoFlight}]
        /\ entries \in [Key -> Entry \cup {Nil}] /\ flights \in [Key -> Flight \cup {Nil}]
        /\ clients \in [Client -> Slots \cup {Nil}] /\ slots \in [Slots -> [sem : Nat, users : Nat]]
    BY NoCallType DEF Init
  <2> QED BY <1>1, <2>1, TypeOKParts
<1>3. NoCall.cs = Nil /\ NoCall.f = Nil /\ NoCall.res = Nil /\ NoCall.client = NoClient
      /\ NoCall.pc = "returned" /\ NoFlight.cs = Nil /\ NoFlight.client = NoClient
      /\ NoFlight.pc = "gone"
  BY DEF NoCall, NoFlight
<1>4. SlotsExact
  <2>1. ASSUME NEW cs \in Slots
        PROVE  FlightsOf(cs) = {} /\ HoldersOf(cs) = {} /\ CallersOf(cs) = {}
    BY <1>1, <1>3, DnsCacheAssumption DEF FlightsOf, HoldersOf, CallersOf
  <2>2. ASSUME NEW cs \in Slots
        PROVE  /\ Cardinality(FlightsOf(cs)) = 0 /\ Cardinality(HoldersOf(cs)) = 0
               /\ Cardinality(CallersOf(cs)) = 0
    BY <2>1, FS_EmptySet
  <2>3. MaxPerClient \in Nat
    BY DnsCacheAssumption
  <2> QED BY <1>1, <2>2, <2>3 DEF SlotsExact
<1>5. GlobalExact /\ Cardinality(Stored) <= MaxEntries
  <2>1. Upstream = {} /\ Stored = {}
    BY <1>1, <1>3 DEF Upstream, Stored
  <2>2. Cardinality(Upstream) = 0 /\ Cardinality(Stored) = 0
    BY <2>1, FS_EmptySet
  <2> QED BY <1>1, <2>2, DnsCacheAssumption DEF GlobalExact
<1>6. ClientsInv /\ MapInv /\ \A k \in Key : EntryInv(k)
  BY <1>1 DEF ClientsInv, MapInv, EntryInv
<1>7. ASSUME NEW t \in Caller PROVE CallInv(t) /\ WaitInv(t)
  BY <1>1, <1>3 DEF CallInv, WaitInv, PointsRight
<1>8. ASSUME NEW f \in Flight PROVE FlightInv(f)
  BY <1>1, <1>3 DEF FlightInv, PointsRight, Mapped
<1> QED BY <1>2, <1>4, <1>5, <1>6, <1>7, <1>8 DEF IInv

\* The inductive invariant holds in every reachable state of the cache.
THEOREM Inductive == Spec => []IInv
<1>1. Init => IInv
  BY Initially
<1>2. IInv /\ [Next]_vars => IInv'
  <2> SUFFICES ASSUME IInv, [Next]_vars PROVE IInv'
    OBVIOUS
  <2>1. ASSUME NEW t \in Caller, NEW k \in Key, NEW c \in Tags[t], Lookup(t, k, c) PROVE IInv'
    BY <2>1, LookupStep
  <2>2. ASSUME NEW t \in Caller, CallerStep(t) \/ GiveUpSlot(t) \/ WaitGivesUp(t) PROVE IInv'
    BY <2>2, EnterClientStep, TakeSlotStep, RecheckStep, CallerReleasesStep, WaitStep, GiveUpStep
    DEF CallerStep
  <2>3. ASSUME NEW f \in Flight, FlightStep(f) PROVE IInv'
    BY <2>3, TakeGlobalStep, CongestedStep, AnsweredStep, StoreAnswerStep, UnmapStep, CloseStep,
       FlightReleasesStep DEF FlightStep
  <2>4. CASE Tick
    BY <2>4, TickStep
  <2>5. CASE UNCHANGED vars
    <3>1. UNCHANGED <<now, entries, flights, clients, slots, global, fl, call>>
      BY <2>5 DEF vars
    <3>2. TypeOK' /\ SlotsExact'
      BY <3>1, SlotsSame DEF IInv, TypeOK
    <3>3. /\ ClientsInv' /\ MapInv' /\ GlobalExact' /\ (\A k \in Key : EntryInv(k)')
          /\ Cardinality(Stored') <= MaxEntries
      BY <3>1, Zenon DEF IInv, ClientsInv, MapInv, GlobalExact, Upstream, EntryInv, Stored
    <3>4. ASSUME NEW t \in Caller PROVE CallInv(t)' /\ WaitInv(t)'
      BY <3>1, Zenon DEF IInv, CallInv, WaitInv, Good, PointsRight
    <3>5. ASSUME NEW f \in Flight PROVE FlightInv(f)'
      BY <3>1 DEF IInv, FlightInv, AnswerInv, PointsRight
    <3> QED BY <3>2, <3>3, <3>4, <3>5 DEF IInv
  <2> QED BY <2>1, <2>2, <2>3, <2>4, <2>5 DEF Next
<1> QED BY <1>1, <1>2, PTL DEF Spec

\* The variables of the cache keep their types.
THEOREM TypeCorrect == Spec => []TypeOK
<1>1. IInv => TypeOK
  BY DEF IInv
<1> QED BY <1>1, Inductive, PTL

\* Concurrent lookups of one name are merged, in every interleaving.
THEOREM NamesLookedUpOnce == Spec => []SingleFlight
<1>1. ASSUME IInv PROVE SingleFlight
  <2> SUFFICES ASSUME NEW f \in Flight, NEW g \in Flight,
                      fl[f].pc \notin {"gone", "unmapped", "closed"},
                      fl[g].pc \notin {"gone", "unmapped", "closed"}, fl[f].key = fl[g].key
               PROVE  f = g
    BY DEF SingleFlight, Active
  <2>1. fl[f].pc \in Mapped /\ fl[g].pc \in Mapped
    <3>1. fl \in [Flight -> FlightRec \cup {NoFlight}]
      BY <1>1, TypeOKParts DEF IInv
    <3>2. ASSUME NEW h \in Flight, fl[h].pc \notin {"gone", "unmapped", "closed"}
          PROVE  fl[h].pc \in Mapped
      BY <3>1, <3>2, FlightKinds
    <3> QED BY <3>2
  <2> QED BY <1>1, <2>1, MappedFlight
<1> QED BY <1>1, Inductive, PTL

\* No client has more lookups than maxPerClient, although its clientSlots are
\* dropped and created anew.
THEOREM ClientsCapped == Spec => []PerClientCap
<1>1. ASSUME IInv PROVE PerClientCap
  <2> SUFFICES ASSUME NEW c \in Client
               PROVE  Cardinality({f \in Active : fl[f].client = c}) +
                      Cardinality({t \in Holding : call[t].client = c}) <= MaxPerClient
    BY DEF PerClientCap
  <2> DEFINE A == {f \in Active : fl[f].client = c}
             H == {t \in Holding : call[t].client = c}
             cs == clients[c]
  <2>0. /\ clients \in [Client -> Slots \cup {Nil}] /\ NoClient \notin Client /\ SlotsExact
        /\ slots \in [Slots -> [sem : Nat, users : Nat]]
        /\ MaxPerClient \in Nat
    BY <1>1, TypeOKParts, DnsCacheAssumption DEF IInv
  <2>1. ASSUME NEW f \in A PROVE cs # Nil /\ f \in FlightsOf(cs)
    BY <1>1, <2>0, <2>1 DEF IInv, FlightInv, PointsRight, FlightsOf, Active
  <2>2. ASSUME NEW t \in H PROVE cs # Nil /\ t \in HoldersOf(cs)
    <3>1. /\ t \in Caller /\ call[t].pc \in {"recheck", "release", "join"} /\ call[t].cs # Nil
          /\ call[t].client = c
      BY <2>2 DEF Holding
    <3>2. clients[c] = call[t].cs
      BY <1>1, <3>1 DEF IInv, CallInv, PointsRight
    <3> QED BY <3>1, <3>2 DEF HoldersOf, CallersOf
  <2>3. CASE cs = Nil
    <3>1. A = {} /\ H = {}
      BY <2>1, <2>2, <2>3
    <3>2. Cardinality(A) = 0 /\ Cardinality(H) = 0
      BY <3>1, FS_EmptySet, Zenon
    <3> QED BY <2>0, <3>2
  <2>4. CASE cs # Nil
    <3>1. A \subseteq FlightsOf(cs) /\ H \subseteq HoldersOf(cs)
      BY <2>1, <2>2
    <3>2. /\ Cardinality(A) <= Cardinality(FlightsOf(cs)) /\ Cardinality(A) \in Nat
          /\ Cardinality(H) <= Cardinality(HoldersOf(cs)) /\ Cardinality(H) \in Nat
      BY <3>1, Finite, FS_Subset, FS_CardinalityType
    <3>3. /\ slots[cs].sem = Cardinality(FlightsOf(cs)) + Cardinality(HoldersOf(cs))
          /\ slots[cs].sem <= MaxPerClient
      BY <2>0, <2>4 DEF SlotsExact
    <3> HIDE DEF A, H, cs
    <3>4. Cardinality(FlightsOf(cs)) \in Nat /\ Cardinality(HoldersOf(cs)) \in Nat
      BY Finite
    <3>5. Cardinality(A) + Cardinality(H) <= MaxPerClient
      BY <2>0, <3>2, <3>3, <3>4
    <3> QED BY <3>5 DEF A, H
  <2> QED BY <2>3, <2>4
<1> QED BY <1>1, Inductive, PTL

\* The global slots in use are exactly the lookups upstream, a client has a
\* map entry exactly while somebody uses it, and a name has a flight in the map
\* only while one runs; the cache stays within maxEntries.
THEOREM NothingLeaksEver == Spec => []NothingLeaks
<1>1. ASSUME IInv PROVE NothingLeaks
  <2>0. /\ clients \in [Client -> Slots \cup {Nil}] /\ NoClient \notin Client /\ SlotsExact
        /\ ClientsInv /\ Nil \notin Slots
        /\ call \in [Caller -> CallRec] /\ fl \in [Flight -> FlightRec \cup {NoFlight}]
    BY <1>1, TypeOKParts, DnsCacheAssumption DEF IInv
  <2>1. ASSUME NEW c \in Client, clients[c] # Nil
        PROVE  \/ \E f \in Active : fl[f].client = c
               \/ \E t \in Holding : call[t].client = c
               \/ \E t \in Caller : call[t].pc = "sem" /\ call[t].client = c
    <3>1. PICK cs \in Slots : cs = clients[c]
      BY <2>0, <2>1
    <3>2. slots[cs].users > 0 /\ slots[cs].users = Cardinality(FlightsOf(cs)) + Cardinality(CallersOf(cs))
      BY <2>0, <2>1, <3>1 DEF ClientsInv, SlotsExact
    <3>3. FlightsOf(cs) # {} \/ CallersOf(cs) # {}
      BY <3>2, FS_EmptySet
    <3>4. ASSUME NEW f \in FlightsOf(cs) PROVE f \in Active /\ fl[f].client = c
      <4>1. f \in Flight /\ fl[f].cs = cs /\ fl[f].cs # Nil
        BY <2>0 DEF FlightsOf
      <4>2. fl[f].pc # "gone"
        BY <2>0, <4>1, FlightKinds
      <4>3. fl[f].client \in Client /\ clients[fl[f].client] = clients[c]
        BY <1>1, <3>1, <4>1 DEF IInv, FlightInv, AnswerInv, PointsRight
      <4> QED BY <2>0, <2>1, <4>1, <4>2, <4>3 DEF ClientsInv, Active
    <3>5. ASSUME NEW t \in CallersOf(cs)
          PROVE  /\ t \in Caller /\ call[t].client = c
                 /\ call[t].pc = "sem" \/ t \in Holding
      <4>1. t \in Caller /\ call[t].cs = cs /\ call[t].cs # Nil
        BY <2>0 DEF CallersOf
      <4>2. CallInv(t) /\ call[t] \in CallRec
        BY <1>1, <2>0, <4>1 DEF IInv
      <4>3. call[t].pc \in {"sem", "recheck", "release", "join"}
        <5>1. NoCall.cs = Nil
          BY NoCallType
        <5>2. call[t].pc \notin {"returned", "enter", "wait", "ready"}
          BY <4>1, <4>2, <5>1 DEF CallInv
        <5> QED BY <4>2, <5>2 DEF CallRec
      <4>4. call[t].client \in Client /\ clients[call[t].client] = clients[c]
        BY <3>1, <4>1, <4>2, <4>3 DEF CallInv, PointsRight
      <4> QED BY <2>0, <2>1, <4>1, <4>3, <4>4 DEF ClientsInv, Holding
    <3> QED BY <3>3, <3>4, <3>5
  <2>2. ASSUME NEW c \in Client, NEW f \in Active, fl[f].client = c PROVE clients[c] # Nil
    BY <1>1, <2>0, <2>2 DEF IInv, FlightInv, PointsRight, Active
  <2>3. ASSUME NEW c \in Client, NEW t \in Caller, call[t].client = c,
               t \in Holding \/ call[t].pc = "sem"
        PROVE  clients[c] # Nil
    BY <1>1, <2>0, <2>3 DEF IInv, CallInv, PointsRight, Holding
  <2>4. ASSUME NEW k \in Key, flights[k] # Nil
        PROVE  fl[flights[k]].pc \notin {"gone", "closed", "unmapped"}
    BY <1>1, <2>4 DEF IInv, MapInv, Mapped
  <2>5. \A c \in Client :
          clients[c] # Nil <=> \/ \E f \in Active : fl[f].client = c
                               \/ \E t \in Holding : call[t].client = c
                               \/ \E t \in Caller : call[t].pc = "sem" /\ call[t].client = c
    BY <2>1, <2>2, <2>3 DEF Holding
  <2> QED BY <1>1, <2>4, <2>5 DEF NothingLeaks, IInv, GlobalExact
<1> QED BY <1>1, Inductive, PTL

\* No caller gets another name's answer, or one that was stale when its call
\* began.
THEOREM AnswersStayFresh == Spec => []AnswersFresh
<1>1. ASSUME IInv PROVE AnswersFresh
  <2>0. now \in Nat /\ entries \in [Key -> Entry \cup {Nil}]
    BY <1>1, TypeOKParts DEF IInv
  <2>1. ASSUME NEW k \in Key, Found(k) = "cached" PROVE Good(entries[k].answer, k, now)
    <3>1. entries[k] # Nil /\ now < entries[k].expires
      BY <2>1 DEF Found, Fresh
    <3>2. entries[k] \in Entry /\ EntryInv(k)
      BY <1>1, <2>0, <3>1 DEF IInv
    <3> QED BY <2>0, <3>1, <3>2 DEF EntryInv, Entry, Answer, Good
  <2> QED BY <1>1, <2>1 DEF AnswersFresh, IInv, WaitInv
<1> QED BY <1>1, Inductive, PTL

-----------------------------------------------------------------------------
(* Nobody waits for nothing *)

\* A caller that waits waits for a flight.
WaitsFor == \A t \in Caller : call[t].pc = "wait" => call[t].f # Nil

\* Whatever a caller or a flight blocks on, somebody is under way who will
\* release it: a flight that has not closed its channel, a flight or a caller
\* past the queue that holds one of the client's places, a lookup upstream.
SomebodyIsAhead ==
  /\ \A t \in Caller : call[t].pc = "wait" =>
       call[t].f \in Active /\ fl[call[t].f].pc # "closed"
  /\ \A t \in Caller : call[t].pc = "sem" /\ slots[call[t].cs].sem >= MaxPerClient =>
       \/ \E f \in Active : fl[f].client = call[t].client
       \/ \E u \in Holding : call[u].client = call[t].client
  /\ \A f \in Flight : fl[f].pc = "queued" /\ global >= MaxConcurrent => Upstream # {}

\* A step that changes one caller keeps WaitsFor if that one is right.
LEMMA OneWaits ==
  ASSUME WaitsFor, NEW t \in Caller, \A u \in Caller : u # t => call'[u] = call[u],
         call'[t].pc = "wait" => call'[t].f # Nil
  PROVE  WaitsFor'
  BY DEF WaitsFor

\* The callers' steps.
LEMMA CallersWait ==
  ASSUME IInv, WaitsFor, NEW t \in Caller,
         \/ \E k \in Key, c \in Tags[t] : Lookup(t, k, c)
         \/ CallerStep(t) \/ GiveUpSlot(t) \/ WaitGivesUp(t)
  PROVE  WaitsFor'
<1>0. call \in [Caller -> CallRec] /\ Nil \notin Flight
  BY TypeOKParts, DnsCacheAssumption DEF IInv
<1>1. ASSUME NEW k \in Key, NEW c \in Tags[t], Lookup(t, k, c) PROVE WaitsFor'
  <2>1. \A u \in Caller : u # t => call'[u] = call[u]
    BY <1>0, <1>1 DEF Lookup
  <2>2. call'[t].pc = "wait" => call'[t].f # Nil
    <3> DEFINE started == [NoCall EXCEPT !.key = k, !.start = now]
    <3>1. CASE Found(k) = "cached"
      <4>1. call'[t] = NoCall
        BY <1>0, <1>1, <3>1 DEF Lookup
      <4> QED BY <4>1 DEF NoCall
    <3>2. CASE Found(k) = "flight"
      <4>1. call'[t] = [started EXCEPT !.pc = "wait", !.f = flights[k]]
        BY <1>0, <1>1, <3>2 DEF Lookup
      <4>2. call'[t].f = flights[k]
        BY <4>1 DEF NoCall
      <4> QED BY <3>2, <4>2 DEF Found
    <3>3. CASE Found(k) = "miss"
      <4>1. call'[t] = [started EXCEPT !.pc = IF c = NoClient THEN "recheck" ELSE "enter",
                                       !.client = c]
        BY <1>0, <1>1, <3>3 DEF Lookup
      <4>2. call'[t].pc # "wait"
        BY <4>1 DEF NoCall
      <4> QED BY <4>2
    <3> QED BY <3>1, <3>2, <3>3 DEF Found
  <2> QED BY <2>1, <2>2, OneWaits
<1>2. ASSUME Return(t) PROVE WaitsFor'
  <2>1. (\A u \in Caller : u # t => call'[u] = call[u]) /\ call'[t].pc = "returned"
    BY <1>0, <1>2 DEF Return, NoCall
  <2> QED BY <2>1, OneWaits
<1>3. CASE EnterClient(t) \/ TakeSlot(t)
  <2>1. /\ \A u \in Caller : u # t => call'[u] = call[u]
        /\ call'[t].pc \in {"sem", "recheck"}
    <3>1. CASE EnterClient(t)
      <4>1. PICK cs : call' = [call EXCEPT ![t].pc = "sem", ![t].cs = cs]
        BY <3>1 DEF EnterClient
      <4> QED BY <1>0, <4>1 DEF CallRec
    <3>2. CASE TakeSlot(t)
      <4>1. call' = [call EXCEPT ![t].pc = "recheck"]
        BY <3>2 DEF TakeSlot
      <4> QED BY <1>0, <4>1 DEF CallRec
    <3> QED BY <1>3, <3>1, <3>2
  <2> QED BY <2>1, OneWaits
<1>4. CASE Recheck(t)
  <2> DEFINE k == call[t].key
             g == CHOOSE f \in FreeFlights : TRUE
  <2>1. CASE Found(k) = "cached"
    <3>1. call' = [call EXCEPT ![t].pc = "release", ![t].res = entries[k].answer]
      BY <1>4, <2>1 DEF Recheck
    <3>2. (\A u \in Caller : u # t => call'[u] = call[u]) /\ call'[t].pc = "release"
      BY <1>0, <3>1 DEF CallRec
    <3> QED BY <3>2, OneWaits
  <2>2. CASE Found(k) = "flight"
    <3>1. call' = [call EXCEPT ![t].pc = "join", ![t].f = flights[k]]
      BY <1>4, <2>2 DEF Recheck
    <3>2. (\A u \in Caller : u # t => call'[u] = call[u]) /\ call'[t].pc = "join"
      BY <1>0, <3>1 DEF CallRec
    <3> QED BY <3>2, OneWaits
  <2>3. CASE Found(k) = "miss"
    <3>1. /\ FreeFlights # {}
          /\ call' = [call EXCEPT ![t].pc = "wait", ![t].f = g, ![t].cs = Nil,
                                  ![t].client = NoClient]
      BY <1>4, <2>3 DEF Recheck
    <3>2. (\A u \in Caller : u # t => call'[u] = call[u]) /\ call'[t].f = g
      BY <1>0, <3>1 DEF CallRec
    <3>3. g \in Flight
      BY <3>1 DEF FreeFlights
    <3> QED BY <1>0, <3>2, <3>3, OneWaits
  <2> QED BY <2>1, <2>2, <2>3 DEF Found
<1>5. CASE CallerReleases(t)
  <2>1. CASE call[t].pc = "release"
    BY <1>2, <1>5, <2>1 DEF CallerReleases
  <2>2. CASE call[t].pc # "release"
    <3>1. call' = [call EXCEPT ![t].pc = IF call[t].f = Nil THEN "ready" ELSE "wait",
                               ![t].cs = Nil, ![t].client = NoClient]
      BY <1>5, <2>2 DEF CallerReleases
    <3>2. /\ \A u \in Caller : u # t => call'[u] = call[u]
          /\ call'[t].f = call[t].f
          /\ call'[t].pc = IF call[t].f = Nil THEN "ready" ELSE "wait"
      BY <1>0, <3>1 DEF CallRec
    <3> QED BY <3>2, OneWaits
  <2> QED BY <2>1, <2>2
<1> QED BY <1>1, <1>2, <1>3, <1>4, <1>5 DEF CallerStep, WaitDone, GiveUpSlot, WaitGivesUp

\* close(f.done) wakes every caller that waits for the flight.
LEMMA CloseWakes ==
  ASSUME IInv, WaitsFor, NEW f \in Flight, Close(f)
  PROVE  WaitsFor'
<1>0. call \in [Caller -> CallRec]
  BY TypeOKParts DEF IInv
<1> SUFFICES ASSUME NEW t \in Caller, call'[t].pc = "wait" PROVE call'[t].f # Nil
  BY DEF WaitsFor
<1>1. CASE call[t].f # f
  BY <1>1 DEF Close, WaitsFor
<1>2. CASE call[t].f = f
  <2>1. call'[t] = [call[t] EXCEPT !.pc = IF @ = "wait" THEN "ready" ELSE @,
                                   !.f = Nil, !.res = fl[f].res]
    BY <1>2 DEF Close
  <2>2. call'[t].pc # "wait"
    BY <1>0, <2>1 DEF CallRec
  <2> QED BY <2>2
<1> QED BY <1>1, <1>2

\* No lost wakeup and no wait for nothing: a caller blocked on f.done or on
\* its client's slots, and a flight blocked on the global slots, always has
\* somebody under way ahead of it who holds what it needs, however the
\* callers give up, the cache expires and flights are torn down.
THEOREM NobodyWaitsInVain == Spec => []SomebodyIsAhead
<1>1. Init => WaitsFor
  BY DEF Init, WaitsFor, NoCall
<1>2. IInv /\ WaitsFor /\ [Next]_vars => WaitsFor'
  <2> SUFFICES ASSUME IInv, WaitsFor, [Next]_vars PROVE WaitsFor'
    OBVIOUS
  <2>1. ASSUME NEW t \in Caller, NEW k \in Key, NEW c \in Tags[t], Lookup(t, k, c) PROVE WaitsFor'
    BY <2>1, CallersWait
  <2>2. ASSUME NEW t \in Caller, CallerStep(t) \/ GiveUpSlot(t) \/ WaitGivesUp(t) PROVE WaitsFor'
    BY <2>2, CallersWait
  <2>3. ASSUME NEW f \in Flight, FlightStep(f) PROVE WaitsFor'
    <3>1. CASE Close(f)
      BY <3>1, CloseWakes
    <3>2. CASE UNCHANGED call
      BY <3>2 DEF WaitsFor
    <3> QED BY <2>3, <3>1, <3>2
        DEF FlightStep, TakeGlobal, Congested, Answered, StoreAnswer, Unmap, FlightReleases
  <2>4. CASE Tick \/ UNCHANGED vars
    BY <2>4 DEF Tick, vars, WaitsFor
  <2> QED BY <2>1, <2>2, <2>3, <2>4 DEF Next
<1>3. ASSUME IInv, WaitsFor PROVE SomebodyIsAhead
  <2>0. /\ call \in [Caller -> CallRec] /\ fl \in [Flight -> FlightRec \cup {NoFlight}]
        /\ Nil \notin Slots /\ MaxPerClient \in Nat \ {0} /\ MaxConcurrent \in Nat \ {0}
        /\ SlotsExact /\ GlobalExact
    BY <1>3, TypeOKParts, DnsCacheAssumption DEF IInv
  <2>1. ASSUME NEW t \in Caller, call[t].pc = "wait"
        PROVE  call[t].f \in Active /\ fl[call[t].f].pc # "closed"
    <3>1. call[t].f \in Flight
      BY <1>3, <2>0, <2>1 DEF WaitsFor, CallRec
    <3>2. call[t].f # Nil
      BY <1>3, <2>1 DEF WaitsFor
    <3>3. fl[call[t].f].pc \notin {"gone", "closed"}
      BY <1>3, <3>2 DEF IInv, WaitInv
    <3> QED BY <3>1, <3>3 DEF Active
  <2>2. ASSUME NEW t \in Caller, call[t].pc = "sem", slots[call[t].cs].sem >= MaxPerClient
        PROVE  \/ \E f \in Active : fl[f].client = call[t].client
               \/ \E u \in Holding : call[u].client = call[t].client
    <3>1. PICK cs \in Slots : cs = call[t].cs
      <4>1. call[t].cs # Nil
        BY <1>3, <2>2 DEF IInv, CallInv
      <4> QED BY <2>0, <4>1 DEF CallRec
    <3>2. call[t].client \in Client /\ clients[call[t].client] = cs
      BY <1>3, <2>0, <2>2, <3>1 DEF IInv, CallInv, PointsRight
    <3>3. FlightsOf(cs) # {} \/ HoldersOf(cs) # {}
      <4>1. /\ slots[cs].sem = Cardinality(FlightsOf(cs)) + Cardinality(HoldersOf(cs))
            /\ slots[cs].sem >= MaxPerClient
        BY <2>0, <2>2, <3>1 DEF SlotsExact
      <4>2. Cardinality(FlightsOf(cs)) # 0 \/ Cardinality(HoldersOf(cs)) # 0
        BY <2>0, <4>1
      <4> QED BY <4>2, FS_EmptySet
    <3>4. ASSUME NEW f \in FlightsOf(cs) PROVE f \in Active /\ fl[f].client = call[t].client
      <4>1. f \in Flight /\ fl[f].cs = cs /\ fl[f].cs # Nil
        BY <2>0 DEF FlightsOf
      <4>2. fl[f].pc # "gone"
        BY <2>0, <4>1, FlightKinds
      <4>3. fl[f].client \in Client /\ clients[fl[f].client] = clients[call[t].client]
        BY <1>3, <3>2, <4>1 DEF IInv, FlightInv, AnswerInv, PointsRight
      <4>4. clients[call[t].client] # Nil
        BY <2>0, <3>2
      <4> QED BY <1>3, <3>2, <4>1, <4>2, <4>3, <4>4 DEF IInv, ClientsInv, Active
    <3>5. ASSUME NEW u \in HoldersOf(cs) PROVE u \in Holding /\ call[u].client = call[t].client
      <4>1. u \in Caller /\ call[u].cs = cs /\ call[u].cs # Nil /\ call[u].pc # "sem"
        BY <2>0 DEF HoldersOf, CallersOf
      <4>2. CallInv(u) /\ call[u] \in CallRec
        BY <1>3, <2>0, <4>1 DEF IInv
      <4>3. call[u].pc \in {"recheck", "release", "join"}
        <5>1. NoCall.cs = Nil
          BY NoCallType
        <5>2. call[u].pc \notin {"returned", "enter", "wait", "ready"}
          BY <4>1, <4>2, <5>1 DEF CallInv
        <5> QED BY <4>1, <4>2, <5>2 DEF CallRec
      <4>4. call[u].client \in Client /\ clients[call[u].client] = clients[call[t].client]
        BY <3>2, <4>1, <4>2, <4>3 DEF CallInv, PointsRight
      <4>5. clients[call[t].client] # Nil
        BY <2>0, <3>2
      <4> QED BY <1>3, <3>2, <4>1, <4>3, <4>4, <4>5 DEF IInv, ClientsInv, Holding
    <3> QED BY <3>3, <3>4, <3>5
  <2>3. ASSUME NEW f \in Flight, global >= MaxConcurrent PROVE Upstream # {}
    <3>1. Cardinality(Upstream) # 0
      BY <2>0, <2>3 DEF GlobalExact
    <3> QED BY <3>1, FS_EmptySet
  <2> QED BY <2>1, <2>2, <2>3 DEF SomebodyIsAhead
<1> QED BY <1>1, <1>2, <1>3, Inductive, PTL DEF Spec

-----------------------------------------------------------------------------
(* What congestion can leave in the cache *)

\* A lookup that was asked only after its timeout was over leaves at most a
\* failure in the cache, and one that expires FailureTTL after it was stored.
LateIsShort ==
  \A k \in Stored : entries[k].answer.late =>
    entries[k].answer.kind = "failure" /\ entries[k].expires = entries[k].answer.at + FailureTTL

\* Of the cached answers, the late ones are failures.
LateFails == \A k \in Stored : entries[k].answer.late => entries[k].answer.kind = "failure"

\* The bound on what CongestionNotCached misses: congestion is cached, but
\* never as a name that does not exist, and no longer than failureTTL
\* (run and store in dnscache.go).
THEOREM CongestionCachedBriefly == Spec => []LateIsShort
<1>1. Init => LateFails
  BY DEF Init, LateFails, Stored
<1>2. ASSUME IInv, LateFails, NEW f \in Flight, StoreAnswer(f)
      PROVE  LateFails'
  <2> DEFINE a == fl[f].res
  <2>1. Store(fl[f].key, a) /\ fl[f].pc = "answered"
    BY <1>2 DEF StoreAnswer
  <2>2. a.late => a.kind = "failure"
    BY <1>2, <2>1 DEF IInv, FlightInv, AnswerInv
  <2> HIDE DEF a
  <2>3. CASE UNCHANGED entries
    BY <1>2, <2>3 DEF LateFails, Stored
  <2>4. CASE ~UNCHANGED entries
    <3>1. PICK keep \in Evicted :
            entries' = [j \in Key |->
              IF j = fl[f].key THEN [answer |-> a, expires |-> now + Lifetime(a.kind)]
              ELSE IF j \in keep THEN entries[j] ELSE Nil]
      BY <2>1, <2>4 DEF Store
    <3> SUFFICES ASSUME NEW j \in Key, entries'[j] # Nil, entries'[j].answer.late
                 PROVE  entries'[j].answer.kind = "failure"
      BY DEF LateFails, Stored
    <3>2. CASE j = fl[f].key
      BY <2>2, <3>1, <3>2
    <3>3. CASE j # fl[f].key
      <4>1. entries'[j] = entries[j]
        BY <3>1, <3>3
      <4> QED BY <1>2, <4>1 DEF LateFails, Stored
    <3> QED BY <3>2, <3>3
  <2> QED BY <2>3, <2>4
<1>3. IInv /\ LateFails /\ [Next]_vars => LateFails'
  <2> SUFFICES ASSUME IInv, LateFails, [Next]_vars PROVE LateFails'
    OBVIOUS
  <2>1. CASE UNCHANGED entries
    BY <2>1 DEF LateFails, Stored
  <2>2. UNCHANGED entries \/ \E f \in Flight : StoreAnswer(f)
    <3>1. ASSUME NEW t \in Caller, NEW k \in Key, NEW c \in Tags[t], Lookup(t, k, c)
          PROVE  UNCHANGED entries
      BY <3>1 DEF Lookup
    <3>2. ASSUME NEW t \in Caller, CallerStep(t) \/ GiveUpSlot(t) \/ WaitGivesUp(t)
          PROVE  UNCHANGED entries
      BY <3>2, Zenon DEF CallerStep, EnterClient, TakeSlot, GiveUpSlot, Recheck, CallerReleases,
                         WaitDone, WaitGivesUp
    <3>3. ASSUME NEW f \in Flight, FlightStep(f)
          PROVE  UNCHANGED entries \/ StoreAnswer(f)
      BY <3>3, Zenon DEF FlightStep, TakeGlobal, Congested, Answered, Unmap, Close, FlightReleases
    <3>4. CASE Tick \/ UNCHANGED vars
      BY <3>4 DEF Tick, vars
    <3> QED BY <3>1, <3>2, <3>3, <3>4, Zenon DEF Next
  <2> QED BY <1>2, <2>1, <2>2
<1>4. ASSUME IInv, LateFails PROVE LateIsShort
  BY <1>4 DEF IInv, EntryInv, LateFails, LateIsShort, Stored, Lifetime
<1> QED BY <1>1, <1>3, <1>4, Inductive, PTL DEF Spec
=============================================================================
