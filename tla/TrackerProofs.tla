---------------------------- MODULE TrackerProofs ----------------------------
(***************************************************************************)
(* Proofs about Tracker, for every number of clients, connections and      *)
(* entries and every value of the limits.  IInv is the inductive           *)
(* invariant: the types, exact counters, and buckets that were last        *)
(* refilled in the past (without which a refill could be negative).        *)
(* RateInv and LinesInv rest on it: the first relates each bucket to the   *)
(* ideal one, the second each counter to the lines that were counted.      *)
(***************************************************************************)
EXTENDS Tracker, FiniteSetTheorems, TLAPS

\* Zenon first: SMT is for the leaves that need arithmetic or records.
USE ZenonT(4), SMTT(15)

BucketsPast ==
  /\ \A c \in Obj : objs[c].requests.last <= now /\ objs[c].logs.last <= now
  /\ unknown.requests.last <= now /\ unknown.logs.last <= now

IInv == TypeOK /\ BucketsPast /\ SlotsExact

-----------------------------------------------------------------------------
(* Buckets and entries *)

\* The set operators Max and Min on two numbers, as bucket.take uses them.
LEMMA MaxMin ==
  ASSUME NEW x \in Nat, NEW y \in Nat
  PROVE  Max({x, y}) \in {x, y} /\ Min({x, y}) \in {x, y}
<1>1. \E z \in {x, y} : \A w \in {x, y} : z >= w
  OBVIOUS
<1>2. \E z \in {x, y} : \A w \in {x, y} : z =< w
  OBVIOUS
<1> QED BY <1>1, <1>2 DEF Max, Min

\* A bucket's capacity is a number.
LEMMA CapacityNat ==
  ASSUME NEW burst \in Nat
  PROVE  Capacity(burst) \in Nat
<1>1. Max({burst, 1}) \in Nat
  BY MaxMin
<1>2. \A x, y \in Nat : x * y \in Nat
  OBVIOUS
<1> QED BY <1>1, <1>2, TrackerAssumption DEF Capacity

\* A take leaves a bucket: tokens never go below zero.
LEMMA TakeBucket ==
  ASSUME NEW b \in Bucket, NEW rate \in Nat, NEW burst \in Nat,
         now \in Nat, b.last <= now
  PROVE  Take(b, rate, burst) \in Bucket /\ Take(b, rate, burst).last <= now
<1>1. Refilled(b, rate, burst) \in Nat
  <2>1. now - b.last \in Nat
    BY DEF Bucket
  <2>2. \A x, y \in Nat : x * y \in Nat
    OBVIOUS
  <2>3. b.tokens + (now - b.last) * rate \in Nat
    BY <2>1, <2>2 DEF Bucket
  <2> QED BY <2>3, CapacityNat, MaxMin DEF Refilled
<1> QED BY <1>1, TrackerAssumption DEF Take, Bucket

\* A line changes an entry's log bucket and line counters, nothing else of it.
LEMMA LoggedClient ==
  ASSUME NEW e \in Client, NEW key \in LogKey, now \in Nat,
         e.logs.last <= now, e.requests.last <= now
  PROVE  LET f == Logged(e, key)
         IN  /\ f \in Client /\ f.conns = e.conns /\ f.seen = e.seen
             /\ f.logs.last <= now /\ f.requests = e.requests
<1> DEFINE t == Take(e.logs, LogRate, LogBurst)
           f == [e EXCEPT !.logs = t]
<1>1. t \in Bucket /\ t.last <= now
  BY TakeBucket, TrackerAssumption DEF Client
<1>2. /\ f \in Client /\ f.conns = e.conns /\ f.seen = e.seen
      /\ f.logs.last <= now /\ f.requests = e.requests
      /\ f.suppressed = e.suppressed /\ f.other = e.other
  BY <1>1 DEF Client
<1> HIDE DEF t, f
<1>4. [f EXCEPT !.suppressed[key] = @ + 1] \in Client
  BY <1>2 DEF Client
<1>5. [f EXCEPT !.other = @ + 1] \in Client
  BY <1>2 DEF Client
<1>6. \/ Logged(e, key) = f
      \/ Logged(e, key) = [f EXCEPT !.suppressed[key] = @ + 1]
      \/ Logged(e, key) = [f EXCEPT !.other = @ + 1]
  BY DEF Logged, f, t
<1> QED BY <1>2, <1>4, <1>5, <1>6 DEF Client

\* A new entry is an entry.
LEMMA ZeroClientType == ZeroClient \in Client
  BY DEF ZeroClient, Client, ZeroBucket, Bucket, NoLines

\* What get hands out: an object of the heap whose struct is well formed and
\* counts exactly the connections it holds, new or not.
LEMMA SeenEntry ==
  ASSUME IInv, NEW ip \in IP, NEW c \in Obj, Get(ip, c)
  PROVE  /\ Seen(c) \in Client
         /\ Seen(c).conns = Cardinality(HeldBy(c))
         /\ Seen(c).requests.last <= now /\ Seen(c).logs.last <= now
         /\ clients' \in [IP -> Obj \cup {Nil}]
         /\ overflow' \in [Network -> Obj \cup {Nil}]
<1>1. c \notin Attached => HeldBy(c) = {}
  BY TrackerAssumption DEF Get, NewStruct, Free, Attached, IInv, TypeOK
<1>2. objs[c] \in Client /\ now \in Nat
  BY DEF IInv, TypeOK
<1>3. Cardinality({}) = 0
  BY FS_EmptySet
<1>4. /\ Struct(c) \in Client
      /\ Struct(c).conns = Cardinality(HeldBy(c))
      /\ Struct(c).requests.last <= now /\ Struct(c).logs.last <= now
  <2>1. CASE c \in Attached
    BY <2>1, <1>2 DEF Struct, IInv, SlotsExact, BucketsPast
  <2>2. CASE c \notin Attached
    <3>1. Struct(c) = ZeroClient
      BY <2>2 DEF Struct
    <3>2. ZeroClient.conns = 0 /\ ZeroClient.requests.last = 0 /\ ZeroClient.logs.last = 0
      BY DEF ZeroClient, ZeroBucket
    <3> QED BY <3>1, <3>2, <2>2, <1>1, <1>2, <1>3, ZeroClientType
  <2> QED BY <2>1, <2>2
<1>5. /\ Seen(c) \in Client /\ Seen(c).conns = Struct(c).conns
      /\ Seen(c).requests = Struct(c).requests /\ Seen(c).logs = Struct(c).logs
  BY <1>2, <1>4 DEF Seen, Client
<1>7. /\ clients' \in [IP -> Obj \cup {Nil}]
      /\ overflow' \in [Network -> Obj \cup {Nil}]
  BY DEF Get, IInv, TypeOK
<1> QED BY <1>4, <1>5, <1>7

-----------------------------------------------------------------------------
(* Connections and the sets that count them *)

\* There are finitely many connections to count.
LEMMA OpenFinite ==
  /\ IsFiniteSet(Open)
  /\ \A c : IsFiniteSet(HeldBy(c))
<1>1. Open \in SUBSET Conn
  BY DEF Open
<1>2. \A c : HeldBy(c) \in SUBSET Conn
  BY DEF Open, HeldBy
<1> QED BY <1>1, <1>2, FS_Subset, TrackerAssumption

\* Acquire counts one connection more, in one entry.
LEMMA OpenAfterAcquire ==
  ASSUME TypeOK, NEW k \in Conn, NEW ip \in IP, NEW c \in Obj,
         conn[k].state = "closed",
         conn' = [conn EXCEPT ![k] = [state |-> "open", ip |-> ip, obj |-> c]]
  PROVE  /\ Open' = Open \cup {k}
         /\ \A d : HeldBy(d)' = IF d = c THEN HeldBy(d) \cup {k} ELSE HeldBy(d)
         /\ k \notin Open /\ \A d : k \notin HeldBy(d)
<1>1. /\ \A j \in Conn : j # k => conn'[j] = conn[j]
      /\ conn'[k].state = "open" /\ conn'[k].obj = c
  BY DEF TypeOK
<1>2. Open' = Open \cup {k} /\ k \notin Open
  BY <1>1 DEF Open
<1> QED BY <1>1, <1>2 DEF Open, HeldBy

\* The release counts one connection less, in the entry it was counted in.
LEMMA OpenAfterRelease ==
  ASSUME TypeOK, NEW k \in Conn, conn[k].state = "open",
         conn' = [conn EXCEPT ![k] = Closed]
  PROVE  /\ Open' = Open \ {k}
         /\ \A d : HeldBy(d)' = IF d = conn[k].obj THEN HeldBy(d) \ {k} ELSE HeldBy(d)
         /\ k \in Open /\ k \in HeldBy(conn[k].obj)
         /\ conn[k].obj \in Obj
<1>1. /\ \A j \in Conn : j # k => conn'[j] = conn[j]
      /\ conn'[k].state = "closed"
  BY DEF TypeOK, Closed
<1>2. Open' = Open \ {k} /\ k \in Open /\ k \in HeldBy(conn[k].obj)
  BY <1>1 DEF Open, HeldBy
<1>3. conn[k].obj \in Obj
  BY DEF TypeOK, Closed
<1> QED BY <1>1, <1>2, <1>3 DEF Open, HeldBy

\* A call that only rewrites one entry, keeping its count, keeps the books.
LEMMA EntryRewritten ==
  ASSUME IInv, NEW c \in Obj, NEW e \in Client,
         objs' = [objs EXCEPT ![c] = e], e.conns = Cardinality(HeldBy(c)),
         e.requests.last <= now, e.logs.last <= now,
         UNCHANGED <<now, unknown, total, conn>>
  PROVE  objs' \in [Obj -> Client] /\ BucketsPast' /\ SlotsExact'
<1>1. objs' \in [Obj -> Client] /\ objs \in [Obj -> Client]
  BY DEF IInv, TypeOK
<1>2. Open' = Open /\ \A d : HeldBy(d)' = HeldBy(d)
  BY DEF Open, HeldBy
<1>3. BucketsPast'
  BY <1>1 DEF IInv, BucketsPast
<1>4. SlotsExact'
  BY <1>1, <1>2 DEF IInv, SlotsExact
<1> QED BY <1>1, <1>3, <1>4

-----------------------------------------------------------------------------
(* The invariant *)

\* An empty tracker counts nothing.
LEMMA InitIInv == Init => IInv
<1> SUFFICES ASSUME Init PROVE IInv
  OBVIOUS
<1>1. Open = {} /\ \A c : HeldBy(c) = {}
  BY DEF Init, Open, HeldBy, Closed
<1>2. TypeOK
  BY ZeroClientType, CapacityNat, TrackerAssumption DEF Init, TypeOK
<1>3. BucketsPast
  BY DEF Init, BucketsPast, ZeroClient, ZeroBucket
<1>4. SlotsExact
  BY <1>1, FS_EmptySet DEF Init, SlotsExact, ZeroClient
<1> QED BY <1>2, <1>3, <1>4 DEF IInv

\* Acquire keeps the counters exact, whether it grants or refuses.
LEMMA AcquireIInv ==
  ASSUME IInv, NEW ip \in IP, NEW k \in Conn, NEW lim \in ConnLimits,
         NEW max \in TotalLimits, Acquire(ip, k, lim, max)
  PROVE  IInv'
<1>1. PICK c \in Obj :
        /\ Get(ip, c)
        /\ IF ClientFull(Seen(c), lim)
           THEN /\ objs' = [objs EXCEPT ![c] = Seen(c)]
                /\ UNCHANGED <<total, conn>>
           ELSE /\ objs' = [objs EXCEPT ![c] = [Seen(c) EXCEPT !.conns = @ + 1]]
                /\ total' = total + 1
                /\ conn' = [conn EXCEPT ![k] = [state |-> "open", ip |-> ip, obj |-> c]]
  BY DEF Acquire
<1>2. UNCHANGED <<now, unknown, owed, dropped, kept>> /\ conn[k].state = "closed"
  BY DEF Acquire
<1>3. /\ Seen(c) \in Client
      /\ Seen(c).conns = Cardinality(HeldBy(c))
      /\ Seen(c).requests.last <= now /\ Seen(c).logs.last <= now
      /\ clients' \in [IP -> Obj \cup {Nil}]
      /\ overflow' \in [Network -> Obj \cup {Nil}]
  BY <1>1, SeenEntry
<1>4. CASE ClientFull(Seen(c), lim)
  <2>1. objs' \in [Obj -> Client] /\ BucketsPast' /\ SlotsExact'
    BY <1>1, <1>2, <1>3, <1>4, EntryRewritten
  <2>2. TypeOK'
    BY <1>1, <1>2, <1>3, <1>4, <2>1 DEF IInv, TypeOK
  <2> QED BY <2>1, <2>2 DEF IInv
<1>5. CASE ~ClientFull(Seen(c), lim)
  <2> DEFINE e == [Seen(c) EXCEPT !.conns = @ + 1]
  <2>1. /\ e \in Client /\ e.conns = Cardinality(HeldBy(c)) + 1
        /\ e.requests = Seen(c).requests /\ e.logs = Seen(c).logs
    BY <1>3 DEF Client
  <2>2. objs' = [objs EXCEPT ![c] = e] /\ total' = total + 1
    BY <1>1, <1>5
  <2>3. conn' = [conn EXCEPT ![k] = [state |-> "open", ip |-> ip, obj |-> c]]
    BY <1>1, <1>5
  <2> HIDE DEF e
  <2>4. objs' \in [Obj -> Client] /\ objs \in [Obj -> Client]
    BY <2>1, <2>2 DEF IInv, TypeOK
  <2>5. TypeOK'
    BY <1>2, <1>3, <2>2, <2>3, <2>4 DEF IInv, TypeOK
  <2>6. BucketsPast'
    BY <1>2, <1>3, <2>1, <2>2, <2>4 DEF IInv, BucketsPast
  <2>7. /\ Open' = Open \cup {k}
        /\ \A d : HeldBy(d)' = IF d = c THEN HeldBy(d) \cup {k} ELSE HeldBy(d)
        /\ k \notin Open /\ \A d : k \notin HeldBy(d)
    BY <1>2, <2>3, OpenAfterAcquire DEF IInv
  <2>8. Cardinality(Open') = total'
    BY <2>2, <2>7, OpenFinite, FS_AddElement DEF IInv, SlotsExact
  <2>9. ASSUME NEW d \in Obj PROVE objs'[d].conns = Cardinality(HeldBy(d)')
    <3>1. CASE d = c
      <4>1. Cardinality(HeldBy(c) \cup {k}) = Cardinality(HeldBy(c)) + 1
        BY <2>7, OpenFinite, FS_AddElement
      <4> QED BY <3>1, <4>1, <2>1, <2>2, <2>4, <2>7
    <3>2. CASE d # c
      BY <3>2, <2>2, <2>4, <2>7 DEF IInv, SlotsExact
    <3> QED BY <3>1, <3>2
  <2>10. SlotsExact'
    BY <2>8, <2>9 DEF SlotsExact
  <2> QED BY <2>5, <2>6, <2>10 DEF IInv
<1> QED BY <1>4, <1>5

\* The release func keeps the counters exact, and none becomes negative.
LEMMA ReleaseIInv ==
  ASSUME IInv, NEW k \in Conn, Release(k)
  PROVE  IInv'
<1> DEFINE c == conn[k].obj
           e == Released(c)
<1>1. /\ Open' = Open \ {k}
      /\ \A d : HeldBy(d)' = IF d = c THEN HeldBy(d) \ {k} ELSE HeldBy(d)
      /\ k \in Open /\ k \in HeldBy(c) /\ c \in Obj
  BY OpenAfterRelease DEF IInv, Release
<1>2. /\ objs' = [objs EXCEPT ![c] = e] /\ total' = total - 1
      /\ UNCHANGED <<now, clients, overflow, unknown, owed, dropped, kept>>
      /\ conn' = [conn EXCEPT ![k] = Closed]
  BY DEF Release, CountedIn
<1>3. objs \in [Obj -> Client] /\ now \in Nat
  BY DEF IInv, TypeOK
<1>4. /\ Cardinality(HeldBy(c) \ {k}) = Cardinality(HeldBy(c)) - 1
      /\ Cardinality(HeldBy(c) \ {k}) \in Nat
      /\ Cardinality(Open \ {k}) = Cardinality(Open) - 1
      /\ Cardinality(Open \ {k}) \in Nat
  BY <1>1, OpenFinite, FS_RemoveElement, FS_CardinalityType
<1>5. objs[c].conns = Cardinality(HeldBy(c)) /\ total = Cardinality(Open)
  BY <1>1 DEF IInv, SlotsExact
<1>6. /\ e \in Client /\ e.conns = Cardinality(HeldBy(c) \ {k})
      /\ e.requests = objs[c].requests /\ e.logs = objs[c].logs
  BY <1>1, <1>3, <1>4, <1>5 DEF Client, Released
<1> HIDE DEF c, e
<1>7. objs' \in [Obj -> Client]
  BY <1>2, <1>3, <1>6
<1>8. TypeOK'
  BY <1>2, <1>4, <1>5, <1>7 DEF IInv, TypeOK
<1>9. BucketsPast'
  BY <1>1, <1>2, <1>3, <1>6, <1>7 DEF IInv, BucketsPast
<1>10. ASSUME NEW d \in Obj PROVE objs'[d].conns = Cardinality(HeldBy(d)')
  <2>1. CASE d = c
    BY <2>1, <1>1, <1>2, <1>3, <1>6
  <2>2. CASE d # c
    BY <2>2, <1>1, <1>2, <1>3 DEF IInv, SlotsExact
  <2> QED BY <2>1, <2>2
<1>11. SlotsExact'
  BY <1>1, <1>2, <1>4, <1>5, <1>10 DEF SlotsExact
<1> QED BY <1>8, <1>9, <1>11 DEF IInv

\* Allow leaves the connections alone.
LEMMA AllowIInv ==
  ASSUME IInv, NEW ip \in IP, NEW rate \in ReqRates, NEW burst \in ReqBursts,
         Allow(ip, rate, burst)
  PROVE  IInv'
<1>1. PICK c \in Obj :
        /\ Get(ip, c)
        /\ objs' = [objs EXCEPT ![c] =
                      [Seen(c) EXCEPT !.requests = Take(@, rate, burst)]]
        /\ owed' = IF rate > 0 /\ Granted(Seen(c).requests, rate, burst)
                   THEN [owed EXCEPT ![ip] = @ - Unit] ELSE owed
  BY DEF Allow
<1>2. UNCHANGED <<now, unknown, total, conn, dropped, kept>>
  BY DEF Allow
<1>3. /\ Seen(c) \in Client
      /\ Seen(c).conns = Cardinality(HeldBy(c))
      /\ Seen(c).requests.last <= now /\ Seen(c).logs.last <= now
      /\ clients' \in [IP -> Obj \cup {Nil}]
      /\ overflow' \in [Network -> Obj \cup {Nil}]
  BY <1>1, SeenEntry
<1> DEFINE t == Take(Seen(c).requests, rate, burst)
           e == [Seen(c) EXCEPT !.requests = t]
<1>4. t \in Bucket /\ t.last <= now
  <2>1. rate \in Nat /\ burst \in Nat
    BY TrackerAssumption, SMT
  <2> QED BY <1>3, <2>1, TakeBucket, TrackerAssumption DEF Client, IInv, TypeOK
<1> HIDE DEF t
<1>5. /\ e \in Client /\ e.conns = Cardinality(HeldBy(c))
      /\ e.requests.last <= now /\ e.logs.last <= now
  BY <1>3, <1>4 DEF Client
<1>6. objs' = [objs EXCEPT ![c] = e]
  BY <1>1 DEF t
<1> HIDE DEF e
<1>7. objs' \in [Obj -> Client] /\ BucketsPast' /\ SlotsExact'
  BY <1>2, <1>5, <1>6, EntryRewritten
<1>8. owed' \in [IP -> Int]
  BY <1>1, TrackerAssumption DEF IInv, TypeOK
<1>9. TypeOK'
  BY <1>2, <1>3, <1>7, <1>8 DEF IInv, TypeOK
<1> QED BY <1>7, <1>9 DEF IInv

\* The history of a line stays well typed.
LEMMA RecordedType ==
  ASSUME TypeOK, NEW ip \in IP \cup {Nil}, NEW c \in Obj \cup {Nil}, NEW e,
         NEW key \in LogKey, Recorded(ip, c, e, key)
  PROVE  dropped' \in Nat /\ kept' \subseteq Line
<1>1. [id |-> dropped, ip |-> ip, at |-> c, as |-> CountedAs(e, key)] \in Line
  BY DEF Line, CountedAs, TypeOK
<1> QED BY <1>1 DEF Recorded, TypeOK

\* Log leaves the connections alone.
LEMMA LogIInv ==
  ASSUME IInv, NEW ip \in IP, NEW key \in LogKey, Log(ip, key)
  PROVE  IInv'
<1>1. PICK c \in Obj :
        /\ Get(ip, c)
        /\ objs' = [objs EXCEPT ![c] = Logged(Seen(c), key)]
        /\ Recorded(ip, c, Seen(c), key)
  BY DEF Log
<1>2. UNCHANGED <<now, unknown, total, conn, owed>>
  BY DEF Log
<1>3. /\ Seen(c) \in Client
      /\ Seen(c).conns = Cardinality(HeldBy(c))
      /\ Seen(c).requests.last <= now /\ Seen(c).logs.last <= now
      /\ clients' \in [IP -> Obj \cup {Nil}]
      /\ overflow' \in [Network -> Obj \cup {Nil}]
  BY <1>1, SeenEntry
<1> DEFINE e == Logged(Seen(c), key)
<1>4. /\ e \in Client /\ e.conns = Cardinality(HeldBy(c))
      /\ e.requests.last <= now /\ e.logs.last <= now
  BY <1>3, LoggedClient DEF IInv, TypeOK
<1>5. objs' = [objs EXCEPT ![c] = e]
  BY <1>1
<1> HIDE DEF e
<1>6. objs' \in [Obj -> Client] /\ BucketsPast' /\ SlotsExact'
  BY <1>2, <1>4, <1>5, EntryRewritten
<1>7. dropped' \in Nat /\ kept' \subseteq Line
  BY <1>1, RecordedType DEF IInv
<1>8. TypeOK'
  BY <1>2, <1>3, <1>6, <1>7 DEF IInv, TypeOK
<1> QED BY <1>6, <1>8 DEF IInv

\* LogUnknown changes the entry of unknown clients only.
LEMMA LogUnknownIInv ==
  ASSUME IInv, NEW key \in LogKey, LogUnknown(key)
  PROVE  IInv'
<1>1. /\ unknown' = Logged(unknown, key) /\ Recorded(Nil, Nil, unknown, key)
      /\ UNCHANGED <<now, objs, clients, overflow, total, conn, owed>>
  BY DEF LogUnknown
<1>2. unknown' \in Client /\ unknown'.logs.last <= now /\ unknown'.requests.last <= now
  BY <1>1, LoggedClient DEF IInv, TypeOK, BucketsPast
<1>3. dropped' \in Nat /\ kept' \subseteq Line
  BY <1>1, RecordedType DEF IInv
<1>4. TypeOK'
  BY <1>1, <1>2, <1>3 DEF IInv, TypeOK
<1>5. BucketsPast'
  BY <1>1, <1>2 DEF IInv, BucketsPast
<1>6. SlotsExact'
  BY <1>1 DEF IInv, SlotsExact, Open, HeldBy
<1> QED BY <1>4, <1>5, <1>6 DEF IInv

\* A summary resets an entry's line counters, nothing else of it.
LEMMA ResetClient ==
  ASSUME NEW e \in Client
  PROVE  /\ Reset(e) \in Client /\ Reset(e).conns = e.conns /\ Reset(e).seen = e.seen
         /\ Reset(e).requests = e.requests /\ Reset(e).logs = e.logs
  BY DEF Reset, Client, NoLines

\* Sweep forgets only entries that count no connection.
LEMMA SweepIInv ==
  ASSUME IInv, Sweep
  PROVE  IInv'
<1>1. /\ UNCHANGED <<now, total, conn, owed, dropped>> /\ kept' \subseteq kept
      /\ unknown' = Reset(unknown)
      /\ objs' = [c \in Obj |-> IF c \notin Attached THEN objs[c]
                                ELSE IF Forgettable(objs[c]) /\ HeldBy(c) = {}
                                     THEN ZeroClient ELSE Reset(objs[c])]
  BY DEF Sweep
<1>2. objs \in [Obj -> Client] /\ unknown \in Client /\ now \in Nat
  BY DEF IInv, TypeOK
<1>3. /\ clients' \in [IP -> Obj \cup {Nil}]
      /\ overflow' \in [Network -> Obj \cup {Nil}]
  BY DEF Sweep, IInv, TypeOK
<1>4. ASSUME NEW c \in Obj
      PROVE  /\ objs'[c] \in Client
             /\ objs'[c].requests.last <= now /\ objs'[c].logs.last <= now
             /\ objs'[c].conns = Cardinality(HeldBy(c))
  <2>1. /\ objs[c] \in Client /\ objs[c].conns = Cardinality(HeldBy(c))
        /\ objs[c].requests.last <= now /\ objs[c].logs.last <= now
    BY <1>2 DEF IInv, SlotsExact, BucketsPast
  <2>2. CASE objs'[c] = objs[c]
    BY <2>1, <2>2
  <2>3. CASE HeldBy(c) = {} /\ objs'[c] = ZeroClient
    BY <2>3, <1>2, ZeroClientType, FS_EmptySet DEF ZeroClient, ZeroBucket
  <2>4. CASE objs'[c] = Reset(objs[c])
    BY <2>1, <2>4, ResetClient
  <2> QED BY <1>1, <2>2, <2>3, <2>4
<1>5. TypeOK'
  <2>1. objs' \in [Obj -> Client]
    BY <1>1, <1>4
  <2> QED BY <2>1, <1>1, <1>2, <1>3, ResetClient DEF IInv, TypeOK
<1>6. BucketsPast'
  BY <1>1, <1>2, <1>4, ResetClient DEF IInv, BucketsPast
<1>7. SlotsExact'
  BY <1>1, <1>4 DEF IInv, SlotsExact, Open, HeldBy
<1> QED BY <1>5, <1>6, <1>7 DEF IInv

\* Time passes: the last refills stay in the past.
LEMMA TickIInv ==
  ASSUME IInv, Tick
  PROVE  IInv'
<1>1. /\ now' = now + 1
      /\ owed' = [ip \in IP |-> Min({Capacity(ReqBurst), owed[ip] + ReqRate})]
      /\ UNCHANGED <<objs, clients, overflow, unknown, total, conn, dropped, kept>>
  BY DEF Tick
<1>2. owed' \in [IP -> Int]
  <2>1. ASSUME NEW x \in Int, NEW y \in Int PROVE Min({x, y}) \in Int
    <3>1. \E z \in {x, y} : \A w \in {x, y} : z =< w
      OBVIOUS
    <3> QED BY <3>1 DEF Min
  <2> QED BY <1>1, <2>1, CapacityNat, TrackerAssumption DEF IInv, TypeOK
<1>3. TypeOK'
  BY <1>1, <1>2 DEF IInv, TypeOK
<1>4. BucketsPast'
  <2>1. \A c \in Obj : objs[c].requests.last \in Nat /\ objs[c].logs.last \in Nat
    BY DEF IInv, TypeOK, Client, Bucket
  <2>2. unknown.requests.last \in Nat /\ unknown.logs.last \in Nat /\ now \in Nat
    BY DEF IInv, TypeOK, Client, Bucket
  <2> QED BY <1>1, <2>1, <2>2 DEF IInv, BucketsPast
<1>5. SlotsExact'
  BY <1>1 DEF IInv, SlotsExact, Open, HeldBy
<1> QED BY <1>3, <1>4, <1>5 DEF IInv

\* Every step of the tracker keeps the invariant.
LEMMA NextIInv == IInv /\ [Next]_vars => IInv'
<1> SUFFICES ASSUME IInv, [Next]_vars PROVE IInv'
  OBVIOUS
<1>1. ASSUME UNCHANGED vars PROVE IInv'
  BY <1>1 DEF vars, IInv, TypeOK, BucketsPast, SlotsExact, Open, HeldBy
<1> QED
  BY <1>1, AcquireIInv, ReleaseIInv, AllowIInv, LogIInv, LogUnknownIInv, SweepIInv,
     TickIInv DEF Next

\* Type correctness of the tracker: in particular no entry's count and no
\* bucket's tokens ever go below zero, whatever the order of the calls.
THEOREM TypeCorrect == Spec => []TypeOK
<1>1. IInv => TypeOK
  BY DEF IInv
<1> QED BY <1>1, InitIInv, NextIInv, PTL DEF Spec

\* Acquire, release and Sweep keep exact books: total and every entry's conns
\* equal the number of open connections, for any number of clients.
THEOREM SlotsAlwaysExact == Spec => []SlotsExact
<1>1. IInv => SlotsExact
  BY DEF IInv
<1> QED BY <1>1, InitIInv, NextIInv, PTL DEF Spec

-----------------------------------------------------------------------------
(* Limits and entries in use *)

\* get never moves an entry, and returns one that ip's maps now lead to.
LEMMA GetKeepsEntries ==
  ASSUME TypeOK, NEW ip \in IP, NEW c \in Obj, Get(ip, c)
  PROVE  /\ \A j \in IP : clients[j] # Nil => clients'[j] = clients[j]
         /\ \A n \in Network : overflow[n] # Nil => overflow'[n] = overflow[n]
         /\ c \in {clients'[ip], overflow'[NetOf[ip]]}
BY TrackerAssumption DEF Get, TypeOK

\* Only Acquire opens a connection.
LEMMA OnlyAcquireOpens ==
  ASSUME IInv, [Next]_vars,
         ~ \E ip \in IP, k \in Conn, lim \in ConnLimits, max \in TotalLimits :
             Acquire(ip, k, lim, max)
  PROVE  /\ Open' \subseteq Open
         /\ \A c : HeldBy(c)' \subseteq HeldBy(c)
         /\ \A k \in Open' : conn'[k] = conn[k]
<1>1. CASE UNCHANGED conn
  BY <1>1 DEF Open, HeldBy
<1>2. ASSUME NEW k \in Conn, Release(k)
      PROVE  /\ Open' \subseteq Open
             /\ \A c : HeldBy(c)' \subseteq HeldBy(c)
             /\ \A j \in Open' : conn'[j] = conn[j]
  <2>1. conn' = [conn EXCEPT ![k] = Closed] /\ conn[k].state = "open"
    BY <1>2 DEF Release
  <2>2. Open' = Open \ {k} /\ \A c : HeldBy(c)' \subseteq HeldBy(c)
    BY <2>1, OpenAfterRelease DEF IInv
  <2> QED BY <2>1, <2>2 DEF IInv, TypeOK, Open
<1> QED BY <1>1, <1>2 DEF Next, Allow, Log, LogUnknown, Sweep, Tick, vars

\* Every step keeps the entries of open connections in the maps.
LEMMA HoldersStep ==
  ASSUME IInv, HoldersAttached, [Next]_vars
  PROVE  HoldersAttached'
<1>1. ASSUME NEW ip \in IP, NEW k \in Conn, NEW lim \in ConnLimits,
             NEW max \in TotalLimits, Acquire(ip, k, lim, max)
      PROVE  HoldersAttached'
  <2>1. PICK c \in Obj :
          /\ Get(ip, c)
          /\ \/ UNCHANGED conn
             \/ conn' = [conn EXCEPT ![k] = [state |-> "open", ip |-> ip, obj |-> c]]
    BY <1>1 DEF Acquire
  <2>2. /\ \A j \in IP : clients[j] # Nil => clients'[j] = clients[j]
        /\ \A n \in Network : overflow[n] # Nil => overflow'[n] = overflow[n]
        /\ c \in {clients'[ip], overflow'[NetOf[ip]]}
    BY <2>1, GetKeepsEntries DEF IInv
  <2>3. ASSUME NEW j \in Conn, conn[j].state = "open"
        PROVE  conn[j].obj \in {clients'[conn[j].ip], overflow'[NetOf[conn[j].ip]]}
    <3>1. conn[j].ip \in IP /\ conn[j].obj \in Obj
      BY <2>3 DEF IInv, TypeOK, Closed
    <3> QED BY <2>2, <2>3, <3>1, TrackerAssumption DEF HoldersAttached, Open
  <2>4. ASSUME NEW j \in Conn, conn'[j].state = "open"
        PROVE  conn'[j].obj \in {clients'[conn'[j].ip], overflow'[NetOf[conn'[j].ip]]}
    BY <2>1, <2>2, <2>3, <2>4 DEF IInv, TypeOK
  <2> QED BY <2>4 DEF HoldersAttached, Open
<1>2. CASE Sweep
  <2>1. /\ clients' = [ip \in IP |-> IF clients[ip] # Nil /\ Forgettable(objs[clients[ip]])
                                     THEN Nil ELSE clients[ip]]
        /\ overflow' = [n \in Network |-> IF overflow[n] # Nil
                                             /\ Forgettable(objs[overflow[n]])
                                          THEN Nil ELSE overflow[n]]
        /\ UNCHANGED conn
    BY <1>2 DEF Sweep
  <2>2. ASSUME NEW k \in Open
        PROVE  conn[k].obj \in {clients'[conn[k].ip], overflow'[NetOf[conn[k].ip]]}
    <3>1. conn[k].ip \in IP /\ conn[k].obj \in Obj
      BY <2>2 DEF IInv, TypeOK, Closed, Open
    <3>2. Cardinality(HeldBy(conn[k].obj)) # 0
      BY <2>2, OpenFinite, FS_EmptySet DEF HeldBy
    <3>3. ~Forgettable(objs[conn[k].obj])
      BY <3>1, <3>2 DEF Forgettable, IInv, SlotsExact
    <3> QED BY <2>1, <2>2, <3>1, <3>3, TrackerAssumption DEF HoldersAttached
  <2> QED BY <2>1, <2>2 DEF HoldersAttached, Open
<1>3. ASSUME NEW ip \in IP, NEW c \in Obj, Get(ip, c), UNCHANGED conn
      PROVE  HoldersAttached'
  <2>1. /\ \A j \in IP : clients[j] # Nil => clients'[j] = clients[j]
        /\ \A n \in Network : overflow[n] # Nil => overflow'[n] = overflow[n]
    BY <1>3, GetKeepsEntries DEF IInv
  <2>2. \A k \in Open : conn[k].ip \in IP /\ conn[k].obj \in Obj
    BY DEF IInv, TypeOK, Closed, Open
  <2> QED BY <1>3, <2>1, <2>2, TrackerAssumption DEF HoldersAttached, Open
<1>4. ASSUME NEW k \in Conn, Release(k)
      PROVE  HoldersAttached'
  <2>1. /\ conn' = [conn EXCEPT ![k] = Closed]
        /\ UNCHANGED <<clients, overflow>>
    BY <1>4 DEF Release
  <2>2. \A j \in Open' : j \in Open /\ conn'[j] = conn[j]
    BY <2>1 DEF Open, Closed, IInv, TypeOK
  <2> QED BY <2>1, <2>2 DEF HoldersAttached
<1>5. CASE UNCHANGED <<clients, overflow, conn>>
  BY <1>5 DEF HoldersAttached, Open
<1> QED
  BY <1>1, <1>2, <1>3, <1>4, <1>5 DEF Next, Allow, Log, LogUnknown, Tick, vars

\* Sweep never forgets an entry some open connection is counted in, so the
\* pointer a release closure holds is always an entry the maps still know.
THEOREM EntriesInUseKept == Spec => []HoldersAttached
<1>1. Init => HoldersAttached
  BY DEF Init, HoldersAttached, Open, Closed
<1>2. IInv /\ HoldersAttached /\ [Next]_vars => HoldersAttached'
  BY HoldersStep
<1> QED BY <1>1, <1>2, InitIInv, NextIInv, PTL DEF Spec

\* Every step keeps each entry and the total within the limits.
LEMMA LimitsStep ==
  ASSUME IInv, EntryLimit, TotalLimit, [Next]_vars
  PROVE  EntryLimit' /\ TotalLimit'
<1>1. ASSUME NEW ip \in IP, NEW k \in Conn, NEW lim \in ConnLimits,
             NEW max \in TotalLimits, Acquire(ip, k, lim, max)
      PROVE  EntryLimit' /\ TotalLimit'
  <2>1. PICK c \in Obj :
          /\ Get(ip, c)
          /\ \/ UNCHANGED conn
             \/ /\ ~ClientFull(Seen(c), lim)
                /\ conn' = [conn EXCEPT ![k] = [state |-> "open", ip |-> ip, obj |-> c]]
    BY <1>1 DEF Acquire
  <2>2. CASE UNCHANGED conn
    BY <2>2 DEF EntryLimit, TotalLimit, Open, HeldBy
  <2>3. CASE /\ ~ClientFull(Seen(c), lim)
             /\ conn' = [conn EXCEPT ![k] = [state |-> "open", ip |-> ip, obj |-> c]]
    <3>1. conn[k].state = "closed" /\ ~TotalFull(max)
      BY <1>1 DEF Acquire
    <3>2. /\ Open' = Open \cup {k}
          /\ \A d : HeldBy(d)' = IF d = c THEN HeldBy(d) \cup {k} ELSE HeldBy(d)
          /\ k \notin Open /\ \A d : k \notin HeldBy(d)
      BY <2>3, <3>1, OpenAfterAcquire DEF IInv
    <3>3. /\ Cardinality(Open \cup {k}) = Cardinality(Open) + 1
          /\ Cardinality(HeldBy(c) \cup {k}) = Cardinality(HeldBy(c)) + 1
          /\ Cardinality(Open) \in Nat /\ Cardinality(HeldBy(c)) \in Nat
      BY <3>2, OpenFinite, FS_AddElement, FS_CardinalityType
    <3>4. lim # 0 => Cardinality(HeldBy(c)) + 1 <= lim
      <4>1. Seen(c).conns = Cardinality(HeldBy(c))
        BY <2>1, SeenEntry
      <4> QED BY <2>3, <3>3, <4>1, TrackerAssumption DEF ClientFull
    <3>5. max # 0 => Cardinality(Open) + 1 <= max
      BY <3>1, <3>3, TrackerAssumption DEF TotalFull, IInv, SlotsExact
    <3>6. EntryLimit'
      BY <3>2, <3>3, <3>4 DEF EntryLimit
    <3>7. TotalLimit'
      BY <3>2, <3>3, <3>5 DEF TotalLimit
    <3> QED BY <3>6, <3>7
  <2> QED BY <2>1, <2>2, <2>3
<1>2. ASSUME /\ Open' \subseteq Open
             /\ \A c : HeldBy(c)' \subseteq HeldBy(c)
      PROVE  EntryLimit' /\ TotalLimit'
  <2>1. /\ Cardinality(Open') <= Cardinality(Open)
        /\ Cardinality(Open') \in Nat /\ Cardinality(Open) \in Nat
    BY <1>2, OpenFinite, FS_Subset, FS_CardinalityType
  <2>2. \A c : /\ Cardinality(HeldBy(c)') <= Cardinality(HeldBy(c))
               /\ Cardinality(HeldBy(c)') \in Nat /\ Cardinality(HeldBy(c)) \in Nat
    BY <1>2, OpenFinite, FS_Subset, FS_CardinalityType
  <2>3. EntryLimit'
    BY <1>2, <2>2, TrackerAssumption DEF EntryLimit
  <2>4. TotalLimit'
    BY <1>2, <2>1, TrackerAssumption DEF TotalLimit
  <2> QED BY <2>3, <2>4
<1> QED BY <1>1, <1>2, OnlyAcquireOpens

\* Whatever limits the reloads bring, no entry and no proxy ever holds more
\* connections than the largest limit that was in force.
THEOREM LimitsHold == Spec => []LimitsRespected
<1>1. Init => EntryLimit /\ TotalLimit
  <2> SUFFICES ASSUME Init PROVE EntryLimit /\ TotalLimit
    OBVIOUS
  <2>1. Open = {} /\ \A c : HeldBy(c) = {}
    BY DEF Init, Open, HeldBy, Closed
  <2> QED BY <2>1 DEF EntryLimit, TotalLimit
<1>2. IInv /\ EntryLimit /\ TotalLimit /\ [Next]_vars => EntryLimit' /\ TotalLimit'
  BY LimitsStep
<1>3. EntryLimit /\ TotalLimit => LimitsRespected
  BY DEF LimitsRespected
<1> QED BY <1>1, <1>2, <1>3, InitIInv, NextIInv, PTL DEF Spec

-----------------------------------------------------------------------------
(* The sustained rate *)

\* Every client has an entry of its own: the map is never full.
RoomForAll == Cardinality(IP) <= MaxClients

\* The largest bucket refills within the time after which its entry may be
\* forgotten.
RefillsInTime == ReqRate = 0 \/ (ForgetAfter + 1) * ReqRate >= Capacity(ReqBurst)

\* What a take under the largest rate and burst finds in bucket b at time t.
LevelAt(b, t) ==
  IF b.primed
  THEN Min({Capacity(ReqBurst), b.tokens + (t - b.last) * ReqRate})
  ELSE Capacity(ReqBurst)

\* At time t, entry e grants no more than the o units its client has left.
Covered(e, o, t) ==
  /\ e.requests.last <= e.seen /\ e.seen <= t
  /\ ReqRate = 0 => ~e.requests.primed
  /\ LevelAt(e.requests, t) <= o /\ o <= Capacity(ReqBurst)

\* Each client's own entry is covered by what it is owed; a client without an
\* entry is owed a full bucket, which is what a new entry would grant.
RateInv ==
  /\ \A n \in Network : overflow[n] = Nil
  /\ \A i, j \in IP : clients[i] = clients[j] /\ clients[i] # Nil => i = j
  /\ \A ip \in IP : IF clients[ip] = Nil THEN owed[ip] = Capacity(ReqBurst)
                    ELSE Covered(objs[clients[ip]], owed[ip], now)

\* What Min is, of two numbers.
LEMMA MinOfTwo ==
  ASSUME NEW x \in Int, NEW y \in Int
  PROVE  Min({x, y}) = IF x <= y THEN x ELSE y
<1>1. \E z \in {x, y} : \A w \in {x, y} : z =< w
  <2>1. x =< x /\ y =< y /\ (x =< y \/ y =< x)
    BY SMT
  <2> QED BY <2>1, Zenon
<1>2. Min({x, y}) \in {x, y} /\ Min({x, y}) =< x /\ Min({x, y}) =< y
  BY <1>1, Zenon DEF Min
<1> QED BY <1>2, SMT

\* A product grows with its first factor.
LEMMA TimesGrows ==
  ASSUME NEW i \in Nat, NEW j \in Nat, NEW m \in Nat, i >= j
  PROVE  i * m >= j * m /\ i * m \in Nat /\ j * m \in Nat
<1>1. i - j \in Nat /\ (i - j) * m = i * m - j * m
  BY SMT
<1>2. (i - j) * m \in Nat /\ i * m \in Nat /\ j * m \in Nat
  BY <1>1, SMT
<1> QED BY <1>1, <1>2, SMT

\* The larger of a burst and 1.
LEMMA MaxWithOne ==
  ASSUME NEW n \in Nat
  PROVE  Max({n, 1}) = IF n >= 1 THEN n ELSE 1
<1>1. \E z \in {n, 1} : \A w \in {n, 1} : z >= w
  BY SMT
<1> QED BY <1>1, SMT DEF Max

\* A full bucket holds at least one token, and no more than the largest one.
LEMMA CapacityOf ==
  ASSUME NEW burst \in 0..ReqBurst
  PROVE  /\ Capacity(burst) \in Nat /\ Capacity(burst) >= Unit
         /\ Capacity(burst) <= Capacity(ReqBurst)
<1> DEFINE m == Max({burst, 1})
           n == Max({ReqBurst, 1})
<1>1. burst \in Nat /\ ReqBurst \in Nat /\ burst <= ReqBurst /\ Unit \in Nat
  BY TrackerAssumption, SMT
<1>2. m = (IF burst >= 1 THEN burst ELSE 1) /\ n = (IF ReqBurst >= 1 THEN ReqBurst ELSE 1)
  BY <1>1, MaxWithOne
<1>3. m \in Nat /\ n \in Nat /\ m >= 1 /\ n >= m
  BY <1>1, <1>2, SMT
<1>4. Capacity(burst) = m * Unit /\ Capacity(ReqBurst) = n * Unit
  <2> HIDE DEF m, n
  <2>1. Unit * m = m * Unit /\ Unit * n = n * Unit
    BY <1>1, <1>3, SMT
  <2> QED BY <2>1 DEF Capacity, m, n
<1> HIDE DEF m, n
<1>5. m * Unit \in Nat /\ m * Unit >= 1 * Unit /\ n * Unit >= m * Unit
  BY <1>1, <1>3, TimesGrows
<1>6. 1 * Unit = Unit
  BY <1>1, SMT
<1> QED BY <1>4, <1>5, <1>6, SMT

\* The largest bucket.
LEMMA CapacityRoom == Capacity(ReqBurst) \in Nat /\ Capacity(ReqBurst) >= Unit
<1>1. ReqBurst \in 0..ReqBurst
  BY TrackerAssumption, SMT
<1> QED BY <1>1, CapacityOf

\* What a bucket would hold at a later time is within its capacity.
LEMMA LevelType ==
  ASSUME NEW b \in Bucket, NEW t \in Nat, b.last <= t
  PROVE  LevelAt(b, t) \in Nat /\ LevelAt(b, t) <= Capacity(ReqBurst)
<1>1. b.tokens + (t - b.last) * ReqRate \in Nat
  <2>1. t - b.last \in Nat /\ b.tokens \in Nat
    BY SMT DEF Bucket
  <2>2. \A x, y \in Nat : x * y \in Nat
    BY SMT
  <2> QED BY <2>1, <2>2, TrackerAssumption, SMT
<1> QED BY <1>1, MinOfTwo, CapacityRoom, SMT DEF LevelAt

\* A take under any of the limits finds no more than LevelAt says.
LEMMA RefillBelow ==
  ASSUME NEW b \in Bucket, now \in Nat, b.last <= now,
         NEW rate \in 0..ReqRate, NEW burst \in 0..ReqBurst
  PROVE  Refilled(b, rate, burst) \in Nat /\ Refilled(b, rate, burst) <= LevelAt(b, now)
<1> DEFINE k == now - b.last
           x == b.tokens + k * rate
           y == b.tokens + k * ReqRate
<1>1. k \in Nat /\ b.tokens \in Nat /\ rate \in Nat /\ ReqRate \in Nat /\ rate <= ReqRate
  BY TrackerAssumption, SMT DEF Bucket
<1>2. x \in Nat /\ y \in Nat /\ x <= y
  <2> HIDE DEF k
  <2>1. ReqRate * k >= rate * k /\ ReqRate * k \in Nat /\ rate * k \in Nat
    BY <1>1, TimesGrows
  <2>2. k * ReqRate = ReqRate * k /\ k * rate = rate * k
    BY <1>1, SMT
  <2> QED BY <1>1, <2>1, <2>2, SMT
<1>3. Capacity(burst) \in Nat /\ Capacity(ReqBurst) \in Nat /\ Capacity(burst) <= Capacity(ReqBurst)
  BY CapacityOf, CapacityRoom
<1>4. CASE b.primed
  <2>1. /\ Refilled(b, rate, burst) = Min({Capacity(burst), x})
        /\ LevelAt(b, now) = Min({Capacity(ReqBurst), y})
    BY <1>4 DEF Refilled, LevelAt
  <2> HIDE DEF x, y
  <2> QED BY <1>2, <1>3, <2>1, MinOfTwo, SMT
<1>5. CASE ~b.primed
  BY <1>3, <1>5 DEF Refilled, LevelAt
<1> QED BY <1>4, <1>5

\* allow: what a granted request costs the entry it also costs the client.
LEMMA TakeCovered ==
  ASSUME NEW e \in Client, NEW o \in Int, now \in Nat,
         NEW rate \in ReqRates, NEW burst \in ReqBursts,
         Covered(e, o, now), e.seen = now
  PROVE  LET b == e.requests
             p == IF rate > 0 /\ Granted(b, rate, burst) THEN o - Unit ELSE o
         IN  Covered([e EXCEPT !.requests = Take(b, rate, burst)], p, now)
<1> DEFINE b == e.requests
           v == Refilled(b, rate, burst)
           w == IF v >= Unit THEN v - Unit ELSE v
           d == Take(b, rate, burst)
           f == [e EXCEPT !.requests = d]
<1>1. b \in Bucket /\ b.last <= now /\ rate \in 0..ReqRate /\ burst \in 0..ReqBurst
  BY TrackerAssumption DEF Client, Covered
<1>2. v \in Nat /\ v <= Capacity(ReqBurst) /\ v <= o /\ o <= Capacity(ReqBurst)
  <2>1. v \in Nat /\ v <= LevelAt(b, now)
    BY <1>1, RefillBelow
  <2>2. LevelAt(b, now) \in Nat /\ LevelAt(b, now) <= o /\ o <= Capacity(ReqBurst)
    BY <1>1, LevelType DEF Covered
  <2> HIDE DEF v
  <2> QED BY <2>1, <2>2, CapacityRoom, SMT
<1>3. f.seen = now /\ f.requests = d
  BY DEF Client
<1>4. CASE rate = 0
  <2>1. d = b
    BY <1>4 DEF Take
  <2>2. ~(rate > 0)
    BY <1>4, SMT
  <2> QED BY <1>2, <1>3, <2>1, <2>2 DEF Covered
<1>5. CASE rate # 0
  <2>1. d = [primed |-> TRUE, last |-> now, tokens |-> w]
    BY <1>5 DEF Take
  <2>2. Granted(b, rate, burst) <=> v >= Unit
    BY <1>5 DEF Granted
  <2>3. rate > 0 /\ ReqRate # 0 /\ d.last = now
    BY <1>1, <1>5, <2>1, TrackerAssumption, SMT
  <2> HIDE DEF v
  <2>4. w \in Nat /\ w <= Capacity(ReqBurst)
    BY <1>2, CapacityRoom, TrackerAssumption, SMT
  <2>5. LevelAt(d, now) = w
    <3>1. d.primed /\ d.tokens + (now - d.last) * ReqRate = w
      <4>1. (now - now) * ReqRate = 0
        BY TrackerAssumption, SMT
      <4> HIDE DEF w
      <4> QED BY <2>1, <2>4, <4>1, SMT
    <3> HIDE DEF d, w
    <3> QED BY <2>4, <3>1, MinOfTwo, CapacityRoom, SMT DEF LevelAt
  <2> HIDE DEF d, f, b
  <2>6. CASE v >= Unit
    <3>1. w = v - Unit /\ o - Unit <= Capacity(ReqBurst) /\ w <= o - Unit
      BY <1>2, <2>6, CapacityRoom, TrackerAssumption, SMT
    <3>2. now <= now
      BY SMT
    <3>3. Covered(f, o - Unit, now)
      BY <1>3, <2>3, <2>5, <3>1, <3>2 DEF Covered
    <3> QED BY <2>2, <2>3, <2>6, <3>3 DEF f, d, b
  <2>7. CASE ~(v >= Unit)
    <3>1. w <= o /\ now <= now
      BY <1>2, <2>7, SMT
    <3>2. Covered(f, o, now)
      BY <1>2, <1>3, <2>3, <2>5, <3>1 DEF Covered
    <3> QED BY <2>2, <2>3, <2>7, <3>2 DEF f, d, b
  <2> QED BY <2>6, <2>7
<1> QED BY <1>4, <1>5

\* A tick refills the client's ideal bucket at least as much as the entry's.
LEMMA TickCovered ==
  ASSUME NEW e \in Client, NEW o \in Int, NEW t \in Nat, Covered(e, o, t)
  PROVE  Covered(e, Min({Capacity(ReqBurst), o + ReqRate}), t + 1)
<1> DEFINE b == e.requests
           x == b.tokens + (t - b.last) * ReqRate
           y == b.tokens + ((t + 1) - b.last) * ReqRate
           p == Min({Capacity(ReqBurst), o + ReqRate})
<1>1. b \in Bucket /\ b.last \in Nat /\ b.tokens \in Nat /\ e.seen \in Nat /\ b.last <= t
  BY SMT DEF Client, Bucket, Covered
<1>2. x \in Nat /\ y \in Nat /\ y = x + ReqRate
  <2>1. \A k, r \in Nat : k * r \in Nat /\ (k + 1) * r = k * r + r
    BY SMT
  <2>2. t - b.last \in Nat /\ (t + 1) - b.last = (t - b.last) + 1
    BY <1>1, SMT
  <2>3. /\ (t - b.last) * ReqRate \in Nat
        /\ ((t + 1) - b.last) * ReqRate = (t - b.last) * ReqRate + ReqRate
    BY <2>1, <2>2, TrackerAssumption
  <2> QED BY <1>1, <2>3, TrackerAssumption, SMT
<1>3. p = IF Capacity(ReqBurst) <= o + ReqRate THEN Capacity(ReqBurst) ELSE o + ReqRate
  BY MinOfTwo, CapacityRoom, TrackerAssumption, SMT
<1>4. /\ e.requests.last <= e.seen /\ e.seen <= t + 1
      /\ ReqRate = 0 => ~b.primed
      /\ LevelAt(b, t) <= o /\ o <= Capacity(ReqBurst)
  BY <1>1, SMT DEF Covered
<1>5. LevelAt(b, t + 1) <= p
  <2>1. CASE b.primed
    <3>1. /\ LevelAt(b, t) = Min({Capacity(ReqBurst), x})
          /\ LevelAt(b, t + 1) = Min({Capacity(ReqBurst), y})
      BY <2>1 DEF LevelAt
    <3> HIDE DEF x, y, p, b
    <3> QED BY <1>2, <1>3, <1>4, <3>1, MinOfTwo, CapacityRoom, TrackerAssumption, SMT
  <2>2. CASE ~b.primed
    <3>1. LevelAt(b, t) = Capacity(ReqBurst) /\ LevelAt(b, t + 1) = Capacity(ReqBurst)
      BY <2>2 DEF LevelAt
    <3> HIDE DEF x, y, p, b
    <3> QED BY <1>3, <1>4, <3>1, CapacityRoom, TrackerAssumption, SMT
  <2> QED BY <2>1, <2>2
<1>6. p <= Capacity(ReqBurst)
  BY <1>3, <1>4, CapacityRoom, TrackerAssumption, SMT
<1> QED BY <1>4, <1>5, <1>6 DEF Covered

\* An entry old enough to be forgotten would grant a full bucket by now.
LEMMA ForgetCovered ==
  ASSUME NEW e \in Client, NEW o \in Int, now \in Nat, Covered(e, o, now),
         RefillsInTime, Forgettable(e)
  PROVE  o = Capacity(ReqBurst)
<1> DEFINE b == e.requests
           k == now - b.last
<1>1. b \in Bucket /\ b.last \in Nat /\ b.tokens \in Nat /\ e.seen \in Nat
  BY DEF Client, Bucket
<1>2. k \in Nat /\ k >= ForgetAfter + 1
  BY <1>1, TrackerAssumption, SMT DEF Covered, Forgettable
<1> HIDE DEF k
<1>3. LevelAt(b, now) <= o /\ o <= Capacity(ReqBurst)
  BY DEF Covered
<1>4. LevelAt(b, now) = Capacity(ReqBurst)
  <2>1. CASE ~b.primed
    BY <2>1 DEF LevelAt
  <2>2. CASE b.primed
    <3>1. (ForgetAfter + 1) * ReqRate >= Capacity(ReqBurst)
      BY <2>2 DEF RefillsInTime, Covered
    <3>2. k * ReqRate >= (ForgetAfter + 1) * ReqRate /\ k * ReqRate \in Nat
      <4>1. ForgetAfter + 1 \in Nat
        BY TrackerAssumption, SMT
      <4> QED BY <1>2, <4>1, TimesGrows, TrackerAssumption
    <3>3. b.tokens + k * ReqRate >= Capacity(ReqBurst) /\ b.tokens + k * ReqRate \in Nat
      <4>1. \A i, j, m, c \in Nat : i >= j /\ j >= c => m + i >= c /\ m + i \in Nat
        BY SMT
      <4>2. (ForgetAfter + 1) * ReqRate \in Nat
        BY TrackerAssumption, SMT
      <4> QED BY <1>1, <3>1, <3>2, <4>1, <4>2, CapacityRoom
    <3>4. LevelAt(b, now) = Min({Capacity(ReqBurst), b.tokens + k * ReqRate})
      BY <2>2 DEF LevelAt, k
    <3> HIDE DEF b
    <3> QED BY <3>3, <3>4, MinOfTwo, CapacityRoom, SMT
  <2> QED BY <2>1, <2>2
<1> QED BY <1>3, <1>4, CapacityRoom, SMT

\* With room for all, an address without an entry always gets one of its own.
LEMMA RoomLeft ==
  ASSUME RoomForAll, TypeOK, NEW ip \in IP, clients[ip] = Nil
  PROVE  Tracked < MaxClients /\ ~(Tracked >= MaxClients)
<1> DEFINE T == {i \in IP : clients[i] # Nil}
<1>1. T \subseteq IP /\ T # IP
  OBVIOUS
<1>2. Cardinality(T) <= Cardinality(IP) /\ Cardinality(IP) # Cardinality(T)
  BY <1>1, FS_Subset, TrackerAssumption
<1>3. Cardinality(T) \in Nat /\ Cardinality(IP) \in Nat
  BY <1>1, FS_Subset, FS_CardinalityType, TrackerAssumption
<1>4. Tracked = Cardinality(T)
  BY DEF Tracked
<1> HIDE DEF T
<1> QED BY <1>2, <1>3, <1>4, TrackerAssumption, SMT DEF RoomForAll

\* With room for all, get hands out ip's own entry, which is covered.
LEMMA GetOwnEntry ==
  ASSUME RoomForAll, IInv, RateInv, NEW ip \in IP, NEW c \in Obj, Get(ip, c)
  PROVE  /\ overflow' = overflow
         /\ clients' = [clients EXCEPT ![ip] = c]
         /\ \A j \in IP : j # ip => clients[j] # c
         /\ Seen(c) \in Client /\ Seen(c).seen = now
         /\ owed[ip] \in Int /\ Covered(Seen(c), owed[ip], now)
<1>1. clients \in [IP -> Obj \cup {Nil}] /\ objs[c] \in Client /\ now \in Nat /\ owed[ip] \in Int
  BY DEF IInv, TypeOK
<1>2. Seen(c) \in Client /\ Seen(c).seen = now /\ Seen(c).requests = Struct(c).requests
  <2>1. Struct(c) \in Client
    BY <1>1, ZeroClientType DEF Struct
  <2> QED BY <1>1, <2>1 DEF Seen, Client
<1>3. \A j \in IP : clients[j] \in Attached
  BY DEF Attached
<1>4. CASE clients[ip] # Nil
  <2>1. c = clients[ip] /\ UNCHANGED <<clients, overflow>>
    BY <1>4 DEF Get
  <2>2. clients' = [clients EXCEPT ![ip] = c]
    BY <1>1, <2>1
  <2>3. \A j \in IP : j # ip => clients[j] # c
    BY <1>4, <2>1 DEF RateInv
  <2>4. Struct(c) = objs[c]
    BY <1>3, <2>1 DEF Struct
  <2>5. Covered(objs[c], owed[ip], now)
    BY <1>4, <2>1 DEF RateInv
  <2>6. Seen(c).requests.last <= now /\ now <= now
    <3>1. objs[c].requests.last <= now
      BY DEF IInv, BucketsPast
    <3> QED BY <1>1, <1>2, <2>4, <3>1, SMT
  <2>7. Covered(Seen(c), owed[ip], now)
    BY <1>2, <2>4, <2>5, <2>6 DEF Covered
  <2> QED BY <1>1, <1>2, <2>1, <2>2, <2>3, <2>7
<1>5. CASE clients[ip] = Nil
  <2>2. ~(Tracked >= MaxClients)
    BY <1>5, RoomLeft DEF IInv
  <2>3. NewStruct(c) /\ clients' = [clients EXCEPT ![ip] = c] /\ UNCHANGED overflow
    BY <1>5, <2>2 DEF Get
  <2>4. c \notin Attached
    BY <2>3 DEF NewStruct, Free
  <2>5. Seen(c).requests = ZeroBucket
    BY <1>2, <2>4 DEF Struct, ZeroClient
  <2>6. owed[ip] = Capacity(ReqBurst)
    BY <1>5 DEF RateInv
  <2>7. Covered(Seen(c), owed[ip], now)
    <3>1. ~ZeroBucket.primed /\ ZeroBucket.last = 0
      BY DEF ZeroBucket
    <3>2. 0 <= now /\ now <= now /\ Capacity(ReqBurst) <= Capacity(ReqBurst)
      BY <1>1, CapacityRoom, SMT
    <3> QED BY <1>2, <2>5, <2>6, <3>1, <3>2 DEF Covered, LevelAt
  <2> QED BY <1>1, <1>2, <1>3, <2>3, <2>4, <2>7
<1> QED BY <1>4, <1>5

\* A call on ip's entry that leaves it covered keeps every entry covered.
LEMMA OwnEntryRewritten ==
  ASSUME RoomForAll, IInv, RateInv, NEW ip \in IP, NEW c \in Obj, NEW e, NEW o,
         Get(ip, c), objs' = [objs EXCEPT ![c] = e], owed' = [owed EXCEPT ![ip] = o],
         Covered(e, o, now), UNCHANGED now
  PROVE  RateInv'
<1>1. /\ overflow' = overflow /\ clients' = [clients EXCEPT ![ip] = c]
      /\ \A j \in IP : j # ip => clients[j] # c
  BY GetOwnEntry
<1>2. /\ clients \in [IP -> Obj \cup {Nil}] /\ owed \in [IP -> Int]
      /\ objs \in [Obj -> Client] /\ c # Nil
  BY TrackerAssumption DEF IInv, TypeOK
<1>3. /\ clients'[ip] = c /\ owed'[ip] = o /\ objs'[c] = e
      /\ \A j \in IP : j # ip => clients'[j] = clients[j] /\ owed'[j] = owed[j]
      /\ \A d \in Obj : d # c => objs'[d] = objs[d]
  BY <1>1, <1>2
<1>4. \A i, j \in IP : clients'[i] = clients'[j] /\ clients'[i] # Nil => i = j
  BY <1>1, <1>3 DEF RateInv
<1>5. ASSUME NEW j \in IP
      PROVE  IF clients'[j] = Nil THEN owed'[j] = Capacity(ReqBurst)
             ELSE Covered(objs'[clients'[j]], owed'[j], now')
  <2>1. CASE j = ip
    BY <2>1, <1>2, <1>3
  <2>2. CASE j # ip
    <3>1. clients[j] # Nil => objs'[clients[j]] = objs[clients[j]]
      BY <2>2, <1>1, <1>2, <1>3
    <3> QED BY <2>2, <1>3, <3>1 DEF RateInv
  <2> QED BY <2>1, <2>2
<1> QED BY <1>1, <1>4, <1>5 DEF RateInv

\* The same for a call that does not take from the bucket.
LEMMA BucketKept ==
  ASSUME NEW e, NEW f, NEW o, NEW t, Covered(e, o, t), f.requests = e.requests, f.seen = e.seen
  PROVE  Covered(f, o, t)
BY DEF Covered

\* Acquire touches an entry, not its bucket; a new entry's is full.
LEMMA AcquireRate ==
  ASSUME RoomForAll, IInv, RateInv, NEW ip \in IP, NEW k \in Conn, NEW lim \in ConnLimits,
         NEW max \in TotalLimits, Acquire(ip, k, lim, max)
  PROVE  RateInv'
<1>1. PICK c \in Obj :
        /\ Get(ip, c)
        /\ \/ objs' = [objs EXCEPT ![c] = Seen(c)]
           \/ objs' = [objs EXCEPT ![c] = [Seen(c) EXCEPT !.conns = @ + 1]]
  BY DEF Acquire
<1>2. UNCHANGED now /\ owed' = [owed EXCEPT ![ip] = owed[ip]]
  BY DEF Acquire, IInv, TypeOK
<1>3. Seen(c) \in Client /\ Covered(Seen(c), owed[ip], now)
  BY <1>1, GetOwnEntry
<1>4. CASE objs' = [objs EXCEPT ![c] = Seen(c)]
  BY <1>1, <1>2, <1>3, <1>4, OwnEntryRewritten
<1>5. CASE objs' = [objs EXCEPT ![c] = [Seen(c) EXCEPT !.conns = @ + 1]]
  <2> DEFINE e == [Seen(c) EXCEPT !.conns = @ + 1]
  <2>1. e.requests = Seen(c).requests /\ e.seen = Seen(c).seen
    BY <1>3 DEF Client
  <2>2. objs' = [objs EXCEPT ![c] = e]
    BY <1>5
  <2> HIDE DEF e
  <2>3. Covered(e, owed[ip], now)
    BY <1>3, <2>1, BucketKept
  <2> QED BY <1>1, <1>2, <2>2, <2>3, OwnEntryRewritten
<1> QED BY <1>1, <1>4, <1>5

\* Allow takes a token from both buckets, or from neither.
LEMMA AllowRate ==
  ASSUME RoomForAll, IInv, RateInv, NEW ip \in IP, NEW rate \in ReqRates, NEW burst \in ReqBursts,
         Allow(ip, rate, burst)
  PROVE  RateInv'
<1>1. PICK c \in Obj :
        /\ Get(ip, c)
        /\ objs' = [objs EXCEPT ![c] =
                      [Seen(c) EXCEPT !.requests = Take(@, rate, burst)]]
        /\ owed' = IF rate > 0 /\ Granted(Seen(c).requests, rate, burst)
                   THEN [owed EXCEPT ![ip] = @ - Unit] ELSE owed
  BY DEF Allow
<1>2. UNCHANGED now /\ now \in Nat /\ owed \in [IP -> Int]
  BY DEF Allow, IInv, TypeOK
<1>3. /\ Seen(c) \in Client /\ Seen(c).seen = now
      /\ owed[ip] \in Int /\ Covered(Seen(c), owed[ip], now)
  BY <1>1, GetOwnEntry
<1> DEFINE b == Seen(c).requests
           e == [Seen(c) EXCEPT !.requests = Take(b, rate, burst)]
           o == IF rate > 0 /\ Granted(b, rate, burst) THEN owed[ip] - Unit ELSE owed[ip]
<1>4. Covered(e, o, now)
  BY <1>2, <1>3, TakeCovered
<1>5. objs' = [objs EXCEPT ![c] = e]
  BY <1>1, <1>3 DEF Client
<1>6. owed' = [owed EXCEPT ![ip] = o]
  BY <1>1, <1>2
<1> HIDE DEF e, o
<1> QED BY <1>1, <1>2, <1>4, <1>5, <1>6, OwnEntryRewritten

\* Log leaves the request buckets alone.
LEMMA LogRateInv ==
  ASSUME RoomForAll, IInv, RateInv, NEW ip \in IP, NEW key \in LogKey, Log(ip, key)
  PROVE  RateInv'
<1>1. PICK c \in Obj : Get(ip, c) /\ objs' = [objs EXCEPT ![c] = Logged(Seen(c), key)]
  BY DEF Log
<1>2. UNCHANGED now /\ owed' = [owed EXCEPT ![ip] = owed[ip]] /\ now \in Nat
  BY DEF Log, IInv, TypeOK
<1>3. Seen(c) \in Client /\ Covered(Seen(c), owed[ip], now)
  BY <1>1, GetOwnEntry
<1>4. Seen(c).requests.last <= now /\ Seen(c).logs.last <= now
  BY <1>1, SeenEntry
<1> DEFINE e == Logged(Seen(c), key)
<1>5. e.requests = Seen(c).requests /\ e.seen = Seen(c).seen
  BY <1>2, <1>3, <1>4, LoggedClient
<1>6. objs' = [objs EXCEPT ![c] = e]
  BY <1>1
<1> HIDE DEF e
<1>7. Covered(e, owed[ip], now)
  BY <1>3, <1>5, BucketKept
<1> QED BY <1>1, <1>2, <1>6, <1>7, OwnEntryRewritten

\* The release func leaves the request buckets alone.
LEMMA ReleaseRate ==
  ASSUME IInv, RateInv, NEW k \in Conn, Release(k)
  PROVE  RateInv'
<1> DEFINE d == conn[k].obj
           e == Released(d)
<1>1. /\ objs' = [objs EXCEPT ![d] = e]
      /\ UNCHANGED <<now, clients, overflow, owed>>
  BY DEF Release, CountedIn
<1>2. /\ d \in Obj /\ objs \in [Obj -> Client] /\ clients \in [IP -> Obj \cup {Nil}]
      /\ now \in Nat
  BY OpenAfterRelease DEF Release, IInv, TypeOK
<1>3. e.requests = objs[d].requests /\ e.seen = now
  BY <1>2 DEF Released, Client
<1>4. e.requests.last <= now /\ now <= now
  BY <1>2, <1>3, SMT DEF IInv, BucketsPast
<1> HIDE DEF d, e
<1>5. objs'[d] = e /\ \A c \in Obj : c # d => objs'[c] = objs[c]
  BY <1>1, <1>2
<1>6. ASSUME NEW ip \in IP, clients[ip] # Nil
      PROVE  Covered(objs'[clients[ip]], owed[ip], now)
  <2>1. Covered(objs[clients[ip]], owed[ip], now)
    BY <1>6 DEF RateInv
  <2>2. CASE clients[ip] = d
    BY <2>1, <2>2, <1>3, <1>4, <1>5 DEF Covered
  <2>3. CASE clients[ip] # d
    BY <2>1, <2>3, <1>2, <1>5, <1>6
  <2> QED BY <2>2, <2>3
<1> QED BY <1>1, <1>6 DEF RateInv

\* Sweep forgets only buckets that would be full again.
LEMMA SweepRate ==
  ASSUME RefillsInTime, IInv, RateInv, Sweep
  PROVE  RateInv'
<1>1. /\ clients' = [ip \in IP |-> IF clients[ip] # Nil /\ Forgettable(objs[clients[ip]])
                                   THEN Nil ELSE clients[ip]]
      /\ overflow' = [n \in Network |-> IF overflow[n] # Nil
                                           /\ Forgettable(objs[overflow[n]])
                                        THEN Nil ELSE overflow[n]]
      /\ objs' = [c \in Obj |-> IF c \notin Attached THEN objs[c]
                                ELSE IF Forgettable(objs[c]) /\ HeldBy(c) = {}
                                     THEN ZeroClient ELSE Reset(objs[c])]
      /\ UNCHANGED <<now, owed>>
  BY DEF Sweep
<1>2. /\ clients \in [IP -> Obj \cup {Nil}] /\ owed \in [IP -> Int]
      /\ objs \in [Obj -> Client] /\ now \in Nat
  BY DEF IInv, TypeOK
<1>3. \A n \in Network : overflow'[n] = Nil
  BY <1>1 DEF RateInv
<1>4. \A i, j \in IP : clients'[i] = clients'[j] /\ clients'[i] # Nil => i = j
  BY <1>1 DEF RateInv
<1>5. ASSUME NEW ip \in IP
      PROVE  IF clients'[ip] = Nil THEN owed[ip] = Capacity(ReqBurst)
             ELSE Covered(objs'[clients'[ip]], owed[ip], now)
  <2>1. CASE clients[ip] = Nil
    BY <2>1, <1>1 DEF RateInv
  <2>2. CASE clients[ip] # Nil
    <3> DEFINE c == clients[ip]
    <3>1. c \in Obj /\ objs[c] \in Client /\ c \in Attached /\ owed[ip] \in Int
      BY <2>2, <1>2 DEF Attached
    <3>2. Covered(objs[c], owed[ip], now)
      BY <2>2 DEF RateInv
    <3>3. CASE Forgettable(objs[c])
      <4>1. owed[ip] = Capacity(ReqBurst)
        BY <3>1, <3>2, <3>3, <1>2, ForgetCovered
      <4>2. clients'[ip] = Nil
        BY <2>2, <3>3, <1>1
      <4> QED BY <4>1, <4>2
    <3>4. CASE ~Forgettable(objs[c])
      <4>1. clients'[ip] = c /\ objs'[c] = Reset(objs[c])
        BY <2>2, <3>1, <3>4, <1>1
      <4>2. Covered(Reset(objs[c]), owed[ip], now)
        BY <3>1, <3>2, ResetClient, BucketKept
      <4> QED BY <2>2, <4>1, <4>2
    <3> QED BY <3>3, <3>4
  <2> QED BY <2>1, <2>2
<1> QED BY <1>1, <1>3, <1>4, <1>5 DEF RateInv

\* The ideal bucket refills at least as fast as the entry's.
LEMMA TickRate ==
  ASSUME IInv, RateInv, Tick
  PROVE  RateInv'
<1>1. /\ now' = now + 1
      /\ owed' = [ip \in IP |-> Min({Capacity(ReqBurst), owed[ip] + ReqRate})]
      /\ UNCHANGED <<objs, clients, overflow>>
  BY DEF Tick
<1>2. /\ clients \in [IP -> Obj \cup {Nil}] /\ owed \in [IP -> Int]
      /\ objs \in [Obj -> Client] /\ now \in Nat
  BY DEF IInv, TypeOK
<1>3. ASSUME NEW ip \in IP
      PROVE  IF clients[ip] = Nil THEN owed'[ip] = Capacity(ReqBurst)
             ELSE Covered(objs[clients[ip]], owed'[ip], now + 1)
  <2>1. owed'[ip] = Min({Capacity(ReqBurst), owed[ip] + ReqRate}) /\ owed[ip] \in Int
    BY <1>1, <1>2
  <2>2. CASE clients[ip] = Nil
    <3>1. owed[ip] = Capacity(ReqBurst)
      BY <2>2 DEF RateInv
    <3>2. Min({Capacity(ReqBurst), owed[ip] + ReqRate}) = Capacity(ReqBurst)
      BY <3>1, MinOfTwo, CapacityRoom, TrackerAssumption, SMT
    <3> QED BY <2>1, <2>2, <3>2
  <2>3. CASE clients[ip] # Nil
    <3>1. objs[clients[ip]] \in Client /\ Covered(objs[clients[ip]], owed[ip], now)
      BY <2>3, <1>2 DEF RateInv
    <3> QED BY <2>1, <2>3, <3>1, <1>2, TickCovered
  <2> QED BY <2>2, <2>3
<1> QED BY <1>1, <1>3 DEF RateInv

\* At first every client is owed a full bucket.
LEMMA InitRate == Init => RateInv
BY DEF Init, RateInv

\* Every step keeps what the buckets grant within what is owed.
LEMMA NextRate ==
  ASSUME RoomForAll, RefillsInTime, IInv, RateInv, [Next]_vars
  PROVE  RateInv'
<1>1. CASE UNCHANGED <<now, objs, clients, overflow, owed>>
  BY <1>1 DEF RateInv
<1> QED
  BY <1>1, AcquireRate, ReleaseRate, AllowRate, LogRateInv, SweepRate, TickRate
  DEF Next, LogUnknown, vars

\* limits.go's requests_per_second is a sustained rate: as long as no client
\* shares an overflow entry, and a bucket refills before the entry it is in may
\* be forgotten, no order of requests, reloads, sweeps and new entries grants a
\* client more than a bucket of its own, of the largest limits and kept
\* forever, would grant.
THEOREM RateSustained ==
  ASSUME RoomForAll, RefillsInTime
  PROVE  Spec => []SustainedRate
<1>1. IInv /\ RateInv => SustainedRate
  <2> SUFFICES ASSUME IInv, RateInv, NEW ip \in IP PROVE owed[ip] >= 0
    BY DEF SustainedRate
  <2>1. CASE clients[ip] = Nil
    BY <2>1, CapacityRoom, SMT DEF RateInv
  <2>2. CASE clients[ip] # Nil
    <3> DEFINE e == objs[clients[ip]]
    <3>1. Covered(e, owed[ip], now)
      BY <2>2 DEF RateInv
    <3>2. e.requests \in Bucket /\ now \in Nat /\ owed[ip] \in Int /\ e.requests.last <= now
      BY <2>2 DEF IInv, TypeOK, BucketsPast, Client
    <3>3. LevelAt(e.requests, now) \in Nat /\ LevelAt(e.requests, now) <= owed[ip]
      BY <3>1, <3>2, LevelType DEF Covered
    <3> QED BY <3>2, <3>3, SMT
  <2> QED BY <2>1, <2>2
<1>2. RateInv /\ IInv /\ [Next]_vars => RateInv'
  BY NextRate
<1> QED BY <1>1, <1>2, InitRate, InitIInv, NextIInv, PTL DEF Spec
-----------------------------------------------------------------------------
(* Entries of one's own *)

\* No two addresses and no two networks share an entry.
EntriesDistinct ==
  /\ \A i, j \in IP : clients[i] = clients[j] /\ clients[i] # Nil => i = j
  /\ \A m, n \in Network : overflow[m] = overflow[n] /\ overflow[m] # Nil => m = n
  /\ \A i \in IP, n \in Network : clients[i] = overflow[n] => clients[i] = Nil

\* get either leaves the maps alone or adds the new struct c to one of them.
LEMMA GetCases ==
  ASSUME NEW ip \in IP, NEW c \in Obj, Get(ip, c)
  PROVE  \/ UNCHANGED <<clients, overflow>> /\ c \in {clients[ip], overflow[NetOf[ip]]}
         \/ /\ c \notin Attached /\ clients' = [clients EXCEPT ![ip] = c]
            /\ UNCHANGED overflow
         \/ /\ c \notin Attached /\ overflow' = [overflow EXCEPT ![NetOf[ip]] = c]
            /\ UNCHANGED clients
BY DEF Get, NewStruct, Free

\* What the maps point to is attached.
LEMMA InAttached ==
  /\ \A i \in IP : clients[i] \in Attached
  /\ \A n \in Network : overflow[n] \in Attached
BY DEF Attached

\* get gives a new struct to a client or network that had none.
LEMMA GetDistinct ==
  ASSUME TypeOK, EntriesDistinct, NEW ip \in IP, NEW c \in Obj, Get(ip, c)
  PROVE  EntriesDistinct'
<1>1. /\ clients \in [IP -> Obj \cup {Nil}] /\ overflow \in [Network -> Obj \cup {Nil}]
      /\ NetOf[ip] \in Network
  BY TrackerAssumption DEF TypeOK
<1>2. CASE UNCHANGED <<clients, overflow>>
  BY <1>2 DEF EntriesDistinct
<1>3. CASE c \notin Attached /\ clients' = [clients EXCEPT ![ip] = c] /\ UNCHANGED overflow
  <2>1. clients'[ip] = c /\ \A j \in IP : j # ip => clients'[j] = clients[j]
    BY <1>1, <1>3
  <2>2. /\ \A j \in IP : clients[j] # c
        /\ \A n \in Network : overflow'[n] # c /\ overflow'[n] = overflow[n]
    BY <1>3, InAttached
  <2> QED BY <2>1, <2>2 DEF EntriesDistinct
<1>4. CASE /\ c \notin Attached /\ overflow' = [overflow EXCEPT ![NetOf[ip]] = c]
           /\ UNCHANGED clients
  <2>1. /\ overflow'[NetOf[ip]] = c
        /\ \A n \in Network : n # NetOf[ip] => overflow'[n] = overflow[n]
    BY <1>1, <1>4
  <2>2. /\ \A n \in Network : overflow[n] # c
        /\ \A j \in IP : clients'[j] # c /\ clients'[j] = clients[j]
    BY <1>4, InAttached
  <2> QED BY <2>1, <2>2 DEF EntriesDistinct
<1> QED BY <1>2, <1>3, <1>4, GetCases

\* Sweep only takes entries out of the maps.
LEMMA SweepDistinct ==
  ASSUME EntriesDistinct, Sweep
  PROVE  EntriesDistinct'
<1>1. /\ \A ip \in IP : clients'[ip] \in {clients[ip], Nil}
      /\ \A n \in Network : overflow'[n] \in {overflow[n], Nil}
  BY DEF Sweep
<1>2. \A i, j \in IP : clients'[i] = clients'[j] /\ clients'[i] # Nil => i = j
  BY <1>1 DEF EntriesDistinct
<1>3. \A m, n \in Network : overflow'[m] = overflow'[n] /\ overflow'[m] # Nil => m = n
  BY <1>1 DEF EntriesDistinct
<1>4. \A i \in IP, n \in Network : clients'[i] = overflow'[n] => clients'[i] = Nil
  BY <1>1 DEF EntriesDistinct
<1> QED BY <1>2, <1>3, <1>4 DEF EntriesDistinct

\* No step makes two keys of the maps share an entry.
LEMMA NextDistinct ==
  ASSUME IInv, EntriesDistinct, [Next]_vars
  PROVE  EntriesDistinct'
<1>1. CASE UNCHANGED <<clients, overflow>>
  BY <1>1 DEF EntriesDistinct
<1>2. ASSUME NEW ip \in IP, NEW c \in Obj, Get(ip, c)
      PROVE  EntriesDistinct'
  BY <1>2, GetDistinct DEF IInv
<1> QED BY <1>1, <1>2, SweepDistinct DEF Next, Acquire, Release, Allow, Log, LogUnknown, Tick, vars

-----------------------------------------------------------------------------
(* Access log lines *)

\* What keeps LinesAccounted: every line is identified by its number.
LinesInv ==
  /\ LinesAccounted /\ EntriesDistinct
  /\ IsFiniteSet(kept) /\ \A l \in kept : l.id < dropped

\* get neither moves an entry with lines in it nor hands it to somebody else.
LEMMA GetKeepsLines ==
  ASSUME IInv, NEW ip \in IP, NEW c \in Obj, Get(ip, c), NEW l \in kept, Attributed(l)
  PROVE  Attributed(l)'
<1>1. /\ clients \in [IP -> Obj \cup {Nil}] /\ overflow \in [Network -> Obj \cup {Nil}]
      /\ NetOf[ip] \in Network
  BY TrackerAssumption DEF IInv, TypeOK
<1>2. CASE l.at = Nil /\ l.ip = Nil
  BY <1>2 DEF Attributed
<1>3. CASE /\ l.at \in Attached \ {Nil}
           /\ \A j \in IP : l.at = clients[j] => l.ip = j
           /\ \A n \in Network : l.at = overflow[n] => NetOf[l.ip] = n
  <2>1. /\ \A j \in IP : clients'[j] = clients[j] \/ (clients[j] = Nil /\ clients'[j] # l.at)
        /\ \A n \in Network : \/ overflow'[n] = overflow[n]
                              \/ overflow[n] = Nil /\ overflow'[n] # l.at
    <3>1. c \notin Attached => c # l.at
      BY <1>3
    <3>2. c \notin Attached /\ clients' = [clients EXCEPT ![ip] = c] => clients[ip] = Nil
      BY <1>1, TrackerAssumption, InAttached DEF Get, NewStruct, Free
    <3>3. /\ c \notin Attached
          /\ overflow' = [overflow EXCEPT ![NetOf[ip]] = c]
          => overflow[NetOf[ip]] = Nil
      BY <1>1, TrackerAssumption, InAttached DEF Get, NewStruct, Free
    <3> QED BY <1>1, <3>1, <3>2, <3>3, GetCases
  <2>2. l.at \in Attached' \ {Nil}
    BY <1>3, <2>1 DEF Attached
  <2>3. /\ \A j \in IP : l.at = clients'[j] => l.ip = j
        /\ \A n \in Network : l.at = overflow'[n] => NetOf[l.ip] = n
    BY <1>3, <2>1
  <2> QED BY <2>2, <2>3 DEF Attributed
<1> QED BY <1>2, <1>3 DEF Attributed

\* A line counted in the entry get returned is counted for its own client.
LEMMA NewLineAttributed ==
  ASSUME IInv, EntriesDistinct, NEW ip \in IP, NEW c \in Obj, Get(ip, c),
         NEW l, l.at = c, l.ip = ip
  PROVE  Attributed(l)'
<1>1. c \in {clients'[ip], overflow'[NetOf[ip]]} /\ c # Nil /\ NetOf[ip] \in Network
  BY GetKeepsEntries, TrackerAssumption DEF IInv
<1>2. EntriesDistinct'
  BY GetDistinct DEF IInv
<1>3. c \in Attached'
  BY <1>1 DEF Attached
<1>4. \A j \in IP : c = clients'[j] => ip = j
  BY <1>1, <1>2 DEF EntriesDistinct
<1>5. \A n \in Network : c = overflow'[n] => NetOf[ip] = n
  BY <1>1, <1>2 DEF EntriesDistinct
<1> QED BY <1>1, <1>3, <1>4, <1>5 DEF Attributed

\* No line is counted in an entry that the maps do not lead to.
LEMMA NoLinesDetached ==
  ASSUME LinesInv, NEW c \in Obj, c \notin Attached, NEW key
  PROVE  KeptAs(c, key) = {}
<1>1. c # Nil
  BY TrackerAssumption
<1> QED BY <1>1 DEF LinesInv, LinesAccounted, Attributed, KeptAs

\* An entry that get returns accounts for its lines, also a new one.
LEMMA SeenAccounts ==
  ASSUME IInv, LinesInv, NEW ip \in IP, NEW c \in Obj, Get(ip, c)
  PROVE  Accounts(Seen(c), c)
<1>1. Struct(c) \in Client
  BY ZeroClientType DEF Struct, IInv, TypeOK
<1>2. Seen(c).suppressed = Struct(c).suppressed /\ Seen(c).other = Struct(c).other
  BY <1>1 DEF Seen, Client
<1>3. CASE c \in Attached
  BY <1>2, <1>3 DEF Struct, LinesInv, LinesAccounted, Accounts
<1>4. CASE c \notin Attached
  <2>1. Struct(c).suppressed = NoLines /\ Struct(c).other = 0
    BY <1>4 DEF Struct, ZeroClient
  <2>2. \A key : Cardinality(KeptAs(c, key)) = 0
    BY <1>4, NoLinesDetached, FS_EmptySet
  <2> QED BY <1>2, <2>1, <2>2 DEF Accounts, NoLines
<1> QED BY <1>3, <1>4

\* A call that adds no line and changes no count keeps the accounts.
LEMMA CountsRewritten ==
  ASSUME IInv, LinesInv, NEW ip \in IP, NEW c \in Obj, Get(ip, c), NEW e,
         objs' = [objs EXCEPT ![c] = e],
         e.suppressed = Seen(c).suppressed, e.other = Seen(c).other,
         UNCHANGED <<unknown, dropped, kept>>
  PROVE  LinesInv'
<1>1. \A d, key : KeptAs(d, key)' = KeptAs(d, key)
  BY DEF KeptAs
<1>2. Accounts(e, c)
  BY SeenAccounts DEF Accounts
<1>3. ASSUME NEW d \in Obj PROVE Accounts(objs[d], d)'
  <2>1. CASE d = c
    <3>1. objs'[d] = e
      BY <2>1 DEF IInv, TypeOK
    <3> QED BY <1>1, <1>2, <2>1, <3>1 DEF Accounts
  <2>2. CASE d # c
    <3>1. objs'[d] = objs[d]
      BY <2>2 DEF IInv, TypeOK
    <3> QED BY <1>1, <3>1 DEF Accounts, LinesInv, LinesAccounted
  <2> QED BY <2>1, <2>2
<1>4. Accounts(unknown, Nil)'
  BY <1>1 DEF Accounts, LinesInv, LinesAccounted
<1>5. \A l \in kept' : Attributed(l)'
  BY GetKeepsLines DEF LinesInv, LinesAccounted
<1>6. EntriesDistinct'
  BY GetDistinct DEF IInv, LinesInv
<1>7. IsFiniteSet(kept') /\ \A l \in kept' : l.id < dropped'
  BY DEF LinesInv
<1> QED BY <1>3, <1>4, <1>5, <1>6, <1>7 DEF LinesInv, LinesAccounted

\* A line that is not written adds one to one counter, the one it is counted as.
LEMMA LoggedCounts ==
  ASSUME NEW e \in Client, NEW key \in LogKey, ~Granted(e.logs, LogRate, LogBurst)
  PROVE  LET f == Logged(e, key)
             a == CountedAs(e, key)
         IN  /\ a \in {key, Nil}
             /\ f.other = IF a = Nil THEN e.other + 1 ELSE e.other
             /\ \A k \in LogKey : f.suppressed[k] = IF a = k THEN e.suppressed[k] + 1
                                                    ELSE e.suppressed[k]
<1> DEFINE a == CountedAs(e, key)
           g == [e EXCEPT !.logs = Take(@, LogRate, LogBurst)]
<1>1. a \in {key, Nil} /\ key # Nil
  BY TrackerAssumption DEF CountedAs
<1>2. /\ g.suppressed = e.suppressed /\ g.other = e.other
      /\ g.suppressed \in [LogKey -> Nat] /\ DOMAIN g = DOMAIN e
      /\ DOMAIN e = {"conns", "seen", "requests", "logs", "suppressed", "other"}
  BY DEF Client
<1>3. Logged(e, key) = IF a = Nil THEN [g EXCEPT !.other = @ + 1]
                       ELSE [g EXCEPT !.suppressed[key] = @ + 1]
  BY DEF Logged
<1> HIDE DEF a, g
<1>4. CASE a = Nil
  <2>1. /\ [g EXCEPT !.other = @ + 1].other = e.other + 1
        /\ [g EXCEPT !.other = @ + 1].suppressed = e.suppressed
    BY <1>2
  <2> QED BY <1>1, <1>3, <1>4, <2>1, TrackerAssumption DEF a
<1>5. CASE a = key
  <2> DEFINE h == [g EXCEPT !.suppressed[key] = @ + 1]
  <2>1. h.other = e.other
    BY <1>2
  <2>2. h.suppressed = [e.suppressed EXCEPT ![key] = @ + 1]
    BY <1>2
  <2>3. Logged(e, key) = h
    BY <1>1, <1>3, <1>5
  <2> HIDE DEF h
  <2>4. \A k \in LogKey : h.suppressed[k] = IF key = k THEN e.suppressed[k] + 1
                                            ELSE e.suppressed[k]
    BY <1>2, <2>2
  <2> QED BY <1>1, <1>5, <2>1, <2>3, <2>4 DEF a
<1> QED BY <1>1, <1>4, <1>5

\* The new line has a number of its own, so it is one more line where it counts.
LEMMA LineCounted ==
  ASSUME IInv, LinesInv, NEW l, l.id = dropped, kept' = kept \cup {l}
  PROVE  /\ \A c, key : Cardinality(KeptAs(c, key)') =
                          IF l.at = c /\ l.as = key THEN Cardinality(KeptAs(c, key)) + 1
                          ELSE Cardinality(KeptAs(c, key))
         /\ IsFiniteSet(kept')
<1>1. l \notin kept
  <2>1. ~(dropped < dropped)
    BY SMT DEF IInv, TypeOK
  <2> QED BY <2>1 DEF LinesInv
<1>2. IsFiniteSet(kept)
  BY DEF LinesInv
<1>3. ASSUME NEW c, NEW key
      PROVE  Cardinality(KeptAs(c, key)') =
               IF l.at = c /\ l.as = key THEN Cardinality(KeptAs(c, key)) + 1
               ELSE Cardinality(KeptAs(c, key))
  <2>1. KeptAs(c, key) \subseteq kept /\ l \notin KeptAs(c, key)
    BY <1>1 DEF KeptAs
  <2>2. IsFiniteSet(KeptAs(c, key))
    BY <1>2, <2>1, FS_Subset
  <2>3. KeptAs(c, key)' = IF l.at = c /\ l.as = key THEN KeptAs(c, key) \cup {l}
                          ELSE KeptAs(c, key)
    BY DEF KeptAs
  <2>4. Cardinality(KeptAs(c, key) \cup {l}) = Cardinality(KeptAs(c, key)) + 1
    BY <2>1, <2>2, FS_AddElement
  <2> QED BY <2>3, <2>4
<1> QED BY <1>2, <1>3, FS_AddElement

\* The entry a line is logged in still counts exactly its lines.
LEMMA LoggedAccounts ==
  ASSUME IInv, LinesInv, NEW ip, NEW c, NEW e \in Client, NEW key \in LogKey,
         Accounts(e, c), Recorded(ip, c, e, key)
  PROVE  /\ \A f : f = Logged(e, key) => Accounts(f, c)'
         /\ \A d, f : d # c /\ Accounts(f, d) => Accounts(f, d)'
         /\ IsFiniteSet(kept') /\ \A l \in kept' : l.id < dropped'
         /\ \A l \in kept' : l \in kept \/ (l.at = c /\ l.ip = ip)
<1>1. CASE Granted(e.logs, LogRate, LogBurst)
  <2>1. UNCHANGED <<dropped, kept>>
    BY <1>1 DEF Recorded
  <2>2. \A d, k : KeptAs(d, k)' = KeptAs(d, k)
    BY <2>1 DEF KeptAs
  <2>3. Logged(e, key) = [e EXCEPT !.logs = Take(@, LogRate, LogBurst)]
    BY <1>1 DEF Logged
  <2>4. Logged(e, key).suppressed = e.suppressed /\ Logged(e, key).other = e.other
    BY <2>3 DEF Client
  <2> QED BY <2>1, <2>2, <2>4 DEF Accounts, LinesInv
<1>2. CASE ~Granted(e.logs, LogRate, LogBurst)
  <2> DEFINE a == CountedAs(e, key)
             l == [id |-> dropped, ip |-> ip, at |-> c, as |-> a]
  <2>1. dropped' = dropped + 1 /\ kept' = kept \cup {l}
    BY <1>2 DEF Recorded
  <2>2. l.id = dropped /\ l.ip = ip /\ l.at = c /\ l.as = a
    OBVIOUS
  <2> HIDE DEF l
  <2>3. /\ \A d, k : Cardinality(KeptAs(d, k)') =
                       IF c = d /\ a = k THEN Cardinality(KeptAs(d, k)) + 1
                       ELSE Cardinality(KeptAs(d, k))
        /\ IsFiniteSet(kept')
    BY <2>1, <2>2, LineCounted
  <2>4. /\ Logged(e, key).other = IF a = Nil THEN e.other + 1 ELSE e.other
        /\ \A k \in LogKey : Logged(e, key).suppressed[k] =
                               IF a = k THEN e.suppressed[k] + 1 ELSE e.suppressed[k]
    BY <1>2, LoggedCounts
  <2> HIDE DEF a
  <2>5. \A f : f = Logged(e, key) => Accounts(f, c)'
    BY <2>3, <2>4 DEF Accounts
  <2>6. \A d, f : d # c /\ Accounts(f, d) => Accounts(f, d)'
    BY <2>3 DEF Accounts
  <2>7. \A m \in kept' : m.id < dropped'
    <3>1. dropped \in Nat /\ \A m \in kept : m.id \in Nat /\ m.id < dropped
      BY DEF IInv, TypeOK, Line, LinesInv
    <3> QED BY <2>1, <2>2, <3>1, SMT
  <2> QED BY <2>1, <2>2, <2>3, <2>5, <2>6, <2>7
<1> QED BY <1>1, <1>2

\* Log counts the line it does not write, in an entry of its client.
LEMMA LogLines ==
  ASSUME IInv, LinesInv, NEW ip \in IP, NEW key \in LogKey, Log(ip, key)
  PROVE  LinesInv'
<1>1. PICK c \in Obj :
        /\ Get(ip, c)
        /\ objs' = [objs EXCEPT ![c] = Logged(Seen(c), key)]
        /\ Recorded(ip, c, Seen(c), key)
  BY DEF Log
<1>2. UNCHANGED unknown /\ c # Nil
  BY TrackerAssumption DEF Log
<1>3. Seen(c) \in Client /\ Accounts(Seen(c), c)
  BY <1>1, SeenEntry, SeenAccounts
<1>4. /\ \A f : f = Logged(Seen(c), key) => Accounts(f, c)'
      /\ \A d, f : d # c /\ Accounts(f, d) => Accounts(f, d)'
      /\ IsFiniteSet(kept') /\ \A l \in kept' : l.id < dropped'
      /\ \A l \in kept' : l \in kept \/ (l.at = c /\ l.ip = ip)
  BY <1>1, <1>3, LoggedAccounts
<1>5. ASSUME NEW d \in Obj PROVE Accounts(objs[d], d)'
  <2>1. objs'[d] = IF d = c THEN Logged(Seen(c), key) ELSE objs[d]
    BY <1>1 DEF IInv, TypeOK
  <2>2. Accounts(objs[d], d)
    BY DEF LinesInv, LinesAccounted
  <2>3. CASE d = c
    <3>1. objs'[d] = Logged(Seen(c), key)
      BY <2>1, <2>3
    <3> QED BY <1>4, <2>3, <3>1 DEF Accounts
  <2>4. CASE d # c
    <3>1. objs'[d] = objs[d]
      BY <2>1, <2>4
    <3>2. ASSUME NEW f, Accounts(f, d) PROVE Accounts(f, d)'
      BY <1>4, <2>4, <3>2, Zenon
    <3> QED BY <2>2, <3>1, <3>2, SMT DEF Accounts
  <2> QED BY <2>3, <2>4
<1>6. Accounts(unknown, Nil)'
  BY <1>2, <1>4 DEF LinesInv, LinesAccounted, Accounts
<1>7. \A l \in kept' : Attributed(l)'
  BY <1>1, <1>4, GetKeepsLines, NewLineAttributed DEF LinesInv, LinesAccounted
<1>8. EntriesDistinct'
  BY <1>1, GetDistinct DEF IInv, LinesInv
<1> QED BY <1>4, <1>5, <1>6, <1>7, <1>8 DEF LinesInv, LinesAccounted

\* LogUnknown counts the line it does not write with the unknown clients'.
LEMMA LogUnknownLines ==
  ASSUME IInv, LinesInv, NEW key \in LogKey, LogUnknown(key)
  PROVE  LinesInv'
<1>1. /\ unknown' = Logged(unknown, key) /\ Recorded(Nil, Nil, unknown, key)
      /\ UNCHANGED <<objs, clients, overflow>>
  BY DEF LogUnknown
<1>2. unknown \in Client /\ Accounts(unknown, Nil) /\ Nil \notin Obj
  BY TrackerAssumption DEF IInv, TypeOK, LinesInv, LinesAccounted
<1>3. /\ \A f : f = Logged(unknown, key) => Accounts(f, Nil)'
      /\ \A d, f : d # Nil /\ Accounts(f, d) => Accounts(f, d)'
      /\ IsFiniteSet(kept') /\ \A l \in kept' : l.id < dropped'
      /\ \A l \in kept' : l \in kept \/ (l.at = Nil /\ l.ip = Nil)
  BY <1>1, <1>2, LoggedAccounts
<1>4. Accounts(unknown, Nil)'
  BY <1>1, <1>3 DEF Accounts
<1>5. ASSUME NEW c \in Obj PROVE Accounts(objs[c], c)'
  <2>1. c # Nil /\ Accounts(objs[c], c) /\ objs'[c] = objs[c]
    BY <1>1, <1>2 DEF LinesInv, LinesAccounted
  <2> QED BY <1>3, <2>1 DEF Accounts
<1>6. \A l \in kept' : Attributed(l)'
  BY <1>1, <1>3 DEF LinesInv, LinesAccounted, Attributed, Attached
<1>7. EntriesDistinct'
  BY <1>1 DEF EntriesDistinct, LinesInv
<1> QED BY <1>3, <1>4, <1>5, <1>6, <1>7 DEF LinesInv, LinesAccounted

\* A Sweep summarises every line, and leaves every counter at zero.
LEMMA SweepLines ==
  ASSUME IInv, LinesInv, Sweep
  PROVE  LinesInv'
<1>1. /\ unknown' = Reset(unknown)
      /\ objs' = [c \in Obj |-> IF c \notin Attached THEN objs[c]
                                ELSE IF Forgettable(objs[c]) /\ HeldBy(c) = {}
                                     THEN ZeroClient ELSE Reset(objs[c])]
  BY DEF Sweep
<1>2. kept' = {}
  BY DEF Sweep, Summarised, LinesInv, LinesAccounted, Attributed
<1>3. \A c, key : Cardinality(KeptAs(c, key)') = 0
  <2>1. \A c, key : KeptAs(c, key)' = {}
    BY <1>2 DEF KeptAs
  <2> QED BY <2>1, FS_EmptySet
<1>4. \A e \in Client : Reset(e).suppressed = NoLines /\ Reset(e).other = 0
  BY DEF Reset, Client
<1>5. ASSUME NEW c \in Obj PROVE Accounts(objs[c], c)'
  <2>1. CASE c \notin Attached
    <3>1. \A key : Cardinality(KeptAs(c, key)) = 0
      BY <2>1, NoLinesDetached, FS_EmptySet
    <3>2. objs'[c] = objs[c] /\ Accounts(objs[c], c)
      BY <1>1, <2>1 DEF LinesInv, LinesAccounted
    <3> QED BY <1>3, <3>1, <3>2 DEF Accounts
  <2>2. CASE c \in Attached
    <3>1. objs'[c] \in {ZeroClient, Reset(objs[c])} /\ objs[c] \in Client
      BY <1>1, <2>2 DEF IInv, TypeOK
    <3>2. objs'[c].suppressed = NoLines /\ objs'[c].other = 0
      BY <1>4, <3>1 DEF ZeroClient
    <3> QED BY <1>3, <3>2 DEF Accounts, NoLines
  <2> QED BY <2>1, <2>2
<1>6. Accounts(unknown, Nil)'
  <2>1. unknown'.suppressed = NoLines /\ unknown'.other = 0
    BY <1>1, <1>4 DEF IInv, TypeOK
  <2> QED BY <1>3, <2>1 DEF Accounts, NoLines
<1>7. EntriesDistinct'
  BY SweepDistinct DEF LinesInv
<1>8. IsFiniteSet(kept')
  BY <1>2, FS_EmptySet
<1> QED BY <1>2, <1>5, <1>6, <1>7, <1>8 DEF LinesInv, LinesAccounted

\* The release func leaves the lines alone.
LEMMA ReleaseLines ==
  ASSUME IInv, LinesInv, NEW k \in Conn, Release(k)
  PROVE  LinesInv'
<1> DEFINE d == conn[k].obj
           e == Released(d)
<1>1. /\ objs' = [objs EXCEPT ![d] = e]
      /\ UNCHANGED <<clients, overflow, unknown, dropped, kept>>
  BY DEF Release, CountedIn
<1>2. d \in Obj /\ objs \in [Obj -> Client]
  BY OpenAfterRelease DEF Release, IInv, TypeOK
<1>3. e.suppressed = objs[d].suppressed /\ e.other = objs[d].other
  BY <1>2 DEF Released, Client
<1> HIDE DEF d, e
<1>4. \A c \in Obj : /\ objs'[c].suppressed = objs[c].suppressed
                     /\ objs'[c].other = objs[c].other
  BY <1>1, <1>2, <1>3
<1>5. \A c, key : KeptAs(c, key)' = KeptAs(c, key)
  BY <1>1 DEF KeptAs
<1>6. Accounts(unknown, Nil)' /\ \A c \in Obj : Accounts(objs[c], c)'
  BY <1>1, <1>4, <1>5 DEF Accounts, LinesInv, LinesAccounted
<1>7. EntriesDistinct' /\ \A l \in kept' : Attributed(l)'
  BY <1>1 DEF EntriesDistinct, Attributed, Attached, LinesInv, LinesAccounted
<1>8. IsFiniteSet(kept') /\ \A l \in kept' : l.id < dropped'
  BY <1>1 DEF LinesInv
<1> QED BY <1>6, <1>7, <1>8 DEF LinesInv, LinesAccounted

\* Acquire leaves the lines alone.
LEMMA AcquireLines ==
  ASSUME IInv, LinesInv, NEW ip \in IP, NEW k \in Conn, NEW lim \in ConnLimits,
         NEW max \in TotalLimits, Acquire(ip, k, lim, max)
  PROVE  LinesInv'
<1>1. PICK c \in Obj :
        /\ Get(ip, c)
        /\ \/ objs' = [objs EXCEPT ![c] = Seen(c)]
           \/ objs' = [objs EXCEPT ![c] = [Seen(c) EXCEPT !.conns = @ + 1]]
  BY DEF Acquire
<1>2. UNCHANGED <<unknown, dropped, kept>>
  BY DEF Acquire
<1> DEFINE e == [Seen(c) EXCEPT !.conns = @ + 1]
<1>3. e.suppressed = Seen(c).suppressed /\ e.other = Seen(c).other
  BY <1>1, SeenEntry DEF Client
<1>4. objs' = [objs EXCEPT ![c] = Seen(c)] \/ objs' = [objs EXCEPT ![c] = e]
  BY <1>1
<1> HIDE DEF e
<1> QED BY <1>1, <1>2, <1>3, <1>4, CountsRewritten

\* Allow leaves the lines alone.
LEMMA AllowLines ==
  ASSUME IInv, LinesInv, NEW ip \in IP, NEW rate \in ReqRates, NEW burst \in ReqBursts,
         Allow(ip, rate, burst)
  PROVE  LinesInv'
<1>1. PICK c \in Obj :
        /\ Get(ip, c)
        /\ objs' = [objs EXCEPT ![c] =
                      [Seen(c) EXCEPT !.requests = Take(@, rate, burst)]]
  BY DEF Allow
<1>2. UNCHANGED <<unknown, dropped, kept>>
  BY DEF Allow
<1> DEFINE e == [Seen(c) EXCEPT !.requests = Take(@, rate, burst)]
<1>3. e.suppressed = Seen(c).suppressed /\ e.other = Seen(c).other
  BY <1>1, SeenEntry DEF Client
<1>4. objs' = [objs EXCEPT ![c] = e]
  BY <1>1
<1> HIDE DEF e
<1> QED BY <1>1, <1>2, <1>3, <1>4, CountsRewritten

\* At first there are no lines.
LEMMA InitLines == Init => LinesInv
<1> SUFFICES ASSUME Init PROVE LinesInv
  OBVIOUS
<1>1. kept = {} /\ IsFiniteSet({}) /\ Cardinality({}) = 0
  BY FS_EmptySet DEF Init
<1>2. \A c, key : Cardinality(KeptAs(c, key)) = 0
  <2>1. \A c, key : KeptAs(c, key) = {}
    BY <1>1 DEF KeptAs
  <2> QED BY <1>1, <2>1
<1>3. \A c : Accounts(ZeroClient, c)
  BY <1>2 DEF Accounts, ZeroClient, NoLines
<1>4. LinesAccounted
  BY <1>1, <1>3 DEF Init, LinesAccounted
<1> QED BY <1>1, <1>4 DEF LinesInv, Init, EntriesDistinct

\* Every step keeps the lines accounted for.
LEMMA NextLines ==
  ASSUME IInv, LinesInv, [Next]_vars
  PROVE  LinesInv'
<1>1. CASE UNCHANGED <<objs, clients, overflow, unknown, dropped, kept>>
  <2>1. \A c, key : KeptAs(c, key)' = KeptAs(c, key)
    BY <1>1 DEF KeptAs
  <2>2. Accounts(unknown, Nil)' /\ \A c \in Obj : Accounts(objs[c], c)'
    BY <1>1, <2>1 DEF Accounts, LinesInv, LinesAccounted
  <2>3. EntriesDistinct' /\ \A l \in kept' : Attributed(l)'
    BY <1>1 DEF EntriesDistinct, Attributed, Attached, LinesInv, LinesAccounted
  <2> QED BY <1>1, <2>2, <2>3 DEF LinesInv, LinesAccounted
<1> QED
  BY <1>1, AcquireLines, ReleaseLines, AllowLines, LogLines, LogUnknownLines, SweepLines
  DEF Next, Tick, vars

\* client.log and Sweep lose no access log line and blame none on another
\* client: for any number of clients, entries and keys, the counters hold
\* exactly the lines that were neither written nor summarised yet, each in an
\* entry the next Sweep reports under that line's own address or network.
THEOREM LinesAlwaysAccounted == Spec => []LinesAccounted
<1>1. LinesInv => LinesAccounted
  BY DEF LinesInv
<1>2. IInv /\ LinesInv /\ [Next]_vars => LinesInv'
  BY NextLines
<1> QED BY <1>1, <1>2, InitLines, InitIInv, NextIInv, PTL DEF Spec
-----------------------------------------------------------------------------
(* Connections per client address *)

ConnsOf(ip) == {k \in Open : conn[k].ip = ip}

\* No client holds more than twice the largest client_connections in use.
TwiceTheLimit ==
  0 \notin ConnLimits =>
    \A ip \in IP : ConnsOf(ip) = {} \/ \E l \in ConnLimits : Cardinality(ConnsOf(ip)) <= 2 * l

\* An address is counted in its own entry, all of its connections and no others.
OwnConns ==
  /\ \A n \in Network : overflow[n] = Nil
  /\ \A ip \in IP : ConnsOf(ip) = IF clients[ip] = Nil THEN {} ELSE HeldBy(clients[ip])

\* Acquire decides on the number of connections the address itself holds: what
\* Proxy's Admit and Reject take for granted.
DecidesByAddress ==
  \A ip \in IP, k \in Conn, lim \in ConnLimits, max \in TotalLimits :
    Acquire(ip, k, lim, max) =>
      (conn'[k].state = "open" <=> (lim = 0 \/ Cardinality(ConnsOf(ip)) < lim))

\* An address is counted in two entries at most, each within the limit.
LEMMA TwiceFromEntries ==
  ASSUME IInv, HoldersAttached, EntryLimit
  PROVE  TwiceTheLimit
<1> SUFFICES ASSUME 0 \notin ConnLimits, NEW ip \in IP, ConnsOf(ip) # {}
             PROVE  \E l \in ConnLimits : Cardinality(ConnsOf(ip)) <= 2 * l
  BY DEF TwiceTheLimit
<1> DEFINE A == HeldBy(clients[ip])
           B == HeldBy(overflow[NetOf[ip]])
<1>1. ConnsOf(ip) \subseteq A \cup B
  BY DEF ConnsOf, HoldersAttached, HeldBy
<1>2. IsFiniteSet(A) /\ IsFiniteSet(B) /\ Cardinality(A) \in Nat /\ Cardinality(B) \in Nat
  BY OpenFinite, FS_CardinalityType
<1>3. Cardinality(ConnsOf(ip)) <= Cardinality(A) + Cardinality(B)
  <2>1. /\ IsFiniteSet(A \cup B)
        /\ Cardinality(A \cup B) =
             Cardinality(A) + Cardinality(B) - Cardinality(A \cap B)
    BY <1>2, FS_Union
  <2>2. IsFiniteSet(A \cap B)
    BY <1>2, FS_Intersection
  <2>3. IsFiniteSet(ConnsOf(ip)) /\ Cardinality(ConnsOf(ip)) <= Cardinality(A \cup B)
    BY <1>1, <2>1, FS_Subset
  <2>4. /\ Cardinality(A \cap B) \in Nat /\ Cardinality(A \cup B) \in Nat
        /\ Cardinality(ConnsOf(ip)) \in Nat
    BY <2>1, <2>2, <2>3, FS_CardinalityType
  <2> HIDE DEF A, B
  <2> QED BY <1>2, <2>1, <2>3, <2>4, SMT
<1>4. ASSUME NEW c, c \in {clients[ip], overflow[NetOf[ip]]}
      PROVE  HeldBy(c) = {} \/ \E l \in ConnLimits : Cardinality(HeldBy(c)) <= l
  <2>1. c \in Obj \/ HeldBy(c) = {}
    BY DEF HeldBy, Open, IInv, TypeOK, Closed
  <2> QED BY <2>1 DEF EntryLimit
<1>5. Cardinality({}) = 0
  BY FS_EmptySet
<1>6. /\ A = {} \/ \E l \in ConnLimits : Cardinality(A) <= l
      /\ B = {} \/ \E l \in ConnLimits : Cardinality(B) <= l
  BY <1>4
<1>7. IsFiniteSet(ConnsOf(ip)) /\ Cardinality(ConnsOf(ip)) \in Nat
  <2>1. ConnsOf(ip) \subseteq Open
    BY DEF ConnsOf
  <2> QED BY <2>1, OpenFinite, FS_Subset, FS_CardinalityType
<1>8. A # {} \/ B # {}
  BY <1>1
<1> HIDE DEF A, B
<1>9. CASE A = {}
  <2>1. PICK l \in ConnLimits : Cardinality(B) <= l
    BY <1>6, <1>8, <1>9
  <2>2. Cardinality(ConnsOf(ip)) <= 2 * l /\ l \in Nat
    BY <1>2, <1>3, <1>5, <1>7, <1>9, <2>1, TrackerAssumption, SMT
  <2> QED BY <2>2
<1>10. CASE B = {}
  <2>1. PICK l \in ConnLimits : Cardinality(A) <= l
    BY <1>6, <1>8, <1>10
  <2>2. Cardinality(ConnsOf(ip)) <= 2 * l /\ l \in Nat
    BY <1>2, <1>3, <1>5, <1>7, <1>10, <2>1, TrackerAssumption, SMT
  <2> QED BY <2>2
<1>11. CASE A # {} /\ B # {}
  <2>1. PICK l \in ConnLimits : Cardinality(A) <= l
    BY <1>6, <1>11
  <2>2. PICK m \in ConnLimits : Cardinality(B) <= m
    BY <1>6, <1>11
  <2>3. l \in Nat /\ m \in Nat
    BY TrackerAssumption
  <2>4. CASE l <= m
    BY <1>2, <1>3, <1>7, <2>1, <2>2, <2>3, <2>4, SMT
  <2>5. CASE m <= l
    BY <1>2, <1>3, <1>7, <2>1, <2>2, <2>3, <2>5, SMT
  <2> QED BY <2>3, <2>4, <2>5, SMT
<1> QED BY <1>9, <1>10, <1>11

\* An address is counted in two entries at most, its own and its network's, so
\* even while the table overflows it holds no more than twice the limit.
THEOREM ClientsWithinTwiceLimit == Spec => []TwiceTheLimit
<1>1. Spec => []LimitsRespected
  BY LimitsHold
<1>2. Spec => []HoldersAttached
  BY EntriesInUseKept
<1>3. IInv /\ HoldersAttached /\ LimitsRespected => TwiceTheLimit
  BY TwiceFromEntries DEF LimitsRespected
<1> QED BY <1>1, <1>2, <1>3, InitIInv, NextIInv, PTL DEF Spec

\* With room for all, get never opens an overflow entry.
LEMMA NoOverflow ==
  ASSUME RoomForAll, IInv, [Next]_vars, \A n \in Network : overflow[n] = Nil
  PROVE  \A n \in Network : overflow'[n] = Nil
<1>1. ASSUME NEW ip \in IP, NEW c \in Obj, Get(ip, c) PROVE UNCHANGED overflow
  <2>1. clients[ip] = Nil => Tracked < MaxClients /\ ~(Tracked >= MaxClients)
    BY RoomLeft DEF IInv
  <2> QED BY <1>1, <2>1 DEF Get
<1>2. CASE Sweep
  BY <1>2 DEF Sweep
<1>3. CASE UNCHANGED overflow
  BY <1>3
<1> QED BY <1>1, <1>2, <1>3 DEF Next, Acquire, Release, Allow, Log, LogUnknown, Tick, vars

\* With no entry shared, an entry counts the connections of its address.
LEMMA OwnFromEntries ==
  ASSUME IInv, HoldersAttached, EntriesDistinct, \A n \in Network : overflow[n] = Nil
  PROVE  OwnConns
<1>1. \A k \in Open : conn[k].ip \in IP /\ conn[k].obj \in Obj /\ conn[k].obj # Nil
  BY TrackerAssumption DEF Open, IInv, TypeOK, Closed
<1>2. \A k \in Open : conn[k].obj = clients[conn[k].ip]
  BY <1>1, TrackerAssumption DEF HoldersAttached
<1>3. ASSUME NEW ip \in IP
      PROVE  ConnsOf(ip) = IF clients[ip] = Nil THEN {} ELSE HeldBy(clients[ip])
  <2>1. CASE clients[ip] = Nil
    BY <1>1, <1>2, <2>1 DEF ConnsOf
  <2>2. CASE clients[ip] # Nil
    BY <1>1, <1>2, <2>2 DEF ConnsOf, HeldBy, EntriesDistinct
  <2> QED BY <2>1, <2>2
<1> QED BY <1>3 DEF OwnConns

\* Acquire then decides by what the address itself holds.
LEMMA DecisionByAddress ==
  ASSUME RoomForAll, IInv, OwnConns, NEW ip \in IP, NEW k \in Conn, NEW lim \in ConnLimits,
         NEW max \in TotalLimits, Acquire(ip, k, lim, max)
  PROVE  conn'[k].state = "open" <=> (lim = 0 \/ Cardinality(ConnsOf(ip)) < lim)
<1>1. PICK c \in Obj :
        /\ Get(ip, c)
        /\ IF ClientFull(Seen(c), lim) THEN UNCHANGED conn
           ELSE conn' = [conn EXCEPT ![k] = [state |-> "open", ip |-> ip, obj |-> c]]
  BY DEF Acquire
<1>2. conn[k].state = "closed" /\ conn \in [Conn -> [state : {"open"}, ip : IP, obj : Obj]
                                                     \cup {Closed}]
  BY DEF Acquire, IInv, TypeOK
<1>3. Seen(c).conns = Cardinality(HeldBy(c))
  BY <1>1, SeenEntry
<1>4. ConnsOf(ip) = HeldBy(c)
  <2>1. CASE clients[ip] # Nil
    BY <1>1, <2>1 DEF Get, OwnConns
  <2>2. CASE clients[ip] = Nil
    <3>1. NewStruct(c)
      BY <1>1, <2>2, TrackerAssumption DEF Get, OwnConns
    <3> QED BY <2>2, <3>1 DEF NewStruct, Free, OwnConns
  <2> QED BY <2>1, <2>2
<1>5. Cardinality(HeldBy(c)) \in Nat /\ lim \in Nat
  BY OpenFinite, FS_CardinalityType, TrackerAssumption
<1>6. ClientFull(Seen(c), lim) <=> ~(lim = 0 \/ Cardinality(HeldBy(c)) < lim)
  BY <1>3, <1>5, SMT DEF ClientFull
<1>7. conn'[k].state = "open" <=> ~ClientFull(Seen(c), lim)
  BY <1>1, <1>2
<1> QED BY <1>4, <1>6, <1>7

\* limits.go's client_connections is a limit per client IP: while the table has
\* room for every address, Acquire turns a connection away (on this limit) if
\* and only if its own address already holds that many, whatever entries were
\* forgotten and made anew in between.
THEOREM LimitIsPerAddress ==
  ASSUME RoomForAll
  PROVE  Spec => [][DecidesByAddress]_vars
<1> DEFINE J == EntriesDistinct /\ \A n \in Network : overflow[n] = Nil
<1>1. Init => J
  BY DEF Init, EntriesDistinct
<1>2. IInv /\ J /\ [Next]_vars => J'
  <2> SUFFICES ASSUME IInv, J, [Next]_vars PROVE J'
    OBVIOUS
  <2>1. EntriesDistinct'
    BY NextDistinct
  <2>2. \A n \in Network : overflow'[n] = Nil
    BY NoOverflow
  <2> QED BY <2>1, <2>2
<1>3. IInv /\ J /\ HoldersAttached => OwnConns
  BY OwnFromEntries
<1>4. IInv /\ OwnConns /\ [Next]_vars => [DecidesByAddress]_vars
  BY DecisionByAddress DEF DecidesByAddress
<1>5. Spec => []HoldersAttached
  BY EntriesInUseKept
<1> HIDE DEF J
<1> QED BY <1>1, <1>2, <1>3, <1>4, <1>5, InitIInv, NextIInv, PTL DEF Spec
=============================================================================
