------------------------------- MODULE Tracker -------------------------------
(***************************************************************************)
(* internal/limits: per-client connection slots, request buckets and log   *)
(* budgets.  Every exported method runs under Tracker.mu, so each one is   *)
(* one action.  The *client structs are objects with an identity: the      *)
(* release closure that Acquire returns keeps a pointer to the struct the  *)
(* connection was counted in, whatever the maps say by then.               *)
(*                                                                         *)
(* Floating-point tokens are counted in units, Unit to the token, and a    *)
(* rate in units per tick of the clock.                                    *)
(***************************************************************************)
EXTENDS Integers, FiniteSets, FiniteSetsExt

CONSTANTS
  IP, Network, NetOf,         \* client addresses; the overflow network of each
  Obj, Nil,                   \* heap cells for *client, and the nil pointer
  Conn,                       \* connections, each with its release closure
  ConnLimits, TotalLimits,    \* values client_connections and total_connections take
  ReqRates, ReqBursts,        \* values requests_per_second (units per tick), request_burst take
  ReqRate, ReqBurst,          \* the largest of them
  Unit,                       \* token units in one token
  LogRate, LogBurst,          \* logRate, logBurst
  LogKey, MaxSuppressedKeys,  \* SuppressedKey values, maxSuppressedKeys
  MaxClients, ForgetAfter,    \* maxClients, forgetAfter (ticks)
  MaxNow, MaxDropped          \* bounds of the model: clock, unwritten log lines

ASSUME TrackerAssumption ==
  /\ NetOf \in [IP -> Network]
  /\ Nil \notin Obj /\ Nil \notin LogKey
  /\ IsFiniteSet(Conn) /\ IsFiniteSet(IP)
  /\ ConnLimits \subseteq Nat /\ TotalLimits \subseteq Nat
  /\ ReqRate \in Nat /\ ReqRates \subseteq 0..ReqRate
  /\ ReqBurst \in Nat /\ ReqBursts \subseteq 0..ReqBurst
  /\ Unit \in Nat \ {0} /\ MaxSuppressedKeys \in Nat
  /\ LogRate \in Nat /\ LogBurst \in Nat
  /\ MaxClients \in Nat /\ ForgetAfter \in Nat /\ MaxNow \in Nat

VARIABLES
  now,        \* Tracker.now()
  objs,       \* contents of the *client structs
  clients,    \* clients: IP -> *client
  overflow,   \* overflow: network -> *client
  unknown,    \* the client struct of everyone outside every subnet
  total,      \* total
  conn,       \* the connections and what their release closures captured
  owed,       \* history: token units each IP has in an ideal bucket of the
              \* largest rate and burst
  dropped,    \* history: log lines counted instead of written
  kept        \* history: the ones among them that no Sweep has summarised yet

vars == <<now, objs, clients, overflow, unknown, total, conn, owed, dropped, kept>>

-----------------------------------------------------------------------------
(* Token buckets *)

ZeroBucket == [primed |-> FALSE, tokens |-> 0, last |-> 0]

Capacity(burst) == Unit * Max({burst, 1})

\* Mutated form: the refill is not capped at the burst.
RefilledUncapped(b, rate, burst) ==
  IF b.primed THEN b.tokens + (now - b.last) * rate ELSE Capacity(burst)

\* The tokens a take finds in the bucket.
Refilled(b, rate, burst) ==
  IF b.primed
  THEN Min({Capacity(burst), b.tokens + (now - b.last) * rate})
  ELSE Capacity(burst)

Granted(b, rate, burst) == rate = 0 \/ Refilled(b, rate, burst) >= Unit

\* The bucket after a take; with no rate the bucket is not touched.
Take(b, rate, burst) ==
  LET t == Refilled(b, rate, burst)
  IN  IF rate = 0 THEN b
      ELSE [primed |-> TRUE, last |-> now,
            tokens |-> IF t >= Unit THEN t - Unit ELSE t]

-----------------------------------------------------------------------------
(* Entries *)

NoLines == [key \in LogKey |-> 0]

ZeroClient == [conns |-> 0, seen |-> 0, requests |-> ZeroBucket, logs |-> ZeroBucket,
               suppressed |-> NoLines, other |-> 0]

Attached == {clients[ip] : ip \in IP} \cup {overflow[n] : n \in Network}

Open == {k \in Conn : conn[k].state = "open"}
HeldBy(c) == {k \in Open : conn[k].obj = c}

Tracked == Cardinality({ip \in IP : clients[ip] # Nil})

\* An object no map and no release closure points to.
Free(c) == c \notin Attached /\ HeldBy(c) = {}

\* c is the struct that &client{} allocates.
NewStruct(c) == Free(c) /\ c = CHOOSE o \in Obj : Free(o)

\* get returns c for ip, adding it to a map if it is a new struct.
Get(ip, c) ==
  LET n == NetOf[ip] IN
  \/ /\ clients[ip] # Nil /\ c = clients[ip]
     /\ UNCHANGED <<clients, overflow>>
  \/ /\ clients[ip] = Nil /\ Tracked < MaxClients
     /\ NewStruct(c)
     /\ clients' = [clients EXCEPT ![ip] = c]
     /\ UNCHANGED overflow
  \/ /\ clients[ip] = Nil /\ Tracked >= MaxClients
     /\ IF overflow[n] # Nil
        THEN c = overflow[n] /\ UNCHANGED overflow
        ELSE /\ NewStruct(c)
             /\ overflow' = [overflow EXCEPT ![n] = c]
     /\ UNCHANGED clients

\* The struct get hands out: a new one is zero, seen is refreshed.
Struct(c) == IF c \in Attached THEN objs[c] ELSE ZeroClient
Seen(c) == [Struct(c) EXCEPT !.seen = now]

-----------------------------------------------------------------------------
(* Connections *)

\* Mutated form: the check lets one connection too many in.
ClientFullOffByOne(e, lim) == lim > 0 /\ e.conns > lim

ClientFull(e, lim) == lim > 0 /\ e.conns >= lim

TotalFull(max) == max > 0 /\ total >= max

\* Acquire for connection k under the limits of the current config.
Acquire(ip, k, lim, max) ==
  /\ conn[k].state = "closed"
  /\ ~TotalFull(max)
  /\ \E c \in Obj :
       /\ Get(ip, c)
       /\ IF ClientFull(Seen(c), lim)
          THEN /\ objs' = [objs EXCEPT ![c] = Seen(c)]
               /\ UNCHANGED <<total, conn>>
          ELSE /\ objs' = [objs EXCEPT ![c] = [Seen(c) EXCEPT !.conns = @ + 1]]
               /\ total' = total + 1
               /\ conn' = [conn EXCEPT ![k] = [state |-> "open", ip |-> ip, obj |-> c]]
  /\ UNCHANGED <<now, unknown, owed, dropped, kept>>

Closed == [state |-> "closed", ip |-> Nil, obj |-> Nil]

\* Mutated form: the closure looks the entry up again by address.
CountedInLookup(k) ==
  IF clients[conn[k].ip] # Nil THEN clients[conn[k].ip]
  ELSE IF overflow[NetOf[conn[k].ip]] # Nil THEN overflow[NetOf[conn[k].ip]]
       ELSE conn[k].obj

\* The entry a release gives the slot back to: the captured pointer.
CountedIn(k) == conn[k].obj

\* Mutated form: a connection is given back twice, as without sync.Once.
ReleasedTwice(c) == [objs[c] EXCEPT !.conns = @ - 2, !.seen = now]

Released(c) == [objs[c] EXCEPT !.conns = @ - 1, !.seen = now]

\* The release closure; sync.Once makes every call but the first do nothing,
\* which is why a closed connection's closure is not modelled further.
Release(k) ==
  /\ conn[k].state = "open"
  /\ objs' = [objs EXCEPT ![CountedIn(k)] = Released(CountedIn(k))]
  /\ total' = total - 1
  /\ conn' = [conn EXCEPT ![k] = Closed]
  /\ UNCHANGED <<now, clients, overflow, unknown, owed, dropped, kept>>

-----------------------------------------------------------------------------
(* Requests and access log lines *)

\* One request under the limits that its client's subnet has in the config
\* the request reads.
Allow(ip, rate, burst) ==
  /\ \E c \in Obj :
       /\ Get(ip, c)
       /\ objs' = [objs EXCEPT ![c] =
                     [Seen(c) EXCEPT !.requests = Take(@, rate, burst)]]
       /\ owed' = IF rate > 0 /\ Granted(Seen(c).requests, rate, burst)
                  THEN [owed EXCEPT ![ip] = @ - Unit] ELSE owed
  /\ UNCHANGED <<now, unknown, total, conn, dropped, kept>>

\* What an unwritten line is counted as: its key while keys last, else Other.
CountedAs(e, key) ==
  LET counted == {k \in LogKey : e.suppressed[k] > 0}
  IN  IF key \in counted \/ Cardinality(counted) < MaxSuppressedKeys THEN key ELSE Nil

\* client.log: a line past the budget is counted instead of written.
Logged(e, key) ==
  LET f == [e EXCEPT !.logs = Take(@, LogRate, LogBurst)]
  IN  IF Granted(e.logs, LogRate, LogBurst) THEN f
      ELSE IF CountedAs(e, key) = Nil THEN [f EXCEPT !.other = @ + 1]
           ELSE [f EXCEPT !.suppressed[key] = @ + 1]

\* The history of a line from ip that is logged in entry e, which is at c.
Recorded(ip, c, e, key) ==
  IF Granted(e.logs, LogRate, LogBurst) THEN UNCHANGED <<dropped, kept>>
  ELSE /\ dropped' = dropped + 1
       /\ kept' = kept \cup {[id |-> dropped, ip |-> ip, at |-> c, as |-> CountedAs(e, key)]}

Log(ip, key) ==
  /\ dropped < MaxDropped
  /\ \E c \in Obj :
       /\ Get(ip, c)
       /\ objs' = [objs EXCEPT ![c] = Logged(Seen(c), key)]
       /\ Recorded(ip, c, Seen(c), key)
  /\ UNCHANGED <<now, unknown, total, conn, owed>>

LogUnknown(key) ==
  /\ dropped < MaxDropped
  /\ unknown' = Logged(unknown, key)
  /\ Recorded(Nil, Nil, unknown, key)
  /\ UNCHANGED <<now, objs, clients, overflow, total, conn, owed>>

-----------------------------------------------------------------------------
(* Housekeeping *)

Reset(e) == [e EXCEPT !.suppressed = NoLines, !.other = 0]

\* Mutated form: an entry is forgotten by age alone.
ForgettableBusy(e) == now - e.seen > ForgetAfter

Forgettable(e) == e.conns = 0 /\ now - e.seen > ForgetAfter

\* Mutated form: a forgotten entry's counts are dropped without a summary.
SummarisedKept == {c \in Attached \ {Nil} : ~Forgettable(objs[c])}

\* The entries whose counts a Sweep returns.
Summarised == Attached \ {Nil}

Sweep ==
  /\ kept' = {l \in kept : l.at \notin Summarised \cup {Nil}}
  /\ clients' = [ip \in IP |-> IF clients[ip] # Nil /\ Forgettable(objs[clients[ip]])
                               THEN Nil ELSE clients[ip]]
  /\ overflow' = [n \in Network |-> IF overflow[n] # Nil /\ Forgettable(objs[overflow[n]])
                                    THEN Nil ELSE overflow[n]]
  /\ objs' = [c \in Obj |-> IF c \notin Attached THEN objs[c]
                            ELSE IF Forgettable(objs[c]) /\ HeldBy(c) = {}
                                 THEN ZeroClient           \* garbage from here on
                                 ELSE Reset(objs[c])]
  /\ unknown' = Reset(unknown)
  /\ UNCHANGED <<now, total, conn, owed, dropped>>

Tick ==
  /\ now < MaxNow
  /\ now' = now + 1
  /\ owed' = [ip \in IP |-> Min({Capacity(ReqBurst), owed[ip] + ReqRate})]
  /\ UNCHANGED <<objs, clients, overflow, unknown, total, conn, dropped, kept>>

-----------------------------------------------------------------------------
Init ==
  /\ now = 0
  /\ objs = [c \in Obj |-> ZeroClient]
  /\ clients = [ip \in IP |-> Nil]
  /\ overflow = [n \in Network |-> Nil]
  /\ unknown = ZeroClient
  /\ total = 0
  /\ conn = [k \in Conn |-> Closed]
  /\ owed = [ip \in IP |-> Capacity(ReqBurst)]
  /\ dropped = 0
  /\ kept = {}

Next ==
  \/ \E ip \in IP, k \in Conn, lim \in ConnLimits, max \in TotalLimits :
       Acquire(ip, k, lim, max)
  \/ \E k \in Conn : Release(k)
  \/ \E ip \in IP, rate \in ReqRates, burst \in ReqBursts : Allow(ip, rate, burst)
  \/ \E ip \in IP, key \in LogKey : Log(ip, key)
  \/ \E key \in LogKey : LogUnknown(key)
  \/ Sweep
  \/ Tick

Spec == Init /\ [][Next]_vars

-----------------------------------------------------------------------------
(* Properties *)

Bucket == [primed : BOOLEAN, tokens : Nat, last : Nat]

Client == [conns : Nat, seen : Nat, requests : Bucket, logs : Bucket,
           suppressed : [LogKey -> Nat], other : Nat]

Line == [id : Nat, ip : IP \cup {Nil}, at : Obj \cup {Nil}, as : LogKey \cup {Nil}]

\* Type invariant.  In particular no counter of an entry goes below zero.
TypeOK ==
  /\ now \in Nat /\ total \in Nat /\ dropped \in Nat
  /\ objs \in [Obj -> Client] /\ unknown \in Client
  /\ clients \in [IP -> Obj \cup {Nil}]
  /\ overflow \in [Network -> Obj \cup {Nil}]
  /\ conn \in [Conn -> [state : {"open"}, ip : IP, obj : Obj] \cup {Closed}]
  /\ owed \in [IP -> Int] /\ kept \subseteq Line

\* The counters are exact: total is the number of open connections, and each
\* entry's conns the number of open connections that were counted in it, so
\* no order of Acquire, release and Sweep leaks a slot or frees one twice.
SlotsExact ==
  /\ total = Cardinality(Open)
  /\ \A c \in Obj : objs[c].conns = Cardinality(HeldBy(c))

\* Sweep never forgets an entry that an open connection is counted in: the
\* connection's entry is still its client's own or its network's.
HoldersAttached ==
  \A k \in Open : conn[k].obj \in {clients[conn[k].ip], overflow[NetOf[conn[k].ip]]}

EntryLimit ==
  0 \notin ConnLimits =>
    \A c \in Obj : HeldBy(c) = {} \/ \E l \in ConnLimits : Cardinality(HeldBy(c)) <= l

TotalLimit ==
  0 \notin TotalLimits => (Open = {} \/ \E l \in TotalLimits : Cardinality(Open) <= l)

\* However reloads change the limits, no entry ever holds more connections
\* than the largest client_connections in use, and the proxy no more than the
\* largest total_connections (where none of them is 0, "disabled").
LimitsRespected == EntryLimit /\ TotalLimit

KeptAs(c, key) == {l \in kept : l.at = c /\ l.as = key}

\* Entry e, which is at c, counts exactly the kept lines that were logged there.
Accounts(e, c) ==
  /\ \A key \in LogKey : e.suppressed[key] = Cardinality(KeptAs(c, key))
  /\ e.other = Cardinality(KeptAs(c, Nil))

\* Line l is counted where the next Sweep finds it, and summarises it under its
\* own address, its own network, or the clients outside every subnet.
Attributed(l) ==
  \/ l.at = Nil /\ l.ip = Nil
  \/ /\ l.at \in Attached \ {Nil}
     /\ \A ip \in IP : l.at = clients[ip] => l.ip = ip
     /\ \A n \in Network : l.at = overflow[n] => NetOf[l.ip] = n

\* No access log line is lost or blamed on another client: every line that was
\* not written has been summarised by a Sweep, or the counters hold exactly it
\* in an entry a Sweep will visit and report under that line's client.
LinesAccounted ==
  /\ Accounts(unknown, Nil) /\ \A c \in Obj : Accounts(objs[c], c)
  /\ \A l \in kept : Attributed(l)

\* limits.go:15 "sustained rate of new requests and tunnels": however reloads
\* change the limits, the requests a client is granted under a limit are never
\* more than a bucket of its own, of the largest rate and burst in use and
\* never forgotten, would grant.
SustainedRate == \A ip \in IP : owed[ip] >= 0
=============================================================================
