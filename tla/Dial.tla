-------------------------------- MODULE Dial --------------------------------
(***************************************************************************)
(* internal/proxy/dial.go: one call of vetted.dial.  The calling goroutine *)
(* (dialParallel's select loop), the racing goroutine of each address      *)
(* family (dialSerial) and the goroutine that reaps the loser are          *)
(* processes.  Time is discrete; timers and context deadlines are served   *)
(* before the clock moves past them.                                       *)
(***************************************************************************)
EXTENDS Integers, Sequences, FiniteSets

CONSTANTS
  AddrLists,          \* the vetted address lists to dial: sequences of [v4, id]
  MaxAddrsPerFamily, DialBudget, FallbackDelay, MinAttemptTimeout

ASSUME DialAssumption ==
  /\ AddrLists \subseteq Seq([v4 : BOOLEAN, id : Nat]) \ {<<>>}
  /\ MaxAddrsPerFamily \in Nat \ {0} /\ DialBudget \in Nat \ {0}
  /\ FallbackDelay \in Nat /\ MinAttemptTimeout \in Nat

\* 30 s, 300 ms, 3 and 2 s: a family that starts last still has the minimum
\* for each of its addresses.
ASSUME RoomAssumption ==
  /\ MinAttemptTimeout > 0
  /\ DialBudget - FallbackDelay >= MaxAddrsPerFamily * MinAttemptTimeout

Racer == {"primary", "fallback"}

VARIABLES
  now,
  addrs,      \* v.addrs
  gone,       \* the caller's context was cancelled
  main,       \* the caller: "racing", "ok" or "failed"
  pending,    \* racers whose result has not been received
  timer,      \* the fallback timer is running
  race,       \* per racer: state, which of addrs it tries, until when
  results,    \* the results channel
  reaper,     \* a reaper waits for the loser's result
  conns,      \* per racer: its connection, if one was established
  tried       \* history: the addresses an attempt was made for

vars == <<now, addrs, gone, main, pending, timer, race, results, reaper, conns, tried>>

-----------------------------------------------------------------------------
(* Splitting the addresses by family *)

\* The addresses are numbered as in addrs.  Of those of a family, the ones
\* with fewer than maxAddrsPerFamily before them are tried.
OfFamily(r) == {p \in DOMAIN addrs : addrs[p].v4 = addrs[1].v4 <=> r = "primary"}
List(r) ==
  {p \in OfFamily(r) : Cardinality({q \in OfFamily(r) : q < p}) < MaxAddrsPerFamily}

\* From address p of the list on, and after it.
From(r, p) == {q \in List(r) : q >= p}
After(r, p) == {q \in List(r) : q > p}

First(S) == CHOOSE p \in S : \A q \in S : p <= q

\* With a single family dialSerial runs in the caller and nothing races.
Solo == List("fallback") = {}

-----------------------------------------------------------------------------
(* dialSerial *)

\* The context of every attempt: cancelled by the caller, by dialParallel's
\* return, or at the end of the budget.
CtxDone == gone \/ main # "racing" \/ now >= DialBudget

\* Mutated form: the first attempt may use all of the remaining time.
AttemptDeadlineWhole(r, p) == DialBudget

\* Mutated form: every attempt gets a budget of its own.
AttemptDeadlineFresh(r, p) == now + DialBudget

\* An equal share of the time left, at least minAttemptTimeout, capped by ctx.
AttemptDeadline(r, p) ==
  LET share == (DialBudget - now) \div Cardinality(From(r, p))
      limit == now + (IF share > MinAttemptTimeout THEN share ELSE MinAttemptTimeout)
  IN  IF limit < DialBudget THEN limit ELSE DialBudget

\* Racer r's attempt on address p begins.
Attempt(r, p) == [state |-> "trying", at |-> p, deadline |-> AttemptDeadline(r, p)]

Idle == [state |-> "off", at |-> 0, deadline |-> 0]

\* dialAddr succeeds; a cancelled attempt may connect anyway.
Connect(r) ==
  /\ race[r].state = "trying"
  /\ race' = [race EXCEPT ![r].state = "connected"]
  /\ conns' = [conns EXCEPT ![r] = "open"]
  /\ UNCHANGED <<now, addrs, gone, main, pending, timer, results, reaper, tried>>

\* No more attempts: the list is used up or the context is over.
Exhausted(r) == After(r, race[r].at) = {} \/ CtxDone

\* dialAddr fails (refused, timed out or cancelled); on to the next address.
Fail(r) ==
  /\ race[r].state = "trying"
  /\ IF Exhausted(r)
     THEN /\ race' = [race EXCEPT ![r] = [Idle EXCEPT !.state = "error"]]
          /\ UNCHANGED tried
     ELSE LET p == First(After(r, race[r].at))
          IN  race' = [race EXCEPT ![r] = Attempt(r, p)] /\ tried' = tried \cup {p}
  /\ UNCHANGED <<now, addrs, gone, main, pending, timer, results, reaper, conns>>

\* Mutated form: the result is sent twice.
SendTwice(r) ==
  /\ ~Solo /\ race[r].state \in {"connected", "error"} /\ Len(results) < 2
  /\ results' = results \o <<r, r>>
  /\ race' = [race EXCEPT ![r].state = IF @ = "error" THEN "sentError" ELSE "sent"]
  /\ UNCHANGED <<now, addrs, gone, main, pending, timer, reaper, conns, tried>>

\* results <- result{c, err}
Send(r) ==
  /\ ~Solo /\ race[r].state \in {"connected", "error"} /\ Len(results) < 2
  /\ results' = Append(results, r)
  /\ race' = [race EXCEPT ![r].state = IF @ = "error" THEN "sentError" ELSE "sent"]
  /\ UNCHANGED <<now, addrs, gone, main, pending, timer, reaper, conns, tried>>

\* dialParallel without a second family returns what dialSerial returns.
SoloReturns ==
  /\ Solo /\ main = "racing" /\ race["primary"].state \in {"connected", "error"}
  /\ IF race["primary"].state = "connected"
     THEN main' = "ok" /\ conns' = [conns EXCEPT !["primary"] = "handed"]
     ELSE main' = "failed" /\ UNCHANGED conns
  /\ race' = [race EXCEPT !["primary"].state = "sent"]
  /\ pending' = 0
  /\ UNCHANGED <<now, addrs, gone, timer, results, reaper, tried>>

-----------------------------------------------------------------------------
(* dialParallel *)

Startable == race["fallback"].state = "off"

\* startFallback: has an effect the first time only.
StartFallback(n) ==
  IF Startable
  THEN /\ pending' = n + 1
       /\ LET p == First(List("fallback"))
          IN  race' = [race EXCEPT !["fallback"] = Attempt("fallback", p)] /\ tried' = tried \cup {p}
  ELSE pending' = n /\ UNCHANGED <<race, tried>>

TimerFires ==
  /\ main = "racing" /\ timer /\ now >= FallbackDelay
  /\ timer' = FALSE
  /\ StartFallback(pending)
  /\ UNCHANGED <<now, addrs, gone, main, results, reaper, conns>>

\* Mutated form: the loser's connection is nobody's business.
ReaperNeededNever == FALSE

\* A loser is still out when a winner is received.
ReaperNeeded == pending > 1

\* The loop receives a result: a connection wins, an error starts the other
\* family, and the last error ends the dial.
Receive ==
  /\ main = "racing" /\ results # <<>>
  /\ results' = Tail(results)
  /\ LET r == Head(results) IN
     IF conns[r] # "none"
     THEN /\ main' = "ok"
          /\ conns' = [conns EXCEPT ![r] = "handed"]
          /\ reaper' = ReaperNeeded
          /\ pending' = pending - 1
          /\ UNCHANGED <<race, tried>>
     ELSE /\ StartFallback(pending - 1)
          /\ main' = IF pending' = 0 THEN "failed" ELSE "racing"
          /\ UNCHANGED <<conns, reaper>>
  /\ UNCHANGED <<now, addrs, gone, timer>>

\* Mutated form: the reaper closes whatever the race has connected.
ReapAll ==
  /\ reaper /\ results # <<>>
  /\ reaper' = FALSE
  /\ results' = Tail(results)
  /\ conns' = [r \in Racer |-> "closed"]
  /\ UNCHANGED <<now, addrs, gone, main, pending, timer, race, tried>>

\* The reaper closes the loser's connection, if there is one.
Reap ==
  /\ reaper /\ results # <<>>
  /\ reaper' = FALSE
  /\ results' = Tail(results)
  /\ conns' = [conns EXCEPT ![Head(results)] = IF @ = "none" THEN @ ELSE "closed"]
  /\ UNCHANGED <<now, addrs, gone, main, pending, timer, race, tried>>

-----------------------------------------------------------------------------
\* The client of a plain request hangs up.
CallerGone ==
  /\ ~gone /\ main = "racing"
  /\ gone' = TRUE
  /\ UNCHANGED <<now, addrs, main, pending, timer, race, results, reaper, conns, tried>>

Tick ==
  /\ main = "racing"
  /\ \A r \in Racer : race[r].state = "trying" => now < race[r].deadline
  /\ ~(timer /\ now >= FallbackDelay)
  /\ results = <<>> /\ \A r \in Racer : race[r].state \notin {"connected", "error"}
  /\ now' = now + 1
  /\ UNCHANGED <<addrs, gone, main, pending, timer, race, results, reaper, conns, tried>>

Init ==
  /\ now = 0 /\ gone = FALSE /\ main = "racing" /\ pending = 1
  /\ addrs \in AddrLists
  /\ timer = ~Solo
  /\ race = [r \in Racer |-> IF r = "primary" THEN Attempt(r, First(List(r))) ELSE Idle]
  /\ results = <<>> /\ reaper = FALSE
  /\ conns = [r \in Racer |-> "none"]
  /\ tried = {First(List("primary"))}

RacerStep(r) == Connect(r) \/ Fail(r) \/ Send(r)
MainStep == SoloReturns \/ TimerFires \/ Receive

Next == (\E r \in Racer : RacerStep(r)) \/ MainStep \/ Reap \/ CallerGone \/ Tick

Spec == Init /\ [][Next]_vars

\* The goroutines keep running; net.Dialer returns, at the latest when its
\* context ends.
FairSpec ==
  /\ Spec
  /\ \A r \in Racer : WF_vars(RacerStep(r))
  /\ WF_vars(MainStep) /\ WF_vars(Reap) /\ WF_vars(Tick)

-----------------------------------------------------------------------------
(* Properties *)

\* Type invariant.
TypeOK ==
  /\ now \in Nat /\ gone \in BOOLEAN /\ timer \in BOOLEAN /\ reaper \in BOOLEAN
  /\ addrs \in AddrLists
  /\ main \in {"racing", "ok", "failed"} /\ pending \in 0..2
  /\ race \in [Racer -> [state : {"off", "trying", "connected", "error", "sent", "sentError"},
                         at : Nat, deadline : Nat]]
  /\ results \in Seq(Racer) /\ Len(results) <= 2
  /\ conns \in [Racer -> {"none", "open", "handed", "closed"}]
  /\ tried \subseteq DOMAIN addrs

\* The caller gets exactly one connection or an error, and the connection it
\* got is never the one the reaper closes.
OneWinner ==
  /\ main = "ok" <=> \E r \in Racer : conns[r] = "handed"
  /\ conns["primary"] = "handed" => conns["fallback"] # "handed"

\* dial reports failure only after an attempt on every address of both
\* families (three of each at most), unless the caller left: a slow address
\* cannot use up the time of the others, within one family or across them.
FailureMeansAllTried ==
  main = "failed" /\ ~gone =>
    tried = List("primary") \cup List("fallback")

\* dialBudget bounds the whole dial.
WithinBudget == now <= DialBudget

\* Every dial ends, all its goroutines end, and every connection that was
\* established ends up with the caller or closed, whoever lost the race.
NothingLeaks ==
  <>[](/\ main # "racing" /\ ~reaper
       /\ \A r \in Racer : /\ race[r].state \in {"off", "sent", "sentError"}
                           /\ conns[r] # "open")
=============================================================================
