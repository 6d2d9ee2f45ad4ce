----------------------------- MODULE DialProofs -----------------------------
(***************************************************************************)
(* Proofs about Dial.  IInv is inductive: pending counts the racers that   *)
(* are out, a result is sent once and says what the racer established, and *)
(* an attempt that is under way ends within the budget.  Turns needs IInv  *)
(* and RoomAssumption: an attempt's deadline leaves minAttemptTimeout for  *)
(* every address after it.  LoserInv follows the connection of the racer   *)
(* that did not win until it is closed.                                    *)
(***************************************************************************)
EXTENDS Dial, FiniteSetTheorems, TLAPS

\* Zenon first: SMT is for the leaves that need arithmetic or records.
USE ZenonT(4), SMTT(15)

\* A result that the caller has not received, and a racer it waits for.
Queued(r) == \E i \in 1..Len(results) : results[i] = r
Live(r) == race[r].state \in {"trying", "connected", "error"}
Out(r) == Live(r) \/ Queued(r)

\* What a racer has to show for itself.
RacerInv(r) ==
  /\ race[r].state \in {"off", "trying", "error", "sentError"} => conns[r] = "none"
  /\ race[r].state = "connected" => conns[r] = "open"
  /\ race[r].state = "sent" /\ ~Solo => conns[r] # "none"
  /\ Queued(r) => race[r].state \in {"sent", "sentError"} /\ conns[r] \in {"none", "open"}
  /\ race[r].state = "trying" => /\ race[r].at \in List(r)
                                 /\ now <= race[r].deadline /\ race[r].deadline <= DialBudget

\* No result is sent twice, and a single family does not race.
Shape ==
  /\ race["primary"].state # "off"
  /\ Len(results) = 2 => results[1] # results[2]
  /\ Solo => race["fallback"].state = "off" /\ results = <<>> /\ ~timer
  /\ reaper => main # "racing"

\* While the loop runs, pending is the number of racers that are out, and a
\* connection is either on its way to the loop or not there.
Racing ==
  main = "racing" =>
    /\ \A r \in Racer : /\ conns[r] \in {"none", "open"}
                        /\ race[r].state = "sent" => Queued(r)
    /\ pending = (IF Out("primary") THEN 1 ELSE 0) + (IF Out("fallback") THEN 1 ELSE 0)
    /\ pending > 0

IInv ==
  TypeOK /\ Shape /\ Racing /\ OneWinner /\ WithinBudget /\ \A r \in Racer : RacerInv(r)

\* The addresses up to the one that is being tried have had their turn, and
\* there is time for the others.
TurnInv(r) ==
  /\ race[r].state = "trying" =>
       /\ \A q \in List(r) : q <= race[r].at => q \in tried
       /\ DialBudget - race[r].deadline >= (Cardinality(From(r, race[r].at)) - 1) * MinAttemptTimeout
  /\ ~gone /\ main = "racing" /\ race[r].state \in {"error", "sentError"} => List(r) \subseteq tried

Turns ==
  /\ tried \subseteq List("primary") \cup List("fallback")
  /\ \A r \in Racer : TurnInv(r)
  /\ timer => now <= FallbackDelay
  /\ race["fallback"].state = "off" /\ main = "racing" /\ ~Solo => timer
  /\ FailureMeansAllTried

-----------------------------------------------------------------------------
(* Numbers *)

\* A set of natural numbers that is not empty has a least element.
LEMMA FirstIsLeast ==
  ASSUME NEW S \in SUBSET Nat, S # {}
  PROVE  First(S) \in S /\ \A q \in S : First(S) <= q
<1>1. \E x \in S : \A y \in S : ~(<<y, x>> \in OpToRel(<, Nat))
  BY NatLessThanWellFounded, WFMin
<1>2. PICK x \in S : \A y \in S : ~(<<y, x>> \in OpToRel(<, Nat))
  BY <1>1
<1>3. ASSUME NEW y \in S PROVE x <= y
  <2>1. y < x => <<y, x>> \in OpToRel(<, Nat)
    BY DEF OpToRel
  <2>2. ~(y < x)
    BY <1>2, <2>1, Zenon
  <2> QED BY <2>2
<1> QED BY <1>3 DEF First

\* And a greatest one, if it is bounded.
LEMMA HasGreatest ==
  ASSUME NEW n \in Nat, NEW S \in SUBSET (1..n), S # {}
  PROVE  \E x \in S : \A y \in S : y <= x
<1> DEFINE T == {n - x : x \in S}
<1>1. T \in SUBSET Nat /\ T # {}
  <2>1. ASSUME NEW x \in S PROVE n - x \in Nat
    OBVIOUS
  <2> QED BY <2>1
<1>2. PICK x \in S : First(T) = n - x
  BY <1>1, FirstIsLeast
<1>3. ASSUME NEW y \in S PROVE y <= x
  <2>1. n - x <= n - y
    BY <1>1, <1>2, FirstIsLeast
  <2> QED BY <2>1
<1> QED BY <1>3

\* The share of one of k attempts is enough for it, and leaves enough for the
\* others.
LEMMA EnoughForAll ==
  ASSUME NEW rest \in Nat, NEW k \in Nat \ {0}, NEW m \in Nat, rest >= k * m
  PROVE  /\ rest \div k \in Nat /\ m <= rest \div k /\ rest \div k <= rest
         /\ rest - rest \div k >= (k - 1) * m
<1> DEFINE q == rest \div k
<1>1. q \in Int /\ k * q <= rest /\ rest < k * q + k
  OBVIOUS
<1> HIDE DEF q
<1>2. q >= m
  <2> SUFFICES ASSUME q + 1 <= m PROVE FALSE
    BY <1>1
  <2>1. k * (q + 1) <= k * m
    BY <1>1
  <2>2. k * (q + 1) = k * q + k
    BY <1>1
  <2>3. k * m \in Int /\ k * q \in Int
    BY <1>1
  <2> QED BY <1>1, <2>1, <2>2, <2>3
<1>3. (k - 1) * q >= (k - 1) * m
  BY <1>1, <1>2
<1>4. k * q = (k - 1) * q + q
  BY <1>1
<1>5. (k - 1) * q \in Nat /\ (k - 1) * m \in Nat /\ q \in Nat
  BY <1>1, <1>2
<1>6. q <= rest /\ rest - q >= (k - 1) * m
  BY <1>1, <1>3, <1>4, <1>5
<1> QED BY <1>2, <1>5, <1>6 DEF q

-----------------------------------------------------------------------------
(* The two lists *)

\* The lists are made of addresses of the destination, no more than
\* maxAddrsPerFamily each, and the first address is in the primary one.
LEMMA Lists ==
  ASSUME addrs \in AddrLists, NEW r \in Racer
  PROVE  /\ DOMAIN addrs \subseteq Nat /\ List(r) \subseteq DOMAIN addrs
         /\ IsFiniteSet(List(r)) /\ Cardinality(List(r)) \in 0..MaxAddrsPerFamily
         /\ List("primary") # {}
<1> DEFINE before(p) == {q \in OfFamily(r) : q < p}
<1>1. /\ addrs \in Seq([v4 : BOOLEAN, id : Nat]) /\ addrs # <<>> /\ MaxAddrsPerFamily \in Nat \ {0}
  BY DialAssumption
<1>2. Len(addrs) \in Nat \ {0} /\ DOMAIN addrs = 1..Len(addrs)
  BY <1>1
<1>3. OfFamily(r) \in SUBSET (1..Len(addrs)) /\ List(r) \in SUBSET OfFamily(r)
  BY <1>2 DEF OfFamily, List
<1>4. IsFiniteSet(1..Len(addrs))
  BY <1>2, FS_Interval
<1>5. IsFiniteSet(OfFamily(r)) /\ IsFiniteSet(List(r)) /\ Cardinality(List(r)) \in Nat
  BY <1>3, <1>4, FS_Subset, FS_CardinalityType
<1>6. List("primary") # {}
  <2>1. 1 \in OfFamily("primary")
    BY <1>2 DEF OfFamily
  <2>2. {q \in OfFamily("primary") : q < 1} = {}
    BY <1>2 DEF OfFamily
  <2>3. Cardinality({q \in OfFamily("primary") : q < 1}) = 0
    BY <2>2, FS_EmptySet
  <2> QED BY <1>1, <2>1, <2>3 DEF List
<1>7. Cardinality(List(r)) <= MaxAddrsPerFamily
  <2>1. CASE List(r) = {}
    BY <1>1, <2>1, FS_EmptySet
  <2>2. CASE List(r) # {}
    <3>1. PICK x \in List(r) : \A y \in List(r) : y <= x
      BY <1>2, <1>3, <2>2, HasGreatest
    <3>2. List(r) \ {x} \in SUBSET before(x)
      BY <1>2, <1>3, <3>1
    <3>3. IsFiniteSet(before(x)) /\ Cardinality(before(x)) \in Nat
      <4>1. before(x) \in SUBSET OfFamily(r)
        OBVIOUS
      <4> QED BY <1>5, <4>1, FS_Subset, FS_CardinalityType
    <3>4. Cardinality(before(x)) < MaxAddrsPerFamily
      BY <3>1 DEF List
    <3> HIDE DEF before
    <3>5. Cardinality(List(r) \ {x}) <= Cardinality(before(x))
      BY <3>2, <3>3, FS_Subset
    <3>6. Cardinality(List(r) \ {x}) = Cardinality(List(r)) - 1
      BY <1>5, <3>1, FS_RemoveElement
    <3> QED BY <1>1, <1>5, <3>3, <3>4, <3>5, <3>6
  <2> QED BY <2>1, <2>2
<1> QED BY <1>1, <1>2, <1>3, <1>5, <1>6, <1>7

\* The list from its first address on is the whole list.
LEMMA FromFirst ==
  ASSUME addrs \in AddrLists, NEW r \in Racer, List(r) # {}
  PROVE  First(List(r)) \in List(r) /\ From(r, First(List(r))) = List(r)
<1>1. List(r) \in SUBSET Nat
  BY Lists
<1>2. First(List(r)) \in List(r) /\ \A q \in List(r) : First(List(r)) <= q
  BY <1>1, FirstIsLeast
<1> QED BY <1>1, <1>2 DEF From

\* And from the next address on, it is one shorter.
LEMMA FromNext ==
  ASSUME addrs \in AddrLists, NEW r \in Racer, NEW p \in List(r), After(r, p) # {}
  PROVE  /\ First(After(r, p)) \in List(r) /\ First(After(r, p)) > p
         /\ From(r, First(After(r, p))) = From(r, p) \ {p}
         /\ \A q \in List(r) : q <= First(After(r, p)) => q <= p \/ q = First(After(r, p))
<1>1. List(r) \in SUBSET Nat /\ After(r, p) \in SUBSET Nat
  BY Lists DEF After
<1>2. First(After(r, p)) \in After(r, p) /\ \A q \in After(r, p) : First(After(r, p)) <= q
  BY <1>1, FirstIsLeast
<1> QED BY <1>1, <1>2 DEF From, After

\* How many attempts a list has left.
LEMMA FromCount ==
  ASSUME addrs \in AddrLists, NEW r \in Racer, NEW p \in List(r)
  PROVE  /\ IsFiniteSet(From(r, p)) /\ p \in From(r, p)
         /\ Cardinality(From(r, p)) \in 1..MaxAddrsPerFamily
         /\ Cardinality(From(r, p) \ {p}) = Cardinality(From(r, p)) - 1
         /\ After(r, p) = {} <=> Cardinality(From(r, p)) = 1
<1>1. /\ List(r) \in SUBSET Nat /\ IsFiniteSet(List(r))
      /\ Cardinality(List(r)) \in 0..MaxAddrsPerFamily /\ MaxAddrsPerFamily \in Nat
  BY Lists, DialAssumption
<1>2. p \in From(r, p) /\ From(r, p) \in SUBSET List(r) /\ After(r, p) = From(r, p) \ {p}
  BY <1>1 DEF From, After
<1>3. IsFiniteSet(From(r, p)) /\ Cardinality(From(r, p)) <= Cardinality(List(r))
  BY <1>1, <1>2, FS_Subset
<1>4. Cardinality(From(r, p)) \in Nat
  BY <1>3, FS_CardinalityType
<1>5. /\ IsFiniteSet(From(r, p) \ {p})
      /\ Cardinality(From(r, p) \ {p}) = Cardinality(From(r, p)) - 1
  BY <1>2, <1>3, FS_RemoveElement
<1>6. /\ Cardinality(From(r, p) \ {p}) \in Nat
      /\ Cardinality(From(r, p) \ {p}) = 0 <=> From(r, p) \ {p} = {}
  BY <1>5, FS_CardinalityType, FS_EmptySet
<1> QED BY <1>1, <1>2, <1>3, <1>4, <1>5, <1>6

-----------------------------------------------------------------------------
(* The deadline of an attempt *)

\* An attempt ends within the budget.
LEMMA DeadlineBounds ==
  ASSUME addrs \in AddrLists, NEW r \in Racer, NEW p \in List(r), now \in Nat, now <= DialBudget
  PROVE  /\ AttemptDeadline(r, p) \in Nat
         /\ now <= AttemptDeadline(r, p) /\ AttemptDeadline(r, p) <= DialBudget
<1> DEFINE k == Cardinality(From(r, p))
           rest == DialBudget - now
           share == rest \div k
           limit == now + (IF share > MinAttemptTimeout THEN share ELSE MinAttemptTimeout)
<1>0. k \in 1..MaxAddrsPerFamily
  BY FromCount
<1>1. k \in Nat \ {0} /\ DialBudget \in Nat /\ MinAttemptTimeout \in Nat
  BY <1>0, DialAssumption
<1>2. rest \in Nat
  BY <1>1
<1> HIDE DEF k, rest
<1>3. share \in Nat
  BY <1>1, <1>2
<1> HIDE DEF share
<1>4. limit \in Nat /\ now <= limit
  BY <1>1, <1>3
<1>5. AttemptDeadline(r, p) = IF limit < DialBudget THEN limit ELSE DialBudget
  BY DEF AttemptDeadline, limit, share, rest, k
<1> HIDE DEF limit
<1> QED BY <1>1, <1>4, <1>5

\* An attempt that has the minimum for itself and all that follow it leaves
\* the minimum for each of those.
LEMMA DeadlineRoom ==
  ASSUME addrs \in AddrLists, NEW r \in Racer, NEW p \in List(r), now \in Nat, now <= DialBudget,
         DialBudget - now >= Cardinality(From(r, p)) * MinAttemptTimeout
  PROVE  DialBudget - AttemptDeadline(r, p) >= (Cardinality(From(r, p)) - 1) * MinAttemptTimeout
<1> DEFINE k == Cardinality(From(r, p))
           m == MinAttemptTimeout
           rest == DialBudget - now
           share == rest \div k
           limit == now + (IF share > m THEN share ELSE m)
<1>0. k \in 1..MaxAddrsPerFamily
  BY FromCount
<1>1. k \in Nat \ {0} /\ DialBudget \in Nat /\ m \in Nat
  BY <1>0, DialAssumption
<1>2. rest \in Nat /\ rest >= k * m
  BY <1>1
<1>3. AttemptDeadline(r, p) = IF limit < DialBudget THEN limit ELSE DialBudget
  BY DEF AttemptDeadline
<1> HIDE DEF k, m
<1>4. share \in Nat /\ m <= share /\ share <= rest /\ rest - share >= (k - 1) * m
  BY <1>1, <1>2, EnoughForAll
<1> HIDE DEF share
<1>5. limit = now + share /\ limit <= DialBudget
  BY <1>1, <1>4
<1>6. AttemptDeadline(r, p) = now + share
  BY <1>1, <1>3, <1>4, <1>5
<1>7. DialBudget - AttemptDeadline(r, p) = rest - share
  BY <1>1, <1>4, <1>6
<1> QED BY <1>4, <1>7 DEF k, m

-----------------------------------------------------------------------------
(* The results channel *)

\* results <- result.
LEMMA QueuedSend ==
  ASSUME results \in Seq(Racer), NEW r \in Racer, ~Queued(r), Len(results) < 2,
         results' = Append(results, r)
  PROVE  /\ results' \in Seq(Racer) /\ Len(results') <= 2 /\ results' # <<>>
         /\ Len(results') = 2 => results'[1] # results'[2]
         /\ \A s \in Racer : Queued(s)' <=> Queued(s) \/ s = r
<1>1. /\ results' \in Seq(Racer) /\ Len(results') = Len(results) + 1 /\ Len(results) \in Nat
      /\ results'[Len(results) + 1] = r
      /\ \A i \in 1..Len(results) : results'[i] = results[i]
  OBVIOUS
<1>2. ASSUME NEW s \in Racer PROVE Queued(s)' <=> Queued(s) \/ s = r
  BY <1>1 DEF Queued
<1>3. Len(results') = 2 => results'[1] # results'[2]
  BY <1>1 DEF Queued
<1> QED BY <1>1, <1>2, <1>3

\* What is in a channel that is not empty, and in one with a single result.
LEMMA Channel ==
  ASSUME NEW q \in Seq(Racer)
  PROVE  /\ q # <<>> /\ Len(q) <= 2 => Len(q) \in {1, 2}
         /\ Len(q) = 1 => \A s : (\E i \in 1..Len(q) : q[i] = s) <=> s = q[1]
<1>1. q # <<>> => Len(q) \in Nat \ {0}
  OBVIOUS
<1>2. Len(q) = 1 => \A s : (\E i \in 1..Len(q) : q[i] = s) <=> s = q[1]
  OBVIOUS
<1>3. \A n \in Nat \ {0} : n <= 2 => n \in {1, 2}
  OBVIOUS
<1>4. q # <<>> /\ Len(q) <= 2 => Len(q) \in {1, 2}
  BY <1>1, <1>3, Zenon
<1> QED BY <1>2, <1>4, Zenon

\* <-results.
LEMMA QueuedReceive ==
  ASSUME results \in Seq(Racer), results # <<>>, Len(results) <= 2,
         Len(results) = 2 => results[1] # results[2], results' = Tail(results)
  PROVE  /\ results' \in Seq(Racer) /\ Len(results') <= 1
         /\ Head(results) \in Racer /\ Queued(Head(results))
         /\ \A s \in Racer : Queued(s)' <=> Queued(s) /\ s # Head(results)
<1>1. /\ results' \in Seq(Racer) /\ Len(results') = Len(results) - 1 /\ Len(results) \in {1, 2}
      /\ Head(results) = results[1] /\ results[1] \in Racer
  <2>1. Len(results) \in {1, 2}
    BY Channel
  <2>2. results' \in Seq(Racer) /\ Len(results') = Len(results) - 1
    OBVIOUS
  <2>3. results[1] \in Racer
    BY <2>1
  <2>4. Head(results) = results[1]
    OBVIOUS
  <2> QED BY <2>1, <2>2, <2>3, <2>4
<1>2. ASSUME NEW s \in Racer PROVE Queued(s)' <=> Queued(s) /\ s # Head(results)
  <2>1. CASE Len(results) = 1
    BY <1>1, <2>1 DEF Queued
  <2>2. CASE Len(results) = 2
    <3>1. results'[1] = results[2]
      BY <2>2
    <3>2. Queued(s) <=> s = results[1] \/ s = results[2]
      BY <2>2 DEF Queued
    <3>3. Queued(s)' <=> s = results'[1]
      <4>1. Len(results') = 1
        BY <1>1, <2>2
      <4>2. results' \in Seq(Racer)
        BY <1>1
      <4>3. \A u : (\E i \in 1..Len(results') : results'[i] = u) <=> u = results'[1]
        BY <4>1, <4>2, Channel, Zenon
      <4> QED BY <4>3 DEF Queued
    <3> QED BY <1>1, <2>2, <3>1, <3>2, <3>3
  <2> QED BY <1>1, <2>1, <2>2
<1> QED BY <1>1, <1>2 DEF Queued

-----------------------------------------------------------------------------
(* One step per action: the race *)

RaceRec == [state : {"off", "trying", "connected", "error", "sent", "sentError"},
            at : Nat, deadline : Nat]

\* A racer's record changes, and not the other's.
LEMMA RaceStep ==
  ASSUME race \in [Racer -> RaceRec], NEW r \in Racer, NEW q \in RaceRec,
         race' = [race EXCEPT ![r] = q]
  PROVE  race' \in [Racer -> RaceRec] /\ race'[r] = q /\ \A s \in Racer : s # r => race'[s] = race[s]
  OBVIOUS

\* A racer's connection changes, and not the other's.
LEMMA ConnStep ==
  ASSUME NEW S, conns \in [Racer -> S], NEW r \in Racer, NEW c \in S, conns' = [conns EXCEPT ![r] = c]
  PROVE  conns' \in [Racer -> S] /\ conns'[r] = c /\ \A s \in Racer : s # r => conns'[s] = conns[s]
  OBVIOUS

\* The lists depend on the addresses alone.
LEMMA SameLists ==
  ASSUME addrs' = addrs, NEW r, NEW p
  PROVE  List(r)' = List(r) /\ From(r, p)' = From(r, p) /\ After(r, p)' = After(r, p) /\ Solo' = Solo
  BY DEF List, OfFamily, From, After, Solo

\* An attempt can be made of each address of a list.
LEMMA AttemptType ==
  ASSUME TypeOK, WithinBudget, NEW r \in Racer, NEW p \in List(r)
  PROVE  /\ Attempt(r, p) \in RaceRec /\ Attempt(r, p).state = "trying" /\ Attempt(r, p).at = p
         /\ now <= Attempt(r, p).deadline /\ Attempt(r, p).deadline <= DialBudget
<1>1. p \in Nat /\ addrs \in AddrLists /\ now \in Nat /\ now <= DialBudget
  BY Lists DEF TypeOK, WithinBudget
<1>2. /\ AttemptDeadline(r, p) \in Nat
      /\ now <= AttemptDeadline(r, p) /\ AttemptDeadline(r, p) <= DialBudget
  BY <1>1, DeadlineBounds
<1> QED BY <1>1, <1>2 DEF Attempt, RaceRec

\* A racer that goes on, connects, or gives up, before it sends its result.
LEMMA RacerMoves ==
  ASSUME IInv, NEW r \in Racer, race[r].state = "trying", NEW q \in RaceRec,
         race' = [race EXCEPT ![r] = q], q.state \in {"trying", "connected", "error"},
         NEW c \in {"none", "open"}, conns' = [conns EXCEPT ![r] = c],
         q.state = "connected" <=> c = "open",
         q.state = "trying" => q.at \in List(r) /\ now <= q.deadline /\ q.deadline <= DialBudget,
         UNCHANGED <<now, addrs, gone, main, pending, timer, results, reaper>>,
         tried' \subseteq DOMAIN addrs
  PROVE  IInv'
<1>0. /\ TypeOK /\ Shape /\ Racing /\ OneWinner /\ WithinBudget
      /\ race \in [Racer -> RaceRec] /\ conns \in [Racer -> {"none", "open", "handed", "closed"}]
      /\ conns[r] = "none"
  BY DEF IInv, TypeOK, RaceRec, RacerInv
<1>1. race' \in [Racer -> RaceRec] /\ race'[r] = q /\ \A s \in Racer : s # r => race'[s] = race[s]
  BY <1>0, RaceStep
<1>2. /\ conns' \in [Racer -> {"none", "open", "handed", "closed"}] /\ conns'[r] = c
      /\ \A s \in Racer : s # r => conns'[s] = conns[s]
  BY <1>0
<1>3. Solo' = Solo /\ \A s : List(s)' = List(s)
  BY SameLists
<1>4. TypeOK' /\ WithinBudget'
  BY <1>0, <1>1, <1>2 DEF TypeOK, RaceRec, WithinBudget
<1>5. Shape'
  BY <1>0, <1>1, <1>3 DEF Shape, Racer
<1>6. ASSUME NEW s \in Racer PROVE (Queued(s)' <=> Queued(s)) /\ (Out(s)' <=> Out(s))
  BY <1>1 DEF Queued, Out, Live
<1>7. Racing'
  BY <1>0, <1>1, <1>2, <1>6 DEF Racing, Racer
<1>8. OneWinner'
  BY <1>0, <1>2 DEF OneWinner, Racer
<1>9. ASSUME NEW s \in Racer PROVE RacerInv(s)'
  <2>1. CASE s = r
    <3>1. ~Queued(r)
      BY DEF IInv, RacerInv
    <3> QED BY <1>1, <1>2, <1>3, <1>6, <2>1, <3>1 DEF RacerInv
  <2>2. CASE s # r
    BY <1>1, <1>2, <1>3, <1>6, <2>2 DEF IInv, RacerInv
  <2> QED BY <2>1, <2>2
<1> QED BY <1>4, <1>5, <1>7, <1>8, <1>9 DEF IInv

\* dialSerial: an attempt succeeds.
LEMMA ConnectStep ==
  ASSUME IInv, NEW r \in Racer, Connect(r)
  PROVE  IInv'
<1> DEFINE q == [race[r] EXCEPT !.state = "connected"]
<1>1. race \in [Racer -> RaceRec] /\ tried' \subseteq DOMAIN addrs
  BY DEF IInv, TypeOK, RaceRec, Connect
<1>2. race' = [race EXCEPT ![r] = q] /\ q \in RaceRec /\ q.state = "connected"
  BY <1>1 DEF Connect, RaceRec
<1> HIDE DEF q
<1> QED BY <1>1, <1>2, RacerMoves DEF Connect

\* dialSerial: an attempt fails.
LEMMA FailStep ==
  ASSUME IInv, NEW r \in Racer, Fail(r)
  PROVE  IInv'
<1>0. /\ TypeOK /\ WithinBudget /\ addrs \in AddrLists /\ race[r].state = "trying"
      /\ race[r].at \in List(r) /\ tried \subseteq DOMAIN addrs /\ conns[r] = "none"
      /\ conns \in [Racer -> {"none", "open", "handed", "closed"}]
      /\ UNCHANGED <<now, addrs, gone, main, pending, timer, results, reaper, conns>>
  BY DEF IInv, TypeOK, RacerInv, Fail
<1>1. conns' = [conns EXCEPT ![r] = "none"]
  BY <1>0
<1>2. CASE Exhausted(r)
  <2> DEFINE q == [Idle EXCEPT !.state = "error"]
  <2>1. race' = [race EXCEPT ![r] = q] /\ UNCHANGED tried
    BY <1>2 DEF Fail
  <2>2. q \in RaceRec /\ q.state = "error"
    BY DEF Idle, RaceRec
  <2> HIDE DEF q
  <2> QED BY <1>0, <1>1, <2>1, <2>2, RacerMoves
<1>3. CASE ~Exhausted(r)
  <2> DEFINE p == First(After(r, race[r].at))
             q == Attempt(r, p)
  <2>1. race' = [race EXCEPT ![r] = q] /\ tried' = tried \cup {p}
    BY <1>3 DEF Fail
  <2>2. p \in List(r)
    BY <1>0, <1>3, FromNext DEF Exhausted
  <2>3. List(r) \subseteq DOMAIN addrs
    BY <1>0, Lists
  <2> HIDE DEF p
  <2>4. /\ q \in RaceRec /\ q.state = "trying" /\ q.at = p
        /\ now <= q.deadline /\ q.deadline <= DialBudget
    BY <1>0, <2>2, AttemptType
  <2> HIDE DEF q
  <2>5. tried' \subseteq DOMAIN addrs
    BY <1>0, <2>1, <2>2, <2>3
  <2>6. "none" \in {"none", "open"} /\ (q.state = "connected" <=> "none" = "open")
    BY <2>4
  <2> QED BY <1>0, <1>1, <2>1, <2>2, <2>4, <2>5, <2>6, RacerMoves
<1> QED BY <1>2, <1>3

\* results <- result{c, err}: each racer sends once.
LEMMA SendStep ==
  ASSUME IInv, NEW r \in Racer, Send(r)
  PROVE  IInv'
<1> DEFINE st == IF race[r].state = "error" THEN "sentError" ELSE "sent"
           q == [race[r] EXCEPT !.state = st]
<1>0. /\ TypeOK /\ Shape /\ Racing /\ OneWinner /\ WithinBudget /\ RacerInv(r)
      /\ race \in [Racer -> RaceRec] /\ results \in Seq(Racer)
  BY DEF IInv, TypeOK, RaceRec
<1>1. /\ ~Solo /\ race[r].state \in {"connected", "error"} /\ Len(results) < 2
      /\ results' = Append(results, r)
      /\ UNCHANGED <<now, addrs, gone, main, pending, timer, reaper, conns, tried>>
  BY DEF Send
<1>2. race' = [race EXCEPT ![r] = q]
  BY <1>0 DEF Send
<1>3. st \in {"sent", "sentError"} /\ (st = "sentError" <=> race[r].state = "error")
  BY <1>1
<1> HIDE DEF st
<1>4. q \in RaceRec /\ q.state = st
  BY <1>0, <1>3 DEF RaceRec
<1> HIDE DEF q
<1>5. race' \in [Racer -> RaceRec] /\ race'[r] = q /\ \A s \in Racer : s # r => race'[s] = race[s]
  BY <1>0, <1>2, <1>4, RaceStep
<1>6. ~Queued(r)
  BY <1>0, <1>1 DEF RacerInv
<1>7. /\ results' \in Seq(Racer) /\ Len(results') <= 2 /\ results' # <<>>
      /\ Len(results') = 2 => results'[1] # results'[2]
      /\ \A s \in Racer : Queued(s)' <=> Queued(s) \/ s = r
  BY <1>0, <1>1, <1>6, QueuedSend
<1>8. Solo' = Solo /\ \A s : List(s)' = List(s)
  BY <1>1, SameLists
<1>9. TypeOK' /\ WithinBudget'
  BY <1>0, <1>1, <1>5, <1>7 DEF TypeOK, RaceRec, WithinBudget
<1>10. Shape'
  BY <1>0, <1>1, <1>3, <1>4, <1>5, <1>7, <1>8 DEF Shape, Racer
<1>11. ASSUME NEW s \in Racer PROVE Out(s)' <=> Out(s)
  BY <1>1, <1>3, <1>4, <1>5, <1>7 DEF Out, Live
<1>12. Racing'
  BY <1>0, <1>1, <1>3, <1>4, <1>5, <1>7, <1>11 DEF Racing, Racer
<1>13. OneWinner'
  BY <1>0, <1>1 DEF OneWinner
<1>14. ASSUME NEW s \in Racer PROVE RacerInv(s)'
  <2>1. CASE s = r
    BY <1>0, <1>1, <1>3, <1>4, <1>5, <1>7, <1>8, <2>1 DEF RacerInv
  <2>2. CASE s # r
    BY <1>1, <1>5, <1>7, <1>8, <2>2 DEF IInv, RacerInv
  <2> QED BY <2>1, <2>2
<1> QED BY <1>9, <1>10, <1>12, <1>13, <1>14 DEF IInv

-----------------------------------------------------------------------------
(* One step per action: the caller, the reaper and the clock *)

\* dialParallel with one family returns.
LEMMA SoloReturnsStep ==
  ASSUME IInv, SoloReturns
  PROVE  IInv'
<1> DEFINE q == [race["primary"] EXCEPT !.state = "sent"]
           c == IF race["primary"].state = "connected" THEN "handed" ELSE conns["primary"]
<1>0. /\ TypeOK /\ Shape /\ Racing /\ OneWinner /\ WithinBudget /\ "primary" \in Racer
      /\ race \in [Racer -> RaceRec] /\ conns \in [Racer -> {"none", "open", "handed", "closed"}]
      /\ \A r \in Racer : RacerInv(r)
  BY DEF IInv, TypeOK, RaceRec, Racer
<1>1. /\ Solo /\ main = "racing" /\ race["primary"].state \in {"connected", "error"}
      /\ main' = (IF race["primary"].state = "connected" THEN "ok" ELSE "failed") /\ pending' = 0
      /\ UNCHANGED <<now, addrs, gone, timer, results, reaper, tried>>
  BY DEF SoloReturns
<1>2. race' = [race EXCEPT !["primary"] = q] /\ q \in RaceRec /\ q.state = "sent"
  BY <1>0 DEF SoloReturns, RaceRec
<1>3. /\ conns' = [conns EXCEPT !["primary"] = c] /\ c \in {"none", "open", "handed", "closed"}
      /\ c = "handed" <=> race["primary"].state = "connected"
  BY <1>0, <1>1 DEF SoloReturns, Racing
<1> HIDE DEF q, c
<1>4. /\ race' \in [Racer -> RaceRec] /\ race'["primary"] = q
      /\ \A s \in Racer : s # "primary" => race'[s] = race[s]
  BY <1>0, <1>2, RaceStep
<1>5. /\ conns' \in [Racer -> {"none", "open", "handed", "closed"}] /\ conns'["primary"] = c
      /\ \A s \in Racer : s # "primary" => conns'[s] = conns[s]
  BY <1>0, <1>3, ConnStep
<1>6. Solo' = Solo /\ \A s : List(s)' = List(s)
  BY <1>1, SameLists
<1>7. TypeOK' /\ WithinBudget'
  BY <1>0, <1>1, <1>4, <1>5 DEF TypeOK, RaceRec, WithinBudget
<1>8. Shape' /\ Racing'
  BY <1>0, <1>1, <1>2, <1>4, <1>6 DEF Shape, Racing, Racer
<1>9. OneWinner'
  BY <1>0, <1>1, <1>3, <1>5 DEF OneWinner, Racing, Racer
<1>10. ASSUME NEW s \in Racer PROVE RacerInv(s)'
  <2>1. Queued(s)' <=> Queued(s)
    BY <1>1 DEF Queued
  <2>2. CASE s = "primary"
    BY <1>0, <1>1, <1>2, <1>4, <1>6, <2>1, <2>2 DEF RacerInv
  <2>3. CASE s # "primary"
    BY <1>0, <1>1, <1>4, <1>5, <1>6, <2>1, <2>3 DEF RacerInv
  <2> QED BY <2>2, <2>3
<1> QED BY <1>7, <1>8, <1>9, <1>10 DEF IInv

\* startFallback, the first time.
LEMMA FallbackStarts ==
  ASSUME IInv, ~Solo, NEW n, StartFallback(n), Startable, UNCHANGED <<addrs, now>>
  PROVE  /\ pending' = n + 1 /\ tried' = tried \cup {First(List("fallback"))}
         /\ First(List("fallback")) \in List("fallback") /\ tried' \subseteq DOMAIN addrs
         /\ race' \in [Racer -> RaceRec] /\ race'["primary"] = race["primary"]
         /\ race'["fallback"] = Attempt("fallback", First(List("fallback")))
         /\ race'["fallback"].state = "trying"
         /\ race'["fallback"].at = First(List("fallback"))
         /\ now <= race'["fallback"].deadline /\ race'["fallback"].deadline <= DialBudget
<1>1. /\ TypeOK /\ WithinBudget /\ race \in [Racer -> RaceRec] /\ addrs \in AddrLists
      /\ tried \subseteq DOMAIN addrs /\ "fallback" \in Racer /\ "primary" \in Racer
  BY DEF IInv, TypeOK, RaceRec, Racer
<1>2. First(List("fallback")) \in List("fallback")
  BY <1>1, FromFirst DEF Solo
<1>3. List("fallback") \subseteq DOMAIN addrs
  BY <1>1, Lists
<1> DEFINE p == First(List("fallback"))
           q == Attempt("fallback", p)
<1>4. /\ pending' = n + 1 /\ race' = [race EXCEPT !["fallback"] = q] /\ tried' = tried \cup {p}
  BY DEF StartFallback
<1> HIDE DEF p
<1>5. /\ q \in RaceRec /\ q.state = "trying" /\ q.at = p
      /\ now <= q.deadline /\ q.deadline <= DialBudget
  BY <1>1, <1>2, AttemptType DEF p
<1> HIDE DEF q
<1>6. race' \in [Racer -> RaceRec] /\ race'["fallback"] = q /\ race'["primary"] = race["primary"]
  BY <1>1, <1>4, <1>5, RaceStep
<1> QED BY <1>1, <1>2, <1>3, <1>4, <1>5, <1>6 DEF p, q

\* The fallback timer fires.
LEMMA TimerFiresStep ==
  ASSUME IInv, TimerFires
  PROVE  IInv'
<1>0. /\ TypeOK /\ Shape /\ Racing /\ OneWinner /\ WithinBudget
      /\ RacerInv("primary") /\ RacerInv("fallback")
  BY DEF IInv, Racer
<1>1. /\ main = "racing" /\ timer /\ timer' = FALSE /\ StartFallback(pending)
      /\ UNCHANGED <<now, addrs, gone, main, results, reaper, conns>>
  BY DEF TimerFires
<1>2. ~Solo /\ Solo' = Solo /\ \A s : List(s)' = List(s)
  BY <1>0, <1>1, SameLists DEF Shape
<1>3. /\ Queued("primary")' <=> Queued("primary")
      /\ Queued("fallback")' <=> Queued("fallback")
  BY <1>1 DEF Queued
<1>4. CASE Startable
  <2>1. /\ pending' = pending + 1 /\ tried' \subseteq DOMAIN addrs
        /\ First(List("fallback")) \in List("fallback")
        /\ race' \in [Racer -> RaceRec] /\ race'["primary"] = race["primary"]
        /\ race'["fallback"].state = "trying"
        /\ race'["fallback"].at = First(List("fallback"))
        /\ now <= race'["fallback"].deadline /\ race'["fallback"].deadline <= DialBudget
    BY <1>1, <1>2, <1>4, FallbackStarts
  <2>2. race["fallback"].state = "off" /\ conns["fallback"] = "none" /\ ~Queued("fallback")
    BY <1>0, <1>4 DEF Startable, RacerInv
  <2>3. /\ Out("primary")' <=> Out("primary")
        /\ Out("fallback")' /\ ~Out("fallback")
    BY <1>3, <2>1, <2>2 DEF Out, Live
  <2>4. pending = (IF Out("primary") THEN 1 ELSE 0) /\ pending > 0
    BY <1>0, <1>1, <2>3 DEF Racing
  <2>5. pending = 1 /\ pending' = 2 /\ pending' \in 0..2 /\ Out("primary")
    BY <2>1, <2>4
  <2>6. TypeOK' /\ WithinBudget'
    <3>1. timer' \in BOOLEAN
      BY <1>1
    <3> QED BY <1>0, <1>1, <2>1, <2>5, <3>1 DEF TypeOK, RaceRec, WithinBudget
  <2>7. Shape'
    BY <1>0, <1>1, <1>2, <2>1 DEF Shape
  <2>8. Racing'
    BY <1>0, <1>1, <1>3, <2>1, <2>3, <2>5 DEF Racing, Racer
  <2>9. OneWinner'
    BY <1>0, <1>1 DEF OneWinner
  <2>10. RacerInv("primary")'
    BY <1>0, <1>1, <1>2, <1>3, <2>1 DEF RacerInv
  <2>11. RacerInv("fallback")'
    BY <1>1, <1>2, <1>3, <2>1, <2>2 DEF RacerInv
  <2> QED BY <2>6, <2>7, <2>8, <2>9, <2>10, <2>11 DEF IInv, Racer
<1>5. CASE ~Startable
  <2>1. UNCHANGED <<pending, race, tried>>
    BY <1>1, <1>5 DEF StartFallback
  <2>2. /\ Out("primary")' <=> Out("primary")
        /\ Out("fallback")' <=> Out("fallback")
    BY <1>3, <2>1 DEF Out, Live
  <2>3. TypeOK' /\ WithinBudget' /\ OneWinner'
    BY <1>0, <1>1, <2>1 DEF TypeOK, WithinBudget, OneWinner
  <2>4. Shape' /\ Racing'
    BY <1>0, <1>1, <1>2, <1>3, <2>1, <2>2 DEF Shape, Racing, Racer
  <2>5. RacerInv("primary")' /\ RacerInv("fallback")'
    BY <1>0, <1>1, <1>2, <1>3, <2>1 DEF RacerInv
  <2> QED BY <2>3, <2>4, <2>5 DEF IInv, Racer
<1> QED BY <1>4, <1>5

\* The loop receives a connection: it is the only one the caller gets.
LEMMA WinStep ==
  ASSUME IInv, Receive, conns[Head(results)] # "none"
  PROVE  IInv'
<1> DEFINE r == Head(results)
<1>0. /\ TypeOK /\ Shape /\ Racing /\ OneWinner /\ WithinBudget
      /\ results \in Seq(Racer) /\ Len(results) <= 2 /\ race \in [Racer -> RaceRec]
      /\ conns \in [Racer -> {"none", "open", "handed", "closed"}]
      /\ \A s \in Racer : RacerInv(s)
  BY DEF IInv, TypeOK, RaceRec
<1>1. /\ main = "racing" /\ results # <<>> /\ results' = Tail(results) /\ main' = "ok"
      /\ conns' = [conns EXCEPT ![r] = "handed"] /\ reaper' = (pending > 1)
      /\ pending' = pending - 1 /\ UNCHANGED <<race, tried, now, addrs, gone, timer>>
  BY DEF Receive, ReaperNeeded
<1>2. /\ results' \in Seq(Racer) /\ Len(results') <= 1 /\ r \in Racer /\ Queued(r)
      /\ \A s \in Racer : Queued(s)' <=> Queued(s) /\ s # r
  BY <1>0, <1>1, QueuedReceive DEF Shape
<1>3. Solo' = Solo /\ ~Solo /\ \A s : List(s)' = List(s)
  BY <1>0, <1>1, SameLists DEF Shape
<1> HIDE DEF r
<1>4. /\ conns' \in [Racer -> {"none", "open", "handed", "closed"}] /\ conns'[r] = "handed"
      /\ \A s \in Racer : s # r => conns'[s] = conns[s]
  BY <1>0, <1>1, <1>2, ConnStep
<1>5. race[r].state = "sent"
  BY <1>0, <1>2 DEF RacerInv, r
<1>6. pending \in 0..2 /\ pending > 0
  BY <1>0, <1>1 DEF TypeOK, Racing
<1>7. pending' \in 0..2 /\ Len(results') <= 2 /\ Len(results') # 2 /\ reaper' \in BOOLEAN
  <2>1. \A n \in Nat : n <= 1 => n <= 2 /\ n # 2
    OBVIOUS
  <2>2. Len(results') \in Nat /\ Len(results') <= 1
    BY <1>2
  <2>3. pending' \in 0..2
    BY <1>1, <1>6
  <2>4. (pending > 1) \in BOOLEAN
    OBVIOUS
  <2>5. reaper' \in BOOLEAN
    BY <1>1, <2>4
  <2> QED BY <2>1, <2>2, <2>3, <2>5, Zenon
<1>8. TypeOK' /\ WithinBudget'
  BY <1>0, <1>1, <1>2, <1>4, <1>7 DEF TypeOK, WithinBudget
<1>9. Shape' /\ Racing'
  BY <1>0, <1>1, <1>3, <1>7 DEF Shape, Racing
<1>10. OneWinner'
  BY <1>0, <1>1, <1>2, <1>4 DEF OneWinner, Racing, Racer
<1>11. ASSUME NEW s \in Racer PROVE RacerInv(s)'
  <2>1. CASE s = r
    BY <1>1, <1>2, <1>3, <1>4, <1>5, <2>1 DEF RacerInv
  <2>2. CASE s # r
    BY <1>0, <1>1, <1>2, <1>3, <1>4, <2>2 DEF RacerInv
  <2> QED BY <2>1, <2>2
<1> QED BY <1>8, <1>9, <1>10, <1>11 DEF IInv

\* A result in the channel that is not a connection is an error.
LEMMA ErrorReceived ==
  ASSUME IInv, Receive, conns[Head(results)] = "none"
  PROVE  /\ Head(results) \in Racer /\ race[Head(results)].state = "sentError"
         /\ conns[Head(results)] = "none" /\ Queued(Head(results)) /\ ~Solo
         /\ results' \in Seq(Racer) /\ Len(results') <= 1
         /\ \A s \in Racer : Queued(s)' <=> Queued(s) /\ s # Head(results)
<1>0. /\ Shape /\ Racing /\ results \in Seq(Racer) /\ Len(results) <= 2
      /\ \A s \in Racer : RacerInv(s)
  BY DEF IInv, TypeOK
<1>1. /\ main = "racing" /\ results # <<>> /\ results' = Tail(results)
  BY DEF Receive
<1>2. /\ results' \in Seq(Racer) /\ Len(results') <= 1
      /\ Head(results) \in Racer /\ Queued(Head(results))
      /\ \A s \in Racer : Queued(s)' <=> Queued(s) /\ s # Head(results)
  BY <1>0, <1>1, QueuedReceive DEF Shape
<1>3. ~Solo
  BY <1>0, <1>1 DEF Shape
<1> DEFINE r == Head(results)
<1> HIDE DEF r
<1>4. r \in Racer /\ conns[r] = "none" /\ Queued(r)
  BY <1>2 DEF r
<1>5. race[r].state = "sentError"
  BY <1>0, <1>3, <1>4 DEF RacerInv
<1> QED BY <1>2, <1>3, <1>4, <1>5 DEF r

\* The loop receives an error.
LEMMA LoseStep ==
  ASSUME IInv, Receive, conns[Head(results)] = "none"
  PROVE  IInv'
<1>0. /\ TypeOK /\ Shape /\ Racing /\ OneWinner /\ WithinBudget
      /\ \A s \in Racer : RacerInv(s)
  BY DEF IInv
<1>1. PICK r \in Racer : r = Head(results)
  BY ErrorReceived
<1>2. /\ race[r].state = "sentError" /\ conns[r] = "none" /\ Queued(r) /\ ~Solo
      /\ results' \in Seq(Racer) /\ Len(results') <= 1
      /\ \A s \in Racer : Queued(s)' <=> Queued(s) /\ s # r
  BY <1>1, ErrorReceived
<1>3. /\ main = "racing" /\ StartFallback(pending - 1)
      /\ main' = (IF pending' = 0 THEN "failed" ELSE "racing")
      /\ UNCHANGED <<conns, reaper, now, addrs, gone, timer>>
  BY <1>1, <1>2 DEF Receive
<1>4. Solo' = Solo /\ \A s : List(s)' = List(s)
  BY <1>3, SameLists
<1>5. Len(results') <= 2 /\ Len(results') # 2
  <2>1. \A n \in Nat : n <= 1 => n <= 2 /\ n # 2
    OBVIOUS
  <2>2. Len(results') \in Nat /\ Len(results') <= 1
    BY <1>2
  <2> QED BY <2>1, <2>2, Zenon
<1>6. OneWinner' /\ WithinBudget'
  BY <1>0, <1>3 DEF OneWinner, WithinBudget
<1>7. pending \in 0..2 /\ pending > 0
  BY <1>0, <1>3 DEF TypeOK, Racing
<1>8. CASE Startable
  <2>1. r = "primary"
    BY <1>2, <1>8 DEF Startable, Racer
  <2>2. /\ pending' = (pending - 1) + 1 /\ tried' \subseteq DOMAIN addrs
        /\ First(List("fallback")) \in List("fallback")
        /\ race' \in [Racer -> RaceRec] /\ race'["primary"] = race["primary"]
        /\ race'["fallback"].state = "trying"
        /\ race'["fallback"].at = First(List("fallback"))
        /\ now <= race'["fallback"].deadline /\ race'["fallback"].deadline <= DialBudget
    BY <1>2, <1>3, <1>8, FallbackStarts
  <2>3. race["fallback"].state = "off" /\ conns["fallback"] = "none" /\ ~Queued("fallback")
    BY <1>0, <1>8 DEF Startable, RacerInv, Racer
  <2>4. /\ Out("primary") /\ ~Out("fallback")
        /\ ~Out("primary")' /\ Out("fallback")' /\ ~Queued("fallback")' /\ ~Queued("primary")'
    BY <1>2, <2>1, <2>2, <2>3 DEF Out, Live, Racer
  <2>5. pending = 1 /\ pending' = 1 /\ pending' \in 0..2
    BY <1>0, <1>3, <1>7, <2>2, <2>4 DEF Racing
  <2>6. main' = "racing"
    BY <1>3, <2>5
  <2>7. TypeOK'
    BY <1>0, <1>2, <1>3, <1>5, <2>2, <2>5, <2>6 DEF TypeOK, RaceRec
  <2>8. Shape'
    BY <1>0, <1>2, <1>3, <1>4, <1>5, <2>2, <2>6 DEF Shape
  <2>9. Racing'
    BY <1>0, <1>2, <1>3, <2>1, <2>2, <2>4, <2>5 DEF Racing, Racer
  <2>10. RacerInv("primary")'
    BY <1>2, <1>3, <2>1, <2>2, <2>4 DEF RacerInv
  <2>11. RacerInv("fallback")'
    BY <1>3, <1>4, <2>2, <2>3, <2>4 DEF RacerInv
  <2> QED BY <1>6, <2>7, <2>8, <2>9, <2>10, <2>11 DEF IInv, Racer
<1>9. CASE ~Startable
  <2>1. pending' = pending - 1 /\ UNCHANGED <<race, tried>>
    BY <1>3, <1>9 DEF StartFallback
  <2>2. pending' \in 0..2 /\ main' \in {"racing", "ok", "failed"}
    BY <1>3, <1>7, <2>1
  <2>3. TypeOK'
    BY <1>0, <1>2, <1>3, <1>5, <2>1, <2>2 DEF TypeOK
  <2>4. Shape'
    BY <1>0, <1>2, <1>3, <1>4, <1>5, <2>1 DEF Shape
  <2>5. /\ Out(r) /\ ~Out(r)'
        /\ \A s \in Racer : s # r => (Out(s)' <=> Out(s))
    BY <1>2, <2>1 DEF Out, Live
  <2>6. Racing'
    <3>1. pending' = (IF Out("primary")' THEN 1 ELSE 0) + (IF Out("fallback")' THEN 1 ELSE 0)
      BY <1>0, <1>3, <2>1, <2>5 DEF Racing, Racer
    <3>2. pending' # 0 => pending' > 0
      BY <2>2
    <3>3. ASSUME NEW s \in Racer
          PROVE  conns'[s] \in {"none", "open"} /\ (race'[s].state = "sent" => Queued(s)')
      BY <1>0, <1>2, <1>3, <2>1 DEF Racing
    <3> QED BY <1>3, <3>1, <3>2, <3>3 DEF Racing
  <2>7. ASSUME NEW s \in Racer PROVE RacerInv(s)'
    BY <1>0, <1>2, <1>3, <1>4, <2>1 DEF RacerInv
  <2> QED BY <1>6, <2>3, <2>4, <2>6, <2>7 DEF IInv
<1> QED BY <1>8, <1>9

\* The reaper closes what the loser established, and never the winner's.
LEMMA ReapStep ==
  ASSUME IInv, Reap
  PROVE  IInv'
<1> DEFINE r == Head(results)
           c == IF conns[r] = "none" THEN conns[r] ELSE "closed"
<1>0. /\ TypeOK /\ Shape /\ OneWinner /\ WithinBudget
      /\ results \in Seq(Racer) /\ Len(results) <= 2
      /\ conns \in [Racer -> {"none", "open", "handed", "closed"}]
      /\ \A s \in Racer : RacerInv(s)
  BY DEF IInv, TypeOK
<1>1. /\ reaper /\ results # <<>> /\ reaper' = FALSE /\ results' = Tail(results)
      /\ UNCHANGED <<now, addrs, gone, main, pending, timer, race, tried>>
  BY DEF Reap
<1>2. /\ results' \in Seq(Racer) /\ Len(results') <= 1 /\ r \in Racer /\ Queued(r)
      /\ \A s \in Racer : Queued(s)' <=> Queued(s) /\ s # r
  BY <1>0, <1>1, QueuedReceive DEF Shape
<1>3. conns' = [conns EXCEPT ![r] = c]
  BY <1>0, <1>2 DEF Reap
<1> HIDE DEF r
<1>4. /\ c \in {"none", "open", "handed", "closed"} /\ (c = "handed" <=> conns[r] = "handed")
      /\ (c = "none" <=> conns[r] = "none")
  BY <1>0, <1>2 DEF RacerInv
<1> HIDE DEF c
<1>5. /\ conns' \in [Racer -> {"none", "open", "handed", "closed"}] /\ conns'[r] = c
      /\ \A s \in Racer : s # r => conns'[s] = conns[s]
  BY <1>0, <1>2, <1>3, <1>4, ConnStep
<1>6. Solo' = Solo /\ ~Solo /\ \A s : List(s)' = List(s)
  BY <1>0, <1>1, SameLists DEF Shape
<1>7. Len(results') <= 2 /\ Len(results') # 2
  <2>1. \A n \in Nat : n <= 1 => n <= 2 /\ n # 2
    OBVIOUS
  <2>2. Len(results') \in Nat /\ Len(results') <= 1
    BY <1>2
  <2> QED BY <2>1, <2>2, Zenon
<1>8. TypeOK' /\ WithinBudget'
  BY <1>0, <1>1, <1>2, <1>5, <1>7 DEF TypeOK, WithinBudget
<1>9. Shape' /\ Racing'
  BY <1>0, <1>1, <1>6, <1>7 DEF Shape, Racing
<1>10. OneWinner'
  BY <1>0, <1>1, <1>2, <1>4, <1>5 DEF OneWinner, Racer
<1>11. ASSUME NEW s \in Racer PROVE RacerInv(s)'
  <2>1. CASE s = r
    <3>1. race[r].state \in {"sent", "sentError"}
      BY <1>0, <1>2 DEF RacerInv
    <3> QED BY <1>0, <1>1, <1>2, <1>4, <1>5, <1>6, <2>1, <3>1 DEF RacerInv
  <2>2. CASE s # r
    BY <1>0, <1>1, <1>2, <1>5, <1>6, <2>2 DEF RacerInv
  <2> QED BY <2>1, <2>2
<1> QED BY <1>8, <1>9, <1>10, <1>11 DEF IInv

\* The clock does not pass the deadline of an attempt, and while the loop
\* waits and there is nothing to receive an attempt is on its way.
LEMMA TickStep ==
  ASSUME IInv, Tick
  PROVE  IInv'
<1>0. /\ TypeOK /\ Shape /\ Racing /\ OneWinner /\ WithinBudget /\ now \in Nat
      /\ \A s \in Racer : RacerInv(s) /\ race[s].deadline \in Nat
  BY DEF IInv, TypeOK
<1>1. /\ main = "racing" /\ results = <<>> /\ now' = now + 1
      /\ \A s \in Racer : race[s].state = "trying" => now < race[s].deadline
      /\ \A s \in Racer : race[s].state \notin {"connected", "error"}
      /\ UNCHANGED <<addrs, gone, main, pending, timer, race, results, reaper, conns, tried>>
  BY DEF Tick
<1>2. Solo' = Solo /\ \A s : List(s)' = List(s)
  BY <1>1, SameLists
<1>3. ASSUME NEW s \in Racer
      PROVE  ~Queued(s) /\ (Queued(s)' <=> Queued(s)) /\ (Out(s)' <=> Out(s))
  <2>1. Len(results) = 0
    BY <1>1
  <2> QED BY <1>1, <2>1 DEF Queued, Out, Live
<1>4. PICK s \in Racer : Out(s)
  BY <1>0, <1>1 DEF Racing, Racer
<1>5. race[s].state = "trying"
  BY <1>1, <1>3, <1>4 DEF Out, Live
<1>6. now < race[s].deadline /\ race[s].deadline <= DialBudget /\ DialBudget \in Nat
  BY <1>0, <1>1, <1>5, DialAssumption DEF RacerInv
<1>7. WithinBudget' /\ now' \in Nat
  BY <1>0, <1>1, <1>6 DEF WithinBudget
<1>8. TypeOK' /\ OneWinner'
  BY <1>0, <1>1, <1>7 DEF TypeOK, OneWinner
<1>9. Shape' /\ Racing'
  BY <1>0, <1>1, <1>2, <1>3 DEF Shape, Racing, Racer
<1>10. ASSUME NEW u \in Racer PROVE RacerInv(u)'
  <2>1. race[u].state = "trying" => now' <= race[u].deadline
    BY <1>0, <1>1
  <2> QED BY <1>0, <1>1, <1>2, <1>3, <2>1 DEF RacerInv
<1> QED BY <1>7, <1>8, <1>9, <1>10 DEF IInv

\* The caller leaves, or nothing happens.
LEMMA CallerGoneStep ==
  ASSUME IInv, CallerGone \/ UNCHANGED vars
  PROVE  IInv'
<1>1. /\ UNCHANGED <<now, addrs, main, pending, timer, race, results, reaper, conns, tried>>
      /\ gone' \in BOOLEAN
  BY DEF CallerGone, vars, IInv, TypeOK
<1>2. Solo' = Solo /\ \A s : List(s)' = List(s)
  BY <1>1, SameLists
<1>3. ASSUME NEW s \in Racer PROVE (Queued(s)' <=> Queued(s)) /\ (Out(s)' <=> Out(s))
  BY <1>1 DEF Queued, Out, Live
<1>4. TypeOK' /\ OneWinner' /\ WithinBudget'
  BY <1>1 DEF IInv, TypeOK, OneWinner, WithinBudget
<1>5. Shape' /\ Racing'
  BY <1>1, <1>2, <1>3 DEF IInv, Shape, Racing, Racer
<1>6. ASSUME NEW s \in Racer PROVE RacerInv(s)'
  BY <1>1, <1>2, <1>3 DEF IInv, RacerInv
<1> QED BY <1>4, <1>5, <1>6 DEF IInv

\* The dial starts with an attempt on the first address.
LEMMA InitIInv == Init => IInv
<1> SUFFICES ASSUME Init PROVE IInv
  OBVIOUS
<1>0. /\ addrs \in AddrLists /\ now = 0 /\ now \in Nat /\ DialBudget \in Nat /\ now <= DialBudget
      /\ "primary" \in Racer /\ "fallback" \in Racer /\ main = "racing" /\ pending = 1
      /\ results = <<>> /\ ~reaper /\ timer = ~Solo /\ ~gone /\ conns = [r \in Racer |-> "none"]
      /\ gone = FALSE /\ reaper = FALSE
  BY DialAssumption DEF Init, Racer
<1> DEFINE p == First(List("primary"))
           q == Attempt("primary", p)
<1>1. p \in List("primary") /\ List("primary") \subseteq DOMAIN addrs
  BY <1>0, FromFirst, Lists
<1>2. tried = {p} /\ race = [r \in Racer |-> IF r = "primary" THEN q ELSE Idle]
  <2>1. race = [r \in Racer |-> IF r = "primary" THEN Attempt(r, First(List(r))) ELSE Idle]
    BY DEF Init
  <2> QED BY <2>1 DEF Init
<1> HIDE DEF p
<1>3. /\ q \in RaceRec /\ q.state = "trying" /\ q.at = p
      /\ now <= q.deadline /\ q.deadline <= DialBudget
  <2>1. /\ AttemptDeadline("primary", p) \in Nat
        /\ now <= AttemptDeadline("primary", p) /\ AttemptDeadline("primary", p) <= DialBudget
    BY <1>0, <1>1, DeadlineBounds
  <2>2. p \in Nat
    BY <1>0, <1>1, Lists
  <2> QED BY <2>1, <2>2 DEF Attempt, RaceRec
<1> HIDE DEF q
<1>4. Idle \in RaceRec /\ Idle.state = "off"
  BY DEF Idle, RaceRec
<1>5. /\ race \in [Racer -> RaceRec] /\ race["primary"] = q /\ race["fallback"] = Idle
      /\ results \in Seq(Racer) /\ Len(results) = 0
  BY <1>0, <1>2, <1>3, <1>4 DEF Racer
<1>6. TypeOK /\ WithinBudget /\ OneWinner
  <2>1. timer \in BOOLEAN
    BY <1>0
  <2>2. conns \in [Racer -> {"none", "open", "handed", "closed"}] /\ Len(results) <= 2
    BY <1>0, <1>5
  <2>3. tried \subseteq DOMAIN addrs
    BY <1>1, <1>2
  <2>4. gone \in BOOLEAN /\ reaper \in BOOLEAN
    BY <1>0, Zenon
  <2>5. pending \in 0..2 /\ now \in Nat /\ addrs \in AddrLists /\ main \in {"racing", "ok", "failed"}
    BY <1>0
  <2>6. TypeOK
    BY <1>5, <2>1, <2>2, <2>3, <2>4, <2>5 DEF TypeOK, RaceRec
  <2> QED BY <1>0, <2>6 DEF WithinBudget, OneWinner
<1>7. /\ ~Queued("primary") /\ ~Queued("fallback") /\ Out("primary") /\ ~Out("fallback")
  BY <1>3, <1>4, <1>5 DEF Queued, Out, Live
<1>8. Shape /\ Racing
  <2>1. Solo => ~timer
    BY <1>0
  <2>2. Shape
    BY <1>0, <1>3, <1>4, <1>5, <2>1 DEF Shape
  <2>3. Racing
    BY <1>0, <1>3, <1>4, <1>5, <1>7 DEF Racing, Racer
  <2> QED BY <2>2, <2>3
<1>9. RacerInv("primary") /\ RacerInv("fallback")
  BY <1>0, <1>1, <1>3, <1>4, <1>5, <1>7 DEF RacerInv
<1> QED BY <1>6, <1>8, <1>9 DEF IInv, Racer

\* Every step keeps the invariant.
LEMMA NextIInv == IInv /\ [Next]_vars => IInv'
<1> SUFFICES ASSUME IInv, [Next]_vars PROVE IInv'
  OBVIOUS
<1>1. ASSUME NEW r \in Racer, RacerStep(r) PROVE IInv'
  BY <1>1, ConnectStep, FailStep, SendStep DEF RacerStep
<1>2. CASE MainStep
  BY <1>2, SoloReturnsStep, TimerFiresStep, WinStep, LoseStep DEF MainStep
<1>3. CASE Reap
  BY <1>3, ReapStep
<1>4. CASE CallerGone \/ UNCHANGED vars
  BY <1>4, CallerGoneStep
<1>5. CASE Tick
  BY <1>5, TickStep
<1> QED BY <1>1, <1>2, <1>3, <1>4, <1>5 DEF Next

-----------------------------------------------------------------------------
(* Every address has its turn *)

\* A racer that does not move keeps what it has tried.
LEMMA TurnKept ==
  ASSUME NEW r \in Racer, TurnInv(r), addrs' = addrs, tried \subseteq tried', race'[r] = race[r],
         ~gone' => ~gone, main' = "racing" => main = "racing"
  PROVE  TurnInv(r)'
<1>1. PICK p : p = race[r].at
  OBVIOUS
<1>2. List(r)' = List(r) /\ From(r, p)' = From(r, p)
  BY SameLists
<1>3. From(r, race[r].at)' = From(r, p)'
  BY <1>1
<1> QED BY <1>1, <1>2, <1>3 DEF TurnInv

\* A racer that has made its last attempt, or whose context is over, has tried
\* the whole list: there was time for each address.
LEMMA TurnDone ==
  ASSUME IInv, NEW r \in Racer, TurnInv(r), race[r].state = "trying",
         Exhausted(r), ~gone, main = "racing"
  PROVE  List(r) \subseteq tried
<1> DEFINE p == race[r].at
           k == Cardinality(From(r, p))
<1>1. /\ addrs \in AddrLists /\ now \in Nat /\ race[r].deadline \in Nat /\ p \in List(r)
      /\ now <= race[r].deadline /\ race[r].deadline <= DialBudget
      /\ \A q \in List(r) : q <= p => q \in tried
      /\ DialBudget - race[r].deadline >= (k - 1) * MinAttemptTimeout
  BY DEF IInv, TypeOK, RacerInv, TurnInv
<1>2. DialBudget \in Nat /\ MinAttemptTimeout \in Nat \ {0}
  BY DialAssumption, RoomAssumption
<1>3. k \in Nat \ {0} /\ (After(r, p) = {} <=> k = 1) /\ List(r) \subseteq Nat
  <2>1. MaxAddrsPerFamily \in Nat
    BY DialAssumption
  <2>2. k \in 1..MaxAddrsPerFamily /\ (After(r, p) = {} <=> k = 1)
    BY <1>1, FromCount
  <2>3. List(r) \subseteq Nat
    BY <1>1, Lists
  <2> HIDE DEF k
  <2> QED BY <2>1, <2>2, <2>3
<1> HIDE DEF p, k
<1>4. After(r, p) = {}
  <2> SUFFICES ASSUME now >= DialBudget PROVE k = 1
    BY <1>3 DEF Exhausted, CtxDone, p
  <2>1. DialBudget - race[r].deadline = 0
    BY <1>1, <1>2
  <2>2. 0 >= (k - 1) * MinAttemptTimeout
    BY <1>1, <2>1
  <2>3. k - 1 > 0 => (k - 1) * MinAttemptTimeout > 0
    BY <1>2, <1>3
  <2>4. (k - 1) * MinAttemptTimeout \in Int
    BY <1>2, <1>3
  <2> QED BY <1>3, <2>2, <2>3, <2>4
<1>5. \A q \in List(r) : q <= p
  BY <1>1, <1>3, <1>4 DEF After
<1> QED BY <1>1, <1>5

\* A racer that goes on to its next address leaves time for the rest.
LEMMA TurnNext ==
  ASSUME IInv, NEW r \in Racer, TurnInv(r), race[r].state = "trying", After(r, race[r].at) # {},
         NEW p, p = First(After(r, race[r].at)), addrs' = addrs,
         race'[r] = Attempt(r, p), tried' = tried \cup {p}
  PROVE  TurnInv(r)' /\ p \in List(r)
<1> DEFINE o == race[r].at
           k == Cardinality(From(r, o))
           j == Cardinality(From(r, p))
<1>1. /\ addrs \in AddrLists /\ now \in Nat /\ race[r].deadline \in Nat /\ o \in List(r)
      /\ now <= race[r].deadline /\ race[r].deadline <= DialBudget /\ now <= DialBudget
      /\ \A q \in List(r) : q <= o => q \in tried
      /\ DialBudget - race[r].deadline >= (k - 1) * MinAttemptTimeout
  BY DEF IInv, TypeOK, RacerInv, TurnInv, WithinBudget
<1>2. DialBudget \in Nat /\ MinAttemptTimeout \in Nat /\ MaxAddrsPerFamily \in Nat
  BY DialAssumption
<1>3. /\ p \in List(r) /\ From(r, p) = From(r, o) \ {o}
      /\ \A q \in List(r) : q <= p => q <= o \/ q = p
  BY <1>1, FromNext
<1>4. k \in Nat \ {0} /\ j = k - 1
  <2>1. k \in 1..MaxAddrsPerFamily
    BY <1>1, FromCount
  <2>2. Cardinality(From(r, o) \ {o}) = k - 1
    BY <1>1, FromCount
  <2>3. j = k - 1
    BY <1>3, <2>2
  <2> HIDE DEF k
  <2> QED BY <1>2, <2>1, <2>3
<1>5. DialBudget - now >= j * MinAttemptTimeout
  <2>1. j * MinAttemptTimeout \in Nat
    BY <1>2, <1>4
  <2> QED BY <1>1, <1>2, <1>4, <2>1
<1>6. DialBudget - AttemptDeadline(r, p) >= (j - 1) * MinAttemptTimeout
  BY <1>1, <1>3, <1>5, DeadlineRoom
<1>7. List(r)' = List(r) /\ From(r, p)' = From(r, p)
  BY SameLists
<1>8. /\ race'[r].state = "trying" /\ race'[r].at = p
      /\ race'[r].deadline = AttemptDeadline(r, p)
  BY DEF Attempt
<1>9. From(r, race[r].at)' = From(r, p)'
  BY <1>8
<1>10. \A q \in List(r) : q <= p => q \in tried'
  BY <1>1, <1>3
<1> QED BY <1>3, <1>6, <1>7, <1>8, <1>9, <1>10 DEF TurnInv

\* A racer that starts no later than fallbackDelay has time for its list.
LEMMA TurnFirst ==
  ASSUME addrs \in AddrLists, NEW r \in Racer, List(r) # {},
         now \in Nat, now <= DialBudget, now <= FallbackDelay
  PROVE  /\ First(List(r)) \in List(r)
         /\ \A q \in List(r) : q <= First(List(r)) => q = First(List(r))
         /\ DialBudget - AttemptDeadline(r, First(List(r)))
              >= (Cardinality(From(r, First(List(r)))) - 1) * MinAttemptTimeout
<1> DEFINE p == First(List(r))
           k == Cardinality(From(r, p))
<1>1. /\ DialBudget \in Nat /\ MinAttemptTimeout \in Nat /\ MaxAddrsPerFamily \in Nat
      /\ FallbackDelay \in Nat
      /\ DialBudget - FallbackDelay >= MaxAddrsPerFamily * MinAttemptTimeout
  BY DialAssumption, RoomAssumption
<1>2. p \in List(r) /\ List(r) \in SUBSET Nat
  BY FromFirst, Lists
<1>3. \A q \in List(r) : p <= q
  BY <1>2, FirstIsLeast
<1> HIDE DEF p
<1>4. k \in 1..MaxAddrsPerFamily
  BY <1>2, FromCount
<1> HIDE DEF k
<1> k \in Nat /\ k <= MaxAddrsPerFamily
  BY <1>1, <1>4
<1>5. k * MinAttemptTimeout <= MaxAddrsPerFamily * MinAttemptTimeout
  BY <1>1, <1>4
<1>6. k * MinAttemptTimeout \in Nat /\ MaxAddrsPerFamily * MinAttemptTimeout \in Nat
  BY <1>1, <1>4
<1>7. DialBudget - now >= k * MinAttemptTimeout
  BY <1>1, <1>5, <1>6
<1>8. DialBudget - AttemptDeadline(r, p) >= (k - 1) * MinAttemptTimeout
  BY <1>2, <1>7, DeadlineRoom DEF k
<1>9. \A q \in List(r) : q <= p => q = p
  BY <1>2, <1>3
<1> QED BY <1>2, <1>8, <1>9 DEF p, k

\* dialSerial connects, goes on, or gives up; a racer sends its result.
LEMMA RacerTurns ==
  ASSUME IInv, Turns, NEW r \in Racer, RacerStep(r)
  PROVE  Turns'
<1>0. /\ race \in [Racer -> RaceRec] /\ addrs \in AddrLists
      /\ TurnInv(r) /\ tried \subseteq List("primary") \cup List("fallback")
      /\ List(r) \subseteq List("primary") \cup List("fallback")
  BY DEF IInv, TypeOK, RaceRec, Turns, Racer
<1>1. /\ UNCHANGED <<now, addrs, gone, main, timer>> /\ tried \subseteq tried'
      /\ \A s \in Racer : s # r => race'[s] = race[s]
  BY <1>0 DEF RacerStep, Connect, Fail, Send
<1>2. Solo' = Solo /\ \A s : List(s)' = List(s)
  BY <1>1, SameLists
<1>3. ASSUME NEW s \in Racer, s # r PROVE TurnInv(s)'
  BY <1>1, <1>3, TurnKept DEF Turns
<1>4. race[r].state \in {"trying", "connected", "error"} /\ race'[r].state # "off"
  BY <1>0 DEF RacerStep, Connect, Fail, Send, RaceRec, Attempt, Idle
<1>5. TurnInv(r)' /\ tried' \subseteq List("primary") \cup List("fallback")
  <2>1. CASE Connect(r)
    <3>1. race'[r].state = "connected" /\ tried' = tried
      BY <1>0, <2>1 DEF Connect, RaceRec
    <3> QED BY <1>0, <3>1 DEF TurnInv
  <2>2. CASE Fail(r) /\ Exhausted(r)
    <3>1. race[r].state = "trying" /\ race'[r].state = "error" /\ tried' = tried
      BY <1>0, <2>2 DEF Fail, Idle
    <3>2. ~gone /\ main = "racing" => List(r) \subseteq tried
      BY <1>0, <2>2, <3>1, TurnDone
    <3> QED BY <1>0, <1>1, <1>2, <3>1, <3>2 DEF TurnInv
  <2>3. CASE Fail(r) /\ ~Exhausted(r)
    <3>1. PICK p : p = First(After(r, race[r].at))
      OBVIOUS
    <3>2. race[r].state = "trying" /\ race'[r] = Attempt(r, p) /\ tried' = tried \cup {p}
      BY <1>0, <2>3, <3>1 DEF Fail
    <3>3. TurnInv(r)' /\ p \in List(r)
      BY <1>0, <1>1, <2>3, <3>1, <3>2, TurnNext DEF Exhausted
    <3> QED BY <1>0, <3>2, <3>3
  <2>4. CASE Send(r)
    <3>1. /\ race[r].state \in {"connected", "error"} /\ tried' = tried
          /\ race'[r].state = IF race[r].state = "error" THEN "sentError" ELSE "sent"
      BY <1>0, <2>4 DEF Send, RaceRec
    <3> QED BY <1>0, <1>1, <1>2, <3>1 DEF TurnInv
  <2> QED BY <2>1, <2>2, <2>3, <2>4 DEF RacerStep
<1>6. race["fallback"].state = "off" <=> race'["fallback"].state = "off"
  BY <1>1, <1>4 DEF Racer
<1>7. FailureMeansAllTried'
  BY <1>0, <1>1, <1>2, <1>5 DEF Turns, FailureMeansAllTried
<1> QED BY <1>1, <1>2, <1>3, <1>5, <1>6, <1>7 DEF Turns

\* startFallback has time for the whole list of the second family.
LEMMA FallbackTurns ==
  ASSUME IInv, Turns, ~Solo, NEW n, StartFallback(n), Startable, main = "racing",
         UNCHANGED <<addrs, now, gone, timer>> \/ (timer' = FALSE /\ UNCHANGED <<addrs, now, gone>>),
         main' = "racing"
  PROVE  Turns'
<1>0. /\ addrs \in AddrLists /\ now \in Nat /\ now <= DialBudget /\ "fallback" \in Racer
      /\ tried \subseteq List("primary") \cup List("fallback") /\ timer /\ now <= FallbackDelay
      /\ List("fallback") # {} /\ "primary" \in Racer /\ TurnInv("primary")
      /\ UNCHANGED <<addrs, now, gone>> /\ (timer' => timer)
  BY DEF IInv, TypeOK, WithinBudget, Turns, Startable, Racer, Solo
<1>1. PICK p : p = First(List("fallback"))
  OBVIOUS
<1>2. /\ tried' = tried \cup {p} /\ race'["primary"] = race["primary"]
      /\ race'["fallback"] = Attempt("fallback", p)
  BY <1>0, <1>1, FallbackStarts
<1>3. /\ p \in List("fallback")
      /\ \A q \in List("fallback") : q <= p => q = p
      /\ DialBudget - AttemptDeadline("fallback", p)
           >= (Cardinality(From("fallback", p)) - 1) * MinAttemptTimeout
  BY <1>0, <1>1, TurnFirst
<1>4. Solo' = Solo /\ (\A s : List(s)' = List(s)) /\ From("fallback", p)' = From("fallback", p)
  BY <1>0, SameLists
<1>5. TurnInv("fallback")'
  <2>1. /\ race'["fallback"].state = "trying" /\ race'["fallback"].at = p
        /\ race'["fallback"].deadline = AttemptDeadline("fallback", p)
    BY <1>2 DEF Attempt
  <2>2. From("fallback", race["fallback"].at)' = From("fallback", p)'
    BY <2>1
  <2> QED BY <1>2, <1>3, <1>4, <2>1, <2>2 DEF TurnInv
<1>6. TurnInv("primary")'
  BY <1>0, <1>2, TurnKept
<1>7. race'["fallback"].state # "off"
  BY <1>2 DEF Attempt
<1>8. tried' \subseteq List("primary") \cup List("fallback")
  BY <1>0, <1>2, <1>3
<1> QED BY <1>0, <1>4, <1>5, <1>6, <1>7, <1>8 DEF Turns, FailureMeansAllTried, Racer

\* The steps that touch no racer.
LEMMA OtherTurns ==
  ASSUME IInv, Turns, UNCHANGED <<addrs, race, tried>>, gone => gone', main' = "racing" => main = "racing",
         timer' => timer, timer' => now' <= FallbackDelay,
         race["fallback"].state = "off" /\ main' = "racing" /\ ~Solo => timer',
         main' = "failed" /\ ~gone' => main = "failed" \/ \A r \in Racer : List(r) \subseteq tried
  PROVE  Turns'
<1>1. Solo' = Solo /\ \A s : List(s)' = List(s)
  BY SameLists
<1>2. ASSUME NEW r \in Racer PROVE TurnInv(r)'
  BY TurnKept DEF Turns
<1>3. FailureMeansAllTried'
  BY <1>1 DEF Turns, FailureMeansAllTried, Racer
<1> QED BY <1>1, <1>2, <1>3 DEF Turns

\* dialParallel: both families have been tried when the last error arrives.
LEMMA ReceiveTurns ==
  ASSUME IInv, Turns, Receive
  PROVE  Turns'
<1>1. main = "racing" /\ results # <<>> /\ UNCHANGED <<now, addrs, gone, timer>>
  BY DEF Receive
<1>2. CASE conns[Head(results)] # "none"
  <2>1. main' = "ok" /\ UNCHANGED <<race, tried>>
    BY <1>2 DEF Receive
  <2>2. timer' => now' <= FallbackDelay
    BY <1>1 DEF Turns
  <2> QED BY <1>1, <2>1, <2>2, OtherTurns
<1>3. CASE conns[Head(results)] = "none"
  <2>0. PICK r \in Racer : r = Head(results)
    BY <1>3, ErrorReceived
  <2>1. race[r].state = "sentError" /\ Queued(r) /\ ~Solo
    BY <1>3, <2>0, ErrorReceived
  <2>2. /\ StartFallback(pending - 1) /\ main' = (IF pending' = 0 THEN "failed" ELSE "racing")
    BY <1>3 DEF Receive
  <2>3. pending \in 0..2 /\ Racing /\ Shape
    BY DEF IInv, TypeOK
  <2>4. CASE Startable
    <3>1. pending' = (pending - 1) + 1 /\ pending > 0
      BY <1>1, <2>2, <2>3, <2>4 DEF StartFallback, Racing
    <3>2. main' = "racing"
      BY <2>2, <2>3, <3>1
    <3> QED BY <1>1, <2>1, <2>2, <2>4, <3>2, FallbackTurns
  <2>5. CASE ~Startable
    <3>1. pending' = pending - 1 /\ UNCHANGED <<race, tried>>
      BY <2>2, <2>5 DEF StartFallback
    <3>2. ASSUME pending' = 0, NEW s \in Racer PROVE race[s].state = "sentError"
      <4>1. CASE s = r
        BY <2>1, <4>1
      <4>2. CASE s # r
        <5>1. pending = 1
          BY <2>3, <3>1, <3>2
        <5>2. Out(r) /\ ~Out(s)
          BY <1>1, <2>1, <2>3, <4>2, <5>1 DEF Racing, Racer, Out
        <5>3. race[s].state # "off"
          BY <2>3, <2>5 DEF Startable, Shape, Racer
        <5>4. race[s].state # "sent"
          BY <1>1, <2>3, <5>2 DEF Racing, Out
        <5> QED BY <5>2, <5>3, <5>4 DEF Out, Live, IInv, TypeOK
      <4> QED BY <4>1, <4>2
    <3>3. main' = "failed" /\ ~gone' => \A s \in Racer : List(s) \subseteq tried
      BY <1>1, <2>2, <3>2 DEF Turns, TurnInv
    <3>4. timer' => now' <= FallbackDelay
      BY <1>1 DEF Turns
    <3>5. race["fallback"].state # "off"
      BY <2>5 DEF Startable
    <3> QED BY <1>1, <3>1, <3>3, <3>4, <3>5, OtherTurns
  <2> QED BY <2>4, <2>5
<1> QED BY <1>2, <1>3

\* Every step leaves time for the addresses that have not had their turn.
LEMMA NextTurns ==
  ASSUME IInv, Turns, [Next]_vars
  PROVE  Turns'
<1>1. ASSUME NEW r \in Racer, RacerStep(r) PROVE Turns'
  BY <1>1, RacerTurns
<1>2. CASE SoloReturns
  <2>0. /\ Solo /\ main = "racing" /\ race["primary"].state \in {"connected", "error"}
        /\ main' = (IF race["primary"].state = "connected" THEN "ok" ELSE "failed")
        /\ UNCHANGED <<now, addrs, gone, timer, tried>>
        /\ race \in [Racer -> RaceRec] /\ "primary" \in Racer /\ "fallback" \in Racer
    BY <1>2 DEF SoloReturns, IInv, TypeOK, RaceRec, Racer
  <2>1. race'["primary"].state = "sent" /\ race'["fallback"] = race["fallback"]
    BY <1>2, <2>0 DEF SoloReturns, RaceRec
  <2>2. Solo' = Solo /\ \A s : List(s)' = List(s)
    BY <2>0, SameLists
  <2>3. TurnInv("primary")'
    BY <2>1 DEF TurnInv
  <2>4. TurnInv("fallback")'
    BY <2>0, <2>1, TurnKept DEF Turns
  <2>5. FailureMeansAllTried'
    <3>1. main' = "failed" /\ ~gone' => List("primary") \subseteq tried
      BY <2>0 DEF Turns, TurnInv
    <3> QED BY <2>0, <2>2, <3>1 DEF FailureMeansAllTried, Turns, Solo
  <2> QED BY <2>0, <2>1, <2>2, <2>3, <2>4, <2>5 DEF Turns, Racer
<1>3. CASE TimerFires
  <2>1. /\ main = "racing" /\ timer /\ timer' = FALSE /\ StartFallback(pending)
        /\ UNCHANGED <<now, addrs, gone, main>>
    BY <1>3 DEF TimerFires
  <2>2. ~Solo
    BY <2>1 DEF IInv, Shape
  <2>3. CASE Startable
    BY <2>1, <2>2, <2>3, FallbackTurns
  <2>4. CASE ~Startable
    <3>1. UNCHANGED <<race, tried>> /\ race["fallback"].state # "off"
      BY <2>1, <2>4 DEF StartFallback, Startable
    <3> QED BY <2>1, <3>1, OtherTurns
  <2> QED BY <2>3, <2>4
<1>4. CASE Receive
  BY <1>4, ReceiveTurns
<1>5. CASE Reap \/ CallerGone \/ UNCHANGED vars
  <2>1. /\ UNCHANGED <<now, addrs, race, tried, main, timer>> /\ (gone => gone')
    BY <1>5 DEF Reap, CallerGone, vars
  <2>2. timer' => now' <= FallbackDelay
    BY <2>1 DEF Turns
  <2>3. race["fallback"].state = "off" /\ main' = "racing" /\ ~Solo => timer'
    BY <2>1 DEF Turns
  <2> QED BY <2>1, <2>2, <2>3, OtherTurns
<1>6. CASE Tick
  <2>1. /\ main = "racing" /\ UNCHANGED <<addrs, gone, main, timer, race, tried>>
        /\ now' = now + 1 /\ ~(timer /\ now >= FallbackDelay) /\ now \in Nat
    BY <1>6 DEF Tick, IInv, TypeOK
  <2>2. timer' => now' <= FallbackDelay
    <3>1. FallbackDelay \in Nat
      BY DialAssumption
    <3> QED BY <2>1, <3>1
  <2>3. race["fallback"].state = "off" /\ main' = "racing" /\ ~Solo => timer'
    BY <2>1 DEF Turns
  <2> QED BY <2>1, <2>2, <2>3, OtherTurns
<1> QED BY <1>1, <1>2, <1>3, <1>4, <1>5, <1>6 DEF Next, MainStep

\* The first family starts at once, the other not before it is due.
LEMMA InitTurns ==
  ASSUME Init
  PROVE  Turns
<1>0. /\ addrs \in AddrLists /\ now = 0 /\ now \in Nat /\ now <= DialBudget /\ now <= FallbackDelay
      /\ "primary" \in Racer /\ "fallback" \in Racer /\ main = "racing" /\ timer = ~Solo
  BY DialAssumption DEF Init, Racer
<1>1. List("primary") # {}
  BY <1>0, Lists
<1>2. PICK p : p = First(List("primary"))
  OBVIOUS
<1>3. /\ p \in List("primary") /\ \A q \in List("primary") : q <= p => q = p
      /\ DialBudget - AttemptDeadline("primary", p)
           >= (Cardinality(From("primary", p)) - 1) * MinAttemptTimeout
  BY <1>0, <1>1, <1>2, TurnFirst
<1>4. tried = {p} /\ race["primary"] = Attempt("primary", p) /\ race["fallback"] = Idle
  <2>1. race = [r \in Racer |-> IF r = "primary" THEN Attempt(r, First(List(r))) ELSE Idle]
    BY DEF Init
  <2> QED BY <1>0, <1>2, <2>1 DEF Init, Racer
<1>5. /\ race["primary"].state = "trying" /\ race["primary"].at = p
      /\ race["primary"].deadline = AttemptDeadline("primary", p) /\ race["fallback"].state = "off"
  BY <1>4 DEF Attempt, Idle
<1>6. TurnInv("primary") /\ TurnInv("fallback")
  BY <1>3, <1>4, <1>5 DEF TurnInv
<1>7. ~Solo => timer
  BY <1>0
<1> QED BY <1>0, <1>3, <1>4, <1>6, <1>7 DEF Turns, FailureMeansAllTried, Racer

-----------------------------------------------------------------------------
(* Theorems *)

\* The invariant of the race holds in every reachable state.
THEOREM Inductive == Spec => []IInv
  BY InitIInv, NextIInv, PTL DEF Spec

\* Every variable of dial keeps its type.
THEOREM TypeCorrect == Spec => []TypeOK
<1>1. IInv => TypeOK
  BY DEF IInv
<1> QED BY <1>1, Inductive, PTL

\* dialParallel hands the caller one connection or an error, and the reaper
\* never closes the connection the caller got.
THEOREM OneWinnerEver == Spec => []OneWinner
<1>1. IInv => OneWinner
  BY DEF IInv
<1> QED BY <1>1, Inductive, PTL

\* dialBudget bounds the whole dial, whatever the lists and however the
\* attempts of the two families overlap.
THEOREM EndsWithinBudget == Spec => []WithinBudget
<1>1. IInv => WithinBudget
  BY DEF IInv
<1> QED BY <1>1, Inductive, PTL

\* dial fails, for a caller that waits, only after it has tried every address
\* of both lists: the deadlines that dialSerial sets leave minAttemptTimeout
\* for each address that has not had its turn.
THEOREM EveryAddressTried == Spec => []FailureMeansAllTried
<1>1. Init => Turns
  BY InitTurns
<1>2. IInv /\ Turns /\ [Next]_vars => Turns'
  BY NextTurns
<1>3. Turns => FailureMeansAllTried
  BY DEF Turns
<1> QED BY <1>1, <1>2, <1>3, Inductive, PTL DEF Spec


-----------------------------------------------------------------------------
(* Nobody is left behind *)

\* An open connection belongs to a racer that is out; after the dial has
\* returned, that is the loser the reaper waits for and nobody else.
LoserInv ==
  /\ \A r \in Racer : conns[r] = "open" => Out(r)
  /\ main # "racing" /\ ~reaper => \A r \in Racer : ~Out(r)
  /\ reaper => \E r \in Racer : Out(r) /\ \A s \in Racer : s # r => ~Out(s)

\* Whoever waits on the results channel waits for a racer that has yet to send
\* or be received, a racer that has to send finds room in the channel, and once
\* nobody waits no racer is out and no connection is left open.
NobodyLeft ==
  /\ main = "racing" \/ reaper => \E r \in Racer : Out(r)
  /\ ~Solo => \A r \in Racer : race[r].state \in {"connected", "error"} => Len(results) < 2
  /\ main # "racing" /\ ~reaper => \A r \in Racer : ~Out(r) /\ conns[r] # "open"

\* A step after which the same racers are out.
LEMMA SameOut ==
  ASSUME LoserInv, \A r \in Racer : Out(r)' <=> Out(r), UNCHANGED <<main, reaper>>,
         \A r \in Racer : conns'[r] = "open" => conns[r] = "open" \/ Out(r)'
  PROVE  LoserInv'
BY DEF LoserInv

\* A racer's own steps: a connection it opens is on its way to the channel.
LEMMA RacerLoser ==
  ASSUME IInv, LoserInv, NEW r \in Racer, RacerStep(r)
  PROVE  LoserInv'
<1>0. race \in [Racer -> RaceRec] /\ conns \in [Racer -> {"none", "open", "handed", "closed"}]
  BY DEF IInv, TypeOK, RaceRec
<1>1. CASE Connect(r)
  <2>1. /\ race[r].state = "trying" /\ race'[r].state = "connected"
        /\ \A s \in Racer : s # r => race'[s] = race[s] /\ conns'[s] = conns[s]
        /\ UNCHANGED <<main, reaper, results>>
    BY <1>0, <1>1 DEF Connect, RaceRec
  <2>2. \A s \in Racer : Out(s)' <=> Out(s)
    BY <2>1 DEF Out, Live, Queued
  <2>3. Out(r)'
    BY <2>1 DEF Out, Live
  <2> QED BY <2>1, <2>2, <2>3, SameOut
<1>2. CASE Fail(r)
  <2>1. /\ race[r].state = "trying" /\ race'[r].state \in {"trying", "error"}
        /\ \A s \in Racer : s # r => race'[s] = race[s]
        /\ UNCHANGED <<main, reaper, results, conns>>
    BY <1>0, <1>2 DEF Fail, Attempt, Idle, RaceRec
  <2>2. \A s \in Racer : Out(s)' <=> Out(s)
    BY <2>1 DEF Out, Live, Queued
  <2> QED BY <2>1, <2>2, SameOut
<1>3. CASE Send(r)
  <2>1. /\ race[r].state \in {"connected", "error"} /\ race'[r].state \in {"sent", "sentError"}
        /\ \A s \in Racer : s # r => race'[s] = race[s]
        /\ UNCHANGED <<main, reaper, conns>>
        /\ Len(results) < 2 /\ results' = Append(results, r)
    BY <1>0, <1>3 DEF Send, RaceRec
  <2>2. \A s \in Racer : Queued(s)' <=> Queued(s) \/ s = r
    <3>1. ~Queued(r) /\ results \in Seq(Racer)
      BY <2>1 DEF IInv, RacerInv, TypeOK
    <3> QED BY <2>1, <3>1, QueuedSend
  <2>3. \A s \in Racer : Out(s)' <=> Out(s)
    BY <2>1, <2>2 DEF Out, Live
  <2> QED BY <2>1, <2>3, SameOut
<1> QED BY <1>1, <1>2, <1>3 DEF RacerStep

\* A winner is received: the loser, if it is out, is the reaper's.
LEMMA WinLoser ==
  ASSUME IInv, LoserInv, Receive, conns[Head(results)] # "none"
  PROVE  LoserInv'
<1>0. /\ Shape /\ Racing /\ results \in Seq(Racer) /\ Len(results) <= 2
      /\ conns \in [Racer -> {"none", "open", "handed", "closed"}]
      /\ \A s \in Racer : RacerInv(s)
  BY DEF IInv, TypeOK
<1>a. PICK r \in Racer : r = Head(results)
  <2>1. results # <<>>
    BY DEF Receive, Reap
  <2> QED BY <1>0, <2>1
<1>1. /\ main = "racing" /\ results # <<>> /\ results' = Tail(results) /\ main' = "ok"
      /\ conns' = [conns EXCEPT ![r] = "handed"] /\ reaper' = (pending > 1)
      /\ UNCHANGED race
  BY <1>a DEF Receive, ReaperNeeded
<1>2. Queued(r) /\ \A s \in Racer : Queued(s)' <=> Queued(s) /\ s # r
  BY <1>0, <1>1, <1>a, QueuedReceive DEF Shape
<1>3. Out(r) /\ ~Out(r)' /\ \A s \in Racer : s # r => (Out(s)' <=> Out(s))
  <2>1. race[r].state \in {"sent", "sentError"}
    BY <1>0, <1>2 DEF RacerInv
  <2> QED BY <1>1, <1>2, <2>1 DEF Out, Live
<1>4. \A s \in Racer : conns'[s] = "open" => s # r /\ conns[s] = "open"
  BY <1>0, <1>1, <1>2
<1>5. \A s \in Racer : conns'[s] = "open" => Out(s)'
  BY <1>3, <1>4 DEF LoserInv
<1>6. PICK o \in Racer : o # r /\ \A s \in Racer : s \in {r, o}
  BY <1>2 DEF Racer
<1>7. pending = (IF Out(r) THEN 1 ELSE 0) + (IF Out(o) THEN 1 ELSE 0)
  <2>1. pending = (IF Out("primary") THEN 1 ELSE 0) + (IF Out("fallback") THEN 1 ELSE 0)
    BY <1>0, <1>1 DEF Racing
  <2> QED BY <1>2, <1>6, <2>1 DEF Racer
<1>8. reaper' <=> Out(o)
  <2>1. Out(o) => pending = 2
    BY <1>3, <1>7
  <2>2. ~Out(o) => pending = 1
    BY <1>3, <1>7
  <2>3. 2 > 1 /\ ~(1 > 1)
    OBVIOUS
  <2> QED BY <1>1, <2>1, <2>2, <2>3
<1>9. Out(o)' <=> Out(o)
  BY <1>3, <1>6
<1>10. CASE reaper'
  BY <1>1, <1>3, <1>5, <1>6, <1>8, <1>9, <1>10 DEF LoserInv
<1>11. CASE ~reaper'
  BY <1>3, <1>5, <1>6, <1>8, <1>9, <1>11 DEF LoserInv
<1> QED BY <1>10, <1>11

\* An error is received: the dial fails when nobody else is out.
LEMMA LoseLoser ==
  ASSUME IInv, LoserInv, Receive, conns[Head(results)] = "none"
  PROVE  LoserInv'
<1>1. PICK r \in Racer : r = Head(results)
  BY ErrorReceived
<1>2. /\ race[r].state = "sentError" /\ Queued(r) /\ ~Solo
      /\ \A s \in Racer : Queued(s)' <=> Queued(s) /\ s # r
  BY <1>1, ErrorReceived
<1>3. /\ main = "racing" /\ StartFallback(pending - 1) /\ ~reaper
      /\ main' = (IF pending' = 0 THEN "failed" ELSE "racing")
      /\ UNCHANGED <<conns, reaper, now, addrs>>
  BY <1>1, <1>2 DEF Receive, IInv, Shape
<1>4. IInv'
  BY LoseStep
<1>5. CASE main' = "racing"
  <2>1. \A s \in Racer : conns'[s] = "open" => Out(s)'
    <3> SUFFICES ASSUME NEW s \in Racer, conns'[s] = "open" PROVE Out(s)'
      OBVIOUS
    <3>1. race'[s].state \in {"connected", "sent"}
      <4>1. /\ race'[s].state \in {"off", "trying", "connected", "error", "sent", "sentError"}
            /\ RacerInv(s)'
        BY <1>4 DEF IInv, TypeOK
      <4> QED BY <4>1 DEF RacerInv
    <3> QED BY <1>4, <1>5, <3>1 DEF IInv, Racing, Out, Live
  <2> QED BY <1>3, <1>5, <2>1 DEF LoserInv
<1>6. CASE main' = "failed"
  <2>1. pending' = 0 /\ pending \in 0..2
    BY <1>3, <1>6 DEF IInv, TypeOK
  <2>2. ~Startable
    <3>1. Startable => pending' = (pending - 1) + 1
      BY <1>2, <1>3, FallbackStarts
    <3>2. pending > 0
      BY <1>3 DEF IInv, Racing
    <3> QED BY <2>1, <3>1, <3>2, SMT
  <2>3. pending' = pending - 1 /\ UNCHANGED race
    BY <1>3, <2>2 DEF StartFallback
  <2>4. Out(r) /\ ~Out(r)' /\ \A s \in Racer : s # r => (Out(s)' <=> Out(s))
    BY <1>2, <2>3 DEF Out, Live
  <2>5. \A s \in Racer : s # r => ~Out(s)
    <3>1. pending = 1
      BY <2>1, <2>3
    <3>2. pending = (IF Out("primary") THEN 1 ELSE 0) + (IF Out("fallback") THEN 1 ELSE 0)
      BY <1>3 DEF IInv, Racing
    <3> QED BY <2>4, <3>1, <3>2 DEF Racer
  <2>6. \A s \in Racer : conns'[s] # "open"
    <3>1. \A s \in Racer : conns[s] = "open" => Out(s) /\ s # r
      BY <1>2 DEF LoserInv, IInv, RacerInv
    <3> QED BY <1>3, <2>5, <3>1
  <2> QED BY <1>3, <1>6, <2>4, <2>5, <2>6 DEF LoserInv
<1> QED BY <1>3, <1>5, <1>6

\* The reaper receives the loser's result, and nothing is left.
LEMMA ReapLoser ==
  ASSUME IInv, LoserInv, Reap
  PROVE  LoserInv'
<1>0. /\ Shape /\ results \in Seq(Racer) /\ Len(results) <= 2
      /\ conns \in [Racer -> {"none", "open", "handed", "closed"}]
      /\ \A s \in Racer : RacerInv(s)
  BY DEF IInv, TypeOK
<1>a. PICK r \in Racer : r = Head(results)
  <2>1. results # <<>>
    BY DEF Receive, Reap
  <2> QED BY <1>0, <2>1
<1>1. /\ reaper /\ results # <<>> /\ reaper' = FALSE /\ results' = Tail(results)
      /\ conns' = [conns EXCEPT ![r] = IF @ = "none" THEN @ ELSE "closed"]
      /\ UNCHANGED <<main, race>>
  BY <1>a DEF Reap
<1>2. Queued(r) /\ \A s \in Racer : Queued(s)' <=> Queued(s) /\ s # r
  BY <1>0, <1>1, <1>a, QueuedReceive DEF Shape
<1>3. Out(r) /\ ~Out(r)' /\ \A s \in Racer : s # r => (Out(s)' <=> Out(s))
  <2>1. race[r].state \in {"sent", "sentError"}
    BY <1>0, <1>2 DEF RacerInv
  <2> QED BY <1>1, <1>2, <2>1 DEF Out, Live
<1>4. \A s \in Racer : ~Out(s)'
  BY <1>1, <1>2, <1>3 DEF LoserInv
<1>5. \A s \in Racer : conns'[s] = "open" => s # r /\ conns[s] = "open"
  BY <1>0, <1>1, <1>2
<1>6. \A s \in Racer : conns'[s] # "open"
  BY <1>3, <1>4, <1>5 DEF LoserInv
<1> QED BY <1>1, <1>4, <1>6 DEF LoserInv

\* Every step leaves the loser with its racer, the channel or the reaper.
LEMMA NextLoser ==
  ASSUME IInv, LoserInv, [Next]_vars
  PROVE  LoserInv'
<1>1. CASE SoloReturns
  <2>1. /\ Solo /\ main = "racing" /\ main' # "racing" /\ UNCHANGED <<results, reaper>>
        /\ race' = [race EXCEPT !["primary"].state = "sent"]
        /\ \/ race["primary"].state = "connected" /\ conns' = [conns EXCEPT !["primary"] = "handed"]
           \/ race["primary"].state = "error" /\ conns' = conns
    BY <1>1 DEF SoloReturns
  <2>2. /\ race["fallback"].state = "off" /\ results = <<>> /\ ~reaper
        /\ conns["fallback"] = "none" /\ (race["primary"].state = "error" => conns["primary"] = "none")
        /\ race \in [Racer -> RaceRec] /\ conns \in [Racer -> {"none", "open", "handed", "closed"}]
    BY <2>1 DEF IInv, Shape, RacerInv, Racer, TypeOK, RaceRec
  <2>3. race'["primary"].state = "sent" /\ race'["fallback"].state = "off"
    BY <2>1, <2>2 DEF Racer, RaceRec
  <2>4. conns'["primary"] # "open" /\ conns'["fallback"] # "open"
    BY <2>1, <2>2 DEF Racer
  <2>5. \A r \in Racer : ~Queued(r)'
    <3>1. results' = <<>> /\ Len(<<>>) = 0
      BY <2>1, <2>2
    <3> QED BY <3>1 DEF Queued
  <2>6. \A r \in Racer : ~Out(r)' /\ conns'[r] # "open"
    BY <2>3, <2>4, <2>5 DEF Out, Live, Racer
  <2> QED BY <2>1, <2>2, <2>6 DEF LoserInv
<1>2. CASE TimerFires
  <2>1. main' = "racing" /\ main = "racing" /\ UNCHANGED <<reaper, conns>>
    BY <1>2 DEF TimerFires
  <2>2. IInv' /\ ~reaper
    BY <1>2, <2>1, TimerFiresStep DEF IInv, Shape
  <2>3. \A s \in Racer : conns'[s] = "open" => Out(s)'
    <3> SUFFICES ASSUME NEW s \in Racer, conns'[s] = "open" PROVE Out(s)'
      OBVIOUS
    <3>1. race'[s].state \in {"connected", "sent"}
      <4>1. /\ race'[s].state \in {"off", "trying", "connected", "error", "sent", "sentError"}
            /\ RacerInv(s)'
        BY <2>2 DEF IInv, TypeOK
      <4> QED BY <4>1 DEF RacerInv
    <3> QED BY <2>1, <2>2, <3>1 DEF IInv, Racing, Out, Live
  <2> QED BY <2>1, <2>2, <2>3 DEF LoserInv
<1>3. CASE UNCHANGED <<main, race, results, reaper, conns>>
  BY <1>3 DEF LoserInv, Out, Live, Queued
<1> QED
  BY <1>1, <1>2, <1>3, RacerLoser, WinLoser, LoseLoser, ReapLoser
  DEF Next, MainStep, CallerGone, Tick, vars

\* The safety half of NothingLeaks: dialParallel, its racers and the reaper
\* never wait on the results channel for a send or a receive that cannot come,
\* and when the last of them is done every connection of the race is with the
\* caller or closed.
THEOREM NobodyLeftBehind == Spec => []NobodyLeft
<1>1. Init => LoserInv
  BY DEF Init, LoserInv
<1>2. IInv /\ LoserInv /\ [Next]_vars => LoserInv'
  BY NextLoser
<1>3. IInv /\ LoserInv => NobodyLeft
  <2> SUFFICES ASSUME IInv, LoserInv PROVE NobodyLeft
    OBVIOUS
  <2>1. ASSUME main = "racing" PROVE \E r \in Racer : Out(r)
    <3>1. /\ pending = (IF Out("primary") THEN 1 ELSE 0) + (IF Out("fallback") THEN 1 ELSE 0)
          /\ pending > 0
      BY <2>1 DEF IInv, Racing
    <3>2. Out("primary") \/ Out("fallback")
      BY <3>1
    <3> QED BY <3>2 DEF Racer
  <2>2. ASSUME NEW r \in Racer, race[r].state \in {"connected", "error"} PROVE Len(results) < 2
    <3>1. /\ results \in Seq(Racer) /\ Len(results) <= 2 /\ ~Queued(r)
          /\ Len(results) = 2 => results[1] # results[2]
      BY <2>2 DEF IInv, TypeOK, RacerInv, Shape
    <3>2. Len(results) # 2
      <4> SUFFICES ASSUME Len(results) = 2 PROVE FALSE
        OBVIOUS
      <4>1. results[1] \in Racer /\ results[2] \in Racer
        BY <3>1
      <4>2. r # results[1] /\ r # results[2]
        BY <3>1 DEF Queued
      <4>3. results[1] # results[2]
        BY <3>1
      <4> QED BY <4>1, <4>2, <4>3 DEF Racer
    <3>3. \A n \in Nat : n <= 2 /\ n # 2 => n < 2
      OBVIOUS
    <3>4. Len(results) \in Nat
      BY <3>1
    <3> QED BY <3>1, <3>2, <3>3, <3>4, Zenon
  <2> QED BY <2>1, <2>2 DEF LoserInv, NobodyLeft
<1> QED BY <1>1, <1>2, <1>3, Inductive, PTL DEF Spec
=============================================================================
