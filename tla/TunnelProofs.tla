---------------------------- MODULE TunnelProofs ----------------------------
(***************************************************************************)
(* Proofs about Tunnel, for any idle timeout and any interval between two  *)
(* looks at the clock.                                                     *)
(*                                                                         *)
(* The two clocks are related twice.  age is never ahead of quiet unless   *)
(* a running copy has data to its credit (Behind), so that idleness closes *)
(* nothing too early.  quiet is ahead of age by one interval at most       *)
(* (Follows), so that it closes nothing too late.  Once closed, it carries *)
(* nothing and holds nobody.                                               *)
(***************************************************************************)
EXTENDS Tunnel, TLAPS

State == [st : {"read", "write", "woken", "done"}, left : 0..Check, moved : BOOLEAN]

\* io.Copy of this direction has carried data and has not returned.
Credit(d) == pipe[d].moved /\ pipe[d].st \in {"read", "write"}

\* tunnelState.last is no older than the last data, but for running copies.
Behind == (\A d \in Pipe : ~Credit(d)) => age <= quiet

\* The connections are closed together.
OpenTogether == open["client"] = open["upstream"]

IsOpen == open["client"]

\* It is no younger than one interval less than that.
Follows == IsOpen => quiet <= age + Check

\* How long there can have been no data when a direction waits to read: less
\* what is left of its interval.
ReadInTime(d) ==
  /\ pipe[d].st \in {"read", "woken"} => quiet <= Idle + 2 * Check
  /\ IsOpen /\ pipe[d].st = "read" => quiet <= Idle + 2 * Check - pipe[d].left
  /\ IsOpen /\ pipe[d].st = "read" /\ pipe[d].moved => quiet <= Check - pipe[d].left

InTime == Idle > 0 => Follows /\ \A d \in Pipe : ReadInTime(d)

IInv == TypeOK /\ HalfCloseKeepsOther /\ OpenTogether /\ Behind /\ InTime

-----------------------------------------------------------------------------
(* What the steps have in common *)

\* TypeOK with its numbers spelled out.
Typed ==
  /\ pipe \in [Pipe -> State] /\ open \in [{"client", "upstream"} -> BOOLEAN]
  /\ age \in Nat /\ age <= Cap /\ quiet \in Nat /\ quiet <= Cap
  /\ why \in {"open", "idle", "error", "eof"} /\ freed \in BOOLEAN

\* The constants are numbers, and so are the ages.
LEMMA Types ==
  /\ Idle \in Nat /\ Check \in Nat /\ Check > 0 /\ Cap \in Nat /\ Cap = Idle + 2 * Check + 1
  /\ TypeOK <=> Typed
<1>1. Idle \in Nat /\ Check \in Nat /\ Check > 0 /\ Cap \in Nat /\ Cap = Idle + 2 * Check + 1
  BY TunnelAssumption DEF Cap
<1> QED BY <1>1 DEF TypeOK, Typed, State

\* The turns of a direction have their type.
LEMMA Turns == Copying \in State /\ Done \in State
  BY TunnelAssumption DEF Copying, Done, State

\* Each end of a direction is open when the tunnel is.
LEMMA Ends ==
  ASSUME OpenTogether, NEW d \in Pipe
  PROVE  open[Src(d)] = IsOpen /\ open[Dst(d)] = IsOpen
  BY DEF OpenTogether, IsOpen, Src, Dst, Pipe

\* closeBoth closes both.
LEMMA CloseBothStep ==
  ASSUME NEW reason \in {"idle", "error", "eof"}, CloseBoth(reason), TypeOK
  PROVE  /\ open' \in [{"client", "upstream"} -> BOOLEAN] /\ OpenTogether' /\ ~IsOpen'
         /\ why' \in {"open", "idle", "error", "eof"}
         /\ why' = "eof" => why = "eof" \/ reason = "eof"
  BY DEF CloseBoth, Closed, OpenTogether, IsOpen, TypeOK

\* touch makes tunnelState.last no older.
LEMMA TouchedStep ==
  ASSUME Typed, NEW d \in Pipe
  PROVE  /\ Touched(d) \in Nat /\ Touched(d) <= Cap /\ Touched(d) \in {age, 0}
         /\ pipe[d].moved => Touched(d) = 0
         /\ ~pipe[d].moved => Touched(d) = age
  BY Types DEF Typed, Touched, State

\* A step of one direction that leaves quiet alone keeps Behind, if a credit
\* that is lost is a touch.
LEMMA KeepsBehind ==
  ASSUME Typed, Behind, NEW d \in Pipe, quiet' = quiet, age' \in {age, 0},
         \A e \in Pipe : e # d => pipe'[e] = pipe[e],
         Credit(d) => Credit(d)' \/ age' = 0
  PROVE  Behind'
  BY DEF Typed, Behind, Credit

\* The steps that close the tunnel keep the invariant: a direction ends, and
\* the other waits for nothing any more.
LEMMA Closes ==
  ASSUME IInv, NEW d \in Pipe, NEW reason \in {"idle", "error"}, CloseBoth(reason),
         pipe' = [pipe EXCEPT ![d] = Done], UNCHANGED <<quiet, freed>>,
         age' \in {age, 0}, Credit(d) => age' = 0
  PROVE  IInv'
<1>0. Typed /\ TypeOK /\ HalfCloseKeepsOther /\ Behind /\ InTime
  BY Types DEF IInv
<1>1. /\ pipe' \in [Pipe -> State] /\ pipe'[d] = Done /\ Done.st = "done"
      /\ \A e \in Pipe : e # d => pipe'[e] = pipe[e]
  BY <1>0, Turns DEF Typed, Done
<1>2. /\ open' \in [{"client", "upstream"} -> BOOLEAN] /\ OpenTogether' /\ ~IsOpen'
      /\ why' \in {"open", "idle", "error", "eof"} /\ (why' = "eof" => why = "eof")
  BY <1>0, CloseBothStep
<1>3. Typed'
  BY <1>0, <1>1, <1>2, Types DEF Typed
<1>4. HalfCloseKeepsOther'
  BY <1>0, <1>1, <1>2 DEF HalfCloseKeepsOther
<1>5. Behind'
  BY <1>0, <1>1, KeepsBehind
<1>6. InTime'
  BY <1>0, <1>1, <1>2 DEF InTime, Follows, ReadInTime
<1>7. TypeOK' <=> Typed'
  BY Types DEF TypeOK, Typed, State
<1> QED BY <1>2, <1>3, <1>4, <1>5, <1>6, <1>7 DEF IInv

\* The steps of a direction that close nothing: what is left to show of them.
LEMMA Goes ==
  ASSUME IInv, NEW d \in Pipe, UNCHANGED <<open, why, freed>>,
         pipe' \in [Pipe -> State], pipe[d].st # "done",
         \A e \in Pipe : e # d => pipe'[e] = pipe[e],
         age' \in {age, 0}, quiet' \in {quiet, 0}, Behind', Idle > 0 => Follows' /\ ReadInTime(d)'
  PROVE  IInv'
<1>0. Typed /\ HalfCloseKeepsOther /\ OpenTogether /\ InTime
  BY Types DEF IInv
<1>1. Typed'
  BY <1>0, Types DEF Typed
<1>2. HalfCloseKeepsOther' /\ OpenTogether'
  BY <1>0 DEF HalfCloseKeepsOther, OpenTogether
<1>3. InTime'
  <2> SUFFICES ASSUME Idle > 0, NEW e \in Pipe, e # d PROVE ReadInTime(e)'
    BY DEF InTime
  <2>1. ReadInTime(e) /\ pipe[e] \in State
    BY <1>0 DEF InTime, Typed
  <2> QED BY <1>0, <2>1, Types DEF ReadInTime, Typed, State, IsOpen
<1>4. TypeOK' <=> Typed'
  BY Types DEF TypeOK, Typed, State
<1> QED BY <1>1, <1>2, <1>3, <1>4 DEF IInv

-----------------------------------------------------------------------------
(* One step per action *)

\* Reading a chunk starts no interval and touches nothing.
LEMMA ReadStep ==
  ASSUME IInv, NEW d \in Pipe, Read(d)
  PROVE  IInv'
<1>0. Typed /\ OpenTogether /\ Behind /\ InTime
  BY Types DEF IInv
<1>1. /\ pipe' \in [Pipe -> State] /\ pipe'[d].st = "write" /\ pipe'[d].moved = pipe[d].moved
      /\ \A e \in Pipe : e # d => pipe'[e] = pipe[e]
      /\ pipe[d].st = "read" /\ UNCHANGED <<open, age, quiet, why, freed>>
  BY <1>0 DEF Read, Typed, State
<1>2. Behind'
  BY <1>0, <1>1, KeepsBehind DEF Credit
<1>3. Idle > 0 => Follows' /\ ReadInTime(d)'
  BY <1>0, <1>1 DEF InTime, Follows, ReadInTime, IsOpen
<1> QED BY <1>1, <1>2, <1>3, Goes

\* Data that is carried gives credit, and resets quiet.
LEMMA WriteStep ==
  ASSUME IInv, NEW d \in Pipe, Write(d)
  PROVE  IInv'
<1>0. Typed /\ OpenTogether /\ Behind /\ InTime
  BY Types DEF IInv
<1>1. /\ pipe' \in [Pipe -> State] /\ pipe'[d].st = "read" /\ pipe'[d].moved = TRUE
      /\ pipe'[d].left \in 0..Check
      /\ \A e \in Pipe : e # d => pipe'[e] = pipe[e]
      /\ pipe[d].st = "write" /\ quiet' = 0 /\ UNCHANGED <<open, age, why, freed>>
  BY <1>0 DEF Write, Typed, State
<1>2. Behind'
  BY <1>1 DEF Behind, Credit
<1>3. Idle > 0 => Follows' /\ ReadInTime(d)'
  BY <1>0, <1>1, Types DEF InTime, Follows, ReadInTime, IsOpen, Typed
<1> QED BY <1>1, <1>2, <1>3, Goes

\* A copy that the deadline interrupts turns its credit into a touch: the data
\* is at most as old as the interval.
LEMMA WakeStep ==
  ASSUME IInv, NEW d \in Pipe, Wake(d)
  PROVE  IInv'
<1>0. Typed /\ OpenTogether /\ Behind /\ InTime
  BY Types DEF IInv
<1>1. /\ pipe' \in [Pipe -> State] /\ pipe'[d].st = "woken"
      /\ \A e \in Pipe : e # d => pipe'[e] = pipe[e]
      /\ pipe[d].st = "read" /\ pipe[d].left = 0 /\ age' = Touched(d)
      /\ UNCHANGED <<open, quiet, why, freed>>
  BY <1>0 DEF Wake, Typed, State
<1>2. age' \in {age, 0} /\ (pipe[d].moved => age' = 0)
  BY <1>0, <1>1, TouchedStep
<1>3. Behind'
  BY <1>0, <1>1, <1>2, KeepsBehind DEF Credit
<1>4. IsOpen
  BY <1>0, Ends DEF Wake
<1>5. Idle > 0 => Follows' /\ ReadInTime(d)'
  <2> SUFFICES ASSUME Idle > 0 PROVE Follows' /\ ReadInTime(d)'
    OBVIOUS
  <2>1. Follows /\ ReadInTime(d)
    BY <1>0 DEF InTime
  <2>2. CASE pipe[d].moved
    BY <1>0, <1>1, <1>2, <1>4, <2>1, <2>2, Types DEF Follows, ReadInTime, IsOpen, Typed
  <2>3. CASE ~pipe[d].moved
    <3>1. age' = age
      BY <1>0, <1>1, <2>3, TouchedStep
    <3> QED BY <1>0, <1>1, <2>1, <3>1, Types DEF Follows, ReadInTime, IsOpen, Typed
  <2> QED BY <2>2, <2>3
<1> QED BY <1>1, <1>2, <1>3, <1>5, Goes

\* A direction that finds the tunnel in use begins another interval.
LEMMA CheckIdleStep ==
  ASSUME IInv, NEW d \in Pipe, CheckIdle(d)
  PROVE  IInv'
<1>0. Typed /\ OpenTogether /\ Behind /\ InTime
  BY Types DEF IInv
<1>1. pipe[d].st = "woken" /\ ~Credit(d) /\ UNCHANGED <<age, quiet, freed>>
  BY DEF CheckIdle, Credit
<1>2. CASE age >= Idle
  BY <1>1, <1>2, Closes DEF CheckIdle
<1>3. CASE ~(age >= Idle)
  <2>1. /\ pipe' = [pipe EXCEPT ![d] = Copying] /\ UNCHANGED <<open, why>>
    BY <1>3 DEF CheckIdle
  <2>2. /\ pipe' \in [Pipe -> State] /\ pipe'[d] = Copying
        /\ \A e \in Pipe : e # d => pipe'[e] = pipe[e]
    BY <1>0, <2>1, Turns DEF Typed
  <2>3. Copying.st = "read" /\ Copying.moved = FALSE /\ (Idle > 0 => Copying.left = Check)
    BY DEF Copying
  <2>4. Behind'
    BY <1>0, <1>1, <2>2, KeepsBehind
  <2>5. Idle > 0 => Follows' /\ ReadInTime(d)'
    BY <1>0, <1>1, <1>3, <2>1, <2>2, <2>3, Types DEF InTime, Follows, ReadInTime, IsOpen, Typed
  <2> QED BY <1>1, <2>1, <2>2, <2>4, <2>5, Goes
<1> QED BY <1>2, <1>3

\* The end of one direction touches too, and leaves the other alone.
LEMMA EofStep ==
  ASSUME IInv, NEW d \in Pipe, Eof(d)
  PROVE  IInv'
<1>0. Typed /\ OpenTogether /\ Behind /\ InTime
  BY Types DEF IInv
<1>1. /\ pipe' \in [Pipe -> State] /\ pipe'[d] = Done /\ Done.st = "done"
      /\ \A e \in Pipe : e # d => pipe'[e] = pipe[e]
      /\ pipe[d].st = "read" /\ age' = Touched(d)
      /\ UNCHANGED <<open, quiet, why, freed>>
  BY <1>0, Turns DEF Eof, Typed, Done
<1>2. age' \in {age, 0} /\ (pipe[d].moved => age' = 0)
  BY <1>0, <1>1, TouchedStep
<1>3. Behind'
  BY <1>0, <1>1, <1>2, KeepsBehind DEF Credit
<1>4. Idle > 0 => Follows' /\ ReadInTime(d)'
  <2> SUFFICES ASSUME Idle > 0 PROVE Follows' /\ ReadInTime(d)'
    OBVIOUS
  <2>1. Follows /\ ReadInTime(d) /\ pipe[d] \in State
    BY <1>0 DEF InTime, Typed
  <2>2. ReadInTime(d)'
    BY <1>1 DEF ReadInTime
  <2>3. CASE pipe[d].moved
    BY <1>0, <1>1, <1>2, <2>1, <2>2, <2>3, Types DEF Follows, ReadInTime, IsOpen, Typed, State
  <2>4. CASE ~pipe[d].moved
    <3>1. age' = age
      BY <1>0, <1>1, <2>4, TouchedStep
    <3> QED BY <1>1, <2>1, <2>2, <3>1 DEF Follows, IsOpen
  <2> QED BY <2>3, <2>4
<1> QED BY <1>1, <1>2, <1>3, <1>4, Goes

\* An error, in either direction, closes the tunnel.
LEMMA FailedStep ==
  ASSUME IInv, NEW d \in Pipe, Failed(d, "error")
  PROVE  IInv'
<1>0. Typed
  BY Types DEF IInv
<1>1. age' \in {age, 0} /\ (Credit(d) => age' = 0)
  BY <1>0, TouchedStep DEF Failed, Credit
<1> QED BY <1>1, Closes DEF Failed

\* tunnelCopy returns when both directions have ended.
LEMMA ReturnStep ==
  ASSUME IInv, Return
  PROVE  IInv'
<1>0. Typed /\ TypeOK /\ HalfCloseKeepsOther /\ Behind /\ InTime
  BY Types DEF IInv
<1>1. \A d \in Pipe : pipe[d].st = "done"
  BY DEF Return
<1>2. UNCHANGED <<pipe, age, quiet>> /\ freed' = TRUE
  BY DEF Return
<1>3. /\ open' \in [{"client", "upstream"} -> BOOLEAN] /\ OpenTogether' /\ ~IsOpen'
      /\ why' \in {"open", "idle", "error", "eof"}
  BY <1>0, CloseBothStep DEF Return
<1>4. Typed'
  BY <1>0, <1>2, <1>3, Types DEF Typed
<1>5. HalfCloseKeepsOther'
  BY <1>1, <1>2 DEF HalfCloseKeepsOther
<1>6. Behind' /\ InTime'
  BY <1>0, <1>1, <1>2, <1>3 DEF Behind, Credit, InTime, Follows, ReadInTime
<1>7. TypeOK' <=> Typed'
  BY Types DEF TypeOK, Typed, State
<1> QED BY <1>3, <1>4, <1>5, <1>6, <1>7 DEF IInv

\* Time passes for both clocks, and only while every direction that waits to
\* read has some of its interval left.
LEMMA TickStep ==
  ASSUME IInv, Tick
  PROVE  IInv'
<1>0. Typed /\ HalfCloseKeepsOther /\ OpenTogether /\ Behind /\ InTime
  BY Types DEF IInv
<1>1. age' = Older(age) /\ quiet' = Older(quiet) /\ UNCHANGED <<open, why, freed>>
  BY DEF Tick
<1>2. /\ age' \in Nat /\ age' <= Cap /\ quiet' \in Nat /\ quiet' <= Cap
      /\ quiet' <= quiet + 1 /\ (age <= quiet => age' <= quiet')
      /\ (quiet <= age + Check => quiet' <= age' + Check)
  BY <1>0, <1>1, Types DEF Older, Typed
<1>3. ASSUME NEW d \in Pipe
      PROVE  /\ pipe'[d] \in State /\ pipe'[d].st = pipe[d].st /\ pipe'[d].moved = pipe[d].moved
             /\ pipe[d].left > 0 => pipe'[d].left = pipe[d].left - 1
  BY <1>0, Types DEF Tick, Typed, State
<1>4. pipe' \in [Pipe -> State]
  BY <1>3 DEF Tick
<1>5. Typed'
  BY <1>0, <1>1, <1>2, <1>4 DEF Typed
<1>6. HalfCloseKeepsOther' /\ OpenTogether'
  BY <1>0, <1>1, <1>3 DEF HalfCloseKeepsOther, OpenTogether
<1>7. Behind'
  BY <1>0, <1>2, <1>3 DEF Behind, Credit
<1>8. InTime'
  <2> SUFFICES ASSUME Idle > 0 PROVE Follows' /\ \A d \in Pipe : ReadInTime(d)'
    BY DEF InTime
  <2>1. Follows'
    BY <1>0, <1>1, <1>2 DEF InTime, Follows, IsOpen
  <2>2. ASSUME NEW d \in Pipe PROVE ReadInTime(d)'
    <3>1. ReadInTime(d) /\ pipe[d] \in State
      BY <1>0 DEF InTime, Typed
    <3>2. pipe[d].st # "woken" /\ (pipe[d].st = "read" => IsOpen /\ pipe[d].left # 0)
      BY <1>0, Ends DEF Tick, Due, Cut
    <3> QED BY <1>0, <1>1, <1>2, <1>3, <3>1, <3>2, Types DEF ReadInTime, IsOpen, Typed, State
  <2> QED BY <2>1, <2>2
<1>9. TypeOK' <=> Typed'
  BY Types DEF TypeOK, Typed, State
<1> QED BY <1>5, <1>6, <1>7, <1>8, <1>9 DEF IInv

-----------------------------------------------------------------------------
(* Theorems *)

\* The tunnel starts with both clocks at zero.
LEMMA InitInv == Init => IInv
<1> SUFFICES ASSUME Init PROVE IInv
  OBVIOUS
<1>1. Copying.st = "read" /\ Copying.moved = FALSE /\ Copying.left \in 0..Check
  BY TunnelAssumption DEF Copying
<1>2. Typed
  <2>1. pipe \in [Pipe -> State] /\ open \in [{"client", "upstream"} -> BOOLEAN]
    BY Turns DEF Init
  <2>2. age \in Nat /\ age <= Cap /\ quiet \in Nat /\ quiet <= Cap
    BY Types DEF Init
  <2>3. why \in {"open", "idle", "error", "eof"} /\ freed \in BOOLEAN
    BY DEF Init
  <2> QED BY <2>1, <2>2, <2>3 DEF Typed
<1>3. HalfCloseKeepsOther /\ OpenTogether /\ Behind
  BY DEF Init, HalfCloseKeepsOther, OpenTogether, Behind
<1>4. InTime
  BY <1>1, Types DEF Init, InTime, Follows, ReadInTime
<1> QED BY <1>2, <1>3, <1>4, Types DEF IInv

\* What the tunnel's clocks, connections and directions know of each other
\* holds in every state (pipe, touch and idleFor in tunnel.go).
THEOREM Inductive == Spec => []IInv
<1>1. IInv /\ [Next]_vars => IInv'
  <2> SUFFICES ASSUME IInv, [Next]_vars PROVE IInv'
    OBVIOUS
  <2>1. ASSUME NEW d \in Pipe, Reset(d) \/ Aborted(d) PROVE IInv'
    BY <2>1, FailedStep DEF Reset, Aborted
  <2>2. CASE UNCHANGED vars
    BY <2>2 DEF vars, IInv, TypeOK, HalfCloseKeepsOther, OpenTogether, Behind, Credit, InTime,
                Follows, ReadInTime, IsOpen
  <2> QED
    BY <2>1, <2>2, ReadStep, WriteStep, WakeStep, CheckIdleStep, EofStep, ReturnStep, TickStep
       DEF Next, Own
<1> QED BY <1>1, InitInv, PTL DEF Spec

\* The state of the tunnel has its type, whatever its peers do.
THEOREM TypeCorrect == Spec => []TypeOK
<1>1. IInv => TypeOK
  BY DEF IInv
<1> QED BY <1>1, Inductive, PTL

\* finish: the end of one direction never cuts the other.
THEOREM HalfCloseSafe == Spec => []HalfCloseKeepsOther
<1>1. IInv => HalfCloseKeepsOther
  BY DEF IInv
<1> QED BY <1>1, Inductive, PTL

\* For every idle timeout, a tunnel that carries nothing is closed within two
\* intervals of it, as long as one direction is not stuck in a write.
THEOREM IdleClosesInTime == Spec => []IdleCloses
<1>1. IInv => IdleCloses
  BY DEF IInv, IdleCloses, InTime, ReadInTime
<1> QED BY <1>1, Inductive, PTL

\* For every idle timeout, a tunnel is closed for idleness only when nothing
\* was carried for so long, but for the data of a copy that has not returned.
THEOREM IdleClosesNoSooner == Spec => IdleCloseJustified
<1>1. ASSUME IInv, [Next]_vars, why = "open", why' = "idle", ~(vars' = vars)
      PROVE  quiet >= Idle \/ \E d \in Pipe : Credit(d)
  <2>0. Typed /\ Behind
    BY <1>1, Types DEF IInv
  <2>1. PICK d \in Pipe : CheckIdle(d) /\ age >= Idle
    BY <1>1 DEF Next, Own, Read, Write, Eof, Reset, Wake, CheckIdle, Aborted, Failed, Return, Tick,
                CloseBoth
  <2> QED BY <2>0, <2>1, Types DEF Behind, Typed
<1>2. IInv /\ [Next]_vars =>
        [why = "open" /\ why' = "idle" =>
           quiet >= Idle \/ \E d \in Pipe : pipe[d].moved /\ pipe[d].st \in {"read", "write"}]_vars
  BY <1>1 DEF Credit
<1> QED BY <1>2, Inductive, PTL DEF Spec, IdleCloseJustified

-----------------------------------------------------------------------------
(* A closed tunnel *)

\* Both connections are closed exactly when something has closed the tunnel.
ClosedOnce == why # "open" <=> ~IsOpen

\* The slot is free only when both directions have ended.
FreedLast == freed => why # "open" /\ \A d \in Pipe : pipe[d].st = "done"

\* Once anything has closed the tunnel, neither direction can stay where it
\* is: it has ended, it is about to look at the clock, or what it waits for
\* has been closed under it.  The client's slot is freed after both have
\* ended, never before.
NobodyStaysBehind ==
  /\ why # "open" => \A d \in Pipe : pipe[d].st \in {"done", "woken"} \/ Cut(d)
  /\ freed => why # "open" /\ \A d \in Pipe : pipe[d].st = "done"

\* A closed tunnel carries no data and is never opened again, and the reason
\* recorded for the close is the first one.
ClosedCarriesNothing == [][why # "open" => why' = why /\ ~open'["client"]
                                          /\ (quiet' = quiet \/ quiet' = Older(quiet))]_vars

\* The steps keep both facts.
LEMMA ClosedSteps ==
  ASSUME IInv, ClosedOnce, FreedLast, [Next]_vars
  PROVE  ClosedOnce' /\ FreedLast'
<1>0. Typed /\ Pipe = {"up", "down"}
  BY Types DEF IInv, Pipe
<1>1. ASSUME NEW reason \in {"idle", "error", "eof"}, CloseBoth(reason)
      PROVE  ClosedOnce' /\ why' # "open"
  BY <1>0, <1>1 DEF CloseBoth, Closed, ClosedOnce, IsOpen
<1>2. ASSUME UNCHANGED <<open, why>> PROVE ClosedOnce'
  BY <1>2 DEF ClosedOnce, IsOpen
<1>3. ClosedOnce' /\ (why # "open" => why' # "open")
  BY <1>1, <1>2 DEF Next, Own, Read, Write, Eof, Reset, Wake, CheckIdle, Aborted, Failed, Return,
                    Tick, vars
<1>4. CASE ~freed /\ ~freed'
  BY <1>3, <1>4 DEF FreedLast
<1>5. CASE ~freed /\ freed'
  <2>1. Return
    BY <1>5 DEF Next, Own, Read, Write, Eof, Reset, Wake, CheckIdle, Aborted, Failed, Tick, vars
  <2> QED BY <1>1, <2>1 DEF Return, FreedLast
<1>6. CASE freed
  <2>1. \A d \in Pipe : pipe[d].st = "done"
    BY <1>6 DEF FreedLast
  <2>2. UNCHANGED pipe
    BY <1>6, <2>1 DEF Next, Own, Read, Write, Eof, Reset, Wake, CheckIdle, Aborted, Cut, Return,
                      Tick, vars
  <2> QED BY <1>3, <1>6, <2>1, <2>2 DEF FreedLast
<1> QED BY <1>3, <1>4, <1>5, <1>6

\* The tunnel is closed once, and freed last, in every state.
LEMMA ClosedInv == Spec => [](IInv /\ ClosedOnce /\ FreedLast)
<1>1. Init => ClosedOnce /\ FreedLast
  BY DEF Init, ClosedOnce, FreedLast, IsOpen
<1>2. IInv /\ ClosedOnce /\ FreedLast /\ [Next]_vars => ClosedOnce' /\ FreedLast'
  BY ClosedSteps
<1> QED BY <1>1, <1>2, Inductive, PTL DEF Spec

\* closeBoth leaves no direction waiting for something that can still last,
\* and the client's slot is freed only after both directions have returned
\* (tunnelCopy's wg.Wait).
THEOREM CloseReachesBoth == Spec => []NobodyStaysBehind
<1>1. ASSUME IInv, ClosedOnce, FreedLast PROVE NobodyStaysBehind
  <2> SUFFICES ASSUME why # "open", NEW d \in Pipe
               PROVE  pipe[d].st \in {"done", "woken"} \/ Cut(d)
    BY <1>1 DEF NobodyStaysBehind, FreedLast
  <2>1. ~open[Src(d)] /\ ~open[Dst(d)]
    BY <1>1, Ends DEF ClosedOnce, IInv
  <2>2. pipe[d].st \in {"read", "write", "woken", "done"}
    BY <1>1, Types DEF IInv, Typed, State
  <2> QED BY <2>1, <2>2 DEF Cut
<1> QED BY <1>1, ClosedInv, PTL

\* Nothing is carried through a tunnel after closeBoth, and a second close
\* (finish of the other direction, tunnelCopy's own) changes nothing.
THEOREM ClosedForGood == Spec => ClosedCarriesNothing
<1>1. ASSUME IInv, ClosedOnce, [Next]_vars, why # "open"
      PROVE  why' = why /\ ~open'["client"] /\ (quiet' = quiet \/ quiet' = Older(quiet))
  <2>1. \A d \in Pipe : ~open[Src(d)] /\ ~open[Dst(d)]
    BY <1>1, Ends DEF ClosedOnce, IInv
  <2>2. why' = why
    BY <1>1 DEF Next, Own, Read, Write, Eof, Reset, Wake, CheckIdle, Aborted, Failed, Return, Tick,
                CloseBoth, vars
  <2>3. ~open'["client"]
    BY <1>1 DEF ClosedOnce, IsOpen, Next, Own, Read, Write, Eof, Reset, Wake, CheckIdle, Aborted,
                Failed, Return, Tick, CloseBoth, Closed, vars
  <2>4. quiet' = quiet \/ quiet' = Older(quiet)
    BY <1>1, <2>1 DEF Next, Own, Read, Write, Eof, Reset, Wake, CheckIdle, Aborted, Failed, Return,
                      Tick, vars
  <2> QED BY <2>2, <2>3, <2>4
<1>2. IInv /\ ClosedOnce /\ [Next]_vars =>
        [why # "open" => why' = why /\ ~open'["client"]
                         /\ (quiet' = quiet \/ quiet' = Older(quiet))]_vars
  BY <1>1
<1> QED BY <1>2, ClosedInv, PTL DEF Spec, ClosedCarriesNothing
=============================================================================
