------------------------------- MODULE Tunnel -------------------------------
(***************************************************************************)
(* internal/proxy/tunnel.go: tunnelCopy.  The two pipe goroutines share    *)
(* tunnelState.last and the two connections.  io.Copy alternates between   *)
(* waiting to read from src, which the read deadline interrupts, and       *)
(* writing to dst, which nothing interrupts but closing the connection.    *)
(*                                                                         *)
(* Clocks are ages that saturate, so the model covers tunnels of any       *)
(* length.  A tick is a slice of the idle timeout; a deadline is served    *)
(* before the clock moves past it.                                         *)
(***************************************************************************)
EXTENDS Integers

CONSTANTS Idle,     \* tunnel_idle_timeout in ticks, 0: never
          Check     \* how often a copy wakes: max(idle/4, 10ms)

ASSUME TunnelAssumption == Idle \in Nat /\ Check \in Nat \ {0}

Pipe == {"up", "down"}
Src(d) == IF d = "up" THEN "client" ELSE "upstream"
Dst(d) == IF d = "up" THEN "upstream" ELSE "client"

\* Ages saturate here, past every value the properties tell apart.
Cap == Idle + 2 * Check + 1

VARIABLES
  pipe,    \* per direction: step of the loop, deadline left, n > 0 so far
  open,    \* per connection: not closed
  age,     \* time since tunnelState.last
  quiet,   \* history: time since data was last carried in either direction
  why,     \* history: what closed the connections first
  freed    \* tunnelCopy has returned and the client's slot is free

vars == <<pipe, open, age, quiet, why, freed>>

-----------------------------------------------------------------------------
\* Mutated form: the copy wakes half as often.
CopyingSlow == [st |-> "read", left |-> 2 * Check, moved |-> FALSE]

\* One turn of pipe's loop begins: the deadline is set, io.Copy starts.
Copying == [st |-> "read", left |-> IF Idle > 0 THEN Check ELSE 0, moved |-> FALSE]
Done == [st |-> "done", left |-> 0, moved |-> FALSE]

\* Mutated form: only the client's connection is closed.
ClosedClient == [open EXCEPT !["client"] = FALSE]

\* closeBoth.
Closed == [c \in {"client", "upstream"} |-> FALSE]

CloseBoth(reason) ==
  /\ open' = Closed
  /\ why' = IF why = "open" THEN reason ELSE why

\* Mutated form: touch is forgotten.
TouchedNever(d) == age

\* Mutated form: a copy that moved nothing touches too.
TouchedAlways(d) == 0

\* The age of tunnelState.last once io.Copy has returned: touch if n > 0.
Touched(d) == IF pipe[d].moved THEN 0 ELSE age

\* The copy reads a chunk.
Read(d) ==
  /\ pipe[d].st = "read" /\ open[Src(d)]
  /\ pipe' = [pipe EXCEPT ![d].st = "write"]
  /\ UNCHANGED <<open, age, quiet, why, freed>>

\* dst takes the chunk.
Write(d) ==
  /\ pipe[d].st = "write" /\ open[Dst(d)]
  /\ pipe' = [pipe EXCEPT ![d].st = "read", ![d].moved = TRUE]
  /\ quiet' = 0
  /\ UNCHANGED <<open, age, why, freed>>

\* The read deadline passes: io.Copy returns and a copy that moved data
\* touches tunnelState.last.
Wake(d) ==
  /\ Idle > 0 /\ pipe[d].st = "read" /\ pipe[d].left = 0 /\ open[Src(d)]
  /\ age' = Touched(d)
  /\ pipe' = [pipe EXCEPT ![d].st = "woken"]
  /\ UNCHANGED <<open, quiet, why, freed>>

\* idleFor() >= idle closes the tunnel; otherwise the loop goes round.
CheckIdle(d) ==
  /\ pipe[d].st = "woken"
  /\ IF age >= Idle
     THEN CloseBoth("idle") /\ pipe' = [pipe EXCEPT ![d] = Done]
     ELSE pipe' = [pipe EXCEPT ![d] = Copying] /\ UNCHANGED <<open, why>>
  /\ UNCHANGED <<age, quiet, freed>>

\* Mutated form: the end of one direction ends the other.
EofClosesBoth(d) ==
  /\ pipe[d].st = "read" /\ open[Src(d)]
  /\ age' = Touched(d)
  /\ pipe' = [pipe EXCEPT ![d] = Done]
  /\ CloseBoth("eof")
  /\ UNCHANGED <<quiet, freed>>

\* src ends: finish half-closes dst and leaves the other direction alone.
\* Both ends have CloseWrite, a *clientConn or a *net.TCPConn each: what finish
\* does with a dst that has none is not reached.
Eof(d) ==
  /\ pipe[d].st = "read" /\ open[Src(d)]
  /\ age' = Touched(d)
  /\ pipe' = [pipe EXCEPT ![d] = Done]
  /\ UNCHANGED <<open, quiet, why, freed>>

\* A read or write fails, or finds its connection closed by the other pipe:
\* finish closes both.
Failed(d, reason) ==
  /\ age' = Touched(d)
  /\ pipe' = [pipe EXCEPT ![d] = Done]
  /\ CloseBoth(reason)
  /\ UNCHANGED <<quiet, freed>>

Reset(d) == pipe[d].st \in {"read", "write"} /\ Failed(d, "error")

\* What the copy waits for has been closed under it.
Cut(d) ==
  \/ pipe[d].st = "read" /\ ~open[Src(d)]
  \/ pipe[d].st = "write" /\ ~open[Dst(d)]

Aborted(d) == Cut(d) /\ Failed(d, "error")

\* Both pipes have returned: tunnelCopy closes what is still open, and the
\* deferred client.Close frees the slot.
Return ==
  /\ \A d \in Pipe : pipe[d].st = "done"
  /\ ~freed
  /\ CloseBoth("eof")
  /\ freed' = TRUE
  /\ UNCHANGED <<pipe, age, quiet>>

Older(a) == IF a < Cap THEN a + 1 ELSE Cap

Due(d) == \/ pipe[d].st = "woken"
          \/ Idle > 0 /\ pipe[d].st = "read" /\ pipe[d].left = 0
          \/ Cut(d)

Tick ==
  /\ ~freed
  /\ \A d \in Pipe : ~Due(d)
  /\ age' = Older(age) /\ quiet' = Older(quiet)
  /\ pipe' = [d \in Pipe |-> [pipe[d] EXCEPT !.left = IF @ > 0 THEN @ - 1 ELSE 0]]
  /\ UNCHANGED <<open, why, freed>>

Init ==
  /\ pipe = [d \in Pipe |-> Copying]
  /\ open = [c \in {"client", "upstream"} |-> TRUE]
  /\ age = 0 /\ quiet = 0 /\ why = "open" /\ freed = FALSE

Own(d) == Wake(d) \/ CheckIdle(d) \/ Aborted(d)

Next ==
  \/ \E d \in Pipe : Read(d) \/ Write(d) \/ Eof(d) \/ Reset(d) \/ Own(d)
  \/ Return \/ Tick

Spec == Init /\ [][Next]_vars

\* The goroutines run and time passes; peers may do nothing for ever.
FairSpec == Spec /\ (\A d \in Pipe : WF_vars(Own(d))) /\ WF_vars(Return) /\ WF_vars(Tick)

-----------------------------------------------------------------------------
(* Properties *)

\* Type invariant.
TypeOK ==
  /\ pipe \in [Pipe -> [st : {"read", "write", "woken", "done"}, left : 0..Check,
                        moved : BOOLEAN]]
  /\ open \in [{"client", "upstream"} -> BOOLEAN]
  /\ age \in 0..Cap /\ quiet \in 0..Cap
  /\ why \in {"open", "idle", "error", "eof"} /\ freed \in BOOLEAN

\* The tunnel is never closed for idleness while data flowed within the
\* timeout, except data of a copy that has not returned since it carried it.
IdleCloseJustified ==
  [][why = "open" /\ why' = "idle" =>
       quiet >= Idle \/ \E d \in Pipe : pipe[d].moved /\ pipe[d].st \in {"read", "write"}]_vars

\* A tunnel that carries nothing is closed soon after the timeout, as long as
\* one direction is not stuck in a write.
IdleCloses ==
  Idle > 0 /\ (\E d \in Pipe : pipe[d].st = "read") => quiet <= Idle + 2 * Check

\* config.example.yaml "tunnel_idle_timeout: 1h # close tunnels with no data in
\* either direction": the same with no condition on what the pipes wait for.
IdleAlwaysCloses == Idle > 0 /\ ~freed => quiet <= Idle + 2 * Check

\* The end of one direction does not cut the other: the connections close
\* only for idleness, after an error, or when both directions have ended.
HalfCloseKeepsOther ==
  why = "eof" => \A d \in Pipe : pipe[d].st = "done"

\* Once anything closes the tunnel both pipes end and the slot is freed.
ClosedIsFreed == why # "open" ~> freed
=============================================================================
