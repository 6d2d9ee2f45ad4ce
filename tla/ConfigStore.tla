---------------------------- MODULE ConfigStore ----------------------------
(***************************************************************************)
(* internal/config/store.go, started as cmd/proxy-acl/main.go does: load,  *)
(* add the directory watch, then watchLoop.  The config file is edited at  *)
(* any time, in place (a half-written file is visible between two writes)  *)
(* or by rename.  Once the watch is added the kernel queues an event per   *)
(* change, or, when its queue is full, an error in the place of events.    *)
(* The content of the file is abstract; Valid contents are the ones Parse  *)
(* accepts.                                                                *)
(***************************************************************************)
EXTENDS Integers, Sequences

CONSTANTS
  Content,    \* what the file may hold
  Valid,      \* the contents that load
  Debounce,   \* reloadDebounce, in ticks
  MaxEdits    \* bound: changes made to the file

ASSUME ConfigStoreAssumption ==
  Valid \subseteq Content /\ Valid # {} /\ Debounce \in Nat \ {0} /\ MaxEdits \in Nat

Off == -1

\* Store.cur before the first load.
NoConfig == "none"

VARIABLES
  file,     \* the content on disk
  edits,    \* changes made so far
  events,   \* queued by the watcher: TRUE for a change of the file, FALSE for
            \* another event or an error
  hup,      \* a SIGHUP waits in the channel
  timer,    \* ticks until the debounce timer fires, 0 fired, Off stopped
  pc,       \* "load" | "watch" | "notify" | "loop" | "apply" | "stopped" | "killed"
  cur,      \* Store.cur
  level,    \* the log level in force, as the config it came from
  calm,     \* history: ticks since watchLoop took a change off the queue
  missed    \* history: the file changed and nothing will make the loop read it

vars == <<file, edits, events, hup, timer, pc, cur, level, calm, missed>>

Watching == pc \in {"notify", "loop", "apply"}

-----------------------------------------------------------------------------
(* The world *)

\* A change on its way: queued by the watcher, or taken and being debounced.
Underway == (\E i \in 1..Len(events) : events[i]) \/ timer # Off

\* A write to the file, or a rename over it.  Its event may be lost to an
\* overflow of the queue (ErrEventOverflow).
Edit(c, lost) ==
  /\ edits < MaxEdits /\ pc # "killed" /\ (lost => Watching)
  /\ file' = c /\ edits' = edits + 1
  /\ events' = IF Watching THEN Append(events, ~lost) ELSE events
  /\ missed' = IF Watching THEN lost /\ ~Underway ELSE missed \/ pc = "watch"
  /\ UNCHANGED <<hup, timer, pc, cur, level, calm>>

\* A chmod, or a change of another file of the directory.
Noise ==
  /\ edits < MaxEdits /\ Watching
  /\ edits' = edits + 1 /\ events' = Append(events, FALSE)
  /\ UNCHANGED <<file, hup, timer, pc, cur, level, calm, missed>>

\* SIGHUP: kept in the channel's one slot once signal.Notify has been called;
\* before that the signal ends the process.
Hup ==
  /\ pc \notin {"stopped", "killed"}
  /\ IF pc \in {"loop", "apply"} THEN hup' = TRUE /\ UNCHANGED pc
     ELSE pc' = "killed" /\ UNCHANGED hup
  /\ UNCHANGED <<file, edits, events, timer, cur, level, calm, missed>>

Tick ==
  /\ timer > 0
  /\ timer' = timer - 1
  /\ calm' = IF calm < Debounce THEN calm + 1 ELSE calm
  /\ UNCHANGED <<file, edits, events, hup, pc, cur, level, missed>>

-----------------------------------------------------------------------------
(* The store *)

\* Load: the config that becomes active, the previous one on an error.
Loaded == IF file \in Valid THEN file ELSE cur

\* NewStore: the first load must succeed.
NewStore ==
  /\ pc = "load"
  /\ IF file \in Valid THEN cur' = file /\ level' = file /\ pc' = "watch"
     ELSE pc' = "stopped" /\ UNCHANGED <<cur, level>>
  /\ UNCHANGED <<file, edits, events, hup, timer, calm, missed>>

\* Watch: the directory is watched and the goroutine starts.
Watch ==
  /\ pc = "watch"
  /\ pc' = "notify"
  /\ UNCHANGED <<file, edits, events, hup, timer, cur, level, calm, missed>>

\* The watch cannot be added: run returns.
WatchFails ==
  /\ pc = "watch"
  /\ pc' = "stopped"
  /\ UNCHANGED <<file, edits, events, hup, timer, cur, level, calm, missed>>

Notify ==
  /\ pc = "notify"
  /\ pc' = "loop"
  /\ UNCHANGED <<file, edits, events, hup, timer, cur, level, calm, missed>>

\* Mutated form: the first event of a burst sets the timer.
ArmedOnce == IF timer = Off THEN Debounce ELSE timer

\* Mutated form: a timer that is running is stopped.
ArmedToggled == IF timer = Off THEN Debounce ELSE Off

\* Mutated form: the interval is added to what is left of the last one.
ArmedExtended == IF timer = Off THEN Debounce ELSE timer + Debounce

\* debounce.Reset.
Armed == Debounce

\* watchLoop takes an event, or an error, which it only logs.  (Neither channel
\* is closed before the loop ends.)
Event ==
  /\ pc = "loop" /\ events # <<>>
  /\ events' = Tail(events)
  /\ timer' = IF Head(events) THEN Armed ELSE timer
  /\ calm' = IF Head(events) THEN 0 ELSE calm
  /\ UNCHANGED <<file, edits, hup, pc, cur, level, missed>>

\* Reload reads the file and stores what it holds; apply follows.
Reload ==
  /\ cur' = Loaded
  /\ pc' = IF file \in Valid THEN "apply" ELSE "loop"
  /\ missed' = FALSE
  /\ UNCHANGED <<file, edits, events, level, calm>>

TimerReload == pc = "loop" /\ timer = 0 /\ timer' = Off /\ Reload /\ UNCHANGED hup

HupReload == pc = "loop" /\ hup /\ hup' = FALSE /\ Reload /\ UNCHANGED timer

Apply ==
  /\ pc = "apply"
  /\ level' = cur /\ pc' = "loop"
  /\ UNCHANGED <<file, edits, events, hup, timer, cur, calm, missed>>

\* ctx is cancelled.
Stop ==
  /\ pc = "loop"
  /\ pc' = "stopped"
  /\ UNCHANGED <<file, edits, events, hup, timer, cur, level, calm, missed>>

Init ==
  /\ file \in Content /\ edits = 0 /\ events = <<>> /\ hup = FALSE /\ timer = Off
  /\ pc = "load" /\ cur = NoConfig /\ level = NoConfig /\ calm = 0 /\ missed = FALSE

Loop == NewStore \/ Watch \/ Notify \/ Event \/ TimerReload \/ HupReload \/ Apply

Next ==
  \/ Loop \/ WatchFails \/ Noise \/ Hup \/ Tick \/ Stop
  \/ \E c \in Content, lost \in BOOLEAN : Edit(c, lost)

Spec == Init /\ [][Next]_vars

\* The process runs and time passes; nobody has to edit, signal or stop it.
FairSpec == Spec /\ WF_vars(Loop) /\ WF_vars(Event) /\ WF_vars(TimerReload) /\ WF_vars(Tick)

-----------------------------------------------------------------------------
(* Properties *)

\* Type invariant.
TypeOK ==
  /\ file \in Content /\ edits \in 0..MaxEdits /\ hup \in BOOLEAN /\ missed \in BOOLEAN
  /\ events \in Seq(BOOLEAN) /\ Len(events) <= MaxEdits
  /\ timer \in Off..Debounce /\ calm \in 0..Debounce
  /\ cur \in Content \cup {NoConfig} /\ level \in Content \cup {NoConfig}
  /\ pc \in {"load", "watch", "notify", "loop", "apply", "stopped", "killed"}

\* store.go:16 "coalesces the burst of events an editor save produces": a
\* change is read only after a debounce interval in which the loop took no
\* further one off the queue.
BurstCoalesced == [][timer = 0 /\ timer' = Off /\ pc' # "killed" => calm >= Debounce]_vars

Settled == edits = MaxEdits /\ file \in Valid /\ Watching

\* Once the file stops changing and loads, it becomes the active config and
\* its log level is set, whatever torn contents were read on the way, unless
\* the last change came before the watch was in place or was lost to an overflow
\* of the event queue.
Converges == Settled /\ ~missed ~> (cur = file /\ level = file) \/ pc \in {"stopped", "killed"}
=============================================================================
