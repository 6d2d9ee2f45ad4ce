--------------------------- MODULE AccessLogProofs ---------------------------
(***************************************************************************)
(* Proofs about ConfigStore and AccessLog, for every set of contents, every *)
(* assignment of log levels to them and every debounce interval.  StoreInv  *)
(* is the inductive invariant of the config store and LogInv, which rests   *)
(* on it, that of the log above it.  ReadInv says what the next reload will *)
(* find.                                                                    *)
(***************************************************************************)
EXTENDS AccessLog, TLAPS

\* Zenon first: SMT is for the leaves that need arithmetic or records.
USE ZenonT(4), SMTT(15)

\* From the first load on only contents that loaded are active or in force,
\* and what is left of the debounce interval is what has not been calm yet.
StoreInv ==
  /\ TypeOK
  /\ Len(events) <= edits
  /\ pc \notin {"load", "stopped", "killed"} => cur \in Valid /\ level \in Valid
  /\ timer # Off => timer + calm >= Debounce

\* A line whose level was found to be on is still on unless the level was
\* raised; other is only used beside a key.
LogInv ==
  /\ counted \subseteq {"allow", "deny", "error"}
  /\ other \in BOOLEAN /\ raised \in BOOLEAN
  /\ other => counted # {}
  /\ line = NoLine \/ \E l \in Line : line = {l}
  /\ Pending \/ line # NoLine => level \in Valid
  /\ ~raised => \A l \in line : Enabled(l.sev)
  /\ SummariesWritten

IInv == StoreInv /\ LogInv

-----------------------------------------------------------------------------
(* The config store *)

\* The watcher's queue grows by one event and loses its head.
LEMMA Queue ==
  ASSUME NEW q \in Seq(BOOLEAN), NEW b \in BOOLEAN
  PROVE  /\ Append(q, b) \in Seq(BOOLEAN) /\ Len(Append(q, b)) = Len(q) + 1
         /\ q # <<>> => /\ Tail(q) \in Seq(BOOLEAN) /\ Len(Tail(q)) = Len(q) - 1
                        /\ Head(q) \in BOOLEAN
         /\ Len(q) \in Nat
BY SMT

\* Before the first load nothing is active.
LEMMA InitStoreInv == Init => StoreInv
<1> SUFFICES ASSUME Init PROVE StoreInv
  OBVIOUS
<1>1. <<>> \in Seq(BOOLEAN) /\ Len(<<>>) = 0
  BY SMT
<1>2. 0 \in 0..MaxEdits /\ 0 <= MaxEdits /\ 0 \in 0..Debounce /\ Off \in Off..Debounce /\ 0 <= 0
  BY ConfigStoreAssumption, SMT DEF Off
<1>3. TypeOK
  BY <1>1, <1>2 DEF Init, TypeOK
<1> QED BY <1>1, <1>2, <1>3 DEF Init, StoreInv

\* A change of the file or of its directory: one event more at most.
LEMMA EditStoreInv ==
  ASSUME StoreInv, \/ \E c \in Content, lost \in BOOLEAN : Edit(c, lost)
                   \/ Noise
  PROVE  StoreInv'
<1>1. /\ edits < MaxEdits /\ edits' = edits + 1 /\ file' \in Content /\ missed' \in BOOLEAN
      /\ \/ events' = events
         \/ events' = Append(events, TRUE)
         \/ events' = Append(events, FALSE)
      /\ UNCHANGED <<hup, timer, pc, cur, level, calm>>
  <2>1. ASSUME NEW c \in Content, NEW lost \in BOOLEAN, Edit(c, lost)
        PROVE  missed' \in BOOLEAN /\ (events' = events \/ events' = Append(events, ~lost))
    <3>1. (lost /\ ~Underway) \in BOOLEAN /\ (missed \/ pc = "watch") \in BOOLEAN
      OBVIOUS
    <3> QED BY <2>1, <3>1 DEF Edit
  <2> QED BY <2>1 DEF Edit, Noise, StoreInv, TypeOK
<1>2. events \in Seq(BOOLEAN) /\ edits \in Nat /\ Len(events) <= edits /\ edits <= MaxEdits
  BY ConfigStoreAssumption, SMT DEF StoreInv, TypeOK
<1>3. /\ events' \in Seq(BOOLEAN) /\ Len(events') \in Nat /\ Len(events) \in Nat
      /\ Len(events') <= Len(events) + 1
  <2>1. events' \in Seq(BOOLEAN) /\ Len(events') \in {Len(events), Len(events) + 1}
    BY <1>1, <1>2, Queue, Zenon
  <2>2. Len(events) \in Nat
    BY <1>2, Queue, Zenon
  <2> QED BY <2>1, <2>2, SMT
<1>4. edits' \in 0..MaxEdits /\ Len(events') <= edits' /\ Len(events') <= MaxEdits
  BY <1>1, <1>2, <1>3, ConfigStoreAssumption, SMT
<1>5. TypeOK'
  BY <1>1, <1>3, <1>4 DEF StoreInv, TypeOK
<1> QED BY <1>1, <1>4, <1>5 DEF StoreInv

\* The debounce timer runs down as the calm lasts.
LEMMA TickStoreInv ==
  ASSUME StoreInv, Tick
  PROVE  StoreInv'
<1>1. /\ timer > 0 /\ timer' = timer - 1
      /\ calm' = IF calm < Debounce THEN calm + 1 ELSE calm
      /\ UNCHANGED <<file, edits, events, hup, pc, cur, level, missed>>
  BY DEF Tick
<1>2. timer \in Off..Debounce /\ calm \in 0..Debounce /\ Off = -1 /\ Debounce \in Nat
  BY ConfigStoreAssumption DEF StoreInv, TypeOK, Off
<1>3. timer # Off /\ timer + calm >= Debounce
  BY <1>1, <1>2, SMT DEF StoreInv
<1>4. timer' \in Off..Debounce /\ calm' \in 0..Debounce /\ timer' + calm' >= Debounce
  BY <1>1, <1>2, <1>3, SMT
<1>5. TypeOK'
  BY <1>1, <1>4 DEF StoreInv, TypeOK
<1> QED BY <1>1, <1>4, <1>5 DEF StoreInv

\* A change taken off the queue starts the interval and the calm afresh.
LEMMA EventStoreInv ==
  ASSUME StoreInv, Event
  PROVE  StoreInv'
<1>1. /\ events # <<>> /\ events' = Tail(events)
      /\ timer' = IF Head(events) THEN Debounce ELSE timer
      /\ calm' = IF Head(events) THEN 0 ELSE calm
      /\ UNCHANGED <<file, edits, hup, pc, cur, level, missed>>
  BY DEF Event, Armed
<1>2. /\ events \in Seq(BOOLEAN) /\ edits \in Nat /\ Len(events) <= edits
      /\ Len(events) <= MaxEdits
  BY ConfigStoreAssumption, SMT DEF StoreInv, TypeOK
<1>3. events' \in Seq(BOOLEAN) /\ Len(events') <= edits' /\ Len(events') <= MaxEdits
  <2>1. /\ events' \in Seq(BOOLEAN) /\ Len(events') = Len(events) - 1
        /\ Len(events) \in Nat /\ edits' = edits
    BY <1>1, <1>2, Queue, Zenon
  <2> QED BY <1>2, <2>1, ConfigStoreAssumption, SMT
<1>4. /\ Debounce \in Off..Debounce /\ 0 \in 0..Debounce /\ Debounce + 0 >= Debounce
  BY ConfigStoreAssumption, SMT DEF Off
<1>5. timer' \in Off..Debounce /\ calm' \in 0..Debounce
  BY <1>1, <1>4 DEF StoreInv, TypeOK
<1>6. timer' # Off => timer' + calm' >= Debounce
  BY <1>1, <1>4 DEF StoreInv
<1>7. TypeOK'
  BY <1>1, <1>3, <1>5 DEF StoreInv, TypeOK
<1> QED BY <1>1, <1>3, <1>6, <1>7 DEF StoreInv

\* A reload keeps the previous config when the file does not load.
LEMMA ReloadStoreInv ==
  ASSUME StoreInv, TimerReload \/ HupReload
  PROVE  StoreInv'
<1>1. /\ pc = "loop" /\ cur' = IF file \in Valid THEN file ELSE cur
      /\ pc' \in {"apply", "loop"} /\ missed' = FALSE
      /\ UNCHANGED <<file, edits, events, level, calm>>
      /\ timer' = timer \/ timer' = Off
      /\ hup' = hup \/ hup' = FALSE
  BY DEF TimerReload, HupReload, Reload, Loaded
<1>2. cur \in Valid /\ level \in Valid
  BY <1>1 DEF StoreInv
<1>3. cur' \in Valid /\ cur' \in Content
  BY <1>1, <1>2, ConfigStoreAssumption
<1>4. timer' \in Off..Debounce
  <2>1. Off \in Off..Debounce
    BY ConfigStoreAssumption, SMT DEF Off
  <2> QED BY <1>1, <2>1 DEF StoreInv, TypeOK
<1>5. TypeOK'
  BY <1>1, <1>3, <1>4 DEF StoreInv, TypeOK
<1> QED BY <1>1, <1>2, <1>3, <1>5 DEF StoreInv

\* Every step of the config store keeps its invariant.
LEMMA NextStoreInv == StoreInv /\ [Next]_vars => StoreInv'
<1> SUFFICES ASSUME StoreInv, [Next]_vars PROVE StoreInv'
  OBVIOUS
<1>1. ASSUME NewStore PROVE StoreInv'
  <2>1. /\ pc = "load" /\ UNCHANGED <<file, edits, events, hup, timer, calm, missed>>
        /\ \/ file \in Valid /\ cur' = file /\ level' = file /\ pc' = "watch"
           \/ pc' = "stopped" /\ UNCHANGED <<cur, level>>
    BY <1>1 DEF NewStore
  <2>2. TypeOK'
    BY <2>1 DEF StoreInv, TypeOK
  <2> QED BY <2>1, <2>2 DEF StoreInv
<1>2. ASSUME Watch \/ WatchFails \/ Notify \/ Stop PROVE StoreInv'
  <2>1. /\ pc \in {"watch", "notify", "loop"} /\ pc' \in {"notify", "loop", "stopped"}
        /\ UNCHANGED <<file, edits, events, hup, timer, cur, level, calm, missed>>
    BY <1>2 DEF Watch, WatchFails, Notify, Stop
  <2>2. TypeOK'
    BY <2>1 DEF StoreInv, TypeOK
  <2> QED BY <2>1, <2>2 DEF StoreInv
<1>3. ASSUME Apply PROVE StoreInv'
  <2>1. /\ pc = "apply" /\ level' = cur /\ pc' = "loop"
        /\ UNCHANGED <<file, edits, events, hup, timer, cur, calm, missed>>
    BY <1>3 DEF Apply
  <2>2. TypeOK'
    BY <2>1 DEF StoreInv, TypeOK
  <2> QED BY <2>1, <2>2 DEF StoreInv
<1>4. ASSUME Hup PROVE StoreInv'
  <2>1. /\ UNCHANGED <<file, edits, events, timer, cur, level, calm, missed>>
        /\ \/ hup' = TRUE /\ UNCHANGED pc
           \/ pc' = "killed" /\ UNCHANGED hup
    BY <1>4 DEF Hup
  <2>2. TypeOK'
    BY <2>1 DEF StoreInv, TypeOK
  <2> QED BY <2>1, <2>2 DEF StoreInv
<1>5. ASSUME UNCHANGED vars PROVE StoreInv'
  BY <1>5 DEF vars, StoreInv, TypeOK
<1> QED
  BY <1>1, <1>2, <1>3, <1>4, <1>5, EditStoreInv, TickStoreInv, EventStoreInv, ReloadStoreInv
  DEF Next, Loop

-----------------------------------------------------------------------------
(* The log *)

\* Once a config has been applied, the level is always that of a config that
\* loaded, also after the store has stopped.
LEMMA LevelStaysValid ==
  ASSUME StoreInv, [Next]_vars, level \in Valid
  PROVE  level' \in Valid
<1>1. ASSUME NewStore PROVE level' \in Valid
  BY <1>1 DEF NewStore
<1>2. ASSUME Apply PROVE level' \in Valid
  BY <1>2 DEF Apply, StoreInv
<1>3. ASSUME UNCHANGED level PROVE level' \in Valid
  BY <1>3
<1> QED
  BY <1>1, <1>2, <1>3
  DEF Next, Loop, Watch, WatchFails, Notify, Event, TimerReload, HupReload, Reload, Stop,
      Edit, Noise, Hup, Tick, vars

\* A lower level hides nothing that was shown.
LEMMA LoweredLevel ==
  ASSUME NEW m \in Valid, NEW n \in Valid, ~(LevelOf[n] > LevelOf[m]), NEW s \in Nat,
         s >= LevelOf[m]
  PROVE  s >= LevelOf[n]
<1>1. LevelOf[m] \in Nat /\ LevelOf[n] \in Nat
  BY AccessLogAssumption
<1> QED BY <1>1, SMT

\* What a line's action says of its severity.
LEMMA LineFacts ==
  ASSUME NEW l \in Line
  PROVE  /\ l.action \in {"allow", "deny", "error"} /\ l.sev \in Nat /\ l.sev <= Warn
         /\ l.action \notin {"deny", "error"} => l.sev <= Info
BY SMT DEF Line, Info, Warn, Debug

\* A step of the config store keeps the log's invariant: only a raise of the
\* level can hide a line.
LEMMA StoreLogInv ==
  ASSUME StoreInv, LogInv, Store
  PROVE  LogInv'
<1>1. /\ Next /\ UNCHANGED <<counted, other, line>>
      /\ raised' = (raised \/ ((Pending \/ line # NoLine) /\ LevelOf[level'] > LevelOf[level]))
  BY DEF Store
<1>2. raised' \in BOOLEAN
  <2>1. (raised \/ ((Pending \/ line # NoLine) /\ LevelOf[level'] > LevelOf[level])) \in BOOLEAN
    OBVIOUS
  <2> QED BY <1>1, <2>1
<1>3. Pending' = Pending /\ SummaryLevel' = SummaryLevel
  BY <1>1 DEF Pending, SummaryLevel
<1>4. Pending \/ line # NoLine => level \in Valid /\ level' \in Valid
  BY <1>1, LevelStaysValid DEF LogInv
<1>5. ~raised' /\ (Pending \/ line # NoLine) => ~raised /\ ~(LevelOf[level'] > LevelOf[level])
  BY <1>1
<1>6. ~raised' => \A l \in line' : l.sev >= LevelOf[level']
  <2> SUFFICES ASSUME ~raised', NEW l \in line PROVE l.sev >= LevelOf[level']
    BY <1>1
  <2>1. line # NoLine /\ l \in Line
    BY DEF LogInv, NoLine
  <2>2. l.sev >= LevelOf[level]
    BY <1>5, <2>1 DEF LogInv, Enabled
  <2> QED BY <1>4, <1>5, <2>1, <2>2, LoweredLevel, LineFacts
<1>7. Pending' /\ ~raised' => SummaryLevel' >= LevelOf[level']
  <2> SUFFICES ASSUME Pending, ~raised' PROVE SummaryLevel >= LevelOf[level']
    BY <1>3
  <2>1. SummaryLevel \in Nat
    BY SMT DEF SummaryLevel, Info, Warn
  <2>2. SummaryLevel >= LevelOf[level]
    BY <1>5 DEF LogInv, SummariesWritten, Enabled
  <2> QED BY <1>4, <1>5, <2>1, <2>2, LoweredLevel
<1> QED BY <1>1, <1>2, <1>3, <1>4, <1>6, <1>7 DEF LogInv, SummariesWritten, Enabled

\* A counted line brings a summary at its own level or a higher one.
LEMMA SuppressLogInv ==
  ASSUME LogInv, NEW l \in Line, Suppress(l)
  PROVE  LogInv'
<1>1. /\ line = {l} /\ line' = NoLine /\ UNCHANGED <<vars, raised>>
      /\ \/ counted' = counted \cup {l.action} /\ UNCHANGED other
         \/ counted # {} /\ other' = TRUE /\ UNCHANGED counted
  BY DEF Suppress
<1>2. /\ counted' \subseteq {"allow", "deny", "error"} /\ other' \in BOOLEAN
      /\ raised' \in BOOLEAN /\ counted' # {} /\ level' = level
  BY <1>1, LineFacts DEF LogInv, vars
<1>3. level \in Valid /\ LevelOf[level] \in Nat
  <2>1. line # NoLine
    BY <1>1 DEF NoLine
  <2> QED BY <2>1, AccessLogAssumption DEF LogInv
<1>4. ~raised => l.sev >= LevelOf[level]
  BY <1>1 DEF LogInv, Enabled
<1>5. ~raised => SummaryLevel' >= LevelOf[level]
  <2> SUFFICES ASSUME ~raised PROVE SummaryLevel' >= LevelOf[level]
    OBVIOUS
  <2>1. CASE counted' = counted \cup {l.action}
    <3>1. CASE SummaryLevel' = Warn
      BY <3>1, <1>3, <1>4, LineFacts, SMT DEF Warn
    <3>2. CASE SummaryLevel' # Warn
      <4>1. l.action \notin {"deny", "error"} /\ SummaryLevel' = Info
        BY <2>1, <3>2 DEF SummaryLevel
      <4> QED BY <4>1, <1>3, <1>4, LineFacts, SMT DEF Info
    <3> QED BY <3>1, <3>2
  <2>2. CASE counted # {} /\ UNCHANGED counted
    BY <2>2 DEF LogInv, SummariesWritten, Pending, SummaryLevel, Enabled
  <2> QED BY <1>1, <2>1, <2>2
<1> QED BY <1>1, <1>2, <1>3, <1>5 DEF LogInv, SummariesWritten, Enabled, NoLine

\* Every step of the log or of the store below it keeps the invariant.
LEMMA NextLogInv == StoreInv /\ LogInv /\ [LogNext]_logVars => LogInv'
<1> SUFFICES ASSUME StoreInv, LogInv, [LogNext]_logVars PROVE LogInv'
  OBVIOUS
<1>1. ASSUME NEW l \in Line, Sample(l) PROVE LogInv'
  <2>1. /\ Watching /\ line = NoLine /\ Enabled(l.sev) /\ line' = {l}
        /\ UNCHANGED <<vars, counted, other, raised>>
    BY <1>1 DEF Sample
  <2>2. level \in Valid /\ level' = level
    BY <2>1 DEF Watching, StoreInv, vars
  <2> QED BY <2>1, <2>2 DEF LogInv, SummariesWritten, Enabled, Pending, SummaryLevel
<1>2. ASSUME Write PROVE LogInv'
  <2>1. /\ line' = NoLine /\ raised' = (raised /\ Pending)
        /\ UNCHANGED <<vars, counted, other>>
    BY <1>2 DEF Write
  <2>2. raised' \in BOOLEAN /\ level' = level
    <3>1. (raised /\ Pending) \in BOOLEAN
      OBVIOUS
    <3> QED BY <2>1, <3>1 DEF vars
  <2> QED BY <2>1, <2>2 DEF LogInv, SummariesWritten, Enabled, Pending, SummaryLevel, NoLine
<1>3. ASSUME Maintain PROVE LogInv'
  <2>1. /\ counted' = {} /\ other' = FALSE /\ raised' = (raised /\ line # NoLine)
        /\ UNCHANGED <<vars, line>>
    BY <1>3 DEF Maintain, Sweep
  <2>2. raised' \in BOOLEAN /\ level' = level
    <3>1. (raised /\ line # NoLine) \in BOOLEAN
      OBVIOUS
    <3> QED BY <2>1, <3>1 DEF vars
  <2> QED BY <2>1, <2>2 DEF LogInv, SummariesWritten, Enabled, Pending, NoLine
<1>4. ASSUME UNCHANGED logVars PROVE LogInv'
  BY <1>4 DEF logVars, vars, LogInv, SummariesWritten, Enabled, Pending, SummaryLevel
<1> QED BY <1>1, <1>2, <1>3, <1>4, StoreLogInv, SuppressLogInv DEF LogNext

\* Whatever the log does, the store takes one of its own steps or none.
LEMMA StoreSteps == [LogNext]_logVars => [Next]_vars
BY DEF LogNext, Store, Maintain, Sweep, Write, Sample, Suppress, logVars

-----------------------------------------------------------------------------
(* Theorems *)

\* The two invariants are inductive together: every step of the log rests on
\* what the store guarantees of the level.
THEOREM Inductive == LogSpec => []IInv
<1>1. LogInit => IInv
  BY InitStoreInv DEF LogInit, IInv, LogInv, SummariesWritten, Pending, NoLine
<1>2. IInv /\ [LogNext]_logVars => IInv'
  BY NextStoreInv, NextLogInv, StoreSteps DEF IInv
<1> QED BY <1>1, <1>2, PTL DEF LogSpec

\* Type correctness of the config store: in particular the watcher never has
\* more events queued than changes were made, and watchLoop's timer stays
\* within the debounce interval.
THEOREM TypeCorrect == LogSpec => []TypeOK
<1>1. IInv => TypeOK
  BY DEF IInv, StoreInv
<1> QED BY <1>1, Inductive, PTL

\* sweep's summary of suppressed lines is written at a level that is on,
\* unless a reload raised the level after one of the lines was counted: no
\* choice of log levels and no order of reloads and lines hides it.
THEOREM SummariesAlwaysWritten == LogSpec => []SummariesWritten
<1>1. IInv => SummariesWritten
  BY DEF IInv, LogInv
<1> QED BY <1>1, Inductive, PTL

\* watchLoop reads a change only after a whole debounce interval without
\* another: for any interval, however events and other wakeups interleave.
THEOREM BurstsCoalesce == LogSpec => BurstCoalesced
<1>1. IInv => (timer = 0 => calm >= Debounce)
  <2> SUFFICES ASSUME IInv, timer = 0 PROVE calm >= Debounce
    OBVIOUS
  <2>1. 0 # Off /\ calm \in 0..Debounce
    BY SMT DEF Off, IInv, StoreInv, TypeOK
  <2>2. timer + calm >= Debounce
    BY <2>1 DEF IInv, StoreInv
  <2> QED BY <2>1, <2>2, ConfigStoreAssumption, SMT
<1>2. IInv => [timer = 0 /\ timer' = Off /\ pc' # "killed" => calm >= Debounce]_vars
  BY <1>1
<1> QED BY <1>2, Inductive, PTL DEF BurstCoalesced

-----------------------------------------------------------------------------
(* No change is lost *)

\* A loadable file that is not the active config yet will be read without
\* another change or signal, and an active config that is not applied yet is
\* being applied. A change that came before the watch did, or whose event was
\* lost with nothing else on its way, is not seen (missed).
NoChangeLost ==
  /\ Watching /\ ~missed /\ file \in Valid /\ cur # file => Underway
  /\ Watching /\ level # cur => pc = "apply"

\* The same from the first load on: before the watch is added nothing is queued,
\* so the file is still the one that was read.
ReadInv ==
  /\ pc = "watch" /\ ~missed => cur = file
  /\ pc \in {"watch", "notify", "loop"} => level = cur
  /\ NoChangeLost

\* The watcher's queue: an event appended is in it, and only the head leaves it.
LEMMA QueueKept ==
  ASSUME NEW q \in Seq(BOOLEAN)
  PROVE  /\ \A b \in BOOLEAN :
              /\ Append(q, b)[Len(Append(q, b))] = b
              /\ Len(Append(q, b)) \in 1..Len(Append(q, b))
              /\ \A i \in 1..Len(q) : i \in 1..Len(Append(q, b)) /\ Append(q, b)[i] = q[i]
         /\ q # <<>> => \A i \in 1..Len(q) : i # 1 => /\ i - 1 \in 1..Len(Tail(q))
                                                      /\ Tail(q)[i - 1] = q[i]
         /\ q # <<>> => Head(q) = q[1]
BY SMT

\* A change that the watch sees is queued; neither noise nor an error takes the
\* place of a change that is queued.
LEMMA EditReadInv ==
  ASSUME StoreInv, ReadInv, \/ \E c \in Content, lost \in BOOLEAN : Edit(c, lost)
                            \/ Noise
  PROVE  ReadInv'
<1>1. events \in Seq(BOOLEAN)
  BY DEF StoreInv, TypeOK
<1>2. CASE Noise
  <2>1. /\ events' = Append(events, FALSE)
        /\ UNCHANGED <<file, hup, timer, pc, cur, level, calm, missed>>
    BY <1>2 DEF Noise
  <2>2. Underway => Underway'
    BY <1>1, <2>1, QueueKept DEF Underway
  <2> QED BY <2>1, <2>2 DEF ReadInv, NoChangeLost, Watching
<1>3. ASSUME NEW c \in Content, NEW lost \in BOOLEAN, Edit(c, lost) PROVE ReadInv'
  <2>1. /\ events' = IF Watching THEN Append(events, ~lost) ELSE events
        /\ missed' = IF Watching THEN lost /\ ~Underway ELSE missed \/ pc = "watch"
        /\ UNCHANGED <<hup, timer, pc, cur, level, calm>>
    BY <1>3 DEF Edit
  <2>2. ASSUME Watching, ~missed' PROVE Underway'
    <3>1. CASE ~lost
      BY <1>1, <2>1, <2>2, <3>1, QueueKept DEF Underway
    <3>2. CASE Underway
      BY <1>1, <2>1, <2>2, <3>2, QueueKept DEF Underway
    <3> QED BY <2>1, <2>2, <3>1, <3>2
  <2> QED BY <2>1, <2>2 DEF ReadInv, NoChangeLost, Watching
<1> QED BY <1>2, <1>3

\* A change leaves the queue only to start the debounce timer.
LEMMA EventReadInv ==
  ASSUME StoreInv, ReadInv, Event
  PROVE  ReadInv'
<1>1. /\ events # <<>> /\ events' = Tail(events)
      /\ timer' = IF Head(events) THEN Debounce ELSE timer
      /\ UNCHANGED <<file, edits, hup, pc, cur, level, missed>>
  BY DEF Event, Armed
<1>2. events \in Seq(BOOLEAN) /\ Debounce # Off
  BY ConfigStoreAssumption, SMT DEF StoreInv, TypeOK, Off
<1>3. ASSUME Underway PROVE Underway'
  <2>1. CASE timer # Off
    BY <1>1, <1>2, <2>1 DEF Underway
  <2>2. CASE timer = Off
    <3>1. PICK i \in 1..Len(events) : events[i]
      BY <1>3, <2>2 DEF Underway
    <3>2. CASE i = 1
      BY <1>1, <1>2, <3>1, <3>2, QueueKept DEF Underway
    <3>3. CASE i # 1
      <4>1. i - 1 \in 1..Len(events') /\ events'[i - 1]
        BY <1>1, <1>2, <3>1, <3>3, QueueKept
      <4> QED BY <4>1 DEF Underway
    <3> QED BY <3>2, <3>3
  <2> QED BY <2>1, <2>2
<1> QED BY <1>1, <1>3 DEF ReadInv, NoChangeLost, Watching

\* No step of the store loses a change.
LEMMA NextReadInv ==
  ASSUME StoreInv, ReadInv, [Next]_vars
  PROVE  ReadInv'
<1>1. ASSUME NewStore PROVE ReadInv'
  BY <1>1 DEF NewStore, ReadInv, NoChangeLost, Watching
<1>2. ASSUME Watch \/ WatchFails \/ Notify \/ Stop PROVE ReadInv'
  BY <1>2 DEF Watch, WatchFails, Notify, Stop, ReadInv, NoChangeLost, Watching, Underway
<1>3. ASSUME Apply PROVE ReadInv'
  BY <1>3 DEF Apply, ReadInv, NoChangeLost, Watching, Underway
<1>4. ASSUME Hup PROVE ReadInv'
  BY <1>4 DEF Hup, ReadInv, NoChangeLost, Watching, Underway
<1>5. ASSUME Tick PROVE ReadInv'
  <2>1. timer' # Off
    BY <1>5, SMT DEF Tick, Off, StoreInv, TypeOK
  <2> QED BY <1>5, <2>1 DEF Tick, ReadInv, NoChangeLost, Watching, Underway
<1>6. ASSUME TimerReload \/ HupReload PROVE ReadInv'
  <2>1. /\ pc = "loop" /\ cur' = Loaded /\ UNCHANGED <<file, level>>
        /\ pc' = IF file \in Valid THEN "apply" ELSE "loop"
    BY <1>6 DEF TimerReload, HupReload, Reload
  <2> QED BY <2>1 DEF Loaded, ReadInv, NoChangeLost, Watching
<1>7. ASSUME UNCHANGED vars PROVE ReadInv'
  BY <1>7 DEF vars, ReadInv, NoChangeLost, Watching, Underway
<1> QED
  BY <1>1, <1>2, <1>3, <1>4, <1>5, <1>6, <1>7, EditReadInv, EventReadInv DEF Next, Loop

\* The safety half of Converges: watchLoop loses no change.  Whenever the file
\* loads and differs from the active config, an event for it is queued or the
\* debounce timer is running, unless the change fell between the first load and
\* the watch, or an overflow of the queue took its event with nothing else on its
\* way; and the log level lags the config only while it is being applied.
THEOREM ChangesNeverLost == LogSpec => []NoChangeLost
<1>1. LogInit => ReadInv
  BY DEF LogInit, Init, ReadInv, NoChangeLost, Watching
<1>2. IInv /\ ReadInv /\ [LogNext]_logVars => ReadInv'
  BY NextReadInv, StoreSteps DEF IInv
<1>3. ReadInv => NoChangeLost
  BY DEF ReadInv
<1> QED BY <1>1, <1>2, <1>3, Inductive, PTL DEF LogSpec
=============================================================================
