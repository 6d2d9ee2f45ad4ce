----------------------------- MODULE AccessLog -----------------------------
(***************************************************************************)
(* internal/proxy/log.go and maintain, composed with the config store that *)
(* sets the log level under them.  A line over its entry's budget is       *)
(* counted by the Tracker (how exactly is in Tracker) and reported by the  *)
(* next sweep in one summary line, which has a level of its own.  This is  *)
(* one entry of the Tracker, its counts abstracted to the actions that     *)
(* have a key (each key has a host as well, and there may be many).        *)
(***************************************************************************)
EXTENDS ConfigStore

CONSTANT LevelOf   \* [Valid -> Nat]: log_level, as zerolog numbers its levels

Debug == 0
Info == 1
Warn == 2

ASSUME AccessLogAssumption == LevelOf \in [Valid -> Nat]

VARIABLES
  counted,   \* the actions among the keys of suppressed
  other,     \* client.other > 0
  line,      \* the line a handler is in sample with, its level found to be on
  raised     \* history: the level was raised since the first of these lines

logVars == <<vars, counted, other, line, raised>>

\* What is logged: logDecision, logRejected and logUpstreamError, whose error
\* is a client's own departure at the Debug level.
Line == {[action |-> "allow", sev |-> Info], [action |-> "deny", sev |-> Warn],
         [action |-> "error", sev |-> Warn], [action |-> "error", sev |-> Debug]}

\* Event.Enabled.
Enabled(sev) == sev >= LevelOf[level]

Pending == counted # {} \/ other

NoLine == {}

\* The event is made, and is enabled by the level of that moment; a line at a
\* disabled level is not counted at all.
Sample(l) ==
  /\ Watching /\ line = NoLine /\ Enabled(l.sev)
  /\ line' = {l}
  /\ UNCHANGED <<vars, counted, other, raised>>

\* client.log: the line is over the budget.  It has a key or gets one, unless
\* the keys are used up; the first one always fits.
Suppress(l) ==
  /\ line = {l} /\ line' = NoLine
  /\ \/ /\ l.action \in counted \/ ~other
        /\ counted' = counted \cup {l.action} /\ UNCHANGED other
     \/ /\ counted # {}
        /\ other' = TRUE /\ UNCHANGED counted
  /\ UNCHANGED <<vars, raised>>

\* It is within the budget, and is written.
Write ==
  /\ line # NoLine /\ line' = NoLine
  /\ raised' = (raised /\ Pending)
  /\ UNCHANGED <<vars, counted, other>>

\* Mutated form: only refusals make a summary a warning.
SummaryLevelDeny == IF "deny" \in counted THEN Warn ELSE Info

\* The level of the summary line.
SummaryLevel == IF counted \cap {"deny", "error"} # {} THEN Warn ELSE Info

\* sweep takes the counts and writes the summary line, if its level is on.
Sweep ==
  /\ counted' = {} /\ other' = FALSE /\ raised' = (raised /\ line # NoLine)
  /\ UNCHANGED <<vars, line>>

\* maintain, at each tick until ctx ends; there is no last sweep.
Maintain == Watching /\ Pending /\ Sweep

\* The config store goes on meanwhile, and may change the level.
Store ==
  /\ Next
  /\ raised' = (raised \/ ((Pending \/ line # NoLine) /\ LevelOf[level'] > LevelOf[level]))
  /\ UNCHANGED <<counted, other, line>>

LogInit == Init /\ counted = {} /\ other = FALSE /\ line = NoLine /\ raised = FALSE

LogNext == Store \/ Maintain \/ Write \/ \E l \in Line : Sample(l) \/ Suppress(l)

LogSpec == LogInit /\ [][LogNext]_logVars

\* The fairness of the config store; nothing is assumed of the log.
LogFairSpec == LogSpec /\ WF_vars(Loop) /\ WF_vars(Event) /\ WF_vars(TimerReload) /\ WF_vars(Tick)

-----------------------------------------------------------------------------
(* Properties *)

\* README.md:174 "A device over that is summarized every 10 s instead": lines
\* that were counted because their level was on are never swept into a summary
\* line that the level hides, unless a reload raised the level in between.
\* other is not split by level, so a refusal counted there does not make the
\* summary a warning: the keys beside it have to.
SummariesWritten == Pending /\ ~raised => Enabled(SummaryLevel)
=============================================================================
