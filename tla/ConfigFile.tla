----------------------------- MODULE ConfigFile -----------------------------
(***************************************************************************)
(* internal/config/config.go: what a config file becomes, as operators.    *)
(* A file is what the YAML decoder makes of it: whether it decodes under   *)
(* the strict rules (known keys, lists of plain values, durations with a   *)
(* unit), how many documents it holds, and its values, Unset where a key   *)
(* is missing.                                                             *)
(***************************************************************************)
EXTENDS Acl

CONSTANTS
  Unset,                  \* a nil pointer: the key is not in the file
  NotFinite,              \* NaN or an infinity
  Levels,                 \* function: the log_level texts ParseLevel knows -> level
  DefaultClientLimits,    \* [conns, rate, burst, idle]
  DefaultTotalConnections

Field == {"conns", "rate", "burst", "idle"}

ASSUME ConfigAssumption ==
  /\ Unset \notin Int /\ NotFinite # Unset
  /\ DefaultClientLimits \in [Field -> Int]

\* What a file may hold.  Rates are counted in a unit that makes them whole.
FileLimits == [conns : Int \cup {Unset}, rate : Int \cup {Unset, NotFinite},
               burst : Int \cup {Unset}, idle : Int \cup {Unset}]

FileSubnet == [name : STRING, cidrs : Seq(Prefix), ports : Seq(PortRange),
               allow : Seq(Pattern), deny : Seq(Pattern), limits : FileLimits]

File == [decodes : BOOLEAN, docs : Nat, level : STRING, total : Int \cup {Unset},
         limits : FileLimits, subnets : Seq(FileSubnet)]

\* fileClientLimits.apply: the fields set in f over those of base.
Overridden(f, base) == [fld \in Field |-> IF f[fld] = Unset THEN base[fld] ELSE f[fld]]

\* apply's switch: which limits are refused.
Usable(l) ==
  /\ l.rate # NotFinite
  /\ \A fld \in Field : l[fld] >= 0
  /\ l.rate > 0 => l.burst >= 1

\* Mutated form: a subnet's limits override the built-in defaults.
SubnetLimitsOfDefaults(f, top) ==
  [i \in DOMAIN f.subnets |-> Overridden(f.subnets[i].limits, DefaultClientLimits)]

\* subnetLimits: attached to the compiled subnets by position.
SubnetLimits(f, top) == [i \in DOMAIN f.subnets |-> Overridden(f.subnets[i].limits, top)]

\* The strict decoding, and the one document a file may hold.
Decoded(f) == f.decodes /\ f.docs = 1

NotLoaded == [ok |-> FALSE, policy |-> <<>>]

\* Parse.
Parse(f) ==
  LET top == Overridden(f.limits, DefaultClientLimits)
      own == SubnetLimits(f, top)
      policy == NewPolicy(f.subnets)
  IN IF /\ Decoded(f)
        /\ f.level = "" \/ f.level \in DOMAIN Levels
        /\ f.total = Unset \/ f.total >= 0
        /\ Usable(top) /\ policy # <<>> /\ \A i \in DOMAIN own : Usable(own[i])
     THEN [ok |-> TRUE, policy |-> policy, clientLimits |-> top, subnetLimits |-> own,
           level |-> IF f.level = "" THEN Levels["info"] ELSE Levels[f.level],
           total |-> IF f.total = Unset THEN DefaultTotalConnections ELSE f.total]
     ELSE NotLoaded

\* Config.ClientLimits, by the index of the client's subnet, 0 for none.
ClientLimits(cfg, i) == IF i \in DOMAIN cfg.subnetLimits THEN cfg.subnetLimits[i]
                        ELSE cfg.clientLimits
=============================================================================
