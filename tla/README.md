# TLA+ specifications of proxy-acl

This directory specifies the parts of proxy-acl in which concurrency, time, limits
and rule evaluation make the code hard to test, checks the specifications with TLC on
small instances and proves their safety properties with TLAPS for instances of any size.
`PROJECT.json` lists every run, the source lines each definition stands for, the
hazards the properties are about, and the findings.

## The system

A client connects; the listener (`listener.go`) finds the client's subnet in the
active config and takes a connection slot from the limits (`limits.go`). Each request
is checked (`proxy.go: check`): rate limit, then the ACL (`acl/`), which resolves the
name once through the DNS cache (`dnscache.go`) and judges every address. An approved
`CONNECT` is hijacked, dialed (`dial.go`) and copied (`tunnel.go`); a plain request
goes through a connection pool for exactly the approved destination (`upstream.go`).
The config (`config/config.go`) can be replaced at any moment (`config/store.go`), the
log level with it (`log.go`), and a signal ends the process (`main.go`, `proxy.go: Serve`).

| module | code | state and actions |
|---|---|---|
| `Tracker` | `limits/limits.go` | `objs` are the `client` structs, with identity; `clients` and `overflow` the two maps; `conn` the connections and the struct each was counted in. `Acquire`, `Release`, `Allow`, `Log`, `LogUnknown`, `Sweep` are the methods, atomic because each holds `mu`; the limits may differ from call to call. Histories: `owed`, what an ideal bucket of the largest rate and burst would grant, and `kept`, the lines that were neither written nor summarised yet |
| `DnsCache` | `dnscache/dnscache.go` | `call` is each caller's program counter, `fl` each flight's; actions end where the code unlocks, sends on a channel or selects |
| `Dial` | `proxy/dial.go` | the two racing goroutines, the result channel, the timer, the budget and the goroutine that closes the loser; an address is its position in the vetted list |
| `Tunnel` | `proxy/tunnel.go` | the two `pipe` loops; `age` is the time since `touch`, `quiet` the time since data really moved |
| `Acl`, `ConfigFile`, `AclCheck` | `acl/rules.go`, `acl/policy.go`, `config/config.go` | `Acl` has the operators of the rules (compile, match, select, vet; a loop that keeps the first or the longest is stated by what it keeps), `ConfigFile` those of the file (defaults, limits, what is refused), `AclCheck` one file and one request through them, with DNS answering anything |
| `UpstreamPools` | `proxy/upstream.go` | the map of pools, the transports and their connections; what `http.Transport` does is marked external |
| `ConfigStore` | `config/store.go`, start order of `main.go` | file contents, pending events, debounce timer, signal, active config; an error of the watcher is only logged, so it is the loss of an event (`Edit` with `lost`) |
| `AccessLog` | `proxy/log.go`, `proxy.go: maintain` | extends `ConfigStore`, whose reloads change the level: `line` is a line between the check of its level and its count, `counted` and `other` are what the next sweep summarises |
| `Proxy` | `proxy/proxy.go`, `listener.go` | one state per client connection, from accept to close, with `Reload` between any two steps: `Accept` reads the config `admit` goes by into `rules`, `Admit` or `Reject` decides, and `Close` frees the slot (`Shut`) before the socket (`SocketCloses`); `sig`, `shut` and `srv` are the process around them, from `Listen` to the end |
| `Gate` | none: the promise | who is at the door and by which rules (`door`), who is inside, the addresses each request may be sent to (`ticket`), where it is connected (`link`), the rules in force |

`Proxy` implements `Gate` (property `IsGate`): `door` is the config that `admit` has read
and not decided by yet, `inside` the set of connections that hold a slot, `link` the
upstream address of the request, and `ticket` what the config the request was read under
permits this client and host. `Gate` has no lookup, hijack, dial or shutdown; every step of
`Proxy` is one step of it or none. A client knocks, or gets a ticket, under the rules of one
moment and is let in, or connected, later: a decision that mixed two configs, a connection
without a slot or a slot over the limits read at the knock would not be a step of `Gate`.
The limits *in force* are not promised: a reload between `p.config()` and `Acquire`
(listener.go:35 and 42) lets a connection in under the replaced config. It is one at most,
because one goroutine runs the accept loop, and `Gate` has one client at the door at a time.

`MC*` modules only give constants their values. Each module has, before a definition,
"mutated forms" of it: plausible mistakes that the properties are tested against.
`PROJECT.json` names the property that each one must break.

## What the runs check

| run | shows | size (distinct states) |
|---|---|---|
| `tracker_slots` | counters equal open connections; an entry in use is never forgotten; limits hold per entry and in total while they change; every log line that is not written is counted once and summarised under its own client | 95k |
| `tracker_rate` | no client gets more requests than a bucket of the largest limits that is never forgotten would grant, while each has its own entry and the limits change between requests | 410k |
| `dns` | one upstream query per name, per-client cap, no slot or map entry leaks, answers are fresh and for the right name | 1.3M |
| `dns_returns` | every lookup returns | 104k |
| `dial` | one winner, no leaked connection, failure only after all addresses had a turn or the time was up, within the budget | 48k |
| `tunnel` | idle tunnels close in time, half-close keeps the other direction, a close for idleness is justified, a closed tunnel frees its slot | 5.5k |
| `acl` | the decision is what the config reads, whatever the form and order of rules and subnets; what is passed on is what was checked; only allowed names are looked up; the rule named is the most specific; each client has the limits set nearest to it, and files with unusable ones are refused | 250k |
| `upstream_pools` | a pooled connection serves only requests approved for where it leads; connections of dropped transports end | 1.0M |
| `config_store` | a burst of changes is one reload, the last contents that load become active and set the log level; counted log lines are not summarised at a level that hides them, unless a reload raised it | 897k |
| `proxy` | `Proxy` implements `Gate`; slots are held while served and given back, requests are decided and acted on, streamed data is passed on at once, a signal ends the process | 131k |

### Findings

These two runs check what a comment or document says, and TLC finds a counterexample.

| run | statement | what the code does |
|---|---|---|
| `dns_congestion` | dnscache.go:161, congestion is "not cached" | a slot that becomes free as the timeout ends is used with an ended context, and that failure is cached |
| `tunnel_stalled` | config.example.yaml:20, "close tunnels with no data in either direction" | a copy waiting in a write is not woken |

Other properties are stated as weakly as they are because of what the code does:

* `LimitsRespected` is about entries. README.md:60 gives `client_connections` per client IP,
  but a client counted in an overflow entry may later get an entry of its own and hold up
  to twice the limit. It takes more than `maxClients` clients. Twice is all it can be
  (`ClientsWithinTwiceLimit`), and with room for every client the limit is one per
  address (`LimitIsPerAddress`).
* `SustainedRate` is checked with a bucket that refills within `forgetAfter`. A slower one
  is forgotten before it is full and starts full again.
* There is an overflow entry per network; the comment at limits.go:33 still says
  "a single entry".
* `IdleCloseJustified` allows for data that moved inside a copy that has not returned,
  because tunnel.go counts activity only when a copy returns.
* `Converges` excludes a change between the first load and the directory watch, and one
  whose event is lost (store.go:104 logs the watcher's error and goes on), neither of which
  is seen until the next event or SIGHUP, and a SIGHUP before `signal.Notify`, which ends
  the process. A lost event does no harm when another one, or the timer, is still to come.
* `SustainedRate` compares with the largest rate and burst in use, because `take` refills
  for the whole time since the last request at the rate of the request it is called for.
* `SignalEnds` says that the process ends, not that requests in flight are finished.
  `http.Server.Serve` returns as soon as `Shutdown` has closed the listener (`ServeReturns`),
  and `Serve`, `run` and `main` return with it, so `shutdownGrace` only counts as far as
  `Shutdown` gets before that.
* `SummariesWritten` excludes a level raised after a line was found to be enabled: its
  summary may then be hidden. `maintain` makes no last sweep, so lines counted in the last
  interval before the end are not summarised.
* `StreamFlows` is about responses of unknown length. A stream that the upstream cuts short
  is ended by `net/http` like a whole one (`BodyEnds`); only a body shorter than its
  `Content-Length` drops the connection (`BodyCut`).

### Bounds

* **Tracker**: in `tracker_slots` two clients of one network and a table of one, so that
  tracked, sharing and returning clients all occur; four connections and two values of each
  limit, so that both limits bind; two log keys and room for one. The clock passes
  `ForgetAfter` twice. In `tracker_rate` each request has one of three rates, 0 (none) among
  them, and one of two bursts. Connections and the two clients are symmetric. More networks and
  clients are covered by the proofs. `Obj` bounds the structs alive at once.
* **DnsCache**: two callers, two names, one slot per client, one global slot and a cache of
  one entry, so that every queue and the eviction occur. A caller that gives up and calls
  again leaves its flight behind, so flights of one caller overlap. In `dns` one caller
  may come untagged, which lets two lookups run at once; failures expire within the
  clock's bound, addresses do not; names are symmetric. `dns_returns` has no symmetry, and
  a clock that passes every lifetime; all its callers are tagged, as in the proxy, so that
  two flights are as many as there can be.
* **Dial**: a tick is a second; the budget, the minimum per attempt and
  `maxAddrsPerFamily` are the code's, and the fallback delay of 300 ms is rounded up to
  one tick. The address lists have one family, two in both orders, and more addresses than are tried.
* **Tunnel**: the timeout is four checks, as in the code; ages saturate past the largest
  value any property tells apart, so the run covers unbounded time.
* **Acl**: labels are ten or so representatives of the classes the code tells apart
  (upper case, numeric, malformed, globs); addresses are strings of 2 and
  4 bits with the IPv4-mapped block and private ranges scaled down. Lists of up to two allow rules and one
  deny rule, of every form. Limits are unset, zero, positive, negative or not finite, at
  the top, in the client's subnet and in another one; files also fail to decode, hold two
  documents or have an unknown level.
* **UpstreamPools**: two requests, one destination vetted with three sets of addresses that
  overlap, one pool and three transports, so eviction, sharing and orphaned transports occur.
  A transport's identity is used again when nothing refers to it any more; a miss waits while
  all three are in use, which leaves out only behaviours with more than three transports
  alive. The proofs have no such bound.
  With one pool the choice of the victim is not exercised; `OldestMakesRoom` proves it.
* **ConfigStore, AccessLog**: three writes, including a torn file that does not load and a
  truncated one that does; the three that load have three log levels. One entry of the
  Tracker and one line at a time between its two steps.
* **Proxy**: three connections of two clients, two configs that differ in hosts, addresses,
  limits and in whether one client has a subnet at all. Connections are not reused after
  their end; the process runs once.

### Fairness

Liveness assumes that goroutines keep running and that time passes, never that a
peer sends, reads or closes, or that a caller's context ends. `DnsCache` also assumes
strong fairness of taking a slot, because Go serves blocked channel senders in
order, and that the upstream resolver returns, which its context's deadline ensures. In
`Tunnel` only the pipes' own steps, the return and the clock are fair. In `Proxy`
lookups and dials end, because both have timeouts; a round trip need not, because the
transport has no timeout for the response header; what is written to a client is taken;
and the goroutines of `main` and `Serve` take their steps. No signal is assumed. The
log's steps are not fair, only the config store's are. The fairness of
each specification is stated and justified next to its `FairSpec`.

## What is proved

Eight modules hold theorems. Each proves `Spec => []P` for every value of the constants
that satisfies the named `ASSUME`s of the module it extends. These give the constants
their types, say that `Nil` is none of the values it is used beside, and that counted
sets (connections, callers, flights) are finite. Two assumptions say more and are named
below. TLC checks the properties with a run as the runs say. The others have no run of their
own; TLC found each of them true on the constants of the component's run, `LimitIsPerAddress`
with room for both clients and `OldestMakesRoom` also with two pools, two destinations and
one connection (6.2 million states, more than a run should take).

| module | theorems | property |
|---|---|---|
| `TrackerProofs` | `TypeCorrect`, `SlotsAlwaysExact`, `EntriesInUseKept`, `LimitsHold`, `RateSustained`, `LinesAlwaysAccounted` | `TypeOK`, `SlotsExact`, `HoldersAttached`, `LimitsRespected`, `SustainedRate`, `LinesAccounted` |
| | `ClientsWithinTwiceLimit`, `LimitIsPerAddress` | no run |
| `DnsCacheProofs` | `TypeCorrect`, `NamesLookedUpOnce`, `ClientsCapped`, `NothingLeaksEver`, `AnswersStayFresh` | `TypeOK`, `SingleFlight`, `PerClientCap`, `NothingLeaks`, `AnswersFresh` |
| | `NobodyWaitsInVain`, `CongestionCachedBriefly` | no run |
| `DialProofs` | `TypeCorrect`, `OneWinnerEver`, `EndsWithinBudget`, `EveryAddressTried` | `TypeOK`, `OneWinner`, `WithinBudget`, `FailureMeansAllTried` |
| | `NobodyLeftBehind` | no run |
| `TunnelProofs` | `TypeCorrect`, `HalfCloseSafe`, `IdleClosesInTime`, `IdleClosesNoSooner` | `TypeOK`, `HalfCloseKeepsOther`, `IdleCloses`, `IdleCloseJustified` |
| | `CloseReachesBoth`, `ClosedForGood` | no run |
| `UpstreamPoolsProofs` | `TypeCorrect`, `ApprovedAlways` | `TypeOK`, `ServedWhereApproved` |
| | `PoolsStayBounded`, `OldestMakesRoom`, `NoConnectionForgotten` | no run |
| `AccessLogProofs` | `TypeCorrect`, `BurstsCoalesce`, `SummariesAlwaysWritten` | `TypeOK`, `BurstCoalesced`, `SummariesWritten` |
| | `ChangesNeverLost` | no run |
| `AclCheckProofs` | `DecisionAlwaysExact`, `AddrsAlwaysChecked`, `NoLookupOfDenied`, `RuleAlwaysMostSpecific`, `LimitsAlwaysInherited` | `DecisionExact`, `AddrsAreChecked`, `OnlyAllowedNamesLookedUp`, `RuleMostSpecific`, `LimitsInherited` |
| `ProxyProofs` | `TypeCorrect`, `SlotsMatchService`, `ImplementsGate` | `TypeOK`, `SlotWhileServed`, `IsGate` |
| | `ReloadsKeepLimits`, `StreamsNeverHeldBack` | no run |

A theorem with no run states a property that is defined beside its proof. Most of these are
the safety half of a liveness property that TLC checks: whoever waits, waits for something
that is under way, and what is to be given back is in somebody's hands. They hold for
instances of any size and need no fairness; what TLC adds is that the step is taken.

The inductive invariant is called `IInv` in each module. Why it has the parts it has:

* **Tracker.** `TypeOK` alone is not inductive: a counter stays a natural number after a
  release only because it counts the connection being released (`SlotsExact`), and a
  bucket's tokens only because its last refill is not in the future (`BucketsPast`).
  `HoldersAttached` follows because `Sweep` forgets only entries whose counter is zero.
  The limits follow because `Acquire` compares exact counters.
  `RateSustained` has two hypotheses, without which it is false: the map has room for every
  client (`RoomForAll`), and a bucket refills before its entry may be forgotten
  (`RefillsInTime`). Its invariant `RateInv` relates each entry's bucket to the ideal one:
  what the entry would grant now, under the largest limits, is at most what the client is
  owed, and a client without an entry is owed a full bucket, the most a new entry grants.
  `RefillBelow`: a take under other limits finds no more than that.
  `LinesInv` gives `LinesAlwaysAccounted`: each counter is the number of lines in `kept` that
  were counted there, and no two keys of the maps share an entry (`EntriesDistinct`).
  `LimitIsPerAddress` (under `RoomForAll`) is what
  `Proxy` takes for granted: its `Admit` counts the slots of the client, `Acquire` those of
  an entry, and they are the same.
* **DnsCache.** A `clientSlots` struct may be dropped from the map and made anew while
  others point to the old one. So the invariant counts holders of pointers (`SlotsExact`),
  says that a client in use is mapped to the struct all its holders have (`PointsRight`),
  and that no two clients share one (`ClientsInv`). `MapInv` and `FlightInv` tie the map of
  flights to the flights both ways, which is `SingleFlight`. `AnswerInv` says what an answer
  is between its arrival, the store and the close. Freshness needs that a flight
  is closed in the tick of its answer, and that an entry's expiry is its answer's time
  and lifetime. `NobodyWaitsInVain` adds that a waiting caller has a flight (`WaitsFor`);
  with the exact counters, a full client channel has a flight or a caller of that client that
  holds a place in it, and a full global channel a flight that is asking upstream. `CongestionCachedBriefly` bounds the finding about congestion.
* **Dial.** `pending` counts the racers that are out (`Racing`), no result is sent twice
  (`Shape`), and a racer's state says what it has established (`RacerInv`): what is in the
  channel is an open connection or an error, so the reaper, which closes any connection it
  gets, never gets the caller's.
  `EveryAddressTried` also needs `Turns`: an attempt's deadline leaves `minAttemptTimeout`
  for every address after it. That is arithmetic on shares of the time left, and true only
  if the budget has room for all of them once the fallback delay is over, the second
  conjunct of `RoomAssumption`. The code's constants satisfy it: 30 s, less 300 ms, is more
  than three times 2 s. `NobodyLeftBehind` rests on `LoserInv`: while the reaper
  waits exactly one racer is out, once nobody waits none is, and a connection that nobody has
  received or closed belongs to a racer that is out.
* **Tunnel.** `age`, which the code sees, and `quiet`, which is the truth, are related both
  ways: `Behind` for closing no sooner, `Follows` and `ReadInTime` for closing in time.
  The two connections are closed together and once (`OpenTogether`, `ClosedOnce`), from which a
  closed tunnel carries nothing and neither direction can stay in a read or a write.
* **UpstreamPools.** The addresses are followed from the key of a pool to its transport,
  to the requests that hold it and the connections it dialled, and to the request that has
  one of these to itself. `PoolsStayBounded` is proved of `MapBounded`: one pool per key and at
  most `maxUpstreamPools`; with it `OldestMakesRoom` says which pool a step may take.
  `ConnsOwned` gives `NoConnectionForgotten`: a busy connection has a request, an idle one a
  timer that has not run out.
* **ConfigStore, AccessLog.** `StoreInv`: what is left of the debounce interval and the calm
  since the last change add up to the interval; from the first load on the level is one of
  a config that loaded. `LogInv` rests on it: a line whose level was found to be on is still
  on unless `raised`, and `other` is never counted without a key beside it, so the keys
  alone give the summary its level. `ReadInv` gives `ChangesNeverLost`: a file that loads and
  is not active yet has an event in the queue or the timer running. Like `Converges` it leaves
  out a change that the watch missed (`missed`: before it started, or its event was lost with
  none to follow), which the code does not see until the next change or SIGHUP.
* **AclCheck.** The steps are few and the weight is in the lemmas, which compare the
  compiled form with the file bottom up. `NamesByKind`: a pattern's kind and the key it is
  filed under decide which names it stands for. `MatchNameRule`, `MatchAddrRule`,
  `MatchAddrDeny`: on a compiled list of any length the lookup in the maps and lists finds a
  rule exactly if some pattern matches, and the most specific one. `SubnetIsOwner`: the scan
  over the prefixes ends at the one longest prefix that holds the client; two of one length
  are the same prefix (`SamePrefix`), which `acl.New` refuses as a duplicate.
  `LimitsNearest`: the two levels of overriding leave the value set nearest, and a config
  that loaded has usable ones. `IInv` then says that a check runs on a config that loaded
  (`Loaded`), that what is looked up has passed every check before the lookup (`Passed`),
  and that what is decided is what the client's subnet clears (`Cleared`).
  `AclAssumption`, `ConfigAssumption` and `CasesAssumption` type the constants and say that
  lowercasing stays within the labels, "*" is a glob, the default ports are ports, IPv6
  addresses are no shorter than IPv4 ones, and `NoRule` and `Unset` are no pattern and no
  number. Lists, names and addresses may have any length.
* **Proxy.** `RequestInv` says what is known of a request at each step of its handler. From
  the lookup on it has the config that accepted its host, and from the vetting on addresses
  which that same config permits, however often the active config was replaced since. With
  it each action is a step of `Gate` under the refinement mapping, or none. `AtDoor`:
  a connection for which `admit` has read a config is new and holds no slot; with at most one
  of them (`Door`), `Admit` is `Enter` and `Reject` is `TurnAway`, whatever was reloaded
  since `Accept`. `ReloadsKeepLimits` is read off `Gate`: only `Enter` adds to `inside`,
  within the limits of the config read at the knock, so no order of reloads exceeds the
  largest of them.

Every invariant and action property of a passing run is proved. Only model-checked is
liveness: the provers have no rules for fairness and `ENABLED`. Beside each property, the
theorem that proves its safety half:

| liveness | safety half |
|---|---|
| `CallsReturn` | `NobodyWaitsInVain` |
| `NothingLeaks` of `Dial` | `NobodyLeftBehind` |
| `ClosedIsFreed` | `CloseReachesBoth` |
| `DroppedDrain` | `NoConnectionForgotten` |
| `Converges` | `ChangesNeverLost` |
| `StreamFlows` | `StreamsNeverHeldBack` |
| `SignalEnds`, `RequestsAnswered` | none: which step is next is a matter of `ENABLED` alone |

## What is not modelled

* What the YAML decoder accepts (`list`, `duration`, unknown and duplicate keys): one flag
  of a file. `ConfigFile` starts from the decoded values.
* Fields, clipping and wording of log lines (`log.go`).
* Header rewriting (`outbound`, `removeHopByHop`, trailers): sequential, with no state of
  the proxy's own, and covered by the repository's tests.
* Flags, version and log format (`main.go`); the debug log of `net/http` (`serverLog`).
* Payload bytes, TLS, and the kernel's `splice`.
* `finish` for a `dst` without `CloseWrite` (tunnel.go:91): both ends of a tunnel have it.

`Proxy` uses the promises of `Tracker`, `DnsCache`, `Dial`, `Tunnel`, `Acl` and
`UpstreamPools` instead of being composed with them: the product of any two of them is
beyond TLC at sizes at which the interesting cases of both occur.

## Roadmap

The composition of `Proxy` with `Tracker` in place of the argument by `LimitIsPerAddress`.
