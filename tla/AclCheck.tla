------------------------------ MODULE AclCheck ------------------------------
(***************************************************************************)
(* A config file is parsed (internal/config) into a policy (internal/acl)  *)
(* and limits, and decides a request.  The check of a hostname stops at    *)
(* the DNS lookup, which may answer anything, and goes on with the         *)
(* addresses found.  The properties compare the outcome with what the file *)
(* says, read as a set of patterns.                                        *)
(***************************************************************************)
EXTENDS ConfigFile

CONSTANTS
  Cases,     \* pairs of a config file and a request: [client, host, port], the
             \* host as text before parseHost
  Answers    \* what the resolver may return: sequences of addresses

Request == [client : Addr, host : Host, port : Int]

ASSUME CasesAssumption ==
  Cases \subseteq File \X Request /\ Answers \subseteq Seq(Addr) /\ NoRule \notin Pattern

VARIABLES
  file,      \* the config file
  cfg,       \* the Config
  req,       \* client, host and port
  pc,        \* how far the check is
  lim,       \* the client's limits
  looked,    \* history: the names looked up
  found,     \* history: what the lookup returned
  decision

vars == <<file, cfg, req, pc, lim, looked, found, decision>>

policy == cfg.policy
specs == file.subnets

NoDecision == Deny("pending", NoRule)

Dst == ParseHost(req.host)
Mine == policy[SubnetOf(policy, req.client)]

Init ==
  /\ \E case \in Cases : file = case[1] /\ req = case[2]
  /\ cfg = NotLoaded /\ pc = "load" /\ lim = DefaultClientLimits
  /\ looked = {} /\ found = <<>> /\ decision = NoDecision

\* Load: a config that is refused never becomes active.
Load ==
  /\ pc = "load"
  /\ cfg' = Parse(file)
  /\ pc' = IF cfg'.ok THEN "check" ELSE "refused"
  /\ UNCHANGED <<file, req, lim, looked, found, decision>>

\* check and Subnet.Check up to the lookup: the client's limits, then a refusal,
\* an address literal decided at once, or a name that goes to the resolver.
Check ==
  /\ pc = "check"
  /\ lim' = ClientLimits(cfg, SubnetOf(policy, req.client))
  /\ IF SubnetOf(policy, req.client) = 0
     THEN decision' = Deny("no subnet", NoRule) /\ pc' = "done" /\ UNCHANGED looked
     ELSE LET r == Refusal(Mine, req.host, req.port)
          IN IF r.why # "none" THEN decision' = r /\ pc' = "done" /\ UNCHANGED looked
             ELSE IF Dst.kind = "addr"
             THEN decision' = Vet(Mine, r.rule, <<Dst.addr>>) /\ pc' = "done" /\ UNCHANGED looked
             ELSE /\ looked' = looked \cup {Dst.name} /\ pc' = "resolving"
                  /\ UNCHANGED decision
  /\ UNCHANGED <<file, cfg, req, found>>

\* The lookup fails.
LookupFails ==
  /\ pc = "resolving"
  /\ decision' = Deny("dns", NoRule) /\ pc' = "done"
  /\ UNCHANGED <<file, cfg, req, lim, looked, found>>

\* The lookup answers and Check vets what it found.
LookupAnswers(answer) ==
  /\ pc = "resolving"
  /\ found' = answer
  /\ decision' = IF Resolved(answer) = <<>> THEN Deny("dns", NoRule)
                 ELSE Vet(Mine, Refusal(Mine, req.host, req.port).rule, Resolved(answer))
  /\ pc' = "done"
  /\ UNCHANGED <<file, cfg, req, lim, looked>>

Next == Load \/ Check \/ LookupFails \/ \E answer \in Answers : LookupAnswers(answer)

Spec == Init /\ [][Next]_vars

-----------------------------------------------------------------------------
(* What the config says, with no compiled form in between *)

\* The subnet of the client is the one with the longest of all the prefixes
\* that hold its address.
Holding(i) == {j \in DOMAIN specs[i].cidrs : Within(specs[i].cidrs[j], Unmap(req.client))}
OwnerSpecs == {i \in DOMAIN specs :
                 \E j \in Holding(i) : \A k \in DOMAIN specs : \A l \in Holding(k) :
                    specs[k].cidrs[l].bits <= specs[i].cidrs[j].bits}
Owner == specs[CHOOSE i \in OwnerSpecs : TRUE]

\* A pattern's domain is a suffix of the name.
Under(n, base) == Len(n) >= Len(base) /\ SubSeq(n, Len(n) - Len(base) + 1, Len(n)) = base

\* The hostnames a pattern stands for, by the forms listed at ruleSet.add.
Names(p, n) ==
  CASE p.form = "addr" -> FALSE
    [] p.form = "regex" -> n \in p.lang
    [] p.form = "name" ->
         LET m == Normal(p.name)
         IN IF m = <<"*">> THEN TRUE
            ELSE IF m[1] = "" THEN Under(n, Tail(m))
            ELSE IF m[1] = "*" THEN \E i \in 2..Len(n) :
                   LET t == SubSeq(n, i, Len(n)) IN
                     Len(t) = Len(m) - 1 /\ \A j \in DOMAIN t : Covers(m[j + 1], t[j])
            ELSE Len(n) = Len(m) /\ \A j \in DOMAIN n : Covers(m[j], n[j])

Addresses(p, a) == p.form = "addr" /\ Within(p.pfx, a)

Everywhere(p) == p.form = "name" /\ Normal(p.name) = <<"*">>

DenyListed(a) == \E p \in Range(Owner.deny) : Addresses(p, a) \/ Everywhere(p)
AllowListed(a) == \E p \in Range(Owner.allow) : Addresses(p, a)

GoodAddr(a) == ~DenyListed(a) /\ (IsPublic(a) \/ AllowListed(a))

GoodPort == IF Owner.ports = <<>> THEN req.port \in {80, 443}
            ELSE \E i \in DOMAIN Owner.ports : req.port \in Owner.ports[i].lo..Owner.ports[i].hi

GoodName(n) == /\ \A p \in Range(Owner.deny) : ~Names(p, n)
               /\ \E p \in Range(Owner.allow) : Names(p, n)

\* May the request be served, given what the name resolved to?
Permitted ==
  /\ OwnerSpecs # {} /\ GoodPort /\ Dst.kind # "junk"
  /\ IF Dst.kind = "addr"
     THEN ~DenyListed(Dst.addr) /\ AllowListed(Dst.addr)
     ELSE /\ GoodName(Dst.name) /\ found # <<>>
          /\ \A i \in DOMAIN found : ~Unmap(found[i]).zone /\ GoodAddr(Unmap(found[i]))

-----------------------------------------------------------------------------
(* Properties *)

\* Check allows exactly the requests the config permits: deny rules win over
\* allow rules whatever their order and form, every resolved address is judged,
\* and the longest client prefix decides which subnet's rules apply.
DecisionExact == pc = "done" => (decision.allow <=> Permitted)

\* The proxy is told to connect to what was checked and nothing else: the
\* literal that was asked for, or all of the addresses the one lookup returned.
AddrsAreChecked ==
  decision.allow =>
    Range(decision.addrs) = IF Dst.kind = "addr" THEN {Dst.addr}
                            ELSE {Unmap(found[i]) : i \in DOMAIN found}

\* policy.go:171 "denied names never cause DNS lookups": only a name that no
\* deny rule and some allow rule covers, on a permitted port, is looked up.
OnlyAllowedNamesLookedUp ==
  \A n \in looked : OwnerSpecs # {} /\ GoodName(n) /\ GoodPort

\* How specific a pattern is for a name, in the order matchName documents.
Rank(p) ==
  CASE Kind(p) = "exact" -> MaxLabels + 5
    [] Kind(p) = "suffix" -> 3 + Len(Key(p))
    [] Kind(p) = "wildcard" -> 2
    [] Kind(p) = "any" -> 1

\* The rule reported for an allowed name matches it, and no allow rule of the
\* config that matches it is more specific.
RuleMostSpecific ==
  decision.allow /\ Dst.kind = "name" =>
    /\ decision.rule \in Range(Owner.allow) /\ Names(decision.rule, Dst.name)
    /\ \A p \in Range(Owner.allow) : Names(p, Dst.name) => Rank(p) <= Rank(decision.rule)

\* Of three values, the first that is set.
FirstSet(x, y, z) ==
  LET set == {v \in {<<1, x>>, <<2, y>>, <<3, z>>} : v[2] # Unset}
  IN (CHOOSE v \in set : \A w \in set : v[1] <= w[1])[2]

\* The value of a limit that is set nearest to the client: in its subnet, in
\* the file, or built in.
Nearest(fld) ==
  FirstSet(IF OwnerSpecs = {} THEN Unset ELSE Owner.limits[fld],
           file.limits[fld], DefaultClientLimits[fld])

\* config.example.yaml:13 "0 disables a limit": in a config that loads, each
\* limit of a client is the one set nearest to it, whatever its subnet's name
\* and place in the file, and no combination of them inherited from different
\* places makes a rate that never grants a request, or a negative limit.
LimitsInherited ==
  pc \in {"resolving", "done"} =>
    /\ \A fld \in Field : lim[fld] = Nearest(fld) /\ lim[fld] >= 0
    /\ lim.rate > 0 => lim.burst > 0
=============================================================================
