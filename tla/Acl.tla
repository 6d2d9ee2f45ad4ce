-------------------------------- MODULE Acl --------------------------------
(***************************************************************************)
(* internal/acl: how a policy is compiled and what its rules match, as     *)
(* operators.  AclCheck runs them in the order a request does.             *)
(*                                                                         *)
(* A name is the sequence of its labels; a dot at either end of the text   *)
(* is an empty first or last label.  What the code reads off the           *)
(* characters of a label is a constant: its lowercase form, whether it is  *)
(* a number, whether it is malformed, which labels a "*" inside it covers. *)
(* Addresses are as in netip, with W4 and W6 bits for 32 and 128, the      *)
(* highest bit first.                                                      *)
(***************************************************************************)
EXTENDS Integers, Sequences, FiniteSets, FiniteSetsExt, Functions

CONSTANTS
  Lower,      \* function: a label -> its lowercase form
  Numeric,    \* lowercase labels that isNumeric accepts
  Malformed,  \* labels that are empty, too long or edged with hyphens
  Glob,       \* function: a lowercase label holding "*" -> the labels it covers
  Starred,    \* of these, the ones that begin with "*"
  MaxLabels,  \* stands for the 253 bytes of a hostname
  W4, W6,     \* address widths in bits
  MappedHi,   \* the bits above the last W4 of an IPv4-mapped IPv6 address
  NonPublic,  \* the prefixes of nonPublic
  MaxPort,    \* 65535
  DefaultName,\* function: the position of a nameless subnet -> its name
  NoRule      \* the pattern of no rule, "" in the code

ASSUME AclAssumption ==
  /\ Lower \in [DOMAIN Lower -> DOMAIN Lower] /\ "*" \in DOMAIN Glob
  /\ MaxLabels \in Nat /\ MaxPort \in Nat /\ MaxPort >= 443
  /\ W4 \in Nat /\ W6 \in Nat /\ W4 <= W6

-----------------------------------------------------------------------------
(* Addresses and prefixes (netip) *)

Width(fam) == IF fam = 4 THEN W4 ELSE W6

Bits(fam) == [1..Width(fam) -> {0, 1}]

Addr == [fam : {4}, val : Bits(4), zone : {FALSE}] \cup [fam : {6}, val : Bits(6), zone : BOOLEAN]

Prefix == [fam : {4}, val : Bits(4), bits : 0..W4] \cup [fam : {6}, val : Bits(6), bits : 0..W6]

Is4In6(a) == a.fam = 6 /\ \A i \in 1..(W6 - W4) : a.val[i] = MappedHi[i]

Unmap(a) == IF Is4In6(a)
            THEN [fam |-> 4, val |-> [i \in 1..W4 |-> a.val[W6 - W4 + i]], zone |-> FALSE]
            ELSE a

\* Prefix.Contains: same family, no zone, equal leading bits.
Within(pfx, a) ==
  pfx.fam = a.fam /\ ~a.zone /\ \A i \in 1..pfx.bits : pfx.val[i] = a.val[i]

\* parsePrefix accepts plain families with no host bits set.
ValidPrefix(pfx) == /\ ~Is4In6(pfx)
                    /\ \A i \in 1..Width(pfx.fam) : i > pfx.bits => pfx.val[i] = 0

IsPublic(a) == \A pfx \in NonPublic : ~Within(pfx, a)

-----------------------------------------------------------------------------
(* Hostnames *)

Name == Seq(DOMAIN Lower) \ {<<>>}

\* What a request may ask for: the text of an address, of a name, or neither.
Host == [kind : {"addr"}, addr : Addr] \cup [kind : {"name"}, name : Name] \cup [kind : {"junk"}]

TrimDot(n) == IF Len(n) > 1 /\ n[Len(n)] = "" THEN SubSeq(n, 1, Len(n) - 1) ELSE n

Normal(n) == [i \in DOMAIN TrimDot(n) |-> Lower[n[i]]]

IsGlob(l) == l \in DOMAIN Glob

\* validateHostname.
ValidHostname(n, wild) ==
  /\ n # <<"">> /\ Len(n) <= MaxLabels
  /\ \A i \in DOMAIN n : n[i] \notin Malformed /\ (IsGlob(n[i]) => wild)
  /\ n[Len(n)] \notin Numeric
  /\ wild => \E i \in DOMAIN n : n[i] \notin Numeric /\ n[i] # "*"

\* parseHost: a requested host is an address or a name.  Text that holds a
\* character no hostname has is "junk".
ParseHost(h) ==
  CASE h.kind = "addr" -> IF h.addr.zone THEN [kind |-> "junk"]
                          ELSE [kind |-> "addr", addr |-> Unmap(h.addr)]
    [] h.kind = "name" -> IF ValidHostname(Normal(h.name), FALSE)
                          THEN [kind |-> "name", name |-> Normal(h.name)]
                          ELSE [kind |-> "junk"]
    [] OTHER -> [kind |-> "junk"]

ValidPort(p) == p \in 1..MaxPort

-----------------------------------------------------------------------------
(* Rules.  A pattern of the config is [form |-> "name", name], [form |->      *)
(* "regex", lang, ok] with the lowercase names the anchored expression        *)
(* accepts and whether it compiles, or [form |-> "addr", pfx].                *)

Pattern == [form : {"name"}, name : Name]
           \cup [form : {"regex"}, lang : SUBSET Name, ok : BOOLEAN]
           \cup [form : {"addr"}, pfx : Prefix]

\* A "*" label covers within a label; a leading one, one or more labels.
Covers(l, m) == IF IsGlob(l) THEN m \in Glob[l] ELSE l = m

WildMatch(p, n) ==
  LET sub == p[1] = "*"
      rest == IF sub THEN Tail(p) ELSE p
      off == Len(n) - Len(rest)
  IN /\ IF sub THEN off >= 1 ELSE off = 0
     /\ \A i \in DOMAIN rest : Covers(rest[i], n[off + i])

\* compileNamePattern: the kind of a hostname pattern, "bad" if it is refused.
NameKind(p) ==
  IF p = <<"*">> THEN "any"
  ELSE IF Len(p) > 1 /\ p[1] = "" THEN (IF ValidHostname(Tail(p), FALSE) THEN "suffix" ELSE "bad")
  ELSE IF \A i \in DOMAIN p : ~IsGlob(p[i]) THEN (IF ValidHostname(p, FALSE) THEN "exact" ELSE "bad")
  ELSE IF (p[1] \in Starred => p[1] = "*") /\ ValidHostname(p, TRUE) THEN "wildcard"
  ELSE "bad"

\* ruleSet.add: the kind of a pattern.
Kind(p) ==
  CASE p.form = "regex" -> IF p.ok THEN "wildcard" ELSE "bad"
    [] p.form = "addr" -> IF ValidPrefix(p.pfx) THEN "addr" ELSE "bad"
    [] p.form = "name" -> NameKind(Normal(p.name))

OfKind(patterns, kind) == {i \in DOMAIN patterns : Kind(patterns[i]) = kind}

\* The name an exact or domain pattern is filed under.
Key(p) == IF Kind(p) = "suffix" THEN Tail(Normal(p.name)) ELSE Normal(p.name)

\* The maps of the rule set: the first pattern given for a name stays.
Filed(patterns, kind) ==
  LET at == OfKind(patterns, kind)
  IN [n \in {Key(patterns[i]) : i \in at} |-> patterns[Min({i \in at : Key(patterns[i]) = n})]]

\* compileRules.  The rules that are kept in lists keep their position among
\* the patterns.
CompileRules(patterns) ==
  LET any == OfKind(patterns, "any")
  IN [ok |-> OfKind(patterns, "bad") = {},
      exact |-> Filed(patterns, "exact"),
      suffix |-> Filed(patterns, "suffix"),
      names |-> [i \in OfKind(patterns, "wildcard") |-> patterns[i]],
      any |-> IF any = {} THEN NoRule ELSE patterns[Min(any)],
      addrs |-> [i \in OfKind(patterns, "addr") |-> [pattern |-> patterns[i], pfx |-> patterns[i].pfx]]]

NameRuleMatch(p, n) == IF p.form = "regex" THEN n \in p.lang ELSE WildMatch(Normal(p.name), n)

\* Mutated form: the shortest matching domain is taken.
MatchNameShortest(rs, n) ==
  LET tails == {i \in DOMAIN n : SubSeq(n, i, Len(n)) \in DOMAIN rs.suffix}
      hits == {i \in DOMAIN rs.names : NameRuleMatch(rs.names[i], n)}
  IN IF n \in DOMAIN rs.exact THEN rs.exact[n]
     ELSE IF tails # {} THEN rs.suffix[SubSeq(n, Max(tails), Len(n))]
     ELSE IF hits # {} THEN rs.names[Min(hits)]
     ELSE rs.any

\* ruleSet.matchName: exact, then the first domain found while labels are cut
\* from the left, then wildcards and regexes in order, then "*".
MatchName(rs, n) ==
  LET tails == {i \in DOMAIN n : SubSeq(n, i, Len(n)) \in DOMAIN rs.suffix}
      hits == {i \in DOMAIN rs.names : NameRuleMatch(rs.names[i], n)}
  IN IF n \in DOMAIN rs.exact THEN rs.exact[n]
     ELSE IF tails # {} THEN rs.suffix[SubSeq(n, Min(tails), Len(n))]
     ELSE IF hits # {} THEN rs.names[Min(hits)]
     ELSE rs.any

MatchAddr(rs, a) ==
  LET hits == {i \in DOMAIN rs.addrs : Within(rs.addrs[i].pfx, a)}
  IN IF hits = {} THEN NoRule ELSE rs.addrs[Min(hits)].pattern

Match(rs, dst) == IF dst.kind = "addr" THEN MatchAddr(rs, dst.addr) ELSE MatchName(rs, dst.name)

-----------------------------------------------------------------------------
(* Policies.  A SubnetSpec is [name, cidrs, ports, allow, deny].             *)

PortRange == [lo : Int, hi : Int]

DefaultPorts == {[lo |-> 80, hi |-> 80], [lo |-> 443, hi |-> 443]}

ValidRange(r) == ValidPort(r.lo) /\ ValidPort(r.hi) /\ r.lo <= r.hi

\* 0.0.0.0/0 and ::/0.
Everything(fam) == [fam |-> fam, val |-> [i \in 1..Width(fam) |-> 0], bits |-> 0]

\* In a deny list "*" also covers every address, after the other rules.
CompileDeny(patterns) ==
  LET rs == CompileRules(patterns)
      n == Len(patterns)
      All(fam) == [pattern |-> rs.any, pfx |-> Everything(fam)]
  IN IF rs.any = NoRule THEN rs
     ELSE [rs EXCEPT !.addrs = [i \in DOMAIN @ \cup {n + 1, n + 2} |->
                                  IF i <= n THEN @[i] ELSE All(IF i = n + 1 THEN 4 ELSE 6)]]

\* compileSubnet.
CompileSubnet(spec) ==
  [name |-> spec.name,
   prefixes |-> spec.cidrs,
   ports |-> IF spec.ports = <<>> THEN DefaultPorts ELSE Range(spec.ports),
   allow |-> CompileRules(spec.allow),
   deny |-> CompileDeny(spec.deny),
   ok |-> /\ spec.cidrs # <<>> /\ \A i \in DOMAIN spec.cidrs : ValidPrefix(spec.cidrs[i])
          /\ \A i \in DOMAIN spec.ports : ValidRange(spec.ports[i])
          /\ CompileRules(spec.allow).ok /\ CompileRules(spec.deny).ok]

\* Every prefix of every subnet with its owner and its place there.
Owners(subnets) ==
  UNION {{[subnet |-> i, at |-> j, pfx |-> subnets[i].prefixes[j]] :
            j \in DOMAIN subnets[i].prefixes} : i \in DOMAIN subnets}

\* acl.New: the compiled subnets; <<>> if the specs are refused.
NewPolicy(specs) ==
  LET named == [i \in DOMAIN specs |->
                  IF specs[i].name = "" THEN [specs[i] EXCEPT !.name = DefaultName[i]]
                  ELSE specs[i]]
      subnets == [i \in DOMAIN named |-> CompileSubnet(named[i])]
  IN IF /\ \A i, j \in DOMAIN named : i # j => named[i].name # named[j].name
        /\ \A i \in DOMAIN subnets : subnets[i].ok
        /\ \A o, q \in Owners(subnets) : o.pfx = q.pfx => o = q
     THEN subnets ELSE <<>>

Before(o, q) == o.subnet < q.subnet \/ (o.subnet = q.subnet /\ o.at <= q.at)

\* Mutated form: a later prefix wins, whatever its length.
BeatsLater(o, q) == Before(q, o)

\* Of two prefixes that hold the client the scan stays with the longer, and
\* with the first of two that are as long.
Beats(o, q) == o.pfx.bits > q.pfx.bits \/ (o.pfx.bits = q.pfx.bits /\ Before(o, q))

\* SubnetOf: the index of the client's subnet, 0 for none.
SubnetOf(subnets, client) ==
  LET held == {o \in Owners(subnets) : Within(o.pfx, Unmap(client))}
  IN IF held = {} THEN 0 ELSE (CHOOSE o \in held : \A q \in held : Beats(o, q)).subnet

AllowsPort(s, port) == \E r \in s.ports : r.lo <= port /\ port <= r.hi

-----------------------------------------------------------------------------
(* Subnet.Check, on either side of the DNS lookup *)

Deny(why, rule) == [allow |-> FALSE, rule |-> rule, why |-> why, addrs |-> <<>>]

\* Mutated form: deny rules are left to the check of the addresses.
RefusalAllowFirst(s, host, port) ==
  LET dst == ParseHost(host)
  IN IF dst.kind = "junk" THEN Deny("host", NoRule)
     ELSE IF ~ValidPort(port) THEN Deny("port", NoRule)
     ELSE IF Match(s.allow, dst) = NoRule THEN Deny("no rule", NoRule)
     ELSE IF ~AllowsPort(s, port) THEN Deny("port", NoRule)
     ELSE Deny("none", Match(s.allow, dst))

\* Everything Check decides before it may resolve a name: the refusal, or
\* why = "none" and the allow rule that matched.
Refusal(s, host, port) ==
  LET dst == ParseHost(host)
  IN IF dst.kind = "junk" THEN Deny("host", NoRule)
     ELSE IF ~ValidPort(port) THEN Deny("port", NoRule)
     ELSE IF Match(s.deny, dst) # NoRule THEN Deny("deny rule", Match(s.deny, dst))
     ELSE IF Match(s.allow, dst) = NoRule THEN Deny("no rule", NoRule)
     ELSE IF ~AllowsPort(s, port) THEN Deny("port", NoRule)
     ELSE Deny("none", Match(s.allow, dst))

\* resolve: the addresses found, unmapped, or <<>> when there is none or one
\* of them is unusable.
Resolved(found) ==
  LET addrs == [i \in DOMAIN found |-> Unmap(found[i])]
  IN IF \E i \in DOMAIN addrs : addrs[i].zone THEN <<>> ELSE addrs

AddrAllowed(s, a) ==
  /\ MatchAddr(s.deny, a) = NoRule
  /\ IsPublic(a) \/ MatchAddr(s.allow, a) # NoRule

\* Mutated form: only the first of the checked addresses is passed on.
VetFirst(s, rule, addrs) ==
  LET bad == {i \in DOMAIN addrs : ~AddrAllowed(s, addrs[i])}
  IN IF bad = {}
     THEN [allow |-> TRUE, rule |-> rule, why |-> "allowed", addrs |-> SubSeq(addrs, 1, 1)]
     ELSE Deny("address", MatchAddr(s.deny, addrs[Min(bad)]))

\* The loop over the addresses: one bad address refuses the request, and the
\* first such is reported, with the deny rule it matches unless it is only not
\* public.
Vet(s, rule, addrs) ==
  LET bad == {i \in DOMAIN addrs : ~AddrAllowed(s, addrs[i])}
  IN IF bad = {}
     THEN [allow |-> TRUE, rule |-> rule, why |-> "allowed", addrs |-> addrs]
     ELSE Deny("address", MatchAddr(s.deny, addrs[Min(bad)]))
=============================================================================
