----------------------------- MODULE MCAclCheck -----------------------------
(***************************************************************************)
(* Instances of AclCheck.  IPv4 addresses have 2 bits and 0..1 are private; *)
(* IPv6 addresses have 4, of which 4..7 are the IPv4-mapped ones and 0..3   *)
(* are not public.                                                          *)
(***************************************************************************)
EXTENDS AclCheck, TLC

MCLabel == {"", "a", "A", "ab", "b", "com", "7", "-a", "*", "a*", "*a"}
MCLower == [l \in MCLabel |-> IF l = "A" THEN "a" ELSE l]
MCGlob == "*" :> {"a", "ab", "b", "com", "7"} @@ "a*" :> {"a", "ab"} @@ "*a" :> {"a"}
MCDefaultName == <<"subnet[0]", "subnet[1]">>

Binary(v, w) == [i \in 1..w |-> (v \div 2^(w - i)) % 2]
V4(v) == [fam |-> 4, val |-> Binary(v, W4), zone |-> FALSE]
V6(v) == [fam |-> 6, val |-> Binary(v, W6), zone |-> FALSE]
Prefix4(v, b) == [fam |-> 4, val |-> Binary(v, W4), bits |-> b]
Prefix6(v, b) == [fam |-> 6, val |-> Binary(v, W6), bits |-> b]
MCMappedHi == <<0, 1>>
MCNonPublic == {Prefix4(0, 1), Prefix6(0, 2), Prefix6(4, 2)}

NamePattern(n) == [form |-> "name", name |-> n]
Range4(v, b) == [form |-> "addr", pfx |-> Prefix4(v, b)]
Range6(v, b) == [form |-> "addr", pfx |-> Prefix6(v, b)]
Regex(lang, ok) == [form |-> "regex", lang |-> lang, ok |-> ok]

Named(n) == [kind |-> "name", name |-> n]
Literal(a) == [kind |-> "addr", addr |-> a]

\* One subnet, every pair of short rule lists.
Good == {NamePattern(<<"a", "com">>), NamePattern(<<"", "A", "com", "">>), NamePattern(<<"", "com">>),
         NamePattern(<<"*", "com">>), NamePattern(<<"a*", "com">>), NamePattern(<<"*">>),
         Regex({<<"b", "com">>}, TRUE), Range4(0, 2), Range4(2, 1), Range6(8, 1)}
Lists(S, n) == UNION {[1..m -> S] : m \in 0..n}
NoLimits == [fld \in Field |-> Unset]
Subnet(name, cidrs, ports, allow, deny) ==
  [name |-> name, cidrs |-> cidrs, ports |-> ports, allow |-> allow, deny |-> deny,
   limits |-> NoLimits]
FileOf(subnets) == [decodes |-> TRUE, docs |-> 1, level |-> "", total |-> Unset,
                  limits |-> NoLimits, subnets |-> subnets]
Anyone == <<Prefix4(0, 0)>>
RuleConfigs ==
  {FileOf(<<Subnet("lan", Anyone, <<>>, al, de)>>) : al \in Lists(Good, 2), de \in Lists(Good, 1)}
RuleHosts == {Named(<<"A", "com", "">>), Named(<<"ab", "com">>), Named(<<"b", "a", "com">>),
              Named(<<"b", "com">>), Named(<<"com">>), Named(<<"a", "7">>), [kind |-> "junk"],
              Literal(V4(0)), Literal(V6(6)), Literal(V6(9)), Literal([V6(8) EXCEPT !.zone = TRUE])}
RuleCases == RuleConfigs \X [client : {V4(1)}, host : RuleHosts, port : {80, 81}]
MCAnswers == {<<V4(0)>>, <<V4(3)>>, <<V6(7), V6(8)>>, <<V6(4), V4(2)>>, <<V6(1)>>, <<>>,
              <<V4(3), [V6(8) EXCEPT !.zone = TRUE]>>, <<[V6(6) EXCEPT !.zone = TRUE]>>}

\* Two subnets with overlapping prefixes in every order; refused patterns.
Bad == {NamePattern(<<"", "">>), NamePattern(<<"*a", "com">>), NamePattern(<<"a", "*", "7">>),
        NamePattern(<<"7", "*">>), NamePattern(<<"-a", "com">>), Range4(3, 1), Range6(4, 2),
        Regex({}, FALSE)}
Cidrs == {<<Prefix4(0, 0)>>, <<Prefix4(2, 1)>>, <<Prefix4(2, 2), Prefix4(0, 1)>>,
          <<Prefix4(3, 2), Prefix6(8, 1)>>, <<Prefix6(4, 2)>>, <<>>}
PortLists == {<<>>, <<[lo |-> 80, hi |-> 81]>>, <<[lo |-> 81, hi |-> 80]>>}
AllowCom == <<NamePattern(<<"", "com">>)>>
SubnetConfigs ==
  {FileOf(<<Subnet("", c1, p, AllowCom, d), Subnet(n2, c2, <<>>, <<NamePattern(<<"*">>)>>, <<>>)>>) :
     c1 \in Cidrs, c2 \in Cidrs, p \in PortLists, n2 \in {"", "subnet[0]"},
     d \in {<<>>} \cup {<<p>> : p \in Bad \cup {NamePattern(<<"*">>)}}} \cup {FileOf(<<>>)}
SubnetClients == {V4(v) : v \in 0..3} \cup {V6(6), V6(9), V6(1)}
SubnetHosts == {Named(<<"a", "com">>), Named(<<"b">>)}
SubnetCases == SubnetConfigs \X [client : SubnetClients, host : SubnetHosts, port : {80, 81}]

\* Limits at the top and in either of two subnets; files that do not parse.
MCLevels == "info" :> 1 @@ "warn" :> 2
MCDefaultLimits == [conns |-> 4, rate |-> 3, burst |-> 6, idle |-> 8]
Limits == [conns : {Unset, 1}, rate : {Unset, 0, 2, NotFinite}, burst : {Unset, 0, 5, -1},
           idle : {Unset}]
TwoSubnets(l1, l2) ==
  <<[Subnet("", <<Prefix4(2, 1)>>, <<>>, AllowCom, <<>>) EXCEPT !.limits = l1],
    [Subnet("", <<Prefix4(3, 2)>>, <<>>, AllowCom, <<>>) EXCEPT !.limits = l2]>>
LimitFiles ==
  {[FileOf(TwoSubnets(l1, l2)) EXCEPT !.limits = top] : top \in Limits, l1 \in Limits,
     l2 \in {NoLimits, [NoLimits EXCEPT !.conns = 2, !.idle = 0], [NoLimits EXCEPT !.idle = -1]}}
BrokenFiles ==
  {[FileOf(TwoSubnets(NoLimits, NoLimits)) EXCEPT !.decodes = d, !.docs = n, !.level = lv, !.total = t] :
     d \in BOOLEAN, n \in 0..2, lv \in {"", "warn", "loud"}, t \in {Unset, 0, -1}}
LimitCases == (LimitFiles \cup BrokenFiles)
              \X [client : {V4(v) : v \in 1..3}, host : {Named(<<"com">>)}, port : {80}]

MCCases == RuleCases \cup SubnetCases \cup LimitCases
=============================================================================
