--------------------------- MODULE AclCheckProofs ---------------------------
(***************************************************************************)
(* Proofs about AclCheck, for every config file, request and DNS answer:   *)
(* what the compiled form of the rules, prefixes and limits decides is     *)
(* what the file says.  The lemmas go bottom up, from hostname patterns    *)
(* and rule sets through subnets and limits to the steps of a check.       *)
(***************************************************************************)
EXTENDS AclCheck, SequenceTheorems, WellFoundedInduction, TLAPS

\* Zenon first: SMT is for the leaves that need arithmetic or records.
USE ZenonT(4), SMTT(15)

-----------------------------------------------------------------------------
(* Numbers *)

\* Min of a set of positions.
LEMMA MinIsLeast ==
  ASSUME NEW S \in SUBSET Nat, S # {}
  PROVE  Min(S) \in S /\ \A q \in S : Min(S) <= q
<1>1. \E x \in S : \A y \in S : ~(<<y, x>> \in OpToRel(<, Nat))
  BY NatLessThanWellFounded, WFMin
<1>2. PICK x \in S : \A y \in S : ~(<<y, x>> \in OpToRel(<, Nat))
  BY <1>1
<1>3. ASSUME NEW y \in S PROVE x <= y
  <2>1. y < x => <<y, x>> \in OpToRel(<, Nat)
    BY SMT DEF OpToRel
  <2>2. ~(y < x)
    BY <1>2, <2>1, Zenon
  <2> QED BY <2>2, SMT
<1>4. \E z \in S : \A y \in S : z <= y
  BY <1>3, Zenon
<1> QED BY <1>4, Zenon DEF Min

\* Of the members of a set, some have the greatest measure, if it is bounded.
LEMMA HasGreatest ==
  ASSUME NEW n \in Nat, NEW S, S # {}, NEW m, \A x \in S : m[x] \in 0..n
  PROVE  \E x \in S : \A y \in S : m[y] <= m[x]
<1> DEFINE T == {n - m[x] : x \in S}
<1>1. T \in SUBSET Nat /\ T # {}
  <2>1. ASSUME NEW x \in S PROVE n - m[x] \in Nat
    BY SMT
  <2> QED BY <2>1, SMT
<1>2. PICK x \in S : Min(T) = n - m[x]
  <2>1. Min(T) \in T
    BY <1>1, MinIsLeast, Zenon
  <2> QED BY <2>1, Zenon
<1>3. ASSUME NEW y \in S PROVE m[y] <= m[x]
  <2>1. n - m[x] <= n - m[y]
    BY <1>1, <1>2, MinIsLeast, SMT
  <2>2. m[x] \in 0..n /\ m[y] \in 0..n
    OBVIOUS
  <2> HIDE DEF T
  <2> QED BY <2>1, <2>2, SMT
<1> QED BY <1>3

-----------------------------------------------------------------------------
(* Names and patterns *)

\* A name is a sequence of one or more labels.
LEMMA NameFacts ==
  ASSUME NEW n \in Name
  PROVE  /\ n \in Seq(DOMAIN Lower) /\ Len(n) \in Nat /\ Len(n) >= 1 /\ DOMAIN n = 1..Len(n)
         /\ \A i \in 1..Len(n) : n[i] \in DOMAIN Lower
BY LenProperties, EmptySeq, SMT DEF Name

\* Lowercasing a name gives a name.
LEMMA NormalIsName ==
  ASSUME NEW n \in Name
  PROVE  Normal(n) \in Name
<1> DEFINE t == TrimDot(n)
           m == [i \in DOMAIN t |-> Lower[n[i]]]
<1>1. t \in Seq(DOMAIN Lower) /\ Len(t) \in Nat /\ Len(t) >= 1 /\ Len(t) <= Len(n)
  <2>1. CASE Len(n) > 1 /\ n[Len(n)] = ""
    <3>1. t = SubSeq(n, 1, Len(n) - 1)
      BY <2>1 DEF TrimDot
    <3> DEFINE k == Len(n) - 1
    <3>2. k \in Nat /\ k >= 1 /\ k <= Len(n) /\ 1 \in Int
      <4>1. Len(n) \in Nat /\ Len(n) > 1
        BY <2>1, NameFacts
      <4> QED BY <4>1, SMT
    <3>3. \A i \in 1..k : n[i] \in DOMAIN Lower
      BY <3>2, NameFacts, SMT
    <3> HIDE DEF k
    <3>4. /\ SubSeq(n, 1, k) \in Seq(DOMAIN Lower)
          /\ Len(SubSeq(n, 1, k)) = IF 1 <= k THEN k - 1 + 1 ELSE 0
      BY <3>2, <3>3, SubSeqProperties, SMT
    <3> QED BY <3>1, <3>2, <3>4, SMT DEF k
  <2>2. CASE ~(Len(n) > 1 /\ n[Len(n)] = "")
    <3>1. t = n
      BY <2>2 DEF TrimDot
    <3> HIDE DEF t
    <3> QED BY <3>1, NameFacts, SMT
  <2> QED BY <2>1, <2>2
<1>2. DOMAIN t = 1..Len(t)
  BY <1>1, LenProperties
<1> HIDE DEF t
<1>3. \A i \in 1..Len(t) : Lower[n[i]] \in DOMAIN Lower
  BY <1>1, NameFacts, AclAssumption, SMT
<1>4. m \in [1..Len(t) -> DOMAIN Lower]
  BY <1>2, <1>3, SMT
<1>5. m \in Seq(DOMAIN Lower) /\ Len(m) = Len(t)
  BY <1>1, <1>4, SMT
<1>6. m # <<>>
  BY <1>1, <1>5, SMT
<1> QED BY <1>5, <1>6 DEF Name, Normal, t

\* The forms a pattern of the file may have.
LEMMA PatternForms ==
  ASSUME NEW p \in Pattern
  PROVE  \/ p.form = "name" /\ p.name \in Name
         \/ p.form = "regex" /\ p.lang \in SUBSET Name /\ p.ok \in BOOLEAN
         \/ p.form = "addr" /\ p.pfx \in Prefix
BY SMT DEF Pattern

\* compileNamePattern, case by case.
LEMMA NameKinds ==
  ASSUME NEW m \in Name
  PROVE  /\ NameKind(m) \in {"any", "suffix", "exact", "wildcard", "bad"}
         /\ NameKind(m) = "any" <=> m = <<"*">>
         /\ NameKind(m) = "suffix" => Len(m) > 1 /\ m[1] = "" /\ ValidHostname(Tail(m), FALSE)
         /\ NameKind(m) = "exact" =>
              /\ ~(Len(m) > 1 /\ m[1] = "") /\ ValidHostname(m, FALSE)
              /\ \A i \in DOMAIN m : ~IsGlob(m[i])
         /\ NameKind(m) = "wildcard" =>
              /\ ~(Len(m) > 1 /\ m[1] = "") /\ ValidHostname(m, TRUE)
BY DEF NameKind

\* What follows a name's first label is a name.
LEMMA TailName ==
  ASSUME NEW m \in Name, Len(m) > 1
  PROVE  /\ Tail(m) \in Name /\ Len(Tail(m)) = Len(m) - 1
         /\ \A i \in 1..(Len(m) - 1) : Tail(m)[i] = m[i + 1]
<1>1. m \in Seq(DOMAIN Lower) /\ m # <<>> /\ Len(m) \in Nat
  BY NameFacts DEF Name
<1>2. /\ Tail(m) \in Seq(DOMAIN Lower) /\ Len(Tail(m)) = Len(m) - 1
      /\ \A i \in 1..Len(Tail(m)) : Tail(m)[i] = m[i + 1]
  BY <1>1, HeadTailProperties
<1>3. Tail(m) # <<>>
  <2>1. Len(Tail(m)) # 0
    BY <1>1, <1>2, SMT
  <2> QED BY <2>1, EmptySeq
<1> QED BY <1>2, <1>3 DEF Name

\* What is left of a name when labels are cut from the left.
LEMMA CutName ==
  ASSUME NEW n \in Name, NEW i \in 1..Len(n)
  PROVE  LET t == SubSeq(n, i, Len(n))
         IN  /\ t \in Seq(DOMAIN Lower) /\ Len(t) = (Len(n) - i) + 1
             /\ DOMAIN t = 1..((Len(n) - i) + 1)
             /\ \A j \in 1..((Len(n) - i) + 1) : t[j] = n[(i + j) - 1]
<1> DEFINE L == Len(n)
           t == SubSeq(n, i, L)
<1>1. L \in Nat /\ i \in Int /\ i <= L /\ i >= 1
  BY NameFacts
<1>2. \A j \in i..L : n[j] \in DOMAIN Lower
  BY <1>1, NameFacts, SMT
<1> HIDE DEF L
<1>3. /\ t \in Seq(DOMAIN Lower) /\ Len(t) = IF i <= L THEN L - i + 1 ELSE 0
      /\ \A j \in 1..(L - i + 1) : t[j] = n[i + j - 1]
  BY <1>1, <1>2, SubSeqProperties, SMT
<1> HIDE DEF t
<1>4. Len(t) = (L - i) + 1
  BY <1>1, <1>3, SMT
<1>5. DOMAIN t = 1..Len(t)
  BY <1>3, LenProperties
<1>6. ASSUME NEW j \in 1..((L - i) + 1) PROVE t[j] = n[(i + j) - 1]
  <2>1. i + (j - 1) = (i + j) - 1
    BY <1>1, SMT
  <2> QED BY <1>1, <1>3, <2>1, SMT
<1> QED BY <1>3, <1>4, <1>5, <1>6 DEF t, L

\* The domain a pattern names ends a name exactly when cutting labels from the
\* left meets it.
LEMMA UnderIsCut ==
  ASSUME NEW n \in Name, NEW b \in Name
  PROVE  Under(n, b) <=> \E i \in DOMAIN n : SubSeq(n, i, Len(n)) = b
<1> DEFINE k == (Len(n) - Len(b)) + 1
<1>1. Len(n) \in Nat /\ Len(b) \in Nat /\ Len(b) >= 1 /\ DOMAIN n = 1..Len(n)
  BY NameFacts
<1>2. Under(n, b) <=> Len(n) >= Len(b) /\ SubSeq(n, k, Len(n)) = b
  BY DEF Under
<1>3. Len(n) >= Len(b) => k \in 1..Len(n)
  BY <1>1, SMT
<1>4. ASSUME NEW i \in 1..Len(n), SubSeq(n, i, Len(n)) = b
      PROVE  Len(n) >= Len(b) /\ i = k
  <2>1. Len(b) = (Len(n) - i) + 1
    BY <1>4, CutName
  <2> QED BY <1>1, <2>1, SMT
<1> HIDE DEF k
<1> QED BY <1>1, <1>2, <1>3, <1>4, Zenon

\* Without a glob, a pattern's labels cover a name only if they are the name.
LEMMA NoGlobIsEqual ==
  ASSUME NEW n \in Name, NEW m \in Name, \A i \in DOMAIN m : ~IsGlob(m[i])
  PROVE  Len(n) = Len(m) /\ (\A j \in DOMAIN n : Covers(m[j], n[j])) <=> n = m
<1>1. /\ DOMAIN n = 1..Len(n) /\ DOMAIN m = 1..Len(m)
      /\ n \in Seq(DOMAIN Lower) /\ m \in Seq(DOMAIN Lower)
  BY NameFacts
<1>2. ASSUME Len(n) = Len(m), \A j \in DOMAIN n : Covers(m[j], n[j]) PROVE n = m
  <2>1. \A j \in 1..Len(n) : n[j] = m[j]
    BY <1>1, <1>2 DEF Covers
  <2> QED BY <1>1, <1>2, <2>1, SeqEqual
<1>3. ASSUME n = m PROVE \A j \in DOMAIN n : Covers(m[j], n[j])
  BY <1>3 DEF Covers
<1> QED BY <1>2, <1>3

\* A leading "*" label and the rest of the pattern split a name in one way.
LEMMA StarIsCut ==
  ASSUME NEW n \in Name, NEW m \in Name, m[1] = "*", Len(m) > 1
  PROVE  WildMatch(m, n) <=>
           \E i \in 2..Len(n) :
             LET t == SubSeq(n, i, Len(n))
             IN  Len(t) = Len(m) - 1 /\ \A j \in DOMAIN t : Covers(m[j + 1], t[j])
<1> DEFINE rest == Tail(m)
           off == Len(n) - (Len(m) - 1)
           T(i) == SubSeq(n, i, Len(n))
           P(i) == Len(T(i)) = Len(m) - 1 /\ \A j \in DOMAIN T(i) : Covers(m[j + 1], T(i)[j])
<1>1. Len(n) \in Nat /\ Len(m) \in Nat /\ Len(m) >= 2 /\ Len(n) >= 1
  BY NameFacts, SMT
<1>2. /\ Len(rest) = Len(m) - 1 /\ DOMAIN rest = 1..(Len(m) - 1)
      /\ \A i \in 1..(Len(m) - 1) : rest[i] = m[i + 1]
  BY TailName, NameFacts
<1>3. WildMatch(m, n) <=> off >= 1 /\ \A j \in 1..(Len(m) - 1) : Covers(m[j + 1], n[off + j])
  BY <1>2 DEF WildMatch
<1>4. ASSUME NEW i \in 2..Len(n)
      PROVE  P(i) <=> i = off + 1 /\ \A j \in 1..(Len(m) - 1) : Covers(m[j + 1], n[off + j])
  <2>1. /\ Len(T(i)) = (Len(n) - i) + 1 /\ DOMAIN T(i) = 1..((Len(n) - i) + 1)
        /\ \A j \in 1..((Len(n) - i) + 1) : T(i)[j] = n[(i + j) - 1]
    BY <1>1, CutName, SMT
  <2>2. Len(T(i)) = Len(m) - 1 <=> i = off + 1
    BY <1>1, <2>1, SMT
  <2>3. ASSUME i = off + 1
        PROVE  /\ DOMAIN T(i) = 1..(Len(m) - 1)
               /\ \A j \in 1..(Len(m) - 1) : T(i)[j] = n[off + j]
    <3>1. (Len(n) - i) + 1 = Len(m) - 1
      BY <1>1, <2>3, SMT
    <3>2. \A j \in 1..(Len(m) - 1) : (i + j) - 1 = off + j
      BY <1>1, <2>3, SMT
    <3> HIDE DEF off, T
    <3> QED BY <2>1, <3>1, <3>2
  <2> HIDE DEF off, T
  <2> QED BY <2>2, <2>3
<1>5. off >= 1 <=> off + 1 \in 2..Len(n)
  BY <1>1, SMT
<1> HIDE DEF off, P
<1>6. WildMatch(m, n) <=> \E i \in 2..Len(n) : P(i)
  BY <1>3, <1>4, <1>5, Zenon
<1> QED BY <1>6 DEF P

\* A name that is no longer than one label is that label.
LEMMA OnlyLabel ==
  ASSUME NEW m \in Name, ~(Len(m) > 1)
  PROVE  m = <<m[1]>>
<1>1. m \in Seq(DOMAIN Lower) /\ Len(m) \in Nat /\ Len(m) >= 1
  BY NameFacts
<1>2. Len(m) = 1
  BY <1>1, SMT
<1> QED BY <1>1, <1>2, SMT

\* A wildcard pattern that does not begin with "*" matches label by label.
LEMMA PlainWild ==
  ASSUME NEW n \in Name, NEW m \in Name, m[1] # "*"
  PROVE  WildMatch(m, n) <=> Len(n) = Len(m) /\ \A j \in DOMAIN n : Covers(m[j], n[j])
<1> DEFINE off == Len(n) - Len(m)
<1>1. /\ Len(n) \in Nat /\ Len(m) \in Nat
      /\ DOMAIN n = 1..Len(n) /\ DOMAIN m = 1..Len(m)
  BY NameFacts
<1>2. WildMatch(m, n) <=> off = 0 /\ \A i \in DOMAIN m : Covers(m[i], n[off + i])
  BY DEF WildMatch
<1>3. off = 0 <=> Len(n) = Len(m)
  BY <1>1, SMT
<1>4. ASSUME off = 0 PROVE \A i \in DOMAIN m : off + i = i
  BY <1>1, <1>4, SMT
<1> HIDE DEF off
<1> QED BY <1>1, <1>2, <1>3, <1>4

\* The key a domain rule is filed under is no longer than a name may be.
LEMMA SuffixKey ==
  ASSUME NEW p \in Pattern, Kind(p) = "suffix"
  PROVE  Len(Key(p)) \in Nat /\ Len(Key(p)) <= MaxLabels
<1> DEFINE m == Normal(p.name)
<1>1. p.form = "name" /\ p.name \in Name
  BY PatternForms DEF Kind
<1>2. m \in Name /\ NameKind(m) = "suffix"
  BY <1>1, NormalIsName DEF Kind
<1>3. Len(m) > 1 /\ ValidHostname(Tail(m), FALSE) /\ Key(p) = Tail(m)
  BY <1>2, NameKinds DEF Key
<1>4. Tail(m) \in Name
  BY <1>2, <1>3, TailName
<1> QED BY <1>3, <1>4, NameFacts DEF ValidHostname

\* What the config's reader takes a pattern for is what the compiled form of
\* its kind matches.
LEMMA NamesByKind ==
  ASSUME NEW p \in Pattern, Kind(p) # "bad", NEW n \in Name
  PROVE  /\ Kind(p) \in {"any", "suffix", "exact", "wildcard", "addr"}
         /\ Kind(p) = "addr" <=> p.form = "addr"
         /\ Kind(p) = "addr" => ~Names(p, n)
         /\ Kind(p) = "any" => Names(p, n)
         /\ Kind(p) = "exact" => (Names(p, n) <=> n = Key(p))
         /\ Kind(p) = "suffix" => (Names(p, n) <=> \E i \in DOMAIN n : SubSeq(n, i, Len(n)) = Key(p))
         /\ Kind(p) = "wildcard" => (Names(p, n) <=> NameRuleMatch(p, n))
         /\ Kind(p) = "any" <=> Everywhere(p)
<1>1. CASE p.form = "addr"
  <2>1. Kind(p) = "addr"
    BY <1>1 DEF Kind
  <2>2. ~Names(p, n) /\ ~Everywhere(p)
    BY <1>1 DEF Names, Everywhere
  <2> QED BY <1>1, <2>1, <2>2
<1>2. CASE p.form = "regex"
  <2>1. Kind(p) = "wildcard"
    BY <1>2 DEF Kind
  <2>2. Names(p, n) <=> n \in p.lang
    BY <1>2 DEF Names
  <2>3. NameRuleMatch(p, n) <=> n \in p.lang
    BY <1>2 DEF NameRuleMatch
  <2>4. ~Everywhere(p)
    BY <1>2 DEF Everywhere
  <2> QED BY <1>2, <2>1, <2>2, <2>3, <2>4
<1>3. CASE p.form = "name"
  <2> DEFINE m == Normal(p.name)
             N == IF m = <<"*">> THEN TRUE
                  ELSE IF m[1] = "" THEN Under(n, Tail(m))
                  ELSE IF m[1] = "*" THEN \E i \in 2..Len(n) :
                         LET t == SubSeq(n, i, Len(n)) IN
                           Len(t) = Len(m) - 1 /\ \A j \in DOMAIN t : Covers(m[j + 1], t[j])
                  ELSE Len(n) = Len(m) /\ \A j \in DOMAIN n : Covers(m[j], n[j])
  <2>1. m \in Name
    BY <1>3, PatternForms, NormalIsName
  <2>2. Kind(p) = NameKind(m)
    BY <1>3 DEF Kind
  <2>3. Names(p, n) <=> N
    BY <1>3 DEF Names
  <2>4. NameRuleMatch(p, n) <=> WildMatch(m, n)
    BY <1>3 DEF NameRuleMatch
  <2>5. Everywhere(p) <=> m = <<"*">>
    BY <1>3 DEF Everywhere
  <2>6. Key(p) = IF Kind(p) = "suffix" THEN Tail(m) ELSE m
    BY DEF Key
  <2>7. Len(m) \in Nat /\ Len(m) >= 1 /\ DOMAIN m = 1..Len(m)
    BY <2>1, NameFacts
  <2> HIDE DEF m, N
  <2>8. /\ Kind(p) \in {"any", "suffix", "exact", "wildcard"}
        /\ Kind(p) = "any" <=> m = <<"*">>
    BY <2>1, <2>2, NameKinds
  <2>9. Kind(p) = "any" => Names(p, n)
    BY <2>3, <2>8 DEF N
  <2>10. ASSUME Kind(p) = "suffix"
         PROVE  Names(p, n) <=> \E i \in DOMAIN n : SubSeq(n, i, Len(n)) = Key(p)
    <3>1. Len(m) > 1 /\ m[1] = "" /\ m # <<"*">>
      BY <2>1, <2>2, <2>8, <2>10, NameKinds
    <3>2. Tail(m) \in Name
      BY <2>1, <3>1, TailName
    <3>3. N <=> Under(n, Tail(m))
      BY <3>1 DEF N
    <3> QED BY <2>3, <2>6, <2>10, <3>2, <3>3, UnderIsCut
  <2>11. ASSUME Kind(p) = "exact" PROVE Names(p, n) <=> n = Key(p)
    <3>1. /\ ~(Len(m) > 1 /\ m[1] = "") /\ ValidHostname(m, FALSE) /\ m # <<"*">>
          /\ \A i \in DOMAIN m : ~IsGlob(m[i])
      BY <2>1, <2>2, <2>8, <2>11, NameKinds
    <3>2. m[1] # ""
      BY <2>1, <2>7, <3>1, OnlyLabel DEF ValidHostname
    <3>3. m[1] # "*"
      <4>1. 1 \in DOMAIN m
        BY <2>7, SMT
      <4> QED BY <3>1, <4>1, AclAssumption DEF IsGlob
    <3>4. N <=> Len(n) = Len(m) /\ \A j \in DOMAIN n : Covers(m[j], n[j])
      BY <3>1, <3>2, <3>3 DEF N
    <3> QED BY <2>1, <2>3, <2>6, <2>11, <3>1, <3>4, NoGlobIsEqual
  <2>12. ASSUME Kind(p) = "wildcard" PROVE Names(p, n) <=> WildMatch(m, n)
    <3>1. ~(Len(m) > 1 /\ m[1] = "") /\ ValidHostname(m, TRUE) /\ m # <<"*">>
      BY <2>1, <2>2, <2>8, <2>12, NameKinds
    <3>2. m[1] # ""
      BY <2>1, <2>7, <3>1, OnlyLabel DEF ValidHostname
    <3>3. CASE m[1] = "*"
      <4>1. Len(m) > 1
        BY <2>1, <2>7, <3>1, <3>3, OnlyLabel
      <4>2. N <=> \E i \in 2..Len(n) :
                    LET t == SubSeq(n, i, Len(n)) IN
                      Len(t) = Len(m) - 1 /\ \A j \in DOMAIN t : Covers(m[j + 1], t[j])
        BY <3>1, <3>2, <3>3 DEF N
      <4> QED BY <2>1, <2>3, <3>3, <4>1, <4>2, StarIsCut
    <3>4. CASE m[1] # "*"
      <4>1. N <=> Len(n) = Len(m) /\ \A j \in DOMAIN n : Covers(m[j], n[j])
        BY <3>1, <3>2, <3>4 DEF N
      <4> QED BY <2>1, <2>3, <3>4, <4>1, PlainWild
    <3> QED BY <3>3, <3>4
  <2>13. p.form # "addr" /\ Kind(p) # "addr"
    BY <1>3, <2>8
  <2> QED BY <2>4, <2>5, <2>8, <2>9, <2>10, <2>11, <2>12, <2>13
<1> QED BY <1>1, <1>2, <1>3, PatternForms

-----------------------------------------------------------------------------
(* Compiled rules *)

\* A position of a pattern of some kind.
LEMMA PatternAt ==
  ASSUME NEW ps \in Seq(Pattern), NEW kind, NEW i \in OfKind(ps, kind)
  PROVE  i \in DOMAIN ps /\ i \in Nat /\ ps[i] \in Pattern /\ ps[i] \in Range(ps) /\ Kind(ps[i]) = kind
<1>1. i \in DOMAIN ps /\ Kind(ps[i]) = kind
  BY DEF OfKind
<1>2. DOMAIN ps = 1..Len(ps) /\ Len(ps) \in Nat
  BY LenProperties
<1>3. i \in Nat /\ ps[i] \in Pattern
  BY <1>1, <1>2, ElementOfSeq, SMT
<1> QED BY <1>1, <1>3 DEF Range

\* The map of the rules of a kind has their keys, and under each a rule with it.
LEMMA FiledFacts ==
  ASSUME NEW ps \in Seq(Pattern), NEW kind
  PROVE  /\ \A n : n \in DOMAIN Filed(ps, kind) <=> \E i \in OfKind(ps, kind) : Key(ps[i]) = n
         /\ \A n \in DOMAIN Filed(ps, kind) :
              \E i \in OfKind(ps, kind) : Key(ps[i]) = n /\ Filed(ps, kind)[n] = ps[i]
<1> DEFINE at == OfKind(ps, kind)
           F(n) == {i \in at : Key(ps[i]) = n}
<1>1. Filed(ps, kind) = [n \in {Key(ps[i]) : i \in at} |-> ps[Min(F(n))]]
  BY DEF Filed
<1>2. ASSUME NEW n, NEW i \in at, Key(ps[i]) = n PROVE Min(F(n)) \in F(n)
  <2>1. F(n) \in SUBSET Nat
    BY PatternAt
  <2>2. F(n) # {}
    BY <1>2
  <2> QED BY <2>1, <2>2, MinIsLeast
<1>3. \A n : n \in DOMAIN Filed(ps, kind) <=> \E i \in at : Key(ps[i]) = n
  BY <1>1
<1>4. ASSUME NEW n \in DOMAIN Filed(ps, kind)
      PROVE  \E i \in at : Key(ps[i]) = n /\ Filed(ps, kind)[n] = ps[i]
  <2>1. Min(F(n)) \in F(n)
    BY <1>2, <1>3, <1>4
  <2>2. Filed(ps, kind)[n] = ps[Min(F(n))]
    BY <1>1, <1>4
  <2> QED BY <2>1, <2>2
<1> QED BY <1>3, <1>4

\* The kinds of patterns.
LEMMA KindRange ==
  ASSUME NEW p \in Pattern
  PROVE  Kind(p) \in {"any", "suffix", "exact", "wildcard", "addr", "bad"}
<1>1. CASE p.form = "addr"
  BY <1>1 DEF Kind
<1>2. CASE p.form = "regex"
  BY <1>2 DEF Kind
<1>3. CASE p.form = "name" /\ p.name \in Name
  BY <1>3, NormalIsName, NameKinds DEF Kind
<1> QED BY <1>1, <1>2, <1>3, PatternForms

\* The specificity of a name rule, by its kind.
LEMMA RankFacts ==
  ASSUME NEW p \in Pattern, Kind(p) \notin {"bad", "addr"}
  PROVE  /\ Rank(p) \in Nat /\ Rank(p) <= MaxLabels + 5
         /\ Kind(p) = "exact" => Rank(p) = MaxLabels + 5
         /\ Kind(p) = "suffix" => Rank(p) = 3 + Len(Key(p)) /\ Len(Key(p)) \in Nat
         /\ Kind(p) = "wildcard" => Rank(p) = 2
         /\ Kind(p) = "any" => Rank(p) = 1
<1>1. CASE Kind(p) = "exact"
  BY <1>1, AclAssumption, SMT DEF Rank
<1>2. CASE Kind(p) = "suffix"
  <2>1. Len(Key(p)) \in Nat /\ Len(Key(p)) <= MaxLabels
    BY <1>2, SuffixKey
  <2>2. Rank(p) = 3 + Len(Key(p))
    BY <1>2 DEF Rank
  <2> QED BY <1>2, <2>1, <2>2, AclAssumption, SMT
<1>3. CASE Kind(p) = "wildcard"
  BY <1>3, AclAssumption, SMT DEF Rank
<1>4. CASE Kind(p) = "any"
  BY <1>4, AclAssumption, SMT DEF Rank
<1>5. Kind(p) \in {"exact", "suffix", "wildcard", "any"}
  BY KindRange
<1> QED BY <1>1, <1>2, <1>3, <1>4, <1>5

\* ruleSet.matchName finds a rule for a name exactly when some pattern of the
\* list stands for it, and then the most specific of those.
LEMMA MatchNameRule ==
  ASSUME NEW ps \in Seq(Pattern), CompileRules(ps).ok, NEW n \in Name
  PROVE  LET r == MatchName(CompileRules(ps), n)
         IN  /\ (\E p \in Range(ps) : Names(p, n)) =>
                  /\ r \in Range(ps) /\ Names(r, n)
                  /\ \A p \in Range(ps) : Names(p, n) => Rank(p) <= Rank(r)
             /\ (\A p \in Range(ps) : ~Names(p, n)) => r = NoRule
<1> DEFINE rs == CompileRules(ps)
           r == MatchName(rs, n)
           Cut(i) == SubSeq(n, i, Len(n))
           tails == {i \in DOMAIN n : Cut(i) \in DOMAIN rs.suffix}
           hits == {i \in DOMAIN rs.names : NameRuleMatch(rs.names[i], n)}
           any == OfKind(ps, "any")
           Best(q) == /\ q \in Range(ps) /\ Names(q, n)
                      /\ \A p \in Range(ps) : Names(p, n) => Rank(p) <= Rank(q)
<1>1. /\ rs.exact = Filed(ps, "exact") /\ rs.suffix = Filed(ps, "suffix")
      /\ rs.names = [i \in OfKind(ps, "wildcard") |-> ps[i]]
      /\ rs.any = IF any = {} THEN NoRule ELSE ps[Min(any)]
      /\ OfKind(ps, "bad") = {}
  BY DEF CompileRules
<1>2. r = IF n \in DOMAIN rs.exact THEN rs.exact[n]
          ELSE IF tails # {} THEN rs.suffix[Cut(Min(tails))]
          ELSE IF hits # {} THEN rs.names[Min(hits)]
          ELSE rs.any
  BY DEF MatchName
<1> HIDE DEF rs, r
<1>3. ASSUME NEW p \in Range(ps)
      PROVE  p \in Pattern /\ Kind(p) # "bad" /\ \E i \in OfKind(ps, Kind(p)) : ps[i] = p
  <2>1. PICK i \in DOMAIN ps : p = ps[i]
    BY <1>3 DEF Range
  <2>2. i \in OfKind(ps, Kind(p))
    BY <2>1 DEF OfKind
  <2> QED BY <1>1, <2>1, <2>2, PatternAt
<1>4. ASSUME NEW p \in Range(ps), Names(p, n)
      PROVE  /\ Kind(p) \in {"any", "suffix", "exact", "wildcard"}
             /\ Rank(p) \in Nat /\ Rank(p) <= MaxLabels + 5
             /\ Kind(p) = "exact" => n \in DOMAIN rs.exact
             /\ Kind(p) = "suffix" => \E i \in tails : Cut(i) = Key(p)
             /\ Kind(p) = "wildcard" => hits # {}
             /\ Kind(p) = "any" => any # {}
  <2>1. PICK i \in OfKind(ps, Kind(p)) : ps[i] = p
    BY <1>3, <1>4
  <2>2. p \in Pattern /\ Kind(p) \in {"any", "suffix", "exact", "wildcard"}
    BY <1>3, <1>4, NamesByKind
  <2>3. Rank(p) \in Nat /\ Rank(p) <= MaxLabels + 5
    BY <2>2, RankFacts
  <2>4. ASSUME Kind(p) = "exact" PROVE n \in DOMAIN rs.exact
    <3>1. n = Key(p)
      BY <1>4, <2>2, <2>4, NamesByKind
    <3> QED BY <1>1, <2>1, <2>4, <3>1, FiledFacts
  <2>5. ASSUME Kind(p) = "suffix" PROVE \E j \in tails : Cut(j) = Key(p)
    <3>1. PICK j \in DOMAIN n : Cut(j) = Key(p)
      BY <1>4, <2>2, <2>5, NamesByKind
    <3>2. Key(p) \in DOMAIN rs.suffix
      BY <1>1, <2>1, <2>5, FiledFacts
    <3> QED BY <3>1, <3>2
  <2>6. ASSUME Kind(p) = "wildcard" PROVE hits # {}
    <3>1. NameRuleMatch(p, n)
      BY <1>4, <2>2, <2>6, NamesByKind
    <3>2. i \in DOMAIN rs.names /\ rs.names[i] = p
      BY <1>1, <2>1, <2>6
    <3> QED BY <3>1, <3>2
  <2> QED BY <2>1, <2>2, <2>3, <2>4, <2>5, <2>6
<1>5. CASE n \in DOMAIN rs.exact
  <2>1. PICK i \in OfKind(ps, "exact") : Key(ps[i]) = n /\ rs.exact[n] = ps[i]
    BY <1>1, <1>5, FiledFacts
  <2>2. ps[i] \in Pattern /\ ps[i] \in Range(ps) /\ Kind(ps[i]) = "exact"
    BY <2>1, PatternAt
  <2>3. Names(ps[i], n) /\ Rank(ps[i]) = MaxLabels + 5
    BY <2>1, <2>2, NamesByKind, RankFacts
  <2>4. Best(r)
    BY <1>2, <1>4, <1>5, <2>1, <2>2, <2>3
  <2> QED BY <2>4 DEF r, rs
<1>6. CASE n \notin DOMAIN rs.exact /\ tails # {}
  <2> DEFINE k == Min(tails)
  <2>1. tails \in SUBSET Nat /\ \A i \in tails : i \in 1..Len(n)
    BY NameFacts, SMT
  <2>2. k \in tails /\ \A i \in tails : k <= i
    BY <1>6, <2>1, MinIsLeast
  <2> HIDE DEF k
  <2>3. PICK i \in OfKind(ps, "suffix") : Key(ps[i]) = Cut(k) /\ rs.suffix[Cut(k)] = ps[i]
    <3>1. Cut(k) \in DOMAIN Filed(ps, "suffix")
      BY <1>1, <2>2
    <3> HIDE DEF Cut
    <3> QED BY <1>1, <3>1, FiledFacts
  <2>4. ps[i] \in Pattern /\ ps[i] \in Range(ps) /\ Kind(ps[i]) = "suffix"
    BY <2>3, PatternAt
  <2>5. r = ps[i]
    BY <1>2, <1>6, <2>3 DEF k
  <2>6. Names(r, n)
    BY <2>2, <2>3, <2>4, <2>5, NamesByKind
  <2>7. ASSUME NEW j \in tails PROVE Len(Cut(j)) = (Len(n) - j) + 1
    BY <2>1, <2>7, CutName
  <2>8. Rank(r) = 3 + ((Len(n) - k) + 1)
    BY <2>2, <2>3, <2>4, <2>5, <2>7, RankFacts
  <2>9. Len(n) \in Nat /\ k \in 1..Len(n)
    BY <2>1, <2>2, NameFacts
  <2>10. ASSUME NEW p \in Range(ps), Names(p, n) PROVE Rank(p) <= Rank(r)
    <3>1. p \in Pattern /\ Kind(p) \in {"any", "suffix", "wildcard"}
      BY <1>3, <1>4, <1>6, <2>10
    <3>2. CASE Kind(p) = "suffix"
      <4>1. PICK j \in tails : Cut(j) = Key(p)
        BY <1>4, <2>10, <3>2
      <4>2. Rank(p) = 3 + ((Len(n) - j) + 1)
        BY <2>7, <3>1, <3>2, <4>1, RankFacts
      <4>3. k <= j /\ j \in 1..Len(n)
        BY <2>1, <2>2
      <4> QED BY <2>8, <2>9, <4>2, <4>3, SMT
    <3>3. CASE Kind(p) \in {"any", "wildcard"}
      <4>1. Rank(p) \in {1, 2}
        BY <3>1, <3>3, RankFacts
      <4> QED BY <2>8, <2>9, <4>1, SMT
    <3> QED BY <3>1, <3>2, <3>3
  <2>11. Best(r)
    BY <2>4, <2>5, <2>6, <2>10
  <2> QED BY <2>11 DEF r, rs
<1>7. CASE n \notin DOMAIN rs.exact /\ tails = {} /\ hits # {}
  <2> DEFINE k == Min(hits)
  <2>1. hits \in SUBSET Nat
    BY <1>1, PatternAt
  <2>2. k \in hits
    BY <1>7, <2>1, MinIsLeast
  <2> HIDE DEF k
  <2>3. k \in OfKind(ps, "wildcard") /\ rs.names[k] = ps[k] /\ NameRuleMatch(ps[k], n)
    BY <1>1, <2>2
  <2>4. ps[k] \in Pattern /\ ps[k] \in Range(ps) /\ Kind(ps[k]) = "wildcard"
    BY <2>3, PatternAt
  <2>5. r = ps[k]
    BY <1>2, <1>7, <2>3 DEF k
  <2>6. Names(r, n) /\ Rank(r) = 2
    BY <2>3, <2>4, <2>5, NamesByKind, RankFacts
  <2>7. ASSUME NEW p \in Range(ps), Names(p, n) PROVE Rank(p) <= Rank(r)
    <3>1. p \in Pattern /\ Kind(p) \in {"any", "wildcard"}
      BY <1>3, <1>4, <1>7, <2>7
    <3>2. Rank(p) \in {1, 2}
      BY <3>1, RankFacts
    <3> QED BY <2>6, <3>2, SMT
  <2>8. Best(r)
    BY <2>4, <2>5, <2>6, <2>7
  <2> QED BY <2>8 DEF r, rs
<1>8. CASE n \notin DOMAIN rs.exact /\ tails = {} /\ hits = {} /\ any # {}
  <2> DEFINE k == Min(any)
  <2>1. any \in SUBSET Nat
    BY PatternAt
  <2>2. k \in any
    BY <1>8, <2>1, MinIsLeast
  <2>3. r = ps[k]
    BY <1>1, <1>2, <1>8
  <2> HIDE DEF k
  <2>4. ps[k] \in Pattern /\ ps[k] \in Range(ps) /\ Kind(ps[k]) = "any"
    BY <2>2, PatternAt
  <2>5. Names(r, n) /\ Rank(r) = 1
    BY <2>3, <2>4, NamesByKind, RankFacts
  <2>6. ASSUME NEW p \in Range(ps), Names(p, n) PROVE Rank(p) <= Rank(r)
    <3>1. p \in Pattern /\ Kind(p) = "any"
      BY <1>3, <1>4, <1>8, <2>6
    <3>2. Rank(p) = 1
      BY <3>1, RankFacts
    <3> QED BY <2>5, <3>2, SMT
  <2>7. Best(r)
    BY <2>3, <2>4, <2>5, <2>6
  <2> QED BY <2>7 DEF r, rs
<1>9. CASE n \notin DOMAIN rs.exact /\ tails = {} /\ hits = {} /\ any = {}
  <2>1. r = NoRule
    BY <1>1, <1>2, <1>9
  <2>2. \A p \in Range(ps) : ~Names(p, n)
    BY <1>4, <1>9
  <2> QED BY <2>1, <2>2 DEF r, rs
<1> QED BY <1>5, <1>6, <1>7, <1>8, <1>9

\* An address rule comes from an address pattern.
LEMMA AddrKind ==
  ASSUME NEW p \in Pattern, Kind(p) = "addr"
  PROVE  p.form = "addr"
<1>1. CASE p.form = "regex"
  BY <1>1 DEF Kind
<1>2. CASE p.form = "name" /\ p.name \in Name
  BY <1>2, NormalIsName, NameKinds DEF Kind
<1> QED BY <1>1, <1>2, PatternForms

\* The rule for everything comes from the pattern that matches everything.
LEMMA AnyKind ==
  ASSUME NEW p \in Pattern
  PROVE  Kind(p) = "any" <=> Everywhere(p)
<1>1. CASE p.form = "regex" \/ p.form = "addr"
  BY <1>1 DEF Kind, Everywhere
<1>2. CASE p.form = "name" /\ p.name \in Name
  BY <1>2, NormalIsName, NameKinds DEF Kind, Everywhere
<1> QED BY <1>1, <1>2, PatternForms

\* ruleSet.matchAddr finds a rule for an address exactly when one of the list's
\* addresses or ranges holds it.
LEMMA MatchAddrRule ==
  ASSUME NEW ps \in Seq(Pattern), CompileRules(ps).ok, NEW a
  PROVE  MatchAddr(CompileRules(ps), a) # NoRule <=> \E p \in Range(ps) : Addresses(p, a)
<1> DEFINE rs == CompileRules(ps)
           hits == {i \in DOMAIN rs.addrs : Within(rs.addrs[i].pfx, a)}
<1>1. /\ DOMAIN rs.addrs = OfKind(ps, "addr") /\ OfKind(ps, "bad") = {}
      /\ \A i \in OfKind(ps, "addr") : rs.addrs[i].pattern = ps[i] /\ rs.addrs[i].pfx = ps[i].pfx
  BY DEF CompileRules
<1>2. MatchAddr(rs, a) = IF hits = {} THEN NoRule ELSE rs.addrs[Min(hits)].pattern
  BY DEF MatchAddr
<1> HIDE DEF rs
<1>3. ASSUME NEW p \in Range(ps), Addresses(p, a) PROVE hits # {}
  <2>1. PICK i \in DOMAIN ps : p = ps[i]
    BY <1>3 DEF Range
  <2>2. p.form = "addr" /\ Within(p.pfx, a)
    BY <1>3 DEF Addresses
  <2>3. Kind(p) # "bad"
    BY <1>1, <2>1 DEF OfKind
  <2>4. Kind(p) = "addr"
    BY <2>2, <2>3 DEF Kind
  <2>5. i \in OfKind(ps, "addr")
    BY <2>1, <2>4 DEF OfKind
  <2> QED BY <1>1, <2>1, <2>2, <2>5
<1>4. ASSUME hits # {}
      PROVE  MatchAddr(rs, a) # NoRule /\ \E p \in Range(ps) : Addresses(p, a)
  <2> DEFINE k == Min(hits)
  <2>1. hits \in SUBSET Nat
    BY <1>1, PatternAt
  <2>2. k \in hits
    BY <1>4, <2>1, MinIsLeast
  <2>3. MatchAddr(rs, a) = rs.addrs[k].pattern
    BY <1>2, <1>4
  <2> HIDE DEF k
  <2>4. k \in OfKind(ps, "addr") /\ Within(ps[k].pfx, a) /\ MatchAddr(rs, a) = ps[k]
    BY <1>1, <2>2, <2>3
  <2>5. ps[k] \in Pattern /\ ps[k] \in Range(ps) /\ Kind(ps[k]) = "addr"
    BY <2>4, PatternAt
  <2>6. ps[k].form = "addr"
    BY <2>5, AddrKind
  <2> QED BY <2>4, <2>5, <2>6, CasesAssumption DEF Addresses
<1> QED BY <1>2, <1>3, <1>4 DEF rs

\* In a deny list "*" holds every address too.
LEMMA MatchAddrDeny ==
  ASSUME NEW ps \in Seq(Pattern), CompileRules(ps).ok, NEW a \in Addr, ~a.zone
  PROVE  MatchAddr(CompileDeny(ps), a) # NoRule
           <=> \E p \in Range(ps) : Addresses(p, a) \/ Everywhere(p)
<1> DEFINE rs == CompileRules(ps)
           ds == CompileDeny(ps)
           any == OfKind(ps, "any")
           n == Len(ps)
           All(fam) == [pattern |-> rs.any, pfx |-> Everything(fam)]
           more == [i \in DOMAIN rs.addrs \cup {n + 1, n + 2} |->
                      IF i <= n THEN rs.addrs[i] ELSE All(IF i = n + 1 THEN 4 ELSE 6)]
<1>1. /\ DOMAIN rs.addrs = OfKind(ps, "addr") /\ OfKind(ps, "bad") = {}
      /\ \A i \in OfKind(ps, "addr") : rs.addrs[i].pattern = ps[i] /\ rs.addrs[i].pfx = ps[i].pfx
      /\ rs.any = IF any = {} THEN NoRule ELSE ps[Min(any)]
  BY DEF CompileRules
<1>2. ds = IF rs.any = NoRule THEN rs ELSE [rs EXCEPT !.addrs = more]
  BY DEF CompileDeny
<1>3. any # {} => rs.any \in Pattern
  <2> SUFFICES ASSUME any # {} PROVE rs.any \in Pattern
    OBVIOUS
  <2>1. any \in SUBSET Nat
    BY PatternAt
  <2>2. Min(any) \in any
    BY <2>1, MinIsLeast
  <2> QED BY <1>1, <2>2, PatternAt
<1>4. any # {} <=> \E p \in Range(ps) : Everywhere(p)
  <2>1. ASSUME NEW i \in DOMAIN ps PROVE Kind(ps[i]) = "any" <=> Everywhere(ps[i])
    <3>1. ps[i] \in Pattern /\ Kind(ps[i]) # "bad"
      BY <1>1, LenProperties, ElementOfSeq DEF OfKind
    <3> QED BY <3>1, AnyKind
  <2> QED BY <2>1 DEF OfKind, Range
<1>5. CASE any = {}
  <2>1. ds = rs
    BY <1>1, <1>2, <1>5
  <2> QED BY <1>4, <1>5, <2>1, MatchAddrRule DEF rs, ds
<1>6. CASE any # {}
  <2>1. n \in Nat /\ \A i \in OfKind(ps, "addr") : i \in Nat /\ i <= n
    BY PatternAt, LenProperties, SMT
  <2>2. ds.addrs = more
    <3>1. rs.any # NoRule
      BY <1>3, <1>6, CasesAssumption
    <3>2. ds = [rs EXCEPT !.addrs = more]
      BY <1>2, <3>1
    <3>3. "addrs" \in DOMAIN rs
      BY DEF CompileRules
    <3> HIDE DEF more, rs, ds
    <3> QED BY <3>2, <3>3
  <2> DEFINE hits == {i \in DOMAIN ds.addrs : Within(ds.addrs[i].pfx, a)}
             w == IF a.fam = 4 THEN n + 1 ELSE n + 2
  <2>3. a.fam \in {4, 6}
    BY DEF Addr
  <2>4. w \in DOMAIN ds.addrs /\ ds.addrs[w].pfx = Everything(a.fam)
    <3>1. w \in {n + 1, n + 2} /\ ~(w <= n) /\ (IF w = n + 1 THEN 4 ELSE 6) = a.fam
      BY <2>1, <2>3, SMT
    <3> HIDE DEF w, n, rs, ds
    <3>2. w \in DOMAIN more /\ more[w] = All(a.fam)
      BY <3>1
    <3> QED BY <2>2, <3>2
  <2>5. Within(Everything(a.fam), a)
    BY SMT DEF Within, Everything
  <2>6. w \in hits
    BY <2>4, <2>5
  <2>7. \A i \in DOMAIN ds.addrs : i \in Nat /\ ds.addrs[i].pattern \in Pattern
    <3>1. ASSUME NEW i \in OfKind(ps, "addr") PROVE i \in Nat /\ more[i].pattern \in Pattern
      <4>1. more[i] = rs.addrs[i]
        BY <1>1, <2>1
      <4> QED BY <1>1, <2>1, <4>1, PatternAt
    <3>2. ASSUME NEW i \in {n + 1, n + 2} PROVE i \in Nat /\ more[i].pattern \in Pattern
      <4>1. i \in Nat /\ ~(i <= n)
        BY <2>1, SMT
      <4>2. more[i] = All(IF i = n + 1 THEN 4 ELSE 6)
        BY <4>1
      <4> QED BY <1>3, <1>6, <4>1, <4>2
    <3>3. DOMAIN ds.addrs = OfKind(ps, "addr") \cup {n + 1, n + 2}
      BY <1>1, <2>2
    <3> HIDE DEF more, rs, ds, n
    <3> QED BY <2>2, <3>1, <3>2, <3>3
  <2> HIDE DEF w, rs, ds
  <2>8. MatchAddr(ds, a) # NoRule
    <3>1. hits \in SUBSET Nat
      BY <2>7
    <3>2. Min(hits) \in hits
      BY <2>6, <3>1, MinIsLeast
    <3>3. MatchAddr(ds, a) = ds.addrs[Min(hits)].pattern
      BY <2>6 DEF MatchAddr
    <3> QED BY <2>7, <3>2, <3>3, CasesAssumption
  <2> QED BY <1>4, <1>6, <2>8 DEF ds
<1> QED BY <1>5, <1>6

-----------------------------------------------------------------------------
(* Policies *)

\* A policy that acl.New accepts has the subnets of its specs, by position.
LEMMA PolicyFacts ==
  ASSUME NEW ss \in Seq(FileSubnet), NEW subnets, subnets = NewPolicy(ss), subnets # <<>>
  PROVE  /\ DOMAIN subnets = DOMAIN ss
         /\ \A i \in DOMAIN ss :
              /\ subnets[i].prefixes = ss[i].cidrs
              /\ \A j \in DOMAIN ss[i].cidrs : ValidPrefix(ss[i].cidrs[j])
              /\ subnets[i].ports = IF ss[i].ports = <<>> THEN DefaultPorts ELSE Range(ss[i].ports)
              /\ \A j \in DOMAIN ss[i].ports : ValidRange(ss[i].ports[j])
              /\ subnets[i].allow = CompileRules(ss[i].allow) /\ CompileRules(ss[i].allow).ok
              /\ subnets[i].deny = CompileDeny(ss[i].deny) /\ CompileRules(ss[i].deny).ok
         /\ \A o, q \in Owners(subnets) : o.pfx = q.pfx => o = q
<1> DEFINE named == [i \in DOMAIN ss |->
                       IF ss[i].name = "" THEN [ss[i] EXCEPT !.name = DefaultName[i]] ELSE ss[i]]
           compiled == [i \in DOMAIN named |-> CompileSubnet(named[i])]
<1>1. /\ subnets = compiled /\ \A i \in DOMAIN compiled : compiled[i].ok
      /\ \A o, q \in Owners(compiled) : o.pfx = q.pfx => o = q
  BY DEF NewPolicy
<1>2. DOMAIN compiled = DOMAIN ss
  OBVIOUS
<1>3. ASSUME NEW i \in DOMAIN ss
      PROVE  /\ named[i].cidrs = ss[i].cidrs /\ named[i].ports = ss[i].ports
             /\ named[i].allow = ss[i].allow /\ named[i].deny = ss[i].deny
  <2>1. ss[i] \in FileSubnet
    BY <1>3, LenProperties, ElementOfSeq
  <2>2. [ss[i] EXCEPT !.name = DefaultName[i]].cidrs = ss[i].cidrs
    BY <2>1 DEF FileSubnet
  <2>3. [ss[i] EXCEPT !.name = DefaultName[i]].ports = ss[i].ports
    BY <2>1 DEF FileSubnet
  <2>4. [ss[i] EXCEPT !.name = DefaultName[i]].allow = ss[i].allow
    BY <2>1 DEF FileSubnet
  <2>5. [ss[i] EXCEPT !.name = DefaultName[i]].deny = ss[i].deny
    BY <2>1 DEF FileSubnet
  <2>6. named[i] = IF ss[i].name = "" THEN [ss[i] EXCEPT !.name = DefaultName[i]] ELSE ss[i]
    BY <1>3
  <2> HIDE DEF named
  <2> QED BY <2>2, <2>3, <2>4, <2>5, <2>6
<1>4. ASSUME NEW i \in DOMAIN ss
      PROVE  /\ compiled[i].prefixes = named[i].cidrs
             /\ \A j \in DOMAIN named[i].cidrs : ValidPrefix(named[i].cidrs[j])
             /\ compiled[i].ports = IF named[i].ports = <<>> THEN DefaultPorts ELSE Range(named[i].ports)
             /\ \A j \in DOMAIN named[i].ports : ValidRange(named[i].ports[j])
             /\ compiled[i].allow = CompileRules(named[i].allow) /\ CompileRules(named[i].allow).ok
             /\ compiled[i].deny = CompileDeny(named[i].deny) /\ CompileRules(named[i].deny).ok
  <2>1. compiled[i] = CompileSubnet(named[i]) /\ compiled[i].ok
    BY <1>1, <1>2, <1>4
  <2> HIDE DEF compiled, named
  <2>2. CompileSubnet(named[i]).ok
    BY <2>1
  <2> QED BY <2>1, <2>2 DEF CompileSubnet
<1> HIDE DEF compiled, named
<1> QED BY <1>1, <1>2, <1>3, <1>4

\* An unmapped address is an address.
LEMMA UnmapAddr ==
  ASSUME NEW a \in Addr
  PROVE  Unmap(a) \in Addr
<1>1. CASE Is4In6(a)
  <2> DEFINE v == [i \in 1..W4 |-> a.val[W6 - W4 + i]]
  <2>1. a.fam = 6 /\ a.val \in [1..W6 -> {0, 1}]
    <3>1. a.fam = 6
      BY <1>1 DEF Is4In6
    <3>2. a.val \in Bits(6)
      BY <3>1 DEF Addr
    <3> QED BY <3>1, <3>2 DEF Bits, Width
  <2>2. \A i \in 1..W4 : W6 - W4 + i \in 1..W6
    BY AclAssumption, SMT
  <2>3. v \in [1..W4 -> {0, 1}]
    BY <2>1, <2>2
  <2>4. Bits(4) = [1..W4 -> {0, 1}]
    BY DEF Bits, Width
  <2>5. Unmap(a) = [fam |-> 4, val |-> v, zone |-> FALSE]
    BY <1>1 DEF Unmap
  <2> HIDE DEF v
  <2> QED BY <2>3, <2>4, <2>5 DEF Addr
<1>2. CASE ~Is4In6(a)
  BY <1>2 DEF Unmap
<1> QED BY <1>1, <1>2

\* Two prefixes without host bits that hold an address and are as long are the
\* same prefix.
LEMMA SamePrefix ==
  ASSUME NEW p \in Prefix, NEW q \in Prefix, NEW a, ValidPrefix(p), ValidPrefix(q),
         Within(p, a), Within(q, a), p.bits = q.bits
  PROVE  p = q
<1>1. p.fam = q.fam
  BY DEF Within
<1>2. p.val \in [1..Width(p.fam) -> {0, 1}] /\ q.val \in [1..Width(p.fam) -> {0, 1}]
  BY <1>1, SMT DEF Prefix, Bits, Width
<1>3. ASSUME NEW i \in 1..Width(p.fam) PROVE p.val[i] = q.val[i]
  <2>1. p.bits \in Int /\ i \in Int /\ i >= 1
    BY SMT DEF Prefix
  <2>2. CASE i <= p.bits
    <3>1. i \in 1..p.bits
      BY <2>1, <2>2, SMT
    <3> QED BY <3>1 DEF Within
  <2>3. CASE i > p.bits
    BY <1>1, <1>3, <2>3 DEF ValidPrefix
  <2> QED BY <2>1, <2>2, <2>3, SMT
<1>4. p.val = q.val
  <2> DEFINE D == 1..Width(p.fam)
             f == p.val
             g == q.val
  <2>1. f \in [D -> {0, 1}] /\ g \in [D -> {0, 1}] /\ \A i \in D : f[i] = g[i]
    BY <1>2, <1>3
  <2> HIDE DEF D, f, g
  <2>2. f = g
    BY <2>1
  <2> QED BY <2>2 DEF f, g
<1> QED BY <1>1, <1>4, SMT DEF Prefix

\* The prefixes of the policy are those of the file's subnets.
LEMMA OwnerFacts ==
  ASSUME NEW subnets
  PROVE  \A o : o \in Owners(subnets) <=>
           \E i \in DOMAIN subnets : \E j \in DOMAIN subnets[i].prefixes :
             o = [subnet |-> i, at |-> j, pfx |-> subnets[i].prefixes[j]]
BY DEF Owners

\* Policy.SubnetOf picks the one subnet with the longest prefix that holds the
\* client's address, or none if no prefix does.
LEMMA SubnetIsOwner ==
  ASSUME file \in File, req \in Request, NewPolicy(specs) # <<>>
  PROVE  LET i == SubnetOf(NewPolicy(specs), req.client)
         IN  \/ i = 0 /\ OwnerSpecs = {}
             \/ i \in DOMAIN specs /\ i # 0 /\ OwnerSpecs = {i} /\ Owner = specs[i]
<1> DEFINE P == NewPolicy(specs)
           a == Unmap(req.client)
           held == {o \in Owners(P) : Within(o.pfx, a)}
           i == SubnetOf(P, req.client)
<1>1. specs \in Seq(FileSubnet)
  BY DEF specs, File
<1>2. /\ DOMAIN P = DOMAIN specs /\ \A k \in DOMAIN specs : P[k].prefixes = specs[k].cidrs
      /\ \A k \in DOMAIN specs : \A j \in DOMAIN specs[k].cidrs : ValidPrefix(specs[k].cidrs[j])
      /\ \A o, q \in Owners(P) : o.pfx = q.pfx => o = q
  BY <1>1, PolicyFacts
<1>3. i = IF held = {} THEN 0 ELSE (CHOOSE o \in held : \A q \in held : Beats(o, q)).subnet
  BY DEF SubnetOf
<1> HIDE DEF P, i
\* The prefixes that hold the client, as the scan and as the config has them.
<1>4. \A k \in DOMAIN specs : \A j \in Holding(k) :
        [subnet |-> k, at |-> j, pfx |-> specs[k].cidrs[j]] \in held
  BY <1>2, OwnerFacts DEF Holding
<1>5. ASSUME NEW o \in held
      PROVE  /\ o.subnet \in DOMAIN specs /\ o.at \in Holding(o.subnet)
             /\ o.pfx = specs[o.subnet].cidrs[o.at]
             /\ o.pfx \in Prefix /\ ValidPrefix(o.pfx) /\ Within(o.pfx, a)
             /\ o.subnet \in Nat \ {0} /\ o.at \in Nat
  <2>1. PICK k \in DOMAIN specs : \E j \in DOMAIN specs[k].cidrs :
          o = [subnet |-> k, at |-> j, pfx |-> specs[k].cidrs[j]]
    BY <1>2, <1>5, OwnerFacts
  <2>2. PICK j \in DOMAIN specs[k].cidrs :
          o = [subnet |-> k, at |-> j, pfx |-> specs[k].cidrs[j]]
    BY <2>1
  <2>3. o.subnet = k /\ o.at = j /\ o.pfx = specs[k].cidrs[j]
    BY <2>2
  <2>4. specs[k] \in FileSubnet /\ k \in Nat \ {0}
    BY <1>1, LenProperties, ElementOfSeq, SMT
  <2>5. specs[k].cidrs \in Seq(Prefix)
    BY <2>4 DEF FileSubnet
  <2>6. specs[k].cidrs[j] \in Prefix /\ j \in Nat
    BY <2>5, LenProperties, ElementOfSeq, SMT
  <2>7. Within(specs[k].cidrs[j], a)
    BY <1>5, <2>3
  <2> QED BY <1>2, <2>3, <2>4, <2>6, <2>7 DEF Holding
<1>6. \A k : k \in OwnerSpecs <=> \E o \in held : o.subnet = k /\ \A q \in held : q.pfx.bits <= o.pfx.bits
  <2>1. ASSUME NEW k \in OwnerSpecs
        PROVE  \E o \in held : o.subnet = k /\ \A q \in held : q.pfx.bits <= o.pfx.bits
    <3>1. PICK j \in Holding(k) : \A k2 \in DOMAIN specs : \A l \in Holding(k2) :
            specs[k2].cidrs[l].bits <= specs[k].cidrs[j].bits
      BY <2>1 DEF OwnerSpecs
    <3> DEFINE o == [subnet |-> k, at |-> j, pfx |-> specs[k].cidrs[j]]
    <3>2. o \in held /\ o.subnet = k /\ o.pfx = specs[k].cidrs[j]
      BY <1>4, <2>1, <3>1 DEF OwnerSpecs
    <3> HIDE DEF o, held
    <3> QED BY <1>5, <3>1, <3>2
  <2>2. ASSUME NEW o \in held, \A q \in held : q.pfx.bits <= o.pfx.bits
        PROVE  o.subnet \in OwnerSpecs
    <3> DEFINE k == o.subnet
               j == o.at
    <3>1. k \in DOMAIN specs /\ j \in Holding(k) /\ o.pfx = specs[k].cidrs[j]
      BY <1>5, <2>2
    <3>2. ASSUME NEW k2 \in DOMAIN specs, NEW l \in Holding(k2)
          PROVE  specs[k2].cidrs[l].bits <= specs[k].cidrs[j].bits
      <4> DEFINE q == [subnet |-> k2, at |-> l, pfx |-> specs[k2].cidrs[l]]
      <4>1. q \in held /\ q.pfx = specs[k2].cidrs[l]
        BY <1>4, <3>2
      <4> HIDE DEF q, held
      <4> QED BY <2>2, <3>1, <4>1
    <3> HIDE DEF k, j, held
    <3>3. k \in OwnerSpecs
      BY <3>1, <3>2 DEF OwnerSpecs
    <3> QED BY <3>3 DEF k
  <2> HIDE DEF held
  <2> QED BY <2>1, <2>2
<1> HIDE DEF held
<1>7. CASE held = {}
  <2>1. i = 0 /\ OwnerSpecs = {}
    BY <1>3, <1>6, <1>7
  <2> QED BY <2>1 DEF i, P
<1>8. CASE held # {}
  <2>1. PICK o \in held : \A q \in held : q.pfx.bits <= o.pfx.bits
    <3> DEFINE m == [q \in held |-> q.pfx.bits]
    <3>1. \A q \in held : m[q] \in 0..W6
      <4>1. ASSUME NEW q \in held PROVE q.pfx.bits \in 0..W6
        <5>1. q.pfx \in Prefix
          BY <1>5
        <5> QED BY <5>1, AclAssumption, SMT DEF Prefix
      <4> QED BY <4>1
    <3>2. W6 \in Nat
      BY AclAssumption
    <3>3. \E q \in held : \A x \in held : m[x] <= m[q]
      BY <1>8, <3>1, <3>2, HasGreatest
    <3> QED BY <3>3
  <2>2. ASSUME NEW q \in held, q.pfx.bits = o.pfx.bits PROVE q = o
    <3>1. q.pfx = o.pfx
      BY <1>5, <2>2, SamePrefix
    <3>2. q \in Owners(P) /\ o \in Owners(P)
      BY DEF held
    <3> QED BY <1>2, <3>1, <3>2
  <2>3. ASSUME NEW q \in held PROVE q.pfx.bits \in Int
    <3>1. q.pfx \in Prefix
      BY <1>5
    <3> QED BY <3>1, SMT DEF Prefix
  <2>4. ASSUME NEW q \in held PROVE Beats(o, q)
    <3>1. q.pfx.bits <= o.pfx.bits /\ q.pfx.bits \in Int /\ o.pfx.bits \in Int
      BY <2>1, <2>3
    <3>2. CASE q.pfx.bits = o.pfx.bits
      <4>1. q = o
        BY <2>2, <3>2
      <4>2. Before(o, o)
        BY <1>5, SMT DEF Before
      <4> QED BY <4>1, <4>2 DEF Beats
    <3>3. CASE q.pfx.bits # o.pfx.bits
      <4>1. o.pfx.bits > q.pfx.bits
        BY <3>1, <3>3, SMT
      <4> QED BY <4>1 DEF Beats
    <3> QED BY <3>2, <3>3
  <2> DEFINE c == CHOOSE x \in held : \A q \in held : Beats(x, q)
  <2>5. c \in held /\ \A q \in held : Beats(c, q)
    BY <2>4
  <2>6. c = o
    <3>1. Beats(c, o)
      BY <2>5
    <3>2. c.pfx.bits >= o.pfx.bits
      BY <2>3, <2>5, <3>1, SMT DEF Beats
    <3>3. c.pfx.bits = o.pfx.bits
      BY <2>1, <2>3, <2>5, <3>2, SMT
    <3> QED BY <2>2, <2>5, <3>3
  <2>7. i = o.subnet
    BY <1>3, <1>8, <2>6
  <2> HIDE DEF c
  <2>8. ASSUME NEW k \in OwnerSpecs PROVE k = o.subnet
    <3>1. PICK x \in held : x.subnet = k /\ \A q \in held : q.pfx.bits <= x.pfx.bits
      BY <1>6
    <3>2. x.pfx.bits = o.pfx.bits
      <4>1. x.pfx.bits <= o.pfx.bits /\ o.pfx.bits <= x.pfx.bits
        BY <2>1, <3>1
      <4>2. x.pfx.bits \in Int /\ o.pfx.bits \in Int
        BY <2>3
      <4> QED BY <4>1, <4>2, SMT
    <3> QED BY <2>2, <3>1, <3>2
  <2>9. o.subnet \in OwnerSpecs
    BY <1>6, <2>1
  <2>10. OwnerSpecs = {i}
    BY <2>7, <2>8, <2>9
  <2>11. (CHOOSE k \in OwnerSpecs : TRUE) = i
    BY <2>10
  <2>12. Owner = specs[i]
    BY <2>11 DEF Owner
  <2>13. i \in DOMAIN specs /\ i # 0
    BY <1>5, <2>7
  <2> QED BY <2>10, <2>12, <2>13 DEF i, P
<1> QED BY <1>7, <1>8

-----------------------------------------------------------------------------
(* A loaded config and the request *)

\* The config is what Parse made of the file.
Loaded == file \in File /\ req \in Request /\ cfg = Parse(file) /\ cfg.ok

\* What a config that loaded has: a policy, and usable limits at both levels.
LEMMA LoadedFacts ==
  ASSUME Loaded
  PROVE  LET top == Overridden(file.limits, DefaultClientLimits)
         IN  /\ policy = NewPolicy(specs) /\ policy # <<>> /\ specs \in Seq(FileSubnet)
             /\ cfg.clientLimits = top /\ Usable(top)
             /\ cfg.subnetLimits = [i \in DOMAIN specs |-> Overridden(specs[i].limits, top)]
             /\ \A i \in DOMAIN specs : Usable(Overridden(specs[i].limits, top))
<1> DEFINE top == Overridden(file.limits, DefaultClientLimits)
           own == SubnetLimits(file, top)
           P == NewPolicy(file.subnets)
           ok == /\ Decoded(file)
                 /\ file.level = "" \/ file.level \in DOMAIN Levels
                 /\ file.total = Unset \/ file.total >= 0
                 /\ Usable(top) /\ P # <<>> /\ \A i \in DOMAIN own : Usable(own[i])
           C == [ok |-> TRUE, policy |-> P, clientLimits |-> top, subnetLimits |-> own,
                 level |-> IF file.level = "" THEN Levels["info"] ELSE Levels[file.level],
                 total |-> IF file.total = Unset THEN DefaultTotalConnections ELSE file.total]
<1>1. cfg = IF ok THEN C ELSE NotLoaded
  BY DEF Loaded, Parse
<1>2. NotLoaded.ok = FALSE
  BY DEF NotLoaded
<1>3. C.policy = P /\ C.clientLimits = top /\ C.subnetLimits = own
  OBVIOUS
<1>4. own = [i \in DOMAIN specs |-> Overridden(specs[i].limits, top)]
  BY DEF SubnetLimits, specs
<1>5. specs \in Seq(FileSubnet)
  BY DEF Loaded, specs, File
<1> HIDE DEF C
<1>6. ok /\ cfg = C
  BY <1>1, <1>2 DEF Loaded
<1> HIDE DEF top, own
<1>7. DOMAIN own = DOMAIN specs /\ \A i \in DOMAIN specs : own[i] = Overridden(specs[i].limits, top)
  BY <1>4
<1>8. \A i \in DOMAIN specs : Usable(Overridden(specs[i].limits, top))
  BY <1>6, <1>7
<1> QED BY <1>3, <1>4, <1>5, <1>6, <1>8 DEF policy, specs, top

\* parseHost yields a plain address or a valid name.
LEMMA DstFacts ==
  ASSUME req \in Request
  PROVE  \/ Dst.kind = "addr" /\ Dst.addr \in Addr /\ ~Dst.addr.zone
         \/ Dst.kind = "name" /\ Dst.name \in Name
         \/ Dst.kind = "junk"
<1> DEFINE h == req.host
<1>1. h \in Host /\ Dst = ParseHost(h)
  BY DEF Request, Dst
<1> HIDE DEF h
<1>2. \/ h.kind = "addr" /\ h.addr \in Addr
      \/ h.kind = "name" /\ h.name \in Name
      \/ h.kind = "junk"
  BY <1>1 DEF Host
<1>3. CASE h.kind = "addr" /\ h.addr \in Addr
  <2>1. CASE h.addr.zone
    <3>1. Dst = [kind |-> "junk"]
      BY <1>1, <1>3, <2>1 DEF ParseHost
    <3> QED BY <3>1
  <2>2. CASE ~h.addr.zone
    <3>1. Dst = [kind |-> "addr", addr |-> Unmap(h.addr)]
      BY <1>1, <1>3, <2>2 DEF ParseHost
    <3>2. Dst.kind = "addr" /\ Dst.addr = Unmap(h.addr)
      BY <3>1
    <3>3. ~Unmap(h.addr).zone
      BY <2>2 DEF Unmap
    <3> QED BY <1>3, <3>2, <3>3, UnmapAddr
  <2> QED BY <2>1, <2>2
<1>4. CASE h.kind = "name" /\ h.name \in Name
  <2>1. CASE ValidHostname(Normal(h.name), FALSE)
    <3>1. Dst = [kind |-> "name", name |-> Normal(h.name)]
      BY <1>1, <1>4, <2>1 DEF ParseHost
    <3>2. Dst.kind = "name" /\ Dst.name = Normal(h.name)
      BY <3>1
    <3> QED BY <1>4, <3>2, NormalIsName
  <2>2. CASE ~ValidHostname(Normal(h.name), FALSE)
    <3>1. Dst = [kind |-> "junk"]
      BY <1>1, <1>4, <2>2 DEF ParseHost
    <3> QED BY <3>1
  <2> QED BY <2>1, <2>2
<1>5. CASE h.kind = "junk"
  <2>1. Dst = [kind |-> "junk"]
    BY <1>1, <1>5 DEF ParseHost
  <2> QED BY <2>1
<1> QED BY <1>2, <1>3, <1>4, <1>5

\* The "*" of a deny list changes nothing for names.
LEMMA DenyNames ==
  ASSUME NEW ps, NEW n
  PROVE  MatchName(CompileDeny(ps), n) = MatchName(CompileRules(ps), n)
<1> DEFINE rs == CompileRules(ps)
           ds == CompileDeny(ps)
<1>1. \/ ds = rs
      \/ \E more : ds = [rs EXCEPT !.addrs = more]
  BY DEF CompileDeny
<1>2. DOMAIN rs = {"ok", "exact", "suffix", "names", "any", "addrs"}
  BY DEF CompileRules
<1> HIDE DEF rs, ds
<1>3. ds.exact = rs.exact /\ ds.suffix = rs.suffix /\ ds.names = rs.names /\ ds.any = rs.any
  BY <1>1, <1>2
<1>4. MatchName(ds, n) = MatchName(rs, n)
  BY <1>3 DEF MatchName
<1> QED BY <1>4 DEF rs, ds

\* The rules of the subnet that SubnetOf picked find what the config lists for
\* the client.
LEMMA MineMatches ==
  ASSUME Loaded, SubnetOf(policy, req.client) # 0
  PROVE  /\ \A n \in Name :
              /\ MatchName(Mine.deny, n) = NoRule <=> \A p \in Range(Owner.deny) : ~Names(p, n)
              /\ MatchName(Mine.allow, n) # NoRule <=> \E p \in Range(Owner.allow) : Names(p, n)
              /\ MatchName(Mine.allow, n) # NoRule =>
                   LET r == MatchName(Mine.allow, n)
                   IN  /\ r \in Range(Owner.allow) /\ Names(r, n)
                       /\ \A p \in Range(Owner.allow) : Names(p, n) => Rank(p) <= Rank(r)
         /\ \A a \in Addr : ~a.zone =>
              /\ MatchAddr(Mine.deny, a) # NoRule <=> DenyListed(a)
              /\ MatchAddr(Mine.allow, a) # NoRule <=> AllowListed(a)
<1> DEFINE i == SubnetOf(policy, req.client)
           al == specs[i].allow
           de == specs[i].deny
<1>1. i \in DOMAIN specs /\ Owner = specs[i]
  BY LoadedFacts, SubnetIsOwner DEF Loaded
<1>2. Mine.allow = CompileRules(al) /\ CompileRules(al).ok /\ Mine.deny = CompileDeny(de) /\ CompileRules(de).ok
  BY <1>1, LoadedFacts, PolicyFacts DEF Mine
<1>3. al \in Seq(Pattern) /\ de \in Seq(Pattern)
  <2>1. specs[i] \in FileSubnet
    BY <1>1, LoadedFacts, LenProperties, ElementOfSeq
  <2> QED BY <2>1 DEF FileSubnet
<1>4. Owner.allow = al /\ Owner.deny = de
  BY <1>1
<1> HIDE DEF i, al, de
<1>5. ASSUME NEW ps \in Seq(Pattern), NEW p \in Range(ps) PROVE p # NoRule
  <2>1. PICK j \in DOMAIN ps : p = ps[j]
    BY <1>5 DEF Range
  <2>2. p \in Pattern
    BY <2>1, LenProperties, ElementOfSeq
  <2> QED BY <2>2, CasesAssumption
<1>6. ASSUME NEW n \in Name, NEW ps \in Seq(Pattern), CompileRules(ps).ok
      PROVE  LET r == MatchName(CompileRules(ps), n)
             IN  /\ r # NoRule <=> \E p \in Range(ps) : Names(p, n)
                 /\ r # NoRule => /\ r \in Range(ps) /\ Names(r, n)
                                  /\ \A p \in Range(ps) : Names(p, n) => Rank(p) <= Rank(r)
  <2> DEFINE r == MatchName(CompileRules(ps), n)
  <2>1. /\ (\E p \in Range(ps) : Names(p, n)) =>
             /\ r \in Range(ps) /\ Names(r, n)
             /\ \A p \in Range(ps) : Names(p, n) => Rank(p) <= Rank(r)
        /\ (\A p \in Range(ps) : ~Names(p, n)) => r = NoRule
    BY <1>6, MatchNameRule
  <2> HIDE DEF r
  <2>2. r \in Range(ps) => r # NoRule
    BY <1>5
  <2> QED BY <2>1, <2>2 DEF r
<1>7. ASSUME NEW n \in Name
      PROVE  /\ MatchName(Mine.deny, n) = NoRule <=> \A p \in Range(de) : ~Names(p, n)
             /\ MatchName(Mine.allow, n) # NoRule <=> \E p \in Range(al) : Names(p, n)
             /\ MatchName(Mine.allow, n) # NoRule =>
                  LET r == MatchName(Mine.allow, n)
                  IN  /\ r \in Range(al) /\ Names(r, n)
                      /\ \A p \in Range(al) : Names(p, n) => Rank(p) <= Rank(r)
  <2>1. MatchName(Mine.deny, n) = MatchName(CompileRules(de), n)
    BY <1>2, DenyNames
  <2>2. MatchName(Mine.deny, n) = NoRule <=> \A p \in Range(de) : ~Names(p, n)
    BY <1>2, <1>3, <1>6, <2>1
  <2> QED BY <1>2, <1>3, <1>6, <2>2
<1>8. ASSUME NEW a \in Addr, ~a.zone
      PROVE  /\ MatchAddr(Mine.deny, a) # NoRule <=> \E p \in Range(de) : Addresses(p, a) \/ Everywhere(p)
             /\ MatchAddr(Mine.allow, a) # NoRule <=> \E p \in Range(al) : Addresses(p, a)
  BY <1>2, <1>3, <1>8, MatchAddrDeny, MatchAddrRule
<1> QED BY <1>4, <1>7, <1>8 DEF DenyListed, AllowListed

\* allowsPort and the config's port list.
LEMMA PortsMatch ==
  ASSUME Loaded, SubnetOf(policy, req.client) # 0
  PROVE  /\ AllowsPort(Mine, req.port) <=> GoodPort
         /\ AllowsPort(Mine, req.port) => ValidPort(req.port)
<1> DEFINE i == SubnetOf(policy, req.client)
           ps == specs[i].ports
           x == req.port
<1>1. i \in DOMAIN specs /\ Owner = specs[i]
  BY LoadedFacts, SubnetIsOwner DEF Loaded
<1>2. /\ Mine.ports = IF ps = <<>> THEN DefaultPorts ELSE Range(ps)
      /\ \A j \in DOMAIN ps : ValidRange(ps[j])
  BY <1>1, LoadedFacts, PolicyFacts DEF Mine
<1>3. ps \in Seq(PortRange)
  <2>1. specs[i] \in FileSubnet
    BY <1>1, LoadedFacts, LenProperties, ElementOfSeq
  <2> QED BY <2>1 DEF FileSubnet
<1>4. x \in Int
  BY DEF Loaded, Request
<1>5. AllowsPort(Mine, x) <=> \E r \in Mine.ports : r.lo <= x /\ x <= r.hi
  BY DEF AllowsPort
<1>6. GoodPort <=> IF ps = <<>> THEN x \in {80, 443} ELSE \E j \in DOMAIN ps : x \in ps[j].lo..ps[j].hi
  BY <1>1 DEF GoodPort
<1> HIDE DEF ps, x, i
<1>7. CASE ps = <<>>
  <2>1. (\E r \in DefaultPorts : r.lo <= x /\ x <= r.hi) <=> x \in {80, 443}
    BY <1>4, SMT DEF DefaultPorts
  <2>2. x \in {80, 443} => ValidPort(x)
    BY AclAssumption, SMT DEF ValidPort
  <2> QED BY <1>2, <1>5, <1>6, <1>7, <2>1, <2>2 DEF x
<1>8. CASE ps # <<>>
  <2>1. ASSUME NEW j \in DOMAIN ps
        PROVE  /\ ps[j].lo <= x /\ x <= ps[j].hi <=> x \in ps[j].lo..ps[j].hi
               /\ x \in ps[j].lo..ps[j].hi => ValidPort(x)
    <3>1. ps[j] \in PortRange
      BY <1>3, LenProperties, ElementOfSeq
    <3>2. ps[j].lo \in Int /\ ps[j].hi \in Int
      BY <3>1 DEF PortRange
    <3>3. ps[j].lo \in 1..MaxPort /\ ps[j].hi \in 1..MaxPort
      BY <1>2 DEF ValidRange, ValidPort
    <3> DEFINE lo == ps[j].lo
               hi == ps[j].hi
    <3> HIDE DEF lo, hi
    <3>4. lo \in 1..MaxPort /\ hi \in 1..MaxPort
      BY <3>3 DEF lo, hi
    <3>5. (lo <= x /\ x <= hi <=> x \in lo..hi) /\ (x \in lo..hi => x \in 1..MaxPort)
      BY <1>4, <3>4, AclAssumption, SMT
    <3> QED BY <3>5 DEF lo, hi, ValidPort
  <2>2. Mine.ports = {ps[j] : j \in DOMAIN ps}
    BY <1>2, <1>8 DEF Range
  <2>3. AllowsPort(Mine, x) <=> \E j \in DOMAIN ps : x \in ps[j].lo..ps[j].hi
    BY <1>5, <2>1, <2>2
  <2>4. AllowsPort(Mine, x) => ValidPort(x)
    BY <2>1, <2>3
  <2> QED BY <1>6, <1>8, <2>3, <2>4 DEF x
<1> QED BY <1>7, <1>8

\* The request passed everything that is checked before a lookup.
Passed ==
  /\ SubnetOf(policy, req.client) # 0 /\ Dst.kind # "junk" /\ ValidPort(req.port)
  /\ Match(Mine.deny, Dst) = NoRule /\ Match(Mine.allow, Dst) # NoRule
  /\ AllowsPort(Mine, req.port)

\* Check goes past its refusals exactly for what the config lists.
LEMMA PassedIsListed ==
  ASSUME Loaded
  PROVE  Passed <=> /\ OwnerSpecs # {} /\ GoodPort /\ Dst.kind # "junk"
                    /\ IF Dst.kind = "addr" THEN ~DenyListed(Dst.addr) /\ AllowListed(Dst.addr)
                       ELSE GoodName(Dst.name)
<1>1. SubnetOf(policy, req.client) # 0 <=> OwnerSpecs # {}
  BY LoadedFacts, SubnetIsOwner DEF Loaded
<1>2. CASE SubnetOf(policy, req.client) = 0
  BY <1>1, <1>2 DEF Passed
<1>3. CASE SubnetOf(policy, req.client) # 0
  <2>1. /\ AllowsPort(Mine, req.port) <=> GoodPort
        /\ AllowsPort(Mine, req.port) => ValidPort(req.port)
    BY <1>3, PortsMatch
  <2>2. CASE Dst.kind = "addr" /\ Dst.addr \in Addr /\ ~Dst.addr.zone
    <3>1. /\ Match(Mine.deny, Dst) # NoRule <=> DenyListed(Dst.addr)
          /\ Match(Mine.allow, Dst) # NoRule <=> AllowListed(Dst.addr)
      BY <1>3, <2>2, MineMatches DEF Match
    <3> QED BY <1>1, <1>3, <2>1, <2>2, <3>1 DEF Passed
  <2>3. CASE Dst.kind = "name" /\ Dst.name \in Name
    <3>1. Match(Mine.deny, Dst) = NoRule /\ Match(Mine.allow, Dst) # NoRule <=> GoodName(Dst.name)
      BY <1>3, <2>3, MineMatches DEF Match, GoodName
    <3> QED BY <1>1, <1>3, <2>1, <2>3, <3>1 DEF Passed
  <2>4. CASE Dst.kind = "junk"
    BY <2>4 DEF Passed
  <2> QED BY <2>2, <2>3, <2>4, DstFacts DEF Loaded
<1> QED BY <1>2, <1>3

-----------------------------------------------------------------------------
(* Limits *)

\* The nearest of three values that is set.
LEMMA FirstOfThree ==
  ASSUME NEW x, NEW y, NEW z, z # Unset
  PROVE  FirstSet(x, y, z) = IF x = Unset THEN (IF y = Unset THEN z ELSE y) ELSE x
<1> DEFINE set == {v \in {<<1, x>>, <<2, y>>, <<3, z>>} : v[2] # Unset}
           best == IF x = Unset THEN (IF y = Unset THEN <<3, z>> ELSE <<2, y>>) ELSE <<1, x>>
           c == CHOOSE v \in set : \A w \in set : v[1] <= w[1]
<1>1. best \in set /\ \A w \in set : best[1] <= w[1]
  BY SMT
<1>2. ASSUME NEW v \in set, \A w \in set : v[1] <= w[1] PROVE v = best
  <2>1. v[1] <= best[1]
    BY <1>1, <1>2
  <2> QED BY <1>1, <1>2, <2>1, SMT
<1>3. c \in set /\ \A w \in set : c[1] <= w[1]
  <2> HIDE DEF set, best
  <2> QED BY <1>1
<1>4. c = best
  <2> HIDE DEF set, best, c
  <2> QED BY <1>2, <1>3
<1>5. best[2] = IF x = Unset THEN (IF y = Unset THEN z ELSE y) ELSE x
  BY SMT
<1>6. FirstSet(x, y, z) = c[2]
  BY DEF FirstSet
<1> HIDE DEF best, c
<1> QED BY <1>4, <1>5, <1>6

\* What Parse put together for the client's subnet, field by field.
LEMMA LimitsNearest ==
  ASSUME Loaded
  PROVE  LET l == ClientLimits(cfg, SubnetOf(policy, req.client))
         IN  /\ \A fld \in Field : l[fld] = Nearest(fld) /\ l[fld] >= 0
             /\ l["rate"] > 0 => l["burst"] > 0
<1> DEFINE i == SubnetOf(policy, req.client)
           l == ClientLimits(cfg, i)
           top == Overridden(file.limits, DefaultClientLimits)
           own == Overridden(specs[i].limits, top)
<1>1. \/ i = 0 /\ OwnerSpecs = {}
      \/ i \in DOMAIN specs /\ i # 0 /\ OwnerSpecs = {i} /\ Owner = specs[i]
  BY LoadedFacts, SubnetIsOwner DEF Loaded
<1>2. /\ cfg.clientLimits = top /\ Usable(top) /\ specs \in Seq(FileSubnet)
      /\ cfg.subnetLimits = [k \in DOMAIN specs |-> Overridden(specs[k].limits, top)]
      /\ i \in DOMAIN specs => Usable(own)
  BY LoadedFacts
<1>3. DOMAIN specs = 1..Len(specs)
  BY <1>2, LenProperties
<1>4. ASSUME NEW fld \in Field
      PROVE  /\ top[fld] = IF file.limits[fld] = Unset THEN DefaultClientLimits[fld] ELSE file.limits[fld]
             /\ own[fld] = IF specs[i].limits[fld] = Unset THEN top[fld] ELSE specs[i].limits[fld]
             /\ DefaultClientLimits[fld] # Unset
  BY ConfigAssumption DEF Overridden
<1>5. file.limits \in FileLimits
  BY DEF Loaded, File
<1>6. top["burst"] \in Int
  <2>1. file.limits["burst"] \in Int \cup {Unset}
    BY <1>5 DEF FileLimits
  <2>2. "burst" \in Field
    BY DEF Field
  <2> HIDE DEF top, own
  <2> QED BY <1>4, <2>1, <2>2, ConfigAssumption
<1>7. ASSUME NEW u, Usable(u), u["burst"] \in Int
      PROVE  (\A fld \in Field : u[fld] >= 0) /\ (u["rate"] > 0 => u["burst"] > 0)
  <2>1. (\A fld \in Field : u[fld] >= 0) /\ (u.rate > 0 => u.burst >= 1)
    BY <1>7 DEF Usable
  <2> QED BY <1>7, <2>1, SMT
<1> HIDE DEF top, own
<1>8. CASE i = 0 /\ OwnerSpecs = {}
  <2>1. l = top
    <3>1. i \notin DOMAIN specs
      BY <1>3, <1>8, SMT
    <3> QED BY <1>2, <3>1 DEF ClientLimits
  <2>2. ASSUME NEW fld \in Field PROVE Nearest(fld) = top[fld]
    <3>1. Nearest(fld) = FirstSet(Unset, file.limits[fld], DefaultClientLimits[fld])
      BY <1>8 DEF Nearest
    <3>2. Nearest(fld) = IF file.limits[fld] = Unset THEN DefaultClientLimits[fld] ELSE file.limits[fld]
      BY <1>4, <3>1, FirstOfThree
    <3> QED BY <1>4, <3>2
  <2> QED BY <1>2, <1>6, <1>7, <2>1, <2>2
<1>9. CASE i \in DOMAIN specs /\ OwnerSpecs = {i} /\ Owner = specs[i]
  <2>1. l = own
    BY <1>2, <1>9 DEF ClientLimits, own
  <2>2. ASSUME NEW fld \in Field PROVE Nearest(fld) = own[fld]
    <3>1. Nearest(fld) = FirstSet(specs[i].limits[fld], file.limits[fld], DefaultClientLimits[fld])
      <4>1. OwnerSpecs # {}
        BY <1>9
      <4> QED BY <1>9, <4>1 DEF Nearest
    <3>2. Nearest(fld) = IF specs[i].limits[fld] = Unset
                         THEN IF file.limits[fld] = Unset THEN DefaultClientLimits[fld] ELSE file.limits[fld]
                         ELSE specs[i].limits[fld]
      BY <1>4, <3>1, FirstOfThree
    <3> QED BY <1>4, <3>2
  <2>3. own["burst"] \in Int
    <3>1. specs[i] \in FileSubnet
      BY <1>2, <1>9, LenProperties, ElementOfSeq
    <3>2. specs[i].limits \in FileLimits
      BY <3>1 DEF FileSubnet
    <3>3. specs[i].limits["burst"] \in Int \cup {Unset}
      BY <3>2 DEF FileLimits
    <3>4. "burst" \in Field
      BY DEF Field
    <3> QED BY <1>4, <1>6, <3>3, <3>4
  <2> QED BY <1>2, <1>7, <1>9, <2>1, <2>2, <2>3
<1> QED BY <1>1, <1>8, <1>9

-----------------------------------------------------------------------------
(* The steps of a check *)

\* The cases of Refusal, in the order Check tries them.
LEMMA RefusalCases ==
  ASSUME NEW s, NEW host, NEW port
  PROVE  LET dst == ParseHost(host)
             ok == /\ dst.kind # "junk" /\ ValidPort(port) /\ Match(s.deny, dst) = NoRule
                   /\ Match(s.allow, dst) # NoRule /\ AllowsPort(s, port)
         IN  IF ok THEN Refusal(s, host, port) = Deny("none", Match(s.allow, dst))
             ELSE \E why \in {"host", "port", "deny rule", "no rule"} :
                    \E rule : Refusal(s, host, port) = Deny(why, rule)
<1> DEFINE dst == ParseHost(host)
           d == Match(s.deny, dst)
           a == Match(s.allow, dst)
           R == Refusal(s, host, port)
<1>1. R = IF dst.kind = "junk" THEN Deny("host", NoRule)
          ELSE IF ~ValidPort(port) THEN Deny("port", NoRule)
          ELSE IF d # NoRule THEN Deny("deny rule", d)
          ELSE IF a = NoRule THEN Deny("no rule", NoRule)
          ELSE IF ~AllowsPort(s, port) THEN Deny("port", NoRule)
          ELSE Deny("none", a)
  BY DEF Refusal
<1> HIDE DEF R, d, a, dst
<1>2. \/ R = Deny("host", NoRule) \/ R = Deny("port", NoRule) \/ R = Deny("deny rule", d)
      \/ R = Deny("no rule", NoRule)
      \/ /\ dst.kind # "junk" /\ ValidPort(port) /\ d = NoRule
         /\ a # NoRule /\ AllowsPort(s, port)
  BY <1>1
<1>3. dst.kind # "junk" /\ ValidPort(port) /\ d = NoRule /\ a # NoRule /\ AllowsPort(s, port)
      => R = Deny("none", a)
  BY <1>1
<1> QED BY <1>2, <1>3 DEF R, d, a, dst

\* A request that Check does not refuse has passed, with its allow rule; a
\* refusal does not allow.
LEMMA NotRefused ==
  LET r == Refusal(Mine, req.host, req.port)
  IN  /\ r.allow = FALSE
      /\ SubnetOf(policy, req.client) # 0 /\ r.why = "none" => Passed
      /\ Passed => r.why = "none" /\ r.rule = Match(Mine.allow, Dst)
<1> DEFINE r == Refusal(Mine, req.host, req.port)
           ok == /\ Dst.kind # "junk" /\ ValidPort(req.port) /\ Match(Mine.deny, Dst) = NoRule
                 /\ Match(Mine.allow, Dst) # NoRule /\ AllowsPort(Mine, req.port)
<1>1. IF ok THEN r = Deny("none", Match(Mine.allow, Dst))
      ELSE \E why \in {"host", "port", "deny rule", "no rule"} : \E rule : r = Deny(why, rule)
  BY RefusalCases DEF Dst
<1>2. Passed <=> SubnetOf(policy, req.client) # 0 /\ ok
  BY DEF Passed
<1> HIDE DEF r, ok
<1>3. CASE ok
  <2>1. r.allow = FALSE /\ r.why = "none" /\ r.rule = Match(Mine.allow, Dst)
    BY <1>1, <1>3 DEF Deny
  <2> QED BY <1>2, <1>3, <2>1 DEF r
<1>4. CASE ~ok
  <2>1. PICK why \in {"host", "port", "deny rule", "no rule"} : \E rule : r = Deny(why, rule)
    BY <1>1, <1>4
  <2>2. PICK rule : r = Deny(why, rule)
    BY <2>1
  <2>3. r.allow = FALSE /\ r.why = why
    BY <2>2 DEF Deny
  <2>4. r.why # "none"
    BY <2>3
  <2> QED BY <1>2, <1>4, <2>3, <2>4 DEF r
<1> QED BY <1>3, <1>4

\* Vet allows when all of the addresses are good, and hands out all of them.
LEMMA Vetted ==
  ASSUME NEW s, NEW rule, NEW addrs
  PROVE  LET d == Vet(s, rule, addrs)
         IN  /\ d.allow <=> \A i \in DOMAIN addrs : AddrAllowed(s, addrs[i])
             /\ d.allow => d.rule = rule /\ d.addrs = addrs
<1> DEFINE bad == {i \in DOMAIN addrs : ~AddrAllowed(s, addrs[i])}
<1>1. CASE \A i \in DOMAIN addrs : AddrAllowed(s, addrs[i])
  <2>1. Vet(s, rule, addrs) = [allow |-> TRUE, rule |-> rule, why |-> "allowed", addrs |-> addrs]
    BY <1>1 DEF Vet
  <2> QED BY <1>1, <2>1
<1>2. CASE ~ \A i \in DOMAIN addrs : AddrAllowed(s, addrs[i])
  <2>1. Vet(s, rule, addrs) = Deny("address", MatchAddr(s.deny, addrs[Min(bad)]))
    BY <1>2 DEF Vet
  <2>2. Vet(s, rule, addrs).allow = FALSE
    BY <2>1 DEF Deny
  <2> QED BY <1>2, <2>2
<1> QED BY <1>1, <1>2

\* The addresses of an answer, unmapped, unless it is refused whole.
LEMMA ResolvedFacts ==
  ASSUME NEW answer \in Seq(Addr)
  PROVE  LET rs == Resolved(answer)
         IN  /\ rs = <<>> <=> answer = <<>> \/ \E i \in DOMAIN answer : Unmap(answer[i]).zone
             /\ rs # <<>> => DOMAIN rs = DOMAIN answer /\ \A i \in DOMAIN answer : rs[i] = Unmap(answer[i])
<1> DEFINE rs == Resolved(answer)
           all == [i \in DOMAIN answer |-> Unmap(answer[i])]
<1>1. DOMAIN all = DOMAIN answer /\ \A i \in DOMAIN answer : all[i] = Unmap(answer[i])
  OBVIOUS
<1>2. rs = IF \E i \in DOMAIN all : all[i].zone THEN <<>> ELSE all
  BY DEF Resolved
<1>3. all = <<>> <=> answer = <<>>
  <2>1. answer # <<>> => DOMAIN answer # {}
    <3>1. DOMAIN answer = 1..Len(answer)
      BY LenProperties
    <3>2. answer # <<>> => Len(answer) \in Nat \ {0}
      BY EmptySeq
    <3> HIDE DEF all
    <3> QED BY <3>1, <3>2, SMT
  <2>2. DOMAIN <<>> = {}
    BY SMT
  <2>3. answer = <<>> => all = <<>>
    <3> SUFFICES ASSUME answer = <<>> PROVE all = <<>>
      OBVIOUS
    <3>1. all = [i \in {} |-> Unmap(answer[i])]
      BY <2>2
    <3> QED BY <3>1, SMT
  <2> QED BY <1>1, <2>1, <2>2, <2>3
<1> HIDE DEF all, rs
<1> QED BY <1>1, <1>2, <1>3 DEF rs

-----------------------------------------------------------------------------
(* The inductive invariant *)

\* The request has passed and every address it leads to is good.
Cleared ==
  /\ Passed
  /\ IF Dst.kind = "addr" THEN AddrAllowed(Mine, Dst.addr)
     ELSE /\ found # <<>>
          /\ \A i \in DOMAIN found : ~Unmap(found[i]).zone /\ AddrAllowed(Mine, Unmap(found[i]))

\* A check runs on a loaded config.  What is looked up has passed, once; while
\* the lookup is out nothing is decided; what is decided is exactly what the
\* client's subnet clears.
IInv ==
  /\ pc \in {"load", "refused", "check", "resolving", "done"}
  /\ file \in File /\ req \in Request /\ found \in Seq(Addr)
  /\ pc \in {"check", "resolving", "done"} => Loaded
  /\ pc # "done" => decision = NoDecision /\ found = <<>>
  /\ pc \in {"load", "refused", "check"} => looked = {}
  /\ pc = "resolving" => looked # {}
  /\ looked # {} => Passed /\ looked = {Dst.name} /\ Dst.kind = "name"
  /\ pc \in {"resolving", "done"} => lim = ClientLimits(cfg, SubnetOf(policy, req.client))
  /\ pc = "done" => (decision.allow <=> Cleared)
  /\ decision.allow => decision.rule = Match(Mine.allow, Dst)
  /\ AddrsAreChecked

\* Before the load nothing is decided.
LEMMA InitIInv == Init => IInv
<1> SUFFICES ASSUME Init PROVE IInv
  OBVIOUS
<1>1. pc = "load" /\ looked = {} /\ found = <<>> /\ decision = NoDecision
  BY DEF Init
<1>2. decision.allow = FALSE
  BY <1>1 DEF NoDecision, Deny
<1>3. file \in File /\ req \in Request
  BY CasesAssumption DEF Init
<1>4. found \in Seq(Addr)
  BY <1>1, EmptySeq
<1> QED BY <1>1, <1>2, <1>3, <1>4 DEF IInv, AddrsAreChecked

\* A file is loaded or refused.
LEMMA LoadIInv ==
  ASSUME IInv, Load
  PROVE  IInv'
<1>1. /\ pc = "load" /\ cfg' = Parse(file) /\ UNCHANGED <<file, req, lim, looked, found, decision>>
      /\ pc' = IF cfg'.ok THEN "check" ELSE "refused"
  BY DEF Load
<1>2. looked' = {} /\ decision' = NoDecision /\ found' = <<>>
  BY <1>1 DEF IInv
<1>3. decision'.allow = FALSE
  BY <1>2 DEF NoDecision, Deny
<1>4. file' \in File /\ req' \in Request /\ found' \in Seq(Addr)
  BY <1>1 DEF IInv
<1>5. pc' = "check" => Loaded'
  BY <1>1, <1>4 DEF Loaded
<1>6. NoDecision' = NoDecision
  BY DEF NoDecision
<1>7. pc' \in {"check", "refused"}
  BY <1>1
<1> QED BY <1>2, <1>3, <1>4, <1>5, <1>6, <1>7 DEF IInv, AddrsAreChecked

\* Subnet.Check up to the lookup.
LEMMA CheckIInv ==
  ASSUME IInv, Check
  PROVE  IInv'
<1> DEFINE r == Refusal(Mine, req.host, req.port)
<1>1. /\ pc = "check" /\ UNCHANGED <<file, cfg, req, found>>
      /\ lim' = ClientLimits(cfg, SubnetOf(policy, req.client))
  BY DEF Check
<1>2. /\ looked = {} /\ decision = NoDecision /\ found = <<>> /\ Loaded
      /\ file \in File /\ req \in Request /\ found \in Seq(Addr)
  BY <1>1 DEF IInv
<1>3. /\ Dst' = Dst /\ Mine' = Mine /\ Passed' = Passed /\ Cleared' = Cleared /\ Loaded' = Loaded
      /\ NoDecision' = NoDecision /\ SubnetOf(policy, req.client)' = SubnetOf(policy, req.client)
  BY <1>1 DEF Dst, Mine, Passed, Cleared, Loaded, policy, NoDecision
<1>4. lim' = ClientLimits(cfg', SubnetOf(policy, req.client)')
  BY <1>1, <1>3
<1>5. CASE pc' = "done" /\ UNCHANGED looked /\ decision'.allow = FALSE /\ ~Passed
  <2>1. ~Cleared
    BY <1>5 DEF Cleared
  <2> QED BY <1>1, <1>2, <1>3, <1>4, <1>5, <2>1 DEF IInv, AddrsAreChecked
<1>6. CASE /\ SubnetOf(policy, req.client) # 0 /\ r.why = "none" /\ Dst.kind = "addr"
           /\ decision' = Vet(Mine, r.rule, <<Dst.addr>>) /\ pc' = "done" /\ UNCHANGED looked
  <2>1. Passed /\ r.rule = Match(Mine.allow, Dst)
    BY <1>6, NotRefused
  <2>2. /\ decision'.allow <=> \A i \in DOMAIN <<Dst.addr>> : AddrAllowed(Mine, <<Dst.addr>>[i])
        /\ decision'.allow => decision'.rule = r.rule /\ decision'.addrs = <<Dst.addr>>
    BY <1>6, Vetted
  <2>3. DOMAIN <<Dst.addr>> = {1} /\ <<Dst.addr>>[1] = Dst.addr /\ Range(<<Dst.addr>>) = {Dst.addr}
    BY SMT DEF Range
  <2>4. decision'.allow <=> Cleared
    BY <1>6, <2>1, <2>2, <2>3 DEF Cleared
  <2>5. AddrsAreChecked'
    BY <1>3, <1>6, <2>2, <2>3 DEF AddrsAreChecked
  <2> QED BY <1>1, <1>2, <1>3, <1>4, <1>6, <2>1, <2>2, <2>4, <2>5 DEF IInv
<1>7. CASE /\ SubnetOf(policy, req.client) # 0 /\ r.why = "none" /\ Dst.kind # "addr"
           /\ looked' = looked \cup {Dst.name} /\ pc' = "resolving" /\ UNCHANGED decision
  <2>1. Passed
    BY <1>7, NotRefused
  <2>2. Dst.kind = "name"
    BY <1>2, <1>7, <2>1, DstFacts DEF Passed
  <2>3. looked' = {Dst.name} /\ decision' = NoDecision
    BY <1>2, <1>7
  <2>4. decision'.allow = FALSE
    BY <2>3 DEF NoDecision, Deny
  <2> QED BY <1>1, <1>2, <1>3, <1>4, <1>7, <2>1, <2>2, <2>3, <2>4 DEF IInv, AddrsAreChecked
<1>8. CASE SubnetOf(policy, req.client) = 0
  <2>1. decision' = Deny("no subnet", NoRule) /\ pc' = "done" /\ UNCHANGED looked
    BY <1>8 DEF Check
  <2>2. decision'.allow = FALSE
    BY <2>1 DEF Deny
  <2>3. ~Passed
    BY <1>8 DEF Passed
  <2> QED BY <1>5, <2>1, <2>2, <2>3
<1>9. CASE SubnetOf(policy, req.client) # 0 /\ r.why # "none"
  <2>1. decision' = r /\ pc' = "done" /\ UNCHANGED looked
    BY <1>9 DEF Check
  <2>2. decision'.allow = FALSE /\ ~Passed
    BY <1>9, <2>1, NotRefused
  <2> QED BY <1>5, <2>1, <2>2
<1>10. CASE SubnetOf(policy, req.client) # 0 /\ r.why = "none"
  <2>1. IF Dst.kind = "addr"
        THEN decision' = Vet(Mine, r.rule, <<Dst.addr>>) /\ pc' = "done" /\ UNCHANGED looked
        ELSE looked' = looked \cup {Dst.name} /\ pc' = "resolving" /\ UNCHANGED decision
    BY <1>10 DEF Check
  <2> QED BY <1>6, <1>7, <1>10, <2>1
<1> QED BY <1>8, <1>9, <1>10

\* The lookup returns, and its addresses are judged.
LEMMA LookupIInv ==
  ASSUME IInv, LookupFails \/ \E answer \in Answers : LookupAnswers(answer)
  PROVE  IInv'
<1>1. /\ pc = "resolving" /\ pc' = "done"
      /\ UNCHANGED <<file, cfg, req, lim, looked>>
  BY DEF LookupFails, LookupAnswers
<1>2. /\ Passed /\ looked = {Dst.name} /\ Dst.kind = "name" /\ Loaded
      /\ file \in File /\ req \in Request /\ found = <<>>
      /\ lim = ClientLimits(cfg, SubnetOf(policy, req.client))
  BY <1>1 DEF IInv
<1>3. /\ Dst' = Dst /\ Mine' = Mine /\ Passed' = Passed /\ Loaded' = Loaded
      /\ SubnetOf(policy, req.client)' = SubnetOf(policy, req.client)
  BY <1>1 DEF Dst, Mine, Passed, Loaded, policy
<1>4. lim' = ClientLimits(cfg', SubnetOf(policy, req.client)')
  BY <1>1, <1>2, <1>3
<1> DEFINE Fit == /\ found' # <<>>
                  /\ \A i \in DOMAIN found' : ~Unmap(found'[i]).zone /\ AddrAllowed(Mine, Unmap(found'[i]))
<1>5. Cleared' <=> Fit
  <2>1. Dst'.kind # "addr" /\ Passed'
    BY <1>2, <1>3
  <2> QED BY <1>3, <2>1 DEF Cleared
<1> HIDE DEF Fit
<1>6. CASE decision'.allow = FALSE /\ ~Fit /\ found' \in Seq(Addr)
  BY <1>1, <1>2, <1>3, <1>4, <1>5, <1>6 DEF IInv, AddrsAreChecked
<1>7. CASE LookupFails
  <2>1. decision' = Deny("dns", NoRule) /\ found' = <<>>
    BY <1>2, <1>7 DEF LookupFails
  <2>2. decision'.allow = FALSE
    BY <2>1 DEF Deny
  <2> QED BY <1>6, <2>1, <2>2, EmptySeq DEF Fit
<1>8. ASSUME NEW answer \in Answers, LookupAnswers(answer)
      PROVE  IInv'
  <2> DEFINE r == Refusal(Mine, req.host, req.port)
             rs == Resolved(answer)
  <2>1. /\ found' = answer
        /\ decision' = IF rs = <<>> THEN Deny("dns", NoRule) ELSE Vet(Mine, r.rule, rs)
    BY <1>8 DEF LookupAnswers
  <2>2. answer \in Seq(Addr)
    BY CasesAssumption
  <2>3. /\ rs = <<>> <=> answer = <<>> \/ \E i \in DOMAIN answer : Unmap(answer[i]).zone
        /\ rs # <<>> => DOMAIN rs = DOMAIN answer /\ \A i \in DOMAIN answer : rs[i] = Unmap(answer[i])
    BY <2>2, ResolvedFacts
  <2> HIDE DEF rs
  <2>4. CASE rs = <<>>
    <3>1. decision' = Deny("dns", NoRule)
      BY <2>1, <2>4
    <3>2. decision'.allow = FALSE
      BY <3>1 DEF Deny
    <3>3. ~Fit
      BY <2>1, <2>3, <2>4 DEF Fit
    <3> QED BY <1>6, <2>1, <2>2, <3>2, <3>3
  <2>5. CASE rs # <<>>
    <3>1. r.rule = Match(Mine.allow, Dst)
      BY <1>2, NotRefused
    <3>2. decision' = Vet(Mine, r.rule, rs)
      BY <2>1, <2>5
    <3> HIDE DEF r
    <3>3. /\ decision'.allow <=> \A i \in DOMAIN rs : AddrAllowed(Mine, rs[i])
          /\ decision'.allow => decision'.rule = r.rule /\ decision'.addrs = rs
      BY <3>2, Vetted
    <3>4. decision'.allow <=> Fit
      BY <2>1, <2>3, <2>5, <3>3 DEF Fit
    <3>5. Range(rs) = {Unmap(answer[i]) : i \in DOMAIN answer}
      BY <2>3, <2>5 DEF Range
    <3>6. AddrsAreChecked'
      BY <1>2, <1>3, <2>1, <3>3, <3>5 DEF AddrsAreChecked
    <3> QED BY <1>1, <1>2, <1>3, <1>4, <1>5, <2>1, <2>2, <3>1, <3>3, <3>4, <3>6 DEF IInv
  <2> QED BY <2>4, <2>5
<1> QED BY <1>7, <1>8

\* Every step keeps the invariant.
LEMMA NextIInv == IInv /\ [Next]_vars => IInv'
<1>1. ASSUME IInv, UNCHANGED vars PROVE IInv'
  BY <1>1 DEF vars, IInv, AddrsAreChecked, Passed, Cleared, Loaded, Mine, Dst, policy, NoDecision
<1> QED BY <1>1, LoadIInv, CheckIInv, LookupIInv DEF Next

-----------------------------------------------------------------------------
(* Theorems *)

\* Subnet.Check and resolve hand the dialler the literal that was asked for or
\* every address of the one lookup, whatever the resolver answered.
THEOREM AddrsAlwaysChecked == Spec => []AddrsAreChecked
<1>1. IInv => AddrsAreChecked
  BY DEF IInv
<1> QED BY <1>1, InitIInv, NextIInv, PTL DEF Spec

\* For every config file that loads, whatever its rules, their forms and their
\* order: Check and the compiled rule sets it works on allow exactly the
\* requests the file permits, given what DNS answered.
THEOREM DecisionAlwaysExact == Spec => []DecisionExact
<1>1. IInv => DecisionExact
  <2> SUFFICES ASSUME IInv, pc = "done" PROVE decision.allow <=> Permitted
    BY DEF DecisionExact
  <2>1. Loaded /\ (decision.allow <=> Cleared) /\ req \in Request /\ found \in Seq(Addr)
    BY DEF IInv
  <2>2. Passed <=> /\ OwnerSpecs # {} /\ GoodPort /\ Dst.kind # "junk"
                   /\ IF Dst.kind = "addr" THEN ~DenyListed(Dst.addr) /\ AllowListed(Dst.addr)
                      ELSE GoodName(Dst.name)
    BY <2>1, PassedIsListed
  <2>3. ASSUME Passed, NEW a \in Addr, ~a.zone PROVE AddrAllowed(Mine, a) <=> GoodAddr(a)
    <3>1. /\ MatchAddr(Mine.deny, a) # NoRule <=> DenyListed(a)
          /\ MatchAddr(Mine.allow, a) # NoRule <=> AllowListed(a)
      BY <2>1, <2>3, MineMatches DEF Passed
    <3> QED BY <3>1 DEF AddrAllowed, GoodAddr
  <2>4. CASE Dst.kind = "addr" /\ Dst.addr \in Addr /\ ~Dst.addr.zone
    <3>1. Cleared <=> Passed
      BY <2>2, <2>3, <2>4 DEF Cleared, GoodAddr
    <3> QED BY <2>1, <2>2, <2>4, <3>1 DEF Permitted
  <2>5. CASE Dst.kind = "name"
    <3>1. \A i \in DOMAIN found : Unmap(found[i]) \in Addr
      BY <2>1, UnmapAddr, LenProperties, ElementOfSeq
    <3>2. Passed => ((\A i \in DOMAIN found : ~Unmap(found[i]).zone /\ AddrAllowed(Mine, Unmap(found[i])))
                     <=> \A i \in DOMAIN found : ~Unmap(found[i]).zone /\ GoodAddr(Unmap(found[i])))
      BY <2>3, <3>1
    <3> QED BY <2>1, <2>2, <2>5, <3>2 DEF Permitted, Cleared
  <2>6. CASE Dst.kind = "junk"
    BY <2>1, <2>6 DEF Permitted, Cleared, Passed
  <2> QED BY <2>1, <2>4, <2>5, <2>6, DstFacts
<1> QED BY <1>1, InitIInv, NextIInv, PTL DEF Spec

\* Subnet.Check resolves a name only if the file's rules for the client cover
\* it with no deny pattern and some allow pattern, on a permitted port.
THEOREM NoLookupOfDenied == Spec => []OnlyAllowedNamesLookedUp
<1>1. IInv => OnlyAllowedNamesLookedUp
  <2> SUFFICES ASSUME IInv, NEW n \in looked PROVE OwnerSpecs # {} /\ GoodName(n) /\ GoodPort
    BY DEF OnlyAllowedNamesLookedUp
  <2>1. Passed /\ looked = {Dst.name} /\ Dst.kind = "name" /\ Loaded
    BY DEF IInv
  <2> QED BY <2>1, PassedIsListed
<1> QED BY <1>1, InitIInv, NextIInv, PTL DEF Spec

\* matchName reports the most specific of the allow patterns that match.
THEOREM RuleAlwaysMostSpecific == Spec => []RuleMostSpecific
<1>1. IInv => RuleMostSpecific
  <2> SUFFICES ASSUME IInv, decision.allow, Dst.kind = "name"
               PROVE  /\ decision.rule \in Range(Owner.allow) /\ Names(decision.rule, Dst.name)
                      /\ \A p \in Range(Owner.allow) :
                           Names(p, Dst.name) => Rank(p) <= Rank(decision.rule)
    BY DEF RuleMostSpecific
  <2>1. pc = "done"
    <3>1. NoDecision.allow = FALSE
      BY DEF NoDecision, Deny
    <3> QED BY <3>1 DEF IInv
  <2>2. Loaded /\ Passed /\ decision.rule = Match(Mine.allow, Dst) /\ req \in Request
    BY <2>1 DEF IInv, Cleared
  <2>3. /\ SubnetOf(policy, req.client) # 0 /\ Dst.name \in Name
        /\ decision.rule = MatchName(Mine.allow, Dst.name) /\ decision.rule # NoRule
    BY <2>2, DstFacts DEF Passed, Match
  <2> QED BY <2>2, <2>3, MineMatches
<1> QED BY <1>1, InitIInv, NextIInv, PTL DEF Spec

\* Parse and ClientLimits give a client each limit from the nearest place that
\* sets it, and never a limit that refuses everything by accident.
THEOREM LimitsAlwaysInherited == Spec => []LimitsInherited
<1>1. IInv => LimitsInherited
  <2> SUFFICES ASSUME IInv, pc \in {"resolving", "done"}
               PROVE  /\ \A fld \in Field : lim[fld] = Nearest(fld) /\ lim[fld] >= 0
                      /\ lim.rate > 0 => lim.burst > 0
    BY DEF LimitsInherited
  <2>1. Loaded /\ lim = ClientLimits(cfg, SubnetOf(policy, req.client))
    BY DEF IInv
  <2>2. /\ \A fld \in Field : lim[fld] = Nearest(fld) /\ lim[fld] >= 0
        /\ lim["rate"] > 0 => lim["burst"] > 0
    BY <2>1, LimitsNearest
  <2> QED BY <2>2
<1> QED BY <1>1, InitIInv, NextIInv, PTL DEF Spec
=============================================================================
