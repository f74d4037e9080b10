------------------------- MODULE VerificationProofs -------------------------
(***************************************************************************)
(* Theorems about RuntimeVerification, for every list of models and         *)
(* consumers, every set of cluster states, every number of attempts and     *)
(* every budget.                                                            *)
(***************************************************************************)
EXTENDS RuntimeVerification, SequenceTheorems, WellFoundedInduction, TLAPS

-----------------------------------------------------------------------------
(* Sequences of sequences.                                                  *)

\* A set of natural numbers that is not empty has a least element.
LEMMA LeastNumber ==
  ASSUME NEW S, S \subseteq Nat, S # {}
  PROVE  \E n \in S : \A k \in S : n <= k
<1> DEFINE R == OpToRel(<, Nat)
<1>1. \A a, b \in Nat : <<a, b>> \in R <=> a < b
  BY DEF OpToRel
<1>2. IsWellFoundedOn(R, Nat)
  BY NatLessThanWellFounded
<1> HIDE DEF R
<1>3. PICK n \in S : \A k \in S : <<k, n>> \notin R
  BY <1>2, WFMin
<1>4. ASSUME NEW k \in S
      PROVE  n <= k
  <2>1. k \in Nat /\ n \in Nat /\ <<k, n>> \notin R
    BY <1>3
  <2>2. ~(k < n)
    BY <1>1, <2>1
  <2> QED BY <2>1, <2>2
<1> QED BY <1>4

\* The elements of two sequences, one behind the other.
LEMMA ConcatHas ==
  ASSUME NEW S, NEW s \in Seq(S), NEW t \in Seq(S)
  PROVE  s \o t \in Seq(S) /\ ToSet(s \o t) = ToSet(s) \cup ToSet(t)
<1> DEFINE u == s \o t
<1>1. /\ u \in Seq(S) /\ Len(u) = Len(s) + Len(t)
      /\ \A i \in 1..(Len(s) + Len(t)) :
           u[i] = IF i <= Len(s) THEN s[i] ELSE t[i - Len(s)]
  BY ConcatProperties
<1>2. /\ DOMAIN u = 1..(Len(s) + Len(t)) /\ Len(s) \in Nat /\ Len(t) \in Nat
      /\ DOMAIN s = 1..Len(s) /\ DOMAIN t = 1..Len(t)
  BY <1>1
<1> HIDE DEF u
<1>3. ASSUME NEW i \in DOMAIN s PROVE i \in DOMAIN u /\ u[i] = s[i]
  BY <1>1, <1>2
<1>4. ASSUME NEW i \in DOMAIN t
      PROVE  Len(s) + i \in DOMAIN u /\ u[Len(s) + i] = t[i]
  BY <1>1, <1>2
<1>5. ToSet(s) \subseteq ToSet(u)
  BY <1>3 DEF ToSet
<1>6. ToSet(t) \subseteq ToSet(u)
  BY <1>4 DEF ToSet
<1>7. ASSUME NEW i \in DOMAIN u
      PROVE  u[i] \in ToSet(s) \cup ToSet(t)
  <2>1. CASE i <= Len(s)
    BY <1>1, <1>2, <2>1 DEF ToSet
  <2>2. CASE ~(i <= Len(s))
    <3>1. i - Len(s) \in DOMAIN t /\ u[i] = t[i - Len(s)]
      BY <1>1, <1>2, <2>2
    <3> QED BY <3>1 DEF ToSet
  <2> QED BY <2>1, <2>2
<1>8. ToSet(u) \subseteq ToSet(s) \cup ToSet(t)
  BY <1>7 DEF ToSet
<1> QED BY <1>1, <1>5, <1>6, <1>8 DEF u

\* x is at most once in the sequence s.
Once(x, s) == \A i, j \in DOMAIN s : s[i] = x /\ s[j] = x => i = j

LEMMA ConcatOnce ==
  ASSUME NEW S, NEW s \in Seq(S), NEW t \in Seq(S), NEW x,
         \/ Once(x, s) /\ x \notin ToSet(t)
         \/ Once(x, t) /\ x \notin ToSet(s)
  PROVE  Once(x, s \o t)
<1> DEFINE u == s \o t
<1>1. /\ u \in Seq(S) /\ Len(u) = Len(s) + Len(t)
      /\ \A i \in 1..(Len(s) + Len(t)) :
           u[i] = IF i <= Len(s) THEN s[i] ELSE t[i - Len(s)]
  BY ConcatProperties
<1>2. /\ DOMAIN u = 1..(Len(s) + Len(t)) /\ Len(s) \in Nat /\ Len(t) \in Nat
      /\ DOMAIN s = 1..Len(s) /\ DOMAIN t = 1..Len(t)
  BY <1>1
<1> HIDE DEF u
<1>3. ASSUME NEW i \in DOMAIN u
      PROVE  \/ i \in DOMAIN s /\ u[i] = s[i]
             \/ i - Len(s) \in DOMAIN t /\ u[i] = t[i - Len(s)]
  BY <1>1, <1>2
<1>4. /\ \A i \in DOMAIN s : s[i] \in ToSet(s)
      /\ \A i \in DOMAIN t : t[i] \in ToSet(t)
  BY DEF ToSet
<1>5. ASSUME NEW i \in DOMAIN u, NEW j \in DOMAIN u, u[i] = x, u[j] = x
      PROVE  i = j
  <2>1. CASE Once(x, s) /\ x \notin ToSet(t)
    BY <1>3, <1>4, <1>5, <2>1 DEF Once
  <2>2. CASE Once(x, t) /\ x \notin ToSet(s)
    <3>1. i - Len(s) \in DOMAIN t /\ t[i - Len(s)] = x
      BY <1>3, <1>4, <1>5, <2>2
    <3>2. j - Len(s) \in DOMAIN t /\ t[j - Len(s)] = x
      BY <1>3, <1>4, <1>5, <2>2
    <3>3. i - Len(s) = j - Len(s)
      BY <2>2, <3>1, <3>2 DEF Once
    <3> QED BY <1>2, <3>3
  <2> QED BY <2>1, <2>2
<1> QED BY <1>5 DEF Once, u

\* A sequence over a set is one over a larger set.
LEMMA SeqOfMore ==
  ASSUME NEW S, NEW T, S \subseteq T, NEW s \in Seq(S)
  PROVE  s \in Seq(T) /\ ToSet(s) \subseteq S
<1>1. /\ DOMAIN s = 1..Len(s) /\ Len(s) \in Nat
      /\ \A i \in DOMAIN s : s[i] \in S
  OBVIOUS
<1>2. s \in [1..Len(s) -> T] /\ ToSet(s) \subseteq S
  BY <1>1 DEF ToSet
<1> QED BY <1>1, <1>2

\* Short sequences.
LEMMA OneHas ==
  ASSUME NEW S, NEW x \in S
  PROVE  <<x>> \in Seq(S) /\ ToSet(<<x>>) = {x}
<1> DEFINE s == <<x>>
<1>1. s \in Seq(S) /\ DOMAIN s = 1..1 /\ s[1] = x
  OBVIOUS
<1> HIDE DEF s
<1>2. ToSet(s) = {x}
  BY <1>1 DEF ToSet
<1> QED BY <1>1, <1>2 DEF s

LEMMA TwoHave ==
  ASSUME NEW S, NEW x \in S, NEW y \in S
  PROVE  <<x, y>> \in Seq(S) /\ ToSet(<<x, y>>) = {x, y}
<1> DEFINE s == <<x, y>>
<1>1. s \in Seq(S) /\ DOMAIN s = 1..2 /\ s[1] = x /\ s[2] = y
  OBVIOUS
<1> HIDE DEF s
<1>2. ToSet(s) = {x, y}
  BY <1>1 DEF ToSet
<1> QED BY <1>1, <1>2 DEF s

LEMMA FourHave ==
  ASSUME NEW S, NEW w \in S, NEW x \in S, NEW y \in S, NEW z \in S
  PROVE  <<w, x, y, z>> \in Seq(S) /\ ToSet(<<w, x, y, z>>) = {w, x, y, z}
<1> DEFINE s == <<w, x, y, z>>
<1>1. /\ s \in Seq(S) /\ DOMAIN s = 1..4
      /\ s[1] = w /\ s[2] = x /\ s[3] = y /\ s[4] = z
  OBVIOUS
<1> HIDE DEF s
<1>2. ToSet(s) = {w, x, y, z}
  BY <1>1 DEF ToSet
<1> QED BY <1>1, <1>2 DEF s

\* The function by which FlattenSeq is defined exists.
Flattens(f, ss, n) ==
  f = [i \in 1..n |-> IF i = 1 THEN ss[i] ELSE f[i - 1] \o ss[i]]

LEMMA FlattenExists ==
  ASSUME NEW ss, NEW n \in Nat
  PROVE  \E f : Flattens(f, ss, n)
<1> DEFINE bad == {k \in Nat : ~\E f : Flattens(f, ss, k)}
<1>1. SUFFICES ASSUME bad # {} PROVE FALSE
  OBVIOUS
<1>2. PICK k \in bad : \A j \in bad : k <= j
  <2> bad \subseteq Nat
    OBVIOUS
  <2> HIDE DEF bad
  <2> QED BY <1>1, LeastNumber
<1>3. k # 0
  <2> DEFINE f == [i \in 1..0 |-> <<>>]
  <2>1. Flattens(f, ss, 0)
    BY DEF Flattens
  <2> HIDE DEF f
  <2> QED BY <2>1
<1>4. k - 1 \in Nat /\ k - 1 \notin bad /\ k \in Nat
  BY <1>2, <1>3
<1>5. PICK f : Flattens(f, ss, k - 1)
  BY <1>4
<1> DEFINE g == [i \in 1..k |-> IF i = 1 THEN ss[i] ELSE f[i - 1] \o ss[i]]
<1>6. ASSUME NEW i \in 1..k, i # 1
      PROVE  g[i - 1] = f[i - 1]
  <2>1. i - 1 \in 1..(k - 1) /\ i - 1 \in 1..k
    BY <1>4, <1>6
  <2>2. f[i - 1] = IF i - 1 = 1 THEN ss[i - 1] ELSE f[(i - 1) - 1] \o ss[i - 1]
    BY <1>5, <2>1 DEF Flattens
  <2> QED BY <2>1, <2>2
<1>7. ASSUME NEW i \in 1..k
      PROVE  g[i] = IF i = 1 THEN ss[i] ELSE g[i - 1] \o ss[i]
  BY <1>6
<1>8. DOMAIN g = 1..k /\ g = [i \in DOMAIN g |-> g[i]]
  OBVIOUS
<1> HIDE DEF g
<1>9. Flattens(g, ss, k)
  BY <1>7, <1>8 DEF Flattens
<1> QED BY <1>2, <1>9

\* Every element of every sequence is in the flat one.
LEMMA FlattenHas ==
  ASSUME NEW S, NEW ss \in Seq(Seq(S))
  PROVE  /\ FlattenSeq(ss) \in Seq(S)
         /\ \A i \in DOMAIN ss : ToSet(ss[i]) \subseteq ToSet(FlattenSeq(ss))
<1>1. /\ Len(ss) \in Nat /\ DOMAIN ss = 1..Len(ss)
      /\ \A i \in DOMAIN ss : ss[i] \in Seq(S)
  OBVIOUS
<1>2. CASE Len(ss) = 0
  <2>1. FlattenSeq(ss) = ss /\ ss = <<>>
    BY <1>2 DEF FlattenSeq
  <2> QED BY <1>1, <1>2, <2>1
<1>3. CASE Len(ss) # 0
  <2> DEFINE n == Len(ss)
  <2>1. PICK f : Flattens(f, ss, n) /\ FlattenSeq(ss) = f[n]
    <3>1. \E f : Flattens(f, ss, n)
      BY <1>1, FlattenExists
    <3> DEFINE g == CHOOSE f : Flattens(f, ss, n)
    <3>2. Flattens(g, ss, n)
      BY <3>1
    <3>3. FlattenSeq(ss) = g[n]
      BY <1>3 DEF FlattenSeq, Flattens
    <3> QED BY <3>2, <3>3
  <2> HIDE DEF n
  <2> DEFINE Fine(i) == /\ f[i] \in Seq(S)
                        /\ \A j \in 1..i : ToSet(ss[j]) \subseteq ToSet(f[i])
             bad == {i \in 1..n : ~Fine(i)}
  <2>2. /\ n \in Nat /\ n # 0
        /\ \A i \in 1..n : f[i] = IF i = 1 THEN ss[i] ELSE f[i - 1] \o ss[i]
        /\ \A i \in 1..n : ss[i] \in Seq(S)
    BY <1>1, <1>3, <2>1 DEF n, Flattens
  <2>3. bad = {}
    <3>1. SUFFICES ASSUME bad # {} PROVE FALSE
      OBVIOUS
    <3>2. PICK k \in bad : \A j \in bad : k <= j
      <4> bad \subseteq Nat
        BY <2>2
      <4> HIDE DEF bad
      <4> QED BY <3>1, LeastNumber
    <3>3. k \in 1..n /\ ~Fine(k)
      OBVIOUS
    <3>4. k # 1
      <4>1. Fine(1)
        BY <2>2
      <4> QED BY <3>3, <4>1
    <3>5. k - 1 \in 1..n /\ k - 1 \in Nat /\ k \in Nat
      BY <2>2, <3>3, <3>4
    <3>6. Fine(k - 1)
      <4>1. k - 1 \notin bad
        <5> HIDE DEF bad
        <5> QED BY <3>2, <3>5
      <4> HIDE DEF Fine
      <4> QED BY <3>5, <4>1
    <3> HIDE DEF bad
    <3>7. f[k] = f[k - 1] \o ss[k] /\ ss[k] \in Seq(S) /\ f[k - 1] \in Seq(S)
      BY <2>2, <3>3, <3>4, <3>6
    <3> DEFINE u == f[k - 1] \o ss[k]
    <3>8. /\ u \in Seq(S) /\ ToSet(f[k - 1]) \subseteq ToSet(u)
          /\ ToSet(ss[k]) \subseteq ToSet(u)
      BY <3>7, ConcatHas
    <3> HIDE DEF u
    <3>9. \A j \in 1..k : j = k \/ j \in 1..(k - 1)
      BY <3>5
    <3>10. Fine(k)
      BY <3>6, <3>7, <3>8, <3>9 DEF u
    <3> QED BY <3>3, <3>10
  <2>4. Fine(n)
    <3> HIDE DEF Fine
    <3> QED BY <2>2, <2>3
  <2> HIDE DEF Fine
  <2> QED BY <1>1, <2>1, <2>4 DEF n, Fine
<1> QED BY <1>2, <1>3

\* An element of one sequence only, and once in it, is once in the flat one.
LEMMA FlattenOnce ==
  ASSUME NEW S, NEW ss \in Seq(Seq(S)), NEW x, NEW h \in DOMAIN ss,
         Once(x, ss[h]), \A i \in DOMAIN ss : i # h => x \notin ToSet(ss[i])
  PROVE  Once(x, FlattenSeq(ss))
<1> DEFINE n == Len(ss)
<1>1. /\ n \in Nat /\ DOMAIN ss = 1..n /\ n # 0 /\ h \in 1..n
      /\ \A i \in 1..n : ss[i] \in Seq(S)
  OBVIOUS
<1>2. PICK f : Flattens(f, ss, n) /\ FlattenSeq(ss) = f[n]
  <2>1. \E f : Flattens(f, ss, n)
    BY <1>1, FlattenExists
  <2> DEFINE g == CHOOSE f : Flattens(f, ss, n)
  <2>2. Flattens(g, ss, n)
    BY <2>1
  <2>3. FlattenSeq(ss) = g[n]
    BY <1>1 DEF FlattenSeq, Flattens
  <2> QED BY <2>2, <2>3
<1> HIDE DEF n
<1>3. \A i \in 1..n : f[i] = IF i = 1 THEN ss[i] ELSE f[i - 1] \o ss[i]
  BY <1>1, <1>2 DEF Flattens
<1> DEFINE Fine(i) == /\ f[i] \in Seq(S)
                      /\ i < h => x \notin ToSet(f[i])
                      /\ i >= h => Once(x, f[i])
           bad == {i \in 1..n : ~Fine(i)}
<1>0. /\ n \in Nat /\ n # 0 /\ 1 \in 1..n /\ n \in 1..n /\ h \in Nat /\ 1 <= h
      /\ Once(x, ss[h]) /\ \A i \in 1..n : i # h => x \notin ToSet(ss[i])
  <2>1. n \in Nat /\ n # 0 /\ h \in 1..n /\ DOMAIN ss = 1..n
    BY <1>1
  <2>2. 1 \in 1..n /\ n \in 1..n /\ h \in Nat /\ 1 <= h
    BY <2>1
  <2>3. \A i \in 1..n : i # h => x \notin ToSet(ss[i])
    BY <2>1
  <2> QED BY <2>1, <2>2, <2>3
<1>4. Fine(1)
  <2>1. f[1] = ss[1] /\ f[1] \in Seq(S)
    BY <1>0, <1>1, <1>3
  <2>2. 1 < h => x \notin ToSet(ss[1])
    BY <1>0
  <2>3. 1 >= h => h = 1
    BY <1>0
  <2> QED BY <1>0, <2>1, <2>2, <2>3
<1>5. ASSUME NEW k \in 1..n, k # 1, Fine(k - 1)
      PROVE  Fine(k)
  <2>1. /\ k - 1 \in 1..n /\ k \in Nat /\ h \in Nat /\ k - 1 \in Nat
        /\ f[k] = f[k - 1] \o ss[k] /\ ss[k] \in Seq(S)
        /\ f[k - 1] \in Seq(S)
    <3>1. k - 1 \in 1..n /\ k \in Nat /\ k - 1 \in Nat
      BY <1>0, <1>5
    <3>2. f[k] = f[k - 1] \o ss[k] /\ ss[k] \in Seq(S)
      BY <1>1, <1>3, <1>5
    <3>3. f[k - 1] \in Seq(S)
      BY <1>5
    <3> QED BY <1>0, <3>1, <3>2, <3>3
  <2>0. /\ k - 1 < h => x \notin ToSet(f[k - 1])
        /\ k - 1 >= h => Once(x, f[k - 1])
    BY <1>5
  <2> DEFINE s == f[k - 1]
             u == s \o ss[k]
  <2>2. u \in Seq(S) /\ ToSet(u) = ToSet(s) \cup ToSet(ss[k])
    BY <2>1, ConcatHas
  <2>3. CASE k < h
    <3>1. x \notin ToSet(s) /\ x \notin ToSet(ss[k])
      BY <1>0, <2>0, <2>1, <2>3
    <3> HIDE DEF s, u
    <3>2. Fine(k)
      BY <2>1, <2>2, <2>3, <3>1 DEF s, u
    <3> QED BY <3>2
  <2>4. CASE k = h
    <3>1. x \notin ToSet(s) /\ Once(x, ss[k])
      BY <1>0, <2>0, <2>1, <2>4
    <3>2. Once(x, u)
      BY <2>1, <3>1, ConcatOnce
    <3> QED BY <2>1, <2>2, <2>4, <3>2
  <2>5. CASE k > h
    <3>1. Once(x, s) /\ x \notin ToSet(ss[k])
      BY <1>0, <2>0, <2>1, <2>5
    <3>2. Once(x, u)
      BY <2>1, <3>1, ConcatOnce
    <3> QED BY <2>1, <2>2, <2>5, <3>2
  <2> QED BY <2>1, <2>3, <2>4, <2>5
<1> HIDE DEF Fine
<1>6. bad = {}
  <2>1. SUFFICES ASSUME bad # {} PROVE FALSE
    OBVIOUS
  <2>2. PICK k \in bad : \A j \in bad : k <= j
    <3> bad \subseteq Nat
      BY <1>1
    <3> HIDE DEF bad
    <3> QED BY <2>1, LeastNumber
  <2>3. k \in 1..n /\ ~Fine(k) /\ k # 1
    BY <1>4
  <2>4. k - 1 \in 1..n
    BY <1>1, <2>3
  <2>5. k - 1 \notin bad
    <3> HIDE DEF bad
    <3> QED BY <2>2, <2>3, <2>4
  <2>6. Fine(k - 1)
    BY <2>4, <2>5
  <2> HIDE DEF bad
  <2> QED BY <1>5, <2>3, <2>6
<1>7. Fine(n)
  BY <1>0, <1>6
<1>8. n >= h => Once(x, f[n])
  BY <1>7 DEF Fine
<1> QED BY <1>1, <1>2, <1>8

-----------------------------------------------------------------------------
(* The list of checks.                                                      *)

\* Checks by what they look at: objects, answers without a key that counts,
\* the probes of models, and the limit.
Keyless == {<<"missing key">>, <<"unknown key">>, <<"wrong host">>}

ProbeSet(credentials) ==
  {<<"allowed", m>> : m \in {n \in Models : ConsumerFor(n, TRUE) \in credentials}}
  \cup
  {<<"denied", m>> : m \in {n \in Models : ConsumerFor(n, FALSE) \in credentials}}

Unlimited(credentials) == Objects \cup Keyless \cup ProbeSet(credentials)

CheckSet(credentials) ==
  Unlimited(credentials)
  \cup (IF LimitChecked(credentials) THEN {<<"low limit">>} ELSE {})

\* The probes of one model.
LEMMA ProbesHave ==
  ASSUME NEW credentials, NEW m \in Models
  PROVE  LET s == ModelProbes(m, credentials)
         IN  /\ s \in Seq(ProbeSet(credentials))
             /\ ToSet(s) \subseteq {<<"allowed", m>>, <<"denied", m>>}
             /\ Once(<<"allowed", m>>, s)
             /\ ConsumerFor(m, TRUE) \in credentials => <<"allowed", m>> \in ToSet(s)
             /\ ConsumerFor(m, FALSE) \in credentials => <<"denied", m>> \in ToSet(s)
<1> DEFINE x == <<"allowed", m>>
           y == <<"denied", m>>
           S == ProbeSet(credentials)
           s == IF ConsumerFor(m, TRUE) \in credentials THEN <<x>> ELSE <<>>
           t == IF ConsumerFor(m, FALSE) \in credentials THEN <<y>> ELSE <<>>
           u == ModelProbes(m, credentials)
<1>1. /\ ConsumerFor(m, TRUE) \in credentials => x \in S
      /\ ConsumerFor(m, FALSE) \in credentials => y \in S
      /\ x # y
  BY DEF ProbeSet
<1>2. u = s \o t
  BY DEF ModelProbes
<1> HIDE DEF x, y, S, u
<1>3. <<>> \in Seq(S) /\ ToSet(<<>>) = {} /\ Once(x, <<>>)
  BY DEF ToSet, Once
<1>4. /\ s \in Seq(S) /\ Once(x, s)
      /\ ToSet(s) = IF ConsumerFor(m, TRUE) \in credentials THEN {x} ELSE {}
  <2>1. CASE ConsumerFor(m, TRUE) \in credentials
    <3>1. s = <<x>> /\ x \in S
      BY <1>1, <2>1
    <3>2. <<x>> \in Seq(S) /\ ToSet(<<x>>) = {x}
      BY <3>1, OneHas
    <3>3. Once(x, <<x>>)
      BY DEF Once
    <3> QED BY <2>1, <3>1, <3>2, <3>3
  <2>2. CASE ConsumerFor(m, TRUE) \notin credentials
    BY <1>3, <2>2
  <2> QED BY <2>1, <2>2
<1>5. /\ t \in Seq(S)
      /\ ToSet(t) = IF ConsumerFor(m, FALSE) \in credentials THEN {y} ELSE {}
  <2>1. CASE ConsumerFor(m, FALSE) \in credentials
    <3>1. t = <<y>> /\ y \in S
      BY <1>1, <2>1
    <3>2. <<y>> \in Seq(S) /\ ToSet(<<y>>) = {y}
      BY <3>1, OneHas
    <3> QED BY <2>1, <3>1, <3>2
  <2>2. CASE ConsumerFor(m, FALSE) \notin credentials
    BY <1>3, <2>2
  <2> QED BY <2>1, <2>2
<1> HIDE DEF s, t
<1>6. u \in Seq(S) /\ ToSet(u) = ToSet(s) \cup ToSet(t)
  <2>1. s \o t \in Seq(S) /\ ToSet(s \o t) = ToSet(s) \cup ToSet(t)
    <3>1. s \in Seq(S) /\ t \in Seq(S)
      BY <1>4, <1>5
    <3> QED BY <3>1, ConcatHas
  <2> QED BY <1>2, <2>1
<1>7. x \notin ToSet(t)
  BY <1>1, <1>5
<1>8. Once(x, u)
  BY <1>2, <1>4, <1>5, <1>7, ConcatOnce
<1>9. ToSet(u) \subseteq {x, y}
  <2>1. ToSet(s) \subseteq {x} /\ ToSet(t) \subseteq {y}
    BY <1>4, <1>5
  <2> QED BY <1>6, <2>1
<1> QED BY <1>4, <1>5, <1>6, <1>8, <1>9 DEF x, y, S, u

\* Every object of the cluster and every probe whose credential was passed is
\* among the checks; a grant is probed once, and the limit is probed last.
LEMMA ChecksCover ==
  ASSUME NEW credentials \in CredentialSets
  PROVE  LET list == Checks[credentials]
         IN  /\ list \in Seq(CheckSet(credentials))
             /\ Objects \cup Keyless \cup ProbeSet(credentials) \subseteq ToSet(list)
             /\ LimitChecked(credentials) => <<"low limit">> \in ToSet(list)
             /\ \A m \in Models : Once(<<"allowed", m>>, list)
             /\ \A i \in DOMAIN list : list[i] = <<"low limit">> => i = Len(list)
<1> DEFINE S == Unlimited(credentials)
           Fixed == Objects \cup Keyless
           P == ProbeSet(credentials)
           limit == <<"low limit">>
           routes == [i \in DOMAIN ModelOrder |->
                       <<<<"route", ModelOrder[i]>>, <<"policy", ModelOrder[i]>>>>]
           probes == [i \in DOMAIN ModelOrder |->
                       ModelProbes(ModelOrder[i], credentials)]
           w == <<"deployment", "envoy-ratelimit">>
           x == <<"deployment", "redis">>
           y == <<"missing key">>
           z == <<"unknown key">>
           a == <<<<"gateway">>>>
           b == FlattenSeq(routes)
           c == <<w, x, y, z>>
           d == FlattenSeq(probes)
           e == <<<<"wrong host">>>>
           f == IF LimitChecked(credentials) THEN <<limit>> ELSE <<>>
<1>1. /\ ModelOrder \in Seq(Models)
      /\ \A i \in DOMAIN ModelOrder : ModelOrder[i] \in Models
      /\ DOMAIN ModelOrder = 1..Len(ModelOrder) /\ Len(ModelOrder) \in Nat
      /\ \A i, j \in DOMAIN ModelOrder : ModelOrder[i] = ModelOrder[j] => i = j
  BY VerificationAssumption DEF VerificationAssumption, IsInjective
<1>2. \A m \in Models : \E i \in DOMAIN ModelOrder : ModelOrder[i] = m
  BY DEF Models, ToSet
<1>3. /\ S = Fixed \cup P
      /\ limit \notin S
      /\ \A m \in Models : <<"allowed", m>> \notin Fixed /\ <<"allowed", m>> # limit
      /\ CheckSet(credentials)
           = S \cup (IF LimitChecked(credentials) THEN {limit} ELSE {})
      /\ Checks[credentials] = a \o b \o c \o d \o e \o f
  <2>1. limit \notin S
    BY DEF Unlimited, Objects, Keyless, ProbeSet
  <2>2. \A m \in Models : <<"allowed", m>> \notin Fixed /\ <<"allowed", m>> # limit
    BY DEF Objects, Keyless
  <2> QED BY <2>1, <2>2 DEF Unlimited, CheckSet, Checks
<1>4. /\ routes \in Seq(Seq(Fixed)) /\ DOMAIN routes = DOMAIN ModelOrder
      /\ \A i \in DOMAIN ModelOrder :
           /\ <<"route", ModelOrder[i]>> \in ToSet(routes[i])
           /\ <<"policy", ModelOrder[i]>> \in ToSet(routes[i])
  <2> DEFINE pair(m) == <<<<"route", m>>, <<"policy", m>>>>
  <2>1. ASSUME NEW m \in Models
        PROVE  /\ pair(m) \in Seq(Fixed)
               /\ <<"route", m>> \in ToSet(pair(m))
               /\ <<"policy", m>> \in ToSet(pair(m))
    <3>1. <<"route", m>> \in Fixed /\ <<"policy", m>> \in Fixed
      BY DEF Objects
    <3> HIDE DEF Fixed
    <3> QED BY <3>1, TwoHave
  <2>2. routes = [i \in DOMAIN ModelOrder |-> pair(ModelOrder[i])]
    OBVIOUS
  <2> HIDE DEF pair, routes, Fixed
  <2>3. \A i \in DOMAIN ModelOrder : routes[i] = pair(ModelOrder[i])
    BY <2>2
  <2>4. routes \in [1..Len(ModelOrder) -> Seq(Fixed)]
    BY <1>1, <2>1, <2>2
  <2>5. routes \in Seq(Seq(Fixed)) /\ DOMAIN routes = DOMAIN ModelOrder
    BY <1>1, <2>4
  <2> QED BY <1>1, <2>1, <2>3, <2>5
<1>5. /\ probes \in Seq(Seq(P)) /\ DOMAIN probes = DOMAIN ModelOrder
      /\ \A i \in DOMAIN ModelOrder :
           probes[i] = ModelProbes(ModelOrder[i], credentials)
  <2>1. \A i \in DOMAIN ModelOrder :
          ModelProbes(ModelOrder[i], credentials) \in Seq(P)
    BY <1>1, ProbesHave
  <2> HIDE DEF P
  <2> QED BY <1>1, <2>1
<1>6. /\ a \in Seq(Fixed) /\ c \in Seq(Fixed) /\ e \in Seq(Fixed)
      /\ <<"gateway">> \in ToSet(a) /\ <<"wrong host">> \in ToSet(e)
      /\ w \in ToSet(c) /\ x \in ToSet(c) /\ y \in ToSet(c) /\ z \in ToSet(c)
  <2>1. /\ <<"gateway">> \in Fixed /\ <<"wrong host">> \in Fixed
        /\ w \in Fixed /\ x \in Fixed /\ y \in Fixed /\ z \in Fixed
    BY DEF Objects, Keyless
  <2> HIDE DEF Fixed, w, x, y, z
  <2>2. a \in Seq(Fixed) /\ <<"gateway">> \in ToSet(a)
    BY <2>1, OneHas
  <2>3. e \in Seq(Fixed) /\ <<"wrong host">> \in ToSet(e)
    BY <2>1, OneHas
  <2>4. c = <<w, x, y, z>>
    OBVIOUS
  <2> HIDE DEF a, c, e
  <2>5. /\ <<w, x, y, z>> \in Seq(Fixed)
        /\ ToSet(<<w, x, y, z>>) = {w, x, y, z}
    <3>1. /\ w \in Fixed /\ x \in Fixed
          /\ y \in Fixed /\ z \in Fixed
      BY <2>1
    <3> QED BY <3>1, FourHave
  <2> QED BY <2>2, <2>3, <2>4, <2>5
<1>7. /\ f \in Seq({limit}) /\ Len(f) <= 1
      /\ LimitChecked(credentials) \/ f = <<>>
      /\ LimitChecked(credentials) => limit \in ToSet(f)
      /\ ToSet(f) \subseteq {limit}
  <2> HIDE DEF limit
  <2>1. <<limit>> \in Seq({limit}) /\ ToSet(<<limit>>) = {limit} /\ Len(<<limit>>) = 1
    BY OneHas
  <2>2. <<>> \in Seq({limit}) /\ ToSet(<<>>) = {} /\ Len(<<>>) = 0
    BY DEF ToSet
  <2>3. CASE LimitChecked(credentials)
    <3>1. f = <<limit>>
      BY <2>3
    <3> HIDE DEF f
    <3>2. f \in Seq({limit}) /\ ToSet(f) = {limit} /\ Len(f) = 1
      BY <2>1, <3>1
    <3> QED BY <2>3, <3>2
  <2>4. CASE ~LimitChecked(credentials)
    <3>1. f = <<>>
      BY <2>4
    <3> HIDE DEF f
    <3>2. f \in Seq({limit}) /\ ToSet(f) = {} /\ Len(f) = 0
      BY <2>2, <3>1
    <3> QED BY <2>4, <3>1, <3>2
  <2> QED BY <2>3, <2>4
<1>8. /\ b \in Seq(Fixed)
      /\ \A i \in DOMAIN ModelOrder : ToSet(routes[i]) \subseteq ToSet(b)
  <2> HIDE DEF Fixed, routes
  <2> QED BY <1>4, FlattenHas
<1>9. /\ d \in Seq(P)
      /\ \A i \in DOMAIN ModelOrder : ToSet(probes[i]) \subseteq ToSet(d)
  <2> HIDE DEF P, probes
  <2> QED BY <1>5, FlattenHas
<1>10. ASSUME NEW m \in Models PROVE Once(<<"allowed", m>>, d)
  <2> DEFINE g == <<"allowed", m>>
  <2>1. PICK h \in DOMAIN ModelOrder : ModelOrder[h] = m
    BY <1>2
  <2>2. Once(g, probes[h])
    BY <1>5, <2>1, ProbesHave
  <2>3. ASSUME NEW i \in DOMAIN ModelOrder, i # h
        PROVE  g \notin ToSet(probes[i])
    <3>1. ModelOrder[i] # m /\ ModelOrder[i] \in Models
      BY <1>1, <2>1, <2>3
    <3>2. ToSet(probes[i]) \subseteq
            {<<"allowed", ModelOrder[i]>>, <<"denied", ModelOrder[i]>>}
      BY <1>5, <3>1, ProbesHave
    <3> QED BY <3>1, <3>2
  <2> HIDE DEF P, probes, g
  <2>4. Once(g, d)
    BY <1>5, <2>1, <2>2, <2>3, FlattenOnce
  <2> QED BY <2>4 DEF g
<1> HIDE DEF S, Fixed, P, limit, a, b, c, d, e, f, routes, probes
<1>11. /\ a \in Seq(S) /\ b \in Seq(S) /\ c \in Seq(S) /\ d \in Seq(S)
       /\ e \in Seq(S) /\ ToSet(a) \subseteq Fixed /\ ToSet(b) \subseteq Fixed
       /\ ToSet(c) \subseteq Fixed /\ ToSet(e) \subseteq Fixed
  <2>1. Fixed \subseteq S /\ P \subseteq S
    BY <1>3
  <2>2. a \in Seq(S) /\ ToSet(a) \subseteq Fixed
    BY <1>6, <2>1, SeqOfMore
  <2>3. b \in Seq(S) /\ ToSet(b) \subseteq Fixed
    BY <1>8, <2>1, SeqOfMore
  <2>4. c \in Seq(S) /\ ToSet(c) \subseteq Fixed
    BY <1>6, <2>1, SeqOfMore
  <2>5. d \in Seq(S)
    BY <1>9, <2>1, SeqOfMore
  <2>6. e \in Seq(S) /\ ToSet(e) \subseteq Fixed
    BY <1>6, <2>1, SeqOfMore
  <2> QED BY <2>2, <2>3, <2>4, <2>5, <2>6
<1> DEFINE ab == a \o b
           abc == ab \o c
           abcd == abc \o d
           abcde == abcd \o e
           list == abcde \o f
<1>12. list = Checks[credentials]
  BY <1>3
<1> HIDE DEF ab, abc, abcd, abcde, list
<1>13. ab \in Seq(S) /\ ToSet(ab) = ToSet(a) \cup ToSet(b)
  BY <1>11, ConcatHas DEF ab
<1>14. abc \in Seq(S) /\ ToSet(abc) = ToSet(ab) \cup ToSet(c)
  BY <1>11, <1>13, ConcatHas DEF abc
<1>15. abcd \in Seq(S) /\ ToSet(abcd) = ToSet(abc) \cup ToSet(d)
  BY <1>11, <1>14, ConcatHas DEF abcd
<1>16. abcde \in Seq(S) /\ ToSet(abcde) = ToSet(abcd) \cup ToSet(e)
  BY <1>11, <1>15, ConcatHas DEF abcde
<1> DEFINE T == CheckSet(credentials)
<1>17. /\ f \in Seq(T) /\ abcde \in Seq(T)
  <2>1. S \subseteq T /\ (LimitChecked(credentials) => {limit} \subseteq T)
    BY <1>3
  <2> HIDE DEF T
  <2>2. abcde \in Seq(T)
    BY <1>16, <2>1, SeqOfMore
  <2>3. CASE LimitChecked(credentials)
    BY <1>7, <2>1, <2>2, <2>3, SeqOfMore
  <2>4. CASE f = <<>>
    BY <2>2, <2>4
  <2> QED BY <1>7, <2>3, <2>4
<1> HIDE DEF T
<1>18. list \in Seq(T) /\ ToSet(list) = ToSet(abcde) \cup ToSet(f)
  BY <1>17, ConcatHas DEF list
<1>19. Objects \cup Keyless \cup P \subseteq ToSet(list)
  <2>1. /\ ToSet(a) \subseteq ToSet(list) /\ ToSet(b) \subseteq ToSet(list)
        /\ ToSet(c) \subseteq ToSet(list) /\ ToSet(d) \subseteq ToSet(list)
        /\ ToSet(e) \subseteq ToSet(list)
    BY <1>13, <1>14, <1>15, <1>16, <1>18
  <2>2. \A m \in Models : /\ <<"route", m>> \in ToSet(list)
                          /\ <<"policy", m>> \in ToSet(list)
    BY <1>2, <1>4, <1>8, <2>1
  <2>3. ASSUME NEW object \in {"route", "policy"} \X Models
        PROVE  object \in ToSet(list)
    <3>1. PICK kind \in {"route", "policy"}, m \in Models : object = <<kind, m>>
      OBVIOUS
    <3> QED BY <2>2, <3>1
  <2>4. ASSUME NEW object \in {"deployment"} \X {"envoy-ratelimit", "redis"}
        PROVE  object \in ToSet(list)
    <3>1. object = w \/ object = x
      OBVIOUS
    <3> QED BY <1>6, <2>1, <3>1
  <2>5. Objects \subseteq ToSet(list)
    BY <1>6, <2>1, <2>3, <2>4 DEF Objects
  <2>6. ASSUME NEW m \in Models
        PROVE  /\ ConsumerFor(m, TRUE) \in credentials =>
                    <<"allowed", m>> \in ToSet(list)
               /\ ConsumerFor(m, FALSE) \in credentials =>
                    <<"denied", m>> \in ToSet(list)
    <3>1. PICK i \in DOMAIN ModelOrder : ModelOrder[i] = m
      BY <1>2
    <3>2. ToSet(ModelProbes(m, credentials)) \subseteq ToSet(list)
      BY <1>5, <1>9, <2>1, <3>1
    <3> QED BY <3>2, ProbesHave
  <2>7. P \subseteq ToSet(list)
    BY <2>6 DEF P, ProbeSet
  <2>8. Keyless \subseteq ToSet(list)
    BY <1>6, <2>1 DEF Keyless, y, z
  <2> QED BY <2>5, <2>7, <2>8
<1>20. ASSUME NEW m \in Models PROVE Once(<<"allowed", m>>, list)
  <2> DEFINE g == <<"allowed", m>>
  <2>1. g \notin Fixed /\ g # limit
    BY <1>3
  <2>2. Once(g, d)
    BY <1>10
  <2> HIDE DEF g
  <2>3. g \notin ToSet(abc) /\ g \notin ToSet(e) /\ g \notin ToSet(f)
    BY <1>7, <1>11, <1>13, <1>14, <2>1
  <2>4. Once(g, abcd)
    BY <1>11, <1>14, <2>2, <2>3, ConcatOnce DEF abcd
  <2>5. Once(g, abcde)
    BY <1>11, <1>15, <2>3, <2>4, ConcatOnce DEF abcde
  <2>6. Once(g, list)
    BY <1>17, <2>3, <2>5, ConcatOnce DEF list
  <2> QED BY <2>6 DEF g
<1>21. ASSUME NEW i \in DOMAIN list, list[i] = limit
       PROVE  i = Len(list)
  <2>1. /\ Len(list) = Len(abcde) + Len(f)
        /\ \A j \in 1..(Len(abcde) + Len(f)) :
             list[j] = IF j <= Len(abcde) THEN abcde[j] ELSE f[j - Len(abcde)]
    BY <1>17, ConcatProperties DEF list
  <2>2. /\ DOMAIN list = 1..Len(list) /\ DOMAIN abcde = 1..Len(abcde)
        /\ Len(abcde) \in Nat /\ Len(f) \in Nat
        /\ \A j \in DOMAIN abcde : abcde[j] \in S
    BY <1>16, <1>17, <1>18
  <2>3. ~(i <= Len(abcde))
    BY <1>3, <1>21, <2>1, <2>2
  <2> QED BY <1>7, <2>1, <2>2, <2>3
<1>22. LimitChecked(credentials) => limit \in ToSet(list)
  BY <1>7, <1>18
<1> QED BY <1>12, <1>18, <1>19, <1>20, <1>21, <1>22 DEF T, P, limit

LEMMA ChecksLength ==
  ASSUME NEW credentials \in CredentialSets
  PROVE  /\ Len(Checks[credentials]) \in Nat
         /\ DOMAIN Checks[credentials] = 1..Len(Checks[credentials])
         /\ \A i \in DOMAIN Checks[credentials] :
              Checks[credentials][i] \in CheckSet(credentials)
<1> DEFINE S == CheckSet(credentials)
           list == Checks[credentials]
<1>1. list \in Seq(S)
  BY ChecksCover
<1> HIDE DEF S, list
<1>2. /\ Len(list) \in Nat /\ DOMAIN list = 1..Len(list)
      /\ \A i \in DOMAIN list : list[i] \in S
  BY <1>1
<1> QED BY <1>2 DEF S, list

-----------------------------------------------------------------------------
(* The invariant: results that passed are true of the cluster.              *)

\* What a check that passed says of the state g of the expected cluster.
Held(g, check) ==
  /\ check[1] \in Polls => check \in g.ready
  /\ check[1] \in Uninvited => check[1] \in g.shut
  /\ check[1] = "allowed" =>
       /\ check[2] \in g.grants[ConsumerFor(check[2], TRUE)]
       /\ g.backend[check[2]] # "down"
       /\ ~(check[2] \in Embedding /\ g.backend[check[2]] = "empty")
  /\ check[1] = "denied" => check[2] \notin g.grants[ConsumerFor(check[2], FALSE)]
  /\ check[1] = "low limit" => LowModel \in g.grants[LowLimit]

HeldSoFar(g, r) ==
  r.calm =>
    \A i \in DOMAIN r.results :
      r.results[i] => Held(g, Checks[r.credentials][i])

RunHolds ==
  run # None => /\ HeldSoFar(Gateway, run)
                /\ run.calm /\ run.seen => current = Target

ReportHolds ==
  report # None => /\ HeldSoFar(Gateway, report.run)
                   /\ report.passed => AllPassed(report.run.results)

IInv == TypeOK /\ RunHolds /\ ReportHolds

-----------------------------------------------------------------------------
(* What a step of the verification does.                                    *)

Bound == IF At({"low limit"}) THEN RateAttempts ELSE Attempts

\* The check at hand gets a result.
Decides(passed) ==
  /\ run' = Result(passed) \/ run' = [Result(passed) EXCEPT !.calm = FALSE]
  /\ passed /\ run'.calm => Held(Gateway, Check)

\* The check at hand goes on.
GoesOn ==
  /\ run' \in Runs
  /\ run'.credentials = run.credentials /\ run'.results = run.results
  /\ run'.calm = run.calm /\ run'.fresh = run.fresh
  /\ run'.tries \in {run.tries, run.tries + 1} /\ run'.tries < Bound
  /\ run'.calm /\ run'.seen => current = Target

\* The types of a run with a result.
LEMMA ResultType ==
  ASSUME TypeOK, run # None, ~Done, NEW passed \in BOOLEAN
  PROVE  /\ Result(passed) \in Runs
         /\ [Result(passed) EXCEPT !.calm = FALSE] \in Runs
         /\ \A r \in {Result(passed), [Result(passed) EXCEPT !.calm = FALSE]} :
              /\ r.credentials = run.credentials /\ r.tries = 0 /\ ~r.seen
              /\ r.fresh = run.fresh
              /\ r.calm => run.calm
              /\ r.results = Append(run.results, passed)
         /\ Append(run.results, passed) \in Seq(BOOLEAN)
         /\ Len(Append(run.results, passed)) <= Len(Checks[run.credentials])
<1>1. /\ run \in Runs /\ run.results \in Seq(BOOLEAN)
      /\ Len(run.results) <= Len(Checks[run.credentials])
      /\ Len(run.results) # Len(Checks[run.credentials])
      /\ run.credentials \in CredentialSets
  BY DEF TypeOK, Done, Runs
<1>2. Checks[run.credentials] \in Seq(CheckSet(run.credentials))
  BY <1>1, ChecksCover
<1>3. /\ Append(run.results, passed) \in Seq(BOOLEAN)
      /\ Len(Append(run.results, passed)) = Len(run.results) + 1
  BY <1>1, AppendProperties
<1>4. Len(Append(run.results, passed)) <= Len(Checks[run.credentials])
  BY <1>1, <1>2, <1>3
<1> DEFINE results == Append(run.results, passed)
           r == [run EXCEPT !.results = results, !.seen = FALSE, !.tries = 0]
<1>5. Result(passed) = r
  BY DEF Result
<1> HIDE DEF results
<1>6. /\ r \in Runs /\ r.credentials = run.credentials /\ r.tries = 0
      /\ ~r.seen /\ r.calm = run.calm /\ r.results = results
      /\ r.fresh = run.fresh
  BY <1>1, <1>3 DEF Runs, results
<1> HIDE DEF r
<1>7. /\ [r EXCEPT !.calm = FALSE] \in Runs
      /\ [r EXCEPT !.calm = FALSE].credentials = run.credentials
      /\ [r EXCEPT !.calm = FALSE].tries = 0
      /\ ~[r EXCEPT !.calm = FALSE].seen
      /\ ~[r EXCEPT !.calm = FALSE].calm
      /\ [r EXCEPT !.calm = FALSE].results = results
      /\ [r EXCEPT !.calm = FALSE].fresh = run.fresh
  BY <1>6 DEF Runs
<1> QED BY <1>3, <1>4, <1>5, <1>6, <1>7 DEF results

\* What the gateway's answers say of it.
LEMMA AnswersTell ==
  ASSUME NEW c, NEW m
  PROVE  /\ Answer(c, m) = 200 => m \in Gateway.grants[c] /\ Gateway.backend[m] # "down"
         /\ Answer(c, m) = 403 => m \notin Gateway.grants[c]
         /\ Answer(c, m) = 429 => m \in Gateway.grants[c]
BY DEF Answer

\* A check that is looked at a second time keeps the types.
LEMMA TriedType ==
  ASSUME NEW r \in Runs, NEW seen \in BOOLEAN
  PROVE  LET q == [r EXCEPT !.tries = @ + 1, !.seen = seen]
         IN  /\ q \in Runs /\ q.credentials = r.credentials
             /\ q.results = r.results /\ q.calm = r.calm
             /\ q.tries = r.tries + 1 /\ q.seen = seen
             /\ q.fresh = r.fresh
<1> DEFINE n == r.tries + 1
<1>1. n \in Nat /\ r.tries \in Nat
  BY DEF Runs
<1> HIDE DEF n
<1>2. CASE seen = TRUE
  <2> DEFINE q == [r EXCEPT !.tries = n, !.seen = TRUE]
  <2>1. /\ q \in Runs /\ q.credentials = r.credentials
        /\ q.results = r.results /\ q.calm = r.calm
        /\ q.tries = n /\ q.seen = TRUE /\ q.fresh = r.fresh
    BY <1>1 DEF Runs
  <2> QED BY <1>2, <2>1 DEF n
<1>3. CASE seen = FALSE
  <2> DEFINE q == [r EXCEPT !.tries = n, !.seen = FALSE]
  <2>1. /\ q \in Runs /\ q.credentials = r.credentials
        /\ q.results = r.results /\ q.calm = r.calm
        /\ q.tries = n /\ q.seen = FALSE /\ q.fresh = r.fresh
    BY <1>1 DEF Runs
  <2> QED BY <1>3, <2>1 DEF n
<1> QED BY <1>2, <1>3

LEMMA TriesAgain ==
  ASSUME TypeOK, run # None, NEW seen, seen \in {run.seen, FALSE},
         run.calm /\ run.seen => current = Target,
         run.tries + 1 < Bound,
         run' = [run EXCEPT !.tries = @ + 1, !.seen = seen]
  PROVE  GoesOn
<1>1. run \in Runs /\ run.tries \in Nat /\ seen \in BOOLEAN
  BY DEF TypeOK, Runs
<1>2. /\ run' \in Runs /\ run'.credentials = run.credentials
      /\ run'.results = run.results /\ run'.calm = run.calm
      /\ run'.tries = run.tries + 1 /\ run'.seen = seen
      /\ run'.fresh = run.fresh
  BY <1>1, TriedType
<1> QED BY <1>2 DEF GoesOn

\* Every step of the verification decides the check at hand, goes on with it,
\* or ends the verification.
LEMMA StepForms ==
  ASSUME IInv, Step
  PROVE  /\ UNCHANGED <<current, live>>
         /\ used' \in [Consumers \X Models -> Nat]
         /\ run # None
         /\ \/ ~Done /\ report' = report /\ \E passed \in BOOLEAN : Decides(passed)
            \/ ~Done /\ report' = report /\ GoesOn
            \/ run' = None /\ report' = report
            \/ Finish
<1>1. /\ TypeOK /\ used \in [Consumers \X Models -> Nat]
      /\ Attempts \in Nat /\ Attempts # 0
      /\ RateAttempts \in Nat /\ RateAttempts # 0
  BY VerificationAssumption DEF IInv, TypeOK, VerificationAssumption
<1>2. ASSUME NEW c, NEW m PROVE Counted(c, m) \in [Consumers \X Models -> Nat]
  <2> DEFINE key == <<c, m>>
  <2>1. Counted(c, m) \in {used, [used EXCEPT ![key] = @ + 1]}
    BY DEF Counted
  <2> DEFINE Keys == Consumers \X Models
  <2>2. used \in [Keys -> Nat]
    BY <1>1
  <2> HIDE DEF key, Keys
  <2>3. [used EXCEPT ![key] = @ + 1] \in [Keys -> Nat]
    <3>1. CASE key \in Keys
      <4>1. used[key] + 1 \in Nat
        BY <2>2, <3>1
      <4> QED BY <2>2, <4>1
    <3>2. CASE key \notin Keys
      <4>1. [used EXCEPT ![key] = @ + 1] = used
        BY <2>2, <3>2
      <4> QED BY <2>2, <4>1
    <3> QED BY <3>1, <3>2
  <2>4. Counted(c, m) \in [Keys -> Nat]
    BY <2>1, <2>2, <2>3
  <2> QED BY <2>4 DEF Keys
<1>3. run # None => /\ run.calm /\ run.seen => current = Target
                    /\ run \in Runs /\ run.tries \in Nat /\ run.tries < Bound
  BY DEF IInv, RunHolds, TypeOK, Bound, Runs
<1>4. ASSUME run # None, ~Done, NEW passed \in BOOLEAN,
             \/ run' = Result(passed) /\ (passed /\ run.calm => Held(Gateway, Check))
             \/ run' = Result(passed) /\ ~passed
             \/ run' = [Result(passed) EXCEPT !.calm = FALSE]
      PROVE  Decides(passed)
  <2>1. /\ Result(passed).calm => run.calm
        /\ Result(passed) \in Runs
    BY <1>1, <1>4, ResultType
  <2>2. ~[Result(passed) EXCEPT !.calm = FALSE].calm
    BY <2>1 DEF Runs
  <2> QED BY <1>4, <2>1, <2>2 DEF Decides
<1>5. ASSUME Again, run # None, ~Done, At(Polls)
      PROVE  \/ \E passed \in BOOLEAN : Decides(passed)
             \/ GoesOn
  <2>1. CASE run.tries + 1 >= Attempts
    <3>1. run' = Result(FALSE)
      BY <1>5, <2>1 DEF Again
    <3>2. Decides(FALSE)
      BY <1>4, <1>5, <3>1
    <3> QED BY <3>2
  <2>2. CASE ~(run.tries + 1 >= Attempts)
    <3>1. run' = [run EXCEPT !.tries = @ + 1, !.seen = FALSE]
      BY <1>5, <2>2 DEF Again
    <3>2. Bound = Attempts
      BY <1>5 DEF Bound, At, Polls
    <3>3. run.tries + 1 < Bound
      BY <1>1, <1>3, <1>5, <2>2, <3>2
    <3>4. GoesOn
      BY <1>1, <1>3, <1>5, <3>1, <3>3, TriesAgain
    <3> QED BY <3>4
  <2> QED BY <2>1, <2>2
<1>6. CASE VerifyContext
  <2>1. run # None /\ ~Done /\ At(Polls)
    BY <1>6 DEF VerifyContext, At
  <2>2. CASE current = Target /\ run' = [run EXCEPT !.seen = TRUE]
    <3>1. run' = [run EXCEPT !.seen = TRUE]
      BY <2>2
    <3>2. GoesOn
      BY <1>3, <2>1, <2>2, <3>1 DEF GoesOn, Runs
    <3> QED BY <1>1, <1>6, <2>1, <3>2 DEF VerifyContext
  <2>3. CASE run' = Result(FALSE) \/ run' = [Result(FALSE) EXCEPT !.calm = FALSE]
    <3>1. Decides(FALSE)
      BY <1>4, <2>1, <2>3
    <3> QED BY <1>1, <1>6, <2>1, <3>1 DEF VerifyContext
  <2> QED BY <1>6, <2>2, <2>3 DEF VerifyContext, Fault
<1>7. CASE Poll
  <2>1. run # None /\ ~Done /\ At(Polls) /\ run.seen
    BY <1>7 DEF Poll, At
  <2>2. /\ UNCHANGED <<current, live, used, report>>
        /\ \/ Check \in live[current].ready /\ run' = Result(TRUE)
           \/ Again
           \/ run' = [Result(FALSE) EXCEPT !.calm = FALSE]
    BY <1>7 DEF Poll, Fault
  <2>3. CASE Check \in live[current].ready /\ run' = Result(TRUE)
    <3>1. run.calm => Held(Gateway, Check)
      BY <1>3, <2>1, <2>3 DEF Held, Gateway, At, Polls, Uninvited
    <3>2. Decides(TRUE)
      BY <1>4, <2>1, <2>3, <3>1
    <3> QED BY <1>1, <2>1, <2>2, <3>2
  <2>4. CASE Again
    BY <1>1, <1>5, <2>1, <2>2, <2>4
  <2>5. CASE run' = [Result(FALSE) EXCEPT !.calm = FALSE]
    <3>1. Decides(FALSE)
      BY <1>4, <2>1, <2>5
    <3> QED BY <1>1, <2>1, <2>2, <3>1
  <2> QED BY <2>2, <2>3, <2>4, <2>5
<1>8. CASE ProbeAllowed
  <2> DEFINE c == ConsumerFor(Model, TRUE)
             passed == Allowed(Answer(c, Model)) /\ ~EmptyVector(Model)
  <2>1. /\ run # None /\ ~Done /\ Check[1] = "allowed"
        /\ run' = Result(passed) /\ used' = Counted(c, Model)
        /\ UNCHANGED <<current, live, report>>
    BY <1>8 DEF ProbeAllowed, At
  <2>2. passed \in BOOLEAN
    OBVIOUS
  <2>3. passed => Held(Gateway, Check)
    <3>1. ASSUME passed
          PROVE  /\ Model \in Gateway.grants[c] /\ Gateway.backend[Model] # "down"
                 /\ ~(Model \in Embedding /\ Gateway.backend[Model] = "empty")
      <4>1. Answer(c, Model) = 200 /\ ~EmptyVector(Model)
        BY <3>1 DEF Allowed
      <4> HIDE DEF passed, c
      <4>2. Model \in Gateway.grants[c] /\ Gateway.backend[Model] # "down"
        BY <4>1, AnswersTell
      <4> QED BY <4>1, <4>2 DEF EmptyVector
    <3> QED BY <2>1, <3>1 DEF Held, Model, Polls, Uninvited
  <2>4. used' \in [Consumers \X Models -> Nat]
    BY <1>2, <2>1
  <2> HIDE DEF passed, c
  <2>5. Decides(passed)
    BY <1>4, <2>1, <2>2, <2>3
  <2> QED BY <2>1, <2>2, <2>4, <2>5
<1>9. CASE ProbeDenied
  <2> DEFINE c == ConsumerFor(Model, FALSE)
             passed == Denied(Answer(c, Model))
  <2>1. /\ run # None /\ ~Done /\ Check[1] = "denied"
        /\ run' = Result(passed) /\ used' = Counted(c, Model)
        /\ UNCHANGED <<current, live, report>>
    BY <1>9 DEF ProbeDenied, At
  <2>2. passed \in BOOLEAN
    BY DEF Denied
  <2>3. passed => Held(Gateway, Check)
    <3>1. ASSUME passed PROVE Model \notin Gateway.grants[c]
      <4>1. Answer(c, Model) = 403
        BY <3>1 DEF Denied
      <4> HIDE DEF passed, c
      <4> QED BY <4>1, AnswersTell
    <3> QED BY <2>1, <3>1 DEF Held, Model, Polls, Uninvited
  <2>4. used' \in [Consumers \X Models -> Nat]
    BY <1>2, <2>1
  <2> HIDE DEF passed, c
  <2>5. Decides(passed)
    BY <1>4, <2>1, <2>2, <2>3
  <2> QED BY <2>1, <2>2, <2>4, <2>5
<1>10. CASE ProbeClosed
  <2> DEFINE passed == Check[1] \in Gateway.shut
  <2>1. /\ run # None /\ ~Done /\ Check[1] \in Uninvited
        /\ run' = Result(passed)
        /\ UNCHANGED <<current, live, used, report>>
    BY <1>10 DEF ProbeClosed, At
  <2>2. passed \in BOOLEAN
    OBVIOUS
  <2>3. passed => Held(Gateway, Check)
    BY <2>1 DEF Held, Polls, Uninvited
  <2> HIDE DEF passed
  <2>4. Decides(passed)
    BY <1>4, <2>1, <2>2, <2>3
  <2> QED BY <1>1, <2>1, <2>2, <2>4
<1>11. CASE ProbeLimit
  <2>1. /\ run # None /\ ~Done /\ Check[1] = "low limit" /\ At({"low limit"})
        /\ used' = Counted(LowLimit, LowModel)
        /\ UNCHANGED <<current, live, report>>
    BY <1>11 DEF ProbeLimit, At
  <2>2. used' \in [Consumers \X Models -> Nat]
    BY <1>2, <2>1
  <2>3. Limited => Held(Gateway, Check)
    <3>1. Limited => LowModel \in Gateway.grants[LowLimit]
      BY AnswersTell DEF Limited
    <3> QED BY <2>1, <3>1 DEF Held, Polls, Uninvited
  <2>4. \/ run' = Result(TRUE) /\ Limited
        \/ run' = Result(FALSE)
        \/ /\ ~(run.tries + 1 >= RateAttempts)
           /\ run' = [run EXCEPT !.tries = @ + 1]
    BY <1>11 DEF ProbeLimit
  <2>5. CASE run' = Result(TRUE) /\ Limited
    <3>1. Decides(TRUE)
      BY <1>4, <2>1, <2>3, <2>5
    <3> QED BY <2>1, <2>2, <3>1
  <2>6. CASE run' = Result(FALSE)
    <3>1. Decides(FALSE)
      BY <1>4, <2>1, <2>6
    <3> QED BY <2>1, <2>2, <3>1
  <2>7. CASE /\ ~(run.tries + 1 >= RateAttempts)
             /\ run' = [run EXCEPT !.tries = @ + 1]
    <3>1. run.tries + 1 < Bound
      <4>1. Bound = RateAttempts
        BY <2>1 DEF Bound
      <4>2. run.tries \in Nat
        BY <1>3, <2>1
      <4> QED BY <1>1, <2>7, <4>1, <4>2
    <3>3. run' = [run EXCEPT !.tries = @ + 1, !.seen = run.seen]
      BY <1>3, <2>1, <2>7 DEF Runs
    <3>4. GoesOn
      BY <1>1, <1>3, <2>1, <3>1, <3>3, TriesAgain
    <3> QED BY <2>1, <2>2, <3>4
  <2> QED BY <2>4, <2>5, <2>6, <2>7
<1>12. CASE LoseProbe
  <2>1. /\ run # None /\ ~Done /\ UNCHANGED <<current, live, used, report>>
        /\ \/ run' = [Result(FALSE) EXCEPT !.calm = FALSE]
           \/ run' = None
    BY <1>12 DEF LoseProbe, Fault
  <2>2. CASE run' = [Result(FALSE) EXCEPT !.calm = FALSE]
    <3>1. Decides(FALSE)
      BY <1>4, <2>1, <2>2
    <3> QED BY <1>1, <2>1, <3>1
  <2>3. CASE run' = None
    BY <1>1, <2>1, <2>3
  <2> QED BY <2>1, <2>2, <2>3
<1>13. CASE Finish
  BY <1>1, <1>13 DEF Finish
<1>14. CASE Hang
  <2>1. /\ run # None /\ ~Done /\ UNCHANGED <<current, live, used, report>>
        /\ run' = [run EXCEPT !.stuck = TRUE]
    BY <1>14 DEF Hang
  <2>2. GoesOn
    BY <1>3, <2>1 DEF GoesOn, Runs
  <2> QED BY <1>1, <2>1, <2>2
<1> QED BY <1>6, <1>7, <1>8, <1>9, <1>10, <1>11, <1>12, <1>13, <1>14 DEF Step

-----------------------------------------------------------------------------
(* The invariant is kept.                                                   *)

\* The check after the results of r is that of the low limit.
AtLimit(r) ==
  /\ Len(r.results) # Len(Checks[r.credentials])
  /\ Checks[r.credentials][Len(r.results) + 1][1] = "low limit"

RunTyped(r) ==
  /\ r \in Runs
  /\ r.tries < IF AtLimit(r) THEN RateAttempts ELSE Attempts
  /\ Len(r.results) <= Len(Checks[r.credentials])

ReportTyped(p) ==
  p \in Reports /\ Len(p.run.results) = Len(Checks[p.run.credentials])

LEMMA TypeParts ==
  ASSUME TypeOK
  PROVE  /\ current \in Contexts /\ live \in [Contexts -> Clusters]
         /\ used \in [Consumers \X Models -> Nat]
         /\ run = None \/ RunTyped(run)
         /\ report = None \/ ReportTyped(report)
         /\ run # None => (At({"low limit"}) <=> AtLimit(run))
<1>1. run # None => (At({"low limit"}) <=> AtLimit(run))
  BY DEF At, Done, Check, AtLimit
<1>2. run = None \/ RunTyped(run)
  BY <1>1 DEF TypeOK, RunTyped
<1> QED BY <1>1, <1>2 DEF TypeOK, ReportTyped

LEMMA TypeFromParts ==
  ASSUME current' \in Contexts, live' \in [Contexts -> Clusters],
         used' \in [Consumers \X Models -> Nat],
         run' = None \/ RunTyped(run'),
         report' = None \/ ReportTyped(report')
  PROVE  TypeOK'
<1>1. run' # None => (At({"low limit"})' <=> AtLimit(run'))
  BY DEF At, Done, Check, AtLimit
<1>2. run' # None => run'.tries < IF At({"low limit"})' THEN RateAttempts ELSE Attempts
  BY <1>1 DEF RunTyped
<1>3. run' # None => Len(run'.results) <= Len(Checks[run'.credentials])
  BY DEF RunTyped
<1>4. run' \in Runs \cup {None} /\ report' \in Reports \cup {None}
  BY DEF RunTyped, ReportTyped
<1> QED BY <1>2, <1>3, <1>4 DEF TypeOK, ReportTyped

\* Nothing holds of a run that was disturbed but its type.
LEMMA Disturbed ==
  ASSUME IInv, Disturb
  PROVE  /\ run' = None \/ RunTyped(run')
         /\ RunHolds'
<1>1. CASE run = None
  BY <1>1 DEF Disturb, RunHolds
<1>2. CASE run # None
  <2>1. RunTyped(run) /\ run' = [run EXCEPT !.calm = FALSE]
    BY <1>2, TypeParts DEF IInv, Disturb
  <2>2. /\ run' \in Runs /\ run'.credentials = run.credentials
        /\ run'.results = run.results /\ run'.tries = run.tries /\ ~run'.calm
    BY <2>1 DEF RunTyped, Runs
  <2>3. RunTyped(run')
    BY <2>1, <2>2 DEF RunTyped, AtLimit
  <2>4. RunHolds'
    BY <2>2 DEF RunHolds, HeldSoFar
  <2> QED BY <2>3, <2>4
<1> QED BY <1>1, <1>2

\* Steps of the verification.
LEMMA StepKeeps ==
  ASSUME IInv, Step
  PROVE  IInv'
<1>1. /\ current' = current /\ live' = live /\ Gateway' = Gateway
      /\ used' \in [Consumers \X Models -> Nat] /\ run # None
      /\ TypeOK /\ RunTyped(run) /\ HeldSoFar(Gateway, run)
      /\ current \in Contexts /\ live \in [Contexts -> Clusters]
      /\ report = None \/ ReportTyped(report)
      /\ Attempts \in Nat /\ Attempts # 0
      /\ RateAttempts \in Nat /\ RateAttempts # 0
  BY StepForms, TypeParts, VerificationAssumption
     DEF IInv, Gateway, RunHolds, VerificationAssumption
<1>2. report' = report => ReportHolds'
  BY <1>1 DEF IInv, ReportHolds
<1>3. CASE ~Done /\ report' = report /\ \E passed \in BOOLEAN : Decides(passed)
  <2>1. PICK passed \in BOOLEAN : Decides(passed)
    BY <1>3
  <2> DEFINE more == Append(run.results, passed)
  <2>2. /\ run' \in Runs /\ run'.credentials = run.credentials
        /\ run'.tries = 0 /\ ~run'.seen
        /\ run'.calm => run.calm
    BY <1>1, <1>3, <2>1, ResultType DEF Decides
  <2>3. run'.results = more /\ Len(more) <= Len(Checks[run.credentials])
    BY <1>1, <1>3, <2>1, ResultType DEF Decides
  <2>4. RunTyped(run')
    BY <1>1, <2>2, <2>3 DEF RunTyped
  <2>5. /\ run.results \in Seq(BOOLEAN) /\ Len(run.results) \in Nat
    BY <1>1 DEF RunTyped, Runs
  <2>6. /\ DOMAIN more = 1..(Len(run.results) + 1)
        /\ \A i \in 1..Len(run.results) : more[i] = run.results[i]
        /\ more[Len(run.results) + 1] = passed
    BY <2>5, AppendProperties
  <2> HIDE DEF more
  <2>7. ASSUME run'.calm, NEW i \in DOMAIN more, more[i]
        PROVE  Held(Gateway, Checks[run.credentials][i])
    <3>1. CASE i \in 1..Len(run.results)
      BY <1>1, <2>2, <2>5, <2>6, <2>7, <3>1 DEF HeldSoFar
    <3>2. CASE i = Len(run.results) + 1
      <4>1. Held(Gateway, Check)
        BY <2>1, <2>6, <2>7, <3>2 DEF Decides
      <4> QED BY <3>2, <4>1 DEF Check
    <3> QED BY <2>5, <2>6, <3>1, <3>2
  <2>8. HeldSoFar(Gateway', run')
    BY <1>1, <2>2, <2>3, <2>7 DEF HeldSoFar
  <2>9. RunHolds'
    BY <2>2, <2>8 DEF RunHolds
  <2>10. TypeOK'
    BY <1>1, <1>3, <2>4, TypeFromParts
  <2> QED BY <1>2, <1>3, <2>9, <2>10 DEF IInv
<1>4. CASE ~Done /\ report' = report /\ GoesOn
  <2>1. /\ run' \in Runs /\ run'.credentials = run.credentials
        /\ run'.results = run.results /\ run'.calm = run.calm
        /\ run'.tries < Bound /\ (run'.calm /\ run'.seen => current = Target)
    BY <1>4 DEF GoesOn
  <2>2. Bound = IF AtLimit(run) THEN RateAttempts ELSE Attempts
    BY <1>1, TypeParts DEF Bound
  <2>3. RunTyped(run')
    BY <1>1, <2>1, <2>2 DEF RunTyped, AtLimit
  <2>4. RunHolds'
    BY <1>1, <2>1 DEF RunHolds, HeldSoFar
  <2>5. TypeOK'
    BY <1>1, <1>4, <2>3, TypeFromParts
  <2> QED BY <1>2, <1>4, <2>4, <2>5 DEF IInv
<1>5. CASE run' = None /\ report' = report
  <2>1. TypeOK'
    BY <1>1, <1>5, TypeFromParts
  <2> QED BY <1>2, <1>5, <2>1 DEF IInv, RunHolds
<1>6. CASE Finish
  <2> DEFINE passed == AllPassed(run.results)
  <2>1. passed \in BOOLEAN
    BY DEF AllPassed
  <2>2. /\ run' = None /\ report' = [passed |-> passed, run |-> run]
        /\ Len(run.results) = Len(Checks[run.credentials])
    BY <1>6 DEF Finish, Done
  <2>3. passed <=> AllPassed(run.results)
    OBVIOUS
  <2> HIDE DEF passed
  <2>4. ReportTyped(report')
    BY <1>1, <2>1, <2>2 DEF ReportTyped, Reports, RunTyped
  <2>5. TypeOK'
    BY <1>1, <2>2, <2>4, TypeFromParts
  <2>6. ReportHolds'
    BY <1>1, <2>2, <2>3 DEF ReportHolds
  <2> QED BY <2>2, <2>5, <2>6 DEF IInv, RunHolds
<1> QED BY <1>3, <1>4, <1>5, <1>6, StepForms

\* Steps of the surroundings, and the beginning of a verification.
LEMMA OthersKeep ==
  ASSUME IInv, Start \/ Interrupt \/ SwitchContext \/ Rollout \/ Traffic
               \/ MinuteEnds \/ UNCHANGED vars
  PROVE  IInv'
<1>1. /\ current \in Contexts /\ live \in [Contexts -> Clusters]
      /\ used \in [Consumers \X Models -> Nat]
      /\ run = None \/ RunTyped(run)
      /\ report = None \/ ReportTyped(report)
      /\ Target \in Contexts
      /\ Attempts \in Nat /\ Attempts # 0
      /\ RateAttempts \in Nat /\ RateAttempts # 0
  BY TypeParts, VerificationAssumption DEF IInv, VerificationAssumption
<1>2. report' = report /\ live' = live => ReportHolds'
  BY DEF IInv, ReportHolds, Gateway
<1>3. CASE Start
  <2>1. /\ UNCHANGED <<current, live, used>> /\ report' = None
        /\ \E credentials \in CredentialSets :
             run' = [credentials |-> credentials, results |-> <<>>,
                     seen |-> FALSE, tries |-> 0, stuck |-> FALSE, calm |-> TRUE,
                     fresh |-> /\ current = Target
                               /\ \A key \in DOMAIN used : used[key] = 0]
    BY <1>3 DEF Start
  <2> DEFINE fresh == /\ current = Target
                      /\ \A key \in DOMAIN used : used[key] = 0
  <2>2. fresh \in BOOLEAN
    OBVIOUS
  <2>3. PICK credentials \in CredentialSets :
          run' = [credentials |-> credentials, results |-> <<>>,
                  seen |-> FALSE, tries |-> 0, stuck |-> FALSE, calm |-> TRUE,
                  fresh |-> fresh]
    BY <2>1
  <2> HIDE DEF fresh
  <2>4. <<>> \in Seq(BOOLEAN) /\ Len(<<>>) = 0 /\ DOMAIN <<>> = {}
    OBVIOUS
  <2>5. /\ run' \in Runs /\ run'.results = <<>> /\ run'.tries = 0
        /\ run'.credentials = credentials /\ ~run'.seen
    BY <2>2, <2>3, <2>4 DEF Runs
  <2>6. Len(Checks[credentials]) \in Nat
    BY ChecksLength
  <2>7. RunTyped(run')
    BY <1>1, <2>4, <2>5, <2>6 DEF RunTyped
  <2>8. RunHolds'
    BY <2>4, <2>5 DEF RunHolds, HeldSoFar
  <2>9. TypeOK'
    BY <1>1, <2>1, <2>7, TypeFromParts
  <2> QED BY <2>1, <2>8, <2>9 DEF IInv, ReportHolds
<1>4. CASE SwitchContext
  <2>1. /\ current' \in Contexts /\ Disturb
        /\ UNCHANGED <<live, used, report>>
    BY <1>4 DEF SwitchContext
  <2>2. TypeOK'
    BY <1>1, <2>1, Disturbed, TypeFromParts
  <2> QED BY <1>2, <2>1, <2>2, Disturbed DEF IInv
<1>5. CASE Rollout
  <2>1. /\ Disturb /\ report' = None /\ UNCHANGED <<current, used>>
        /\ \E cluster \in Clusters : live' = [live EXCEPT ![Target] = cluster]
    BY <1>5 DEF Rollout
  <2>2. live' \in [Contexts -> Clusters]
    BY <1>1, <2>1
  <2>3. TypeOK'
    BY <1>1, <2>1, <2>2, Disturbed, TypeFromParts
  <2> QED BY <2>1, <2>3, Disturbed DEF IInv, ReportHolds
<1>6. CASE Traffic
  <2>1. /\ Disturb /\ UNCHANGED <<current, live, report>>
        /\ \E c \in Consumers, m \in Models : used' = Counted(c, m)
    BY <1>6 DEF Traffic
  <2>2. used' \in [Consumers \X Models -> Nat]
    <3>1. PICK c \in Consumers, m \in Models : used' = Counted(c, m)
      BY <2>1
    <3> QED BY <1>1, <3>1 DEF Counted
  <2>3. TypeOK'
    BY <1>1, <2>1, <2>2, Disturbed, TypeFromParts
  <2> QED BY <1>2, <2>1, <2>3, Disturbed DEF IInv
<1>7. CASE MinuteEnds
  <2>1. /\ Disturb /\ UNCHANGED <<current, live, report>>
        /\ used' = [key \in DOMAIN used |-> 0]
    BY <1>7 DEF MinuteEnds
  <2>2. used' \in [Consumers \X Models -> Nat]
    BY <1>1, <2>1
  <2>3. TypeOK'
    BY <1>1, <2>1, <2>2, Disturbed, TypeFromParts
  <2> QED BY <1>2, <2>1, <2>3, Disturbed DEF IInv
<1>8. CASE UNCHANGED vars
  <2>1. /\ UNCHANGED <<current, live, used, run, report>>
    BY <1>8 DEF vars
  <2>2. TypeOK'
    BY <1>1, <2>1, TypeFromParts
  <2>3. RunHolds'
    BY <2>1 DEF IInv, RunHolds, Gateway
  <2> QED BY <1>2, <2>1, <2>2, <2>3 DEF IInv
<1>9. CASE Interrupt
  <2>1. run' = None /\ UNCHANGED <<current, live, used, report>>
    BY <1>9 DEF Interrupt
  <2>2. TypeOK'
    BY <1>1, <2>1, TypeFromParts
  <2> QED BY <1>2, <2>1, <2>2 DEF IInv, RunHolds
<1> QED BY <1>3, <1>4, <1>5, <1>6, <1>7, <1>8, <1>9

LEMMA InitHolds == Init => IInv
<1> SUFFICES ASSUME Init PROVE IInv
  OBVIOUS
<1>1. /\ run = None /\ report = None /\ current \in Contexts
      /\ live \in [Contexts -> Clusters]
      /\ used \in [Consumers \X Models -> Nat]
  BY VerificationAssumption DEF Init, VerificationAssumption
<1> QED BY <1>1 DEF IInv, TypeOK, RunHolds, ReportHolds

LEMMA Inductive == Spec => []IInv
<1>1. IInv /\ [Next]_vars => IInv'
  BY StepKeeps, OthersKeep DEF Next
<1> QED BY <1>1, InitHolds, PTL DEF Spec

-----------------------------------------------------------------------------
(* The theorems.                                                            *)

\* The results are those of the list of checks, and the loops are bounded.
THEOREM TypeCorrect == Spec => []TypeOK
<1>1. IInv => TypeOK
  BY DEF IInv
<1> QED BY <1>1, Inductive, PTL

\* A report that passed, of a verification during which nothing moved, is true
\* of the expected cluster, for all models, consumers and credentials.
THEOREM TruePass == Spec => []PassedIsTrue
<1>1. ASSUME IInv PROVE PassedIsTrue
  <2> SUFFICES ASSUME report # None, report.passed, report.run.calm
               PROVE  Sound(report.run.credentials)
    BY DEF PassedIsTrue
  <2> DEFINE results == report.run.results
             credentials == report.run.credentials
             list == Checks[credentials]
  <2>1. /\ report \in Reports /\ Len(results) = Len(list)
        /\ credentials \in CredentialSets /\ results \in Seq(BOOLEAN)
        /\ AllPassed(results) /\ HeldSoFar(Gateway, report.run)
        /\ Gateway \in ClusterStates
    BY <1>1, TypeParts, VerificationAssumption
       DEF IInv, ReportTyped, Reports, Runs, ReportHolds, Gateway,
           VerificationAssumption
  <2>2. /\ list \in Seq(CheckSet(credentials))
        /\ Objects \cup Keyless \cup ProbeSet(credentials) \subseteq ToSet(list)
        /\ LimitChecked(credentials) => <<"low limit">> \in ToSet(list)
    BY <2>1, ChecksCover
  <2>3. ASSUME NEW check \in ToSet(list) PROVE Held(Gateway, check)
    <3>1. PICK i \in DOMAIN list : list[i] = check
      BY DEF ToSet
    <3>2. i \in DOMAIN results
      <4>1. DOMAIN list = 1..Len(list)
        BY <2>1, ChecksLength DEF list
      <4> QED BY <2>1, <3>1, <4>1
    <3>3. results[i]
      BY <2>1, <3>2 DEF AllPassed
    <3> QED BY <2>1, <3>1, <3>2, <3>3 DEF HeldSoFar
  <2> HIDE DEF list, results, credentials
  <2>4. Gateway.ready = Objects
    <3>1. Gateway.ready \subseteq Objects
      BY <2>1 DEF ClusterStates
    <3>2. ASSUME NEW object \in Objects PROVE object \in Gateway.ready
      <4>1. object[1] \in Polls
        BY DEF Objects, Polls
      <4> QED BY <2>2, <2>3, <4>1 DEF Held
    <3> QED BY <3>1, <3>2
  <2>5. ASSUME NEW m \in Models, ConsumerFor(m, TRUE) \in credentials
        PROVE  /\ m \in Gateway.grants[ConsumerFor(m, TRUE)]
               /\ Gateway.backend[m] # "down" /\ ~EmptyVector(m)
    <3>1. <<"allowed", m>> \in ToSet(list)
      BY <2>2, <2>5 DEF ProbeSet
    <3>2. Held(Gateway, <<"allowed", m>>)
      BY <2>3, <3>1
    <3> QED BY <3>2 DEF Held, EmptyVector
  <2>6. ASSUME NEW m \in Models, ConsumerFor(m, FALSE) \in credentials
        PROVE  m \notin Gateway.grants[ConsumerFor(m, FALSE)]
    <3>1. <<"denied", m>> \in ToSet(list)
      BY <2>2, <2>6 DEF ProbeSet
    <3>2. Held(Gateway, <<"denied", m>>)
      BY <2>3, <3>1
    <3> QED BY <3>2 DEF Held
  <2>7. ASSUME LimitChecked(credentials)
        PROVE  LowModel \in Gateway.grants[LowLimit]
    <3>1. Held(Gateway, <<"low limit">>)
      BY <2>2, <2>3, <2>7
    <3> QED BY <3>1 DEF Held
  <2>8. Gateway.shut = Uninvited
    <3>1. Gateway.shut \subseteq Uninvited
      BY <2>1 DEF ClusterStates
    <3>2. ASSUME NEW kind \in Uninvited PROVE kind \in Gateway.shut
      <4>1. <<kind>> \in Keyless /\ <<kind>>[1] = kind
        BY DEF Uninvited, Keyless
      <4>2. Held(Gateway, <<kind>>)
        BY <2>2, <2>3, <4>1
      <4> QED BY <4>1, <4>2 DEF Held
    <3> QED BY <3>1, <3>2
  <2> QED BY <2>4, <2>5, <2>6, <2>7, <2>8 DEF Sound, credentials
<1>2. IInv => PassedIsTrue
  BY <1>1
<1> QED BY <1>2, Inductive, PTL

-----------------------------------------------------------------------------
(* A verification that nothing disturbs passes if there is no reason why it  *)
(* should not.                                                              *)

\* There is no reason why it should fail.
Promising(credentials) ==
  /\ Sound(credentials) /\ LimitFits
  /\ \A budget \in Budgets : budget["error"] < Attempts

\* Requests were counted only for grants that are probed already.
CountedOnce ==
  \A c \in Consumers, m \in Models :
    used[<<c, m>>] > 0 =>
      \E i \in DOMAIN run.results :
        Checks[run.credentials][i] \in {<<"allowed", m>>, <<"low limit">>}

Succeeding ==
  /\ current = Target
  /\ AllPassed(run.results)
  /\ ~AtLimit(run) => run.tries + left["error"] < Attempts /\ CountedOnce
  /\ AtLimit(run) => run.tries = 0 \/ run.tries <= used[<<LowLimit, LowModel>>]

RunSucceeds ==
  run # None /\ run.calm /\ run.fresh /\ Promising(run.credentials) => Succeeding

ReportSucceeds ==
  ( /\ report # None /\ report.run.calm /\ report.run.fresh
    /\ Promising(report.run.credentials) ) => report.passed

LeftBounded ==
  /\ left \in [Events -> Nat]
  /\ \E budget \in Budgets : left["error"] <= budget["error"]

SInv == LeftBounded /\ RunSucceeds /\ ReportSucceeds

\* The budget only shrinks.
LEMMA SpendKeeps ==
  ASSUME LeftBounded, NEW event \in Events, Spend(event)
  PROVE  LeftBounded'
<1>1. /\ left \in [Events -> Nat] /\ left[event] > 0
      /\ left' = [left EXCEPT ![event] = @ - 1]
  BY DEF LeftBounded, Spend
<1>2. left[event] - 1 \in Nat
  BY <1>1
<1>3. left' \in [Events -> Nat]
  BY <1>1, <1>2
<1>4. left'["error"] <= left["error"]
  <2>1. "error" \in Events
    BY DEF Events
  <2>2. CASE event = "error"
    BY <1>1, <2>1, <2>2
  <2>3. CASE event # "error"
    BY <1>1, <2>1, <2>3
  <2> QED BY <2>2, <2>3
<1>5. PICK budget \in Budgets : left["error"] <= budget["error"]
  BY DEF LeftBounded
<1>6. left["error"] \in Nat /\ left'["error"] \in Nat /\ budget["error"] \in Nat
  BY <1>1, <1>3, VerificationAssumption DEF Events, VerificationAssumption
<1>7. left'["error"] <= budget["error"]
  BY <1>4, <1>5, <1>6
<1> QED BY <1>3, <1>7 DEF LeftBounded

\* A check is known by its kind.
LEMMA CheckKinds ==
  ASSUME NEW credentials, NEW check \in CheckSet(credentials)
  PROVE  /\ check[1] \in Polls => check \in Objects
         /\ check[1] = "low limit" =>
              check = <<"low limit">> /\ LimitChecked(credentials)
         /\ check[1] = "allowed" =>
              \E m \in Models : /\ check = <<"allowed", m>>
                                /\ ConsumerFor(m, TRUE) \in credentials
         /\ check[1] = "denied" =>
              \E m \in Models : /\ check = <<"denied", m>>
                                /\ ConsumerFor(m, FALSE) \in credentials
<1>1. \/ check \in Objects
      \/ check \in Keyless
      \/ check \in ProbeSet(credentials)
      \/ LimitChecked(credentials) /\ check = <<"low limit">>
  BY DEF CheckSet, Unlimited
<1>2. CASE check \in Objects
  <2>1. check[1] \in Polls
    BY <1>2 DEF Objects, Polls
  <2> QED BY <1>2, <2>1 DEF Polls
<1>3. CASE check \in Keyless
  <2>1. /\ <<"missing key">>[1] = "missing key"
        /\ <<"unknown key">>[1] = "unknown key"
        /\ <<"wrong host">>[1] = "wrong host"
    OBVIOUS
  <2>2. \/ check = <<"missing key">> \/ check = <<"unknown key">>
        \/ check = <<"wrong host">>
    BY <1>3 DEF Keyless
  <2>3. \/ check[1] = "missing key" \/ check[1] = "unknown key"
        \/ check[1] = "wrong host"
    BY <2>1, <2>2
  <2> QED BY <2>3 DEF Polls
<1>4. CASE check \in ProbeSet(credentials)
  <2>1. CASE \E m \in Models : /\ ConsumerFor(m, TRUE) \in credentials
                               /\ check = <<"allowed", m>>
    <3>1. check[1] = "allowed"
      BY <2>1
    <3> QED BY <2>1, <3>1 DEF Polls
  <2>2. CASE \E m \in Models : /\ ConsumerFor(m, FALSE) \in credentials
                               /\ check = <<"denied", m>>
    <3>1. check[1] = "denied"
      BY <2>2
    <3> QED BY <2>2, <3>1 DEF Polls
  <2> QED BY <1>4, <2>1, <2>2 DEF ProbeSet
<1>5. CASE LimitChecked(credentials) /\ check = <<"low limit">>
  <2>1. check[1] = "low limit"
    BY <1>5
  <2> QED BY <1>5, <2>1 DEF Polls
<1> QED BY <1>1, <1>2, <1>3, <1>4, <1>5

\* What the check at hand meets in a verification that should pass.
LEMMA Promised ==
  ASSUME IInv, SInv, run # None, ~Done, run.calm, run.fresh,
         Promising(run.credentials)
  PROVE  /\ Succeeding
         /\ Len(run.results) + 1 \in DOMAIN Checks[run.credentials]
         /\ AtLimit(run) <=> Check = <<"low limit">>
         /\ Check[1] = "low limit" => Check = <<"low limit">>
         /\ Check[1] \in Polls => Check \in Gateway.ready
         /\ Check[1] = "allowed" =>
              /\ Check = <<"allowed", Model>> /\ ~EmptyVector(Model)
              /\ Answer(ConsumerFor(Model, TRUE), Model) = 200
         /\ Check[1] = "denied" => Answer(ConsumerFor(Model, FALSE), Model) = 403
         /\ Check[1] \in Uninvited => Check[1] \in Gateway.shut
         /\ AtLimit(run) => /\ LowLimit \in Consumers /\ LowModel \in Models
                            /\ LowModel \in Gateway.grants[LowLimit]
<1> DEFINE credentials == run.credentials
           list == Checks[credentials]
           k == Len(run.results) + 1
<1>1. /\ RunTyped(run) /\ credentials \in CredentialSets
      /\ credentials \subseteq Consumers
      /\ run.results \in Seq(BOOLEAN)
      /\ used \in [Consumers \X Models -> Nat]
      /\ Len(run.results) \in Nat /\ DOMAIN run.results = 1..Len(run.results)
      /\ Gateway \in ClusterStates
  <2>1. RunTyped(run) /\ live \in [Contexts -> Clusters]
        /\ used \in [Consumers \X Models -> Nat]
    BY TypeParts DEF IInv
  <2>2. /\ CredentialSets \subseteq SUBSET Consumers
        /\ Clusters \subseteq ClusterStates /\ Target \in Contexts
    BY VerificationAssumption DEF VerificationAssumption
  <2>3. credentials \in CredentialSets /\ run.results \in Seq(BOOLEAN)
    BY <2>1 DEF RunTyped, Runs
  <2>4. Gateway \in ClusterStates
    BY <2>1, <2>2 DEF Gateway
  <2>5. credentials \subseteq Consumers
    BY <2>2, <2>3
  <2>6. Len(run.results) \in Nat /\ DOMAIN run.results = 1..Len(run.results)
    BY <2>3
  <2> QED BY <2>1, <2>3, <2>4, <2>5, <2>6
<1>2. /\ Len(list) \in Nat /\ DOMAIN list = 1..Len(list)
      /\ \A i \in DOMAIN list : list[i] \in CheckSet(credentials)
  BY <1>1, ChecksLength
<1>3. Len(run.results) < Len(list) /\ k \in DOMAIN list
  BY <1>1, <1>2 DEF RunTyped, Done
<1>4. Check = list[k] /\ Check \in CheckSet(credentials)
  BY <1>2, <1>3 DEF Check
<1>5. Succeeding
  BY DEF SInv, RunSucceeds
<1>6. Sound(credentials) /\ LimitFits
  BY DEF Promising
<1>7. Check[1] = "low limit" => Check = <<"low limit">> /\ LimitChecked(credentials)
  BY <1>4, CheckKinds
<1>8. AtLimit(run) <=> Check[1] = "low limit"
  <2>1. Len(run.results) # Len(list)
    BY <1>1, <1>2, <1>3
  <2> QED BY <1>4, <2>1 DEF AtLimit
<1>9. AtLimit(run) <=> Check = <<"low limit">>
  <2>1. <<"low limit">>[1] = "low limit"
    OBVIOUS
  <2> QED BY <1>7, <1>8, <2>1
<1>10. Check[1] \in Polls => Check \in Gateway.ready
  <2>1. Check[1] \in Polls => Check \in Objects
    BY <1>4, CheckKinds
  <2> QED BY <1>6, <2>1 DEF Sound
<1>11. ASSUME Check[1] = "allowed"
       PROVE  /\ Check = <<"allowed", Model>> /\ ~EmptyVector(Model)
              /\ Answer(ConsumerFor(Model, TRUE), Model) = 200
  <2>1. PICK m \in Models : /\ Check = <<"allowed", m>>
                            /\ ConsumerFor(m, TRUE) \in credentials
    BY <1>4, <1>11, CheckKinds
  <2>2. Model = m
    BY <2>1 DEF Model
  <2> DEFINE c == ConsumerFor(m, TRUE)
  <2>3. /\ m \in Gateway.grants[c] /\ Gateway.backend[m] # "down"
        /\ ~EmptyVector(m)
    BY <1>6, <2>1 DEF Sound
  <2>4. c \in Consumers /\ Gateway.limit[c] \in Nat /\ Gateway.limit[c] > 0
    BY <1>1, <1>6, <2>1 DEF LimitFits, ClusterStates
  <2>5. ~AtLimit(run)
    BY <1>8, <1>11
  <2> HIDE DEF c
  <2>6. used[<<c, m>>] \in Nat
    BY <1>1, <2>4
  <2>7. used[<<c, m>>] = 0
    <3>1. SUFFICES ASSUME used[<<c, m>>] > 0 PROVE FALSE
      BY <2>6
    <3>2. PICK i \in DOMAIN run.results :
            list[i] \in {<<"allowed", m>>, <<"low limit">>}
      BY <1>5, <2>4, <2>5, <3>1 DEF Succeeding, CountedOnce
    <3>3. i \in DOMAIN list /\ i # k /\ i # Len(list)
      <4>1. i \in 1..Len(run.results)
        BY <1>1
      <4> HIDE DEF list
      <4> QED BY <1>1, <1>2, <1>3, <4>1
    <3>4. /\ Once(<<"allowed", m>>, list)
          /\ \A j \in DOMAIN list : list[j] = <<"low limit">> => j = Len(list)
      BY <1>1, ChecksCover
    <3>5. list[i] # <<"allowed", m>>
      BY <1>3, <1>4, <2>1, <3>3, <3>4 DEF Once
    <3> QED BY <3>2, <3>3, <3>4, <3>5
  <2>8. ~Refuses(c, m)
    BY <2>4, <2>7 DEF Refuses
  <2>9. Answer(c, m) = 200
    BY <2>3, <2>4, <2>8 DEF Answer
  <2> QED BY <2>1, <2>2, <2>3, <2>9 DEF c
<1>12. ASSUME Check[1] = "denied"
       PROVE  Answer(ConsumerFor(Model, FALSE), Model) = 403
  <2>1. PICK m \in Models : /\ Check = <<"denied", m>>
                            /\ ConsumerFor(m, FALSE) \in credentials
    BY <1>4, <1>12, CheckKinds
  <2>2. Model = m
    BY <2>1 DEF Model
  <2> DEFINE c == ConsumerFor(m, FALSE)
  <2>3. c \in Consumers /\ m \notin Gateway.grants[c]
    BY <1>1, <1>6, <2>1 DEF Sound
  <2> HIDE DEF c
  <2>4. Answer(c, m) = 403
    BY <2>3 DEF Answer
  <2> QED BY <2>2, <2>4 DEF c
<1>13. AtLimit(run) => /\ LowLimit \in Consumers /\ LowModel \in Models
                       /\ LowModel \in Gateway.grants[LowLimit]
  <2> SUFFICES ASSUME AtLimit(run)
               PROVE  /\ LowLimit \in Consumers /\ LowModel \in Models
                      /\ LowModel \in Gateway.grants[LowLimit]
    OBVIOUS
  <2>1. LimitChecked(credentials)
    BY <1>7, <1>8
  <2>2. LowLimit \in Consumers /\ Granted[LowLimit] # {}
    BY <2>1 DEF LimitChecked
  <2>3. LowModel \in Granted[LowLimit] /\ Granted[LowLimit] \subseteq Models
    BY <2>2, VerificationAssumption DEF VerificationAssumption
  <2>4. LowModel \in Gateway.grants[LowLimit]
    BY <1>6, <2>1 DEF Sound
  <2> QED BY <2>2, <2>3, <2>4
<1>14. Check[1] \in Uninvited => Check[1] \in Gateway.shut
  BY <1>6 DEF Sound
<1> QED BY <1>3, <1>5, <1>7, <1>9, <1>10, <1>11, <1>12, <1>13, <1>14

\* Numbers.
LEMMA Below ==
  ASSUME NEW a \in Nat, NEW b \in Nat, NEW c \in Nat, a <= b, b < c
  PROVE  a < c
OBVIOUS

\* The check at hand passes; a request is counted for it, or none.
Passes ==
  /\ run' = Result(TRUE)
  /\ \A c \in Consumers, m \in Models :
       used'[<<c, m>>] > 0 => \/ used[<<c, m>>] > 0
                              \/ Check \in {<<"allowed", m>>, <<"low limit">>}

LEMMA PassKeeps ==
  ASSUME IInv, SInv, LeftBounded', run # None, ~Done, run.calm, run.fresh,
         Promising(run.credentials), Passes, current' = current
  PROVE  Succeeding'
<1> DEFINE list == Checks[run.credentials]
           k == Len(run.results) + 1
           more == Append(run.results, TRUE)
<1>1. /\ run'.results = more /\ run'.credentials = run.credentials
      /\ run'.tries = 0 /\ run.results \in Seq(BOOLEAN)
  BY ResultType, TRUE \in BOOLEAN DEF IInv, TypeOK, Runs, Passes
<1>2. /\ \A i \in DOMAIN run.results : i \in DOMAIN more /\ more[i] = run.results[i]
      /\ more[k] = TRUE /\ k \in DOMAIN more
      /\ \A i \in DOMAIN more : i = k \/ i \in DOMAIN run.results
  <2> DEFINE results == run.results
  <2>1. results \in Seq(BOOLEAN)
    BY <1>1
  <2> HIDE DEF results
  <2> DEFINE s == Append(results, TRUE)
             n == Len(results)
  <2>2. /\ n \in Nat /\ DOMAIN results = 1..n
        /\ DOMAIN s = 1..(n + 1)
        /\ \A i \in 1..n : s[i] = results[i]
        /\ s[n + 1] = TRUE
    BY <2>1, AppendProperties
  <2> HIDE DEF s, n
  <2>3. \A i \in 1..(n + 1) : i = n + 1 \/ i \in 1..n
    BY <2>2
  <2>4. n + 1 \in 1..(n + 1) /\ 1..n \subseteq 1..(n + 1)
    BY <2>2
  <2>5. s = more /\ n + 1 = k
    BY DEF s, n, results
  <2> HIDE DEF more, k
  <2> QED BY <2>2, <2>3, <2>4, <2>5 DEF results
<1>3. /\ Succeeding /\ list[k] = Check
      /\ AtLimit(run) <=> Check = <<"low limit">>
  BY Promised DEF Check
<1> HIDE DEF more, k, list
<1>4. AllPassed(run'.results)
  BY <1>1, <1>2, <1>3 DEF Succeeding, AllPassed
<1>5. ASSUME NEW c \in Consumers, NEW m \in Models, used'[<<c, m>>] > 0
      PROVE  \E i \in DOMAIN more : list[i] \in {<<"allowed", m>>, <<"low limit">>}
  <2>1. CASE Check \in {<<"allowed", m>>, <<"low limit">>}
    BY <1>2, <1>3, <2>1
  <2>2. CASE Check \notin {<<"allowed", m>>, <<"low limit">>}
    <3>1. used[<<c, m>>] > 0 /\ ~AtLimit(run)
      BY <1>3, <1>5, <2>2 DEF Passes
    <3>2. PICK i \in DOMAIN run.results :
            list[i] \in {<<"allowed", m>>, <<"low limit">>}
      BY <1>3, <3>1 DEF Succeeding, CountedOnce, list
    <3> QED BY <1>2, <3>2
  <2> QED BY <2>1, <2>2
<1>6. CountedOnce'
  BY <1>1, <1>5 DEF CountedOnce, list
<1>7. left'["error"] \in Nat /\ left'["error"] < Attempts
  <2>1. PICK budget \in Budgets : left'["error"] <= budget["error"]
    BY DEF LeftBounded
  <2> DEFINE l == left'["error"]
             b == budget["error"]
  <2>2. l <= b /\ b < Attempts
    BY <2>1 DEF Promising
  <2>3. l \in Nat /\ b \in Nat /\ Attempts \in Nat
    BY <2>1, VerificationAssumption
       DEF LeftBounded, Events, VerificationAssumption
  <2> HIDE DEF l, b
  <2>4. l < Attempts
    BY <2>2, <2>3, Below
  <2> QED BY <2>3, <2>4 DEF l
<1>8. run'.tries + left'["error"] < Attempts
  <2> DEFINE l == left'["error"]
             n == run'.tries
  <2>1. l \in Nat /\ l < Attempts /\ n = 0
    BY <1>1, <1>7
  <2> HIDE DEF l, n
  <2>2. n + l = l
    BY <2>1
  <2> QED BY <2>1, <2>2 DEF l, n
<1>9. current' = Target
  BY <1>3 DEF Succeeding
<1> QED BY <1>1, <1>4, <1>6, <1>8, <1>9 DEF Succeeding

\* The check at hand goes on; requests are counted for the limit only.
LEMMA GoOnKeeps ==
  ASSUME SInv, Succeeding, run'.results = run.results,
         run'.credentials = run.credentials, current' = current,
         ~AtLimit(run) =>
           /\ run'.tries + left'["error"] < Attempts
           /\ used' = used,
         AtLimit(run) => run'.tries <= used'[<<LowLimit, LowModel>>]
  PROVE  Succeeding'
<1>1. AtLimit(run') <=> AtLimit(run)
  BY DEF AtLimit
<1>2. AtLimit(run)' <=> AtLimit(run)
  BY DEF AtLimit
<1>3. ~AtLimit(run) => CountedOnce'
  BY DEF Succeeding, CountedOnce
<1> QED BY <1>2, <1>3 DEF Succeeding

\* Every step spends from the budget, or leaves it.
LEMMA BudgetKept ==
  ASSUME LeftBounded, [Next]_vars
  PROVE  LeftBounded'
<1>1. left' = left \/ \E event \in Events : Spend(event)
  <2>1. /\ "run" \in Events /\ "error" \in Events /\ "garbled" \in Events
        /\ "timeout" \in Events /\ "switch" \in Events /\ "rollout" \in Events
        /\ "traffic" \in Events /\ "minute" \in Events /\ "unread" \in Events
        /\ "hang" \in Events /\ "interrupt" \in Events
    BY DEF Events
  <2>2. CASE UNCHANGED vars
    BY <2>2 DEF vars
  <2>3. CASE Start \/ Interrupt \/ SwitchContext \/ Rollout \/ Traffic
             \/ MinuteEnds
    BY <2>1, <2>3
       DEF Start, Interrupt, SwitchContext, Rollout, Traffic, MinuteEnds
  <2>4. CASE ProbeAllowed \/ ProbeDenied \/ ProbeClosed \/ ProbeLimit \/ Finish
    BY <2>4 DEF ProbeAllowed, ProbeDenied, ProbeClosed, ProbeLimit, Finish
  <2>5. CASE VerifyContext \/ Poll \/ Hang
    BY <2>1, <2>5 DEF VerifyContext, Poll, Hang
  <2>6. CASE LoseProbe
    BY <2>1, <2>6 DEF LoseProbe
  <2> QED BY <2>2, <2>3, <2>4, <2>5, <2>6 DEF Next, Step
<1>2. CASE left' = left
  BY <1>2 DEF LeftBounded
<1> QED BY <1>1, <1>2, SpendKeeps

\* A step of a verification that is still undisturbed found it so.
LEMMA StepFound ==
  ASSUME IInv, Step, run' # None, run'.calm, run'.fresh,
         Promising(run.credentials)'
  PROVE  /\ run # None /\ ~Done /\ run.calm /\ run.fresh
         /\ Promising(run.credentials)
         /\ current' = current /\ report' = report
<1>1. /\ UNCHANGED <<current, live>> /\ run # None /\ TypeOK
      /\ \/ ~Done /\ report' = report /\ \E passed \in BOOLEAN : Decides(passed)
         \/ ~Done /\ report' = report /\ GoesOn
  BY StepForms DEF IInv, Finish
<1>2. run.calm /\ run.fresh /\ run'.credentials = run.credentials
  <2>1. CASE ~Done /\ \E passed \in BOOLEAN : Decides(passed)
    <3>1. PICK passed \in BOOLEAN : Decides(passed)
      BY <2>1
    <3> QED BY <1>1, <2>1, <3>1, ResultType DEF Decides
  <2>2. CASE GoesOn
    BY <2>2 DEF GoesOn
  <2> QED BY <1>1, <2>1, <2>2
<1>3. Promising(run.credentials)
  BY <1>1, <1>2 DEF Promising, Sound, LimitFits, EmptyVector, Gateway
<1> QED BY <1>1, <1>2, <1>3

\* A request that is let through is counted; it is the only one.
LEMMA CountedFew ==
  ASSUME used \in [Consumers \X Models -> Nat],
         NEW c, NEW m, used' = Counted(c, m)
  PROVE  /\ \A d \in Consumers, n \in Models :
              used'[<<d, n>>] > 0 => used[<<d, n>>] > 0 \/ <<d, n>> = <<c, m>>
         /\ Answer(c, m) \notin {200, 503} => used' = used
<1> DEFINE key == <<c, m>>
<1>1. used' = used \/ used' = [used EXCEPT ![key] = @ + 1]
  BY DEF Counted
<1>2. Answer(c, m) \notin {200, 503} => used' = used
  BY DEF Counted
<1>3. ASSUME NEW d \in Consumers, NEW n \in Models, <<d, n>> # key
      PROVE  used'[<<d, n>>] = used[<<d, n>>]
  <2> DEFINE other == <<d, n>>
  <2>1. other \in Consumers \X Models /\ other # key
    BY <1>3
  <2> HIDE DEF key, other
  <2>2. used'[other] = used[other]
    BY <1>1, <2>1
  <2> QED BY <2>2 DEF other
<1> QED BY <1>2, <1>3

\* A step of a verification that should pass leaves it one that does.
LEMMA StepSucceeds ==
  ASSUME IInv, SInv, LeftBounded', Step, run' # None, run'.calm, run'.fresh,
         Promising(run.credentials)'
  PROVE  Succeeding'
<1>1. /\ run # None /\ ~Done /\ run.calm /\ run.fresh
      /\ Promising(run.credentials) /\ current' = current
  BY StepFound
<1>2. /\ Succeeding
      /\ AtLimit(run) <=> Check = <<"low limit">>
      /\ Check[1] = "low limit" => Check = <<"low limit">>
      /\ Check[1] \in Polls => Check \in Gateway.ready
      /\ Check[1] = "allowed" =>
           /\ Check = <<"allowed", Model>> /\ ~EmptyVector(Model)
           /\ Answer(ConsumerFor(Model, TRUE), Model) = 200
      /\ Check[1] = "denied" => Answer(ConsumerFor(Model, FALSE), Model) = 403
      /\ Check[1] \in Uninvited => Check[1] \in Gateway.shut
      /\ AtLimit(run) => /\ LowLimit \in Consumers /\ LowModel \in Models
                         /\ LowModel \in Gateway.grants[LowLimit]
  BY <1>1, Promised
<1>3. /\ run \in Runs /\ run.tries \in Nat
      /\ used \in [Consumers \X Models -> Nat]
      /\ Gateway \in ClusterStates /\ LimitFits
      /\ left \in [Events -> Nat] /\ "error" \in Events
      /\ Attempts \in Nat /\ RateAttempts \in Nat
  <2>1. Gateway \in ClusterStates
    BY VerificationAssumption
       DEF IInv, TypeOK, Gateway, VerificationAssumption
  <2> QED BY <1>1, <2>1, VerificationAssumption
          DEF IInv, SInv, LeftBounded, TypeOK, Runs, Promising, Events,
              VerificationAssumption
<1>4. AtLimit(run) => Check[1] = "low limit"
  <2>1. <<"low limit">>[1] = "low limit"
    OBVIOUS
  <2> QED BY <1>2, <2>1
<1>5. current = Target /\ live[current] = Gateway
  BY <1>2 DEF Succeeding, Gateway
<1>6. ASSUME run' = Result(TRUE), used' = used
      PROVE  Succeeding'
  <2>1. Passes
    BY <1>6 DEF Passes
  <2> QED BY <1>1, <2>1, PassKeeps
<1>0. run' # Fault
  <2>1. FALSE \in BOOLEAN /\ TypeOK
    BY DEF IInv
  <2>2. Result(FALSE) \in Runs
    BY <1>1, <2>1, ResultType
  <2>3. ~Fault.calm
    BY <2>2 DEF Fault, Runs
  <2> QED BY <2>3
<1>7. CASE VerifyContext
  <2>1. At(Polls) /\ UNCHANGED <<used, left>> /\ run' = [run EXCEPT !.seen = TRUE]
    BY <1>0, <1>5, <1>7 DEF VerifyContext
  <2>2. /\ run'.results = run.results /\ run'.tries = run.tries
        /\ run'.credentials = run.credentials
    BY <1>3, <2>1 DEF Runs
  <2>3. ~AtLimit(run)
    BY <1>4, <2>1 DEF At, Polls
  <2> QED BY <1>1, <1>2, <2>1, <2>2, <2>3, GoOnKeeps DEF Succeeding
<1>8. CASE Poll
  <2>1. At(Polls) /\ used' = used /\ Check \in live[current].ready
    BY <1>2, <1>5, <1>8 DEF Poll, At
  <2>2. ~AtLimit(run)
    BY <1>4, <2>1 DEF At, Polls
  <2>3. CASE run' = Result(TRUE)
    BY <1>6, <2>1, <2>3
  <2>4. CASE Spend("error") /\ Again
    <3> DEFINE l == left["error"]
               n == run.tries
    <3>1. /\ l > 0 /\ left'["error"] = l - 1
      BY <1>3, <2>4 DEF Spend
    <3>2. l \in Nat /\ n \in Nat /\ n + l < Attempts /\ Attempts \in Nat
      <4>1. n + l < Attempts
        BY <1>2, <2>2 DEF Succeeding
      <4>2. l \in Nat /\ n \in Nat /\ Attempts \in Nat
        BY <1>3
      <4> QED BY <4>1, <4>2
    <3>3. run' = IF n + 1 >= Attempts THEN Result(FALSE)
                 ELSE [run EXCEPT !.tries = n + 1, !.seen = FALSE]
      BY <2>4 DEF Again
    <3> HIDE DEF l, n
    <3>4. ~(n + 1 >= Attempts) /\ (n + 1) + (l - 1) < Attempts
      BY <3>1, <3>2
    <3>5. run' = [run EXCEPT !.tries = n + 1, !.seen = FALSE]
      BY <3>3, <3>4
    <3>6. /\ run'.results = run.results /\ run'.tries = n + 1
          /\ run'.credentials = run.credentials
      BY <1>3, <3>5 DEF Runs
    <3>7. run'.tries + left'["error"] < Attempts
      BY <3>1, <3>4, <3>6
    <3> QED BY <1>1, <1>2, <2>1, <2>2, <3>6, <3>7, GoOnKeeps
  <2> QED BY <1>0, <1>8, <2>1, <2>3, <2>4 DEF Poll
<1>9. CASE ProbeAllowed
  <2> DEFINE c == ConsumerFor(Model, TRUE)
             passed == Allowed(Answer(c, Model)) /\ ~EmptyVector(Model)
  <2>1. Check[1] = "allowed" /\ run' = Result(passed) /\ used' = Counted(c, Model)
    BY <1>9 DEF ProbeAllowed, At
  <2>2. passed /\ Check = <<"allowed", Model>>
    BY <1>2, <2>1 DEF Allowed
  <2>3. run' = Result(TRUE)
    <3>1. passed = TRUE
      BY <2>2
    <3> HIDE DEF passed
    <3> QED BY <2>1, <3>1
  <2> HIDE DEF passed, c
  <2>4. ASSUME NEW d \in Consumers, NEW n \in Models, used'[<<d, n>>] > 0
        PROVE  used[<<d, n>>] > 0 \/ Check = <<"allowed", n>>
    <3>1. used[<<d, n>>] > 0 \/ <<d, n>> = <<c, Model>>
      BY <1>3, <2>1, <2>4, CountedFew
    <3> QED BY <2>2, <3>1
  <2>5. Passes
    BY <2>3, <2>4 DEF Passes
  <2> QED BY <1>1, <2>5, PassKeeps
<1>10. CASE ProbeDenied
  <2> DEFINE c == ConsumerFor(Model, FALSE)
             passed == Denied(Answer(c, Model))
  <2>1. Check[1] = "denied" /\ run' = Result(passed) /\ used' = Counted(c, Model)
    BY <1>10 DEF ProbeDenied, At
  <2>2. Answer(c, Model) = 403
    BY <1>2, <2>1
  <2>3. run' = Result(TRUE)
    <3>1. passed = TRUE
      BY <2>2 DEF Denied
    <3> HIDE DEF passed
    <3> QED BY <2>1, <3>1
  <2> HIDE DEF passed, c
  <2>4. used' = used
    BY <1>3, <2>1, <2>2, CountedFew
  <2> QED BY <1>6, <2>3, <2>4
<1>11. CASE ProbeClosed
  <2> DEFINE passed == Check[1] \in Gateway.shut
  <2>1. run' = Result(passed) /\ used' = used /\ Check[1] \in Uninvited
    BY <1>11 DEF ProbeClosed, At
  <2>2. run' = Result(TRUE)
    <3>1. passed = TRUE
      BY <1>2, <2>1
    <3> HIDE DEF passed
    <3> QED BY <2>1, <3>1
  <2> QED BY <1>6, <2>1, <2>2
<1>12. CASE ProbeLimit
  <2> DEFINE key == <<LowLimit, LowModel>>
             limit == Gateway.limit[LowLimit]
             n == run.tries
             u == used[key]
  <2>1. /\ AtLimit(run) /\ Check = <<"low limit">>
        /\ used' = Counted(LowLimit, LowModel)
        /\ run' = IF Limited THEN Result(TRUE)
                  ELSE IF n + 1 >= RateAttempts THEN Result(FALSE)
                  ELSE [run EXCEPT !.tries = n + 1]
    BY <1>2, <1>12 DEF ProbeLimit, At
  <2>2. CASE Limited
    <3>1. run' = Result(TRUE)
      BY <2>1, <2>2
    <3>2. Passes
      BY <2>1, <3>1 DEF Passes
    <3> QED BY <1>1, <3>2, PassKeeps
  <2>3. CASE ~Limited
    <3>1. /\ LowLimit \in Consumers /\ LowModel \in Models
          /\ LowModel \in Gateway.grants[LowLimit]
      BY <1>2, <2>1
    <3>2. ~Refuses(LowLimit, LowModel)
      BY <2>3, <3>1 DEF Limited, Answer
    <3>3. Answer(LowLimit, LowModel) \in {200, 503}
      BY <3>1, <3>2 DEF Answer
    <3>4. key \in Consumers \X Models /\ u \in Nat /\ limit \in Nat
      BY <1>3, <3>1 DEF ClusterStates
    <3>5. used'[key] = u + 1
      <4>1. used' = [used EXCEPT ![key] = @ + 1]
        BY <2>1, <3>3 DEF Counted
      <4> QED BY <1>3, <3>4, <4>1
    <3>6. limit < RateAttempts /\ limit > 0
      BY <1>3, <3>1 DEF LimitFits
    <3>7. ~(u >= limit)
      BY <3>2 DEF Refuses
    <3>8. n = 0 \/ n <= u
      BY <1>2, <2>1 DEF Succeeding
    <3>9. n \in Nat /\ RateAttempts \in Nat
      BY <1>3
    <3> HIDE DEF n, u, limit, key
    <3>10. n + 1 <= u + 1 /\ ~(n + 1 >= RateAttempts)
      BY <3>4, <3>6, <3>7, <3>8, <3>9
    <3>11. run' = [run EXCEPT !.tries = n + 1]
      BY <2>1, <2>3, <3>10
    <3>12. /\ run'.results = run.results /\ run'.tries = n + 1
           /\ run'.credentials = run.credentials
      BY <1>3, <3>11 DEF Runs
    <3>13. run'.tries <= used'[key]
      BY <3>5, <3>10, <3>12
    <3> QED BY <1>1, <1>2, <2>1, <3>12, <3>13, GoOnKeeps DEF key
  <2> QED BY <2>2, <2>3
<1>13. CASE LoseProbe
  <2>1. run' = Fault \/ run' = None
    BY <1>13 DEF LoseProbe
  <2>2. run' # None
    OBVIOUS
  <2> QED BY <1>0, <2>1, <2>2
<1>14. CASE Finish
  BY <1>1, <1>14 DEF Finish
<1>15. CASE Hang
  <2>1. used' = used /\ run' = [run EXCEPT !.stuck = TRUE] /\ Spend("hang")
    BY <1>15 DEF Hang
  <2>2. /\ run'.results = run.results /\ run'.tries = run.tries
        /\ run'.credentials = run.credentials
    BY <1>3, <2>1 DEF Runs
  <2>3. left'["error"] = left["error"]
    BY <1>3, <2>1 DEF Spend
  <2>4. ASSUME AtLimit(run)
        PROVE  run.tries <= used'[<<LowLimit, LowModel>>]
    <3> DEFINE key == <<LowLimit, LowModel>>
               u == used[key]
               n == run.tries
    <3>1. key \in Consumers \X Models /\ n \in Nat
      BY <1>2, <1>3, <2>4
    <3>2. n = 0 \/ n <= u
      BY <1>2, <2>4 DEF Succeeding
    <3> HIDE DEF key, n
    <3>3. u \in Nat
      BY <1>3, <3>1
    <3> HIDE DEF u
    <3>4. n <= u
      BY <3>1, <3>2, <3>3
    <3> QED BY <2>1, <3>4 DEF u, n, key
  <2> QED BY <1>1, <1>2, <2>1, <2>2, <2>3, <2>4, GoOnKeeps DEF Succeeding
<1> QED BY <1>7, <1>8, <1>9, <1>10, <1>11, <1>12, <1>13, <1>14, <1>15 DEF Step

\* A verification that begins undisturbed has counted and tried nothing.
LEMMA StartSucceeds ==
  ASSUME IInv, LeftBounded', Start
  PROVE  RunSucceeds'
<1>1. SUFFICES ASSUME run' # None, run'.fresh, Promising(run.credentials)'
               PROVE  Succeeding'
  BY DEF RunSucceeds
<1> DEFINE fresh == /\ current = Target
                    /\ \A key \in DOMAIN used : used[key] = 0
<1>2. /\ UNCHANGED <<current, live, used>>
      /\ \E credentials \in CredentialSets :
           run' = [credentials |-> credentials, results |-> <<>>,
                   seen |-> FALSE, tries |-> 0, stuck |-> FALSE, calm |-> TRUE,
                   fresh |-> fresh]
  BY DEF Start
<1>3. run'.results = <<>> /\ run'.tries = 0 /\ fresh
  BY <1>1, <1>2
<1>4. AllPassed(run'.results)
  BY <1>3 DEF AllPassed
<1>5. CountedOnce'
  <2>1. ASSUME NEW c \in Consumers, NEW m \in Models
        PROVE  used'[<<c, m>>] = 0
    <3>1. used \in [Consumers \X Models -> Nat]
      BY DEF IInv, TypeOK
    <3>2. <<c, m>> \in DOMAIN used
      BY <3>1
    <3> QED BY <1>2, <1>3, <3>2
  <2>2. ASSUME NEW c \in Consumers, NEW m \in Models
        PROVE  ~(used'[<<c, m>>] > 0)
    BY <2>1
  <2> QED BY <2>2 DEF CountedOnce
<1>6. left'["error"] \in Nat /\ left'["error"] < Attempts
  <2>1. PICK budget \in Budgets : left'["error"] <= budget["error"]
    BY DEF LeftBounded
  <2> DEFINE l == left'["error"]
             b == budget["error"]
  <2>2. l <= b /\ b < Attempts
    BY <1>1, <2>1 DEF Promising
  <2>3. l \in Nat /\ b \in Nat /\ Attempts \in Nat
    BY <2>1, VerificationAssumption
       DEF LeftBounded, Events, VerificationAssumption
  <2> HIDE DEF l, b
  <2>4. l < Attempts
    BY <2>2, <2>3, Below
  <2> QED BY <2>3, <2>4 DEF l
<1>7. run'.tries + left'["error"] < Attempts
  BY <1>3, <1>6
<1>8. current' = Target
  BY <1>2, <1>3
<1> QED BY <1>3, <1>4, <1>5, <1>7, <1>8 DEF Succeeding

\* What the surroundings do is no longer about an undisturbed verification.
LEMMA DisturbedSucceeds ==
  ASSUME IInv, Disturb
  PROVE  RunSucceeds'
<1>1. run' # None => ~run'.calm
  <2>1. CASE run = None
    BY <2>1 DEF Disturb
  <2>2. CASE run # None
    <3>1. run \in Runs /\ run' = [run EXCEPT !.calm = FALSE]
      BY <2>2 DEF IInv, TypeOK, Disturb
    <3> QED BY <3>1 DEF Runs
  <2> QED BY <2>1, <2>2
<1> QED BY <1>1 DEF RunSucceeds

LEMMA SuccessKept ==
  ASSUME IInv, SInv, [Next]_vars
  PROVE  SInv'
<1>1. LeftBounded'
  BY BudgetKept DEF SInv
<1>2. ASSUME report' = report, live' = live
      PROVE  ReportSucceeds'
  <2>1. Promising(report.run.credentials)' => Promising(report.run.credentials)
    BY <1>2 DEF Promising, Sound, LimitFits, EmptyVector, Gateway
  <2> QED BY <1>2, <2>1 DEF SInv, ReportSucceeds
<1>3. ASSUME report' = None
      PROVE  ReportSucceeds'
  BY <1>3 DEF ReportSucceeds
<1>4. CASE Step
  <2>1. UNCHANGED <<current, live>>
    BY <1>4, StepForms
  <2>2. RunSucceeds'
    BY <1>1, <1>4, StepSucceeds DEF RunSucceeds
  <2>3. CASE Finish
    <3>1. /\ run # None /\ report' = [passed |-> AllPassed(run.results), run |-> run]
      BY <2>3 DEF Finish
    <3>2. report'.run = run /\ (report'.passed <=> AllPassed(run.results))
      BY <3>1
    <3>3. ASSUME run.calm, run.fresh, Promising(report.run.credentials)'
          PROVE  AllPassed(run.results)
      <4>1. Promising(run.credentials)
        BY <2>1, <3>2, <3>3 DEF Promising, Sound, LimitFits, EmptyVector, Gateway
      <4> QED BY <3>1, <3>3, <4>1 DEF SInv, RunSucceeds, Succeeding
    <3>4. ReportSucceeds'
      BY <3>2, <3>3 DEF ReportSucceeds
    <3> QED BY <1>1, <2>2, <3>4 DEF SInv
  <2>4. CASE ~Finish
    <3>1. report' = report
      BY <1>4, <2>4, StepForms
    <3> QED BY <1>1, <1>2, <2>1, <2>2, <3>1 DEF SInv
  <2> QED BY <1>1, <2>2, <2>3, <2>4 DEF SInv
<1>5. CASE Start
  <2>1. report' = None
    BY <1>5 DEF Start
  <2> QED BY <1>1, <1>3, <1>5, <2>1, StartSucceeds DEF SInv
<1>6. CASE Rollout
  <2>1. report' = None /\ Disturb
    BY <1>6 DEF Rollout
  <2> QED BY <1>1, <1>3, <2>1, DisturbedSucceeds DEF SInv
<1>7. CASE SwitchContext \/ Traffic \/ MinuteEnds
  <2>1. report' = report /\ live' = live /\ Disturb
    BY <1>7 DEF SwitchContext, Traffic, MinuteEnds
  <2> QED BY <1>1, <1>2, <2>1, DisturbedSucceeds DEF SInv
<1>9. CASE Interrupt
  <2>1. report' = report /\ live' = live /\ run' = None
    BY <1>9 DEF Interrupt
  <2> QED BY <1>1, <1>2, <2>1 DEF SInv, RunSucceeds
<1>8. CASE UNCHANGED vars
  <2>1. /\ run' = run /\ report' = report /\ live' = live /\ used' = used
        /\ left' = left /\ current' = current
    BY <1>8 DEF vars
  <2>2. Promising(run.credentials)' => Promising(run.credentials)
    BY <2>1 DEF Promising, Sound, LimitFits, EmptyVector, Gateway
  <2>3. AtLimit(run)' <=> AtLimit(run)
    BY <2>1 DEF AtLimit
  <2>4. Succeeding => Succeeding'
    BY <2>1, <2>3 DEF Succeeding, CountedOnce, AllPassed
  <2>5. RunSucceeds'
    BY <2>1, <2>2, <2>4 DEF SInv, RunSucceeds
  <2> QED BY <1>1, <1>2, <2>1, <2>5 DEF SInv
<1> QED BY <1>4, <1>5, <1>6, <1>7, <1>8, <1>9 DEF Next

\* A report that failed, of an undisturbed verification that began in the
\* expected context and with no request counted, has a reason in the cluster,
\* for every budget of errors that stays below the attempts of a poll.
THEOREM FailsWithReason == Spec => []FailureHasReason
<1>1. Init => SInv
  <2> SUFFICES ASSUME Init PROVE SInv
    OBVIOUS
  <2>1. run = None /\ report = None /\ left \in Budgets
    BY DEF Init
  <2>2. left \in [Events -> Nat] /\ left["error"] \in Nat
    BY <2>1, VerificationAssumption DEF VerificationAssumption, Events
  <2>3. left["error"] <= left["error"]
    BY <2>2
  <2>4. LeftBounded
    BY <2>1, <2>2, <2>3 DEF LeftBounded
  <2> QED BY <2>1, <2>4 DEF SInv, RunSucceeds, ReportSucceeds
<1>2. IInv /\ SInv /\ [Next]_vars => SInv'
  BY SuccessKept
<1>3. SInv => FailureHasReason
  <2>1. Promising(report.run.credentials)
          <=> /\ Sound(report.run.credentials) /\ LimitFits
              /\ \A budget \in Budgets : budget["error"] < Attempts
    BY DEF Promising
  <2> QED BY <2>1 DEF SInv, ReportSucceeds, FailureHasReason
<1> QED BY <1>1, <1>2, <1>3, Inductive, PTL DEF Spec
=============================================================================
