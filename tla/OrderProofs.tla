----------------------------- MODULE OrderProofs -----------------------------
(***************************************************************************)
(* Proof that the calls on a Composition do what they are asked to in that *)
(* order.  Where a call goes is a recursive function of the composition;   *)
(* what a call still owes its client, step by step, is what the call at    *)
(* hand owes and, frame by frame, what is left to do when it returns.      *)
(*                                                                         *)
(* And proof that the composition is one store: where a call goes does not *)
(* change on its way, and the hooks an answer has yet to pass make the     *)
(* payload of it that was put.                                             *)
(***************************************************************************)
EXTENDS CompositionProofs, WellFoundedInduction

----------------------------------------------------------------------------
(* Induction over natural numbers without operator parameters.             *)

LEMMA NatOrder ==
    \E R : IsWellFoundedOn(R, Nat) /\ \A x, y \in Nat : x < y => <<x, y>> \in R
<1>1. \A x, y \in Nat : x < y => <<x, y>> \in OpToRel(<, Nat)
  BY DEF OpToRel
<1> QED BY <1>1, NatLessThanWellFounded, Zenon

LEMMA HasLeast ==
    ASSUME NEW T \in SUBSET Nat, T # {}
    PROVE  \E m \in T : \A n \in T : m <= n
<1>1. PICK R : IsWellFoundedOn(R, Nat) /\ \A x, y \in Nat : x < y => <<x, y>> \in R
  BY NatOrder
<1>2. \E m \in T : \A n \in T : ~(<<n, m>> \in R)
  <2>1. T \subseteq Nat
    OBVIOUS
  <2>2. IsWellFoundedOn(R, Nat)
    BY <1>1
  <2> QED BY <2>1, <2>2, WFMin, ZenonT(30)
<1>3. PICK m \in T : \A n \in T : ~(<<n, m>> \in R)
  BY <1>2
<1>4. ASSUME NEW n \in T PROVE m <= n
  <2>1. ~(n < m)
    BY <1>1, <1>3, Zenon
  <2> QED BY <2>1
<1> QED BY <1>4

LEMMA UpTo ==
    ASSUME NEW N \in Nat, NEW S, 0 \in S, \A n \in 0..(N - 1) : n \in S => n + 1 \in S
    PROVE  \A n \in 0..N : n \in S
<1> DEFINE T == {n \in 0..N : n \notin S}
<1> SUFFICES ASSUME T # {} PROVE FALSE
  OBVIOUS
<1>1. T \in SUBSET Nat
  OBVIOUS
<1>2. PICK m \in T : \A n \in T : m <= n
  BY <1>1, HasLeast
<1>3. m \in 0..N /\ m \notin S /\ m # 0
  BY <1>2
<1>4. m - 1 \in 0..(N - 1) /\ (m - 1) + 1 = m /\ ~(m <= m - 1) /\ m - 1 \in 0..N
  BY <1>3
<1>5. m - 1 \in S
  BY <1>2, <1>4
<1> QED BY <1>3, <1>4, <1>5

----------------------------------------------------------------------------
(* FlattenSeq, one sequence after the other.                               *)

IsFlat(s, n, f) == f = [i \in 1..n |-> IF i = 1 THEN s[i] ELSE f[i - 1] \o s[i]]

LEMMA FlatExists ==
    ASSUME NEW s, NEW n \in Nat
    PROVE  \E f : IsFlat(s, n, f)
<1> DEFINE S == {m \in 0..n : \E f : IsFlat(s, m, f)}
<1>1. 0 \in S
  <2>1. IsFlat(s, 0, [i \in 1..0 |-> <<>>])
    <3>1. 1..0 = {}
      OBVIOUS
    <3> QED BY <3>1 DEF IsFlat
  <2> QED BY <2>1
<1>2. ASSUME NEW m \in 0..(n - 1), m \in S PROVE m + 1 \in S
  <2>1. PICK f : IsFlat(s, m, f)
    BY <1>2
  <2> DEFINE g == [i \in 1..(m + 1) |->
                     IF i = m + 1 THEN (IF i = 1 THEN s[i] ELSE f[i - 1] \o s[i]) ELSE f[i]]
  <2>2. ASSUME NEW i \in 1..(m + 1)
        PROVE  g[i] = IF i = 1 THEN s[i] ELSE g[i - 1] \o s[i]
    <3>1. CASE i = m + 1
      <4>1. CASE i = 1
        BY <3>1, <4>1
      <4>2. CASE i # 1
        <5>1. i - 1 \in 1..(m + 1) /\ i - 1 # m + 1
          BY <3>1, <4>2
        <5>2. g[i - 1] = f[i - 1]
          BY <5>1
        <5> QED BY <3>1, <4>2, <5>2
      <4> QED BY <4>1, <4>2
    <3>2. CASE i # m + 1
      <4>1. i \in 1..m /\ g[i] = f[i]
        BY <3>2
      <4>2. f[i] = IF i = 1 THEN s[i] ELSE f[i - 1] \o s[i]
        BY <2>1, <4>1 DEF IsFlat
      <4>3. CASE i = 1
        BY <4>1, <4>2, <4>3
      <4>4. CASE i # 1
        <5>1. i - 1 \in 1..(m + 1) /\ i - 1 # m + 1
          BY <4>1, <4>4
        <5>2. g[i - 1] = f[i - 1]
          BY <5>1
        <5> QED BY <4>1, <4>2, <4>4, <5>2
      <4> QED BY <4>3, <4>4
    <3> QED BY <3>1, <3>2
  <2>3. g = [i \in 1..(m + 1) |-> g[i]]
    OBVIOUS
  <2> HIDE DEF g
  <2>4. IsFlat(s, m + 1, g)
    BY <2>2, <2>3 DEF IsFlat
  <2> QED BY <2>4
<1>3. \A m \in 0..n : m \in S
  <2> HIDE DEF S
  <2> QED BY <1>1, <1>2, UpTo
<1> QED BY <1>3

LEMMA FlatIs ==
    ASSUME NEW E, NEW s \in Seq(Seq(E)), s # <<>>
    PROVE  \E f : IsFlat(s, Len(s), f) /\ FlattenSeq(s) = f[Len(s)]
<1> DEFINE f == CHOOSE x : IsFlat(s, Len(s), x)
<1>1. Len(s) \in Nat /\ Len(s) # 0
  BY LenProperties, EmptySeq
<1>2. IsFlat(s, Len(s), f)
  BY <1>1, FlatExists
<1>3. FlattenSeq(s) = f[Len(s)]
  BY <1>1 DEF FlattenSeq, IsFlat
<1> QED BY <1>2, <1>3

LEMMA FlatType ==
    ASSUME NEW E, NEW s \in Seq(Seq(E)), NEW f, IsFlat(s, Len(s), f)
    PROVE  \A i \in 1..Len(s) : /\ f[i] \in Seq(E)
                                /\ f[i] = IF i = 1 THEN s[i] ELSE f[i - 1] \o s[i]
<1> DEFINE n == Len(s)
           S == {i \in 0..n : i = 0 \/ f[i] \in Seq(E)}
<1>1. n \in Nat /\ 0 \in S
  BY LenProperties
<1>2. \A i \in 1..n : f[i] = IF i = 1 THEN s[i] ELSE f[i - 1] \o s[i]
  BY DEF IsFlat
<1>3. ASSUME NEW i \in 0..(n - 1), i \in S PROVE i + 1 \in S
  <2>1. i + 1 \in 1..n /\ s[i + 1] \in Seq(E) /\ i + 1 \in 0..n
    BY <1>1, ElementOfSeq
  <2>2. CASE i = 0
    BY <1>2, <2>1, <2>2
  <2>3. CASE i # 0
    <3>1. f[i] \in Seq(E) /\ (i + 1) - 1 = i /\ i + 1 # 1
      BY <1>3, <2>3
    <3>2. f[i + 1] = f[i] \o s[i + 1]
      BY <1>2, <2>1, <3>1
    <3> QED BY <2>1, <3>1, <3>2, ConcatProperties
  <2> QED BY <2>2, <2>3
<1>4. \A i \in 0..n : i \in S
  <2> HIDE DEF S, n
  <2> QED BY <1>1, <1>3, UpTo
<1> QED BY <1>1, <1>2, <1>4

LEMMA FlattenType ==
    ASSUME NEW E, NEW s \in Seq(Seq(E))
    PROVE  FlattenSeq(s) \in Seq(E)
<1>1. CASE s = <<>>
  <2>1. FlattenSeq(s) = <<>>
    BY <1>1, EmptySeq DEF FlattenSeq
  <2> QED BY <2>1, EmptySeq
<1>2. CASE s # <<>>
  <2>1. PICK f : IsFlat(s, Len(s), f) /\ FlattenSeq(s) = f[Len(s)]
    BY <1>2, FlatIs
  <2>2. Len(s) \in 1..Len(s)
    BY <1>2, EmptySeq
  <2> QED BY <2>1, <2>2, FlatType
<1> QED BY <1>1, <1>2

LEMMA AssocIn ==
    ASSUME NEW E
    PROVE  \A x, y, z \in Seq(E) : (x \o y) \o z = x \o (y \o z)
<1> TAKE x, y, z \in Seq(E)
<1> QED BY ConcatAssociative

LEMMA FlattenFirst ==
    ASSUME NEW E, NEW s \in Seq(Seq(E)), s # <<>>
    PROVE  FlattenSeq(s) = Head(s) \o FlattenSeq(Tail(s))
<1> DEFINE n == Len(s)
           r == Tail(s)
<1>1. /\ n \in Nat /\ n # 0 /\ r \in Seq(Seq(E)) /\ Len(r) = n - 1
      /\ Head(s) = s[1] /\ s[1] \in Seq(E)
      /\ \A i \in 1..(n - 1) : r[i] = s[i + 1]
  BY LenProperties, EmptySeq, HeadTailProperties, ElementOfSeq
<1>2. PICK f : IsFlat(s, n, f) /\ FlattenSeq(s) = f[n]
  BY FlatIs
<1>e. Len(<<>>) = 0 /\ (r # <<>> => Len(r) # 0)
  BY <1>1, EmptySeq
<1>3. \A i \in 1..n : f[i] \in Seq(E) /\ f[i] = IF i = 1 THEN s[i] ELSE f[i - 1] \o s[i]
  BY <1>2, FlatType
<1>4. CASE n = 1
  <2>1. FlattenSeq(r) = <<>>
    <3>1. Len(r) = 0
      BY <1>1, <1>4
    <3>2. r = <<>>
      BY <1>e, <3>1
    <3> QED BY <1>e, <3>2 DEF FlattenSeq
  <2>2. f[n] = s[1]
    BY <1>3, <1>4
  <2> HIDE DEF n, r
  <2> QED BY <1>1, <1>2, <2>1, <2>2, ConcatEmptySeq DEF r
<1>5. CASE n # 1
  <2>0. r # <<>>
    <3>1. Len(r) # 0
      BY <1>1, <1>5
    <3> QED BY <1>e, <3>1
  <2>1. PICK g : IsFlat(r, Len(r), g) /\ FlattenSeq(r) = g[Len(r)]
    BY <1>1, <2>0, FlatIs
  <2>2. \A i \in 1..(n - 1) : g[i] \in Seq(E) /\ g[i] = IF i = 1 THEN r[i] ELSE g[i - 1] \o r[i]
    <3>1. \A i \in 1..Len(r) : g[i] \in Seq(E) /\ g[i] = IF i = 1 THEN r[i] ELSE g[i - 1] \o r[i]
      <4>1. r \in Seq(Seq(E)) /\ IsFlat(r, Len(r), g)
        BY <1>1, <2>1
      <4> HIDE DEF r
      <4> QED BY <4>1, FlatType
    <3> QED BY <1>1, <3>1
  <2> DEFINE S == {i \in 0..(n - 1) : i = 0 \/ f[i + 1] = s[1] \o g[i]}
  <2> HIDE DEF n, r
  <2>3. ASSUME NEW i \in 0..((n - 1) - 1), i \in S PROVE i + 1 \in S
    <3>1. /\ i + 1 \in 1..(n - 1) /\ i + 1 \in 0..(n - 1) /\ (i + 1) + 1 \in 1..n
          /\ (i + 1) + 1 # 1 /\ ((i + 1) + 1) - 1 = i + 1
      BY <1>1
    <3>2. f[(i + 1) + 1] = f[i + 1] \o s[(i + 1) + 1]
      BY <1>3, <3>1
    <3>3. s[(i + 1) + 1] = r[i + 1] /\ r[i + 1] \in Seq(E)
      BY <1>1, <3>1, ElementOfSeq
    <3>4. CASE i = 0
      <4>1. f[1] = s[1] /\ g[1] = r[1]
        BY <1>1, <1>3, <2>2, <3>1, <3>4
      <4>2. f[(i + 1) + 1] = s[1] \o g[i + 1]
        <5>1. i + 1 = 1
          BY <3>4
        <5>2. f[i + 1] = s[1] /\ g[i + 1] = r[i + 1]
          BY <4>1, <5>1
        <5> QED BY <3>2, <3>3, <5>2
      <4> QED BY <3>1, <4>2
    <3>5. CASE i # 0
      <4>0. i \in 1..(n - 1) /\ i + 1 # 1 /\ (i + 1) - 1 = i
        BY <1>1, <3>5
      <4>1. f[i + 1] = s[1] \o g[i]
        BY <2>3, <3>5
      <4>2. g[i + 1] = g[i] \o r[i + 1] /\ g[i] \in Seq(E)
        BY <2>2, <3>1, <4>0
      <4>3. (s[1] \o g[i]) \o r[i + 1] = s[1] \o (g[i] \o r[i + 1])
        <5>1. s[1] \in Seq(E) /\ g[i] \in Seq(E) /\ r[i + 1] \in Seq(E)
          BY <1>1, <3>3, <4>2
        <5>2. \A x, y, z \in Seq(E) : (x \o y) \o z = x \o (y \o z)
          BY SMTT(60), AssocIn
        <5> QED BY <5>1, <5>2
      <4>4. f[(i + 1) + 1] = s[1] \o g[i + 1]
        <5>1. f[(i + 1) + 1] = (s[1] \o g[i]) \o r[i + 1]
          BY <3>2, <3>3, <4>1
        <5> QED BY <4>2, <4>3, <5>1
      <4> QED BY <3>1, <4>4
    <3> QED BY <3>4, <3>5
  <2>4. \A i \in 0..(n - 1) : i \in S
    <3>1. n - 1 \in Nat /\ 0 \in S
      BY <1>1
    <3> HIDE DEF S
    <3> QED BY <2>3, <3>1, UpTo
  <2>5. n - 1 \in 0..(n - 1) /\ n - 1 # 0 /\ (n - 1) + 1 = n
    BY <1>1, <1>5
  <2>6. f[n] = s[1] \o g[n - 1]
    BY <2>4, <2>5
  <2> QED BY <1>1, <1>2, <2>1, <2>6 DEF r
<1> QED BY <1>4, <1>5

----------------------------------------------------------------------------
(* The way of a call comes to an end: a hook leads one level down, a table *)
(* to a shorter key.                                                       *)

LEMMA KeysAreSeqs ==
    ASSUME NEW k \in Key
    PROVE  /\ k \in Seq(Name) /\ Len(k) \in Nat
           /\ k # <<>> => /\ Tail(k) \in Key /\ Head(k) \in Name
                          /\ Len(Tail(k)) < Len(k)
<1>1. k \in Seq(Name) /\ (k # <<>> => Tail(k) \in Key)
  BY ClientAssumption
<1>2. Len(k) \in Nat
  BY <1>1, LenProperties
<1>3. ASSUME k # <<>> PROVE Head(k) \in Name /\ Len(Tail(k)) = Len(k) - 1
  BY <1>1, <1>3, HeadTailProperties
<1> QED BY <1>1, <1>2, <1>3

LEMMA OnwardIsStop ==
    ASSUME NEW at \in Stop, Leads(at)
    PROVE  Onward(at) \in Stop
<1>1. at[1] \in FS /\ at[2] \in Key
  BY DEF Stop
<1>2. CASE at[1] \in Hook
  BY <1>1, <1>2, HookHasLevel DEF Onward, Stop
<1>3. CASE at[1] \notin Hook
  <2>1. at[1] \in Table /\ at[2] # <<>> /\ Mounted[at[1]][Head(at[2])] # NoFS
    BY <1>3 DEF Leads
  <2>2. Head(at[2]) \in Name /\ Tail(at[2]) \in Key
    BY <1>1, <2>1, KeysAreSeqs
  <2>3. Mounted[at[1]][Head(at[2])] \in FS
    BY <2>1, <2>2, MountAssumption
  <2> QED BY <1>3, <2>2, <2>3 DEF Onward, Stop
<1> QED BY <1>2, <1>3

LevelOf(g, n) == \E f \in Base \cup Table : n \in 0..Len(Middlewares[f]) /\ g = Nth(f, n)

LEMMA HasLevel ==
    ASSUME NEW g \in FS
    PROVE  \E n \in Nat : LevelOf(g, n)
<1>1. CASE g \in Hook
  <2>1. PICK f \in Base \cup Table : \E n \in 1..Len(Middlewares[f]) : g = Nth(f, n)
    BY <1>1, HookHasLevel
  <2>2. PICK n \in 1..Len(Middlewares[f]) : g = Nth(f, n)
    BY <2>1
  <2>3. n \in Nat /\ n \in 0..Len(Middlewares[f])
    BY LevelIsHook
  <2> QED BY <2>2, <2>3 DEF LevelOf
<1>2. CASE g \notin Hook
  <2>1. g \in Base \cup Table
    BY <1>2 DEF FS
  <2>2. 0 \in 0..Len(Middlewares[g]) /\ g = Nth(g, 0)
    BY <2>1, LevelIsHook
  <2> QED BY <2>1, <2>2 DEF LevelOf
<1> QED BY <1>1, <1>2

LEMMA LevelBelow ==
    ASSUME NEW h \in Hook, NEW n \in Nat, LevelOf(h, n)
    PROVE  n - 1 \in Nat /\ LevelOf(Inner(h), n - 1)
<1>1. PICK f \in Base \cup Table : n \in 0..Len(Middlewares[f]) /\ h = Nth(f, n)
  BY DEF LevelOf
<1>2. n # 0
  <2>1. f \notin Hook
    BY CompositionAssumption
  <2> QED BY <1>1, <2>1, LevelIsHook
<1>3. Len(Middlewares[f]) \in Nat
  BY LevelIsHook
<1>4. n \in 1..Len(Middlewares[f]) /\ n - 1 \in 0..Len(Middlewares[f])
  BY <1>1, <1>2, <1>3
<1>5. Inner(h) = Nth(f, n - 1)
  BY <1>1, <1>4, InnerIsBelow
<1> QED BY <1>4, <1>5 DEF LevelOf

LEMMA StopInduct ==
    ASSUME NEW S,
           \A at \in Stop : (Leads(at) => Onward(at) \in S) => at \in S
    PROVE  \A at \in Stop : at \in S
<1> DEFINE bad == {at \in Stop : at \notin S}
           lengths == {l \in Nat : \E at \in bad : l = Len(at[2])}
<1> SUFFICES ASSUME bad # {} PROVE FALSE
  OBVIOUS
<1>1. \A at \in Stop : at[1] \in FS /\ at[2] \in Key /\ Len(at[2]) \in Nat
  BY KeysAreSeqs DEF Stop
<1>2. lengths \in SUBSET Nat /\ lengths # {}
  BY <1>1
<1>3. PICK l \in lengths : \A n \in lengths : l <= n
  <2> HIDE DEF lengths
  <2> QED BY <1>2, HasLeast
<1> DEFINE levels == {n \in Nat : \E at \in bad : l = Len(at[2]) /\ LevelOf(at[1], n)}
<1>4. levels \in SUBSET Nat /\ levels # {}
  <2>1. PICK at \in bad : l = Len(at[2])
    OBVIOUS
  <2>2. PICK n \in Nat : LevelOf(at[1], n)
    BY <1>1, HasLevel
  <2> QED BY <2>1, <2>2
<1>5. PICK n \in levels : \A m \in levels : n <= m
  <2> HIDE DEF levels
  <2> QED BY <1>4, HasLeast
<1>6. PICK at \in bad : l = Len(at[2]) /\ LevelOf(at[1], n)
  OBVIOUS
<1>7. Leads(at) /\ Onward(at) \notin S /\ Onward(at) \in Stop
  BY <1>6, OnwardIsStop
<1>8. Onward(at) \in bad
  BY <1>7
<1>9. l \in Nat /\ n \in Nat /\ at \in Stop
  OBVIOUS
<1>10. CASE at[1] \in Hook
  <2>1. n - 1 \in Nat /\ LevelOf(Inner(at[1]), n - 1)
    BY <1>6, <1>9, <1>10, LevelBelow
  <2>2. Onward(at)[1] = Inner(at[1]) /\ Onward(at)[2] = at[2]
    BY <1>10 DEF Onward
  <2>3. n - 1 \in levels
    BY <1>6, <1>8, <2>1, <2>2
  <2>4. ~(n <= n - 1)
    BY <1>9
  <2> QED BY <1>5, <2>3, <2>4
<1>11. CASE at[1] \notin Hook
  <2>1. at[2] # <<>> /\ Onward(at)[2] = Tail(at[2])
    BY <1>7, <1>11 DEF Leads, Onward
  <2>2. Len(Tail(at[2])) \in Nat /\ Len(Tail(at[2])) < l
    BY <1>1, <1>6, <1>9, <2>1, KeysAreSeqs
  <2>3. Len(Tail(at[2])) \in lengths
    BY <1>8, <2>1, <2>2
  <2>4. ~(l <= Len(Tail(at[2])))
    BY <1>9, <2>2
  <2> QED BY <1>3, <2>3, <2>4
<1> QED BY <1>10, <1>11

----------------------------------------------------------------------------
(* So there is a function that is as Way has to be.                        *)

Then(w, at) ==
    IF ~Leads(at) THEN <<Ending(at)>>
    ELSE IF at[1] \in Hook THEN Append(w[Onward(at)], at)
    ELSE w[Onward(at)]

IsWay(w) == w = [at \in Stop |-> Then(w, at)]

(* A part of it, which is closed.                                          *)
Attempt(w) ==
    \A at \in DOMAIN w : /\ Leads(at) => Onward(at) \in DOMAIN w
                         /\ w[at] = Then(w, at)

LEMMA AttemptsAgree ==
    ASSUME NEW at \in Stop, NEW v, NEW w, Attempt(v), Attempt(w), at \in DOMAIN v, at \in DOMAIN w
    PROVE  v[at] = w[at]
<1> DEFINE S == {x \in Stop : x \in DOMAIN v /\ x \in DOMAIN w => v[x] = w[x]}
<1>1. ASSUME NEW x \in Stop, Leads(x) => Onward(x) \in S PROVE x \in S
  <2> SUFFICES ASSUME x \in DOMAIN v, x \in DOMAIN w PROVE v[x] = w[x]
    OBVIOUS
  <2>1. Leads(x) => v[Onward(x)] = w[Onward(x)]
    BY <1>1 DEF Attempt
  <2>2. Then(v, x) = Then(w, x)
    BY <2>1 DEF Then
  <2> QED BY <2>2 DEF Attempt
<1>2. \A x \in Stop : x \in S
  <2> HIDE DEF S
  <2> QED BY <1>1, StopInduct
<1> QED BY <1>2

LEMMA AttemptExists ==
    ASSUME NEW at \in Stop
    PROVE  \E w : Attempt(w) /\ at \in DOMAIN w
<1> DEFINE S == {x \in Stop : \E w : Attempt(w) /\ x \in DOMAIN w}
<1>1. ASSUME NEW x \in Stop, Leads(x) => Onward(x) \in S PROVE x \in S
  <2>1. \E v : Attempt(v) /\ (Leads(x) => Onward(x) \in DOMAIN v)
    <3>1. CASE Leads(x)
      BY <1>1, <3>1
    <3>2. CASE ~Leads(x)
      <4>1. Attempt([y \in {} |-> y])
        BY DEF Attempt
      <4> QED BY <3>2, <4>1
    <3> QED BY <3>1, <3>2
  <2>2. PICK v : Attempt(v) /\ (Leads(x) => Onward(x) \in DOMAIN v)
    BY <2>1
  <2>3. CASE x \in DOMAIN v
    BY <2>2, <2>3
  <2>4. CASE x \notin DOMAIN v
    <3> DEFINE w == [y \in DOMAIN v \cup {x} |-> IF y = x THEN Then(v, x) ELSE v[y]]
    <3>1. DOMAIN w = DOMAIN v \cup {x} /\ w[x] = Then(v, x)
          /\ \A y \in DOMAIN v : w[y] = v[y]
      BY <2>4
    <3> HIDE DEF w
    <3>2. ASSUME NEW y \in DOMAIN w
          PROVE  (Leads(y) => Onward(y) \in DOMAIN w) /\ w[y] = Then(w, y)
      <4>1. (Leads(y) => Onward(y) \in DOMAIN v) /\ w[y] = Then(v, y)
        BY <2>2, <3>1 DEF Attempt
      <4>2. Then(w, y) = Then(v, y)
        BY <3>1, <4>1 DEF Then
      <4> QED BY <3>1, <4>1, <4>2
    <3>3. Attempt(w)
      BY <3>2 DEF Attempt
    <3> QED BY <3>1, <3>3
  <2> QED BY <2>3, <2>4
<1>2. \A x \in Stop : x \in S
  <2> HIDE DEF S
  <2> QED BY <1>1, StopInduct
<1> QED BY <1>2

LEMMA WayIs ==
    ASSUME NEW at \in Stop
    PROVE  Way[at] = Then(Way, at)
<1> DEFINE a(x) == CHOOSE w : Attempt(w) /\ x \in DOMAIN w
           g == [x \in Stop |-> a(x)[x]]
<1>1. ASSUME NEW x \in Stop PROVE Attempt(a(x)) /\ x \in DOMAIN a(x)
  BY AttemptExists
<1> HIDE DEF a
<1>2. ASSUME NEW x \in Stop PROVE g[x] = Then(g, x)
  <2>1. g[x] = Then(a(x), x)
    BY <1>1 DEF Attempt
  <2>2. ASSUME Leads(x) PROVE g[Onward(x)] = a(x)[Onward(x)]
    <3>1. Onward(x) \in Stop /\ Onward(x) \in DOMAIN a(x)
      BY <1>1, <2>2, OnwardIsStop DEF Attempt
    <3>2. a(Onward(x))[Onward(x)] = a(x)[Onward(x)]
      BY <1>1, <3>1, AttemptsAgree
    <3> QED BY <3>1, <3>2
  <2>3. Then(g, x) = Then(a(x), x)
    BY <2>2 DEF Then
  <2> QED BY <2>1, <2>3
<1>3. IsWay(g)
  <2>1. g = [x \in Stop |-> g[x]]
    OBVIOUS
  <2> HIDE DEF g
  <2> QED BY <1>2, <2>1 DEF IsWay
<1>4. Way = CHOOSE w : IsWay(w)
  BY DEF Way, IsWay, Then
<1>5. IsWay(Way)
  BY <1>3, <1>4
<1>6. Way = [x \in Stop |-> Then(Way, x)]
  BY <1>5 DEF IsWay
<1> QED BY <1>6

----------------------------------------------------------------------------
(* The way, and what has to happen on it, one stop after the other.        *)

Stops == Seq((FS \cup {NoFS}) \X Key)

Event == {"stored", "deleted", "told"} \X (FS \cup {NoFS}) \X Key

LEMMA WayType ==
    ASSUME NEW at \in Stop
    PROVE  Way[at] \in Stops /\ Way[at] # <<>>
<1> DEFINE S == {x \in Stop : Way[x] \in Stops /\ Way[x] # <<>>}
           E == (FS \cup {NoFS}) \X Key
<1>1. ASSUME NEW x \in Stop, Leads(x) => Onward(x) \in S PROVE x \in S
  <2>0. x \in E /\ Ending(x) \in E
    BY DEF Stop, Ending
  <2> HIDE DEF E
  <2>1. CASE ~Leads(x)
    <3>1. Way[x] = <<Ending(x)>>
      BY <2>1, WayIs DEF Then
    <3>2. <<Ending(x)>> \in Seq(E) /\ <<Ending(x)>> # <<>>
      BY <2>0
    <3> QED BY <3>1, <3>2 DEF Stops, E
  <2>2. CASE Leads(x) /\ x[1] \in Hook
    <3>1. Way[x] = Append(Way[Onward(x)], x)
      BY <2>2, WayIs DEF Then
    <3>2. Way[Onward(x)] \in Seq(E)
      BY <1>1, <2>2 DEF Stops, E
    <3>3. Way[x] \in Seq(E) /\ Way[x] # <<>>
      BY <2>0, <3>1, <3>2, AppendProperties
    <3> QED BY <3>3 DEF Stops, E
  <2>3. CASE Leads(x) /\ x[1] \notin Hook
    <3>1. Way[x] = Way[Onward(x)]
      BY <2>3, WayIs DEF Then
    <3> QED BY <1>1, <2>3, <3>1
  <2> QED BY <2>1, <2>2, <2>3
<1>2. \A x \in Stop : x \in S
  <2> HIDE DEF S
  <2> QED BY <1>1, StopInduct
<1> QED BY <1>2

LEMMA PlaceIs ==
    ASSUME NEW f \in FS, NEW k \in Key
    PROVE  /\ <<f, k>> \in Stop
           /\ Place(f, k) = Way[<<f, k>>][1]
           /\ Place(f, k) \in (FS \cup {NoFS}) \X Key
           /\ Storing(f, k) = << <<"stored", Place(f, k)[1], Place(f, k)[2]>> >>
           /\ Storing(f, k) \in Seq(Event) /\ Storing(f, k) # <<>> /\ Len(Storing(f, k)) = 1
           /\ Storing(f, k)[1][2] = Place(f, k)[1]
<1> DEFINE w == Way[<<f, k>>]
<1>1. <<f, k>> \in Stop
  BY DEF Stop
<1>2. w \in Seq((FS \cup {NoFS}) \X Key) /\ w # <<>>
  BY <1>1, WayType DEF Stops
<1>3. Place(f, k) = w[1]
  BY <1>2 DEF Place, Destination
<1>4. w[1] \in (FS \cup {NoFS}) \X Key
  BY <1>2, EmptySeq, ElementOfSeq
<1> HIDE DEF w
<1>5. Storing(f, k) = << <<"stored", Place(f, k)[1], Place(f, k)[2]>> >>
  BY DEF Storing, Happening
<1>6. <<"stored", Place(f, k)[1], Place(f, k)[2]>> \in Event
  BY <1>3, <1>4 DEF Event
<1> QED BY <1>1, <1>3, <1>4, <1>5, <1>6 DEF w

LEMMA DeletionIs ==
    ASSUME NEW f \in FS, NEW k \in Key
    PROVE  /\ Deletion(f, k) \in Seq(Event) /\ Deletion(f, k) # <<>>
           /\ Len(Deletion(f, k)) = Len(Way[<<f, k>>])
           /\ \A i \in 1..Len(Way[<<f, k>>]) :
                 Deletion(f, k)[i] = <<IF i = 1 THEN "deleted" ELSE "told",
                                       Way[<<f, k>>][i][1], Way[<<f, k>>][i][2]>>
           /\ Deletion(f, k)[1][2] = Place(f, k)[1]
<1> DEFINE w == Way[<<f, k>>]
           d == Deletion(f, k)
           e == [i \in 1..Len(w) |-> <<IF i = 1 THEN "deleted" ELSE "told", w[i][1], w[i][2]>>]
<1>1. <<f, k>> \in Stop /\ Place(f, k) = w[1]
  BY PlaceIs
<1>2. w \in Seq((FS \cup {NoFS}) \X Key) /\ w # <<>>
  BY <1>1, WayType DEF Stops
<1>3. Len(w) \in Nat /\ Len(w) # 0 /\ DOMAIN w = 1..Len(w)
  BY <1>2, EmptySeq, LenProperties
<1>4. d = e
  BY <1>3 DEF Deletion, Happening
<1>5. \A i \in 1..Len(w) : w[i] \in (FS \cup {NoFS}) \X Key
  BY <1>2, ElementOfSeq
<1>6. \A i \in 1..Len(w) : e[i] \in Event
  BY <1>5 DEF Event
<1>7. e \in [1..Len(w) -> Event]
  BY <1>6
<1> HIDE DEF d, w
<1>8. e \in Seq(Event) /\ Len(e) = Len(w)
  <2> HIDE DEF e
  <2>1. e \in Seq(Event)
    BY <1>3, <1>7, SeqDef
  <2>2. Len(e) = Len(w)
    BY <1>3, <1>7, <2>1, LenProperties
  <2> QED BY <2>1, <2>2
<1>9. e # <<>>
  BY <1>3, <1>8, EmptySeq
<1>10. 1 \in 1..Len(w)
  BY <1>3
<1>11. e[1][2] = w[1][1]
  BY <1>10
<1> QED BY <1>1, <1>3, <1>4, <1>8, <1>9, <1>11 DEF d, w

(* At a base.                                                              *)
LEMMA AtBase ==
    ASSUME NEW b \in Base, NEW k \in Key
    PROVE  /\ Storing(b, k) = << <<"stored", b, k>> >>
           /\ Deletion(b, k) = << <<"deleted", b, k>> >>
<1> DEFINE at == <<b, k>>
<1>1. b \in FS /\ at \in Stop /\ at[1] = b /\ at[2] = k
  BY DEF FS, Stop
<1>2. ~Leads(at) /\ Ending(at) = at
  BY <1>1, CompositionAssumption DEF Leads, Ending
<1> HIDE DEF at
<1>3. Way[at] = <<at>>
  BY <1>1, <1>2, WayIs DEF Then
<1>4. Place(b, k) = at
  BY <1>1, <1>3, PlaceIs DEF at
<1>5. Storing(b, k) = << <<"stored", b, k>> >>
  BY <1>1, <1>4 DEF Storing, Happening, at
<1>6. Deletion(b, k) = << <<"deleted", b, k>> >>
  <2>1. /\ Deletion(b, k) \in Seq(Event) /\ Len(Deletion(b, k)) = 1
        /\ Deletion(b, k)[1] = <<"deleted", b, k>>
    <3>1. Len(Way[at]) = 1 /\ Way[at][1] = at
      BY <1>3
    <3>2. /\ Deletion(b, k) \in Seq(Event) /\ Len(Deletion(b, k)) = Len(Way[at])
          /\ \A i \in 1..Len(Way[at]) :
                Deletion(b, k)[i] = <<IF i = 1 THEN "deleted" ELSE "told", Way[at][i][1], Way[at][i][2]>>
      BY <1>1, DeletionIs DEF at
    <3>3. 1 \in 1..Len(Way[at])
      BY <3>1
    <3> QED BY <1>1, <3>1, <3>2, <3>3
  <2>2. << <<"deleted", b, k>> >> \in Seq(Event)
    BY <1>1 DEF Event
  <2> QED BY <2>1, <2>2, SeqEqual
<1> QED BY <1>5, <1>6

(* At a hook.                                                              *)
LEMMA AtHook ==
    ASSUME NEW h \in Hook, NEW k \in Key
    PROVE  /\ Storing(h, k) = Storing(Inner(h), k)
           /\ Deletion(h, k) = Deletion(Inner(h), k) \o << <<"told", h, k>> >>
           /\ << <<"told", h, k>> >> \in Seq(Event)
<1> DEFINE at == <<h, k>>
           in == <<Inner(h), k>>
           E == (FS \cup {NoFS}) \X Key
<1>1. /\ h \in FS /\ Inner(h) \in FS /\ at \in Stop /\ in \in Stop
      /\ at[1] = h /\ at[2] = k /\ at \in E
  BY HookHasLevel DEF FS, Stop
<1>2. Leads(at) /\ Onward(at) = in
  BY <1>1 DEF Leads, Onward
<1> HIDE DEF at, in
<1>3. Way[at] = Append(Way[in], at)
  BY <1>1, <1>2, WayIs DEF Then
<1>4. Way[in] \in Seq(E) /\ Way[in] # <<>>
  BY <1>1, WayType DEF Stops
<1> HIDE DEF E
<1>5. /\ Len(Way[in]) \in Nat /\ Len(Way[in]) # 0
      /\ Len(Way[at]) = Len(Way[in]) + 1
      /\ \A i \in 1..Len(Way[in]) : Way[at][i] = Way[in][i]
      /\ Way[at][Len(Way[in]) + 1] = at
  BY <1>1, <1>3, <1>4, AppendProperties, EmptySeq, LenProperties
<1>6. Place(h, k) = Place(Inner(h), k)
  <2>1. 1 \in 1..Len(Way[in])
    BY <1>5
  <2> QED BY SMTT(60), <1>1, <1>5, <2>1, PlaceIs DEF at, in
<1>7. Storing(h, k) = Storing(Inner(h), k)
  BY <1>6 DEF Storing
<1> DEFINE t == <<"told", h, k>>
           d == Deletion(h, k)
           e == Deletion(Inner(h), k)
           n == Len(Way[in])
<1>8. t \in Event
  BY <1>1 DEF Event
<1>9. /\ d \in Seq(Event) /\ Len(d) = n + 1
      /\ e \in Seq(Event) /\ Len(e) = n
      /\ \A i \in 1..(n + 1) : d[i] = <<IF i = 1 THEN "deleted" ELSE "told", Way[at][i][1], Way[at][i][2]>>
      /\ \A i \in 1..n : e[i] = <<IF i = 1 THEN "deleted" ELSE "told", Way[in][i][1], Way[in][i][2]>>
  BY <1>1, <1>5, DeletionIs DEF at, in
<1> HIDE DEF t, d, e
<1>10. /\ Append(e, t) \in Seq(Event) /\ Len(Append(e, t)) = n + 1
       /\ \A i \in 1..n : Append(e, t)[i] = e[i]
       /\ Append(e, t)[n + 1] = t
  BY <1>8, <1>9, AppendProperties
<1>11. \A i \in 1..(n + 1) : d[i] = Append(e, t)[i]
  <2> SUFFICES ASSUME NEW i \in 1..(n + 1) PROVE d[i] = Append(e, t)[i]
    OBVIOUS
  <2>1. CASE i = n + 1
    <3>1. i # 1 /\ Way[at][i] = at
      BY <1>5, <2>1
    <3>2. d[i] = <<"told", at[1], at[2]>>
      BY <1>9, <3>1
    <3> QED BY <1>1, <1>10, <2>1, <3>2 DEF t
  <2>2. CASE i # n + 1
    <3>1. i \in 1..n
      BY <1>5, <2>2
    <3>2. Way[at][i] = Way[in][i]
      BY <1>5, <3>1
    <3>3. d[i] = <<IF i = 1 THEN "deleted" ELSE "told", Way[at][i][1], Way[at][i][2]>>
      BY <1>9
    <3>4. Append(e, t)[i] = <<IF i = 1 THEN "deleted" ELSE "told", Way[in][i][1], Way[in][i][2]>>
      BY <1>9, <1>10, <3>1
    <3> QED BY <3>2, <3>3, <3>4
  <2> QED BY <2>1, <2>2
<1>12. d = Append(e, t)
  <2> DEFINE a == Append(e, t)
  <2>1. d \in Seq(Event) /\ a \in Seq(Event) /\ Len(d) = Len(a)
    BY <1>9, <1>10
  <2>2. \A i \in 1..Len(d) : d[i] = a[i]
    BY <1>9, <1>11
  <2> HIDE DEF a
  <2>3. d = a
    BY <2>1, <2>2, SeqEqual
  <2> QED BY <2>3 DEF a
<1>13. Append(e, t) = e \o <<t>> /\ <<t>> \in Seq(Event)
  BY <1>8, <1>9, AppendIsConcat
<1> QED BY <1>7, <1>12, <1>13 DEF t, d, e

(* At a table, where the call knows its way.                               *)
LEMMA AtTable ==
    ASSUME NEW t \in Table, NEW k \in Key, Place(t, k)[1] # NoFS
    PROVE  /\ k # <<>> /\ <<t, Head(k)>> \in Entry \ Changing
           /\ Mounted[t][Head(k)] \in FS /\ Tail(k) \in Key
           /\ Storing(t, k) = Storing(Mounted[t][Head(k)], Tail(k))
           /\ Deletion(t, k) = Deletion(Mounted[t][Head(k)], Tail(k))
<1> DEFINE at == <<t, k>>
<1>1. t \in FS /\ at \in Stop /\ at[1] = t /\ at[2] = k /\ t \notin Hook /\ t \notin Base
  BY CompositionAssumption DEF FS, Stop
<1>2. Leads(at)
  <2> SUFFICES ASSUME ~Leads(at) PROVE FALSE
    OBVIOUS
  <2>1. Way[at] = << <<NoFS, k>> >>
    BY <1>1, WayIs DEF Then, Ending
  <2> QED BY <1>1, <2>1, PlaceIs
<1>3. /\ k # <<>> /\ <<t, Head(k)>> \notin Changing /\ Mounted[t][Head(k)] # NoFS
      /\ Onward(at) = <<Mounted[t][Head(k)], Tail(k)>>
  BY <1>1, <1>2 DEF Leads, Onward
<1>4. Head(k) \in Name /\ Tail(k) \in Key
  BY <1>3, KeysAreSeqs
<1>5. Mounted[t][Head(k)] \in FS
  BY <1>3, <1>4, MountAssumption
<1>6. Way[at] = Way[<<Mounted[t][Head(k)], Tail(k)>>]
  BY <1>1, <1>2, <1>3, WayIs DEF Then
<1>7. Place(t, k) = Place(Mounted[t][Head(k)], Tail(k))
  <2>1. Place(t, k) = Way[at][1]
    BY <1>1, PlaceIs
  <2> DEFINE g == Mounted[t][Head(k)]
             l == Tail(k)
  <2>2. g \in FS /\ l \in Key
    BY <1>4, <1>5
  <2> HIDE DEF g, l
  <2>3. Place(g, l) = Way[<<g, l>>][1]
    BY <2>2, PlaceIs
  <2> QED BY <1>6, <2>1, <2>3 DEF g, l
<1>8. Storing(t, k) = Storing(Mounted[t][Head(k)], Tail(k))
  BY <1>7 DEF Storing
<1>9. Deletion(t, k) = Deletion(Mounted[t][Head(k)], Tail(k))
  BY <1>6 DEF Deletion
<1> QED BY <1>3, <1>4, <1>5, <1>8, <1>9 DEF Entry

----------------------------------------------------------------------------
(* What is owed.                                                           *)

LEMMA Assoc ==
    \A x, y, z \in Seq(Event) : /\ (x \o y) \o z = x \o (y \o z)
                                /\ x \o y \in Seq(Event)
                                /\ x \o y = <<>> <=> x = <<>> /\ y = <<>>
                                /\ x \o <<>> = x /\ <<>> \o x = x
                                /\ <<>> \in Seq(Event)
BY ConcatAssociative, ConcatProperties, ConcatEqualIffEmpty, ConcatEmptySeq, EmptySeq

(* What a call has to make happen before it returns.                       *)
Owed(c) ==
    CASE c.op = "put"         -> Storing(c.fs, c.key)
      [] c.op = "delete"      -> Deletion(c.fs, c.key)
      [] c.op = "copyto"      -> Storing(c.dfs, c.dst)
      [] c.op \in {"copy", "create", "fill"} -> Storing(c.fs, c.dst)
      [] c.op = "copydst"     -> Storing(c.fs, c.key)
      [] c.op = "batch"       -> [i \in DOMAIN c.keys |-> <<"deleted", c.fs, c.keys[i]>>]
      [] c.op = "batchdelete" -> FlattenSeq([i \in DOMAIN c.keys |-> Deletion(c.fs, c.keys[i])])
      [] c.op = "unpack"      -> FlattenSeq([i \in DOMAIN c.files |-> Storing(c.fs, c.files[i].key)])
      [] OTHER                -> <<>>

(* The calls there are.                                                    *)
LoopCall == [op : {"delete"}, fs : FS, key : Key]
              \cup [op : {"put"}, fs : FS, key : Key, data : Payload]

Formed(c) ==
    /\ "op" \in DOMAIN c
    /\ c.op \in {"get", "put", "delete"} => /\ {"op", "fs", "key"} \subseteq DOMAIN c
                                            /\ c.fs \in FS /\ c.key \in Key
    /\ c.op = "put" => "data" \in DOMAIN c
    /\ c.op = "copyto" => c.fs \in FS /\ c.dfs \in FS /\ c.key \in Key /\ c.dst \in Key
    /\ c.op = "copy" => c.fs \in Base \cup Table /\ c.key \in Key /\ c.dst \in Key
    /\ c.op \in {"create", "fill"} => /\ {"fs", "dst"} \subseteq DOMAIN c
                                      /\ c.fs \in Base /\ c.dst \in Key
    /\ c.op = "copydst" => c.fs \in Table /\ c.sfs \in FS /\ c.key \in Key /\ c.skey \in Key
    /\ c.op = "batch" => c.fs \in Base /\ c.keys \in Seq(Key)
    /\ c.op = "batchdelete" => c.fs \in FS /\ c.keys \in Seq(Key)
    /\ c.op = "unpack" => c.fs \in FS /\ c.files \in Seq([key : Key, data : Payload])

LEMMA MapIsSeq ==
    ASSUME NEW A, NEW s \in Seq(A), NEW T, NEW m, DOMAIN m = DOMAIN s,
           m = [i \in DOMAIN m |-> m[i]], \A i \in 1..Len(s) : m[i] \in T
    PROVE  m \in Seq(T) /\ Len(m) = Len(s)
<1>1. Len(s) \in Nat /\ DOMAIN m = 1..Len(s)
  BY LenProperties
<1>2. m \in [1..Len(s) -> T]
  BY <1>1
<1>3. m \in Seq(T)
  BY <1>1, <1>2, SeqDef
<1>4. Len(m) \in Nat /\ DOMAIN m = 1..Len(m)
  BY <1>3, LenProperties
<1>5. Len(m) = Len(s)
  BY <1>1, <1>4
<1> QED BY <1>3, <1>5

LEMMA OwedType ==
    ASSUME NEW c, Formed(c)
    PROVE  Owed(c) \in Seq(Event)
<1>1. CASE c.op \in {"put", "delete", "copyto", "copy", "create", "fill", "copydst"}
  <2>1. Base \cup Table \subseteq FS /\ Table \subseteq FS
    BY DEF FS
  <2>2. \A f \in FS, k \in Key : Storing(f, k) \in Seq(Event) /\ Deletion(f, k) \in Seq(Event)
    BY PlaceIs, DeletionIs
  <2>3. CASE c.op = "put"
    BY <2>2, <2>3 DEF Owed, Formed
  <2>4. CASE c.op = "delete"
    BY <2>2, <2>4 DEF Owed, Formed
  <2>5. CASE c.op = "copyto"
    BY <2>2, <2>5 DEF Owed, Formed
  <2>6. CASE c.op \in {"copy", "create", "fill"}
    <3>1. c.fs \in FS /\ c.dst \in Key
      BY <2>1, <2>6 DEF Formed
    <3>2. Owed(c) = Storing(c.fs, c.dst)
      BY <2>6 DEF Owed
    <3> QED BY <2>2, <3>1, <3>2
  <2>7. CASE c.op = "copydst"
    BY <2>1, <2>2, <2>7 DEF Owed, Formed
  <2> QED BY <1>1, <2>3, <2>4, <2>5, <2>6, <2>7
<1>2. CASE c.op = "batch"
  <2> DEFINE ks == c.keys
             m == [i \in DOMAIN ks |-> <<"deleted", c.fs, ks[i]>>]
  <2>1. c.fs \in FS /\ ks \in Seq(Key)
    BY <1>2 DEF Formed, FS
  <2>2. \A i \in 1..Len(ks) : m[i] \in Event
    <3> SUFFICES ASSUME NEW i \in 1..Len(ks) PROVE m[i] \in Event
      OBVIOUS
    <3>1. ks[i] \in Key /\ i \in DOMAIN ks
      BY <2>1, ElementOfSeq, LenProperties
    <3> QED BY <2>1, <3>1 DEF Event
  <2>3. DOMAIN m = DOMAIN ks /\ m = [i \in DOMAIN m |-> m[i]]
    OBVIOUS
  <2>4. Owed(c) = m
    BY <1>2 DEF Owed
  <2> HIDE DEF m
  <2> QED BY <2>1, <2>2, <2>3, <2>4, MapIsSeq
<1>3. CASE c.op = "batchdelete"
  <2> DEFINE ks == c.keys
             m == [i \in DOMAIN ks |-> Deletion(c.fs, ks[i])]
  <2>1. c.fs \in FS /\ ks \in Seq(Key)
    BY <1>3 DEF Formed
  <2>2. \A i \in 1..Len(ks) : m[i] \in Seq(Event)
    <3> SUFFICES ASSUME NEW i \in 1..Len(ks) PROVE m[i] \in Seq(Event)
      OBVIOUS
    <3>1. ks[i] \in Key /\ i \in DOMAIN ks
      BY <2>1, ElementOfSeq, LenProperties
    <3>2. Deletion(c.fs, ks[i]) \in Seq(Event)
      BY <2>1, <3>1, DeletionIs
    <3> QED BY <3>1, <3>2
  <2>3. DOMAIN m = DOMAIN ks /\ m = [i \in DOMAIN m |-> m[i]]
    OBVIOUS
  <2>4. Owed(c) = FlattenSeq(m)
    BY <1>3 DEF Owed
  <2> HIDE DEF m
  <2>5. m \in Seq(Seq(Event))
    BY <2>1, <2>2, <2>3, MapIsSeq
  <2> QED BY <2>4, <2>5, FlattenType
<1>4. CASE c.op = "unpack"
  <2> DEFINE fs == c.files
             m == [i \in DOMAIN fs |-> Storing(c.fs, fs[i].key)]
  <2>1. c.fs \in FS /\ fs \in Seq([key : Key, data : Payload])
    BY <1>4 DEF Formed
  <2>2. \A i \in 1..Len(fs) : m[i] \in Seq(Event)
    <3> SUFFICES ASSUME NEW i \in 1..Len(fs) PROVE m[i] \in Seq(Event)
      OBVIOUS
    <3>1. fs[i] \in [key : Key, data : Payload] /\ i \in DOMAIN fs
      BY <2>1, ElementOfSeq, LenProperties
    <3>2. Storing(c.fs, fs[i].key) \in Seq(Event)
      BY <2>1, <3>1, PlaceIs
    <3> QED BY <3>1, <3>2
  <2>3. DOMAIN m = DOMAIN fs /\ m = [i \in DOMAIN m |-> m[i]]
    OBVIOUS
  <2>4. Owed(c) = FlattenSeq(m)
    BY <1>4 DEF Owed
  <2> HIDE DEF m
  <2>5. m \in Seq(Seq(Event))
    BY <2>1, <2>2, <2>3, MapIsSeq
  <2> QED BY <2>4, <2>5, FlattenType
<1>5. CASE c.op \notin {"put", "delete", "copyto", "copy", "create", "fill", "copydst", "batch",
                      "batchdelete", "unpack"}
  <2>1. Owed(c) = <<>>
    BY <1>5 DEF Owed
  <2> QED BY <2>1, EmptySeq
<1> QED BY <1>1, <1>2, <1>3, <1>4, <1>5

LEMMA LoopCalls ==
    ASSUME NEW c \in LoopCall
    PROVE  Formed(c) /\ Owed(c) \in Seq(Event) /\ Owed(c) # <<>>
<1>1. /\ Formed(c) /\ c.op \in {"put", "delete"} /\ c.fs \in FS /\ c.key \in Key
  BY DEF LoopCall, Formed
<1>2. c.op = "put" => Owed(c) = Storing(c.fs, c.key)
  BY DEF Owed
<1>3. c.op = "delete" => Owed(c) = Deletion(c.fs, c.key)
  BY DEF Owed
<1>4. Storing(c.fs, c.key) # <<>> /\ Deletion(c.fs, c.key) # <<>>
  BY ZenonT(60), <1>1, PlaceIs, DeletionIs
<1> QED BY <1>1, <1>2, <1>3, <1>4, OwedType

(* What the calls of a loop owe.                                           *)
OwedTodo(todo) == FlattenSeq([i \in DOMAIN todo |-> Owed(todo[i])])

LEMMA TodoType ==
    ASSUME NEW todo \in Seq(LoopCall)
    PROVE  /\ [i \in DOMAIN todo |-> Owed(todo[i])] \in Seq(Seq(Event))
           /\ Len([i \in DOMAIN todo |-> Owed(todo[i])]) = Len(todo)
           /\ OwedTodo(todo) \in Seq(Event)
<1> DEFINE m == [i \in DOMAIN todo |-> Owed(todo[i])]
<1>1. \A i \in 1..Len(todo) : m[i] \in Seq(Event)
  <2> SUFFICES ASSUME NEW i \in 1..Len(todo) PROVE m[i] \in Seq(Event)
    OBVIOUS
  <2>1. todo[i] \in LoopCall /\ i \in DOMAIN todo
    BY ElementOfSeq, LenProperties
  <2> QED BY <2>1, LoopCalls
<1>2. DOMAIN m = DOMAIN todo /\ m = [i \in DOMAIN m |-> m[i]]
  OBVIOUS
<1>3. OwedTodo(todo) = FlattenSeq(m)
  BY DEF OwedTodo
<1>4. m \in Seq(Seq(Event)) /\ Len(m) = Len(todo)
  <2> HIDE DEF m
  <2> QED BY <1>1, <1>2, MapIsSeq
<1>5. FlattenSeq(m) \in Seq(Event)
  <2> HIDE DEF m
  <2> QED BY <1>4, FlattenType
<1> QED BY <1>3, <1>4, <1>5

LEMMA TodoEmpty == OwedTodo(<<>>) = <<>>
<1>1. [i \in DOMAIN <<>> |-> Owed(<<>>[i])] = <<>>
  OBVIOUS
<1>2. FlattenSeq(<<>>) = <<>>
  BY EmptySeq DEF FlattenSeq
<1> QED BY <1>1, <1>2 DEF OwedTodo

LEMMA TodoFirst ==
    ASSUME NEW todo \in Seq(LoopCall), todo # <<>>
    PROVE  OwedTodo(todo) = Owed(Head(todo)) \o OwedTodo(Tail(todo))
<1> DEFINE m == [i \in DOMAIN todo |-> Owed(todo[i])]
           r == Tail(todo)
           l == [i \in DOMAIN r |-> Owed(r[i])]
<1>1. /\ r \in Seq(LoopCall) /\ Len(r) = Len(todo) - 1 /\ Head(todo) = todo[1]
      /\ \A i \in 1..Len(r) : r[i] = todo[i + 1]
      /\ DOMAIN r = 1..Len(r) /\ DOMAIN todo = 1..Len(todo)
      /\ Len(todo) \in Nat /\ Len(todo) # 0
  <2>1. r \in Seq(LoopCall)
    BY HeadTailProperties
  <2> QED BY <2>1, HeadTailProperties, LenProperties, EmptySeq
<1>2. m \in Seq(Seq(Event)) /\ Len(m) = Len(todo)
  BY TodoType
<1>3. l \in Seq(Seq(Event)) /\ Len(l) = Len(r)
  <2> HIDE DEF r
  <2> QED BY <1>1, TodoType
<1>4. m # <<>>
  <2> HIDE DEF m
  <2> QED BY <1>1, <1>2, EmptySeq
<1>5. /\ Head(m) = m[1] /\ Tail(m) \in Seq(Seq(Event)) /\ Len(Tail(m)) = Len(m) - 1
      /\ \A i \in 1..Len(Tail(m)) : Tail(m)[i] = m[i + 1]
  <2> HIDE DEF m
  <2> QED BY <1>2, <1>4, HeadTailProperties
<1>6. m[1] = Owed(Head(todo))
  BY <1>1
<1>7. Tail(m) = l
  <2>1. \A i \in 1..Len(r) : l[i] = m[i + 1]
    <3> SUFFICES ASSUME NEW i \in 1..Len(r) PROVE l[i] = m[i + 1]
      OBVIOUS
    <3>1. i \in DOMAIN r /\ i + 1 \in DOMAIN todo /\ r[i] = todo[i + 1]
      BY <1>1
    <3> QED BY <3>1
  <2>2. Len(Tail(m)) = Len(r)
    BY <1>1, <1>2, <1>5
  <2> HIDE DEF m, l, r
  <2> QED BY <1>3, <1>5, <2>1, <2>2, SeqEqual
<1>8. FlattenSeq(m) = Head(m) \o FlattenSeq(Tail(m))
  <2> HIDE DEF m
  <2> QED BY <1>2, <1>4, FlattenFirst
<1>9. OwedTodo(todo) = FlattenSeq(m) /\ OwedTodo(Tail(todo)) = FlattenSeq(l)
  BY DEF OwedTodo
<1> HIDE DEF m, l, r
<1> QED BY <1>5, <1>6, <1>7, <1>8, <1>9

(* A base with a BatchDelete of its own owes no more than its Deletes.     *)
LEMMA FlattenSingles ==
    ASSUME NEW E, NEW s \in Seq(Seq(E)), NEW d \in Seq(E), Len(d) = Len(s),
           \A i \in 1..Len(s) : s[i] = <<d[i]>>
    PROVE  FlattenSeq(s) = d
<1> DEFINE n == Len(s)
<1>0. n \in Nat
  BY LenProperties
<1>1. CASE s = <<>>
  <2>1. n = 0 /\ d = <<>>
    BY <1>1, EmptySeq
  <2> QED BY <1>1, <2>1 DEF FlattenSeq
<1>2. CASE s # <<>>
  <2>1. PICK f : IsFlat(s, n, f) /\ FlattenSeq(s) = f[n]
    BY <1>2, FlatIs
  <2>2. \A i \in 1..n : f[i] \in Seq(E) /\ f[i] = IF i = 1 THEN s[i] ELSE f[i - 1] \o s[i]
    BY <2>1, FlatType
  <2> DEFINE S == {i \in 0..n : i = 0 \/ (Len(f[i]) = i /\ \A j \in 1..i : f[i][j] = d[j])}
  <2>3. ASSUME NEW i \in 0..(n - 1), i \in S PROVE i + 1 \in S
    <3>1. i + 1 \in 1..n /\ i + 1 \in 0..n /\ (i + 1) - 1 = i
      BY <1>0
    <3>2. s[i + 1] = <<d[i + 1]>> /\ d[i + 1] \in E
      BY <3>1, ElementOfSeq
    <3> HIDE DEF n
    <3>3. CASE i = 0
      <4>1. f[1] = <<d[1]>>
        BY <2>2, <3>1, <3>2, <3>3
      <4>2. Len(f[1]) = 1 /\ \A j \in 1..1 : f[1][j] = d[j]
        BY <4>1
      <4> QED BY <3>1, <3>3, <4>2
    <3>4. CASE i # 0
      <4>1. /\ i \in 1..n /\ f[i] \in Seq(E) /\ Len(f[i]) = i
            /\ \A j \in 1..i : f[i][j] = d[j]
        BY <1>0, <2>2, <2>3, <3>4
      <4>2. f[i + 1] = f[i] \o <<d[i + 1]>>
        <5>1. i + 1 # 1
          BY <3>4
        <5>2. f[i + 1] = f[(i + 1) - 1] \o s[i + 1]
          BY <2>2, <3>1, <5>1
        <5> QED BY <3>1, <3>2, <5>2
      <4>3. f[i + 1] = Append(f[i], d[i + 1])
        BY <3>2, <4>1, <4>2, AppendIsConcat
      <4>4. /\ Len(f[i + 1]) = i + 1
            /\ \A j \in 1..i : f[i + 1][j] = d[j]
            /\ f[i + 1][i + 1] = d[i + 1]
        BY <3>2, <4>1, <4>3, AppendProperties
      <4>5. \A j \in 1..(i + 1) : f[i + 1][j] = d[j]
        <5> SUFFICES ASSUME NEW j \in 1..(i + 1) PROVE f[i + 1][j] = d[j]
          OBVIOUS
        <5>1. j \in 1..i \/ j = i + 1
          BY <3>1
        <5> QED BY <4>4, <5>1
      <4> QED BY <3>1, <4>4, <4>5
    <3> QED BY <3>3, <3>4
  <2>4. \A i \in 0..n : i \in S
    <3> HIDE DEF S, n
    <3>1. 0 \in S
      BY <1>0 DEF S
    <3> QED BY <1>0, <2>3, <3>1, UpTo
  <2>5. n # 0
    BY <1>2, EmptySeq
  <2>6. n \in 0..n /\ n \in 1..n
    BY <1>0, <2>5
  <2>7. f[n] \in Seq(E) /\ Len(f[n]) = Len(d) /\ \A j \in 1..Len(f[n]) : f[n][j] = d[j]
    BY <2>2, <2>4, <2>5, <2>6
  <2>8. f[n] = d
    BY <2>7, SeqEqual
  <2> QED BY <2>1, <2>8
<1> QED BY <1>1, <1>2

LEMMA BatchOwesDeletes ==
    ASSUME NEW b \in Base, NEW ks \in Seq(Key)
    PROVE  FlattenSeq([i \in DOMAIN ks |-> Deletion(b, ks[i])])
             = [i \in DOMAIN ks |-> <<"deleted", b, ks[i]>>]
<1> DEFINE m == [i \in DOMAIN ks |-> Deletion(b, ks[i])]
           d == [i \in DOMAIN ks |-> <<"deleted", b, ks[i]>>]
<1>1. ASSUME NEW i \in 1..Len(ks)
      PROVE  m[i] \in Seq(Event) /\ d[i] \in Event /\ m[i] = <<d[i]>>
  <2>1. ks[i] \in Key /\ i \in DOMAIN ks /\ b \in FS
    BY ElementOfSeq, LenProperties DEF FS
  <2>2. Deletion(b, ks[i]) = << <<"deleted", b, ks[i]>> >>
    BY <2>1, AtBase
  <2>3. <<"deleted", b, ks[i]>> \in Event
    BY <2>1 DEF Event
  <2>4. m[i] = Deletion(b, ks[i]) /\ d[i] = <<"deleted", b, ks[i]>>
    BY <2>1
  <2>5. Deletion(b, ks[i]) \in Seq(Event)
    BY <2>1, DeletionIs
  <2> HIDE DEF m, d
  <2> QED BY <2>2, <2>3, <2>4, <2>5
<1>2. /\ DOMAIN m = DOMAIN ks /\ m = [i \in DOMAIN m |-> m[i]]
      /\ DOMAIN d = DOMAIN ks /\ d = [i \in DOMAIN d |-> d[i]]
  OBVIOUS
<1> HIDE DEF m, d
<1>3. m \in Seq(Seq(Event)) /\ Len(m) = Len(ks)
  BY <1>1, <1>2, MapIsSeq
<1>4. d \in Seq(Event) /\ Len(d) = Len(ks)
  BY <1>1, <1>2, MapIsSeq
<1>5. FlattenSeq(m) = d
  BY <1>1, <1>3, <1>4, FlattenSingles
<1> QED BY <1>5 DEF m, d

----------------------------------------------------------------------------
(* What is left to do when the call at hand returns, frame by frame.       *)

FrameFormed(f) ==
    /\ f.at = "hook" => f.call.fs \in Hook /\ f.call.key \in Key
    /\ f.at = "copy" => f.fs \in FS /\ f.key \in Key
    /\ f.at = "loop" => "todo" \in DOMAIN f /\ f.todo \in Seq(LoopCall)

OwedBy(f) ==
    CASE f.at = "hook" /\ f.call.op = "delete" -> << <<"told", f.call.fs, f.call.key>> >>
      [] f.at = "copy" -> Storing(f.fs, f.key)
      [] f.at = "loop" -> OwedTodo(f.todo)
      [] OTHER -> <<>>

LEMMA OwedByType ==
    ASSUME NEW f, FrameFormed(f)
    PROVE  OwedBy(f) \in Seq(Event)
<1>1. CASE f.at = "hook" /\ f.call.op = "delete"
  <2>1. << <<"told", f.call.fs, f.call.key>> >> \in Seq(Event)
    BY <1>1, AtHook DEF FrameFormed
  <2> QED BY <1>1, <2>1 DEF OwedBy
<1>2. CASE f.at = "copy"
  BY <1>2, PlaceIs DEF OwedBy, FrameFormed
<1>3. CASE f.at = "loop"
  BY <1>3, TodoType DEF OwedBy, FrameFormed
<1>4. CASE ~(f.at = "hook" /\ f.call.op = "delete") /\ f.at # "copy" /\ f.at # "loop"
  <2>1. OwedBy(f) = <<>>
    BY <1>4 DEF OwedBy
  <2> QED BY <2>1, EmptySeq
<1> QED BY <1>1, <1>2, <1>3, <1>4

Sums(s, rest) ==
    /\ rest \in [0..Len(s) -> Seq(Event)]
    /\ rest[0] = <<>>
    /\ \A i \in 1..Len(s) : FrameFormed(s[i]) /\ rest[i] = OwedBy(s[i]) \o rest[i - 1]

Left(s, r) == \E rest : Sums(s, rest) /\ r = rest[Len(s)]

LEMMA LeftType ==
    ASSUME NEW s, Stacked(s), NEW r, Left(s, r)
    PROVE  r \in Seq(Event)
<1>1. PICK rest : Sums(s, rest) /\ r = rest[Len(s)]
  BY DEF Left
<1>2. Len(s) \in Nat
  BY LenProperties DEF Stacked
<1>3. Len(s) \in 0..Len(s)
  BY <1>2
<1> QED BY <1>1, <1>3 DEF Sums

LEMMA LeftNothing == Left(<<>>, <<>>) /\ \A r : Left(<<>>, r) => r = <<>>
<1> DEFINE rest == [i \in 0..0 |-> <<>>]
<1>1. Len(<<>>) = 0 /\ 1..0 = {} /\ <<>> \in Seq(Event)
  BY EmptySeq
<1>2. rest \in [0..Len(<<>>) -> Seq(Event)] /\ rest[0] = <<>>
  BY <1>1
<1>3. Sums(<<>>, rest)
  <2> HIDE DEF rest
  <2> QED BY <1>1, <1>2 DEF Sums
<1>4. Left(<<>>, <<>>)
  <2> HIDE DEF rest
  <2>1. <<>> = rest[Len(<<>>)]
    BY <1>1, <1>2
  <2> QED BY <1>3, <2>1 DEF Left
<1>5. ASSUME NEW r, Left(<<>>, r) PROVE r = <<>>
  BY <1>1, <1>5 DEF Left, Sums
<1> QED BY <1>4, <1>5

LEMMA LeftPush ==
    ASSUME NEW s, Stacked(s), NEW r, Left(s, r), NEW f, FrameFormed(f)
    PROVE  Left(s \o <<f>>, OwedBy(f) \o r)
<1>1. PICK S : s \in Seq(S)
  BY DEF Stacked
<1> DEFINE R == S \cup {f}
           t == s \o <<f>>
           n == Len(s)
<1>2. s \in Seq(R) /\ <<f>> \in Seq(R) /\ Len(<<f>>) = 1 /\ <<f>>[1] = f
  BY <1>1, SeqMonotonic, S \subseteq R
<1>3. n \in Nat
  BY <1>1, LenProperties
<1>4. Len(t) = n + 1 /\ (\A i \in 1..n : t[i] = s[i]) /\ t[n + 1] = f
  BY <1>2, <1>3, ConcatProperties
<1>5. PICK rest : Sums(s, rest) /\ r = rest[n]
  BY DEF Left
<1> HIDE DEF t, n
<1> DEFINE more == [i \in 0..(n + 1) |-> IF i = n + 1 THEN OwedBy(f) \o r ELSE rest[i]]
<1>6. /\ rest \in [0..n -> Seq(Event)] /\ rest[0] = <<>>
      /\ \A i \in 1..n : FrameFormed(s[i]) /\ rest[i] = OwedBy(s[i]) \o rest[i - 1]
  BY <1>5 DEF Sums, n
<1>7. r \in Seq(Event) /\ OwedBy(f) \o r \in Seq(Event)
  <2>1. n \in 0..n
    BY <1>3
  <2>2. r \in Seq(Event)
    BY <1>5, <1>6, <2>1
  <2> QED BY <2>2, OwedByType, Assoc
<1>8. more \in [0..(n + 1) -> Seq(Event)] /\ more[0] = <<>> /\ more[n + 1] = OwedBy(f) \o r
      /\ \A i \in 0..n : more[i] = rest[i]
  <2>1. \A i \in 0..(n + 1) : i # n + 1 => i \in 0..n
    BY <1>3
  <2>2. 0 \in 0..(n + 1) /\ 0 # n + 1 /\ n + 1 \in 0..(n + 1)
    BY <1>3
  <2>3. \A i \in 0..n : i \in 0..(n + 1) /\ i # n + 1
    BY <1>3
  <2> QED BY <1>6, <1>7, <2>1, <2>2, <2>3
<1> HIDE DEF more
<1>9. ASSUME NEW i \in 1..(n + 1)
      PROVE  FrameFormed(t[i]) /\ more[i] = OwedBy(t[i]) \o more[i - 1]
  <2>1. CASE i = n + 1
    <3>1. i - 1 = n /\ n \in 0..n
      BY <1>3, <2>1
    <3> QED BY <1>4, <1>5, <1>8, <2>1, <3>1
  <2>2. CASE i # n + 1
    <3>1. i \in 1..n /\ i \in 0..n /\ i - 1 \in 0..n
      BY <1>3, <2>2
    <3> QED BY <1>4, <1>6, <1>8, <3>1
  <2> QED BY <2>1, <2>2
<1>10. Sums(t, more)
  BY <1>4, <1>8, <1>9 DEF Sums
<1> QED BY <1>4, <1>8, <1>10 DEF Left, t

LEMMA LeftPop ==
    ASSUME NEW s, Stacked(s), s # <<>>, NEW r, Left(s, r)
    PROVE  /\ FrameFormed(s[Len(s)]) /\ OwedBy(s[Len(s)]) \in Seq(Event)
           /\ \E q \in Seq(Event) : /\ Left(SubSeq(s, 1, Len(s) - 1), q)
                                    /\ r = OwedBy(s[Len(s)]) \o q
<1>1. PICK S : s \in Seq(S)
  BY DEF Stacked
<1> DEFINE n == Len(s)
           t == SubSeq(s, 1, n - 1)
<1>2. n \in Nat /\ n # 0
  BY <1>1, LenProperties, EmptySeq
<1>3. Len(t) = n - 1 /\ \A i \in 1..(n - 1) : t[i] = s[i]
  <2> HIDE DEF n
  <2> DEFINE m == n - 1
  <2>1. m \in Nat /\ 1 \in Int /\ \A i \in 1..m : s[i] \in S
    BY <1>1, <1>2, ElementOfSeq DEF n
  <2> HIDE DEF m
  <2>2. Len(SubSeq(s, 1, m)) = m
    BY <2>1, SubSeqProperties
  <2>3. \A i \in 1..m : SubSeq(s, 1, m)[i] = s[i]
    BY <2>1, SubSeqProperties
  <2> QED BY <2>2, <2>3 DEF m
<1>4. PICK rest : Sums(s, rest) /\ r = rest[n]
  BY DEF Left
<1>5. /\ rest \in [0..n -> Seq(Event)] /\ rest[0] = <<>>
      /\ \A i \in 1..n : FrameFormed(s[i]) /\ rest[i] = OwedBy(s[i]) \o rest[i - 1]
  BY <1>4 DEF Sums
<1> HIDE DEF t, n
<1> DEFINE less == [i \in 0..(n - 1) |-> rest[i]]
<1>6. n \in 1..n /\ n - 1 \in 0..n /\ n - 1 \in 0..(n - 1) /\ 0 \in 0..(n - 1)
      /\ \A i \in 0..(n - 1) : i \in 0..n
  BY <1>2
<1>7. less \in [0..(n - 1) -> Seq(Event)] /\ \A i \in 0..(n - 1) : less[i] = rest[i]
  BY <1>5, <1>6
<1> HIDE DEF less
<1>8. ASSUME NEW i \in 1..(n - 1)
      PROVE  FrameFormed(t[i]) /\ less[i] = OwedBy(t[i]) \o less[i - 1]
  <2>1. i \in 1..n /\ i \in 0..(n - 1) /\ i - 1 \in 0..(n - 1)
    BY <1>2
  <2> QED BY <1>3, <1>5, <1>7, <2>1
<1>9. Sums(t, less)
  BY <1>3, <1>5, <1>6, <1>7, <1>8 DEF Sums
<1>10. Left(t, rest[n - 1]) /\ rest[n - 1] \in Seq(Event)
  BY <1>3, <1>5, <1>6, <1>7, <1>9 DEF Left
<1>11. FrameFormed(s[n]) /\ r = OwedBy(s[n]) \o rest[n - 1]
  BY <1>4, <1>5, <1>6
<1> QED BY <1>10, <1>11, OwedByType DEF t, n

(* A loop does the next of its calls.                                      *)
LEMMA LeftLoop ==
    ASSUME NEW s, Stacked(s), s # <<>>, NEW r, Left(s, r),
           s[Len(s)].at = "loop", s[Len(s)].todo # <<>>,
           NEW t, t = [s EXCEPT ![Len(s)].todo = Tail(@)]
    PROVE  /\ Head(s[Len(s)].todo) \in LoopCall
           /\ \E q \in Seq(Event) : Left(t, q) /\ r = Owed(Head(s[Len(s)].todo)) \o q
<1>1. PICK S : s \in Seq(S)
  BY DEF Stacked
<1> DEFINE n == Len(s)
           f == s[n]
           g == [f EXCEPT !.todo = Tail(@)]
<1>2. n \in Nat /\ n # 0 /\ DOMAIN s = 1..n /\ n \in 1..n
  BY <1>1, LenProperties, EmptySeq
<1>3. FrameFormed(f)
  BY LeftPop
<1>4. "todo" \in DOMAIN f /\ f.todo \in Seq(LoopCall) /\ f.at = "loop" /\ f.todo # <<>>
  BY <1>3 DEF FrameFormed
<1>5. g.at = "loop" /\ g.todo = Tail(f.todo) /\ "todo" \in DOMAIN g
  BY <1>4
<1>6. DOMAIN t = 1..n /\ t[n] = g /\ \A i \in 1..n : i # n => t[i] = s[i]
  BY <1>2
<1> HIDE DEF g
<1>7. Len(t) = n
  <2>1. t \in [1..n -> S \cup {g}]
    <3>1. \A i \in 1..n : t[i] \in S \cup {g}
      BY <1>1, <1>6, ElementOfSeq
    <3>2. t = [i \in 1..n |-> t[i]]
      BY <1>2, <1>6
    <3> HIDE DEF n, f
    <3> QED BY <3>1, <3>2
  <2>2. t \in Seq(S \cup {g})
    <3> HIDE DEF n
    <3> QED BY <1>2, <2>1, SeqDef
  <2>3. DOMAIN t = 1..Len(t) /\ Len(t) \in Nat
    BY <2>2, LenProperties
  <2> HIDE DEF n
  <2> QED BY <1>2, <1>6, <2>3
<1>8. Head(f.todo) \in LoopCall /\ Tail(f.todo) \in Seq(LoopCall)
  BY <1>4, HeadTailProperties
<1>9. FrameFormed(g)
  BY <1>5, <1>8 DEF FrameFormed
<1>10. OwedBy(f) = OwedTodo(f.todo) /\ OwedBy(g) = OwedTodo(Tail(f.todo))
  BY <1>4, <1>5 DEF OwedBy
<1>11. OwedBy(f) = Owed(Head(f.todo)) \o OwedBy(g)
  BY <1>4, <1>10, TodoFirst
<1>12. PICK rest : Sums(s, rest) /\ r = rest[n]
  BY DEF Left
<1>13. /\ rest \in [0..n -> Seq(Event)] /\ rest[0] = <<>>
       /\ \A i \in 1..n : FrameFormed(s[i]) /\ rest[i] = OwedBy(s[i]) \o rest[i - 1]
  BY <1>12 DEF Sums
<1> DEFINE q == OwedBy(g) \o rest[n - 1]
           other == [i \in 0..n |-> IF i = n THEN q ELSE rest[i]]
<1> HIDE DEF n
<1>14. n - 1 \in 0..n /\ n \in 0..n /\ 0 \in 0..n /\ 0 # n /\ n - 1 # n
  BY <1>2
<1>15. q \in Seq(Event) /\ rest[n - 1] \in Seq(Event) /\ OwedBy(g) \in Seq(Event)
  BY <1>9, <1>13, <1>14, OwedByType, Assoc
<1> HIDE DEF q
<1>16. /\ other \in [0..n -> Seq(Event)] /\ other[n] = q /\ other[0] = <<>>
       /\ \A i \in 0..n : i # n => other[i] = rest[i]
  BY <1>13, <1>14, <1>15
<1> HIDE DEF other
<1>17. ASSUME NEW i \in 1..n
       PROVE  FrameFormed(t[i]) /\ other[i] = OwedBy(t[i]) \o other[i - 1]
  <2>1. CASE i = n
    BY <1>6, <1>9, <1>14, <1>16, <2>1 DEF q
  <2>2. CASE i # n
    <3>1. i \in 0..n /\ i - 1 \in 0..n /\ i - 1 # n
      BY <1>2
    <3> QED BY <1>6, <1>13, <1>16, <2>2, <3>1
  <2> QED BY <2>1, <2>2
<1>18. Sums(t, other)
  BY <1>7, <1>16, <1>17 DEF Sums
<1>19. Left(t, q)
  BY <1>7, <1>16, <1>18 DEF Left
<1>20. r = Owed(Head(f.todo)) \o q
  <2>1. r = OwedBy(f) \o rest[n - 1]
    BY <1>2, <1>12, <1>13
  <2>2. Owed(Head(f.todo)) \in Seq(Event)
    BY <1>8, LoopCalls
  <2> HIDE DEF f
  <2>3. (Owed(Head(f.todo)) \o OwedBy(g)) \o rest[n - 1] = Owed(Head(f.todo)) \o (OwedBy(g) \o rest[n - 1])
    <3> DEFINE u == Owed(Head(f.todo))
               v == OwedBy(g)
               w == rest[n - 1]
    <3>1. u \in Seq(Event) /\ v \in Seq(Event) /\ w \in Seq(Event)
      BY <1>15, <2>2
    <3> HIDE DEF u, v, w
    <3>2. (u \o v) \o w = u \o (v \o w)
      BY SMTT(30), <3>1, Assoc
    <3> QED BY <3>2 DEF u, v, w
  <2> QED BY <1>11, <2>1, <2>3 DEF q
<1> QED BY <1>8, <1>15, <1>19, <1>20 DEF f, n

----------------------------------------------------------------------------
(* How far a call has come in its script.                                  *)

Under == {"next", "call", "rlock", "lock"}

(* It has to do what the call at hand owes and what is left then.          *)
Ahead(c, s, e, script) ==
    /\ Formed(c)
    /\ \E left : /\ Left(s, left)
                 /\ e \o (Owed(c) \o left) = script
                 /\ script = <<>> \/ Owed(c) \o left # <<>>

(* The call at hand is done.                                               *)
Done(s, e, script) == \E left : Left(s, left) /\ e \o left = script

(* It has failed, and something is missing.                                *)
Short(e, script) == \E rest \in Seq(Event) : /\ e \o rest = script
                                             /\ script = <<>> \/ rest # <<>>

(* A client at w with call c, frames s, answer a and events e.             *)
OrderAt(w, c, s, a, e, script) ==
    /\ e \in Seq(Event)
    /\ w \in Under => Ahead(c, s, e, script)
    /\ w = "rlock" => c.fs \in Table /\ c.key # <<>> /\ c.op \in Routed
    /\ w = "return" => IF a.res = "ok" THEN Done(s, e, script) ELSE Short(e, script)

LEMMA Fails ==
    ASSUME NEW s, Stacked(s), NEW c, NEW e \in Seq(Event), NEW script, Ahead(c, s, e, script)
    PROVE  Short(e, script)
<1>1. PICK left : /\ Left(s, left) /\ e \o (Owed(c) \o left) = script
                  /\ script = <<>> \/ Owed(c) \o left # <<>>
  BY DEF Ahead
<1>2. Owed(c) \o left \in Seq(Event)
  BY <1>1, OwedType, LeftType, Assoc DEF Ahead
<1> QED BY <1>1, <1>2 DEF Short

LEMMA Succeeds ==
    ASSUME NEW s, Stacked(s), NEW c, NEW e \in Seq(Event), NEW script, Ahead(c, s, e, script),
           NEW f, f = e \o Owed(c)
    PROVE  f \in Seq(Event) /\ Done(s, f, script)
<1>1. PICK left : Left(s, left) /\ e \o (Owed(c) \o left) = script
  BY DEF Ahead
<1> DEFINE o == Owed(c)
<1>2. o \in Seq(Event) /\ left \in Seq(Event)
  BY <1>1, OwedType, LeftType DEF Ahead
<1>3. e \o (o \o left) = script /\ f = e \o o
  BY <1>1
<1> HIDE DEF o
<1>4. (e \o o) \o left = e \o (o \o left) /\ e \o o \in Seq(Event)
  BY <1>2, Assoc
<1> QED BY <1>1, <1>3, <1>4 DEF Done

(* It turns into another one that owes the same.                           *)
LEMMA Turns ==
    ASSUME NEW s, NEW c, NEW e, NEW script, Ahead(c, s, e, script),
           NEW d, Formed(d), Owed(d) = Owed(c)
    PROVE  Ahead(d, s, e, script)
BY DEF Ahead

(* A part of what it owes is left to a frame.                              *)
LEMMA Pushes ==
    ASSUME NEW s, Stacked(s), NEW c, NEW e \in Seq(Event), NEW script, Ahead(c, s, e, script),
           NEW d, Formed(d), NEW f, FrameFormed(f), Owed(c) = Owed(d) \o OwedBy(f)
    PROVE  Ahead(d, s \o <<f>>, e, script)
<1>1. PICK left : /\ Left(s, left) /\ e \o (Owed(c) \o left) = script
                  /\ script = <<>> \/ Owed(c) \o left # <<>>
  BY DEF Ahead
<1>2. Left(s \o <<f>>, OwedBy(f) \o left)
  BY <1>1, LeftPush
<1> DEFINE u == Owed(d)
           v == OwedBy(f)
<1>3. u \in Seq(Event) /\ v \in Seq(Event) /\ left \in Seq(Event)
  BY <1>1, OwedType, OwedByType, LeftType
<1>4. e \o ((u \o v) \o left) = script /\ (script = <<>> \/ (u \o v) \o left # <<>>)
  BY <1>1
<1>5. Left(s \o <<f>>, v \o left)
  BY <1>2
<1> HIDE DEF u, v
<1>6. (u \o v) \o left = u \o (v \o left)
  BY SMTT(60), <1>3, Assoc
<1>7. e \o (u \o (v \o left)) = script /\ (script = <<>> \/ u \o (v \o left) # <<>>)
  BY <1>4, <1>6
<1> QED BY <1>5, <1>7 DEF Ahead, u

(* A frame has its say.                                                    *)
LEMMA Returns ==
    ASSUME NEW s, Stacked(s), s # <<>>, NEW e \in Seq(Event), NEW script, Done(s, e, script),
           NEW f, f = e \o OwedBy(s[Len(s)])
    PROVE  f \in Seq(Event) /\ Done(SubSeq(s, 1, Len(s) - 1), f, script)
<1>1. PICK left : Left(s, left) /\ e \o left = script
  BY DEF Done
<1> DEFINE o == OwedBy(s[Len(s)])
           t == SubSeq(s, 1, Len(s) - 1)
<1>2. o \in Seq(Event) /\ \E q \in Seq(Event) : Left(t, q) /\ left = o \o q
  BY <1>1, LeftPop
<1>3. PICK q \in Seq(Event) : Left(t, q) /\ left = o \o q
  BY <1>2
<1>4. f = e \o o
  OBVIOUS
<1> HIDE DEF o, t
<1>5. (e \o o) \o q = e \o (o \o q) /\ e \o o \in Seq(Event)
  BY SMTT(60), <1>2, Assoc
<1>6. f \in Seq(Event) /\ Done(t, f, script)
  BY <1>1, <1>3, <1>4, <1>5 DEF Done
<1> QED BY <1>6 DEF t

(* The call a frame makes owes what the frame did.                         *)
LEMMA Resumes ==
    ASSUME NEW s, Stacked(s), s # <<>>, NEW e \in Seq(Event), NEW script, Done(s, e, script),
           NEW d, Formed(d), Owed(d) = OwedBy(s[Len(s)]), Owed(d) # <<>>
    PROVE  Ahead(d, SubSeq(s, 1, Len(s) - 1), e, script)
<1>1. PICK left : Left(s, left) /\ e \o left = script
  BY DEF Done
<1> DEFINE o == Owed(d)
           t == SubSeq(s, 1, Len(s) - 1)
<1>2. o \in Seq(Event) /\ \E q \in Seq(Event) : Left(t, q) /\ left = o \o q
  BY <1>1, LeftPop
<1>3. PICK q \in Seq(Event) : Left(t, q) /\ left = o \o q
  BY <1>2
<1>4. o # <<>>
  OBVIOUS
<1> HIDE DEF o, t
<1>5. o \o q # <<>>
  BY <1>2, <1>4, Assoc
<1>6. e \o (o \o q) = script
  BY <1>1, <1>3
<1> QED BY <1>3, <1>5, <1>6 DEF Ahead, o, t

LEMMA LoopResumes ==
    ASSUME NEW s, Stacked(s), s # <<>>, NEW e \in Seq(Event), NEW script, Done(s, e, script),
           s[Len(s)].at = "loop", s[Len(s)].todo # <<>>,
           NEW t, t = [s EXCEPT ![Len(s)].todo = Tail(@)]
    PROVE  Ahead(Head(s[Len(s)].todo), t, e, script)
<1>1. PICK left : Left(s, left) /\ e \o left = script
  BY DEF Done
<1> DEFINE d == Head(s[Len(s)].todo)
           o == Owed(d)
<1>2. d \in LoopCall /\ \E q \in Seq(Event) : Left(t, q) /\ left = o \o q
  BY <1>1, LeftLoop
<1>3. PICK q \in Seq(Event) : Left(t, q) /\ left = o \o q
  BY <1>2
<1> HIDE DEF d
<1>4. Formed(d) /\ o \in Seq(Event) /\ o # <<>>
  BY <1>2, LoopCalls
<1> HIDE DEF o
<1>5. o \o q # <<>>
  BY <1>4, Assoc
<1>6. e \o (o \o q) = script
  BY <1>1, <1>3
<1>7. Ahead(d, t, e, script)
  BY <1>3, <1>4, <1>5, <1>6 DEF Ahead, o
<1> QED BY <1>7 DEF d

(* The script of a call whose way is certain.                              *)
Sure(script) == \A i \in DOMAIN script : script[i][2] # NoFS

LEMMA SureFirst ==
    ASSUME NEW s, Stacked(s), NEW c, NEW e \in Seq(Event), NEW script, Ahead(c, s, e, script),
           Sure(script), Owed(c) # <<>>
    PROVE  Owed(c)[1][2] # NoFS
<1>1. PICK left : Left(s, left) /\ e \o (Owed(c) \o left) = script
  BY DEF Ahead
<1> DEFINE o == Owed(c)
           y == o \o left
<1>2. o \in Seq(Event) /\ left \in Seq(Event) /\ o # <<>> /\ e \o y = script
  BY <1>1, OwedType, LeftType DEF Ahead
<1> HIDE DEF o
<1>3. /\ Len(o) \in Nat /\ Len(o) # 0 /\ Len(left) \in Nat /\ Len(e) \in Nat
      /\ y \in Seq(Event) /\ Len(y) = Len(o) + Len(left) /\ y[1] = o[1]
  BY <1>2, LenProperties, EmptySeq, ConcatProperties
<1> HIDE DEF y
<1>4. /\ e \o y \in Seq(Event) /\ Len(e \o y) = Len(e) + Len(y)
      /\ (e \o y)[Len(e) + 1] = y[1]
  <2>1. /\ e \o y \in Seq(Event) /\ Len(e \o y) = Len(e) + Len(y)
        /\ \A i \in 1..(Len(e) + Len(y)) : (e \o y)[i] = IF i <= Len(e) THEN e[i] ELSE y[i - Len(e)]
    <3>1. y \in Seq(Event) /\ e \in Seq(Event)
      BY <1>3
    <3> QED BY <3>1, ConcatProperties, Zenon
  <2>2. Len(e) + 1 \in 1..(Len(e) + Len(y)) /\ ~(Len(e) + 1 <= Len(e)) /\ (Len(e) + 1) - Len(e) = 1
    BY <1>3
  <2> QED BY <2>1, <2>2
<1>5. Len(e) + 1 \in DOMAIN script /\ script[Len(e) + 1] = o[1]
  <2>1. DOMAIN script = 1..Len(script)
    BY <1>2, <1>4, LenProperties
  <2> QED BY <1>2, <1>3, <1>4, <2>1
<1> QED BY <1>5 DEF Sure, o

----------------------------------------------------------------------------
(* The steps of a call.                                                    *)

InOrder(p, script) == OrderAt(pc[p], cur[p], stack[p], ans[p], events[p], script)

LEMMA Appends ==
    ASSUME NEW e \in Seq(Event), NEW x \in Event
    PROVE  Append(e, x) = e \o <<x>>
BY AppendIsConcat

LEMMA BaseSucceeds ==
    ASSUME Domains, NEW p \in Proc, NEW e \in Seq(Event), Formed(cur[p]), e = events[p],
           BaseReturns(p), ans'[p].res = "ok"
    PROVE  events'[p] = e \o Owed(cur[p])
<1> DEFINE c == cur[p]
<1>0. c.fs \in Base /\ DOMAIN events = Proc /\ DOMAIN ans = Proc
  BY BaseReturning DEF Domains
<1>1. CASE Get(p)
  <2>1. Owed(c) = <<>> /\ events'[p] = e
    BY <1>1 DEF Get, Calling, Owed
  <2> QED BY <2>1, ConcatEmptySeq
<1>2. CASE Put(p)
  <2>1. c.op = "put" /\ c.key \in Key /\ events'[p] = Append(e, <<"stored", c.fs, c.key>>)
    BY <1>0, <1>2 DEF Put, Calling, Happens, Formed
  <2> QED BY <1>0, <2>1, AtBase, Appends DEF Owed, Event, FS
<1>3. CASE Delete(p)
  <2>1. c.op = "delete" /\ c.key \in Key /\ events'[p] = Append(e, <<"deleted", c.fs, c.key>>)
    BY <1>0, <1>3 DEF Delete, Calling, Happens, Answer, Formed
  <2> QED BY <1>0, <2>1, AtBase, Appends DEF Owed, Event, FS
<1>4. CASE CopyObject(p) \/ CopyFills(p)
  <2>1. /\ c.op \in {"copy", "fill"} /\ c.dst \in Key
        /\ events'[p] = Append(e, <<"stored", c.fs, c.dst>>)
    BY <1>0, <1>4 DEF CopyObject, CopyFills, Calling, Happens, Answer, Formed
  <2>2. Owed(c) = Storing(c.fs, c.dst)
    BY <2>1 DEF Owed
  <2> QED BY <1>0, <2>1, <2>2, AtBase, Appends DEF Event, FS
<1>5. CASE DeleteObjects(p)
  <2>1. c.op = "batch"
    BY <1>5 DEF DeleteObjects, Calling
  <2>2. events'[p] = e \o [i \in DOMAIN c.keys |-> <<"deleted", c.fs, c.keys[i]>>]
    BY <1>0, <1>5 DEF DeleteObjects
  <2> QED BY <2>1, <2>2 DEF Owed
<1>6. ~Fail(p) /\ ~Lost(p)
  BY <1>0, BaseReturning DEF Fail, Lost, Answer
<1> QED BY <1>1, <1>2, <1>3, <1>4, <1>5, <1>6 DEF BaseReturns

LEMMA BaseOrder ==
    ASSUME Domains, NEW p \in Proc, Runs(p), NEW script, InOrder(p, script),
           BaseReturns(p) \/ Refuse(p)
    PROVE  InOrder(p, script)'
<1> DEFINE c == cur[p]
           s == stack[p]
           e == events[p]
<1>1. /\ pc[p] = "call" /\ pc'[p] = "return" /\ stack'[p] = s
      /\ DOMAIN ans = Proc /\ DOMAIN events = Proc
  BY BaseReturning DEF Refuse, Answer, Calling, At, Goto, Domains, LockTypeOK
<1>2. Stacked(s) /\ e \in Seq(Event) /\ Ahead(c, s, e, script) /\ Formed(c)
  BY <1>1 DEF InOrder, OrderAt, Under, Ahead, Runs
<1>3. CASE ans'[p].res # "ok" /\ events' = events
  <2>1. Short(e, script)
    BY <1>2, Fails
  <2> QED BY <1>1, <1>2, <1>3, <2>1 DEF InOrder, OrderAt, Under
<1>4. CASE ans'[p].res = "ok"
  <2>1. ~Refuse(p)
    BY <1>1, <1>4 DEF Refuse, Answer
  <2>2. events'[p] = e \o Owed(c)
    BY <1>2, <1>4, <2>1, BaseSucceeds
  <2>3. events'[p] \in Seq(Event) /\ Done(s, events'[p], script)
    <3> HIDE DEF c, s, e
    <3> QED BY <1>2, <2>2, Succeeds
  <2> QED BY <1>1, <1>4, <2>3 DEF InOrder, OrderAt, Under
<1>5. ans'[p].res = "ok" \/ events' = events
  BY <1>1 DEF BaseReturns, Get, Put, Delete, CopyObject, CopyFills, DeleteObjects, Fail, Lost,
              Refuse, Answer
<1> QED BY <1>3, <1>4, <1>5

(* What p sees of it.                                                      *)
LEMMA CopyBegins ==
    ASSUME Domains, NEW p \in Proc, CopyOpens(p) \/ CopyCreates(p)
    PROVE  \/ /\ pc'[p] = "return" /\ stack'[p] = stack[p] /\ cur'[p] = cur[p]
              /\ ans'[p].res = "notfound"
           \/ /\ pc'[p] = "call" /\ CopyOpens(p)
              /\ Become(p, [op |-> "create", fs |-> cur[p].fs, key |-> cur[p].key,
                            dst |-> cur[p].dst, data |-> Held(p)], <<>>)
           \/ /\ pc'[p] = "call" /\ ~CopyOpens(p)
              /\ Become(p, [cur[p] EXCEPT !.op = "fill"], <<>>)
<1>0. DOMAIN pc = Proc /\ DOMAIN ans = Proc
  BY DEF Domains, LockTypeOK
<1>1. CASE CopyOpens(p)
  <2>1. CASE Held(p) = NoFile
    BY <1>0, <1>1, <2>1 DEF CopyOpens, Answer, Goto
  <2>2. CASE Held(p) # NoFile
    BY Zenon, <1>0, <1>1, <2>2 DEF CopyOpens, Goto
  <2> QED BY <2>1, <2>2
<1>2. CASE CopyCreates(p)
  <2>1. ~CopyOpens(p) /\ pc'[p] = "call"
    BY <1>2 DEF CopyOpens, CopyCreates, Calling, At
  <2> QED BY <1>2, <2>1 DEF CopyCreates
<1> QED BY <1>1, <1>2

(* The Copy of a LocalFS owes the same all the way.                        *)
LEMMA CopyBeginsOrder ==
    ASSUME Domains, NEW p \in Proc, Runs(p), NEW script, InOrder(p, script),
           CopyOpens(p) \/ CopyCreates(p)
    PROVE  InOrder(p, script)'
<1> DEFINE c == cur[p]
           s == stack[p]
           e == events[p]
           d == [op |-> "create", fs |-> c.fs, key |-> c.key, dst |-> c.dst, data |-> Held(p)]
           g == [c EXCEPT !.op = "fill"]
<1>1. /\ pc[p] = "call" /\ events' = events /\ c.fs \in Base
      /\ c.op = IF CopyOpens(p) THEN "copy" ELSE "create"
  BY CopyBeginning DEF CopyOpens, CopyCreates, Calling
<1>2. Stacked(s) /\ e \in Seq(Event) /\ Ahead(c, s, e, script) /\ Formed(c)
  BY <1>1 DEF InOrder, OrderAt, Under, Ahead, Runs
<1>3. CASE pc'[p] = "return"
  <2>1. stack'[p] = s /\ ans'[p].res # "ok"
    BY <1>3, CopyBegins
  <2>2. Short(e, script)
    BY <1>2, Fails
  <2> QED BY <1>1, <1>2, <1>3, <2>1, <2>2 DEF InOrder, OrderAt, Under
<1>4. ASSUME NEW x, Become(p, x, <<>>), pc'[p] = "call", Formed(x), Owed(x) = Owed(c)
      PROVE  InOrder(p, script)'
  <2>1. cur'[p] = x /\ stack'[p] = s
    BY <1>2, <1>4, StackSame DEF Become, Domains, LockTypeOK
  <2>2. Ahead(x, s, e, script)
    BY <1>2, <1>4, Turns
  <2> QED BY <1>1, <1>2, <1>4, <2>1, <2>2 DEF InOrder, OrderAt, Under
<1>5. CASE CopyOpens(p) /\ Become(p, d, <<>>) /\ pc'[p] = "call"
  <2>1. c.dst \in Key /\ Owed(c) = Storing(c.fs, c.dst)
    BY <1>1, <1>2, <1>5 DEF Formed, Owed
  <2>2. Formed(d) /\ Owed(d) = Storing(c.fs, c.dst)
    BY <1>1, <2>1 DEF Formed, Owed
  <2> HIDE DEF c, d
  <2> QED BY <1>4, <1>5, <2>1, <2>2
<1>6. CASE ~CopyOpens(p) /\ Become(p, g, <<>>) /\ pc'[p] = "call"
  <2>1. /\ {"op", "fs", "dst"} \subseteq DOMAIN c /\ c.dst \in Key
        /\ Owed(c) = Storing(c.fs, c.dst)
    BY <1>1, <1>2, <1>6 DEF Formed, Owed
  <2>2. DOMAIN g = DOMAIN c /\ g.op = "fill" /\ g.fs = c.fs /\ g.dst = c.dst
    BY <2>1
  <2> HIDE DEF c, g
  <2>3. Formed(g) /\ Owed(g) = Storing(c.fs, c.dst)
    BY <1>1, <2>1, <2>2 DEF Formed, Owed
  <2> QED BY <1>4, <1>6, <2>1, <2>3
<1> QED BY <1>3, <1>5, <1>6, CopyBegins

LEMMA WaitsOrder ==
    ASSUME Domains, NEW p \in Proc, Runs(p), NEW script, InOrder(p, script),
           Begin(p) \/ Cancelled(p) \/ Resolve(p) \/ LockTable(p)
    PROVE  InOrder(p, script)'
<1> USE DEF At, Goto, Domains, LockTypeOK, Under
<1>1. OrderAt(pc[p], cur[p], stack[p], ans[p], events[p], script)
  BY DEF InOrder
<1>2. CASE Begin(p)
  <2>1. pc[p] = "next" /\ pc'[p] = "call" /\ UNCHANGED <<cur, stack, ans, events>>
    BY <1>2 DEF Begin
  <2> QED BY <1>1, <2>1 DEF InOrder, OrderAt
<1>3. CASE Cancelled(p)
  <2>1. pc[p] = "next" /\ pc'[p] = "return" /\ UNCHANGED <<stack, events>> /\ ans'[p].res = "error"
    BY <1>3 DEF Cancelled
  <2>2. Short(events[p], script)
    BY <1>1, <2>1, Fails DEF OrderAt, Runs
  <2> QED BY <1>1, <2>1, <2>2 DEF InOrder, OrderAt
<1>4. CASE Resolve(p)
  <2>1. /\ pc[p] = "call" /\ pc'[p] = "rlock" /\ UNCHANGED <<cur, stack, ans, events>>
        /\ cur[p].fs \in Table /\ cur[p].key # <<>> /\ cur[p].op \in Routed
    BY <1>4 DEF Resolve, Calling
  <2> QED BY <1>1, <2>1 DEF InOrder, OrderAt
<1>5. CASE LockTable(p)
  <2>1. pc[p] = "call" /\ pc'[p] = "lock" /\ UNCHANGED <<cur, stack, ans, events>>
    BY <1>5 DEF LockTable, Calling
  <2> QED BY <1>1, <2>1 DEF InOrder, OrderAt
<1> QED BY <1>2, <1>3, <1>4, <1>5

LEMMA ForwardOrder ==
    ASSUME Domains, NEW p \in Proc, Runs(p), NEW script, InOrder(p, script), Forward(p)
    PROVE  InOrder(p, script)'
<1> DEFINE c == cur[p]
           s == stack[p]
           f == [at |-> "hook", call |-> c]
           inner == [c EXCEPT !.fs = Inner(c.fs)]
           d == IF c.op = "put" THEN [inner EXCEPT !.data = WrapPut(c.fs, c.key, @)] ELSE inner
<1>1. /\ c.fs \in Hook /\ c.op \in {"get", "put", "delete", "copy", "batch"} /\ pc[p] = "call"
      /\ pc'[p] = "call" /\ cur'[p] = d /\ stack'[p] = s \o <<f>> /\ events'[p] = events[p]
  BY DEF Forward, At, Become, Domains, LockTypeOK
<1>2. Stacked(s) /\ events[p] \in Seq(Event) /\ Ahead(c, s, events[p], script) /\ Formed(c)
  BY <1>1 DEF InOrder, OrderAt, Under, Ahead, Runs
<1>3. /\ c.op \in {"get", "put", "delete"} /\ {"op", "fs", "key"} \subseteq DOMAIN c
      /\ c.key \in Key /\ (c.op = "put" => "data" \in DOMAIN c)
  BY <1>1, <1>2, CompositionAssumption DEF Formed
<1>4. /\ inner.op = c.op /\ inner.key = c.key /\ inner.fs = Inner(c.fs)
      /\ {"op", "fs", "key"} \subseteq DOMAIN inner
      /\ c.op = "put" => "data" \in DOMAIN inner
  BY <1>3
<1> HIDE DEF inner
<1>5. /\ d.op = c.op /\ d.key = c.key /\ d.fs = Inner(c.fs)
      /\ {"op", "fs", "key"} \subseteq DOMAIN d
      /\ c.op = "put" => "data" \in DOMAIN d
  BY <1>4
<1>6. f.at = "hook" /\ f.call = c
  OBVIOUS
<1> HIDE DEF c, d, f, s
<1>7. Inner(c.fs) \in FS
  BY <1>1, HookHasLevel
<1>8. Formed(d) /\ FrameFormed(f)
  BY <1>1, <1>3, <1>5, <1>6, <1>7 DEF Formed, FrameFormed
<1>9. Owed(c) = Owed(d) \o OwedBy(f)
  <2>1. CASE c.op = "delete"
    <3>1. Owed(c) = Deletion(c.fs, c.key) /\ Owed(d) = Deletion(Inner(c.fs), c.key)
      BY <1>5, <2>1 DEF Owed
    <3>2. OwedBy(f) = << <<"told", c.fs, c.key>> >>
      BY <1>6, <2>1 DEF OwedBy
    <3> QED BY <1>1, <1>3, <3>1, <3>2, AtHook
  <2>2. CASE c.op # "delete"
    <3>1. OwedBy(f) = <<>>
      BY <1>6, <2>2 DEF OwedBy
    <3>2. Owed(c) = Owed(d)
      <4>1. CASE c.op = "put"
        BY <1>1, <1>3, <1>5, <4>1, AtHook DEF Owed
      <4>2. CASE c.op = "get"
        BY <1>5, <4>2 DEF Owed
      <4> QED BY <1>3, <2>2, <4>1, <4>2
    <3>3. Owed(d) \o <<>> = Owed(d)
      BY <1>8, OwedType, ConcatEmptySeq
    <3> QED BY <3>1, <3>2, <3>3
  <2> QED BY <2>1, <2>2
<1>10. Ahead(d, s \o <<f>>, events[p], script)
  BY <1>2, <1>8, <1>9, Pushes
<1> QED BY <1>1, <1>2, <1>10 DEF InOrder, OrderAt, Under

LEMMA HookReturnsOrder ==
    ASSUME Domains, NEW p \in Proc, Runs(p), AnsShape(p), NEW script, InOrder(p, script),
           HookReturns(p)
    PROVE  InOrder(p, script)'
<1> DEFINE s == stack[p]
           f == s[Len(s)]
           c == f.call
           t == SubSeq(s, 1, Len(s) - 1)
           e == events[p]
<1>1. /\ pc[p] = "return" /\ pc'[p] = "return" /\ stack'[p] = t
      /\ s # <<>> /\ f.at = "hook" /\ Stacked(s)
  BY DEF HookReturns, At, Top, Pop, Domains, LockTypeOK, Runs
<1>2. ans'[p].res = ans[p].res
  BY DEF HookReturns, Domains, AnsShape
<1>3. /\ e \in Seq(Event)
      /\ IF ans[p].res = "ok" THEN Done(s, e, script) ELSE Short(e, script)
  BY <1>1 DEF InOrder, OrderAt
<1>4. CASE ans[p].res # "ok"
  <2>1. events' = events
    BY <1>4 DEF HookReturns
  <2> QED BY <1>1, <1>2, <1>3, <1>4, <2>1 DEF InOrder, OrderAt, Under
<1>5. CASE ans[p].res = "ok"
  <2>0. FrameFormed(f)
    <3>1. PICK left : Left(s, left)
      BY <1>3, <1>5 DEF Done
    <3> QED BY <1>1, <3>1, LeftPop
  <2>1. events'[p] = e \o OwedBy(f)
    <3>1. CASE c.op = "delete"
      <4>1. events'[p] = Append(e, <<"told", c.fs, c.key>>)
        BY <1>5, <3>1 DEF HookReturns, Top, Happens, Domains
      <4>2. OwedBy(f) = << <<"told", c.fs, c.key>> >>
        BY <1>1, <3>1 DEF OwedBy
      <4>3. <<"told", c.fs, c.key>> \in Event
        BY <1>1, <2>0 DEF FrameFormed, Event, FS
      <4> QED BY <1>3, <4>1, <4>2, <4>3, Appends
    <3>2. CASE c.op # "delete"
      <4>1. events'[p] = e
        BY <3>2 DEF HookReturns, Top
      <4>2. OwedBy(f) = <<>>
        BY <1>1, <3>2 DEF OwedBy
      <4> QED BY <1>3, <4>1, <4>2, ConcatEmptySeq
    <3> QED BY <3>1, <3>2
  <2>2. Done(s, e, script)
    BY <1>3, <1>5
  <2> HIDE DEF s, e
  <2>3. events'[p] \in Seq(Event) /\ Done(t, events'[p], script)
    BY <1>1, <1>3, <2>1, <2>2, Returns
  <2> QED BY <1>1, <1>2, <1>5, <2>3 DEF InOrder, OrderAt, Under
<1> QED BY <1>4, <1>5

(* Copy: what it owes is the Put, and that is left to a frame, or to the   *)
(* file system itself.                                                     *)
LEMMA CopyToOrder ==
    ASSUME Domains, NEW p \in Proc, Runs(p), NEW script, NEW c, events[p] \in Seq(Event),
           Ahead(c, stack[p], events[p], script),
           NEW f \in FS, NEW g \in FS, NEW k \in Key, NEW l \in Key, Owed(c) = Storing(g, l),
           CopyTo(p, f, k, g, l), UNCHANGED events
    PROVE  InOrder(p, script)'
<1> DEFINE s == stack[p]
           e == events[p]
<1>0. pc'[p] = "call" /\ events'[p] = e /\ Stacked(s)
  BY DEF CopyTo, Goto, Domains, LockTypeOK, Runs
<1>1. CASE f = g /\ Offers(f, Copiers \cup Table)
  <2> DEFINE d == [op |-> "copy", fs |-> f, key |-> k, dst |-> l]
  <2>1. cur'[p] = d /\ stack'[p] = s
    BY <1>0, <1>1, StackSame DEF CopyTo, Become, Domains, LockTypeOK
  <2>2. Formed(d)
    BY <1>1, InterfaceAssumption DEF Offers, Formed
  <2>3. Owed(d) = Storing(f, l)
    BY DEF Owed
  <2> HIDE DEF d
  <2>4. Ahead(d, s, e, script)
    BY <1>1, <2>2, <2>3, Turns
  <2> QED BY <1>0, <2>1, <2>4 DEF InOrder, OrderAt, Under
<1>2. CASE ~(f = g /\ Offers(f, Copiers \cup Table))
  <2> DEFINE d == GetAt(f, k)
             frame == [at |-> "copy", fs |-> g, key |-> l]
  <2>1. cur'[p] = d /\ stack'[p] = s \o <<frame>>
    BY <1>2 DEF CopyTo, Become, Domains, LockTypeOK
  <2>2. Formed(d) /\ FrameFormed(frame)
    BY DEF Formed, FrameFormed, GetAt
  <2>3. Owed(d) = <<>> /\ OwedBy(frame) = Storing(g, l)
    BY DEF Owed, OwedBy, GetAt
  <2>4. Owed(c) = <<>> \o Storing(g, l)
    BY PlaceIs, ConcatEmptySeq
  <2> HIDE DEF d, frame
  <2>5. Ahead(d, s \o <<frame>>, e, script)
    BY <1>0, <2>2, <2>3, <2>4, Pushes
  <2> QED BY <1>0, <2>1, <2>5 DEF InOrder, OrderAt, Under
<1> QED BY <1>1, <1>2

LEMMA CopyOrder ==
    ASSUME Domains, NEW p \in Proc, Runs(p), NEW script, InOrder(p, script), Copy(p)
    PROVE  InOrder(p, script)'
<1> DEFINE c == cur[p]
<1>1. pc[p] = "call" /\ c.op = "copyto" /\ CopyTo(p, c.fs, c.key, c.dfs, c.dst) /\ UNCHANGED events
  BY DEF Copy, At
<1>2. events[p] \in Seq(Event) /\ Ahead(c, stack[p], events[p], script) /\ Formed(c)
  BY <1>1 DEF InOrder, OrderAt, Under, Ahead
<1>3. c.fs \in FS /\ c.dfs \in FS /\ c.key \in Key /\ c.dst \in Key
  BY <1>1, <1>2 DEF Formed
<1>4. Owed(c) = Storing(c.dfs, c.dst)
  BY <1>1 DEF Owed
<1> HIDE DEF c
<1> QED BY <1>1, <1>2, <1>3, <1>4, CopyToOrder

(* A loop: what it owes is left to its calls.                              *)
LEMMA LoopOrder ==
    ASSUME Domains, NEW p \in Proc, Runs(p), NEW script, NEW c, events[p] \in Seq(Event),
           Ahead(c, stack[p], events[p], script),
           NEW todo \in Seq(LoopCall), Owed(c) = OwedTodo(todo), Loop(p, todo), UNCHANGED events
    PROVE  InOrder(p, script)'
<1> DEFINE s == stack[p]
           e == events[p]
<1>0. Stacked(s) /\ events'[p] = e
  BY DEF Runs
<1>1. CASE todo = <<>>
  <2>1. pc'[p] = "return" /\ stack'[p] = s /\ ans'[p].res = "ok"
    BY <1>1 DEF Loop, Answer, Goto, Domains, LockTypeOK
  <2>2. e = e \o Owed(c)
    BY <1>1, TodoEmpty, ConcatEmptySeq
  <2> HIDE DEF s, e
  <2>3. Done(s, e, script)
    BY <1>0, <2>2, Succeeds DEF e, s
  <2> QED BY <1>0, <2>1, <2>3 DEF InOrder, OrderAt, Under, e
<1>2. CASE todo # <<>>
  <2> DEFINE d == Head(todo)
             f == [at |-> "loop", todo |-> Tail(todo)]
  <2>1. pc'[p] = "next" /\ cur'[p] = d /\ stack'[p] = s \o <<f>>
    BY <1>2 DEF Loop, Become, Goto, Domains, LockTypeOK
  <2>2. d \in LoopCall /\ Tail(todo) \in Seq(LoopCall)
    BY <1>2, HeadTailProperties
  <2>3. Formed(d)
    <3> HIDE DEF d
    <3> QED BY <2>2, LoopCalls
  <2>4. FrameFormed(f) /\ OwedBy(f) = OwedTodo(Tail(todo))
    BY <2>2 DEF FrameFormed, OwedBy
  <2>5. Owed(c) = Owed(d) \o OwedTodo(Tail(todo))
    BY <1>2, TodoFirst
  <2> HIDE DEF d, f
  <2>6. Ahead(d, s \o <<f>>, e, script)
    BY <1>0, <2>3, <2>4, <2>5, Pushes
  <2> QED BY <1>0, <2>1, <2>6 DEF InOrder, OrderAt, Under
<1> QED BY <1>1, <1>2

LEMMA BatchDeleteOrder ==
    ASSUME Domains, NEW p \in Proc, Runs(p), NEW script, InOrder(p, script), BatchDelete(p)
    PROVE  InOrder(p, script)'
<1> DEFINE c == cur[p]
           ks == c.keys
           m == [i \in DOMAIN ks |-> Deletion(c.fs, ks[i])]
<1>1. pc[p] = "call" /\ c.op = "batchdelete" /\ UNCHANGED events /\ Stacked(stack[p])
  BY DEF BatchDelete, At, Runs
<1>2. events[p] \in Seq(Event) /\ Ahead(c, stack[p], events[p], script) /\ Formed(c)
  BY <1>1 DEF InOrder, OrderAt, Under, Ahead
<1>3. c.fs \in FS /\ ks \in Seq(Key)
  BY <1>1, <1>2 DEF Formed
<1>4. Owed(c) = FlattenSeq(m)
  BY <1>1 DEF Owed
<1>5. CASE Offers(c.fs, BatchDeleters)
  <2> DEFINE d == [op |-> "batch", fs |-> c.fs, keys |-> ks]
  <2>1. pc'[p] = "call" /\ cur'[p] = d /\ stack'[p] = stack[p] \o <<>> /\ events'[p] = events[p]
    BY <1>1, <1>5 DEF BatchDelete, Become, Goto, Domains, LockTypeOK
  <2>2. stack'[p] = stack[p]
    BY <1>1, <2>1, StackSame
  <2>3. c.fs \in Base
    BY <1>5, InterfaceAssumption DEF Offers
  <2>4. Formed(d)
    BY <1>3, <2>3 DEF Formed
  <2>5. Owed(d) = [i \in DOMAIN ks |-> <<"deleted", c.fs, ks[i]>>]
    BY DEF Owed
  <2>6. Owed(d) = Owed(c)
    BY <1>3, <1>4, <2>3, <2>5, BatchOwesDeletes
  <2> HIDE DEF c, d
  <2>7. Ahead(d, stack[p], events[p], script)
    BY <1>2, <2>4, <2>6, Turns
  <2> QED BY <1>2, <2>1, <2>2, <2>7 DEF InOrder, OrderAt, Under
<1>6. CASE ~Offers(c.fs, BatchDeleters)
  <2> DEFINE todo == [i \in DOMAIN ks |-> DelAt(c.fs, ks[i])]
  <2>1. Loop(p, todo)
    BY <1>6 DEF BatchDelete
  <2>2. \A i \in 1..Len(ks) : todo[i] \in LoopCall /\ Owed(todo[i]) = m[i]
    <3> SUFFICES ASSUME NEW i \in 1..Len(ks) PROVE todo[i] \in LoopCall /\ Owed(todo[i]) = m[i]
      OBVIOUS
    <3>1. ks[i] \in Key /\ i \in DOMAIN ks
      BY <1>3, ElementOfSeq, LenProperties
    <3>2. todo[i] = DelAt(c.fs, ks[i]) /\ m[i] = Deletion(c.fs, ks[i])
      BY <3>1
    <3>3. DelAt(c.fs, ks[i]) \in LoopCall
      BY <1>3, <3>1 DEF DelAt, LoopCall
    <3>4. Owed(DelAt(c.fs, ks[i])) = Deletion(c.fs, ks[i])
      BY DEF Owed, DelAt
    <3> HIDE DEF todo, m
    <3> QED BY <3>2, <3>3, <3>4
  <2>3. DOMAIN todo = DOMAIN ks /\ todo = [i \in DOMAIN todo |-> todo[i]]
    OBVIOUS
  <2>4. DOMAIN m = DOMAIN ks /\ m = [i \in DOMAIN m |-> m[i]]
    OBVIOUS
  <2>5. DOMAIN ks = 1..Len(ks)
    BY <1>3, LenProperties
  <2> HIDE DEF todo, m, ks
  <2>6. todo \in Seq(LoopCall)
    BY <1>3, <2>2, <2>3, MapIsSeq
  <2>7. [i \in DOMAIN todo |-> Owed(todo[i])] = m
    BY <2>2, <2>3, <2>4, <2>5
  <2>8. Owed(c) = OwedTodo(todo)
    BY <1>4, <2>7 DEF OwedTodo
  <2> HIDE DEF c
  <2> QED BY <1>1, <1>2, <2>1, <2>6, <2>8, LoopOrder
<1> QED BY <1>5, <1>6

LEMMA UnpackOrder ==
    ASSUME Domains, NEW p \in Proc, Runs(p), NEW script, InOrder(p, script), Unpack(p)
    PROVE  InOrder(p, script)'
<1> DEFINE c == cur[p]
           fs == c.files
           m == [i \in DOMAIN fs |-> Storing(c.fs, fs[i].key)]
           todo == [i \in DOMAIN fs |-> PutAt(c.fs, fs[i].key, fs[i].data)]
<1>1. pc[p] = "call" /\ c.op = "unpack" /\ UNCHANGED events /\ Loop(p, todo)
  BY DEF Unpack, At
<1>2. events[p] \in Seq(Event) /\ Ahead(c, stack[p], events[p], script) /\ Formed(c)
  BY <1>1 DEF InOrder, OrderAt, Under, Ahead
<1>3. c.fs \in FS /\ fs \in Seq([key : Key, data : Payload])
  BY <1>1, <1>2 DEF Formed
<1>4. Owed(c) = FlattenSeq(m)
  BY <1>1 DEF Owed
<1>5. \A i \in 1..Len(fs) : todo[i] \in LoopCall /\ Owed(todo[i]) = m[i]
  <2> SUFFICES ASSUME NEW i \in 1..Len(fs) PROVE todo[i] \in LoopCall /\ Owed(todo[i]) = m[i]
    OBVIOUS
  <2>1. fs[i] \in [key : Key, data : Payload] /\ i \in DOMAIN fs
    BY <1>3, ElementOfSeq, LenProperties
  <2>2. todo[i] = PutAt(c.fs, fs[i].key, fs[i].data) /\ m[i] = Storing(c.fs, fs[i].key)
    BY <2>1
  <2>3. PutAt(c.fs, fs[i].key, fs[i].data) \in LoopCall
    BY <1>3, <2>1 DEF PutAt, LoopCall
  <2>4. Owed(PutAt(c.fs, fs[i].key, fs[i].data)) = Storing(c.fs, fs[i].key)
    BY DEF Owed, PutAt
  <2> HIDE DEF todo, m
  <2> QED BY <2>2, <2>3, <2>4
<1>6. DOMAIN todo = DOMAIN fs /\ todo = [i \in DOMAIN todo |-> todo[i]]
  OBVIOUS
<1>7. DOMAIN m = DOMAIN fs /\ m = [i \in DOMAIN m |-> m[i]]
  OBVIOUS
<1>8. DOMAIN fs = 1..Len(fs)
  BY <1>3, LenProperties
<1> HIDE DEF todo, m, fs
<1>9. todo \in Seq(LoopCall)
  BY <1>3, <1>5, <1>6, MapIsSeq
<1>10. [i \in DOMAIN todo |-> Owed(todo[i])] = m
  BY <1>5, <1>6, <1>7, <1>8
<1>11. Owed(c) = OwedTodo(todo)
  BY <1>4, <1>10 DEF OwedTodo
<1> HIDE DEF c
<1> QED BY <1>1, <1>2, <1>9, <1>11, LoopOrder

LEMMA PutCopyOrder ==
    ASSUME Domains, NEW p \in Proc, Runs(p), NEW script, InOrder(p, script), PutCopy(p)
    PROVE  InOrder(p, script)'
<1> DEFINE s == stack[p]
           f == s[Len(s)]
           t == SubSeq(s, 1, Len(s) - 1)
           e == events[p]
<1>1. /\ pc[p] = "return" /\ stack'[p] = t /\ events'[p] = e
      /\ s # <<>> /\ f.at = "copy" /\ Stacked(s)
  BY DEF PutCopy, At, Top, Pop, Domains, Runs
<1>2. /\ e \in Seq(Event)
      /\ IF ans[p].res = "ok" THEN Done(s, e, script) ELSE Short(e, script)
  BY <1>1 DEF InOrder, OrderAt
<1>3. CASE ans[p].res # "ok"
  <2>1. pc'[p] = "return" /\ ans'[p] = ans[p]
    BY <1>1, <1>3 DEF PutCopy
  <2> QED BY <1>1, <1>2, <1>3, <2>1 DEF InOrder, OrderAt, Under
<1>4. CASE ans[p].res = "ok"
  <2> DEFINE d == PutAt(f.fs, f.key, ans[p].data)
  <2>1. pc'[p] = "next" /\ cur'[p] = d
    BY <1>4 DEF PutCopy, Goto, Top, Domains, LockTypeOK
  <2>2. Done(s, e, script)
    BY <1>2, <1>4
  <2>3. FrameFormed(f)
    <3>1. PICK left : Left(s, left)
      BY <2>2 DEF Done
    <3> QED BY <1>1, <3>1, LeftPop
  <2>4. f.fs \in FS /\ f.key \in Key /\ OwedBy(f) = Storing(f.fs, f.key)
    BY <1>1, <2>3 DEF FrameFormed, OwedBy
  <2>5. Formed(d) /\ Owed(d) = Storing(f.fs, f.key)
    BY <2>4 DEF Formed, Owed, PutAt
  <2>6. Storing(f.fs, f.key) # <<>>
    BY <2>4, PlaceIs
  <2> HIDE DEF s, e, d
  <2>7. Ahead(d, t, e, script)
    BY <1>1, <1>2, <2>2, <2>4, <2>5, <2>6, Resumes
  <2> QED BY <1>1, <1>2, <2>1, <2>7 DEF InOrder, OrderAt, Under
<1> QED BY <1>3, <1>4

LEMMA LoopOnOrder ==
    ASSUME Domains, NEW p \in Proc, Runs(p), NEW script, InOrder(p, script), LoopOn(p)
    PROVE  InOrder(p, script)'
<1> DEFINE s == stack[p]
           f == s[Len(s)]
           e == events[p]
<1>1. /\ pc[p] = "return" /\ events'[p] = e /\ s # <<>> /\ f.at = "loop" /\ Stacked(s)
  BY DEF LoopOn, At, Top, Domains, Runs
<1>2. /\ e \in Seq(Event)
      /\ IF ans[p].res = "ok" THEN Done(s, e, script) ELSE Short(e, script)
  BY <1>1 DEF InOrder, OrderAt
<1>3. CASE ans[p].res = "ok" /\ f.todo # <<>>
  <2> DEFINE d == Head(f.todo)
             t == [s EXCEPT ![Len(s)].todo = Tail(@)]
  <2>1. pc'[p] = "next" /\ cur'[p] = d /\ stack'[p] = t
    BY <1>3 DEF LoopOn, Goto, Top, Domains, LockTypeOK
  <2>2. Done(s, e, script)
    BY <1>2, <1>3
  <2>3. t = [s EXCEPT ![Len(s)].todo = Tail(@)]
    OBVIOUS
  <2> HIDE DEF s, e, t
  <2>4. Ahead(Head(f.todo), t, e, script)
    BY <1>1, <1>2, <1>3, <2>2, <2>3, LoopResumes
  <2> QED BY <1>1, <1>2, <2>1, <2>4 DEF InOrder, OrderAt, Under
<1>4. CASE ~(ans[p].res = "ok" /\ f.todo # <<>>)
  <2> DEFINE t == SubSeq(s, 1, Len(s) - 1)
  <2>1. stack'[p] = t /\ pc'[p] = "return" /\ ans'[p] = ans[p]
    BY <1>1, <1>4 DEF LoopOn, Top, Pop, Domains
  <2>2. CASE ans[p].res # "ok"
    BY <1>1, <1>2, <2>1, <2>2 DEF InOrder, OrderAt, Under
  <2>3. CASE ans[p].res = "ok"
    <3>1. OwedBy(f) = <<>>
      BY <1>1, <1>4, <2>3, TodoEmpty DEF OwedBy
    <3>2. e = e \o OwedBy(f)
      BY <1>2, <3>1, ConcatEmptySeq
    <3>3. Done(s, e, script)
      BY <1>2, <2>3
    <3> HIDE DEF s, e
    <3>4. Done(t, e, script)
      BY <1>1, <1>2, <3>2, <3>3, Returns
    <3> QED BY <1>1, <1>2, <2>1, <2>3, <3>4 DEF InOrder, OrderAt, Under
  <2> QED BY <2>2, <2>3
<1> QED BY <1>3, <1>4

(* The tables lead where they did at the beginning, but for the entries    *)
(* that clients change.                                                    *)
Steady == \A e \in Entry \ Changing : mounts[e[1]][e[2]] = Mounted[e[1]][e[2]]

(* A call that knows its way finds at a table what Way does.               *)
LEMMA LookupOrder ==
    ASSUME Domains, Steady, NEW p \in Proc, Runs(p), NEW script, Sure(script),
           InOrder(p, script), Lookup(p)
    PROVE  InOrder(p, script)'
<1> DEFINE c == cur[p]
           s == stack[p]
           e == events[p]
           f == mounts[c.fs][Head(c.key)]
           sub == Tail(c.key)
<1>1. /\ pc[p] = "rlock" /\ PassOn(p, f) /\ events'[p] = e /\ UNCHANGED events /\ Stacked(s)
  BY DEF Lookup, At, Runs
<1>2. /\ e \in Seq(Event) /\ Ahead(c, s, e, script) /\ Formed(c)
      /\ c.fs \in Table /\ c.key # <<>> /\ c.op \in Routed
  BY <1>1 DEF InOrder, OrderAt, Under, Ahead
<1>3. c.key \in Key
  BY <1>2 DEF Formed, Routed
<1>4. Head(c.key) \in Name /\ sub \in Key
  BY <1>2, <1>3, ClientAssumption, HeadTailProperties
<1>5. f \in FS \cup {NoFS}
  BY <1>2, <1>4 DEF Domains
<1>6. CASE f = NoFS
  <2>1. pc'[p] = "return" /\ stack'[p] = s /\ ans'[p].res = "notfound"
    BY <1>1, <1>6 DEF PassOn, Answer, Goto, Domains, LockTypeOK
  <2>2. Short(e, script)
    BY <1>1, <1>2, Fails
  <2> QED BY <1>1, <1>2, <2>1, <2>2 DEF InOrder, OrderAt, Under
<1>7. CASE f # NoFS /\ c.op = "copy"
  <2> DEFINE d == [op |-> "copydst", fs |-> c.fs, key |-> c.dst, sfs |-> f, skey |-> sub]
  <2>1. pc'[p] = "call" /\ cur'[p] = d /\ stack'[p] = s \o <<>>
    BY <1>1, <1>7 DEF PassOn, AskForDst, Become, Goto, Domains, LockTypeOK
  <2>2. stack'[p] = s
    BY <1>1, <2>1, StackSame
  <2>3. Formed(d)
    BY <1>2, <1>4, <1>5, <1>7 DEF Formed
  <2>4. Owed(d) = Owed(c)
    BY <1>7 DEF Owed
  <2> HIDE DEF c, d, s, e
  <2>5. Ahead(d, s, e, script)
    BY <1>2, <2>3, <2>4, Turns
  <2> QED BY <1>1, <1>2, <2>1, <2>2, <2>5 DEF InOrder, OrderAt, Under
<1>8. ASSUME c.op \in {"put", "delete", "copydst"}
      PROVE  /\ c.op \in {"put", "copydst"} => Owed(c) = Storing(f, sub)
             /\ c.op = "delete" => Owed(c) = Deletion(f, sub)
  <2>1. /\ c.op \in {"put", "copydst"} => Owed(c) = Storing(c.fs, c.key)
        /\ c.op = "delete" => Owed(c) = Deletion(c.fs, c.key)
    BY <1>8 DEF Owed
  <2>2. c.fs \in FS
    BY <1>2 DEF FS
  <2> DEFINE t == c.fs
             k == c.key
  <2>3. Owed(c) # <<>> /\ Owed(c)[1][2] = Place(t, k)[1]
    <3>1. t \in FS /\ k \in Key
      BY <1>3, <2>2
    <3>2. /\ c.op \in {"put", "copydst"} => Owed(c) = Storing(t, k)
          /\ c.op = "delete" => Owed(c) = Deletion(t, k)
      BY <2>1
    <3> HIDE DEF t, k
    <3>3. /\ Storing(t, k) # <<>> /\ Storing(t, k)[1][2] = Place(t, k)[1]
          /\ Deletion(t, k) # <<>> /\ Deletion(t, k)[1][2] = Place(t, k)[1]
      BY <3>1, PlaceIs, DeletionIs
    <3> QED BY <1>8, <3>2, <3>3
  <2>4. Owed(c)[1][2] # NoFS
    <3> HIDE DEF c, s, e
    <3> QED BY <1>1, <1>2, <2>3, SureFirst
  <2>5. Place(t, k)[1] # NoFS /\ t \in Table /\ k \in Key
    BY <1>2, <1>3, <2>3, <2>4
  <2> HIDE DEF t, k
  <2>6. /\ <<t, Head(k)>> \in Entry \ Changing
        /\ Storing(t, k) = Storing(Mounted[t][Head(k)], Tail(k))
        /\ Deletion(t, k) = Deletion(Mounted[t][Head(k)], Tail(k))
    BY <2>5, AtTable
  <2>7. mounts[t][Head(k)] = Mounted[t][Head(k)]
    BY <2>6 DEF Steady
  <2>8. Storing(t, k) = Storing(mounts[t][Head(k)], Tail(k))
    BY <2>6, <2>7
  <2>9. Deletion(t, k) = Deletion(mounts[t][Head(k)], Tail(k))
    BY <2>6, <2>7
  <2> QED BY <2>1, <2>8, <2>9 DEF t, k
<1>9. CASE f # NoFS /\ c.op = "copydst"
  <2>1. CopyTo(p, c.sfs, c.skey, f, sub)
    BY <1>1, <1>9 DEF PassOn, CopyFound
  <2>2. c.sfs \in FS /\ c.skey \in Key /\ f \in FS
    BY <1>2, <1>5, <1>9 DEF Formed
  <2>3. Owed(c) = Storing(f, sub)
    BY <1>8, <1>9
  <2> HIDE DEF c, f, sub
  <2> QED BY <1>1, <1>2, <1>4, <2>1, <2>2, <2>3, CopyToOrder
<1>10. CASE f # NoFS /\ c.op \in {"get", "put", "delete"}
  <2> DEFINE d == [c EXCEPT !.fs = f, !.key = sub]
  <2>1. pc'[p] = "call" /\ cur'[p] = d /\ stack'[p] = s \o <<>>
    BY <1>1, <1>10 DEF PassOn, Become, Goto, Domains, LockTypeOK
  <2>2. stack'[p] = s
    BY <1>1, <2>1, StackSame
  <2>3. {"op", "fs", "key"} \subseteq DOMAIN c /\ (c.op = "put" => "data" \in DOMAIN c)
    BY <1>2, <1>10 DEF Formed
  <2>4. /\ d.op = c.op /\ d.fs = f /\ d.key = sub
        /\ {"op", "fs", "key"} \subseteq DOMAIN d
        /\ c.op = "put" => "data" \in DOMAIN d
    BY <2>3
  <2> HIDE DEF d
  <2>5. Formed(d)
    BY <1>4, <1>5, <1>10, <2>4 DEF Formed
  <2>6. Owed(d) = Owed(c)
    <3>1. CASE c.op = "get"
      BY <2>4, <3>1 DEF Owed
    <3>2. CASE c.op = "put"
      <4>1. Owed(d) = Storing(f, sub)
        BY <2>4, <3>2 DEF Owed
      <4> QED BY <1>8, <3>2, <4>1
    <3>3. CASE c.op = "delete"
      <4>1. Owed(d) = Deletion(f, sub)
        BY <2>4, <3>3 DEF Owed
      <4> QED BY <1>8, <3>3, <4>1
    <3> QED BY <1>10, <3>1, <3>2, <3>3
  <2> HIDE DEF c, s, e
  <2>7. Ahead(d, s, e, script)
    BY <1>2, <2>5, <2>6, Turns
  <2> QED BY <1>1, <1>2, <2>1, <2>2, <2>7 DEF InOrder, OrderAt, Under
<1> QED BY <1>2, <1>6, <1>7, <1>9, <1>10 DEF Routed

(* Mount and Unmount have no script.                                       *)
LEMMA ChangeOrder ==
    ASSUME Domains, NEW p \in Proc, Runs(p), NEW script, InOrder(p, script), Mount(p) \/ Unmount(p)
    PROVE  InOrder(p, script)'
<1> DEFINE c == cur[p]
           s == stack[p]
           e == events[p]
<1>1. /\ pc[p] = "lock" /\ pc'[p] = "return" /\ stack'[p] = s /\ events'[p] = e
      /\ ans'[p].res = "ok" /\ c.op \in {"mount", "unmount"} /\ Stacked(s)
  BY DEF Mount, Unmount, Answer, At, Goto, Domains, LockTypeOK, Runs
<1>2. e \in Seq(Event) /\ Ahead(c, s, e, script)
  BY <1>1 DEF InOrder, OrderAt, Under
<1>3. Owed(c) = <<>>
  BY <1>1 DEF Owed
<1>4. e = e \o Owed(c)
  BY <1>2, <1>3, ConcatEmptySeq
<1> HIDE DEF c, s, e
<1>5. Done(s, e, script)
  BY <1>1, <1>2, <1>4, Succeeds
<1> QED BY <1>1, <1>2, <1>5 DEF InOrder, OrderAt, Under

(* What a client asks for owes its script.                                 *)
LEMMA CallOwes ==
    ASSUME NEW p \in Proc, NEW r \in Calls[p]
    PROVE  Formed(r) /\ Owed(r) = Script[r] /\ Script[r] \in Seq(Event)
<1>1. r \in ClientCall
  BY ClientAssumption
<1>2. r \in AllCalls \cup {Idle}
  BY DEF AllCalls
<1>3. Formed(r)
  BY <1>1 DEF ClientCall, Formed
<1>4. r.op \in {"get", "put", "delete", "copyto", "batchdelete", "unpack", "mount", "unmount"}
  BY <1>1 DEF ClientCall
<1>5. Script[r] = Owed(r)
  <2>1. CASE r.op = "put"
    BY <1>2, <2>1 DEF Script, Owed
  <2>2. CASE r.op = "delete"
    BY <1>2, <2>2 DEF Script, Owed
  <2>3. CASE r.op = "copyto"
    BY <1>2, <2>3 DEF Script, Owed
  <2>4. CASE r.op = "batchdelete"
    BY <1>2, <2>4 DEF Script, Owed
  <2>5. CASE r.op = "unpack"
    BY <1>2, <2>5 DEF Script, Owed
  <2>6. CASE r.op \in {"get", "mount", "unmount"}
    <3>1. Owed(r) = <<>>
      BY <2>6 DEF Owed
    <3>2. Script[r] = <<>>
      BY <1>2, <2>6 DEF Script
    <3> QED BY <3>1, <3>2
  <2> QED BY <1>4, <2>1, <2>2, <2>3, <2>4, <2>5, <2>6
<1> QED BY <1>3, <1>5, OwedType

LEMMA CallOrder ==
    ASSUME Domains, NEW p \in Proc, Stands(p), Call(p)
    PROVE  InOrder(p, Script[cur[p]])'
<1> DEFINE r == cur'[p]
<1>1. /\ r \in Calls[p] /\ pc'[p] = "call" /\ stack'[p] = <<>> /\ events'[p] = <<>>
  BY DEF Call, Submit, At, Goto, Stands, Domains, LockTypeOK
<1> HIDE DEF r
<1>2. Formed(r) /\ Owed(r) = Script[r] /\ Script[r] \in Seq(Event)
  BY <1>1, CallOwes
<1>3. /\ <<>> \in Seq(Event)
      /\ <<>> \o (Owed(r) \o <<>>) = Script[r]
      /\ Script[r] = <<>> \/ Owed(r) \o <<>> # <<>>
  BY <1>2, Assoc
<1>4. Ahead(r, <<>>, <<>>, Script[r])
  BY <1>2, <1>3, LeftNothing DEF Ahead
<1>5. OrderAt("call", r, <<>>, ans'[p], <<>>, Script[r])
  BY <1>3, <1>4 DEF OrderAt
<1>6. (Script[cur[p]])' = Script[r]
  BY DEF r
<1> QED BY <1>1, <1>5 DEF InOrder, r

----------------------------------------------------------------------------
(* The invariant.                                                          *)

OrderOK(p) == pc[p] # "idle" /\ req[p] \in Certain => InOrder(p, Script[req[p]])

OrderInv == Steady /\ \A p \in Proc : AnsShape(p) /\ OrderOK(p)

LEMMA StepSteady ==
    ASSUME Domains, Steady, NEW p \in Proc, Runs(p), Call(p) \/ Proceed(p) \/ Finish(p)
    PROVE  Steady'
<1>1. CASE Mount(p) \/ Unmount(p)
  <2> DEFINE c == cur[p]
  <2>1. c.op \in {"mount", "unmount"} /\ c \in Calls[p]
    BY <1>1 DEF Mount, Unmount, Runs, Whole
  <2>2. c.fs \in Table /\ c.key \in Name /\ <<c.fs, c.key>> \in Changing
    <3>1. c \in AllCalls
      BY <2>1 DEF AllCalls
    <3> QED BY <2>1, <3>1, ClientCalls DEF Changing, Naming
  <2>3. PICK f : mounts' = [mounts EXCEPT ![c.fs][c.key] = f]
    BY <1>1 DEF Mount, Unmount
  <2> HIDE DEF c
  <2>4. ASSUME NEW e \in Entry \ Changing PROVE mounts'[e[1]][e[2]] = mounts[e[1]][e[2]]
    <3>1. e[1] \in Table /\ e[2] \in Name /\ (e[1] # c.fs \/ e[2] # c.key)
      BY <2>2 DEF Entry
    <3> QED BY <2>2, <2>3, <3>1 DEF Domains
  <2> QED BY <2>4 DEF Steady
<1>2. CASE UNCHANGED mounts
  BY <1>2 DEF Steady
<1> QED BY <1>1, <1>2 DEF Call, Finish, Proceed, MountStep, Resolve, Refuse, Lookup, LockTable

LEMMA StepOrder ==
    ASSUME UnmountInv, OrderInv, NEW p \in Proc, Call(p) \/ Proceed(p) \/ Finish(p)
    PROVE  OrderOK(p)'
<1>0. /\ Domains /\ Runs(p) /\ Asks(p) /\ Stands(p) /\ Steady /\ AnsShape(p) /\ OrderOK(p)
  BY DEF UnmountInv, OrderInv
<1>1. CASE Call(p)
  <2>1. req'[p] = cur'[p]
    BY <1>0, <1>1 DEF Call, Domains
  <2>2. InOrder(p, Script[cur[p]])'
    BY <1>0, <1>1, CallOrder
  <2> QED BY <2>1, <2>2 DEF OrderOK, InOrder
<1>2. CASE Finish(p)
  <2>1. pc'[p] = "idle"
    BY <1>0, <1>2 DEF Finish, Return, Goto, Domains, LockTypeOK
  <2> QED BY <2>1 DEF OrderOK
<1>3. CASE Proceed(p)
  <2>1. req'[p] = req[p] /\ pc[p] # "idle"
    <3>1. req' = req
      BY <1>3 DEF Proceed, history
    <3>2. pc[p] # "idle"
      <4> USE DEF At
      <4>1. CASE CallStep(p)
        BY <4>1, BaseReturning, CopyBeginning
           DEF CallStep, BaseReturns, Begin, Cancelled, Copy, BatchDelete, Unpack, PutCopy, LoopOn
      <4>2. CASE HookStep(p) \/ MountStep(p)
        BY <4>2 DEF HookStep, Forward, HookReturns, MountStep, Resolve, Refuse, Lookup,
                    LockTable, Mount, Unmount, Calling
      <4> QED BY <1>3, <4>1, <4>2 DEF Proceed
    <3> QED BY <3>1, <3>2
  <2> SUFFICES ASSUME req[p] \in Certain PROVE InOrder(p, Script[req[p]])'
    BY <2>1 DEF OrderOK
  <2> DEFINE script == Script[req[p]]
  <2>2. InOrder(p, script) /\ Sure(script)
    BY <1>0, <2>1 DEF OrderOK, Certain, Sure
  <2>3. script' = script
    BY <2>1
  <2> HIDE DEF script
  <2>4. InOrder(p, script)'
    <3>1. CASE Begin(p) \/ Cancelled(p) \/ Resolve(p) \/ LockTable(p)
      BY <1>0, <2>2, <2>3, <3>1, WaitsOrder DEF InOrder
    <3>2. CASE BaseReturns(p) \/ Refuse(p) \/ CopyOpens(p) \/ CopyCreates(p)
      BY <1>0, <2>2, <2>3, <3>2, BaseOrder, CopyBeginsOrder DEF InOrder
    <3>3. CASE Copy(p) \/ BatchDelete(p) \/ Unpack(p)
      BY <1>0, <2>2, <2>3, <3>3, CopyOrder, BatchDeleteOrder, UnpackOrder DEF InOrder
    <3>4. CASE PutCopy(p) \/ LoopOn(p)
      BY <1>0, <2>2, <2>3, <3>4, PutCopyOrder, LoopOnOrder DEF InOrder
    <3>5. CASE Forward(p) \/ HookReturns(p)
      BY <1>0, <2>2, <2>3, <3>5, ForwardOrder, HookReturnsOrder DEF InOrder
    <3>6. CASE Lookup(p) \/ Mount(p) \/ Unmount(p)
      BY <1>0, <2>2, <2>3, <3>6, LookupOrder, ChangeOrder DEF InOrder
    <3> QED BY <1>3, <3>1, <3>2, <3>3, <3>4, <3>5, <3>6
            DEF Proceed, CallStep, HookStep, MountStep, BaseReturns
  <2> QED BY <2>4 DEF script
<1> QED BY <1>1, <1>2, <1>3

LEMMA NextOrderInv == UnmountInv /\ OrderInv /\ [Next]_vars => OrderInv'
<1>1. ASSUME OrderInv, UNCHANGED vars PROVE OrderInv'
  BY <1>1 DEF OrderInv, Steady, AnsShape, OrderOK, InOrder, vars, mountvars, callvars, history
<1>2. ASSUME UnmountInv, OrderInv, NEW p \in Proc, Call(p) \/ Proceed(p) \/ Finish(p)
      PROVE  OrderInv'
  <2>0. Domains /\ Runs(p) /\ Steady /\ AnsShape(p)
    BY <1>2 DEF UnmountInv, OrderInv
  <2>1. Steady' /\ AnsShape(p)' /\ OrderOK(p)'
    BY <1>2, <2>0, StepSteady, AnswersHaveData, StepOrder
  <2>2. ASSUME NEW q \in Proc \ {p} PROVE AnsShape(q)' /\ OrderOK(q)'
    <3>1. Keeps(p)
      <4>1. CASE Carries(p)
        BY <2>0, <4>1, CarriesKeeps
      <4>2. CASE Call(p) \/ Finish(p) \/ Mount(p) \/ Unmount(p)
        BY <2>0, <4>2, OwnVariables
           DEF Call, Submit, Finish, Return, Mount, Unmount, Answer, Goto, Where
      <4> QED BY <1>2, <4>1, <4>2 DEF Proceed, MountStep, Carries
    <3>2. /\ pc'[q] = pc[q] /\ cur'[q] = cur[q] /\ stack'[q] = stack[q]
          /\ ans'[q] = ans[q] /\ events'[q] = events[q]
      BY <3>1 DEF Keeps
    <3>3. req'[q] = req[q]
      BY <1>2, <2>0 DEF Call, Proceed, Finish, history, Domains
    <3>4. AnsShape(q) /\ OrderOK(q)
      BY <1>2 DEF OrderInv
    <3> QED BY <3>2, <3>3, <3>4 DEF AnsShape, OrderOK, InOrder
  <2> QED BY <2>1, <2>2 DEF OrderInv
<1> QED BY <1>1, <1>2 DEF Next

LEMMA InitOrderInv == Init => OrderInv
<1> SUFFICES ASSUME Init PROVE OrderInv
  OBVIOUS
<1>1. Steady
  BY DEF Init, MountInit, Steady
<1>2. ASSUME NEW p \in Proc PROVE AnsShape(p) /\ OrderOK(p)
  <2>1. pc[p] = "idle" /\ ans[p] = NoAns
    BY DEF Init, CallsInit
  <2> QED BY <2>1 DEF AnsShape, NoAns, OrderOK
<1> QED BY <1>1, <1>2 DEF OrderInv

LEMMA Begins ==
    ASSUME NEW e \in Seq(Event), NEW rest \in Seq(Event)
    PROVE  IsPrefix(e, e \o rest) /\ (e \o rest = e <=> rest = <<>>)
<1>1. Len(e) \in Nat /\ Len(rest) \in Nat /\ Len(e \o rest) = Len(e) + Len(rest)
  BY ConcatProperties, LenProperties
<1>2. SubSeq(e, 1, Len(e)) = SubSeq(e \o rest, 1, Len(e))
  <2>1. CASE Len(e) = 0
    <3>1. \A s : SubSeq(s, 1, 0) = <<>>
      BY SubSeqEmpty
    <3> QED BY <2>1, <3>1
  <2>2. CASE Len(e) # 0
    <3>1. 1 \in 1..Len(e) /\ Len(e) \in 1..Len(e)
      BY <1>1, <2>2
    <3> QED BY <3>1, SubSeqOfConcat1
  <2> QED BY <2>1, <2>2
<1>3. IsPrefix(e, e \o rest)
  BY <1>1, <1>2 DEF IsPrefix
<1>4. e \o rest = e <=> rest = <<>>
  BY ConcatSimplifications!idRight, ConcatEmptySeq
<1> QED BY <1>3, <1>4

(* With a call on its way as its script says, StepsInOrder holds.          *)
LEMMA OrderSteps ==
    ASSUME UnmountInv, OrderInv
    PROVE  StepsInOrder
<1> SUFFICES ASSUME NEW p \in Proc, req[p] \in Certain
             PROVE  /\ IsPrefix(events[p], Script[req[p]])
                    /\ Over(p) /\ Script[req[p]] # <<>> =>
                          (ans[p].res = "ok" <=> events[p] = Script[req[p]])
  BY DEF StepsInOrder
<1> DEFINE e == events[p]
           script == Script[req[p]]
           s == stack[p]
<1>1. /\ pc[p] \in Where /\ Stacked(s) /\ OrderOK(p)
      /\ pc[p] = "idle" => req[p] = Idle
  BY DEF UnmountInv, OrderInv, Domains, LockTypeOK, Runs, Stands
<1>2. pc[p] # "idle"
  <2>1. PICK q \in Proc : req[p] \in Calls[q]
    BY DEF Certain, AllCalls
  <2>2. req[p].op # "idle"
    BY <2>1, ClientCalls
  <2> QED BY <1>1, <2>2, CompositionAssumption
<1>3. OrderAt(pc[p], cur[p], s, ans[p], e, script)
  BY <1>1, <1>2 DEF OrderOK, InOrder
<1>4. e \in Seq(Event)
  BY <1>3 DEF OrderAt
<1> HIDE DEF e, s, script
<1>5. CASE pc[p] \in Under
  <2>1. Ahead(cur[p], s, e, script)
    BY <1>3, <1>5 DEF OrderAt
  <2>2. PICK rest \in Seq(Event) : e \o rest = script
    <3>1. Short(e, script)
      BY <1>1, <1>4, <2>1, Fails
    <3> QED BY <3>1 DEF Short
  <2>3. ~Over(p)
    BY <1>5 DEF Over, At, Under
  <2> QED BY <1>4, <2>2, <2>3, Begins DEF e, script
<1>6. CASE pc[p] = "return" /\ ans[p].res = "ok"
  <2>1. PICK left : Left(s, left) /\ e \o left = script
    BY <1>3, <1>6 DEF OrderAt, Done
  <2>2. left \in Seq(Event)
    BY <1>1, <2>1, LeftType
  <2>3. Over(p) => e = script
    <3> SUFFICES ASSUME Over(p) PROVE e = script
      OBVIOUS
    <3>1. s = <<>>
      BY DEF Over, s
    <3>2. left = <<>>
      BY <2>1, <3>1, LeftNothing
    <3> QED BY <1>4, <2>1, <2>2, <3>2, Begins
  <2> QED BY <1>4, <1>6, <2>1, <2>2, <2>3, Begins DEF e, script
<1>7. CASE pc[p] = "return" /\ ans[p].res # "ok"
  <2>1. PICK rest \in Seq(Event) : e \o rest = script /\ (script = <<>> \/ rest # <<>>)
    BY <1>3, <1>7 DEF OrderAt, Short
  <2> QED BY <1>4, <1>7, <2>1, Begins DEF e, script
<1> QED BY <1>1, <1>2, <1>5, <1>6, <1>7 DEF Where, Under

(* A call whose way is certain stores, deletes and reports what it was     *)
(* asked to, in that order, and answers "ok" exactly when it has come to   *)
(* the end of it: through hooks and tables nested in any way, and whoever  *)
(* else mounts and unmounts meanwhile, OnDelete runs once for every delete *)
(* that succeeded, the innermost hook first, Copy puts what it got, and    *)
(* BatchDelete and Unpack stop at the first error (hook.go:70-79,          *)
(* fs.go:121-157, unpack.go:25-54, mount.go:146-168).                      *)
THEOREM CallsKeepTheirOrder == Spec => []StepsInOrder
<1>1. Spec => []LockInv
  BY LockInvInductive, PTL DEF Spec
<1>2. LockInv => LockTypeOK
  BY DEF LockInv
<1>3. Spec => []UnmountInv
  BY <1>1, <1>2, InitUnmountInv, NextUnmountInv, PTL DEF Spec
<1>4. UnmountInv /\ OrderInv => StepsInOrder
  BY OrderSteps
<1> QED BY <1>3, <1>4, InitOrderInv, NextOrderInv, PTL DEF Spec

----------------------------------------------------------------------------
(* What the hooks on a stack make of an answer.                            *)

Passed(s, data, f) ==
    f = [i \in 0..Len(s) |-> IF i = Len(s) THEN data ELSE Unwrap(s[i + 1], f[i + 1])]

LEMMA PassedExists ==
    ASSUME NEW s, Len(s) \in Nat, NEW data
    PROVE  \E f : Passed(s, data, f)
<1> DEFINE n == Len(s)
           From(m, f) == f = [i \in (n - m)..n |->
                                IF i = n THEN data ELSE Unwrap(s[i + 1], f[i + 1])]
           S == {m \in 0..n : \E f : From(m, f)}
<1>1. 0 \in S
  <2>1. From(0, [i \in (n - 0)..n |-> data])
    <3>1. \A i \in (n - 0)..n : i = n
      OBVIOUS
    <3> QED BY <3>1
  <2> HIDE DEF From
  <2> QED BY <2>1
<1>2. ASSUME NEW m \in 0..(n - 1), m \in S PROVE m + 1 \in S
  <2>1. PICK f : From(m, f)
    BY <1>2
  <2> DEFINE j == n - (m + 1)
             g == [i \in j..n |-> IF i = j THEN Unwrap(s[j + 1], f[j + 1]) ELSE f[i]]
  <2>2. /\ j \in 0..(n - 1) /\ j + 1 = n - m /\ j # n
        /\ \A i \in j..n : i # j => i \in (n - m)..n
        /\ \A i \in j..n : i # n => i + 1 \in j..n /\ i + 1 # j /\ i + 1 \in (n - m)..n
    OBVIOUS
  <2>3. ASSUME NEW i \in j..n
        PROVE  g[i] = IF i = n THEN data ELSE Unwrap(s[i + 1], g[i + 1])
    <3>1. i # n => g[i + 1] = f[i + 1]
      BY ZenonT(60), <2>2
    <3>2. CASE i = j
      BY Zenon, <2>2, <3>1, <3>2
    <3>3. CASE i # j
      <4>1. g[i] = f[i] /\ i \in (n - m)..n
        BY Zenon, <2>2, <3>3
      <4>2. f[i] = IF i = n THEN data ELSE Unwrap(s[i + 1], f[i + 1])
        BY <2>1, <4>1
      <4> QED BY SMTT(60), <3>1, <4>1, <4>2
    <3> QED BY SMTT(60), <3>2, <3>3
  <2>4. g = [i \in j..n |-> g[i]]
    OBVIOUS
  <2> HIDE DEF g
  <2>5. From(m + 1, g)
    BY <2>3, <2>4
  <2> HIDE DEF From
  <2> QED BY <2>5
<1>3. n \in S
  <2>1. \A m \in 0..n : m \in S
    <3> HIDE DEF S
    <3> QED BY <1>1, <1>2, UpTo
  <2> QED BY <2>1
<1>4. PICK f : From(n, f)
  BY <1>3
<1>5. n - n = 0
  OBVIOUS
<1> QED BY <1>4, <1>5 DEF Passed

LEMMA UnwrappedIs ==
    ASSUME NEW s, Len(s) \in Nat, NEW data
    PROVE  \E f : Passed(s, data, f) /\ Unwrapped(s, data) = f[0]
<1> DEFINE f == CHOOSE x : Passed(s, data, x)
<1>1. Passed(s, data, f)
  BY PassedExists
<1>2. Unwrapped(s, data) = f[0]
  BY DEF Unwrapped, Passed
<1> QED BY <1>1, <1>2

LEMMA PassedAt ==
    ASSUME NEW s, Len(s) \in Nat, NEW data, NEW f, Passed(s, data, f)
    PROVE  /\ f[Len(s)] = data
           /\ \A i \in 1..Len(s) : f[i - 1] = Unwrap(s[i], f[i])
<1>1. \A i \in 0..Len(s) : f[i] = IF i = Len(s) THEN data ELSE Unwrap(s[i + 1], f[i + 1])
  BY DEF Passed
<1>2. \A i \in 1..Len(s) : i - 1 \in 0..Len(s) /\ i - 1 # Len(s) /\ (i - 1) + 1 = i
  OBVIOUS
<1>3. \A i \in 1..Len(s) : f[i - 1] = Unwrap(s[(i - 1) + 1], f[(i - 1) + 1])
  BY <1>1, <1>2
<1>4. Len(s) \in 0..Len(s)
  OBVIOUS
<1> QED BY <1>1, <1>2, <1>3, <1>4

(* A hook that an answer comes back to makes the first of that.            *)
LEMMA UnwrappedPop ==
    ASSUME NEW s, Stacked(s), s # <<>>, NEW data
    PROVE  Unwrapped(SubSeq(s, 1, Len(s) - 1), Unwrap(s[Len(s)], data)) = Unwrapped(s, data)
<1> DEFINE t == SubSeq(s, 1, Len(s) - 1)
           less == Unwrap(s[Len(s)], data)
           n == Len(s)
<1>1. PICK R : s \in Seq(R)
  BY DEF Stacked
<1>2. n \in Nat /\ n # 0
  BY <1>1, LenProperties, EmptySeq
<1>3. Len(t) = n - 1 /\ \A i \in 1..(n - 1) : t[i] = s[i]
  <2> HIDE DEF n
  <2> DEFINE m == n - 1
  <2>1. m \in Nat /\ 1 \in Int /\ \A i \in 1..m : s[i] \in R
    BY <1>1, <1>2, ElementOfSeq DEF n
  <2> HIDE DEF m
  <2>2. Len(SubSeq(s, 1, m)) = m
    BY <2>1, SubSeqProperties
  <2>3. \A i \in 1..m : SubSeq(s, 1, m)[i] = s[i]
    BY <2>1, SubSeqProperties
  <2> QED BY <2>2, <2>3 DEF m, n
<1> HIDE DEF t, less
<1>4. PICK f : Passed(s, data, f) /\ Unwrapped(s, data) = f[0]
  BY <1>2, UnwrappedIs
<1>5. PICK g : Passed(t, less, g) /\ Unwrapped(t, less) = g[0]
  BY <1>2, <1>3, UnwrappedIs
<1>6. /\ f[n] = data /\ \A i \in 1..n : f[i - 1] = Unwrap(s[i], f[i])
      /\ g[n - 1] = less /\ \A i \in 1..(n - 1) : g[i - 1] = Unwrap(s[i], g[i])
  <2>1. Len(t) \in Nat
    BY <1>2, <1>3
  <2>2. f[n] = data /\ \A i \in 1..n : f[i - 1] = Unwrap(s[i], f[i])
    BY <1>2, <1>4, PassedAt
  <2>3. g[Len(t)] = less /\ \A i \in 1..Len(t) : g[i - 1] = Unwrap(t[i], g[i])
    BY <1>5, <2>1, PassedAt
  <2> QED BY <1>3, <2>2, <2>3
<1> HIDE DEF n
<1> DEFINE S == {m \in 0..(n - 1) : f[(n - 1) - m] = g[(n - 1) - m]}
<1>7. 0 \in S
  <2>1. n \in 1..n /\ (n - 1) - 0 = n - 1
    BY <1>2
  <2> QED BY <1>2, <1>6, <2>1 DEF less, n
<1>8. ASSUME NEW m \in 0..((n - 1) - 1), m \in S PROVE m + 1 \in S
  <2> DEFINE i == (n - 1) - m
  <2>1. i \in 1..(n - 1) /\ i \in 1..n /\ (n - 1) - (m + 1) = i - 1 /\ m + 1 \in 0..(n - 1)
    BY <1>2
  <2>2. f[i] = g[i]
    BY <1>8
  <2> HIDE DEF i
  <2>3. f[i - 1] = g[i - 1]
    BY <1>6, <2>1, <2>2
  <2> QED BY <2>1, <2>3
<1>9. \A m \in 0..(n - 1) : m \in S
  <2>1. n - 1 \in Nat
    BY <1>2
  <2> HIDE DEF S
  <2> QED BY <1>7, <1>8, <2>1, UpTo
<1>10. f[0] = g[0]
  <2>1. n - 1 \in 0..(n - 1) /\ (n - 1) - (n - 1) = 0
    BY <1>2
  <2> QED BY <1>9, <2>1
<1> QED BY <1>4, <1>5, <1>10 DEF t, less


(* Unwrapping leaves the payload where it is.                              *)
LEMMA SuitsIsData ==
    ASSUME NEW g, NEW k, NEW data, Suits(g, k, data)
    PROVE  data \in Seq(Val \cup (Hook \X Key)) /\ data # <<>> /\ Head(data) \in Val
<1>1. PICK f \in Base \cup Table : \E n \in 0..Len(Middlewares[f]) :
             g = Nth(f, n) /\ Coded(f, n, k, data)
  BY DEF Suits
<1> QED BY <1>1 DEF Coded

LEMMA WrapGetHead ==
    ASSUME NEW h, NEW k, NEW T, NEW data \in Seq(T), data # <<>>, WrapGet(h, k, data) # <<>>
    PROVE  Head(WrapGet(h, k, data)) = Head(data)
<1>1. CASE WrapGet(h, k, data) = data
  BY <1>1
<1>2. CASE WrapGet(h, k, data) # data
  <2> DEFINE m == Len(data) - 1
             less == SubSeq(data, 1, m)
  <2>1. WrapGet(h, k, data) = less
    BY <1>2 DEF WrapGet, Front
  <2>2. Len(data) \in Nat /\ Len(data) # 0
    BY LenProperties, EmptySeq
  <2>3. m \in Nat /\ 1 \in Int /\ \A i \in 1..m : data[i] \in T
    BY <2>2, ElementOfSeq
  <2> HIDE DEF m
  <2>4. Len(less) = m /\ less \in Seq(T) /\ \A i \in 1..m : less[i] = data[i]
    BY <2>3, SubSeqProperties
  <2> HIDE DEF less
  <2>5. m # 0
    BY <2>1, <2>4, EmptySeq
  <2>6. 1 \in 1..m
    BY <2>3, <2>5
  <2>7. Head(less) = less[1] /\ Head(data) = data[1]
    BY <2>1, <2>4, HeadTailProperties
  <2> QED BY <2>1, <2>4, <2>6, <2>7
<1> QED BY <1>1, <1>2

(* A Get comes by hooks that pass a Get on, and its client knows no hook   *)
(* that codes further out.                                                 *)
OpenedBy(c, s) ==
    IF s = <<>> THEN Plain(c.fs)
    ELSE s[1].at = "copy" \/ (s[1].at = "hook" /\ Plain(s[1].call.fs))

SameOp(c, s) == \A i \in 1..Len(s) : s[i].at = "hook" => s[i].call.op = c.op

(* What suits such a Get is a payload when it is out of the hooks.         *)
LEMMA UnwrappedIsPayload ==
    ASSUME NEW c, NEW s, Stacked(s), StackSound(s), c.op = "get", OpenedBy(c, s), SameOp(c, s),
           s # <<>> => Answering(c, s[Len(s)]),
           NEW data, Suits(c.fs, c.key, data)
    PROVE  Unwrapped(s, data) = <<Head(data)>>
<1> DEFINE n == Len(s)
<1>1. n \in Nat /\ (n = 0 <=> s = <<>>)
  BY LenProperties, EmptySeq DEF Stacked
<1>2. PICK f : Passed(s, data, f) /\ Unwrapped(s, data) = f[0]
  BY <1>1, UnwrappedIs
<1>3. f[n] = data /\ \A i \in 1..n : f[i - 1] = Unwrap(s[i], f[i])
  BY <1>1, <1>2, PassedAt
<1>4. data \in Seq(Val \cup (Hook \X Key)) /\ data # <<>>
  BY SuitsIsData
<1>5. ASSUME NEW i \in 1..n
      PROVE  /\ s[i].at = "hook" => /\ s[i].call.op = "get" /\ s[i].call.fs \in Hook
                                    /\ i = 1 => Plain(s[i].call.fs)
             /\ s[i].at # "hook" => s[i].at = "copy" /\ i = 1
             /\ Expects(s[i])
  <2>1. FrameSound(s[i]) /\ (i # 1 => s[i].at = "hook")
    BY <1>1 DEF StackSound
  <2>2. s # <<>>
    BY <1>1
  <2>3. s[1].at = "copy" \/ (s[1].at = "hook" /\ Plain(s[1].call.fs))
    BY <2>2 DEF OpenedBy
  <2>4. s[i].at = "hook" => s[i].call.op = "get"
    BY DEF SameOp
  <2> QED BY <2>1, <2>3, <2>4 DEF FrameSound, Expects
<1>6. \A i \in 2..n : Answering(s[i].call, s[i - 1])
  BY DEF StackSound
<1>7. n # 0 => Answering(c, s[n])
  BY <1>1
<1>8. n = 0 => Plain(c.fs)
  BY <1>1 DEF OpenedBy
<1> HIDE DEF n
<1> DEFINE Good(i) == /\ f[i] \in Seq(Val \cup (Hook \X Key)) /\ f[i] # <<>>
                      /\ Head(f[i]) = Head(data)
                      /\ IF i = 0 THEN f[i] \in Payload ELSE Fits(s[i], f[i])
           S == {m \in 0..n : Good(n - m)}
<1>9. 0 \in S
  <2>1. n = 0 => data \in Payload
    BY <1>8, PlainSuits
  <2>2. n # 0 => Fits(s[n], data)
    <3> SUFFICES ASSUME n # 0 PROVE Fits(s[n], data)
      OBVIOUS
    <3>1. n \in 1..n
      BY <1>1
    <3> QED BY <1>5, <1>7, <3>1 DEF Answering
  <2>3. n - 0 = n /\ 0 \in 0..n
    BY <1>1
  <2> QED BY <1>3, <1>4, <2>1, <2>2, <2>3
<1>10. ASSUME NEW m \in 0..(n - 1), m \in S PROVE m + 1 \in S
  <2> DEFINE i == n - m
             h == s[i].call.fs
             k == s[i].call.key
  <2>1. i \in 1..n /\ n - (m + 1) = i - 1 /\ m + 1 \in 0..n /\ i # 0
    BY <1>1
  <2>2. Good(i)
    BY <1>10
  <2> HIDE DEF i
  <2>3. f[i] \in Seq(Val \cup (Hook \X Key)) /\ f[i] # <<>> /\ Head(f[i]) = Head(data)
        /\ Fits(s[i], f[i])
    BY <2>1, <2>2
  <2>4. f[i - 1] = Unwrap(s[i], f[i])
    BY <1>3, <2>1
  <2>5. CASE s[i].at # "hook"
    <3>1. s[i].at = "copy" /\ i = 1
      BY <1>5, <2>1, <2>5
    <3>2. f[i - 1] = f[i] /\ f[i] \in Payload /\ i - 1 = 0
      BY <2>3, <2>4, <3>1 DEF Unwrap, Fits
    <3>3. Good(i - 1)
      BY <2>3, <3>2
    <3> QED BY <2>1, <3>3
  <2>6. CASE s[i].at = "hook"
    <3>1. s[i].call.op = "get" /\ h \in Hook /\ (i = 1 => Plain(h))
      BY <1>5, <2>1, <2>6
    <3>2. f[i - 1] = WrapGet(h, k, f[i])
      BY <2>4, <2>6, <3>1 DEF Unwrap
    <3>3. Suits(Inner(h), k, f[i])
      BY <2>3, <2>6 DEF Fits
    <3> HIDE DEF h, k
    <3>4. Suits(h, k, f[i - 1])
      BY <3>1, <3>2, <3>3, WrapGetSuits
    <3>5. f[i - 1] \in Seq(Val \cup (Hook \X Key)) /\ f[i - 1] # <<>>
      BY <3>4, SuitsIsData
    <3>6. Head(f[i - 1]) = Head(data)
      BY <2>3, <3>2, <3>5, WrapGetHead
    <3>7. CASE i = 1
      <4>1. i - 1 = 0 /\ f[i - 1] \in Payload
        BY <3>1, <3>4, <3>7, PlainSuits
      <4>2. Good(i - 1)
        BY <3>5, <3>6, <4>1
      <4> QED BY <2>1, <4>2
    <3>8. CASE i # 1
      <4>1. i \in 2..n /\ i - 1 \in 1..n /\ i - 1 # 0
        BY <1>1, <2>1, <3>8
      <4>2. Answering(s[i].call, s[i - 1]) /\ Expects(s[i - 1])
        BY <1>5, <1>6, <4>1
      <4>3. Fits(s[i - 1], f[i - 1])
        BY <3>4, <4>2 DEF Answering, h, k
      <4>4. Good(i - 1)
        BY <3>5, <3>6, <4>1, <4>3
      <4> QED BY <2>1, <4>4
    <3> QED BY <3>7, <3>8
  <2> QED BY <2>5, <2>6
<1>11. \A m \in 0..n : m \in S
  <2> HIDE DEF S
  <2> QED BY <1>1, <1>9, <1>10, UpTo
<1>12. f[0] \in Payload /\ Head(f[0]) = Head(data)
  <2>1. n \in 0..n /\ n - n = 0
    BY <1>1
  <2>2. n \in S
    BY <1>11, <2>1
  <2>3. Good(0)
    BY <2>1, <2>2
  <2> QED BY <2>3
<1>13. f[0] = <<Head(data)>>
  <2>1. PICK v \in Val : f[0] = <<v>>
    BY <1>12 DEF Payload
  <2>2. Head(<<v>>) = v
    OBVIOUS
  <2> QED BY <1>12, <2>1, <2>2
<1> QED BY <1>2, <1>13

----------------------------------------------------------------------------
(* Places.  A call takes its place with it.                                *)

LEMMA SamePlace ==
    ASSUME NEW f \in FS, NEW g \in FS, NEW k \in Key, NEW l \in Key, Storing(f, k) = Storing(g, l)
    PROVE  Place(f, k) = Place(g, l)
<1>1. /\ Storing(f, k) = << <<"stored", Place(f, k)[1], Place(f, k)[2]>> >>
      /\ Storing(g, l) = << <<"stored", Place(g, l)[1], Place(g, l)[2]>> >>
      /\ Place(f, k) \in (FS \cup {NoFS}) \X Key
      /\ Place(g, l) \in (FS \cup {NoFS}) \X Key
  BY PlaceIs
<1>2. Place(f, k)[1] = Place(g, l)[1] /\ Place(f, k)[2] = Place(g, l)[2]
  <2> DEFINE a == Place(f, k)[1]
             b == Place(f, k)[2]
             c == Place(g, l)[1]
             d == Place(g, l)[2]
  <2>1. << <<"stored", a, b>> >> = << <<"stored", c, d>> >>
    BY <1>1
  <2> HIDE DEF a, b, c, d
  <2>2. <<"stored", a, b>> = <<"stored", c, d>>
    BY <2>1
  <2>3. a = c /\ b = d
    BY <2>2
  <2> QED BY <2>3 DEF a, b, c, d
<1> QED BY <1>1, <1>2

LEMMA PlaceAtBase ==
    ASSUME NEW b \in Base, NEW k \in Key
    PROVE  Place(b, k) = <<b, k>>
<1>1. b \in FS
  BY DEF FS
<1>2. /\ Storing(b, k) = << <<"stored", b, k>> >>
      /\ Storing(b, k) = << <<"stored", Place(b, k)[1], Place(b, k)[2]>> >>
      /\ Place(b, k) \in (FS \cup {NoFS}) \X Key
  BY <1>1, AtBase, PlaceIs
<1>3. Place(b, k)[1] = b /\ Place(b, k)[2] = k
  BY <1>2
<1> QED BY <1>2, <1>3

LEMMA PlaceAtHook ==
    ASSUME NEW h \in Hook, NEW k \in Key
    PROVE  Place(h, k) = Place(Inner(h), k)
<1>1. h \in FS /\ Inner(h) \in FS
  BY HookHasLevel DEF FS
<1>2. Storing(h, k) = Storing(Inner(h), k)
  BY AtHook
<1> HIDE DEF Inner
<1> QED BY <1>1, <1>2, SamePlace

(* Where a call is, its place is certain, or it waits for no place yet.    *)
LEMMA PlaceAtTable ==
    ASSUME Steady, NEW t \in Table, NEW k \in Key, Place(t, k) \in Places
    PROVE  /\ k # <<>> /\ mounts[t][Head(k)] # NoFS
           /\ Place(mounts[t][Head(k)], Tail(k)) = Place(t, k)
<1>1. Place(t, k)[1] # NoFS
  <2>1. Place(t, k)[1] \in Base
    BY InterfaceAssumption DEF Places, Local
  <2> QED BY <2>1, MountAssumption DEF FS
<1>2. /\ k # <<>> /\ <<t, Head(k)>> \in Entry \ Changing
      /\ Mounted[t][Head(k)] \in FS /\ Tail(k) \in Key
      /\ Storing(t, k) = Storing(Mounted[t][Head(k)], Tail(k))
  BY <1>1, AtTable
<1>3. mounts[t][Head(k)] = Mounted[t][Head(k)]
  BY <1>2 DEF Steady
<1> DEFINE f == Mounted[t][Head(k)]
           l == Tail(k)
<1>4. f \in FS /\ l \in Key /\ t \in FS /\ Storing(t, k) = Storing(f, l)
  BY <1>2 DEF FS
<1>5. mounts[t][Head(k)] = f
  BY <1>3
<1> HIDE DEF f, l
<1>6. Place(t, k) = Place(f, l)
  BY <1>4, SamePlace
<1>7. f # NoFS
  BY <1>4, MountAssumption
<1> QED BY <1>2, <1>5, <1>6, <1>7 DEF l

----------------------------------------------------------------------------
(* What the store shows.                                                   *)

LEMMA CodedIsData ==
    ASSUME NEW b \in Base, NEW k, NEW data, Coded(b, 0, k, data)
    PROVE  data # NoFile /\ Head(data) \in Val /\ Head(data) # NoFile
<1>1. data \in Seq(Val \cup (Hook \X Key)) /\ Head(data) \in Val
  BY DEF Coded
<1> QED BY <1>1, StoreAssumption

LEMMA ContentsAre ==
    ASSUME EverythingDecodes, NEW b \in Base, NEW k \in Sub
    PROVE  /\ store[b][k] = NoFile <=> Contents(b, k) = NoFile
           /\ store[b][k] # NoFile => /\ Coded(b, 0, k, store[b][k])
                                      /\ Contents(b, k) = Head(store[b][k])
                                      /\ Contents(b, k) \in Val
<1>1. store[b][k] = NoFile \/ Coded(b, 0, k, store[b][k])
  BY DEF EverythingDecodes
<1>2. CASE store[b][k] = NoFile
  BY <1>2 DEF Contents
<1>3. CASE store[b][k] # NoFile
  BY <1>1, <1>3, CodedIsData DEF Contents
<1> QED BY <1>2, <1>3

Shown == [at \in Places |-> Contents(at[1], at[2])]

(* The places of one base, of either kind.                                 *)
LEMMA PlacesAre ==
    /\ \A at \in Places : \E b \in Base, k \in Sub : at = <<b, k>>
    /\ \A b \in BatchDeleters, k \in Sub : <<b, k>> \in Places <=> b \notin Batched
    /\ \A b \in Local, k \in Sub : <<b, k>> \in Places <=> ~MayCopy(b, k)
<1> HIDE DEF MayCopy
<1>1. BatchDeleters \subseteq Base /\ Local \subseteq Base /\ BatchDeleters \cap Local = {}
  BY InterfaceAssumption DEF Local
<1>2. \A at \in Places : \E b \in Base, k \in Sub : at = <<b, k>>
  BY <1>1 DEF Places
<1>3. \A b \in BatchDeleters, k \in Sub : <<b, k>> \in Places <=> b \notin Batched
  BY <1>1 DEF Places
<1>4. \A b \in Local, k \in Sub : <<b, k>> \in Places <=> ~MayCopy(b, k)
  BY <1>1 DEF Places, Overwritten
<1> QED BY <1>2, <1>3, <1>4

LEMMA ShownSame ==
    ASSUME UNCHANGED store
    PROVE  Shown' = Shown
BY DEF Shown, Contents

(* Storing in a base stores what is beneath the hooks.                     *)
LEMMA ShownSet ==
    ASSUME StoreShape, NEW b \in Base, NEW k \in Sub, NEW data, Set(b, k, data),
           NEW held, IF data = NoFile THEN held = NoFile
                     ELSE Coded(b, 0, k, data) /\ held = Head(data)
    PROVE  Shown' = IF <<b, k>> \in Places THEN [Shown EXCEPT ![<<b, k>>] = held] ELSE Shown
<1>1. ASSUME NEW at \in Places
      PROVE  Contents(at[1], at[2])' = IF at = <<b, k>> THEN held ELSE Contents(at[1], at[2])
  <2>1. PICK c \in Base, l \in Sub : at = <<c, l>>
    BY PlacesAre
  <2>2. store'[c][l] = IF c = b /\ l = k THEN data ELSE store[c][l]
    <3>1. store' = [store EXCEPT ![b] = [store[b] EXCEPT ![k] = data]]
      BY DEF Set
    <3> QED BY <3>1 DEF StoreShape
  <2>3. Contents(c, l)' = IF store'[c][l] = NoFile \/ ~Coded(c, 0, l, store'[c][l]) THEN store'[c][l]
                          ELSE Head(store'[c][l])
    BY DEF Contents
  <2>4. CASE at = <<b, k>>
    <3>1. c = b /\ l = k
      BY <2>1, <2>4
    <3>2. Contents(c, l)' = held
      BY <2>2, <2>3, <3>1
    <3> QED BY <2>1, <2>4, <3>2
  <2>5. CASE at # <<b, k>>
    <3>1. ~(c = b /\ l = k)
      BY <2>1, <2>5
    <3>2. store'[c][l] = store[c][l]
      BY <2>2, <3>1
    <3>3. Contents(c, l)' = Contents(c, l)
      BY <2>3, <3>2 DEF Contents
    <3> QED BY <2>1, <2>5, <3>3
  <2> QED BY <2>4, <2>5
<1>2. Shown' = [at \in Places |-> IF at = <<b, k>> THEN held ELSE Contents(at[1], at[2])]
  BY <1>1 DEF Shown
<1>3. CASE <<b, k>> \in Places
  BY <1>2, <1>3 DEF Shown
<1>4. CASE <<b, k>> \notin Places
  <2>1. \A at \in Places : at # <<b, k>>
    BY <1>4
  <2> QED BY <1>2, <1>4, <2>1 DEF Shown
<1> QED BY <1>3, <1>4

----------------------------------------------------------------------------
(* How a call has come to where it is.                                     *)

LEMMA PushIs ==
    ASSUME NEW s, Stacked(s), NEW f, NEW t, t = s \o <<f>>
    PROVE  /\ Len(s) \in Nat /\ Len(t) = Len(s) + 1 /\ (s = <<>> <=> Len(s) = 0) /\ t # <<>>
           /\ \A i \in 1..Len(s) : t[i] = s[i]
           /\ t[Len(s) + 1] = f
<1>1. PICK S : s \in Seq(S)
  BY DEF Stacked
<1> DEFINE R == S \cup {f}
<1>2. s \in Seq(R) /\ <<f>> \in Seq(R) /\ Len(<<f>>) = 1 /\ <<f>>[1] = f
  BY <1>1, SeqMonotonic, S \subseteq R
<1>3. Len(s) \in Nat /\ (s = <<>> <=> Len(s) = 0)
  BY <1>1, LenProperties, EmptySeq
<1> HIDE DEF R
<1>4. t \in Seq(R) /\ Len(t) = Len(s) + 1 /\ (\A i \in 1..Len(s) : t[i] = s[i]) /\ t[Len(s) + 1] = f
  BY <1>2, <1>3, ConcatProperties
<1>5. t # <<>>
  BY <1>3, <1>4, EmptySeq
<1> QED BY <1>3, <1>4, <1>5

(* A Copy gets nowhere but where some client's Copy within one file system *)
(* may, and a batch is a client's own.                                     *)
Allowed(c) ==
    /\ c.op = "copyto" => c \in AllCalls
    /\ c.op = "batch" => c.fs \in BatchDeleters \cap Batched
    /\ c.op \in {"copy", "create", "fill"} => MayCopy(c.fs, c.dst)
    /\ c.op = "copydst" => MayCopy(c.fs, c.key)

StraightAt(w, c, s) ==
    w \in {"next", "call", "rlock"} =>
       /\ SameOp(c, s)
       /\ c.op = "get" => OpenedBy(c, s)
       /\ Allowed(c)

Straight(p) == StraightAt(pc[p], cur[p], stack[p])

(* What is mounted was from the start, or a client mounts it.              *)
MountsKnown == \A t \in Table, n \in Name : mounts[t][n] \in MayMount \cup {NoFS}

LEMMA CopyWithin ==
    ASSUME NEW r \in AllCalls, r.op = "copyto", r.fs = r.dfs
    PROVE  MayCopy(r.fs, r.dst)
<1>1. r.dst \in Seq(Name)
  BY ClientAssumption DEF AllCalls, ClientCall
<1> DEFINE k == r.dst
<1>2. Len(k) \in Nat /\ k = SubSeq(k, 1, Len(k))
  BY <1>1, LenProperties, SubSeqFull
<1>3. Ends(k, k)
  BY <1>2 DEF Ends
<1> QED BY <1>3 DEF MayCopy, Passes

LEMMA CopyBelow ==
    ASSUME NEW t \in Table, NEW k \in Key, k # <<>>, MayCopy(t, k), NEW f \in MayMount
    PROVE  MayCopy(f, Tail(k))
<1>1. PICK r \in AllCalls : /\ r.op = "copyto" /\ r.fs = r.dfs
                           /\ Passes(r.fs, t) /\ Ends(k, r.dst)
  BY DEF MayCopy
<1>2. r.dst \in Seq(Name)
  BY <1>1, ClientAssumption DEF AllCalls, ClientCall
<1> DEFINE d == r.dst
<1>3. PICK n \in 1..(Len(d) + 1) : k = SubSeq(d, n, Len(d))
  BY <1>1 DEF Ends
<1>4. Len(d) \in Nat
  BY <1>2, LenProperties
<1>5. n # Len(d) + 1
  <2> SUFFICES ASSUME n = Len(d) + 1 PROVE FALSE
    OBVIOUS
  <2>1. SubSeq(d, n, Len(d)) = <<>>
    BY <1>2, <1>4, SubSeqEmpty
  <2> QED BY <1>3, <2>1
<1>6. n + 1 \in 1..(Len(d) + 1) /\ Tail(k) = SubSeq(d, n + 1, Len(d))
  BY <1>2, <1>3, <1>4, <1>5, HeadTailOfSubSeq
<1>7. Ends(Tail(k), d)
  BY <1>6 DEF Ends
<1>8. Passes(r.fs, f)
  BY <1>1 DEF Passes
<1> QED BY <1>1, <1>7, <1>8 DEF MayCopy

LEMMA StraightAlone ==
    ASSUME NEW w, NEW c, c.op = "get" => Plain(c.fs), Allowed(c)
    PROVE  StraightAt(w, c, <<>>)
<1>1. Len(<<>>) = 0
  OBVIOUS
<1> QED BY <1>1 DEF StraightAt, SameOp, OpenedBy

(* Above a helper that is no hook.                                         *)
LEMMA StraightHelped ==
    ASSUME NEW w, NEW c, NEW f,
           \/ f.at = "copy" /\ c.op = "get"
           \/ f.at = "loop" /\ c.op \in {"put", "delete"},
           NEW s, Stacked(s), s # <<>>, StackSound(s), s[Len(s)] = f
    PROVE  StraightAt(w, c, s)
<1>1. Len(s) \in Nat /\ Len(s) # 0
  BY LenProperties, EmptySeq DEF Stacked
<1>2. Len(s) = 1
  <2> DEFINE n == Len(s)
  <2>1. ~(n \in 2..n)
    BY DEF StackSound
  <2>2. n \in Nat /\ n # 0
    BY <1>1
  <2> HIDE DEF n
  <2>3. n = 1
    BY <2>1, <2>2
  <2> QED BY <2>3 DEF n
<1>3. \A i \in 1..Len(s) : s[i] = f
  BY <1>2
<1>4. s[1] = f
  BY <1>2
<1>5. Allowed(c)
  BY DEF Allowed
<1> QED BY <1>3, <1>4, <1>5 DEF StraightAt, SameOp, OpenedBy

LEMMA CopyToStraight ==
    ASSUME Domains, NEW p \in Proc, stack[p] = <<>>,
           NEW f, Plain(f), NEW g, Plain(g), NEW k \in Key, NEW l \in Key, CopyTo(p, f, k, g, l),
           f = g => MayCopy(g, l)
    PROVE  StraightAt(pc'[p], cur'[p], stack'[p])
<1>1. CASE f = g /\ Offers(f, Copiers \cup Table)
  <2> DEFINE c == [op |-> "copy", fs |-> f, key |-> k, dst |-> l]
  <2>1. cur'[p] = c /\ stack'[p] = <<>> \o <<>>
    BY <1>1 DEF CopyTo, Become, Domains, LockTypeOK
  <2>2. stack'[p] = <<>>
    BY <2>1, StackEmpty, StackSame
  <2>3. c.op = "copy" /\ Allowed(c)
    BY <1>1 DEF Allowed
  <2> HIDE DEF c
  <2> QED BY <2>1, <2>2, <2>3, StraightAlone
<1>2. CASE ~(f = g /\ Offers(f, Copiers \cup Table))
  <2> DEFINE frame == [at |-> "copy", fs |-> g, key |-> l]
             t == <<>> \o <<frame>>
  <2>1. cur'[p] = GetAt(f, k) /\ stack'[p] = t
    BY <1>2 DEF CopyTo, Become, Domains, LockTypeOK
  <2>2. Len(t) = 1 /\ t[1] = frame /\ t # <<>> /\ frame.at = "copy"
    <3>1. Len(<<>>) = 0 /\ Stacked(<<>>)
      BY StackEmpty
    <3> HIDE DEF frame
    <3>2. /\ Len(t) = Len(<<>>) + 1 /\ t # <<>> /\ t[Len(<<>>) + 1] = frame
      BY <3>1, PushIs
    <3>3. Len(t) = 1 /\ t[1] = frame
      BY <3>1, <3>2
    <3> QED BY <3>2, <3>3 DEF frame
  <2>3. \A i \in 1..Len(t) : t[i].at = "copy"
    BY <2>2
  <2>4. t # <<>> /\ t[1].at = "copy" /\ GetAt(f, k).op = "get"
    BY <2>2 DEF GetAt
  <2> HIDE DEF t, frame
  <2>5. SameOp(GetAt(f, k), t) /\ OpenedBy(GetAt(f, k), t)
    <3>1. SameOp(GetAt(f, k), t)
      BY <2>3 DEF SameOp
    <3>2. OpenedBy(GetAt(f, k), t)
      BY <2>4 DEF OpenedBy
    <3> QED BY <3>1, <3>2
  <2>6. StraightAt(pc'[p], GetAt(f, k), t)
    BY <2>4, <2>5 DEF StraightAt, Allowed
  <2> QED BY <2>1, <2>6
<1> QED BY <1>1, <1>2

LEMMA LoopStraight ==
    ASSUME Domains, NEW p \in Proc, stack[p] = <<>>,
           NEW C, \A c \in C : c.op \in {"put", "delete"}, NEW todo \in Seq(C), Loop(p, todo)
    PROVE  StraightAt(pc'[p], cur'[p], stack'[p])
<1>1. CASE todo = <<>>
  <2>1. pc'[p] = "return"
    BY <1>1 DEF Loop, Answer, Goto, Domains, LockTypeOK
  <2> QED BY <2>1 DEF StraightAt
<1>2. CASE todo # <<>>
  <2> DEFINE frame == [at |-> "loop", todo |-> Tail(todo)]
             t == <<>> \o <<frame>>
  <2>1. Head(todo) \in C
    BY <1>2, HeadTailProperties
  <2>2. cur'[p] = Head(todo) /\ stack'[p] = t
    BY <1>2 DEF Loop, Become, Domains, LockTypeOK
  <2>3. Len(t) = 1 /\ t[1] = frame /\ frame.at = "loop"
    <3>1. Len(<<>>) = 0 /\ Stacked(<<>>)
      BY StackEmpty
    <3> HIDE DEF frame
    <3>2. Len(t) = Len(<<>>) + 1 /\ t[Len(<<>>) + 1] = frame
      BY <3>1, PushIs
    <3>3. Len(t) = 1 /\ t[1] = frame
      BY <3>1, <3>2
    <3> QED BY <3>3 DEF frame
  <2>4. \A i \in 1..Len(t) : t[i].at # "hook"
    BY <2>3
  <2>5. Head(todo).op \in {"put", "delete"}
    BY <2>1
  <2> HIDE DEF t, frame
  <2>6. StraightAt(pc'[p], Head(todo), t)
    BY <2>4, <2>5 DEF StraightAt, SameOp, Allowed
  <2> QED BY <2>2, <2>6
<1> QED BY <1>1, <1>2

LEMMA BatchDeleteStraight ==
    ASSUME Domains, NEW p \in Proc, Runs(p), Sound(p), BatchDelete(p)
    PROVE  Straight(p)'
<1> DEFINE c == cur[p]
<1>1. SoundAt("call", c, stack[p], ans[p]) /\ c.op = "batchdelete"
  BY DEF Sound, BatchDelete, At
<1>2. stack[p] = <<>>
  BY <1>1 DEF SoundAt, Alone, Whole
<1>3. c.keys \in Seq(Key)
  BY <1>1, ClientCalls DEF Runs, Whole
<1>4. CASE Offers(c.fs, BatchDeleters)
  <2> DEFINE d == [op |-> "batch", fs |-> c.fs, keys |-> c.keys]
  <2>1. cur'[p] = d /\ stack'[p] = <<>> \o <<>>
    BY <1>2, <1>4 DEF BatchDelete, Become, Domains, LockTypeOK
  <2>2. stack'[p] = <<>>
    BY <2>1, StackEmpty, StackSame
  <2>3. c \in AllCalls
    BY <1>1 DEF Runs, Whole, AllCalls
  <2>4. d.op = "batch" /\ Allowed(d)
    BY <1>1, <1>4, <2>3 DEF Offers, Allowed, Batched
  <2> HIDE DEF d
  <2>5. StraightAt(pc'[p], d, <<>>)
    BY <2>4, StraightAlone
  <2> QED BY <2>1, <2>2, <2>5 DEF Straight
<1>5. CASE ~Offers(c.fs, BatchDeleters)
  <2> DEFINE e(i) == DelAt(c.fs, c.keys[i])
             todo == [i \in DOMAIN c.keys |-> e(i)]
             C == {DelAt(c.fs, k) : k \in Key}
  <2>1. Loop(p, todo)
    BY <1>5 DEF BatchDelete
  <2>2. \A x \in C : x.op \in {"put", "delete"}
    BY DEF DelAt
  <2>3. todo \in Seq(C)
    <3>1. Len(c.keys) \in Nat /\ DOMAIN c.keys = 1..Len(c.keys)
      BY <1>3, LenProperties
    <3>2. \A i \in 1..Len(c.keys) : e(i) \in C
      BY <1>3, ElementOfSeq
    <3> HIDE DEF C, e
    <3>3. [i \in 1..Len(c.keys) |-> e(i)] \in Seq(C)
      BY <3>1, <3>2, IsASeq
    <3> QED BY <3>1, <3>3
  <2> HIDE DEF C, todo
  <2>4. StraightAt(pc'[p], cur'[p], stack'[p])
    BY <1>2, <2>1, <2>2, <2>3, LoopStraight
  <2> QED BY <2>4 DEF Straight
<1> QED BY <1>4, <1>5

LEMMA UnpackStraight ==
    ASSUME Domains, NEW p \in Proc, Runs(p), Sound(p), Unpack(p)
    PROVE  Straight(p)'
<1> DEFINE c == cur[p]
           fs == c.files
<1>1. SoundAt("call", c, stack[p], ans[p]) /\ c.op = "unpack"
  BY DEF Sound, Unpack, At
<1>2. stack[p] = <<>>
  BY <1>1 DEF SoundAt, Alone, Whole
<1>3. fs \in Seq([key : Key, data : Payload])
  BY <1>1, ClientCalls DEF Runs, Whole
<1> DEFINE e(i) == PutAt(c.fs, fs[i].key, fs[i].data)
           todo == [i \in DOMAIN fs |-> e(i)]
           C == {PutAt(c.fs, k, d) : k \in Key, d \in Payload}
<1>4. Loop(p, todo)
  BY DEF Unpack
<1>5. \A x \in C : x.op \in {"put", "delete"}
  BY DEF PutAt
<1>6. todo \in Seq(C)
  <2>1. Len(fs) \in Nat /\ DOMAIN fs = 1..Len(fs)
    BY <1>3, LenProperties
  <2>2. \A i \in 1..Len(fs) : e(i) \in C
    <3> SUFFICES ASSUME NEW i \in 1..Len(fs) PROVE e(i) \in C
      OBVIOUS
    <3>1. fs[i] \in [key : Key, data : Payload]
      BY <1>3, ElementOfSeq
    <3> QED BY <3>1
  <2> HIDE DEF C, e
  <2>3. [i \in 1..Len(fs) |-> e(i)] \in Seq(C)
    BY <2>1, <2>2, IsASeq
  <2> QED BY <2>1, <2>3
<1> HIDE DEF C, todo
<1>7. StraightAt(pc'[p], cur'[p], stack'[p])
  BY <1>2, <1>4, <1>5, <1>6, LoopStraight
<1> QED BY <1>7 DEF Straight

LEMMA PutCopyStraight ==
    ASSUME Domains, NEW p \in Proc, Runs(p), Sound(p), PutCopy(p)
    PROVE  Straight(p)'
<1> DEFINE s == stack[p]
           f == s[Len(s)]
<1>1. /\ SoundAt("return", cur[p], s, ans[p]) /\ Stacked(s)
      /\ s # <<>> /\ f.at = "copy" /\ pc[p] = "return"
  BY DEF Sound, PutCopy, At, Top, Runs
<1>2. stack'[p] = SubSeq(s, 1, Len(s) - 1)
  BY DEF PutCopy, Pop, Domains
<1>3. stack'[p] = <<>>
  BY <1>1, <1>2, HelperIsAlone DEF SoundAt
<1>4. CASE ans[p].res = "ok"
  <2> DEFINE c == PutAt(f.fs, f.key, ans[p].data)
  <2>1. cur'[p] = c
    BY <1>4 DEF PutCopy, Top, Domains, LockTypeOK
  <2>2. c.op = "put" /\ Allowed(c)
    BY DEF PutAt, Allowed
  <2> HIDE DEF c
  <2>3. StraightAt(pc'[p], c, <<>>)
    BY <2>2, StraightAlone
  <2> QED BY <1>3, <2>1, <2>3 DEF Straight
<1>5. CASE ans[p].res # "ok"
  <2>1. pc'[p] = "return"
    BY <1>1, <1>5 DEF PutCopy
  <2> QED BY <2>1 DEF Straight, StraightAt
<1> QED BY <1>4, <1>5

LEMMA LoopOnStraight ==
    ASSUME Domains, NEW p \in Proc, Runs(p), Sound(p), LoopOn(p)
    PROVE  Straight(p)'
<1> DEFINE s == stack[p]
           f == s[Len(s)]
<1>1. /\ StackSound(s) /\ Stacked(s) /\ s # <<>> /\ f.at = "loop" /\ pc[p] = "return"
  BY DEF Sound, LoopOn, At, Top, Runs, SoundAt
<1>2. CASE UNCHANGED <<pc, cur, ans>>
  <2>1. pc'[p] = "return"
    BY <1>1, <1>2
  <2> QED BY <2>1 DEF Straight, StraightAt
<1>3. CASE /\ f.todo # <<>>
           /\ cur' = [cur EXCEPT ![p] = Head(f.todo)]
           /\ stack' = [stack EXCEPT ![p][Len(stack[p])].todo = Tail(@)]
  <2> DEFINE t == [s EXCEPT ![Len(s)].todo = Tail(@)]
  <2>1. cur'[p] = Head(f.todo) /\ stack'[p] = t
    BY <1>3 DEF Domains, LockTypeOK
  <2>2. /\ InLoop(Head(f.todo))
        /\ StackSound(t) /\ t # <<>> /\ t[Len(t)].at = "loop"
    BY <1>1, <1>3, LoopSound
  <2>3. Stacked(t)
    BY <1>1, <1>3, StackLoop
  <2>4. Head(f.todo).op \in {"put", "delete"}
    BY <2>2 DEF InLoop
  <2> HIDE DEF t, f
  <2>5. StraightAt(pc'[p], Head(f.todo), t)
    BY <2>2, <2>3, <2>4, StraightHelped
  <2> QED BY <2>1, <2>5 DEF Straight
<1> QED BY <1>2, <1>3 DEF LoopOn, Top

(* A hook leaves a frame of the same operation.                            *)
LEMMA ForwardStraight ==
    ASSUME Domains, NEW p \in Proc, Runs(p), Sound(p), Straight(p), Forward(p)
    PROVE  Straight(p)'
<1> DEFINE c == cur[p]
           s == stack[p]
           f == [at |-> "hook", call |-> c]
           inner == [c EXCEPT !.fs = Inner(c.fs)]
           d == IF c.op = "put" THEN [inner EXCEPT !.data = WrapPut(c.fs, c.key, @)] ELSE inner
           t == s \o <<f>>
<1>1. /\ CallSound(c) /\ StraightAt("call", c, s) /\ Stacked(s)
      /\ c.fs \in Hook /\ c.op \in {"get", "put", "delete", "copy", "batch"}
  BY DEF Sound, Straight, Forward, At, SoundAt, Runs
<1>2. cur'[p] = d /\ stack'[p] = t
  BY DEF Forward, Become, Domains, LockTypeOK
<1>3. c.op \in {"get", "put", "delete"} /\ {"op", "fs", "key"} \subseteq DOMAIN c
  BY <1>1 DEF CallSound
<1>4. inner.op = c.op
  BY <1>3
<1> HIDE DEF inner
<1>5. d.op = c.op
  BY <1>4
<1>6. f.at = "hook" /\ f.call = c
  OBVIOUS
<1> HIDE DEF c, d, f
<1>7. /\ Len(s) \in Nat /\ Len(t) = Len(s) + 1 /\ (s = <<>> <=> Len(s) = 0) /\ t # <<>>
      /\ \A i \in 1..Len(s) : t[i] = s[i]
      /\ t[Len(s) + 1] = f
  BY <1>1, PushIs
<1> HIDE DEF t
<1>8. SameOp(d, t)
  <2> SUFFICES ASSUME NEW i \in 1..Len(t), t[i].at = "hook" PROVE t[i].call.op = d.op
    BY DEF SameOp
  <2>1. CASE i = Len(s) + 1
    BY <1>5, <1>6, <1>7, <2>1
  <2>2. CASE i # Len(s) + 1
    <3>1. i \in 1..Len(s) /\ t[i] = s[i]
      BY <1>7, <2>2
    <3> QED BY <1>1, <1>5, <3>1 DEF StraightAt, SameOp
  <2> QED BY <2>1, <2>2
<1>9. d.op = "get" => OpenedBy(d, t)
  <2> SUFFICES ASSUME d.op = "get" PROVE OpenedBy(d, t)
    OBVIOUS
  <2>1. OpenedBy(c, s)
    BY <1>1, <1>5 DEF StraightAt
  <2>2. CASE s = <<>>
    <3>1. t[1] = f
      BY <1>7, <2>2
    <3>2. Plain(c.fs)
      BY <2>1, <2>2 DEF OpenedBy
    <3> QED BY <1>6, <1>7, <3>1, <3>2 DEF OpenedBy
  <2>3. CASE s # <<>>
    <3>1. t[1] = s[1]
      BY <1>7, <2>3
    <3> QED BY <1>7, <2>1, <2>3, <3>1 DEF OpenedBy
  <2> QED BY <2>2, <2>3
<1>10. Allowed(d)
  BY <1>3, <1>5 DEF Allowed
<1> QED BY <1>2, <1>8, <1>9, <1>10 DEF Straight, StraightAt

LEMMA LookupStraight ==
    ASSUME ThroughHooks, Domains, PlainMounts, MountsKnown, NEW p \in Proc,
           Runs(p), Asks(p), Sound(p), Straight(p), Lookup(p)
    PROVE  Straight(p)'
<1> DEFINE c == cur[p]
           s == stack[p]
           f == mounts[c.fs][Head(c.key)]
           sub == Tail(c.key)
<1>1. /\ SoundAt("rlock", c, s, ans[p]) /\ PassOn(p, f) /\ StraightAt("rlock", c, s)
      /\ c.op \in Routed /\ pc[p] = "rlock" /\ Stacked(s)
  BY DEF Sound, Straight, Lookup, At, Asks, Runs
<1>2. CallSound(c) /\ c.fs \in Table /\ c.key # <<>>
  BY <1>1 DEF SoundAt
<1>3. c.key \in Key
  BY <1>1, <1>2 DEF CallSound, Routed
<1>4. sub \in Key /\ Head(c.key) \in Name
  BY <1>2, <1>3, KeysAreSeqs
<1>5. f = NoFS \/ (Plain(f) /\ f \in MayMount)
  BY <1>2, <1>4 DEF PlainMounts, MountsKnown
<1> HIDE DEF f, sub
<1>6. CASE f = NoFS
  <2>1. pc'[p] = "return"
    BY <1>1, <1>6 DEF PassOn, Answer, Goto, Domains, LockTypeOK
  <2> QED BY <2>1 DEF Straight, StraightAt
<1>7. CASE f # NoFS /\ c.op = "copy"
  <2> DEFINE d == [op |-> "copydst", fs |-> c.fs, key |-> c.dst, sfs |-> f, skey |-> sub]
  <2>1. cur'[p] = d /\ stack'[p] = s \o <<>>
    BY <1>1, <1>7 DEF PassOn, AskForDst, Become, Domains, LockTypeOK, sub
  <2>2. stack'[p] = <<>>
    BY <1>1, <1>7, <2>1, StackSame DEF SoundAt, Alone
  <2>3. d.op = "copydst" /\ Allowed(d)
    BY <1>1, <1>7 DEF StraightAt, Allowed
  <2> HIDE DEF d
  <2>4. StraightAt(pc'[p], d, <<>>)
    BY <2>3, StraightAlone
  <2> QED BY <2>1, <2>2, <2>4 DEF Straight
<1>8. CASE f # NoFS /\ c.op = "copydst"
  <2>1. CopyTo(p, c.sfs, c.skey, f, sub)
    BY <1>1, <1>8 DEF PassOn, CopyFound, sub
  <2>2. stack[p] = <<>>
    BY <1>1, <1>8 DEF SoundAt, Alone
  <2>3. Plain(c.sfs) /\ c.skey \in Key /\ Plain(f) /\ MayCopy(c.fs, c.key)
    BY <1>1, <1>2, <1>5, <1>8 DEF CallSound, StraightAt, Allowed
  <2>5. MayCopy(f, sub)
    BY <1>2, <1>3, <1>5, <1>8, <2>3, CopyBelow DEF sub
  <2> HIDE DEF c
  <2>4. StraightAt(pc'[p], cur'[p], stack'[p])
    BY <1>4, <2>1, <2>2, <2>3, <2>5, CopyToStraight
  <2> QED BY <2>4 DEF Straight
<1>9. CASE f # NoFS /\ c.op \in {"get", "put", "delete"}
  <2> DEFINE d == [c EXCEPT !.fs = f, !.key = sub]
  <2>1. cur'[p] = d /\ stack'[p] = s \o <<>>
    BY <1>1, <1>9 DEF PassOn, Become, Domains, LockTypeOK, sub
  <2>2. stack'[p] = s
    BY <1>1, <2>1, StackSame
  <2>3. {"op", "fs", "key"} \subseteq DOMAIN c
    BY <1>2, <1>9 DEF CallSound
  <2>4. d.op = c.op /\ d.fs = f
    BY <2>3
  <2> HIDE DEF d, c, s
  <2>5. SameOp(d, s)
    BY <1>1, <2>4 DEF StraightAt, SameOp
  <2>6. d.op = "get" => OpenedBy(d, s)
    BY <1>1, <1>5, <1>9, <2>4 DEF StraightAt, OpenedBy
  <2>7. Allowed(d)
    BY <1>9, <2>4 DEF Allowed
  <2> QED BY <2>1, <2>2, <2>5, <2>6, <2>7 DEF Straight, StraightAt
<1> QED BY <1>1, <1>6, <1>7, <1>8, <1>9 DEF Routed

(* Opening and creating, Copy stays where it is.                           *)
LEMMA CopyBeginsStraight ==
    ASSUME Domains, NEW p \in Proc, Sound(p), Straight(p), CopyOpens(p) \/ CopyCreates(p)
    PROVE  Straight(p)'
<1> DEFINE c == cur[p]
           d == [op |-> "create", fs |-> c.fs, key |-> c.key, dst |-> c.dst, data |-> Held(p)]
           g == [c EXCEPT !.op = "fill"]
<1>1. /\ SoundAt("call", c, stack[p], ans[p]) /\ StraightAt("call", c, stack[p])
      /\ c.op = IF CopyOpens(p) THEN "copy" ELSE "create"
  BY CopyBeginning DEF Sound, Straight, CopyOpens, CopyCreates, Calling
<1>2. stack[p] = <<>> /\ CallSound(c) /\ MayCopy(c.fs, c.dst)
  BY <1>1 DEF SoundAt, Alone, StraightAt, Allowed
<1>3. CASE pc'[p] = "return"
  BY <1>3 DEF Straight, StraightAt
<1>4. ASSUME NEW x, Become(p, x, <<>>), x.op \in {"create", "fill"}, x.fs = c.fs, x.dst = c.dst
      PROVE  Straight(p)'
  <2>1. cur'[p] = x /\ stack'[p] = <<>> \o <<>>
    BY <1>2, <1>4 DEF Become, Domains, LockTypeOK
  <2>2. stack'[p] = <<>>
    BY <2>1, StackEmpty, StackSame
  <2>3. Allowed(x)
    BY <1>2, <1>4 DEF Allowed
  <2>4. StraightAt(pc'[p], x, <<>>)
    BY <1>4, <2>3, StraightAlone
  <2> QED BY <2>1, <2>2, <2>4 DEF Straight
<1>5. CASE Become(p, d, <<>>)
  <2>1. d.op = "create" /\ d.fs = c.fs /\ d.dst = c.dst
    OBVIOUS
  <2> HIDE DEF c, d
  <2> QED BY <1>4, <1>5, <2>1
<1>6. CASE ~CopyOpens(p) /\ Become(p, g, <<>>)
  <2>1. {"op", "fs", "dst"} \subseteq DOMAIN c
    BY <1>1, <1>2, <1>6 DEF CallSound
  <2>2. g.op = "fill" /\ g.fs = c.fs /\ g.dst = c.dst
    BY <2>1
  <2> HIDE DEF c, g
  <2> QED BY <1>4, <1>6, <2>2
<1> QED BY <1>3, <1>5, <1>6, CopyBegins

LEMMA StepStraight ==
    ASSUME ThroughHooks, Domains, PlainMounts, MountsKnown, NEW p \in Proc,
           Runs(p), Asks(p), Stands(p), Sound(p), Straight(p), Call(p) \/ Proceed(p) \/ Finish(p)
    PROVE  Straight(p)'
<1> USE DEF At, Goto, Domains, LockTypeOK
<1>1. CASE Call(p)
  <2>1. cur'[p] \in Calls[p] /\ stack'[p] = <<>>
    BY <1>1 DEF Call, Submit, Stands
  <2>2. cur'[p] \in ClientCall
    BY <2>1, ClientAssumption
  <2>3. cur'[p].op = "get" => Plain(cur'[p].fs)
    BY <2>1 DEF ThroughHooks
  <2>4. Allowed(cur'[p])
    BY <2>1, <2>2 DEF ClientCall, Allowed, AllCalls
  <2>5. StraightAt(pc'[p], cur'[p], <<>>)
    BY <2>3, <2>4, StraightAlone
  <2> QED BY <2>1, <2>5 DEF Straight
<1>2. CASE Begin(p) \/ Resolve(p)
  <2>1. /\ pc[p] \in {"next", "call"} /\ cur'[p] = cur[p] /\ stack'[p] = stack[p]
    BY <1>2 DEF Begin, Resolve, Calling
  <2> QED BY <2>1 DEF Straight, StraightAt
<1>3. CASE pc'[p] \in {"idle", "lock", "return"}
  BY <1>3 DEF Straight, StraightAt
<1>4. CASE \/ Finish(p) \/ Cancelled(p) \/ BaseReturns(p) \/ Refuse(p) \/ LockTable(p)
           \/ Mount(p) \/ Unmount(p) \/ HookReturns(p)
  <2>1. pc'[p] \in {"idle", "lock", "return"}
    BY <1>4, BaseReturning
       DEF Finish, Return, Cancelled, Refuse, LockTable, Mount, Unmount, HookReturns, Answer
  <2> QED BY <1>3, <2>1
<1>5. CASE Copy(p)
  <2>1. SoundAt("call", cur[p], stack[p], ans[p]) /\ cur[p].op = "copyto"
    BY <1>5 DEF Sound, Copy
  <2>2. CallSound(cur[p]) /\ stack[p] = <<>>
    BY <2>1 DEF SoundAt, Alone
  <2>3. /\ Plain(cur[p].fs) /\ Plain(cur[p].dfs) /\ cur[p].key \in Key /\ cur[p].dst \in Key
        /\ CopyTo(p, cur[p].fs, cur[p].key, cur[p].dfs, cur[p].dst)
    BY <1>5, <2>1, <2>2 DEF CallSound, Copy
  <2>5. cur[p].fs = cur[p].dfs => MayCopy(cur[p].dfs, cur[p].dst)
    <3>1. cur[p] \in AllCalls
      BY <1>5, <2>1 DEF Copy, Straight, StraightAt, Allowed
    <3> QED BY <2>1, <3>1, CopyWithin
  <2>4. StraightAt(pc'[p], cur'[p], stack'[p])
    BY <2>2, <2>3, <2>5, CopyToStraight
  <2> QED BY <2>4 DEF Straight
<1>6. CASE BatchDelete(p) \/ Unpack(p) \/ PutCopy(p) \/ LoopOn(p) \/ Forward(p) \/ Lookup(p)
  BY <1>6, BatchDeleteStraight, UnpackStraight, PutCopyStraight, LoopOnStraight, ForwardStraight,
     LookupStraight
<1>7. CASE CopyOpens(p) \/ CopyCreates(p)
  BY <1>7, CopyBeginsStraight
<1> QED BY <1>1, <1>2, <1>4, <1>5, <1>6, <1>7 DEF Proceed, CallStep, HookStep, MountStep, BaseReturns

LEMMA StepMountsKnown ==
    ASSUME Domains, MountsKnown, NEW p \in Proc, Runs(p), Call(p) \/ Proceed(p) \/ Finish(p)
    PROVE  MountsKnown'
<1>1. CASE Mount(p) \/ Unmount(p)
  <2> DEFINE c == cur[p]
  <2>1. c.op \in {"mount", "unmount"} /\ c \in Calls[p]
    BY <1>1 DEF Mount, Unmount, Runs, Whole
  <2>2. c.fs \in Table /\ c.key \in Name
    BY <2>1, ClientCalls
  <2>3. c \in AllCalls
    BY <2>1 DEF AllCalls
  <2>4. PICK f : /\ mounts' = [mounts EXCEPT ![c.fs][c.key] = f]
                 /\ f = NoFS \/ (c.op = "mount" /\ f = c.target)
    BY <1>1 DEF Mount, Unmount
  <2>5. f \in MayMount \cup {NoFS}
    BY <2>3, <2>4 DEF MayMount
  <2> HIDE DEF c
  <2>6. \A t \in Table, n \in Name : mounts'[t][n] = f \/ mounts'[t][n] = mounts[t][n]
    BY <2>2, <2>4 DEF Domains
  <2> QED BY <2>5, <2>6 DEF MountsKnown
<1>2. CASE UNCHANGED mounts
  BY <1>2 DEF MountsKnown
<1> QED BY <1>1, <1>2 DEF Call, Finish, Proceed, MountStep, Resolve, Refuse, Lookup, LockTable

(* p alone moves.                                                          *)
LEMMA StepKeeps ==
    ASSUME Domains, NEW p \in Proc, Call(p) \/ Proceed(p) \/ Finish(p)
    PROVE  Keeps(p)
<1>1. CASE Carries(p)
  BY <1>1, CarriesKeeps
<1>2. CASE Call(p) \/ Finish(p) \/ Mount(p) \/ Unmount(p)
  BY <1>2, OwnVariables
     DEF Call, Submit, Finish, Return, Mount, Unmount, Answer, Goto, Where
<1> QED BY <1>1, <1>2 DEF Proceed, MountStep, Carries

AllStraight == MountsKnown /\ \A p \in Proc : Straight(p)

LEMMA NextStraight ==
    ASSUME ThroughHooks, UnmountInv, DataInv, AllStraight, [Next]_vars
    PROVE  AllStraight'
<1>1. CASE UNCHANGED vars
  BY <1>1 DEF AllStraight, MountsKnown, Straight, vars, mountvars, callvars
<1>2. ASSUME NEW p \in Proc, Call(p) \/ Proceed(p) \/ Finish(p)
      PROVE  AllStraight'
  <2>1. /\ Domains /\ Runs(p) /\ Asks(p) /\ Stands(p) /\ PlainMounts /\ Sound(p) /\ Straight(p)
        /\ MountsKnown
    BY DEF UnmountInv, DataInv, AllStraight
  <2>2. Straight(p)' /\ Keeps(p) /\ MountsKnown'
    BY <1>2, <2>1, StepStraight, StepKeeps, StepMountsKnown
  <2>3. ASSUME NEW q \in Proc \ {p} PROVE Straight(q)'
    BY <2>2 DEF Keeps, AllStraight, Straight
  <2> QED BY <2>2, <2>3 DEF AllStraight
<1> QED BY <1>1, <1>2 DEF Next

----------------------------------------------------------------------------
(* What a client waits for and what it is going to be answered, of a call  *)
(* c at w with frames s and answer a.                                      *)

WaitAt(w, c) ==
    LET at == Place(c.fs, c.key)
    IN  IF w \notin {"call", "rlock", "return"} THEN NoReq
        ELSE CASE c.op \in {"get", "delete"} /\ at \in Places -> [op |-> c.op, key |-> at]
               [] c.op = "put" /\ at \in Places -> [op |-> "put", key |-> at, val |-> Head(c.data)]
               [] /\ c.op = "copy" /\ c.fs \in BatchDeleters
                  /\ {<<c.fs, c.key>>, <<c.fs, c.dst>>} \subseteq Places ->
                    [op |-> "copy", key |-> <<c.fs, c.key>>, dst |-> <<c.fs, c.dst>>]
               [] OTHER -> NoReq

AnsweredAt(w, r, s, a) ==
    IF r = NoReq \/ w # "return" THEN NoAns
    ELSE IF r.op = "get" /\ a.res = "ok"
         THEN LET data == Unwrapped(s, a.data)
              IN  [res |-> "ok", val |-> IF Len(data) = 1 THEN Head(data) ELSE NoFile]
         ELSE [res |-> a.res]

LEMMA WaitsAt ==
    ASSUME NEW p \in Proc
    PROVE  /\ Waiting(p) = WaitAt(pc[p], cur[p])
           /\ Waiting(p)' = WaitAt(pc'[p], cur'[p])
           /\ Answered(p) = AnsweredAt(pc[p], Waiting(p), stack[p], ans[p])
           /\ Answered(p)' = AnsweredAt(pc'[p], Waiting(p)', stack'[p], ans'[p])
<1>1. Waiting(p) = WaitAt(pc[p], cur[p])
  BY DEF Waiting, WaitAt
<1>2. Waiting(p)' = WaitAt(pc'[p], cur'[p])
  BY DEF Waiting, WaitAt
<1>3. Answered(p) = AnsweredAt(pc[p], Waiting(p), stack[p], ans[p])
  BY DEF Answered, AnsweredAt
<1>4. Answered(p)' = AnsweredAt(pc'[p], Waiting(p)', stack'[p], ans'[p])
  BY DEF Answered, AnsweredAt, Unwrapped
<1> QED BY <1>1, <1>2, <1>3, <1>4

LEMMA WaitCases ==
    ASSUME NEW w, NEW c
    PROVE  LET at == Place(c.fs, c.key) IN
           /\ w \notin {"call", "rlock", "return"} => WaitAt(w, c) = NoReq
           /\ w \in {"call", "rlock", "return"} =>
                /\ c.op \in {"get", "delete"} =>
                      WaitAt(w, c) = IF at \in Places THEN [op |-> c.op, key |-> at] ELSE NoReq
                /\ c.op = "put" =>
                      WaitAt(w, c) = IF at \in Places THEN [op |-> "put", key |-> at, val |-> Head(c.data)]
                                     ELSE NoReq
                /\ c.op = "copy" =>
                      WaitAt(w, c) = IF /\ c.fs \in BatchDeleters
                                        /\ {<<c.fs, c.key>>, <<c.fs, c.dst>>} \subseteq Places
                                     THEN [op |-> "copy", key |-> <<c.fs, c.key>>, dst |-> <<c.fs, c.dst>>]
                                     ELSE NoReq
                /\ c.op \notin {"get", "delete", "put", "copy"} => WaitAt(w, c) = NoReq
<1> HIDE DEF Place, Places
<1>1. CASE w \notin {"call", "rlock", "return"}
  BY <1>1 DEF WaitAt
<1>2. CASE w \in {"call", "rlock", "return"}
  <2>1. CASE c.op \in {"get", "delete"}
    BY <1>2, <2>1 DEF WaitAt
  <2>2. CASE c.op = "put"
    BY <1>2, <2>2 DEF WaitAt
  <2>3. CASE c.op = "copy"
    BY <1>2, <2>3 DEF WaitAt
  <2>4. CASE c.op \notin {"get", "delete", "put", "copy"}
    BY <1>2, <2>4 DEF WaitAt
  <2> QED BY <1>2, <2>1, <2>2, <2>3, <2>4
<1> QED BY <1>1, <1>2

(* What a call waits for is one the store promises to serve.               *)
LEMMA WaitType ==
    ASSUME NEW w \in {"next", "call", "rlock"}, NEW c, CallSound(c)
    PROVE  WaitAt(w, c) \in Promised \cup {NoReq}
<1> DEFINE at == Place(c.fs, c.key)
<1> HIDE DEF at
<1>1. CASE w = "next"
  BY <1>1, WaitCases
<1>2. CASE w # "next" /\ c.op \in {"get", "delete"}
  <2>1. WaitAt(w, c) = IF at \in Places THEN [op |-> c.op, key |-> at] ELSE NoReq
    BY <1>2, WaitCases DEF at
  <2>2. at \in Places => [op |-> c.op, key |-> at] \in [op : {"get", "delete"}, key : Places]
    BY <1>2
  <2> QED BY <2>1, <2>2 DEF Promised
<1>3. CASE w # "next" /\ c.op = "put"
  <2>1. Head(c.data) \in Val
    BY <1>3, SuitsIsData DEF CallSound
  <2> DEFINE r == [op |-> "put", key |-> at, val |-> Head(c.data)]
  <2>2. WaitAt(w, c) = IF at \in Places THEN r ELSE NoReq
    BY <1>3, WaitCases DEF at
  <2>3. at \in Places => r \in [op : {"put"}, key : Places, val : Val]
    BY <2>1
  <2> HIDE DEF r
  <2> QED BY <2>2, <2>3 DEF Promised
<1>4. CASE w # "next" /\ c.op = "copy"
  <2> DEFINE r == [op |-> "copy", key |-> <<c.fs, c.key>>, dst |-> <<c.fs, c.dst>>]
  <2>1. /\ WaitAt(w, c) \in {r, NoReq}
        /\ WaitAt(w, c) # NoReq => /\ c.fs \in BatchDeleters
                                   /\ {<<c.fs, c.key>>, <<c.fs, c.dst>>} \subseteq Places
    BY <1>4, WaitCases
  <2>2. ASSUME c.fs \in BatchDeleters, {<<c.fs, c.key>>, <<c.fs, c.dst>>} \subseteq Places
        PROVE  r \in Promised
    <3>1. c.fs \in BatchDeleters \ Batched /\ c.key \in Sub /\ c.dst \in Sub
      BY <2>2, PlacesAre
    <3>2. r \in [op : {"copy"}, key : {c.fs} \X Sub, dst : {c.fs} \X Sub]
      BY <3>1
    <3> HIDE DEF r
    <3> QED BY <3>1, <3>2 DEF Promised
  <2> QED BY <2>1, <2>2
<1>5. CASE w # "next" /\ c.op \notin {"get", "delete", "put", "copy"}
  BY <1>5, WaitCases
<1> QED BY <1>1, <1>2, <1>3, <1>4, <1>5

LEMMA AnswerIs ==
    ASSUME NEW p \in Proc
    PROVE  /\ Waiting(p) = NoReq \/ pc[p] # "return" => Answered(p) = NoAns
           /\ Waiting(p) # NoReq /\ pc[p] = "return" => Answered(p) # NoAns
           /\ Waiting(p)' = NoReq \/ pc'[p] # "return" => Answered(p)' = NoAns
<1>1. /\ Answered(p) = AnsweredAt(pc[p], Waiting(p), stack[p], ans[p])
      /\ Answered(p)' = AnsweredAt(pc'[p], Waiting(p)', stack'[p], ans'[p])
  BY WaitsAt
<1>2. \A w, r, t, a : r = NoReq \/ w # "return" => AnsweredAt(w, r, t, a) = NoAns
  BY DEF AnsweredAt
<1>3. ASSUME NEW r, NEW t, NEW a, r # NoReq
      PROVE  AnsweredAt("return", r, t, a) # NoAns
  <2>1. "data" \in DOMAIN NoAns
    BY DEF NoAns
  <2>2. \/ \E v : AnsweredAt("return", r, t, a) = [res |-> "ok", val |-> v]
        \/ AnsweredAt("return", r, t, a) = [res |-> a.res]
    BY <1>3 DEF AnsweredAt
  <2>3. "data" \notin DOMAIN AnsweredAt("return", r, t, a)
    BY <2>2
  <2> QED BY <2>1, <2>3
<1>4. Waiting(p) # NoReq /\ pc[p] = "return" => Answered(p) # NoAns
  BY <1>1, <1>3
<1> QED BY <1>1, <1>2, <1>4

----------------------------------------------------------------------------
(* Steps of one client, as the store sees them.                            *)

Others(p) == \A q \in Proc \ {p} : Waiting(q)' = Waiting(q) /\ Answered(q)' = Answered(q)

Same(p) == Waiting(p)' = Waiting(p) /\ Answered(p)' = Answered(p)

LEMMA OthersWait ==
    ASSUME NEW p \in Proc, Keeps(p)
    PROVE  Others(p)
<1> SUFFICES ASSUME NEW q \in Proc \ {p}
             PROVE  Waiting(q)' = Waiting(q) /\ Answered(q)' = Answered(q)
  BY DEF Others
<1>1. pc'[q] = pc[q] /\ cur'[q] = cur[q] /\ stack'[q] = stack[q] /\ ans'[q] = ans[q]
  BY DEF Keeps
<1>2. Waiting(q)' = Waiting(q)
  BY <1>1, WaitsAt
<1> QED BY <1>1, <1>2, WaitsAt

Effect(p) == OneStore!Next \/ UNCHANGED OneStore!vars

LEMMA Stutters ==
    ASSUME NEW p \in Proc, Others(p), Same(p), Shown' = Shown
    PROVE  Effect(p)
<1>1. \A q \in Proc : Waiting(q)' = Waiting(q) /\ Answered(q)' = Answered(q)
  BY DEF Others, Same
<1>2. /\ [q \in Proc |-> Waiting(q)]' = [q \in Proc |-> Waiting(q)]
      /\ [q \in Proc |-> Answered(q)]' = [q \in Proc |-> Answered(q)]
  BY <1>1
<1> QED BY <1>2 DEF Effect, OneStore!vars, Shown

(* The answer to a call is decided.                                        *)
LEMMA Decides ==
    ASSUME NEW p \in Proc, Others(p), Waiting(p)' = Waiting(p), NEW a, Answered(p)' = a
    PROVE  OneStore!Answers(p, a)
<1>1. \A q \in Proc : /\ Waiting(q)' = Waiting(q)
                      /\ Answered(q)' = IF q = p THEN a ELSE Answered(q)
  BY DEF Others
<1>2. /\ [q \in Proc |-> Waiting(q)]' = [q \in Proc |-> Waiting(q)]
      /\ [q \in Proc |-> Answered(q)]' = [[q \in Proc |-> Answered(q)] EXCEPT ![p] = a]
  BY <1>1
<1> QED BY <1>2 DEF OneStore!Answers

(* A call has come to where its way is certain, if it has.                 *)
LEMMA Comes ==
    ASSUME NEW p \in Proc, Others(p), Waiting(p) = NoReq, Waiting(p)' \in Promised \cup {NoReq},
           pc'[p] # "return" \/ Waiting(p)' = NoReq, Shown' = Shown
    PROVE  Effect(p)
<1>1. Answered(p) = NoAns /\ Answered(p)' = NoAns
  BY AnswerIs
<1>2. CASE Waiting(p)' = NoReq
  BY <1>1, <1>2, Stutters DEF Same
<1>3. CASE Waiting(p)' # NoReq
  <2> DEFINE r == Waiting(p)'
  <2>0. r \in Promised
    BY <1>3
  <2>1. \A q \in Proc : /\ Waiting(q)' = IF q = p THEN r ELSE Waiting(q)
                        /\ Answered(q)' = Answered(q)
    BY <1>1 DEF Others
  <2> HIDE DEF r
  <2>2. /\ [q \in Proc |-> Waiting(q)]' = [[q \in Proc |-> Waiting(q)] EXCEPT ![p] = r]
        /\ [q \in Proc |-> Answered(q)]' = [q \in Proc |-> Answered(q)]
    BY <2>1
  <2>3. [q \in Proc |-> Waiting(q)][p] = NoReq
    OBVIOUS
  <2>4. OneStore!Call(p)
    BY <2>0, <2>2, <2>3 DEF OneStore!Call, Shown
  <2> QED BY <2>4 DEF Effect, OneStore!Next
<1> QED BY <1>2, <1>3

(* It has come back.                                                       *)
LEMMA Leaves ==
    ASSUME NEW p \in Proc, Others(p), pc[p] = "return", Waiting(p)' = NoReq, Shown' = Shown
    PROVE  Effect(p)
<1>1. Answered(p)' = NoAns
  BY AnswerIs
<1>2. CASE Waiting(p) = NoReq
  BY <1>2, Comes
<1>3. CASE Waiting(p) # NoReq
  <2>1. Answered(p) # NoAns
    BY <1>3, AnswerIs
  <2>2. \A q \in Proc : /\ Waiting(q)' = IF q = p THEN NoReq ELSE Waiting(q)
                        /\ Answered(q)' = IF q = p THEN NoAns ELSE Answered(q)
    BY <1>1 DEF Others
  <2>3. /\ [q \in Proc |-> Waiting(q)]' = [[q \in Proc |-> Waiting(q)] EXCEPT ![p] = NoReq]
        /\ [q \in Proc |-> Answered(q)]' = [[q \in Proc |-> Answered(q)] EXCEPT ![p] = NoAns]
        /\ [q \in Proc |-> Answered(q)][p] # NoAns
    BY <2>1, <2>2
  <2>4. OneStore!Return(p)
    BY <2>3 DEF OneStore!Return, Shown
  <2> QED BY <2>4 DEF Effect, OneStore!Next
<1> QED BY <1>2, <1>3

(* It fails.                                                               *)
LEMMA Refused ==
    ASSUME NEW p \in Proc, Others(p), pc[p] # "return", Waiting(p)' = Waiting(p),
           pc'[p] = "return", ans'[p].res = "error", Shown' = Shown
    PROVE  Effect(p)
<1>1. Answered(p) = NoAns
  BY AnswerIs
<1>2. CASE Waiting(p) = NoReq
  <2>1. Answered(p)' = NoAns
    BY <1>2, AnswerIs
  <2> QED BY <1>1, <2>1, Stutters DEF Same
<1>3. CASE Waiting(p) # NoReq
  <2>1. Answered(p)' = [res |-> "error"]
    BY <1>3, WaitsAt DEF AnsweredAt
  <2>2. OneStore!Answers(p, [res |-> "error"])
    BY <2>1, Decides
  <2>3. OneStore!Fail(p)
    BY <1>1, <1>3, <2>2 DEF OneStore!Fail, Shown
  <2> QED BY <2>3 DEF Effect, OneStore!Next
<1> QED BY <1>2, <1>3

----------------------------------------------------------------------------
(* The steps that decide.                                                  *)

LEMMA WaitMoves ==
    ASSUME NEW w \in {"call", "rlock", "return"}, NEW v \in {"call", "rlock", "return"}, NEW c
    PROVE  WaitAt(v, c) = WaitAt(w, c)
BY DEF WaitAt

(* A call that a base answers is for a place of its own.                   *)
LEMMA AtItsBase ==
    ASSUME Domains, NEW p \in Proc, Sound(p),
           BaseReturns(p) \/ Refuse(p)
    PROVE  /\ pc[p] = "call" /\ pc'[p] = "return" /\ stack'[p] = stack[p]
           /\ SoundAt("call", cur[p], stack[p], ans[p]) /\ CallSound(cur[p])
           /\ Waiting(p) = WaitAt("call", cur[p]) /\ Waiting(p)' = Waiting(p)
           /\ Answered(p) = NoAns
<1>1. /\ pc[p] = "call" /\ pc'[p] = "return" /\ stack'[p] = stack[p] /\ cur'[p] = cur[p]
  BY BaseReturning DEF Refuse, Calling, Answer, At, Goto, Domains, LockTypeOK
<1>2. Waiting(p) = WaitAt("call", cur[p]) /\ Waiting(p)' = WaitAt("return", cur[p])
  BY <1>1, WaitsAt
<1>3. Waiting(p)' = Waiting(p)
  BY <1>2, WaitMoves
<1>4. Answered(p) = NoAns
  BY <1>1, AnswerIs
<1> QED BY <1>1, <1>2, <1>3, <1>4 DEF Sound, SoundAt

LEMMA GetEffect ==
    ASSUME Domains, EverythingDecodes, NEW p \in Proc, Runs(p), Sound(p), Straight(p),
           Others(p), Get(p)
    PROVE  Effect(p)
<1> DEFINE c == cur[p]
           s == stack[p]
           at == <<c.fs, c.key>>
           data == store[c.fs][c.key]
<1>1. /\ c.op = "get" /\ c.fs \in Base /\ c.key \in Sub /\ Shown' = Shown
      /\ IF data = NoFile THEN ans'[p] = [res |-> "notfound", data |-> <<>>]
                          ELSE ans'[p] = [res |-> "ok", data |-> data]
  BY ShownSame DEF Get, Calling, Answer, Held, Domains
<1>2. /\ pc[p] = "call" /\ pc'[p] = "return" /\ stack'[p] = s
      /\ SoundAt("call", c, s, ans[p]) /\ CallSound(c)
      /\ Waiting(p) = WaitAt("call", c) /\ Waiting(p)' = Waiting(p) /\ Answered(p) = NoAns
  BY AtItsBase DEF BaseReturns
<1>3. Place(c.fs, c.key) = at
  BY <1>1, <1>2, PlaceAtBase DEF CallSound
<1>4. Waiting(p) = IF at \in Places THEN [op |-> "get", key |-> at] ELSE NoReq
  BY <1>1, <1>2, <1>3, WaitCases
<1>5. CASE at \notin Places
  <2>1. Answered(p)' = NoAns
    BY <1>2, <1>4, <1>5, AnswerIs
  <2> QED BY <1>1, <1>2, <2>1, Stutters DEF Same
<1>6. CASE at \in Places
  <2>1. Waiting(p) = [op |-> "get", key |-> at] /\ Waiting(p) \in Promised
    <3>1. [op |-> "get", key |-> at] \in [op : {"get", "delete"}, key : Places]
      BY <1>6
    <3> QED BY <1>4, <1>6, <3>1 DEF Promised
  <2>2. Waiting(p) # NoReq /\ Waiting(p).op = "get" /\ Waiting(p).key = at
    BY <2>1, StoreAssumption
  <2>3. Shown[at] = Contents(c.fs, c.key)
    BY <1>6 DEF Shown
  <2>4. CASE data = NoFile
    <3>1. Shown[at] = NoFile
      BY <1>1, <2>3, <2>4, ContentsAre
    <3>2. ans'[p].res = "notfound"
      BY <1>1, <2>4
    <3>3. Answered(p)' = [res |-> "notfound"]
      BY <1>2, <2>2, <3>2, WaitsAt DEF AnsweredAt
    <3>4. OneStore!Answers(p, [res |-> "notfound"])
      BY <1>2, <3>3, Decides
    <3>5. OneStore!Get(p)
      BY <1>1, <1>2, <2>2, <3>1, <3>4 DEF OneStore!Get, OneStore!Pending, Shown
    <3> QED BY <3>5 DEF Effect, OneStore!Next
  <2>5. CASE data # NoFile
    <3>1. Coded(c.fs, 0, c.key, data) /\ Shown[at] = Head(data) /\ Shown[at] # NoFile
      BY <1>1, <2>3, <2>5, ContentsAre, CodedIsData
    <3>2. Suits(c.fs, c.key, data)
      BY <1>1, <3>1, BaseSuits
    <3>3. Unwrapped(s, data) = <<Head(data)>>
      <4>1. /\ Stacked(s) /\ StackSound(s) /\ SameOp(c, s) /\ OpenedBy(c, s)
            /\ s # <<>> => Answering(c, s[Len(s)])
        BY <1>1, <1>2 DEF Runs, SoundAt, Straight, StraightAt
      <4> HIDE DEF c, s, data
      <4> QED BY <1>1, <3>2, <4>1, UnwrappedIsPayload
    <3>4. ans'[p].res = "ok" /\ ans'[p].data = data
      BY <1>1, <2>5
    <3>5. Answered(p)' = [res |-> "ok", val |-> Head(data)]
      <4> DEFINE u == Unwrapped(s, data)
                 v == Head(data)
      <4>1. Answered(p)' = [res |-> "ok", val |-> IF Len(u) = 1 THEN Head(u) ELSE NoFile]
        BY <1>2, <2>2, <3>4, WaitsAt DEF AnsweredAt
      <4>2. u = <<v>>
        BY <3>3
      <4> HIDE DEF u, v
      <4>3. Len(u) = 1 /\ Head(u) = v
        BY <4>2
      <4> QED BY <4>1, <4>3 DEF v
    <3>6. OneStore!Answers(p, [res |-> "ok", val |-> Head(data)])
      BY <1>2, <3>5, Decides
    <3>7. OneStore!Get(p)
      BY <1>1, <1>2, <2>2, <3>1, <3>6 DEF OneStore!Get, OneStore!Pending, Shown
    <3> QED BY <3>7 DEF Effect, OneStore!Next
  <2> QED BY <2>4, <2>5
<1> QED BY <1>5, <1>6

LEMMA FailEffect ==
    ASSUME Domains, NEW p \in Proc, Sound(p), Others(p), Fail(p) \/ Refuse(p)
    PROVE  Effect(p)
<1>1. /\ pc[p] = "call" /\ pc'[p] = "return" /\ Waiting(p)' = Waiting(p)
  BY AtItsBase DEF BaseReturns
<1>2. ans'[p].res = "error" /\ Shown' = Shown
  BY ShownSame DEF Fail, Refuse, Answer, Domains
<1> QED BY <1>1, <1>2, Refused

LEMMA PutEffect ==
    ASSUME Domains, StoreShape, NEW p \in Proc, Sound(p), Others(p),
           Put(p) \/ (Lost(p) /\ cur[p].op = "put")
    PROVE  Effect(p)
<1> DEFINE c == cur[p]
           at == <<c.fs, c.key>>
           v == Head(c.data)
<1>1. /\ c.op = "put" /\ c.fs \in Base /\ c.key \in Sub /\ Set(c.fs, c.key, c.data)
      /\ ans'[p].res = "ok" \/ (ans'[p].res = "error" /\ c.fs \in BatchDeleters)
  BY InterfaceAssumption DEF Put, Lost, Calling, Answer, Domains
<1>2. /\ pc[p] = "call" /\ pc'[p] = "return" /\ CallSound(c)
      /\ Waiting(p) = WaitAt("call", c) /\ Waiting(p)' = Waiting(p) /\ Answered(p) = NoAns
  BY AtItsBase DEF BaseReturns
<1>3. Place(c.fs, c.key) = at
  BY <1>1, <1>2, PlaceAtBase DEF CallSound
<1>4. Waiting(p) = IF at \in Places THEN [op |-> "put", key |-> at, val |-> v] ELSE NoReq
  BY <1>1, <1>2, <1>3, WaitCases
<1>5. Shown' = IF at \in Places THEN [Shown EXCEPT ![at] = v] ELSE Shown
  <2>1. Coded(c.fs, 0, c.key, c.data)
    BY <1>1, <1>2, BaseSuits DEF CallSound
  <2>2. c.data # NoFile
    BY <1>1, <2>1, CodedIsData
  <2> HIDE DEF c
  <2> QED BY <1>1, <2>1, <2>2, ShownSet
<1>6. CASE at \notin Places
  <2>1. Answered(p)' = NoAns
    BY <1>2, <1>4, <1>6, AnswerIs
  <2> QED BY <1>2, <1>5, <1>6, <2>1, Stutters DEF Same
<1>7. CASE at \in Places
  <2>1. Waiting(p) = [op |-> "put", key |-> at, val |-> v] /\ Waiting(p) \in Promised
    <3>1. Waiting(p) \in Promised \cup {NoReq}
      BY <1>2, WaitType
    <3>2. v \in Val
      BY <1>1, <1>2, SuitsIsData DEF CallSound
    <3>3. [op |-> "put", key |-> at, val |-> v] \in [op : {"put"}, key : Places, val : Val]
      BY <1>7, <3>2
    <3> QED BY <1>4, <1>7, <3>3 DEF Promised
  <2>2. Waiting(p) # NoReq /\ Waiting(p).op = "put" /\ Waiting(p).key = at /\ Waiting(p).val = v
    BY <2>1, StoreAssumption
  <2>4. Answered(p)' = [res |-> ans'[p].res]
    BY <1>2, <2>2, WaitsAt DEF AnsweredAt
  <2>5. OneStore!Answers(p, [res |-> ans'[p].res])
    BY <1>2, <2>4, Decides
  <2>6. Shown' = [Shown EXCEPT ![at] = v]
    BY <1>5, <1>7
  <2>7. OneStore!Put(p) \/ OneStore!Lost(p)
    <3>1. CASE ans'[p].res = "ok"
      BY <1>2, <2>2, <2>5, <2>6, <3>1 DEF OneStore!Put, OneStore!Pending, Shown
    <3>2. CASE ans'[p].res = "error" /\ at[1] \in BatchDeleters
      BY <1>2, <1>7, <2>2, <2>5, <2>6, <3>2 DEF OneStore!Lost, OneStore!Pending, Shown
    <3> QED BY <1>1, <3>1, <3>2
  <2> QED BY <2>7 DEF Effect, OneStore!Next
<1> QED BY <1>6, <1>7

LEMMA DeleteEffect ==
    ASSUME Domains, StoreShape, EverythingDecodes, NEW p \in Proc, Sound(p), Others(p),
           Delete(p) \/ (Lost(p) /\ cur[p].op = "delete")
    PROVE  Effect(p)
<1> DEFINE c == cur[p]
           at == <<c.fs, c.key>>
           data == store[c.fs][c.key]
<1>1. /\ c.op = "delete" /\ c.fs \in Base /\ c.key \in Sub /\ Set(c.fs, c.key, NoFile)
      /\ \/ ans'[p].res = "ok"
         \/ ans'[p].res = "notfound" /\ data = NoFile
         \/ ans'[p].res = "error" /\ c.fs \in BatchDeleters
  BY InterfaceAssumption DEF Delete, Lost, Calling, Answer, Held, Domains
<1>2. /\ pc[p] = "call" /\ pc'[p] = "return" /\ CallSound(c)
      /\ Waiting(p) = WaitAt("call", c) /\ Waiting(p)' = Waiting(p) /\ Answered(p) = NoAns
  BY AtItsBase DEF BaseReturns
<1>3. Place(c.fs, c.key) = at
  BY <1>1, <1>2, PlaceAtBase DEF CallSound
<1>4. Waiting(p) = IF at \in Places THEN [op |-> "delete", key |-> at] ELSE NoReq
  BY <1>1, <1>2, <1>3, WaitCases
<1>5. Shown' = IF at \in Places THEN [Shown EXCEPT ![at] = NoFile] ELSE Shown
  <2> HIDE DEF c
  <2> QED BY <1>1, ShownSet
<1>6. CASE at \notin Places
  <2>1. Answered(p)' = NoAns
    BY <1>2, <1>4, <1>6, AnswerIs
  <2> QED BY <1>2, <1>5, <1>6, <2>1, Stutters DEF Same
<1>7. CASE at \in Places
  <2>1. Waiting(p) = [op |-> "delete", key |-> at] /\ Waiting(p) \in Promised
    <3>1. [op |-> "delete", key |-> at] \in [op : {"get", "delete"}, key : Places]
      BY <1>7
    <3> QED BY <1>4, <1>7, <3>1 DEF Promised
  <2>2. Waiting(p) # NoReq /\ Waiting(p).op = "delete" /\ Waiting(p).key = at
    BY <2>1, StoreAssumption
  <2>3. data = NoFile => Shown[at] = NoFile
    <3>1. Shown[at] = Contents(c.fs, c.key)
      BY <1>7 DEF Shown
    <3> QED BY <1>1, <3>1, ContentsAre
  <2>4. Answered(p)' = [res |-> ans'[p].res]
    BY <1>2, <2>2, WaitsAt DEF AnsweredAt
  <2>5. OneStore!Answers(p, [res |-> ans'[p].res])
    BY <1>2, <2>4, Decides
  <2>6. Shown' = [Shown EXCEPT ![at] = NoFile]
    BY <1>5, <1>7
  <2>7. OneStore!Delete(p) \/ OneStore!Lost(p)
    <3>1. CASE ans'[p].res = "ok"
      <4>1. OneStore!Answers(p, [res |-> "ok"])
        BY <2>5, <3>1
      <4> QED BY <1>2, <2>2, <2>6, <4>1 DEF OneStore!Delete, OneStore!Pending, Shown
    <3>2. CASE ans'[p].res = "notfound" /\ data = NoFile
      <4>1. OneStore!Answers(p, [res |-> "notfound"]) /\ Shown[at] = NoFile
        BY <2>3, <2>5, <3>2
      <4> QED BY <1>2, <2>2, <2>6, <4>1 DEF OneStore!Delete, OneStore!Pending, Shown
    <3>3. CASE ans'[p].res = "error" /\ at[1] \in BatchDeleters
      <4>1. OneStore!Answers(p, [res |-> "error"])
        BY <2>5, <3>3
      <4> QED BY <1>2, <1>7, <2>2, <2>6, <3>3, <4>1 DEF OneStore!Lost, OneStore!Pending, Shown
    <3> QED BY <1>1, <3>1, <3>2, <3>3
  <2> QED BY <2>7 DEF Effect, OneStore!Next
<1> QED BY <1>6, <1>7

LEMMA CopyEffect ==
    ASSUME Domains, StoreShape, EverythingDecodes, NEW p \in Proc, Sound(p), Others(p),
           CopyObject(p) \/ (Lost(p) /\ cur[p].op = "copy")
    PROVE  Effect(p)
<1> DEFINE c == cur[p]
           at == <<c.fs, c.key>>
           to == <<c.fs, c.dst>>
           data == store[c.fs][c.key]
<1>1. /\ c.op = "copy" /\ c.fs \in Base /\ c.key \in Sub /\ c.dst \in Sub
      /\ c.fs \in BatchDeleters
      /\ IF data = NoFile THEN ans'[p].res = "notfound" /\ Shown' = Shown
                          ELSE ans'[p].res \in {"ok", "error"} /\ Set(c.fs, c.dst, data)
  BY ShownSame, InterfaceAssumption DEF CopyObject, Lost, Calling, Answer, Held, Domains
<1>2. /\ pc[p] = "call" /\ pc'[p] = "return" /\ CallSound(c)
      /\ Waiting(p) = WaitAt("call", c) /\ Waiting(p)' = Waiting(p) /\ Answered(p) = NoAns
  BY AtItsBase DEF BaseReturns
<1>3. /\ at \in Places <=> to \in Places
      /\ at \in Places <=> c.fs \notin Batched
  BY <1>1, PlacesAre
<1>4. Waiting(p) = IF at \in Places THEN [op |-> "copy", key |-> at, dst |-> to] ELSE NoReq
  <2>1. Waiting(p) = IF {at, to} \subseteq Places THEN [op |-> "copy", key |-> at, dst |-> to] ELSE NoReq
    BY <1>1, <1>2, WaitCases
  <2> QED BY <1>3, <2>1
<1>5. data # NoFile => Shown' = IF to \in Places THEN [Shown EXCEPT ![to] = Head(data)] ELSE Shown
  <2> SUFFICES ASSUME data # NoFile
               PROVE  Shown' = IF to \in Places THEN [Shown EXCEPT ![to] = Head(data)] ELSE Shown
    OBVIOUS
  <2>1. Set(c.fs, c.dst, data) /\ Coded(c.fs, 0, c.key, data) /\ Plain(c.fs)
    BY <1>1, <1>2, ContentsAre DEF CallSound
  <2>2. data # NoFile
    OBVIOUS
  <2> HIDE DEF c, data
  <2>3. Coded(c.fs, 0, c.dst, data)
    <3>1. data \in Payload
      BY <1>1, <2>1, BaseSuits, PlainSuits
    <3>2. Suits(c.fs, c.dst, data)
      BY <2>1, <3>1, PlainSuits
    <3> QED BY <1>1, <3>2, BaseSuits
  <2> QED BY <1>1, <2>1, <2>2, <2>3, ShownSet
<1>6. CASE at \notin Places
  <2>1. Answered(p)' = NoAns
    BY <1>2, <1>4, <1>6, AnswerIs
  <2>2. Shown' = Shown
    BY <1>1, <1>3, <1>5, <1>6
  <2> QED BY <1>2, <2>1, <2>2, Stutters DEF Same
<1>7. CASE at \in Places
  <2>1. Waiting(p) = [op |-> "copy", key |-> at, dst |-> to] /\ Waiting(p) # NoReq
    <3>1. Waiting(p) = [op |-> "copy", key |-> at, dst |-> to]
      BY <1>4, <1>7
    <3>2. [op |-> "copy", key |-> at, dst |-> to] \in Promised
      <4>1. c.fs \in BatchDeleters \ Batched
        BY <1>1, <1>3, <1>7
      <4>2. [op |-> "copy", key |-> at, dst |-> to]
              \in [op : {"copy"}, key : {c.fs} \X Sub, dst : {c.fs} \X Sub]
        BY <1>1
      <4> QED BY <4>1, <4>2 DEF Promised
    <3> QED BY <3>1, <3>2, StoreAssumption
  <2>2. Waiting(p) # NoReq /\ Waiting(p).op = "copy" /\ Waiting(p).key = at /\ Waiting(p).dst = to
    BY <2>1
  <2>3. Shown[at] = Contents(c.fs, c.key)
    BY <1>7 DEF Shown
  <2>4. Answered(p)' = [res |-> ans'[p].res]
    BY <1>2, <2>2, WaitsAt DEF AnsweredAt
  <2>5. OneStore!Answers(p, [res |-> ans'[p].res])
    BY <1>2, <2>4, Decides
  <2>6. CASE data = NoFile
    <3>1. Shown[at] = NoFile
      BY <1>1, <2>3, <2>6, ContentsAre
    <3>2. OneStore!Answers(p, [res |-> "notfound"]) /\ Shown' = Shown
      BY <1>1, <2>5, <2>6
    <3>3. OneStore!Copy(p)
      BY <1>2, <2>2, <3>1, <3>2 DEF OneStore!Copy, OneStore!Pending, Shown
    <3> QED BY <3>3 DEF Effect, OneStore!Next
  <2>7. CASE data # NoFile
    <3>1. Shown[at] = Head(data) /\ Shown[at] # NoFile
      BY <1>1, <2>3, <2>7, ContentsAre, CodedIsData
    <3>2. Shown' = [Shown EXCEPT ![to] = Shown[at]]
      BY <1>1, <1>3, <1>5, <1>7, <2>7, <3>1
    <3>3. CASE ans'[p].res = "ok"
      <4>1. OneStore!Answers(p, [res |-> "ok"])
        BY <2>5, <3>3
      <4>2. OneStore!Copy(p)
        BY <1>2, <2>2, <3>1, <3>2, <4>1 DEF OneStore!Copy, OneStore!Pending, Shown
      <4> QED BY <4>2 DEF Effect, OneStore!Next
    <3>4. CASE ans'[p].res = "error"
      <4>1. OneStore!Answers(p, [res |-> "error"])
        BY <2>5, <3>4
      <4>2. to \in {x \in Places : x[1] \in BatchDeleters}
        BY <1>1, <1>3, <1>7
      <4>3. OneStore!Lost(p)
        BY <1>2, <2>2, <3>1, <3>2, <4>1, <4>2 DEF OneStore!Lost, OneStore!Pending, Shown
      <4> QED BY <4>3 DEF Effect, OneStore!Next
    <3> QED BY <1>1, <2>7, <3>3, <3>4
  <2> QED BY <2>6, <2>7
<1> QED BY <1>6, <1>7

(* A batch takes away what the store does not show.                        *)
LEMMA BatchEffect ==
    ASSUME Domains, StoreShape, NEW p \in Proc, Sound(p), Straight(p), Others(p),
           DeleteObjects(p) \/ (Lost(p) /\ cur[p].op = "batch")
    PROVE  Effect(p)
<1> DEFINE b == cur[p].fs
           left(out) == [k \in Sub |-> IF k \in out THEN NoFile ELSE store[b][k]]
<1>1. /\ cur[p].op = "batch" /\ b \in Base
      /\ \E out : store' = [store EXCEPT ![b] = left(out)]
  BY InterfaceAssumption DEF DeleteObjects, Lost, Calling
<1>2. /\ pc[p] = "call" /\ Waiting(p) = WaitAt("call", cur[p]) /\ Waiting(p)' = Waiting(p)
      /\ Answered(p) = NoAns
  BY AtItsBase DEF BaseReturns
<1>3. b \in BatchDeleters \cap Batched
  BY <1>1, <1>2 DEF Straight, StraightAt, Allowed
<1>4. Waiting(p) = NoReq
  BY <1>1, <1>2, WaitCases
<1>5. Answered(p)' = NoAns
  BY <1>2, <1>4, AnswerIs
<1>6. PICK out : store' = [store EXCEPT ![b] = left(out)]
  BY <1>1
<1> HIDE DEF b, left
<1>7. \A at \in Places : Contents(at[1], at[2])' = Contents(at[1], at[2])
  <2> SUFFICES ASSUME NEW at \in Places
               PROVE  Contents(at[1], at[2])' = Contents(at[1], at[2])
    OBVIOUS
  <2>1. PICK c \in Base, k \in Sub : at = <<c, k>>
    BY PlacesAre
  <2>2. at[1] = c /\ c # b
    BY <1>3, <2>1, PlacesAre
  <2>3. store'[c] = store[c]
    BY <1>6, <2>1, <2>2 DEF StoreShape
  <2> QED BY <2>2, <2>3 DEF Contents
<1>8. Shown' = Shown
  BY <1>7 DEF Shown
<1> QED BY <1>2, <1>5, <1>8, Stutters DEF Same

(* The Copy of a LocalFS fills files that the store does not show.         *)
LEMMA FillingShows ==
    ASSUME Domains, StoreShape, EverythingDecodes, NEW p \in Proc, CallSound(cur[p]),
           Allowed(cur[p]), CopyCreates(p) \/ CopyFills(p)
    PROVE  Shown' = Shown
<1> DEFINE c == cur[p]
<1>1. /\ c.op \in {"create", "fill"} /\ c.fs \in Local
      /\ UNCHANGED store \/ \E data \in {<<Cut>>, c.data} : Set(c.fs, c.dst, data)
  BY DEF CopyCreates, CopyFills, Calling
<1>2. c.fs \in Base /\ Plain(c.fs) /\ c.dst \in Sub /\ c.data \in Payload
  BY <1>1 DEF CallSound
<1>3. CASE UNCHANGED store
  BY <1>3, ShownSame
<1>4. ASSUME NEW data \in {<<Cut>>, c.data}, Set(c.fs, c.dst, data)
      PROVE  Shown' = Shown
  <2>1. data \in Payload
    BY <1>2, CutAssumption DEF Payload
  <2>2. MayCopy(c.fs, c.dst)
    BY <1>1 DEF Allowed
  <2> HIDE DEF c
  <2>3. Suits(c.fs, c.dst, data)
    BY <1>2, <2>1, PlainSuits
  <2>4. Coded(c.fs, 0, c.dst, data) /\ data # NoFile
    BY <1>2, <2>3, BaseSuits, CodedIsData
  <2>5. <<c.fs, c.dst>> \notin Places
    BY <1>1, <1>2, <2>2, PlacesAre
  <2> QED BY <1>2, <1>4, <2>4, <2>5, ShownSet
<1> QED BY <1>1, <1>3, <1>4

(* It is no call of the store.                                             *)
LEMMA LocalCopyWaits ==
    ASSUME NEW w, NEW c, c.fs \in Local, c.op \in {"copy", "create", "fill"}
    PROVE  WaitAt(w, c) = NoReq
<1>1. c.fs \notin BatchDeleters
  BY DEF Local
<1> QED BY <1>1 DEF WaitAt

LEMMA LocalCopyEffect ==
    ASSUME Domains, StoreShape, EverythingDecodes, NEW p \in Proc, Sound(p), Straight(p),
           Sound(p)', Others(p), CopyOpens(p) \/ CopyCreates(p) \/ CopyFills(p)
    PROVE  Effect(p)
<1> DEFINE c == cur[p]
<1>1. /\ pc[p] = "call" /\ c.fs \in Local /\ c.op \in {"copy", "create", "fill"}
  BY DEF CopyOpens, CopyCreates, CopyFills, Calling, At
<1>2. Waiting(p) = NoReq
  BY <1>1, LocalCopyWaits, WaitsAt
<1>3. CallSound(c) /\ Allowed(c)
  BY <1>1 DEF Sound, SoundAt, Straight, StraightAt
<1>4. Shown' = Shown
  <2>1. CASE CopyOpens(p)
    BY <2>1, ShownSame DEF CopyOpens
  <2> QED BY <1>3, <2>1, FillingShows
<1>5. CASE pc'[p] = "return" /\ cur' = cur
  <2>1. Waiting(p)' = NoReq
    BY <1>1, <1>5, LocalCopyWaits, WaitsAt
  <2> QED BY <1>2, <1>4, <2>1, Comes
<1>6. CASE pc'[p] = "call"
  <2>1. CallSound(cur'[p])
    BY <1>6 DEF Sound, SoundAt
  <2>2. Waiting(p)' \in Promised \cup {NoReq}
    BY <1>6, <2>1, WaitsAt, WaitType
  <2> QED BY <1>2, <1>4, <1>6, <2>2, Comes
<1>7. CASE CopyFills(p)
  BY <1>5, <1>7, BaseReturning DEF BaseReturns, Domains, LockTypeOK
<1>8. CASE CopyOpens(p) \/ CopyCreates(p)
  BY <1>1, <1>5, <1>6, <1>8, CopyBeginning DEF Domains, LockTypeOK
<1> QED BY <1>7, <1>8

----------------------------------------------------------------------------
(* The steps on the way, which the store does not see, and the steps that  *)
(* begin or end a wait.                                                    *)

LEMMA WrapPutHead ==
    ASSUME NEW h \in Hook, NEW k \in Key, NEW T, Hook \X Key \subseteq T,
           NEW data \in Seq(T), data # <<>>
    PROVE  Head(WrapPut(h, k, data)) = Head(data)
<1>1. CASE h \notin Coders
  BY <1>1 DEF WrapPut
<1>2. CASE h \in Coders
  <2> DEFINE x == <<h, k>>
  <2>1. x \in T /\ WrapPut(h, k, data) = Append(data, x)
    BY <1>2 DEF WrapPut
  <2> HIDE DEF x
  <2>2. Len(data) \in Nat /\ Len(data) # 0
    BY LenProperties, EmptySeq
  <2>3. /\ Append(data, x) \in Seq(T) /\ Append(data, x) # <<>>
        /\ \A i \in 1..Len(data) : Append(data, x)[i] = data[i]
    BY <2>1, AppendProperties
  <2>4. Append(data, x)[1] = data[1]
    BY <2>2, <2>3
  <2> QED BY <2>1, <2>3, <2>4, HeadTailProperties
<1> QED BY <1>1, <1>2

LEMMA ForwardEffect ==
    ASSUME Domains, NEW p \in Proc, Sound(p), Others(p), Forward(p)
    PROVE  Effect(p)
<1> DEFINE c == cur[p]
           inner == [c EXCEPT !.fs = Inner(c.fs)]
           d == IF c.op = "put" THEN [inner EXCEPT !.data = WrapPut(c.fs, c.key, @)] ELSE inner
<1>1. /\ CallSound(c) /\ c.fs \in Hook /\ c.op \in {"get", "put", "delete", "copy", "batch"}
      /\ pc[p] = "call" /\ pc'[p] = "call" /\ cur'[p] = d /\ Shown' = Shown
  BY ShownSame DEF Sound, Forward, Become, At, SoundAt, Domains, LockTypeOK
<1>2. /\ c.op \in {"get", "put", "delete"} /\ {"op", "fs", "key"} \subseteq DOMAIN c
      /\ c.key \in Key
      /\ c.op = "put" => "data" \in DOMAIN c /\ Suits(c.fs, c.key, c.data)
  BY <1>1 DEF CallSound
<1>3. /\ inner.op = c.op /\ inner.fs = Inner(c.fs) /\ inner.key = c.key
      /\ DOMAIN inner = DOMAIN c
      /\ c.op = "put" => inner.data = c.data
  BY <1>2
<1> HIDE DEF inner
<1>4. /\ d.op = c.op /\ d.fs = Inner(c.fs) /\ d.key = c.key
      /\ c.op = "put" => d.data = WrapPut(c.fs, c.key, c.data)
  BY <1>2, <1>3
<1>5. c.op = "put" => Head(d.data) = Head(c.data)
  <2> SUFFICES ASSUME c.op = "put" PROVE Head(d.data) = Head(c.data)
    OBVIOUS
  <2>1. /\ c.data \in Seq(Val \cup (Hook \X Key)) /\ c.data # <<>>
        /\ c.fs \in Hook /\ c.key \in Key
    BY <1>1, <1>2, SuitsIsData
  <2>2. d.data = WrapPut(c.fs, c.key, c.data)
    BY <1>4
  <2> HIDE DEF c, d
  <2>3. Hook \X Key \subseteq Val \cup (Hook \X Key)
    OBVIOUS
  <2> QED BY <2>1, <2>2, <2>3, WrapPutHead
<1> HIDE DEF c, d
<1>6. Place(d.fs, d.key) = Place(c.fs, c.key)
  BY <1>1, <1>2, <1>4, PlaceAtHook
<1>7. WaitAt("call", d) = WaitAt("call", c)
  BY ZenonT(60), <1>2, <1>4, <1>5, <1>6, WaitCases
<1>8. Waiting(p)' = Waiting(p)
  BY <1>1, <1>7, WaitsAt DEF c
<1>9. Answered(p)' = Answered(p)
  BY <1>1, AnswerIs
<1> QED BY <1>1, <1>8, <1>9, Stutters DEF Same

LEMMA LookupEffect ==
    ASSUME Domains, Steady, NEW p \in Proc, Runs(p), Asks(p), Sound(p), Sound(p)', Others(p),
           Lookup(p)
    PROVE  Effect(p)
<1> DEFINE c == cur[p]
           f == mounts[c.fs][Head(c.key)]
           sub == Tail(c.key)
<1>1. /\ SoundAt("rlock", c, stack[p], ans[p]) /\ PassOn(p, f)
      /\ c.op \in Routed /\ pc[p] = "rlock" /\ Shown' = Shown
  BY ShownSame DEF Sound, Lookup, At, Asks
<1>2. CallSound(c) /\ c.fs \in Table /\ c.key # <<>>
  BY <1>1 DEF SoundAt
<1>3. c.key \in Key
  BY <1>1, <1>2 DEF CallSound, Routed
<1>4. Waiting(p) = WaitAt("rlock", c)
  BY <1>1, WaitsAt
<1>5. Waiting(p) # NoReq => /\ c.op \in {"get", "put", "delete"} /\ Place(c.fs, c.key) \in Places
                            /\ f # NoFS /\ Place(f, sub) = Place(c.fs, c.key)
  <2> SUFFICES ASSUME Waiting(p) # NoReq
               PROVE  /\ c.op \in {"get", "put", "delete"} /\ Place(c.fs, c.key) \in Places
                      /\ f # NoFS /\ Place(f, sub) = Place(c.fs, c.key)
    OBVIOUS
  <2>1. c.op # "copy"
    <3>1. c.fs \notin BatchDeleters
      BY <1>2, CompositionAssumption, InterfaceAssumption
    <3> QED BY <1>4, <3>1, WaitCases
  <2>2. c.op \in {"get", "put", "delete"} /\ Place(c.fs, c.key) \in Places
    BY <1>1, <1>4, <2>1, WaitCases DEF Routed
  <2> HIDE DEF c
  <2> QED BY <1>2, <1>3, <2>2, PlaceAtTable
<1> HIDE DEF f, sub
<1>6. CASE Waiting(p) = NoReq
  <2>1. CASE f = NoFS
    <3>1. pc'[p] = "return" /\ cur'[p] = c
      BY <1>1, <2>1 DEF PassOn, Answer, Goto, Domains, LockTypeOK
    <3>2. Waiting(p)' = Waiting(p)
      BY <1>4, <3>1, WaitsAt, WaitMoves
    <3> QED BY <1>1, <1>6, <3>2, Comes
  <2>2. CASE f # NoFS
    <3>1. pc'[p] = "call"
      BY <1>1, <2>2 DEF PassOn, AskForDst, CopyFound, CopyTo, Goto, Domains, LockTypeOK
    <3>2. CallSound(cur'[p])
      BY <3>1 DEF Sound, SoundAt
    <3>3. Waiting(p)' \in Promised \cup {NoReq}
      BY <3>1, <3>2, WaitsAt, WaitType
    <3> QED BY <1>1, <1>6, <3>1, <3>3, Comes
  <2> QED BY <2>1, <2>2
<1>7. CASE Waiting(p) # NoReq
  <2> DEFINE d == [c EXCEPT !.fs = f, !.key = sub]
  <2>1. cur'[p] = d /\ pc'[p] = "call"
    BY <1>1, <1>5, <1>7 DEF PassOn, Become, Goto, Domains, LockTypeOK, sub
  <2>2. /\ {"op", "fs", "key"} \subseteq DOMAIN c
        /\ c.op = "put" => "data" \in DOMAIN c
    BY <1>2, <1>5, <1>7 DEF CallSound
  <2>3. /\ d.op = c.op /\ d.fs = f /\ d.key = sub
        /\ c.op = "put" => d.data = c.data
    BY <2>2
  <2> HIDE DEF c, d
  <2>4. WaitAt("call", d) = WaitAt("call", c)
    BY <1>5, <1>7, <2>3, WaitCases
  <2>5. Waiting(p)' = Waiting(p)
    BY <1>4, <2>1, <2>4, WaitsAt, WaitMoves
  <2>6. Answered(p)' = Answered(p)
    BY <1>1, <2>1, AnswerIs
  <2> QED BY <1>1, <2>5, <2>6, Stutters DEF Same
<1> QED BY <1>6, <1>7

(* Answers on their way back through the hooks and out of the helpers.     *)
LEMMA PopEffect ==
    ASSUME Domains, NEW p \in Proc, Runs(p), AnsShape(p), Others(p), Shown' = Shown,
           pc[p] = "return", stack[p] # <<>>, Pop(p), UNCHANGED <<pc, cur>>,
           ans'[p].res = ans[p].res,
           ans[p].res = "ok" => ans'[p].data = Unwrap(Top(p), ans[p].data)
    PROVE  Effect(p)
<1> DEFINE s == stack[p]
           t == SubSeq(s, 1, Len(s) - 1)
<1>1. stack'[p] = t /\ Stacked(s) /\ s # <<>>
  BY DEF Pop, Domains, Runs
<1>2. Waiting(p)' = Waiting(p)
  BY WaitsAt
<1>3. ans[p].res = "ok" => Unwrapped(t, ans'[p].data) = Unwrapped(s, ans[p].data)
  BY <1>1, UnwrappedPop DEF Top
<1> HIDE DEF s, t
<1>4. Answered(p)' = Answered(p)
  <2>1. /\ Answered(p) = AnsweredAt("return", Waiting(p), s, ans[p])
        /\ Answered(p)' = AnsweredAt("return", Waiting(p), t, ans'[p])
    BY <1>1, <1>2, WaitsAt DEF s
  <2>2. AnsweredAt("return", Waiting(p), t, ans'[p]) = AnsweredAt("return", Waiting(p), s, ans[p])
    BY <1>3 DEF AnsweredAt
  <2> QED BY <2>1, <2>2
<1> QED BY <1>2, <1>4, Stutters DEF Same

LEMMA ReturnEffects ==
    ASSUME Domains, NEW p \in Proc, Runs(p), AnsShape(p), Others(p),
           HookReturns(p) \/ PutCopy(p) \/ LoopOn(p) \/ Finish(p)
    PROVE  Effect(p)
<1>1. pc[p] = "return" /\ Shown' = Shown
  BY ShownSame DEF HookReturns, PutCopy, LoopOn, Finish, Return, Over, At
<1>2. CASE HookReturns(p)
  <2>1. stack[p] # <<>> /\ Pop(p) /\ UNCHANGED <<pc, cur>> /\ Top(p).at = "hook"
    BY <1>2 DEF HookReturns
  <2>2. ans'[p].res = ans[p].res
    BY <1>2 DEF HookReturns, Domains, AnsShape
  <2>3. ans[p].res = "ok" => ans'[p].data = Unwrap(Top(p), ans[p].data)
    <3> DEFINE c == Top(p).call
    <3>1. CASE c.op = "get" /\ ans[p].res = "ok"
      <4>1. ans' = [ans EXCEPT ![p].data = WrapGet(c.fs, c.key, @)]
        BY <1>2, <3>1 DEF HookReturns
      <4>2. ans'[p].data = WrapGet(c.fs, c.key, ans[p].data)
        BY <4>1 DEF Domains, AnsShape
      <4> QED BY <2>1, <3>1, <4>2 DEF Unwrap
    <3>2. CASE ~(c.op = "get" /\ ans[p].res = "ok")
      <4>1. ans' = ans
        BY <1>2, <3>2 DEF HookReturns
      <4> QED BY <3>2, <4>1 DEF Unwrap
    <3> QED BY <3>1, <3>2
  <2> QED BY <1>1, <2>1, <2>2, <2>3, PopEffect
<1>3. CASE pc'[p] \in {"next", "idle"}
  <2>1. \A w, c : w \notin {"call", "rlock", "return"} => WaitAt(w, c) = NoReq
    BY DEF WaitAt
  <2>2. Waiting(p)' = NoReq
    BY <1>3, <2>1, WaitsAt
  <2> QED BY <1>1, <2>2, Leaves
<1>4. CASE /\ PutCopy(p) \/ LoopOn(p)
           /\ Pop(p) /\ UNCHANGED <<pc, cur, ans>>
  <2>1. stack[p] # <<>> /\ Top(p).at # "hook"
    BY <1>4 DEF PutCopy, LoopOn
  <2>2. Unwrap(Top(p), ans[p].data) = ans[p].data
    BY <2>1 DEF Unwrap
  <2> QED BY <1>1, <1>4, <2>1, <2>2, PopEffect
<1>5. CASE PutCopy(p)
  BY <1>3, <1>4, <1>5 DEF PutCopy, Goto, Domains, LockTypeOK
<1>6. CASE LoopOn(p)
  BY <1>3, <1>4, <1>6 DEF LoopOn, Goto, Domains, LockTypeOK
<1>7. CASE Finish(p)
  BY <1>3, <1>7 DEF Finish, Return, Goto, Domains, LockTypeOK
<1> QED BY <1>2, <1>5, <1>6, <1>7

(* The rest come to a place, or wait where they are.                       *)
LEMMA OtherEffects ==
    ASSUME Domains, NEW p \in Proc, Stands(p), Sound(p)', Others(p),
           \/ Call(p) \/ Begin(p) \/ Cancelled(p) \/ Resolve(p) \/ LockTable(p)
           \/ Mount(p) \/ Unmount(p) \/ Copy(p) \/ BatchDelete(p) \/ Unpack(p)
    PROVE  Effect(p)
<1> USE DEF At, Goto, Domains, LockTypeOK
<1>1. Shown' = Shown
  BY ShownSame DEF Call, Submit, Begin, Cancelled, Resolve, LockTable, Mount, Unmount, Copy,
                   BatchDelete, Unpack
<1>2. CASE Resolve(p)
  <2>1. pc[p] = "call" /\ pc'[p] = "rlock" /\ cur'[p] = cur[p]
    BY <1>2 DEF Resolve, Calling
  <2>2. WaitAt("rlock", cur[p]) = WaitAt("call", cur[p])
    BY WaitMoves
  <2>3. Waiting(p)' = Waiting(p)
    BY <2>1, <2>2, WaitsAt
  <2>4. Answered(p)' = Answered(p)
    BY <2>1, AnswerIs
  <2> QED BY <1>1, <2>3, <2>4, Stutters DEF Same
<1>3. Waiting(p) = NoReq \/ Resolve(p)
  <2>1. CASE pc[p] \notin {"call", "rlock", "return"}
    BY <2>1, WaitsAt DEF WaitAt
  <2>2. CASE cur[p].op \notin {"get", "put", "delete", "copy"}
    <3>1. WaitAt(pc[p], cur[p]) = NoReq
      BY <2>2 DEF WaitAt
    <3> QED BY <3>1, WaitsAt
  <2>3. \/ Resolve(p) \/ pc[p] \notin {"call", "rlock", "return"}
        \/ cur[p].op \notin {"get", "put", "delete", "copy"}
    BY DEF Call, Submit, Begin, Cancelled, LockTable, Mount, Unmount, Copy, BatchDelete, Unpack,
           Calling
  <2> QED BY <2>1, <2>2, <2>3
<1>4. CASE pc'[p] \in {"next", "call"} /\ Waiting(p) = NoReq
  <2>1. CallSound(cur'[p])
    BY <1>4 DEF Sound, SoundAt
  <2>2. Waiting(p)' \in Promised \cup {NoReq}
    BY <1>4, <2>1, WaitsAt, WaitType
  <2> QED BY <1>1, <1>4, <2>2, Comes
<1>5. CASE pc'[p] = "lock" /\ Waiting(p) = NoReq
  <2>1. Waiting(p)' = NoReq
    BY <1>5, WaitsAt DEF WaitAt
  <2> QED BY <1>1, <1>5, <2>1, Comes
<1>6. CASE /\ pc'[p] = "return" /\ Waiting(p) = NoReq
           /\ cur'[p].op \notin {"get", "put", "delete", "copy"}
  <2>1. WaitAt(pc'[p], cur'[p]) = NoReq
    BY <1>6 DEF WaitAt
  <2>2. Waiting(p)' = NoReq
    BY <2>1, WaitsAt
  <2> QED BY <1>1, <1>6, <2>2, Comes
<1>7. CASE Call(p) \/ Begin(p) \/ LockTable(p) \/ Copy(p)
  <2>1. pc'[p] \in {"next", "call", "lock"} \/ Resolve(p)
    BY <1>7 DEF Call, Submit, Begin, LockTable, Copy, CopyTo
  <2> QED BY <1>2, <1>3, <1>4, <1>5, <2>1
<1>8. CASE Cancelled(p) \/ Mount(p) \/ Unmount(p)
  <2>1. pc'[p] = "return" /\ cur'[p].op \notin {"get", "put", "delete", "copy"}
    BY <1>8, CompositionAssumption DEF Cancelled, Mount, Unmount, Answer
  <2> QED BY <1>2, <1>3, <1>6, <2>1
<1>9. CASE BatchDelete(p) \/ Unpack(p)
  <2>1. \/ pc'[p] \in {"next", "call"}
        \/ pc'[p] = "return" /\ cur'[p] = cur[p] /\ cur[p].op \in {"batchdelete", "unpack"}
    BY Zenon, <1>9 DEF BatchDelete, Unpack, Loop, Answer, Become
  <2> QED BY SMTT(60), <1>2, <1>3, <1>4, <1>6, <2>1
<1> QED BY <1>2, <1>7, <1>8, <1>9

(* Every step of a client is one of the store, or one it does not see.     *)
LEMMA StepEffect ==
    ASSUME ThroughHooks, UnmountInv, Steady, DataInv, AllStraight, DataInv',
           NEW p \in Proc, Call(p) \/ Proceed(p) \/ Finish(p)
    PROVE  Effect(p)
<1>1. /\ Domains /\ Runs(p) /\ Asks(p) /\ Stands(p)
      /\ StoreShape /\ EverythingDecodes /\ Sound(p) /\ AnsShape(p) /\ Straight(p) /\ Sound(p)'
  BY DEF UnmountInv, DataInv, AllStraight
<1>2. Others(p)
  BY <1>1, StepKeeps, OthersWait
<1>3. CASE \/ Get(p) \/ Put(p) \/ Delete(p) \/ CopyObject(p) \/ DeleteObjects(p)
           \/ Fail(p) \/ Lost(p) \/ Refuse(p)
  <2>1. Lost(p) => cur[p].op \in {"put", "delete", "copy", "batch"}
    BY DEF Lost, Calling
  <2> QED BY <1>1, <1>2, <1>3, <2>1, GetEffect, PutEffect, DeleteEffect, CopyEffect, BatchEffect,
             FailEffect
<1>7. CASE CopyOpens(p) \/ CopyCreates(p) \/ CopyFills(p)
  BY <1>1, <1>2, <1>7, LocalCopyEffect
<1>4. CASE Forward(p) \/ Lookup(p)
  BY <1>1, <1>2, <1>4, ForwardEffect, LookupEffect
<1>5. CASE HookReturns(p) \/ PutCopy(p) \/ LoopOn(p) \/ Finish(p)
  BY <1>1, <1>2, <1>5, ReturnEffects
<1>6. CASE \/ Call(p) \/ Begin(p) \/ Cancelled(p) \/ Resolve(p) \/ LockTable(p)
           \/ Mount(p) \/ Unmount(p) \/ Copy(p) \/ BatchDelete(p) \/ Unpack(p)
  BY <1>1, <1>2, <1>6, OtherEffects
<1> QED BY <1>3, <1>4, <1>5, <1>6, <1>7 DEF Proceed, CallStep, HookStep, MountStep

LEMMA InitStore == ASSUME Init PROVE OneStore!Init /\ AllStraight
<1>1. ASSUME NEW p \in Proc PROVE Waiting(p) = NoReq /\ Answered(p) = NoAns /\ Straight(p)
  <2>1. pc[p] = "idle"
    BY DEF Init, CallsInit
  <2>2. Waiting(p) = NoReq
    BY <2>1, WaitsAt DEF WaitAt
  <2> QED BY <2>1, <2>2, AnswerIs DEF Straight, StraightAt
<1>2. ASSUME NEW at \in Places PROVE Contents(at[1], at[2]) = NoFile
  <2>1. at[1] \in Base /\ at[2] \in Sub
    BY PlacesAre
  <2> QED BY <2>1 DEF Init, CallsInit, Contents
<1>3. MountsKnown
  <2>1. mounts = Mounted
    BY DEF Init, MountInit
  <2>2. ASSUME NEW t \in Table, NEW n \in Name PROVE Mounted[t][n] \in MayMount
    <3>1. <<t, n>> \in Entry /\ <<t, n>>[1] = t /\ <<t, n>>[2] = n
      BY DEF Entry
    <3> QED BY <3>1 DEF MayMount
  <2> QED BY <2>1, <2>2 DEF MountsKnown
<1> QED BY <1>1, <1>2, <1>3 DEF OneStore!Init, AllStraight

(* Seen by its clients, the composition is one store: with nobody going    *)
(* past the hooks that code, each Get, Put and Delete whose way is certain *)
(* takes effect at one instant between its call and its answer, at the     *)
(* place its key leads to, and so does the Copy of an ObjectFS, which is   *)
(* one request; a Get gives the payload that was put there, out of all its *)
(* hooks.  An error changes nothing in a LocalFS; in an ObjectFS all or    *)
(* nothing of what was asked, since the answer may have been lost.  This   *)
(* holds for the calls that Copy, BatchDelete and Unpack make too, for any *)
(* nesting of hooks and tables and whoever mounts and unmounts meanwhile,  *)
(* at all places but two kinds: the keys that some client's Copy within    *)
(* one LocalFS may fill in place, and the ObjectFS whose own BatchDelete a *)
(* client calls (fs.go:35-69, hook.go:50-79, mount.go:44-67,               *)
(* localfs.go:308-325).                                     *)
THEOREM CompositionIsOneStore == ASSUME ThroughHooks PROVE Spec => ActsAsOneStore
<1>1. Spec => []LockInv
  BY LockInvInductive, PTL DEF Spec
<1>2. LockInv => LockTypeOK
  BY DEF LockInv
<1>3. Spec => []UnmountInv
  BY <1>1, <1>2, InitUnmountInv, NextUnmountInv, PTL DEF Spec
<1>4. Spec => []OrderInv
  BY <1>3, InitOrderInv, NextOrderInv, PTL DEF Spec
<1>5. Init => DataInv
  BY InitDataInv
<1>6. UnmountInv /\ DataInv /\ [Next]_vars => DataInv'
  <2> SUFFICES ASSUME UnmountInv, DataInv, [Next]_vars PROVE DataInv'
    OBVIOUS
  <2>1. CASE UNCHANGED vars
    BY <2>1 DEF DataInv, StoreShape, EverythingDecodes, PlainMounts, Sound, AnsShape,
                vars, mountvars, callvars
  <2>2. CASE Next
    BY <2>2, StepDataInv DEF Next
  <2> QED BY <2>1, <2>2
<1>7. Spec => []DataInv
  BY <1>3, <1>5, <1>6, PTL DEF Spec
<1>8. Init => AllStraight /\ OneStore!Init
  BY InitStore
<1>9. UnmountInv /\ DataInv /\ AllStraight /\ [Next]_vars => AllStraight'
  BY NextStraight
<1>10. Spec => []AllStraight
  BY <1>3, <1>7, <1>8, <1>9, PTL DEF Spec
<1>11. UnmountInv /\ OrderInv /\ DataInv /\ DataInv' /\ AllStraight /\ [Next]_vars
         => [OneStore!Next]_OneStore!vars
  <2> SUFFICES ASSUME UnmountInv, OrderInv, DataInv, DataInv', AllStraight, [Next]_vars
               PROVE  OneStore!Next \/ UNCHANGED OneStore!vars
    OBVIOUS
  <2>1. CASE UNCHANGED vars
    BY <2>1 DEF OneStore!vars, Contents, Waiting, Answered, Unwrapped, vars, mountvars, callvars
  <2>2. CASE Next
    <3>1. PICK p \in Proc : Call(p) \/ Proceed(p) \/ Finish(p)
      BY <2>2 DEF Next
    <3>2. Steady
      BY DEF OrderInv
    <3>3. Effect(p)
      BY <3>1, <3>2, StepEffect
    <3> QED BY <3>3 DEF Effect
  <2> QED BY <2>1, <2>2
<1> QED BY <1>3, <1>4, <1>7, <1>8, <1>10, <1>11, PTL DEF Spec, ActsAsOneStore, OneStore!Spec
=============================================================================
