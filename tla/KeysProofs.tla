----------------------------- MODULE KeysProofs -------------------------------
(***************************************************************************)
(* CleanKey, the routes of a schema and the zip archives that are named by *)
(* clean keys, for raw keys of any length, any alphabet of names, and      *)
(* archives of any size.                                                   *)
(***************************************************************************)
EXTENDS Archive, Schema, TLAPS, SequenceTheorems, FiniteSetTheorems, WellFoundedInduction

----------------------------------------------------------------------------
(* Induction, over natural numbers and over sequences that grow at their   *)
(* end, in a form without operator parameters.                             *)

(* Some relation on the natural numbers orders them and is well-founded.   *)
LEMMA NatOrder ==
    \E R : IsWellFoundedOn(R, Nat) /\ \A x, y \in Nat : x < y => <<x, y>> \in R
<1>1. \A x, y \in Nat : x < y => <<x, y>> \in OpToRel(<, Nat)
  BY DEF OpToRel
<1> QED BY <1>1, NatLessThanWellFounded, Zenon

(* A set of natural numbers that is not empty has a least element.         *)
LEMMA HasLeast ==
    ASSUME NEW T \in SUBSET Nat, T # {}
    PROVE  \E m \in T : \A n \in T : m <= n
<1>1. PICK R : IsWellFoundedOn(R, Nat) /\ \A x, y \in Nat : x < y => <<x, y>> \in R
  BY NatOrder
<1>2. \E m \in T : \A n \in T : ~(<<n, m>> \in R)
  <2>1. T \subseteq Nat
    OBVIOUS
  <2>2. IsWellFoundedOn(R, Nat)
    BY <1>1
  <2> QED BY <2>1, <2>2, WFMin, ZenonT(30)
<1>3. PICK m \in T : \A n \in T : ~(<<n, m>> \in R)
  BY <1>2
<1>4. ASSUME NEW n \in T PROVE m <= n
  <2>1. ~(n < m)
    BY <1>1, <1>3, Zenon
  <2> QED BY <2>1
<1> QED BY <1>4

(* One with an upper bound has a greatest.                                 *)
LEMMA HasGreatest ==
    ASSUME NEW b \in Nat, NEW T \in SUBSET (0..b), T # {}
    PROVE  \E m \in T : \A n \in T : m >= n
<1> DEFINE U == {b - n : n \in T}
<1>1. U \in SUBSET Nat /\ U # {}
  <2>1. \A n \in T : b - n \in Nat
    OBVIOUS
  <2> QED BY <2>1
<1>2. PICK u \in U : \A v \in U : u <= v
  BY <1>1, HasLeast
<1>3. PICK m \in T : u = b - m
  BY <1>2
<1>4. ASSUME NEW n \in T PROVE m >= n
  <2>1. b - n \in U
    OBVIOUS
  <2>2. b - m <= b - n
    BY <1>2, <1>3, <2>1
  <2> QED BY <2>2
<1> QED BY <1>4

LEMMA NatInduct ==
    ASSUME NEW S \in SUBSET Nat, 0 \in S, \A n \in S : n + 1 \in S
    PROVE  S = Nat
<1> SUFFICES ASSUME Nat \ S # {} PROVE FALSE
  OBVIOUS
<1>1. Nat \ S \in SUBSET Nat
  OBVIOUS
<1>2. PICK m \in Nat \ S : \A n \in Nat \ S : m <= n
  BY <1>1, HasLeast
<1>3. m \in Nat /\ m # 0
  BY <1>2
<1>4. m - 1 \in Nat /\ ~(m <= m - 1)
  BY <1>3
<1>5. m - 1 \in S
  BY <1>2, <1>4
<1>6. (m - 1) + 1 \in S
  BY <1>5
<1> QED BY <1>2, <1>3, <1>6

LEMMA SeqInduct ==
    ASSUME NEW A, NEW S \in SUBSET Seq(A), <<>> \in S,
           \A s \in S : \A e \in A : Append(s, e) \in S
    PROVE  S = Seq(A)
<1> DEFINE N == {n \in Nat : \A s \in Seq(A) : Len(s) = n => s \in S}
<1>1. 0 \in N
  BY EmptySeq
<1>2. ASSUME NEW n \in N PROVE n + 1 \in N
  <2> SUFFICES ASSUME NEW s \in Seq(A), Len(s) = n + 1 PROVE s \in S
    OBVIOUS
  <2>1. s # <<>>
    BY EmptySeq
  <2>2. PICK t \in Seq(A), e \in A : s = Append(t, e)
    BY <2>1, SequenceEmptyOrAppend
  <2>3. Len(t) = n
    BY <2>2, AppendProperties, LenProperties
  <2>4. t \in S
    BY <2>3
  <2> QED BY <2>2, <2>4
<1>3. N = Nat
  <2>1. N \in SUBSET Nat
    OBVIOUS
  <2> HIDE DEF N
  <2> QED BY <1>1, <1>2, <2>1, NatInduct
<1>4. ASSUME NEW s \in Seq(A) PROVE s \in S
  <2>1. Len(s) \in N
    BY <1>3, LenProperties
  <2> QED BY <2>1
<1> QED BY <1>4

----------------------------------------------------------------------------
(* The loop of path.Clean.                                                 *)

IsRun(rooted, key, out) ==
    out = [n \in 0..Len(key) |->
             IF n = 0 THEN <<>> ELSE CleanPiece(rooted, out[n - 1], key[n])]

LEMMA RunAppend ==
    ASSUME NEW r, NEW s \in Seq(Piece), NEW e \in Piece, NEW f, IsRun(r, s, f)
    PROVE  IsRun(r, Append(s, e),
                 [n \in 0..(Len(s) + 1) |->
                    IF n <= Len(s) THEN f[n] ELSE CleanPiece(r, f[Len(s)], e)])
<1> DEFINE g == [n \in 0..(Len(s) + 1) |->
                   IF n <= Len(s) THEN f[n] ELSE CleanPiece(r, f[Len(s)], e)]
           t == Append(s, e)
<1>1. Len(s) \in Nat /\ Len(t) = Len(s) + 1
  BY AppendProperties, LenProperties
<1>2. \A n \in 1..Len(s) : t[n] = s[n]
  BY AppendProperties
<1>3. t[Len(s) + 1] = e
  BY AppendProperties
<1>4. ASSUME NEW n \in 0..Len(t)
      PROVE  g[n] = IF n = 0 THEN <<>> ELSE CleanPiece(r, g[n - 1], t[n])
  <2>1. CASE n = 0
    <3>1. f[0] = <<>>
      BY <1>1 DEF IsRun
    <3> QED BY <1>1, <2>1, <3>1
  <2>2. CASE n \in 1..Len(s)
    <3>1. f[n] = CleanPiece(r, f[n - 1], s[n])
      BY <1>1, <2>2 DEF IsRun
    <3>2. g[n] = f[n] /\ g[n - 1] = f[n - 1] /\ t[n] = s[n] /\ n # 0
      BY <1>1, <1>2, <2>2
    <3> QED BY <3>1, <3>2
  <2>3. CASE n = Len(s) + 1
    <3>1. g[n] = CleanPiece(r, f[Len(s)], e) /\ g[n - 1] = f[Len(s)] /\ n # 0
      BY <1>1, <2>3
    <3> QED BY <1>3, <2>3, <3>1
  <2> QED BY <1>1, <2>1, <2>2, <2>3
<1>5. g = [n \in 0..Len(t) |-> g[n]]
  BY <1>1
<1> QED BY <1>4, <1>5 DEF IsRun

LEMMA RunCut ==
    ASSUME NEW r, NEW s \in Seq(Piece), NEW e \in Piece, NEW g, IsRun(r, Append(s, e), g)
    PROVE  /\ IsRun(r, s, [n \in 0..Len(s) |-> g[n]])
           /\ g[Len(s) + 1] = CleanPiece(r, g[Len(s)], e)
           /\ DOMAIN g = 0..(Len(s) + 1)
<1> DEFINE f == [n \in 0..Len(s) |-> g[n]]
           t == Append(s, e)
<1>1. Len(s) \in Nat /\ Len(t) = Len(s) + 1 /\ t[Len(s) + 1] = e
  BY AppendProperties, LenProperties
<1>2. \A n \in 1..Len(s) : t[n] = s[n]
  BY AppendProperties
<1>3. \A n \in 0..Len(t) : g[n] = IF n = 0 THEN <<>> ELSE CleanPiece(r, g[n - 1], t[n])
  BY DEF IsRun
<1>4. ASSUME NEW n \in 0..Len(s)
      PROVE  f[n] = IF n = 0 THEN <<>> ELSE CleanPiece(r, f[n - 1], s[n])
  <2>1. CASE n = 0
    BY <1>1, <1>3, <2>1
  <2>2. CASE n # 0
    <3>1. n \in 1..Len(s) /\ n \in 0..Len(t) /\ n - 1 \in 0..Len(s)
      BY <1>1, <2>2
    <3>2. g[n] = CleanPiece(r, g[n - 1], t[n])
      BY <1>3, <2>2, <3>1
    <3>3. f[n] = g[n] /\ f[n - 1] = g[n - 1]
      BY <3>1
    <3> QED BY <1>2, <2>2, <3>1, <3>2, <3>3
  <2> QED BY <2>1, <2>2
<1>5. IsRun(r, s, f)
  BY <1>4 DEF IsRun
<1>6. Len(s) + 1 \in 0..Len(t) /\ Len(s) + 1 # 0 /\ (Len(s) + 1) - 1 = Len(s)
  BY <1>1
<1>7. g[Len(s) + 1] = CleanPiece(r, g[Len(s)], e)
  BY <1>1, <1>3, <1>6
<1>8. DOMAIN g = 0..Len(t)
  BY DEF IsRun
<1> QED BY <1>1, <1>5, <1>7, <1>8

LEMMA RunExists ==
    ASSUME NEW r, NEW s \in Seq(Piece)
    PROVE  \E f : IsRun(r, s, f)
<1> DEFINE S == {t \in Seq(Piece) : \E f : IsRun(r, t, f)}
<1>1. <<>> \in S
  <2>1. Len(<<>>) = 0 /\ <<>> \in Seq(Piece)
    BY EmptySeq
  <2> DEFINE f == [n \in 0..0 |-> <<>>]
  <2>2. f = [n \in 0..0 |-> IF n = 0 THEN <<>> ELSE CleanPiece(r, f[n - 1], <<>>[n])]
    OBVIOUS
  <2>3. IsRun(r, <<>>, f)
    BY <2>1, <2>2 DEF IsRun
  <2> QED BY <2>1, <2>3
<1>2. ASSUME NEW t \in S, NEW e \in Piece PROVE Append(t, e) \in S
  <2>1. PICK f : IsRun(r, t, f)
    OBVIOUS
  <2>2. \E g : IsRun(r, Append(t, e), g)
    BY <2>1, RunAppend
  <2>3. Append(t, e) \in Seq(Piece)
    BY AppendProperties
  <2> QED BY <2>2, <2>3
<1>3. S \in SUBSET Seq(Piece)
  OBVIOUS
<1>4. S = Seq(Piece)
  <2> HIDE DEF S
  <2> QED BY <1>1, <1>2, <1>3, SeqInduct
<1> QED BY <1>4

LEMMA RunUnique ==
    ASSUME NEW r, NEW s \in Seq(Piece), NEW f, NEW g, IsRun(r, s, f), IsRun(r, s, g)
    PROVE  f = g
<1> DEFINE S == {t \in Seq(Piece) : \A x, y : IsRun(r, t, x) /\ IsRun(r, t, y) => x = y}
<1>1. <<>> \in S
  <2>1. Len(<<>>) = 0 /\ <<>> \in Seq(Piece)
    BY EmptySeq
  <2>2. ASSUME NEW x, IsRun(r, <<>>, x) PROVE x = [n \in 0..0 |-> <<>>]
    BY <2>1, <2>2 DEF IsRun
  <2> QED BY <2>1, <2>2
<1>2. ASSUME NEW t \in S, NEW e \in Piece PROVE Append(t, e) \in S
  <2>1. Append(t, e) \in Seq(Piece) /\ Len(t) \in Nat
    BY AppendProperties, LenProperties
  <2>2. ASSUME NEW x, NEW y, IsRun(r, Append(t, e), x), IsRun(r, Append(t, e), y)
        PROVE  x = y
    <3> DEFINE u == [n \in 0..Len(t) |-> x[n]]
               v == [n \in 0..Len(t) |-> y[n]]
    <3>1. IsRun(r, t, u) /\ x[Len(t) + 1] = CleanPiece(r, x[Len(t)], e)
          /\ DOMAIN x = 0..(Len(t) + 1)
      BY <2>2, RunCut
    <3>2. IsRun(r, t, v) /\ y[Len(t) + 1] = CleanPiece(r, y[Len(t)], e)
          /\ DOMAIN y = 0..(Len(t) + 1)
      BY <2>2, RunCut
    <3>3. u = v
      BY <3>1, <3>2
    <3>4. ASSUME NEW n \in 0..Len(t) PROVE x[n] = y[n]
      <4>1. u[n] = x[n] /\ v[n] = y[n]
        OBVIOUS
      <4> QED BY <3>3, <4>1
    <3>5. x[Len(t)] = y[Len(t)]
      BY <2>1, <3>4
    <3>6. \A n \in 0..(Len(t) + 1) : x[n] = y[n]
      <4> TAKE n \in 0..(Len(t) + 1)
      <4>1. n \in 0..Len(t) \/ n = Len(t) + 1
        BY <2>1
      <4> QED BY <3>1, <3>2, <3>4, <3>5, <4>1
    <3>7. x = [n \in DOMAIN x |-> x[n]] /\ y = [n \in DOMAIN y |-> y[n]]
      BY <2>2 DEF IsRun
    <3> QED BY <3>1, <3>2, <3>6, <3>7
  <2> QED BY <2>1, <2>2
<1>3. S \in SUBSET Seq(Piece)
  OBVIOUS
<1>4. S = Seq(Piece)
  <2> HIDE DEF S
  <2> QED BY <1>1, <1>2, <1>3, SeqInduct
<1> QED BY <1>4

LEMMA CleanPiecesIsRun ==
    ASSUME NEW r, NEW s \in Seq(Piece)
    PROVE  \E f : IsRun(r, s, f) /\ CleanPieces(r, s) = f[Len(s)]
<1> DEFINE f == CHOOSE x : IsRun(r, s, x)
<1>1. IsRun(r, s, f)
  BY RunExists
<1>2. CleanPieces(r, s) = f[Len(s)]
  BY DEF CleanPieces, IsRun
<1> QED BY <1>1, <1>2

(* The equations the loop is known by from here on.                        *)
LEMMA CleanNothing ==
    ASSUME NEW r
    PROVE  CleanPieces(r, <<>>) = <<>>
<1>1. <<>> \in Seq(Piece) /\ Len(<<>>) = 0
  BY EmptySeq
<1>2. PICK f : IsRun(r, <<>>, f) /\ CleanPieces(r, <<>>) = f[Len(<<>>)]
  BY <1>1, CleanPiecesIsRun
<1>3. f[0] = <<>>
  BY <1>1, <1>2 DEF IsRun
<1> QED BY <1>1, <1>2, <1>3

LEMMA CleanAppend ==
    ASSUME NEW r, NEW s \in Seq(Piece), NEW e \in Piece
    PROVE  CleanPieces(r, Append(s, e)) = CleanPiece(r, CleanPieces(r, s), e)
<1>1. Len(s) \in Nat /\ Append(s, e) \in Seq(Piece) /\ Len(Append(s, e)) = Len(s) + 1
  BY AppendProperties, LenProperties
<1>2. PICK f : IsRun(r, s, f) /\ CleanPieces(r, s) = f[Len(s)]
  BY CleanPiecesIsRun
<1>3. PICK g : IsRun(r, Append(s, e), g) /\ CleanPieces(r, Append(s, e)) = g[Len(s) + 1]
  BY <1>1, CleanPiecesIsRun
<1> DEFINE h == [n \in 0..Len(s) |-> g[n]]
<1>4. IsRun(r, s, h) /\ g[Len(s) + 1] = CleanPiece(r, g[Len(s)], e)
  BY <1>3, RunCut
<1>5. h = f
  BY <1>2, <1>4, RunUnique
<1>6. g[Len(s)] = f[Len(s)]
  <2>1. h[Len(s)] = g[Len(s)]
    BY <1>1
  <2> QED BY <1>5, <2>1
<1> QED BY <1>2, <1>3, <1>4, <1>6

----------------------------------------------------------------------------
(* The reference walk.                                                     *)

LEMMA PiecesApart ==
    /\ Up \notin Segment /\ Dot \notin Segment /\ Empty \notin Segment
    /\ Up # Dot /\ Up # Empty /\ Dot # Empty
    /\ Segment \subseteq Piece /\ Empty \in Piece /\ Up \in Piece /\ Dot \in Piece
    /\ \A e \in Piece : e \in {Empty, Dot} \/ e = Up \/ e \in Segment
    /\ Name \cap UpName = {}
BY PiecesDistinct DEF Segment, Piece

LEMMA FrontProperties ==
    ASSUME NEW A, NEW s \in Seq(A), s # <<>>
    PROVE  /\ Front(s) \in Seq(A)
           /\ Len(s) \in Nat \ {0} /\ Len(Front(s)) = Len(s) - 1
           /\ \A i \in 1..(Len(s) - 1) : Front(s)[i] = s[i]
           /\ Last(s) \in A
<1>1. Len(s) \in Nat \ {0}
  BY EmptySeq
<1>2. \A i \in 1..Len(s) : s[i] \in A
  BY ElementOfSeq
<1>3. 1 \in Int /\ Len(s) - 1 \in Int /\ \A i \in 1..(Len(s) - 1) : s[i] \in A
  BY <1>1, <1>2
<1>4. /\ SubSeq(s, 1, Len(s) - 1) \in Seq(A)
      /\ Len(SubSeq(s, 1, Len(s) - 1)) = IF 1 <= Len(s) - 1 THEN (Len(s) - 1) - 1 + 1 ELSE 0
      /\ \A i \in 1..((Len(s) - 1) - 1 + 1) : SubSeq(s, 1, Len(s) - 1)[i] = s[1 + i - 1]
  BY <1>3, SubSeqProperties
<1>5. Len(SubSeq(s, 1, Len(s) - 1)) = Len(s) - 1
  <2>1. ASSUME NEW n \in Nat \ {0}
        PROVE  (IF 1 <= n - 1 THEN (n - 1) - 1 + 1 ELSE 0) = n - 1
    OBVIOUS
  <2> QED BY <1>1, <1>4, <2>1
<1>6. \A i \in 1..(Len(s) - 1) : SubSeq(s, 1, Len(s) - 1)[i] = s[i]
  <2> TAKE i \in 1..(Len(s) - 1)
  <2>1. i \in 1..((Len(s) - 1) - 1 + 1) /\ 1 + i - 1 = i
    BY <1>1
  <2> QED BY <1>4, <2>1
<1>7. s[Len(s)] \in A
  BY <1>1, <1>2
<1> QED BY <1>1, <1>4, <1>5, <1>6, <1>7 DEF Front, Last

Count(P, key, n) == Cardinality({i \in 1..n : key[i] \in P})

LEMMA CountIsNat ==
    ASSUME NEW P, NEW key, NEW n \in Nat
    PROVE  Count(P, key, n) \in Nat /\ IsFiniteSet({i \in 1..n : key[i] \in P})
<1>1. IsFiniteSet(1..n)
  BY FS_Interval
<1>2. {i \in 1..n : key[i] \in P} \in SUBSET (1..n)
  OBVIOUS
<1> QED BY <1>1, <1>2, FS_Subset, FS_CardinalityType DEF Count

LEMMA CountStep ==
    ASSUME NEW P, NEW key, NEW n \in Nat
    PROVE  Count(P, key, n + 1) = Count(P, key, n) + (IF key[n + 1] \in P THEN 1 ELSE 0)
<1> DEFINE T == {i \in 1..n : key[i] \in P}
<1>1. IsFiniteSet(T) /\ Count(P, key, n) \in Nat /\ Count(P, key, n) = Cardinality(T)
  BY CountIsNat DEF Count
<1>2. CASE key[n + 1] \in P
  <2>1. {i \in 1..(n + 1) : key[i] \in P} = T \cup {n + 1}
    BY <1>2
  <2>2. n + 1 \notin T
    OBVIOUS
  <2>3. Cardinality(T \cup {n + 1}) = Cardinality(T) + 1
    BY <1>1, <2>2, FS_AddElement
  <2> QED BY <1>1, <1>2, <2>1, <2>3 DEF Count
<1>3. CASE key[n + 1] \notin P
  <2>1. {i \in 1..(n + 1) : key[i] \in P} = T
    BY <1>3
  <2>2. Count(P, key, n + 1) = Count(P, key, n)
    BY <2>1 DEF Count
  <2> QED BY <1>1, <1>3, <2>2
<1> QED BY <1>2, <1>3

LEMMA DepthByCount ==
    ASSUME NEW key, NEW n
    PROVE  Depth(key, n) = Count(Segment, key, n) - Count({Up}, key, n)
BY DEF Depth, Count

LEMMA DepthIsInt ==
    ASSUME NEW key, NEW n \in Nat
    PROVE  Depth(key, n) \in Int
<1>1. Count(Segment, key, n) \in Nat /\ Count({Up}, key, n) \in Nat
  BY CountIsNat
<1> QED BY <1>1, DepthByCount

LEMMA DepthOfNothing ==
    ASSUME NEW key
    PROVE  Depth(key, 0) = 0
<1>1. 1..0 = {}
  OBVIOUS
<1> QED BY <1>1, FS_EmptySet DEF Depth

LEMMA DepthStep ==
    ASSUME NEW key, NEW n \in Nat
    PROVE  Depth(key, n + 1) = IF key[n + 1] \in Segment THEN Depth(key, n) + 1
                               ELSE IF key[n + 1] = Up THEN Depth(key, n) - 1
                               ELSE Depth(key, n)
<1>1. Count(Segment, key, n + 1) = Count(Segment, key, n) + (IF key[n + 1] \in Segment THEN 1 ELSE 0)
  BY CountStep
<1>2. Count({Up}, key, n + 1) = Count({Up}, key, n) + (IF key[n + 1] \in {Up} THEN 1 ELSE 0)
  BY CountStep
<1>3. Count(Segment, key, n) \in Nat /\ Count({Up}, key, n) \in Nat
  BY CountIsNat
<1>4. /\ Depth(key, n) = Count(Segment, key, n) - Count({Up}, key, n)
      /\ Depth(key, n + 1) = Count(Segment, key, n + 1) - Count({Up}, key, n + 1)
  BY DepthByCount
<1>5. key[n + 1] \in {Up} <=> key[n + 1] = Up
  OBVIOUS
<1> QED BY <1>1, <1>2, <1>3, <1>4, <1>5, PiecesApart

(* Depth looks at the first n pieces only.                                 *)
LEMMA DepthOfPrefix ==
    ASSUME NEW s, NEW t, NEW n \in Nat, \A i \in 1..n : s[i] = t[i]
    PROVE  Depth(s, n) = Depth(t, n)
<1>1. {i \in 1..n : s[i] \in Segment} = {i \in 1..n : t[i] \in Segment}
  OBVIOUS
<1>2. {i \in 1..n : s[i] = Up} = {i \in 1..n : t[i] = Up}
  OBVIOUS
<1> QED BY <1>1, <1>2 DEF Depth

Kept(key) == CleanPieces(FALSE, key)

LEMMA CleanPieceType ==
    ASSUME NEW r, NEW out \in Seq(Piece), NEW e \in Piece
    PROVE  CleanPiece(r, out, e) \in Seq(Piece)
<1>1. Append(out, e) \in Seq(Piece)
  BY AppendProperties
<1>2. Append(out, Up) \in Seq(Piece)
  BY AppendProperties, PiecesApart
<1>3. out # <<>> => Front(out) \in Seq(Piece)
  BY FrontProperties
<1> QED BY <1>1, <1>2, <1>3 DEF CleanPiece

LEMMA CleanPiecesType ==
    ASSUME NEW r, NEW s \in Seq(Piece)
    PROVE  CleanPieces(r, s) \in Seq(Piece)
<1> DEFINE S == {t \in Seq(Piece) : CleanPieces(r, t) \in Seq(Piece)}
<1>1. <<>> \in S
  BY EmptySeq, CleanNothing
<1>2. ASSUME NEW t \in S, NEW e \in Piece PROVE Append(t, e) \in S
  BY AppendProperties, CleanAppend, CleanPieceType
<1>3. S \in SUBSET Seq(Piece)
  OBVIOUS
<1>4. S = Seq(Piece)
  <2> HIDE DEF S
  <2> QED BY <1>1, <1>2, <1>3, SeqInduct
<1> QED BY <1>4

(* What path.Clean keeps of the pieces so far, against where the walk is:  *)
(* once it has been above the root, the first thing kept is "..", and else *)
(* the n-th thing kept is the piece that named the n-th level.             *)
KeptIsPlace(key) ==
    LET out == Kept(key)
    IN  IF Escapes(key) THEN out # <<>> /\ out[1] = Up
        ELSE /\ Len(out) = Depth(key, Len(key))
             /\ \A n \in 1..Len(out) :
                   \E i \in 1..Len(key) : Survives(key, i) /\ Depth(key, i) = n /\ out[n] = key[i]

LEMMA KeptAppend ==
    ASSUME NEW s \in Seq(Piece), NEW e \in Piece
    PROVE  /\ Kept(s) \in Seq(Piece)
           /\ Kept(Append(s, e)) = CleanPiece(FALSE, Kept(s), e)
BY CleanAppend, CleanPiecesType DEF Kept

(* What an appended piece leaves as it was.                                *)
LEMMA WalkAppend ==
    ASSUME NEW s \in Seq(Piece), NEW e \in Piece
    PROVE  LET t == Append(s, e)
           IN  /\ t \in Seq(Piece) /\ Len(s) \in Nat /\ Len(t) = Len(s) + 1
               /\ \A i \in 1..Len(s) : t[i] = s[i]
               /\ t[Len(s) + 1] = e
               /\ \A n \in 0..Len(s) : Depth(t, n) = Depth(s, n)
               /\ Depth(t, Len(s) + 1) = IF e \in Segment THEN Depth(s, Len(s)) + 1
                                         ELSE IF e = Up THEN Depth(s, Len(s)) - 1
                                         ELSE Depth(s, Len(s))
<1> DEFINE t == Append(s, e)
<1>1. /\ t \in Seq(Piece) /\ Len(s) \in Nat /\ Len(t) = Len(s) + 1
      /\ \A i \in 1..Len(s) : t[i] = s[i]
      /\ t[Len(s) + 1] = e
  BY AppendProperties, LenProperties
<1> HIDE DEF t
<1>2. ASSUME NEW n \in 0..Len(s) PROVE Depth(t, n) = Depth(s, n)
  <2>1. n \in Nat /\ \A i \in 1..n : t[i] = s[i]
    BY <1>1
  <2> QED BY <2>1, DepthOfPrefix
<1>3. Depth(t, Len(s)) = Depth(s, Len(s))
  BY <1>1, <1>2
<1>4. Depth(t, Len(s) + 1) = IF t[Len(s) + 1] \in Segment THEN Depth(t, Len(s)) + 1
                             ELSE IF t[Len(s) + 1] = Up THEN Depth(t, Len(s)) - 1
                             ELSE Depth(t, Len(s))
  BY <1>1, DepthStep
<1> QED BY <1>1, <1>2, <1>3, <1>4 DEF t

LEMMA EscapesAppend ==
    ASSUME NEW s \in Seq(Piece), NEW e \in Piece
    PROVE  Escapes(Append(s, e))
             <=> Escapes(s) \/ Depth(Append(s, e), Len(s) + 1) < 0
<1> DEFINE t == Append(s, e)
<1>1. /\ Len(s) \in Nat /\ Len(t) = Len(s) + 1
      /\ \A n \in 0..Len(s) : Depth(t, n) = Depth(s, n)
  BY WalkAppend
<1>2. 1..Len(t) = (1..Len(s)) \cup {Len(s) + 1}
  BY <1>1
<1>3. \A n \in 1..Len(s) : Depth(t, n) = Depth(s, n)
  BY <1>1
<1> HIDE DEF t
<1>4. Escapes(t) <=> Escapes(s) \/ Depth(t, Len(s) + 1) < 0
  BY <1>2, <1>3 DEF Escapes
<1> QED BY <1>4 DEF t

(* A level the walk is still below survives the next piece.                *)
LEMMA SurvivesAppend ==
    ASSUME NEW s \in Seq(Piece), NEW e \in Piece, NEW i \in 1..Len(s), Survives(s, i),
           Depth(s, i) <= Depth(Append(s, e), Len(s) + 1)
    PROVE  Survives(Append(s, e), i) /\ Depth(Append(s, e), i) = Depth(s, i)
<1> DEFINE t == Append(s, e)
<1>1. /\ Len(s) \in Nat /\ Len(t) = Len(s) + 1
      /\ t[i] = s[i]
      /\ \A n \in 0..Len(s) : Depth(t, n) = Depth(s, n)
  BY WalkAppend
<1>2. Depth(t, i) = Depth(s, i)
  BY <1>1
<1>3. s[i] \in Segment /\ \A j \in i..Len(s) : Depth(s, j) >= Depth(s, i)
  BY DEF Survives
<1>4. Depth(s, i) \in Int /\ Depth(t, Len(s) + 1) \in Int
  BY <1>1, DepthIsInt
<1>5. ASSUME NEW j \in i..Len(t) PROVE Depth(t, j) >= Depth(t, i)
  <2>1. CASE j \in i..Len(s)
    <3>1. Depth(t, j) = Depth(s, j)
      BY <1>1, <2>1
    <3> QED BY <1>2, <1>3, <2>1, <3>1
  <2>2. CASE j = Len(s) + 1
    BY <1>2, <1>4, <2>2
  <2> QED BY <1>1, <2>1, <2>2
<1> HIDE DEF t
<1>6. Survives(t, i)
  BY <1>1, <1>3, <1>5 DEF Survives
<1> QED BY <1>2, <1>6 DEF t

LEMMA PlaceOfNothing == KeptIsPlace(<<>>)
<1>1. Len(<<>>) = 0 /\ Kept(<<>>) = <<>> /\ Depth(<<>>, 0) = 0
  BY EmptySeq, CleanNothing, DepthOfNothing DEF Kept
<1>2. ~ Escapes(<<>>)
  BY <1>1 DEF Escapes
<1> QED BY <1>1, <1>2 DEF KeptIsPlace

LEMMA EscapedStays ==
    ASSUME NEW s \in Seq(Piece), NEW e \in Piece, KeptIsPlace(s), Escapes(s)
    PROVE  KeptIsPlace(Append(s, e))
<1> DEFINE out == Kept(s)
<1>1. out \in Seq(Piece) /\ out # <<>> /\ out[1] = Up /\ Len(out) \in Nat \ {0}
  BY KeptAppend, EmptySeq DEF KeptIsPlace
<1>2. Kept(Append(s, e)) = CleanPiece(FALSE, out, e)
  BY KeptAppend
<1>3. \A x \in Piece : Append(out, x) # <<>> /\ Append(out, x)[1] = Up
  BY <1>1, AppendProperties
<1>4. ASSUME Last(out) # Up PROVE Front(out) # <<>> /\ Front(out)[1] = Up
  <2>1. Len(out) # 1
    BY <1>1, <1>4 DEF Last
  <2>2. Len(Front(out)) = Len(out) - 1 /\ \A i \in 1..(Len(out) - 1) : Front(out)[i] = out[i]
    BY <1>1, FrontProperties
  <2>3. 1 \in 1..(Len(out) - 1) /\ Len(Front(out)) # 0
    BY <1>1, <2>1, <2>2
  <2> QED BY <1>1, <2>2, <2>3, EmptySeq
<1> HIDE DEF out
<1>5. CleanPiece(FALSE, out, e) # <<>> /\ CleanPiece(FALSE, out, e)[1] = Up
  BY <1>1, <1>3, <1>4, PiecesApart DEF CleanPiece
<1>6. Escapes(Append(s, e))
  BY EscapesAppend
<1> QED BY <1>2, <1>5, <1>6 DEF KeptIsPlace

(* The shorter of two things kept stays a place, when the walk is as deep. *)
LEMMA KeptPrefix ==
    ASSUME NEW s \in Seq(Piece), NEW e \in Piece, KeptIsPlace(s), ~ Escapes(s),
           NEW n \in 1..Len(Kept(s)), n <= Depth(Append(s, e), Len(s) + 1)
    PROVE  \E i \in 1..Len(Append(s, e)) :
              /\ Survives(Append(s, e), i) /\ Depth(Append(s, e), i) = n
              /\ Kept(s)[n] = Append(s, e)[i]
<1>1. PICK i \in 1..Len(s) : Survives(s, i) /\ Depth(s, i) = n /\ Kept(s)[n] = s[i]
  BY DEF KeptIsPlace
<1>2. Survives(Append(s, e), i) /\ Depth(Append(s, e), i) = Depth(s, i)
  BY <1>1, SurvivesAppend
<1>3. Len(s) \in Nat /\ Len(Append(s, e)) = Len(s) + 1 /\ Append(s, e)[i] = s[i]
  BY WalkAppend
<1>4. i \in 1..Len(Append(s, e))
  BY <1>3
<1> QED BY <1>1, <1>2, <1>3, <1>4

LEMMA PlaceAppend ==
    ASSUME NEW s \in Seq(Piece), NEW e \in Piece, KeptIsPlace(s)
    PROVE  KeptIsPlace(Append(s, e))
<1>1. CASE Escapes(s)
  BY <1>1, EscapedStays
<1>2. CASE ~ Escapes(s)
  <2> DEFINE t == Append(s, e)
             out == Kept(s)
             d == Depth(s, Len(s))
             d1 == Depth(t, Len(s) + 1)
  <2>1. /\ t \in Seq(Piece) /\ Len(s) \in Nat /\ Len(t) = Len(s) + 1
        /\ t[Len(s) + 1] = e
        /\ d1 = IF e \in Segment THEN d + 1 ELSE IF e = Up THEN d - 1 ELSE d
    BY WalkAppend
  <2>2. out \in Seq(Piece) /\ Len(out) \in Nat /\ Len(out) = d
    BY <1>2, KeptAppend, LenProperties DEF KeptIsPlace
  <2>3. Kept(t) = CleanPiece(FALSE, out, e)
    BY KeptAppend
  <2>4. Escapes(t) <=> d1 < 0
    BY <1>2, EscapesAppend
  <2>5. \A n \in 1..Len(out) : n <= d1 =>
           \E i \in 1..Len(t) : Survives(t, i) /\ Depth(t, i) = n /\ out[n] = t[i]
    BY <1>2, KeptPrefix
  <2>6. \A n \in 1..Len(out) : out[n] # Up
    <3> TAKE n \in 1..Len(out)
    <3>1. PICK i \in 1..Len(s) : Survives(s, i) /\ out[n] = s[i]
      BY <1>2 DEF KeptIsPlace
    <3> QED BY <3>1, PiecesApart DEF Survives
  <2>7. CASE e \in {Empty, Dot}
    <3>1. d1 = d /\ ~ Escapes(t)
      BY <2>1, <2>2, <2>4, <2>7, PiecesApart
    <3>2. Kept(t) = out
      BY <2>3, <2>7 DEF CleanPiece
    <3>3. \A n \in 1..Len(out) : n <= d1
      BY <2>2, <3>1
    <3> HIDE DEF t, out, d, d1
    <3>4. KeptIsPlace(t)
      BY <2>1, <2>2, <2>5, <3>1, <3>2, <3>3 DEF KeptIsPlace, d1
    <3> QED BY <3>4 DEF t
  <2>8. CASE e \in Segment
    <3>1. d1 = d + 1 /\ ~ Escapes(t)
      BY <2>1, <2>2, <2>4, <2>8
    <3>2. Kept(t) = Append(out, e)
      BY <2>3, <2>8, PiecesApart DEF CleanPiece
    <3>3. /\ Len(Append(out, e)) = Len(out) + 1
          /\ \A n \in 1..Len(out) : Append(out, e)[n] = out[n]
          /\ Append(out, e)[Len(out) + 1] = e
      BY <2>2, AppendProperties
    <3>4. Survives(t, Len(s) + 1)
      BY <2>1, <2>8, <3>1, <2>2 DEF Survives
    <3> HIDE DEF t, out, d, d1
    <3>5. ASSUME NEW n \in 1..Len(Kept(t))
          PROVE  \E i \in 1..Len(t) : Survives(t, i) /\ Depth(t, i) = n /\ Kept(t)[n] = t[i]
      <4>1. CASE n \in 1..Len(out)
        <5>1. n <= d1
          BY <2>2, <3>1, <4>1
        <5> QED BY <2>5, <3>2, <3>3, <4>1, <5>1
      <4>2. CASE n = Len(out) + 1
        <5>1. Depth(t, Len(s) + 1) = n
          BY <2>2, <3>1, <4>2 DEF d1
        <5>2. Len(s) + 1 \in 1..Len(t) /\ Kept(t)[n] = t[Len(s) + 1]
          BY <2>1, <3>2, <3>3, <4>2
        <5> QED BY <3>4, <5>1, <5>2
      <4> QED BY <2>2, <3>2, <3>3, <4>1, <4>2
    <3>6. Len(Kept(t)) = Depth(t, Len(t))
      BY <2>1, <2>2, <3>1, <3>2, <3>3 DEF d1
    <3>7. KeptIsPlace(t)
      BY <3>1, <3>5, <3>6 DEF KeptIsPlace
    <3> QED BY <3>7 DEF t
  <2>9. CASE e = Up /\ out = <<>>
    <3>1. d1 = -1 /\ Escapes(t)
      BY <2>1, <2>2, <2>4, <2>9, PiecesApart, EmptySeq
    <3>2. Kept(t) = Append(out, Up)
      BY <2>3, <2>9, PiecesApart DEF CleanPiece
    <3>3. Append(out, Up) # <<>> /\ Append(out, Up)[Len(out) + 1] = Up /\ Len(out) = 0
      BY <2>2, <2>9, AppendProperties, PiecesApart, EmptySeq
    <3>4. KeptIsPlace(t)
      BY <3>1, <3>2, <3>3 DEF KeptIsPlace
    <3> QED BY <3>4
  <2>10. CASE e = Up /\ out # <<>>
    <3>1. Len(out) \in Nat \ {0}
      BY <2>2, <2>10, EmptySeq
    <3>2. d1 = d - 1 /\ ~ Escapes(t)
      BY <2>1, <2>2, <2>4, <2>10, <3>1, PiecesApart
    <3>3. Last(out) # Up
      BY <2>6, <3>1 DEF Last
    <3>4. Kept(t) = Front(out)
      BY <2>3, <2>10, <3>3, PiecesApart DEF CleanPiece
    <3>5. Len(Front(out)) = Len(out) - 1 /\ \A n \in 1..(Len(out) - 1) : Front(out)[n] = out[n]
      BY <2>2, <2>10, FrontProperties
    <3> HIDE DEF t, out, d, d1
    <3>6. ASSUME NEW n \in 1..Len(Kept(t))
          PROVE  \E i \in 1..Len(t) : Survives(t, i) /\ Depth(t, i) = n /\ Kept(t)[n] = t[i]
      <4>1. n \in 1..Len(out) /\ n <= d1 /\ Kept(t)[n] = out[n]
        BY <2>2, <3>1, <3>2, <3>4, <3>5
      <4> QED BY <2>5, <4>1
    <3>7. Len(Kept(t)) = Depth(t, Len(t))
      BY <2>1, <2>2, <3>2, <3>4, <3>5 DEF d1
    <3>8. KeptIsPlace(t)
      BY <3>2, <3>6, <3>7 DEF KeptIsPlace
    <3> QED BY <3>8 DEF t
  <2> QED BY <2>7, <2>8, <2>9, <2>10, PiecesApart
<1> QED BY <1>1, <1>2

LEMMA PlaceKept ==
    ASSUME NEW s \in Seq(Piece)
    PROVE  KeptIsPlace(s)
<1> DEFINE S == {t \in Seq(Piece) : KeptIsPlace(t)}
<1>1. <<>> \in S
  BY PlaceOfNothing, EmptySeq
<1>2. ASSUME NEW t \in S, NEW e \in Piece PROVE Append(t, e) \in S
  BY AppendProperties, PlaceAppend
<1>3. S \in SUBSET Seq(Piece)
  OBVIOUS
<1>4. S = Seq(Piece)
  <2> HIDE DEF S
  <2> QED BY <1>1, <1>2, <1>3, SeqInduct
<1> QED BY <1>4

(* Two surviving pieces of one level would be one: between them the walk   *)
(* would have to leave the level.                                          *)
LEMMA OneSurvivor ==
    ASSUME NEW s \in Seq(Piece), NEW i \in 1..Len(s), NEW j \in 1..Len(s),
           Survives(s, i), Survives(s, j), Depth(s, i) = Depth(s, j)
    PROVE  i = j
<1>1. Len(s) \in Nat
  BY LenProperties
<1>2. ASSUME NEW x \in 1..Len(s), NEW y \in 1..Len(s), x < y,
             Survives(s, x), Survives(s, y), Depth(s, x) = Depth(s, y)
      PROVE  FALSE
  <2>1. y - 1 \in Nat /\ y - 1 \in x..Len(s) /\ (y - 1) + 1 = y
    BY <1>1, <1>2
  <2>2. s[y] \in Segment
    BY <1>2 DEF Survives
  <2>3. Depth(s, (y - 1) + 1) = IF s[(y - 1) + 1] \in Segment THEN Depth(s, y - 1) + 1
                                ELSE IF s[(y - 1) + 1] = Up THEN Depth(s, y - 1) - 1
                                ELSE Depth(s, y - 1)
    BY <2>1, DepthStep
  <2>4. Depth(s, y) = Depth(s, y - 1) + 1
    BY <2>1, <2>2, <2>3
  <2>5. Depth(s, y - 1) >= Depth(s, x)
    BY <1>2, <2>1 DEF Survives
  <2>6. Depth(s, y - 1) \in Int
    BY <2>1, DepthIsInt
  <2> QED BY <1>2, <2>4, <2>5, <2>6
<1>3. ~(i < j) /\ ~(j < i)
  BY <1>2
<1> QED BY <1>1, <1>3

LEMMA KeptSurvivors ==
    ASSUME NEW s \in Seq(Piece), ~ Escapes(s)
    PROVE  Kept(s) = Survivors(s) /\ Kept(s) \in Seq(Segment)
<1> DEFINE out == Kept(s)
<1>1. out \in Seq(Piece) /\ Len(out) \in Nat /\ out = [n \in 1..Len(out) |-> out[n]]
  BY CleanPiecesType, LenProperties DEF Kept
<1>2. Len(out) = Depth(s, Len(s))
  BY PlaceKept DEF KeptIsPlace
<1>3. ASSUME NEW n \in 1..Len(out)
      PROVE  /\ out[n] = s[CHOOSE i \in 1..Len(s) : Survives(s, i) /\ Depth(s, i) = n]
             /\ out[n] \in Segment
  <2>1. PICK i \in 1..Len(s) : Survives(s, i) /\ Depth(s, i) = n /\ out[n] = s[i]
    BY PlaceKept DEF KeptIsPlace
  <2>2. \A j \in 1..Len(s) : Survives(s, j) /\ Depth(s, j) = n => j = i
    BY <2>1, OneSurvivor
  <2>3. (CHOOSE j \in 1..Len(s) : Survives(s, j) /\ Depth(s, j) = n) = i
    BY <2>1, <2>2
  <2>4. s[i] \in Segment
    BY <2>1 DEF Survives
  <2> QED BY <2>1, <2>3, <2>4
<1>4. \A n \in 1..Len(out) :
         out[n] = s[CHOOSE i \in 1..Len(s) : Survives(s, i) /\ Depth(s, i) = n]
  BY <1>3
<1> HIDE DEF out
<1>5. out = Survivors(s)
  BY <1>1, <1>2, <1>4 DEF Survivors
<1>6. out \in [1..Len(out) -> Segment]
  BY <1>1, <1>3
<1>7. out \in Seq(Segment)
  BY <1>1, <1>6, SeqDef
<1> QED BY <1>5, <1>7 DEF out

LEMMA ConcatAppend ==
    ASSUME NEW A, NEW s \in Seq(A), NEW t \in Seq(A), NEW e \in A
    PROVE  s \o Append(t, e) = Append(s \o t, e) /\ s \o t \in Seq(A)
<1>1. <<e>> \in Seq(A) /\ s \o t \in Seq(A)
  BY ConcatProperties
<1>2. Append(t, e) = t \o <<e>> /\ Append(s \o t, e) = (s \o t) \o <<e>>
  BY <1>1, AppendIsConcat
<1>3. (s \o t) \o <<e>> = s \o (t \o <<e>>)
  BY <1>1, ConcatAssociative
<1> QED BY <1>1, <1>2, <1>3

LEMMA ConcatFront ==
    ASSUME NEW A, NEW s \in Seq(A), NEW t \in Seq(A), t # <<>>
    PROVE  /\ Front(s \o t) = s \o Front(t)
           /\ Last(s \o t) = Last(t) /\ s \o t # <<>>
<1>1. /\ s \o t \in Seq(A) /\ Len(s \o t) = Len(s) + Len(t)
      /\ \A i \in 1..(Len(s) + Len(t)) :
            (s \o t)[i] = IF i <= Len(s) THEN s[i] ELSE t[i - Len(s)]
  BY ConcatProperties
<1>2. Len(s) \in Nat /\ Len(t) \in Nat \ {0}
  BY EmptySeq, LenProperties
<1>3. s \o t # <<>>
  BY <1>1, <1>2, EmptySeq
<1>4. /\ Front(t) \in Seq(A) /\ Len(Front(t)) = Len(t) - 1
      /\ \A i \in 1..(Len(t) - 1) : Front(t)[i] = t[i]
  BY FrontProperties
<1>5. /\ Front(s \o t) \in Seq(A) /\ Len(Front(s \o t)) = Len(s \o t) - 1
      /\ \A i \in 1..(Len(s \o t) - 1) : Front(s \o t)[i] = (s \o t)[i]
  BY <1>1, <1>3, FrontProperties
<1>6. /\ s \o Front(t) \in Seq(A) /\ Len(s \o Front(t)) = Len(s) + Len(Front(t))
      /\ \A i \in 1..(Len(s) + Len(Front(t))) :
            (s \o Front(t))[i] = IF i <= Len(s) THEN s[i] ELSE Front(t)[i - Len(s)]
  BY <1>4, ConcatProperties
<1>7. Len(Front(s \o t)) = Len(s \o Front(t))
  BY <1>1, <1>2, <1>4, <1>5, <1>6
<1>8. ASSUME NEW i \in 1..Len(Front(s \o t))
      PROVE  Front(s \o t)[i] = (s \o Front(t))[i]
  <2>0. i \in 1..(Len(s) + Len(t) - 1)
    BY <1>1, <1>2, <1>5
  <2>1. /\ Front(s \o t)[i] = (s \o t)[i]
        /\ (s \o t)[i] = IF i <= Len(s) THEN s[i] ELSE t[i - Len(s)]
        /\ (s \o Front(t))[i] = IF i <= Len(s) THEN s[i] ELSE Front(t)[i - Len(s)]
    BY <1>1, <1>2, <1>4, <1>5, <1>6, <2>0
  <2>2. ~(i <= Len(s)) => i - Len(s) \in 1..(Len(t) - 1)
    BY <1>2, <2>0
  <2> QED BY <1>4, <2>1, <2>2
<1>9. Last(s \o t) = Last(t)
  <2>1. Len(s) + Len(t) \in 1..(Len(s) + Len(t)) /\ ~(Len(s) + Len(t) <= Len(s))
        /\ (Len(s) + Len(t)) - Len(s) = Len(t)
    BY <1>2
  <2> QED BY <1>1, <2>1 DEF Last
<1>10. Front(s \o t) = s \o Front(t)
  BY <1>5, <1>6, <1>7, <1>8, SeqEqual
<1> QED BY <1>3, <1>9, <1>10

(* A part of a key that stays below where it starts is cleaned on its own. *)
LEMMA KeptConcat ==
    ASSUME NEW s \in Seq(Piece), NEW t \in Seq(Piece), ~ Escapes(t)
    PROVE  Kept(s \o t) = Kept(s) \o Kept(t)
<1> DEFINE S == {u \in Seq(Piece) : ~ Escapes(u) => Kept(s \o u) = Kept(s) \o Kept(u)}
<1>1. Kept(s) \in Seq(Piece)
  BY CleanPiecesType DEF Kept
<1>2. <<>> \in S
  <2>1. s \o <<>> = s /\ Kept(s) \o <<>> = Kept(s)
    BY <1>1, ConcatEmptySeq
  <2>2. Kept(<<>>) = <<>> /\ <<>> \in Seq(Piece)
    BY CleanNothing, EmptySeq DEF Kept
  <2> QED BY <2>1, <2>2
<1>3. ASSUME NEW u \in S, NEW e \in Piece PROVE Append(u, e) \in S
  <2>1. Append(u, e) \in Seq(Piece)
    BY AppendProperties
  <2> SUFFICES ASSUME ~ Escapes(Append(u, e))
               PROVE  Kept(s \o Append(u, e)) = Kept(s) \o Kept(Append(u, e))
    BY <2>1
  <2>2. ~ Escapes(u)
    BY EscapesAppend
  <2>3. Kept(s \o u) = Kept(s) \o Kept(u) /\ s \o u \in Seq(Piece)
    BY <2>2, ConcatProperties
  <2>4. s \o Append(u, e) = Append(s \o u, e)
    BY ConcatAppend
  <2>5. Kept(s \o Append(u, e)) = CleanPiece(FALSE, Kept(s) \o Kept(u), e)
    BY <2>3, <2>4, KeptAppend
  <2>6. Kept(Append(u, e)) = CleanPiece(FALSE, Kept(u), e) /\ Kept(u) \in Seq(Piece)
    BY KeptAppend
  <2>7. Kept(u) \in Seq(Segment)
    BY <2>2, KeptSurvivors
  <2>8. CASE e \in {Empty, Dot}
    BY <2>5, <2>6, <2>8 DEF CleanPiece
  <2>9. CASE e \in Segment
    <3>1. Kept(s \o Append(u, e)) = Append(Kept(s) \o Kept(u), e)
      BY <2>5, <2>9, PiecesApart DEF CleanPiece
    <3>2. Kept(Append(u, e)) = Append(Kept(u), e)
      BY <2>6, <2>9, PiecesApart DEF CleanPiece
    <3>3. Kept(s) \o Append(Kept(u), e) = Append(Kept(s) \o Kept(u), e)
      BY <1>1, <2>6, ConcatAppend
    <3> QED BY <3>1, <3>2, <3>3
  <2>10. CASE e = Up
    <3>1. Kept(u) # <<>>
      <4> SUFFICES ASSUME Kept(u) = <<>> PROVE FALSE
        OBVIOUS
      <4>1. Kept(Append(u, e)) = Append(<<>>, Up)
        BY <2>6, <2>10, PiecesApart DEF CleanPiece
      <4>2. <<>> \in Seq(Piece) /\ Len(<<>>) = 0
        BY EmptySeq
      <4>3. Len(Append(<<>>, Up)) = 1 /\ Append(<<>>, Up)[1] = Up
        BY <4>2, AppendProperties, PiecesApart
      <4>4. Kept(Append(u, e)) \in Seq(Segment)
        BY <2>1, KeptSurvivors
      <4>5. Up \in Segment
        BY <4>1, <4>3, <4>4, ElementOfSeq
      <4> QED BY <4>5, PiecesApart
    <3>2. Last(Kept(u)) # Up
      BY <2>7, <3>1, FrontProperties, PiecesApart
    <3>3. /\ Front(Kept(s) \o Kept(u)) = Kept(s) \o Front(Kept(u))
          /\ Last(Kept(s) \o Kept(u)) = Last(Kept(u)) /\ Kept(s) \o Kept(u) # <<>>
      BY <1>1, <2>6, <3>1, ConcatFront
    <3>4. Kept(Append(u, e)) = Front(Kept(u))
      BY <2>6, <2>10, <3>1, <3>2, PiecesApart DEF CleanPiece
    <3>5. Kept(s \o Append(u, e)) = Front(Kept(s) \o Kept(u))
      BY <2>5, <2>10, <3>2, <3>3, PiecesApart DEF CleanPiece
    <3> QED BY <3>3, <3>4, <3>5
  <2> QED BY <2>8, <2>9, <2>10, PiecesApart
<1>4. S \in SUBSET Seq(Piece)
  OBVIOUS
<1>5. S = Seq(Piece)
  <2> HIDE DEF S
  <2> QED BY <1>2, <1>3, <1>4, SeqInduct
<1> QED BY <1>5

LEMMA EmptiesVanish ==
    ASSUME NEW s \in Seq(Piece), \A i \in 1..Len(s) : s[i] = Empty
    PROVE  Kept(s) = <<>> /\ ~ Escapes(s)
<1> DEFINE S == {t \in Seq(Piece) : (\A i \in 1..Len(t) : t[i] = Empty)
                                       => Kept(t) = <<>> /\ ~ Escapes(t) /\ Depth(t, Len(t)) = 0}
<1>1. <<>> \in S
  <2>1. Len(<<>>) = 0 /\ <<>> \in Seq(Piece) /\ Kept(<<>>) = <<>> /\ Depth(<<>>, 0) = 0
    BY EmptySeq, CleanNothing, DepthOfNothing DEF Kept
  <2> QED BY <2>1 DEF Escapes
<1>2. ASSUME NEW t \in S, NEW e \in Piece PROVE Append(t, e) \in S
  <2> DEFINE u == Append(t, e)
  <2>1. /\ u \in Seq(Piece) /\ Len(t) \in Nat /\ Len(u) = Len(t) + 1
        /\ \A i \in 1..Len(t) : u[i] = t[i]
        /\ u[Len(t) + 1] = e
        /\ Depth(u, Len(t) + 1) = IF e \in Segment THEN Depth(t, Len(t)) + 1
                                  ELSE IF e = Up THEN Depth(t, Len(t)) - 1
                                  ELSE Depth(t, Len(t))
    BY WalkAppend
  <2>2. Kept(u) = CleanPiece(FALSE, Kept(t), e)
    BY KeptAppend
  <2>3. Escapes(u) <=> Escapes(t) \/ Depth(u, Len(t) + 1) < 0
    BY EscapesAppend
  <2> HIDE DEF u
  <2>4. ASSUME \A i \in 1..Len(u) : u[i] = Empty
        PROVE  Kept(u) = <<>> /\ ~ Escapes(u) /\ Depth(u, Len(u)) = 0
    <3>1. e = Empty /\ \A i \in 1..Len(t) : t[i] = Empty
      BY <2>1, <2>4
    <3>2. Kept(t) = <<>> /\ ~ Escapes(t) /\ Depth(t, Len(t)) = 0
      BY <3>1
    <3>3. Kept(u) = <<>>
      BY <2>2, <3>1, <3>2 DEF CleanPiece
    <3> QED BY <2>1, <2>3, <3>1, <3>2, <3>3, PiecesApart
  <2> QED BY <2>1, <2>4 DEF u
<1>3. S \in SUBSET Seq(Piece)
  OBVIOUS
<1>4. S = Seq(Piece)
  <2> HIDE DEF S
  <2> QED BY <1>1, <1>2, <1>3, SeqInduct
<1> QED BY <1>4

(* What vanishes in front of a key changes nothing, wherever the key goes. *)
LEMMA KeptAfterNothing ==
    ASSUME NEW s \in Seq(Piece), Kept(s) = <<>>, NEW t \in Seq(Piece)
    PROVE  Kept(s \o t) = Kept(t)
<1> DEFINE S == {u \in Seq(Piece) : Kept(s \o u) = Kept(u)}
<1>1. <<>> \in S
  BY EmptySeq, ConcatEmptySeq, CleanNothing DEF Kept
<1>2. ASSUME NEW u \in S, NEW e \in Piece PROVE Append(u, e) \in S
  <2>1. Append(u, e) \in Seq(Piece) /\ s \o u \in Seq(Piece)
    BY AppendProperties, ConcatProperties
  <2>2. s \o Append(u, e) = Append(s \o u, e)
    BY ConcatAppend
  <2>3. Kept(s \o Append(u, e)) = CleanPiece(FALSE, Kept(s \o u), e)
    BY <2>1, <2>2, KeptAppend
  <2>4. Kept(Append(u, e)) = CleanPiece(FALSE, Kept(u), e)
    BY KeptAppend
  <2> QED BY <2>1, <2>3, <2>4
<1>3. S \in SUBSET Seq(Piece)
  OBVIOUS
<1>4. S = Seq(Piece)
  <2> HIDE DEF S
  <2> QED BY <1>1, <1>2, <1>3, SeqInduct
<1> QED BY <1>4

(* Names are kept as they are.                                             *)
LEMMA NamesKept ==
    ASSUME NEW s \in Seq(Segment)
    PROVE  Kept(s) = s /\ s \in Seq(Piece)
<1> DEFINE S == {t \in Seq(Segment) : Kept(t) = t}
<1>1. <<>> \in S
  BY EmptySeq, CleanNothing DEF Kept
<1>2. \A t \in Seq(Segment) : t \in Seq(Piece)
  BY PiecesApart, SeqMonotonic
<1>3. ASSUME NEW t \in S, NEW e \in Segment PROVE Append(t, e) \in S
  <2>1. Append(t, e) \in Seq(Segment)
    BY AppendProperties
  <2>2. t \in Seq(Piece) /\ e \in Piece
    BY <1>2, PiecesApart
  <2>3. Kept(Append(t, e)) = CleanPiece(FALSE, t, e)
    BY <2>2, KeptAppend
  <2>4. CleanPiece(FALSE, t, e) = Append(t, e)
    BY PiecesApart DEF CleanPiece
  <2> QED BY <2>1, <2>3, <2>4
<1>4. S \in SUBSET Seq(Segment)
  OBVIOUS
<1>5. S = Seq(Segment)
  <2> HIDE DEF S
  <2> QED BY <1>1, <1>3, <1>4, SeqInduct
<1> QED BY <1>2, <1>5

LEMMA PartOfKey ==
    ASSUME NEW A, NEW s \in Seq(A), NEW m \in Nat \ {0}, NEW n \in Nat, n <= Len(s)
    PROVE  /\ SubSeq(s, m, n) \in Seq(A)
           /\ Len(SubSeq(s, m, n)) = IF m <= n THEN n - m + 1 ELSE 0
           /\ \A i \in 1..(n - m + 1) : SubSeq(s, m, n)[i] = s[m + i - 1]
<1>1. Len(s) \in Nat
  BY LenProperties
<1>2. \A i \in 1..Len(s) : s[i] \in A
  BY ElementOfSeq
<1>3. \A i \in m..n : i \in 1..Len(s)
  BY <1>1
<1>4. \A i \in m..n : s[i] \in A
  BY <1>2, <1>3
<1> QED BY <1>4, SubSeqProperties

(* Nothing is lost at the ends, and a trimmed key is a relative path.      *)
LEMMA TrimKept ==
    ASSUME NEW key \in Seq(Piece)
    PROVE  /\ Trim(key) \in Seq(Piece) /\ ~ Rooted(Trim(key))
           /\ Kept(Trim(key)) = Kept(key)
<1> DEFINE solid == {i \in 1..Len(key) : key[i] # Empty}
<1>1. Len(key) \in Nat
  BY LenProperties
<1>2. CASE solid = {}
  <2>1. Trim(key) = <<Empty>>
    BY <1>2 DEF Trim
  <2>2. <<Empty>> \in Seq(Piece) /\ Len(<<Empty>>) = 1 /\ <<Empty>>[1] = Empty
    BY PiecesApart
  <2>3. \A i \in 1..Len(key) : key[i] = Empty
    BY <1>2
  <2>4. Kept(key) = <<>>
    BY <2>3, EmptiesVanish
  <2>5. \A i \in 1..Len(<<Empty>>) : <<Empty>>[i] = Empty
    BY <2>2
  <2>6. Kept(<<Empty>>) = <<>>
    BY <2>2, <2>5, EmptiesVanish
  <2> QED BY <2>1, <2>2, <2>4, <2>6 DEF Rooted
<1>3. CASE solid # {}
  <2> DEFINE m == Min(solid)
             n == Max(solid)
             left == SubSeq(key, 1, m - 1)
             mid == SubSeq(key, m, n)
             right == SubSeq(key, n + 1, Len(key))
  <2>1. solid \in SUBSET Nat /\ solid \in SUBSET (0..Len(key))
    BY <1>1
  <2>2. m \in solid /\ \A i \in solid : m <= i
    <3>1. \E i \in solid : \A j \in solid : i <= j
      BY <1>3, <2>1, HasLeast
    <3> QED BY <3>1 DEF Min
  <2>3. n \in solid /\ \A i \in solid : n >= i
    <3>1. \E i \in solid : \A j \in solid : i >= j
      BY <1>1, <1>3, <2>1, HasGreatest
    <3> QED BY <3>1 DEF Max
  <2>4. Trim(key) = mid
    BY <1>3 DEF Trim
  <2>5. /\ m \in 1..Len(key) /\ n \in 1..Len(key) /\ m <= n /\ key[m] # Empty
        /\ \A i \in 1..Len(key) : (i < m \/ n < i) => key[i] = Empty
    <3>1. m \in 1..Len(key) /\ n \in 1..Len(key) /\ key[m] # Empty
      BY <2>2, <2>3
    <3>2. m <= n
      BY <2>2, <2>3
    <3>3. ASSUME NEW i \in 1..Len(key), i < m \/ n < i PROVE key[i] = Empty
      <4>1. i \in solid => m <= i /\ n >= i
        BY <2>2, <2>3
      <4> HIDE DEF m, n
      <4>2. ~(m <= i /\ n >= i)
        BY <1>1, <3>1, <3>3
      <4> QED BY <4>1, <4>2
    <3> QED BY <3>1, <3>2, <3>3
  <2> HIDE DEF m, n, solid
  <2>6. m - 1 \in Nat /\ n + 1 \in Nat \ {0} /\ m \in Nat \ {0} /\ n \in Nat
        /\ m - 1 <= Len(key) /\ n <= Len(key)
    BY <1>1, <2>5
  <2>7. /\ left \in Seq(Piece)
        /\ Len(left) = IF 1 <= m - 1 THEN (m - 1) - 1 + 1 ELSE 0
        /\ \A i \in 1..((m - 1) - 1 + 1) : left[i] = key[1 + i - 1]
    BY <2>6, PartOfKey
  <2>8. /\ mid \in Seq(Piece)
        /\ Len(mid) = IF m <= n THEN n - m + 1 ELSE 0
        /\ \A i \in 1..(n - m + 1) : mid[i] = key[m + i - 1]
    BY <2>6, PartOfKey
  <2>9. /\ right \in Seq(Piece)
        /\ Len(right) = IF n + 1 <= Len(key) THEN Len(key) - (n + 1) + 1 ELSE 0
        /\ \A i \in 1..(Len(key) - (n + 1) + 1) : right[i] = key[(n + 1) + i - 1]
    BY <1>1, <2>6, PartOfKey
  <2>10. \A i \in 1..Len(left) : left[i] = Empty
    <3> TAKE i \in 1..Len(left)
    <3>1. i \in 1..((m - 1) - 1 + 1) /\ 1 + i - 1 = i /\ i \in 1..Len(key) /\ i < m
      BY <1>1, <2>5, <2>6, <2>7
    <3> QED BY <2>5, <2>7, <3>1
  <2>11. \A i \in 1..Len(right) : right[i] = Empty
    <3> TAKE i \in 1..Len(right)
    <3>1. /\ i \in 1..(Len(key) - (n + 1) + 1) /\ (n + 1) + i - 1 \in 1..Len(key)
          /\ n < (n + 1) + i - 1
      BY <1>1, <2>5, <2>6, <2>9
    <3> QED BY <2>5, <2>9, <3>1
  <2>12. mid[1] = key[m]
    BY <2>5, <2>6, <2>8
  <2>13. key = (left \o mid) \o right
    <3>1. left \o mid = SubSeq(key, 1, n)
      <4>1. 1 \in 1..(Len(key) + 1) /\ m - 1 \in (1 - 1)..Len(key) /\ n \in (m - 1)..Len(key)
        BY <1>1, <2>5, <2>6
      <4>2. SubSeq(key, 1, m - 1) \o SubSeq(key, (m - 1) + 1, n) = SubSeq(key, 1, n)
        BY <4>1, ConcatAdjacentSubSeq
      <4>3. (m - 1) + 1 = m
        BY <2>6
      <4> QED BY <4>2, <4>3
    <3>2. 1 \in 1..(Len(key) + 1) /\ n \in (1 - 1)..Len(key) /\ Len(key) \in n..Len(key)
      BY <1>1, <2>5, <2>6
    <3>3. SubSeq(key, 1, n) \o right = SubSeq(key, 1, Len(key))
      BY <3>2, ConcatAdjacentSubSeq
    <3>4. SubSeq(key, 1, Len(key)) = key
      BY SubSeqFull
    <3> QED BY <3>1, <3>3, <3>4
  <2> HIDE DEF left, mid, right
  <2>14. Kept(left) = <<>>
    BY <2>7, <2>10, EmptiesVanish
  <2>15. Kept(right) = <<>> /\ ~ Escapes(right)
    BY <2>9, <2>11, EmptiesVanish
  <2>16. Kept(left \o mid) = Kept(mid) /\ left \o mid \in Seq(Piece)
    BY <2>7, <2>8, <2>14, KeptAfterNothing, ConcatProperties
  <2>17. Kept((left \o mid) \o right) = Kept(left \o mid) \o Kept(right)
    BY <2>9, <2>15, <2>16, KeptConcat
  <2>18. Kept(mid) \in Seq(Piece)
    BY <2>8, CleanPiecesType DEF Kept
  <2>19. Kept(key) = Kept(mid)
    BY <2>13, <2>15, <2>16, <2>17, <2>18, ConcatEmptySeq
  <2>20. ~ Rooted(mid)
    BY <2>5, <2>12 DEF Rooted
  <2> QED BY <2>4, <2>8, <2>19, <2>20
<1> QED BY <1>2, <1>3

----------------------------------------------------------------------------
(* CleanKey.                                                               *)

(* What CleanKey returns, other than an error.                             *)
CleanKeys == {k \in Seq(Segment) : k # <<>> => k[1] \in Name}

LEMMA CleanKeyIs ==
    ASSUME NEW key \in Seq(Piece)
    PROVE  CleanKey(key) = IF Traverses(Kept(key)) THEN ErrInvalidKey ELSE Kept(key)
<1>1. Rooted(Trim(key)) = FALSE
  BY TrimKept DEF Rooted
<1>2. Clean(Trim(key)) = Kept(Trim(key))
  BY <1>1 DEF Clean, Kept
<1> QED BY <1>2, TrimKept DEF CleanKey

LEMMA TraversesNames ==
    ASSUME NEW s \in Seq(Segment)
    PROVE  Traverses(s) <=> s # <<>> /\ s[1] \in UpName
<1>1. \A i \in 1..Len(s) : s[i] # Up
  BY ElementOfSeq, PiecesApart
<1>2. \A i \in 2..Len(s) : s[i] # Up
  BY <1>1
<1>3. s # <<>> => Head(s) = s[1] /\ s[1] # Up
  <2> SUFFICES ASSUME s # <<>> PROVE Head(s) = s[1] /\ s[1] # Up
    OBVIOUS
  <2>1. 1 \in 1..Len(s)
    BY EmptySeq
  <2> QED BY <1>1, <2>1
<1> QED BY <1>2, <1>3 DEF Traverses

LEMMA EscapedTraverses ==
    ASSUME NEW s \in Seq(Piece), Escapes(s)
    PROVE  Traverses(Kept(s))
<1>1. Kept(s) # <<>> /\ Kept(s)[1] = Up
  BY PlaceKept DEF KeptIsPlace
<1> QED BY <1>1 DEF Traverses

LEMMA CleanKeyInside ==
    ASSUME NEW key \in Seq(Piece), ~ Escapes(key)
    PROVE  CleanKey(key) = IF Kept(key) # <<>> /\ Kept(key)[1] \in UpName
                           THEN ErrInvalidKey ELSE Kept(key)
BY CleanKeyIs, KeptSurvivors, TraversesNames

LEMMA CleanKeyAccepts ==
    ASSUME NEW key \in Seq(Piece), CleanKey(key) # ErrInvalidKey
    PROVE  CleanKey(key) = Kept(key) /\ ~ Escapes(key) /\ CleanKey(key) \in CleanKeys
<1>1. ~ Traverses(Kept(key)) /\ CleanKey(key) = Kept(key)
  BY CleanKeyIs
<1>2. ~ Escapes(key)
  BY <1>1, EscapedTraverses
<1>3. Kept(key) \in Seq(Segment)
  BY <1>2, KeptSurvivors
<1>4. Kept(key) # <<>> => Kept(key)[1] \in Name
  <2> SUFFICES ASSUME Kept(key) # <<>> PROVE Kept(key)[1] \in Name
    OBVIOUS
  <2>1. Kept(key)[1] \notin UpName
    BY <1>1, <1>3, TraversesNames
  <2>2. 1 \in 1..Len(Kept(key))
    BY <1>3, EmptySeq
  <2>3. Kept(key)[1] \in Segment
    BY <1>3, <2>2, ElementOfSeq
  <2> QED BY <2>1, <2>3 DEF Segment
<1> QED BY <1>1, <1>2, <1>3, <1>4 DEF CleanKeys

LEMMA CleanKeyOfNames ==
    ASSUME NEW s \in Seq(Segment)
    PROVE  /\ CleanKey(s) = IF s # <<>> /\ s[1] \in UpName THEN ErrInvalidKey ELSE s
           /\ s \in Seq(Piece) /\ s # ErrInvalidKey
<1>1. s \in Seq(Piece) /\ Kept(s) = s
  BY NamesKept
<1>2. CleanKey(s) = IF Traverses(s) THEN ErrInvalidKey ELSE s
  BY <1>1, CleanKeyIs
<1> QED BY <1>1, <1>2, TraversesNames, ErrIsNoKey

(* A clean key is cleaned to itself.                                       *)
LEMMA CleanKeyAgain ==
    ASSUME NEW k \in CleanKeys
    PROVE  CleanKey(k) = k /\ k # ErrInvalidKey /\ k \in Seq(Piece) /\ k \in Seq(Segment)
<1>1. k \in Seq(Segment) /\ ~(k # <<>> /\ k[1] \in UpName)
  BY PiecesApart DEF CleanKeys
<1> QED BY <1>1, CleanKeyOfNames

LEMMA CleanKeysJoin ==
    ASSUME NEW k \in CleanKeys, NEW l \in CleanKeys
    PROVE  k \o l \in CleanKeys
<1>1. k \in Seq(Segment) /\ l \in Seq(Segment)
  BY DEF CleanKeys
<1>2. /\ k \o l \in Seq(Segment) /\ Len(k \o l) = Len(k) + Len(l)
      /\ \A i \in 1..(Len(k) + Len(l)) : (k \o l)[i] = IF i <= Len(k) THEN k[i] ELSE l[i - Len(k)]
  BY <1>1, ConcatProperties
<1>3. CASE k = <<>>
  BY <1>1, <1>3, ConcatEmptySeq
<1>4. CASE k # <<>>
  <2>1. Len(k) \in Nat \ {0} /\ Len(l) \in Nat
    BY <1>1, <1>4, EmptySeq, LenProperties
  <2>2. (k \o l)[1] = k[1]
    BY <1>2, <2>1
  <2> QED BY <1>2, <1>4, <2>2 DEF CleanKeys
<1> QED BY <1>3, <1>4

RawType == raw \in Seq(Piece)

LEMMA RawIsKey == Spec => []RawType
<1>1. Init => RawType
  <2>1. \A piece \in Piece : <<piece>> \in Seq(Piece)
    OBVIOUS
  <2> QED BY <2>1 DEF Init, RawType
<1>2. RawType /\ [Next]_raw => RawType'
  <2> SUFFICES ASSUME RawType, [Next]_raw PROVE RawType'
    OBVIOUS
  <2>1. CASE Next
    BY <2>1, AppendProperties DEF Next, Extend, RawType
  <2>2. CASE UNCHANGED raw
    BY <2>2 DEF RawType
  <2> QED BY <2>1, <2>2
<1> QED BY <1>1, <1>2, PTL DEF Spec

(* CleanKey rejects a key when a prefix of it climbs above the root, or    *)
(* when its place is below a top-level name with leading dots, and never   *)
(* else: for keys of any length (key.go:11-27).                            *)
THEOREM CleanKeyRejects == Spec => []RejectsExactlyEscapes
<1>1. ASSUME RawType PROVE RejectsExactlyEscapes
  <2>0. raw \in Seq(Piece)
    BY <1>1 DEF RawType
  <2>1. CASE Escapes(raw)
    BY <2>0, <2>1, EscapedTraverses, CleanKeyIs DEF RejectsExactlyEscapes
  <2>2. CASE ~ Escapes(raw)
    <3>1. Kept(raw) = Survivors(raw) /\ Kept(raw) \in Seq(Segment)
      BY <2>0, <2>2, KeptSurvivors
    <3>2. CleanKey(raw) = IF Traverses(Kept(raw)) THEN ErrInvalidKey ELSE Kept(raw)
      BY <2>0, CleanKeyIs
    <3>3. Kept(raw) # ErrInvalidKey
      BY <3>1, CleanKeyOfNames
    <3>4. Traverses(Kept(raw)) <=> Kept(raw) # <<>> /\ Kept(raw)[1] \in UpName
      BY <3>1, TraversesNames
    <3>5. Kept(raw) # <<>> => Head(Kept(raw)) = Kept(raw)[1]
      BY <3>1
    <3> QED BY <2>2, <3>1, <3>2, <3>3, <3>4, <3>5 DEF RejectsExactlyEscapes
  <2> QED BY <2>1, <2>2
<1> QED BY <1>1, RawIsKey, PTL

(* What it accepts names the place a walk of the path would reach.         *)
THEOREM CleanKeyNamesPlace == Spec => []NamesWalkedPlace
<1>1. ASSUME RawType PROVE NamesWalkedPlace
  BY <1>1, CleanKeyAccepts, KeptSurvivors DEF NamesWalkedPlace, RawType
<1> QED BY <1>1, RawIsKey, PTL

(* Cleaning commutes with the cuts of the mount table and the joins of     *)
(* Walk and Unpack.                                                        *)
THEOREM CleanKeyCommutes == Spec => []CutsAndJoinsCommute
<1>1. ASSUME RawType PROVE CutsAndJoinsCommute
  <2>0. raw \in Seq(Piece)
    BY <1>1 DEF RawType
  <2> DEFINE key == CleanKey(raw)
  <2>1. ASSUME key # ErrInvalidKey, NEW n \in 0..Len(key)
        PROVE  LET tail == SubSeq(key, n + 1, Len(key))
               IN  CleanKey(tail) = IF tail # <<>> /\ Head(tail) \in UpName
                                    THEN ErrInvalidKey ELSE tail
    <3> DEFINE tail == SubSeq(key, n + 1, Len(key))
    <3>1. key \in Seq(Segment)
      BY <2>0, <2>1, CleanKeyAccepts DEF CleanKeys
    <3>2. Len(key) \in Nat
      BY <3>1, LenProperties
    <3>3. n + 1 \in Nat \ {0} /\ Len(key) <= Len(key)
      BY <3>2
    <3> HIDE DEF key
    <3>4. tail \in Seq(Segment)
      BY <3>1, <3>2, <3>3, PartOfKey
    <3> HIDE DEF tail
    <3>5. tail # <<>> => Head(tail) = tail[1]
      BY <3>4
    <3>6. CleanKey(tail) = IF tail # <<>> /\ Head(tail) \in UpName THEN ErrInvalidKey ELSE tail
      BY <3>4, <3>5, CleanKeyOfNames
    <3> QED BY <3>6 DEF tail, key
  <2>2. ASSUME NEW n \in 1..(Len(raw) - 1),
               CleanKey(SubSeq(raw, 1, n)) # ErrInvalidKey,
               CleanKey(SubSeq(raw, n + 1, Len(raw))) # ErrInvalidKey
        PROVE  LET left  == CleanKey(SubSeq(raw, 1, n))
                   right == CleanKey(SubSeq(raw, n + 1, Len(raw)))
               IN  CleanKey(left \o right) = left \o right /\ key = left \o right
    <3> DEFINE s == SubSeq(raw, 1, n)
               t == SubSeq(raw, n + 1, Len(raw))
    <3>1. Len(raw) \in Nat /\ n \in Nat /\ n <= Len(raw) /\ n + 1 \in Nat \ {0}
      BY <2>0, LenProperties
    <3>2. s \in Seq(Piece) /\ t \in Seq(Piece)
      BY <2>0, <3>1, PartOfKey
    <3>3. s \o t = raw
      <4>1. 1 \in 1..(Len(raw) + 1) /\ n \in (1 - 1)..Len(raw) /\ Len(raw) \in n..Len(raw)
        BY <3>1
      <4>2. SubSeq(raw, 1, n) \o SubSeq(raw, n + 1, Len(raw)) = SubSeq(raw, 1, Len(raw))
        BY <2>0, <4>1, ConcatAdjacentSubSeq
      <4> QED BY <2>0, <4>2, SubSeqFull
    <3>4. CleanKey(s) # ErrInvalidKey /\ CleanKey(t) # ErrInvalidKey
      BY <2>2
    <3> HIDE DEF s, t
    <3>5. CleanKey(s) = Kept(s) /\ CleanKey(s) \in CleanKeys
      BY <3>2, <3>4, CleanKeyAccepts
    <3>6. CleanKey(t) = Kept(t) /\ CleanKey(t) \in CleanKeys /\ ~ Escapes(t)
      BY <3>2, <3>4, CleanKeyAccepts
    <3>7. Kept(raw) = CleanKey(s) \o CleanKey(t)
      BY <3>2, <3>3, <3>5, <3>6, KeptConcat
    <3>8. CleanKey(s) \o CleanKey(t) \in CleanKeys
      BY <3>5, <3>6, CleanKeysJoin
    <3>9. CleanKey(CleanKey(s) \o CleanKey(t)) = CleanKey(s) \o CleanKey(t)
      BY <3>8, CleanKeyAgain
    <3>10. CleanKey(raw) = CleanKey(s) \o CleanKey(t)
      <4>1. Kept(raw) \in Seq(Segment) /\ ~(Kept(raw) # <<>> /\ Kept(raw)[1] \in UpName)
        BY <3>7, <3>8, PiecesApart DEF CleanKeys
      <4>2. ~ Traverses(Kept(raw))
        BY <4>1, TraversesNames
      <4> QED BY <2>0, <3>7, <4>2, CleanKeyIs
    <3> QED BY <3>9, <3>10 DEF s, t
  <2> HIDE DEF key
  <2>3. \A n \in 0..Len(key) : key # ErrInvalidKey =>
           LET tail == SubSeq(key, n + 1, Len(key))
           IN  CleanKey(tail) = IF tail # <<>> /\ Head(tail) \in UpName
                                THEN ErrInvalidKey ELSE tail
    BY <2>1
  <2> QED BY <2>2, <2>3 DEF CutsAndJoinsCommute, key
<1> QED BY <1>1, RawIsKey, PTL

----------------------------------------------------------------------------
(* Schema: routing by extension is injective.                              *)

(* The route of the first hit, when there is one, is a route.              *)
LEMMA FirstHit ==
    ASSUME NEW k \in PlainKey, Hits(k) # {}
    PROVE  Resolve(k) = Routes[CHOOSE i \in Hits(k) : \A j \in Hits(k) : i <= j].prefix \o k
BY DEF Resolve

LEMMA RoutePrefix ==
    ASSUME NEW i \in 1..Len(Routes)
    PROVE  Routes[i].prefix \in Seq(Segment)
<1>1. Routes[i] \in [prefix : Seq(Segment), match : SUBSET Segment]
  BY RoutesAssumption, ElementOfSeq
<1> QED BY <1>1

(* The last segment alone decides which routes match.                      *)
LEMMA HitsByLast ==
    ASSUME NEW k, NEW l, k[Len(k)] = l[Len(l)]
    PROVE  Hits(k) = Hits(l)
BY DEF Hits, Matches

(* The first of the routes that match is one of them: natural numbers have *)
(* a least element.                                                        *)
LEMMA HitsHaveLeast ==
    ASSUME NEW k, Hits(k) # {}
    PROVE  (CHOOSE i \in Hits(k) : \A j \in Hits(k) : i <= j) \in 1..Len(Routes)
<1>1. Len(Routes) \in Nat
  BY RoutesAssumption, LenProperties
<1>2. \E i \in Hits(k) : \A j \in Hits(k) : i <= j
  <2>1. Hits(k) \in SUBSET Nat
    BY <1>1 DEF Hits
  <2> QED BY <2>1, HasLeast
<1> QED BY <1>1, <1>2 DEF Hits

(* What a key is sent to ends as the key does.                             *)
LEMMA PrefixKeepsLast ==
    ASSUME NEW p \in Seq(Segment), NEW k \in PlainKey
    PROVE  (p \o k)[Len(p \o k)] = k[Len(k)]
<1>1. k \in Seq(Segment) /\ Len(k) \in Nat \ {0} /\ Len(p) \in Nat
  BY LenProperties, EmptySeq DEF PlainKey
<1>2. Len(p \o k) = Len(p) + Len(k)
  BY <1>1, ConcatProperties
<1> QED BY <1>1, <1>2, ConcatProperties

LEMMA ResolveKeepsLast ==
    ASSUME NEW k \in PlainKey
    PROVE  Resolve(k)[Len(Resolve(k))] = k[Len(k)]
<1>1. CASE Hits(k) = {}
  BY <1>1 DEF Resolve
<1>2. CASE Hits(k) # {}
  <2> DEFINE i == CHOOSE i \in Hits(k) : \A j \in Hits(k) : i <= j
  <2>1. i \in 1..Len(Routes)
    BY <1>2, HitsHaveLeast
  <2>2. Routes[i].prefix \in Seq(Segment)
    BY <2>1, RoutePrefix
  <2>3. Resolve(k) = Routes[i].prefix \o k
    BY <1>2, FirstHit
  <2> HIDE DEF i
  <2> QED BY <2>2, <2>3, PrefixKeepsLast
<1> QED BY <1>1, <1>2

(* A schema never sends two keys to one place (schema.go:67-74): as the    *)
(* last segment survives, both were sent by the same route.                *)
THEOREM SchemaKeepsApart ==
    ASSUME NEW k \in PlainKey, NEW l \in PlainKey
    PROVE  KeepApart(k, l)
<1> SUFFICES ASSUME Resolve(k) = Resolve(l) PROVE k = l
  BY DEF KeepApart
<1>1. k[Len(k)] = l[Len(l)]
  BY ResolveKeepsLast
<1>2. Hits(k) = Hits(l)
  BY <1>1, HitsByLast
<1>3. CASE Hits(k) = {}
  BY <1>2, <1>3 DEF Resolve
<1>4. CASE Hits(k) # {}
  <2> DEFINE i == CHOOSE i \in Hits(k) : \A j \in Hits(k) : i <= j
             p == Routes[i].prefix
  <2>1. Resolve(k) = p \o k /\ Resolve(l) = p \o l
    BY <1>2, <1>4, FirstHit
  <2>2. i \in 1..Len(Routes)
    BY <1>4, HitsHaveLeast
  <2>3. p \in Seq(Segment)
    BY <2>2, RoutePrefix
  <2>4. k \in Seq(Segment) /\ l \in Seq(Segment)
    BY DEF PlainKey
  <2> HIDE DEF i, p
  <2> QED BY <2>1, <2>3, <2>4, ConcatSimplifications
<1> QED BY <1>3, <1>4

----------------------------------------------------------------------------
(* Archives of any number of entries, with any names.                      *)

LEMMA MaxIs ==
    ASSUME NEW n \in Nat, NEW T \in SUBSET (1..n), T # {}
    PROVE  Max(T) \in T /\ \A i \in T : i <= Max(T)
<1>1. T \in SUBSET (0..n)
  OBVIOUS
<1>2. \E m \in T : \A i \in T : m >= i
  BY <1>1, HasGreatest
<1>3. Max(T) \in T /\ \A i \in T : Max(T) >= i
  BY <1>2 DEF Max
<1>4. \A i \in T : i \in Int
  OBVIOUS
<1> QED BY <1>3, <1>4

LEMMA NameIsKey ==
    ASSUME NEW archive \in Seq(Seq(Piece)), NEW i \in DOMAIN archive
    PROVE  /\ i \in 1..Len(archive) /\ Len(archive) \in Nat /\ archive[i] \in Seq(Piece)
           /\ Keyed(archive[i]) => CleanKey(archive[i]) \in CleanKeys \ {<<>>}
<1>1. i \in 1..Len(archive) /\ Len(archive) \in Nat
  BY LenProperties
<1>2. archive[i] \in Seq(Piece)
  BY <1>1, ElementOfSeq
<1>3. Keyed(archive[i]) => CleanKey(archive[i]) # ErrInvalidKey /\ CleanKey(archive[i]) # <<>>
  BY DEF Keyed
<1> QED BY <1>1, <1>2, <1>3, CleanKeyAccepts

Entries(archive) == {i \in DOMAIN archive : Keyed(archive[i])}

Files(archive) == {i \in DOMAIN archive : ~ IsDir(archive[i]) /\ Keyed(archive[i])}

(* The last of the entries T with the key k.                               *)
IsLastOf(T, archive, k, i) ==
    /\ i \in T /\ CleanKey(archive[i]) = k
    /\ \A j \in T : CleanKey(archive[j]) = k => j <= i

LEMMA LastIs ==
    ASSUME NEW archive \in Seq(Seq(Piece)), NEW T \in SUBSET Entries(archive),
           NEW k \in {CleanKey(archive[i]) : i \in T}
    PROVE  IsLastOf(T, archive, k, Max({i \in T : CleanKey(archive[i]) = k}))
<1> DEFINE U == {i \in T : CleanKey(archive[i]) = k}
<1>1. Len(archive) \in Nat /\ DOMAIN archive = 1..Len(archive)
  BY LenProperties
<1>2. U \in SUBSET (1..Len(archive)) /\ U # {}
  BY <1>1 DEF Entries
<1>3. Max(U) \in U /\ \A i \in U : i <= Max(U)
  BY <1>1, <1>2, MaxIs
<1> QED BY <1>3 DEF IsLastOf

LEMMA IndexIs ==
    ASSUME NEW archive \in Seq(Seq(Piece))
    PROVE  LET index == BuildIndex(archive)
           IN  /\ DOMAIN index = {CleanKey(archive[i]) : i \in Entries(archive)}
               /\ \A k \in DOMAIN index :
                     /\ IsLastOf(Entries(archive), archive, k, index[k])
                     /\ k \in CleanKeys \ {<<>>} /\ Get(archive, k) = index[k]
<1> DEFINE index == BuildIndex(archive)
<1>1. DOMAIN index = {CleanKey(archive[i]) : i \in Entries(archive)}
  BY DEF BuildIndex, Entries
<1>2. ASSUME NEW k \in DOMAIN index
      PROVE  /\ IsLastOf(Entries(archive), archive, k, index[k])
             /\ k \in CleanKeys \ {<<>>} /\ Get(archive, k) = index[k]
  <2>1. index[k] = Max({i \in Entries(archive) : CleanKey(archive[i]) = k})
    BY <1>2 DEF BuildIndex, Entries
  <2>2. IsLastOf(Entries(archive), archive, k, index[k])
    BY <1>1, <2>1, LastIs
  <2>3. k \in CleanKeys \ {<<>>}
    <3>1. PICK i \in Entries(archive) : k = CleanKey(archive[i])
      BY <1>1
    <3> QED BY <3>1, NameIsKey DEF Entries
  <2>4. CleanKey(k) = k
    BY <2>3, CleanKeyAgain
  <2>5. Get(archive, k) = index[k]
    BY <2>4 DEF Get
  <2> QED BY <2>2, <2>3, <2>5
<1> HIDE DEF index
<1>3. \A k \in DOMAIN index :
         /\ IsLastOf(Entries(archive), archive, k, index[k])
         /\ k \in CleanKeys \ {<<>>} /\ Get(archive, k) = index[k]
  BY <1>2
<1> QED BY <1>1, <1>3 DEF index

LEMMA UnpackIs ==
    ASSUME NEW archive \in Seq(Seq(Piece))
    PROVE  LET unpacked == Unpack(archive, <<>>)
           IN  /\ DOMAIN unpacked = {CleanKey(archive[i]) : i \in Files(archive)}
               /\ \A k \in DOMAIN unpacked :
                     IsLastOf(Files(archive), archive, k, unpacked[k])
<1> DEFINE unpacked == Unpack(archive, <<>>)
<1>1. \A i \in Files(archive) : <<>> \o CleanKey(archive[i]) = CleanKey(archive[i])
  <2> TAKE i \in Files(archive)
  <2>1. CleanKey(archive[i]) \in Seq(Segment)
    BY NameIsKey DEF Files, CleanKeys
  <2> QED BY <2>1, ConcatEmptySeq
<1>2. unpacked = [k \in {<<>> \o CleanKey(archive[i]) : i \in Files(archive)} |->
                    Max({i \in Files(archive) : <<>> \o CleanKey(archive[i]) = k})]
  BY DEF Unpack, Files
<1>3. {<<>> \o CleanKey(archive[i]) : i \in Files(archive)}
        = {CleanKey(archive[i]) : i \in Files(archive)}
  BY <1>1
<1>4. \A k : {i \in Files(archive) : <<>> \o CleanKey(archive[i]) = k}
               = {i \in Files(archive) : CleanKey(archive[i]) = k}
  BY <1>1
<1> HIDE DEF unpacked
<1>5. DOMAIN unpacked = {CleanKey(archive[i]) : i \in Files(archive)}
  BY <1>2, <1>3
<1>6. ASSUME NEW k \in DOMAIN unpacked
      PROVE  IsLastOf(Files(archive), archive, k, unpacked[k])
  <2>1. unpacked[k] = Max({i \in Files(archive) : <<>> \o CleanKey(archive[i]) = k})
    BY <1>2, <1>6
  <2>2. unpacked[k] = Max({i \in Files(archive) : CleanKey(archive[i]) = k})
    BY <1>4, <2>1
  <2>3. Files(archive) \in SUBSET Entries(archive)
    BY DEF Files, Entries
  <2>4. k \in {CleanKey(archive[i]) : i \in Files(archive)}
    BY <1>5, <1>6
  <2> QED BY <2>2, <2>3, <2>4, LastIs
<1> QED BY <1>5, <1>6 DEF unpacked

(* Reading an archive and unpacking it agree (zipfs.go:173-184,            *)
(* unpack.go:25-54).                                                       *)
THEOREM ArchiveReadsAsUnpacked ==
    ASSUME NEW archive \in Seq(Seq(Piece))
    PROVE  ReadsAsUnpacked(archive)
<1> DEFINE index == BuildIndex(archive)
           unpacked == Unpack(archive, <<>>)
<1>1. /\ DOMAIN index = {CleanKey(archive[i]) : i \in Entries(archive)}
      /\ \A k \in DOMAIN index :
            /\ IsLastOf(Entries(archive), archive, k, index[k]) /\ Get(archive, k) = index[k]
  BY IndexIs
<1>2. /\ DOMAIN unpacked = {CleanKey(archive[i]) : i \in Files(archive)}
      /\ \A k \in DOMAIN unpacked : IsLastOf(Files(archive), archive, k, unpacked[k])
  BY UnpackIs
<1> HIDE DEF index, unpacked
<1>3. \A i \in Files(archive) : i \in Entries(archive) /\ ~ IsDir(archive[i])
  BY DEF Files, Entries
<1>4. \A i \in Entries(archive) : i \in Files(archive) \/ IsDir(archive[i])
  BY DEF Files, Entries
<1>5. DOMAIN unpacked \subseteq DOMAIN index
  BY <1>1, <1>2, <1>3
<1>6. \A i \in Entries(archive) : i \in Int
  <2>1. DOMAIN archive = 1..Len(archive)
    BY LenProperties
  <2> QED BY <2>1 DEF Entries
<1>7. ASSUME NEW k \in DOMAIN index
      PROVE  \/ k \in DOMAIN unpacked /\ unpacked[k] = Get(archive, k)
             \/ IsDir(archive[Get(archive, k)])
                /\ (k \in DOMAIN unpacked => unpacked[k] < Get(archive, k))
  <2> DEFINE i == index[k]
  <2>1. /\ i \in Entries(archive) /\ CleanKey(archive[i]) = k /\ Get(archive, k) = i /\ i \in Int
        /\ \A j \in Entries(archive) : CleanKey(archive[j]) = k => j <= i
    BY <1>1, <1>6 DEF IsLastOf
  <2> HIDE DEF i
  <2>2. k \in DOMAIN unpacked =>
           /\ unpacked[k] \in Files(archive) /\ CleanKey(archive[unpacked[k]]) = k
           /\ \A j \in Files(archive) : CleanKey(archive[j]) = k => j <= unpacked[k]
    BY <1>2 DEF IsLastOf
  <2>3. CASE i \in Files(archive)
    <3>1. k \in DOMAIN unpacked
      BY <1>2, <2>1, <2>3
    <3>2. unpacked[k] <= i /\ i <= unpacked[k] /\ unpacked[k] \in Int
      BY <1>3, <1>6, <2>1, <2>2, <2>3, <3>1
    <3>3. unpacked[k] = i
      BY <2>1, <3>2
    <3> QED BY <2>1, <3>1, <3>3
  <2>4. CASE i \notin Files(archive)
    <3>1. IsDir(archive[i])
      BY <1>4, <2>1, <2>4
    <3>2. ASSUME k \in DOMAIN unpacked PROVE unpacked[k] < i
      <4>1. unpacked[k] <= i /\ unpacked[k] # i /\ unpacked[k] \in Int
        BY <1>3, <1>6, <2>1, <2>2, <2>4, <3>2
      <4> QED BY <2>1, <4>1
    <3> QED BY <2>1, <3>1, <3>2
  <2> QED BY <2>3, <2>4
<1>8. \A k \in DOMAIN index :
         \/ k \in DOMAIN unpacked /\ unpacked[k] = Get(archive, k)
         \/ IsDir(archive[Get(archive, k)])
            /\ (k \in DOMAIN unpacked => unpacked[k] < Get(archive, k))
  BY <1>7
<1> QED BY <1>5, <1>8 DEF ReadsAsUnpacked, index, unpacked

LEMMA ArchivesAre ==
    ASSUME RawType, NEW archive \in Archives
    PROVE  archive \in Seq(Seq(Piece)) /\ Len(archive) = 2
<1>1. PICK n \in 1..(Len(raw) - 1) : archive = <<SubSeq(raw, 1, n), SubSeq(raw, n + 1, Len(raw))>>
  BY DEF Archives
<1>2. raw \in Seq(Piece) /\ Len(raw) \in Nat
  BY LenProperties DEF RawType
<1>3. n \in Nat /\ n <= Len(raw) /\ n + 1 \in Nat \ {0} /\ Len(raw) <= Len(raw)
  BY <1>2
<1>4. SubSeq(raw, 1, n) \in Seq(Piece)
  BY <1>2, <1>3, PartOfKey
<1>5. SubSeq(raw, n + 1, Len(raw)) \in Seq(Piece)
  BY <1>2, <1>3, PartOfKey
<1> DEFINE s == SubSeq(raw, 1, n)
           t == SubSeq(raw, n + 1, Len(raw))
<1>6. s \in Seq(Piece) /\ t \in Seq(Piece) /\ archive = <<s, t>>
  BY <1>1, <1>4, <1>5
<1> HIDE DEF s, t
<1>7. <<s, t>> \in Seq(Seq(Piece)) /\ Len(<<s, t>>) = 2
  BY <1>6
<1> QED BY <1>6, <1>7

(* Over every archive the run builds, in every state.                      *)
THEOREM ReadingMatchesUnpacking == Spec => []ReadsWhatItUnpacks
<1>1. RawType => ReadsWhatItUnpacks
  BY ArchivesAre, ArchiveReadsAsUnpacked DEF ReadsWhatItUnpacks
<1> QED BY <1>1, RawIsKey, PTL

(* The routes of a schema keep apart whatever keys a raw key can be cut    *)
(* into (schema.go:65-74).                                                 *)
THEOREM SchemaSeparates == Spec => []RoutesKeepApart
<1>1. RoutesKeepApart
  BY SchemaKeepsApart DEF RoutesKeepApart
<1> QED BY <1>1, PTL


(* What Pack names an entry is a raw key that is cleaned to the same key,  *)
(* and none of a directory.                                                *)
LEMMA NamedEntry ==
    ASSUME NEW key \in Seq(Piece), CleanKey(key) # ErrInvalidKey,
           NEW name, name = IF CleanKey(key) = <<>> THEN <<Empty>> ELSE CleanKey(key)
    PROVE  name \in Seq(Piece) /\ ~ IsDir(name) /\ CleanKey(name) = CleanKey(key)
<1>1. CleanKey(key) \in CleanKeys
  BY CleanKeyAccepts
<1>2. CASE CleanKey(key) = <<>>
  <2>1. name = <<Empty>> /\ name \in Seq(Piece) /\ Len(name) = 1 /\ name[1] = Empty
    BY <1>2, PiecesApart
  <2>2. Kept(name) = <<>> /\ ~ Escapes(name)
    <3>1. \A i \in 1..Len(name) : name[i] = Empty
      BY <2>1
    <3> QED BY <2>1, <3>1, EmptiesVanish
  <2>3. CleanKey(name) = <<>>
    BY <2>1, <2>2, CleanKeyInside
  <2> QED BY <1>2, <2>1, <2>3 DEF IsDir
<1>3. CASE CleanKey(key) # <<>>
  <2>1. name = CleanKey(key) /\ name \in Seq(Segment) /\ name # <<>>
    BY <1>1, <1>3 DEF CleanKeys
  <2>2. Last(name) \in Segment
    BY <2>1, FrontProperties
  <2>3. CleanKey(name) = name /\ name \in Seq(Piece)
    BY <1>1, <2>1, CleanKeyAgain
  <2> QED BY <2>1, <2>2, <2>3, PiecesApart DEF IsDir
<1> QED BY <1>2, <1>3

LEMMA MinIs ==
    ASSUME NEW T \in SUBSET Nat, T # {}
    PROVE  Min(T) \in T /\ \A i \in T : Min(T) <= i
<1>1. \E m \in T : \A i \in T : m <= i
  BY HasLeast
<1> QED BY <1>1 DEF Min

(* How far Pack comes, and what it leaves.                                 *)
LEMMA PackIs ==
    ASSUME NEW keys \in Seq(Seq(Piece)), NEW cancelled \in SUBSET DOMAIN keys,
           NEW failed \in SUBSET DOMAIN keys
    PROVE  LET p == Pack(keys, cancelled, failed)
           IN  /\ p.whole \in Nat /\ Len(p.archive) \in Nat
               /\ p.whole <= Len(p.archive) /\ Len(p.archive) <= p.whole + 1
               /\ Len(p.archive) <= Len(keys)
               /\ ~ p.err => Len(p.archive) = p.whole
               /\ p.archive \in Seq(Seq(Piece))
               /\ \A i \in 1..Len(p.archive) :
                     /\ CleanKey(keys[i]) # ErrInvalidKey
                     /\ ~ IsDir(p.archive[i]) /\ CleanKey(p.archive[i]) = CleanKey(keys[i])
<1> DEFINE named(key) == IF CleanKey(key) = <<>> THEN <<Empty>> ELSE CleanKey(key)
           early == {i \in DOMAIN keys : i \in cancelled \/ CleanKey(keys[i]) = ErrInvalidKey}
           stops == early \cup failed
           whole == IF stops = {} THEN Len(keys) ELSE Min(stops) - 1
           made  == IF whole + 1 \in failed \ early THEN whole + 1 ELSE whole
           archive == [i \in 1..made |-> named(keys[i])]
           p == Pack(keys, cancelled, failed)
<1>1. p.archive = archive /\ p.whole = whole /\ p.err = (stops # {})
  BY DEF Pack
<1>2. Len(keys) \in Nat /\ DOMAIN keys = 1..Len(keys)
  BY LenProperties
<1>3. stops \in SUBSET (1..Len(keys)) /\ failed \in SUBSET (1..Len(keys))
  BY <1>2
<1>4. whole \in 0..Len(keys) /\ (\A i \in 1..whole : i \notin stops)
  <2>1. CASE stops = {}
    <3> HIDE DEF early, stops
    <3>1. whole = Len(keys)
      BY <2>1
    <3> HIDE DEF whole
    <3> QED BY <1>2, <2>1, <3>1
  <2>2. CASE stops # {}
    <3>1. stops \in SUBSET Nat
      BY <1>3
    <3> HIDE DEF stops
    <3>2. Min(stops) \in stops /\ \A i \in stops : Min(stops) <= i
      BY <2>2, <3>1, MinIs
    <3>3. Min(stops) \in 1..Len(keys)
      BY <1>3, <3>2
    <3>4. whole = Min(stops) - 1
      BY <2>2
    <3>5. \A i \in 1..whole : ~(Min(stops) <= i)
      BY <1>2, <3>3, <3>4
    <3>6. \A i \in 1..whole : i \notin stops
      BY <3>2, <3>5
    <3>7. whole \in 0..Len(keys)
      BY <1>2, <3>3, <3>4
    <3> QED BY <3>6, <3>7
  <2> QED BY <2>1, <2>2
<1>5. \A i \in early : i \in stops
  OBVIOUS
<1>6. stops = {} => whole + 1 \notin failed
  OBVIOUS
<1>7. \A i \in DOMAIN keys : i \notin early => CleanKey(keys[i]) # ErrInvalidKey
  OBVIOUS
<1> HIDE DEF early, stops, whole
<1>8. made \in Nat /\ whole <= made /\ made <= whole + 1 /\ made <= Len(keys)
      /\ (stops = {} => made = whole)
  BY <1>2, <1>3, <1>4, <1>6
<1>9. \A i \in 1..made : i \in 1..whole \/ (i = whole + 1 /\ i \notin early)
  BY <1>4, <1>8
<1>10. ASSUME NEW i \in 1..made
       PROVE  /\ i \in DOMAIN keys /\ keys[i] \in Seq(Piece)
              /\ CleanKey(keys[i]) # ErrInvalidKey
              /\ named(keys[i]) \in Seq(Piece) /\ ~ IsDir(named(keys[i]))
              /\ CleanKey(named(keys[i])) = CleanKey(keys[i])
  <2>1. i \in 1..Len(keys) /\ i \in DOMAIN keys
    BY <1>2, <1>8
  <2>2. i \notin early
    BY <1>4, <1>5, <1>9
  <2>3. keys[i] \in Seq(Piece) /\ CleanKey(keys[i]) # ErrInvalidKey
    BY <1>7, <2>1, <2>2, ElementOfSeq
  <2>4. /\ named(keys[i]) \in Seq(Piece) /\ ~ IsDir(named(keys[i]))
        /\ CleanKey(named(keys[i])) = CleanKey(keys[i])
    BY <2>3, NamedEntry
  <2> QED BY <2>1, <2>3, <2>4
<1> HIDE DEF made
<1>11. archive \in [1..made -> Seq(Piece)]
  BY <1>10
<1>12. archive \in Seq(Seq(Piece)) /\ Len(archive) = made
  <2>1. archive \in Seq(Seq(Piece))
    BY <1>8, <1>11, SeqDef
  <2>2. DOMAIN archive = 1..Len(archive) /\ Len(archive) \in Nat /\ DOMAIN archive = 1..made
    BY <1>11, <2>1, LenProperties
  <2> QED BY <1>8, <2>1, <2>2
<1>13. \A i \in 1..made : archive[i] = named(keys[i])
  OBVIOUS
<1>14. \A i \in 1..made :
          /\ CleanKey(keys[i]) # ErrInvalidKey
          /\ ~ IsDir(archive[i]) /\ CleanKey(archive[i]) = CleanKey(keys[i])
  BY <1>10
<1> HIDE DEF archive, p, named
<1>15. whole \in Nat
  BY <1>2, <1>4
<1> QED BY <1>1, <1>8, <1>12, <1>14, <1>15 DEF p

(* What Pack made can be read and unpacked under the keys it was given,    *)
(* whether it ended or stopped half-way (pack.go:14-60).                   *)
THEOREM ArchiveUnpacksAsPacked ==
    ASSUME NEW keys \in Seq(Seq(Piece)), NEW cancelled \in SUBSET DOMAIN keys,
           NEW failed \in SUBSET DOMAIN keys
    PROVE  UnpacksAsPacked(keys, cancelled, failed)
<1> DEFINE p == Pack(keys, cancelled, failed)
           unpacked == Unpack(p.archive, <<>>)
           index == BuildIndex(p.archive)
<1>1. /\ p.whole \in Nat /\ Len(p.archive) \in Nat
      /\ p.whole <= Len(p.archive) /\ Len(p.archive) <= p.whole + 1
      /\ ~ p.err => Len(p.archive) = p.whole
      /\ p.archive \in Seq(Seq(Piece))
      /\ \A i \in 1..Len(p.archive) :
            /\ CleanKey(keys[i]) # ErrInvalidKey
            /\ ~ IsDir(p.archive[i]) /\ CleanKey(p.archive[i]) = CleanKey(keys[i])
  BY PackIs
<1> HIDE DEF p
<1>2. DOMAIN p.archive = 1..Len(p.archive)
  BY <1>1, LenProperties
<1>3. Files(p.archive) = {i \in 1..Len(p.archive) : CleanKey(keys[i]) # <<>>}
      /\ Entries(p.archive) = Files(p.archive)
  BY <1>1, <1>2 DEF Files, Entries, Keyed
<1>4. /\ DOMAIN unpacked = {CleanKey(p.archive[i]) : i \in Files(p.archive)}
      /\ \A k \in DOMAIN unpacked : IsLastOf(Files(p.archive), p.archive, k, unpacked[k])
  BY <1>1, UnpackIs
<1>5. /\ DOMAIN index = {CleanKey(p.archive[i]) : i \in Entries(p.archive)}
      /\ \A k \in DOMAIN index :
            /\ IsLastOf(Entries(p.archive), p.archive, k, index[k])
            /\ Get(p.archive, k) = index[k]
  BY <1>1, IndexIs
<1> HIDE DEF unpacked, index
<1>6. DOMAIN unpacked = {CleanKey(keys[i]) : i \in Files(p.archive)}
  <2>1. \A i \in Files(p.archive) : CleanKey(p.archive[i]) = CleanKey(keys[i])
    BY <1>1, <1>3
  <2> QED BY <1>4, <2>1
<1>7. {CleanKey(keys[i]) : i \in 1..p.whole} \ {<<>>} \subseteq DOMAIN unpacked
  <2>1. \A i \in 1..p.whole : CleanKey(keys[i]) # <<>> => i \in Files(p.archive)
    BY <1>1, <1>3
  <2> QED BY <1>6, <2>1
<1>8. ASSUME NEW k \in DOMAIN unpacked
      PROVE  /\ CleanKey(keys[unpacked[k]]) = k /\ Get(p.archive, k) = unpacked[k]
             /\ ~ p.err => k \in {CleanKey(keys[i]) : i \in 1..p.whole} \ {<<>>}
             /\ unpacked[k] > p.whole => unpacked[k] = Len(p.archive)
  <2>1. /\ unpacked[k] \in Files(p.archive) /\ CleanKey(p.archive[unpacked[k]]) = k
        /\ \A j \in Files(p.archive) : CleanKey(p.archive[j]) = k => j <= unpacked[k]
    BY <1>4 DEF IsLastOf
  <2>2. unpacked[k] \in 1..Len(p.archive) /\ CleanKey(keys[unpacked[k]]) = k /\ k # <<>>
    BY <1>1, <1>3, <2>1
  <2>3. k \in DOMAIN index
    BY <1>3, <1>4, <1>5
  <2>4. /\ index[k] \in Files(p.archive) /\ CleanKey(p.archive[index[k]]) = k
        /\ \A j \in Files(p.archive) : CleanKey(p.archive[j]) = k => j <= index[k]
        /\ Get(p.archive, k) = index[k]
    BY <1>3, <1>5, <2>3 DEF IsLastOf
  <2>5. index[k] = unpacked[k]
    <3>1. index[k] <= unpacked[k] /\ unpacked[k] <= index[k]
      BY <2>1, <2>4
    <3>2. index[k] \in Int /\ unpacked[k] \in Int
      BY <1>3, <2>2, <2>4
    <3> QED BY <3>1, <3>2
  <2>6. ~ p.err => unpacked[k] \in 1..p.whole
    BY <1>1, <2>2
  <2>7. unpacked[k] > p.whole => unpacked[k] = Len(p.archive)
    BY <1>1, <2>2
  <2> QED BY <2>2, <2>4, <2>5, <2>6, <2>7
<1>9. \A k \in DOMAIN unpacked :
         /\ CleanKey(keys[unpacked[k]]) = k /\ Get(p.archive, k) = unpacked[k]
         /\ ~ p.err => k \in {CleanKey(keys[i]) : i \in 1..p.whole} \ {<<>>}
         /\ unpacked[k] > p.whole => unpacked[k] = Len(p.archive)
  BY <1>8
<1> QED BY <1>7, <1>9 DEF UnpacksAsPacked, unpacked, p

THEOREM PackingIsUndone == Spec => []PackedUnpacks
<1>1. RawType => PackedUnpacks
  <2> SUFFICES ASSUME RawType, NEW keys \in Archives,
                      NEW cancelled \in SUBSET DOMAIN keys, NEW failed \in SUBSET DOMAIN keys
               PROVE  UnpacksAsPacked(keys, cancelled, failed)
    BY DEF PackedUnpacks
  <2>1. keys \in Seq(Seq(Piece))
    BY ArchivesAre
  <2> QED BY <2>1, ArchiveUnpacksAsPacked
<1> QED BY <1>1, RawIsKey, PTL

LEMMA ChildIs ==
    ASSUME NEW A, NEW prefix \in Seq(A), NEW k \in Seq(A), Below(prefix, k)
    PROVE  /\ Child(prefix, k) \in Seq(A) /\ Len(Child(prefix, k)) = Len(prefix) + 1
           /\ IsPrefix(Child(prefix, k), k)
           /\ k # Child(prefix, k) => Below(Child(prefix, k), k)
<1> DEFINE c == Child(prefix, k)
           n == Len(prefix) + 1
<1>1. Len(prefix) \in Nat /\ Len(k) \in Nat /\ Len(prefix) < Len(k)
  BY LenProperties DEF Below
<1>2. n \in Nat /\ n <= Len(k) /\ 1 <= n /\ (n - 1) + 1 = n
  BY <1>1
<1>3. c = SubSeq(k, 1, n)
  BY DEF Child
<1> HIDE DEF n
<1>4. c \in Seq(A) /\ Len(c) = n
  <2>1. /\ SubSeq(k, 1, n) \in Seq(A)
        /\ Len(SubSeq(k, 1, n)) = IF 1 <= n THEN n - 1 + 1 ELSE 0
    BY <1>2, PartOfKey
  <2> QED BY <1>2, <1>3, <2>1
<1> HIDE DEF c
<1>5. SubSeq(c, 1, Len(c)) = c
  BY <1>4, SubSeqFull
<1>6. IsPrefix(c, k)
  BY <1>2, <1>3, <1>4, <1>5 DEF IsPrefix
<1>7. ASSUME k # c PROVE Below(c, k)
  <2>1. Len(k) # n
    <3> SUFFICES ASSUME Len(k) = n PROVE FALSE
      OBVIOUS
    <3>1. SubSeq(k, 1, Len(k)) = k
      BY SubSeqFull
    <3> QED BY <1>3, <1>7, <3>1
  <2>2. Len(k) > Len(c)
    BY <1>1, <1>2, <1>4, <2>1
  <2> QED BY <1>6, <2>2 DEF Below
<1>8. c \in Seq(A) /\ Len(c) = Len(prefix) + 1
  BY <1>4 DEF n
<1> QED BY <1>6, <1>7, <1>8 DEF c

(* List shows a way to each entry, and each child once (zipfs.go:113-140). *)
THEOREM ArchiveListsChildren ==
    ASSUME NEW archive \in Seq(Seq(Piece)), NEW prefix \in Seq(Segment)
    PROVE  ListsChildren(archive, prefix)
<1> DEFINE index == BuildIndex(archive)
           keys == DOMAIN index
           below == {k \in keys : Below(prefix, k)}
           direct == {k \in below : k = Child(prefix, k)}
           dirs == {Child(prefix, k) : k \in below \ direct}
           Entry(k) == [key |-> k, for |-> k, dir |-> IsDir(archive[index[k]])]
           Dir(d) == [key |-> d, for |-> CHOOSE k \in below \ direct : Child(prefix, k) = d,
                      dir |-> TRUE]
           listed == List(archive, prefix)
<1>1. listed = {Entry(k) : k \in direct} \cup {Dir(d) : d \in dirs}
  BY DEF List
<1>2. \A k \in keys : k \in Seq(Segment)
  BY IndexIs DEF CleanKeys
<1> HIDE DEF index, listed
<1>3. ASSUME NEW k \in below
      PROVE  /\ k \in keys /\ Len(Child(prefix, k)) = Len(prefix) + 1
             /\ IsPrefix(Child(prefix, k), k)
             /\ k # Child(prefix, k) => Below(Child(prefix, k), k)
  BY <1>2, ChildIs
<1>4. \A k \in direct : Entry(k) \in listed /\ Entry(k).key = k
  BY <1>1
<1>5. ASSUME NEW d \in dirs PROVE Dir(d) \in listed /\ Dir(d).key = d /\ Dir(d).dir = TRUE
  <2>1. Dir(d) \in listed
    <3> HIDE DEF dirs, Dir
    <3> QED BY <1>1
  <2>2. Dir(d).key = d /\ Dir(d).dir = TRUE
    <3> DEFINE x == CHOOSE k \in below \ direct : Child(prefix, k) = d
    <3>1. Dir(d) = [key |-> d, for |-> x, dir |-> TRUE]
      OBVIOUS
    <3> HIDE DEF x, Dir
    <3> QED BY <3>1
  <2> QED BY <2>1, <2>2
<1>6. \A f \in listed : (\E k \in direct : f = Entry(k)) \/ (\E d \in dirs : f = Dir(d))
  BY <1>1
<1>7. \A k \in below : k \in direct \/ Child(prefix, k) \in dirs
  OBVIOUS
<1>8. \A k \in direct : k \in below /\ k = Child(prefix, k)
  OBVIOUS
<1>9. \A d \in dirs : \E k \in below : d = Child(prefix, k) /\ k # Child(prefix, k)
  OBVIOUS
<1>10. \A f, g \in listed : f.key = g.key /\ f # g =>
          (f.key \in direct /\ g.key \in dirs) \/ (f.key \in dirs /\ g.key \in direct)
  <2> TAKE f, g \in listed
  <2> HAVE f.key = g.key /\ f # g
  <2>1. ~(\E k \in direct : \E l \in direct : f = Entry(k) /\ g = Entry(l))
    <3> SUFFICES ASSUME NEW k \in direct, NEW l \in direct, f = Entry(k), g = Entry(l)
                 PROVE  FALSE
      OBVIOUS
    <3>1. k = l
      BY <1>4
    <3> QED BY <3>1
  <2>2. ~(\E k \in dirs : \E l \in dirs : f = Dir(k) /\ g = Dir(l))
    <3> SUFFICES ASSUME NEW k \in dirs, NEW l \in dirs, f = Dir(k), g = Dir(l)
                 PROVE  FALSE
      OBVIOUS
    <3>1. k = l
      BY <1>5
    <3> QED BY <3>1
  <2>3. \A k \in direct : f = Entry(k) => f.key = k
    BY <1>4
  <2>4. \A k \in direct : g = Entry(k) => g.key = k
    BY <1>4
  <2>5. \A d \in dirs : f = Dir(d) => f.key = d
    BY <1>5
  <2>6. \A d \in dirs : g = Dir(d) => g.key = d
    BY <1>5
  <2> HIDE DEF direct, dirs, Entry, Dir
  <2> QED BY <1>6, <2>1, <2>2, <2>3, <2>4, <2>5, <2>6
<1> HIDE DEF direct, dirs, Entry, Dir
<1>11. ASSUME NEW k \in keys, Below(prefix, k)
       PROVE  \E f \in listed : IsPrefix(f.key, k) /\ Len(f.key) = Len(prefix) + 1
                                /\ (f.key # k => f.dir)
  <2>1. k \in below
    BY <1>11
  <2>2. CASE k \in direct
    <3>1. Entry(k) \in listed /\ Entry(k).key = k /\ k = Child(prefix, k)
      BY <1>4, <1>8, <2>2
    <3> QED BY <1>3, <2>1, <3>1
  <2>3. CASE Child(prefix, k) \in dirs
    <3>1. /\ Dir(Child(prefix, k)) \in listed
          /\ Dir(Child(prefix, k)).key = Child(prefix, k)
          /\ Dir(Child(prefix, k)).dir = TRUE
      BY <1>5, <2>3
    <3> QED BY <1>3, <2>1, <3>1
  <2> QED BY <1>7, <2>1, <2>2, <2>3
<1>12. ASSUME NEW d \in direct, d \in dirs
       PROVE  d \in keys /\ \E k \in keys : Below(d, k)
  <2>1. d \in keys
    BY <1>3, <1>8
  <2>2. PICK k \in below : d = Child(prefix, k) /\ k # Child(prefix, k)
    BY <1>9, <1>12
  <2> QED BY <1>3, <2>1, <2>2
<1>13. ASSUME NEW f \in listed PROVE \E k \in keys : IsPrefix(f.key, k)
  <2>1. CASE \E k \in direct : f = Entry(k)
    <3>1. PICK k \in direct : f = Entry(k)
      BY <2>1
    <3>2. f.key = k /\ k \in below /\ k = Child(prefix, k)
      BY <1>4, <1>8, <3>1
    <3>3. k \in keys /\ IsPrefix(Child(prefix, k), k)
      BY <1>3, <3>2
    <3> QED BY <3>2, <3>3
  <2>2. CASE \E d \in dirs : f = Dir(d)
    <3>1. PICK d \in dirs : f = Dir(d)
      BY <2>2
    <3>2. f.key = d
      BY <1>5, <3>1
    <3>3. PICK k \in below : d = Child(prefix, k)
      BY <1>9
    <3> QED BY <1>3, <3>2, <3>3
  <2> QED BY <1>6, <2>1, <2>2
<1>14. \A f, g \in listed : f.key = g.key /\ f # g =>
          f.key \in keys /\ \E k \in keys : Below(f.key, k)
  BY <1>10, <1>12
<1> HIDE DEF keys, below
<1>15. /\ \A k \in keys : Below(prefix, k) =>
             \E f \in listed : IsPrefix(f.key, k) /\ Len(f.key) = Len(prefix) + 1
                               /\ (f.key # k => f.dir)
       /\ \A f \in listed : \E k \in keys : IsPrefix(f.key, k)
  BY <1>11, <1>13
<1> QED BY <1>14, <1>15 DEF ListsChildren, keys, index, listed

THEOREM ListingIsComplete == Spec => []ListsEachChild
<1>1. RawType => ListsEachChild
  <2> SUFFICES ASSUME RawType, NEW archive \in Archives,
                      NEW k \in DOMAIN BuildIndex(archive), NEW n \in 0..Len(k)
               PROVE  ListsChildren(archive, SubSeq(k, 1, n))
    BY DEF ListsEachChild
  <2>1. archive \in Seq(Seq(Piece))
    BY ArchivesAre
  <2>2. k \in Seq(Segment)
    BY <2>1, IndexIs DEF CleanKeys
  <2>3. n \in Nat /\ n <= Len(k)
    BY <2>2, LenProperties
  <2>4. SubSeq(k, 1, n) \in Seq(Segment)
    BY <2>2, <2>3, PartOfKey
  <2> QED BY <2>1, <2>4, ArchiveListsChildren
<1> QED BY <1>1, RawIsKey, PTL
=============================================================================
