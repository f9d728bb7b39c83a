----------------------------- MODULE WalkProofs ------------------------------
(***************************************************************************)
(* Walk calls its callback once for each entry and never below a skipped   *)
(* directory: theorems of module Walk for every file system that is not a  *)
(* MountTable, every tree, and any number of changes to it meanwhile.      *)
(*                                                                         *)
(* Neither property is inductive.  The invariant says which part of the    *)
(* tree each frame of the recursion is still to visit, that nothing in     *)
(* there has been visited, and that these parts are disjoint.              *)
(***************************************************************************)
EXTENDS Walk, SequenceTheorems, TLAPS

Name  == UNION {Range(k) : k \in Key}
Place == Seq(Name)

AtOrBelow(k, d) == k = d \/ Below(k, d)

----------------------------------------------------------------------------
(* Keys.                                                                   *)

LEMMA PrefixByIndex ==
    ASSUME NEW s \in Place, NEW t \in Place
    PROVE  IsPrefix(s, t) <=> Len(s) <= Len(t) /\ \A i \in 1..Len(s) : s[i] = t[i]
<1>1. Len(s) \in Nat /\ Len(t) \in Nat
  BY LenProperties DEF Place
<1>2. CASE Len(s) <= Len(t)
  <2>1. /\ Len(SubSeq(s, 1, Len(s))) = Len(s)
        /\ Len(SubSeq(t, 1, Len(s))) = Len(s)
        /\ \A i \in 1..Len(s) : /\ SubSeq(s, 1, Len(s))[i] = s[i]
                                /\ SubSeq(t, 1, Len(s))[i] = t[i]
    BY <1>1, <1>2 DEF Place
  <2>2. SubSeq(s, 1, Len(s)) \in Place /\ SubSeq(t, 1, Len(s)) \in Place
    BY <1>1, <1>2 DEF Place
  <2>3. SubSeq(s, 1, Len(s)) = SubSeq(t, 1, Len(s)) <=> \A i \in 1..Len(s) : s[i] = t[i]
    BY <1>1, <2>1, <2>2, SeqEqual DEF Place
  <2> QED BY <1>2, <2>3 DEF IsPrefix
<1>3. CASE ~(Len(s) <= Len(t))
  BY <1>3 DEF IsPrefix
<1> QED BY <1>2, <1>3

LEMMA BelowByIndex ==
    ASSUME NEW k \in Place, NEW d \in Place
    PROVE  Below(k, d) <=> Len(d) < Len(k) /\ \A i \in 1..Len(d) : d[i] = k[i]
<1>1. Len(k) \in Nat /\ Len(d) \in Nat
  BY LenProperties DEF Place
<1>2. Below(k, d) <=> Len(d) <= Len(k) /\ (\A i \in 1..Len(d) : d[i] = k[i]) /\ d # k
  BY PrefixByIndex DEF Below, IsStrictPrefix
<1>3. Len(d) = Len(k) /\ (\A i \in 1..Len(d) : d[i] = k[i]) => d = k
  BY <1>1, SeqEqual DEF Place
<1> QED BY <1>1, <1>2, <1>3

LEMMA BelowIsOrder ==
    ASSUME NEW k \in Place, NEW d \in Place, NEW c \in Place
    PROVE  /\ ~Below(k, k)
           /\ Below(k, d) => ~AtOrBelow(d, k)
           /\ Below(k, d) /\ Below(d, c) => Below(k, c)
<1>1. Len(k) \in Nat /\ Len(d) \in Nat /\ Len(c) \in Nat
  BY LenProperties DEF Place
<1>2. Below(k, d) /\ Below(d, c) => Below(k, c)
  BY <1>1, BelowByIndex
<1> QED BY <1>1, <1>2, BelowByIndex DEF AtOrBelow

(* What lies below a key lies in the directory the key is in.              *)
LEMMA BelowParent ==
    ASSUME NEW k \in Place, k # <<>>
    PROVE  /\ Parent(k) \in Place
           /\ Below(k, Parent(k))
           /\ \A d \in Place : Below(k, d) => AtOrBelow(Parent(k), d)
<1>1. Len(k) \in Nat \ {0}
  BY LenProperties, EmptySeq DEF Place
<1>2. /\ Parent(k) \in Place /\ Len(Parent(k)) = Len(k) - 1
      /\ \A i \in 1..(Len(k) - 1) : Parent(k)[i] = k[i]
  BY <1>1 DEF Parent, Front, Place
<1>3. Below(k, Parent(k))
  BY <1>1, <1>2, BelowByIndex
<1>4. ASSUME NEW d \in Place, Below(k, d) PROVE AtOrBelow(Parent(k), d)
  <2>1. Len(d) \in Nat /\ Len(d) < Len(k) /\ \A i \in 1..Len(d) : d[i] = k[i]
    BY <1>4, BelowByIndex, LenProperties DEF Place
  <2>2. CASE Len(d) = Len(k) - 1
    <3>1. d = Parent(k)
      BY <1>1, <1>2, <2>1, <2>2, SeqEqual DEF Place
    <3> QED BY <3>1 DEF AtOrBelow
  <2>3. CASE Len(d) < Len(k) - 1
    BY <1>1, <1>2, <2>1, <2>3, BelowByIndex DEF AtOrBelow
  <2> QED BY <1>1, <2>1, <2>2, <2>3
<1> QED BY <1>2, <1>3, <1>4

(* Two entries of one directory have nothing in common.                    *)
LEMMA Siblings ==
    ASSUME NEW k \in Place \ {<<>>}, NEW l \in Place \ {<<>>}, Parent(k) = Parent(l)
    PROVE  ~Below(k, l)
<1>1. Below(k, l) => AtOrBelow(Parent(l), l)
  BY BelowParent
<1>2. Parent(l) \in Place /\ Below(l, Parent(l))
  BY BelowParent
<1> QED BY <1>1, <1>2, BelowIsOrder

LEMMA KeysArePlaces == Key \subseteq Place
  BY KeyAssumption DEF Place, Name

----------------------------------------------------------------------------
(* The invariant.                                                          *)

Unvisited(k) == visits[k] = 0
FreshBelow(d) == \A k \in Key : Below(k, d) => Unvisited(k)

Ent   == [key : Key, file : BOOLEAN, place : Key]
Where == {"list", "loop", "checked", "failed"}
Fr    == [prefix : Place, at : Where, todo : SUBSET Ent]

(* An entry of the directory d: for anything but a MountTable its key says *)
(* where it is.                                                            *)
EntryOf(e, d) == e \in Ent /\ e.key = e.place /\ e.place # <<>> /\ Parent(e.place) = d

WalkType == /\ visits \in [Key -> Nat]
            /\ stack \in Seq(Fr)
            /\ stack # <<>> => stack[1].prefix = Prefix
            /\ skipped \subseteq Key

(* What a call of Walk is still to visit has not been visited.             *)
FrameOK(fr) ==
    /\ \A e \in fr.todo :
          EntryOf(e, fr.prefix) /\ Unvisited(e.place) /\ FreshBelow(e.place)
    /\ \A e1, e2 \in fr.todo : e1.place = e2.place => e1 = e2
    /\ fr.at = "list" => FreshBelow(fr.prefix)
    /\ fr.at \in {"list", "failed"} => fr.todo = {}

(* An inner call is below what its callers are at, and in nothing they are *)
(* still to visit.                                                         *)
Inside(outer, inner) ==
    /\ Below(inner.prefix, outer.prefix)
    /\ \A e \in outer.todo : ~AtOrBelow(inner.prefix, e.place)
    /\ outer.at = "loop"

StackOK == /\ \A i \in 1..Len(stack) : FrameOK(stack[i])
           /\ \A i, j \in 1..Len(stack) : i < j => Inside(stack[i], stack[j])

(* The callback is at work on an entry Walk will not come back to.         *)
CallOK ==
    call # NoCall =>
        /\ stack # <<>> /\ Top.at \in {"loop", "failed"}
        /\ Top.at = "loop" =>
              /\ EntryOf(call, Top.prefix)
              /\ visits[call.place] > 0 /\ FreshBelow(call.place)
              /\ call.place \notin skipped
              /\ \A e \in Top.todo : e.place # call.place

(* No call is in a skipped directory or below.                             *)
SkippedOK ==
    \A d \in skipped :
        /\ visits[d] > 0 /\ FreshBelow(d)
        /\ \A i \in 1..Len(stack) : ~AtOrBelow(stack[i].prefix, d)

WalkInv == WalkType /\ StackOK /\ CallOK /\ SkippedOK /\ VisitedOnce

----------------------------------------------------------------------------
(* Stacks.                                                                 *)

LEMMA RemoveTop ==
    ASSUME NEW s \in Seq(Fr), s # <<>>
    PROVE  /\ Front(s) \in Seq(Fr) /\ Len(Front(s)) = Len(s) - 1 /\ Len(s) \in Nat \ {0}
           /\ \A i \in 1..(Len(s) - 1) : Front(s)[i] = s[i]
<1>1. Len(s) \in Nat \ {0}
  BY LenProperties, EmptySeq
<1>2. \A i \in 1..(Len(s) - 1) : s[i] \in Fr
  BY <1>1, ElementOfSeq
<1>3. ASSUME NEW n \in Nat, n = Len(s) - 1
      PROVE  /\ SubSeq(s, 1, n) \in Seq(Fr) /\ Len(SubSeq(s, 1, n)) = n
             /\ \A i \in 1..n : SubSeq(s, 1, n)[i] = s[i]
  <2>1. /\ SubSeq(s, 1, n) \in Seq(Fr)
        /\ Len(SubSeq(s, 1, n)) = IF 1 <= n THEN n - 1 + 1 ELSE 0
        /\ \A i \in 1..(n - 1 + 1) : SubSeq(s, 1, n)[i] = s[1 + i - 1]
    BY <1>2, <1>3, SubSeqProperties
  <2>2. (IF 1 <= n THEN n - 1 + 1 ELSE 0) = n
    OBVIOUS
  <2>3. \A i \in 1..n : i \in 1..(n - 1 + 1) /\ 1 + i - 1 = i
    OBVIOUS
  <2>4. ASSUME NEW i \in 1..n PROVE SubSeq(s, 1, n)[i] = s[i]
    BY <2>1, <2>3
  <2> QED BY <2>1, <2>2, <2>4
<1>4. Len(s) - 1 \in Nat
  BY <1>1
<1> QED BY <1>1, <1>3, <1>4 DEF Front

LEMMA ReplaceTop ==
    ASSUME NEW s \in Seq(Fr), s # <<>>, NEW fr \in Fr
    PROVE  LET t == Append(Front(s), fr)
           IN  /\ t \in Seq(Fr) /\ Len(t) = Len(s) /\ t # <<>>
               /\ \A i \in 1..Len(s) : t[i] = IF i = Len(s) THEN fr ELSE s[i]
<1>1. Len(s) \in Nat \ {0}
  BY LenProperties, EmptySeq
<1>2. /\ Front(s) \in Seq(Fr) /\ Len(Front(s)) = Len(s) - 1
      /\ \A i \in 1..(Len(s) - 1) : Front(s)[i] = s[i]
  BY RemoveTop
<1> QED BY <1>1, <1>2

LEMMA TopIsLast ==
    ASSUME WalkType, stack # <<>>
    PROVE  /\ Len(stack) \in Nat \ {0} /\ Top = stack[Len(stack)]
           /\ Top \in Fr
BY LenProperties, EmptySeq DEF WalkType, Top, Last

----------------------------------------------------------------------------
(* The steps, by what they do to the stack.                                *)

(* A call of Walk returns, or all of them do.                              *)
LEMMA Returning ==
    ASSUME WalkInv, stack # <<>>, stack' = Front(stack) \/ stack' = <<>>, call' = NoCall,
           visits' = visits, skipped' = skipped
    PROVE  WalkInv'
<1>1. /\ stack' \in Seq(Fr) /\ Len(stack') \in Nat /\ Len(stack') <= Len(stack) /\ Len(stack) \in Nat
      /\ \A i \in 1..Len(stack') : stack'[i] = stack[i]
  <2>1. CASE stack' = Front(stack)
    <3>1. stack \in Seq(Fr)
      BY DEF WalkInv, WalkType
    <3>2. /\ stack' \in Seq(Fr) /\ Len(stack') = Len(stack) - 1 /\ Len(stack) \in Nat \ {0}
          /\ \A i \in 1..(Len(stack) - 1) : stack'[i] = stack[i]
      BY <2>1, <3>1, RemoveTop
    <3> QED BY <3>2
  <2>2. CASE stack' = <<>>
    BY <2>2, EmptySeq, LenProperties DEF WalkInv, WalkType
  <2> QED BY <2>1, <2>2
<1>2. WalkType' /\ CallOK' /\ VisitedOnce'
  BY <1>1 DEF WalkInv, WalkType, CallOK, VisitedOnce
<1>3. \A i \in 1..Len(stack') : i \in 1..Len(stack)
  BY <1>1
<1>4. \A k : Unvisited(k)' = Unvisited(k) /\ FreshBelow(k)' = FreshBelow(k)
  BY DEF Unvisited, FreshBelow, Below
<1>5. StackOK'
  BY <1>1, <1>3, <1>4 DEF WalkInv, StackOK, FrameOK, Inside
<1>6. SkippedOK'
  BY <1>1, <1>3, <1>4 DEF WalkInv, SkippedOK
<1> QED BY <1>2, <1>5, <1>6 DEF WalkInv

(* The innermost call goes on, with no more to do than it had or with the  *)
(* listing of a directory in which nothing has been visited.               *)
LEMMA GoingOn ==
    ASSUME WalkInv, stack # <<>>, NEW fr \in Fr, stack' = Append(Front(stack), fr),
           fr.prefix = Top.prefix, FrameOK(fr), visits' = visits, skipped' = skipped,
           call' = NoCall \/ fr.at = "failed"
    PROVE  WalkInv'
<1>1. /\ stack' \in Seq(Fr) /\ Len(stack') = Len(stack) /\ stack' # <<>>
      /\ \A i \in 1..Len(stack) : stack'[i] = IF i = Len(stack) THEN fr ELSE stack[i]
  BY ReplaceTop DEF WalkInv, WalkType
<1>2. Len(stack) \in Nat \ {0} /\ Top = stack[Len(stack)] /\ Top' = fr
  BY <1>1, TopIsLast DEF WalkInv, Top, Last
<1>3. \A k : Unvisited(k)' = Unvisited(k) /\ FreshBelow(k)' = FreshBelow(k)
  BY DEF Unvisited, FreshBelow, Below
<1>4. StackOK'
  <2>1. \A i \in 1..Len(stack) : FrameOK(stack'[i])
    BY <1>1, <1>2 DEF WalkInv, StackOK
  <2>2. \A i, j \in 1..Len(stack) : i < j => Inside(stack'[i], stack'[j])
    BY <1>1, <1>2 DEF WalkInv, StackOK, Inside
  <2> QED BY <1>1, <1>3, <2>1, <2>2 DEF StackOK, FrameOK
<1>5. SkippedOK'
  BY <1>1, <1>2, <1>3 DEF WalkInv, SkippedOK
<1>6. CallOK'
  BY <1>1, <1>2 DEF CallOK
<1>7. WalkType' /\ VisitedOnce'
  <2>1. stack'[1].prefix = stack[1].prefix
    BY <1>1, <1>2
  <2> QED BY <1>1, <2>1 DEF WalkInv, WalkType, VisitedOnce
<1> QED BY <1>4, <1>5, <1>6, <1>7 DEF WalkInv

(* An entry of the innermost listing lies in nothing else there is to do.  *)
LEMMA EntryIsApart ==
    ASSUME WalkInv, stack # <<>>, NEW e, EntryOf(e, Top.prefix), NEW k \in Key,
           AtOrBelow(e.place, k), e.place # k
    PROVE  /\ AtOrBelow(Top.prefix, k)
           /\ \A i \in 1..(Len(stack) - 1) : \A f \in stack[i].todo : f.place # k
           /\ \A f \in Top.todo : f.place # k
<1>1. Top \in Fr /\ Len(stack) \in Nat \ {0} /\ Top = stack[Len(stack)]
  BY TopIsLast DEF WalkInv
<1>2. e.place \in Place /\ e.place # <<>> /\ Top.prefix = Parent(e.place) /\ k \in Place
  BY KeysArePlaces DEF EntryOf, Ent
<1>3. AtOrBelow(Top.prefix, k)
  BY <1>2, BelowParent DEF AtOrBelow
<1>4. ASSUME NEW i \in 1..(Len(stack) - 1), NEW f \in stack[i].todo PROVE f.place # k
  <2>1. Inside(stack[i], Top)
    BY <1>1 DEF WalkInv, StackOK
  <2> QED BY <1>3, <2>1 DEF Inside
<1>5. ASSUME NEW f \in Top.todo PROVE f.place # k
  <2>1. EntryOf(f, Top.prefix)
    BY <1>1 DEF WalkInv, StackOK, FrameOK
  <2> QED BY <1>2, <2>1, KeysArePlaces, Siblings DEF EntryOf, Ent, AtOrBelow
<1> QED BY <1>3, <1>4, <1>5

LEMMA StepVisit == WalkInv /\ Visit => WalkInv'
<1> SUFFICES ASSUME WalkInv, Visit PROVE WalkInv'
  OBVIOUS
<1>1. PICK e \in Top.todo : /\ SetTop([Top EXCEPT !.at = "loop", !.todo = @ \ {e}])
                            /\ CallBack(e)
                            /\ visits' = [visits EXCEPT ![e.place] = IF @ < 2 THEN @ + 1 ELSE @]
  BY DEF Visit
<1>2. stack # <<>> /\ Top.at = "checked" /\ skipped' = skipped /\ call' = e
  BY <1>1 DEF Visit, At, CallBack
<1>3. Top \in Fr /\ Len(stack) \in Nat \ {0} /\ Top = stack[Len(stack)] /\ stack \in Seq(Fr)
  BY <1>2, TopIsLast DEF WalkInv, WalkType
<1>4. PICK fr \in Fr : /\ fr = [Top EXCEPT !.at = "loop", !.todo = @ \ {e}]
                       /\ fr.prefix = Top.prefix /\ fr.at = "loop" /\ fr.todo = Top.todo \ {e}
  <2>1. PICK top \in Fr : top = Top
    BY <1>3
  <2>2. PICK u \in SUBSET Ent : u = Top.todo \ {e}
    BY <1>3 DEF Fr
  <2>3. /\ [top EXCEPT !.at = "loop", !.todo = u] \in Fr
        /\ [top EXCEPT !.at = "loop", !.todo = u].prefix = top.prefix
        /\ [top EXCEPT !.at = "loop", !.todo = u].at = "loop"
        /\ [top EXCEPT !.at = "loop", !.todo = u].todo = u
    BY DEF Fr, Where
  <2>4. [top EXCEPT !.at = "loop", !.todo = u] = [Top EXCEPT !.at = "loop", !.todo = @ \ {e}]
    BY <2>1, <2>2, Zenon
  <2> QED BY <2>1, <2>2, <2>3, <2>4, Zenon
<1>5. /\ EntryOf(e, Top.prefix) /\ Unvisited(e.place) /\ FreshBelow(e.place)
      /\ \A f \in fr.todo : f.place # e.place
  BY <1>3, <1>4 DEF WalkInv, StackOK, FrameOK
<1>6. e.place \in Key /\ e.place \in Place
  BY <1>5, KeysArePlaces DEF EntryOf, Ent
<1>7. /\ visits' \in [Key -> Nat] /\ visits'[e.place] = 1
      /\ \A k \in Key \ {e.place} : visits'[k] = visits[k]
  BY <1>1, <1>5, <1>6 DEF WalkInv, WalkType, Unvisited
<1>8. /\ stack' \in Seq(Fr) /\ Len(stack') = Len(stack) /\ stack' # <<>>
      /\ \A i \in 1..Len(stack) : stack'[i] = IF i = Len(stack) THEN fr ELSE stack[i]
  BY <1>1, <1>2, <1>3, <1>4, ReplaceTop DEF SetTop
<1>9. Top' = fr
  BY <1>3, <1>8 DEF Top, Last
(* What is to be visited elsewhere still is.                               *)
<1>10. ASSUME NEW k \in Key, FreshBelow(k), ~AtOrBelow(Top.prefix, k) PROVE FreshBelow(k)'
  <2>1. ~Below(e.place, k)
    BY <1>2, <1>5, <1>10, EntryIsApart, BelowIsOrder, <1>6, KeysArePlaces DEF AtOrBelow
  <2>2. ASSUME NEW l \in Key, Below(l, k) PROVE visits'[l] = 0
    BY <1>7, <1>10, <2>1, <2>2 DEF FreshBelow, Unvisited
  <2> QED BY <2>2 DEF FreshBelow, Unvisited, Below
<1>11. ASSUME NEW f, EntryOf(f, Top.prefix), f.place # e.place,
              Unvisited(f.place), FreshBelow(f.place)
       PROVE  Unvisited(f.place)' /\ FreshBelow(f.place)'
  <2>1. f.place \in Key /\ f.place \in Place /\ f.place # <<>> /\ Parent(f.place) = Top.prefix
    BY <1>11, KeysArePlaces DEF EntryOf, Ent
  <2>2. ~AtOrBelow(Top.prefix, f.place)
    BY <2>1, BelowParent, BelowIsOrder
  <2> QED BY <1>7, <1>10, <1>11, <2>1, <2>2 DEF Unvisited
<1>12. FrameOK(fr)'
  <2>1. ASSUME NEW f \in fr.todo
        PROVE  EntryOf(f, fr.prefix) /\ Unvisited(f.place)' /\ FreshBelow(f.place)'
    <3>1. EntryOf(f, Top.prefix) /\ Unvisited(f.place) /\ FreshBelow(f.place) /\ f.place # e.place
      BY <1>3, <1>4, <1>5, <2>1 DEF WalkInv, StackOK, FrameOK
    <3> QED BY <1>4, <1>11, <3>1
  <2>2. \A f1, f2 \in fr.todo : f1.place = f2.place => f1 = f2
    BY <1>3, <1>4 DEF WalkInv, StackOK, FrameOK
  <2> QED BY <1>4, <2>1, <2>2 DEF FrameOK
<1>13. ASSUME NEW i \in 1..(Len(stack) - 1), NEW g, g = stack[i]
       PROVE  FrameOK(g)' /\ Inside(g, fr)
  <2>1. FrameOK(g) /\ Inside(g, Top) /\ Below(Top.prefix, g.prefix)
    BY <1>3, <1>13 DEF WalkInv, StackOK, Inside
  <2>2. Inside(g, fr)
    BY <1>4, <2>1 DEF Inside
  <2>3. ASSUME NEW f \in g.todo PROVE Unvisited(f.place)' /\ FreshBelow(f.place)'
    <3>1. f.place \in Key /\ Unvisited(f.place) /\ FreshBelow(f.place)
      BY <2>1, <2>3 DEF FrameOK, EntryOf, Ent
    <3>2. ~AtOrBelow(Top.prefix, f.place)
      BY <2>1, <2>3 DEF Inside
    <3>3. f.place # e.place
      BY <1>5, <1>6, <3>2, BelowParent, <2>1, <2>3, BelowIsOrder DEF FrameOK, EntryOf, Ent, AtOrBelow
    <3> QED BY <1>7, <1>10, <3>1, <3>2, <3>3 DEF Unvisited
  <2>4. g.at = "loop"
    BY <2>1 DEF Inside
  <2> QED BY <2>1, <2>2, <2>3, <2>4 DEF FrameOK
<1>14. StackOK'
  <2>1. \A i, j \in 1..Len(stack) : i < j => Inside(stack'[i], stack'[j])
    BY <1>3, <1>8, <1>13 DEF WalkInv, StackOK
  <2>2. ASSUME NEW i \in 1..Len(stack), NEW g, g = stack'[i] PROVE FrameOK(g)'
    BY <1>3, <1>8, <1>12, <1>13, <2>2
  <2> QED BY <1>8, <2>1, <2>2 DEF StackOK, FrameOK, Inside
<1>15. CallOK'
  <2>1. e.place \notin skipped
    BY <1>5 DEF WalkInv, SkippedOK, Unvisited
  <2>2. FreshBelow(e.place)'
    <3>1. ASSUME NEW l \in Key, Below(l, e.place) PROVE visits'[l] = 0
      BY <1>5, <1>6, <1>7, <3>1, BelowIsOrder DEF FreshBelow, Unvisited
    <3> QED BY <3>1 DEF FreshBelow, Unvisited, Below
  <2> QED BY <1>2, <1>4, <1>5, <1>7, <1>8, <1>9, <2>1, <2>2 DEF CallOK, FreshBelow, Unvisited
<1>16. SkippedOK'
  <2>1. ASSUME NEW d \in skipped
        PROVE  visits'[d] > 0 /\ FreshBelow(d)' /\ \A i \in 1..Len(stack) : ~AtOrBelow(stack'[i].prefix, d)
    <3>1. d \in Key /\ visits[d] > 0 /\ FreshBelow(d) /\ ~AtOrBelow(Top.prefix, d)
      BY <1>3, <2>1 DEF WalkInv, SkippedOK, WalkType
    <3>2. FreshBelow(d)' /\ visits'[d] > 0
      BY <1>5, <1>7, <1>10, <3>1 DEF Unvisited
    <3> QED BY <1>3, <1>4, <1>8, <2>1, <3>2 DEF WalkInv, SkippedOK
  <2> QED BY <1>2, <1>8, <2>1 DEF SkippedOK
<1>17. WalkType' /\ VisitedOnce'
  <2>1. stack'[1].prefix = stack[1].prefix
    <3>1. fr.prefix = stack[Len(stack)].prefix /\ Len(stack) \in Nat \ {0}
      BY <1>3, <1>4
    <3> QED BY <1>8, <3>1
  <2> QED BY <1>2, <1>7, <1>8, <2>1 DEF WalkInv, WalkType, VisitedOnce
<1> QED BY <1>14, <1>15, <1>16, <1>17 DEF WalkInv

LEMMA StepList == ~Mounted /\ WalkInv /\ List => WalkInv'
<1> SUFFICES ASSUME ~Mounted, WalkInv, List PROVE WalkInv'
  OBVIOUS
<1> DEFINE place(k) == [key |-> Listed(Top.prefix, k), file |-> IsFile(k), place |-> k]
           found == {place(k) : k \in Children(Top.prefix)}
<1>1. /\ stack # <<>> /\ Top.at = "list" /\ call = NoCall /\ call' = call
      /\ visits' = visits /\ skipped' = skipped
      /\ stack' = Append(Front(stack), [Top EXCEPT !.at = "loop", !.todo = found])
  BY DEF List, At, SetTop
<1>2. Top \in Fr /\ FrameOK(Top)
  BY <1>1, TopIsLast DEF WalkInv, StackOK
<1>3. ASSUME NEW k \in Children(Top.prefix)
      PROVE  /\ place(k) \in Ent /\ place(k).place = k
             /\ EntryOf(place(k), Top.prefix) /\ Unvisited(k) /\ FreshBelow(k)
  <2>1. k \in Key /\ k # <<>> /\ Parent(k) = Top.prefix
    BY DEF Children
  <2>2. place(k) \in Ent /\ place(k).place = k /\ place(k).key = k
    BY <2>1 DEF Listed, IsFile, Ent
  <2>3. k \in Place /\ Below(k, Top.prefix) /\ Top.prefix \in Place
    BY <2>1, KeysArePlaces, BelowParent
  <2>4. FreshBelow(Top.prefix)
    BY <1>1, <1>2 DEF FrameOK
  <2>5. FreshBelow(k)
    BY <2>3, <2>4, KeysArePlaces, BelowIsOrder DEF FreshBelow
  <2> QED BY <2>1, <2>2, <2>3, <2>4, <2>5 DEF EntryOf, FreshBelow
<1>4. PICK u \in SUBSET Ent : u = found
  BY <1>3
<1>5. \A e \in u : \E k \in Children(Top.prefix) : e = place(k)
  BY <1>4
<1> HIDE DEF found, place
<1>6. PICK fr \in Fr : /\ fr = [Top EXCEPT !.at = "loop", !.todo = found]
                       /\ fr.prefix = Top.prefix /\ fr.at = "loop" /\ fr.todo = u
  <2>1. PICK top \in Fr : top = Top
    BY <1>2
  <2>2. /\ [top EXCEPT !.at = "loop", !.todo = u] \in Fr
        /\ [top EXCEPT !.at = "loop", !.todo = u].prefix = top.prefix
        /\ [top EXCEPT !.at = "loop", !.todo = u].at = "loop"
        /\ [top EXCEPT !.at = "loop", !.todo = u].todo = u
    BY DEF Fr, Where
  <2> QED BY <1>4, <2>1, <2>2, Zenon
<1>7. FrameOK(fr)
  <2>1. \A e \in u : EntryOf(e, Top.prefix) /\ Unvisited(e.place) /\ FreshBelow(e.place)
    BY <1>3, <1>5
  <2>2. \A e1, e2 \in u : e1.place = e2.place => e1 = e2
    BY <1>3, <1>5
  <2> QED BY <1>6, <2>1, <2>2 DEF FrameOK
<1> QED BY <1>1, <1>6, <1>7, GoingOn

(* A step that only moves the innermost call on in its loop.               *)
LEMMA StepInLoop ==
    ASSUME WalkInv, stack # <<>>, NEW a \in {"loop", "checked", "failed"},
           SetTop([Top EXCEPT !.at = a]), a = "failed" => Top.at = "list", visits' = visits, skipped' = skipped,
           call' = NoCall \/ a = "failed"
    PROVE  WalkInv'
<1>1. Top \in Fr /\ FrameOK(Top)
  BY TopIsLast DEF WalkInv, StackOK
<1>2. PICK fr \in Fr : /\ fr = [Top EXCEPT !.at = a]
                       /\ fr.prefix = Top.prefix /\ fr.at = a /\ fr.todo = Top.todo
  <2>1. PICK top \in Fr : top = Top
    BY <1>1
  <2>2. /\ [top EXCEPT !.at = a] \in Fr
        /\ [top EXCEPT !.at = a].prefix = top.prefix
        /\ [top EXCEPT !.at = a].at = a
        /\ [top EXCEPT !.at = a].todo = top.todo
    BY DEF Fr, Where
  <2> QED BY <2>1, <2>2, Zenon
<1>3. FrameOK(fr)
  BY <1>1, <1>2 DEF FrameOK
<1> QED BY <1>2, <1>3, GoingOn DEF SetTop

(* The callback wants a directory walked: a new call of Walk.              *)
LEMMA StepDescend ==
    ASSUME ~Mounted, WalkInv, call # NoCall, ADir, Descend, call' = NoCall,
           visits' = visits, skipped' = skipped
    PROVE  WalkInv'
<1>1. /\ stack # <<>> /\ Top.at = "loop" /\ EntryOf(call, Top.prefix) /\ FreshBelow(call.place)
      /\ call.place \notin skipped
      /\ \A e \in Top.todo : e.place # call.place
  BY DEF WalkInv, CallOK, ADir
<1>2. Top \in Fr /\ Len(stack) \in Nat \ {0} /\ Top = stack[Len(stack)] /\ stack \in Seq(Fr)
  BY <1>1, TopIsLast DEF WalkInv, WalkType
<1> DEFINE c == call.place
<1>3. /\ c \in Place /\ c \in Key /\ c # <<>> /\ Parent(c) = Top.prefix /\ call.key = c
      /\ Below(c, Top.prefix)
  BY <1>1, KeysArePlaces, BelowParent DEF EntryOf, Ent
<1>4. SubPrefix(Top.prefix, call.key) = c
  BY <1>3 DEF SubPrefix, Below
<1>5. PICK fr \in Fr : fr = Frame(c) /\ fr.prefix = c /\ fr.at = "list" /\ fr.todo = {}
  <2>1. Frame(c) \in Fr
    BY <1>3 DEF Frame, Fr, Where
  <2> QED BY <2>1 DEF Frame
<1>6. stack' = Append(stack, fr)
  BY <1>4, <1>5 DEF Descend
<1> HIDE DEF c
<1>7. /\ stack' \in Seq(Fr) /\ Len(stack') = Len(stack) + 1 /\ stack' # <<>>
      /\ stack'[Len(stack) + 1] = fr
      /\ \A i \in 1..Len(stack) : stack'[i] = stack[i]
  BY <1>2, <1>6, AppendProperties
<1>8. \A k : Unvisited(k)' = Unvisited(k) /\ FreshBelow(k)' = FreshBelow(k)
  BY DEF Unvisited, FreshBelow, Below
<1>9. ASSUME NEW i \in 1..Len(stack) PROVE Inside(stack[i], fr)
  <2>1. stack[i] \in Fr /\ FrameOK(stack[i])
    BY <1>2, ElementOfSeq DEF WalkInv, StackOK
  <2>2. stack[i].prefix \in Place /\ Top.prefix \in Place
    BY <1>2, <2>1 DEF Fr
  <2>3. i = Len(stack) \/ (i < Len(stack) /\ Inside(stack[i], Top))
    BY <1>2 DEF WalkInv, StackOK
  <2>4. Below(c, stack[i].prefix)
    BY <1>2, <1>3, <2>2, <2>3, BelowIsOrder DEF Inside
  <2>5. ASSUME NEW e \in stack[i].todo PROVE ~AtOrBelow(c, e.place)
    <3>1. e.place \in Key /\ e.place \in Place /\ e.place # <<>> /\ Parent(e.place) = stack[i].prefix
      BY <2>1, <2>5, KeysArePlaces DEF FrameOK, EntryOf, Ent
    <3>2. CASE i = Len(stack)
      BY <1>1, <1>2, <1>3, <2>5, <3>1, <3>2, Siblings DEF AtOrBelow, c
    <3>3. CASE Inside(stack[i], Top)
      <4>1. ~AtOrBelow(Top.prefix, e.place)
        BY <2>5, <3>3 DEF Inside
      <4>2. c # e.place
        BY <1>3, <2>2, <3>1, <3>3, BelowIsOrder DEF Inside
      <4>3. ~Below(c, e.place)
        BY <1>3, <3>1, <4>1, BelowParent
      <4> QED BY <4>2, <4>3 DEF AtOrBelow
    <3> QED BY <2>3, <3>2, <3>3
  <2>6. stack[i].at = "loop"
    BY <1>1, <1>2, <2>3 DEF Inside
  <2> QED BY <1>5, <2>4, <2>5, <2>6 DEF Inside
<1>10. FrameOK(fr)
  BY <1>1, <1>5 DEF FrameOK, c
<1>11. StackOK'
  <2>1. \A i \in 1..(Len(stack) + 1) : FrameOK(stack'[i])
    BY <1>2, <1>7, <1>10 DEF WalkInv, StackOK
  <2>2. \A i, j \in 1..(Len(stack) + 1) : i < j => Inside(stack'[i], stack'[j])
    BY <1>2, <1>7, <1>9 DEF WalkInv, StackOK
  <2> QED BY <1>7, <1>8, <2>1, <2>2 DEF StackOK, FrameOK, Inside
<1>12. ASSUME NEW d \in skipped PROVE ~AtOrBelow(c, d)
  <2>1. d \in Place /\ ~AtOrBelow(Top.prefix, d)
    BY <1>2, KeysArePlaces DEF WalkInv, SkippedOK, WalkType
  <2> QED BY <1>1, <1>3, <2>1, BelowParent DEF AtOrBelow, c
<1>13. SkippedOK'
  BY <1>2, <1>5, <1>7, <1>8, <1>12 DEF WalkInv, SkippedOK
<1>14. WalkType' /\ VisitedOnce' /\ CallOK'
  BY <1>7 DEF WalkInv, WalkType, VisitedOnce, CallOK
<1> QED BY <1>11, <1>13, <1>14 DEF WalkInv

(* The callback wants a directory skipped.                                 *)
LEMMA StepSkip ==
    ASSUME WalkInv, call # NoCall, ADir, skipped' = skipped \cup {call.place},
           call' = NoCall, stack' = stack, visits' = visits
    PROVE  WalkInv'
<1>1. /\ stack # <<>> /\ EntryOf(call, Top.prefix) /\ FreshBelow(call.place)
      /\ visits[call.place] > 0
  BY DEF WalkInv, CallOK, ADir
<1>2. Top \in Fr /\ Len(stack) \in Nat \ {0} /\ Top = stack[Len(stack)] /\ stack \in Seq(Fr)
  BY <1>1, TopIsLast DEF WalkInv, WalkType
<1>3. /\ call.place \in Place /\ call.place \in Key /\ call.place # <<>>
      /\ Parent(call.place) = Top.prefix /\ Below(call.place, Top.prefix)
  BY <1>1, KeysArePlaces, BelowParent DEF EntryOf, Ent
<1>4. ASSUME NEW i \in 1..Len(stack) PROVE ~AtOrBelow(stack[i].prefix, call.place)
  <2>1. stack[i].prefix \in Place /\ Top.prefix \in Place
    <3>1. stack[i] \in Fr
      BY <1>2, ElementOfSeq
    <3> QED BY <1>2, <3>1 DEF Fr
  <2>2. stack[i].prefix = Top.prefix \/ Below(Top.prefix, stack[i].prefix)
    BY <1>2 DEF WalkInv, StackOK, Inside
  <2>3. Below(call.place, stack[i].prefix)
    BY <1>3, <2>1, <2>2, BelowIsOrder
  <2> QED BY <1>3, <2>1, <2>3, BelowIsOrder
<1>5. \A k : Unvisited(k)' = Unvisited(k) /\ FreshBelow(k)' = FreshBelow(k)
  BY DEF Unvisited, FreshBelow, Below
<1>6. SkippedOK'
  BY <1>1, <1>4, <1>5 DEF WalkInv, SkippedOK
<1>7. StackOK'
  BY <1>5 DEF WalkInv, StackOK, FrameOK, Inside
<1>8. WalkType' /\ VisitedOnce' /\ CallOK'
  BY <1>3 DEF WalkInv, WalkType, VisitedOnce, CallOK
<1> QED BY <1>6, <1>7, <1>8 DEF WalkInv

LEMMA StepCallback ==
    ASSUME ~Mounted, WalkInv, NEW r, CallbackReturns(r)
    PROVE  WalkInv'
<1>1. call # NoCall /\ call' = NoCall /\ visits' = visits /\ stack # <<>>
  BY DEF CallbackReturns, WalkInv, CallOK
<1>2. CASE ADir /\ r = "nil" /\ Descend /\ UNCHANGED skipped
  BY <1>1, <1>2, StepDescend
<1>3. CASE ADir /\ r = "skip" /\ skipped' = skipped \cup {call.place} /\ UNCHANGED <<stack, result>>
  BY <1>1, <1>3, StepSkip
<1>4. CASE AFile /\ r = "nil" /\ UNCHANGED <<stack, result, skipped>>
  <2>1. \A k : Unvisited(k)' = Unvisited(k) /\ FreshBelow(k)' = FreshBelow(k)
    BY <1>1 DEF Unvisited, FreshBelow, Below
  <2> QED BY <1>1, <1>4, <2>1 DEF WalkInv, WalkType, StackOK, FrameOK, Inside, CallOK,
             SkippedOK, VisitedOnce
<1>5. CASE UNCHANGED skipped /\ (ReturnNil \/ Finish(r))
  BY <1>1, <1>5, Returning DEF ReturnNil, Pop, Finish
<1> QED BY <1>2, <1>3, <1>4, <1>5 DEF CallbackReturns

LEMMA StepWalk == ~Mounted /\ WalkInv /\ WalkStep => WalkInv'
<1> SUFFICES ASSUME ~Mounted, WalkInv, WalkStep PROVE WalkInv'
  OBVIOUS
<1>1. CASE List
  BY <1>1, StepList
<1>2. CASE ListNothing
  BY <1>2, StepInLoop DEF ListNothing, At
<1>3. CASE ListFails
  BY <1>3, StepInLoop DEF ListFails, At
<1>4. CASE Check
  <2>1. CASE cancelled
    BY <1>4, <2>1, Returning DEF Check, At, Finish
  <2>2. CASE ~cancelled
    BY <1>4, <2>2, StepInLoop DEF Check, At
  <2> QED BY <2>1, <2>2
<1>5. CASE Visit
  BY <1>5, StepVisit
<1>6. CASE EndOfLoop
  BY <1>6, Returning DEF EndOfLoop, At, ReturnNil, Pop
<1> QED BY <1>1, <1>2, <1>3, <1>4, <1>5, <1>6 DEF WalkStep

(* Whatever is not the walk leaves it alone.                               *)
LEMMA StepOther ==
    ASSUME WalkInv, UNCHANGED <<stack, call, visits, skipped>>
    PROVE  WalkInv'
<1>1. \A k : Unvisited(k)' = Unvisited(k) /\ FreshBelow(k)' = FreshBelow(k)
  BY DEF Unvisited, FreshBelow, Below
<1>2. Top' = Top
  BY DEF Top, Last
<1> QED BY <1>1, <1>2 DEF WalkInv, WalkType, StackOK, FrameOK, Inside, CallOK, SkippedOK,
                          VisitedOnce

(* What the callback is called for lies below the prefix.                  *)
LEMMA VisitsBelowPrefix ==
    ASSUME WalkInv, call # NoCall, Top.at = "loop"
    PROVE  Below(call.place, Prefix)
<1>1. stack # <<>> /\ EntryOf(call, Top.prefix)
  BY DEF WalkInv, CallOK
<1>2. Len(stack) \in Nat \ {0} /\ Top = stack[Len(stack)] /\ Top \in Fr /\ stack \in Seq(Fr)
  BY <1>1, TopIsLast DEF WalkInv, WalkType
<1>3. call.place \in Place /\ Below(call.place, Top.prefix)
  BY <1>1, KeysArePlaces, BelowParent DEF EntryOf, Ent
<1>4. AtOrBelow(Top.prefix, Prefix)
  BY <1>1, <1>2 DEF WalkInv, WalkType, StackOK, Inside, AtOrBelow
<1>5. Top.prefix \in Place /\ Prefix \in Place
  BY <1>2, PrefixAssumption DEF Fr, Place, Name
<1> QED BY <1>3, <1>4, <1>5, BelowIsOrder DEF AtOrBelow

LEMMA WalkInvStarts == Init => WalkInv
<1> SUFFICES ASSUME Init PROVE WalkInv
  OBVIOUS
<1>1. /\ stack = <<Frame(Prefix)>> /\ call = NoCall /\ skipped = {}
      /\ visits = [k \in Key |-> 0]
  BY DEF Init
<1>2. Frame(Prefix) \in Fr /\ Frame(Prefix).todo = {} /\ Frame(Prefix).prefix = Prefix
  BY PrefixAssumption DEF Frame, Fr, Where, Place, Name
<1>3. stack \in Seq(Fr) /\ Len(stack) = 1 /\ stack[1] = Frame(Prefix)
  BY <1>1, <1>2
<1>4. \A k : FreshBelow(k)
  BY <1>1 DEF FreshBelow, Unvisited
<1>5. StackOK
  BY <1>2, <1>3, <1>4 DEF StackOK, FrameOK
<1> QED BY <1>1, <1>2, <1>3, <1>5 DEF WalkInv, WalkType, CallOK, SkippedOK, VisitedOnce

LEMMA WalkInvKept == ~Mounted /\ WalkInv /\ [Next]_vars => WalkInv'
<1> SUFFICES ASSUME ~Mounted, WalkInv, [Next]_vars PROVE WalkInv'
  OBVIOUS
<1>1. CASE WalkStep
  BY <1>1, StepWalk
<1>2. CASE Callback
  BY <1>2, StepCallback DEF Callback
<1>3. CASE Clients \/ UNCHANGED vars
  <2>1. UNCHANGED <<stack, call, visits, skipped>>
    BY <1>3 DEF Clients, Delete, Put, Cancel, Changes, vars, walkvars
  <2> QED BY <2>1, StepOther
<1> QED BY <1>1, <1>2, <1>3 DEF Next

----------------------------------------------------------------------------
(* The callback is called at most once for an entry, however the tree      *)
(* changes under the walk (walk.go:27-60).                                 *)
THEOREM VisitsOnce ==
    ASSUME ~Mounted
    PROVE  Spec => []VisitedOnce
<1>1. Init => WalkInv
  BY WalkInvStarts
<1>2. WalkInv /\ [Next]_vars => WalkInv'
  BY WalkInvKept
<1>3. WalkInv => VisitedOnce
  BY DEF WalkInv
<1> QED BY <1>1, <1>2, <1>3, PTL DEF Spec

(* Nothing below a directory for which the callback returned ErrSkipDir is *)
(* ever visited, not even what appears there later (walk.go:38-40).        *)
THEOREM SkipsWhole ==
    ASSUME ~Mounted
    PROVE  Spec => []SkippedStayUnvisited
<1>1. Init => WalkInv
  BY WalkInvStarts
<1>2. WalkInv /\ [Next]_vars => WalkInv'
  BY WalkInvKept
<1>3. WalkInv => SkippedStayUnvisited
  BY DEF WalkInv, SkippedOK, FreshBelow, Unvisited, SkippedStayUnvisited
<1> QED BY <1>1, <1>2, <1>3, PTL DEF Spec

----------------------------------------------------------------------------
(* What nil means.  The invariant says that each entry nobody has changed  *)
(* is visited, or is still to come: in a listing, below an entry of one,   *)
(* or below the directory the callback is at work on.                      *)

TreeOK == /\ tree \in [Key -> Val \cup {Dir, Absent}]
          /\ \A k, d \in Key : Below(k, d) /\ tree[k] # Absent => tree[d] = Dir

Standing(k) == tree[k] # Absent /\ k \notin touched

Hollow(d) == \A k \in Key : Below(k, d) => ~Standing(k)

(* A listed entry is what it was listed as, unless somebody has changed    *)
(* it; below a file nothing stands.                                        *)
Seen(e) == /\ e.place \in Key
           /\ e.place \in touched \/ (e.file <=> IsFile(e.place))
           /\ e.file => Hollow(e.place)

Files(fr) == \A e \in fr.todo : Seen(e)

InCallback == call # NoCall /\ stack # <<>> /\ Top.at = "loop"

FilesOK == /\ \A i \in 1..Len(stack) : Files(stack[i])
           /\ InCallback => Seen(call)

Wanted(k) == /\ Below(k, Prefix) /\ Standing(k)
             /\ \A d \in skipped \cup unlisted : ~Below(k, d)

Todo(fr, k) == \/ fr.at = "list" /\ Below(k, fr.prefix)
               \/ \E e \in fr.todo : AtOrBelow(k, e.place)

InCall(k) == InCallback /\ ~call.file /\ Below(k, call.place)

Pending(k) == (\E i \in 1..Len(stack) : Todo(stack[i], k)) \/ InCall(k)

Running == result \in {"running", "nil"}

CoverOK == Running => \A k \in Key : Wanted(k) => visits[k] > 0 \/ Pending(k)

EndOK == result # "running" => stack = <<>>

CoverInv == WalkInv /\ TreeOK /\ FilesOK /\ CoverOK /\ EndOK

----------------------------------------------------------------------------
(* The way to a key leads through the entries of each directory on it.     *)
LEMMA Ancestor ==
    ASSUME NEW k \in Key, NEW d \in Place, Below(k, d)
    PROVE  /\ d \in Key
           /\ \E c \in Key : c # <<>> /\ Parent(c) = d /\ AtOrBelow(k, c)
<1>1. k \in Place /\ Len(k) \in Nat /\ Len(d) \in Nat
  BY KeysArePlaces, LenProperties DEF Place
<1>2. Len(d) < Len(k) /\ \A i \in 1..Len(d) : d[i] = k[i]
  BY <1>1, BelowByIndex
<1>3. ASSUME NEW n \in 0..Len(k)
      PROVE  /\ SubSeq(k, 1, n) \in Key /\ SubSeq(k, 1, n) \in Place
             /\ Len(SubSeq(k, 1, n)) = n
             /\ \A i \in 1..n : SubSeq(k, 1, n)[i] = k[i]
  <2>1. SubSeq(k, 1, n) \in Key /\ SubSeq(k, 1, n) \in Place
    BY ParentAssumption, KeysArePlaces
  <2>2. Len(SubSeq(k, 1, n)) = n
    BY <1>1 DEF Place
  <2>3. \A i \in 1..n : SubSeq(k, 1, n)[i] = k[i]
    BY <1>1 DEF Place
  <2> QED BY <2>1, <2>2, <2>3
<1>4. d = SubSeq(k, 1, Len(d))
  BY <1>1, <1>2, <1>3, SeqEqual DEF Place
<1>10. Len(d) \in 0..Len(k) /\ Len(d) + 1 \in 0..Len(k)
  BY <1>1, <1>2
<1>5. PICK c \in Key : c = SubSeq(k, 1, Len(d) + 1)
  BY <1>3, <1>10
<1>6. c \in Place /\ Len(c) = Len(d) + 1 /\ \A i \in 1..(Len(d) + 1) : c[i] = k[i]
  BY <1>1, <1>2, <1>3, <1>5
<1>7. AtOrBelow(k, c)
  <2>1. CASE Len(c) < Len(k)
    BY <1>1, <1>6, <2>1, BelowByIndex DEF AtOrBelow
  <2>2. CASE Len(c) = Len(k)
    BY <1>1, <1>6, <2>2, SeqEqual DEF AtOrBelow, Place
  <2> QED BY <1>1, <1>2, <1>6, <2>1, <2>2
<1>8. c # <<>>
  BY <1>1, <1>6
<1>9. Parent(c) = d
  <2>1. Below(c, d)
    BY <1>1, <1>2, <1>6, BelowByIndex
  <2>2. Parent(c) \in Place /\ AtOrBelow(Parent(c), d) /\ Below(c, Parent(c))
    BY <1>6, <1>8, <2>1, BelowParent
  <2>3. Len(Parent(c)) < Len(c) /\ Len(Parent(c)) \in Nat
    BY <1>6, <2>2, BelowByIndex, LenProperties DEF Place
  <2>4. ~Below(Parent(c), d)
    BY <1>1, <1>6, <2>2, <2>3, BelowByIndex
  <2> QED BY <2>2, <2>4 DEF AtOrBelow
<1>11. d \in Key
  BY <1>3, <1>4, <1>10
<1> QED BY <1>7, <1>8, <1>9, <1>11

(* Clients keep the tree a tree, and what still stands stood before.       *)
LEMMA ClientsKeepTree ==
    ASSUME TreeOK, Clients
    PROVE  TreeOK' /\ \A k \in Key : k \notin touched' => k \notin touched /\ tree'[k] = tree[k]
<1>1. CASE Cancel
  BY <1>1 DEF Cancel, fsvars, TreeOK, Standing, Below
<1>2. ASSUME NEW p \in Key, NEW v \in Val, Put(p, v)
      PROVE  TreeOK' /\ \A k \in Key : k \notin touched' => k \notin touched /\ tree'[k] = tree[k]
  <2> DEFINE way == {d \in Key : Below(p, d)}
  <2>1. /\ tree[p] # Dir /\ \A d \in way : tree[d] \notin Val
        /\ tree' = [q \in Key |-> IF q \in way THEN Dir ELSE IF q = p THEN v ELSE tree[q]]
        /\ touched' = touched \cup {p} \cup {d \in way : tree[d] = Absent}
    BY <1>2 DEF Put, IsFile, Changes
  <2>2. tree' \in [Key -> Val \cup {Dir, Absent}]
    BY <2>1 DEF TreeOK
  <2>3. ASSUME NEW k \in Key, NEW d \in Key, Below(k, d), tree'[k] # Absent
        PROVE  tree'[d] = Dir
    <3>1. k \in Place /\ d \in Place /\ p \in Place
      BY KeysArePlaces
    <3>2. CASE k = p \/ k \in way
      <4>1. d \in way
        BY <2>3, <3>1, <3>2, BelowIsOrder
      <4> QED BY <2>1, <4>1
    <3>3. CASE k # p /\ k \notin way
      <4>1. tree[k] # Absent
        BY <2>1, <2>3, <3>3
      <4>2. tree[d] = Dir
        BY <2>3, <4>1 DEF TreeOK
      <4> QED BY <2>1, <4>2
    <3> QED BY <3>2, <3>3
  <2>4. ASSUME NEW k \in Key, k \notin touched' PROVE k \notin touched /\ tree'[k] = tree[k]
    <3>1. CASE k \in way
      BY <2>1, <2>4, <3>1, ValAssumption DEF TreeOK
    <3>2. CASE k \notin way
      BY <2>1, <2>4, <3>2
    <3> QED BY <3>1, <3>2
  <2> QED BY <2>2, <2>3, <2>4 DEF TreeOK, Below
<1>3. ASSUME NEW p \in Key, Delete(p)
      PROVE  TreeOK' /\ \A k \in Key : k \notin touched' => k \notin touched /\ tree'[k] = tree[k]
  <2>1. /\ p # <<>> /\ Children(p) = {}
        /\ tree' = [tree EXCEPT ![p] = Absent] /\ touched' = touched \cup {p}
    BY <1>3 DEF Delete, Changes
  <2>2. tree' \in [Key -> Val \cup {Dir, Absent}]
    BY <2>1 DEF TreeOK
  <2>3. ASSUME NEW k \in Key, NEW d \in Key, Below(k, d), tree'[k] # Absent
        PROVE  tree'[d] = Dir
    <3>1. tree[k] # Absent /\ k # p
      BY <2>1, <2>3 DEF TreeOK
    <3>2. tree[d] = Dir
      BY <2>3, <3>1 DEF TreeOK
    <3>3. d # p
      <4>1. SUFFICES ASSUME d = p PROVE FALSE
        OBVIOUS
      <4>2. PICK c \in Key : c # <<>> /\ Parent(c) = p /\ AtOrBelow(k, c)
        BY <2>3, <4>1, Ancestor, KeysArePlaces
      <4>3. tree[c] # Absent
        BY <3>1, <4>2, ValAssumption DEF TreeOK, AtOrBelow
      <4> QED BY <2>1, <4>2, <4>3 DEF Children
    <3> QED BY <2>1, <3>2, <3>3 DEF TreeOK
  <2>4. ASSUME NEW k \in Key, k \notin touched' PROVE k \notin touched /\ tree'[k] = tree[k]
    BY <2>1, <2>4 DEF TreeOK
  <2> QED BY <2>2, <2>3, <2>4 DEF TreeOK, Below
<1> QED BY <1>1, <1>2, <1>3 DEF Clients

LEMMA CoverClients == CoverInv /\ Clients => CoverInv'
<1> SUFFICES ASSUME CoverInv, Clients PROVE CoverInv'
  OBVIOUS
<1>1. UNCHANGED walkvars
  BY DEF Clients, Put, Delete, Cancel, Changes
<1>2. /\ stack' = stack /\ call' = call /\ result' = result /\ visits' = visits
      /\ skipped' = skipped /\ unlisted' = unlisted
  BY <1>1 DEF walkvars
<1>3. /\ WalkInv' /\ TreeOK'
      /\ \A k \in Key : k \notin touched' => k \notin touched /\ tree'[k] = tree[k]
      /\ \A k \in Key : Standing(k)' => Standing(k)
  BY <1>2, ClientsKeepTree, StepOther DEF CoverInv, Standing
<1>4. /\ \A e : Seen(e) => Seen(e)'
      /\ \A k \in Key : Wanted(k)' => Wanted(k)
  <2>1. \A d : Hollow(d) => Hollow(d)'
    BY <1>3 DEF Hollow, Below
  <2>2. \A k \in Key : k \notin touched' => (IsFile(k)' <=> IsFile(k))
    BY <1>3 DEF IsFile
  <2> QED BY <1>2, <1>3, <2>1, <2>2 DEF Wanted, Below, Seen
<1>5. Top' = Top /\ (InCallback' <=> InCallback)
  BY <1>2 DEF Top, Last, InCallback
<1>6. FilesOK'
  BY <1>2, <1>4, <1>5 DEF CoverInv, FilesOK, Files
<1>7. \A k : Pending(k) => Pending(k)'
  BY <1>2, <1>5 DEF Pending, InCall, Todo, Below, AtOrBelow
<1>8. CoverOK' /\ EndOK'
  BY <1>2, <1>4, <1>7 DEF CoverInv, CoverOK, EndOK, Running
<1> QED BY <1>3, <1>6, <1>8 DEF CoverInv

(* While the tree stands still.                                            *)
LEMMA TreeStays ==
    ASSUME TreeOK, UNCHANGED fsvars, skipped \subseteq skipped', unlisted \subseteq unlisted'
    PROVE  /\ TreeOK'
           /\ \A k : Standing(k)' <=> Standing(k)
           /\ \A e : Seen(e)' <=> Seen(e)
           /\ \A k : Wanted(k)' => Wanted(k)
<1>1. tree' = tree /\ touched' = touched
  BY DEF fsvars
<1> QED BY <1>1 DEF TreeOK, Standing, Hollow, Wanted, Below, Seen, IsFile

(* The innermost call goes on.                                             *)
LEMMA CoverGoesOn ==
    ASSUME CoverInv, WalkInv', stack # <<>>, NEW fr \in Fr, stack' = Append(Front(stack), fr),
           UNCHANGED fsvars, result' = result, skipped \subseteq skipped',
           unlisted \subseteq unlisted', \A k \in Key : visits[k] > 0 => visits'[k] > 0,
           call = NoCall, Files(fr), InCallback' => Seen(call'),
           \A k \in Key : Todo(Top, k) /\ Wanted(k)' =>
                             Todo(fr, k) \/ InCall(k)' \/ visits'[k] > 0
    PROVE  CoverInv'
<1>1. /\ TreeOK' /\ \A e : Seen(e)' <=> Seen(e)
      /\ \A k : Wanted(k)' => Wanted(k)
  BY TreeStays DEF CoverInv
<1>2. /\ stack' \in Seq(Fr) /\ Len(stack') = Len(stack) /\ stack' # <<>>
      /\ \A i \in 1..Len(stack) : stack'[i] = IF i = Len(stack) THEN fr ELSE stack[i]
  BY ReplaceTop DEF CoverInv, WalkInv, WalkType
<1>3. Len(stack) \in Nat \ {0} /\ Top = stack[Len(stack)]
  BY TopIsLast DEF CoverInv, WalkInv
<1>4. FilesOK'
  <2>1. ASSUME NEW i \in 1..Len(stack), NEW g, g = stack'[i] PROVE Files(g)'
    <3>1. Files(g)
      BY <1>2, <2>1 DEF CoverInv, FilesOK
    <3> QED BY <1>1, <3>1 DEF Files
  <2> QED BY <1>1, <1>2, <2>1 DEF FilesOK, Files
<1>5. ASSUME NEW k \in Key, Wanted(k)', Running' PROVE visits'[k] > 0 \/ Pending(k)'
  <2>1. visits[k] > 0 \/ \E i \in 1..Len(stack) : Todo(stack[i], k)
    BY <1>1, <1>5 DEF CoverInv, CoverOK, Running, Pending, InCall, InCallback
  <2>2. ASSUME NEW i \in 1..Len(stack), Todo(stack[i], k) PROVE visits'[k] > 0 \/ Pending(k)'
    <3>1. CASE i = Len(stack)
      <4>1. Todo(fr, k) \/ InCall(k)' \/ visits'[k] > 0
        BY <1>3, <1>5, <2>2, <3>1
      <4>2. Todo(fr, k) => Todo(stack'[Len(stack)], k)
        BY <1>2, <1>3
      <4> QED BY <1>2, <1>3, <4>1, <4>2 DEF Pending, Todo, Below, AtOrBelow
    <3>2. CASE i # Len(stack)
      <4>1. Todo(stack'[i], k)
        BY <1>2, <2>2, <3>2
      <4> QED BY <1>2, <4>1 DEF Pending, Todo, Below, AtOrBelow
    <3> QED BY <3>1, <3>2
  <2> QED BY <2>1, <2>2
<1>6. EndOK'
  BY <1>2 DEF CoverInv, EndOK
<1> QED BY <1>1, <1>4, <1>5, <1>6 DEF CoverInv, CoverOK

(* A call of Walk has done all it had to and returns nil.                  *)
LEMMA CoverReturns ==
    ASSUME CoverInv, WalkInv', stack # <<>>, ReturnNil, Top.at # "list", Top.todo = {},
           ~InCallback, call' = NoCall, UNCHANGED <<tree, touched, changes, visits, skipped, unlisted>>
    PROVE  CoverInv'
<1>1. stack' = Front(stack) /\ result' = IF Len(stack) = 1 THEN "nil" ELSE result
  BY DEF ReturnNil, Pop
<1>2. /\ TreeOK' /\ \A e : Seen(e)' <=> Seen(e)
      /\ \A k : Wanted(k)' => Wanted(k)
  BY TreeStays DEF CoverInv, fsvars
<1>3. /\ Len(stack') = Len(stack) - 1 /\ Len(stack) \in Nat \ {0}
      /\ stack' \in Seq(Fr) /\ Top = stack[Len(stack)]
      /\ \A i \in 1..(Len(stack) - 1) : stack'[i] = stack[i]
  BY <1>1, RemoveTop, TopIsLast DEF CoverInv, WalkInv, WalkType
<1>4. FilesOK'
  <2>1. ASSUME NEW i \in 1..Len(stack'), NEW g, g = stack'[i] PROVE Files(g)'
    <3>1. Files(g)
      BY <1>3, <2>1 DEF CoverInv, FilesOK
    <3> QED BY <1>2, <3>1 DEF Files
  <2> QED BY <2>1 DEF FilesOK, Files, InCallback
<1>5. result = "running" /\ Running
  BY DEF CoverInv, EndOK, Running
<1>6. ASSUME NEW k \in Key, Wanted(k)' PROVE visits'[k] > 0 \/ Pending(k)'
  <2>1. visits[k] > 0 \/ \E i \in 1..Len(stack) : Todo(stack[i], k)
    BY <1>2, <1>5, <1>6 DEF CoverInv, CoverOK, Pending, InCall
  <2>2. ~Todo(Top, k)
    BY DEF Todo
  <2>3. ASSUME NEW i \in 1..Len(stack), Todo(stack[i], k) PROVE Pending(k)'
    <3>1. i \in 1..Len(stack') /\ stack'[i] = stack[i]
      BY <1>3, <2>2, <2>3
    <3>2. Todo(stack'[i], k)
      BY <2>3, <3>1
    <3> QED BY <3>1, <3>2 DEF Pending, Todo, Below, AtOrBelow
  <2> QED BY <2>1, <2>3
<1>7. EndOK'
  BY <1>1, <1>3, <1>5, EmptySeq DEF EndOK
<1> QED BY <1>2, <1>4, <1>6, <1>7 DEF CoverInv, CoverOK

(* All calls of Walk return an error.                                      *)
LEMMA CoverFinishes ==
    ASSUME CoverInv, WalkInv', NEW r, r \notin {"running", "nil"}, Finish(r), call' = NoCall,
           UNCHANGED <<tree, touched, changes, visits, skipped, unlisted>>
    PROVE  CoverInv'
<1>1. TreeOK'
  BY TreeStays DEF CoverInv, fsvars
<1>2. stack' = <<>> /\ Len(stack') = 0 /\ result' = r
  BY DEF Finish
<1>3. FilesOK' /\ CoverOK' /\ EndOK'
  BY <1>2 DEF FilesOK, InCallback, CoverOK, Running, EndOK
<1> QED BY <1>1, <1>3 DEF CoverInv

LEMMA CoverDescends ==
    ASSUME CoverInv, WalkInv', ~Mounted, call # NoCall, ADir, Descend, call' = NoCall,
           UNCHANGED <<tree, touched, changes, visits, skipped, unlisted>>
    PROVE  CoverInv'
<1>1. /\ stack # <<>> /\ Top.at = "loop" /\ EntryOf(call, Top.prefix)
  BY DEF CoverInv, WalkInv, CallOK, ADir
<1>2. /\ TreeOK' /\ \A e : Seen(e)' <=> Seen(e)
      /\ \A k : Wanted(k)' => Wanted(k)
  BY TreeStays DEF CoverInv, fsvars
<1>3. SubPrefix(Top.prefix, call.key) = call.place
  <2>1. call.place \in Place /\ call.place # <<>> /\ Parent(call.place) = Top.prefix
        /\ call.key = call.place
    BY <1>1, KeysArePlaces DEF EntryOf, Ent
  <2>2. Below(call.place, Top.prefix)
    BY <2>1, BelowParent
  <2> QED BY <2>1, <2>2 DEF SubPrefix, Below
<1>4. PICK fr \in Fr : fr = Frame(call.place) /\ fr.prefix = call.place /\ fr.at = "list" /\ fr.todo = {}
  <2>1. call.place \in Place
    BY <1>1, KeysArePlaces DEF EntryOf, Ent
  <2>2. Frame(call.place) \in Fr
    BY <2>1 DEF Frame, Fr, Where
  <2> QED BY <2>2 DEF Frame
<1>5. stack' = Append(stack, fr) /\ result' = result
  BY <1>3, <1>4 DEF Descend
<1>6. /\ Len(stack') = Len(stack) + 1 /\ Len(stack) \in Nat
      /\ stack'[Len(stack) + 1] = fr
      /\ \A i \in 1..Len(stack) : stack'[i] = stack[i]
  BY <1>5, AppendProperties, LenProperties DEF CoverInv, WalkInv, WalkType
<1>7. FilesOK'
  <2>1. ASSUME NEW i \in 1..Len(stack'), NEW g, g = stack'[i] PROVE Files(g)'
    <3>1. Files(g)
      BY <1>4, <1>6, <2>1 DEF CoverInv, FilesOK, Files
    <3> QED BY <1>2, <3>1 DEF Files
  <2> QED BY <2>1 DEF FilesOK, Files, InCallback
<1>8. ASSUME NEW k \in Key, Wanted(k)', Running' PROVE visits'[k] > 0 \/ Pending(k)'
  <2>1. visits[k] > 0 \/ Pending(k)
    BY <1>2, <1>5, <1>8 DEF CoverInv, CoverOK, Running
  <2>2. ASSUME NEW i \in 1..Len(stack), Todo(stack[i], k) PROVE Pending(k)'
    <3>1. i \in 1..Len(stack') /\ Todo(stack'[i], k)
      BY <1>6, <2>2
    <3> QED BY <3>1 DEF Pending, Todo, Below, AtOrBelow
  <2>3. ASSUME InCall(k) PROVE Pending(k)'
    <3>1. Todo(fr, k)
      BY <1>4, <2>3 DEF InCall, Todo
    <3>2. Len(stack) + 1 \in 1..Len(stack') /\ Todo(stack'[Len(stack) + 1], k)
      BY <1>6, <3>1
    <3> QED BY <3>2 DEF Pending, Todo, Below, AtOrBelow
  <2> QED BY <2>1, <2>2, <2>3 DEF Pending
<1>9. EndOK'
  BY <1>1, <1>5 DEF CoverInv, EndOK
<1> QED BY <1>2, <1>7, <1>8, <1>9 DEF CoverInv, CoverOK

(* The callback returns and leaves Walk where it is: it was called for a   *)
(* file, or wants a directory skipped.                                     *)
LEMMA CoverStays ==
    ASSUME CoverInv, WalkInv', call # NoCall, call' = NoCall, stack' = stack, result' = result,
           AFile \/ skipped' = skipped \cup {call.place}, skipped \subseteq skipped',
           UNCHANGED <<tree, touched, changes, visits, unlisted>>
    PROVE  CoverInv'
<1>1. /\ TreeOK' /\ \A e : Seen(e)' <=> Seen(e)
      /\ \A k : Wanted(k)' => Wanted(k)
  BY TreeStays DEF CoverInv, fsvars
<1>2. FilesOK'
  <2>1. ASSUME NEW i \in 1..Len(stack'), NEW g, g = stack'[i] PROVE Files(g)'
    BY <1>1, <2>1 DEF CoverInv, FilesOK, Files
  <2> QED BY <2>1 DEF FilesOK, Files, InCallback
<1>3. ASSUME NEW k \in Key, Wanted(k)', Running' PROVE visits'[k] > 0 \/ Pending(k)'
  <2>1. ~InCall(k)
    BY <1>3 DEF InCall, AFile, Wanted, Below
  <2>2. visits[k] > 0 \/ \E i \in 1..Len(stack) : Todo(stack[i], k)
    BY <1>1, <1>3, <2>1 DEF CoverInv, CoverOK, Running, Pending
  <2> QED BY <2>2 DEF Pending, Todo, Below, AtOrBelow
<1>4. EndOK'
  BY DEF CoverInv, EndOK
<1> QED BY <1>1, <1>2, <1>3, <1>4 DEF CoverInv, CoverOK

(* The step that moves the innermost call on in its loop.                  *)
LEMMA CoverInLoop ==
    ASSUME CoverInv, WalkInv', stack # <<>>, call = NoCall,
           NEW a \in {"loop", "checked", "failed"}, SetTop([Top EXCEPT !.at = a]),
           UNCHANGED <<tree, touched, changes, visits, skipped, result>>,
           unlisted \subseteq unlisted', a = "failed" \/ call' = NoCall,
           \A k \in Key : Top.at = "list" /\ Below(k, Top.prefix) => ~Wanted(k)'
    PROVE  CoverInv'
<1>1. Top \in Fr /\ Top = stack[Len(stack)] /\ Len(stack) \in Nat \ {0}
  BY TopIsLast DEF CoverInv, WalkInv
<1>2. PICK fr \in Fr : /\ fr = [Top EXCEPT !.at = a]
                       /\ fr.prefix = Top.prefix /\ fr.at = a /\ fr.todo = Top.todo
  <2>1. PICK top \in Fr : top = Top
    BY <1>1
  <2>2. /\ [top EXCEPT !.at = a] \in Fr
        /\ [top EXCEPT !.at = a].prefix = top.prefix
        /\ [top EXCEPT !.at = a].at = a
        /\ [top EXCEPT !.at = a].todo = top.todo
    BY DEF Fr, Where
  <2> QED BY <2>1, <2>2, Zenon
<1>3. Files(fr)
  BY <1>1, <1>2 DEF CoverInv, FilesOK, Files
<1>4. \A k \in Key : Todo(Top, k) /\ Wanted(k)' => Todo(fr, k)
  BY <1>2 DEF Todo
<1>5. stack' = Append(Front(stack), fr) /\ result' = result
  BY <1>2 DEF SetTop
<1>6. ~InCallback'
  <2>1. Top' = fr
    BY <1>1, <1>2, <1>5, ReplaceTop DEF CoverInv, WalkInv, WalkType, Top, Last
  <2> QED BY <1>2, <2>1 DEF InCallback
<1> QED BY <1>2, <1>3, <1>4, <1>5, <1>6, CoverGoesOn DEF fsvars

LEMMA CoverList == ~Mounted /\ CoverInv /\ List => CoverInv'
<1> SUFFICES ASSUME ~Mounted, CoverInv, List PROVE CoverInv'
  OBVIOUS
<1>1. WalkInv'
  BY StepList DEF CoverInv
<1> DEFINE place(k) == [key |-> Listed(Top.prefix, k), file |-> IsFile(k), place |-> k]
           found == {place(k) : k \in Children(Top.prefix)}
<1>2. /\ stack # <<>> /\ Top.at = "list" /\ call = NoCall /\ call' = NoCall
      /\ visits' = visits /\ skipped' = skipped /\ unlisted' = unlisted /\ result' = result
      /\ stack' = Append(Front(stack), [Top EXCEPT !.at = "loop", !.todo = found])
      /\ UNCHANGED fsvars
  BY DEF List, At, SetTop
<1>3. Top \in Fr /\ FrameOK(Top) /\ Top.prefix \in Place
  BY <1>2, TopIsLast DEF CoverInv, WalkInv, StackOK, Fr
<1>4. ASSUME NEW k \in Children(Top.prefix)
      PROVE  /\ place(k) \in Ent /\ place(k).place = k
             /\ Seen(place(k))
  <2>1. k \in Key
    BY DEF Children
  <2>2. place(k) \in Ent /\ place(k).place = k /\ place(k).file = IsFile(k)
    BY <2>1 DEF Listed, IsFile, Ent
  <2>3. IsFile(k) => Hollow(k)
    BY <2>1, ValAssumption DEF IsFile, Hollow, Standing, CoverInv, TreeOK
  <2> QED BY <2>1, <2>2, <2>3 DEF Seen
<1>5. PICK u \in SUBSET Ent : u = found
  BY <1>4
<1>6. /\ \A e \in u : \E k \in Children(Top.prefix) : e = place(k)
      /\ \A k \in Children(Top.prefix) : place(k) \in u
  BY <1>5
<1> HIDE DEF found, place
<1>7. PICK fr \in Fr : /\ fr = [Top EXCEPT !.at = "loop", !.todo = found]
                       /\ fr.prefix = Top.prefix /\ fr.at = "loop" /\ fr.todo = u
  <2>1. PICK top \in Fr : top = Top
    BY <1>3
  <2>2. /\ [top EXCEPT !.at = "loop", !.todo = u] \in Fr
        /\ [top EXCEPT !.at = "loop", !.todo = u].prefix = top.prefix
        /\ [top EXCEPT !.at = "loop", !.todo = u].at = "loop"
        /\ [top EXCEPT !.at = "loop", !.todo = u].todo = u
    BY DEF Fr, Where
  <2> QED BY <1>5, <2>1, <2>2, Zenon
<1>8. Files(fr)
  BY <1>4, <1>6, <1>7 DEF Files
<1>9. ASSUME NEW k \in Key, Todo(Top, k), Wanted(k)' PROVE Todo(fr, k)
  <2>1. Below(k, Top.prefix)
    BY <1>2, <1>3, <1>9 DEF Todo, FrameOK
  <2>2. tree[k] # Absent
    BY <1>2, <1>9 DEF Wanted, Standing, fsvars
  <2>3. PICK c \in Key : c # <<>> /\ Parent(c) = Top.prefix /\ AtOrBelow(k, c)
    BY <1>3, <2>1, Ancestor
  <2>4. tree[c] # Absent
    BY <2>2, <2>3, ValAssumption DEF CoverInv, TreeOK, AtOrBelow
  <2>5. c \in Children(Top.prefix)
    BY <2>3, <2>4 DEF Children
  <2>6. place(c) \in fr.todo /\ place(c).place = c
    BY <1>4, <1>6, <1>7, <2>5
  <2> QED BY <2>3, <2>6 DEF Todo
<1>10. ~InCallback'
  BY <1>2 DEF InCallback
<1> QED BY <1>1, <1>2, <1>7, <1>8, <1>9, <1>10, CoverGoesOn

LEMMA CoverVisit == CoverInv /\ Visit => CoverInv'
<1> SUFFICES ASSUME CoverInv, Visit PROVE CoverInv'
  OBVIOUS
<1>1. WalkInv'
  BY StepVisit DEF CoverInv
<1>2. PICK e \in Top.todo : /\ SetTop([Top EXCEPT !.at = "loop", !.todo = @ \ {e}])
                            /\ CallBack(e)
                            /\ visits' = [visits EXCEPT ![e.place] = IF @ < 2 THEN @ + 1 ELSE @]
  BY DEF Visit
<1>3. /\ stack # <<>> /\ Top.at = "checked" /\ skipped' = skipped /\ unlisted' = unlisted
      /\ call = NoCall /\ call' = e /\ result' = result /\ UNCHANGED fsvars
  BY <1>2 DEF Visit, At, CallBack
<1>4. Top \in Fr /\ Len(stack) \in Nat \ {0} /\ Top = stack[Len(stack)] /\ e \in Ent
  BY <1>3, TopIsLast DEF CoverInv, WalkInv, Fr
<1>5. PICK fr \in Fr : /\ fr = [Top EXCEPT !.at = "loop", !.todo = @ \ {e}]
                       /\ fr.prefix = Top.prefix /\ fr.at = "loop" /\ fr.todo = Top.todo \ {e}
  <2>1. PICK top \in Fr : top = Top
    BY <1>4
  <2>2. PICK u \in SUBSET Ent : u = Top.todo \ {e}
    BY <1>4 DEF Fr
  <2>3. /\ [top EXCEPT !.at = "loop", !.todo = u] \in Fr
        /\ [top EXCEPT !.at = "loop", !.todo = u].prefix = top.prefix
        /\ [top EXCEPT !.at = "loop", !.todo = u].at = "loop"
        /\ [top EXCEPT !.at = "loop", !.todo = u].todo = u
    BY DEF Fr, Where
  <2>4. [top EXCEPT !.at = "loop", !.todo = u] = [Top EXCEPT !.at = "loop", !.todo = @ \ {e}]
    BY <2>1, <2>2, Zenon
  <2> QED BY <2>1, <2>2, <2>3, <2>4, Zenon
<1>6. stack' = Append(Front(stack), fr)
  BY <1>2, <1>5 DEF SetTop
<1>7. /\ stack' # <<>> /\ Top' = fr
  BY <1>3, <1>4, <1>5, <1>6, ReplaceTop DEF CoverInv, WalkInv, WalkType, Top, Last
<1>8. InCallback' /\ e # NoCall
  BY <1>3, <1>4, <1>5, <1>7, CallAssumption DEF InCallback, Ent
<1>9. Files(fr) /\ Seen(e)
  BY <1>4, <1>5 DEF CoverInv, FilesOK, Files
<1>10. /\ e.place \in Key /\ visits'[e.place] > 0
       /\ \A k \in Key : visits[k] > 0 => visits'[k] > 0
  BY <1>2, <1>4 DEF CoverInv, WalkInv, WalkType, Ent
<1>11. ASSUME NEW k \in Key, Todo(Top, k), Wanted(k)'
       PROVE  Todo(fr, k) \/ InCall(k)' \/ visits'[k] > 0
  <2>1. PICK f \in Top.todo : AtOrBelow(k, f.place)
    BY <1>3, <1>11 DEF Todo
  <2>2. CASE f # e
    BY <1>5, <2>1, <2>2 DEF Todo
  <2>3. CASE k = e.place
    BY <1>10, <2>3
  <2>4. CASE f = e /\ Below(k, e.place)
    <3>1. Standing(k)
      BY <1>3, <1>11 DEF Wanted, Standing, fsvars
    <3>2. ~e.file
      BY <1>9, <2>4, <3>1 DEF Seen, Hollow
    <3> QED BY <1>3, <1>8, <2>4, <3>2 DEF InCall, Below
  <2> QED BY <2>1, <2>2, <2>3, <2>4 DEF AtOrBelow
<1> QED BY <1>1, <1>3, <1>5, <1>6, <1>9, <1>10, <1>11, CoverGoesOn

LEMMA CoverWalk == ~Mounted /\ CoverInv /\ WalkStep => CoverInv'
<1> SUFFICES ASSUME ~Mounted, CoverInv, WalkStep PROVE CoverInv'
  OBVIOUS
<1>1. WalkInv'
  BY StepWalk DEF CoverInv
<1>2. CASE List
  BY <1>2, CoverList
(* A listing without entries: nothing stands there.                        *)
<1>3. CASE ListNothing
  <2>1. /\ stack # <<>> /\ call = NoCall /\ call' = NoCall /\ SetTop([Top EXCEPT !.at = "loop"])
        /\ Top.prefix \in Key => tree[Top.prefix] # Dir
        /\ UNCHANGED <<tree, touched, changes, visits, skipped, unlisted, result>>
    BY <1>3 DEF ListNothing, At, fsvars
  <2>2. ASSUME NEW k \in Key, Below(k, Top.prefix) PROVE ~Wanted(k)'
    <3>1. Top.prefix \in Place
      BY <2>1, TopIsLast DEF CoverInv, WalkInv, Fr
    <3>2. Top.prefix \in Key
      BY <2>2, <3>1, Ancestor
    <3>3. tree[k] = Absent
      BY <2>1, <2>2, <3>2 DEF CoverInv, TreeOK
    <3> QED BY <2>1, <3>3 DEF Wanted, Standing
  <2> QED BY <1>1, <2>1, <2>2, CoverInLoop
<1>4. CASE ListFails
  <2>1. /\ stack # <<>> /\ call = NoCall /\ SetTop([Top EXCEPT !.at = "failed"])
        /\ unlisted' = unlisted \cup {Top.prefix}
        /\ UNCHANGED <<tree, touched, changes, visits, skipped, result>>
    BY <1>4 DEF ListFails, At, fsvars
  <2>2. \A k \in Key : Below(k, Top.prefix) => ~Wanted(k)'
    BY <2>1 DEF Wanted, Below
  <2> QED BY <1>1, <2>1, <2>2, CoverInLoop
<1>5. CASE Check
  <2>1. /\ stack # <<>> /\ call = NoCall /\ call' = NoCall /\ Top.at = "loop"
        /\ UNCHANGED <<tree, touched, changes, visits, skipped, unlisted>>
    BY <1>5 DEF Check, At, fsvars
  <2>2. CASE cancelled
    BY <1>1, <1>5, <2>1, <2>2, CoverFinishes DEF Check
  <2>3. CASE ~cancelled
    BY <1>1, <1>5, <2>1, <2>3, CoverInLoop DEF Check
  <2> QED BY <2>2, <2>3
<1>6. CASE Visit
  BY <1>6, CoverVisit
<1>7. CASE EndOfLoop
  BY <1>1, <1>7, CoverReturns DEF EndOfLoop, At, InCallback, fsvars
<1> QED BY <1>2, <1>3, <1>4, <1>5, <1>6, <1>7 DEF WalkStep

LEMMA CoverCallback ==
    ASSUME ~Mounted, CoverInv, NEW r \in {"nil", "skip", "stop"}, CallbackReturns(r),
           UNCHANGED fsvars
    PROVE  CoverInv'
<1>1. WalkInv' /\ UNCHANGED <<tree, touched, changes, visits, unlisted>>
  BY StepCallback DEF CoverInv, CallbackReturns, fsvars
<1>2. call # NoCall /\ call' = NoCall /\ stack # <<>>
  BY DEF CallbackReturns, CoverInv, WalkInv, CallOK
<1>3. CASE ADir /\ r = "nil" /\ Descend /\ UNCHANGED skipped
  BY <1>1, <1>2, <1>3, CoverDescends
<1>4. CASE ADir /\ r = "skip" /\ skipped' = skipped \cup {call.place} /\ UNCHANGED <<stack, result>>
  BY <1>1, <1>2, <1>4, CoverStays
<1>5. CASE AFile /\ r = "nil" /\ UNCHANGED <<stack, result, skipped>>
  BY <1>1, <1>2, <1>5, CoverStays
<1>6. CASE Over /\ r = "nil" /\ ReturnNil /\ UNCHANGED skipped
  <2>1. Top.at = "failed" /\ Top.todo = {}
    BY <1>2, <1>6, TopIsLast DEF Over, CoverInv, WalkInv, StackOK, FrameOK
  <2> QED BY <1>1, <1>2, <1>6, <2>1, CoverReturns DEF InCallback
<1>7. CASE r # "nil" /\ Finish(r) /\ UNCHANGED skipped
  BY <1>1, <1>2, <1>7, CoverFinishes
<1> QED BY <1>3, <1>4, <1>5, <1>6, <1>7 DEF CallbackReturns

LEMMA CoverStarts == Init => CoverInv
<1> SUFFICES ASSUME Init PROVE CoverInv
  OBVIOUS
<1>1. /\ stack = <<Frame(Prefix)>> /\ call = NoCall /\ result = "running" /\ tree \in Trees
  BY DEF Init
<1>2. Len(stack) = 1 /\ stack[1] = Frame(Prefix)
  BY <1>1
<1>3. Frame(Prefix).at = "list" /\ Frame(Prefix).prefix = Prefix /\ Frame(Prefix).todo = {}
  BY DEF Frame
<1>4. TreeOK
  BY <1>1, TreesAssumption DEF TreeOK, Below
<1>5. FilesOK
  BY <1>1, <1>2, <1>3 DEF FilesOK, Files, InCallback
<1>6. \A k \in Key : Wanted(k) => Pending(k)
  BY <1>2, <1>3 DEF Wanted, Pending, Todo
<1> QED BY <1>1, <1>4, <1>5, <1>6, WalkInvStarts DEF CoverInv, CoverOK, EndOK

LEMMA CoverKept == ~Mounted /\ CoverInv /\ [Next]_vars => CoverInv'
<1> SUFFICES ASSUME ~Mounted, CoverInv, [Next]_vars PROVE CoverInv'
  OBVIOUS
<1>1. CASE WalkStep
  BY <1>1, CoverWalk
<1>2. CASE Callback
  BY <1>2, CoverCallback DEF Callback
<1>3. CASE Clients
  BY <1>3, CoverClients
<1>4. CASE UNCHANGED vars
  <2>1. UNCHANGED <<fsvars, tree, touched, stack, call, result, visits, skipped, unlisted>>
    BY <1>4 DEF vars, fsvars, walkvars
  <2>2. WalkInv'
    BY <2>1, StepOther DEF CoverInv
  <2>3. /\ TreeOK' /\ \A e : Seen(e)' <=> Seen(e)
        /\ \A k : Wanted(k)' => Wanted(k)
    BY <2>1, TreeStays DEF CoverInv
  <2>4. Top' = Top /\ (InCallback' <=> InCallback)
    BY <2>1 DEF Top, Last, InCallback
  <2>5. FilesOK' /\ EndOK'
    BY <2>1, <2>3, <2>4 DEF CoverInv, FilesOK, Files, EndOK
  <2>6. \A k : Pending(k) => Pending(k)'
    BY <2>1, <2>4 DEF Pending, InCall, Todo, Below, AtOrBelow
  <2>7. CoverOK'
    BY <2>1, <2>3, <2>6 DEF CoverInv, CoverOK, Running
  <2> QED BY <2>2, <2>3, <2>5, <2>7 DEF CoverInv
<1> QED BY <1>1, <1>2, <1>3, <1>4 DEF Next

LEMMA CoverIsComplete == CoverInv => Complete
<1> SUFFICES ASSUME CoverInv, result = "nil", NEW k \in Key, Wanted(k)
             PROVE  visits[k] = 1
  BY DEF Complete, Wanted, Standing
<1>1. stack = <<>> /\ call = NoCall
  BY DEF CoverInv, EndOK, WalkInv, CallOK
<1>2. ~Pending(k)
  BY <1>1 DEF Pending, InCall, InCallback
<1>3. visits[k] > 0
  BY <1>2 DEF CoverInv, CoverOK, Running
<1> QED BY <1>3 DEF CoverInv, WalkInv, WalkType, VisitedOnce

(* When Walk returns nil it has called the callback for every entry below  *)
(* its prefix that nobody changed, but for what the callback skipped and   *)
(* what lies below a directory of whose failed listing it was told         *)
(* (walk.go:27-60).                                                        *)
THEOREM NilIsComplete ==
    ASSUME ~Mounted
    PROVE  Spec => []Complete
<1>1. Init => CoverInv
  BY CoverStarts
<1>2. CoverInv /\ [Next]_vars => CoverInv'
  BY CoverKept
<1>3. CoverInv => Complete
  BY CoverIsComplete
<1> QED BY <1>1, <1>2, <1>3, PTL DEF Spec

----------------------------------------------------------------------------
(* After a cancellation.  How often the callback may still be called: for  *)
(* the entry the loop has been let go on to, and for a listing that fails. *)

Left == IF stack = <<>> THEN 0
        ELSE IF Top.at = "checked" THEN 2
        ELSE IF Top.at = "list" \/ (InCallback /\ ~call.file) THEN 1
        ELSE 0

LateOK == /\ late \in Nat
          /\ ~cancelled => late = 0
          /\ late + Left <= 2

(* The top of the stack once another frame has taken its place, or it is   *)
(* gone: every caller is in its loop.                                      *)
LEMMA NextTop ==
    ASSUME WalkInv, stack # <<>>
    PROVE  /\ \A fr : stack' = Append(Front(stack), fr) => stack' # <<>> /\ Top' = fr
           /\ stack' = Front(stack) => stack' = <<>> \/ Top'.at = "loop"
           /\ \A fr : stack' = Append(stack, fr) => stack' # <<>> /\ Top' = fr
<1>1. /\ stack \in Seq(Fr) /\ Front(stack) \in Seq(Fr) /\ Len(Front(stack)) = Len(stack) - 1
      /\ Len(stack) \in Nat \ {0} /\ \A i \in 1..(Len(stack) - 1) : Front(stack)[i] = stack[i]
  BY RemoveTop DEF WalkInv, WalkType
<1>2. ASSUME NEW s \in Seq(Fr), NEW fr, stack' = Append(s, fr)
      PROVE  stack' # <<>> /\ Top' = fr
  <2>1. Len(stack') = Len(s) + 1 /\ stack'[Len(stack')] = fr /\ Len(s) \in Nat
    BY <1>2
  <2> QED BY <2>1 DEF Top, Last
<1>3. ASSUME stack' = Front(stack), stack' # <<>> PROVE Top'.at = "loop"
  <2>1. Len(stack') \in 1..(Len(stack) - 1) /\ Len(stack) \in 1..Len(stack)
    BY <1>1, <1>3, EmptySeq
  <2>2. Top' = stack[Len(stack')] /\ Len(stack') \in 1..Len(stack) /\ Len(stack') < Len(stack)
    BY <1>1, <1>3, <2>1 DEF Top, Last
  <2>3. Inside(stack[Len(stack')], stack[Len(stack)])
    BY <2>1, <2>2 DEF WalkInv, StackOK
  <2> QED BY <2>2, <2>3 DEF Inside
<1> QED BY <1>1, <1>2, <1>3

LEMMA LateInWalk == WalkInv /\ LateOK /\ WalkStep => LateOK'
<1> SUFFICES ASSUME WalkInv, LateOK, WalkStep PROVE LateOK'
  OBVIOUS
<1>1. /\ stack # <<>> /\ call = NoCall /\ cancelled' = cancelled /\ late \in Nat
      /\ ~cancelled => late = 0
  BY DEF WalkStep, List, ListNothing, ListFails, Check, Visit, EndOfLoop, At, LateOK
<1>2. PICK top \in Fr : top = Top
  BY <1>1, TopIsLast DEF WalkInv
<1>3. \A x \in Where : [top EXCEPT !.at = x].at = x
  BY <1>2 DEF Fr
<1>4. \A x \in Where : \A y : [top EXCEPT !.at = x, !.todo = y].at = x
  BY <1>2 DEF Fr
(* Steps after which there is nothing left.                                *)
<1>5. ASSUME late' = late, call' = NoCall, stack' = <<>> \/ Top'.at = "loop" PROVE LateOK'
  BY <1>1, <1>5 DEF LateOK, Left, InCallback
<1>6. CASE List \/ ListNothing
  <2>1. \/ SetTop([Top EXCEPT !.at = "loop"])
        \/ \E y : SetTop([Top EXCEPT !.at = "loop", !.todo = y])
    BY <1>6 DEF List, ListNothing
  <2>2. CASE SetTop([Top EXCEPT !.at = "loop"])
    <3>1. Top' = [top EXCEPT !.at = "loop"]
      BY <1>1, <1>2, <2>2, NextTop DEF SetTop
    <3>2. Top'.at = "loop"
      BY <1>3, <3>1 DEF Where
    <3> QED BY <1>1, <1>5, <1>6, <3>2 DEF List, ListNothing
  <2>3. ASSUME NEW y, SetTop([Top EXCEPT !.at = "loop", !.todo = y]) PROVE LateOK'
    <3>1. Top' = [top EXCEPT !.at = "loop", !.todo = y]
      BY <1>1, <1>2, <2>3, NextTop DEF SetTop
    <3>2. Top'.at = "loop"
      BY <1>4, <3>1 DEF Where
    <3> QED BY <1>1, <1>5, <1>6, <3>2 DEF List, ListNothing
  <2> QED BY <2>1, <2>2, <2>3
<1>7. CASE ListFails
  <2>1. Top.at = "list" /\ Top' = [top EXCEPT !.at = "failed"] /\ stack' # <<>>
    BY <1>1, <1>2, <1>7, NextTop DEF ListFails, SetTop, At
  <2>2. Top'.at = "failed"
    BY <1>3, <2>1 DEF Where
  <2>3. Left = 1 /\ Left' = 0
    BY <1>1, <2>1, <2>2 DEF Left, InCallback
  <2>4. late' = late \/ (cancelled /\ late' = late + 1)
    BY <1>7 DEF ListFails, CallBack
  <2> QED BY <1>1, <2>3, <2>4 DEF LateOK
<1>8. CASE Check
  <2>1. CASE cancelled
    BY <1>1, <1>5, <1>8, <2>1 DEF Check, Finish
  <2>2. CASE ~cancelled
    <3>1. late' = 0 /\ cancelled' = cancelled
      BY <1>1, <1>8, <2>2 DEF Check
    <3>2. Left' = 0 \/ Left' = 1 \/ Left' = 2
      BY DEF Left
    <3>3. late' \in Nat /\ late' + Left' <= 2
      BY <3>1, <3>2
    <3> QED BY <3>1, <3>3 DEF LateOK
  <2> QED BY <2>1, <2>2
<1>9. CASE Visit
  <2>1. PICK e : Top' = [top EXCEPT !.at = "loop", !.todo = @ \ {e}] /\ stack' # <<>>
    BY <1>1, <1>2, <1>9, NextTop DEF Visit, SetTop
  <2>2. Top'.at = "loop"
    BY <1>2, <2>1 DEF Fr, Where
  <2>3. Left = 2 /\ Left' \in {0, 1}
    BY <1>1, <1>9, <2>1, <2>2 DEF Left, Visit, At
  <2>4. late' = late \/ (cancelled /\ late' = late + 1)
    BY <1>9 DEF Visit, CallBack
  <2> QED BY <1>1, <2>3, <2>4 DEF LateOK
<1>10. CASE EndOfLoop
  <2>1. stack' = Front(stack) /\ call' = NoCall /\ late' = late
    BY <1>1, <1>10 DEF EndOfLoop, ReturnNil, Pop
  <2> QED BY <1>1, <1>5, <2>1, NextTop
<1> QED BY <1>6, <1>7, <1>8, <1>9, <1>10 DEF WalkStep

LEMMA LateInCallback == WalkInv /\ LateOK /\ Callback => LateOK'
<1> SUFFICES ASSUME WalkInv, LateOK, NEW r \in {"nil", "skip", "stop"}, CallbackReturns(r),
                    cancelled' = cancelled
             PROVE  LateOK'
  BY DEF Callback
<1>1. /\ call # NoCall /\ call' = NoCall /\ stack # <<>> /\ late' = late /\ late \in Nat
      /\ Top.at \in {"loop", "failed"} /\ (~cancelled => late = 0)
  BY DEF CallbackReturns, WalkInv, CallOK, LateOK
<1>2. ASSUME stack' = <<>> \/ Top'.at = "loop" PROVE LateOK'
  BY <1>1, <1>2 DEF LateOK, Left, InCallback
<1>3. CASE ADir /\ Descend
  <2>1. Top' = Frame(SubPrefix(Top.prefix, call.key))
    BY <1>1, <1>3, NextTop DEF Descend
  <2>2. Top'.at = "list" /\ Left = 1
    BY <1>1, <1>3, <2>1 DEF Frame, Left, InCallback, ADir
  <2>3. Left' = 0 \/ Left' = 1
    BY <2>2 DEF Left
  <2>4. late + 1 <= 2
    BY <2>2 DEF LateOK
  <2>5. late' + Left' <= 2
    BY <1>1, <2>3, <2>4
  <2> QED BY <1>1, <2>5 DEF LateOK
<1>4. CASE stack' = stack /\ Top.at # "failed"
  <2>1. Top' = Top
    BY <1>4 DEF Top, Last
  <2> QED BY <1>1, <1>2, <1>4, <2>1
<1>5. CASE ReturnNil
  BY <1>1, <1>2, <1>5, NextTop DEF ReturnNil, Pop
<1>6. CASE stack' = <<>>
  BY <1>2, <1>6
<1> QED BY <1>3, <1>4, <1>5, <1>6 DEF CallbackReturns, Finish, ADir, AFile

(* After the context is cancelled the callback is called for one entry at  *)
(* most, and once more if that is a directory whose listing then fails     *)
(* (walk.go:33-36).                                                        *)
THEOREM CancelStops ==
    ASSUME ~Mounted
    PROVE  Spec => []StopsSoon
<1>1. Init => WalkInv /\ LateOK
  <2> SUFFICES ASSUME Init PROVE LateOK
    BY WalkInvStarts
  <2>1. late = 0 /\ stack # <<>> /\ call = NoCall /\ Left \in {0, 1, 2}
    BY DEF Init, Left
  <2> QED BY <2>1 DEF LateOK
<1>2. WalkInv /\ LateOK /\ [Next]_vars => (WalkInv /\ LateOK)'
  <2> SUFFICES ASSUME WalkInv, LateOK, [Next]_vars PROVE LateOK'
    BY WalkInvKept
  <2>1. CASE (Clients \/ UNCHANGED vars)
    <3>1. UNCHANGED walkvars /\ (cancelled => cancelled')
      BY <2>1 DEF Clients, Put, Delete, Cancel, Changes, vars
    <3>2. UNCHANGED <<stack, call, late>>
      BY <3>1 DEF walkvars
    <3> QED BY <3>1, <3>2 DEF LateOK, Left, InCallback, Top, Last
  <2> QED BY <2>1, LateInWalk, LateInCallback DEF Next
<1>3. LateOK => StopsSoon
  <2> SUFFICES ASSUME LateOK PROVE StopsSoon
    OBVIOUS
  <2>1. Left \in {0, 1, 2} /\ late \in Nat /\ late + Left <= 2
    BY DEF LateOK, Left
  <2> QED BY <2>1 DEF StopsSoon
<1> QED BY <1>1, <1>2, <1>3, PTL DEF Spec
=============================================================================
