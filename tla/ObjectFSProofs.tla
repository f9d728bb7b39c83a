--------------------------- MODULE ObjectFSProofs ----------------------------
(***************************************************************************)
(* Theorems about the object backend, for every number of clients, size of *)
(* a page and of a batch, every alphabet, base, prefix and set of keys.    *)
(*                                                                         *)
(* BatchDelete sends its batches in order.  BatchInv adds to the property  *)
(* that a call in progress has taken from the bucket only keys of batches  *)
(* it is done with; the batch at hand counts once the call has failed in   *)
(* it.                                                                     *)
(*                                                                         *)
(* List is complete, sound and has nothing twice.  ListInv says that the   *)
(* results come from an increasing sequence of entries, none after the     *)
(* token, each of an object there was, and that an object that was there   *)
(* all the time has its entry among them or after the token.  Two entries  *)
(* are never the same result (InfoInjective).                              *)
(***************************************************************************)
EXTENDS ObjectFS, TLAPS, SequenceTheorems, FiniteSetTheorems, WellFoundedInduction

InBatch(p) == pc[p] # "idle" /\ req[p].op = "batch"

(* The objects of the first n keys of a BatchDelete.                       *)
UpTo(p, n) == {S3Key(req[p].keys[i]) : i \in
                  {i \in DOMAIN req[p].keys : i <= n /\ req[p].keys[i] # BadKey}}

BatchType ==
    /\ pc \in [Proc -> {"idle", "call", "done"}]
    /\ req \in [Proc -> Calls \cup {NoReq}]
    /\ next \in [Proc -> Nat]
    /\ DOMAIN res = Proc
    /\ \A p \in Proc : pc[p] # "idle" => req[p] \in Calls

Going(p) == /\ UpTo(p, next[p]) \cap always[p] = {}
            /\ removed[p] \subseteq UpTo(p, next[p] + MaxBatch)

Answers(p) ==
    /\ pc[p] # "done" => res[p] # "ok"
    /\ InBatch(p) /\ res[p] = "ok" => next[p] >= Len(req[p].keys)
    /\ pc[p] = "idle" => removed[p] = {}

BatchInv == /\ BatchType
            /\ \A p \in Proc : Answers(p) /\ (InBatch(p) => Going(p))
            /\ \A p \in Proc : InBatch(p) /\ pc[p] = "call" =>
                  removed[p] \subseteq UpTo(p, next[p])

----------------------------------------------------------------------------
(* The objects of a batch are those of the next keys.                      *)
LEMMA BatchIsNext ==
    ASSUME BatchType, NEW p \in Proc, InBatch(p)
    PROVE  /\ req[p].keys \in Seq(Key \cup {BadKey})
           /\ UpTo(p, next[p]) \subseteq UpTo(p, next[p] + MaxBatch)
           /\ BadKey \notin Batch(p) =>
                 /\ {S3Key(k) : k \in Batch(p)} \subseteq UpTo(p, next[p] + MaxBatch)
                 /\ UpTo(p, next[p] + MaxBatch) \subseteq
                       UpTo(p, next[p]) \cup {S3Key(k) : k \in Batch(p)}
<1>1. req[p].keys \in Seq(Key \cup {BadKey})
  BY CallsAssumption DEF BatchType, InBatch, SingleOp
<1> DEFINE keys == req[p].keys
<1>2. DOMAIN keys = 1..Len(keys) /\ Len(keys) \in Nat
  BY <1>1
<1>3. next[p] \in Nat /\ MaxBatch \in Nat
  BY SizeAssumption DEF BatchType
<1>4. UpTo(p, next[p]) \subseteq UpTo(p, next[p] + MaxBatch)
  BY <1>2, <1>3 DEF UpTo
<1>5. ASSUME BadKey \notin Batch(p)
      PROVE  {S3Key(k) : k \in Batch(p)} \subseteq UpTo(p, next[p] + MaxBatch)
  BY <1>2, <1>3, <1>5 DEF UpTo, Batch
<1>6. ASSUME BadKey \notin Batch(p)
      PROVE  UpTo(p, next[p] + MaxBatch) \subseteq
                UpTo(p, next[p]) \cup {S3Key(k) : k \in Batch(p)}
  <2> SUFFICES ASSUME NEW x \in UpTo(p, next[p] + MaxBatch)
               PROVE  x \in UpTo(p, next[p]) \cup {S3Key(k) : k \in Batch(p)}
    OBVIOUS
  <2>1. PICK i \in DOMAIN keys : /\ i <= next[p] + MaxBatch /\ keys[i] # BadKey
                                 /\ x = S3Key(keys[i])
    BY DEF UpTo
  <2>2. CASE i <= next[p]
    BY <2>1, <2>2 DEF UpTo
  <2>3. CASE ~(i <= next[p])
    <3>1. i \in (next[p] + 1)..(next[p] + MaxBatch)
      BY <1>2, <1>3, <2>1, <2>3
    <3>2. keys[i] \in Batch(p)
      BY <2>1, <3>1 DEF Batch
    <3> QED BY <2>1, <3>2
  <2> QED BY <2>2, <2>3
<1> QED BY <1>1, <1>4, <1>5, <1>6

LEMMA BatchStarts == Init => BatchInv
<1> SUFFICES ASSUME Init PROVE BatchInv
  OBVIOUS
<1>1. BatchType
  BY DEF Init, BatchType
<1>2. ASSUME NEW p \in Proc PROVE Answers(p) /\ ~InBatch(p)
  BY DEF Init, Answers, InBatch
<1> QED BY <1>1, <1>2 DEF BatchInv

(* What a step of q leaves to the call of another client.                  *)
LEMMA OthersKeepOn ==
    ASSUME BatchInv, Remember, NEW p \in Proc,
           pc'[p] = pc[p], req'[p] = req[p], next'[p] = next[p], res'[p] = res[p]
    PROVE  /\ Answers(p)'
           /\ InBatch(p)' => Going(p)'
           /\ InBatch(p)' /\ (pc[p] = "call")' => (removed[p] \subseteq UpTo(p, next[p]))'
<1>1. Answers(p)'
  BY DEF BatchInv, Answers, InBatch, Remember
<1>2. ASSUME InBatch(p)'
      PROVE  always'[p] \subseteq always[p] /\ removed'[p] = removed[p]
  BY <1>2 DEF Remember, InBatch, SingleOp, BatchInv, BatchType
<1>3. \A n : UpTo(p, n)' = UpTo(p, n)
  BY DEF UpTo, S3Key
<1> QED BY <1>1, <1>2, <1>3 DEF BatchInv, InBatch, Going

(* A step of the call itself that sends nothing.                           *)
LEMMA Ends ==
    ASSUME BatchInv, Remember, NEW p \in Proc, InBatch(p), pc[p] = "call",
           bucket' = bucket, pc'[p] = "done", req'[p] = req[p], next'[p] = next[p],
           res'[p] = "ok" => next[p] >= Len(req[p].keys)
    PROVE  Answers(p)' /\ (InBatch(p)' => Going(p)')
<1>1. Answers(p)'
  BY DEF Answers, InBatch
<1>2. always'[p] \subseteq always[p] /\ removed'[p] \subseteq removed[p]
  BY DEF Remember, InBatch, SingleOp, BatchInv, BatchType
<1>3. \A n : UpTo(p, n)' = UpTo(p, n)
  BY DEF UpTo, S3Key
<1> QED BY <1>1, <1>2, <1>3 DEF BatchInv, Going

(* The request for a batch is answered.                                    *)
LEMMA Sends ==
    ASSUME BatchInv, Remember, NEW p \in Proc, BatchDelete(p)
    PROVE  /\ Answers(p)'
           /\ InBatch(p)' => Going(p)'
           /\ (removed[p] \subseteq UpTo(p, next[p]))'
<1>1. InBatch(p) /\ pc[p] = "call" /\ BadKey \notin Batch(p)
  BY DEF BatchDelete, Doing, InBatch
<1>2. /\ pc'[p] = pc[p] /\ req'[p] = req[p] /\ res'[p] = res[p]
      /\ next'[p] = next[p] + MaxBatch
      /\ bucket' = bucket \ {S3Key(k) : k \in Batch(p)}
  BY DEF BatchDelete, BatchInv, BatchType
<1> DEFINE gone == {S3Key(k) : k \in Batch(p)}
<1>3. /\ always'[p] \subseteq always[p] \ gone
      /\ removed'[p] \subseteq removed[p] \cup gone
  BY <1>1, <1>2 DEF Remember, InBatch, SingleOp, BatchInv, BatchType
<1>4. \A n : UpTo(p, n)' = UpTo(p, n)
  BY <1>2 DEF UpTo, S3Key
<1>5. /\ UpTo(p, next[p]) \subseteq UpTo(p, next[p] + MaxBatch)
      /\ gone \subseteq UpTo(p, next[p] + MaxBatch)
      /\ UpTo(p, next[p] + MaxBatch) \subseteq UpTo(p, next[p]) \cup gone
  BY <1>1, BatchIsNext DEF BatchInv
<1> HIDE DEF gone
<1>6. UpTo(p, next[p] + MaxBatch) \cap always'[p] = {}
  BY <1>1, <1>3, <1>5 DEF BatchInv, Going
<1>7. removed'[p] \subseteq UpTo(p, next[p] + MaxBatch)
  BY <1>1, <1>3, <1>5 DEF BatchInv
<1>8. (removed[p] \subseteq UpTo(p, next[p]))'
  BY <1>2, <1>4, <1>7
<1>9. Going(p)'
  <2>1. (UpTo(p, next[p]) \cap always[p] = {})'
    BY <1>2, <1>4, <1>6
  <2>2. next'[p] \in Nat /\ MaxBatch \in Nat /\ req'[p].keys \in Seq(Key \cup {BadKey})
    BY <1>1, <1>2, BatchIsNext, SizeAssumption DEF BatchInv, BatchType
  <2>3. (UpTo(p, next[p]) \subseteq UpTo(p, next[p] + MaxBatch))'
    BY <2>2 DEF UpTo
  <2> QED BY <1>8, <2>1, <2>3 DEF Going
<1>10. Answers(p)'
  BY <1>1, <1>2 DEF BatchInv, Answers
<1> QED BY <1>8, <1>9, <1>10

(* It fails, with some of the batch gone.                                  *)
LEMMA FailsInBatch ==
    ASSUME BatchInv, Remember, NEW p \in Proc, BatchFails(p)
    PROVE  Answers(p)' /\ Going(p)'
<1>1. InBatch(p) /\ pc[p] = "call" /\ BadKey \notin Batch(p)
  BY DEF BatchFails, Doing, InBatch
<1>2. /\ pc'[p] = "done" /\ req'[p] = req[p] /\ res'[p] = "error" /\ next'[p] = next[p]
  BY DEF BatchFails, Answer, BatchInv, BatchType
<1> DEFINE batch == {S3Key(k) : k \in Batch(p)}
<1>3. bucket \ bucket' \subseteq batch /\ bucket' \subseteq bucket
  BY DEF BatchFails
<1>4. /\ always'[p] \subseteq always[p]
      /\ removed'[p] \subseteq removed[p] \cup (bucket \ bucket')
  BY <1>1, <1>2 DEF Remember, InBatch, SingleOp, BatchInv, BatchType
<1>5. \A n : UpTo(p, n)' = UpTo(p, n)
  BY <1>2 DEF UpTo, S3Key
<1>6. batch \subseteq UpTo(p, next[p] + MaxBatch)
  BY <1>1, BatchIsNext DEF BatchInv
<1> HIDE DEF batch
<1>7. Answers(p)'
  BY <1>2 DEF Answers
<1> QED BY <1>1, <1>2, <1>3, <1>4, <1>5, <1>6, <1>7 DEF BatchInv, Going

(* A call begins.                                                          *)
LEMMA Begins ==
    ASSUME BatchInv, Remember, NEW p \in Proc, Call(p), BatchType'
    PROVE  /\ Answers(p)'
           /\ InBatch(p)' => Going(p)' /\ (removed[p] \subseteq UpTo(p, next[p]))'
<1>1. pc[p] = "idle" /\ pc'[p] = "call" /\ res'[p] = res[p] /\ next'[p] = 0
  BY DEF Call, BatchInv, BatchType
<1>2. Answers(p)'
  BY <1>1 DEF BatchInv, Answers
<1>3. ASSUME InBatch(p)' PROVE Going(p)' /\ (removed[p] \subseteq UpTo(p, next[p]))'
  <2>1. req'[p].keys \in Seq(Key \cup {BadKey})
    BY <1>3, CallsAssumption DEF BatchType, InBatch, SingleOp
  <2>2. UpTo(p, 0)' = {}
    BY <2>1 DEF UpTo
  <2>3. removed'[p] = {}
    BY <1>1, <1>3 DEF Remember, InBatch, BatchInv, Answers
  <2> QED BY <1>1, <2>2, <2>3 DEF Going
<1> QED BY <1>2, <1>3

LEMMA BatchTypeKept ==
    ASSUME BatchInv, Next PROVE BatchType'
<1>1. PICK p \in Proc : Step(p)
  BY DEF Next
<1>2. MaxBatch \in Nat
  BY SizeAssumption
<1>3. CASE \/ Put(p) \/ Delete(p) \/ Missing(p) \/ Read(p) \/ Copy(p)
           \/ Cancelled(p) \/ AllDone(p) \/ InvalidKey(p) \/ BatchFails(p)
  <2>1. pc[p] = "call" /\ next' = next /\ \E r \in {"ok", "error", "notfound"} : Answer(p, r)
    BY <1>3 DEF Put, Delete, Missing, Read, Copy, Cancelled, AllDone, InvalidKey,
                BatchFails, Send, Doing
  <2> QED BY <2>1 DEF Answer, BatchInv, BatchType
<1>4. CASE Call(p)
  BY <1>4 DEF Call, BatchInv, BatchType
<1>5. CASE Return(p)
  BY <1>5 DEF Return, BatchInv, BatchType
<1>6. CASE List(p)
  BY <1>6 DEF List, ListPage, ListEnd, Listing, Doing, BatchInv, BatchType
<1>7. CASE BatchDelete(p)
  BY <1>2, <1>7 DEF BatchDelete, Doing, BatchInv, BatchType
<1> QED BY <1>1, <1>3, <1>4, <1>5, <1>6, <1>7 DEF Step

(* The steps of the client p.                                              *)
LEMMA BatchStep ==
    ASSUME BatchInv, NEW p \in Proc, Step(p), Remember, BatchType'
    PROVE  /\ Answers(p)'
           /\ InBatch(p)' => Going(p)'
           /\ InBatch(p)' /\ (pc[p] = "call")' => (removed[p] \subseteq UpTo(p, next[p]))'
<1>1. CASE Call(p)
  BY <1>1, Begins
<1>2. CASE Return(p)
  <2>1. pc'[p] = "idle" /\ res'[p] = ""
    BY <1>2 DEF Return, BatchInv, BatchType
  <2> QED BY <2>1 DEF Answers, InBatch, Remember
<1>3. CASE \/ Put(p) \/ Delete(p) \/ Missing(p) \/ Read(p) \/ Copy(p)
           \/ List(p)
  <2>1. /\ pc[p] = "call" /\ req[p].op # "batch" /\ req' = req /\ pc'[p] \in {"call", "done"}
        /\ pc'[p] = "call" => res' = res
    BY <1>3 DEF Put, Delete, Missing, Read, Copy, Send, Doing, Answer,
                List, ListPage, ListEnd, Listing, BatchInv, BatchType
  <2> QED BY <2>1 DEF Answers, InBatch, BatchInv
<1>4. CASE Cancelled(p) \/ AllDone(p) \/ InvalidKey(p)
  <2>1. /\ pc[p] = "call" /\ bucket' = bucket /\ next' = next /\ req' = req /\ pc'[p] = "done"
        /\ res'[p] = "ok" => req[p].op = "batch" /\ next[p] >= Len(req[p].keys)
    BY <1>4 DEF Cancelled, AllDone, InvalidKey, Doing, Answer, BatchInv, BatchType
  <2>2. CASE InBatch(p)
    BY <2>1, <2>2, Ends
  <2>3. CASE ~InBatch(p)
    BY <2>1, <2>3 DEF InBatch, Answers, BatchInv
  <2> QED BY <2>1, <2>2, <2>3
<1>5. CASE BatchDelete(p)
  BY <1>5, Sends
<1>6. CASE BatchFails(p)
  <2>1. pc'[p] = "done"
    BY <1>6 DEF BatchFails, Answer, BatchInv, BatchType
  <2> QED BY <1>6, <2>1, FailsInBatch
<1> QED BY <1>1, <1>2, <1>3, <1>4, <1>5, <1>6 DEF Step

(* A step of p leaves the calls of the others where they are.              *)
LEMMA OthersStandStill ==
    ASSUME BatchInv, NEW p \in Proc, Step(p), NEW q \in Proc, q # p
    PROVE  pc'[q] = pc[q] /\ req'[q] = req[q] /\ next'[q] = next[q] /\ res'[q] = res[q]
  BY DEF Step, Call, Return, Cancelled, Put, Delete, Missing, Read, Copy, Send, Answer,
         List, ListPage, ListEnd, Listing, AllDone, InvalidKey, BatchDelete, BatchFails,
         BatchInv, BatchType

LEMMA BatchInvKept == BatchInv /\ [Next]_vars => BatchInv'
<1> SUFFICES ASSUME BatchInv, [Next]_vars PROVE BatchInv'
  OBVIOUS
<1>1. CASE Next
  <2>1. PICK p \in Proc : Step(p)
    BY <1>1 DEF Next
  <2>2. Remember /\ BatchType'
    BY <1>1, BatchTypeKept DEF Next
  <2>3. ASSUME NEW q \in Proc
        PROVE  /\ Answers(q)'
               /\ InBatch(q)' => Going(q)'
               /\ InBatch(q)' /\ (pc[q] = "call")' => (removed[q] \subseteq UpTo(q, next[q]))'
    <3>1. CASE q = p
      BY <2>1, <2>2, <3>1, BatchStep
    <3>2. CASE q # p
      <4>1. pc'[q] = pc[q] /\ req'[q] = req[q] /\ next'[q] = next[q] /\ res'[q] = res[q]
        BY <2>1, <3>2, OthersStandStill
      <4> QED BY <2>2, <4>1, OthersKeepOn
    <3> QED BY <3>1, <3>2
  <2> QED BY <2>2, <2>3 DEF BatchInv
<1>2. CASE UNCHANGED vars
  <2>1. /\ pc' = pc /\ req' = req /\ next' = next /\ res' = res
        /\ always' = always /\ removed' = removed
    BY <1>2 DEF vars, calls, hist
  <2>2. BatchType'
    BY <2>1 DEF BatchInv, BatchType
  <2>3. \A p \in Proc : \A n : UpTo(p, n)' = UpTo(p, n)
    BY <2>1 DEF UpTo, S3Key
  <2> QED BY <2>1, <2>2, <2>3 DEF BatchInv, Answers, InBatch, Going
<1> QED BY <1>1, <1>2

LEMMA BatchInvIsOrder == BatchInv => BatchesInOrder
<1> SUFFICES ASSUME BatchInv, NEW p \in Proc, pc[p] # "idle", req[p].op = "batch"
             PROVE  /\ UpTo(p, IF res[p] = "ok" THEN Len(req[p].keys) ELSE next[p])
                          \cap always[p] = {}
                    /\ removed[p] \subseteq UpTo(p, next[p] + MaxBatch)
  BY DEF BatchesInOrder, UpTo
<1>1. Going(p) /\ Answers(p) /\ InBatch(p)
  BY DEF BatchInv, InBatch
<1>2. CASE res[p] = "ok"
  <2>1. req[p].keys \in Seq(Key \cup {BadKey}) /\ next[p] \in Nat /\ next[p] >= Len(req[p].keys)
    BY <1>1, <1>2, BatchIsNext DEF BatchInv, BatchType, Answers
  <2>2. UpTo(p, Len(req[p].keys)) \subseteq UpTo(p, next[p])
    BY <2>1 DEF UpTo
  <2> QED BY <1>1, <1>2, <2>2 DEF Going
<1>3. CASE res[p] # "ok"
  BY <1>1, <1>3 DEF Going
<1> QED BY <1>2, <1>3

(* Whatever requests fail, in whole or in part, and whatever others put    *)
(* and delete, BatchDelete (objectfs.go:391-434) goes through its keys in  *)
(* order: when it answers nil each of them has been without an object, and *)
(* when it fails the keys after the batch at hand are untouched.           *)
THEOREM DeletesInOrder == Spec => []BatchesInOrder
<1>1. Init => BatchInv
  BY BatchStarts
<1>2. BatchInv /\ [Next]_vars => BatchInv'
  BY BatchInvKept
<1>3. BatchInv => BatchesInOrder
  BY BatchInvIsOrder
<1> QED BY <1>1, <1>2, <1>3, PTL DEF Spec

----------------------------------------------------------------------------
(* Strings and their order.                                                *)

Str == Seq(Letter)

(* The first n letters agree.                                              *)
LEMMA SameFirst ==
    ASSUME NEW s \in Str, NEW t \in Str, NEW n \in Nat, n <= Len(s), n <= Len(t)
    PROVE  SubSeq(s, 1, n) = SubSeq(t, 1, n) <=> \A i \in 1..n : s[i] = t[i]
<1>1. /\ Len(SubSeq(s, 1, n)) = n /\ Len(SubSeq(t, 1, n)) = n
      /\ \A i \in 1..n : SubSeq(s, 1, n)[i] = s[i] /\ SubSeq(t, 1, n)[i] = t[i]
  BY DEF Str
<1>2. SubSeq(s, 1, n) \in Str /\ SubSeq(t, 1, n) \in Str
  BY DEF Str
<1> QED BY <1>1, <1>2, SeqEqual DEF Str

LEMMA PrefixByIndex ==
    ASSUME NEW s \in Str, NEW t \in Str
    PROVE  IsPrefix(s, t) <=> Len(s) <= Len(t) /\ \A i \in 1..Len(s) : s[i] = t[i]
<1>1. Len(s) \in Nat /\ Len(t) \in Nat
  BY LenProperties DEF Str
<1> QED BY <1>1, SameFirst DEF IsPrefix

(* s comes before t because of what follows the first n letters.           *)
DiffersAfter(s, t, n) ==
    /\ n <= Len(s) /\ n < Len(t)
    /\ \A i \in 1..n : s[i] = t[i]
    /\ n = Len(s) \/ Rank[s[n + 1]] < Rank[t[n + 1]]

LEMMA LessByIndex ==
    ASSUME NEW s \in Str, NEW t \in Str
    PROVE  Less(s, t) <=> \E n \in Nat : DiffersAfter(s, t, n)
<1>1. Len(s) \in Nat /\ Len(t) \in Nat
  BY LenProperties DEF Str
<1>2. IsStrictPrefix(s, t) <=> DiffersAfter(s, t, Len(s))
  <2>1. Len(s) = Len(t) /\ (\A i \in 1..Len(s) : s[i] = t[i]) => s = t
    BY SeqEqual DEF Str
  <2> QED BY <1>1, <2>1, PrefixByIndex DEF IsStrictPrefix, DiffersAfter
<1>3. ASSUME NEW n \in 1..Len(s), n <= Len(t), Rank[s[n]] < Rank[t[n]],
             SubSeq(s, 1, n - 1) = SubSeq(t, 1, n - 1)
      PROVE  DiffersAfter(s, t, n - 1)
  <2>1. n - 1 \in Nat /\ n - 1 < Len(s) /\ n - 1 < Len(t) /\ (n - 1) + 1 = n
    BY <1>1, <1>3
  <2>2. \A i \in 1..(n - 1) : s[i] = t[i]
    BY <1>1, <1>3, <2>1, SameFirst
  <2> QED BY <1>1, <1>3, <2>1, <2>2 DEF DiffersAfter
<1>4. ASSUME NEW n \in Nat, DiffersAfter(s, t, n), n # Len(s)
      PROVE  \E m \in 1..Len(s) : /\ m <= Len(t) /\ Rank[s[m]] < Rank[t[m]]
                                  /\ SubSeq(s, 1, m - 1) = SubSeq(t, 1, m - 1)
  <2>1. n + 1 \in 1..Len(s) /\ n + 1 <= Len(t) /\ (n + 1) - 1 = n
    BY <1>1, <1>4 DEF DiffersAfter
  <2>2. SubSeq(s, 1, n) = SubSeq(t, 1, n)
    BY <1>1, <1>4, <2>1, SameFirst DEF DiffersAfter
  <2>3. Rank[s[n + 1]] < Rank[t[n + 1]]
    BY <1>4 DEF DiffersAfter
  <2> QED BY <2>1, <2>2, <2>3
<1> QED BY <1>1, <1>2, <1>3, <1>4 DEF Less

(* S3's order of keys is one.                                              *)
LEMMA LessIsOrder ==
    ASSUME NEW s \in Str, NEW t \in Str, NEW u \in Str
    PROVE  ~Less(s, s) /\ (Less(s, t) /\ Less(t, u) => Less(s, u))
<1>1. Len(s) \in Nat /\ Len(t) \in Nat /\ Len(u) \in Nat
  BY LenProperties DEF Str
<1>2. \A x \in Str : \A i \in 1..Len(x) : Rank[x[i]] \in Nat
  BY StringAssumption DEF Str
<1>3. ~Less(s, s)
  <2> SUFFICES ASSUME NEW n \in Nat, DiffersAfter(s, s, n) PROVE FALSE
    BY LessByIndex
  <2> QED BY <1>1, <1>2 DEF DiffersAfter
<1>4. ASSUME Less(s, t), Less(t, u) PROVE Less(s, u)
  <2>1. PICK m \in Nat : DiffersAfter(s, t, m)
    BY <1>4, LessByIndex
  <2>2. PICK n \in Nat : DiffersAfter(t, u, n)
    BY <1>4, LessByIndex
  <2>3. CASE m < n
    <3>1. m + 1 \in 1..n /\ m <= Len(s) /\ m < Len(u) /\ t[m + 1] = u[m + 1]
      BY <1>1, <2>1, <2>2, <2>3 DEF DiffersAfter
    <3>2. \A i \in 1..m : s[i] = u[i]
      BY <2>1, <2>2, <2>3 DEF DiffersAfter
    <3>3. DiffersAfter(s, u, m)
      BY <2>1, <3>1, <3>2 DEF DiffersAfter
    <3> QED BY <3>3, LessByIndex
  <2>4. CASE m = n
    <3>1. n # Len(t) /\ m < Len(u) /\ m <= Len(s)
      BY <1>1, <2>1, <2>2, <2>4 DEF DiffersAfter
    <3>2. \A i \in 1..m : s[i] = u[i]
      BY <2>1, <2>2, <2>4 DEF DiffersAfter
    <3>3. m = Len(s) \/ Rank[s[m + 1]] < Rank[u[m + 1]]
      <4> SUFFICES ASSUME m # Len(s) PROVE Rank[s[m + 1]] < Rank[u[m + 1]]
        OBVIOUS
      <4>1. m + 1 \in 1..Len(s) /\ m + 1 \in 1..Len(t) /\ m + 1 \in 1..Len(u)
        BY <1>1, <2>1, <3>1 DEF DiffersAfter
      <4>2. Rank[s[m + 1]] < Rank[t[m + 1]] /\ Rank[t[m + 1]] < Rank[u[m + 1]]
        BY <2>1, <2>2, <2>4, <3>1 DEF DiffersAfter
      <4>3. Rank[s[m + 1]] \in Nat /\ Rank[t[m + 1]] \in Nat /\ Rank[u[m + 1]] \in Nat
        BY <1>2, <4>1
      <4> QED BY <4>2, <4>3
    <3>4. DiffersAfter(s, u, m)
      BY <3>1, <3>2, <3>3 DEF DiffersAfter
    <3> QED BY <3>4, LessByIndex
  <2>5. CASE n < m
    <3>1. n # Len(t) /\ n < Len(u) /\ n <= Len(s) /\ n + 1 \in 1..m
      BY <1>1, <2>1, <2>2, <2>5 DEF DiffersAfter
    <3>2. \A i \in 1..n : s[i] = u[i]
      BY <2>1, <2>2, <2>5 DEF DiffersAfter
    <3>3. Rank[s[n + 1]] < Rank[u[n + 1]]
      BY <2>1, <2>2, <3>1 DEF DiffersAfter
    <3>4. DiffersAfter(s, u, n)
      BY <3>1, <3>2, <3>3 DEF DiffersAfter
    <3> QED BY <3>4, LessByIndex
  <2> QED BY <2>3, <2>4, <2>5
<1> QED BY <1>3, <1>4

LEMMA EmptyIsLeast ==
    ASSUME NEW s \in Str, s # <<>>
    PROVE  Less(<<>>, s)
<1>1. Len(s) \in Nat \ {0} /\ <<>> \in Str /\ Len(<<>>) = 0
  BY LenProperties, EmptySeq DEF Str
<1>2. DiffersAfter(<<>>, s, 0)
  BY <1>1 DEF DiffersAfter
<1> QED BY <1>1, <1>2, LessByIndex

(* Some relation on the natural numbers orders them, and every set of them *)
(* has a least element of it.                                              *)
LEMMA NatOrder ==
    \E R : /\ \A x, y \in Nat : x < y => <<x, y>> \in R
           /\ \A T : T \subseteq Nat /\ T # {} => \E x \in T : \A y \in T : ~(<<y, x>> \in R)
<1>1. ASSUME NEW R, IsWellFoundedOn(R, Nat)
      PROVE  \A T : T \subseteq Nat /\ T # {} => \E x \in T : \A y \in T : ~(<<y, x>> \in R)
  BY <1>1, WFMin
<1>2. \A x, y \in Nat : x < y => <<x, y>> \in OpToRel(<, Nat)
  BY DEF OpToRel
<1> QED BY <1>1, <1>2, NatLessThanWellFounded, Zenon

LEMMA LeastIndex ==
    ASSUME NEW ns \in SUBSET Nat, ns # {}
    PROVE  Min(ns) \in ns /\ \A n \in ns : Min(ns) <= n
<1>1. PICK R : /\ \A x, y \in Nat : x < y => <<x, y>> \in R
               /\ \A T : T \subseteq Nat /\ T # {} =>
                       \E x \in T : \A y \in T : ~(<<y, x>> \in R)
  BY NatOrder
<1>2. PICK i \in ns : \A j \in ns : ~(<<j, i>> \in R)
  BY <1>1, Zenon
<1>3. ASSUME NEW j \in ns PROVE i <= j
  <2>1. i \in Nat /\ j \in Nat
    OBVIOUS
  <2>2. ~(j < i)
    BY <1>1, <1>2, <2>1, Zenon
  <2> QED BY <2>1, <2>2
<1> QED BY <1>3 DEF Min

(* An entry is the key, or the part of it up to the first slash behind the *)
(* prefix.                                                                 *)
LEMMA EntryOfKey ==
    ASSUME NEW k \in Str, NEW P \in Str, IsPrefix(P, k), k # P, NEW e, e = Entry(k, P)
    PROVE  /\ e \in Str /\ Len(P) < Len(e) /\ Len(e) <= Len(k)
           /\ \A i \in 1..Len(e) : e[i] = k[i]
           /\ \A i \in (Len(P) + 1)..(Len(e) - 1) : e[i] # Slash
           /\ e[Len(e)] = Slash \/ (e = k /\ e[Len(e)] # Slash)
<1>1. Len(k) \in Nat /\ Len(P) \in Nat
  BY LenProperties DEF Str
<1>2. Len(P) < Len(k)
  <2>1. Len(P) <= Len(k) /\ \A i \in 1..Len(P) : P[i] = k[i]
    BY PrefixByIndex
  <2>2. Len(P) # Len(k)
    BY <2>1, SeqEqual DEF Str
  <2> QED BY <1>1, <2>1, <2>2
<1> DEFINE slashes == {n \in (Len(P) + 1)..Len(k) : k[n] = Slash}
<1>3. CASE slashes = {}
  <2>1. e = k
    BY <1>3 DEF Entry
  <2> QED BY <1>1, <1>2, <1>3, <2>1
<1>4. CASE slashes # {}
  <2>1. slashes \in SUBSET Nat
    BY <1>1
  <2>2. Min(slashes) \in slashes /\ \A n \in slashes : Min(slashes) <= n
    BY <1>4, <2>1, LeastIndex
  <2>3. PICK m : m = Min(slashes)
    OBVIOUS
  <2>4. e = SubSeq(k, 1, m)
    BY <1>4, <2>3 DEF Entry
  <2>5. m \in (Len(P) + 1)..Len(k) /\ k[m] = Slash /\ \A n \in slashes : m <= n
    BY <2>2, <2>3
  <2>6. m \in Nat /\ m <= Len(k) /\ Len(P) < m
    BY <1>1, <2>5
  <2>7. e \in Str /\ Len(e) = m /\ \A i \in 1..m : e[i] = k[i]
    BY <1>1, <2>4, <2>6 DEF Str
  <2>8. ASSUME NEW i \in (Len(P) + 1)..(m - 1) PROVE e[i] # Slash
    <3>1. i \in (Len(P) + 1)..Len(k) /\ i \in 1..m /\ ~(m <= i)
      BY <1>1, <2>6
    <3>2. i \notin slashes
      BY <2>5, <3>1
    <3> QED BY <2>7, <3>1, <3>2
  <2> QED BY <1>1, <2>5, <2>6, <2>7, <2>8
<1> QED BY <1>3, <1>4

----------------------------------------------------------------------------
(* What List asks for, and the entries it finds.                           *)

S3Keys == Foreign \cup {S3Key(k) : k \in Key}

(* The keys of clients, and what the key function makes of them.           *)
LEMMA CleanKey ==
    ASSUME NEW k \in Key \cup {KeyFunc[key] : key \in Key}
    PROVE  k \in Str /\ Len(k) \in Nat \ {0} /\ k[1] # Slash /\ k[Len(k)] # Slash
  BY KeyAssumption, LenProperties, EmptySeq DEF Clean, Last, Str

(* What List asks S3 for: the base, the prefix and a slash.                *)
LEMMA PrefixShape ==
    ASSUME NEW prefix \in Key \cup {<<>>}, NEW P, P = S3Prefix(prefix)
    PROVE  /\ P \in Str
           /\ \/ P = Base /\ prefix = <<>> /\ (P = <<>> \/ P[Len(P)] = Slash)
              \/ /\ Len(P) = Len(Base) + Len(prefix) + 1 /\ P[Len(P)] = Slash
                 /\ \A i \in 1..Len(Base) : P[i] = Base[i]
                 /\ \A i \in 1..Len(prefix) : P[Len(Base) + i] = prefix[i]
                 /\ prefix = <<>> => Base # <<>>
<1> DEFINE s == Base \o prefix
<1>1. Base \in Seq(Letter) /\ prefix \in Seq(Letter) /\ Slash \in Letter
  BY StringAssumption, CleanKey, EmptySeq DEF Str
<1>2. /\ s \in Seq(Letter) /\ Len(s) = Len(Base) + Len(prefix)
      /\ \A i \in 1..Len(Base) : s[i] = Base[i]
      /\ \A i \in 1..Len(prefix) : s[Len(Base) + i] = prefix[i]
      /\ Len(Base) \in Nat /\ Len(prefix) \in Nat
  <2> HIDE DEF s
  <2>1. \A i \in 1..Len(s) : s[i] = IF i <= Len(Base) THEN Base[i] ELSE prefix[i - Len(Base)]
    BY <1>1, ConcatProperties DEF s
  <2>2. s \in Seq(Letter) /\ Len(s) = Len(Base) + Len(prefix)
    BY <1>1, ConcatProperties DEF s
  <2>3. Len(Base) \in Nat /\ Len(prefix) \in Nat
    BY <1>1, LenProperties
  <2>4. \A i \in 1..Len(prefix) : /\ Len(Base) + i \in 1..Len(s) /\ ~(Len(Base) + i <= Len(Base))
                                  /\ (Len(Base) + i) - Len(Base) = i
    BY <2>2, <2>3
  <2> QED BY <2>1, <2>2, <2>3, <2>4
<1>3. P = IF s # <<>> /\ ~EndsInSlash(s) THEN Append(s, Slash) ELSE s
  BY DEF S3Prefix
<1>4. CASE s # <<>> /\ ~EndsInSlash(s)
  <2> HIDE DEF s
  <2>1. /\ P \in Seq(Letter) /\ Len(P) = Len(s) + 1 /\ P[Len(P)] = Slash
        /\ \A i \in 1..Len(s) : P[i] = s[i]
    BY <1>1, <1>2, <1>3, <1>4, AppendProperties
  <2>2. \A i \in 1..Len(Base) : P[i] = Base[i]
    BY <1>2, <2>1
  <2>3. \A i \in 1..Len(prefix) : P[Len(Base) + i] = prefix[i]
    BY SMTT(60), <1>2, <2>1
  <2>4. prefix = <<>> => Base # <<>>
    BY <1>1, <1>4 DEF s
  <2> QED BY <1>2, <2>1, <2>2, <2>3, <2>4 DEF Str
<1>5. CASE ~(s # <<>> /\ ~EndsInSlash(s))
  <2>1. P = s
    BY <1>3, <1>5
  <2>2. prefix = <<>>
    <3> SUFFICES ASSUME prefix \in Key PROVE FALSE
      OBVIOUS
    <3>1. Len(prefix) \in Nat \ {0} /\ prefix[Len(prefix)] # Slash
      BY CleanKey
    <3>2. s # <<>> /\ s[Len(s)] = prefix[Len(prefix)]
      <4> HIDE DEF s
      <4> QED BY <1>2, <3>1, EmptySeq
    <3> QED BY <1>5, <3>1, <3>2 DEF EndsInSlash, Last
  <2>3. P = Base
    BY <1>1, <2>1, <2>2
  <2>4. P = <<>> \/ P[Len(P)] = Slash
    BY <1>5, <2>1 DEF EndsInSlash, Last
  <2> QED BY <1>2, <2>1, <2>2, <2>3, <2>4 DEF Str
<1> QED BY <1>4, <1>5

LEMMA KeyShape ==
    ASSUME NEW key \in Key, NEW k, k = S3Key(key)
    PROVE  /\ k \in Str
           /\ Len(k) = Len(Base) + Len(KeyFunc[key])
           /\ \A i \in 1..Len(Base) : k[i] = Base[i]
           /\ \A i \in 1..Len(KeyFunc[key]) : k[Len(Base) + i] = KeyFunc[key][i]
<1> DEFINE f == KeyFunc[key]
<1>1. Base \in Seq(Letter)
  BY StringAssumption
<1>2. f \in Seq(Letter)
  BY CleanKey DEF Str
<1> HIDE DEF f
<1>3. k = Base \o f
  BY DEF S3Key, f
<1>4. /\ k \in Seq(Letter) /\ Len(k) = Len(Base) + Len(f)
      /\ \A i \in 1..Len(k) : k[i] = IF i <= Len(Base) THEN Base[i] ELSE f[i - Len(Base)]
  BY <1>1, <1>2, <1>3, ConcatProperties
<1>5. Len(Base) \in Nat /\ Len(f) \in Nat
  BY <1>1, <1>2, LenProperties
<1>6. \A i \in 1..Len(f) : /\ Len(Base) + i \in 1..Len(k) /\ ~(Len(Base) + i <= Len(Base))
                           /\ (Len(Base) + i) - Len(Base) = i
  BY <1>4, <1>5
<1> QED BY <1>1, <1>4, <1>5, <1>6 DEF Str, f

(* What List finds is what a client may have put.                          *)
LEMMA FoundKey ==
    ASSUME NEW prefix \in Key \cup {<<>>}, NEW P, P = S3Prefix(prefix),
           NEW k \in S3Keys, IsPrefix(P, k)
    PROVE  /\ k # P /\ k \in Str /\ k[Len(k)] # Slash
           /\ \E key \in Key : k = S3Key(key)
<1>1. P \in Str /\ Len(Base) <= Len(P) /\ Len(Base) \in Nat /\ Len(P) \in Nat
      /\ \A i \in 1..Len(Base) : P[i] = Base[i]
  <2>1. Len(Base) \in Nat /\ (prefix \in Key \cup {<<>>} => Len(prefix) \in Nat)
    BY StringAssumption, CleanKey, LenProperties, EmptySeq
  <2> QED BY <2>1, PrefixShape, LenProperties DEF Str
<1>2. k \in Str
  BY ForeignAssumption, KeyShape DEF S3Keys, Str
<1>3. IsPrefix(Base, k)
  <2>1. Len(P) <= Len(k) /\ \A i \in 1..Len(P) : P[i] = k[i]
    BY <1>1, <1>2, PrefixByIndex
  <2>2. Len(k) \in Nat
    BY <1>2, LenProperties DEF Str
  <2>3. Len(Base) <= Len(k) /\ \A i \in 1..Len(Base) : Base[i] = k[i]
    BY <1>1, <2>1, <2>2
  <2> QED BY <1>2, <2>3, PrefixByIndex, StringAssumption DEF Str
<1>4. PICK key \in Key : k = S3Key(key)
  BY <1>3, ForeignAssumption DEF S3Keys
<1>5. k[Len(k)] # Slash /\ Len(k) # 0
  <2>1. Len(KeyFunc[key]) \in Nat \ {0} /\ KeyFunc[key][Len(KeyFunc[key])] # Slash
    BY CleanKey
  <2>2. /\ Len(k) = Len(Base) + Len(KeyFunc[key])
        /\ \A i \in 1..Len(KeyFunc[key]) : k[Len(Base) + i] = KeyFunc[key][i]
    BY <1>4, KeyShape
  <2>3. k[Len(Base) + Len(KeyFunc[key])] = KeyFunc[key][Len(KeyFunc[key])]
    BY <2>1, <2>2
  <2> QED BY <1>1, <2>1, <2>2, <2>3
<1>6. k # P
  BY <1>5, PrefixShape, EmptySeq
<1> QED BY <1>2, <1>4, <1>5, <1>6

(* The entry of a child, as List makes a result of it.                     *)
LEMMA ChildEntry ==
    ASSUME NEW prefix \in Key \cup {<<>>}, NEW P, P = S3Prefix(prefix),
           NEW k \in S3Keys, IsPrefix(P, k), NEW e, e = Entry(k, P)
    PROVE  /\ e \in Str /\ e # <<>> /\ Len(P) < Len(e) /\ Len(Base) < Len(e)
           /\ \A i \in 1..Len(Base) : e[i] = Base[i]
           /\ \A i \in 1..Len(P) : e[i] = P[i]
           /\ \A i \in (Len(P) + 1)..(Len(e) - 1) : e[i] # Slash
           /\ Len(e) <= Len(k) /\ \A i \in 1..Len(e) : e[i] = k[i]
           /\ e[Len(e)] # Slash => e = k
<1>1. P \in Str /\ k \in Str /\ k # P
  BY PrefixShape, FoundKey
<1>2. /\ e \in Str /\ Len(P) < Len(e) /\ Len(e) <= Len(k)
      /\ \A i \in 1..Len(e) : e[i] = k[i]
      /\ \A i \in (Len(P) + 1)..(Len(e) - 1) : e[i] # Slash
      /\ e[Len(e)] = Slash \/ (e = k /\ e[Len(e)] # Slash)
  BY <1>1, EntryOfKey
<1>3. Len(P) \in Nat /\ Len(e) \in Nat /\ Len(k) \in Nat /\ Len(Base) \in Nat
  BY <1>1, <1>2, StringAssumption, LenProperties DEF Str
<1>4. Len(Base) <= Len(P) /\ \A i \in 1..Len(Base) : P[i] = Base[i]
  <2>1. prefix \in Key \cup {<<>>} => Len(prefix) \in Nat
    BY CleanKey, EmptySeq
  <2> QED BY <1>3, <2>1, PrefixShape
<1>5. \A i \in 1..Len(P) : P[i] = k[i]
  BY <1>1, PrefixByIndex
<1>6. \A i \in 1..Len(P) : e[i] = P[i]
  BY <1>2, <1>3, <1>5
<1>7. \A i \in 1..Len(Base) : e[i] = Base[i]
  BY <1>3, <1>4, <1>6
<1>8. e # <<>> /\ Len(Base) < Len(e)
  BY <1>2, <1>3, <1>4, EmptySeq
<1> QED BY <1>2, <1>6, <1>7, <1>8

(* The key of a result is the entry without the base and without the slash *)
(* at its end.                                                             *)
LEMMA InfoShape ==
    ASSUME NEW e \in Str, Len(Base) < Len(e)
    PROVE  /\ \/ FileInfo(e).dir = TRUE /\ e[Len(e)] = Slash
                 /\ Len(FileInfo(e).key) = Len(e) - Len(Base) - 1
              \/ FileInfo(e).dir = FALSE /\ e[Len(e)] # Slash
                 /\ Len(FileInfo(e).key) = Len(e) - Len(Base)
           /\ FileInfo(e).key \in Str
           /\ \A i \in 1..Len(FileInfo(e).key) : FileInfo(e).key[i] = e[Len(Base) + i]
<1>1. Len(e) \in Nat /\ Len(Base) \in Nat
  BY StringAssumption, LenProperties DEF Str
<1> DEFINE c == SubSeq(e, Len(Base) + 1, Len(e))
           q == TrimSlash(c)
<1>2. /\ c \in Str /\ Len(c) = Len(e) - Len(Base) /\ Len(c) \in Nat \ {0}
      /\ \A i \in 1..Len(c) : c[i] = e[Len(Base) + i]
  BY <1>1 DEF Str
<1>3. FileInfo(e) = [key |-> q, dir |-> EndsInSlash(e)]
  BY DEF FileInfo, CutPrefix
<1>4. EndsInSlash(e) <=> e[Len(e)] = Slash
  BY <1>1, EmptySeq DEF EndsInSlash, Last
<1>5. EndsInSlash(c) <=> EndsInSlash(e)
  <2>1. c[Len(c)] = e[Len(e)]
    <3>1. Len(c) \in 1..Len(c) /\ Len(Base) + Len(c) = Len(e)
      BY <1>1, <1>2
    <3> QED BY <1>2, <3>1
  <2> HIDE DEF c
  <2> QED BY <1>2, <1>4, <2>1, EmptySeq DEF EndsInSlash, Last
<1>6. /\ q \in Str /\ Len(q) = Len(e) - Len(Base) - (IF EndsInSlash(e) THEN 1 ELSE 0)
      /\ \A i \in 1..Len(q) : q[i] = e[Len(Base) + i]
  <2> HIDE DEF c
  <2>1. CASE EndsInSlash(e)
    <3>1. q = SubSeq(c, 1, Len(c) - 1)
      BY <1>5, <2>1 DEF TrimSlash, Front
    <3>2. q \in Str /\ Len(q) = Len(c) - 1 /\ \A i \in 1..Len(q) : q[i] = c[i]
      BY <1>2, <3>1 DEF Str
    <3> HIDE DEF q
    <3>3. \A i \in 1..Len(q) : q[i] = e[Len(Base) + i]
      BY <1>2, <3>2
    <3> QED BY <1>1, <1>2, <2>1, <3>2, <3>3
  <2>2. CASE ~EndsInSlash(e)
    <3>1. q = c
      BY <1>5, <2>2 DEF TrimSlash
    <3> HIDE DEF q
    <3> QED BY <1>1, <1>2, <2>2, <3>1
  <2> QED BY <2>1, <2>2
<1> HIDE DEF q
<1> QED BY <1>3, <1>4, <1>6

LEMMA InfoInjective ==
    ASSUME NEW e \in Str, Len(Base) < Len(e), \A i \in 1..Len(Base) : e[i] = Base[i],
           NEW f \in Str, Len(Base) < Len(f), \A i \in 1..Len(Base) : f[i] = Base[i],
           FileInfo(e) = FileInfo(f)
    PROVE  e = f
<1>1. Len(e) \in Nat /\ Len(f) \in Nat /\ Len(Base) \in Nat
  BY StringAssumption, LenProperties DEF Str
<1>2. PICK q : q = FileInfo(e).key /\ q = FileInfo(f).key
  OBVIOUS
<1>3. /\ \A i \in 1..Len(q) : q[i] = e[Len(Base) + i]
      /\ \A i \in 1..Len(q) : q[i] = f[Len(Base) + i]
  <2>1. \A i \in 1..Len(FileInfo(e).key) : FileInfo(e).key[i] = e[Len(Base) + i]
    BY InfoShape
  <2>2. \A i \in 1..Len(FileInfo(f).key) : FileInfo(f).key[i] = f[Len(Base) + i]
    BY InfoShape
  <2> QED BY <1>2, <2>1, <2>2
<1>4. /\ Len(e) = Len(f)
      /\ Len(q) = Len(e) - Len(Base) \/ (Len(q) = Len(e) - Len(Base) - 1 /\ e[Len(e)] = f[Len(f)])
  <2>1. CASE FileInfo(e).dir = TRUE
    <3>1. Len(q) = Len(e) - Len(Base) - 1 /\ e[Len(e)] = Slash
      BY <1>2, <2>1, InfoShape
    <3>2. Len(q) = Len(f) - Len(Base) - 1 /\ f[Len(f)] = Slash
      BY <1>2, <2>1, InfoShape
    <3> QED BY <1>1, <3>1, <3>2
  <2>2. CASE FileInfo(e).dir # TRUE
    <3>1. Len(q) = Len(e) - Len(Base)
      BY <1>2, <2>2, InfoShape
    <3>2. Len(q) = Len(f) - Len(Base)
      BY <1>2, <2>2, InfoShape
    <3> QED BY <1>1, <3>1, <3>2
  <2> QED BY <2>1, <2>2
<1>5. ASSUME NEW i \in 1..Len(e) PROVE e[i] = f[i]
  <2>1. CASE i <= Len(Base)
    BY <1>1, <2>1
  <2>2. CASE ~(i <= Len(Base)) /\ i <= Len(Base) + Len(q)
    <3>1. i - Len(Base) \in 1..Len(q) /\ Len(Base) + (i - Len(Base)) = i
      BY <1>1, <1>4, <2>2
    <3> QED BY <1>3, <3>1
  <2>3. CASE ~(i <= Len(Base) + Len(q))
    <3>1. i = Len(e) /\ e[Len(e)] = f[Len(f)]
      BY <1>1, <1>4, <2>3
    <3> QED BY <1>4, <3>1
  <2> QED BY <2>1, <2>2, <2>3
<1> QED BY <1>4, <1>5, SeqEqual DEF Str

----------------------------------------------------------------------------
(* The results of a List, and what it has still to find.                   *)

InList(p) == pc[p] # "idle" /\ req[p].op = "list"

Results(es) == [i \in DOMAIN es |-> FileInfo(es[i])]

Increasing(es) == \A i, j \in DOMAIN es : i < j => Less(es[i], es[j])

(* es are the entries List has made its results of; what was there all the *)
(* time is among them or comes after the token.                            *)
Lists(p, es) ==
    LET prefix == S3Prefix(req[p].prefix)
    IN  /\ es \in Seq(Str) /\ files[p] = Results(es) /\ Increasing(es)
        /\ \A i \in DOMAIN es : \E k \in ever[p] : IsPrefix(prefix, k) /\ es[i] = Entry(k, prefix)
        /\ pc[p] = "call" => \A i \in DOMAIN es : es[i] = token[p] \/ Less(es[i], token[p])
        /\ \A k \in always[p] : IsPrefix(prefix, k) =>
              \/ Entry(k, prefix) \in Range(es)
              \/ pc[p] = "call" /\ Less(token[p], Entry(k, prefix))
              \/ pc[p] = "done" /\ res[p] # "ok"

ListInv ==
    /\ bucket \subseteq S3Keys /\ DOMAIN files = Proc /\ DOMAIN token = Proc
    /\ \A p \in Proc : always[p] \subseteq S3Keys /\ ever[p] \subseteq S3Keys /\ token[p] \in Str
    /\ \A p \in Proc : IF InList(p) THEN \E es : Lists(p, es) ELSE files[p] = <<>>

LEMMA ResultsConcat ==
    ASSUME NEW s \in Seq(Str), NEW t \in Seq(Str)
    PROVE  Results(s) \o Results(t) = Results(s \o t)
<1> DEFINE R == {FileInfo(e) : e \in Str}
<1>1. \A u \in Seq(Str) : Results(u) \in Seq(R) /\ Len(Results(u)) = Len(u)
        /\ \A i \in 1..Len(u) : Results(u)[i] = FileInfo(u[i])
  <2> SUFFICES ASSUME NEW u \in Seq(Str)
               PROVE  Results(u) \in Seq(R) /\ Len(Results(u)) = Len(u)
                      /\ \A i \in 1..Len(u) : Results(u)[i] = FileInfo(u[i])
    OBVIOUS
  <2>1. DOMAIN u = 1..Len(u) /\ Len(u) \in Nat /\ \A i \in 1..Len(u) : u[i] \in Str
    BY LenProperties, ElementOfSeq
  <2>2. Results(u) \in [1..Len(u) -> R]
    BY <2>1 DEF Results
  <2> QED BY <2>1, <2>2, IsASeq DEF Results
<1> HIDE DEF R
<1>2. /\ s \o t \in Seq(Str) /\ Len(s \o t) = Len(s) + Len(t)
      /\ \A i \in 1..Len(s \o t) : (s \o t)[i] = IF i <= Len(s) THEN s[i] ELSE t[i - Len(s)]
  BY ConcatProperties
<1>3. /\ Results(s) \o Results(t) \in Seq(R)
      /\ Len(Results(s) \o Results(t)) = Len(Results(s)) + Len(Results(t))
      /\ \A i \in 1..Len(Results(s) \o Results(t)) :
            (Results(s) \o Results(t))[i] =
               IF i <= Len(Results(s)) THEN Results(s)[i] ELSE Results(t)[i - Len(Results(s))]
  BY <1>1, ConcatProperties
<1>4. Len(s) \in Nat /\ Len(t) \in Nat
  BY LenProperties
<1>5. Len(Results(s) \o Results(t)) = Len(Results(s \o t))
  BY <1>1, <1>2, <1>3
<1>6. ASSUME NEW i \in 1..Len(s \o t)
      PROVE  (Results(s) \o Results(t))[i] = Results(s \o t)[i]
  <2>1. Results(s \o t)[i] = FileInfo((s \o t)[i]) /\ i \in 1..Len(Results(s) \o Results(t))
    BY <1>1, <1>2, <1>5
  <2>2. CASE i <= Len(s)
    <3>1. (s \o t)[i] = s[i] /\ i \in 1..Len(s)
      BY <1>2, <1>4, <2>2
    <3>2. (Results(s) \o Results(t))[i] = Results(s)[i]
      BY <1>1, <1>3, <2>1, <2>2
    <3> QED BY <1>1, <2>1, <3>1, <3>2
  <2>3. CASE ~(i <= Len(s))
    <3>1. (s \o t)[i] = t[i - Len(s)] /\ i - Len(s) \in 1..Len(t)
      BY <1>2, <1>4, <2>3
    <3>2. (Results(s) \o Results(t))[i] = Results(t)[i - Len(s)]
      BY <1>1, <1>3, <2>1, <2>3
    <3> QED BY <1>1, <2>1, <3>1, <3>2
  <2> QED BY <2>2, <2>3
<1> QED BY <1>1, <1>2, <1>3, <1>5, <1>6, SeqEqual

LEMMA ListPrefix ==
    ASSUME BatchType, NEW p \in Proc, InList(p)
    PROVE  req[p].prefix \in Key \cup {<<>>}
  BY CallsAssumption DEF BatchType, InList, SingleOp

(* The histories of a call that stays a List.                              *)
LEMMA HistoryGrows ==
    ASSUME BatchType, Remember, NEW p \in Proc, InList(p), pc'[p] # "idle", req'[p] = req[p]
    PROVE  /\ always'[p] \subseteq always[p] /\ ever[p] \subseteq ever'[p]
           /\ pc[p] = "call" => always'[p] \subseteq bucket' /\ bucket' \subseteq ever'[p]
  BY DEF Remember, InList, SingleOp, BatchType

LEMMA OthersList ==
    ASSUME BatchType, Remember, NEW p \in Proc, NEW es, Lists(p, es), InList(p), pc'[p] = pc[p],
           req'[p] = req[p], res'[p] = res[p], token'[p] = token[p], files'[p] = files[p]
    PROVE  Lists(p, es)'
<1>1. always'[p] \subseteq always[p] /\ ever[p] \subseteq ever'[p]
  BY HistoryGrows DEF InList
<1>2. S3Prefix(req'[p].prefix) = S3Prefix(req[p].prefix)
  OBVIOUS
<1> QED BY <1>1, <1>2 DEF Lists

(* It fails.                                                               *)
LEMMA ListFails ==
    ASSUME BatchType, Remember, NEW p \in Proc, NEW es, Lists(p, es), InList(p), pc[p] = "call",
           pc'[p] = "done", req'[p] = req[p], res'[p] = "error", files'[p] = files[p]
    PROVE  Lists(p, es)'
<1>1. always'[p] \subseteq always[p] /\ ever[p] \subseteq ever'[p]
  BY HistoryGrows DEF InList
<1> QED BY <1>1 DEF Lists

LEMMA ListBegins ==
    ASSUME ListInv, BatchType', Remember, NEW p \in Proc, pc[p] = "idle", pc'[p] = "call",
           bucket' = bucket, InList(p)', token'[p] = <<>>, files'[p] = <<>>
    PROVE  Lists(p, <<>>)'
<1>1. req'[p].prefix \in Key \cup {<<>>}
  BY ListPrefix, CallsAssumption DEF BatchType, InList, SingleOp
<1>2. always'[p] \subseteq S3Keys
  BY DEF Remember, ListInv, InList, SingleOp
<1>3. ASSUME NEW k \in always'[p], IsPrefix(S3Prefix(req'[p].prefix), k)
      PROVE  Less(<<>>, Entry(k, S3Prefix(req'[p].prefix)))
  BY <1>1, <1>2, <1>3, ChildEntry, EmptyIsLeast
<1>4. <<>> \in Seq(Str) /\ DOMAIN <<>> = {} /\ Results(<<>>) = <<>>
  BY DEF Results
<1>5. pc'[p] = "call" /\ token'[p] = <<>> /\ files'[p] = <<>>
  OBVIOUS
<1> QED BY <1>3, <1>4, <1>5 DEF Lists, Increasing

(* A page of what is left.                                                 *)
LEMMA PageEntries ==
    ASSUME BatchType, ListInv, Remember, NEW p \in Proc, InList(p), pc[p] = "call",
           NEW page \in BoundedSeq(Remaining(p), PageSize), bucket' = bucket,
           pc'[p] # "idle", req'[p] = req[p]
    PROVE  /\ page \in Seq(Str) /\ \A i \in DOMAIN page : Less(token[p], page[i])
           /\ Remaining(p) \subseteq Str
           /\ \A i \in DOMAIN page : \E k \in ever'[p] :
                 /\ IsPrefix(S3Prefix(req[p].prefix), k)
                 /\ page[i] = Entry(k, S3Prefix(req[p].prefix))
<1> DEFINE P == S3Prefix(req[p].prefix)
<1>1. req[p].prefix \in Key \cup {<<>>}
  BY ListPrefix
<1>2. bucket \subseteq ever'[p]
  BY HistoryGrows
<1>3. ASSUME NEW e \in Remaining(p)
      PROVE  /\ e \in Str /\ Less(token[p], e)
             /\ \E k \in ever'[p] : IsPrefix(P, k) /\ e = Entry(k, P)
  <2>1. PICK k \in bucket : IsPrefix(P, k) /\ e = Entry(k, P) /\ Less(token[p], e)
    BY DEF Remaining, Entries
  <2>2. e \in Str
    BY <1>1, <2>1, ChildEntry DEF ListInv
  <2> QED BY <1>2, <2>1, <2>2
<1>4. PICK m \in 0..PageSize : page \in [1..m -> Remaining(p)]
  BY DEF BoundedSeq, SeqOf
<1>5. m \in Nat
  BY <1>4, SizeAssumption
<1>6. page \in Seq(Str)
  BY <1>3, <1>4, <1>5, IsASeq
<1>7. \A i \in DOMAIN page : page[i] \in Remaining(p)
  BY <1>4
<1> HIDE DEF P
<1> QED BY <1>3, <1>6, <1>7 DEF P

(* Behind entries up to the token come those after it.                     *)
LEMMA PageFollows ==
    ASSUME NEW es \in Seq(Str), NEW page \in Seq(Str), NEW t \in Str,
           Increasing(es), Increasing(page),
           \A i \in DOMAIN es : es[i] = t \/ Less(es[i], t),
           \A i \in DOMAIN page : Less(t, page[i])
    PROVE  /\ es \o page \in Seq(Str) /\ Increasing(es \o page)
           /\ Range(es \o page) = Range(es) \cup Range(page)
<1>1. /\ es \o page \in Seq(Str) /\ Len(es \o page) = Len(es) + Len(page)
      /\ \A i \in 1..Len(es \o page) :
            (es \o page)[i] = IF i <= Len(es) THEN es[i] ELSE page[i - Len(es)]
  BY ConcatProperties
<1>2. /\ DOMAIN es = 1..Len(es) /\ DOMAIN page = 1..Len(page)
      /\ DOMAIN (es \o page) = 1..Len(es \o page)
      /\ Len(es) \in Nat /\ Len(page) \in Nat
  BY <1>1, LenProperties
<1>3. \A i \in 1..Len(es) : i \in 1..Len(es \o page) /\ (es \o page)[i] = es[i]
  BY <1>1, <1>2
<1>4. \A i \in 1..Len(page) : /\ Len(es) + i \in 1..Len(es \o page)
                              /\ (es \o page)[Len(es) + i] = page[i]
  <2> SUFFICES ASSUME NEW i \in 1..Len(page)
               PROVE  /\ Len(es) + i \in 1..Len(es \o page)
                      /\ (es \o page)[Len(es) + i] = page[i]
    OBVIOUS
  <2>1. Len(es) + i \in 1..Len(es \o page) /\ ~(Len(es) + i <= Len(es))
        /\ (Len(es) + i) - Len(es) = i
    BY <1>1, <1>2
  <2> QED BY <1>1, <2>1
<1>5. \A i \in 1..Len(es \o page) :
         \/ i \in 1..Len(es) /\ (es \o page)[i] = es[i]
         \/ i - Len(es) \in 1..Len(page) /\ (es \o page)[i] = page[i - Len(es)]
  <2> SUFFICES ASSUME NEW i \in 1..Len(es \o page), ~(i <= Len(es))
               PROVE  i - Len(es) \in 1..Len(page) /\ (es \o page)[i] = page[i - Len(es)]
    BY <1>1, <1>2
  <2>1. i - Len(es) \in 1..Len(page)
    BY <1>1, <1>2
  <2> QED BY <1>1, <2>1
<1>6. ASSUME NEW i \in 1..Len(es \o page), NEW j \in 1..Len(es \o page), i < j
      PROVE  Less((es \o page)[i], (es \o page)[j])
  <2>1. CASE i \in 1..Len(es) /\ j \in 1..Len(es)
    BY <1>2, <1>3, <1>6, <2>1 DEF Increasing
  <2>2. CASE i - Len(es) \in 1..Len(page) /\ j - Len(es) \in 1..Len(page)
    <3>1. /\ (es \o page)[i] = page[i - Len(es)] /\ (es \o page)[j] = page[j - Len(es)]
          /\ i - Len(es) < j - Len(es)
      BY <1>2, <1>5, <1>6, <2>2
    <3> QED BY <1>2, <2>2, <3>1 DEF Increasing
  <2>3. CASE i \in 1..Len(es) /\ j - Len(es) \in 1..Len(page)
    <3>1. (es \o page)[i] = es[i] /\ (es \o page)[j] = page[j - Len(es)]
      BY <1>2, <1>3, <1>5, <2>3
    <3>2. es[i] \in Str /\ page[j - Len(es)] \in Str
      BY <2>3, ElementOfSeq
    <3> QED BY <1>2, <2>3, <3>1, <3>2, LessIsOrder
  <2> QED BY <1>2, <1>5, <1>6, <2>1, <2>2, <2>3
<1>7. Range(es \o page) = Range(es) \cup Range(page)
  <2>1. ASSUME NEW e \in Range(es \o page) PROVE e \in Range(es) \cup Range(page)
    BY <1>2, <1>5, <2>1 DEF Range
  <2>2. ASSUME NEW e \in Range(es) \cup Range(page) PROVE e \in Range(es \o page)
    BY <1>2, <1>3, <1>4, <2>2 DEF Range
  <2> QED BY <2>1, <2>2
<1> QED BY <1>1, <1>2, <1>6, <1>7 DEF Increasing

(* all is what has been found when the page is put behind the results so   *)
(* far; the token is still that of the page.                               *)
Extended(p, page, es, all, prefix) ==
    /\ all \in Seq(Str) /\ files'[p] = Results(all) /\ Increasing(all)
    /\ \A i \in DOMAIN all : \E k \in ever'[p] : IsPrefix(prefix, k) /\ all[i] = Entry(k, prefix)
    /\ Range(all) = Range(es) \cup Range(page)
    /\ \A e \in Range(es) : e \in Str /\ (e = token[p] \/ Less(e, token[p]))
    /\ \A k \in always'[p] : IsPrefix(prefix, k) =>
          Entry(k, prefix) \in Range(es) \cup Remaining(p)

LEMMA PageListed ==
    ASSUME BatchType, ListInv, Remember, NEW p \in Proc, InList(p), pc[p] = "call",
           NEW page \in BoundedSeq(Remaining(p), PageSize), Listing(p, page),
           pc'[p] # "idle", NEW es, Lists(p, es)
    PROVE  Extended(p, page, es, es \o page, S3Prefix(req[p].prefix))
<1>0. PICK P, all : P = S3Prefix(req[p].prefix) /\ all = es \o page
  OBVIOUS
<1>1. bucket' = bucket /\ req' = req
  BY DEF Listing
<1>2. /\ es \in Seq(Str) /\ files[p] = Results(es) /\ Increasing(es)
      /\ \A i \in DOMAIN es : \E k \in ever[p] : IsPrefix(P, k) /\ es[i] = Entry(k, P)
      /\ \A i \in DOMAIN es : es[i] = token[p] \/ Less(es[i], token[p])
      /\ \A k \in always[p] : IsPrefix(P, k) =>
            Entry(k, P) \in Range(es) \/ Less(token[p], Entry(k, P))
  BY <1>0 DEF Lists
<1>3. /\ page \in Seq(Str) /\ \A i \in DOMAIN page : Less(token[p], page[i])
      /\ \A i \in DOMAIN page : \E k \in ever'[p] : IsPrefix(P, k) /\ page[i] = Entry(k, P)
  BY <1>0, <1>1, PageEntries
<1>4. Increasing(page)
  BY DEF Listing, IsPage, Increasing
<1>5. token[p] \in Str
  BY DEF ListInv
<1>6. /\ all \in Seq(Str) /\ Increasing(all)
      /\ Range(all) = Range(es) \cup Range(page)
  BY <1>0, <1>2, <1>3, <1>4, <1>5, PageFollows
<1>7. files'[p] = Results(all)
  <2>1. files'[p] = files[p] \o Results(page)
    BY DEF Listing, ListInv, Results
  <2> QED BY <1>0, <1>2, <1>3, <2>1, ResultsConcat
<1>8. /\ always'[p] \subseteq always[p] /\ ever[p] \subseteq ever'[p]
      /\ always'[p] \subseteq bucket
  BY <1>1, HistoryGrows
<1>9. ASSUME NEW e \in Range(all)
      PROVE  \E k \in ever'[p] : IsPrefix(P, k) /\ e = Entry(k, P)
  BY <1>2, <1>3, <1>6, <1>8, <1>9 DEF Range
<1>10. \A i \in DOMAIN all : all[i] \in Range(all)
  BY DEF Range
<1>11. ASSUME NEW k \in always'[p], IsPrefix(P, k)
       PROVE  Entry(k, P) \in Range(es) \cup Remaining(p)
  <2>1. Entry(k, P) \in Entries(p)
    BY <1>0, <1>8, <1>11 DEF Entries
  <2> QED BY <1>2, <1>8, <1>11, <2>1 DEF Remaining
<1>12. ASSUME NEW e \in Range(es)
       PROVE  e \in Str /\ (e = token[p] \/ Less(e, token[p]))
  <2>1. PICK i \in DOMAIN es : e = es[i]
    BY DEF Range
  <2>2. es[i] \in Str
    BY <1>2, <2>1, ElementOfSeq, LenProperties
  <2> QED BY <1>2, <2>1, <2>2
<1>13. Extended(p, page, es, all, P)
  BY <1>6, <1>7, <1>9, <1>10, <1>11, <1>12 DEF Extended
<1> QED BY <1>0, <1>13

(* The token of the next page.                                             *)
LEMMA ListGoesOn ==
    ASSUME BatchType, ListInv, Remember, NEW p \in Proc, InList(p), pc[p] = "call",
           NEW page \in BoundedSeq(Remaining(p), PageSize), ListPage(p, page),
           NEW es, Lists(p, es)
    PROVE  Lists(p, es \o page)' /\ token'[p] \in Str
<1>0. PICK P, all, t : P = S3Prefix(req[p].prefix) /\ all = es \o page /\ t = Last(page)
  OBVIOUS
<1>1. /\ Listing(p, page) /\ pc'[p] = "call" /\ token'[p] = t /\ page # <<>> /\ req' = req
  BY <1>0 DEF ListPage, Listing, ListInv
<1>2. Extended(p, page, es, all, P)
  BY <1>0, <1>1, PageListed
<1>3. /\ page \in Seq(Str) /\ Remaining(p) \subseteq Str
      /\ \A i \in DOMAIN page : Less(token[p], page[i])
  BY <1>1, PageEntries DEF Listing
<1>4. Len(page) \in DOMAIN page /\ t = page[Len(page)] /\ t \in Str /\ DOMAIN page = 1..Len(page)
  <2>1. DOMAIN page = 1..Len(page) /\ Len(page) \in Nat \ {0}
    BY <1>1, <1>3, LenProperties, EmptySeq
  <2> QED BY <1>0, <1>3, <2>1, ElementOfSeq DEF Last
<1>5. \A i \in DOMAIN page : page[i] = t \/ Less(page[i], t)
  BY <1>1, <1>4 DEF Listing, IsPage
<1>6. token[p] \in Str
  BY DEF ListInv
<1>7. \A e \in Range(es) : Less(e, t)
  BY <1>2, <1>3, <1>4, <1>6, LessIsOrder DEF Extended
<1>8. \A e \in Range(all) : e = t \/ Less(e, t)
  BY <1>2, <1>5, <1>7 DEF Range, Extended
<1>9. \A i \in DOMAIN all : all[i] = t \/ Less(all[i], t)
  BY <1>8 DEF Range
<1>10. \A e \in Remaining(p) \ Range(page) : Less(t, e)
  BY <1>1, <1>4 DEF Listing, IsPage
<1>11. \A k \in always'[p] : IsPrefix(P, k) =>
          Entry(k, P) \in Range(all) \/ Less(t, Entry(k, P))
  BY <1>2, <1>10 DEF Extended
<1> QED BY <1>0, <1>1, <1>2, <1>4, <1>9, <1>11 DEF Lists, Extended

(* The last page has all that was left.                                    *)
LEMMA ListIsDone ==
    ASSUME BatchType, ListInv, Remember, NEW p \in Proc, InList(p), pc[p] = "call",
           NEW page \in BoundedSeq(Remaining(p), PageSize), ListEnd(p, page),
           NEW es, Lists(p, es)
    PROVE  Lists(p, es \o page)' /\ token'[p] \in Str
<1>0. PICK P, all : P = S3Prefix(req[p].prefix) /\ all = es \o page
  OBVIOUS
<1>1. /\ Listing(p, page) /\ pc'[p] = "done" /\ token' = token /\ req' = req
      /\ Remaining(p) = Range(page)
  BY DEF ListEnd, Listing, Truncated, BatchType
<1>2. Extended(p, page, es, all, P)
  BY <1>0, <1>1, PageListed
<1>3. \A k \in always'[p] : IsPrefix(P, k) => Entry(k, P) \in Range(all)
  BY <1>1, <1>2 DEF Extended
<1>4. token'[p] \in Str
  BY <1>1 DEF ListInv
<1> QED BY <1>0, <1>1, <1>2, <1>3, <1>4 DEF Lists, Extended

(* Objects are put where clients put them.                                 *)
LEMMA BucketKept ==
    ASSUME BatchType, ListInv, Next
    PROVE  /\ bucket' \subseteq S3Keys
           /\ \A p \in Proc : always'[p] \subseteq S3Keys /\ ever'[p] \subseteq S3Keys
<1>1. PICK p \in Proc : Step(p)
  BY DEF Next
<1>2. Remember
  BY DEF Next
<1>3. bucket \subseteq S3Keys
  BY DEF ListInv
<1>4. bucket' \subseteq S3Keys
  <2>1. CASE Put(p)
    <3>1. req[p].key \in Key
      BY <2>1, CallsAssumption DEF Put, Doing, BatchType, SingleOp
    <3> QED BY <1>3, <2>1, <3>1 DEF Put, Send, S3Keys
  <2>2. CASE Copy(p)
    <3>1. req[p].dst \in Key
      BY <2>2, CallsAssumption DEF Copy, Doing, BatchType, SingleOp
    <3> QED BY <1>3, <2>2, <3>1 DEF Copy, Send, S3Keys
  <2>3. CASE Delete(p) \/ BatchDelete(p) \/ BatchFails(p)
    BY <1>3, <2>3 DEF Delete, BatchDelete, BatchFails, Send
  <2>4. CASE \/ Call(p) \/ Return(p) \/ Cancelled(p) \/ Missing(p) \/ Read(p) \/ List(p)
             \/ AllDone(p) \/ InvalidKey(p)
    BY <1>3, <2>4 DEF Call, Return, Cancelled, Missing, Read, Send, List, ListPage, ListEnd,
                      Listing, AllDone, InvalidKey
  <2> QED BY <1>1, <2>1, <2>2, <2>3, <2>4 DEF Step
<1> QED BY <1>2, <1>3, <1>4 DEF Remember, ListInv

(* The steps of the client p.                                              *)
LEMMA ListStep ==
    ASSUME BatchType, BatchType', ListInv, NEW p \in Proc, Step(p), Remember
    PROVE  /\ DOMAIN files' = Proc /\ DOMAIN token' = Proc
           /\ token'[p] \in Str
           /\ IF InList(p)' THEN \E es : Lists(p, es)' ELSE files'[p] = <<>>
<1>1. <<>> \in Str
  BY EmptySeq DEF Str
<1>2. token[p] \in Str /\ DOMAIN files = Proc /\ DOMAIN token = Proc
  BY DEF ListInv
<1>3. CASE Call(p)
  <2>1. /\ pc[p] = "idle" /\ pc'[p] = "call" /\ bucket' = bucket
        /\ token'[p] = <<>> /\ files'[p] = <<>>
        /\ DOMAIN files' = Proc /\ DOMAIN token' = Proc
    BY <1>2, <1>3 DEF Call, BatchType
  <2>2. CASE InList(p)'
    <3>1. Lists(p, <<>>)'
      BY <2>1, <2>2, ListBegins
    <3> QED BY <1>1, <2>1, <2>2, <3>1
  <2> QED BY <1>1, <2>1, <2>2
<1>4. CASE Return(p)
  <2>1. /\ pc'[p] = "idle" /\ token'[p] = <<>> /\ files'[p] = <<>>
        /\ DOMAIN files' = Proc /\ DOMAIN token' = Proc
    BY <1>2, <1>4 DEF Return, BatchType
  <2> QED BY <1>1, <2>1 DEF InList
<1>5. CASE List(p)
  <2>1. PICK page \in BoundedSeq(Remaining(p), PageSize) : ListPage(p, page) \/ ListEnd(p, page)
    BY <1>5 DEF List
  <2>2. InList(p) /\ pc[p] = "call"
    BY <1>5 DEF List, Doing, InList
  <2>3. PICK es : Lists(p, es)
    BY <2>2 DEF ListInv
  <2>4. Lists(p, es \o page)' /\ token'[p] \in Str
    BY <2>1, <2>2, <2>3, ListGoesOn, ListIsDone
  <2>5. pc'[p] # "idle" /\ req' = req /\ DOMAIN files' = Proc /\ DOMAIN token' = Proc
    BY <1>2, <2>1, <2>2 DEF ListPage, ListEnd, Listing, BatchType
  <2> QED BY <2>2, <2>4, <2>5 DEF InList
<1>6. CASE Cancelled(p)
  <2>1. /\ pc[p] = "call" /\ pc'[p] = "done" /\ req' = req /\ res'[p] = "error"
        /\ files' = files /\ token' = token
    BY <1>6 DEF Cancelled, Answer, BatchType
  <2>2. CASE InList(p)
    <3>1. PICK es : Lists(p, es)
      BY <2>2 DEF ListInv
    <3>2. Lists(p, es)'
      BY <2>1, <2>2, <3>1, ListFails
    <3> QED BY <1>2, <2>1, <2>2, <3>2 DEF InList
  <2> QED BY <1>2, <2>1, <2>2 DEF InList, ListInv
<1>7. CASE \/ Put(p) \/ Delete(p) \/ Missing(p) \/ Read(p) \/ Copy(p)
           \/ AllDone(p) \/ InvalidKey(p) \/ BatchDelete(p) \/ BatchFails(p)
  <2>1. ~InList(p) /\ req' = req /\ files' = files /\ token' = token
    BY <1>7 DEF Put, Delete, Missing, Read, Copy, Send, Answer, Doing, AllDone, InvalidKey,
                BatchDelete, BatchFails, InList
  <2>2. pc[p] # "idle"
    BY <1>7 DEF Put, Delete, Missing, Read, Copy, Doing, AllDone, InvalidKey,
                BatchDelete, BatchFails
  <2> QED BY <1>2, <2>1, <2>2 DEF InList, ListInv
<1> QED BY <1>3, <1>4, <1>5, <1>6, <1>7 DEF Step

LEMMA ListInvStarts == Init => ListInv
<1> SUFFICES ASSUME Init PROVE ListInv
  OBVIOUS
<1>1. <<>> \in Str
  BY EmptySeq DEF Str
<1> QED BY <1>1 DEF Init, ListInv, InList, S3Keys

LEMMA ListInvKept == BatchInv /\ ListInv /\ [Next]_vars => ListInv'
<1> SUFFICES ASSUME BatchInv, ListInv, [Next]_vars PROVE ListInv'
  OBVIOUS
<1>0. BatchType
  BY DEF BatchInv
<1>1. CASE Next
  <2>1. PICK p \in Proc : Step(p)
    BY <1>1 DEF Next
  <2>2. Remember /\ BatchType'
    BY <1>1, BatchTypeKept DEF Next
  <2>3. /\ DOMAIN files' = Proc /\ DOMAIN token' = Proc
        /\ token'[p] \in Str
        /\ IF InList(p)' THEN \E es : Lists(p, es)' ELSE files'[p] = <<>>
    BY <1>0, <2>1, <2>2, ListStep
  <2>4. ASSUME NEW q \in Proc, q # p
        PROVE  /\ token'[q] \in Str
               /\ IF InList(q)' THEN \E es : Lists(q, es)' ELSE files'[q] = <<>>
    <3>1. pc'[q] = pc[q] /\ req'[q] = req[q] /\ res'[q] = res[q]
      BY <2>1, <2>4, OthersStandStill
    <3>2. token'[q] = token[q] /\ files'[q] = files[q]
      BY <2>1, <2>4 DEF Step, Call, Return, Cancelled, Put, Delete, Missing, Read, Copy, Send,
            Answer, List, ListPage, ListEnd, Listing, AllDone, InvalidKey, BatchDelete,
            BatchFails, ListInv
    <3>3. CASE InList(q)
      <4>1. PICK es : Lists(q, es)
        BY <3>3 DEF ListInv
      <4>2. Lists(q, es)'
        BY <1>0, <2>2, <3>1, <3>2, <3>3, <4>1, OthersList
      <4> QED BY <3>1, <3>2, <3>3, <4>2 DEF InList, ListInv
    <3> QED BY <3>1, <3>2, <3>3 DEF InList, ListInv
  <2>5. /\ bucket' \subseteq S3Keys
        /\ \A q \in Proc : always'[q] \subseteq S3Keys /\ ever'[q] \subseteq S3Keys
    BY <1>0, <1>1, BucketKept
  <2> QED BY <2>3, <2>4, <2>5 DEF ListInv
<1>2. CASE UNCHANGED vars
  <2>1. /\ bucket' = bucket /\ pc' = pc /\ req' = req /\ res' = res /\ token' = token
        /\ files' = files /\ always' = always /\ ever' = ever
    BY <1>2 DEF vars, calls, hist
  <2>2. ASSUME NEW q \in Proc, NEW es, Lists(q, es) PROVE Lists(q, es)'
    BY <2>1, <2>2 DEF Lists
  <2> QED BY <2>1, <2>2 DEF ListInv, InList
<1> QED BY <1>1, <1>2

----------------------------------------------------------------------------
(* What a List answers.                                                    *)

(* Each entry is that of an object there was under the prefix.             *)
LEMMA ListedEntries ==
    ASSUME BatchType, ListInv, NEW p \in Proc, InList(p), NEW es, Lists(p, es),
           NEW P, P = S3Prefix(req[p].prefix), NEW i \in DOMAIN es
    PROVE  /\ es[i] \in Str /\ Len(Base) < Len(es[i])
           /\ \A n \in 1..Len(Base) : es[i][n] = Base[n]
           /\ files[p][i] = FileInfo(es[i]) /\ DOMAIN files[p] = DOMAIN es
           /\ \E k \in ever[p] \cap S3Keys : IsPrefix(P, k) /\ es[i] = Entry(k, P)
<1>1. PICK k \in ever[p] \cap S3Keys : IsPrefix(P, k) /\ es[i] = Entry(k, P)
  BY DEF Lists, ListInv
<1>2. req[p].prefix \in Key \cup {<<>>}
  BY ListPrefix
<1>3. files[p][i] = FileInfo(es[i]) /\ DOMAIN files[p] = DOMAIN es
  BY DEF Lists, Results
<1> QED BY <1>1, <1>2, <1>3, ChildEntry

(* An entry is at one place of the results.                                *)
LEMMA OnePlace ==
    ASSUME BatchType, ListInv, NEW p \in Proc, InList(p), NEW es, Lists(p, es),
           NEW i \in DOMAIN es, NEW j \in DOMAIN es, FileInfo(es[i]) = FileInfo(es[j])
    PROVE  i = j
<1>1. es[i] = es[j] /\ es[i] \in Str
  BY ListedEntries, InfoInjective
<1>2. i \in Nat /\ j \in Nat
  BY LenProperties DEF Lists
<1>3. ~Less(es[i], es[i])
  BY <1>1, LessIsOrder
<1>4. i < j => Less(es[i], es[j])
  BY DEF Lists, Increasing
<1>5. j < i => Less(es[j], es[i])
  BY DEF Lists, Increasing
<1> QED BY <1>1, <1>2, <1>3, <1>4, <1>5

LEMMA ListInvIsOnce == BatchType /\ ListInv => ListedOnce
<1> SUFFICES ASSUME BatchType, ListInv, NEW p \in Proc PROVE IsInjective(files[p])
  BY DEF ListedOnce
<1>1. CASE InList(p)
  <2>1. PICK es : Lists(p, es)
    BY <1>1 DEF ListInv
  <2> SUFFICES ASSUME NEW i \in DOMAIN files[p], NEW j \in DOMAIN files[p],
                      files[p][i] = files[p][j]
               PROVE  i = j
    BY DEF IsInjective
  <2>2. i \in DOMAIN es /\ j \in DOMAIN es /\ FileInfo(es[i]) = FileInfo(es[j])
    BY <2>1 DEF Lists, Results
  <2> QED BY <1>1, <2>1, <2>2, OnePlace
<1>2. CASE ~InList(p)
  BY <1>2 DEF ListInv, IsInjective
<1> QED BY <1>1, <1>2

LEMMA ListInvIsComplete == BatchType /\ ListInv => ListComplete
<1> SUFFICES ASSUME BatchType, ListInv, NEW p \in Proc, Listed(p),
                    NEW P, P = S3Prefix(req[p].prefix), NEW k \in always[p], IsPrefix(P, k)
             PROVE  Cardinality({i \in DOMAIN files[p] : files[p][i] = FileInfo(Entry(k, P))}) = 1
  BY DEF ListComplete
<1>1. InList(p) /\ pc[p] = "done" /\ res[p] = "ok"
  BY DEF Listed, InList
<1>2. PICK es : Lists(p, es)
  BY <1>1 DEF ListInv
<1>3. PICK j \in DOMAIN es : es[j] = Entry(k, P)
  BY <1>1, <1>2 DEF Lists, Range
<1>4. DOMAIN files[p] = DOMAIN es /\ \A i \in DOMAIN es : files[p][i] = FileInfo(es[i])
  BY <1>2 DEF Lists, Results
<1>5. {i \in DOMAIN files[p] : files[p][i] = FileInfo(Entry(k, P))} = {j}
  BY <1>1, <1>2, <1>3, <1>4, OnePlace
<1> QED BY <1>5, FS_Singleton

(* The key of a result, cut off an entry, is the prefix and one segment.   *)
LEMMA KeyBelowPrefix ==
    ASSUME NEW prefix \in Key \cup {<<>>}, NEW P, P = S3Prefix(prefix),
           NEW k \in S3Keys, IsPrefix(P, k), NEW e, e = Entry(k, P),
           NEW inside, inside = prefix \o (IF prefix = <<>> THEN <<>> ELSE <<Slash>>),
           NEW q, q = FileInfo(e).key
    PROVE  IsPrefix(inside, q) /\ Slash \notin Range(CutPrefix(q, Len(inside)))
<1>1. /\ e \in Str /\ Len(P) < Len(e) /\ Len(Base) < Len(e)
      /\ \A i \in 1..Len(P) : e[i] = P[i]
      /\ \A i \in (Len(P) + 1)..(Len(e) - 1) : e[i] # Slash
      /\ \A i \in 1..Len(e) : e[i] = k[i]
      /\ Len(e) <= Len(k)
  BY ChildEntry
<1>2. /\ q \in Str /\ \A i \in 1..Len(q) : q[i] = e[Len(Base) + i]
      /\ \/ e[Len(e)] = Slash /\ Len(q) = Len(e) - Len(Base) - 1
         \/ e[Len(e)] # Slash /\ Len(q) = Len(e) - Len(Base)
  BY <1>1, InfoShape
<1>3. /\ P \in Str
      /\ \/ P = Base /\ prefix = <<>>
         \/ /\ Len(P) = Len(Base) + Len(prefix) + 1 /\ P[Len(P)] = Slash
            /\ \A i \in 1..Len(prefix) : P[Len(Base) + i] = prefix[i]
  BY PrefixShape
<1>4. /\ Len(P) \in Nat /\ Len(e) \in Nat /\ Len(Base) \in Nat /\ Len(k) \in Nat
      /\ Len(q) \in Nat /\ prefix \in Str /\ Len(prefix) \in Nat /\ k \in Str
  BY <1>1, <1>2, <1>3, StringAssumption, FoundKey, CleanKey, LenProperties, EmptySeq DEF Str
<1>5. /\ inside \in Str /\ Len(P) = Len(Base) + Len(inside)
      /\ \A i \in 1..Len(inside) : P[Len(Base) + i] = inside[i]
  <2>1. CASE prefix # <<>>
    <3>1. inside = Append(prefix, Slash) /\ Slash \in Letter
      BY <1>4, <2>1, AppendIsConcat, StringAssumption DEF Str
    <3>2. /\ inside \in Str /\ Len(inside) = Len(prefix) + 1 /\ inside[Len(inside)] = Slash
          /\ \A i \in 1..Len(prefix) : inside[i] = prefix[i]
      BY <1>4, <3>1, AppendProperties DEF Str
    <3>3. /\ Len(P) = Len(Base) + Len(prefix) + 1 /\ P[Len(P)] = Slash
          /\ \A i \in 1..Len(prefix) : P[Len(Base) + i] = prefix[i]
      BY <1>3, <2>1
    <3>4. ASSUME NEW i \in 1..Len(inside) PROVE P[Len(Base) + i] = inside[i]
      <4>1. /\ Len(inside) = Len(prefix) + 1 /\ Len(P) = Len(Base) + Len(prefix) + 1
            /\ Len(prefix) \in Nat /\ Len(Base) \in Nat
        BY <1>4, <3>2, <3>3
      <4>2. i \in 1..Len(prefix) \/ (i = Len(inside) /\ Len(Base) + i = Len(P))
        BY <4>1
      <4> QED BY <3>2, <3>3, <4>2
    <3> QED BY <1>4, <3>2, <3>3, <3>4
  <2>2. CASE prefix = <<>>
    <3>1. inside = <<>>
      BY <2>2, EmptySeq
    <3>2. P = Base
      <4> SUFFICES ASSUME Len(P) = Len(Base) + Len(prefix) + 1, P[Len(P)] = Slash PROVE FALSE
        BY <1>3
      <4>1. PICK key \in Key : k = S3Key(key)
        BY FoundKey
      <4>2. /\ Len(k) = Len(Base) + Len(KeyFunc[key])
            /\ \A i \in 1..Len(KeyFunc[key]) : k[Len(Base) + i] = KeyFunc[key][i]
        BY <4>1, KeyShape
      <4>3. Len(KeyFunc[key]) \in Nat \ {0} /\ KeyFunc[key][1] # Slash
        BY CleanKey
      <4>4. k[Len(Base) + 1] # Slash
        BY <4>2, <4>3
      <4>5. Len(P) = Len(Base) + 1
        BY <1>4, <2>2, EmptySeq
      <4>6. k[Len(P)] = P[Len(P)]
        BY <1>1, <1>4, <4>5
      <4> QED BY <4>4, <4>5, <4>6
    <3> QED BY <1>3, <1>4, <3>1, <3>2, EmptySeq DEF Str
  <2> QED BY <2>1, <2>2
<1>6. Len(inside) \in Nat /\ Len(inside) <= Len(q)
  BY <1>1, <1>2, <1>4, <1>5
<1>7. ASSUME NEW i \in 1..Len(inside) PROVE inside[i] = q[i]
  <2>1. i \in 1..Len(q) /\ Len(Base) + i \in 1..Len(P)
    BY <1>4, <1>5, <1>6
  <2> QED BY <1>1, <1>2, <1>5, <2>1
<1>8. IsPrefix(inside, q)
  BY <1>2, <1>5, <1>6, <1>7, PrefixByIndex
<1>9. ASSUME NEW i \in (Len(inside) + 1)..Len(q) PROVE q[i] # Slash
  <2>1. i \in 1..Len(q) /\ Len(Base) + i \in (Len(P) + 1)..Len(e)
    BY SMTT(60), <1>2, <1>4, <1>5, <1>6
  <2>2. Len(Base) + i = Len(e) => e[Len(e)] # Slash
    BY <1>2, <1>4, <2>1
  <2>3. Len(Base) + i # Len(e) => Len(Base) + i \in (Len(P) + 1)..(Len(e) - 1)
    BY <1>4, <2>1
  <2> QED BY <1>1, <1>2, <2>1, <2>2, <2>3
<1>10. ASSUME NEW x \in Range(CutPrefix(q, Len(inside))) PROVE x # Slash
  <2> DEFINE c == CutPrefix(q, Len(inside))
  <2>1. /\ c \in Seq(Letter) /\ Len(c) = Len(q) - Len(inside)
        /\ \A i \in 1..Len(c) : c[i] = q[i + Len(inside)]
    <3>1. PICK m \in Nat : m = Len(inside) /\ m <= Len(q)
      BY <1>6
    <3>2. q \in Seq(Letter) /\ Len(q) \in Nat /\ c = SubSeq(q, m + 1, Len(q))
      BY <1>2, <1>4, <3>1 DEF CutPrefix, Str
    <3> HIDE DEF c
    <3>3. c \in Seq(Letter) /\ Len(c) = Len(q) - m /\ \A i \in 1..Len(c) : c[i] = q[m + i]
      <4>1. \A i \in (m + 1)..Len(q) : i \in 1..Len(q)
        BY <3>1, <3>2
      <4>2. m + 1 \in Int /\ Len(q) \in Int
        BY <3>1, <3>2
      <4>3. /\ c \in Seq(Letter)
            /\ Len(c) = IF m + 1 <= Len(q) THEN Len(q) - (m + 1) + 1 ELSE 0
            /\ \A i \in 1..(Len(q) - (m + 1) + 1) : c[i] = q[(m + 1) + i - 1]
        BY <3>2, <4>1, <4>2, SubSeqProperties
      <4>4. m \in Nat /\ m <= Len(q) /\ Len(q) \in Nat
        BY <3>1, <3>2
      <4>5. Len(c) = Len(q) - m
        BY <4>3, <4>4
      <4>6. \A i \in 1..Len(c) : (m + 1) + i - 1 = m + i /\ i \in 1..(Len(q) - (m + 1) + 1)
        BY <4>4, <4>5
      <4> QED BY <4>3, <4>5, <4>6
    <3> QED BY <3>1, <3>3
  <2>2. PICK i \in 1..(Len(q) - Len(inside)) : x = q[i + Len(inside)]
    <3>1. PICK i \in DOMAIN c : x = c[i]
      BY DEF Range
    <3> HIDE DEF c
    <3>2. DOMAIN c = 1..Len(c)
      BY <2>1, LenProperties
    <3> QED BY <2>1, <3>1, <3>2
  <2>3. i + Len(inside) \in (Len(inside) + 1)..Len(q)
    BY <1>4, <1>6
  <2> QED BY <1>9, <2>2, <2>3
<1> QED BY <1>8, <1>10


(* The key function gives keys, and changes nothing the second time.       *)
LEMMA ListInvIsSound ==
    ASSUME \A k \in Key : KeyFunc[k] \in Key /\ KeyFunc[KeyFunc[k]] = KeyFunc[k], BatchType, ListInv
    PROVE  ListSound
<1> SUFFICES ASSUME NEW p \in Proc, Listed(p), NEW i \in DOMAIN files[p],
                    NEW info, info = files[p][i],
                    NEW inside, inside = req[p].prefix \o
                                  (IF req[p].prefix = <<>> THEN <<>> ELSE <<Slash>>)
             PROVE  /\ IsPrefix(inside, info.key)
                    /\ Slash \notin Range(CutPrefix(info.key, Len(inside)))
                    /\ IF info.dir
                       THEN \E k \in ever[p] : IsPrefix(Base \o Append(info.key, Slash), k)
                       ELSE info.key \in Key /\ S3Key(info.key) \in ever[p]
  BY DEF ListSound
<1>0. \A k \in Key : KeyFunc[k] \in Key /\ KeyFunc[KeyFunc[k]] = KeyFunc[k]
  OBVIOUS
<1>1. InList(p)
  BY DEF Listed, InList
<1>2. PICK es, P : Lists(p, es) /\ P = S3Prefix(req[p].prefix)
  BY <1>1 DEF ListInv
<1>3. i \in DOMAIN es
  BY <1>2 DEF Lists, Results
<1>4. PICK e, k : /\ e = es[i] /\ k \in ever[p] \cap S3Keys /\ IsPrefix(P, k) /\ e = Entry(k, P)
                  /\ e \in Str /\ Len(Base) < Len(e) /\ info = FileInfo(e)
                  /\ \A n \in 1..Len(Base) : e[n] = Base[n]
  BY <1>1, <1>2, <1>3, ListedEntries
<1>5. req[p].prefix \in Key \cup {<<>>}
  BY <1>1, ListPrefix
<1>6. IsPrefix(inside, info.key) /\ Slash \notin Range(CutPrefix(info.key, Len(inside)))
  <2>1. /\ k \in S3Keys /\ IsPrefix(P, k) /\ e = Entry(k, P) /\ P = S3Prefix(req[p].prefix)
        /\ info.key = FileInfo(e).key
    BY <1>2, <1>4
  <2> QED BY <1>5, <2>1, KeyBelowPrefix
<1>7. PICK q : q = info.key
  OBVIOUS
<1>8. /\ q \in Str /\ \A n \in 1..Len(q) : q[n] = e[Len(Base) + n]
      /\ \/ info.dir = TRUE /\ e[Len(e)] = Slash /\ Len(q) = Len(e) - Len(Base) - 1
         \/ info.dir = FALSE /\ e[Len(e)] # Slash /\ Len(q) = Len(e) - Len(Base)
  <2>1. /\ \/ FileInfo(e).dir = TRUE /\ e[Len(e)] = Slash
              /\ Len(FileInfo(e).key) = Len(e) - Len(Base) - 1
           \/ FileInfo(e).dir = FALSE /\ e[Len(e)] # Slash
              /\ Len(FileInfo(e).key) = Len(e) - Len(Base)
        /\ FileInfo(e).key \in Str
        /\ \A n \in 1..Len(FileInfo(e).key) : FileInfo(e).key[n] = e[Len(Base) + n]
    BY <1>4, InfoShape
  <2> QED BY <1>4, <1>7, <2>1
<1>9. Len(e) \in Nat /\ Len(Base) \in Nat /\ Len(q) \in Nat
  BY <1>4, <1>8, StringAssumption, LenProperties DEF Str
<1>10. /\ k \in Str /\ Len(e) <= Len(k) /\ \A n \in 1..Len(e) : e[n] = k[n]
       /\ e[Len(e)] # Slash => e = k
  BY <1>2, <1>4, <1>5, ChildEntry, FoundKey
<1>11. CASE info.dir
  <2>1. e[Len(e)] = Slash /\ Len(q) = Len(e) - Len(Base) - 1
    BY <1>8, <1>11
  <2>2. PICK r : r = Append(q, Slash)
    OBVIOUS
  <2>3. /\ r \in Str /\ Len(r) = Len(q) + 1 /\ r[Len(r)] = Slash
        /\ \A n \in 1..Len(q) : r[n] = q[n]
    BY <1>8, <2>2, AppendProperties, StringAssumption DEF Str
  <2>4. PICK w : w = Base \o r
    OBVIOUS
  <2>5. /\ w \in Str /\ Len(w) = Len(Base) + Len(r)
        /\ \A n \in 1..Len(w) : w[n] = IF n <= Len(Base) THEN Base[n] ELSE r[n - Len(Base)]
    <3>1. Base \in Seq(Letter) /\ r \in Seq(Letter)
      BY <2>3, StringAssumption DEF Str
    <3> QED BY <2>4, <3>1, ConcatProperties DEF Str
  <2>6. Len(w) = Len(e) /\ Len(r) = Len(e) - Len(Base)
    BY <1>9, <2>1, <2>3, <2>5
  <2>7. ASSUME NEW n \in 1..Len(w) PROVE w[n] = k[n]
    <3>1. CASE n <= Len(Base)
      BY <1>4, <1>9, <1>10, <2>5, <2>6, <3>1
    <3>2. CASE ~(n <= Len(Base)) /\ n # Len(w)
      <4>1. n - Len(Base) \in 1..Len(q) /\ Len(Base) + (n - Len(Base)) = n
        BY <1>9, <2>1, <2>6, <3>2
      <4> QED BY SMTT(60), <1>8, <1>10, <2>3, <2>5, <2>6, <3>2, <4>1
    <3>3. CASE ~(n <= Len(Base)) /\ n = Len(w)
      <4>1. n - Len(Base) = Len(r)
        BY <1>9, <2>6, <3>3
      <4> QED BY <1>10, <2>1, <2>3, <2>5, <2>6, <3>3, <4>1
    <3> QED BY <3>1, <3>2, <3>3
  <2>8. IsPrefix(w, k)
    BY <1>10, <2>5, <2>6, <2>7, PrefixByIndex
  <2> QED BY <1>4, <1>6, <1>7, <1>11, <2>2, <2>4, <2>8
<1>12. CASE ~info.dir
  <2>1. e = k /\ Len(q) = Len(e) - Len(Base)
    BY <1>8, <1>10, <1>12
  <2>2. PICK key \in Key : k = S3Key(key)
    BY <1>2, <1>4, <1>5, FoundKey
  <2>3. /\ Len(k) = Len(Base) + Len(KeyFunc[key])
        /\ \A n \in 1..Len(KeyFunc[key]) : k[Len(Base) + n] = KeyFunc[key][n]
    BY <2>2, KeyShape
  <2>4. q = KeyFunc[key]
    <3>1. KeyFunc[key] \in Str /\ Len(KeyFunc[key]) \in Nat
      BY CleanKey
    <3>2. Len(q) = Len(KeyFunc[key])
      BY <1>9, <2>1, <2>3, <3>1
    <3> QED BY SMTT(60), <1>8, <2>1, <2>3, <3>1, <3>2, SeqEqual DEF Str
  <2>5. q \in Key /\ S3Key(q) = k
    BY <1>0, <2>2, <2>4 DEF S3Key
  <2> QED BY <1>4, <1>6, <1>7, <1>12, <2>5
<1> QED BY <1>11, <1>12

LEMMA ListInvAlways == Spec => [](BatchInv /\ ListInv)
<1>1. Init => BatchInv /\ ListInv
  BY BatchStarts, ListInvStarts
<1>2. BatchInv /\ ListInv /\ [Next]_vars => (BatchInv /\ ListInv)'
  BY BatchInvKept, ListInvKept
<1> QED BY <1>1, <1>2, PTL DEF Spec

(* However S3 cuts the listing into pages (objectfs.go:190-236), and       *)
(* whatever others put and delete between two of them, no entry is in the  *)
(* results of a List twice.                                                *)
THEOREM ListsOnce == Spec => []ListedOnce
<1>1. BatchInv /\ ListInv => ListedOnce
  BY ListInvIsOnce DEF BatchInv
<1> QED BY <1>1, ListInvAlways, PTL

(* What has an object all the time List takes is in its results: nothing   *)
(* falls between two pages.                                                *)
THEOREM ListsAll == Spec => []ListComplete
<1>1. BatchInv /\ ListInv => ListComplete
  BY ListInvIsComplete DEF BatchInv
<1> QED BY <1>1, ListInvAlways, PTL

(* A result is one segment below the prefix; the key of a file is that of  *)
(* an object there was, and below a directory there was one.  A key        *)
(* function that is not idempotent breaks the way back from S3 key to key. *)
THEOREM ListsOnlyChildren ==
    ASSUME \A k \in Key : KeyFunc[k] \in Key /\ KeyFunc[KeyFunc[k]] = KeyFunc[k]
    PROVE  Spec => []ListSound
<1>1. BatchInv /\ ListInv => ListSound
  BY ListInvIsSound DEF BatchInv
<1> QED BY <1>1, ListInvAlways, PTL
=============================================================================
