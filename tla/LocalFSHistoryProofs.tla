------------------------- MODULE LocalFSHistoryProofs -------------------------
(***************************************************************************)
(* Proofs about LocalFSHistory: what writing in place leaves of the        *)
(* promise of whole files, for any mix of Puts, atomic or not, Copies,     *)
(* Gets, Deletes and crashes.                                              *)
(*                                                                         *)
(* The invariant says, of files that are not dirty and calls that are not  *)
(* mixed, what a reader and a writer may rely on between two steps.        *)
(***************************************************************************)
EXTENDS LocalFSHistory, LocalFSProofs

(* A file holds what its last writer set out to store in it.               *)
Kept(i) == data[i] = due[i] /\ data[i] \in Val

(* A call that has read only from clean files reads from one nobody writes. *)
ReadsClean ==
    \A p \in Proc :
        p \notin mixed /\ in[p] \in Inode =>
            in[p] \notin dirty /\ ~Written(in[p]) /\ Kept(in[p])

(* The one writer of a clean file has put there all it has moved, which is *)
(* the first part of what it set out to store.                             *)
Fills(p) ==
    /\ data[out[p]] = buf[p]
    /\ Readable(p) => due[out[p]] = Feed(p) /\ Part(buf[p], Feed(p))

WritesClean ==
    \A p \in Proc :
        out[p] \in Inode /\ out[p] \notin dirty =>
            /\ p \notin mixed
            /\ \A q \in Proc \ {p} : out[q] # out[p]
            /\ Fills(p)

(* What a call has open and has moved at each point of its method.         *)
Holds(p) ==
    /\ pc[p] \in {"idle", "start", "done"} => in[p] = NoFile
    /\ pc[p] \in {"idle", "start", "opened", "create"} => buf[p] = <<>>
    /\ pc[p] = "read" /\ in[p] \in Inode /\ p \notin mixed
          => Part(buf[p], data[in[p]])
    /\ pc[p] = "done" /\ req[p].op = "get" /\ res[p] = "ok" /\ p \notin mixed
          => buf[p] \in Val

Holding == \A p \in Proc : Holds(p)

HistInv ==
    TempInv /\ ReadsClean /\ WritesClean /\ Holding /\ CleanFilesKeepTheirPayload

----------------------------------------------------------------------------
(* What Record makes of a step.                                            *)

(* A file is clean after a step if it was before or has just been opened,  *)
(* no call that failed has just closed it, and no two calls write it.      *)
LEMMA CleanAfter ==
    ASSUME Record, NEW i \in InUse' \cap Inode, i \notin dirty'
    PROVE  /\ i \notin dirty \/ \E p \in Proc : Opened(p, i)
           /\ \A p \in Proc : Closed(p, i) => res'[p] = "ok"
           /\ \A p \in Proc : out'[p] = i =>
                 p \notin mixed' /\ \A q \in Proc \ {p} : out'[q] # i
BY DEF Record, Soiled, Overlapping, Abandoned, StillDirty

LEMMA UnmixedAfter ==
    ASSUME Record, NEW p \in Proc, p \notin mixed'
    PROVE  /\ p \notin mixed \/ pc'[p] = "idle"
           /\ in'[p] # NoFile => \A q \in Proc : out'[q] # in'[p]
           /\ in'[p] \notin Soiled
BY DEF Record

LEMMA UnmixedReadsClean ==
    ASSUME Record, NEW p \in Proc, p \notin mixed', in'[p] \in Inode
    PROVE  in'[p] \notin dirty' /\ \A q \in Proc : out'[q] # in'[p]
<1>1. in'[p] # NoFile
  BY NullAssumption
<1>2. (\A q \in Proc : out'[q] # in'[p]) /\ in'[p] \notin Soiled
  BY <1>1, UnmixedAfter
<1>3. dirty' \subseteq Soiled \cup {out'[q] : q \in mixed'} /\ mixed' \subseteq Proc
  BY DEF Record
<1> QED BY <1>2, <1>3

(* What a file is due changes when a call opens it for writing.            *)
LEMMA DueAfter ==
    ASSUME Record, NEW i \in InUse' \cap Inode
    PROVE  /\ (\A p \in Proc : ~Opened(p, i)) => due'[i] = due[i]
           /\ \A p \in Proc :
                 /\ Opened(p, i)
                 /\ \A q \in Proc \ {p} : ~Opened(q, i)
                 => due'[i] = IF Readable(p) THEN Feed(p) ELSE <<>>
<1> DEFINE openers == {p \in Proc : Opened(p, i)}
<1>1. due'[i] = IF openers = {} THEN due[i]
                ELSE LET p == CHOOSE p \in openers : TRUE
                     IN  IF Readable(p) THEN Feed(p) ELSE <<>>
  BY DEF Record
<1>2. ASSUME NEW p \in Proc, Opened(p, i), \A q \in Proc \ {p} : ~Opened(q, i)
      PROVE  due'[i] = IF Readable(p) THEN Feed(p) ELSE <<>>
  <2>1. openers = {p}
    BY <1>2
  <2>2. (CHOOSE q \in {p} : TRUE) = p
    OBVIOUS
  <2> QED BY <1>1, <2>1, <2>2
<1>3. ASSUME \A p \in Proc : ~Opened(p, i) PROVE due'[i] = due[i]
  BY <1>1, <1>3
<1> QED BY <1>2, <1>3

----------------------------------------------------------------------------
(* The steps.                                                              *)

(* Facts of every state of the invariant.                                  *)
LEMMA Known ==
    ASSUME HistInv
    PROVE  /\ TypeOK /\ Handles /\ <<>> \in Content
           /\ \A r \in Proc : out[r] \in Inode => pc[r] = "write"
           /\ \A r \in Proc : pc[r] = "write" => out[r] \in Inode
           /\ \A k \in Key : k \in Path
<1>1. TypeOK /\ Handles
  BY DEF HistInv, TempInv, TypeInv
<1>2. \A r \in Proc : out[r] \in Inode => pc[r] = "write"
  BY <1>1, NullAssumption DEF Handles
<1> QED BY <1>1, <1>2, EmptySeq DEF Content, Handles, Path

(* What a clean reader has open does not change under it.                  *)
LEMMA StillReading ==
    ASSUME HistInv, Record, NEW r \in Proc, r \notin mixed',
           in'[r] \in Inode, in'[r] = in[r], pc'[r] # "idle",
           data'[in[r]] = data[in[r]]
    PROVE  /\ r \notin mixed /\ Kept(in[r]) /\ in[r] \notin dirty
           /\ in'[r] \notin dirty' /\ Kept(in[r])'
           /\ \A q \in Proc : out'[q] # in'[r]
<1>1. in'[r] \notin dirty' /\ \A q \in Proc : out'[q] # in'[r]
  BY UnmixedReadsClean
<1>2. in[r] \in InUse' \cap Inode /\ \A q \in Proc : ~Opened(q, in[r])
  BY <1>1 DEF InUse, Opened
<1>3. r \notin mixed
  BY UnmixedAfter
<1>4. Kept(in[r]) /\ in[r] \notin dirty
  BY <1>3 DEF HistInv, ReadsClean
<1>5. due'[in[r]] = due[in[r]]
  BY <1>2, DueAfter
<1> QED BY <1>1, <1>3, <1>4, <1>5 DEF Kept

(* Nor what a clean writer has open, nor the file it copies.               *)
LEMMA StillWriting ==
    ASSUME HistInv, Record, NEW r \in Proc,
           out'[r] \in Inode, out'[r] \notin dirty', out'[r] = out[r],
           in'[r] = in[r], req'[r] = req[r], buf'[r] = buf[r],
           pc'[r] # "idle",
           data'[out[r]] = data[out[r]],
           in[r] \in Inode => data'[in[r]] = data[in[r]]
    PROVE  /\ r \notin mixed' /\ Fills(r)'
           /\ \A q \in Proc \ {r} : out'[q] # out'[r]
<1> DEFINE i == out[r]
<1>1. /\ i \in InUse' \cap Inode /\ i \notin dirty'
      /\ out'[r] = i
  BY DEF InUse
<1>2. /\ r \notin mixed' /\ \A q \in Proc \ {r} : out'[q] # i
      /\ \A q \in Proc : ~Opened(q, i)
  BY <1>1, CleanAfter DEF Opened
<1>3. i \notin dirty /\ due'[i] = due[i]
  BY <1>1, <1>2, CleanAfter, DueAfter
<1>4. Fills(r)
  BY <1>3 DEF HistInv, WritesClean
<1>5. Fills(r)'
  BY <1>3, <1>4 DEF Fills, Readable, Feed
<1> QED BY <1>2, <1>5

(* A file that had a key and nobody writes is as it was.                   *)
LEMMA StillKept ==
    ASSUME HistInv, Record, NEW i \in InUse' \cap Inode, i \notin dirty',
           \A q \in Proc : out'[q] # i /\ out[q] # i,
           NEW k \in Key, tree[k] = i,
           data'[i] = data[i]
    PROVE  Kept(i)'
<1>1. \A q \in Proc : ~Opened(q, i)
  BY DEF Opened
<1>2. i \notin dirty /\ due'[i] = due[i]
  BY <1>1, CleanAfter, DueAfter
<1>3. Kept(i)
  BY <1>2 DEF HistInv, CleanFilesKeepTheirPayload, IsFile, Written, Kept
<1> QED BY <1>2, <1>3 DEF Kept

(* The calls a step leaves alone hold what they held.                      *)
LEMMA StillHolding ==
    ASSUME HistInv, Record, NEW r \in Proc,
           pc'[r] = pc[r], in'[r] = in[r], buf'[r] = buf[r],
           req'[r] = req[r], res'[r] = res[r],
           in[r] \in Inode /\ r \notin mixed' => data'[in[r]] = data[in[r]]
    PROVE  Holds(r)'
<1>1. Holds(r)
  BY DEF HistInv, Holding
<1>2. r \notin mixed' => r \notin mixed \/ pc'[r] = "idle"
  BY UnmixedAfter
<1> QED BY <1>1, <1>2 DEF Holds

(* A step of p in which no file is opened or closed for writing, and after *)
(* which p has open for reading what it had, nothing, or what a key names. *)
LEMMA NothingOpened ==
    ASSUME HistInv, Record, TempInv', NEW p \in Proc,
           data' = data \/ Store(data),
           UNCHANGED out, pc[p] # "write",
           \A k \in Key : tree'[k] \in {tree[k], Dir, Absent},
           \A r \in Proc \ {p} : /\ pc'[r] = pc[r] /\ in'[r] = in[r]
                                 /\ buf'[r] = buf[r] /\ req'[r] = req[r]
                                 /\ res'[r] = res[r],
           \/ in'[p] = in[p] \/ in'[p] = NoFile
           \/ \E k \in Key : in'[p] = tree[k] /\ tree'[k] = tree[k],
           pc'[p] = "idle" => in'[p] = NoFile,
           Holds(p)'
    PROVE  HistInv'
<1>1. /\ TypeOK /\ Handles
      /\ \A r \in Proc : out[r] \in Inode => pc[r] = "write"
      /\ \A k \in Key : k \in Path
  BY Known
<1>2. \A i \in InUse' \cap Inode : data'[i] = data[i]
  BY <1>1, StoreKeeps DEF TypeOK
<1>3. \A r \in Proc : pc[r] \in {"idle", "start", "done"} => in[r] = NoFile
  BY DEF HistInv, Holding, Holds
<1>4. \A r \in Proc : in'[r] \in Inode =>
         pc'[r] # "idle" /\ in'[r] \in InUse' \cap Inode
  BY <1>3, NullAssumption DEF InUse
<1>5. ReadsClean'
  <2> SUFFICES ASSUME NEW r \in Proc, r \notin mixed', in'[r] \in Inode
               PROVE  /\ in'[r] \notin dirty' /\ Kept(in[r])'
                      /\ \A q \in Proc : out'[q] # in'[r]
    BY DEF ReadsClean, Written
  <2>1. CASE in'[r] = in[r]
    BY <1>2, <1>4, <2>1, StillReading
  <2>2. CASE in'[r] # in[r]
    <3>1. PICK k \in Key : in'[r] = tree[k]
      BY <2>2, NullAssumption
    <3> PICK i : i = tree[k]
      OBVIOUS
    <3>2. /\ i \in InUse' \cap Inode /\ i \notin dirty' /\ tree[k] = i
          /\ \A q \in Proc : out'[q] # i /\ out[q] # i
      BY <1>4, <3>1, UnmixedReadsClean
    <3>3. data'[i] = data[i]
      BY <1>2, <3>2
    <3>4. Kept(i)'
      BY <3>2, <3>3, StillKept
    <3> QED BY <3>1, <3>2, <3>4 DEF Kept
  <2> QED BY <2>1, <2>2
<1>6. WritesClean'
  <2> SUFFICES ASSUME NEW r \in Proc, out'[r] \in Inode, out'[r] \notin dirty'
               PROVE  /\ r \notin mixed' /\ Fills(r)'
                      /\ \A q \in Proc \ {r} : out'[q] # out'[r]
    BY DEF WritesClean
  <2>1. r # p /\ pc'[r] = "write" /\ out'[r] = out[r]
    BY <1>1
  <2>2. data'[out[r]] = data[out[r]]
    BY <1>2 DEF InUse
  <2>3. in[r] \in Inode => data'[in[r]] = data[in[r]]
    BY <1>2, <1>4, <2>1
  <2> QED BY <2>1, <2>2, <2>3, StillWriting
<1>7. Holding'
  <2> SUFFICES ASSUME NEW r \in Proc, r # p PROVE Holds(r)'
    BY DEF Holding
  <2>1. in[r] \in Inode => data'[in[r]] = data[in[r]]
    BY <1>2, <1>4
  <2> QED BY <2>1, StillHolding
<1>8. CleanFilesKeepTheirPayload'
  <2> SUFFICES ASSUME NEW k \in Key, tree'[k] \in Inode, tree'[k] \notin dirty',
                      \A q \in Proc : out'[q] # tree'[k]
               PROVE  data'[tree'[k]] = due'[tree'[k]] /\ data'[tree'[k]] \in Val
    BY DEF CleanFilesKeepTheirPayload, IsFile, Written
  <2> PICK i : i = tree[k]
    OBVIOUS
  <2>1. tree'[k] = i
    BY NullAssumption
  <2>2. /\ i \in InUse' \cap Inode /\ i \notin dirty' /\ tree[k] = i
        /\ \A q \in Proc : out'[q] # i /\ out[q] # i
    BY <1>1, <2>1 DEF InUse
  <2>3. data'[i] = data[i]
    BY <1>2, <2>2
  <2>4. Kept(i)'
    BY <2>2, <2>3, StillKept
  <2> QED BY <2>1, <2>4 DEF Kept
<1> QED BY <1>5, <1>6, <1>7, <1>8 DEF HistInv

(* p opens file i for writing, truncated, at path q.                       *)
LEMMA FileOpened ==
    ASSUME HistInv, Record, TempInv', NEW p \in Proc, NEW i \in Inode,
           NEW q \in Path,
           pc[p] = "create", pc' = [pc EXCEPT ![p] = "write"],
           UNCHANGED <<req, in, buf, res>>,
           tree' = [tree EXCEPT ![q] = i],
           out' = [out EXCEPT ![p] = i],
           Store([data EXCEPT ![i] = <<>>])
    PROVE  HistInv'
<1>1. /\ TypeOK /\ Handles /\ <<>> \in Content
      /\ \A r \in Proc : out[r] \in Inode => pc[r] = "write"
      /\ \A k \in Key : k \in Path
  BY Known
<1>2. /\ \A j \in InUse' \cap Inode : j # i => data'[j] = data[j]
      /\ i \in InUse' => data'[i] = <<>>
  <2> DEFINE d == [data EXCEPT ![i] = <<>>]
  <2>1. /\ d \in [Inode -> Content] /\ d[i] = <<>>
        /\ \A j \in Inode \ {i} : d[j] = data[j]
    BY <1>1 DEF TypeOK
  <2>2. Store(d)
    OBVIOUS
  <2> HIDE DEF d
  <2> QED BY <2>1, <2>2, StoreKeeps
<1>3. /\ out'[p] = i /\ out[p] # i
      /\ \A r \in Proc \ {p} : out'[r] = out[r] /\ pc'[r] = pc[r]
      /\ pc'[p] = "write"
      /\ \A k \in Path : tree'[k] = tree[k] \/ tree'[k] = i
  BY <1>1, NullAssumption DEF TypeOK
<1>4. \A r \in Proc : pc[r] \in {"idle", "start", "done"} => in[r] = NoFile
  BY DEF HistInv, Holding, Holds
<1>5. \A r \in Proc : in'[r] \in Inode =>
         /\ pc'[r] # "idle" /\ in'[r] \in InUse' \cap Inode /\ in'[r] = in[r]
         /\ r \notin mixed' => in[r] # i /\ data'[in[r]] = data[in[r]]
  <2> SUFFICES ASSUME NEW r \in Proc, in'[r] \in Inode
               PROVE  /\ pc'[r] # "idle" /\ in'[r] \in InUse' \cap Inode
                      /\ in'[r] = in[r]
                      /\ r \notin mixed' =>
                            in[r] # i /\ data'[in[r]] = data[in[r]]
    OBVIOUS
  <2>1. in'[r] \in InUse' \cap Inode /\ in'[r] = in[r]
    BY DEF InUse
  <2>2. pc'[r] # "idle"
    BY <1>3, <1>4, <2>1, NullAssumption
  <2>3. r \notin mixed' => in'[r] # out'[p]
    BY UnmixedReadsClean
  <2> QED BY <1>2, <1>3, <2>1, <2>2, <2>3
<1>6. ReadsClean'
  <2> SUFFICES ASSUME NEW r \in Proc, r \notin mixed', in'[r] \in Inode
               PROVE  /\ in'[r] \notin dirty' /\ Kept(in[r])'
                      /\ \A s \in Proc : out'[s] # in'[r]
    BY DEF ReadsClean, Written
  <2> QED BY <1>5, StillReading
<1>7. WritesClean'
  <2> SUFFICES ASSUME NEW r \in Proc, out'[r] \in Inode, out'[r] \notin dirty'
               PROVE  /\ r \notin mixed' /\ Fills(r)'
                      /\ \A s \in Proc \ {r} : out'[s] # out'[r]
    BY DEF WritesClean
  <2>1. out'[r] \in InUse' \cap Inode
    BY DEF InUse
  <2>2. r \notin mixed' /\ \A s \in Proc \ {r} : out'[s] # out'[r]
    BY <2>1, CleanAfter
  <2>3. CASE r = p
    <3>1. Opened(p, i) /\ \A s \in Proc \ {p} : ~Opened(s, i)
      BY <1>3, <2>2, <2>3 DEF Opened
    <3>2. due'[i] = IF Readable(p) THEN Feed(p) ELSE <<>>
      BY <1>3, <2>1, <2>3, <3>1, DueAfter
    <3>3. Readable(p)' = Readable(p) /\ (Readable(p) => Feed(p)' = Feed(p))
      BY <1>5, <2>2, <2>3 DEF Readable, Feed
    <3>4. buf'[p] = <<>> /\ data'[i] = <<>>
      BY <1>2, <1>3, <2>1, <2>3 DEF HistInv, Holding, Holds
    <3>5. Readable(p) => Feed(p) \in Content
      <4>1. req[p] \in Calls
        BY <1>1 DEF TypeOK
      <4>2. req[p].op = "put" => req[p].val \in Content
        BY <4>1, CallShape, ValIsContent
      <4>3. in[p] \in Inode => data[in[p]] \in Content
        BY <1>1 DEF TypeOK
      <4> QED BY <4>2, <4>3 DEF Readable, Feed
    <3>6. \A t \in Content : Part(<<>>, t)
      BY LenProperties, EmptySeq DEF Part, Content
    <3>7. Readable(p) => Part(<<>>, Feed(p))
      BY <3>5, <3>6
    <3>8. Fills(p)'
      BY <1>3, <3>2, <3>3, <3>4, <3>7 DEF Fills
    <3> QED BY <2>2, <2>3, <3>8
  <2>4. CASE r # p
    <3>1. out'[r] = out[r] /\ out[r] # i /\ pc'[r] = "write"
      BY <1>1, <1>3, <2>2, <2>4
    <3>2. data'[out[r]] = data[out[r]]
      BY <1>2, <2>1, <3>1
    <3>3. in[r] \in Inode => data'[in[r]] = data[in[r]]
      BY <1>5, <2>2
    <3> QED BY <3>1, <3>2, <3>3, StillWriting
  <2> QED BY <2>3, <2>4
<1>8. Holding'
  <2> SUFFICES ASSUME NEW r \in Proc PROVE Holds(r)'
    BY DEF Holding
  <2>1. CASE r = p
    BY <1>3, <2>1 DEF Holds
  <2>2. CASE r # p
    BY <1>3, <1>5, <2>2, StillHolding
  <2> QED BY <2>1, <2>2
<1>9. CleanFilesKeepTheirPayload'
  <2> SUFFICES ASSUME NEW k \in Key, tree'[k] \in Inode, tree'[k] \notin dirty',
                      \A s \in Proc : out'[s] # tree'[k]
               PROVE  data'[tree'[k]] = due'[tree'[k]] /\ data'[tree'[k]] \in Val
    BY DEF CleanFilesKeepTheirPayload, IsFile, Written
  <2> PICK j : j = tree[k]
    OBVIOUS
  <2>1. tree'[k] = j /\ j # i
    BY <1>1, <1>3
  <2>2. /\ j \in InUse' \cap Inode /\ j \notin dirty' /\ tree[k] = j
        /\ \A s \in Proc : out'[s] # j /\ out[s] # j
    <3>1. out[p] # j
      BY <1>1, <2>1
    <3>2. j \in InUse'
      BY <1>1, <2>1 DEF InUse
    <3> QED BY <1>3, <2>1, <3>1, <3>2
  <2>3. data'[j] = data[j]
    BY <1>2, <2>1, <2>2
  <2>4. Kept(j)'
    BY <2>2, <2>3, StillKept
  <2> QED BY <2>1, <2>4 DEF Kept
<1> QED BY <1>6, <1>7, <1>8, <1>9 DEF HistInv

(* p closes the file it wrote: all of it is there, or the call has failed. *)
LEMMA FileClosed ==
    ASSUME HistInv, Record, TempInv', NEW p \in Proc, NEW r0,
           pc[p] = "write", Close(p, r0), r0 = "ok" => Copied(p),
           \A k \in Key : tree'[k] \in {tree[k], Absent, out[p]}
    PROVE  HistInv'
<1>1. /\ TypeOK /\ Handles /\ out[p] \in Inode /\ req[p] \in Calls
      /\ \A r \in Proc : out[r] \in Inode => pc[r] = "write"
      /\ \A k \in Key : k \in Path
  BY Known DEF TypeOK
<1>2. /\ in'[p] = NoFile /\ out'[p] = NoFile /\ buf'[p] = <<>>
      /\ pc'[p] = "done" /\ res'[p] = r0 /\ UNCHANGED req
      /\ \A r \in Proc \ {p} :
            /\ pc'[r] = pc[r] /\ in'[r] = in[r] /\ buf'[r] = buf[r]
            /\ out'[r] = out[r] /\ res'[r] = res[r]
  BY <1>1 DEF Close, Answer, Goto, TypeOK
<1>3. \A i \in InUse' \cap Inode : data'[i] = data[i]
  BY <1>1, StoreKeeps DEF TypeOK, Close
<1>4. \A r \in Proc : pc[r] \in {"idle", "start", "done"} => in[r] = NoFile
  BY DEF HistInv, Holding, Holds
<1>5. \A r \in Proc : in'[r] \in Inode =>
         /\ r # p /\ in'[r] = in[r] /\ pc'[r] # "idle"
         /\ in'[r] \in InUse' \cap Inode
  BY <1>2, <1>4, NullAssumption DEF InUse
<1>6. ReadsClean'
  <2> SUFFICES ASSUME NEW r \in Proc, r \notin mixed', in'[r] \in Inode
               PROVE  /\ in'[r] \notin dirty' /\ Kept(in[r])'
                      /\ \A s \in Proc : out'[s] # in'[r]
    BY DEF ReadsClean, Written
  <2> QED BY <1>3, <1>5, StillReading
<1>7. WritesClean'
  <2> SUFFICES ASSUME NEW r \in Proc, out'[r] \in Inode, out'[r] \notin dirty'
               PROVE  /\ r \notin mixed' /\ Fills(r)'
                      /\ \A s \in Proc \ {r} : out'[s] # out'[r]
    BY DEF WritesClean
  <2>1. r # p /\ pc'[r] = "write" /\ out'[r] = out[r]
    BY <1>1, <1>2, NullAssumption
  <2>2. data'[out[r]] = data[out[r]]
    BY <1>3, <2>1 DEF InUse
  <2>3. in[r] \in Inode => data'[in[r]] = data[in[r]]
    BY <1>2, <1>3, <1>5, <2>1
  <2> QED BY <1>2, <2>1, <2>2, <2>3, StillWriting
<1>8. Holding'
  <2> SUFFICES ASSUME NEW r \in Proc PROVE Holds(r)'
    BY DEF Holding
  <2>1. CASE r = p
    <3>1. req'[p].op # "get"
      BY <1>1, <1>2 DEF Handles
    <3> QED BY <1>2, <2>1, <3>1 DEF Holds
  <2>2. CASE r # p
    <3>1. in[r] \in Inode => data'[in[r]] = data[in[r]]
      BY <1>2, <1>3, <1>5, <2>2
    <3> QED BY <1>2, <2>2, <3>1, StillHolding
  <2> QED BY <2>1, <2>2
<1>9. CleanFilesKeepTheirPayload'
  <2> SUFFICES ASSUME NEW k \in Key, tree'[k] \in Inode, tree'[k] \notin dirty',
                      \A s \in Proc : out'[s] # tree'[k]
               PROVE  data'[tree'[k]] = due'[tree'[k]] /\ data'[tree'[k]] \in Val
    BY DEF CleanFilesKeepTheirPayload, IsFile, Written
  <2>1. PICK i : i = tree'[k]
    OBVIOUS
  <2>2. /\ i \in InUse' \cap Inode /\ i \notin dirty'
        /\ \A s \in Proc : out'[s] # i
    BY <1>1, <2>1 DEF InUse
  <2>3. /\ \A s \in Proc : ~Opened(s, i)
        /\ due'[i] = due[i] /\ data'[i] = data[i] /\ i \notin dirty
    <3>1. \A s \in Proc : ~Opened(s, i)
      BY <2>2 DEF Opened
    <3> QED BY <1>3, <2>2, <3>1, CleanAfter, DueAfter
  <2>4. CASE i = out[p]
    <3>1. Closed(p, i)
      BY <2>2, <2>4 DEF Closed
    <3>2. Copied(p)
      BY <1>2, <2>2, <3>1, CleanAfter
    <3>3. p \notin mixed /\ Fills(p) /\ Readable(p) /\ Len(buf[p]) >= Len(Feed(p))
      BY <1>1, <2>3, <2>4, <3>2 DEF HistInv, WritesClean, Copied
    <3>4. Feed(p) \in Val
      <4>1. req[p].op = "put" => req[p].val \in Val
        BY <1>1, CallShape
      <4>2. in[p] \in Inode => data[in[p]] \in Val
        BY <3>3 DEF HistInv, ReadsClean, Kept
      <4> QED BY <3>3, <4>1, <4>2 DEF Readable, Feed
    <3>5. buf[p] = Feed(p)
      <4>1. buf[p] \in Content /\ Feed(p) \in Content
        BY <1>1, <3>4, ValIsContent DEF TypeOK
      <4>2. Part(buf[p], Feed(p))
        BY <3>3 DEF Fills
      <4> QED BY <3>3, <4>1, <4>2, PartIsWhole
    <3> QED BY <2>1, <2>3, <2>4, <3>3, <3>4, <3>5 DEF Fills
  <2>5. CASE i # out[p]
    <3>1. tree[k] = i
      BY <2>1, <2>2, <2>5, NullAssumption
    <3>2. \A s \in Proc : out[s] # i
      BY <1>2, <2>2, <2>5
    <3>3. Kept(i)'
      BY <2>2, <2>3, <3>1, <3>2, StillKept
    <3> QED BY <2>1, <3>3 DEF Kept
  <2> QED BY <2>4, <2>5
<1> QED BY <1>6, <1>7, <1>8, <1>9 DEF HistInv

(* p moves one chunk.  A file it shares is dirty, and whoever reads it is  *)
(* mixed.                                                                  *)
LEMMA ChunkMoved ==
    ASSUME HistInv, Record, TempInv', NEW p \in Proc, CopyChunk(p)
    PROVE  HistInv'
<1>1. /\ TypeOK /\ Handles /\ out[p] \in Inode /\ req[p] \in Calls
      /\ \A r \in Proc : out[r] \in Inode => pc[r] = "write"
      /\ \A k \in Key : k \in Path /\ pc[p] = "write"
  BY Known DEF TypeOK, CopyChunk
<1>2. /\ UNCHANGED <<tree, pc, req, in, out, res>> /\ Readable(p)
      /\ \A r \in Proc \ {p} : buf'[r] = buf[r]
      /\ \A i \in Inode \ {out[p]} : data'[i] = data[i]
  BY <1>1 DEF CopyChunk, TypeOK
<1>3. \A r \in Proc : pc[r] \in {"idle", "start", "done"} => in[r] = NoFile
  BY DEF HistInv, Holding, Holds
<1>4. \A r \in Proc : in[r] \in Inode =>
         /\ pc'[r] # "idle" /\ in[r] \in InUse' \cap Inode
         /\ r \notin mixed' => in[r] # out[p] /\ data'[in[r]] = data[in[r]]
  <2> SUFFICES ASSUME NEW r \in Proc, in[r] \in Inode
               PROVE  /\ pc'[r] # "idle" /\ in[r] \in InUse' \cap Inode
                      /\ r \notin mixed' =>
                            in[r] # out[p] /\ data'[in[r]] = data[in[r]]
    OBVIOUS
  <2>1. in[r] \in InUse' \cap Inode /\ in'[r] = in[r]
    BY <1>2 DEF InUse
  <2>2. pc'[r] # "idle"
    BY <1>2, <1>3, <2>1, NullAssumption
  <2>3. r \notin mixed' => in'[r] # out'[p]
    BY <2>1, UnmixedReadsClean
  <2> QED BY <1>2, <2>1, <2>2, <2>3
<1>5. ReadsClean'
  <2> SUFFICES ASSUME NEW r \in Proc, r \notin mixed', in'[r] \in Inode
               PROVE  /\ in'[r] \notin dirty' /\ Kept(in[r])'
                      /\ \A s \in Proc : out'[s] # in'[r]
    BY DEF ReadsClean, Written
  <2> QED BY <1>2, <1>4, StillReading
<1>6. WritesClean'
  <2> SUFFICES ASSUME NEW r \in Proc, out'[r] \in Inode, out'[r] \notin dirty'
               PROVE  /\ r \notin mixed' /\ Fills(r)'
                      /\ \A s \in Proc \ {r} : out'[s] # out'[r]
    BY DEF WritesClean
  <2>1. PICK i : i = out[r]
    OBVIOUS
  <2>2. i \in InUse' \cap Inode /\ i \notin dirty' /\ out'[r] = i
    BY <1>2, <2>1 DEF InUse
  <2>3. /\ r \notin mixed' /\ \A s \in Proc \ {r} : out'[s] # i
        /\ \A s \in Proc : ~Opened(s, i)
    BY <1>2, <2>2, CleanAfter DEF Opened
  <2>4. CASE r = p
    <3>1. i \notin dirty /\ due'[i] = due[i]
      BY <2>2, <2>3, CleanAfter, DueAfter
    <3>2. Fills(p)
      BY <2>1, <2>2, <2>4, <3>1 DEF HistInv, WritesClean
    <3> DEFINE c == Feed(p)[Len(buf[p]) + 1]
    <3>3. /\ Feed(p) \in Content /\ buf[p] \in Content
          /\ Len(buf[p]) < Len(Feed(p))
      <4>1. req[p].op = "put" => req[p].val \in Content
        BY <1>1, CallShape, ValIsContent
      <4>2. in[p] \in Inode => data[in[p]] \in Content
        BY <1>1 DEF TypeOK
      <4> QED BY <1>1, <1>2, <4>1, <4>2 DEF TypeOK, Feed, Readable, CopyChunk
    <3>4. c \in Chunk \cup {Zero}
      BY <3>3, NextChunk
    <3>5. /\ buf' = [buf EXCEPT ![p] = Append(buf[p], c)]
          /\ data' = [data EXCEPT ![out[p]] = WriteAt(data[out[p]], Len(buf[p]), c)]
      BY DEF CopyChunk
    <3>6. /\ data[i] = buf[p] /\ due[i] = Feed(p)
          /\ Part(buf[p], Feed(p))
      BY <1>2, <2>1, <2>4, <3>2 DEF Fills
    <3>7. Part(Append(buf[p], c), Feed(p))
      BY <3>3, <3>6, PartGrows
    <3>8. WriteAt(buf[p], Len(buf[p]), c) = Append(buf[p], c)
      BY <3>3, <3>4, WriteAtEnd
    <3> HIDE DEF c
    <3>9. data'[i] = Append(buf[p], c) /\ buf'[p] = Append(buf[p], c)
      BY <1>1, <2>1, <2>4, <3>5, <3>6, <3>8 DEF TypeOK
    <3>10. Feed(p)' = Feed(p)
      BY <1>2, <1>4, <2>3, <2>4 DEF Feed, Readable
    <3>11. Fills(p)'
      BY <2>2, <2>4, <3>1, <3>6, <3>7, <3>9, <3>10 DEF Fills
    <3> QED BY <2>2, <2>3, <2>4, <3>11
  <2>5. CASE r # p
    <3>1. out[r] # out[p] /\ pc'[r] = "write"
      BY <1>1, <1>2, <2>1, <2>2, <2>3, <2>5
    <3>2. data'[out[r]] = data[out[r]]
      BY <1>2, <2>1, <2>2, <3>1
    <3>3. in[r] \in Inode => data'[in[r]] = data[in[r]]
      BY <1>4, <2>3
    <3> QED BY <1>2, <2>5, <3>1, <3>2, <3>3, StillWriting
  <2> QED BY <2>4, <2>5
<1>7. Holding'
  <2> SUFFICES ASSUME NEW r \in Proc PROVE Holds(r)'
    BY DEF Holding
  <2>1. CASE r = p
    BY <1>1, <1>2, <2>1 DEF Holds
  <2>2. CASE r # p
    BY <1>2, <1>4, <2>2, StillHolding
  <2> QED BY <2>1, <2>2
<1>8. CleanFilesKeepTheirPayload'
  <2> SUFFICES ASSUME NEW k \in Key, tree'[k] \in Inode, tree'[k] \notin dirty',
                      \A s \in Proc : out'[s] # tree'[k]
               PROVE  data'[tree'[k]] = due'[tree'[k]] /\ data'[tree'[k]] \in Val
    BY DEF CleanFilesKeepTheirPayload, IsFile, Written
  <2>1. PICK i : i = tree[k]
    OBVIOUS
  <2>2. /\ i \in InUse' \cap Inode /\ i \notin dirty' /\ tree'[k] = i
        /\ \A s \in Proc : out'[s] # i /\ out[s] # i
    BY <1>1, <1>2, <2>1 DEF InUse
  <2>3. data'[i] = data[i]
    BY <1>2, <2>2
  <2>4. Kept(i)'
    BY <2>1, <2>2, <2>3, StillKept
  <2> QED BY <2>2, <2>4 DEF Kept
<1> QED BY <1>5, <1>6, <1>7, <1>8 DEF HistInv

(* A process that ends takes its handles with it; what it was writing, and *)
(* what had already gone wrong, stays dirty.                               *)
LEMMA Crashed ==
    ASSUME HistInv, Record, TempInv', Crash
    PROVE  HistInv'
<1>1. TypeOK /\ \A k \in Key : k \in Path
  BY Known
<1>2. \A r \in Proc : /\ pc'[r] = "idle" /\ in'[r] = NoFile /\ out'[r] = NoFile
                      /\ buf'[r] = <<>> /\ res'[r] = ""
  BY DEF Crash
<1>3. ReadsClean' /\ WritesClean' /\ Holding'
  BY <1>2, NullAssumption DEF ReadsClean, WritesClean, Holding, Holds
<1>4. CleanFilesKeepTheirPayload'
  <2> SUFFICES ASSUME NEW k \in Key, tree'[k] \in Inode, tree'[k] \notin dirty'
               PROVE  data'[tree'[k]] = due'[tree'[k]] /\ data'[tree'[k]] \in Val
    BY DEF CleanFilesKeepTheirPayload, IsFile, Written
  <2>1. PICK i : i = tree[k]
    OBVIOUS
  <2>2. tree'[k] = i
    BY <1>1, <2>1, NullAssumption DEF Crash, NewLocalFS, TypeOK
  <2>3. i \in InUse' \cap Inode /\ i \notin dirty'
    BY <1>1, <2>2 DEF InUse
  <2>4. \A s \in Proc : out'[s] # i /\ out[s] # i
    <3>1. ASSUME NEW s \in Proc, out[s] = i PROVE FALSE
      <4>1. Closed(s, i) /\ res'[s] # "ok"
        BY <1>2, <2>3, <3>1, NullAssumption DEF Closed
      <4> QED BY <2>3, <4>1, CleanAfter
    <3> QED BY <1>2, <2>3, <3>1, NullAssumption
  <2>5. data'[i] = data[i]
    BY <1>1, <2>3, StoreKeeps DEF TypeOK, Crash
  <2>6. Kept(i)'
    BY <2>1, <2>3, <2>4, <2>5, StillKept
  <2> QED BY <2>2, <2>6 DEF Kept
<1> QED BY <1>3, <1>4 DEF HistInv

LEMMA StepHistInv ==
    ASSUME HistInv, Record, TempInv', NEW p \in Proc, Step(p)
    PROVE  HistInv'
<1>0. /\ TypeOK /\ Handles /\ <<>> \in Content /\ Holds(p)
      /\ pc[p] # "idle" => req[p] \in Calls /\ Target(p) \in Key
      /\ \A k \in Key : k \in Path /\ k \notin Temp
  BY Known, TargetIsKey, TreeAssumption DEF HistInv, Holding, TypeOK
<1>a. /\ p \notin mixed' => p \notin mixed \/ pc'[p] = "idle"
      /\ \A s \in Content : Part(<<>>, s)
  BY UnmixedAfter, LenProperties, EmptySeq DEF Part, Content
<1>1. CASE Call(p)
  BY <1>0, <1>1, NothingOpened DEF Call, Goto, TypeOK, Holds
<1>2. CASE Return(p)
  BY <1>0, <1>2, NothingOpened DEF Return, Goto, TypeOK, Holds
<1>3. CASE Refuse(p) \/ Stat(p) \/ Exists(p)
  <2>1. PICK r \in {"error", "file", "dir", "notfound", "true", "false"} :
           /\ pc[p] = "start" /\ Answer(p, r)
           /\ UNCHANGED <<tree, data, req, in, out, tmp, buf, faults>>
    BY <1>3 DEF Refuse, Stat, Exists, Doing
  <2>2. pc'[p] = "done" /\ res'[p] # "ok" /\ in'[p] = NoFile
    BY <1>0, <2>1 DEF Answer, Goto, TypeOK, Holds
  <2>3. Holds(p)'
    BY <2>2 DEF Holds
  <2> QED BY <1>0, <2>1, <2>2, <2>3, NothingOpened DEF Answer, Goto, TypeOK
<1>4. CASE Get(p) \/ Copy(p)
  <2>1. PICK then \in {"read", "opened"} :
           Open(p, req[p].key, then) /\ pc[p] = "start"
    BY <1>4 DEF Get, Copy, Doing
  <2>2. PICK k \in Key : k = req[p].key
    BY <1>0, <2>1, CallShape
  <2>3. /\ UNCHANGED <<tree, data, req, out, buf>>
        /\ \/ /\ pc' = [pc EXCEPT ![p] = "done"] /\ in' = in
              /\ \E r \in {"error", "notfound"} : res' = [res EXCEPT ![p] = r]
           \/ /\ in' = [in EXCEPT ![p] = tree[k]]
              /\ pc' = [pc EXCEPT ![p] = then] /\ res' = res
    BY <2>1, <2>2 DEF Open, Answer, Goto
  <2>4. /\ pc'[p] \in {"done", then}
        /\ pc'[p] = "done" => in'[p] = in[p] /\ res'[p] # "ok"
        /\ pc'[p] # "done" => in'[p] = tree[k]
        /\ in[p] = NoFile /\ buf[p] = <<>>
        /\ \A r \in Proc \ {p} :
              pc'[r] = pc[r] /\ in'[r] = in[r] /\ res'[r] = res[r]
    BY <1>0, <2>1, <2>3 DEF TypeOK, Holds
  <2>5. \A i \in Inode : data[i] \in Content
    BY <1>0 DEF TypeOK
  <2>6. Holds(p)'
    BY <1>a, <2>3, <2>4, <2>5 DEF Holds
  <2> QED BY <2>1, <2>3, <2>4, <2>6, NothingOpened
<1>5. CASE ReadChunk(p)
  <2>1. /\ pc[p] = "read" /\ in[p] \in Inode /\ UNCHANGED <<tree, data, pc, req, in, out, res>>
        /\ data[in[p]] \in Content /\ buf[p] \in Content
        /\ Len(buf[p]) < Len(data[in[p]])
        /\ buf' = [buf EXCEPT ![p] = Append(buf[p], data[in[p]][Len(buf[p]) + 1])]
    BY <1>0, <1>5 DEF ReadChunk, TypeOK
  <2>2. Part(buf[p], data[in[p]]) =>
           Part(Append(buf[p], data[in[p]][Len(buf[p]) + 1]), data[in[p]])
    BY <2>1, PartGrows
  <2>3. /\ buf'[p] = Append(buf[p], data[in[p]][Len(buf[p]) + 1])
        /\ \A r \in Proc \ {p} : buf'[r] = buf[r]
    BY <1>0, <2>1 DEF TypeOK
  <2>4. Holds(p)'
    BY <1>0, <1>a, <2>1, <2>2, <2>3 DEF Holds
  <2> QED BY <2>1, <2>3, <2>4, NothingOpened
<1>6. CASE ReadEOF(p) \/ ReadDir(p) \/ CreateFails(p)
  <2>1. /\ pc[p] \in {"read", "create"} /\ in' = [in EXCEPT ![p] = NoFile]
        /\ pc' = [pc EXCEPT ![p] = "done"]
        /\ \E r \in {"ok", "error"} : res' = [res EXCEPT ![p] = r]
        /\ UNCHANGED <<tree, req, out, buf>> /\ (data' = data \/ Store(data))
    BY <1>6 DEF ReadEOF, ReadDir, CreateFails, Answer, Goto
  <2>2. res'[p] = "ok" => ReadEOF(p)
    BY <1>0, <1>6 DEF ReadDir, CreateFails, Answer, TypeOK
  <2>3. ASSUME ReadEOF(p), p \notin mixed PROVE buf[p] \in Val
    <3>1. in[p] \in Inode /\ pc[p] = "read" /\ Len(buf[p]) >= Len(data[in[p]])
      BY <2>3 DEF ReadEOF
    <3>2. Part(buf[p], data[in[p]]) /\ data[in[p]] \in Val
      BY <1>0, <2>3, <3>1 DEF Holds, HistInv, ReadsClean, Kept
    <3>3. buf[p] = data[in[p]]
      BY <1>0, <3>1, <3>2, PartIsWhole DEF TypeOK
    <3> QED BY <3>2, <3>3
  <2>4. /\ in'[p] = NoFile /\ pc'[p] = "done"
        /\ \A r \in Proc \ {p} :
              pc'[r] = pc[r] /\ in'[r] = in[r] /\ res'[r] = res[r]
    BY <1>0, <2>1 DEF TypeOK
  <2>5. Holds(p)'
    BY <1>a, <2>1, <2>2, <2>3, <2>4 DEF Holds
  <2> QED BY <2>1, <2>4, <2>5, NothingOpened
<1>7. CASE MkdirAll(p) \/ MkdirAllFails(p)
  <2>1. pc[p] \in {"start", "opened"}
    BY <1>7 DEF MkdirAll, MkdirAllFails, MakeDirs, Doing
  <2>2. \A k \in Key : tree'[k] \in {tree[k], Dir}
    BY <1>7 DEF MkdirAll, MkdirAllFails, Made, Path
  <2>3. /\ data' = data \/ Store(data)
        /\ UNCHANGED <<req, out, buf>>
        /\ \/ pc' = [pc EXCEPT ![p] = "create"] /\ in' = in /\ res' = res
           \/ /\ pc' = [pc EXCEPT ![p] = "done"]
              /\ in' = [in EXCEPT ![p] = NoFile]
              /\ res' = [res EXCEPT ![p] = "error"]
    BY <1>7 DEF MkdirAll, MkdirAllFails, Answer, Goto
  <2>4. /\ \/ pc'[p] = "create" /\ in'[p] = in[p]
           \/ pc'[p] = "done" /\ in'[p] = NoFile /\ res'[p] = "error"
        /\ buf'[p] = <<>>
        /\ \A r \in Proc \ {p} :
              pc'[r] = pc[r] /\ in'[r] = in[r] /\ res'[r] = res[r]
    BY <1>0, <2>1, <2>3 DEF TypeOK, Holds
  <2>5. Holds(p)'
    BY <2>4 DEF Holds
  <2> QED BY <2>1, <2>2, <2>3, <2>4, <2>5, NothingOpened
<1>8. CASE Create(p)
  <2>1. PICK i \in Inode :
           /\ tree' = [tree EXCEPT ![Target(p)] = i]
           /\ out' = [out EXCEPT ![p] = i]
           /\ Store([data EXCEPT ![i] = <<>>])
    BY <1>8 DEF Create, IsFile, Free
  <2>2. PICK q \in Path : q = Target(p)
    BY <1>0, <1>8 DEF Create
  <2>3. /\ pc[p] = "create" /\ pc' = [pc EXCEPT ![p] = "write"]
        /\ UNCHANGED <<req, in, buf, res>>
    BY <1>8 DEF Create, Goto
  <2> QED BY <2>1, <2>2, <2>3, FileOpened
<1>9. CASE CreateTemp(p)
  <2>1. PICK q \in Path, i \in Inode :
           /\ tree' = [tree EXCEPT ![q] = i]
           /\ out' = [out EXCEPT ![p] = i]
           /\ Store([data EXCEPT ![i] = <<>>])
    BY <1>9 DEF CreateTemp, Free, Path
  <2>2. /\ pc[p] = "create" /\ pc' = [pc EXCEPT ![p] = "write"]
        /\ UNCHANGED <<req, in, buf, res>>
    BY <1>9 DEF CreateTemp, Goto
  <2> QED BY <2>1, <2>2, FileOpened
<1>10. CASE CopyChunk(p)
  BY <1>10, ChunkMoved
<1>11. CASE CopyEOF(p) \/ CopyFails(p)
  <2>1. PICK r \in {"ok", "error"} :
           pc[p] = "write" /\ Close(p, r) /\ (r = "ok" => Copied(p)) /\ tree' = tree
    BY <1>11 DEF CopyEOF, CopyFails, Copied
  <2> QED BY <2>1, FileClosed
<1>12. CASE Rename(p) \/ PutAtomicFails(p)
  <2>1. PICK r \in {"ok", "error"} :
           pc[p] = "write" /\ Close(p, r) /\ (r = "ok" => Copied(p)) /\ UsesTemp(p)
    BY <1>12 DEF Rename, PutAtomicFails, RemoveTemp, Copied
  <2>2. PICK k, t : k = Target(p) /\ t = tmp[p]
    OBVIOUS
  <2>3. k \in Key /\ t \in Temp /\ t # NoFile
    BY <1>0, <2>1, <2>2, NullAssumption DEF Handles
  <2>4. tree[t] = out[p]
    BY <2>2, <2>3 DEF HistInv, TempInv, TempsArePrivate
  <2>5. \/ tree' = [tree EXCEPT ![k] = out[p], ![t] = Absent]
        \/ tree' = [tree EXCEPT ![t] = Absent]
        \/ tree' = tree
    BY <1>12, <2>2, <2>4 DEF Rename, PutAtomicFails, RemoveTemp
  <2>6. \A j \in Key : tree'[j] \in {tree[j], Absent, out[p]}
    BY <1>0, <2>3, <2>5 DEF TypeOK, Path
  <2> QED BY <2>1, <2>6, FileClosed
<1>13. CASE Delete(p)
  <2>1. \A k \in Key : tree'[k] \in {tree[k], Absent}
    BY <1>0, <1>13 DEF Delete, TypeOK, Path
  <2>2. /\ pc[p] = "start" /\ req[p].op = "delete"
        /\ pc' = [pc EXCEPT ![p] = "done"] /\ Store(data)
        /\ \E r \in {"error", "notfound", "ok"} : res' = [res EXCEPT ![p] = r]
        /\ UNCHANGED <<req, in, out, buf>>
    BY <1>13 DEF Delete, Doing, Answer, Goto
  <2>3. /\ pc'[p] = "done" /\ in'[p] = NoFile
        /\ \A r \in Proc \ {p} : pc'[r] = pc[r] /\ res'[r] = res[r]
    BY <1>0, <2>2 DEF TypeOK, Holds
  <2>4. Holds(p)'
    BY <2>2, <2>3 DEF Holds
  <2> QED BY <2>1, <2>2, <2>3, <2>4, NothingOpened
<1> QED BY <1>1, <1>2, <1>3, <1>4, <1>5, <1>6, <1>7, <1>8, <1>9, <1>10,
           <1>11, <1>12, <1>13 DEF Step

LEMMA HistInvInductive ==
    /\ HInit => HistInv
    /\ HistInv /\ [HNext]_hvars => HistInv'
<1>1. ASSUME HInit PROVE HistInv
  <2>1. /\ Init /\ TempInv /\ mixed = {}
        /\ \A p \in Proc : pc[p] = "idle" /\ buf[p] = <<>> /\ in[p] = NoFile
                           /\ out[p] = NoFile
    BY <1>1, TempInvInductive DEF HInit, Init
  <2>2. \A q \in Path : tree[q] \notin Inode
    BY <2>1, NullAssumption DEF Init, NewLocalFS
  <2>3. ReadsClean /\ WritesClean /\ Holding
    BY <2>1, NullAssumption DEF ReadsClean, WritesClean, Holding, Holds
  <2>4. CleanFilesKeepTheirPayload
    BY <2>2 DEF CleanFilesKeepTheirPayload, IsFile, Path
  <2> QED BY <2>1, <2>3, <2>4 DEF HistInv
<1>2. ASSUME HistInv, UNCHANGED hvars PROVE HistInv'
  <2>1. /\ TempInv'
        /\ UNCHANGED <<tree, data, pc, req, in, out, buf, res, due, dirty, mixed>>
    BY <1>2, TempInvInductive DEF HistInv, hvars, vars
  <2>2. ReadsClean' /\ CleanFilesKeepTheirPayload'
    BY <1>2, <2>1 DEF HistInv, ReadsClean, CleanFilesKeepTheirPayload,
                      Kept, Written, IsFile
  <2>3. WritesClean' /\ Holding'
    BY <1>2, <2>1 DEF HistInv, WritesClean, Fills, Readable, Feed, Holding, Holds
  <2> QED BY <2>1, <2>2, <2>3 DEF HistInv
<1>3. ASSUME HistInv, HNext PROVE HistInv'
  <2>1. TempInv' /\ Record /\ (Crash \/ \E p \in Proc : Step(p))
    BY <1>3, TempInvInductive DEF HistInv, HNext, Next
  <2> QED BY <1>3, <2>1, Crashed, StepHistInv
<1> QED BY <1>1, <1>2, <1>3

(* Only an overlap of two writers, a writer that failed or a crash can     *)
(* leave a file with anything but the payload last stored in it, however   *)
(* Puts in place, atomic Puts, Copies and Deletes interleave               *)
(* (localfs.go:134-172, 289-326).                                          *)
THEOREM FilesKeepTheirPayload == HSpec => []CleanFilesKeepTheirPayload
<1>1. HistInv => CleanFilesKeepTheirPayload
  BY DEF HistInv
<1> QED BY <1>1, HistInvInductive, PTL DEF HSpec

(* A Get is cut or mixed only if the file it reads is being written while  *)
(* it has it open, or had gone wrong before (localfs.go:112-122).          *)
THEOREM ReadsAreWhole == HSpec => []CleanReadsAreWhole
<1>1. HistInv => CleanReadsAreWhole
  BY DEF HistInv, Holding, Holds, CleanReadsAreWhole
<1> QED BY <1>1, HistInvInductive, PTL DEF HSpec
=============================================================================
