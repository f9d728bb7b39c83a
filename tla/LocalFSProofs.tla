---------------------------- MODULE LocalFSProofs ----------------------------
(***************************************************************************)
(* Proofs about LocalFS, for any number of clients, any tree of keys, any  *)
(* payloads and any mix of calls, faults and backend options.              *)
(***************************************************************************)
EXTENDS LocalFS, TLAPS, SequenceTheorems

----------------------------------------------------------------------------
(* The operators the actions are built from.                               *)

(* Every call has an operation, a key and what the operation needs.        *)
LEMMA CallShape ==
    \A r \in Calls :
        /\ r.key \in Key
        /\ r.op \in {"get", "put", "delete", "stat", "exists", "copy"}
        /\ r.op = "put"  => r.val \in Val
        /\ r.op = "copy" => r.dst \in Key
BY CallsAssumption DEF Request, GetReq, PutReq, DelReq, StatReq, CopyReq

(* What a call writes to is a key.                                         *)
LEMMA TargetIsKey ==
    ASSUME NEW p \in Proc, req[p] \in Calls
    PROVE  Target(p) \in Key
BY CallShape DEF Target

(* A payload is a possible content of a file.                              *)
LEMMA ValIsContent == Val \subseteq Content
<1> SUFFICES ASSUME NEW v \in Val PROVE v \in Content
  OBVIOUS
<1>1. v \in Seq(Chunk)
  BY ValAssumption
<1> QED BY <1>1, SeqMonotonic, Chunk \subseteq Chunk \cup {Zero} DEF Content

(* Reclaiming inodes leaves the content of every inode in use alone.       *)
LEMMA StoreKeeps ==
    ASSUME NEW c \in [Inode -> Content], Store(c)
    PROVE  /\ data' \in [Inode -> Content]
           /\ \A i \in InUse' \cap Inode : data'[i] = c[i]
<1>1. <<>> \in Content
  BY EmptySeq DEF Content
<1> QED BY <1>1 DEF Store

(* A write at or before the end of a file, or past it, gives a file.       *)
LEMMA WriteAtType ==
    ASSUME NEW s \in Content, NEW n \in Nat, NEW c \in Chunk \cup {Zero}
    PROVE  WriteAt(s, n, c) \in Content
<1> DEFINE m == IF Len(s) > n THEN Len(s) ELSE n + 1
<1>1. /\ Len(s) \in Nat /\ m \in Nat
      /\ \A i \in 1..Len(s) : s[i] \in Chunk \cup {Zero}
  BY LenProperties, ElementOfSeq DEF Content
<1> DEFINE e(i) == IF i = n + 1 THEN c ELSE IF i <= Len(s) THEN s[i] ELSE Zero
<1>2. \A i \in 1..m : e(i) \in Chunk \cup {Zero}
  BY <1>1
<1> HIDE DEF e, m
<1>3. [i \in 1..m |-> e(i)] \in Content
  BY <1>1, <1>2, IsASeq DEF Content
<1> QED BY <1>3 DEF WriteAt, e, m

(* What a handle reads next is a chunk.                                    *)
LEMMA NextChunk ==
    ASSUME NEW s \in Content, NEW t \in Content, Len(t) < Len(s)
    PROVE  s[Len(t) + 1] \in Chunk \cup {Zero}
<1>1. Len(s) \in Nat /\ Len(t) \in Nat
  BY LenProperties DEF Content
<1> QED BY <1>1, ElementOfSeq DEF Content

(* A write at the end of a file appends to it.                             *)
LEMMA WriteAtEnd ==
    ASSUME NEW s \in Content, NEW c \in Chunk \cup {Zero}
    PROVE  WriteAt(s, Len(s), c) = Append(s, c)
<1>1. Len(s) \in Nat /\ s \in [1..Len(s) -> Chunk \cup {Zero}]
  BY LenProperties DEF Content
<1>2. /\ Append(s, c) \in Content /\ Len(Append(s, c)) = Len(s) + 1
      /\ Append(s, c)[Len(s) + 1] = c
      /\ \A i \in 1..Len(s) : Append(s, c)[i] = s[i]
  BY AppendProperties DEF Content
<1>3. WriteAt(s, Len(s), c) \in Content
  BY <1>1, WriteAtType
<1>a. (IF Len(s) > Len(s) THEN Len(s) ELSE Len(s) + 1) = Len(s) + 1
  BY <1>1
<1>b. WriteAt(s, Len(s), c) =
        [i \in 1..(Len(s) + 1) |-> IF i = Len(s) + 1 THEN c
                                  ELSE IF i <= Len(s) THEN s[i] ELSE Zero]
  BY <1>a, Zenon DEF WriteAt
<1>4. Len(WriteAt(s, Len(s), c)) = Len(s) + 1
  BY <1>1, <1>3, <1>b, LenProperties DEF Content
<1>5. \A i \in 1..(Len(s) + 1) : WriteAt(s, Len(s), c)[i] = Append(s, c)[i]
  BY <1>1, <1>2, <1>b
<1> QED BY <1>2, <1>3, <1>4, <1>5, SeqEqual DEF Content

----------------------------------------------------------------------------
(* Type correctness.  It rests on which handles a client holds at which    *)
(* point of its call: a writer has a file open and, if its Put is atomic,  *)
(* a temporary name for it, and nobody else holds either.                  *)

Handles ==
    \A p \in Proc :
        /\ pc[p] = "read" => req[p].op = "get" /\ in[p] # NoFile
        /\ pc[p] = "opened" => req[p].op = "copy"
        /\ pc[p] \in {"opened", "create", "write"} =>
              /\ req[p].op \in {"put", "copy"}
              /\ req[p].op = "copy" => in[p] # NoFile
        /\ pc[p] = "write" => out[p] \in Inode
        /\ pc[p] # "write" => out[p] = NoFile
        /\ pc[p] = "write" /\ UsesTemp(p) => tmp[p] \in Temp
        /\ ~(pc[p] = "write" /\ UsesTemp(p)) => tmp[p] = NoFile

TypeInv == TypeOK /\ Handles

LEMMA InitTypeInv == Init => TypeInv
<1> SUFFICES ASSUME Init PROVE TypeInv
  OBVIOUS
<1>1. <<>> \in Content
  BY EmptySeq DEF Content
<1>2. tree \in [Path -> Inode \cup {Dir, Absent}]
  BY DEF Init, NewLocalFS
<1>3. faults \in 0..MaxFaults
  <2>1. faults = 0
    BY DEF Init
  <2> QED BY <2>1, BoundAssumption
<1>4. TypeOK
  BY <1>1, <1>2, <1>3 DEF Init, TypeOK
<1>5. Handles
  BY NullAssumption DEF Init, Handles, UsesTemp
<1> QED BY <1>4, <1>5 DEF TypeInv

LEMMA CrashTypeInv == TypeInv /\ Crash => TypeInv'
<1> SUFFICES ASSUME TypeInv, Crash PROVE TypeInv'
  OBVIOUS
<1>1. <<>> \in Content
  BY EmptySeq DEF Content
<1>2. tree' \in [Path -> Inode \cup {Dir, Absent}]
  BY ZenonT(60), TreeAssumption DEF TypeInv, TypeOK, Crash, NewLocalFS, Path
<1>3. data' \in [Inode -> Content]
  BY StoreKeeps DEF TypeInv, TypeOK, Crash
<1>4. faults' \in 0..MaxFaults
  <2>1. faults \in 0..MaxFaults
    BY DEF TypeInv, TypeOK
  <2>2. faults < MaxFaults /\ faults' = faults + 1
    BY DEF Crash
  <2> QED BY <2>1, <2>2, BoundAssumption
<1>5. TypeOK'
  BY <1>1, <1>2, <1>3, <1>4 DEF TypeOK, Crash
<1>6. Handles'
  BY DEF Crash, Handles
<1> QED BY <1>5, <1>6 DEF TypeInv

(* os.Open, in Get and in Copy.                                            *)
LEMMA OpenTypeInv ==
    ASSUME TypeInv, NEW p \in Proc, NEW then,
           \/ Doing(p, "start", "get") /\ then = "read"
           \/ Doing(p, "start", "copy") /\ then = "opened",
           Open(p, req[p].key, then)
    PROVE  TypeInv'
<1> DEFINE q == req[p].key
<1>1. TypeOK /\ Handles /\ pc[p] = "start"
  BY DEF TypeInv, Doing
<1>2. q \in Path
  BY <1>1, CallShape DEF TypeOK, Path
<1>3. UNCHANGED <<tree, data, req, out, tmp, buf, faults>>
  BY DEF Open
<1>4. \/ pc' = [pc EXCEPT ![p] = "done"] /\ UNCHANGED in
         /\ \E r \in {"error", "notfound"} : res' = [res EXCEPT ![p] = r]
      \/ pc' = [pc EXCEPT ![p] = then] /\ UNCHANGED res
         /\ in' = [in EXCEPT ![p] = tree[q]] /\ tree[q] \in Inode \cup {Dir}
  BY <1>1, <1>2 DEF Open, Answer, Goto, TypeOK
<1> HIDE DEF q
<1>5. TypeOK'
  BY ZenonT(60), <1>1, <1>3, <1>4 DEF TypeOK, Doing
<1>6. Handles'
  <2>1. in'[p] # NoFile \/ pc'[p] = "done"
    BY ZenonT(60), <1>1, <1>4, NullAssumption DEF TypeOK
  <2>2. \A r \in Proc \ {p} : pc'[r] = pc[r] /\ in'[r] = in[r]
    BY <1>1, <1>4 DEF TypeOK
  <2>3. pc'[p] = "done" \/ pc'[p] = then
    BY <1>1, <1>4 DEF TypeOK
  <2> QED BY <1>1, <1>3, <2>1, <2>2, <2>3 DEF Handles, Doing, UsesTemp
<1> QED BY <1>5, <1>6 DEF TypeInv

LEMMA StepTypeInv ==
    ASSUME TypeInv, NEW p \in Proc, Step(p)
    PROVE  TypeInv'
<1> USE DEF TypeInv
<1>0. /\ TypeOK /\ Handles
      /\ <<>> \in Content
      /\ pc[p] # "idle" => req[p] \in Calls /\ Target(p) \in Key
  BY EmptySeq, TargetIsKey DEF Content, TypeOK
<1>1. CASE Call(p)
  BY ZenonT(60), <1>0, <1>1 DEF TypeOK, Handles, Call, Goto, UsesTemp
<1>2. CASE Return(p)
  BY <1>0, <1>2 DEF TypeOK, Handles, Return, Goto, UsesTemp
<1>3. CASE Refuse(p)
  BY <1>0, <1>3 DEF TypeOK, Handles, Refuse, Answer, Goto, UsesTemp
<1>4. CASE Get(p)
  BY <1>4, OpenTypeInv DEF Get
<1>5. CASE ReadChunk(p)
  <2>1. in[p] \in Inode /\ data[in[p]] \in Content /\ buf[p] \in Content
    BY <1>0, <1>5 DEF TypeOK, ReadChunk
  <2>2. data[in[p]][Len(buf[p]) + 1] \in Chunk \cup {Zero}
    BY <2>1, <1>5, NextChunk DEF ReadChunk
  <2>3. Append(buf[p], data[in[p]][Len(buf[p]) + 1]) \in Content
    BY <2>1, <2>2, AppendProperties DEF Content
  <2>4. buf' \in [Proc -> Content]
    BY <1>0, <1>5, <2>3 DEF TypeOK, ReadChunk
  <2> QED BY <1>0, <1>5, <2>4 DEF TypeOK, Handles, ReadChunk, UsesTemp
<1>6. CASE ReadEOF(p)
  BY <1>0, <1>6, StoreKeeps DEF TypeOK, Handles, ReadEOF, Answer, Goto, UsesTemp
<1>7. CASE ReadDir(p)
  BY <1>0, <1>7 DEF TypeOK, Handles, ReadDir, Answer, Goto, UsesTemp
<1>8. CASE MkdirAll(p)
  BY <1>0, <1>8 DEF TypeOK, Handles, MkdirAll, MakeDirs, Doing, Made, Goto, UsesTemp
<1>9. CASE MkdirAllFails(p)
  BY ZenonT(60), <1>0, <1>9, StoreKeeps DEF TypeOK, Handles, MkdirAllFails, MakeDirs, Doing, Made, Answer, Goto, UsesTemp
<1>10. CASE Create(p)
  <2>1. PICK i \in Inode :
           /\ tree' = [tree EXCEPT ![Target(p)] = i]
           /\ out' = [out EXCEPT ![p] = i]
           /\ Store([data EXCEPT ![i] = <<>>])
    BY <1>10 DEF Create, IsFile, Free
  <2>2. data' \in [Inode -> Content]
    BY <1>0, <2>1, StoreKeeps DEF TypeOK
  <2>3. TypeOK'
    BY <1>0, <1>10, <2>1, <2>2 DEF TypeOK, Create, Goto, Path
  <2>4. Handles'
    BY <1>0, <1>10, <2>1 DEF TypeOK, Handles, Create, Goto, UsesTemp
  <2> QED BY <2>3, <2>4
<1>11. CASE CreateTemp(p)
  <2>1. PICK t \in Temp, i \in Inode :
           /\ tree' = [tree EXCEPT ![t] = i]
           /\ tmp' = [tmp EXCEPT ![p] = t]
           /\ out' = [out EXCEPT ![p] = i]
           /\ Store([data EXCEPT ![i] = <<>>])
    BY <1>11 DEF CreateTemp, Free
  <2>2. data' \in [Inode -> Content]
    BY <1>0, <2>1, StoreKeeps DEF TypeOK
  <2>3. TypeOK'
    BY <1>0, <1>11, <2>1, <2>2 DEF TypeOK, CreateTemp, Goto, Path
  <2>4. Handles'
    BY <1>0, <1>11, <2>1 DEF TypeOK, Handles, CreateTemp, Goto, UsesTemp
  <2> QED BY <2>3, <2>4
<1>12. CASE CreateFails(p)
  BY <1>0, <1>12, StoreKeeps DEF TypeOK, Handles, CreateFails, Answer, Goto, UsesTemp
<1>13. CASE CopyChunk(p)
  <2>1. /\ Feed(p) \in Content /\ buf[p] \in Content
        /\ out[p] \in Inode /\ data[out[p]] \in Content
    BY <1>0, <1>13, CallShape, ValIsContent
    DEF TypeOK, Handles, CopyChunk, Feed, Readable
  <2> DEFINE n == Len(buf[p])
             c == Feed(p)[n + 1]
  <2>2. n \in Nat /\ c \in Chunk \cup {Zero}
    BY <1>13, <2>1, NextChunk, LenProperties DEF CopyChunk, Content
  <2>3. Append(buf[p], c) \in Content /\ WriteAt(data[out[p]], n, c) \in Content
    BY <2>1, <2>2, AppendProperties, WriteAtType DEF Content
  <2>4. /\ buf' = [buf EXCEPT ![p] = Append(buf[p], c)]
        /\ data' = [data EXCEPT ![out[p]] = WriteAt(data[out[p]], n, c)]
        /\ UNCHANGED <<tree, pc, req, in, out, tmp, res, faults>>
    BY <1>13 DEF CopyChunk
  <2> HIDE DEF n, c
  <2>5. TypeOK'
    BY <1>0, <2>3, <2>4 DEF TypeOK
  <2>6. Handles'
    BY <1>0, <2>4 DEF Handles, UsesTemp
  <2> QED BY <2>5, <2>6
<1>14. CASE CopyEOF(p)
  BY <1>0, <1>14, StoreKeeps DEF TypeOK, Handles, CopyEOF, Copied, Close, Answer, Goto, UsesTemp
<1>15. CASE CopyFails(p)
  BY <1>0, <1>15, StoreKeeps DEF TypeOK, Handles, CopyFails, Close, Answer, Goto, UsesTemp
<1>16. CASE Rename(p)
  BY <1>0, <1>16, StoreKeeps DEF TypeOK, Handles, Rename, Copied, Close, Answer, Goto, UsesTemp, Path
<1>17. CASE PutAtomicFails(p)
  <2>1. tmp[p] \in Temp
    BY <1>0, <1>17 DEF Handles, PutAtomicFails, RemoveTemp
  <2>2. tree' \in [Path -> Inode \cup {Dir, Absent}]
    BY <1>0, <1>17, <2>1 DEF TypeOK, PutAtomicFails, RemoveTemp, Path
  <2>3. faults' \in 0..MaxFaults
    <3>1. faults \in 0..MaxFaults
      BY <1>0 DEF TypeOK
    <3>2. \/ faults' = faults
          \/ faults < MaxFaults /\ faults' = faults + 1
      BY <1>17 DEF PutAtomicFails, RemoveTemp
    <3> QED BY <3>1, <3>2, BoundAssumption
  <2>4. pc[p] = "write" /\ Close(p, "error")
    BY <1>17 DEF PutAtomicFails, RemoveTemp
  <2> QED BY <1>0, <2>2, <2>3, <2>4, StoreKeeps
          DEF TypeOK, Handles, Close, Answer, Goto, UsesTemp
<1>18. CASE Delete(p)
  <2>1. req[p].key \in Path
    BY <1>0, <1>18, CallShape DEF Delete, Doing, Path
  <2>2. /\ pc[p] = "start" /\ pc' = [pc EXCEPT ![p] = "done"]
        /\ \E r \in {"error", "notfound", "ok"} : res' = [res EXCEPT ![p] = r]
        /\ \/ tree' = tree
           \/ tree' = [tree EXCEPT ![req[p].key] = Absent]
        /\ UNCHANGED <<req, in, out, tmp, buf, faults>>
        /\ Store(data)
    BY <1>18 DEF Delete, Doing, Answer, Goto
  <2>3. tree' \in [Path -> Inode \cup {Dir, Absent}]
    BY <1>0, <2>1, <2>2 DEF TypeOK
  <2>4. TypeOK'
    BY <1>0, <2>2, <2>3, StoreKeeps DEF TypeOK
  <2>5. Handles'
    BY <1>0, <2>2 DEF TypeOK, Handles, UsesTemp
  <2> QED BY <2>4, <2>5
<1>19. CASE Stat(p)
  BY <1>0, <1>19 DEF TypeOK, Handles, Stat, Doing, Answer, Goto, UsesTemp
<1>20. CASE Exists(p)
  BY <1>0, <1>20 DEF TypeOK, Handles, Exists, Doing, Answer, Goto, UsesTemp
<1>21. CASE Copy(p)
  BY <1>21, OpenTypeInv DEF Copy
<1> QED
  BY <1>1, <1>2, <1>3, <1>4, <1>5, <1>6, <1>7, <1>8, <1>9, <1>10, <1>11,
     <1>12, <1>13, <1>14, <1>15, <1>16, <1>17, <1>18, <1>19, <1>20, <1>21
  DEF Step

LEMMA NextTypeInv == TypeInv /\ [Next]_vars => TypeInv'
<1>1. ASSUME TypeInv, UNCHANGED vars PROVE TypeInv'
  BY <1>1 DEF TypeInv, TypeOK, Handles, vars, UsesTemp
<1> QED BY <1>1, CrashTypeInv, StepTypeInv DEF Next

(* The state of the file system and of every call in it is well typed.     *)
THEOREM TypeCorrect == Spec => []TypeOK
<1>1. Spec => []TypeInv
  BY InitTypeInv, NextTypeInv, PTL DEF Spec
<1>2. TypeInv => TypeOK
  BY DEF TypeInv
<1> QED BY <1>1, <1>2, PTL

----------------------------------------------------------------------------
(* Temporary files.  A client that has one is alone with it: the two facts *)
(* below follow every path and every handle through every system call.     *)

TempInv == TypeInv /\ TempsArePrivate /\ NoTempLeftBehind

(* A step that leaves the tree and the temporary files alone, and after    *)
(* which p has open only what it had open, nothing, or what a key names.   *)
LEMMA QuietStep ==
    ASSUME TempInv, TypeInv', NEW p \in Proc,
           UNCHANGED <<tree, tmp, out, faults>>,
           \A r \in Proc \ {p} : in'[r] = in[r],
           \/ in'[p] \in {in[p], NoFile, Dir}
           \/ \E k \in Key : in'[p] = tree[k]
    PROVE  TempsArePrivate' /\ NoTempLeftBehind'
<1>1. NoTempLeftBehind'
  BY DEF TempInv, NoTempLeftBehind
<1>2. \A r \in Proc : tmp[r] # NoFile => tmp[r] \in Temp /\ out[r] \in Inode
  BY DEF TempInv, TypeInv, Handles
<1>3. ASSUME NEW r \in Proc \ {p}, tmp[r] # NoFile
      PROVE  in'[p] # out[r]
  BY <1>2, <1>3, TreeAssumption, NullAssumption
  DEF TempInv, TempsArePrivate, Path
<1>4. TempsArePrivate'
  BY <1>3 DEF TempInv, TempsArePrivate
<1> QED BY <1>1, <1>4

LEMMA StepTempInv ==
    ASSUME TempInv, TypeInv', NEW p \in Proc, Step(p)
    PROVE  TempsArePrivate' /\ NoTempLeftBehind'
<1>0. /\ TypeOK /\ Handles /\ TypeInv
      /\ pc[p] # "idle" => req[p] \in Calls /\ Target(p) \in Key
      /\ \A r \in Proc : tmp[r] # NoFile =>
            tmp[r] \in Temp /\ out[r] \in Inode /\ tree[tmp[r]] = out[r]
  BY TargetIsKey DEF TempInv, TypeInv, TypeOK, Handles, TempsArePrivate
<1>1. CASE Call(p) \/ Return(p) \/ Refuse(p) \/ ReadChunk(p)
           \/ CopyChunk(p) \/ Stat(p) \/ Exists(p)
  BY <1>1, QuietStep
  DEF Call, Return, Refuse, ReadChunk, CopyChunk, Stat, Exists
<1>2. CASE Get(p) \/ Copy(p)
  <2>1. PICK then : Open(p, req[p].key, then) /\ pc[p] = "start"
    BY <1>2 DEF Get, Copy, Doing
  <2>2. req[p].key \in Key
    BY <1>0, <2>1, CallShape
  <2>3. in' = in \/ in' = [in EXCEPT ![p] = tree[req[p].key]]
    BY <2>1 DEF Open
  <2>4. UNCHANGED <<tree, tmp, out, faults>>
    BY <2>1 DEF Open
  <2>5. /\ in'[p] = in[p] \/ in'[p] = tree[req[p].key]
        /\ \A r \in Proc \ {p} : in'[r] = in[r]
    BY <1>0, <2>3 DEF TypeOK
  <2> QED BY <2>2, <2>4, <2>5, QuietStep
<1>3. CASE ReadEOF(p) \/ ReadDir(p) \/ CreateFails(p)
  <2>1. in' = [in EXCEPT ![p] = NoFile] /\ UNCHANGED <<tree, tmp, out, faults>>
    BY <1>3 DEF ReadEOF, ReadDir, CreateFails
  <2>2. in'[p] = NoFile /\ \A r \in Proc \ {p} : in'[r] = in[r]
    BY <1>0, <2>1 DEF TypeOK
  <2> QED BY <2>1, <2>2, QuietStep
<1>4. CASE MkdirAll(p) \/ MkdirAllFails(p)
  <2>1. PICK dirs \in SUBSET ({Top} \cup Key) : Made(dirs)
    <3>1. pc[p] # "idle"
      BY <1>4 DEF MkdirAll, MkdirAllFails, MakeDirs, Doing
    <3>2. Above[Target(p)] \in SUBSET ({Top} \cup Key)
      BY <1>0, <3>1, TreeAssumption
    <3>3. \A d \in Above[Target(p)] \ {Top} : Above[d] \in SUBSET ({Top} \cup Key)
      BY <3>2, TreeAssumption
    <3> QED BY <1>4, <3>2, <3>3 DEF MkdirAll, MkdirAllFails
  <2>2. /\ UNCHANGED <<tmp, out, faults>>
        /\ in' = in \/ in' = [in EXCEPT ![p] = NoFile]
    BY <1>4 DEF MkdirAll, MkdirAllFails
  <2>3. \A t \in Temp : tree'[t] = tree[t]
    BY <2>1, TreeAssumption DEF Made, Path
  <2>4. \A q \in Path : tree'[q] = tree[q] \/ tree'[q] = Dir
    BY <2>1 DEF Made
  <2>a. \A r \in Proc : in'[r] \in {in[r], NoFile}
    BY <1>0, <2>2 DEF TypeOK
  <2>5. TempsArePrivate'
    BY <1>0, <2>2, <2>3, <2>4, <2>a, NullAssumption DEF TempInv, TempsArePrivate
  <2>6. NoTempLeftBehind'
    BY <2>2, <2>3 DEF TempInv, NoTempLeftBehind
  <2> QED BY <2>5, <2>6
<1>5. CASE Create(p)
  <2> DEFINE k == Target(p)
  <2>1. /\ k \in Key /\ pc[p] = "create" /\ tmp[p] = NoFile
        /\ UNCHANGED <<in, tmp, faults>>
    BY <1>0, <1>5 DEF Create, Handles
  <2>2. PICK i \in Inode :
           /\ i = tree[k] \/ i \in Free
           /\ tree' = [tree EXCEPT ![k] = i]
           /\ out' = [out EXCEPT ![p] = i]
    BY <1>5 DEF Create, IsFile, Free
  <2> HIDE DEF k
  <2>3. \A r \in Proc : tmp[r] # NoFile => i # out[r]
    BY <1>0, <2>1, <2>2, TreeAssumption
    DEF TempInv, TempsArePrivate, Free, InUse, Path
  <2>4. \A t \in Temp : tree'[t] = tree[t]
    BY <1>0, <2>1, <2>2, TreeAssumption DEF TypeOK, Path
  <2>5. TempsArePrivate'
    BY ZenonT(60), <1>0, <2>1, <2>2, <2>3, <2>4 DEF TempInv, TempsArePrivate, TypeOK
  <2>6. NoTempLeftBehind'
    BY <2>1, <2>4 DEF TempInv, NoTempLeftBehind
  <2> QED BY <2>5, <2>6
<1>6. CASE CreateTemp(p)
  <2>1. pc[p] = "create" /\ tmp[p] = NoFile /\ UNCHANGED <<in, faults>>
    BY <1>0, <1>6 DEF CreateTemp, Handles
  <2>2. PICK t \in Temp, i \in Free :
           /\ tree[t] = Absent
           /\ tree' = [tree EXCEPT ![t] = i]
           /\ tmp' = [tmp EXCEPT ![p] = t]
           /\ out' = [out EXCEPT ![p] = i]
    BY <1>6 DEF CreateTemp
  <2>3. /\ i \in Inode /\ \A q \in Path : tree[q] # i
        /\ \A r \in Proc : in[r] # i /\ out[r] # i
    BY <2>2 DEF Free, InUse
  <2>4. \A r \in Proc : tmp[r] # NoFile => tmp[r] # t
    BY <1>0, <2>2, NullAssumption
  <2>5. t \in Path /\ t # NoFile
    BY NullAssumption DEF Path
  <2>a. /\ tree'[t] = i /\ \A q \in Path \ {t} : tree'[q] = tree[q]
        /\ tmp'[p] = t /\ out'[p] = i
        /\ \A r \in Proc \ {p} : tmp'[r] = tmp[r] /\ out'[r] = out[r]
    BY <1>0, <2>2, <2>5 DEF TypeOK
  <2>6. TempsArePrivate'
    <3>1. ASSUME NEW r \in Proc \ {p}, tmp[r] # NoFile
          PROVE  /\ tree'[tmp[r]] = out[r] /\ out'[p] # out[r]
                 /\ \A q \in Path \ {tmp[r]} : tree'[q] # out[r]
      BY <1>0, <2>3, <2>4, <2>a, <3>1 DEF TempInv, TempsArePrivate, Path
    <3>2. /\ \A q \in Path \ {t} : tree'[q] # i
          /\ \A r \in Proc \ {p} : out'[r] # i /\ in'[r] # i
      BY <2>1, <2>3, <2>a
    <3> QED BY <2>1, <2>a, <3>1, <3>2 DEF TempInv, TempsArePrivate
  <2>7. NoTempLeftBehind'
    <3>1. ASSUME faults = 0, NEW u \in Temp, tree'[u] # Absent
          PROVE  \E r \in Proc : tmp'[r] = u
      <4>1. CASE u = t
        BY <2>a, <4>1
      <4>2. CASE u # t
        <5>1. tree[u] # Absent
          BY <2>a, <3>1, <4>2 DEF Path
        <5>2. PICK r \in Proc : tmp[r] = u
          BY <3>1, <5>1 DEF TempInv, NoTempLeftBehind
        <5> QED BY <2>1, <2>a, <5>2, NullAssumption
      <4> QED BY <4>1, <4>2
    <3> QED BY <2>1, <3>1 DEF NoTempLeftBehind
  <2> QED BY <2>6, <2>7
<1>7. CASE CopyEOF(p) \/ CopyFails(p)
  <2>1. /\ pc[p] = "write" /\ ~UsesTemp(p) /\ UNCHANGED <<tree, faults>>
        /\ in' = [in EXCEPT ![p] = NoFile]
        /\ out' = [out EXCEPT ![p] = NoFile]
        /\ tmp' = [tmp EXCEPT ![p] = NoFile]
    BY <1>7 DEF CopyEOF, CopyFails, Copied, Close
  <2>2. tmp[p] = NoFile
    BY <1>0, <2>1 DEF Handles
  <2>3. tmp' = tmp
    BY <1>0, <2>1, <2>2 DEF TypeOK
  <2>a. /\ \A r \in Proc : in'[r] \in {in[r], NoFile}
        /\ out'[p] = NoFile /\ \A r \in Proc \ {p} : out'[r] = out[r]
    BY <1>0, <2>1 DEF TypeOK
  <2>4. TempsArePrivate'
    BY <1>0, <2>1, <2>2, <2>3, <2>a, NullAssumption DEF TempInv, TempsArePrivate
  <2>5. NoTempLeftBehind'
    BY <2>1, <2>3 DEF TempInv, NoTempLeftBehind
  <2> QED BY <2>4, <2>5
<1>8. CASE Rename(p) \/ PutAtomicFails(p)
  <2>1. /\ pc[p] = "write" /\ UsesTemp(p)
        /\ in' = [in EXCEPT ![p] = NoFile]
        /\ out' = [out EXCEPT ![p] = NoFile]
        /\ tmp' = [tmp EXCEPT ![p] = NoFile]
    BY <1>8 DEF Rename, PutAtomicFails, RemoveTemp, Copied, Close
  <2>2. Target(p) \in Key /\ tmp[p] \in Temp /\ tmp[p] # NoFile
    BY <1>0, <2>1, NullAssumption DEF Handles
  <2>3. \/ /\ tree' = [tree EXCEPT ![Target(p)] = out[p], ![tmp[p]] = Absent]
            /\ faults' = faults
        \/ /\ tree' = [tree EXCEPT ![tmp[p]] = Absent]
            /\ faults' = faults
        \/ /\ tree' = tree
            /\ faults' = faults + 1
    BY <1>0, <1>8, <2>2 DEF Rename, PutAtomicFails, RemoveTemp, Close
  <2>4. ASSUME NEW r \in Proc \ {p}, tmp[r] # NoFile
        PROVE  /\ tmp[r] # tmp[p] /\ tmp[r] # Target(p) /\ out[r] # out[p]
               /\ out[r] # NoFile /\ out[r] # Absent
    BY <1>0, <2>2, <2>4, TreeAssumption, NullAssumption
    DEF TempInv, TempsArePrivate
  <2>a. /\ \A q \in Path \ {Target(p), tmp[p]} : tree'[q] = tree[q]
        /\ tree'[Target(p)] \in {tree[Target(p)], out[p]}
        /\ \/ tree'[tmp[p]] = Absent /\ faults' = faults
           \/ tree'[tmp[p]] = tree[tmp[p]] /\ faults' = faults + 1
    <3>1. /\ Target(p) # tmp[p] /\ Target(p) \in Path /\ tmp[p] \in Path
          /\ tree \in [Path -> Inode \cup {Dir, Absent}]
      BY <1>0, <2>2, TreeAssumption DEF TypeOK, Path
    <3> DEFINE k == Target(p)
               t == tmp[p]
    <3>2. \/ /\ tree' = [tree EXCEPT ![k] = out[p], ![t] = Absent]
             /\ faults' = faults
          \/ tree' = [tree EXCEPT ![t] = Absent] /\ faults' = faults
          \/ tree' = tree /\ faults' = faults + 1
      BY <2>3
    <3> HIDE DEF k, t
    <3>3. k # t /\ k \in Path /\ t \in Path
      BY <3>1 DEF k, t
    <3>4. /\ \A q \in Path \ {k, t} : tree'[q] = tree[q]
          /\ tree'[k] \in {tree[k], out[p]}
          /\ \/ tree'[t] = Absent /\ faults' = faults
             \/ tree'[t] = tree[t] /\ faults' = faults + 1
      BY <3>1, <3>2, <3>3
    <3> QED BY <3>4 DEF k, t
  <2>b. /\ tmp'[p] = NoFile /\ out'[p] = NoFile /\ in'[p] = NoFile
        /\ \A r \in Proc \ {p} :
              tmp'[r] = tmp[r] /\ out'[r] = out[r] /\ in'[r] = in[r]
    BY <1>0, <2>1 DEF TypeOK
  <2>5. TempsArePrivate'
    <3>1. ASSUME NEW r \in Proc \ {p}, tmp[r] # NoFile
          PROVE  /\ tree'[tmp[r]] = out[r]
                 /\ \A q \in Path \ {tmp[r]} : tree'[q] # out[r]
      <4>1. tree'[tmp[r]] = out[r]
        BY <1>0, <2>a, <2>4, <3>1 DEF Path
      <4>2. \A q \in Path \ {tmp[r]} : tree[q] # out[r]
        BY <3>1 DEF TempInv, TempsArePrivate
      <4>3. Target(p) # tmp[r] /\ tmp[p] # tmp[r] /\ Target(p) \in Path /\ tmp[p] \in Path
        BY <2>2, <2>4, <3>1 DEF Path
      <4> QED BY <2>a, <2>4, <3>1, <4>1, <4>2, <4>3
    <3> QED BY <2>b, <2>4, <3>1 DEF TempInv, TempsArePrivate
  <2>6. NoTempLeftBehind'
    <3>1. ASSUME faults' = 0, NEW t \in Temp, tree'[t] # Absent
          PROVE  \E r \in Proc : tmp'[r] = t
      <4>0. faults = 0 /\ tree'[tmp[p]] = Absent
        <5>1. faults \in Nat
          <6>1. faults \in 0..MaxFaults
            BY <1>0 DEF TypeOK
          <6> QED BY <6>1, BoundAssumption
        <5> QED BY <2>a, <3>1, <5>1
      <4>1. t # tmp[p] /\ t # Target(p) /\ t \in Path
        BY <2>2, <3>1, <4>0, TreeAssumption DEF Path
      <4>2. PICK r \in Proc : tmp[r] = t
        BY <2>a, <3>1, <4>0, <4>1 DEF TempInv, NoTempLeftBehind
      <4> QED BY <2>b, <4>1, <4>2
    <3> QED BY <3>1 DEF NoTempLeftBehind
  <2> QED BY <2>5, <2>6
<1>9. CASE Delete(p)
  <2>1. /\ UNCHANGED <<in, out, tmp, faults>>
        /\ \/ tree' = tree
           \/ tree' = [tree EXCEPT ![req[p].key] = Absent]
    BY <1>9 DEF Delete
  <2>2. req[p].key \in Key
    BY <1>0, <1>9, CallShape DEF Delete, Doing
  <2>3. \A t \in Temp : tree'[t] = tree[t]
    BY ZenonT(60), <1>0, <2>1, <2>2, TreeAssumption DEF TypeOK, Path
  <2>4. \A q \in Path : tree'[q] = tree[q] \/ tree'[q] = Absent
    BY <1>0, <2>1, <2>2 DEF TypeOK, Path
  <2>5. TempsArePrivate'
    BY <1>0, <2>1, <2>3, <2>4, NullAssumption DEF TempInv, TempsArePrivate
  <2>6. NoTempLeftBehind'
    BY <2>1, <2>3 DEF TempInv, NoTempLeftBehind
  <2> QED BY <2>5, <2>6
<1> QED BY <1>1, <1>2, <1>3, <1>4, <1>5, <1>6, <1>7, <1>8, <1>9 DEF Step

LEMMA TempInvInductive ==
    /\ Init => TempInv
    /\ TempInv /\ [Next]_vars => TempInv'
<1>1. ASSUME Init PROVE TempInv
  <2>1. \A p \in Proc : tmp[p] = NoFile
    BY <1>1 DEF Init
  <2>2. \A t \in Temp : tree[t] = Absent
    BY <1>1, TreeAssumption DEF Init, Path
  <2> QED BY <1>1, <2>1, <2>2, InitTypeInv
          DEF TempInv, TempsArePrivate, NoTempLeftBehind
<1>2. ASSUME TempInv, UNCHANGED vars PROVE TempInv'
  <2>1. TypeInv'
    BY <1>2, NextTypeInv DEF TempInv
  <2> QED BY <1>2, <2>1 DEF TempInv, TempsArePrivate, NoTempLeftBehind, vars
<1>3. ASSUME TempInv, Crash PROVE TempInv'
  <2>1. TypeInv'
    BY <1>3, CrashTypeInv DEF TempInv
  <2>2. \A p \in Proc : tmp'[p] = NoFile
    BY <1>3 DEF Crash
  <2>3. faults' # 0
    <3>1. faults \in 0..MaxFaults /\ faults' = faults + 1
      BY <1>3 DEF TempInv, TypeInv, TypeOK, Crash
    <3> QED BY <3>1, BoundAssumption
  <2> QED BY <2>1, <2>2, <2>3 DEF TempInv, TempsArePrivate, NoTempLeftBehind
<1>4. ASSUME TempInv, NEW p \in Proc, Step(p) PROVE TempInv'
  <2>1. TypeInv'
    BY <1>4, StepTypeInv DEF TempInv
  <2> QED BY <1>4, <2>1, StepTempInv DEF TempInv
<1> QED BY <1>1, <1>2, <1>3, <1>4 DEF Next

(* No call, atomic or not, writes to, reads from or binds a key to another *)
(* Put's temporary file (localfs.go:151-172).                              *)
THEOREM PrivateTemps == Spec => []TempsArePrivate
<1>1. Spec => []TempInv
  BY TempInvInductive, PTL DEF Spec
<1>2. TempInv => TempsArePrivate
  BY DEF TempInv
<1> QED BY <1>1, <1>2, PTL

(* Every path out of putAtomic takes its temporary file with it.           *)
THEOREM TempsCleanedUp == Spec => []NoTempLeftBehind
<1>1. Spec => []TempInv
  BY TempInvInductive, PTL DEF Spec
<1>2. TempInv => NoTempLeftBehind
  BY DEF TempInv
<1> QED BY <1>1, <1>2, PTL

----------------------------------------------------------------------------
(* Whole files.  With WithAtomicWrite, and clients that do not Copy, the   *)
(* only file a client writes to is its temporary one, which holds the part *)
(* of the payload it has moved so far, and which gets a key only once that *)
(* is all of it.                                                           *)

AtomicPuts == Atomic /\ \A r \in Calls : r.op # "copy"

Part(s, t) == /\ Len(s) <= Len(t)
              /\ \A i \in 1..Len(s) : s[i] = t[i]

Progress ==
    \A p \in Proc :
        /\ pc[p] \in {"idle", "start", "create"} => buf[p] = <<>>
        /\ pc[p] = "write" => /\ data[out[p]] = buf[p]
                             /\ Part(buf[p], req[p].val)

WholeInv == TempInv /\ WholeFiles /\ Progress

LEMMA PartGrows ==
    ASSUME NEW s \in Content, NEW t \in Content, Part(s, t), Len(s) < Len(t)
    PROVE  Part(Append(s, t[Len(s) + 1]), t)
<1> DEFINE c == t[Len(s) + 1]
<1>1. Len(s) \in Nat /\ Len(t) \in Nat /\ c \in Chunk \cup {Zero}
  BY LenProperties, NextChunk DEF Content
<1> HIDE DEF c
<1>2. /\ Len(Append(s, c)) = Len(s) + 1
      /\ \A i \in 1..Len(s) : Append(s, c)[i] = s[i]
      /\ Append(s, c)[Len(s) + 1] = c
  BY <1>1, AppendProperties DEF Content
<1>3. \A i \in 1..Len(s) : Append(s, c)[i] = t[i]
  BY <1>2 DEF Part
<1>4. Append(s, c)[Len(s) + 1] = t[Len(s) + 1]
  BY <1>2 DEF c
<1>5. \A i \in 1..(Len(s) + 1) : i \in 1..Len(s) \/ i = Len(s) + 1
  BY <1>1
<1> QED BY <1>1, <1>2, <1>3, <1>4, <1>5 DEF Part, c

LEMMA PartIsWhole ==
    ASSUME NEW s \in Content, NEW t \in Content, Part(s, t), Len(s) >= Len(t)
    PROVE  s = t
<1>1. Len(s) \in Nat /\ Len(t) \in Nat
  BY LenProperties DEF Content
<1>2. Len(s) = Len(t)
  BY <1>1 DEF Part
<1> QED BY <1>2, SeqEqual DEF Part, Content

(* A client that writes has the temporary file to itself.                  *)
LEMMA WritersPut ==
    ASSUME AtomicPuts, TempInv, NEW p \in Proc,
           pc[p] \in {"opened", "create", "write"}
    PROVE  /\ UsesTemp(p) /\ pc[p] # "opened"
           /\ req[p].val \in Val /\ req[p].val \in Content
           /\ pc[p] = "write" => tmp[p] \in Temp /\ tmp[p] # NoFile
                                 /\ out[p] \in Inode
<1>1. TypeOK /\ Handles
  BY DEF TempInv, TypeInv
<1>2. req[p] \in Calls
  BY <1>1 DEF TypeOK
<1>3. req[p].op = "put"
  BY <1>1, <1>2 DEF Handles, AtomicPuts
<1>4. UsesTemp(p) /\ pc[p] # "opened"
  BY <1>1, <1>3 DEF Handles, AtomicPuts, UsesTemp
<1> QED BY <1>1, <1>2, <1>3, <1>4, CallShape, ValIsContent, NullAssumption
        DEF Handles

(* A step that gives no key a file, keeps what is in use, and in which p   *)
(* neither writes nor starts to.                                           *)
LEMMA NothingWritten ==
    ASSUME WholeInv, TempInv', NEW p \in Proc,
           data' = data \/ Store(data),
           \A k \in Key : tree'[k] \in {tree[k], Dir, Absent},
           \A r \in Proc \ {p} : pc'[r] = pc[r] /\ out'[r] = out[r]
                                /\ buf'[r] = buf[r] /\ req'[r] = req[r],
           pc'[p] # "write",
           pc'[p] \in {"idle", "start", "create"} => buf'[p] = <<>>
    PROVE  WholeInv'
<1>1. TypeOK /\ TypeOK' /\ Handles
  BY DEF WholeInv, TempInv, TypeInv
<1>2. \A i \in InUse' \cap Inode : data'[i] = data[i]
  BY <1>1, StoreKeeps DEF TypeOK
<1>3. WholeFiles'
  <2> SUFFICES ASSUME NEW k \in Key, tree'[k] \in Inode
               PROVE  data'[tree'[k]] \in Val
    BY DEF WholeFiles, IsFile
  <2>1. tree'[k] = tree[k] /\ tree'[k] \in InUse'
    BY NullAssumption DEF InUse, Path
  <2> QED BY <1>2, <2>1 DEF WholeInv, WholeFiles, IsFile
<1>4. Progress'
  <2> SUFFICES ASSUME NEW r \in Proc
               PROVE  /\ pc'[r] \in {"idle", "start", "create"} => buf'[r] = <<>>
                      /\ pc'[r] = "write" => /\ data'[out'[r]] = buf'[r]
                                            /\ Part(buf'[r], req'[r].val)
    BY DEF Progress
  <2>1. CASE r = p
    BY <2>1
  <2>2. CASE r # p
    <3>1. pc[r] = "write" => out'[r] \in InUse' \cap Inode
      BY <1>1, <2>2 DEF InUse, Handles
    <3> QED BY <1>2, <2>2, <3>1 DEF WholeInv, Progress
  <2> QED BY <2>1, <2>2
<1> QED BY <1>3, <1>4 DEF WholeInv

LEMMA CreateTempWholeInv ==
    ASSUME AtomicPuts, WholeInv, TempInv', NEW p \in Proc, CreateTemp(p)
    PROVE  WholeInv'
<1>1. /\ TypeOK /\ Handles /\ TempInv /\ <<>> \in Content
      /\ pc[p] = "create" /\ buf[p] = <<>> /\ req[p].val \in Content
  BY WritersPut, EmptySeq
  DEF WholeInv, TempInv, TypeInv, CreateTemp, Progress, Content
<1>2. PICK t \in Temp, i \in Free :
         /\ tree' = [tree EXCEPT ![t] = i]
         /\ out' = [out EXCEPT ![p] = i]
         /\ Store([data EXCEPT ![i] = <<>>])
  BY DEF CreateTemp
<1>3. /\ i \in Inode /\ \A q \in Path : tree[q] # i
      /\ \A r \in Proc : out[r] # i
  BY DEF Free, InUse
<1>4. /\ \A j \in InUse' \cap Inode : j # i => data'[j] = data[j]
      /\ i \in InUse' => data'[i] = <<>>
  <2> DEFINE d == [data EXCEPT ![i] = <<>>]
  <2>1. /\ d \in [Inode -> Content] /\ d[i] = <<>>
        /\ \A j \in Inode \ {i} : d[j] = data[j]
    BY <1>1, <1>3 DEF TypeOK
  <2>2. Store(d)
    BY <1>2
  <2> HIDE DEF d
  <2> QED BY <1>3, <2>1, <2>2, StoreKeeps
<1>5. /\ pc' = [pc EXCEPT ![p] = "write"] /\ UNCHANGED <<req, buf>>
      /\ out'[p] = i /\ \A r \in Proc \ {p} : out'[r] = out[r]
      /\ \A k \in Key : tree'[k] = tree[k]
  BY ZenonT(60), <1>1, <1>2, TreeAssumption DEF CreateTemp, Goto, TypeOK, Path
<1>6. WholeFiles'
  <2> SUFFICES ASSUME NEW k \in Key, tree[k] \in Inode
               PROVE  data'[tree[k]] \in Val
    BY <1>5 DEF WholeFiles, IsFile
  <2>1. tree[k] \in InUse' /\ tree[k] # i
    BY <1>3, <1>5 DEF InUse, Path
  <2> QED BY <1>4, <2>1 DEF WholeInv, WholeFiles, IsFile
<1>7. ASSUME NEW r \in Proc
      PROVE  /\ pc'[r] \in {"idle", "start", "create"} => buf'[r] = <<>>
             /\ pc'[r] = "write" => /\ data'[out'[r]] = buf'[r]
                                   /\ Part(buf'[r], req'[r].val)
  <2>1. CASE r = p
    <3>1. data'[out'[p]] = <<>>
      BY <1>4, <1>5 DEF InUse
    <3>2. Part(<<>>, req[p].val)
      BY <1>1, LenProperties, EmptySeq DEF Part, Content
    <3> QED BY <1>1, <1>5, <2>1, <3>1, <3>2 DEF TypeOK
  <2>2. CASE r # p
    <3>1. pc[r] = "write" => out'[r] \in InUse' \cap Inode /\ out'[r] # i
      BY <1>1, <1>3, <1>5, <2>2 DEF InUse, Handles
    <3>2. pc'[r] = pc[r] /\ out'[r] = out[r]
      BY <1>1, <1>5, <2>2 DEF TypeOK
    <3> QED BY <1>4, <1>5, <3>1, <3>2 DEF WholeInv, Progress
  <2> QED BY <2>1, <2>2
<1>8. Progress'
  BY <1>7 DEF Progress
<1> QED BY <1>6, <1>8 DEF WholeInv

LEMMA CopyChunkWholeInv ==
    ASSUME AtomicPuts, WholeInv, TempInv', NEW p \in Proc, CopyChunk(p)
    PROVE  WholeInv'
<1>1. /\ TypeOK /\ Handles /\ TempInv /\ pc[p] = "write"
      /\ tmp[p] \in Temp /\ tmp[p] # NoFile /\ out[p] \in Inode
      /\ req[p].val \in Content /\ UsesTemp(p)
  BY WritersPut DEF WholeInv, TempInv, TypeInv, CopyChunk
<1> DEFINE c == req[p].val[Len(buf[p]) + 1]
<1>2. Feed(p) = req[p].val
  BY <1>1 DEF Feed, UsesTemp
<1>3. /\ buf[p] \in Content /\ Len(buf[p]) < Len(req[p].val)
      /\ data[out[p]] = buf[p] /\ Part(buf[p], req[p].val)
      /\ c \in Chunk \cup {Zero}
  <2>1. buf[p] \in Content /\ Len(buf[p]) < Len(req[p].val)
    BY <1>1, <1>2 DEF CopyChunk, TypeOK
  <2>2. data[out[p]] = buf[p] /\ Part(buf[p], req[p].val)
    BY <1>1 DEF WholeInv, Progress
  <2> QED BY <1>1, <2>1, <2>2, NextChunk
<1>4. /\ buf' = [buf EXCEPT ![p] = Append(buf[p], c)]
      /\ data' = [data EXCEPT ![out[p]] = WriteAt(data[out[p]], Len(buf[p]), c)]
      /\ UNCHANGED <<tree, pc, req, out>>
  BY <1>2 DEF CopyChunk
<1>5. /\ WriteAt(data[out[p]], Len(buf[p]), c) = Append(buf[p], c)
      /\ Part(Append(buf[p], c), req[p].val)
  BY <1>1, <1>3, WriteAtEnd, PartGrows
<1> HIDE DEF c
<1>6. /\ buf'[p] = Append(buf[p], c) /\ data'[out[p]] = Append(buf[p], c)
      /\ \A r \in Proc \ {p} : buf'[r] = buf[r]
      /\ \A i \in Inode \ {out[p]} : data'[i] = data[i]
  BY <1>1, <1>4, <1>5 DEF TypeOK
<1>7. WholeFiles'
  <2> SUFFICES ASSUME NEW k \in Key, tree[k] \in Inode
               PROVE  data'[tree[k]] \in Val
    BY <1>4 DEF WholeFiles, IsFile
  <2>1. tree[k] # out[p]
    BY <1>1, TreeAssumption DEF TempInv, TempsArePrivate, Path
  <2> QED BY <1>6, <2>1 DEF WholeInv, WholeFiles, IsFile
<1>8. ASSUME NEW r \in Proc
      PROVE  /\ pc'[r] \in {"idle", "start", "create"} => buf'[r] = <<>>
             /\ pc'[r] = "write" => /\ data'[out'[r]] = buf'[r]
                                   /\ Part(buf'[r], req'[r].val)
  <2>1. CASE r = p
    BY <1>1, <1>4, <1>5, <1>6, <2>1
  <2>2. CASE r # p
    <3>1. pc[r] = "write" => out[r] \in Inode /\ out[r] # out[p]
      BY <1>1, <2>2 DEF TempInv, TempsArePrivate, Handles
    <3> QED BY <1>4, <1>6, <2>2, <3>1 DEF WholeInv, Progress
  <2> QED BY <2>1, <2>2
<1>9. Progress'
  BY <1>8 DEF Progress
<1> QED BY <1>7, <1>9 DEF WholeInv

LEMMA RenameWholeInv ==
    ASSUME AtomicPuts, WholeInv, TempInv', NEW p \in Proc, Rename(p)
    PROVE  WholeInv'
<1>1. /\ TypeOK /\ TypeOK' /\ Handles /\ TempInv /\ pc[p] = "write"
      /\ tmp[p] \in Temp /\ tmp[p] # NoFile /\ out[p] \in Inode
      /\ req[p].val \in Content /\ req[p].val \in Val /\ UsesTemp(p)
      /\ Target(p) \in Key
  BY WritersPut, TargetIsKey
  DEF WholeInv, TempInv, TypeInv, TypeOK, Rename, Copied
<1>2. data[out[p]] \in Val
  <2>1. buf[p] \in Content /\ Len(buf[p]) >= Len(req[p].val)
    BY <1>1 DEF Rename, Copied, Feed, UsesTemp, TypeOK
  <2>2. data[out[p]] = buf[p] /\ Part(buf[p], req[p].val)
    BY <1>1 DEF WholeInv, Progress
  <2> QED BY <1>1, <2>1, <2>2, PartIsWhole
<1>3. tree[tmp[p]] = out[p]
  BY <1>1 DEF TempInv, TempsArePrivate
<1>4. /\ pc' = [pc EXCEPT ![p] = "done"] /\ out' = [out EXCEPT ![p] = NoFile]
      /\ buf' = [buf EXCEPT ![p] = <<>>] /\ UNCHANGED req /\ Store(data)
      /\ tree' = [tree EXCEPT ![Target(p)] = tree[tmp[p]], ![tmp[p]] = Absent]
  BY DEF Rename, Close, Answer, Goto
<1>5. \A k \in Key : tree'[k] = tree[k] \/ tree'[k] = out[p]
  <2> DEFINE k == Target(p)
             t == tmp[p]
  <2>1. tree' = [tree EXCEPT ![k] = out[p], ![t] = Absent]
    BY <1>3, <1>4
  <2>2. k \in Path /\ t \in Temp
    BY <1>1 DEF Path
  <2> HIDE DEF k, t
  <2> QED BY ZenonT(60), <1>1, <2>1, <2>2, TreeAssumption DEF TypeOK, Path
<1>6. \A i \in InUse' \cap Inode : data'[i] = data[i]
  BY <1>1, <1>4, StoreKeeps DEF TypeOK
<1>7. WholeFiles'
  <2> SUFFICES ASSUME NEW k \in Key, tree'[k] \in Inode
               PROVE  data'[tree'[k]] \in Val
    BY DEF WholeFiles, IsFile
  <2>1. tree'[k] \in InUse'
    BY DEF InUse, Path
  <2> QED BY <1>2, <1>5, <1>6, <2>1 DEF WholeInv, WholeFiles, IsFile
<1>8. ASSUME NEW r \in Proc
      PROVE  /\ pc'[r] \in {"idle", "start", "create"} => buf'[r] = <<>>
             /\ pc'[r] = "write" => /\ data'[out'[r]] = buf'[r]
                                   /\ Part(buf'[r], req'[r].val)
  <2>1. CASE r = p
    BY <1>1, <1>4, <2>1 DEF TypeOK
  <2>2. CASE r # p
    <3>1. pc'[r] = pc[r] /\ out'[r] = out[r] /\ buf'[r] = buf[r] /\ req' = req
      BY <1>1, <1>4, <2>2 DEF TypeOK
    <3>2. pc[r] = "write" => out'[r] \in InUse' \cap Inode
      BY <1>1, <3>1 DEF InUse, Handles
    <3> QED BY <1>6, <3>1, <3>2 DEF WholeInv, Progress
  <2> QED BY <2>1, <2>2
<1>9. Progress'
  BY <1>8 DEF Progress
<1> QED BY <1>7, <1>9 DEF WholeInv

LEMMA StepWholeInv ==
    ASSUME AtomicPuts, WholeInv, TempInv', NEW p \in Proc, Step(p)
    PROVE  WholeInv'
<1>0. /\ TypeOK /\ Handles /\ TempInv
      /\ pc[p] \in {"idle", "start", "create"} => buf[p] = <<>>
  BY DEF WholeInv, TempInv, TypeInv, Progress
<1>1. CASE Call(p)
  BY <1>0, <1>1, NothingWritten DEF Call, Goto, TypeOK
<1>2. CASE Return(p)
  BY <1>0, <1>2, NothingWritten DEF Return, Goto, TypeOK
<1>3. CASE Refuse(p) \/ Stat(p) \/ Exists(p)
  BY <1>0, <1>3, NothingWritten DEF Refuse, Stat, Exists, Answer, Goto, TypeOK
<1>4. CASE Get(p) \/ Copy(p)
  <2>1. PICK then \in {"read", "opened"} : Open(p, req[p].key, then)
    BY <1>4 DEF Get, Copy
  <2> QED BY <1>0, <2>1, NothingWritten DEF Open, Answer, Goto, TypeOK
<1>5. CASE ReadChunk(p)
  BY <1>0, <1>5, NothingWritten DEF ReadChunk, TypeOK
<1>6. CASE ReadEOF(p) \/ ReadDir(p) \/ CreateFails(p)
  BY <1>0, <1>6, NothingWritten
  DEF ReadEOF, ReadDir, CreateFails, Answer, Goto, TypeOK
<1>7. CASE MkdirAll(p) \/ MkdirAllFails(p)
  <2>1. pc[p] = "start"
    BY <1>0, <1>7, WritersPut DEF MkdirAll, MkdirAllFails, MakeDirs, Doing
  <2>2. \A k \in Key : tree'[k] \in {tree[k], Dir}
    BY <1>7 DEF MkdirAll, MkdirAllFails, Made, Path
  <2>3. /\ data' = data \/ Store(data)
        /\ pc' = [pc EXCEPT ![p] = "create"] \/ pc' = [pc EXCEPT ![p] = "done"]
        /\ UNCHANGED <<req, out, buf>>
    BY <1>7 DEF MkdirAll, MkdirAllFails, Answer, Goto
  <2> QED BY <1>0, <2>1, <2>2, <2>3, NothingWritten DEF TypeOK
<1>8. CASE Create(p) \/ CopyEOF(p) \/ CopyFails(p)
  BY <1>0, <1>8, WritersPut DEF Create, CopyEOF, CopyFails, Copied
<1>9. CASE CreateTemp(p)
  BY <1>9, CreateTempWholeInv
<1>10. CASE CopyChunk(p)
  BY <1>10, CopyChunkWholeInv
<1>11. CASE Rename(p)
  BY <1>11, RenameWholeInv
<1>12. CASE PutAtomicFails(p)
  <2>1. tmp[p] \in Temp
    BY <1>0, <1>12 DEF PutAtomicFails, RemoveTemp, Handles
  <2>2. \A k \in Key : tree'[k] = tree[k]
    <3> DEFINE t == tmp[p]
    <3>1. tree' = tree \/ tree' = [tree EXCEPT ![t] = Absent]
      BY <1>12 DEF PutAtomicFails, RemoveTemp
    <3>2. t \in Temp
      BY <2>1
    <3> HIDE DEF t
    <3> QED BY <1>0, <3>1, <3>2, TreeAssumption DEF TypeOK, Path
  <2> QED BY <1>0, <1>12, <2>2, NothingWritten
          DEF PutAtomicFails, RemoveTemp, Close, Answer, Goto, TypeOK
<1>13. CASE Delete(p)
  <2>1. \A k \in Key : tree'[k] \in {tree[k], Absent}
    BY <1>0, <1>13 DEF Delete, TypeOK, Path
  <2>2. /\ pc' = [pc EXCEPT ![p] = "done"] /\ Store(data)
        /\ UNCHANGED <<req, out, buf>>
    BY <1>13 DEF Delete, Answer, Goto
  <2> QED BY <1>0, <2>1, <2>2, NothingWritten DEF TypeOK
<1> QED BY <1>1, <1>2, <1>3, <1>4, <1>5, <1>6, <1>7, <1>8, <1>9, <1>10,
           <1>11, <1>12, <1>13 DEF Step

LEMMA WholeInvInductive ==
    ASSUME AtomicPuts
    PROVE  /\ Init => WholeInv
           /\ WholeInv /\ [Next]_vars => WholeInv'
<1>1. ASSUME Init PROVE WholeInv
  <2>1. \A q \in Path : tree[q] \notin Inode
    BY <1>1, NullAssumption DEF Init, NewLocalFS
  <2>2. \A p \in Proc : pc[p] = "idle" /\ buf[p] = <<>>
    BY <1>1 DEF Init
  <2> QED BY <1>1, <2>1, <2>2, TempInvInductive
          DEF WholeInv, WholeFiles, IsFile, Progress, Path
<1>2. ASSUME WholeInv, UNCHANGED vars PROVE WholeInv'
  <2>1. TempInv'
    BY <1>2, TempInvInductive DEF WholeInv
  <2> QED BY <1>2, <2>1
          DEF WholeInv, WholeFiles, IsFile, Progress, vars
<1>3. ASSUME WholeInv, Crash PROVE WholeInv'
  <2>1. TempInv' /\ TypeOK
    BY <1>3, TempInvInductive DEF WholeInv, Next, TempInv, TypeInv
  <2>2. \A k \in Key : tree'[k] \in {tree[k], Dir, Absent}
    BY <1>3, <2>1, TreeAssumption DEF Crash, NewLocalFS, TypeOK, Path
  <2>3. \A i \in InUse' \cap Inode : data'[i] = data[i]
    BY <1>3, <2>1, StoreKeeps DEF Crash, TypeOK
  <2>4. WholeFiles'
    <3> SUFFICES ASSUME NEW k \in Key, tree'[k] \in Inode
                 PROVE  data'[tree'[k]] \in Val
      BY DEF WholeFiles, IsFile
    <3>1. tree'[k] = tree[k] /\ tree'[k] \in InUse'
      BY <2>2, NullAssumption DEF InUse, Path
    <3> QED BY <1>3, <2>3, <3>1 DEF WholeInv, WholeFiles, IsFile
  <2>5. Progress'
    BY <1>3 DEF Crash, Progress
  <2> QED BY <2>1, <2>4, <2>5 DEF WholeInv
<1>4. ASSUME WholeInv, NEW p \in Proc, Step(p) PROVE WholeInv'
  <2>1. TempInv'
    BY <1>4, TempInvInductive DEF WholeInv, Next
  <2> QED BY <1>4, <2>1, StepWholeInv
<1> QED BY <1>1, <1>2, <1>3, <1>4 DEF Next

(* WithAtomicWrite keeps its word (localfs.go:33-35): however many Puts    *)
(* race, fail or are cut short by a crash, a file that has a key holds one *)
(* whole payload.  Copy must be left out: it writes in place regardless.   *)
THEOREM FilesAreWhole ==
    ASSUME AtomicPuts
    PROVE  Spec => []WholeFiles
<1>1. Init => WholeInv
  BY WholeInvInductive
<1>2. WholeInv /\ [Next]_vars => WholeInv'
  BY WholeInvInductive
<1>3. WholeInv => WholeFiles
  BY DEF WholeInv
<1> QED BY <1>1, <1>2, <1>3, PTL DEF Spec

----------------------------------------------------------------------------
(* LocalFS implements FileStore.  With atomic writes, and clients that do  *)
(* not Copy, every system call is an atomic step of FileStore on a map of  *)
(* whole payloads, or changes nothing a client can see.                    *)

(* The refinement mapping.                                                 *)
Map  == [k \in Key |-> IF IsFile(k) THEN data[tree[k]] ELSE NoFile]
Seen == [p \in Proc |-> Answered(p)]

(* A reader has opened a whole payload, reads it from its beginning, and   *)
(* has all of it when it comes to the end.                                 *)
Readers ==
    \A p \in Proc :
        /\ pc[p] = "idle" => req[p] = NoReq
        /\ pc[p] = "done" => res[p] # ""
        /\ pc[p] = "done" /\ req[p].op = "get" /\ res[p] = "ok" => buf[p] \in Val
        /\ pc[p] = "read" /\ in[p] \in Inode => /\ data[in[p]] \in Val
                                               /\ Part(buf[p], data[in[p]])

StoreInv == WholeInv /\ Readers

----------------------------------------------------------------------------
(* Nobody writes to a file that a key names or a reader has open.          *)

LEMMA WrittenOutOfSight ==
    ASSUME AtomicPuts, StoreInv
    PROVE  \A r \in Proc : out[r] # NoFile =>
              /\ \A k \in Key : tree[k] # out[r]
              /\ \A q \in Proc : pc[q] = "read" => in[q] # out[r]
<1> SUFFICES ASSUME NEW r \in Proc, out[r] # NoFile
             PROVE  /\ \A k \in Key : tree[k] # out[r]
                    /\ \A q \in Proc : pc[q] = "read" => in[q] # out[r]
  OBVIOUS
<1>1. TempInv /\ Handles /\ TempsArePrivate
  BY DEF StoreInv, WholeInv, TempInv, TypeInv
<1>2. pc[r] = "write"
  BY <1>1 DEF Handles
<1>3. tmp[r] \in Temp /\ tmp[r] # NoFile
  BY <1>1, <1>2, WritersPut
<1> QED BY <1>1, <1>2, <1>3, TreeAssumption DEF TempsArePrivate, Path

LEMMA InUseKeeps ==
    ASSUME AtomicPuts, StoreInv, NEW p \in Proc, Step(p),
           NEW i \in InUse \cap InUse' \cap Inode, \A r \in Proc : out[r] # i
    PROVE  data'[i] = data[i]
<1>1. TypeOK /\ Handles /\ TempInv
  BY DEF StoreInv, WholeInv, TempInv, TypeInv
<1>2. CASE data' = data
  BY <1>2
<1>3. CASE Store(data)
  BY <1>1, <1>3, StoreKeeps DEF TypeOK
<1>4. CASE CopyChunk(p)
  BY <1>1, <1>4 DEF CopyChunk, TypeOK
<1>5. CASE CreateTemp(p)
  <2>1. PICK j \in Free : Store([data EXCEPT ![j] = <<>>])
    BY <1>5 DEF CreateTemp
  <2> DEFINE d == [data EXCEPT ![j] = <<>>]
  <2>2. d \in [Inode -> Content] /\ d[i] = data[i]
    BY <1>1, EmptySeq DEF Free, TypeOK, Content
  <2> HIDE DEF d
  <2> QED BY <2>1, <2>2, StoreKeeps DEF d
<1>6. CASE Create(p)
  BY <1>1, <1>6, WritersPut DEF Create
<1> QED BY <1>2, <1>3, <1>4, <1>5, <1>6
    DEF Step, Call, Return, Refuse, Get, Open, ReadChunk, ReadEOF, ReadDir,
        MkdirAll, MkdirAllFails, CreateFails, CopyEOF, CopyFails, Close,
        Rename, PutAtomicFails, RemoveTemp, Delete, Stat, Exists, Copy

(* A step of p is invisible to the others, but for the files.              *)
LEMMA OthersStay ==
    ASSUME TypeOK, NEW p \in Proc, Step(p), NEW q \in Proc \ {p}
    PROVE  /\ pc'[q] = pc[q] /\ req'[q] = req[q] /\ in'[q] = in[q]
           /\ buf'[q] = buf[q] /\ res'[q] = res[q]
<1> USE DEF TypeOK, Answer, Goto, Close
<1>1. CASE Call(p) \/ Return(p) \/ Refuse(p) \/ Stat(p) \/ Exists(p) \/ Delete(p)
  BY ZenonT(60), <1>1 DEF Call, Return, Refuse, Stat, Exists, Delete
<1>2. CASE Get(p) \/ Copy(p)
  BY <1>2 DEF Get, Copy, Open
<1>3. CASE ReadChunk(p) \/ ReadEOF(p) \/ ReadDir(p)
  BY <1>3 DEF ReadChunk, ReadEOF, ReadDir
<1>4. CASE MkdirAll(p) \/ MkdirAllFails(p) \/ Create(p) \/ CreateTemp(p) \/ CreateFails(p)
  BY <1>4 DEF MkdirAll, MkdirAllFails, Create, CreateTemp, CreateFails
<1>5. CASE CopyChunk(p) \/ CopyEOF(p) \/ CopyFails(p) \/ Rename(p) \/ PutAtomicFails(p)
  BY <1>5 DEF CopyChunk, CopyEOF, CopyFails, Rename, PutAtomicFails, RemoveTemp
<1> QED BY <1>1, <1>2, <1>3, <1>4, <1>5 DEF Step

(* What a client reads stays as it is until it closes the file.            *)
LEMMA ReadersKeep ==
    ASSUME AtomicPuts, StoreInv, NEW p \in Proc, Step(p),
           NEW q \in Proc, pc[q] = "read", in[q] \in Inode, in'[q] = in[q]
    PROVE  data'[in[q]] = data[in[q]]
<1>1. in[q] \in InUse \cap InUse' \cap Inode
  BY DEF InUse
<1>2. \A r \in Proc : out[r] # in[q]
  BY WrittenOutOfSight, NullAssumption
<1> QED BY <1>1, <1>2, InUseKeeps

LEMMA StepReaders ==
    ASSUME AtomicPuts, StoreInv, TypeOK', NEW p \in Proc, Step(p)
    PROVE  Readers'
<1>0. TypeOK /\ Handles /\ TempInv /\ WholeInv /\ Readers
  BY DEF StoreInv, WholeInv, TempInv, TypeInv
<1> DEFINE Good(q) == /\ pc[q] = "idle" => req[q] = NoReq
                      /\ pc[q] = "done" => res[q] # ""
                      /\ pc[q] = "done" /\ req[q].op = "get" /\ res[q] = "ok" => buf[q] \in Val
                      /\ pc[q] = "read" /\ in[q] \in Inode => /\ data[in[q]] \in Val
                                                             /\ Part(buf[q], data[in[q]])
<1>a. ASSUME NEW q \in Proc \ {p} PROVE Good(q)'
  <2>1. /\ pc'[q] = pc[q] /\ req'[q] = req[q] /\ in'[q] = in[q]
        /\ buf'[q] = buf[q] /\ res'[q] = res[q]
    BY <1>0, OthersStay
  <2>2. pc[q] = "read" /\ in[q] \in Inode => data'[in[q]] = data[in[q]]
    BY <2>1, ReadersKeep
  <2> QED BY <1>0, <2>1, <2>2 DEF Readers
<1>b. Good(p)'
  <2>1. CASE Call(p) \/ Return(p)
    BY <1>0, <2>1 DEF Call, Return, Goto, TypeOK
  <2>2. CASE \/ Refuse(p) \/ Stat(p) \/ Exists(p) \/ Delete(p) \/ ReadDir(p)
             \/ MkdirAllFails(p) \/ CreateFails(p) \/ CopyFails(p) \/ PutAtomicFails(p)
    <3>1. PICK r \in {"ok", "notfound", "error", "file", "dir", "true", "false"} :
             Answer(p, r) /\ UNCHANGED req /\ (r = "ok" => req[p].op = "delete")
      BY <2>2 DEF Refuse, Stat, Exists, Delete, Doing, ReadDir, MkdirAllFails, CreateFails,
                  CopyFails, PutAtomicFails, RemoveTemp, Close
    <3>2. pc'[p] = "done" /\ res'[p] = r
      BY <1>0, <3>1 DEF Answer, Goto, TypeOK
    <3> QED BY <3>1, <3>2
  <2>7. CASE CopyEOF(p) \/ Rename(p)
    <3>1. UNCHANGED req /\ req[p].op # "get" /\ Answer(p, "ok")
      BY <1>0, <2>7 DEF CopyEOF, Rename, Copied, Close, Handles
    <3> QED BY <1>0, <3>1 DEF Answer, Goto, TypeOK
  <2>8. CASE ReadEOF(p)
    <3>1. /\ pc[p] = "read" /\ in[p] \in Inode /\ Answer(p, "ok") /\ UNCHANGED <<req, buf>>
          /\ Len(buf[p]) >= Len(data[in[p]])
      BY <2>8 DEF ReadEOF
    <3>2. data[in[p]] \in Val /\ Part(buf[p], data[in[p]])
      BY <1>0, <3>1 DEF Readers
    <3>3. buf[p] = data[in[p]]
      BY <1>0, <3>1, <3>2, PartIsWhole DEF TypeOK
    <3> QED BY <1>0, <3>1, <3>2, <3>3 DEF Answer, Goto, TypeOK
  <2>3. CASE MkdirAll(p) \/ Create(p) \/ CreateTemp(p) \/ CopyChunk(p)
    BY <1>0, <2>3 DEF MkdirAll, Create, CreateTemp, CopyChunk, Goto, TypeOK
  <2>4. CASE Get(p)
    <3> DEFINE q == req[p].key
    <3>1. q \in Key /\ buf[p] = <<>> /\ UNCHANGED <<tree, data, buf>>
      BY <1>0, <2>4, CallShape DEF Get, Doing, Open, TypeOK, WholeInv, Progress
    <3>2. \/ pc'[p] = "done" /\ res'[p] \notin {"", "ok"}
          \/ pc'[p] = "read" /\ in'[p] = tree[q]
      <4>1. \/ Answer(p, "error") \/ Answer(p, "notfound")
            \/ in' = [in EXCEPT ![p] = tree[q]] /\ Goto(p, "read")
        BY <2>4 DEF Get, Open
      <4>2. DOMAIN pc = Proc /\ DOMAIN res = Proc /\ DOMAIN in = Proc
        BY <1>0 DEF TypeOK
      <4> HIDE DEF q
      <4> QED BY <4>1, <4>2 DEF Answer, Goto
    <3>3. tree[q] \in Inode => data[tree[q]] \in Val
      BY <1>0, <3>1 DEF WholeInv, WholeFiles, IsFile
    <3>4. \A c \in Content : Part(<<>>, c)
      BY LenProperties, EmptySeq DEF Part, Content
    <3> HIDE DEF q
    <3> QED BY <3>1, <3>2, <3>3, <3>4, ValIsContent
  <2>5. CASE ReadChunk(p)
    <3>1. /\ pc[p] = "read" /\ in[p] \in Inode /\ UNCHANGED <<pc, in, data>>
          /\ Len(buf[p]) < Len(data[in[p]])
          /\ buf'[p] = Append(buf[p], data[in[p]][Len(buf[p]) + 1])
      BY <1>0, <2>5 DEF ReadChunk, TypeOK
    <3>2. buf[p] \in Content /\ data[in[p]] \in Content /\ Part(buf[p], data[in[p]])
      BY <1>0, <3>1 DEF TypeOK, Readers
    <3>3. Part(buf'[p], data[in[p]])
      BY <3>1, <3>2, PartGrows
    <3> QED BY <1>0, <3>1, <3>3 DEF Readers
  <2>6. CASE Copy(p)
    BY <1>0, <2>6 DEF Copy, Open, Answer, Goto, TypeOK
  <2> QED BY <2>1, <2>2, <2>3, <2>4, <2>5, <2>6, <2>7, <2>8 DEF Step
<1> QED BY <1>a, <1>b DEF Readers

LEMMA StoreInvInductive ==
    ASSUME AtomicPuts
    PROVE  /\ Init => StoreInv
           /\ StoreInv /\ [Next]_vars => StoreInv'
<1>1. ASSUME Init PROVE StoreInv
  BY <1>1, WholeInvInductive DEF StoreInv, Readers, Init
<1>2. ASSUME StoreInv, [Next]_vars PROVE WholeInv' /\ TypeOK'
  BY <1>2, WholeInvInductive DEF StoreInv, WholeInv, TempInv, TypeInv
<1>3. ASSUME StoreInv, UNCHANGED vars PROVE Readers'
  BY <1>3 DEF StoreInv, Readers, vars
<1>4. ASSUME StoreInv, Crash PROVE Readers'
  BY <1>4 DEF Readers, Crash
<1>5. ASSUME StoreInv, NEW p \in Proc, Step(p) PROVE Readers'
  BY <1>2, <1>5, StepReaders DEF Next
<1> QED BY <1>1, <1>2, <1>3, <1>4, <1>5 DEF StoreInv, Next

----------------------------------------------------------------------------
(* The mapping of a step: what it does to a key, and to an answer.         *)

LEMMA KeyKeeps ==
    ASSUME AtomicPuts, StoreInv, NEW p \in Proc, Step(p),
           NEW k \in Key, tree'[k] = tree[k] \/ (~IsFile(k) /\ ~IsFile(k)')
    PROVE  Map'[k] = Map[k]
<1>1. CASE ~IsFile(k) /\ ~IsFile(k)'
  BY <1>1 DEF Map
<1>2. CASE tree'[k] = tree[k] /\ IsFile(k)
  <2>1. tree[k] \in InUse \cap InUse' \cap Inode
    BY <1>2 DEF InUse, IsFile, Path
  <2>2. \A r \in Proc : out[r] # tree[k]
    BY <1>2, WrittenOutOfSight, NullAssumption DEF IsFile
  <2>3. data'[tree[k]] = data[tree[k]]
    BY <2>1, <2>2, InUseKeeps
  <2> QED BY <1>2, <2>3 DEF Map, IsFile
<1> QED BY <1>1, <1>2 DEF IsFile

LEMMA MapKeeps ==
    ASSUME AtomicPuts, StoreInv, NEW p \in Proc, Step(p),
           \A k \in Key : tree'[k] = tree[k] \/ (~IsFile(k) /\ ~IsFile(k)')
    PROVE  Map' = Map
<1>1. \A k \in Key : Map'[k] = Map[k]
  BY KeyKeeps
<1> QED BY <1>1 DEF Map

(* Only the answer of the client that makes the step changes.              *)
LEMMA OneAnswers ==
    ASSUME AtomicPuts, StoreInv, NEW p \in Proc, Step(p)
    PROVE  Seen' = [Seen EXCEPT ![p] = Answered(p)']
<1>1. ASSUME NEW q \in Proc \ {p} PROVE Answered(q)' = Answered(q)
  <2>1. /\ pc'[q] = pc[q] /\ req'[q] = req[q] /\ in'[q] = in[q]
        /\ buf'[q] = buf[q] /\ res'[q] = res[q]
    BY OthersStay DEF StoreInv, WholeInv, TempInv, TypeInv
  <2>2. pc[q] = "read" /\ in[q] # Dir => data'[in[q]] = data[in[q]]
    <3>1. pc[q] = "read" /\ in[q] # Dir => in[q] \in Inode
      BY DEF StoreInv, WholeInv, TempInv, TypeInv, TypeOK, Handles
    <3> QED BY <2>1, <3>1, ReadersKeep
  <2> QED BY <2>1, <2>2 DEF Answered
<1> QED BY <1>1 DEF Seen

LEMMA Fails ==
    ASSUME NEW p \in Proc, req[p] # NoReq, Answered(p) = NoAns,
           UNCHANGED <<Map, req>>,
           Seen' = [Seen EXCEPT ![p] = [res |-> "error"]]
    PROVE  Promise!Fail(p)
BY DEF Promise!Fail, Promise!Answers, Map, Seen

LEMMA Answering ==
    ASSUME TypeOK, NEW p \in Proc, NEW r, Answer(p, r), UNCHANGED req,
           req[p].op # "get" \/ r # "ok"
    PROVE  Answered(p)' = [res |-> r]
<1>1. pc'[p] = "done" /\ res'[p] = r
  BY DEF Answer, Goto, TypeOK
<1> QED BY <1>1 DEF Answered

LEMMA Unanswered ==
    ASSUME NEW p \in Proc, pc[p] \notin {"read", "done"}
    PROVE  Answered(p) = NoAns
BY DEF Answered

(* What a step that stores nothing may do to the tree.                     *)
LEMMA TempKeepsKeys ==
    ASSUME TypeOK, NEW t \in Temp, NEW b, tree' = [tree EXCEPT ![t] = b]
    PROVE  \A k \in Key : tree'[k] = tree[k]
BY TreeAssumption DEF TypeOK, Path

LEMMA MadeKeepsFiles ==
    ASSUME NEW q \in Key \cup Temp, ~Blocked(q), Made(Above[q])
    PROVE  \A k \in Key : tree'[k] = tree[k] \/ (~IsFile(k) /\ ~IsFile(k)')
BY NullAssumption DEF Blocked, IsFile, Made, Path

(* Steps a client cannot see.                                              *)
LEMMA QuietSteps ==
    ASSUME AtomicPuts, StoreInv, TypeOK', NEW p \in Proc, Step(p),
           \/ ReadChunk(p) \/ ReadEOF(p) \/ ReadDir(p) \/ MkdirAll(p)
           \/ CreateTemp(p) \/ CopyChunk(p)
    PROVE  UNCHANGED <<Map, req, Seen>>
<1>0. TypeOK /\ Handles /\ TempInv /\ WholeInv /\ Readers
  BY DEF StoreInv, WholeInv, TempInv, TypeInv
<1>1. req' = req
  BY DEF ReadChunk, ReadEOF, ReadDir, MkdirAll, CreateTemp, CopyChunk
<1>2. \A k \in Key : tree'[k] = tree[k] \/ (~IsFile(k) /\ ~IsFile(k)')
  <2>1. CASE MkdirAll(p)
    <3>1. Target(p) \in Key
      BY <1>0, <2>1, TargetIsKey DEF MkdirAll, MakeDirs, Doing, TypeOK
    <3> QED BY <2>1, <3>1, MadeKeepsFiles DEF MkdirAll
  <2>2. CASE CreateTemp(p)
    BY <1>0, <2>2, TempKeepsKeys DEF CreateTemp
  <2> QED BY <2>1, <2>2 DEF ReadChunk, ReadEOF, ReadDir, CopyChunk
<1>3. Answered(p)' = Answered(p)
  <2>1. CASE MkdirAll(p) \/ CreateTemp(p) \/ CopyChunk(p)
    <3>1. pc[p] \notin {"read", "done"} /\ pc'[p] \notin {"read", "done"}
      BY <1>0, <2>1 DEF MkdirAll, MakeDirs, Doing, CreateTemp, CopyChunk, Goto, TypeOK
    <3> QED BY <3>1 DEF Answered
  <2>2. CASE ReadChunk(p)
    BY <2>2 DEF ReadChunk, Answered
  <2>3. CASE ReadDir(p)
    <3>1. Answered(p)' = [res |-> "error"]
      BY <1>0, <2>3, Answering DEF ReadDir
    <3> QED BY <2>3, <3>1 DEF ReadDir, Answered
  <2>4. CASE ReadEOF(p)
    <3>1. /\ pc[p] = "read" /\ in[p] \in Inode /\ req[p].op = "get"
          /\ pc'[p] = "done" /\ res'[p] = "ok" /\ buf' = buf /\ req' = req
      BY <1>0, <2>4 DEF ReadEOF, Answer, Goto, TypeOK, Handles
    <3>2. buf[p] = data[in[p]]
      <4>1. Len(buf[p]) >= Len(data[in[p]]) /\ Part(buf[p], data[in[p]])
        BY <1>0, <2>4, <3>1 DEF ReadEOF, Readers
      <4> QED BY <1>0, <3>1, <4>1, PartIsWhole DEF TypeOK
    <3> QED BY <3>1, <3>2, NullAssumption DEF Answered
  <2> QED BY <2>1, <2>2, <2>3, <2>4
<1>4. Seen' = Seen
  BY <1>3, OneAnswers DEF Seen
<1> QED BY <1>1, <1>2, <1>4, MapKeeps

(* Steps that end a call with an error.                                    *)
LEMMA FailedSteps ==
    ASSUME AtomicPuts, StoreInv, TypeOK', NEW p \in Proc, Step(p),
           \/ Refuse(p) \/ MkdirAllFails(p) \/ CreateFails(p) \/ PutAtomicFails(p)
    PROVE  Promise!Fail(p)
<1>0. TypeOK /\ Handles /\ TempInv /\ WholeInv
  BY DEF StoreInv, WholeInv, TempInv, TypeInv
<1>1. /\ Answer(p, "error") /\ UNCHANGED req
      /\ pc[p] \notin {"idle", "read", "done"}
  BY DEF Refuse, MkdirAllFails, MakeDirs, Doing, CreateFails, PutAtomicFails, RemoveTemp, Close
<1>2. \A k \in Key : tree'[k] = tree[k] \/ (~IsFile(k) /\ ~IsFile(k)')
  <2>1. CASE MkdirAllFails(p)
    <3>1. Target(p) \in Key
      BY <1>0, <1>1, TargetIsKey DEF TypeOK
    <3>2. PICK q \in Above[Target(p)] \ {Top} : ~Blocked(q) /\ Made(Above[q])
      BY <2>1 DEF MkdirAllFails
    <3>3. q \in Key
      BY <3>1, <3>2, TreeAssumption
    <3> QED BY <3>2, <3>3, MadeKeepsFiles
  <2>2. CASE PutAtomicFails(p)
    <3>1. tmp[p] \in Temp
      BY <1>0, <2>2 DEF Handles, PutAtomicFails, RemoveTemp
    <3> QED BY <1>0, <2>2, <3>1, TempKeepsKeys DEF PutAtomicFails, RemoveTemp
  <2> QED BY <2>1, <2>2 DEF Refuse, CreateFails
<1>3. req[p] # NoReq /\ Answered(p) = NoAns
  BY <1>0, <1>1, Unanswered, NullAssumption DEF TypeOK
<1>4. Seen' = [Seen EXCEPT ![p] = [res |-> "error"]]
  BY <1>0, <1>1, Answering, OneAnswers
<1> QED BY <1>1, <1>2, <1>3, <1>4, MapKeeps, Fails

(* A client calls, and takes its answer.                                   *)
LEMMA CallStep ==
    ASSUME AtomicPuts, StoreInv, NEW p \in Proc, Call(p)
    PROVE  Promise!Call(p)
<1>0. TypeOK /\ Readers /\ pc[p] = "idle" /\ pc'[p] = "start"
  BY DEF StoreInv, WholeInv, TempInv, TypeInv, Call, Goto, TypeOK
<1>1. Map' = Map
  BY MapKeeps DEF Step, Call
<1>2. Seen' = Seen
  BY <1>0, OneAnswers DEF Step, Answered, Seen
<1>3. req[p] = NoReq /\ \E r \in Calls : req' = [req EXCEPT ![p] = r]
  BY <1>0 DEF Readers, Call
<1> QED BY <1>1, <1>2, <1>3 DEF Promise!Call, Map, Seen

LEMMA ReturnStep ==
    ASSUME AtomicPuts, StoreInv, NEW p \in Proc, Return(p)
    PROVE  Promise!Return(p)
<1>0. TypeOK /\ Readers /\ pc[p] = "done" /\ pc'[p] = "idle"
  BY DEF StoreInv, WholeInv, TempInv, TypeInv, Return, Goto, TypeOK
<1>1. Map' = Map
  BY MapKeeps DEF Step, Return
<1>2. Seen' = [Seen EXCEPT ![p] = NoAns]
  BY <1>0, OneAnswers DEF Step, Answered
<1>3. Seen[p] # NoAns
  <2>1. CASE req[p].op = "get" /\ res[p] = "ok"
    <3>1. Seen[p] = [res |-> "ok", val |-> buf[p]] /\ buf[p] \in Val
      BY <1>0, <2>1 DEF Seen, Answered, Readers
    <3> QED BY <3>1, NullAssumption
  <2>2. CASE ~(req[p].op = "get" /\ res[p] = "ok")
    <3>1. Seen[p] = [res |-> res[p]]
      BY <1>0, <2>2 DEF Seen, Answered
    <3>2. res[p] \in {"ok", "notfound", "error", "file", "dir", "true", "false"}
      BY <1>0 DEF TypeOK, Readers
    <3> QED BY <3>1, <3>2, NullAssumption
  <2> QED BY <2>1, <2>2
<1> QED BY <1>1, <1>2, <1>3 DEF Promise!Return, Map, Seen, Return

(* Get opens a file, or does not find it.                                  *)
LEMMA GetStep ==
    ASSUME AtomicPuts, StoreInv, NEW p \in Proc, Get(p)
    PROVE  Promise!Get(p) \/ Promise!Fail(p)
<1> DEFINE k == req[p].key
<1>0. /\ TypeOK /\ WholeInv /\ pc[p] = "start" /\ req[p].op = "get"
      /\ UNCHANGED <<tree, data, req>>
  BY DEF StoreInv, WholeInv, TempInv, TypeInv, Get, Doing, Open
<1>1. k \in Key /\ req[p] # NoReq /\ Answered(p) = NoAns
  BY <1>0, CallShape, Unanswered, NullAssumption DEF TypeOK
<1>2. Map' = Map /\ Seen' = [Seen EXCEPT ![p] = Answered(p)']
  BY <1>0, MapKeeps, OneAnswers DEF Step
<1> HIDE DEF k
<1>3. CASE Answer(p, "error")
  BY <1>0, <1>1, <1>2, <1>3, Answering, Fails
<1>4. CASE Answer(p, "notfound") /\ tree[k] = Absent
  <2>1. Answered(p)' = [res |-> "notfound"] /\ Map[k] = NoFile
    BY <1>0, <1>1, <1>4, Answering, NullAssumption DEF Map, IsFile
  <2> QED BY <1>0, <1>1, <1>2, <2>1
          DEF Promise!Get, Promise!Pending, Promise!Answers, Map, Seen, k
<1>5. CASE in' = [in EXCEPT ![p] = tree[k]] /\ Goto(p, "read") /\ tree[k] # Absent
  <2>1. pc'[p] = "read" /\ in'[p] = tree[k] /\ tree[k] \in Inode \cup {Dir}
    BY <1>0, <1>1, <1>5 DEF TypeOK, Goto, Path
  <2>2. CASE tree[k] = Dir
    <3>1. Answered(p)' = [res |-> "error"]
      BY <2>1, <2>2 DEF Answered
    <3> QED BY <1>0, <1>1, <1>2, <3>1, Fails
  <2>3. CASE tree[k] \in Inode
    <3>1. Answered(p)' = [res |-> "ok", val |-> data[tree[k]]]
      BY <1>0, <2>1, <2>3, NullAssumption DEF Answered
    <3>2. Map[k] = data[tree[k]] /\ Map[k] # NoFile
      BY <1>0, <1>1, <2>3, ValAssumption DEF Map, IsFile, WholeInv, WholeFiles
    <3> QED BY <1>0, <1>1, <1>2, <3>1, <3>2
            DEF Promise!Get, Promise!Pending, Promise!Answers, Map, Seen, k
  <2> QED BY <2>1, <2>2, <2>3
<1> QED BY <1>3, <1>4, <1>5 DEF Get, Open, k

(* The rename gives the key the whole payload; the temporary name goes.    *)
LEMMA RenameStep ==
    ASSUME AtomicPuts, StoreInv, TypeOK', NEW p \in Proc, Rename(p)
    PROVE  Promise!Put(p)
<1> DEFINE k == Target(p)
<1>0. /\ TypeOK /\ Handles /\ WholeInv /\ TempInv
      /\ pc[p] = "write" /\ UsesTemp(p) /\ req[p].op = "put" /\ k = req[p].key
      /\ Answer(p, "ok") /\ UNCHANGED req
  BY DEF StoreInv, WholeInv, TempInv, TypeInv, Rename, Copied, Close, UsesTemp, Target
<1>1. /\ k \in Key /\ req[p] # NoReq /\ Answered(p) = NoAns
      /\ tmp[p] \in Temp /\ tmp[p] # NoFile /\ out[p] \in Inode
      /\ req[p].val \in Val /\ req[p].val \in Content
  BY <1>0, CallShape, Unanswered, WritersPut, NullAssumption DEF TypeOK
<1>2. data[out[p]] = req[p].val
  <2>1. buf[p] \in Content /\ Len(buf[p]) >= Len(req[p].val)
    BY <1>0 DEF Rename, Copied, Feed, TypeOK
  <2>2. data[out[p]] = buf[p] /\ Part(buf[p], req[p].val)
    BY <1>0 DEF WholeInv, Progress
  <2> QED BY <1>1, <2>1, <2>2, PartIsWhole
<1>3. tree[tmp[p]] = out[p]
  BY <1>1 DEF StoreInv, WholeInv, TempInv, TempsArePrivate
<1> HIDE DEF k
<1>4. /\ tree'[k] = out[p]
      /\ \A l \in Key \ {k} : tree'[l] = tree[l]
  <2> DEFINE t == tmp[p]
  <2>1. tree' = [tree EXCEPT ![k] = out[p], ![t] = Absent]
    BY <1>3 DEF Rename, k
  <2>2. k \in Path /\ t \in Temp
    BY <1>1 DEF Path
  <2> HIDE DEF t
  <2> QED BY ZenonT(60), <1>0, <1>1, <2>1, <2>2, TreeAssumption DEF TypeOK, Path
<1>5. data'[out[p]] = data[out[p]]
  <2>1. out[p] \in InUse'
    BY <1>1, <1>4 DEF InUse, Path
  <2> QED BY ZenonT(60), <1>0, <1>1, <2>1, StoreKeeps DEF Rename, Close, TypeOK
<1>6. Map' = [Map EXCEPT ![k] = req[p].val]
  <2>1. \A l \in Key \ {k} : Map'[l] = Map[l]
    BY <1>4, KeyKeeps DEF Step
  <2>2. Map'[k] = req[p].val
    BY <1>1, <1>2, <1>4, <1>5 DEF Map, IsFile
  <2>3. Map' = [l \in Key |-> Map'[l]] /\ Map = [l \in Key |-> Map[l]]
    BY DEF Map
  <2> QED BY <2>1, <2>2, <2>3
<1>7. Seen' = [Seen EXCEPT ![p] = [res |-> "ok"]]
  BY <1>0, Answering, OneAnswers DEF Step
<1> QED BY <1>0, <1>1, <1>6, <1>7
        DEF Promise!Put, Promise!Pending, Promise!Answers, Map, Seen

LEMMA DeleteStep ==
    ASSUME AtomicPuts, StoreInv, TypeOK', NEW p \in Proc, Delete(p)
    PROVE  Promise!Delete(p) \/ Promise!Fail(p)
<1> DEFINE k == req[p].key
<1>0. /\ TypeOK /\ pc[p] = "start" /\ req[p].op = "delete" /\ UNCHANGED req
  BY DEF StoreInv, WholeInv, TempInv, TypeInv, Delete, Doing
<1>1. k \in Key /\ req[p] # NoReq /\ Answered(p) = NoAns
  BY <1>0, CallShape, Unanswered, NullAssumption DEF TypeOK
<1> HIDE DEF k
<1>2. CASE Answer(p, "error") /\ UNCHANGED tree
  <2>1. Map' = Map
    BY <1>2, MapKeeps DEF Step
  <2>2. Seen' = [Seen EXCEPT ![p] = [res |-> "error"]]
    BY <1>0, <1>2, Answering, OneAnswers DEF Step
  <2> QED BY <1>0, <1>1, <2>1, <2>2, Fails
<1>3. CASE Answer(p, "notfound") /\ UNCHANGED tree /\ tree[k] = Absent
  <2>1. Map' = Map
    BY <1>3, MapKeeps DEF Step
  <2>2. Map[k] = NoFile
    BY <1>1, <1>3, NullAssumption DEF Map, IsFile
  <2>3. Map' = [Map EXCEPT ![k] = NoFile]
    BY <1>1, <2>1, <2>2 DEF Map
  <2>4. Seen' = [Seen EXCEPT ![p] = [res |-> "notfound"]]
    BY <1>0, <1>3, Answering, OneAnswers DEF Step
  <2> QED BY <1>0, <1>1, <2>2, <2>3, <2>4
          DEF Promise!Delete, Promise!Pending, Promise!Answers, Map, Seen, k
<1>4. CASE Answer(p, "ok") /\ tree' = [tree EXCEPT ![k] = Absent]
  <2>1. tree'[k] = Absent /\ \A l \in Key \ {k} : tree'[l] = tree[l]
    BY <1>0, <1>1, <1>4 DEF TypeOK, Path
  <2>2. \A l \in Key \ {k} : Map'[l] = Map[l]
    BY <2>1, KeyKeeps DEF Step
  <2>3. Map'[k] = NoFile
    BY <1>1, <2>1, NullAssumption DEF Map, IsFile
  <2>4. Map' = [Map EXCEPT ![k] = NoFile]
    <3>1. Map' = [l \in Key |-> Map'[l]] /\ Map = [l \in Key |-> Map[l]]
      BY DEF Map
    <3> QED BY <2>2, <2>3, <3>1
  <2>5. Seen' = [Seen EXCEPT ![p] = [res |-> "ok"]]
    BY <1>0, <1>4, Answering, OneAnswers DEF Step
  <2> QED BY <1>0, <1>1, <2>4, <2>5
          DEF Promise!Delete, Promise!Pending, Promise!Answers, Map, Seen, k
<1> QED BY <1>2, <1>3, <1>4 DEF Delete, k

(* Stat and Exists look at the tree once.                                  *)
LEMMA LookSteps ==
    ASSUME AtomicPuts, StoreInv, TypeOK', NEW p \in Proc, Stat(p) \/ Exists(p)
    PROVE  Promise!Stat(p) \/ Promise!Exists(p) \/ Promise!Fail(p)
<1> DEFINE k == req[p].key
<1>0. /\ TypeOK /\ WholeInv /\ pc[p] = "start" /\ UNCHANGED <<tree, req>>
      /\ req[p].op = IF Stat(p) THEN "stat" ELSE "exists"
  BY DEF StoreInv, WholeInv, TempInv, TypeInv, Stat, Exists, Doing
<1>1. k \in Key /\ req[p] # NoReq /\ Answered(p) = NoAns
  BY <1>0, CallShape, Unanswered, NullAssumption DEF TypeOK
<1>2. Map' = Map
  BY <1>0, MapKeeps DEF Step
<1>3. ASSUME NEW r, Answer(p, r) PROVE Seen' = [Seen EXCEPT ![p] = [res |-> r]]
  BY <1>0, <1>3, Answering, OneAnswers DEF Step
<1>4. IsFile(k) <=> Map[k] # NoFile
  BY <1>0, <1>1, ValAssumption DEF Map, IsFile, WholeInv, WholeFiles
<1>5. CASE Answer(p, "error")
  BY <1>0, <1>1, <1>2, <1>3, <1>5, Fails
<1>6. CASE Stat(p) /\ ~Answer(p, "error")
  <2>1. PICK r : /\ Answer(p, r)
                 /\ \/ r = "file" /\ IsFile(k)
                    \/ r \in {"dir", "notfound"} /\ ~IsFile(k)
    BY <1>6, NullAssumption DEF Stat, IsFile
  <2>2. Seen' = [Seen EXCEPT ![p] = [res |-> r]]
    BY <1>3, <2>1
  <2> QED BY <1>0, <1>1, <1>2, <1>4, <1>6, <2>1, <2>2
          DEF Promise!Stat, Promise!Pending, Promise!Answers, Map, Seen
<1>7. CASE Exists(p) /\ ~Stat(p) /\ ~Answer(p, "error")
  <2>1. PICK r : Answer(p, r) /\ (r = "true" \/ (r = "false" /\ ~IsFile(k)))
    BY <1>7, NullAssumption DEF Exists, IsFile
  <2>2. Seen' = [Seen EXCEPT ![p] = [res |-> r]]
    BY <1>3, <2>1
  <2> QED BY <1>0, <1>1, <1>2, <1>4, <1>7, <2>1, <2>2
          DEF Promise!Exists, Promise!Pending, Promise!Answers, Map, Seen
<1> QED BY <1>5, <1>6, <1>7

(* A crash takes the calls, and no file that has a key.                    *)
LEMMA CrashStep ==
    ASSUME StoreInv, Crash
    PROVE  Promise!Crash
<1>0. TypeOK
  BY DEF StoreInv, WholeInv, TempInv, TypeInv
<1>1. \A k \in Key : tree'[k] = tree[k] \/ (~IsFile(k) /\ ~IsFile(k)')
  BY ZenonT(60), <1>0, TreeAssumption, NullAssumption DEF Crash, NewLocalFS, IsFile, TypeOK, Path
<1>2. \A i \in InUse' \cap Inode : data'[i] = data[i]
  BY <1>0, StoreKeeps DEF Crash, TypeOK
<1>3. ASSUME NEW k \in Key PROVE Map'[k] = Map[k]
  <2>1. tree'[k] \in Inode => tree'[k] \in InUse'
    BY DEF InUse, Path
  <2> QED BY <1>1, <1>2, <2>1 DEF Map, IsFile
<1>4. Map' = Map
  BY <1>3 DEF Map
<1>5. Seen' = [p \in Proc |-> NoAns] /\ req' = [p \in Proc |-> NoReq]
  BY DEF Crash, Seen, Answered
<1> QED BY <1>4, <1>5 DEF Promise!Crash, Map, Seen

LEMMA EveryStep ==
    ASSUME AtomicPuts, StoreInv, StoreInv', [Next]_vars
    PROVE  [Promise!Next]_Promise!vars
<1>0. TypeOK /\ TypeOK' /\ Handles /\ TempInv
  BY DEF StoreInv, WholeInv, TempInv, TypeInv
<1>1. CASE UNCHANGED vars
  BY <1>1 DEF vars, Promise!vars, Answered, IsFile
<1>2. CASE Crash
  BY <1>2, CrashStep DEF Promise!Next
<1>3. ASSUME NEW p \in Proc, Step(p) PROVE [Promise!Next]_Promise!vars
  <2>1. CASE Call(p) \/ Return(p) \/ Get(p)
    BY <2>1, CallStep, ReturnStep, GetStep DEF Promise!Next
  <2>2. CASE \/ ReadChunk(p) \/ ReadEOF(p) \/ ReadDir(p) \/ MkdirAll(p)
             \/ CreateTemp(p) \/ CopyChunk(p)
    BY <1>0, <1>3, <2>2, QuietSteps DEF Promise!vars, Map, Seen
  <2>3. CASE Refuse(p) \/ MkdirAllFails(p) \/ CreateFails(p) \/ PutAtomicFails(p)
    BY <1>0, <1>3, <2>3, FailedSteps DEF Promise!Next
  <2>4. CASE Rename(p) \/ Delete(p) \/ Stat(p) \/ Exists(p)
    BY <1>0, <2>4, RenameStep, DeleteStep, LookSteps DEF Promise!Next
  <2>5. CASE Create(p) \/ CopyEOF(p) \/ CopyFails(p) \/ Copy(p)
    <3>1. pc[p] \in {"create", "write"} => UsesTemp(p)
      BY <1>0, WritersPut
    <3>2. pc[p] = "start" => req[p].op # "copy"
      BY <1>0 DEF TypeOK, AtomicPuts
    <3> QED BY <2>5, <3>1, <3>2 DEF Create, CopyEOF, Copied, CopyFails, Copy, Doing
  <2> QED BY <1>3, <2>1, <2>2, <2>3, <2>4, <2>5 DEF Step
<1> QED BY <1>1, <1>2, <1>3 DEF Next

(* With WithAtomicWrite, and no Copy, a LocalFS is the atomic store that   *)
(* its interface promises (fs.go:20-69, localfs.go:33-35), for any number  *)
(* of clients and any tree: the steps of a call that take effect at one    *)
(* instant are Rename, os.Open, os.Remove and os.Stat.                     *)
THEOREM ImplementsFileStore ==
    ASSUME AtomicPuts
    PROVE  Spec => ActsAtomically
<1>1. Init => StoreInv
  BY StoreInvInductive
<1>2. StoreInv /\ [Next]_vars => StoreInv'
  BY StoreInvInductive
<1>3. Init => Promise!Init
  <2> SUFFICES ASSUME Init PROVE Promise!Init
    OBVIOUS
  <2>1. \A k \in Key : ~IsFile(k)
    BY NullAssumption DEF Init, NewLocalFS, IsFile, Path
  <2>2. \A p \in Proc : Answered(p) = NoAns
    BY DEF Init, Answered
  <2> QED BY <2>1, <2>2 DEF Promise!Init, Init
<1>4. StoreInv /\ StoreInv' /\ [Next]_vars => [Promise!Next]_Promise!vars
  BY EveryStep
<1> QED BY <1>1, <1>2, <1>3, <1>4, PTL DEF Spec, ActsAtomically, Promise!Spec
=============================================================================
