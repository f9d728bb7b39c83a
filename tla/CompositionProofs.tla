-------------------------- MODULE CompositionProofs --------------------------
(***************************************************************************)
(* Proofs about Composition, for any composition of bases, hooks and mount *)
(* tables, any number of clients and any calls: the locks of the tables,   *)
(* what is unmounted, and what the middlewares of a base make of the       *)
(* payloads that are put through them.                                     *)
(***************************************************************************)
EXTENDS Composition, TLAPS, SequenceTheorems

----------------------------------------------------------------------------
(* Locks.  To be at a lock's door is to be at the door of one table only;  *)
(* a reader either holds the lock or waits in its queue.                   *)

Where == {"idle", "next", "call", "rlock", "lock", "return"}

LockTypeOK == /\ pc \in [Proc -> Where]
              /\ DOMAIN cur = Proc
              /\ lock \in LockType

OnceEach == \A t \in Table : lock[t].readers \cap lock[t].queue = {}

LockInv == LockTypeOK /\ OnceEach /\ NeverLockedAcrossACall

(* A step of p moves p alone.                                              *)
Moves(p) == /\ pc' = pc \/ \E s \in Where : pc' = [pc EXCEPT ![p] = s]
            /\ cur' = cur \/ \E c : cur' = [cur EXCEPT ![p] = c]

LEMMA MovesAlone ==
    ASSUME LockTypeOK, NEW p \in Proc, Moves(p)
    PROVE  /\ \A q \in Proc \ {p} : pc'[q] = pc[q] /\ cur'[q] = cur[q]
           /\ pc' \in [Proc -> Where] /\ DOMAIN cur' = Proc
BY DEF LockTypeOK, Moves

(* The steps of p that have nothing to do with a lock.                     *)
Unlocked(p) == UNCHANGED lock /\ Moves(p) /\ pc[p] \notin {"rlock", "lock"}

LEMMA UnlockedStep ==
    ASSUME LockInv, NEW p \in Proc, Unlocked(p)
    PROVE  LockInv'
<1>1. LockTypeOK' /\ OnceEach'
  BY MovesAlone DEF LockInv, Unlocked, LockTypeOK, OnceEach
<1>2. NeverLockedAcrossACall'
  <2> SUFFICES ASSUME NEW q \in Proc, NEW t \in Table
               PROVE  /\ Reading(q, t) \/ q \in lock[t].queue => pc'[q] = "rlock" /\ cur'[q].fs = t
                      /\ lock[t].writer = q => pc'[q] = "lock" /\ cur'[q].fs = t
    BY DEF NeverLockedAcrossACall, Unlocked, Reading
  <2>1. q # p => pc'[q] = pc[q] /\ cur'[q] = cur[q]
    BY MovesAlone DEF LockInv, Unlocked
  <2> QED BY <2>1 DEF LockInv, NeverLockedAcrossACall, Unlocked
<1> QED BY <1>1, <1>2 DEF LockInv

(* A call returns from a base.                                             *)
BaseReturns(p) == \/ Get(p) \/ Put(p) \/ Delete(p) \/ DeleteObjects(p)
                  \/ CopyObject(p) \/ CopyFills(p) \/ Fail(p) \/ Lost(p)

LEMMA BaseReturning ==
    ASSUME NEW p \in Proc, BaseReturns(p)
    PROVE  /\ pc[p] = "call" /\ cur[p].fs \in Base
           /\ cur[p].op \in {"get", "put", "delete", "copy", "create", "fill", "batch"}
           /\ pc' = [pc EXCEPT ![p] = "return"] /\ cur' = cur /\ stack' = stack
           /\ \E r, d : ans' = [ans EXCEPT ![p] = [res |-> r, data |-> d]]
           /\ events' = events \/ \E x : events' = [events EXCEPT ![p] = x]
<1> USE DEF Calling, At, Goto, Answer, Happens, Local
<1>1. CASE Get(p) \/ Put(p) \/ Delete(p)
  BY <1>1 DEF Get, Put, Delete
<1>2. CASE DeleteObjects(p)
  BY <1>2 DEF DeleteObjects
<1>3. CASE CopyObject(p) \/ CopyFills(p)
  BY <1>3, InterfaceAssumption DEF CopyObject, CopyFills
<1>4. CASE Fail(p) \/ Lost(p)
  BY <1>4, InterfaceAssumption DEF Fail, Lost
<1> QED BY <1>1, <1>2, <1>3, <1>4 DEF BaseReturns

(* The Copy of a LocalFS begins: it does not find its source, or goes on,  *)
(* as another call.                                                        *)
LEMMA CopyBeginning ==
    ASSUME NEW p \in Proc, CopyOpens(p) \/ CopyCreates(p)
    PROVE  /\ pc[p] = "call" /\ cur[p].fs \in Base \ BatchDeleters
           /\ cur[p].op \in {"copy", "create"}
           /\ events' = events
           /\ \/ /\ pc' = [pc EXCEPT ![p] = "return"] /\ cur' = cur /\ stack' = stack
                 /\ ans' = [ans EXCEPT ![p] = [res |-> "notfound", data |-> <<>>]]
                 /\ CopyOpens(p) /\ Held(p) = NoFile
              \/ /\ pc' = [pc EXCEPT ![p] = "call"] \/ pc' = pc
                 /\ \/ /\ CopyOpens(p) /\ Held(p) # NoFile
                       /\ Become(p, [op |-> "create", fs |-> cur[p].fs, key |-> cur[p].key,
                                     dst |-> cur[p].dst, data |-> Held(p)], <<>>)
                    \/ CopyCreates(p) /\ Become(p, [cur[p] EXCEPT !.op = "fill"], <<>>)
BY DEF CopyOpens, CopyCreates, Calling, At, Goto, Answer, Local

LEMMA UnlockedActions ==
    ASSUME LockTypeOK, NEW p \in Proc,
           \/ Call(p) \/ Finish(p)
           \/ (CallStep(p) \/ HookStep(p)) /\ UNCHANGED lock
           \/ Refuse(p)
    PROVE  Unlocked(p)
<1> USE DEF Unlocked, Moves, Where, At, Goto
<1>1. CASE Call(p)
  BY <1>1 DEF Call, Submit
<1>2. CASE Finish(p)
  BY <1>2 DEF Finish, Return, Over
<1>3. CASE Refuse(p)
  BY <1>3 DEF Refuse, Calling, Answer
<1>4. CASE HookStep(p) /\ UNCHANGED lock
  BY <1>4 DEF HookStep, Forward, HookReturns, Become
<1>5. CASE (Begin(p) \/ Cancelled(p)) /\ UNCHANGED lock
  BY <1>5 DEF Begin, Cancelled
<1>6. CASE BaseReturns(p) /\ UNCHANGED lock
  BY <1>6, BaseReturning
<1>10. CASE (CopyOpens(p) \/ CopyCreates(p)) /\ UNCHANGED lock
  BY <1>10, CopyBeginning DEF Become
<1>7. CASE Copy(p) /\ UNCHANGED lock
  BY SMTT(60), <1>7 DEF Copy, CopyTo, Become
<1>8. CASE (BatchDelete(p) \/ Unpack(p)) /\ UNCHANGED lock
  BY Zenon, <1>8 DEF BatchDelete, Unpack, Loop, Become, Answer
<1>9. CASE (PutCopy(p) \/ LoopOn(p)) /\ UNCHANGED lock
  BY <1>9 DEF PutCopy, LoopOn
<1> QED BY <1>1, <1>2, <1>3, <1>4, <1>5, <1>6, <1>7, <1>8, <1>9, <1>10 DEF CallStep, BaseReturns

(* The lock of one table changes, for one client at the head of it.        *)
LEMMA ResolveLocks ==
    ASSUME LockInv, NEW p \in Proc, Resolve(p)
    PROVE  LockInv'
<1> DEFINE t == cur[p].fs
<1>1. /\ t \in Table /\ pc[p] = "call" /\ pc' = [pc EXCEPT ![p] = "rlock"]
      /\ cur' = cur /\ RLock(p, t)
  BY DEF Resolve, Calling, At, Goto
<1>2. LockTypeOK /\ OnceEach /\ NeverLockedAcrossACall
  BY DEF LockInv
<1> HIDE DEF t
<1>3. p \notin lock[t].readers \cup lock[t].queue
  BY <1>1, <1>2 DEF NeverLockedAcrossACall, Reading
<1>4. /\ \A u \in Table \ {t} : lock'[u] = lock[u]
      /\ lock'[t].writer = lock[t].writer
      /\ \/ /\ lock'[t].readers = lock[t].readers \cup {p}
            /\ lock'[t].queue = lock[t].queue
         \/ /\ lock'[t].readers = lock[t].readers
            /\ lock'[t].queue = lock[t].queue \cup {p}
  BY <1>1, <1>2 DEF RLock, LockTypeOK, LockType
<1>a. lock' \in LockType
  BY <1>1, <1>2 DEF RLock, LockTypeOK, LockType
<1>5. LockTypeOK'
  BY <1>1, <1>2, <1>a DEF LockTypeOK, Where
<1>6. OnceEach'
  BY <1>2, <1>3, <1>4 DEF OnceEach
<1>7. NeverLockedAcrossACall'
  <2>1. /\ pc'[p] = "rlock" /\ cur'[p].fs = t
        /\ \A q \in Proc \ {p} : pc'[q] = pc[q]
    BY <1>1, <1>2 DEF LockTypeOK, t
  <2>2. \A u \in Table : lock[u].writer # p
    BY <1>1, <1>2 DEF NeverLockedAcrossACall
  <2> QED BY <1>1, <1>2, <1>4, <2>1, <2>2 DEF NeverLockedAcrossACall, Reading
<1> QED BY <1>5, <1>6, <1>7 DEF LockInv

LEMMA LookupUnlocks ==
    ASSUME LockInv, NEW p \in Proc, Lookup(p)
    PROVE  LockInv'
<1> DEFINE t == cur[p].fs
<1>1. /\ pc[p] = "rlock" /\ Reading(p, t) /\ RUnlock(p, t)
      /\ PassOn(p, mounts[t][Head(cur[p].key)])
  BY SMTT(60) DEF Lookup, At
<1>2. LockTypeOK /\ OnceEach /\ NeverLockedAcrossACall
  BY DEF LockInv
<1>a. Moves(p)
  BY <1>1 DEF PassOn, Answer, AskForDst, CopyFound, CopyTo, Become, Goto, Moves, Where
<1>3. /\ \A q \in Proc \ {p} : pc'[q] = pc[q] /\ cur'[q] = cur[q]
      /\ pc' \in [Proc -> Where] /\ DOMAIN cur' = Proc
  BY <1>2, <1>a, MovesAlone
<1> HIDE DEF t
<1>4. /\ lock' \in LockType
      /\ \A u \in Table :
            /\ lock'[u].writer = lock[u].writer /\ lock'[u].queue = lock[u].queue
            /\ lock'[u].readers = IF u = t THEN lock[u].readers \ {p} ELSE lock[u].readers
  BY ZenonT(60), <1>1, <1>2 DEF RUnlock, LockTypeOK, LockType
<1>5. \A u \in Table : p \notin lock'[u].readers \cup lock'[u].queue /\ lock'[u].writer # p
  <2> SUFFICES ASSUME NEW u \in Table
               PROVE  p \notin lock'[u].readers \cup lock'[u].queue /\ lock'[u].writer # p
    OBVIOUS
  <2>1. lock[u].writer # p
    BY <1>1, <1>2 DEF NeverLockedAcrossACall
  <2>2. CASE u = t
    BY <1>1, <1>2, <1>4, <2>1, <2>2 DEF OnceEach, Reading
  <2>3. CASE u # t
    BY <1>2, <1>4, <2>1, <2>3 DEF NeverLockedAcrossACall, Reading, t
  <2> QED BY <2>2, <2>3
<1>6. LockTypeOK' /\ OnceEach'
  BY <1>2, <1>3, <1>4 DEF LockTypeOK, OnceEach
<1>7. NeverLockedAcrossACall'
  <2> SUFFICES ASSUME NEW q \in Proc, NEW u \in Table
               PROVE  /\ q \in lock'[u].readers \/ q \in lock'[u].queue => pc'[q] = "rlock" /\ cur'[q].fs = u
                      /\ lock'[u].writer = q => pc'[q] = "lock" /\ cur'[q].fs = u
    BY DEF NeverLockedAcrossACall, Reading
  <2>1. CASE q = p
    BY <1>5, <2>1
  <2>2. CASE q # p
    <3>1. /\ lock'[u].readers \subseteq lock[u].readers
          /\ lock'[u].queue = lock[u].queue /\ lock'[u].writer = lock[u].writer
      BY <1>4
    <3> QED BY <1>2, <1>3, <2>2, <3>1 DEF NeverLockedAcrossACall, Reading
  <2> QED BY <2>1, <2>2
<1> QED BY <1>6, <1>7 DEF LockInv

LEMMA LockTableLocks ==
    ASSUME LockInv, NEW p \in Proc, LockTable(p)
    PROVE  LockInv'
<1> DEFINE t == cur[p].fs
<1>1. /\ t \in Table /\ pc[p] = "call" /\ pc' = [pc EXCEPT ![p] = "lock"]
      /\ cur' = cur /\ Lock(p, t)
  BY DEF LockTable, Calling, At, Goto
<1>2. LockTypeOK /\ OnceEach /\ NeverLockedAcrossACall
  BY DEF LockInv
<1> HIDE DEF t
<1>3. /\ lock' \in LockType
      /\ \A u \in Table :
            /\ lock'[u].readers = lock[u].readers /\ lock'[u].queue = lock[u].queue
            /\ lock'[u].writer = IF u = t THEN p ELSE lock[u].writer
  BY <1>1, <1>2 DEF Lock, LockTypeOK, LockType
<1>4. LockTypeOK' /\ OnceEach'
  BY <1>1, <1>2, <1>3 DEF LockTypeOK, OnceEach, Where
<1>5. NeverLockedAcrossACall'
  <2>1. /\ pc'[p] = "lock" /\ cur'[p].fs = t
        /\ \A q \in Proc \ {p} : pc'[q] = pc[q]
    BY <1>1, <1>2 DEF LockTypeOK, t
  <2>2. \A u \in Table : p \notin lock[u].readers \cup lock[u].queue /\ lock[u].writer # p
    BY <1>1, <1>2 DEF NeverLockedAcrossACall, Reading
  <2> QED BY <1>1, <1>2, <1>3, <2>1, <2>2 DEF NeverLockedAcrossACall, Reading
<1> QED BY <1>4, <1>5 DEF LockInv

(* Mount and Unmount let the readers in that came while they waited.       *)
LEMMA ChangeUnlocks ==
    ASSUME LockInv, NEW p \in Proc, Mount(p) \/ Unmount(p)
    PROVE  LockInv'
<1> DEFINE t == cur[p].fs
<1>1. /\ pc[p] = "lock" /\ Writing(p, t) /\ Unlock(p, t)
      /\ pc' = [pc EXCEPT ![p] = "return"] /\ cur' = cur
  BY DEF Mount, Unmount, Answer, At, Goto
<1>2. LockTypeOK /\ OnceEach /\ NeverLockedAcrossACall
  BY DEF LockInv
<1> HIDE DEF t
<1>3. /\ lock' \in LockType
      /\ \A u \in Table \ {t} : lock'[u] = lock[u]
      /\ t \in Table => lock'[t] = [readers |-> lock[t].queue, queue |-> {}, writer |-> NoProc]
  BY <1>1, <1>2 DEF Unlock, LockTypeOK, LockType
<1>4. LockTypeOK' /\ OnceEach'
  BY <1>1, <1>2, <1>3 DEF LockTypeOK, OnceEach, Where
<1>5. NeverLockedAcrossACall'
  <2> SUFFICES ASSUME NEW q \in Proc, NEW u \in Table
               PROVE  /\ q \in lock'[u].readers \/ q \in lock'[u].queue => pc'[q] = "rlock" /\ cur'[q].fs = u
                      /\ lock'[u].writer = q => pc'[q] = "lock" /\ cur'[q].fs = u
    BY DEF NeverLockedAcrossACall, Reading
  <2>1. \A r \in Proc \ {p} : pc'[r] = pc[r]
    BY <1>1, <1>2 DEF LockTypeOK
  <2>2. CASE u = t
    BY <1>1, <1>2, <1>3, <2>1, <2>2, MountAssumption DEF NeverLockedAcrossACall
  <2>3. CASE u # t
    <3>1. p \notin lock[u].readers \cup lock[u].queue /\ lock[u].writer # p
      BY <1>1, <1>2, <2>3 DEF NeverLockedAcrossACall, Reading, t
    <3> QED BY <1>1, <1>2, <1>3, <2>1, <2>3, <3>1 DEF NeverLockedAcrossACall, Reading
  <2> QED BY <2>2, <2>3
<1> QED BY <1>4, <1>5 DEF LockInv

LEMMA LockInvInductive ==
    /\ Init => LockInv
    /\ LockInv /\ [Next]_vars => LockInv'
<1>1. ASSUME Init PROVE LockInv
  <2>1. LockTypeOK
    BY <1>1 DEF Init, CallsInit, MountInit, LockInit, LockTypeOK, LockType, Where
  <2>2. \A t \in Table : lock[t] = [readers |-> {}, queue |-> {}, writer |-> NoProc]
    BY <1>1 DEF Init, MountInit, LockInit
  <2> QED BY <2>1, <2>2, MountAssumption DEF LockInv, OnceEach, NeverLockedAcrossACall, Reading
<1>2. ASSUME LockInv, UNCHANGED vars PROVE LockInv'
  BY <1>2 DEF LockInv, LockTypeOK, OnceEach, NeverLockedAcrossACall, Reading, vars, mountvars, callvars
<1>3. ASSUME LockInv, NEW p \in Proc, Call(p) \/ Proceed(p) \/ Finish(p) PROVE LockInv'
  <2>1. CASE \/ Call(p) \/ Finish(p) \/ Refuse(p)
             \/ (CallStep(p) \/ HookStep(p)) /\ UNCHANGED lock
    BY <1>3, <2>1, UnlockedActions, UnlockedStep DEF LockInv
  <2>2. CASE Resolve(p) \/ Lookup(p) \/ LockTable(p) \/ Mount(p) \/ Unmount(p)
    BY <1>3, <2>2, ResolveLocks, LookupUnlocks, LockTableLocks, ChangeUnlocks
  <2> QED BY <1>3, <2>1, <2>2 DEF Proceed, MountStep
<1> QED BY <1>1, <1>2, <1>3 DEF Next

(* No goroutine holds the lock of a table, or waits in its queue, while it *)
(* does anything but look into that table or change it (mount.go:36-67).   *)
THEOREM NoLockAcrossACall == Spec => []NeverLockedAcrossACall
<1>1. Spec => []LockInv
  BY LockInvInductive, PTL DEF Spec
<1>2. LockInv => NeverLockedAcrossACall
  BY DEF LockInv
<1> QED BY <1>1, <1>2, PTL

----------------------------------------------------------------------------
(* Unmounting.  What is unmounted cannot be reached, for a call that finds *)
(* nothing mounted is still the call its client made, and an entry is only *)
(* changed by a client that asked for it.                                  *)

(* The calls that are made of others or change a table.  No other call     *)
(* turns into one of them.                                                 *)
Whole == {"mount", "unmount", "batchdelete", "unpack"}

Small(c) == "op" \in DOMAIN c /\ c.op \notin Whole

(* What clients ask for.                                                   *)
LEMMA ClientCalls ==
    ASSUME NEW p \in Proc, NEW r \in Calls[p]
    PROVE  /\ "op" \in DOMAIN r /\ r.op # "idle"
           /\ r.op \in {"mount", "unmount"} => r.fs \in Table /\ r.key \in Name
           /\ r.op = "mount" => r.target \in FS
           /\ r.op = "batchdelete" => r.keys \in Seq(Key)
           /\ r.op = "unpack" => r.files \in Seq([key : Key, data : Payload])
<1>1. r \in ClientCall
  BY ClientAssumption
<1> QED BY <1>1 DEF ClientCall

----------------------------------------------------------------------------
(* Stacks: what a loop has left to do is small.                            *)

FrameOK(f) == f.at = "loop" => \E C : f.todo \in Seq(C) /\ \A c \in C : Small(c)

Stacked(s) == \E S : s \in Seq(S) /\ \A f \in S : FrameOK(f)

LEMMA StackEmpty == Stacked(<<>>)
<1>1. \A S : S = {} => <<>> \in Seq(S) /\ \A f \in S : FrameOK(f)
  BY EmptySeq
<1>2. \E S : S = {}
  OBVIOUS
<1> QED BY <1>1, <1>2, Zenon DEF Stacked

LEMMA StackPush ==
    ASSUME NEW s, Stacked(s), NEW f, FrameOK(f)
    PROVE  Stacked(s \o <<f>>)
<1>1. PICK S : s \in Seq(S) /\ \A g \in S : FrameOK(g)
  BY DEF Stacked
<1> DEFINE R == S \cup {f}
<1>2. s \in Seq(R) /\ <<f>> \in Seq(R)
  BY <1>1, SeqMonotonic, S \subseteq R
<1>3. \A g \in R : FrameOK(g)
  BY <1>1
<1> HIDE DEF R
<1>4. s \o <<f>> \in Seq(R)
  BY <1>2, ConcatProperties
<1> QED BY <1>3, <1>4 DEF Stacked

LEMMA StackSame ==
    ASSUME NEW s, Stacked(s)
    PROVE  s \o <<>> = s
<1>1. PICK S : s \in Seq(S)
  BY DEF Stacked
<1> QED BY <1>1, ConcatEmptySeq

LEMMA StackPop ==
    ASSUME NEW s, Stacked(s), s # <<>>
    PROVE  Stacked(SubSeq(s, 1, Len(s) - 1))
<1>1. PICK S : s \in Seq(S) /\ \A g \in S : FrameOK(g)
  BY DEF Stacked
<1>2. Len(s) \in Nat /\ Len(s) # 0
  BY <1>1, LenProperties, EmptySeq
<1>3. SubSeq(s, 1, Len(s) - 1) \in Seq(S)
  BY <1>1, <1>2, SubSeqProperties
<1> QED BY <1>1, <1>3 DEF Stacked

LEMMA StackTop ==
    ASSUME NEW s, Stacked(s), s # <<>>
    PROVE  FrameOK(s[Len(s)])
<1>1. PICK S : s \in Seq(S) /\ \A g \in S : FrameOK(g)
  BY DEF Stacked
<1>2. Len(s) \in Nat /\ Len(s) # 0
  BY <1>1, LenProperties, EmptySeq
<1> QED BY <1>1, <1>2, ElementOfSeq

(* A loop does the next of its calls.                                      *)
LEMMA StackLoop ==
    ASSUME NEW s, Stacked(s), s # <<>>, s[Len(s)].at = "loop", s[Len(s)].todo # <<>>
    PROVE  /\ Small(Head(s[Len(s)].todo))
           /\ Stacked([s EXCEPT ![Len(s)].todo = Tail(@)])
<1> DEFINE f == s[Len(s)]
           g == [f EXCEPT !.todo = Tail(@)]
<1>1. PICK S : s \in Seq(S) /\ \A h \in S : FrameOK(h)
  BY DEF Stacked
<1>2. Len(s) \in Nat /\ Len(s) # 0 /\ s \in [1..Len(s) -> S]
  BY <1>1, LenProperties, EmptySeq
<1>3. PICK C : f.todo \in Seq(C) /\ \A c \in C : Small(c)
  BY StackTop DEF FrameOK
<1>4. Head(f.todo) \in C /\ Tail(f.todo) \in Seq(C)
  BY <1>3, HeadTailProperties
<1>5. FrameOK(g)
  <2>1. g.todo = Tail(f.todo) \/ g = f
    OBVIOUS
  <2> HIDE DEF g, f
  <2> QED BY <1>3, <1>4, <2>1 DEF FrameOK
<1> DEFINE R == S \cup {g}
           t == [s EXCEPT ![Len(s)] = g]
<1>6. t \in [1..Len(s) -> R]
  BY <1>2
<1>7. \A h \in R : FrameOK(h)
  BY <1>1, <1>5
<1>8. t = [s EXCEPT ![Len(s)].todo = Tail(@)]
  OBVIOUS
<1> HIDE DEF R, t
<1>9. t \in Seq(R)
  BY <1>2, <1>6, SeqDef
<1> QED BY <1>3, <1>4, <1>7, <1>8, <1>9 DEF Stacked

----------------------------------------------------------------------------
(* The invariant.                                                          *)

Domains == /\ LockTypeOK
           /\ DOMAIN stack = Proc /\ DOMAIN ans = Proc /\ DOMAIN events = Proc
           /\ DOMAIN req = Proc /\ DOMAIN gone = Proc
           /\ mounts \in [Table -> [Name -> FS \cup {NoFS}]]

(* The call at hand is small, or it is the one the client made.            *)
Runs(p) ==
    /\ Stacked(stack[p])
    /\ "op" \in DOMAIN cur[p]
    /\ cur[p].op \in Whole => cur[p] = req[p] /\ req[p] \in Calls[p]

(* A reader of a table looks up a key.                                     *)
Asks(p) == pc[p] = "rlock" => cur[p].op \in Routed

(* A client between calls, and one that mounts or unmounts.                *)
Stands(p) ==
    /\ IF pc[p] = "idle" THEN /\ req[p] = Idle /\ stack[p] = <<>>
                              /\ events[p] = <<>> /\ ans[p] = NoAns
                         ELSE req[p] \in Calls[p]
    /\ req[p].op \in {"mount", "unmount"} =>
          cur[p] = req[p] /\ stack[p] = <<>> /\ pc[p] \in {"call", "lock", "return"}

Nothing(e) == mounts[e[1]][e[2]] = NoFS

(* An entry that is absent for certain, or that p may rely on to be.       *)
AbsentOK == \A e \in absent : e \in Entry /\ Nothing(e) /\ e \notin BeingMounted

Leaving(p, e) == e \in Naming(req[p], "unmount") /\ pc[p] \in {"call", "lock"}

GoneOK(p) == \A e \in gone[p] : /\ e \in Entry /\ e \notin BeingMounted
                                /\ Nothing(e) \/ Leaving(p, e)

(* A call of p to an entry that is gone has not got beyond the table.      *)
ToGone(p) == /\ req[p].op \in {"get", "put", "delete"}
             /\ \E e \in gone[p] : req[p].fs = e[1] /\ Head(req[p].key) = e[2]

Stopped(p) == /\ stack[p] = <<>> /\ events[p] = <<>>
           /\ \/ pc[p] \in {"call", "rlock"} /\ cur[p] = req[p] /\ ans[p] = NoAns
              \/ pc[p] = "return" /\ ans[p].res # "ok"

RefusedOK(p) == ToGone(p) => Stopped(p)

UnmountInv == /\ Domains /\ AbsentOK
              /\ \A p \in Proc : Runs(p) /\ Asks(p) /\ Stands(p) /\ GoneOK(p) /\ RefusedOK(p)

----------------------------------------------------------------------------
(* Steps of a call that is under way and changes no table.                 *)
Carries(p) == \/ CallStep(p) /\ UNCHANGED <<mounts, history>>
              \/ HookStep(p) /\ UNCHANGED <<mounts, history>>
              \/ (Resolve(p) \/ Refuse(p) \/ Lookup(p) \/ LockTable(p)) /\ UNCHANGED history

Keeps(p) == /\ \A q \in Proc \ {p} : /\ pc'[q] = pc[q] /\ cur'[q] = cur[q]
                                      /\ stack'[q] = stack[q] /\ ans'[q] = ans[q]
                                      /\ events'[q] = events[q]
            /\ DOMAIN stack' = Proc /\ DOMAIN ans' = Proc /\ DOMAIN events' = Proc

(* p changes its own variables only.                                       *)
LEMMA OwnVariables ==
    ASSUME Domains, NEW p \in Proc,
           pc' = pc \/ \E x \in Where : pc' = [pc EXCEPT ![p] = x],
           cur' = cur \/ \E x : cur' = [cur EXCEPT ![p] = x],
           stack' = stack \/ \E x : stack' = [stack EXCEPT ![p] = x],
           ans' = ans \/ \E x : ans' = [ans EXCEPT ![p] = x],
           events' = events \/ \E x : events' = [events EXCEPT ![p] = x]
    PROVE  Keeps(p)
BY DEF Domains, LockTypeOK, Keeps

LEMMA CarriesKeeps ==
    ASSUME Domains, NEW p \in Proc, Carries(p)
    PROVE  Keeps(p)
<1> USE DEF Where, At, Goto, Answer, Pop, Happens
<1>1. CASE HookReturns(p)
  BY <1>1, OwnVariables DEF HookReturns
<1>2. CASE Forward(p)
  BY <1>2, OwnVariables DEF Forward, Become
<1>3. CASE Begin(p) \/ Cancelled(p)
  BY <1>3, OwnVariables DEF Begin, Cancelled
<1>4. CASE BaseReturns(p)
  BY <1>4, BaseReturning, OwnVariables
<1>5. CASE CopyOpens(p) \/ CopyCreates(p)
  BY <1>5, CopyBeginning, OwnVariables DEF Become
<1>6. CASE Copy(p)
  BY Zenon, <1>6, OwnVariables DEF Copy, CopyTo, Become
<1>7. CASE BatchDelete(p) \/ Unpack(p)
  BY Zenon, <1>7, OwnVariables DEF BatchDelete, Unpack, Loop, Become
<1>8. CASE PutCopy(p) \/ LoopOn(p)
  BY <1>8, OwnVariables DEF PutCopy, LoopOn
<1>9. CASE Resolve(p) \/ Refuse(p) \/ LockTable(p)
  BY <1>9, OwnVariables DEF Resolve, Refuse, LockTable
<1>10. CASE Lookup(p)
  BY <1>10, OwnVariables DEF Lookup, PassOn, AskForDst, CopyFound, CopyTo, Become
<1> QED BY <1>1, <1>2, <1>3, <1>4, <1>5, <1>6, <1>7, <1>8, <1>9, <1>10
        DEF Carries, CallStep, HookStep, BaseReturns

(* A call becomes a small one, with at most one frame to come back to.     *)
LEMMA Becoming ==
    ASSUME Domains, NEW p \in Proc, Runs(p), NEW c, Small(c), NEW frames,
           frames = <<>> \/ \E f : FrameOK(f) /\ frames = <<f>>,
           Become(p, c, frames)
    PROVE  Runs(p)'
<1>1. cur'[p] = c /\ stack'[p] = stack[p] \o frames
  BY DEF Become, Domains, LockTypeOK
<1>2. Stacked(stack[p] \o frames)
  BY StackPush, StackSame DEF Runs
<1> QED BY <1>1, <1>2 DEF Runs, Small

LEMMA Popping ==
    ASSUME Domains, NEW p \in Proc, Runs(p), stack[p] # <<>>, Pop(p),
           (cur'[p] = cur[p] /\ UNCHANGED req) \/ Small(cur'[p])
    PROVE  Runs(p)'
<1>1. stack'[p] = SubSeq(stack[p], 1, Len(stack[p]) - 1)
  BY DEF Pop, Domains
<1> QED BY <1>1, StackPop DEF Runs, Small

LEMMA Copying ==
    ASSUME Domains, NEW p \in Proc, Runs(p), NEW f, NEW k, NEW g, NEW l, CopyTo(p, f, k, g, l)
    PROVE  Runs(p)'
<1>1. CASE Become(p, [op |-> "copy", fs |-> f, key |-> k, dst |-> l], <<>>)
  BY <1>1, Becoming DEF Small, Whole
<1>2. CASE Become(p, GetAt(f, k), <<[at |-> "copy", fs |-> g, key |-> l]>>)
  <2>1. FrameOK([at |-> "copy", fs |-> g, key |-> l]) /\ Small(GetAt(f, k))
    BY DEF FrameOK, Small, Whole, GetAt
  <2> QED BY <1>2, <2>1, Becoming
<1> QED BY <1>1, <1>2 DEF CopyTo

LEMMA Looping ==
    ASSUME Domains, NEW p \in Proc, Runs(p), NEW C, \A c \in C : Small(c),
           NEW todo \in Seq(C), Loop(p, todo), UNCHANGED req
    PROVE  Runs(p)'
<1>1. CASE todo = <<>>
  BY <1>1 DEF Loop, Answer, Runs
<1>2. CASE todo # <<>>
  <2> DEFINE f == [at |-> "loop", todo |-> Tail(todo)]
  <2>1. Head(todo) \in C /\ Tail(todo) \in Seq(C)
    BY <1>2, HeadTailProperties
  <2>2. FrameOK(f)
    BY <2>1 DEF FrameOK
  <2>3. Become(p, Head(todo), <<f>>)
    BY <1>2 DEF Loop
  <2> HIDE DEF f
  <2> QED BY <2>1, <2>2, <2>3, Becoming
<1> QED BY <1>1, <1>2

LEMMA CarriesRuns ==
    ASSUME Domains, NEW p \in Proc, Runs(p), Asks(p), Carries(p)
    PROVE  Runs(p)'
<1>0. req' = req
  BY DEF Carries, history
<1>1. CASE Begin(p) \/ BaseReturns(p) \/ Resolve(p) \/ Refuse(p) \/ LockTable(p)
  <2>1. UNCHANGED <<cur, stack>>
    BY <1>1, BaseReturning DEF Begin, Resolve, Refuse, LockTable, Answer
  <2> QED BY <1>0, <2>1 DEF Runs
<1>2. CASE Cancelled(p)
  BY <1>0, <1>2, CompositionAssumption DEF Cancelled, Runs, Whole, Domains, LockTypeOK
<1>3. CASE HookReturns(p)
  BY <1>0, <1>3, Popping DEF HookReturns
<1>4. CASE Forward(p)
  <2> DEFINE f == [at |-> "hook", call |-> cur[p]]
             inner == [cur[p] EXCEPT !.fs = Inner(cur[p].fs)]
  <2>1. PICK c : /\ Become(p, c, <<f>>)
                 /\ \/ c = inner
                    \/ \E d : c = [inner EXCEPT !.data = d]
    BY <1>4 DEF Forward
  <2>2. Small(c)
    <3>1. "op" \in DOMAIN cur[p] /\ cur[p].op \notin Whole
      BY <1>4 DEF Runs, Forward, Whole
    <3>2. "op" \in DOMAIN inner /\ inner.op = cur[p].op
      BY <3>1
    <3>3. "op" \in DOMAIN c /\ c.op = inner.op
      BY <2>1, <3>2
    <3> QED BY <3>1, <3>2, <3>3 DEF Small
  <2>3. FrameOK(f)
    BY DEF FrameOK
  <2> HIDE DEF f, inner
  <2> QED BY <2>1, <2>2, <2>3, Becoming
<1>5. CASE Copy(p)
  BY <1>5, Copying DEF Copy
<1>6. CASE PutCopy(p)
  <2>1. cur'[p] = cur[p] \/ cur'[p] = PutAt(Top(p).fs, Top(p).key, ans[p].data)
    BY <1>6 DEF PutCopy, Domains, LockTypeOK
  <2>2. \A f, k, d : Small(PutAt(f, k, d))
    BY DEF PutAt, Small, Whole
  <2> QED BY <1>0, <1>6, <2>1, <2>2, Popping DEF PutCopy
<1>7. CASE LoopOn(p)
  <2> DEFINE s == stack[p]
  <2>1. CASE Pop(p) /\ UNCHANGED cur
    BY <1>0, <1>7, <2>1, Popping DEF LoopOn
  <2>2. CASE /\ Top(p).todo # <<>>
             /\ cur' = [cur EXCEPT ![p] = Head(Top(p).todo)]
             /\ stack' = [stack EXCEPT ![p][Len(stack[p])].todo = Tail(@)]
    <3>1. cur'[p] = Head(s[Len(s)].todo) /\ stack'[p] = [s EXCEPT ![Len(s)].todo = Tail(@)]
      BY <2>2 DEF Top, Domains, LockTypeOK
    <3>2. Stacked(s) /\ s # <<>> /\ s[Len(s)].at = "loop" /\ s[Len(s)].todo # <<>>
      BY <1>7, <2>2 DEF LoopOn, Top, Runs
    <3> HIDE DEF s
    <3> QED BY <3>1, <3>2, StackLoop DEF Runs, Small
  <2> QED BY <1>7, <2>1, <2>2 DEF LoopOn
<1>8. CASE BatchDelete(p)
  <2>1. CASE Become(p, [op |-> "batch", fs |-> cur[p].fs, keys |-> cur[p].keys], <<>>)
    BY <2>1, Becoming DEF Small, Whole
  <2>2. CASE Loop(p, [i \in DOMAIN cur[p].keys |-> DelAt(cur[p].fs, cur[p].keys[i])])
    <3> DEFINE todo == [i \in DOMAIN cur[p].keys |-> DelAt(cur[p].fs, cur[p].keys[i])]
               C == {DelAt(cur[p].fs, k) : k \in Key}
    <3>1. cur[p].keys \in Seq(Key)
      BY <1>8, ClientCalls DEF BatchDelete, Runs, Whole
    <3>2. todo \in Seq(C)
      <4> DEFINE ks == cur[p].keys
                 e(i) == DelAt(cur[p].fs, ks[i])
      <4>1. Len(ks) \in Nat /\ DOMAIN ks = 1..Len(ks)
        BY <3>1, LenProperties
      <4>2. \A i \in 1..Len(ks) : e(i) \in C
        BY <3>1, ElementOfSeq
      <4> HIDE DEF C, e
      <4>3. [i \in 1..Len(ks) |-> e(i)] \in Seq(C)
        BY <4>1, <4>2, IsASeq
      <4> QED BY <4>1, <4>3 DEF e
    <3>3. \A c \in C : Small(c)
      BY DEF DelAt, Small, Whole
    <3>4. Loop(p, todo)
      BY <2>2
    <3> HIDE DEF C, todo
    <3> QED BY <1>0, <3>2, <3>3, <3>4, Looping
  <2> QED BY <1>8, <2>1, <2>2 DEF BatchDelete
<1>9. CASE Unpack(p)
  <2> DEFINE fs == cur[p].files
             todo == [i \in DOMAIN fs |-> PutAt(cur[p].fs, fs[i].key, fs[i].data)]
             C == {PutAt(cur[p].fs, k, d) : k \in Key, d \in Payload}
  <2>1. fs \in Seq([key : Key, data : Payload])
    BY <1>9, ClientCalls DEF Unpack, Runs, Whole
  <2>2. todo \in Seq(C)
    <3> DEFINE e(i) == PutAt(cur[p].fs, fs[i].key, fs[i].data)
    <3>1. Len(fs) \in Nat /\ DOMAIN fs = 1..Len(fs)
      BY <2>1, LenProperties
    <3>2. \A i \in 1..Len(fs) : e(i) \in C
      <4> SUFFICES ASSUME NEW i \in 1..Len(fs) PROVE e(i) \in C
        OBVIOUS
      <4>1. fs[i] \in [key : Key, data : Payload]
        BY <2>1, ElementOfSeq
      <4> QED BY <4>1
    <3> HIDE DEF C, e
    <3>3. [i \in 1..Len(fs) |-> e(i)] \in Seq(C)
      BY <3>1, <3>2, IsASeq
    <3> QED BY <3>1, <3>3 DEF e
  <2>3. \A c \in C : Small(c)
    BY DEF PutAt, Small, Whole
  <2>4. Loop(p, todo)
    BY <1>9 DEF Unpack
  <2> HIDE DEF C, todo
  <2> QED BY <1>0, <2>2, <2>3, <2>4, Looping
<1>10. CASE Lookup(p)
  <2> DEFINE f == mounts[cur[p].fs][Head(cur[p].key)]
             sub == Tail(cur[p].key)
  <2>0. "op" \in DOMAIN cur[p] /\ PassOn(p, f)
    BY <1>10 DEF Lookup, Runs
  <2>1. CASE UNCHANGED <<cur, stack>>
    BY <1>0, <2>1 DEF Runs
  <2>2. CASE AskForDst(p, f, sub)
    BY <2>2, Becoming DEF AskForDst, Small, Whole
  <2>3. CASE CopyFound(p, f, sub)
    BY <2>3, Copying DEF CopyFound
  <2>4. CASE Become(p, [cur[p] EXCEPT !.fs = f, !.key = sub], <<>>)
    <3> DEFINE c == [cur[p] EXCEPT !.fs = f, !.key = sub]
    <3>1. "op" \in DOMAIN c /\ c.op = cur[p].op
      BY <2>0
    <3> HIDE DEF c
    <3>2. cur[p].op \notin Whole
      BY <1>10 DEF Lookup, At, Asks, Routed, Whole
    <3> QED BY <2>4, <3>1, <3>2, Becoming DEF Small, c
  <2> QED BY <2>0, <2>1, <2>2, <2>3, <2>4 DEF PassOn, Answer
<1>11. CASE CopyOpens(p) \/ CopyCreates(p)
  <2> DEFINE c == [op |-> "create", fs |-> cur[p].fs, key |-> cur[p].key,
                   dst |-> cur[p].dst, data |-> Held(p)]
             d == [cur[p] EXCEPT !.op = "fill"]
  <2>1. Small(c)
    BY DEF Small, Whole
  <2>2. CASE CopyCreates(p)
    <3>1. "op" \in DOMAIN cur[p] /\ cur[p].op \notin Whole
      BY <1>11, <2>2 DEF CopyCreates, Calling, Runs, Whole
    <3>2. Small(d)
      BY <3>1 DEF Small, Whole
    <3> QED BY <1>0, <2>2, <3>2, Becoming DEF CopyCreates
  <2>3. CASE UNCHANGED <<cur, stack>>
    BY <1>0, <2>3 DEF Runs
  <2>4. CASE Become(p, c, <<>>)
    <3> HIDE DEF c
    <3> QED BY <2>1, <2>4, Becoming
  <2> QED BY <1>11, <2>2, <2>3, <2>4, CopyBeginning
<1> QED BY <1>1, <1>2, <1>3, <1>4, <1>5, <1>6, <1>7, <1>8, <1>9, <1>10, <1>11
        DEF Carries, CallStep, HookStep, BaseReturns

LEMMA CarriesAsks ==
    ASSUME Domains, NEW p \in Proc, Carries(p)
    PROVE  Asks(p)'
<1> USE DEF At, Goto, Domains, LockTypeOK, Asks
<1>1. CASE Resolve(p)
  BY <1>1 DEF Resolve, Calling
<1>2. CASE \/ Begin(p) \/ Cancelled(p) \/ Refuse(p) \/ LockTable(p)
           \/ HookReturns(p) \/ Forward(p)
  BY <1>2 DEF Begin, Cancelled, Refuse, LockTable, HookReturns, Forward, Answer
<1>3. CASE BaseReturns(p) \/ CopyOpens(p) \/ CopyCreates(p)
  BY <1>3, BaseReturning, CopyBeginning
<1>4. CASE Copy(p) \/ BatchDelete(p) \/ Unpack(p) \/ PutCopy(p) \/ LoopOn(p)
  BY <1>4 DEF Copy, CopyTo, BatchDelete, Unpack, PutCopy, LoopOn, Loop, Answer
<1>5. CASE Lookup(p)
  BY <1>5 DEF Lookup, PassOn, AskForDst, CopyFound, CopyTo, Answer
<1> QED BY <1>1, <1>2, <1>3, <1>4, <1>5 DEF Carries, CallStep, HookStep, BaseReturns

(* A client that mounts or unmounts only waits for the lock.               *)
LEMMA ChangersWait ==
    ASSUME NEW p \in Proc, Stands(p), Carries(p), req[p].op \in {"mount", "unmount"}
    PROVE  LockTable(p)
<1>1. /\ cur[p].op \in {"mount", "unmount"} /\ stack[p] = <<>>
      /\ pc[p] \in {"call", "lock", "return"}
  BY DEF Stands
<1> USE DEF At, Calling
<1>2. ~Begin(p) /\ ~Cancelled(p) /\ ~PutCopy(p) /\ ~LoopOn(p) /\ ~HookReturns(p) /\ ~Lookup(p)
  BY <1>1 DEF Begin, Cancelled, PutCopy, LoopOn, HookReturns, Lookup
<1>3. ~BaseReturns(p) /\ ~CopyOpens(p) /\ ~CopyCreates(p)
  BY <1>1, BaseReturning, CopyBeginning
<1>4. ~Copy(p) /\ ~BatchDelete(p) /\ ~Unpack(p) /\ ~Forward(p) /\ ~Resolve(p) /\ ~Refuse(p)
  BY <1>1 DEF Copy, BatchDelete, Unpack, Forward, Resolve, Refuse, Routed
<1> QED BY <1>2, <1>3, <1>4 DEF Carries, CallStep, HookStep, BaseReturns

LEMMA CarriesStands ==
    ASSUME Domains, NEW p \in Proc, Stands(p), Carries(p)
    PROVE  Stands(p)'
<1>0. req' = req
  BY DEF Carries, history
<1>1. pc[p] # "idle" /\ pc'[p] # "idle"
  <2> USE DEF At, Goto, Domains, LockTypeOK
  <2>1. CASE HookStep(p)
    BY <2>1 DEF HookStep, HookReturns, Forward
  <2>2. CASE Resolve(p) \/ Refuse(p) \/ LockTable(p)
    BY <2>2 DEF Resolve, Refuse, LockTable, Calling, Answer
  <2>3. CASE Lookup(p)
    BY <2>3 DEF Lookup, PassOn, AskForDst, CopyFound, CopyTo, Answer
  <2>4. CASE Begin(p) \/ Cancelled(p) \/ PutCopy(p) \/ LoopOn(p)
    BY <2>4 DEF Begin, Cancelled, PutCopy, LoopOn
  <2>5. CASE BaseReturns(p) \/ CopyOpens(p) \/ CopyCreates(p)
    BY <2>5, BaseReturning, CopyBeginning
  <2>6. CASE Copy(p) \/ BatchDelete(p) \/ Unpack(p)
    BY <2>6 DEF Copy, CopyTo, BatchDelete, Unpack, Loop, Answer
  <2> QED BY <2>1, <2>2, <2>3, <2>4, <2>5, <2>6 DEF Carries, CallStep, BaseReturns
<1>2. CASE req[p].op \in {"mount", "unmount"}
  <2>1. LockTable(p)
    BY <1>2, ChangersWait
  <2>2. UNCHANGED <<cur, stack>> /\ pc'[p] = "lock"
    BY <2>1 DEF LockTable, Goto, Domains, LockTypeOK
  <2> QED BY <1>0, <1>1, <1>2, <2>2 DEF Stands
<1>3. CASE req[p].op \notin {"mount", "unmount"}
  BY <1>0, <1>1, <1>3 DEF Stands
<1> QED BY <1>2, <1>3

(* A call to an entry that is gone only comes to the table.                *)
LEMMA RefusedSteps ==
    ASSUME NEW p \in Proc, GoneOK(p), ToGone(p), Stopped(p), Carries(p)
    PROVE  Resolve(p) \/ Refuse(p) \/ Lookup(p)
<1>1. PICK e \in gone[p] : e \in Entry /\ req[p].fs = e[1]
  BY DEF ToGone, GoneOK
<1>2. /\ stack[p] = <<>> /\ pc[p] \in {"call", "rlock", "return"}
      /\ pc[p] = "call" => /\ cur[p].op \in {"get", "put", "delete"}
                           /\ cur[p].fs \notin Base \cup Hook
  BY <1>1, CompositionAssumption DEF ToGone, Stopped, Entry
<1> USE DEF At, Calling
<1>3. ~Begin(p) /\ ~Cancelled(p) /\ ~PutCopy(p) /\ ~LoopOn(p) /\ ~HookReturns(p)
  BY <1>2 DEF Begin, Cancelled, PutCopy, LoopOn, HookReturns
<1>4. ~BaseReturns(p) /\ ~CopyOpens(p) /\ ~CopyCreates(p)
  BY <1>2, BaseReturning, CopyBeginning
<1>5. ~Copy(p) /\ ~BatchDelete(p) /\ ~Unpack(p) /\ ~Forward(p) /\ ~LockTable(p)
  BY <1>2 DEF Copy, BatchDelete, Unpack, Forward, LockTable
<1> QED BY <1>3, <1>4, <1>5 DEF Carries, CallStep, HookStep, BaseReturns

LEMMA CarriesRefused ==
    ASSUME Domains, NEW p \in Proc, GoneOK(p), RefusedOK(p), Carries(p)
    PROVE  RefusedOK(p)'
<1>0. req' = req /\ gone' = gone
  BY DEF Carries, history
<1> SUFFICES ASSUME ToGone(p) PROVE Stopped(p)'
  BY <1>0 DEF RefusedOK, ToGone
<1>1. Stopped(p)
  BY DEF RefusedOK
<1> USE DEF At, Goto, Domains, LockTypeOK
<1>2. CASE Resolve(p)
  BY <1>0, <1>1, <1>2 DEF Resolve, Calling, Stopped
<1>3. CASE Refuse(p)
  BY <1>1, <1>3 DEF Refuse, Answer, Stopped
<1>4. CASE Lookup(p)
  <2>1. PICK e \in gone[p] : /\ e \in Entry /\ req[p].fs = e[1] /\ Head(req[p].key) = e[2]
                             /\ Nothing(e)
    BY DEF ToGone, GoneOK, Leaving, Naming
  <2>2. PassOn(p, NoFS) /\ UNCHANGED events
    BY <1>1, <1>4, <2>1 DEF Lookup, Stopped, Nothing
  <2>3. Answer(p, "notfound", <<>>)
    BY <2>2 DEF PassOn
  <2> QED BY <1>1, <2>2, <2>3 DEF Answer, Stopped
<1> QED BY <1>1, <1>2, <1>3, <1>4, RefusedSteps

----------------------------------------------------------------------------
(* The steps of p keep the invariant.                                      *)

LEMMA CarriesInv ==
    ASSUME UnmountInv, LockTypeOK', NEW p \in Proc, Carries(p)
    PROVE  UnmountInv'
<1>0. /\ Domains /\ Runs(p) /\ Asks(p) /\ Stands(p) /\ GoneOK(p) /\ RefusedOK(p)
      /\ UNCHANGED <<mounts, req, absent, gone>>
  BY DEF UnmountInv, Carries, history, Resolve, Refuse, Lookup, LockTable
<1>1. Keeps(p)
  BY <1>0, CarriesKeeps
<1>2. Domains'
  BY <1>0, <1>1 DEF Domains, Keeps
<1>3. AbsentOK'
  BY <1>0 DEF UnmountInv, AbsentOK, Nothing, BeingMounted, Naming
<1>4. Runs(p)' /\ Asks(p)' /\ Stands(p)' /\ RefusedOK(p)'
  BY <1>0, CarriesRuns, CarriesAsks, CarriesStands, CarriesRefused
<1>5. GoneOK(p)'
  <2>1. ASSUME NEW e \in gone[p], Leaving(p, e) PROVE Leaving(p, e)'
    <3>1. LockTable(p)
      BY <1>0, <2>1, ChangersWait DEF Leaving, Naming
    <3>2. pc'[p] = "lock"
      BY <1>0, <3>1 DEF LockTable, Goto, Domains, LockTypeOK
    <3> QED BY <1>0, <2>1, <3>2 DEF Leaving, Naming
  <2> QED BY <1>0, <2>1 DEF GoneOK, Nothing, BeingMounted, Naming
<1>6. ASSUME NEW q \in Proc \ {p}
      PROVE  Runs(q)' /\ Asks(q)' /\ Stands(q)' /\ GoneOK(q)' /\ RefusedOK(q)'
  <2>1. Runs(q) /\ Asks(q) /\ Stands(q) /\ GoneOK(q) /\ RefusedOK(q)
    BY DEF UnmountInv
  <2>2. /\ pc'[q] = pc[q] /\ cur'[q] = cur[q] /\ stack'[q] = stack[q]
        /\ ans'[q] = ans[q] /\ events'[q] = events[q]
    BY <1>1 DEF Keeps
  <2>3. Runs(q)' /\ Asks(q)' /\ Stands(q)'
    BY <1>0, <2>1, <2>2 DEF Runs, Asks, Stands
  <2>4. GoneOK(q)'
    BY <1>0, <2>1, <2>2 DEF GoneOK, Nothing, Leaving, BeingMounted, Naming
  <2>5. RefusedOK(q)'
    BY <1>0, <2>1, <2>2 DEF RefusedOK, ToGone, Stopped
  <2> QED BY <2>3, <2>4, <2>5
<1> QED BY <1>2, <1>3, <1>4, <1>5, <1>6 DEF UnmountInv

(* The other clients, when no table changes.                               *)
LEMMA OthersKeep ==
    ASSUME UnmountInv, NEW p \in Proc, Keeps(p), UNCHANGED mounts,
           NEW q \in Proc \ {p}, req'[q] = req[q], gone'[q] \subseteq gone[q],
           \A e \in gone'[q] : e \notin BeingMounted'
    PROVE  Runs(q)' /\ Asks(q)' /\ Stands(q)' /\ GoneOK(q)' /\ RefusedOK(q)'
<1>1. Runs(q) /\ Asks(q) /\ Stands(q) /\ GoneOK(q) /\ RefusedOK(q)
  BY DEF UnmountInv
<1>2. /\ pc'[q] = pc[q] /\ cur'[q] = cur[q] /\ stack'[q] = stack[q]
      /\ ans'[q] = ans[q] /\ events'[q] = events[q]
  BY DEF Keeps
<1>3. Runs(q)' /\ Asks(q)' /\ Stands(q)'
  BY <1>1, <1>2 DEF Runs, Asks, Stands
<1>4. GoneOK(q)'
  BY <1>1, <1>2 DEF GoneOK, Nothing, Leaving, Naming
<1>5. RefusedOK(q)'
  BY <1>1, <1>2 DEF RefusedOK, ToGone, Stopped
<1> QED BY <1>3, <1>4, <1>5

LEMMA CallInv ==
    ASSUME UnmountInv, LockTypeOK', NEW p \in Proc, Call(p)
    PROVE  UnmountInv'
<1> DEFINE r == cur'[p]
<1>0. /\ Domains /\ AbsentOK /\ Stands(p)
      /\ pc[p] = "idle" /\ req[p] = Idle /\ stack[p] = <<>> /\ events[p] = <<>> /\ ans[p] = NoAns
  BY DEF UnmountInv, Call, Submit, At, Stands
<1>1. /\ r \in Calls[p] /\ pc'[p] = "call" /\ req' = [req EXCEPT ![p] = r]
      /\ UNCHANGED <<stack, ans, events, mounts>>
  BY <1>0 DEF Call, Submit, Goto, Domains, LockTypeOK
<1>2. /\ absent' = absent \ Naming(r, "mount")
      /\ gone' = [q \in Proc |-> (IF q = p THEN absent \cup (Naming(r, "unmount") \ BeingMounted)
                                   ELSE gone[q]) \ Naming(r, "mount")]
  BY DEF Call
<1>3. Keeps(p)
  BY <1>0, OwnVariables DEF Call, Submit, Goto, Where
<1> HIDE DEF r
<1>4. req'[p] = r /\ \A q \in Proc \ {p} : req'[q] = req[q]
  BY <1>0, <1>1 DEF Domains
<1>5. \A e : e \notin BeingMounted /\ e \notin Naming(r, "mount") => e \notin BeingMounted'
  BY <1>4 DEF BeingMounted
<1>6. Domains'
  BY <1>0, <1>1, <1>2, <1>3 DEF Domains, Keeps
<1>7. AbsentOK'
  BY <1>0, <1>1, <1>2, <1>5 DEF AbsentOK, Nothing
<1>8. Runs(p)' /\ Asks(p)' /\ Stands(p)' /\ RefusedOK(p)'
  <2>1. "op" \in DOMAIN r
    BY <1>1, ClientCalls
  <2>2. Runs(p)' /\ Asks(p)' /\ Stands(p)'
    BY <1>0, <1>1, <1>4, <2>1, StackEmpty DEF Runs, Asks, Stands, r
  <2>3. Stopped(p)'
    BY <1>0, <1>1, <1>4 DEF Stopped, r
  <2> QED BY <2>2, <2>3 DEF RefusedOK
<1>9. GoneOK(p)'
  <2> SUFFICES ASSUME NEW e \in gone'[p]
               PROVE  e \in Entry /\ e \notin BeingMounted' /\ (Nothing(e)' \/ Leaving(p, e)')
    BY DEF GoneOK
  <2>1. e \notin Naming(r, "mount") /\ (e \in absent \/ e \in Naming(r, "unmount") \ BeingMounted)
    BY <1>2
  <2>2. CASE e \in absent
    BY <1>0, <1>1, <1>5, <2>1, <2>2 DEF AbsentOK, Nothing
  <2>3. CASE e \in Naming(r, "unmount") \ BeingMounted
    <3>1. e \in Entry
      BY <1>1, <2>3, ClientCalls DEF Naming, Entry
    <3> QED BY <1>1, <1>4, <1>5, <2>1, <2>3, <3>1 DEF Leaving
  <2> QED BY <2>1, <2>2, <2>3
<1>10. ASSUME NEW q \in Proc \ {p}
       PROVE  Runs(q)' /\ Asks(q)' /\ Stands(q)' /\ GoneOK(q)' /\ RefusedOK(q)'
  <2>1. gone'[q] = gone[q] \ Naming(r, "mount")
    BY <1>2
  <2>2. \A e \in gone'[q] : e \notin BeingMounted'
    BY <1>5, <2>1 DEF UnmountInv, GoneOK
  <2> QED BY <1>1, <1>3, <1>4, <2>1, <2>2, OthersKeep
<1> QED BY <1>6, <1>7, <1>8, <1>9, <1>10 DEF UnmountInv

LEMMA FinishInv ==
    ASSUME UnmountInv, LockTypeOK', NEW p \in Proc, Finish(p)
    PROVE  UnmountInv'
<1>0. /\ Domains /\ AbsentOK /\ GoneOK(p) /\ pc[p] = "return" /\ stack[p] = <<>>
  BY DEF UnmountInv, Finish, Return, Over, At
<1>1. /\ pc'[p] = "idle" /\ cur'[p] = Idle /\ ans'[p] = NoAns /\ events'[p] = <<>>
      /\ req'[p] = Idle /\ gone'[p] = {}
      /\ \A q \in Proc \ {p} : req'[q] = req[q] /\ gone'[q] = gone[q]
      /\ UNCHANGED <<stack, mounts>>
  BY <1>0 DEF Finish, Return, Goto, Domains, LockTypeOK
<1>2. Keeps(p)
  BY <1>0, OwnVariables DEF Finish, Return, Goto, Where
<1>3. Domains'
  BY <1>0, <1>1, <1>2 DEF Finish, Domains, Keeps
<1>4. \A e : e \notin BeingMounted => e \notin BeingMounted'
  BY <1>1, CompositionAssumption DEF BeingMounted, Naming
<1>5. AbsentOK'
  <2>1. absent' = absent \cup (Naming(req[p], "unmount") \cap gone[p])
    BY DEF Finish
  <2>2. \A e \in gone[p] : e \in Entry /\ e \notin BeingMounted /\ Nothing(e)
    BY <1>0 DEF GoneOK, Leaving
  <2> QED BY <1>0, <1>1, <1>4, <2>1, <2>2 DEF AbsentOK, Nothing
<1>6. Runs(p)' /\ Asks(p)' /\ Stands(p)' /\ GoneOK(p)' /\ RefusedOK(p)'
  <2>1. "op" \in DOMAIN Idle /\ Idle.op \notin Whole
    BY CompositionAssumption DEF Whole
  <2>2. Runs(p)' /\ Asks(p)'
    BY <1>0, <1>1, <2>1, StackEmpty DEF Runs, Asks
  <2>3. Stands(p)'
    BY <1>0, <1>1, <2>1 DEF Stands, Whole
  <2> QED BY <1>1, <2>2, <2>3 DEF GoneOK, RefusedOK, ToGone
<1>7. ASSUME NEW q \in Proc \ {p}
      PROVE  Runs(q)' /\ Asks(q)' /\ Stands(q)' /\ GoneOK(q)' /\ RefusedOK(q)'
  <2>1. \A e \in gone'[q] : e \notin BeingMounted'
    BY <1>1, <1>4 DEF UnmountInv, GoneOK
  <2> QED BY <1>1, <1>2, <2>1, OthersKeep
<1> QED BY <1>3, <1>5, <1>6, <1>7 DEF UnmountInv

(* Mount changes an entry that is being mounted, Unmount clears one.       *)
LEMMA ChangeInv ==
    ASSUME UnmountInv, LockTypeOK', NEW p \in Proc,
           (Mount(p) \/ Unmount(p)) /\ UNCHANGED history
    PROVE  UnmountInv'
<1> DEFINE r == req[p]
<1>0. /\ Domains /\ AbsentOK /\ Runs(p) /\ Asks(p) /\ Stands(p) /\ GoneOK(p)
      /\ UNCHANGED <<req, absent, gone, cur, stack, events>>
  BY DEF UnmountInv, history, Mount, Unmount, Answer
<1>1. /\ cur[p] = r /\ r.op \in {"mount", "unmount"} /\ pc'[p] = "return"
  BY <1>0 DEF Mount, Unmount, Runs, Whole, Answer, Goto, Domains, LockTypeOK
<1>2. r \in Calls[p] /\ r.fs \in Table /\ r.key \in Name
  BY <1>0, <1>1, ClientCalls DEF Runs, Whole
<1>3. Keeps(p)
  BY <1>0, OwnVariables DEF Mount, Unmount, Answer, Goto, Where
<1>4. PICK f \in FS \cup {NoFS} :
         /\ mounts' = [mounts EXCEPT ![r.fs][r.key] = f]
         /\ f = NoFS \/ r.op = "mount"
  BY <1>0, <1>1, <1>2, ClientCalls DEF Mount, Unmount
<1> HIDE DEF r
<1>5. Domains'
  BY <1>0, <1>2, <1>3, <1>4 DEF Domains, Keeps
<1>6. ASSUME NEW e \in Entry
      PROVE  IF e = <<r.fs, r.key>> THEN mounts'[e[1]][e[2]] = f ELSE mounts'[e[1]][e[2]] = mounts[e[1]][e[2]]
  BY <1>0, <1>2, <1>4, <1>6 DEF Domains, Entry
<1>7. ASSUME NEW e \in Entry, e \notin BeingMounted, Nothing(e) PROVE Nothing(e)'
  <2>1. e = <<r.fs, r.key>> => f = NoFS
    BY <1>4, <1>7 DEF BeingMounted, Naming, r
  <2> QED BY <1>6, <1>7, <2>1 DEF Nothing
<1>8. AbsentOK'
  BY <1>0, <1>7 DEF AbsentOK, BeingMounted
<1>9. Runs(p)' /\ Asks(p)' /\ Stands(p)' /\ RefusedOK(p)'
  <2>1. Runs(p)' /\ Asks(p)'
    BY <1>0, <1>1 DEF Runs, Asks
  <2>2. Stands(p)'
    BY <1>0, <1>1, <1>2 DEF Stands, r
  <2> QED BY <1>0, <1>1, <2>1, <2>2 DEF RefusedOK, ToGone, r
<1>10. GoneOK(p)'
  <2>1. ASSUME NEW e \in gone[p], Leaving(p, e) PROVE Nothing(e)'
    <3>1. e = <<r.fs, r.key>> /\ f = NoFS /\ e \in Entry
      BY <1>0, <1>1, <1>4, <2>1 DEF Leaving, Naming, GoneOK, r
    <3> QED BY <1>6, <3>1 DEF Nothing
  <2> QED BY <1>0, <1>7, <2>1 DEF GoneOK, BeingMounted
<1>11. ASSUME NEW q \in Proc \ {p}
       PROVE  Runs(q)' /\ Asks(q)' /\ Stands(q)' /\ GoneOK(q)' /\ RefusedOK(q)'
  <2>1. Runs(q) /\ Asks(q) /\ Stands(q) /\ GoneOK(q) /\ RefusedOK(q)
    BY DEF UnmountInv
  <2>2. /\ pc'[q] = pc[q] /\ cur'[q] = cur[q] /\ stack'[q] = stack[q]
        /\ ans'[q] = ans[q] /\ events'[q] = events[q]
    BY <1>3 DEF Keeps
  <2>3. Runs(q)' /\ Asks(q)' /\ Stands(q)'
    BY <1>0, <2>1, <2>2 DEF Runs, Asks, Stands
  <2>4. GoneOK(q)'
    BY <1>0, <1>7, <2>1, <2>2 DEF GoneOK, Leaving, BeingMounted
  <2>5. RefusedOK(q)'
    BY <1>0, <2>1, <2>2 DEF RefusedOK, ToGone, Stopped
  <2> QED BY <2>3, <2>4, <2>5
<1> QED BY <1>5, <1>8, <1>9, <1>10, <1>11 DEF UnmountInv

LEMMA InitUnmountInv == Init => UnmountInv
<1> SUFFICES ASSUME Init PROVE UnmountInv
  OBVIOUS
<1>1. LockTypeOK
  BY LockInvInductive DEF LockInv
<1>2. Domains
  BY <1>1, MountAssumption DEF Init, CallsInit, MountInit, Domains
<1>3. \A p \in Proc : /\ pc[p] = "idle" /\ req[p] = Idle /\ cur[p] = Idle /\ stack[p] = <<>>
                      /\ events[p] = <<>> /\ ans[p] = NoAns /\ gone[p] = {}
  BY DEF Init, CallsInit
<1>4. "op" \in DOMAIN Idle /\ Idle.op = "idle"
  BY CompositionAssumption
<1>5. AbsentOK
  <2>1. BeingMounted = {}
    BY <1>3, <1>4 DEF BeingMounted, Naming
  <2> QED BY <2>1 DEF AbsentOK, Init, MountInit, Nothing
<1>6. ASSUME NEW p \in Proc PROVE Runs(p) /\ Asks(p) /\ Stands(p) /\ GoneOK(p) /\ RefusedOK(p)
  BY <1>3, <1>4, StackEmpty DEF Runs, Asks, Stands, GoneOK, RefusedOK, ToGone, Whole
<1> QED BY <1>2, <1>5, <1>6 DEF UnmountInv

LEMMA NextUnmountInv == UnmountInv /\ LockTypeOK' /\ [Next]_vars => UnmountInv'
<1>1. ASSUME UnmountInv, UNCHANGED vars PROVE UnmountInv'
  BY <1>1 DEF UnmountInv, Domains, LockTypeOK, AbsentOK, Runs, Asks, Stands, GoneOK, RefusedOK,
              Nothing, BeingMounted, Naming, Leaving, ToGone, Stopped,
              vars, mountvars, callvars, history
<1>2. ASSUME UnmountInv, LockTypeOK', NEW p \in Proc, Call(p) \/ Proceed(p) \/ Finish(p)
      PROVE  UnmountInv'
  <2>1. CASE Carries(p)
    BY <1>2, <2>1, CarriesInv
  <2>2. CASE Call(p) \/ Finish(p)
    BY <1>2, <2>2, CallInv, FinishInv
  <2>3. CASE (Mount(p) \/ Unmount(p)) /\ UNCHANGED history
    BY <1>2, <2>3, ChangeInv
  <2> QED BY <1>2, <2>1, <2>2, <2>3 DEF Proceed, MountStep, Carries
<1> QED BY <1>1, <1>2 DEF Next

(* A call to an entry that was unmounted before the call was made, and has *)
(* not been mounted again, has no effect and does not answer "ok", whoever *)
(* else changes the table meanwhile (mount.go:36-67).                      *)
THEOREM UnmountedStaysUnreachable == Spec => []UnmountedIsUnreachable
<1>1. Spec => []LockInv
  BY LockInvInductive, PTL DEF Spec
<1>2. LockInv => LockTypeOK
  BY DEF LockInv
<1>3. UnmountInv => UnmountedIsUnreachable
  <2> SUFFICES ASSUME UnmountInv, NEW p \in Proc, ToGone(p)
               PROVE  events[p] = <<>> /\ ans[p].res # "ok"
    BY DEF UnmountedIsUnreachable, ToGone
  <2>1. Stopped(p)
    BY DEF UnmountInv, RefusedOK
  <2>2. NoAns.res # "ok"
    BY DEF NoAns
  <2> QED BY <2>1, <2>2 DEF Stopped
<1> QED BY <1>1, <1>2, <1>3, InitUnmountInv, NextUnmountInv, PTL DEF Spec

----------------------------------------------------------------------------
(* Levels: f as its first n middlewares show it.  A file system is one     *)
(* level of one base or table.                                             *)

LEMMA LevelIsHook ==
    ASSUME NEW f \in Base \cup Table
    PROVE  /\ Middlewares[f] \in Seq(Hook) /\ Len(Middlewares[f]) \in Nat
           /\ DOMAIN Middlewares[f] = 1..Len(Middlewares[f])
           /\ Nth(f, 0) = f
           /\ \A n \in 1..Len(Middlewares[f]) :
                 Middlewares[f][n] \in Hook /\ Nth(f, n) = Middlewares[f][n]
BY HookAssumption, LenProperties, ElementOfSeq DEF Nth

LEMMA LevelsDiffer ==
    ASSUME NEW f \in Base \cup Table, NEW g \in Base \cup Table,
           NEW n \in 0..Len(Middlewares[f]), NEW m \in 0..Len(Middlewares[g]),
           Nth(f, n) = Nth(g, m)
    PROVE  f = g /\ n = m
<1>1. Len(Middlewares[f]) \in Nat /\ Len(Middlewares[g]) \in Nat
  BY LevelIsHook
<1>2. CASE n = 0 /\ m = 0
  BY <1>2, LevelIsHook
<1>3. CASE (n = 0 /\ m # 0) \/ (n # 0 /\ m = 0)
  <2>1. f \notin Hook /\ g \notin Hook
    BY CompositionAssumption
  <2> QED BY <1>1, <1>3, <2>1, LevelIsHook
<1>4. CASE n # 0 /\ m # 0
  <2>1. n \in DOMAIN Middlewares[f] /\ m \in DOMAIN Middlewares[g]
    BY <1>1, <1>4, LevelIsHook
  <2>2. Middlewares[f][n] = Middlewares[g][m]
    BY <1>1, <1>4, LevelIsHook
  <2> QED BY <2>1, <2>2, HookAssumption
<1> QED BY <1>2, <1>3, <1>4

LEMMA InnerIsBelow ==
    ASSUME NEW f \in Base \cup Table, NEW n \in 1..Len(Middlewares[f])
    PROVE  Inner(Nth(f, n)) = Nth(f, n - 1)
<1> DEFINE h == Nth(f, n)
           ms == Middlewares[f]
           onion == <<f>> \o ms
<1>0. /\ ms \in Seq(Hook) /\ Len(ms) \in Nat /\ DOMAIN ms = 1..Len(ms)
      /\ h = ms[n] /\ \A i \in 1..Len(ms) : Nth(f, i) = ms[i]
  BY LevelIsHook
<1>1. ASSUME NEW g \in Base \cup Table
      PROVE  h \in ToSet(Middlewares[g]) <=> g = f
  BY <1>0, HookAssumption DEF ToSet
<1>2. (CHOOSE g \in Base \cup Table : h \in ToSet(Middlewares[g])) = f
  BY <1>1
<1>3. /\ <<f>> \in Seq({f} \cup Hook) /\ ms \in Seq({f} \cup Hook)
      /\ Len(<<f>>) = 1
  BY <1>0, SeqMonotonic, Hook \subseteq {f} \cup Hook
<1>4. /\ Len(onion) = 1 + Len(ms)
      /\ \A j \in 1..Len(onion) : onion[j] = IF j = 1 THEN f ELSE ms[j - 1]
  BY <1>0, <1>3, ConcatProperties
<1>5. ASSUME NEW j \in 2..Len(onion)
      PROVE  onion[j] = h <=> j = n + 1
  <2>1. onion[j] = ms[j - 1] /\ j - 1 \in DOMAIN ms /\ n \in DOMAIN ms
    BY <1>0, <1>4
  <2>2. ms[j - 1] = ms[n] <=> j - 1 = n
    BY <2>1, HookAssumption
  <2> QED BY <1>0, <2>1, <2>2
<1>6. n + 1 \in 2..Len(onion)
  BY <1>0, <1>4
<1>7. (CHOOSE j \in 2..Len(onion) : onion[j] = h) = n + 1
  BY <1>5, <1>6
<1>8. Inner(h) = onion[n]
  <2>1. Inner(h) = onion[(n + 1) - 1]
    BY <1>2, <1>7 DEF Inner
  <2> QED BY <2>1, <1>0
<1>9. onion[n] = Nth(f, n - 1)
  <2>1. onion[n] = IF n = 1 THEN f ELSE ms[n - 1]
    BY <1>0, <1>4
  <2> QED BY <1>0, <2>1 DEF Nth
<1> QED BY <1>8, <1>9

LEMMA HookHasLevel ==
    ASSUME NEW h \in Hook
    PROVE  /\ Inner(h) \in FS
           /\ \E f \in Base \cup Table : \E n \in 1..Len(Middlewares[f]) :
                 h = Nth(f, n) /\ Inner(h) = Nth(f, n - 1)
<1>1. PICK f \in Base \cup Table : \E i \in DOMAIN Middlewares[f] : Middlewares[f][i] = h
  BY HookAssumption
<1>2. PICK n \in DOMAIN Middlewares[f] : Middlewares[f][n] = h
  BY <1>1
<1>3. n \in 1..Len(Middlewares[f]) /\ Len(Middlewares[f]) \in Nat /\ h = Nth(f, n)
  BY <1>2, LevelIsHook
<1>4. Inner(h) = Nth(f, n - 1)
  BY <1>3, InnerIsBelow
<1>5. Nth(f, n - 1) \in FS
  BY <1>3, LevelIsHook DEF Nth, FS
<1> QED BY <1>3, <1>4, <1>5

----------------------------------------------------------------------------
(* What a Put on g may be given, and a Get on g returns.                   *)
Suits(g, k, data) ==
    \E f \in Base \cup Table : \E n \in 0..Len(Middlewares[f]) :
       g = Nth(f, n) /\ Coded(f, n, k, data)

LEMMA SuitsAt ==
    ASSUME NEW f \in Base \cup Table, NEW n \in 0..Len(Middlewares[f]), NEW k, NEW data
    PROVE  Suits(Nth(f, n), k, data) <=> Coded(f, n, k, data)
<1>1. ASSUME Suits(Nth(f, n), k, data) PROVE Coded(f, n, k, data)
  <2>0. PICK g \in Base \cup Table : \E m \in 0..Len(Middlewares[g]) :
               Nth(f, n) = Nth(g, m) /\ Coded(g, m, k, data)
    BY <1>1 DEF Suits
  <2>1. PICK m \in 0..Len(Middlewares[g]) : Nth(f, n) = Nth(g, m) /\ Coded(g, m, k, data)
    BY <2>0
  <2>2. f = g /\ n = m
    BY <2>1, LevelsDiffer
  <2> QED BY <2>1, <2>2
<1>2. ASSUME Coded(f, n, k, data) PROVE Suits(Nth(f, n), k, data)
  BY <1>2 DEF Suits
<1> QED BY <1>1, <1>2

(* Where no other middleware codes, that is a payload.                     *)
LEMMA PlainSuits ==
    ASSUME NEW g, Plain(g), NEW k, NEW data
    PROVE  Suits(g, k, data) <=> data \in Payload
<1>0. PICK f \in Base \cup Table : \E n \in 0..Len(Middlewares[f]) :
             g = Nth(f, n) /\ CodersBeyond(f, n) = {}
  BY DEF Plain
<1>1. PICK n \in 0..Len(Middlewares[f]) : g = Nth(f, n) /\ CodersBeyond(f, n) = {}
  BY <1>0
<1> DEFINE T == Val \cup (Hook \X Key)
<1>2. ASSUME Coded(f, n, k, data) PROVE data \in Payload
  <2>1. /\ data \in Seq(T) /\ data # <<>> /\ Head(data) \in Val
        /\ \E by : by \in [2..Len(data) -> {}]
    BY <1>1, <1>2 DEF Coded
  <2>2. Len(data) \in Nat /\ Len(data) # 0 /\ data \in [1..Len(data) -> T]
    BY <2>1, LenProperties, EmptySeq
  <2>3. 2..Len(data) = {}
    BY <2>1
  <2>4. Len(data) = 1
    BY <2>2, <2>3
  <2>5. data = <<Head(data)>>
    BY <2>1, <2>2, <2>4
  <2> QED BY <2>1, <2>5 DEF Payload
<1>3. ASSUME data \in Payload PROVE Coded(f, n, k, data)
  <2>1. PICK v \in Val : data = <<v>>
    BY <1>3 DEF Payload
  <2>2. data \in Seq(T) /\ data # <<>> /\ Head(data) \in Val /\ Len(data) = 1
    BY <2>1
  <2>3. 2..Len(data) = {}
    BY <2>2
  <2>4. [i \in {} |-> n] \in [2..Len(data) -> CodersBeyond(f, n)]
    BY <2>3
  <2> QED BY <1>1, <2>2, <2>3, <2>4 DEF Coded
<1> QED BY <1>1, <1>2, <1>3, SuitsAt

LEMMA PlainIsFS ==
    ASSUME NEW g, Plain(g)
    PROVE  g \in FS
BY LevelIsHook DEF Plain, Nth, FS


----------------------------------------------------------------------------
(* Coding and decoding.                                                    *)

(* A middleware that codes is the innermost of those beyond the next one,  *)
(* one that does not makes no difference.                                  *)
LEMMA OneCoderMore ==
    ASSUME NEW f \in Base \cup Table, NEW n \in 1..Len(Middlewares[f])
    PROVE  /\ Middlewares[f][n] \in Coders => CodersBeyond(f, n - 1) = CodersBeyond(f, n) \cup {n}
           /\ Middlewares[f][n] \notin Coders => CodersBeyond(f, n - 1) = CodersBeyond(f, n)
           /\ \A c \in CodersBeyond(f, n) : c \in Nat /\ c > n
<1>1. Len(Middlewares[f]) \in Nat
  BY LevelIsHook
<1>2. (n - 1) + 1 = n /\ n \in Nat
  BY <1>1
<1>3. CodersBeyond(f, n - 1) = {i \in n..Len(Middlewares[f]) : Middlewares[f][i] \in Coders}
  BY <1>2 DEF CodersBeyond
<1> QED BY <1>1, <1>2, <1>3 DEF CodersBeyond

(* WrapPut makes of what suits a hook what suits the one it wraps.         *)
LEMMA WrapPutSuits ==
    ASSUME NEW h \in Hook, NEW k \in Key, NEW data, Suits(h, k, data)
    PROVE  Suits(Inner(h), k, WrapPut(h, k, data))
<1>1. PICK f \in Base \cup Table : \E n \in 1..Len(Middlewares[f]) :
             h = Nth(f, n) /\ Inner(h) = Nth(f, n - 1)
  BY HookHasLevel
<1>2. PICK n \in 1..Len(Middlewares[f]) : h = Nth(f, n) /\ Inner(h) = Nth(f, n - 1)
  BY <1>1
<1>3. /\ Len(Middlewares[f]) \in Nat /\ h = Middlewares[f][n]
      /\ n \in 0..Len(Middlewares[f]) /\ n - 1 \in 0..Len(Middlewares[f])
  BY <1>2, LevelIsHook
<1>4. Coded(f, n, k, data)
  BY <1>2, <1>3, SuitsAt
<1>5. CASE h \notin Coders
  <2>1. Coded(f, n - 1, k, data)
    BY <1>3, <1>4, <1>5, OneCoderMore DEF Coded
  <2> QED BY <1>2, <1>3, <1>5, <2>1, SuitsAt DEF WrapPut
<1>6. CASE h \in Coders
  <2> DEFINE T == Val \cup (Hook \X Key)
             d == Append(data, <<h, k>>)
             C == CodersBeyond(f, n)
  <2>1. data \in Seq(T) /\ data # <<>> /\ Head(data) \in Val
    BY <1>4 DEF Coded
  <2>2. PICK by \in [2..Len(data) -> C] :
          /\ \A i \in 2..Len(data) : data[i] = <<Middlewares[f][by[i]], k>>
          /\ \A i, j \in 2..Len(data) : i < j => by[i] > by[j]
          /\ \A c \in C : \E i \in 2..Len(data) : by[i] = c
    BY <1>4 DEF Coded
  <2>3. Len(data) \in Nat /\ Len(data) # 0
    BY <2>1, LenProperties, EmptySeq
  <2>4. /\ d \in Seq(T) /\ Len(d) = Len(data) + 1
        /\ \A i \in 1..Len(data) : d[i] = data[i]
        /\ d[Len(data) + 1] = <<h, k>>
    BY <2>1, AppendProperties
  <2>5. d # <<>> /\ Head(d) \in Val
    <3>1. Head(d) = d[1] /\ Head(data) = data[1]
      BY <2>1, <2>4
    <3> QED BY <2>1, <2>3, <2>4, <3>1, EmptySeq
  <2>6. CodersBeyond(f, n - 1) = C \cup {n} /\ \A c \in C : c \in Nat /\ c > n
    BY <1>3, <1>6, OneCoderMore
  <2> DEFINE L == Len(data)
             w == [i \in 2..(L + 1) |-> IF i = L + 1 THEN n ELSE by[i]]
  <2> HIDE DEF d, C, L
  <2>l. L \in Nat /\ L >= 1 /\ Len(d) = L + 1
    BY <2>3, <2>4 DEF L
  <2>7. w \in [2..Len(d) -> CodersBeyond(f, n - 1)]
    BY <2>2, <2>6, <2>l DEF L
  <2>8. \A i \in 2..Len(d) : d[i] = <<Middlewares[f][w[i]], k>>
    BY <1>3, <2>2, <2>4, <2>l DEF L
  <2>9. \A i, j \in 2..Len(d) : i < j => w[i] > w[j]
    <3> SUFFICES ASSUME NEW i \in 2..Len(d), NEW j \in 2..Len(d), i < j PROVE w[i] > w[j]
      OBVIOUS
    <3>1. i \in 2..L /\ w[i] = by[i] /\ by[i] \in C
      BY <2>2, <2>l DEF L
    <3>2. CASE j = L + 1
      <4>1. w[j] = n /\ by[i] > n /\ n \in Nat /\ by[i] \in Nat
        BY <1>3, <2>6, <2>l, <3>1, <3>2
      <4> QED BY <3>1, <4>1
    <3>3. CASE j # L + 1
      <4>1. j \in 2..L /\ w[j] = by[j]
        BY <2>l, <3>3
      <4>2. by[i] > by[j]
        BY <2>2, <3>1, <4>1 DEF L
      <4> QED BY <3>1, <4>1, <4>2
    <3> QED BY <3>2, <3>3
  <2>10. \A c \in CodersBeyond(f, n - 1) : \E i \in 2..Len(d) : w[i] = c
    <3> SUFFICES ASSUME NEW c \in CodersBeyond(f, n - 1) PROVE \E i \in 2..Len(d) : w[i] = c
      OBVIOUS
    <3>1. CASE c = n
      <4>1. L + 1 \in 2..Len(d) /\ w[L + 1] = n
        BY <2>l
      <4> QED BY <3>1, <4>1
    <3>2. CASE c \in C
      <4>1. PICK i \in 2..L : by[i] = c
        BY <2>2, <3>2 DEF L
      <4>2. i \in 2..Len(d) /\ w[i] = c
        BY <2>l, <4>1
      <4> QED BY <4>2
    <3> QED BY <2>6, <3>1, <3>2
  <2> HIDE DEF w
  <2>11. Coded(f, n - 1, k, d)
    BY <2>4, <2>5, <2>7, <2>8, <2>9, <2>10 DEF Coded
  <2>12. WrapPut(h, k, data) = d
    BY <1>6 DEF WrapPut, d
  <2> QED BY <1>2, <1>3, <2>11, <2>12, SuitsAt
<1> QED BY <1>5, <1>6

(* WrapGet takes that off again.                                           *)
LEMMA WrapGetSuits ==
    ASSUME NEW h \in Hook, NEW k, NEW data, Suits(Inner(h), k, data)
    PROVE  Suits(h, k, WrapGet(h, k, data))
<1>1. PICK f \in Base \cup Table : \E n \in 1..Len(Middlewares[f]) :
             h = Nth(f, n) /\ Inner(h) = Nth(f, n - 1)
  BY HookHasLevel
<1>2. PICK n \in 1..Len(Middlewares[f]) : h = Nth(f, n) /\ Inner(h) = Nth(f, n - 1)
  BY <1>1
<1>3. /\ Len(Middlewares[f]) \in Nat /\ h = Middlewares[f][n]
      /\ n \in 0..Len(Middlewares[f]) /\ n - 1 \in 0..Len(Middlewares[f])
  BY <1>2, LevelIsHook
<1>4. Coded(f, n - 1, k, data)
  BY <1>2, <1>3, SuitsAt
<1>5. CASE h \notin Coders
  <2>1. Coded(f, n, k, data)
    BY <1>3, <1>4, <1>5, OneCoderMore DEF Coded
  <2> QED BY <1>2, <1>3, <1>5, <2>1, SuitsAt DEF WrapGet
<1>6. CASE h \in Coders
  <2> DEFINE T == Val \cup (Hook \X Key)
             C == CodersBeyond(f, n)
             L == Len(data)
             d == Front(data)
  <2>1. data \in Seq(T) /\ data # <<>> /\ Head(data) \in Val
    BY <1>4 DEF Coded
  <2>6. CodersBeyond(f, n - 1) = C \cup {n} /\ \A c \in C : c \in Nat /\ c > n
    BY <1>3, <1>6, OneCoderMore
  <2>2. PICK by \in [2..L -> C \cup {n}] :
          /\ \A i \in 2..L : data[i] = <<Middlewares[f][by[i]], k>>
          /\ \A i, j \in 2..L : i < j => by[i] > by[j]
          /\ \A c \in C \cup {n} : \E i \in 2..L : by[i] = c
    BY <1>4, <2>6 DEF Coded
  <2>3. L \in Nat /\ L # 0
    BY <2>1, LenProperties, EmptySeq
  <2>4. PICK m \in 2..L : by[m] = n
    BY <2>2
  <2>5. m = L
    <3> SUFFICES ASSUME m < L PROVE FALSE
      BY <2>3, <2>4
    <3>1. L \in 2..L /\ by[L] \in C \cup {n} /\ by[m] > by[L]
      BY <2>2, <2>3, <2>4
    <3> QED BY <1>3, <2>4, <2>6, <3>1
  <2>7. L >= 2 /\ data[L] = <<h, k>>
    BY <1>3, <2>2, <2>3, <2>4, <2>5
  <2>8. /\ d \in Seq(T) /\ Len(d) = L - 1
        /\ \A i \in 1..(L - 1) : d[i] = data[i]
    <3>1. d = SubSeq(data, 1, L - 1)
      BY DEF Front
    <3> QED BY <2>1, <2>3, <3>1, SubSeqProperties
  <2>9. d # <<>> /\ Head(d) \in Val
    <3>1. Len(d) # 0
      BY <2>3, <2>7, <2>8
    <3>2. d # <<>>
      BY <3>1, EmptySeq
    <3>3. Head(d) = d[1] /\ Head(data) = data[1]
      BY <2>1, <2>8, <3>2
    <3> QED BY <2>1, <2>3, <2>7, <2>8, <3>2, <3>3
  <2> HIDE DEF d, C, L
  <2> DEFINE w == [i \in 2..(L - 1) |-> by[i]]
  <2>10. \A i \in 2..(L - 1) : i \in 2..L /\ by[i] \in C
    <3> SUFFICES ASSUME NEW i \in 2..(L - 1) PROVE i \in 2..L /\ by[i] \in C
      OBVIOUS
    <3>1. i \in 2..L /\ L \in 2..L /\ i < L
      BY <2>3, <2>7
    <3>2. by[i] > by[L] /\ by[L] = n /\ by[i] \in C \cup {n}
      BY <2>2, <2>4, <2>5, <3>1
    <3>3. by[i] # n
      BY <1>3, <3>2
    <3> QED BY <3>1, <3>2, <3>3
  <2>11. w \in [2..Len(d) -> C]
    BY <2>8, <2>10
  <2>12. \A i \in 2..Len(d) : d[i] = <<Middlewares[f][w[i]], k>>
    BY <2>2, <2>3, <2>8, <2>10
  <2>13. \A i, j \in 2..Len(d) : i < j => w[i] > w[j]
    BY <2>2, <2>8, <2>10
  <2>14. \A c \in C : \E i \in 2..Len(d) : w[i] = c
    <3> SUFFICES ASSUME NEW c \in C PROVE \E i \in 2..Len(d) : w[i] = c
      OBVIOUS
    <3>1. PICK i \in 2..L : by[i] = c
      BY <2>2
    <3>2. i # L
      BY <1>3, <2>4, <2>5, <2>6, <3>1
    <3>3. i \in 2..Len(d)
      BY <2>3, <2>8, <3>2
    <3> QED BY <2>8, <3>1, <3>3
  <2> HIDE DEF w
  <2>15. Coded(f, n, k, d)
    BY <2>8, <2>9, <2>11, <2>12, <2>13, <2>14 DEF Coded, C
  <2>16. WrapGet(h, k, data) = d
    <3>1. Last(data) = <<h, k>>
      BY <2>7 DEF Last, L
    <3> QED BY <1>6, <2>1, <3>1 DEF WrapGet, d
  <2> QED BY <1>2, <1>3, <2>15, <2>16, SuitsAt
<1> QED BY <1>5, <1>6


----------------------------------------------------------------------------
(* What a call carries, and what is done with its answer.                  *)

(* What comes back to a frame that waits for data.                         *)
Expects(frame) == \/ frame.at = "copy"
                  \/ frame.at = "hook" /\ frame.call.op = "get"

Fits(frame, data) ==
    IF frame.at = "copy" THEN data \in Payload
    ELSE Suits(Inner(frame.call.fs), frame.call.key, data)

(* What suits the call is what the frame waits for.                        *)
Answering(c, frame) ==
    Expects(frame) => c.op = "get" /\ \A data : Suits(c.fs, c.key, data) => Fits(frame, data)

CallSound(c) ==
    /\ c.op \in {"get", "put", "delete"} => /\ {"op", "fs", "key"} \subseteq DOMAIN c
                                            /\ c.fs \in FS /\ c.key \in Key
    /\ c.op = "put" => "data" \in DOMAIN c /\ Suits(c.fs, c.key, c.data)
    /\ c.op \in {"copy", "batch"} => c.fs \notin Hook
    /\ c.op = "copy" => Plain(c.fs) /\ c.key \in Key /\ c.dst \in Key
    /\ c.op \in {"create", "fill"} => /\ {"op", "fs", "key", "dst", "data"} \subseteq DOMAIN c
                                      /\ c.fs \in Base /\ Plain(c.fs)
                                      /\ {c.key, c.dst} \subseteq Sub /\ c.data \in Payload
    /\ c.op = "copydst" => c.fs \in Table /\ Plain(c.sfs) /\ c.key \in Key /\ c.skey \in Key
    /\ c.op = "copyto" => Plain(c.fs) /\ Plain(c.dfs) /\ c.key \in Key /\ c.dst \in Key

InLoop(c) == c.op \in {"put", "delete"} /\ CallSound(c)

FrameSound(f) ==
    /\ f.at \in {"hook", "copy", "loop"}
    /\ f.at = "hook" => f.call.fs \in Hook
    /\ f.at = "copy" => Plain(f.fs) /\ f.key \in Key
    /\ f.at = "loop" => \E C : f.todo \in Seq(C) /\ \A c \in C : InLoop(c)

(* A helper is at the bottom, and hooks are above it or alone.             *)
StackSound(s) ==
    /\ \A i \in 1..Len(s) : FrameSound(s[i])
    /\ \A i \in 2..Len(s) : s[i].at = "hook" /\ Answering(s[i].call, s[i - 1])

(* The calls that only clients and helpers make, when nothing else is left *)
(* to come back to.                                                        *)
Alone == {"copyto", "copy", "copydst", "create", "fill", "batch"} \cup Whole

(* A client at w with call c, frames s to come back to and answer a.       *)
SoundAt(w, c, s, a) ==
    /\ StackSound(s)
    /\ w \in {"next", "call", "rlock"} =>
          /\ CallSound(c)
          /\ c.op \in Alone => s = <<>>
          /\ s # <<>> => Answering(c, s[Len(s)])
    /\ w = "rlock" => c.fs \in Table /\ c.key # <<>>
    /\ w = "return" /\ a.res = "ok" /\ s # <<>> /\ Expects(s[Len(s)]) => Fits(s[Len(s)], a.data)

Sound(p) == SoundAt(pc[p], cur[p], stack[p], ans[p])

StoreShape == DOMAIN store = Base /\ \A b \in Base : DOMAIN store[b] = Sub

PlainMounts == \A t \in Table, n \in Name : mounts[t][n] = NoFS \/ Plain(mounts[t][n])

AnsShape(p) == {"res", "data"} \subseteq DOMAIN ans[p]

DataInv == /\ StoreShape /\ EverythingDecodes /\ PlainMounts
           /\ \A p \in Proc : Sound(p) /\ AnsShape(p)

----------------------------------------------------------------------------
(* Stacks.                                                                 *)

LEMMA EmptyIsSound == StackSound(<<>>)
<1>1. Len(<<>>) = 0
  OBVIOUS
<1> QED BY <1>1 DEF StackSound

LEMMA PushSound ==
    ASSUME NEW s, Stacked(s), StackSound(s), NEW f, FrameSound(f),
           s = <<>> \/ (f.at = "hook" /\ Answering(f.call, s[Len(s)]))
    PROVE  /\ StackSound(s \o <<f>>) /\ s \o <<f>> # <<>>
           /\ (s \o <<f>>)[Len(s \o <<f>>)] = f
<1>1. PICK S : s \in Seq(S)
  BY DEF Stacked
<1> DEFINE R == S \cup {f}
           t == s \o <<f>>
<1>2. s \in Seq(R) /\ <<f>> \in Seq(R) /\ Len(<<f>>) = 1 /\ <<f>>[1] = f
  BY <1>1, SeqMonotonic, S \subseteq R
<1>3. Len(s) \in Nat /\ (s = <<>> <=> Len(s) = 0)
  BY <1>1, LenProperties, EmptySeq
<1>4. /\ t \in Seq(R) /\ Len(t) = Len(s) + 1
      /\ \A i \in 1..Len(s) : t[i] = s[i]
      /\ t[Len(s) + 1] = f
  BY <1>2, <1>3, ConcatProperties
<1> HIDE DEF t
<1>5. t # <<>> /\ t[Len(t)] = f
  BY <1>3, <1>4, EmptySeq
<1>6. \A i \in 1..Len(t) : FrameSound(t[i])
  BY <1>3, <1>4 DEF StackSound
<1>7. \A i \in 2..Len(t) : t[i].at = "hook" /\ Answering(t[i].call, t[i - 1])
  <2> SUFFICES ASSUME NEW i \in 2..Len(t)
               PROVE  t[i].at = "hook" /\ Answering(t[i].call, t[i - 1])
    OBVIOUS
  <2>1. CASE i = Len(s) + 1
    <3>1. t[i] = f /\ t[i - 1] = s[Len(s)] /\ s # <<>>
      BY <1>3, <1>4, <2>1
    <3> QED BY <3>1
  <2>2. CASE i # Len(s) + 1
    <3>1. i \in 2..Len(s) /\ t[i] = s[i] /\ t[i - 1] = s[i - 1]
      BY <1>3, <1>4, <2>2
    <3> QED BY <3>1 DEF StackSound
  <2> QED BY <2>1, <2>2
<1> QED BY <1>5, <1>6, <1>7 DEF StackSound, t

LEMMA PopSound ==
    ASSUME NEW s, Stacked(s), StackSound(s), s # <<>>,
           NEW t, t = SubSeq(s, 1, Len(s) - 1)
    PROVE  /\ StackSound(t)
           /\ FrameSound(s[Len(s)])
           /\ t # <<>> => /\ s[Len(s)].at = "hook"
                          /\ Answering(s[Len(s)].call, t[Len(t)])
<1>1. PICK S : s \in Seq(S)
  BY DEF Stacked
<1>2. Len(s) \in Nat /\ Len(s) # 0
  BY <1>1, LenProperties, EmptySeq
<1>3. t \in Seq(S) /\ Len(t) = Len(s) - 1 /\ \A i \in 1..(Len(s) - 1) : t[i] = s[i]
  <2> DEFINE n == Len(s) - 1
  <2>1. n \in Nat /\ 1 \in Int /\ \A i \in 1..n : s[i] \in S
    BY <1>1, <1>2, ElementOfSeq
  <2> HIDE DEF n
  <2>2. SubSeq(s, 1, n) \in Seq(S)
    BY <2>1, SubSeqProperties
  <2>3. Len(SubSeq(s, 1, n)) = n
    BY <2>1, SubSeqProperties
  <2>4. \A i \in 1..n : SubSeq(s, 1, n)[i] = s[i]
    BY <2>1, SubSeqProperties
  <2> QED BY <2>2, <2>3, <2>4 DEF n
<1>4. StackSound(t)
  BY <1>2, <1>3 DEF StackSound
<1>5. t # <<>> => Len(s) \in 2..Len(s) /\ t[Len(t)] = s[Len(s) - 1]
  BY <1>2, <1>3, EmptySeq
<1> QED BY <1>2, <1>4, <1>5 DEF StackSound

(* A loop does the next of its calls.                                      *)
LEMMA LoopSound ==
    ASSUME NEW s, Stacked(s), StackSound(s), s # <<>>,
           s[Len(s)].at = "loop", s[Len(s)].todo # <<>>,
           NEW t, t = [s EXCEPT ![Len(s)].todo = Tail(@)]
    PROVE  /\ InLoop(Head(s[Len(s)].todo))
           /\ StackSound(t) /\ t # <<>> /\ t[Len(t)].at = "loop"
<1>1. PICK S : s \in Seq(S)
  BY DEF Stacked
<1>2. Len(s) \in Nat /\ Len(s) # 0 /\ s \in [1..Len(s) -> S]
  BY <1>1, LenProperties, EmptySeq
<1>3. Len(s) = 1
  <2>1. Len(s) \notin 2..Len(s)
    BY DEF StackSound
  <2> QED BY <1>2, <2>1
<1> DEFINE f == s[1]
           g == [f EXCEPT !.todo = Tail(@)]
<1>4. t = [i \in {1} |-> g]
  <2>1. t = [s EXCEPT ![1] = g]
    BY <1>3
  <2>2. s \in [{1} -> S]
    BY <1>2, <1>3
  <2> HIDE DEF g
  <2> QED BY <2>1, <2>2
<1>5. FrameSound(f) /\ f.at = "loop" /\ f.todo # <<>>
  BY <1>3 DEF StackSound
<1>6. PICK C : f.todo \in Seq(C) /\ \A c \in C : InLoop(c)
  BY <1>5 DEF FrameSound
<1>7. Head(f.todo) \in C /\ Tail(f.todo) \in Seq(C)
  BY <1>5, <1>6, HeadTailProperties
<1>8. FrameSound(g) /\ g.at = "loop"
  <2>1. g.at = f.at /\ (g.todo = Tail(f.todo) \/ g = f)
    OBVIOUS
  <2> HIDE DEF g, f
  <2> QED BY <1>5, <1>6, <1>7, <2>1 DEF FrameSound
<1> HIDE DEF f, g
<1>9. t \in Seq({g}) /\ Len(t) = 1 /\ t[1] = g
  <2>0. 1..1 = {1} /\ 1 \in Nat
    OBVIOUS
  <2>1. t \in [1..1 -> {g}] /\ t[1] = g
    BY <1>4, <2>0
  <2>2. t \in Seq({g})
    <3>1. t \in UNION {[1..n -> {g}] : n \in Nat}
      BY <2>0, <2>1
    <3> QED BY <3>1, SeqDef
  <2>3. DOMAIN t = 1..Len(t) /\ Len(t) \in Nat
    BY <2>2, LenProperties
  <2>4. Len(t) = 1
    <3>1. 1 \in 1..Len(t) /\ \A i \in 1..Len(t) : i = 1
      BY <1>4, <2>3
    <3>2. Len(t) \in 1..Len(t)
      BY <2>3, <3>1
    <3> QED BY <3>1, <3>2
  <2> QED BY <2>1, <2>2, <2>4
<1>10. StackSound(t)
  BY <1>8, <1>9 DEF StackSound
<1> QED BY <1>3, <1>6, <1>7, <1>8, <1>9, <1>10, EmptySeq DEF f


----------------------------------------------------------------------------
(* Answers.                                                                *)

(* A failure may go anywhere, and only a Get has data to bring.            *)
LEMMA AnswerSound ==
    ASSUME NEW w, NEW c, NEW s, NEW a, SoundAt(w, c, s, a), w \in {"next", "call", "rlock"},
           NEW b, NEW d, b.res = "ok" /\ c.op = "get" => Suits(c.fs, c.key, b.data)
    PROVE  SoundAt("return", d, s, b)
BY DEF SoundAt, Answering

(* A hook hands on what came back, decoded, or something else came back.   *)
LEMMA HookSound ==
    ASSUME NEW c, NEW s, NEW a, SoundAt("return", c, s, a), Stacked(s),
           s # <<>>, s[Len(s)].at = "hook",
           NEW t, t = SubSeq(s, 1, Len(s) - 1),
           NEW b, b.res = "ok" => a.res = "ok",
           LET call == s[Len(s)].call
           IN  a.res = "ok" /\ call.op = "get" => b.data = WrapGet(call.fs, call.key, a.data)
    PROVE  SoundAt("return", c, t, b)
<1> DEFINE f == s[Len(s)]
<1>1. /\ StackSound(t) /\ FrameSound(f)
      /\ t # <<>> => Answering(f.call, t[Len(t)])
  BY PopSound DEF SoundAt
<1>2. ASSUME b.res = "ok", t # <<>>, Expects(t[Len(t)])
      PROVE  Fits(t[Len(t)], b.data)
  <2>1. /\ f.call.op = "get"
        /\ \A data : Suits(f.call.fs, f.call.key, data) => Fits(t[Len(t)], data)
    BY <1>1, <1>2 DEF Answering
  <2>2. Fits(f, a.data)
    BY <1>2, <2>1 DEF SoundAt, Expects
  <2>3. Suits(Inner(f.call.fs), f.call.key, a.data) /\ f.call.fs \in Hook
    BY <1>1, <2>2 DEF Fits, FrameSound
  <2>4. Suits(f.call.fs, f.call.key, b.data)
    BY <1>2, <2>1, <2>3, WrapGetSuits
  <2> QED BY <2>1, <2>4
<1> QED BY <1>1, <1>2 DEF SoundAt

(* Nothing is left to come back to but what a helper put on top.           *)
LEMMA HelperIsAlone ==
    ASSUME NEW s, Stacked(s), StackSound(s), s # <<>>, s[Len(s)].at # "hook"
    PROVE  SubSeq(s, 1, Len(s) - 1) = <<>>
BY PopSound

(* A call that begins, with frames left to come back to.                   *)
LEMMA BecomeSound ==
    ASSUME NEW w \in {"next", "call"}, NEW c, CallSound(c), NEW f, FrameSound(f),
           Answering(c, f), c.op \notin Alone,
           NEW s, Stacked(s), StackSound(s),
           s = <<>> \/ (f.at = "hook" /\ Answering(f.call, s[Len(s)])),
           NEW a
    PROVE  SoundAt(w, c, s \o <<f>>, a)
<1>1. /\ StackSound(s \o <<f>>) /\ s \o <<f>> # <<>>
      /\ (s \o <<f>>)[Len(s \o <<f>>)] = f
  BY PushSound
<1> QED BY <1>1 DEF SoundAt

(* Copy: by the file system itself, or Get first.                          *)
LEMMA CopyToSound ==
    ASSUME Domains, NEW p \in Proc, stack[p] = <<>>,
           NEW f, Plain(f), NEW g, Plain(g), NEW k \in Key, NEW l \in Key, CopyTo(p, f, k, g, l)
    PROVE  SoundAt(pc'[p], cur'[p], stack'[p], ans'[p])
<1>1. pc'[p] = "call"
  BY DEF CopyTo, Goto, Domains, LockTypeOK
<1>2. CASE f = g /\ Offers(f, Copiers \cup Table)
  <2> DEFINE c == [op |-> "copy", fs |-> f, key |-> k, dst |-> l]
  <2>1. cur'[p] = c /\ stack'[p] = <<>> \o <<>>
    BY <1>2 DEF CopyTo, Become, Domains, LockTypeOK
  <2>2. stack'[p] = <<>>
    BY <2>1, StackEmpty, StackSame
  <2>3. f \notin Hook
    BY <1>2, InterfaceAssumption, CompositionAssumption DEF Offers
  <2>4. CallSound(c)
    BY <2>3 DEF CallSound
  <2> HIDE DEF c
  <2> QED BY <1>1, <2>1, <2>2, <2>4, EmptyIsSound DEF SoundAt
<1>3. CASE ~(f = g /\ Offers(f, Copiers \cup Table))
  <2> DEFINE frame == [at |-> "copy", fs |-> g, key |-> l]
  <2>1. cur'[p] = GetAt(f, k) /\ stack'[p] = <<>> \o <<frame>>
    BY <1>3 DEF CopyTo, Become, Domains, LockTypeOK
  <2>2. CallSound(GetAt(f, k)) /\ GetAt(f, k).op \notin Alone
    BY PlainIsFS DEF CallSound, GetAt, Alone, Whole
  <2>3. FrameSound(frame)
    BY DEF FrameSound
  <2>4. Answering(GetAt(f, k), frame)
    BY PlainSuits DEF Answering, GetAt, Fits
  <2> HIDE DEF frame
  <2> QED BY <1>1, <2>1, <2>2, <2>3, <2>4, BecomeSound, EmptyIsSound, StackEmpty
<1> QED BY <1>2, <1>3

(* A loop begins.                                                          *)
LEMMA LoopBegins ==
    ASSUME Domains, NEW p \in Proc, stack[p] = <<>>,
           NEW C, \A c \in C : InLoop(c), NEW todo \in Seq(C), Loop(p, todo)
    PROVE  SoundAt(pc'[p], cur'[p], stack'[p], ans'[p])
<1>1. CASE todo = <<>>
  <2>1. stack'[p] = <<>> /\ pc'[p] = "return"
    BY <1>1 DEF Loop, Answer, Goto, Domains, LockTypeOK
  <2> QED BY <2>1, EmptyIsSound DEF SoundAt
<1>2. CASE todo # <<>>
  <2> DEFINE frame == [at |-> "loop", todo |-> Tail(todo)]
  <2>1. Head(todo) \in C /\ Tail(todo) \in Seq(C)
    BY <1>2, HeadTailProperties
  <2>2. pc'[p] = "next" /\ cur'[p] = Head(todo) /\ stack'[p] = <<>> \o <<frame>>
    BY <1>2 DEF Loop, Become, Goto, Domains, LockTypeOK
  <2>3. FrameSound(frame)
    BY <2>1 DEF FrameSound
  <2>4. CallSound(Head(todo)) /\ Head(todo).op \notin Alone
    BY <2>1 DEF InLoop, Alone, Whole
  <2>5. Answering(Head(todo), frame)
    BY DEF Answering, Expects
  <2> HIDE DEF frame
  <2> QED BY <2>2, <2>3, <2>4, <2>5, BecomeSound, EmptyIsSound, StackEmpty
<1> QED BY <1>1, <1>2


----------------------------------------------------------------------------
(* The steps of a call.                                                    *)

(* What is decoded is what a base returns.                                 *)
LEMMA BaseSuits ==
    ASSUME NEW b \in Base, NEW k, NEW data
    PROVE  Suits(b, k, data) <=> Coded(b, 0, k, data)
<1>1. 0 \in 0..Len(Middlewares[b]) /\ b = Nth(b, 0)
  BY LevelIsHook
<1> QED BY <1>1, SuitsAt

LEMMA BaseAnswers ==
    ASSUME Domains, EverythingDecodes, NEW p \in Proc, Sound(p), BaseReturns(p) \/ Refuse(p)
    PROVE  Sound(p)'
<1> USE DEF At, Goto, Domains, LockTypeOK
<1>1. /\ SoundAt(pc[p], cur[p], stack[p], ans[p]) /\ pc[p] = "call"
      /\ pc'[p] = "return" /\ stack'[p] = stack[p]
  BY BaseReturning DEF Sound, Refuse, Calling, Answer
<1>2. ASSUME ans'[p].res = "ok", cur[p].op = "get"
      PROVE  Suits(cur[p].fs, cur[p].key, ans'[p].data)
  <2>1. Get(p)
    BY <1>2 DEF BaseReturns, Put, Delete, CopyObject, CopyFills, DeleteObjects, Fail, Lost, Refuse,
                Calling, Answer
  <2>2. ans'[p].data = Held(p) /\ Held(p) # NoFile /\ cur[p].fs \in Base /\ cur[p].key \in Sub
    BY <1>2, <2>1 DEF Get, Calling, Answer
  <2>3. Coded(cur[p].fs, 0, cur[p].key, Held(p))
    BY <2>2 DEF EverythingDecodes, Held
  <2> QED BY <2>2, <2>3, BaseSuits
<1>3. SoundAt("return", cur'[p], stack[p], ans'[p])
  BY <1>1, <1>2, AnswerSound
<1> QED BY <1>1, <1>3 DEF Sound

(* Only a base that no hook codes for is asked to copy: what its Copy has  *)
(* opened is a payload.                                                    *)
LEMMA CopyOpensSound ==
    ASSUME Domains, EverythingDecodes, NEW p \in Proc, Sound(p), CopyOpens(p)
    PROVE  Sound(p)'
<1> DEFINE c == cur[p]
           d == [op |-> "create", fs |-> c.fs, key |-> c.key, dst |-> c.dst, data |-> Held(p)]
<1>1. /\ SoundAt("call", c, stack[p], ans[p]) /\ c.op = "copy"
      /\ c.fs \in Base /\ {c.key, c.dst} \subseteq Sub
  BY DEF Sound, CopyOpens, Calling, At, Local
<1>2. CallSound(c) /\ stack[p] = <<>>
  BY <1>1 DEF SoundAt, Alone
<1>3. CASE Held(p) = NoFile
  <2>1. pc'[p] = "return" /\ stack'[p] = <<>>
    BY <1>2, <1>3 DEF CopyOpens, Answer, Goto, Domains, LockTypeOK
  <2> QED BY <2>1, EmptyIsSound DEF Sound, SoundAt
<1>4. CASE Held(p) # NoFile
  <2>1. pc'[p] = "call" /\ cur'[p] = d /\ stack'[p] = <<>> \o <<>>
    BY <1>2, <1>4 DEF CopyOpens, Become, Goto, Domains, LockTypeOK
  <2>2. stack'[p] = <<>>
    BY <2>1, StackEmpty, StackSame
  <2>3. Plain(c.fs)
    BY <1>1, <1>2 DEF CallSound
  <2>4. Coded(c.fs, 0, c.key, Held(p))
    BY <1>1, <1>4 DEF EverythingDecodes, Held
  <2>5. Held(p) \in Payload
    BY <1>1, <2>3, <2>4, BaseSuits, PlainSuits
  <2>6. CallSound(d)
    BY <1>1, <2>3, <2>5 DEF CallSound
  <2> HIDE DEF d
  <2> QED BY <2>1, <2>2, <2>6, EmptyIsSound DEF Sound, SoundAt
<1> QED BY <1>3, <1>4

LEMMA CopyCreatesSound ==
    ASSUME Domains, NEW p \in Proc, Runs(p), Sound(p), CopyCreates(p)
    PROVE  Sound(p)'
<1> DEFINE c == cur[p]
           d == [c EXCEPT !.op = "fill"]
<1>1. SoundAt("call", c, stack[p], ans[p]) /\ c.op = "create" /\ pc[p] = "call"
  BY DEF Sound, CopyCreates, Calling, At
<1>2. CallSound(c) /\ stack[p] = <<>>
  BY <1>1 DEF SoundAt, Alone
<1>3. pc'[p] = "call" /\ cur'[p] = d /\ stack'[p] = <<>> \o <<>>
  BY <1>1, <1>2 DEF CopyCreates, Become, Domains, LockTypeOK
<1>4. stack'[p] = <<>>
  BY <1>3, StackEmpty, StackSame
<1>5. /\ {"op", "fs", "key", "dst", "data"} \subseteq DOMAIN c
      /\ c.fs \in Base /\ Plain(c.fs) /\ {c.key, c.dst} \subseteq Sub /\ c.data \in Payload
  BY <1>1, <1>2 DEF CallSound
<1>6. /\ d.op = "fill" /\ d.fs = c.fs /\ d.key = c.key /\ d.dst = c.dst /\ d.data = c.data
      /\ DOMAIN d = DOMAIN c
  BY <1>5
<1> HIDE DEF c, d
<1>7. CallSound(d)
  BY <1>5, <1>6 DEF CallSound
<1> QED BY <1>3, <1>4, <1>7, EmptyIsSound DEF Sound, SoundAt

LEMMA ForwardSound ==
    ASSUME Domains, NEW p \in Proc, Runs(p), Sound(p), Forward(p)
    PROVE  Sound(p)'
<1> DEFINE c == cur[p]
           f == [at |-> "hook", call |-> c]
           inner == [c EXCEPT !.fs = Inner(c.fs)]
           d == IF c.op = "put" THEN [inner EXCEPT !.data = WrapPut(c.fs, c.key, @)] ELSE inner
<1>1. /\ SoundAt("call", c, stack[p], ans[p])
      /\ c.fs \in Hook /\ c.op \in {"get", "put", "delete", "copy", "batch"}
      /\ pc[p] = "call"
  BY DEF Sound, Forward, At
<1>2. pc'[p] = "call" /\ cur'[p] = d /\ stack'[p] = stack[p] \o <<f>> /\ ans'[p] = ans[p]
  BY <1>1 DEF Forward, Become, Domains, LockTypeOK
<1>3. CallSound(c) /\ c.op \in {"get", "put", "delete"}
  BY <1>1 DEF SoundAt, CallSound
<1>4. /\ {"op", "fs", "key"} \subseteq DOMAIN c /\ c.key \in Key
      /\ c.op = "put" => "data" \in DOMAIN c /\ Suits(c.fs, c.key, c.data)
  BY <1>3 DEF CallSound
<1>5. /\ inner.op = c.op /\ inner.key = c.key /\ inner.fs = Inner(c.fs)
      /\ {"op", "fs", "key"} \subseteq DOMAIN inner
      /\ c.op = "put" => "data" \in DOMAIN inner /\ inner.data = c.data
  BY <1>4
<1> HIDE DEF inner
<1>6. /\ d.op = c.op /\ d.key = c.key /\ d.fs = Inner(c.fs)
      /\ {"op", "fs", "key"} \subseteq DOMAIN d
      /\ c.op = "put" => "data" \in DOMAIN d /\ d.data = WrapPut(c.fs, c.key, c.data)
  BY <1>5
<1>7. f.at = "hook" /\ f.call = c
  OBVIOUS
<1>8. Stacked(stack[p]) /\ StackSound(stack[p])
  BY <1>1 DEF Runs, SoundAt
<1>9. stack[p] = <<>> \/ Answering(c, stack[p][Len(stack[p])])
  BY <1>1 DEF SoundAt
<1> HIDE DEF c, d, f
<1>10. c.op = "put" => Suits(d.fs, d.key, d.data)
  BY <1>1, <1>4, <1>6, WrapPutSuits
<1>11. CallSound(d) /\ d.op \notin Alone
  BY <1>1, <1>3, <1>4, <1>6, <1>10, HookHasLevel DEF CallSound, Alone, Whole
<1>12. FrameSound(f) /\ Answering(d, f)
  BY <1>1, <1>6, <1>7 DEF FrameSound, Answering, Expects, Fits
<1>13. SoundAt("call", d, stack[p] \o <<f>>, ans[p])
  BY <1>7, <1>8, <1>9, <1>11, <1>12, BecomeSound
<1> QED BY <1>2, <1>13 DEF Sound

LEMMA HookReturnsSound ==
    ASSUME Domains, NEW p \in Proc, Runs(p), Sound(p), AnsShape(p), HookReturns(p)
    PROVE  Sound(p)'
<1> DEFINE s == stack[p]
           call == s[Len(s)].call
<1>1. /\ SoundAt("return", cur[p], s, ans[p]) /\ Stacked(s)
      /\ s # <<>> /\ s[Len(s)].at = "hook" /\ pc[p] = "return"
  BY DEF Sound, HookReturns, At, Top, Runs
<1>2. /\ pc'[p] = "return" /\ cur'[p] = cur[p] /\ stack'[p] = SubSeq(s, 1, Len(s) - 1)
  BY <1>1 DEF HookReturns, Pop, Domains
<1>3. CASE call.op = "get" /\ ans[p].res = "ok"
  <2>1. ans'[p] = [ans[p] EXCEPT !.data = WrapGet(call.fs, call.key, @)]
    BY <1>3 DEF HookReturns, Top, Domains
  <2>2. ans'[p].data = WrapGet(call.fs, call.key, ans[p].data)
    BY <2>1 DEF AnsShape
  <2>3. SoundAt("return", cur[p], SubSeq(s, 1, Len(s) - 1), ans'[p])
    BY <1>1, <1>3, <2>2, HookSound
  <2> QED BY <1>2, <2>3 DEF Sound
<1>4. CASE ~(call.op = "get" /\ ans[p].res = "ok")
  <2>1. ans'[p] = ans[p]
    BY <1>4 DEF HookReturns, Top
  <2>2. SoundAt("return", cur[p], SubSeq(s, 1, Len(s) - 1), ans[p])
    BY ZenonT(60), <1>1, <1>4, HookSound
  <2> QED BY <1>2, <2>1, <2>2 DEF Sound
<1> QED BY <1>3, <1>4


LEMMA CopySound ==
    ASSUME Domains, NEW p \in Proc, Sound(p), Copy(p)
    PROVE  Sound(p)'
<1>1. SoundAt("call", cur[p], stack[p], ans[p]) /\ cur[p].op = "copyto" /\ pc[p] = "call"
  BY DEF Sound, Copy, At
<1>2. CallSound(cur[p]) /\ stack[p] = <<>>
  BY <1>1 DEF SoundAt, Alone
<1>3. /\ Plain(cur[p].fs) /\ Plain(cur[p].dfs) /\ cur[p].key \in Key /\ cur[p].dst \in Key
      /\ CopyTo(p, cur[p].fs, cur[p].key, cur[p].dfs, cur[p].dst)
  BY <1>1, <1>2 DEF CallSound, Copy
<1>4. SoundAt(pc'[p], cur'[p], stack'[p], ans'[p])
  BY <1>2, <1>3, CopyToSound
<1> QED BY <1>4 DEF Sound

LEMMA BatchDeleteSound ==
    ASSUME Domains, NEW p \in Proc, Runs(p), Sound(p), BatchDelete(p)
    PROVE  Sound(p)'
<1> DEFINE c == cur[p]
<1>1. SoundAt("call", c, stack[p], ans[p]) /\ c.op = "batchdelete" /\ pc[p] = "call"
  BY DEF Sound, BatchDelete, At
<1>2. stack[p] = <<>>
  BY <1>1 DEF SoundAt, Alone, Whole
<1>3. c \in [op : {"batchdelete"}, fs : FS, keys : Seq(Key)]
  <2>1. c \in ClientCall
    BY <1>1, ClientAssumption DEF Runs, Whole
  <2> QED BY <1>1, <2>1 DEF ClientCall
<1>4. CASE Offers(c.fs, BatchDeleters)
  <2> DEFINE d == [op |-> "batch", fs |-> c.fs, keys |-> c.keys]
  <2>1. pc'[p] = "call" /\ cur'[p] = d /\ stack'[p] = <<>> \o <<>>
    BY <1>2, <1>4 DEF BatchDelete, Become, Goto, Domains, LockTypeOK
  <2>2. stack'[p] = <<>>
    BY <2>1, StackEmpty, StackSame
  <2>3. CallSound(d)
    BY <1>4, InterfaceAssumption, CompositionAssumption DEF CallSound, Offers
  <2> HIDE DEF d
  <2> QED BY <2>1, <2>2, <2>3, EmptyIsSound DEF Sound, SoundAt
<1>5. CASE ~Offers(c.fs, BatchDeleters)
  <2> DEFINE e(i) == DelAt(c.fs, c.keys[i])
             todo == [i \in DOMAIN c.keys |-> e(i)]
             C == {DelAt(c.fs, k) : k \in Key}
  <2>1. Loop(p, todo)
    BY <1>5 DEF BatchDelete
  <2>2. \A x \in C : InLoop(x)
    BY <1>3 DEF InLoop, CallSound, DelAt
  <2>3. todo \in Seq(C)
    <3>1. Len(c.keys) \in Nat /\ DOMAIN c.keys = 1..Len(c.keys)
      BY <1>3, LenProperties
    <3>2. \A i \in 1..Len(c.keys) : e(i) \in C
      BY <1>3, ElementOfSeq
    <3> HIDE DEF C, e
    <3>3. [i \in 1..Len(c.keys) |-> e(i)] \in Seq(C)
      BY <3>1, <3>2, IsASeq
    <3> QED BY <3>1, <3>3
  <2> HIDE DEF C, todo
  <2>4. SoundAt(pc'[p], cur'[p], stack'[p], ans'[p])
    BY <1>2, <2>1, <2>2, <2>3, LoopBegins
  <2> QED BY <2>4 DEF Sound
<1> QED BY <1>4, <1>5

LEMMA UnpackSound ==
    ASSUME ThroughHooks, Domains, NEW p \in Proc, Runs(p), Sound(p), Unpack(p)
    PROVE  Sound(p)'
<1> DEFINE c == cur[p]
           fs == c.files
<1>1. SoundAt("call", c, stack[p], ans[p]) /\ c.op = "unpack" /\ pc[p] = "call"
  BY DEF Sound, Unpack, At
<1>2. stack[p] = <<>>
  BY <1>1 DEF SoundAt, Alone, Whole
<1>3. c \in Calls[p]
  BY <1>1 DEF Runs, Whole
<1>4. c \in [op : {"unpack"}, fs : FS, files : Seq([key : Key, data : Payload])]
  <2>1. c \in ClientCall
    BY <1>3, ClientAssumption
  <2> QED BY <1>1, <2>1 DEF ClientCall
<1>5. Plain(c.fs)
  BY <1>1, <1>3 DEF ThroughHooks
<1> DEFINE e(i) == PutAt(c.fs, fs[i].key, fs[i].data)
           todo == [i \in DOMAIN fs |-> e(i)]
           C == {PutAt(c.fs, k, d) : k \in Key, d \in Payload}
<1>6. Loop(p, todo)
  BY DEF Unpack
<1>7. \A x \in C : InLoop(x)
  <2> SUFFICES ASSUME NEW k \in Key, NEW d \in Payload PROVE InLoop(PutAt(c.fs, k, d))
    OBVIOUS
  <2>1. Suits(c.fs, k, d)
    BY <1>5, PlainSuits
  <2> QED BY <1>4, <2>1 DEF InLoop, CallSound, PutAt
<1>8. todo \in Seq(C)
  <2>1. Len(fs) \in Nat /\ DOMAIN fs = 1..Len(fs)
    BY <1>4, LenProperties
  <2>2. \A i \in 1..Len(fs) : e(i) \in C
    <3> SUFFICES ASSUME NEW i \in 1..Len(fs) PROVE e(i) \in C
      OBVIOUS
    <3>1. fs[i] \in [key : Key, data : Payload]
      BY <1>4, ElementOfSeq
    <3> QED BY <3>1
  <2> HIDE DEF C, e
  <2>3. [i \in 1..Len(fs) |-> e(i)] \in Seq(C)
    BY <2>1, <2>2, IsASeq
  <2> QED BY <2>1, <2>3
<1> HIDE DEF C, todo
<1>9. SoundAt(pc'[p], cur'[p], stack'[p], ans'[p])
  BY <1>2, <1>6, <1>7, <1>8, LoopBegins
<1> QED BY <1>9 DEF Sound

LEMMA PutCopySound ==
    ASSUME Domains, NEW p \in Proc, Runs(p), Sound(p), PutCopy(p)
    PROVE  Sound(p)'
<1> DEFINE s == stack[p]
           f == s[Len(s)]
<1>1. /\ SoundAt("return", cur[p], s, ans[p]) /\ Stacked(s)
      /\ s # <<>> /\ f.at = "copy" /\ pc[p] = "return"
  BY DEF Sound, PutCopy, At, Top, Runs
<1>2. stack'[p] = SubSeq(s, 1, Len(s) - 1)
  BY DEF PutCopy, Pop, Domains
<1>3. stack'[p] = <<>> /\ FrameSound(f)
  BY <1>1, <1>2, PopSound DEF SoundAt
<1>4. CASE ans[p].res = "ok"
  <2> DEFINE c == PutAt(f.fs, f.key, ans[p].data)
  <2>1. pc'[p] = "next" /\ cur'[p] = c
    BY <1>4 DEF PutCopy, Goto, Top, Domains, LockTypeOK
  <2>2. ans[p].data \in Payload
    BY <1>1, <1>4 DEF SoundAt, Expects, Fits
  <2>3. Plain(f.fs) /\ f.key \in Key
    BY <1>1, <1>3 DEF FrameSound
  <2>4. CallSound(c)
    BY <2>2, <2>3, PlainSuits, PlainIsFS DEF CallSound, PutAt
  <2> HIDE DEF c
  <2> QED BY <1>3, <2>1, <2>4, EmptyIsSound DEF Sound, SoundAt
<1>5. CASE ans[p].res # "ok"
  <2>1. pc'[p] = "return"
    BY <1>1, <1>5 DEF PutCopy
  <2> QED BY <1>3, <2>1, EmptyIsSound DEF Sound, SoundAt
<1> QED BY <1>4, <1>5

LEMMA LoopOnSound ==
    ASSUME Domains, NEW p \in Proc, Runs(p), Sound(p), LoopOn(p)
    PROVE  Sound(p)'
<1> DEFINE s == stack[p]
           f == s[Len(s)]
<1>1. /\ SoundAt("return", cur[p], s, ans[p]) /\ Stacked(s) /\ StackSound(s)
      /\ s # <<>> /\ f.at = "loop" /\ pc[p] = "return"
  BY DEF Sound, LoopOn, At, Top, Runs, SoundAt
<1>2. CASE Pop(p) /\ UNCHANGED <<pc, cur, ans>>
  <2>1. stack'[p] = SubSeq(s, 1, Len(s) - 1)
    BY <1>2 DEF Pop, Domains
  <2>2. stack'[p] = <<>>
    BY <1>1, <2>1, HelperIsAlone
  <2> QED BY <1>1, <1>2, <2>2, EmptyIsSound DEF Sound, SoundAt
<1>3. CASE /\ f.todo # <<>>
           /\ cur' = [cur EXCEPT ![p] = Head(f.todo)]
           /\ stack' = [stack EXCEPT ![p][Len(stack[p])].todo = Tail(@)]
           /\ Goto(p, "next")
  <2> DEFINE t == [s EXCEPT ![Len(s)].todo = Tail(@)]
  <2>1. pc'[p] = "next" /\ cur'[p] = Head(f.todo) /\ stack'[p] = t
    BY <1>3 DEF Goto, Domains, LockTypeOK
  <2>2. /\ InLoop(Head(f.todo))
        /\ StackSound(t) /\ t # <<>> /\ t[Len(t)].at = "loop"
    BY <1>1, <1>3, LoopSound
  <2> HIDE DEF t
  <2>3. Answering(Head(f.todo), t[Len(t)]) /\ Head(f.todo).op \notin Alone
    BY <2>2 DEF Answering, Expects, InLoop, Alone, Whole
  <2>4. SoundAt("next", Head(f.todo), t, ans'[p])
    BY <2>2, <2>3 DEF SoundAt, InLoop
  <2> QED BY <2>1, <2>4 DEF Sound
<1> QED BY <1>2, <1>3 DEF LoopOn, Top


(* A table passes a call on, with a shorter key: no hook around it codes.  *)
LEMMA LookupSound ==
    ASSUME ThroughHooks, Domains, PlainMounts, NEW p \in Proc,
           Runs(p), Asks(p), Sound(p), Lookup(p)
    PROVE  Sound(p)'
<1> DEFINE c == cur[p]
           f == mounts[c.fs][Head(c.key)]
           sub == Tail(c.key)
<1>1. /\ SoundAt("rlock", c, stack[p], ans[p]) /\ PassOn(p, f)
      /\ c.op \in Routed /\ pc[p] = "rlock"
  BY DEF Sound, Lookup, At, Asks
<1>2. CallSound(c) /\ c.fs \in Table /\ c.key # <<>> /\ StackSound(stack[p])
  BY <1>1 DEF SoundAt
<1>3. c.key \in Key
  BY <1>1, <1>2 DEF CallSound, Routed
<1>4. sub \in Key /\ Head(c.key) \in Name
  BY <1>2, <1>3, ClientAssumption, HeadTailProperties
<1>5. Plain(c.fs) /\ (f = NoFS \/ Plain(f))
  BY <1>2, <1>4 DEF PlainMounts, ThroughHooks
<1>6. Stacked(stack[p])
  BY DEF Runs
<1> HIDE DEF f, sub
<1>7. CASE f = NoFS
  <2>1. pc'[p] = "return" /\ stack'[p] = stack[p] /\ ans'[p].res = "notfound"
    BY <1>1, <1>7 DEF PassOn, Answer, Goto, Domains, LockTypeOK
  <2> QED BY <1>2, <2>1 DEF Sound, SoundAt
<1>8. CASE f # NoFS /\ c.op = "copy"
  <2> DEFINE d == [op |-> "copydst", fs |-> c.fs, key |-> c.dst, sfs |-> f, skey |-> sub]
  <2>0. stack[p] = <<>>
    BY <1>1, <1>8 DEF SoundAt, Alone
  <2>1. pc'[p] = "call" /\ cur'[p] = d /\ stack'[p] = <<>> \o <<>>
    <3>1. AskForDst(p, f, sub)
      BY <1>1, <1>8 DEF PassOn, sub
    <3> QED BY <2>0, <3>1 DEF AskForDst, Become, Goto, Domains, LockTypeOK
  <2>2. stack'[p] = <<>>
    BY <2>1, StackEmpty, StackSame
  <2>3. CallSound(d)
    BY <1>2, <1>4, <1>5, <1>8 DEF CallSound
  <2> HIDE DEF d
  <2> QED BY <2>1, <2>2, <2>3, EmptyIsSound DEF Sound, SoundAt
<1>9. CASE f # NoFS /\ c.op = "copydst"
  <2>1. CopyTo(p, c.sfs, c.skey, f, sub)
    BY <1>1, <1>9 DEF PassOn, CopyFound, sub
  <2>2. stack[p] = <<>>
    BY <1>1, <1>9 DEF SoundAt, Alone
  <2>3. Plain(c.sfs) /\ c.skey \in Key
    BY <1>2, <1>9 DEF CallSound
  <2>4. SoundAt(pc'[p], cur'[p], stack'[p], ans'[p])
    BY <1>4, <1>5, <1>9, <2>1, <2>2, <2>3, CopyToSound
  <2> QED BY <2>4 DEF Sound
<1>10. CASE f # NoFS /\ c.op \in {"get", "put", "delete"}
  <2> DEFINE d == [c EXCEPT !.fs = f, !.key = sub]
  <2>1. pc'[p] = "call" /\ cur'[p] = d /\ stack'[p] = stack[p] \o <<>>
    BY <1>1, <1>10 DEF PassOn, Become, Goto, Domains, LockTypeOK, sub
  <2>2. stack'[p] = stack[p]
    BY <1>6, <2>1, StackSame
  <2>3. /\ {"op", "fs", "key"} \subseteq DOMAIN c
        /\ c.op = "put" => "data" \in DOMAIN c /\ Suits(c.fs, c.key, c.data)
    BY <1>2, <1>10 DEF CallSound
  <2>4. /\ d.op = c.op /\ d.fs = f /\ d.key = sub /\ {"op", "fs", "key"} \subseteq DOMAIN d
        /\ c.op = "put" => "data" \in DOMAIN d /\ d.data = c.data
    BY <2>3
  <2> HIDE DEF d
  <2>5. \A data : Suits(d.fs, d.key, data) <=> Suits(c.fs, c.key, data)
    BY <1>5, <1>10, <2>4, PlainSuits
  <2>6. f \in FS
    BY <1>5, <1>10, PlainIsFS
  <2>7. CallSound(d) /\ d.op \notin Alone
    BY <1>4, <1>10, <2>3, <2>4, <2>5, <2>6 DEF CallSound, Alone, Whole
  <2>8. stack[p] # <<>> => Answering(d, stack[p][Len(stack[p])])
    BY <1>1, <1>10, <2>4, <2>5 DEF SoundAt, Answering
  <2>9. SoundAt("call", d, stack[p], ans'[p])
    BY <1>2, <2>7, <2>8 DEF SoundAt
  <2> QED BY <2>1, <2>2, <2>9 DEF Sound
<1> QED BY <1>1, <1>7, <1>8, <1>9, <1>10 DEF Routed

LEMMA WaitsSound ==
    ASSUME Domains, NEW p \in Proc, Runs(p), Sound(p),
           Begin(p) \/ Cancelled(p) \/ Resolve(p) \/ LockTable(p)
    PROVE  Sound(p)'
<1> USE DEF At, Goto, Domains, LockTypeOK
<1>1. SoundAt(pc[p], cur[p], stack[p], ans[p])
  BY DEF Sound
<1>2. CASE Begin(p)
  <2>1. pc[p] = "next" /\ pc'[p] = "call" /\ UNCHANGED <<cur, stack, ans>>
    BY <1>2 DEF Begin
  <2> QED BY <1>1, <2>1 DEF Sound, SoundAt
<1>3. CASE Cancelled(p)
  <2>1. pc'[p] = "return" /\ stack' = stack /\ ans'[p].res = "error"
    BY <1>3 DEF Cancelled
  <2> QED BY <1>1, <2>1 DEF Sound, SoundAt
<1>4. CASE Resolve(p)
  <2>1. /\ pc[p] = "call" /\ pc'[p] = "rlock" /\ UNCHANGED <<cur, stack, ans>>
        /\ cur[p].fs \in Table /\ cur[p].key # <<>>
    BY <1>4 DEF Resolve, Calling
  <2> QED BY <1>1, <2>1 DEF Sound, SoundAt
<1>5. CASE LockTable(p)
  <2>1. pc'[p] = "lock" /\ UNCHANGED <<cur, stack, ans>>
    BY <1>5 DEF LockTable
  <2> QED BY <1>1, <2>1 DEF Sound, SoundAt
<1> QED BY <1>2, <1>3, <1>4, <1>5

(* What clients ask for is sound, and so is what they have got.            *)
LEMMA CallIsSound ==
    ASSUME ThroughHooks, Domains, NEW p \in Proc, Stands(p), Call(p)
    PROVE  Sound(p)'
<1> DEFINE r == cur'[p]
<1>1. /\ r \in Calls[p] /\ pc'[p] = "call" /\ stack'[p] = <<>>
  BY DEF Call, Submit, At, Goto, Stands, Domains, LockTypeOK
<1> HIDE DEF r
<1>2. r \in ClientCall
  BY <1>1, ClientAssumption
<1>3. /\ r.op \notin {"mount", "unmount"} => Plain(r.fs)
      /\ r.op = "copyto" => Plain(r.dfs)
  BY <1>1 DEF ThroughHooks
<1>4. r.op = "put" => Suits(r.fs, r.key, r.data)
  <2> SUFFICES ASSUME r.op = "put" PROVE Suits(r.fs, r.key, r.data)
    OBVIOUS
  <2>1. r.data \in Payload
    BY <1>2 DEF ClientCall
  <2> QED BY <1>3, <2>1, PlainSuits
<1>5. CallSound(r)
  BY <1>2, <1>3, <1>4 DEF ClientCall, CallSound
<1>6. SoundAt("call", r, <<>>, ans'[p])
  BY <1>5, EmptyIsSound DEF SoundAt
<1> QED BY <1>1, <1>6 DEF Sound, r

LEMMA FinishOrChangeSound ==
    ASSUME Domains, NEW p \in Proc, Runs(p), Stands(p), Sound(p),
           Finish(p) \/ Mount(p) \/ Unmount(p)
    PROVE  Sound(p)'
<1> USE DEF At, Goto, Domains, LockTypeOK
<1>1. CASE Finish(p)
  <2>1. pc'[p] = "idle" /\ stack'[p] = stack[p]
    BY <1>1 DEF Finish, Return
  <2> QED BY <2>1 DEF Sound, SoundAt
<1>2. CASE Mount(p) \/ Unmount(p)
  <2>1. pc'[p] = "return" /\ stack'[p] = stack[p] /\ cur[p].op \in {"mount", "unmount"}
    BY <1>2 DEF Mount, Unmount, Answer
  <2>2. stack[p] = <<>>
    BY <2>1 DEF Runs, Stands, Whole
  <2> QED BY <2>1, <2>2, EmptyIsSound DEF Sound, SoundAt
<1> QED BY <1>1, <1>2


----------------------------------------------------------------------------
(* The bases and the tables.                                               *)

Kept == StoreShape /\ EverythingDecodes

LEMMA SetKeeps ==
    ASSUME Kept, NEW b \in Base, NEW k \in Sub, NEW data,
           data = NoFile \/ Coded(b, 0, k, data), Set(b, k, data)
    PROVE  Kept'
<1>1. store' = [store EXCEPT ![b] = [store[b] EXCEPT ![k] = data]]
  BY DEF Set
<1>2. /\ DOMAIN store' = Base
      /\ \A c \in Base : store'[c] = IF c = b THEN [store[b] EXCEPT ![k] = data] ELSE store[c]
  BY <1>1 DEF Kept, StoreShape
<1>3. StoreShape'
  BY <1>2 DEF Kept, StoreShape
<1>4. ASSUME NEW c \in Base, NEW l \in Sub
      PROVE  store'[c][l] = IF c = b /\ l = k THEN data ELSE store[c][l]
  BY <1>2 DEF Kept, StoreShape
<1>5. EverythingDecodes'
  <2> SUFFICES ASSUME NEW c \in Base, NEW l \in Sub
               PROVE  store'[c][l] = NoFile \/ Coded(c, 0, l, store'[c][l])
    BY DEF EverythingDecodes
  <2> QED BY <1>4 DEF Kept, EverythingDecodes
<1> QED BY <1>3, <1>5 DEF Kept

LEMMA BasesKeep ==
    ASSUME Kept, NEW p \in Proc, Sound(p), BaseReturns(p) \/ CopyOpens(p) \/ CopyCreates(p)
    PROVE  Kept'
<1> DEFINE c == cur[p]
<1>0. CASE UNCHANGED store
  BY <1>0 DEF Kept, StoreShape, EverythingDecodes
<1>1. CASE Get(p) \/ Fail(p) \/ CopyOpens(p)
  BY <1>0, <1>1 DEF Get, Fail, CopyOpens
<1>2. ASSUME c.op = "put", c.fs \in Base, c.key \in Sub, Set(c.fs, c.key, c.data), pc[p] = "call"
      PROVE  Kept'
  <2>1. Suits(c.fs, c.key, c.data)
    BY <1>2 DEF Sound, SoundAt, CallSound
  <2> HIDE DEF c
  <2> QED BY <1>2, <2>1, BaseSuits, SetKeeps
<1>3. ASSUME c.fs \in Base, c.key \in Sub, Set(c.fs, c.key, NoFile)
      PROVE  Kept'
  <2> HIDE DEF c
  <2> QED BY <1>3, SetKeeps
<1>4. ASSUME c.op = "copy", c.fs \in Base, c.key \in Sub, c.dst \in Sub, pc[p] = "call",
             Held(p) # NoFile, Set(c.fs, c.dst, Held(p))
      PROVE  Kept'
  <2> DEFINE d == store[c.fs][c.key]
  <2>1. Set(c.fs, c.dst, d) /\ d # NoFile
    BY <1>4 DEF Held
  <2>2. Coded(c.fs, 0, c.key, d)
    BY <1>4, <2>1 DEF Kept, EverythingDecodes
  <2>3. Plain(c.fs)
    BY <1>4 DEF Sound, SoundAt, CallSound
  <2> HIDE DEF c, d
  <2>4. d \in Payload
    BY <1>4, <2>2, <2>3, BaseSuits, PlainSuits
  <2>5. Coded(c.fs, 0, c.dst, d)
    BY <1>4, <2>3, <2>4, BaseSuits, PlainSuits
  <2> QED BY <1>4, <2>1, <2>5, SetKeeps
<1>5. ASSUME c.fs \in Base, NEW away,
             store' = [store EXCEPT ![c.fs] = [k \in Sub |-> IF k \in away THEN NoFile ELSE @[k]]]
      PROVE  Kept'
  <2> DEFINE b == c.fs
             left == [k \in Sub |-> IF k \in away THEN NoFile ELSE store[b][k]]
  <2>1. b \in Base /\ store' = [store EXCEPT ![b] = left]
    BY <1>5
  <2> HIDE DEF b
  <2>2. /\ DOMAIN store' = Base
        /\ \A f \in Base : store'[f] = IF f = b THEN left ELSE store[f]
    BY <2>1 DEF Kept, StoreShape
  <2>3. StoreShape'
    BY <2>2 DEF Kept, StoreShape
  <2>4. \A f \in Base, k \in Sub : store'[f][k] \in {NoFile, store[f][k]}
    BY <2>2
  <2>5. EverythingDecodes'
    BY <2>4 DEF Kept, EverythingDecodes
  <2> QED BY <2>3, <2>5 DEF Kept
<1>6. CASE CopyCreates(p) \/ CopyFills(p)
  <2>1. /\ c.op \in {"create", "fill"} /\ pc[p] = "call"
        /\ UNCHANGED store \/ \E d \in {<<Cut>>, c.data} : Set(c.fs, c.dst, d)
    BY <1>6 DEF CopyCreates, CopyFills, Calling, At
  <2>2. c.fs \in Base /\ Plain(c.fs) /\ c.dst \in Sub /\ c.data \in Payload
    BY <2>1 DEF Sound, SoundAt, CallSound
  <2>3. <<Cut>> \in Payload
    BY CutAssumption DEF Payload
  <2> HIDE DEF c
  <2>4. \A d \in {<<Cut>>, c.data} : Coded(c.fs, 0, c.dst, d)
    BY <2>2, <2>3, BaseSuits, PlainSuits
  <2> QED BY <1>0, <2>1, <2>2, <2>4, SetKeeps
<1>7. CASE Put(p) \/ Delete(p)
  BY <1>2, <1>3, <1>7 DEF Put, Delete, Calling, At
<1>8. CASE CopyObject(p)
  BY <1>0, <1>4, <1>8, InterfaceAssumption DEF CopyObject, Calling, At
<1>9. CASE DeleteObjects(p)
  BY <1>5, <1>9 DEF DeleteObjects, Calling
<1>10. CASE Lost(p)
  <2>1. c.fs \in Base /\ pc[p] = "call"
    BY <1>10, InterfaceAssumption DEF Lost, Calling, At
  <2> QED BY <1>2, <1>3, <1>4, <1>5, <1>10, <2>1 DEF Lost
<1> QED BY <1>1, <1>6, <1>7, <1>8, <1>9, <1>10 DEF BaseReturns

LEMMA ChangeKeepsPlain ==
    ASSUME ThroughHooks, Domains, PlainMounts, NEW p \in Proc, Runs(p), Mount(p) \/ Unmount(p)
    PROVE  PlainMounts'
<1> DEFINE c == cur[p]
<1>1. c.op \in {"mount", "unmount"} /\ c \in Calls[p]
  BY DEF Mount, Unmount, Runs, Whole
<1>2. c.fs \in Table /\ c.key \in Name
  BY <1>1, ClientCalls
<1>3. PICK f : /\ mounts' = [mounts EXCEPT ![c.fs][c.key] = f]
               /\ f = NoFS \/ Plain(f)
  BY <1>1 DEF Mount, Unmount, ThroughHooks
<1> HIDE DEF c
<1>4. \A t \in Table, n \in Name : mounts'[t][n] = f \/ mounts'[t][n] = mounts[t][n]
  BY <1>2, <1>3 DEF Domains
<1> QED BY <1>3, <1>4 DEF PlainMounts

LEMMA AnswersHaveData ==
    ASSUME Domains, NEW p \in Proc, AnsShape(p), Call(p) \/ Proceed(p) \/ Finish(p)
    PROVE  AnsShape(p)'
<1> USE DEF Domains, AnsShape
<1>0. CASE ans'[p] = ans[p] \/ \E r, d : ans'[p] = [res |-> r, data |-> d]
  BY <1>0
<1>1. CASE Call(p) \/ Finish(p)
  <2>1. ans'[p] = ans[p] \/ ans'[p] = NoAns
    BY <1>1 DEF Call, Submit, Finish, Return
  <2> QED BY <2>1 DEF NoAns
<1>2. CASE Forward(p)
  BY <1>0, <1>2 DEF Forward, Become
<1>3. CASE HookReturns(p)
  <2>1. ans' = ans \/ \E d : ans' = [ans EXCEPT ![p] = [ans[p] EXCEPT !.data = d]]
    BY <1>3 DEF HookReturns
  <2> QED BY <2>1
<1>4. CASE Begin(p) \/ Cancelled(p)
  BY <1>0, <1>4 DEF Begin, Cancelled
<1>5. CASE BaseReturns(p) \/ CopyOpens(p) \/ CopyCreates(p)
  BY <1>0, <1>5, BaseReturning, CopyBeginning DEF Become
<1>6. CASE Copy(p) \/ BatchDelete(p) \/ Unpack(p)
  BY Zenon, <1>0, <1>6 DEF Copy, CopyTo, BatchDelete, Unpack, Loop, Become, Answer
<1>7. CASE PutCopy(p) \/ LoopOn(p)
  BY ZenonT(60), <1>0, <1>7 DEF PutCopy, LoopOn, NoAns
<1>8. CASE MountStep(p)
  BY ZenonT(30), <1>0, <1>8 DEF MountStep, Resolve, Refuse, Lookup, LockTable, Mount, Unmount, PassOn,
                    AskForDst, CopyFound, CopyTo, Become, Answer
<1> QED BY <1>1, <1>2, <1>3, <1>4, <1>5, <1>6, <1>7, <1>8 DEF Proceed, CallStep, HookStep, BaseReturns

----------------------------------------------------------------------------
LEMMA StepDataInv ==
    ASSUME ThroughHooks, UnmountInv, DataInv, NEW p \in Proc, Call(p) \/ Proceed(p) \/ Finish(p)
    PROVE  DataInv'
<1>0. /\ Domains /\ Runs(p) /\ Asks(p) /\ Stands(p)
      /\ StoreShape /\ EverythingDecodes /\ PlainMounts /\ Sound(p) /\ AnsShape(p)
  BY DEF UnmountInv, DataInv
<1>1. AnsShape(p)'
  BY <1>0, AnswersHaveData
<1>2. Sound(p)'
  <2>1. CASE Call(p) \/ Finish(p) \/ Mount(p) \/ Unmount(p)
    BY <1>0, <2>1, CallIsSound, FinishOrChangeSound
  <2>2. CASE Begin(p) \/ Cancelled(p) \/ Resolve(p) \/ LockTable(p)
    BY <1>0, <2>2, WaitsSound
  <2>3. CASE BaseReturns(p) \/ Refuse(p) \/ CopyOpens(p) \/ CopyCreates(p)
    BY <1>0, <2>3, BaseAnswers, CopyOpensSound, CopyCreatesSound
  <2>4. CASE Copy(p) \/ BatchDelete(p) \/ Unpack(p)
    BY <1>0, <2>4, CopySound, BatchDeleteSound, UnpackSound
  <2>5. CASE PutCopy(p) \/ LoopOn(p) \/ Forward(p) \/ HookReturns(p) \/ Lookup(p)
    BY <1>0, <2>5, PutCopySound, LoopOnSound, ForwardSound, HookReturnsSound, LookupSound
  <2> QED BY <2>1, <2>2, <2>3, <2>4, <2>5 DEF Proceed, CallStep, HookStep, MountStep, BaseReturns
<1>3. StoreShape' /\ EverythingDecodes'
  <2>1. CASE BaseReturns(p) \/ CopyOpens(p) \/ CopyCreates(p)
    BY <1>0, <2>1, BasesKeep DEF Kept
  <2>2. CASE UNCHANGED store
    BY <1>0, <2>2 DEF StoreShape, EverythingDecodes
  <2>3. CASE Call(p) \/ Finish(p) \/ MountStep(p) \/ HookStep(p)
    BY <2>2, <2>3 DEF Call, Submit, Finish, Return, MountStep, Resolve, Refuse, Lookup,
                      LockTable, Mount, Unmount, HookStep, Forward, HookReturns
  <2>4. CASE \/ Begin(p) \/ Cancelled(p) \/ Copy(p) \/ BatchDelete(p) \/ Unpack(p)
             \/ PutCopy(p) \/ LoopOn(p)
    BY <2>2, <2>4 DEF Begin, Cancelled, Copy, BatchDelete, Unpack, PutCopy, LoopOn
  <2> QED BY <2>1, <2>3, <2>4 DEF Proceed, CallStep, BaseReturns
<1>4. PlainMounts'
  <2>1. CASE Mount(p) \/ Unmount(p)
    BY <1>0, <2>1, ChangeKeepsPlain
  <2>2. CASE UNCHANGED mounts
    BY <1>0, <2>2 DEF PlainMounts
  <2> QED BY <2>1, <2>2 DEF Call, Finish, Proceed, MountStep, Resolve, Refuse, Lookup, LockTable
<1>5. ASSUME NEW q \in Proc \ {p} PROVE Sound(q)' /\ AnsShape(q)'
  <2>1. Keeps(p)
    <3>1. CASE Carries(p)
      BY <1>0, <3>1, CarriesKeeps
    <3>2. CASE Call(p) \/ Finish(p) \/ Mount(p) \/ Unmount(p)
      BY <1>0, <3>2, OwnVariables
         DEF Call, Submit, Finish, Return, Mount, Unmount, Answer, Goto, Where
    <3> QED BY <3>1, <3>2 DEF Proceed, MountStep, Carries
  <2>2. pc'[q] = pc[q] /\ cur'[q] = cur[q] /\ stack'[q] = stack[q] /\ ans'[q] = ans[q]
    BY <2>1 DEF Keeps
  <2>3. Sound(q) /\ AnsShape(q)
    BY DEF DataInv
  <2> QED BY <2>2, <2>3 DEF Sound, AnsShape
<1> QED BY <1>1, <1>2, <1>3, <1>4, <1>5 DEF DataInv

LEMMA InitDataInv == ASSUME ThroughHooks, Init PROVE DataInv
<1>1. StoreShape /\ EverythingDecodes
  BY DEF Init, CallsInit, StoreShape, EverythingDecodes
<1>2. PlainMounts
  BY DEF Init, MountInit, PlainMounts, ThroughHooks
<1>3. ASSUME NEW p \in Proc PROVE Sound(p) /\ AnsShape(p)
  <2>1. pc[p] = "idle" /\ stack[p] = <<>> /\ ans[p] = NoAns
    BY DEF Init, CallsInit
  <2> QED BY <2>1, EmptyIsSound DEF Sound, SoundAt, AnsShape, NoAns
<1> QED BY <1>1, <1>2, <1>3 DEF DataInv

(* With nobody going past the hooks that code, everything a base holds has *)
(* been through all the middlewares around it, each with the key it is     *)
(* stored under, the last one first: neither Copy, by Get and Put or by    *)
(* the backend itself, nor a mount that changes meanwhile stores anything  *)
(* that a Get through them would not decode (hook.go:50-68, 128-133,       *)
(* fs.go:143-157, mount.go:146-168).                                       *)
THEOREM StoredDataDecodes == ASSUME ThroughHooks PROVE Spec => []EverythingDecodes
<1>1. Spec => []LockInv
  BY LockInvInductive, PTL DEF Spec
<1>2. LockInv => LockTypeOK
  BY DEF LockInv
<1>3. Spec => []UnmountInv
  BY <1>1, <1>2, InitUnmountInv, NextUnmountInv, PTL DEF Spec
<1>4. Init => DataInv
  BY InitDataInv
<1>5. UnmountInv /\ DataInv /\ [Next]_vars => DataInv'
  <2> SUFFICES ASSUME UnmountInv, DataInv, [Next]_vars PROVE DataInv'
    OBVIOUS
  <2>1. CASE UNCHANGED vars
    BY <2>1 DEF DataInv, StoreShape, EverythingDecodes, PlainMounts, Sound, AnsShape,
                vars, mountvars, callvars
  <2>2. CASE Next
    BY <2>2, StepDataInv DEF Next
  <2> QED BY <2>1, <2>2
<1>6. DataInv => EverythingDecodes
  BY DEF DataInv
<1> QED BY <1>3, <1>4, <1>5, <1>6, PTL DEF Spec
=============================================================================
