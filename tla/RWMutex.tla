------------------------------- MODULE RWMutex -------------------------------
(***************************************************************************)
(* The sync.RWMutex that guards the map of each mount table (mount.go:16). *)
(* A Lock that waits for readers to leave holds up the readers that come   *)
(* after it, so a goroutine that already reads must not read again; an     *)
(* Unlock lets those readers in before the next writer.                    *)
(***************************************************************************)
CONSTANTS Proc, Table, NoProc

VARIABLE lock

LockType == [Table -> [readers : SUBSET Proc,  \* those that hold it for reading
                       queue   : SUBSET Proc,  \* those a writer holds up
                       writer  : Proc \cup {NoProc}]]

LockInit == lock = [t \in Table |-> [readers |-> {}, queue |-> {}, writer |-> NoProc]]

Reading(p, t) == p \in lock[t].readers
Writing(p, t) == lock[t].writer = p /\ lock[t].readers = {}

RLock(p, t) ==
    lock' = IF lock[t].writer = NoProc
            THEN [lock EXCEPT ![t].readers = @ \cup {p}]
            ELSE [lock EXCEPT ![t].queue = @ \cup {p}]

RUnlock(p, t) == lock' = [lock EXCEPT ![t].readers = @ \ {p}]

(* The first half of Lock: from here on new readers queue.                 *)
Lock(p, t) == /\ lock[t].writer = NoProc
              /\ lock' = [lock EXCEPT ![t].writer = p]

Unlock(p, t) ==
    lock' = [lock EXCEPT ![t] = [readers |-> @.queue, queue |-> {}, writer |-> NoProc]]
=============================================================================
