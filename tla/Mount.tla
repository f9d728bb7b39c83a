-------------------------------- MODULE Mount --------------------------------
(***************************************************************************)
(* Mount tables (mount.go): a table finds the file system mounted under    *)
(* the first segment of a key and passes the call on with the rest.  The   *)
(* lock of the table is held while the map is read or written, and not     *)
(* during the call that is passed on, which may come back to the same      *)
(* table when a table is mounted in itself or below itself.                *)
(***************************************************************************)
EXTENDS Hooks

CONSTANTS Name,      \* the segments of keys; any may be a mount point
          NoFS,      \* nothing is mounted
          NoProc,    \* nobody writes
          Mounted    \* what is mounted at the beginning

VARIABLES mounts,    \* Table -> Name -> FS, or NoFS
          lock       \* the lock of each table

INSTANCE RWMutex

ASSUME MountAssumption ==
    /\ NoFS \notin FS
    /\ NoProc \notin Proc
    /\ Mounted \in [Table -> [Name -> FS \cup {NoFS}]]

mountvars == <<callvars, mounts, lock>>

----------------------------------------------------------------------------
(* The calls a table resolves the key of.  "copydst" is the second half of *)
(* its Copy, with the source found.                                        *)
Routed == {"get", "put", "delete", "copy", "copydst"}

(* resolve: the context and the key first, then the lock.                  *)
Resolve(p) ==
    /\ Calling(p, Routed, Table) /\ cur[p].key # <<>>
    /\ RLock(p, cur[p].fs)
    /\ Goto(p, "rlock")
    /\ UNCHANGED <<cur, stack, ans, store, events, mounts>>

(* The context is cancelled or the key is empty.                           *)
Refuse(p) ==
    /\ Calling(p, Routed, Table)
    /\ Answer(p, "error", <<>>)
    /\ UNCHANGED <<store, events, mounts, lock>>

(* Copy has its source, f, and resolves the destination next.              *)
AskForDst(p, f, sub) ==
    /\ Become(p, [op |-> "copydst", fs |-> cur[p].fs, key |-> cur[p].dst,
                  sfs |-> f, skey |-> sub], <<>>)
    /\ Goto(p, "call")

(* Copy has both.                                                          *)
CopyFound(p, f, sub) == CopyTo(p, cur[p].sfs, cur[p].skey, f, sub)

(* The call goes on with what was found under the first segment.           *)
PassOn(p, f) ==
    LET sub == Tail(cur[p].key)
    IN  CASE f = NoFS -> Answer(p, "notfound", <<>>)
          [] f # NoFS /\ cur[p].op = "copy" -> AskForDst(p, f, sub)
          [] f # NoFS /\ cur[p].op = "copydst" -> CopyFound(p, f, sub)
          [] OTHER -> /\ Become(p, [cur[p] EXCEPT !.fs = f, !.key = sub], <<>>)
                      /\ Goto(p, "call")

(* Variant with a mistake: the lock is kept.                               *)
LookupKeeping(p) ==
    /\ At(p, "rlock") /\ Reading(p, cur[p].fs)
    /\ PassOn(p, mounts[cur[p].fs][Head(cur[p].key)])
    /\ UNCHANGED <<store, events, mounts, lock>>

(* Variant with a mistake: an entry that is missing is looked for again.   *)
LookupAgain(p) ==
    /\ At(p, "rlock") /\ Reading(p, cur[p].fs)
    /\ RUnlock(p, cur[p].fs)
    /\ IF mounts[cur[p].fs][Head(cur[p].key)] = NoFS
       THEN Goto(p, "call") /\ UNCHANGED <<cur, stack, ans>>
       ELSE PassOn(p, mounts[cur[p].fs][Head(cur[p].key)])
    /\ UNCHANGED <<store, events, mounts>>

Lookup(p) ==
    /\ At(p, "rlock") /\ Reading(p, cur[p].fs)
    /\ RUnlock(p, cur[p].fs)
    /\ PassOn(p, mounts[cur[p].fs][Head(cur[p].key)])
    /\ UNCHANGED <<store, events, mounts>>

(* Mount and Unmount wait for the lock.                                    *)
LockTable(p) ==
    /\ Calling(p, {"mount", "unmount"}, Table)
    /\ Lock(p, cur[p].fs)
    /\ Goto(p, "lock")
    /\ UNCHANGED <<cur, stack, ans, store, events, mounts>>

Mount(p) ==
    /\ At(p, "lock") /\ Writing(p, cur[p].fs) /\ cur[p].op = "mount"
    /\ mounts' = [mounts EXCEPT ![cur[p].fs][cur[p].key] = cur[p].target]
    /\ Unlock(p, cur[p].fs)
    /\ Answer(p, "ok", <<>>)
    /\ UNCHANGED <<store, events>>

(* Variant with a mistake: the entry stays.                                *)
UnmountKeeping(p) ==
    /\ At(p, "lock") /\ Writing(p, cur[p].fs) /\ cur[p].op = "unmount"
    /\ Unlock(p, cur[p].fs)
    /\ Answer(p, "ok", <<>>)
    /\ UNCHANGED <<store, events, mounts>>

Unmount(p) ==
    /\ At(p, "lock") /\ Writing(p, cur[p].fs) /\ cur[p].op = "unmount"
    /\ mounts' = [mounts EXCEPT ![cur[p].fs][cur[p].key] = NoFS]
    /\ Unlock(p, cur[p].fs)
    /\ Answer(p, "ok", <<>>)
    /\ UNCHANGED <<store, events>>

----------------------------------------------------------------------------
MountInit == mounts = Mounted /\ LockInit

MountStep(p) == \/ Resolve(p) \/ Refuse(p) \/ Lookup(p)
                \/ LockTable(p) \/ Mount(p) \/ Unmount(p)
=============================================================================
