--------------------------- MODULE LocalFSHistory ---------------------------
(***************************************************************************)
(* What is left of FileStore's promise when files are written in place: by *)
(* Put without WithAtomicWrite, and by Copy always (localfs.go:140-147,    *)
(* 317-323).  The history variables follow the steps of LocalFS, change    *)
(* none of them, and name the only things that can go wrong:               *)
(*                                                                         *)
(*  - two calls have the same file open for writing at the same time;      *)
(*  - the call that last opened a file for writing failed, or crashed;     *)
(*  - a call read from a file while it was, or since it was, so written.   *)
(***************************************************************************)
EXTENDS LocalFS

VARIABLES due,     \* Inode -> what its last writer set out to store in it
          dirty,   \* files to which one of the above happened
          mixed    \* clients that read from such a file in their call

hvars == <<vars, due, dirty, mixed>>

Opened(p, i) == out[p] # i /\ out'[p] = i
Closed(p, i) == out[p] = i /\ out'[p] # i

(* Files two calls write, a failed writer leaves, or that were dirty and   *)
(* have not been truncated since.                                          *)
Overlapping == {i \in Inode : \E p, q \in Proc :
                                 p # q /\ out'[p] = i /\ out'[q] = i}
Abandoned   == {i \in Inode : \E p \in Proc : Closed(p, i) /\ res'[p] # "ok"}
StillDirty  == {i \in dirty : ~\E p \in Proc : Opened(p, i)}
Soiled      == Overlapping \cup Abandoned \cup StillDirty

Record ==
    /\ mixed' = {p \in Proc :
                   \/ p \in mixed /\ pc'[p] # "idle"
                   \/ in'[p] \in Soiled
                   \/ in'[p] # NoFile /\ \E q \in Proc : out'[q] = in'[p]}
    /\ dirty' = (Soiled \cup {out'[p] : p \in mixed'}) \cap InUse' \cap Inode
    /\ due' = [i \in Inode |->
                 LET openers == {p \in Proc : Opened(p, i)}
                 IN  IF i \notin InUse' THEN <<>>
                     ELSE IF openers = {} THEN due[i]
                     ELSE LET p == CHOOSE p \in openers : TRUE
                          IN  IF Readable(p) THEN Feed(p) ELSE <<>>]

HInit == Init /\ due = data /\ dirty = {} /\ mixed = {}

HNext == Next /\ Record

HSpec == HInit /\ [][HNext]_hvars

----------------------------------------------------------------------------
Written(i) == \E p \in Proc : out[p] = i

(* Otherwise a file holds exactly what the last Put to it was given, or    *)
(* what the source of the last Copy to it held, from the moment that call  *)
(* closes it.                                                              *)
CleanFilesKeepTheirPayload ==
    \A k \in Key :
        IsFile(k) /\ tree[k] \notin dirty /\ ~Written(tree[k])
            => data[tree[k]] = due[tree[k]] /\ data[tree[k]] \in Val

(* And a Get that met no such file returned a whole payload.               *)
CleanReadsAreWhole ==
    \A p \in Proc :
        pc[p] = "done" /\ req[p].op = "get" /\ res[p] = "ok" /\ p \notin mixed
            => buf[p] \in Val

(* "Copy copies a file from src to dst" (fs.go:140): when a Copy has       *)
(* answered "ok" the destination holds what the source held.               *)
CopyCopies ==
    \A p \in Proc :
        Doing(p, "done", "copy") /\ res[p] = "ok"
            => /\ IsFile(req[p].dst)
               /\ data[tree[req[p].dst]] = due[tree[req[p].dst]]
=============================================================================
