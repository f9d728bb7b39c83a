---------------------------- MODULE MCLocalFSMixed ----------------------------
(* Atomic Puts and Copy, which writes in place all the same, on two files  *)
(* in the root: a Copy may open, truncate and fill a file that a Put is    *)
(* about to replace.                                                       *)
EXTENDS LocalFS, TLC

CONSTANTS root, d, e, top, t1, t2, x1, x2

MCKey   == {root, d, e}
MCTemp  == {t1, t2}
MCDirOf == root :> top @@ d :> root @@ e :> root @@ t1 :> root @@ t2 :> root
MCAbove == root :> {top} @@ d :> {top, root} @@ e :> {top, root}
             @@ t1 :> {top, root} @@ t2 :> {top, root}
MCChunk == {x1, x2}
MCVal   == {<<x1, x2>>}
MCCalls == [op : {"put"}, key : {d}, val : MCVal]
             \cup [op : {"get", "delete"}, key : {d}]
             \cup {[op |-> "copy", key |-> d, dst |-> e],
                   [op |-> "copy", key |-> e, dst |-> d]}

Symmetry == Permutations(Proc) \cup Permutations(Inode) \cup Permutations(Temp)
=============================================================================
