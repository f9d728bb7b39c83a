---------------------------- MODULE MCLocalFSPlain ----------------------------
(* Two files in the root, written in place, and copied one to the other;   *)
(* one payload is shorter than the other.                                  *)
EXTENDS LocalFSHistory, TLC

CONSTANTS root, d, e, top, x1, x2, y1

MCKey   == {root, d, e}
MCDirOf == root :> top @@ d :> root @@ e :> root
MCAbove == root :> {top} @@ d :> {top, root} @@ e :> {top, root}
MCChunk == {x1, x2, y1}
MCVal   == {<<x1, x2>>, <<y1>>}
MCCalls == [op : {"put"}, key : {d}, val : {<<x1, x2>>}]
             \cup [op : {"put"}, key : {e}, val : {<<y1>>}]
             \cup [op : {"get", "delete"}, key : {e}]
             \cup [op : {"copy"}, key : {d}, dst : {e}]

(* One client that copies a file to itself, to the other, or the other way *)
(* round.                                                                  *)
MCSelfCopy == [op : {"put"}, key : {d, e}, val : MCVal]
                \cup [op : {"copy"}, key : {d, e}, dst : {d, e}]

Symmetry == Permutations(Proc) \cup Permutations(Inode)
=============================================================================
