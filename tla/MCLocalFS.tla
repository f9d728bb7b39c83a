------------------------------ MODULE MCLocalFS ------------------------------
(***************************************************************************)
(* A tree of three keys: the root "", a name "d" below it and "d/f" below  *)
(* that.  Each may turn out a file, a directory or absent: "d" is created  *)
(* as a file by Put("d") and as a directory by Put("d/f").  Payloads of    *)
(* two chunks can be cut or mixed.                                         *)
(***************************************************************************)
EXTENDS LocalFS, TLC

CONSTANTS root, d, f,        \* keys
          top,               \* the directory above the root
          tr, td1, td2,      \* temporary files in the root and in "d"
          x1, x2, y1, y2     \* chunks

MCKey   == {root, d, f}
MCTemp  == {tr, td1, td2}
MCDirOf == root :> top @@ d :> root @@ f :> d
             @@ tr :> root @@ td1 :> d @@ td2 :> d
MCAbove == root :> {top} @@ d :> {top, root} @@ f :> {top, root, d}
             @@ tr :> {top, root}
             @@ td1 :> {top, root, d} @@ td2 :> {top, root, d}
MCChunk == {x1, x2, y1, y2}
MCVal   == {<<x1, x2>>, <<y1, y2>>}
MCCalls == [op : {"get", "delete", "exists", "stat"}, key : MCKey]
             \cup [op : {"put"}, key : MCKey, val : MCVal]

Symmetry == Permutations(Proc) \cup Permutations(Inode)
=============================================================================
