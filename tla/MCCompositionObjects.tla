------------------------ MODULE MCCompositionObjects ------------------------
(***************************************************************************)
(* Two object bases, whose answers may get lost: one with a coding hook,   *)
(* one bare, and both mounted in a table.                                  *)
(***************************************************************************)
EXTENDS Composition

CONSTANTS p1, p2, d1, d2, h1, T, a, b, x, y, v, w, cut

MCBase == {d1, d2}
MCMiddlewares == d1 :> <<h1>> @@ d2 :> <<>> @@ T :> <<>>
MCMounted == T :> (a :> h1 @@ b :> d2 @@ x :> NoFS @@ y :> NoFS)
MCSub == {<<x>>, <<y>>}
MCKey == {<<>>} \cup UNION {{<<s>>, <<n>>, <<n, s>>} : s \in {x, y}, n \in {a, b}}

ASSUME ThroughHooks

MCIdle == [op |-> "idle"]

CopyWithin(f, k, l) == [op |-> "copyto", fs |-> f, key |-> k, dfs |-> f, dst |-> l]

(* Two clients of the same keys: one that writes, and copies from the      *)
(* first base to the other, and one that copies within the other, reads    *)
(* and deletes.                                                            *)
MCCalls ==
    p1 :> {PutAt(d2, <<x>>, <<v>>), PutAt(T, <<b, x>>, <<w>>), PutAt(T, <<a, x>>, <<v>>),
           CopyWithin(T, <<a, x>>, <<b, x>>)}
 @@ p2 :> {CopyWithin(T, <<b, x>>, <<b, y>>), GetAt(T, <<a, x>>), GetAt(d2, <<y>>),
           [op |-> "batchdelete", fs |-> T, keys |-> << <<b, x>>, <<a, x>> >>]}
=============================================================================
