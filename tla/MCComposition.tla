--------------------------- MODULE MCComposition ----------------------------
(* A local base with two coding hooks, a second local base without any, an *)
(* object base, a table over them that can be mounted in itself, and a     *)
(* hook around that table.                                                 *)
EXTENDS Composition

CONSTANTS p1, p2, d1, d2, d3, h0, h1, h2, T, a, b, m, x, y, v, cut

MCBase == {d1, d2, d3}
MCMiddlewares == d1 :> <<h1, h2>> @@ d2 :> <<>> @@ d3 :> <<>> @@ T :> <<h0>>
MCMounted == T :> (a :> h2 @@ b :> d2 @@ m :> NoFS @@ x :> NoFS @@ y :> NoFS)
MCSub == {<<x>>, <<y>>}
MCKey == UNION {{<<>>, <<s>>, <<n, s>>, <<m, n, s>>} : s \in {x, y}, n \in {a, b}}
           \cup {<<n>> : n \in {a, b, m}} \cup {<<m, n>> : n \in {a, b}}

(* Nobody goes past h1 and h2, the hooks that code.                        *)
ASSUME ThroughHooks

MCIdle == [op |-> "idle"]

(* Both clients go through the table and past it; one of them mounts.      *)
MCCalls ==
    p1 :> {GetAt(T, <<m, a, x>>),
           PutAt(T, <<m, b, x>>, <<v>>),
           DelAt(d2, <<y>>),
           [op |-> "copyto", fs |-> Chain(d1), key |-> <<x>>, dfs |-> Chain(d1), dst |-> <<y>>]}
 @@ p2 :> {[op |-> "mount", fs |-> T, key |-> m, target |-> T],
           [op |-> "unmount", fs |-> T, key |-> m],
           [op |-> "copyto", fs |-> T, key |-> <<b, x>>, dfs |-> T, dst |-> <<b, y>>],
           [op |-> "batchdelete", fs |-> Chain(T), keys |-> << <<a, x>>, <<b, x>> >>],
           [op |-> "batchdelete", fs |-> d3, keys |-> << <<y>>, <<x>> >>],
           [op |-> "unpack", fs |-> Chain(d1), files |-> << [key |-> <<y>>, data |-> <<v>>],
                                                            [key |-> <<x>>, data |-> <<v>>] >>]}
=============================================================================
