----------------------------- MODULE MCObjectFS -----------------------------
(* Four keys, "a", "d/f", "d/g" and "e", in a bucket with an object of     *)
(* somebody else's; pages of one entry or two, batches of two keys.        *)
EXTENDS ObjectFS, TLC

CONSTANTS data, other, a, d, e, f, g

MCBase    == <<data, Slash>>
MCForeign == {<<other, Slash, a>>}
MCRank    == Slash :> 0 @@ a :> 1 @@ d :> 2 @@ data :> 3 @@ e :> 4
               @@ f :> 5 @@ g :> 6 @@ other :> 7

kdf == <<d, Slash, f>>
kdg == <<d, Slash, g>>

MCKey     == {<<a>>, <<d>>, <<e>>, kdf, kdg}
MCKeyFunc == [k \in MCKey |-> k]

(* A batch of exactly two keys, of two and a half, and one whose second    *)
(* half is invalid.                                                        *)
MCCalls ==
    [op : {"put"}, key : {<<a>>, kdf, kdg, <<e>>}]
      \cup [op : {"delete"}, key : {<<a>>, kdf}]
      \cup [op : {"get"}, key : {<<a>>}]
      \cup {[op |-> "copy", key |-> <<a>>, dst |-> kdf]}
      \cup [op : {"list"}, prefix : {<<>>, <<d>>}]
      \cup [op : {"batch"}, keys : {<<<<a>>, <<e>>>>, <<<<a>>, kdf, <<e>>>>,
                                    <<<<e>>, kdf, BadKey>>}]

Symmetry == Permutations(Proc)
=============================================================================
