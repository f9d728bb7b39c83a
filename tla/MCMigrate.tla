------------------------------ MODULE MCMigrate ------------------------------
(* A source directory "d" with a file "f" and a file "g" one level deeper, *)
(* sent to "b" under their own names, or both to "b/f", or the deeper one  *)
(* to "b/f/g", where "b/f" would be a directory.                           *)
EXTENDS Migrate, TLC

CONSTANTS b, d, e, f, g, v, w

MCVal       == {v, w}
MCPrefix    == <<d>>
MCDstPrefix == <<b>>
MCKey       == {<<>>, <<d>>, <<d, f>>, <<d, e>>, <<d, e, g>>}
MCTrees     == {[k \in MCKey |->
                    IF k \in {<<d, f>>, <<d, e, g>>} THEN v ELSE Dir]}

MCRelative == {<<f>>, <<e>>, <<e, g>>}
MCKeyFuncs == {[k \in MCRelative |-> k], [k \in MCRelative |-> <<f>>],
               [k \in MCRelative |-> IF k = <<f>> THEN k ELSE <<f, g>>]}
MCDstKey   == {<<b>> \o k : k \in MCRelative \cup {<<f, g>>}}

(* The destination is empty, or has another file where "f" would go, or a  *)
(* directory.                                                              *)
MCEmpty   == [k \in MCDstKey |-> NoFile]
MCDstMaps == {MCEmpty} \cup {[MCEmpty EXCEPT ![<<b, f>>] = it] : it \in {w, Dir}}
=============================================================================
