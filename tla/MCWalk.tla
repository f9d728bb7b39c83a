------------------------------- MODULE MCWalk -------------------------------
(* A tree two directories deep: "a" and "d" in the root, "d/f" and "d/e"   *)
(* below "d", "d/e/g" below that.  The walk finds all of it, or less.      *)
EXTENDS Walk, TLC

CONSTANTS a, d, e, f, g, v

MCPrefix == <<>>

MCVal == {v}
MCKey == {<<>>, <<a>>, <<d>>, <<d, f>>, <<d, e>>, <<d, e, g>>}

(* Trees in which an entry lies in a directory and names keep their kind.  *)
MCTrees ==
    {t \in [MCKey -> {v, Dir, Absent}] :
        /\ t[<<>>] = Dir
        /\ \A k \in MCKey \ {<<>>} : t[k] # Absent => t[Front(k)] = Dir
        /\ t[<<a>>] # Dir /\ t[<<d, f>>] # Dir /\ t[<<d, e, g>>] # Dir}

(* A MountTable with one mount, "d", and files three levels below it.      *)
MCMountKey == {<<>>, <<d>>, <<d, e>>, <<d, e, g>>, <<d, e, g, f>>}
MCMountTrees ==
    {[k \in MCMountKey |-> IF k = <<d, e, g, f>> THEN v ELSE Dir]}
=============================================================================
