------------------------------- MODULE Schema --------------------------------
(***************************************************************************)
(* Routing of keys to directories (schema.go).  A key is the sequence of   *)
(* its segments, not empty, as CleanKey leaves it; a prefix ends in a      *)
(* slash, so what it is put in front of stays a sequence of segments.  The *)
(* extension of a key is that of its last segment: a route is known by the *)
(* segments it matches.                                                    *)
(***************************************************************************)
EXTENDS Keys

CONSTANT Routes     \* in the order of their declaration

ASSUME RoutesAssumption ==
    Routes \in Seq([prefix : Seq(Segment), match : SUBSET Segment])

PlainKey == Seq(Segment) \ {<<>>}

RouteByExt(prefix, segments) == [prefix |-> prefix, match |-> segments]

DefaultRoute(prefix) == [prefix |-> prefix, match |-> Segment]

(* Variant with a mistake: the name of the first directory decides.        *)
MatchesFirst(i, key) == key[1] \in Routes[i].match

Matches(i, key) == key[Len(key)] \in Routes[i].match

Hits(key) == {i \in 1..Len(Routes) : Matches(i, key)}

(* The first route that matches wins.                                      *)
Resolve(key) ==
    IF Hits(key) = {} THEN key
    ELSE Routes[CHOOSE i \in Hits(key) : \A j \in Hits(key) : i <= j].prefix \o key

(* Different keys stay different: the key function of a backend may not    *)
(* make two files one.  Putting a prefix in front of a key leaves its last *)
(* segment, and with it the route, as it was (schema.go:67-74).            *)
KeepApart(k, l) == Resolve(k) = Resolve(l) => k = l

(* The keys a raw key can be cut into are routed to different places,      *)
(* unless they are one (schema.go:65-74).                                  *)
RoutesKeepApart ==
    \A n \in 1..(Len(raw) - 1) :
        LET k == CleanKey(SubSeq(raw, 1, n))
            l == CleanKey(SubSeq(raw, n + 1, Len(raw)))
        IN  k \in PlainKey /\ l \in PlainKey => KeepApart(k, l)
=============================================================================
