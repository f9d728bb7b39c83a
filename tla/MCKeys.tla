------------------------------- MODULE MCKeys -------------------------------
(* Two ordinary names and one with leading dots; every raw key of at most  *)
(* MaxLen pieces, the archives of two entries and the pairs of keys it can *)
(* be cut into.                                                            *)
EXTENDS Archive, Schema

CONSTANTS a, b, updata

MCName == {a, b}

(* One extension, and one place for the rest.                              *)
MCRoutes == <<RouteByExt(<<a>>, {b}), DefaultRoute(<<a, b>>)>>
=============================================================================
