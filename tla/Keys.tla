-------------------------------- MODULE Keys --------------------------------
(***************************************************************************)
(* How VireFS normalises the keys its callers pass (key.go).               *)
(*                                                                         *)
(* A raw key is the sequence of the pieces strings.Split(raw, "/") gives:  *)
(* "/a//../b" is <<Empty, a, Empty, Up, b>>, "" is <<Empty>>.  The         *)
(* characters of a name matter to CleanKey in one way only: whether it     *)
(* begins with two dots, so names come in two sorts, Name and UpName       *)
(* ("..data").  A cleaned key is the sequence of its segments, <<>> for "".*)
(***************************************************************************)
EXTENDS Integers, Sequences, SequencesExt, FiniteSets

CONSTANTS Name,      \* ordinary names
          UpName,    \* names that begin with ".." but are longer than it
          Empty,     \* the piece between two adjacent slashes, or ""
          Dot,       \* "."
          Up,        \* ".."
          ErrInvalidKey,
          MaxLen     \* bound: pieces of the longest raw key explored

ASSUME PiecesDistinct ==
    /\ Name \cap UpName = {}
    /\ {Empty, Dot, Up} \cap (Name \cup UpName) = {}
    /\ Empty # Dot /\ Dot # Up /\ Empty # Up

(* A segment of a clean key, and a piece of a raw one.                     *)
Segment == Name \cup UpName

Piece == Segment \cup {Empty, Dot, Up}

ASSUME ErrIsNoKey == ErrInvalidKey \notin Seq(Piece)

----------------------------------------------------------------------------
(* Variant with a mistake: the slashes at the ends stay.                   *)
TrimNothing(raw) == raw

(* strings.Trim(raw, "/"): no empty piece is left at either end.           *)
Trim(raw) ==
    LET solid == {i \in 1..Len(raw) : raw[i] # Empty}
    IN  IF solid = {} THEN <<Empty>>
        ELSE SubSeq(raw, Min(solid), Max(solid))

(* path.Clean of the standard library.  A rooted path, whose first piece   *)
(* is empty, swallows the ".." that would climb above its root; a relative *)
(* one keeps it.                                                           *)
Rooted(raw) == Len(raw) > 1 /\ raw[1] = Empty

(* Variant with a mistake: ".." below the first level goes nowhere.        *)
CleanPieceShallow(rooted, out, piece) ==
    IF piece \in {Empty, Dot} THEN out
    ELSE IF piece # Up THEN Append(out, piece)
    ELSE IF Len(out) = 1 /\ Last(out) # Up THEN <<>>
    ELSE IF Len(out) > 1 THEN out
    ELSE IF rooted THEN out
    ELSE Append(out, Up)

(* One turn of its loop: what was kept so far, and the next piece.         *)
CleanPiece(rooted, out, piece) ==
    IF piece \in {Empty, Dot} THEN out
    ELSE IF piece # Up THEN Append(out, piece)
    ELSE IF out # <<>> /\ Last(out) # Up THEN Front(out)
    ELSE IF rooted THEN out
    ELSE Append(out, Up)

CleanPieces(rooted, raw) ==
    LET out[n \in 0..Len(raw)] ==
          IF n = 0 THEN <<>> ELSE CleanPiece(rooted, out[n - 1], raw[n])
    IN  out[Len(raw)]

Clean(raw) == CleanPieces(Rooted(raw), raw)

(* Variant with a mistake: HasPrefix(cleaned, "../") or cleaned = "..".    *)
TraversesExactly(cleaned) ==
    \E i \in 1..Len(cleaned) : cleaned[i] = Up

(* The three string tests of key.go:23: HasPrefix "..", Contains "/../",   *)
(* HasSuffix "/..".                                                        *)
Traverses(cleaned) ==
    \/ cleaned # <<>> /\ Head(cleaned) \in {Up} \cup UpName
    \/ \E i \in 2..Len(cleaned) : cleaned[i] = Up

CleanKey(raw) ==
    LET cleaned == Clean(Trim(raw))
    IN  IF Traverses(cleaned) THEN ErrInvalidKey ELSE cleaned

----------------------------------------------------------------------------
(* The raw keys a caller may build, one piece after the other.             *)
VARIABLE raw

Init == raw \in {<<piece>> : piece \in Piece}

Extend == /\ Len(raw) < MaxLen
          /\ \E piece \in Piece : raw' = Append(raw, piece)

Next == Extend

Spec == Init /\ [][Next]_raw

----------------------------------------------------------------------------
(* The reference: walk the pieces as a file system would, counting how     *)
(* deep below the root the first n of them lead.                           *)
Depth(key, n) == Cardinality({i \in 1..n : key[i] \in Segment})
                   - Cardinality({i \in 1..n : key[i] = Up})

(* Some prefix of the key is above the root.                               *)
Escapes(key) == \E n \in 1..Len(key) : Depth(key, n) < 0

(* Pieces that name a level the walk never leaves again: one for each      *)
(* level of the place where it ends.                                       *)
Survives(key, i) == /\ key[i] \in Segment
                    /\ \A j \in i..Len(key) : Depth(key, j) >= Depth(key, i)

Survivors(key) ==
    [n \in 1..Depth(key, Len(key)) |->
       key[CHOOSE i \in 1..Len(key) : Survives(key, i) /\ Depth(key, i) = n]]

(* CleanKey rejects a key exactly when a prefix of it climbs above the     *)
(* root, even if later pieces come back below it, or when the place it     *)
(* names is below a top-level entry whose name begins with two dots.       *)
RejectsExactlyEscapes ==
    (CleanKey(raw) = ErrInvalidKey)
        <=> \/ Escapes(raw)
            \/ Survivors(raw) # <<>> /\ Head(Survivors(raw)) \in UpName

(* An accepted key names the place a file system would walk to.            *)
NamesWalkedPlace ==
    CleanKey(raw) # ErrInvalidKey => CleanKey(raw) = Survivors(raw)

(* A key the mount table has cleaned and cut (mount.go resolve) is cleaned *)
(* again by the backend: the backend sees the same key, or it rejects it,  *)
(* and that only for a top-level name with leading dots.  Joining two      *)
(* accepted keys, as Walk and Unpack do, gives an accepted key: the        *)
(* concatenation.                                                          *)
CutsAndJoinsCommute ==
    LET key == CleanKey(raw)
    IN  /\ key # ErrInvalidKey =>
             \A n \in 0..Len(key) :
                LET tail == SubSeq(key, n + 1, Len(key))
                IN  CleanKey(tail) =
                       IF tail # <<>> /\ Head(tail) \in UpName
                       THEN ErrInvalidKey ELSE tail
        /\ \A n \in 1..(Len(raw) - 1) :
             LET left  == CleanKey(SubSeq(raw, 1, n))
                 right == CleanKey(SubSeq(raw, n + 1, Len(raw)))
             IN  left # ErrInvalidKey /\ right # ErrInvalidKey
                   => CleanKey(left \o right) = left \o right
                      /\ key = left \o right
=============================================================================
