------------------------------- MODULE Archive -------------------------------
(***************************************************************************)
(* The zip plugin (plugin/zip): an archive read as a file system, and      *)
(* unpacked into another one.  An archive is the sequence of its entries'  *)
(* names, raw keys as in module Keys; what an entry holds is known by its  *)
(* position.  The file system is read-only, so these are all pure.         *)
(***************************************************************************)
EXTENDS Keys

(* archive/zip takes an entry for a directory when its name ends in "/".   *)
IsDir(name) == Len(name) > 1 /\ Last(name) = Empty

Keyed(name) == CleanKey(name) \notin {ErrInvalidKey, <<>>}

(* Variant with a mistake: the first of two entries with one key counts.   *)
BuildIndexFirst(archive) ==
    LET entries == {i \in DOMAIN archive : Keyed(archive[i])}
    IN  [k \in {CleanKey(archive[i]) : i \in entries} |->
           Min({i \in entries : CleanKey(archive[i]) = k})]

(* buildIndex: the last of two entries with one key counts.                *)
BuildIndex(archive) ==
    LET entries == {i \in DOMAIN archive : Keyed(archive[i])}
    IN  [k \in {CleanKey(archive[i]) : i \in entries} |->
           Max({i \in entries : CleanKey(archive[i]) = k})]

(* Get finds the entry of a key; 0 stands for ErrNotFound.                 *)
Get(archive, key) ==
    LET index == BuildIndex(archive)
    IN  IF CleanKey(key) \in DOMAIN index THEN index[CleanKey(key)] ELSE 0

Below(prefix, k) == Len(k) > Len(prefix) /\ IsPrefix(prefix, k)

Child(prefix, k) == SubSeq(k, 1, Len(prefix) + 1)

(* Variant with a mistake: directories already seen are listed again.      *)
ListUnseen(archive, prefix) ==
    LET index == BuildIndex(archive)
        below == {k \in DOMAIN index : Below(prefix, k)}
    IN  {[key |-> Child(prefix, k), for |-> k,
          dir |-> IF k = Child(prefix, k) THEN IsDir(archive[index[k]]) ELSE TRUE] : k \in below}

(* List goes over the index in any order.  A key deeper than one level     *)
(* below the prefix stands for a directory, which is listed for the first  *)
(* such key only.                                                          *)
List(archive, prefix) ==
    LET index  == BuildIndex(archive)
        below  == {k \in DOMAIN index : Below(prefix, k)}
        direct == {k \in below : k = Child(prefix, k)}
        dirs   == {Child(prefix, k) : k \in below \ direct}
    IN  {[key |-> k, for |-> k, dir |-> IsDir(archive[index[k]])] : k \in direct}
          \cup {[key |-> d, for |-> CHOOSE k \in below \ direct : Child(prefix, k) = d,
                 dir |-> TRUE] : d \in dirs}

(* Unpack puts every entry, in the order of the archive, under its clean   *)
(* name behind the prefix; entries that are directories, or have no valid  *)
(* name, are passed over.  What it leaves under a key is what it put there *)
(* last.                                                                   *)
Unpack(archive, prefix) ==
    LET files == {i \in DOMAIN archive : ~ IsDir(archive[i]) /\ Keyed(archive[i])}
    IN  [k \in {prefix \o CleanKey(archive[i]) : i \in files} |->
           Max({i \in files : prefix \o CleanKey(archive[i]) = k})]

(* Variant with a mistake: entries keep the names the caller gave.         *)
PackUnclean(keys, cancelled, failed) ==
    LET early == {i \in DOMAIN keys : i \in cancelled \/ CleanKey(keys[i]) = ErrInvalidKey}
        stops == early \cup failed
        whole == IF stops = {} THEN Len(keys) ELSE Min(stops) - 1
    IN  [archive |-> SubSeq(keys, 1, IF whole + 1 \in failed \ early THEN whole + 1 ELSE whole),
         whole |-> whole, err |-> stops # {}]

(* Pack: the context is looked at, and the name cleaned, before an entry   *)
(* is made; it is made before its file is opened and read.  An archive     *)
(* that is left half-way is closed like any other: its entries are there,  *)
(* the last one empty or cut short.                                        *)
Pack(keys, cancelled, failed) ==
    LET named(key) == IF CleanKey(key) = <<>> THEN <<Empty>> ELSE CleanKey(key)
        early == {i \in DOMAIN keys : i \in cancelled \/ CleanKey(keys[i]) = ErrInvalidKey}
        stops == early \cup failed
        whole == IF stops = {} THEN Len(keys) ELSE Min(stops) - 1
        made  == IF whole + 1 \in failed \ early THEN whole + 1 ELSE whole
    IN  [archive |-> [i \in 1..made |-> named(keys[i])], whole |-> whole, err |-> stops # {}]

----------------------------------------------------------------------------
(* The archives with two entries that the pieces of a raw key make.        *)
Archives == {<<SubSeq(raw, 1, n), SubSeq(raw, n + 1, Len(raw))>> : n \in 1..(Len(raw) - 1)}

(* Reading an archive and unpacking it agree: Get finds under every key    *)
(* the entry that Unpack leaves there, unless a directory entry that comes *)
(* later has taken the key in the index (zipfs.go:174-183,                 *)
(* unpack.go:25-54).                                                       *)
ReadsAsUnpacked(archive) ==
    LET unpacked == Unpack(archive, <<>>)
        keys     == DOMAIN BuildIndex(archive)
    IN  /\ DOMAIN unpacked \subseteq keys
        /\ \A k \in keys :
              \/ k \in DOMAIN unpacked /\ unpacked[k] = Get(archive, k)
              \/ IsDir(archive[Get(archive, k)])
                 /\ (k \in DOMAIN unpacked => unpacked[k] < Get(archive, k))

ReadsWhatItUnpacks == \A archive \in Archives : ReadsAsUnpacked(archive)

(* What Pack made of a list of keys can be read and unpacked under these   *)
(* keys: all of them if it returns nil, and if it does not the ones it was *)
(* done with, and with them at most the file it failed at, incomplete      *)
(* (pack.go:14-60).                                                        *)
UnpacksAsPacked(keys, cancelled, failed) ==
    LET p        == Pack(keys, cancelled, failed)
        unpacked == Unpack(p.archive, <<>>)
        wanted   == {CleanKey(keys[i]) : i \in 1..p.whole} \ {<<>>}
    IN  /\ wanted \subseteq DOMAIN unpacked
        /\ \A k \in DOMAIN unpacked :
              /\ CleanKey(keys[unpacked[k]]) = k /\ Get(p.archive, k) = unpacked[k]
              /\ ~p.err => k \in wanted
              /\ unpacked[k] > p.whole => unpacked[k] = Len(p.archive)

PackedUnpacks ==
    \A keys \in Archives : \A cancelled, failed \in SUBSET DOMAIN keys :
        UnpacksAsPacked(keys, cancelled, failed)

(* List gives every entry a child that leads to it, and a child once, as a *)
(* caller that descends needs it; only a key that is an entry itself and   *)
(* has entries below it is listed twice, which is what an archive with     *)
(* explicit directories makes of each of them (zipfs.go:113-140).          *)
ListsChildren(archive, prefix) ==
    LET keys   == DOMAIN BuildIndex(archive)
        listed == List(archive, prefix)
    IN  /\ \A k \in keys : Below(prefix, k) =>
              \E f \in listed : IsPrefix(f.key, k) /\ Len(f.key) = Len(prefix) + 1
                                /\ (f.key # k => f.dir)
        /\ \A f, g \in listed : f.key = g.key /\ f # g =>
              f.key \in keys /\ \E k \in keys : Below(f.key, k)
        /\ \A f \in listed : \E k \in keys : IsPrefix(f.key, k)

ListsEachChild ==
    \A archive \in Archives :
        \A prefix \in UNION {{SubSeq(k, 1, n) : n \in 0..Len(k)} : k \in DOMAIN BuildIndex(archive)} :
            ListsChildren(archive, prefix)
=============================================================================
