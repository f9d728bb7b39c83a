------------------------------ MODULE Migrate -------------------------------
(***************************************************************************)
(* Migrate (migrate.go): Walk over the source with a callback that copies  *)
(* each file to its destination key, under a conflict policy, a key        *)
(* function, and as a dry run.  Source and destination are different file  *)
(* systems, each changed by other clients while it runs.  The calls the    *)
(* callback makes are steps of their own: Exists, then Get and Put of the  *)
(* package's Copy.                                                         *)
(*                                                                         *)
(* The keys of a destination are names (ObjectFS), or files in directories *)
(* (LocalFS): there Put makes the directories on its way, and Exists says  *)
(* that a directory exists.                                                *)
(***************************************************************************)
EXTENDS Walk, FiniteSets

CONSTANTS DstKey,       \* keys of the destination
          DstPrefix,
          KeyFuncs,     \* the key functions it may be given, on relative keys
          DstMaps,      \* what the destination may hold at the start
          NoFile, Torn, \* no file at a key; what a failed Put may leave there
          MaxDstChanges \* bound: changes other clients make to the destination

ASSUME DstAssumption == /\ DstMaps \subseteq [DstKey -> Val \cup {NoFile, Dir}]
                        /\ NoFile \notin Val \cup {Dir} /\ Torn \notin {NoFile, Dir}

VARIABLES cfg,      \* the options, what the destination is, and what it held at the start
          dst,      \* what each key of the destination holds
          step,     \* where in the callback Migrate is: "idle", "exists", "get", "put", "count"
          buf,      \* what Get returned
          copied, skips, total,  \* the MigrateResult
          arrived,  \* source keys counted as copied
          raced,    \* keys other clients wrote since Migrate last asked for one
          dtouched, \* keys other clients changed
          dchanges

dstvars == <<dst, raced, dtouched, dchanges>>
migvars == <<cfg, step, buf, copied, skips, total, arrived>>
mvars   == <<vars, dstvars, migvars>>

(* What is in a LocalFS at the start lies in directories; nothing else has *)
(* any.                                                                    *)
Configs == {c \in [conflict : {"error", "skip", "overwrite"}, dryRun : BOOLEAN,
                   keyFunc : KeyFuncs, local : BOOLEAN, before : DstMaps] :
              \A q \in DstKey :
                  IF c.local THEN \A d \in DstKey : Below(q, d) /\ c.before[q] # NoFile
                                                       => c.before[d] = Dir
                             ELSE c.before[q] # Dir}

----------------------------------------------------------------------------
(* stripPrefix: of a key Walk found below the prefix.                      *)
StripPrefix(key) == IF IsPrefix(Prefix, key)
                    THEN SubSeq(key, Len(Prefix) + 1, Len(key)) ELSE key

ASSUME KeyFuncAssumption ==
    \A f \in KeyFuncs, k \in Key : Below(k, Prefix) => DstPrefix \o f[StripPrefix(k)] \in DstKey

Target(key) == DstPrefix \o cfg.keyFunc[StripPrefix(key)]

(* The directories that q lies in, of which one may be a file.             *)
Way(q) == {d \in DstKey : cfg.local /\ Below(q, d)}

Blocked(q) == \E d \in Way(q) : dst[d] \notin {NoFile, Dir}

(* The destination with v at q, and the directories for it.                *)
Stored(q, v) == [at \in DstKey |-> IF at = q THEN v
                                   ELSE IF at \in Way(q) THEN Dir ELSE dst[at]]

(* Nothing is put where a directory is, or below a file.                   *)
CanPut(q) == dst[q] # Dir /\ ~Blocked(q)

Return(r) == /\ CallbackReturns(r)
             /\ step' = "idle" /\ buf' = NoFile
             /\ UNCHANGED <<fsvars, cancelled, cfg>>

(* A call about a failed listing returns its error, one about a directory  *)
(* nil.                                                                    *)
Pass ==
    /\ call # NoCall /\ step = "idle"
    /\ \/ Over /\ Return("stop")
       \/ ADir /\ Return("nil")
    /\ UNCHANGED <<dstvars, copied, skips, total, arrived>>

(* Variant with a mistake: a dry run copies after a conflict check.        *)
ProceedAlways == IF cfg.dryRun /\ cfg.conflict = "overwrite" THEN "count" ELSE "get"

(* What follows the conflict check.                                        *)
Proceed == IF cfg.dryRun THEN "count" ELSE "get"

Begin ==
    /\ call # NoCall /\ step = "idle" /\ AFile
    /\ total' = total + 1
    /\ step' = IF cfg.conflict = "overwrite" THEN Proceed ELSE "exists"
    /\ UNCHANGED <<vars, dstvars, cfg, buf, copied, skips, arrived>>

(* Variant with a mistake: the answer of dst.Exists is not looked at.      *)
ClearAlways ==
    /\ step = "exists"
    /\ step' = Proceed
    /\ raced' = raced \ {Target(call.place)}
    /\ UNCHANGED <<vars, dst, dtouched, dchanges, cfg, buf, copied, skips, total, arrived>>

(* dst.Exists says there is nothing at the destination key; below a file   *)
(* it returns an error.                                                    *)
Clear ==
    /\ step = "exists" /\ dst[Target(call.place)] = NoFile /\ ~Blocked(Target(call.place))
    /\ step' = Proceed
    /\ raced' = raced \ {Target(call.place)}
    /\ UNCHANGED <<vars, dst, dtouched, dchanges, cfg, buf, copied, skips, total, arrived>>

(* It says there is a file, or a directory.                                *)
Conflict ==
    /\ step = "exists" /\ dst[Target(call.place)] # NoFile
    /\ \/ cfg.conflict = "error" /\ Return("stop") /\ UNCHANGED skips
       \/ cfg.conflict = "skip" /\ Return("nil") /\ skips' = skips + 1
    /\ UNCHANGED <<dstvars, copied, total, arrived>>

(* src.Get: the file listed, or what is there by now.                      *)
Get ==
    /\ step = "get" /\ tree[call.place] # Absent
    /\ buf' = tree[call.place]
    /\ step' = "put"
    /\ UNCHANGED <<vars, dstvars, cfg, copied, skips, total, arrived>>

Count == /\ copied' = copied + 1
         /\ arrived' = arrived \cup {call.place}
         /\ UNCHANGED <<skips, total>>

(* dst.Put of what Get opened.  A directory cannot be read.                *)
Write ==
    /\ step = "put" /\ buf \in Val /\ CanPut(Target(call.place))
    /\ dst' = Stored(Target(call.place), buf)
    /\ Return("nil") /\ Count
    /\ UNCHANGED <<raced, dtouched, dchanges>>

CountOnly ==
    /\ step = "count"
    /\ Return("nil") /\ Count
    /\ UNCHANGED dstvars

(* Variant with a mistake: an error of Copy is dropped.                    *)
FailDropped ==
    /\ step \in {"exists", "get", "put"}
    /\ Return(IF step = "exists" THEN "stop" ELSE "nil")
    /\ IF step = "exists" THEN UNCHANGED skips ELSE skips' = skips + 1
    /\ UNCHANGED <<dstvars, copied, total, arrived>>

(* Variant with a mistake: the file is counted before its error is seen.   *)
FailCounted ==
    /\ step \in {"exists", "get", "put"}
    /\ Return("stop")
    /\ IF step = "put" THEN Count ELSE UNCHANGED <<copied, arrived, skips, total>>
    /\ UNCHANGED dstvars

(* Exists or Get returns an error, or Put: one that fails may have written *)
(* nothing, some of the directories, all of the file, or a part of it.     *)
Fail ==
    /\ step \in {"exists", "get", "put"}
    /\ Return("stop")
    /\ LET q == Target(call.place)
       IN  \/ UNCHANGED dst
           \/ /\ step = "put" /\ ~Blocked(q)
              /\ \E last \in Way(q) :
                    dst' = [at \in DstKey |-> IF at \in Way(q) /\ ~Below(at, last)
                                              THEN Dir ELSE dst[at]]
           \/ /\ step = "put" /\ CanPut(q)
              /\ \E left \in {buf, Torn} \ {Dir} : dst' = Stored(q, left)
    /\ UNCHANGED <<raced, dtouched, dchanges, copied, skips, total, arrived>>

(* Other clients of the destination put a file, or delete one, or a        *)
(* directory with nothing in it.                                           *)
DstClient(k, v) ==
    /\ dchanges < MaxDstChanges /\ dst[k] # v
    /\ IF v = NoFile THEN /\ \A q \in DstKey : k \in Way(q) => dst[q] = NoFile
                          /\ dst' = [dst EXCEPT ![k] = NoFile]
                     ELSE CanPut(k) /\ dst' = Stored(k, v)
    /\ LET changed == {q \in DstKey : dst'[q] # dst[q]}
       IN  raced' = raced \cup changed /\ dtouched' = dtouched \cup changed
    /\ dchanges' = dchanges + 1
    /\ UNCHANGED <<vars, migvars>>

----------------------------------------------------------------------------
MInit == /\ Init
         /\ cfg \in Configs
         /\ dst = cfg.before
         /\ step = "idle" /\ buf = NoFile
         /\ copied = 0 /\ skips = 0 /\ total = 0
         /\ arrived = {} /\ raced = {} /\ dtouched = {} /\ dchanges = 0

MigrateStep == Pass \/ Begin \/ Clear \/ Conflict \/ Get \/ Write \/ CountOnly \/ Fail

MNext == \/ (Clients \/ WalkStep) /\ UNCHANGED <<dstvars, migvars>>
         \/ MigrateStep
         \/ \E k \in DstKey, v \in Val \cup {NoFile} : DstClient(k, v)

MSpec == MInit /\ [][MNext]_mvars

----------------------------------------------------------------------------
(* The files below the prefix that are there, and were from the start.     *)
Stable == {k \in Key : Below(k, Prefix) /\ IsFile(k) /\ k \notin touched}

(* No other file can have been sent to the same destination, or below it   *)
(* if that makes it a directory: none that is there, and none that was.    *)
Alone(k) == \A j \in Key \ {k} :
               Below(j, Prefix) /\ (IsFile(j) \/ j \in touched)
                   => Target(j) # Target(k) /\ Target(k) \notin Way(Target(j))

(* When Migrate returns nil, every file of the source nobody changed is at *)
(* its destination, unless ConflictSkip kept the file or the directory     *)
(* that was there before.                                                  *)
MigratesEverything ==
    result = "nil" /\ ~cfg.dryRun =>
        \A k \in Stable :
            LET q == Target(k)
            IN  Alone(k) /\ q \notin dtouched =>
                    dst[q] = IF cfg.conflict = "skip" /\ cfg.before[q] # NoFile
                             THEN cfg.before[q] ELSE tree[k]

(* However Migrate ends, a file it counts as copied is at its destination, *)
(* and it has counted each file it came to once; the file at which it      *)
(* stopped is in Total alone.                                              *)
CountsWhatArrived ==
    /\ copied = Cardinality(arrived)
    /\ total - copied - skips \in {0, 1}
    /\ step = "idle" /\ result # "stop" => total = copied + skips
    /\ ~cfg.dryRun =>
          \A k \in arrived \cap Stable :
              Alone(k) /\ Target(k) \notin dtouched => dst[Target(k)] = tree[k]

(* Without ConflictOverwrite Migrate writes no key that held a file when   *)
(* it last asked, and never the same key twice: only a file that another   *)
(* client puts there between the question and the write is lost.           *)
OnlyRacesClobber ==
    [][\A k \in DstKey :
          dst'[k] # dst[k] /\ dchanges' = dchanges /\ cfg.conflict # "overwrite"
              => dst[k] = NoFile \/ k \in raced]_mvars

(* The destination changes at the keys the source's files go to only, but  *)
(* for directories on the way there, and in a dry run not at all.          *)
NothingElseChanges ==
    \A q \in DstKey \ dtouched :
        dst[q] # cfg.before[q] =>
            /\ ~cfg.dryRun
            /\ \E k \in Key : /\ visits[k] > 0
                              /\ \/ Target(k) = q
                                 \/ /\ q \in Way(Target(k))
                                    /\ cfg.before[q] = NoFile /\ dst[q] = Dir

(* "The returned MigrateResult still reports what would have been copied   *)
(* or skipped" (migrate.go:56-57): a dry run of a tree nobody changes ends *)
(* as the migration would, to an ObjectFS at least, where no file is in    *)
(* the way of one below it.                                                *)
DryRunForesees ==
    cfg.dryRun /\ ~cfg.local /\ result = "nil" /\ changes = 0 /\ dchanges = 0 =>
        LET targets == {Target(k) : k \in Stable}
        IN  /\ cfg.conflict = "skip" =>
                  copied = Cardinality({q \in targets : dst[q] = NoFile})
            /\ cfg.conflict = "error" => copied = Cardinality(targets)
=============================================================================
