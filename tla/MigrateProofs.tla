---------------------------- MODULE MigrateProofs ----------------------------
(***************************************************************************)
(* What Migrate promises, for every source, destination, key function and  *)
(* conflict policy, and any number of changes to both meanwhile; the       *)
(* source is not a MountTable.                                             *)
(*                                                                         *)
(* A migration is a walk with a particular callback, so the invariants of  *)
(* WalkProofs hold of it; to them is added what the destination holds for  *)
(* each file before the callback is called for it, in each of its steps,   *)
(* and afterwards.                                                         *)
(***************************************************************************)
EXTENDS Migrate, WalkProofs, FiniteSetTheorems

(* The walk Migrate makes is a walk.                                       *)
LEMMA WalkOfMigrate == ~Mounted /\ CoverInv /\ [MNext]_mvars => CoverInv'
<1> SUFFICES ASSUME ~Mounted, CoverInv, [MNext]_mvars PROVE CoverInv'
  OBVIOUS
<1>1. CASE Clients \/ WalkStep
  BY <1>1, CoverClients, CoverWalk
<1>2. CASE UNCHANGED vars
  BY <1>2, CoverKept
<1>3. ASSUME NEW r \in {"nil", "stop"}, Return(r) PROVE CoverInv'
  BY <1>3, CoverCallback DEF Return
<1>4. CASE MigrateStep
  <2>1. UNCHANGED vars \/ \E r \in {"nil", "stop"} : Return(r)
    BY <1>4 DEF MigrateStep, Pass, Begin, Clear, Conflict, Get, Write, CountOnly, Fail
  <2> QED BY <1>2, <1>3, <2>1
<1>5. CASE \E k \in DstKey, v \in Val \cup {NoFile} : DstClient(k, v)
  BY <1>2, <1>5 DEF DstClient
<1>6. CASE UNCHANGED mvars
  BY <1>2, <1>6 DEF mvars
<1> QED BY <1>1, <1>4, <1>5, <1>6 DEF MNext

----------------------------------------------------------------------------
(* Where the callback is.                                                  *)

CallbackOK ==
    /\ cfg \in Configs
    /\ DOMAIN dst = DstKey
    /\ dchanges \in Nat
    /\ step \in {"idle", "exists", "get", "put", "count"}
    /\ step # "idle" => InCallback /\ call.file
    /\ step = "exists" => cfg.conflict # "overwrite"
    /\ step = "count" => cfg.dryRun
    /\ step \in {"get", "put"} => ~cfg.dryRun

(* It writes where there was no file when it asked, or others have written *)
(* since.                                                                  *)
RaceOK ==
    step \in {"get", "put", "count"} /\ cfg.conflict # "overwrite" =>
        dst[Target(call.place)] = NoFile \/ Target(call.place) \in raced

MigrateInv == CoverInv /\ CallbackOK /\ RaceOK /\ NothingElseChanges

(* What a step of the callback does.                                       *)
LEMMA InCallbackFacts ==
    ASSUME CoverInv, CallbackOK, step # "idle"
    PROVE  /\ call # NoCall /\ stack # <<>> /\ Top.at = "loop" /\ AFile
           /\ call.place \in Key /\ visits[call.place] > 0 /\ Below(call.place, Prefix)
           /\ Target(call.place) \in DstKey
<1>1. InCallback /\ call.file
  BY DEF CallbackOK
<1>2. /\ call # NoCall /\ stack # <<>> /\ Top.at = "loop" /\ AFile
      /\ EntryOf(call, Top.prefix) /\ visits[call.place] > 0
  BY <1>1 DEF InCallback, AFile, CoverInv, WalkInv, CallOK
<1>3. call.place \in Key
  BY <1>2 DEF EntryOf, Ent
<1>4. Below(call.place, Prefix)
  BY <1>2, VisitsBelowPrefix DEF CoverInv
<1>5. Target(call.place) \in DstKey
  BY <1>3, <1>4, KeyFuncAssumption DEF Target, CallbackOK, Configs
<1> QED BY <1>2, <1>3, <1>4, <1>5

LEMMA MigrateStarts == MInit => MigrateInv
<1> SUFFICES ASSUME MInit PROVE MigrateInv
  OBVIOUS
<1>1. CoverInv /\ cfg \in Configs /\ dst = cfg.before /\ step = "idle" /\ dchanges = 0
  BY CoverStarts DEF MInit
<1>2. DOMAIN dst = DstKey
  BY <1>1, DstAssumption DEF Configs
<1> QED BY <1>1, <1>2 DEF MigrateInv, CallbackOK, RaceOK, NothingElseChanges

LEMMA CallbackKept ==
    ASSUME ~Mounted, CoverInv, CallbackOK, MNext PROVE CallbackOK'
<1>1. CASE (Clients \/ WalkStep) /\ UNCHANGED <<dstvars, migvars>>
  <2>1. UNCHANGED <<cfg, dst, step, dchanges>>
    BY <1>1 DEF dstvars, migvars
  <2>2. CASE step = "idle"
    BY <2>1, <2>2 DEF CallbackOK
  <2>3. CASE step # "idle"
    <3>1. ~WalkStep
      BY <2>3 DEF CallbackOK, InCallback, WalkStep, List, ListNothing, ListFails, Check,
                  Visit, EndOfLoop, At
    <3>2. UNCHANGED <<stack, call>>
      BY <1>1, <3>1 DEF Clients, Put, Delete, Cancel, Changes, walkvars
    <3> QED BY <2>1, <3>2 DEF CallbackOK, InCallback, Top, Last
  <2> QED BY <2>2, <2>3
<1>2. ASSUME NEW r, Return(r), DOMAIN dst' = DOMAIN dst, dchanges' = dchanges
      PROVE  CallbackOK'
  BY <1>2 DEF Return, CallbackOK
<1>3. CASE Pass
  BY <1>2, <1>3 DEF Pass, dstvars
<1>4. CASE Begin
  <2>1. /\ call # NoCall /\ AFile /\ UNCHANGED <<vars, dst, cfg, dchanges>>
        /\ step' = IF cfg.conflict = "overwrite" THEN Proceed ELSE "exists"
    BY <1>4 DEF Begin, dstvars
  <2>2. InCallback /\ call.file
    BY <2>1 DEF AFile, InCallback, CoverInv, WalkInv, CallOK
  <2>3. UNCHANGED <<stack, call>>
    BY <2>1 DEF vars, walkvars
  <2> QED BY <2>1, <2>2, <2>3 DEF CallbackOK, InCallback, Top, Last, Proceed
<1>5. CASE Clear
  <2>1. UNCHANGED <<stack, call, dst, cfg, dchanges>> /\ step' = Proceed /\ step = "exists"
    BY <1>5 DEF Clear, vars, walkvars
  <2> QED BY <2>1 DEF CallbackOK, InCallback, Top, Last, Proceed
<1>6. CASE Conflict
  BY <1>2, <1>6 DEF Conflict, dstvars
<1>7. CASE Get
  <2>1. UNCHANGED <<stack, call, dst, cfg, dchanges>> /\ step' = "put" /\ step = "get"
    BY <1>7 DEF Get, vars, walkvars, dstvars
  <2> QED BY <2>1 DEF CallbackOK, InCallback, Top, Last
<1>8. CASE Write \/ CountOnly \/ Fail
  <2>1. DOMAIN dst' = DOMAIN dst /\ dchanges' = dchanges
    BY <1>8 DEF Write, CountOnly, Fail, Stored, dstvars, CallbackOK
  <2> QED BY <1>2, <1>8, <2>1 DEF Write, CountOnly, Fail
<1>9. CASE \E k \in DstKey, v \in Val \cup {NoFile} : DstClient(k, v)
  <2>1. UNCHANGED <<stack, call, cfg, step>> 
    BY <1>9 DEF DstClient, vars, walkvars, migvars
  <2>2. DOMAIN dst' = DOMAIN dst /\ dchanges' = dchanges + 1
    BY <1>9 DEF DstClient, Stored, CallbackOK
  <2>3. dchanges \in Nat /\ DOMAIN dst = DstKey
    BY DEF CallbackOK
  <2>4. InCallback' <=> InCallback
    BY <2>1 DEF InCallback, Top, Last
  <2>5. dchanges' \in Nat
    BY <2>2, <2>3
  <2>6. DOMAIN dst' = DstKey
    BY <2>2, <2>3
  <2> QED BY <2>1, <2>4, <2>5, <2>6 DEF CallbackOK
<1> QED BY <1>1, <1>3, <1>4, <1>5, <1>6, <1>7, <1>8, <1>9 DEF MNext, MigrateStep

(* A step of the walk leaves the callback alone, and it is not in progress *)
(* while the walk takes one.                                               *)
LEMMA WalkLeavesCallback ==
    ASSUME CallbackOK, step # "idle", Clients \/ WalkStep
    PROVE  UNCHANGED walkvars
<1>1. ~WalkStep
  BY DEF CallbackOK, InCallback, WalkStep, List, ListNothing, ListFails, Check, Visit,
         EndOfLoop, At
<1> QED BY SMTT(30), <1>1 DEF Clients, Put, Delete, Cancel, Changes, walkvars

LEMMA RaceKept ==
    ASSUME ~Mounted, CoverInv, CallbackOK, RaceOK, MNext PROVE RaceOK'
<1>1. CASE (Clients \/ WalkStep) /\ UNCHANGED <<dstvars, migvars>>
  <2>1. step # "idle" => UNCHANGED call
    BY <1>1, WalkLeavesCallback DEF walkvars
  <2>2. UNCHANGED <<cfg, dst, step, raced>>
    BY <1>1 DEF dstvars, migvars
  <2> QED BY <2>1, <2>2 DEF RaceOK, Target
<1>2. CASE step' = "idle"
  BY <1>2 DEF RaceOK
<1>3. CASE Pass \/ Conflict \/ Write \/ CountOnly \/ Fail
  BY <1>2, <1>3 DEF Pass, Conflict, Write, CountOnly, Fail, Return
<1>4. CASE Begin
  BY <1>4 DEF Begin, RaceOK
<1>5. CASE Clear
  <2>1. UNCHANGED <<call, dst, cfg>> /\ dst[Target(call.place)] = NoFile
    BY <1>5 DEF Clear, vars, walkvars
  <2> QED BY <2>1 DEF RaceOK, Target
<1>6. CASE Get
  <2>1. UNCHANGED <<call, dst, cfg, raced>> /\ step = "get"
    BY <1>6 DEF Get, vars, walkvars, dstvars
  <2> QED BY <2>1 DEF RaceOK, Target
<1>7. ASSUME NEW k \in DstKey, NEW v, DstClient(k, v) PROVE RaceOK'
  <2>1. UNCHANGED <<call, cfg, step>>
    BY <1>7 DEF DstClient, vars, walkvars, migvars
  <2>2. \A q \in DstKey : dst'[q] = dst[q] \/ q \in raced'
    BY <1>7 DEF DstClient
  <2>3. raced \subseteq raced'
    BY <1>7 DEF DstClient
  <2>4. step # "idle" => Target(call.place) \in DstKey
    BY InCallbackFacts
  <2>5. Target(call.place)' = Target(call.place)
    BY <2>1 DEF Target
  <2> QED BY <2>1, <2>2, <2>3, <2>4, <2>5 DEF RaceOK
<1> QED BY <1>1, <1>3, <1>4, <1>5, <1>6, <1>7 DEF MNext, MigrateStep

----------------------------------------------------------------------------
(* What a step does to the destination.                                    *)

LEMMA WhoWrites ==
    ASSUME CoverInv, CallbackOK, MNext, NEW q, q \in DstKey, dst'[q] # dst[q]
    PROVE  \/ /\ step = "put"
              /\ \/ q = Target(call.place)
                 \/ q \in Way(Target(call.place)) /\ dst[q] = NoFile /\ dst'[q] = Dir
              /\ call' = NoCall /\ UNCHANGED <<cfg, visits, dtouched, dchanges>>
           \/ q \in dtouched' /\ dchanges' # dchanges
<1>1. CASE (Clients \/ WalkStep) /\ UNCHANGED <<dstvars, migvars>>
  BY <1>1 DEF dstvars
<1>2. CASE Pass \/ Begin \/ Clear \/ Conflict \/ Get \/ CountOnly
  BY <1>2 DEF Pass, Begin, Clear, Conflict, Get, CountOnly, dstvars
<1>3. CASE Write \/ Fail
  <2> DEFINE at == Target(call.place)
  <2>1. step = "put" /\ ~Blocked(at)
    BY <1>3 DEF Write, Fail, CanPut
  <2>2. q = at \/ (q \in Way(at) /\ dst'[q] = Dir)
    BY <1>3 DEF Write, Fail, Stored
  <2>3. q \in Way(at) => dst[q] \in {NoFile, Dir}
    BY <2>1 DEF Blocked
  <2>4. call' = NoCall /\ UNCHANGED <<cfg, visits, dtouched, dchanges>>
    BY <1>3 DEF Write, Fail, Return, CallbackReturns
  <2> QED BY <2>1, <2>2, <2>3, <2>4
<1>4. ASSUME NEW k \in DstKey, NEW v, DstClient(k, v)
      PROVE  q \in dtouched' /\ dchanges' # dchanges
  BY <1>4 DEF DstClient, CallbackOK
<1> QED BY <1>1, <1>2, <1>3, <1>4 DEF MNext, MigrateStep

(* What stays, and what only grows.                                        *)
LEMMA WhatGrows ==
    ASSUME WalkType, MNext
    PROVE  /\ cfg' = cfg
           /\ dtouched \subseteq dtouched'
           /\ \A k \in Key : visits[k] > 0 => visits'[k] > 0
<1>1. CASE (Clients \/ WalkStep) /\ UNCHANGED <<dstvars, migvars>>
  <2>1. UNCHANGED <<cfg, dtouched>>
    BY <1>1 DEF dstvars, migvars
  <2>2. CASE UNCHANGED visits
    BY <2>1, <2>2
  <2>3. CASE Visit
    <3>1. PICK e : visits' = [visits EXCEPT ![e.place] = IF @ < 2 THEN @ + 1 ELSE @]
      BY <2>3 DEF Visit
    <3>2. ASSUME NEW k \in Key, visits[k] > 0 PROVE visits'[k] > 0
      BY <3>1, <3>2 DEF WalkType
    <3> QED BY <2>1, <3>2
  <2>4. UNCHANGED visits \/ Visit
    BY <1>1 DEF Clients, Put, Delete, Cancel, Changes, walkvars, WalkStep, List, ListNothing,
                ListFails, Check, EndOfLoop
  <2> QED BY <2>2, <2>3, <2>4
<1>2. CASE MigrateStep
  <2>1. UNCHANGED <<cfg, dtouched, visits>>
    BY <1>2 DEF MigrateStep, Pass, Begin, Clear, Conflict, Get, Write, CountOnly, Fail,
                Return, CallbackReturns, dstvars, vars, walkvars
  <2> QED BY <2>1
<1>3. CASE \E k \in DstKey, v \in Val \cup {NoFile} : DstClient(k, v)
  BY <1>3 DEF DstClient, migvars, vars, walkvars
<1> QED BY <1>1, <1>2, <1>3 DEF MNext

LEMMA NothingElseKept ==
    ASSUME ~Mounted, CoverInv, CallbackOK, NothingElseChanges, MNext
    PROVE  NothingElseChanges'
<1> DEFINE For(q, k) == \/ Target(k) = q
                        \/ q \in Way(Target(k)) /\ cfg.before[q] = NoFile /\ dst[q] = Dir
<1> SUFFICES ASSUME NEW q \in DstKey, q \notin dtouched', dst'[q] # cfg'.before[q]
             PROVE  ~cfg'.dryRun /\ \E k \in Key : visits'[k] > 0 /\ For(q, k)'
  BY DEF NothingElseChanges
<1>1. /\ cfg' = cfg /\ dtouched \subseteq dtouched'
      /\ \A k \in Key : visits[k] > 0 => visits'[k] > 0
  BY WhatGrows DEF CoverInv, WalkInv
<1>2. \A k \in Key : Target(k)' = Target(k) /\ Way(Target(k))' = Way(Target(k))
  BY <1>1 DEF Target, Way, Below
<1>3. dst[q] # cfg.before[q] =>
          ~cfg.dryRun /\ \E k \in Key : visits[k] > 0 /\ For(q, k)
  BY <1>1 DEF NothingElseChanges
<1>4. CASE dst'[q] = dst[q]
  BY <1>1, <1>2, <1>3, <1>4
<1>5. CASE dst'[q] # dst[q]
  <2>1. /\ step = "put"
        /\ \/ q = Target(call.place)
           \/ q \in Way(Target(call.place)) /\ dst[q] = NoFile /\ dst'[q] = Dir
    BY <1>5, WhoWrites
  <2>2. PICK k \in Key : k = call.place /\ visits[k] > 0
    BY <2>1, InCallbackFacts
  <2>3. ~cfg.dryRun
    BY <2>1 DEF CallbackOK
  <2>4. CASE q = Target(k)
    BY <1>1, <1>2, <2>2, <2>3, <2>4
  <2>5. CASE q \in Way(Target(k)) /\ dst[q] = NoFile /\ dst'[q] = Dir
    <3>1. CASE cfg.before[q] = NoFile
      BY <1>1, <1>2, <2>2, <2>3, <2>5, <3>1
    <3>2. CASE cfg.before[q] # NoFile
      <4>1. PICK j \in Key : visits[j] > 0 /\ Target(j) = q
        BY <1>3, <2>5, <3>2
      <4> QED BY <1>1, <1>2, <2>3, <4>1
    <3> QED BY <3>1, <3>2
  <2> QED BY <2>1, <2>2, <2>4, <2>5
<1> QED BY <1>4, <1>5

LEMMA MigrateInvKept == ~Mounted /\ MigrateInv /\ [MNext]_mvars => MigrateInv'
<1> SUFFICES ASSUME ~Mounted, MigrateInv, [MNext]_mvars PROVE MigrateInv'
  OBVIOUS
<1>1. CoverInv'
  BY WalkOfMigrate DEF MigrateInv
<1>2. CASE MNext
  BY <1>1, <1>2, CallbackKept, RaceKept, NothingElseKept DEF MigrateInv
<1>3. CASE UNCHANGED mvars
  <2>1. UNCHANGED <<cfg, dst, step, raced, dtouched, dchanges, visits, stack, call>>
    BY <1>3 DEF mvars, dstvars, migvars, vars, walkvars
  <2>2. CallbackOK'
    BY <2>1 DEF MigrateInv, CallbackOK, InCallback, Top, Last
  <2>3. RaceOK'
    BY <2>1 DEF MigrateInv, RaceOK, Target
  <2>4. NothingElseChanges'
    BY <2>1 DEF MigrateInv, NothingElseChanges, Target, Way, Below
  <2> QED BY <1>1, <2>2, <2>3, <2>4 DEF MigrateInv
<1> QED BY <1>2, <1>3

(* The destination changes at the keys the source's files go to only, and  *)
(* in a dry run not at all (migrate.go:111-155).                           *)
THEOREM OnlyTargetsChange ==
    ASSUME ~Mounted
    PROVE  MSpec => []NothingElseChanges
<1>1. MInit => MigrateInv
  BY MigrateStarts
<1>2. MigrateInv /\ [MNext]_mvars => MigrateInv'
  BY MigrateInvKept
<1>3. MigrateInv => NothingElseChanges
  BY DEF MigrateInv
<1> QED BY <1>1, <1>2, <1>3, PTL DEF MSpec

(* Without ConflictOverwrite Migrate loses a file only if another client   *)
(* put it there after dst.Exists was asked (migrate.go:118-145).           *)
THEOREM OnlyRacesLose ==
    ASSUME ~Mounted
    PROVE  MSpec => OnlyRacesClobber
<1>1. MInit => MigrateInv
  BY MigrateStarts
<1>2. MigrateInv /\ [MNext]_mvars => MigrateInv'
  BY MigrateInvKept
<1> DEFINE Clobbers(k) == dst'[k] # dst[k] /\ dchanges' = dchanges /\ cfg.conflict # "overwrite"
           NoLoss == \A k \in DstKey : Clobbers(k) => dst[k] = NoFile \/ k \in raced
<1>3. MigrateInv /\ [MNext]_mvars => [NoLoss]_mvars
  <2> SUFFICES ASSUME MigrateInv, MNext, NEW k \in DstKey, Clobbers(k)
               PROVE  dst[k] = NoFile \/ k \in raced
    OBVIOUS
  <2>1. dst[k] = NoFile \/ (step = "put" /\ k = Target(call.place))
    BY WhoWrites DEF MigrateInv, Clobbers
  <2> QED BY <2>1 DEF MigrateInv, RaceOK, Clobbers
<1> QED BY <1>1, <1>2, <1>3, PTL DEF MSpec, OnlyRacesClobber

----------------------------------------------------------------------------
(* What arrives.                                                           *)

(* The callback has returned from its call about k.                        *)
Sent(k) == visits[k] > 0 /\ ~(InCallback /\ call.place = k)

(* A file nobody changes, sent to a key of its own that nobody changes.    *)
Watched(k) == k \in Stable /\ Alone(k) /\ Target(k) \notin dtouched

(* ConflictSkip keeps what the destination held.                           *)
Kept(k) == cfg.conflict = "skip" /\ cfg.before[Target(k)] # NoFile

Expected(k) == IF Kept(k) THEN cfg.before[Target(k)] ELSE tree[k]

OnItsWay(k) ==
    /\ ~Sent(k) => dst[Target(k)] = cfg.before[Target(k)]
    /\ Sent(k) /\ Running /\ ~cfg.dryRun => dst[Target(k)] = Expected(k)
    /\ k \in arrived /\ ~cfg.dryRun => dst[Target(k)] = tree[k]
    /\ step \in {"get", "put"} /\ call.place = k => ~Kept(k)
    /\ step = "put" /\ call.place = k => buf = tree[k]

DeliveryOK == \A k \in Key : Watched(k) => OnItsWay(k)

ArrivedOK == \A k \in arrived : k \in Key /\ Sent(k)

(* A listing that fails ends Migrate with an error.                        *)
UnlistedOK == /\ skipped = {}
              /\ unlisted # {} => result = "stop" \/ (stack # <<>> /\ Top.at = "failed")

DeliveryInv == MigrateInv /\ DeliveryOK /\ ArrivedOK /\ UnlistedOK

(* Interference only takes files away from those that are watched.         *)
LEMMA WatchedStays ==
    ASSUME CoverInv, CallbackOK, MNext, NEW k \in Key, Watched(k)'
    PROVE  /\ Watched(k) /\ tree'[k] = tree[k] /\ cfg' = cfg
           /\ Target(k)' = Target(k) /\ Target(k) \notin dtouched'
           /\ Target(k) \in DstKey /\ tree[k] \in Val
<1>1. cfg' = cfg /\ dtouched \subseteq dtouched'
  BY WhatGrows DEF CoverInv, WalkInv
<1>2. \A j \in Key : j \notin touched' => j \notin touched /\ tree'[j] = tree[j]
  <2>1. CASE Clients
    BY <2>1, ClientsKeepTree DEF CoverInv
  <2>2. CASE ~Clients
    <3>1. UNCHANGED <<tree, touched>>
      BY <2>2 DEF MNext, WalkStep, List, ListNothing, ListFails, Check, Visit, EndOfLoop,
                  MigrateStep, Pass, Begin, Clear, Conflict, Get, Write, CountOnly, Fail,
                  Return, DstClient, fsvars, vars
    <3> QED BY <3>1
  <2> QED BY <2>1, <2>2
<1>3. \A j : Target(j)' = Target(j)
  BY <1>1 DEF Target
<1>4. k \in Stable /\ tree'[k] = tree[k]
  BY <1>2 DEF Watched, Stable, IsFile, Below
<1>5. Alone(k)
  <2> SUFFICES ASSUME NEW j \in Key \ {k}, Below(j, Prefix), IsFile(j) \/ j \in touched
               PROVE  Target(j) # Target(k) /\ Target(k) \notin Way(Target(j))
    BY DEF Alone
  <2>1. IsFile(j)' \/ j \in touched'
    BY <1>2 DEF IsFile
  <2>2. Below(j, Prefix)'
    BY DEF Below
  <2>3. Target(j)' # Target(k)' /\ Target(k)' \notin Way(Target(j))'
    BY <2>1, <2>2 DEF Watched, Alone
  <2>4. Way(Target(j))' = Way(Target(j))
    BY <1>1, <1>3 DEF Way, Below
  <2> QED BY <1>3, <2>3, <2>4
<1>6. Target(k) \notin dtouched'
  BY <1>3 DEF Watched
<1>7. Target(k) \in DstKey
  BY <1>4, KeyFuncAssumption DEF Stable, Target, CallbackOK, Configs
<1> QED BY <1>1, <1>3, <1>4, <1>5, <1>6, <1>7 DEF Watched, Stable, IsFile

(* The callback that comes to an end.                                      *)
LEMMA ReturnFacts ==
    ASSUME CoverInv, NEW r \in {"nil", "stop"}, Return(r)
    PROVE  /\ call # NoCall /\ stack # <<>> /\ call' = NoCall /\ result = "running"
           /\ UNCHANGED <<visits, unlisted, tree, touched>> /\ step' = "idle"
           /\ skipped = {} => skipped' = {}
           /\ r = "stop" => result' = "stop" /\ stack' = <<>>
           /\ r = "nil" /\ Top.at # "failed" => result' = result
<1>1. call # NoCall /\ stack # <<>> /\ result = "running"
  BY DEF Return, CallbackReturns, CoverInv, WalkInv, CallOK, EndOK
<1>2. r # "skip"
  OBVIOUS
<1>3. skipped' = skipped
  BY <1>2 DEF Return, CallbackReturns
<1>4. r = "stop" => result' = "stop" /\ stack' = <<>>
  BY DEF Return, CallbackReturns, Finish
<1>5. r = "nil" /\ Top.at # "failed" => result' = result
  BY DEF Return, CallbackReturns, Descend, Over
<1> QED BY <1>1, <1>3, <1>4, <1>5 DEF Return, CallbackReturns, fsvars

(* Which step of Migrate is one of the callback's returns.                 *)
LEMMA StepKinds ==
    ASSUME MigrateStep
    PROVE  \/ UNCHANGED vars /\ step' # "idle" /\ (Begin \/ Clear \/ Get)
           \/ Return("stop")
           \/ Return("nil") /\ (Pass \/ Conflict \/ Write \/ CountOnly)
BY DEF MigrateStep, Pass, Begin, Clear, Conflict, Get, Write, CountOnly, Fail, Proceed

LEMMA TopAfter ==
    ASSUME WalkType, stack # <<>>, NEW fr, stack' = Append(Front(stack), fr)
    PROVE  stack' # <<>> /\ Top' = fr
<1>1. Front(stack) \in Seq(Fr) /\ Len(Front(stack)) \in Nat
  BY RemoveTop, LenProperties DEF WalkType
<1>2. Len(stack') = Len(Front(stack)) + 1 /\ stack'[Len(stack')] = fr
  BY <1>1
<1> QED BY <1>1, <1>2 DEF Top, Last

(* A call is over when it returns, and only then.                          *)
LEMMA SentStays ==
    ASSUME CoverInv, CoverInv', CallbackOK, MNext, NEW k \in Key
    PROVE  /\ Sent(k) => Sent(k)'
           /\ Sent(k)' /\ ~Sent(k) => InCallback /\ call.place = k /\ call' = NoCall
                                       /\ \E r \in {"nil", "stop"} : Return(r) /\ MigrateStep
<1>1. ASSUME UNCHANGED walkvars PROVE Sent(k)' <=> Sent(k)
  BY <1>1 DEF walkvars, Sent, InCallback, Top, Last
<1>2. CASE Clients
  BY <1>1, <1>2 DEF Clients, Put, Delete, Cancel, Changes
<1>3. CASE WalkStep
  <2>1. call = NoCall /\ stack # <<>>
    BY <1>3 DEF WalkStep, List, ListNothing, ListFails, Check, Visit, EndOfLoop, At
  <2>2. Sent(k) <=> visits[k] > 0
    BY <2>1 DEF Sent, InCallback
  <2>3. CASE Visit
    <3>1. PICK e \in Top.todo : /\ SetTop([Top EXCEPT !.at = "loop", !.todo = @ \ {e}])
                                /\ call' = e
                                /\ visits' = [visits EXCEPT ![e.place] = IF @ < 2 THEN @ + 1 ELSE @]
      BY <2>3 DEF Visit, CallBack
    <3>2. Top \in Fr /\ FrameOK(Top)
      BY <2>1, TopIsLast DEF CoverInv, WalkInv, StackOK
    <3>3. e.place \in Key /\ visits[e.place] = 0
      BY <3>1, <3>2 DEF FrameOK, EntryOf, Ent, Unvisited
    <3>4. CASE k = e.place
      <4>1. ~Sent(k)
        BY <3>3, <3>4 DEF Sent
      <4>2. InCallback' /\ call'.place = k
        <5>1. PICK top \in Fr : top = Top
          BY <3>2
        <5>2. Top' = [top EXCEPT !.at = "loop", !.todo = @ \ {e}] /\ stack' # <<>>
          BY <2>1, <3>1, <5>1, TopAfter DEF SetTop, CoverInv, WalkInv
        <5>3. Top'.at = "loop"
          BY <5>1, <5>2 DEF Fr, Where
        <5>4. call' # NoCall
          BY <3>1, <3>2, CallAssumption DEF FrameOK, EntryOf, Ent
        <5> QED BY <3>1, <3>4, <5>2, <5>3, <5>4 DEF InCallback
      <4> QED BY <4>1, <4>2 DEF Sent
    <3>5. CASE k # e.place
      <4>1. visits'[k] = visits[k]
        BY <3>1, <3>5 DEF CoverInv, WalkInv, WalkType
      <4> QED BY <2>2, <3>1, <3>5, <4>1 DEF Sent
    <3> QED BY <3>4, <3>5
  <2>4. CASE ListFails
    <3>1. SetTop([Top EXCEPT !.at = "failed"]) /\ visits' = visits
      BY <2>4 DEF ListFails
    <3>2. PICK top \in Fr : top = Top
      BY <2>1, TopIsLast DEF CoverInv, WalkInv
    <3>3. Top' = [top EXCEPT !.at = "failed"]
      BY <2>1, <3>1, <3>2, TopAfter DEF SetTop, CoverInv, WalkInv
    <3>4. Top'.at = "failed"
      BY <3>2, <3>3 DEF Fr, Where
    <3> QED BY <2>2, <3>1, <3>4 DEF Sent, InCallback
  <2>5. CASE List \/ ListNothing \/ Check \/ EndOfLoop
    <3>1. call' = NoCall /\ visits' = visits
      BY <2>1, <2>5 DEF List, ListNothing, Check, EndOfLoop
    <3> QED BY <2>2, <3>1 DEF Sent, InCallback
  <2> QED BY <1>3, <2>3, <2>4, <2>5 DEF WalkStep
<1>4. CASE MigrateStep
  <2>1. CASE UNCHANGED vars
    BY <1>1, <2>1 DEF vars
  <2>2. ASSUME NEW r \in {"nil", "stop"}, Return(r) PROVE call' = NoCall /\ visits' = visits
    BY <2>2, ReturnFacts
  <2> QED BY <1>4, <2>1, <2>2, StepKinds DEF Sent, InCallback
<1>5. CASE \E q \in DstKey, v \in Val \cup {NoFile} : DstClient(q, v)
  BY <1>1, <1>5 DEF DstClient, vars
<1> QED BY <1>2, <1>3, <1>4, <1>5 DEF MNext

(* Once Migrate has failed it does nothing more.                           *)
LEMMA RunningBefore ==
    ASSUME CoverInv, CallbackOK, MNext, Running' PROVE Running
<1> SUFFICES ASSUME ~Running PROVE FALSE
  OBVIOUS
<1>1. stack = <<>> /\ call = NoCall
  BY DEF Running, CoverInv, EndOK, WalkInv, CallOK
<1>2. step = "idle"
  BY <1>1 DEF CallbackOK, InCallback
<1>3. ~WalkStep
  BY <1>1 DEF WalkStep, List, ListNothing, ListFails, Check, Visit, EndOfLoop, At
<1>4. ~MigrateStep
  BY <1>1, <1>2 DEF MigrateStep, Pass, Begin, Clear, Conflict, Get, Write, CountOnly, Fail
<1>5. result' = result
  BY <1>3, <1>4 DEF MNext, Clients, Put, Delete, Cancel, Changes, walkvars, DstClient, vars
<1> QED BY <1>5 DEF Running

(* A file that is watched shares its destination with no other.            *)
LEMMA DestinationStays ==
    ASSUME CoverInv, CallbackOK, MNext, NEW k \in Key, Watched(k)',
           ~(step = "put" /\ call' = NoCall /\ InCallback /\ call.place = k)
    PROVE  dst'[Target(k)] = dst[Target(k)]
<1>1. /\ Watched(k) /\ Target(k) \notin dtouched' /\ Target(k) \in DstKey
  BY WatchedStays
<1> SUFFICES ASSUME dst'[Target(k)] # dst[Target(k)] PROVE FALSE
  OBVIOUS
<1>2. step = "put" /\ call' = NoCall
  BY <1>1, WhoWrites
<1>3. Target(k) = Target(call.place) \/ Target(k) \in Way(Target(call.place))
  BY <1>1, WhoWrites
<1>4. /\ InCallback /\ call.file /\ call.place \in Key /\ Below(call.place, Prefix)
  BY <1>2, InCallbackFacts DEF CallbackOK
<1>5. IsFile(call.place) \/ call.place \in touched
  BY <1>4 DEF CoverInv, FilesOK, Seen
<1>6. call.place # k
  BY <1>2, <1>4
<1> QED BY <1>1, <1>3, <1>4, <1>5, <1>6 DEF Watched, Alone

(* The callback's last step for a file that is watched.                    *)
LEMMA FileReturns ==
    ASSUME CoverInv, CallbackOK, NEW k \in Key, Watched(k), OnItsWay(k), ~Sent(k),
           InCallback, call.place = k, Target(k) \in DstKey, MigrateStep,
           NEW r \in {"nil", "stop"}, Return(r), r = "nil", ~cfg.dryRun
    PROVE  /\ dst'[Target(k)] = Expected(k)
           /\ k \in arrived' => k \in arrived \/ dst'[Target(k)] = tree[k]
<1>1. tree[k] \in Val /\ k \notin touched /\ dst[Target(k)] = cfg.before[Target(k)]
  BY DEF Watched, Stable, IsFile, OnItsWay
<1>2. call.file
  BY <1>1 DEF CoverInv, FilesOK, Seen, IsFile
<1>3. ~(Over \/ ADir)
  BY <1>2 DEF Over, ADir, InCallback
<1>4. ~Return("stop") /\ ~UNCHANGED vars
  <2>1. result' = "running" /\ call # NoCall /\ call' = NoCall
    BY ReturnFacts DEF InCallback
  <2>2. Return("stop") => result' = "stop"
    BY ReturnFacts
  <2> QED BY <2>1, <2>2 DEF vars, walkvars
<1>5. CASE Conflict
  <2>1. /\ cfg.conflict = "skip" /\ dst[Target(k)] # NoFile /\ dst' = dst /\ arrived' = arrived
    BY <1>4, <1>5 DEF Conflict, dstvars
  <2> QED BY <1>1, <2>1 DEF Expected, Kept
<1>6. CASE Write
  <2>1. step = "put" /\ dst' = Stored(Target(k), buf)
    BY <1>6 DEF Write
  <2>2. buf = tree[k] /\ ~Kept(k)
    BY <2>1 DEF OnItsWay
  <2>3. dst'[Target(k)] = tree[k]
    BY <2>1, <2>2 DEF Stored
  <2> QED BY <2>2, <2>3 DEF Expected
<1>7. CASE CountOnly
  BY <1>7 DEF CountOnly, CallbackOK
<1> QED BY <1>3, <1>4, <1>5, <1>6, <1>7, StepKinds DEF Pass

(* What a step counts as copied.                                           *)
LEMMA WhoArrives ==
    ASSUME MNext
    PROVE  \/ arrived' = arrived
           \/ /\ arrived' = arrived \cup {call.place} /\ step \in {"put", "count"}
              /\ Return("nil") /\ MigrateStep
BY DEF MNext, MigrateStep, Pass, Begin, Clear, Conflict, Get, Write, CountOnly, Count, Fail,
       DstClient, migvars

LEMMA ArrivedKept ==
    ASSUME CoverInv, CoverInv', CallbackOK, ArrivedOK, MNext PROVE ArrivedOK'
<1>1. CASE arrived' = arrived
  BY <1>1, SentStays DEF ArrivedOK
<1>2. CASE arrived' = arrived \cup {call.place} /\ step # "idle" /\ Return("nil")
  <2>1. call.place \in Key /\ visits[call.place] > 0 /\ call' = NoCall /\ visits' = visits
    BY <1>2, InCallbackFacts, ReturnFacts
  <2>2. \A k \in Key : k = call.place => Sent(k)'
    BY <2>1 DEF Sent, InCallback
  <2>3. \A k \in arrived : k \in Key /\ Sent(k)'
    BY SentStays DEF ArrivedOK
  <2> QED BY <1>2, <2>1, <2>2, <2>3 DEF ArrivedOK
<1> QED BY <1>1, <1>2, WhoArrives

LEMMA DeliveryKept ==
    ASSUME CoverInv, CoverInv', CallbackOK, ArrivedOK, DeliveryOK, MNext PROVE DeliveryOK'
<1> SUFFICES ASSUME NEW k \in Key, Watched(k)' PROVE OnItsWay(k)'
  BY DEF DeliveryOK
<1>1. /\ Watched(k) /\ tree'[k] = tree[k] /\ cfg' = cfg /\ Target(k)' = Target(k)
      /\ Target(k) \in DstKey
  BY WatchedStays
<1>2. OnItsWay(k)
  BY <1>1 DEF DeliveryOK
<1>3. (Kept(k)' <=> Kept(k)) /\ Expected(k)' = Expected(k)
  BY <1>1 DEF Kept, Expected
<1>4. CASE Sent(k)' /\ ~Sent(k)
  <2>1. InCallback /\ call.place = k /\ call' = NoCall
    BY <1>4, SentStays
  <2>2. PICK r \in {"nil", "stop"} : Return(r) /\ MigrateStep
    BY <1>4, SentStays
  <2>3. step' = "idle" /\ (r = "stop" => ~Running')
    BY <2>2, ReturnFacts DEF Running
  <2>4. k \notin arrived
    BY <1>4 DEF ArrivedOK
  <2>5. ~cfg.dryRun /\ r = "nil" =>
            /\ dst'[Target(k)] = Expected(k)
            /\ k \in arrived' => dst'[Target(k)] = tree[k]
    BY <1>1, <1>2, <1>4, <2>1, <2>2, <2>4, FileReturns
  <2>6. k \in arrived' => r = "nil"
    <3>1. result = "running" /\ (r = "stop" => result' = "stop")
      BY <2>2, ReturnFacts
    <3>2. Return("nil") => result' = "running"
      BY <2>1, <3>1, ReturnFacts DEF InCallback
    <3> QED BY <2>4, <3>1, <3>2, WhoArrives
  <2> QED BY <1>1, <1>3, <1>4, <2>3, <2>5, <2>6 DEF OnItsWay
<1>5. CASE Sent(k)' <=> Sent(k)
  <2>1. dst'[Target(k)] = dst[Target(k)]
    <3>1. step = "put" /\ call' = NoCall /\ InCallback /\ call.place = k => ~Sent(k) /\ Sent(k)'
      <4> SUFFICES ASSUME step = "put", call' = NoCall, InCallback, call.place = k
                   PROVE  ~Sent(k) /\ Sent(k)'
        OBVIOUS
      <4>1. visits[k] > 0
        BY InCallbackFacts
      <4>2. visits'[k] > 0
        BY <4>1, WhatGrows DEF CoverInv, WalkInv
      <4> QED BY <4>2 DEF Sent, InCallback
    <3> QED BY <1>5, <3>1, DestinationStays
  <2>2. Running' => Running
    BY RunningBefore
  <2>3. k \in arrived' => k \in arrived
    <3> SUFFICES ASSUME k \in arrived', k \notin arrived PROVE FALSE
      OBVIOUS
    <3>1. call.place = k /\ step # "idle" /\ Return("nil")
      BY WhoArrives
    <3>2. InCallback /\ visits[k] > 0 /\ visits' = visits /\ call' = NoCall
      BY <3>1, InCallbackFacts, ReturnFacts DEF CallbackOK
    <3> QED BY <1>5, <3>1, <3>2 DEF Sent, InCallback
  <2>4. step' # "idle" /\ call'.place = k =>
            /\ step' \in {"get", "put"} => ~Kept(k)
            /\ step' = "put" => buf' = tree[k]
    <3> SUFFICES ASSUME step' # "idle", call'.place = k
                 PROVE  /\ step' \in {"get", "put"} => ~Kept(k)
                        /\ step' = "put" => buf' = tree[k]
      OBVIOUS
    <3>1. CASE UNCHANGED <<step, buf, call>>
      BY <1>2, <3>1 DEF OnItsWay
    <3>2. CASE Begin
      BY <3>2 DEF Begin, Kept, Proceed
    <3>3. CASE Clear
      <4>1. call.place = k /\ step = "exists" /\ dst[Target(k)] = NoFile
        BY <3>3 DEF Clear, vars, walkvars
      <4>2. ~Sent(k)
        BY <4>1 DEF Sent, CallbackOK
      <4>3. ~Kept(k)
        BY <1>2, <4>1, <4>2 DEF OnItsWay, Kept
      <4> QED BY <3>3, <4>3 DEF Clear, Proceed
    <3>4. CASE Get
      <4>1. call.place = k /\ step = "get" /\ buf' = tree[k]
        BY <3>4 DEF Get, vars, walkvars
      <4> QED BY <1>2, <4>1 DEF OnItsWay
    <3>5. UNCHANGED <<step, buf, call>> \/ Begin \/ Clear \/ Get
      <4>1. CASE (Clients \/ WalkStep) /\ UNCHANGED <<dstvars, migvars>>
        <5>1. UNCHANGED <<step, buf>>
          BY <4>1 DEF migvars
        <5>2. UNCHANGED call
          BY <4>1, <5>1, WalkLeavesCallback DEF walkvars
        <5> QED BY <5>1, <5>2
      <4>2. CASE MigrateStep
        BY <4>2, StepKinds DEF Return
      <4>3. CASE \E q \in DstKey, v \in Val \cup {NoFile} : DstClient(q, v)
        BY <4>3 DEF DstClient, migvars, vars, walkvars
      <4> QED BY <4>1, <4>2, <4>3 DEF MNext
    <3> QED BY <3>1, <3>2, <3>3, <3>4, <3>5
  <2> QED BY <1>1, <1>2, <1>3, <1>5, <2>1, <2>2, <2>3, <2>4 DEF OnItsWay
<1> QED BY <1>4, <1>5, SentStays

LEMMA UnlistedKept ==
    ASSUME CoverInv, CallbackOK, UnlistedOK, MNext PROVE UnlistedOK'
<1>1. CASE UNCHANGED <<stack, result, skipped, unlisted>>
  BY <1>1 DEF UnlistedOK, Top, Last
<1>2. CASE WalkStep
  <2>1. stack # <<>> /\ result # "stop" /\ skipped' = skipped
    BY <1>2 DEF WalkStep, List, ListNothing, ListFails, Check, Visit, EndOfLoop, At,
                CoverInv, EndOK
  <2>2. CASE ListFails
    <3>1. PICK top \in Fr : top = Top
      BY <2>1, TopIsLast DEF CoverInv, WalkInv
    <3>2. stack' # <<>> /\ Top' = [top EXCEPT !.at = "failed"]
      BY <2>1, <2>2, <3>1, TopAfter DEF ListFails, SetTop, CoverInv, WalkInv
    <3>3. Top'.at = "failed"
      BY <3>1, <3>2 DEF Fr, Where
    <3> QED BY <2>1, <3>2, <3>3 DEF UnlistedOK
  <2>3. CASE ~ListFails
    <3>1. unlisted' = unlisted /\ Top.at # "failed"
      BY <1>2, <2>3 DEF WalkStep, List, ListNothing, Check, Visit, EndOfLoop, At
    <3> QED BY <2>1, <3>1 DEF UnlistedOK
  <2> QED BY <2>2, <2>3
<1>3. ASSUME NEW r \in {"nil", "stop"}, Return(r), MigrateStep PROVE UnlistedOK'
  <2>1. skipped' = {} /\ unlisted' = unlisted /\ result = "running"
    BY <1>3, ReturnFacts DEF UnlistedOK
  <2>2. CASE Top.at = "failed"
    <3>1. step = "idle"
      BY <2>2 DEF CallbackOK, InCallback
    <3>2. Return("stop")
      BY <1>3, <2>2, <3>1 DEF MigrateStep, Pass, Begin, AFile, ADir, Clear, Conflict, Get, Write,
                              CountOnly, Fail
    <3>3. result' = "stop"
      BY <3>2, ReturnFacts
    <3> QED BY <2>1, <3>3 DEF UnlistedOK
  <2>3. CASE Top.at # "failed"
    BY <2>1, <2>3 DEF UnlistedOK
  <2> QED BY <2>2, <2>3
<1>4. CASE Clients
  BY <1>1, <1>4 DEF Clients, Put, Delete, Cancel, Changes, walkvars
<1>5. CASE MigrateStep
  BY <1>1, <1>3, <1>5, StepKinds DEF vars, walkvars
<1>6. CASE \E q \in DstKey, v \in Val \cup {NoFile} : DstClient(q, v)
  BY <1>1, <1>6 DEF DstClient, vars, walkvars
<1> QED BY <1>2, <1>4, <1>5, <1>6 DEF MNext

----------------------------------------------------------------------------
(* What Migrate counts.                                                    *)

Sums == /\ copied \in Nat /\ skips \in Nat /\ total \in Nat
        /\ total = copied + skips \/ total = copied + skips + 1
        /\ step # "idle" => total = copied + skips + 1
        /\ step = "idle" /\ result # "stop" => total = copied + skips

CountOK == IsFiniteSet(arrived) /\ copied = Cardinality(arrived) /\ Sums

LEMMA CountKept ==
    ASSUME CoverInv, CallbackOK, ArrivedOK, CountOK, MNext PROVE CountOK'
<1>1. CASE UNCHANGED <<copied, skips, total, arrived, step>> /\ (result' # "stop" => result # "stop")
  BY <1>1 DEF CountOK, Sums
<1>2. CASE (Clients \/ WalkStep) /\ UNCHANGED <<dstvars, migvars>>
  <2>1. UNCHANGED <<copied, skips, total, arrived, step>>
    BY <1>2 DEF migvars
  <2>2. Clients => result' = result
    BY DEF Clients, Put, Delete, Cancel, Changes, walkvars
  <2>3. WalkStep => stack # <<>>
    BY DEF WalkStep, List, ListNothing, ListFails, Check, Visit, EndOfLoop, At
  <2>4. WalkStep => result # "stop"
    BY <2>3 DEF CoverInv, EndOK
  <2> QED BY <1>1, <1>2, <2>1, <2>2, <2>4
<1>3. CASE Begin
  <2>1. result = "running"
    BY <1>3 DEF Begin, CoverInv, EndOK, WalkInv, CallOK
  <2>2. /\ step = "idle" /\ step' # "idle" /\ total' = total + 1 /\ UNCHANGED <<copied, skips, arrived>>
    BY <1>3 DEF Begin, Proceed
  <2>3. Sums'
    BY <2>1, <2>2 DEF CountOK, Sums
  <2> QED BY <2>2, <2>3 DEF CountOK
<1>4. CASE Clear \/ Get
  <2>1. step # "idle" /\ step' # "idle" /\ UNCHANGED <<copied, skips, total, arrived>>
    BY <1>4 DEF Clear, Get, Proceed
  <2> QED BY <2>1 DEF CountOK, Sums
<1>5. CASE Pass
  <2>1. step = "idle" /\ step' = "idle" /\ result = "running" /\ UNCHANGED <<copied, skips, total, arrived>>
    BY <1>5, ReturnFacts DEF Pass
  <2> QED BY <2>1 DEF CountOK, Sums
<1>6. ASSUME step # "idle", Return("stop"), UNCHANGED <<copied, skips, total, arrived>>
      PROVE  CountOK'
  <2>1. step' = "idle" /\ result' = "stop"
    BY <1>6, ReturnFacts
  <2> QED BY <1>6, <2>1 DEF CountOK, Sums
<1>7. CASE Conflict
  <2>1. CASE Return("nil") /\ skips' = skips + 1
    <3>1. step # "idle" /\ step' = "idle" /\ UNCHANGED <<copied, total, arrived>>
      BY <1>7, <2>1, ReturnFacts DEF Conflict
    <3>2. Sums'
      BY <2>1, <3>1 DEF CountOK, Sums
    <3> QED BY <3>1, <3>2 DEF CountOK
  <2>2. CASE Return("stop") /\ UNCHANGED skips
    BY <1>6, <1>7, <2>2 DEF Conflict
  <2> QED BY <1>7, <2>1, <2>2 DEF Conflict
<1>8. CASE Write \/ CountOnly
  <2>1. step # "idle" /\ step' = "idle" /\ Count
    BY <1>8 DEF Write, CountOnly, Return
  <2>2. call.place \notin arrived
    BY <2>1 DEF ArrivedOK, Sent, CallbackOK
  <2>3. IsFiniteSet(arrived') /\ Cardinality(arrived') = Cardinality(arrived) + 1
    BY <2>1, <2>2, FS_AddElement DEF Count, CountOK
  <2>4. /\ step # "idle" /\ step' = "idle" /\ copied' = copied + 1 /\ UNCHANGED <<skips, total>>
    BY <2>1 DEF Count
  <2>5. Sums'
    BY <2>4 DEF CountOK, Sums
  <2> QED BY <2>3, <2>4, <2>5 DEF CountOK
<1>9. CASE Fail
  BY <1>6, <1>9 DEF Fail
<1>10. CASE \E q \in DstKey, v \in Val \cup {NoFile} : DstClient(q, v)
  BY <1>1, <1>10 DEF DstClient, migvars, vars, walkvars
<1> QED BY <1>2, <1>3, <1>4, <1>5, <1>7, <1>8, <1>9, <1>10 DEF MNext, MigrateStep

LEMMA DeliveryStarts == MInit => DeliveryInv /\ CountOK
<1> SUFFICES ASSUME MInit PROVE DeliveryInv /\ CountOK
  OBVIOUS
<1>1. MigrateInv
  BY MigrateStarts
<1>2. /\ dst = cfg.before /\ step = "idle" /\ copied = 0 /\ skips = 0 /\ total = 0 /\ arrived = {}
      /\ visits = [k \in Key |-> 0] /\ skipped = {} /\ unlisted = {}
  BY DEF MInit, Init
<1>3. DeliveryOK /\ ArrivedOK /\ UnlistedOK
  <2>1. \A k \in Key : ~Sent(k)
    BY <1>2 DEF Sent
  <2> QED BY <1>2, <2>1 DEF DeliveryOK, OnItsWay, ArrivedOK, UnlistedOK
<1>4. CountOK
  <2>1. Sums
    BY <1>2 DEF Sums
  <2> QED BY <1>2, <2>1, FS_EmptySet DEF CountOK
<1> QED BY <1>1, <1>3, <1>4 DEF DeliveryInv

LEMMA DeliveryInvKept ==
    ~Mounted /\ DeliveryInv /\ CountOK /\ [MNext]_mvars => DeliveryInv' /\ CountOK'
<1> SUFFICES ASSUME ~Mounted, DeliveryInv, CountOK, [MNext]_mvars
             PROVE  DeliveryInv' /\ CountOK'
  OBVIOUS
<1>1. MigrateInv' /\ MigrateInv
  BY MigrateInvKept DEF DeliveryInv
<1>2. CoverInv /\ CoverInv' /\ CallbackOK
  BY <1>1 DEF MigrateInv
<1>3. CASE MNext
  BY <1>1, <1>2, <1>3, DeliveryKept, ArrivedKept, UnlistedKept, CountKept DEF DeliveryInv
<1>4. CASE UNCHANGED mvars
  <2>1. /\ UNCHANGED <<tree, touched, stack, call, result, visits, skipped, unlisted>>
        /\ UNCHANGED <<dst, dtouched, cfg, step, buf, copied, skips, total, arrived>>
    BY <1>4 DEF mvars, dstvars, migvars, vars, fsvars, walkvars
  <2>2. /\ \A k : Target(k)' = Target(k) /\ (Sent(k)' <=> Sent(k))
        /\ Top' = Top /\ (Running' <=> Running)
    BY <2>1 DEF Target, Sent, InCallback, Top, Last, Running
  <2>3. \A k : /\ (Watched(k)' <=> Watched(k)) /\ (Kept(k)' <=> Kept(k))
               /\ Expected(k)' = Expected(k)
    BY <2>1, <2>2 DEF Watched, Stable, Alone, Way, IsFile, Below, Kept, Expected
  <2>4. DeliveryOK' /\ ArrivedOK' /\ UnlistedOK' /\ CountOK'
    BY <2>1, <2>2, <2>3 DEF DeliveryInv, DeliveryOK, OnItsWay, ArrivedOK, UnlistedOK, CountOK, Sums
  <2> QED BY <1>1, <2>4 DEF DeliveryInv
<1> QED BY <1>3, <1>4

(* When Migrate returns nil every file of the source that nobody changed,  *)
(* and whose destination nobody else wrote, has arrived, unless            *)
(* ConflictSkip kept the file or the directory that was there before:      *)
(* Exists of a LocalFS answers true for both.  Files the key function      *)
(* sends to one key, or one below the other, are exempt: the first to come *)
(* is in the way of the second (migrate.go:58-160, localfs.go:253-263).    *)
THEOREM MigratesAll ==
    ASSUME ~Mounted
    PROVE  MSpec => []MigratesEverything
<1>1. MInit => DeliveryInv /\ CountOK
  BY DeliveryStarts
<1>2. DeliveryInv /\ CountOK /\ [MNext]_mvars => (DeliveryInv /\ CountOK)'
  BY DeliveryInvKept
<1>3. DeliveryInv /\ CountOK => MigratesEverything
  <2> SUFFICES ASSUME DeliveryInv, result = "nil", ~cfg.dryRun, NEW k \in Key, Watched(k)
               PROVE  dst[Target(k)] = Expected(k)
    BY DEF MigratesEverything, Watched, Stable, Expected, Kept
  <2>1. stack = <<>> /\ skipped = {} /\ unlisted = {}
    BY DEF DeliveryInv, MigrateInv, CoverInv, EndOK, UnlistedOK
  <2>2. Below(k, Prefix) /\ tree[k] # Absent /\ k \notin touched
    BY ValAssumption DEF Watched, Stable, IsFile
  <2>3. visits[k] = 1
    BY <2>1, <2>2, CoverIsComplete DEF DeliveryInv, MigrateInv, Complete
  <2>4. Sent(k) /\ Running
    BY <2>1, <2>3 DEF Sent, InCallback, Running
  <2> QED BY <2>4 DEF DeliveryInv, DeliveryOK, OnItsWay
<1> QED BY <1>1, <1>2, <1>3, PTL DEF MSpec

(* However Migrate ends, a file it counts as copied is at its destination, *)
(* and it has counted each file it came to once (migrate.go:36-44).        *)
THEOREM CountsAreTrue ==
    ASSUME ~Mounted
    PROVE  MSpec => []CountsWhatArrived
<1>1. MInit => DeliveryInv /\ CountOK
  BY DeliveryStarts
<1>2. DeliveryInv /\ CountOK /\ [MNext]_mvars => (DeliveryInv /\ CountOK)'
  BY DeliveryInvKept
<1>3. DeliveryInv /\ CountOK => CountsWhatArrived
  <2> SUFFICES ASSUME DeliveryInv, CountOK PROVE CountsWhatArrived
    OBVIOUS
  <2>1. \A k \in arrived \cap Stable :
            Alone(k) /\ Target(k) \notin dtouched => cfg.dryRun \/ dst[Target(k)] = tree[k]
    BY DEF DeliveryInv, DeliveryOK, OnItsWay, Watched, Stable
  <2>2. total - copied - skips \in {0, 1}
    BY DEF CountOK, Sums
  <2> QED BY <2>1, <2>2 DEF CountsWhatArrived, CountOK, Sums
<1> QED BY <1>1, <1>2, <1>3, PTL DEF MSpec
=============================================================================
