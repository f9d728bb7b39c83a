-------------------------------- MODULE Walk --------------------------------
(***************************************************************************)
(* Walk (walk.go): the recursion over a file system's listings, a callback *)
(* for every entry, while other clients change the tree and a context may  *)
(* be cancelled.                                                           *)
(*                                                                         *)
(* A key is the sequence of its segments, <<>> for "".  The recursion is a *)
(* stack of frames, one per call of Walk: the prefix it was called with,   *)
(* and the entries of its listing that its loop has not come to.           *)
(*                                                                         *)
(* The callback is the environment's here: it returns nil, ErrSkipDir or   *)
(* another error.  Module Migrate gives it a body.                         *)
(***************************************************************************)
EXTENDS Naturals, Sequences, SequencesExt

CONSTANTS Key,         \* the keys of the file system, <<>> among them
          Val,         \* payloads
          Dir, Absent, \* what a key holds that is no file
          Prefix,      \* the prefix Walk is called with, cleaned
          Trees,       \* the trees it may find there
          Mounted,     \* the file system is a MountTable
          NoCall,
          MaxChanges   \* bound: changes other clients make

ASSUME KeyAssumption == <<>> \in Key /\ Key \subseteq Seq(UNION {Range(k) : k \in Key})
ASSUME PrefixAssumption == Prefix \in Seq(UNION {Range(k) : k \in Key})
ASSUME ValAssumption == Dir \notin Val /\ Absent \notin Val \cup {Dir}

(* Keys and trees of a file system: what there is lies in directories.     *)
ASSUME ParentAssumption == \A k \in Key : \A n \in 0..Len(k) : SubSeq(k, 1, n) \in Key
ASSUME TreesAssumption ==
    \A t \in Trees :
        /\ t \in [Key -> Val \cup {Dir, Absent}]
        /\ \A k, d \in Key : IsStrictPrefix(d, k) /\ t[k] # Absent => t[d] = Dir
ASSUME CallAssumption == NoCall \notin [key : Key, file : BOOLEAN, place : Key]

VARIABLES tree,      \* what each key holds
          touched,   \* the keys whose contents changed since the start
          changes,   \* how many changes there were
          cancelled, \* the context is cancelled
          stack,     \* the calls of Walk, the innermost last
          call,      \* the call of the callback in progress, or NoCall
          result,    \* what Walk returned, or "running"
          visits,    \* Key -> how often the callback was called for it, up to 2
          skipped,   \* directories for which it returned ErrSkipDir
          unlisted,  \* directories whose listing failed
          late       \* calls of the callback that began after the cancellation

fsvars   == <<tree, touched, changes>>
walkvars == <<stack, call, result, visits, skipped, unlisted, late>>
vars     == <<fsvars, cancelled, walkvars>>

IsFile(k)   == tree[k] \in Val
Parent(k)   == Front(k)
Children(d) == {k \in Key : k # <<>> /\ Parent(k) = d /\ tree[k] # Absent}

(* Keys strictly below d.                                                  *)
Below(k, d) == IsStrictPrefix(d, k)

----------------------------------------------------------------------------
(* Other clients: Put makes the directories on its way, Delete removes a   *)
(* file or an empty directory.                                             *)

Changes(keys) == /\ changes < MaxChanges
                 /\ changes' = changes + 1
                 /\ touched' = touched \cup keys
                 /\ UNCHANGED <<cancelled, walkvars>>

Put(k, v) ==
    LET way == {d \in Key : Below(k, d)}
    IN  /\ k # <<>> /\ tree[k] # Dir
        /\ \A d \in way : ~IsFile(d)
        /\ tree' = [q \in Key |-> IF q \in way THEN Dir
                                  ELSE IF q = k THEN v ELSE tree[q]]
        /\ Changes({k} \cup {d \in way : tree[d] = Absent})

Delete(k) ==
    /\ k # <<>> /\ tree[k] # Absent /\ Children(k) = {}
    /\ tree' = [tree EXCEPT ![k] = Absent]
    /\ Changes({k})

Cancel == /\ ~cancelled /\ result = "running"
          /\ cancelled' = TRUE
          /\ UNCHANGED <<fsvars, walkvars>>

----------------------------------------------------------------------------
(* The recursion.                                                          *)

Frame(prefix) == [prefix |-> prefix, at |-> "list", todo |-> {}]

(* A MountTable lists a mount with the keys the file system below it       *)
(* returns, which lack the mount's name; "" it lists itself.               *)
Listed(prefix, k) == IF Mounted /\ prefix # <<>> THEN Tail(k) ELSE k

(* hasPathPrefix(key, prefix), path.Join(prefix, key).                     *)
SubPrefix(prefix, key) ==
    IF prefix # <<>> /\ ~IsStrictPrefix(prefix, key) THEN prefix \o key ELSE key

Top         == Last(stack)
SetTop(fr)  == stack' = Append(Front(stack), fr)
Pop         == stack' = Front(stack)

(* Any call of Walk that returns an error ends them all.                   *)
Finish(r)   == stack' = <<>> /\ result' = r

(* A call of Walk returns nil: its caller goes on, if there is one.        *)
ReturnNil   == /\ Pop
               /\ result' = IF Len(stack) = 1 THEN "nil" ELSE result

At(where) == stack # <<>> /\ call = NoCall /\ Top.at = where

CallBack(c) == /\ call' = c
               /\ late' = IF cancelled /\ late < 3 THEN late + 1 ELSE late

(* fsys.List: the immediate children of a directory.                       *)
List ==
    /\ At("list")
    /\ LET prefix == Top.prefix
           place(k) == [key |-> Listed(prefix, k), file |-> IsFile(k), place |-> k]
       IN  /\ prefix \in Key /\ tree[prefix] = Dir
           /\ SetTop([Top EXCEPT !.at = "loop",
                                 !.todo = {place(k) : k \in Children(prefix)}])
    /\ UNCHANGED <<fsvars, cancelled, call, result, visits, skipped, unlisted, late>>

(* An object store lists a prefix that is not there as an empty one.       *)
ListNothing ==
    /\ At("list")
    /\ Top.prefix \in Key => tree[Top.prefix] # Dir
    /\ SetTop([Top EXCEPT !.at = "loop"])
    /\ UNCHANGED <<fsvars, cancelled, call, result, visits, skipped, unlisted, late>>

(* List returns an error: the callback hears of it.                        *)
ListFails ==
    /\ At("list")
    /\ SetTop([Top EXCEPT !.at = "failed"])
    /\ unlisted' = unlisted \cup {Top.prefix}
    /\ CallBack([key |-> Top.prefix])
    /\ UNCHANGED <<fsvars, cancelled, result, visits, skipped>>

(* Variant with a mistake: the context is not looked at.                   *)
CheckNothing ==
    /\ At("loop") /\ Top.todo # {}
    /\ SetTop([Top EXCEPT !.at = "checked"])
    /\ UNCHANGED <<fsvars, cancelled, call, result, visits, skipped, unlisted, late>>

(* The head of the loop: ctx.Err().                                        *)
Check ==
    /\ At("loop") /\ Top.todo # {}
    /\ IF cancelled
       THEN Finish("cancelled")
       ELSE SetTop([Top EXCEPT !.at = "checked"]) /\ UNCHANGED result
    /\ UNCHANGED <<fsvars, cancelled, call, visits, skipped, unlisted, late>>

(* Variant with a mistake: the loop never advances.                        *)
VisitAgain ==
    /\ At("checked")
    /\ \E e \in Top.todo :
          /\ SetTop([Top EXCEPT !.at = "loop"])
          /\ CallBack(e)
          /\ visits' = [visits EXCEPT ![e.place] = IF @ < 2 THEN @ + 1 ELSE @]
    /\ UNCHANGED <<fsvars, cancelled, result, skipped, unlisted>>

(* fn(fi.Key, fi, nil) for one of the entries left.                        *)
Visit ==
    /\ At("checked")
    /\ \E e \in Top.todo :
          /\ SetTop([Top EXCEPT !.at = "loop", !.todo = @ \ {e}])
          /\ CallBack(e)
          /\ visits' = [visits EXCEPT ![e.place] = IF @ < 2 THEN @ + 1 ELSE @]
    /\ UNCHANGED <<fsvars, cancelled, result, skipped, unlisted>>

EndOfLoop ==
    /\ At("loop") /\ Top.todo = {}
    /\ ReturnNil
    /\ UNCHANGED <<fsvars, cancelled, call, visits, skipped, unlisted, late>>

Over  == Top.at = "failed"                   \* the call is about a listing
ADir  == Top.at # "failed" /\ ~call.file
AFile == Top.at # "failed" /\ call.file

Descend == /\ stack' = Append(stack, Frame(SubPrefix(Top.prefix, call.key)))
           /\ UNCHANGED result

(* Variant with a mistake: ErrSkipDir is taken for nil.                    *)
CallbackReturnsUnskipped(r) ==
    /\ call # NoCall /\ call' = NoCall
    /\ \/ ADir /\ r = "nil" /\ Descend /\ UNCHANGED skipped
       \/ ADir /\ r = "skip" /\ Descend /\ skipped' = skipped \cup {call.place}
       \/ AFile /\ r = "nil" /\ UNCHANGED <<stack, result, skipped>>
       \/ Over /\ r = "nil" /\ ReturnNil /\ UNCHANGED skipped
       \/ r # "nil" /\ ~(ADir /\ r = "skip") /\ Finish(r) /\ UNCHANGED skipped
    /\ UNCHANGED <<visits, unlisted, late>>

(* Variant with a mistake: ErrSkipDir ends the loop over its siblings too. *)
CallbackReturnsBreaking(r) ==
    /\ call # NoCall /\ call' = NoCall
    /\ \/ ADir /\ r = "nil" /\ Descend /\ UNCHANGED skipped
       \/ ADir /\ r = "skip" /\ ReturnNil /\ skipped' = skipped \cup {call.place}
       \/ AFile /\ r = "nil" /\ UNCHANGED <<stack, result, skipped>>
       \/ Over /\ r = "nil" /\ ReturnNil /\ UNCHANGED skipped
       \/ r # "nil" /\ ~(ADir /\ r = "skip") /\ Finish(r) /\ UNCHANGED skipped
    /\ UNCHANGED <<visits, unlisted, late>>

(* The callback returns r.  Only for a directory is ErrSkipDir swallowed;  *)
(* from a call about a file or a failed listing it ends the walk, as any   *)
(* other error does.                                                       *)
CallbackReturns(r) ==
    /\ call # NoCall /\ call' = NoCall
    /\ \/ ADir /\ r = "nil" /\ Descend /\ UNCHANGED skipped
       \/ /\ ADir /\ r = "skip"
          /\ skipped' = skipped \cup {call.place}
          /\ UNCHANGED <<stack, result>>
       \/ AFile /\ r = "nil" /\ UNCHANGED <<stack, result, skipped>>
       \/ Over /\ r = "nil" /\ ReturnNil /\ UNCHANGED skipped
       \/ r # "nil" /\ ~(ADir /\ r = "skip") /\ Finish(r) /\ UNCHANGED skipped
    /\ UNCHANGED <<visits, unlisted, late>>

----------------------------------------------------------------------------
Init == /\ tree \in Trees
        /\ touched = {} /\ changes = 0
        /\ cancelled = FALSE
        /\ stack = <<Frame(Prefix)>>
        /\ call = NoCall
        /\ result = "running"
        /\ visits = [k \in Key |-> 0]
        /\ skipped = {} /\ unlisted = {}
        /\ late = 0

Clients  == (\E k \in Key : Delete(k) \/ \E v \in Val : Put(k, v)) \/ Cancel

WalkStep == List \/ ListNothing \/ ListFails \/ Check \/ Visit \/ EndOfLoop

Callback == /\ \E r \in {"nil", "skip", "stop"} : CallbackReturns(r)
            /\ UNCHANGED <<fsvars, cancelled>>

Next == Clients \/ WalkStep \/ Callback

(* Walk runs in its caller's goroutine, which goes on as long as listings  *)
(* and callbacks return.                                                   *)
Spec == Init /\ [][Next]_vars /\ WF_vars(WalkStep) /\ WF_vars(Callback)

----------------------------------------------------------------------------
(* The callback is called at most once for an entry, however the tree      *)
(* changes under the walk.                                                 *)
VisitedOnce == \A k \in Key : visits[k] <= 1

(* Nothing below a directory for which the callback returned ErrSkipDir is *)
(* ever visited (walk.go:19-20).                                           *)
SkippedStayUnvisited ==
    \A d \in skipped, k \in Key : Below(k, d) => visits[k] = 0

(* When Walk returns nil it has visited every entry below its prefix that  *)
(* nobody changed, but for what the callback skipped and what lies below a *)
(* directory of whose failed listing it was told.                          *)
Complete ==
    result = "nil" =>
        \A k \in Key :
            /\ Below(k, Prefix) /\ tree[k] # Absent /\ k \notin touched
            /\ \A d \in skipped \cup unlisted : ~Below(k, d)
            => visits[k] = 1

(* After the context is cancelled the callback is called for one entry at  *)
(* most, and once more if that is a directory whose listing now fails.     *)
StopsSoon == late <= 2

(* Walk returns, whatever the callback does and the other clients change.  *)
Terminates == <>(result # "running")
=============================================================================
