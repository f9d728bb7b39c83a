----------------------------- MODULE Composition -----------------------------
(***************************************************************************)
(* Clients of one composition of backends, hooks and mount tables, some of *)
(* which mount and unmount.  What the parts promise one by one has to      *)
(* survive their composition: seen by its clients it is one store, hooks   *)
(* see every payload and every delete, and nobody waits for ever.          *)
(***************************************************************************)
EXTENDS Mount

CONSTANTS Key,     \* the keys of all calls, at whatever level they arrive
          NoReq

VARIABLES req,     \* history: the call each client makes
          absent,  \* history: the entries unmounted for certain
          gone     \* history: those each call may rely on to be

history == <<req, absent, gone>>
vars == <<mountvars, history>>

Entry == Table \X Name

ASSUME CompositionAssumption ==
    /\ Base \cap Hook = {} /\ Base \cap Table = {} /\ Hook \cap Table = {}
    /\ Idle = [op |-> "idle"]

(* A client makes whole calls: the parts of a Copy or a BatchDelete are    *)
(* none, and a payload is as yet in no middleware's hands.                 *)
Payload == {<<v>> : v \in Val}

ClientCall ==
    [op : {"get", "delete"}, fs : FS, key : Key]
      \cup [op : {"put"}, fs : FS, key : Key, data : Payload]
      \cup [op : {"copyto"}, fs : FS, key : Key, dfs : FS, dst : Key]
      \cup [op : {"batchdelete"}, fs : FS, keys : Seq(Key)]
      \cup [op : {"unpack"}, fs : FS, files : Seq([key : Key, data : Payload])]
      \cup [op : {"mount"}, fs : Table, key : Name, target : FS]
      \cup [op : {"unmount"}, fs : Table, key : Name]

ASSUME ClientAssumption ==
    /\ \A k \in Key : k \in Seq(Name) /\ (k # <<>> => Tail(k) \in Key)
    /\ \A p \in Proc : Calls[p] \subseteq ClientCall

----------------------------------------------------------------------------
Naming(r, op) == IF r.op = op THEN {<<r.fs, r.key>>} ELSE {}

BeingMounted == UNION {Naming(req[p], "mount") : p \in Proc}

(* A client makes a call.  An entry is absent for certain from the return  *)
(* of an Unmount that overlapped no Mount of it until a Mount is called.   *)
Call(p) ==
    /\ Submit(p)
    /\ LET r == cur'[p]
           expected == absent \cup (Naming(r, "unmount") \ BeingMounted)
       IN  /\ req' = [req EXCEPT ![p] = r]
           /\ absent' = absent \ Naming(r, "mount")
           /\ gone' = [q \in Proc |-> (IF q = p THEN expected ELSE gone[q]) \ Naming(r, "mount")]
    /\ UNCHANGED <<mounts, lock>>

Finish(p) ==
    /\ Return(p)
    /\ req' = [req EXCEPT ![p] = Idle]
    /\ absent' = absent \cup (Naming(req[p], "unmount") \cap gone[p])
    /\ gone' = [gone EXCEPT ![p] = {}]
    /\ UNCHANGED <<mounts, lock>>

Proceed(p) ==
    \/ (CallStep(p) \/ HookStep(p)) /\ UNCHANGED <<mounts, lock, history>>
    \/ MountStep(p) /\ UNCHANGED history

Init == /\ CallsInit /\ MountInit
        /\ req = [p \in Proc |-> Idle]
        /\ absent = {e \in Entry : Mounted[e[1]][e[2]] = NoFS}
        /\ gone = [p \in Proc |-> {}]

Next == \E p \in Proc : Call(p) \/ Proceed(p) \/ Finish(p)

(* A goroutine goes on unless the lock holds it up, and one that asks for  *)
(* the lock again and again gets it: a sync.Mutex does not starve anyone.  *)
(* Nobody has to make a call.                                              *)
Fairness == \A p \in Proc : /\ WF_vars(Proceed(p) \/ Finish(p))
                            /\ SF_vars(LockTable(p) /\ UNCHANGED history)

Spec == Init /\ [][Next]_vars /\ Fairness

----------------------------------------------------------------------------
(* Where calls go, as the composition was built.  Entries that clients     *)
(* mount and unmount lead nowhere certain.                                 *)
AllCalls == UNION {Calls[p] : p \in Proc}

Changing == UNION {Naming(r, "mount") \cup Naming(r, "unmount") : r \in AllCalls}

(* A stop is a file system and the key a call has there.                   *)
Stop == FS \X Key

Leads(at) ==
    \/ at[1] \in Hook
    \/ /\ at[1] \in Table /\ at[2] # <<>>
       /\ <<at[1], Head(at[2])>> \notin Changing
       /\ Mounted[at[1]][Head(at[2])] # NoFS

Onward(at) == IF at[1] \in Hook THEN <<Inner(at[1]), at[2]>>
              ELSE <<Mounted[at[1]][Head(at[2])], Tail(at[2])>>

Ending(at) == IF at[1] \in Base THEN at ELSE <<NoFS, at[2]>>

(* Where a call at a stop ends up, and before that the hooks it comes by,  *)
(* the innermost first.                                                    *)
Way[at \in Stop] ==
    IF ~Leads(at) THEN <<Ending(at)>>
    ELSE IF at[1] \in Hook THEN Append(Way[Onward(at)], at)
    ELSE Way[Onward(at)]

Destination == [f \in FS |-> [k \in Key |-> Head(Way[<<f, k>>])]]

Place(f, k) == Destination[f][k]

(* What has to happen in a call, in this order.                            *)
Happening(what, at) == <<what, at[1], at[2]>>

Deletion(f, k) ==
    LET way == Way[<<f, k>>]
    IN  [i \in DOMAIN way |-> Happening(IF i = 1 THEN "deleted" ELSE "told", way[i])]

Storing(f, k) == <<Happening("stored", Place(f, k))>>

Script ==
    [r \in AllCalls \cup {Idle} |->
       CASE r.op = "put"         -> Storing(r.fs, r.key)
         [] r.op = "delete"      -> Deletion(r.fs, r.key)
         [] r.op = "copyto"      -> Storing(r.dfs, r.dst)
         [] r.op = "batchdelete" -> FlattenSeq([i \in DOMAIN r.keys |-> Deletion(r.fs, r.keys[i])])
         [] r.op = "unpack"      -> FlattenSeq([i \in DOMAIN r.files |-> Storing(r.fs, r.files[i].key)])
         [] OTHER                -> <<>>]

(* The calls whose way is certain.                                         *)
Certain == {r \in AllCalls : \A i \in DOMAIN Script[r] : Script[r][i][2] # NoFS}

----------------------------------------------------------------------------
(* A call, helpers included, stores, deletes and reports what it was asked *)
(* to, in that order; it answers "ok" when it has come to the end of that, *)
(* and has stopped at the first failure otherwise: in particular OnDelete  *)
(* runs once for every delete that succeeded, the innermost hook first     *)
(* (hook.go:70-79, fs.go:121-155, unpack.go:25-54).                        *)
StepsInOrder ==
    \A p \in Proc : req[p] \in Certain =>
        LET script == Script[req[p]]
        IN  /\ IsPrefix(events[p], script)
            /\ Over(p) /\ script # <<>> => (ans[p].res = "ok" <=> events[p] = script)

(* The middlewares of f that code, but for the first n.                    *)
CodersBeyond(f, n) == {i \in (n + 1)..Len(Middlewares[f]) : Middlewares[f][i] \in Coders}

(* What a payload has become on its way to the first n middlewares of f:   *)
(* each of the others has wrapped it, the last one first (hook.go:119-122). *)
Coded(f, n, k, data) ==
    /\ data \in Seq(Val \cup (Hook \X Key)) /\ data # <<>> /\ Head(data) \in Val
    /\ \E by \in [2..Len(data) -> CodersBeyond(f, n)] :
          /\ \A i \in 2..Len(data) : data[i] = <<Middlewares[f][by[i]], k>>
          /\ \A i, j \in 2..Len(data) : i < j => by[i] > by[j]
          /\ \A c \in CodersBeyond(f, n) : \E i \in 2..Len(data) : by[i] = c

(* Everything a base holds has been through all its hooks, with the key it *)
(* is stored under, Copy or not: reading it through them gives a payload   *)
(* (hook.go:33-35).                                                        *)
EverythingDecodes ==
    \A b \in Base, k \in Sub :
        store[b][k] = NoFile \/ Coded(b, 0, k, store[b][k])

(* What the first n middlewares of f make of it, and where no other one    *)
(* codes: a file system that clients may be given.                         *)
Nth(f, n) == IF n = 0 THEN f ELSE Middlewares[f][n]

Plain(g) == \E f \in Base \cup Table : \E n \in 0..Len(Middlewares[f]) :
               g = Nth(f, n) /\ CodersBeyond(f, n) = {}

(* The compositions in which that is so: nobody goes past a hook that      *)
(* codes, and none is around a table, where the key is another one.        *)
ThroughHooks ==
    /\ \A t \in Table : Plain(t)
    /\ \A t \in Table, n \in Name : Mounted[t][n] = NoFS \/ Plain(Mounted[t][n])
    /\ \A p \in Proc : \A r \in Calls[p] :
          /\ r.op \notin {"mount", "unmount"} => Plain(r.fs)
          /\ r.op = "copyto" => Plain(r.dfs)
          /\ r.op = "mount" => Plain(r.target)

(* A call made after Unmount has returned, with no Mount since, does not   *)
(* get beyond the table (mount.go:37-67).                              *)
UnmountedIsUnreachable ==
    \A p \in Proc :
        /\ req[p].op \in {"get", "put", "delete"}
        /\ \E e \in gone[p] : req[p].fs = e[1] /\ Head(req[p].key) = e[2]
        => events[p] = <<>> /\ ans[p].res # "ok"

(* Nobody holds the lock of a table, or waits for it, but to look into     *)
(* that table or to change it: in particular no call that is passed on, to *)
(* the same table perhaps, runs with the lock held (mount.go:59-66).       *)
NeverLockedAcrossACall ==
    \A p \in Proc, t \in Table :
        /\ Reading(p, t) \/ p \in lock[t].queue => pc[p] = "rlock" /\ cur[p].fs = t
        /\ lock[t].writer = p => pc[p] = "lock" /\ cur[p].fs = t

(* Every call returns, though tables are mounted in themselves and writers *)
(* wait for their locks.                                                   *)
EveryCallReturns == \A p \in Proc : (pc[p] # "idle") ~> (pc[p] = "idle")

----------------------------------------------------------------------------
(* The composition as one store.  Its keys are the places in the bases,    *)
(* but for those where a call is no single one of FileStore's or has no    *)
(* one instant: a base on which a client calls the BatchDelete it has of   *)
(* its own, and the files that a Copy may fill in place.                   *)

(* What a table may lead to.                                               *)
MayMount == {Mounted[e[1]][e[2]] : e \in Entry} \cup {r.target : r \in {c \in AllCalls : c.op = "mount"}}

(* A key that tables may leave of another.                                 *)
Ends(k, key) == \E n \in 1..(Len(key) + 1) : k = SubSeq(key, n, Len(key))

(* A Copy within f may be passed on to the Copy of g.                      *)
Passes(f, g) == f = g \/ (f \in Table /\ g \in MayMount)

(* A Copy that a client makes within one file system may end there.        *)
MayCopy(f, k) == \E r \in AllCalls : /\ r.op = "copyto" /\ r.fs = r.dfs
                                     /\ Passes(r.fs, f) /\ Ends(k, r.dst)

Overwritten == {at \in Local \X Sub : MayCopy(at[1], at[2])}

Batched == {r.fs : r \in {c \in AllCalls : c.op = "batchdelete"}}

Places == ((BatchDeleters \ Batched) \X Sub) \cup ((Local \X Sub) \ Overwritten)

Contents(b, k) ==
    IF store[b][k] = NoFile \/ ~Coded(b, 0, k, store[b][k]) THEN store[b][k]
    ELSE Head(store[b][k])

Promised == [op : {"get", "delete"}, key : Places] \cup [op : {"put"}, key : Places, val : Val]
              \cup UNION {[op : {"copy"}, key : {b} \X Sub, dst : {b} \X Sub] :
                             b \in BatchDeleters \ Batched}

(* A base tells a key without a file from any payload.                     *)
ASSUME StoreAssumption ==
    /\ NoFile \notin Val /\ NoFile \notin Seq(Val \cup (Hook \X Key))
    /\ NoReq \notin Promised

(* The call at hand, with the place its key leads to and the payload that  *)
(* hooks may have wrapped: it waits there from the moment its way is       *)
(* certain until it is back, through the hooks, with its client or helper. *)
Waiting(p) ==
    LET c == cur[p]
        at == Place(c.fs, c.key)
    IN  IF pc[p] \notin {"call", "rlock", "return"} THEN NoReq
        ELSE CASE c.op \in {"get", "delete"} /\ at \in Places -> [op |-> c.op, key |-> at]
               [] c.op = "put" /\ at \in Places -> [op |-> "put", key |-> at, val |-> Head(c.data)]
               [] /\ c.op = "copy" /\ c.fs \in BatchDeleters
                  /\ {<<c.fs, c.key>>, <<c.fs, c.dst>>} \subseteq Places ->
                    [op |-> "copy", key |-> <<c.fs, c.key>>, dst |-> <<c.fs, c.dst>>]
               [] OTHER -> NoReq

(* What the hooks an answer has yet to pass will make of it.               *)
Unwrap(frame, data) ==
    IF frame.at = "hook" /\ frame.call.op = "get"
    THEN WrapGet(frame.call.fs, frame.call.key, data)
    ELSE data

Unwrapped(frames, data) ==
    LET passed[i \in 0..Len(frames)] ==   \* all frames but the first i
            IF i = Len(frames) THEN data ELSE Unwrap(frames[i + 1], passed[i + 1])
    IN  passed[0]

Answered(p) ==
    IF Waiting(p) = NoReq \/ pc[p] # "return" THEN NoAns
    ELSE IF Waiting(p).op = "get" /\ ans[p].res = "ok"
         THEN LET data == Unwrapped(stack[p], ans[p].data)
              IN  [res |-> "ok", val |-> IF Len(data) = 1 THEN Head(data) ELSE NoFile]
         ELSE [res |-> ans[p].res]

OneStore == INSTANCE FileStore WITH
              Key   <- Places,
              Calls <- Promised,
              Unsure <- {at \in Places : at[1] \in BatchDeleters},
              store <- [at \in Places |-> Contents(at[1], at[2])],
              call  <- [p \in Proc |-> Waiting(p)],
              ans   <- [p \in Proc |-> Answered(p)]

(* Each call on the composition takes effect at one instant, on what the   *)
(* client sees through hooks and mounts (fs.go:35-69), or not at all; if   *)
(* it answers with an error that is so for certain in a LocalFS.           *)
ActsAsOneStore == OneStore!Spec
=============================================================================
