------------------------------- MODULE Calls --------------------------------
(***************************************************************************)
(* A call on its way through a composition of file systems, and the        *)
(* helpers of fs.go and of the zip plugin that make several calls: Copy,   *)
(* BatchDelete and Unpack.                                                 *)
(*                                                                         *)
(* A file system is a base (a backend), a hook around another file system  *)
(* (module Hooks) or a mount table (module Mount).  A client executes one  *)
(* call at a time: "cur" is where it has got to, and the stack holds what  *)
(* is left to do when that returns, innermost last.                        *)
(*                                                                         *)
(* A base is a LocalFS with atomic writes, or an ObjectFS, which has a     *)
(* BatchDelete.  A call on it takes effect at one instant, as module       *)
(* LocalFS has it of the system calls of one and as it is of one request,  *)
(* but for the Copy of a LocalFS, which cuts its destination and fills it  *)
(* in place; and a request may be carried out although its answer is lost. *)
(***************************************************************************)
EXTENDS Naturals, Sequences

CONSTANTS Proc,
          Base, Hook, Table, \* the file systems
          Copiers,           \* bases with a Copy of their own (both backends)
          BatchDeleters,     \* bases with a BatchDelete of their own (ObjectFS)
          Sub,               \* the keys a base takes; it refuses any other
          Val,               \* payloads, as clients see them
          Cut,               \* one that ends early: what Copy has not filled
          Idle,              \* no call
          Calls,             \* the calls each client makes
          NoFile

FS == Base \cup Hook \cup Table

(* The bases that are directories.                                         *)
Local == Base \ BatchDeleters

ASSUME InterfaceAssumption == Copiers \subseteq Base /\ BatchDeleters \subseteq Base
ASSUME CutAssumption == Cut \in Val

VARIABLES pc,     \* "idle", "next", "call", "rlock", "lock" or "return"
          cur,    \* the call in progress: op, fs, key and what the op needs
          stack,  \* what is left to do when it returns
          ans,    \* how it ended
          store,  \* Base -> Sub -> the data it holds, or NoFile
          events  \* what was done for certain: files stored and deleted, hooks called

callvars == <<pc, cur, stack, ans, store, events>>

NoAns == [res |-> "", data |-> <<>>]

----------------------------------------------------------------------------
Goto(p, to) == pc' = [pc EXCEPT ![p] = to]

At(p, where) == pc[p] = where

(* The call at hand is one of these operations, on one of these.           *)
Calling(p, ops, set) == At(p, "call") /\ cur[p].op \in ops /\ cur[p].fs \in set

(* It returns.                                                             *)
Answer(p, r, data) == /\ Goto(p, "return")
                      /\ ans' = [ans EXCEPT ![p] = [res |-> r, data |-> data]]
                      /\ UNCHANGED <<cur, stack>>

(* It becomes another call, with frames left to come back to.              *)
Become(p, call, frames) == /\ cur' = [cur EXCEPT ![p] = call]
                           /\ stack' = [stack EXCEPT ![p] = @ \o frames]
                           /\ UNCHANGED ans

Pop(p) == stack' = [stack EXCEPT ![p] = SubSeq(@, 1, Len(@) - 1)]
Top(p) == stack[p][Len(stack[p])]

Happens(p, e) == events' = [events EXCEPT ![p] = Append(@, e)]

GetAt(f, k)    == [op |-> "get", fs |-> f, key |-> k]
PutAt(f, k, d) == [op |-> "put", fs |-> f, key |-> k, data |-> d]
DelAt(f, k)    == [op |-> "delete", fs |-> f, key |-> k]

----------------------------------------------------------------------------
(* Clients.                                                                *)

Submit(p) ==
    /\ At(p, "idle") /\ Goto(p, "call")
    /\ \E r \in Calls[p] : cur' = [cur EXCEPT ![p] = r]
    /\ UNCHANGED <<stack, ans, store, events>>

(* The call has come back to the client, which gets the answer.            *)
Over(p) == At(p, "return") /\ stack[p] = <<>>

Return(p) == /\ Over(p) /\ Goto(p, "idle")
             /\ cur' = [cur EXCEPT ![p] = Idle]
             /\ ans' = [ans EXCEPT ![p] = NoAns]
             /\ events' = [events EXCEPT ![p] = <<>>]
             /\ UNCHANGED <<stack, store>>

(* The next call of a helper starts: the Put of a Copy, or a call of the   *)
(* loops of BatchDelete and Unpack, which look at the context before it.   *)
Begin(p) == /\ At(p, "next") /\ Goto(p, "call")
            /\ UNCHANGED <<cur, stack, ans, store, events>>

Cancelled(p) == /\ At(p, "next")
                /\ stack[p] # <<>> /\ Top(p).at = "loop"
                /\ Goto(p, "return")
                /\ cur' = [cur EXCEPT ![p] = Idle]
                /\ ans' = [ans EXCEPT ![p] = [res |-> "error", data |-> <<>>]]
                /\ UNCHANGED <<stack, store, events>>

----------------------------------------------------------------------------
(* Bases.                                                                  *)

Held(p) == store[cur[p].fs][cur[p].key]

Set(b, k, data) == store' = [store EXCEPT ![b][k] = data]

Get(p) ==
    /\ Calling(p, {"get"}, Base) /\ cur[p].key \in Sub
    /\ IF Held(p) = NoFile THEN Answer(p, "notfound", <<>>)
                           ELSE Answer(p, "ok", Held(p))
    /\ UNCHANGED <<store, events>>

Put(p) ==
    /\ Calling(p, {"put"}, Base) /\ cur[p].key \in Sub
    /\ Set(cur[p].fs, cur[p].key, cur[p].data)
    /\ Answer(p, "ok", <<>>)
    /\ Happens(p, <<"stored", cur[p].fs, cur[p].key>>)

(* LocalFS answers "not found" for a key without a file, ObjectFS "ok".    *)
Delete(p) ==
    /\ Calling(p, {"delete"}, Base) /\ cur[p].key \in Sub
    /\ Set(cur[p].fs, cur[p].key, NoFile)
    /\ IF Held(p) = NoFile /\ cur[p].fs \notin BatchDeleters
       THEN Answer(p, "notfound", <<>>) /\ UNCHANGED events
       ELSE Answer(p, "ok", <<>>) /\ Happens(p, <<"deleted", cur[p].fs, cur[p].key>>)

(* Variant with a mistake: a source that is missing is copied as an empty  *)
(* object.                                                                 *)
CopyObjectBlind(p) ==
    /\ Calling(p, {"copy"}, BatchDeleters) /\ {cur[p].key, cur[p].dst} \subseteq Sub
    /\ Set(cur[p].fs, cur[p].dst, IF Held(p) = NoFile THEN <<Cut>> ELSE Held(p))
    /\ Answer(p, "ok", <<>>)
    /\ Happens(p, <<"stored", cur[p].fs, cur[p].dst>>)

(* ObjectFS.Copy is one request.                                           *)
CopyObject(p) ==
    /\ Calling(p, {"copy"}, BatchDeleters) /\ {cur[p].key, cur[p].dst} \subseteq Sub
    /\ IF Held(p) = NoFile
       THEN Answer(p, "notfound", <<>>) /\ UNCHANGED <<store, events>>
       ELSE /\ Set(cur[p].fs, cur[p].dst, Held(p))
            /\ Answer(p, "ok", <<>>)
            /\ Happens(p, <<"stored", cur[p].fs, cur[p].dst>>)

(* LocalFS.Copy opens the source, ...                                      *)
CopyOpens(p) ==
    /\ Calling(p, {"copy"}, Local) /\ {cur[p].key, cur[p].dst} \subseteq Sub
    /\ IF Held(p) = NoFile
       THEN Answer(p, "notfound", <<>>)
       ELSE /\ Become(p, [op |-> "create", fs |-> cur[p].fs, key |-> cur[p].key,
                          dst |-> cur[p].dst, data |-> Held(p)], <<>>)
            /\ Goto(p, "call")
    /\ UNCHANGED <<store, events>>

(* ... creates the destination, or cuts the file that is there, ...        *)
CopyCreates(p) ==
    /\ Calling(p, {"create"}, Local)
    /\ Set(cur[p].fs, cur[p].dst, <<Cut>>)
    /\ Become(p, [cur[p] EXCEPT !.op = "fill"], <<>>)
    /\ UNCHANGED <<pc, events>>

(* ... and fills it from the source, which may be cut itself, if it is the *)
(* same file for one.  It is not seen any more if the file it has created  *)
(* has been replaced or deleted.                                           *)
CopyFills(p) ==
    /\ Calling(p, {"fill"}, Local)
    /\ IF store[cur[p].fs][cur[p].dst] = <<Cut>>
       THEN Set(cur[p].fs, cur[p].dst, IF Held(p) = <<Cut>> THEN <<Cut>> ELSE cur[p].data)
       ELSE UNCHANGED store
    /\ Answer(p, "ok", <<>>)
    /\ Happens(p, <<"stored", cur[p].fs, cur[p].dst>>)

(* ObjectFS.BatchDelete of keys that fit in one request; module ObjectFS   *)
(* has more, and requests that fail in part.                               *)
DeleteObjects(p) ==
    /\ Calling(p, {"batch"}, Base)
    /\ LET base == cur[p].fs
           gone == {cur[p].keys[i] : i \in DOMAIN cur[p].keys}
       IN  /\ store' = [store EXCEPT ![base] =
                          [k \in Sub |-> IF k \in gone THEN NoFile ELSE @[k]]]
           /\ events' = [events EXCEPT ![p] =
                           @ \o [i \in DOMAIN cur[p].keys |->
                                   <<"deleted", base, cur[p].keys[i]>>]]
    /\ Answer(p, "ok", <<>>)

(* Any call on a base may fail, and does nothing then, or nothing more: a  *)
(* Copy that fails leaves what it has cut.                                 *)
Fail(p) == /\ At(p, "call") /\ cur[p].fs \in Base
           /\ cur[p].op \in {"get", "put", "delete", "copy", "create", "fill", "batch"}
           /\ Answer(p, "error", <<>>)
           /\ UNCHANGED <<store, events>>

(* A request may be carried out, for a batch in part, without its answer   *)
(* coming back.                                                            *)
Lost(p) ==
    /\ Calling(p, {"put", "delete", "copy", "batch"}, BatchDeleters)
    /\ LET base == cur[p].fs
       IN  \/ /\ cur[p].op = "put" /\ cur[p].key \in Sub
              /\ Set(base, cur[p].key, cur[p].data)
           \/ /\ cur[p].op = "delete" /\ cur[p].key \in Sub
              /\ Set(base, cur[p].key, NoFile)
           \/ /\ cur[p].op = "copy" /\ {cur[p].key, cur[p].dst} \subseteq Sub
              /\ Held(p) # NoFile
              /\ Set(base, cur[p].dst, Held(p))
           \/ /\ cur[p].op = "batch"
              /\ \E gone \in SUBSET {cur[p].keys[i] : i \in DOMAIN cur[p].keys} :
                    store' = [store EXCEPT ![base] =
                                [k \in Sub |-> IF k \in gone THEN NoFile ELSE @[k]]]
    /\ Answer(p, "error", <<>>)
    /\ UNCHANGED events

----------------------------------------------------------------------------
(* The helpers of fs.go and unpack.go.                                     *)

(* A type assertion finds an optional interface: a hook has none.          *)
Offers(f, set) == f \in set

(* Copy, of the package and of a mount table: by the file system itself if *)
(* it is one and the same and can, else by Get and Put.                    *)
CopyTo(p, f, k, g, l) ==
    /\ IF f = g /\ Offers(f, Copiers \cup Table)
       THEN Become(p, [op |-> "copy", fs |-> f, key |-> k, dst |-> l], <<>>)
       ELSE Become(p, GetAt(f, k), <<[at |-> "copy", fs |-> g, key |-> l]>>)
    /\ Goto(p, "call")

Copy(p) ==
    /\ At(p, "call") /\ cur[p].op = "copyto"
    /\ CopyTo(p, cur[p].fs, cur[p].key, cur[p].dfs, cur[p].dst)
    /\ UNCHANGED <<store, events>>

(* A loop over calls, of which the first error is the last.                *)
Loop(p, todo) ==
    IF todo = <<>> THEN Answer(p, "ok", <<>>)
    ELSE /\ Become(p, Head(todo), <<[at |-> "loop", todo |-> Tail(todo)]>>)
         /\ Goto(p, "next")

BatchDelete(p) ==
    /\ At(p, "call") /\ cur[p].op = "batchdelete"
    /\ IF Offers(cur[p].fs, BatchDeleters)
       THEN /\ Become(p, [op |-> "batch", fs |-> cur[p].fs, keys |-> cur[p].keys], <<>>)
            /\ Goto(p, "call")
       ELSE Loop(p, [i \in DOMAIN cur[p].keys |-> DelAt(cur[p].fs, cur[p].keys[i])])
    /\ UNCHANGED <<store, events>>

(* Unpack puts the entries of an archive one by one; the keys are those    *)
(* module Archive makes of their names.                                        *)
Unpack(p) ==
    /\ At(p, "call") /\ cur[p].op = "unpack"
    /\ Loop(p, [i \in DOMAIN cur[p].files |->
                  PutAt(cur[p].fs, cur[p].files[i].key, cur[p].files[i].data)])
    /\ UNCHANGED <<store, events>>

(* Copy comes back from Get: with an error, or to Put what it returned.    *)
PutCopy(p) ==
    /\ At(p, "return") /\ stack[p] # <<>> /\ Top(p).at = "copy"
    /\ Pop(p)
    /\ IF ans[p].res = "ok"
       THEN /\ cur' = [cur EXCEPT ![p] = PutAt(Top(p).fs, Top(p).key, ans[p].data)]
            /\ ans' = [ans EXCEPT ![p] = NoAns]
            /\ Goto(p, "next")
       ELSE UNCHANGED <<pc, cur, ans>>
    /\ UNCHANGED <<store, events>>

(* A loop comes back from one of its calls.                                *)
LoopOn(p) ==
    /\ At(p, "return") /\ stack[p] # <<>> /\ Top(p).at = "loop"
    /\ IF ans[p].res = "ok" /\ Top(p).todo # <<>>
       THEN /\ cur' = [cur EXCEPT ![p] = Head(Top(p).todo)]
            /\ stack' = [stack EXCEPT ![p][Len(stack[p])].todo = Tail(@)]
            /\ ans' = [ans EXCEPT ![p] = NoAns]
            /\ Goto(p, "next")
       ELSE Pop(p) /\ UNCHANGED <<pc, cur, ans>>
    /\ UNCHANGED <<store, events>>

----------------------------------------------------------------------------
CallsInit == /\ pc = [p \in Proc |-> "idle"]
             /\ cur = [p \in Proc |-> Idle]
             /\ stack = [p \in Proc |-> <<>>]
             /\ ans = [p \in Proc |-> NoAns]
             /\ store = [b \in Base |-> [k \in Sub |-> NoFile]]
             /\ events = [p \in Proc |-> <<>>]

CallStep(p) ==
    \/ Begin(p) \/ Cancelled(p)
    \/ Get(p) \/ Put(p) \/ Delete(p) \/ DeleteObjects(p)
    \/ CopyObject(p) \/ CopyOpens(p) \/ CopyCreates(p) \/ CopyFills(p)
    \/ Fail(p) \/ Lost(p)
    \/ Copy(p) \/ BatchDelete(p) \/ Unpack(p) \/ PutCopy(p) \/ LoopOn(p)
=============================================================================
