------------------------------ MODULE FileStore ------------------------------
(***************************************************************************)
(* What a VireFS file system promises its concurrent callers: each call    *)
(* takes effect at one instant between the call and its answer, on a map   *)
(* from keys to whole payloads (the FS interface, fs.go:20-69).            *)
(*                                                                         *)
(*  - a Get that answers "ok" returns a payload the key held at that       *)
(*    instant, never a part of one or a mixture of two;                    *)
(*  - a Put or a Delete that answers "ok" changed its key and nothing      *)
(*    else; one that answers with an error changed nothing, but where the  *)
(*    answer may get lost (Unsure), and then nothing else either;          *)
(*  - "notfound", and an Exists that answers "false", are only given for a *)
(*    key that holds no file at that instant;                              *)
(*  - a crash loses the calls in progress and nothing that was stored.     *)
(*                                                                         *)
(* An error may be answered at any time: the disk and the context decide.  *)
(* A key that is a directory holds no file; Delete removes an empty one,   *)
(* Stat says it is one, and Exists answers "true" for it.                  *)
(***************************************************************************)
EXTENDS Requests

CONSTANTS Proc, NoFile, NoReq, NoAns,
          Unsure     \* keys of which an error does not say that nothing was done

VARIABLES store,   \* the payload of each key, or NoFile
          call,    \* the call each client is waiting for, or NoReq
          ans      \* its answer once it has taken effect, or NoAns

vars == <<store, call, ans>>

Answer == [res : {"ok", "notfound", "error", "file", "dir", "true", "false"}] \cup
          [res : {"ok"}, val : Val]

TypeOK == /\ store \in [Key -> Val \cup {NoFile}]
          /\ call \in [Proc -> Calls \cup {NoReq}]
          /\ ans \in [Proc -> Answer \cup {NoAns}]

Init == /\ store = [k \in Key |-> NoFile]
        /\ call = [p \in Proc |-> NoReq]
        /\ ans = [p \in Proc |-> NoAns]

Call(p) == /\ call[p] = NoReq
           /\ \E r \in Calls : call' = [call EXCEPT ![p] = r]
           /\ UNCHANGED <<store, ans>>

Pending(p, op) == call[p] # NoReq /\ call[p].op = op /\ ans[p] = NoAns

Answers(p, a) == ans' = [ans EXCEPT ![p] = a] /\ UNCHANGED call

Fail(p) == /\ call[p] # NoReq /\ ans[p] = NoAns
           /\ Answers(p, [res |-> "error"])
           /\ UNCHANGED store

(* It is done, and an error is answered.                                   *)
Lost(p) ==
    /\ \/ /\ Pending(p, "put") /\ call[p].key \in Unsure
          /\ store' = [store EXCEPT ![call[p].key] = call[p].val]
       \/ /\ Pending(p, "delete") /\ call[p].key \in Unsure
          /\ store' = [store EXCEPT ![call[p].key] = NoFile]
       \/ /\ Pending(p, "copy") /\ call[p].dst \in Unsure
          /\ store[call[p].key] # NoFile
          /\ store' = [store EXCEPT ![call[p].dst] = store[call[p].key]]
    /\ Answers(p, [res |-> "error"])

Get(p) == /\ Pending(p, "get")
          /\ LET held == store[call[p].key]
             IN  IF held = NoFile THEN Answers(p, [res |-> "notfound"])
                                  ELSE Answers(p, [res |-> "ok", val |-> held])
          /\ UNCHANGED store

Put(p) == /\ Pending(p, "put")
          /\ store' = [store EXCEPT ![call[p].key] = call[p].val]
          /\ Answers(p, [res |-> "ok"])

Delete(p) ==
    /\ Pending(p, "delete")
    /\ store' = [store EXCEPT ![call[p].key] = NoFile]
    /\ \/ Answers(p, [res |-> "ok"])
       \/ store[call[p].key] = NoFile /\ Answers(p, [res |-> "notfound"])

Stat(p) ==
    /\ Pending(p, "stat")
    /\ \/ store[call[p].key] # NoFile /\ Answers(p, [res |-> "file"])
       \/ /\ store[call[p].key] = NoFile
          /\ \E no \in {"dir", "notfound"} : Answers(p, [res |-> no])
    /\ UNCHANGED store

Exists(p) ==
    /\ Pending(p, "exists")
    /\ \/ Answers(p, [res |-> "true"])
       \/ store[call[p].key] = NoFile /\ Answers(p, [res |-> "false"])
    /\ UNCHANGED store

(* A same-backend copy: the destination gets the payload the source holds. *)
Copy(p) == /\ Pending(p, "copy")
           /\ LET held == store[call[p].key]
              IN  IF held = NoFile
                  THEN Answers(p, [res |-> "notfound"]) /\ UNCHANGED store
                  ELSE /\ Answers(p, [res |-> "ok"])
                       /\ store' = [store EXCEPT ![call[p].dst] = held]

Return(p) == /\ ans[p] # NoAns
             /\ call' = [call EXCEPT ![p] = NoReq]
             /\ ans' = [ans EXCEPT ![p] = NoAns]
             /\ UNCHANGED store

Crash == /\ call' = [p \in Proc |-> NoReq]
         /\ ans' = [p \in Proc |-> NoAns]
         /\ UNCHANGED store

Next == \/ Crash
        \/ \E p \in Proc :
              \/ Call(p) \/ Fail(p) \/ Lost(p) \/ Return(p)
              \/ Get(p) \/ Put(p) \/ Delete(p)
              \/ Stat(p) \/ Exists(p) \/ Copy(p)

Spec == Init /\ [][Next]_vars
=============================================================================
