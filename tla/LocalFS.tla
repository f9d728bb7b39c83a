------------------------------- MODULE LocalFS -------------------------------
(***************************************************************************)
(* The local-directory backend (localfs.go): clients of one LocalFS value  *)
(* run its methods concurrently, each method being a series of system      *)
(* calls on one directory tree, one action per system call that matters.   *)
(*                                                                         *)
(* The tree binds paths to inodes, so that what an open handle reads or    *)
(* writes is kept apart from what a path names: os.Create truncates the    *)
(* inode the path is bound to, os.Rename and os.Remove rebind the path and *)
(* leave open handles on the inode they opened.                            *)
(*                                                                         *)
(* A payload is a sequence of chunks, one per read or write call of        *)
(* io.Copy.  A chunk is atomic, a payload is not.                          *)
(***************************************************************************)
EXTENDS Naturals, Sequences, Requests

CONSTANTS Proc,        \* clients
          Root,        \* the key "" : the directory the LocalFS is rooted at
          Top,         \* the directory that holds Root
          Temp,        \* paths os.CreateTemp(dir, ".virefs-tmp-*") may pick
          DirOf,       \* filepath.Dir
          Above,       \* the directories on the way down to a path, Top first
          Inode,       \* bound: files that exist, linked or open, at a time
          Chunk,
          Zero,        \* what a hole in a file reads as
          Absent, Dir, \* what a path that names no file is bound to
          NoFile, NoReq, NoAns,
          Atomic,      \* WithAtomicWrite
          CreateRoot,  \* WithCreateRoot
          MaxFaults    \* bound: crashes and temporary files that stay behind

Path == {Top} \cup Key \cup Temp

ASSUME TreeAssumption ==
    /\ Root \in Key /\ Top \notin Key \cup Temp /\ Key \cap Temp = {}
    /\ DirOf \in [Key \cup Temp -> {Top} \cup Key]
    /\ Above \in [Key \cup Temp -> SUBSET ({Top} \cup Key)]

ASSUME AboveAssumption ==
    /\ DirOf[Root] = Top
    /\ \A q \in Key \cup Temp :
          Above[q] = {DirOf[q]} \cup
                     (IF DirOf[q] = Top THEN {} ELSE Above[DirOf[q]])

ASSUME NullAssumption ==
    /\ Absent \notin Inode /\ Dir \notin Inode /\ Absent # Dir
    /\ NoFile \notin Inode \cup {Absent, Dir} \cup Temp
    /\ NoReq \notin Calls
    /\ NoAns \notin [res : {"ok", "notfound", "error", "file", "dir", "true", "false"}]
    /\ NoAns \notin [res : {"ok"}, val : Val]

ASSUME ValAssumption == Val \subseteq Seq(Chunk) /\ NoFile \notin Val

ASSUME OptionAssumption == Atomic \in BOOLEAN /\ CreateRoot \in BOOLEAN

ASSUME BoundAssumption == MaxFaults \in Nat

VARIABLES
    tree,    \* Path -> the inode it is bound to, Dir or Absent
    data,    \* Inode -> the chunks in it; <<>> for one that is not in use
    pc,      \* where in its method each client is
    req,     \* the call it is in
    in,      \* its handle open for reading: the file Get returned, Copy's sf
    out,     \* its handle open for writing: f, tmp, Copy's df
    tmp,     \* the name of its temporary file
    buf,     \* the chunks it has moved so far
    res,     \* how its call ended
    faults   \* crashes and temporary files that could not be removed

vars  == <<tree, data, pc, req, in, out, tmp, buf, res, faults>>

Content == Seq(Chunk \cup {Zero})

(* Handles, names and answers are what their step of the method left: a     *)
(* call that failed to open a file never reaches the steps that use one.   *)
TypeOK ==
    /\ tree \in [Path -> Inode \cup {Dir, Absent}]
    /\ data \in [Inode -> Content]
    /\ pc \in [Proc -> {"idle", "start", "read", "opened", "create",
                        "write", "done"}]
    /\ req \in [Proc -> Calls \cup {NoReq}]
    /\ in \in [Proc -> Inode \cup {Dir, NoFile}]
    /\ out \in [Proc -> Inode \cup {NoFile}]
    /\ tmp \in [Proc -> Temp \cup {NoFile}]
    /\ buf \in [Proc -> Content]
    /\ res \in [Proc -> {"", "ok", "notfound", "error", "file", "dir",
                         "true", "false"}]
    /\ faults \in 0..MaxFaults
    /\ \A p \in Proc : pc[p] = "idle" \/ req[p] \in Calls

----------------------------------------------------------------------------
(* The directory tree.                                                     *)

IsFile(q)   == tree[q] \in Inode
Blocked(q)  == \E d \in Above[q] : IsFile(d)           \* ENOTDIR
Occupied(d) == \E q \in Key \cup Temp : DirOf[q] = d /\ tree[q] # Absent

InUse == {tree[q] : q \in Path} \cup {in[p] : p \in Proc}
                                \cup {out[p] : p \in Proc}
Free  == Inode \ InUse

(* An inode nothing is bound to or has open loses its chunks.              *)
Store(contents) ==
    data' = [i \in Inode |-> IF i \in InUse' THEN contents[i] ELSE <<>>]

(* A write of chunk c at offset n, which may lie past the end.             *)
WriteAt(content, n, c) ==
    [i \in 1..(IF Len(content) > n THEN Len(content) ELSE n + 1) |->
        IF i = n + 1 THEN c
        ELSE IF i <= Len(content) THEN content[i] ELSE Zero]

----------------------------------------------------------------------------
(* Steps of a call.                                                        *)

Doing(p, at, op) == pc[p] = at /\ req[p].op = op

Target(p) == IF req[p].op = "copy" THEN req[p].dst ELSE req[p].key

UsesTemp(p) == Atomic /\ req[p].op = "put"

Goto(p, to) == pc' = [pc EXCEPT ![p] = to]

Answer(p, r) == Goto(p, "done") /\ res' = [res EXCEPT ![p] = r]

(* A client calls a method ...                                             *)
Call(p) ==
    /\ pc[p] = "idle"
    /\ \E r \in Calls : req' = [req EXCEPT ![p] = r]
    /\ Goto(p, "start")
    /\ UNCHANGED <<tree, data, in, out, tmp, buf, res, faults>>

(* ... takes its answer, and with it what it read ...                      *)
Return(p) ==
    /\ pc[p] = "done"
    /\ Goto(p, "idle")
    /\ req' = [req EXCEPT ![p] = NoReq]
    /\ buf' = [buf EXCEPT ![p] = <<>>]
    /\ res' = [res EXCEPT ![p] = ""]
    /\ UNCHANGED <<tree, data, in, out, tmp, faults>>

(* ... or is turned away before anything happened: the context is          *)
(* cancelled, the key is invalid, the first system call is not permitted.  *)
Refuse(p) ==
    /\ pc[p] = "start"
    /\ Answer(p, "error")
    /\ UNCHANGED <<tree, data, req, in, out, tmp, buf, faults>>

(* Variant with a mistake: the error of os.Open goes unnoticed.            *)
OpenUnchecked(p, q, then) ==
    /\ in' = [in EXCEPT ![p] = tree[q]]
    /\ Goto(p, then)
    /\ UNCHANGED <<tree, data, req, out, tmp, buf, res, faults>>

(* os.Open of key q.  A directory opens like a file; what the error is     *)
(* depends on what is in the way.                                          *)
Open(p, q, then) ==
    /\ IF tree[q] = Absent
       THEN /\ Answer(p, IF Blocked(q) THEN "error" ELSE "notfound")
            /\ UNCHANGED in
       ELSE /\ in' = [in EXCEPT ![p] = tree[q]]
            /\ Goto(p, then)
            /\ UNCHANGED res
    /\ UNCHANGED <<tree, data, req, out, tmp, buf, faults>>

Get(p) == Doing(p, "start", "get") /\ Open(p, req[p].key, "read")

(* The caller of Get reads the file to its end, a chunk at a time, at its  *)
(* own offset, and closes it.                                              *)
ReadChunk(p) ==
    /\ pc[p] = "read" /\ in[p] \in Inode
    /\ Len(buf[p]) < Len(data[in[p]])
    /\ buf' = [buf EXCEPT ![p] = Append(@, data[in[p]][Len(@) + 1])]
    /\ UNCHANGED <<tree, data, pc, req, in, out, tmp, res, faults>>

ReadEOF(p) ==
    /\ pc[p] = "read" /\ in[p] \in Inode
    /\ Len(buf[p]) >= Len(data[in[p]])
    /\ in' = [in EXCEPT ![p] = NoFile]
    /\ Answer(p, "ok")
    /\ UNCHANGED <<tree, req, out, tmp, buf, faults>>
    /\ Store(data)

ReadDir(p) ==
    /\ pc[p] = "read" /\ in[p] = Dir
    /\ in' = [in EXCEPT ![p] = NoFile]
    /\ Answer(p, "error")
    /\ UNCHANGED <<tree, data, req, out, tmp, buf, faults>>

(* os.MkdirAll of the target's directory, in Put and, with the source      *)
(* already open, in Copy.                                                  *)
MakeDirs(p) == pc[p] = "opened" \/ Doing(p, "start", "put")

Made(dirs) == tree' = [q \in Path |-> IF q \in dirs THEN Dir ELSE tree[q]]

(* Variant with a mistake: a file in the way is replaced by a directory.   *)
MkdirAllForced(p) ==
    /\ MakeDirs(p)
    /\ Made(Above[Target(p)])
    /\ Goto(p, "create")
    /\ UNCHANGED <<req, in, out, tmp, buf, res, faults>>
    /\ Store(data)

MkdirAll(p) ==
    /\ MakeDirs(p)
    /\ ~Blocked(Target(p))
    /\ Made(Above[Target(p)])
    /\ Goto(p, "create")
    /\ UNCHANGED <<data, req, in, out, tmp, buf, res, faults>>

(* It stops at the first directory d it cannot make: d is a file, or the   *)
(* disk or a concurrent Delete of an empty directory gets in the way.      *)
MkdirAllFails(p) ==
    /\ MakeDirs(p)
    /\ \E d \in Above[Target(p)] \ {Top} :
          /\ tree[d] # Dir /\ ~Blocked(d)
          /\ Made(Above[d])
    /\ in' = [in EXCEPT ![p] = NoFile]
    /\ Answer(p, "error")
    /\ UNCHANGED <<req, out, tmp, buf, faults>>
    /\ Store(data)

(* Variant with a mistake: os.OpenFile without O_TRUNC.                    *)
CreateUntruncated(p) ==
    /\ pc[p] = "create" /\ ~UsesTemp(p)
    /\ tree[DirOf[Target(p)]] = Dir /\ tree[Target(p)] # Dir
    /\ Goto(p, "write")
    /\ UNCHANGED <<req, in, tmp, buf, res, faults>>
    /\ \E i \in IF IsFile(Target(p)) THEN {tree[Target(p)]} ELSE Free :
          /\ tree' = [tree EXCEPT ![Target(p)] = i]
          /\ out' = [out EXCEPT ![p] = i]
          /\ Store(data)

(* os.Create: an existing file is truncated in place, whoever has it open. *)
Create(p) ==
    /\ pc[p] = "create" /\ ~UsesTemp(p)
    /\ tree[DirOf[Target(p)]] = Dir /\ tree[Target(p)] # Dir
    /\ Goto(p, "write")
    /\ UNCHANGED <<req, in, tmp, buf, res, faults>>
    /\ \E i \in IF IsFile(Target(p)) THEN {tree[Target(p)]} ELSE Free :
          /\ tree' = [tree EXCEPT ![Target(p)] = i]
          /\ out' = [out EXCEPT ![p] = i]
          /\ Store([data EXCEPT ![i] = <<>>])

(* Variant with a mistake: one fixed temporary name per directory.         *)
CreateTempShared(p) ==
    /\ pc[p] = "create" /\ UsesTemp(p)
    /\ tree[DirOf[Target(p)]] = Dir
    /\ Goto(p, "write")
    /\ UNCHANGED <<req, in, buf, res, faults>>
    /\ LET t == CHOOSE t \in Temp : DirOf[t] = DirOf[Target(p)]
       IN  /\ \E u \in Temp : DirOf[u] = DirOf[Target(p)]
           /\ \E i \in IF IsFile(t) THEN {tree[t]} ELSE Free :
              /\ tree' = [tree EXCEPT ![t] = i]
              /\ tmp' = [tmp EXCEPT ![p] = t]
              /\ out' = [out EXCEPT ![p] = i]
              /\ Store([data EXCEPT ![i] = <<>>])

(* os.CreateTemp: a new file beside the target.                            *)
CreateTemp(p) ==
    /\ pc[p] = "create" /\ UsesTemp(p)
    /\ tree[DirOf[Target(p)]] = Dir
    /\ Goto(p, "write")
    /\ UNCHANGED <<req, in, buf, res, faults>>
    /\ \E t \in Temp, i \in Free :
          /\ DirOf[t] = DirOf[Target(p)] /\ tree[t] = Absent
          /\ tree' = [tree EXCEPT ![t] = i]
          /\ tmp' = [tmp EXCEPT ![p] = t]
          /\ out' = [out EXCEPT ![p] = i]
          /\ Store([data EXCEPT ![i] = <<>>])

(* The directory made a moment ago is gone or the target is a directory,   *)
(* or the disk refuses.                                                    *)
CreateFails(p) ==
    /\ pc[p] = "create"
    /\ in' = [in EXCEPT ![p] = NoFile]
    /\ Answer(p, "error")
    /\ UNCHANGED <<tree, req, out, tmp, buf, faults>>
    /\ Store(data)

----------------------------------------------------------------------------
(* io.Copy from the caller's reader, or from the source of a Copy.         *)

Feed(p) == IF req[p].op = "put" THEN req[p].val ELSE data[in[p]]

Readable(p) == req[p].op = "put" \/ in[p] \in Inode

CopyChunk(p) ==
    /\ pc[p] = "write" /\ Readable(p)
    /\ Len(buf[p]) < Len(Feed(p))
    /\ LET n == Len(buf[p])
           c == Feed(p)[n + 1]
       IN  /\ buf' = [buf EXCEPT ![p] = Append(@, c)]
           /\ data' = [data EXCEPT ![out[p]] = WriteAt(@, n, c)]
    /\ UNCHANGED <<tree, pc, req, in, out, tmp, res, faults>>

(* Variant with a mistake: the error of io.Copy goes unnoticed.            *)
CopiedUnchecked(p) == pc[p] = "write" /\ Readable(p)

Copied(p) == pc[p] = "write" /\ Readable(p) /\ Len(buf[p]) >= Len(Feed(p))

(* The handles are closed and the call is over.                            *)
Close(p, r) ==
    /\ in' = [in EXCEPT ![p] = NoFile]
    /\ out' = [out EXCEPT ![p] = NoFile]
    /\ tmp' = [tmp EXCEPT ![p] = NoFile]
    /\ buf' = [buf EXCEPT ![p] = <<>>]
    /\ Answer(p, r)
    /\ UNCHANGED req
    /\ Store(data)

CopyEOF(p) ==
    /\ Copied(p) /\ ~UsesTemp(p)
    /\ UNCHANGED <<tree, faults>>
    /\ Close(p, "ok")

(* The reader fails, the source is a directory, or the disk is full: what  *)
(* has been written stays.                                                 *)
CopyFails(p) ==
    /\ pc[p] = "write" /\ ~UsesTemp(p)
    /\ UNCHANGED <<tree, faults>>
    /\ Close(p, "error")

(* os.Rename of the complete temporary file over the target, whatever file *)
(* is there, but not over a directory.                                     *)
Rename(p) ==
    /\ Copied(p) /\ UsesTemp(p)
    /\ tree[Target(p)] # Dir
    /\ tree' = [tree EXCEPT ![Target(p)] = tree[tmp[p]], ![tmp[p]] = Absent]
    /\ Close(p, "ok")
    /\ UNCHANGED faults

(* The temporary file is removed; the error of os.Remove, should that fail *)
(* too, is dropped.                                                        *)
RemoveTemp(p) ==
    \/ tree' = [tree EXCEPT ![tmp[p]] = Absent] /\ UNCHANGED faults
    \/ faults < MaxFaults /\ faults' = faults + 1 /\ UNCHANGED tree

(* Variant with a mistake: one error path without its os.Remove.           *)
PutAtomicFailsKeeping(p) ==
    /\ pc[p] = "write" /\ UsesTemp(p)
    /\ \/ RemoveTemp(p)
       \/ Copied(p) /\ RemoveTemp(p)
       \/ Copied(p) /\ UNCHANGED <<tree, faults>>
    /\ Close(p, "error")

(* io.Copy fails at any time, or what follows it does.  Each of the three  *)
(* has an error path of its own.                                           *)
PutAtomicFails(p) ==
    /\ pc[p] = "write" /\ UsesTemp(p)
    /\ \/ RemoveTemp(p)                  \* io.Copy
       \/ Copied(p) /\ RemoveTemp(p)     \* tmp.Close
       \/ Copied(p) /\ RemoveTemp(p)     \* os.Rename
    /\ Close(p, "error")

----------------------------------------------------------------------------
(* os.Remove: files, and directories that are empty.                       *)
Delete(p) ==
    /\ Doing(p, "start", "delete")
    /\ LET q == req[p].key IN
       IF tree[q] = Absent
       THEN Answer(p, IF Blocked(q) THEN "error" ELSE "notfound")
            /\ UNCHANGED tree
       ELSE IF tree[q] = Dir /\ Occupied(q)
       THEN Answer(p, "error") /\ UNCHANGED tree
       ELSE Answer(p, "ok") /\ tree' = [tree EXCEPT ![q] = Absent]
    /\ UNCHANGED <<req, in, out, tmp, buf, faults>>
    /\ Store(data)

(* os.Stat.  Exists hides "not found" and no other error, so a file in the *)
(* way of the key is an error where a missing directory is "false".        *)
Stat(p) ==
    /\ Doing(p, "start", "stat")
    /\ LET q == req[p].key IN
       Answer(p, IF IsFile(q) THEN "file" ELSE IF tree[q] = Dir THEN "dir"
                 ELSE IF Blocked(q) THEN "error" ELSE "notfound")
    /\ UNCHANGED <<tree, data, req, in, out, tmp, buf, faults>>

Exists(p) ==
    /\ Doing(p, "start", "exists")
    /\ LET q == req[p].key IN
       Answer(p, IF tree[q] # Absent THEN "true"
                 ELSE IF Blocked(q) THEN "error" ELSE "false")
    /\ UNCHANGED <<tree, data, req, in, out, tmp, buf, faults>>

(* Copy opens its source, makes the directories of its destination, creates *)
(* the destination in place and runs io.Copy, WithAtomicWrite or not.      *)
Copy(p) == Doing(p, "start", "copy") /\ Open(p, req[p].key, "opened")

----------------------------------------------------------------------------
(* NewLocalFS: an absent root is made WithCreateRoot, and the error, should *)
(* that fail, is dropped.  A crash is a process that ends in the middle of *)
(* its calls, and another that starts on the same directory.               *)
NewLocalFS(root) == IF CreateRoot /\ root = Absent THEN {Dir, Absent} ELSE {root}

Init ==
    /\ \E was \in {Dir, Absent} : \E root \in NewLocalFS(was) :
          tree = [q \in Path |->
                    IF q = Top THEN Dir ELSE IF q = Root THEN root ELSE Absent]
    /\ data = [i \in Inode |-> <<>>]
    /\ pc = [p \in Proc |-> "idle"]
    /\ req = [p \in Proc |-> NoReq]
    /\ in = [p \in Proc |-> NoFile]
    /\ out = [p \in Proc |-> NoFile]
    /\ tmp = [p \in Proc |-> NoFile]
    /\ buf = [p \in Proc |-> <<>>]
    /\ res = [p \in Proc |-> ""]
    /\ faults = 0

Crash ==
    /\ faults < MaxFaults
    /\ faults' = faults + 1
    /\ \E root \in NewLocalFS(tree[Root]) : tree' = [tree EXCEPT ![Root] = root]
    /\ pc' = [p \in Proc |-> "idle"]
    /\ req' = [p \in Proc |-> NoReq]
    /\ in' = [p \in Proc |-> NoFile]
    /\ out' = [p \in Proc |-> NoFile]
    /\ tmp' = [p \in Proc |-> NoFile]
    /\ buf' = [p \in Proc |-> <<>>]
    /\ res' = [p \in Proc |-> ""]
    /\ Store(data)

Step(p) ==
    \/ Call(p) \/ Return(p) \/ Refuse(p)
    \/ Get(p) \/ ReadChunk(p) \/ ReadEOF(p) \/ ReadDir(p)
    \/ MkdirAll(p) \/ MkdirAllFails(p)
    \/ Create(p) \/ CreateTemp(p) \/ CreateFails(p)
    \/ CopyChunk(p) \/ CopyEOF(p) \/ CopyFails(p)
    \/ Rename(p) \/ PutAtomicFails(p)
    \/ Delete(p) \/ Stat(p) \/ Exists(p) \/ Copy(p)

Next == Crash \/ \E p \in Proc : Step(p)

Spec == Init /\ [][Next]_vars

----------------------------------------------------------------------------
(* What WithAtomicWrite buys.                                              *)

(* Every file a key names holds one payload, whole, whatever Puts are in   *)
(* progress, have failed or were cut short by a crash.                     *)
WholeFiles == \A k \in Key : IsFile(k) => data[tree[k]] \in Val

(* A temporary file exists only while the Put that made it runs, unless a  *)
(* crash or a failed os.Remove left it behind.                             *)
NoTempLeftBehind ==
    faults = 0 => \A t \in Temp :
                     tree[t] # Absent => \E p \in Proc : tmp[p] = t

(* A temporary file is its Put's own: no other call writes to it or finds  *)
(* it under a key before it is renamed.                                    *)
TempsArePrivate ==
    \A p \in Proc : tmp[p] # NoFile =>
        /\ tree[tmp[p]] = out[p]
        /\ \A q \in Path \ {tmp[p]} : tree[q] # out[p]
        /\ \A r \in Proc \ {p} : out[r] # out[p] /\ in[r] # out[p]

(* The tree, read as the map of FileStore.  A Get takes effect when it     *)
(* opens the file, since nobody writes to an inode a key names.            *)
Answered(p) ==
    IF pc[p] = "read" /\ in[p] = Dir THEN [res |-> "error"]
    ELSE IF pc[p] = "read" THEN [res |-> "ok", val |-> data[in[p]]]
    ELSE IF pc[p] # "done" THEN NoAns
    ELSE IF req[p].op = "get" /\ res[p] = "ok" THEN [res |-> "ok", val |-> buf[p]]
    ELSE [res |-> res[p]]

Promise ==
    INSTANCE FileStore WITH
        store <- [k \in Key |-> IF IsFile(k) THEN data[tree[k]] ELSE NoFile],
        call  <- req,
        ans   <- [p \in Proc |-> Answered(p)],
        Unsure <- {}

(* With atomic writes the file system is the atomic map of FileStore:      *)
(* readers get whole payloads, an error changed nothing, an answered Put   *)
(* survives a crash.                                                       *)
ActsAtomically == Promise!Spec
=============================================================================
