------------------------------ MODULE ObjectFS ------------------------------
(***************************************************************************)
(* The object-store backend (objectfs.go): concurrent clients of one       *)
(* ObjectFS, each S3 request one step of the bucket.  A request that fails *)
(* may have been carried out or not: its answer may be what got lost.      *)
(* List fetches page after page, BatchDelete sends batch after batch, with *)
(* the requests of others in between.                                      *)
(*                                                                         *)
(* Keys are strings over an alphabet of names and the slash, so that a     *)
(* prefix is put in front, compared and cut off as the code does it: the   *)
(* string "data/a/b" is <<data, Slash, a, Slash, b>>.  A bucket is the set *)
(* of the keys that have an object; no request leaves half of one.         *)
(***************************************************************************)
EXTENDS Naturals, Sequences, SequencesExt, FiniteSets

CONSTANTS Proc,
          Slash,
          Key,        \* keys clients use, cleaned
          BadKey,     \* a key CleanKey rejects
          Base,       \* WithPrefix
          KeyFunc,    \* WithObjectKeyFunc
          Rank,       \* the order of the alphabet
          Foreign,    \* objects of others in the bucket, outside Base
          Calls,      \* the calls clients make
          PageSize,   \* entries S3 returns in one page
          MaxBatch,   \* keys S3 accepts in one DeleteObjects: 1000
          NoReq

ASSUME SizeAssumption == PageSize \in Nat \ {0} /\ MaxBatch \in Nat \ {0}
Letter == DOMAIN Rank

(* What CleanKey leaves, but for the root: segments with one slash between.*)
Clean(k) == /\ k # <<>> /\ Head(k) # Slash /\ Last(k) # Slash
            /\ \A i \in 1..(Len(k) - 1) : k[i] # Slash \/ k[i + 1] # Slash

ASSUME StringAssumption == Rank \in [Letter -> Nat] /\ Base \in Seq(Letter) /\ Slash \in Letter
ASSUME KeyAssumption == /\ Key \subseteq Seq(Letter) /\ \A k \in Key : Clean(k)
                        /\ DOMAIN KeyFunc = Key /\ BadKey \notin Key
                        /\ \A k \in Key : KeyFunc[k] \in Seq(Letter) /\ Clean(KeyFunc[k])
ASSUME ForeignAssumption == /\ Foreign \subseteq Seq(Letter)
                            /\ \A k \in Foreign : ~IsPrefix(Base, k)

SingleOp == {"put", "delete", "get", "head", "copy"}

ASSUME CallsAssumption ==
    \A r \in Calls :
        \/ r.op \in SingleOp /\ r.key \in Key /\ (r.op = "copy" => r.dst \in Key)
        \/ r.op = "list" /\ r.prefix \in Key \cup {<<>>}
        \/ r.op = "batch" /\ r.keys \in Seq(Key \cup {BadKey})

VARIABLES bucket,  \* the S3 keys with an object
          req,     \* the call each client is in
          pc,      \* "idle", "call" or "done"
          res,     \* how it ended
          token,   \* List: the last entry of the last page, <<>> before the first
          files,   \* List: result.Files so far
          next,    \* BatchDelete: how many keys it has dealt with
          always,  \* S3 keys with an object throughout the call
          ever,    \* S3 keys with an object at some time in the call
          removed  \* S3 keys a BatchDelete took from the bucket

calls == <<req, pc, res, token, files, next>>
hist  == <<always, ever, removed>>
vars  == <<bucket, calls, hist>>

----------------------------------------------------------------------------
(* Strings.                                                                *)

EndsInSlash(s)     == s # <<>> /\ Last(s) = Slash
CutPrefix(s, n)    == SubSeq(s, n + 1, Len(s))
TrimSlash(s)       == IF EndsInSlash(s) THEN Front(s) ELSE s

Less(s, t) ==
    \/ IsStrictPrefix(s, t)
    \/ \E n \in 1..Len(s) :
          /\ n <= Len(t) /\ Rank[s[n]] < Rank[t[n]]
          /\ SubSeq(s, 1, n - 1) = SubSeq(t, 1, n - 1)

S3Key(key) == Base \o KeyFunc[key]

----------------------------------------------------------------------------
(* Calls of one request.  S3 answers, or the answer is lost with the       *)
(* request carried out or not.                                             *)

Call(p) ==
    /\ pc[p] = "idle"
    /\ \E r \in Calls : req' = [req EXCEPT ![p] = r]
    /\ pc' = [pc EXCEPT ![p] = "call"]
    /\ token' = [token EXCEPT ![p] = <<>>]
    /\ files' = [files EXCEPT ![p] = <<>>]
    /\ next' = [next EXCEPT ![p] = 0]
    /\ UNCHANGED <<bucket, res>>

Return(p) ==
    /\ pc[p] = "done"
    /\ pc' = [pc EXCEPT ![p] = "idle"]
    /\ req' = [req EXCEPT ![p] = NoReq]
    /\ res' = [res EXCEPT ![p] = ""]
    /\ token' = [token EXCEPT ![p] = <<>>]
    /\ files' = [files EXCEPT ![p] = <<>>]
    /\ next' = [next EXCEPT ![p] = 0]
    /\ UNCHANGED bucket

Doing(p, op) == pc[p] = "call" /\ req[p].op = op

Answer(p, r) == /\ pc' = [pc EXCEPT ![p] = "done"]
                /\ res' = [res EXCEPT ![p] = r]
                /\ UNCHANGED <<req, token, files>>

(* One request that turns the bucket into another.                         *)
Send(p, after) ==
    /\ \/ bucket' = after /\ Answer(p, "ok")
       \/ bucket' \in {bucket, after} /\ Answer(p, "error")
    /\ UNCHANGED next

Put(p) == Doing(p, "put") /\ Send(p, bucket \cup {S3Key(req[p].key)})

(* S3 deletes what is not there without an error.                          *)
Delete(p) == Doing(p, "delete") /\ Send(p, bucket \ {S3Key(req[p].key)})

(* NoSuchKey and NotFound become ErrNotFound, which Exists answers with    *)
(* false (mapS3Error).                                                     *)
Missing(p) ==
    /\ \E op \in {"get", "head", "copy"} : Doing(p, op)
    /\ S3Key(req[p].key) \notin bucket
    /\ Answer(p, "notfound")
    /\ UNCHANGED <<bucket, next>>

Read(p) ==
    /\ \E op \in {"get", "head"} : Doing(p, op)
    /\ S3Key(req[p].key) \in bucket
    /\ Send(p, bucket)

Copy(p) ==
    /\ Doing(p, "copy") /\ S3Key(req[p].key) \in bucket
    /\ Send(p, bucket \cup {S3Key(req[p].dst)})

(* The context is cancelled, between two requests or before the first, or  *)
(* a request that changes nothing fails.                                   *)
Cancelled(p) ==
    /\ pc[p] = "call"
    /\ Answer(p, "error")
    /\ UNCHANGED <<bucket, next>>

----------------------------------------------------------------------------
(* List.                                                                   *)

S3Prefix(prefix) ==
    LET s == Base \o prefix
    IN  IF s # <<>> /\ ~EndsInSlash(s) THEN Append(s, Slash) ELSE s

(* S3 groups the keys by what follows the prefix up to the next slash: an  *)
(* entry is a key, or a common prefix, which ends in a slash.              *)
Entry(k, prefix) ==
    LET slashes == {n \in (Len(prefix) + 1)..Len(k) : k[n] = Slash}
    IN  IF slashes = {} THEN k ELSE SubSeq(k, 1, Min(slashes))

Entries(p) ==
    LET prefix == S3Prefix(req[p].prefix)
    IN  {Entry(k, prefix) : k \in {k \in bucket : IsPrefix(prefix, k)}}

Remaining(p) == {e \in Entries(p) : Less(token[p], e)}

(* A page: the least of the entries that are left, in order.  S3 may       *)
(* return fewer than it was asked for.                                     *)
IsPage(p, page) ==
    /\ \A i, j \in DOMAIN page : i < j => Less(page[i], page[j])
    /\ \A e \in Remaining(p) \ Range(page) : \A i \in DOMAIN page : Less(page[i], e)

Truncated(p, page) == Remaining(p) # Range(page)

(* Variant with a mistake: the slash of a common prefix stays.             *)
FileInfoUntrimmed(e) ==
    [key |-> IF Len(e) > Len(Base) THEN CutPrefix(e, Len(Base)) ELSE e,
     dir |-> EndsInSlash(e)]

(* The key of an entry, as List returns it.                                *)
FileInfo(e) ==
    [key |-> TrimSlash(IF Len(e) > Len(Base) THEN CutPrefix(e, Len(Base)) ELSE e),
     dir |-> EndsInSlash(e)]

(* List appends the files of a page before its directories; the order of   *)
(* the results within a page is left out.                                  *)
Listing(p, page) ==
    /\ IsPage(p, page)
    /\ files' = [files EXCEPT ![p] = @ \o [i \in DOMAIN page |-> FileInfo(page[i])]]
    /\ UNCHANGED <<bucket, req, next>>

(* Variant with a mistake: the page after the next starts where the next   *)
(* one did.                                                                *)
ListPageRepeated(p, page) ==
    /\ Listing(p, page) /\ page # <<>> /\ Truncated(p, page) /\ Len(files[p]) < 4
    /\ token' = [token EXCEPT ![p] = IF @ = <<>> THEN Last(page) ELSE @]
    /\ UNCHANGED <<pc, res>>

(* Variant with a mistake: the truncation of a page goes unnoticed.        *)
ListEndEarly(p, page) ==
    /\ Listing(p, page) /\ page # <<>>
    /\ pc' = [pc EXCEPT ![p] = "done"]
    /\ res' = [res EXCEPT ![p] = "ok"]
    /\ UNCHANGED token

ListPage(p, page) ==
    /\ Listing(p, page) /\ page # <<>> /\ Truncated(p, page)
    /\ token' = [token EXCEPT ![p] = Last(page)]
    /\ UNCHANGED <<pc, res>>

ListEnd(p, page) ==
    /\ Listing(p, page) /\ ~Truncated(p, page)
    /\ pc' = [pc EXCEPT ![p] = "done"]
    /\ res' = [res EXCEPT ![p] = "ok"]
    /\ UNCHANGED token

List(p) == /\ Doing(p, "list")
           /\ \E page \in BoundedSeq(Remaining(p), PageSize) :
                 ListPage(p, page) \/ ListEnd(p, page)

----------------------------------------------------------------------------
(* BatchDelete.                                                            *)

(* The keys of the next batch.                                             *)
Batch(p) == {req[p].keys[i] : i \in DOMAIN req[p].keys \cap (next[p] + 1)..(next[p] + MaxBatch)}

AllDone(p) ==
    /\ Doing(p, "batch") /\ next[p] >= Len(req[p].keys)
    /\ Answer(p, "ok")
    /\ UNCHANGED <<bucket, next>>

(* A key that cannot be cleaned fails its batch before it is sent.         *)
InvalidKey(p) ==
    /\ Doing(p, "batch") /\ BadKey \in Batch(p)
    /\ Answer(p, "error")
    /\ UNCHANGED <<bucket, next>>

(* Variant with a mistake: the end of a batch is one too far.              *)
BatchDeleteSkipping(p) ==
    /\ Doing(p, "batch") /\ next[p] < Len(req[p].keys) /\ BadKey \notin Batch(p)
    /\ bucket' = bucket \ {S3Key(k) : k \in Batch(p)}
    /\ next' = [next EXCEPT ![p] = @ + MaxBatch + 1]
    /\ UNCHANGED <<req, pc, res, token, files>>

BatchDelete(p) ==
    /\ Doing(p, "batch") /\ next[p] < Len(req[p].keys) /\ BadKey \notin Batch(p)
    /\ bucket' = bucket \ {S3Key(k) : k \in Batch(p)}
    /\ next' = [next EXCEPT ![p] = @ + MaxBatch]
    /\ UNCHANGED <<req, pc, res, token, files>>

(* The request fails, or S3 reports errors for some of the keys; it has    *)
(* deleted none, some or all of the batch.                                 *)
BatchFails(p) ==
    /\ Doing(p, "batch") /\ next[p] < Len(req[p].keys) /\ BadKey \notin Batch(p)
    /\ \E gone \in SUBSET {S3Key(k) : k \in Batch(p)} : bucket' = bucket \ gone
    /\ Answer(p, "error")
    /\ UNCHANGED next

----------------------------------------------------------------------------
(* What was in the bucket while a call of several requests ran.            *)
Remember ==
    /\ always' = [p \in Proc |->
                    IF pc'[p] = "idle" \/ req'[p].op \in SingleOp THEN {}
                    ELSE IF pc[p] = "idle" THEN bucket'
                    ELSE IF pc[p] = "done" THEN always[p]
                    ELSE always[p] \cap bucket']
    /\ ever' = [p \in Proc |->
                    IF pc'[p] = "idle" \/ req'[p].op # "list" THEN {}
                    ELSE IF pc[p] = "done" THEN ever[p]
                    ELSE ever[p] \cup bucket']
    /\ removed' = [p \in Proc |->
                    IF pc'[p] = "idle" \/ req'[p].op # "batch" THEN {}
                    ELSE IF pc[p] = "call" /\ <<pc'[p], next'[p]>> # <<pc[p], next[p]>>
                    THEN removed[p] \cup (bucket \ bucket') ELSE removed[p]]

Init == /\ bucket = Foreign
        /\ req = [p \in Proc |-> NoReq]
        /\ pc = [p \in Proc |-> "idle"]
        /\ res = [p \in Proc |-> ""]
        /\ token = [p \in Proc |-> <<>>]
        /\ files = [p \in Proc |-> <<>>]
        /\ next = [p \in Proc |-> 0]
        /\ always = [p \in Proc |-> {}]
        /\ ever = [p \in Proc |-> {}]
        /\ removed = [p \in Proc |-> {}]

Step(p) ==
    \/ Call(p) \/ Return(p) \/ Cancelled(p)
    \/ Put(p) \/ Delete(p) \/ Missing(p) \/ Read(p) \/ Copy(p)
    \/ List(p)
    \/ AllDone(p) \/ InvalidKey(p) \/ BatchDelete(p) \/ BatchFails(p)

Next == (\E p \in Proc : Step(p)) /\ Remember

Spec == Init /\ [][Next]_vars

----------------------------------------------------------------------------
Listed(p) == pc[p] = "done" /\ res[p] = "ok" /\ req[p].op = "list"

(* Whatever others put and delete between two pages, a List that answers   *)
(* without an error has each immediate child that was there all the time,  *)
(* once: an object as a file, a common prefix as a directory.              *)
ListComplete ==
    \A p \in Proc : Listed(p) =>
        LET prefix == S3Prefix(req[p].prefix)
        IN  \A k \in always[p] : IsPrefix(prefix, k) =>
                Cardinality({i \in DOMAIN files[p] :
                               files[p][i] = FileInfo(Entry(k, prefix))}) = 1

(* What it has are children that were there at some time while it ran, and *)
(* the key of each file leads back to the object.                          *)
ListSound ==
    \A p \in Proc : Listed(p) =>
        \A i \in DOMAIN files[p] :
            LET info == files[p][i]
                inside == req[p].prefix \o
                            (IF req[p].prefix = <<>> THEN <<>> ELSE <<Slash>>)
            IN  /\ IsPrefix(inside, info.key)
                /\ Slash \notin Range(CutPrefix(info.key, Len(inside)))
                /\ IF info.dir
                   THEN \E k \in ever[p] : IsPrefix(Base \o Append(info.key, Slash), k)
                   ELSE info.key \in Key /\ S3Key(info.key) \in ever[p]

(* No entry is listed twice, not even one that was deleted and put again.  *)
ListedOnce == \A p \in Proc : IsInjective(files[p])

(* The batches go out in order: at any time of the call the keys already   *)
(* dealt with have been without an object at some moment since its start,  *)
(* all keys when it answers "ok", and what it took from the bucket is among *)
(* the keys up to the end of the batch at hand.                            *)
BatchesInOrder ==
    \A p \in Proc : pc[p] # "idle" /\ req[p].op = "batch" =>
        LET keys    == req[p].keys
            upTo(n) == {S3Key(keys[i]) : i \in
                            {i \in DOMAIN keys : i <= n /\ keys[i] # BadKey}}
        IN  /\ upTo(IF res[p] = "ok" THEN Len(keys) ELSE next[p]) \cap always[p] = {}
            /\ removed[p] \subseteq upTo(next[p] + MaxBatch)
=============================================================================
