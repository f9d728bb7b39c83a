# VireFS in TLA+

VireFS is a Go library that puts one interface, `FS`, in front of a local
directory (`LocalFS`) and an S3 bucket (`ObjectFS`), with helpers that walk,
copy and migrate over any `FS`, a mount table, hooks and a zip plugin. This
directory holds TLA+ modules translated from its source, the TLC
configurations that check them on small instances, and theorems that TLAPS
proves for all instances. `PROJECT.json` maps each definition to the lines it
stands for.

## Inventory

| part | state | operations | what is hard | what makes it correct |
|---|---|---|---|---|
| keys (`key.go`) | none | `CleanKey` | slashes, dots, leading dots; a key is cleaned, cut or joined, and cleaned again | rejects exactly what leaves the root; names the place a path walk reaches |
| interface and helpers (`fs.go`) | none | `Copy`, `BatchDelete`, `Exists`, Put options | optional interfaces found by type assertion; a fallback stops half-way | a helper does what the loop over `FS` calls would |
| local backend (`localfs.go`) | the directory tree | `Get Put Delete List Stat Exists Access Copy`, `NewLocalFS` | several system calls per method, shared by goroutines; failing readers and disks; process death | with `WithAtomicWrite` an atomic map; without it only overlapping or failed writers do harm |
| object backend (`objectfs.go`) | the bucket, remote | the same, `BatchDelete`, presigned URLs | lost answers, pages, batches | complete, sound listings; batches in order |
| mount table (`mount.go`) | prefix to `FS`, under an RWMutex | `Mount`, `Unmount`, `resolve`, all of `FS`, `Copy` | the lock is released before the call; `Copy` resolves twice; keys change on the way in, not on the way out | a call reaches a file system that was mounted while it ran; no deadlock through nested tables |
| walk (`walk.go`) | its call stack | `Walk` | a tree that changes, a callback that may do anything, cancellation | each entry once, nil means complete, termination |
| migrate (`migrate.go`) | counts | `Migrate` | check, read and write are three calls; two changing file systems | nil means all arrived; no file is lost but by a race |
| hooks (`hook.go`) | none | `WithHooks`, `Chain`, `BaseFS` | order of middlewares; optional interfaces hidden by a wrapper | `OnDelete` runs for exactly the deletes that succeeded |
| schema (`schema.go`) | its routes | `Resolve`, `RouteByExt`, ... | a prefix in front of one key may make another | injective, for routes by extension |
| S3 configuration (`s3config.go`) | none | `NewS3Client`, provider defaults | none: a table filled in once | - |
| zip plugin (`plugin/zip`) | the index of an archive | `FS` read-only, `Pack`, `Unpack` | entries with one key; implied and explicit directories; stopping half-way | reading and unpacking agree; `List` is complete; `Unpack` of `Pack` is the identity |

The parts interact by calls: `Migrate` calls `Walk` with a callback that
calls `Exists`, `Get` and `Put`; `Walk` calls `List`; `MountTable` forwards to
the file system it finds; hooks wrap one. Shared state is the directory tree,
the bucket and the table of mounts.

## Modules

| module | models | state and actions |
|---|---|---|
| `Keys` | `CleanKey` | a raw key is the sequence of pieces between slashes, extended piece by piece; `CleanKey` is `Trim`, `Clean` (the library's `path.Clean`) and the test of `key.go:23` |
| `Requests`, `FileStore` | what `FS` promises | the specification `LocalFS` and `Composition` are shown to implement: one map from keys to payloads; every call takes effect at one instant, an error changes nothing; at the keys in `Unsure`, of which `LocalFS` has none, it may hide the effect of that very call (`Lost`) |
| `LocalFS` | `localfs.go` | `tree` binds paths to inodes, `data` holds the chunks of each; a method is a series of system calls, one action each (`Open`, `MkdirAll`, `Create`, `CreateTemp`, `CopyChunk`, `Rename`, ...), with `pc` between them; `Crash` ends the process |
| `LocalFSHistory` | the same | history variables that record which files had overlapping or failed writers |
| `Walk` | `walk.go` | `stack` holds a frame per recursive call; `List`, `Check` (`ctx.Err`), `Visit`, `EndOfLoop`, and `CallbackReturns` for what the callback answers |
| `Migrate` | `migrate.go`, `Copy` of `fs.go` | extends `Walk` with the body of the callback: `Begin`, `Clear` or `Conflict`, `Get`, `Write`, `Fail`; the destination is a map from keys to files, whose directories are those above them: `Exists` answers true for both (`localfs.go:260-262`), and a file in the way makes a `Put` fail (`Blocked`, `CanPut`) |
| `ObjectFS` | `objectfs.go` | `bucket` is the set of keys with an object; one action per S3 request, which may fail after it was carried out; `ListPage`/`ListEnd` and `BatchDelete`/`BatchFails` for the loops |
| `Calls` | calls of `FS`, and the helpers of `fs.go` and `unpack.go` that make several | `cur` is the call a client is in, `stack` what is left when it returns: the rest of a loop, a hook's second half; `Copy` with and without a `Copier`, `BatchDelete`, `Unpack`. A base is a `LocalFS` with atomic writes or an `ObjectFS` (`BatchDeleters`). The `Copy` of a `LocalFS` opens the source (`CopyOpens`), cuts the destination (`CopyCreates`) and fills it in place (`CopyFills`), and a failure in between leaves it cut; an `ObjectFS` copies in one request (`CopyObject`), and may carry out a request whose answer is `Lost` |
| `Hooks` | `hook.go` | `Chain`, and a hook passes a call on (`Forward`) and finishes it (`HookReturns`): `WrapPut` puts a tag on the payload, `WrapGet` takes it off, `OnDelete` is an event |
| `RWMutex` | `sync.RWMutex`, as `mount.go` uses it | the readers, the writer and those it holds up |
| `Mount` | `mount.go` | `Resolve` (ask for the read lock), `Lookup` (read the map, release, pass the call on), `LockTable`, `Mount`, `Unmount`; `Copy` goes through `Lookup` twice |
| `Composition` | clients of all these together | `Call`, `Proceed`, `Finish`; history variables for the call made and the entries known to be unmounted |
| `Archive` | `plugin/zip` | pure: the index of an archive, `Get` and `List` over it, what `Unpack` puts, the archive `Pack` leaves |
| `Schema` | `schema.go` | pure: `Resolve` over routes by extension |

`Migrate` is a composition too: a walk, a callback, a source and a destination.
`Composition` puts everything else together. The modules whose name ends in
`Proofs` hold the theorems.

Definitions called "Variant with a mistake" belong to no specification. Each is
a plausible slip in the definition that follows it, used to see that a property
notices.

`LocalFS` and `ObjectFS` take keys as `CleanKey` leaves them. A key function
is applied before the model's keys begin (`LocalFS`) or is the identity
(`ObjectFS`). `Walk` sees a file system as a tree other clients change in
atomic steps: what `LocalFS` with atomic writes, and no `Copy`, is proved to be.
In `Calls` a `Get`, `Put` or `Delete` of a base is one step for that reason, or
because it is one request. `LocalFS.Copy` is none of that: it ignores
`WithAtomicWrite`, so `Calls` has it in steps.

## What the runs show

| run | instance | checks |
|---|---|---|
| `keys` | 2 ordinary names, 1 with leading dots, raw keys to 6 pieces; archives of 2 such names; a schema of a route by extension and a default route | acceptance, the place named, and that cleaning commutes with the cuts of the mount table and the joins of `Walk` and `Unpack`; over every archive, reading and unpacking agree, `List` shows each child, what `Pack` made or began unpacks to what was packed; a schema keeps keys apart |
| `localfs_atomic` | 2 clients, keys `""`, `d`, `d/f`, payloads of 2 chunks, 4 inodes, all calls but `Copy`, 1 crash or failed removal | files stay whole; **the file system implements `FileStore`** |
| `localfs_mixed` | 2 clients, two files, atomic `Put`, `Get`, `Delete`, and `Copy` both ways, 4 inodes, 1 crash or failed removal | types; temporary files are private to their Put, and removed, though `Copy` opens and truncates the same files |
| `localfs_plain` | 2 clients, two files, `Put`, `Get`, `Delete`, `Copy`, 3 inodes, 1 crash, no atomic writes | a file without overlapping, failed or crashed writers holds what its last writer set out to store, and a `Get` that met no such file returns a whole payload |
| `localfs_self_copy` | 1 client | *violated*: `Copy` of a file to its own key empties it |
| `walk` | 20 initial trees of up to 5 entries, 2 concurrent changes, cancellation | no entry twice, none below a skipped directory, nil means complete, it stops soon after a cancellation and always ends |
| `walk_mount` | a mount with files three levels down | *violated*: `Walk` returns nil without visiting them |
| `migrate` | 2 files at different depths, 3 policies, dry run or not, keys as names or as files in directories, 3 key functions (apart, to one key, one below the other), 1 change to the source, 1 to the destination | nil means everything arrived; counts are true; nothing else changes; only a race overwrites |
| `migrate_dry_run` | as `migrate`, no changes | *violated*: the counts of a dry run, where two files go to one key |
| `objectfs` | 2 clients, 4 keys and a foreign object, pages of 1 or 2 entries, batches of 2 keys | listings are complete, sound and free of duplicates; batches go in order |
| `composition` | 2 clients; a `LocalFS` with two coding hooks, a plain one, an `ObjectFS`; a table over the first two under a third hook, which a client mounts in itself while the other calls through it; Copies within a `LocalFS`, through the table and past it, and a `Delete` of what they fill (170,708 states) | helpers do what they were asked to, in order, and report it; every payload a base holds decodes, one cut short by a `Copy` included; what is unmounted is unreachable; no lock is held across a call; **the whole implements `FileStore`**, but for the keys a `Copy` within a `LocalFS` may fill and the `ObjectFS` whose `BatchDelete` a client calls; every call returns |
| `composition_objects` | 2 clients of two `ObjectFS`, one under a coding hook, one bare, both in a table; `Put`, `Get`, `Copy` within one and from one to the other, a loop of Deletes; any answer may be lost (34,207 states) | **the whole implements `FileStore`** at every key of both: a native `Copy` takes effect at one instant, and an error leaves open whether its own call did, and nothing else; helpers keep their order when an answer is lost |

### The disagreements found

- `LocalFS.Copy` onto its own key truncates the source before reading it and
  reports success (`localfs.go:308-325`).
- `Walk` over a `MountTable` loses directories two or more levels below a mount:
  listed keys lack the mount's name, and the join in `walk.go:44-46` doubles the
  part in between. A prefix with a trailing slash meets the same join.
- A dry run does not see conflicts between the files it would copy.

Also read, and not the subject of a run: `ErrSkipDir` from a callback about a
file or a failed listing is returned by `Walk` (`walk.go:30`, `walk.go:51-52`),
which the comment at `walk.go:10-11` rules out; `LocalFS.Copy` ignores
`WithAtomicWrite`; `Exists` answers with an error, not `false`, when a file is
in the way of the key; `Walk` does not call the callback for its prefix, though
its comment says so; `CleanKey` rejects names like `..data`; a `WithPrefix`
without trailing slash makes `List` look elsewhere than `Put` writes; `Pack`
closes the archive after an error too, so half an archive opens, and the entry
that failed is in it; an archive with entries for its directories makes
`List` show them twice, and `Stat` and `Exists` do not find a directory that
has no entry.

### Bounds

Two clients are enough for every pair of methods to interleave, and each
property of `LocalFS` relates two actors: a writer and a reader, a writer and a
writer, a writer and a `Delete`. Three nested keys give a key every role, file,
directory and missing parent. Payloads of two chunks can be cut and mixed.
`MaxFaults = 1` lets one crash, or one failed removal, fall between any two
steps. Two changes under a walk can empty a directory and remove it, or replace
it by a file. Pages of one entry put other clients' requests between any two
entries.

In `composition` one client goes through the table while the other mounts,
unmounts, copies, deletes and unpacks: every pair of those can interleave, a
table is reached through itself, and a call can find its way changed at each
level. One payload suffices, and one that is cut short, as a base stores it
under the tags of the hooks it came by. The two clients make different calls,
which keeps the run short. In `composition_objects` the same two keys are
written, copied, read and deleted from both sides, and two payloads tell a late
effect from an early one.

An archive of two names has every relation two entries can have: the same key,
one below the other, a file and a directory of one name, an unclean name.

Symmetry is used for clients and inodes, and only where safety is
checked. Runs that may stop (a walk that has returned, keys at `MaxLen`) say
`CHECK_DEADLOCK FALSE`; the others run for ever.

### Fairness

`Walk`: weak fairness of its own steps and of the callback's return. Walk runs
in its caller's goroutine without locks, so it goes on whenever listings and
callbacks return; clients and cancellation are not fair. `Terminates` needs no
bound on the depth but the tree's own.

`Composition`: weak fairness of each client's steps once it has made a call, as
a goroutine that can run does; strong fairness of `LockTable`, because a
`sync.Mutex` hands itself to a waiter in the end, though others take it again
and again. Nobody has to make a call. `EveryCallReturns` follows although a
table is mounted in itself: a read lock held across the call would deadlock
with a waiting `Mount`.

## What is proved

`LocalFSProofs`, for every tree of keys, any number of clients, inodes, chunks
and calls, under the named assumptions of `LocalFS` and `Requests`:

- `TypeCorrect`: `Spec => []TypeOK`. The invariant `TypeInv` adds what a handle
  may be at each `pc`: a call that reads or writes has one open, a Put with
  atomic writes has a temporary file until it closes it.
- `PrivateTemps` and `TempsCleanedUp`. `TempInv` says who is alone with what:
  each call in the middle of an atomic Put has its own temporary path, bound to
  its own inode, which no other path names and no other call has open.
- `FilesAreWhole`: with `WithAtomicWrite`, and clients that do not call `Copy`,
  `Spec => []WholeFiles`. The property is not inductive: a rename publishes
  whatever the temporary file holds. `WholeInv` adds `Progress`: the temporary
  file of a Put holds exactly the first chunks of its payload, as many as the
  call has moved; and that then no call writes to an inode a key names.
  `Copied` at the rename makes the prefix the whole.

- `ImplementsFileStore`: `AtomicPuts` and no `Copy` imply `Spec => ActsAtomically`.
  `StoreInv` adds what a reader knows: the inode it has open holds a whole
  payload, of which it has the first chunks, and no writer has that inode. Then
  each step of `LocalFS` is one of `FileStore` (`Rename`, `os.Open`, `os.Remove`,
  `os.Stat`, and the return) or a stutter.

`LocalFSHistoryProofs`, on top of it, for any mix of Puts, atomic or not,
Copies, Gets, Deletes and crashes: `FilesKeepTheirPayload` and `ReadsAreWhole`.
`HistInv` says of each file that is not dirty, and each call that is not mixed,
what holds between two steps. The one writer of a clean file has put there the
first chunks of what the file is due, all it has moved (`WritesClean`); the file
a clean reader has open is clean, nobody writes it, and it holds what it is due
(`ReadsClean`), of which the reader has the first chunks (`Holds`). `Copy` is both
at once: that what it reads stays as it was when it truncated its destination
is `ReadsClean`.

`CompositionProofs`, for any bases, hooks and tables, nested in any way, any
number of clients and any calls:

- `NoLockAcrossACall`. `LockInv` adds that a client is at the door of one table
  only, and reads or waits, not both.
- `UnmountedStaysUnreachable`. What makes it true is where the call stands: as
  long as it is the client's own call to the table, it has stored and deleted
  nothing; and entries certain to be gone stay so, as a client that mounts one
  takes it off that list when it calls. `UnmountInv` also has to follow
  the stack, to know that no call turns into a `Mount`.

Also there: `StoredDataDecodes`, which is `EverythingDecodes` for
any middlewares in any order, if nobody goes past a hook that codes and none is
around a table (`ThroughHooks`: without that a client could store what a hook
above does not decode, and a table hands a hook below it another key). A call on
level `n` of a base carries data that the middlewares beyond `n` have coded
(`Suits`), and whoever waits for its answer takes what such a call returns
(`Answering`): a hook with `WrapGet`, or a `Copy` that goes on with a `Put`.
`WrapPutSuits` and `WrapGetSuits` say that a hook leads from one level to the
next; `StackSound` that a helper is at the bottom of the stack and hooks are above
it. `DataInv` carries that, and `UnmountInv` under it, through every step.

`OrderProofs`, on top of it: `CallsKeepTheirOrder`, which is `StepsInOrder`. What a
client may expect to happen is a function of the composition, `Way`, which follows
a call from stop to stop; that it is one, and comes to an end, is by induction
over the length of the key and the level of a hook (`StopInduct`, `WayIs`), and
gives what happens at a base, a hook and a table (`AtBase`, `AtHook`, `AtTable`).
The invariant, `OrderInv`, says what is still to come: `Owed` by the call at hand,
`OwedBy` each frame of the stack, and that with what has happened it makes up the
script (`OrderAt`). A hook that forwards a delete splits what the delete owes into
the inner one and its own `OnDelete`; a loop owes what the calls it has left owe
one after the other; a table that looks up an entry nobody changes finds what
`Way` does (`Steady`); a failure leaves something owing.

Also there: `CompositionIsOneStore`, that `Composition` implements `FileStore`, under
`ThroughHooks`. The keys of that store are the places in the bases (`Places`), but for
two kinds, of which no backend of the repository makes it true: the keys at which
some client's `Copy` within one `LocalFS` may end (`Overwritten`; the file is cut,
then filled, so there is no one instant), and those of an `ObjectFS` on which a client
calls its own `BatchDelete` (no single call of `FileStore`). What happens there is
still among the steps, and shown not to touch the rest. What the store shows at
a place is the payload beneath the tags of the hooks (`Contents`); a call waits at
the place its key leads to while that is certain (`Waiting`), and its answer is
what the hooks still on the stack will make of it (`Answered`, `Unwrapped`). So:

- a hook that passes a call on, a lock that is asked for and a table that finds
  what `Way` says do not move a call from its place (`PlaceAtHook`, `PlaceAtTable`,
  `ForwardEffect`, `LookupEffect`): the store does not notice;
- a base that answers is the one step at which the store changes or is read
  (`GetEffect`, `PutEffect`, `DeleteEffect`, `CopyEffect`), whether the answer comes
  back or not; a `LocalFS` in the middle of a `Copy`, and a batch, change nothing that
  it shows (`LocalCopyEffect`, `BatchEffect`). What a `Get` finds comes
  out of the hooks as what was put (`UnwrappedIsPayload`, from `DataInv`), and each hook
  on the way back does its part of that and no more (`UnwrappedPop`);
- a `Get` meets only hooks that are in a `Get` themselves, the outermost of which its
  client may be given, a native `BatchDelete` is one a client called, and a `Copy`
  within one file system got nowhere but where some client's may (`Straight`,
  `Allowed`, and `MountsKnown`, that tables lead only to what was mounted; these the
  invariant adds);
- a call is new to the store when its way becomes certain, and done when it is back
  with its client, its loop or its `Copy` (`Comes`, `Leaves`).

A call whose way is not certain, because clients mount and unmount on it, is new to
the store once it is past such an entry; before that it has done nothing.
`StoreAssumption` says that "no file" is not a payload, and "no call" not a call.

`KeysProofs`, for keys of any length and archives of any size (`Keys`, `Archive` and
`Schema` are functions of their inputs; TLC compares them with their reference
definitions on small ones):

- `CleanKeyRejects` and `CleanKeyNamesPlace`. The loop of `path.Clean` keeps what
  the reference walk would (`KeptIsPlace`): once the walk has been above the root
  the first piece kept is "..", until then the n-th piece kept is the one that
  named the n-th level of the walk.
- `CleanKeyCommutes`: what `CleanKey` returns is a fixed point of it, and cutting
  and joining clean keys gives clean keys (`KeptConcat`, `TrimKept`).
- `ReadingMatchesUnpacking`, `PackingIsUndone`, `ListingIsComplete`: `New`, `Unpack`,
  `Pack` and `List` of the zip plugin agree on the last entry with a name.
- `SchemaKeepsApart` and `SchemaSeparates`: `Resolve` puts a prefix in front of a
  key, so the last segment survives; it alone picks the route, so both keys had
  the same.

`CleanPieces` and the levels of the walk are recursive functions. That such a
function satisfies its equation is itself proved: by induction over sequences
(`SeqInduct`), in the form that a set of naturals has a least element, as an
induction rule with an operator for its parameter is beyond the provers.

`ObjectFSProofs`, for any number of clients, page and batch sizes, alphabet,
base prefix and clean keys, and any failures:

- `DeletesInOrder`. `BatchInv`: up to `next` every key has been without an object
  since the call, beyond the batch at hand none was removed by it.
- `ListsAll` and `ListsOnce`. `ListInv`: the results were made of an increasing
  sequence of entries, none after the token; each is the entry of an object there
  was, and an object that was there all the time has its entry in the sequence or
  after the token. It needs that the order of strings is one (`LessIsOrder`),
  what an entry looks like (`EntryOfKey`, `ChildEntry`), and that two entries
  never become the same result (`InfoInjective`).
- `ListsOnlyChildren`, for key functions that give keys and are idempotent: with
  another one the key of a result, put through it again, names another object.

`WalkProofs`, for every tree, any changes to it by others, any callback, but not
over a `MountTable` (`~Mounted`: there `Complete` fails, see `walk_mount`):

- `VisitsOnce` and `SkipsWhole`. `WalkInv` gives each frame of the recursion the
  part of the tree it is still to visit, says that these parts are disjoint
  and that nothing in them has been visited or skipped.
- `NilIsComplete`. `CoverInv` adds that an entry that nobody touched, and that is
  still wanted, has been visited or belongs to such a part.
- `CancelStops`. `LateOK` bounds the callbacks that are still to come by where
  the innermost frame stands.

`MigrateProofs`, for every key function, policy and interference, `~Mounted`. A
migration is a walk with a particular callback, so `WalkInv` and `CoverInv`
hold of it; to them is added what the destination holds for a file before its
callback, in each of its steps, and afterwards.

- `OnlyTargetsChange` and `OnlyRacesLose`, by `MigrateInv`.
- `MigratesAll` and `CountsAreTrue`, by `DeliveryInv` and `CountOK`: a file that has
  been visited and that nobody touched is at its destination, or the callback
  is on its way there; the counts are the sizes of the sets of those files.
  `MigratesAll` holds where `ConflictSkip` kept nothing that was there before, a
  directory included, and for files alone on their way (`Alone`): with a key function
  that sends `e/g` to `f/x` and `f` to `f`, `Exists` answers true for the directory
  `f`, and the second of the two is skipped though no file is there.

The theorems assume what the modules' `ASSUME`s say and the hypotheses named
above (`AtomicPuts`, `~Mounted`, `ThroughHooks`), and nothing else; TLC evaluates
the `ASSUME`s and `ThroughHooks` in the runs. Only model-checked: liveness
(`Terminates`, `EveryCallReturns`), as the prover does not handle fairness. Every other
property of a passing run is a theorem.

## Assumptions and what is left out

- A crash is the end of the process. The page cache survives; nothing is said
  about power loss (the code never syncs).
- Temporary names do not clash with keys (`Key \cap Temp = {}`), a read of an
  open file does not fail, one read or write call moves one chunk atomically, and
  a reader that panics in the middle of a Put is not modelled.
- Other programs do not change the directory or the bucket's prefix.
- An S3 request has its effect between the call and its answer or its failure,
  not after; objects with a trailing slash, which other tools make, do not occur.
  Neither does an object at the root key `""`; a key function gives clean keys.
- `List` of `LocalFS` is one step, in `Walk`. `Access`, presigned URLs, content
  types, metadata, sizes and times change no state and are left out, as is the
  progress callback of `Migrate`.
- In `Calls` a `LocalFS` has atomic writes, and a call that fails on it has no
  effect but what a `Copy` has cut; a request to an `ObjectFS` that fails has all of
  its effect or none, a batch any part of it. `LocalFS.Copy` moves its payload in
  one step: what a reader may see of the file before is `Cut`, any part of it. Where
  two Copies fill one file at once, the first to finish decides; their mixtures are
  the subject of `LocalFS`. `ActsAsOneStore` speaks of no key such a Copy fills.
- `Stat`, `Exists`, `Access` and `List` of a table or a hook find their way as `Get`
  does and change nothing; they and `BaseFS` are left out, and so is
  `AfterStat`. A hook's `WrapPut` and `WrapGet` are inverses, for one key.
- A base in `Calls` takes the keys in `Sub`: a call with another key fails.
- Prefixes of routes end in a slash, as the repository uses them; `RouteByExt` does
  not enforce it, and a default prefix `a.` would send `jpg` to where another route
  may leave `a.jpg`.
- `Pack` fails or is cancelled between two entries or within one; that the zip
  writer or its `Close` fails is left out.
- Routes match extensions. `RouteByFunc` may match on anything, prefixes it added
  included, and then keys are not kept apart.

## Not modelled

- S3 configuration: a table of providers' defaults, filled in once before any
  call; no state, no order, nothing to interleave.
- `Migrate` between two prefixes of one file system: `Walk` may then list what
  `Migrate` has just written. Source and destination are two variables here.
- Examples, benchmarks, tests and CI are not part of the program.

## Plan

What would add most from here:

1. `Migrate` within one file system, with the listing that meets its own writes.
2. A `FileStore` with a call for a whole batch, for the bases that have a
   `BatchDelete` of their own, and one with a `Copy` in steps, which `LocalFS.Copy`
   would implement.
3. `ObjectFS` shown to implement `FileStore` with its `Unsure` keys, as `LocalFS`
   does the one without.
