# A TLA+ model of weaveFS

weaveFS stores versioned files on one node and keeps encrypted copies of them
with its peers. This directory models what the program does when several
goroutines, nodes or processes are at work at once and when something fails in
between: the version store, the file servers that talk to each other, the bytes
they exchange, the processes that share one node directory, and the client
commands and the API that answers them. TLC checks the models on small
instances; TLAPS proves most of the safety properties for every instance.

Paths such as `store.go:452` are below `src/internal/<package>/`, except
`main.go`, `commands.go` and `client.go`, which are in `src/cmd/weavefs/`.

## The system

```
 weavefs put/get/send/rm ...        (client commands; find the node by api.addr)
        | HTTP on the loopback
   internal/api          one goroutine per request
        |
   internal/server       FileServer: calls out (StoreVersion, GetVersion, Share)
        |                and answers streams (handleStore, handleGet, handleShare)
        |  \____ libp2p streams ____ the FileServer of another node
   internal/store        version indexes, blobs, a lock per key
        |
   files of one node directory (internal/fsutil, internal/crypto, internal/node)
```

| Component | State | Operations | What is hard | What makes it correct |
|---|---|---|---|---|
| Version index (`store/version.go`, helpers of `store.go`, `raw.go`) | list of entries, latest | number, append, replace in place, prune, remove, resolve | an older version that comes back, limits, removal of the latest | each id once, latest listed, limit respected |
| Version store (`store/store.go`, `raw.go`) | index files, blob files, an RWMutex per (node, key) | WriteVersion, WriteVersionRaw, ReadVersion, VersionInfo, ListVersions, DeleteVersion, Delete, RollbackTo | index and blob are two files, saved one after the other; streams outlive their lock; RemoveAll of a hash prefix | no update lost, no version listed without its bytes, keys independent |
| File server, calling side (`server/server.go`) | none but its calls | Store, StoreVersion, StoreLocal, Get, GetVersion, Share, Delete, Disconnect | fan-out, fetch into one's own store, lost replies, a connection dropped on request | what is reported as stored is stored; a lost version can be fetched back |
| File server, handlers (`server/handlers.go`) | none but its streams | handleStore, handleGet, handleShare | a body is stored and indexed before its length is checked; locks held while reading the network | no short replica reported, no lock left behind, bytes under the right node's key |
| Authorizer (`server/authorize.go`) | none | AllowStore, AllowGet, AllowShare | nothing: AllowAll | |
| Protocol (`proto/`) | none | WriteMessage, ReadMessage: frames of a length and JSON, then a raw body | reads that return any part of a frame, a limit, streams that end or are reset, three different lengths of one file | messages and bodies arrive whole or fail; neither end waits for ever |
| Client API (`api/`) | listener, api.addr | put, get, share, delete, versions, id, disconnect | a loose-file share is two calls; stopping with requests in flight; a client that goes away in the middle of its body | found while up, not found once closing; what was begun is answered |
| Keys and identity (`crypto/key.go`, `node/identity.go`) | two key files | load or create | two processes, a crash while creating | one key for the life of the directory |
| Atomic files (`fsutil/atomic.go`) | path and path.tmp | WriteFileAtomic | one sibling name for all writers | readers see whole files |
| Cipher (`crypto/aes.go`) | none | EncryptWriter, DecryptReader | a header before each blob, files from before encryption | what opens is the file |
| libp2p host, discovery (`node/`) | connections | New, Peers, Close | peers come and go | |
| Commands (`cmd/weavefs`) | aliases.json, the output file of get | serve, id, demo; put, get, send, ls, rm, disconnect; alias, aliases | a node that is gone, dies or stops under a command; aliases.json is rewritten in place | what a command reports is what has happened |

Components talk by direct calls (API to FileServer to Store), by streams
between two FileServers, and through files (the store's, the keys, api.addr).
Nothing else is shared.

## The modules

| Module | Models |
|---|---|
| `VersionIndex` | the pure operations on the index of one key |
| `VersionLog` | the abstract specification of a store: each operation changes one key's index in one step |
| `Store` | the store of one node, step by step |
| `FileServer` | the file servers of several nodes and the streams between them |
| `Custody` | the abstract specification of replication: who holds whole copies of what, and which of them a caller was told of |
| `Wire` | one exchange between two nodes, byte by byte: frames, bodies, counts, the cipher's header |
| `Commands` | the client commands, the API's handlers, and the node's runs |
| `DataDir` | the processes that share a node directory |
| `MCStore`, `MCFileServer`, `MCCommands` | values for TLC: path prefixes, where the clients are and what they do, symmetry |
| `VersionIndexProofs`, `StoreProofs`, `WireProofs` | theorems about the modules of those names |
| `FileServerProofs`, `ContentProofs`, `CustodyProofs` | theorems about `FileServer`: types, locks and keys; which content travels; replicas, the refinement, and what a get finds |
| `DataDirProofs`, `CommandsProofs` | theorems about `DataDir` and `Commands` |

`Store`, `FileServer` and `Commands` all extend `VersionIndex`, so they compute
indexes with the same operators. Each module takes the layer below at the grain
that the layer's own module justifies: `FileServer` and `Commands` use the store
as `Store` shows it to work (below), and `FileServer` a stream as `Wire` shows it:
a body is taken whole, or the receiver knows that it is short. Definitions named as functions of the code model those
functions. A definition whose comment begins "Mutant of" is a variant with a
bug; no specification uses it. Each is what a plausible slip in the code would
be, and makes the property it is listed with in `PROJECT.json` fail.

### Store

`index[k]` and `blob[<<k, id>>]` are the files, `holder[k]` the write lock,
`call[t]` what goroutine `t` is doing. A blob counts blocks of some content; the
entry's `data` stands for its SizeBytes and, as a ghost, for whose bytes they
are. A method of the write lock goes through

    Acquire + loadIndex  ->  CreateBlob  ->  CopyBlock*  ->  FinishBody
                         ->  RemoveBlob* (pruned or deleted blobs)  ->  SaveIndex

and `CreateFails`, `CopyFails`, `RemoveFails`, `SaveFails` are its error returns.
`Crash` may fall anywhere. A section under the read lock changes nothing and
excludes writers, so it is one step (`Open`); the stream it returns is read
later (`ReadBlock`), and is tied to the file and not to its name (`Detached`).
`saveIndex` is one step because WriteFileAtomic ends in one rename and the key's
lock keeps other writers away from its sibling file. `RollbackTo` is `Open`
followed by a write of the stream; `asked` is the id it was called with, which its message
names. In `Ops`, `RollbackLatest` stands for a `RollbackTo` with the empty id, which rolls
back to the latest and whose message names no version; of the runs, `StoreFaults` has it.
`SaveFails` is also what a failed removal of the index in `Delete` comes to (store.go:295): the
error is dropped, the blobs are gone and the old index stays.

`UnderRoot` is what `os.RemoveAll` of the five-digit prefix takes away; the
constant `FirstPathName` says which blobs share one. Most runs take the prefixes
to differ; `StoreCollision` does not.

Ghosts: `history` (every entry ever minted) and `atRisk` (listed versions whose
blob a call that has not saved since set out to delete or to write again).

### FileServer

`index` and `blob` are kept per shelf `<<n, o, k>>`: what node `n` keeps of key
`k` in the namespace of node `o`. `call[c]` is the client's call, `xfer[c][p]`
the stream between it and peer `p`, with both of its ends: `open` (source not
yet read), `info` (only in a get: metadata read), `ready` (size promised), `recv`
(the receiver holds the lock `writer[s]` of the shelf and copies), `check`
(indexed, lock released, length about to be compared), `good` or `bad`, `end`.
A put fills the peer's custodian shelf from the caller's blob, a share the
peer's own shelf, and a fetch the caller's own. A get takes the lock twice, for Has
(`GetVersion`) and for ReadVersion (`ReadHere`), before it asks peers. What each client calls is a
constant (`Ops`), so that a run has the calls its question is about.

A store call with no network in it is one step: `Store` shows that such calls
exclude each other per key and take effect one at a time. A store call that
copies a body from a stream is not: `Receive`, `Block` and `FinishBody` are its
parts and other actions come in between.

Faults: `net` (streams break at either end, replies are lost), `peers` (peers come
and go), `short` (a sender half-closes early), `crash` (a node dies and restarts
on its disk). A broken push is failed for the caller (`GiveUp`) and goes on, or
breaks too (`Break`), at the receiver. `Disconnect` is no fault but an operation:
it breaks every stream between two nodes at once.

`Custody` keeps three things: `made` (the versions of each file), `held` (the whole
copies, and at which node) and `told` (the copies a caller was told of). Only a
node's copies of its own files can be lost, and only a held copy can be told. The
refinement mapping takes `made` from `history`, `told` from `confirmed`, and `held`
from the shelves: a copy is held where the version is listed and its blob has the
content and the length its entry says, under the owner's key.

### Wire

`in[e]` holds the cells (a byte each) that end `e` has not read, `eof` and `reset`
what can become of a stream. Each end has a record `end[e]` and does the steps of its
function in the order `Script` lists: sendBlob against handleStore, sendReadable
against handleShare, fetchBlob against handleGet. `ReadFull` takes any part of what
has come; `Take` is the copy through countingReader and LimitReader. `Open` gives the
cells of the file, sealed or not (`Encrypted`, `Decrypted`), and `Announced` the
length the header names: for a push or a get, what os.Stat finds on disk. `Break` is a
connection that breaks or a deadline; a file may be cut short before it is opened
(`Cut`) or under its sender (`Send`), as module `FileServer` shows it can be.
The bytes of JSON are cells that only decode together. The ghost `trouble` is set by
what may make an exchange fail.

### Commands

`cmd[q]` is a command process, `req[q]` the connection and the handler at its other
end. A command reads api.addr (`Start`), dials (`Dial`), sends its body block by block
(`Upload`), reads the status (`ReadHead`) and, for a get, creates the output file and
copies (`CopyBody`). It may be interrupted at any point (`GiveUp`), which is also how
its timeout ends it. A handler that receives a body holds the key's lock from
`TakeLock` to `Commit` or `BodyBreaks`. `Serve` starts the next run of the node;
`RemoveAddr`, `CloseListener`, `Drained` (or `ShutdownTimeout`) and `Exit` are its
shutdown, in the order the deferred calls run, and `Kill` ends it anywhere.
`LoadAliases`, `OpenAliases`, `WriteAliases` are the steps of `alias`. Ghosts: `past`,
`removed`, `rough` (runs that did not stop in good order), `named`, `tidy`, and `did`
in a command's record.

### DataDir

`link` and `data` are names and inodes; `proc[p]` a process between two system
calls. `serve` and `id` both run startNode (identity.key, then encryption.key);
`serve` then publishes api.addr. Any process may be killed anywhere and started
again. Clients read the address and dial it. The ghost `overlapped` remembers
whether a process ever started while another was starting.

## The runs

Passing runs check deadlock too, but for `Commands` and `Wire`, whose commands and
exchanges are meant to end.

| Run | Instance | Question |
|---|---|---|
| `StoreFaults` | 1 key, 2 goroutines, 3 versions, limit 2, all faults | Do the indexes stay well formed and complete, is no update lost, is the proofs' invariant an invariant? |
| `StoreReaders` | 2 keys, 2 goroutines, readers and rollbacks, no raw writes, no faults, fairness | Do streams deliver their version whole although it is deleted or pruned? Do numbers grow? Does a call keep to its key, leave every listed version complete, and return? |
| `StoreCollision` | the same, one prefix for all blobs | violated: deleting removes another key's blob |
| `ServerShares` | 2 nodes, a caller on each, 3 versions, all faults | Do entries, owners' keys, placements and replicas agree across nodes, is each lock given back, is `Custody` implemented? |
| `ServerCustody` | 3 nodes, two callers at one of them, no faults | Is a lost version found wherever its replica is? |
| `ServerCalls` | 2 nodes, a caller on each, disconnects, fairness | Can nodes that serve each other deadlock? |
| `ServerMeta` | 2 callers on one node | violated: metadata of one version, blob of another |
| `ServerRestore` | 3 nodes, three callers at one of them, `net` | violated: a truncated blob is confirmed as a replica |
| `DirProcesses` | a serve, an id, a client; each process started twice | Is the key stable, are files whole, is the node found? |
| `DirTwoStarts` | a serve and an id, once each | violated: two keys when first starts overlap |
| `Commands` | 2 commands, a node run twice at most, 3 versions of a key | Do commands report what has happened, whatever becomes of the node or of them? |
| `Wire` | each protocol; files of 0 to 2 bytes, header 2, messages of 1 to 3 of at most 2 | Do framing and counting deliver whole or fail, and end? |

**Bounds.** `VersionIDs` bounds the versions ever made (`SpareIds`, `Room`);
three suffice for pruning to drop one of several and for an older version to
come back behind newer ones, two for anything that races two versions. One
block of body gives an empty, a partial (created, not copied) and a complete blob;
a stream is caught before, between and after by that. Two goroutines
are enough for every pair of calls; the lock properties are proved for any number.
A FileServer client waits for the handlers its streams left behind before it
calls again (`Forget`), while the other client overlaps them. In the code nobody waits: a
caller that goes on at once is one more client of the same node. `ServerShares` needs
three versions: a sender with two, and a third for the recipient. Its owner also
puts, fetches and deletes, its peer shares loose files back and disconnects; other
calls of the peer are the same by symmetry of the nodes, and are in `ServerCalls`.
`ServerRestore` needs the third caller: one pushes, and two restore. `MaxRuns` bounds
the starts of a process. MaxVersions is 0 in the server runs, which is what the
program uses; the store runs set it. In `Commands` each process runs one command, as
in the shell, on an empty file or one of one block; a version is committed while an id is
left (`Known`); one of them changes the key and the
other is of any kind, which gives every pair of a change and another command. The key may hold a version
from an earlier run, and the address file of that run may still be there; alias
commands, which touch nothing the others touch, run in behaviours of their own. Each run of
a node has a port of its own: with a fixed `-api` port, or a port that another program
has got since, a stale api.addr may lead to another listener, which neither `Commands` nor
`DataDir` has. In
`Wire` a message may be over its limit by one, a file empty, and a body shorter or
longer than a frame; at most two cells of a body are on their way (`Window`).

**Fairness.** The scheduler runs every goroutine that can go on: weak fairness of
`Step`, and strong fairness where a goroutine waits for a lock others also take
(`RollbackWrite`, `Transfer`, `Proceed`), because sync.RWMutex blocks new readers
once a writer waits and hands the lock on. A stream with one end gone is broken
at the other by its deadline (server.go:336, 501, 615 and the handlers'). Nothing
is assumed to begin, and no fault is assumed to happen or to stop.
In the store, bodies end: they are finite, or their reader fails. `Commands` says why
for the program's own clients: nothing is assumed of a command but that its timeout
ends it (client.go:25), handlers are scheduled and get their locks (strong fairness),
and a shutdown that has begun goes on. An HTTP client of another kind that never
ends its body would keep a key locked (api has no deadline). `Wire` assumes that
each end goes on and that what is sent arrives. A sender whose peer has returned goes
on or fails, which libp2p sees to, or else the deadlines the code sets (server.go:336, 501,
615, and the handlers'); no other step leans on them.

## What the runs show

* No update is lost and every index is well formed, whatever fails
  (`ImplementsVersionLog`, `IndexesOK`).
* A version in the index has its bytes, unless a later call set out to delete or
  rewrite just that blob and did not finish (`ListedVersionsComplete`). The
  exception is real: a delete removes the blob before it saves the index, and a
  restore truncates it, whatever then becomes of the copy.
* A stream, and RollbackTo, get the whole version they opened (`ReadsComplete`,
  `RollbackFaithful`). This holds for keys of which no version is written a second time.
* A replica counted in PeersStored stays, whole, under its origin's key, through
  lost replies, short streams, crashes of either side and the origin's own
  Delete (`ConfirmedReplicas`), and can be fetched back (`GetFindsReplica`). More is
  true of two callers: file servers implement `Custody`, so that replicas are never
  told before they are whole and never lost after. With three callers at a node they
  do not (`ServerRestore`).
* A placement reported by Share is a version the recipient owns, with the whole
  content of a version the sender had of that key (`ShareFaithful`).
* Locks held while the network is read deadlock nobody (`EveryCallEnds`) and are
  given back when streams break (`LocksOwned`).
* Frames and bodies arrive as they were sent, in whatever pieces, or the exchange
  fails (`KeptWhole`, `OkMeansKept`); it fails only for a cause (`FailsForCause`); and
  neither end is left waiting (`ExchangeEnds`): the half-closes and the deferred Close
  tell each reader that nothing more comes, before any deadline. What arrives is the file as
  it was when its length was announced: if a restore had cut it short by then, the receiver
  keeps that (`ServerRestore`).
* A command that reports success has done what it says, and a get that does has
  written a whole version (`OkMeansStored`, `GetWholeOrError`). "No node is running" is
  said only when nothing was done (`NotRunningMeansNothingDone`): a connection lost
  later has an error of its own, after which a put may have taken effect. Stopped
  by a signal, a node answers what it has begun (`GracefulStop`); killed, it loses no
  committed version (`VersionsWholeAndKept`). A command that is interrupted, or stalls
  until its timeout, leaves no half version and no lock (`HandlersEnd`).
* One process at a time may be killed at any system call and the directory keeps
  its key (`KeyStable`); starts that overlap are only a danger while the file is
  being created (`SettledKeysStay`).

### Where the code and its comments part

* `StoreCollision`: deleteVersionBlob removes a prefix directory, not "a single
  version blob" (store.go:450). Two of a node's n blobs share a prefix with
  probability about n*n/2^21.
* `ServerMeta`: a GetResponse's Meta may describe another version than "the blob
  that follows" (messages.go:153).
* `ServerRestore`: "a truncated blob must not be recorded as a good replica"
  (handlers.go:77), and is. A put is pushing a version, which is deleted and fetched
  back by two gets at once; the second truncates the blob the first has restored
  (raw.go:100) and breaks off. The index still lists the version, so the push to the
  next peer takes its length from the truncated file, and the counts agree.
* `DirTwoStarts`: the key is not "stable for the life of the data directory"
  (key.go:29) if two processes start first together. One of them goes on with a
  key no file holds.

Others were seen on the way and have no run of their own; they are under
"hazards" in `PROJECT.json` with a note: a failed WriteVersionRaw of a version that
is listed does not leave "an orphaned file ... but no index entry" (raw.go:96), an
alias lost when two alias commands overlap, a message too long to replicate, nextSeq after a restore, a Failure for a
peer that has the copy, a loose-file share overtaken by a put, a short body
visible before its removal, api.addr with two serves.

## What is proved

For every value of the constants: any keys, goroutines, nodes, clients, processes,
commands and ids, any length of files, any MaxVersions, any subset of calls and of
faults, and any number of starts. The assumptions are the named ASSUMEs of the
modules, which TLC evaluates on each run (the empty id is not a UUID, nobody is not a
goroutine, there is a key, a body has at least one block, FirstPathName is defined on
every blob, no peer is called torn, a uint32 holds the longest message, `Wire`'s `Nothing` is
no length, message or version), and the few hypotheses of single theorems that
are listed below. The bounds of a run are constants, and so are arbitrary here, but for
`Forget`. A client that does not wait for the handlers it left behind is several clients of
its node, and `Clients` is arbitrary; so nothing is lost where a theorem has no hypothesis
on clients. Where a hypothesis says that some calls at a node are one client's (`TakesTurns`,
`LatestTakesTurns`, `OnlyGetterDeletes`), it says as well that these calls wait for each
other's handlers.

| Theorem | Says | Assuming also |
|---|---|---|
| `StoreInvariant` | `Spec => []StoreInv` | |
| `TypeCorrect`, `LockExcludes`, `IndexesAlwaysOK` | its conjuncts `TypeOK`, `Exclusive`, `IndexesOK` | |
| `StoreImplementsVersionLog` | `Store` implements `VersionLog` under `log <- index, past <- history` | |
| `ListedHaveTheirBlobs` | `ListedVersionsComplete` | `PrefixesDiffer` |
| `UnlockedIsComplete` | `CompleteWhenFree` | `PrefixesDiffer`, no faults |
| `KeysDoNotMeet` | the action property `KeysIndependent` | `PrefixesDiffer` |
| `ReadersGetItAll`, `RollbackCopiesItsVersion` | the action property `ReadsComplete`, and `RollbackFaithful` | no raw writes |
| `SequenceNumbersGrow` | `SeqsIncrease` | no raw writes |
| `PruneOK` (with `AppendLatestOK`, `UpsertLatestOK`, `RemoveVersionOK`) | each operation on a well-formed index gives a well-formed index | |
| `LengthCarried` | the length `ReadMessage` decodes is the one `WriteMessage` encoded, for every length up to the limit | |
| `TypesHold`, `RecordedWhole`, `SuccessIsKept`, `FailuresHaveCauses` | `Wire`'s `TypeOK`, `KeptWhole`, `OkMeansKept`, `FailsForCause` | |
| `ServerTypeCorrect`, `LocksAreOwned` | `FileServer`'s `TypeOK`, `LocksOwned` | |
| `ReplicasStayInAgreement`, `BlobsUnderOwnersKey` | `ReplicasAgree`, `OwnersKeyOnly` | |
| `SharesAreFaithful` | `ShareFaithful` | `LatestTakesTurns` |
| `NamedGetsMatch` | a get of a named version is answered with that version's metadata and that version's blob | `LatestTakesTurns` |
| `ConfirmedReplicasStay` | `ConfirmedReplicas` | `TakesTurns`, `MaxVersions = 0` |
| `ReplicationImplementsCustody` | `FileServer` implements `Custody` | `TakesTurns`, `MaxVersions = 0` |
| `ConfirmedAreNotTouched` | no step changes a confirmed copy at its custodian, blob or entry | `MaxVersions = 0` |
| `GetsFindReplicas` | `GetFindsReplica` | `OnlyGetterDeletes`, `MaxVersions = 0` |
| `DirTypeCorrect`, `KeysAreStable`, `SettledKeysAreKept` | `DataDir`'s `TypeOK`, `KeyStable`, and the action property `SettledKeysStay` | |
| `FilesAreWhole`, `ClientsAreServedWithKeys` | `NeverHalfWritten`, `ServedWithKeys` | |
| `ServeCanBeFound` | `CanBeFound` | `OneServe` |
| `CommandsTypeCorrect`, `StoredMeansStored`, `GetsAreWhole` | `Commands`' `TypeOK`, `OkMeansStored`, `GetWholeOrError` | |
| `NotRunningIsHarmless`, `StopIsGraceful`, `AliasesAreKept` | `NotRunningMeansNothingDone`, `GracefulStop`, `AliasesKept` | |
| `VersionsAreKept` | `VersionsWholeAndKept` | `MaxVersions = 0` |

The hypotheses are there because the statements are false without them:

* `PrefixesDiffer`: no two blobs share a FirstPathName. Where two do, a delete or a prune of
  one takes the other away (`StoreCollision`).
* No faults: a delete that fails between a blob and the index, or a restore that fails
  after it has truncated a blob, leaves a listed version without its bytes.
* No raw writes, that is `"WriteVersionRaw" \notin Ops`: keys of which no version is
  fetched back. A restore truncates a blob in place, under the streams that read it; if
  the restore then fails, a rollback copies the short blob and takes it for the version;
  and a version put back at the end of the list has a number below those before it. TLC
  finds all three at once when raw writes are added to `StoreReaders` (and, for the
  rollback, a source that fails).
* `LatestTakesTurns`: at a node, the client that puts and the clients that get the latest
  version are one. Without it a `handleGet` may put the metadata of one version before the
  blob of another (`ServerMeta`), and what the getter then restores under the one's id has
  the other's content, also for who gets it by name or shares it later. Gets that name a version
  are free to overlap anyone's puts of the key, which change the shelf between a handler's
  two look-ups.
* `TakesTurns`: this, and of gets that name a version too. Without it a version that a
  get restores while it is being put is opened
  short by the put's next push, so that a peer confirms a short replica
  (`ServerRestore`). The API serves requests concurrently and sees to neither. A get and a
  put of one user that follow one another meet both, once the put's handlers have ended.
* `OnlyGetterDeletes`: no faults, no `Disconnect`, and at a node with a client that
  deletes no other client gets. The property says what a get finds when every peer can be
  reached and no stream breaks. With any one of the four faults, with a client that drops
  a connection, or with another's Delete between the fetch and the read that follows it
  (server.go:409 calls the store again), TLC finds a get that returns nothing. Puts,
  shares and loose-file shares of any other client, and what goes on at other nodes, are
  free.
* `MaxVersions = 0`, which is what `main.go` configures: with a limit,
  pruneOldestVersions drops versions, a custodian's replicas among them.
* `OneServe`: one `serve` for a directory. The second overwrites the first one's
  api.addr and removes it when it ends.

**Store.** `IndexesOK` is not inductive: SaveIndex writes an index that a goroutine has
had in hand for many steps. `StoreInv` adds what makes that index good. `Exclusive`
says that a goroutine past the lock is the holder, so no one else changes the
index of its key meanwhile. `Prepared` says what it has in hand: the index still
on disk until the body ends, and from then on that index with one change
(`Change`). `ListedUnaltered` and `OpenFilesExist` tie the entries to `history`
and the open streams to files, for typing. Each action preserves each conjunct;
`PreparedStep` splits goroutines into the one that moves and the ones of other
keys, whose index does not change. The refinement needs only one further fact:
`SaveIndex` is the only action that changes `index` or `history`
(`OnlySaveChanges`), and what it saves is `Change` of what is there (`SaveIsLogged`).

That listed versions are complete is about the calls at work. `BodyInv` says what each
call's blob holds (`BodyOf`): as many blocks of its source as it has counted, then, from the
end of the body on, just what its entry says; that the blobs it still removes are none
its index keeps; and that a blob it writes over is at risk. Saving then lists the
call's own version, which is complete, or ones that were listed (`SavedEntries`), and
the at-risk mark goes with the version or with the writing call. `AtRiskHeld` adds that without faults
the holder of the lock accounts for every mark. `StreamInv` is about what is
read, and needs nothing of prefixes or faults: a writer's id is no older version's, so
its blob is never one that a stream is open on (`OldBlobsStay`); removal takes the
name and leaves the stream its bytes (`StreamOthers`). Hence an open stream supplies
the version it named (`Source`), and a rollback's message names an entry with the same content
(`NotesKnown`). Both split as `StoreInv` does: `RemovalEffect` says what a removal leaves of
all the goroutines, `OneMoves` that any other step keeps to one goroutine and its key.

**FileServer**, in three layers, each an invariant relative to the one before.
`ServerInv` says of each transfer what its two ends have in hand at each phase
(`TransferOK`): the lock if and only if it is receiving (`LockOK`), an open source that is a
file of the caller's namespace (`SourceOK`), a blob as long as what has arrived
(`ArrivingOK`). `ReplicasAgree` needs it because an entry is checked when the request
is sent and listed many steps later. `ContentInv` adds whose content each source, blob and
body has, from the moment it is opened or begun: `IdsUnique`, since an id stands for one
version of one file, and `ContentsOK`. Here `LatestTakesTurns` is needed, for a get
of the latest only (`LatestAsked`): between reading the metadata and opening the blob, nobody
changes the shelf it is answered from. A get that names its version finds that one or none,
whatever has become of the shelf. `KeepInv` follows one put: its own blob is whole while it is there (`PutWhole`,
which needs `TakesTurns` for `PutElsewhere`), only its own streams touch the
custodians' copies of its version, each once (`PutKept`), so a confirmed copy is whole
and nobody writes it again (`ConfirmedKept`). Each step then maps to a step of `Custody`:
a copy that becomes whole is held, an answer that counts it tells it, and the owner's
delete loses copies at home only. The proofs go by the transfer that moves;
`Passes` says what a step leaves of all the others.

That a get finds a replica is about three more invariants relative to `ServerInv`, none of
which needs turns to be taken. `StayInv` is what stays of `KeepInv` then: the push that makes
a custodian's copy fills it before its peer answers (`Pushed`), a share's recipient draws an
id that is no put's (`Drawn`), and a fetch fills a shelf of the getter's own node; so nobody
touches a copy after it has been confirmed (`ConfirmedLeft`, `ConfirmedThere`), though it may
be short. `LatestGiven` says that a shelf with any entry has its latest (what Has looks
at), so that a get of a version that is at home gets past Has and to `ReadHere`. `FindInv` gives a get that waits one peer whose confirmed copy of the version
it has yet to be sent: still among those it may ask, or on its way (`GoodWay`: the stream
has that copy open, promises its length, and what has arrived is no more). A peer that has
nothing, or a version under another id, ends its turn without spending that one. When a fetch
succeeds, the version lies at home (`Fetching`) until the get reads it, since only the
getter deletes. Where nobody deletes, no such get waits at all: `HomeInv` says that what was put
is still at home. It is needed since other getters of that node could otherwise fetch
over the blob. Its core is `FetchWhole`: every fetch promises what its source holds, nobody
writes to that source while it is read, and so no fetch is found short and takes away what it
wrote over.

**DataDir.** The core is about inodes. Two names of one file never lead to the same inode
(`ApartNames`), because a run creates each file at most once and the inode it is about
to create is not there yet (`Unborn`); hence a file under its own name is never truncated.
Writers do share the sibling, so that what a writer has under way is its own only while
starts have not overlapped (`SiblingHeld`, `OneStarter`). `KeysAgree` then compares the keys a
process has in hand with the files. `SettledKeysStay`, which holds of overlapping starts
too, uses the part about inodes: nobody who is still to create another file, or to
write a new sibling, touches the one the path leads to.

**Commands.** `Stage` relates the two ends of a connection and the output file at each point;
`Recorded` says that what an answer carries, the key has had; `Served` that a handler
at work is one of the present run, and that a run which exits before its handlers have
finished was killed or had no patience; `KeptListed` is `VersionsWholeAndKept` before the
limit. `GracefulStop` follows from `Served` because `Shutdown` comes before everything else that
serve closes. `OneAfterAnother` says of the alias command at work that it
has the names of those before it in hand.

**Wire.** `WireInv` says of each half of the stream what is before its reader, buffered or on
its way (`StreamOK`): nothing, as long as the other end has not written (`Silent`); else one
message's frame and, after it, the part of the body that has been sent (`Coming`), less
what has been used: the prefix (`Prefixed`), or the whole frame, and then the body as far as
it is here with the rest of it on its way (`Heard`). So a buffer as long as the prefix is the
prefix, one as long as that says is the message, and a body as long as the message
announces is the source, in whatever pieces each came (`SplitAt`). What a message says is
true when it is said and stays so (`Says`, `StillSays`). `EndOK` is about one end at its
place in `Script`: what it has done is behind it (`Course`), and each failure it finds has had
its cause, each success its version (`Outcome`). The count finds no good body short because a
half that has ended has been sent whole or there was trouble. `SourceOpens`
ties the file, and what was left of it, to the length announced; a sealed file opens and one in the clear does not
pass for a blob, since its first byte is no header's. Sequences meet through one opaque
operator, `Cat`, with a handful of lemmas. `LengthCarried` is used where a
prefix is read, and covers what the run of `Wire` cannot: its limit there is 2, and the
upper three digits of a length are zero. `DivMod` is used once per digit.

`StoreInv` is an invariant of run `StoreFaults`. `BodyInv` and `AtRiskHeld` were model-checked on
the instances of `StoreFaults` and `StoreReaders`, `StreamInv` on that of `StoreReaders`
and on one with colliding prefixes and all faults. `ServerInv`, `ContentInv` and `KeepInv`
were model-checked on the instance of `ServerShares`, `StayInv`, `HomeInv` and `FindInv` on
that of `ServerCustody` and, with bodies of two blocks too, on ones with two getters, with shares
and with clients at two nodes, `DirInv` on that of `DirProcesses`
and on one with two serves, `CmdInv` on that of `Commands` and on one with two keys and every
operation, and `WireInv` on that of `Wire`, before they were proved.

**Only model-checked.** Liveness (`EveryCallReturns`, `EveryCallEnds`, `HandlersEnd`, `ExchangeEnds`):
fairness and ENABLED are beyond the prover. Every safety property that a passing run checks
is a theorem.

## Not modelled

The key stream of the cipher, and times; the wording of JSON and of HTTP, and net/http
itself beyond what it accepts, resets and waits for; Authorizer (AllowAll); libp2p
itself, discovery and host life cycle; printing and flags; the demo; Store.Clear
(tests only). Two processes on one directory each have their own locks; `DataDir`
follows them to their keys and address, and not into the store. Two alias commands
at once are modelled, but nothing is claimed of them. In `Commands` peers are not
modelled: a put answers after however long they take, and a get serves what is here.
Failures of the disk are per call; media errors and power loss (the code never calls
fsync) are left out. Each
component and the reason are in `PROJECT.json`.

## Plan

Order of work, done so far: `VersionIndex` and `Store` with their proofs;
`VersionLog`; `FileServer`; `DataDir`; `Custody` and the refinement; `Commands`;
`Wire`; the proofs of `FileServer`, `DataDir` and `Commands`, and of what was left of
`Store`, and of `Wire`; that of `GetFindsReplica`. What is left is outside the prover's
reach or listed under "Not modelled".
