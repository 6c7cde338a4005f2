------------------------------- MODULE Store --------------------------------
(***************************************************************************)
(* One node's on-disk store (internal/store): version indexes, blob files, *)
(* one RWMutex per key, and the goroutines that are inside its methods.    *)
(*                                                                         *)
(* A method that takes the write lock is cut into the steps a crash, an    *)
(* error, an open file or another key's RemoveAll can fall between:        *)
(* acquiring the lock and loading the index; creating (truncating) the     *)
(* blob; copying one block; removing one blob directory; saving the index  *)
(* and unlocking.  A section under the read lock only reads and opens a    *)
(* file, and writers are shut out of it, so it is one step.  The stream it *)
(* returns is read after the lock is gone.                                 *)
(*                                                                         *)
(* A blob is a number of blocks of some content.  Files are POSIX files:   *)
(* an open stream sees a later truncation of its file, and outlives the    *)
(* removal of its name.  Encryption, sizes in bytes and times are left out.*)
(***************************************************************************)
EXTENDS VersionIndex, FiniteSets

CONSTANTS Keys,           \* logical keys, of one nodeID namespace
          Threads,        \* goroutines that call the store
          NoThread,       \* nobody holds the lock
          Blocks,         \* blocks of a complete body
          FirstPathName,  \* FirstPathName[<<key, id>>]: the directory RemoveAll is given
          Ops,            \* the methods the callers use (RollbackLatest: RollbackTo
                          \* without a version)
          Faults          \* what may go wrong: subset of {"source", "io", "crash"}

AllOps == {"WriteVersion", "WriteVersionRaw", "ReadVersion", "RollbackTo",
           "Delete", "DeleteVersion"}
AllFaults == {"source", "io", "crash"}
Paths == Keys \X VersionIDs

ASSUME KeysAssumption == Keys # {}
ASSUME NoThreadAssumption == NoThread \notin Threads
ASSUME BlocksAssumption == Blocks \in Nat \ {0}
ASSUME OpsAssumption == Ops \subseteq AllOps \cup {"RollbackLatest"}
ASSUME FaultsAssumption == Faults \subseteq AllFaults
ASSUME FirstPathNameAssumption == DOMAIN FirstPathName = Paths

VARIABLES
    index,    \* index[k]: the index file of k, EmptyIndex when there is none
    blob,     \* blob[<<k, id>>]: the file versionedKey(k, id) maps to, or NoBlob
    holder,   \* holder[k]: who holds k's write lock
    call,     \* call[t]: what goroutine t is doing
    history,  \* ghost: history[k] is every entry WriteVersion ever committed for k
    atRisk    \* ghost: indexed versions whose blob a later call set out to
              \* delete or to write again, and has not saved since

vars == <<index, blob, holder, call, history, atRisk>>

-----------------------------------------------------------------------------
(* Data.  The ghost field "of" names the content a body was read from: the *)
(* id of the version that first had it.  n counts blocks; in an entry it   *)
(* stands for SizeBytes.  note is the Message, kept for what RollbackTo    *)
(* writes in it: the version rolled back to.                               *)
(***************************************************************************)
IdOrNone == VersionIDs \cup {NoVersion}
Data == [of : IdOrNone, n : 0 .. Blocks]
NoData == [of |-> NoVersion, n |-> 0]
NoBlob == [of |-> NoVersion, n |-> -1]
Entry == [id : VersionIDs, seq : Nat, note : IdOrNone, data : Data]
NoEntry == [id |-> NoVersion, seq |-> 0, note |-> NoVersion, data |-> NoData]

\* The body a method copies from: an open file of the store (file is the
\* version id, of the call's key), or bytes no path of the store names.
NoReader == [file |-> NoVersion, data |-> NoData]
Supply(r, k) == IF r.file = NoVersion THEN r.data ELSE blob[<<k, r.file>>]

NoCall == [pc |-> "idle", op |-> "none", key |-> CHOOSE k \in Keys : TRUE,
           id |-> NoVersion, asked |-> NoVersion, entry |-> NoEntry, reader |-> NoReader,
           n |-> 0, dst |-> "named", idx |-> EmptyIndex, todo |-> <<>>]

Writing == {"create", "copy", "remove", "save"}   \* the write lock is held

\* Mutant of Fresh: an id may be drawn again.
FreshAnyId == VersionIDs

\* A UUID nobody has drawn.  A draw that left no trace is as good as none.
Fresh == {id \in VersionIDs :
            /\ \A k \in Keys : /\ blob[<<k, id>>] = NoBlob
                               /\ \A e \in history[k] : e.id # id
            /\ \A t \in Threads : call[t].entry.id # id}

\* The bound on writes: the pool of UUIDs is finite, and a write or a rollback
\* starts only while there is one left for it and for every rollback waiting.
SpareIds == Cardinality(Fresh) > Cardinality({t \in Threads : call[t].pc = "relock"})

-----------------------------------------------------------------------------
(* Calls of the read lock: load the index, resolve the version, open its   *)
(* blob.  An unknown version or a missing file is an error, and changes    *)
(* nothing.                                                                *)
(***************************************************************************)
Return(t) == call' = [call EXCEPT ![t] = NoCall]

\* Resolves and opens version id of key k, and goes on from pc with the stream
\* and what the caller asked for, as far as it is used later.
Open(t, op, k, id, pc, asked) ==
    LET e == resolveVersion(index[k], id)
    IN  /\ op \in Ops
        /\ call[t].pc = "idle"
        /\ holder[k] = NoThread
        /\ CanResolve(index[k], id)
        /\ blob[<<k, e.id>>] # NoBlob
        /\ call' = [call EXCEPT ![t] =
             [NoCall EXCEPT !.pc = pc, !.op = op, !.key = k, !.id = e.id, !.asked = asked,
                            !.reader = [file |-> e.id, data |-> NoData]]]
        /\ UNCHANGED <<index, blob, holder, history, atRisk>>

ReadVersion(t) == \E k \in Keys, id \in IdOrNone : Open(t, "ReadVersion", k, id, "reading", NoVersion)

\* RollbackTo's first half; the stream stays open while it waits for the write
\* lock.
RollbackTo(t) ==
    /\ SpareIds
    /\ \E k \in Keys, id \in IdOrNone :
         /\ id = NoVersion => "RollbackLatest" \in Ops
         /\ Open(t, "RollbackTo", k, id, "relock", id)

\* The caller takes the next block from the stream, or sees its end.
ReadBlock(t) ==
    /\ call[t].pc = "reading"
    /\ call[t].n < Supply(call[t].reader, call[t].key).n
    /\ call' = [call EXCEPT ![t].n = @ + 1]
    /\ UNCHANGED <<index, blob, holder, history, atRisk>>
EndOfStream(t) ==
    /\ call[t].pc = "reading"
    /\ call[t].n >= Supply(call[t].reader, call[t].key).n
    /\ Return(t)
    /\ UNCHANGED <<index, blob, holder, history, atRisk>>

-----------------------------------------------------------------------------
(* Calls of the write lock, as far as the index they load under it.        *)
(***************************************************************************)
\* Mutant of Acquire: does not wait for the lock.
AcquireAnyway(t, op, k) ==
    /\ op \in Ops
    /\ call[t].pc = IF op = "RollbackTo" THEN "relock" ELSE "idle"
    /\ holder' = [holder EXCEPT ![k] = t]
    /\ UNCHANGED <<index, blob, history, atRisk>>

Acquire(t, op, k) ==
    /\ op \in Ops
    /\ call[t].pc = IF op = "RollbackTo" THEN "relock" ELSE "idle"
    /\ holder[k] = NoThread
    /\ holder' = [holder EXCEPT ![k] = t]
    /\ UNCHANGED <<index, blob, history, atRisk>>

\* loadIndex, newUUID, nextSeq: the entry being made, its size still to count.
NewEntry(k, id, note) ==
    [id |-> id, seq |-> nextSeq(index[k]), note |-> note, data |-> NoData]

\* The bytes the caller of WriteVersion brings are new content.
WriteVersion(t) ==
    \E k \in Keys, id \in Fresh :
        /\ SpareIds
        /\ Acquire(t, "WriteVersion", k)
        /\ call' = [call EXCEPT ![t] =
             [NoCall EXCEPT !.pc = "create", !.op = "WriteVersion", !.key = k,
                            !.idx = index[k], !.entry = NewEntry(k, id, NoVersion),
                            !.reader = [file |-> NoVersion,
                                        data |-> [of |-> id, n |-> Blocks]]]]

\* Mutant of RollbackWrite: the message names the latest version.
RollbackWriteOfLatest(t) ==
    LET k == call[t].key
    IN  \E id \in Fresh :
          /\ Acquire(t, "RollbackTo", k)
          /\ call' = [call EXCEPT ![t].pc = "create", ![t].idx = index[k],
                                  ![t].entry = NewEntry(k, id, index[k].latest),
                                  ![t].asked = NoVersion]

\* RollbackTo's second half: WriteVersion, from the open stream, with the
\* version that was asked for in the message (none, for the latest).
RollbackWrite(t) ==
    LET k == call[t].key
    IN  \E id \in Fresh :
          /\ Acquire(t, "RollbackTo", k)
          /\ call' = [call EXCEPT ![t].pc = "create", ![t].idx = index[k],
                                  ![t].entry = NewEntry(k, id, call[t].asked),
                                  ![t].asked = NoVersion]

\* Mutant of WriteVersionRaw: mints a number of its own.
WriteVersionRawRenumbered(t) ==
    \E k \in Keys : \E e \in history[k] :
        /\ Acquire(t, "WriteVersionRaw", k)
        /\ call' = [call EXCEPT ![t] =
             [NoCall EXCEPT !.pc = "create", !.op = "WriteVersionRaw", !.key = k,
                            !.idx = index[k], !.entry = [e EXCEPT !.seq = nextSeq(index[k])],
                            !.reader = [file |-> NoVersion, data |-> e.data]]]

\* The versions handed to WriteVersionRaw are ones this key once had: a blob
\* fetched back from a peer, with the entry and the bytes it was written with.
WriteVersionRaw(t) ==
    \E k \in Keys : \E e \in history[k] :
        /\ Acquire(t, "WriteVersionRaw", k)
        /\ call' = [call EXCEPT ![t] =
             [NoCall EXCEPT !.pc = "create", !.op = "WriteVersionRaw", !.key = k,
                            !.idx = index[k], !.entry = e,
                            !.reader = [file |-> NoVersion, data |-> e.data]]]

\* The ids still to remove decide what comes next.
Removing(ids) == IF ids = <<>> THEN "save" ELSE "remove"

\* Every listed blob is removed, then the index file.
Delete(t) ==
    \E k \in Keys :
        LET ids == [i \in DOMAIN index[k].versions |-> index[k].versions[i].id]
        IN  /\ Acquire(t, "Delete", k)
            /\ call' = [call EXCEPT ![t] =
                 [NoCall EXCEPT !.pc = Removing(ids), !.op = "Delete", !.key = k,
                                !.idx = EmptyIndex, !.todo = ids]]

\* An unlisted version is an error; otherwise the shortened index is at hand
\* before the blob goes.
DeleteVersion(t) ==
    \E k \in Keys : \E id \in IdsOf(index[k].versions) :
        /\ Acquire(t, "DeleteVersion", k)
        /\ call' = [call EXCEPT ![t] =
             [NoCall EXCEPT !.pc = "remove", !.op = "DeleteVersion", !.key = k,
                            !.idx = RemoveVersion(index[k], id), !.todo = <<id>>]]

Begin(t) == \/ ReadVersion(t)
            \/ RollbackTo(t)
            \/ WriteVersion(t)
            \/ WriteVersionRaw(t)
            \/ Delete(t)
            \/ DeleteVersion(t)

-----------------------------------------------------------------------------
(* Under the write lock.                                                   *)
(***************************************************************************)

\* createBlobFile: the blob of this version exists and is empty, whatever it
\* held before.
CreateBlob(t) ==
    LET p == <<call[t].key, call[t].entry.id>>
        of == Supply(call[t].reader, call[t].key).of
    IN  /\ call[t].pc = "create"
        /\ blob' = [blob EXCEPT ![p] = [of |-> of, n |-> 0]]
        /\ call' = [call EXCEPT ![t].pc = "copy"]
        /\ atRisk' = IF p[2] \in IdsOf(index[p[1]].versions) THEN atRisk \cup {p} ELSE atRisk
        /\ UNCHANGED <<index, holder, history>>

\* Mutant of CopyBlock: off by one at the end of the body.
CopyBlockPastEnd(t) ==
    LET c == call[t]
        p == <<c.key, c.entry.id>>
    IN  /\ c.pc = "copy"
        /\ c.n <= Supply(c.reader, c.key).n
        /\ call' = [call EXCEPT ![t].n = @ + 1]
        /\ blob' = IF c.dst = "named" THEN [blob EXCEPT ![p].n = c.n + 1] ELSE blob
        /\ UNCHANGED <<index, holder, history, atRisk>>

\* io.Copy moves one block; it lands in the file the writer has open.
CopyBlock(t) ==
    LET c == call[t]
        p == <<c.key, c.entry.id>>
    IN  /\ c.pc = "copy"
        /\ c.n < Supply(c.reader, c.key).n
        /\ call' = [call EXCEPT ![t].n = @ + 1]
        /\ blob' = IF c.dst = "named" THEN [blob EXCEPT ![p].n = c.n + 1] ELSE blob
        /\ UNCHANGED <<index, holder, history, atRisk>>

\* The entry WriteVersion records: the size is what the copy counted.
Counted(c) == [c.entry EXCEPT !.data = [of |-> Supply(c.reader, c.key).of, n |-> c.n]]

\* Mutant of FinishBody: io.Copy's error is ignored, so the body may end early.
FinishBodyOnError(t) ==
    LET c == call[t]
        e == IF c.op = "WriteVersionRaw" THEN c.entry ELSE Counted(c)
        idx == IF c.op = "WriteVersionRaw" THEN UpsertLatest(c.idx, e)
                                           ELSE AppendLatest(c.idx, e)
    IN  /\ c.pc = "copy"
        /\ call' = [call EXCEPT ![t].pc = Removing(PrunedIds(idx)), ![t].entry = e,
                                ![t].idx = pruneOldestVersions(idx),
                                ![t].todo = PrunedIds(idx),
                                ![t].reader = NoReader, ![t].n = 0]
        /\ UNCHANGED <<index, blob, holder, history, atRisk>>

\* The body has ended: the entry joins the loaded index as its latest, the
\* oldest entries beyond MaxVersions leave it.
FinishBody(t) ==
    LET c == call[t]
        e == IF c.op = "WriteVersionRaw" THEN c.entry ELSE Counted(c)
        idx == IF c.op = "WriteVersionRaw" THEN UpsertLatest(c.idx, e)
                                           ELSE AppendLatest(c.idx, e)
    IN  /\ c.pc = "copy"
        /\ c.n >= Supply(c.reader, c.key).n
        /\ call' = [call EXCEPT ![t].pc = Removing(PrunedIds(idx)), ![t].entry = e,
                                ![t].idx = pruneOldestVersions(idx),
                                ![t].todo = PrunedIds(idx),
                                ![t].reader = NoReader, ![t].n = 0]
        /\ UNCHANGED <<index, blob, holder, history, atRisk>>

\* Mutant of UnderRoot: the whole store's root.
UnderAnyRoot(p) == Paths

\* What RemoveAll(resolvedRootPath(p)) takes away: every path below the same
\* first directory.
UnderRoot(p) == {q \in Paths : FirstPathName[q] = FirstPathName[p]}

\* The files at these paths lose their names.  A stream open on one keeps the
\* bytes it has; a writer goes on writing to a file no path leads to.
Detached(c, gone) ==
    [c EXCEPT !.dst = IF c.pc = "copy" /\ <<c.key, c.entry.id>> \in gone
                        THEN "unnamed" ELSE @,
              !.reader = IF @.file # NoVersion /\ <<c.key, @.file>> \in gone
                           THEN [file |-> NoVersion, data |-> blob[<<c.key, @.file>>]]
                           ELSE @]
Unlink(gone, next) ==
    /\ blob' = [p \in Paths |-> IF p \in gone THEN NoBlob ELSE blob[p]]
    /\ call' = [t \in Threads |-> Detached(next[t], gone)]

\* The versions the index in hand keeps, whose blobs are not meant to go.
Kept(c) == {<<c.key, id>> : id \in IdsOf(c.idx.versions)}

\* deleteVersionBlob on the next id of the list.
Removed(c) == [c EXCEPT !.todo = Tail(@), !.pc = Removing(Tail(c.todo))]
RemoveBlob(t) ==
    LET p == <<call[t].key, Head(call[t].todo)>>
    IN  /\ call[t].pc = "remove"
        /\ Unlink(UnderRoot(p), [call EXCEPT ![t] = Removed(call[t])])
        /\ atRisk' = atRisk \cup ({p} \ Kept(call[t]))
        /\ UNCHANGED <<index, holder, history>>

Unlock(t) == holder' = [holder EXCEPT ![call[t].key] = NoThread]

\* Mutant of SaveIndex: DeleteVersion returns without unlocking.
SaveIndexLocked(t) ==
    LET c == call[t]
    IN  /\ c.pc = "save"
        /\ index' = [index EXCEPT ![c.key] = c.idx]
        /\ history' = IF c.op \in {"WriteVersion", "RollbackTo"}
                        THEN [history EXCEPT ![c.key] = @ \cup {c.entry}] ELSE history
        /\ atRisk' = {p \in atRisk : p[1] # c.key \/
                        p[2] \in IdsOf(c.idx.versions) \ {c.entry.id}}
        /\ IF c.op = "DeleteVersion" THEN UNCHANGED holder ELSE Unlock(t)
        /\ Return(t)
        /\ UNCHANGED blob

\* saveIndex (or os.Remove of the index file), then the deferred unlock.
SaveIndex(t) ==
    LET c == call[t]
    IN  /\ c.pc = "save"
        /\ index' = [index EXCEPT ![c.key] = c.idx]
        /\ history' = IF c.op \in {"WriteVersion", "RollbackTo"}
                        THEN [history EXCEPT ![c.key] = @ \cup {c.entry}] ELSE history
        /\ atRisk' = {p \in atRisk : p[1] # c.key \/
                        p[2] \in IdsOf(c.idx.versions) \ {c.entry.id}}
        /\ Unlock(t)
        /\ Return(t)
        /\ UNCHANGED blob

Step(t) == \/ ReadBlock(t)
           \/ EndOfStream(t)
           \/ RollbackWrite(t)
           \/ CreateBlob(t)
           \/ CopyBlock(t)
           \/ FinishBody(t)
           \/ RemoveBlob(t)
           \/ SaveIndex(t)

-----------------------------------------------------------------------------
(* Faults.                                                                 *)
(***************************************************************************)
\* Mutant of Abandon: the unlock is not deferred.
AbandonLocked(t) == Return(t) /\ UNCHANGED holder

Abandon(t) == /\ Unlock(t)
              /\ Return(t)

\* createBlobFile fails before it has touched the file.
CreateFails(t) ==
    /\ "io" \in Faults
    /\ call[t].pc = "create"
    /\ Abandon(t)
    /\ UNCHANGED <<index, blob, history, atRisk>>

\* The caller's reader, or the disk, fails in the middle of the copy: the
\* method returns the error and leaves the blob as it is.
CopyFails(t) ==
    /\ call[t].pc = "copy"
    /\ Faults \cap {"source", "io"} # {}
    /\ Abandon(t)
    /\ UNCHANGED <<index, blob, history, atRisk>>

\* RemoveAll fails, part of its work done.  pruneOldestVersions and Delete
\* ignore it; DeleteVersion returns it and saves nothing.
RemoveFails(t) ==
    LET c == call[t]
        p == <<c.key, Head(c.todo)>>
    IN  /\ "io" \in Faults
        /\ c.pc = "remove"
        /\ \E gone \in SUBSET UnderRoot(p) :
             Unlink(gone, [call EXCEPT ![t] =
                             IF c.op = "DeleteVersion" THEN NoCall ELSE Removed(c)])
        /\ IF c.op = "DeleteVersion" THEN Unlock(t) ELSE UNCHANGED holder
        /\ atRisk' = atRisk \cup ({p} \ Kept(c))
        /\ UNCHANGED <<index, history>>

\* saveIndex fails, or Delete's os.Remove of the index file, whose error Delete
\* ignores: the old index file stays.
SaveFails(t) ==
    /\ "io" \in Faults
    /\ call[t].pc = "save"
    /\ Abandon(t)
    /\ UNCHANGED <<index, blob, history, atRisk>>

\* The process dies and is started again on the same directory: files stay,
\* locks and goroutines do not.
Crash ==
    /\ "crash" \in Faults
    /\ call' = [t \in Threads |-> NoCall]
    /\ holder' = [k \in Keys |-> NoThread]
    /\ UNCHANGED <<index, blob, history, atRisk>>

Fault(t) == \/ CreateFails(t)
            \/ CopyFails(t)
            \/ RemoveFails(t)
            \/ SaveFails(t)

-----------------------------------------------------------------------------
Init ==
    /\ index = [k \in Keys |-> EmptyIndex]
    /\ blob = [p \in Paths |-> NoBlob]
    /\ holder = [k \in Keys |-> NoThread]
    /\ call = [t \in Threads |-> NoCall]
    /\ history = [k \in Keys |-> {}]
    /\ atRisk = {}

Next == \/ \E t \in Threads : Begin(t) \/ Step(t) \/ Fault(t)
        \/ Crash

Spec == Init /\ [][Next]_vars

\* The scheduler runs every goroutine, a body being copied ends or fails, and
\* sync.RWMutex lets no goroutine wait for ever while others come and go.
Fairness == \A t \in Threads : /\ WF_vars(Step(t))
                               /\ SF_vars(RollbackWrite(t))
FairSpec == Spec /\ Fairness

-----------------------------------------------------------------------------
(* Properties.                                                             *)
(***************************************************************************)
Index == [latest : IdOrNone, versions : Seq(Entry)]

CallRecord == [pc : {"idle", "reading", "relock"} \cup Writing,
               op : AllOps \cup {"none"}, key : Keys, id : IdOrNone, asked : IdOrNone,
               entry : Entry \cup {NoEntry}, reader : [file : IdOrNone, data : Data],
               n : 0 .. Blocks, dst : {"named", "unnamed"}, idx : Index, todo : Seq(VersionIDs)]

\* Every variable holds what the code's types allow.
TypeOK ==
    /\ index \in [Keys -> Index]
    /\ blob \in [Paths -> Data \cup {NoBlob}]
    /\ holder \in [Keys -> Threads \cup {NoThread}]
    /\ call \in [Threads -> CallRecord]
    /\ history \in [Keys -> SUBSET Entry]
    /\ atRisk \subseteq Paths

\* Every index on disk lists each version once, has its latest version in the
\* list and respects MaxVersions, whatever fails and wherever a crash falls
\* (saveIndex replaces the file whole; writers of a key exclude each other).
IndexesOK == \A k \in Keys : IndexOK(index[k])

\* The lock protects from loadIndex to saveIndex: a goroutine that holds it is
\* the only one inside, so the index it loaded is the one it replaces.
Exclusive ==
    \A t \in Threads, k \in Keys :
        (call[t].pc \in Writing /\ call[t].key = k) <=> holder[k] = t

\* What a call has in hand while it holds the lock.  Until its body has been
\* copied it has the index as it still is on disk.  From then on it has that
\* index with its one change made: a version nobody has seen yet appended, a
\* version the key once had put in, one listed version taken out, or nothing
\* left.  (No update of another goroutine can fall between load and save.)
Minting(c) == c.op \in {"WriteVersion", "RollbackTo"}
NewVersion(c) == /\ c.entry.id \in VersionIDs
                 /\ c.entry.seq = nextSeq(index[c.key])
                 /\ \A e \in history[c.key] : e.id # c.entry.id
Change(c) ==
    LET idx == index[c.key]
    IN  \/ /\ Minting(c)
           /\ c.idx = pruneOldestVersions(AppendLatest(idx, c.entry))
        \/ /\ c.op = "WriteVersionRaw"
           /\ c.idx = pruneOldestVersions(UpsertLatest(idx, c.entry))
        \/ /\ c.op = "DeleteVersion"
           /\ \E id \in IdsOf(idx.versions) : c.idx = RemoveVersion(idx, id)
        \/ /\ c.op = "Delete"
           /\ c.idx = EmptyIndex
InHand(c) ==
    /\ c.pc = "relock" => c.op = "RollbackTo"
    /\ c.pc \in {"create", "copy"} =>
         /\ Minting(c) \/ c.op = "WriteVersionRaw"
         /\ c.idx = index[c.key]
    /\ c.pc \in {"remove", "save"} => Change(c)
    /\ c.pc = "remove" => c.todo # <<>>
    /\ c.pc \in Writing /\ Minting(c) => NewVersion(c)
    /\ c.pc \in Writing /\ c.op = "WriteVersionRaw" => c.entry \in history[c.key]
Prepared == \A t \in Threads : InHand(call[t])

\* Whatever is listed is, field for field, an entry WriteVersion made for this
\* key: storing raw, pruning and deleting never alter or invent a version.
ListedUnaltered ==
    \A k \in Keys : \A i \in DOMAIN index[k].versions :
        index[k].versions[i] \in history[k]

\* An open stream has a file under it: its name's, or its own after removal.
OpenFilesExist ==
    \A t \in Threads : call[t].reader.file # NoVersion =>
        blob[<<call[t].key, call[t].reader.file>>] # NoBlob

\* The inductive invariant behind IndexesOK and ImplementsVersionLog.
StoreInv == /\ TypeOK
            /\ OpenFilesExist
            /\ Exclusive
            /\ Prepared
            /\ ListedUnaltered
            /\ IndexesOK

\* The index is the record of what exists: a version it lists has its complete
\* blob, except one that a later call set out to delete or write again.  In
\* particular no crash, failed copy or failed save of a new version can list a
\* version without its bytes.
Complete(k, e) == blob[<<k, e.id>>] = e.data
ListedComplete(k) ==
    \A i \in DOMAIN index[k].versions :
        LET e == index[k].versions[i]
        IN  Complete(k, e) \/ <<k, e.id>> \in atRisk
ListedVersionsComplete == \A k \in Keys : ListedComplete(k)

\* While nothing fails, the exception lasts only as long as that call: when the
\* lock is free, every listed version has its complete blob.
CompleteWhenFree ==
    \A k \in Keys : holder[k] = NoThread =>
        \A i \in DOMAIN index[k].versions : Complete(k, index[k].versions[i])

\* A goroutine that reads a version to the end gets all of it, although the
\* lock is long released and the version may be deleted or pruned meanwhile.
ReadsComplete ==
    [][\A t \in Threads : EndOfStream(t) =>
         call[t].n = (CHOOSE e \in history[call[t].key] : e.id = call[t].id).data.n]_vars

\* A version RollbackTo wrote has exactly the content of the version its
\* message names.
RollbackFaithful ==
    \A k \in Keys : \A e, f \in history[k] : e.note = f.id => e.data = f.data

\* Sequence numbers grow along the list, so nextSeq is above every one of them.
SeqsIncrease ==
    \A k \in Keys : \A i, j \in DOMAIN index[k].versions :
        i < j => index[k].versions[i].seq < index[k].versions[j].seq

\* A call on one key leaves the other keys' indexes and blobs alone.
KeysIndependent ==
    [][\A t \in Threads : Step(t) =>
         \A p \in Paths : p[1] # call[t].key =>
             index'[p[1]] = index[p[1]] /\ blob'[p] = blob[p]]_vars

\* Every call comes to an end.
EveryCallReturns == \A t \in Threads : call[t].pc # "idle" ~> call[t].pc = "idle"

\* The indexes change as VersionLog says they do: one operation at a time, each
\* from the index as it is then.
Log == INSTANCE VersionLog WITH log <- index, past <- history
ImplementsVersionLog == Log!LogSpec
=============================================================================
