---------------------------- MODULE StoreProofs ------------------------------
(***************************************************************************)
(* Theorems about Store, for every set of keys, goroutines and versions,   *)
(* every MaxVersions, every way FirstPathName may collide, every choice of *)
(* operations and of faults.  The first inductive invariant is StoreInv;   *)
(* each of its parts has a lemma that says Next preserves it.  BodyInv     *)
(* (for blobs, where prefixes differ), AtRiskHeld (where nothing fails)    *)
(* and StreamInv (for streams, without raw writes) are inductive relative  *)
(* to it.                                                                  *)
(***************************************************************************)
EXTENDS Store, VersionIndexProofs

USE DEF Writing, Paths, AllOps

-----------------------------------------------------------------------------
(* Types of the values a call is made of.                                  *)
(***************************************************************************)
LEMMA EntryTypes ==
  /\ \A e \in Entry : e.id \in VersionIDs /\ e.seq \in Nat /\ e.data \in Data
  /\ NoEntry \notin Entry
  /\ NoEntry.id = NoVersion
  /\ NoData \in Data
  /\ NoBlob \notin Data
<1>1. \A e \in Entry : e.id \in VersionIDs /\ e.seq \in Nat /\ e.data \in Data
  BY DEF Entry
<1>2. NoEntry.id = NoVersion
  BY DEF NoEntry
<1>3. NoEntry \notin Entry
  BY <1>1, <1>2, NoVersionAssumption
<1>4. NoData \in Data
  BY BlocksAssumption DEF NoData, Data, IdOrNone
<1>5. NoBlob \notin Data
  BY DEF NoBlob, Data
<1>6. QED
  BY <1>1, <1>2, <1>3, <1>4, <1>5

LEMMA BlobFields ==
  ASSUME NEW b \in Data \cup {NoBlob}
  PROVE  b.n \in -1 .. Blocks /\ b.of \in IdOrNone
BY BlocksAssumption DEF Data, NoBlob, IdOrNone

LEMMA EmptyIndexType == EmptyIndex \in Index
BY EmptySeq DEF EmptyIndex, Index, IdOrNone

LEMMA NoCallType == NoCall \in CallRecord
<1>1. (CHOOSE k \in Keys : TRUE) \in Keys
  BY KeysAssumption
<1>2. <<>> \in Seq(VersionIDs)
  BY EmptySeq
<1>3. NoReader \in [file : IdOrNone, data : Data]
  BY EntryTypes DEF NoReader, IdOrNone
<1>4. 0 \in 0 .. Blocks
  BY BlocksAssumption
<1>5. QED
  BY <1>1, <1>2, <1>3, <1>4, EmptyIndexType DEF NoCall, CallRecord, IdOrNone

\* The body a call copies from has a size within Blocks (no body is smaller
\* than the missing one, -1).
LEMMA SupplyType ==
  ASSUME TypeOK, NEW t \in Threads
  PROVE  Supply(call[t].reader, call[t].key) \in Data \cup {NoBlob}
BY DEF TypeOK, CallRecord, Supply, IdOrNone

LEMMA nextSeqType ==
  ASSUME NEW idx \in Index
  PROVE  nextSeq(idx) \in Nat
<1>1. idx.versions \in Seq(Entry)
  BY DEF Index
<1>2. CASE idx.versions = <<>>
  BY <1>2 DEF nextSeq
<1>3. CASE idx.versions # <<>>
  <2>1. Len(idx.versions) \in 1 .. Len(idx.versions)
    BY <1>1, <1>3, EmptySeq
  <2>2. idx.versions[Len(idx.versions)] \in Entry
    BY <1>1, <2>1, ElementOfSeq
  <2>3. QED
    BY <1>3, <2>2, EntryTypes DEF nextSeq
<1>4. QED
  BY <1>2, <1>3
\* A listed version's entry is one of the list.
LEMMA ResolvedEntry ==
  ASSUME NEW idx \in Index, NEW id, CanResolve(idx, id)
  PROVE  /\ resolveVersion(idx, id) \in Entry
         /\ resolveVersion(idx, id).id = ResolvedId(idx, id)
<1>1. idx.versions \in Seq(Entry)
  BY DEF Index
<1>2. /\ Position(idx.versions, ResolvedId(idx, id)) \in DOMAIN idx.versions
      /\ resolveVersion(idx, id).id = ResolvedId(idx, id)
  BY PositionListed DEF CanResolve, resolveVersion
<1>3. QED
  BY <1>1, <1>2, LenProperties, ElementOfSeq DEF resolveVersion

\* The ids a call goes through are a list of ids.
LEMMA ListedIds ==
  ASSUME NEW s \in Seq(Entry), NEW m \in 0 .. Len(s)
  PROVE  [j \in 1 .. m |-> s[j].id] \in Seq(VersionIDs)
<1>1. \A j \in 1 .. m : s[j].id \in VersionIDs
  BY LenProperties, ElementOfSeq, EntryTypes
<1>2. m \in Nat
  BY LenProperties
<1>3. [j \in 1 .. m |-> s[j].id] \in [1 .. m -> VersionIDs]
  BY <1>1
<1>4. QED
  BY <1>2, <1>3, SeqDef

\* What a call ends up saving is an index.
LEMMA ChangedIndexType ==
  ASSUME NEW idx \in Index, NEW e \in Entry
  PROVE  /\ IndexOK(idx) => pruneOldestVersions(UpsertLatest(idx, e)) \in Index
         /\ IndexOK(idx) /\ e.id \notin IdsOf(idx.versions)
              => pruneOldestVersions(AppendLatest(idx, e)) \in Index
         /\ \A id \in IdsOf(idx.versions) :
              IndexOK(idx) => RemoveVersion(idx, id) \in Index
<1>1. idx.versions \in Seq(Entry)
  BY DEF Index
<1>2. e.id \in IdOrNone
  BY EntryTypes DEF IdOrNone
<1>3. IndexOK(idx) => pruneOldestVersions(UpsertLatest(idx, e)) \in Index
  BY <1>1, <1>2, UpsertLatestOK DEF Index
<1>4. IndexOK(idx) /\ e.id \notin IdsOf(idx.versions)
        => pruneOldestVersions(AppendLatest(idx, e)) \in Index
  BY <1>1, <1>2, AppendLatestOK DEF Index, IndexOK
<1>5. ASSUME IndexOK(idx), NEW id \in IdsOf(idx.versions)
      PROVE  RemoveVersion(idx, id) \in Index
  <2> DEFINE new == RemoveVersion(idx, id)
  <2>1. /\ new = [latest |-> new.latest, versions |-> new.versions]
        /\ new.versions \in Seq(Entry)
        /\ IndexOK(new)
    BY <1>1, <1>5, RemoveVersionOK
  <2> HIDE DEF new
  <2>2. new.latest \in IdOrNone
    <3>1. CASE new.versions = <<>>
      BY <2>1, <3>1 DEF IndexOK, LatestListed, IdOrNone
    <3>2. CASE new.versions # <<>>
      <4>1. PICK i \in DOMAIN new.versions : new.latest = new.versions[i].id
        BY <2>1, <3>2 DEF IndexOK, LatestListed, IdsOf
      <4>2. new.versions[i] \in Entry
        BY <2>1, <4>1, LenProperties, ElementOfSeq
      <4>3. QED
        BY <4>1, <4>2, EntryTypes DEF IdOrNone
    <3>3. QED
      BY <3>1, <3>2
  <2>3. QED
    BY <2>1, <2>2 DEF Index, new
<1>6. QED
  BY <1>3, <1>4, <1>5
-----------------------------------------------------------------------------
(* Types, and the files under open streams.                                *)
(***************************************************************************)
LEMMA ReturnType ==
  ASSUME TypeOK, OpenFilesExist, NEW t \in Threads, Return(t),
         UNCHANGED blob
  PROVE  call' \in [Threads -> CallRecord] /\ OpenFilesExist'
BY NoCallType DEF TypeOK, Return, OpenFilesExist, NoCall, NoReader

LEMMA UnlockType ==
  ASSUME TypeOK, NEW t \in Threads, Unlock(t)
  PROVE  holder' \in [Keys -> Threads \cup {NoThread}]
BY DEF TypeOK, Unlock

\* Taking names away keeps types; a stream that loses its name keeps its bytes.
LEMMA UnlinkType ==
  ASSUME TypeOK, NEW gone \in SUBSET Paths,
         NEW next \in [Threads -> CallRecord], Unlink(gone, next),
         \A t \in Threads : next[t].reader.file # NoVersion =>
                              blob[<<next[t].key, next[t].reader.file>>] # NoBlob
  PROVE  /\ call' \in [Threads -> CallRecord]
         /\ blob' \in [Paths -> Data \cup {NoBlob}]
         /\ OpenFilesExist'
<1>1. blob' \in [Paths -> Data \cup {NoBlob}]
  BY DEF TypeOK, Unlink
<1> DEFINE lost(t) == /\ next[t].reader.file # NoVersion
                      /\ <<next[t].key, next[t].reader.file>> \in gone
           reader(t) == IF lost(t)
                          THEN [file |-> NoVersion,
                                data |-> blob[<<next[t].key, next[t].reader.file>>]]
                          ELSE next[t].reader
           dst(t) == IF next[t].pc = "copy" /\ <<next[t].key, next[t].entry.id>> \in gone
                          THEN "unnamed" ELSE next[t].dst
<1>2. \A t \in Threads : /\ reader(t) \in [file : IdOrNone, data : Data]
                         /\ dst(t) \in {"named", "unnamed"}
  BY DEF TypeOK, CallRecord, IdOrNone
<1>3. \A t \in Threads :
        call'[t] = [next[t] EXCEPT !.dst = dst(t), !.reader = reader(t)]
  BY DEF Unlink, Detached
<1> HIDE DEF dst, reader
<1>4. DOMAIN call' = Threads /\ call' = [t \in Threads |-> call'[t]]
  BY DEF Unlink
<1>5. \A t \in Threads : /\ call'[t] \in CallRecord
                         /\ call'[t].reader = reader(t)
                         /\ call'[t].key = next[t].key
  <2> TAKE t \in Threads
  <2>1. next[t] \in CallRecord /\ dst(t) \in {"named", "unnamed"}
          /\ reader(t) \in [file : IdOrNone, data : Data]
    BY <1>2
  <2>2. call'[t] = [next[t] EXCEPT !.dst = dst(t), !.reader = reader(t)]
    BY <1>3
  <2>3. ASSUME NEW c, c = next[t], NEW d, d = dst(t), NEW r, r = reader(t)
        PROVE  /\ call'[t] \in CallRecord
               /\ call'[t].reader = r
               /\ call'[t].key = c.key
    <3>1. call'[t] = [c EXCEPT !.dst = d, !.reader = r]
      BY <2>2, <2>3
    <3>2. c \in CallRecord /\ d \in {"named", "unnamed"} /\ r \in [file : IdOrNone, data : Data]
      BY <2>1, <2>3
    <3>3. QED
      BY <3>1, <3>2 DEF CallRecord
  <2>4. QED
    BY <2>3
<1>6. OpenFilesExist'
  <2> SUFFICES ASSUME NEW t \in Threads, call'[t].reader.file # NoVersion
               PROVE  blob'[<<call'[t].key, call'[t].reader.file>>] # NoBlob
    BY DEF OpenFilesExist
  <2>1. call'[t].reader = reader(t) /\ call'[t].key = next[t].key
    BY <1>5
  <2>2. ~lost(t) /\ reader(t) = next[t].reader
    BY <2>1 DEF reader
  <2>3. <<next[t].key, next[t].reader.file>> \in Paths \ gone
    BY <2>1, <2>2 DEF CallRecord, IdOrNone
  <2>4. QED
    BY <2>1, <2>2, <2>3 DEF Unlink
<1>7. QED
  BY <1>1, <1>4, <1>5, <1>6

LEMMA BeginType ==
  ASSUME StoreInv, NEW t \in Threads, Begin(t)
  PROVE  TypeOK' /\ OpenFilesExist'
<1> USE DEF StoreInv
<1>0. /\ \A k \in Keys : index[k] \in Index /\ index[k].versions \in Seq(Entry)
      /\ \A k \in Keys : nextSeq(index[k]) \in Nat
      /\ NoCall \in CallRecord
  BY nextSeqType, NoCallType DEF TypeOK, Index
<1>1. ASSUME NEW op, NEW k \in Keys, NEW id, NEW pc \in {"reading", "relock"},
             NEW asked \in IdOrNone,
             op \in {"ReadVersion", "RollbackTo"}, Open(t, op, k, id, pc, asked)
      PROVE  TypeOK' /\ OpenFilesExist'
  <2> DEFINE e == resolveVersion(index[k], id)
             c == [NoCall EXCEPT !.pc = pc, !.op = op, !.key = k, !.id = e.id, !.asked = asked,
                                 !.reader = [file |-> e.id, data |-> NoData]]
  <2>1. e \in Entry /\ e.id \in VersionIDs
    BY <1>0, <1>1, ResolvedEntry, EntryTypes DEF Open
  <2> HIDE DEF e
  <2>2. [file |-> e.id, data |-> NoData] \in [file : IdOrNone, data : Data]
    BY <2>1, EntryTypes DEF IdOrNone
  <2>3. c \in CallRecord
    BY <1>0, <1>1, <2>1, <2>2, SMTT(20), ZenonT(60) DEF CallRecord, IdOrNone
  <2>4. call' = [call EXCEPT ![t] = c] /\ UNCHANGED <<index, blob, holder, history, atRisk>>
    BY <1>1 DEF Open, e
  <2>5. blob[<<k, e.id>>] # NoBlob
    BY <1>1 DEF Open, e
  <2>6. c.reader.file = e.id /\ c.key = k
    BY <1>0 DEF CallRecord
  <2> HIDE DEF c
  <2>7. TypeOK'
    BY <2>3, <2>4 DEF TypeOK
  <2>8. OpenFilesExist'
    BY <2>4, <2>5, <2>6 DEF TypeOK, OpenFilesExist
  <2>9. QED
    BY <2>7, <2>8
<1>2. ASSUME NEW op, NEW k \in Keys, Acquire(t, op, k), NEW c \in CallRecord,
             c.reader.file = NoVersion, call' = [call EXCEPT ![t] = c]
      PROVE  TypeOK' /\ OpenFilesExist'
  <2>1. TypeOK'
    BY <1>2 DEF Acquire, TypeOK
  <2>2. OpenFilesExist'
    BY <1>2 DEF Acquire, TypeOK, OpenFilesExist
  <2>3. QED
    BY <2>1, <2>2
<1>3. CASE ReadVersion(t)
  BY <1>1, <1>3 DEF ReadVersion, IdOrNone
<1>4. CASE RollbackTo(t)
  BY <1>1, <1>4 DEF RollbackTo
<1>5. CASE WriteVersion(t)
  <2>1. PICK k \in Keys, id \in Fresh :
          /\ Acquire(t, "WriteVersion", k)
          /\ call' = [call EXCEPT ![t] =
               [NoCall EXCEPT !.pc = "create", !.op = "WriteVersion", !.key = k,
                              !.idx = index[k], !.entry = NewEntry(k, id, NoVersion),
                              !.reader = [file |-> NoVersion,
                                          data |-> [of |-> id, n |-> Blocks]]]]
    BY <1>5 DEF WriteVersion
  <2> DEFINE c == [NoCall EXCEPT !.pc = "create", !.op = "WriteVersion", !.key = k,
                              !.idx = index[k], !.entry = NewEntry(k, id, NoVersion),
                              !.reader = [file |-> NoVersion,
                                          data |-> [of |-> id, n |-> Blocks]]]
  <2>2. NewEntry(k, id, NoVersion) \in Entry
    BY <1>0, EntryTypes DEF NewEntry, Entry, Fresh, IdOrNone
  <2>3. [file |-> NoVersion, data |-> [of |-> id, n |-> Blocks]]
          \in [file : IdOrNone, data : Data]
    BY BlocksAssumption DEF Data, IdOrNone, Fresh
  <2>4. c \in CallRecord /\ c.reader.file = NoVersion
    BY <1>0, <2>2, <2>3 DEF CallRecord
  <2>5. QED
    BY <1>2, <2>1, <2>4
<1>6. CASE WriteVersionRaw(t)
  <2>0. PICK k \in Keys : WriteVersionRaw(t)!(k)
    BY <1>6 DEF WriteVersionRaw
  <2>1. PICK e \in history[k] :
          /\ Acquire(t, "WriteVersionRaw", k)
          /\ call' = [call EXCEPT ![t] =
               [NoCall EXCEPT !.pc = "create", !.op = "WriteVersionRaw", !.key = k,
                              !.idx = index[k], !.entry = e,
                              !.reader = [file |-> NoVersion, data |-> e.data]]]
    BY <2>0
  <2> DEFINE c == [NoCall EXCEPT !.pc = "create", !.op = "WriteVersionRaw", !.key = k,
                              !.idx = index[k], !.entry = e,
                              !.reader = [file |-> NoVersion, data |-> e.data]]
  <2>2. e \in Entry /\ e.data \in Data
    BY EntryTypes DEF TypeOK
  <2>3. [file |-> NoVersion, data |-> e.data] \in [file : IdOrNone, data : Data]
    BY <2>2 DEF IdOrNone
  <2>4. c \in CallRecord /\ c.reader.file = NoVersion
    BY <1>0, <2>2, <2>3 DEF CallRecord
  <2>5. QED
    BY <1>2, <2>1, <2>4
<1>7. CASE Delete(t)
  <2>1. PICK k \in Keys : 
          LET ids == [i \in DOMAIN index[k].versions |-> index[k].versions[i].id]
          IN  /\ Acquire(t, "Delete", k)
              /\ call' = [call EXCEPT ![t] =
                   [NoCall EXCEPT !.pc = Removing(ids), !.op = "Delete", !.key = k,
                                  !.idx = EmptyIndex, !.todo = ids]]
    BY <1>7 DEF Delete
  <2> DEFINE ids == [i \in DOMAIN index[k].versions |-> index[k].versions[i].id]
             c == [NoCall EXCEPT !.pc = Removing(ids), !.op = "Delete", !.key = k,
                                 !.idx = EmptyIndex, !.todo = ids]
  <2>2. ids \in Seq(VersionIDs)
    <3>1. DOMAIN index[k].versions = 1 .. Len(index[k].versions)
      BY <1>0, LenProperties
    <3>2. Len(index[k].versions) \in 0 .. Len(index[k].versions)
      BY <1>0, LenProperties
    <3>3. QED
      BY <1>0, <3>1, <3>2, ListedIds
  <2> HIDE DEF ids
  <2>3. Removing(ids) \in {"save", "remove"}
    BY DEF Removing
  <2>4. c \in CallRecord
    BY <1>0, <2>2, <2>3, EmptyIndexType DEF CallRecord
  <2>5. c.reader.file = NoVersion
    BY <1>0 DEF CallRecord, NoCall, NoReader
  <2>6. QED
    BY <1>2, <2>1, <2>4, <2>5 DEF ids
<1>8. CASE DeleteVersion(t)
  <2>0. PICK k \in Keys : DeleteVersion(t)!(k)
    BY <1>8 DEF DeleteVersion
  <2>1. PICK id \in IdsOf(index[k].versions) :
          /\ Acquire(t, "DeleteVersion", k)
          /\ call' = [call EXCEPT ![t] =
               [NoCall EXCEPT !.pc = "remove", !.op = "DeleteVersion", !.key = k,
                              !.idx = RemoveVersion(index[k], id), !.todo = <<id>>]]
    BY <2>0
  <2> DEFINE c == [NoCall EXCEPT !.pc = "remove", !.op = "DeleteVersion", !.key = k,
                              !.idx = RemoveVersion(index[k], id), !.todo = <<id>>]
  <2>2. id \in VersionIDs
    BY <1>0, LenProperties, ElementOfSeq, EntryTypes DEF IdsOf
  <2>3. PICK i \in DOMAIN index[k].versions : TRUE
    BY DEF IdsOf
  <2>4. index[k].versions[i] \in Entry
    BY <1>0, LenProperties, ElementOfSeq
  <2>5. RemoveVersion(index[k], id) \in Index
    BY <1>0, <2>4, ChangedIndexType DEF IndexesOK
  <2>6. <<id>> \in Seq(VersionIDs)
    BY <2>2
  <2>7. c \in CallRecord
    BY <1>0, <2>5, <2>6 DEF CallRecord
  <2>8. c.reader.file = NoVersion
    BY <1>0 DEF CallRecord, NoCall, NoReader
  <2>9. QED
    BY <1>2, <2>1, <2>7, <2>8
<1>9. QED
  BY <1>3, <1>4, <1>5, <1>6, <1>7, <1>8 DEF Begin
\* One call goes on, with the stream it had or with none, and no file goes away.
LEMMA GoOnType ==
  ASSUME TypeOK, OpenFilesExist, NEW t \in Threads, NEW c \in CallRecord,
         call' = [call EXCEPT ![t] = c],
         \/ c.reader = call[t].reader /\ c.key = call[t].key
         \/ c.reader.file = NoVersion,
         \A p \in Paths : blob[p] # NoBlob => blob'[p] # NoBlob
  PROVE  call' \in [Threads -> CallRecord] /\ OpenFilesExist'
<1>1. call' \in [Threads -> CallRecord]
  BY DEF TypeOK
<1>2. \A u \in Threads : call[u].key \in Keys /\ call[u].reader.file \in IdOrNone
  BY DEF TypeOK, CallRecord
<1>3. \A u \in Threads : call[u].reader.file # NoVersion =>
                         blob'[<<call[u].key, call[u].reader.file>>] # NoBlob
  BY <1>2 DEF OpenFilesExist, IdOrNone
<1>4. call'[t] = c /\ \A u \in Threads \ {t} : call'[u] = call[u]
  BY DEF TypeOK
<1>5. \A u \in Threads : call'[u].reader.file # NoVersion =>
                         blob'[<<call'[u].key, call'[u].reader.file>>] # NoBlob
  BY <1>3, <1>4
<1>6. QED
  BY <1>1, <1>5 DEF OpenFilesExist

\* While it writes, a call's entry is an entry.
LEMMA WritingEntry ==
  ASSUME StoreInv, NEW t \in Threads, call[t].pc \in Writing,
         Minting(call[t]) \/ call[t].op = "WriteVersionRaw"
  PROVE  call[t].entry \in Entry
<1>1. call[t].entry \in Entry \cup {NoEntry}
  BY DEF StoreInv, TypeOK, CallRecord
<1>2. CASE Minting(call[t])
  BY <1>1, <1>2, EntryTypes, NoVersionAssumption
     DEF StoreInv, Prepared, InHand, NewVersion
<1>3. CASE call[t].op = "WriteVersionRaw"
  <2>1. call[t].entry \in history[call[t].key]
    BY <1>3 DEF StoreInv, Prepared, InHand
  <2>2. call[t].key \in Keys
    BY DEF StoreInv, TypeOK, CallRecord
  <2>3. QED
    BY <2>1, <2>2 DEF StoreInv, TypeOK
<1>4. QED
  BY <1>2, <1>3

\* There is something left to remove while a call removes.
LEMMA RemoveTodo ==
  ASSUME StoreInv, NEW t \in Threads, call[t].pc = "remove"
  PROVE  call[t].todo # <<>>
BY DEF StoreInv, Prepared, InHand

\* The next id comes off the list, nothing else of the call changes.
LEMMA RemovedType ==
  ASSUME StoreInv, NEW t \in Threads, call[t].todo # <<>>
  PROVE  LET next == [call EXCEPT ![t] = Removed(call[t])]
         IN  /\ <<call[t].key, Head(call[t].todo)>> \in Paths
             /\ next \in [Threads -> CallRecord]
             /\ \A u \in Threads : next[u].reader = call[u].reader
                                   /\ next[u].key = call[u].key
<1> DEFINE c == call[t]
<1>1. c \in CallRecord /\ c.key \in Keys /\ c.todo \in Seq(VersionIDs)
  BY DEF StoreInv, TypeOK, CallRecord
<1>2. Head(c.todo) \in VersionIDs /\ Tail(c.todo) \in Seq(VersionIDs)
  BY <1>1, HeadTailProperties
<1>3. Removing(Tail(c.todo)) \in {"save", "remove"}
  BY DEF Removing
<1>4. Removed(c) \in CallRecord /\ Removed(c).reader = c.reader /\ Removed(c).key = c.key
  BY <1>1, <1>2, <1>3 DEF Removed, CallRecord
<1>5. QED
  BY <1>1, <1>2, <1>4 DEF StoreInv, TypeOK

LEMMA StepType ==
  ASSUME StoreInv, NEW t \in Threads, Step(t)
  PROVE  TypeOK' /\ OpenFilesExist'
<1> USE DEF StoreInv
<1> DEFINE c == call[t]
<1>0. c \in CallRecord /\ NoCall \in CallRecord /\ NoCall.reader.file = NoVersion
  BY NoCallType DEF TypeOK, NoCall, NoReader
<1>1. Supply(c.reader, c.key) \in Data \cup {NoBlob}
  BY SupplyType
<1>2. Supply(c.reader, c.key).n \in -1 .. Blocks /\ Supply(c.reader, c.key).of \in IdOrNone
  BY <1>1, BlobFields
<1>3. CASE ReadBlock(t)
  <2> DEFINE d == [c EXCEPT !.n = @ + 1]
  <2>0. c.n \in 0 .. Blocks /\ c.n < Supply(c.reader, c.key).n
    BY <1>0, <1>3 DEF ReadBlock, CallRecord
  <2>1. d \in CallRecord /\ d.reader = c.reader /\ d.key = c.key
    <3>1. c.n + 1 \in 0 .. Blocks
      BY <1>2, <2>0, BlocksAssumption
    <3>2. QED
      BY <1>0, <3>1 DEF CallRecord
  <2>2. /\ call' = [call EXCEPT ![t] = d]
        /\ UNCHANGED <<index, blob, holder, history, atRisk>>
    BY <1>3 DEF ReadBlock
  <2> HIDE DEF d
  <2>3. QED
    BY <2>1, <2>2, GoOnType DEF TypeOK
<1>4. CASE EndOfStream(t)
  BY <1>4, ReturnType DEF EndOfStream, TypeOK
<1>5. CASE RollbackWrite(t)
  <2> DEFINE k == c.key
  <2>1. PICK id \in Fresh :
          /\ Acquire(t, "RollbackTo", k)
          /\ call' = [call EXCEPT ![t].pc = "create", ![t].idx = index[k],
                                  ![t].entry = NewEntry(k, id, c.asked),
                                  ![t].asked = NoVersion]
    BY <1>5 DEF RollbackWrite
  <2>2. k \in Keys /\ index[k] \in Index
    BY <1>0 DEF CallRecord, TypeOK
  <2>3. NewEntry(k, id, c.asked) \in Entry
    BY <1>0, <2>2, EntryTypes, nextSeqType DEF NewEntry, Entry, Fresh, CallRecord
  <2> DEFINE d == [c EXCEPT !.pc = "create", !.idx = index[k],
                            !.entry = NewEntry(k, id, c.asked), !.asked = NoVersion]
  <2>4. d \in CallRecord /\ d.reader = c.reader /\ d.key = c.key
    BY <1>0, <2>2, <2>3 DEF CallRecord
  <2>5. call' \in [Threads -> CallRecord] /\ OpenFilesExist'
    <3>1. call' = [call EXCEPT ![t] = d] /\ UNCHANGED blob
      BY <2>1 DEF Acquire
    <3> HIDE DEF d
    <3>2. QED
      BY <2>4, <3>1, GoOnType
  <2>6. holder' \in [Keys -> Threads \cup {NoThread}]
    BY <2>1 DEF Acquire, TypeOK
  <2>7. QED
    BY <2>1, <2>5, <2>6 DEF Acquire, TypeOK
<1>6. CASE CreateBlob(t)
  <2>1. [c EXCEPT !.pc = "copy"] \in CallRecord
    BY <1>0 DEF CallRecord
  <2>2. [of |-> Supply(c.reader, c.key).of, n |-> 0] \in Data
    BY <1>2, BlocksAssumption DEF Data
  <2>3. blob' \in [Paths -> Data \cup {NoBlob}]
    BY <1>6, <2>2 DEF CreateBlob, TypeOK
  <2>4. \A p \in Paths : blob[p] # NoBlob => blob'[p] # NoBlob
    BY <1>6, <2>2, EntryTypes DEF CreateBlob, TypeOK
  <2>5. call' \in [Threads -> CallRecord] /\ OpenFilesExist'
    BY <1>0, <1>6, <2>1, <2>4, GoOnType DEF CreateBlob, CallRecord
  <2>6. c.entry.id \in VersionIDs /\ c.key \in Keys
    BY <1>0, <1>6, WritingEntry, EntryTypes DEF CreateBlob, Prepared, InHand, CallRecord
  <2>7. atRisk' \subseteq Paths
    BY <1>6, <2>6 DEF CreateBlob, TypeOK
  <2>8. QED
    BY <1>6, <2>3, <2>5, <2>7 DEF CreateBlob, TypeOK
<1>7. CASE CopyBlock(t)
  <2> DEFINE q == <<c.key, c.entry.id>>
  <2>0. c.n \in 0 .. Blocks /\ c.n < Supply(c.reader, c.key).n
    BY <1>0, <1>7 DEF CopyBlock, CallRecord
  <2>1. c.n + 1 \in 1 .. Blocks
    BY <1>2, <2>0, BlocksAssumption
  <2>2. [c EXCEPT !.n = @ + 1] \in CallRecord
    <3>1. c \in CallRecord /\ c.n + 1 \in 0 .. Blocks
      BY <1>0, <2>1
    <3> HIDE DEF c
    <3>2. QED
      BY <3>1 DEF CallRecord
  <2>3. q \in Paths
    BY <1>0, <1>7, WritingEntry, EntryTypes DEF CopyBlock, Prepared, InHand, CallRecord
  <2>4. blob' = blob \/ blob' = [blob EXCEPT ![q].n = c.n + 1]
    BY <1>7 DEF CopyBlock
  <2>5. [blob[q] EXCEPT !.n = c.n + 1] \in Data
    <3>1. ASSUME NEW b \in Data \cup {NoBlob}, NEW m \in 1 .. Blocks
          PROVE  [b EXCEPT !.n = m] \in Data
      BY <3>1, BlocksAssumption DEF Data, NoBlob, IdOrNone
    <3>2. blob[q] \in Data \cup {NoBlob}
      BY <2>3 DEF TypeOK
    <3>3. QED
      BY <2>1, <3>1, <3>2
  <2>6. blob' \in [Paths -> Data \cup {NoBlob}]
    BY <2>4, <2>5 DEF TypeOK
  <2>7. \A p \in Paths : blob[p] # NoBlob => blob'[p] # NoBlob
    BY <2>4, <2>5, EntryTypes DEF TypeOK
  <2>8. call' \in [Threads -> CallRecord] /\ OpenFilesExist'
    BY <1>0, <1>7, <2>2, <2>7, GoOnType DEF CopyBlock, CallRecord
  <2>9. QED
    BY <1>7, <2>6, <2>8 DEF CopyBlock, TypeOK
<1>8. CASE FinishBody(t)
  <2> DEFINE e == IF c.op = "WriteVersionRaw" THEN c.entry ELSE Counted(c)
             idx == IF c.op = "WriteVersionRaw" THEN UpsertLatest(c.idx, e)
                                                ELSE AppendLatest(c.idx, e)
             new == pruneOldestVersions(idx)
             ids == PrunedIds(idx)
             d == [c EXCEPT !.pc = Removing(ids), !.entry = e, !.idx = new,
                            !.todo = ids, !.reader = NoReader, !.n = 0]
  <2>1. /\ call' = [call EXCEPT ![t] = d]
        /\ UNCHANGED <<index, blob, holder, history, atRisk>>
        /\ c.pc = "copy"
    BY <1>8, SMTT(20), ZenonT(60) DEF FinishBody
  <2>2. /\ c.key \in Keys /\ c.idx = index[c.key] /\ c.idx \in Index /\ IndexOK(c.idx)
        /\ c.op = "WriteVersionRaw" \/ Minting(c)
    BY <1>0, <2>1 DEF CallRecord, Prepared, InHand, IndexesOK, TypeOK
  <2>3. c.entry \in Entry
    BY <2>1, <2>2, WritingEntry
  <2>4. /\ e \in Entry
        /\ e.id = c.entry.id
    <3>1. CASE c.op = "WriteVersionRaw"
      BY <2>3, <3>1
    <3>2. CASE c.op # "WriteVersionRaw"
      <4>1. c.n \in 0 .. Blocks
        BY <1>0 DEF CallRecord
      <4>2. [of |-> Supply(c.reader, c.key).of, n |-> c.n] \in Data
        BY <1>2, <4>1 DEF Data
      <4>3. QED
        BY <2>3, <3>2, <4>2 DEF Counted, Entry
    <3>3. QED
      BY <3>1, <3>2
  <2> HIDE DEF e
  <2>5. c.op # "WriteVersionRaw" => e.id \notin IdsOf(c.idx.versions)
    <3> SUFFICES ASSUME c.op # "WriteVersionRaw", NEW i \in DOMAIN c.idx.versions
                 PROVE  c.idx.versions[i].id # e.id
      BY DEF IdsOf
    <3>1. c.idx.versions[i] \in history[c.key]
      BY <2>2 DEF ListedUnaltered
    <3>2. QED
      BY <2>1, <2>2, <2>4, <3>1 DEF Prepared, InHand, NewVersion
  <2>6. new \in Index
    BY <2>2, <2>4, <2>5, ChangedIndexType
  <2>7. ids \in Seq(VersionIDs)
    <3>1. c.idx.versions \in Seq(Entry)
      BY <2>2 DEF Index
    <3>2. Append(c.idx.versions, e) \in Seq(Entry)
      BY <2>4, <3>1, AppendProperties
    <3>3. upsertVersion(c.idx.versions, e) \in Seq(Entry)
      <4>1. CASE e.id \in IdsOf(c.idx.versions)
        <5>1. Position(c.idx.versions, e.id) \in 1 .. Len(c.idx.versions)
          BY <3>1, <4>1, PositionListed, LenProperties
        <5>2. QED
          BY <2>4, <3>1, <4>1, <5>1, ExceptSeq DEF upsertVersion
      <4>2. CASE e.id \notin IdsOf(c.idx.versions)
        BY <3>2, <4>2 DEF upsertVersion
      <4>3. QED
        BY <4>1, <4>2
    <3>4. idx.versions \in Seq(Entry)
      BY <3>2, <3>3 DEF UpsertLatest, AppendLatest
    <3> HIDE DEF idx
    <3>5. PruneCut(idx.versions) \in 0 .. Len(idx.versions)
      BY <3>4, LenProperties, MaxVersionsAssumption DEF PruneCut
    <3>6. QED
      BY <3>4, <3>5, ListedIds DEF PrunedIds
  <2> HIDE DEF new, ids
  <2>8. Removing(ids) \in {"save", "remove"}
    BY DEF Removing
  <2>9. NoReader \in [file : IdOrNone, data : Data] /\ NoReader.file = NoVersion
    BY EntryTypes DEF NoReader, IdOrNone
  <2>10. 0 \in 0 .. Blocks
    BY BlocksAssumption
  <2>11. d \in CallRecord /\ d.reader = NoReader
    BY <1>0, <2>4, <2>6, <2>7, <2>8, <2>9, <2>10 DEF CallRecord
  <2> HIDE DEF d
  <2>12. call' \in [Threads -> CallRecord] /\ OpenFilesExist'
    BY <2>1, <2>9, <2>11, GoOnType
  <2>13. QED
    BY <2>1, <2>12 DEF TypeOK
<1>9. CASE RemoveBlob(t)
  <2> DEFINE q == <<c.key, Head(c.todo)>>
             next == [call EXCEPT ![t] = Removed(call[t])]
  <2>1. /\ Unlink(UnderRoot(q), next)
        /\ atRisk' \subseteq atRisk \cup {q}
        /\ UNCHANGED <<index, holder, history>>
        /\ c.pc = "remove" /\ c.todo # <<>>
    BY <1>9, RemoveTodo DEF RemoveBlob
  <2>2. /\ q \in Paths
        /\ next \in [Threads -> CallRecord]
        /\ \A u \in Threads : next[u].reader = call[u].reader /\ next[u].key = call[u].key
    BY <2>1, RemovedType
  <2>3. UnderRoot(q) \in SUBSET Paths
    BY DEF UnderRoot
  <2> HIDE DEF q, next
  <2>4. /\ call' \in [Threads -> CallRecord]
        /\ blob' \in [Paths -> Data \cup {NoBlob}]
        /\ OpenFilesExist'
    BY <2>1, <2>2, <2>3, UnlinkType DEF OpenFilesExist
  <2>5. QED
    BY <2>1, <2>2, <2>4 DEF TypeOK
<1>10. CASE SaveIndex(t)
  <2>1. /\ c.pc = "save"
        /\ index' = [index EXCEPT ![c.key] = c.idx]
        /\ history' = IF c.op \in {"WriteVersion", "RollbackTo"}
                        THEN [history EXCEPT ![c.key] = @ \cup {c.entry}] ELSE history
        /\ atRisk' \subseteq atRisk
        /\ Unlock(t)
        /\ Return(t)
        /\ UNCHANGED blob
    BY <1>10 DEF SaveIndex
  <2>2. index' \in [Keys -> Index]
    BY <1>0, <2>1 DEF TypeOK, CallRecord
  <2>3. history' \in [Keys -> SUBSET Entry]
    <3>1. CASE Minting(c)
      BY <2>1, <3>1, WritingEntry, SMTT(20), ZenonT(60) DEF TypeOK, Minting
    <3>2. CASE ~Minting(c)
      BY <2>1, <3>2 DEF TypeOK, Minting
    <3>3. QED
      BY <3>1, <3>2
  <2>4. QED
    BY <2>1, <2>2, <2>3, ReturnType, UnlockType DEF TypeOK
<1>11. QED
  BY <1>3, <1>4, <1>5, <1>6, <1>7, <1>8, <1>9, <1>10 DEF Step

LEMMA FaultType ==
  ASSUME StoreInv, NEW t \in Threads, Fault(t)
  PROVE  TypeOK' /\ OpenFilesExist'
<1> USE DEF StoreInv
<1> DEFINE c == call[t]
<1>1. CASE CreateFails(t) \/ CopyFails(t) \/ SaveFails(t)
  <2>1. Unlock(t) /\ Return(t) /\ UNCHANGED <<index, blob, history, atRisk>>
    BY <1>1 DEF CreateFails, CopyFails, SaveFails, Abandon
  <2>2. QED
    BY <2>1, ReturnType, UnlockType DEF TypeOK
<1>2. CASE RemoveFails(t)
  <2> DEFINE q == <<c.key, Head(c.todo)>>
             d == IF c.op = "DeleteVersion" THEN NoCall ELSE Removed(c)
             next == [call EXCEPT ![t] = d]
  <2>1. PICK gone \in SUBSET UnderRoot(q) : Unlink(gone, next)
    BY <1>2 DEF RemoveFails
  <2>2. /\ c.pc = "remove"
        /\ c.todo # <<>>
        /\ IF c.op = "DeleteVersion" THEN Unlock(t) ELSE UNCHANGED holder
        /\ atRisk' \subseteq atRisk \cup {q}
        /\ UNCHANGED <<index, history>>
    BY <1>2, RemoveTodo DEF RemoveFails
  <2>3. gone \in SUBSET Paths
    BY <2>1 DEF UnderRoot
  <2>4. /\ q \in Paths
        /\ next \in [Threads -> CallRecord]
        /\ \A u \in Threads : next[u].reader.file # NoVersion =>
              next[u].reader = call[u].reader /\ next[u].key = call[u].key
    <3>1. CASE c.op = "DeleteVersion"
      <4>1. next = [call EXCEPT ![t] = NoCall]
        BY <3>1
      <4>2. NoCall.reader.file = NoVersion
        BY DEF NoCall, NoReader
      <4>3. QED
        BY <2>2, <4>1, <4>2, RemovedType, NoCallType DEF TypeOK
    <3>2. CASE c.op # "DeleteVersion"
      BY <2>2, <3>2, RemovedType
    <3>3. QED
      BY <3>1, <3>2
  <2>5. holder' \in [Keys -> Threads \cup {NoThread}]
    BY <2>2, UnlockType DEF TypeOK
  <2> HIDE DEF q, next
  <2>6. /\ call' \in [Threads -> CallRecord]
        /\ blob' \in [Paths -> Data \cup {NoBlob}]
        /\ OpenFilesExist'
    BY <2>1, <2>3, <2>4, UnlinkType DEF OpenFilesExist
  <2>7. QED
    BY <2>2, <2>4, <2>5, <2>6 DEF TypeOK
<1>3. QED
  BY <1>1, <1>2 DEF Fault

LEMMA TypeStep ==
  ASSUME StoreInv, [Next]_vars
  PROVE  TypeOK' /\ OpenFilesExist'
<1>1. CASE Crash
  <2>1. TypeOK'
    BY <1>1, NoCallType DEF Crash, StoreInv, TypeOK
  <2>2. OpenFilesExist'
    BY <1>1 DEF Crash, OpenFilesExist, NoCall, NoReader
  <2>3. QED
    BY <2>1, <2>2
<1>2. CASE UNCHANGED vars
  BY <1>2 DEF vars, StoreInv, TypeOK, OpenFilesExist
<1>3. QED
  BY <1>1, <1>2, BeginType, StepType, FaultType DEF Next
-----------------------------------------------------------------------------
(* What a step of one goroutine does to the others: nothing that matters   *)
(* beyond the files they have open.                                        *)
(***************************************************************************)
SameCall(c, d) == /\ c.pc = d.pc /\ c.op = d.op /\ c.key = d.key
                  /\ c.entry = d.entry /\ c.idx = d.idx /\ c.todo = d.todo

\* What losing the names in gone does to a call that would otherwise be c.
Unlinked(u, c, gone) ==
    /\ SameCall(call'[u], c)
    /\ call'[u].n = c.n /\ call'[u].id = c.id /\ call'[u].asked = c.asked
    /\ call'[u].dst = IF c.pc = "copy" /\ <<c.key, c.entry.id>> \in gone
                        THEN "unnamed" ELSE c.dst
    /\ call'[u].reader = IF c.reader.file # NoVersion /\ <<c.key, c.reader.file>> \in gone
                           THEN [file |-> NoVersion, data |-> blob[<<c.key, c.reader.file>>]]
                           ELSE c.reader

LEMMA UnlinkKeeps ==
  ASSUME NEW gone, NEW next \in [Threads -> CallRecord], Unlink(gone, next),
         NEW u \in Threads
  PROVE  Unlinked(u, next[u], gone)
<1> DEFINE reader == IF next[u].reader.file # NoVersion
                          /\ <<next[u].key, next[u].reader.file>> \in gone
                       THEN [file |-> NoVersion,
                             data |-> blob[<<next[u].key, next[u].reader.file>>]]
                       ELSE next[u].reader
           dst == IF next[u].pc = "copy" /\ <<next[u].key, next[u].entry.id>> \in gone
                    THEN "unnamed" ELSE next[u].dst
<1>1. call'[u] = [next[u] EXCEPT !.dst = dst, !.reader = reader]
  BY DEF Unlink, Detached
<1> HIDE DEF reader, dst
<1>2. ASSUME NEW c, c = next[u], NEW d, d = dst, NEW r, r = reader
      PROVE  /\ SameCall(call'[u], c) /\ call'[u].n = c.n /\ call'[u].id = c.id
             /\ call'[u].asked = c.asked /\ call'[u].dst = d /\ call'[u].reader = r
  <2>1. call'[u] = [c EXCEPT !.dst = d, !.reader = r] /\ c \in CallRecord
    BY <1>1, <1>2
  <2>2. QED
    BY <2>1 DEF SameCall, CallRecord
<1>3. /\ SameCall(call'[u], next[u]) /\ call'[u].n = next[u].n /\ call'[u].id = next[u].id
      /\ call'[u].asked = next[u].asked /\ call'[u].dst = dst /\ call'[u].reader = reader
  BY <1>2
<1>4. QED
  BY <1>3 DEF Unlinked, dst, reader

\* What the removals do, taken together: the call that removes goes on, or
\* (DeleteVersion failing) is over.
LEMMA RemoveOutcome ==
  ASSUME StoreInv, NEW t \in Threads, RemoveBlob(t) \/ RemoveFails(t)
  PROVE  /\ call[t].pc = "remove"
         /\ \A u \in Threads \ {t} : SameCall(call'[u], call[u])
         /\ UNCHANGED <<index, history>>
         /\ \/ /\ SameCall(call'[t], Removed(call[t]))
               /\ UNCHANGED holder
            \/ /\ SameCall(call'[t], NoCall)
               /\ Unlock(t)
<1> DEFINE c == call[t]
           q == <<c.key, Head(c.todo)>>
<1>1. c.pc = "remove" /\ UNCHANGED <<index, history>>
  BY DEF RemoveBlob, RemoveFails
<1>2. call \in [Threads -> CallRecord] /\ NoCall \in CallRecord
  BY NoCallType DEF StoreInv, TypeOK
<1>3. ASSUME NEW d \in CallRecord, NEW gone, Unlink(gone, [call EXCEPT ![t] = d])
      PROVE  /\ SameCall(call'[t], d)
             /\ \A u \in Threads \ {t} : SameCall(call'[u], call[u])
  <2> DEFINE next == [call EXCEPT ![t] = d]
  <2>1. /\ next \in [Threads -> CallRecord]
        /\ next[t] = d
        /\ \A u \in Threads \ {t} : next[u] = call[u]
    BY <1>2
  <2>2. \A u \in Threads : SameCall(call'[u], next[u])
    <3> HIDE DEF next
    <3>1. QED
      BY <1>3, <2>1, UnlinkKeeps DEF next, Unlinked
  <2>3. QED
    BY <2>1, <2>2
<1>4. Removed(c) \in CallRecord
  <2>1. [call EXCEPT ![t] = Removed(c)] \in [Threads -> CallRecord]
    BY <1>1, RemoveTodo, RemovedType
  <2>2. [call EXCEPT ![t] = Removed(c)][t] = Removed(c)
    BY <1>2
  <2>3. QED
    BY <2>1, <2>2
<1>5. CASE RemoveBlob(t)
  BY <1>1, <1>3, <1>4, <1>5 DEF RemoveBlob
<1>6. CASE RemoveFails(t)
  <2>1. CASE c.op = "DeleteVersion"
    BY <1>1, <1>2, <1>3, <1>6, <2>1 DEF RemoveFails
  <2>2. CASE c.op # "DeleteVersion"
    BY <1>1, <1>3, <1>4, <1>6, <2>2 DEF RemoveFails
  <2>3. QED
    BY <2>1, <2>2
<1>7. QED
  BY <1>5, <1>6

-----------------------------------------------------------------------------
(* The lock.                                                               *)
(***************************************************************************)

\* Nobody enters or leaves a critical section.
LEMMA ExclusiveKept ==
  ASSUME StoreInv, UNCHANGED holder,
         \A u \in Threads : /\ call'[u].pc \in Writing <=> call[u].pc \in Writing
                            /\ call[u].pc \in Writing => call'[u].key = call[u].key
  PROVE  Exclusive'
BY DEF StoreInv, Exclusive

\* One goroutine takes a free lock.
LEMMA ExclusiveTaken ==
  ASSUME StoreInv, NEW t \in Threads, NEW k \in Keys,
         holder[k] = NoThread, holder' = [holder EXCEPT ![k] = t],
         call[t].pc \notin Writing, call'[t].pc \in Writing, call'[t].key = k,
         \A u \in Threads \ {t} : call'[u].pc = call[u].pc /\ call'[u].key = call[u].key
  PROVE  Exclusive'
<1>1. \A l \in Keys : holder'[l] = IF l = k THEN t ELSE holder[l]
  BY DEF StoreInv, TypeOK
<1>2. \A u \in Threads, l \in Keys :
        (call[u].pc \in Writing /\ call[u].key = l) <=> holder[l] = u
  BY DEF StoreInv, Exclusive
<1>3. SUFFICES ASSUME NEW u \in Threads, NEW l \in Keys
               PROVE  (call'[u].pc \in Writing /\ call'[u].key = l) <=> holder'[l] = u
  BY DEF Exclusive
<1>4. CASE u = t
  BY <1>1, <1>2, <1>4
<1>5. CASE u # t
  BY <1>1, <1>2, <1>5, NoThreadAssumption
<1>6. QED
  BY <1>4, <1>5

\* The holder lets go.
LEMMA ExclusiveReleased ==
  ASSUME StoreInv, NEW t \in Threads, call[t].pc \in Writing, Unlock(t),
         call'[t].pc = "idle",
         \A u \in Threads \ {t} : call'[u].pc = call[u].pc /\ call'[u].key = call[u].key
  PROVE  Exclusive'
<1>1. call[t].key \in Keys
  BY DEF StoreInv, TypeOK, CallRecord
<1>2. \A l \in Keys : holder'[l] = IF l = call[t].key THEN NoThread ELSE holder[l]
  BY <1>1 DEF StoreInv, TypeOK, Unlock
<1>3. \A u \in Threads, l \in Keys :
        (call[u].pc \in Writing /\ call[u].key = l) <=> holder[l] = u
  BY DEF StoreInv, Exclusive
<1>4. SUFFICES ASSUME NEW u \in Threads, NEW l \in Keys
               PROVE  (call'[u].pc \in Writing /\ call'[u].key = l) <=> holder'[l] = u
  BY DEF Exclusive
<1>5. CASE u = t
  BY <1>1, <1>2, <1>3, <1>5, NoThreadAssumption
<1>6. CASE u # t
  BY <1>1, <1>2, <1>3, <1>6, NoThreadAssumption
<1>7. QED
  BY <1>5, <1>6
\* A goroutine's step leaves the calls of the others as they are.
LEMMA OthersKept ==
  ASSUME StoreInv, NEW t \in Threads, Begin(t) \/ Step(t) \/ Fault(t),
         NEW u \in Threads \ {t}
  PROVE  SameCall(call'[u], call[u])
<1>0. call \in [Threads -> CallRecord]
  BY DEF StoreInv, TypeOK
<1>1. CASE Begin(t)
  <2>1. \E c : call' = [call EXCEPT ![t] = c]
    BY <1>1 DEF Begin, ReadVersion, RollbackTo, Open, WriteVersion, WriteVersionRaw,
                Delete, DeleteVersion
  <2>2. QED
    BY <1>0, <2>1 DEF SameCall
<1>2. CASE RemoveBlob(t) \/ RemoveFails(t)
  BY <1>2, RemoveOutcome
<1>3. CASE Step(t) /\ ~RemoveBlob(t)
  <2>1. \E c : call' = [call EXCEPT ![t] = c]
    BY <1>3 DEF Step, ReadBlock, EndOfStream, RollbackWrite, CreateBlob, CopyBlock,
                FinishBody, SaveIndex, Return
  <2>2. QED
    BY <1>0, <2>1 DEF SameCall
<1>4. CASE Fault(t) /\ ~RemoveFails(t)
  <2>1. \E c : call' = [call EXCEPT ![t] = c]
    BY <1>4 DEF Fault, CreateFails, CopyFails, SaveFails, Abandon, Return
  <2>2. QED
    BY <1>0, <2>1 DEF SameCall
<1>5. QED
  BY <1>1, <1>2, <1>3, <1>4 DEF Step, Fault

LEMMA ExclusiveStep ==
  ASSUME StoreInv, [Next]_vars
  PROVE  Exclusive'
<1>0. /\ call \in [Threads -> CallRecord] /\ NoCall \in CallRecord
      /\ NoCall.pc = "idle"
  BY NoCallType DEF StoreInv, TypeOK, NoCall
<1>1. CASE Crash
  BY <1>0, <1>1, NoThreadAssumption DEF Crash, Exclusive
<1>2. CASE UNCHANGED vars
  BY <1>2 DEF vars, StoreInv, Exclusive
<1>3. ASSUME NEW t \in Threads, Begin(t) \/ Step(t) \/ Fault(t)
      PROVE  Exclusive'
  <2> DEFINE c == call[t]
  <2>1. \A u \in Threads \ {t} : call'[u].pc = call[u].pc /\ call'[u].key = call[u].key
    BY <1>3, OthersKept DEF SameCall
  <2>2. CASE ReadVersion(t) \/ RollbackTo(t)
    <3>1. PICK op, k, id, pc, asked :
            pc \in {"reading", "relock"} /\ Open(t, op, k, id, pc, asked)
      BY <2>2 DEF ReadVersion, RollbackTo
    <3>2. c.pc = "idle" /\ call'[t].pc = pc /\ UNCHANGED holder
      <4>1. PICK i, r :
              call' = [call EXCEPT ![t] = [NoCall EXCEPT !.pc = pc, !.op = op, !.key = k,
                                           !.id = i, !.asked = asked, !.reader = r]]
        BY <3>1 DEF Open
      <4>2. QED
        BY <1>0, <3>1, <4>1 DEF Open, CallRecord
    <3>3. QED
      BY <2>1, <3>1, <3>2, ExclusiveKept
  <2>3. ASSUME NEW op, NEW k \in Keys, Acquire(t, op, k),
               call'[t].pc \in Writing, call'[t].key = k
        PROVE  Exclusive'
    BY <2>1, <2>3, ExclusiveTaken DEF Acquire
  <2>4. CASE WriteVersion(t)
    BY <1>0, <2>3, <2>4 DEF WriteVersion, CallRecord
  <2>5. CASE WriteVersionRaw(t)
    BY <1>0, <2>3, <2>5 DEF WriteVersionRaw, CallRecord
  <2>6. CASE Delete(t)
    BY <1>0, <2>3, <2>6 DEF Delete, CallRecord, Removing
  <2>7. CASE DeleteVersion(t)
    BY <1>0, <2>3, <2>7 DEF DeleteVersion, CallRecord
  <2>8. CASE RollbackWrite(t)
    BY <1>0, <2>3, <2>8 DEF RollbackWrite, CallRecord
  <2>9. CASE ReadBlock(t) \/ CreateBlob(t) \/ CopyBlock(t) \/ FinishBody(t)
    <3>1. /\ UNCHANGED holder
          /\ call'[t].pc \in Writing <=> c.pc \in Writing
          /\ call'[t].key = c.key
      <4>1. CASE ReadBlock(t)
        BY <1>0, <4>1 DEF ReadBlock, CallRecord
      <4>2. CASE CreateBlob(t)
        BY <1>0, <4>2 DEF CreateBlob, CallRecord
      <4>3. CASE CopyBlock(t)
        BY <1>0, <4>3 DEF CopyBlock, CallRecord
      <4>4. CASE FinishBody(t)
        BY <1>0, <4>4, SMTT(20), ZenonT(60) DEF FinishBody, CallRecord, Removing
      <4>5. QED
        BY <2>9, <4>1, <4>2, <4>3, <4>4
    <3>2. QED
      BY <2>1, <3>1, ExclusiveKept
  <2>10. CASE EndOfStream(t)
    <3>1. c.pc = "reading" /\ call'[t].pc = "idle" /\ UNCHANGED holder
      BY <1>0, <2>10 DEF EndOfStream, Return
    <3>2. QED
      BY <2>1, <3>1, ExclusiveKept
  <2>11. CASE SaveIndex(t) \/ CreateFails(t) \/ CopyFails(t) \/ SaveFails(t)
    <3>1. c.pc \in Writing /\ call'[t].pc = "idle" /\ Unlock(t)
      BY <1>0, <2>11 DEF SaveIndex, CreateFails, CopyFails, SaveFails, Abandon, Return
    <3>2. QED
      BY <2>1, <3>1, ExclusiveReleased
  <2>12. CASE RemoveBlob(t) \/ RemoveFails(t)
    <3>1. CASE SameCall(call'[t], Removed(c)) /\ UNCHANGED holder
      <4>1. Removed(c).pc \in {"save", "remove"} /\ Removed(c).key = c.key
        <5>1. Removing(Tail(c.todo)) \in {"save", "remove"}
          BY DEF Removing
        <5>2. QED
          BY <1>0, <5>1 DEF Removed, CallRecord
      <4>2. QED
        BY <2>1, <2>12, <3>1, <4>1, RemoveOutcome, ExclusiveKept DEF SameCall
    <3>2. CASE SameCall(call'[t], NoCall) /\ Unlock(t)
      BY <1>0, <2>1, <2>12, <3>2, RemoveOutcome, ExclusiveReleased DEF SameCall
    <3>3. QED
      BY <2>12, <3>1, <3>2, RemoveOutcome
  <2>13. QED
    BY <1>3, <2>2, <2>4, <2>5, <2>6, <2>7, <2>8, <2>9, <2>10, <2>11, <2>12
       DEF Begin, Step, Fault
<1>4. QED
  BY <1>1, <1>2, <1>3 DEF Next
-----------------------------------------------------------------------------
(* What a call has in hand, and the indexes on disk.                       *)
(***************************************************************************)

\* The list a call is about to save is as it must be, and lists only versions
\* of the key's history and the one the call makes.
LEMMA ChangeOK ==
  ASSUME StoreInv, NEW t \in Threads, call[t].pc \in {"remove", "save"}
  PROVE  /\ IndexOK(call[t].idx)
         /\ call[t].idx.versions \in
              Seq(history[call[t].key] \cup
                  (IF Minting(call[t]) THEN {call[t].entry} ELSE {}))
<1> DEFINE c == call[t]
           k == c.key
           idx == index[k]
           S == history[k] \cup (IF Minting(c) THEN {c.entry} ELSE {})
<1>1. k \in Keys /\ idx \in Index /\ IndexOK(idx) /\ InHand(c)
  BY DEF StoreInv, TypeOK, CallRecord, IndexesOK, Prepared
<1>2. idx.versions \in Seq(S)
  <2>1. idx.versions \in Seq(Entry)
    BY <1>1 DEF Index
  <2>2. \A i \in DOMAIN idx.versions : idx.versions[i] \in S
    BY <1>1 DEF StoreInv, ListedUnaltered
  <2> HIDE DEF S
  <2>3. Len(idx.versions) \in Nat /\ idx.versions \in [1 .. Len(idx.versions) -> S]
    BY <2>1, <2>2, LenProperties
  <2>4. QED
    BY <2>3, SeqDef
<1>3. CASE Minting(c) /\ c.idx = pruneOldestVersions(AppendLatest(idx, c.entry))
  <2>1. c.entry \in S
    BY <1>3
  <2>2. c.entry.id \notin IdsOf(idx.versions)
    <3>1. \A e \in history[k] : e.id # c.entry.id
      BY <1>1, <1>3 DEF InHand, NewVersion
    <3>2. \A i \in DOMAIN idx.versions : idx.versions[i] \in history[k]
      BY <1>1 DEF StoreInv, ListedUnaltered
    <3>3. QED
      BY <3>1, <3>2 DEF IdsOf
  <2> HIDE DEF S
  <2>3. QED
    BY <1>1, <1>2, <1>3, <2>1, <2>2, AppendLatestOK DEF IndexOK, S
<1>4. CASE /\ c.op = "WriteVersionRaw"
           /\ c.idx = pruneOldestVersions(UpsertLatest(idx, c.entry))
  <2>1. c.entry \in S
    BY <1>1, <1>4 DEF InHand
  <2> HIDE DEF S
  <2>2. QED
    BY <1>1, <1>2, <1>4, <2>1, UpsertLatestOK DEF S
<1>5. CASE \E id \in IdsOf(idx.versions) : c.idx = RemoveVersion(idx, id)
  <2> HIDE DEF S
  <2>1. QED
    BY <1>1, <1>2, <1>5, RemoveVersionOK DEF S
<1>6. CASE c.idx = EmptyIndex
  BY <1>6, EmptyIndexOK
<1>7. QED
  BY <1>1, <1>3, <1>4, <1>5, <1>6 DEF InHand, Change

\* A call that has not moved still has what it had, if its key's index has not.
LEMMA InHandKept ==
  ASSUME NEW u \in Threads, InHand(call[u]), SameCall(call'[u], call[u]),
         call[u].pc \in Writing =>
           /\ index'[call[u].key] = index[call[u].key]
           /\ history'[call[u].key] = history[call[u].key]
  PROVE  InHand(call[u])'
BY DEF InHand, Change, NewVersion, Minting, SameCall

\* Steps that save nothing: it is enough to look at the call that moves.
LEMMA PreparedKept ==
  ASSUME StoreInv, NEW t \in Threads, Begin(t) \/ Step(t) \/ Fault(t),
         UNCHANGED <<index, history>>, InHand(call[t])'
  PROVE  Prepared' /\ ListedUnaltered' /\ IndexesOK'
<1>1. ASSUME NEW u \in Threads \ {t}
      PROVE  InHand(call[u])'
  BY OthersKept, InHandKept DEF StoreInv, Prepared
<1>2. QED
  BY <1>1 DEF StoreInv, Prepared, ListedUnaltered, IndexesOK

\* A call that has ended has nothing in hand.
LEMMA InHandNothing ==
  ASSUME NEW t \in Threads, call'[t].pc \in {"idle", "reading"}
  PROVE  InHand(call[t])'
BY DEF InHand

\* saveIndex: the holder's change becomes the index of its key.
LEMMA SavePrepared ==
  ASSUME StoreInv, NEW t \in Threads, SaveIndex(t)
  PROVE  Prepared' /\ ListedUnaltered' /\ IndexesOK'
<1> DEFINE c == call[t]
           k == c.key
<1>1. /\ c.pc = "save" /\ k \in Keys
      /\ \A l \in Keys : index'[l] = IF l = k THEN c.idx ELSE index[l]
      /\ \A l \in Keys : history'[l] =
           IF l = k THEN history[l] \cup (IF Minting(c) THEN {c.entry} ELSE {})
                    ELSE history[l]
  BY DEF SaveIndex, Minting, StoreInv, TypeOK, CallRecord
<1>2. IndexOK(c.idx) /\ c.idx.versions \in Seq(history'[k])
  BY <1>1, ChangeOK
<1>3. IndexesOK'
  BY <1>1, <1>2 DEF StoreInv, IndexesOK
<1>4. ListedUnaltered'
  <2>1. \A i \in DOMAIN c.idx.versions : c.idx.versions[i] \in history'[k]
    BY <1>2, LenProperties, ElementOfSeq
  <2>2. QED
    BY <1>1, <2>1 DEF StoreInv, ListedUnaltered
<1>5. ASSUME NEW u \in Threads
      PROVE  InHand(call[u])'
  <2>1. CASE u = t
    <3>1. call'[t].pc = "idle"
      BY DEF SaveIndex, Return, NoCall, StoreInv, TypeOK
    <3>2. QED
      BY <2>1, <3>1, InHandNothing
  <2>2. CASE u # t
    <3>1. call[u].pc \in Writing => call[u].key # k
      BY <1>1, <2>2 DEF StoreInv, Exclusive
    <3>2. call[u].key \in Keys
      BY DEF StoreInv, TypeOK, CallRecord
    <3>3. QED
      BY <1>1, <2>2, <3>1, <3>2, OthersKept, InHandKept DEF StoreInv, Prepared, Step
  <2>3. QED
    BY <2>1, <2>2
<1>6. QED
  BY <1>3, <1>4, <1>5 DEF Prepared
\* A call that has just taken the lock.
LEMMA BeginPrepared ==
  ASSUME StoreInv, NEW t \in Threads, Begin(t) \/ RollbackWrite(t)
  PROVE  Prepared' /\ ListedUnaltered' /\ IndexesOK'
<1> DEFINE c == call[t]
           d == call'[t]
<1>0. call \in [Threads -> CallRecord] /\ NoCall \in CallRecord
  BY NoCallType DEF StoreInv, TypeOK
<1>a. Begin(t) \/ Step(t) \/ Fault(t)
  BY DEF Step
<1>1. UNCHANGED <<index, history>>
  BY DEF Begin, ReadVersion, RollbackTo, Open, WriteVersion, WriteVersionRaw, Delete,
         DeleteVersion, RollbackWrite, Acquire
<1>2. ASSUME NEW k \in Keys, NEW id \in Fresh, NEW note, d.pc = "create", d.key = k,
             Minting(d), d.idx = index[k], d.entry = NewEntry(k, id, note)
      PROVE  InHand(call[t])'
  <2>1. d.entry.id = id /\ d.entry.seq = nextSeq(index[k])
    BY <1>2 DEF NewEntry
  <2>2. id \in VersionIDs /\ \A e \in history[k] : e.id # id
    BY DEF Fresh
  <2>3. d.op # "WriteVersionRaw"
    BY <1>2 DEF Minting
  <2>4. QED
    BY <1>1, <1>2, <2>1, <2>2, <2>3 DEF InHand, NewVersion, Minting
<1>3. CASE ReadVersion(t) \/ RollbackTo(t)
  <2>1. PICK op, k, id, pc, asked :
          /\ Open(t, op, k, id, pc, asked)
          /\ pc = "reading" \/ (pc = "relock" /\ op = "RollbackTo")
    BY <1>3 DEF ReadVersion, RollbackTo
  <2>2. PICK i, r : call' = [call EXCEPT ![t] =
          [NoCall EXCEPT !.pc = pc, !.op = op, !.key = k, !.id = i, !.asked = asked,
                         !.reader = r]]
    BY <2>1 DEF Open
  <2>3. d.pc = pc /\ d.op = op
    BY <1>0, <2>2 DEF CallRecord
  <2>4. InHand(call[t])'
    BY <2>1, <2>3 DEF InHand
  <2>5. QED
    BY <1>1, <2>4, <1>a, PreparedKept
<1>4. CASE WriteVersion(t)
  <2>1. PICK k \in Keys, id \in Fresh : \E r : call' = [call EXCEPT ![t] =
          [NoCall EXCEPT !.pc = "create", !.op = "WriteVersion", !.key = k,
                         !.idx = index[k], !.entry = NewEntry(k, id, NoVersion),
                         !.reader = r]]
    BY <1>4 DEF WriteVersion
  <2>2. /\ d.pc = "create" /\ d.op = "WriteVersion" /\ d.key = k /\ d.idx = index[k]
        /\ d.entry = NewEntry(k, id, NoVersion)
    BY <1>0, <2>1 DEF CallRecord
  <2>3. QED
    BY <1>1, <1>2, <2>2, <1>a, PreparedKept DEF Minting
<1>5. CASE RollbackWrite(t)
  <2>1. PICK id \in Fresh : call' = [call EXCEPT ![t].pc = "create",
          ![t].idx = index[c.key], ![t].entry = NewEntry(c.key, id, c.asked),
          ![t].asked = NoVersion]
    BY <1>5 DEF RollbackWrite
  <2>2. c.op = "RollbackTo" /\ c.key \in Keys
    BY <1>5 DEF RollbackWrite, Acquire, StoreInv, Prepared, InHand, TypeOK, CallRecord
  <2>3. /\ d.pc = "create" /\ d.op = "RollbackTo" /\ d.key = c.key
        /\ d.idx = index[c.key] /\ d.entry = NewEntry(c.key, id, c.asked)
    BY <1>0, <2>1, <2>2 DEF CallRecord
  <2>4. QED
    BY <1>1, <1>2, <1>5, <2>2, <2>3, <1>a, PreparedKept DEF Minting
<1>6. CASE WriteVersionRaw(t)
  <2>1. PICK k \in Keys : WriteVersionRaw(t)!(k)
    BY <1>6 DEF WriteVersionRaw
  <2>2. PICK e \in history[k] : \E r : call' = [call EXCEPT ![t] =
          [NoCall EXCEPT !.pc = "create", !.op = "WriteVersionRaw", !.key = k,
                         !.idx = index[k], !.entry = e, !.reader = r]]
    BY <2>1
  <2>3. /\ d.pc = "create" /\ d.op = "WriteVersionRaw" /\ d.key = k
        /\ d.idx = index[k] /\ d.entry = e
    BY <1>0, <2>2 DEF CallRecord
  <2>4. InHand(call[t])'
    BY <1>1, <2>3 DEF InHand, Minting
  <2>5. QED
    BY <1>1, <2>4, <1>a, PreparedKept
<1>7. CASE Delete(t)
  <2>1. PICK k \in Keys : Delete(t)!(k)
    BY <1>7 DEF Delete
  <2>2. PICK ids : call' = [call EXCEPT ![t] =
          [NoCall EXCEPT !.pc = Removing(ids), !.op = "Delete", !.key = k,
                         !.idx = EmptyIndex, !.todo = ids]]
    BY <2>1
  <2>a. /\ d.pc = Removing(ids) /\ d.op = "Delete" /\ d.idx = EmptyIndex
        /\ d.todo = ids
    BY <1>0, <2>2 DEF CallRecord
  <2>3. InHand(call[t])'
    BY <1>1, <2>a DEF InHand, Minting, Change, Removing
  <2>4. QED
    BY <1>1, <2>3, <1>a, PreparedKept
<1>8. CASE DeleteVersion(t)
  <2>1. PICK k \in Keys : DeleteVersion(t)!(k)
    BY <1>8 DEF DeleteVersion
  <2>2. PICK id \in IdsOf(index[k].versions) : call' = [call EXCEPT ![t] =
          [NoCall EXCEPT !.pc = "remove", !.op = "DeleteVersion", !.key = k,
                         !.idx = RemoveVersion(index[k], id), !.todo = <<id>>]]
    BY <2>1
  <2>3. /\ d.pc = "remove" /\ d.op = "DeleteVersion" /\ d.key = k
        /\ d.idx = RemoveVersion(index[k], id) /\ d.todo = <<id>>
    BY <1>0, <2>2 DEF CallRecord
  <2>4. InHand(call[t])'
    BY <1>1, <2>3 DEF InHand, Minting, Change
  <2>5. QED
    BY <1>1, <2>4, <1>a, PreparedKept
<1>9. QED
  BY <1>3, <1>4, <1>5, <1>6, <1>7, <1>8 DEF Begin

LEMMA PreparedStep ==
  ASSUME StoreInv, [Next]_vars
  PROVE  Prepared' /\ ListedUnaltered' /\ IndexesOK'
<1>0. call \in [Threads -> CallRecord] /\ NoCall \in CallRecord /\ NoCall.pc = "idle"
  BY NoCallType DEF StoreInv, TypeOK, NoCall
<1>1. CASE Crash
  BY <1>0, <1>1 DEF Crash, StoreInv, Prepared, InHand, ListedUnaltered, IndexesOK
<1>2. CASE UNCHANGED vars
  BY <1>2 DEF vars, StoreInv, Prepared, ListedUnaltered, IndexesOK, InHand, Change,
              NewVersion, Minting
<1>3. ASSUME NEW t \in Threads, Begin(t) \/ Step(t) \/ Fault(t)
      PROVE  Prepared' /\ ListedUnaltered' /\ IndexesOK'
  <2> DEFINE c == call[t]
             d == call'[t]
  <2>0. InHand(c) /\ c \in CallRecord /\ c.key \in Keys
    BY <1>0 DEF StoreInv, Prepared, CallRecord
  <2>1. CASE Begin(t) \/ RollbackWrite(t)
    BY <2>1, BeginPrepared
  <2>2. CASE SaveIndex(t)
    BY <2>2, SavePrepared
  <2>3. CASE ReadBlock(t)
    <3>1. d.pc = "reading" /\ UNCHANGED <<index, history>>
      BY <1>0, <2>3 DEF ReadBlock, CallRecord
    <3>2. QED
      BY <1>3, <3>1, InHandNothing, PreparedKept
  <2>4. CASE EndOfStream(t) \/ CreateFails(t) \/ CopyFails(t) \/ SaveFails(t)
    <3>1. d.pc = "idle" /\ UNCHANGED <<index, history>>
      BY <1>0, <2>4 DEF EndOfStream, CreateFails, CopyFails, SaveFails, Abandon, Return
    <3>2. QED
      BY <1>3, <3>1, InHandNothing, PreparedKept
  <2>5. CASE CreateBlob(t) \/ CopyBlock(t)
    <3>1. /\ c.pc \in {"create", "copy"} /\ d.pc = "copy"
          /\ d.op = c.op /\ d.key = c.key /\ d.idx = c.idx /\ d.entry = c.entry
          /\ UNCHANGED <<index, history>>
      BY <1>0, <2>5 DEF CreateBlob, CopyBlock, CallRecord
    <3>2. InHand(call[t])'
      BY <2>0, <3>1 DEF InHand, Minting, NewVersion
    <3>3. QED
      BY <1>3, <3>1, <3>2, PreparedKept
  <2>6. CASE FinishBody(t)
    <3> DEFINE e == IF c.op = "WriteVersionRaw" THEN c.entry ELSE Counted(c)
               idx == IF c.op = "WriteVersionRaw" THEN UpsertLatest(c.idx, e)
                                                  ELSE AppendLatest(c.idx, e)
    <3>1. /\ c.pc = "copy"
          /\ d.pc = Removing(PrunedIds(idx)) /\ d.todo = PrunedIds(idx)
          /\ d.entry = e /\ d.idx = pruneOldestVersions(idx)
          /\ d.op = c.op /\ d.key = c.key
          /\ UNCHANGED <<index, history>>
      BY <1>0, <2>6, SMTT(20), ZenonT(60) DEF FinishBody, CallRecord
    <3>2. c.idx = index[c.key] /\ (Minting(c) \/ c.op = "WriteVersionRaw")
      BY <2>0, <3>1 DEF InHand
    <3>3. c.entry \in Entry
      BY <3>1, <3>2, WritingEntry
    <3>4. e.id = c.entry.id /\ e.seq = c.entry.seq
      BY <3>3 DEF Counted, Entry
    <3>5. Change(call[t])'
      <4>1. CASE c.op = "WriteVersionRaw"
        BY <3>1, <3>2, <4>1 DEF Change
      <4>2. CASE Minting(c)
        BY <3>1, <3>2, <4>2 DEF Change, Minting
      <4>3. QED
        BY <3>2, <4>1, <4>2
    <3>6. Minting(call[t])' => NewVersion(call[t])'
      BY <2>0, <3>1, <3>4 DEF InHand, Minting, NewVersion
    <3>7. c.op = "WriteVersionRaw" => d.entry \in history'[d.key]
      BY <2>0, <3>1 DEF InHand
    <3> HIDE DEF e, idx
    <3>8. InHand(call[t])'
      BY <3>1, <3>5, <3>6, <3>7 DEF InHand, Removing, Minting
    <3>9. QED
      BY <1>3, <3>1, <3>8, PreparedKept, SMTT(30)
  <2>7. CASE RemoveBlob(t) \/ RemoveFails(t)
    <3>1. UNCHANGED <<index, history>> /\ c.pc = "remove"
      BY <2>7, RemoveOutcome
    <3>2. CASE SameCall(d, Removed(c))
      <4>1. /\ Removed(c).pc = Removing(Tail(c.todo)) /\ Removed(c).todo = Tail(c.todo)
            /\ Removed(c).op = c.op /\ Removed(c).key = c.key
            /\ Removed(c).idx = c.idx /\ Removed(c).entry = c.entry
        BY <2>0 DEF Removed, CallRecord
      <4>2. /\ d.pc = Removing(d.todo)
            /\ d.op = c.op /\ d.key = c.key /\ d.idx = c.idx /\ d.entry = c.entry
        BY <3>2, <4>1 DEF SameCall
      <4>3. Change(call[t])'
        BY <2>0, <3>1, <4>2 DEF InHand, Change, Minting
      <4>4. QED
        <5>1. InHand(call[t])'
          BY <2>0, <3>1, <4>2, <4>3 DEF InHand, Minting, NewVersion, Removing
        <5>2. QED
          BY <1>3, <3>1, <5>1, PreparedKept
    <3>3. CASE SameCall(d, NoCall)
      BY <1>0, <1>3, <3>1, <3>3, InHandNothing, PreparedKept DEF SameCall
    <3>4. QED
      BY <2>7, <3>2, <3>3, RemoveOutcome
  <2>8. QED
    BY <1>3, <2>1, <2>2, <2>3, <2>4, <2>5, <2>6, <2>7 DEF Step, Fault
<1>4. QED
  BY <1>1, <1>2, <1>3 DEF Next

-----------------------------------------------------------------------------
LEMMA StoreInvInit == Init => StoreInv
<1> SUFFICES ASSUME Init PROVE StoreInv
  OBVIOUS
<1>1. TypeOK
  BY NoCallType, EmptyIndexType DEF Init, TypeOK
<1>2. OpenFilesExist
  BY DEF Init, OpenFilesExist, NoCall, NoReader
<1>3. Exclusive
  BY NoThreadAssumption DEF Init, Exclusive, NoCall
<1>4. Prepared
  BY DEF Init, Prepared, InHand, NoCall
<1>5. ListedUnaltered
  BY DEF Init, ListedUnaltered, EmptyIndex
<1>6. IndexesOK
  BY EmptyIndexOK DEF Init, IndexesOK
<1>7. QED
  BY <1>1, <1>2, <1>3, <1>4, <1>5, <1>6 DEF StoreInv

\* The inductive invariant: whatever operations the callers use and whatever
\* fails, types are right, the lock excludes, every call works on the index as
\* it is, and every index is as it must be.
THEOREM StoreInvariant == Spec => []StoreInv
<1>1. Init => StoreInv
  BY StoreInvInit
<1>2. StoreInv /\ [Next]_vars => StoreInv'
  BY TypeStep, ExclusiveStep, PreparedStep DEF StoreInv
<1>3. QED
  BY <1>1, <1>2, PTL DEF Spec

\* Store never leaves its types.
THEOREM TypeCorrect == Spec => []TypeOK
<1>1. StoreInv => TypeOK
  BY DEF StoreInv
<1>2. QED
  BY <1>1, StoreInvariant, PTL

\* sync.RWMutex per key, taken by every method that writes: one goroutine at a
\* time is between the load and the save of a key's index.
THEOREM LockExcludes == Spec => []Exclusive
<1>1. StoreInv => Exclusive
  BY DEF StoreInv
<1>2. QED
  BY <1>1, StoreInvariant, PTL

\* saveIndex never writes, and no crash or failure leaves, an index with a
\* version twice, with a latest version it does not list, or over MaxVersions.
THEOREM IndexesAlwaysOK == Spec => []IndexesOK
<1>1. StoreInv => IndexesOK
  BY DEF StoreInv
<1>2. QED
  BY <1>1, StoreInvariant, PTL

-----------------------------------------------------------------------------
(* The refinement.  The abstract module's operators on indexes are the same *)
(* definitions, reached through the instance.                               *)
LEMMA LogOperators ==
  ASSUME NEW idx, NEW e, NEW id
  PROVE  /\ Log!pruneOldestVersions(idx) = pruneOldestVersions(idx)
         /\ Log!AppendLatest(idx, e) = AppendLatest(idx, e)
         /\ Log!UpsertLatest(idx, e) = UpsertLatest(idx, e)
         /\ Log!RemoveVersion(idx, id) = RemoveVersion(idx, id)
         /\ Log!nextSeq(idx) = nextSeq(idx)
         /\ Log!IdsOf(idx.versions) = IdsOf(idx.versions)
         /\ Log!EmptyIndex = EmptyIndex
BY DEF Log!pruneOldestVersions, pruneOldestVersions, Log!DropFirst, DropFirst,
       Log!PruneCut, PruneCut, Log!AppendLatest, AppendLatest, Log!UpsertLatest,
       UpsertLatest, Log!upsertVersion, upsertVersion, Log!Position, Position,
       Log!IdsOf, IdsOf, Log!RemoveVersion, RemoveVersion, Log!WithoutPosition,
       WithoutPosition, Log!nextSeq, nextSeq, Log!EmptyIndex, EmptyIndex

\* Every step but saveIndex leaves the indexes alone.
LEMMA OnlySaveChanges ==
  ASSUME StoreInv, [Next]_vars
  PROVE  UNCHANGED <<index, history>> \/ \E t \in Threads : SaveIndex(t)
<1>1. ASSUME NEW t \in Threads, RemoveBlob(t) \/ RemoveFails(t)
      PROVE  UNCHANGED <<index, history>>
  BY <1>1, RemoveOutcome
<1>2. ASSUME NEW t \in Threads, Begin(t)
      PROVE  UNCHANGED <<index, history>>
  BY <1>2 DEF Begin, ReadVersion, RollbackTo, Open, WriteVersion, WriteVersionRaw,
              Delete, DeleteVersion, Acquire
<1>3. ASSUME NEW t \in Threads, Step(t), ~SaveIndex(t)
      PROVE  UNCHANGED <<index, history>>
  BY <1>1, <1>3 DEF Step, ReadBlock, EndOfStream, RollbackWrite, Acquire, CreateBlob,
                    CopyBlock, FinishBody
<1>4. ASSUME NEW t \in Threads, Fault(t)
      PROVE  UNCHANGED <<index, history>>
  BY <1>1, <1>4 DEF Fault, CreateFails, CopyFails, SaveFails
<1>5. QED
  BY <1>2, <1>3, <1>4 DEF Next, vars, Crash

\* What saveIndex does is one of the four operations.
LEMMA SaveIsLogged ==
  ASSUME StoreInv, NEW t \in Threads, SaveIndex(t)
  PROVE  Log!LogNext
<1> DEFINE c == call[t]
           k == c.key
<1>1. /\ c.pc = "save" /\ k \in Keys /\ Change(c)
      /\ index' = [index EXCEPT ![k] = c.idx]
      /\ history' = IF Minting(c) THEN [history EXCEPT ![k] = @ \cup {c.entry}]
                                  ELSE history
  BY DEF SaveIndex, Minting, StoreInv, TypeOK, CallRecord, Prepared, InHand
<1>2. CASE Minting(c) /\ c.idx = pruneOldestVersions(AppendLatest(index[k], c.entry))
  <2>1. NewVersion(c)
    BY <1>1, <1>2 DEF StoreInv, Prepared, InHand, Writing
  <2>2. c.entry \in history'[k]
    BY <1>1, <1>2 DEF StoreInv, TypeOK
  <2>3. /\ c.entry.id \in VersionIDs \ {f.id : f \in history[k]}
        /\ c.entry.seq = nextSeq(index[k])
    BY <2>1 DEF NewVersion
  <2>4. /\ index' = [index EXCEPT ![k] = pruneOldestVersions(AppendLatest(index[k], c.entry))]
        /\ history' = [history EXCEPT ![k] = history[k] \cup {c.entry}]
    BY <1>1, <1>2
  <2>5. Log!Commit(k)
    BY <2>2, <2>3, <2>4, LogOperators DEF Log!Commit
  <2>6. QED
    BY <1>1, <2>5 DEF Log!LogNext
<1>3. CASE /\ c.op = "WriteVersionRaw"
           /\ c.idx = pruneOldestVersions(UpsertLatest(index[k], c.entry))
  <2>1. c.entry \in history[k] /\ ~Minting(c)
    BY <1>1, <1>3 DEF StoreInv, Prepared, InHand, Writing, Minting
  <2>2. Log!Restore(k)
    BY <1>1, <1>3, <2>1, LogOperators DEF Log!Restore
  <2>3. QED
    BY <1>1, <2>2 DEF Log!LogNext
<1>4. CASE /\ c.op = "DeleteVersion"
           /\ \E id \in IdsOf(index[k].versions) : c.idx = RemoveVersion(index[k], id)
  <2>1. PICK id \in IdsOf(index[k].versions) : c.idx = RemoveVersion(index[k], id)
    BY <1>4
  <2>2. ~Minting(c)
    BY <1>4 DEF Minting
  <2>3. Log!Remove(k)
    BY <1>1, <2>1, <2>2, LogOperators DEF Log!Remove
  <2>4. QED
    BY <1>1, <2>3 DEF Log!LogNext
<1>5. CASE c.op = "Delete" /\ c.idx = EmptyIndex
  <2>1. ~Minting(c)
    BY <1>5 DEF Minting
  <2>2. Log!Clear(k)
    BY <1>1, <1>5, <2>1, LogOperators DEF Log!Clear
  <2>3. QED
    BY <1>1, <2>2 DEF Log!LogNext
<1>6. QED
  BY <1>1, <1>2, <1>3, <1>4, <1>5 DEF Change

\* The store implements its abstract specification: no update of an index is
\* ever lost, and every change is one of the four VersionLog allows.
THEOREM StoreImplementsVersionLog == Spec => ImplementsVersionLog
<1>1. Init => Log!LogInit
  BY DEF Init, Log!LogInit, Log!EmptyIndex, EmptyIndex
<1>2. StoreInv /\ [Next]_vars => [Log!LogNext]_(Log!logVars)
  BY OnlySaveChanges, SaveIsLogged DEF Log!logVars
<1>3. QED
  BY <1>1, <1>2, StoreInvariant, PTL DEF Spec, ImplementsVersionLog, Log!LogSpec

-----------------------------------------------------------------------------
(* Sequence numbers.  They grow along every list as long as versions come   *)
(* in only as nextSeq numbers them, that is without WriteVersionRaw.        *)
(***************************************************************************)

\* A goroutine is in a method its callers use, or in none.
OpsUsed == \A t \in Threads : call[t].op \in Ops \cup {"none"}

LEMMA OpsUsedStep ==
  ASSUME StoreInv, OpsUsed, [Next]_vars
  PROVE  OpsUsed'
<1>0. call \in [Threads -> CallRecord] /\ NoCall \in CallRecord /\ NoCall.op = "none"
  BY NoCallType DEF StoreInv, TypeOK, NoCall
<1>1. CASE Crash
  BY <1>0, <1>1 DEF Crash, OpsUsed
<1>2. CASE UNCHANGED vars
  BY <1>2 DEF vars, OpsUsed
<1>3. ASSUME NEW t \in Threads, Begin(t) \/ Step(t) \/ Fault(t)
      PROVE  OpsUsed'
  <2> DEFINE c == call[t]
             d == call'[t]
  <2>1. \A u \in Threads \ {t} : call'[u].op = call[u].op
    BY <1>3, OthersKept DEF SameCall
  <2>2. c \in CallRecord /\ c.op \in Ops \cup {"none"}
    BY <1>0 DEF OpsUsed
  <2> SUFFICES d.op \in Ops \cup {"none"}
    BY <2>1 DEF OpsUsed
  <2>3. CASE ReadVersion(t) \/ RollbackTo(t)
    <3>1. PICK op, k, id, pc, asked : Open(t, op, k, id, pc, asked)
      BY <2>3 DEF ReadVersion, RollbackTo
    <3>2. op \in Ops
      BY <3>1 DEF Open
    <3>3. PICK i, r : call' = [call EXCEPT ![t] =
            [NoCall EXCEPT !.pc = pc, !.op = op, !.key = k, !.id = i, !.asked = asked,
                           !.reader = r]]
      BY <3>1 DEF Open
    <3>4. QED
      BY <1>0, <3>2, <3>3 DEF CallRecord
  <2>4. CASE WriteVersion(t)
    BY <1>0, <2>4 DEF WriteVersion, Acquire, CallRecord
  <2>5. CASE WriteVersionRaw(t)
    BY <1>0, <2>5 DEF WriteVersionRaw, Acquire, CallRecord
  <2>6. CASE Delete(t)
    BY <1>0, <2>6 DEF Delete, Acquire, CallRecord
  <2>7. CASE DeleteVersion(t)
    BY <1>0, <2>7 DEF DeleteVersion, Acquire, CallRecord
  <2>8. CASE ReadBlock(t) \/ RollbackWrite(t) \/ CreateBlob(t) \/ CopyBlock(t) \/ FinishBody(t)
    <3>1. d.op = c.op
      <4>1. CASE ReadBlock(t) \/ CreateBlob(t) \/ CopyBlock(t)
        BY <1>0, <2>2, <4>1 DEF ReadBlock, CreateBlob, CopyBlock, CallRecord
      <4>2. CASE RollbackWrite(t)
        BY <1>0, <2>2, <4>2 DEF RollbackWrite, CallRecord
      <4>3. CASE FinishBody(t)
        <5>1. PICK pc, e, idx, todo :
                call' = [call EXCEPT ![t].pc = pc, ![t].entry = e, ![t].idx = idx,
                                     ![t].todo = todo, ![t].reader = NoReader, ![t].n = 0]
          BY <4>3 DEF FinishBody
        <5>2. QED
          BY <1>0, <2>2, <5>1 DEF CallRecord
      <4>4. QED
        BY <2>8, <4>1, <4>2, <4>3
    <3>2. QED
      BY <2>2, <3>1
  <2>9. CASE EndOfStream(t) \/ SaveIndex(t) \/ CreateFails(t) \/ CopyFails(t) \/ SaveFails(t)
    BY <1>0, <2>9 DEF EndOfStream, SaveIndex, CreateFails, CopyFails, SaveFails, Abandon,
                      Return
  <2>10. CASE RemoveBlob(t) \/ RemoveFails(t)
    <3>1. Removed(c).op = c.op
      BY <2>2 DEF Removed, CallRecord
    <3>2. QED
      BY <1>0, <2>2, <2>10, <3>1, RemoveOutcome DEF SameCall
  <2>11. QED
    BY <1>3, <2>3, <2>4, <2>5, <2>6, <2>7, <2>8, <2>9, <2>10 DEF Begin, Step, Fault
<1>4. QED
  BY <1>1, <1>2, <1>3 DEF Next

LEMMA OpsUsedAlways == Spec => []OpsUsed
<1>1. Init => OpsUsed
  BY DEF Init, OpsUsed, NoCall
<1>2. StoreInv /\ OpsUsed /\ [Next]_vars => OpsUsed'
  BY OpsUsedStep
<1>3. QED
  BY <1>1, <1>2, StoreInvariant, PTL DEF Spec

\* Saving keeps the numbers of a list growing.
LEMMA SaveIncreases ==
  ASSUME StoreInv, OpsUsed, "WriteVersionRaw" \notin Ops, SeqsIncrease,
         NEW t \in Threads, SaveIndex(t)
  PROVE  SeqsIncrease'
<1> DEFINE c == call[t]
           k == c.key
           idx == index[k]
<1>1. /\ c.pc = "save" /\ k \in Keys /\ Change(c)
      /\ \A l \in Keys : index'[l] = IF l = k THEN c.idx ELSE index[l]
  BY DEF SaveIndex, StoreInv, TypeOK, CallRecord, Prepared, InHand
<1>2. idx \in Index /\ idx.versions \in Seq(Entry) /\ Increasing(idx.versions)
  BY <1>1 DEF StoreInv, TypeOK, Index, SeqsIncrease, Increasing
<1>3. c.op # "WriteVersionRaw"
  BY DEF OpsUsed
<1>a. SUFFICES Increasing(c.idx.versions)
  BY <1>1 DEF SeqsIncrease, Increasing
<1>4. CASE Minting(c) /\ c.idx = pruneOldestVersions(AppendLatest(idx, c.entry))
  <2>1. c.entry \in Entry /\ c.entry.seq = nextSeq(idx)
    BY <1>1, <1>4, WritingEntry DEF StoreInv, Prepared, InHand, NewVersion
  <2>2. Increasing(AppendLatest(idx, c.entry).versions)
    BY <1>2, <2>1, EntryTypes, AppendIncreasing
  <2>3. AppendLatest(idx, c.entry).versions \in Seq(Entry)
    BY <1>2, <2>1, AppendProperties DEF AppendLatest
  <2>4. Increasing(pruneOldestVersions(AppendLatest(idx, c.entry)).versions)
    BY <2>2, <2>3, PruneIncreasing DEF AppendLatest
  <2>5. QED
    BY <1>4, <2>4
<1>5. CASE \E id \in IdsOf(idx.versions) : c.idx = RemoveVersion(idx, id)
  BY <1>2, <1>5, RemoveIncreasing
<1>6. CASE c.idx = EmptyIndex
  BY <1>6 DEF EmptyIndex, Increasing
<1>7. QED
  BY <1>1, <1>3, <1>4, <1>5, <1>6 DEF Change

\* nextSeq looks at the last entry only: without WriteVersionRaw that is the
\* entry with the highest number, so no two listed versions share a number.
THEOREM SequenceNumbersGrow ==
  ASSUME "WriteVersionRaw" \notin Ops
  PROVE  Spec => []SeqsIncrease
<1>1. Init => SeqsIncrease
  BY DEF Init, SeqsIncrease, EmptyIndex
<1>2. StoreInv /\ OpsUsed /\ SeqsIncrease /\ [Next]_vars => SeqsIncrease'
  <2> SUFFICES ASSUME StoreInv, OpsUsed, SeqsIncrease, [Next]_vars
               PROVE  SeqsIncrease'
    OBVIOUS
  <2>1. CASE UNCHANGED <<index, history>>
    BY <2>1 DEF SeqsIncrease
  <2>2. QED
    BY <2>1, OnlySaveChanges, SaveIncreases
<1>3. QED
  BY <1>1, <1>2, StoreInvariant, OpsUsedAlways, PTL DEF Spec

-----------------------------------------------------------------------------
(* What the steps do, put the way the rest of the proofs use it.            *)
(***************************************************************************)
Target(c) == <<c.key, c.entry.id>>

\* Two goroutines inside critical sections are at different keys.
LEMMA KeysApart ==
  ASSUME StoreInv, NEW t \in Threads, NEW u \in Threads \ {t},
         call[t].pc \in Writing, call[u].pc \in Writing
  PROVE  call[t].key # call[u].key
<1>1. call[t].key \in Keys /\ call[u].key \in Keys
  BY DEF StoreInv, TypeOK, CallRecord
<1>2. holder[call[t].key] = t /\ holder[call[u].key] = u
  BY <1>1 DEF StoreInv, Exclusive
<1>3. QED
  BY <1>2

\* A removal takes some files below the directory it is given away, and the
\* next id off the list; or (DeleteVersion failing) ends the call.
RemovedGoesOn(t, gone) ==
    LET c == call[t]
        d == call'[t]
    IN  /\ d.pc = Removing(Tail(c.todo)) /\ d.todo = Tail(c.todo)
        /\ d.op = c.op /\ d.key = c.key /\ d.entry = c.entry /\ d.idx = c.idx
        /\ d.n = c.n /\ d.id = c.id /\ d.dst = c.dst
        /\ d.reader = IF c.reader.file # NoVersion /\ <<c.key, c.reader.file>> \in gone
                        THEN [file |-> NoVersion, data |-> blob[<<c.key, c.reader.file>>]]
                        ELSE c.reader
RemovedEnds(t) == call'[t] = NoCall /\ Unlock(t)
Removal(t, gone) ==
    LET q == <<call[t].key, Head(call[t].todo)>>
    IN  /\ q \in Paths
        /\ gone \subseteq UnderRoot(q)
        /\ \A p \in Paths : blob'[p] = IF p \in gone THEN NoBlob ELSE blob[p]
        /\ atRisk' = atRisk \cup ({q} \ Kept(call[t]))
        /\ UNCHANGED <<index, history>>
        /\ \A u \in Threads \ {t} : Unlinked(u, call[u], gone)
        /\ (RemovedGoesOn(t, gone) /\ UNCHANGED holder) \/ RemovedEnds(t)

LEMMA RemovalEffect ==
  ASSUME StoreInv, NEW t \in Threads, RemoveBlob(t) \/ RemoveFails(t)
  PROVE  \E gone : Removal(t, gone)
<1> DEFINE c == call[t]
           q == <<c.key, Head(c.todo)>>
<1>1. c.pc = "remove" /\ c.todo # <<>>
  BY RemoveTodo DEF RemoveBlob, RemoveFails
<1>2. /\ call \in [Threads -> CallRecord] /\ NoCall \in CallRecord
      /\ q \in Paths /\ c \in CallRecord
  BY <1>1, NoCallType, RemovedType DEF StoreInv, TypeOK
<1>3. Removed(c) \in CallRecord
  <2>1. [call EXCEPT ![t] = Removed(c)] \in [Threads -> CallRecord]
    BY <1>1, RemovedType
  <2>2. [call EXCEPT ![t] = Removed(c)][t] = Removed(c)
    BY <1>2
  <2>3. QED
    BY <2>1, <2>2
<1>4. /\ Removed(c).pc = Removing(Tail(c.todo)) /\ Removed(c).todo = Tail(c.todo)
      /\ Removed(c).op = c.op /\ Removed(c).key = c.key /\ Removed(c).entry = c.entry
      /\ Removed(c).idx = c.idx /\ Removed(c).n = c.n /\ Removed(c).id = c.id
      /\ Removed(c).dst = c.dst /\ Removed(c).reader = c.reader
  BY <1>2 DEF Removed, CallRecord
<1>5. PICK gone, d :
        /\ gone \subseteq UnderRoot(q)
        /\ Unlink(gone, [call EXCEPT ![t] = d])
        /\ (d = Removed(c) /\ UNCHANGED holder) \/ (d = NoCall /\ Unlock(t))
        /\ atRisk' = atRisk \cup ({q} \ Kept(c))
        /\ UNCHANGED <<index, history>>
  <2>1. CASE RemoveBlob(t)
    BY <2>1 DEF RemoveBlob
  <2>2. CASE RemoveFails(t)
    <3>1. PICK gone \in SUBSET UnderRoot(q) :
            Unlink(gone, [call EXCEPT ![t] =
                            IF c.op = "DeleteVersion" THEN NoCall ELSE Removed(c)])
      BY <2>2 DEF RemoveFails
    <3>2. /\ IF c.op = "DeleteVersion" THEN Unlock(t) ELSE UNCHANGED holder
          /\ atRisk' = atRisk \cup ({q} \ Kept(c))
          /\ UNCHANGED <<index, history>>
      BY <2>2 DEF RemoveFails
    <3>3. QED
      BY <3>1, <3>2
  <2>3. QED
    BY <2>1, <2>2
<1> DEFINE next == [call EXCEPT ![t] = d]
<1>6. next \in [Threads -> CallRecord] /\ next[t] = d
      /\ \A u \in Threads \ {t} : next[u] = call[u]
  BY <1>2, <1>3, <1>5
<1>7. Unlink(gone, next)
  BY <1>5
<1> HIDE DEF next
<1>8. \A u \in Threads : Unlinked(u, next[u], gone)
  BY <1>6, <1>7, UnlinkKeeps
<1>9. \A p \in Paths : blob'[p] = IF p \in gone THEN NoBlob ELSE blob[p]
  BY <1>5 DEF Unlink
<1>10. CASE d = Removed(c) /\ UNCHANGED holder
  <2>1. Unlinked(t, Removed(c), gone)
    BY <1>6, <1>8, <1>10
  <2>2. Removed(c).pc # "copy"
    BY <1>4 DEF Removing
  <2>3. RemovedGoesOn(t, gone)
    BY <1>4, <2>1, <2>2 DEF Unlinked, SameCall, RemovedGoesOn
  <2>4. QED
    BY <1>2, <1>5, <1>6, <1>8, <1>9, <1>10, <2>3 DEF Removal
<1>11. CASE d = NoCall /\ Unlock(t)
  <2>1. call'[t] = NoCall
    <3>1. call'[t] = Detached(NoCall, gone)
      BY <1>6, <1>7, <1>11 DEF Unlink
    <3>2. Detached(NoCall, gone) = NoCall
      BY DEF Detached, NoCall, NoReader
    <3>3. QED
      BY <3>1, <3>2
  <2>2. QED
    BY <1>2, <1>5, <1>6, <1>8, <1>9, <1>11, <2>1 DEF Removal, RemovedEnds
<1>12. QED
  BY <1>5, <1>10, <1>11

\* Every other step moves one goroutine and touches its own key only, and
\* nothing on disk unless it is inside the critical section.
LEMMA OneMoves ==
  ASSUME StoreInv, NEW t \in Threads, Begin(t) \/ Step(t) \/ Fault(t),
         ~RemoveBlob(t), ~RemoveFails(t)
  PROVE  /\ \A u \in Threads \ {t} : call'[u] = call[u]
         /\ call[t].pc \notin Writing => UNCHANGED <<index, blob, history, atRisk>>
         /\ \A k \in Keys : k # call[t].key =>
              /\ index'[k] = index[k] /\ history'[k] = history[k]
              /\ \A id \in VersionIDs : blob'[<<k, id>>] = blob[<<k, id>>]
              /\ \A id \in VersionIDs : <<k, id>> \in atRisk' <=> <<k, id>> \in atRisk
<1> DEFINE c == call[t]
           P == /\ c.pc \notin Writing => UNCHANGED <<index, blob, history, atRisk>>
                /\ \A k \in Keys : k # c.key =>
                     /\ index'[k] = index[k] /\ history'[k] = history[k]
                     /\ \A id \in VersionIDs : blob'[<<k, id>>] = blob[<<k, id>>]
                     /\ \A id \in VersionIDs : <<k, id>> \in atRisk' <=> <<k, id>> \in atRisk
<1>0. call \in [Threads -> CallRecord] /\ blob \in [Paths -> Data \cup {NoBlob}]
  BY DEF StoreInv, TypeOK
<1>1. CASE Begin(t)
  <2>1. \E d : call' = [call EXCEPT ![t] = d]
    BY <1>1 DEF Begin, ReadVersion, RollbackTo, Open, WriteVersion, WriteVersionRaw,
                Delete, DeleteVersion
  <2>2. UNCHANGED <<index, blob, history, atRisk>>
    BY <1>1 DEF Begin, ReadVersion, RollbackTo, Open, WriteVersion, WriteVersionRaw,
                Delete, DeleteVersion, Acquire
  <2>3. QED
    BY <1>0, <2>1, <2>2
<1>2. CASE ReadBlock(t) \/ EndOfStream(t) \/ RollbackWrite(t) \/ FinishBody(t)
           \/ CreateFails(t) \/ CopyFails(t) \/ SaveFails(t)
  <2>1. \E d : call' = [call EXCEPT ![t] = d]
    BY <1>2 DEF ReadBlock, EndOfStream, RollbackWrite, FinishBody, CreateFails, CopyFails,
                SaveFails, Abandon, Return
  <2>2. UNCHANGED <<index, blob, history, atRisk>>
    BY <1>2 DEF ReadBlock, EndOfStream, RollbackWrite, FinishBody, CreateFails, CopyFails,
                SaveFails, Acquire
  <2>3. QED
    BY <1>0, <2>1, <2>2
<1>3. CASE CreateBlob(t)
  <2>1. PICK p, b, d : /\ p = Target(c) /\ c.pc = "create"
                       /\ blob' = [blob EXCEPT ![p] = b]
                       /\ call' = [call EXCEPT ![t] = d]
                       /\ atRisk' = atRisk \cup {p} \/ atRisk' = atRisk
                       /\ UNCHANGED <<index, history>>
    BY <1>3 DEF CreateBlob, Target
  <2>2. P
    BY <1>0, <2>1 DEF Target
  <2>3. QED
    BY <1>0, <2>1, <2>2
<1>4. CASE CopyBlock(t)
  <2>1. PICK p, b, d : /\ p = Target(c) /\ c.pc = "copy"
                       /\ blob' = [blob EXCEPT ![p] = b] \/ blob' = blob
                       /\ call' = [call EXCEPT ![t] = d]
                       /\ UNCHANGED <<index, history, atRisk>>
    BY <1>4 DEF CopyBlock, Target
  <2>2. \A k \in Keys, id \in VersionIDs : k # c.key => blob'[<<k, id>>] = blob[<<k, id>>]
    <3>1. SUFFICES ASSUME NEW k \in Keys, NEW id \in VersionIDs, k # c.key
                   PROVE  blob'[<<k, id>>] = blob[<<k, id>>]
      OBVIOUS
    <3>2. <<k, id>> # p
      BY <2>1, <3>1 DEF Target
    <3>3. QED
      BY <1>0, <2>1, <3>2
  <2>3. P
    BY <2>1, <2>2
  <2>4. QED
    BY <1>0, <2>1, <2>3
<1>5. CASE SaveIndex(t)
  <2>1. /\ c.pc = "save" /\ UNCHANGED blob
        /\ \A k \in Keys : k # c.key => index'[k] = index[k] /\ history'[k] = history[k]
    BY <1>5 DEF SaveIndex, StoreInv, TypeOK
  <2>2. call' = [call EXCEPT ![t] = NoCall]
    BY <1>5 DEF SaveIndex, Return
  <2>3. atRisk' = {p \in atRisk : p[1] # c.key \/
                     p[2] \in IdsOf(c.idx.versions) \ {c.entry.id}}
    BY <1>5 DEF SaveIndex
  <2>4. \A k \in Keys, id \in VersionIDs : k # c.key => (<<k, id>> \in atRisk' <=> <<k, id>> \in atRisk)
    BY <2>3
  <2>5. QED
    BY <1>0, <2>1, <2>2, <2>4
<1>6. QED
  BY <1>1, <1>2, <1>3, <1>4, <1>5 DEF Step, Fault

-----------------------------------------------------------------------------
(* Bodies.  Where no two blobs share a FirstPathName, RemoveAll takes just  *)
(* the one blob it is meant for, and what a writer has copied stays.        *)
(***************************************************************************)
PrefixesDiffer == \A p, q \in Paths : FirstPathName[p] = FirstPathName[q] => p = q

LEMMA OneUnderRoot ==
  ASSUME PrefixesDiffer, NEW q \in Paths
  PROVE  UnderRoot(q) = {q}
BY DEF PrefixesDiffer, UnderRoot

Writes(c) == Minting(c) \/ c.op = "WriteVersionRaw"

\* What a call's blob holds: as many blocks as have been copied of the body it
\* copies, then the whole of it.  Raw bytes are those the entry describes.  The
\* blobs a call still has to remove are none that its index keeps, and a blob
\* that is being written over is at risk.
Copied(c) ==
    /\ blob[Target(c)] = [of |-> Supply(c.reader, c.key).of, n |-> c.n]
    /\ c.entry.id \in IdsOf(index[c.key].versions) => Target(c) \in atRisk
Leaving(c) ==
    /\ \A i \in DOMAIN c.todo : c.todo[i] \notin IdsOf(c.idx.versions)
    /\ Writes(c) => /\ c.entry.id \in IdsOf(c.idx.versions)
                    /\ blob[Target(c)] = c.entry.data
BodyOf(c) ==
    /\ c.dst = "named"
    /\ ~Writes(c) => c.entry = NoEntry
    /\ c.pc \in {"relock", "create"} => c.n = 0
    /\ c.pc \in {"create", "copy"} => c.reader.file # c.entry.id
    /\ c.pc \in {"create", "copy"} /\ c.op = "WriteVersionRaw" =>
         /\ c.reader = [file |-> NoVersion, data |-> c.entry.data]
         /\ c.n <= c.entry.data.n
    /\ c.pc = "copy" => Copied(c)
    /\ c.pc \in {"remove", "save"} => Leaving(c)
HistoryIds == \A k \in Keys : \A e, f \in history[k] : e.id = f.id => e = f

\* The inductive invariant behind ListedVersionsComplete.
BodyInv == /\ \A t \in Threads : BodyOf(call[t])
           /\ HistoryIds
           /\ ListedVersionsComplete

\* A call that has not moved still has its body, if its key's files stand.
LEMMA BodyStays ==
  ASSUME StoreInv, NEW u \in Threads, BodyOf(call[u]), SameCall(call'[u], call[u]),
         call'[u].n = call[u].n, call'[u].dst = call[u].dst,
         call[u].pc \in Writing =>
           /\ call'[u].reader = call[u].reader
           /\ index'[call[u].key] = index[call[u].key]
           /\ \A id \in VersionIDs : blob'[<<call[u].key, id>>] = blob[<<call[u].key, id>>]
           /\ \A id \in VersionIDs :
                <<call[u].key, id>> \in atRisk => <<call[u].key, id>> \in atRisk'
  PROVE  BodyOf(call[u])'
<1> DEFINE c == call[u]
           d == call'[u]
<1>1. /\ d.pc = c.pc /\ d.op = c.op /\ d.key = c.key /\ d.entry = c.entry /\ d.idx = c.idx
      /\ d.todo = c.todo /\ d.n = c.n /\ d.dst = c.dst
  BY DEF SameCall
<1>2. Writes(d) <=> Writes(c)
  BY <1>1 DEF Writes, Minting
<1>3. c.pc \in Writing /\ Writes(c) => c.entry.id \in VersionIDs
  BY WritingEntry, EntryTypes DEF Writes
<1>4. c.pc \in {"create", "copy"} => Writes(c)
  BY DEF StoreInv, Prepared, InHand, Writes
<1>5. c.pc = "copy" => Copied(call[u])'
  <2> SUFFICES ASSUME c.pc = "copy" PROVE Copied(call[u])'
    OBVIOUS
  <2>1. c.entry.id \in VersionIDs /\ c.reader.file \in IdOrNone /\ Copied(c)
    BY <1>3, <1>4 DEF BodyOf, StoreInv, TypeOK, CallRecord
  <2>2. blob'[Target(c)] = blob[Target(c)] /\ (Target(c) \in atRisk => Target(c) \in atRisk')
    BY <2>1 DEF Target
  <2>3. Supply(c.reader, c.key)' = Supply(c.reader, c.key)
    BY <2>1, <1>1 DEF Supply, IdOrNone
  <2>4. Target(c)' = Target(c) /\ index'[d.key] = index[c.key]
    BY <1>1 DEF Target
  <2>5. QED
    BY <1>1, <2>1, <2>2, <2>3, <2>4 DEF Copied
<1>6. c.pc \in {"remove", "save"} => Leaving(call[u])'
  <2> SUFFICES ASSUME c.pc \in {"remove", "save"} PROVE Leaving(call[u])'
    OBVIOUS
  <2>1. Leaving(c)
    BY DEF BodyOf
  <2>2. Writes(c) => blob'[Target(c)] = blob[Target(c)]
    BY <1>3 DEF Target
  <2>3. Target(c)' = Target(c)
    BY <1>1 DEF Target
  <2>4. QED
    BY <1>1, <1>2, <2>1, <2>2, <2>3 DEF Leaving
<1>7. c.pc \in {"create", "copy"} => d.reader = c.reader
  OBVIOUS
<1>8. QED
  BY <1>1, <1>2, <1>5, <1>6, <1>7 DEF BodyOf

LEMMA BodyOthers ==
  ASSUME StoreInv, PrefixesDiffer, NEW t \in Threads, Begin(t) \/ Step(t) \/ Fault(t),
         NEW u \in Threads \ {t}, BodyOf(call[u])
  PROVE  BodyOf(call[u])'
<1> DEFINE c == call[u]
<1>1. c.key \in Keys
  BY DEF StoreInv, TypeOK, CallRecord
<1>2. CASE ~RemoveBlob(t) /\ ~RemoveFails(t)
  <2>1. call'[u] = c
    BY <1>2, OneMoves
  <2>2. ASSUME c.pc \in Writing
        PROVE  /\ index'[c.key] = index[c.key]
               /\ \A id \in VersionIDs : blob'[<<c.key, id>>] = blob[<<c.key, id>>]
               /\ \A id \in VersionIDs : <<c.key, id>> \in atRisk => <<c.key, id>> \in atRisk'
    <3>1. CASE call[t].pc \notin Writing
      BY <1>2, <3>1, OneMoves
    <3>2. CASE call[t].pc \in Writing
      BY <1>1, <1>2, <2>2, <3>2, OneMoves, KeysApart
    <3>3. QED
      BY <3>1, <3>2
  <2>3. QED
    BY <2>1, <2>2, BodyStays DEF SameCall
<1>3. CASE RemoveBlob(t) \/ RemoveFails(t)
  <2>1. PICK gone : Removal(t, gone)
    BY <1>3, RemovalEffect
  <2>2. call[t].pc = "remove"
    BY <1>3 DEF RemoveBlob, RemoveFails
  <2> DEFINE q == <<call[t].key, Head(call[t].todo)>>
  <2>3. gone \subseteq {q}
    BY <2>1, OneUnderRoot DEF Removal
  <2>4. ASSUME c.pc \in Writing
        PROVE  \A id : <<c.key, id>> \notin gone
    BY <2>2, <2>3, <2>4, KeysApart
  <2>5. /\ SameCall(call'[u], c) /\ call'[u].n = c.n
        /\ call'[u].dst = IF c.pc = "copy" /\ <<c.key, c.entry.id>> \in gone
                           THEN "unnamed" ELSE c.dst
        /\ call'[u].reader = IF c.reader.file # NoVersion /\ <<c.key, c.reader.file>> \in gone
                              THEN [file |-> NoVersion, data |-> blob[<<c.key, c.reader.file>>]]
                              ELSE c.reader
    BY <2>1 DEF Removal, Unlinked
  <2>6. call'[u].dst = c.dst /\ (c.pc \in Writing => call'[u].reader = c.reader)
    BY <2>4, <2>5
  <2>7. /\ UNCHANGED index /\ atRisk \subseteq atRisk'
        /\ \A p \in Paths : blob'[p] = IF p \in gone THEN NoBlob ELSE blob[p]
    BY <2>1 DEF Removal
  <2>8. c.pc \in Writing =>
          \A id \in VersionIDs : blob'[<<c.key, id>>] = blob[<<c.key, id>>]
    BY <1>1, <2>4, <2>7
  <2>9. QED
    BY <2>5, <2>6, <2>7, <2>8, BodyStays
<1>4. QED
  BY <1>2, <1>3

\* A call that has ended, or that only reads, has no body.
LEMMA NoBody ==
  ASSUME NEW t \in Threads, call'[t].dst = "named",
         call'[t].entry = NoEntry, call'[t].n = 0, call'[t].pc \notin Writing
  PROVE  BodyOf(call[t])'
BY DEF BodyOf

\* A call that starts.
LEMMA BodyBegin ==
  ASSUME StoreInv, NEW t \in Threads, BodyOf(call[t]), Begin(t) \/ RollbackWrite(t)
  PROVE  BodyOf(call[t])'
<1> DEFINE c == call[t]
           d == call'[t]
<1>0. /\ call \in [Threads -> CallRecord] /\ NoCall \in CallRecord
      /\ NoCall.entry = NoEntry /\ NoCall.n = 0 /\ NoCall.dst = "named"
  BY NoCallType DEF StoreInv, TypeOK, NoCall
<1>1. UNCHANGED <<index, blob, atRisk>>
  BY DEF Begin, ReadVersion, RollbackTo, Open, WriteVersion, WriteVersionRaw, Delete,
         DeleteVersion, RollbackWrite, Acquire
<1>2. CASE ReadVersion(t) \/ RollbackTo(t)
  <2>1. PICK op, k, id, pc, asked :
          /\ Open(t, op, k, id, pc, asked)
          /\ pc \in {"reading", "relock"}
    BY <1>2 DEF ReadVersion, RollbackTo
  <2>2. PICK i, r : call' = [call EXCEPT ![t] =
          [NoCall EXCEPT !.pc = pc, !.op = op, !.key = k, !.id = i, !.asked = asked,
                         !.reader = r]]
    BY <2>1 DEF Open
  <2>3. d.pc = pc /\ d.entry = NoEntry /\ d.n = 0 /\ d.dst = "named"
    BY <1>0, <2>2 DEF CallRecord
  <2>4. QED
    BY <2>1, <2>3, NoBody
<1>3. CASE WriteVersion(t)
  <2>1. PICK k \in Keys, id \in Fresh : \E data : call' = [call EXCEPT ![t] =
          [NoCall EXCEPT !.pc = "create", !.op = "WriteVersion", !.key = k,
                         !.idx = index[k], !.entry = NewEntry(k, id, NoVersion),
                         !.reader = [file |-> NoVersion, data |-> data]]]
    BY <1>3 DEF WriteVersion
  <2>2. /\ d.pc = "create" /\ d.op = "WriteVersion" /\ d.n = 0 /\ d.dst = "named"
        /\ d.entry.id = id /\ d.reader.file = NoVersion
    BY <1>0, <2>1 DEF CallRecord, NewEntry
  <2>3. id # NoVersion
    BY NoVersionAssumption DEF Fresh
  <2>4. QED
    BY <2>2, <2>3 DEF BodyOf, Writes, Minting
<1>4. CASE RollbackWrite(t)
  <2>1. PICK id \in Fresh : call' = [call EXCEPT ![t].pc = "create",
          ![t].idx = index[c.key], ![t].entry = NewEntry(c.key, id, c.asked),
          ![t].asked = NoVersion]
    BY <1>4 DEF RollbackWrite
  <2>2. c.pc = "relock" /\ c.op = "RollbackTo" /\ c.key \in Keys
    BY <1>0, <1>4 DEF RollbackWrite, Acquire, StoreInv, Prepared, InHand, CallRecord
  <2>3. /\ d.pc = "create" /\ d.op = c.op /\ d.n = c.n /\ d.dst = c.dst
        /\ d.entry.id = id /\ d.reader = c.reader
    BY <1>0, <2>1, <2>2 DEF CallRecord, NewEntry
  <2>4. c.reader.file # id
    <3>1. blob[<<c.key, id>>] = NoBlob /\ id \in VersionIDs
      BY <2>2 DEF Fresh
    <3>2. QED
      BY <3>1, NoVersionAssumption DEF StoreInv, OpenFilesExist
  <2>5. QED
    BY <2>2, <2>3, <2>4 DEF BodyOf, Writes, Minting
<1>5. CASE WriteVersionRaw(t)
  <2>0. PICK k \in Keys : WriteVersionRaw(t)!(k)
    BY <1>5 DEF WriteVersionRaw
  <2>1. PICK e \in history[k] : call' = [call EXCEPT ![t] =
          [NoCall EXCEPT !.pc = "create", !.op = "WriteVersionRaw", !.key = k,
                         !.idx = index[k], !.entry = e,
                         !.reader = [file |-> NoVersion, data |-> e.data]]]
    BY <2>0
  <2>2. /\ d.pc = "create" /\ d.op = "WriteVersionRaw" /\ d.n = 0 /\ d.dst = "named"
        /\ d.entry = e /\ d.reader = [file |-> NoVersion, data |-> e.data]
    BY <1>0, <2>1 DEF CallRecord
  <2>3. e \in Entry
    BY DEF StoreInv, TypeOK
  <2>4. e.id # NoVersion /\ 0 <= e.data.n
    BY <2>3, EntryTypes, NoVersionAssumption, BlocksAssumption DEF Data
  <2>5. QED
    BY <2>2, <2>4 DEF BodyOf, Writes
<1>6. CASE Delete(t)
  <2>1. PICK k, ids : call' = [call EXCEPT ![t] =
          [NoCall EXCEPT !.pc = Removing(ids), !.op = "Delete", !.key = k,
                         !.idx = EmptyIndex, !.todo = ids]]
    BY <1>6 DEF Delete
  <2>2. /\ d.pc \in {"remove", "save"} /\ d.op = "Delete" /\ d.dst = "named"
        /\ d.entry = NoEntry /\ d.idx = EmptyIndex
    BY <1>0, <2>1 DEF CallRecord, Removing
  <2>3. IdsOf(d.idx.versions) = {} /\ ~Writes(d)
    BY <2>2 DEF IdsOf, EmptyIndex, Writes, Minting
  <2>4. QED
    BY <2>2, <2>3 DEF BodyOf, Leaving
<1>7. CASE DeleteVersion(t)
  <2>0. PICK k \in Keys : DeleteVersion(t)!(k)
    BY <1>7 DEF DeleteVersion
  <2>1. PICK id \in IdsOf(index[k].versions) : call' = [call EXCEPT ![t] =
          [NoCall EXCEPT !.pc = "remove", !.op = "DeleteVersion", !.key = k,
                         !.idx = RemoveVersion(index[k], id), !.todo = <<id>>]]
    BY <2>0
  <2>2. /\ d.pc = "remove" /\ d.op = "DeleteVersion" /\ d.dst = "named"
        /\ d.entry = NoEntry /\ d.idx = RemoveVersion(index[k], id) /\ d.todo = <<id>>
    BY <1>0, <2>1 DEF CallRecord
  <2>3. id \notin IdsOf(RemoveVersion(index[k], id).versions)
    BY RemovedGone DEF StoreInv, TypeOK, Index, IndexesOK, IndexOK
  <2>4. \A i \in DOMAIN d.todo : d.todo[i] = id
    BY <2>2
  <2>5. ~Writes(d)
    BY <2>2 DEF Writes, Minting
  <2>6. QED
    BY <2>2, <2>3, <2>4, <2>5 DEF BodyOf, Leaving
<1>8. QED
  BY <1>2, <1>3, <1>4, <1>5, <1>6, <1>7 DEF Begin

\* What createBlobFile, a copied block and the end of the body come to.
LEMMA CreateEffect ==
  ASSUME StoreInv, NEW t \in Threads, CreateBlob(t)
  PROVE  LET c == call[t]
             d == call'[t]
             p == Target(c)
         IN  /\ c.pc = "create" /\ Writes(c) /\ c.entry \in Entry /\ p \in Paths
             /\ d.pc = "copy"
             /\ d.op = c.op /\ d.key = c.key /\ d.entry = c.entry /\ d.id = c.id
             /\ d.n = c.n /\ d.dst = c.dst /\ d.reader = c.reader
             /\ blob'[p] = [of |-> Supply(c.reader, c.key).of, n |-> 0]
             /\ \A q \in Paths : q # p => blob'[q] = blob[q]
             /\ UNCHANGED <<index, holder, history>>
             /\ atRisk \subseteq atRisk' /\ atRisk' \subseteq atRisk \cup {p}
             /\ c.entry.id \in IdsOf(index[c.key].versions) => p \in atRisk'
<1> DEFINE c == call[t]
           d == call'[t]
           p == Target(c)
<1>1. /\ call \in [Threads -> CallRecord] /\ c \in CallRecord
      /\ blob \in [Paths -> Data \cup {NoBlob}]
  BY DEF StoreInv, TypeOK
<1>2. c.pc = "create" /\ Writes(c)
  BY DEF CreateBlob, StoreInv, Prepared, InHand, Writes
<1>3. c.entry \in Entry
  BY <1>2, WritingEntry DEF Writes
<1>4. p \in Paths
  BY <1>1, <1>3, EntryTypes DEF Target, CallRecord
<1>5. d = [c EXCEPT !.pc = "copy"]
  BY <1>1 DEF CreateBlob
<1>6. /\ d.pc = "copy"
      /\ d.op = c.op /\ d.key = c.key /\ d.entry = c.entry /\ d.id = c.id
      /\ d.n = c.n /\ d.dst = c.dst /\ d.reader = c.reader
  <2>1. ASSUME NEW f \in CallRecord, NEW g, g = [f EXCEPT !.pc = "copy"]
        PROVE  /\ g.pc = "copy"
               /\ g.op = f.op /\ g.key = f.key /\ g.entry = f.entry /\ g.id = f.id
               /\ g.n = f.n /\ g.dst = f.dst /\ g.reader = f.reader
    BY <2>1 DEF CallRecord
  <2>2. QED
    BY <1>1, <1>5, <2>1
<1>7. /\ blob' = [blob EXCEPT ![p] = [of |-> Supply(c.reader, c.key).of, n |-> 0]]
      /\ atRisk' = IF p[2] \in IdsOf(index[p[1]].versions) THEN atRisk \cup {p} ELSE atRisk
      /\ UNCHANGED <<index, holder, history>>
  BY DEF CreateBlob, Target
<1>8. p[1] = c.key /\ p[2] = c.entry.id
  BY DEF Target
<1> HIDE DEF c, d, p
<1>9. /\ blob'[p] = [of |-> Supply(c.reader, c.key).of, n |-> 0]
      /\ \A q \in Paths : q # p => blob'[q] = blob[q]
  BY <1>1, <1>4, <1>7
<1>10. /\ atRisk \subseteq atRisk' /\ atRisk' \subseteq atRisk \cup {p}
       /\ c.entry.id \in IdsOf(index[c.key].versions) => p \in atRisk'
  BY <1>7, <1>8
<1>11. QED
  BY <1>2, <1>3, <1>4, <1>6, <1>7, <1>9, <1>10 DEF c, d, p

LEMMA CopyEffect ==
  ASSUME StoreInv, NEW t \in Threads, CopyBlock(t)
  PROVE  LET c == call[t]
             d == call'[t]
             p == Target(c)
         IN  /\ c.pc = "copy" /\ Writes(c) /\ c.entry \in Entry /\ p \in Paths
             /\ c.n < Supply(c.reader, c.key).n
             /\ d.pc = "copy" /\ d.op = c.op /\ d.key = c.key /\ d.entry = c.entry
             /\ d.id = c.id /\ d.n = c.n + 1 /\ d.dst = c.dst /\ d.reader = c.reader
             /\ blob'[p] = IF c.dst = "named" THEN [blob[p] EXCEPT !.n = c.n + 1] ELSE blob[p]
             /\ \A q \in Paths : q # p => blob'[q] = blob[q]
             /\ UNCHANGED <<index, holder, history, atRisk>>
<1> DEFINE c == call[t]
           d == call'[t]
           p == Target(c)
<1>1. /\ call \in [Threads -> CallRecord] /\ c \in CallRecord
      /\ blob \in [Paths -> Data \cup {NoBlob}]
  BY DEF StoreInv, TypeOK
<1>2. c.pc = "copy" /\ Writes(c) /\ c.n < Supply(c.reader, c.key).n
  BY DEF CopyBlock, StoreInv, Prepared, InHand, Writes
<1>3. c.entry \in Entry
  BY <1>2, WritingEntry DEF Writes
<1>4. p \in Paths
  BY <1>1, <1>3, EntryTypes DEF Target, CallRecord
<1>5. d = [c EXCEPT !.n = c.n + 1]
  BY <1>1 DEF CopyBlock
<1>6. /\ d.pc = c.pc /\ d.op = c.op /\ d.key = c.key /\ d.entry = c.entry /\ d.id = c.id
      /\ d.n = c.n + 1 /\ d.dst = c.dst /\ d.reader = c.reader
  <2>1. ASSUME NEW f \in CallRecord, NEW g, NEW m, g = [f EXCEPT !.n = m]
        PROVE  /\ g.pc = f.pc /\ g.op = f.op /\ g.key = f.key /\ g.entry = f.entry
               /\ g.id = f.id /\ g.n = m /\ g.dst = f.dst /\ g.reader = f.reader
    BY <2>1 DEF CallRecord
  <2>2. QED
    BY <1>1, <1>5, <2>1
<1>7. /\ blob' = IF c.dst = "named" THEN [blob EXCEPT ![p].n = c.n + 1] ELSE blob
      /\ UNCHANGED <<index, holder, history, atRisk>>
  BY DEF CopyBlock, Target
<1> HIDE DEF c, d, p
<1>8. /\ blob'[p] = IF c.dst = "named" THEN [blob[p] EXCEPT !.n = c.n + 1] ELSE blob[p]
      /\ \A q \in Paths : q # p => blob'[q] = blob[q]
  BY <1>1, <1>4, <1>7
<1>9. QED
  BY <1>2, <1>3, <1>4, <1>6, <1>7, <1>8 DEF c, d, p

LEMMA FinishEffect ==
  ASSUME StoreInv, NEW t \in Threads, FinishBody(t)
  PROVE  LET c == call[t]
             d == call'[t]
             of == Supply(c.reader, c.key).of
         IN  /\ c.pc = "copy" /\ Writes(c) /\ c.entry \in Entry /\ Target(c) \in Paths
             /\ c.n >= Supply(c.reader, c.key).n
             /\ d.pc \in {"remove", "save"} /\ d.op = c.op /\ d.key = c.key /\ d.id = c.id
             /\ d.n = 0 /\ d.dst = c.dst /\ d.reader = NoReader
             /\ d.entry.id = c.entry.id /\ d.entry.note = c.entry.note
             /\ c.op = "WriteVersionRaw" => d.entry = c.entry
             /\ c.op # "WriteVersionRaw" => d.entry.data = [of |-> of, n |-> c.n]
             /\ d.entry.id \in IdsOf(d.idx.versions)
             /\ \A i \in DOMAIN d.todo : d.todo[i] \notin IdsOf(d.idx.versions)
             /\ UNCHANGED <<index, blob, holder, history, atRisk>>
<1> DEFINE c == call[t]
           d == call'[t]
           e == IF c.op = "WriteVersionRaw" THEN c.entry ELSE Counted(c)
           idx == IF c.op = "WriteVersionRaw" THEN UpsertLatest(c.idx, e)
                                              ELSE AppendLatest(c.idx, e)
           S == Entry \cup {e}
<1>1. call \in [Threads -> CallRecord] /\ c \in CallRecord
  BY DEF StoreInv, TypeOK
<1>2. /\ c.pc = "copy" /\ Writes(c) /\ c.n >= Supply(c.reader, c.key).n
      /\ c.key \in Keys /\ c.idx = index[c.key]
  BY <1>1 DEF FinishBody, StoreInv, Prepared, InHand, Writes, CallRecord
<1>3. c.entry \in Entry
  BY <1>2, WritingEntry DEF Writes
<1>4. Target(c) \in Paths
  BY <1>1, <1>3, EntryTypes DEF Target, CallRecord
<1>5. /\ e.id = c.entry.id /\ e.note = c.entry.note
      /\ c.op = "WriteVersionRaw" => e = c.entry
      /\ c.op # "WriteVersionRaw" => e.data = [of |-> Supply(c.reader, c.key).of, n |-> c.n]
  BY <1>3 DEF Counted, Entry
<1>6. c.idx.versions \in Seq(S) /\ IndexOK(c.idx) /\ e \in S
  <2>1. c.idx.versions \in Seq(Entry)
    BY <1>2 DEF StoreInv, TypeOK, Index
  <2>2. c.idx.versions \in Seq(S)
    <3> HIDE DEF e
    <3>1. Len(c.idx.versions) \in Nat
          /\ c.idx.versions \in [1 .. Len(c.idx.versions) -> S]
      BY <2>1, LenProperties
    <3>2. QED
      BY <3>1, SeqDef
  <2>3. QED
    BY <1>2, <2>2 DEF StoreInv, IndexesOK
<1>7. c.op # "WriteVersionRaw" => e.id \notin IdsOf(c.idx.versions)
  <2> SUFFICES ASSUME c.op # "WriteVersionRaw", NEW i \in DOMAIN c.idx.versions
               PROVE  c.idx.versions[i].id # e.id
    BY DEF IdsOf
  <2>1. c.idx.versions[i] \in history[c.key]
    BY <1>2 DEF StoreInv, ListedUnaltered
  <2>2. QED
    BY <1>2, <1>5, <2>1 DEF StoreInv, Prepared, InHand, NewVersion, Writes
<1>8. /\ d.pc = Removing(PrunedIds(idx)) /\ d.op = c.op /\ d.key = c.key /\ d.id = c.id
      /\ d.n = 0 /\ d.dst = c.dst /\ d.reader = NoReader
      /\ d.entry = e /\ d.idx = pruneOldestVersions(idx) /\ d.todo = PrunedIds(idx)
      /\ UNCHANGED <<index, blob, holder, history, atRisk>>
  <2>1. PICK f, g, h : /\ f = e /\ g = pruneOldestVersions(idx) /\ h = PrunedIds(idx)
                       /\ call' = [call EXCEPT ![t].pc = Removing(h), ![t].entry = f,
                                               ![t].idx = g, ![t].todo = h,
                                               ![t].reader = NoReader, ![t].n = 0]
                       /\ UNCHANGED <<index, blob, holder, history, atRisk>>
    BY DEF FinishBody
  <2> HIDE DEF e, idx
  <2>2. /\ d.pc = Removing(h) /\ d.op = c.op /\ d.key = c.key /\ d.id = c.id
        /\ d.n = 0 /\ d.dst = c.dst /\ d.reader = NoReader
        /\ d.entry = f /\ d.idx = g /\ d.todo = h
    BY <1>1, <2>1 DEF CallRecord
  <2>3. QED
    BY <2>1, <2>2
<1> HIDE DEF e, S
<1>9. e.id # NoVersion
  BY <1>3, <1>5, EntryTypes, NoVersionAssumption
<1>10. /\ e.id \in IdsOf(pruneOldestVersions(idx).versions)
       /\ \A i \in DOMAIN PrunedIds(idx) :
            PrunedIds(idx)[i] \notin IdsOf(pruneOldestVersions(idx).versions)
  <2>1. CASE c.op = "WriteVersionRaw"
    <3>1. idx = UpsertLatest(c.idx, e)
      BY <2>1
    <3> HIDE DEF idx
    <3>2. QED
      BY <1>6, <1>9, <3>1, UpsertedParts
  <2>2. CASE c.op # "WriteVersionRaw"
    <3>1. idx = AppendLatest(c.idx, e)
      BY <2>2
    <3> HIDE DEF idx
    <3>2. QED
      BY <1>6, <1>7, <1>9, <2>2, <3>1, AppendedParts DEF IndexOK
  <2>3. QED
    BY <2>1, <2>2
<1> HIDE DEF idx
<1>11. d.pc \in {"remove", "save"}
  BY <1>8 DEF Removing
<1>12. QED
  BY <1>2, <1>3, <1>4, <1>5, <1>8, <1>10, <1>11

\* A call at work.
LEMMA BodyStep ==
  ASSUME StoreInv, BodyInv, PrefixesDiffer, NEW t \in Threads, Step(t) \/ Fault(t),
         ~RollbackWrite(t)
  PROVE  BodyOf(call[t])'
<1> DEFINE c == call[t]
           d == call'[t]
           p == Target(c)
<1>0. /\ call \in [Threads -> CallRecord] /\ c \in CallRecord /\ c.key \in Keys
      /\ c.reader.file \in IdOrNone /\ BodyOf(c)
      /\ blob \in [Paths -> Data \cup {NoBlob}]
      /\ NoCall.entry = NoEntry /\ NoCall.n = 0 /\ NoCall.dst = "named"
      /\ NoCall.pc = "idle"
  BY DEF StoreInv, TypeOK, CallRecord, BodyInv, NoCall
<1>1. CASE ReadBlock(t)
  <2>1. /\ c.pc = "reading" /\ d.pc = c.pc /\ d.op = c.op /\ d.entry = c.entry
        /\ d.dst = c.dst
    BY <1>0, <1>1 DEF ReadBlock, CallRecord
  <2>2. QED
    BY <1>0, <2>1 DEF BodyOf, Writes, Minting
<1>2. CASE EndOfStream(t) \/ SaveIndex(t) \/ CreateFails(t) \/ CopyFails(t) \/ SaveFails(t)
  <2>1. d = NoCall
    BY <1>0, <1>2 DEF EndOfStream, SaveIndex, CreateFails, CopyFails, SaveFails, Abandon, Return
  <2>2. QED
    BY <1>0, <2>1, NoBody
<1>3. CASE CreateBlob(t)
  <2>1. /\ c.pc = "create" /\ Writes(c) /\ c.entry \in Entry /\ p \in Paths
        /\ d.pc = "copy" /\ d.op = c.op /\ d.key = c.key /\ d.entry = c.entry
        /\ d.n = c.n /\ d.dst = c.dst /\ d.reader = c.reader
        /\ blob'[p] = [of |-> Supply(c.reader, c.key).of, n |-> 0]
        /\ \A q \in Paths : q # p => blob'[q] = blob[q]
        /\ UNCHANGED index
        /\ c.entry.id \in IdsOf(index[c.key].versions) => p \in atRisk'
    BY <1>3, CreateEffect
  <2>2. Supply(c.reader, c.key)' = Supply(c.reader, c.key)
    BY <1>0, <2>1 DEF Supply, BodyOf, Target, IdOrNone
  <2>3. c.n = 0 /\ Target(c)' = p
    BY <1>0, <2>1 DEF BodyOf, Target
  <2>4. Copied(call[t])'
    BY <2>1, <2>2, <2>3 DEF Copied
  <2>5. Writes(d)
    BY <2>1 DEF Writes, Minting
  <2>6. QED
    BY <1>0, <2>1, <2>4, <2>5 DEF BodyOf
<1>4. CASE CopyBlock(t)
  <2>1. /\ c.pc = "copy" /\ Writes(c) /\ c.entry \in Entry /\ p \in Paths
        /\ c.n < Supply(c.reader, c.key).n
        /\ d.pc = "copy" /\ d.op = c.op /\ d.key = c.key /\ d.entry = c.entry
        /\ d.n = c.n + 1 /\ d.dst = c.dst /\ d.reader = c.reader
        /\ blob'[p] = IF c.dst = "named" THEN [blob[p] EXCEPT !.n = c.n + 1] ELSE blob[p]
        /\ \A q \in Paths : q # p => blob'[q] = blob[q]
        /\ UNCHANGED <<index, atRisk>>
    BY <1>4, CopyEffect
  <2>2. Supply(c.reader, c.key)' = Supply(c.reader, c.key)
    BY <1>0, <2>1 DEF Supply, BodyOf, Target, IdOrNone
  <2>3. c.dst = "named" /\ Copied(c) /\ Target(c)' = p
    BY <1>0, <2>1 DEF BodyOf, Target
  <2>4. blob'[p] = [of |-> Supply(c.reader, c.key).of, n |-> c.n + 1]
    BY <2>1, <2>3 DEF Copied
  <2>5. Copied(call[t])'
    BY <2>1, <2>2, <2>3, <2>4 DEF Copied
  <2>6. Writes(d)
    BY <2>1 DEF Writes, Minting
  <2>7. c.op = "WriteVersionRaw" => c.n + 1 <= c.entry.data.n
    <3>1. c.n \in Nat /\ c.entry.data.n \in Nat
      BY <1>0, <2>1, EntryTypes, BlocksAssumption DEF CallRecord, Data
    <3>2. c.op = "WriteVersionRaw" => Supply(c.reader, c.key) = c.entry.data
      BY <1>0, <2>1 DEF BodyOf, Supply
    <3>3. QED
      BY <2>1, <3>1, <3>2
  <2>8. QED
    BY <1>0, <2>1, <2>5, <2>6, <2>7 DEF BodyOf
<1>5. CASE FinishBody(t)
  <2>1. /\ c.pc = "copy" /\ Writes(c) /\ c.entry \in Entry /\ p \in Paths
        /\ c.n >= Supply(c.reader, c.key).n
        /\ d.pc \in {"remove", "save"} /\ d.op = c.op /\ d.key = c.key
        /\ d.dst = c.dst
        /\ d.entry.id = c.entry.id
        /\ c.op = "WriteVersionRaw" => d.entry = c.entry
        /\ c.op # "WriteVersionRaw" =>
             d.entry.data = [of |-> Supply(c.reader, c.key).of, n |-> c.n]
        /\ d.entry.id \in IdsOf(d.idx.versions)
        /\ \A i \in DOMAIN d.todo : d.todo[i] \notin IdsOf(d.idx.versions)
        /\ UNCHANGED blob
    BY <1>5, FinishEffect
  <2>2. Copied(c) /\ Target(c)' = p
    BY <1>0, <2>1 DEF BodyOf, Target
  <2>3. blob'[p] = d.entry.data
    <3>1. CASE c.op # "WriteVersionRaw"
      BY <2>1, <2>2, <3>1 DEF Copied
    <3>2. CASE c.op = "WriteVersionRaw"
      <4>1. Supply(c.reader, c.key) = c.entry.data /\ c.n <= c.entry.data.n
        BY <1>0, <2>1, <3>2 DEF BodyOf, Supply
      <4>2. c.n \in Nat /\ c.entry.data \in Data /\ c.entry.data.n \in Nat
        BY <1>0, <2>1, EntryTypes, BlocksAssumption DEF CallRecord, Data
      <4>3. c.n = c.entry.data.n
        BY <2>1, <4>1, <4>2
      <4>4. c.entry.data = [of |-> c.entry.data.of, n |-> c.entry.data.n]
        BY <4>2 DEF Data
      <4>5. QED
        BY <2>1, <2>2, <3>2, <4>1, <4>3, <4>4 DEF Copied
    <3>3. QED
      BY <3>1, <3>2
  <2>4. Leaving(call[t])'
    BY <2>1, <2>2, <2>3 DEF Leaving
  <2>5. Writes(d)
    BY <2>1 DEF Writes, Minting
  <2>6. QED
    BY <1>0, <2>1, <2>4, <2>5 DEF BodyOf
<1>6. CASE RemoveBlob(t) \/ RemoveFails(t)
  <2> DEFINE q == <<c.key, Head(c.todo)>>
  <2>1. PICK gone : Removal(t, gone)
    BY <1>6, RemovalEffect
  <2>2. /\ gone \subseteq {q} /\ c.pc = "remove" /\ c.todo # <<>> /\ c.todo \in Seq(VersionIDs)
        /\ \A r \in Paths : blob'[r] = IF r \in gone THEN NoBlob ELSE blob[r]
    BY <1>0, <1>6, <2>1, OneUnderRoot, RemoveTodo DEF Removal, RemoveBlob, RemoveFails, CallRecord
  <2>3. CASE RemovedEnds(t)
    BY <1>0, <2>3, NoBody DEF RemovedEnds
  <2>4. CASE RemovedGoesOn(t, gone)
    <3>1. /\ d.pc = Removing(Tail(c.todo)) /\ d.todo = Tail(c.todo)
          /\ d.op = c.op /\ d.key = c.key /\ d.entry = c.entry /\ d.idx = c.idx
          /\ d.dst = c.dst
      BY <2>4 DEF RemovedGoesOn
    <3>2. Leaving(c)
      BY <1>0, <2>2 DEF BodyOf
    <3>3. 1 \in DOMAIN c.todo /\ Head(c.todo) = c.todo[1]
      BY <2>2, EmptySeq, LenProperties
    <3>4. Head(c.todo) \notin IdsOf(c.idx.versions)
      BY <3>2, <3>3 DEF Leaving
    <3>5. \A i \in DOMAIN Tail(c.todo) : Tail(c.todo)[i] \notin IdsOf(c.idx.versions)
      <4>1. TAKE i \in DOMAIN Tail(c.todo)
      <4>2. Tail(c.todo) \in Seq(VersionIDs) /\ Len(Tail(c.todo)) = Len(c.todo) - 1
            /\ Len(c.todo) \in Nat
        BY <2>2, HeadTailProperties, LenProperties
      <4>3. i \in 1 .. Len(c.todo) - 1
        BY <4>1, <4>2, LenProperties
      <4>4. i + 1 \in DOMAIN c.todo /\ Tail(c.todo)[i] = c.todo[i + 1]
        BY <2>2, <4>2, <4>3, HeadTailProperties, LenProperties
      <4>5. QED
        BY <3>2, <4>4 DEF Leaving
    <3>6. Writes(c) => c.entry \in Entry
      BY <2>2, WritingEntry DEF Writes
    <3>7. Writes(c) => blob'[p] = c.entry.data
      <4>1. SUFFICES ASSUME Writes(c) PROVE blob'[p] = c.entry.data
        OBVIOUS
      <4>2. c.entry.id \in IdsOf(c.idx.versions) /\ blob[p] = c.entry.data /\ p \in Paths
        BY <1>0, <3>2, <3>6, <4>1, EntryTypes DEF Leaving, Target
      <4>3. p # q
        BY <3>4, <4>2 DEF Target
      <4>4. QED
        BY <2>2, <4>2, <4>3
    <3>8. Target(c)' = p /\ (Writes(d) <=> Writes(c))
      BY <3>1 DEF Target, Writes, Minting
    <3>9. Leaving(call[t])'
      BY <3>1, <3>2, <3>5, <3>7, <3>8 DEF Leaving
    <3>10. d.pc \in {"remove", "save"}
      BY <3>1 DEF Removing
    <3>11. QED
      BY <1>0, <3>1, <3>8, <3>9, <3>10 DEF BodyOf
  <2>5. QED
    BY <2>1, <2>3, <2>4 DEF Removal
<1>7. QED
  BY <1>1, <1>2, <1>3, <1>4, <1>5, <1>6 DEF Step, Fault

\* What SaveIndex leaves on disk.
LEMMA SaveEffect ==
  ASSUME StoreInv, NEW t \in Threads, SaveIndex(t)
  PROVE  LET c == call[t]
         IN  /\ c.pc = "save" /\ c.key \in Keys /\ call'[t] = NoCall
             /\ \A l \in Keys : index'[l] = IF l = c.key THEN c.idx ELSE index[l]
             /\ \A l \in Keys : history'[l] =
                  IF l = c.key THEN history[l] \cup (IF Minting(c) THEN {c.entry} ELSE {})
                               ELSE history[l]
             /\ atRisk' = {p \in atRisk : p[1] # c.key \/
                             p[2] \in IdsOf(c.idx.versions) \ {c.entry.id}}
             /\ UNCHANGED blob
             /\ \A u \in Threads \ {t} : call'[u] = call[u]
             /\ Unlock(t)
<1> DEFINE c == call[t]
<1>1. /\ c.pc = "save" /\ c.key \in Keys
      /\ \A l \in Keys : index'[l] = IF l = c.key THEN c.idx ELSE index[l]
      /\ \A l \in Keys : history'[l] =
           IF l = c.key THEN history[l] \cup (IF Minting(c) THEN {c.entry} ELSE {})
                        ELSE history[l]
  BY DEF SaveIndex, Minting, StoreInv, TypeOK, CallRecord
<1>2. call'[t] = NoCall /\ \A u \in Threads \ {t} : call'[u] = call[u]
  BY DEF SaveIndex, Return, StoreInv, TypeOK
<1>3. /\ atRisk' = {p \in atRisk : p[1] # c.key \/
                      p[2] \in IdsOf(c.idx.versions) \ {c.entry.id}}
      /\ Unlock(t) /\ UNCHANGED blob
  BY DEF SaveIndex
<1>4. QED
  BY <1>1, <1>2, <1>3

\* The ids of a key's history stay apart: WriteVersion draws a new one.
LEMMA HistoryIdsStep ==
  ASSUME StoreInv, HistoryIds, [Next]_vars
  PROVE  HistoryIds'
<1>1. CASE UNCHANGED <<index, history>>
  BY <1>1 DEF HistoryIds
<1>2. ASSUME NEW t \in Threads, SaveIndex(t)
      PROVE  HistoryIds'
  <2> DEFINE c == call[t]
  <2>1. /\ c.pc = "save"
        /\ \A l \in Keys : history'[l] =
             IF l = c.key THEN history[l] \cup (IF Minting(c) THEN {c.entry} ELSE {})
                          ELSE history[l]
    BY <1>2, SaveEffect
  <2>2. Minting(c) => \A f \in history[c.key] : f.id # c.entry.id
    BY <2>1 DEF StoreInv, Prepared, InHand, NewVersion
  <2>3. ASSUME NEW l \in Keys, NEW e \in history'[l], NEW f \in history'[l], e.id = f.id
        PROVE  e = f
    <3>1. CASE l = c.key /\ Minting(c)
      <4>1. history'[l] = history[l] \cup {c.entry}
        BY <2>1, <3>1
      <4>2. (e \in history[l] /\ f \in history[l]) => e = f
        BY <2>3 DEF HistoryIds
      <4>3. QED
        BY <2>2, <2>3, <3>1, <4>1, <4>2
    <3>2. CASE ~(l = c.key /\ Minting(c))
      <4>1. history'[l] = history[l]
        BY <2>1, <3>2
      <4>2. QED
        BY <2>3, <4>1 DEF HistoryIds
    <3>3. QED
      BY <3>1, <3>2
  <2>4. QED
    BY <2>3 DEF HistoryIds
<1>3. QED
  BY <1>1, <1>2, OnlySaveChanges

\* What a saved list names is the entry the call made or an entry that was
\* listed before; the former has the call's id, and no other entry has.
LEMMA SavedEntries ==
  ASSUME StoreInv, HistoryIds, NEW t \in Threads, call[t].pc = "save",
         NEW i \in DOMAIN call[t].idx.versions
  PROVE  LET c == call[t]
             e == c.idx.versions[i]
         IN  /\ e \in Entry
             /\ (e = c.entry /\ Writes(c)) \/ e \in Entries(index[c.key].versions)
             /\ e.id = c.entry.id /\ Writes(c) => e = c.entry
<1> DEFINE c == call[t]
           k == c.key
           e == c.idx.versions[i]
           old == index[k]
<1>1. /\ c \in CallRecord /\ k \in Keys /\ old \in Index /\ IndexOK(old) /\ InHand(c)
      /\ c.idx.versions \in Seq(Entry) /\ old.versions \in Seq(Entry)
  BY DEF StoreInv, TypeOK, CallRecord, Index, IndexesOK, Prepared
<1>2. e \in Entry
  BY <1>1, LenProperties, ElementOfSeq
<1>3. Writes(c) => c.entry \in Entry
  BY WritingEntry DEF Writes
<1>4. Entries(c.idx.versions) \subseteq
        Entries(old.versions) \cup (IF Writes(c) THEN {c.entry} ELSE {})
  <2>1. CASE Minting(c) /\ c.idx = pruneOldestVersions(AppendLatest(old, c.entry))
    <3>1. PICK s : s = Append(old.versions, c.entry)
      OBVIOUS
    <3>2. c.entry \in Entry /\ Writes(c)
      BY <1>3, <2>1 DEF Writes
    <3>3. s \in Seq(Entry) /\ Entries(s) = Entries(old.versions) \cup {c.entry}
      BY <1>1, <3>1, <3>2, AppendEntries
    <3>4. c.idx = pruneOldestVersions([latest |-> c.entry.id, versions |-> s])
      BY <2>1, <3>1 DEF AppendLatest
    <3>5. Entries(c.idx.versions) \subseteq Entries(s)
      BY <3>3, <3>4, PruneEntries, SMTT(20), ZenonT(60)
    <3>6. QED
      BY <3>2, <3>3, <3>5
  <2>2. CASE /\ c.op = "WriteVersionRaw"
             /\ c.idx = pruneOldestVersions(UpsertLatest(old, c.entry))
    <3>1. PICK s : s = upsertVersion(old.versions, c.entry)
      OBVIOUS
    <3>2. c.entry \in Entry /\ Writes(c)
      BY <1>3, <2>2 DEF Writes
    <3>3. s \in Seq(Entry) /\ Entries(s) \subseteq Entries(old.versions) \cup {c.entry}
      <4>1. ASSUME NEW o \in Seq(Entry), NEW f \in Entry
            PROVE  /\ upsertVersion(o, f) \in Seq(Entry)
                   /\ Entries(upsertVersion(o, f)) \subseteq Entries(o) \cup {f}
        BY UpsertEntries
      <4>2. QED
        BY <1>1, <3>1, <3>2, <4>1
    <3>4. c.idx = pruneOldestVersions([latest |-> c.entry.id, versions |-> s])
      BY <2>2, <3>1 DEF UpsertLatest
    <3>5. Entries(c.idx.versions) \subseteq Entries(s)
      BY <3>3, <3>4, PruneEntries, SMTT(20), ZenonT(60)
    <3>6. QED
      BY <3>2, <3>3, <3>5
  <2>3. CASE \E id \in IdsOf(old.versions) : c.idx = RemoveVersion(old, id)
    BY <1>1, <2>3, RemoveEntries
  <2>4. CASE c.idx = EmptyIndex
    BY <2>4 DEF EmptyIndex, Entries
  <2>5. QED
    BY <1>1, <2>1, <2>2, <2>3, <2>4 DEF InHand, Change
<1>5. e \in Entries(c.idx.versions)
  BY DEF Entries
<1>6. e \in Entries(old.versions) => e \in history[k]
  BY <1>1 DEF StoreInv, ListedUnaltered, Entries
<1>7. e.id = c.entry.id /\ Writes(c) => e = c.entry
  <2> SUFFICES ASSUME e.id = c.entry.id, Writes(c), e # c.entry PROVE FALSE
    OBVIOUS
  <2>1. e \in history[k]
    BY <1>4, <1>5, <1>6
  <2>2. CASE Minting(c)
    BY <1>1, <2>1, <2>2 DEF InHand, NewVersion
  <2>3. CASE c.op = "WriteVersionRaw"
    BY <1>1, <2>1, <2>3 DEF InHand, HistoryIds
  <2>4. QED
    BY <2>2, <2>3 DEF Writes
<1>8. QED
  BY <1>2, <1>4, <1>5, <1>7

\* A listed version stays complete, or at risk.
LEMMA ListedStep ==
  ASSUME StoreInv, BodyInv, PrefixesDiffer, [Next]_vars
  PROVE  ListedVersionsComplete'
<1> DEFINE Whole(k, i) == \/ Complete(k, index[k].versions[i])
                          \/ <<k, index[k].versions[i].id>> \in atRisk
<1>0. /\ call \in [Threads -> CallRecord]
      /\ \A t \in Threads : call[t].key \in Keys /\ BodyOf(call[t])
  BY DEF StoreInv, TypeOK, CallRecord, BodyInv
<1>1. ASSUME NEW k \in Keys, NEW i \in DOMAIN index[k].versions
      PROVE  /\ index[k].versions[i] \in Entry
             /\ <<k, index[k].versions[i].id>> \in Paths
             /\ index[k].versions[i].id \in IdsOf(index[k].versions)
             /\ Whole(k, i)
  <2>1. index[k].versions \in Seq(Entry)
    BY DEF StoreInv, TypeOK, Index
  <2>2. index[k].versions[i] \in Entry
    BY <2>1, LenProperties, ElementOfSeq
  <2>3. Whole(k, i)
    BY DEF BodyInv, ListedVersionsComplete, ListedComplete
  <2>4. QED
    BY <2>2, <2>3, EntryTypes DEF IdsOf
<1>2. ASSUME UNCHANGED index,
             \A k \in Keys : \A i \in DOMAIN index[k].versions : Whole(k, i)'
      PROVE  ListedVersionsComplete'
  BY <1>2 DEF ListedVersionsComplete, ListedComplete
<1>3. CASE UNCHANGED <<index, blob, atRisk>>
  BY <1>1, <1>2, <1>3 DEF Complete
<1>4. ASSUME NEW t \in Threads, CreateBlob(t) PROVE ListedVersionsComplete'
  <2> DEFINE c == call[t]
             p == Target(c)
  <2>1. /\ \A q \in Paths : q # p => blob'[q] = blob[q]
        /\ UNCHANGED index /\ atRisk \subseteq atRisk'
        /\ c.entry.id \in IdsOf(index[c.key].versions) => p \in atRisk'
    BY <1>4, CreateEffect
  <2>2. ASSUME NEW k \in Keys, NEW i \in DOMAIN index[k].versions PROVE Whole(k, i)'
    <3> DEFINE q == <<k, index[k].versions[i].id>>
    <3>1. CASE q = p
      <4>1. k = c.key /\ index[k].versions[i].id = c.entry.id
        BY <3>1 DEF Target
      <4>2. p \in atRisk'
        BY <1>1, <2>1, <4>1
      <4>3. QED
        BY <2>1, <3>1, <4>2
    <3>2. CASE q # p
      BY <1>1, <2>1, <3>2 DEF Complete
    <3>3. QED
      BY <3>1, <3>2
  <2>3. QED
    BY <1>2, <2>1, <2>2
<1>5. ASSUME NEW t \in Threads, CopyBlock(t) PROVE ListedVersionsComplete'
  <2> DEFINE c == call[t]
             p == Target(c)
  <2>1. /\ c.pc = "copy"
        /\ \A q \in Paths : q # p => blob'[q] = blob[q]
        /\ UNCHANGED <<index, atRisk>>
    BY <1>5, CopyEffect
  <2>2. c.entry.id \in IdsOf(index[c.key].versions) => p \in atRisk
    BY <1>0, <2>1 DEF BodyOf, Copied
  <2>3. ASSUME NEW k \in Keys, NEW i \in DOMAIN index[k].versions PROVE Whole(k, i)'
    <3> DEFINE q == <<k, index[k].versions[i].id>>
    <3>1. CASE q = p
      <4>1. k = c.key /\ index[k].versions[i].id = c.entry.id
        BY <3>1 DEF Target
      <4>2. p \in atRisk'
        BY <1>1, <2>1, <2>2, <4>1
      <4>3. QED
        BY <2>1, <3>1, <4>2
    <3>2. CASE q # p
      BY <1>1, <2>1, <3>2 DEF Complete
    <3>3. QED
      BY <3>1, <3>2
  <2>4. QED
    BY <1>2, <2>1, <2>3
<1>6. ASSUME NEW t \in Threads, RemoveBlob(t) \/ RemoveFails(t)
      PROVE  ListedVersionsComplete'
  <2> DEFINE c == call[t]
             q == <<c.key, Head(c.todo)>>
  <2>1. PICK gone : Removal(t, gone)
    BY <1>6, RemovalEffect
  <2>2. /\ gone \subseteq {q} /\ c.pc = "remove" /\ c.todo # <<>> /\ c.todo \in Seq(VersionIDs)
        /\ \A r \in Paths : blob'[r] = IF r \in gone THEN NoBlob ELSE blob[r]
        /\ UNCHANGED index /\ atRisk' = atRisk \cup ({q} \ Kept(c))
    BY <1>0, <1>6, <2>1, OneUnderRoot, RemoveTodo DEF Removal, RemoveBlob, RemoveFails, CallRecord
  <2>3. Head(c.todo) \notin IdsOf(c.idx.versions)
    <3>1. 1 \in DOMAIN c.todo /\ Head(c.todo) = c.todo[1]
      BY <2>2, EmptySeq, LenProperties
    <3>2. QED
      BY <1>0, <2>2, <3>1 DEF BodyOf, Leaving
  <2>4. q \in atRisk'
    BY <2>2, <2>3 DEF Kept
  <2>5. ASSUME NEW k \in Keys, NEW i \in DOMAIN index[k].versions PROVE Whole(k, i)'
    <3> DEFINE r == <<k, index[k].versions[i].id>>
    <3>1. CASE r = q
      BY <2>2, <2>4, <3>1
    <3>2. CASE r # q
      <4>1. r \notin gone /\ r \in Paths
        BY <1>1, <2>2, <3>2
      <4>2. blob'[r] = blob[r]
        BY <2>2, <4>1
      <4>3. QED
        BY <1>1, <2>2, <4>2 DEF Complete
    <3>3. QED
      BY <3>1, <3>2
  <2>6. QED
    BY <1>2, <2>2, <2>5
<1>7. ASSUME NEW t \in Threads, SaveIndex(t) PROVE ListedVersionsComplete'
  <2> DEFINE c == call[t]
  <2>1. /\ c.pc = "save" /\ c.key \in Keys
        /\ \A l \in Keys : index'[l] = IF l = c.key THEN c.idx ELSE index[l]
        /\ atRisk' = {p \in atRisk : p[1] # c.key \/
                        p[2] \in IdsOf(c.idx.versions) \ {c.entry.id}}
        /\ UNCHANGED blob
    BY <1>7, SaveEffect
  <2>2. Leaving(c) /\ (~Writes(c) => c.entry = NoEntry)
    BY <1>0, <2>1 DEF BodyOf
  <2>3. ASSUME NEW i \in DOMAIN c.idx.versions
        PROVE  \/ blob[<<c.key, c.idx.versions[i].id>>] = c.idx.versions[i].data
               \/ <<c.key, c.idx.versions[i].id>> \in atRisk'
    <3> DEFINE e == c.idx.versions[i]
    <3>1. /\ e \in Entry
          /\ (e = c.entry /\ Writes(c)) \/ e \in Entries(index[c.key].versions)
          /\ e.id = c.entry.id /\ Writes(c) => e = c.entry
      BY <2>1, SavedEntries DEF BodyInv
    <3>2. CASE e.id = c.entry.id
      <4>1. Writes(c)
        BY <2>2, <3>1, <3>2, EntryTypes, NoVersionAssumption
      <4>2. e = c.entry
        BY <3>1, <3>2, <4>1
      <4>3. QED
        BY <2>2, <4>1, <4>2 DEF Leaving, Target
    <3>3. CASE e.id # c.entry.id
      <4>1. e \in Entries(index[c.key].versions)
        BY <3>1, <3>3
      <4>2. PICK j \in DOMAIN index[c.key].versions : index[c.key].versions[j] = e
        BY <4>1 DEF Entries
      <4>3. blob[<<c.key, e.id>>] = e.data \/ <<c.key, e.id>> \in atRisk
        BY <1>1, <2>1, <4>2 DEF Complete
      <4>4. e.id \in IdsOf(c.idx.versions)
        BY DEF IdsOf
      <4>5. <<c.key, e.id>> \in atRisk => <<c.key, e.id>> \in atRisk'
        BY <2>1, <3>3, <4>4
      <4>6. QED
        BY <4>3, <4>5
    <3>4. QED
      BY <3>2, <3>3
  <2>4. ASSUME NEW k \in Keys, k # c.key, NEW i \in DOMAIN index[k].versions
        PROVE  \/ blob[<<k, index[k].versions[i].id>>] = index[k].versions[i].data
               \/ <<k, index[k].versions[i].id>> \in atRisk'
    BY <1>1, <2>1, <2>4 DEF Complete
  <2>5. ASSUME NEW k \in Keys PROVE ListedComplete(k)'
    <3>1. CASE k = c.key
      BY <2>1, <2>3, <3>1 DEF ListedComplete, Complete
    <3>2. CASE k # c.key
      BY <2>1, <2>4, <3>2 DEF ListedComplete, Complete
    <3>3. QED
      BY <3>1, <3>2
  <2>6. QED
    BY <2>5 DEF ListedVersionsComplete
<1>8. ASSUME NEW t \in Threads,
             Begin(t) \/ ReadBlock(t) \/ EndOfStream(t) \/ RollbackWrite(t) \/ FinishBody(t)
             \/ CreateFails(t) \/ CopyFails(t) \/ SaveFails(t)
      PROVE  UNCHANGED <<index, blob, atRisk>>
  BY <1>8 DEF Begin, ReadVersion, RollbackTo, Open, WriteVersion, WriteVersionRaw, Delete,
              DeleteVersion, Acquire, ReadBlock, EndOfStream, RollbackWrite, FinishBody,
              CreateFails, CopyFails, SaveFails
<1>9. Crash \/ UNCHANGED vars => UNCHANGED <<index, blob, atRisk>>
  BY DEF Crash, vars
<1>10. QED
  BY <1>3, <1>4, <1>5, <1>6, <1>7, <1>8, <1>9 DEF Next, Step, Fault

LEMMA BodyNext ==
  ASSUME StoreInv, BodyInv, PrefixesDiffer, [Next]_vars
  PROVE  BodyInv'
<1>1. ASSUME NEW t \in Threads, Begin(t) \/ Step(t) \/ Fault(t), NEW u \in Threads
      PROVE  BodyOf(call[u])'
  <2>1. BodyOf(call[t]) /\ BodyOf(call[u])
    BY DEF BodyInv
  <2>2. CASE u # t
    BY <1>1, <2>1, <2>2, BodyOthers
  <2>3. CASE u = t /\ (Begin(t) \/ RollbackWrite(t))
    BY <2>1, <2>3, BodyBegin
  <2>4. CASE u = t /\ (Step(t) \/ Fault(t)) /\ ~RollbackWrite(t)
    BY <2>4, BodyStep
  <2>5. QED
    BY <1>1, <2>2, <2>3, <2>4
<1>2. ASSUME Crash, NEW u \in Threads PROVE BodyOf(call[u])'
  <2>1. call'[u] = NoCall
    BY <1>2 DEF Crash
  <2>2. QED
    BY <2>1, NoBody DEF NoCall
<1>3. ASSUME UNCHANGED vars, NEW u \in Threads PROVE BodyOf(call[u])'
  <2>1. BodyOf(call[u])
    BY DEF BodyInv
  <2>2. QED
    BY <1>3, <2>1, BodyStays DEF vars, SameCall
<1>4. \A u \in Threads : BodyOf(call[u])'
  BY <1>1, <1>2, <1>3 DEF Next
<1>5. QED
  BY <1>4, HistoryIdsStep, ListedStep DEF BodyInv

LEMMA BodyInvariant ==
  ASSUME PrefixesDiffer
  PROVE  Spec => []BodyInv
<1>1. Init => BodyInv
  <2> SUFFICES ASSUME Init PROVE BodyInv
    OBVIOUS
  <2>1. \A t \in Threads : BodyOf(call[t])
    BY DEF Init, BodyOf, NoCall
  <2>2. QED
    BY <2>1 DEF Init, BodyInv, HistoryIds, ListedVersionsComplete, ListedComplete, EmptyIndex
<1>2. StoreInv /\ BodyInv /\ [Next]_vars => BodyInv'
  BY BodyNext
<1>3. QED
  BY <1>1, <1>2, StoreInvariant, PTL DEF Spec

\* WriteVersion saves the index only when io.Copy has counted the body to its
\* end, and removes only what the index no longer lists: whatever fails and
\* wherever the process dies, a listed version has its whole blob unless a later
\* call set out to delete it or to write it again.
THEOREM ListedHaveTheirBlobs ==
  ASSUME PrefixesDiffer
  PROVE  Spec => []ListedVersionsComplete
<1>1. BodyInv => ListedVersionsComplete
  BY DEF BodyInv
<1>2. QED
  BY <1>1, BodyInvariant, PTL

-----------------------------------------------------------------------------
(* While nothing fails, a blob is at risk only as long as the call that put *)
(* it there holds the lock.                                                 *)
(***************************************************************************)
AtRiskHeld ==
    \A p \in atRisk : \E t \in Threads :
        /\ holder[p[1]] = t
        /\ call[t].pc # "create"
        /\ call[t].pc = "copy" => p[2] = call[t].entry.id
        /\ call[t].pc \in {"remove", "save"} =>
             p[2] = call[t].entry.id \/ p[2] \notin IdsOf(call[t].idx.versions)

\* What is at risk at a key stays covered by its holder t, whatever t does
\* under the lock.
LEMMA HeldBy ==
  ASSUME StoreInv, AtRiskHeld, NEW t \in Threads, call[t].pc \in Writing,
         NEW p \in atRisk, p[1] = call[t].key
  PROVE  /\ call[t].pc # "create"
         /\ call[t].pc = "copy" => p[2] = call[t].entry.id
         /\ call[t].pc \in {"remove", "save"} =>
              p[2] = call[t].entry.id \/ p[2] \notin IdsOf(call[t].idx.versions)
<1>1. holder[call[t].key] = t
  BY DEF StoreInv, Exclusive, TypeOK, CallRecord
<1>2. PICK u \in Threads :
        /\ holder[p[1]] = u
        /\ call[u].pc # "create"
        /\ call[u].pc = "copy" => p[2] = call[u].entry.id
        /\ call[u].pc \in {"remove", "save"} =>
             p[2] = call[u].entry.id \/ p[2] \notin IdsOf(call[u].idx.versions)
  BY DEF AtRiskHeld
<1>3. u = t
  BY <1>1, <1>2
<1>4. QED
  BY <1>2, <1>3

\* A step of t leaves what the others hold covered.
LEMMA OthersHold ==
  ASSUME StoreInv, AtRiskHeld, NEW t \in Threads, Begin(t) \/ Step(t) \/ Fault(t),
         NEW p \in atRisk,
         holder'[p[1]] = holder[p[1]],
         ~(call[t].pc \in Writing /\ p[1] = call[t].key)
  PROVE  \E u \in Threads :
           /\ holder'[p[1]] = u
           /\ call'[u].pc # "create"
           /\ call'[u].pc = "copy" => p[2] = call'[u].entry.id
           /\ call'[u].pc \in {"remove", "save"} =>
                p[2] = call'[u].entry.id \/ p[2] \notin IdsOf(call'[u].idx.versions)
<1>1. PICK u \in Threads :
        /\ holder[p[1]] = u
        /\ call[u].pc # "create"
        /\ call[u].pc = "copy" => p[2] = call[u].entry.id
        /\ call[u].pc \in {"remove", "save"} =>
             p[2] = call[u].entry.id \/ p[2] \notin IdsOf(call[u].idx.versions)
  BY DEF AtRiskHeld
<1>2. call[u].pc \in Writing /\ call[u].key = p[1]
  <2>1. p[1] \in Keys
    BY DEF StoreInv, TypeOK
  <2>2. QED
    BY <1>1, <2>1 DEF StoreInv, Exclusive
<1>3. u # t
  BY <1>2
<1>4. SameCall(call'[u], call[u])
  BY <1>3, OthersKept
<1>5. QED
  BY <1>1, <1>4 DEF SameCall

LEMMA AtRiskStep ==
  ASSUME StoreInv, AtRiskHeld, BodyInv, PrefixesDiffer, Faults = {}, [Next]_vars
  PROVE  AtRiskHeld'
<1>0. /\ call \in [Threads -> CallRecord] /\ holder \in [Keys -> Threads \cup {NoThread}]
      /\ \A t \in Threads : call[t].key \in Keys
      /\ \A p \in atRisk : p[1] \in Keys
      /\ NoCall.pc = "idle"
  BY DEF StoreInv, TypeOK, CallRecord, NoCall
<1>a. ~Crash /\ \A t \in Threads : ~Fault(t)
  BY DEF Crash, Fault, CreateFails, CopyFails, RemoveFails, SaveFails
<1>1. CASE UNCHANGED vars
  BY <1>1 DEF vars, AtRiskHeld
<1> DEFINE Covered(p, t) ==
             /\ holder'[p[1]] = t
             /\ call'[t].pc # "create"
             /\ call'[t].pc = "copy" => p[2] = call'[t].entry.id
             /\ call'[t].pc \in {"remove", "save"} =>
                  p[2] = call'[t].entry.id \/ p[2] \notin IdsOf(call'[t].idx.versions)
<1>b. ASSUME \A p \in atRisk' : \E t \in Threads : Covered(p, t)
      PROVE  AtRiskHeld'
  BY <1>b DEF AtRiskHeld
<1>2. ASSUME NEW t \in Threads, Begin(t) \/ RollbackWrite(t)
      PROVE  AtRiskHeld'
  <2>1. /\ UNCHANGED atRisk /\ call[t].pc \notin Writing
        /\ \/ UNCHANGED holder
           \/ \E k \in Keys : holder[k] = NoThread /\ holder' = [holder EXCEPT ![k] = t]
    BY <1>0, <1>2 DEF Begin, ReadVersion, RollbackTo, Open, WriteVersion, WriteVersionRaw, Delete,
                DeleteVersion, RollbackWrite, Acquire
  <2>2. \A p \in atRisk : holder'[p[1]] = holder[p[1]]
    <3>1. \A p \in atRisk : holder[p[1]] # NoThread
      BY NoThreadAssumption DEF AtRiskHeld
    <3>2. QED
      BY <1>0, <2>1, <3>1
  <2>3. QED
    BY <1>2, <1>b, <2>1, <2>2, OthersHold DEF Step
<1>3. ASSUME NEW t \in Threads, ReadBlock(t) \/ EndOfStream(t)
      PROVE  AtRiskHeld'
  <2>1. UNCHANGED <<atRisk, holder>> /\ call[t].pc \notin Writing
    BY <1>3 DEF ReadBlock, EndOfStream
  <2>2. QED
    BY <1>3, <1>b, <2>1, OthersHold DEF Step
<1>4. ASSUME NEW t \in Threads, NEW q, call[t].pc \in Writing, Step(t), UNCHANGED holder,
             \A p \in atRisk' : p \in atRisk \/ p = q,
             q \in atRisk' => q[1] = call[t].key /\ Covered(q, t),
             \A p \in atRisk : p[1] = call[t].key => Covered(p, t)
      PROVE  AtRiskHeld'
  <2>1. ASSUME NEW p \in atRisk' PROVE \E u \in Threads : Covered(p, u)
    <3>1. CASE p \in atRisk /\ p[1] # call[t].key
      BY <1>4, <3>1, OthersHold
    <3>2. CASE p = q \/ (p \in atRisk /\ p[1] = call[t].key)
      BY <1>4, <2>1, <3>2
    <3>3. QED
      BY <1>4, <2>1, <3>1, <3>2
  <2>2. QED
    BY <1>b, <2>1
<1>5. ASSUME NEW t \in Threads, CreateBlob(t) PROVE AtRiskHeld'
  <2> DEFINE c == call[t]
  <2>1. /\ c.pc = "create" /\ call'[t].pc = "copy" /\ call'[t].entry = c.entry
        /\ UNCHANGED holder
        /\ \A p \in atRisk' : p \in atRisk \/ p = Target(c)
    BY <1>5, CreateEffect
  <2>2. \A p \in atRisk : p[1] # c.key
    BY <2>1, HeldBy
  <2>3. Target(c)[1] = c.key /\ Target(c)[2] = c.entry.id
    BY DEF Target
  <2>4. holder[c.key] = t
    BY <1>0, <2>1 DEF StoreInv, Exclusive
  <2>5. QED
    BY <1>4, <1>5, <2>1, <2>2, <2>3, <2>4 DEF Step
<1>6. ASSUME NEW t \in Threads, CopyBlock(t) PROVE AtRiskHeld'
  <2> DEFINE c == call[t]
  <2>1. /\ c.pc = "copy" /\ call'[t].pc = "copy" /\ call'[t].entry = c.entry
        /\ UNCHANGED <<holder, atRisk>>
    BY <1>6, CopyEffect
  <2>2. holder[c.key] = t
    BY <1>0, <2>1 DEF StoreInv, Exclusive
  <2>3. \A p \in atRisk : p[1] = c.key => p[2] = c.entry.id
    BY <2>1, HeldBy
  <2>4. Target(c)[1] = c.key /\ Target(c)[2] = c.entry.id
    BY DEF Target
  <2>5. QED
    BY <1>4, <1>6, <2>1, <2>2, <2>3, <2>4 DEF Step
<1>7. ASSUME NEW t \in Threads, FinishBody(t) PROVE AtRiskHeld'
  <2> DEFINE c == call[t]
  <2>1. /\ c.pc = "copy" /\ call'[t].pc \in {"remove", "save"}
        /\ call'[t].entry.id = c.entry.id
        /\ UNCHANGED <<holder, atRisk>>
    BY <1>7, FinishEffect
  <2>2. holder[c.key] = t
    BY <1>0, <2>1 DEF StoreInv, Exclusive
  <2>3. \A p \in atRisk : p[1] = c.key => p[2] = c.entry.id
    BY <2>1, HeldBy
  <2>4. Target(c)[1] = c.key /\ Target(c)[2] = c.entry.id
    BY DEF Target
  <2>5. QED
    BY <1>4, <1>7, <2>1, <2>2, <2>3, <2>4 DEF Step
<1>8. ASSUME NEW t \in Threads, RemoveBlob(t) PROVE AtRiskHeld'
  <2> DEFINE c == call[t]
             q == <<c.key, Head(c.todo)>>
  <2>1. /\ c.pc = "remove" /\ atRisk' = atRisk \cup ({q} \ Kept(c)) /\ UNCHANGED holder
    BY <1>8 DEF RemoveBlob
  <2>2. SameCall(call'[t], Removed(c))
    <3>1. SameCall(call'[t], Removed(c)) \/ (SameCall(call'[t], NoCall) /\ Unlock(t))
      BY <1>8, RemoveOutcome
    <3>2. holder[c.key] = t
      BY <1>0, <2>1 DEF StoreInv, Exclusive
    <3>3. ~Unlock(t)
      BY <1>0, <2>1, <3>2, NoThreadAssumption DEF Unlock
    <3>4. QED
      BY <3>1, <3>3
  <2>3. /\ call'[t].pc \in {"remove", "save"} /\ call'[t].entry = c.entry
        /\ call'[t].idx = c.idx
    <3>1. /\ Removed(c).pc = Removing(Tail(c.todo)) /\ Removed(c).entry = c.entry
          /\ Removed(c).idx = c.idx
      BY <1>0 DEF Removed, CallRecord
    <3>2. QED
      BY <2>2, <3>1 DEF SameCall, Removing
  <2>4. holder[c.key] = t
    BY <1>0, <2>1 DEF StoreInv, Exclusive
  <2>5. \A p \in atRisk : p[1] = c.key =>
          p[2] = c.entry.id \/ p[2] \notin IdsOf(c.idx.versions)
    BY <2>1, HeldBy
  <2>6. q \in atRisk' => q \in atRisk \/ q \notin Kept(c)
    BY <2>1
  <2>7. q \in atRisk' => q[2] = c.entry.id \/ q[2] \notin IdsOf(c.idx.versions)
    BY <2>5, <2>6 DEF Kept
  <2>8. QED
    <3>1. q[1] = c.key
      OBVIOUS
    <3> HIDE DEF q
    <3>2. \A p \in atRisk' : p \in atRisk \/ p = q
      BY <2>1
    <3>3. QED
      BY <1>4, <1>8, <2>1, <2>3, <2>4, <2>5, <2>7, <3>1, <3>2 DEF Step
<1>9. ASSUME NEW t \in Threads, SaveIndex(t) PROVE AtRiskHeld'
  <2> DEFINE c == call[t]
  <2>1. /\ c.pc = "save" /\ c.key \in Keys
        /\ atRisk' = {p \in atRisk : p[1] # c.key \/
                        p[2] \in IdsOf(c.idx.versions) \ {c.entry.id}}
        /\ holder' = [holder EXCEPT ![c.key] = NoThread]
    BY <1>9, SaveEffect DEF Unlock
  <2>2. \A p \in atRisk : p[1] = c.key =>
          p[2] = c.entry.id \/ p[2] \notin IdsOf(c.idx.versions)
    BY <2>1, HeldBy
  <2>3. \A p \in atRisk' : p \in atRisk /\ p[1] # c.key
    BY <2>1, <2>2
  <2>4. \A p \in atRisk' : holder'[p[1]] = holder[p[1]]
    BY <1>0, <2>1, <2>3
  <2>5. QED
    BY <1>9, <1>b, <2>3, <2>4, OthersHold DEF Step
<1>10. QED
  BY <1>a, <1>1, <1>2, <1>3, <1>5, <1>6, <1>7, <1>8, <1>9 DEF Next, Step

\* When nothing fails and no goroutine is inside a key's critical section, every
\* version the key's index lists has its whole blob.
THEOREM UnlockedIsComplete ==
  ASSUME PrefixesDiffer, Faults = {}
  PROVE  Spec => []CompleteWhenFree
<1>1. Init => AtRiskHeld
  BY DEF Init, AtRiskHeld
<1>2. StoreInv /\ BodyInv /\ AtRiskHeld /\ [Next]_vars => AtRiskHeld'
  BY AtRiskStep
<1>3. BodyInv /\ AtRiskHeld => CompleteWhenFree
  <2> SUFFICES ASSUME BodyInv, AtRiskHeld, NEW k \in Keys, holder[k] = NoThread,
                      NEW i \in DOMAIN index[k].versions
               PROVE  Complete(k, index[k].versions[i])
    BY DEF CompleteWhenFree
  <2>1. <<k, index[k].versions[i].id>> \notin atRisk
    BY NoThreadAssumption DEF AtRiskHeld
  <2>2. QED
    BY <2>1 DEF BodyInv, ListedVersionsComplete, ListedComplete
<1>4. QED
  BY <1>1, <1>2, <1>3, StoreInvariant, BodyInvariant, PTL DEF Spec

-----------------------------------------------------------------------------
(* Streams.  Without WriteVersionRaw a blob is written once, under an id of *)
(* its own, so an open stream never sees its bytes change: not by a later   *)
(* write, a removal, a failure, or another key's RemoveAll.                 *)
(***************************************************************************)

\* The stream a call has open is the body of the version it named.
Source(c) == \E f \in history[c.key] : /\ f.id = c.id
                                       /\ Supply(c.reader, c.key) = f.data
                                       /\ c.n <= f.data.n
\* The file a writer has open holds what it has copied; so does its name, as
\* long as the name is there.
Written(c) == blob[Target(c)] = IF c.dst = "named"
                                  THEN [of |-> Supply(c.reader, c.key).of, n |-> c.n]
                                  ELSE NoBlob
Finished(c) ==
    /\ blob[Target(c)] \in {c.entry.data, NoBlob}
    /\ c.entry.note # NoVersion =>
         \E f \in history[c.key] : f.id = c.entry.note /\ f.data = c.entry.data
Streams(c) == \/ c.pc \in {"reading", "relock"}
              \/ c.pc \in {"create", "copy"} /\ c.op = "RollbackTo"
StreamOf(c) ==
    /\ c.pc \in {"relock", "create"} => c.n = 0 /\ c.dst = "named"
    /\ c.reader.file \in {NoVersion, c.id}
    /\ Streams(c) => Source(c)
    /\ c.pc \in {"create", "copy"} /\ c.op = "WriteVersion" =>
         c.reader.file = NoVersion
    /\ c.pc \in Writing /\ c.op = "WriteVersion" => c.entry.note = NoVersion
    /\ c.pc = "relock" => c.asked \in {NoVersion, c.id}
    /\ c.pc \in Writing /\ c.op = "RollbackTo" => c.entry.note \in {NoVersion, c.id}
    /\ c.pc = "copy" => Written(c)
    /\ c.pc \in {"remove", "save"} /\ Minting(c) => Finished(c)
BlobsOfHistory ==
    \A k \in Keys : \A f \in history[k] : blob[<<k, f.id>>] \in {f.data, NoBlob}
NotesKnown ==
    \A k \in Keys : \A e \in history[k] :
        e.note # NoVersion => \E f \in history[k] : f.id = e.note /\ f.data = e.data

\* The inductive invariant behind RollbackFaithful and ReadsComplete.
StreamInv == /\ HistoryIds
             /\ BlobsOfHistory
             /\ NotesKnown
             /\ \A t \in Threads : StreamOf(call[t])

\* Histories only grow.
LEMMA HistoryGrows ==
  ASSUME StoreInv, [Next]_vars
  PROVE  \A k \in Keys : history[k] \subseteq history'[k]
<1>1. ASSUME NEW t \in Threads, SaveIndex(t)
      PROVE  \A k \in Keys : history[k] \subseteq history'[k]
  BY <1>1, SaveEffect
<1>2. QED
  BY <1>1, OnlySaveChanges

\* A call that has not moved keeps its stream, if its bytes stand: those it
\* reads, and while it writes those under its own id.
LEMMA StreamStays ==
  ASSUME StoreInv, NEW u \in Threads, StreamOf(call[u]), SameCall(call'[u], call[u]),
         call'[u].n = call[u].n, call'[u].id = call[u].id, call'[u].asked = call[u].asked,
         call'[u].reader.file \in {NoVersion, call[u].reader.file},
         history[call[u].key] \subseteq history'[call[u].key],
         call[u].pc # "copy" => call'[u].dst = call[u].dst,
         Streams(call[u]) \/ call[u].pc = "copy" =>
           Supply(call[u].reader, call[u].key)' = Supply(call[u].reader, call[u].key),
         call[u].pc = "copy" =>
           \/ /\ call'[u].dst = "unnamed"
              /\ blob'[Target(call[u])] = NoBlob
           \/ /\ call'[u].dst = call[u].dst
              /\ blob'[Target(call[u])] = blob[Target(call[u])],
         call[u].pc \in {"remove", "save"} /\ Minting(call[u]) =>
           blob'[Target(call[u])] \in {NoBlob, blob[Target(call[u])]}
  PROVE  StreamOf(call[u])'
<1> DEFINE c == call[u]
           d == call'[u]
<1>1. /\ d.pc = c.pc /\ d.op = c.op /\ d.key = c.key /\ d.entry = c.entry
      /\ d.n = c.n /\ d.id = c.id
  BY DEF SameCall
<1>2. /\ Target(c)' = Target(c) /\ (Minting(d) <=> Minting(c))
      /\ (Streams(d) <=> Streams(c))
  BY <1>1 DEF Target, Minting, Streams
<1>3. Streams(c) => Source(call[u])'
  <2> SUFFICES ASSUME Streams(c) PROVE Source(call[u])'
    OBVIOUS
  <2>1. PICK f \in history[c.key] : /\ f.id = c.id
                                    /\ Supply(c.reader, c.key) = f.data
                                    /\ c.n <= f.data.n
    BY DEF StreamOf, Source
  <2>2. f \in history'[d.key] /\ f.id = d.id /\ d.n <= f.data.n
    BY <1>1, <2>1
  <2>3. Supply(c.reader, c.key)' = f.data
    BY <2>1
  <2>4. QED
    BY <2>2, <2>3 DEF Source
<1>4. c.pc = "copy" => Written(call[u])'
  <2> SUFFICES ASSUME c.pc = "copy" PROVE Written(call[u])'
    OBVIOUS
  <2>1. Written(c) /\ Supply(c.reader, c.key)' = Supply(c.reader, c.key)
    BY DEF StreamOf
  <2>2. QED
    BY <1>1, <1>2, <2>1 DEF Written
<1>5. c.pc \in {"remove", "save"} /\ Minting(c) => Finished(call[u])'
  <2> SUFFICES ASSUME c.pc \in {"remove", "save"}, Minting(c) PROVE Finished(call[u])'
    OBVIOUS
  <2>1. Finished(c)
    BY DEF StreamOf
  <2>2. QED
    BY <1>1, <1>2, <2>1 DEF Finished
<1>6. d.reader.file \in {NoVersion, d.id}
  BY <1>1 DEF StreamOf
<1>7. c.pc \in {"create", "copy"} /\ c.op = "WriteVersion" => d.reader.file = NoVersion
  BY DEF StreamOf
<1>8. c.pc \in {"relock", "create"} => d.n = 0 /\ d.dst = "named"
  BY <1>1 DEF StreamOf
<1>9. d.pc = "relock" => d.asked \in {NoVersion, d.id}
  BY <1>1 DEF StreamOf
<1>10. QED
  BY <1>1, <1>2, <1>3, <1>4, <1>5, <1>6, <1>7, <1>8, <1>9 DEF StreamOf

\* Without WriteVersionRaw a writer is minting: its entry's id is no older
\* version's, so nothing it does touches an older version's blob.
LEMMA OldBlobsStay ==
  ASSUME StoreInv, OpsUsed, "WriteVersionRaw" \notin Ops,
         NEW t \in Threads, Begin(t) \/ Step(t) \/ Fault(t), ~RemoveBlob(t), ~RemoveFails(t),
         NEW k \in Keys, NEW f \in history[k]
  PROVE  blob'[<<k, f.id>>] = blob[<<k, f.id>>]
<1> DEFINE c == call[t]
<1>1. c.op # "WriteVersionRaw" /\ <<k, f.id>> \in Paths
  <2>1. f \in Entry
    BY DEF StoreInv, TypeOK
  <2>2. QED
    BY <2>1, EntryTypes DEF OpsUsed
<1>2. CASE UNCHANGED blob
  BY <1>2
<1>3. CASE CreateBlob(t) \/ CopyBlock(t)
  <2>1. /\ c.pc \in {"create", "copy"} /\ Writes(c)
        /\ \A q \in Paths : q # Target(c) => blob'[q] = blob[q]
    BY <1>3, CreateEffect, CopyEffect
  <2>2. Target(c) # <<k, f.id>>
    BY <1>1, <2>1 DEF Writes, StoreInv, Prepared, InHand, NewVersion, Target
  <2>3. QED
    BY <1>1, <2>1, <2>2
<1>4. QED
  BY <1>2, <1>3 DEF Begin, Step, Fault, ReadVersion, RollbackTo, Open, WriteVersion,
     WriteVersionRaw, Delete, DeleteVersion, Acquire, ReadBlock, EndOfStream, RollbackWrite,
     FinishBody, SaveIndex, CreateFails, CopyFails, SaveFails

\* So a stream in use supplies what it did.
LEMMA SupplyStays ==
  ASSUME StoreInv, OpsUsed, "WriteVersionRaw" \notin Ops,
         NEW t \in Threads, Begin(t) \/ Step(t) \/ Fault(t), ~RemoveBlob(t), ~RemoveFails(t),
         NEW u \in Threads, StreamOf(call[u]), Streams(call[u]) \/ call[u].pc = "copy"
  PROVE  Supply(call[u].reader, call[u].key)' = Supply(call[u].reader, call[u].key)
         \/ call'[u].reader # call[u].reader \/ call'[u].key # call[u].key
<1> DEFINE c == call[u]
<1>1. c.key \in Keys
  BY DEF StoreInv, TypeOK, CallRecord
<1>2. CASE c.reader.file = NoVersion
  BY <1>2 DEF Supply
<1>3. CASE c.reader.file # NoVersion
  <2>1. c.reader.file = c.id
    BY <1>3 DEF StreamOf
  <2>2. Streams(c)
    <3>1. c.pc = "copy" => c.op \in {"WriteVersion", "RollbackTo"}
      BY DEF StoreInv, Prepared, InHand, Minting, OpsUsed
    <3>2. ~(c.pc = "copy" /\ c.op = "WriteVersion")
      BY <1>3 DEF StreamOf
    <3>3. QED
      BY <3>1, <3>2 DEF Streams
  <2>3. PICK f \in history[c.key] : f.id = c.id
    BY <2>2 DEF StreamOf, Source
  <2>4. blob'[<<c.key, c.id>>] = blob[<<c.key, c.id>>]
    BY <1>1, <2>3, OldBlobsStay
  <2>5. QED
    BY <2>1, <2>4 DEF Supply
<1>4. QED
  BY <1>2, <1>3

LEMMA StreamOthers ==
  ASSUME StoreInv, OpsUsed, "WriteVersionRaw" \notin Ops,
         NEW t \in Threads, Begin(t) \/ Step(t) \/ Fault(t),
         NEW u \in Threads \ {t}, StreamOf(call[u])
  PROVE  StreamOf(call[u])'
<1> DEFINE c == call[u]
           p == Target(c)
<1>1. c.key \in Keys /\ c.reader.file \in IdOrNone /\ history[c.key] \subseteq history'[c.key]
  BY HistoryGrows DEF StoreInv, TypeOK, CallRecord, Next
<1>2. c.pc = "copy" \/ (c.pc \in {"remove", "save"} /\ Minting(c)) =>
        /\ Writes(c) /\ c.pc \in Writing /\ c.entry.id \in VersionIDs /\ p \in Paths
  <2>1. c.pc = "copy" => Writes(c)
    BY DEF StoreInv, Prepared, InHand, Writes
  <2>2. c.pc \in Writing /\ Writes(c) => c.entry.id \in VersionIDs
    BY WritingEntry, EntryTypes DEF Writes
  <2>3. QED
    BY <1>1, <2>1, <2>2 DEF Writes, Writing, Target
<1>3. CASE ~RemoveBlob(t) /\ ~RemoveFails(t)
  <2>1. call'[u] = c
    BY <1>3, OneMoves
  <2>2. c.pc \in Writing => \A id \in VersionIDs : blob'[<<c.key, id>>] = blob[<<c.key, id>>]
    <3>1. CASE call[t].pc \notin Writing
      BY <1>3, <3>1, OneMoves
    <3>2. CASE call[t].pc \in Writing
      BY <1>1, <1>3, <3>2, OneMoves, KeysApart
    <3>3. QED
      BY <3>1, <3>2
  <2>3. Streams(c) \/ c.pc = "copy" =>
          Supply(call[u].reader, call[u].key)' = Supply(c.reader, c.key)
    BY <1>3, <2>1, SupplyStays
  <2>4. c.pc = "copy" \/ (c.pc \in {"remove", "save"} /\ Minting(c)) => blob'[p] = blob[p]
    BY <1>2, <2>2 DEF Target
  <2>5. QED
    BY <1>1, <2>1, <2>3, <2>4, StreamStays DEF SameCall
<1>4. CASE RemoveBlob(t) \/ RemoveFails(t)
  <2>1. PICK gone : Removal(t, gone)
    BY <1>4, RemovalEffect
  <2>2. /\ SameCall(call'[u], c) /\ call'[u].n = c.n /\ call'[u].id = c.id
        /\ call'[u].asked = c.asked
        /\ call'[u].dst = IF c.pc = "copy" /\ <<c.key, c.entry.id>> \in gone
                           THEN "unnamed" ELSE c.dst
        /\ call'[u].reader = IF c.reader.file # NoVersion /\ <<c.key, c.reader.file>> \in gone
                              THEN [file |-> NoVersion, data |-> blob[<<c.key, c.reader.file>>]]
                              ELSE c.reader
        /\ \A q \in Paths : blob'[q] = IF q \in gone THEN NoBlob ELSE blob[q]
    BY <2>1 DEF Removal, Unlinked
  <2>3. Supply(call[u].reader, call[u].key)' = Supply(c.reader, c.key)
    BY <1>1, <2>2 DEF Supply, IdOrNone, SameCall
  <2>4. call'[u].reader.file \in {NoVersion, c.reader.file}
    BY <2>2
  <2>5. c.pc # "copy" => call'[u].dst = c.dst
    BY <2>2
  <2>6. c.pc = "copy" =>
           \/ /\ call'[u].dst = "unnamed"
              /\ blob'[p] = NoBlob
           \/ /\ call'[u].dst = c.dst
              /\ blob'[p] = blob[p]
    BY <1>2, <2>2 DEF Target
  <2>7. c.pc \in {"remove", "save"} /\ Minting(c) => blob'[p] \in {NoBlob, blob[p]}
    BY <1>2, <2>2
  <2>8. QED
    BY <1>1, <2>2, <2>3, <2>4, <2>5, <2>6, <2>7, StreamStays
<1>5. QED
  BY <1>3, <1>4

\* A call that starts, or takes the lock to roll back.
LEMMA StreamBegin ==
  ASSUME StoreInv, OpsUsed, "WriteVersionRaw" \notin Ops, BlobsOfHistory,
         NEW t \in Threads, StreamOf(call[t]), Begin(t) \/ RollbackWrite(t)
  PROVE  StreamOf(call[t])'
<1> DEFINE c == call[t]
           d == call'[t]
<1>0. /\ call \in [Threads -> CallRecord] /\ NoCall \in CallRecord
      /\ NoCall.n = 0 /\ NoCall.dst = "named" /\ NoCall.reader.file = NoVersion
      /\ NoCall.entry.note = NoVersion
  BY NoCallType DEF StoreInv, TypeOK, NoCall, NoEntry, NoReader
<1>1. UNCHANGED <<index, blob, history>>
  BY DEF Begin, ReadVersion, RollbackTo, Open, WriteVersion, WriteVersionRaw, Delete,
         DeleteVersion, RollbackWrite, Acquire
<1>2. CASE ReadVersion(t) \/ RollbackTo(t)
  <2>1. PICK op \in {"ReadVersion", "RollbackTo"}, k \in Keys, id \in IdOrNone,
             pc \in {"reading", "relock"}, asked \in IdOrNone :
          Open(t, op, k, id, pc, asked) /\ asked \in {NoVersion, id}
    BY <1>2 DEF ReadVersion, RollbackTo, IdOrNone
  <2>2. PICK e : /\ e = resolveVersion(index[k], id)
                 /\ CanResolve(index[k], id)
                 /\ blob[<<k, e.id>>] # NoBlob
                 /\ call' = [call EXCEPT ![t] =
                      [NoCall EXCEPT !.pc = pc, !.op = op, !.key = k, !.id = e.id, !.asked = asked,
                                     !.reader = [file |-> e.id, data |-> NoData]]]
    BY <2>1 DEF Open
  <2>3. /\ d.pc = pc /\ d.op = op /\ d.key = k /\ d.id = e.id /\ d.n = 0 /\ d.dst = "named"
        /\ d.reader = [file |-> e.id, data |-> NoData] /\ d.asked = asked
    BY <1>0, <2>2 DEF CallRecord
  <2>4. e \in history[k]
    <3>1. Position(index[k].versions, ResolvedId(index[k], id)) \in DOMAIN index[k].versions
      BY <2>2, PositionListed DEF CanResolve
    <3>2. QED
      BY <2>2, <3>1 DEF resolveVersion, StoreInv, ListedUnaltered
  <2>5. e \in Entry /\ e.id # NoVersion /\ e.data.n \in Nat
    BY <2>4, EntryTypes, NoVersionAssumption, BlocksAssumption DEF StoreInv, TypeOK, Data
  <2>6. blob[<<k, e.id>>] = e.data
    BY <2>2, <2>4 DEF BlobsOfHistory
  <2>7. Supply(call[t].reader, call[t].key)' = e.data
    BY <1>1, <2>3, <2>5, <2>6 DEF Supply
  <2>8. Source(call[t])'
    BY <1>1, <2>3, <2>4, <2>5, <2>7 DEF Source
  <2>9. d.pc \notin Writing /\ d.pc \notin {"create", "copy", "remove", "save"}
    BY <2>1, <2>3 DEF Writing
  <2>10. asked \in {NoVersion, e.id}
    BY <2>1, <2>2, ResolvedListed DEF ResolvedId
  <2>11. QED
    BY <2>3, <2>8, <2>9, <2>10 DEF StreamOf
<1>3. CASE WriteVersion(t)
  <2>1. PICK k \in Keys, id \in Fresh : \E data : call' = [call EXCEPT ![t] =
          [NoCall EXCEPT !.pc = "create", !.op = "WriteVersion", !.key = k,
                         !.idx = index[k], !.entry = NewEntry(k, id, NoVersion),
                         !.reader = [file |-> NoVersion, data |-> data]]]
    BY <1>3 DEF WriteVersion
  <2>2. /\ d.pc = "create" /\ d.op = "WriteVersion" /\ d.n = 0 /\ d.dst = "named"
        /\ d.entry.note = NoVersion /\ d.reader.file = NoVersion
    BY <1>0, <2>1 DEF CallRecord, NewEntry
  <2>3. ~Streams(d)
    BY <2>2 DEF Streams
  <2>4. QED
    BY <2>2, <2>3 DEF StreamOf
<1>4. CASE RollbackWrite(t)
  <2>1. PICK id \in Fresh : call' = [call EXCEPT ![t].pc = "create",
          ![t].idx = index[c.key], ![t].entry = NewEntry(c.key, id, c.asked),
          ![t].asked = NoVersion]
    BY <1>4 DEF RollbackWrite
  <2>2. c.pc = "relock" /\ c.op = "RollbackTo" /\ c.key \in Keys
    BY <1>0, <1>4 DEF RollbackWrite, Acquire, StoreInv, Prepared, InHand, CallRecord
  <2>3. /\ d.pc = "create" /\ d.op = c.op /\ d.n = c.n /\ d.dst = c.dst /\ d.key = c.key
        /\ d.entry.note = c.asked /\ d.reader = c.reader /\ d.id = c.id
    BY <1>0, <2>1, <2>2 DEF CallRecord, NewEntry
  <2>4. /\ Source(c) /\ c.n = 0 /\ c.dst = "named" /\ c.reader.file \in {NoVersion, c.id}
        /\ c.asked \in {NoVersion, c.id}
    BY <2>2 DEF StreamOf, Streams
  <2>5. Supply(call[t].reader, call[t].key)' = Supply(c.reader, c.key)
    BY <1>1, <2>3 DEF Supply
  <2>6. Source(call[t])'
    BY <1>1, <2>3, <2>4, <2>5 DEF Source
  <2>7. QED
    BY <2>2, <2>3, <2>4, <2>6 DEF StreamOf
<1>5. CASE WriteVersionRaw(t)
  BY <1>5 DEF WriteVersionRaw, Acquire
<1>6. CASE Delete(t) \/ DeleteVersion(t)
  <2>1. ASSUME NEW pc \in {"remove", "save"}, NEW op \in {"Delete", "DeleteVersion"},
               NEW k, NEW idx, NEW todo,
               call' = [call EXCEPT ![t] =
                 [NoCall EXCEPT !.pc = pc, !.op = op, !.key = k, !.idx = idx, !.todo = todo]]
        PROVE  d.pc = pc /\ d.op = op /\ d.reader.file = NoVersion
    BY <1>0, <2>1 DEF CallRecord
  <2>2. /\ d.pc \in {"remove", "save"} /\ d.op \in {"Delete", "DeleteVersion"}
        /\ d.reader.file = NoVersion
    <3>1. CASE Delete(t)
      <4>1. PICK k, ids : call' = [call EXCEPT ![t] =
              [NoCall EXCEPT !.pc = Removing(ids), !.op = "Delete", !.key = k,
                             !.idx = EmptyIndex, !.todo = ids]]
        BY <3>1 DEF Delete
      <4>2. Removing(ids) \in {"remove", "save"}
        BY DEF Removing
      <4>3. QED
        BY <2>1, <4>1, <4>2
    <3>2. CASE DeleteVersion(t)
      BY <2>1, <3>2 DEF DeleteVersion
    <3>3. QED
      BY <1>6, <3>1, <3>2
  <2>3. ~Streams(d) /\ ~Minting(d)
    BY <2>2 DEF Streams, Minting
  <2>4. QED
    BY <2>2, <2>3 DEF StreamOf
<1>7. QED
  BY <1>2, <1>3, <1>4, <1>5, <1>6 DEF Begin

\* A call that has ended has no stream.
LEMMA NoStream ==
  ASSUME NEW t \in Threads, call'[t] = NoCall
  PROVE  StreamOf(call[t])'
<1>1. NoCall.pc = "idle" /\ NoCall.reader.file = NoVersion
  BY DEF NoCall, NoReader
<1>2. call'[t].pc \notin Writing /\ ~Streams(call'[t])
  BY <1>1 DEF Writing, Streams
<1>3. QED
  BY <1>1, <1>2 DEF StreamOf, Writing

\* A call at work.
LEMMA StreamStep ==
  ASSUME StoreInv, OpsUsed, "WriteVersionRaw" \notin Ops,
         NEW t \in Threads, StreamOf(call[t]), Step(t) \/ Fault(t), ~RollbackWrite(t)
  PROVE  StreamOf(call[t])'
<1> DEFINE c == call[t]
           d == call'[t]
           p == Target(c)
<1>0. /\ call \in [Threads -> CallRecord] /\ c \in CallRecord /\ c.key \in Keys
      /\ c.n \in Nat /\ c.op # "WriteVersionRaw"
      /\ blob \in [Paths -> Data \cup {NoBlob}]
  BY BlocksAssumption DEF StoreInv, TypeOK, CallRecord, OpsUsed
<1>a. \A f \in history[c.key] : f \in Entry /\ f.data \in Data /\ f.data.n \in Nat
  BY <1>0, EntryTypes, BlocksAssumption DEF StoreInv, TypeOK, Data
<1>1. CASE ReadBlock(t)
  <2>1. /\ c.pc = "reading" /\ d.pc = c.pc /\ d.op = c.op /\ d.key = c.key /\ d.id = c.id
        /\ d.n = c.n + 1 /\ d.reader = c.reader
        /\ c.n < Supply(c.reader, c.key).n
        /\ UNCHANGED <<blob, history>>
    BY <1>0, <1>1 DEF ReadBlock, CallRecord
  <2>2. PICK f \in history[c.key] : /\ f.id = c.id
                                    /\ Supply(c.reader, c.key) = f.data
                                    /\ c.n <= f.data.n
    BY <2>1 DEF StreamOf, Streams, Source
  <2>3. Supply(call[t].reader, call[t].key)' = f.data
    BY <2>1, <2>2 DEF Supply
  <2>4. d.n <= f.data.n
    BY <1>0, <1>a, <2>1, <2>2
  <2>5. Source(call[t])'
    BY <2>1, <2>2, <2>3, <2>4 DEF Source
  <2>6. d.pc \notin Writing
    BY <2>1 DEF Writing
  <2>7. QED
    BY <2>1, <2>5, <2>6 DEF StreamOf, Writing
<1>2. CASE EndOfStream(t) \/ SaveIndex(t) \/ CreateFails(t) \/ CopyFails(t) \/ SaveFails(t)
  <2>1. d = NoCall
    BY <1>0, <1>2 DEF EndOfStream, SaveIndex, CreateFails, CopyFails, SaveFails, Abandon, Return
  <2>2. QED
    BY <2>1, NoStream
<1>3. CASE CreateBlob(t)
  <2>1. /\ c.pc = "create" /\ Writes(c) /\ c.entry \in Entry /\ p \in Paths
        /\ d.pc = "copy" /\ d.op = c.op /\ d.key = c.key /\ d.entry = c.entry
        /\ d.id = c.id /\ d.n = c.n /\ d.dst = c.dst /\ d.reader = c.reader
        /\ blob'[p] = [of |-> Supply(c.reader, c.key).of, n |-> 0]
        /\ UNCHANGED history
    BY <1>3, CreateEffect
  <2>2. c.n = 0 /\ c.dst = "named" /\ Target(c)' = p
    BY <2>1 DEF StreamOf, Target
  <2>3. Supply(call[t].reader, call[t].key)' = Supply(c.reader, c.key)
    <3>1. CASE c.op = "WriteVersion"
      BY <2>1, <3>1 DEF StreamOf, Supply
    <3>2. CASE c.op = "RollbackTo"
      <4>1. Streams(c)
        BY <2>1, <3>2 DEF Streams
      <4>2. ~RemoveBlob(t) /\ ~RemoveFails(t)
        BY <2>1 DEF RemoveBlob, RemoveFails
      <4>3. QED
        BY <2>1, <4>1, <4>2, SupplyStays
    <3>3. QED
      BY <1>0, <2>1, <3>1, <3>2 DEF Writes, Minting
  <2>4. Written(call[t])'
    BY <2>1, <2>2, <2>3 DEF Written, Target
  <2>5. Streams(d) => Streams(c)
    BY <2>1 DEF Streams
  <2>6. Streams(c) => Source(call[t])'
    BY <2>1, <2>3 DEF StreamOf, Source
  <2>7. QED
    BY <2>1, <2>4, <2>5, <2>6 DEF StreamOf, Writing
<1>4. CASE CopyBlock(t)
  <2>1. /\ c.pc = "copy" /\ Writes(c) /\ c.entry \in Entry /\ p \in Paths
        /\ c.n < Supply(c.reader, c.key).n
        /\ d.pc = "copy" /\ d.op = c.op /\ d.key = c.key /\ d.entry = c.entry
        /\ d.id = c.id /\ d.n = c.n + 1 /\ d.dst = c.dst /\ d.reader = c.reader
        /\ blob'[p] = IF c.dst = "named" THEN [blob[p] EXCEPT !.n = c.n + 1] ELSE blob[p]
        /\ UNCHANGED history
    BY <1>4, CopyEffect
  <2>2. Written(c) /\ Target(c)' = p
    BY <2>1 DEF StreamOf, Target
  <2>3. Supply(call[t].reader, call[t].key)' = Supply(c.reader, c.key)
    <3>1. ~RemoveBlob(t) /\ ~RemoveFails(t)
      BY <2>1 DEF RemoveBlob, RemoveFails
    <3>2. QED
      BY <2>1, <3>1, SupplyStays
  <2>4. Written(call[t])'
    <3>1. CASE c.dst = "named"
      BY <2>1, <2>2, <2>3, <3>1 DEF Written, Target
    <3>2. CASE c.dst # "named"
      BY <2>1, <2>2, <2>3, <3>2 DEF Written, Target
    <3>3. QED
      BY <3>1, <3>2
  <2>5. Streams(d) => Streams(c)
    BY <2>1 DEF Streams
  <2>6. Streams(c) => Source(call[t])'
    <3>1. SUFFICES ASSUME Streams(c) PROVE Source(call[t])'
      OBVIOUS
    <3>2. PICK f \in history[c.key] : /\ f.id = c.id
                                      /\ Supply(c.reader, c.key) = f.data
                                      /\ c.n <= f.data.n
      BY <3>1 DEF StreamOf, Source
    <3>3. d.n <= f.data.n
      BY <1>0, <1>a, <2>1, <3>2
    <3>4. QED
      BY <2>1, <2>3, <3>2, <3>3 DEF Source
  <2>7. QED
    BY <2>1, <2>4, <2>5, <2>6 DEF StreamOf, Writing
<1>5. CASE FinishBody(t)
  <2>1. /\ c.pc = "copy" /\ Writes(c) /\ c.entry \in Entry /\ p \in Paths
        /\ c.n >= Supply(c.reader, c.key).n
        /\ d.pc \in {"remove", "save"} /\ d.op = c.op /\ d.key = c.key /\ d.id = c.id
        /\ d.dst = c.dst /\ d.reader = NoReader
        /\ d.entry.id = c.entry.id /\ d.entry.note = c.entry.note
        /\ d.entry.data = [of |-> Supply(c.reader, c.key).of, n |-> c.n]
        /\ UNCHANGED <<blob, history>>
    BY <1>0, <1>5, FinishEffect
  <2>2. Written(c) /\ Target(c)' = p
    BY <2>1 DEF StreamOf, Target
  <2>3. blob'[p] \in {d.entry.data, NoBlob}
    BY <2>1, <2>2 DEF Written
  <2>4. ASSUME c.entry.note # NoVersion
        PROVE  \E f \in history[c.key] : f.id = c.entry.note /\ f.data = d.entry.data
    <3>1. c.op = "RollbackTo" /\ c.entry.note = c.id /\ Streams(c)
      BY <1>0, <2>1, <2>4 DEF StreamOf, Writes, Minting, Writing, Streams
    <3>2. PICK f \in history[c.key] : /\ f.id = c.id
                                      /\ Supply(c.reader, c.key) = f.data
                                      /\ c.n <= f.data.n
      BY <3>1 DEF StreamOf, Source
    <3>3. c.n = f.data.n
      BY <1>0, <1>a, <2>1, <3>2
    <3>4. f.data = [of |-> f.data.of, n |-> f.data.n]
      BY <1>a DEF Data
    <3>5. QED
      BY <2>1, <3>1, <3>2, <3>3, <3>4
  <2>5. Finished(call[t])'
    BY <2>1, <2>2, <2>3, <2>4 DEF Finished
  <2>6. ~Streams(d) /\ d.reader.file = NoVersion
    BY <2>1 DEF Streams, NoReader
  <2>7. QED
    BY <2>1, <2>5, <2>6 DEF StreamOf, Writing
<1>6. CASE RemoveBlob(t) \/ RemoveFails(t)
  <2>1. PICK gone : Removal(t, gone)
    BY <1>6, RemovalEffect
  <2>2. /\ c.pc = "remove" /\ UNCHANGED history
        /\ \A q \in Paths : blob'[q] = IF q \in gone THEN NoBlob ELSE blob[q]
    BY <1>6, <2>1 DEF Removal, RemoveBlob, RemoveFails
  <2>3. CASE RemovedEnds(t)
    BY <2>3, NoStream DEF RemovedEnds
  <2>4. CASE RemovedGoesOn(t, gone)
    <3>1. /\ d.pc \in {"remove", "save"} /\ d.op = c.op /\ d.key = c.key /\ d.id = c.id
          /\ d.entry = c.entry /\ d.reader.file \in {NoVersion, c.reader.file}
      BY <2>4 DEF RemovedGoesOn, Removing
    <3>2. Minting(c) => p \in Paths
      BY <1>0, <2>2, WritingEntry, EntryTypes DEF Target, Writing
    <3>3. Minting(c) => blob'[p] \in {c.entry.data, NoBlob}
      BY <2>2, <3>2 DEF StreamOf, Finished
    <3>4. Minting(c) => Finished(call[t])'
      BY <2>2, <3>1, <3>3 DEF StreamOf, Finished, Target
    <3>5. ~Streams(d) /\ (Minting(d) <=> Minting(c))
      BY <3>1 DEF Streams, Minting
    <3>6. QED
      BY <2>2, <3>1, <3>4, <3>5 DEF StreamOf, Writing
  <2>5. QED
    BY <2>1, <2>3, <2>4 DEF Removal
<1>7. QED
  BY <1>1, <1>2, <1>3, <1>4, <1>5, <1>6 DEF Step, Fault

\* The blobs of a key's history hold what they held when they were saved.
LEMMA BlobsOfHistoryStep ==
  ASSUME StoreInv, OpsUsed, "WriteVersionRaw" \notin Ops, StreamInv, [Next]_vars
  PROVE  BlobsOfHistory'
<1>1. ASSUME NEW k \in Keys, NEW f \in history[k]
      PROVE  blob'[<<k, f.id>>] \in {f.data, NoBlob}
  <2>1. f \in Entry /\ <<k, f.id>> \in Paths /\ blob[<<k, f.id>>] \in {f.data, NoBlob}
    BY EntryTypes DEF StoreInv, TypeOK, StreamInv, BlobsOfHistory
  <2>2. CASE Crash \/ UNCHANGED vars
    BY <2>1, <2>2 DEF Crash, vars
  <2>3. ASSUME NEW t \in Threads, RemoveBlob(t) \/ RemoveFails(t)
        PROVE  blob'[<<k, f.id>>] \in {f.data, NoBlob}
    BY <2>1, <2>3, RemovalEffect DEF Removal
  <2>4. ASSUME NEW t \in Threads, Begin(t) \/ Step(t) \/ Fault(t),
               ~RemoveBlob(t), ~RemoveFails(t)
        PROVE  blob'[<<k, f.id>>] \in {f.data, NoBlob}
    BY <2>1, <2>4, OldBlobsStay
  <2>5. QED
    BY <2>2, <2>3, <2>4 DEF Next
<1>2. CASE UNCHANGED <<index, history>>
  BY <1>1, <1>2 DEF BlobsOfHistory
<1>3. ASSUME NEW t \in Threads, SaveIndex(t)
      PROVE  BlobsOfHistory'
  <2> DEFINE c == call[t]
  <2>1. /\ c.pc = "save" /\ UNCHANGED blob
        /\ \A l \in Keys : history'[l] =
             IF l = c.key THEN history[l] \cup (IF Minting(c) THEN {c.entry} ELSE {})
                          ELSE history[l]
    BY <1>3, SaveEffect
  <2>2. Minting(c) => blob[<<c.key, c.entry.id>>] \in {c.entry.data, NoBlob}
    BY <2>1 DEF StreamInv, StreamOf, Finished, Target
  <2>3. ASSUME NEW l \in Keys, NEW f \in history'[l]
        PROVE  blob'[<<l, f.id>>] \in {f.data, NoBlob}
    <3>1. f \in history[l] \/ (l = c.key /\ Minting(c) /\ f = c.entry)
      BY <2>1, <2>3
    <3>2. QED
      BY <1>1, <2>1, <2>2, <3>1
  <2>4. QED
    BY <2>3 DEF BlobsOfHistory
<1>4. QED
  BY <1>2, <1>3, OnlySaveChanges

\* A saved message names a version with the same content.
LEMMA NotesKnownStep ==
  ASSUME StoreInv, StreamInv, [Next]_vars
  PROVE  NotesKnown'
<1>1. CASE UNCHANGED <<index, history>>
  BY <1>1 DEF StreamInv, NotesKnown
<1>2. ASSUME NEW t \in Threads, SaveIndex(t)
      PROVE  NotesKnown'
  <2> DEFINE c == call[t]
  <2>1. /\ c.pc = "save" /\ c.key \in Keys
        /\ \A l \in Keys : history'[l] =
             IF l = c.key THEN history[l] \cup (IF Minting(c) THEN {c.entry} ELSE {})
                          ELSE history[l]
    BY <1>2, SaveEffect
  <2>2. Minting(c) /\ c.entry.note # NoVersion =>
          \E f \in history[c.key] : f.id = c.entry.note /\ f.data = c.entry.data
    BY <2>1 DEF StreamInv, StreamOf, Finished
  <2>3. ASSUME NEW l \in Keys, NEW e \in history'[l], e.note # NoVersion
        PROVE  \E f \in history'[l] : f.id = e.note /\ f.data = e.data
    <3>1. e \in history[l] \/ (l = c.key /\ Minting(c) /\ e = c.entry)
      BY <2>1, <2>3
    <3>2. \E f \in history[l] : f.id = e.note /\ f.data = e.data
      BY <2>2, <2>3, <3>1 DEF StreamInv, NotesKnown
    <3>3. history[l] \subseteq history'[l]
      BY <2>1
    <3>4. QED
      BY <3>2, <3>3
  <2>4. QED
    BY <2>3 DEF NotesKnown
<1>3. QED
  BY <1>1, <1>2, OnlySaveChanges

LEMMA StreamNext ==
  ASSUME StoreInv, OpsUsed, "WriteVersionRaw" \notin Ops, StreamInv, [Next]_vars
  PROVE  StreamInv'
<1>1. ASSUME NEW t \in Threads, Begin(t) \/ Step(t) \/ Fault(t), NEW u \in Threads
      PROVE  StreamOf(call[u])'
  <2>1. StreamOf(call[t]) /\ StreamOf(call[u]) /\ BlobsOfHistory
    BY DEF StreamInv
  <2>2. CASE u # t
    BY <1>1, <2>1, <2>2, StreamOthers
  <2>3. CASE u = t /\ (Begin(t) \/ RollbackWrite(t))
    BY <2>1, <2>3, StreamBegin
  <2>4. CASE u = t /\ (Step(t) \/ Fault(t)) /\ ~RollbackWrite(t)
    BY <2>1, <2>4, StreamStep
  <2>5. QED
    BY <1>1, <2>2, <2>3, <2>4
<1>2. ASSUME Crash, NEW u \in Threads PROVE StreamOf(call[u])'
  <2>1. call'[u] = NoCall
    BY <1>2 DEF Crash
  <2>2. QED
    BY <2>1, NoStream
<1>3. ASSUME UNCHANGED vars, NEW u \in Threads PROVE StreamOf(call[u])'
  <2>1. StreamOf(call[u]) /\ UNCHANGED <<call, blob, history>>
    BY <1>3 DEF StreamInv, vars
  <2>2. Supply(call[u].reader, call[u].key)' = Supply(call[u].reader, call[u].key)
    BY <2>1 DEF Supply
  <2>3. QED
    BY <2>1, <2>2, StreamStays DEF SameCall
<1>4. \A u \in Threads : StreamOf(call[u])'
  BY <1>1, <1>2, <1>3 DEF Next
<1>5. HistoryIds'
  BY HistoryIdsStep DEF StreamInv
<1>6. QED
  BY <1>4, <1>5, BlobsOfHistoryStep, NotesKnownStep DEF StreamInv

LEMMA StreamInvariant ==
  ASSUME "WriteVersionRaw" \notin Ops
  PROVE  Spec => []StreamInv
<1>1. Init => StreamInv
  <2> SUFFICES ASSUME Init PROVE StreamInv
    OBVIOUS
  <2>1. \A t \in Threads : StreamOf(call[t])
    BY DEF Init, StreamOf, NoCall, NoReader, Streams, Writing
  <2>2. QED
    BY <2>1 DEF Init, StreamInv, HistoryIds, BlobsOfHistory, NotesKnown
<1>2. StoreInv /\ OpsUsed /\ StreamInv /\ [Next]_vars => StreamInv'
  BY StreamNext
<1>3. QED
  BY <1>1, <1>2, StoreInvariant, OpsUsedAlways, PTL DEF Spec

\* RollbackTo copies from a stream it opened before it waited for the lock; what
\* it writes is still the content of the version it was asked for, whatever is
\* written, pruned, deleted, lost or torn down by another key in between.
THEOREM RollbackCopiesItsVersion ==
  ASSUME "WriteVersionRaw" \notin Ops
  PROVE  Spec => []RollbackFaithful
<1>1. StoreInv /\ StreamInv => RollbackFaithful
  <2> SUFFICES ASSUME StoreInv, StreamInv, NEW k \in Keys,
                      NEW e \in history[k], NEW f \in history[k], e.note = f.id
               PROVE  e.data = f.data
    BY DEF RollbackFaithful
  <2>1. e.note # NoVersion
    BY EntryTypes, NoVersionAssumption DEF StoreInv, TypeOK
  <2>2. PICK g \in history[k] : g.id = e.note /\ g.data = e.data
    BY <2>1 DEF StreamInv, NotesKnown
  <2>3. g = f
    BY <2>2 DEF StreamInv, HistoryIds
  <2>4. QED
    BY <2>2, <2>3
<1>2. QED
  BY <1>1, StoreInvariant, StreamInvariant, PTL

\* A stream ends exactly where the version it was opened on does, although
\* nothing protects the file while it is read.
THEOREM ReadersGetItAll ==
  ASSUME "WriteVersionRaw" \notin Ops
  PROVE  Spec => ReadsComplete
<1> DEFINE A == \A t \in Threads : EndOfStream(t) =>
                  call[t].n = (CHOOSE e \in history[call[t].key] : e.id = call[t].id).data.n
<1>1. StoreInv /\ StreamInv /\ [Next]_vars => [A]_vars
  <2> SUFFICES ASSUME StoreInv, StreamInv, NEW t \in Threads, EndOfStream(t)
               PROVE  call[t].n = (CHOOSE e \in history[call[t].key] : e.id = call[t].id).data.n
    OBVIOUS
  <2> DEFINE c == call[t]
             H == history[c.key]
  <2>1. c.pc = "reading" /\ c.n >= Supply(c.reader, c.key).n
    BY DEF EndOfStream
  <2>2. c.key \in Keys /\ c.n \in Nat
    BY BlocksAssumption DEF StoreInv, TypeOK, CallRecord
  <2>3. PICK f \in H : f.id = c.id /\ Supply(c.reader, c.key) = f.data /\ c.n <= f.data.n
    BY <2>1 DEF StreamInv, StreamOf, Streams, Source
  <2>4. f.data.n \in Nat
    BY <2>2, EntryTypes, BlocksAssumption DEF StoreInv, TypeOK, Data
  <2>5. c.n = f.data.n
    BY <2>1, <2>2, <2>3, <2>4
  <2>6. \A e \in H : e.id = c.id => e = f
    BY <2>2, <2>3 DEF StreamInv, HistoryIds
  <2> HIDE DEF H
  <2>7. (CHOOSE e \in H : e.id = c.id) = f
    BY <2>3, <2>6
  <2>8. QED
    BY <2>5, <2>7 DEF H
<1>2. QED
  BY <1>1, StoreInvariant, StreamInvariant, PTL DEF Spec, ReadsComplete

-----------------------------------------------------------------------------
(* One lock per key is enough only where RemoveAll stays within the blob it *)
(* is meant for.                                                            *)
(***************************************************************************)

\* What a goroutine does under a key's lock leaves every other key's index and
\* blobs alone, if no two blobs share a FirstPathName.
THEOREM KeysDoNotMeet ==
  ASSUME PrefixesDiffer
  PROVE  Spec => KeysIndependent
<1> DEFINE A == \A t \in Threads : Step(t) =>
                  \A p \in Paths : p[1] # call[t].key =>
                    index'[p[1]] = index[p[1]] /\ blob'[p] = blob[p]
<1>1. StoreInv /\ [Next]_vars => [A]_vars
  <2> SUFFICES ASSUME StoreInv, NEW t \in Threads, Step(t), NEW p \in Paths,
                      p[1] # call[t].key
               PROVE  index'[p[1]] = index[p[1]] /\ blob'[p] = blob[p]
    OBVIOUS
  <2>1. p[1] \in Keys /\ p[2] \in VersionIDs /\ p = <<p[1], p[2]>>
    BY DEF Paths
  <2>2. CASE RemoveBlob(t) \/ RemoveFails(t)
    <3>1. PICK gone : Removal(t, gone)
      BY <2>2, RemovalEffect
    <3>2. gone \subseteq {<<call[t].key, Head(call[t].todo)>>}
      BY <3>1, OneUnderRoot DEF Removal
    <3>3. p \notin gone
      BY <3>2
    <3>4. QED
      BY <3>1, <3>3 DEF Removal
  <2>3. CASE ~RemoveBlob(t) /\ ~RemoveFails(t)
    BY <2>1, <2>3, OneMoves
  <2>4. QED
    BY <2>2, <2>3
<1>2. QED
  BY <1>1, StoreInvariant, PTL DEF Spec, KeysIndependent
=============================================================================
