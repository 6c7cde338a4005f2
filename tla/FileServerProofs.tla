-------------------------- MODULE FileServerProofs ---------------------------
(***************************************************************************)
(* Theorems about FileServer, for every set of nodes, keys and clients,    *)
(* every choice of calls and of faults, any length of files and any        *)
(* MaxVersions.                                                            *)
(*                                                                         *)
(* ServerInv is the inductive invariant.  It says of each transfer what    *)
(* its two ends have in hand at each of its phases: which entry, which     *)
(* source, and what of the blob has arrived.                               *)
(***************************************************************************)
EXTENDS FileServer, VersionIndexProofs

\* The client's call has no stream at work.
Resting == {"idle", "stored", "here", "try"}
\* The phases in which a transfer has an open source.
Live == {"ready", "recv", "check", "good"}
\* The entries made for the file that client c's call is about.
OfFile(c) == history[<<At[c], call[c].key>>]

\* An open source is a file of c's node's namespace, by name or without one.
SourceOK(c, f) ==
    IF f.id = NoVersion
      THEN f.data \in Blob /\ f.data.for = At[c]
      ELSE /\ f.shelf \in Shelves
           /\ f.shelf[2] = At[c]
           /\ blob[f.shelf][f.id] # NoBlob
LockOK(c, p) ==
    \A s \in Shelves : writer[s] = <<c, p>> <=> xfer[c][p].pc = "recv" /\ Into(c, p) = s
\* While a body arrives, its blob is there and as long as what has arrived.
ArrivingOK(c, p) ==
    LET x == xfer[c][p]
    IN  x.pc = "recv" => /\ x.entry.id \in VersionIDs
                         /\ blob[Into(c, p)][x.entry.id] # NoBlob
                         /\ blob[Into(c, p)][x.entry.id].n = x.n
TransferOK(c, p) ==
    LET x == xfer[c][p]
    IN  /\ LockOK(c, p)
        /\ call[c].pc \in Resting => x.pc \in {"idle", "end"}
        /\ x.pc = "info" => ~Pushing(c)
        /\ x.pc \in {"open", "info", "ready"} => x.n = 0
        /\ x.pc \in {"info"} \cup Live /\ call[c].op # "share" => x.entry \in OfFile(c)
        /\ x.pc \in Live => SourceOK(c, x.src)
        /\ ArrivingOK(c, p)
CallOK(c) == call[c].op = "put" => call[c].entry \in OfFile(c)

ServerInv == /\ TypeOK
             /\ ReplicasAgree
             /\ OwnersKeyOnly
             /\ \A c \in Clients : CallOK(c)
             /\ \A c \in Clients, p \in Nodes : TransferOK(c, p)

-----------------------------------------------------------------------------
(* Types of the values calls and transfers are made of.                    *)
(***************************************************************************)
Index == [latest : IdOrNone, versions : Seq(Entry)]
EntryOrNone == [id : IdOrNone, seq : Nat, data : Content]

LEMMA EntryTypes ==
  /\ \A e \in Entry : /\ e.id \in VersionIDs /\ e.seq \in Nat /\ e.data \in Content
                      /\ e.id # NoVersion
  /\ Entry \subseteq EntryOrNone
  /\ NoContent \in Content
  /\ NoEntry \in EntryOrNone
  /\ VersionIDs \subseteq IdOrNone /\ NoVersion \in IdOrNone
BY NoVersionAssumption, FileServerAssumption
   DEF Entry, EntryOrNone, IdOrNone, NoEntry, NoContent, Content

LEMMA BlobTypes ==
  /\ NoBlob \notin Blob
  /\ \A b \in Blob : b.of \in IdOrNone /\ b.for \in Nodes /\ b.n \in 0 .. Blocks /\ b.n \in Nat
  /\ NoBlob.n = -1
  /\ NoBlob \in Blob \cup {NoBlob}
<1>1. NoBlob.n = -1
  BY DEF NoBlob
<1>2. \A b \in Blob : b.of \in IdOrNone /\ b.for \in Nodes /\ b.n \in 0 .. Blocks /\ b.n \in Nat
  BY FileServerAssumption DEF Blob
<1>3. QED
  BY <1>1, <1>2

LEMMA NoFileType == NoFile \in File /\ NoFile.id = NoVersion
BY DEF NoFile, File, IdOrNone

LEMMA NoCallType ==
  /\ NoCall \in CallRecord
  /\ NoCall.pc = "idle" /\ NoCall.op = "none" /\ NoCall.left = {} /\ NoCall.entry = NoEntry
<1>1. (CHOOSE k \in Keys : TRUE) \in Keys
  BY FileServerAssumption
<1>2. QED
  BY <1>1, EntryTypes DEF NoCall, CallRecord, EntryOrNone

LEMMA NoTransferType ==
  /\ NoTransfer \in TransferRecord /\ NoTransfer.pc = "idle"
  /\ Opening \in TransferRecord /\ Opening.pc = "open" /\ Opening.n = 0
BY EntryTypes, NoFileType, FileServerAssumption
   DEF NoTransfer, Opening, TransferRecord, EntryOrNone

LEMMA EmptyIndexType == EmptyIndex \in Index /\ Entries(EmptyIndex.versions) = {}
BY EmptySeq DEF EmptyIndex, Index, IdOrNone, Entries

LEMMA ListedEntries ==
  ASSUME NEW s \in Shelves
  PROVE  Listed(s) = Entries(index[s].versions)
BY DEF Listed, Entries

LEMMA IntoShelf ==
  ASSUME TypeOK, NEW c \in Clients, NEW p \in Nodes
  PROVE  /\ Into(c, p) \in Shelves
         /\ call[c].op # "share" => FileOf(Into(c, p)) = <<At[c], call[c].key>>
         /\ call[c].op # "share" => Into(c, p)[2] = At[c]
         /\ call[c].op = "share" => Into(c, p) = <<p, p, call[c].dest>>
         /\ call[c].op = "put" => Into(c, p) = <<p, At[c], call[c].key>>
         /\ call[c].op \notin Pushes => Into(c, p) = Own(c, call[c].key)
BY FileServerAssumption DEF TypeOK, CallRecord, Into, Own, Shelves, FileOf, Pushes

-----------------------------------------------------------------------------
(* What a step leaves of the transfers it is not about.                    *)
(***************************************************************************)
Entitled == \A f \in Files : history[f] \subseteq history'[f]
\* The client's call is still about the same file.
SameCall(c) == /\ call'[c].op = call[c].op
               /\ call'[c].key = call[c].key
               /\ call'[c].dest = call[c].dest

LEMMA SameInto ==
  ASSUME NEW c \in Clients, NEW p \in Nodes, SameCall(c)
  PROVE  Into(c, p)' = Into(c, p) /\ Pushing(c)' = Pushing(c)
BY DEF SameCall, Into, Own, Pushing

LEMMA FileOfCall ==
  ASSUME TypeOK, NEW c \in Clients
  PROVE  <<At[c], call[c].key>> \in Files
BY FileServerAssumption DEF TypeOK, CallRecord, Files

\* A transfer that goes on as it was, or breaks, or ends, stays as it should be.
LEMMA Undisturbed ==
  ASSUME TypeOK, NEW c \in Clients, NEW p \in Nodes, TransferOK(c, p),
         SameCall(c), Entitled,
         xfer'[c][p].pc \in {xfer[c][p].pc, "bad", "end"},
         xfer'[c][p].n = xfer[c][p].n, xfer'[c][p].entry = xfer[c][p].entry,
         call'[c].pc \in Resting => xfer'[c][p].pc \in {"idle", "end"},
         xfer'[c][p].pc \in Live => SourceOK(c, xfer[c][p].src)',
         \A s \in Shelves : writer'[s] = <<c, p>> <=> writer[s] = <<c, p>> /\ xfer'[c][p].pc = "recv",
         xfer'[c][p].pc = "recv" =>
           blob'[Into(c, p)][xfer[c][p].entry.id] = blob[Into(c, p)][xfer[c][p].entry.id]
  PROVE  TransferOK(c, p)'
<1> DEFINE x == xfer[c][p]
           y == xfer'[c][p]
<1>1. Into(c, p)' = Into(c, p) /\ Pushing(c)' = Pushing(c)
  BY SameInto
<1>2. LockOK(c, p)'
  BY <1>1 DEF TransferOK, LockOK
<1>3. ArrivingOK(c, p)'
  <2> SUFFICES ASSUME y.pc = "recv" PROVE ArrivingOK(c, p)'
    BY DEF ArrivingOK
  <2>1. x.pc = "recv"
    OBVIOUS
  <2>2. QED
    BY <1>1, <2>1 DEF TransferOK, ArrivingOK
<1>4. OfFile(c) \subseteq OfFile(c)'
  BY FileOfCall DEF SameCall, OfFile, Entitled
<1>5. y.pc \in {"info"} \cup Live => y.pc = x.pc
  BY DEF Live
<1>6. y.pc \in {"info"} \cup Live /\ call'[c].op # "share" => y.entry \in OfFile(c)'
  BY <1>4, <1>5 DEF TransferOK, SameCall
<1>7. y.pc = "info" => ~Pushing(c)'
  BY <1>1 DEF TransferOK
<1>8. y.pc \in {"open", "info", "ready"} => y.n = 0
  BY DEF TransferOK
<1>9. QED
  BY <1>2, <1>3, <1>6, <1>7, <1>8 DEF TransferOK

\* A transfer that is not at work, or has not opened anything yet.
LEMMA AtRest ==
  ASSUME NEW c \in Clients, NEW p \in Nodes,
         xfer'[c][p].pc \in {"idle", "end"} \/ (xfer'[c][p].pc = "open" /\ xfer'[c][p].n = 0),
         call'[c].pc \in Resting => xfer'[c][p].pc # "open",
         \A s \in Shelves : writer'[s] # <<c, p>>
  PROVE  TransferOK(c, p)'
BY DEF TransferOK, LockOK, ArrivingOK, Live

LEMMA IdleLockless ==
  ASSUME NEW c \in Clients, NEW p \in Nodes, TransferOK(c, p), xfer[c][p].pc # "recv"
  PROVE  \A s \in Shelves : writer[s] # <<c, p>>
BY DEF TransferOK, LockOK

\* An open source stays one while its name does.
LEMMA SourceKept ==
  ASSUME NEW c \in Clients, NEW f \in File, SourceOK(c, f),
         \A s \in Shelves, id \in VersionIDs : blob[s][id] # NoBlob => blob'[s][id] # NoBlob
  PROVE  SourceOK(c, f)'
BY DEF SourceOK, File, IdOrNone

\* Detach, as a state function of the transfers it is given.
AfterDetach(next, s, ids) == [c \in Clients |-> [p \in Nodes |-> Detached(next[c][p], s, ids)]]

\* The files that lose their names: streams that are open on them go on.
LEMMA DetachKeeps ==
  ASSUME TypeOK, OwnersKeyOnly,
         NEW next \in [Clients -> [Nodes -> TransferRecord]],
         NEW s \in Shelves, NEW ids \in SUBSET VersionIDs,
         xfer' = AfterDetach(next, s, ids),
         NEW c \in Clients, NEW p \in Nodes
  PROVE  /\ xfer'[c][p] \in TransferRecord
         /\ xfer'[c][p].pc = next[c][p].pc /\ xfer'[c][p].entry = next[c][p].entry
         /\ xfer'[c][p].n = next[c][p].n /\ xfer'[c][p].want = next[c][p].want
         /\ xfer'[c][p].res = next[c][p].res
<1>1. xfer'[c][p] = Detached(next[c][p], s, ids)
  BY DEF AfterDetach
<1>2. next[c][p] \in TransferRecord
  OBVIOUS
<1>3. CASE next[c][p].src.id \in ids /\ next[c][p].src.shelf = s
  <2>1. blob[s][next[c][p].src.id] \in Blob \cup {NoBlob}
    BY <1>3 DEF TypeOK
  <2>2. [NoFile EXCEPT !.data = blob[s][next[c][p].src.id]] \in File
    BY <2>1, NoFileType DEF File
  <2>3. QED
    BY <1>1, <1>2, <1>3, <2>2 DEF Detached, TransferRecord
<1>4. CASE ~(next[c][p].src.id \in ids /\ next[c][p].src.shelf = s)
  BY <1>1, <1>2, <1>4 DEF Detached
<1>5. QED
  BY <1>3, <1>4

LEMMA DetachedSource ==
  ASSUME TypeOK, OwnersKeyOnly,
         NEW next \in [Clients -> [Nodes -> TransferRecord]],
         NEW s \in Shelves, NEW ids \in SUBSET VersionIDs,
         xfer' = AfterDetach(next, s, ids),
         NEW c \in Clients, NEW p \in Nodes
  PROVE  xfer'[c][p].src =
           IF next[c][p].src.id \in ids /\ next[c][p].src.shelf = s
             THEN [NoFile EXCEPT !.data = blob[s][next[c][p].src.id]]
             ELSE next[c][p].src
<1>1. xfer'[c][p] = Detached(next[c][p], s, ids)
  BY DEF AfterDetach
<1>2. QED
  BY <1>1 DEF Detached, TransferRecord

LEMMA DetachedSourceOK ==
  ASSUME TypeOK, OwnersKeyOnly,
         NEW next \in [Clients -> [Nodes -> TransferRecord]],
         NEW s \in Shelves, NEW ids \in SUBSET VersionIDs,
         xfer' = AfterDetach(next, s, ids),
         NEW c \in Clients, NEW p \in Nodes, SourceOK(c, next[c][p].src),
         \A t \in Shelves, id \in VersionIDs :
           blob[t][id] # NoBlob /\ ~(t = s /\ id \in ids) => blob'[t][id] # NoBlob
  PROVE  SourceOK(c, xfer[c][p].src)'
<1> DEFINE f == next[c][p].src
           g == xfer'[c][p].src
<1>1. g = IF f.id \in ids /\ f.shelf = s THEN [NoFile EXCEPT !.data = blob[s][f.id]] ELSE f
  BY DetachedSource
<1>2. f \in File
  BY DEF TransferRecord
<1> HIDE DEF f, g
<1>3. CASE f.id \in ids /\ f.shelf = s
  <2>1. f.id \in VersionIDs /\ f.id # NoVersion
    BY <1>3, NoVersionAssumption
  <2>2. blob[s][f.id] \in Blob /\ blob[s][f.id].for = At[c]
    BY <1>3, <2>1 DEF SourceOK, TypeOK, OwnersKeyOnly, f
  <2>3. g.id = NoVersion /\ g.data = blob[s][f.id]
    BY <1>1, <1>3, NoFileType DEF NoFile
  <2>4. QED
    BY <2>2, <2>3 DEF SourceOK, g
<1>4. CASE ~(f.id \in ids /\ f.shelf = s)
  <2>1. g = f
    BY <1>1, <1>4
  <2>2. f.id # NoVersion => blob'[f.shelf][f.id] # NoBlob
    BY <1>2, <1>4 DEF SourceOK, File, IdOrNone, f
  <2>3. QED
    BY <2>1, <2>2 DEF SourceOK, f, g
<1>5. QED
  BY <1>3, <1>4

LEMMA DetachedTyped ==
  ASSUME TypeOK, OwnersKeyOnly,
         NEW next \in [Clients -> [Nodes -> TransferRecord]],
         NEW s \in Shelves, NEW ids \in SUBSET VersionIDs,
         xfer' = AfterDetach(next, s, ids)
  PROVE  xfer' \in [Clients -> [Nodes -> TransferRecord]]
<1>1. \A c \in Clients, p \in Nodes : xfer'[c][p] \in TransferRecord
  BY DetachKeeps
<1>2. QED
  BY <1>1 DEF AfterDetach

\* A transfer that a step at shelf s is not about, when it is not receiving there.
LEMMA Bystander ==
  ASSUME TypeOK, NEW d \in Clients, NEW q \in Nodes, TransferOK(d, q),
         call'[d] = call[d], Entitled,
         NEW s \in Shelves, writer[s] # <<d, q>>, writer'[s] # <<d, q>>,
         \A t \in Shelves : t # s => writer'[t] = writer[t] /\ blob'[t] = blob[t],
         xfer'[d][q].pc = xfer[d][q].pc, xfer'[d][q].n = xfer[d][q].n,
         xfer'[d][q].entry = xfer[d][q].entry,
         SourceOK(d, xfer[d][q].src) => SourceOK(d, xfer[d][q].src)'
  PROVE  TransferOK(d, q)'
<1> DEFINE x == xfer[d][q]
<1>1. SameCall(d)
  BY DEF SameCall
<1>2. call'[d].pc \in Resting => xfer'[d][q].pc \in {"idle", "end"}
  BY DEF TransferOK
<1>3. xfer'[d][q].pc \in Live => SourceOK(d, xfer[d][q].src)'
  BY DEF TransferOK
<1>4. x.pc = "recv" => Into(d, q) \in Shelves /\ Into(d, q) # s
  BY IntoShelf DEF TransferOK, LockOK
<1>5. \A t \in Shelves :
        writer'[t] = <<d, q>> <=> writer[t] = <<d, q>> /\ xfer'[d][q].pc = "recv"
  BY DEF TransferOK, LockOK
<1>6. xfer'[d][q].pc = "recv" => blob'[Into(d, q)][x.entry.id] = blob[Into(d, q)][x.entry.id]
  BY <1>4
<1>7. QED
  BY <1>1, <1>2, <1>3, <1>5, <1>6, Undisturbed

\* A step that touches no shelf and no lock.
LEMMA DiskSame ==
  ASSUME ReplicasAgree, OwnersKeyOnly, UNCHANGED <<index, blob, history>>
  PROVE  ReplicasAgree' /\ OwnersKeyOnly' /\ Entitled
BY DEF ReplicasAgree, OwnersKeyOnly, Listed, Entitled

\* A step at one shelf.
LEMMA ShelfStep ==
  ASSUME ReplicasAgree, OwnersKeyOnly, Entitled, NEW s \in Shelves,
         \A t \in Shelves : t # s => index'[t] = index[t] /\ blob'[t] = blob[t],
         Entries(index'[s].versions) \subseteq history'[FileOf(s)],
         \A id \in VersionIDs : blob'[s][id] # NoBlob => blob'[s][id].for = s[2]
  PROVE  ReplicasAgree' /\ OwnersKeyOnly'
<1>1. \A t \in Shelves : FileOf(t) \in Files
  BY DEF Shelves, Files, FileOf
<1>2. ReplicasAgree'
  <2> SUFFICES ASSUME NEW t \in Shelves PROVE Listed(t)' \subseteq history'[FileOf(t)]
    BY DEF ReplicasAgree
  <2>1. CASE t = s
    BY <2>1 DEF Listed, Entries
  <2>2. CASE t # s
    BY <2>2, <1>1 DEF Listed, ReplicasAgree, Entitled
  <2>3. QED
    BY <2>1, <2>2
<1>3. OwnersKeyOnly'
  BY DEF OwnersKeyOnly
<1>4. QED
  BY <1>2, <1>3

LEMMA PrunedIndex ==
  ASSUME NEW idx \in Index
  PROVE  /\ pruneOldestVersions(idx) \in Index
         /\ Entries(pruneOldestVersions(idx).versions) \subseteq Entries(idx.versions)
         /\ Pruned(idx) \subseteq VersionIDs
         /\ MaxVersions = 0 => pruneOldestVersions(idx) = idx /\ Pruned(idx) = {}
<1>1. /\ idx = [latest |-> idx.latest, versions |-> idx.versions]
      /\ idx.versions \in Seq(Entry) /\ idx.latest \in IdOrNone
  BY DEF Index
<1> DEFINE new == pruneOldestVersions(idx)
<1>2. /\ new = [latest |-> idx.latest, versions |-> new.versions]
      /\ new.versions \in Seq(Entry)
      /\ Entries(new.versions) \subseteq Entries(idx.versions)
      /\ MaxVersions = 0 => new = idx
      /\ \A j \in DOMAIN PrunedIds(idx) : PrunedIds(idx)[j] \in IdsOf(idx.versions)
      /\ MaxVersions = 0 => DOMAIN PrunedIds(idx) = {}
  <2> DEFINE l == idx.latest
             v == idx.versions
             old == [latest |-> l, versions |-> v]
  <2>1. v \in Seq(Entry) /\ old = idx
    BY <1>1
  <2> HIDE DEF l, v
  <2>2. /\ pruneOldestVersions(old) = [latest |-> l, versions |-> pruneOldestVersions(old).versions]
        /\ pruneOldestVersions(old).versions \in Seq(Entry)
        /\ Entries(pruneOldestVersions(old).versions) \subseteq Entries(v)
        /\ MaxVersions = 0 => pruneOldestVersions(old) = old
        /\ \A j \in DOMAIN PrunedIds(old) : PrunedIds(old)[j] \in IdsOf(v)
        /\ MaxVersions = 0 => DOMAIN PrunedIds(old) = {}
    BY <2>1, PruneEntries
  <2> HIDE DEF old
  <2>3. QED
    BY <2>1, <2>2 DEF l, v
<1>3. IdsOf(idx.versions) \subseteq VersionIDs
  BY <1>1, IdsOfEntries, EntriesTyped, EntryTypes
<1> HIDE DEF new
<1>4. new \in Index
  BY <1>1, <1>2 DEF Index
<1>5. QED
  BY <1>2, <1>3, <1>4 DEF new, Pruned

LEMMA WithoutBlobs ==
  ASSUME NEW blobs \in [VersionIDs -> Blob \cup {NoBlob}], NEW ids
  PROVE  /\ Without(blobs, ids) \in [VersionIDs -> Blob \cup {NoBlob}]
         /\ \A id \in VersionIDs :
              Without(blobs, ids)[id] = IF id \in ids THEN NoBlob ELSE blobs[id]
BY DEF Without

LEMMA AppendIndex ==
  ASSUME NEW idx \in Index, NEW e \in Entry
  PROVE  AppendLatest(idx, e) \in Index /\ Entries(AppendLatest(idx, e).versions) = Entries(idx.versions) \cup {e}
BY AppendEntries, EntryTypes DEF AppendLatest, Index

LEMMA UpsertIndex ==
  ASSUME NEW idx \in Index, NEW e \in Entry
  PROVE  /\ UpsertLatest(idx, e) \in Index
         /\ Entries(UpsertLatest(idx, e).versions) \subseteq Entries(idx.versions) \cup {e}
         /\ {f \in Entries(idx.versions) : f.id # e.id} \cup {e}
              \subseteq Entries(UpsertLatest(idx, e).versions)
BY UpsertEntries, EntryTypes DEF UpsertLatest, Index

LEMMA RemoveIndex ==
  ASSUME NEW idx \in Index, NEW id \in IdsOf(idx.versions)
  PROVE  /\ RemoveVersion(idx, id) \in Index
         /\ Entries(RemoveVersion(idx, id).versions) \subseteq Entries(idx.versions)
         /\ {f \in Entries(idx.versions) : f.id # id}
              \subseteq Entries(RemoveVersion(idx, id).versions)
<1>1. idx.versions \in Seq(Entry) /\ idx.latest \in IdOrNone
  BY DEF Index
<1> DEFINE new == RemoveVersion(idx, id)
<1>2. /\ new = [latest |-> new.latest, versions |-> new.versions]
      /\ new.versions \in Seq(Entry)
      /\ Entries(new.versions) \subseteq Entries(idx.versions)
      /\ {f \in Entries(idx.versions) : f.id # id} \subseteq Entries(new.versions)
      /\ new.latest \in {idx.latest, NoVersion} \cup IdsOf(new.versions)
  BY <1>1, RemoveEntries
<1>3. IdsOf(new.versions) \subseteq VersionIDs
  BY <1>2, IdsOfEntries, EntriesTyped, EntryTypes
<1> HIDE DEF new
<1>4. new \in Index
  BY <1>1, <1>2, <1>3, EntryTypes DEF Index
<1>5. QED
  BY <1>2, <1>4 DEF new

LEMMA ResolvedEntry ==
  ASSUME NEW idx \in Index, NEW id, CanResolve(idx, id)
  PROVE  /\ resolveVersion(idx, id) \in Entry
         /\ resolveVersion(idx, id) \in Entries(idx.versions)
         /\ resolveVersion(idx, id).id = ResolvedId(idx, id)
BY ResolvedListed, EntriesTyped DEF Index

LEMMA IndexTyped ==
  ASSUME TypeOK, NEW s \in Shelves
  PROVE  /\ index[s] \in Index
         /\ nextSeq(index[s]) \in Nat
         /\ IdsOf(index[s].versions) \subseteq VersionIDs
         /\ Entries(index[s].versions) \subseteq Entry
         /\ blob[s] \in [VersionIDs -> Blob \cup {NoBlob}]
         /\ FileOf(s) \in Files /\ history[FileOf(s)] \subseteq Entry
<1>1. index[s] \in Index
  BY DEF TypeOK, Index
<1>2. index[s].versions \in Seq(Entry)
  BY <1>1 DEF Index
<1>3. \A e \in Entry : e.seq \in Nat
  BY EntryTypes
<1>4. nextSeq(index[s]) \in Nat
  BY <1>2, <1>3, nextSeqNumber
<1>5. Entries(index[s].versions) \subseteq Entry
  BY <1>2, EntriesTyped
<1>6. IdsOf(index[s].versions) \subseteq VersionIDs
  BY <1>5, IdsOfEntries, EntryTypes
<1>7. FileOf(s) \in Files
  BY DEF Shelves, Files, FileOf
<1>8. QED
  BY <1>1, <1>4, <1>5, <1>6, <1>7 DEF TypeOK

-----------------------------------------------------------------------------
(* The steps of a client's call that leave the disks alone.                *)
(***************************************************************************)
LEMMA CallStep ==
  ASSUME ServerInv, NEW c \in Clients,
         UNCHANGED <<index, blob, writer, history, confirmed>>,
         call' \in [Clients -> CallRecord],
         xfer' \in [Clients -> [Nodes -> TransferRecord]],
         \A d \in Clients : d # c => call'[d] = call[d] /\ xfer'[d] = xfer[d],
         CallOK(c)', \A p \in Nodes : TransferOK(c, p)'
  PROVE  ServerInv'
<1>1. TypeOK'
  BY DEF ServerInv, TypeOK
<1>2. ReplicasAgree' /\ OwnersKeyOnly' /\ Entitled
  BY DiskSame DEF ServerInv
<1>3. ASSUME NEW d \in Clients, d # c PROVE CallOK(d)'
  BY <1>3 DEF ServerInv, CallOK, OfFile
<1>4. ASSUME NEW d \in Clients, NEW q \in Nodes, d # c PROVE TransferOK(d, q)'
  <2>1. TransferOK(d, q) /\ call'[d] = call[d] /\ xfer'[d][q] = xfer[d][q]
    BY <1>4 DEF ServerInv
  <2>2. SourceOK(d, xfer[d][q].src) => SourceOK(d, xfer[d][q].src)'
    BY <2>1 DEF SourceOK
  <2>3. SameCall(d)
    BY <2>1 DEF SameCall
  <2>4. \A s \in Shelves :
          writer'[s] = <<d, q>> <=> writer[s] = <<d, q>> /\ xfer'[d][q].pc = "recv"
    BY <2>1 DEF TransferOK, LockOK
  <2>5. call'[d].pc \in Resting => xfer'[d][q].pc \in {"idle", "end"}
    BY <2>1 DEF TransferOK
  <2>6. xfer'[d][q].pc \in Live => SourceOK(d, xfer[d][q].src)'
    BY <2>1, <2>2 DEF TransferOK
  <2>7. TypeOK
    BY DEF ServerInv
  <2>8. QED
    BY <1>2, <2>1, <2>3, <2>4, <2>5, <2>6, <2>7, Undisturbed
<1>5. QED
  BY <1>1, <1>2, <1>3, <1>4 DEF ServerInv

\* A call whose streams have all ended, and that may open new ones.
LEMMA RestStep ==
  ASSUME ServerInv, NEW c \in Clients,
         UNCHANGED <<index, blob, writer, history, confirmed>>,
         call' \in [Clients -> CallRecord],
         xfer' \in [Clients -> [Nodes -> TransferRecord]],
         \A d \in Clients : d # c => call'[d] = call[d] /\ xfer'[d] = xfer[d],
         CallOK(c)',
         \A p \in Nodes :
           /\ xfer[c][p].pc \in {"idle", "end"}
           /\ \/ xfer'[c][p].pc \in {"idle", "end"}
              \/ /\ xfer'[c][p].pc = "open" /\ xfer'[c][p].n = 0
                 /\ call'[c].pc \notin Resting
  PROVE  ServerInv'
<1>1. ASSUME NEW p \in Nodes PROVE TransferOK(c, p)'
  <2>1. \A s \in Shelves : writer'[s] # <<c, p>>
    BY IdleLockless DEF ServerInv
  <2>2. QED
    BY <2>1, AtRest
<1>2. QED
  BY <1>1, CallStep

LEMMA FanTyped ==
  ASSUME TypeOK, NEW c \in Clients, NEW peers
  PROVE  /\ Fan(c, peers) \in [Clients -> [Nodes -> TransferRecord]]
         /\ \A d \in Clients : d # c => Fan(c, peers)[d] = xfer[d]
         /\ \A p \in Nodes : Fan(c, peers)[c][p] = IF p \in peers THEN Opening ELSE NoTransfer
BY NoTransferType DEF TypeOK, Fan

LEMMA RestingTransfers ==
  ASSUME ServerInv, NEW c \in Clients, call[c].pc \in Resting
  PROVE  \A p \in Nodes : xfer[c][p].pc \in {"idle", "end"}
BY DEF ServerInv, TransferOK

LEMMA ShareToOK ==
  ASSUME ServerInv, NEW c \in Clients, call[c].pc \in {"idle", "stored"},
         NEW k \in Keys, NEW dest \in Keys, NEW id \in IdOrNone, NEW targets,
         ShareTo(c, k, dest, id, targets)
  PROVE  ServerInv'
<1>1. TypeOK /\ CallOK(c) /\ call[c] \in CallRecord
  BY DEF ServerInv, TypeOK
<1>2. \A p \in Nodes : xfer[c][p].pc \in {"idle", "end"}
  BY RestingTransfers DEF Resting
<1>3. CASE index[Own(c, k)].latest # NoVersion
  <2>1. /\ xfer' = Fan(c, targets)
        /\ call' = [call EXCEPT ![c].pc = "fan", ![c].op = "share", ![c].key = k,
                                ![c].dest = dest, ![c].id = id, ![c].left = {}]
        /\ UNCHANGED <<index, blob, writer, history, confirmed>>
    BY <1>3 DEF ShareTo
  <2>2. call' \in [Clients -> CallRecord] /\ call'[c].op = "share" /\ call'[c].pc = "fan"
    BY <1>1, <2>1 DEF TypeOK, CallRecord
  <2>3. CallOK(c)'
    BY <2>2 DEF CallOK
  <2>4. \A d \in Clients : d # c => call'[d] = call[d]
    BY <2>1, <1>1 DEF TypeOK
  <2>5. /\ xfer' \in [Clients -> [Nodes -> TransferRecord]]
        /\ \A d \in Clients : d # c => xfer'[d] = xfer[d]
        /\ \A p \in Nodes : xfer'[c][p] \in {Opening, NoTransfer}
    BY <1>1, <2>1, FanTyped
  <2>6. \A p \in Nodes : \/ xfer'[c][p].pc \in {"idle", "end"}
                         \/ /\ xfer'[c][p].pc = "open" /\ xfer'[c][p].n = 0
                            /\ call'[c].pc \notin Resting
    BY <2>2, <2>5, NoTransferType DEF Resting
  <2>7. QED
    BY <1>2, <2>1, <2>2, <2>3, <2>4, <2>5, <2>6, RestStep
<1>4. CASE index[Own(c, k)].latest = NoVersion
  <2>1. /\ call' = [call EXCEPT ![c].pc = "returned"]
        /\ UNCHANGED <<index, blob, writer, xfer, history, confirmed>>
    BY <1>4 DEF ShareTo
  <2>2. call' \in [Clients -> CallRecord]
    BY <1>1, <2>1 DEF TypeOK, CallRecord
  <2>3. CallOK(c)'
    BY <1>1, <2>1 DEF CallOK, OfFile, TypeOK
  <2>4. \A d \in Clients : d # c => call'[d] = call[d]
    BY <2>1, <1>1 DEF TypeOK
  <2>5. QED
    BY <1>1, <1>2, <2>1, <2>2, <2>3, <2>4, RestStep DEF TypeOK
<1>5. QED
  BY <1>3, <1>4

LEMMA ShareOK ==
  ASSUME ServerInv, NEW c \in Clients, Share(c) \/ ShareStored(c) PROVE ServerInv'
<1>1. CASE Share(c)
  BY <1>1, ShareToOK DEF Share, Idle
<1>2. CASE ShareStored(c)
  <2>1. call[c].key \in Keys
    BY DEF ServerInv, TypeOK, CallRecord
  <2>2. QED
    BY <1>2, <2>1, ShareToOK DEF ShareStored
<1>3. QED
  BY <1>1, <1>2

LEMMA ReadLocalContent ==
  ASSUME TypeOK, NEW s \in Shelves, NEW id, Readable(s, id)
  PROVE  [of |-> blob[s][resolveVersion(index[s], id).id].of,
          n |-> blob[s][resolveVersion(index[s], id).id].n] \in Content
<1> DEFINE i == resolveVersion(index[s], id).id
<1>1. i \in VersionIDs
  BY IndexTyped, ResolvedEntry, EntryTypes DEF Readable
<1>2. blob[s][i] \in Blob
  BY <1>1, IndexTyped DEF Readable
<1>3. QED
  BY <1>2 DEF Blob, Content

LEMMA OwnShelf ==
  ASSUME NEW c \in Clients, NEW k \in Keys
  PROVE  Own(c, k) \in Shelves /\ FileOf(Own(c, k)) = <<At[c], k>> /\ Own(c, k)[2] = At[c]
         /\ At[c] \in Nodes
BY FileServerAssumption DEF Own, Shelves, FileOf

LEMMA PeersAreNodes ==
  ASSUME NEW n \in Nodes, NEW P \in Peers(n) PROVE P \subseteq Nodes \ {n}
BY DEF Peers

LEMMA GetVersionOK ==
  ASSUME ServerInv, NEW c \in Clients, GetVersion(c) PROVE ServerInv'
<1>1. PICK k \in Keys, id \in IdOrNone, connected \in Peers(At[c]) :
        LET has == index[Own(c, k)].latest # NoVersion
        IN  /\ call[c].pc = "idle"
            /\ call' = [call EXCEPT ![c] =
                 [NoCall EXCEPT !.pc = IF has THEN "here" ELSE "try", !.op = "get",
                                !.key = k, !.id = id, !.left = IF has THEN @ ELSE connected,
                                !.held = Confirmed(<<At[c], k>>, id)]]
            /\ UNCHANGED <<index, blob, writer, xfer, history, confirmed>>
  BY DEF GetVersion, Idle
<1> DEFINE has == index[Own(c, k)].latest # NoVersion
           new == [NoCall EXCEPT !.pc = IF has THEN "here" ELSE "try", !.op = "get",
                                 !.key = k, !.id = id, !.left = IF has THEN @ ELSE connected,
                                 !.held = Confirmed(<<At[c], k>>, id)]
<1>2. TypeOK
  BY DEF ServerInv
<1>3. NoCall \in CallRecord
  BY NoCallType
<1>4. Confirmed(<<At[c], k>>, id) \in BOOLEAN
  BY DEF Confirmed
<1>5. connected \subseteq Nodes
  BY OwnShelf, PeersAreNodes
<1>6. call' = [call EXCEPT ![c] = new]
  BY <1>1
<1> HIDE DEF has
<1>7. new \in CallRecord /\ new.op = "get"
  BY <1>3, <1>4, <1>5 DEF CallRecord
<1> HIDE DEF new
<1>8. /\ call' \in [Clients -> CallRecord]
      /\ \A d \in Clients : d # c => call'[d] = call[d]
      /\ call'[c].op = "get"
  BY <1>2, <1>6, <1>7 DEF TypeOK
<1>9. CallOK(c)'
  BY <1>8 DEF CallOK
<1>10. \A p \in Nodes : xfer[c][p].pc \in {"idle", "end"}
  BY <1>1, RestingTransfers DEF Resting
<1>11. UNCHANGED <<index, blob, writer, xfer, history, confirmed>>
  BY <1>1
<1>12. xfer' \in [Clients -> [Nodes -> TransferRecord]]
  BY <1>2, <1>11 DEF TypeOK
<1>13. QED
  BY <1>8, <1>9, <1>10, <1>11, <1>12, RestStep

\* What ReadVersion comes to, at the node itself: an answer, or peers to ask.
LEMMA ReadHereCall ==
  ASSUME TypeOK, NEW c \in Clients, ReadHere(c)
  PROVE  /\ call' \in [Clients -> CallRecord]
         /\ \A d \in Clients : d # c => call'[d] = call[d]
         /\ call[c].pc = "here" /\ SameCall(c)
         /\ call'[c].id = call[c].id /\ call'[c].held = call[c].held
         /\ call'[c].entry = call[c].entry
         /\ \/ /\ call'[c].pc = "returned"
               /\ Readable(Own(c, call[c].key), call[c].id)
               /\ call'[c].got = ReadLocal(c, call[c].key, call[c].id)
            \/ /\ call'[c].pc = "try"
               /\ call'[c].left \in Peers(At[c]) /\ call'[c].got = call[c].got
         /\ UNCHANGED <<index, blob, writer, xfer, history, confirmed>>
<1> DEFINE k == call[c].key
           id == call[c].id
<1>1. call[c] \in CallRecord /\ call \in [Clients -> CallRecord] /\ call[c].pc = "here"
      /\ UNCHANGED <<index, blob, writer, xfer, history, confirmed>>
  BY DEF TypeOK, ReadHere
<1>2. CASE Readable(Own(c, k), id)
  <2>1. call' = [call EXCEPT ![c].pc = "returned", ![c].got = ReadLocal(c, k, id)]
    BY <1>2 DEF ReadHere
  <2>2. ReadLocal(c, k, id) \in Content
    BY <1>1, <1>2, OwnShelf, ReadLocalContent DEF ReadLocal, CallRecord
  <2>3. call' = [call EXCEPT ![c] = [@ EXCEPT !.pc = "returned", !.got = ReadLocal(c, k, id)]]
    BY <1>1, <2>1
  <2> HIDE DEF k, id
  <2>4. [call[c] EXCEPT !.pc = "returned", !.got = ReadLocal(c, k, id)] \in CallRecord
    BY <1>1, <2>2 DEF CallRecord
  <2>5. /\ call' \in [Clients -> CallRecord]
        /\ \A d \in Clients : d # c => call'[d] = call[d]
        /\ call'[c].op = call[c].op /\ call'[c].key = call[c].key
        /\ call'[c].dest = call[c].dest /\ call'[c].entry = call[c].entry
        /\ call'[c].id = call[c].id /\ call'[c].held = call[c].held
        /\ call'[c].pc = "returned" /\ call'[c].got = ReadLocal(c, k, id)
    BY <1>1, <2>3, <2>4 DEF CallRecord
  <2>6. QED
    BY <1>1, <1>2, <2>5 DEF SameCall, k, id
<1>3. CASE ~Readable(Own(c, k), id)
  <2>1. PICK connected \in Peers(At[c]) :
          call' = [call EXCEPT ![c].pc = "try", ![c].left = connected]
    BY <1>3 DEF ReadHere
  <2>2. connected \subseteq Nodes
    BY FileServerAssumption, PeersAreNodes
  <2>3. [call[c] EXCEPT !.pc = "try", !.left = connected] \in CallRecord
    BY <1>1, <2>2 DEF CallRecord
  <2>4. /\ call' \in [Clients -> CallRecord]
        /\ \A d \in Clients : d # c => call'[d] = call[d]
        /\ call'[c].op = call[c].op /\ call'[c].key = call[c].key
        /\ call'[c].dest = call[c].dest /\ call'[c].entry = call[c].entry
        /\ call'[c].id = call[c].id /\ call'[c].held = call[c].held
        /\ call'[c].pc = "try" /\ call'[c].left = connected /\ call'[c].got = call[c].got
    BY <1>1, <2>1, <2>3 DEF CallRecord
  <2>5. QED
    BY <1>1, <1>3, <2>4 DEF SameCall
<1>4. QED
  BY <1>2, <1>3

LEMMA ReadHereOK ==
  ASSUME ServerInv, NEW c \in Clients, ReadHere(c) PROVE ServerInv'
<1>1. TypeOK /\ CallOK(c)
  BY DEF ServerInv
<1>2. /\ call' \in [Clients -> CallRecord]
      /\ \A d \in Clients : d # c => call'[d] = call[d]
      /\ SameCall(c) /\ call'[c].entry = call[c].entry /\ call[c].pc = "here"
      /\ UNCHANGED <<index, blob, writer, xfer, history, confirmed>>
  BY <1>1, ReadHereCall
<1>3. CallOK(c)'
  BY <1>1, <1>2 DEF CallOK, OfFile, SameCall
<1>4. \A p \in Nodes : xfer[c][p].pc \in {"idle", "end"}
  BY <1>2, RestingTransfers DEF Resting
<1>5. xfer' \in [Clients -> [Nodes -> TransferRecord]]
  BY <1>1, <1>2 DEF TypeOK
<1>6. QED
  BY <1>2, <1>3, <1>4, <1>5, RestStep

LEMMA TryOK ==
  ASSUME ServerInv, NEW c \in Clients, Try(c) PROVE ServerInv'
<1>1. TypeOK /\ CallOK(c) /\ call[c] \in CallRecord
  BY DEF ServerInv, TypeOK
<1>2. \A p \in Nodes : xfer[c][p].pc \in {"idle", "end"}
  BY RestingTransfers DEF Resting, Try
<1>3. UNCHANGED <<index, blob, writer, history, confirmed>>
  BY DEF Try
<1>4. ASSUME NEW p \in call[c].left,
             xfer' = [xfer EXCEPT ![c][p] = Opening],
             call' = [call EXCEPT ![c].pc = "fetch", ![c].left = @ \ {p}]
      PROVE  ServerInv'
  <2>1. p \in Nodes
    BY <1>1 DEF CallRecord
  <2>2. /\ call' \in [Clients -> CallRecord]
        /\ \A d \in Clients : d # c => call'[d] = call[d]
        /\ call'[c].pc = "fetch" /\ SameCall(c) /\ call'[c].entry = call[c].entry
    BY <1>1, <1>4 DEF TypeOK, CallRecord, SameCall
  <2>3. CallOK(c)'
    BY <1>1, <1>3, <2>2 DEF CallOK, OfFile, SameCall
  <2>4. /\ xfer' \in [Clients -> [Nodes -> TransferRecord]]
        /\ \A d \in Clients : d # c => xfer'[d] = xfer[d]
        /\ \A q \in Nodes : xfer'[c][q] = IF q = p THEN Opening ELSE xfer[c][q]
    BY <1>1, <1>4, <2>1, NoTransferType DEF TypeOK
  <2>5. \A q \in Nodes : \/ xfer'[c][q].pc \in {"idle", "end"}
                         \/ /\ xfer'[c][q].pc = "open" /\ xfer'[c][q].n = 0
                            /\ call'[c].pc \notin Resting
    BY <1>2, <2>2, <2>4, NoTransferType DEF Resting
  <2>6. QED
    BY <1>2, <1>3, <2>2, <2>3, <2>4, <2>5, RestStep
<1>5. CASE call' = [call EXCEPT ![c].pc = "returned"] /\ UNCHANGED xfer
  <2>1. /\ call' \in [Clients -> CallRecord]
        /\ \A d \in Clients : d # c => call'[d] = call[d]
        /\ SameCall(c) /\ call'[c].entry = call[c].entry
    BY <1>1, <1>5 DEF TypeOK, CallRecord, SameCall
  <2>2. CallOK(c)'
    BY <1>1, <1>3, <2>1 DEF CallOK, OfFile, SameCall
  <2>3. xfer' \in [Clients -> [Nodes -> TransferRecord]]
    BY <1>1, <1>5 DEF TypeOK
  <2>4. QED
    BY <1>2, <1>3, <1>5, <2>1, <2>2, <2>3, RestStep
<1>6. QED
  BY <1>4, <1>5 DEF Try

LEMMA FetchedOK ==
  ASSUME ServerInv, NEW c \in Clients, Fetched(c) PROVE ServerInv'
<1> DEFINE k == call[c].key
           id == call[c].id
           ok == \E p \in Nodes : xfer[c][p].res = "ok"
           got == IF ok /\ Readable(Own(c, k), id) THEN ReadLocal(c, k, id) ELSE call[c].got
           pc == IF ok THEN "returned" ELSE "try"
<1>1. TypeOK /\ CallOK(c) /\ call[c] \in CallRecord
  BY DEF ServerInv, TypeOK
<1>2. /\ \A p \in Nodes : xfer[c][p].pc \in {"idle", "end"}
      /\ UNCHANGED <<index, blob, writer, xfer, history, confirmed>>
      /\ call' = [call EXCEPT ![c].pc = pc, ![c].got = got]
  BY <1>1 DEF Fetched, CallRecord, TypeOK
<1>3. k \in Keys
  BY <1>1, SMTT(30) DEF CallRecord
<1>4. got \in Content
  BY <1>1, <1>3, OwnShelf, ReadLocalContent DEF ReadLocal, CallRecord
<1>5. pc \in {"returned", "try"}
  OBVIOUS
<1> HIDE DEF got, pc
<1>6. /\ call' \in [Clients -> CallRecord]
      /\ \A d \in Clients : d # c => call'[d] = call[d]
      /\ SameCall(c) /\ call'[c].entry = call[c].entry
  BY <1>1, <1>2, <1>4, <1>5 DEF TypeOK, CallRecord, SameCall
<1>7. CallOK(c)'
  BY <1>1, <1>2, <1>6 DEF CallOK, OfFile, SameCall
<1>8. xfer' \in [Clients -> [Nodes -> TransferRecord]]
  BY <1>1, <1>2 DEF TypeOK
<1>9. QED
  BY <1>2, <1>6, <1>7, <1>8, RestStep

LEMMA FanDoneOK ==
  ASSUME ServerInv, NEW c \in Clients, FanDone(c) PROVE ServerInv'
<1>1. TypeOK /\ CallOK(c) /\ call[c] \in CallRecord
  BY DEF ServerInv, TypeOK
<1>2. /\ UNCHANGED <<index, blob, writer, xfer, history, confirmed>>
      /\ call' = [call EXCEPT ![c].pc = "returned"]
  BY DEF FanDone
<1>3. /\ call' \in [Clients -> CallRecord]
      /\ \A d \in Clients : d # c => call'[d] = call[d]
      /\ SameCall(c) /\ call'[c].entry = call[c].entry /\ call'[c].pc = "returned"
  BY <1>1, <1>2 DEF TypeOK, CallRecord, SameCall
<1>4. CallOK(c)' /\ xfer' \in [Clients -> [Nodes -> TransferRecord]]
  BY <1>1, <1>2, <1>3 DEF CallOK, OfFile, SameCall, TypeOK
<1>5. ASSUME NEW p \in Nodes PROVE TransferOK(c, p)'
  <2>1. TransferOK(c, p)
    BY DEF ServerInv
  <2>2. Entitled
    BY <1>2 DEF Entitled
  <2>3. xfer'[c][p].pc \in Live => SourceOK(c, xfer[c][p].src)'
    BY <1>2, <2>1 DEF TransferOK, SourceOK
  <2>4. \A s \in Shelves :
          writer'[s] = <<c, p>> <=> writer[s] = <<c, p>> /\ xfer'[c][p].pc = "recv"
    BY <1>2, <2>1 DEF TransferOK, LockOK
  <2>5. call'[c].pc \notin Resting
    BY <1>3 DEF Resting
  <2>6. QED
    BY <1>1, <1>2, <1>3, <2>1, <2>2, <2>3, <2>4, <2>5, Undisturbed
<1>6. QED
  BY <1>2, <1>3, <1>4, <1>5, CallStep

LEMMA ForgetOK ==
  ASSUME ServerInv, NEW c \in Clients, Forget(c) PROVE ServerInv'
<1>1. TypeOK
  BY DEF ServerInv
<1>2. /\ \A p \in Nodes : xfer[c][p].pc \in {"idle", "end"}
      /\ call' = [call EXCEPT ![c] = NoCall]
      /\ xfer' = [xfer EXCEPT ![c] = [p \in Nodes |-> NoTransfer]]
      /\ UNCHANGED <<index, blob, writer, history, confirmed>>
  BY DEF Forget
<1>3. /\ call' \in [Clients -> CallRecord]
      /\ xfer' \in [Clients -> [Nodes -> TransferRecord]]
      /\ \A d \in Clients : d # c => call'[d] = call[d] /\ xfer'[d] = xfer[d]
      /\ call'[c] = NoCall
      /\ \A p \in Nodes : xfer'[c][p] = NoTransfer
  BY <1>1, <1>2, NoCallType, NoTransferType DEF TypeOK
<1>4. CallOK(c)'
  BY <1>3, NoCallType DEF CallOK
<1>5. QED
  BY <1>2, <1>3, <1>4, NoTransferType, RestStep

-----------------------------------------------------------------------------
(* The steps of a transfer that leave the disks alone.                     *)
(***************************************************************************)
OthersSame(c, p) == \A d \in Clients, q \in Nodes :
                      <<d, q>> # <<c, p>> => xfer'[d][q] = xfer[d][q]

LEMMA OneTransfer ==
  ASSUME TypeOK, NEW c \in Clients, NEW p \in Nodes, NEW y \in TransferRecord,
         xfer' = [xfer EXCEPT ![c] = [xfer[c] EXCEPT ![p] = y]]
  PROVE  /\ xfer' \in [Clients -> [Nodes -> TransferRecord]]
         /\ xfer'[c][p] = y
         /\ OthersSame(c, p)
BY DEF TypeOK, OthersSame

LEMMA StreamStep ==
  ASSUME ServerInv, NEW c \in Clients, NEW p \in Nodes,
         UNCHANGED <<index, blob, call, history>>,
         writer' \in [Shelves -> (Clients \X Nodes) \cup {Nobody}],
         confirmed' \subseteq Shelves \X VersionIDs,
         xfer' \in [Clients -> [Nodes -> TransferRecord]],
         OthersSame(c, p),
         \A s \in Shelves : \/ writer'[s] = writer[s]
                            \/ writer[s] = <<c, p>> /\ writer'[s] = Nobody,
         TransferOK(c, p)'
  PROVE  ServerInv'
<1>1. TypeOK'
  BY DEF ServerInv, TypeOK
<1>2. ReplicasAgree' /\ OwnersKeyOnly' /\ Entitled
  BY DiskSame DEF ServerInv
<1>3. \A d \in Clients : CallOK(d)'
  BY DEF ServerInv, CallOK, OfFile
<1>4. ASSUME NEW d \in Clients, NEW q \in Nodes, <<d, q>> # <<c, p>> PROVE TransferOK(d, q)'
  <2>1. TypeOK /\ TransferOK(d, q) /\ SameCall(d) /\ xfer'[d][q] = xfer[d][q]
    BY <1>4 DEF ServerInv, SameCall, OthersSame
  <2>2. xfer'[d][q].pc \in Live => SourceOK(d, xfer[d][q].src)'
    BY <2>1 DEF TransferOK, SourceOK
  <2>3. <<d, q>> # Nobody
    BY FileServerAssumption
  <2>4. \A s \in Shelves :
          writer'[s] = <<d, q>> <=> writer[s] = <<d, q>> /\ xfer'[d][q].pc = "recv"
    <3> SUFFICES ASSUME NEW s \in Shelves
                 PROVE  writer'[s] = <<d, q>>
                          <=> writer[s] = <<d, q>> /\ xfer'[d][q].pc = "recv"
      OBVIOUS
    <3>1. writer[s] = <<d, q>> => xfer'[d][q].pc = "recv"
      BY <2>1 DEF TransferOK, LockOK
    <3>2. writer'[s] = writer[s] \/ (writer[s] # <<d, q>> /\ writer'[s] # <<d, q>>)
      BY <1>4, <2>3
    <3>3. QED
      BY <3>1, <3>2
  <2>5. call'[d].pc \in Resting => xfer'[d][q].pc \in {"idle", "end"}
    BY <2>1 DEF TransferOK
  <2>6. QED
    BY <1>2, <2>1, <2>2, <2>4, <2>5, Undisturbed
<1>5. QED
  BY <1>1, <1>2, <1>3, <1>4 DEF ServerInv

LEMMA OpenLocalOK ==
  ASSUME ServerInv, NEW c \in Clients, NEW p \in Nodes, OpenLocal(c, p) PROVE ServerInv'
<1> DEFINE x == xfer[c][p]
           s == Own(c, call[c].key)
           id == IF call[c].op = "put" THEN call[c].entry.id ELSE call[c].id
           e == resolveVersion(index[s], id)
           want == IF call[c].op = "put" THEN blob[s][e.id].n ELSE e.data.n
           y == IF Readable(s, id)
                  THEN [x EXCEPT !.pc = "ready", !.src = Opened(s, e.id),
                                 !.entry = call[c].entry, !.want = want]
                  ELSE [x EXCEPT !.pc = "end", !.res = "failed"]
<1>1. /\ TypeOK /\ CallOK(c) /\ TransferOK(c, p) /\ call[c] \in CallRecord
      /\ x \in TransferRecord
  BY DEF ServerInv, TypeOK
<1>2. /\ Pushing(c) /\ x.pc = "open"
      /\ xfer' = [xfer EXCEPT ![c] = [xfer[c] EXCEPT ![p] = y]]
      /\ UNCHANGED <<index, blob, writer, call, history, confirmed>>
  BY <1>1 DEF OpenLocal, TypeOK
<1>3. call[c].key \in Keys
  BY <1>1 DEF CallRecord
<1>4. s \in Shelves /\ s[2] = At[c]
  BY <1>3, OwnShelf
<1>5. Readable(s, id) => /\ e.id \in VersionIDs /\ blob[s][e.id] \in Blob
                         /\ e.data.n \in 0 .. Blocks
  BY <1>1, <1>4, IndexTyped, ResolvedEntry, EntryTypes DEF Readable, Content
<1> HIDE DEF s, id, e
<1>6. y \in TransferRecord
  <2>1. CASE Readable(s, id)
    <3>1. want \in 0 .. Blocks
      BY <1>5, <2>1, BlobTypes
    <3>2. Opened(s, e.id) \in File
      BY <1>4, <1>5, <2>1 DEF Opened, File, IdOrNone
    <3>3. call[c].entry \in EntryOrNone
      BY <1>1 DEF CallRecord, EntryOrNone
    <3>4. QED
      BY <1>1, <2>1, <3>1, <3>2, <3>3 DEF TransferRecord, EntryOrNone
  <2>2. CASE ~Readable(s, id)
    BY <1>1, <2>2 DEF TransferRecord
  <2>3. QED
    BY <2>1, <2>2
<1>7. y.pc # "recv" /\ x.n = 0
  BY <1>1, <1>2 DEF TransferRecord, TransferOK
<1>8. /\ y.pc = "ready" \/ y.pc = "end"
      /\ y.pc = "ready" =>
           Readable(s, id) /\ y.src = Opened(s, e.id) /\ y.entry = call[c].entry /\ y.n = x.n
  BY <1>1 DEF TransferRecord
<1> HIDE DEF y
<1>9. xfer' \in [Clients -> [Nodes -> TransferRecord]] /\ xfer'[c][p] = y /\ OthersSame(c, p)
  BY <1>1, <1>2, <1>6, OneTransfer
<1>10. TransferOK(c, p)'
  <2>1. LockOK(c, p)'
    BY <1>1, <1>2, <1>7, <1>9 DEF TransferOK, LockOK
  <2>2. call'[c].pc \notin Resting
    BY <1>1, <1>2 DEF TransferOK
  <2>3. xfer'[c][p].pc = "ready" => SourceOK(c, xfer[c][p].src)'
    BY <1>2, <1>4, <1>5, <1>8, <1>9, NoVersionAssumption, BlobTypes DEF SourceOK, Opened
  <2>4. y.pc = "ready" /\ call[c].op # "share" => xfer'[c][p].entry \in OfFile(c)'
    BY <1>1, <1>2, <1>8, <1>9 DEF CallOK, OfFile, Pushing, Pushes
  <2>5. QED
    BY <1>2, <1>7, <1>8, <1>9, <2>1, <2>2, <2>3, <2>4 DEF TransferOK, ArrivingOK, Live
<1>11. QED
  BY <1>1, <1>2, <1>9, <1>10, StreamStep DEF TypeOK

LEMMA PeerShelf ==
  ASSUME TypeOK, NEW c \in Clients, NEW p \in Nodes
  PROVE  LET s == <<p, At[c], call[c].key>>
         IN  s \in Shelves /\ s[2] = At[c] /\ FileOf(s) = <<At[c], call[c].key>>
BY FileServerAssumption DEF TypeOK, CallRecord, Shelves, FileOf

LEMMA VersionInfoOK ==
  ASSUME ServerInv, NEW c \in Clients, NEW p \in Nodes, VersionInfo(c, p) PROVE ServerInv'
<1> DEFINE x == xfer[c][p]
           s == <<p, At[c], call[c].key>>
           e == resolveVersion(index[s], call[c].id)
           y == IF CanResolve(index[s], call[c].id)
                  THEN [x EXCEPT !.pc = "info", !.entry = e]
                  ELSE [x EXCEPT !.pc = "bad"]
<1>1. TypeOK /\ TransferOK(c, p) /\ x \in TransferRecord
  BY DEF ServerInv, TypeOK
<1>2. /\ ~Pushing(c) /\ x.pc = "open"
      /\ xfer' = [xfer EXCEPT ![c] = [xfer[c] EXCEPT ![p] = y]]
      /\ UNCHANGED <<index, blob, writer, call, history, confirmed>>
  BY <1>1 DEF VersionInfo, TypeOK
<1>3. s \in Shelves /\ FileOf(s) = <<At[c], call[c].key>>
  BY <1>1, PeerShelf
<1> HIDE DEF s
<1>4. CanResolve(index[s], call[c].id) => e \in Entry /\ e \in OfFile(c)
  <2>1. Listed(s) \subseteq history[FileOf(s)]
    BY <1>3 DEF ServerInv, ReplicasAgree
  <2>2. QED
    BY <1>1, <1>3, <2>1, IndexTyped, ListedEntries, ResolvedEntry DEF OfFile
<1> HIDE DEF e
<1>5. y \in TransferRecord
  <2>1. e \in Entry => e \in EntryOrNone
    BY EntryTypes
  <2>2. QED
    BY <1>1, <1>4, <2>1 DEF TransferRecord, EntryOrNone
<1>6. /\ y.pc = "info" \/ y.pc = "bad"
      /\ y.pc = "info" => CanResolve(index[s], call[c].id) /\ y.entry = e
      /\ y.n = x.n
  BY <1>1 DEF TransferRecord
<1> HIDE DEF y
<1>7. xfer' \in [Clients -> [Nodes -> TransferRecord]] /\ xfer'[c][p] = y /\ OthersSame(c, p)
  BY <1>1, <1>2, <1>5, OneTransfer
<1>8. TransferOK(c, p)'
  <2>1. LockOK(c, p)'
    BY <1>1, <1>2, <1>6, <1>7 DEF TransferOK, LockOK
  <2>2. call'[c].pc \notin Resting /\ y.n = 0
    BY <1>1, <1>2, <1>6 DEF TransferOK
  <2>3. y.pc = "info" => xfer'[c][p].entry \in OfFile(c)' /\ ~Pushing(c)'
    BY <1>2, <1>4, <1>6, <1>7 DEF OfFile, Pushing
  <2>4. QED
    BY <1>6, <1>7, <2>1, <2>2, <2>3 DEF TransferOK, ArrivingOK, Live
<1>9. QED
  BY <1>1, <1>2, <1>7, <1>8, StreamStep DEF TypeOK

LEMMA ReadVersionRawOK ==
  ASSUME ServerInv, NEW c \in Clients, NEW p \in Nodes, ReadVersionRaw(c, p) PROVE ServerInv'
<1> DEFINE x == xfer[c][p]
           s == <<p, At[c], call[c].key>>
           id == resolveVersion(index[s], call[c].id).id
           y == IF Readable(s, call[c].id)
                  THEN [x EXCEPT !.pc = "ready", !.src = Opened(s, id), !.want = blob[s][id].n]
                  ELSE [x EXCEPT !.pc = "bad"]
<1>1. TypeOK /\ TransferOK(c, p) /\ x \in TransferRecord
  BY DEF ServerInv, TypeOK
<1>2. /\ x.pc = "info"
      /\ xfer' = [xfer EXCEPT ![c] = [xfer[c] EXCEPT ![p] = y]]
      /\ UNCHANGED <<index, blob, writer, call, history, confirmed>>
  BY <1>1 DEF ReadVersionRaw, TypeOK
<1>3. s \in Shelves /\ s[2] = At[c]
  BY <1>1, PeerShelf
<1> HIDE DEF s
<1>4. Readable(s, call[c].id) => id \in VersionIDs /\ blob[s][id] \in Blob
  BY <1>1, <1>3, IndexTyped, ResolvedEntry, EntryTypes DEF Readable
<1> HIDE DEF id
<1>5. y \in TransferRecord
  <2>1. Readable(s, call[c].id) => Opened(s, id) \in File /\ blob[s][id].n \in 0 .. Blocks
    BY <1>3, <1>4, BlobTypes DEF Opened, File, IdOrNone
  <2>2. QED
    BY <1>1, <2>1 DEF TransferRecord
<1>6. /\ y.pc = "ready" \/ y.pc = "bad"
      /\ y.pc = "ready" => Readable(s, call[c].id) /\ y.src = Opened(s, id)
      /\ y.n = x.n /\ y.entry = x.entry
  BY <1>1 DEF TransferRecord
<1> HIDE DEF y
<1>7. xfer' \in [Clients -> [Nodes -> TransferRecord]] /\ xfer'[c][p] = y /\ OthersSame(c, p)
  BY <1>1, <1>2, <1>5, OneTransfer
<1>8. TransferOK(c, p)'
  <2>1. LockOK(c, p)'
    BY <1>1, <1>2, <1>6, <1>7 DEF TransferOK, LockOK
  <2>2. call'[c].pc \notin Resting /\ y.n = 0 /\ call'[c].op # "share"
    BY <1>1, <1>2, <1>6 DEF TransferOK, Pushing, Pushes
  <2>3. y.pc = "ready" => xfer'[c][p].entry \in OfFile(c)'
    BY <1>1, <1>2, <1>6, <1>7, <2>2 DEF TransferOK, OfFile
  <2>4. xfer'[c][p].pc = "ready" => SourceOK(c, xfer[c][p].src)'
    BY <1>2, <1>3, <1>4, <1>6, <1>7, NoVersionAssumption, BlobTypes DEF SourceOK, Opened
  <2>5. QED
    BY <1>6, <1>7, <2>1, <2>2, <2>3, <2>4 DEF TransferOK, ArrivingOK, Live
<1>9. QED
  BY <1>1, <1>2, <1>7, <1>8, StreamStep DEF TypeOK

\* A stream that goes on as it was for its receiver, breaks or ends.
LEMMA StreamEnds ==
  ASSUME ServerInv, NEW c \in Clients, NEW p \in Nodes,
         xfer[c][p].pc \notin {"idle", "end"},
         UNCHANGED <<index, blob, call, history>>,
         writer' \in [Shelves -> (Clients \X Nodes) \cup {Nobody}],
         confirmed' \subseteq Shelves \X VersionIDs,
         xfer' \in [Clients -> [Nodes -> TransferRecord]],
         OthersSame(c, p),
         xfer'[c][p].pc \in {xfer[c][p].pc, "bad", "end"},
         xfer'[c][p].n = xfer[c][p].n, xfer'[c][p].entry = xfer[c][p].entry,
         xfer'[c][p].pc \in Live => xfer'[c][p].src = xfer[c][p].src,
         \A s \in Shelves : \/ writer'[s] = writer[s]
                            \/ writer[s] = <<c, p>> /\ writer'[s] = Nobody,
         \A s \in Shelves : writer'[s] = <<c, p>>
                              <=> writer[s] = <<c, p>> /\ xfer'[c][p].pc = "recv"
  PROVE  ServerInv'
<1>1. TypeOK /\ TransferOK(c, p) /\ SameCall(c) /\ Entitled
  BY DEF ServerInv, SameCall, Entitled
<1>2. call'[c].pc \notin Resting
  BY <1>1 DEF TransferOK
<1>3. xfer'[c][p].pc \in Live => SourceOK(c, xfer[c][p].src)'
  <2>1. xfer'[c][p].pc \in Live => xfer[c][p].pc \in Live
    BY DEF Live
  <2>2. QED
    BY <1>1, <2>1 DEF TransferOK, SourceOK
<1>4. TransferOK(c, p)'
  BY <1>1, <1>2, <1>3, Undisturbed
<1>5. QED
  BY <1>4, StreamStep

LEMMA AnsweredOK ==
  ASSUME ServerInv, NEW c \in Clients, NEW p \in Nodes, Reply(c, p) PROVE ServerInv'
<1> DEFINE x == xfer[c][p]
           res == IF x.res # "none" THEN x.res ELSE IF x.pc = "good" THEN "ok" ELSE "failed"
<1>1. TypeOK /\ TransferOK(c, p) /\ x \in TransferRecord
  BY DEF ServerInv, TypeOK
<1>2. /\ x.pc \in {"good", "bad"}
      /\ confirmed' = IF x.pc = "good" /\ x.res = "none" /\ call[c].op = "put"
                        THEN confirmed \cup {<<Into(c, p), x.entry.id>>} ELSE confirmed
      /\ UNCHANGED <<index, blob, writer, call, history>>
  BY DEF Reply
<1>3. res \in {"none", "ok", "failed"}
  BY <1>1 DEF TransferRecord
<1>4. /\ xfer' \in [Clients -> [Nodes -> TransferRecord]]
      /\ OthersSame(c, p)
      /\ xfer'[c][p].pc = "end" /\ xfer'[c][p].n = x.n /\ xfer'[c][p].entry = x.entry
  <2>1. xfer' = [xfer EXCEPT ![c][p].pc = "end", ![c][p].src = NoFile, ![c][p].res = res]
    BY <1>1 DEF Reply, TypeOK, TransferRecord
  <2> HIDE DEF res
  <2>2. QED
    BY <1>1, <1>3, <2>1, NoFileType DEF TypeOK, TransferRecord, OthersSame
<1>5. x.pc = "good" /\ call[c].op = "put" => Into(c, p) \in Shelves /\ x.entry.id \in VersionIDs
  <2>1. OfFile(c) \subseteq Entry
    BY <1>1, FileOfCall DEF TypeOK, OfFile
  <2>2. QED
    BY <1>1, <2>1, IntoShelf, EntryTypes DEF TransferOK, Live
<1>6. confirmed' \subseteq Shelves \X VersionIDs
  BY <1>1, <1>2, <1>5 DEF TypeOK
<1>7. \A s \in Shelves : writer[s] # <<c, p>> /\ writer'[s] = writer[s]
  BY <1>1, <1>2 DEF TransferOK, LockOK
<1>8. writer' \in [Shelves -> (Clients \X Nodes) \cup {Nobody}]
  BY <1>1, <1>2 DEF TypeOK
<1>9. xfer'[c][p].pc \notin Live
  BY <1>4 DEF Live
<1>10. QED
  BY <1>2, <1>4, <1>6, <1>7, <1>8, <1>9, StreamEnds

LEMMA GiveUpOK ==
  ASSUME ServerInv, NEW c \in Clients, NEW p \in Nodes, GiveUp(c, p) PROVE ServerInv'
<1> DEFINE x == xfer[c][p]
           y == [x EXCEPT !.res = "failed"]
<1>1. TypeOK /\ TransferOK(c, p) /\ x \in TransferRecord
  BY DEF ServerInv, TypeOK
<1>2. /\ x.pc \notin {"idle", "end"}
      /\ xfer' = [xfer EXCEPT ![c] = [xfer[c] EXCEPT ![p] = y]]
      /\ UNCHANGED <<index, blob, writer, call, history, confirmed>>
  BY <1>1 DEF GiveUp, TypeOK, TransferRecord
<1>3. y \in TransferRecord /\ y.pc = x.pc /\ y.n = x.n /\ y.entry = x.entry /\ y.src = x.src
  BY <1>1 DEF TransferRecord
<1> HIDE DEF y
<1>4. xfer' \in [Clients -> [Nodes -> TransferRecord]] /\ xfer'[c][p] = y /\ OthersSame(c, p)
  BY <1>1, <1>2, <1>3, OneTransfer
<1>5. \A s \in Shelves : writer'[s] = writer[s] /\ (writer[s] = <<c, p>> => x.pc = "recv")
  BY <1>1, <1>2 DEF TransferOK, LockOK
<1>6. writer' \in [Shelves -> (Clients \X Nodes) \cup {Nobody}]
      /\ confirmed' \subseteq Shelves \X VersionIDs
  BY <1>1, <1>2 DEF TypeOK
<1>7. QED
  BY <1>2, <1>3, <1>4, <1>5, <1>6, StreamEnds

LEMMA BreakOK ==
  ASSUME ServerInv, NEW c \in Clients, NEW p \in Nodes, Break(c, p) PROVE ServerInv'
<1> DEFINE x == xfer[c][p]
           y == [x EXCEPT !.pc = "bad"]
<1>1. TypeOK /\ TransferOK(c, p) /\ x \in TransferRecord
  BY DEF ServerInv, TypeOK
<1>2. /\ x.pc \notin {"idle", "end"}
      /\ xfer' = [xfer EXCEPT ![c] = [xfer[c] EXCEPT ![p] = y]]
      /\ writer' = IF x.pc = "recv" THEN [writer EXCEPT ![Into(c, p)] = Nobody] ELSE writer
      /\ UNCHANGED <<index, blob, call, history, confirmed>>
  BY <1>1 DEF Break, Become, Exposed, TypeOK, TransferRecord
<1>3. y \in TransferRecord /\ y.pc = "bad" /\ y.n = x.n /\ y.entry = x.entry /\ y.src = x.src
  BY <1>1 DEF TransferRecord
<1> HIDE DEF y
<1>4. xfer' \in [Clients -> [Nodes -> TransferRecord]] /\ xfer'[c][p] = y /\ OthersSame(c, p)
  BY <1>1, <1>2, <1>3, OneTransfer
<1>5. \A s \in Shelves : writer[s] = <<c, p>> <=> x.pc = "recv" /\ Into(c, p) = s
  BY <1>1 DEF TransferOK, LockOK
<1>6. writer' \in [Shelves -> (Clients \X Nodes) \cup {Nobody}]
      /\ confirmed' \subseteq Shelves \X VersionIDs
  BY <1>1, <1>2 DEF TypeOK
<1>7. <<c, p>> # Nobody
  BY FileServerAssumption
<1>8. \A s \in Shelves : /\ \/ writer'[s] = writer[s]
                            \/ writer[s] = <<c, p>> /\ writer'[s] = Nobody
                         /\ writer'[s] # <<c, p>>
  BY <1>1, <1>2, <1>5, <1>7 DEF TypeOK
<1>9. xfer'[c][p].pc = "bad"
  BY <1>3, <1>4
<1>10. QED
  BY <1>2, <1>3, <1>4, <1>6, <1>8, <1>9, StreamEnds DEF Live

-----------------------------------------------------------------------------
(* The steps at one shelf, under its lock.                                 *)
(***************************************************************************)
\* Transfer (d, q) takes no part in a step at shelf s.
Standing(d, q, s) ==
    /\ call'[d] = call[d]
    /\ writer[s] # <<d, q>>
    /\ writer'[s] # <<d, q>>
    /\ xfer'[d][q].pc = xfer[d][q].pc
    /\ xfer'[d][q].n = xfer[d][q].n
    /\ xfer'[d][q].entry = xfer[d][q].entry
    /\ SourceOK(d, xfer[d][q].src) => SourceOK(d, xfer[d][q].src)'

LEMMA AtShelf ==
  ASSUME ServerInv, NEW s \in Shelves, TypeOK', Entitled,
         \A t \in Shelves : t # s => /\ index'[t] = index[t] /\ blob'[t] = blob[t]
                                     /\ writer'[t] = writer[t],
         Entries(index'[s].versions) \subseteq history'[FileOf(s)],
         \A id \in VersionIDs : blob'[s][id] # NoBlob => blob'[s][id].for = s[2],
         \A d \in Clients : call'[d] = call[d] \/ CallOK(d)',
         \A d \in Clients, q \in Nodes : Standing(d, q, s) \/ TransferOK(d, q)'
  PROVE  ServerInv'
<1>1. ReplicasAgree' /\ OwnersKeyOnly'
  BY ShelfStep DEF ServerInv
<1>2. ASSUME NEW d \in Clients, call'[d] = call[d] PROVE CallOK(d)'
  <2>1. OfFile(d) \subseteq OfFile(d)'
    BY <1>2, FileOfCall DEF ServerInv, OfFile, Entitled
  <2>2. QED
    BY <1>2, <2>1 DEF ServerInv, CallOK
<1>3. ASSUME NEW d \in Clients, NEW q \in Nodes, Standing(d, q, s) PROVE TransferOK(d, q)'
  <2>1. TypeOK /\ TransferOK(d, q)
    BY DEF ServerInv
  <2>2. QED
    BY <1>3, <2>1, Bystander DEF Standing
<1>4. QED
  BY <1>1, <1>2, <1>3 DEF ServerInv

LEMMA SourceBody ==
  ASSUME TypeOK, OwnersKeyOnly, NEW c \in Clients, NEW f \in File, SourceOK(c, f)
  PROVE  Body(f) \in Blob /\ Body(f).for = At[c]
<1>1. CASE f.id = NoVersion
  BY <1>1 DEF SourceOK, Body
<1>2. CASE f.id # NoVersion
  <2>1. f.id \in VersionIDs /\ f.shelf \in Shelves
    BY <1>2 DEF SourceOK, File, IdOrNone
  <2>2. blob[f.shelf][f.id] \in Blob /\ blob[f.shelf][f.id].for = At[c]
    BY <1>2, <2>1 DEF SourceOK, TypeOK, OwnersKeyOnly
  <2>3. QED
    BY <1>2, <2>2 DEF Body
<1>3. QED
  BY <1>1, <1>2

\* What the invariant says of a transfer with an open source.
LEMMA LiveTransfer ==
  ASSUME ServerInv, NEW c \in Clients, NEW p \in Nodes, xfer[c][p].pc \in Live
  PROVE  /\ xfer[c][p] \in TransferRecord
         /\ xfer[c][p].src \in File /\ SourceOK(c, xfer[c][p].src)
         /\ Body(xfer[c][p].src) \in Blob /\ Body(xfer[c][p].src).for = At[c]
         /\ Into(c, p) \in Shelves
         /\ call[c].pc \notin Resting
         /\ call[c].op # "share" =>
              /\ xfer[c][p].entry \in Entry
              /\ xfer[c][p].entry \in history[FileOf(Into(c, p))]
              /\ OfFile(c) = history[FileOf(Into(c, p))]
              /\ Into(c, p)[2] = At[c]
         /\ call[c].op = "share" => Into(c, p)[2] = p
<1>1. TypeOK /\ TransferOK(c, p) /\ OwnersKeyOnly
  BY DEF ServerInv
<1>2. xfer[c][p] \in TransferRecord
  BY <1>1 DEF TypeOK
<1>3. xfer[c][p].src \in File /\ SourceOK(c, xfer[c][p].src)
  BY <1>1, <1>2 DEF TransferRecord, TransferOK
<1>4. Body(xfer[c][p].src) \in Blob /\ Body(xfer[c][p].src).for = At[c]
  BY <1>1, <1>3, SourceBody
<1>5. Into(c, p) \in Shelves
  BY <1>1, IntoShelf
<1>6. call[c].pc \notin Resting
  BY <1>1 DEF TransferOK, Live
<1>7. call[c].op # "share" => /\ xfer[c][p].entry \in Entry
                              /\ xfer[c][p].entry \in history[FileOf(Into(c, p))]
                              /\ OfFile(c) = history[FileOf(Into(c, p))]
                              /\ Into(c, p)[2] = At[c]
  <2>1. OfFile(c) \subseteq Entry
    BY <1>1, FileOfCall DEF TypeOK, OfFile
  <2>2. QED
    BY <1>1, <2>1, IntoShelf DEF TransferOK, Live, OfFile
<1>8. call[c].op = "share" => Into(c, p)[2] = p
  BY <1>1, IntoShelf
<1>9. QED
  BY <1>2, <1>3, <1>4, <1>5, <1>6, <1>7, <1>8

LEMMA LockAtRest ==
  ASSUME ServerInv, NEW c \in Clients, NEW p \in Nodes, NEW s \in Shelves,
         writer[s] \in {Nobody, <<c, p>>}, writer'[s] \in {Nobody, <<c, p>>}
  PROVE  \A d \in Clients, q \in Nodes :
           <<d, q>> # <<c, p>> => writer[s] # <<d, q>> /\ writer'[s] # <<d, q>>
<1> TAKE d \in Clients, q \in Nodes
<1>1. <<d, q>> # Nobody
  BY FileServerAssumption
<1>2. QED
  BY <1>1

LEMMA ReceiveOK ==
  ASSUME ServerInv, NEW c \in Clients, NEW p \in Nodes, Receive(c, p) PROVE ServerInv'
<1> DEFINE x == xfer[c][p]
           s == Into(c, p)
           own == call[c].op = "share"
           keyOf == IF own THEN p ELSE Body(x.src).for
           b == [of |-> Body(x.src).of, for |-> keyOf, n |-> 0]
<1>1. PICK id \in IF own THEN Fresh ELSE {x.entry.id} :
        LET e == IF own THEN [id |-> id, seq |-> nextSeq(index[s]), data |-> NoContent]
                 ELSE x.entry
        IN  /\ x.pc = "ready" /\ writer[s] = Nobody
            /\ writer' = [writer EXCEPT ![s] = <<c, p>>]
            /\ blob' = [blob EXCEPT ![s][id] = b]
            /\ xfer' = [xfer EXCEPT ![c][p].pc = "recv", ![c][p].entry = e]
            /\ UNCHANGED <<index, call, history, confirmed>>
  <2>1. x \in TransferRecord /\ xfer \in [Clients -> [Nodes -> TransferRecord]]
    BY DEF ServerInv, TypeOK
  <2>2. QED
    BY <2>1 DEF Receive, TransferRecord
<1> DEFINE e == IF own THEN [id |-> id, seq |-> nextSeq(index[s]), data |-> NoContent]
                ELSE x.entry
<1>2. TypeOK /\ TransferOK(c, p) /\ x.pc \in Live
  BY <1>1 DEF ServerInv, Live
<1>3. /\ x \in TransferRecord /\ x.src \in File /\ SourceOK(c, x.src)
      /\ Body(x.src) \in Blob /\ Body(x.src).for = At[c]
      /\ s \in Shelves /\ call[c].pc \notin Resting
      /\ ~own => /\ x.entry \in Entry
                 /\ x.entry \in OfFile(c)
                 /\ s[2] = At[c]
      /\ own => s[2] = p
  BY <1>2, LiveTransfer
<1> HIDE DEF s
<1>4. id \in VersionIDs /\ e \in EntryOrNone /\ e.id = id /\ (~own => e = x.entry)
  <2>1. own => nextSeq(index[s]) \in Nat
    BY <1>2, <1>3, IndexTyped
  <2>2. QED
    BY <1>3, <2>1, EntryTypes DEF Fresh, EntryOrNone
<1>5. b \in Blob /\ b.for = s[2] /\ b.n = 0 /\ b # NoBlob
  <2>1. 0 \in 0 .. Blocks
    BY FileServerAssumption
  <2>2. b \in Blob
    BY <1>3, <2>1 DEF Blob
  <2>3. QED
    BY <1>3, <2>2, BlobTypes
<1> HIDE DEF b, e
<1>6. /\ writer' = [writer EXCEPT ![s] = <<c, p>>]
      /\ blob' = [blob EXCEPT ![s][id] = b]
      /\ xfer' = [xfer EXCEPT ![c][p].pc = "recv", ![c][p].entry = e]
      /\ x.pc = "ready" /\ writer[s] = Nobody
      /\ UNCHANGED <<index, call, history, confirmed>>
  BY <1>1 DEF e
<1>7. /\ blob' \in [Shelves -> [VersionIDs -> Blob \cup {NoBlob}]]
      /\ \A t \in Shelves : t # s => blob'[t] = blob[t]
      /\ \A i \in VersionIDs : blob'[s][i] = IF i = id THEN b ELSE blob[s][i]
  BY <1>2, <1>3, <1>4, <1>5, <1>6 DEF TypeOK
<1>8. /\ xfer' \in [Clients -> [Nodes -> TransferRecord]]
      /\ OthersSame(c, p)
      /\ xfer'[c][p].pc = "recv" /\ xfer'[c][p].entry = e
      /\ xfer'[c][p].n = x.n /\ xfer'[c][p].src = x.src
  BY <1>2, <1>3, <1>4, <1>6 DEF TypeOK, TransferRecord, OthersSame, EntryOrNone
<1>9. /\ writer' \in [Shelves -> (Clients \X Nodes) \cup {Nobody}]
      /\ writer'[s] = <<c, p>> /\ \A t \in Shelves : t # s => writer'[t] = writer[t]
  BY <1>2, <1>3, <1>6 DEF TypeOK
<1>10. TypeOK'
  BY <1>2, <1>6, <1>7, <1>8, <1>9 DEF TypeOK
<1>11. \A t \in Shelves, i \in VersionIDs : blob[t][i] # NoBlob => blob'[t][i] # NoBlob
  BY <1>5, <1>7
<1>12. TransferOK(c, p)'
  <2>1. Into(c, p)' = s
    BY <1>6 DEF s, Into, Own
  <2>2. \A t \in Shelves : writer[t] # <<c, p>>
    BY <1>2, <1>6 DEF TransferOK, LockOK
  <2>3. LockOK(c, p)'
    BY <1>8, <1>9, <2>1, <2>2 DEF LockOK
  <2>4. x.n = 0
    BY <1>2, <1>6 DEF TransferOK
  <2>5. ArrivingOK(c, p)'
    BY <1>3, <1>4, <1>5, <1>7, <1>8, <2>1, <2>4 DEF ArrivingOK
  <2>6. SourceOK(c, xfer[c][p].src)'
    BY <1>3, <1>8, <1>11, SourceKept
  <2>7. call'[c].op # "share" => xfer'[c][p].entry \in OfFile(c)'
    BY <1>3, <1>4, <1>6, <1>8 DEF OfFile
  <2>8. call'[c].pc \notin Resting
    BY <1>3, <1>6
  <2>9. QED
    BY <1>8, <2>3, <2>5, <2>6, <2>7, <2>8 DEF TransferOK
<1>13. ASSUME NEW d \in Clients, NEW q \in Nodes, <<d, q>> # <<c, p>> PROVE Standing(d, q, s)
  <2>1. writer[s] # <<d, q>> /\ writer'[s] # <<d, q>>
    BY <1>3, <1>6, <1>9, <1>13, LockAtRest
  <2>2. xfer'[d][q] = xfer[d][q] /\ xfer[d][q].src \in File
    BY <1>2, <1>8, <1>13 DEF OthersSame, TypeOK, TransferRecord
  <2>3. SourceOK(d, xfer[d][q].src) => SourceOK(d, xfer[d][q].src)'
    BY <1>11, <2>2, SourceKept
  <2>4. QED
    BY <1>6, <2>1, <2>2, <2>3 DEF Standing
<1>14. Entries(index'[s].versions) \subseteq history'[FileOf(s)]
  BY <1>3, <1>6, ListedEntries DEF ServerInv, ReplicasAgree
<1>15. \A i \in VersionIDs : blob'[s][i] # NoBlob => blob'[s][i].for = s[2]
  BY <1>3, <1>5, <1>7 DEF ServerInv, OwnersKeyOnly
<1>16. Entitled
  BY <1>6 DEF Entitled
<1>17. QED
  BY <1>3, <1>6, <1>7, <1>9, <1>10, <1>12, <1>13, <1>14, <1>15, <1>16, AtShelf

LEMMA BlockOK ==
  ASSUME ServerInv, NEW c \in Clients, NEW p \in Nodes, Block(c, p) PROVE ServerInv'
<1> DEFINE x == xfer[c][p]
           s == Into(c, p)
           id == x.entry.id
           b == [blob[s][id] EXCEPT !.n = x.n + 1]
<1>1. /\ TypeOK /\ TransferOK(c, p) /\ x.pc \in Live /\ x.pc = "recv"
      /\ x.n < x.want
      /\ UNCHANGED <<index, writer, call, history, confirmed>>
  BY DEF ServerInv, Live, Block
<1>2. /\ x \in TransferRecord /\ x.src \in File /\ SourceOK(c, x.src)
      /\ s \in Shelves /\ call[c].pc \notin Resting
      /\ ~(call[c].op = "share") => x.entry \in OfFile(c)
  BY <1>1, LiveTransfer
<1>3. id \in VersionIDs /\ blob[s][id] \in Blob /\ blob[s][id].for = s[2] /\ writer[s] = <<c, p>>
  <2>1. id \in VersionIDs /\ writer[s] = <<c, p>> /\ blob[s][id] # NoBlob
    BY <1>1, <1>2 DEF TransferOK, ArrivingOK, LockOK
  <2>2. blob[s][id] \in Blob \cup {NoBlob}
    BY <1>1, <1>2, <2>1 DEF TypeOK
  <2>3. blob[s][id].for = s[2]
    BY <1>2, <2>1 DEF ServerInv, OwnersKeyOnly
  <2>4. QED
    BY <2>1, <2>2, <2>3
<1>4. x.n + 1 \in 0 .. Blocks
  BY <1>1, <1>2, FileServerAssumption, SMTT(30) DEF TransferRecord
<1>5. b \in Blob /\ b.n = x.n + 1 /\ b.for = s[2] /\ b # NoBlob
  <2>1. b \in Blob /\ b.n = x.n + 1 /\ b.for = s[2]
    BY <1>3, <1>4 DEF Blob
  <2>2. QED
    BY <2>1, BlobTypes
<1> HIDE DEF s
<1>6. /\ blob' \in [Shelves -> [VersionIDs -> Blob \cup {NoBlob}]]
      /\ \A t \in Shelves : t # s => blob'[t] = blob[t]
      /\ \A i \in VersionIDs : blob'[s][i] = IF i = id THEN b ELSE blob[s][i]
  <2>1. blob' = [blob EXCEPT ![s][id].n = x.n + 1]
    BY DEF Block, s
  <2>2. QED
    BY <1>1, <1>2, <1>3, <1>5, <2>1 DEF TypeOK
<1>7. /\ xfer' \in [Clients -> [Nodes -> TransferRecord]]
      /\ OthersSame(c, p)
      /\ xfer'[c][p].pc = "recv" /\ xfer'[c][p].entry = x.entry
      /\ xfer'[c][p].n = x.n + 1 /\ xfer'[c][p].src = x.src
  <2>1. xfer' = [xfer EXCEPT ![c][p].n = x.n + 1]
    BY DEF Block
  <2>2. QED
    BY <1>1, <1>2, <1>4, <2>1 DEF TypeOK, TransferRecord, OthersSame
<1> HIDE DEF b
<1>8. TypeOK'
  BY <1>1, <1>6, <1>7 DEF TypeOK
<1>9. \A t \in Shelves, i \in VersionIDs : blob[t][i] # NoBlob => blob'[t][i] # NoBlob
  BY <1>5, <1>6
<1>10. TransferOK(c, p)'
  <2>1. Into(c, p)' = s
    BY <1>1 DEF s, Into, Own
  <2>2. LockOK(c, p)'
    BY <1>1, <1>7, <2>1 DEF TransferOK, LockOK, s
  <2>3. ArrivingOK(c, p)'
    BY <1>2, <1>3, <1>5, <1>6, <1>7, <2>1 DEF ArrivingOK
  <2>4. SourceOK(c, xfer[c][p].src)'
    BY <1>2, <1>7, <1>9, SourceKept
  <2>5. call'[c].op # "share" => xfer'[c][p].entry \in OfFile(c)'
    BY <1>1, <1>2, <1>7 DEF OfFile
  <2>6. call'[c].pc \notin Resting
    BY <1>1, <1>2
  <2>7. QED
    BY <1>7, <2>2, <2>3, <2>4, <2>5, <2>6 DEF TransferOK
<1>11. ASSUME NEW d \in Clients, NEW q \in Nodes, <<d, q>> # <<c, p>> PROVE Standing(d, q, s)
  <2>1. writer[s] # <<d, q>> /\ writer'[s] # <<d, q>>
    BY <1>1, <1>2, <1>3, <1>11, LockAtRest
  <2>2. xfer'[d][q] = xfer[d][q] /\ xfer[d][q].src \in File
    BY <1>1, <1>7, <1>11 DEF OthersSame, TypeOK, TransferRecord
  <2>3. SourceOK(d, xfer[d][q].src) => SourceOK(d, xfer[d][q].src)'
    BY <1>9, <2>2, SourceKept
  <2>4. QED
    BY <1>1, <2>1, <2>2, <2>3 DEF Standing
<1>12. Entries(index'[s].versions) \subseteq history'[FileOf(s)]
  BY <1>1, <1>2, ListedEntries DEF ServerInv, ReplicasAgree
<1>13. \A i \in VersionIDs : blob'[s][i] # NoBlob => blob'[s][i].for = s[2]
  BY <1>2, <1>5, <1>6 DEF ServerInv, OwnersKeyOnly
<1>14. Entitled
  BY <1>1 DEF Entitled
<1>15. QED
  BY <1>1, <1>2, <1>6, <1>8, <1>10, <1>11, <1>12, <1>13, <1>14, AtShelf

\* What a body leaves at the shelf it filled.
LEMMA FinishedEntry ==
  ASSUME ServerInv, NEW c \in Clients, NEW p \in Nodes, xfer[c][p].pc = "recv"
  PROVE  LET x == xfer[c][p]
             s == Into(c, p)
             own == call[c].op = "share"
             e == IF own THEN [x.entry EXCEPT !.data = [of |-> Body(x.src).of, n |-> x.n]]
                         ELSE x.entry
             idx == IF own THEN AppendLatest(index[s], e) ELSE UpsertLatest(index[s], e)
         IN  /\ e \in Entry /\ idx \in Index /\ e.id = x.entry.id
             /\ Entries(idx.versions) \subseteq Entries(index[s].versions) \cup {e}
             /\ {f \in Entries(index[s].versions) : f.id # e.id} \cup {e} \subseteq Entries(idx.versions)
             /\ ~own => e \in history[FileOf(s)]
<1> DEFINE x == xfer[c][p]
           s == Into(c, p)
           own == call[c].op = "share"
           e == IF own THEN [x.entry EXCEPT !.data = [of |-> Body(x.src).of, n |-> x.n]]
                       ELSE x.entry
           idx == IF own THEN AppendLatest(index[s], e) ELSE UpsertLatest(index[s], e)
<1>1. TypeOK /\ TransferOK(c, p) /\ x.pc \in Live
  BY DEF ServerInv, Live
<1>2. /\ x \in TransferRecord /\ s \in Shelves
      /\ Body(x.src) \in Blob
      /\ ~own => x.entry \in Entry /\ x.entry \in history[FileOf(s)]
  BY <1>1, LiveTransfer
<1>3. x.entry.id \in VersionIDs /\ x.entry \in EntryOrNone
  BY <1>1, <1>2 DEF TransferOK, ArrivingOK, TransferRecord, EntryOrNone
<1>4. [of |-> Body(x.src).of, n |-> x.n] \in Content
  BY <1>2 DEF Content, Blob, TransferRecord
<1>5. e \in Entry /\ e.id = x.entry.id
  BY <1>2, <1>3, <1>4 DEF Entry, EntryOrNone
<1> HIDE DEF e, s
<1>6. index[s] \in Index
  BY <1>1, <1>2, IndexTyped
<1>7. /\ idx \in Index
      /\ Entries(idx.versions) \subseteq Entries(index[s].versions) \cup {e}
      /\ {f \in Entries(index[s].versions) : f.id # e.id} \cup {e} \subseteq Entries(idx.versions)
  <2>1. /\ AppendLatest(index[s], e) \in Index
        /\ Entries(AppendLatest(index[s], e).versions) = Entries(index[s].versions) \cup {e}
    BY <1>5, <1>6, AppendIndex
  <2>2. /\ UpsertLatest(index[s], e) \in Index
        /\ Entries(UpsertLatest(index[s], e).versions) \subseteq Entries(index[s].versions) \cup {e}
        /\ {f \in Entries(index[s].versions) : f.id # e.id} \cup {e}
             \subseteq Entries(UpsertLatest(index[s], e).versions)
    BY <1>5, <1>6, UpsertIndex
  <2>3. CASE own
    BY <2>1, <2>3
  <2>4. CASE ~own
    BY <2>2, <2>4
  <2>5. QED
    BY <2>3, <2>4
<1>8. ~own => e \in history[FileOf(s)]
  BY <1>2 DEF e
<1>9. QED
  BY <1>5, <1>7, <1>8 DEF e, s

LEMMA FinishBodyOK ==
  ASSUME ServerInv, NEW c \in Clients, NEW p \in Nodes, FinishBody(c, p) PROVE ServerInv'
<1> DEFINE x == xfer[c][p]
           s == Into(c, p)
           own == call[c].op = "share"
           e == IF own THEN [x.entry EXCEPT !.data = [of |-> Body(x.src).of, n |-> x.n]]
                       ELSE x.entry
           idx == IF own THEN AppendLatest(index[s], e) ELSE UpsertLatest(index[s], e)
           ids == Pruned(idx)
           next == [xfer EXCEPT ![c][p].pc = "check", ![c][p].entry = e]
<1>1. /\ x.pc = "recv"
      /\ index' = [index EXCEPT ![s] = pruneOldestVersions(idx)]
      /\ blob' = [blob EXCEPT ![s] = Without(blob[s], ids)]
      /\ xfer' = AfterDetach(next, s, ids)
      /\ writer' = [writer EXCEPT ![s] = Nobody]
      /\ history' = IF own THEN [history EXCEPT ![FileOf(s)] = @ \cup {e}] ELSE history
      /\ UNCHANGED <<call, confirmed>>
  BY DEF FinishBody, Save, Detach, AfterDetach
<1>2. TypeOK /\ TransferOK(c, p) /\ x.pc \in Live /\ OwnersKeyOnly
  BY <1>1 DEF ServerInv, Live
<1>3. /\ x \in TransferRecord /\ x.src \in File /\ SourceOK(c, x.src)
      /\ s \in Shelves /\ call[c].pc \notin Resting
      /\ ~own => x.entry \in OfFile(c)
  BY <1>2, LiveTransfer
<1>4. /\ e \in Entry /\ idx \in Index
      /\ Entries(idx.versions) \subseteq Entries(index[s].versions) \cup {e}
      /\ ~own => e \in history[FileOf(s)] /\ e = x.entry
  BY <1>1, FinishedEntry
<1>5. writer[s] = <<c, p>>
  BY <1>1, <1>2, <1>3 DEF TransferOK, LockOK
<1> HIDE DEF s, e, idx
<1>6. /\ pruneOldestVersions(idx) \in Index
      /\ Entries(pruneOldestVersions(idx).versions) \subseteq Entries(idx.versions)
      /\ ids \subseteq VersionIDs
  BY <1>4, PrunedIndex
<1>7. /\ Without(blob[s], ids) \in [VersionIDs -> Blob \cup {NoBlob}]
      /\ \A i \in VersionIDs : Without(blob[s], ids)[i] = IF i \in ids THEN NoBlob ELSE blob[s][i]
  BY <1>2, <1>3, IndexTyped, WithoutBlobs
<1> HIDE DEF ids
<1>8. /\ index' \in [Shelves -> [latest : IdOrNone, versions : Seq(Entry)]]
      /\ index'[s] = pruneOldestVersions(idx)
      /\ \A t \in Shelves : t # s => index'[t] = index[t]
  BY <1>1, <1>2, <1>3, <1>6 DEF TypeOK, Index
<1>9. /\ blob' \in [Shelves -> [VersionIDs -> Blob \cup {NoBlob}]]
      /\ \A t \in Shelves : t # s => blob'[t] = blob[t]
      /\ \A i \in VersionIDs : blob'[s][i] = IF i \in ids THEN NoBlob ELSE blob[s][i]
  BY <1>1, <1>2, <1>3, <1>7 DEF TypeOK
<1>10. /\ writer' \in [Shelves -> (Clients \X Nodes) \cup {Nobody}]
       /\ writer'[s] = Nobody /\ \A t \in Shelves : t # s => writer'[t] = writer[t]
  BY <1>1, <1>2, <1>3 DEF TypeOK
<1>11. /\ next \in [Clients -> [Nodes -> TransferRecord]]
       /\ next[c][p].pc = "check" /\ next[c][p].entry = e /\ next[c][p].n = x.n
       /\ next[c][p].src = x.src
       /\ \A d \in Clients, q \in Nodes : <<d, q>> # <<c, p>> => next[d][q] = xfer[d][q]
  <2>1. e \in EntryOrNone
    BY <1>4, EntryTypes
  <2>2. QED
    BY <1>2, <1>3, <2>1 DEF TypeOK, TransferRecord, EntryOrNone
<1> HIDE DEF next
<1>12. xfer' \in [Clients -> [Nodes -> TransferRecord]]
  BY <1>1, <1>2, <1>3, <1>6, <1>11, DetachedTyped
<1>13. \A d \in Clients, q \in Nodes : /\ xfer'[d][q].pc = next[d][q].pc
                                       /\ xfer'[d][q].entry = next[d][q].entry
                                       /\ xfer'[d][q].n = next[d][q].n
  <2> TAKE d \in Clients, q \in Nodes
  <2>1. ids \in SUBSET VersionIDs /\ xfer' = AfterDetach(next, s, ids)
    BY <1>1, <1>6
  <2>2. next \in [Clients -> [Nodes -> TransferRecord]] /\ TypeOK /\ OwnersKeyOnly /\ s \in Shelves
    BY <1>2, <1>3, <1>11
  <2>3. QED
    BY <2>1, <2>2, DetachKeeps
<1>14. FileOf(s) \in Files /\ history[FileOf(s)] \subseteq Entry
  BY <1>2, <1>3, IndexTyped
<1>15. /\ history' \in [Files -> SUBSET Entry] /\ Entitled
       /\ history'[FileOf(s)] = history[FileOf(s)] \cup {e}
  BY <1>1, <1>2, <1>4, <1>14 DEF TypeOK, Entitled
<1>16. TypeOK'
  BY <1>1, <1>2, <1>8, <1>9, <1>10, <1>12, <1>15 DEF TypeOK
<1>17. \A t \in Shelves, i \in VersionIDs :
         blob[t][i] # NoBlob /\ ~(t = s /\ i \in ids) => blob'[t][i] # NoBlob
  BY <1>9
<1>18. ASSUME NEW d \in Clients, NEW q \in Nodes
       PROVE  SourceOK(d, next[d][q].src) => SourceOK(d, xfer[d][q].src)'
  <2>1. ids \in SUBSET VersionIDs /\ xfer' = AfterDetach(next, s, ids)
    BY <1>1, <1>6
  <2>2. QED
    BY <1>2, <1>3, <1>11, <1>17, <2>1, DetachedSourceOK, SMTT(30)
<1>19. TransferOK(c, p)'
  <2>1. \A t \in Shelves : writer'[t] # <<c, p>>
    <3>1. <<c, p>> # Nobody
      BY FileServerAssumption
    <3>2. QED
      BY <1>1, <1>2, <1>10, <3>1 DEF TransferOK, LockOK, s
  <2>2. LockOK(c, p)' /\ ArrivingOK(c, p)'
    BY <1>11, <1>13, <2>1 DEF LockOK, ArrivingOK
  <2>3. SourceOK(c, xfer[c][p].src)'
    BY <1>3, <1>11, <1>18
  <2>4. call'[c].op # "share" => xfer'[c][p].entry \in OfFile(c)'
    <3>1. OfFile(c) \subseteq OfFile(c)'
      BY <1>1, <1>2, <1>15, FileOfCall DEF OfFile, Entitled
    <3>2. QED
      BY <1>1, <1>3, <1>4, <1>11, <1>13, <3>1
  <2>5. call'[c].pc \notin Resting
    BY <1>1, <1>3
  <2>6. xfer'[c][p].pc = "check"
    BY <1>11, <1>13
  <2>7. QED
    BY <2>2, <2>3, <2>4, <2>5, <2>6 DEF TransferOK
<1>20. ASSUME NEW d \in Clients, NEW q \in Nodes, <<d, q>> # <<c, p>> PROVE Standing(d, q, s)
  <2>1. writer[s] # <<d, q>> /\ writer'[s] # <<d, q>>
    BY <1>3, <1>5, <1>10, <1>20, LockAtRest
  <2>2. next[d][q] = xfer[d][q]
    BY <1>11, <1>20
  <2>3. QED
    BY <1>1, <1>13, <1>18, <2>1, <2>2 DEF Standing
<1>21. Entries(index'[s].versions) \subseteq history'[FileOf(s)]
  BY <1>3, <1>4, <1>6, <1>8, <1>15, ListedEntries DEF ServerInv, ReplicasAgree
<1>22. \A i \in VersionIDs : blob'[s][i] # NoBlob => blob'[s][i].for = s[2]
  BY <1>2, <1>3, <1>9 DEF OwnersKeyOnly
<1>23. QED
  BY <1>1, <1>3, <1>8, <1>9, <1>10, <1>15, <1>16, <1>19, <1>20, <1>21, <1>22, AtShelf

LEMMA CheckCountOK ==
  ASSUME ServerInv, NEW c \in Clients, NEW p \in Nodes, CheckCount(c, p) PROVE ServerInv'
<1> DEFINE x == xfer[c][p]
           s == Into(c, p)
           ids == {x.entry.id}
           next == [xfer EXCEPT ![c][p].pc = "bad"]
<1>1. /\ x.pc = "check" /\ UNCHANGED <<writer, call, history, confirmed>>
  BY DEF CheckCount
<1>2. TypeOK /\ TransferOK(c, p) /\ x.pc \in Live /\ OwnersKeyOnly
  BY <1>1 DEF ServerInv, Live
<1>3. /\ x \in TransferRecord /\ x.src \in File /\ SourceOK(c, x.src)
      /\ s \in Shelves /\ call[c].pc \notin Resting
      /\ ~(call[c].op = "share") => x.entry \in OfFile(c)
  BY <1>2, LiveTransfer
<1>4. \A t \in Shelves : writer[t] # <<c, p>> /\ writer'[t] # <<c, p>>
  BY <1>1, <1>2 DEF TransferOK, LockOK
<1>5. /\ writer' \in [Shelves -> (Clients \X Nodes) \cup {Nobody}]
      /\ confirmed' \subseteq Shelves \X VersionIDs
  BY <1>1, <1>2 DEF TypeOK
<1>6. CASE Become(c, p, "good") /\ UNCHANGED disk
  <2>1. /\ xfer' \in [Clients -> [Nodes -> TransferRecord]]
        /\ OthersSame(c, p)
        /\ xfer'[c][p].pc = "good" /\ xfer'[c][p].entry = x.entry
        /\ xfer'[c][p].n = x.n /\ xfer'[c][p].src = x.src
    BY <1>2, <1>3, <1>6 DEF TypeOK, TransferRecord, OthersSame, Become
  <2>2. UNCHANGED <<index, blob>>
    BY <1>6 DEF disk
  <2>3. SourceOK(c, xfer[c][p].src)'
    BY <1>3, <2>1, <2>2, SourceKept
  <2>4. LockOK(c, p)' /\ ArrivingOK(c, p)'
    BY <1>4, <2>1 DEF LockOK, ArrivingOK
  <2>5. call'[c].op # "share" => xfer'[c][p].entry \in OfFile(c)'
    BY <1>1, <1>3, <2>1 DEF OfFile
  <2>6. TransferOK(c, p)'
    BY <1>1, <1>3, <2>1, <2>3, <2>4, <2>5 DEF TransferOK
  <2>7. QED
    BY <1>1, <1>5, <2>1, <2>2, <2>6, StreamStep
<1>7. CASE Become(c, p, "bad") /\ UNCHANGED disk
  <2>1. /\ xfer' \in [Clients -> [Nodes -> TransferRecord]]
        /\ OthersSame(c, p)
        /\ xfer'[c][p].pc = "bad" /\ xfer'[c][p].entry = x.entry /\ xfer'[c][p].n = x.n
    BY <1>2, <1>3, <1>7 DEF TypeOK, TransferRecord, OthersSame, Become
  <2>2. UNCHANGED <<index, blob>>
    BY <1>7 DEF disk
  <2>3. xfer'[c][p].pc \notin Live /\ x.pc \notin {"idle", "end"}
    BY <1>1, <2>1 DEF Live
  <2>4. QED
    BY <1>1, <1>4, <1>5, <2>1, <2>2, <2>3, StreamEnds
<1>8. CASE /\ writer[s] = Nobody
           /\ x.entry.id \in IdsOf(index[s].versions)
           /\ index' = [index EXCEPT ![s] = RemoveVersion(@, x.entry.id)]
           /\ blob' = [blob EXCEPT ![s] = Without(@, ids)]
           /\ xfer' = AfterDetach(next, s, ids)
  <2> DEFINE idx == RemoveVersion(index[s], x.entry.id)
  <2>1. ids \in SUBSET VersionIDs
    BY <1>2, <1>3, <1>8, IndexTyped
  <2>2. idx \in Index /\ Entries(idx.versions) \subseteq Entries(index[s].versions)
    BY <1>2, <1>3, <1>8, IndexTyped, RemoveIndex
  <2>3. /\ Without(blob[s], ids) \in [VersionIDs -> Blob \cup {NoBlob}]
        /\ \A i \in VersionIDs : Without(blob[s], ids)[i] = IF i \in ids THEN NoBlob ELSE blob[s][i]
    BY <1>2, <1>3, IndexTyped, WithoutBlobs
  <2> HIDE DEF s, ids, idx
  <2>4. /\ index' \in [Shelves -> [latest : IdOrNone, versions : Seq(Entry)]]
        /\ index'[s] = idx
        /\ \A t \in Shelves : t # s => index'[t] = index[t]
    BY <1>2, <1>3, <1>8, <2>2 DEF TypeOK, Index, idx
  <2>5. /\ blob' \in [Shelves -> [VersionIDs -> Blob \cup {NoBlob}]]
        /\ \A t \in Shelves : t # s => blob'[t] = blob[t]
        /\ \A i \in VersionIDs : blob'[s][i] = IF i \in ids THEN NoBlob ELSE blob[s][i]
    BY <1>2, <1>3, <1>8, <2>3 DEF TypeOK
  <2>6. /\ next \in [Clients -> [Nodes -> TransferRecord]]
        /\ next[c][p].pc = "bad"
        /\ \A d \in Clients, q \in Nodes : <<d, q>> # <<c, p>> => next[d][q] = xfer[d][q]
    BY <1>2, <1>3 DEF TypeOK, TransferRecord
  <2> HIDE DEF next
  <2>7. xfer' \in [Clients -> [Nodes -> TransferRecord]]
    BY <1>2, <1>3, <1>8, <2>1, <2>6, DetachedTyped
  <2>8. \A d \in Clients, q \in Nodes : /\ xfer'[d][q].pc = next[d][q].pc
                                        /\ xfer'[d][q].entry = next[d][q].entry
                                        /\ xfer'[d][q].n = next[d][q].n
    <3> TAKE d \in Clients, q \in Nodes
    <3>1. next \in [Clients -> [Nodes -> TransferRecord]] /\ TypeOK /\ OwnersKeyOnly /\ s \in Shelves
      BY <1>2, <1>3, <2>6
    <3>2. QED
      BY <1>8, <2>1, <3>1, DetachKeeps
  <2>9. \A t \in Shelves, i \in VersionIDs :
          blob[t][i] # NoBlob /\ ~(t = s /\ i \in ids) => blob'[t][i] # NoBlob
    BY <2>5
  <2>10. ASSUME NEW d \in Clients, NEW q \in Nodes
         PROVE  SourceOK(d, next[d][q].src) => SourceOK(d, xfer[d][q].src)'
    BY <1>2, <1>3, <1>8, <2>1, <2>6, <2>9, DetachedSourceOK, ZenonT(60)
  <2>11. TypeOK'
    BY <1>1, <1>2, <1>5, <2>4, <2>5, <2>7 DEF TypeOK
  <2>12. TransferOK(c, p)'
    BY <1>4, <1>1, <1>3, <2>6, <2>8 DEF TransferOK, LockOK, ArrivingOK, Live
  <2>13. ASSUME NEW d \in Clients, NEW q \in Nodes, <<d, q>> # <<c, p>> PROVE Standing(d, q, s)
    <3>1. writer[s] # <<d, q>> /\ writer'[s] # <<d, q>>
      BY <1>1, <1>3, <1>8, <2>13, LockAtRest
    <3>2. next[d][q] = xfer[d][q]
      BY <2>6, <2>13
    <3>3. QED
      BY <1>1, <2>8, <2>10, <3>1, <3>2 DEF Standing
  <2>14. Entries(index'[s].versions) \subseteq history'[FileOf(s)]
    BY <1>1, <1>3, <2>2, <2>4, ListedEntries DEF ServerInv, ReplicasAgree
  <2>15. \A i \in VersionIDs : blob'[s][i] # NoBlob => blob'[s][i].for = s[2]
    BY <1>2, <1>3, <2>5 DEF OwnersKeyOnly
  <2>16. Entitled
    BY <1>1 DEF Entitled
  <2>17. QED
    BY <1>1, <1>3, <2>4, <2>5, <2>11, <2>12, <2>13, <2>14, <2>15, <2>16, AtShelf
<1>9. QED
  BY <1>6, <1>7, <1>8 DEF CheckCount, Detach, AfterDetach

LEMMA DeleteOK ==
  ASSUME ServerInv, NEW c \in Clients, Delete(c) PROVE ServerInv'
<1>1. PICK k \in Keys :
        LET s == Own(c, k)
            ids == IdsOf(index[s].versions)
        IN  /\ writer[s] = Nobody
            /\ index' = [index EXCEPT ![s] = EmptyIndex]
            /\ blob' = [blob EXCEPT ![s] = Without(@, ids)]
            /\ xfer' = AfterDetach(xfer, s, ids)
            /\ UNCHANGED <<writer, call, history, confirmed>>
  BY DEF Delete, Detach, AfterDetach
<1> DEFINE s == Own(c, k)
           ids == IdsOf(index[s].versions)
<1>2. TypeOK /\ OwnersKeyOnly
  BY DEF ServerInv
<1>3. s \in Shelves
  BY OwnShelf
<1>4. ids \in SUBSET VersionIDs
  BY <1>2, <1>3, IndexTyped
<1>5. /\ Without(blob[s], ids) \in [VersionIDs -> Blob \cup {NoBlob}]
      /\ \A i \in VersionIDs : Without(blob[s], ids)[i] = IF i \in ids THEN NoBlob ELSE blob[s][i]
  BY <1>2, <1>3, IndexTyped, WithoutBlobs
<1> HIDE DEF s, ids
<1>6. /\ index' = [index EXCEPT ![s] = EmptyIndex]
      /\ blob' = [blob EXCEPT ![s] = Without(blob[s], ids)]
      /\ xfer' = AfterDetach(xfer, s, ids)
      /\ writer[s] = Nobody
      /\ UNCHANGED <<writer, call, history, confirmed>>
  BY <1>1 DEF s, ids
<1>7. /\ index' \in [Shelves -> [latest : IdOrNone, versions : Seq(Entry)]]
      /\ index'[s] = EmptyIndex
      /\ \A t \in Shelves : t # s => index'[t] = index[t]
  BY <1>2, <1>3, <1>6, EmptyIndexType DEF TypeOK, Index
<1>8. /\ blob' \in [Shelves -> [VersionIDs -> Blob \cup {NoBlob}]]
      /\ \A t \in Shelves : t # s => blob'[t] = blob[t]
      /\ \A i \in VersionIDs : blob'[s][i] = IF i \in ids THEN NoBlob ELSE blob[s][i]
  BY <1>2, <1>3, <1>5, <1>6 DEF TypeOK
<1>9. xfer \in [Clients -> [Nodes -> TransferRecord]]
  BY <1>2 DEF TypeOK
<1>10. xfer' \in [Clients -> [Nodes -> TransferRecord]]
  BY <1>2, <1>3, <1>4, <1>6, <1>9, DetachedTyped
<1>11. \A d \in Clients, q \in Nodes : /\ xfer'[d][q].pc = xfer[d][q].pc
                                       /\ xfer'[d][q].entry = xfer[d][q].entry
                                       /\ xfer'[d][q].n = xfer[d][q].n
  <2> TAKE d \in Clients, q \in Nodes
  <2>1. QED
    BY <1>2, <1>3, <1>4, <1>6, <1>9, DetachKeeps
<1>12. \A t \in Shelves, i \in VersionIDs :
         blob[t][i] # NoBlob /\ ~(t = s /\ i \in ids) => blob'[t][i] # NoBlob
  BY <1>8
<1>13. ASSUME NEW d \in Clients, NEW q \in Nodes
       PROVE  SourceOK(d, xfer[d][q].src) => SourceOK(d, xfer[d][q].src)'
  BY <1>2, <1>3, <1>4, <1>6, <1>9, <1>12, DetachedSourceOK
<1>14. TypeOK'
  BY <1>2, <1>6, <1>7, <1>8, <1>10 DEF TypeOK
<1>15. ASSUME NEW d \in Clients, NEW q \in Nodes PROVE Standing(d, q, s)
  <2>1. Nobody # <<d, q>>
    BY FileServerAssumption
  <2>2. writer[s] # <<d, q>> /\ writer'[s] # <<d, q>>
    BY <1>6, <2>1
  <2>3. QED
    BY <1>6, <1>11, <1>13, <2>2 DEF Standing
<1>16. Entries(index'[s].versions) \subseteq history'[FileOf(s)]
  BY <1>7, EmptyIndexType
<1>17. \A i \in VersionIDs : blob'[s][i] # NoBlob => blob'[s][i].for = s[2]
  BY <1>2, <1>3, <1>8 DEF OwnersKeyOnly
<1>18. Entitled
  BY <1>6 DEF Entitled
<1>19. QED
  BY <1>3, <1>6, <1>7, <1>8, <1>14, <1>15, <1>16, <1>17, <1>18, AtShelf

\* The entry and the index that WriteVersion of client c's bytes makes.
NewEntry(c, k, id) ==
    [id |-> id, seq |-> nextSeq(index[Own(c, k)]), data |-> [of |-> id, n |-> Blocks]]
NewIndex(c, k, id) == AppendLatest(index[Own(c, k)], NewEntry(c, k, id))
\* WriteLocal without what it does to the files that are open.
Written(c, k, id) ==
    LET s == Own(c, k)
    IN  /\ writer[s] = Nobody
        /\ Save(s, NewIndex(c, k, id),
                [blob[s] EXCEPT ![id] = [of |-> id, for |-> At[c], n |-> Blocks]])
        /\ history' = [history EXCEPT ![FileOf(s)] = @ \cup {NewEntry(c, k, id)}]
        /\ UNCHANGED <<writer, confirmed>>

LEMMA NewEntryOK ==
  ASSUME TypeOK, NEW c \in Clients, NEW k \in Keys, NEW id \in VersionIDs
  PROVE  /\ NewEntry(c, k, id) \in Entry
         /\ NewIndex(c, k, id) \in Index
         /\ Entries(NewIndex(c, k, id).versions)
              = Entries(index[Own(c, k)].versions) \cup {NewEntry(c, k, id)}
         /\ [of |-> id, for |-> At[c], n |-> Blocks] \in Blob
<1>1. nextSeq(index[Own(c, k)]) \in Nat /\ index[Own(c, k)] \in Index
  BY OwnShelf, IndexTyped
<1>2. NewEntry(c, k, id) \in Entry
  BY <1>1, FileServerAssumption DEF NewEntry, Entry, Content, IdOrNone
<1>3. [of |-> id, for |-> At[c], n |-> Blocks] \in Blob
  BY FileServerAssumption DEF Blob, IdOrNone
<1>4. QED
  BY <1>1, <1>2, <1>3, AppendIndex DEF NewIndex

LEMMA WriteLocalOK ==
  ASSUME ServerInv, NEW c \in Clients, call[c].pc = "idle",
         NEW k \in Keys, NEW id \in VersionIDs, Written(c, k, id),
         NEW next \in [Clients -> [Nodes -> TransferRecord]],
         xfer' = AfterDetach(next, Own(c, k), Pruned(NewIndex(c, k, id))),
         call' \in [Clients -> CallRecord],
         \A d \in Clients : d # c => call'[d] = call[d] /\ next[d] = xfer[d],
         call'[c].op = "put" => /\ call'[c].entry = NewEntry(c, k, id)
                                /\ call'[c].key = k,
         \A p \in Nodes : \/ next[c][p].pc \in {"idle", "end"}
                          \/ /\ next[c][p].pc = "open" /\ next[c][p].n = 0
                             /\ call'[c].pc \notin Resting
  PROVE  ServerInv'
<1> DEFINE s == Own(c, k)
           e == NewEntry(c, k, id)
           idx == NewIndex(c, k, id)
           ids == Pruned(idx)
           b == [of |-> id, for |-> At[c], n |-> Blocks]
           blobs == [blob[s] EXCEPT ![id] = b]
<1>1. /\ index' = [index EXCEPT ![s] = pruneOldestVersions(idx)]
      /\ blob' = [blob EXCEPT ![s] = Without(blobs, ids)]
      /\ writer[s] = Nobody
      /\ history' = [history EXCEPT ![FileOf(s)] = @ \cup {e}]
      /\ UNCHANGED <<writer, confirmed>>
      /\ xfer' = AfterDetach(next, s, ids)
  BY DEF Written, Save
<1>2. TypeOK /\ OwnersKeyOnly
  BY DEF ServerInv
<1>3. s \in Shelves /\ FileOf(s) = <<At[c], k>> /\ s[2] = At[c]
  BY OwnShelf
<1>4. /\ e \in Entry /\ idx \in Index /\ b \in Blob
      /\ Entries(idx.versions) = Entries(index[s].versions) \cup {e}
  BY <1>2, NewEntryOK
<1>5. b.for = s[2] /\ b # NoBlob
  BY <1>3, <1>4, BlobTypes
<1> HIDE DEF s, e, idx, b
<1>6. /\ pruneOldestVersions(idx) \in Index
      /\ Entries(pruneOldestVersions(idx).versions) \subseteq Entries(idx.versions)
      /\ ids \in SUBSET VersionIDs
  BY <1>4, PrunedIndex
<1>7. /\ blobs \in [VersionIDs -> Blob \cup {NoBlob}]
      /\ \A i \in VersionIDs : blobs[i] = IF i = id THEN b ELSE blob[s][i]
  BY <1>2, <1>3, <1>4, IndexTyped
<1> HIDE DEF blobs, ids
<1>8. /\ Without(blobs, ids) \in [VersionIDs -> Blob \cup {NoBlob}]
      /\ \A i \in VersionIDs : Without(blobs, ids)[i] = IF i \in ids THEN NoBlob ELSE blobs[i]
  BY <1>7, WithoutBlobs
<1>9. /\ index' \in [Shelves -> [latest : IdOrNone, versions : Seq(Entry)]]
      /\ index'[s] = pruneOldestVersions(idx)
      /\ \A t \in Shelves : t # s => index'[t] = index[t]
  BY <1>1, <1>2, <1>3, <1>6 DEF TypeOK, Index
<1>10. /\ blob' \in [Shelves -> [VersionIDs -> Blob \cup {NoBlob}]]
       /\ \A t \in Shelves : t # s => blob'[t] = blob[t]
       /\ \A i \in VersionIDs : blob'[s][i] = IF i \in ids THEN NoBlob
                                              ELSE IF i = id THEN b ELSE blob[s][i]
  BY <1>1, <1>2, <1>3, <1>7, <1>8 DEF TypeOK
<1>11. FileOf(s) \in Files /\ history[FileOf(s)] \subseteq Entry
  BY <1>2, <1>3, IndexTyped
<1>12. /\ history' \in [Files -> SUBSET Entry] /\ Entitled
       /\ history'[FileOf(s)] = history[FileOf(s)] \cup {e}
  BY <1>1, <1>2, <1>4, <1>11 DEF TypeOK, Entitled
<1>13. xfer' \in [Clients -> [Nodes -> TransferRecord]]
  BY <1>1, <1>2, <1>3, <1>6, DetachedTyped
<1>14. \A d \in Clients, q \in Nodes : /\ xfer'[d][q].pc = next[d][q].pc
                                       /\ xfer'[d][q].entry = next[d][q].entry
                                       /\ xfer'[d][q].n = next[d][q].n
  <2> TAKE d \in Clients, q \in Nodes
  <2>1. QED
    BY <1>1, <1>2, <1>3, <1>6, DetachKeeps
<1>15. \A t \in Shelves, i \in VersionIDs :
         blob[t][i] # NoBlob /\ ~(t = s /\ i \in ids) => blob'[t][i] # NoBlob
  BY <1>5, <1>10
<1>16. ASSUME NEW d \in Clients, NEW q \in Nodes
       PROVE  SourceOK(d, next[d][q].src) => SourceOK(d, xfer[d][q].src)'
  <2>1. xfer' = AfterDetach(next, s, ids)
    BY <1>1
  <2>2. QED
    BY <1>2, <1>3, <1>6, <1>15, <2>1, DetachedSourceOK, SMTT(90)
<1>17. TypeOK'
  BY <1>1, <1>2, <1>9, <1>10, <1>12, <1>13 DEF TypeOK
<1>18. ASSUME NEW q \in Nodes PROVE TransferOK(c, q)'
  <2>1. \A t \in Shelves : writer'[t] # <<c, q>>
    <3>1. xfer[c][q].pc \in {"idle", "end"} /\ TransferOK(c, q)
      BY RestingTransfers DEF Resting, ServerInv
    <3>2. xfer[c][q].pc # "recv" /\ writer' = writer
      BY <1>1, <3>1
    <3>3. QED
      BY <3>1, <3>2, IdleLockless
  <2>2. \/ xfer'[c][q].pc \in {"idle", "end"}
        \/ xfer'[c][q].pc = "open" /\ xfer'[c][q].n = 0
    BY <1>14
  <2>3. call'[c].pc \in Resting => xfer'[c][q].pc # "open"
    BY <1>14
  <2>4. QED
    BY <2>1, <2>2, <2>3, AtRest
<1>19. ASSUME NEW d \in Clients, NEW q \in Nodes, d # c PROVE Standing(d, q, s)
  <2>1. writer[s] # <<d, q>> /\ writer'[s] # <<d, q>>
    <3>1. writer[s] = Nobody /\ writer' = writer
      BY <1>1
    <3>2. <<d, q>> # Nobody
      BY FileServerAssumption
    <3>3. QED
      BY <3>1, <3>2
  <2>2. next[d][q] = xfer[d][q]
    BY <1>19
  <2>3. QED
    BY <1>14, <1>16, <1>19, <2>1, <2>2 DEF Standing
<1>20. CallOK(c)'
  BY <1>3, <1>12 DEF CallOK, OfFile, e
<1>21. Entries(index'[s].versions) \subseteq history'[FileOf(s)]
  BY <1>3, <1>4, <1>6, <1>9, <1>12, ListedEntries DEF ServerInv, ReplicasAgree
<1>22. \A i \in VersionIDs : blob'[s][i] # NoBlob => blob'[s][i].for = s[2]
  BY <1>2, <1>3, <1>5, <1>10 DEF OwnersKeyOnly
<1>23. \A d \in Clients : call'[d] = call[d] \/ CallOK(d)'
  BY <1>20
<1>24. \A d \in Clients, q \in Nodes : Standing(d, q, s) \/ TransferOK(d, q)'
  BY <1>18, <1>19
<1>25. \A t \in Shelves : t # s => /\ index'[t] = index[t] /\ blob'[t] = blob[t]
                                   /\ writer'[t] = writer[t]
  BY <1>1, <1>9, <1>10
<1>26. QED
  BY <1>3, <1>12, <1>17, <1>21, <1>22, <1>23, <1>24, <1>25, AtShelf

LEMMA StoreVersionOK ==
  ASSUME ServerInv, NEW c \in Clients, StoreVersion(c) PROVE ServerInv'
<1>1. PICK k \in Keys, id \in Fresh, connected \in Peers(At[c]) :
        \E peers \in selectPeers(connected) :
          /\ Idle(c, "put")
          /\ WriteLocal(c, k, id, Fan(c, peers))
          /\ call' = [call EXCEPT ![c] =
               [NoCall EXCEPT !.pc = "fan", !.op = "put", !.key = k,
                              !.entry = NewEntry(c, k, id)]]
  BY DEF StoreVersion, NewEntry
<1>2. PICK peers \in selectPeers(connected) :
        /\ Idle(c, "put")
        /\ WriteLocal(c, k, id, Fan(c, peers))
        /\ call' = [call EXCEPT ![c] =
             [NoCall EXCEPT !.pc = "fan", !.op = "put", !.key = k,
                            !.entry = NewEntry(c, k, id)]]
  BY <1>1
<1>3. TypeOK /\ id \in VersionIDs /\ call[c].pc = "idle"
  BY <1>2 DEF ServerInv, Fresh, Idle
<1>4. /\ Written(c, k, id)
      /\ xfer' = AfterDetach(Fan(c, peers), Own(c, k), Pruned(NewIndex(c, k, id)))
  BY <1>2 DEF WriteLocal, Written, NewIndex, NewEntry, Detach, AfterDetach
<1>5. NewEntry(c, k, id) \in EntryOrNone
  BY <1>3, NewEntryOK, EntryTypes
<1> DEFINE new == [NoCall EXCEPT !.pc = "fan", !.op = "put", !.key = k,
                                 !.entry = NewEntry(c, k, id)]
<1>6. /\ new \in CallRecord /\ new.op = "put" /\ new.pc = "fan"
      /\ new.key = k /\ new.entry = NewEntry(c, k, id)
  BY <1>5, NoCallType DEF CallRecord, EntryOrNone
<1>7. call' = [call EXCEPT ![c] = new]
  BY <1>2
<1> HIDE DEF new
<1>8. /\ call' \in [Clients -> CallRecord]
      /\ \A d \in Clients : d # c => call'[d] = call[d]
      /\ call'[c] = new
  BY <1>3, <1>6, <1>7 DEF TypeOK
<1>9. /\ Fan(c, peers) \in [Clients -> [Nodes -> TransferRecord]]
      /\ \A d \in Clients : d # c => Fan(c, peers)[d] = xfer[d]
      /\ \A p \in Nodes : Fan(c, peers)[c][p] \in {Opening, NoTransfer}
  BY <1>3, FanTyped
<1>10. \A p \in Nodes : \/ Fan(c, peers)[c][p].pc \in {"idle", "end"}
                        \/ /\ Fan(c, peers)[c][p].pc = "open" /\ Fan(c, peers)[c][p].n = 0
                           /\ call'[c].pc \notin Resting
  BY <1>6, <1>8, <1>9, NoTransferType DEF Resting
<1>11. QED
  BY <1>3, <1>4, <1>6, <1>8, <1>9, <1>10, WriteLocalOK

LEMMA StoreLocalOK ==
  ASSUME ServerInv, NEW c \in Clients, StoreLocal(c) PROVE ServerInv'
<1>1. PICK k \in Keys, id \in Fresh, targets \in Targets(c) :
        /\ Idle(c, "shareLoose")
        /\ WriteLocal(c, k, id, xfer)
        /\ call' = [call EXCEPT ![c] = [NoCall EXCEPT !.pc = "stored", !.key = k, !.left = targets]]
  BY DEF StoreLocal
<1>2. TypeOK /\ id \in VersionIDs /\ call[c].pc = "idle"
  BY <1>1 DEF ServerInv, Fresh, Idle
<1>3. /\ Written(c, k, id)
      /\ xfer' = AfterDetach(xfer, Own(c, k), Pruned(NewIndex(c, k, id)))
  BY <1>1 DEF WriteLocal, Written, NewIndex, NewEntry, Detach, AfterDetach
<1>4. targets \subseteq Nodes
  BY OwnShelf, PeersAreNodes DEF Targets
<1> DEFINE new == [NoCall EXCEPT !.pc = "stored", !.key = k, !.left = targets]
<1>5. new \in CallRecord /\ new.op = "none"
  BY <1>4, NoCallType DEF CallRecord
<1>6. call' = [call EXCEPT ![c] = new]
  BY <1>1
<1> HIDE DEF new
<1>7. /\ call' \in [Clients -> CallRecord]
      /\ \A d \in Clients : d # c => call'[d] = call[d]
      /\ call'[c].op = "none"
  BY <1>2, <1>5, <1>6 DEF TypeOK
<1>8. xfer \in [Clients -> [Nodes -> TransferRecord]]
  BY <1>2 DEF TypeOK
<1>9. \A p \in Nodes : xfer[c][p].pc \in {"idle", "end"}
  BY <1>2, RestingTransfers DEF Resting
<1>10. QED
  BY <1>2, <1>3, <1>7, <1>8, <1>9, WriteLocalOK

-----------------------------------------------------------------------------
(* Lost peers and dead nodes.                                              *)
(***************************************************************************)
\* Streams that break, on some nodes at once: those that no longer receive hold
\* no lock.
LEMMA StreamsBreak ==
  ASSUME ServerInv, UNCHANGED <<index, blob, history, confirmed>>,
         call' \in [Clients -> CallRecord],
         xfer' \in [Clients -> [Nodes -> TransferRecord]],
         writer' = [s \in Shelves |->
           IF \E c \in Clients, p \in Nodes : writer[s] = <<c, p>> /\ xfer'[c][p].pc # "recv"
             THEN Nobody ELSE writer[s]],
         \A c \in Clients : /\ SameCall(c) /\ call'[c].entry = call[c].entry
                            /\ call'[c].pc \in {call[c].pc, "gone"},
         \A c \in Clients, p \in Nodes :
           /\ xfer'[c][p].pc \in {xfer[c][p].pc, "bad", "end"}
           /\ xfer[c][p].pc = "idle" => xfer'[c][p].pc = "idle"
           /\ xfer[c][p].pc = "end" => xfer'[c][p].pc = "end"
           /\ xfer'[c][p].n = xfer[c][p].n
           /\ xfer'[c][p].entry = xfer[c][p].entry
           /\ xfer'[c][p].pc \in Live => xfer'[c][p].src = xfer[c][p].src
  PROVE  ServerInv'
<1>1. TypeOK
  BY DEF ServerInv
<1>2. ReplicasAgree' /\ OwnersKeyOnly' /\ Entitled
  BY DiskSame DEF ServerInv
<1>3. \A s \in Shelves : writer[s] \in (Clients \X Nodes) \cup {Nobody}
  BY <1>1 DEF TypeOK
<1>4. writer' \in [Shelves -> (Clients \X Nodes) \cup {Nobody}]
  BY <1>3
<1>5. TypeOK'
  BY <1>1, <1>4 DEF TypeOK
<1>6. ASSUME NEW c \in Clients PROVE CallOK(c)'
  BY DEF ServerInv, CallOK, OfFile, SameCall
<1>7. ASSUME NEW c \in Clients, NEW p \in Nodes PROVE TransferOK(c, p)'
  <2>1. TransferOK(c, p) /\ SameCall(c)
    BY DEF ServerInv
  <2>2. call'[c].pc \in Resting => xfer'[c][p].pc \in {"idle", "end"}
    <3>1. call'[c].pc \in Resting => call'[c].pc = call[c].pc
      BY DEF Resting
    <3>2. call'[c].pc \in Resting => xfer[c][p].pc \in {"idle", "end"}
      BY <2>1, <3>1 DEF TransferOK
    <3>3. QED
      BY <3>2
  <2>3. xfer'[c][p].pc \in Live => SourceOK(c, xfer[c][p].src)'
    <3>1. xfer'[c][p].pc \in Live => xfer[c][p].pc \in Live /\ xfer'[c][p].src = xfer[c][p].src
      BY DEF Live
    <3>2. QED
      BY <2>1, <3>1 DEF TransferOK, SourceOK
  <2>4. ASSUME NEW s \in Shelves
        PROVE  writer'[s] = <<c, p>> <=> writer[s] = <<c, p>> /\ xfer'[c][p].pc = "recv"
    <3>1. <<c, p>> # Nobody
      BY FileServerAssumption
    <3>2. writer'[s] = IF \E d \in Clients, q \in Nodes :
                            writer[s] = <<d, q>> /\ xfer'[d][q].pc # "recv"
                         THEN Nobody ELSE writer[s]
      OBVIOUS
    <3>3. CASE writer[s] = <<c, p>>
      <4>1. (\E d \in Clients, q \in Nodes : writer[s] = <<d, q>> /\ xfer'[d][q].pc # "recv")
              <=> xfer'[c][p].pc # "recv"
        BY <3>3
      <4>2. QED
        BY <3>1, <3>2, <3>3, <4>1
    <3>4. CASE writer[s] # <<c, p>>
      BY <3>1, <3>2, <3>4
    <3>5. QED
      BY <3>3, <3>4
  <2>5. xfer'[c][p].pc = "recv" =>
          blob'[Into(c, p)][xfer[c][p].entry.id] = blob[Into(c, p)][xfer[c][p].entry.id]
    OBVIOUS
  <2>6. QED
    BY <1>1, <1>2, <2>1, <2>2, <2>3, <2>4, <2>5, Undisturbed
<1>8. QED
  BY <1>2, <1>5, <1>6, <1>7 DEF ServerInv

LEMMA DisconnectedStream ==
  ASSUME TypeOK, NEW c \in Clients, NEW p \in Nodes, NEW cut \in BOOLEAN
  PROVE  LET x == xfer[c][p]
             y == Disconnected(c, p, cut)
         IN  /\ y \in TransferRecord
             /\ y.pc \in {x.pc, "bad"}
             /\ x.pc \in {"idle", "end"} => y.pc = x.pc
             /\ y.n = x.n /\ y.entry = x.entry /\ y.src = x.src
             /\ y.want = x.want /\ y.res \in {x.res, "failed"}
<1> DEFINE x == xfer[c][p]
           broken == x.pc \notin {"idle", "end"} /\ (x.pc = "open" => cut)
           pc == IF broken /\ Exposed(x) THEN "bad" ELSE x.pc
           res == IF broken /\ Pushing(c) /\ x.res = "none" THEN "failed" ELSE x.res
<1>1. x \in TransferRecord
  BY DEF TypeOK
<1>2. Disconnected(c, p, cut) = [x EXCEPT !.pc = pc, !.res = res]
  BY <1>1 DEF Disconnected, TransferRecord
<1>3. /\ pc \in {x.pc, "bad"} /\ (x.pc \in {"idle", "end"} => pc = x.pc)
      /\ res \in {x.res, "failed"}
  OBVIOUS
<1> HIDE DEF pc, res
<1>4. QED
  BY <1>1, <1>2, <1>3 DEF TransferRecord

LEMMA DisconnectOK ==
  ASSUME ServerInv, NEW d \in Clients, Disconnect(d) PROVE ServerInv'
<1>1. PICK q \in Nodes, cut \in BOOLEAN :
        /\ xfer' = [c \in Clients |-> [p \in Nodes |->
             IF Between(c, p, {At[d], q}) THEN Disconnected(c, p, cut) ELSE xfer[c][p]]]
        /\ writer' = [s \in Shelves |->
             IF \E c \in Clients, p \in Nodes : writer[s] = <<c, p>> /\ xfer'[c][p].pc # "recv"
               THEN Nobody ELSE writer[s]]
        /\ UNCHANGED <<index, blob, call, history, confirmed>>
  BY DEF Disconnect
<1>2. TypeOK
  BY DEF ServerInv
<1>3. ASSUME NEW c \in Clients, NEW p \in Nodes
      PROVE  /\ xfer'[c][p] \in TransferRecord
             /\ xfer'[c][p].pc \in {xfer[c][p].pc, "bad"}
             /\ xfer[c][p].pc \in {"idle", "end"} => xfer'[c][p].pc = xfer[c][p].pc
             /\ xfer'[c][p].n = xfer[c][p].n /\ xfer'[c][p].entry = xfer[c][p].entry
             /\ xfer'[c][p].src = xfer[c][p].src
  <2>1. xfer'[c][p] \in {xfer[c][p], Disconnected(c, p, cut)}
    BY <1>1
  <2>2. xfer[c][p] \in TransferRecord
    BY <1>2 DEF TypeOK
  <2>3. QED
    BY <1>2, <2>1, <2>2, DisconnectedStream
<1>4. xfer' \in [Clients -> [Nodes -> TransferRecord]]
  BY <1>1, <1>3
<1>5. \A c \in Clients : /\ SameCall(c) /\ call'[c].entry = call[c].entry
                         /\ call'[c].pc \in {call[c].pc, "gone"}
  BY <1>1 DEF SameCall
<1>6. call' \in [Clients -> CallRecord]
  BY <1>1, <1>2 DEF TypeOK
<1>7. QED
  BY <1>1, <1>3, <1>4, <1>5, <1>6, StreamsBreak

LEMMA CrashedStream ==
  ASSUME TypeOK, NEW c \in Clients, NEW p \in Nodes, NEW n \in Nodes
  PROVE  LET x == xfer[c][p]
             y == AfterCrash(c, p, n)
         IN  /\ y \in TransferRecord
             /\ y.pc \in {x.pc, "bad", "end"}
             /\ x.pc \in {"idle", "end"} => y.pc = x.pc
             /\ y.n = x.n /\ y.entry = x.entry
             /\ y.pc # "end" => y.src = x.src
             /\ y.want = x.want /\ y.res \in {x.res, "failed"}
<1> DEFINE x == xfer[c][p]
           failed == [x EXCEPT !.res = IF x.res = "none" THEN "failed" ELSE x.res]
           over == [failed EXCEPT !.pc = "end", !.src = NoFile]
           bad == [x EXCEPT !.pc = "bad"]
<1>1. x \in TransferRecord
  BY DEF TypeOK
<1>2. /\ failed \in TransferRecord /\ failed.pc = x.pc /\ failed.src = x.src
      /\ failed.n = x.n /\ failed.entry = x.entry
      /\ failed.want = x.want /\ failed.res \in {x.res, "failed"}
  <2>1. (IF x.res = "none" THEN "failed" ELSE x.res) \in {"none", "ok", "failed"}
    BY <1>1 DEF TransferRecord
  <2>2. QED
    BY <1>1, <2>1 DEF TransferRecord
<1>3. AfterCrash(c, p, n) \in {x, failed, over, bad}
  BY <1>1 DEF AfterCrash, TransferRecord
<1>4. x.pc \in {"idle", "end"} => AfterCrash(c, p, n) = x
  BY DEF AfterCrash
<1> HIDE DEF failed
<1>5. /\ over \in TransferRecord /\ over.pc = "end"
      /\ over.n = x.n /\ over.entry = x.entry
      /\ over.want = x.want /\ over.res = failed.res
  BY <1>2, NoFileType DEF TransferRecord
<1>6. /\ bad \in TransferRecord /\ bad.pc = "bad" /\ bad.src = x.src
      /\ bad.n = x.n /\ bad.entry = x.entry
      /\ bad.want = x.want /\ bad.res = x.res
  BY <1>1 DEF TransferRecord
<1> HIDE DEF over, bad
<1>7. QED
  BY <1>1, <1>2, <1>3, <1>4, <1>5, <1>6

LEMMA CrashOK ==
  ASSUME ServerInv, NEW n \in Nodes, Crash(n) PROVE ServerInv'
<1>1. /\ call' = [c \in Clients |->
           IF At[c] = n /\ call[c].pc # "idle" THEN [call[c] EXCEPT !.pc = "gone"] ELSE call[c]]
      /\ xfer' = [c \in Clients |-> [p \in Nodes |-> AfterCrash(c, p, n)]]
      /\ writer' = [s \in Shelves |->
           IF \E c \in Clients, p \in Nodes : writer[s] = <<c, p>> /\ xfer'[c][p].pc # "recv"
             THEN Nobody ELSE writer[s]]
      /\ UNCHANGED <<index, blob, history, confirmed>>
  BY DEF Crash
<1>2. TypeOK
  BY DEF ServerInv
<1>3. ASSUME NEW c \in Clients, NEW p \in Nodes
      PROVE  /\ xfer'[c][p] \in TransferRecord
             /\ xfer'[c][p].pc \in {xfer[c][p].pc, "bad", "end"}
             /\ xfer[c][p].pc \in {"idle", "end"} => xfer'[c][p].pc = xfer[c][p].pc
             /\ xfer'[c][p].n = xfer[c][p].n /\ xfer'[c][p].entry = xfer[c][p].entry
             /\ xfer'[c][p].pc \in Live => xfer'[c][p].src = xfer[c][p].src
  <2>1. xfer'[c][p] = AfterCrash(c, p, n)
    BY <1>1
  <2>2. QED
    BY <1>2, <2>1, CrashedStream DEF Live
<1>4. xfer' \in [Clients -> [Nodes -> TransferRecord]]
  BY <1>1, <1>3
<1>5. ASSUME NEW c \in Clients
      PROVE  /\ SameCall(c) /\ call'[c].entry = call[c].entry
             /\ call'[c].pc \in {call[c].pc, "gone"}
             /\ call'[c] \in CallRecord
  <2>1. call[c] \in CallRecord
    BY <1>2 DEF TypeOK
  <2>2. call'[c] \in {call[c], [call[c] EXCEPT !.pc = "gone"]}
    BY <1>1
  <2>3. QED
    BY <2>1, <2>2 DEF CallRecord, SameCall
<1>6. call' \in [Clients -> CallRecord]
  BY <1>1, <1>5
<1>7. /\ writer' = [s \in Shelves |->
           IF \E c \in Clients, p \in Nodes : writer[s] = <<c, p>> /\ xfer'[c][p].pc # "recv"
             THEN Nobody ELSE writer[s]]
      /\ UNCHANGED <<index, blob, history, confirmed>>
  BY <1>1
<1>8. QED
  BY <1>3, <1>4, <1>5, <1>6, <1>7, StreamsBreak

-----------------------------------------------------------------------------
(* The invariant, and what it gives.                                       *)
(***************************************************************************)
LEMMA ServerInvInit ==
  ASSUME Init PROVE ServerInv
<1>1. /\ index \in [Shelves -> [latest : IdOrNone, versions : Seq(Entry)]]
      /\ \A s \in Shelves : Listed(s) = {}
  BY EmptyIndexType DEF Init, Index, Listed, Entries
<1>2. TypeOK
  <2>1. blob \in [Shelves -> [VersionIDs -> Blob \cup {NoBlob}]]
    BY DEF Init
  <2>2. writer \in [Shelves -> (Clients \X Nodes) \cup {Nobody}]
    BY DEF Init
  <2>3. call \in [Clients -> CallRecord]
    BY NoCallType DEF Init
  <2>4. xfer \in [Clients -> [Nodes -> TransferRecord]]
    BY NoTransferType DEF Init
  <2>5. history \in [Files -> SUBSET Entry] /\ confirmed \subseteq Shelves \X VersionIDs
    BY DEF Init
  <2>6. QED
    BY <1>1, <2>1, <2>2, <2>3, <2>4, <2>5 DEF TypeOK
<1>3. ReplicasAgree
  BY <1>1 DEF ReplicasAgree
<1>4. OwnersKeyOnly
  BY DEF Init, OwnersKeyOnly
<1>5. \A c \in Clients : CallOK(c)
  BY NoCallType DEF Init, CallOK
<1>6. ASSUME NEW c \in Clients, NEW p \in Nodes PROVE TransferOK(c, p)
  <2>1. xfer[c][p].pc = "idle"
    BY NoTransferType DEF Init
  <2>2. \A s \in Shelves : writer[s] # <<c, p>>
    BY FileServerAssumption DEF Init
  <2>3. QED
    BY <2>1, <2>2 DEF TransferOK, LockOK, ArrivingOK, Live
<1>7. QED
  BY <1>2, <1>3, <1>4, <1>5, <1>6 DEF ServerInv

LEMMA ServerInvStep ==
  ASSUME ServerInv, [Next]_vars PROVE ServerInv'
<1>1. ASSUME NEW c \in Clients, Begin(c) PROVE ServerInv'
  BY <1>1, StoreVersionOK, ShareOK, StoreLocalOK, DeleteOK, GetVersionOK, DisconnectOK DEF Begin
<1>2. ASSUME NEW c \in Clients, Proceed(c) PROVE ServerInv'
  BY <1>2, ShareOK, ReadHereOK, TryOK, FetchedOK, FanDoneOK, ForgetOK DEF Proceed
<1>3. ASSUME NEW c \in Clients, NEW p \in Nodes, Transfer(c, p) PROVE ServerInv'
  BY <1>3, OpenLocalOK, VersionInfoOK, ReadVersionRawOK, ReceiveOK, BlockOK, FinishBodyOK,
     CheckCountOK, AnsweredOK DEF Transfer
<1>4. ASSUME NEW c \in Clients, NEW p \in Nodes, GiveUp(c, p) \/ Break(c, p) PROVE ServerInv'
  BY <1>4, GiveUpOK, BreakOK
<1>5. CASE UNCHANGED vars
  <2>1. UNCHANGED <<index, blob, writer, call, xfer, history, confirmed>>
    BY <1>5 DEF vars
  <2>2. TypeOK' /\ ReplicasAgree' /\ OwnersKeyOnly' /\ \A c \in Clients : CallOK(c)'
    BY <2>1 DEF ServerInv, TypeOK, ReplicasAgree, Listed, OwnersKeyOnly, CallOK, OfFile
  <2>3. ASSUME NEW c \in Clients, NEW p \in Nodes PROVE TransferOK(c, p)'
    <3>1. TransferOK(c, p)
      BY DEF ServerInv
    <3>2. QED
      BY <2>1, <3>1 DEF TransferOK, LockOK, ArrivingOK, SourceOK, OfFile, Into, Own, Pushing
  <2>4. QED
    BY <2>2, <2>3 DEF ServerInv
<1>6. QED
  BY <1>1, <1>2, <1>3, <1>4, <1>5, CrashOK DEF Next

LEMMA ServerInvHolds == Spec => []ServerInv
BY ServerInvInit, ServerInvStep, PTL DEF Spec

\* Calls, streams and handlers hold what the code's types allow, for any nodes,
\* clients, calls and faults.
THEOREM ServerTypeCorrect == Spec => []TypeOK
<1>1. ServerInv => TypeOK
  BY DEF ServerInv
<1>2. QED
  BY <1>1, ServerInvHolds, PTL

\* A key's lock on a node is held exactly while a body arrives into its shelf
\* and by that transfer: whatever breaks off, times out or crashes between
\* WriteVersionRaw's Lock and its deferred Unlock, no key stays locked.
THEOREM LocksAreOwned == Spec => []LocksOwned
<1>1. ServerInv => LocksOwned
  BY DEF ServerInv, TransferOK, LockOK, LocksOwned
<1>2. QED
  BY <1>1, ServerInvHolds, PTL

\* The entries that handleStore and fetchBlob save, and those that handleShare
\* makes, are entries their owner's WriteVersion made: no interleaving of puts,
\* gets, shares, deletes, prunes and broken streams gives a version another
\* number or size on some node.
THEOREM ReplicasStayInAgreement == Spec => []ReplicasAgree
<1>1. ServerInv => ReplicasAgree
  BY DEF ServerInv
<1>2. QED
  BY <1>1, ServerInvHolds, PTL

\* Every blob under a node's name is encrypted under that node's key, on its own
\* disk and on its custodians', for raw pushes (sendBlob), restored blobs
\* (fetchBlob) and shares re-encrypted by their recipient (handleShare).
THEOREM BlobsUnderOwnersKey == Spec => []OwnersKeyOnly
<1>1. ServerInv => OwnersKeyOnly
  BY DEF ServerInv
<1>2. QED
  BY <1>1, ServerInvHolds, PTL
=============================================================================
