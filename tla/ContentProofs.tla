---------------------------- MODULE ContentProofs -----------------------------
(***************************************************************************)
(* Theorems about FileServer: which content travels.  They hold when, at   *)
(* each node, no client fetches the latest version of a file while another *)
(* puts: else a GetResponse may describe one version and carry another's   *)
(* blob (run ServerMeta), and what is restored that way can be fetched by  *)
(* name, or shared, later.  Gets that name a version are not restricted.   *)
(*                                                                         *)
(* ContentInv says which version every source, blob and body has the       *)
(* content of, from the moment it is opened or begun.                      *)
(***************************************************************************)
EXTENDS FileServerProofs

\* At one node, a client that puts and one that fetches the latest are the same.
LatestTakesTurns ==
    \A c, d \in Clients :
        At[c] = At[d] /\ "put" \in Ops[c] /\ "getLatest" \in Ops[d] => c = d
\* At one node, a client that puts and a client that gets are the same one (that is
\* what the theorems of CustodyProofs need).
TakesTurns ==
    \A c, d \in Clients :
        At[c] = At[d] /\ "put" \in Ops[c] /\ Ops[d] \cap {"get", "getLatest"} # {} => c = d

LEMMA TurnsTaken == TakesTurns => LatestTakesTurns
BY DEF TakesTurns, LatestTakesTurns

\* A version id belongs to one entry of one file.
IdsUnique ==
    \A f, g \in Files : \A d \in history[f], e \in history[g] : d.id = e.id => f = g /\ d = e
\* A blob under a version's id has that version's content.
ContentsOK ==
    \A s \in Shelves : \A e \in history[FileOf(s)] :
        blob[s][e.id] # NoBlob => blob[s][e.id].of = e.data.of

CallTurns(c) ==
    /\ call[c].pc \in {"idle", "stored"} => call[c].op = "none"
    /\ call[c].pc \in {"here", "try", "fetch"} => call[c].op = "get"
    /\ call[c].pc \in {"stored", "try", "fetch"} => At[c] \notin call[c].left
    /\ call[c].op = "put" => "put" \in Ops[c]
    /\ call[c].op = "get" => Ops[c] \cap {"get", "getLatest"} # {}
    /\ call[c].op = "get" /\ call[c].id = NoVersion => "getLatest" \in Ops[c]

\* The shelf a get is answered from.
Asked(c, p) == <<p, At[c], call[c].key>>
\* A get of the latest version is between its handler's two look-ups.
LatestAsked(c, p) == xfer[c][p].pc = "info" /\ call[c].id = NoVersion
\* The id of a body that its receiver has just drawn: nobody else's.
Unclaimed(c, p) ==
    LET id == xfer[c][p].entry.id
    IN  /\ \A f \in Files : \A e \in history[f] : e.id # id
        /\ \A s \in Shelves : s # Into(c, p) => blob[s][id] = NoBlob
\* The open source is version e, by its name or by its content.
SourceNames(c, p, e) ==
    LET f == xfer[c][p].src
    IN  /\ f.id = NoVersion => f.data.of = e.data.of
        /\ f.id # NoVersion => f.id = e.id /\ FileOf(f.shelf) = <<At[c], call[c].key>>
\* What has come of it is right.
SourceIs(c, p, e) ==
    LET x == xfer[c][p]
    IN  /\ SourceNames(c, p, e)
        /\ call[c].op # "share" => x.entry = e
        /\ call[c].op # "put" => call[c].id \in {NoVersion, e.id}
        /\ call[c].op = "share" =>
             /\ x.want = e.data.n
             /\ x.pc = "recv" => blob[Into(c, p)][x.entry.id].of = e.data.of
             /\ x.pc \in {"check", "good"} => x.entry.data = [of |-> e.data.of, n |-> x.n]
\* What a reported placement is, while its call lasts.
Placed(c, p) ==
    LET x == xfer[c][p]
    IN  /\ x.entry \in history[<<p, call[c].dest>>]
        /\ \E e \in OfFile(c) : e.data = x.entry.data /\ call[c].id \in {NoVersion, e.id}
TransferTurns(c, p) ==
    LET x == xfer[c][p]
    IN  /\ x.pc # "idle" => p # At[c]
        /\ x.pc \notin {"idle", "end"} => call[c].op # "none"
        /\ x.res = "ok" => x.pc = "end"
        /\ x.pc = "info" => call[c].id \in {NoVersion, x.entry.id}
        /\ LatestAsked(c, p) => x.entry = resolveVersion(index[Asked(c, p)], NoVersion)
        /\ x.pc \in Live => \E e \in OfFile(c) : SourceIs(c, p, e)
        /\ x.pc = "good" => x.n = x.want
        /\ x.pc = "recv" /\ call[c].op = "share" => Unclaimed(c, p)
        /\ x.pc \in {"check", "good"} /\ call[c].op = "share" =>
             x.entry \in history[<<p, call[c].dest>>]
        /\ call[c].op = "share" /\ x.res = "ok" => Placed(c, p)

ContentInv == /\ IdsUnique
              /\ ContentsOK
              /\ \A c \in Clients : CallTurns(c)
              /\ \A c \in Clients, p \in Nodes : TransferTurns(c, p)

-----------------------------------------------------------------------------
(* What a step leaves of the transfers it is not about.                    *)
(***************************************************************************)
\* The step gives blobs and entries to no other id than j.
AddsOnly(j) ==
    /\ \A s \in Shelves, id \in VersionIDs :
         blob'[s][id] # NoBlob => blob[s][id] # NoBlob \/ id = j
    /\ \A f \in Files : \A e \in history'[f] : e \in history[f] \/ e.id = j
\* An open source is still the file it was, by its name or without it.
SourceStays(c, p) ==
    LET f == xfer[c][p].src
    IN  \/ xfer'[c][p].src = f
        \/ /\ f.id \in VersionIDs
           /\ xfer'[c][p].src = [NoFile EXCEPT !.data = blob[f.shelf][f.id]]
\* Transfer (c, p) goes on as it was, breaks or ends.
Passes(c, p, j) ==
    LET x == xfer[c][p]
        y == xfer'[c][p]
    IN  /\ SameCall(c) /\ call'[c].id = call[c].id
        /\ y.pc \in {x.pc, "bad", "end"}
        /\ x.pc \in {"idle", "end"} => y.pc = x.pc
        /\ y.entry = x.entry /\ y.n = x.n /\ y.want = x.want
        /\ y.res = "ok" => x.res = "ok"
        /\ y.pc \in Live => SourceStays(c, p)
        /\ LatestAsked(c, p)' => index'[Asked(c, p)] = index[Asked(c, p)]
        /\ y.pc = "recv" /\ call[c].op = "share" =>
             /\ x.entry.id # j
             /\ blob'[Into(c, p)][x.entry.id].of = blob[Into(c, p)][x.entry.id].of

LEMMA DetachedStays ==
  ASSUME TypeOK,
         NEW next \in [Clients -> [Nodes -> TransferRecord]],
         NEW s \in Shelves, NEW ids \in SUBSET VersionIDs,
         xfer' = AfterDetach(next, s, ids),
         NEW c \in Clients, NEW p \in Nodes, next[c][p].src = xfer[c][p].src
  PROVE  SourceStays(c, p)
<1> DEFINE f == xfer[c][p].src
<1>1. xfer'[c][p] = Detached(next[c][p], s, ids)
  BY DEF AfterDetach
<1>2. next[c][p] \in TransferRecord
  OBVIOUS
<1>3. CASE f.id \in ids /\ f.shelf = s
  <2>1. xfer'[c][p].src = [NoFile EXCEPT !.data = blob[f.shelf][f.id]]
    BY <1>1, <1>2, <1>3 DEF Detached, TransferRecord
  <2>2. f.id \in VersionIDs
    BY <1>3
  <2>3. QED
    BY <2>1, <2>2 DEF SourceStays
<1>4. CASE ~(f.id \in ids /\ f.shelf = s)
  <2>1. xfer'[c][p].src = f
    BY <1>1, <1>4 DEF Detached
  <2>2. QED
    BY <2>1 DEF SourceStays
<1>5. QED
  BY <1>3, <1>4

LEMMA UnclaimedStays ==
  ASSUME TypeOK, NEW j, AddsOnly(j), NEW c \in Clients, NEW p \in Nodes, SameCall(c),
         xfer'[c][p].entry = xfer[c][p].entry, xfer[c][p].entry.id # j,
         xfer[c][p].entry.id \in VersionIDs, Unclaimed(c, p)
  PROVE  Unclaimed(c, p)'
<1>1. Into(c, p)' = Into(c, p)
  BY SameInto
<1>2. QED
  BY <1>1 DEF Unclaimed, AddsOnly

\* What the content of a source is.
LEMMA SourceContent ==
  ASSUME ServerInv, ContentsOK, NEW c \in Clients, NEW p \in Nodes,
         xfer[c][p].pc \in Live, NEW e \in OfFile(c), SourceNames(c, p, e)
  PROVE  Body(xfer[c][p].src).of = e.data.of
<1> DEFINE f == xfer[c][p].src
<1>1. SourceOK(c, f) /\ f \in File
  BY LiveTransfer
<1>2. CASE f.id = NoVersion
  BY <1>2 DEF SourceNames, Body
<1>3. CASE f.id # NoVersion
  <2>1. f.id = e.id /\ FileOf(f.shelf) = <<At[c], call[c].key>>
    BY <1>3 DEF SourceNames
  <2>2. f.shelf \in Shelves /\ blob[f.shelf][f.id] # NoBlob
    BY <1>1, <1>3 DEF SourceOK
  <2>3. blob[f.shelf][e.id].of = e.data.of
    BY <2>1, <2>2 DEF ContentsOK, OfFile
  <2>4. QED
    BY <1>3, <2>1, <2>3 DEF Body
<1>4. QED
  BY <1>2, <1>3

LEMMA NamesStay ==
  ASSUME ServerInv, ContentsOK, NEW c \in Clients, NEW p \in Nodes, SameCall(c),
         xfer[c][p].pc \in Live, SourceStays(c, p), NEW e \in OfFile(c), SourceNames(c, p, e)
  PROVE  SourceNames(c, p, e)'
<1> DEFINE f == xfer[c][p].src
           g == xfer'[c][p].src
<1>1. CASE g = f
  BY <1>1 DEF SourceNames, SameCall
<1>2. CASE f.id \in VersionIDs /\ g = [NoFile EXCEPT !.data = blob[f.shelf][f.id]]
  <2>1. g.id = NoVersion /\ g.data = blob[f.shelf][f.id]
    BY <1>2, NoFileType DEF NoFile
  <2>2. Body(f) = blob[f.shelf][f.id]
    BY <1>2, NoVersionAssumption DEF Body
  <2>3. Body(f).of = e.data.of
    BY SourceContent
  <2>4. QED
    BY <2>1, <2>2, <2>3 DEF SourceNames
<1>3. QED
  BY <1>1, <1>2 DEF SourceStays

LEMMA SourceIsStays ==
  ASSUME ServerInv, ContentsOK, NEW c \in Clients, NEW p \in Nodes, NEW j, Passes(c, p, j),
         xfer'[c][p].pc \in Live, NEW e \in OfFile(c), SourceIs(c, p, e)
  PROVE  SourceIs(c, p, e)'
<1> DEFINE x == xfer[c][p]
           y == xfer'[c][p]
<1>1. y.pc = x.pc
  BY DEF Passes, Live
<1>2. SourceStays(c, p) /\ SameCall(c) /\ Into(c, p)' = Into(c, p) /\ call'[c].id = call[c].id
  BY SameInto DEF Passes
<1>3. SourceNames(c, p, e)'
  BY <1>1, <1>2, NamesStay DEF SourceIs
<1>4. /\ call'[c].op # "share" => y.entry = e
      /\ call'[c].op # "put" => call'[c].id \in {NoVersion, e.id}
  BY <1>2 DEF SourceIs, SameCall, Passes
<1>5. call'[c].op = "share" =>
        /\ y.want = e.data.n
        /\ y.pc = "recv" => blob'[Into(c, p)'][y.entry.id].of = e.data.of
        /\ y.pc \in {"check", "good"} => y.entry.data = [of |-> e.data.of, n |-> y.n]
  BY <1>1, <1>2 DEF SourceIs, SameCall, Passes
<1>6. QED
  BY <1>3, <1>4, <1>5 DEF SourceIs

LEMMA PlacedStays ==
  ASSUME TypeOK, NEW c \in Clients, NEW p \in Nodes, SameCall(c), call'[c].id = call[c].id,
         xfer'[c][p].entry = xfer[c][p].entry, Entitled, Placed(c, p)
  PROVE  Placed(c, p)'
<1>1. <<p, call[c].dest>> \in Files /\ OfFile(c) \subseteq OfFile(c)'
  BY FileOfCall DEF TypeOK, CallRecord, Files, OfFile, Entitled, SameCall
<1>2. QED
  BY <1>1 DEF Placed, Entitled, SameCall

LEMMA PassedTurns ==
  ASSUME ServerInv, ContentsOK, NEW j, AddsOnly(j), Entitled,
         NEW c \in Clients, NEW p \in Nodes, TransferTurns(c, p), Passes(c, p, j)
  PROVE  TransferTurns(c, p)'
<1> DEFINE x == xfer[c][p]
           y == xfer'[c][p]
<1>1. TypeOK /\ TransferOK(c, p)
  BY DEF ServerInv
<1>2. SameCall(c) /\ call'[c].id = call[c].id /\ Into(c, p)' = Into(c, p)
  BY SameInto DEF Passes
<1>3. OfFile(c) \subseteq OfFile(c)'
  BY <1>1, <1>2, FileOfCall DEF OfFile, Entitled, SameCall
<1>4. /\ y.pc # "idle" => p # At[c]
      /\ y.pc \notin {"idle", "end"} => call'[c].op # "none"
      /\ y.res = "ok" => y.pc = "end"
  BY <1>2 DEF TransferTurns, Passes, SameCall
<1>5. /\ y.pc = "info" => call'[c].id \in {NoVersion, y.entry.id}
      /\ LatestAsked(c, p)' => y.entry = resolveVersion(index'[Asked(c, p)'], NoVersion)
  <2>1. Asked(c, p)' = Asked(c, p)
    BY <1>2 DEF Asked, SameCall
  <2>2. LatestAsked(c, p)' => LatestAsked(c, p)
    BY <1>2 DEF LatestAsked, Passes
  <2>3. y.pc = "info" => call'[c].id \in {NoVersion, y.entry.id}
    BY <1>2 DEF TransferTurns, Passes
  <2>4. QED
    BY <1>2, <2>1, <2>2, <2>3 DEF TransferTurns, Passes
<1>6. y.pc \in Live => \E e \in OfFile(c)' : SourceIs(c, p, e)'
  <2> HAVE y.pc \in Live
  <2>1. x.pc \in Live
    BY DEF Passes, Live
  <2>2. PICK e \in OfFile(c) : SourceIs(c, p, e)
    BY <2>1 DEF TransferTurns
  <2>3. SourceIs(c, p, e)'
    BY <2>2, SourceIsStays
  <2>4. QED
    BY <1>3, <2>3
<1>7. y.pc = "good" => y.n = y.want
  BY DEF TransferTurns, Passes
<1>8. y.pc = "recv" /\ call'[c].op = "share" => Unclaimed(c, p)'
  <2> HAVE y.pc = "recv" /\ call'[c].op = "share"
  <2>1. x.pc = "recv" /\ call[c].op = "share" /\ x.entry.id # j /\ y.entry = x.entry
    BY <1>2 DEF Passes, SameCall
  <2>2. x.entry.id \in VersionIDs /\ Unclaimed(c, p)
    BY <1>1, <2>1 DEF TransferOK, ArrivingOK, TransferTurns
  <2>3. QED
    BY <1>1, <1>2, <2>1, <2>2, UnclaimedStays
<1>9. y.pc \in {"check", "good"} /\ call'[c].op = "share" =>
        y.entry \in history'[<<p, call'[c].dest>>]
  <2>1. <<p, call[c].dest>> \in Files
    BY <1>1 DEF TypeOK, CallRecord, Files
  <2>2. QED
    BY <1>2, <2>1 DEF TransferTurns, Passes, SameCall, Entitled
<1>10. call'[c].op = "share" /\ y.res = "ok" => Placed(c, p)'
  BY <1>1, <1>2, PlacedStays DEF TransferTurns, Passes, SameCall
<1>11. QED
  BY <1>4, <1>5, <1>6, <1>7, <1>8, <1>9, <1>10 DEF TransferTurns

LEMMA ContentStep ==
  ASSUME ServerInv, ContentInv, NEW j, AddsOnly(j), Entitled, IdsUnique', ContentsOK',
         \A c \in Clients : CallTurns(c)',
         \A c \in Clients, p \in Nodes : Passes(c, p, j) \/ TransferTurns(c, p)'
  PROVE  ContentInv'
<1>1. ASSUME NEW c \in Clients, NEW p \in Nodes, Passes(c, p, j) PROVE TransferTurns(c, p)'
  BY <1>1, PassedTurns DEF ContentInv
<1>2. QED
  BY <1>1 DEF ContentInv

\* A step that adds no entry and no blob.
LEMMA NothingAdded ==
  ASSUME IdsUnique, ContentsOK, UNCHANGED history,
         \A s \in Shelves, id \in VersionIDs : blob'[s][id] \in {blob[s][id], NoBlob},
         TypeOK
  PROVE  AddsOnly(NoVersion) /\ Entitled /\ IdsUnique' /\ ContentsOK'
<1>1. AddsOnly(NoVersion) /\ Entitled /\ IdsUnique'
  BY DEF AddsOnly, Entitled, IdsUnique
<1>2. \A s \in Shelves : \A e \in history[FileOf(s)] : e.id \in VersionIDs
  BY IndexTyped, EntryTypes
<1>3. ContentsOK'
  BY <1>2 DEF ContentsOK
<1>4. QED
  BY <1>1, <1>3

-----------------------------------------------------------------------------
(* Transfers that a step passes by.                                        *)
(***************************************************************************)
\* A body that arrives has an id, and a file it came from.
LEMMA ArrivingId ==
  ASSUME ServerInv, NEW c \in Clients, NEW p \in Nodes, xfer[c][p].pc = "recv"
  PROVE  /\ xfer[c][p].entry.id \in VersionIDs /\ xfer[c][p].entry.id # NoVersion
         /\ blob[Into(c, p)][xfer[c][p].entry.id] # NoBlob
         /\ Into(c, p) \in Shelves /\ writer[Into(c, p)] = <<c, p>>
<1>1. TypeOK /\ TransferOK(c, p)
  BY DEF ServerInv
<1>2. Into(c, p) \in Shelves
  BY <1>1, IntoShelf
<1>3. QED
  BY <1>1, <1>2, NoVersionAssumption DEF TransferOK, ArrivingOK, LockOK

\* A step that leaves the disks as they are, and this transfer as it was or broken.
LEMMA DiskPasses ==
  ASSUME ServerInv, NEW c \in Clients, NEW p \in Nodes,
         UNCHANGED <<index, blob>>, SameCall(c), call'[c].id = call[c].id,
         xfer'[c][p].pc \in {xfer[c][p].pc, "bad", "end"},
         xfer[c][p].pc \in {"idle", "end"} => xfer'[c][p].pc = xfer[c][p].pc,
         xfer'[c][p].entry = xfer[c][p].entry, xfer'[c][p].n = xfer[c][p].n,
         xfer'[c][p].want = xfer[c][p].want,
         xfer'[c][p].res = "ok" => xfer[c][p].res = "ok",
         xfer'[c][p].pc \in Live => xfer'[c][p].src = xfer[c][p].src
  PROVE  Passes(c, p, NoVersion)
<1>1. xfer'[c][p].pc \in Live => SourceStays(c, p)
  BY DEF SourceStays
<1>2. xfer'[c][p].pc = "recv" => xfer[c][p].entry.id # NoVersion
  BY ArrivingId
<1>3. QED
  BY <1>1, <1>2 DEF Passes

\* A step at one shelf, that this transfer does not receive into.
LEMMA ShelfPasses ==
  ASSUME ServerInv, NEW c \in Clients, NEW p \in Nodes, NEW j, NEW s \in Shelves,
         \A t \in Shelves : t # s => index'[t] = index[t] /\ blob'[t] = blob[t],
         writer[s] # <<c, p>>, call'[c] = call[c],
         xfer'[c][p].pc = xfer[c][p].pc,
         xfer'[c][p].entry = xfer[c][p].entry, xfer'[c][p].n = xfer[c][p].n,
         xfer'[c][p].want = xfer[c][p].want, xfer'[c][p].res = xfer[c][p].res,
         SourceStays(c, p),
         LatestAsked(c, p) => index'[s] = index[s] \/ s # Asked(c, p),
         xfer[c][p].pc = "recv" /\ call[c].op = "share" => xfer[c][p].entry.id # j
  PROVE  Passes(c, p, j)
<1>1. SameCall(c) /\ call'[c].id = call[c].id
  BY DEF SameCall
<1>2. Asked(c, p) \in Shelves
  BY PeerShelf DEF ServerInv, Asked
<1>3. LatestAsked(c, p)' => index'[Asked(c, p)] = index[Asked(c, p)]
  BY <1>2 DEF LatestAsked
<1>4. xfer[c][p].pc = "recv" => blob'[Into(c, p)] = blob[Into(c, p)]
  <2> HAVE xfer[c][p].pc = "recv"
  <2>1. Into(c, p) \in Shelves /\ Into(c, p) # s
    BY ArrivingId
  <2>2. QED
    BY <2>1
<1>5. QED
  BY <1>1, <1>3, <1>4 DEF Passes

\* Nobody fills the shelf that a get of the latest is being answered from, but its
\* node's own puts: LatestTakesTurns.
LEMMA NotAsked ==
  ASSUME LatestTakesTurns, ServerInv, ContentInv, NEW c \in Clients, NEW p \in Nodes,
         xfer[c][p].pc \notin {"idle", "end"},
         NEW d \in Clients, NEW q \in Nodes, LatestAsked(d, q)
  PROVE  Into(c, p) # Asked(d, q)
<1>1. /\ CallTurns(c) /\ CallTurns(d) /\ TransferTurns(c, p) /\ TransferTurns(d, q)
      /\ TransferOK(d, q) /\ TypeOK
  BY DEF ContentInv, ServerInv
<1>2. call[d].op = "get" /\ call[d].id = NoVersion /\ q # At[d]
  BY <1>1 DEF TransferTurns, TransferOK, Pushing, Pushes, TypeOK, CallRecord, LatestAsked
<1>3. "getLatest" \in Ops[d]
  BY <1>1, <1>2 DEF CallTurns
<1>4. p # At[c]
  BY <1>1 DEF TransferTurns
<1>5. CASE call[c].op = "put"
  <2>1. "put" \in Ops[c] /\ c # d
    BY <1>1, <1>2, <1>5 DEF CallTurns
  <2>2. At[c] # At[d]
    BY <1>3, <2>1 DEF LatestTakesTurns
  <2>3. QED
    BY <1>1, <1>5, <2>2, IntoShelf DEF Asked
<1>6. CASE call[c].op = "share"
  BY <1>1, <1>2, <1>6, IntoShelf DEF Asked
<1>7. CASE call[c].op \notin Pushes
  BY <1>1, <1>2, <1>4, <1>7, IntoShelf DEF Asked, Own
<1>8. QED
  BY <1>5, <1>6, <1>7 DEF Pushes

LEMMA OwnNotAsked ==
  ASSUME ServerInv, ContentInv, NEW c \in Clients, NEW k \in Keys,
         NEW d \in Clients, NEW q \in Nodes, LatestAsked(d, q)
  PROVE  Own(c, k) # Asked(d, q)
<1>1. q # At[d]
  BY DEF ContentInv, TransferTurns, LatestAsked
<1>2. QED
  BY <1>1 DEF Own, Asked

\* Steps that leave the disks alone.
LEMMA DiskContent ==
  ASSUME ServerInv, ContentInv, UNCHANGED <<index, blob, history>>,
         \A c \in Clients : call'[c] = call[c] \/ CallTurns(c)',
         \A c \in Clients, p \in Nodes :
           \/ call'[c] = call[c] /\ xfer'[c][p] = xfer[c][p]
           \/ Passes(c, p, NoVersion)
           \/ TransferTurns(c, p)'
  PROVE  ContentInv'
<1>1. AddsOnly(NoVersion) /\ Entitled /\ IdsUnique' /\ ContentsOK'
  BY NothingAdded DEF ServerInv, ContentInv
<1>2. ASSUME NEW c \in Clients PROVE CallTurns(c)'
  <2>1. CASE call'[c] = call[c]
    BY <2>1 DEF ContentInv, CallTurns
  <2>2. QED
    BY <2>1
<1>3. ASSUME NEW c \in Clients, NEW p \in Nodes
      PROVE  Passes(c, p, NoVersion) \/ TransferTurns(c, p)'
  <2>1. CASE call'[c] = call[c] /\ xfer'[c][p] = xfer[c][p]
    <3>1. SameCall(c)
      BY <2>1 DEF SameCall
    <3>2. QED
      BY <2>1, <3>1, DiskPasses
  <2>2. QED
    BY <2>1
<1>4. QED
  BY <1>1, <1>2, <1>3, ContentStep

-----------------------------------------------------------------------------
(* The steps of a client's call.                                           *)
(***************************************************************************)
\* A call whose streams have all ended, and that may open new ones.
LEMMA CallContent ==
  ASSUME ServerInv, ContentInv, NEW c \in Clients, UNCHANGED <<index, blob, history>>,
         \A d \in Clients : d # c => call'[d] = call[d] /\ xfer'[d] = xfer[d],
         CallTurns(c)', \A p \in Nodes : TransferTurns(c, p)'
  PROVE  ContentInv'
<1>1. \A d \in Clients : call'[d] = call[d] \/ CallTurns(d)'
  OBVIOUS
<1>2. \A d \in Clients, q \in Nodes :
        (call'[d] = call[d] /\ xfer'[d][q] = xfer[d][q]) \/ TransferTurns(d, q)'
  OBVIOUS
<1>3. QED
  BY <1>1, <1>2, DiskContent

\* A transfer that has just been asked for, or was not.
LEMMA NewTransfer ==
  ASSUME NEW c \in Clients, NEW p \in Nodes,
         \/ xfer'[c][p] = NoTransfer
         \/ xfer'[c][p] = Opening /\ p # At[c] /\ call'[c].op # "none"
  PROVE  TransferTurns(c, p)'
<1>1. CASE xfer'[c][p] = NoTransfer
  BY <1>1 DEF TransferTurns, LatestAsked, Live, NoTransfer
<1>2. CASE xfer'[c][p] = Opening /\ p # At[c] /\ call'[c].op # "none"
  BY <1>2 DEF TransferTurns, LatestAsked, Live, Opening, NoTransfer
<1>3. QED
  BY <1>1, <1>2

\* One that is over, of a call that is no share.
LEMMA OverTransfer ==
  ASSUME NEW c \in Clients, NEW p \in Nodes, TransferTurns(c, p),
         xfer'[c][p] = xfer[c][p], xfer[c][p].pc \in {"idle", "end"},
         call'[c].op # "share"
  PROVE  TransferTurns(c, p)'
BY DEF TransferTurns, LatestAsked, Live

LEMMA TargetsElsewhere ==
  ASSUME NEW c \in Clients, NEW P \in Targets(c)
  PROVE  P \subseteq Nodes \ {At[c]}
<1>1. PICK Q \in Peers(At[c]) : P \subseteq Q
  BY DEF Targets
<1>2. At[c] \in Nodes
  BY FileServerAssumption
<1>3. QED
  BY <1>1, <1>2, PeersAreNodes

LEMMA ShareToTurns ==
  ASSUME ServerInv, ContentInv, NEW c \in Clients, call[c].pc \in {"idle", "stored"},
         NEW k \in Keys, NEW dest \in Keys, NEW id \in IdOrNone, NEW targets,
         At[c] \notin targets, ShareTo(c, k, dest, id, targets)
  PROVE  ContentInv'
<1>1. TypeOK /\ CallTurns(c) /\ call[c].op = "none"
  BY DEF ServerInv, ContentInv, CallTurns
<1>2. CASE index[Own(c, k)].latest # NoVersion
  <2>1. /\ xfer' = Fan(c, targets)
        /\ call' = [call EXCEPT ![c].pc = "fan", ![c].op = "share", ![c].key = k,
                                ![c].dest = dest, ![c].id = id, ![c].left = {}]
        /\ UNCHANGED <<index, blob, history>>
    BY <1>2 DEF ShareTo
  <2>2. /\ call'[c].op = "share" /\ call'[c].pc = "fan"
        /\ \A d \in Clients : d # c => call'[d] = call[d]
    BY <1>1, <2>1 DEF TypeOK, CallRecord
  <2>3. /\ \A d \in Clients : d # c => xfer'[d] = xfer[d]
        /\ \A p \in Nodes : xfer'[c][p] = IF p \in targets THEN Opening ELSE NoTransfer
    BY <1>1, <2>1 DEF Fan, TypeOK
  <2>4. CallTurns(c)'
    BY <2>2 DEF CallTurns
  <2>5. \A p \in Nodes : TransferTurns(c, p)'
    BY <2>2, <2>3, NewTransfer
  <2>6. QED
    BY <2>1, <2>2, <2>3, <2>4, <2>5, CallContent
<1>3. CASE index[Own(c, k)].latest = NoVersion
  <2>1. /\ call' = [call EXCEPT ![c].pc = "returned"]
        /\ UNCHANGED <<index, blob, xfer, history>>
    BY <1>3 DEF ShareTo
  <2>2. /\ call'[c].op = "none" /\ call'[c].pc = "returned"
        /\ \A d \in Clients : d # c => call'[d] = call[d]
    BY <1>1, <2>1 DEF TypeOK, CallRecord
  <2>3. CallTurns(c)'
    BY <2>2 DEF CallTurns
  <2>4. \A p \in Nodes : xfer[c][p].pc \in {"idle", "end"} /\ TransferTurns(c, p)
    BY RestingTransfers DEF Resting, ContentInv
  <2>5. \A p \in Nodes : TransferTurns(c, p)'
    BY <2>1, <2>2, <2>4, OverTransfer
  <2>6. QED
    BY <2>1, <2>2, <2>3, <2>5, CallContent
<1>4. QED
  BY <1>2, <1>3

LEMMA ShareTurns ==
  ASSUME ServerInv, ContentInv, NEW c \in Clients, Share(c) \/ ShareStored(c) PROVE ContentInv'
<1>1. CASE Share(c)
  <2>1. PICK k \in Keys, dest \in Keys, id \in IdOrNone, targets \in Targets(c) :
          call[c].pc = "idle" /\ ShareTo(c, k, dest, id, targets)
    BY <1>1 DEF Share, Idle
  <2>2. At[c] \notin targets
    BY TargetsElsewhere
  <2>3. QED
    BY <2>1, <2>2, ShareToTurns
<1>2. CASE ShareStored(c)
  <2>1. call[c].key \in Keys /\ At[c] \notin call[c].left
    BY <1>2 DEF ServerInv, TypeOK, CallRecord, ShareStored, ContentInv, CallTurns
  <2>2. QED
    BY <1>2, <2>1, ShareToTurns DEF ShareStored
<1>3. QED
  BY <1>1, <1>2

LEMMA GetVersionTurns ==
  ASSUME ServerInv, ContentInv, NEW c \in Clients, GetVersion(c) PROVE ContentInv'
<1>1. PICK k \in Keys, id \in IdOrNone, connected \in Peers(At[c]) :
        LET has == index[Own(c, k)].latest # NoVersion
        IN  /\ Idle(c, IF id = NoVersion THEN "getLatest" ELSE "get")
            /\ call' = [call EXCEPT ![c] =
                 [NoCall EXCEPT !.pc = IF has THEN "here" ELSE "try", !.op = "get",
                                !.key = k, !.id = id, !.left = IF has THEN @ ELSE connected,
                                !.held = Confirmed(<<At[c], k>>, id)]]
            /\ UNCHANGED <<index, blob, xfer, history>>
  BY DEF GetVersion
<1>2. TypeOK
  BY DEF ServerInv
<1>3. /\ call'[c].op = "get" /\ call'[c].left \in {{}, connected} /\ call'[c].id = id
      /\ call'[c].pc \in {"here", "try"}
      /\ \A d \in Clients : d # c => call'[d] = call[d]
  BY <1>1, <1>2, NoCallType DEF TypeOK, CallRecord
<1>4. /\ Ops[c] \cap {"get", "getLatest"} # {} /\ call[c].pc = "idle"
      /\ id = NoVersion => "getLatest" \in Ops[c]
  BY <1>1 DEF Idle
<1>5. At[c] \notin connected
  BY OwnShelf, PeersAreNodes
<1>6. CallTurns(c)'
  BY <1>3, <1>4, <1>5 DEF CallTurns
<1>7. \A p \in Nodes : xfer[c][p].pc \in {"idle", "end"} /\ TransferTurns(c, p)
  BY <1>4, RestingTransfers DEF Resting, ContentInv
<1>8. \A p \in Nodes : TransferTurns(c, p)'
  BY <1>1, <1>3, <1>7, OverTransfer
<1>9. QED
  BY <1>1, <1>3, <1>6, <1>8, CallContent

LEMMA ReadHereTurns ==
  ASSUME ServerInv, ContentInv, NEW c \in Clients, ReadHere(c) PROVE ContentInv'
<1>1. CallTurns(c) /\ TypeOK
  BY DEF ServerInv, ContentInv
<1>2. /\ \A d \in Clients : d # c => call'[d] = call[d]
      /\ call[c].pc = "here" /\ SameCall(c) /\ call'[c].id = call[c].id
      /\ call'[c].pc \in {"returned", "try"}
      /\ call'[c].pc = "try" => call'[c].left \in Peers(At[c])
      /\ UNCHANGED <<index, blob, writer, xfer, history, confirmed>>
  <2>1. /\ \A d \in Clients : d # c => call'[d] = call[d]
        /\ call[c].pc = "here" /\ SameCall(c) /\ call'[c].id = call[c].id
        /\ UNCHANGED <<index, blob, writer, xfer, history, confirmed>>
    BY <1>1, ReadHereCall
  <2>2. \/ call'[c].pc = "returned"
        \/ call'[c].pc = "try" /\ call'[c].left \in Peers(At[c])
    BY <1>1, ReadHereCall
  <2>3. QED
    BY <2>1, <2>2
<1>3. call'[c].pc = "try" => At[c] \notin call'[c].left
  <2>1. At[c] \in Nodes
    BY FileServerAssumption
  <2>2. QED
    BY <1>2, <2>1, PeersAreNodes
<1>4. CallTurns(c)'
  BY <1>1, <1>2, <1>3 DEF CallTurns, SameCall
<1>5. \A p \in Nodes : Passes(c, p, NoVersion)
  BY <1>2, DiskPasses
<1>6. QED
  BY <1>2, <1>4, <1>5, DiskContent

LEMMA TryTurns ==
  ASSUME ServerInv, ContentInv, NEW c \in Clients, Try(c) PROVE ContentInv'
<1>1. TypeOK /\ CallTurns(c) /\ call[c] \in CallRecord /\ call[c].pc = "try" /\ call[c].op = "get"
      /\ At[c] \notin call[c].left
  BY DEF ServerInv, TypeOK, ContentInv, CallTurns, Try
<1>2. \A p \in Nodes : xfer[c][p].pc \in {"idle", "end"} /\ TransferTurns(c, p)
  BY <1>1, RestingTransfers DEF Resting, ContentInv
<1>3. UNCHANGED <<index, blob, history>>
  BY DEF Try
<1>4. ASSUME NEW p \in call[c].left,
             xfer' = [xfer EXCEPT ![c][p] = Opening],
             call' = [call EXCEPT ![c].pc = "fetch", ![c].left = @ \ {p}]
      PROVE  ContentInv'
  <2>1. p \in Nodes /\ p # At[c]
    BY <1>1 DEF CallRecord
  <2>2. /\ \A d \in Clients : d # c => call'[d] = call[d]
        /\ call'[c].pc = "fetch" /\ call'[c].op = "get" /\ At[c] \notin call'[c].left
        /\ call'[c].id = call[c].id
    BY <1>1, <1>4 DEF TypeOK, CallRecord
  <2>3. /\ \A d \in Clients : d # c => xfer'[d] = xfer[d]
        /\ \A q \in Nodes : xfer'[c][q] = IF q = p THEN Opening ELSE xfer[c][q]
    BY <1>1, <1>4, <2>1 DEF TypeOK
  <2>4. CallTurns(c)'
    BY <1>1, <2>2 DEF CallTurns
  <2>5. ASSUME NEW q \in Nodes PROVE TransferTurns(c, q)'
    <3>1. CASE q = p
      BY <2>1, <2>2, <2>3, <3>1, NewTransfer
    <3>2. CASE q # p
      BY <1>2, <2>2, <2>3, <3>2, OverTransfer
    <3>3. QED
      BY <3>1, <3>2
  <2>6. QED
    BY <1>3, <2>2, <2>3, <2>4, <2>5, CallContent
<1>5. CASE call' = [call EXCEPT ![c].pc = "returned"] /\ UNCHANGED xfer
  <2>1. /\ \A d \in Clients : d # c => call'[d] = call[d]
        /\ call'[c].pc = "returned" /\ call'[c].op = "get" /\ call'[c].id = call[c].id
    BY <1>1, <1>5 DEF TypeOK, CallRecord
  <2>2. CallTurns(c)'
    BY <1>1, <2>1 DEF CallTurns
  <2>3. \A p \in Nodes : TransferTurns(c, p)'
    BY <1>2, <1>5, <2>1, OverTransfer
  <2>4. QED
    BY <1>3, <1>5, <2>1, <2>2, <2>3, CallContent
<1>6. QED
  BY <1>4, <1>5 DEF Try

LEMMA FetchedTurns ==
  ASSUME ServerInv, ContentInv, NEW c \in Clients, Fetched(c) PROVE ContentInv'
<1> DEFINE ok == \E p \in Nodes : xfer[c][p].res = "ok"
           pc == IF ok THEN "returned" ELSE "try"
           got == IF ok /\ Readable(Own(c, call[c].key), call[c].id)
                    THEN ReadLocal(c, call[c].key, call[c].id) ELSE call[c].got
<1>1. TypeOK /\ CallTurns(c) /\ call[c] \in CallRecord
  BY DEF ServerInv, TypeOK, ContentInv
<1>2. call' = [call EXCEPT ![c].pc = pc, ![c].got = got]
  BY <1>1 DEF Fetched, CallRecord, TypeOK
<1>3. /\ pc \in {"returned", "try"} /\ call[c].pc = "fetch"
      /\ UNCHANGED <<index, blob, xfer, history>>
  BY DEF Fetched
<1> HIDE DEF pc, got
<1>4. /\ \A d \in Clients : d # c => call'[d] = call[d]
      /\ SameCall(c) /\ call'[c].id = call[c].id /\ call'[c].left = call[c].left
      /\ call'[c].pc \in {"returned", "try"}
  BY <1>1, <1>2, <1>3 DEF TypeOK, CallRecord, SameCall
<1>5. CallTurns(c)'
  BY <1>1, <1>3, <1>4 DEF CallTurns, SameCall
<1>6. \A p \in Nodes : Passes(c, p, NoVersion)
  BY <1>3, <1>4, DiskPasses
<1>7. QED
  BY <1>3, <1>4, <1>5, <1>6, DiskContent

LEMMA FanDoneTurns ==
  ASSUME ServerInv, ContentInv, NEW c \in Clients, FanDone(c) PROVE ContentInv'
<1>1. TypeOK /\ CallTurns(c) /\ call[c] \in CallRecord
  BY DEF ServerInv, TypeOK, ContentInv
<1>2. /\ call' = [call EXCEPT ![c].pc = "returned"]
      /\ UNCHANGED <<index, blob, xfer, history>>
  BY DEF FanDone
<1>3. /\ \A d \in Clients : d # c => call'[d] = call[d]
      /\ SameCall(c) /\ call'[c].id = call[c].id /\ call'[c].pc = "returned"
  BY <1>1, <1>2 DEF TypeOK, CallRecord, SameCall
<1>4. CallTurns(c)'
  BY <1>1, <1>3 DEF CallTurns, SameCall
<1>5. \A p \in Nodes : Passes(c, p, NoVersion)
  BY <1>2, <1>3, DiskPasses
<1>6. QED
  BY <1>2, <1>3, <1>4, <1>5, DiskContent

LEMMA ForgetTurns ==
  ASSUME ServerInv, ContentInv, NEW c \in Clients, Forget(c) PROVE ContentInv'
<1>1. TypeOK
  BY DEF ServerInv
<1>2. /\ call' = [call EXCEPT ![c] = NoCall]
      /\ xfer' = [xfer EXCEPT ![c] = [p \in Nodes |-> NoTransfer]]
      /\ UNCHANGED <<index, blob, history>>
  BY DEF Forget
<1>3. /\ \A d \in Clients : d # c => call'[d] = call[d] /\ xfer'[d] = xfer[d]
      /\ call'[c].pc = "idle" /\ call'[c].op = "none" /\ call'[c].left = {}
      /\ \A p \in Nodes : xfer'[c][p] = NoTransfer
  BY <1>1, <1>2, NoCallType DEF TypeOK
<1>4. CallTurns(c)'
  BY <1>3 DEF CallTurns
<1>5. \A p \in Nodes : TransferTurns(c, p)'
  BY <1>3, NewTransfer
<1>6. QED
  BY <1>2, <1>3, <1>4, <1>5, CallContent

-----------------------------------------------------------------------------
(* The steps of a transfer that leave the disks alone.                     *)
(***************************************************************************)
LEMMA StreamContent ==
  ASSUME ServerInv, ContentInv, NEW c \in Clients, NEW p \in Nodes,
         UNCHANGED <<index, blob, call, history>>, OthersSame(c, p),
         Passes(c, p, NoVersion) \/ TransferTurns(c, p)'
  PROVE  ContentInv'
<1>1. ASSUME NEW d \in Clients, NEW q \in Nodes
      PROVE  \/ call'[d] = call[d] /\ xfer'[d][q] = xfer[d][q]
             \/ Passes(d, q, NoVersion)
             \/ TransferTurns(d, q)'
  <2>1. CASE d = c /\ q = p
    BY <2>1
  <2>2. CASE ~(d = c /\ q = p)
    BY <2>2 DEF OthersSame
  <2>3. QED
    BY <2>1, <2>2
<1>2. QED
  BY <1>1, DiskContent

\* A resolved version of a shelf is the one that was named, made for that file.
LEMMA ResolvedOf ==
  ASSUME ServerInv, NEW s \in Shelves, NEW id, CanResolve(index[s], id)
  PROVE  /\ resolveVersion(index[s], id) \in history[FileOf(s)]
         /\ id \in {NoVersion, resolveVersion(index[s], id).id}
<1>1. index[s] \in Index /\ Listed(s) \subseteq history[FileOf(s)]
  BY IndexTyped DEF ServerInv, ReplicasAgree
<1>2. QED
  BY <1>1, ResolvedEntry, ListedEntries DEF ResolvedId

LEMMA OpenLocalTurns ==
  ASSUME ServerInv, ContentInv, NEW c \in Clients, NEW p \in Nodes, OpenLocal(c, p)
  PROVE  ContentInv'
<1> DEFINE x == xfer[c][p]
           s == Own(c, call[c].key)
           id == IF call[c].op = "put" THEN call[c].entry.id ELSE call[c].id
           e == resolveVersion(index[s], id)
           want == IF call[c].op = "put" THEN blob[s][e.id].n ELSE e.data.n
           y == IF Readable(s, id)
                  THEN [x EXCEPT !.pc = "ready", !.src = Opened(s, e.id),
                                 !.entry = call[c].entry, !.want = want]
                  ELSE [x EXCEPT !.pc = "end", !.res = "failed"]
<1>1. /\ TypeOK /\ CallOK(c) /\ TransferTurns(c, p) /\ call[c] \in CallRecord
      /\ x \in TransferRecord
  BY DEF ServerInv, ContentInv, TypeOK
<1>2. /\ Pushing(c) /\ x.pc = "open"
      /\ xfer' = [xfer EXCEPT ![c] = [xfer[c] EXCEPT ![p] = y]]
      /\ UNCHANGED <<index, blob, call, history>>
  BY <1>1 DEF OpenLocal, TypeOK
<1>3. s \in Shelves /\ FileOf(s) = <<At[c], call[c].key>>
  BY <1>1, OwnShelf DEF CallRecord
<1>4. Readable(s, id) => e \in OfFile(c) /\ id \in {NoVersion, e.id}
  BY <1>3, ResolvedOf DEF Readable, OfFile
<1>5. call[c].op = "put" => id = call[c].entry.id /\ id # NoVersion /\ call[c].entry \in OfFile(c)
  <2>1. OfFile(c) \subseteq Entry
    BY <1>1, FileOfCall DEF TypeOK, OfFile
  <2>2. QED
    BY <1>1, <2>1, EntryTypes DEF CallOK
<1>6. call[c].op = "share" => id = call[c].id /\ want = e.data.n
  OBVIOUS
<1> HIDE DEF s, id, e, want
<1>7. /\ y.pc \in {"ready", "end"} /\ y.res # "ok"
      /\ y.pc = "ready" => /\ Readable(s, id) /\ y.src = Opened(s, e.id)
                           /\ y.entry = call[c].entry /\ y.want = want
  BY <1>1, <1>2 DEF TransferRecord, TransferTurns
<1> HIDE DEF y
<1>8. xfer'[c][p] = y /\ OthersSame(c, p)
  BY <1>1, <1>2 DEF TypeOK, OthersSame
<1>9. ASSUME y.pc = "ready", NEW v, v = e PROVE SourceIs(c, p, v)'
  <2>1. xfer'[c][p].src = Opened(s, v.id) /\ Opened(s, v.id).id = v.id
        /\ Opened(s, v.id).shelf = s
    BY <1>7, <1>8, <1>9 DEF Opened
  <2>2. v \in Entry
    BY <1>1, <1>4, <1>7, <1>9, FileOfCall DEF TypeOK, OfFile
  <2>3. SourceNames(c, p, v)'
    BY <1>2, <1>3, <2>1, <2>2, EntryTypes DEF SourceNames
  <2>4. call[c].op = "put" => call[c].entry = v
    <3>1. <<At[c], call[c].key>> \in Files
      BY <1>1, FileOfCall
    <3>2. QED
      BY <1>4, <1>5, <1>7, <1>9, <3>1 DEF ContentInv, IdsUnique, OfFile
  <2>5. call'[c].op # "share" => xfer'[c][p].entry = v
    BY <1>2, <1>7, <1>8, <1>9, <2>4 DEF Pushing, Pushes
  <2>6. /\ call'[c].op # "put" => call'[c].id \in {NoVersion, v.id}
        /\ call'[c].op = "share" => xfer'[c][p].want = v.data.n
    BY <1>2, <1>4, <1>6, <1>7, <1>8, <1>9 DEF Pushing, Pushes
  <2>7. xfer'[c][p].pc = "ready"
    BY <1>8, <1>9
  <2>8. QED
    BY <2>3, <2>5, <2>6, <2>7 DEF SourceIs
<1>10. TransferTurns(c, p)'
  <2>1. y.pc = "ready" => \E v \in OfFile(c)' : SourceIs(c, p, v)'
    BY <1>2, <1>4, <1>7, <1>9 DEF OfFile
  <2>2. y.pc # "idle" => p # At[c]
    BY <1>1, <1>2 DEF TransferTurns
  <2>3. QED
    BY <1>1, <1>2, <1>7, <1>8, <2>1, <2>2 DEF TransferTurns, LatestAsked, Live, Pushing, Pushes
<1>11. QED
  BY <1>2, <1>8, <1>10, StreamContent

LEMMA VersionInfoTurns ==
  ASSUME ServerInv, ContentInv, NEW c \in Clients, NEW p \in Nodes, VersionInfo(c, p)
  PROVE  ContentInv'
<1> DEFINE x == xfer[c][p]
           s == Asked(c, p)
           e == resolveVersion(index[s], call[c].id)
           y == IF CanResolve(index[s], call[c].id)
                  THEN [x EXCEPT !.pc = "info", !.entry = e]
                  ELSE [x EXCEPT !.pc = "bad"]
<1>1. TypeOK /\ TransferTurns(c, p) /\ x \in TransferRecord
  BY DEF ServerInv, ContentInv, TypeOK
<1>2. /\ x.pc = "open"
      /\ xfer' = [xfer EXCEPT ![c] = [xfer[c] EXCEPT ![p] = y]]
      /\ UNCHANGED <<index, blob, call, history>>
  BY <1>1 DEF VersionInfo, TypeOK, Asked
<1>3. Asked(c, p)' = s
  BY <1>2 DEF Asked
<1> HIDE DEF s, e
<1>4. /\ y.pc \in {"info", "bad"} /\ y.res = x.res
      /\ y.pc = "info" => CanResolve(index[s], call[c].id) /\ y.entry = e
  BY <1>1 DEF TransferRecord
<1> HIDE DEF y
<1>5. xfer'[c][p] = y /\ OthersSame(c, p)
  BY <1>1, <1>2 DEF TypeOK, OthersSame
<1>6. y.pc = "info" => call[c].id \in {NoVersion, y.entry.id}
  BY <1>1, <1>4, PeerShelf, ResolvedOf DEF s, e, Asked
<1>7. TransferTurns(c, p)'
  BY <1>1, <1>2, <1>3, <1>4, <1>5, <1>6 DEF TransferTurns, LatestAsked, Live, s, e
<1>8. QED
  BY <1>2, <1>5, <1>7, StreamContent

LEMMA ReadVersionRawTurns ==
  ASSUME ServerInv, ContentInv, NEW c \in Clients, NEW p \in Nodes, ReadVersionRaw(c, p)
  PROVE  ContentInv'
<1> DEFINE x == xfer[c][p]
           s == Asked(c, p)
           id == resolveVersion(index[s], call[c].id).id
           y == IF Readable(s, call[c].id)
                  THEN [x EXCEPT !.pc = "ready", !.src = Opened(s, id), !.want = blob[s][id].n]
                  ELSE [x EXCEPT !.pc = "bad"]
<1>1. TypeOK /\ TransferOK(c, p) /\ TransferTurns(c, p) /\ x \in TransferRecord
  BY DEF ServerInv, ContentInv, TypeOK
<1>2. /\ x.pc = "info"
      /\ xfer' = [xfer EXCEPT ![c] = [xfer[c] EXCEPT ![p] = y]]
      /\ UNCHANGED <<index, blob, call, history>>
  BY <1>1 DEF ReadVersionRaw, TypeOK, Asked
<1>3. FileOf(s) = <<At[c], call[c].key>>
  BY DEF FileOf, Asked
<1>4. /\ x.entry \in OfFile(c) /\ call[c].op # "share"
      /\ call[c].id \in {NoVersion, x.entry.id}
      /\ Readable(s, call[c].id) => x.entry.id = id
  <2>1. /\ x.entry \in OfFile(c) /\ call[c].op # "share"
        /\ call[c].id \in {NoVersion, x.entry.id}
    BY <1>1, <1>2 DEF TransferOK, TransferTurns, Pushing, Pushes
  <2>2. CASE call[c].id = NoVersion
    BY <1>1, <1>2, <2>1, <2>2 DEF TransferTurns, LatestAsked
  <2>3. CASE call[c].id # NoVersion
    BY <1>1, <2>1, <2>3, PeerShelf, ResolvedOf DEF Asked, Readable
  <2>4. QED
    BY <2>1, <2>2, <2>3
<1> HIDE DEF s, id
<1>5. /\ y.pc \in {"ready", "bad"} /\ y.res = x.res /\ y.entry = x.entry
      /\ y.pc = "ready" => y.src = Opened(s, id) /\ x.entry.id = id
  BY <1>1, <1>4 DEF TransferRecord
<1> HIDE DEF y
<1>6. xfer'[c][p] = y /\ OthersSame(c, p)
  BY <1>1, <1>2 DEF TypeOK, OthersSame
<1>7. ASSUME y.pc = "ready", NEW v, v = x.entry PROVE SourceIs(c, p, v)'
  <2>1. xfer'[c][p].src = Opened(s, id) /\ Opened(s, id).id = v.id
        /\ Opened(s, id).shelf = s
    BY <1>4, <1>5, <1>6, <1>7 DEF Opened
  <2>2. v \in Entry
    BY <1>1, <1>4, <1>7, FileOfCall DEF TypeOK, OfFile
  <2>3. SourceNames(c, p, v)'
    BY <1>2, <1>3, <2>1, <2>2, EntryTypes DEF SourceNames
  <2>4. QED
    BY <1>2, <1>4, <1>5, <1>6, <1>7, <2>3 DEF SourceIs
<1>8. TransferTurns(c, p)'
  <2>1. y.pc = "ready" => \E v \in OfFile(c)' : SourceIs(c, p, v)'
    BY <1>2, <1>4, <1>7 DEF OfFile
  <2>2. QED
    BY <1>1, <1>2, <1>4, <1>5, <1>6, <2>1 DEF TransferTurns, LatestAsked, Live
<1>9. QED
  BY <1>2, <1>6, <1>8, StreamContent

LEMMA ReplyTurns ==
  ASSUME ServerInv, ContentInv, NEW c \in Clients, NEW p \in Nodes, Reply(c, p)
  PROVE  ContentInv'
<1> DEFINE x == xfer[c][p]
           res == IF x.res # "none" THEN x.res ELSE IF x.pc = "good" THEN "ok" ELSE "failed"
<1>1. /\ TypeOK /\ TransferOK(c, p) /\ TransferTurns(c, p) /\ x \in TransferRecord
      /\ x.pc \in {"good", "bad"} /\ UNCHANGED <<index, blob, call, history>>
  BY DEF ServerInv, ContentInv, TypeOK, Reply
<1>2. res = "ok" => x.pc = "good"
  BY <1>1 DEF TransferTurns, TransferRecord
<1>3. /\ OthersSame(c, p)
      /\ xfer'[c][p].pc = "end" /\ xfer'[c][p].n = x.n /\ xfer'[c][p].entry = x.entry
      /\ xfer'[c][p].res = res
  <2>1. xfer' = [xfer EXCEPT ![c][p].pc = "end", ![c][p].src = NoFile, ![c][p].res = res]
    BY <1>1 DEF Reply, TypeOK, TransferRecord
  <2> HIDE DEF res
  <2>2. QED
    BY <1>1, <2>1 DEF TypeOK, TransferRecord, OthersSame
<1> HIDE DEF res
<1>4. call[c].op = "share" /\ res = "ok" => Placed(c, p)'
  <2> HAVE call[c].op = "share" /\ res = "ok"
  <2>1. x.pc = "good" /\ x.n = x.want /\ x.entry \in history[<<p, call[c].dest>>]
    BY <1>1, <1>2 DEF TransferTurns
  <2>2. PICK e \in OfFile(c) : SourceIs(c, p, e)
    BY <1>1, <2>1 DEF TransferTurns, Live
  <2>3. /\ call[c].id \in {NoVersion, e.id} /\ x.want = e.data.n
        /\ x.entry.data = [of |-> e.data.of, n |-> x.n]
    BY <2>1, <2>2 DEF SourceIs
  <2>4. e.data \in Content
    BY <1>1, <2>2, FileOfCall, EntryTypes DEF TypeOK, OfFile
  <2>5. x.entry.data = e.data
    BY <2>1, <2>3, <2>4 DEF Content
  <2>6. QED
    BY <1>1, <1>3, <2>1, <2>2, <2>3, <2>5 DEF Placed, OfFile
<1>5. TransferTurns(c, p)'
  BY <1>1, <1>3, <1>4 DEF TransferTurns, LatestAsked, Live
<1>6. QED
  BY <1>1, <1>3, <1>5, StreamContent

LEMMA GiveUpTurns ==
  ASSUME ServerInv, ContentInv, NEW c \in Clients, NEW p \in Nodes, GiveUp(c, p)
  PROVE  ContentInv'
<1> DEFINE x == xfer[c][p]
           y == [x EXCEPT !.res = "failed"]
<1>1. TypeOK /\ x \in TransferRecord
  BY DEF ServerInv, TypeOK
<1>2. /\ xfer' = [xfer EXCEPT ![c] = [xfer[c] EXCEPT ![p] = y]]
      /\ UNCHANGED <<index, blob, call, history>>
  BY <1>1 DEF GiveUp, TypeOK, TransferRecord
<1>3. /\ y.pc = x.pc /\ y.n = x.n /\ y.entry = x.entry /\ y.src = x.src /\ y.want = x.want
      /\ y.res = "failed"
  BY <1>1 DEF TransferRecord
<1> HIDE DEF y
<1>4. xfer'[c][p] = y /\ OthersSame(c, p)
  BY <1>1, <1>2 DEF TypeOK, OthersSame
<1>5. SameCall(c) /\ call'[c].id = call[c].id
  BY <1>2 DEF SameCall
<1>6. Passes(c, p, NoVersion)
  BY <1>2, <1>3, <1>4, <1>5, DiskPasses
<1>7. QED
  BY <1>2, <1>4, <1>6, StreamContent

LEMMA BreakTurns ==
  ASSUME ServerInv, ContentInv, NEW c \in Clients, NEW p \in Nodes, Break(c, p)
  PROVE  ContentInv'
<1> DEFINE x == xfer[c][p]
           y == [x EXCEPT !.pc = "bad"]
<1>1. TypeOK /\ x \in TransferRecord
  BY DEF ServerInv, TypeOK
<1>2. /\ x.pc \notin {"idle", "end"}
      /\ xfer' = [xfer EXCEPT ![c] = [xfer[c] EXCEPT ![p] = y]]
      /\ UNCHANGED <<index, blob, call, history>>
  BY <1>1 DEF Break, Become, Exposed, TypeOK, TransferRecord
<1>3. /\ y.pc = "bad" /\ y.n = x.n /\ y.entry = x.entry /\ y.want = x.want
      /\ y.res = x.res
  BY <1>1 DEF TransferRecord
<1> HIDE DEF y
<1>4. xfer'[c][p] = y /\ OthersSame(c, p)
  BY <1>1, <1>2 DEF TypeOK, OthersSame
<1>5. SameCall(c) /\ call'[c].id = call[c].id /\ "bad" \notin Live
  BY <1>2 DEF SameCall, Live
<1>6. Passes(c, p, NoVersion)
  BY <1>2, <1>3, <1>4, <1>5, DiskPasses
<1>7. QED
  BY <1>2, <1>4, <1>6, StreamContent

LEMMA DisconnectTurns ==
  ASSUME ServerInv, ContentInv, NEW d \in Clients, Disconnect(d) PROVE ContentInv'
<1>1. PICK q \in Nodes, cut \in BOOLEAN :
        /\ xfer' = [c \in Clients |-> [p \in Nodes |->
             IF Between(c, p, {At[d], q}) THEN Disconnected(c, p, cut) ELSE xfer[c][p]]]
        /\ UNCHANGED <<index, blob, call, history>>
  BY DEF Disconnect
<1>2. TypeOK
  BY DEF ServerInv
<1>3. ASSUME NEW c \in Clients, NEW p \in Nodes PROVE Passes(c, p, NoVersion)
  <2>1. xfer'[c][p] \in {xfer[c][p], Disconnected(c, p, cut)}
    BY <1>1
  <2>2. /\ xfer'[c][p].pc \in {xfer[c][p].pc, "bad"}
        /\ xfer[c][p].pc \in {"idle", "end"} => xfer'[c][p].pc = xfer[c][p].pc
        /\ xfer'[c][p].n = xfer[c][p].n /\ xfer'[c][p].entry = xfer[c][p].entry
        /\ xfer'[c][p].src = xfer[c][p].src /\ xfer'[c][p].want = xfer[c][p].want
        /\ xfer'[c][p].res \in {xfer[c][p].res, "failed"}
    BY <1>2, <2>1, DisconnectedStream
  <2>3. SameCall(c) /\ call'[c].id = call[c].id
    BY <1>1 DEF SameCall
  <2>4. QED
    BY <1>1, <2>2, <2>3, DiskPasses
<1>4. \A c \in Clients : call'[c] = call[c]
  BY <1>1
<1>5. QED
  BY <1>1, <1>3, <1>4, DiskContent

LEMMA CrashTurns ==
  ASSUME ServerInv, ContentInv, NEW n \in Nodes, Crash(n) PROVE ContentInv'
<1>1. /\ call' = [c \in Clients |->
           IF At[c] = n /\ call[c].pc # "idle" THEN [call[c] EXCEPT !.pc = "gone"] ELSE call[c]]
      /\ xfer' = [c \in Clients |-> [p \in Nodes |-> AfterCrash(c, p, n)]]
      /\ UNCHANGED <<index, blob, history>>
  BY DEF Crash
<1>2. TypeOK
  BY DEF ServerInv
<1>3. ASSUME NEW c \in Clients
      PROVE  /\ SameCall(c) /\ call'[c].id = call[c].id
             /\ call'[c] = call[c] \/ call'[c].pc = "gone"
  <2>1. call[c] \in CallRecord
    BY <1>2 DEF TypeOK
  <2>2. call'[c] \in {call[c], [call[c] EXCEPT !.pc = "gone"]}
    BY <1>1
  <2>3. QED
    BY <2>1, <2>2 DEF CallRecord, SameCall
<1>4. ASSUME NEW c \in Clients, NEW p \in Nodes PROVE Passes(c, p, NoVersion)
  <2>1. xfer'[c][p] = AfterCrash(c, p, n)
    BY <1>1
  <2>2. /\ xfer'[c][p].pc \in {xfer[c][p].pc, "bad", "end"}
        /\ xfer[c][p].pc \in {"idle", "end"} => xfer'[c][p].pc = xfer[c][p].pc
        /\ xfer'[c][p].n = xfer[c][p].n /\ xfer'[c][p].entry = xfer[c][p].entry
        /\ xfer'[c][p].pc \in Live => xfer'[c][p].src = xfer[c][p].src
        /\ xfer'[c][p].want = xfer[c][p].want
        /\ xfer'[c][p].res \in {xfer[c][p].res, "failed"}
    BY <1>2, <2>1, CrashedStream DEF Live
  <2>3. QED
    BY <1>1, <1>3, <2>2, DiskPasses, ZenonT(60)
<1>5. ASSUME NEW c \in Clients, call'[c] # call[c] PROVE CallTurns(c)'
  <2>1. CallTurns(c) /\ SameCall(c) /\ call'[c].pc = "gone" /\ call'[c].id = call[c].id
    BY <1>3, <1>5 DEF ContentInv
  <2>2. QED
    BY <2>1 DEF CallTurns, SameCall
<1>6. QED
  BY <1>1, <1>4, <1>5, DiskContent

-----------------------------------------------------------------------------
(* The steps at one shelf, under its lock.                                 *)
(***************************************************************************)
\* A transfer passed by at a shelf whose pruned or deleted files lose their names.
LEMMA DetachedPasses ==
  ASSUME ServerInv, NEW next \in [Clients -> [Nodes -> TransferRecord]],
         NEW s \in Shelves, NEW ids \in SUBSET VersionIDs,
         xfer' = AfterDetach(next, s, ids), NEW j,
         \A t \in Shelves : t # s => index'[t] = index[t] /\ blob'[t] = blob[t],
         NEW c \in Clients, NEW p \in Nodes, next[c][p] = xfer[c][p],
         writer[s] # <<c, p>>, call'[c] = call[c],
         LatestAsked(c, p) => s # Asked(c, p),
         xfer[c][p].pc = "recv" /\ call[c].op = "share" => xfer[c][p].entry.id # j
  PROVE  Passes(c, p, j)
<1>1. TypeOK /\ OwnersKeyOnly
  BY DEF ServerInv
<1>2. /\ xfer'[c][p].pc = next[c][p].pc /\ xfer'[c][p].entry = next[c][p].entry
      /\ xfer'[c][p].n = next[c][p].n /\ xfer'[c][p].want = next[c][p].want
      /\ xfer'[c][p].res = next[c][p].res
  BY <1>1, DetachKeeps
<1>3. SourceStays(c, p)
  BY <1>1, DetachedStays
<1>4. QED
  BY <1>2, <1>3, ShelfPasses

LEMMA DeleteTurns ==
  ASSUME ServerInv, ContentInv, NEW c \in Clients, Delete(c) PROVE ContentInv'
<1>1. PICK k \in Keys :
        LET s == Own(c, k)
            ids == IdsOf(index[s].versions)
        IN  /\ writer[s] = Nobody
            /\ index' = [index EXCEPT ![s] = EmptyIndex]
            /\ blob' = [blob EXCEPT ![s] = Without(@, ids)]
            /\ xfer' = AfterDetach(xfer, s, ids)
            /\ UNCHANGED <<call, history>>
  BY DEF Delete, Detach, AfterDetach
<1> DEFINE s == Own(c, k)
           ids == IdsOf(index[s].versions)
<1>2. TypeOK /\ IdsUnique /\ ContentsOK
  BY DEF ServerInv, ContentInv
<1>3. s \in Shelves
  BY OwnShelf
<1>4. ids \in SUBSET VersionIDs
  BY <1>2, <1>3, IndexTyped
<1>5. \A i \in VersionIDs : Without(blob[s], ids)[i] = IF i \in ids THEN NoBlob ELSE blob[s][i]
  BY <1>2, <1>3, IndexTyped, WithoutBlobs
<1>6. /\ writer[s] = Nobody
      /\ xfer' = AfterDetach(xfer, s, ids)
      /\ index' = [index EXCEPT ![s] = EmptyIndex]
      /\ blob' = [blob EXCEPT ![s] = Without(blob[s], ids)]
      /\ UNCHANGED <<call, history>>
  BY <1>1
<1>7. \A d \in Clients, q \in Nodes : LatestAsked(d, q) => s # Asked(d, q)
  BY OwnNotAsked
<1> HIDE DEF s, ids
<1>8. /\ \A t \in Shelves : t # s => index'[t] = index[t] /\ blob'[t] = blob[t]
      /\ \A i \in VersionIDs : blob'[s][i] \in {blob[s][i], NoBlob}
  BY <1>2, <1>3, <1>5, <1>6 DEF TypeOK
<1>9. \A t \in Shelves, i \in VersionIDs : blob'[t][i] \in {blob[t][i], NoBlob}
  BY <1>8
<1>10. AddsOnly(NoVersion) /\ Entitled /\ IdsUnique' /\ ContentsOK'
  BY <1>2, <1>6, <1>9, NothingAdded
<1>11. ASSUME NEW d \in Clients, NEW q \in Nodes PROVE Passes(d, q, NoVersion)
  <2>1. writer[s] # <<d, q>> /\ call'[d] = call[d]
    BY <1>6, FileServerAssumption
  <2>2. xfer \in [Clients -> [Nodes -> TransferRecord]]
    BY <1>2 DEF TypeOK
  <2>3. xfer[d][q].pc = "recv" => xfer[d][q].entry.id # NoVersion
    BY ArrivingId
  <2>4. QED
    BY <1>3, <1>4, <1>6, <1>7, <1>8, <2>1, <2>2, <2>3, DetachedPasses
<1>12. \A d \in Clients : CallTurns(d)'
  BY <1>6 DEF ContentInv, CallTurns
<1>13. QED
  BY <1>10, <1>11, <1>12, ContentStep

LEMMA CheckCountTurns ==
  ASSUME LatestTakesTurns, ServerInv, ContentInv, NEW c \in Clients, NEW p \in Nodes, CheckCount(c, p)
  PROVE  ContentInv'
<1> DEFINE x == xfer[c][p]
           s == Into(c, p)
           ids == {x.entry.id}
           next == [xfer EXCEPT ![c][p].pc = "bad"]
<1>1. /\ x.pc = "check" /\ UNCHANGED <<writer, call, history, confirmed>>
      /\ TypeOK /\ IdsUnique /\ ContentsOK /\ x \in TransferRecord /\ s \in Shelves
      /\ TransferTurns(c, p)
  BY IntoShelf DEF CheckCount, ServerInv, ContentInv, TypeOK
<1>2. PICK e \in OfFile(c) : SourceIs(c, p, e)
  BY <1>1 DEF TransferTurns, Live
<1>3. SameCall(c) /\ call'[c].id = call[c].id /\ Into(c, p)' = s
  BY <1>1, SameInto DEF SameCall
<1>4. CASE x.n = x.want /\ Become(c, p, "good") /\ UNCHANGED disk
  <2>1. /\ OthersSame(c, p)
        /\ xfer'[c][p].pc = "good" /\ xfer'[c][p].entry = x.entry
        /\ xfer'[c][p].n = x.n /\ xfer'[c][p].src = x.src
        /\ xfer'[c][p].want = x.want /\ xfer'[c][p].res = x.res
    BY <1>1, <1>4 DEF TypeOK, TransferRecord, OthersSame, Become
  <2>2. SourceIs(c, p, e)'
    BY <1>1, <1>2, <1>3, <2>1 DEF SourceIs, SourceNames, SameCall
  <2>3. e \in OfFile(c)'
    BY <1>1, <1>2 DEF OfFile
  <2>4. TransferTurns(c, p)'
    BY <1>1, <1>3, <1>4, <2>1, <2>2, <2>3 DEF TransferTurns, LatestAsked, SameCall
  <2>5. QED
    BY <1>1, <1>4, <2>1, <2>4, StreamContent DEF disk
<1>5. CASE Become(c, p, "bad") /\ UNCHANGED disk
  <2>1. /\ OthersSame(c, p)
        /\ xfer'[c][p].pc = "bad" /\ xfer'[c][p].res = x.res
    BY <1>1, <1>5 DEF TypeOK, TransferRecord, OthersSame, Become
  <2>2. TransferTurns(c, p)'
    BY <1>1, <2>1 DEF TransferTurns, LatestAsked, Live
  <2>3. QED
    BY <1>1, <1>5, <2>1, <2>2, StreamContent DEF disk
<1>6. CASE /\ writer[s] = Nobody
           /\ x.entry.id \in IdsOf(index[s].versions)
           /\ index' = [index EXCEPT ![s] = RemoveVersion(@, x.entry.id)]
           /\ blob' = [blob EXCEPT ![s] = Without(@, ids)]
           /\ xfer' = AfterDetach(next, s, ids)
  <2>1. ids \in SUBSET VersionIDs
    BY <1>1, <1>6, IndexTyped
  <2>2. \A i \in VersionIDs : Without(blob[s], ids)[i] = IF i \in ids THEN NoBlob ELSE blob[s][i]
    BY <1>1, IndexTyped, WithoutBlobs
  <2>3. \A d \in Clients, q \in Nodes : LatestAsked(d, q) => s # Asked(d, q)
    BY <1>1, NotAsked
  <2> HIDE DEF s, ids
  <2>4. /\ \A t \in Shelves : t # s => index'[t] = index[t] /\ blob'[t] = blob[t]
        /\ \A i \in VersionIDs : blob'[s][i] \in {blob[s][i], NoBlob}
    BY <1>1, <1>6, <2>2 DEF TypeOK
  <2>5. \A t \in Shelves, i \in VersionIDs : blob'[t][i] \in {blob[t][i], NoBlob}
    BY <2>4
  <2>6. AddsOnly(NoVersion) /\ Entitled /\ IdsUnique' /\ ContentsOK'
    BY <1>1, <2>5, NothingAdded
  <2>7. /\ next \in [Clients -> [Nodes -> TransferRecord]]
        /\ next[c][p].pc = "bad" /\ next[c][p].res = x.res
        /\ \A d \in Clients, q \in Nodes : <<d, q>> # <<c, p>> => next[d][q] = xfer[d][q]
    BY <1>1 DEF TypeOK, TransferRecord
  <2> HIDE DEF next
  <2>8. ASSUME NEW d \in Clients, NEW q \in Nodes, <<d, q>> # <<c, p>>
        PROVE  Passes(d, q, NoVersion)
    <3>1. writer[s] # <<d, q>> /\ call'[d] = call[d] /\ next[d][q] = xfer[d][q]
      BY <1>1, <1>6, <2>7, <2>8, FileServerAssumption
    <3>2. xfer[d][q].pc = "recv" => xfer[d][q].entry.id # NoVersion
      BY ArrivingId
    <3>3. QED
      BY <1>1, <1>6, <2>1, <2>3, <2>4, <2>7, <3>1, <3>2, DetachedPasses
  <2>9. TransferTurns(c, p)'
    <3>1. OwnersKeyOnly
      BY DEF ServerInv
    <3>2. xfer'[c][p].pc = next[c][p].pc /\ xfer'[c][p].res = next[c][p].res
      BY <1>1, <1>6, <2>1, <2>7, <3>1, DetachKeeps
    <3>3. QED
      BY <1>1, <2>7, <3>2 DEF TransferTurns, LatestAsked, Live
  <2>10. \A d \in Clients, q \in Nodes : Passes(d, q, NoVersion) \/ TransferTurns(d, q)'
    BY <2>8, <2>9
  <2>11. \A d \in Clients : CallTurns(d)'
    BY <1>1 DEF ContentInv, CallTurns
  <2>12. QED
    BY <2>6, <2>10, <2>11, ContentStep
<1>7. QED
  BY <1>4, <1>5, <1>6 DEF CheckCount, Detach, AfterDetach

LEMMA BlockTurns ==
  ASSUME ServerInv, ContentInv, NEW c \in Clients, NEW p \in Nodes, Block(c, p)
  PROVE  ContentInv'
<1> DEFINE x == xfer[c][p]
           s == Into(c, p)
           id == x.entry.id
           b == [blob[s][id] EXCEPT !.n = x.n + 1]
<1>1. /\ TypeOK /\ IdsUnique /\ ContentsOK /\ TransferTurns(c, p)
      /\ x.pc = "recv" /\ x.pc \in Live /\ x \in TransferRecord
      /\ UNCHANGED <<index, writer, call, history>>
  BY DEF ServerInv, ContentInv, TypeOK, Live, Block
<1>2. /\ id \in VersionIDs /\ id # NoVersion /\ blob[s][id] # NoBlob /\ s \in Shelves
      /\ writer[s] = <<c, p>>
  BY <1>1, ArrivingId
<1>3. blob[s][id] \in Blob
  BY <1>1, <1>2 DEF TypeOK
<1>4. b.of = blob[s][id].of
  BY <1>3 DEF Blob
<1>5. SameCall(c) /\ call'[c].id = call[c].id /\ Into(c, p)' = s
  BY <1>1, SameInto DEF SameCall
<1> HIDE DEF s
<1>6. /\ \A t \in Shelves : t # s => blob'[t] = blob[t]
      /\ \A i \in VersionIDs : blob'[s][i] = IF i = id THEN b ELSE blob[s][i]
  <2>1. blob' = [blob EXCEPT ![s][id].n = x.n + 1]
    BY DEF Block, s
  <2>2. QED
    BY <1>1, <1>2, <2>1 DEF TypeOK
<1>7. /\ OthersSame(c, p)
      /\ xfer'[c][p].pc = "recv" /\ xfer'[c][p].entry = x.entry /\ xfer'[c][p].src = x.src
      /\ xfer'[c][p].want = x.want /\ xfer'[c][p].res = x.res
  <2>1. xfer' = [xfer EXCEPT ![c][p].n = x.n + 1]
    BY DEF Block
  <2>2. QED
    BY <1>1, <2>1 DEF TypeOK, TransferRecord, OthersSame
<1> HIDE DEF b
<1>8. \A t \in Shelves, i \in VersionIDs :
        /\ blob'[t][i] # NoBlob => blob[t][i] # NoBlob
        /\ blob'[t][i].of = blob[t][i].of
  BY <1>2, <1>4, <1>6
<1>9. AddsOnly(NoVersion) /\ Entitled /\ IdsUnique'
  BY <1>1, <1>8 DEF AddsOnly, Entitled, IdsUnique
<1>10. ContentsOK'
  <2>1. \A t \in Shelves : \A e \in history[FileOf(t)] : e.id \in VersionIDs
    BY <1>1, IndexTyped, EntryTypes
  <2>2. QED
    BY <1>1, <1>8, <2>1 DEF ContentsOK
<1>11. ASSUME NEW d \in Clients, NEW q \in Nodes, <<d, q>> # <<c, p>>
       PROVE  Passes(d, q, NoVersion)
  <2>1. writer[s] # <<d, q>> /\ call'[d] = call[d] /\ xfer'[d][q] = xfer[d][q]
    BY <1>1, <1>2, <1>7, <1>11 DEF OthersSame
  <2>2. xfer[d][q].pc = "recv" => xfer[d][q].entry.id # NoVersion
    BY ArrivingId
  <2>3. SourceStays(d, q)
    BY <2>1 DEF SourceStays
  <2>4. \A t \in Shelves : t # s => index'[t] = index[t] /\ blob'[t] = blob[t]
    BY <1>1, <1>6
  <2>5. index'[s] = index[s]
    BY <1>1
  <2>6. QED
    BY <1>2, <2>1, <2>2, <2>3, <2>4, <2>5, ShelfPasses
<1>12. TransferTurns(c, p)'
  <2>1. PICK e \in OfFile(c) : SourceIs(c, p, e)
    BY <1>1 DEF TransferTurns
  <2>2. SourceIs(c, p, e)' /\ e \in OfFile(c)'
    BY <1>1, <1>2, <1>5, <1>7, <1>8, <2>1 DEF SourceIs, SourceNames, SameCall, OfFile, s
  <2>3. call[c].op = "share" => Unclaimed(c, p)'
    BY <1>1, <1>2, <1>5, <1>7, <1>9, UnclaimedStays DEF TransferTurns
  <2>4. QED
    BY <1>1, <1>5, <1>7, <2>2, <2>3 DEF TransferTurns, LatestAsked, SameCall
<1>13. \A d \in Clients, q \in Nodes : Passes(d, q, NoVersion) \/ TransferTurns(d, q)'
  BY <1>11, <1>12
<1>14. \A d \in Clients : CallTurns(d)'
  BY <1>1 DEF ContentInv, CallTurns
<1>15. QED
  BY <1>9, <1>10, <1>13, <1>14, ContentStep

LEMMA ReceiveTurns ==
  ASSUME ServerInv, ContentInv, NEW c \in Clients, NEW p \in Nodes, Receive(c, p)
  PROVE  ContentInv'
<1> DEFINE x == xfer[c][p]
           s == Into(c, p)
           own == call[c].op = "share"
           keyOf == IF own THEN p ELSE Body(x.src).for
           b == [of |-> Body(x.src).of, for |-> keyOf, n |-> 0]
<1>1. PICK id \in IF own THEN Fresh ELSE {x.entry.id} :
        LET e == IF own THEN [id |-> id, seq |-> nextSeq(index[s]), data |-> NoContent]
                 ELSE x.entry
        IN  /\ x.pc = "ready" /\ writer[s] = Nobody
            /\ blob' = [blob EXCEPT ![s][id] = b]
            /\ xfer' = [xfer EXCEPT ![c][p].pc = "recv", ![c][p].entry = e]
            /\ UNCHANGED <<index, call, history>>
  <2>1. x \in TransferRecord /\ xfer \in [Clients -> [Nodes -> TransferRecord]]
    BY DEF ServerInv, TypeOK
  <2>2. QED
    BY <2>1 DEF Receive, TransferRecord
<1> DEFINE e == IF own THEN [id |-> id, seq |-> nextSeq(index[s]), data |-> NoContent]
                ELSE x.entry
<1>2. /\ TypeOK /\ IdsUnique /\ ContentsOK /\ TransferTurns(c, p) /\ x.pc \in Live
      /\ x \in TransferRecord /\ s \in Shelves
  BY <1>1, IntoShelf DEF ServerInv, ContentInv, TypeOK, Live
<1>3. PICK v \in OfFile(c) : SourceIs(c, p, v)
  BY <1>2 DEF TransferTurns
<1>4. Body(x.src).of = v.data.of
  BY <1>2, <1>3, SourceContent DEF SourceIs
<1>5. b.of = v.data.of
  BY <1>4
<1>6. e.id = id /\ (~own => e = x.entry)
  OBVIOUS
<1>7. ~own => x.entry = v /\ v \in Entry /\ v \in history[FileOf(s)]
  BY <1>2, <1>3, LiveTransfer DEF SourceIs
<1>8. id \in VersionIDs /\ id # NoVersion /\ (own => id \in Fresh) /\ (~own => id = v.id)
  BY <1>7, EntryTypes, NoVersionAssumption DEF Fresh
<1>9. SameCall(c) /\ call'[c].id = call[c].id /\ Into(c, p)' = s
  BY <1>1, SameInto DEF SameCall
<1> HIDE DEF s, b, e
<1>10. /\ blob' = [blob EXCEPT ![s][id] = b]
       /\ xfer' = [xfer EXCEPT ![c][p].pc = "recv", ![c][p].entry = e]
       /\ x.pc = "ready" /\ writer[s] = Nobody
       /\ UNCHANGED <<index, call, history>>
  BY <1>1 DEF e
<1>11. /\ \A t \in Shelves : t # s => blob'[t] = blob[t]
       /\ \A i \in VersionIDs : blob'[s][i] = IF i = id THEN b ELSE blob[s][i]
  BY <1>2, <1>8, <1>10 DEF TypeOK
<1>12. /\ OthersSame(c, p)
       /\ xfer'[c][p].pc = "recv" /\ xfer'[c][p].entry = e /\ xfer'[c][p].src = x.src
       /\ xfer'[c][p].want = x.want /\ xfer'[c][p].res = x.res
  BY <1>2, <1>10 DEF TypeOK, TransferRecord, OthersSame
<1>13. AddsOnly(id) /\ Entitled /\ IdsUnique'
  BY <1>2, <1>10, <1>11 DEF AddsOnly, Entitled, IdsUnique
<1>14. ASSUME NEW t \in Shelves, NEW w \in history[FileOf(t)], blob'[t][w.id] # NoBlob
       PROVE  blob'[t][w.id].of = w.data.of
  <2>1. w.id \in VersionIDs
    BY <1>2, IndexTyped, EntryTypes
  <2>2. CASE t = s /\ w.id = id
    <3>1. FileOf(s) \in Files
      BY <1>2, IndexTyped
    <3>2. ~own
      BY <1>8, <2>2, <3>1 DEF Fresh
    <3>3. w = v
      BY <1>2, <1>7, <1>8, <2>2, <3>1, <3>2 DEF IdsUnique
    <3>4. QED
      BY <1>5, <1>8, <1>11, <2>2, <3>3
  <2>3. CASE ~(t = s /\ w.id = id)
    <3>1. blob'[t][w.id] = blob[t][w.id]
      BY <1>11, <2>1, <2>3
    <3>2. QED
      BY <1>2, <1>14, <3>1 DEF ContentsOK
  <2>4. QED
    BY <2>2, <2>3
<1>15. ContentsOK'
  BY <1>10, <1>14 DEF ContentsOK
<1>16. ASSUME NEW d \in Clients, NEW q \in Nodes, <<d, q>> # <<c, p>>
       PROVE  Passes(d, q, id)
  <2>1. writer[s] # <<d, q>> /\ call'[d] = call[d] /\ xfer'[d][q] = xfer[d][q]
    <3>1. <<d, q>> # Nobody
      BY FileServerAssumption
    <3>2. xfer'[d][q] = xfer[d][q]
      BY <1>12, <1>16 DEF OthersSame
    <3>3. QED
      BY <1>10, <3>1, <3>2
  <2>2. xfer[d][q].pc = "recv" /\ call[d].op = "share" => xfer[d][q].entry.id # id
    <3> HAVE xfer[d][q].pc = "recv" /\ call[d].op = "share"
    <3>1. Unclaimed(d, q)
      BY DEF ContentInv, TransferTurns
    <3>2. CASE own
      BY <1>8, <3>2 DEF Fresh
    <3>3. CASE ~own
      <4>1. v \in history[FileOf(s)] /\ FileOf(s) \in Files /\ v.id = id
        BY <1>2, <1>7, <1>8, <3>3, IndexTyped
      <4>2. QED
        BY <3>1, <4>1 DEF Unclaimed
    <3>4. QED
      BY <3>2, <3>3
  <2>3. SourceStays(d, q)
    BY <2>1 DEF SourceStays
  <2>4. \A t \in Shelves : t # s => index'[t] = index[t] /\ blob'[t] = blob[t]
    BY <1>10, <1>11
  <2>5. index'[s] = index[s]
    BY <1>10
  <2>6. QED
    BY <1>2, <2>1, <2>2, <2>3, <2>4, <2>5, ShelfPasses
<1>17. TransferTurns(c, p)'
  <2>1. blob'[s][id].of = v.data.of
    BY <1>2, <1>5, <1>8, <1>11
  <2>2. SourceNames(c, p, v)'
    BY <1>3, <1>10, <1>12 DEF SourceIs, SourceNames
  <2>3. call'[c].op # "share" => xfer'[c][p].entry = v
    BY <1>6, <1>7, <1>10, <1>12
  <2>4. /\ call'[c].op # "put" => call'[c].id \in {NoVersion, v.id}
        /\ call'[c].op = "share" => xfer'[c][p].want = v.data.n
    BY <1>3, <1>10, <1>12 DEF SourceIs
  <2>5. SourceIs(c, p, v)'
    BY <1>6, <1>9, <1>12, <2>1, <2>2, <2>3, <2>4 DEF SourceIs
  <2>6. v \in OfFile(c)'
    BY <1>3, <1>10 DEF OfFile
  <2>7. call'[c].op = "share" => Unclaimed(c, p)'
    <3> HAVE call'[c].op = "share"
    <3>1. own /\ id \in Fresh /\ xfer'[c][p].entry.id = id
      BY <1>6, <1>8, <1>10, <1>12
    <3>2. \A t \in Shelves : t # s => blob'[t][id] = NoBlob
      BY <1>11, <3>1 DEF Fresh
    <3>3. \A f \in Files : \A w \in history'[f] : w.id # id
      BY <1>10, <3>1 DEF Fresh
    <3>4. QED
      BY <1>9, <3>1, <3>2, <3>3 DEF Unclaimed
  <2>8. QED
    BY <1>2, <1>9, <1>10, <1>12, <2>5, <2>6, <2>7 DEF TransferTurns, LatestAsked, SameCall, Live
<1>18. \A d \in Clients, q \in Nodes : Passes(d, q, id) \/ TransferTurns(d, q)'
  BY <1>16, <1>17
<1>19. \A d \in Clients : CallTurns(d)'
  BY <1>10 DEF ContentInv, CallTurns
<1>20. QED
  BY <1>13, <1>15, <1>18, <1>19, ContentStep

LEMMA FinishBodyTurns ==
  ASSUME LatestTakesTurns, ServerInv, ContentInv, NEW c \in Clients, NEW p \in Nodes, FinishBody(c, p)
  PROVE  ContentInv'
<1> DEFINE x == xfer[c][p]
           s == Into(c, p)
           id == x.entry.id
           own == call[c].op = "share"
           e == IF own THEN [x.entry EXCEPT !.data = [of |-> Body(x.src).of, n |-> x.n]]
                       ELSE x.entry
           idx == IF own THEN AppendLatest(index[s], e) ELSE UpsertLatest(index[s], e)
           ids == Pruned(idx)
           next == [xfer EXCEPT ![c][p].pc = "check", ![c][p].entry = e]
<1>1. /\ x.pc = "recv"
      /\ index' = [index EXCEPT ![s] = pruneOldestVersions(idx)]
      /\ blob' = [blob EXCEPT ![s] = Without(blob[s], ids)]
      /\ xfer' = AfterDetach(next, s, ids)
      /\ history' = IF own THEN [history EXCEPT ![FileOf(s)] = @ \cup {e}] ELSE history
      /\ UNCHANGED call
  BY DEF FinishBody, Save, Detach, AfterDetach
<1>2. /\ TypeOK /\ OwnersKeyOnly /\ IdsUnique /\ ContentsOK /\ TransferTurns(c, p)
      /\ x.pc \in Live /\ x \in TransferRecord
  BY <1>1 DEF ServerInv, ContentInv, TypeOK, Live
<1>3. /\ id \in VersionIDs /\ id # NoVersion /\ blob[s][id] # NoBlob /\ s \in Shelves
      /\ writer[s] = <<c, p>>
  BY <1>1, ArrivingId
<1>4. e \in Entry /\ idx \in Index /\ e.id = id /\ (~own => e \in history[FileOf(s)])
  BY <1>1, FinishedEntry
<1>5. PICK v \in OfFile(c) : SourceIs(c, p, v)
  BY <1>2 DEF TransferTurns
<1>6. /\ ~own => e = v
      /\ own => e.data = [of |-> v.data.of, n |-> x.n] /\ blob[s][id].of = v.data.of
  <2>1. Body(x.src).of = v.data.of
    BY <1>2, <1>5, SourceContent DEF SourceIs
  <2>2. x.entry \in EntryOrNone
    BY <1>2 DEF TransferRecord, EntryOrNone
  <2>3. QED
    BY <1>1, <1>5, <2>1, <2>2 DEF SourceIs, EntryOrNone
<1>7. own => FileOf(s) = <<p, call[c].dest>> /\ Unclaimed(c, p)
  BY <1>1, <1>2, IntoShelf DEF FileOf, TransferTurns
<1>8. \A d \in Clients, q \in Nodes : LatestAsked(d, q) => s # Asked(d, q)
  BY <1>1, NotAsked
<1>9. FileOf(s) \in Files
  BY <1>2, <1>3, IndexTyped
<1>10. SameCall(c) /\ call'[c].id = call[c].id /\ Into(c, p)' = s
  BY <1>1, SameInto DEF SameCall
<1> HIDE DEF e, idx
<1>12. ids \in SUBSET VersionIDs
  BY <1>4, PrunedIndex
<1>13. \A i \in VersionIDs : Without(blob[s], ids)[i] = IF i \in ids THEN NoBlob ELSE blob[s][i]
  BY <1>2, <1>3, IndexTyped, WithoutBlobs
<1>14. /\ next \in [Clients -> [Nodes -> TransferRecord]]
       /\ next[c][p].pc = "check" /\ next[c][p].entry = e /\ next[c][p].n = x.n
       /\ next[c][p].src = x.src /\ next[c][p].want = x.want /\ next[c][p].res = x.res
       /\ \A d \in Clients, q \in Nodes : <<d, q>> # <<c, p>> => next[d][q] = xfer[d][q]
  <2>1. e \in EntryOrNone
    BY <1>4, EntryTypes
  <2>2. QED
    BY <1>2, <2>1 DEF TypeOK, TransferRecord, EntryOrNone
<1> HIDE DEF s, ids, next
<1>15. /\ \A t \in Shelves : t # s => index'[t] = index[t] /\ blob'[t] = blob[t]
       /\ \A i \in VersionIDs : blob'[s][i] \in {blob[s][i], NoBlob}
  BY <1>1, <1>2, <1>3, <1>13 DEF TypeOK
<1>16. \A t \in Shelves, i \in VersionIDs : blob'[t][i] \in {blob[t][i], NoBlob}
  BY <1>15
<1>17. /\ history'[FileOf(s)] = history[FileOf(s)] \cup {e}
       /\ \A f \in Files : f # FileOf(s) => history'[f] = history[f]
       /\ ~own => history' = history
  BY <1>1, <1>2, <1>4, <1>9 DEF TypeOK
<1>18. AddsOnly(id) /\ Entitled
  BY <1>4, <1>9, <1>16, <1>17 DEF AddsOnly, Entitled
<1>19. own => \A f \in Files : \A w \in history[f] : w.id # id
  BY <1>7 DEF Unclaimed
<1>20. IdsUnique'
  <2>1. CASE ~own
    BY <1>2, <1>17, <2>1 DEF IdsUnique
  <2>2. CASE own
    BY <1>2, <1>4, <1>9, <1>17, <1>19, <2>2 DEF IdsUnique
  <2>3. QED
    BY <2>1, <2>2
<1>21. ASSUME NEW t \in Shelves, NEW w \in history'[FileOf(t)], w.id \in VersionIDs,
              blob'[t][w.id] # NoBlob
       PROVE  blob'[t][w.id].of = w.data.of
  <2>1. blob'[t][w.id] = blob[t][w.id]
    BY <1>16, <1>21
  <2>2. FileOf(t) \in Files
    BY <1>2, IndexTyped
  <2>3. CASE w \in history[FileOf(t)]
    BY <1>2, <1>21, <2>1, <2>3 DEF ContentsOK
  <2>4. CASE w \notin history[FileOf(t)]
    <3>1. own /\ w = e
      BY <1>17, <2>2, <2>4
    <3>2. t = s
      <4>1. t # s => blob[t][id] = NoBlob
        BY <1>7, <3>1 DEF Unclaimed, s
      <4>2. QED
        BY <1>4, <1>21, <2>1, <3>1, <4>1
    <3>3. QED
      BY <1>4, <1>6, <2>1, <3>1, <3>2
  <2>5. QED
    BY <2>3, <2>4
<1>22. ContentsOK'
  <2>1. \A t \in Shelves : \A w \in history'[FileOf(t)] : w.id \in VersionIDs
    <3>1. \A t \in Shelves : FileOf(t) \in Files /\ \A w \in history[FileOf(t)] : w.id \in VersionIDs
      BY <1>2, IndexTyped, EntryTypes
    <3>2. QED
      BY <1>3, <1>4, <1>17, <3>1
  <2>2. QED
    BY <1>21, <2>1 DEF ContentsOK
<1>23. ASSUME NEW d \in Clients, NEW q \in Nodes, <<d, q>> # <<c, p>>
       PROVE  Passes(d, q, id)
  <2>1. writer[s] # <<d, q>> /\ call'[d] = call[d] /\ next[d][q] = xfer[d][q]
    BY <1>1, <1>3, <1>14, <1>23
  <2>2. xfer[d][q].pc = "recv" /\ call[d].op = "share" => xfer[d][q].entry.id # id
    <3> HAVE xfer[d][q].pc = "recv" /\ call[d].op = "share"
    <3>1. Unclaimed(d, q)
      BY DEF ContentInv, TransferTurns
    <3>2. CASE own
      <4>1. Into(d, q) \in Shelves /\ Into(d, q) # s /\ blob[Into(d, q)][xfer[d][q].entry.id] # NoBlob
        BY <2>1, ArrivingId
      <4>2. blob[Into(d, q)][id] = NoBlob
        BY <1>7, <3>2, <4>1 DEF Unclaimed, s
      <4>3. QED
        BY <4>1, <4>2
    <3>3. CASE ~own
      BY <1>4, <1>9, <3>1, <3>3 DEF Unclaimed
    <3>4. QED
      BY <3>2, <3>3
  <2>3. QED
    BY <1>1, <1>3, <1>8, <1>12, <1>14, <1>15, <2>1, <2>2, DetachedPasses
<1>24. TransferTurns(c, p)'
  <2>1. /\ xfer'[c][p].pc = "check" /\ xfer'[c][p].entry = e
        /\ xfer'[c][p].n = x.n /\ xfer'[c][p].want = x.want /\ xfer'[c][p].res = x.res
    BY <1>1, <1>2, <1>3, <1>12, <1>14, DetachKeeps
  <2>2. SourceStays(c, p)
    BY <1>1, <1>2, <1>3, <1>12, <1>14, DetachedStays
  <2>3. SourceNames(c, p, v)'
    BY <1>2, <1>5, <1>10, <2>2, NamesStay DEF SourceIs
  <2>4. v \in OfFile(c)'
    BY <1>1, <1>2, <1>18, FileOfCall DEF OfFile, Entitled
  <2>5. SourceIs(c, p, v)'
    BY <1>1, <1>5, <1>6, <2>1, <2>3 DEF SourceIs
  <2>6. call'[c].op = "share" => xfer'[c][p].entry \in history'[<<p, call'[c].dest>>]
    BY <1>1, <1>7, <1>17, <2>1
  <2>7. QED
    BY <1>1, <1>2, <2>1, <2>4, <2>5, <2>6 DEF TransferTurns, LatestAsked, Live
<1>25. \A d \in Clients, q \in Nodes : Passes(d, q, id) \/ TransferTurns(d, q)'
  BY <1>23, <1>24
<1>26. \A d \in Clients : CallTurns(d)'
  BY <1>1 DEF ContentInv, CallTurns
<1>27. QED
  BY <1>18, <1>20, <1>22, <1>25, <1>26, ContentStep

-----------------------------------------------------------------------------
(* The client's own writes.                                                *)
(***************************************************************************)
LEMMA WriteLocalTurns ==
  ASSUME ServerInv, ContentInv, NEW c \in Clients, call[c].pc = "idle",
         NEW k \in Keys, NEW id \in Fresh, Written(c, k, id),
         NEW next \in [Clients -> [Nodes -> TransferRecord]],
         xfer' = AfterDetach(next, Own(c, k), Pruned(NewIndex(c, k, id))),
         \A d \in Clients : d # c => call'[d] = call[d] /\ next[d] = xfer[d],
         CallTurns(c)',
         \A p \in Nodes :
           /\ next[c][p].pc # "idle" => p # At[c]
           /\ \/ next[c][p].pc \in {"idle", "end"}
              \/ next[c][p].pc = "open" /\ call'[c].op # "none"
           /\ next[c][p].res = "ok" => next[c][p].pc = "end" /\ call'[c].op # "share"
  PROVE  ContentInv'
<1> DEFINE s == Own(c, k)
           e == NewEntry(c, k, id)
           idx == NewIndex(c, k, id)
           ids == Pruned(idx)
           b == [of |-> id, for |-> At[c], n |-> Blocks]
           blobs == [blob[s] EXCEPT ![id] = b]
<1>1. /\ index' = [index EXCEPT ![s] = pruneOldestVersions(idx)]
      /\ blob' = [blob EXCEPT ![s] = Without(blobs, ids)]
      /\ writer[s] = Nobody
      /\ history' = [history EXCEPT ![FileOf(s)] = @ \cup {e}]
      /\ xfer' = AfterDetach(next, s, ids)
  BY DEF Written, Save
<1>2. TypeOK /\ OwnersKeyOnly /\ IdsUnique /\ ContentsOK
  BY DEF ServerInv, ContentInv
<1>3. s \in Shelves /\ FileOf(s) \in Files /\ id \in VersionIDs
  BY <1>2, OwnShelf, IndexTyped DEF Fresh
<1>4. /\ e \in Entry /\ idx \in Index /\ b \in Blob
      /\ e.id = id /\ e.data.of = id /\ b.of = id
  BY <1>2, <1>3, NewEntryOK DEF NewEntry
<1>5. /\ \A t \in Shelves : blob[t][id] = NoBlob
      /\ \A f \in Files : \A w \in history[f] : w.id # id
      /\ \A d \in Clients, q \in Nodes : xfer[d][q].entry.id # id
  BY DEF Fresh
<1>6. \A d \in Clients, q \in Nodes : LatestAsked(d, q) => s # Asked(d, q)
  BY OwnNotAsked
<1> HIDE DEF s, e, idx, b
<1>7. ids \in SUBSET VersionIDs
  BY <1>4, PrunedIndex
<1>8. /\ blobs \in [VersionIDs -> Blob \cup {NoBlob}]
      /\ \A i \in VersionIDs : blobs[i] = IF i = id THEN b ELSE blob[s][i]
  BY <1>2, <1>3, <1>4, IndexTyped
<1> HIDE DEF blobs, ids
<1>9. \A i \in VersionIDs : Without(blobs, ids)[i] = IF i \in ids THEN NoBlob ELSE blobs[i]
  BY <1>8, WithoutBlobs
<1>10. /\ \A t \in Shelves : t # s => index'[t] = index[t] /\ blob'[t] = blob[t]
       /\ \A i \in VersionIDs : blob'[s][i] = IF i \in ids THEN NoBlob
                                              ELSE IF i = id THEN b ELSE blob[s][i]
  BY <1>1, <1>2, <1>3, <1>8, <1>9 DEF TypeOK
<1>11. \A t \in Shelves, i \in VersionIDs :
         i # id => blob'[t][i] \in {blob[t][i], NoBlob}
  BY <1>10
<1>12. /\ history'[FileOf(s)] = history[FileOf(s)] \cup {e}
       /\ \A f \in Files : f # FileOf(s) => history'[f] = history[f]
  BY <1>1, <1>2, <1>3 DEF TypeOK
<1>13. AddsOnly(id) /\ Entitled
  BY <1>4, <1>11, <1>12 DEF AddsOnly, Entitled
<1>14. IdsUnique'
  BY <1>2, <1>3, <1>4, <1>5, <1>12 DEF IdsUnique
<1>15. \A t \in Shelves : FileOf(t) \in Files /\ \A w \in history[FileOf(t)] : w.id \in VersionIDs
  BY <1>2, IndexTyped, EntryTypes
<1>16. ASSUME NEW t \in Shelves, NEW w \in history'[FileOf(t)], blob'[t][w.id] # NoBlob
       PROVE  blob'[t][w.id].of = w.data.of
  <2>1. CASE w \in history[FileOf(t)]
    <3>1. w.id # id /\ w.id \in VersionIDs
      BY <1>5, <1>15, <2>1
    <3>2. blob'[t][w.id] = blob[t][w.id]
      BY <1>11, <1>16, <3>1
    <3>3. QED
      BY <1>2, <1>16, <2>1, <3>2 DEF ContentsOK
  <2>2. CASE w \notin history[FileOf(t)]
    <3>1. w = e
      BY <1>12, <1>15, <2>2
    <3>2. t # s => blob'[t][id] = NoBlob
      BY <1>5, <1>10
    <3>3. QED
      BY <1>3, <1>4, <1>10, <1>16, <3>1, <3>2
  <2>3. QED
    BY <2>1, <2>2
<1>17. ContentsOK'
  BY <1>16 DEF ContentsOK
<1>18. ASSUME NEW d \in Clients, NEW q \in Nodes, d # c PROVE Passes(d, q, id)
  <2>1. <<d, q>> # Nobody
    BY FileServerAssumption
  <2>2. writer[s] # <<d, q>> /\ call'[d] = call[d] /\ next[d][q] = xfer[d][q]
    BY <1>1, <1>18, <2>1
  <2>3. xfer[d][q].entry.id # id
    BY <1>5
  <2>4. QED
    BY <1>1, <1>3, <1>6, <1>7, <1>10, <2>2, <2>3, DetachedPasses, SMTT(20), ZenonT(60)
<1>19. ASSUME NEW p \in Nodes PROVE TransferTurns(c, p)'
  <2>1. /\ xfer'[c][p].pc = next[c][p].pc /\ xfer'[c][p].res = next[c][p].res
    BY <1>1, <1>2, <1>3, <1>7, DetachKeeps
  <2>2. /\ xfer'[c][p].pc # "idle" => p # At[c]
        /\ xfer'[c][p].pc \in {"idle", "end", "open"}
        /\ xfer'[c][p].pc = "open" => call'[c].op # "none"
        /\ xfer'[c][p].res = "ok" => xfer'[c][p].pc = "end" /\ call'[c].op # "share"
    BY <2>1
  <2>3. QED
    BY <2>2 DEF TransferTurns, LatestAsked, Live
<1>20. \A d \in Clients, q \in Nodes : Passes(d, q, id) \/ TransferTurns(d, q)'
  BY <1>18, <1>19
<1>21. ASSUME NEW d \in Clients PROVE CallTurns(d)'
  <2>1. CASE d # c
    <3>1. CallTurns(d) /\ call'[d] = call[d]
      BY <2>1 DEF ContentInv
    <3>2. QED
      BY <3>1 DEF CallTurns
  <2>2. QED
    BY <2>1
<1>22. QED
  BY <1>13, <1>14, <1>17, <1>20, <1>21, ContentStep

LEMMA StoreVersionTurns ==
  ASSUME ServerInv, ContentInv, NEW c \in Clients, StoreVersion(c) PROVE ContentInv'
<1>1. PICK k \in Keys, id \in Fresh, connected \in Peers(At[c]) :
        \E peers \in selectPeers(connected) :
          /\ Idle(c, "put")
          /\ WriteLocal(c, k, id, Fan(c, peers))
          /\ call' = [call EXCEPT ![c] =
               [NoCall EXCEPT !.pc = "fan", !.op = "put", !.key = k,
                              !.entry = NewEntry(c, k, id)]]
  BY DEF StoreVersion, NewEntry
<1>2. PICK peers \in selectPeers(connected) :
        /\ Idle(c, "put")
        /\ WriteLocal(c, k, id, Fan(c, peers))
        /\ call' = [call EXCEPT ![c] =
             [NoCall EXCEPT !.pc = "fan", !.op = "put", !.key = k,
                            !.entry = NewEntry(c, k, id)]]
  BY <1>1
<1>3. TypeOK /\ call[c].pc = "idle" /\ "put" \in Ops[c]
  BY <1>2 DEF ServerInv, Idle
<1>4. /\ Written(c, k, id)
      /\ xfer' = AfterDetach(Fan(c, peers), Own(c, k), Pruned(NewIndex(c, k, id)))
  BY <1>2 DEF WriteLocal, Written, NewIndex, NewEntry, Detach, AfterDetach
<1>5. call'[c].pc = "fan" /\ call'[c].op = "put"
  BY <1>2, <1>3 DEF TypeOK, NoCall
<1>6. \A d \in Clients : d # c => call'[d] = call[d]
  BY <1>2, <1>3 DEF TypeOK
<1>7. /\ Fan(c, peers) \in [Clients -> [Nodes -> TransferRecord]]
      /\ \A d \in Clients : d # c => Fan(c, peers)[d] = xfer[d]
      /\ \A p \in Nodes : Fan(c, peers)[c][p] \in {Opening, NoTransfer}
  BY <1>3, FanTyped
<1>8. At[c] \notin peers
  <2>1. At[c] \in Nodes
    BY FileServerAssumption
  <2>2. connected \subseteq Nodes \ {At[c]}
    BY <2>1, PeersAreNodes
  <2>3. peers \subseteq connected
    BY <1>2 DEF selectPeers
  <2>4. QED
    BY <2>2, <2>3
<1>9. \A p \in Nodes : Fan(c, peers)[c][p] = IF p \in peers THEN Opening ELSE NoTransfer
  BY <1>3 DEF Fan, TypeOK
<1>10. /\ Opening.pc = "open" /\ Opening.res = "none"
       /\ NoTransfer.pc = "idle" /\ NoTransfer.res = "none"
  BY DEF Opening, NoTransfer
<1>11. CallTurns(c)'
  BY <1>3, <1>5 DEF CallTurns
<1>12. ASSUME NEW p \in Nodes
       PROVE  /\ Fan(c, peers)[c][p].pc # "idle" => p # At[c]
              /\ \/ Fan(c, peers)[c][p].pc \in {"idle", "end"}
                 \/ Fan(c, peers)[c][p].pc = "open" /\ call'[c].op # "none"
              /\ Fan(c, peers)[c][p].res = "ok" =>
                   Fan(c, peers)[c][p].pc = "end" /\ call'[c].op # "share"
  BY <1>5, <1>8, <1>9, <1>10
<1>13. QED
  BY <1>3, <1>4, <1>6, <1>7, <1>11, <1>12, WriteLocalTurns

LEMMA StoreLocalTurns ==
  ASSUME ServerInv, ContentInv, NEW c \in Clients, StoreLocal(c) PROVE ContentInv'
<1>1. PICK k \in Keys, id \in Fresh, targets \in Targets(c) :
        /\ Idle(c, "shareLoose")
        /\ WriteLocal(c, k, id, xfer)
        /\ call' = [call EXCEPT ![c] = [NoCall EXCEPT !.pc = "stored", !.key = k, !.left = targets]]
  BY DEF StoreLocal
<1>2. TypeOK /\ call[c].pc = "idle"
  BY <1>1 DEF ServerInv, Idle
<1>3. /\ Written(c, k, id)
      /\ xfer' = AfterDetach(xfer, Own(c, k), Pruned(NewIndex(c, k, id)))
  BY <1>1 DEF WriteLocal, Written, NewIndex, NewEntry, Detach, AfterDetach
<1>4. call'[c].pc = "stored" /\ call'[c].op = "none" /\ call'[c].left = targets
  BY <1>1, <1>2 DEF TypeOK, NoCall
<1>5. \A d \in Clients : d # c => call'[d] = call[d]
  BY <1>1, <1>2 DEF TypeOK
<1>6. xfer \in [Clients -> [Nodes -> TransferRecord]]
  BY <1>2 DEF TypeOK
<1>7. \A p \in Nodes : xfer[c][p].pc \in {"idle", "end"}
  BY <1>2, RestingTransfers DEF Resting
<1>8. CallTurns(c)'
  BY <1>4, TargetsElsewhere DEF CallTurns
<1>9. ASSUME NEW p \in Nodes
      PROVE  /\ xfer[c][p].pc # "idle" => p # At[c]
             /\ xfer[c][p].res = "ok" => xfer[c][p].pc = "end" /\ call'[c].op # "share"
  <2>1. TransferTurns(c, p)
    BY DEF ContentInv
  <2>2. QED
    BY <1>4, <2>1 DEF TransferTurns
<1>10. QED
  BY <1>2, <1>3, <1>5, <1>6, <1>7, <1>8, <1>9, WriteLocalTurns

-----------------------------------------------------------------------------
(* The invariant, and what follows from it.                                *)
(***************************************************************************)
LEMMA ContentInvInit ==
  ASSUME Init PROVE ContentInv
<1>1. IdsUnique
  BY DEF Init, IdsUnique
<1>2. ContentsOK
  BY IndexTyped, ServerInvInit DEF Init, ContentsOK, ServerInv
<1>3. \A c \in Clients : CallTurns(c)
  BY DEF Init, CallTurns, NoCall
<1>4. ASSUME NEW c \in Clients, NEW p \in Nodes PROVE TransferTurns(c, p)
  <2>1. xfer[c][p].pc = "idle" /\ xfer[c][p].res = "none"
    BY DEF Init, NoTransfer
  <2>2. QED
    BY <2>1 DEF TransferTurns, LatestAsked, Live
<1>5. QED
  BY <1>1, <1>2, <1>3, <1>4 DEF ContentInv

LEMMA ContentInvStep ==
  ASSUME LatestTakesTurns, ServerInv, ContentInv, [Next]_vars PROVE ContentInv'
<1>1. ASSUME NEW c \in Clients, Begin(c) PROVE ContentInv'
  BY <1>1, StoreVersionTurns, ShareTurns, StoreLocalTurns, DeleteTurns, GetVersionTurns,
     DisconnectTurns DEF Begin
<1>2. ASSUME NEW c \in Clients, Proceed(c) PROVE ContentInv'
  BY <1>2, ShareTurns, ReadHereTurns, TryTurns, FetchedTurns, FanDoneTurns, ForgetTurns DEF Proceed
<1>3. ASSUME NEW c \in Clients, NEW p \in Nodes, Transfer(c, p) PROVE ContentInv'
  BY <1>3, OpenLocalTurns, VersionInfoTurns, ReadVersionRawTurns, ReceiveTurns, BlockTurns,
     FinishBodyTurns, CheckCountTurns, ReplyTurns DEF Transfer
<1>4. ASSUME NEW c \in Clients, NEW p \in Nodes, GiveUp(c, p) \/ Break(c, p) PROVE ContentInv'
  BY <1>4, GiveUpTurns, BreakTurns
<1>5. CASE UNCHANGED vars
  BY <1>5, DiskContent DEF vars
<1>6. QED
  BY <1>1, <1>2, <1>3, <1>4, <1>5, CrashTurns DEF Next

LEMMA ContentInvHolds ==
  ASSUME LatestTakesTurns PROVE Spec => [](ServerInv /\ ContentInv)
<1>1. Init => ServerInv /\ ContentInv
  BY ServerInvInit, ContentInvInit
<1>2. ServerInv /\ ContentInv /\ [Next]_vars => (ServerInv /\ ContentInv)'
  BY ServerInvStep, ContentInvStep
<1>3. QED
  BY <1>1, <1>2, PTL DEF Spec

\* What Share reports to its caller: each placement it counts is a version that
\* the recipient's handleShare made, with all the bytes of a version the sender
\* has had of that key, and of the very version that was named, whatever is put,
\* pruned, deleted, shared, cut off or restarted between the opening of the file
\* and the reply.
THEOREM SharesAreFaithful ==
  ASSUME LatestTakesTurns PROVE Spec => []ShareFaithful
<1>1. ContentInv => ShareFaithful
  BY DEF ContentInv, TransferTurns, Placed, OfFile, ShareFaithful
<1>2. QED
  BY <1>1, ContentInvHolds, PTL

\* A get that names a version gets that version's metadata and that version's blob:
\* between handleGet's VersionInfo and its ReadVersionRaw other clients may put the
\* same key, or push short bodies that are taken back, and so change the shelf it
\* answers from, but the name finds the same version, or none.  (For a get of the
\* latest, run ServerMeta shows that it is not so.)
NamedMetaDescribesBlob ==
    \A c \in Clients, p \in Nodes :
        LET x == xfer[c][p]
        IN  call[c].op = "get" /\ call[c].id # NoVersion
              /\ x.pc \in {"ready", "recv", "check", "good"} =>
            x.entry.id = call[c].id /\ Body(x.src).of = x.entry.data.of

THEOREM NamedGetsMatch ==
  ASSUME LatestTakesTurns PROVE Spec => []NamedMetaDescribesBlob
<1>1. ASSUME ServerInv, ContentInv, NEW c \in Clients, NEW p \in Nodes,
             call[c].op = "get", call[c].id # NoVersion, xfer[c][p].pc \in Live
      PROVE  /\ xfer[c][p].entry.id = call[c].id
             /\ Body(xfer[c][p].src).of = xfer[c][p].entry.data.of
  <2>1. PICK e \in OfFile(c) : SourceIs(c, p, e)
    BY <1>1 DEF ContentInv, TransferTurns
  <2>2. Body(xfer[c][p].src).of = e.data.of
    BY <1>1, <2>1, SourceContent DEF ContentInv, SourceIs
  <2>3. QED
    BY <1>1, <2>1, <2>2 DEF SourceIs
<1>2. ServerInv /\ ContentInv => NamedMetaDescribesBlob
  BY <1>1 DEF NamedMetaDescribesBlob, Live
<1>3. QED
  BY <1>2, ContentInvHolds, PTL
=============================================================================
