----------------------------- MODULE FileServer ------------------------------
(***************************************************************************)
(* The file servers of several nodes (internal/server): puts that write    *)
(* locally and push a copy to each peer (sendBlob to handleStore), gets    *)
(* that read locally or fetch the blob back (fetchBlob to handleGet), and  *)
(* shares that push plaintext (sendReadable to handleShare).               *)
(*                                                                         *)
(* A transfer is one stream between client c's node and peer p, with both  *)
(* of its ends in one record.  In a push the handler at p receives the     *)
(* body, in a fetch the client does; either way the receiver holds the     *)
(* write lock of the shelf it fills from the first block to saveIndex, and *)
(* compares what arrived with what was promised only after that.           *)
(*                                                                         *)
(* The store is used as module Store shows it to work: a section under a   *)
(* lock is one step, except where a body arrives from the network in the   *)
(* middle of it.  SHA-1 prefixes are taken to differ.  The header of a     *)
(* message travels with the step that follows it.  Authorizer is AllowAll. *)
(***************************************************************************)
EXTENDS VersionIndex, FiniteSets

CONSTANTS Nodes, Keys,
          Clients,            \* callers of the file servers
          At,                 \* At[c]: the node c calls
          Nobody,             \* no transfer holds the lock
          Blocks,             \* blocks of a complete file
          ReplicationFactor,  \* Config.ReplicationFactor; 0 means every peer
          Ops,                \* Ops[c]: what client c does
          Faults              \* what may go wrong: a subset of AllFaults

AllOps == {"put", "get", "getLatest", "share", "shareLoose", "delete", "disconnect"}
AllFaults == {"net", "peers", "short", "crash"}

ASSUME FileServerAssumption ==
    /\ Keys # {}
    /\ At \in [Clients -> Nodes]
    /\ Nobody \notin Clients \X Nodes
    /\ Blocks \in Nat \ {0}
    /\ ReplicationFactor \in Nat
    /\ Ops \in [Clients -> SUBSET AllOps]
    /\ Faults \subseteq AllFaults

\* A shelf <<n, o, k>> is what node n keeps of key k in o's namespace.
Shelves == Nodes \X Nodes \X Keys
Own(c, k) == <<At[c], At[c], k>>
FileOf(s) == <<s[2], s[3]>>
Files == Nodes \X Keys

VARIABLES
    index,      \* index[s]: the index file of a shelf
    blob,       \* blob[s][id]: the blob file of a version, or NoBlob
    writer,     \* writer[s]: the transfer <<c, p>> that holds the shelf's lock
    call,       \* call[c]: the client's call (held is a ghost, set by GetVersion)
    xfer,       \* xfer[c][p]: the stream between that call and peer p
    history,    \* ghost: history[f] is every entry WriteVersion made for a file
    confirmed   \* ghost: <<s, id>> for every replica a peer confirmed

disk == <<index, blob>>
vars == <<index, blob, writer, call, xfer, history, confirmed>>

-----------------------------------------------------------------------------
(* Data.  "of" is the version whose content it is, "for" the node under    *)
(* whose key it is encrypted, n its blocks.                                *)
(***************************************************************************)
IdOrNone == VersionIDs \cup {NoVersion}
NoBlob == [of |-> NoVersion, for |-> Nobody, n |-> -1]
Content == [of : IdOrNone, n : 0 .. Blocks]
NoContent == [of |-> NoVersion, n |-> 0]
NoEntry == [id |-> NoVersion, seq |-> 0, data |-> NoContent]

\* An open file: of the store while it has a name, or its own bytes.
NoFile == [shelf |-> <<>>, id |-> NoVersion, data |-> NoBlob]
Body(file) == IF file.id = NoVersion THEN file.data ELSE blob[file.shelf][file.id]
Opened(s, id) == [shelf |-> s, id |-> id, data |-> NoBlob]

NoCall == [pc |-> "idle", op |-> "none", key |-> CHOOSE k \in Keys : TRUE,
           dest |-> CHOOSE k \in Keys : TRUE, id |-> NoVersion, entry |-> NoEntry,
           left |-> {}, got |-> NoContent, held |-> FALSE]
NoTransfer == [pc |-> "idle", entry |-> NoEntry, src |-> NoFile, want |-> 0,
               n |-> 0, res |-> "none"]
Opening == [NoTransfer EXCEPT !.pc = "open"]

Pushes == {"put", "share"}
\* A new id is random: nobody has it or has asked for it.
Fresh == {id \in VersionIDs :
            /\ \A s \in Shelves : blob[s][id] = NoBlob
            /\ \A f \in Files : \A e \in history[f] : e.id # id
            /\ \A c \in Clients : call[c].id # id
            /\ \A c \in Clients, p \in Nodes : xfer[c][p].entry.id # id}

\* node.Peers(): whom libp2p happens to be connected to.
Peers(n) == IF "peers" \in Faults THEN SUBSET (Nodes \ {n}) ELSE {Nodes \ {n}}

\* selectPeers: all of them, or as many as the replication factor says.
selectPeers(connected) ==
    IF ReplicationFactor > 0 /\ Cardinality(connected) > ReplicationFactor
      THEN {P \in SUBSET connected : Cardinality(P) = ReplicationFactor}
      ELSE {connected}

\* What opening a version of a shelf needs.
Readable(s, id) ==
    /\ CanResolve(index[s], id)
    /\ blob[s][resolveVersion(index[s], id).id] # NoBlob

\* The bound on new versions: the pool of ids is finite, and a call begins only
\* while there are ids left for it and for every share under way.
Reserved == Cardinality({t \in Clients \X Nodes :
              \/ call[t[1]].op = "share" /\ xfer[t[1]][t[2]].pc \in {"open", "ready"}
              \/ call[t[1]].pc = "stored" /\ t[2] \in call[t[1]].left})
Room(m) == Cardinality(Fresh) >= Reserved + m

\* The files at these ids of a shelf lose their names.
Detached(x, s, ids) ==
    IF x.src.id \in ids /\ x.src.shelf = s
      THEN [x EXCEPT !.src = [NoFile EXCEPT !.data = blob[s][x.src.id]]] ELSE x
Detach(next, s, ids) ==
    xfer' = [c \in Clients |-> [p \in Nodes |-> Detached(next[c][p], s, ids)]]
Without(blobs, ids) == [id \in VersionIDs |-> IF id \in ids THEN NoBlob ELSE blobs[id]]

\* The end of a write: the index saved, what it pruned gone.
Pruned(idx) == LET ids == PrunedIds(idx) IN {ids[i] : i \in DOMAIN ids}
Save(s, idx, blobs) ==
    /\ index' = [index EXCEPT ![s] = pruneOldestVersions(idx)]
    /\ blob' = [blob EXCEPT ![s] = Without(blobs, Pruned(idx))]

-----------------------------------------------------------------------------
(* The client's calls.                                                     *)
(***************************************************************************)
Idle(c, op) == op \in Ops[c] /\ call[c].pc = "idle"
Fan(c, peers) == [xfer EXCEPT ![c] = [p \in Nodes |-> IF p \in peers THEN Opening ELSE NoTransfer]]

\* Store.WriteVersion of the client's bytes, whole.
WriteLocal(c, k, id, next) ==
    LET s == Own(c, k)
        e == [id |-> id, seq |-> nextSeq(index[s]), data |-> [of |-> id, n |-> Blocks]]
        idx == AppendLatest(index[s], e)
    IN  /\ writer[s] = Nobody
        /\ Save(s, idx, [blob[s] EXCEPT ![id] = [of |-> id, for |-> At[c], n |-> Blocks]])
        /\ Detach(next, s, Pruned(idx))
        /\ history' = [history EXCEPT ![FileOf(s)] = @ \cup {e}]
        /\ UNCHANGED <<writer, confirmed>>

\* StoreVersion: the local write, then replicate to the selected peers.
StoreVersion(c) ==
    \E k \in Keys, id \in Fresh, connected \in Peers(At[c]) :
      \E peers \in selectPeers(connected) :
        /\ Idle(c, "put")
        /\ Room(1)
        /\ WriteLocal(c, k, id, Fan(c, peers))
        /\ call' = [call EXCEPT ![c] =
             [NoCall EXCEPT !.pc = "fan", !.op = "put", !.key = k,
                            !.entry = [id |-> id, seq |-> nextSeq(index[Own(c, k)]),
                                       data |-> [of |-> id, n |-> Blocks]]]]

\* ResolveTargets: some of the connected peers, and at least one.
Targets(c) == UNION {SUBSET P \ {{}} : P \in Peers(At[c])}

\* Share, once the targets are known: the key must be here.
ShareTo(c, k, dest, id, targets) ==
    /\ writer[Own(c, k)] = Nobody
    /\ IF index[Own(c, k)].latest # NoVersion
         THEN /\ xfer' = Fan(c, targets)
              /\ call' = [call EXCEPT ![c].pc = "fan", ![c].op = "share", ![c].key = k,
                                      ![c].dest = dest, ![c].id = id, ![c].left = {}]
         ELSE /\ call' = [call EXCEPT ![c].pc = "returned"]
              /\ UNCHANGED xfer
    /\ UNCHANGED <<index, blob, writer, history, confirmed>>
Share(c) ==
    \E k, dest \in Keys, id \in IdOrNone, targets \in Targets(c) :
        /\ Idle(c, "share")
        /\ Room(Cardinality(targets))
        /\ ShareTo(c, k, dest, id, targets)

\* The API's share of a loose file: the targets, StoreLocal, then Share of the
\* key, of its latest version or of the one the request names.
StoreLocal(c) ==
    \E k \in Keys, id \in Fresh, targets \in Targets(c) :
        /\ Idle(c, "shareLoose")
        /\ Room(1 + Cardinality(targets))
        /\ WriteLocal(c, k, id, xfer)
        /\ call' = [call EXCEPT ![c] =
             [NoCall EXCEPT !.pc = "stored", !.key = k, !.left = targets]]
ShareStored(c) ==
    /\ call[c].pc = "stored"
    /\ \E dest \in Keys, id \in IdOrNone : ShareTo(c, call[c].key, dest, id, call[c].left)

\* Delete of one of the node's own keys.
Delete(c) ==
    \E k \in Keys :
        LET s == Own(c, k)
            ids == IdsOf(index[s].versions)
        IN  /\ Idle(c, "delete")
            /\ writer[s] = Nobody
            /\ index' = [index EXCEPT ![s] = EmptyIndex]
            /\ blob' = [blob EXCEPT ![s] = Without(@, ids)]
            /\ Detach(xfer, s, ids)
            /\ UNCHANGED <<writer, call, history, confirmed>>

ReadLocal(c, k, id) ==
    LET b == blob[Own(c, k)][resolveVersion(index[Own(c, k)], id).id]
    IN  [of |-> b.of, n |-> b.n]
\* Some peer has confirmed a replica of this version of the file.
Confirmed(f, id) == \E r \in confirmed : FileOf(r[1]) = f /\ r[2] = id
\* GetVersion: Has.  A key that is not here is asked of the peers.
GetVersion(c) ==
    \E k \in Keys, id \in IdOrNone, connected \in Peers(At[c]) :
      LET has == index[Own(c, k)].latest # NoVersion
      IN  /\ Idle(c, IF id = NoVersion THEN "getLatest" ELSE "get")
          /\ writer[Own(c, k)] = Nobody
          /\ call' = [call EXCEPT ![c] =
               [NoCall EXCEPT !.pc = IF has THEN "here" ELSE "try", !.op = "get",
                              !.key = k, !.id = id, !.left = IF has THEN @ ELSE connected,
                              !.held = Confirmed(<<At[c], k>>, id)]]
          /\ UNCHANGED <<index, blob, writer, xfer, history, confirmed>>
\* Then ReadVersion, under the lock anew; a version that is not here, or no longer,
\* is asked of the peers, one at a time.
ReadHere(c) ==
    LET k == call[c].key
        id == call[c].id
    IN  /\ call[c].pc = "here"
        /\ writer[Own(c, k)] = Nobody
        /\ \/ /\ Readable(Own(c, k), id)
              /\ call' = [call EXCEPT ![c].pc = "returned", ![c].got = ReadLocal(c, k, id)]
           \/ /\ ~Readable(Own(c, k), id)
              /\ \E connected \in Peers(At[c]) :
                   call' = [call EXCEPT ![c].pc = "try", ![c].left = connected]
        /\ UNCHANGED <<index, blob, writer, xfer, history, confirmed>>
Try(c) ==
    /\ call[c].pc = "try"
    /\ \/ \E p \in call[c].left :
            /\ xfer' = [xfer EXCEPT ![c][p] = Opening]
            /\ call' = [call EXCEPT ![c].pc = "fetch", ![c].left = @ \ {p}]
       \/ /\ call[c].left = {}
          /\ call' = [call EXCEPT ![c].pc = "returned"]
          /\ UNCHANGED xfer
    /\ UNCHANGED <<index, blob, writer, history, confirmed>>
\* Mutant of Fetched: gives up at the first peer that does not have it.
FetchedOnce(c) ==
    LET k == call[c].key
        id == call[c].id
        ok == \E p \in Nodes : xfer[c][p].res = "ok"
    IN  /\ call[c].pc = "fetch"
        /\ \A p \in Nodes : xfer[c][p].pc \in {"idle", "end"}
        /\ ok => writer[Own(c, k)] = Nobody
        /\ call' = [call EXCEPT
             ![c].pc = "returned",
             ![c].got = IF ok /\ Readable(Own(c, k), id) THEN ReadLocal(c, k, id) ELSE @]
        /\ UNCHANGED <<index, blob, writer, xfer, history, confirmed>>

Fetched(c) ==
    LET k == call[c].key
        id == call[c].id
        ok == \E p \in Nodes : xfer[c][p].res = "ok"
    IN  /\ call[c].pc = "fetch"
        /\ \A p \in Nodes : xfer[c][p].pc \in {"idle", "end"}
        /\ ok => writer[Own(c, k)] = Nobody
        /\ call' = [call EXCEPT
             ![c].pc = IF ok THEN "returned" ELSE "try",
             ![c].got = IF ok /\ Readable(Own(c, k), id) THEN ReadLocal(c, k, id) ELSE @]
        /\ UNCHANGED <<index, blob, writer, xfer, history, confirmed>>

\* wg.Wait: every peer has been given a result.
FanDone(c) ==
    /\ call[c].pc = "fan"
    /\ \A p \in Nodes : xfer[c][p].pc # "idle" => xfer[c][p].res # "none"
    /\ call' = [call EXCEPT ![c].pc = "returned"]
    /\ UNCHANGED <<index, blob, writer, xfer, history, confirmed>>

\* The client is free again, once the handlers its streams left behind are done.
\* (In the code nobody waits for them.  A caller that goes on meanwhile is another
\* client here, of which there may be any number; under a hypothesis that a node's
\* calls are one client's, it says that they wait for these handlers too.)
Forget(c) ==
    /\ call[c].pc \in {"returned", "gone"}
    /\ \A p \in Nodes : xfer[c][p].pc \in {"idle", "end"}
    /\ call' = [call EXCEPT ![c] = NoCall]
    /\ xfer' = [xfer EXCEPT ![c] = [p \in Nodes |-> NoTransfer]]
    /\ UNCHANGED <<index, blob, writer, history, confirmed>>

-----------------------------------------------------------------------------
(* A transfer, up to the body: the source is opened and a size promised.   *)
(***************************************************************************)
Become(c, p, pc) == xfer' = [xfer EXCEPT ![c][p].pc = pc]
Pushing(c) == call[c].op \in Pushes

\* Where the body of c's transfer with p comes to rest: a custodian's shelf, the
\* recipient's own, or the client's own.
Into(c, p) ==
    CASE call[c].op = "put"   -> <<p, At[c], call[c].key>>
      [] call[c].op = "share" -> <<p, p, call[c].dest>>
      [] OTHER                -> Own(c, call[c].key)

\* Mutant of OpenLocal: shares the latest version, whichever was named.
OpenLocalLatest(c, p) ==
    LET s == Own(c, call[c].key)
        id == IF call[c].op = "put" THEN call[c].entry.id ELSE NoVersion
        e == resolveVersion(index[s], id)
    IN  /\ Pushing(c)
        /\ xfer[c][p].pc = "open"
        /\ writer[s] = Nobody
        /\ xfer' = [xfer EXCEPT ![c][p] =
             IF Readable(s, id)
               THEN [@ EXCEPT !.pc = "ready", !.src = Opened(s, e.id),
                              !.entry = call[c].entry,
                              !.want = IF call[c].op = "put" THEN blob[s][e.id].n ELSE e.data.n]
               ELSE [@ EXCEPT !.pc = "end", !.res = "failed"]]
        /\ UNCHANGED <<index, blob, writer, call, history, confirmed>>

\* sendBlob and sendReadable: the local version is opened once per peer.  A put
\* promises the blob's size on disk, a share the size the index records.
OpenLocal(c, p) ==
    LET s == Own(c, call[c].key)
        id == IF call[c].op = "put" THEN call[c].entry.id ELSE call[c].id
        e == resolveVersion(index[s], id)
    IN  /\ Pushing(c)
        /\ xfer[c][p].pc = "open"
        /\ writer[s] = Nobody
        /\ xfer' = [xfer EXCEPT ![c][p] =
             IF Readable(s, id)
               THEN [@ EXCEPT !.pc = "ready", !.src = Opened(s, e.id),
                              !.entry = call[c].entry,
                              !.want = IF call[c].op = "put" THEN blob[s][e.id].n ELSE e.data.n]
               ELSE [@ EXCEPT !.pc = "end", !.res = "failed"]]
        /\ UNCHANGED <<index, blob, writer, call, history, confirmed>>

\* handleGet, first half: VersionInfo, the metadata of the version asked for.
VersionInfo(c, p) ==
    LET s == <<p, At[c], call[c].key>>
    IN  /\ ~Pushing(c)
        /\ xfer[c][p].pc = "open"
        /\ writer[s] = Nobody
        /\ xfer' = [xfer EXCEPT ![c][p] =
             IF CanResolve(index[s], call[c].id)
               THEN [@ EXCEPT !.pc = "info", !.entry = resolveVersion(index[s], call[c].id)]
               ELSE [@ EXCEPT !.pc = "bad"]]
        /\ UNCHANGED <<index, blob, writer, call, history, confirmed>>

\* handleGet, second half: ReadVersionRaw, the blob of the version asked for.
ReadVersionRaw(c, p) ==
    LET s == <<p, At[c], call[c].key>>
        id == resolveVersion(index[s], call[c].id).id
    IN  /\ xfer[c][p].pc = "info"
        /\ writer[s] = Nobody
        /\ xfer' = [xfer EXCEPT ![c][p] =
             IF Readable(s, call[c].id)
               THEN [@ EXCEPT !.pc = "ready", !.src = Opened(s, id), !.want = blob[s][id].n]
               ELSE [@ EXCEPT !.pc = "bad"]]
        /\ UNCHANGED <<index, blob, writer, call, history, confirmed>>

-----------------------------------------------------------------------------
(* The body, at its receiver: WriteVersionRaw in handleStore and fetchBlob *)
(* (the entry as sent), WriteVersion in handleShare (an entry of its own,  *)
(* encrypted under its own key).                                           *)
(***************************************************************************)
\* Mutant of Receive: a shared file is kept in the bytes it was stored in.
ReceiveRaw(c, p) ==
    LET s == Into(c, p)
        x == xfer[c][p]
        own == call[c].op = "share"
    IN  /\ x.pc = "ready"
        /\ writer[s] = Nobody
        /\ writer' = [writer EXCEPT ![s] = <<c, p>>]
        /\ \E id \in IF own THEN Fresh ELSE {x.entry.id} :
             /\ blob' = [blob EXCEPT ![s][id] =
                           [of |-> Body(x.src).of, for |-> Body(x.src).for, n |-> 0]]
             /\ xfer' = [xfer EXCEPT ![c][p].pc = "recv",
                           ![c][p].entry = IF own THEN [id |-> id, seq |-> nextSeq(index[s]),
                                                        data |-> NoContent] ELSE @]
        /\ UNCHANGED <<index, call, history, confirmed>>

Receive(c, p) ==
    LET s == Into(c, p)
        x == xfer[c][p]
        own == call[c].op = "share"
        keyOf == IF own THEN p ELSE Body(x.src).for
    IN  /\ x.pc = "ready"
        /\ writer[s] = Nobody
        /\ writer' = [writer EXCEPT ![s] = <<c, p>>]
        /\ \E id \in IF own THEN Fresh ELSE {x.entry.id} :
             /\ blob' = [blob EXCEPT ![s][id] =
                           [of |-> Body(x.src).of, for |-> keyOf, n |-> 0]]
             /\ xfer' = [xfer EXCEPT ![c][p].pc = "recv",
                           ![c][p].entry = IF own THEN [id |-> id, seq |-> nextSeq(index[s]),
                                                        data |-> NoContent] ELSE @]
        /\ UNCHANGED <<index, call, history, confirmed>>

\* Mutant of Block: off by one at the end of the body.
BlockPastEnd(c, p) ==
    LET x == xfer[c][p]
    IN  /\ x.pc = "recv"
        /\ x.res = "none"
        /\ x.n <= x.want
        /\ x.n <= Body(x.src).n
        /\ xfer' = [xfer EXCEPT ![c][p].n = @ + 1]
        /\ blob' = [blob EXCEPT ![Into(c, p)][x.entry.id].n = x.n + 1]
        /\ UNCHANGED <<index, writer, call, history, confirmed>>

\* A block passes the LimitReader, unless the sender has given the stream up.
Block(c, p) ==
    LET x == xfer[c][p]
    IN  /\ x.pc = "recv"
        /\ x.res = "none"
        /\ x.n < x.want
        /\ x.n < Body(x.src).n
        /\ xfer' = [xfer EXCEPT ![c][p].n = @ + 1]
        /\ blob' = [blob EXCEPT ![Into(c, p)][x.entry.id].n = x.n + 1]
        /\ UNCHANGED <<index, writer, call, history, confirmed>>

\* The body is over: the LimitReader has let through all it may, or the sender
\* has half-closed the stream.  (Fault "short": it did so before its time.)
BodyOver(x) ==
    \/ x.n = x.want
    \/ /\ x.res = "none"
       /\ x.n >= Body(x.src).n \/ "short" \in Faults
\* Mutant of FinishBody: the receiver of a raw blob numbers it itself.
FinishBodyRenumbered(c, p) ==
    LET s == Into(c, p)
        x == xfer[c][p]
        own == call[c].op = "share"
        e == IF own THEN [x.entry EXCEPT !.data = [of |-> Body(x.src).of, n |-> x.n]]
                    ELSE [x.entry EXCEPT !.seq = nextSeq(index[s])]
        idx == IF own THEN AppendLatest(index[s], e) ELSE UpsertLatest(index[s], e)
    IN  /\ x.pc = "recv"
        /\ BodyOver(x)
        /\ Save(s, idx, blob[s])
        /\ Detach([xfer EXCEPT ![c][p].pc = "check", ![c][p].entry = e], s, Pruned(idx))
        /\ writer' = [writer EXCEPT ![s] = Nobody]
        /\ history' = IF own THEN [history EXCEPT ![FileOf(s)] = @ \cup {e}] ELSE history
        /\ UNCHANGED <<call, confirmed>>

\* Mutant of FinishBody: the lock is not released.
FinishBodyLocked(c, p) ==
    LET s == Into(c, p)
        x == xfer[c][p]
        own == call[c].op = "share"
        e == IF own THEN [x.entry EXCEPT !.data = [of |-> Body(x.src).of, n |-> x.n]]
                    ELSE x.entry
        idx == IF own THEN AppendLatest(index[s], e) ELSE UpsertLatest(index[s], e)
    IN  /\ x.pc = "recv"
        /\ BodyOver(x)
        /\ Save(s, idx, blob[s])
        /\ Detach([xfer EXCEPT ![c][p].pc = "check", ![c][p].entry = e], s, Pruned(idx))
        /\ history' = IF own THEN [history EXCEPT ![FileOf(s)] = @ \cup {e}] ELSE history
        /\ UNCHANGED <<writer, call, confirmed>>

FinishBody(c, p) ==
    LET s == Into(c, p)
        x == xfer[c][p]
        own == call[c].op = "share"
        e == IF own THEN [x.entry EXCEPT !.data = [of |-> Body(x.src).of, n |-> x.n]]
                    ELSE x.entry
        idx == IF own THEN AppendLatest(index[s], e) ELSE UpsertLatest(index[s], e)
    IN  /\ x.pc = "recv"
        /\ BodyOver(x)
        /\ Save(s, idx, blob[s])
        /\ Detach([xfer EXCEPT ![c][p].pc = "check", ![c][p].entry = e], s, Pruned(idx))
        /\ writer' = [writer EXCEPT ![s] = Nobody]
        /\ history' = IF own THEN [history EXCEPT ![FileOf(s)] = @ \cup {e}] ELSE history
        /\ UNCHANGED <<call, confirmed>>

\* Mutant of CheckCount: the count is not compared.
CheckNothing(c, p) ==
    /\ xfer[c][p].pc = "check"
    /\ Become(c, p, "good")
    /\ UNCHANGED <<index, blob, writer, call, history, confirmed>>

\* What arrived is compared with what was promised; a short body's version is
\* deleted again (DeleteVersion, under the lock anew; its error is ignored).
CheckCount(c, p) ==
    LET s == Into(c, p)
        x == xfer[c][p]
    IN  /\ x.pc = "check"
        /\ \/ /\ x.n = x.want
              /\ Become(c, p, "good")
              /\ UNCHANGED disk
           \/ /\ x.n # x.want
              /\ writer[s] = Nobody
              /\ IF x.entry.id \in IdsOf(index[s].versions)
                   THEN /\ index' = [index EXCEPT ![s] = RemoveVersion(@, x.entry.id)]
                        /\ blob' = [blob EXCEPT ![s] = Without(@, {x.entry.id})]
                        /\ Detach([xfer EXCEPT ![c][p].pc = "bad"], s, {x.entry.id})
                   ELSE Become(c, p, "bad") /\ UNCHANGED disk
        /\ UNCHANGED <<writer, call, history, confirmed>>

\* Mutant of Reply: the answer's OK is not looked at.
ReplyOK(c, p) ==
    LET x == xfer[c][p]
    IN  /\ x.pc \in {"good", "bad"}
        /\ xfer' = [xfer EXCEPT ![c][p].pc = "end",
                      ![c][p].src = NoFile,
                      ![c][p].res = IF @ # "none" THEN @ ELSE "ok"]
        /\ confirmed' = IF x.res = "none" /\ call[c].op = "put"
                          THEN confirmed \cup {<<Into(c, p), x.entry.id>>} ELSE confirmed
        /\ UNCHANGED <<index, blob, writer, call, history>>

\* The handler's reply reaches the client, unless the client has given up; a
\* fetch just ends.
Reply(c, p) ==
    LET x == xfer[c][p]
    IN  /\ x.pc \in {"good", "bad"}
        /\ xfer' = [xfer EXCEPT ![c][p].pc = "end",
                      ![c][p].src = NoFile,
                      ![c][p].res = IF @ # "none" THEN @
                                    ELSE IF x.pc = "good" THEN "ok" ELSE "failed"]
        /\ confirmed' = IF x.pc = "good" /\ x.res = "none" /\ call[c].op = "put"
                          THEN confirmed \cup {<<Into(c, p), x.entry.id>>} ELSE confirmed
        /\ UNCHANGED <<index, blob, writer, call, history>>

-----------------------------------------------------------------------------
(* Faults.                                                                 *)
(***************************************************************************)

\* The client's end of a push fails: deadline, reset or lost connection.  What
\* the handler does is no longer its business.
GiveUp(c, p) ==
    LET x == xfer[c][p]
    IN  /\ "net" \in Faults
        /\ Pushing(c)
        /\ x.pc \notin {"idle", "end"}
        /\ x.res = "none"
        /\ xfer' = [xfer EXCEPT ![c][p].res = "failed"]
        /\ UNCHANGED <<index, blob, writer, call, history, confirmed>>

\* The stream breaks for the receiver, or was never opened: its store call
\* fails, unlocks, and leaves of the blob what has arrived.  Once everything
\* promised is there, the receiver no longer looks at the stream.
Exposed(x) == x.pc \in {"open", "info", "ready"} \/ (x.pc = "recv" /\ x.n < x.want)
\* Mutant of Break: the unlock is not deferred.
BreakLocked(c, p) ==
    LET x == xfer[c][p]
    IN  /\ "net" \in Faults \/ x.res = "failed"
        /\ Exposed(x)
        /\ Become(c, p, "bad")
        /\ UNCHANGED <<index, blob, writer, call, history, confirmed>>

Break(c, p) ==
    LET x == xfer[c][p]
    IN  /\ "net" \in Faults \/ x.res = "failed"
        /\ Exposed(x)
        /\ Become(c, p, "bad")
        /\ writer' = IF x.pc = "recv" THEN [writer EXCEPT ![Into(c, p)] = Nobody] ELSE writer
        /\ UNCHANGED <<index, blob, call, history, confirmed>>

\* Disconnect closes the connection to a peer: every stream between the two nodes
\* breaks, at both of its ends, whoever uses it.  (cut: one that is just being
\* opened may be caught by it, or redial.)
Between(c, p, pair) == {At[c], p} = pair
Disconnected(c, p, cut) ==
    LET x == xfer[c][p]
        broken == x.pc \notin {"idle", "end"} /\ (x.pc = "open" => cut)
    IN  [x EXCEPT !.pc = IF broken /\ Exposed(x) THEN "bad" ELSE @,
                  !.res = IF broken /\ Pushing(c) /\ @ = "none" THEN "failed" ELSE @]
Disconnect(d) ==
    \E q \in Nodes \ {At[d]}, cut \in BOOLEAN :
        /\ Idle(d, "disconnect")
        /\ xfer' = [c \in Clients |-> [p \in Nodes |->
             IF Between(c, p, {At[d], q}) THEN Disconnected(c, p, cut) ELSE xfer[c][p]]]
        /\ writer' = [s \in Shelves |->
             IF \E c \in Clients, p \in Nodes : writer[s] = <<c, p>> /\ xfer'[c][p].pc # "recv"
               THEN Nobody ELSE writer[s]]
        /\ UNCHANGED <<index, blob, call, history, confirmed>>

\* Node n dies and is started again: its disk stays, its clients' calls and its
\* handlers are gone, and whoever talked to it sees the stream break.
AfterCrash(c, p, n) ==
    LET x == xfer[c][p]
        failed == [x EXCEPT !.res = IF @ = "none" THEN "failed" ELSE @]
        over == [failed EXCEPT !.pc = "end", !.src = NoFile]
        atPeer == Pushing(c) /\ x.pc # "open"     \* p's handler is what goes on
    IN  IF x.pc \in {"idle", "end"} \/ n \notin {At[c], p} THEN x
        ELSE IF atPeer THEN IF n = p THEN over ELSE failed
        ELSE IF n = At[c] THEN over
        ELSE IF ~Pushing(c) /\ Exposed(x) THEN [x EXCEPT !.pc = "bad"]
        ELSE x
Crash(n) ==
    /\ "crash" \in Faults
    /\ call' = [c \in Clients |->
         IF At[c] = n /\ call[c].pc # "idle" THEN [call[c] EXCEPT !.pc = "gone"] ELSE call[c]]
    /\ xfer' = [c \in Clients |-> [p \in Nodes |-> AfterCrash(c, p, n)]]
    /\ writer' = [s \in Shelves |->
         IF \E c \in Clients, p \in Nodes : writer[s] = <<c, p>> /\ xfer'[c][p].pc # "recv"
           THEN Nobody ELSE writer[s]]
    /\ UNCHANGED <<index, blob, history, confirmed>>

-----------------------------------------------------------------------------
Init ==
    /\ index = [s \in Shelves |-> EmptyIndex]
    /\ blob = [s \in Shelves |-> [id \in VersionIDs |-> NoBlob]]
    /\ writer = [s \in Shelves |-> Nobody]
    /\ call = [c \in Clients |-> NoCall]
    /\ xfer = [c \in Clients |-> [p \in Nodes |-> NoTransfer]]
    /\ history = [f \in Files |-> {}]
    /\ confirmed = {}

Begin(c) == \/ StoreVersion(c)
            \/ Share(c)
            \/ StoreLocal(c)
            \/ Delete(c)
            \/ GetVersion(c)
            \/ Disconnect(c)
Proceed(c) == ShareStored(c) \/ ReadHere(c) \/ Try(c) \/ Fetched(c) \/ FanDone(c) \/ Forget(c)
Transfer(c, p) == \/ OpenLocal(c, p)
                  \/ VersionInfo(c, p)
                  \/ ReadVersionRaw(c, p)
                  \/ Receive(c, p)
                  \/ Block(c, p)
                  \/ FinishBody(c, p)
                  \/ CheckCount(c, p)
                  \/ Reply(c, p)

Next == \/ \E c \in Clients : Begin(c) \/ Proceed(c)
        \/ \E c \in Clients, p \in Nodes : Transfer(c, p) \/ GiveUp(c, p) \/ Break(c, p)
        \/ \E n \in Nodes : Crash(n)

Spec == Init /\ [][Next]_vars

\* Every goroutine is scheduled, and sync.RWMutex lets none wait for ever.  The
\* deadline of a stream whose other end has given up runs out.
Fairness == /\ \A c \in Clients : SF_vars(Proceed(c))
            /\ \A c \in Clients, p \in Nodes :
                 /\ SF_vars(Transfer(c, p))
                 /\ WF_vars(xfer[c][p].res = "failed" /\ Break(c, p))
FairSpec == Spec /\ Fairness

-----------------------------------------------------------------------------
(* Properties.                                                             *)
(***************************************************************************)
Entry == [id : VersionIDs, seq : Nat, data : Content]
Blob == [of : IdOrNone, for : Nodes, n : 0 .. Blocks]
File == [shelf : Shelves \cup {<<>>}, id : IdOrNone, data : Blob \cup {NoBlob}]
CallRecord == [pc : {"idle", "stored", "fan", "here", "try", "fetch", "returned", "gone"},
               op : {"none", "put", "share", "get"}, key : Keys, dest : Keys,
               id : IdOrNone, entry : [id : IdOrNone, seq : Nat, data : Content],
               left : SUBSET Nodes, got : Content, held : BOOLEAN]
TransferRecord == [pc : {"idle", "open", "info", "ready", "recv", "check", "good", "bad", "end"},
                   entry : [id : IdOrNone, seq : Nat, data : Content], src : File,
                   want : 0 .. Blocks, n : 0 .. Blocks, res : {"none", "ok", "failed"}]

\* Every variable holds what the code's types allow.
TypeOK ==
    /\ index \in [Shelves -> [latest : IdOrNone, versions : Seq(Entry)]]
    /\ blob \in [Shelves -> [VersionIDs -> Blob \cup {NoBlob}]]
    /\ writer \in [Shelves -> (Clients \X Nodes) \cup {Nobody}]
    /\ call \in [Clients -> CallRecord]
    /\ xfer \in [Clients -> [Nodes -> TransferRecord]]
    /\ history \in [Files -> SUBSET Entry]
    /\ confirmed \subseteq Shelves \X VersionIDs

\* Each lock is held by the transfer that is receiving into its shelf, and by
\* no other: no failure, crash or lost peer leaves a key locked for ever.
LocksOwned ==
    \A s \in Shelves, c \in Clients, p \in Nodes :
        writer[s] = <<c, p>> <=> xfer[c][p].pc = "recv" /\ Into(c, p) = s

\* Wherever a version of a file is listed, on its own node or on a custodian, it
\* is the entry WriteVersion made on its own node: ids, numbers and sizes mean
\* the same everywhere, whatever was pushed, fetched, restored or broken off.
Listed(s) == {index[s].versions[i] : i \in DOMAIN index[s].versions}
ReplicasAgree == \A s \in Shelves : Listed(s) \subseteq history[FileOf(s)]

\* What lies under a node's name, here or on a custodian, is encrypted under
\* that node's key: a custodian cannot read what it keeps, and a recipient of a
\* share can read what it was given.
OwnersKeyOnly ==
    \A s \in Shelves, id \in VersionIDs :
        blob[s][id] # NoBlob => blob[s][id].for = s[2]

\* A replica counted in PeersStored stays on that peer, complete and readable
\* with its origin's key, through crashes, broken streams and the origin's own
\* Delete (nodes without a version limit).
Whole(s, id) == blob[s][id] = [of |-> id, for |-> s[2], n |-> Blocks]
ConfirmedReplicas ==
    \A r \in confirmed : r[2] \in IdsOf(index[r[1]].versions) /\ Whole(r[1], r[2])

\* Replication keeps what module Custody promises: a custodian that has all the
\* bytes of an entry, reported or not, never loses it; callers are told only of
\* copies that are there; a node that fills a shelf adds no version nobody made.
Made(f) == {e.id : e \in history[f]}
Held == {h \in Shelves \X VersionIDs :
           \E e \in Listed(h[1]) : /\ e.id = h[2]
                                  /\ blob[h[1]][e.id] = [of |-> e.data.of, for |-> h[1][2],
                                                        n |-> e.data.n]}
CustodySpec == INSTANCE Custody WITH
    Ids <- VersionIDs, made <- [f \in Files |-> Made(f)], held <- Held, told <- confirmed
ImplementsCustody == CustodySpec!Spec

\* A placement reported to the one who shared is a version the recipient made,
\* with the whole content of a version the sender has had of the key it shared,
\* and of that very version if it named one.
ShareFaithful ==
    \A c \in Clients, p \in Nodes :
        LET x == xfer[c][p]
        IN  call[c].op = "share" /\ x.res = "ok" =>
              /\ x.entry \in history[<<p, call[c].dest>>]
              /\ \E e \in history[<<At[c], call[c].key>>] :
                   /\ e.data = x.entry.data
                   /\ call[c].id \in {NoVersion, e.id}

\* A version its owner has lost comes back if a peer had confirmed a replica of it
\* when the get began, however many peers have to be asked and whatever its node
\* puts meanwhile (no faults, and only the getter deletes).
GetFindsReplica ==
    \A c \in Clients :
        call[c].pc = "returned" /\ call[c].held => call[c].got # NoContent

\* Every call ends, and every handler it started.
EveryCallEnds == \A c \in Clients : call[c].pc # "idle" ~> call[c].pc = "idle"

\* The metadata of a GetResponse describes the blob that follows.
MetaDescribesBlob ==
    \A c \in Clients, p \in Nodes :
        LET x == xfer[c][p]
        IN  call[c].op = "get" /\ x.pc \in {"ready", "recv", "check", "good"} /\ x.src # NoFile =>
              Body(x.src).of = x.entry.data.of
=============================================================================
