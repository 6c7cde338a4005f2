------------------------------ MODULE Commands -------------------------------
(***************************************************************************)
(* The client commands (cmd/weavefs: put, get, send, ls, rm, alias) and    *)
(* the client API of the node that answers them (internal/api), while the  *)
(* node is stopped, killed and started again and commands are interrupted. *)
(*                                                                         *)
(* A command is a process of its own: it reads api.addr, dials, sends one  *)
(* request on one connection and reads one response.  Its end is cmd[q],   *)
(* the node's end, with the handler that serves it, req[q].  Bytes on the  *)
(* connection are those sent and not yet read.                             *)
(*                                                                         *)
(* The store is used at the grain module Store justifies: a version is     *)
(* listed with its bytes or not at all, and a body is received under its   *)
(* key's write lock.  What peers do is in FileServer: here a put answers   *)
(* after however long they take, and a get serves what the node has.       *)
(***************************************************************************)
EXTENDS VersionIndex, FiniteSets

CONSTANTS Cmds,      \* command processes, each of which runs one command
          Keys,
          Blocks,    \* bound: blocks of the longest file
          MaxRuns,   \* bound: how often the node is started
          Nobody,    \* no request holds the lock
          Ops,       \* Ops[q]: the commands q may be
          Mishaps    \* subset of {"kill", "slow"}: how a node's stop may go wrong

AllOps == {"put", "send", "share", "get", "ls", "rm", "alias"}
ASSUME CommandsAssumption ==
    /\ Keys # {}
    /\ VersionIDs # {}
    /\ Blocks \in Nat \ {0}
    /\ MaxRuns \in Nat \ {0}
    /\ Nobody \notin Cmds
    /\ "torn" \notin Cmds
    /\ Ops \in [Cmds -> SUBSET AllOps]
    /\ Mishaps \subseteq {"kill", "slow"}

VARIABLES
    node,     \* the serving process: its run, and how far its shutdown is
    addr,     \* api.addr: the run it leads to, 0 for no file
    index,    \* index[k]: the node's own index of key k
    lock,     \* lock[k]: the request that writes key k
    req,      \* req[q]: the node's end of q's connection
    cmd,      \* cmd[q]: the command's end
    out,      \* out[q]: the file get was told to write
    aliases,  \* aliases.json: the peers it names, or Torn
    past,     \* ghost: past[k]: every entry committed to k
    removed,  \* ghost: the ids rm removed
    rough,    \* ghost: the runs that were killed, or timed out as they stopped
    named,    \* ghost: the peers an alias command has reported as named
    tidy      \* ghost: no alias command overlapped another or was interrupted

stored == <<index, lock, past, removed>>
served == <<node, addr, rough>>
naming == <<aliases, named, tidy>>
vars == <<served, stored, naming, req, cmd, out>>

-----------------------------------------------------------------------------
IdOrNone == VersionIDs \cup {NoVersion}
NoEntry == [id |-> NoVersion, seq |-> 0, n |-> 0, size |-> 0]
Torn == {"torn"}

\* A file that was there before the command.
OldFile == [id |-> NoVersion, n |-> Blocks]
NoCmd == [pc |-> "idle", op |-> "ls", key |-> CHOOSE k \in Keys : TRUE, run |-> 0,
          size |-> 0, sent |-> 0, id |-> NoVersion, did |-> FALSE, names |-> {}]
NoRequest == [pc |-> "none", n |-> 0, entry |-> NoEntry]

Ended == {"idle", "ok", "failed", "notRunning", "lost", "gone"}
OnLine == {"wait", "body"}                        \* the command holds its connection
Handled == {"queued", "recv", "stored", "send"}   \* the node has not finished with it
Known == {e.id : e \in UNION {past[k] : k \in Keys}}
\* Ids are random: which one a version gets makes no difference.
NewID == CHOOSE id \in VersionIDs : id \notin Known

Uploads == {"put", "send"}
Listening(run) == node.run = run /\ node.phase \in {"up", "hidden"}
Alive(q) == cmd[q].pc \in OnLine
To(q, pc) == cmd' = [cmd EXCEPT ![q].pc = pc]
Req(q, pc) == req' = [req EXCEPT ![q].pc = pc]
Free(q) == lock[cmd[q].key] = Nobody

-----------------------------------------------------------------------------
(* The command.                                                            *)
(***************************************************************************)
\* newClient: no address file, no node.  (A put opens its file and takes its
\* size first.)  Which version a send names matters to each peer's stream only,
\* and so not here.  Bounds: of the versions that a get could name, those there
\* have been; a file is as long as its size (that of a pipe is 0).
Start(q) ==
    \E op \in Ops[q] \ {"alias"}, k \in Keys, size \in 0 .. Blocks, id \in {NoVersion} \cup Known :
        /\ cmd[q].pc = "idle"
        /\ op \notin Uploads => size = 0
        /\ op # "get" => id = NoVersion
        /\ cmd' = [cmd EXCEPT ![q] =
             [@ EXCEPT !.pc = IF addr = 0 THEN "notRunning" ELSE "dial",
                       !.op = op, !.key = k, !.run = addr, !.size = size, !.id = id]]
        /\ UNCHANGED <<served, stored, naming, req, out>>

\* client.do: a dial that fails means that no node is running.
Dial(q) ==
    /\ cmd[q].pc = "dial"
    /\ IF Listening(cmd[q].run)
         THEN To(q, "wait") /\ Req(q, "queued")
         ELSE To(q, "notRunning") /\ UNCHANGED req
    /\ UNCHANGED <<served, stored, naming, out>>

\* Mutant of Upload: sends more than it announced.
UploadPastEnd(q) ==
    /\ cmd[q].pc = "wait"
    /\ cmd[q].sent <= cmd[q].size
    /\ cmd' = [cmd EXCEPT ![q].sent = @ + 1]
    /\ UNCHANGED <<served, stored, naming, req, out>>

\* The request's body, never more of it than Content-Length announces.
Upload(q) ==
    /\ cmd[q].pc = "wait"
    /\ cmd[q].sent < cmd[q].size
    /\ cmd' = [cmd EXCEPT ![q].sent = @ + 1]
    /\ UNCHANGED <<served, stored, naming, req, out>>

\* Mutant of ReadHead: the status code is not looked at.
ReadHeadOnly(q) ==
    LET r == req[q]
    IN  /\ cmd[q].pc = "wait"
        /\ IF cmd[q].op = "get" /\ r.entry # NoEntry
             THEN /\ cmd' = [cmd EXCEPT ![q].pc = "body", ![q].size = r.entry.size]
                  /\ out' = [out EXCEPT ![q] = [id |-> r.entry.id, n |-> 0]]
             ELSE /\ r.pc \in {"answered", "refused"}
                  /\ cmd' = [cmd EXCEPT ![q].pc = "ok", ![q].id = r.entry.id]
                  /\ UNCHANGED out
        /\ UNCHANGED <<served, stored, naming, req>>

\* The response's head: an error ends the command, a get goes on to the body and
\* creates the file it writes, anything else is done.
ReadHead(q) ==
    LET r == req[q]
    IN  /\ cmd[q].pc = "wait"
        /\ IF cmd[q].op = "get" /\ r.entry # NoEntry
             THEN /\ cmd' = [cmd EXCEPT ![q].pc = "body", ![q].size = r.entry.size]
                  /\ out' = [out EXCEPT ![q] = [id |-> r.entry.id, n |-> 0]]
             ELSE /\ r.pc \in {"answered", "refused"}
                  /\ cmd' = [cmd EXCEPT ![q].pc = IF r.pc = "answered" THEN "ok" ELSE "failed",
                                        ![q].id = r.entry.id]
                  /\ UNCHANGED out
        /\ UNCHANGED <<served, stored, naming, req>>

\* io.Copy of the body into the file, up to Content-Length.
CopyBody(q) ==
    /\ cmd[q].pc = "body"
    /\ out[q].n < req[q].n
    /\ out' = [out EXCEPT ![q].n = @ + 1]
    /\ UNCHANGED <<served, stored, naming, req, cmd>>
Finish(q) ==
    /\ cmd[q].pc = "body"
    /\ out[q].n = cmd[q].size
    /\ To(q, "ok")
    /\ UNCHANGED <<served, stored, naming, req, out>>

\* Mutants of Lost: every failure is taken for a failed dial; a copy that ends
\* early is taken for the whole.
LostIsNotRunning(q) ==
    /\ Alive(q)
    /\ req[q].pc = "broken"
    /\ cmd[q].pc = "body" => out[q].n < cmd[q].size
    /\ To(q, "notRunning")
    /\ UNCHANGED <<served, stored, naming, req, out>>
LostIsEnd(q) ==
    /\ Alive(q)
    /\ req[q].pc = "broken"
    /\ To(q, IF cmd[q].pc = "body" THEN "ok" ELSE "lost")
    /\ UNCHANGED <<served, stored, naming, req, out>>

\* The connection breaks before the response is complete.
Lost(q) ==
    /\ Alive(q)
    /\ req[q].pc = "broken"
    /\ cmd[q].pc = "body" => out[q].n < cmd[q].size
    /\ To(q, "lost")
    /\ UNCHANGED <<served, stored, naming, req, out>>

\* The command ends on its own: interrupted, timed out (clientTimeout), or with a
\* file that turned out shorter or longer than it announced.
GiveUp(q) ==
    /\ cmd[q].pc \notin Ended
    /\ To(q, "gone")
    /\ tidy' = (tidy /\ cmd[q].op # "alias")
    /\ UNCHANGED <<served, stored, aliases, named, req, out>>

-----------------------------------------------------------------------------
(* alias: aliases.json is read, and rewritten in place by os.WriteFile.    *)
(* What does not decode is read as no names at all.                        *)
(***************************************************************************)
Saving(q) == cmd[q].op = "alias" /\ cmd[q].pc \notin Ended

\* Mutant of LoadAliases: the names already there are not loaded.
LoadNoAliases(q) ==
    /\ "alias" \in Ops[q]
    /\ cmd[q].pc = "idle"
    /\ node.run = 1
    /\ cmd' = [cmd EXCEPT ![q] = [@ EXCEPT !.pc = "open", !.op = "alias",
                                           !.names = {q}]]
    /\ tidy' = (tidy /\ \A r \in Cmds : ~Saving(r))
    /\ UNCHANGED <<served, stored, aliases, named, req, out>>

\* Bounds: each command names a peer of its own, written q too.  These commands
\* share nothing with the others, and are run in behaviours of their own, where
\* no node is started.
LoadAliases(q) ==
    /\ "alias" \in Ops[q]
    /\ cmd[q].pc = "idle"
    /\ node.run = 1
    /\ cmd' = [cmd EXCEPT ![q] = [@ EXCEPT !.pc = "open", !.op = "alias",
                                           !.names = {q} \cup (aliases \ Torn)]]
    /\ tidy' = (tidy /\ \A r \in Cmds : ~Saving(r))
    /\ UNCHANGED <<served, stored, aliases, named, req, out>>
OpenAliases(q) ==
    /\ cmd[q].pc = "open"
    /\ aliases' = {}
    /\ To(q, "write")
    /\ UNCHANGED <<served, stored, named, tidy, req, out>>
\* Over a longer file that another command has written since, the end of that
\* file stays.
WriteAliases(q) ==
    /\ cmd[q].pc = "write"
    /\ aliases' = IF Cardinality(aliases) > Cardinality(cmd[q].names) THEN Torn
                  ELSE cmd[q].names
    /\ named' = named \cup {q}
    /\ To(q, "ok")
    /\ UNCHANGED <<served, stored, tidy, req, out>>

-----------------------------------------------------------------------------
(* The API's handlers.                                                     *)
(***************************************************************************)
\* parseTargets fails before anything else is done.
RefuseTargets(q) ==
    /\ req[q].pc = "queued"
    /\ cmd[q].op \in {"send", "share"}
    /\ Req(q, "refused")
    /\ UNCHANGED <<served, stored, naming, cmd, out>>

\* handlePut, handleShare with a body: WriteVersion takes the key's lock ...
TakeLock(q) ==
    /\ req[q].pc = "queued"
    /\ cmd[q].op \in Uploads
    /\ Free(q)
    /\ lock' = [lock EXCEPT ![cmd[q].key] = q]
    /\ Req(q, "recv")
    /\ UNCHANGED <<served, index, past, removed, naming, cmd, out>>
\* ... reads the body ...
ReadBody(q) ==
    /\ req[q].pc = "recv"
    /\ req[q].n < cmd[q].sent
    /\ req' = [req EXCEPT ![q].n = @ + 1]
    /\ UNCHANGED <<served, stored, naming, cmd, out>>
\* Mutant of Commit: a body that breaks off is a body that ends.
CommitAtBreak(q) ==
        LET k == cmd[q].key
            e == [id |-> NewID, seq |-> nextSeq(index[k]), n |-> req[q].n, size |-> cmd[q].size]
        IN  /\ req[q].pc = "recv"
            /\ req[q].n = cmd[q].size \/ ~Alive(q)
            /\ Known # VersionIDs
            /\ index' = [index EXCEPT ![k] = pruneOldestVersions(AppendLatest(@, e))]
            /\ past' = [past EXCEPT ![k] = @ \cup {e}]
            /\ lock' = [lock EXCEPT ![k] = Nobody]
            /\ req' = [req EXCEPT ![q].pc = "stored", ![q].entry = e]
            /\ cmd' = [cmd EXCEPT ![q].did = TRUE]
            /\ UNCHANGED <<served, removed, naming, out>>

\* ... and commits the version once all that was announced has come.  Bound: the
\* ids there are.
Commit(q) ==
        LET k == cmd[q].key
            e == [id |-> NewID, seq |-> nextSeq(index[k]), n |-> req[q].n, size |-> cmd[q].size]
        IN  /\ req[q].pc = "recv"
            /\ req[q].n = cmd[q].size
            /\ Known # VersionIDs
            /\ index' = [index EXCEPT ![k] = pruneOldestVersions(AppendLatest(@, e))]
            /\ past' = [past EXCEPT ![k] = @ \cup {e}]
            /\ lock' = [lock EXCEPT ![k] = Nobody]
            /\ req' = [req EXCEPT ![q].pc = "stored", ![q].entry = e]
            /\ cmd' = [cmd EXCEPT ![q].did = TRUE]
            /\ UNCHANGED <<served, removed, naming, out>>
\* Mutant of BodyBreaks: the lock is not released.
BodyBreaksLocked(q) ==
    /\ req[q].pc = "recv"
    /\ req[q].n < cmd[q].size \/ cmd[q].size = 0
    /\ ~Alive(q)
    /\ Req(q, "broken")
    /\ UNCHANGED <<served, stored, naming, cmd, out>>

\* The command is gone before its body is complete: an unexpected EOF.  (A file
\* without a size goes in chunks, of which the last, empty one may be missing.)
BodyBreaks(q) ==
    /\ req[q].pc = "recv"
    /\ req[q].n < cmd[q].size \/ cmd[q].size = 0
    /\ ~Alive(q)
    /\ lock' = [lock EXCEPT ![cmd[q].key] = Nobody]
    /\ Req(q, "broken")
    /\ UNCHANGED <<served, index, past, removed, naming, cmd, out>>

\* The peers have been asked.  A share reads the key's latest version anew, and
\* has none to give if the key has been removed meanwhile.
Replicated(q) ==
    /\ req[q].pc = "stored"
    /\ cmd[q].op = "send" => Free(q)
    /\ Req(q, IF cmd[q].op = "send" /\ index[cmd[q].key].latest = NoVersion
                THEN "refused" ELSE "answered")
    /\ UNCHANGED <<served, stored, naming, cmd, out>>
Share(q) ==
    /\ req[q].pc = "queued"
    /\ cmd[q].op = "share"
    /\ Free(q)
    /\ Req(q, IF index[cmd[q].key].latest = NoVersion THEN "refused" ELSE "answered")
    /\ UNCHANGED <<served, stored, naming, cmd, out>>

\* handleGet: the version is opened, its size announced, its bytes sent.
OpenVersion(q) ==
    LET idx == index[cmd[q].key]
    IN  /\ req[q].pc = "queued"
        /\ cmd[q].op = "get"
        /\ Free(q)
        /\ req' = [req EXCEPT ![q] =
             IF CanResolve(idx, cmd[q].id)
               THEN [pc |-> "send", n |-> 0, entry |-> resolveVersion(idx, cmd[q].id)]
               ELSE [@ EXCEPT !.pc = "refused"]]
        /\ UNCHANGED <<served, stored, naming, cmd, out>>
SendBody(q) ==
    /\ req[q].pc = "send"
    /\ IF ~Alive(q) THEN Req(q, "broken")
       ELSE IF req[q].n = req[q].entry.n THEN Req(q, "answered")
       ELSE req' = [req EXCEPT ![q].n = @ + 1]
    /\ UNCHANGED <<served, stored, naming, cmd, out>>

\* handleDelete, handleVersions.
Delete(q) ==
    LET k == cmd[q].key
    IN  /\ req[q].pc = "queued"
        /\ cmd[q].op = "rm"
        /\ Free(q)
        /\ index' = [index EXCEPT ![k] = EmptyIndex]
        /\ removed' = removed \cup IdsOf(index[k].versions)
        /\ cmd' = [cmd EXCEPT ![q].did = TRUE]
        /\ Req(q, "answered")
        /\ UNCHANGED <<served, lock, past, naming, out>>
ListVersions(q) ==
    /\ req[q].pc = "queued"
    /\ cmd[q].op = "ls"
    /\ Free(q)
    /\ Req(q, "answered")
    /\ UNCHANGED <<served, stored, naming, cmd, out>>

-----------------------------------------------------------------------------
(* The node's life: serve's deferred calls run in the order api.Close, then *)
(* w.close, then the process exits.                                         *)
(***************************************************************************)
At(phase) == node.phase = phase
Phase(phase) == node' = [node EXCEPT !.phase = phase]

Serve ==
    /\ At("down")
    /\ node.run < MaxRuns
    /\ \A q \in Cmds : cmd[q].op # "alias"
    /\ node' = [run |-> node.run + 1, phase |-> "up"]
    /\ addr' = node.run + 1
    /\ UNCHANGED <<rough, stored, naming, req, cmd, out>>

\* Interrupted: the address file goes first.
RemoveAddr ==
    /\ At("up")
    /\ addr' = 0
    /\ Phase("hidden")
    /\ UNCHANGED <<rough, stored, naming, req, cmd, out>>

\* http.Server.Shutdown closes the listener: connections it had not accepted by
\* then are reset.  What it has accepted, it serves to the end.
Broken(q) == [req[q] EXCEPT !.pc = "broken"]
CloseListener ==
    /\ At("hidden")
    /\ \E unaccepted \in SUBSET {q \in Cmds : req[q].pc = "queued"} :
         req' = [q \in Cmds |-> IF q \in unaccepted THEN Broken(q) ELSE req[q]]
    /\ Phase("draining")
    /\ UNCHANGED <<addr, rough, stored, naming, cmd, out>>

\* Mutant of Drained: the server is closed without waiting for its handlers.
DrainedAtOnce ==
    /\ At("draining")
    /\ Phase("closing")
    /\ UNCHANGED <<addr, rough, stored, naming, req, cmd, out>>
Drained ==
    /\ At("draining")
    /\ \A q \in Cmds : req[q].pc \notin Handled
    /\ Phase("closing")
    /\ UNCHANGED <<addr, rough, stored, naming, req, cmd, out>>
\* shutdownTimeout: the handlers are left behind.
ShutdownTimeout ==
    /\ "slow" \in Mishaps
    /\ At("draining")
    /\ Phase("closing")
    /\ rough' = rough \cup {node.run}
    /\ UNCHANGED <<addr, stored, naming, req, cmd, out>>

\* The process is no more: its connections break, its locks are gone.
Gone ==
    /\ req' = [q \in Cmds |-> IF req[q].pc \in Handled THEN Broken(q) ELSE req[q]]
    /\ lock' = [k \in Keys |-> Nobody]
    /\ Phase("down")
    /\ UNCHANGED <<addr, index, past, removed, naming, cmd, out>>
Exit ==
    /\ At("closing")
    /\ Gone
    /\ UNCHANGED rough
Kill ==
    /\ "kill" \in Mishaps
    /\ ~At("down")
    /\ Gone
    /\ rough' = rough \cup {node.run}

-----------------------------------------------------------------------------
\* Run 1 is over.  A key may hold a version from it, and if it was killed, its
\* address file is still there.
FirstID == CHOOSE id \in VersionIDs : TRUE
Init ==
    /\ node = [run |-> 1, phase |-> "down"]
    /\ addr \in {0, 1}
    /\ \E old \in [Keys -> {NoEntry} \cup [id : {FirstID}, seq : {1}, n : 0 .. Blocks, size : 0 .. Blocks]] :
         /\ \A k \in Keys : old[k].n = old[k].size
         /\ index = [k \in Keys |-> IF old[k] = NoEntry THEN EmptyIndex
                                    ELSE AppendLatest(EmptyIndex, old[k])]
         /\ past = [k \in Keys |-> {old[k]} \ {NoEntry}]
    /\ lock = [k \in Keys |-> Nobody]
    /\ req = [q \in Cmds |-> NoRequest]
    /\ cmd = [q \in Cmds |-> NoCmd]
    /\ out = [q \in Cmds |-> OldFile]
    /\ aliases = {}
    /\ removed = {}
    /\ rough = {}
    /\ named = {}
    /\ tidy = TRUE

Client(q) == \/ Dial(q)
             \/ Upload(q)
             \/ ReadHead(q)
             \/ CopyBody(q)
             \/ Finish(q)
             \/ Lost(q)
             \/ OpenAliases(q)
             \/ WriteAliases(q)
Handler(q) == \/ RefuseTargets(q)
              \/ TakeLock(q)
              \/ ReadBody(q)
              \/ Commit(q)
              \/ BodyBreaks(q)
              \/ Replicated(q)
              \/ Share(q)
              \/ OpenVersion(q)
              \/ SendBody(q)
              \/ Delete(q)
              \/ ListVersions(q)
Shutdown == RemoveAddr \/ CloseListener \/ Drained \/ ShutdownTimeout \/ Exit

Next == \/ \E q \in Cmds : Start(q) \/ LoadAliases(q) \/ Client(q) \/ GiveUp(q) \/ Handler(q)
        \/ Serve
        \/ Shutdown
        \/ Kill

Spec == Init /\ [][Next]_vars

\* The node schedules its handlers, and its locks let none wait for ever.  Of a
\* command nothing is assumed (its file may be a pipe that never ends) but that
\* its timeout runs out.  A shutdown that has begun goes on.
Fairness == /\ \A q \in Cmds : SF_vars(Handler(q)) /\ WF_vars(GiveUp(q))
            /\ WF_vars(CloseListener \/ Drained \/ Exit)
FairSpec == Spec /\ Fairness

-----------------------------------------------------------------------------
(* Properties.                                                             *)
(***************************************************************************)
Entry == [id : VersionIDs, seq : Nat, n : 0 .. Blocks, size : 0 .. Blocks]

\* Every variable holds what the code's types allow.
TypeOK ==
    /\ node \in [run : 0 .. MaxRuns,
                 phase : {"up", "hidden", "draining", "closing", "down"}]
    /\ addr \in 0 .. MaxRuns
    /\ index \in [Keys -> [latest : IdOrNone, versions : Seq(Entry)]]
    /\ lock \in [Keys -> Cmds \cup {Nobody}]
    /\ req \in [Cmds -> [pc : Handled \cup {"none", "answered", "refused", "broken"},
                         n : 0 .. Blocks, entry : Entry \cup {NoEntry}]]
    /\ cmd \in [Cmds -> [pc : Ended \cup OnLine \cup {"dial", "open", "write"}, op : AllOps,
                         key : Keys, run : 0 .. MaxRuns, size : 0 .. Blocks,
                         sent : 0 .. Blocks, id : IdOrNone, did : BOOLEAN, names : SUBSET Cmds]]
    /\ out \in [Cmds -> [id : IdOrNone, n : 0 .. Blocks]]
    /\ aliases \in (SUBSET Cmds) \cup {Torn}
    /\ past \in [Keys -> SUBSET Entry]
    /\ removed \subseteq VersionIDs
    /\ rough \subseteq 1 .. MaxRuns
    /\ named \subseteq Cmds
    /\ tidy \in BOOLEAN

\* Only files that arrived whole become versions, and none of them is lost but to
\* rm: not to interrupted commands, a stopping node or a killed one.
VersionsWholeAndKept ==
    \A k \in Keys : \A e \in past[k] :
        /\ e.n = e.size
        /\ e.id \in IdsOf(index[k].versions) \cup removed

\* "stored" means stored: a put or send that succeeds names a version of its key,
\* as long as the file it announced.
OkMeansStored ==
    \A q \in Cmds :
        cmd[q].pc = "ok" /\ cmd[q].op \in Uploads =>
            \E e \in past[cmd[q].key] : e.id = cmd[q].id /\ e.n = cmd[q].size

\* "no node is running" is only said when nothing has been done, so that the user
\* may start one and repeat the command.
NotRunningMeansNothingDone ==
    \A q \in Cmds : cmd[q].pc = "notRunning" => ~cmd[q].did

\* A node that is stopped, and not killed or out of patience, answers every
\* request it has begun to serve: a command that loses its connection to it has
\* done nothing.
GracefulStop ==
    \A q \in Cmds : cmd[q].pc = "lost" /\ cmd[q].run \notin rough => ~cmd[q].did

\* A get that succeeds has written exactly a version of the key, whatever happened
\* to the node or to the version meanwhile.  One that finds no node, or is told no,
\* leaves the output file alone.
GetWholeOrError ==
    \A q \in Cmds :
        /\ cmd[q].pc = "ok" /\ cmd[q].op = "get" =>
             \E e \in past[cmd[q].key] : out[q] = [id |-> e.id, n |-> e.size]
        /\ cmd[q].pc \in {"notRunning", "failed"} => out[q] = OldFile

\* Names once reported as set stay set, as long as alias commands neither overlap
\* nor are interrupted.
AliasesKept == tidy /\ (\A q \in Cmds : ~Saving(q)) => aliases = named

\* Every handler ends, those of commands that are gone or have stalled too: no
\* request holds its key for ever.
HandlersEnd == \A q \in Cmds : req[q].pc \in Handled ~> req[q].pc \notin Handled
=============================================================================
