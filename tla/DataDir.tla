------------------------------- MODULE DataDir --------------------------------
(***************************************************************************)
(* The processes that share one node directory: `weavefs serve` and        *)
(* `weavefs id`, which load or create identity.key and encryption.key on   *)
(* their way up, the client API that publishes its address in api.addr,    *)
(* and the client commands that look the address up and dial it.           *)
(*                                                                         *)
(* Files are POSIX files.  A name leads to an inode; os.WriteFile opens    *)
(* (and so empties) the file and then writes; a rename moves a name, and   *)
(* an open file goes with its inode, whatever its name has become.         *)
(* WriteFileAtomic always writes to the same sibling, path + ".tmp".       *)
(***************************************************************************)
EXTENDS Naturals, FiniteSets

CONSTANTS Serves,    \* processes that run `serve`
          Ids,       \* processes that run `id`
          Dialers,   \* client commands
          MaxRuns,   \* bound: how often each process is started
          Nothing    \* no inode, no value, no address

Procs == Serves \cup Ids
KeyFiles == {"identity.key", "encryption.key"}
DirFiles == KeyFiles \cup {"api.addr"}
Names == DirFiles \X {"path", "tmp"}

\* A run of a process.  It stands for the key the run would generate and for
\* the port its listener gets, and names the inode it would create of a file.
\* (With -api the port may be the same each time, and a port once given up may be
\* any program's: there a stale address may lead to another listener.  Here, and
\* in module Commands, it leads to none.)
Runs == Procs \X (1 .. MaxRuns)
Inodes == Runs \X DirFiles

ASSUME DataDirAssumption ==
    /\ Serves \cap Ids = {}
    /\ MaxRuns \in Nat \ {0}
    /\ Nothing \notin Runs \cup Inodes

VARIABLES
    link,      \* link[<<file, "path" or "tmp">>]: the inode of a name, or Nothing
    data,      \* data[inode]: the run whose value it holds, Nothing if empty
    proc,      \* proc[p]: where a process is
    client,    \* client[q]: where a client command is, and the address it read
    used,      \* ghost: used[file]: the keys that running nodes have used
    overlapped \* ghost: whether a process ever started while another was starting

vars == <<link, data, proc, client, used, overlapped>>

Path(f) == <<f, "path">>
Tmp(f) == <<f, "tmp">>
Contents(f) == data[link[Path(f)]]       \* when Path(f) exists
NoKeys == [f \in KeyFiles |-> Nothing]

Run(p) == <<p, proc[p].run>>
Creating == {"open", "write", "rename"}
Starting == {"read", "cleanup"} \cup Creating
Listening(p) == proc[p].pc \in {"up", "closing"} \/ proc[p].file = "api.addr"

-----------------------------------------------------------------------------
(* startNode: the identity, then the encryption key, then (serve only) the *)
(* API's address file, which is written without being read first.          *)
(***************************************************************************)
Start(p) ==
    /\ proc[p].pc = "down"
    /\ proc[p].run < MaxRuns
    /\ overlapped' = (overlapped \/ \E q \in Procs : proc[q].pc \in Starting)
    /\ proc' = [proc EXCEPT ![p] = [pc |-> "read", run |-> @.run + 1,
                                    file |-> "identity.key", fd |-> Nothing, keys |-> NoKeys]]
    /\ UNCHANGED <<link, data, client, used>>

Stop(p) == proc' = [proc EXCEPT ![p] = [@ EXCEPT !.pc = "down", !.file = "none"]]

\* Mutant of Proceed: the API is started before the encryption key is there.
ProceedToAPI(p, f, v) ==
    CASE f = "identity.key" /\ p \in Serves ->
           /\ proc' = [proc EXCEPT ![p].pc = "open", ![p].file = "api.addr", ![p].keys[f] = v]
           /\ UNCHANGED used
      [] f = "identity.key" /\ p \notin Serves ->
           /\ proc' = [proc EXCEPT ![p].pc = "read", ![p].file = "encryption.key",
                                   ![p].keys[f] = v]
           /\ UNCHANGED used
      [] f = "api.addr" ->
           /\ proc' = [proc EXCEPT ![p].pc = "read", ![p].file = "encryption.key"]
           /\ UNCHANGED used
      [] f = "encryption.key" ->
           /\ proc' = [proc EXCEPT ![p].pc = "up", ![p].file = "none", ![p].keys[f] = v]
           /\ used' = [g \in KeyFiles |->
                         used[g] \cup {IF g = f THEN v ELSE proc[p].keys[g]}]

\* What comes after file f, with key v.  Once both keys are there the server
\* answers with them.
Proceed(p, f, v) ==
    CASE f = "identity.key" ->
           /\ proc' = [proc EXCEPT ![p].pc = "read", ![p].file = "encryption.key",
                                   ![p].keys[f] = v]
           /\ UNCHANGED used
      [] f = "encryption.key" ->
           /\ proc' = [proc EXCEPT ![p].pc = IF p \in Serves THEN "open" ELSE "up",
                                   ![p].file = IF p \in Serves THEN "api.addr" ELSE "none",
                                   ![p].keys[f] = v]
           /\ used' = [g \in KeyFiles |->
                         used[g] \cup {IF g = f THEN v ELSE proc[p].keys[g]}]
      [] f = "api.addr" ->
           /\ proc' = [proc EXCEPT ![p].pc = "up", ![p].file = "none"]
           /\ UNCHANGED used

\* Mutant of LoadKey: does not look for an existing key.
LoadKeyAnew(p) ==
    /\ proc[p].pc = "read"
    /\ proc' = [proc EXCEPT ![p].pc = "open"]
    /\ UNCHANGED <<link, data, client, used, overlapped>>

\* loadOrCreateIdentity, LoadOrCreateKey: an empty file does not decode, and
\* the process gives up.
LoadKey(p) ==
    LET f == proc[p].file
    IN  /\ proc[p].pc = "read"
        /\ IF link[Path(f)] = Nothing
             THEN proc' = [proc EXCEPT ![p].pc = "open"] /\ UNCHANGED used
           ELSE IF Contents(f) = Nothing
             THEN Stop(p) /\ UNCHANGED used
           ELSE Proceed(p, f, Contents(f))
        /\ UNCHANGED <<link, data, client, overlapped>>

\* Mutant of OpenTmp: the file itself is written, not a sibling.
OpenPath(p) ==
    LET f == proc[p].file
        inode == IF link[Path(f)] = Nothing THEN <<Run(p), f>> ELSE link[Path(f)]
    IN  /\ proc[p].pc = "open"
        /\ link' = [link EXCEPT ![Path(f)] = inode, ![Tmp(f)] = inode]
        /\ data' = [data EXCEPT ![inode] = Nothing]
        /\ proc' = [proc EXCEPT ![p].pc = "write", ![p].fd = inode]
        /\ UNCHANGED <<client, used, overlapped>>

\* WriteFileAtomic: os.WriteFile of the sibling, in its two parts.
OpenTmp(p) ==
    LET f == proc[p].file
        inode == IF link[Tmp(f)] = Nothing THEN <<Run(p), f>> ELSE link[Tmp(f)]
    IN  /\ proc[p].pc = "open"
        /\ link' = [link EXCEPT ![Tmp(f)] = inode]
        /\ data' = [data EXCEPT ![inode] = Nothing]
        /\ proc' = [proc EXCEPT ![p].pc = "write", ![p].fd = inode]
        /\ UNCHANGED <<client, used, overlapped>>

\* Mutant of WriteTmp: path and contents are swapped.
WriteTmpSwapped(p) ==
    /\ proc[p].pc = "write"
    /\ data' = [data EXCEPT ![proc[p].fd] = <<proc[p].file>>]
    /\ proc' = [proc EXCEPT ![p].pc = "rename", ![p].fd = Nothing]
    /\ UNCHANGED <<link, client, used, overlapped>>

WriteTmp(p) ==
    /\ proc[p].pc = "write"
    /\ data' = [data EXCEPT ![proc[p].fd] = Run(p)]
    /\ proc' = [proc EXCEPT ![p].pc = "rename", ![p].fd = Nothing]
    /\ UNCHANGED <<link, client, used, overlapped>>

\* os.Rename, of whatever the sibling is by now.  Without one it fails: what is
\* there by then is removed, and the start has failed too.
Rename(p) ==
    LET f == proc[p].file
    IN  /\ proc[p].pc = "rename"
        /\ IF link[Tmp(f)] = Nothing
             THEN /\ proc' = [proc EXCEPT ![p].pc = "cleanup"]
                  /\ UNCHANGED <<link, used>>
             ELSE /\ link' = [link EXCEPT ![Path(f)] = link[Tmp(f)], ![Tmp(f)] = Nothing]
                  /\ Proceed(p, f, Run(p))
        /\ UNCHANGED <<data, client, overlapped>>
Cleanup(p) ==
    /\ proc[p].pc = "cleanup"
    /\ link' = [link EXCEPT ![Tmp(proc[p].file)] = Nothing]
    /\ Stop(p)
    /\ UNCHANGED <<data, client, used, overlapped>>

\* Mutant of Close: `id` removes the address file too.
CloseAll(p) ==
    /\ proc[p].pc = "up"
    /\ link' = [link EXCEPT ![Path("api.addr")] = Nothing]
    /\ IF p \in Serves THEN proc' = [proc EXCEPT ![p].pc = "closing"] ELSE Stop(p)
    /\ UNCHANGED <<data, client, used, overlapped>>

\* serve is interrupted: api.Close removes the address file, then shuts the
\* listener down; the rest of the node follows.  id just ends.
Close(p) ==
    /\ proc[p].pc = "up"
    /\ IF p \in Serves
         THEN /\ link' = [link EXCEPT ![Path("api.addr")] = Nothing]
              /\ proc' = [proc EXCEPT ![p].pc = "closing"]
         ELSE Stop(p) /\ UNCHANGED link
    /\ UNCHANGED <<data, client, used, overlapped>>
Shutdown(p) == /\ proc[p].pc = "closing"
               /\ Stop(p)
               /\ UNCHANGED <<link, data, client, used, overlapped>>

\* The process is killed: no cleanup runs.
Kill(p) == /\ proc[p].pc # "down"
           /\ Stop(p)
           /\ UNCHANGED <<link, data, client, used, overlapped>>

-----------------------------------------------------------------------------
(* A client command: newClient reads the address, do dials it.  A missing  *)
(* file and a failed dial both end in "no node is running".                *)
(***************************************************************************)
ReadAddr(q) ==
    /\ client[q].pc = "idle"
    /\ client' = [client EXCEPT ![q] =
         IF link[Path("api.addr")] = Nothing THEN [pc |-> "absent", addr |-> Nothing]
         ELSE [pc |-> "dial", addr |-> Contents("api.addr")]]
    /\ UNCHANGED <<link, data, proc, used, overlapped>>
Dial(q) ==
    /\ client[q].pc = "dial"
    /\ client' = [client EXCEPT ![q].pc =
         IF \E p \in Serves : Listening(p) /\ client[q].addr = Run(p) THEN "served" ELSE "refused"]
    /\ UNCHANGED <<link, data, proc, used, overlapped>>
Done(q) ==
    /\ client[q].pc \in {"absent", "served", "refused"}
    /\ client' = [client EXCEPT ![q] = [pc |-> "idle", addr |-> Nothing]]
    /\ UNCHANGED <<link, data, proc, used, overlapped>>

-----------------------------------------------------------------------------
Init ==
    /\ link = [n \in Names |-> Nothing]
    /\ data = [i \in Inodes |-> Nothing]
    /\ proc = [p \in Procs |-> [pc |-> "down", run |-> 0, file |-> "none", fd |-> Nothing,
                                keys |-> NoKeys]]
    /\ client = [q \in Dialers |-> [pc |-> "idle", addr |-> Nothing]]
    /\ used = [f \in KeyFiles |-> {}]
    /\ overlapped = FALSE

Next == \/ \E p \in Procs : \/ Start(p)
                            \/ LoadKey(p)
                            \/ OpenTmp(p)
                            \/ WriteTmp(p)
                            \/ Rename(p)
                            \/ Cleanup(p)
                            \/ Close(p)
                            \/ Shutdown(p)
                            \/ Kill(p)
        \/ \E q \in Dialers : ReadAddr(q) \/ Dial(q) \/ Done(q)

Spec == Init /\ [][Next]_vars

-----------------------------------------------------------------------------
(* Properties.                                                             *)
(***************************************************************************)

\* Every variable holds what the code's types allow.
TypeOK ==
    /\ link \in [Names -> Inodes \cup {Nothing}]
    /\ data \in [Inodes -> Runs \cup {Nothing}]
    /\ proc \in [Procs -> [pc : {"down", "up", "closing"} \cup Starting,
                           run : 0 .. MaxRuns, file : DirFiles \cup {"none"},
                           fd : Inodes \cup {Nothing},
                           keys : [KeyFiles -> Runs \cup {Nothing}]]]
    /\ client \in [Dialers -> [pc : {"idle", "absent", "dial", "served", "refused"},
                               addr : Runs \cup {Nothing}]]
    /\ used \in [KeyFiles -> SUBSET Runs]
    /\ overlapped \in BOOLEAN

\* The key a data directory's nodes use is one and the same for the life of the
\* directory, however often and wherever they are killed, as long as no two of
\* them start at the same time.
OneKey(f) == Cardinality(used[f]) <= 1
KeyStable == ~overlapped => \A f \in KeyFiles : OneKey(f)

\* The key is stable for the life of the data directory.
KeyAlwaysStable == \A f \in KeyFiles : OneKey(f)

\* Even among overlapping starts, a key is only at risk while its file is being
\* created: once it is there and nobody is past finding it missing, no start,
\* kill or left-over sibling ever replaces it.
Settled(f) == /\ link[Path(f)] # Nothing
              /\ Contents(f) # Nothing
              /\ \A p \in Procs : ~(proc[p].file = f /\ proc[p].pc \in Creating)
SettledKeysStay ==
    [][\A f \in KeyFiles : Settled(f) => Settled(f)' /\ Contents(f)' = Contents(f)]_vars

\* Whoever opens a file WriteFileAtomic has written finds it complete, wherever
\* its writer was killed (two writers at once share the sibling, and do not).
NeverHalfWritten ==
    ~overlapped => \A f \in DirFiles : link[Path(f)] # Nothing => Contents(f) # Nothing

\* A client is led to a node as long as that node is up, and no longer: the
\* address file names its listener then, and not once it has begun to close.
CanBeFound ==
    \A p \in Serves :
        LET named == link[Path("api.addr")] # Nothing /\ Contents("api.addr") = Run(p)
        IN  (proc[p].pc = "up" => named) /\ (proc[p].pc = "closing" => ~named)

\* A client is only ever led to a node that has both its keys; the ones on disk,
\* unless starts overlapped.
ServedWithKeys ==
    \A p \in Serves :
        link[Path("api.addr")] # Nothing /\ proc[p].pc # "down" /\ Contents("api.addr") = Run(p) =>
            \A f \in KeyFiles :
                /\ proc[p].keys[f] # Nothing
                /\ overlapped \/ (link[Path(f)] # Nothing /\ proc[p].keys[f] = Contents(f))
=============================================================================
