----------------------------- MODULE VersionLog -----------------------------
(***************************************************************************)
(* What a store promises about the version indexes of its keys, without    *)
(* locks, files or goroutines: each operation changes one key's index in   *)
(* one step, from what the index is at that step, so no operation's effect *)
(* is ever lost to another.  Store implements it.                          *)
(***************************************************************************)
EXTENDS VersionIndex

CONSTANT Keys

VARIABLES log,     \* log[k]: the version index of k
          past     \* past[k]: every entry Commit ever added to k

logVars == <<log, past>>

LogInit == /\ log = [k \in Keys |-> EmptyIndex]
           /\ past = [k \in Keys |-> {}]

\* A new version: an id the key has never had, the next sequence number, the
\* last place in the list; the oldest versions beyond MaxVersions go.
Commit(k) ==
    \E e \in past'[k] :
        /\ e.id \in VersionIDs \ {f.id : f \in past[k]}
        /\ e.seq = nextSeq(log[k])
        /\ log' = [log EXCEPT ![k] = pruneOldestVersions(AppendLatest(@, e))]
        /\ past' = [past EXCEPT ![k] = @ \cup {e}]

\* A version the key once had comes back, entry unchanged, as the latest.
Restore(k) ==
    \E e \in past[k] :
        /\ log' = [log EXCEPT ![k] = pruneOldestVersions(UpsertLatest(@, e))]
        /\ UNCHANGED past

Remove(k) ==
    \E id \in IdsOf(log[k].versions) :
        /\ log' = [log EXCEPT ![k] = RemoveVersion(@, id)]
        /\ UNCHANGED past

Clear(k) == /\ log' = [log EXCEPT ![k] = EmptyIndex]
            /\ UNCHANGED past

LogNext == \E k \in Keys : Commit(k) \/ Restore(k) \/ Remove(k) \/ Clear(k)

LogSpec == LogInit /\ [][LogNext]_logVars
=============================================================================
