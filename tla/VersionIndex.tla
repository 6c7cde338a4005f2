---------------------------- MODULE VersionIndex ----------------------------
(***************************************************************************)
(* The version index of one key (internal/store/version.go): the table of  *)
(* contents that says which versions of the key exist, in which order, and *)
(* which of them is the latest.  The operators are the pure parts of the   *)
(* store's operations on it, named as in the code.                         *)
(*                                                                         *)
(* An index is a record [latest, versions]; versions is a list of entries. *)
(* An entry carries a unique id and a sequence number seq; the remaining   *)
(* fields (size, message, creation time) are left to the modules that need *)
(* them.  Versions with no id never occur: NoVersion is the empty string   *)
(* the code uses for "none" and, in a request, for "the latest".           *)
(***************************************************************************)
EXTENDS Integers, Sequences

CONSTANTS VersionIDs,   \* the UUIDs newUUID may draw
          NoVersion,    \* the empty VersionID
          MaxVersions   \* StoreOpts.MaxVersions; 0 keeps every version

ASSUME NoVersionAssumption == NoVersion \notin VersionIDs
ASSUME MaxVersionsAssumption == MaxVersions \in Nat

\* What loadIndex returns when the index file does not exist.
EmptyIndex == [latest |-> NoVersion, versions |-> <<>>]

\* The ids a list of entries mentions.
IdsOf(versions) == {versions[i].id : i \in DOMAIN versions}

\* The place of the entry with this id: the code's loops stop at the first one,
\* and IndexOK makes it the only one.
Position(versions, id) == CHOOSE i \in DOMAIN versions : versions[i].id = id

\* Mutant of nextSeq: numbers by the length of the list.
nextSeqByLength(idx) == Len(idx.versions) + 1

nextSeq(idx) ==
    IF idx.versions = <<>> THEN 1 ELSE idx.versions[Len(idx.versions)].seq + 1

\* Replaces the entry with e's id in its place, or appends e.
upsertVersion(versions, e) ==
    IF e.id \in IdsOf(versions)
      THEN [versions EXCEPT ![Position(versions, e.id)] = e]
      ELSE Append(versions, e)

\* The list without the entry at position i.
WithoutPosition(versions, i) ==
    [j \in 1 .. Len(versions) - 1 |-> IF j < i THEN versions[j] ELSE versions[j + 1]]

\* Mutant of PruneCut: off by one.
PruneCutLate(versions) ==
    IF MaxVersions > 0 /\ Len(versions) > MaxVersions + 1
      THEN Len(versions) - MaxVersions ELSE 0

\* How many of the oldest entries exceed MaxVersions.
PruneCut(versions) ==
    IF MaxVersions > 0 /\ Len(versions) > MaxVersions
      THEN Len(versions) - MaxVersions ELSE 0

\* The list after its first cut entries.
DropFirst(versions, cut) == [j \in 1 .. Len(versions) - cut |-> versions[j + cut]]

\* The part of pruneOldestVersions that changes the index, and the ids whose
\* blobs it deletes, oldest first.
pruneOldestVersions(idx) ==
    [idx EXCEPT !.versions = DropFirst(@, PruneCut(@))]

\* Mutant of PrunedIds: the slice of blobs to delete is one too long.
PrunedIdsAndOne(idx) ==
    LET cut == PruneCut(idx.versions)
    IN  [j \in 1 .. IF cut = 0 THEN 0 ELSE cut + 1 |-> idx.versions[j].id]
PrunedIds(idx) == [j \in 1 .. PruneCut(idx.versions) |-> idx.versions[j].id]

\* WriteVersion's new list: the entry at the end, and it is the latest.
AppendLatest(idx, e) == [latest |-> e.id, versions |-> Append(idx.versions, e)]

\* WriteVersionRaw's new list: the entry in its place, and it is the latest.
UpsertLatest(idx, e) == [latest |-> e.id, versions |-> upsertVersion(idx.versions, e)]

\* DeleteVersion's new index: the entry dropped and, if it was the latest, the
\* last entry left taken as the latest.
RemoveVersion(idx, id) ==
    LET left == WithoutPosition(idx.versions, Position(idx.versions, id))
    IN  [versions |-> left,
         latest   |-> IF idx.latest # id THEN idx.latest
                      ELSE IF left = <<>> THEN NoVersion
                      ELSE left[Len(left)].id]

\* The id a request names, NoVersion meaning the latest; CanResolve says
\* whether resolveVersion finds it.
ResolvedId(idx, id) == IF id = NoVersion THEN idx.latest ELSE id
CanResolve(idx, id) == ResolvedId(idx, id) \in IdsOf(idx.versions)
resolveVersion(idx, id) == idx.versions[Position(idx.versions, ResolvedId(idx, id))]

-----------------------------------------------------------------------------

\* What every index a store saves must satisfy: no id twice, the latest version
\* is one of those listed (none exactly when the list is empty), and the list
\* is within MaxVersions.
UniqueIds(versions) ==
    \A i, j \in DOMAIN versions : versions[i].id = versions[j].id => i = j
LatestListed(idx) ==
    IF idx.versions = <<>> THEN idx.latest = NoVersion
                           ELSE idx.latest \in IdsOf(idx.versions)
WithinLimit(versions) == MaxVersions > 0 => Len(versions) <= MaxVersions

IndexOK(idx) ==
    /\ UniqueIds(idx.versions)
    /\ LatestListed(idx)
    /\ WithinLimit(idx.versions)
=============================================================================
