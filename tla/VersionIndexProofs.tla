------------------------- MODULE VersionIndexProofs --------------------------
(***************************************************************************)
(* What the operators of VersionIndex preserve, for every list of entries  *)
(* and every MaxVersions.  S is any set of records with an id.             *)
(***************************************************************************)
EXTENDS VersionIndex, SequenceTheorems, TLAPS

\* The position of a listed id is a place of the list, and holds that id.
LEMMA PositionListed ==
  ASSUME NEW versions, NEW id \in IdsOf(versions)
  PROVE  /\ Position(versions, id) \in DOMAIN versions
         /\ versions[Position(versions, id)].id = id
BY DEF IdsOf, Position

\* Dropping the first entries gives a list of what remains, in its order.
LEMMA DropFirstList ==
  ASSUME NEW S, NEW s \in Seq(S), NEW cut \in 0 .. Len(s)
  PROVE  /\ DropFirst(s, cut) \in Seq(S)
         /\ Len(DropFirst(s, cut)) = Len(s) - cut
         /\ \A j \in 1 .. Len(s) - cut : DropFirst(s, cut)[j] = s[j + cut]
<1>1. DropFirst(s, cut) \in [1 .. Len(s) - cut -> S]
  BY LenProperties, ElementOfSeq DEF DropFirst
<1>2. Len(s) - cut \in Nat
  BY LenProperties
<1>3. DropFirst(s, cut) \in Seq(S)
  BY <1>1, <1>2, SeqDef
<1>4. DOMAIN DropFirst(s, cut) = 1 .. Len(s) - cut
  BY DEF DropFirst
<1>5. Len(DropFirst(s, cut)) = Len(s) - cut
  BY <1>2, <1>3, <1>4, LenProperties
<1>6. QED
  BY <1>3, <1>5 DEF DropFirst

\* Taking one position out gives a list one shorter.
LEMMA WithoutPositionList ==
  ASSUME NEW S, NEW s \in Seq(S), NEW i \in 1 .. Len(s)
  PROVE  /\ WithoutPosition(s, i) \in Seq(S)
         /\ Len(WithoutPosition(s, i)) = Len(s) - 1
         /\ \A j \in 1 .. Len(s) - 1 :
              WithoutPosition(s, i)[j] = IF j < i THEN s[j] ELSE s[j + 1]
<1>1. Len(s) - 1 \in Nat /\ Len(s) \in Nat
  BY LenProperties
<1>2. \A j \in 1 .. Len(s) - 1 : (IF j < i THEN s[j] ELSE s[j + 1]) \in S
  BY <1>1, ElementOfSeq
<1>3. WithoutPosition(s, i) \in [1 .. Len(s) - 1 -> S]
  BY <1>2 DEF WithoutPosition
<1>4. WithoutPosition(s, i) \in Seq(S)
  BY <1>1, <1>3, SeqDef
<1>5. DOMAIN WithoutPosition(s, i) = 1 .. Len(s) - 1
  BY DEF WithoutPosition
<1>6. Len(WithoutPosition(s, i)) = Len(s) - 1
  BY <1>1, <1>4, <1>5, LenProperties
<1>7. QED
  BY <1>4, <1>6 DEF WithoutPosition
\* Pruning a list whose last entry is the latest and whose ids differ leaves a
\* list that is as it must be, whatever its length was.
LEMMA PruneOK ==
  ASSUME NEW S, NEW latest, NEW s \in Seq(S), s # <<>>,
         UniqueIds(s), s[Len(s)].id = latest
  PROVE  LET new == pruneOldestVersions([latest |-> latest, versions |-> s])
         IN  /\ new = [latest |-> latest, versions |-> DropFirst(s, PruneCut(s))]
             /\ new.versions \in Seq(S)
             /\ IndexOK(new)
<1> DEFINE cut == PruneCut(s)
           left == DropFirst(s, cut)
           new == pruneOldestVersions([latest |-> latest, versions |-> s])
<1>1. Len(s) \in Nat \ {0} /\ DOMAIN s = 1 .. Len(s)
  BY LenProperties, EmptySeq
<1>2. cut \in 0 .. Len(s) /\ cut < Len(s)
  BY <1>1, MaxVersionsAssumption DEF PruneCut
<1>3. new = [latest |-> latest, versions |-> left]
  BY DEF pruneOldestVersions
<1>4. /\ left \in Seq(S)
      /\ Len(left) = Len(s) - cut
      /\ \A j \in 1 .. Len(s) - cut : left[j] = s[j + cut]
  BY <1>2, DropFirstList
<1>5. DOMAIN left = 1 .. Len(s) - cut
  BY DEF DropFirst
<1>6. UniqueIds(left)
  <2> SUFFICES ASSUME NEW i \in 1 .. Len(s) - cut, NEW j \in 1 .. Len(s) - cut,
                      left[i].id = left[j].id
               PROVE  i = j
    BY <1>5 DEF UniqueIds
  <2>1. s[i + cut].id = s[j + cut].id
    BY <1>4
  <2>2. i + cut \in DOMAIN s /\ j + cut \in DOMAIN s
    BY <1>1, <1>2
  <2>3. i + cut = j + cut
    BY <2>1, <2>2 DEF UniqueIds
  <2>4. QED
    BY <1>1, <1>2, <2>3
<1>7. LatestListed(new)
  <2>1. Len(s) - cut \in DOMAIN left
    BY <1>1, <1>2, <1>5
  <2>2. left[Len(s) - cut].id = latest
    BY <1>1, <1>2, <1>4
  <2>3. left # <<>>
    BY <1>1, <1>2, <1>4, EmptySeq
  <2>4. QED
    BY <1>3, <2>1, <2>2, <2>3 DEF LatestListed, IdsOf
<1>8. WithinLimit(left)
  <2> HIDE DEF left
  <2>1. CASE MaxVersions > 0 /\ Len(s) > MaxVersions
    BY <1>1, <1>4, <2>1, MaxVersionsAssumption DEF WithinLimit, PruneCut
  <2>2. CASE ~(MaxVersions > 0 /\ Len(s) > MaxVersions)
    BY <1>1, <1>4, <2>2, MaxVersionsAssumption DEF WithinLimit, PruneCut
  <2>3. QED
    BY <2>1, <2>2
<1>9. QED
  BY <1>3, <1>4, <1>6, <1>7, <1>8 DEF IndexOK

\* WriteVersion's change to the index: a new id at the end, then the pruning.
LEMMA AppendLatestOK ==
  ASSUME NEW S, NEW idx, idx.versions \in Seq(S), NEW e \in S,
         UniqueIds(idx.versions), e.id \notin IdsOf(idx.versions)
  PROVE  LET new == pruneOldestVersions(AppendLatest(idx, e))
         IN  /\ new = [latest |-> e.id, versions |-> new.versions]
             /\ new.versions \in Seq(S)
             /\ IndexOK(new)
<1> DEFINE old == idx.versions
           s == Append(old, e)
<1>1. /\ s \in Seq(S)
      /\ Len(s) = Len(old) + 1
      /\ \A i \in 1 .. Len(old) : s[i] = old[i]
      /\ s[Len(old) + 1] = e
  BY AppendProperties
<1>2. /\ DOMAIN s = 1 .. Len(old) + 1
      /\ DOMAIN old = 1 .. Len(old)
      /\ Len(old) \in Nat
  BY <1>1, LenProperties
<1>3. \A i \in 1 .. Len(old) : s[i].id # e.id
  BY <1>1, <1>2 DEF IdsOf
<1>4. UniqueIds(s)
  <2> SUFFICES ASSUME NEW i \in 1 .. Len(old) + 1, NEW j \in 1 .. Len(old) + 1,
                      s[i].id = s[j].id
               PROVE  i = j
    BY <1>2 DEF UniqueIds
  <2>1. CASE i \in 1 .. Len(old) /\ j \in 1 .. Len(old)
    BY <1>1, <1>2, <2>1 DEF UniqueIds
  <2>2. CASE i = Len(old) + 1 \/ j = Len(old) + 1
    BY <1>1, <1>2, <1>3, <2>2
  <2>3. QED
    BY <1>2, <2>1, <2>2
<1>5. s # <<>>
  <2>1. Len(s) # 0
    BY <1>1, <1>2
  <2>2. QED
    BY <2>1, EmptySeq
<1>6. s[Len(s)].id = e.id
  BY <1>1
<1>7. AppendLatest(idx, e) = [latest |-> e.id, versions |-> s]
  BY DEF AppendLatest
<1> DEFINE new == pruneOldestVersions([latest |-> e.id, versions |-> s])
<1> HIDE DEF s
<1>8. /\ new = [latest |-> e.id, versions |-> DropFirst(s, PruneCut(s))]
      /\ new.versions \in Seq(S)
      /\ IndexOK(new)
  BY <1>1, <1>4, <1>5, <1>6, PruneOK
<1>9. new = [latest |-> e.id, versions |-> new.versions]
  BY <1>8
<1>10. QED
  BY <1>7, <1>8, <1>9
\* WriteVersionRaw's change to the index.
LEMMA UpsertLatestOK ==
  ASSUME NEW S, NEW idx, idx.versions \in Seq(S), NEW e \in S, IndexOK(idx)
  PROVE  LET new == pruneOldestVersions(UpsertLatest(idx, e))
         IN  /\ new = [latest |-> e.id, versions |-> new.versions]
             /\ new.versions \in Seq(S)
             /\ IndexOK(new)
<1> DEFINE old == idx.versions
<1>1. CASE e.id \notin IdsOf(old)
  <2>1. UpsertLatest(idx, e) = AppendLatest(idx, e)
    BY <1>1 DEF UpsertLatest, AppendLatest, upsertVersion
  <2>2. QED
    BY <1>1, <2>1, AppendLatestOK DEF IndexOK
<1>2. CASE e.id \in IdsOf(old)
  <2> DEFINE p == Position(old, e.id)
             s == [old EXCEPT ![p] = e]
             new == pruneOldestVersions([latest |-> e.id, versions |-> s])
  <2>1. UpsertLatest(idx, e) = [latest |-> e.id, versions |-> s]
    BY <1>2 DEF UpsertLatest, upsertVersion
  <2>2. Len(old) \in Nat /\ DOMAIN old = 1 .. Len(old)
    BY LenProperties
  <2>3. p \in 1 .. Len(old) /\ old[p].id = e.id
    BY <1>2, <2>2, PositionListed
  <2> HIDE DEF p
  <2>4. /\ s \in Seq(S)
        /\ Len(s) = Len(old)
        /\ \A j \in 1 .. Len(old) : s[j] = IF j = p THEN e ELSE old[j]
    BY <2>3, ExceptSeq
  <2>5. DOMAIN s = 1 .. Len(old)
    BY <2>2
  <2>6. \A j \in 1 .. Len(old) : s[j].id = old[j].id
    BY <2>3, <2>4
  <2> HIDE DEF s
  <2>7. UniqueIds(s)
    BY <2>2, <2>5, <2>6 DEF UniqueIds, IndexOK
  <2>8. PruneCut(s) = 0
    BY <2>2, <2>4, MaxVersionsAssumption DEF IndexOK, WithinLimit, PruneCut
  <2>9. new = [latest |-> e.id, versions |-> DropFirst(s, 0)]
    BY <2>8 DEF pruneOldestVersions
  <2>10. DropFirst(s, 0) = s
    <3>1. /\ DropFirst(s, 0) \in Seq(S)
          /\ Len(DropFirst(s, 0)) = Len(s)
          /\ \A j \in 1 .. Len(s) : DropFirst(s, 0)[j] = s[j]
      BY <2>2, <2>4, ElementOfSeq, DropFirstList
    <3>2. QED
      BY <2>4, <3>1, SeqEqual
  <2>11. s # <<>> /\ e.id \in IdsOf(s)
    <3>1. Len(s) # 0
      BY <2>2, <2>3, <2>4
    <3>2. s[p].id = e.id
      BY <2>3, <2>6
    <3>3. QED
      BY <2>3, <2>5, <3>1, <3>2, EmptySeq DEF IdsOf
  <2>12. IndexOK([latest |-> e.id, versions |-> s])
    BY <2>4, <2>7, <2>11 DEF IndexOK, LatestListed, WithinLimit
  <2>13. QED
    BY <2>1, <2>4, <2>9, <2>10, <2>12
<1>3. QED
  BY <1>1, <1>2

\* DeleteVersion's change to the index.
LEMMA RemoveVersionOK ==
  ASSUME NEW S, NEW idx, idx.versions \in Seq(S), IndexOK(idx),
         NEW id \in IdsOf(idx.versions)
  PROVE  LET new == RemoveVersion(idx, id)
         IN  /\ new = [latest |-> new.latest, versions |-> new.versions]
             /\ new.versions \in Seq(S)
             /\ IndexOK(new)
<1> DEFINE old == idx.versions
           p == Position(old, id)
           left == WithoutPosition(old, p)
           new == RemoveVersion(idx, id)
<1>1. Len(old) \in Nat /\ DOMAIN old = 1 .. Len(old)
  BY LenProperties
<1>2. p \in 1 .. Len(old) /\ old[p].id = id
  BY <1>1, PositionListed
<1>3. DOMAIN left = 1 .. Len(old) - 1
  BY DEF WithoutPosition
<1>4. new = [versions |-> left,
             latest |-> IF idx.latest # id THEN idx.latest
                        ELSE IF left = <<>> THEN NoVersion ELSE left[Len(left)].id]
  BY DEF RemoveVersion
<1> HIDE DEF p
<1>5. /\ left \in Seq(S)
      /\ Len(left) = Len(old) - 1
      /\ \A j \in 1 .. Len(old) - 1 : left[j] = IF j < p THEN old[j] ELSE old[j + 1]
  BY <1>2, WithoutPositionList
<1> HIDE DEF left, new
<1>6. UniqueIds(left)
  <2> SUFFICES ASSUME NEW i \in 1 .. Len(old) - 1, NEW j \in 1 .. Len(old) - 1,
                      left[i].id = left[j].id
               PROVE  i = j
    BY <1>3 DEF UniqueIds
  <2> DEFINE at(x) == IF x < p THEN x ELSE x + 1
  <2>1. old[at(i)].id = old[at(j)].id
    BY <1>5
  <2>2. at(i) \in DOMAIN old /\ at(j) \in DOMAIN old
    BY <1>1
  <2>3. at(i) = at(j)
    BY <2>1, <2>2 DEF IndexOK, UniqueIds
  <2>4. QED
    BY <1>1, <1>2, <2>3
<1>7. LatestListed(new)
  <2>1. CASE left = <<>>
    <3>1. Len(old) = 1
      BY <1>1, <1>2, <1>5, <2>1, EmptySeq
    <3>2. old # <<>>
      <4>1. Len(old) # 0
        BY <3>1
      <4>2. QED
        BY <4>1, EmptySeq
    <3>3. PICK i \in DOMAIN old : old[i].id = idx.latest
      BY <3>2 DEF IndexOK, LatestListed, IdsOf
    <3>4. i = p
      BY <1>1, <1>2, <3>1
    <3>5. idx.latest = id
      BY <1>2, <3>3, <3>4
    <3>6. QED
      BY <1>4, <2>1, <3>5 DEF LatestListed
  <2>2. CASE left # <<>>
    <3>1. Len(left) \in DOMAIN left
      BY <1>1, <1>3, <1>5, <2>2, EmptySeq
    <3>2. CASE idx.latest = id
      BY <1>4, <2>2, <3>1, <3>2 DEF LatestListed, IdsOf
    <3>3. CASE idx.latest # id
      <4>1. Len(old) # 0
        BY <1>1, <1>2
      <4>2. PICK i \in DOMAIN old : old[i].id = idx.latest
        BY <4>1, EmptySeq DEF IndexOK, LatestListed, IdsOf
      <4>3. i # p
        BY <1>2, <3>3, <4>2
      <4> DEFINE j == IF i < p THEN i ELSE i - 1
      <4>4. j \in 1 .. Len(old) - 1
        BY <1>1, <1>2, <4>3
      <4>5. left[j] = old[i]
        BY <1>1, <1>2, <1>5, <4>3, <4>4
      <4>6. QED
        BY <1>3, <1>4, <2>2, <3>3, <4>2, <4>4, <4>5 DEF LatestListed, IdsOf
    <3>4. QED
      BY <3>2, <3>3
  <2>3. QED
    BY <2>1, <2>2
<1>8. WithinLimit(left)
  BY <1>1, <1>5, MaxVersionsAssumption DEF IndexOK, WithinLimit
<1>9. QED
  BY <1>4, <1>5, <1>6, <1>7, <1>8 DEF new, IndexOK

\* The index of a key with no file is as it must be.
LEMMA EmptyIndexOK ==
  ASSUME NEW S
  PROVE  EmptyIndex.versions \in Seq(S) /\ IndexOK(EmptyIndex)
BY MaxVersionsAssumption, EmptySeq
   DEF EmptyIndex, IndexOK, UniqueIds, LatestListed, WithinLimit
-----------------------------------------------------------------------------
(* Which entries the operations list, whatever the list was before.        *)
(***************************************************************************)
Entries(versions) == {versions[i] : i \in DOMAIN versions}

LEMMA EntriesTyped ==
  ASSUME NEW S, NEW s \in Seq(S)
  PROVE  Entries(s) \subseteq S
BY LenProperties, ElementOfSeq DEF Entries

LEMMA AppendEntries ==
  ASSUME NEW S, NEW s \in Seq(S), NEW e \in S
  PROVE  Append(s, e) \in Seq(S) /\ Entries(Append(s, e)) = Entries(s) \cup {e}
<1> DEFINE t == Append(s, e)
<1>1. /\ t \in Seq(S)
      /\ Len(t) = Len(s) + 1
      /\ \A i \in 1 .. Len(s) : t[i] = s[i]
      /\ t[Len(s) + 1] = e
  BY AppendProperties
<1>2. /\ DOMAIN t = 1 .. Len(s) + 1
      /\ DOMAIN s = 1 .. Len(s)
      /\ Len(s) \in Nat
  BY <1>1, LenProperties
<1> HIDE DEF t
<1>3. \A i \in DOMAIN t : t[i] \in Entries(s) \cup {e}
  BY <1>1, <1>2 DEF Entries
<1>4. \A i \in DOMAIN s : i \in DOMAIN t /\ s[i] = t[i]
  BY <1>1, <1>2
<1>5. Len(s) + 1 \in DOMAIN t
  BY <1>2
<1>6. Entries(t) = Entries(s) \cup {e}
  BY <1>1, <1>3, <1>4, <1>5 DEF Entries
<1>7. QED
  BY <1>1, <1>6 DEF t

LEMMA UpsertEntries ==
  ASSUME NEW S, NEW s \in Seq(S), NEW e \in S
  PROVE  /\ upsertVersion(s, e) \in Seq(S)
         /\ Entries(upsertVersion(s, e)) \subseteq Entries(s) \cup {e}
         /\ {f \in Entries(s) : f.id # e.id} \cup {e} \subseteq Entries(upsertVersion(s, e))
<1>1. CASE e.id \notin IdsOf(s)
  BY <1>1, AppendEntries DEF upsertVersion
<1>2. CASE e.id \in IdsOf(s)
  <2> DEFINE p == Position(s, e.id)
             t == [s EXCEPT ![p] = e]
  <2>1. Len(s) \in Nat /\ DOMAIN s = 1 .. Len(s)
    BY LenProperties
  <2>2. p \in 1 .. Len(s) /\ s[p].id = e.id
    BY <1>2, <2>1, PositionListed
  <2> HIDE DEF p
  <2>3. /\ t \in Seq(S)
        /\ \A j \in 1 .. Len(s) : t[j] = IF j = p THEN e ELSE s[j]
        /\ DOMAIN t = 1 .. Len(s)
    BY <2>1, <2>2, ExceptSeq
  <2>4. upsertVersion(s, e) = t
    BY <1>2 DEF upsertVersion, p
  <2> HIDE DEF t
  <2>5. Entries(t) \subseteq Entries(s) \cup {e}
    BY <2>1, <2>3 DEF Entries
  <2>6. e \in Entries(t)
    BY <2>2, <2>3 DEF Entries
  <2>7. ASSUME NEW i \in DOMAIN s, s[i].id # e.id
        PROVE  s[i] \in Entries(t)
    <3>1. i # p
      BY <2>2, <2>7
    <3>2. t[i] = s[i] /\ i \in DOMAIN t
      BY <2>1, <2>3, <3>1
    <3>3. QED
      BY <3>2 DEF Entries
  <2>8. QED
    BY <2>3, <2>4, <2>5, <2>6, <2>7 DEF Entries
<1>3. QED
  BY <1>1, <1>2

\* Pruning keeps the latest version's name and invents no entry; without a
\* limit it changes nothing.
LEMMA PruneEntries ==
  ASSUME NEW S, NEW latest, NEW s \in Seq(S)
  PROVE  LET old == [latest |-> latest, versions |-> s]
             new == pruneOldestVersions(old)
         IN  /\ new = [latest |-> latest, versions |-> new.versions]
             /\ new.versions \in Seq(S)
             /\ Entries(new.versions) \subseteq Entries(s)
             /\ MaxVersions = 0 => new = old
             /\ DOMAIN PrunedIds(old) = 1 .. PruneCut(s)
             /\ \A j \in DOMAIN PrunedIds(old) : PrunedIds(old)[j] \in IdsOf(s)
             /\ MaxVersions = 0 => DOMAIN PrunedIds(old) = {}
<1> DEFINE cut == PruneCut(s)
           left == DropFirst(s, cut)
           old == [latest |-> latest, versions |-> s]
           new == pruneOldestVersions(old)
<1>1. Len(s) \in Nat /\ DOMAIN s = 1 .. Len(s)
  BY LenProperties
<1>2. cut \in 0 .. Len(s) /\ (MaxVersions = 0 => cut = 0)
  <2>1. Len(s) \in Nat
    BY <1>1
  <2>2. CASE MaxVersions > 0 /\ Len(s) > MaxVersions
    BY <2>1, <2>2, MaxVersionsAssumption DEF PruneCut
  <2>3. CASE ~(MaxVersions > 0 /\ Len(s) > MaxVersions)
    BY <2>1, <2>3, MaxVersionsAssumption DEF PruneCut
  <2>4. QED
    BY <2>2, <2>3
<1>3. new = [latest |-> latest, versions |-> left]
  BY DEF pruneOldestVersions
<1>4. /\ left \in Seq(S)
      /\ Len(left) = Len(s) - cut
      /\ \A j \in 1 .. Len(s) - cut : left[j] = s[j + cut]
  BY <1>2, DropFirstList
<1>5. DOMAIN left = 1 .. Len(s) - cut
  BY DEF DropFirst
<1>6. \A j \in 1 .. Len(s) - cut : j + cut \in DOMAIN s
  BY <1>1, <1>2
<1>7. Entries(left) \subseteq Entries(s)
  BY <1>4, <1>5, <1>6 DEF Entries
<1>8. ASSUME MaxVersions = 0
      PROVE  left = s
  <2>1. Len(left) = Len(s) /\ \A j \in 1 .. Len(s) : left[j] = s[j]
    BY <1>1, <1>2, <1>4, <1>8
  <2>2. QED
    BY <1>4, <2>1, SeqEqual
<1>9. DOMAIN PrunedIds(old) = 1 .. cut /\ \A j \in 1 .. cut : PrunedIds(old)[j] = s[j].id
  BY DEF PrunedIds
<1>10. \A j \in 1 .. cut : s[j].id \in IdsOf(s)
  BY <1>1, <1>2 DEF IdsOf
<1>11. MaxVersions = 0 => 1 .. cut = {}
  BY <1>2
<1> HIDE DEF cut, left
<1>12. /\ DOMAIN PrunedIds(old) = 1 .. cut
       /\ \A j \in DOMAIN PrunedIds(old) : PrunedIds(old)[j] \in IdsOf(s)
       /\ MaxVersions = 0 => DOMAIN PrunedIds(old) = {}
  BY <1>9, <1>10, <1>11
<1>13. /\ new.versions = left
       /\ new = [latest |-> latest, versions |-> new.versions]
       /\ MaxVersions = 0 => new = old
  BY <1>3, <1>8
<1> HIDE DEF new, old
<1>14. /\ new.versions \in Seq(S)
       /\ Entries(new.versions) \subseteq Entries(s)
  BY <1>4, <1>7, <1>13
<1>15. QED
  BY <1>12, <1>13, <1>14 DEF cut, new, old

LEMMA RemoveEntries ==
  ASSUME NEW S, NEW idx, idx.versions \in Seq(S), NEW id \in IdsOf(idx.versions)
  PROVE  LET new == RemoveVersion(idx, id)
         IN  /\ new = [latest |-> new.latest, versions |-> new.versions]
             /\ new.versions \in Seq(S)
             /\ Entries(new.versions) \subseteq Entries(idx.versions)
             /\ {f \in Entries(idx.versions) : f.id # id} \subseteq Entries(new.versions)
             /\ new.latest \in {idx.latest, NoVersion} \cup IdsOf(new.versions)
<1> DEFINE old == idx.versions
           p == Position(old, id)
           left == WithoutPosition(old, p)
           new == RemoveVersion(idx, id)
<1>1. Len(old) \in Nat /\ DOMAIN old = 1 .. Len(old)
  BY LenProperties
<1>2. p \in 1 .. Len(old) /\ old[p].id = id
  BY <1>1, PositionListed
<1>3. DOMAIN left = 1 .. Len(old) - 1
  BY DEF WithoutPosition
<1>4. new = [versions |-> left,
             latest |-> IF idx.latest # id THEN idx.latest
                        ELSE IF left = <<>> THEN NoVersion ELSE left[Len(left)].id]
  BY DEF RemoveVersion
<1> HIDE DEF p
<1>5. /\ left \in Seq(S)
      /\ Len(left) = Len(old) - 1
      /\ \A j \in 1 .. Len(old) - 1 : left[j] = IF j < p THEN old[j] ELSE old[j + 1]
  BY <1>2, WithoutPositionList
<1> HIDE DEF left, new
<1>6. Entries(left) \subseteq Entries(old)
  <2>1. \A j \in 1 .. Len(old) - 1 : j \in DOMAIN old /\ j + 1 \in DOMAIN old
    BY <1>1
  <2>2. \A j \in DOMAIN left : \E i \in DOMAIN old : left[j] = old[i]
    BY <1>3, <1>5, <2>1
  <2>3. QED
    BY <2>2 DEF Entries
<1>7. ASSUME NEW i \in DOMAIN old, old[i].id # id
      PROVE  old[i] \in Entries(left)
  <2> DEFINE j == IF i < p THEN i ELSE i - 1
  <2>1. i # p
    BY <1>2, <1>7
  <2>2. j \in 1 .. Len(old) - 1 /\ left[j] = old[i]
    BY <1>1, <1>2, <1>5, <2>1, SMTT(20), ZenonT(60)
  <2>3. QED
    BY <1>3, <2>2 DEF Entries
<1>8. left # <<>> => left[Len(left)].id \in IdsOf(left)
  <2> SUFFICES ASSUME left # <<>> PROVE left[Len(left)].id \in IdsOf(left)
    OBVIOUS
  <2>1. Len(left) \in DOMAIN left
    BY <1>1, <1>3, <1>5, EmptySeq
  <2>2. QED
    BY <2>1 DEF IdsOf
<1>9. {f \in Entries(old) : f.id # id} \subseteq Entries(left)
  BY <1>7 DEF Entries
<1>10. /\ new.versions = left
       /\ new = [latest |-> new.latest, versions |-> new.versions]
       /\ new.latest \in {idx.latest, NoVersion} \cup IdsOf(left)
  BY <1>4, <1>8
<1>11. QED
  BY <1>5, <1>6, <1>9, <1>10 DEF new

\* What a request resolves to is one of the entries listed, and the next number
\* is a number.
LEMMA ResolvedListed ==
  ASSUME NEW idx, NEW id, CanResolve(idx, id)
  PROVE  /\ resolveVersion(idx, id) \in Entries(idx.versions)
         /\ resolveVersion(idx, id).id = ResolvedId(idx, id)
BY PositionListed DEF CanResolve, resolveVersion, Entries

LEMMA nextSeqNumber ==
  ASSUME NEW S, NEW idx, idx.versions \in Seq(S), \A e \in S : e.seq \in Nat
  PROVE  nextSeq(idx) \in Nat
<1>1. CASE idx.versions = <<>>
  BY <1>1 DEF nextSeq
<1>2. CASE idx.versions # <<>>
  <2>1. Len(idx.versions) \in 1 .. Len(idx.versions)
    BY <1>2, EmptySeq
  <2>2. idx.versions[Len(idx.versions)] \in S
    BY <2>1, ElementOfSeq
  <2>3. QED
    BY <1>2, <2>2 DEF nextSeq
<1>3. QED
  BY <1>1, <1>2

LEMMA IdsOfEntries ==
  ASSUME NEW s
  PROVE  IdsOf(s) = {e.id : e \in Entries(s)}
BY DEF IdsOf, Entries

-----------------------------------------------------------------------------
(* No id is both kept and given up, and numbers go on growing.             *)
(***************************************************************************)
LEMMA AppendUnique ==
  ASSUME NEW S, NEW s \in Seq(S), NEW e \in S, UniqueIds(s), e.id \notin IdsOf(s)
  PROVE  UniqueIds(Append(s, e))
<1> DEFINE t == Append(s, e)
<1>1. /\ t \in Seq(S) /\ Len(t) = Len(s) + 1 /\ Len(s) \in Nat
      /\ \A i \in 1 .. Len(s) : t[i] = s[i]
      /\ t[Len(s) + 1] = e
  BY AppendProperties, LenProperties
<1>2. DOMAIN t = 1 .. Len(s) + 1 /\ DOMAIN s = 1 .. Len(s)
  BY <1>1, LenProperties
<1>3. \A i \in 1 .. Len(s) : s[i].id # e.id
  BY <1>2 DEF IdsOf
<1>4. \A i, j \in 1 .. Len(s) : s[i].id = s[j].id => i = j
  BY <1>2 DEF UniqueIds
<1> HIDE DEF t
<1>5. SUFFICES ASSUME NEW i \in 1 .. Len(s) + 1, NEW j \in 1 .. Len(s) + 1,
                      t[i].id = t[j].id
               PROVE  i = j
  BY <1>2 DEF UniqueIds, t
<1>6. CASE i \in 1 .. Len(s) /\ j \in 1 .. Len(s)
  BY <1>1, <1>4, <1>5, <1>6
<1>7. CASE i = Len(s) + 1 \/ j = Len(s) + 1
  BY <1>1, <1>3, <1>5, <1>7
<1>8. QED
  BY <1>1, <1>6, <1>7

LEMMA UpsertUnique ==
  ASSUME NEW S, NEW s \in Seq(S), NEW e \in S, UniqueIds(s)
  PROVE  UniqueIds(upsertVersion(s, e))
<1>1. CASE e.id \notin IdsOf(s)
  BY <1>1, AppendUnique DEF upsertVersion
<1>2. CASE e.id \in IdsOf(s)
  <2> DEFINE p == Position(s, e.id)
             t == [s EXCEPT ![p] = e]
  <2>1. p \in DOMAIN s /\ s[p].id = e.id
    BY <1>2, PositionListed
  <2>2. DOMAIN t = DOMAIN s /\ t[p] = e /\ \A i \in DOMAIN s : i # p => t[i] = s[i]
    BY <2>1
  <2> HIDE DEF p, t
  <2>3. \A i \in DOMAIN s : t[i].id = s[i].id
    BY <2>1, <2>2
  <2>4. UniqueIds(t)
    BY <2>2, <2>3 DEF UniqueIds
  <2>5. QED
    BY <1>2, <2>4 DEF upsertVersion, t, p
<1>3. QED
  BY <1>1, <1>2

\* pruneOldestVersions deletes no blob of a version it keeps.
LEMMA PrunedGone ==
  ASSUME NEW S, NEW latest, NEW s \in Seq(S), UniqueIds(s)
  PROVE  LET old == [latest |-> latest, versions |-> s]
         IN  \A j \in DOMAIN PrunedIds(old) :
               PrunedIds(old)[j] \notin IdsOf(pruneOldestVersions(old).versions)
<1> DEFINE cut == PruneCut(s)
           left == DropFirst(s, cut)
           old == [latest |-> latest, versions |-> s]
<1>1. Len(s) \in Nat /\ DOMAIN s = 1 .. Len(s)
  BY LenProperties
<1>2. cut \in 0 .. Len(s)
  BY <1>1, MaxVersionsAssumption DEF PruneCut
<1>3. /\ DOMAIN PrunedIds(old) = 1 .. cut
      /\ \A j \in 1 .. cut : PrunedIds(old)[j] = s[j].id
  BY DEF PrunedIds
<1>4. pruneOldestVersions(old).versions = left
  BY DEF pruneOldestVersions
<1> HIDE DEF cut, old
<1>5. DOMAIN left = 1 .. Len(s) - cut /\ \A j \in 1 .. Len(s) - cut : left[j] = s[j + cut]
  BY DEF DropFirst
<1> HIDE DEF left
<1>6. ASSUME NEW j \in 1 .. cut, NEW i \in DOMAIN left
      PROVE  left[i].id # s[j].id
  <2>1. i + cut \in 1 .. Len(s) /\ j \in 1 .. Len(s) /\ i + cut # j
    BY <1>1, <1>2, <1>5, <1>6
  <2>2. left[i] = s[i + cut]
    BY <1>5
  <2>3. QED
    BY <1>1, <2>1, <2>2 DEF UniqueIds
<1>7. QED
  BY <1>3, <1>4, <1>6 DEF IdsOf, old

\* DeleteVersion leaves no entry with the id it was given.
LEMMA RemovedGone ==
  ASSUME NEW S, NEW idx, idx.versions \in Seq(S), UniqueIds(idx.versions),
         NEW id \in IdsOf(idx.versions)
  PROVE  id \notin IdsOf(RemoveVersion(idx, id).versions)
<1> DEFINE old == idx.versions
           p == Position(old, id)
           left == WithoutPosition(old, p)
<1>1. Len(old) \in Nat /\ DOMAIN old = 1 .. Len(old)
  BY LenProperties
<1>2. p \in 1 .. Len(old) /\ old[p].id = id
  BY <1>1, PositionListed
<1>3. RemoveVersion(idx, id).versions = left
  BY DEF RemoveVersion
<1> HIDE DEF p
<1>4. /\ DOMAIN left = 1 .. Len(old) - 1
      /\ \A j \in 1 .. Len(old) - 1 : left[j] = IF j < p THEN old[j] ELSE old[j + 1]
  BY DEF WithoutPosition
<1> HIDE DEF left
<1>5. ASSUME NEW j \in DOMAIN left PROVE left[j].id # id
  <2> DEFINE i == IF j < p THEN j ELSE j + 1
  <2>1. i \in 1 .. Len(old) /\ i # p
    BY <1>1, <1>2, <1>4
  <2>2. left[j] = old[i]
    BY <1>4
  <2>3. QED
    BY <1>1, <1>2, <2>1, <2>2 DEF UniqueIds
<1>6. QED
  BY <1>3, <1>5 DEF IdsOf

\* The numbers of a list grow along it.
Increasing(versions) ==
    \A i, j \in DOMAIN versions : i < j => versions[i].seq < versions[j].seq

LEMMA AppendIncreasing ==
  ASSUME NEW S, \A f \in S : f.seq \in Nat, NEW idx, idx.versions \in Seq(S),
         NEW e \in S, Increasing(idx.versions), e.seq = nextSeq(idx)
  PROVE  Increasing(AppendLatest(idx, e).versions)
<1> DEFINE s == idx.versions
           t == Append(s, e)
<1>1. /\ t \in Seq(S) /\ Len(t) = Len(s) + 1 /\ Len(s) \in Nat
      /\ \A i \in 1 .. Len(s) : t[i] = s[i]
      /\ t[Len(s) + 1] = e
  BY AppendProperties, LenProperties
<1>2. DOMAIN t = 1 .. Len(s) + 1 /\ DOMAIN s = 1 .. Len(s)
  BY <1>1, LenProperties
<1>3. \A i \in 1 .. Len(s) : s[i].seq \in Nat
  BY <1>2, ElementOfSeq
<1>4. \A i \in 1 .. Len(s) : s[i].seq < e.seq
  <2> TAKE i \in 1 .. Len(s)
  <2>1. s # <<>> /\ Len(s) \in 1 .. Len(s)
    BY <1>1, EmptySeq
  <2>2. e.seq = s[Len(s)].seq + 1
    BY <2>1 DEF nextSeq
  <2>3. i = Len(s) \/ s[i].seq < s[Len(s)].seq
    BY <1>1, <1>2, <2>1 DEF Increasing
  <2>4. QED
    BY <1>3, <2>1, <2>2, <2>3
<1>5. \A i, j \in 1 .. Len(s) : i < j => s[i].seq < s[j].seq
  BY <1>2 DEF Increasing
<1> HIDE DEF t, s
<1>6. ASSUME NEW i \in 1 .. Len(s) + 1, NEW j \in 1 .. Len(s) + 1, i < j
      PROVE  t[i].seq < t[j].seq
  <2>1. i \in 1 .. Len(s) /\ (j \in 1 .. Len(s) \/ j = Len(s) + 1)
    BY <1>1, <1>6
  <2>2. QED
    BY <1>1, <1>4, <1>5, <1>6, <2>1
<1>7. AppendLatest(idx, e).versions = t
  BY DEF AppendLatest, t, s
<1>8. QED
  BY <1>2, <1>6, <1>7 DEF Increasing

LEMMA PruneIncreasing ==
  ASSUME NEW S, NEW idx, idx.versions \in Seq(S), Increasing(idx.versions),
         idx = [latest |-> idx.latest, versions |-> idx.versions]
  PROVE  Increasing(pruneOldestVersions(idx).versions)
<1> DEFINE s == idx.versions
           cut == PruneCut(s)
           left == DropFirst(s, cut)
<1>1. Len(s) \in Nat /\ DOMAIN s = 1 .. Len(s)
  BY LenProperties
<1>2. cut \in 0 .. Len(s)
  BY <1>1, MaxVersionsAssumption DEF PruneCut
<1>3. pruneOldestVersions(idx).versions = left
  BY DEF pruneOldestVersions
<1> HIDE DEF cut
<1>4. DOMAIN left = 1 .. Len(s) - cut /\ \A j \in 1 .. Len(s) - cut : left[j] = s[j + cut]
  BY DEF DropFirst
<1> HIDE DEF left
<1>5. ASSUME NEW i \in DOMAIN left, NEW j \in DOMAIN left, i < j
      PROVE  left[i].seq < left[j].seq
  <2>1. i + cut \in 1 .. Len(s) /\ j + cut \in 1 .. Len(s) /\ i + cut < j + cut
    BY <1>1, <1>2, <1>4, <1>5
  <2>2. left[i] = s[i + cut] /\ left[j] = s[j + cut]
    BY <1>4
  <2>3. QED
    BY <1>1, <2>1, <2>2 DEF Increasing
<1>6. QED
  BY <1>3, <1>5 DEF Increasing

LEMMA RemoveIncreasing ==
  ASSUME NEW S, NEW idx, idx.versions \in Seq(S), Increasing(idx.versions),
         NEW id \in IdsOf(idx.versions)
  PROVE  Increasing(RemoveVersion(idx, id).versions)
<1> DEFINE old == idx.versions
           p == Position(old, id)
           left == WithoutPosition(old, p)
<1>1. Len(old) \in Nat /\ DOMAIN old = 1 .. Len(old)
  BY LenProperties
<1>2. p \in 1 .. Len(old)
  BY <1>1, PositionListed
<1>3. RemoveVersion(idx, id).versions = left
  BY DEF RemoveVersion
<1> HIDE DEF p
<1>4. /\ DOMAIN left = 1 .. Len(old) - 1
      /\ \A j \in 1 .. Len(old) - 1 : left[j] = IF j < p THEN old[j] ELSE old[j + 1]
  BY DEF WithoutPosition
<1> HIDE DEF left
<1>5. ASSUME NEW i \in DOMAIN left, NEW j \in DOMAIN left, i < j
      PROVE  left[i].seq < left[j].seq
  <2> DEFINE from(m) == IF m < p THEN m ELSE m + 1
  <2>1. from(i) \in 1 .. Len(old) /\ from(j) \in 1 .. Len(old) /\ from(i) < from(j)
    BY <1>1, <1>2, <1>4, <1>5
  <2>2. left[i] = old[from(i)] /\ left[j] = old[from(j)]
    BY <1>4
  <2>3. QED
    BY <1>1, <2>1, <2>2 DEF Increasing
<1>6. QED
  BY <1>3, <1>5 DEF Increasing

\* After WriteVersion and WriteVersionRaw the entry is listed, and none of the
\* ids whose blobs are to go is.
LEMMA PrunedParts ==
  ASSUME NEW S, NEW s \in Seq(S), NEW latest, latest # NoVersion, UniqueIds(s),
         IndexOK(pruneOldestVersions([latest |-> latest, versions |-> s]))
  PROVE  LET full == [latest |-> latest, versions |-> s]
             kept == pruneOldestVersions(full).versions
         IN  /\ latest \in IdsOf(kept)
             /\ \A i \in DOMAIN PrunedIds(full) : PrunedIds(full)[i] \notin IdsOf(kept)
<1> DEFINE full == [latest |-> latest, versions |-> s]
           new == pruneOldestVersions(full)
<1>1. new.latest = latest
  BY DEF pruneOldestVersions
<1>2. LatestListed(new)
  BY DEF IndexOK
<1>3. \A i \in DOMAIN PrunedIds(full) : PrunedIds(full)[i] \notin IdsOf(new.versions)
  BY PrunedGone
<1> HIDE DEF new, full
<1>4. latest \in IdsOf(new.versions)
  BY <1>1, <1>2 DEF LatestListed
<1>5. QED
  BY <1>3, <1>4 DEF new, full

LEMMA AppendedParts ==
  ASSUME NEW S, NEW idx, idx.versions \in Seq(S), NEW e \in S, UniqueIds(idx.versions),
         e.id # NoVersion, e.id \notin IdsOf(idx.versions)
  PROVE  LET full == AppendLatest(idx, e)
             kept == pruneOldestVersions(full).versions
         IN  /\ e.id \in IdsOf(kept)
             /\ \A i \in DOMAIN PrunedIds(full) : PrunedIds(full)[i] \notin IdsOf(kept)
<1>1. PICK s : s = Append(idx.versions, e)
  OBVIOUS
<1>2. AppendLatest(idx, e) = [latest |-> e.id, versions |-> s]
  BY <1>1 DEF AppendLatest
<1>3. s \in Seq(S) /\ UniqueIds(s)
  BY <1>1, AppendProperties, AppendUnique
<1>4. IndexOK(pruneOldestVersions(AppendLatest(idx, e)))
  BY AppendLatestOK
<1>5. QED
  BY <1>2, <1>3, <1>4, PrunedParts

LEMMA UpsertedParts ==
  ASSUME NEW S, NEW idx, idx.versions \in Seq(S), NEW e \in S, IndexOK(idx),
         e.id # NoVersion
  PROVE  LET full == UpsertLatest(idx, e)
             kept == pruneOldestVersions(full).versions
         IN  /\ e.id \in IdsOf(kept)
             /\ \A i \in DOMAIN PrunedIds(full) : PrunedIds(full)[i] \notin IdsOf(kept)
<1>1. PICK s : s = upsertVersion(idx.versions, e)
  OBVIOUS
<1>2. UpsertLatest(idx, e) = [latest |-> e.id, versions |-> s]
  BY <1>1 DEF UpsertLatest
<1>3. s \in Seq(S) /\ UniqueIds(s)
  BY <1>1, UpsertEntries, UpsertUnique DEF IndexOK
<1>4. IndexOK(pruneOldestVersions(UpsertLatest(idx, e)))
  BY UpsertLatestOK
<1>5. QED
  BY <1>2, <1>3, <1>4, PrunedParts
=============================================================================
