---------------------------- MODULE CustodyProofs -----------------------------
(***************************************************************************)
(* Theorems about FileServer: the replicas that a put's caller counts on   *)
(* stay where they are, the file servers implement module Custody, and a   *)
(* get finds a replica that a peer has confirmed.  They hold for nodes     *)
(* without a version limit (with one, a custodian prunes).                 *)
(*                                                                         *)
(* That replicas are whole, and Custody, need the same client of a node to *)
(* put and to fetch back: a get that restores a version while it is being  *)
(* put can cut the file the put reads from, and the replica is then short. *)
(* KeepInv follows a put from its local write to its peers' answers: only  *)
(* its own streams touch the custodians' copies of its version, each once. *)
(* StayInv is what is left of it when no turns are taken; HomeInv and      *)
(* FindInv follow a get, where nothing fails and only the getter deletes.  *)
(***************************************************************************)
EXTENDS ContentProofs

PutsDiffer ==
    \A c, d \in Clients :
        call[c].op = "put" /\ call[d].op = "put" /\ call[c].entry.id = call[d].entry.id => c = d
\* What c's put wrote at home is whole for as long as it is there.
PutWhole(c) ==
    LET e == call[c].entry
    IN  call[c].op = "put" =>
          /\ e.data = [of |-> e.id, n |-> Blocks]
          /\ blob[Own(c, call[c].key)][e.id].n \in {NoBlob.n, Blocks}
\* What the push to p has made of p's copy.
PutKept(c, p) ==
    LET e == call[c].entry
        s == Into(c, p)
        x == xfer[c][p]
    IN  call[c].op = "put" =>
          /\ x.pc \in Live => x.want = Blocks /\ x.entry = e
          /\ x.pc \in {"open", "ready", "recv"} =>
               \A f \in Entries(index[s].versions) : f.id # e.id
          /\ x.pc \in {"check", "good"} => e \in Entries(index[s].versions) /\ blob[s][e.id].n = x.n
AtHome(s) == s[1] = s[2]
ConfirmedKept ==
    \A r \in confirmed :
        /\ ~AtHome(r[1])
        /\ \E e \in Entries(index[r[1]].versions) :
             e.id = r[2] /\ e.data = [of |-> r[2], n |-> Blocks] /\ blob[r[1]][r[2]].n = Blocks
KeepInv == /\ PutsDiffer
           /\ \A c \in Clients : PutWhole(c)
           /\ \A c \in Clients, p \in Nodes : PutKept(c, p)
           /\ ConfirmedKept

-----------------------------------------------------------------------------
(* Copies, and the steps of module Custody that a change of them is.       *)
(***************************************************************************)
\* The step leaves what shelf s has of version id as it was.
Leaves(s, id) ==
    /\ blob'[s][id] = blob[s][id]
    /\ \A f : f.id = id => (f \in Entries(index[s].versions) <=> f \in Entries(index'[s].versions))

LEMMA ShelfLeft ==
  ASSUME NEW s \in Shelves, index'[s] = index[s], blob'[s] = blob[s], NEW id
  PROVE  Leaves(s, id)
BY DEF Leaves

\* A whole copy of entry e on shelf s.
Copy(s, e) == [of |-> e.data.of, for |-> s[2], n |-> e.data.n]
LEMMA HeldCopy ==
  ASSUME NEW s \in Shelves, NEW id \in VersionIDs
  PROVE  /\ <<s, id>> \in Held <=> \E e \in Entries(index[s].versions) : e.id = id /\ blob[s][id] = Copy(s, e)
         /\ <<s, id>> \in Held' <=> \E e \in Entries(index'[s].versions) : e.id = id /\ blob'[s][id] = Copy(s, e)
BY SMTT(20), ZenonT(60) DEF Held, Copy, Listed, Entries

LEMMA HeldStays ==
  ASSUME NEW s \in Shelves, NEW id \in VersionIDs, Leaves(s, id)
  PROVE  <<s, id>> \in Held <=> <<s, id>> \in Held'
<1>1. \A e : e.id = id => (e \in Entries(index[s].versions) <=> e \in Entries(index'[s].versions))
  BY DEF Leaves
<1>2. blob'[s][id] = blob[s][id]
  BY DEF Leaves
<1>3. (\E e \in Entries(index[s].versions) : e.id = id /\ blob[s][id] = Copy(s, e)) <=>
        \E e \in Entries(index'[s].versions) : e.id = id /\ blob'[s][id] = Copy(s, e)
  BY <1>1, <1>2
<1>4. QED
  BY <1>3, HeldCopy

\* Of a listed version, the copy is whole when its length is.
LEMMA HeldEntry ==
  ASSUME ServerInv, ContentInv, NEW s \in Shelves, NEW e \in Entries(index[s].versions)
  PROVE  /\ e \in Entry /\ e \in history[FileOf(s)] /\ FileOf(s) \in Files
         /\ <<s, e.id>> \in Held <=> blob[s][e.id].n = e.data.n
         /\ \A f \in Entries(index[s].versions) : f.id = e.id => f = e
<1>1. TypeOK /\ ReplicasAgree /\ OwnersKeyOnly /\ IdsUnique /\ ContentsOK
  BY DEF ServerInv, ContentInv
<1>2. e \in history[FileOf(s)] /\ FileOf(s) \in Files /\ e \in Entry
  BY <1>1, IndexTyped, ListedEntries DEF ReplicasAgree
<1>3. \A f \in Entries(index[s].versions) : f.id = e.id => f = e
  BY <1>1, <1>2, ListedEntries DEF ReplicasAgree, IdsUnique
<1>4. e.id \in VersionIDs /\ e.data \in Content
  BY <1>2, EntryTypes
<1>5. ASSUME <<s, e.id>> \in Held PROVE blob[s][e.id].n = e.data.n
  <2>1. PICK f \in Entries(index[s].versions) : f.id = e.id /\ blob[s][e.id] = Copy(s, f)
    BY <1>4, <1>5, HeldCopy
  <2>2. f = e
    BY <1>3, <2>1
  <2>3. QED
    BY <2>1, <2>2 DEF Copy
<1>6. ASSUME blob[s][e.id].n = e.data.n PROVE <<s, e.id>> \in Held
  <2>1. e.data.n \in 0 .. Blocks
    BY <1>4 DEF Content
  <2>2. blob[s][e.id] # NoBlob
    BY <1>6, <2>1, FileServerAssumption DEF NoBlob
  <2>3. blob[s][e.id] \in Blob
    BY <1>1, <1>4, <2>2 DEF TypeOK
  <2>4. blob[s][e.id].of = e.data.of /\ blob[s][e.id].for = s[2]
    BY <1>1, <1>2, <1>4, <2>2 DEF ContentsOK, OwnersKeyOnly
  <2>5. blob[s][e.id] = Copy(s, e)
    BY <1>6, <2>3, <2>4 DEF Blob, Copy
  <2>6. QED
    BY <1>4, <2>5, HeldCopy
<1>7. QED
  BY <1>2, <1>3, <1>5, <1>6

LEMMA NotListedHeld ==
  ASSUME NEW s \in Shelves, NEW id \in VersionIDs, \A f \in Entries(index[s].versions) : f.id # id
  PROVE  <<s, id>> \notin Held
BY HeldCopy

\* The file servers' step is a step of module Custody, or none.
CustodyStep == [CustodySpec!Next]_(CustodySpec!vars)

LEMMA NoCustody ==
  ASSUME UNCHANGED <<index, blob, history, confirmed>> PROVE CustodyStep
<1>1. Held' = Held /\ [f \in Files |-> Made(f)]' = [f \in Files |-> Made(f)]
  BY DEF Held, Listed, Made
<1>2. QED
  BY <1>1 DEF CustodyStep, CustodySpec!vars

\* One version of one shelf changes: its owner's, or one that was no copy.
LEMMA OneVersion ==
  ASSUME ServerInv', UNCHANGED <<history, confirmed>>,
         NEW s \in Shelves, NEW id \in VersionIDs,
         \A t \in Shelves, i \in VersionIDs : <<t, i>> # <<s, id>> => Leaves(t, i),
         AtHome(s) \/ <<s, id>> \notin Held
  PROVE  CustodyStep
<1>1. /\ [f \in Files |-> Made(f)]' = [f \in Files |-> Made(f)]
      /\ confirmed' = confirmed
  BY DEF Made
<1>2. \A h \in Shelves \X VersionIDs : h # <<s, id>> => (h \in Held <=> h \in Held')
  <2> SUFFICES ASSUME NEW t \in Shelves, NEW i \in VersionIDs, <<t, i>> # <<s, id>>
               PROVE  <<t, i>> \in Held <=> <<t, i>> \in Held'
    OBVIOUS
  <2>1. Leaves(t, i)
    OBVIOUS
  <2>2. QED
    BY <2>1, HeldStays
<1>3. Held \subseteq Shelves \X VersionIDs /\ Held' \subseteq Shelves \X VersionIDs
  BY DEF Held
<1>4. s \in CustodySpec!Places
  BY DEF Shelves, CustodySpec!Places
<1>5. CASE <<s, id>> \in Held'
  <2>1. Held' = Held \cup {<<s, id>>}
    BY <1>2, <1>3, <1>5
  <2>2. PICK e \in Entries(index'[s].versions) : e.id = id
    BY <1>5, HeldCopy
  <2>3. FileOf(s) \in Files /\ e \in history'[FileOf(s)]
    BY <2>2 DEF ServerInv, ReplicasAgree, Listed, Entries, Shelves, Files, FileOf
  <2>4. id \in [f \in Files |-> Made(f)][CustodySpec!Of(s)]
    BY <2>2, <2>3 DEF Made, CustodySpec!Of, FileOf
  <2>5. CustodySpec!Take(s, id)
    BY <1>1, <2>1, <2>4 DEF CustodySpec!Take
  <2>6. QED
    BY <1>4, <2>5 DEF CustodyStep, CustodySpec!Next
<1>6. CASE <<s, id>> \notin Held' /\ <<s, id>> \notin Held
  <2>1. Held' = Held
    BY <1>2, <1>3, <1>6
  <2>2. QED
    BY <1>1, <2>1 DEF CustodyStep, CustodySpec!vars
<1>7. CASE <<s, id>> \notin Held' /\ <<s, id>> \in Held
  <2>1. Held' = Held \ {<<s, id>>}
    BY <1>2, <1>3, <1>7
  <2>2. {<<s, id>>} \in SUBSET {h \in Held : h[1] = s}
    BY <1>7
  <2>3. CustodySpec!Lose(s)
    BY <1>1, <1>7, <2>1, <2>2 DEF CustodySpec!Lose, CustodySpec!Home, AtHome
  <2>4. QED
    BY <1>4, <2>3 DEF CustodyStep, CustodySpec!Next
<1>8. QED
  BY <1>5, <1>6, <1>7

\* An owner's shelf loses copies.
LEMMA CopiesLost ==
  ASSUME UNCHANGED <<history, confirmed>>, NEW s \in Shelves, AtHome(s),
         \A t \in Shelves : t # s => index'[t] = index[t] /\ blob'[t] = blob[t],
         \A id \in VersionIDs : <<s, id>> \in Held' => <<s, id>> \in Held
  PROVE  CustodyStep
<1>1. /\ [f \in Files |-> Made(f)]' = [f \in Files |-> Made(f)]
      /\ confirmed' = confirmed
  BY DEF Made
<1>2. \A t \in Shelves, i \in VersionIDs : t # s => (<<t, i>> \in Held <=> <<t, i>> \in Held')
  BY ShelfLeft, HeldStays
<1>3. Held \subseteq Shelves \X VersionIDs /\ Held' \subseteq Shelves \X VersionIDs
  BY DEF Held
<1>4. s \in CustodySpec!Places
  BY DEF Shelves, CustodySpec!Places
<1> DEFINE lost == {h \in Held : h[1] = s /\ h \notin Held'}
<1>5. \A h \in Shelves \X VersionIDs : h \in Held' <=> h \in Held \ lost
  <2> SUFFICES ASSUME NEW t \in Shelves, NEW i \in VersionIDs
               PROVE  <<t, i>> \in Held' <=> <<t, i>> \in Held \ lost
    OBVIOUS
  <2>1. QED
    BY <1>2
<1>6. Held' = Held \ lost /\ lost \in SUBSET {h \in Held : h[1] = s}
  BY <1>3, <1>5
<1>7. CustodySpec!Lose(s)
  BY <1>1, <1>6 DEF CustodySpec!Lose, CustodySpec!Home, AtHome
<1>8. QED
  BY <1>4, <1>7 DEF CustodyStep, CustodySpec!Next

\* An owner's shelf gets a version nobody had.
LEMMA VersionMade ==
  ASSUME TypeOK, UNCHANGED confirmed, NEW s \in Shelves, AtHome(s), NEW e \in Entry,
         history' = [history EXCEPT ![FileOf(s)] = @ \cup {e}],
         \A f \in Files : \A w \in history[f] : w.id # e.id,
         \A t \in Shelves, i \in VersionIDs : <<t, i>> # <<s, e.id>> => Leaves(t, i),
         e \in Entries(index'[s].versions),
         blob'[s][e.id] = Copy(s, e)
  PROVE  CustodyStep
<1>1. e.id \in VersionIDs /\ FileOf(s) \in Files
  BY EntryTypes, IndexTyped
<1>2. \A h \in Shelves \X VersionIDs : h # <<s, e.id>> => (h \in Held <=> h \in Held')
  <2> SUFFICES ASSUME NEW t \in Shelves, NEW i \in VersionIDs, <<t, i>> # <<s, e.id>>
               PROVE  <<t, i>> \in Held <=> <<t, i>> \in Held'
    OBVIOUS
  <2>1. Leaves(t, i)
    OBVIOUS
  <2>2. QED
    BY <2>1, HeldStays
<1>3. Held \subseteq Shelves \X VersionIDs /\ Held' \subseteq Shelves \X VersionIDs
  BY DEF Held
<1>4. <<s, e.id>> \in Held'
  BY <1>1, HeldCopy
<1>5. Held' = Held \cup {<<s, e.id>>}
  BY <1>2, <1>3, <1>4
<1> DEFINE made == [f \in Files |-> Made(f)]
<1>6. \A f \in Files : e.id \notin made[f]
  BY DEF Made
<1>7. made' = [made EXCEPT ![FileOf(s)] = @ \cup {e.id}]
  <2>1. \A f \in Files : history'[f] = IF f = FileOf(s) THEN history[f] \cup {e} ELSE history[f]
    BY DEF TypeOK
  <2>2. \A f \in Files : Made(f)' = IF f = FileOf(s) THEN Made(f) \cup {e.id} ELSE Made(f)
    BY <2>1 DEF Made
  <2>3. QED
    BY <2>2
<1>8. s \in CustodySpec!Places /\ CustodySpec!Of(s) = FileOf(s) /\ CustodySpec!Files = Files
  BY DEF Shelves, CustodySpec!Places, CustodySpec!Of, FileOf, CustodySpec!Files, Files
<1> HIDE DEF made
<1>9. CustodySpec!Make(s, e.id)
  BY <1>5, <1>6, <1>7, <1>8 DEF CustodySpec!Make, CustodySpec!Home, AtHome, made
<1>10. QED
  BY <1>1, <1>8, <1>9 DEF CustodyStep, CustodySpec!Next

\* A caller is told of a copy that is there.
LEMMA CopyTold ==
  ASSUME UNCHANGED <<index, blob, history>>,
         NEW s \in Shelves, ~AtHome(s), NEW id \in VersionIDs, <<s, id>> \in Held,
         confirmed' = confirmed \cup {<<s, id>>}
  PROVE  CustodyStep
<1>1. Held' = Held /\ [f \in Files |-> Made(f)]' = [f \in Files |-> Made(f)]
  BY DEF Held, Listed, Made
<1>2. s \in CustodySpec!Places
  BY DEF Shelves, CustodySpec!Places
<1>3. CustodySpec!Tell(s, id)
  BY <1>1 DEF CustodySpec!Tell, CustodySpec!Home, AtHome
<1>4. QED
  BY <1>2, <1>3 DEF CustodyStep, CustodySpec!Next

-----------------------------------------------------------------------------
(* What a step leaves of the puts it is not about.                         *)
(***************************************************************************)
CallKept(c) == SameCall(c) /\ call'[c].entry = call[c].entry
StreamKept(c, p) ==
    LET x == xfer[c][p]
        y == xfer'[c][p]
    IN  /\ y.pc \in {x.pc, "bad", "end"}
        /\ y.entry = x.entry /\ y.n = x.n /\ y.want = x.want

LEMMA PutKeptStays ==
  ASSUME NEW c \in Clients, NEW p \in Nodes, PutKept(c, p), CallKept(c), StreamKept(c, p),
         call[c].op = "put" /\ xfer[c][p].pc \in {"open"} \cup Live =>
           Leaves(Into(c, p), call[c].entry.id)
  PROVE  PutKept(c, p)'
<1> DEFINE e == call[c].entry
           s == Into(c, p)
           x == xfer[c][p]
           y == xfer'[c][p]
<1>1. s' = s /\ call'[c].op = call[c].op /\ call'[c].entry = e
  BY SameInto DEF CallKept, SameCall
<1>2. CASE call[c].op # "put"
  BY <1>1, <1>2 DEF PutKept
<1>3. CASE call[c].op = "put" /\ y.pc \notin {"open"} \cup Live
  BY <1>3 DEF PutKept, Live
<1>4. CASE call[c].op = "put" /\ y.pc \in {"open"} \cup Live
  <2>1. y.pc = x.pc /\ y.entry = x.entry /\ y.n = x.n /\ y.want = x.want
    BY <1>4 DEF StreamKept, Live
  <2>2. /\ blob'[s][e.id] = blob[s][e.id]
        /\ \A f : f.id = e.id => (f \in Entries(index[s].versions)
                                   <=> f \in Entries(index'[s].versions))
    BY <1>4, <2>1 DEF Leaves
  <2> HIDE DEF s
  <2>3. /\ x.pc \in Live => x.want = Blocks /\ x.entry = e
        /\ x.pc \in {"open", "ready", "recv"} => \A f \in Entries(index[s].versions) : f.id # e.id
        /\ x.pc \in {"check", "good"} => e \in Entries(index[s].versions) /\ blob[s][e.id].n = x.n
    BY <1>4 DEF PutKept, s
  <2>4. y.pc \in {"open", "ready", "recv"} => \A f \in Entries(index'[s].versions) : f.id # e.id
    BY <2>1, <2>2, <2>3
  <2>5. y.pc \in {"check", "good"} => e \in Entries(index'[s].versions) /\ blob'[s][e.id].n = y.n
    BY <2>1, <2>2, <2>3
  <2>6. QED
    BY <1>1, <2>1, <2>3, <2>4, <2>5 DEF PutKept, s
<1>5. QED
  BY <1>2, <1>3, <1>4

LEMMA ConfirmedHeld ==
  ASSUME ServerInv, ContentInv, ConfirmedKept, NEW r \in confirmed
  PROVE  /\ r[1] \in Shelves /\ r[2] \in VersionIDs /\ r = <<r[1], r[2]>>
         /\ ~AtHome(r[1]) /\ r \in Held
<1>1. r[1] \in Shelves /\ r[2] \in VersionIDs /\ r = <<r[1], r[2]>>
  BY DEF ServerInv, TypeOK
<1>2. PICK e \in Entries(index[r[1]].versions) :
        e.id = r[2] /\ e.data = [of |-> r[2], n |-> Blocks] /\ blob[r[1]][r[2]].n = Blocks
  BY DEF ConfirmedKept
<1>3. <<r[1], e.id>> \in Held
  BY <1>1, <1>2, HeldEntry
<1>4. QED
  BY <1>1, <1>2, <1>3 DEF ConfirmedKept

LEMMA KeepStep ==
  ASSUME ServerInv, ContentInv, KeepInv, UNCHANGED confirmed,
         \A t \in Shelves, i \in VersionIDs : Leaves(t, i) \/ AtHome(t) \/ <<t, i>> \notin Held,
         PutsDiffer', \A d \in Clients : PutWhole(d)',
         \A d \in Clients, q \in Nodes : PutKept(d, q)'
  PROVE  KeepInv'
<1>1. ASSUME NEW r \in confirmed
      PROVE  /\ ~AtHome(r[1])
             /\ \E e \in Entries(index'[r[1]].versions) :
                  e.id = r[2] /\ e.data = [of |-> r[2], n |-> Blocks] /\ blob'[r[1]][r[2]].n = Blocks
  <2>1. /\ r[1] \in Shelves /\ r[2] \in VersionIDs /\ r = <<r[1], r[2]>>
        /\ ~AtHome(r[1]) /\ r \in Held
    BY ConfirmedHeld DEF KeepInv
  <2>2. Leaves(r[1], r[2])
    BY <2>1
  <2>3. PICK e \in Entries(index[r[1]].versions) :
          e.id = r[2] /\ e.data = [of |-> r[2], n |-> Blocks] /\ blob[r[1]][r[2]].n = Blocks
    BY DEF KeepInv, ConfirmedKept
  <2>4. e \in Entries(index'[r[1]].versions) /\ blob'[r[1]][r[2]].n = Blocks
    BY <2>2, <2>3 DEF Leaves
  <2>5. QED
    BY <2>1, <2>3, <2>4
<1>2. ConfirmedKept'
  BY <1>1 DEF ConfirmedKept, AtHome
<1>3. QED
  BY <1>2 DEF KeepInv

\* Calls go on; some versions change that are at home or no copies.
LEMMA CallsKept ==
  ASSUME ServerInv, ContentInv, KeepInv, UNCHANGED confirmed,
         \A t \in Shelves, i \in VersionIDs : Leaves(t, i) \/ AtHome(t) \/ <<t, i>> \notin Held,
         \A d \in Clients :
           \/ call'[d].op # "put"
           \/ /\ CallKept(d)
              /\ blob'[Own(d, call[d].key)][call[d].entry.id].n
                   \in {NoBlob.n, blob[Own(d, call[d].key)][call[d].entry.id].n},
         \A d \in Clients, q \in Nodes :
           \/ call'[d].op # "put"
           \/ PutKept(d, q)'
           \/ /\ StreamKept(d, q)
              /\ call[d].op = "put" /\ xfer[d][q].pc \in {"open"} \cup Live =>
                   Leaves(Into(d, q), call[d].entry.id)
  PROVE  KeepInv'
<1>1. PutsDiffer'
  BY SMTT(20), ZenonT(60) DEF KeepInv, PutsDiffer, CallKept, SameCall
<1>2. ASSUME NEW d \in Clients PROVE PutWhole(d)'
  <2>1. CASE call'[d].op # "put"
    BY <2>1 DEF PutWhole
  <2>2. CASE call'[d].op = "put"
    <3>1. /\ call[d].op = "put" /\ call'[d].entry = call[d].entry
          /\ Own(d, call'[d].key) = Own(d, call[d].key)
          /\ blob'[Own(d, call[d].key)][call[d].entry.id].n
               \in {NoBlob.n, blob[Own(d, call[d].key)][call[d].entry.id].n}
      BY <2>2 DEF CallKept, SameCall
    <3>2. PutWhole(d)
      BY DEF KeepInv
    <3>3. QED
      BY <3>1, <3>2 DEF PutWhole
  <2>3. QED
    BY <2>1, <2>2
<1>3. ASSUME NEW d \in Clients, NEW q \in Nodes PROVE PutKept(d, q)'
  <2>1. CASE call'[d].op # "put"
    BY <2>1 DEF PutKept
  <2>2. CASE call'[d].op = "put" /\ ~PutKept(d, q)'
    <3>1. PutKept(d, q) /\ CallKept(d)
      BY <2>2 DEF KeepInv
    <3>2. QED
      BY <2>2, <3>1, PutKeptStays
  <2>3. QED
    BY <2>1, <2>2
<1>4. QED
  BY <1>1, <1>2, <1>3, KeepStep

\* Steps that leave the disks alone.
LEMMA QuietKeeps ==
  ASSUME ServerInv, ContentInv, KeepInv, UNCHANGED <<index, blob, history, confirmed>>,
         \A d \in Clients : call'[d].op # "put" \/ CallKept(d),
         \A d \in Clients, q \in Nodes :
           call'[d].op # "put" \/ PutKept(d, q)' \/ StreamKept(d, q)
  PROVE  KeepInv' /\ CustodyStep
<1>1. \A t, i : Leaves(t, i)
  BY DEF Leaves
<1>2. KeepInv'
  BY <1>1, CallsKept
<1>3. QED
  BY <1>2, NoCustody

LEMMA CallKeeps ==
  ASSUME ServerInv, ContentInv, KeepInv, NEW c \in Clients,
         UNCHANGED <<index, blob, history, confirmed>>,
         \A d \in Clients : d # c => call'[d] = call[d] /\ xfer'[d] = xfer[d],
         call'[c].op # "put" \/ (CallKept(c) /\ xfer' = xfer)
  PROVE  KeepInv' /\ CustodyStep
<1>1. ASSUME NEW d \in Clients, call'[d] = call[d] PROVE CallKept(d)
  BY <1>1 DEF CallKept, SameCall
<1>2. ASSUME NEW d \in Clients, NEW q \in Nodes, xfer'[d] = xfer[d] PROVE StreamKept(d, q)
  BY <1>2 DEF StreamKept
<1>3. \A d \in Clients : call'[d].op # "put" \/ CallKept(d)
  BY <1>1
<1>4. \A d \in Clients, q \in Nodes : call'[d].op # "put" \/ StreamKept(d, q)
  BY <1>2
<1>5. QED
  BY <1>3, <1>4, QuietKeeps

LEMMA StreamKeeps ==
  ASSUME ServerInv, ContentInv, KeepInv, NEW c \in Clients, NEW p \in Nodes,
         UNCHANGED <<index, blob, call, history, confirmed>>, OthersSame(c, p),
         call[c].op # "put" \/ StreamKept(c, p) \/ PutKept(c, p)'
  PROVE  KeepInv' /\ CustodyStep
<1>1. \A d \in Clients : CallKept(d)
  BY DEF CallKept, SameCall
<1>2. ASSUME NEW d \in Clients, NEW q \in Nodes
      PROVE  call'[d].op # "put" \/ PutKept(d, q)' \/ StreamKept(d, q)
  <2>1. CASE d = c /\ q = p
    BY <2>1
  <2>2. CASE ~(d = c /\ q = p)
    <3>1. xfer'[d][q] = xfer[d][q]
      BY <2>2 DEF OthersSame
    <3>2. QED
      BY <3>1 DEF StreamKept
  <2>3. QED
    BY <2>1, <2>2
<1>3. QED
  BY <1>1, <1>2, QuietKeeps

-----------------------------------------------------------------------------
(* The steps that leave the disks alone.                                   *)
(***************************************************************************)
LEMMA ShareKeeps ==
  ASSUME ServerInv, ContentInv, KeepInv, NEW c \in Clients, Share(c) \/ ShareStored(c)
  PROVE  KeepInv' /\ CustodyStep
<1>1. TypeOK /\ call[c].op = "none"
  BY DEF ServerInv, ContentInv, CallTurns, Share, ShareStored, Idle
<1>2. PICK k, dest, id, targets : ShareTo(c, k, dest, id, targets)
  BY DEF Share, ShareStored
<1>3. CASE /\ xfer' = Fan(c, targets)
           /\ call' = [call EXCEPT ![c].pc = "fan", ![c].op = "share", ![c].key = k,
                                   ![c].dest = dest, ![c].id = id, ![c].left = {}]
  <2>1. /\ call'[c].op = "share" /\ \A d \in Clients : d # c => call'[d] = call[d]
        /\ \A d \in Clients : d # c => xfer'[d] = xfer[d]
    BY <1>1, <1>3 DEF TypeOK, CallRecord, Fan
  <2>2. QED
    BY <1>2, <2>1, CallKeeps DEF ShareTo
<1>4. CASE call' = [call EXCEPT ![c].pc = "returned"] /\ UNCHANGED xfer
  <2>1. call'[c].op = "none" /\ \A d \in Clients : d # c => call'[d] = call[d]
    BY <1>1, <1>4 DEF TypeOK, CallRecord
  <2>2. QED
    BY <1>2, <1>4, <2>1, CallKeeps DEF ShareTo
<1>5. QED
  BY <1>2, <1>3, <1>4 DEF ShareTo

LEMMA GetVersionKeeps ==
  ASSUME ServerInv, ContentInv, KeepInv, NEW c \in Clients, GetVersion(c)
  PROVE  KeepInv' /\ CustodyStep
<1>1. PICK k \in Keys, id \in IdOrNone, connected \in Peers(At[c]) :
        LET has == index[Own(c, k)].latest # NoVersion
        IN  /\ call' = [call EXCEPT ![c] =
                 [NoCall EXCEPT !.pc = IF has THEN "here" ELSE "try", !.op = "get",
                                !.key = k, !.id = id, !.left = IF has THEN @ ELSE connected,
                                !.held = Confirmed(<<At[c], k>>, id)]]
            /\ UNCHANGED <<index, blob, xfer, history, confirmed>>
  BY DEF GetVersion
<1>2. call'[c].op = "get" /\ \A d \in Clients : d # c => call'[d] = call[d]
  BY <1>1, NoCallType DEF ServerInv, TypeOK, CallRecord
<1>3. QED
  BY <1>1, <1>2, CallKeeps

LEMMA ReadHereKeeps ==
  ASSUME ServerInv, ContentInv, KeepInv, NEW c \in Clients, ReadHere(c)
  PROVE  KeepInv' /\ CustodyStep
<1>1. TypeOK /\ call[c].pc = "here" /\ call[c].op = "get"
  BY DEF ServerInv, ContentInv, CallTurns, ReadHere
<1>2. /\ call'[c].op = "get" /\ \A d \in Clients : d # c => call'[d] = call[d]
      /\ UNCHANGED <<index, blob, xfer, history, confirmed>>
  BY <1>1, ReadHereCall DEF SameCall
<1>3. QED
  BY <1>2, CallKeeps

LEMMA TryKeeps ==
  ASSUME ServerInv, ContentInv, KeepInv, NEW c \in Clients, Try(c)
  PROVE  KeepInv' /\ CustodyStep
<1>1. TypeOK /\ call[c] \in CallRecord /\ call[c].op = "get"
  BY DEF ServerInv, TypeOK, ContentInv, CallTurns, Try
<1>2. UNCHANGED <<index, blob, history, confirmed>>
  BY DEF Try
<1>3. /\ call'[c].op = "get"
      /\ \A d \in Clients : d # c => call'[d] = call[d] /\ xfer'[d] = xfer[d]
  <2>1. CASE \E p \in call[c].left : /\ xfer' = [xfer EXCEPT ![c][p] = Opening]
                                     /\ call' = [call EXCEPT ![c].pc = "fetch", ![c].left = @ \ {p}]
    BY <1>1, <2>1 DEF TypeOK, CallRecord
  <2>2. CASE call' = [call EXCEPT ![c].pc = "returned"] /\ UNCHANGED xfer
    BY <1>1, <2>2 DEF TypeOK, CallRecord
  <2>3. QED
    BY <2>1, <2>2 DEF Try
<1>4. QED
  BY <1>2, <1>3, CallKeeps

LEMMA FetchedKeeps ==
  ASSUME ServerInv, ContentInv, KeepInv, NEW c \in Clients, Fetched(c)
  PROVE  KeepInv' /\ CustodyStep
<1> DEFINE ok == \E p \in Nodes : xfer[c][p].res = "ok"
           pc == IF ok THEN "returned" ELSE "try"
           got == IF ok /\ Readable(Own(c, call[c].key), call[c].id)
                    THEN ReadLocal(c, call[c].key, call[c].id) ELSE call[c].got
<1>1. TypeOK /\ call[c] \in CallRecord /\ call[c].op = "get"
  BY DEF ServerInv, TypeOK, ContentInv, CallTurns, Fetched
<1>2. call' = [call EXCEPT ![c].pc = pc, ![c].got = got]
  BY <1>1 DEF Fetched, CallRecord, TypeOK
<1>3. UNCHANGED <<index, blob, xfer, history, confirmed>>
  BY DEF Fetched
<1> HIDE DEF pc, got
<1>4. call'[c].op = "get" /\ \A d \in Clients : d # c => call'[d] = call[d]
  BY <1>1, <1>2 DEF TypeOK, CallRecord
<1>5. QED
  BY <1>3, <1>4, CallKeeps

LEMMA FanDoneKeeps ==
  ASSUME ServerInv, ContentInv, KeepInv, NEW c \in Clients, FanDone(c)
  PROVE  KeepInv' /\ CustodyStep
<1>1. TypeOK /\ call[c] \in CallRecord
  BY DEF ServerInv, TypeOK
<1>2. /\ call' = [call EXCEPT ![c].pc = "returned"]
      /\ UNCHANGED <<index, blob, xfer, history, confirmed>>
  BY DEF FanDone
<1>3. CallKept(c) /\ \A d \in Clients : d # c => call'[d] = call[d]
  BY <1>1, <1>2 DEF TypeOK, CallRecord, CallKept, SameCall
<1>4. QED
  BY <1>2, <1>3, CallKeeps

LEMMA ForgetKeeps ==
  ASSUME ServerInv, ContentInv, KeepInv, NEW c \in Clients, Forget(c)
  PROVE  KeepInv' /\ CustodyStep
<1>1. TypeOK
  BY DEF ServerInv
<1>2. /\ call' = [call EXCEPT ![c] = NoCall]
      /\ xfer' = [xfer EXCEPT ![c] = [p \in Nodes |-> NoTransfer]]
      /\ UNCHANGED <<index, blob, history, confirmed>>
  BY DEF Forget
<1>3. /\ call'[c].op = "none"
      /\ \A d \in Clients : d # c => call'[d] = call[d] /\ xfer'[d] = xfer[d]
  BY <1>1, <1>2, NoCallType DEF TypeOK
<1>4. QED
  BY <1>2, <1>3, CallKeeps

\* A put opens its file: it is whole.
LEMMA OpenLocalKeeps ==
  ASSUME ServerInv, ContentInv, KeepInv, NEW c \in Clients, NEW p \in Nodes, OpenLocal(c, p)
  PROVE  KeepInv' /\ CustodyStep
<1> DEFINE x == xfer[c][p]
           s == Own(c, call[c].key)
           id == IF call[c].op = "put" THEN call[c].entry.id ELSE call[c].id
           e == resolveVersion(index[s], id)
           want == IF call[c].op = "put" THEN blob[s][e.id].n ELSE e.data.n
           y == IF Readable(s, id)
                  THEN [x EXCEPT !.pc = "ready", !.src = Opened(s, e.id),
                                 !.entry = call[c].entry, !.want = want]
                  ELSE [x EXCEPT !.pc = "end", !.res = "failed"]
<1>1. /\ TypeOK /\ CallOK(c) /\ call[c] \in CallRecord /\ x \in TransferRecord
      /\ PutWhole(c) /\ PutKept(c, p)
  BY DEF ServerInv, KeepInv, TypeOK
<1>2. /\ x.pc = "open"
      /\ xfer' = [xfer EXCEPT ![c] = [xfer[c] EXCEPT ![p] = y]]
      /\ UNCHANGED <<index, blob, call, history, confirmed>>
  BY <1>1 DEF OpenLocal, TypeOK
<1>3. s \in Shelves
  BY <1>1, OwnShelf DEF CallRecord
<1>4. call[c].op = "put" => id = call[c].entry.id /\ id \in VersionIDs /\ id # NoVersion
  <2>1. OfFile(c) \subseteq Entry
    BY <1>1, FileOfCall DEF TypeOK, OfFile
  <2>2. QED
    BY <1>1, <2>1, EntryTypes DEF CallOK
<1>5. call[c].op = "put" /\ Readable(s, id) => e.id = id /\ blob[s][id] # NoBlob
  BY <1>4, ResolvedListed DEF Readable, ResolvedId
<1>6. call[c].op = "put" /\ Readable(s, id) => want = Blocks
  <2> HAVE call[c].op = "put" /\ Readable(s, id)
  <2>1. blob[s][id] \in Blob
    BY <1>1, <1>3, <1>4, <1>5 DEF TypeOK
  <2>2. blob[s][id].n \in {NoBlob.n, Blocks} /\ NoBlob.n = -1
    BY <1>1, <1>4 DEF PutWhole, NoBlob
  <2>3. blob[s][id].n \in 0 .. Blocks
    BY <2>1 DEF Blob
  <2>4. blob[s][id].n = Blocks
    BY <2>2, <2>3
  <2>5. QED
    BY <1>5, <2>4
<1> HIDE DEF s, id, e, want
<1>7. \/ y.pc = "end"
      \/ y.pc = "ready" /\ Readable(s, id) /\ y.entry = call[c].entry /\ y.want = want
  BY <1>1 DEF TransferRecord
<1> HIDE DEF y
<1>8. xfer'[c][p] = y /\ OthersSame(c, p)
  BY <1>1, <1>2 DEF TypeOK, OthersSame
<1>9. Into(c, p)' = Into(c, p) /\ call' = call /\ index' = index
  BY <1>2, SameInto DEF SameCall
<1>10. PutKept(c, p)'
  <2>1. CASE y.pc = "end"
    BY <1>8, <2>1 DEF PutKept, Live
  <2>2. CASE y.pc = "ready" /\ Readable(s, id) /\ y.entry = call[c].entry /\ y.want = want
    <3>1. call[c].op = "put" =>
            \A f \in Entries(index[Into(c, p)].versions) : f.id # call[c].entry.id
      BY <1>1, <1>2 DEF PutKept
    <3>2. call[c].op = "put" => y.want = Blocks /\ y.entry = call[c].entry
      BY <1>6, <2>2
    <3>3. QED
      BY <1>8, <1>9, <2>2, <3>1, <3>2 DEF PutKept
  <2>3. QED
    BY <1>7, <2>1, <2>2
<1>11. QED
  BY <1>2, <1>8, <1>10, StreamKeeps

\* A get looks for its version.
LEMMA AnswerKeeps ==
  ASSUME ServerInv, ContentInv, KeepInv, NEW c \in Clients, NEW p \in Nodes,
         VersionInfo(c, p) \/ ReadVersionRaw(c, p)
  PROVE  KeepInv' /\ CustodyStep
<1>1. xfer \in [Clients -> [Nodes -> TransferRecord]] /\ TransferOK(c, p)
  BY DEF ServerInv, TypeOK
<1>2. call[c].op # "put"
  BY <1>1 DEF VersionInfo, ReadVersionRaw, Pushing, Pushes, TransferOK
<1>3. UNCHANGED <<index, blob, call, history, confirmed>>
  BY DEF VersionInfo, ReadVersionRaw
<1>4. OthersSame(c, p)
  BY <1>1 DEF OthersSame, VersionInfo, ReadVersionRaw
<1>5. QED
  BY <1>2, <1>3, <1>4, StreamKeeps

LEMMA GiveUpKeeps ==
  ASSUME ServerInv, ContentInv, KeepInv, NEW c \in Clients, NEW p \in Nodes, GiveUp(c, p)
  PROVE  KeepInv' /\ CustodyStep
<1>1. xfer \in [Clients -> [Nodes -> TransferRecord]]
  BY DEF ServerInv, TypeOK
<1>2. /\ xfer' = [xfer EXCEPT ![c][p].res = "failed"]
      /\ UNCHANGED <<index, blob, call, history, confirmed>>
  BY DEF GiveUp
<1>3. StreamKept(c, p) /\ OthersSame(c, p)
  BY <1>1, <1>2 DEF StreamKept, OthersSame, TransferRecord
<1>4. QED
  BY <1>2, <1>3, StreamKeeps

LEMMA BreakKeeps ==
  ASSUME ServerInv, ContentInv, KeepInv, NEW c \in Clients, NEW p \in Nodes, Break(c, p)
  PROVE  KeepInv' /\ CustodyStep
<1>1. xfer \in [Clients -> [Nodes -> TransferRecord]]
  BY DEF ServerInv, TypeOK
<1>2. /\ xfer' = [xfer EXCEPT ![c][p].pc = "bad"]
      /\ UNCHANGED <<index, blob, call, history, confirmed>>
  BY DEF Break, Become
<1>3. StreamKept(c, p) /\ OthersSame(c, p)
  BY <1>1, <1>2 DEF StreamKept, OthersSame, TransferRecord
<1>4. QED
  BY <1>2, <1>3, StreamKeeps

LEMMA DisconnectKeeps ==
  ASSUME ServerInv, ContentInv, KeepInv, NEW d \in Clients, Disconnect(d)
  PROVE  KeepInv' /\ CustodyStep
<1>1. PICK q \in Nodes, cut \in BOOLEAN :
        /\ xfer' = [c \in Clients |-> [p \in Nodes |->
             IF Between(c, p, {At[d], q}) THEN Disconnected(c, p, cut) ELSE xfer[c][p]]]
        /\ UNCHANGED <<index, blob, call, history, confirmed>>
  BY DEF Disconnect
<1>2. ASSUME NEW c \in Clients, NEW p \in Nodes PROVE StreamKept(c, p)
  <2>1. xfer'[c][p] \in {xfer[c][p], Disconnected(c, p, cut)}
    BY <1>1
  <2>2. QED
    BY <2>1, DisconnectedStream DEF StreamKept, ServerInv
<1>3. \A c \in Clients : CallKept(c)
  BY <1>1 DEF CallKept, SameCall
<1>4. QED
  BY <1>1, <1>2, <1>3, QuietKeeps

LEMMA CrashKeeps ==
  ASSUME ServerInv, ContentInv, KeepInv, NEW n \in Nodes, Crash(n)
  PROVE  KeepInv' /\ CustodyStep
<1>1. /\ call' = [c \in Clients |->
           IF At[c] = n /\ call[c].pc # "idle" THEN [call[c] EXCEPT !.pc = "gone"] ELSE call[c]]
      /\ xfer' = [c \in Clients |-> [p \in Nodes |-> AfterCrash(c, p, n)]]
      /\ UNCHANGED <<index, blob, history, confirmed>>
  BY DEF Crash
<1>2. TypeOK
  BY DEF ServerInv
<1>3. ASSUME NEW c \in Clients PROVE CallKept(c)
  <2>1. call[c] \in CallRecord
    BY <1>2 DEF TypeOK
  <2>2. call'[c] \in {call[c], [call[c] EXCEPT !.pc = "gone"]}
    BY <1>1
  <2>3. QED
    BY <2>1, <2>2 DEF CallRecord, CallKept, SameCall
<1>4. ASSUME NEW c \in Clients, NEW p \in Nodes PROVE StreamKept(c, p)
  <2>1. xfer'[c][p] = AfterCrash(c, p, n)
    BY <1>1
  <2>2. QED
    BY <1>2, <2>1, CrashedStream DEF StreamKept
<1>5. QED
  BY <1>1, <1>3, <1>4, QuietKeeps

\* The answer to a put: what is counted is there.
LEMMA ReplyKeeps ==
  ASSUME ServerInv, ContentInv, KeepInv, NEW c \in Clients, NEW p \in Nodes, Reply(c, p)
  PROVE  KeepInv' /\ CustodyStep
<1> DEFINE x == xfer[c][p]
           s == Into(c, p)
           e == call[c].entry
           told == x.pc = "good" /\ x.res = "none" /\ call[c].op = "put"
           res == IF x.res # "none" THEN x.res ELSE IF x.pc = "good" THEN "ok" ELSE "failed"
<1>1. /\ TypeOK /\ TransferTurns(c, p) /\ PutKept(c, p) /\ PutWhole(c)
      /\ x \in TransferRecord /\ x.pc \in {"good", "bad"}
      /\ UNCHANGED <<index, blob, call, history>>
      /\ confirmed' = IF told THEN confirmed \cup {<<s, x.entry.id>>} ELSE confirmed
  BY DEF ServerInv, ContentInv, KeepInv, TypeOK, Reply
<1>2. OthersSame(c, p) /\ xfer'[c][p].pc = "end"
  <2>1. xfer' = [xfer EXCEPT ![c][p].pc = "end", ![c][p].src = NoFile, ![c][p].res = res]
    BY <1>1 DEF Reply, TypeOK, TransferRecord
  <2> HIDE DEF res
  <2>2. QED
    BY <1>1, <2>1 DEF TypeOK, TransferRecord, OthersSame
<1>3. PutKept(c, p)'
  BY <1>2 DEF PutKept, Live
<1>4. CASE ~told
  BY <1>1, <1>2, <1>3, <1>4, StreamKeeps
<1>5. CASE told
  <2>1. s \in Shelves /\ s = <<p, At[c], call[c].key>> /\ p # At[c]
    BY <1>1, <1>5, IntoShelf DEF TransferTurns
  <2>2. ~AtHome(s)
    BY <2>1 DEF AtHome
  <2>3. /\ x.entry = e /\ x.want = Blocks /\ x.n = Blocks
        /\ e \in Entries(index[s].versions) /\ blob[s][e.id].n = Blocks
        /\ e.data = [of |-> e.id, n |-> Blocks]
    BY <1>1, <1>5 DEF PutKept, PutWhole, TransferTurns, Live
  <2>4. <<s, e.id>> \in Held /\ e.id \in VersionIDs
    <3> HIDE DEF s, e
    <3>1. e \in Entry /\ (<<s, e.id>> \in Held <=> blob[s][e.id].n = e.data.n)
      BY <2>1, <2>3, HeldEntry
    <3>2. e.data.n = Blocks
      BY <2>3
    <3>3. QED
      BY <2>3, <3>1, <3>2, EntryTypes
  <2>5. confirmed' = confirmed \cup {<<s, e.id>>}
    BY <1>1, <1>5, <2>3
  <2>6. CustodyStep
    BY <1>1, <2>1, <2>2, <2>4, <2>5, CopyTold
  <2> HIDE DEF s, e
  <2>7. ASSUME NEW r \in confirmed'
        PROVE  /\ ~AtHome(r[1])
               /\ \E f \in Entries(index'[r[1]].versions) :
                    f.id = r[2] /\ f.data = [of |-> r[2], n |-> Blocks] /\ blob'[r[1]][r[2]].n = Blocks
    <3>1. CASE r \in confirmed
      BY <1>1, <3>1 DEF KeepInv, ConfirmedKept
    <3>2. CASE r = <<s, e.id>>
      BY <1>1, <2>2, <2>3, <3>2
    <3>3. QED
      BY <2>5, <3>1, <3>2
  <2>8. ConfirmedKept'
    BY <2>7 DEF ConfirmedKept, AtHome
  <2>9. PutsDiffer' /\ \A d \in Clients : PutWhole(d)'
    BY <1>1 DEF KeepInv, PutsDiffer, PutWhole
  <2>10. ASSUME NEW d \in Clients, NEW q \in Nodes PROVE PutKept(d, q)'
    <3>1. CASE d = c /\ q = p
      BY <1>3, <3>1
    <3>2. CASE ~(d = c /\ q = p)
      <4>1. xfer'[d][q] = xfer[d][q]
        BY <1>2, <3>2 DEF OthersSame
      <4>2. PutKept(d, q) /\ CallKept(d) /\ StreamKept(d, q)
        BY <1>1, <4>1 DEF KeepInv, CallKept, SameCall, StreamKept
      <4>3. Leaves(Into(d, q), call[d].entry.id)
        BY <1>1 DEF Leaves
      <4>4. QED
        BY <4>2, <4>3, PutKeptStays
    <3>3. QED
      BY <3>1, <3>2
  <2>11. QED
    BY <2>6, <2>8, <2>9, <2>10 DEF KeepInv
<1>6. QED
  BY <1>4, <1>5

-----------------------------------------------------------------------------
(* A transfer changes one version of the shelf it fills.                   *)
(***************************************************************************)
LEMMA PutFacts ==
  ASSUME ServerInv, NEW c \in Clients, call[c].op = "put"
  PROVE  /\ call[c].entry \in OfFile(c) /\ call[c].entry \in Entry
         /\ call[c].entry.id \in VersionIDs /\ call[c].key \in Keys
         /\ Own(c, call[c].key) \in Shelves /\ AtHome(Own(c, call[c].key))
         /\ \A p \in Nodes : /\ Into(c, p) \in Shelves
                             /\ Into(c, p) = <<p, At[c], call[c].key>>
                             /\ p # At[c] => ~AtHome(Into(c, p))
<1>1. TypeOK /\ CallOK(c) /\ call[c] \in CallRecord
  BY DEF ServerInv, TypeOK
<1>2. call[c].entry \in OfFile(c) /\ call[c].entry \in Entry
  BY <1>1, FileOfCall DEF CallOK, TypeOK, OfFile
<1>3. call[c].entry.id \in VersionIDs /\ call[c].key \in Keys
  BY <1>1, <1>2, EntryTypes DEF CallRecord
<1>4. Own(c, call[c].key) \in Shelves /\ AtHome(Own(c, call[c].key))
  BY <1>3, OwnShelf DEF Own, AtHome
<1>5. ASSUME NEW p \in Nodes
      PROVE  /\ Into(c, p) \in Shelves
             /\ Into(c, p) = <<p, At[c], call[c].key>>
             /\ p # At[c] => ~AtHome(Into(c, p))
  BY <1>1, IntoShelf DEF AtHome
<1>6. QED
  BY <1>2, <1>3, <1>4, <1>5

LEMMA IntoHome ==
  ASSUME TypeOK, NEW c \in Clients, NEW p \in Nodes, call[c].op # "put"
  PROVE  AtHome(Into(c, p))
BY DEF Into, Own, AtHome

\* Not what a put has written at home.
LEMMA PutElsewhere ==
  ASSUME TakesTurns, ServerInv, ContentInv, NEW c \in Clients, NEW p \in Nodes,
         xfer[c][p].pc \in Live, NEW d \in Clients, call[d].op = "put", NEW j,
         call[c].op = "share" => j # call[d].entry.id
  PROVE  <<Into(c, p), j>> # <<Own(d, call[d].key), call[d].entry.id>>
<1>1. TransferTurns(c, p) /\ CallTurns(c) /\ CallTurns(d) /\ TypeOK
  BY DEF ContentInv, ServerInv
<1>2. p # At[c] /\ call[c].op \in {"put", "share", "get"}
  BY <1>1 DEF TransferTurns, Live, TypeOK, CallRecord
<1>3. CASE call[c].op = "put"
  <2>1. ~AtHome(Into(c, p)) /\ AtHome(Own(d, call[d].key))
    BY <1>2, <1>3, PutFacts
  <2>2. QED
    BY <2>1
<1>4. CASE call[c].op = "share"
  BY <1>4
<1>5. CASE call[c].op = "get"
  <2>1. Into(c, p) = Own(c, call[c].key)
    BY <1>5 DEF Into
  <2>2. At[c] # At[d]
    BY <1>1, <1>5 DEF CallTurns, TakesTurns
  <2>3. QED
    BY <2>1, <2>2 DEF Own
<1>6. QED
  BY <1>2, <1>3, <1>4, <1>5

LEMMA VersionChanged ==
  ASSUME ServerInv, ContentInv, KeepInv, UNCHANGED <<call, confirmed>>,
         NEW c \in Clients, NEW p \in Nodes, NEW j \in VersionIDs,
         call[c].op = "put" => j = call[c].entry.id /\ <<Into(c, p), j>> \notin Held,
         \A t \in Shelves, i \in VersionIDs : <<t, i>> # <<Into(c, p), j>> => Leaves(t, i),
         \A d \in Clients, q \in Nodes : <<d, q>> # <<c, p>> => StreamKept(d, q),
         PutKept(c, p)',
         \A d \in Clients : call[d].op = "put" =>
           blob'[Own(d, call[d].key)][call[d].entry.id].n
             \in {NoBlob.n, blob[Own(d, call[d].key)][call[d].entry.id].n}
  PROVE  KeepInv'
<1> DEFINE s == Into(c, p)
<1>1. TypeOK
  BY DEF ServerInv
<1>2. s \in Shelves /\ (call[c].op # "put" => AtHome(s))
  BY <1>1, IntoShelf, IntoHome
<1>3. \A t \in Shelves, i \in VersionIDs : Leaves(t, i) \/ AtHome(t) \/ <<t, i>> \notin Held
  <2> SUFFICES ASSUME NEW t \in Shelves, NEW i \in VersionIDs, ~Leaves(t, i)
               PROVE  AtHome(t) \/ <<t, i>> \notin Held
    OBVIOUS
  <2>1. t = s /\ i = j
    OBVIOUS
  <2>2. QED
    BY <1>2, <2>1
<1>4. \A d \in Clients : CallKept(d)
  BY SMTT(20), ZenonT(60) DEF CallKept, SameCall
<1>5. ASSUME NEW d \in Clients, NEW q \in Nodes, <<d, q>> # <<c, p>>,
             call[d].op = "put", xfer[d][q].pc \in {"open"} \cup Live
      PROVE  Leaves(Into(d, q), call[d].entry.id)
  <2>1. q # At[d]
    BY <1>5 DEF ContentInv, TransferTurns, Live
  <2>2. /\ Into(d, q) \in Shelves /\ ~AtHome(Into(d, q)) /\ call[d].entry.id \in VersionIDs
        /\ Into(d, q) = <<q, At[d], call[d].key>>
    BY <1>5, <2>1, PutFacts
  <2>3. ~(Into(d, q) = s /\ call[d].entry.id = j)
    <3> SUFFICES ASSUME Into(d, q) = s, call[d].entry.id = j PROVE FALSE
      OBVIOUS
    <3>1. call[c].op = "put" /\ call[c].entry.id = call[d].entry.id
      BY <1>2, <2>2
    <3>2. c = d
      BY <1>5, <3>1 DEF KeepInv, PutsDiffer
    <3>3. s = <<p, At[c], call[c].key>>
      BY <3>1, PutFacts
    <3>4. q = p
      <4> HIDE DEF s
      <4>1. <<q, At[d], call[d].key>> = <<p, At[c], call[c].key>>
        BY <2>2, <3>3
      <4>2. QED
        BY <4>1
    <3>5. QED
      BY <1>5, <3>2, <3>4
  <2>4. QED
    BY <2>2, <2>3
<1>6. \A d \in Clients, q \in Nodes :
        \/ PutKept(d, q)'
        \/ /\ StreamKept(d, q)
           /\ call[d].op = "put" /\ xfer[d][q].pc \in {"open"} \cup Live =>
                Leaves(Into(d, q), call[d].entry.id)
  BY <1>5
<1>7. ASSUME NEW d \in Clients
      PROVE  \/ call'[d].op # "put"
             \/ /\ CallKept(d)
                /\ blob'[Own(d, call[d].key)][call[d].entry.id].n
                     \in {NoBlob.n, blob[Own(d, call[d].key)][call[d].entry.id].n}
  BY <1>4
<1>8. QED
  BY <1>3, <1>6, <1>7, CallsKept

LEMMA ReceiveKeeps ==
  ASSUME TakesTurns, ServerInv, ContentInv, KeepInv, NEW c \in Clients, NEW p \in Nodes,
         Receive(c, p)
  PROVE  KeepInv' /\ CustodyStep
<1> DEFINE x == xfer[c][p]
           s == Into(c, p)
           own == call[c].op = "share"
           keyOf == IF own THEN p ELSE Body(x.src).for
           b == [of |-> Body(x.src).of, for |-> keyOf, n |-> 0]
<1>1. PICK id \in IF own THEN Fresh ELSE {x.entry.id} :
        LET e == IF own THEN [id |-> id, seq |-> nextSeq(index[s]), data |-> NoContent]
                 ELSE x.entry
        IN  /\ x.pc = "ready"
            /\ blob' = [blob EXCEPT ![s][id] = b]
            /\ xfer' = [xfer EXCEPT ![c][p].pc = "recv", ![c][p].entry = e]
            /\ UNCHANGED <<index, call, history, confirmed>>
  <2>1. x \in TransferRecord /\ xfer \in [Clients -> [Nodes -> TransferRecord]]
    BY DEF ServerInv, TypeOK
  <2>2. QED
    BY <2>1 DEF Receive, TransferRecord
<1> DEFINE e == IF own THEN [id |-> id, seq |-> nextSeq(index[s]), data |-> NoContent]
                ELSE x.entry
<1>2. /\ TypeOK /\ x.pc \in Live /\ x \in TransferRecord /\ s \in Shelves /\ PutKept(c, p)
      /\ ServerInv'
  <2>1. x.pc \in Live
    BY <1>1 DEF Live
  <2>2. TypeOK /\ x \in TransferRecord /\ PutKept(c, p)
    BY DEF ServerInv, KeepInv, TypeOK
  <2>3. QED
    BY <2>1, <2>2, IntoShelf, ReceiveOK
<1>3. id \in VersionIDs /\ (own => id \in Fresh)
  <2>1. ~own => x.entry \in Entry
    BY <1>2, LiveTransfer
  <2>2. (own => id \in Fresh) /\ (~own => id = x.entry.id)
    OBVIOUS
  <2>3. x.entry \in Entry => x.entry.id \in VersionIDs
    BY EntryTypes
  <2>4. QED
    BY <2>1, <2>2, <2>3 DEF Fresh
<1>4. ~own => e = x.entry
  OBVIOUS
<1>5. call[c].op = "put" =>
        /\ ~own /\ x.entry = call[c].entry /\ x.want = Blocks /\ id = call[c].entry.id
        /\ \A f \in Entries(index[s].versions) : f.id # call[c].entry.id
  BY <1>1, <1>2 DEF PutKept
<1> HIDE DEF s, b, e
<1>6. /\ blob' = [blob EXCEPT ![s][id] = b]
      /\ xfer' = [xfer EXCEPT ![c][p].pc = "recv", ![c][p].entry = e]
      /\ x.pc = "ready"
      /\ UNCHANGED <<index, call, history, confirmed>>
  BY <1>1 DEF e
<1>7. /\ \A t \in Shelves : t # s => blob'[t] = blob[t]
      /\ \A i \in VersionIDs : i # id => blob'[s][i] = blob[s][i]
  BY <1>2, <1>3, <1>6 DEF TypeOK
<1>8. \A t \in Shelves, i \in VersionIDs : <<t, i>> # <<s, id>> => Leaves(t, i)
  <2> SUFFICES ASSUME NEW t \in Shelves, NEW i \in VersionIDs, <<t, i>> # <<s, id>>
               PROVE  Leaves(t, i)
    OBVIOUS
  <2>1. blob'[t][i] = blob[t][i]
    BY <1>7
  <2>2. QED
    BY <1>6, <2>1 DEF Leaves
<1>9. /\ OthersSame(c, p)
      /\ xfer'[c][p].pc = "recv" /\ xfer'[c][p].entry = e /\ xfer'[c][p].want = x.want
  BY <1>2, <1>6 DEF TypeOK, TransferRecord, OthersSame
<1>10. call[c].op = "put" => <<s, id>> \notin Held
  BY <1>2, <1>3, <1>5, NotListedHeld
<1>11. AtHome(s) \/ <<s, id>> \notin Held
  BY <1>2, <1>10, IntoHome DEF s
<1>12. CustodyStep
  BY <1>2, <1>3, <1>6, <1>8, <1>11, OneVersion
<1>13. PutKept(c, p)'
  <2>1. Into(c, p)' = s /\ call' = call /\ index' = index
    BY <1>6, SameInto DEF SameCall, s
  <2>2. QED
    BY <1>4, <1>5, <1>9, <2>1 DEF PutKept
<1>14. ASSUME NEW d \in Clients, NEW q \in Nodes, <<d, q>> # <<c, p>> PROVE StreamKept(d, q)
  BY <1>9, <1>14 DEF OthersSame, StreamKept
<1>15. ASSUME NEW d \in Clients, call[d].op = "put"
       PROVE  blob'[Own(d, call[d].key)][call[d].entry.id]
                = blob[Own(d, call[d].key)][call[d].entry.id]
  <2>1. /\ call[d].entry \in OfFile(d) /\ call[d].entry.id \in VersionIDs
        /\ Own(d, call[d].key) \in Shelves
    BY <1>15, PutFacts
  <2>2. own => id # call[d].entry.id
    BY <1>2, <1>3, <2>1, FileOfCall DEF Fresh, OfFile
  <2>3. <<s, id>> # <<Own(d, call[d].key), call[d].entry.id>>
    BY <1>2, <1>15, <2>2, PutElsewhere, SMTT(30) DEF s
  <2>4. QED
    BY <1>7, <2>1, <2>3
<1>16. KeepInv'
  <2>1. \A d \in Clients : call[d].op = "put" =>
          blob'[Own(d, call[d].key)][call[d].entry.id].n
            \in {NoBlob.n, blob[Own(d, call[d].key)][call[d].entry.id].n}
    BY <1>15
  <2>2. call[c].op = "put" => id = call[c].entry.id /\ <<Into(c, p), id>> \notin Held
    BY <1>5, <1>10 DEF s
  <2>3. \A t \in Shelves, i \in VersionIDs : <<t, i>> # <<Into(c, p), id>> => Leaves(t, i)
    BY <1>8 DEF s
  <2>4. QED
    BY <1>3, <1>6, <1>13, <1>14, <2>1, <2>2, <2>3, VersionChanged
<1>17. QED
  BY <1>12, <1>16

LEMMA BlockKeeps ==
  ASSUME TakesTurns, ServerInv, ContentInv, KeepInv, NEW c \in Clients, NEW p \in Nodes,
         Block(c, p)
  PROVE  KeepInv' /\ CustodyStep
<1> DEFINE x == xfer[c][p]
           s == Into(c, p)
           id == x.entry.id
           own == call[c].op = "share"
<1>1. /\ x.pc = "recv" /\ UNCHANGED <<index, call, history, confirmed>>
      /\ blob' = [blob EXCEPT ![s][id].n = x.n + 1]
      /\ xfer' = [xfer EXCEPT ![c][p].n = x.n + 1]
  BY DEF Block
<1>2. /\ TypeOK /\ x.pc \in Live /\ x \in TransferRecord /\ PutKept(c, p) /\ TransferTurns(c, p)
  BY <1>1 DEF ServerInv, KeepInv, ContentInv, TypeOK, Live
<1>3. s \in Shelves /\ id \in VersionIDs /\ ServerInv'
  BY <1>1, ArrivingId, BlockOK
<1>4. call[c].op = "put" =>
        /\ x.entry = call[c].entry /\ x.want = Blocks /\ id = call[c].entry.id
        /\ \A f \in Entries(index[s].versions) : f.id # call[c].entry.id
  BY <1>1, <1>2 DEF PutKept
<1>5. own => Unclaimed(c, p)
  BY <1>1, <1>2 DEF TransferTurns
<1> HIDE DEF s
<1>6. /\ \A t \in Shelves : t # s => blob'[t] = blob[t]
      /\ \A i \in VersionIDs : i # id => blob'[s][i] = blob[s][i]
  BY <1>1, <1>2, <1>3 DEF TypeOK
<1>7. /\ OthersSame(c, p)
      /\ xfer'[c][p].pc = "recv" /\ xfer'[c][p].entry = x.entry /\ xfer'[c][p].want = x.want
  BY <1>1, <1>2 DEF TypeOK, TransferRecord, OthersSame
<1> HIDE DEF id
<1>8. \A t \in Shelves, i \in VersionIDs : <<t, i>> # <<s, id>> => Leaves(t, i)
  <2> SUFFICES ASSUME NEW t \in Shelves, NEW i \in VersionIDs, <<t, i>> # <<s, id>>
               PROVE  Leaves(t, i)
    OBVIOUS
  <2>1. blob'[t][i] = blob[t][i]
    BY <1>6
  <2>2. QED
    BY <1>1, <2>1 DEF Leaves
<1>9. call[c].op = "put" => <<s, id>> \notin Held
  BY <1>3, <1>4, NotListedHeld
<1>10. AtHome(s) \/ <<s, id>> \notin Held
  BY <1>2, <1>9, IntoHome DEF s
<1>11. CustodyStep
  BY <1>1, <1>3, <1>8, <1>10, OneVersion
<1>12. PutKept(c, p)'
  <2>1. Into(c, p)' = s /\ call' = call /\ index' = index
    BY <1>1, SameInto DEF SameCall, s
  <2>2. QED
    BY <1>4, <1>7, <2>1 DEF PutKept
<1>13. ASSUME NEW d \in Clients, NEW q \in Nodes, <<d, q>> # <<c, p>> PROVE StreamKept(d, q)
  BY <1>7, <1>13 DEF OthersSame, StreamKept
<1>14. ASSUME NEW d \in Clients, call[d].op = "put"
       PROVE  blob'[Own(d, call[d].key)][call[d].entry.id]
                = blob[Own(d, call[d].key)][call[d].entry.id]
  <2>1. /\ call[d].entry \in OfFile(d) /\ call[d].entry.id \in VersionIDs
        /\ Own(d, call[d].key) \in Shelves
    BY <1>14, PutFacts
  <2>2. own => id # call[d].entry.id
    BY <1>2, <1>5, <2>1, FileOfCall DEF Unclaimed, OfFile, id
  <2>3. <<s, id>> # <<Own(d, call[d].key), call[d].entry.id>>
    BY <1>2, <1>14, <2>2, PutElsewhere, SMTT(30) DEF s
  <2>4. QED
    BY <1>6, <2>1, <2>3
<1>15. KeepInv'
  <2>1. \A d \in Clients : call[d].op = "put" =>
          blob'[Own(d, call[d].key)][call[d].entry.id].n
            \in {NoBlob.n, blob[Own(d, call[d].key)][call[d].entry.id].n}
    BY <1>14
  <2>2. call[c].op = "put" => id = call[c].entry.id /\ <<Into(c, p), id>> \notin Held
    BY <1>4, <1>9 DEF s
  <2>3. \A t \in Shelves, i \in VersionIDs : <<t, i>> # <<Into(c, p), id>> => Leaves(t, i)
    BY <1>8 DEF s
  <2>4. QED
    BY <1>1, <1>3, <1>12, <1>13, <2>1, <2>2, <2>3, VersionChanged
<1>16. QED
  BY <1>11, <1>15

\* What a whole blob of entry e looks like.
LEMMA CopyIs ==
  ASSUME NEW s, NEW e, NEW b \in Blob, b.of = e.data.of, b.for = s[2], b.n = e.data.n
  PROVE  b = Copy(s, e)
BY DEF Blob, Copy

LEMMA FinishBodyKeeps ==
  ASSUME MaxVersions = 0, ServerInv, ContentInv, KeepInv, NEW c \in Clients, NEW p \in Nodes,
         FinishBody(c, p)
  PROVE  KeepInv' /\ CustodyStep
<1> DEFINE x == xfer[c][p]
           s == Into(c, p)
           id == x.entry.id
           own == call[c].op = "share"
           e == IF own THEN [x.entry EXCEPT !.data = [of |-> Body(x.src).of, n |-> x.n]]
                       ELSE x.entry
           idx == IF own THEN AppendLatest(index[s], e) ELSE UpsertLatest(index[s], e)
           ids == Pruned(idx)
           next == [xfer EXCEPT ![c][p].pc = "check", ![c][p].entry = e]
<1>1. /\ x.pc = "recv"
      /\ index' = [index EXCEPT ![s] = pruneOldestVersions(idx)]
      /\ blob' = [blob EXCEPT ![s] = Without(blob[s], ids)]
      /\ xfer' = AfterDetach(next, s, ids)
      /\ history' = IF own THEN [history EXCEPT ![FileOf(s)] = @ \cup {e}] ELSE history
      /\ UNCHANGED <<call, confirmed>>
  BY DEF FinishBody, Save, Detach, AfterDetach
<1>2. /\ TypeOK /\ OwnersKeyOnly /\ TransferTurns(c, p) /\ PutKept(c, p) /\ ArrivingOK(c, p)
      /\ x.pc \in Live /\ x \in TransferRecord
  BY <1>1 DEF ServerInv, ContentInv, KeepInv, TypeOK, TransferOK, Live
<1>3. /\ id \in VersionIDs /\ blob[s][id] # NoBlob /\ s \in Shelves /\ FileOf(s) \in Files
      /\ blob[s][id].n = x.n
  <2>1. id \in VersionIDs /\ blob[s][id] # NoBlob /\ s \in Shelves
    BY <1>1, ArrivingId
  <2>2. QED
    BY <1>1, <1>2, <2>1, IndexTyped DEF ArrivingOK
<1>4. /\ e \in Entry /\ idx \in Index /\ e.id = id
      /\ Entries(idx.versions) \subseteq Entries(index[s].versions) \cup {e}
      /\ {f \in Entries(index[s].versions) : f.id # e.id} \cup {e} \subseteq Entries(idx.versions)
  BY <1>1, FinishedEntry
<1>5. ServerInv'
  BY FinishBodyOK
<1>6. call[c].op = "put" =>
        /\ e = call[c].entry /\ x.want = Blocks /\ id = call[c].entry.id
        /\ \A f \in Entries(index[s].versions) : f.id # id
  BY <1>1, <1>2 DEF PutKept
<1>7. own => /\ e.data = [of |-> blob[s][id].of, n |-> x.n]
             /\ Unclaimed(c, p) /\ AtHome(s)
  <2>1. PICK v \in OfFile(c) : SourceIs(c, p, v)
    BY <1>2 DEF TransferTurns
  <2>2. Body(x.src).of = v.data.of
    BY <1>2, <2>1, SourceContent DEF SourceIs, ContentInv
  <2>3. own => Body(x.src).of = blob[s][id].of
    BY <1>1, <2>1, <2>2 DEF SourceIs
  <2>4. x.entry \in EntryOrNone
    BY <1>2 DEF TransferRecord, EntryOrNone
  <2>5. own => e.data = [of |-> Body(x.src).of, n |-> x.n]
    BY <2>4 DEF EntryOrNone
  <2>6. own => Unclaimed(c, p) /\ AtHome(s)
    BY <1>1, <1>2, IntoHome DEF TransferTurns
  <2>7. QED
    BY <2>3, <2>5, <2>6
<1>8. /\ next \in [Clients -> [Nodes -> TransferRecord]]
      /\ next[c][p].pc = "check" /\ next[c][p].entry = e /\ next[c][p].n = x.n
      /\ next[c][p].want = x.want
      /\ \A d \in Clients, q \in Nodes : <<d, q>> # <<c, p>> => next[d][q] = xfer[d][q]
  <2> HIDE DEF e
  <2>1. e \in EntryOrNone
    BY <1>4, EntryTypes
  <2>2. QED
    BY <1>2, <2>1 DEF TypeOK, TransferRecord, EntryOrNone
<1> HIDE DEF e, idx, next, s, id
<1>9. ids = {} /\ pruneOldestVersions(idx) = idx
  BY <1>4, PrunedIndex
<1>10. blob' = blob
  <2>1. Without(blob[s], {}) = blob[s]
    BY <1>2, <1>3 DEF Without, TypeOK
  <2>2. blob' = [blob EXCEPT ![s] = blob[s]]
    BY <1>1, <1>9, <2>1
  <2>3. QED
    BY <1>2, <1>3, <2>2 DEF TypeOK
<1>11. /\ index'[s] = idx /\ \A t \in Shelves : t # s => index'[t] = index[t]
  BY <1>1, <1>2, <1>3, <1>9 DEF TypeOK
<1>12. ids \in SUBSET VersionIDs
  BY <1>9
<1> HIDE DEF ids
<1>13. \A t \in Shelves, i \in VersionIDs : <<t, i>> # <<s, id>> => Leaves(t, i)
  <2> SUFFICES ASSUME NEW t \in Shelves, NEW i \in VersionIDs, <<t, i>> # <<s, id>>
               PROVE  Leaves(t, i)
    OBVIOUS
  <2>1. CASE t # s
    BY <1>10, <1>11, <2>1 DEF Leaves
  <2>2. CASE t = s /\ i # id
    <3>1. \A f : f.id = i => (f \in Entries(index[s].versions) <=> f \in Entries(idx.versions))
      BY <1>4, <2>2
    <3>2. QED
      BY <1>10, <1>11, <2>2, <3>1 DEF Leaves
  <2>3. QED
    BY <2>1, <2>2
<1>14. \A d \in Clients, q \in Nodes :
         /\ xfer'[d][q].pc = next[d][q].pc /\ xfer'[d][q].entry = next[d][q].entry
         /\ xfer'[d][q].n = next[d][q].n /\ xfer'[d][q].want = next[d][q].want
  BY <1>1, <1>2, <1>3, <1>8, <1>12, DetachKeeps
<1>15. ASSUME NEW d \in Clients, NEW q \in Nodes, <<d, q>> # <<c, p>> PROVE StreamKept(d, q)
  BY <1>8, <1>14, <1>15 DEF StreamKept
<1>16. /\ xfer'[c][p].pc = "check" /\ xfer'[c][p].entry = e /\ xfer'[c][p].n = x.n
       /\ xfer'[c][p].want = x.want
  BY <1>8, <1>14
<1>17. call[c].op = "put" => <<s, id>> \notin Held
  BY <1>3, <1>6, NotListedHeld
<1>18. PutKept(c, p)'
  <2>1. Into(c, p)' = s /\ call' = call
    BY <1>1, SameInto DEF SameCall, s
  <2>2. e \in Entries(index'[s].versions) /\ blob'[s][id].n = x.n
    BY <1>3, <1>4, <1>10, <1>11
  <2>3. QED
    BY <1>6, <1>16, <2>1, <2>2 DEF PutKept
<1>19. CustodyStep
  <2>1. CASE ~own
    <3>1. AtHome(s) \/ <<s, id>> \notin Held
      BY <1>2, <1>17, IntoHome DEF s
    <3>2. QED
      BY <1>1, <1>3, <1>5, <1>13, <2>1, <3>1, OneVersion
  <2>2. CASE own
    <3>1. blob'[s][e.id] = Copy(s, e)
      <4>1. blob[s][id] \in Blob /\ blob[s][id].for = s[2]
        BY <1>2, <1>3 DEF TypeOK, OwnersKeyOnly
      <4>2. blob[s][id].of = e.data.of /\ blob[s][id].n = e.data.n
        BY <1>3, <1>7, <2>2
      <4>3. QED
        BY <1>4, <1>10, <4>1, <4>2, CopyIs
    <3>2. \A f \in Files : \A w \in history[f] : w.id # e.id
      BY <1>4, <1>7, <2>2 DEF Unclaimed, id
    <3>3. history' = [history EXCEPT ![FileOf(s)] = @ \cup {e}]
      BY <1>1, <2>2
    <3>4. e \in Entries(index'[s].versions)
      BY <1>4, <1>11
    <3>5. \A t \in Shelves, i \in VersionIDs : <<t, i>> # <<s, e.id>> => Leaves(t, i)
      BY <1>4, <1>13
    <3>6. QED
      BY <1>1, <1>2, <1>3, <1>4, <1>7, <2>2, <3>1, <3>2, <3>3, <3>4, <3>5, VersionMade
  <2>3. QED
    BY <2>1, <2>2
<1>20. KeepInv'
  <2>1. \A d \in Clients : call[d].op = "put" =>
          blob'[Own(d, call[d].key)][call[d].entry.id].n
            \in {NoBlob.n, blob[Own(d, call[d].key)][call[d].entry.id].n}
    BY <1>10
  <2>2. call[c].op = "put" => id = call[c].entry.id /\ <<Into(c, p), id>> \notin Held
    BY <1>6, <1>17 DEF s
  <2>3. \A t \in Shelves, i \in VersionIDs : <<t, i>> # <<Into(c, p), id>> => Leaves(t, i)
    BY <1>13 DEF s
  <2>4. QED
    BY <1>1, <1>3, <1>15, <1>18, <2>1, <2>2, <2>3, VersionChanged
<1>21. QED
  BY <1>19, <1>20

LEMMA CheckCountKeeps ==
  ASSUME ServerInv, ContentInv, KeepInv, NEW c \in Clients, NEW p \in Nodes, CheckCount(c, p)
  PROVE  KeepInv' /\ CustodyStep
<1> DEFINE x == xfer[c][p]
           s == Into(c, p)
           id == x.entry.id
           ids == {id}
           next == [xfer EXCEPT ![c][p].pc = "bad"]
<1>1. /\ x.pc = "check" /\ UNCHANGED <<call, history, confirmed>>
      /\ TypeOK /\ OwnersKeyOnly /\ x \in TransferRecord /\ s \in Shelves
      /\ PutKept(c, p) /\ PutWhole(c)
  BY IntoShelf DEF CheckCount, ServerInv, KeepInv, TypeOK
<1>2. Into(c, p)' = s
  BY <1>1, SameInto DEF SameCall
<1>3. CASE x.n = x.want /\ Become(c, p, "good") /\ UNCHANGED disk
  <2>1. /\ OthersSame(c, p)
        /\ xfer'[c][p].pc = "good" /\ xfer'[c][p].entry = x.entry
        /\ xfer'[c][p].n = x.n /\ xfer'[c][p].want = x.want
    BY <1>1, <1>3 DEF TypeOK, TransferRecord, OthersSame, Become
  <2>2. UNCHANGED <<index, blob, call, history, confirmed>>
    BY <1>1, <1>3 DEF disk
  <2>3. PutKept(c, p)'
    BY <1>1, <1>2, <2>1, <2>2 DEF PutKept, Live
  <2>4. QED
    BY <2>1, <2>2, <2>3, StreamKeeps
<1>4. CASE Become(c, p, "bad") /\ UNCHANGED disk
  <2>1. OthersSame(c, p) /\ StreamKept(c, p)
    BY <1>1, <1>4 DEF TypeOK, TransferRecord, OthersSame, StreamKept, Become
  <2>2. UNCHANGED <<index, blob, call, history, confirmed>>
    BY <1>1, <1>4 DEF disk
  <2>3. QED
    BY <2>1, <2>2, StreamKeeps
<1>5. CASE /\ x.n # x.want
           /\ id \in IdsOf(index[s].versions)
           /\ index' = [index EXCEPT ![s] = RemoveVersion(index[s], id)]
           /\ blob' = [blob EXCEPT ![s] = Without(blob[s], ids)]
           /\ xfer' = AfterDetach(next, s, ids)
  <2>1. id \in VersionIDs /\ ids \in SUBSET VersionIDs
    BY <1>1, <1>5, IndexTyped
  <2>2. \A i \in VersionIDs : Without(blob[s], ids)[i] = IF i \in ids THEN NoBlob ELSE blob[s][i]
    BY <1>1, IndexTyped, WithoutBlobs
  <2>3. call[c].op = "put" => id = call[c].entry.id /\ <<s, id>> \notin Held
    <3> HAVE call[c].op = "put"
    <3>1. /\ id = call[c].entry.id /\ x.want = Blocks
          /\ call[c].entry \in Entries(index[s].versions) /\ blob[s][id].n = x.n
          /\ call[c].entry.data = [of |-> call[c].entry.id, n |-> Blocks]
      BY <1>1 DEF PutKept, PutWhole, Live
    <3> HIDE DEF s, id
    <3>2. <<s, call[c].entry.id>> \in Held <=>
            blob[s][call[c].entry.id].n = call[c].entry.data.n
      BY <1>1, <3>1, HeldEntry
    <3>3. call[c].entry.data.n = Blocks
      BY <3>1
    <3>4. QED
      BY <1>5, <3>1, <3>2, <3>3
  <2>4. /\ Entries(RemoveVersion(index[s], id).versions) \subseteq Entries(index[s].versions)
        /\ {f \in Entries(index[s].versions) : f.id # id}
             \subseteq Entries(RemoveVersion(index[s], id).versions)
    BY <1>1, <1>5, IndexTyped, RemoveIndex
  <2> HIDE DEF s, id
  <2>5. /\ \A t \in Shelves : t # s => index'[t] = index[t] /\ blob'[t] = blob[t]
        /\ index'[s] = RemoveVersion(index[s], id)
        /\ \A i \in VersionIDs : blob'[s][i] = IF i = id THEN NoBlob ELSE blob[s][i]
    BY <1>1, <1>5, <2>2 DEF TypeOK
  <2>6. \A t \in Shelves, i \in VersionIDs : <<t, i>> # <<s, id>> => Leaves(t, i)
    <3> SUFFICES ASSUME NEW t \in Shelves, NEW i \in VersionIDs, <<t, i>> # <<s, id>>
                 PROVE  Leaves(t, i)
      OBVIOUS
    <3>1. CASE t # s
      BY <2>5, <3>1 DEF Leaves
    <3>2. CASE t = s /\ i # id
      BY <2>4, <2>5, <3>2 DEF Leaves
    <3>3. QED
      BY <3>1, <3>2
  <2>7. /\ next \in [Clients -> [Nodes -> TransferRecord]]
        /\ next[c][p].pc = "bad"
        /\ \A d \in Clients, q \in Nodes : <<d, q>> # <<c, p>> => next[d][q] = xfer[d][q]
    BY <1>1 DEF TypeOK, TransferRecord
  <2> HIDE DEF next, ids
  <2>8. \A d \in Clients, q \in Nodes :
          /\ xfer'[d][q].pc = next[d][q].pc /\ xfer'[d][q].entry = next[d][q].entry
          /\ xfer'[d][q].n = next[d][q].n /\ xfer'[d][q].want = next[d][q].want
    BY <1>1, <1>5, <2>1, <2>7, DetachKeeps, SMTT(20), ZenonT(60)
  <2>9. ASSUME NEW d \in Clients, NEW q \in Nodes, <<d, q>> # <<c, p>> PROVE StreamKept(d, q)
    BY <2>7, <2>8, <2>9 DEF StreamKept
  <2>10. PutKept(c, p)'
    BY <2>7, <2>8 DEF PutKept, Live
  <2>11. AtHome(s) \/ <<s, id>> \notin Held
    BY <1>1, <2>3, IntoHome DEF s
  <2>12. ServerInv'
    BY CheckCountOK
  <2>13. CustodyStep
    BY <1>1, <2>1, <2>6, <2>11, <2>12, OneVersion
  <2>14. ASSUME NEW d \in Clients, call[d].op = "put"
         PROVE  blob'[Own(d, call[d].key)][call[d].entry.id].n
                  \in {NoBlob.n, blob[Own(d, call[d].key)][call[d].entry.id].n}
    <3>1. call[d].entry.id \in VersionIDs /\ Own(d, call[d].key) \in Shelves
      BY <2>14, PutFacts
    <3>2. \A t \in Shelves, i \in VersionIDs : blob'[t][i] \in {NoBlob, blob[t][i]}
      BY <2>5
    <3>3. QED
      BY <3>1, <3>2
  <2>15. KeepInv'
    <3>1. call[c].op = "put" => id = call[c].entry.id /\ <<Into(c, p), id>> \notin Held
      BY <2>3 DEF s
    <3>2. \A t \in Shelves, i \in VersionIDs : <<t, i>> # <<Into(c, p), id>> => Leaves(t, i)
      BY <2>6 DEF s
    <3>3. QED
      BY <1>1, <2>1, <2>9, <2>10, <2>14, <3>1, <3>2, VersionChanged
  <2>16. QED
    BY <2>13, <2>15
<1>6. QED
  BY <1>1, <1>3, <1>4, <1>5 DEF CheckCount, Detach, AfterDetach

\* The owner's own shelf changes.
LEMMA OwnShelfChanged ==
  ASSUME ServerInv, ContentInv, KeepInv, UNCHANGED confirmed, NEW s \in Shelves, AtHome(s),
         \A t \in Shelves : t # s => index'[t] = index[t] /\ blob'[t] = blob[t],
         \A d \in Clients :
           \/ call'[d].op # "put"
           \/ /\ CallKept(d)
              /\ call[d].op = "put" =>
                   blob'[Own(d, call[d].key)][call[d].entry.id].n
                     \in {NoBlob.n, blob[Own(d, call[d].key)][call[d].entry.id].n},
         \A d \in Clients, q \in Nodes : call'[d].op # "put" \/ StreamKept(d, q)
  PROVE  KeepInv'
<1>1. \A t \in Shelves, i \in VersionIDs : Leaves(t, i) \/ AtHome(t) \/ <<t, i>> \notin Held
  BY ShelfLeft
<1>2. ASSUME NEW d \in Clients, NEW q \in Nodes,
             call[d].op = "put", xfer[d][q].pc \in {"open"} \cup Live
      PROVE  Leaves(Into(d, q), call[d].entry.id)
  <2>1. q # At[d]
    BY <1>2 DEF ContentInv, TransferTurns, Live
  <2>2. Into(d, q) \in Shelves /\ ~AtHome(Into(d, q))
    BY <1>2, <2>1, PutFacts
  <2>3. QED
    BY <2>2, ShelfLeft
<1>3. ASSUME NEW d \in Clients
      PROVE  \/ call'[d].op # "put"
             \/ /\ CallKept(d)
                /\ blob'[Own(d, call[d].key)][call[d].entry.id].n
                     \in {NoBlob.n, blob[Own(d, call[d].key)][call[d].entry.id].n}
  BY DEF CallKept, SameCall
<1>4. QED
  BY <1>1, <1>2, <1>3, CallsKept

LEMMA DeleteKeeps ==
  ASSUME ServerInv, ContentInv, KeepInv, NEW c \in Clients, Delete(c)
  PROVE  KeepInv' /\ CustodyStep
<1>1. PICK k \in Keys :
        LET s == Own(c, k)
            ids == IdsOf(index[s].versions)
        IN  /\ index' = [index EXCEPT ![s] = EmptyIndex]
            /\ blob' = [blob EXCEPT ![s] = Without(@, ids)]
            /\ xfer' = AfterDetach(xfer, s, ids)
            /\ UNCHANGED <<call, history, confirmed>>
  BY DEF Delete, Detach, AfterDetach
<1> DEFINE s == Own(c, k)
           ids == IdsOf(index[s].versions)
<1>2. TypeOK /\ OwnersKeyOnly
  BY DEF ServerInv
<1>3. s \in Shelves /\ AtHome(s)
  BY OwnShelf DEF Own, AtHome
<1>4. ids \in SUBSET VersionIDs
  BY <1>2, <1>3, IndexTyped
<1>5. \A i \in VersionIDs : Without(blob[s], ids)[i] = IF i \in ids THEN NoBlob ELSE blob[s][i]
  BY <1>2, <1>3, IndexTyped, WithoutBlobs
<1>6. /\ xfer' = AfterDetach(xfer, s, ids)
      /\ index' = [index EXCEPT ![s] = EmptyIndex]
      /\ blob' = [blob EXCEPT ![s] = Without(blob[s], ids)]
      /\ UNCHANGED <<call, history, confirmed>>
  BY <1>1
<1> HIDE DEF s, ids
<1>7. /\ \A t \in Shelves : t # s => index'[t] = index[t] /\ blob'[t] = blob[t]
      /\ \A i \in VersionIDs : blob'[s][i] \in {blob[s][i], NoBlob}
      /\ index'[s] = EmptyIndex
  BY <1>2, <1>3, <1>5, <1>6 DEF TypeOK
<1>8. ASSUME NEW d \in Clients, NEW q \in Nodes PROVE StreamKept(d, q)
  <2>1. xfer \in [Clients -> [Nodes -> TransferRecord]]
    BY <1>2 DEF TypeOK
  <2>2. /\ xfer'[d][q].pc = xfer[d][q].pc /\ xfer'[d][q].entry = xfer[d][q].entry
        /\ xfer'[d][q].n = xfer[d][q].n /\ xfer'[d][q].want = xfer[d][q].want
    BY <1>2, <1>3, <1>4, <1>6, <2>1, DetachKeeps
  <2>3. QED
    BY <2>2 DEF StreamKept
<1>9. ASSUME NEW d \in Clients, call[d].op = "put"
      PROVE  blob'[Own(d, call[d].key)][call[d].entry.id].n
               \in {NoBlob.n, blob[Own(d, call[d].key)][call[d].entry.id].n}
  <2>1. call[d].entry.id \in VersionIDs /\ Own(d, call[d].key) \in Shelves
    BY <1>9, PutFacts
  <2>2. \A t \in Shelves, i \in VersionIDs : blob'[t][i] \in {NoBlob, blob[t][i]}
    BY <1>7
  <2>3. QED
    BY <2>1, <2>2
<1>10. \A d \in Clients : CallKept(d)
  BY <1>6 DEF CallKept, SameCall
<1>11. KeepInv'
  BY <1>3, <1>6, <1>7, <1>8, <1>9, <1>10, OwnShelfChanged
<1>12. ASSUME NEW i \in VersionIDs PROVE <<s, i>> \notin Held'
  <2>1. Entries(index'[s].versions) = {}
    BY <1>7, EmptyIndexType
  <2>2. QED
    BY <1>3, <2>1, HeldCopy
<1>13. CustodyStep
  BY <1>3, <1>6, <1>7, <1>12, CopiesLost
<1>14. QED
  BY <1>11, <1>13

-----------------------------------------------------------------------------
(* The client's own writes.                                                *)
(***************************************************************************)
LEMMA WriteLocalKeeps ==
  ASSUME MaxVersions = 0, ServerInv, ContentInv, KeepInv, NEW c \in Clients,
         NEW k \in Keys, NEW id \in Fresh, Written(c, k, id),
         NEW next \in [Clients -> [Nodes -> TransferRecord]],
         xfer' = AfterDetach(next, Own(c, k), Pruned(NewIndex(c, k, id))),
         \A d \in Clients : d # c => call'[d] = call[d] /\ next[d] = xfer[d],
         call'[c].op = "put" =>
           /\ call'[c].key = k /\ call'[c].entry = NewEntry(c, k, id)
           /\ \A p \in Nodes : /\ next[c][p].pc \in {"idle", "end", "open"}
                               /\ next[c][p].pc = "open" => p # At[c]
  PROVE  KeepInv' /\ CustodyStep
<1> DEFINE s == Own(c, k)
           e == NewEntry(c, k, id)
           idx == NewIndex(c, k, id)
           ids == Pruned(idx)
           b == [of |-> id, for |-> At[c], n |-> Blocks]
           blobs == [blob[s] EXCEPT ![id] = b]
<1>1. /\ index' = [index EXCEPT ![s] = pruneOldestVersions(idx)]
      /\ blob' = [blob EXCEPT ![s] = Without(blobs, ids)]
      /\ history' = [history EXCEPT ![FileOf(s)] = @ \cup {e}]
      /\ xfer' = AfterDetach(next, s, ids)
      /\ UNCHANGED confirmed
  BY DEF Written, Save
<1>2. TypeOK /\ OwnersKeyOnly /\ ReplicasAgree
  BY DEF ServerInv
<1>3. /\ s \in Shelves /\ AtHome(s) /\ FileOf(s) \in Files /\ id \in VersionIDs /\ s[2] = At[c]
      /\ s = <<At[c], At[c], k>>
  BY <1>2, OwnShelf, IndexTyped DEF Fresh, Own, AtHome
<1>4. /\ e \in Entry /\ idx \in Index /\ b \in Blob /\ e.id = id
      /\ e.data = [of |-> id, n |-> Blocks] /\ e.data.of = id /\ e.data.n = Blocks
      /\ b.of = id /\ b.for = At[c] /\ b.n = Blocks
      /\ Entries(idx.versions) = Entries(index[s].versions) \cup {e}
  <2>1. e.id = id /\ e.data = [of |-> id, n |-> Blocks]
    BY DEF NewEntry
  <2>2. /\ e \in Entry /\ idx \in Index /\ b \in Blob
        /\ Entries(idx.versions) = Entries(index[s].versions) \cup {e}
    BY <1>2, <1>3, NewEntryOK, ZenonT(60)
  <2>3. b.of = id /\ b.for = At[c] /\ b.n = Blocks
    OBVIOUS
  <2> HIDE DEF e, idx, b
  <2>4. e.data.of = id /\ e.data.n = Blocks
    BY <2>1
  <2>5. QED
    BY <2>1, <2>2, <2>3, <2>4
<1>5. \A f \in Files : \A w \in history[f] : w.id # id
  BY DEF Fresh
<1> HIDE DEF s, e, idx, b
<1>6. ids = {} /\ pruneOldestVersions(idx) = idx
  BY <1>4, PrunedIndex
<1>7. ids \in SUBSET VersionIDs
  BY <1>6
<1>8. /\ blobs \in [VersionIDs -> Blob \cup {NoBlob}]
      /\ \A i \in VersionIDs : blobs[i] = IF i = id THEN b ELSE blob[s][i]
  BY <1>2, <1>3, <1>4, IndexTyped
<1> HIDE DEF blobs
<1>9. Without(blobs, ids) = blobs
  BY <1>6, <1>8 DEF Without
<1> HIDE DEF ids
<1>10. /\ \A t \in Shelves : t # s => index'[t] = index[t] /\ blob'[t] = blob[t]
       /\ \A i \in VersionIDs : blob'[s][i] = IF i = id THEN b ELSE blob[s][i]
       /\ index'[s] = idx
  BY <1>1, <1>2, <1>3, <1>6, <1>8, <1>9 DEF TypeOK
<1>11. \A t \in Shelves, i \in VersionIDs : <<t, i>> # <<s, id>> => Leaves(t, i)
  <2> SUFFICES ASSUME NEW t \in Shelves, NEW i \in VersionIDs, <<t, i>> # <<s, id>>
               PROVE  Leaves(t, i)
    OBVIOUS
  <2>1. CASE t # s
    BY <1>10, <2>1 DEF Leaves
  <2>2. CASE t = s /\ i # id
    BY <1>4, <1>10, <2>2 DEF Leaves
  <2>3. QED
    BY <2>1, <2>2
<1>12. CustodyStep
  <2>1. blob'[s][e.id] = Copy(s, e)
    BY <1>3, <1>4, <1>10, CopyIs
  <2>2. e \in Entries(index'[s].versions)
    BY <1>4, <1>10
  <2>3. \A f \in Files : \A w \in history[f] : w.id # e.id
    BY <1>4, <1>5
  <2>4. \A t \in Shelves, i \in VersionIDs : <<t, i>> # <<s, e.id>> => Leaves(t, i)
    BY <1>4, <1>11
  <2>5. QED
    BY <1>1, <1>2, <1>3, <1>4, <2>1, <2>2, <2>3, <2>4, VersionMade
<1>13. \A d \in Clients, q \in Nodes :
         /\ xfer'[d][q].pc = next[d][q].pc /\ xfer'[d][q].entry = next[d][q].entry
         /\ xfer'[d][q].n = next[d][q].n /\ xfer'[d][q].want = next[d][q].want
  <2>1. xfer' = AfterDetach(next, s, ids) /\ s \in Shelves
    BY <1>1, <1>3
  <2>2. TypeOK /\ OwnersKeyOnly
    BY <1>2
  <2> TAKE d \in Clients, q \in Nodes
  <2>3. QED
    BY <1>7, <2>1, <2>2, DetachKeeps
<1>14. ASSUME NEW d \in Clients, call[d].op = "put" PROVE call[d].entry.id # id
  <2>1. call[d].entry \in OfFile(d)
    BY <1>14, PutFacts
  <2>2. QED
    BY <1>2, <1>5, <2>1, FileOfCall DEF OfFile
<1>15. call'[c].op = "put" => call'[c].entry.id = id
  BY <1>4 DEF e
<1>16. PutsDiffer'
  <2> SUFFICES ASSUME NEW d \in Clients, NEW w \in Clients,
                      call'[d].op = "put", call'[w].op = "put",
                      call'[d].entry.id = call'[w].entry.id
               PROVE  d = w
    BY DEF PutsDiffer
  <2>1. CASE d # c /\ w # c
    <3>1. call'[d] = call[d] /\ call'[w] = call[w]
      BY <2>1
    <3>2. QED
      BY <3>1 DEF KeepInv, PutsDiffer
  <2>2. CASE d = c /\ w # c
    BY <1>14, <1>15, <2>2
  <2>3. CASE d # c /\ w = c
    BY <1>14, <1>15, <2>3
  <2>4. QED
    BY <2>1, <2>2, <2>3
<1>17. ASSUME NEW d \in Clients PROVE PutWhole(d)'
  <2>1. CASE call'[d].op # "put"
    BY <2>1 DEF PutWhole
  <2>2. CASE d = c /\ call'[c].op = "put"
    <3>1. call'[c].entry = e /\ Own(c, call'[c].key) = s
      BY <2>2 DEF e, s
    <3>2. blob'[s][id].n = Blocks
      BY <1>3, <1>4, <1>10
    <3>3. QED
      BY <1>4, <2>2, <3>1, <3>2 DEF PutWhole
  <2>3. CASE d # c /\ call'[d].op = "put"
    <3>1. call'[d] = call[d] /\ call[d].op = "put" /\ PutWhole(d)
      BY <2>3 DEF KeepInv
    <3>2. call[d].entry.id # id /\ call[d].entry.id \in VersionIDs /\ Own(d, call[d].key) \in Shelves
      BY <1>14, <3>1, PutFacts
    <3>3. blob'[Own(d, call[d].key)][call[d].entry.id] = blob[Own(d, call[d].key)][call[d].entry.id]
      BY <1>10, <3>2
    <3>4. QED
      BY <3>1, <3>3 DEF PutWhole
  <2>4. QED
    BY <2>1, <2>2, <2>3
<1>18. ASSUME NEW d \in Clients, NEW q \in Nodes PROVE PutKept(d, q)'
  <2>1. CASE call'[d].op # "put"
    BY <2>1 DEF PutKept
  <2>2. CASE d = c /\ call'[c].op = "put"
    <3>1. call'[c].entry.id = id /\ Into(c, q)' = <<q, At[c], k>>
      BY <1>15, <2>2 DEF Into
    <3>2. xfer'[c][q].pc \in {"idle", "end", "open"} /\ (xfer'[c][q].pc = "open" => q # At[c])
      BY <1>13, <2>2
    <3>3. q # At[c] => \A f \in Entries(index'[<<q, At[c], k>>].versions) : f.id # id
      <4> HAVE q # At[c]
      <4>1. <<q, At[c], k>> \in Shelves /\ <<q, At[c], k>> # s
        BY <1>3, FileServerAssumption DEF Shelves
      <4>2. index'[<<q, At[c], k>>] = index[<<q, At[c], k>>]
        BY <1>10, <4>1
      <4>3. /\ Entries(index[<<q, At[c], k>>].versions) \subseteq history[FileOf(<<q, At[c], k>>)]
            /\ FileOf(<<q, At[c], k>>) \in Files
        BY <1>2, <4>1, ListedEntries, IndexTyped DEF ReplicasAgree
      <4>4. QED
        BY <1>5, <4>2, <4>3
    <3>4. xfer'[d][q].pc \notin Live
      BY <2>2, <3>2 DEF Live
    <3>5. QED
      BY <2>2, <3>1, <3>2, <3>3, <3>4 DEF PutKept, Live
  <2>3. CASE d # c /\ call'[d].op = "put"
    <3>1. call'[d] = call[d] /\ call[d].op = "put" /\ PutKept(d, q) /\ next[d][q] = xfer[d][q]
      BY <2>3 DEF KeepInv
    <3>2. CallKept(d) /\ StreamKept(d, q)
      BY <1>13, <3>1 DEF CallKept, SameCall, StreamKept
    <3>3. call[d].entry.id # id /\ call[d].entry.id \in VersionIDs /\ Into(d, q) \in Shelves
      BY <1>14, <3>1, PutFacts
    <3>4. Leaves(Into(d, q), call[d].entry.id)
      BY <1>11, <3>3
    <3>5. QED
      BY <3>1, <3>2, <3>4, PutKeptStays
  <2>4. QED
    BY <2>1, <2>2, <2>3
<1>19. \A t \in Shelves, i \in VersionIDs : Leaves(t, i) \/ AtHome(t) \/ <<t, i>> \notin Held
  BY <1>3, <1>11
<1>20. KeepInv'
  BY <1>1, <1>16, <1>17, <1>18, <1>19, KeepStep
<1>21. QED
  BY <1>12, <1>20

LEMMA StoreVersionKeeps ==
  ASSUME MaxVersions = 0, ServerInv, ContentInv, KeepInv, NEW c \in Clients, StoreVersion(c)
  PROVE  KeepInv' /\ CustodyStep
<1>1. PICK k \in Keys, id \in Fresh, connected \in Peers(At[c]) :
        \E peers \in selectPeers(connected) :
          /\ Idle(c, "put")
          /\ WriteLocal(c, k, id, Fan(c, peers))
          /\ call' = [call EXCEPT ![c] =
               [NoCall EXCEPT !.pc = "fan", !.op = "put", !.key = k,
                              !.entry = NewEntry(c, k, id)]]
  BY DEF StoreVersion, NewEntry
<1>2. PICK peers \in selectPeers(connected) :
        /\ Idle(c, "put")
        /\ WriteLocal(c, k, id, Fan(c, peers))
        /\ call' = [call EXCEPT ![c] =
             [NoCall EXCEPT !.pc = "fan", !.op = "put", !.key = k,
                            !.entry = NewEntry(c, k, id)]]
  BY <1>1
<1>3. TypeOK
  BY DEF ServerInv
<1>4. /\ Written(c, k, id)
      /\ xfer' = AfterDetach(Fan(c, peers), Own(c, k), Pruned(NewIndex(c, k, id)))
  BY <1>2 DEF WriteLocal, Written, NewIndex, NewEntry, Detach, AfterDetach
<1>5. call'[c].key = k /\ call'[c].entry = NewEntry(c, k, id)
  BY <1>2, <1>3 DEF TypeOK, NoCall
<1>6. /\ Fan(c, peers) \in [Clients -> [Nodes -> TransferRecord]]
      /\ \A d \in Clients : d # c => Fan(c, peers)[d] = xfer[d]
  BY <1>3, FanTyped
<1>7. \A d \in Clients : d # c => call'[d] = call[d]
  BY <1>2, <1>3 DEF TypeOK
<1>8. At[c] \notin peers
  <2>1. At[c] \in Nodes
    BY FileServerAssumption
  <2>2. connected \subseteq Nodes \ {At[c]}
    BY <2>1, PeersAreNodes
  <2>3. peers \subseteq connected
    BY <1>2 DEF selectPeers
  <2>4. QED
    BY <2>2, <2>3
<1>9. ASSUME NEW p \in Nodes
      PROVE  /\ Fan(c, peers)[c][p].pc \in {"idle", "end", "open"}
             /\ Fan(c, peers)[c][p].pc = "open" => p # At[c]
  <2>1. Fan(c, peers)[c][p] = IF p \in peers THEN Opening ELSE NoTransfer
    BY <1>3 DEF Fan, TypeOK
  <2>2. QED
    BY <1>8, <2>1 DEF Opening, NoTransfer
<1>10. QED
  BY <1>4, <1>5, <1>6, <1>7, <1>9, WriteLocalKeeps

LEMMA StoreLocalKeeps ==
  ASSUME MaxVersions = 0, ServerInv, ContentInv, KeepInv, NEW c \in Clients, StoreLocal(c)
  PROVE  KeepInv' /\ CustodyStep
<1>1. PICK k \in Keys, id \in Fresh, targets \in Targets(c) :
        /\ WriteLocal(c, k, id, xfer)
        /\ call' = [call EXCEPT ![c] = [NoCall EXCEPT !.pc = "stored", !.key = k, !.left = targets]]
  BY DEF StoreLocal
<1>2. TypeOK
  BY DEF ServerInv
<1>3. /\ Written(c, k, id)
      /\ xfer' = AfterDetach(xfer, Own(c, k), Pruned(NewIndex(c, k, id)))
  BY <1>1 DEF WriteLocal, Written, NewIndex, NewEntry, Detach, AfterDetach
<1>4. call'[c].op = "none" /\ \A d \in Clients : d # c => call'[d] = call[d]
  BY <1>1, <1>2 DEF TypeOK, NoCall
<1>5. xfer \in [Clients -> [Nodes -> TransferRecord]]
  BY <1>2 DEF TypeOK
<1>6. QED
  BY <1>3, <1>4, <1>5, WriteLocalKeeps

-----------------------------------------------------------------------------
(* The invariant, and what follows from it.                                *)
(***************************************************************************)
LEMMA KeepInvInit ==
  ASSUME Init PROVE KeepInv
<1>1. \A c \in Clients : call[c].op = "none"
  BY DEF Init, NoCall
<1>2. PutsDiffer
  BY <1>1 DEF PutsDiffer
<1>3. \A c \in Clients : PutWhole(c)
  BY <1>1 DEF PutWhole
<1>4. \A c \in Clients, p \in Nodes : PutKept(c, p)
  BY <1>1 DEF PutKept
<1>5. ConfirmedKept
  BY DEF Init, ConfirmedKept
<1>6. QED
  BY <1>2, <1>3, <1>4, <1>5 DEF KeepInv

LEMMA CustodyInit ==
  ASSUME Init PROVE CustodySpec!Init
<1>1. [f \in Files |-> Made(f)] = [f \in CustodySpec!Files |-> {}]
  BY DEF Init, Made, Files, CustodySpec!Files
<1>2. Held = {}
  <2>1. ASSUME NEW s \in Shelves, NEW id \in VersionIDs PROVE <<s, id>> \notin Held
    <3>1. Entries(index[s].versions) = {}
      BY EmptyIndexType DEF Init
    <3>2. QED
      BY <3>1, HeldCopy
  <2>2. Held \subseteq Shelves \X VersionIDs
    BY DEF Held
  <2>3. QED
    BY <2>1, <2>2
<1>3. confirmed = {}
  BY DEF Init
<1>4. QED
  BY <1>1, <1>2, <1>3 DEF CustodySpec!Init

LEMMA KeepInvStep ==
  ASSUME TakesTurns, MaxVersions = 0, ServerInv, ContentInv, KeepInv, [Next]_vars
  PROVE  KeepInv' /\ CustodyStep
<1>1. ASSUME NEW c \in Clients, Begin(c) PROVE KeepInv' /\ CustodyStep
  BY <1>1, StoreVersionKeeps, ShareKeeps, StoreLocalKeeps, DeleteKeeps, GetVersionKeeps,
     DisconnectKeeps DEF Begin
<1>2. ASSUME NEW c \in Clients, Proceed(c) PROVE KeepInv' /\ CustodyStep
  BY <1>2, ShareKeeps, ReadHereKeeps, TryKeeps, FetchedKeeps, FanDoneKeeps, ForgetKeeps DEF Proceed
<1>3. ASSUME NEW c \in Clients, NEW p \in Nodes, Transfer(c, p) PROVE KeepInv' /\ CustodyStep
  BY <1>3, OpenLocalKeeps, AnswerKeeps, ReceiveKeeps, BlockKeeps,
     FinishBodyKeeps, CheckCountKeeps, ReplyKeeps DEF Transfer
<1>4. ASSUME NEW c \in Clients, NEW p \in Nodes, GiveUp(c, p) \/ Break(c, p)
      PROVE  KeepInv' /\ CustodyStep
  BY <1>4, GiveUpKeeps, BreakKeeps
<1>5. CASE UNCHANGED vars
  <2>1. \A d \in Clients, q \in Nodes : StreamKept(d, q)
    BY <1>5 DEF vars, StreamKept
  <2>2. \A d \in Clients : CallKept(d)
    BY <1>5 DEF vars, CallKept, SameCall
  <2>3. QED
    BY <1>5, <2>1, <2>2, QuietKeeps DEF vars
<1>6. QED
  BY <1>1, <1>2, <1>3, <1>4, <1>5, CrashKeeps DEF Next

LEMMA KeepInvHolds ==
  ASSUME TakesTurns, MaxVersions = 0
  PROVE  Spec => [](ServerInv /\ ContentInv /\ KeepInv)
<1>1. Init => KeepInv
  BY KeepInvInit
<1>2. ServerInv /\ ContentInv /\ KeepInv /\ [Next]_vars => KeepInv'
  BY KeepInvStep
<1>3. QED
  BY <1>1, <1>2, TurnsTaken, ContentInvHolds, PTL DEF Spec

\* What PutResult.PeersStored promises: a peer that is counted has the version,
\* listed and with every byte of it under its origin's key, and goes on having it
\* whatever is put, fetched, shared, deleted at its origin, cut off or restarted
\* afterwards.
THEOREM ConfirmedReplicasStay ==
  ASSUME TakesTurns, MaxVersions = 0 PROVE Spec => []ConfirmedReplicas
<1>1. ASSUME ServerInv, ContentInv, KeepInv, NEW r \in confirmed
      PROVE  r[2] \in IdsOf(index[r[1]].versions) /\ Whole(r[1], r[2])
  <2>1. r[1] \in Shelves /\ r[2] \in VersionIDs /\ r = <<r[1], r[2]>>
    BY <1>1, ConfirmedHeld DEF KeepInv
  <2>2. PICK e \in Entries(index[r[1]].versions) :
          e.id = r[2] /\ e.data = [of |-> r[2], n |-> Blocks] /\ blob[r[1]][r[2]].n = Blocks
    BY <1>1 DEF KeepInv, ConfirmedKept
  <2>3. TypeOK /\ OwnersKeyOnly /\ ContentsOK
    BY <1>1 DEF ServerInv, ContentInv
  <2>4. e \in history[FileOf(r[1])]
    BY <1>1, <2>1, HeldEntry
  <2>5. blob[r[1]][r[2]] # NoBlob
    BY <2>2, FileServerAssumption DEF NoBlob
  <2>6. blob[r[1]][r[2]] \in Blob /\ blob[r[1]][r[2]].for = r[1][2]
    BY <2>1, <2>3, <2>5 DEF TypeOK, OwnersKeyOnly
  <2>7. blob[r[1]][r[2]].of = r[2]
    BY <2>1, <2>2, <2>3, <2>4, <2>5 DEF ContentsOK
  <2>8. Whole(r[1], r[2])
    BY <2>2, <2>6, <2>7 DEF Whole, Blob
  <2>9. index[r[1]].versions \in Seq(Entry)
    BY <2>1, <2>3, IndexTyped DEF Index
  <2>10. r[2] \in IdsOf(index[r[1]].versions)
    BY <2>2, <2>9, IdsOfEntries
  <2>11. QED
    BY <2>8, <2>10
<1>2. ServerInv /\ ContentInv /\ KeepInv => ConfirmedReplicas
  BY <1>1 DEF ConfirmedReplicas
<1>3. QED
  BY <1>2, KeepInvHolds, PTL

\* Replication implements module Custody: streams, blocks, locks, crashes and
\* half-received bodies never show, each step of the file servers makes a version
\* at home, gives a node a whole copy, loses copies of the owner's own, tells a
\* caller of a copy that is there, or does none of this.
THEOREM ReplicationImplementsCustody ==
  ASSUME TakesTurns, MaxVersions = 0 PROVE Spec => ImplementsCustody
<1>1. Init => CustodySpec!Init
  BY CustodyInit
<1>2. ServerInv /\ ContentInv /\ KeepInv /\ [Next]_vars => [CustodySpec!Next]_(CustodySpec!vars)
  BY KeepInvStep DEF CustodyStep
<1>3. QED
  BY <1>1, <1>2, KeepInvHolds, PTL DEF Spec, ImplementsCustody, CustodySpec!Spec

-----------------------------------------------------------------------------
(* A get finds a confirmed replica.                                        *)
(*                                                                         *)
(* StayInv needs no turns to be taken.  A custodian's copy is written by   *)
(* one push of the put that made the version, before its peer answers, and *)
(* by nobody after that: it may be short, if the file was cut while the    *)
(* put was reading it, but it is there.                                    *)
(***************************************************************************)
Begun(c) ==
    /\ call[c].pc \in {"idle", "stored"} => call[c].op = "none"
    /\ call[c].pc \in {"here", "try", "fetch"} => call[c].op = "get"
    /\ call[c].pc \in {"stored", "try", "fetch"} => At[c] \notin call[c].left
    /\ call[c].op = "get" => Ops[c] \cap {"get", "getLatest"} # {}
Elsewhere(c, p) == xfer[c][p].pc \notin {"idle", "end"} => p # At[c] /\ call[c].op # "none"
\* A blob is of some version, under its name or open without one.
BlobsFilled == \A s \in Shelves, id \in VersionIDs : blob[s][id] # NoBlob => blob[s][id].of # NoVersion
SourceFilled(c, p) ==
    xfer[c][p].pc \in Live /\ xfer[c][p].src.id = NoVersion => xfer[c][p].src.data.of # NoVersion
There(s, id) == (\E e \in Entries(index[s].versions) : e.id = id) /\ blob[s][id] # NoBlob
\* What the push to p has made of p's copy.
Pushed(c, p) ==
    LET id == call[c].entry.id
        s == Into(c, p)
        x == xfer[c][p]
    IN  call[c].op = "put" =>
          /\ x.pc \in Live => x.entry = call[c].entry
          /\ x.pc \in {"open", "ready", "recv"} => \A e \in Entries(index[s].versions) : e.id # id
          /\ x.pc \in {"check", "good"} => There(s, id)
          /\ x.pc \in {"open"} \cup Live => <<s, id>> \notin confirmed
\* The id that a share's recipient drew is no put's.
Drawn(c, p) ==
    LET x == xfer[c][p]
    IN  call[c].op = "share" /\ x.pc \in {"recv", "check", "good"} =>
          /\ \A d \in Clients : call[d].op = "put" => call[d].entry.id # x.entry.id
          /\ \A r \in confirmed : r[2] # x.entry.id
ConfirmedThere == \A r \in confirmed : ~AtHome(r[1]) /\ There(r[1], r[2])
StayInv == /\ \A c \in Clients : Begun(c)
           /\ \A c \in Clients, p \in Nodes : Elsewhere(c, p) /\ SourceFilled(c, p)
           /\ BlobsFilled
           /\ PutsDiffer
           /\ \A c \in Clients, p \in Nodes : Pushed(c, p) /\ Drawn(c, p)
           /\ ConfirmedThere

-----------------------------------------------------------------------------
(* What the steps that change a disk change of it, without a version limit.*)
(***************************************************************************)
\* At most version j of shelf s.
ChangesOnly(s, j) == \A t \in Shelves, i \in VersionIDs : <<t, i>> # <<s, j>> => Leaves(t, i)
\* A stream of somebody else, whose open file may have lost its name.
Stays(d, q) ==
    LET x == xfer[d][q]
        y == xfer'[d][q]
    IN  /\ y.pc = x.pc /\ y.entry = x.entry /\ y.n = x.n /\ y.want = x.want /\ y.res = x.res
        /\ \/ y.src = x.src
           \/ /\ x.src.id \in VersionIDs /\ blob'[x.src.shelf][x.src.id] = NoBlob
              /\ y.src.id = NoVersion /\ y.src.data = blob[x.src.shelf][x.src.id]
BlobsOnlyGo == \A t \in Shelves, i \in VersionIDs : blob'[t][i] \in {blob[t][i], NoBlob}
\* The receiver of a body takes the next of it, as version j.
Fills(c, p, j) ==
    LET x == xfer[c][p]
        y == xfer'[c][p]
        s == Into(c, p)
        drawn == call[c].op = "share" /\ x.pc = "ready"
    IN  /\ UNCHANGED <<call, confirmed>> /\ OthersSame(c, p)
        /\ j \in VersionIDs /\ ChangesOnly(s, j)
        /\ x.pc \in {"ready", "recv"} /\ y.pc \in {"recv", "check"} /\ y.entry.id = j
        /\ IF drawn THEN j \in Fresh ELSE j = x.entry.id
        /\ call[c].op # "share" => y.entry = x.entry
        /\ y.src = x.src /\ y.want = x.want /\ y.res = x.res
        /\ blob'[s][j] # NoBlob
        /\ y.pc = "recv" => index' = index
        /\ y.pc = "recv" => y.n = x.n \/ (x.n < x.want /\ y.n = x.n + 1)
        /\ y.pc = "check" => BodyOver(x) /\ y.n = x.n /\ \E e \in Entries(index'[s].versions) : e.id = j

\* Detach, seen from a stream.
LEMMA StreamStays ==
  ASSUME TypeOK, OwnersKeyOnly,
         NEW next \in [Clients -> [Nodes -> TransferRecord]],
         NEW s \in Shelves, NEW ids \in SUBSET VersionIDs,
         xfer' = AfterDetach(next, s, ids), \A i \in ids : blob'[s][i] = NoBlob,
         NEW d \in Clients, NEW q \in Nodes, next[d][q] = xfer[d][q]
  PROVE  Stays(d, q)
<1>1. /\ xfer'[d][q].pc = xfer[d][q].pc /\ xfer'[d][q].entry = xfer[d][q].entry
      /\ xfer'[d][q].n = xfer[d][q].n /\ xfer'[d][q].want = xfer[d][q].want
      /\ xfer'[d][q].res = xfer[d][q].res
  BY DetachKeeps
<1>2. xfer'[d][q].src =
        IF xfer[d][q].src.id \in ids /\ xfer[d][q].src.shelf = s
          THEN [NoFile EXCEPT !.data = blob[s][xfer[d][q].src.id]]
          ELSE xfer[d][q].src
  BY DetachedSource
<1>3. CASE xfer[d][q].src.id \in ids /\ xfer[d][q].src.shelf = s
  <2>1. xfer'[d][q].src.id = NoVersion /\ xfer'[d][q].src.data = blob[s][xfer[d][q].src.id]
    BY <1>2, <1>3 DEF NoFile
  <2>2. QED
    BY <1>1, <1>3, <2>1 DEF Stays
<1>4. CASE ~(xfer[d][q].src.id \in ids /\ xfer[d][q].src.shelf = s)
  BY <1>1, <1>2, <1>4 DEF Stays
<1>5. QED
  BY <1>3, <1>4

\* Nothing was open under the names that a shelf without limit prunes: none.
LEMMA NothingDetached ==
  ASSUME NEW next \in [Clients -> [Nodes -> TransferRecord]], NEW s, xfer' = AfterDetach(next, s, {})
  PROVE  xfer' = next
<1>1. \A c \in Clients, p \in Nodes : Detached(next[c][p], s, {}) = next[c][p]
  BY DEF Detached
<1>2. QED
  BY <1>1 DEF AfterDetach

LEMMA DeleteChanges ==
  ASSUME ServerInv, NEW c \in Clients, Delete(c)
  PROVE  /\ UNCHANGED <<call, confirmed>> /\ BlobsOnlyGo
         /\ call[c].pc = "idle" /\ "delete" \in Ops[c]
         /\ \E k \in Keys : \A t \in Shelves, i \in VersionIDs : t # Own(c, k) => Leaves(t, i)
         /\ \A d \in Clients, q \in Nodes : Stays(d, q)
<1>1. PICK k \in Keys :
        LET s == Own(c, k)
            ids == IdsOf(index[s].versions)
        IN  /\ Idle(c, "delete")
            /\ index' = [index EXCEPT ![s] = EmptyIndex]
            /\ blob' = [blob EXCEPT ![s] = Without(@, ids)]
            /\ xfer' = AfterDetach(xfer, s, ids)
            /\ UNCHANGED <<call, confirmed>>
  BY DEF Delete, Detach, AfterDetach
<1> DEFINE s == Own(c, k)
           ids == IdsOf(index[s].versions)
<1>2. TypeOK /\ OwnersKeyOnly
  BY DEF ServerInv
<1>3. s \in Shelves
  BY OwnShelf
<1>4. ids \in SUBSET VersionIDs
  BY <1>2, <1>3, IndexTyped
<1>5. \A i \in VersionIDs : Without(blob[s], ids)[i] = IF i \in ids THEN NoBlob ELSE blob[s][i]
  BY <1>2, <1>3, IndexTyped, WithoutBlobs
<1>6. /\ xfer' = AfterDetach(xfer, s, ids)
      /\ index' = [index EXCEPT ![s] = EmptyIndex]
      /\ blob' = [blob EXCEPT ![s] = Without(blob[s], ids)]
      /\ UNCHANGED <<call, confirmed>>
      /\ call[c].pc = "idle" /\ "delete" \in Ops[c]
  BY <1>1 DEF Idle
<1> HIDE DEF ids
<1>7. /\ \A t \in Shelves : t # s => index'[t] = index[t] /\ blob'[t] = blob[t]
      /\ \A i \in VersionIDs : blob'[s][i] = IF i \in ids THEN NoBlob ELSE blob[s][i]
  <2> HIDE DEF s
  <2>1. QED
    BY <1>2, <1>3, <1>5, <1>6 DEF TypeOK
<1>8. \A t \in Shelves, i \in VersionIDs : t # s => Leaves(t, i)
  BY <1>7, ShelfLeft
<1>9. BlobsOnlyGo
  BY <1>7 DEF BlobsOnlyGo
<1>10. xfer \in [Clients -> [Nodes -> TransferRecord]] /\ \A i \in ids : blob'[s][i] = NoBlob
  BY <1>2, <1>4, <1>7 DEF TypeOK
<1>11. \A d \in Clients, q \in Nodes : Stays(d, q)
  <2> HIDE DEF s
  <2> TAKE d \in Clients, q \in Nodes
  <2>1. QED
    BY <1>2, <1>3, <1>4, <1>6, <1>10, StreamStays
<1>12. QED
  BY <1>6, <1>8, <1>9, <1>11

\* The local write of a put or of a loose share.
LEMMA WriteChanges ==
  ASSUME MaxVersions = 0, ServerInv, NEW c \in Clients, NEW k \in Keys, NEW id \in Fresh,
         NEW next \in [Clients -> [Nodes -> TransferRecord]], WriteLocal(c, k, id, next)
  PROVE  /\ xfer' = next /\ UNCHANGED confirmed
         /\ id \in VersionIDs /\ ChangesOnly(Own(c, k), id)
         /\ blob'[Own(c, k)][id].of = id
         /\ \E f \in Entries(index'[Own(c, k)].versions) : f.id = id
<1> DEFINE s == Own(c, k)
           e == NewEntry(c, k, id)
           idx == NewIndex(c, k, id)
           ids == Pruned(idx)
           b == [of |-> id, for |-> At[c], n |-> Blocks]
           blobs == [blob[s] EXCEPT ![id] = b]
<1>1. /\ index' = [index EXCEPT ![s] = pruneOldestVersions(idx)]
      /\ blob' = [blob EXCEPT ![s] = Without(blobs, ids)]
      /\ xfer' = AfterDetach(next, s, ids)
      /\ UNCHANGED confirmed
  BY DEF WriteLocal, Save, Detach, AfterDetach, NewIndex, NewEntry
<1>2. TypeOK /\ s \in Shelves /\ id \in VersionIDs
  BY OwnShelf DEF ServerInv, Fresh
<1>3. /\ idx \in Index /\ b \in Blob /\ e.id = id
      /\ Entries(idx.versions) = Entries(index[s].versions) \cup {e}
  <2>1. e.id = id
    BY DEF NewEntry
  <2>2. /\ idx \in Index /\ b \in Blob
        /\ Entries(idx.versions) = Entries(index[s].versions) \cup {e}
    BY <1>2, NewEntryOK, ZenonT(60)
  <2>3. QED
    BY <2>1, <2>2
<1>4. b.of = id
  OBVIOUS
<1> HIDE DEF s, e, idx, b
<1>5. ids = {} /\ pruneOldestVersions(idx) = idx
  BY <1>3, PrunedIndex
<1>6. /\ blobs \in [VersionIDs -> Blob \cup {NoBlob}]
      /\ \A i \in VersionIDs : blobs[i] = IF i = id THEN b ELSE blob[s][i]
  BY <1>2, <1>3, IndexTyped
<1> HIDE DEF blobs
<1>7. Without(blobs, ids) = blobs
  BY <1>5, <1>6 DEF Without
<1> HIDE DEF ids
<1>8. /\ \A t \in Shelves : t # s => index'[t] = index[t] /\ blob'[t] = blob[t]
      /\ \A i \in VersionIDs : blob'[s][i] = IF i = id THEN b ELSE blob[s][i]
      /\ index'[s] = idx
  BY <1>1, <1>2, <1>5, <1>6, <1>7 DEF TypeOK
<1>9. ChangesOnly(s, id)
  <2> SUFFICES ASSUME NEW t \in Shelves, NEW i \in VersionIDs, <<t, i>> # <<s, id>>
               PROVE  Leaves(t, i)
    BY DEF ChangesOnly
  <2>1. CASE t # s
    BY <1>8, <2>1, ShelfLeft
  <2>2. CASE t = s /\ i # id
    BY <1>3, <1>8, <2>2 DEF Leaves
  <2>3. QED
    BY <2>1, <2>2
<1>10. xfer' = next
  BY <1>1, <1>5, NothingDetached
<1>11. e \in Entries(index'[s].versions) /\ blob'[s][id].of = id
  BY <1>2, <1>3, <1>4, <1>8
<1>12. QED
  BY <1>1, <1>2, <1>3, <1>9, <1>10, <1>11 DEF s

LEMMA ReceiveFills ==
  ASSUME ServerInv, NEW c \in Clients, NEW p \in Nodes, Receive(c, p)
  PROVE  \E j : Fills(c, p, j) /\ blob'[Into(c, p)][j].of = Body(xfer[c][p].src).of
<1> DEFINE x == xfer[c][p]
           y == xfer'[c][p]
           s == Into(c, p)
           own == call[c].op = "share"
           keyOf == IF own THEN p ELSE Body(x.src).for
           b == [of |-> Body(x.src).of, for |-> keyOf, n |-> 0]
<1>1. PICK id \in IF own THEN Fresh ELSE {x.entry.id} :
        LET e == IF own THEN [id |-> id, seq |-> nextSeq(index[s]), data |-> NoContent]
                 ELSE x.entry
        IN  /\ x.pc = "ready"
            /\ blob' = [blob EXCEPT ![s][id] = b]
            /\ xfer' = [xfer EXCEPT ![c][p].pc = "recv", ![c][p].entry = e]
            /\ UNCHANGED <<index, call, confirmed>>
  <2>1. x \in TransferRecord /\ xfer \in [Clients -> [Nodes -> TransferRecord]]
    BY DEF ServerInv, TypeOK
  <2>2. QED
    BY <2>1 DEF Receive, TransferRecord
<1> DEFINE e == IF own THEN [id |-> id, seq |-> nextSeq(index[s]), data |-> NoContent]
                ELSE x.entry
<1>2. TypeOK /\ x \in TransferRecord /\ s \in Shelves /\ Body(x.src) \in Blob
  BY <1>1, LiveTransfer DEF ServerInv, Live
<1>3. id \in VersionIDs /\ (own => id \in Fresh)
  <2>1. ~own => x.entry \in Entry
    BY <1>1, LiveTransfer DEF Live
  <2>2. (own => id \in Fresh) /\ (~own => id = x.entry.id)
    OBVIOUS
  <2>3. x.entry \in Entry => x.entry.id \in VersionIDs
    BY EntryTypes
  <2>4. QED
    BY <2>1, <2>2, <2>3 DEF Fresh
<1>4. (~own => e = x.entry /\ id = x.entry.id) /\ e.id = id
  OBVIOUS
<1>5. b.of = Body(x.src).of /\ b # NoBlob
  BY FileServerAssumption DEF NoBlob
<1> HIDE DEF s, b, e
<1>6. /\ blob' = [blob EXCEPT ![s][id] = b]
      /\ xfer' = [xfer EXCEPT ![c][p].pc = "recv", ![c][p].entry = e]
      /\ x.pc = "ready"
      /\ UNCHANGED <<index, call, confirmed>>
  BY <1>1 DEF e
<1>7. /\ \A t \in Shelves : t # s => blob'[t] = blob[t]
      /\ \A i \in VersionIDs : i # id => blob'[s][i] = blob[s][i]
      /\ blob'[s][id] = b
  BY <1>2, <1>3, <1>6 DEF TypeOK
<1>8. ChangesOnly(s, id)
  <2> SUFFICES ASSUME NEW t \in Shelves, NEW i \in VersionIDs, <<t, i>> # <<s, id>>
               PROVE  Leaves(t, i)
    BY DEF ChangesOnly
  <2>1. blob'[t][i] = blob[t][i]
    BY <1>7
  <2>2. QED
    BY <1>6, <2>1 DEF Leaves
<1>9. /\ OthersSame(c, p)
      /\ y.pc = "recv" /\ y.entry = e /\ y.n = x.n /\ y.want = x.want
      /\ y.src = x.src /\ y.res = x.res
  BY <1>2, <1>6 DEF TypeOK, TransferRecord, OthersSame
<1>10. IF own THEN id \in Fresh ELSE id = x.entry.id
  BY <1>3, <1>4
<1>11. Fills(c, p, id)
  BY <1>3, <1>4, <1>5, <1>6, <1>7, <1>8, <1>9, <1>10 DEF Fills, s
<1>12. QED
  BY <1>5, <1>7, <1>11 DEF s

LEMMA BlockFills ==
  ASSUME ServerInv, NEW c \in Clients, NEW p \in Nodes, Block(c, p)
  PROVE  \E j : /\ Fills(c, p, j)
                /\ blob'[Into(c, p)][j].of = blob[Into(c, p)][j].of /\ blob[Into(c, p)][j] # NoBlob
<1> DEFINE x == xfer[c][p]
           y == xfer'[c][p]
           s == Into(c, p)
           id == x.entry.id
<1>1. /\ x.pc = "recv" /\ x.n < x.want /\ UNCHANGED <<index, call, confirmed>>
      /\ blob' = [blob EXCEPT ![s][id].n = x.n + 1]
      /\ xfer' = [xfer EXCEPT ![c][p].n = x.n + 1]
  BY DEF Block
<1>2. TypeOK /\ x \in TransferRecord
  BY DEF ServerInv, TypeOK
<1>3. s \in Shelves /\ id \in VersionIDs /\ blob[s][id] # NoBlob
  BY <1>1, ArrivingId
<1>4. ServerInv'
  BY BlockOK
<1>5. blob[s][id] \in Blob
  BY <1>2, <1>3 DEF TypeOK
<1> HIDE DEF s, id
<1>6. /\ \A t \in Shelves : t # s => blob'[t] = blob[t]
      /\ \A i \in VersionIDs : i # id => blob'[s][i] = blob[s][i]
      /\ blob'[s][id] = [blob[s][id] EXCEPT !.n = x.n + 1]
  BY <1>1, <1>2, <1>3 DEF TypeOK
<1>7. ChangesOnly(s, id)
  <2> SUFFICES ASSUME NEW t \in Shelves, NEW i \in VersionIDs, <<t, i>> # <<s, id>>
               PROVE  Leaves(t, i)
    BY DEF ChangesOnly
  <2>1. blob'[t][i] = blob[t][i]
    BY <1>6
  <2>2. QED
    BY <1>1, <2>1 DEF Leaves
<1>8. /\ OthersSame(c, p)
      /\ y.pc = "recv" /\ y.entry = x.entry /\ y.n = x.n + 1 /\ y.want = x.want
      /\ y.src = x.src /\ y.res = x.res
  BY <1>1, <1>2 DEF TypeOK, TransferRecord, OthersSame
<1>9. blob'[s][id].of = blob[s][id].of /\ blob'[s][id].n = x.n + 1
  BY <1>5, <1>6 DEF Blob
<1>10. blob'[s][id] # NoBlob
  <2>1. x.n \in 0 .. Blocks /\ Blocks \in Nat
    BY <1>2, FileServerAssumption DEF TransferRecord
  <2>2. x.n + 1 # -1
    BY <2>1
  <2>3. QED
    BY <1>9, <2>2, BlobTypes
<1>11. IF call[c].op = "share" /\ x.pc = "ready" THEN id \in Fresh ELSE id = x.entry.id
  BY <1>1 DEF id
<1>12. Fills(c, p, id)
  BY <1>1, <1>3, <1>7, <1>8, <1>10, <1>11 DEF Fills, s, id
<1>13. QED
  BY <1>3, <1>9, <1>12 DEF s

LEMMA FinishBodyFills ==
  ASSUME MaxVersions = 0, ServerInv, NEW c \in Clients, NEW p \in Nodes, FinishBody(c, p)
  PROVE  \E j : Fills(c, p, j) /\ blob' = blob
<1> DEFINE x == xfer[c][p]
           y == xfer'[c][p]
           s == Into(c, p)
           id == x.entry.id
           own == call[c].op = "share"
           e == IF own THEN [x.entry EXCEPT !.data = [of |-> Body(x.src).of, n |-> x.n]]
                       ELSE x.entry
           idx == IF own THEN AppendLatest(index[s], e) ELSE UpsertLatest(index[s], e)
           ids == Pruned(idx)
           next == [xfer EXCEPT ![c][p].pc = "check", ![c][p].entry = e]
<1>1. /\ x.pc = "recv" /\ BodyOver(x)
      /\ index' = [index EXCEPT ![s] = pruneOldestVersions(idx)]
      /\ blob' = [blob EXCEPT ![s] = Without(blob[s], ids)]
      /\ xfer' = AfterDetach(next, s, ids)
      /\ UNCHANGED <<call, confirmed>>
  BY DEF FinishBody, Save, Detach, AfterDetach
<1>2. TypeOK /\ x \in TransferRecord
  BY DEF ServerInv, TypeOK
<1>3. id \in VersionIDs /\ blob[s][id] # NoBlob /\ s \in Shelves
  BY <1>1, ArrivingId
<1>4. /\ e \in Entry /\ idx \in Index /\ e.id = id
      /\ Entries(idx.versions) \subseteq Entries(index[s].versions) \cup {e}
      /\ {f \in Entries(index[s].versions) : f.id # e.id} \cup {e} \subseteq Entries(idx.versions)
  BY <1>1, FinishedEntry
<1>5. ~own => e = x.entry
  OBVIOUS
<1>6. /\ next \in [Clients -> [Nodes -> TransferRecord]]
      /\ next[c][p].pc = "check" /\ next[c][p].entry = e /\ next[c][p].n = x.n
      /\ next[c][p].want = x.want /\ next[c][p].src = x.src /\ next[c][p].res = x.res
      /\ \A d \in Clients, q \in Nodes : <<d, q>> # <<c, p>> => next[d][q] = xfer[d][q]
  <2> HIDE DEF e
  <2>1. e \in EntryOrNone
    BY <1>4, EntryTypes
  <2>2. QED
    BY <1>2, <2>1 DEF TypeOK, TransferRecord, EntryOrNone
<1> HIDE DEF e, idx, next, s, id
<1>7. ids = {} /\ pruneOldestVersions(idx) = idx
  BY <1>4, PrunedIndex
<1>8. blob' = blob
  <2>1. Without(blob[s], {}) = blob[s]
    BY <1>2, <1>3 DEF Without, TypeOK
  <2>2. blob' = [blob EXCEPT ![s] = blob[s]]
    BY <1>1, <1>7, <2>1
  <2>3. QED
    BY <1>2, <1>3, <2>2 DEF TypeOK
<1>9. index'[s] = idx /\ \A t \in Shelves : t # s => index'[t] = index[t]
  BY <1>1, <1>2, <1>3, <1>7 DEF TypeOK
<1>10. xfer' = next
  BY <1>1, <1>6, <1>7, NothingDetached
<1> HIDE DEF ids
<1>11. ChangesOnly(s, id)
  <2> SUFFICES ASSUME NEW t \in Shelves, NEW i \in VersionIDs, <<t, i>> # <<s, id>>
               PROVE  Leaves(t, i)
    BY DEF ChangesOnly
  <2>1. CASE t # s
    BY <1>8, <1>9, <2>1 DEF Leaves
  <2>2. CASE t = s /\ i # id
    <3>1. \A f : f.id = i => (f \in Entries(index[s].versions) <=> f \in Entries(idx.versions))
      BY <1>4, <2>2
    <3>2. QED
      BY <1>8, <1>9, <2>2, <3>1 DEF Leaves
  <2>3. QED
    BY <2>1, <2>2
<1>12. /\ OthersSame(c, p)
       /\ y.pc = "check" /\ y.entry = e /\ y.n = x.n /\ y.want = x.want
       /\ y.src = x.src /\ y.res = x.res
  BY <1>6, <1>10 DEF OthersSame
<1>13. blob'[s][id] # NoBlob /\ \E f \in Entries(index'[s].versions) : f.id = id
  BY <1>3, <1>4, <1>8, <1>9
<1>14. IF own /\ x.pc = "ready" THEN id \in Fresh ELSE id = x.entry.id
  BY <1>1 DEF id
<1>15. Fills(c, p, id)
  BY <1>1, <1>3, <1>4, <1>5, <1>8, <1>11, <1>12, <1>13, <1>14 DEF Fills, s, id
<1>16. QED
  BY <1>8, <1>15

LEMMA CheckCountChanges ==
  ASSUME ServerInv, NEW c \in Clients, NEW p \in Nodes, CheckCount(c, p)
  PROVE  LET x == xfer[c][p]
             y == xfer'[c][p]
         IN  /\ UNCHANGED <<call, confirmed>> /\ BlobsOnlyGo
             /\ ChangesOnly(Into(c, p), x.entry.id)
             /\ \A d \in Clients, q \in Nodes : <<d, q>> # <<c, p>> => Stays(d, q)
             /\ x.pc = "check" /\ y.res = x.res
             /\ \/ /\ y.pc = "good" /\ x.n = x.want /\ UNCHANGED <<index, blob>>
                   /\ y.entry = x.entry /\ y.n = x.n /\ y.want = x.want /\ y.src = x.src
                \/ y.pc = "bad" /\ x.n # x.want
<1> DEFINE x == xfer[c][p]
           y == xfer'[c][p]
           s == Into(c, p)
           id == x.entry.id
           ids == {id}
           next == [xfer EXCEPT ![c][p].pc = "bad"]
<1>1. /\ x.pc = "check" /\ UNCHANGED <<call, confirmed>>
      /\ TypeOK /\ OwnersKeyOnly /\ x \in TransferRecord /\ s \in Shelves
  BY IntoShelf DEF CheckCount, ServerInv, TypeOK
<1>2. CASE UNCHANGED disk /\ ((x.n = x.want /\ Become(c, p, "good")) \/ (x.n # x.want /\ Become(c, p, "bad")))
  <2>1. /\ OthersSame(c, p)
        /\ y.entry = x.entry /\ y.n = x.n /\ y.want = x.want /\ y.src = x.src /\ y.res = x.res
        /\ (y.pc = "good" /\ x.n = x.want) \/ (y.pc = "bad" /\ x.n # x.want)
    <3>1. PICK pc \in {"good", "bad"} :
            /\ xfer' = [xfer EXCEPT ![c][p].pc = pc]
            /\ (pc = "good" /\ x.n = x.want) \/ (pc = "bad" /\ x.n # x.want)
      BY <1>2 DEF Become
    <3>2. OthersSame(c, p)
      BY <1>1, <3>1 DEF TypeOK, OthersSame
    <3>3. y = [x EXCEPT !.pc = pc]
      BY <1>1, <3>1 DEF TypeOK
    <3>4. /\ y.pc = pc
          /\ y.entry = x.entry /\ y.n = x.n /\ y.want = x.want /\ y.src = x.src /\ y.res = x.res
      BY <1>1, <3>3 DEF TransferRecord
    <3>5. QED
      BY <3>1, <3>2, <3>4
  <2>2. UNCHANGED <<index, blob>> /\ BlobsOnlyGo
    BY <1>2 DEF disk, BlobsOnlyGo
  <2>3. ChangesOnly(s, id)
    BY <2>2 DEF ChangesOnly, Leaves
  <2>4. \A d \in Clients, q \in Nodes : <<d, q>> # <<c, p>> => Stays(d, q)
    BY <2>1 DEF OthersSame, Stays
  <2>5. QED
    BY <1>1, <2>1, <2>2, <2>3, <2>4
<1>3. CASE /\ x.n # x.want
           /\ id \in IdsOf(index[s].versions)
           /\ index' = [index EXCEPT ![s] = RemoveVersion(index[s], id)]
           /\ blob' = [blob EXCEPT ![s] = Without(blob[s], ids)]
           /\ xfer' = AfterDetach(next, s, ids)
  <2>1. id \in VersionIDs /\ ids \in SUBSET VersionIDs
    BY <1>1, <1>3, IndexTyped
  <2>2. \A i \in VersionIDs : Without(blob[s], ids)[i] = IF i \in ids THEN NoBlob ELSE blob[s][i]
    BY <1>1, IndexTyped, WithoutBlobs
  <2>3. /\ Entries(RemoveVersion(index[s], id).versions) \subseteq Entries(index[s].versions)
        /\ {f \in Entries(index[s].versions) : f.id # id}
             \subseteq Entries(RemoveVersion(index[s], id).versions)
    BY <1>1, <1>3, IndexTyped, RemoveIndex
  <2> HIDE DEF s, id
  <2>4. /\ \A t \in Shelves : t # s => index'[t] = index[t] /\ blob'[t] = blob[t]
        /\ index'[s] = RemoveVersion(index[s], id)
        /\ \A i \in VersionIDs : blob'[s][i] = IF i = id THEN NoBlob ELSE blob[s][i]
    BY <1>1, <1>3, <2>2 DEF TypeOK
  <2>5. ChangesOnly(s, id)
    <3> SUFFICES ASSUME NEW t \in Shelves, NEW i \in VersionIDs, <<t, i>> # <<s, id>>
                 PROVE  Leaves(t, i)
      BY DEF ChangesOnly
    <3>1. CASE t # s
      BY <2>4, <3>1, ShelfLeft
    <3>2. CASE t = s /\ i # id
      BY <2>3, <2>4, <3>2 DEF Leaves
    <3>3. QED
      BY <3>1, <3>2
  <2>6. BlobsOnlyGo /\ \A i \in ids : blob'[s][i] = NoBlob
    BY <2>1, <2>4 DEF BlobsOnlyGo
  <2>7. /\ next \in [Clients -> [Nodes -> TransferRecord]]
        /\ next[c][p].pc = "bad" /\ next[c][p].res = x.res
        /\ \A d \in Clients, q \in Nodes : <<d, q>> # <<c, p>> => next[d][q] = xfer[d][q]
    BY <1>1 DEF TypeOK, TransferRecord
  <2> HIDE DEF next, ids
  <2>8. y.pc = "bad" /\ y.res = x.res
    BY <1>1, <1>3, <2>1, <2>7, DetachKeeps, SMTT(20), ZenonT(60)
  <2>9. \A d \in Clients, q \in Nodes : <<d, q>> # <<c, p>> => Stays(d, q)
    <3> SUFFICES ASSUME NEW d \in Clients, NEW q \in Nodes, <<d, q>> # <<c, p>>
                 PROVE  Stays(d, q)
      OBVIOUS
    <3>1. next[d][q] = xfer[d][q]
      BY <2>7
    <3>2. QED
      BY <1>1, <1>3, <2>1, <2>6, <2>7, <3>1, StreamStays
  <2>10. QED
    BY <1>1, <1>3, <2>5, <2>6, <2>8, <2>9 DEF s, id
<1>4. \/ UNCHANGED disk /\ ((x.n = x.want /\ Become(c, p, "good")) \/ (x.n # x.want /\ Become(c, p, "bad")))
      \/ /\ x.n # x.want
         /\ id \in IdsOf(index[s].versions)
         /\ index' = [index EXCEPT ![s] = RemoveVersion(index[s], id)]
         /\ blob' = [blob EXCEPT ![s] = Without(blob[s], ids)]
         /\ xfer' = AfterDetach(next, s, ids)
  BY DEF CheckCount, Detach, AfterDetach
<1>5. QED
  BY <1>2, <1>3, <1>4

-----------------------------------------------------------------------------
(* What a step leaves of the copies that pushes have made.                 *)
(***************************************************************************)
\* A stream that goes on as it was, or breaks, or ends.
Passing(c, p) ==
    LET x == xfer[c][p]
        y == xfer'[c][p]
    IN  /\ SameCall(c) /\ StreamKept(c, p)
        /\ x.pc \in {"idle", "end"} => y.pc \in {"idle", "end"}
        /\ \/ y.pc \notin Live \/ y.src = x.src
           \/ x.src.id \in VersionIDs /\ y.src.data = blob[x.src.shelf][x.src.id]
\* One that is over, or about to begin, of a call that is no put.
Starting(c, p) ==
    LET y == xfer'[c][p]
    IN  \/ y.pc \in {"idle", "end"}
        \/ y.pc = "open" /\ p # At[c] /\ call'[c].op \notin {"none", "put"}
StreamOK(c, p) == Elsewhere(c, p) /\ SourceFilled(c, p) /\ Pushed(c, p) /\ Drawn(c, p)

LEMMA StartingOK ==
  ASSUME NEW c \in Clients, NEW p \in Nodes, Starting(c, p) PROVE StreamOK(c, p)'
BY DEF Starting, StreamOK, Elsewhere, SourceFilled, Pushed, Drawn, Live

LEMMA BegunStays ==
  ASSUME NEW c \in Clients, Begun(c), call'[c].op = call[c].op,
         call'[c].left \subseteq call[c].left,
         \/ call'[c].pc \in {call[c].pc, "returned", "gone"}
         \/ call[c].pc \in {"try", "fetch"} /\ call'[c].pc \in {"try", "fetch"}
  PROVE  Begun(c)'
BY DEF Begun

LEMMA SourceStaysFilled ==
  ASSUME ServerInv, BlobsFilled, NEW c \in Clients, NEW p \in Nodes, SourceFilled(c, p),
         Passing(c, p)
  PROVE  SourceFilled(c, p)'
<1> DEFINE x == xfer[c][p]
           y == xfer'[c][p]
<1> SUFFICES ASSUME y.pc \in Live, y.src.id = NoVersion PROVE y.src.data.of # NoVersion
  BY DEF SourceFilled
<1>1. x.pc \in Live
  BY DEF Passing, StreamKept, Live
<1>2. CASE y.src = x.src
  BY <1>1, <1>2 DEF SourceFilled
<1>3. CASE x.src.id \in VersionIDs /\ y.src.data = blob[x.src.shelf][x.src.id]
  <2>1. SourceOK(c, x.src) /\ x.src.id # NoVersion
    BY <1>1, <1>3, NoVersionAssumption DEF ServerInv, TransferOK
  <2>2. x.src.shelf \in Shelves /\ blob[x.src.shelf][x.src.id] # NoBlob
    BY <2>1 DEF SourceOK
  <2>3. QED
    BY <1>3, <2>2 DEF BlobsFilled
<1>4. QED
  BY <1>2, <1>3 DEF Passing

LEMMA PushedStays ==
  ASSUME NEW c \in Clients, NEW p \in Nodes, Pushed(c, p), CallKept(c), StreamKept(c, p),
         call[c].op = "put" /\ xfer[c][p].pc \in {"open"} \cup Live =>
           /\ Leaves(Into(c, p), call[c].entry.id)
           /\ <<Into(c, p), call[c].entry.id>> \notin confirmed'
  PROVE  Pushed(c, p)'
<1> DEFINE id == call[c].entry.id
           s == Into(c, p)
           x == xfer[c][p]
           y == xfer'[c][p]
<1>1. s' = s /\ call'[c].op = call[c].op /\ call'[c].entry = call[c].entry
  BY SameInto DEF CallKept, SameCall
<1>2. CASE call[c].op # "put"
  BY <1>1, <1>2 DEF Pushed
<1>3. CASE call[c].op = "put" /\ y.pc \notin {"open"} \cup Live
  BY <1>3 DEF Pushed, Live
<1>4. CASE call[c].op = "put" /\ y.pc \in {"open"} \cup Live
  <2>1. y.pc = x.pc /\ y.entry = x.entry
    BY <1>4 DEF StreamKept, Live
  <2>2. /\ blob'[s][id] = blob[s][id] /\ <<s, id>> \notin confirmed'
        /\ \A f : f.id = id => (f \in Entries(index[s].versions)
                                  <=> f \in Entries(index'[s].versions))
    BY <1>4, <2>1 DEF Leaves
  <2> HIDE DEF s
  <2>3. /\ x.pc \in Live => x.entry = call[c].entry
        /\ x.pc \in {"open", "ready", "recv"} => \A f \in Entries(index[s].versions) : f.id # id
        /\ x.pc \in {"check", "good"} =>
             (\E f \in Entries(index[s].versions) : f.id = id) /\ blob[s][id] # NoBlob
    BY <1>4 DEF Pushed, There, s
  <2>4. y.pc \in {"open", "ready", "recv"} => \A f \in Entries(index'[s].versions) : f.id # id
    BY <2>1, <2>2, <2>3
  <2>5. y.pc \in {"check", "good"} =>
          (\E f \in Entries(index'[s].versions) : f.id = id) /\ blob'[s][id] # NoBlob
    BY <2>1, <2>2, <2>3
  <2>6. QED
    BY <1>1, <2>1, <2>2, <2>3, <2>4, <2>5 DEF Pushed, There, s
<1>5. QED
  BY <1>2, <1>3, <1>4

LEMMA ThereStays ==
  ASSUME NEW s, NEW id, There(s, id), Leaves(s, id)
  PROVE  (\E e \in Entries(index'[s].versions) : e.id = id) /\ blob'[s][id] # NoBlob
BY DEF There, Leaves

LEMMA ConfirmedStays ==
  ASSUME ConfirmedThere, UNCHANGED confirmed, \A r \in confirmed : Leaves(r[1], r[2])
  PROVE  ConfirmedThere'
<1>1. ASSUME NEW r \in confirmed
      PROVE  /\ ~AtHome(r[1]) /\ blob'[r[1]][r[2]] # NoBlob
             /\ \E e \in Entries(index'[r[1]].versions) : e.id = r[2]
  BY ThereStays DEF ConfirmedThere
<1>2. QED
  BY <1>1 DEF ConfirmedThere, There, AtHome

\* Puts and what they confirmed stay; some versions change that are neither.
LEMMA StayStep ==
  ASSUME ServerInv, StayInv, UNCHANGED confirmed,
         \A r \in confirmed : Leaves(r[1], r[2]),
         BlobsFilled',
         \A d \in Clients : Begun(d)' /\ (call'[d].op # "put" \/ CallKept(d)),
         \A d \in Clients, q \in Nodes :
           \/ StreamOK(d, q)'
           \/ Starting(d, q)
           \/ /\ Passing(d, q)
              /\ call[d].op = "put" /\ xfer[d][q].pc \in {"open"} \cup Live =>
                   Leaves(Into(d, q), call[d].entry.id)
  PROVE  StayInv'
<1>1. PutsDiffer'
  BY SMTT(20), ZenonT(60) DEF StayInv, PutsDiffer, CallKept, SameCall
<1>2. ASSUME NEW d \in Clients, NEW q \in Nodes, Passing(d, q),
             call[d].op = "put" /\ xfer[d][q].pc \in {"open"} \cup Live =>
               Leaves(Into(d, q), call[d].entry.id)
      PROVE  StreamOK(d, q)'
  <2>1. /\ Elsewhere(d, q) /\ SourceFilled(d, q) /\ Pushed(d, q) /\ Drawn(d, q)
        /\ BlobsFilled /\ SameCall(d) /\ StreamKept(d, q)
    BY <1>2 DEF StayInv, Passing
  <2>2. Elsewhere(d, q)'
    BY <1>2, <2>1 DEF Elsewhere, Passing, SameCall
  <2>3. SourceFilled(d, q)'
    BY <1>2, <2>1, SourceStaysFilled
  <2>4. Pushed(d, q)'
    <3>1. CASE call'[d].op # "put"
      BY <3>1 DEF Pushed
    <3>2. CASE call'[d].op = "put"
      <4>1. CallKept(d) /\ call[d].op = "put"
        BY <2>1, <3>2 DEF SameCall
      <4>2. xfer[d][q].pc \in {"open"} \cup Live => <<Into(d, q), call[d].entry.id>> \notin confirmed'
        BY <2>1, <4>1 DEF Pushed
      <4>3. QED
        BY <1>2, <2>1, <4>1, <4>2, PushedStays
    <3>3. QED
      BY <3>1, <3>2
  <2>5. Drawn(d, q)'
    <3> SUFFICES ASSUME call'[d].op = "share", xfer'[d][q].pc \in {"recv", "check", "good"}
                 PROVE  /\ \A w \in Clients : call'[w].op = "put" =>
                             call'[w].entry.id # xfer'[d][q].entry.id
                        /\ \A r \in confirmed' : r[2] # xfer'[d][q].entry.id
      BY DEF Drawn
    <3>1. /\ call[d].op = "share" /\ xfer[d][q].pc \in {"recv", "check", "good"}
          /\ xfer'[d][q].entry = xfer[d][q].entry
      BY <2>1 DEF SameCall, StreamKept
    <3>2. /\ \A w \in Clients : call[w].op = "put" => call[w].entry.id # xfer[d][q].entry.id
          /\ \A r \in confirmed : r[2] # xfer[d][q].entry.id
      BY <2>1, <3>1 DEF Drawn
    <3>3. ASSUME NEW w \in Clients, call'[w].op = "put"
          PROVE  call'[w].entry.id # xfer'[d][q].entry.id
      <4>1. CallKept(w)
        BY <3>3
      <4>2. call[w].op = "put" /\ call'[w].entry = call[w].entry
        BY <3>3, <4>1 DEF CallKept, SameCall
      <4>3. QED
        BY <3>1, <3>2, <4>2
    <3>4. QED
      BY <3>1, <3>2, <3>3
  <2>6. QED
    BY <2>2, <2>3, <2>4, <2>5 DEF StreamOK
<1>3. \A d \in Clients, q \in Nodes : StreamOK(d, q)'
  BY <1>2, StartingOK
<1>4. ConfirmedThere'
  BY ConfirmedStays DEF StayInv
<1>5. QED
  BY <1>1, <1>3, <1>4 DEF StayInv, StreamOK

-----------------------------------------------------------------------------
(* The steps that leave the disks alone.                                   *)
(***************************************************************************)
\* No version changes that a put's caller has been told of.
ConfirmedLeft == \A r \in confirmed : Leaves(r[1], r[2])

LEMMA SameStream ==
  ASSUME NEW d \in Clients, NEW q \in Nodes, call'[d] = call[d], xfer'[d][q] = xfer[d][q]
  PROVE  Passing(d, q)
BY DEF Passing, SameCall, StreamKept

LEMMA SameBegun ==
  ASSUME StayInv, NEW d \in Clients, call'[d] = call[d]
  PROVE  Begun(d)' /\ CallKept(d)
<1>1. Begun(d)
  BY DEF StayInv
<1>2. QED
  BY <1>1, BegunStays DEF CallKept, SameCall

LEMMA QuietStays ==
  ASSUME ServerInv, StayInv, UNCHANGED <<index, blob, confirmed>>,
         \A d \in Clients : Begun(d)' /\ (call'[d].op # "put" \/ CallKept(d)),
         \A d \in Clients, q \in Nodes : StreamOK(d, q)' \/ Starting(d, q) \/ Passing(d, q)
  PROVE  StayInv' /\ ConfirmedLeft
<1>1. \A s, i : Leaves(s, i)
  BY DEF Leaves
<1>2. BlobsFilled'
  BY DEF StayInv, BlobsFilled
<1>3. ConfirmedLeft
  BY <1>1 DEF ConfirmedLeft
<1>4. \A d \in Clients, q \in Nodes :
        \/ StreamOK(d, q)'
        \/ Starting(d, q)
        \/ /\ Passing(d, q)
           /\ call[d].op = "put" /\ xfer[d][q].pc \in {"open"} \cup Live =>
                Leaves(Into(d, q), call[d].entry.id)
  BY <1>1
<1>5. StayInv'
  BY <1>2, <1>3, <1>4, StayStep DEF ConfirmedLeft
<1>6. QED
  BY <1>3, <1>5

LEMMA CallStays ==
  ASSUME ServerInv, StayInv, NEW c \in Clients, UNCHANGED <<index, blob, confirmed>>,
         \A d \in Clients : d # c => call'[d] = call[d] /\ xfer'[d] = xfer[d],
         Begun(c)', call'[c].op # "put" \/ CallKept(c),
         \A p \in Nodes : Starting(c, p) \/ Passing(c, p)
  PROVE  StayInv' /\ ConfirmedLeft
<1>1. \A d \in Clients : Begun(d)' /\ (call'[d].op # "put" \/ CallKept(d))
  BY SameBegun
<1>2. \A d \in Clients, q \in Nodes : Starting(d, q) \/ Passing(d, q)
  BY SameStream
<1>3. QED
  BY <1>1, <1>2, QuietStays

LEMMA TransferStays ==
  ASSUME ServerInv, StayInv, NEW c \in Clients, NEW p \in Nodes,
         UNCHANGED <<index, blob, call, confirmed>>, OthersSame(c, p),
         StreamOK(c, p)' \/ Passing(c, p)
  PROVE  StayInv' /\ ConfirmedLeft
<1>1. \A d \in Clients : Begun(d)' /\ CallKept(d)
  BY SameBegun
<1>2. ASSUME NEW d \in Clients, NEW q \in Nodes PROVE StreamOK(d, q)' \/ Passing(d, q)
  <2>1. CASE d = c /\ q = p
    BY <2>1
  <2>2. CASE ~(d = c /\ q = p)
    <3>1. xfer'[d][q] = xfer[d][q] /\ call'[d] = call[d]
      BY <2>2 DEF OthersSame
    <3>2. QED
      BY <3>1, SameStream
  <2>3. QED
    BY <2>1, <2>2
<1>3. QED
  BY <1>1, <1>2, QuietStays

LEMMA ShareToStays ==
  ASSUME ServerInv, StayInv, NEW c \in Clients, call[c].pc \in {"idle", "stored"},
         NEW k, NEW dest, NEW id, NEW targets, At[c] \notin targets,
         ShareTo(c, k, dest, id, targets)
  PROVE  StayInv' /\ ConfirmedLeft
<1>1. TypeOK /\ Begun(c) /\ call[c].op = "none"
  BY DEF ServerInv, StayInv, Begun
<1>2. UNCHANGED <<index, blob, confirmed>>
  BY DEF ShareTo
<1>3. CASE /\ xfer' = Fan(c, targets)
           /\ call' = [call EXCEPT ![c].pc = "fan", ![c].op = "share", ![c].key = k,
                                   ![c].dest = dest, ![c].id = id, ![c].left = {}]
  <2>1. /\ call'[c].op = "share" /\ call'[c].pc = "fan"
        /\ \A d \in Clients : d # c => call'[d] = call[d]
    BY <1>1, <1>3 DEF TypeOK, CallRecord
  <2>2. /\ \A d \in Clients : d # c => xfer'[d] = xfer[d]
        /\ \A p \in Nodes : xfer'[c][p] = IF p \in targets THEN Opening ELSE NoTransfer
    BY <1>1, <1>3, FanTyped
  <2>3. \A p \in Nodes : Starting(c, p)
    BY <2>1, <2>2, NoTransferType DEF Starting
  <2>4. Begun(c)'
    BY <2>1 DEF Begun
  <2>5. QED
    BY <1>2, <2>1, <2>2, <2>3, <2>4, CallStays
<1>4. CASE call' = [call EXCEPT ![c].pc = "returned"] /\ UNCHANGED xfer
  <2>1. /\ call'[c].op = "none" /\ call'[c].pc = "returned"
        /\ \A d \in Clients : d # c => call'[d] = call[d]
    BY <1>1, <1>4 DEF TypeOK, CallRecord
  <2>2. \A p \in Nodes : xfer[c][p].pc \in {"idle", "end"}
    BY RestingTransfers DEF Resting
  <2>3. \A p \in Nodes : Starting(c, p)
    BY <1>4, <2>2 DEF Starting
  <2>4. Begun(c)'
    BY <2>1 DEF Begun
  <2>5. QED
    BY <1>2, <1>4, <2>1, <2>3, <2>4, CallStays
<1>5. QED
  BY <1>3, <1>4 DEF ShareTo

LEMMA ShareStays ==
  ASSUME ServerInv, StayInv, NEW c \in Clients, Share(c) \/ ShareStored(c)
  PROVE  StayInv' /\ ConfirmedLeft
<1>1. CASE Share(c)
  <2>1. PICK k \in Keys, dest \in Keys, id \in IdOrNone, targets \in Targets(c) :
          call[c].pc = "idle" /\ ShareTo(c, k, dest, id, targets)
    BY <1>1 DEF Share, Idle
  <2>2. At[c] \notin targets
    BY TargetsElsewhere
  <2>3. QED
    BY <2>1, <2>2, ShareToStays
<1>2. CASE ShareStored(c)
  <2>1. At[c] \notin call[c].left
    BY <1>2 DEF ShareStored, StayInv, Begun
  <2>2. QED
    BY <1>2, <2>1, ShareToStays DEF ShareStored
<1>3. QED
  BY <1>1, <1>2

LEMMA GetVersionStays ==
  ASSUME ServerInv, StayInv, NEW c \in Clients, GetVersion(c)
  PROVE  StayInv' /\ ConfirmedLeft
<1>1. PICK k \in Keys, id \in IdOrNone, connected \in Peers(At[c]) :
        LET has == index[Own(c, k)].latest # NoVersion
        IN  /\ Idle(c, IF id = NoVersion THEN "getLatest" ELSE "get")
            /\ call' = [call EXCEPT ![c] =
                 [NoCall EXCEPT !.pc = IF has THEN "here" ELSE "try", !.op = "get",
                                !.key = k, !.id = id, !.left = IF has THEN @ ELSE connected,
                                !.held = Confirmed(<<At[c], k>>, id)]]
            /\ UNCHANGED <<index, blob, xfer, confirmed>>
  BY DEF GetVersion
<1>2. /\ call'[c].op = "get" /\ call'[c].pc \in {"here", "try"}
      /\ call'[c].pc = "try" => call'[c].left = connected
      /\ \A d \in Clients : d # c => call'[d] = call[d]
  <2>1. call \in [Clients -> CallRecord]
    BY DEF ServerInv, TypeOK
  <2>2. QED
    BY <1>1, <2>1 DEF NoCall
<1>3. At[c] \notin connected /\ Ops[c] \cap {"get", "getLatest"} # {} /\ call[c].pc = "idle"
  <2>1. connected \subseteq Nodes \ {At[c]}
    BY PeersAreNodes, FileServerAssumption
  <2>2. QED
    BY <1>1, <2>1 DEF Idle
<1>4. Begun(c)'
  BY <1>2, <1>3 DEF Begun
<1>5. \A p \in Nodes : xfer[c][p].pc \in {"idle", "end"}
  BY <1>3, RestingTransfers DEF Resting
<1>6. \A p \in Nodes : Starting(c, p)
  BY <1>1, <1>5 DEF Starting
<1>7. QED
  BY <1>1, <1>2, <1>4, <1>6, CallStays

LEMMA ReadHereStays ==
  ASSUME ServerInv, StayInv, NEW c \in Clients, ReadHere(c)
  PROVE  StayInv' /\ ConfirmedLeft
<1>1. /\ TypeOK /\ Begun(c) /\ call[c].op = "get" /\ call[c].pc = "here"
      /\ UNCHANGED <<index, blob, xfer, confirmed>>
  BY DEF ServerInv, StayInv, Begun, ReadHere
<1>2. /\ call'[c].op = "get" /\ call'[c].pc \in {"returned", "try"}
      /\ call'[c].pc = "try" => call'[c].left \in Peers(At[c])
      /\ \A d \in Clients : d # c => call'[d] = call[d]
  BY <1>1, ReadHereCall DEF SameCall
<1>3. call'[c].pc = "try" => At[c] \notin call'[c].left
  BY <1>2, PeersAreNodes, FileServerAssumption
<1>4. Begun(c)'
  BY <1>1, <1>2, <1>3 DEF Begun
<1>5. \A p \in Nodes : xfer[c][p].pc \in {"idle", "end"}
  BY <1>1, RestingTransfers DEF Resting
<1>6. \A p \in Nodes : Starting(c, p)
  BY <1>1, <1>5 DEF Starting
<1>7. QED
  BY <1>1, <1>2, <1>4, <1>6, CallStays

LEMMA TryStays ==
  ASSUME ServerInv, StayInv, NEW c \in Clients, Try(c)
  PROVE  StayInv' /\ ConfirmedLeft
<1>1. /\ TypeOK /\ call[c] \in CallRecord /\ Begun(c) /\ call[c].op = "get" /\ call[c].pc = "try"
      /\ UNCHANGED <<index, blob, confirmed>>
  BY DEF ServerInv, TypeOK, StayInv, Begun, Try
<1>2. \A p \in Nodes : xfer[c][p].pc \in {"idle", "end"}
  BY <1>1, RestingTransfers DEF Resting
<1>3. ASSUME NEW p \in call[c].left, xfer' = [xfer EXCEPT ![c][p] = Opening],
             call' = [call EXCEPT ![c].pc = "fetch", ![c].left = @ \ {p}]
      PROVE  StayInv' /\ ConfirmedLeft
  <2>1. /\ call'[c].op = "get" /\ call'[c].pc = "fetch" /\ call'[c].left \subseteq call[c].left
        /\ \A d \in Clients : d # c => call'[d] = call[d]
    BY <1>1, <1>3 DEF TypeOK, CallRecord
  <2>2. p # At[c] /\ p \in Nodes
    BY <1>1, <1>3 DEF Begun, CallRecord
  <2>3. /\ \A d \in Clients : d # c => xfer'[d] = xfer[d]
        /\ \A q \in Nodes : xfer'[c][q] = IF q = p THEN Opening ELSE xfer[c][q]
    BY <1>1, <1>3, <2>2 DEF TypeOK
  <2>4. \A q \in Nodes : Starting(c, q)
    BY <1>2, <2>1, <2>2, <2>3, NoTransferType DEF Starting
  <2>5. Begun(c)'
    BY <1>1, <2>1, BegunStays
  <2>6. QED
    BY <1>1, <2>1, <2>3, <2>4, <2>5, CallStays
<1>4. CASE call' = [call EXCEPT ![c].pc = "returned"] /\ UNCHANGED xfer
  <2>1. /\ call'[c].op = "get" /\ call'[c].pc = "returned" /\ call'[c].left = call[c].left
        /\ \A d \in Clients : d # c => call'[d] = call[d]
    BY <1>1, <1>4 DEF TypeOK, CallRecord
  <2>2. \A q \in Nodes : Starting(c, q)
    BY <1>2, <1>4 DEF Starting
  <2>3. Begun(c)'
    BY <1>1, <2>1, BegunStays
  <2>4. QED
    BY <1>1, <1>4, <2>1, <2>2, <2>3, CallStays
<1>5. QED
  BY <1>3, <1>4 DEF Try

LEMMA FetchedStays ==
  ASSUME ServerInv, StayInv, NEW c \in Clients, Fetched(c)
  PROVE  StayInv' /\ ConfirmedLeft
<1> DEFINE ok == \E p \in Nodes : xfer[c][p].res = "ok"
           pc == IF ok THEN "returned" ELSE "try"
           got == IF ok /\ Readable(Own(c, call[c].key), call[c].id)
                    THEN ReadLocal(c, call[c].key, call[c].id) ELSE call[c].got
<1>1. /\ TypeOK /\ call[c] \in CallRecord /\ Begun(c) /\ call[c].op = "get" /\ call[c].pc = "fetch"
      /\ UNCHANGED <<index, blob, xfer, confirmed>>
  BY DEF ServerInv, TypeOK, StayInv, Begun, Fetched
<1>2. call' = [call EXCEPT ![c].pc = pc, ![c].got = got] /\ pc \in {"try", "returned"}
  BY <1>1 DEF Fetched, CallRecord, TypeOK
<1> HIDE DEF pc, got
<1>3. /\ call'[c].op = "get" /\ call'[c].pc \in {"try", "returned"}
      /\ call'[c].left = call[c].left /\ SameCall(c)
      /\ \A d \in Clients : d # c => call'[d] = call[d]
  BY <1>1, <1>2 DEF TypeOK, CallRecord, SameCall
<1>4. Begun(c)'
  BY <1>1, <1>3, BegunStays
<1>5. \A p \in Nodes : Passing(c, p)
  BY <1>1, <1>3 DEF Passing, StreamKept
<1>6. QED
  BY <1>1, <1>3, <1>4, <1>5, CallStays

LEMMA FanDoneStays ==
  ASSUME ServerInv, StayInv, NEW c \in Clients, FanDone(c)
  PROVE  StayInv' /\ ConfirmedLeft
<1>1. /\ TypeOK /\ call[c] \in CallRecord /\ Begun(c)
      /\ call' = [call EXCEPT ![c].pc = "returned"]
      /\ UNCHANGED <<index, blob, xfer, confirmed>>
  BY DEF ServerInv, TypeOK, StayInv, FanDone
<1>2. /\ CallKept(c) /\ call'[c].pc = "returned" /\ call'[c].left = call[c].left
      /\ \A d \in Clients : d # c => call'[d] = call[d]
  BY <1>1 DEF TypeOK, CallRecord, CallKept, SameCall
<1>3. Begun(c)'
  BY <1>1, <1>2, BegunStays DEF CallKept, SameCall
<1>4. \A p \in Nodes : Passing(c, p)
  BY <1>1, <1>2 DEF Passing, StreamKept, CallKept
<1>5. QED
  BY <1>1, <1>2, <1>3, <1>4, CallStays

LEMMA ForgetStays ==
  ASSUME ServerInv, StayInv, NEW c \in Clients, Forget(c)
  PROVE  StayInv' /\ ConfirmedLeft
<1>1. /\ TypeOK
      /\ call' = [call EXCEPT ![c] = NoCall]
      /\ xfer' = [xfer EXCEPT ![c] = [p \in Nodes |-> NoTransfer]]
      /\ UNCHANGED <<index, blob, confirmed>>
  BY DEF ServerInv, Forget
<1>2. /\ call'[c] = NoCall /\ \A p \in Nodes : xfer'[c][p] = NoTransfer
      /\ \A d \in Clients : d # c => call'[d] = call[d] /\ xfer'[d] = xfer[d]
  BY <1>1 DEF TypeOK
<1>3. Begun(c)'
  BY <1>2, NoCallType DEF Begun
<1>4. \A p \in Nodes : Starting(c, p)
  BY <1>2, NoTransferType DEF Starting
<1>5. QED
  BY <1>1, <1>2, <1>3, <1>4, NoCallType, CallStays

LEMMA OpenLocalStays ==
  ASSUME ServerInv, StayInv, NEW c \in Clients, NEW p \in Nodes, OpenLocal(c, p)
  PROVE  StayInv' /\ ConfirmedLeft
<1> DEFINE x == xfer[c][p]
           s == Own(c, call[c].key)
           id == IF call[c].op = "put" THEN call[c].entry.id ELSE call[c].id
           e == resolveVersion(index[s], id)
           want == IF call[c].op = "put" THEN blob[s][e.id].n ELSE e.data.n
           y == IF Readable(s, id)
                  THEN [x EXCEPT !.pc = "ready", !.src = Opened(s, e.id),
                                 !.entry = call[c].entry, !.want = want]
                  ELSE [x EXCEPT !.pc = "end", !.res = "failed"]
<1>1. /\ TypeOK /\ call[c] \in CallRecord /\ x \in TransferRecord
      /\ Elsewhere(c, p) /\ Pushed(c, p)
  BY DEF ServerInv, StayInv, TypeOK
<1>2. /\ x.pc = "open"
      /\ xfer' = [xfer EXCEPT ![c] = [xfer[c] EXCEPT ![p] = y]]
      /\ UNCHANGED <<index, blob, call, confirmed>>
  BY <1>1 DEF OpenLocal, TypeOK
<1>3. s \in Shelves
  BY <1>1, OwnShelf DEF CallRecord
<1>4. Readable(s, id) => e.id # NoVersion
  <2> HIDE DEF s, id
  <2>1. Readable(s, id) => resolveVersion(index[s], id) \in Entry
    BY <1>1, <1>3, IndexTyped, ResolvedEntry DEF Readable
  <2>2. QED
    BY <2>1, EntryTypes
<1> HIDE DEF s, id, e, want
<1>5. \/ y.pc = "end"
      \/ y.pc = "ready" /\ y.src.id # NoVersion /\ y.entry = call[c].entry
  BY <1>1, <1>4 DEF TransferRecord, Opened
<1> HIDE DEF y
<1>6. xfer'[c][p] = y /\ OthersSame(c, p)
  BY <1>1, <1>2 DEF TypeOK, OthersSame
<1>7. Into(c, p)' = Into(c, p)
  BY <1>2, SameInto DEF SameCall
<1>8. StreamOK(c, p)'
  <2>1. CASE y.pc = "end"
    BY <1>6, <2>1, StartingOK DEF Starting
  <2>2. CASE y.pc = "ready" /\ y.src.id # NoVersion /\ y.entry = call[c].entry
    <3>1. Elsewhere(c, p)'
      BY <1>1, <1>2, <1>6 DEF Elsewhere
    <3>2. SourceFilled(c, p)'
      BY <1>6, <2>2 DEF SourceFilled
    <3>3. Pushed(c, p)'
      BY <1>1, <1>2, <1>6, <1>7, <2>2 DEF Pushed
    <3>4. Drawn(c, p)'
      BY <1>6, <2>2 DEF Drawn
    <3>5. QED
      BY <3>1, <3>2, <3>3, <3>4 DEF StreamOK
  <2>3. QED
    BY <1>5, <2>1, <2>2
<1>9. QED
  BY <1>2, <1>6, <1>8, TransferStays

LEMMA VersionInfoStays ==
  ASSUME ServerInv, StayInv, NEW c \in Clients, NEW p \in Nodes, VersionInfo(c, p)
  PROVE  StayInv' /\ ConfirmedLeft
<1> DEFINE x == xfer[c][p]
           s == <<p, At[c], call[c].key>>
           e == resolveVersion(index[s], call[c].id)
           y == IF CanResolve(index[s], call[c].id)
                  THEN [x EXCEPT !.pc = "info", !.entry = e]
                  ELSE [x EXCEPT !.pc = "bad"]
<1>1. TypeOK /\ x \in TransferRecord /\ Elsewhere(c, p)
  BY DEF ServerInv, TypeOK, StayInv
<1>2. /\ call[c].op # "put" /\ x.pc = "open"
      /\ xfer' = [xfer EXCEPT ![c] = [xfer[c] EXCEPT ![p] = y]]
      /\ UNCHANGED <<index, blob, call, confirmed>>
  BY <1>1 DEF VersionInfo, TypeOK, Pushing, Pushes
<1>3. y.pc \in {"info", "bad"}
  BY <1>1 DEF TransferRecord
<1> HIDE DEF y
<1>4. xfer'[c][p] = y /\ OthersSame(c, p)
  BY <1>1, <1>2 DEF TypeOK, OthersSame
<1>5. StreamOK(c, p)'
  BY <1>1, <1>2, <1>3, <1>4 DEF StreamOK, Elsewhere, SourceFilled, Pushed, Drawn, Live
<1>6. QED
  BY <1>2, <1>4, <1>5, TransferStays

LEMMA ReadVersionRawStays ==
  ASSUME ServerInv, StayInv, NEW c \in Clients, NEW p \in Nodes, ReadVersionRaw(c, p)
  PROVE  StayInv' /\ ConfirmedLeft
<1> DEFINE x == xfer[c][p]
           s == <<p, At[c], call[c].key>>
           id == resolveVersion(index[s], call[c].id).id
           y == IF Readable(s, call[c].id)
                  THEN [x EXCEPT !.pc = "ready", !.src = Opened(s, id), !.want = blob[s][id].n]
                  ELSE [x EXCEPT !.pc = "bad"]
<1>1. TypeOK /\ TransferOK(c, p) /\ x \in TransferRecord /\ Elsewhere(c, p)
  BY DEF ServerInv, TypeOK, StayInv
<1>2. /\ call[c].op # "put" /\ x.pc = "info"
      /\ xfer' = [xfer EXCEPT ![c] = [xfer[c] EXCEPT ![p] = y]]
      /\ UNCHANGED <<index, blob, call, confirmed>>
  BY <1>1 DEF ReadVersionRaw, TypeOK, TransferOK, Pushing, Pushes
<1>3. s \in Shelves
  BY <1>1, PeerShelf
<1> HIDE DEF s
<1>4. Readable(s, call[c].id) => id # NoVersion
  BY <1>1, <1>3, IndexTyped, ResolvedEntry, EntryTypes DEF Readable
<1> HIDE DEF id
<1>5. y.pc = "bad" \/ (y.pc = "ready" /\ y.src.id # NoVersion)
  BY <1>1, <1>4 DEF TransferRecord, Opened
<1> HIDE DEF y
<1>6. xfer'[c][p] = y /\ OthersSame(c, p)
  BY <1>1, <1>2 DEF TypeOK, OthersSame
<1>7. StreamOK(c, p)'
  BY <1>1, <1>2, <1>5, <1>6 DEF StreamOK, Elsewhere, SourceFilled, Pushed, Drawn, Live
<1>8. QED
  BY <1>2, <1>6, <1>7, TransferStays

LEMMA GiveUpStays ==
  ASSUME ServerInv, StayInv, NEW c \in Clients, NEW p \in Nodes, GiveUp(c, p)
  PROVE  StayInv' /\ ConfirmedLeft
<1>1. xfer \in [Clients -> [Nodes -> TransferRecord]]
  BY DEF ServerInv, TypeOK
<1>2. /\ xfer' = [xfer EXCEPT ![c][p].res = "failed"]
      /\ UNCHANGED <<index, blob, call, confirmed>>
  BY DEF GiveUp
<1>3. Passing(c, p) /\ OthersSame(c, p)
  BY <1>1, <1>2 DEF Passing, SameCall, StreamKept, OthersSame, TransferRecord
<1>4. QED
  BY <1>2, <1>3, TransferStays

LEMMA BreakStays ==
  ASSUME ServerInv, StayInv, NEW c \in Clients, NEW p \in Nodes, Break(c, p)
  PROVE  StayInv' /\ ConfirmedLeft
<1>1. xfer \in [Clients -> [Nodes -> TransferRecord]]
  BY DEF ServerInv, TypeOK
<1>2. /\ xfer' = [xfer EXCEPT ![c][p].pc = "bad"] /\ xfer[c][p].pc \notin {"idle", "end"}
      /\ UNCHANGED <<index, blob, call, confirmed>>
  BY DEF Break, Become, Exposed
<1>3. Passing(c, p) /\ OthersSame(c, p)
  BY <1>1, <1>2 DEF Passing, SameCall, StreamKept, OthersSame, TransferRecord, Live
<1>4. QED
  BY <1>2, <1>3, TransferStays

LEMMA DisconnectStays ==
  ASSUME ServerInv, StayInv, NEW d \in Clients, Disconnect(d)
  PROVE  StayInv' /\ ConfirmedLeft
<1>1. PICK q \in Nodes, cut \in BOOLEAN :
        /\ xfer' = [c \in Clients |-> [p \in Nodes |->
             IF Between(c, p, {At[d], q}) THEN Disconnected(c, p, cut) ELSE xfer[c][p]]]
        /\ UNCHANGED <<index, blob, call, confirmed>>
  BY DEF Disconnect
<1>2. ASSUME NEW c \in Clients, NEW p \in Nodes PROVE Passing(c, p)
  <2>1. xfer'[c][p] \in {xfer[c][p], Disconnected(c, p, cut)}
    BY <1>1
  <2>2. SameCall(c)
    BY <1>1 DEF SameCall
  <2>3. QED
    BY <2>1, <2>2, DisconnectedStream DEF Passing, StreamKept, ServerInv
<1>3. \A c \in Clients : Begun(c)' /\ CallKept(c)
  BY <1>1, SameBegun
<1>4. QED
  BY <1>1, <1>2, <1>3, QuietStays

LEMMA CrashStays ==
  ASSUME ServerInv, StayInv, NEW n \in Nodes, Crash(n)
  PROVE  StayInv' /\ ConfirmedLeft
<1>1. /\ call' = [c \in Clients |->
           IF At[c] = n /\ call[c].pc # "idle" THEN [call[c] EXCEPT !.pc = "gone"] ELSE call[c]]
      /\ xfer' = [c \in Clients |-> [p \in Nodes |-> AfterCrash(c, p, n)]]
      /\ UNCHANGED <<index, blob, confirmed>>
  BY DEF Crash
<1>2. TypeOK
  BY DEF ServerInv
<1>3. ASSUME NEW c \in Clients PROVE Begun(c)' /\ CallKept(c)
  <2>1. call[c] \in CallRecord /\ Begun(c)
    BY <1>2 DEF TypeOK, StayInv
  <2>2. call'[c] \in {call[c], [call[c] EXCEPT !.pc = "gone"]}
    BY <1>1
  <2>3. /\ call'[c].pc \in {call[c].pc, "gone"} /\ call'[c].left = call[c].left
        /\ call'[c].op = call[c].op /\ CallKept(c)
    BY <2>1, <2>2 DEF CallRecord, CallKept, SameCall
  <2>4. QED
    BY <2>1, <2>3, BegunStays
<1>4. ASSUME NEW c \in Clients, NEW p \in Nodes PROVE Passing(c, p)
  <2>1. xfer'[c][p] = AfterCrash(c, p, n)
    BY <1>1
  <2>2. SameCall(c)
    BY <1>3 DEF CallKept
  <2>3. QED
    BY <1>2, <2>1, <2>2, CrashedStream DEF Passing, StreamKept, Live
<1>5. QED
  BY <1>1, <1>3, <1>4, QuietStays

\* The answer to a put: what is counted is there, and no push is left to touch it.
LEMMA ReplyStays ==
  ASSUME ServerInv, StayInv, NEW c \in Clients, NEW p \in Nodes, Reply(c, p)
  PROVE  StayInv' /\ ConfirmedLeft
<1> DEFINE x == xfer[c][p]
           s == Into(c, p)
           id == x.entry.id
           told == x.pc = "good" /\ x.res = "none" /\ call[c].op = "put"
           res == IF x.res # "none" THEN x.res ELSE IF x.pc = "good" THEN "ok" ELSE "failed"
<1>1. /\ TypeOK /\ x \in TransferRecord /\ x.pc \in {"good", "bad"}
      /\ UNCHANGED <<index, blob, call>>
      /\ confirmed' = IF told THEN confirmed \cup {<<s, id>>} ELSE confirmed
  BY DEF ServerInv, TypeOK, Reply
<1>2. OthersSame(c, p) /\ xfer'[c][p].pc = "end"
  <2>1. xfer' = [xfer EXCEPT ![c][p].pc = "end", ![c][p].src = NoFile, ![c][p].res = res]
    BY <1>1 DEF Reply, TypeOK, TransferRecord
  <2> HIDE DEF res
  <2>2. QED
    BY <1>1, <2>1 DEF TypeOK, TransferRecord, OthersSame
<1>3. StreamOK(c, p)'
  BY <1>2, StartingOK DEF Starting
<1>4. CASE ~told
  BY <1>1, <1>2, <1>3, <1>4, TransferStays
<1>5. CASE told
  <2>1. /\ p # At[c] /\ x.entry = call[c].entry /\ There(s, id)
        /\ \A r \in confirmed : ~AtHome(r[1]) /\ There(r[1], r[2])
    BY <1>5 DEF StayInv, Elsewhere, Pushed, Live, ConfirmedThere
  <2>2. s = <<p, At[c], call[c].key>> /\ ~AtHome(s) /\ id = call[c].entry.id
    BY <1>5, <2>1, PutFacts
  <2>3. confirmed' = confirmed \cup {<<s, id>>}
    BY <1>1, <1>5
  <2> HIDE DEF s, id
  <2>4. ASSUME NEW r \in confirmed'
        PROVE  /\ ~AtHome(r[1]) /\ blob'[r[1]][r[2]] # NoBlob
               /\ \E e \in Entries(index'[r[1]].versions) : e.id = r[2]
    <3>1. ~AtHome(r[1]) /\ There(r[1], r[2])
      BY <2>1, <2>2, <2>3
    <3>2. QED
      BY <1>1, <3>1 DEF There
  <2>5. ConfirmedThere'
    BY <2>4 DEF ConfirmedThere, There, AtHome
  <2>6. ASSUME NEW d \in Clients, NEW q \in Nodes PROVE StreamOK(d, q)'
    <3>1. CASE d = c /\ q = p
      BY <1>3, <3>1
    <3>2. CASE ~(d = c /\ q = p)
      <4>1. xfer'[d][q] = xfer[d][q] /\ call'[d] = call[d] /\ index' = index /\ blob' = blob
        BY <1>1, <1>2, <3>2 DEF OthersSame
      <4>2. Elsewhere(d, q) /\ SourceFilled(d, q) /\ Pushed(d, q) /\ Drawn(d, q)
        BY DEF StayInv
      <4>3. Elsewhere(d, q)' /\ SourceFilled(d, q)'
        BY <4>1, <4>2 DEF Elsewhere, SourceFilled
      <4>4. CallKept(d) /\ StreamKept(d, q)
        BY <4>1 DEF CallKept, SameCall, StreamKept
      <4>5. call[d].op = "put" => <<Into(d, q), call[d].entry.id>> # <<s, id>>
        <5> SUFFICES ASSUME call[d].op = "put", Into(d, q) = s, call[d].entry.id = id PROVE FALSE
          OBVIOUS
        <5>1. d = c
          BY <1>5, <2>2 DEF StayInv, PutsDiffer
        <5>2. <<q, At[d], call[d].key>> = <<p, At[c], call[c].key>>
          BY <2>2, PutFacts
        <5>3. q = p
          BY <5>2
        <5>4. QED
          BY <3>2, <5>1, <5>3
      <4>6. call[d].op = "put" /\ xfer[d][q].pc \in {"open"} \cup Live =>
              /\ Leaves(Into(d, q), call[d].entry.id)
              /\ <<Into(d, q), call[d].entry.id>> \notin confirmed'
        BY <2>3, <4>1, <4>2, <4>5 DEF Leaves, Pushed
      <4>7. Pushed(d, q)'
        BY <4>2, <4>4, <4>6, PushedStays
      <4>8. Drawn(d, q)'
        BY <1>1, <1>5, <2>2, <2>3, <4>1, <4>2 DEF Drawn
      <4>9. QED
        BY <4>3, <4>7, <4>8 DEF StreamOK
    <3>3. QED
      BY <3>1, <3>2
  <2>7. \A d \in Clients : Begun(d)'
    BY <1>1, SameBegun
  <2>8. BlobsFilled' /\ PutsDiffer'
    BY <1>1 DEF StayInv, BlobsFilled, PutsDiffer
  <2>9. ConfirmedLeft
    BY <1>1 DEF ConfirmedLeft, Leaves
  <2>10. QED
    BY <2>5, <2>6, <2>7, <2>8, <2>9 DEF StayInv, StreamOK
<1>6. QED
  BY <1>4, <1>5

-----------------------------------------------------------------------------
(* The steps that change a disk.                                           *)
(***************************************************************************)
LEMMA StaysPassing ==
  ASSUME NEW d \in Clients, NEW q \in Nodes, call'[d] = call[d], Stays(d, q)
  PROVE  Passing(d, q)
BY DEF Stays, Passing, SameCall, StreamKept

LEMMA FillsFilled ==
  ASSUME BlobsFilled, NEW s \in Shelves, NEW j, ChangesOnly(s, j), blob'[s][j].of # NoVersion
  PROVE  BlobsFilled'
<1> SUFFICES ASSUME NEW t \in Shelves, NEW i \in VersionIDs, blob'[t][i] # NoBlob
             PROVE  blob'[t][i].of # NoVersion
  BY DEF BlobsFilled
<1>1. CASE <<t, i>> = <<s, j>>
  BY <1>1
<1>2. CASE <<t, i>> # <<s, j>>
  BY <1>2 DEF ChangesOnly, Leaves, BlobsFilled
<1>3. QED
  BY <1>1, <1>2

LEMMA GoneFilled ==
  ASSUME BlobsFilled, BlobsOnlyGo PROVE BlobsFilled'
<1> SUFFICES ASSUME NEW t \in Shelves, NEW i \in VersionIDs, blob'[t][i] # NoBlob
             PROVE  blob'[t][i].of # NoVersion
  BY DEF BlobsFilled
<1>1. blob'[t][i] = blob[t][i]
  BY DEF BlobsOnlyGo
<1>2. QED
  BY <1>1 DEF BlobsFilled

LEMMA BodyFilled ==
  ASSUME ServerInv, StayInv, NEW c \in Clients, NEW p \in Nodes, xfer[c][p].pc \in Live
  PROVE  Body(xfer[c][p].src).of # NoVersion
<1> DEFINE f == xfer[c][p].src
<1>1. SourceOK(c, f) /\ SourceFilled(c, p) /\ BlobsFilled /\ f \in File
  BY LiveTransfer DEF StayInv
<1>2. CASE f.id = NoVersion
  BY <1>1, <1>2 DEF SourceFilled, Body
<1>3. CASE f.id # NoVersion
  <2>1. f.id \in VersionIDs /\ f.shelf \in Shelves /\ blob[f.shelf][f.id] # NoBlob
    BY <1>1, <1>3 DEF SourceOK, File, IdOrNone
  <2>2. QED
    BY <1>1, <1>3, <2>1 DEF BlobsFilled, Body
<1>4. QED
  BY <1>2, <1>3

\* A body goes to no version that is confirmed, and to no other put's copy.
LEMMA NotConfirmed ==
  ASSUME ServerInv, StayInv, NEW c \in Clients, NEW p \in Nodes, xfer[c][p].pc \in Live, NEW j,
         call[c].op = "put" => j = call[c].entry.id
  PROVE  <<Into(c, p), j>> \notin confirmed
<1>1. CASE call[c].op = "put"
  BY <1>1 DEF StayInv, Pushed
<1>2. CASE call[c].op # "put"
  <2>1. AtHome(Into(c, p))
    BY <1>2, IntoHome DEF ServerInv
  <2>2. \A r \in confirmed : ~AtHome(r[1])
    BY DEF StayInv, ConfirmedThere
  <2>3. ASSUME <<Into(c, p), j>> \in confirmed PROVE FALSE
    <3>1. <<Into(c, p), j>>[1] = Into(c, p)
      OBVIOUS
    <3>2. QED
      BY <2>1, <2>2, <2>3, <3>1
  <2>4. QED
    BY <2>3
<1>3. QED
  BY <1>1, <1>2

LEMMA NotPushed ==
  ASSUME ServerInv, StayInv, NEW c \in Clients, NEW p \in Nodes, NEW j,
         call[c].op = "put" => j = call[c].entry.id,
         NEW d \in Clients, NEW q \in Nodes, <<d, q>> # <<c, p>>,
         call[d].op = "put", xfer[d][q].pc \in {"open"} \cup Live
  PROVE  /\ Into(d, q) \in Shelves /\ call[d].entry.id \in VersionIDs
         /\ <<Into(d, q), call[d].entry.id>> # <<Into(c, p), j>>
<1>1. q # At[d]
  BY DEF StayInv, Elsewhere, Live
<1>2. /\ Into(d, q) \in Shelves /\ ~AtHome(Into(d, q)) /\ call[d].entry.id \in VersionIDs
      /\ Into(d, q) = <<q, At[d], call[d].key>>
  BY <1>1, PutFacts
<1>3. ~(Into(d, q) = Into(c, p) /\ call[d].entry.id = j)
  <2> SUFFICES ASSUME Into(d, q) = Into(c, p), call[d].entry.id = j PROVE FALSE
    OBVIOUS
  <2>1. call[c].op = "put" /\ call[c].entry.id = call[d].entry.id
    BY <1>2, IntoHome DEF ServerInv
  <2>2. c = d
    BY <2>1 DEF StayInv, PutsDiffer
  <2>3. <<q, At[d], call[d].key>> = <<p, At[c], call[c].key>>
    BY <1>2, <2>1, PutFacts
  <2>4. q = p
    BY <2>3
  <2>5. QED
    BY <2>2, <2>4
<1>4. QED
  BY <1>2, <1>3

LEMMA VersionStays ==
  ASSUME ServerInv, StayInv, UNCHANGED <<call, confirmed>>,
         NEW c \in Clients, NEW p \in Nodes, NEW j, xfer[c][p].pc \in Live,
         call[c].op = "put" => j = call[c].entry.id,
         ChangesOnly(Into(c, p), j),
         \A d \in Clients, q \in Nodes : <<d, q>> # <<c, p>> => Stays(d, q),
         StreamOK(c, p)', BlobsFilled'
  PROVE  StayInv' /\ ConfirmedLeft
<1>1. ConfirmedLeft
  <2> SUFFICES ASSUME NEW r \in confirmed PROVE Leaves(r[1], r[2])
    BY DEF ConfirmedLeft
  <2>1. r[1] \in Shelves /\ r[2] \in VersionIDs /\ r = <<r[1], r[2]>>
    BY DEF ServerInv, TypeOK
  <2>2. r # <<Into(c, p), j>>
    BY NotConfirmed
  <2>3. QED
    BY <2>1, <2>2 DEF ChangesOnly
<1>2. \A d \in Clients : Begun(d)' /\ CallKept(d)
  BY SameBegun
<1>3. ASSUME NEW d \in Clients, NEW q \in Nodes, <<d, q>> # <<c, p>>
      PROVE  /\ Passing(d, q)
             /\ call[d].op = "put" /\ xfer[d][q].pc \in {"open"} \cup Live =>
                  Leaves(Into(d, q), call[d].entry.id)
  <2>1. Passing(d, q)
    BY <1>3, StaysPassing
  <2>2. call[d].op = "put" /\ xfer[d][q].pc \in {"open"} \cup Live =>
          /\ Into(d, q) \in Shelves /\ call[d].entry.id \in VersionIDs
          /\ <<Into(d, q), call[d].entry.id>> # <<Into(c, p), j>>
    BY <1>3, NotPushed
  <2>3. QED
    BY <2>1, <2>2 DEF ChangesOnly
<1>4. \A d \in Clients, q \in Nodes :
        \/ StreamOK(d, q)'
        \/ /\ Passing(d, q)
           /\ call[d].op = "put" /\ xfer[d][q].pc \in {"open"} \cup Live =>
                Leaves(Into(d, q), call[d].entry.id)
  BY <1>3
<1>5. QED
  BY <1>1, <1>2, <1>4, StayStep DEF ConfirmedLeft

LEMMA FillsStays ==
  ASSUME ServerInv, StayInv, NEW c \in Clients, NEW p \in Nodes, NEW j, Fills(c, p, j), BlobsFilled'
  PROVE  StayInv' /\ ConfirmedLeft
<1> DEFINE x == xfer[c][p]
           y == xfer'[c][p]
           s == Into(c, p)
<1>1. /\ call' = call /\ confirmed' = confirmed /\ OthersSame(c, p)
      /\ j \in VersionIDs /\ ChangesOnly(s, j)
      /\ x.pc \in {"ready", "recv"} /\ y.pc \in {"recv", "check"} /\ y.entry.id = j
      /\ IF call[c].op = "share" /\ x.pc = "ready" THEN j \in Fresh ELSE j = x.entry.id
      /\ call[c].op # "share" => y.entry = x.entry
      /\ y.src = x.src
      /\ blob'[s][j] # NoBlob
      /\ y.pc = "recv" => index' = index
      /\ y.pc = "check" => \E e \in Entries(index'[s].versions) : e.id = j
  BY DEF Fills
<1>2. /\ Elsewhere(c, p) /\ SourceFilled(c, p) /\ Pushed(c, p) /\ Drawn(c, p)
      /\ x.pc \in Live /\ s' = s
  BY <1>1, SameInto DEF StayInv, Live, SameCall
<1>3. call[c].op = "put" =>
        /\ j = call[c].entry.id /\ y.entry = call[c].entry
        /\ \A e \in Entries(index[s].versions) : e.id # j
        /\ <<s, j>> \notin confirmed
  BY <1>1, <1>2 DEF Pushed
<1>4. Elsewhere(c, p)' /\ SourceFilled(c, p)'
  BY <1>1, <1>2 DEF Elsewhere, SourceFilled
<1>5. Pushed(c, p)'
  BY <1>1, <1>2, <1>3 DEF Pushed, There
<1>6. Drawn(c, p)'
  <2> SUFFICES ASSUME call[c].op = "share"
               PROVE  /\ \A d \in Clients : call[d].op = "put" => call[d].entry.id # j
                      /\ \A r \in confirmed : r[2] # j
    BY <1>1 DEF Drawn
  <2>1. CASE x.pc = "ready"
    <3>1. j \in Fresh
      BY <1>1, <2>1
    <3>2. ASSUME NEW d \in Clients, call[d].op = "put" PROVE call[d].entry.id # j
      <4>1. call[d].entry \in OfFile(d)
        BY <3>2, PutFacts
      <4>2. <<At[d], call[d].key>> \in Files
        BY FileOfCall DEF ServerInv
      <4>3. QED
        BY <3>1, <4>1, <4>2 DEF OfFile, Fresh
    <3>3. ASSUME NEW r \in confirmed PROVE r[2] # j
      <4>1. r[1] \in Shelves /\ blob[r[1]][r[2]] # NoBlob
        BY DEF ServerInv, TypeOK, StayInv, ConfirmedThere, There
      <4>2. QED
        BY <3>1, <4>1 DEF Fresh
    <3>4. QED
      BY <3>2, <3>3
  <2>2. CASE x.pc = "recv"
    BY <1>1, <1>2, <2>2 DEF Drawn
  <2>3. QED
    BY <1>1, <2>1, <2>2
<1>7. StreamOK(c, p)'
  BY <1>4, <1>5, <1>6 DEF StreamOK
<1>8. \A d \in Clients, q \in Nodes : <<d, q>> # <<c, p>> => Stays(d, q)
  BY <1>1 DEF OthersSame, Stays
<1>9. QED
  BY <1>1, <1>2, <1>3, <1>7, <1>8, VersionStays

LEMMA ReceiveStays ==
  ASSUME ServerInv, StayInv, NEW c \in Clients, NEW p \in Nodes, Receive(c, p)
  PROVE  StayInv' /\ ConfirmedLeft
<1>1. PICK j : Fills(c, p, j) /\ blob'[Into(c, p)][j].of = Body(xfer[c][p].src).of
  BY ReceiveFills
<1>2. Body(xfer[c][p].src).of # NoVersion
  BY BodyFilled DEF Receive, Live
<1>3. BlobsFilled'
  BY <1>1, <1>2, IntoShelf, FillsFilled DEF Fills, StayInv, ServerInv
<1>4. QED
  BY <1>1, <1>3, FillsStays

LEMMA BlockStays ==
  ASSUME ServerInv, StayInv, NEW c \in Clients, NEW p \in Nodes, Block(c, p)
  PROVE  StayInv' /\ ConfirmedLeft
<1>1. PICK j : /\ Fills(c, p, j)
               /\ blob'[Into(c, p)][j].of = blob[Into(c, p)][j].of /\ blob[Into(c, p)][j] # NoBlob
  BY BlockFills
<1>2. Into(c, p) \in Shelves /\ j \in VersionIDs
  BY <1>1, IntoShelf DEF ServerInv, Fills
<1>3. blob[Into(c, p)][j].of # NoVersion
  BY <1>1, <1>2 DEF StayInv, BlobsFilled
<1>4. BlobsFilled'
  BY <1>1, <1>2, <1>3, FillsFilled DEF Fills, StayInv
<1>5. QED
  BY <1>1, <1>4, FillsStays

LEMMA FinishBodyStays ==
  ASSUME MaxVersions = 0, ServerInv, StayInv, NEW c \in Clients, NEW p \in Nodes, FinishBody(c, p)
  PROVE  StayInv' /\ ConfirmedLeft
<1>1. PICK j : Fills(c, p, j) /\ blob' = blob
  BY FinishBodyFills
<1>2. BlobsFilled'
  BY <1>1 DEF StayInv, BlobsFilled
<1>3. QED
  BY <1>1, <1>2, FillsStays

LEMMA CheckCountStays ==
  ASSUME ServerInv, StayInv, NEW c \in Clients, NEW p \in Nodes, CheckCount(c, p)
  PROVE  StayInv' /\ ConfirmedLeft
<1> DEFINE x == xfer[c][p]
           y == xfer'[c][p]
           s == Into(c, p)
<1>1. /\ UNCHANGED <<call, confirmed>> /\ BlobsOnlyGo
      /\ ChangesOnly(s, x.entry.id)
      /\ \A d \in Clients, q \in Nodes : <<d, q>> # <<c, p>> => Stays(d, q)
      /\ x.pc = "check"
      /\ \/ /\ y.pc = "good" /\ UNCHANGED <<index, blob>>
            /\ y.entry = x.entry /\ y.src = x.src
         \/ y.pc = "bad"
  BY CheckCountChanges
<1>2. /\ Elsewhere(c, p) /\ SourceFilled(c, p) /\ Pushed(c, p) /\ Drawn(c, p) /\ BlobsFilled
      /\ s' = s /\ x.pc \in Live
  BY <1>1, SameInto DEF StayInv, SameCall, Live
<1>3. call[c].op = "put" => x.entry.id = call[c].entry.id
  BY <1>2 DEF Pushed
<1>4. BlobsFilled'
  BY <1>1, <1>2, GoneFilled
<1>5. StreamOK(c, p)'
  <2>1. CASE y.pc = "bad"
    BY <1>1, <1>2, <2>1 DEF StreamOK, Elsewhere, SourceFilled, Pushed, Drawn, Live
  <2>2. CASE y.pc = "good" /\ UNCHANGED <<index, blob>> /\ y.entry = x.entry /\ y.src = x.src
    <3>1. Elsewhere(c, p)' /\ SourceFilled(c, p)' /\ Drawn(c, p)'
      BY <1>1, <1>2, <2>2 DEF Elsewhere, SourceFilled, Drawn
    <3>2. Pushed(c, p)'
      BY <1>1, <1>2, <2>2 DEF Pushed, There
    <3>3. QED
      BY <3>1, <3>2 DEF StreamOK
  <2>3. QED
    BY <1>1, <2>1, <2>2
<1>6. QED
  BY <1>1, <1>2, <1>3, <1>4, <1>5, VersionStays

LEMMA DeleteStays ==
  ASSUME ServerInv, StayInv, NEW c \in Clients, Delete(c)
  PROVE  StayInv' /\ ConfirmedLeft
<1>1. PICK k \in Keys : \A t \in Shelves, i \in VersionIDs : t # Own(c, k) => Leaves(t, i)
  BY DeleteChanges
<1>2. UNCHANGED <<call, confirmed>> /\ BlobsOnlyGo /\ \A d \in Clients, q \in Nodes : Stays(d, q)
  BY DeleteChanges
<1>3. \A t \in Shelves, i \in VersionIDs : ~AtHome(t) => Leaves(t, i)
  BY <1>1 DEF AtHome, Own
<1>4. ConfirmedLeft
  BY <1>3 DEF ConfirmedLeft, StayInv, ConfirmedThere, ServerInv, TypeOK
<1>5. BlobsFilled'
  BY <1>2, GoneFilled DEF StayInv
<1>6. \A d \in Clients : Begun(d)' /\ CallKept(d)
  BY <1>2, SameBegun
<1>7. ASSUME NEW d \in Clients, NEW q \in Nodes
      PROVE  /\ Passing(d, q)
             /\ call[d].op = "put" /\ xfer[d][q].pc \in {"open"} \cup Live =>
                  Leaves(Into(d, q), call[d].entry.id)
  <2>1. Passing(d, q)
    BY <1>2, StaysPassing
  <2>2. ASSUME call[d].op = "put", xfer[d][q].pc \in {"open"} \cup Live
        PROVE  Leaves(Into(d, q), call[d].entry.id)
    <3>1. q # At[d]
      BY <2>2 DEF StayInv, Elsewhere, Live
    <3>2. Into(d, q) \in Shelves /\ ~AtHome(Into(d, q)) /\ call[d].entry.id \in VersionIDs
      BY <2>2, <3>1, PutFacts
    <3>3. QED
      BY <1>3, <3>2
  <2>3. QED
    BY <2>1, <2>2
<1>8. QED
  BY <1>2, <1>4, <1>5, <1>6, <1>7, StayStep DEF ConfirmedLeft

\* A new version is nobody's: no copy of it is confirmed, listed or under way.
LEMMA WriteStays ==
  ASSUME MaxVersions = 0, ServerInv, StayInv, NEW c \in Clients, NEW k \in Keys, NEW id \in Fresh,
         NEW next \in [Clients -> [Nodes -> TransferRecord]], WriteLocal(c, k, id, next),
         \A d \in Clients : d # c => call'[d] = call[d] /\ next[d] = xfer[d],
         Begun(c)',
         call'[c].op = "put" => call'[c].key = k /\ call'[c].entry.id = id,
         \A p \in Nodes : \/ next[c][p].pc \in {"idle", "end"}
                          \/ next[c][p].pc = "open" /\ p # At[c] /\ call'[c].op = "put"
  PROVE  StayInv' /\ ConfirmedLeft
<1> DEFINE s == Own(c, k)
<1>1. /\ xfer' = next /\ confirmed' = confirmed /\ id \in VersionIDs /\ id # NoVersion
      /\ ChangesOnly(s, id) /\ blob'[s][id].of = id /\ s \in Shelves
  BY WriteChanges, OwnShelf, NoVersionAssumption
<1>2. /\ \A t \in Shelves : blob[t][id] = NoBlob
      /\ \A f \in Files : \A e \in history[f] : e.id # id
      /\ \A d \in Clients, q \in Nodes : xfer[d][q].entry.id # id
  BY DEF Fresh
<1>3. /\ BlobsFilled /\ PutsDiffer /\ ConfirmedThere
      /\ \A d \in Clients, q \in Nodes :
           Elsewhere(d, q) /\ SourceFilled(d, q) /\ Pushed(d, q) /\ Drawn(d, q)
  BY DEF StayInv
<1>4. \A r \in confirmed : r[1] \in Shelves /\ r[2] \in VersionIDs /\ r[2] # id
  BY <1>2, <1>3 DEF ServerInv, TypeOK, ConfirmedThere, There
<1>5. ConfirmedLeft
  BY <1>1, <1>4 DEF ConfirmedLeft, ChangesOnly
<1>6. ConfirmedThere'
  BY <1>1, <1>3, <1>5, ConfirmedStays DEF ConfirmedLeft
<1>7. BlobsFilled'
  BY <1>1, <1>3, FillsFilled
<1>8. ASSUME NEW d \in Clients, call[d].op = "put" PROVE call[d].entry.id # id
  <2>1. call[d].entry \in OfFile(d) /\ <<At[d], call[d].key>> \in Files
    BY <1>8, PutFacts, FileOfCall DEF ServerInv
  <2>2. QED
    BY <1>2, <2>1 DEF OfFile
<1>9. PutsDiffer'
  <2> SUFFICES ASSUME NEW d \in Clients, NEW w \in Clients,
                      call'[d].op = "put", call'[w].op = "put",
                      call'[d].entry.id = call'[w].entry.id
               PROVE  d = w
    BY DEF PutsDiffer
  <2>1. CASE d # c /\ w # c
    <3>1. call'[d] = call[d] /\ call'[w] = call[w]
      BY <2>1
    <3>2. QED
      BY <1>3, <3>1 DEF PutsDiffer
  <2>2. CASE d = c /\ w # c
    BY <1>8, <2>2
  <2>3. CASE d # c /\ w = c
    BY <1>8, <2>3
  <2>4. QED
    BY <2>1, <2>2, <2>3
<1>10. ASSUME NEW d \in Clients, NEW q \in Nodes, d # c PROVE StreamOK(d, q)'
  <2>1. call'[d] = call[d] /\ xfer'[d][q] = xfer[d][q]
    BY <1>1, <1>10
  <2>2. Elsewhere(d, q)' /\ SourceFilled(d, q)'
    BY <1>3, <2>1 DEF Elsewhere, SourceFilled
  <2>3. Pushed(d, q)'
    <3>1. CallKept(d) /\ StreamKept(d, q)
      BY <2>1 DEF CallKept, SameCall, StreamKept
    <3>2. call[d].op = "put" => Leaves(Into(d, q), call[d].entry.id)
      BY <1>1, <1>8, PutFacts DEF ChangesOnly
    <3>3. call[d].op = "put" /\ xfer[d][q].pc \in {"open"} \cup Live =>
            <<Into(d, q), call[d].entry.id>> \notin confirmed'
      BY <1>1, <1>3 DEF Pushed
    <3>4. QED
      BY <1>3, <3>1, <3>2, <3>3, PushedStays
  <2>4. Drawn(d, q)'
    <3> SUFFICES ASSUME call[d].op = "share", xfer[d][q].pc \in {"recv", "check", "good"}
                 PROVE  /\ \A w \in Clients : call'[w].op = "put" =>
                             call'[w].entry.id # xfer[d][q].entry.id
                        /\ \A r \in confirmed : r[2] # xfer[d][q].entry.id
      BY <1>1, <2>1 DEF Drawn
    <3>1. /\ \A w \in Clients : call[w].op = "put" => call[w].entry.id # xfer[d][q].entry.id
          /\ \A r \in confirmed : r[2] # xfer[d][q].entry.id
      BY <1>3 DEF Drawn
    <3>2. ASSUME NEW w \in Clients, call'[w].op = "put"
          PROVE  call'[w].entry.id # xfer[d][q].entry.id
      <4>1. CASE w = c
        BY <1>2, <3>2, <4>1
      <4>2. CASE w # c
        <5>1. call'[w] = call[w]
          BY <4>2
        <5>2. QED
          BY <3>1, <3>2, <5>1
      <4>3. QED
        BY <4>1, <4>2
    <3>3. QED
      BY <3>1, <3>2
  <2>5. QED
    BY <2>2, <2>3, <2>4 DEF StreamOK
<1>11. ASSUME NEW q \in Nodes PROVE StreamOK(c, q)'
  <2>1. CASE next[c][q].pc \in {"idle", "end"}
    BY <1>1, <2>1, StartingOK DEF Starting
  <2>2. CASE next[c][q].pc = "open" /\ q # At[c] /\ call'[c].op = "put"
    <3> DEFINE t == <<q, At[c], k>>
    <3>1. Into(c, q)' = t /\ call'[c].entry.id = id
      BY <2>2 DEF Into
    <3>2. t \in Shelves /\ t # s
      BY <2>2, FileServerAssumption DEF Own, Shelves
    <3>3. FileOf(t) \in Files /\ Entries(index[t].versions) \subseteq history[FileOf(t)]
      BY <3>2, IndexTyped, ListedEntries DEF ServerInv, ReplicasAgree
    <3>4. Leaves(t, id)
      BY <1>1, <3>2 DEF ChangesOnly
    <3> HIDE DEF t
    <3>5. \A e \in Entries(index'[t].versions) : e.id # id
      BY <1>2, <3>3, <3>4 DEF Leaves
    <3>6. <<t, id>> \notin confirmed
      <4>1. <<t, id>>[2] = id
        OBVIOUS
      <4>2. QED
        BY <1>4, <4>1
    <3>7. Pushed(c, q)'
      BY <1>1, <2>2, <3>1, <3>5, <3>6 DEF Pushed, Live
    <3>8. Elsewhere(c, q)' /\ SourceFilled(c, q)' /\ Drawn(c, q)'
      BY <1>1, <2>2 DEF Elsewhere, SourceFilled, Drawn, Live
    <3>9. QED
      BY <3>7, <3>8 DEF StreamOK
  <2>3. QED
    BY <2>1, <2>2
<1>12. \A d \in Clients : Begun(d)'
  BY SameBegun
<1>13. QED
  BY <1>5, <1>6, <1>7, <1>9, <1>10, <1>11, <1>12 DEF StayInv, StreamOK

LEMMA StoreVersionStays ==
  ASSUME MaxVersions = 0, ServerInv, StayInv, NEW c \in Clients, StoreVersion(c)
  PROVE  StayInv' /\ ConfirmedLeft
<1>1. PICK k \in Keys, id \in Fresh, connected \in Peers(At[c]) :
        \E peers \in selectPeers(connected) :
          /\ WriteLocal(c, k, id, Fan(c, peers))
          /\ call' = [call EXCEPT ![c] =
               [NoCall EXCEPT !.pc = "fan", !.op = "put", !.key = k,
                              !.entry = NewEntry(c, k, id)]]
  BY DEF StoreVersion, NewEntry
<1>2. PICK peers \in selectPeers(connected) :
        /\ WriteLocal(c, k, id, Fan(c, peers))
        /\ call' = [call EXCEPT ![c] =
             [NoCall EXCEPT !.pc = "fan", !.op = "put", !.key = k,
                            !.entry = NewEntry(c, k, id)]]
  BY <1>1
<1>3. TypeOK /\ NewEntry(c, k, id).id = id
  BY DEF ServerInv, NewEntry
<1>4. /\ call'[c].op = "put" /\ call'[c].pc = "fan" /\ call'[c].key = k
      /\ call'[c].entry = NewEntry(c, k, id)
      /\ \A d \in Clients : d # c => call'[d] = call[d]
  BY <1>2, <1>3 DEF TypeOK, NoCall
<1>5. /\ Fan(c, peers) \in [Clients -> [Nodes -> TransferRecord]]
      /\ \A d \in Clients : d # c => Fan(c, peers)[d] = xfer[d]
      /\ \A p \in Nodes : Fan(c, peers)[c][p] = IF p \in peers THEN Opening ELSE NoTransfer
  BY <1>3, FanTyped
<1>6. At[c] \notin peers
  <2>1. At[c] \in Nodes
    BY FileServerAssumption
  <2>2. connected \subseteq Nodes \ {At[c]}
    BY <2>1, PeersAreNodes
  <2>3. peers \subseteq connected
    BY <1>2 DEF selectPeers
  <2>4. QED
    BY <2>2, <2>3
<1>7. Begun(c)'
  BY <1>4 DEF Begun
<1>8. \A p \in Nodes : \/ Fan(c, peers)[c][p].pc \in {"idle", "end"}
                       \/ Fan(c, peers)[c][p].pc = "open" /\ p # At[c] /\ call'[c].op = "put"
  BY <1>4, <1>5, <1>6, NoTransferType
<1>9. call'[c].key = k /\ call'[c].entry.id = id
  BY <1>3, <1>4
<1>10. QED
  BY <1>2, <1>4, <1>5, <1>7, <1>8, <1>9, WriteStays

LEMMA StoreLocalStays ==
  ASSUME MaxVersions = 0, ServerInv, StayInv, NEW c \in Clients, StoreLocal(c)
  PROVE  StayInv' /\ ConfirmedLeft
<1>1. PICK k \in Keys, id \in Fresh, targets \in Targets(c) :
        /\ call[c].pc = "idle"
        /\ WriteLocal(c, k, id, xfer)
        /\ call' = [call EXCEPT ![c] = [NoCall EXCEPT !.pc = "stored", !.key = k, !.left = targets]]
  BY DEF StoreLocal, Idle
<1>2. TypeOK /\ xfer \in [Clients -> [Nodes -> TransferRecord]]
  BY DEF ServerInv, TypeOK
<1>3. /\ call'[c].op = "none" /\ call'[c].pc = "stored" /\ call'[c].left = targets
      /\ \A d \in Clients : d # c => call'[d] = call[d]
  BY <1>1, <1>2 DEF TypeOK, NoCall
<1>4. At[c] \notin targets
  BY TargetsElsewhere
<1>5. Begun(c)'
  BY <1>3, <1>4 DEF Begun
<1>6. \A p \in Nodes : xfer[c][p].pc \in {"idle", "end"}
  BY <1>1, RestingTransfers DEF Resting
<1>7. QED
  BY <1>1, <1>2, <1>3, <1>5, <1>6, WriteStays

LEMMA StayInvInit ==
  ASSUME Init PROVE StayInv
<1>1. /\ \A c \in Clients : call[c] = NoCall
      /\ \A c \in Clients, p \in Nodes : xfer[c][p] = NoTransfer
      /\ \A s \in Shelves, id \in VersionIDs : blob[s][id] = NoBlob
      /\ confirmed = {}
  BY DEF Init
<1>2. \A c \in Clients : Begun(c)
  BY <1>1, NoCallType DEF Begun
<1>3. \A c \in Clients, p \in Nodes :
        Elsewhere(c, p) /\ SourceFilled(c, p) /\ Pushed(c, p) /\ Drawn(c, p)
  BY <1>1, NoCallType, NoTransferType DEF Elsewhere, SourceFilled, Pushed, Drawn, Live
<1>4. PutsDiffer
  BY <1>1, NoCallType DEF PutsDiffer
<1>5. BlobsFilled /\ ConfirmedThere
  BY <1>1 DEF BlobsFilled, ConfirmedThere
<1>6. QED
  BY <1>2, <1>3, <1>4, <1>5 DEF StayInv

LEMMA StayInvStep ==
  ASSUME MaxVersions = 0, ServerInv, StayInv, [Next]_vars
  PROVE  StayInv' /\ ConfirmedLeft
<1>1. ASSUME NEW c \in Clients, Begin(c) PROVE StayInv' /\ ConfirmedLeft
  BY <1>1, StoreVersionStays, ShareStays, StoreLocalStays, DeleteStays, GetVersionStays,
     DisconnectStays DEF Begin
<1>2. ASSUME NEW c \in Clients, Proceed(c) PROVE StayInv' /\ ConfirmedLeft
  BY <1>2, ShareStays, ReadHereStays, TryStays, FetchedStays, FanDoneStays, ForgetStays DEF Proceed
<1>3. ASSUME NEW c \in Clients, NEW p \in Nodes, Transfer(c, p) PROVE StayInv' /\ ConfirmedLeft
  BY <1>3, OpenLocalStays, VersionInfoStays, ReadVersionRawStays, ReceiveStays, BlockStays,
     FinishBodyStays, CheckCountStays, ReplyStays DEF Transfer
<1>4. ASSUME NEW c \in Clients, NEW p \in Nodes, GiveUp(c, p) \/ Break(c, p)
      PROVE  StayInv' /\ ConfirmedLeft
  BY <1>4, GiveUpStays, BreakStays
<1>5. CASE UNCHANGED vars
  <2>1. \A d \in Clients : Begun(d)' /\ CallKept(d)
    BY <1>5, SameBegun DEF vars
  <2>2. \A d \in Clients, q \in Nodes : Passing(d, q)
    BY <1>5, SameStream DEF vars
  <2>3. QED
    BY <1>5, <2>1, <2>2, QuietStays DEF vars
<1>6. QED
  BY <1>1, <1>2, <1>3, <1>4, <1>5, CrashStays DEF Next

LEMMA StayInvHolds ==
  ASSUME MaxVersions = 0
  PROVE  Spec => [](ServerInv /\ StayInv)
<1>1. Init => StayInv
  BY StayInvInit
<1>2. ServerInv /\ StayInv /\ [Next]_vars => StayInv'
  BY StayInvStep
<1>3. QED
  BY <1>1, <1>2, ServerInvHolds, PTL DEF Spec

\* No step of any node, client, stream, fault or restart touches the copy of a
\* version that a peer has confirmed: a custodian's blob and the entry that names
\* it stay as the push left them, whether or not they are complete (a push whose
\* file was cut while it read it confirms a short one).
THEOREM ConfirmedAreNotTouched ==
  ASSUME MaxVersions = 0 PROVE Spec => [][ConfirmedLeft]_vars
<1>1. ServerInv /\ StayInv /\ [Next]_vars => ConfirmedLeft
  BY StayInvStep
<1>2. QED
  BY <1>1, StayInvHolds, PTL DEF Spec

-----------------------------------------------------------------------------
(* A get that began when a peer had confirmed a replica has one peer that  *)
(* it has yet to ask, is asking or has been answered by, whose confirmed   *)
(* copy nobody touches.                                                    *)
(***************************************************************************)
\* Nothing fails, and where one client of a node deletes, no other gets.
OnlyGetterDeletes ==
    /\ Faults = {}
    /\ \A c \in Clients : "disconnect" \notin Ops[c]
    /\ \A c, d \in Clients :
         At[c] = At[d] /\ "delete" \in Ops[c] /\ Ops[d] \cap {"get", "getLatest"} # {} => c = d
\* A stream has a result when it is over, and a call that waits for none has none.
Unbroken(c, p) ==
    /\ xfer[c][p].pc # "end" => xfer[c][p].res = "none"
    /\ call[c].pc \in {"idle", "stored", "here"} => xfer[c][p].pc = "idle"
\* The fetch from q is on its way to success.
GoodWay(c, q) ==
    LET x == xfer[c][q]
        s == Asked(c, q)
        id == call[c].id
    IN  /\ x.pc \in {"open", "info", "end"} \cup Live
        /\ x.pc = "end" => x.res = "ok"
        /\ x.pc \in Live => x.src = Opened(s, id) /\ x.want = blob[s][id].n /\ x.n <= x.want
        /\ x.pc \in {"check", "good"} => x.n = x.want
Found(c) ==
    \E q \in Nodes : /\ <<Asked(c, q), call[c].id>> \in confirmed
                     /\ q \in call[c].left \/ (call[c].pc = "fetch" /\ GoodWay(c, q))
Got(x) == x.pc \in {"check", "good"} \/ x.res = "ok"
\* One peer at a time is asked for that version, and what is got lies at home.
Fetching(c, p) ==
    LET x == xfer[c][p]
    IN  /\ x.pc \in {"info"} \cup Live => x.entry.id = call[c].id
        /\ Got(x) => There(Own(c, call[c].key), call[c].id)
        /\ x.pc \notin {"idle", "end"} =>
             \A q \in Nodes \ {p} : xfer[c][q].pc \in {"idle", "end"} /\ xfer[c][q].res # "ok"
        /\ call[c].pc = "try" => x.res # "ok"
Waits(c) == call[c].held /\ call[c].pc \in {"try", "fetch"}
HeldGet(c) ==
    call[c].held =>
      /\ call[c].op = "get" /\ call[c].pc \in {"here", "try", "fetch", "returned"}
      /\ call[c].pc = "returned" => call[c].got.of # NoVersion
      /\ call[c].pc = "here" => \E q \in Nodes : <<Asked(c, q), call[c].id>> \in confirmed
      /\ call[c].pc \in {"try", "fetch"} =>
           "delete" \in Ops[c] /\ Found(c) /\ \A p \in Nodes : Fetching(c, p)
Finds(c) == HeldGet(c) /\ \A p \in Nodes : Unbroken(c, p)
FindInv == \A c \in Clients : Finds(c)

\* What a get that waits has asked for, and whom.
LEMMA WaitingGet ==
  ASSUME ServerInv, StayInv, FindInv, NEW c \in Clients, Waits(c)
  PROVE  /\ call[c].id \in VersionIDs /\ call[c].id # NoVersion
         /\ call[c].op = "get" /\ call[c].op \notin Pushes
         /\ Own(c, call[c].key) \in Shelves
         /\ "delete" \in Ops[c] /\ Ops[c] \cap {"get", "getLatest"} # {}
         /\ \E q \in Nodes : <<Asked(c, q), call[c].id>> \in confirmed
<1>1. PICK q \in Nodes : <<Asked(c, q), call[c].id>> \in confirmed
  BY DEF FindInv, Finds, HeldGet, Found, Waits
<1>2. call[c].id \in VersionIDs /\ call[c].op = "get" /\ TypeOK /\ call[c] \in CallRecord
  BY <1>1 DEF ServerInv, TypeOK, FindInv, Finds, HeldGet, Waits
<1>3. call[c].id # NoVersion /\ Own(c, call[c].key) \in Shelves
  BY <1>2, OwnShelf, NoVersionAssumption DEF CallRecord
<1>4. "delete" \in Ops[c] /\ Ops[c] \cap {"get", "getLatest"} # {}
  BY <1>2 DEF StayInv, Begun, FindInv, Finds, HeldGet, Waits
<1>5. QED
  BY <1>1, <1>2, <1>3, <1>4 DEF Pushes

\* A confirmed copy that was opened stays open under its name.
LEMMA ConfirmedCopy ==
  ASSUME ServerInv, StayInv, ConfirmedLeft, NEW s, NEW id, <<s, id>> \in confirmed
  PROVE  /\ s \in Shelves /\ id \in VersionIDs /\ Leaves(s, id) /\ There(s, id) /\ ~AtHome(s)
         /\ blob'[s][id] = blob[s][id] /\ blob[s][id] # NoBlob
<1>1. s \in Shelves /\ id \in VersionIDs
  BY DEF ServerInv, TypeOK
<1>2. <<s, id>>[1] = s /\ <<s, id>>[2] = id
  OBVIOUS
<1>3. Leaves(s, id) /\ There(s, id) /\ ~AtHome(s)
  BY <1>2 DEF ConfirmedLeft, StayInv, ConfirmedThere
<1>4. QED
  BY <1>1, <1>3 DEF Leaves, There

LEMMA GoodWayStays ==
  ASSUME ServerInv, StayInv, ConfirmedLeft, NEW c \in Clients, NEW q \in Nodes,
         <<Asked(c, q), call[c].id>> \in confirmed, GoodWay(c, q),
         call'[c] = call[c], Stays(c, q)
  PROVE  GoodWay(c, q)'
<1> DEFINE x == xfer[c][q]
           y == xfer'[c][q]
           s == Asked(c, q)
           id == call[c].id
<1>1. s' = s
  BY DEF Asked
<1>2. blob'[s][id] = blob[s][id] /\ blob[s][id] # NoBlob
  BY ConfirmedCopy
<1>3. /\ y.pc = x.pc /\ y.n = x.n /\ y.want = x.want /\ y.res = x.res
      /\ \/ y.src = x.src
         \/ blob'[x.src.shelf][x.src.id] = NoBlob
  BY DEF Stays
<1>4. /\ x.pc \in {"open", "info", "end"} \cup Live
      /\ x.pc = "end" => x.res = "ok"
      /\ x.pc \in Live => x.src = Opened(s, id) /\ x.want = blob[s][id].n /\ x.n <= x.want
      /\ x.pc \in {"check", "good"} => x.n = x.want
  BY DEF GoodWay
<1>5. x.pc \in Live => y.src = x.src
  <2>1. Opened(s, id).shelf = s /\ Opened(s, id).id = id
    BY DEF Opened
  <2>2. QED
    BY <1>2, <1>3, <1>4, <2>1
<1>6. QED
  BY <1>1, <1>2, <1>3, <1>4, <1>5 DEF GoodWay

\* A call that the step is not about.
LEMMA OtherFinds ==
  ASSUME ServerInv, StayInv, FindInv, ConfirmedLeft, confirmed \subseteq confirmed',
         NEW c \in Clients, call'[c] = call[c], \A q \in Nodes : Stays(c, q),
         Waits(c) => Leaves(Own(c, call[c].key), call[c].id)
  PROVE  Finds(c)'
<1>1. HeldGet(c) /\ \A p \in Nodes : Unbroken(c, p)
  BY DEF FindInv, Finds
<1>2. \A q \in Nodes : /\ xfer'[c][q].pc = xfer[c][q].pc /\ xfer'[c][q].res = xfer[c][q].res
                       /\ xfer'[c][q].entry = xfer[c][q].entry
  BY DEF Stays
<1>3. \A p \in Nodes : Unbroken(c, p)'
  BY <1>1, <1>2 DEF Unbroken
<1>4. CASE ~Waits(c)
  <2>1. \A q \in Nodes : Asked(c, q)' = Asked(c, q)
    BY DEF Asked
  <2>2. QED
    BY <1>1, <1>3, <1>4, <2>1 DEF Finds, HeldGet, Waits
<1>5. CASE Waits(c)
  <2>1. Found(c) /\ \A p \in Nodes : Fetching(c, p)
    BY <1>1, <1>5 DEF HeldGet, Waits
  <2>2. PICK q \in Nodes : /\ <<Asked(c, q), call[c].id>> \in confirmed
                           /\ q \in call[c].left \/ (call[c].pc = "fetch" /\ GoodWay(c, q))
    BY <2>1 DEF Found
  <2>3. GoodWay(c, q) => GoodWay(c, q)'
    BY <2>2, GoodWayStays
  <2>4. Asked(c, q)' = Asked(c, q) /\ Own(c, call'[c].key) = Own(c, call[c].key)
    BY DEF Asked
  <2>5. Found(c)'
    BY <2>2, <2>3, <2>4 DEF Found
  <2>6. ASSUME NEW p \in Nodes PROVE Fetching(c, p)'
    <3>1. Got(xfer'[c][p]) => Got(xfer[c][p])
      BY <1>2 DEF Got
    <3>2. Got(xfer[c][p]) => There(Own(c, call[c].key), call[c].id)
      BY <2>1 DEF Fetching
    <3>3. Got(xfer'[c][p]) => There(Own(c, call[c].key), call[c].id)'
      BY <1>5, <2>4, <3>1, <3>2 DEF There, Leaves
    <3>4. QED
      BY <1>2, <2>1, <3>3 DEF Fetching
  <2>7. QED
    BY <1>1, <1>3, <1>5, <2>5, <2>6 DEF Finds, HeldGet, Waits
<1>6. QED
  BY <1>3, <1>4, <1>5 DEF Finds

\* A call that c's step is about, and the others.
LEMMA AllFinds ==
  ASSUME ServerInv, StayInv, FindInv, ConfirmedLeft, confirmed \subseteq confirmed',
         NEW c \in Clients,
         \A d \in Clients : d # c =>
           /\ call'[d] = call[d] /\ \A q \in Nodes : Stays(d, q)
           /\ Waits(d) => Leaves(Own(d, call[d].key), call[d].id),
         Finds(c)'
  PROVE  FindInv'
<1>1. \A d \in Clients : d # c => Finds(d)'
  BY OtherFinds
<1>2. QED
  BY <1>1 DEF FindInv

\* One that changes no disk.
LEMMA QuietFinds ==
  ASSUME ServerInv, StayInv, FindInv, UNCHANGED <<index, blob>>, confirmed \subseteq confirmed',
         NEW c \in Clients,
         \A d \in Clients : d # c => call'[d] = call[d] /\ \A q \in Nodes : xfer'[d][q] = xfer[d][q],
         Finds(c)'
  PROVE  FindInv'
<1>1. ConfirmedLeft /\ \A s, id : Leaves(s, id)
  BY DEF ConfirmedLeft, Leaves
<1>2. \A d \in Clients : d # c => \A q \in Nodes : Stays(d, q)
  BY DEF Stays
<1>3. QED
  BY <1>1, <1>2, AllFinds

\* A stream of c's, whatever the call is for.
LEMMA StreamFinds ==
  ASSUME ServerInv, StayInv, FindInv, ConfirmedLeft, confirmed \subseteq confirmed',
         NEW c \in Clients, NEW p \in Nodes, call'[c] = call[c],
         \A q \in Nodes \ {p} : Stays(c, q),
         xfer[c][p].pc \notin {"idle", "end"},
         xfer'[c][p].pc # "end" => xfer'[c][p].res = "none",
         Waits(c) =>
           /\ <<Asked(c, p), call[c].id>> \in confirmed /\ GoodWay(c, p) => GoodWay(c, p)'
           /\ xfer'[c][p].pc \in {"info"} \cup Live => xfer'[c][p].entry.id = call[c].id
           /\ Got(xfer'[c][p]) => There(Own(c, call[c].key), call[c].id)'
  PROVE  Finds(c)'
<1>1. HeldGet(c) /\ \A q \in Nodes : Unbroken(c, q)
  BY DEF FindInv, Finds
<1>2. \A q \in Nodes \ {p} : xfer'[c][q].pc = xfer[c][q].pc /\ xfer'[c][q].res = xfer[c][q].res
  BY DEF Stays
<1>3. \A q \in Nodes : Unbroken(c, q)'
  <2>1. call[c].pc \notin {"idle", "stored", "here"}
    BY <1>1 DEF Unbroken
  <2>2. QED
    BY <1>1, <1>2, <2>1 DEF Unbroken
<1>4. CASE ~Waits(c)
  <2>1. \A q \in Nodes : Asked(c, q)' = Asked(c, q)
    BY DEF Asked
  <2>2. QED
    BY <1>1, <1>3, <1>4, <2>1 DEF Finds, HeldGet, Waits
<1>5. CASE Waits(c)
  <2>1. Found(c) /\ \A q \in Nodes : Fetching(c, q)
    BY <1>1, <1>5 DEF HeldGet, Waits
  <2>2. call[c].pc = "fetch"
    BY <1>5, RestingTransfers DEF Waits, Resting
  <2>3. \A q \in Nodes \ {p} : xfer[c][q].pc \in {"idle", "end"} /\ xfer[c][q].res # "ok"
    BY <2>1 DEF Fetching
  <2>4. PICK q \in Nodes : /\ <<Asked(c, q), call[c].id>> \in confirmed
                           /\ q \in call[c].left \/ GoodWay(c, q)
    BY <2>1 DEF Found
  <2>5. GoodWay(c, q) => q = p
    BY <2>3 DEF GoodWay, Live
  <2>6. q \in call[c].left \/ GoodWay(c, q)'
    <3>1. CASE GoodWay(c, q)
      <4>1. q = p
        BY <2>5, <3>1
      <4>2. <<Asked(c, p), call[c].id>> \in confirmed /\ GoodWay(c, p) => GoodWay(c, p)'
        BY <1>5
      <4>3. QED
        BY <2>4, <3>1, <4>1, <4>2
    <3>2. QED
      BY <2>4, <3>1
  <2>7. Found(c)'
    <3>1. Asked(c, q)' = Asked(c, q)
      BY DEF Asked
    <3>2. QED
      BY <2>2, <2>4, <2>6, <3>1 DEF Found
  <2>8. Fetching(c, p)'
    BY <1>2, <1>5, <2>2, <2>3 DEF Fetching
  <2>9. ASSUME NEW r \in Nodes \ {p} PROVE Fetching(c, r)'
    <3>1. xfer'[c][r].pc \in {"idle", "end"} /\ xfer'[c][r].res # "ok"
      BY <1>2, <2>3
    <3>2. QED
      BY <2>2, <3>1 DEF Fetching, Got, Live
  <2>10. QED
    BY <1>1, <1>3, <1>5, <2>2, <2>7, <2>8, <2>9 DEF Finds, HeldGet, Waits
<1>6. QED
  BY <1>4, <1>5

\* A body that somebody else receives is not of the version a get waits for, or
\* lies elsewhere.
LEMMA FillElsewhere ==
  ASSUME OnlyGetterDeletes, ServerInv, StayInv, FindInv,
         NEW c \in Clients, NEW p \in Nodes, xfer[c][p].pc \in Live,
         NEW j, ChangesOnly(Into(c, p), j),
         call[c].op = "share" =>
           \/ j \in Fresh
           \/ xfer[c][p].pc \in {"recv", "check", "good"} /\ j = xfer[c][p].entry.id,
         NEW d \in Clients, d # c, Waits(d)
  PROVE  Leaves(Own(d, call[d].key), call[d].id)
<1> DEFINE s == Own(d, call[d].key)
           id == call[d].id
<1>1. /\ s \in Shelves /\ id \in VersionIDs /\ AtHome(s)
      /\ "delete" \in Ops[d]
      /\ \E q \in Nodes : <<Asked(d, q), id>> \in confirmed
  BY WaitingGet DEF Own, AtHome
<1>2. p # At[c] /\ call[c].op \in {"put", "share", "get"} /\ TypeOK
  BY DEF StayInv, Elsewhere, Live, ServerInv, TypeOK, CallRecord
<1>3. CASE call[c].op = "put"
  <2>1. Into(c, p) # s
    BY <1>1, <1>2, <1>3, PutFacts
  <2>2. QED
    BY <1>1, <2>1 DEF ChangesOnly
<1>4. CASE call[c].op = "share"
  <2>1. j # id
    <3>1. CASE j \in Fresh
      BY <3>1 DEF Fresh
    <3>2. CASE xfer[c][p].pc \in {"recv", "check", "good"} /\ j = xfer[c][p].entry.id
      <4>1. \A r \in confirmed : r[2] # j
        BY <1>4, <3>2 DEF StayInv, Drawn
      <4>2. \A q \in Nodes : <<Asked(d, q), id>>[2] = id
        OBVIOUS
      <4>3. QED
        BY <1>1, <4>1, <4>2
    <3>3. QED
      BY <1>4, <3>1, <3>2
  <2>2. QED
    BY <1>1, <2>1 DEF ChangesOnly
<1>5. CASE call[c].op = "get"
  <2>1. Into(c, p) = Own(c, call[c].key) /\ Ops[c] \cap {"get", "getLatest"} # {}
    BY <1>2, <1>5, IntoShelf DEF StayInv, Begun, Pushes
  <2>2. At[c] # At[d]
    BY <1>1, <2>1 DEF OnlyGetterDeletes
  <2>3. Into(c, p) # s
    BY <2>1, <2>2 DEF Own
  <2>4. QED
    BY <1>1, <2>3 DEF ChangesOnly
<1>6. QED
  BY <1>2, <1>3, <1>4, <1>5

LEMMA FillsFinds ==
  ASSUME OnlyGetterDeletes, ServerInv, StayInv, FindInv, ConfirmedLeft,
         NEW c \in Clients, NEW p \in Nodes, NEW j, Fills(c, p, j)
  PROVE  FindInv'
<1> DEFINE x == xfer[c][p]
           y == xfer'[c][p]
           id == call[c].id
<1>1. /\ call' = call /\ confirmed' = confirmed /\ OthersSame(c, p)
      /\ j \in VersionIDs /\ ChangesOnly(Into(c, p), j)
      /\ x.pc \in {"ready", "recv"} /\ y.pc \in {"recv", "check"} /\ y.entry.id = j
      /\ IF call[c].op = "share" /\ x.pc = "ready" THEN j \in Fresh ELSE j = x.entry.id
      /\ y.src = x.src /\ y.want = x.want /\ y.res = x.res
      /\ blob'[Into(c, p)][j] # NoBlob
      /\ y.pc = "recv" => y.n = x.n \/ (x.n < x.want /\ y.n = x.n + 1)
      /\ y.pc = "check" => BodyOver(x) /\ y.n = x.n
      /\ y.pc = "check" => \E e \in Entries(index'[Into(c, p)].versions) : e.id = j
  BY DEF Fills
<1>2. \A d \in Clients, q \in Nodes : <<d, q>> # <<c, p>> => Stays(d, q)
  BY <1>1 DEF OthersSame, Stays
<1>3. x.pc \in Live /\ x.res = "none" /\ x \in TransferRecord
  BY <1>1 DEF Live, FindInv, Finds, Unbroken, ServerInv, TypeOK
<1>4. call[c].op = "share" => j \in Fresh \/ (x.pc = "recv" /\ j = x.entry.id)
  BY <1>1
<1>5. \A d \in Clients : d # c /\ Waits(d) => Leaves(Own(d, call[d].key), call[d].id)
  BY <1>1, <1>3, <1>4, FillElsewhere
<1>6. ASSUME Waits(c)
      PROVE  /\ <<Asked(c, p), id>> \in confirmed /\ GoodWay(c, p) => GoodWay(c, p)'
             /\ y.entry.id = id
             /\ Got(y) => There(Own(c, call[c].key), id)'
  <2>1. /\ call[c].op = "get" /\ Into(c, p) = Own(c, call[c].key)
        /\ id \in VersionIDs /\ id # NoVersion
    BY <1>6, WaitingGet, IntoShelf DEF ServerInv
  <2>2. x.entry.id = id /\ j = id
    BY <1>1, <1>3, <1>6, <2>1 DEF FindInv, Finds, HeldGet, Waits, Fetching
  <2>3. Got(y) => There(Own(c, call[c].key), id)'
    BY <1>1, <1>3, <2>1, <2>2 DEF Got, There, Own
  <2>4. ASSUME <<Asked(c, p), id>> \in confirmed, GoodWay(c, p) PROVE GoodWay(c, p)'
    <3> DEFINE s == Asked(c, p)
    <3>1. x.src = Opened(s, id) /\ x.want = blob[s][id].n /\ x.n <= x.want
      BY <1>3, <2>4 DEF GoodWay
    <3>2. blob'[s][id] = blob[s][id]
      BY <2>4, ConfirmedCopy
    <3>3. Body(x.src) = blob[s][id]
      BY <2>1, <3>1 DEF Body, Opened
    <3>4. x.n \in Nat /\ x.want \in Nat
      BY <1>3, FileServerAssumption DEF TransferRecord
    <3>5. y.pc = "check" => y.n = x.want
      <4>1. "short" \notin Faults
        BY DEF OnlyGetterDeletes
      <4>2. QED
        BY <1>1, <3>1, <3>3, <3>4, <4>1 DEF BodyOver
    <3>6. y.n <= x.want
      BY <1>1, <3>1, <3>4, <3>5
    <3>7. s' = s /\ call'[c].id = id
      BY <1>1 DEF Asked
    <3> HIDE DEF s
    <3>8. y.src = Opened(s, id) /\ y.want = blob'[s][id].n
      BY <1>1, <3>1, <3>2
    <3>9. QED
      BY <1>1, <3>5, <3>6, <3>7, <3>8 DEF GoodWay, Live, s
  <2>5. QED
    BY <1>1, <2>2, <2>3, <2>4
<1>7. Finds(c)'
  <2>1. x.pc \notin {"idle", "end"} /\ y.res = "none" /\ call'[c] = call[c]
    BY <1>1, <1>3
  <2>2. \A q \in Nodes \ {p} : Stays(c, q)
    BY <1>2
  <2>3. QED
    BY <1>1, <1>6, <2>1, <2>2, StreamFinds
<1>8. QED
  BY <1>1, <1>2, <1>5, <1>7, AllFinds

LEMMA ReceiveFinds ==
  ASSUME OnlyGetterDeletes, MaxVersions = 0, ServerInv, StayInv, FindInv, NEW c \in Clients, NEW p \in Nodes,
         Receive(c, p) \/ Block(c, p) \/ FinishBody(c, p)
  PROVE  FindInv'
<1>1. PICK j : Fills(c, p, j)
  BY ReceiveFills, BlockFills, FinishBodyFills
<1>2. ConfirmedLeft
  BY ReceiveStays, BlockStays, FinishBodyStays
<1>3. QED
  BY <1>1, <1>2, FillsFinds

LEMMA CheckCountFinds ==
  ASSUME OnlyGetterDeletes, ServerInv, StayInv, FindInv, NEW c \in Clients, NEW p \in Nodes, CheckCount(c, p)
  PROVE  FindInv'
<1> DEFINE x == xfer[c][p]
           y == xfer'[c][p]
           id == call[c].id
<1>1. /\ UNCHANGED <<call, confirmed>>
      /\ ChangesOnly(Into(c, p), x.entry.id)
      /\ \A d \in Clients, q \in Nodes : <<d, q>> # <<c, p>> => Stays(d, q)
      /\ x.pc = "check" /\ y.res = x.res
      /\ \/ /\ y.pc = "good" /\ x.n = x.want /\ UNCHANGED <<index, blob>>
            /\ y.entry = x.entry /\ y.n = x.n /\ y.want = x.want /\ y.src = x.src
         \/ y.pc = "bad" /\ x.n # x.want
  BY CheckCountChanges
<1>2. ConfirmedLeft
  BY CheckCountStays
<1>3. x.pc \in Live /\ x.res = "none"
  BY <1>1 DEF Live, FindInv, Finds, Unbroken
<1>4. \A d \in Clients : d # c /\ Waits(d) => Leaves(Own(d, call[d].key), call[d].id)
  BY <1>1, <1>3, FillElsewhere
<1>5. ASSUME Waits(c)
      PROVE  /\ <<Asked(c, p), id>> \in confirmed /\ GoodWay(c, p) => GoodWay(c, p)'
             /\ y.pc \in {"info"} \cup Live => y.entry.id = id
             /\ Got(y) => There(Own(c, call[c].key), id)'
  <2>1. CASE y.pc = "bad" /\ x.n # x.want
    <3>1. ~GoodWay(c, p)
      BY <1>1, <2>1 DEF GoodWay
    <3>2. QED
      BY <1>1, <1>3, <2>1, <3>1 DEF Got, Live
  <2>2. CASE /\ y.pc = "good" /\ x.n = x.want /\ UNCHANGED <<index, blob>>
             /\ y.entry = x.entry /\ y.n = x.n /\ y.want = x.want /\ y.src = x.src
    <3>1. x.entry.id = id /\ There(Own(c, call[c].key), id)
      BY <1>1, <1>3, <1>5 DEF FindInv, Finds, HeldGet, Waits, Fetching, Got
    <3>2. There(Own(c, call[c].key), id)'
      BY <1>1, <2>2, <3>1 DEF There
    <3>3. GoodWay(c, p) => GoodWay(c, p)'
      BY <1>1, <2>2 DEF GoodWay, Live, Asked
    <3>4. QED
      BY <2>2, <3>1, <3>2, <3>3
  <2>3. QED
    BY <1>1, <2>1, <2>2
<1>6. Finds(c)'
  <2>1. x.pc \notin {"idle", "end"} /\ y.res = "none" /\ call'[c] = call[c]
    BY <1>1, <1>3
  <2>2. \A q \in Nodes \ {p} : Stays(c, q)
    BY <1>1
  <2>3. QED
    BY <1>1, <1>2, <1>5, <2>1, <2>2, StreamFinds
<1>7. QED
  BY <1>1, <1>2, <1>4, <1>6, AllFinds

LEMMA QuietStreamFinds ==
  ASSUME ServerInv, StayInv, FindInv, UNCHANGED <<index, blob, call>>, confirmed \subseteq confirmed',
         NEW c \in Clients, NEW p \in Nodes, OthersSame(c, p),
         xfer[c][p].pc \notin {"idle", "end"},
         xfer'[c][p].pc # "end" => xfer'[c][p].res = "none",
         Waits(c) =>
           /\ <<Asked(c, p), call[c].id>> \in confirmed /\ GoodWay(c, p) => GoodWay(c, p)'
           /\ xfer'[c][p].pc \in {"info"} \cup Live => xfer'[c][p].entry.id = call[c].id
           /\ Got(xfer'[c][p]) => There(Own(c, call[c].key), call[c].id)
  PROVE  FindInv'
<1>1. ConfirmedLeft
  BY DEF ConfirmedLeft, Leaves
<1>2. /\ \A q \in Nodes \ {p} : Stays(c, q)
      /\ \A d \in Clients : d # c => call'[d] = call[d] /\ \A q \in Nodes : xfer'[d][q] = xfer[d][q]
  BY DEF OthersSame, Stays
<1>3. There(Own(c, call[c].key), call[c].id) => There(Own(c, call[c].key), call[c].id)'
  BY DEF There
<1>4. Finds(c)'
  BY <1>1, <1>2, <1>3, StreamFinds
<1>5. QED
  BY <1>2, <1>4, QuietFinds

\* A listed version of a shelf can be named and opened.
LEMMA ThereReadable ==
  ASSUME NEW s \in Shelves, NEW id, id # NoVersion, There(s, id)
  PROVE  /\ CanResolve(index[s], id) /\ Readable(s, id)
         /\ resolveVersion(index[s], id).id = id
<1>1. CanResolve(index[s], id) /\ ResolvedId(index[s], id) = id
  BY IdsOfEntries DEF There, CanResolve, ResolvedId
<1>2. resolveVersion(index[s], id).id = id
  BY <1>1, ResolvedListed
<1>3. QED
  BY <1>1, <1>2 DEF There, Readable

LEMMA VersionInfoFinds ==
  ASSUME ServerInv, StayInv, FindInv, NEW c \in Clients, NEW p \in Nodes, VersionInfo(c, p)
  PROVE  FindInv'
<1> DEFINE x == xfer[c][p]
           s == <<p, At[c], call[c].key>>
           e == resolveVersion(index[s], call[c].id)
           can == CanResolve(index[s], call[c].id)
           y == IF can THEN [x EXCEPT !.pc = "info", !.entry = e] ELSE [x EXCEPT !.pc = "bad"]
<1>1. TypeOK /\ x \in TransferRecord /\ Unbroken(c, p) /\ s \in Shelves
  BY PeerShelf DEF ServerInv, TypeOK, FindInv, Finds
<1>2. /\ x.pc = "open"
      /\ xfer' = [xfer EXCEPT ![c] = [xfer[c] EXCEPT ![p] = y]]
      /\ UNCHANGED <<index, blob, call, confirmed>>
  BY <1>1 DEF VersionInfo, TypeOK
<1>3. /\ y.pc = IF can THEN "info" ELSE "bad"
      /\ can => y.entry = e
      /\ y.res = "none"
  BY <1>1, <1>2 DEF TransferRecord, Unbroken
<1> HIDE DEF y
<1>4. xfer'[c][p] = y /\ OthersSame(c, p)
  BY <1>1, <1>2 DEF TypeOK, OthersSame
<1>5. ASSUME Waits(c)
      PROVE  /\ <<Asked(c, p), call[c].id>> \in confirmed /\ GoodWay(c, p) => GoodWay(c, p)'
             /\ y.pc \in {"info"} \cup Live => y.entry.id = call[c].id
             /\ Got(y) => There(Own(c, call[c].key), call[c].id)
  <2>1. call[c].id # NoVersion
    BY <1>5, WaitingGet
  <2>2. can => e.id = call[c].id
    BY <2>1, ResolvedListed DEF ResolvedId
  <2>3. <<Asked(c, p), call[c].id>> \in confirmed => can
    <3>1. ConfirmedLeft
      BY <1>2 DEF ConfirmedLeft, Leaves
    <3>2. Asked(c, p) = s
      BY DEF Asked
    <3>3. QED
      BY <1>1, <2>1, <3>1, <3>2, ConfirmedCopy, ThereReadable
  <2>4. QED
    BY <1>3, <1>4, <2>2, <2>3 DEF GoodWay, Got, Live
<1>6. QED
  BY <1>2, <1>3, <1>4, <1>5, QuietStreamFinds

LEMMA ReadVersionRawFinds ==
  ASSUME ServerInv, StayInv, FindInv, NEW c \in Clients, NEW p \in Nodes, ReadVersionRaw(c, p)
  PROVE  FindInv'
<1> DEFINE x == xfer[c][p]
           s == <<p, At[c], call[c].key>>
           id == resolveVersion(index[s], call[c].id).id
           can == Readable(s, call[c].id)
           y == IF can THEN [x EXCEPT !.pc = "ready", !.src = Opened(s, id), !.want = blob[s][id].n]
                ELSE [x EXCEPT !.pc = "bad"]
<1>1. TypeOK /\ TransferOK(c, p) /\ x \in TransferRecord /\ Unbroken(c, p) /\ s \in Shelves
  BY PeerShelf DEF ServerInv, TypeOK, FindInv, Finds
<1>2. /\ x.pc = "info" /\ x.n = 0
      /\ xfer' = [xfer EXCEPT ![c] = [xfer[c] EXCEPT ![p] = y]]
      /\ UNCHANGED <<index, blob, call, confirmed>>
  BY <1>1 DEF ReadVersionRaw, TypeOK, TransferOK
<1>3. /\ y.pc = IF can THEN "ready" ELSE "bad"
      /\ can => y.src = Opened(s, id) /\ y.want = blob[s][id].n
      /\ y.res = "none" /\ y.entry = x.entry /\ y.n = 0
  BY <1>1, <1>2 DEF TransferRecord, Unbroken
<1> HIDE DEF y
<1>4. xfer'[c][p] = y /\ OthersSame(c, p)
  BY <1>1, <1>2 DEF TypeOK, OthersSame
<1>5. ASSUME Waits(c)
      PROVE  /\ <<Asked(c, p), call[c].id>> \in confirmed /\ GoodWay(c, p) => GoodWay(c, p)'
             /\ y.pc \in {"info"} \cup Live => y.entry.id = call[c].id
             /\ Got(y) => There(Own(c, call[c].key), call[c].id)
  <2>1. call[c].id # NoVersion /\ x.entry.id = call[c].id
    BY <1>2, <1>5, WaitingGet DEF FindInv, Finds, HeldGet, Waits, Fetching
  <2>2. ASSUME <<Asked(c, p), call[c].id>> \in confirmed PROVE GoodWay(c, p)'
    <3>1. ConfirmedLeft /\ Asked(c, p) = s
      BY <1>2 DEF ConfirmedLeft, Leaves, Asked
    <3>2. /\ can /\ id = call[c].id
          /\ blob[s][call[c].id] # NoBlob /\ call[c].id \in VersionIDs
      BY <1>1, <2>1, <2>2, <3>1, ConfirmedCopy, ThereReadable
    <3>3. blob[s][call[c].id].n \in Nat
      BY <1>1, <3>2, BlobTypes DEF TypeOK
    <3>4. Asked(c, p)' = s /\ blob' = blob /\ call'[c] = call[c]
      BY <1>2 DEF Asked
    <3> HIDE DEF s, id, can
    <3>5. /\ y.pc = "ready" /\ y.src = Opened(s, call[c].id) /\ y.want = blob[s][call[c].id].n
          /\ y.n <= y.want
      BY <1>3, <3>2, <3>3
    <3>6. QED
      BY <1>4, <3>4, <3>5 DEF GoodWay, Live
  <2>3. QED
    BY <1>3, <2>1, <2>2 DEF Got
<1>6. QED
  BY <1>2, <1>3, <1>4, <1>5, QuietStreamFinds

LEMMA ReplyFinds ==
  ASSUME ServerInv, StayInv, FindInv, NEW c \in Clients, NEW p \in Nodes, Reply(c, p)
  PROVE  FindInv'
<1> DEFINE x == xfer[c][p]
           y == xfer'[c][p]
           res == IF x.res # "none" THEN x.res ELSE IF x.pc = "good" THEN "ok" ELSE "failed"
<1>1. /\ TypeOK /\ x \in TransferRecord /\ Unbroken(c, p) /\ x.pc \in {"good", "bad"}
      /\ UNCHANGED <<index, blob, call>> /\ confirmed \subseteq confirmed'
  BY DEF ServerInv, TypeOK, Reply, FindInv, Finds
<1>2. OthersSame(c, p) /\ y.pc = "end" /\ y.res = res
  <2>1. xfer' = [xfer EXCEPT ![c][p].pc = "end", ![c][p].src = NoFile, ![c][p].res = res]
    BY <1>1 DEF Reply, TypeOK, TransferRecord
  <2> HIDE DEF res
  <2>2. QED
    BY <1>1, <2>1 DEF TypeOK, TransferRecord, OthersSame
<1>3. y.res = IF x.pc = "good" THEN "ok" ELSE "failed"
  BY <1>1, <1>2 DEF Unbroken
<1>4. ASSUME Waits(c)
      PROVE  /\ GoodWay(c, p) => GoodWay(c, p)'
             /\ Got(y) => There(Own(c, call[c].key), call[c].id)
  <2>1. GoodWay(c, p) => GoodWay(c, p)'
    BY <1>1, <1>2, <1>3 DEF GoodWay, Live
  <2>2. Got(y) => Got(x)
    BY <1>1, <1>2, <1>3 DEF Got
  <2>3. Got(x) => There(Own(c, call[c].key), call[c].id)
    BY <1>4 DEF FindInv, Finds, HeldGet, Waits, Fetching
  <2>4. QED
    BY <2>1, <2>2, <2>3
<1>5. x.pc \notin {"idle", "end"} /\ y.pc \notin {"info"} \cup Live
  BY <1>1, <1>2 DEF Live
<1>6. QED
  BY <1>1, <1>2, <1>4, <1>5, QuietStreamFinds

LEMMA OpenLocalFinds ==
  ASSUME ServerInv, StayInv, FindInv, NEW c \in Clients, NEW p \in Nodes, OpenLocal(c, p)
  PROVE  FindInv'
<1> DEFINE x == xfer[c][p]
           s == Own(c, call[c].key)
           id == IF call[c].op = "put" THEN call[c].entry.id ELSE call[c].id
           e == resolveVersion(index[s], id)
           want == IF call[c].op = "put" THEN blob[s][e.id].n ELSE e.data.n
           y == IF Readable(s, id)
                  THEN [x EXCEPT !.pc = "ready", !.src = Opened(s, e.id),
                                 !.entry = call[c].entry, !.want = want]
                  ELSE [x EXCEPT !.pc = "end", !.res = "failed"]
<1>1. TypeOK /\ x \in TransferRecord /\ Unbroken(c, p)
  BY DEF ServerInv, TypeOK, FindInv, Finds
<1>2. /\ Pushing(c) /\ x.pc = "open"
      /\ xfer' = [xfer EXCEPT ![c] = [xfer[c] EXCEPT ![p] = y]]
      /\ UNCHANGED <<index, blob, call, confirmed>>
  BY <1>1 DEF OpenLocal, TypeOK
<1> HIDE DEF s, id, e, want
<1>3. y.pc # "end" => y.res = "none"
  BY <1>1, <1>2 DEF TransferRecord, Unbroken
<1> HIDE DEF y
<1>4. xfer'[c][p] = y /\ OthersSame(c, p)
  BY <1>1, <1>2 DEF TypeOK, OthersSame
<1>5. ~Waits(c)
  BY <1>2, WaitingGet DEF Pushing
<1>6. QED
  BY <1>2, <1>3, <1>4, <1>5, QuietStreamFinds

\* Without faults no stream fails.
LEMMA NothingBreaks ==
  ASSUME OnlyGetterDeletes, FindInv, NEW c \in Clients
  PROVE  /\ \A p \in Nodes : ~GiveUp(c, p) /\ ~Break(c, p)
         /\ \A n \in Nodes : ~Crash(n)
         /\ ~Disconnect(c)
<1>1. "net" \notin Faults /\ "crash" \notin Faults /\ "disconnect" \notin Ops[c]
  BY DEF OnlyGetterDeletes
<1>2. \A p \in Nodes : Unbroken(c, p)
  BY DEF FindInv, Finds
<1>3. \A p \in Nodes : ~Break(c, p)
  BY <1>1, <1>2 DEF Break, Exposed, Unbroken
<1>4. QED
  BY <1>1, <1>3 DEF GiveUp, Crash, Disconnect, Idle

\* A call that holds no such get.
LEMMA NoneHeld ==
  ASSUME NEW c \in Clients, ~call'[c].held,
         \A p \in Nodes : /\ xfer'[c][p].pc # "end" => xfer'[c][p].res = "none"
                          /\ call'[c].pc \in {"idle", "stored", "here"} => xfer'[c][p].pc = "idle"
  PROVE  Finds(c)'
BY DEF Finds, HeldGet, Unbroken

LEMMA FanResults ==
  /\ NoTransfer.pc = "idle" /\ NoTransfer.res = "none"
  /\ Opening.pc = "open" /\ Opening.res = "none" /\ Opening.n = 0
BY DEF Opening, NoTransfer

\* A call that is free holds no get, and no stream.
LEMMA FreeCall ==
  ASSUME FindInv, NEW c \in Clients, call[c].pc \in {"idle", "stored"}
  PROVE  ~call[c].held /\ \A p \in Nodes : xfer[c][p].pc = "idle" /\ xfer[c][p].res = "none"
BY DEF FindInv, Finds, HeldGet, Unbroken

LEMMA ShareToFinds ==
  ASSUME ServerInv, StayInv, FindInv, NEW c \in Clients, call[c].pc \in {"idle", "stored"},
         NEW k, NEW dest, NEW id, NEW targets, ShareTo(c, k, dest, id, targets)
  PROVE  FindInv'
<1>1. /\ TypeOK /\ UNCHANGED <<index, blob, confirmed>> /\ ~call[c].held
      /\ \A p \in Nodes : xfer[c][p].pc = "idle" /\ xfer[c][p].res = "none"
  BY FreeCall DEF ServerInv, ShareTo
<1>2. CASE /\ xfer' = Fan(c, targets)
           /\ call' = [call EXCEPT ![c].pc = "fan", ![c].op = "share", ![c].key = k,
                                   ![c].dest = dest, ![c].id = id, ![c].left = {}]
  <2>1. /\ ~call'[c].held /\ call'[c].pc = "fan"
        /\ \A d \in Clients : d # c => call'[d] = call[d]
    BY <1>1, <1>2 DEF TypeOK, CallRecord
  <2>2. /\ \A d \in Clients : d # c => xfer'[d] = xfer[d]
        /\ \A p \in Nodes : xfer'[c][p] = IF p \in targets THEN Opening ELSE NoTransfer
    BY <1>1, <1>2, FanTyped
  <2>3. Finds(c)'
    BY <2>1, <2>2, FanResults, NoneHeld
  <2>4. QED
    BY <1>1, <2>1, <2>2, <2>3, QuietFinds
<1>3. CASE call' = [call EXCEPT ![c].pc = "returned"] /\ UNCHANGED xfer
  <2>1. /\ ~call'[c].held /\ call'[c].pc = "returned"
        /\ \A d \in Clients : d # c => call'[d] = call[d]
    BY <1>1, <1>3 DEF TypeOK, CallRecord
  <2>2. Finds(c)'
    BY <1>1, <1>3, <2>1, NoneHeld
  <2>3. QED
    BY <1>1, <1>3, <2>1, <2>2, QuietFinds
<1>4. QED
  BY <1>2, <1>3 DEF ShareTo

LEMMA ShareFinds ==
  ASSUME ServerInv, StayInv, FindInv, NEW c \in Clients, Share(c) \/ ShareStored(c)
  PROVE  FindInv'
<1>1. CASE Share(c)
  <2>1. PICK k \in Keys, dest \in Keys, id \in IdOrNone, targets \in Targets(c) :
          call[c].pc = "idle" /\ ShareTo(c, k, dest, id, targets)
    BY <1>1 DEF Share, Idle
  <2>2. QED
    BY <2>1, ShareToFinds
<1>2. CASE ShareStored(c)
  BY <1>2, ShareToFinds DEF ShareStored
<1>3. QED
  BY <1>1, <1>2

LEMMA FanDoneFinds ==
  ASSUME ServerInv, StayInv, FindInv, NEW c \in Clients, FanDone(c)
  PROVE  FindInv'
<1>1. /\ TypeOK /\ call[c].pc = "fan" /\ call' = [call EXCEPT ![c].pc = "returned"]
      /\ UNCHANGED <<index, blob, xfer, confirmed>>
  BY DEF ServerInv, FanDone
<1>2. ~call[c].held /\ \A p \in Nodes : xfer[c][p].pc # "end" => xfer[c][p].res = "none"
  BY <1>1 DEF FindInv, Finds, HeldGet, Unbroken
<1>3. /\ ~call'[c].held /\ call'[c].pc = "returned"
      /\ \A d \in Clients : d # c => call'[d] = call[d]
  BY <1>1, <1>2 DEF TypeOK, CallRecord
<1>4. Finds(c)'
  BY <1>1, <1>2, <1>3, NoneHeld
<1>5. QED
  BY <1>1, <1>3, <1>4, QuietFinds

LEMMA ForgetFinds ==
  ASSUME ServerInv, StayInv, FindInv, NEW c \in Clients, Forget(c)
  PROVE  FindInv'
<1>1. /\ TypeOK
      /\ call' = [call EXCEPT ![c] = NoCall]
      /\ xfer' = [xfer EXCEPT ![c] = [p \in Nodes |-> NoTransfer]]
      /\ UNCHANGED <<index, blob, confirmed>>
  BY DEF ServerInv, Forget
<1>2. /\ call'[c] = NoCall /\ \A p \in Nodes : xfer'[c][p] = NoTransfer
      /\ \A d \in Clients : d # c => call'[d] = call[d] /\ xfer'[d] = xfer[d]
  BY <1>1 DEF TypeOK
<1>3. ~NoCall.held
  BY DEF NoCall
<1>4. Finds(c)'
  BY <1>2, <1>3, FanResults, NoneHeld
<1>5. QED
  BY <1>1, <1>2, <1>4, QuietFinds

LEMMA WriteFinds ==
  ASSUME MaxVersions = 0, ServerInv, StayInv, FindInv, ConfirmedLeft,
         NEW c \in Clients, NEW k \in Keys, NEW id \in Fresh,
         NEW next \in [Clients -> [Nodes -> TransferRecord]], WriteLocal(c, k, id, next),
         \A d \in Clients : d # c => call'[d] = call[d] /\ next[d] = xfer[d],
         ~call'[c].held,
         \A p \in Nodes : /\ next[c][p].res = "none"
                          /\ call'[c].pc \in {"idle", "stored", "here"} => next[c][p].pc = "idle"
  PROVE  FindInv'
<1>1. xfer' = next /\ confirmed' = confirmed /\ ChangesOnly(Own(c, k), id)
  BY WriteChanges
<1>2. Finds(c)'
  BY <1>1, NoneHeld
<1>3. \A d \in Clients : d # c => \A q \in Nodes : Stays(d, q)
  BY <1>1 DEF Stays
<1>4. ASSUME NEW d \in Clients, Waits(d) PROVE Leaves(Own(d, call[d].key), call[d].id)
  <2>1. /\ Own(d, call[d].key) \in Shelves /\ call[d].id \in VersionIDs
    BY <1>4, WaitingGet
  <2>2. call[d].id # id
    BY DEF Fresh
  <2>3. QED
    BY <1>1, <2>1, <2>2 DEF ChangesOnly
<1>5. QED
  BY <1>1, <1>2, <1>3, <1>4, AllFinds

LEMMA StoreVersionFinds ==
  ASSUME MaxVersions = 0, ServerInv, StayInv, FindInv, NEW c \in Clients, StoreVersion(c)
  PROVE  FindInv'
<1>1. PICK k \in Keys, id \in Fresh, connected \in Peers(At[c]) :
        \E peers \in selectPeers(connected) :
          /\ WriteLocal(c, k, id, Fan(c, peers))
          /\ call' = [call EXCEPT ![c] =
               [NoCall EXCEPT !.pc = "fan", !.op = "put", !.key = k,
                              !.entry = NewEntry(c, k, id)]]
  BY DEF StoreVersion, NewEntry
<1>2. PICK peers \in selectPeers(connected) :
        /\ WriteLocal(c, k, id, Fan(c, peers))
        /\ call' = [call EXCEPT ![c] =
             [NoCall EXCEPT !.pc = "fan", !.op = "put", !.key = k,
                            !.entry = NewEntry(c, k, id)]]
  BY <1>1
<1>3. TypeOK /\ ConfirmedLeft
  BY StoreVersionStays DEF ServerInv
<1>4. /\ ~call'[c].held /\ call'[c].pc = "fan"
      /\ \A d \in Clients : d # c => call'[d] = call[d]
  BY <1>2, <1>3 DEF TypeOK, NoCall
<1>5. /\ Fan(c, peers) \in [Clients -> [Nodes -> TransferRecord]]
      /\ \A d \in Clients : d # c => Fan(c, peers)[d] = xfer[d]
      /\ \A p \in Nodes : Fan(c, peers)[c][p] = IF p \in peers THEN Opening ELSE NoTransfer
  BY <1>3, FanTyped
<1>6. \A p \in Nodes : Fan(c, peers)[c][p].res = "none"
  BY <1>5, FanResults
<1>7. QED
  BY <1>2, <1>3, <1>4, <1>5, <1>6, WriteFinds

LEMMA StoreLocalFinds ==
  ASSUME MaxVersions = 0, ServerInv, StayInv, FindInv, NEW c \in Clients, StoreLocal(c)
  PROVE  FindInv'
<1>1. PICK k \in Keys, id \in Fresh, targets \in Targets(c) :
        /\ call[c].pc = "idle"
        /\ WriteLocal(c, k, id, xfer)
        /\ call' = [call EXCEPT ![c] = [NoCall EXCEPT !.pc = "stored", !.key = k, !.left = targets]]
  BY DEF StoreLocal, Idle
<1>2. TypeOK /\ xfer \in [Clients -> [Nodes -> TransferRecord]] /\ ConfirmedLeft
  BY StoreLocalStays DEF ServerInv, TypeOK
<1>3. ~call'[c].held /\ \A d \in Clients : d # c => call'[d] = call[d]
  BY <1>1, <1>2 DEF TypeOK, NoCall
<1>4. \A p \in Nodes : xfer[c][p].res = "none" /\ xfer[c][p].pc = "idle"
  BY <1>1, FreeCall
<1>5. QED
  BY <1>1, <1>2, <1>3, <1>4, WriteFinds

LEMMA DeleteFinds ==
  ASSUME OnlyGetterDeletes, ServerInv, StayInv, FindInv, NEW c \in Clients, Delete(c)
  PROVE  FindInv'
<1>1. /\ UNCHANGED <<call, confirmed>> /\ call[c].pc = "idle" /\ "delete" \in Ops[c]
      /\ \A d \in Clients, q \in Nodes : Stays(d, q)
  BY DeleteChanges
<1>2. PICK k \in Keys : \A t \in Shelves, i \in VersionIDs : t # Own(c, k) => Leaves(t, i)
  BY DeleteChanges
<1>3. ConfirmedLeft
  BY DeleteStays
<1>4. ASSUME NEW d \in Clients, Waits(d) PROVE Leaves(Own(d, call[d].key), call[d].id)
  <2>1. /\ Own(d, call[d].key) \in Shelves /\ call[d].id \in VersionIDs
        /\ Ops[d] \cap {"get", "getLatest"} # {}
    BY <1>4, WaitingGet
  <2>2. c # d
    BY <1>1, <1>4 DEF Waits
  <2>3. At[c] # At[d]
    BY <1>1, <2>1, <2>2 DEF OnlyGetterDeletes
  <2>4. Own(d, call[d].key) # Own(c, k)
    BY <2>3 DEF Own
  <2>5. QED
    BY <1>2, <2>1, <2>4
<1>5. Finds(c)'
  BY <1>1, <1>3, <1>4, OtherFinds
<1>6. QED
  BY <1>1, <1>3, <1>4, <1>5, AllFinds

-----------------------------------------------------------------------------
(* Where nobody deletes, nothing that was put goes: what a fetch brings    *)
(* home over it is complete, for no other stream changes the copy it reads.*)
(***************************************************************************)
NoDeleter(n) == \A e \in Clients : At[e] = n => "delete" \notin Ops[e]
\* A fetch promises what its source holds, and its source stays that long.
FetchWhole(c, p) ==
    LET x == xfer[c][p]
        f == x.src
    IN  call[c].op = "get" /\ x.pc \in Live =>
          /\ IF f.id = NoVersion
               THEN f.data.n = x.want
               ELSE /\ There(f.shelf, f.id) /\ ~AtHome(f.shelf)
                    /\ blob[f.shelf][f.id].n = x.want
          /\ x.n <= x.want
          /\ x.pc \in {"check", "good"} => x.n = x.want
PutHome(c) ==
    call[c].op = "put" /\ NoDeleter(At[c]) => There(Own(c, call[c].key), call[c].entry.id)
HomeOf(s) == <<s[2], s[2], s[3]>>
ConfirmedHome == \A r \in confirmed : NoDeleter(r[1][2]) => There(HomeOf(r[1]), r[2])
HomeInv == /\ \A c \in Clients, p \in Nodes : FetchWhole(c, p)
           /\ \A c \in Clients : PutHome(c)
           /\ ConfirmedHome
\* The versions that puts made.
Claimed(i) == \/ \E c \in Clients : call[c].op = "put" /\ call[c].entry.id = i
              \/ \E r \in confirmed : r[2] = i
ThereNext(s, i) == (\E e \in Entries(index'[s].versions) : e.id = i) /\ blob'[s][i] # NoBlob
HomeKept ==
    \A s \in Shelves, i \in VersionIDs :
        AtHome(s) /\ NoDeleter(s[1]) /\ Claimed(i) /\ There(s, i) => ThereNext(s, i)

LEMMA HomeStep ==
  ASSUME ServerInv, HomeInv, HomeKept, UNCHANGED confirmed,
         \A d \in Clients : PutHome(d)' \/ call'[d].op # "put" \/ CallKept(d),
         \A d \in Clients, q \in Nodes : FetchWhole(d, q)'
  PROVE  HomeInv'
<1>1. ASSUME NEW d \in Clients PROVE PutHome(d)'
  <2>1. CASE call'[d].op # "put"
    BY <2>1 DEF PutHome
  <2>2. CASE CallKept(d) /\ call'[d].op = "put"
    <3>1. call[d].op = "put" /\ call'[d].key = call[d].key /\ call'[d].entry = call[d].entry
      BY <2>2 DEF CallKept, SameCall
    <3>2. /\ Own(d, call[d].key) \in Shelves /\ AtHome(Own(d, call[d].key))
          /\ call[d].entry.id \in VersionIDs
      BY <3>1, PutFacts
    <3>3. Own(d, call[d].key)[1] = At[d]
      BY DEF Own
    <3>4. NoDeleter(At[d]) => ThereNext(Own(d, call[d].key), call[d].entry.id)
      BY <3>1, <3>2, <3>3 DEF HomeInv, PutHome, HomeKept, Claimed
    <3>5. QED
      BY <3>1, <3>4 DEF PutHome, There, ThereNext, Own, NoDeleter
  <2>3. QED
    BY <2>1, <2>2
<1>2. ASSUME NEW r \in confirmed, NoDeleter(r[1][2]) PROVE ThereNext(HomeOf(r[1]), r[2])
  <2>1. r[1] \in Shelves /\ r[2] \in VersionIDs
    BY DEF ServerInv, TypeOK
  <2>2. HomeOf(r[1]) \in Shelves /\ AtHome(HomeOf(r[1])) /\ HomeOf(r[1])[1] = r[1][2]
    BY <2>1 DEF HomeOf, Shelves, AtHome
  <2>3. QED
    BY <1>2, <2>1, <2>2 DEF HomeInv, ConfirmedHome, HomeKept, Claimed
<1>3. ConfirmedHome'
  BY <1>2 DEF ConfirmedHome, There, ThereNext, NoDeleter, HomeOf
<1>4. QED
  BY <1>1, <1>3 DEF HomeInv

LEMMA HomeLeft ==
  ASSUME UNCHANGED <<index, blob>> PROVE HomeKept
BY DEF HomeKept, There, ThereNext

\* What a fetch reads from.
LEMMA FetchSource ==
  ASSUME ServerInv, HomeInv, NEW d \in Clients, NEW q \in Nodes,
         call[d].op = "get", xfer[d][q].pc \in Live, xfer[d][q].src.id # NoVersion
  PROVE  LET f == xfer[d][q].src
         IN  /\ f.shelf \in Shelves /\ f.id \in VersionIDs /\ ~AtHome(f.shelf) /\ There(f.shelf, f.id)
             /\ blob[f.shelf][f.id] # NoBlob
<1> DEFINE f == xfer[d][q].src
<1>1. f \in File /\ SourceOK(d, f)
  BY LiveTransfer
<1>2. f.id \in VersionIDs /\ f.shelf \in Shelves
  BY <1>1 DEF File, IdOrNone, SourceOK
<1>3. ~AtHome(f.shelf) /\ There(f.shelf, f.id)
  BY DEF HomeInv, FetchWhole
<1>4. QED
  BY <1>2, <1>3 DEF There

\* A stream that the step is not about: its source is left, or loses its name.
LEMMA FetchWholeStays ==
  ASSUME ServerInv, ServerInv', HomeInv, NEW d \in Clients, NEW q \in Nodes,
         call'[d].op = call[d].op, Stays(d, q),
         call[d].op = "get" /\ xfer[d][q].pc \in Live /\ xfer[d][q].src.id # NoVersion =>
           LET f == xfer[d][q].src IN Leaves(f.shelf, f.id) \/ blob'[f.shelf][f.id] = NoBlob
  PROVE  FetchWhole(d, q)'
<1> DEFINE x == xfer[d][q]
           y == xfer'[d][q]
           f == x.src
<1>1. /\ y.pc = x.pc /\ y.n = x.n /\ y.want = x.want
      /\ \/ y.src = f
         \/ f.id \in VersionIDs /\ y.src.id = NoVersion /\ y.src.data = blob[f.shelf][f.id]
  BY DEF Stays
<1>2. SUFFICES ASSUME call[d].op = "get", x.pc \in Live PROVE FetchWhole(d, q)'
  BY <1>1 DEF FetchWhole
<1>3. /\ IF f.id = NoVersion
           THEN f.data.n = x.want
           ELSE /\ There(f.shelf, f.id) /\ ~AtHome(f.shelf)
                /\ blob[f.shelf][f.id].n = x.want
      /\ x.n <= x.want
      /\ x.pc \in {"check", "good"} => x.n = x.want
  BY <1>2 DEF HomeInv, FetchWhole
<1>4. CASE y.src.id = NoVersion
  <2>1. y.src.data.n = x.want
    BY <1>1, <1>3, <1>4, NoVersionAssumption
  <2>2. QED
    BY <1>1, <1>3, <1>4, <2>1 DEF FetchWhole
<1>5. CASE y.src.id # NoVersion
  <2>1. y.src = f
    BY <1>1, <1>5
  <2>2. TransferOK(d, q)'
    BY DEF ServerInv
  <2>3. SourceOK(d, xfer[d][q].src)'
    BY <1>1, <1>2, <2>2 DEF TransferOK
  <2>4. blob'[f.shelf][f.id] # NoBlob
    BY <1>5, <2>1, <2>3 DEF SourceOK
  <2>5. Leaves(f.shelf, f.id)
    BY <1>2, <1>5, <2>1, <2>4
  <2>6. ThereNext(f.shelf, f.id) /\ blob'[f.shelf][f.id].n = x.want
    BY <1>3, <1>5, <2>1, <2>4, <2>5 DEF Leaves, There, ThereNext
  <2>7. QED
    BY <1>1, <1>3, <1>5, <2>1, <2>6 DEF FetchWhole, There, ThereNext, AtHome
<1>6. QED
  BY <1>4, <1>5

-----------------------------------------------------------------------------
(* The steps that change no disk.                                          *)
(***************************************************************************)
LEMMA SourceLeft ==
  ASSUME ServerInv, ServerInv', HomeInv, UNCHANGED <<index, blob>>,
         NEW d \in Clients, NEW q \in Nodes, call'[d].op = call[d].op, xfer'[d][q] = xfer[d][q]
  PROVE  FetchWhole(d, q)'
<1>1. Stays(d, q)
  BY DEF Stays
<1>2. \A s, id : Leaves(s, id)
  BY DEF Leaves
<1>3. QED
  BY <1>1, <1>2, FetchWholeStays

\* What the client's own steps do: no stream is opened or goes on in another phase.
LEMMA CallQuiet ==
  ASSUME ServerInv, StayInv, NEW c \in Clients,
         \/ Share(c) \/ ShareStored(c) \/ GetVersion(c) \/ ReadHere(c) \/ Try(c) \/ Fetched(c)
         \/ FanDone(c) \/ Forget(c)
  PROVE  /\ UNCHANGED <<index, blob, confirmed>>
         /\ \A d \in Clients : d # c => call'[d] = call[d] /\ xfer'[d] = xfer[d]
         /\ call'[c].op # "put" \/ CallKept(c)
         /\ \A p \in Nodes : \/ xfer'[c][p].pc \notin Live
                             \/ xfer'[c][p] = xfer[c][p] /\ call'[c].op = call[c].op
<1> DEFINE Quiet == /\ UNCHANGED <<index, blob, confirmed>>
                    /\ \A d \in Clients : d # c => call'[d] = call[d] /\ xfer'[d] = xfer[d]
                    /\ call'[c].op # "put" \/ CallKept(c)
                    /\ \A p \in Nodes : \/ xfer'[c][p].pc \notin Live
                                        \/ xfer'[c][p] = xfer[c][p] /\ call'[c].op = call[c].op
<1>1. TypeOK /\ call[c] \in CallRecord /\ Begun(c)
  BY DEF ServerInv, TypeOK, StayInv
<1>2. ASSUME NEW k, NEW dest, NEW id, NEW targets, call[c].pc \in {"idle", "stored"},
             ShareTo(c, k, dest, id, targets)
      PROVE  Quiet
  <2>1. UNCHANGED <<index, blob, confirmed>> /\ call[c].op = "none"
    BY <1>1, <1>2 DEF ShareTo, Begun
  <2>2. CASE /\ xfer' = Fan(c, targets)
             /\ call' = [call EXCEPT ![c].pc = "fan", ![c].op = "share", ![c].key = k,
                                     ![c].dest = dest, ![c].id = id, ![c].left = {}]
    <3>1. call'[c].op = "share" /\ \A d \in Clients : d # c => call'[d] = call[d]
      BY <1>1, <2>2 DEF TypeOK, CallRecord
    <3>2. /\ \A d \in Clients : d # c => xfer'[d] = xfer[d]
          /\ \A p \in Nodes : xfer'[c][p] = IF p \in targets THEN Opening ELSE NoTransfer
      BY <1>1, <2>2, FanTyped
    <3>3. \A p \in Nodes : xfer'[c][p].pc \notin Live
      BY <3>2, FanResults DEF Live
    <3>4. QED
      BY <2>1, <3>1, <3>2, <3>3
  <2>3. CASE call' = [call EXCEPT ![c].pc = "returned"] /\ UNCHANGED xfer
    <3>1. call'[c].op = call[c].op /\ \A d \in Clients : d # c => call'[d] = call[d]
      BY <1>1, <2>3 DEF TypeOK, CallRecord
    <3>2. QED
      BY <2>1, <2>3, <3>1
  <2>4. QED
    BY <1>2, <2>2, <2>3 DEF ShareTo
<1>3. CASE Share(c)
  <2>1. PICK k \in Keys, dest \in Keys, id \in IdOrNone, targets \in Targets(c) :
          call[c].pc = "idle" /\ ShareTo(c, k, dest, id, targets)
    BY <1>3 DEF Share, Idle
  <2>2. QED
    BY <1>2, <2>1
<1>4. CASE ShareStored(c)
  BY <1>2, <1>4 DEF ShareStored
<1>5. CASE GetVersion(c)
  <2>1. PICK k \in Keys, id \in IdOrNone, connected \in Peers(At[c]) :
          LET has == index[Own(c, k)].latest # NoVersion
          IN  call' = [call EXCEPT ![c] =
                [NoCall EXCEPT !.pc = IF has THEN "here" ELSE "try", !.op = "get",
                               !.key = k, !.id = id, !.left = IF has THEN @ ELSE connected,
                               !.held = Confirmed(<<At[c], k>>, id)]]
    BY <1>5 DEF GetVersion
  <2>2. call'[c].op = "get" /\ \A d \in Clients : d # c => call'[d] = call[d]
    BY <1>1, <2>1, NoCallType DEF TypeOK, CallRecord
  <2>3. call[c].pc = "idle" /\ UNCHANGED <<index, blob, xfer, confirmed>>
    BY <1>5 DEF GetVersion, Idle
  <2>4. \A p \in Nodes : xfer[c][p].pc \notin Live
    BY <2>3, RestingTransfers DEF Resting, Live
  <2>5. QED
    BY <2>2, <2>3, <2>4
<1>6. CASE Try(c)
  <2>1. /\ call[c].op = "get" /\ call[c].left \subseteq Nodes
        /\ UNCHANGED <<index, blob, confirmed>>
        /\ \A p \in Nodes : xfer[c][p].pc \notin Live
    BY <1>1, <1>6, RestingTransfers DEF Try, Begun, Resting, Live, CallRecord
  <2>2. ASSUME NEW p \in call[c].left, xfer' = [xfer EXCEPT ![c][p] = Opening],
               call' = [call EXCEPT ![c].pc = "fetch", ![c].left = @ \ {p}]
        PROVE  Quiet
    <3>1. call'[c].op = "get" /\ \A d \in Clients : d # c => call'[d] = call[d]
      BY <1>1, <2>1, <2>2 DEF TypeOK, CallRecord
    <3>2. /\ \A d \in Clients : d # c => xfer'[d] = xfer[d]
          /\ \A q \in Nodes : xfer'[c][q] = IF q = p THEN Opening ELSE xfer[c][q]
      BY <1>1, <2>1, <2>2 DEF TypeOK
    <3>3. QED
      BY <2>1, <3>1, <3>2, FanResults DEF Live
  <2>3. CASE call' = [call EXCEPT ![c].pc = "returned"] /\ UNCHANGED xfer
    <3>1. call'[c].op = "get" /\ \A d \in Clients : d # c => call'[d] = call[d]
      BY <1>1, <2>1, <2>3 DEF TypeOK, CallRecord
    <3>2. QED
      BY <2>1, <2>3, <3>1
  <2>4. QED
    BY <1>6, <2>2, <2>3 DEF Try
<1>7. CASE Fetched(c)
  <2>1. /\ call[c].op = "get" /\ UNCHANGED <<index, blob, xfer, confirmed>>
        /\ \A p \in Nodes : xfer[c][p].pc \notin Live
    BY <1>1, <1>7 DEF Fetched, Begun, Live
  <2>2. PICK pc, got : call' = [call EXCEPT ![c].pc = pc, ![c].got = got]
    BY <1>7 DEF Fetched
  <2>3. call'[c].op = "get" /\ \A d \in Clients : d # c => call'[d] = call[d]
    BY <1>1, <2>1, <2>2 DEF TypeOK, CallRecord
  <2>4. QED
    BY <2>1, <2>3
<1>8. CASE FanDone(c)
  <2>1. /\ UNCHANGED <<index, blob, xfer, confirmed>>
        /\ call' = [call EXCEPT ![c].pc = "returned"]
    BY <1>8 DEF FanDone
  <2>2. CallKept(c) /\ \A d \in Clients : d # c => call'[d] = call[d]
    BY <1>1, <2>1 DEF TypeOK, CallRecord, CallKept, SameCall
  <2>3. QED
    BY <2>1, <2>2 DEF CallKept, SameCall
<1>9. CASE Forget(c)
  <2>1. /\ call' = [call EXCEPT ![c] = NoCall]
        /\ xfer' = [xfer EXCEPT ![c] = [p \in Nodes |-> NoTransfer]]
        /\ UNCHANGED <<index, blob, confirmed>>
    BY <1>9 DEF Forget
  <2>2. /\ call'[c] = NoCall /\ \A p \in Nodes : xfer'[c][p] = NoTransfer
        /\ \A d \in Clients : d # c => call'[d] = call[d] /\ xfer'[d] = xfer[d]
    BY <1>1, <2>1 DEF TypeOK
  <2>3. QED
    BY <2>1, <2>2, NoCallType, FanResults DEF Live
<1>10. CASE ReadHere(c)
  <2>1. /\ call[c].op = "get" /\ UNCHANGED <<index, blob, xfer, confirmed>>
        /\ \A p \in Nodes : xfer[c][p].pc \notin Live
    BY <1>1, <1>10, RestingTransfers DEF ReadHere, Begun, Resting, Live
  <2>2. call'[c].op = "get" /\ \A d \in Clients : d # c => call'[d] = call[d]
    BY <1>1, <1>10, <2>1, ReadHereCall DEF SameCall
  <2>3. QED
    BY <2>1, <2>2
<1>11. QED
  BY <1>3, <1>4, <1>5, <1>6, <1>7, <1>8, <1>9, <1>10

LEMMA CallHome ==
  ASSUME ServerInv, ServerInv', StayInv, HomeInv, NEW c \in Clients,
         \/ Share(c) \/ ShareStored(c) \/ GetVersion(c) \/ ReadHere(c) \/ Try(c) \/ Fetched(c)
         \/ FanDone(c) \/ Forget(c)
  PROVE  HomeInv'
<1>1. /\ UNCHANGED <<index, blob, confirmed>>
      /\ \A d \in Clients : d # c => call'[d] = call[d] /\ xfer'[d] = xfer[d]
      /\ call'[c].op # "put" \/ CallKept(c)
      /\ \A p \in Nodes : \/ xfer'[c][p].pc \notin Live
                          \/ xfer'[c][p] = xfer[c][p] /\ call'[c].op = call[c].op
  BY CallQuiet
<1>2. ASSUME NEW d \in Clients, NEW q \in Nodes PROVE FetchWhole(d, q)'
  <2>1. CASE d # c
    BY <1>1, <2>1, SourceLeft
  <2>2. CASE d = c /\ xfer'[c][q].pc \notin Live
    BY <2>2 DEF FetchWhole
  <2>3. CASE d = c /\ xfer'[c][q] = xfer[c][q] /\ call'[c].op = call[c].op
    BY <1>1, <2>3, SourceLeft
  <2>4. QED
    BY <1>1, <2>1, <2>2, <2>3
<1>3. \A d \in Clients : call'[d].op # "put" \/ CallKept(d)
  BY <1>1 DEF CallKept, SameCall
<1>4. QED
  BY <1>1, <1>2, <1>3, HomeLeft, HomeStep

LEMMA QuietStreamHome ==
  ASSUME ServerInv, ServerInv', HomeInv, UNCHANGED <<index, blob, call, confirmed>>,
         NEW c \in Clients, NEW p \in Nodes, OthersSame(c, p), FetchWhole(c, p)'
  PROVE  HomeInv'
<1>1. ASSUME NEW d \in Clients, NEW q \in Nodes PROVE FetchWhole(d, q)'
  <2>1. CASE d = c /\ q = p
    BY <2>1
  <2>2. CASE ~(d = c /\ q = p)
    <3>1. xfer'[d][q] = xfer[d][q] /\ call'[d].op = call[d].op
      BY <2>2 DEF OthersSame
    <3>2. QED
      BY <3>1, SourceLeft
  <2>3. QED
    BY <2>1, <2>2
<1>2. \A d \in Clients : CallKept(d)
  BY DEF CallKept, SameCall
<1>3. QED
  BY <1>1, <1>2, HomeLeft, HomeStep

LEMMA OpenLocalHome ==
  ASSUME ServerInv, ServerInv', HomeInv, NEW c \in Clients, NEW p \in Nodes, OpenLocal(c, p)
  PROVE  HomeInv'
<1>1. TypeOK /\ call' = call /\ Pushing(c) /\ UNCHANGED <<index, blob, confirmed>>
  BY DEF ServerInv, OpenLocal
<1>2. PICK y : xfer' = [xfer EXCEPT ![c][p] = y]
  BY DEF OpenLocal
<1>3. OthersSame(c, p)
  BY <1>1, <1>2 DEF TypeOK, OthersSame
<1>4. FetchWhole(c, p)'
  BY <1>1 DEF FetchWhole, Pushing, Pushes
<1>5. QED
  BY <1>1, <1>3, <1>4, QuietStreamHome

LEMMA VersionInfoHome ==
  ASSUME ServerInv, ServerInv', HomeInv, NEW c \in Clients, NEW p \in Nodes, VersionInfo(c, p)
  PROVE  HomeInv'
<1> DEFINE x == xfer[c][p]
           s == <<p, At[c], call[c].key>>
           e == resolveVersion(index[s], call[c].id)
           y == IF CanResolve(index[s], call[c].id)
                  THEN [x EXCEPT !.pc = "info", !.entry = e]
                  ELSE [x EXCEPT !.pc = "bad"]
<1>1. TypeOK /\ x \in TransferRecord
  BY DEF ServerInv, TypeOK
<1>2. /\ xfer' = [xfer EXCEPT ![c] = [xfer[c] EXCEPT ![p] = y]]
      /\ UNCHANGED <<index, blob, call, confirmed>>
  BY <1>1 DEF VersionInfo, TypeOK
<1>3. y.pc \in {"info", "bad"}
  BY <1>1 DEF TransferRecord
<1> HIDE DEF y
<1>4. xfer'[c][p] = y /\ OthersSame(c, p)
  BY <1>1, <1>2 DEF TypeOK, OthersSame
<1>5. FetchWhole(c, p)'
  BY <1>3, <1>4 DEF FetchWhole, Live
<1>6. QED
  BY <1>2, <1>4, <1>5, QuietStreamHome

LEMMA ReadVersionRawHome ==
  ASSUME ServerInv, ServerInv', StayInv, HomeInv, NEW c \in Clients, NEW p \in Nodes,
         ReadVersionRaw(c, p)
  PROVE  HomeInv'
<1> DEFINE x == xfer[c][p]
           s == <<p, At[c], call[c].key>>
           id == resolveVersion(index[s], call[c].id).id
           can == Readable(s, call[c].id)
           y == IF can THEN [x EXCEPT !.pc = "ready", !.src = Opened(s, id), !.want = blob[s][id].n]
                ELSE [x EXCEPT !.pc = "bad"]
<1>1. TypeOK /\ TransferOK(c, p) /\ Elsewhere(c, p) /\ x \in TransferRecord /\ s \in Shelves
  BY PeerShelf DEF ServerInv, TypeOK, StayInv
<1>2. /\ x.pc = "info" /\ x.n = 0
      /\ xfer' = [xfer EXCEPT ![c] = [xfer[c] EXCEPT ![p] = y]]
      /\ UNCHANGED <<index, blob, call, confirmed>>
  BY <1>1 DEF ReadVersionRaw, TypeOK, TransferOK
<1>3. /\ y.pc = IF can THEN "ready" ELSE "bad"
      /\ can => y.src = Opened(s, id) /\ y.want = blob[s][id].n
      /\ y.n = 0
  BY <1>1, <1>2 DEF TransferRecord
<1>4. ~AtHome(s)
  BY <1>1, <1>2 DEF Elsewhere, AtHome
<1> HIDE DEF y, s
<1>5. can => There(s, id) /\ id # NoVersion /\ blob[s][id].n \in Nat
  <2> SUFFICES ASSUME can PROVE There(s, id) /\ id # NoVersion /\ blob[s][id].n \in Nat
    OBVIOUS
  <2>1. /\ resolveVersion(index[s], call[c].id) \in Entries(index[s].versions)
        /\ id \in VersionIDs /\ id # NoVersion /\ blob[s][id] # NoBlob
    BY <1>1, IndexTyped, ResolvedEntry, EntryTypes DEF Readable
  <2>2. blob[s][id].n \in Nat
    BY <1>1, <2>1, BlobTypes DEF TypeOK
  <2>3. QED
    BY <2>1, <2>2 DEF There
<1> HIDE DEF id, can
<1>6. xfer'[c][p] = y /\ OthersSame(c, p)
  BY <1>1, <1>2 DEF TypeOK, OthersSame
<1>7. FetchWhole(c, p)'
  <2>1. CASE can
    <3>1. y.src.shelf = s /\ y.src.id = id /\ 0 <= y.want
      BY <1>3, <1>5, <2>1 DEF Opened
    <3>2. ThereNext(s, id)
      BY <1>2, <1>5, <2>1 DEF There, ThereNext
    <3>3. /\ xfer'[c][p].src.shelf = s /\ xfer'[c][p].src.id = id /\ xfer'[c][p].n <= xfer'[c][p].want
          /\ blob'[s][id].n = xfer'[c][p].want /\ xfer'[c][p].pc = "ready"
      BY <1>2, <1>3, <1>6, <2>1, <3>1
    <3>4. QED
      BY <1>4, <1>5, <2>1, <3>2, <3>3 DEF FetchWhole, There, ThereNext, AtHome
  <2>2. CASE ~can
    BY <1>3, <1>6, <2>2 DEF FetchWhole, Live
  <2>3. QED
    BY <2>1, <2>2
<1>8. QED
  BY <1>2, <1>6, <1>7, QuietStreamHome

\* What a reply confirms is at home too.
LEMMA ReplyHome ==
  ASSUME ServerInv, ServerInv', StayInv, HomeInv, NEW c \in Clients, NEW p \in Nodes, Reply(c, p)
  PROVE  HomeInv'
<1> DEFINE x == xfer[c][p]
           s == Into(c, p)
           id == x.entry.id
           told == x.pc = "good" /\ x.res = "none" /\ call[c].op = "put"
           res == IF x.res # "none" THEN x.res ELSE IF x.pc = "good" THEN "ok" ELSE "failed"
<1>1. /\ TypeOK /\ x \in TransferRecord
      /\ UNCHANGED <<index, blob, call>>
      /\ confirmed' = IF told THEN confirmed \cup {<<s, id>>} ELSE confirmed
  BY DEF ServerInv, TypeOK, Reply
<1>2. OthersSame(c, p) /\ xfer'[c][p].pc = "end"
  <2>1. xfer' = [xfer EXCEPT ![c][p].pc = "end", ![c][p].src = NoFile, ![c][p].res = res]
    BY <1>1 DEF Reply, TypeOK, TransferRecord
  <2> HIDE DEF res
  <2>2. QED
    BY <1>1, <2>1 DEF TypeOK, TransferRecord, OthersSame
<1>3. FetchWhole(c, p)'
  BY <1>2 DEF FetchWhole, Live
<1>4. CASE ~told
  BY <1>1, <1>2, <1>3, <1>4, QuietStreamHome
<1>5. CASE told
  <2>1. ASSUME NEW d \in Clients, NEW q \in Nodes PROVE FetchWhole(d, q)'
    <3>1. CASE d = c /\ q = p
      BY <1>3, <3>1
    <3>2. CASE ~(d = c /\ q = p)
      <4>1. xfer'[d][q] = xfer[d][q] /\ call'[d].op = call[d].op
        BY <1>1, <1>2, <3>2 DEF OthersSame
      <4>2. QED
        BY <1>1, <4>1, SourceLeft
    <3>3. QED
      BY <3>1, <3>2
  <2>2. \A d \in Clients : PutHome(d)'
    BY <1>1 DEF HomeInv, PutHome, There
  <2>3. s = <<p, At[c], call[c].key>> /\ id = call[c].entry.id
    BY <1>5, PutFacts DEF StayInv, Pushed, Live
  <2>4. HomeOf(s) = Own(c, call[c].key) /\ s[2] = At[c]
    BY <2>3 DEF HomeOf, Own
  <2>5. NoDeleter(s[2]) => There(HomeOf(s), id)
    BY <1>5, <2>3, <2>4 DEF HomeInv, PutHome
  <2>6. confirmed' = confirmed \cup {<<s, id>>}
    BY <1>1, <1>5
  <2> HIDE DEF s, id
  <2>7. \A r \in confirmed' : NoDeleter(r[1][2]) => There(HomeOf(r[1]), r[2])
    BY <2>5, <2>6 DEF HomeInv, ConfirmedHome
  <2>8. \A t, i : There(t, i) => ThereNext(t, i)
    BY <1>1 DEF There, ThereNext
  <2>9. \A r \in confirmed' : NoDeleter(r[1][2]) => ThereNext(HomeOf(r[1]), r[2])
    BY <2>7, <2>8
  <2>10. ConfirmedHome'
    BY <2>9 DEF ConfirmedHome, There, ThereNext, NoDeleter, HomeOf
  <2>11. QED
    BY <2>1, <2>2, <2>10 DEF HomeInv
<1>6. QED
  BY <1>4, <1>5

-----------------------------------------------------------------------------
(* The steps that change one.                                              *)
(***************************************************************************)
\* A body is received where no fetch reads.
LEMMA FillsNoSource ==
  ASSUME ServerInv, StayInv, HomeInv, NEW c \in Clients, NEW p \in Nodes, NEW j,
         Fills(c, p, j),
         NEW d \in Clients, NEW q \in Nodes,
         call[d].op = "get", xfer[d][q].pc \in Live, xfer[d][q].src.id # NoVersion
  PROVE  Leaves(xfer[d][q].src.shelf, xfer[d][q].src.id)
<1> DEFINE t == xfer[d][q].src.shelf
           i == xfer[d][q].src.id
           s == Into(c, p)
<1>1. t \in Shelves /\ i \in VersionIDs /\ ~AtHome(t) /\ There(t, i)
  BY FetchSource
<1>2. /\ ChangesOnly(s, j) /\ xfer[c][p].pc \in {"ready", "recv"}
      /\ call[c].op # "share" => j = xfer[c][p].entry.id
  BY DEF Fills
<1>3. <<t, i>> # <<s, j>>
  <2>1. CASE call[c].op = "put"
    <3>1. j = call[c].entry.id /\ \A e \in Entries(index[s].versions) : e.id # j
      BY <1>2, <2>1 DEF StayInv, Pushed, Live
    <3>2. \E e \in Entries(index[t].versions) : e.id = i
      BY <1>1 DEF There
    <3> HIDE DEF s, t, i
    <3>3. QED
      BY <3>1, <3>2
  <2>2. CASE call[c].op # "put"
    <3>1. AtHome(s)
      BY <2>2, IntoHome DEF ServerInv
    <3> HIDE DEF s, t, i
    <3>2. QED
      BY <1>1, <3>1
  <2>3. QED
    BY <2>1, <2>2
<1>4. QED
  BY <1>1, <1>2, <1>3 DEF ChangesOnly

LEMMA FillsHome ==
  ASSUME OnlyGetterDeletes, ServerInv, ServerInv', StayInv, HomeInv,
         NEW c \in Clients, NEW p \in Nodes, NEW j, Fills(c, p, j)
  PROVE  HomeInv'
<1> DEFINE x == xfer[c][p]
           y == xfer'[c][p]
           s == Into(c, p)
<1>1. /\ call' = call /\ confirmed' = confirmed /\ OthersSame(c, p)
      /\ j \in VersionIDs /\ ChangesOnly(s, j)
      /\ x.pc \in {"ready", "recv"} /\ y.pc \in {"recv", "check"}
      /\ y.src = x.src /\ y.want = x.want
      /\ blob'[s][j] # NoBlob
      /\ y.pc = "recv" => index' = index
      /\ y.pc = "recv" => y.n = x.n \/ (x.n < x.want /\ y.n = x.n + 1)
      /\ y.pc = "check" => BodyOver(x) /\ y.n = x.n
      /\ y.pc = "check" => \E e \in Entries(index'[s].versions) : e.id = j
  BY DEF Fills
<1>2. ASSUME NEW t \in Shelves, NEW i \in VersionIDs, There(t, i) PROVE ThereNext(t, i)
  <2>1. CASE <<t, i>> # <<s, j>>
    <3>1. Leaves(t, i)
      BY <1>1, <2>1 DEF ChangesOnly
    <3>2. QED
      BY <1>2, <3>1 DEF Leaves, There, ThereNext
  <2>2. CASE t = s /\ i = j
    <3>1. y.pc = "recv" => \E e \in Entries(index'[t].versions) : e.id = i
      BY <1>1, <1>2 DEF There
    <3> HIDE DEF s
    <3>2. QED
      BY <1>1, <2>2, <3>1 DEF ThereNext
  <2>3. QED
    BY <2>1, <2>2
<1>3. HomeKept
  BY <1>2 DEF HomeKept
<1>4. ASSUME NEW d \in Clients, NEW q \in Nodes, <<d, q>> # <<c, p>> PROVE FetchWhole(d, q)'
  <2>1. call'[d].op = call[d].op /\ Stays(d, q)
    BY <1>1, <1>4 DEF OthersSame, Stays
  <2>2. call[d].op = "get" /\ xfer[d][q].pc \in Live /\ xfer[d][q].src.id # NoVersion =>
          Leaves(xfer[d][q].src.shelf, xfer[d][q].src.id)
    BY FillsNoSource
  <2>3. QED
    BY <2>1, <2>2, FetchWholeStays
<1>5. FetchWhole(c, p)'
  <2> SUFFICES ASSUME call[c].op = "get" PROVE FetchWhole(c, p)'
    BY <1>1 DEF FetchWhole
  <2> DEFINE f == x.src
  <2>1. x.pc \in Live /\ x \in TransferRecord /\ x.n \in Nat /\ x.want \in Nat
    BY <1>1, FileServerAssumption DEF Live, ServerInv, TypeOK, TransferRecord
  <2>2. /\ IF f.id = NoVersion
             THEN f.data.n = x.want
             ELSE /\ There(f.shelf, f.id) /\ ~AtHome(f.shelf)
                  /\ blob[f.shelf][f.id].n = x.want
        /\ x.n <= x.want
    BY <2>1 DEF HomeInv, FetchWhole
  <2>3. Body(f).n = x.want
    BY <2>2 DEF Body
  <2>4. y.pc = "check" => y.n = x.want
    <3>1. "short" \notin Faults
      BY DEF OnlyGetterDeletes
    <3>2. QED
      BY <1>1, <2>1, <2>2, <2>3, <3>1 DEF BodyOver
  <2>5. y.n <= x.want
    BY <1>1, <2>1, <2>2, <2>4
  <2>6. CASE f.id = NoVersion
    BY <1>1, <2>2, <2>4, <2>5, <2>6 DEF FetchWhole
  <2>7. CASE f.id # NoVersion
    <3>1. Leaves(f.shelf, f.id) /\ f.shelf \in Shelves /\ f.id \in VersionIDs
      BY <2>1, <2>7, FillsNoSource, FetchSource
    <3>2. ThereNext(f.shelf, f.id) /\ blob'[f.shelf][f.id].n = x.want
      BY <2>2, <2>7, <3>1 DEF Leaves, There, ThereNext
    <3>3. QED
      BY <1>1, <2>2, <2>4, <2>5, <2>7, <3>2 DEF FetchWhole, There, ThereNext, AtHome
  <2>8. QED
    BY <2>6, <2>7
<1>6. \A d \in Clients, q \in Nodes : FetchWhole(d, q)'
  BY <1>4, <1>5
<1>7. \A d \in Clients : CallKept(d)
  BY <1>1 DEF CallKept, SameCall
<1>8. QED
  BY <1>1, <1>3, <1>6, <1>7, HomeStep

LEMMA ReceiveHome ==
  ASSUME OnlyGetterDeletes, MaxVersions = 0, ServerInv, ServerInv', StayInv, HomeInv,
         NEW c \in Clients, NEW p \in Nodes, Receive(c, p) \/ Block(c, p) \/ FinishBody(c, p)
  PROVE  HomeInv'
<1>1. PICK j : Fills(c, p, j)
  BY ReceiveFills, BlockFills, FinishBodyFills
<1>2. QED
  BY <1>1, FillsHome

LEMMA CheckCountGone ==
  ASSUME ServerInv, NEW c \in Clients, NEW p \in Nodes, CheckCount(c, p)
  PROVE  UNCHANGED <<index, blob>> \/ blob'[Into(c, p)][xfer[c][p].entry.id] = NoBlob
<1> DEFINE s == Into(c, p)
           id == xfer[c][p].entry.id
<1>1. TypeOK /\ s \in Shelves
  BY IntoShelf DEF ServerInv
<1>2. CASE UNCHANGED disk
  BY <1>2 DEF disk
<1>3. CASE id \in IdsOf(index[s].versions) /\ blob' = [blob EXCEPT ![s] = Without(blob[s], {id})]
  <2>1. id \in VersionIDs
    BY <1>1, <1>3, IndexTyped
  <2>2. Without(blob[s], {id})[id] = NoBlob
    BY <2>1 DEF Without
  <2> HIDE DEF s, id
  <2>3. QED
    BY <1>1, <1>3, <2>2 DEF TypeOK, s, id
<1>4. QED
  BY <1>2, <1>3 DEF CheckCount

LEMMA CheckCountHome ==
  ASSUME ServerInv, ServerInv', StayInv, HomeInv, NEW c \in Clients, NEW p \in Nodes, CheckCount(c, p)
  PROVE  HomeInv'
<1> DEFINE x == xfer[c][p]
           y == xfer'[c][p]
           s == Into(c, p)
           j == x.entry.id
<1>1. /\ call' = call /\ confirmed' = confirmed
      /\ ChangesOnly(s, j)
      /\ \A d \in Clients, q \in Nodes : <<d, q>> # <<c, p>> => Stays(d, q)
      /\ x.pc = "check"
      /\ \/ /\ y.pc = "good" /\ x.n = x.want /\ UNCHANGED <<index, blob>>
            /\ y.n = x.n /\ y.want = x.want /\ y.src = x.src
         \/ y.pc = "bad" /\ x.n # x.want
  BY CheckCountChanges
<1>2. UNCHANGED <<index, blob>> \/ blob'[s][j] = NoBlob
  BY CheckCountGone
<1>3. /\ Elsewhere(c, p) /\ Drawn(c, p) /\ FetchWhole(c, p) /\ x.pc \in Live
      /\ call[c].op \in {"put", "share", "get"}
  BY <1>1 DEF StayInv, HomeInv, Live, Elsewhere, ServerInv, TypeOK, CallRecord
<1>4. CASE UNCHANGED <<index, blob>>
  <2>1. HomeKept
    BY <1>4, HomeLeft
  <2>2. \A d \in Clients, q \in Nodes : <<d, q>> # <<c, p>> => FetchWhole(d, q)'
    <3> SUFFICES ASSUME NEW d \in Clients, NEW q \in Nodes, <<d, q>> # <<c, p>>
                 PROVE  FetchWhole(d, q)'
      OBVIOUS
    <3>1. call'[d].op = call[d].op /\ Stays(d, q) /\ \A t, i : Leaves(t, i)
      BY <1>1, <1>4 DEF Leaves
    <3>2. QED
      BY <3>1, FetchWholeStays
  <2>3. FetchWhole(c, p)'
    <3>1. CASE y.pc = "bad"
      BY <3>1 DEF FetchWhole, Live
    <3>2. CASE y.pc = "good" /\ x.n = x.want /\ y.n = x.n /\ y.want = x.want /\ y.src = x.src
      BY <1>1, <1>3, <1>4, <3>2 DEF FetchWhole, There, AtHome
    <3>3. QED
      BY <1>1, <3>1, <3>2
  <2>4. \A d \in Clients : CallKept(d)
    BY <1>1 DEF CallKept, SameCall
  <2>5. \A d \in Clients, q \in Nodes : FetchWhole(d, q)'
    BY <2>2, <2>3
  <2>6. QED
    BY <1>1, <2>1, <2>4, <2>5, HomeStep
<1>5. CASE blob'[s][j] = NoBlob /\ y.pc = "bad" /\ x.n # x.want
  <2>1. ASSUME NEW t \in Shelves, NEW i \in VersionIDs, AtHome(t), Claimed(i), There(t, i)
        PROVE  <<t, i>> # <<s, j>>
    <3>1. CASE call[c].op = "put"
      <4>1. ~AtHome(s)
        BY <1>1, <1>3, <3>1, PutFacts DEF Elsewhere
      <4> HIDE DEF s, j
      <4>2. QED
        BY <2>1, <4>1
    <3>2. CASE call[c].op = "share"
      <4>1. ~Claimed(j)
        BY <1>1, <1>3, <3>2 DEF Drawn, Claimed
      <4> HIDE DEF s, j
      <4>2. QED
        BY <2>1, <4>1
    <3>3. CASE call[c].op = "get"
      BY <1>1, <1>3, <1>5, <3>3 DEF FetchWhole
    <3>4. QED
      BY <1>3, <3>1, <3>2, <3>3
  <2>2. HomeKept
    BY <1>1, <2>1 DEF HomeKept, ChangesOnly, Leaves, There, ThereNext
  <2>3. ASSUME NEW d \in Clients, NEW q \in Nodes, <<d, q>> # <<c, p>> PROVE FetchWhole(d, q)'
    <3> DEFINE f == xfer[d][q].src
    <3>1. call'[d].op = call[d].op /\ Stays(d, q)
      BY <1>1, <2>3
    <3>2. ASSUME call[d].op = "get", xfer[d][q].pc \in Live, f.id # NoVersion
          PROVE  Leaves(f.shelf, f.id) \/ blob'[f.shelf][f.id] = NoBlob
      <4>1. f.shelf \in Shelves /\ f.id \in VersionIDs
        BY <3>2, FetchSource
      <4>2. CASE <<f.shelf, f.id>> # <<s, j>>
        BY <1>1, <4>1, <4>2 DEF ChangesOnly
      <4>3. CASE f.shelf = s /\ f.id = j
        BY <1>5, <4>3
      <4>4. QED
        BY <4>2, <4>3
    <3>3. QED
      BY <3>1, <3>2, FetchWholeStays
  <2>4. FetchWhole(c, p)'
    BY <1>5 DEF FetchWhole, Live
  <2>5. \A d \in Clients : CallKept(d)
    BY <1>1 DEF CallKept, SameCall
  <2>6. \A d \in Clients, q \in Nodes : FetchWhole(d, q)'
    BY <2>3, <2>4
  <2>7. QED
    BY <1>1, <2>2, <2>5, <2>6, HomeStep
<1>6. QED
  BY <1>1, <1>2, <1>4, <1>5

LEMMA DeleteHome ==
  ASSUME ServerInv, ServerInv', StayInv, HomeInv, NEW c \in Clients, Delete(c)
  PROVE  HomeInv'
<1>1. PICK k \in Keys : \A t \in Shelves, i \in VersionIDs : t # Own(c, k) => Leaves(t, i)
  BY DeleteChanges
<1>2. /\ call' = call /\ confirmed' = confirmed /\ "delete" \in Ops[c]
      /\ \A d \in Clients, q \in Nodes : Stays(d, q)
  BY DeleteChanges
<1>3. ~NoDeleter(At[c]) /\ Own(c, k)[1] = At[c] /\ AtHome(Own(c, k))
  BY <1>2 DEF NoDeleter, Own, AtHome
<1>4. HomeKept
  <2> SUFFICES ASSUME NEW t \in Shelves, NEW i \in VersionIDs, NoDeleter(t[1]), There(t, i)
               PROVE  ThereNext(t, i)
    BY DEF HomeKept
  <2>1. Leaves(t, i)
    BY <1>1, <1>3
  <2>2. QED
    BY <2>1 DEF Leaves, There, ThereNext
<1>5. ASSUME NEW d \in Clients, NEW q \in Nodes PROVE FetchWhole(d, q)'
  <2> DEFINE f == xfer[d][q].src
  <2>1. ASSUME call[d].op = "get", xfer[d][q].pc \in Live, f.id # NoVersion
        PROVE  Leaves(f.shelf, f.id)
    <3>1. f.shelf \in Shelves /\ f.id \in VersionIDs /\ ~AtHome(f.shelf)
      BY <2>1, FetchSource
    <3>2. QED
      BY <1>1, <1>3, <3>1
  <2>2. call'[d].op = call[d].op /\ Stays(d, q)
    BY <1>2
  <2>3. QED
    BY <2>1, <2>2, FetchWholeStays
<1>6. \A d \in Clients : CallKept(d)
  BY <1>2 DEF CallKept, SameCall
<1>7. QED
  BY <1>2, <1>4, <1>5, <1>6, HomeStep

LEMMA WriteHome ==
  ASSUME MaxVersions = 0, ServerInv, ServerInv', StayInv, HomeInv,
         NEW c \in Clients, NEW k \in Keys, NEW id \in Fresh,
         NEW next \in [Clients -> [Nodes -> TransferRecord]], WriteLocal(c, k, id, next),
         \A d \in Clients : d # c => call'[d] = call[d] /\ next[d] = xfer[d],
         call'[c].op = "put" => call'[c].key = k /\ call'[c].entry.id = id,
         \A p \in Nodes : next[c][p].pc \notin Live
  PROVE  HomeInv'
<1> DEFINE s == Own(c, k)
<1>1. /\ xfer' = next /\ confirmed' = confirmed /\ id # NoVersion
      /\ ChangesOnly(s, id) /\ blob'[s][id].of = id
      /\ \E f \in Entries(index'[s].versions) : f.id = id
  BY WriteChanges, NoVersionAssumption
<1>2. ThereNext(s, id)
  BY <1>1 DEF ThereNext, NoBlob
<1>3. \A t \in Shelves : ~There(t, id)
  BY DEF Fresh, There
<1>4. ASSUME NEW t \in Shelves, NEW i \in VersionIDs, There(t, i) PROVE Leaves(t, i)
  <2>1. i # id
    BY <1>3, <1>4
  <2>2. QED
    BY <1>1, <2>1 DEF ChangesOnly
<1>5. HomeKept
  BY <1>4 DEF HomeKept, Leaves, There, ThereNext
<1>6. ASSUME NEW d \in Clients, NEW q \in Nodes PROVE FetchWhole(d, q)'
  <2>1. CASE d = c
    BY <1>1, <2>1 DEF FetchWhole
  <2>2. CASE d # c
    <3>1. call'[d].op = call[d].op /\ Stays(d, q)
      BY <1>1, <2>2 DEF Stays
    <3>2. call[d].op = "get" /\ xfer[d][q].pc \in Live /\ xfer[d][q].src.id # NoVersion =>
            Leaves(xfer[d][q].src.shelf, xfer[d][q].src.id)
      BY <1>4, FetchSource
    <3>3. QED
      BY <3>1, <3>2, FetchWholeStays
  <2>3. QED
    BY <2>1, <2>2
<1>7. PutHome(c)'
  <2> SUFFICES ASSUME call'[c].op = "put" PROVE ThereNext(Own(c, call'[c].key), call'[c].entry.id)
    BY DEF PutHome, There, ThereNext, Own
  <2>1. QED
    BY <1>2
<1>8. \A d \in Clients : d # c => CallKept(d)
  BY DEF CallKept, SameCall
<1>9. QED
  BY <1>1, <1>5, <1>6, <1>7, <1>8, HomeStep

LEMMA StoreVersionHome ==
  ASSUME MaxVersions = 0, ServerInv, ServerInv', StayInv, HomeInv, NEW c \in Clients, StoreVersion(c)
  PROVE  HomeInv'
<1>1. PICK k \in Keys, id \in Fresh, connected \in Peers(At[c]) :
        \E peers \in selectPeers(connected) :
          /\ WriteLocal(c, k, id, Fan(c, peers))
          /\ call' = [call EXCEPT ![c] =
               [NoCall EXCEPT !.pc = "fan", !.op = "put", !.key = k,
                              !.entry = NewEntry(c, k, id)]]
  BY DEF StoreVersion, NewEntry
<1>2. PICK peers \in selectPeers(connected) :
        /\ WriteLocal(c, k, id, Fan(c, peers))
        /\ call' = [call EXCEPT ![c] =
             [NoCall EXCEPT !.pc = "fan", !.op = "put", !.key = k,
                            !.entry = NewEntry(c, k, id)]]
  BY <1>1
<1>3. TypeOK /\ NewEntry(c, k, id).id = id
  BY DEF ServerInv, NewEntry
<1>4. /\ call'[c].op = "put" /\ call'[c].key = k /\ call'[c].entry = NewEntry(c, k, id)
      /\ \A d \in Clients : d # c => call'[d] = call[d]
  BY <1>2, <1>3 DEF TypeOK, NoCall
<1>5. /\ Fan(c, peers) \in [Clients -> [Nodes -> TransferRecord]]
      /\ \A d \in Clients : d # c => Fan(c, peers)[d] = xfer[d]
      /\ \A p \in Nodes : Fan(c, peers)[c][p] = IF p \in peers THEN Opening ELSE NoTransfer
  BY <1>3, FanTyped
<1>6. \A p \in Nodes : Fan(c, peers)[c][p].pc \notin Live
  BY <1>5, FanResults DEF Live
<1>7. call'[c].key = k /\ call'[c].entry.id = id
  BY <1>3, <1>4
<1>8. QED
  BY <1>2, <1>4, <1>5, <1>6, <1>7, WriteHome

LEMMA StoreLocalHome ==
  ASSUME MaxVersions = 0, ServerInv, ServerInv', StayInv, HomeInv, NEW c \in Clients, StoreLocal(c)
  PROVE  HomeInv'
<1>1. PICK k \in Keys, id \in Fresh, targets \in Targets(c) :
        /\ call[c].pc = "idle"
        /\ WriteLocal(c, k, id, xfer)
        /\ call' = [call EXCEPT ![c] = [NoCall EXCEPT !.pc = "stored", !.key = k, !.left = targets]]
  BY DEF StoreLocal, Idle
<1>2. TypeOK /\ xfer \in [Clients -> [Nodes -> TransferRecord]]
  BY DEF ServerInv, TypeOK
<1>3. call'[c].op = "none" /\ \A d \in Clients : d # c => call'[d] = call[d]
  BY <1>1, <1>2 DEF TypeOK, NoCall
<1>4. \A p \in Nodes : xfer[c][p].pc \notin Live
  BY <1>1, RestingTransfers DEF Resting, Live
<1>5. QED
  BY <1>1, <1>2, <1>3, <1>4, WriteHome

LEMMA HomeInvInit ==
  ASSUME Init PROVE HomeInv
<1>1. /\ \A c \in Clients : call[c] = NoCall
      /\ \A c \in Clients, p \in Nodes : xfer[c][p] = NoTransfer
      /\ confirmed = {}
  BY DEF Init
<1>2. \A c \in Clients, p \in Nodes : FetchWhole(c, p)
  BY <1>1, NoCallType DEF FetchWhole
<1>3. \A c \in Clients : PutHome(c)
  BY <1>1, NoCallType DEF PutHome
<1>4. QED
  BY <1>1, <1>2, <1>3 DEF HomeInv, ConfirmedHome

LEMMA HomeInvStep ==
  ASSUME OnlyGetterDeletes, MaxVersions = 0, ServerInv, ServerInv', StayInv, FindInv, HomeInv,
         [Next]_vars
  PROVE  HomeInv'
<1>1. ASSUME NEW c \in Clients, Begin(c) PROVE HomeInv'
  <2>1. ~Disconnect(c)
    BY DEF Disconnect, Idle, OnlyGetterDeletes
  <2>2. QED
    BY <1>1, <2>1, StoreVersionHome, CallHome, StoreLocalHome, DeleteHome DEF Begin
<1>2. ASSUME NEW c \in Clients, Proceed(c) PROVE HomeInv'
  BY <1>2, CallHome DEF Proceed
<1>3. ASSUME NEW c \in Clients, NEW p \in Nodes, Transfer(c, p) PROVE HomeInv'
  BY <1>3, OpenLocalHome, VersionInfoHome, ReadVersionRawHome, ReceiveHome, CheckCountHome,
     ReplyHome DEF Transfer
<1>4. ASSUME NEW c \in Clients, NEW p \in Nodes PROVE ~GiveUp(c, p) /\ ~Break(c, p)
  BY NothingBreaks
<1>5. \A n \in Nodes : ~Crash(n)
  BY DEF Crash, OnlyGetterDeletes
<1>6. CASE UNCHANGED vars
  <2>1. /\ UNCHANGED <<index, blob, confirmed>>
        /\ \A d \in Clients : CallKept(d)
        /\ \A d \in Clients, q \in Nodes : call'[d].op = call[d].op /\ xfer'[d][q] = xfer[d][q]
    BY <1>6 DEF vars, CallKept, SameCall
  <2>2. \A d \in Clients, q \in Nodes : FetchWhole(d, q)'
    BY <2>1, SourceLeft
  <2>3. QED
    BY <2>1, <2>2, HomeLeft, HomeStep
<1>7. QED
  BY <1>1, <1>2, <1>3, <1>4, <1>5, <1>6 DEF Next

-----------------------------------------------------------------------------
(* An index that lists a version has a latest one: Has says so of a key    *)
(* with a version.                                                         *)
(***************************************************************************)
Given(idx) == Entries(idx.versions) # {} => idx.latest # NoVersion
LatestGiven == \A s \in Shelves : Given(index[s])

\* A saved index names the version it was saved for.
LEMMA GivenSaved ==
  ASSUME TypeOK, LatestGiven, NEW s \in Shelves, NEW id \in VersionIDs, NEW versions,
         index' = [index EXCEPT ![s] =
                     pruneOldestVersions([latest |-> id, versions |-> versions])]
  PROVE  LatestGiven'
<1>1. pruneOldestVersions([latest |-> id, versions |-> versions]).latest = id
  BY DEF pruneOldestVersions
<1>2. index'[s].latest = id /\ \A t \in Shelves : t # s => index'[t] = index[t]
  BY <1>1 DEF TypeOK
<1>3. id # NoVersion
  BY NoVersionAssumption
<1>4. QED
  BY <1>2, <1>3 DEF LatestGiven, Given

\* What is left when the latest version is removed has a last entry, the latest now.
LEMMA GivenRemoved ==
  ASSUME NEW idx \in Index, Given(idx), NEW id \in IdsOf(idx.versions)
  PROVE  Given(RemoveVersion(idx, id))
<1> DEFINE p == Position(idx.versions, id)
           left == WithoutPosition(idx.versions, p)
<1>1. idx.versions \in Seq(Entry) /\ Len(idx.versions) \in Nat
      /\ DOMAIN idx.versions = 1 .. Len(idx.versions)
  BY LenProperties DEF Index
<1>2. p \in 1 .. Len(idx.versions)
  BY <1>1, PositionListed
<1>3. left \in Seq(Entry)
  BY <1>1, <1>2, WithoutPositionList
<1>4. idx.latest # NoVersion
  BY IdsOfEntries DEF Given
<1> HIDE DEF p
<1>5. /\ RemoveVersion(idx, id).versions = left
      /\ RemoveVersion(idx, id).latest = IF idx.latest # id THEN idx.latest
                                         ELSE IF left = <<>> THEN NoVersion
                                         ELSE left[Len(left)].id
  BY DEF RemoveVersion, p
<1> HIDE DEF left
<1>6. CASE left = <<>>
  <2>1. Entries(left) = {}
    BY <1>6 DEF Entries
  <2>2. QED
    BY <1>5, <2>1 DEF Given
<1>7. CASE left # <<>>
  <2>1. left[Len(left)] \in Entry
    BY <1>3, <1>7, EmptySeq, LenProperties, ElementOfSeq
  <2>2. left[Len(left)].id # NoVersion
    BY <2>1, EntryTypes, NoVersionAssumption
  <2>3. QED
    BY <1>4, <1>5, <1>7, <2>2 DEF Given
<1>8. QED
  BY <1>6, <1>7

LEMMA WriteGiven ==
  ASSUME TypeOK, LatestGiven, NEW c \in Clients, NEW k \in Keys, NEW id \in Fresh, NEW next,
         WriteLocal(c, k, id, next)
  PROVE  LatestGiven'
<1>1. id \in VersionIDs /\ Own(c, k) \in Shelves
  BY OwnShelf DEF Fresh
<1>2. PICK versions :
        index' = [index EXCEPT ![Own(c, k)] =
                    pruneOldestVersions([latest |-> id, versions |-> versions])]
  BY DEF WriteLocal, Save, AppendLatest
<1>3. QED
  BY <1>1, <1>2, GivenSaved

LEMMA FinishBodyGiven ==
  ASSUME ServerInv, LatestGiven, NEW c \in Clients, NEW p \in Nodes, FinishBody(c, p)
  PROVE  LatestGiven'
<1> DEFINE x == xfer[c][p]
           s == Into(c, p)
           own == call[c].op = "share"
           e == IF own THEN [x.entry EXCEPT !.data = [of |-> Body(x.src).of, n |-> x.n]]
                       ELSE x.entry
           idx == IF own THEN AppendLatest(index[s], e) ELSE UpsertLatest(index[s], e)
<1>1. x.pc = "recv" /\ index' = [index EXCEPT ![s] = pruneOldestVersions(idx)]
  BY DEF FinishBody, Save
<1>2. TypeOK /\ s \in Shelves /\ x.entry.id \in VersionIDs
  BY <1>1, ArrivingId DEF ServerInv
<1>3. e.id = x.entry.id
  BY <1>1, FinishedEntry
<1> HIDE DEF e
<1>4. PICK versions : idx = [latest |-> x.entry.id, versions |-> versions]
  BY <1>3 DEF AppendLatest, UpsertLatest
<1> HIDE DEF idx
<1>5. QED
  BY <1>1, <1>2, <1>4, GivenSaved

LEMMA CheckCountGiven ==
  ASSUME TypeOK, LatestGiven, NEW c \in Clients, NEW p \in Nodes, CheckCount(c, p)
  PROVE  LatestGiven'
<1> DEFINE s == Into(c, p)
           id == xfer[c][p].entry.id
<1>1. CASE UNCHANGED disk
  BY <1>1 DEF disk, LatestGiven
<1>2. ASSUME id \in IdsOf(index[s].versions),
             index' = [index EXCEPT ![s] = RemoveVersion(index[s], id)]
      PROVE  LatestGiven'
  <2>1. CASE s \in Shelves
    <3>1. index[s] \in Index /\ Given(index[s])
      BY <2>1, IndexTyped DEF LatestGiven
    <3> HIDE DEF s, id
    <3>2. Given(RemoveVersion(index[s], id))
      BY <1>2, <3>1, GivenRemoved
    <3>3. /\ index'[s] = RemoveVersion(index[s], id)
          /\ \A t \in Shelves : t # s => index'[t] = index[t]
      BY <1>2, <2>1 DEF TypeOK
    <3>4. QED
      BY <3>2, <3>3 DEF LatestGiven, Given
  <2>2. CASE s \notin Shelves
    <3>1. index' = index
      BY <1>2, <2>2 DEF TypeOK
    <3>2. QED
      BY <3>1 DEF LatestGiven
  <2>3. QED
    BY <2>1, <2>2
<1>3. QED
  BY <1>1, <1>2 DEF CheckCount

LEMMA DeleteGiven ==
  ASSUME TypeOK, LatestGiven, NEW c \in Clients, Delete(c)
  PROVE  LatestGiven'
<1>1. PICK k \in Keys : index' = [index EXCEPT ![Own(c, k)] = EmptyIndex]
  BY DEF Delete
<1>2. Own(c, k) \in Shelves /\ Entries(EmptyIndex.versions) = {}
  BY OwnShelf DEF EmptyIndex, Entries
<1>3. /\ index'[Own(c, k)] = EmptyIndex
      /\ \A t \in Shelves : t # Own(c, k) => index'[t] = index[t]
  BY <1>1, <1>2 DEF TypeOK
<1>4. QED
  BY <1>2, <1>3 DEF LatestGiven, Given

LEMMA LatestGivenStep ==
  ASSUME ServerInv, LatestGiven, [Next]_vars
  PROVE  LatestGiven'
<1>1. TypeOK
  BY DEF ServerInv
<1>2. CASE UNCHANGED index
  BY <1>2 DEF LatestGiven
<1>3. ASSUME NEW c \in Clients, Begin(c), index' # index PROVE LatestGiven'
  <2>1. CASE StoreVersion(c)
    BY <1>1, <2>1, WriteGiven DEF StoreVersion
  <2>2. CASE StoreLocal(c)
    BY <1>1, <2>2, WriteGiven DEF StoreLocal
  <2>3. CASE Delete(c)
    BY <1>1, <2>3, DeleteGiven
  <2>4. ~Share(c) /\ ~GetVersion(c) /\ ~Disconnect(c)
    BY <1>3 DEF Share, ShareTo, GetVersion, Disconnect
  <2>5. QED
    BY <1>3, <2>1, <2>2, <2>3, <2>4 DEF Begin
<1>4. ASSUME NEW c \in Clients, Proceed(c) PROVE index' = index
  BY <1>4 DEF Proceed, ShareStored, ShareTo, ReadHere, Try, Fetched, FanDone, Forget
<1>5. ASSUME NEW c \in Clients, NEW p \in Nodes, Transfer(c, p), index' # index
      PROVE  LatestGiven'
  <2>1. FinishBody(c, p) \/ CheckCount(c, p)
    BY <1>5 DEF Transfer, OpenLocal, VersionInfo, ReadVersionRaw, Receive, Block, Reply
  <2>2. QED
    BY <1>1, <2>1, FinishBodyGiven, CheckCountGiven
<1>6. ASSUME NEW c \in Clients, NEW p \in Nodes, GiveUp(c, p) \/ Break(c, p)
      PROVE  index' = index
  BY <1>6 DEF GiveUp, Break
<1>7. ASSUME NEW n \in Nodes, Crash(n) PROVE index' = index
  BY <1>7 DEF Crash
<1>8. QED
  BY <1>2, <1>3, <1>4, <1>5, <1>6, <1>7 DEF Next, vars

LEMMA LatestGivenInit ==
  ASSUME Init PROVE LatestGiven
BY DEF Init, LatestGiven, Given, EmptyIndex, Entries

-----------------------------------------------------------------------------
(* A get looks at its own node twice, Has and then ReadVersion.  A version *)
(* that a peer confirmed is at home at both, unless a client of the node   *)
(* deletes: that is then the client of this get.                           *)
(***************************************************************************)
LEMMA NotThereDeletes ==
  ASSUME OnlyGetterDeletes, HomeInv, NEW r \in confirmed, NEW c \in Clients,
         r[1][2] = At[c], Ops[c] \cap {"get", "getLatest"} # {}, ~There(HomeOf(r[1]), r[2])
  PROVE  "delete" \in Ops[c]
<1>1. ~NoDeleter(At[c])
  BY DEF HomeInv, ConfirmedHome
<1>2. PICK e \in Clients : At[e] = At[c] /\ "delete" \in Ops[e]
  BY <1>1 DEF NoDeleter
<1>3. QED
  BY <1>2 DEF OnlyGetterDeletes

\* The get waits for ReadVersion, or, where Has sees nothing, with the peer that has
\* confirmed the version among those it may ask (without faults, all of them).
LEMMA GetVersionFinds ==
  ASSUME OnlyGetterDeletes, ServerInv, StayInv, FindInv, HomeInv, LatestGiven,
         NEW c \in Clients, GetVersion(c)
  PROVE  FindInv'
<1>1. PICK k \in Keys, id \in IdOrNone, connected \in Peers(At[c]) :
        LET has == index[Own(c, k)].latest # NoVersion
        IN  /\ Idle(c, IF id = NoVersion THEN "getLatest" ELSE "get")
            /\ call' = [call EXCEPT ![c] =
                 [NoCall EXCEPT !.pc = IF has THEN "here" ELSE "try", !.op = "get",
                                !.key = k, !.id = id, !.left = IF has THEN @ ELSE connected,
                                !.held = Confirmed(<<At[c], k>>, id)]]
            /\ UNCHANGED <<index, blob, xfer, confirmed>>
  BY DEF GetVersion
<1> DEFINE s == Own(c, k)
           has == index[s].latest # NoVersion
           held == Confirmed(<<At[c], k>>, id)
<1>2. /\ TypeOK /\ s \in Shelves /\ call[c].pc = "idle"
      /\ UNCHANGED <<index, blob, xfer, confirmed>>
      /\ \A p \in Nodes : xfer[c][p].pc = "idle" /\ xfer[c][p].res = "none"
      /\ Ops[c] \cap {"get", "getLatest"} # {}
  BY <1>1, FreeCall, OwnShelf DEF ServerInv, Idle
<1>3. /\ call'[c].pc = IF has THEN "here" ELSE "try"
      /\ call'[c].op = "get" /\ call'[c].key = k /\ call'[c].id = id
      /\ ~has => call'[c].left = connected
      /\ call'[c].held <=> held
  <2> HIDE DEF held, has
  <2>1. call' = [call EXCEPT ![c] =
                  [NoCall EXCEPT !.pc = IF has THEN "here" ELSE "try", !.op = "get",
                                 !.key = k, !.id = id, !.left = IF has THEN @ ELSE connected,
                                 !.held = held]]
    BY <1>1 DEF held, has
  <2>2. QED
    BY <1>2, <2>1 DEF TypeOK, NoCall
<1>4. \A d \in Clients : d # c => call'[d] = call[d]
  BY <1>1, <1>2 DEF TypeOK
<1>5. ASSUME held PROVE \E q \in Nodes : <<Asked(c, q)', id>> \in confirmed /\ q \in connected
  <2>1. PICK r \in confirmed : FileOf(r[1]) = <<At[c], k>> /\ r[2] = id
    BY <1>5 DEF Confirmed
  <2> DEFINE q == r[1][1]
  <2>2. r = <<r[1], r[2]>> /\ r[1] = <<q, At[c], k>> /\ q \in Nodes
    BY <1>2, <2>1 DEF TypeOK, Shelves, FileOf
  <2>3. q # At[c]
    BY <2>2 DEF StayInv, ConfirmedThere, AtHome
  <2>4. connected = Nodes \ {At[c]}
    BY DEF Peers, OnlyGetterDeletes
  <2>5. Asked(c, q)' = <<q, At[c], k>>
    BY <1>3 DEF Asked
  <2>6. <<Asked(c, q)', id>> \in confirmed
    BY <2>1, <2>2, <2>5
  <2>7. QED
    BY <2>2, <2>3, <2>4, <2>6
<1>6. ASSUME held, ~has PROVE "delete" \in Ops[c]
  <2>1. PICK r \in confirmed : FileOf(r[1]) = <<At[c], k>> /\ r[2] = id
    BY <1>6 DEF Confirmed
  <2>2. r[1] \in Shelves /\ r[1][2] = At[c] /\ HomeOf(r[1]) = s
    BY <1>2, <2>1 DEF TypeOK, FileOf, HomeOf, Own
  <2>3. ~There(s, id)
    BY <1>2, <1>6 DEF LatestGiven, Given, There
  <2>4. QED
    BY <1>2, <2>1, <2>2, <2>3, NotThereDeletes
<1> HIDE DEF has, held
<1>7. HeldGet(c)'
  <2>1. ASSUME held, ~has PROVE Found(c)' /\ \A p \in Nodes : Fetching(c, p)'
    <3>1. Found(c)'
      BY <1>2, <1>3, <1>5, <2>1 DEF Found
    <3>2. \A p \in Nodes : Fetching(c, p)'
      BY <1>2 DEF Fetching, Got, Live
    <3>3. QED
      BY <3>1, <3>2
  <2>2. held => \E q \in Nodes : <<Asked(c, q)', call'[c].id>> \in confirmed'
    BY <1>2, <1>3, <1>5
  <2>3. QED
    BY <1>3, <1>6, <2>1, <2>2 DEF HeldGet
<1>8. \A p \in Nodes : Unbroken(c, p)'
  BY <1>2 DEF Unbroken
<1>9. QED
  BY <1>2, <1>4, <1>7, <1>8, QuietFinds DEF Finds

\* What ReadVersion finds it returns; else the get goes to the peer that has
\* confirmed the version.
LEMMA ReadHereFinds ==
  ASSUME OnlyGetterDeletes, ServerInv, StayInv, FindInv, HomeInv, NEW c \in Clients, ReadHere(c)
  PROVE  FindInv'
<1> DEFINE k == call[c].key
           id == call[c].id
           s == Own(c, k)
<1>1. /\ TypeOK /\ call[c] \in CallRecord /\ call[c].pc = "here"
      /\ UNCHANGED <<index, blob, xfer, confirmed>>
      /\ HeldGet(c) /\ Begun(c) /\ \A p \in Nodes : Unbroken(c, p)
  BY DEF ServerInv, TypeOK, StayInv, FindInv, Finds, ReadHere
<1>2. /\ \A p \in Nodes : xfer[c][p].pc = "idle" /\ xfer[c][p].res = "none"
      /\ call[c].op = "get" /\ Ops[c] \cap {"get", "getLatest"} # {} /\ s \in Shelves
  BY <1>1, OwnShelf DEF Unbroken, Begun, CallRecord
<1>3. /\ \A d \in Clients : d # c => call'[d] = call[d]
      /\ call'[c].op = "get" /\ call'[c].key = k /\ call'[c].id = id
      /\ call'[c].held = call[c].held
      /\ \/ /\ call'[c].pc = "returned" /\ Readable(s, id)
            /\ call'[c].got = ReadLocal(c, k, id)
         \/ call'[c].pc = "try" /\ call'[c].left \in Peers(At[c])
  BY <1>1, <1>2, ReadHereCall DEF SameCall
<1>4. \A p \in Nodes : Unbroken(c, p)'
  BY <1>1, <1>2, <1>3 DEF Unbroken
<1>5. HeldGet(c)'
  <2> SUFFICES ASSUME call[c].held PROVE HeldGet(c)'
    BY <1>3 DEF HeldGet
  <2>1. PICK q \in Nodes : <<Asked(c, q), id>> \in confirmed
    BY <1>1 DEF HeldGet
  <2>2. CASE call'[c].pc = "returned"
    <3>1. /\ resolveVersion(index[s], id).id \in VersionIDs
          /\ blob[s][resolveVersion(index[s], id).id] # NoBlob
      BY <1>1, <1>2, <1>3, <2>2, IndexTyped, ResolvedEntry, EntryTypes DEF Readable
    <3>2. blob[s][resolveVersion(index[s], id).id].of # NoVersion
      BY <1>2, <3>1 DEF StayInv, BlobsFilled
    <3>3. call'[c].got.of # NoVersion
      BY <1>3, <2>2, <3>2 DEF ReadLocal
    <3>4. QED
      BY <1>3, <2>2, <3>3 DEF HeldGet
  <2>3. CASE call'[c].pc = "try"
    <3>1. ~Readable(s, id) /\ call'[c].left = Nodes \ {At[c]}
      BY <1>1, <1>3, <2>3 DEF ReadHere, Peers, OnlyGetterDeletes, TypeOK, CallRecord
    <3>2. <<Asked(c, q), id>> = <<<<q, At[c], k>>, id>>
      BY DEF Asked
    <3>3. id # NoVersion /\ q # At[c] /\ HomeOf(<<q, At[c], k>>) = s
      <4>1. <<<<q, At[c], k>>, id>>[2] \in VersionIDs
        BY <1>1, <2>1, <3>2 DEF TypeOK
      <4>2. q # At[c]
        BY <2>1, <3>2 DEF StayInv, ConfirmedThere, AtHome
      <4>3. QED
        BY <4>1, <4>2, NoVersionAssumption DEF HomeOf, Own
    <3>4. "delete" \in Ops[c]
      <4>1. ~There(s, id)
        BY <1>2, <3>1, <3>3, ThereReadable
      <4>2. QED
        BY <1>2, <2>1, <3>2, <3>3, <4>1, NotThereDeletes
    <3>5. Found(c)'
      <4>1. Asked(c, q)' = Asked(c, q)
        BY <1>3 DEF Asked
      <4>2. QED
        BY <1>1, <1>3, <2>1, <3>1, <3>3, <4>1 DEF Found
    <3>6. \A p \in Nodes : Fetching(c, p)'
      BY <1>1, <1>2 DEF Fetching, Got, Live
    <3>7. QED
      BY <1>3, <2>3, <3>4, <3>5, <3>6 DEF HeldGet
  <2>4. QED
    BY <1>3, <2>2, <2>3
<1>6. QED
  BY <1>1, <1>2, <1>3, <1>4, <1>5, QuietFinds DEF Finds

LEMMA TryFinds ==
  ASSUME ServerInv, StayInv, FindInv, NEW c \in Clients, Try(c)
  PROVE  FindInv'
<1>1. /\ TypeOK /\ call[c] \in CallRecord /\ call[c].pc = "try"
      /\ UNCHANGED <<index, blob, confirmed>>
      /\ HeldGet(c) /\ \A p \in Nodes : Unbroken(c, p)
  BY DEF ServerInv, TypeOK, FindInv, Finds, Try
<1>2. \A p \in Nodes : xfer[c][p].pc \in {"idle", "end"}
  BY <1>1, RestingTransfers DEF Resting
<1>3. ASSUME NEW p \in call[c].left, xfer' = [xfer EXCEPT ![c][p] = Opening],
             call' = [call EXCEPT ![c].pc = "fetch", ![c].left = @ \ {p}]
      PROVE  FindInv'
  <2>1. /\ call'[c].op = call[c].op /\ call'[c].pc = "fetch" /\ call'[c].left = call[c].left \ {p}
        /\ call'[c].key = call[c].key /\ call'[c].id = call[c].id /\ call'[c].held = call[c].held
        /\ \A d \in Clients : d # c => call'[d] = call[d]
    BY <1>1, <1>3 DEF TypeOK, CallRecord
  <2>2. p \in Nodes
    BY <1>1 DEF CallRecord
  <2>3. /\ \A d \in Clients : d # c => xfer'[d] = xfer[d]
        /\ \A q \in Nodes : xfer'[c][q] = IF q = p THEN Opening ELSE xfer[c][q]
    BY <1>1, <1>3, <2>2 DEF TypeOK
  <2>4. \A q \in Nodes : Unbroken(c, q)'
    BY <1>1, <2>1, <2>3, FanResults DEF Unbroken
  <2>5. HeldGet(c)'
    <3> SUFFICES ASSUME call[c].held PROVE HeldGet(c)'
      BY <2>1 DEF HeldGet
    <3>1. /\ call[c].op = "get" /\ "delete" \in Ops[c]
          /\ Found(c) /\ \A q \in Nodes : Fetching(c, q)
      BY <1>1 DEF HeldGet
    <3>2. PICK q \in Nodes : <<Asked(c, q), call[c].id>> \in confirmed /\ q \in call[c].left
      BY <1>1, <3>1 DEF Found
    <3>3. q = p => GoodWay(c, q)'
      BY <2>3, FanResults DEF GoodWay, Live
    <3>4. Found(c)'
      <4>1. Asked(c, q)' = Asked(c, q)
        BY <2>1 DEF Asked
      <4>2. QED
        BY <1>1, <2>1, <3>2, <3>3, <4>1 DEF Found
    <3>5. ASSUME NEW r \in Nodes PROVE Fetching(c, r)'
      <4>1. \A t \in Nodes : xfer[c][t].res # "ok"
        BY <1>1, <3>1 DEF Fetching
      <4>2. \A t \in Nodes : xfer'[c][t].res # "ok"
        BY <2>3, <4>1, FanResults
      <4>3. xfer'[c][r].pc \in {"idle", "end", "open"}
        BY <1>2, <2>3, FanResults
      <4>4. xfer'[c][r].pc \notin {"idle", "end"} =>
              \A t \in Nodes \ {r} : xfer'[c][t].pc \in {"idle", "end"}
        BY <1>2, <2>3
      <4>5. QED
        BY <2>1, <4>2, <4>3, <4>4 DEF Fetching, Got, Live
    <3>6. QED
      BY <2>1, <3>1, <3>4, <3>5 DEF HeldGet
  <2>6. QED
    BY <1>1, <2>1, <2>3, <2>4, <2>5, QuietFinds DEF Finds
<1>4. ASSUME call[c].left = {}, call' = [call EXCEPT ![c].pc = "returned"], UNCHANGED xfer
      PROVE  FindInv'
  <2>1. ~call[c].held
    BY <1>1, <1>4 DEF HeldGet, Found
  <2>2. /\ ~call'[c].held /\ call'[c].pc = "returned"
        /\ \A d \in Clients : d # c => call'[d] = call[d]
    BY <1>1, <1>4, <2>1 DEF TypeOK, CallRecord
  <2>3. Finds(c)'
    BY <1>1, <1>4, <2>2, NoneHeld DEF Unbroken
  <2>4. QED
    BY <1>1, <1>4, <2>2, <2>3, QuietFinds
<1>5. QED
  BY <1>3, <1>4 DEF Try

LEMMA FetchedFinds ==
  ASSUME ServerInv, StayInv, FindInv, NEW c \in Clients, Fetched(c)
  PROVE  FindInv'
<1> DEFINE k == call[c].key
           id == call[c].id
           ok == \E p \in Nodes : xfer[c][p].res = "ok"
           pc == IF ok THEN "returned" ELSE "try"
           got == IF ok /\ Readable(Own(c, k), id) THEN ReadLocal(c, k, id) ELSE call[c].got
<1>1. /\ TypeOK /\ call[c] \in CallRecord /\ call[c].pc = "fetch"
      /\ \A p \in Nodes : xfer[c][p].pc \in {"idle", "end"}
      /\ UNCHANGED <<index, blob, xfer, confirmed>>
      /\ HeldGet(c) /\ \A p \in Nodes : Unbroken(c, p)
  BY DEF ServerInv, TypeOK, FindInv, Finds, Fetched
<1>2. call' = [call EXCEPT ![c].pc = pc, ![c].got = got]
  BY <1>1 DEF Fetched, CallRecord, TypeOK
<1> HIDE DEF pc, got
<1>3. /\ call'[c].op = call[c].op /\ call'[c].pc = pc /\ call'[c].got = got
      /\ call'[c].left = call[c].left /\ call'[c].key = k /\ call'[c].id = id
      /\ call'[c].held = call[c].held
      /\ \A d \in Clients : d # c => call'[d] = call[d]
  BY <1>1, <1>2 DEF TypeOK, CallRecord
<1>4. \A p \in Nodes : Unbroken(c, p)'
  BY <1>1, <1>3 DEF Unbroken, pc
<1>5. HeldGet(c)'
  <2> SUFFICES ASSUME call[c].held PROVE HeldGet(c)'
    BY <1>3 DEF HeldGet
  <2>1. /\ Waits(c) /\ call[c].op = "get" /\ "delete" \in Ops[c]
        /\ Found(c) /\ \A q \in Nodes : Fetching(c, q)
    BY <1>1 DEF HeldGet, Waits
  <2>2. CASE ok
    <3>1. There(Own(c, k), id)
      BY <2>1, <2>2 DEF Fetching, Got
    <3>2. Own(c, k) \in Shelves /\ id \in VersionIDs /\ id # NoVersion
      BY <2>1, WaitingGet
    <3>3. Readable(Own(c, k), id) /\ resolveVersion(index[Own(c, k)], id).id = id
      BY <3>1, <3>2, ThereReadable
    <3>4. ReadLocal(c, k, id).of = blob[Own(c, k)][id].of
      BY <3>3 DEF ReadLocal
    <3>5. blob[Own(c, k)][id].of # NoVersion
      BY <3>1, <3>2 DEF There, StayInv, BlobsFilled
    <3>6. call'[c].got.of # NoVersion
      BY <1>3, <2>2, <3>3, <3>4, <3>5 DEF got
    <3>7. QED
      BY <1>3, <2>1, <2>2, <3>6 DEF HeldGet, pc
  <2>3. CASE ~ok
    <3>1. PICK q \in Nodes : /\ <<Asked(c, q), id>> \in confirmed
                             /\ q \in call[c].left \/ GoodWay(c, q)
      BY <2>1 DEF Found
    <3>2. ~GoodWay(c, q)
      BY <1>1, <2>3 DEF GoodWay, Live
    <3>3. Found(c)'
      <4>1. Asked(c, q)' = Asked(c, q)
        BY <1>3 DEF Asked
      <4>2. QED
        BY <1>1, <1>3, <3>1, <3>2, <4>1 DEF Found
    <3>4. \A p \in Nodes : Fetching(c, p)'
      BY <1>1, <2>3 DEF Fetching, Got, Live
    <3>5. QED
      BY <1>3, <2>1, <2>3, <3>3, <3>4 DEF HeldGet, pc
  <2>4. QED
    BY <2>2, <2>3
<1>6. QED
  BY <1>1, <1>3, <1>4, <1>5, QuietFinds DEF Finds

LEMMA FindInvInit ==
  ASSUME Init PROVE FindInv
<1>1. /\ \A c \in Clients : call[c] = NoCall
      /\ \A c \in Clients, p \in Nodes : xfer[c][p] = NoTransfer
  BY DEF Init
<1>2. ~NoCall.held
  BY DEF NoCall
<1>3. QED
  BY <1>1, <1>2, FanResults DEF FindInv, Finds, HeldGet, Unbroken

LEMMA FindInvStep ==
  ASSUME OnlyGetterDeletes, MaxVersions = 0, ServerInv, StayInv, FindInv, HomeInv, LatestGiven,
         [Next]_vars
  PROVE  FindInv'
<1>1. ASSUME NEW c \in Clients, Begin(c) PROVE FindInv'
  BY <1>1, StoreVersionFinds, ShareFinds, StoreLocalFinds, DeleteFinds, GetVersionFinds,
     NothingBreaks DEF Begin
<1>2. ASSUME NEW c \in Clients, Proceed(c) PROVE FindInv'
  BY <1>2, ShareFinds, ReadHereFinds, TryFinds, FetchedFinds, FanDoneFinds, ForgetFinds DEF Proceed
<1>3. ASSUME NEW c \in Clients, NEW p \in Nodes, Transfer(c, p) PROVE FindInv'
  BY <1>3, OpenLocalFinds, VersionInfoFinds, ReadVersionRawFinds, ReceiveFinds,
     CheckCountFinds, ReplyFinds DEF Transfer
<1>4. ASSUME NEW c \in Clients, NEW p \in Nodes, GiveUp(c, p) \/ Break(c, p) PROVE FALSE
  BY <1>4, NothingBreaks
<1>5. CASE UNCHANGED vars
  <2>1. ASSUME NEW c \in Clients PROVE Finds(c)'
    <3>1. ConfirmedLeft /\ \A s, id : Leaves(s, id)
      BY <1>5 DEF vars, ConfirmedLeft, Leaves
    <3>2. \A q \in Nodes : Stays(c, q)
      BY <1>5 DEF vars, Stays
    <3>3. call'[c] = call[c] /\ confirmed \subseteq confirmed'
      BY <1>5 DEF vars
    <3>4. QED
      BY <3>1, <3>2, <3>3, OtherFinds
  <2>2. QED
    BY <2>1 DEF FindInv
<1>6. ASSUME NEW n \in Nodes, Crash(n) PROVE FALSE
  BY <1>6 DEF Crash, OnlyGetterDeletes
<1>7. QED
  BY <1>1, <1>2, <1>3, <1>4, <1>5, <1>6 DEF Next

\* A get of a version that a peer had confirmed when the get began returns content:
\* the version is at home, or the peer that confirmed it is asked or answers, whatever
\* the others answer first; its copy is there when it is asked and stays until the
\* body is over, and what arrives is at home when the get reads it.  At a node with
\* a client that deletes no other gets, and nothing fails: no lost peer, no broken
\* stream, no short body, no crash.
THEOREM GetsFindReplicas ==
  ASSUME OnlyGetterDeletes, MaxVersions = 0 PROVE Spec => []GetFindsReplica
<1> DEFINE Inv == FindInv /\ HomeInv /\ LatestGiven
<1>1. Init => Inv
  BY FindInvInit, HomeInvInit, LatestGivenInit
<1>2. ServerInv /\ ServerInv' /\ StayInv /\ Inv /\ [Next]_vars => Inv'
  BY FindInvStep, HomeInvStep, LatestGivenStep
<1>3. Inv => GetFindsReplica
  BY DEF FindInv, Finds, HeldGet, GetFindsReplica, NoContent
<1> HIDE DEF Inv
<1>4. QED
  BY <1>1, <1>2, <1>3, StayInvHolds, PTL DEF Spec
=============================================================================
