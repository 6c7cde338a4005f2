---------------------------- MODULE CommandsProofs -----------------------------
(***************************************************************************)
(* What the client commands promise, for any number of commands, keys,     *)
(* runs of the node and mishaps.                                           *)
(*                                                                         *)
(* CmdInv is the inductive invariant.  Its core relates the two ends of a  *)
(* connection: how far the command is (cmd), how far its handler is (req)  *)
(* and what has been written to the output file (Stage); the entry an      *)
(* answer carries is one the key has had (Recorded); and a handler at work *)
(* is one of the node's present run, which has been killed or has lost its *)
(* patience if it exits before them, so that only then a command that did  *)
(* something sees its connection break (Served).                           *)
(***************************************************************************)
EXTENDS Commands, VersionIndexProofs, TLAPS, FiniteSetTheorems

\* The two ends of a command's connection, and its output file.
StageOf(q) ==
    /\ cmd[q].pc = "idle" => cmd[q] = NoCmd
    /\ cmd[q].pc \in {"idle", "dial", "notRunning"} \/ cmd[q].op = "alias" =>
         req[q] = NoRequest
    /\ cmd[q].op = "alias" => cmd[q].pc \in {"open", "write", "ok", "gone"}
    /\ cmd[q].pc \in {"open", "write"} => cmd[q].op = "alias"
    /\ cmd[q].pc = "lost" => req[q].pc = "broken"
    /\ req[q].pc \in {"none", "queued", "recv"} => req[q].entry = NoEntry /\ ~cmd[q].did
    /\ req[q].pc \in {"none", "queued"} => req[q].n = 0
    /\ cmd[q].pc \in {"idle", "dial", "wait", "notRunning", "failed"} => out[q] = OldFile
    /\ req[q].pc = "recv" => cmd[q].op \in Uploads
    /\ req[q].pc = "stored" => cmd[q].op \in Uploads
    /\ req[q].pc = "send" => cmd[q].op = "get" /\ req[q].n <= req[q].entry.n
    /\ cmd[q].op \in Uploads /\ req[q].pc \in {"stored", "answered"} =>
         req[q].entry # NoEntry /\ req[q].entry.n = cmd[q].size
    /\ cmd[q].op = "get" => ~cmd[q].did
    /\ cmd[q].op = "get" /\ req[q].pc \in {"send", "answered"} => req[q].entry # NoEntry
    /\ cmd[q].pc = "body" => /\ cmd[q].op = "get"
                             /\ req[q].entry # NoEntry
                             /\ out[q].id = req[q].entry.id
                             /\ cmd[q].size = req[q].entry.size
Stage == \A q \in Cmds : StageOf(q)

\* What a command was told, and what it made of it, the key has had.
RecordedOf(q) ==
    /\ req[q].entry # NoEntry => req[q].entry \in past[cmd[q].key]
    /\ cmd[q].pc = "ok" /\ cmd[q].op \in Uploads =>
         \E e \in past[cmd[q].key] : e.id = cmd[q].id /\ e.n = cmd[q].size
    /\ cmd[q].pc = "ok" /\ cmd[q].op = "get" =>
         \E e \in past[cmd[q].key] : out[q].id = e.id /\ out[q].n = e.size
Recorded == \A q \in Cmds : RecordedOf(q)

\* A handler at work is one of the node that is running.  A node that goes on to
\* exit has none at work, or could not wait; and a command that did something and
\* gets no answer had a node that was killed, or could not wait.
ServedOf(q) ==
    /\ req[q].pc \in Handled => cmd[q].run = node.run /\ node.phase # "down"
    /\ node.phase = "closing" /\ node.run \notin rough => req[q].pc \notin Handled
    /\ cmd[q].did /\ Alive(q) /\ req[q].pc = "broken" => cmd[q].run \in rough
    /\ cmd[q].did /\ cmd[q].pc = "lost" => cmd[q].run \in rough
Served == \A q \in Cmds : ServedOf(q)

\* A listed version is one the key has had, and those are whole and, without a
\* version limit, listed until they are removed.
KeptOf(k) ==
    /\ Entries(index[k].versions) \subseteq past[k]
    /\ \A e \in past[k] : e.n = e.size
    /\ MaxVersions = 0 =>
         \A e \in past[k] : e \in Entries(index[k].versions) \/ e.id \in removed
KeptListed == \A k \in Keys : KeptOf(k)

\* One alias command at a time, which has read what the one before it wrote.
SavingOf(q) ==
    /\ cmd[q].names = {q} \cup named
    /\ cmd[q].pc = "open" => aliases = named
    /\ cmd[q].pc = "write" => aliases = {}
OneAfterAnother ==
    tidy => /\ \A q, r \in Cmds : Saving(q) /\ Saving(r) => q = r
            /\ IsFiniteSet(named)
            /\ (\A q \in Cmds : ~Saving(q)) => aliases = named
            /\ \A q \in Cmds : Saving(q) => SavingOf(q)

CmdInv ==
    /\ TypeOK
    /\ node.run # 0
    /\ Stage
    /\ Recorded
    /\ Served
    /\ KeptListed
    /\ OneAfterAnother

-----------------------------------------------------------------------------
(* What the types give.                                                    *)
(***************************************************************************)
CmdPlaces == Ended \cup OnLine \cup {"dial", "open", "write"}
ReqPlaces == Handled \cup {"none", "answered", "refused", "broken"}
CmdRecord == [pc : CmdPlaces, op : AllOps, key : Keys, run : 0 .. MaxRuns, size : 0 .. Blocks,
              sent : 0 .. Blocks, id : IdOrNone, did : BOOLEAN, names : SUBSET Cmds]
ReqRecord == [pc : ReqPlaces, n : 0 .. Blocks, entry : Entry \cup {NoEntry}]
OutRecord == [id : IdOrNone, n : 0 .. Blocks]
IndexRecord == [latest : IdOrNone, versions : Seq(Entry)]

LEMMA Typed ==
    TypeOK <=>
    /\ node \in [run : 0 .. MaxRuns,
                 phase : {"up", "hidden", "draining", "closing", "down"}]
    /\ addr \in 0 .. MaxRuns
    /\ index \in [Keys -> IndexRecord]
    /\ lock \in [Keys -> Cmds \cup {Nobody}]
    /\ req \in [Cmds -> ReqRecord]
    /\ cmd \in [Cmds -> CmdRecord]
    /\ out \in [Cmds -> OutRecord]
    /\ aliases \in (SUBSET Cmds) \cup {Torn}
    /\ past \in [Keys -> SUBSET Entry]
    /\ removed \subseteq VersionIDs
    /\ rough \subseteq 1 .. MaxRuns
    /\ named \subseteq Cmds
    /\ tidy \in BOOLEAN
BY DEF TypeOK, CmdRecord, CmdPlaces, ReqRecord, ReqPlaces, OutRecord, IndexRecord

LEMMA Fields ==
    ASSUME TypeOK, NEW q \in Cmds
    PROVE  /\ cmd[q] \in CmdRecord /\ req[q] \in ReqRecord /\ out[q] \in OutRecord
           /\ cmd[q].pc \in CmdPlaces
           /\ cmd[q].op \in AllOps
           /\ cmd[q].key \in Keys
           /\ cmd[q].run \in 0 .. MaxRuns
           /\ cmd[q].size \in 0 .. Blocks
           /\ cmd[q].sent \in 0 .. Blocks
           /\ cmd[q].id \in IdOrNone
           /\ cmd[q].did \in BOOLEAN
           /\ cmd[q].names \in SUBSET Cmds
           /\ req[q].pc \in ReqPlaces
           /\ req[q].n \in 0 .. Blocks
           /\ req[q].entry \in Entry \cup {NoEntry}
           /\ out[q].id \in IdOrNone
           /\ out[q].n \in 0 .. Blocks
<1>1. cmd[q] \in CmdRecord /\ req[q] \in ReqRecord /\ out[q] \in OutRecord
    BY Typed
<1> QED
    BY <1>1 DEF CmdRecord, ReqRecord, OutRecord

LEMMA EntryFields ==
    ASSUME NEW e \in Entry
    PROVE  /\ e.id \in VersionIDs
           /\ e.seq \in Nat
           /\ e.n \in 0 .. Blocks
           /\ e.size \in 0 .. Blocks
           /\ e # NoEntry
<1>1. e.id \in VersionIDs /\ e.seq \in Nat /\ e.n \in 0 .. Blocks /\ e.size \in 0 .. Blocks
    BY DEF Entry
<1>2. NoEntry.id = NoVersion
    BY DEF NoEntry
<1> QED
    BY <1>1, <1>2, NoVersionAssumption

LEMMA BlocksNat == Blocks \in Nat \ {0} /\ MaxRuns \in Nat \ {0}
BY CommandsAssumption

OtherCmds(q) == \A r \in Cmds : r # q => cmd'[r] = cmd[r]
OtherReqs(q) == \A r \in Cmds : r # q => req'[r] = req[r]
OtherOuts(q) == \A r \in Cmds : r # q => out'[r] = out[r]

\* What a step makes of a command, of its handler and of its output file.
CmdAt(q, pc, size, sent, id, did) ==
    /\ cmd' \in [Cmds -> CmdRecord]
    /\ OtherCmds(q)
    /\ cmd'[q].pc = pc
    /\ cmd'[q].op = cmd[q].op
    /\ cmd'[q].key = cmd[q].key
    /\ cmd'[q].run = cmd[q].run
    /\ cmd'[q].size = size
    /\ cmd'[q].sent = sent
    /\ cmd'[q].id = id
    /\ cmd'[q].did = did
    /\ cmd'[q].names = cmd[q].names
CmdGoes(q, pc) == CmdAt(q, pc, cmd[q].size, cmd[q].sent, cmd[q].id, cmd[q].did)
ReqAt(q, pc, n, entry) ==
    /\ req' \in [Cmds -> ReqRecord]
    /\ OtherReqs(q)
    /\ req'[q].pc = pc
    /\ req'[q].n = n
    /\ req'[q].entry = entry
ReqGoes(q, pc) == ReqAt(q, pc, req[q].n, req[q].entry)
OutAt(q, id, n) ==
    /\ out' \in [Cmds -> OutRecord]
    /\ OtherOuts(q)
    /\ out'[q].id = id
    /\ out'[q].n = n

LEMMA CmdReplaced ==
    ASSUME TypeOK, NEW q \in Cmds, NEW new \in CmdRecord, cmd' = [cmd EXCEPT ![q] = new]
    PROVE  cmd' \in [Cmds -> CmdRecord] /\ OtherCmds(q) /\ cmd'[q] = new
BY Typed DEF OtherCmds

LEMMA ReqReplaced ==
    ASSUME TypeOK, NEW q \in Cmds, NEW new \in ReqRecord, req' = [req EXCEPT ![q] = new]
    PROVE  req' \in [Cmds -> ReqRecord] /\ OtherReqs(q) /\ req'[q] = new
BY Typed DEF OtherReqs

LEMMA OutReplaced ==
    ASSUME TypeOK, NEW q \in Cmds, NEW new \in OutRecord, out' = [out EXCEPT ![q] = new]
    PROVE  out' \in [Cmds -> OutRecord] /\ OtherOuts(q) /\ out'[q] = new
BY Typed DEF OtherOuts

LEMMA ToFlat ==
    ASSUME TypeOK, NEW q \in Cmds, NEW pc \in CmdPlaces, To(q, pc)
    PROVE  CmdGoes(q, pc)
<1> DEFINE new == [cmd[q] EXCEPT !.pc = pc]
<1>1. cmd \in [Cmds -> CmdRecord] /\ cmd[q] \in CmdRecord
    BY Typed
<1>2. new \in CmdRecord
    BY <1>1 DEF CmdRecord
<1>3. cmd' = [cmd EXCEPT ![q] = new]
    BY DEF To
<1>4. /\ new.pc = pc
      /\ new.op = cmd[q].op
      /\ new.key = cmd[q].key
      /\ new.run = cmd[q].run
      /\ new.size = cmd[q].size
      /\ new.sent = cmd[q].sent
      /\ new.id = cmd[q].id
      /\ new.did = cmd[q].did
      /\ new.names = cmd[q].names
    BY <1>1 DEF CmdRecord
<1> HIDE DEF new
<1>5. cmd' \in [Cmds -> CmdRecord] /\ OtherCmds(q) /\ cmd'[q] = new
    BY <1>1, <1>2, <1>3 DEF OtherCmds
<1> QED
    BY <1>4, <1>5 DEF CmdAt, CmdGoes

LEMMA GoesFlat ==
    ASSUME TypeOK, NEW q \in Cmds, NEW pc \in ReqPlaces, Req(q, pc)
    PROVE  ReqGoes(q, pc)
<1> DEFINE new == [req[q] EXCEPT !.pc = pc]
<1>1. req \in [Cmds -> ReqRecord] /\ req[q] \in ReqRecord
    BY Typed
<1>2. new \in ReqRecord
    BY <1>1 DEF ReqRecord
<1>3. req' = [req EXCEPT ![q] = new]
    BY DEF Req
<1>4. new.pc = pc /\ new.n = req[q].n /\ new.entry = req[q].entry
    BY <1>1 DEF ReqRecord
<1> HIDE DEF new
<1>5. req' \in [Cmds -> ReqRecord] /\ OtherReqs(q) /\ req'[q] = new
    BY <1>1, <1>2, <1>3 DEF OtherReqs
<1> QED
    BY <1>4, <1>5 DEF ReqAt, ReqGoes

LEMMA SameReq ==
    ASSUME TypeOK, NEW q \in Cmds, req' = req
    PROVE  ReqGoes(q, req[q].pc)
BY Typed DEF ReqGoes, ReqAt, OtherReqs

LEMMA SameCmd ==
    ASSUME TypeOK, NEW q \in Cmds, cmd' = cmd
    PROVE  CmdGoes(q, cmd[q].pc)
BY Typed DEF CmdGoes, CmdAt, OtherCmds

LEMMA SameOut ==
    ASSUME TypeOK, NEW q \in Cmds, out' = out
    PROVE  OutAt(q, out[q].id, out[q].n)
BY Typed DEF OutAt, OtherOuts

-----------------------------------------------------------------------------
(* A step of one command or its handler leaves the others' parts alone.    *)
(***************************************************************************)
LEMMA StageStep ==
    ASSUME Stage, NEW q \in Cmds, OtherCmds(q), OtherReqs(q), OtherOuts(q), StageOf(q)'
    PROVE  Stage'
<1> SUFFICES ASSUME NEW r \in Cmds, r # q
             PROVE  StageOf(r)'
    BY DEF Stage
<1>1. StageOf(r) /\ cmd'[r] = cmd[r] /\ req'[r] = req[r] /\ out'[r] = out[r]
    BY DEF Stage, OtherCmds, OtherReqs, OtherOuts
<1> QED
    BY <1>1 DEF StageOf

LEMMA RecordedStep ==
    ASSUME TypeOK, Recorded, NEW q \in Cmds, OtherCmds(q), OtherReqs(q), OtherOuts(q),
           \A k \in Keys : past[k] \subseteq past'[k], RecordedOf(q)'
    PROVE  Recorded'
<1> SUFFICES ASSUME NEW r \in Cmds, r # q
             PROVE  RecordedOf(r)'
    BY DEF Recorded
<1>1. RecordedOf(r) /\ cmd'[r] = cmd[r] /\ req'[r] = req[r] /\ out'[r] = out[r]
    BY DEF Recorded, OtherCmds, OtherReqs, OtherOuts
<1>2. past[cmd[r].key] \subseteq past'[cmd[r].key]
    BY Fields
<1> QED
    BY <1>1, <1>2 DEF RecordedOf

LEMMA ServedStep ==
    ASSUME Served, NEW q \in Cmds, OtherCmds(q), OtherReqs(q), UNCHANGED <<node, rough>>,
           ServedOf(q)'
    PROVE  Served'
<1> SUFFICES ASSUME NEW r \in Cmds, r # q
             PROVE  ServedOf(r)'
    BY DEF Served
<1>1. ServedOf(r) /\ cmd'[r] = cmd[r] /\ req'[r] = req[r]
    BY DEF Served, OtherCmds, OtherReqs
<1> QED
    BY <1>1 DEF ServedOf, Alive

LEMMA AliasesStep ==
    ASSUME OneAfterAnother, NEW q \in Cmds, OtherCmds(q), UNCHANGED naming,
           ~Saving(q), ~Saving(q)'
    PROVE  OneAfterAnother'
<1>1. aliases' = aliases /\ named' = named /\ tidy' = tidy
    BY DEF naming
<1>2. \A r \in Cmds : /\ Saving(r)' <=> Saving(r)
                      /\ Saving(r) => cmd'[r] = cmd[r]
  <2> SUFFICES ASSUME NEW r \in Cmds
               PROVE  (Saving(r)' <=> Saving(r)) /\ (Saving(r) => cmd'[r] = cmd[r])
      OBVIOUS
  <2>1. CASE r = q
      BY <2>1
  <2>2. CASE r # q
      BY <2>2 DEF OtherCmds, Saving
  <2> QED
      BY <2>1, <2>2
<1>3. \A r \in Cmds : Saving(r)' /\ SavingOf(r) => SavingOf(r)'
    BY <1>1, <1>2 DEF SavingOf
<1> QED
    BY <1>1, <1>2, <1>3 DEF OneAfterAnother

\* A step of a command or its handler that commits and removes nothing.
LEMMA CoreStep ==
    ASSUME CmdInv, NEW q \in Cmds, UNCHANGED <<served, index, past, removed>>,
           lock' \in [Keys -> Cmds \cup {Nobody}], aliases' \in (SUBSET Cmds) \cup {Torn},
           named' \subseteq Cmds, tidy' \in BOOLEAN,
           cmd' \in [Cmds -> CmdRecord], req' \in [Cmds -> ReqRecord],
           out' \in [Cmds -> OutRecord], OtherCmds(q), OtherReqs(q), OtherOuts(q),
           StageOf(q)', RecordedOf(q)', ServedOf(q)', OneAfterAnother'
    PROVE  CmdInv'
<1>1. /\ TypeOK /\ node.run # 0 /\ Stage /\ Recorded /\ Served /\ KeptListed
    BY DEF CmdInv
<1>2. /\ node' = node /\ addr' = addr /\ rough' = rough
      /\ index' = index /\ past' = past /\ removed' = removed
    BY DEF served
<1>3. TypeOK'
    BY <1>1, <1>2 DEF TypeOK, CmdRecord, CmdPlaces, ReqRecord, ReqPlaces, OutRecord
<1>4. Stage'
    BY <1>1, StageStep
<1>5. Recorded'
    BY <1>1, <1>2, RecordedStep
<1>6. Served'
    BY <1>1, <1>2, ServedStep
<1>7. KeptListed'
    BY <1>1, <1>2 DEF KeptListed, KeptOf
<1> QED
    BY <1>1, <1>2, <1>3, <1>4, <1>5, <1>6, <1>7 DEF CmdInv

\* One that leaves the aliases alone.
LEMMA PlainStep ==
    ASSUME CmdInv, NEW q \in Cmds, UNCHANGED <<served, index, past, removed, naming>>,
           lock' \in [Keys -> Cmds \cup {Nobody}],
           cmd' \in [Cmds -> CmdRecord], req' \in [Cmds -> ReqRecord],
           out' \in [Cmds -> OutRecord], OtherCmds(q), OtherReqs(q), OtherOuts(q),
           ~Saving(q), ~Saving(q)', StageOf(q)', RecordedOf(q)', ServedOf(q)'
    PROVE  CmdInv'
<1>1. TypeOK /\ OneAfterAnother
    BY DEF CmdInv
<1>2. /\ aliases' \in (SUBSET Cmds) \cup {Torn}
      /\ named' \subseteq Cmds
      /\ tidy' \in BOOLEAN
    BY <1>1, Typed DEF naming
<1>3. OneAfterAnother'
    BY <1>1, AliasesStep
<1> QED
    BY <1>2, <1>3, CoreStep

LEMMA Here ==
    ASSUME CmdInv, NEW q \in Cmds
    PROVE  /\ TypeOK /\ StageOf(q) /\ RecordedOf(q) /\ ServedOf(q)
           /\ lock \in [Keys -> Cmds \cup {Nobody}]
           /\ cmd \in [Cmds -> CmdRecord]
           /\ req \in [Cmds -> ReqRecord]
           /\ out \in [Cmds -> OutRecord]
BY Typed DEF CmdInv, Stage, Recorded, Served

-----------------------------------------------------------------------------
(* The command's steps.                                                    *)
(***************************************************************************)
LEMMA StartKeeps ==
    ASSUME CmdInv, NEW q \in Cmds, Start(q)
    PROVE  CmdInv'
<1>1. PICK op \in Ops[q] \ {"alias"}, k \in Keys, size \in 0 .. Blocks,
           id \in {NoVersion} \cup Known :
        /\ cmd[q].pc = "idle"
        /\ op \notin Uploads => size = 0
        /\ op # "get" => id = NoVersion
        /\ cmd' = [cmd EXCEPT ![q] =
             [@ EXCEPT !.pc = IF addr = 0 THEN "notRunning" ELSE "dial",
                       !.op = op, !.key = k, !.run = addr, !.size = size, !.id = id]]
        /\ UNCHANGED <<served, stored, naming, req, out>>
    BY DEF Start
<1>2. TypeOK /\ StageOf(q)
    BY DEF CmdInv, Stage
<1>3. cmd[q] = NoCmd /\ req[q] = NoRequest /\ out[q] = OldFile
    BY <1>1, <1>2 DEF StageOf
<1>4. op \in AllOps /\ op # "alias"
    BY CommandsAssumption
<1>5. id \in IdOrNone
    BY <1>2, Typed, EntryFields DEF Known, IdOrNone
<1>6. addr \in 0 .. MaxRuns /\ cmd[q] \in CmdRecord
    BY <1>2, Typed
<1> DEFINE pc == IF addr = 0 THEN "notRunning" ELSE "dial"
           new == [cmd[q] EXCEPT !.pc = pc, !.op = op, !.key = k, !.run = addr,
                                 !.size = size, !.id = id]
<1>7. pc \in {"notRunning", "dial"}
    OBVIOUS
<1> HIDE DEF pc
<1>8. new \in CmdRecord
    BY <1>4, <1>5, <1>6, <1>7 DEF CmdRecord, CmdPlaces, Ended
<1>9. /\ new.pc = pc
      /\ new.op = op
      /\ new.size = size
      /\ new.sent = cmd[q].sent
      /\ new.did = cmd[q].did
    BY <1>6 DEF CmdRecord
<1>10. cmd' = [cmd EXCEPT ![q] = new]
    BY <1>1 DEF pc
<1> HIDE DEF new
<1>11. cmd' \in [Cmds -> CmdRecord] /\ OtherCmds(q) /\ cmd'[q] = new
    BY <1>2, <1>8, <1>10, CmdReplaced
<1>12. cmd[q].sent = 0 /\ cmd[q].did = FALSE
    BY <1>3 DEF NoCmd
<1>13. req' = req /\ out' = out
    BY <1>1
<1>14. /\ req'[q].pc = "none" /\ req'[q].n = 0 /\ req'[q].entry = NoEntry
    BY <1>3, <1>13 DEF NoRequest
<1>15. StageOf(q)'
    BY <1>3, <1>4, <1>7, <1>9, <1>11, <1>12, <1>13, <1>14 DEF StageOf
<1>16. RecordedOf(q)'
    BY <1>7, <1>9, <1>11, <1>14 DEF RecordedOf
<1>17. ServedOf(q)'
    BY <1>7, <1>9, <1>11, <1>12, <1>14 DEF ServedOf, Handled, Alive, OnLine
<1>18. ~Saving(q) /\ ~Saving(q)'
    BY <1>1, <1>4, <1>9, <1>11 DEF Saving, Ended
<1>19. /\ req' \in [Cmds -> ReqRecord] /\ out' \in [Cmds -> OutRecord]
       /\ OtherReqs(q) /\ OtherOuts(q)
    BY <1>2, <1>13, Typed DEF OtherReqs, OtherOuts
<1> QED
    BY <1>1, <1>2, <1>11, <1>15, <1>16, <1>17, <1>18, <1>19, Typed, PlainStep DEF stored

LEMMA DialKeeps ==
    ASSUME CmdInv, NEW q \in Cmds, Dial(q)
    PROVE  CmdInv'
<1>1. TypeOK /\ StageOf(q) /\ RecordedOf(q) /\ ServedOf(q)
    BY Here
<1>2. /\ cmd[q].pc = "dial" /\ UNCHANGED <<served, stored, naming, out>>
      /\ out' = out /\ lock' = lock /\ node' = node /\ rough' = rough
    BY DEF Dial, stored, served
<1>3. req[q] = NoRequest /\ out[q] = OldFile /\ cmd[q].op # "alias" /\ cmd[q].did = FALSE
    BY <1>1, <1>2, Fields DEF StageOf, NoRequest
<1>4. req[q].pc = "none" /\ req[q].n = 0 /\ req[q].entry = NoEntry
    BY <1>3 DEF NoRequest
<1>5. OutAt(q, out[q].id, out[q].n)
    BY <1>1, <1>2, SameOut
<1>6. \/ /\ Listening(cmd[q].run)
         /\ CmdGoes(q, "wait") /\ ReqGoes(q, "queued")
      \/ CmdGoes(q, "notRunning") /\ req' = req
  <2>1. CASE Listening(cmd[q].run)
    <3>1. To(q, "wait") /\ Req(q, "queued")
        BY <2>1 DEF Dial
    <3> QED
        BY <1>1, <2>1, <3>1, ToFlat, GoesFlat
             DEF CmdPlaces, Ended, OnLine, ReqPlaces, Handled
  <2>2. CASE ~Listening(cmd[q].run)
    <3>1. To(q, "notRunning") /\ req' = req
        BY <2>2 DEF Dial
    <3> QED
        BY <1>1, <3>1, ToFlat DEF CmdPlaces, Ended
  <2> QED
      BY <2>1, <2>2
<1>7. CASE Listening(cmd[q].run) /\ CmdGoes(q, "wait") /\ ReqGoes(q, "queued")
  <2>1. StageOf(q)'
      BY <1>1, <1>2, <1>3, <1>4, <1>7 DEF StageOf, CmdGoes, CmdAt, ReqGoes, ReqAt
  <2>2. RecordedOf(q)'
      BY <1>4, <1>7 DEF RecordedOf, CmdGoes, CmdAt, ReqGoes, ReqAt
  <2>3. ServedOf(q)'
      BY <1>2, <1>3, <1>7 DEF ServedOf, CmdGoes, CmdAt, ReqGoes, ReqAt, Listening
  <2>4. ~Saving(q) /\ ~Saving(q)'
      BY <1>3, <1>7 DEF Saving, CmdGoes, CmdAt
  <2> QED
      BY <1>1, <1>2, <1>5, <1>7, <2>1, <2>2, <2>3, <2>4, Typed, PlainStep
           DEF CmdGoes, CmdAt, ReqGoes, ReqAt, OutAt, stored
<1>8. CASE CmdGoes(q, "notRunning") /\ req' = req
  <2>1. StageOf(q)'
      BY <1>1, <1>2, <1>3, <1>8 DEF StageOf, CmdGoes, CmdAt
  <2>2. RecordedOf(q)'
      BY <1>4, <1>8 DEF RecordedOf, CmdGoes, CmdAt
  <2>3. ServedOf(q)'
      BY <1>3, <1>4, <1>8 DEF ServedOf, CmdGoes, CmdAt, Handled
  <2>4. ~Saving(q) /\ ~Saving(q)'
      BY <1>3, <1>8 DEF Saving, CmdGoes, CmdAt
  <2>5. ReqGoes(q, req[q].pc)
      BY <1>1, <1>8, SameReq
  <2> QED
      BY <1>1, <1>2, <1>5, <1>8, <2>1, <2>2, <2>3, <2>4, <2>5, Typed, PlainStep
           DEF CmdGoes, CmdAt, ReqGoes, ReqAt, OutAt, stored
<1> QED
    BY <1>6, <1>7, <1>8

LEMMA UploadKeeps ==
    ASSUME CmdInv, NEW q \in Cmds, Upload(q)
    PROVE  CmdInv'
<1>1. TypeOK /\ StageOf(q) /\ RecordedOf(q) /\ ServedOf(q) /\ cmd[q] \in CmdRecord
    BY Here
<1>2. /\ cmd[q].pc = "wait"
      /\ cmd[q].sent < cmd[q].size
      /\ cmd' = [cmd EXCEPT ![q].sent = @ + 1]
      /\ UNCHANGED <<served, stored, naming, req, out>>
      /\ out' = out /\ req' = req /\ lock' = lock /\ node' = node /\ rough' = rough
      /\ past' = past
    BY DEF Upload, stored, served
<1>3. cmd[q].sent + 1 \in 0 .. Blocks /\ cmd[q].sent + 1 <= cmd[q].size
    BY <1>1, <1>2, Fields, BlocksNat
<1> DEFINE new == [cmd[q] EXCEPT !.sent = cmd[q].sent + 1]
<1>4. new \in CmdRecord
    BY <1>1, <1>3 DEF CmdRecord
<1>5. /\ new.pc = cmd[q].pc
      /\ new.op = cmd[q].op
      /\ new.key = cmd[q].key
      /\ new.run = cmd[q].run
      /\ new.size = cmd[q].size
      /\ new.sent = cmd[q].sent + 1
      /\ new.id = cmd[q].id
      /\ new.did = cmd[q].did
    BY <1>1 DEF CmdRecord
<1>6. cmd' = [cmd EXCEPT ![q] = new]
    BY <1>2
<1> HIDE DEF new
<1>7. cmd' \in [Cmds -> CmdRecord] /\ OtherCmds(q) /\ cmd'[q] = new
    BY <1>1, <1>4, <1>6, CmdReplaced
<1>8. StageOf(q)'
    BY <1>1, <1>2, <1>3, <1>5, <1>7 DEF StageOf
<1>9. RecordedOf(q)'
    BY <1>1, <1>2, <1>5, <1>7 DEF RecordedOf
<1>10. ServedOf(q)'
    BY <1>1, <1>2, <1>5, <1>7 DEF ServedOf, Alive
<1>11. ~Saving(q) /\ ~Saving(q)'
    BY <1>1, <1>2, <1>5, <1>7 DEF Saving, StageOf
<1>12. ReqGoes(q, req[q].pc) /\ OutAt(q, out[q].id, out[q].n)
    BY <1>1, <1>2, SameReq, SameOut
<1> QED
    BY <1>1, <1>2, <1>7, <1>8, <1>9, <1>10, <1>11, <1>12, Typed, PlainStep
         DEF ReqGoes, ReqAt, OutAt, stored

LEMMA ReadHeadKeeps ==
    ASSUME CmdInv, NEW q \in Cmds, ReadHead(q)
    PROVE  CmdInv'
<1>1. TypeOK /\ StageOf(q) /\ RecordedOf(q) /\ ServedOf(q) /\ cmd[q] \in CmdRecord
    BY Here
<1>2. /\ cmd[q].pc = "wait"
      /\ UNCHANGED <<served, stored, naming, req>>
      /\ req' = req /\ lock' = lock /\ node' = node /\ rough' = rough /\ past' = past
    BY DEF ReadHead, stored, served
<1>3. ReqGoes(q, req[q].pc) /\ cmd[q].op # "alias"
    BY <1>1, <1>2, SameReq DEF StageOf
<1> DEFINE e == req[q].entry
<1>4. CASE cmd[q].op = "get" /\ e # NoEntry
  <2>1. e \in Entry /\ e.size \in 0 .. Blocks /\ e.id \in VersionIDs
      BY <1>1, <1>4, Fields, EntryFields
  <2> DEFINE new == [cmd[q] EXCEPT !.pc = "body", !.size = e.size]
             file == [id |-> e.id, n |-> 0]
  <2>2. cmd' = [cmd EXCEPT ![q] = new] /\ out' = [out EXCEPT ![q] = file]
      BY <1>4 DEF ReadHead
  <2>3. new \in CmdRecord
      BY <1>1, <2>1 DEF CmdRecord, CmdPlaces, OnLine
  <2>f. file \in OutRecord
      BY <2>1, BlocksNat DEF OutRecord, IdOrNone
  <2>4. /\ new.pc = "body"
        /\ new.op = cmd[q].op
        /\ new.key = cmd[q].key
        /\ new.run = cmd[q].run
        /\ new.size = e.size
        /\ new.sent = cmd[q].sent
        /\ new.did = cmd[q].did
        /\ file.id = e.id
      BY <1>1 DEF CmdRecord
  <2> HIDE DEF new, file, e
  <2>5. cmd' \in [Cmds -> CmdRecord] /\ OtherCmds(q) /\ cmd'[q] = new
      BY <1>1, <2>2, <2>3, CmdReplaced
  <2>6. out' \in [Cmds -> OutRecord] /\ OtherOuts(q) /\ out'[q] = file
      BY <1>1, <2>2, <2>f, OutReplaced
  <2>8. StageOf(q)'
      BY <1>1, <1>2, <1>4, <2>1, <2>4, <2>5, <2>6 DEF StageOf, e, Uploads
  <2>9. RecordedOf(q)'
      BY <1>1, <1>2, <2>4, <2>5 DEF RecordedOf
  <2>10. ServedOf(q)'
      BY <1>1, <1>2, <2>4, <2>5 DEF ServedOf, Alive, OnLine
  <2>11. ~Saving(q) /\ ~Saving(q)'
      BY <1>3, <2>4, <2>5 DEF Saving
  <2> QED
      BY <1>1, <1>2, <1>3, <2>5, <2>6, <2>8, <2>9, <2>10, <2>11, Typed, PlainStep
           DEF ReqGoes, ReqAt, stored
<1>5. CASE ~(cmd[q].op = "get" /\ e # NoEntry)
  <2> DEFINE pc == IF req[q].pc = "answered" THEN "ok" ELSE "failed"
             new == [cmd[q] EXCEPT !.pc = pc, !.id = e.id]
  <2>1. /\ req[q].pc \in {"answered", "refused"}
        /\ cmd' = [cmd EXCEPT ![q] = new]
        /\ out' = out
      BY <1>5 DEF ReadHead
  <2>2. \/ req[q].pc = "answered" /\ pc = "ok"
        \/ req[q].pc = "refused" /\ pc = "failed"
      BY <2>1
  <2>3. e.id \in IdOrNone
      BY <1>1, Fields, EntryFields DEF IdOrNone, NoEntry
  <2> HIDE DEF pc
  <2>4. new \in CmdRecord
      BY <1>1, <2>2, <2>3 DEF CmdRecord, CmdPlaces, Ended
  <2>5. /\ new.pc = pc
        /\ new.op = cmd[q].op
        /\ new.key = cmd[q].key
        /\ new.run = cmd[q].run
        /\ new.size = cmd[q].size
        /\ new.sent = cmd[q].sent
        /\ new.id = e.id
        /\ new.did = cmd[q].did
      BY <1>1 DEF CmdRecord
  <2> HIDE DEF new
  <2>6. cmd' \in [Cmds -> CmdRecord] /\ OtherCmds(q) /\ cmd'[q] = new
      BY <1>1, <2>1, <2>4, CmdReplaced
  <2>7. OutAt(q, out[q].id, out[q].n)
      BY <1>1, <2>1, SameOut
  <2>8. StageOf(q)'
      BY <1>1, <1>2, <1>3, <2>1, <2>2, <2>5, <2>6 DEF StageOf
  <2>9. pc = "ok" => cmd[q].op # "get"
      BY <1>1, <1>5, <2>2 DEF StageOf
  <2>10. pc = "ok" /\ cmd[q].op \in Uploads => e \in past[cmd[q].key] /\ e.n = cmd[q].size
      BY <1>1, <2>2 DEF StageOf, RecordedOf
  <2>11. RecordedOf(q)'
      BY <1>1, <1>2, <2>5, <2>6, <2>9, <2>10 DEF RecordedOf
  <2>12. ServedOf(q)'
      BY <1>1, <1>2, <2>1, <2>2, <2>5, <2>6 DEF ServedOf, Alive, OnLine
  <2>13. ~Saving(q) /\ ~Saving(q)'
      BY <1>3, <2>5, <2>6 DEF Saving
  <2> QED
      BY <1>1, <1>2, <1>3, <2>6, <2>7, <2>8, <2>11, <2>12, <2>13, Typed, PlainStep
           DEF ReqGoes, ReqAt, OutAt, stored
<1> QED
    BY <1>4, <1>5

LEMMA CopyBodyKeeps ==
    ASSUME CmdInv, NEW q \in Cmds, CopyBody(q)
    PROVE  CmdInv'
<1>1. TypeOK /\ StageOf(q) /\ RecordedOf(q) /\ ServedOf(q) /\ out[q] \in OutRecord
    BY Here
<1>2. /\ cmd[q].pc = "body" /\ out[q].n < req[q].n
      /\ UNCHANGED <<served, stored, naming, req, cmd>>
      /\ cmd' = cmd /\ req' = req /\ lock' = lock /\ node' = node /\ rough' = rough /\ past' = past
    BY DEF CopyBody, stored, served
<1> DEFINE new == [out[q] EXCEPT !.n = out[q].n + 1]
<1>3. out' = [out EXCEPT ![q] = new]
    BY DEF CopyBody
<1>4. out[q].n + 1 \in 0 .. Blocks
    BY <1>1, <1>2, Fields, BlocksNat
<1>5. new \in OutRecord /\ new.id = out[q].id
    BY <1>1, <1>4 DEF OutRecord
<1> HIDE DEF new
<1>6. out' \in [Cmds -> OutRecord] /\ OtherOuts(q) /\ out'[q] = new
    BY <1>1, <1>3, <1>5, OutReplaced
<1>7. CmdGoes(q, cmd[q].pc) /\ ReqGoes(q, req[q].pc)
    BY <1>1, <1>2, SameCmd, SameReq
<1>8. StageOf(q)'
    BY <1>1, <1>2, <1>5, <1>6 DEF StageOf
<1>9. RecordedOf(q)'
    BY <1>1, <1>2 DEF RecordedOf
<1>10. ServedOf(q)'
    BY <1>1, <1>2 DEF ServedOf, Alive
<1>11. ~Saving(q) /\ ~Saving(q)'
    BY <1>1, <1>2 DEF Saving, StageOf
<1> QED
    BY <1>1, <1>2, <1>6, <1>7, <1>8, <1>9, <1>10, <1>11, Typed, PlainStep
         DEF CmdGoes, CmdAt, ReqGoes, ReqAt, stored

\* A step of the command alone.
LEMMA GoesKeeps ==
    ASSUME CmdInv, NEW q \in Cmds, NEW pc \in CmdPlaces, CmdGoes(q, pc),
           UNCHANGED <<served, stored, naming, req, out>>, cmd[q].op # "alias",
           StageOf(q)', RecordedOf(q)', ServedOf(q)'
    PROVE  CmdInv'
<1>1. TypeOK /\ lock' = lock /\ out' = out /\ req' = req
    BY Here DEF stored
<1>2. ReqGoes(q, req[q].pc) /\ OutAt(q, out[q].id, out[q].n)
    BY <1>1, SameReq, SameOut
<1>3. ~Saving(q) /\ ~Saving(q)'
    BY DEF Saving, CmdGoes, CmdAt
<1> QED
    BY <1>1, <1>2, <1>3, Typed, PlainStep DEF CmdGoes, CmdAt, ReqGoes, ReqAt, OutAt, stored

LEMMA FinishKeeps ==
    ASSUME CmdInv, NEW q \in Cmds, Finish(q)
    PROVE  CmdInv'
<1>1. TypeOK /\ StageOf(q) /\ RecordedOf(q) /\ ServedOf(q)
    BY Here
<1>2. /\ cmd[q].pc = "body" /\ out[q].n = cmd[q].size /\ To(q, "ok")
      /\ UNCHANGED <<served, stored, naming, req, out>>
      /\ out' = out /\ req' = req /\ node' = node /\ rough' = rough /\ past' = past
    BY DEF Finish, stored, served
<1>3. "ok" \in CmdPlaces
    BY DEF CmdPlaces, Ended
<1>4. CmdGoes(q, "ok")
    BY <1>1, <1>2, <1>3, ToFlat
<1>5. cmd[q].op = "get"
    BY <1>1, <1>2 DEF StageOf
<1>6. StageOf(q)'
    BY <1>1, <1>2, <1>4, <1>5 DEF StageOf, CmdGoes, CmdAt
<1>7. /\ req[q].entry \in past[cmd[q].key]
      /\ out[q].id = req[q].entry.id
      /\ out[q].n = req[q].entry.size
    BY <1>1, <1>2 DEF StageOf, RecordedOf
<1>8. RecordedOf(q)'
  <2>1. cmd'[q].pc = "ok" /\ cmd'[q].op = "get" /\ cmd'[q].key = cmd[q].key
      BY <1>4, <1>5 DEF CmdGoes, CmdAt
  <2> QED
      BY <1>2, <1>7, <2>1 DEF RecordedOf, Uploads
<1>9. ServedOf(q)'
    BY <1>1, <1>2, <1>4 DEF ServedOf, Alive, OnLine, CmdGoes, CmdAt
<1> QED
    BY <1>2, <1>3, <1>4, <1>5, <1>6, <1>8, <1>9, GoesKeeps

LEMMA LostKeeps ==
    ASSUME CmdInv, NEW q \in Cmds, Lost(q)
    PROVE  CmdInv'
<1>1. TypeOK /\ StageOf(q) /\ RecordedOf(q) /\ ServedOf(q)
    BY Here
<1>2. /\ Alive(q) /\ req[q].pc = "broken" /\ To(q, "lost")
      /\ UNCHANGED <<served, stored, naming, req, out>>
      /\ out' = out /\ req' = req /\ node' = node /\ rough' = rough /\ past' = past
    BY DEF Lost, stored, served
<1>3. "lost" \in CmdPlaces
    BY DEF CmdPlaces, Ended
<1>4. CmdGoes(q, "lost")
    BY <1>1, <1>2, <1>3, ToFlat
<1>5. cmd[q].op # "alias"
    BY <1>1, <1>2 DEF StageOf, Alive, OnLine
<1>6. StageOf(q)'
    BY <1>1, <1>2, <1>4, <1>5 DEF StageOf, CmdGoes, CmdAt
<1>7. RecordedOf(q)'
    BY <1>1, <1>2, <1>4 DEF RecordedOf, CmdGoes, CmdAt
<1>8. ServedOf(q)'
    BY <1>1, <1>2, <1>4 DEF ServedOf, CmdGoes, CmdAt
<1> QED
    BY <1>2, <1>3, <1>4, <1>5, <1>6, <1>7, <1>8, GoesKeeps

LEMMA GiveUpKeeps ==
    ASSUME CmdInv, NEW q \in Cmds, GiveUp(q)
    PROVE  CmdInv'
<1>1. TypeOK /\ StageOf(q) /\ RecordedOf(q) /\ ServedOf(q) /\ OneAfterAnother
    BY Here DEF CmdInv
<1>2. /\ cmd[q].pc \notin Ended /\ To(q, "gone")
      /\ tidy' = (tidy /\ cmd[q].op # "alias")
      /\ UNCHANGED <<served, stored, aliases, named, req, out>>
      /\ out' = out /\ req' = req /\ node' = node /\ rough' = rough /\ past' = past
      /\ lock' = lock /\ aliases' = aliases /\ named' = named
    BY DEF GiveUp, stored, served
<1>3. CmdGoes(q, "gone")
    BY <1>1, <1>2, ToFlat DEF CmdPlaces, Ended
<1>4. cmd[q].pc # "idle" /\ cmd[q].pc # "notRunning"
    BY <1>2 DEF Ended
<1>5. StageOf(q)'
    BY <1>1, <1>2, <1>3, <1>4 DEF StageOf, CmdGoes, CmdAt
<1>6. RecordedOf(q)'
    BY <1>1, <1>2, <1>3 DEF RecordedOf, CmdGoes, CmdAt
<1>7. ServedOf(q)'
    BY <1>1, <1>2, <1>3 DEF ServedOf, CmdGoes, CmdAt, Alive, OnLine
<1>8. ReqGoes(q, req[q].pc) /\ OutAt(q, out[q].id, out[q].n)
    BY <1>1, <1>2, SameReq, SameOut
<1>9. CASE cmd[q].op # "alias"
  <2>1. tidy' = tidy
      BY <1>1, <1>2, <1>9, Typed
  <2>2. ~Saving(q) /\ ~Saving(q)'
      BY <1>3, <1>9 DEF Saving, CmdGoes, CmdAt
  <2> QED
      BY <1>1, <1>2, <1>3, <1>5, <1>6, <1>7, <1>8, <2>1, <2>2, Typed, PlainStep
           DEF CmdGoes, CmdAt, ReqGoes, ReqAt, OutAt, stored, naming
<1>10. CASE cmd[q].op = "alias"
  <2>1. tidy' = FALSE
      BY <1>2, <1>10
  <2>2. OneAfterAnother'
      BY <2>1 DEF OneAfterAnother
  <2> QED
      BY <1>1, <1>2, <1>3, <1>5, <1>6, <1>7, <1>8, <2>1, <2>2, Typed, CoreStep
           DEF CmdGoes, CmdAt, ReqGoes, ReqAt, OutAt, stored
<1> QED
    BY <1>9, <1>10

-----------------------------------------------------------------------------
(* The handler's steps.                                                    *)
(***************************************************************************)
LEMMA HandlerStep ==
    ASSUME CmdInv, NEW q \in Cmds, NEW pc \in ReqPlaces, NEW n, NEW entry,
           ReqAt(q, pc, n, entry), req[q].pc # "none",
           UNCHANGED <<served, index, past, removed, naming, cmd, out>>,
           lock' \in [Keys -> Cmds \cup {Nobody}],
           StageOf(q)', RecordedOf(q)', ServedOf(q)'
    PROVE  CmdInv'
<1>1. TypeOK /\ StageOf(q) /\ cmd' = cmd /\ out' = out
    BY Here
<1>2. CmdGoes(q, cmd[q].pc) /\ OutAt(q, out[q].id, out[q].n)
    BY <1>1, SameCmd, SameOut
<1>3. cmd[q].op # "alias"
    BY <1>1 DEF StageOf, NoRequest
<1>4. ~Saving(q) /\ ~Saving(q)'
    BY <1>1, <1>3 DEF Saving
<1> QED
    BY <1>1, <1>2, <1>4, PlainStep DEF CmdGoes, CmdAt, ReqAt, OutAt

\* One that leaves the bytes it has counted and the entry it answers with.
LEMMA HandlerGoes ==
    ASSUME CmdInv, NEW q \in Cmds, NEW pc \in ReqPlaces, ReqGoes(q, pc),
           req[q].pc # "none", pc \in Handled => req[q].pc \in Handled,
           pc = "broken" => ~Alive(q) \/ ~cmd[q].did,
           UNCHANGED <<served, index, past, removed, naming, cmd, out>>,
           lock' \in [Keys -> Cmds \cup {Nobody}], StageOf(q)'
    PROVE  CmdInv'
<1>1. TypeOK /\ StageOf(q) /\ RecordedOf(q) /\ ServedOf(q)
    BY Here
<1>2. /\ cmd' = cmd /\ out' = out /\ node' = node /\ rough' = rough /\ past' = past
    BY DEF served
<1>3. RecordedOf(q)'
    BY <1>1, <1>2 DEF RecordedOf, ReqGoes, ReqAt
<1>4. ServedOf(q)'
    BY <1>1, <1>2 DEF ServedOf, ReqGoes, ReqAt, Alive
<1> QED
    BY <1>3, <1>4, HandlerStep DEF ReqGoes

LEMMA RefuseTargetsKeeps ==
    ASSUME CmdInv, NEW q \in Cmds, RefuseTargets(q)
    PROVE  CmdInv'
<1>1. TypeOK /\ StageOf(q) /\ lock \in [Keys -> Cmds \cup {Nobody}]
    BY Here
<1>2. /\ req[q].pc = "queued" /\ Req(q, "refused") /\ cmd[q].op \in {"send", "share"}
      /\ UNCHANGED <<served, index, past, removed, naming, cmd, out>>
      /\ cmd' = cmd /\ out' = out /\ lock' = lock
    BY DEF RefuseTargets, stored
<1>3. "refused" \in ReqPlaces /\ "refused" \notin Handled
    BY DEF ReqPlaces, Handled
<1>4. ReqGoes(q, "refused")
    BY <1>1, <1>2, <1>3, GoesFlat
<1>5. StageOf(q)'
    BY <1>1, <1>2, <1>4 DEF StageOf, ReqGoes, ReqAt, NoRequest
<1> QED
    BY <1>1, <1>2, <1>3, <1>4, <1>5, HandlerGoes

LEMMA TakeLockKeeps ==
    ASSUME CmdInv, NEW q \in Cmds, TakeLock(q)
    PROVE  CmdInv'
<1>1. TypeOK /\ StageOf(q) /\ lock \in [Keys -> Cmds \cup {Nobody}]
    BY Here
<1>2. /\ req[q].pc = "queued" /\ Req(q, "recv") /\ cmd[q].op \in Uploads
      /\ UNCHANGED <<served, index, past, removed, naming, cmd, out>>
      /\ cmd' = cmd /\ out' = out /\ lock' = [lock EXCEPT ![cmd[q].key] = q]
    BY DEF TakeLock
<1>3. "recv" \in ReqPlaces /\ "recv" \in Handled /\ req[q].pc \in Handled
    BY <1>2 DEF ReqPlaces, Handled
<1>4. ReqGoes(q, "recv")
    BY <1>1, <1>2, <1>3, GoesFlat
<1>5. StageOf(q)'
    BY <1>1, <1>2, <1>4 DEF StageOf, ReqGoes, ReqAt, NoRequest
<1>6. lock' \in [Keys -> Cmds \cup {Nobody}]
    BY <1>1, <1>2
<1> QED
    BY <1>1, <1>2, <1>3, <1>4, <1>5, <1>6, HandlerGoes

LEMMA ReadBodyKeeps ==
    ASSUME CmdInv, NEW q \in Cmds, ReadBody(q)
    PROVE  CmdInv'
<1>1. /\ TypeOK /\ StageOf(q) /\ RecordedOf(q) /\ ServedOf(q)
      /\ lock \in [Keys -> Cmds \cup {Nobody}] /\ req[q] \in ReqRecord
    BY Here
<1>2. /\ req[q].pc = "recv" /\ req[q].n < cmd[q].sent
      /\ UNCHANGED <<served, index, past, removed, naming, cmd, out>>
      /\ cmd' = cmd /\ out' = out /\ lock' = lock
      /\ node' = node /\ rough' = rough /\ past' = past
    BY DEF ReadBody, stored, served
<1> DEFINE new == [req[q] EXCEPT !.n = req[q].n + 1]
<1>3. req' = [req EXCEPT ![q] = new]
    BY DEF ReadBody
<1>4. req[q].n + 1 \in 0 .. Blocks
    BY <1>1, <1>2, Fields, BlocksNat
<1>5. new \in ReqRecord /\ new.pc = "recv" /\ new.n = req[q].n + 1 /\ new.entry = req[q].entry
    BY <1>1, <1>2, <1>4 DEF ReqRecord
<1> HIDE DEF new
<1>6. ReqAt(q, "recv", req[q].n + 1, req[q].entry)
    BY <1>1, <1>3, <1>5, ReqReplaced DEF ReqAt
<1>7. StageOf(q)'
    BY <1>1, <1>2, <1>6 DEF StageOf, ReqAt, NoRequest
<1>8. RecordedOf(q)'
    BY <1>1, <1>2, <1>6 DEF RecordedOf, ReqAt
<1>9. ServedOf(q)'
    BY <1>1, <1>2, <1>6 DEF ServedOf, Alive, ReqAt
<1>10. "recv" \in ReqPlaces
    BY DEF ReqPlaces, Handled
<1> QED
    BY <1>1, <1>2, <1>6, <1>7, <1>8, <1>9, <1>10, HandlerStep

LEMMA BodyBreaksKeeps ==
    ASSUME CmdInv, NEW q \in Cmds, BodyBreaks(q)
    PROVE  CmdInv'
<1>1. TypeOK /\ StageOf(q) /\ lock \in [Keys -> Cmds \cup {Nobody}]
    BY Here
<1>2. /\ req[q].pc = "recv" /\ Req(q, "broken") /\ ~Alive(q)
      /\ UNCHANGED <<served, index, past, removed, naming, cmd, out>>
      /\ cmd' = cmd /\ out' = out /\ lock' = [lock EXCEPT ![cmd[q].key] = Nobody]
    BY DEF BodyBreaks
<1>3. "broken" \in ReqPlaces /\ "broken" \notin Handled
    BY DEF ReqPlaces, Handled
<1>4. ReqGoes(q, "broken")
    BY <1>1, <1>2, <1>3, GoesFlat
<1>5. StageOf(q)'
    BY <1>1, <1>2, <1>4 DEF StageOf, ReqGoes, ReqAt, NoRequest
<1>6. lock' \in [Keys -> Cmds \cup {Nobody}]
    BY <1>1, <1>2
<1> QED
    BY <1>1, <1>2, <1>3, <1>4, <1>5, <1>6, HandlerGoes

LEMMA ReplicatedKeeps ==
    ASSUME CmdInv, NEW q \in Cmds, Replicated(q)
    PROVE  CmdInv'
<1> DEFINE pc == IF cmd[q].op = "send" /\ index[cmd[q].key].latest = NoVersion
                   THEN "refused" ELSE "answered"
<1>1. TypeOK /\ StageOf(q) /\ lock \in [Keys -> Cmds \cup {Nobody}]
    BY Here
<1>2. /\ req[q].pc = "stored" /\ Req(q, pc)
      /\ UNCHANGED <<served, index, past, removed, naming, cmd, out>>
      /\ cmd' = cmd /\ out' = out /\ lock' = lock
    BY DEF Replicated, stored
<1>3. pc \in {"refused", "answered"}
    OBVIOUS
<1> HIDE DEF pc
<1>4. pc \in ReqPlaces /\ pc \notin Handled /\ pc # "broken"
    BY <1>3 DEF ReqPlaces, Handled
<1>5. ReqGoes(q, pc)
    BY <1>1, <1>2, <1>4, GoesFlat
<1>6. StageOf(q)'
    BY <1>1, <1>2, <1>3, <1>5 DEF StageOf, ReqGoes, ReqAt, NoRequest, Uploads
<1> QED
    BY <1>1, <1>2, <1>4, <1>5, <1>6, HandlerGoes

LEMMA ShareKeeps ==
    ASSUME CmdInv, NEW q \in Cmds, Share(q)
    PROVE  CmdInv'
<1> DEFINE pc == IF index[cmd[q].key].latest = NoVersion THEN "refused" ELSE "answered"
<1>1. TypeOK /\ StageOf(q) /\ lock \in [Keys -> Cmds \cup {Nobody}]
    BY Here
<1>2. /\ req[q].pc = "queued" /\ cmd[q].op = "share" /\ Req(q, pc)
      /\ UNCHANGED <<served, index, past, removed, naming, cmd, out>>
      /\ cmd' = cmd /\ out' = out /\ lock' = lock
    BY DEF Share, stored
<1>3. pc \in {"refused", "answered"}
    OBVIOUS
<1> HIDE DEF pc
<1>4. pc \in ReqPlaces /\ pc \notin Handled /\ pc # "broken"
    BY <1>3 DEF ReqPlaces, Handled
<1>5. ReqGoes(q, pc)
    BY <1>1, <1>2, <1>4, GoesFlat
<1>6. StageOf(q)'
    BY <1>1, <1>2, <1>3, <1>5 DEF StageOf, ReqGoes, ReqAt, NoRequest, Uploads
<1> QED
    BY <1>1, <1>2, <1>4, <1>5, <1>6, HandlerGoes

LEMMA ListVersionsKeeps ==
    ASSUME CmdInv, NEW q \in Cmds, ListVersions(q)
    PROVE  CmdInv'
<1>1. TypeOK /\ StageOf(q) /\ lock \in [Keys -> Cmds \cup {Nobody}]
    BY Here
<1>2. /\ req[q].pc = "queued" /\ cmd[q].op = "ls" /\ Req(q, "answered")
      /\ UNCHANGED <<served, index, past, removed, naming, cmd, out>>
      /\ cmd' = cmd /\ out' = out /\ lock' = lock
    BY DEF ListVersions, stored
<1>3. "answered" \in ReqPlaces /\ "answered" \notin Handled
    BY DEF ReqPlaces, Handled
<1>4. ReqGoes(q, "answered")
    BY <1>1, <1>2, <1>3, GoesFlat
<1>5. StageOf(q)'
    BY <1>1, <1>2, <1>4 DEF StageOf, ReqGoes, ReqAt, NoRequest, Uploads
<1> QED
    BY <1>1, <1>2, <1>3, <1>4, <1>5, HandlerGoes

LEMMA OpenVersionKeeps ==
    ASSUME CmdInv, NEW q \in Cmds, OpenVersion(q)
    PROVE  CmdInv'
<1> DEFINE k == cmd[q].key
           idx == index[k]
           e == resolveVersion(idx, cmd[q].id)
           new == [pc |-> "send", n |-> 0, entry |-> e]
<1>1. /\ TypeOK /\ StageOf(q) /\ RecordedOf(q) /\ ServedOf(q) /\ KeptListed
      /\ lock \in [Keys -> Cmds \cup {Nobody}] /\ k \in Keys
    BY Here, Fields DEF CmdInv
<1>2. /\ req[q].pc = "queued" /\ cmd[q].op = "get"
      /\ UNCHANGED <<served, index, past, removed, naming, cmd, out>>
      /\ cmd' = cmd /\ out' = out /\ lock' = lock
      /\ node' = node /\ rough' = rough /\ past' = past
    BY DEF OpenVersion, stored, served
<1>3. CASE CanResolve(idx, cmd[q].id)
  <2>1. req' = [req EXCEPT ![q] = new]
      BY <1>3 DEF OpenVersion
  <2>2. Entries(idx.versions) \subseteq past[k] /\ past[k] \subseteq Entry
      BY <1>1, Typed DEF KeptListed, KeptOf
  <2>3. e \in past[k] /\ e \in Entry
      BY <1>3, <2>2, ResolvedListed
  <2>4. 0 \in 0 .. Blocks /\ 0 <= e.n
      BY <2>3, BlocksNat, EntryFields
  <2>5. "send" \in ReqPlaces /\ "send" \in Handled /\ req[q].pc \in Handled
      BY <1>2 DEF ReqPlaces, Handled
  <2> HIDE DEF e, idx, k
  <2>6. new \in ReqRecord /\ new.pc = "send" /\ new.n = 0 /\ new.entry = e
      BY <2>3, <2>4, <2>5 DEF ReqRecord
  <2> HIDE DEF new
  <2>7. ReqAt(q, "send", 0, e)
      BY <1>1, <2>1, <2>6, ReqReplaced DEF ReqAt
  <2>8. e # NoEntry
      BY <2>3, EntryFields
  <2>9. StageOf(q)'
      BY <1>1, <1>2, <2>4, <2>7, <2>8 DEF StageOf, ReqAt, NoRequest, Uploads
  <2>10. RecordedOf(q)'
      BY <1>1, <1>2, <2>3, <2>7 DEF RecordedOf, ReqAt, k
  <2>11. ServedOf(q)'
      BY <1>1, <1>2, <2>5, <2>7 DEF ServedOf, Alive, ReqAt
  <2> QED
      BY <1>1, <1>2, <2>5, <2>7, <2>9, <2>10, <2>11, HandlerStep
<1>4. CASE ~CanResolve(idx, cmd[q].id)
  <2>1. Req(q, "refused")
      BY <1>4 DEF OpenVersion, Req
  <2>2. "refused" \in ReqPlaces /\ "refused" \notin Handled
      BY DEF ReqPlaces, Handled
  <2>3. ReqGoes(q, "refused")
      BY <1>1, <2>1, <2>2, GoesFlat
  <2>4. StageOf(q)'
      BY <1>1, <1>2, <2>3 DEF StageOf, ReqGoes, ReqAt, NoRequest, Uploads
  <2> QED
      BY <1>1, <1>2, <2>2, <2>3, <2>4, HandlerGoes
<1> QED
    BY <1>3, <1>4

LEMMA SendBodyKeeps ==
    ASSUME CmdInv, NEW q \in Cmds, SendBody(q)
    PROVE  CmdInv'
<1>1. /\ TypeOK /\ StageOf(q) /\ RecordedOf(q) /\ ServedOf(q)
      /\ lock \in [Keys -> Cmds \cup {Nobody}] /\ req[q] \in ReqRecord
    BY Here
<1>2. /\ req[q].pc = "send"
      /\ UNCHANGED <<served, index, past, removed, naming, cmd, out>>
      /\ cmd' = cmd /\ out' = out /\ lock' = lock
      /\ node' = node /\ rough' = rough /\ past' = past
    BY DEF SendBody, stored, served
<1>3. cmd[q].op = "get" /\ req[q].n <= req[q].entry.n /\ req[q].entry # NoEntry
    BY <1>1, <1>2 DEF StageOf
<1>4. CASE ~Alive(q)
  <2>1. Req(q, "broken") /\ "broken" \in ReqPlaces /\ "broken" \notin Handled
      BY <1>4 DEF SendBody, ReqPlaces, Handled
  <2>2. ReqGoes(q, "broken")
      BY <1>1, <2>1, GoesFlat
  <2>3. StageOf(q)'
      BY <1>1, <1>2, <1>3, <2>2 DEF StageOf, ReqGoes, ReqAt, NoRequest, Uploads
  <2> QED
      BY <1>1, <1>2, <1>4, <2>1, <2>2, <2>3, HandlerGoes
<1>5. CASE Alive(q) /\ req[q].n = req[q].entry.n
  <2>1. Req(q, "answered") /\ "answered" \in ReqPlaces /\ "answered" \notin Handled
      BY <1>5 DEF SendBody, ReqPlaces, Handled
  <2>2. ReqGoes(q, "answered")
      BY <1>1, <2>1, GoesFlat
  <2>3. StageOf(q)'
      BY <1>1, <1>2, <1>3, <2>2 DEF StageOf, ReqGoes, ReqAt, NoRequest, Uploads
  <2> QED
      BY <1>1, <1>2, <2>1, <2>2, <2>3, HandlerGoes
<1>6. CASE Alive(q) /\ req[q].n # req[q].entry.n
  <2> DEFINE new == [req[q] EXCEPT !.n = req[q].n + 1]
  <2>1. req' = [req EXCEPT ![q] = new]
      BY <1>6 DEF SendBody
  <2>2. req[q].n \in 0 .. Blocks /\ req[q].entry.n \in 0 .. Blocks
      BY <1>1, <1>3, Fields, EntryFields
  <2>3. req[q].n + 1 \in 0 .. Blocks /\ req[q].n + 1 <= req[q].entry.n
      BY <1>3, <1>6, <2>2, BlocksNat
  <2>4. new \in ReqRecord /\ new.pc = "send" /\ new.n = req[q].n + 1 /\ new.entry = req[q].entry
      BY <1>1, <1>2, <2>3 DEF ReqRecord
  <2> HIDE DEF new
  <2>5. ReqAt(q, "send", req[q].n + 1, req[q].entry)
      BY <1>1, <2>1, <2>4, ReqReplaced DEF ReqAt
  <2>6. StageOf(q)'
      BY <1>1, <1>2, <1>3, <2>3, <2>5 DEF StageOf, ReqAt, NoRequest, Uploads
  <2>7. RecordedOf(q)'
      BY <1>1, <1>2, <2>5 DEF RecordedOf, ReqAt
  <2>8. ServedOf(q)'
      BY <1>1, <1>2, <2>5 DEF ServedOf, Alive, ReqAt
  <2>9. "send" \in ReqPlaces
      BY DEF ReqPlaces, Handled
  <2> QED
      BY <1>1, <1>2, <2>5, <2>6, <2>7, <2>8, <2>9, HandlerStep
<1> QED
    BY <1>4, <1>5, <1>6

-----------------------------------------------------------------------------
(* A version is committed, or a key removed.                               *)
(***************************************************************************)
\* A step that changes key k's index and what has been committed or removed.
LEMMA IndexStep ==
    ASSUME CmdInv, NEW q \in Cmds, NEW k \in Keys, NEW idx \in IndexRecord,
           index' = [index EXCEPT ![k] = idx],
           past' \in [Keys -> SUBSET Entry], removed' \subseteq VersionIDs,
           \A j \in Keys : past[j] \subseteq past'[j],
           \A j \in Keys : j # k => past'[j] = past[j],
           removed \subseteq removed',
           UNCHANGED <<served, naming, out>>,
           lock' \in [Keys -> Cmds \cup {Nobody}],
           cmd' \in [Cmds -> CmdRecord], req' \in [Cmds -> ReqRecord],
           OtherCmds(q), OtherReqs(q), ~Saving(q), ~Saving(q)',
           StageOf(q)', RecordedOf(q)', ServedOf(q)', KeptOf(k)'
    PROVE  CmdInv'
<1>1. /\ TypeOK /\ node.run # 0 /\ Stage /\ Recorded /\ Served /\ KeptListed
      /\ OneAfterAnother
    BY DEF CmdInv
<1>2. /\ node' = node /\ addr' = addr /\ rough' = rough /\ out' = out
      /\ aliases' = aliases /\ named' = named /\ tidy' = tidy
    BY DEF served, naming
<1>3. index' \in [Keys -> IndexRecord]
    BY <1>1, Typed
<1>4. TypeOK'
    BY <1>1, <1>2, <1>3
         DEF TypeOK, CmdRecord, CmdPlaces, ReqRecord, ReqPlaces, OutRecord, IndexRecord
<1>5. OtherOuts(q)
    BY <1>2 DEF OtherOuts
<1>6. Stage'
    BY <1>1, <1>5, StageStep
<1>7. Recorded'
    BY <1>1, <1>5, RecordedStep
<1>8. Served'
    BY <1>1, <1>2, ServedStep
<1>9. KeptListed'
  <2> SUFFICES ASSUME NEW j \in Keys, j # k
               PROVE  KeptOf(j)'
      BY DEF KeptListed
  <2>1. KeptOf(j) /\ index'[j] = index[j] /\ past'[j] = past[j]
      BY <1>1, Typed DEF KeptListed
  <2> QED
      BY <2>1 DEF KeptOf
<1>10. OneAfterAnother'
    BY <1>1, AliasesStep
<1> QED
    BY <1>1, <1>2, <1>4, <1>6, <1>7, <1>8, <1>9, <1>10 DEF CmdInv

\* The command has done something.
LEMMA DidFlat ==
    ASSUME TypeOK, NEW q \in Cmds, cmd' = [cmd EXCEPT ![q].did = TRUE]
    PROVE  CmdAt(q, cmd[q].pc, cmd[q].size, cmd[q].sent, cmd[q].id, TRUE)
<1> DEFINE new == [cmd[q] EXCEPT !.did = TRUE]
<1>1. cmd[q] \in CmdRecord
    BY Fields
<1>2. new \in CmdRecord
    BY <1>1 DEF CmdRecord
<1>3. cmd' = [cmd EXCEPT ![q] = new]
    OBVIOUS
<1>4. /\ new.pc = cmd[q].pc
      /\ new.op = cmd[q].op
      /\ new.key = cmd[q].key
      /\ new.run = cmd[q].run
      /\ new.size = cmd[q].size
      /\ new.sent = cmd[q].sent
      /\ new.id = cmd[q].id
      /\ new.did = TRUE
      /\ new.names = cmd[q].names
    BY <1>1 DEF CmdRecord
<1> HIDE DEF new
<1> QED
    BY <1>2, <1>3, <1>4, CmdReplaced DEF CmdAt

LEMMA CommitKeeps ==
    ASSUME CmdInv, NEW q \in Cmds, Commit(q)
    PROVE  CmdInv'
<1>0. PICK k \in Keys : k = cmd[q].key
    BY Here, Fields
<1> DEFINE s == index[k].versions
           e == [id |-> NewID, seq |-> nextSeq(index[k]), n |-> req[q].n, size |-> cmd[q].size]
           idx == pruneOldestVersions(AppendLatest(index[k], e))
           new == [req[q] EXCEPT !.pc = "stored", !.entry = e]
<1>1. /\ TypeOK /\ StageOf(q) /\ RecordedOf(q) /\ ServedOf(q) /\ KeptListed
      /\ lock \in [Keys -> Cmds \cup {Nobody}] /\ k \in Keys /\ KeptOf(k)
      /\ cmd[q] \in CmdRecord /\ req[q] \in ReqRecord
    BY <1>0, Here, Fields DEF CmdInv, KeptListed
<1>2. /\ req[q].pc = "recv" /\ req[q].n = cmd[q].size /\ Known # VersionIDs
      /\ index' = [index EXCEPT ![k] = idx]
      /\ past' = [past EXCEPT ![k] = past[k] \cup {e}]
      /\ lock' = [lock EXCEPT ![k] = Nobody]
      /\ req' = [req EXCEPT ![q] = new]
      /\ cmd' = [cmd EXCEPT ![q].did = TRUE]
      /\ UNCHANGED <<served, removed, naming, out>>
      /\ node' = node /\ rough' = rough /\ removed' = removed /\ out' = out
    BY <1>0 DEF Commit, served
<1>3. NewID \in VersionIDs
  <2>1. Known \subseteq VersionIDs
      BY <1>1, Typed, EntryFields DEF Known
  <2> QED
      BY <1>2, <2>1 DEF NewID
<1>4. index[k] \in IndexRecord /\ s \in Seq(Entry)
    BY <1>1, Typed DEF IndexRecord
<1>5. nextSeq(index[k]) \in Nat
    BY <1>4, EntryFields, nextSeqNumber
<1>6. e \in Entry /\ e.id \in VersionIDs /\ e.n = cmd[q].size /\ e.size = cmd[q].size
    BY <1>1, <1>2, <1>3, <1>5, Fields DEF Entry
<1>7. AppendLatest(index[k], e) = [latest |-> e.id, versions |-> Append(s, e)]
    BY DEF AppendLatest
<1> HIDE DEF e
<1>8. Append(s, e) \in Seq(Entry) /\ Entries(Append(s, e)) = Entries(s) \cup {e}
    BY <1>4, <1>6, AppendEntries
<1>9. /\ idx = [latest |-> e.id, versions |-> idx.versions]
      /\ idx.versions \in Seq(Entry)
      /\ Entries(idx.versions) \subseteq Entries(s) \cup {e}
      /\ MaxVersions = 0 => Entries(idx.versions) = Entries(s) \cup {e}
  <2> DEFINE t == Append(s, e)
             old == [latest |-> e.id, versions |-> t]
  <2>1. t \in Seq(Entry) /\ Entries(t) = Entries(s) \cup {e} /\ idx = pruneOldestVersions(old)
      BY <1>7, <1>8
  <2> HIDE DEF t, idx
  <2>2. /\ pruneOldestVersions(old) =
             [latest |-> e.id, versions |-> pruneOldestVersions(old).versions]
        /\ pruneOldestVersions(old).versions \in Seq(Entry)
        /\ Entries(pruneOldestVersions(old).versions) \subseteq Entries(t)
        /\ MaxVersions = 0 => pruneOldestVersions(old) = old
      BY <2>1, PruneEntries
  <2>3. old.versions = t
      OBVIOUS
  <2> HIDE DEF old
  <2> QED
      BY <2>1, <2>2, <2>3
<1>10. idx \in IndexRecord
    BY <1>6, <1>9 DEF IndexRecord, IdOrNone
<1>11. /\ new \in ReqRecord
       /\ new.pc = "stored" /\ new.n = req[q].n /\ new.entry = e
    BY <1>1, <1>6 DEF ReqRecord, ReqPlaces, Handled
<1> HIDE DEF idx, new
<1>12. ReqAt(q, "stored", req[q].n, e)
    BY <1>1, <1>2, <1>11, ReqReplaced DEF ReqAt
<1>13. CmdAt(q, cmd[q].pc, cmd[q].size, cmd[q].sent, cmd[q].id, TRUE)
    BY <1>1, <1>2, DidFlat
<1>14. past \in [Keys -> SUBSET Entry]
    BY <1>1, Typed
<1>15. /\ past' \in [Keys -> SUBSET Entry]
       /\ past'[k] = past[k] \cup {e}
       /\ \A j \in Keys : past[j] \subseteq past'[j]
       /\ \A j \in Keys : j # k => past'[j] = past[j]
    BY <1>1, <1>2, <1>6, <1>14
<1>16. cmd[q].op \in Uploads /\ cmd[q].op # "get" /\ e # NoEntry
    BY <1>1, <1>2, <1>6, EntryFields DEF StageOf, Uploads
<1>17. cmd[q].pc \notin {"idle", "dial", "notRunning", "lost", "body"} /\ cmd[q].op # "alias"
    BY <1>1, <1>2, <1>16 DEF StageOf, NoRequest
<1>18. StageOf(q)'
    BY <1>1, <1>2, <1>6, <1>12, <1>13, <1>16, <1>17 DEF StageOf, ReqAt, CmdAt
<1>19. RecordedOf(q)'
  <2>1. past[k] \subseteq past'[k] /\ e \in past'[k]
      BY <1>1, <1>15
  <2> QED
      BY <1>0, <1>1, <1>2, <1>12, <1>13, <2>1 DEF RecordedOf, ReqAt, CmdAt
<1>20. ServedOf(q)'
    BY <1>1, <1>2, <1>12, <1>13, <1>17 DEF ServedOf, ReqAt, CmdAt, Handled
<1>21. KeptOf(k)'
  <2>1. index'[k] = idx
      BY <1>1, <1>2, Typed
  <2> QED
      BY <1>1, <1>2, <1>6, <1>9, <1>15, <2>1 DEF KeptOf
<1>22. ~Saving(q) /\ ~Saving(q)'
    BY <1>13, <1>17 DEF Saving, CmdAt
<1>23. lock' \in [Keys -> Cmds \cup {Nobody}] /\ removed' \subseteq VersionIDs
    BY <1>1, <1>2, Typed
<1> QED
    BY <1>1, <1>2, <1>10, <1>12, <1>13, <1>15, <1>18, <1>19, <1>20, <1>21, <1>22, <1>23,
       IndexStep DEF ReqAt, CmdAt

LEMMA DeleteKeeps ==
    ASSUME CmdInv, NEW q \in Cmds, Delete(q)
    PROVE  CmdInv'
<1>0. PICK k \in Keys : k = cmd[q].key
    BY Here, Fields
<1> DEFINE s == index[k].versions
<1>1. /\ TypeOK /\ StageOf(q) /\ RecordedOf(q) /\ ServedOf(q) /\ KeptListed
      /\ lock \in [Keys -> Cmds \cup {Nobody}] /\ k \in Keys /\ KeptOf(k)
    BY <1>0, Here, Fields DEF CmdInv, KeptListed
<1>2. /\ req[q].pc = "queued" /\ cmd[q].op = "rm" /\ Req(q, "answered")
      /\ index' = [index EXCEPT ![k] = EmptyIndex]
      /\ removed' = removed \cup IdsOf(s)
      /\ cmd' = [cmd EXCEPT ![q].did = TRUE]
      /\ UNCHANGED <<served, naming, out>>
      /\ node' = node /\ rough' = rough /\ past' = past /\ out' = out /\ lock' = lock
    BY <1>0 DEF Delete, served
<1>3. index[k] \in IndexRecord /\ s \in Seq(Entry)
    BY <1>1, Typed DEF IndexRecord
<1>4. EmptyIndex \in IndexRecord
    BY EmptySeq DEF EmptyIndex, IndexRecord, IdOrNone
<1>5. \A e \in Entries(s) : e.id \in IdsOf(s)
    BY IdsOfEntries
<1>6. IdsOf(s) \subseteq VersionIDs
  <2>1. \A e \in Entries(s) : e.id \in VersionIDs
      BY <1>3, EntriesTyped, EntryFields
  <2> QED
      BY <2>1, IdsOfEntries
<1>7. Entries(EmptyIndex.versions) = {}
    BY DEF EmptyIndex, Entries
<1>8. ReqGoes(q, "answered")
    BY <1>1, <1>2, GoesFlat DEF ReqPlaces
<1>9. CmdAt(q, cmd[q].pc, cmd[q].size, cmd[q].sent, cmd[q].id, TRUE)
    BY <1>1, <1>2, DidFlat
<1>10. cmd[q].pc \notin {"idle", "dial", "notRunning", "lost", "body", "open", "write"}
    BY <1>1, <1>2 DEF StageOf, NoRequest
<1>11. StageOf(q)'
    BY <1>1, <1>2, <1>8, <1>9, <1>10 DEF StageOf, ReqGoes, ReqAt, CmdAt, Uploads
<1>12. RecordedOf(q)'
    BY <1>1, <1>2, <1>8, <1>9 DEF RecordedOf, ReqGoes, ReqAt, CmdAt
<1>13. ServedOf(q)'
    BY <1>1, <1>2, <1>8, <1>9, <1>10 DEF ServedOf, ReqGoes, ReqAt, CmdAt, Handled
<1>14. KeptOf(k)'
  <2>1. index'[k] = EmptyIndex
      BY <1>1, <1>2, Typed
  <2>2. Entries(index'[k].versions) = {}
      BY <1>7, <2>1
  <2> QED
      BY <1>1, <1>2, <1>5, <2>2 DEF KeptOf
<1>15. ~Saving(q) /\ ~Saving(q)'
    BY <1>2, <1>9 DEF Saving, CmdAt
<1>16. past' \in [Keys -> SUBSET Entry] /\ removed' \subseteq VersionIDs
    BY <1>1, <1>2, <1>6, Typed
<1> HIDE DEF s
<1> QED
    BY <1>1, <1>2, <1>4, <1>8, <1>9, <1>11, <1>12, <1>13, <1>14, <1>15, <1>16,
       IndexStep DEF ReqGoes, ReqAt, CmdAt

-----------------------------------------------------------------------------
(* The alias commands.                                                     *)
(***************************************************************************)
\* A step of an alias command, which no node has anything to do with.
LEMMA AliasStep ==
    ASSUME CmdInv, NEW q \in Cmds, NEW pc \in CmdPlaces, NEW new \in CmdRecord,
           cmd' = [cmd EXCEPT ![q] = new],
           new.pc = pc, pc \in {"open", "write", "ok"}, new.op = "alias", ~new.did,
           req[q] = NoRequest, UNCHANGED <<served, stored, req, out>>,
           aliases' \in (SUBSET Cmds) \cup {Torn}, named' \subseteq Cmds,
           tidy' \in BOOLEAN, OneAfterAnother'
    PROVE  CmdInv'
<1>1. /\ TypeOK /\ lock' = lock /\ out' = out /\ req' = req
      /\ lock \in [Keys -> Cmds \cup {Nobody}]
    BY Here DEF stored
<1>2. cmd' \in [Cmds -> CmdRecord] /\ OtherCmds(q) /\ cmd'[q] = new
    BY <1>1, CmdReplaced
<1>3. ReqGoes(q, req[q].pc) /\ OutAt(q, out[q].id, out[q].n)
    BY <1>1, SameReq, SameOut
<1>4. req'[q] = NoRequest /\ req'[q].pc = "none" /\ req'[q].n = 0 /\ req'[q].entry = NoEntry
    BY <1>1 DEF NoRequest
<1>5. StageOf(q)'
    BY <1>2, <1>4 DEF StageOf, Uploads
<1>6. RecordedOf(q)'
    BY <1>2, <1>4 DEF RecordedOf, Uploads
<1>7. ServedOf(q)'
    BY <1>2, <1>4 DEF ServedOf, Handled, Alive, OnLine
<1> QED
    BY <1>1, <1>2, <1>3, <1>5, <1>6, <1>7, CoreStep
         DEF ReqGoes, ReqAt, OutAt, stored

\* No peer is called torn.
LEMMA TornIsNoPeer == Torn \cap Cmds = {}
BY CommandsAssumption DEF Torn

LEMMA LoadAliasesKeeps ==
    ASSUME CmdInv, NEW q \in Cmds, LoadAliases(q)
    PROVE  CmdInv'
<1> DEFINE names == {q} \cup (aliases \ Torn)
           new == [cmd[q] EXCEPT !.pc = "open", !.op = "alias", !.names = names]
<1>1. TypeOK /\ StageOf(q) /\ OneAfterAnother /\ cmd[q] \in CmdRecord
    BY Here DEF CmdInv
<1>2. /\ cmd[q].pc = "idle"
      /\ cmd' = [cmd EXCEPT ![q] = new]
      /\ tidy' = (tidy /\ \A r \in Cmds : ~Saving(r))
      /\ UNCHANGED <<served, stored, req, out>>
      /\ aliases' = aliases /\ named' = named
    BY DEF LoadAliases
<1>3. cmd[q] = NoCmd /\ req[q] = NoRequest
    BY <1>1, <1>2 DEF StageOf
<1>4. aliases \in (SUBSET Cmds) \cup {Torn} /\ named \subseteq Cmds /\ tidy \in BOOLEAN
    BY <1>1, Typed
<1>5. names \in SUBSET Cmds
    BY <1>4
<1> HIDE DEF names
<1>6. "open" \in CmdPlaces /\ "alias" \in AllOps
    BY DEF CmdPlaces, AllOps
<1>7. new \in CmdRecord
    BY <1>1, <1>5, <1>6 DEF CmdRecord
<1>8. new.pc = "open" /\ new.op = "alias" /\ new.names = names /\ new.did = cmd[q].did
    BY <1>1 DEF CmdRecord
<1>9. ~new.did
    BY <1>3, <1>8 DEF NoCmd
<1> HIDE DEF new
<1>10. cmd' \in [Cmds -> CmdRecord] /\ OtherCmds(q) /\ cmd'[q] = new
    BY <1>1, <1>2, <1>7, CmdReplaced
<1>11. OneAfterAnother'
  <2> SUFFICES ASSUME tidy'
               PROVE  OneAfterAnother'
      BY DEF OneAfterAnother
  <2>1. tidy /\ \A r \in Cmds : ~Saving(r)
      BY <1>2, <1>4
  <2>2. aliases = named /\ IsFiniteSet(named)
      BY <1>1, <2>1 DEF OneAfterAnother
  <2>3. names = {q} \cup named
      BY <1>4, <2>2, TornIsNoPeer DEF names
  <2>4. \A r \in Cmds : r # q => ~Saving(r)'
      BY <1>10, <2>1 DEF OtherCmds, Saving
  <2>5. Saving(q)' /\ SavingOf(q)'
      BY <1>2, <1>8, <1>10, <2>2, <2>3 DEF Saving, SavingOf, Ended
  <2> QED
      BY <1>2, <2>2, <2>4, <2>5 DEF OneAfterAnother
<1>12. tidy' \in BOOLEAN
    BY <1>2, <1>4
<1> QED
    BY <1>2, <1>3, <1>4, <1>6, <1>7, <1>8, <1>9, <1>11, <1>12, AliasStep

LEMMA OpenAliasesKeeps ==
    ASSUME CmdInv, NEW q \in Cmds, OpenAliases(q)
    PROVE  CmdInv'
<1> DEFINE new == [cmd[q] EXCEPT !.pc = "write"]
<1>1. TypeOK /\ StageOf(q) /\ OneAfterAnother /\ cmd[q] \in CmdRecord
    BY Here DEF CmdInv
<1>2. /\ cmd[q].pc = "open"
      /\ cmd' = [cmd EXCEPT ![q] = new]
      /\ UNCHANGED <<served, stored, req, out>>
      /\ aliases' = {} /\ named' = named /\ tidy' = tidy
    BY DEF OpenAliases, To
<1>3. cmd[q].op = "alias" /\ req[q] = NoRequest /\ ~cmd[q].did
  <2>1. cmd[q].op = "alias" /\ req[q] = NoRequest
      BY <1>1, <1>2 DEF StageOf
  <2> QED
      BY <1>1, <2>1 DEF StageOf, NoRequest
<1>4. named \subseteq Cmds /\ tidy \in BOOLEAN
    BY <1>1, Typed
<1>5. "write" \in CmdPlaces
    BY DEF CmdPlaces
<1>6. new \in CmdRecord
    BY <1>1, <1>5 DEF CmdRecord
<1>7. new.pc = "write" /\ new.op = cmd[q].op /\ new.names = cmd[q].names /\ new.did = cmd[q].did
    BY <1>1 DEF CmdRecord
<1> HIDE DEF new
<1>8. cmd' \in [Cmds -> CmdRecord] /\ OtherCmds(q) /\ cmd'[q] = new
    BY <1>1, <1>2, <1>6, CmdReplaced
<1>9. OneAfterAnother'
  <2> SUFFICES ASSUME tidy
               PROVE  OneAfterAnother'
      BY <1>2 DEF OneAfterAnother
  <2>1. Saving(q)
      BY <1>2, <1>3 DEF Saving, Ended
  <2>2. \A r \in Cmds : Saving(r) => r = q
      BY <1>1, <2>1 DEF OneAfterAnother
  <2>3. SavingOf(q) /\ IsFiniteSet(named)
      BY <1>1, <2>1 DEF OneAfterAnother
  <2>4. \A r \in Cmds : r # q => ~Saving(r)'
      BY <1>8, <2>2 DEF OtherCmds, Saving
  <2>5. Saving(q)' /\ SavingOf(q)'
      BY <1>2, <1>3, <1>7, <1>8, <2>3 DEF Saving, SavingOf, Ended
  <2> QED
      BY <1>2, <2>3, <2>4, <2>5 DEF OneAfterAnother
<1> QED
    BY <1>2, <1>3, <1>4, <1>5, <1>6, <1>7, <1>9, AliasStep

LEMMA WriteAliasesKeeps ==
    ASSUME CmdInv, NEW q \in Cmds, WriteAliases(q)
    PROVE  CmdInv'
<1> DEFINE names == cmd[q].names
           new == [cmd[q] EXCEPT !.pc = "ok"]
<1>1. TypeOK /\ StageOf(q) /\ OneAfterAnother /\ cmd[q] \in CmdRecord
    BY Here DEF CmdInv
<1>2. /\ cmd[q].pc = "write"
      /\ cmd' = [cmd EXCEPT ![q] = new]
      /\ UNCHANGED <<served, stored, req, out>>
      /\ aliases' = IF Cardinality(aliases) > Cardinality(names) THEN Torn ELSE names
      /\ named' = named \cup {q} /\ tidy' = tidy
    BY DEF WriteAliases, To
<1>3. cmd[q].op = "alias" /\ req[q] = NoRequest /\ ~cmd[q].did
  <2>1. cmd[q].op = "alias" /\ req[q] = NoRequest
      BY <1>1, <1>2 DEF StageOf
  <2> QED
      BY <1>1, <2>1 DEF StageOf, NoRequest
<1>4. named \subseteq Cmds /\ tidy \in BOOLEAN /\ names \in SUBSET Cmds
    BY <1>1, Typed, Fields
<1>5. "ok" \in CmdPlaces
    BY DEF CmdPlaces, Ended
<1>6. new \in CmdRecord
    BY <1>1, <1>5 DEF CmdRecord
<1>7. new.pc = "ok" /\ new.op = cmd[q].op /\ new.did = cmd[q].did
    BY <1>1 DEF CmdRecord
<1> HIDE DEF new
<1>8. cmd' \in [Cmds -> CmdRecord] /\ OtherCmds(q) /\ cmd'[q] = new
    BY <1>1, <1>2, <1>6, CmdReplaced
<1>9. OneAfterAnother'
  <2> SUFFICES ASSUME tidy
               PROVE  OneAfterAnother'
      BY <1>2 DEF OneAfterAnother
  <2>1. Saving(q)
      BY <1>2, <1>3 DEF Saving, Ended
  <2>2. \A r \in Cmds : Saving(r) => r = q
      BY <1>1, <2>1 DEF OneAfterAnother
  <2>3. SavingOf(q) /\ IsFiniteSet(named)
      BY <1>1, <2>1 DEF OneAfterAnother
  <2>4. aliases = {} /\ names = {q} \cup named
      BY <1>2, <2>3 DEF SavingOf
  <2>5. IsFiniteSet(names)
      BY <2>3, <2>4, FS_AddElement
  <2>6. Cardinality(aliases) = 0 /\ Cardinality(names) \in Nat
      BY <2>4, <2>5, FS_EmptySet, FS_CardinalityType
  <2> HIDE DEF names
  <2>7. aliases' = names
      BY <1>2, <2>6
  <2>8. named' = names
      BY <1>2, <2>4
  <2>9. \A r \in Cmds : ~Saving(r)'
    <3>1. ~Saving(q)'
        BY <1>7, <1>8 DEF Saving, Ended
    <3>2. \A r \in Cmds : r # q => ~Saving(r)'
        BY <1>8, <2>2 DEF OtherCmds, Saving
    <3> QED
        BY <3>1, <3>2
  <2> QED
      BY <2>5, <2>7, <2>8, <2>9 DEF OneAfterAnother
<1>10. aliases' \in (SUBSET Cmds) \cup {Torn} /\ named' \subseteq Cmds
    BY <1>2, <1>4
<1> QED
    BY <1>2, <1>3, <1>4, <1>5, <1>6, <1>7, <1>9, <1>10, AliasStep

-----------------------------------------------------------------------------
(* The node's steps: some of its handlers lose their connections.          *)
(***************************************************************************)
Breaks(broken) == req' = [q \in Cmds |-> IF q \in broken THEN Broken(q) ELSE req[q]]

LEMMA BrokenOnes ==
    ASSUME TypeOK, NEW broken, Breaks(broken)
    PROVE  /\ req' \in [Cmds -> ReqRecord]
           /\ \A q \in Cmds : q \notin broken => req'[q] = req[q]
           /\ \A q \in Cmds : q \in broken => /\ req'[q].pc = "broken"
                                              /\ req'[q].n = req[q].n
                                              /\ req'[q].entry = req[q].entry
<1>1. \A q \in Cmds : /\ Broken(q) \in ReqRecord
                      /\ Broken(q).pc = "broken"
                      /\ Broken(q).n = req[q].n
                      /\ Broken(q).entry = req[q].entry
  <2> SUFFICES ASSUME NEW q \in Cmds
               PROVE  /\ Broken(q) \in ReqRecord
                      /\ Broken(q).pc = "broken"
                      /\ Broken(q).n = req[q].n
                      /\ Broken(q).entry = req[q].entry
      OBVIOUS
  <2> QED
      BY Fields DEF Broken, ReqRecord, ReqPlaces
<1>2. \A q \in Cmds : req[q] \in ReqRecord
    BY Fields
<1>3. \A q \in Cmds : req'[q] = IF q \in broken THEN Broken(q) ELSE req[q]
    BY DEF Breaks
<1>4. req' \in [Cmds -> ReqRecord]
    BY <1>1, <1>2 DEF Breaks
<1> QED
    BY <1>1, <1>3, <1>4

LEMMA NodeStep ==
    ASSUME CmdInv, NEW broken, Breaks(broken),
           \A q \in Cmds : q \in broken => req[q].pc \in Handled,
           node' \in [run : 0 .. MaxRuns,
                      phase : {"up", "hidden", "draining", "closing", "down"}],
           node'.run # 0, addr' \in 0 .. MaxRuns, rough' \subseteq 1 .. MaxRuns,
           lock' \in [Keys -> Cmds \cup {Nobody}],
           UNCHANGED <<index, past, removed, naming, cmd, out>>, Served'
    PROVE  CmdInv'
<1>1. /\ TypeOK /\ Stage /\ Recorded /\ KeptListed /\ OneAfterAnother
    BY DEF CmdInv
<1>2. /\ index' = index /\ past' = past /\ removed' = removed /\ cmd' = cmd /\ out' = out
      /\ aliases' = aliases /\ named' = named /\ tidy' = tidy
    BY DEF naming
<1>3. /\ req' \in [Cmds -> ReqRecord]
      /\ \A q \in Cmds : q \notin broken => req'[q] = req[q]
      /\ \A q \in Cmds : q \in broken => /\ req'[q].pc = "broken"
                                         /\ req'[q].n = req[q].n
                                         /\ req'[q].entry = req[q].entry
    BY <1>1, BrokenOnes
<1>4. TypeOK'
    BY <1>1, <1>2, <1>3 DEF TypeOK, ReqRecord, ReqPlaces
<1>5. Stage'
  <2> SUFFICES ASSUME NEW q \in Cmds
               PROVE  StageOf(q)'
      BY DEF Stage
  <2>1. StageOf(q)
      BY <1>1 DEF Stage
  <2>2. CASE q \notin broken
      BY <1>2, <1>3, <2>1, <2>2 DEF StageOf
  <2>3. CASE q \in broken
    <3>1. req[q].pc \in Handled /\ req[q] # NoRequest
        BY <2>3 DEF Handled, NoRequest
    <3>2. cmd[q].pc \notin {"idle", "dial", "notRunning"} /\ cmd[q].op # "alias"
        BY <2>1, <3>1 DEF StageOf
    <3> QED
        BY <1>2, <1>3, <2>1, <2>3, <3>2 DEF StageOf
  <2> QED
      BY <2>2, <2>3
<1>6. Recorded'
  <2> SUFFICES ASSUME NEW q \in Cmds
               PROVE  RecordedOf(q)'
      BY DEF Recorded
  <2>1. RecordedOf(q) /\ req'[q].entry = req[q].entry
      BY <1>1, <1>3 DEF Recorded
  <2> QED
      BY <1>2, <2>1 DEF RecordedOf
<1>7. KeptListed'
    BY <1>1, <1>2 DEF KeptListed, KeptOf
<1>8. OneAfterAnother'
    BY <1>1, <1>2 DEF OneAfterAnother, Saving, SavingOf
<1> QED
    BY <1>4, <1>5, <1>6, <1>7, <1>8 DEF CmdInv

NodeRecord == [run : 0 .. MaxRuns, phase : {"up", "hidden", "draining", "closing", "down"}]

LEMMA NodeFields ==
    ASSUME CmdInv
    PROVE  /\ TypeOK /\ Served
           /\ node \in NodeRecord
           /\ node.run \in 1 .. MaxRuns
           /\ node.phase \in {"up", "hidden", "draining", "closing", "down"}
           /\ addr \in 0 .. MaxRuns
           /\ rough \subseteq 1 .. MaxRuns
           /\ lock \in [Keys -> Cmds \cup {Nobody}]
<1>1. TypeOK /\ Served /\ node.run # 0
    BY DEF CmdInv
<1>2. node \in NodeRecord
    BY <1>1, Typed DEF NodeRecord
<1>3. node.run \in 0 .. MaxRuns
    BY <1>2 DEF NodeRecord
<1>4. node.run \in 1 .. MaxRuns
    BY <1>1, <1>3, BlocksNat
<1> QED
    BY <1>1, <1>2, <1>4, Typed DEF NodeRecord

LEMMA PhaseFlat ==
    ASSUME CmdInv, NEW phase \in {"up", "hidden", "draining", "closing", "down"}, Phase(phase)
    PROVE  node' \in NodeRecord /\ node'.run = node.run /\ node'.phase = phase
BY NodeFields DEF Phase, NodeRecord

LEMMA NoneBreaks ==
    ASSUME TypeOK, req' = req
    PROVE  Breaks({})
BY Typed DEF Breaks

LEMMA ServeKeeps ==
    ASSUME CmdInv, Serve
    PROVE  CmdInv'
<1>1. /\ TypeOK /\ Served /\ node.run \in 1 .. MaxRuns
      /\ lock \in [Keys -> Cmds \cup {Nobody}] /\ rough \subseteq 1 .. MaxRuns
    BY NodeFields
<1>2. /\ node.phase = "down" /\ node.run < MaxRuns
      /\ node' = [run |-> node.run + 1, phase |-> "up"]
      /\ addr' = node.run + 1
      /\ UNCHANGED <<index, past, removed, naming, cmd, out>>
      /\ rough' = rough /\ lock' = lock /\ req' = req /\ cmd' = cmd
    BY DEF Serve, At, stored
<1>3. node.run + 1 \in 0 .. MaxRuns /\ node.run + 1 # 0
    BY <1>1, <1>2, BlocksNat
<1>4. node' \in NodeRecord /\ node'.run = node.run + 1 /\ node'.phase = "up"
    BY <1>2, <1>3 DEF NodeRecord
<1>5. Served'
  <2> SUFFICES ASSUME NEW q \in Cmds
               PROVE  ServedOf(q)'
      BY DEF Served
  <2>1. ServedOf(q) /\ req[q].pc \notin Handled
      BY <1>1, <1>2 DEF Served, ServedOf
  <2> QED
      BY <1>2, <1>4, <2>1 DEF ServedOf, Alive
<1>6. Breaks({})
    BY <1>1, <1>2, NoneBreaks
<1> QED
    BY <1>1, <1>2, <1>3, <1>4, <1>5, <1>6, NodeStep DEF NodeRecord

LEMMA RemoveAddrKeeps ==
    ASSUME CmdInv, RemoveAddr
    PROVE  CmdInv'
<1>1. /\ TypeOK /\ Served /\ node.run \in 1 .. MaxRuns
      /\ lock \in [Keys -> Cmds \cup {Nobody}] /\ rough \subseteq 1 .. MaxRuns
    BY NodeFields
<1>2. /\ node.phase = "up" /\ Phase("hidden") /\ addr' = 0
      /\ UNCHANGED <<index, past, removed, naming, cmd, out>>
      /\ rough' = rough /\ lock' = lock /\ req' = req /\ cmd' = cmd
    BY DEF RemoveAddr, At, stored
<1>3. node' \in NodeRecord /\ node'.run = node.run /\ node'.phase = "hidden"
    BY <1>2, PhaseFlat
<1>4. Served'
  <2> SUFFICES ASSUME NEW q \in Cmds
               PROVE  ServedOf(q)'
      BY DEF Served
  <2>1. ServedOf(q)
      BY <1>1 DEF Served
  <2> QED
      BY <1>2, <1>3, <2>1 DEF ServedOf, Alive
<1>5. Breaks({})
    BY <1>1, <1>2, NoneBreaks
<1>6. 0 \in 0 .. MaxRuns /\ node'.run # 0
    BY <1>1, <1>3, BlocksNat
<1> QED
    BY <1>1, <1>2, <1>3, <1>4, <1>5, <1>6, NodeStep DEF NodeRecord

LEMMA CloseListenerKeeps ==
    ASSUME CmdInv, CloseListener
    PROVE  CmdInv'
<1>1. /\ TypeOK /\ Served /\ Stage /\ node.run \in 1 .. MaxRuns /\ addr \in 0 .. MaxRuns
      /\ lock \in [Keys -> Cmds \cup {Nobody}] /\ rough \subseteq 1 .. MaxRuns
    BY NodeFields DEF CmdInv
<1>2. /\ node.phase = "hidden" /\ Phase("draining")
      /\ UNCHANGED <<index, past, removed, naming, cmd, out>>
      /\ rough' = rough /\ lock' = lock /\ addr' = addr /\ cmd' = cmd
    BY DEF CloseListener, At, stored
<1>3. PICK unaccepted \in SUBSET {q \in Cmds : req[q].pc = "queued"} : Breaks(unaccepted)
    BY DEF CloseListener, Breaks
<1>4. node' \in NodeRecord /\ node'.run = node.run /\ node'.phase = "draining"
    BY <1>2, PhaseFlat
<1>5. \A q \in Cmds : q \in unaccepted => req[q].pc = "queued" /\ req[q].pc \in Handled
    BY <1>3 DEF Handled
<1>6. /\ \A q \in Cmds : q \notin unaccepted => req'[q] = req[q]
      /\ \A q \in Cmds : q \in unaccepted => req'[q].pc = "broken"
    BY <1>1, <1>3, BrokenOnes
<1>7. Served'
  <2> SUFFICES ASSUME NEW q \in Cmds
               PROVE  ServedOf(q)'
      BY DEF Served
  <2>1. ServedOf(q) /\ StageOf(q)
      BY <1>1 DEF Served, Stage
  <2>2. CASE q \notin unaccepted
      BY <1>2, <1>4, <1>6, <2>1, <2>2 DEF ServedOf, Alive
  <2>3. CASE q \in unaccepted
    <3>1. ~cmd[q].did
        BY <1>5, <2>1, <2>3 DEF StageOf
    <3> QED
        BY <1>2, <1>6, <2>3, <3>1 DEF ServedOf, Alive, Handled
  <2> QED
      BY <2>2, <2>3
<1>8. node'.run # 0
    BY <1>1, <1>4
<1> QED
    BY <1>1, <1>2, <1>3, <1>4, <1>5, <1>7, <1>8, NodeStep DEF NodeRecord

LEMMA DrainedKeeps ==
    ASSUME CmdInv, Drained
    PROVE  CmdInv'
<1>1. /\ TypeOK /\ Served /\ node.run \in 1 .. MaxRuns /\ addr \in 0 .. MaxRuns
      /\ lock \in [Keys -> Cmds \cup {Nobody}] /\ rough \subseteq 1 .. MaxRuns
    BY NodeFields
<1>2. /\ Phase("closing") /\ \A q \in Cmds : req[q].pc \notin Handled
      /\ UNCHANGED <<index, past, removed, naming, cmd, out>>
      /\ rough' = rough /\ lock' = lock /\ addr' = addr /\ req' = req /\ cmd' = cmd
    BY DEF Drained, stored
<1>3. node' \in NodeRecord /\ node'.run = node.run /\ node'.phase = "closing"
    BY <1>2, PhaseFlat
<1>4. Served'
  <2> SUFFICES ASSUME NEW q \in Cmds
               PROVE  ServedOf(q)'
      BY DEF Served
  <2>1. ServedOf(q) /\ req[q].pc \notin Handled
      BY <1>1, <1>2 DEF Served
  <2> QED
      BY <1>2, <1>3, <2>1 DEF ServedOf, Alive
<1>5. Breaks({}) /\ node'.run # 0
    BY <1>1, <1>2, <1>3, NoneBreaks
<1> QED
    BY <1>1, <1>2, <1>3, <1>4, <1>5, NodeStep DEF NodeRecord

LEMMA ShutdownTimeoutKeeps ==
    ASSUME CmdInv, ShutdownTimeout
    PROVE  CmdInv'
<1>1. /\ TypeOK /\ Served /\ node.run \in 1 .. MaxRuns /\ addr \in 0 .. MaxRuns
      /\ lock \in [Keys -> Cmds \cup {Nobody}] /\ rough \subseteq 1 .. MaxRuns
    BY NodeFields
<1>2. /\ node.phase = "draining" /\ Phase("closing") /\ rough' = rough \cup {node.run}
      /\ UNCHANGED <<index, past, removed, naming, cmd, out>>
      /\ lock' = lock /\ addr' = addr /\ req' = req /\ cmd' = cmd
    BY DEF ShutdownTimeout, At, stored
<1>3. node' \in NodeRecord /\ node'.run = node.run /\ node'.phase = "closing"
    BY <1>2, PhaseFlat
<1>4. Served'
  <2> SUFFICES ASSUME NEW q \in Cmds
               PROVE  ServedOf(q)'
      BY DEF Served
  <2>1. ServedOf(q)
      BY <1>1 DEF Served
  <2> QED
      BY <1>2, <1>3, <2>1 DEF ServedOf, Alive
<1>5. Breaks({})
    BY <1>1, <1>2, NoneBreaks
<1>6. node'.run # 0
    BY <1>1, <1>3
<1>7. rough' \subseteq 1 .. MaxRuns
    BY <1>1, <1>2
<1> QED
    BY <1>1, <1>2, <1>3, <1>4, <1>5, <1>6, <1>7, NodeStep DEF NodeRecord

\* The process ends, having been killed, or had no patience, or no handler left.
LEMMA GoneKeeps ==
    ASSUME CmdInv, Gone, rough \subseteq rough', rough' \subseteq 1 .. MaxRuns,
           \/ node.run \in rough'
           \/ \A q \in Cmds : req[q].pc \notin Handled
    PROVE  CmdInv'
<1> DEFINE broken == {q \in Cmds : req[q].pc \in Handled}
<1>1. /\ TypeOK /\ Served /\ node.run \in 1 .. MaxRuns /\ addr \in 0 .. MaxRuns
    BY NodeFields
<1>2. /\ Phase("down") /\ lock' = [k \in Keys |-> Nobody] /\ addr' = addr /\ cmd' = cmd
      /\ UNCHANGED <<index, past, removed, naming, cmd, out>>
    BY DEF Gone
<1>3. Breaks(broken)
    BY DEF Gone, Breaks
<1>4. node' \in NodeRecord /\ node'.run = node.run /\ node'.phase = "down"
    BY <1>2, PhaseFlat
<1>5. \A q \in Cmds : q \in broken <=> req[q].pc \in Handled
    OBVIOUS
<1> HIDE DEF broken
<1>6. /\ \A q \in Cmds : q \notin broken => req'[q] = req[q]
      /\ \A q \in Cmds : q \in broken => req'[q].pc = "broken"
    BY <1>1, <1>3, BrokenOnes
<1>7. Served'
  <2> SUFFICES ASSUME NEW q \in Cmds
               PROVE  ServedOf(q)'
      BY DEF Served
  <2>1. ServedOf(q)
      BY <1>1 DEF Served
  <2>2. CASE q \notin broken
    <3>1. req'[q] = req[q] /\ req[q].pc \notin Handled
        BY <1>5, <1>6, <2>2
    <3> QED
        BY <1>2, <1>4, <2>1, <3>1 DEF ServedOf, Alive
  <2>3. CASE q \in broken
    <3>1. cmd[q].run = node.run /\ node.run \in rough'
        BY <1>5, <2>1, <2>3 DEF ServedOf
    <3> QED
        BY <1>2, <1>4, <1>6, <2>3, <3>1 DEF ServedOf, Handled
  <2> QED
      BY <2>2, <2>3
<1>8. node'.run # 0 /\ lock' \in [Keys -> Cmds \cup {Nobody}]
    BY <1>1, <1>2, <1>4
<1> QED
    BY <1>1, <1>2, <1>3, <1>4, <1>5, <1>7, <1>8, NodeStep DEF NodeRecord

LEMMA ExitKeeps ==
    ASSUME CmdInv, Exit
    PROVE  CmdInv'
<1>1. node.phase = "closing" /\ Gone /\ rough' = rough
    BY DEF Exit, At
<1>2. node.run \in rough \/ \A q \in Cmds : req[q].pc \notin Handled
    BY <1>1, NodeFields DEF Served, ServedOf
<1> QED
    BY <1>1, <1>2, NodeFields, GoneKeeps

LEMMA KillKeeps ==
    ASSUME CmdInv, Kill
    PROVE  CmdInv'
<1>1. Gone /\ rough' = rough \cup {node.run}
    BY DEF Kill
<1>2. node.run \in 1 .. MaxRuns /\ rough \subseteq 1 .. MaxRuns
    BY NodeFields
<1> QED
    BY <1>1, <1>2, GoneKeeps

-----------------------------------------------------------------------------
(* Every state of the system satisfies CmdInv.                             *)
(***************************************************************************)
OldEntry == {NoEntry} \cup [id : {FirstID}, seq : {1}, n : 0 .. Blocks, size : 0 .. Blocks]

LEMMA OldEntries ==
    ASSUME NEW old \in [Keys -> OldEntry], \A k \in Keys : old[k].n = old[k].size,
           index = [k \in Keys |-> IF old[k] = NoEntry THEN EmptyIndex
                                   ELSE AppendLatest(EmptyIndex, old[k])],
           past = [k \in Keys |-> {old[k]} \ {NoEntry}]
    PROVE  /\ index \in [Keys -> IndexRecord]
           /\ past \in [Keys -> SUBSET Entry]
           /\ KeptListed
<1> SUFFICES ASSUME NEW k \in Keys
             PROVE  index[k] \in IndexRecord /\ past[k] \in SUBSET Entry /\ KeptOf(k)
    BY DEF KeptListed
<1>1. EmptyIndex \in IndexRecord /\ EmptyIndex.versions = <<>> /\ Entries(<<>>) = {}
    BY EmptySeq DEF EmptyIndex, IndexRecord, IdOrNone, Entries
<1>2. CASE old[k] = NoEntry
  <2>1. index[k] = EmptyIndex /\ past[k] = {}
      BY <1>2
  <2> QED
      BY <1>1, <2>1 DEF KeptOf
<1>3. CASE old[k] # NoEntry
  <2> DEFINE e == old[k]
             s == Append(<<>>, e)
  <2>1. e \in [id : {FirstID}, seq : {1}, n : 0 .. Blocks, size : 0 .. Blocks]
      BY <1>3 DEF OldEntry
  <2>2. FirstID \in VersionIDs
      BY CommandsAssumption DEF FirstID
  <2>3. e \in Entry
      BY <2>1, <2>2, BlocksNat DEF Entry
  <2>4. e.id \in VersionIDs /\ e.n = e.size
      BY <2>3, EntryFields
  <2>5. index[k] = [latest |-> e.id, versions |-> s] /\ past[k] = {e}
      BY <1>1, <1>3 DEF AppendLatest
  <2>6. s \in Seq(Entry) /\ Entries(s) = {e}
    <3>1. PICK none \in Seq(Entry) : none = <<>>
        BY EmptySeq
    <3> HIDE DEF e
    <3>2. Append(none, e) \in Seq(Entry) /\ Entries(Append(none, e)) = Entries(none) \cup {e}
        BY <2>3, AppendEntries
    <3>3. Entries(none) = {}
        BY <1>1, <3>1
    <3> QED
        BY <3>1, <3>2, <3>3
  <2> HIDE DEF s, e
  <2>7. index[k] \in IndexRecord /\ index[k].versions = s
      BY <2>4, <2>5, <2>6 DEF IndexRecord, IdOrNone
  <2> QED
      BY <2>3, <2>4, <2>5, <2>6, <2>7 DEF KeptOf
<1> QED
    BY <1>2, <1>3

LEMMA InitCmdInv == Init => CmdInv
<1> SUFFICES ASSUME Init
             PROVE  CmdInv
    OBVIOUS
<1>1. PICK old \in [Keys -> OldEntry] :
        /\ \A k \in Keys : old[k].n = old[k].size
        /\ index = [k \in Keys |-> IF old[k] = NoEntry THEN EmptyIndex
                                   ELSE AppendLatest(EmptyIndex, old[k])]
        /\ past = [k \in Keys |-> {old[k]} \ {NoEntry}]
    BY DEF Init, OldEntry
<1>2. /\ index \in [Keys -> IndexRecord]
      /\ past \in [Keys -> SUBSET Entry]
      /\ KeptListed
    BY <1>1, OldEntries
<1>3. /\ node = [run |-> 1, phase |-> "down"]
      /\ addr \in {0, 1}
      /\ lock = [k \in Keys |-> Nobody]
      /\ req = [q \in Cmds |-> NoRequest]
      /\ cmd = [q \in Cmds |-> NoCmd]
      /\ out = [q \in Cmds |-> OldFile]
      /\ aliases = {} /\ removed = {} /\ rough = {} /\ named = {} /\ tidy = TRUE
    BY DEF Init
<1>4. NoCmd \in CmdRecord
  <2>1. (CHOOSE k \in Keys : TRUE) \in Keys
      BY CommandsAssumption
  <2> QED
      BY <2>1, BlocksNat DEF NoCmd, CmdRecord, CmdPlaces, Ended, AllOps, IdOrNone
<1>5. NoRequest \in ReqRecord
    BY BlocksNat DEF NoRequest, ReqRecord, ReqPlaces
<1>6. OldFile \in OutRecord
    BY BlocksNat DEF OldFile, OutRecord, IdOrNone
<1>7. 0 \in 0 .. MaxRuns /\ 1 \in 0 .. MaxRuns /\ 1 # 0
    BY BlocksNat
<1>8. node \in NodeRecord /\ node.run = 1 /\ node.phase = "down"
    BY <1>3, <1>7 DEF NodeRecord
<1>9. TypeOK
    BY <1>2, <1>3, <1>4, <1>5, <1>6, <1>7, <1>8, Typed DEF NodeRecord
<1>10. /\ NoCmd.pc = "idle" /\ NoCmd.op = "ls" /\ NoCmd.did = FALSE
       /\ NoRequest.pc = "none" /\ NoRequest.n = 0 /\ NoRequest.entry = NoEntry
    BY DEF NoCmd, NoRequest
<1>11. \A q \in Cmds : cmd[q] = NoCmd /\ req[q] = NoRequest /\ out[q] = OldFile
    BY <1>3
<1>12. Stage
  <2> SUFFICES ASSUME NEW q \in Cmds
               PROVE  StageOf(q)
      BY DEF Stage
  <2> QED
      BY <1>10, <1>11 DEF StageOf, Uploads
<1>13. Recorded
    BY <1>10, <1>11 DEF Recorded, RecordedOf
<1>14. Served
    BY <1>10, <1>11 DEF Served, ServedOf, Handled, Alive, OnLine
<1>15. OneAfterAnother
    BY <1>3, <1>10, <1>11, FS_EmptySet DEF OneAfterAnother, Saving, Ended
<1> QED
    BY <1>2, <1>7, <1>8, <1>9, <1>12, <1>13, <1>14, <1>15 DEF CmdInv

LEMMA SameKeeps ==
    ASSUME CmdInv, UNCHANGED vars
    PROVE  CmdInv'
<1>1. /\ UNCHANGED <<served, index, past, removed, naming, cmd, out>>
      /\ node' = node /\ addr' = addr /\ rough' = rough /\ lock' = lock /\ req' = req /\ cmd' = cmd
    BY DEF vars, served, stored
<1>2. Breaks({})
    BY <1>1, NodeFields, NoneBreaks
<1>3. Served'
    BY <1>1, NodeFields DEF Served, ServedOf, Alive
<1>4. node'.run # 0
    BY <1>1, NodeFields
<1> QED
    BY <1>1, <1>2, <1>3, <1>4, NodeFields, NodeStep DEF NodeRecord

LEMMA NextCmdInv == CmdInv /\ [Next]_vars => CmdInv'
<1> SUFFICES ASSUME CmdInv, [Next]_vars
             PROVE  CmdInv'
    OBVIOUS
<1>1. ASSUME NEW q \in Cmds, Start(q) \/ LoadAliases(q) \/ Client(q) \/ GiveUp(q)
      PROVE  CmdInv'
    BY <1>1, StartKeeps, LoadAliasesKeeps, DialKeeps, UploadKeeps, ReadHeadKeeps, CopyBodyKeeps,
       FinishKeeps, LostKeeps, OpenAliasesKeeps, WriteAliasesKeeps, GiveUpKeeps DEF Client
<1>2. ASSUME NEW q \in Cmds, Handler(q)
      PROVE  CmdInv'
    BY <1>2, RefuseTargetsKeeps, TakeLockKeeps, ReadBodyKeeps, CommitKeeps, BodyBreaksKeeps,
       ReplicatedKeeps, ShareKeeps, OpenVersionKeeps, SendBodyKeeps, DeleteKeeps,
       ListVersionsKeeps DEF Handler
<1>3. CASE Serve \/ Shutdown \/ Kill
    BY <1>3, ServeKeeps, RemoveAddrKeeps, CloseListenerKeeps, DrainedKeeps, ShutdownTimeoutKeeps,
       ExitKeeps, KillKeeps DEF Shutdown
<1>4. CASE UNCHANGED vars
    BY <1>4, SameKeeps
<1> QED
    BY <1>1, <1>2, <1>3, <1>4 DEF Next

THEOREM CmdInvariant == Spec => []CmdInv
<1>1. Init => CmdInv
    BY InitCmdInv
<1>2. CmdInv /\ [Next]_vars => CmdInv'
    BY NextCmdInv
<1> QED
    BY <1>1, <1>2, PTL DEF Spec

-----------------------------------------------------------------------------
(* What follows from it.                                                   *)
(***************************************************************************)
\* Every variable holds what the code's types allow.
THEOREM CommandsTypeCorrect == Spec => []TypeOK
<1>1. CmdInv => TypeOK
    BY DEF CmdInv
<1> QED
    BY <1>1, CmdInvariant, PTL

\* Without a version limit, no version is lost but to rm: what handlePut has
\* committed stays listed whatever commands are interrupted and however serve is
\* stopped or killed, and no file that broke off is ever a version.  (With a limit
\* pruneOldestVersions drops the oldest.)
THEOREM VersionsAreKept ==
    ASSUME MaxVersions = 0
    PROVE  Spec => []VersionsWholeAndKept
<1>1. CmdInv => VersionsWholeAndKept
  <2> SUFFICES ASSUME CmdInv, NEW k \in Keys, NEW e \in past[k]
               PROVE  e.n = e.size /\ e.id \in IdsOf(index[k].versions) \cup removed
      BY DEF VersionsWholeAndKept
  <2>1. e.n = e.size /\ (e \in Entries(index[k].versions) \/ e.id \in removed)
      BY DEF CmdInv, KeptListed, KeptOf
  <2>2. e \in Entries(index[k].versions) => e.id \in IdsOf(index[k].versions)
      BY IdsOfEntries
  <2> QED
      BY <2>1, <2>2
<1> QED
    BY <1>1, CmdInvariant, PTL

\* A put or send that reports success (client.do has read the answer of handlePut or
\* handleShare) names a version its key has had, as long as the file it announced.
THEOREM StoredMeansStored == Spec => []OkMeansStored
<1>1. CmdInv => OkMeansStored
    BY DEF CmdInv, Recorded, RecordedOf, OkMeansStored
<1> QED
    BY <1>1, CmdInvariant, PTL

\* errNotRunning is only ever returned to a command that no handler has served.
THEOREM NotRunningIsHarmless == Spec => []NotRunningMeansNothingDone
<1>1. CmdInv => NotRunningMeansNothingDone
  <2> SUFFICES ASSUME CmdInv, NEW q \in Cmds, cmd[q].pc = "notRunning"
               PROVE  ~cmd[q].did
      BY DEF NotRunningMeansNothingDone
  <2>1. StageOf(q)
      BY DEF CmdInv, Stage
  <2>2. req[q].pc = "none"
      BY <2>1 DEF StageOf, NoRequest
  <2> QED
      BY <2>1, <2>2 DEF StageOf
<1> QED
    BY <1>1, CmdInvariant, PTL

\* serve stops its HTTP server by Shutdown before anything else is closed: unless the
\* node is killed or shutdownTimeout runs out, a command whose connection breaks has
\* changed nothing.
THEOREM StopIsGraceful == Spec => []GracefulStop
<1>1. CmdInv => GracefulStop
    BY DEF CmdInv, Served, ServedOf, GracefulStop
<1> QED
    BY <1>1, CmdInvariant, PTL

\* A get that reports success has written one version of its key, whole: io.Copy ends
\* at Content-Length, which is that of the version handleGet opened.  A get that finds
\* no node or is refused has not touched the file.
THEOREM GetsAreWhole == Spec => []GetWholeOrError
<1>1. CmdInv => GetWholeOrError
  <2> SUFFICES ASSUME CmdInv, NEW q \in Cmds
               PROVE  /\ cmd[q].pc = "ok" /\ cmd[q].op = "get" =>
                           \E e \in past[cmd[q].key] : out[q] = [id |-> e.id, n |-> e.size]
                      /\ cmd[q].pc \in {"notRunning", "failed"} => out[q] = OldFile
      BY DEF GetWholeOrError
  <2>1. StageOf(q) /\ RecordedOf(q) /\ TypeOK
      BY Here
  <2>2. ASSUME NEW id, NEW n, out[q].id = id, out[q].n = n
        PROVE  out[q] = [id |-> id, n |-> n]
      BY <2>1, <2>2, Fields DEF OutRecord
  <2> QED
      BY <2>1, <2>2 DEF StageOf, RecordedOf
<1> QED
    BY <1>1, CmdInvariant, PTL

\* Alias commands that run one after another, and to their end, lose no name: each
\* has loaded what the one before it saved.
THEOREM AliasesAreKept == Spec => []AliasesKept
<1>1. CmdInv => AliasesKept
    BY DEF CmdInv, OneAfterAnother, AliasesKept
<1> QED
    BY <1>1, CmdInvariant, PTL
=============================================================================
