----------------------------- MODULE DataDirProofs -----------------------------
(***************************************************************************)
(* What the processes of one data directory promise, for any number of     *)
(* processes, client commands and restarts.                                *)
(*                                                                         *)
(* DirInv is the inductive invariant.  Its core is about inodes: the two   *)
(* names of a file never lead to one inode (ApartNames), which rests on a  *)
(* run creating each file at most once, so that the inode it is about to   *)
(* create is not there yet (Unborn).  From that a file under its own name  *)
(* is never truncated.  Two writers share the sibling, so that what holds  *)
(* of a writer's sibling (SiblingHeld) holds only while starts have not    *)
(* overlapped; the API's address file also stands when other processes'    *)
(* starts have, as long as there is one `serve`.                           *)
(***************************************************************************)
EXTENDS DataDir, TLAPS, FiniteSetTheorems

\* The process is past the creation of file f in its present run, or in it.
Past(p, f) ==
    \/ proc[p].pc \in {"down", "up", "closing"}
    \/ proc[p].file = f /\ proc[p].pc \in {"write", "rename", "cleanup"}
    \/ f = "identity.key" /\ proc[p].file # "identity.key"
    \/ f = "encryption.key" /\ proc[p].file = "api.addr"

\* The process has written the API's address file in its present run.
Published(p) ==
    \/ proc[p].pc \in {"down", "up", "closing"}
    \/ proc[p].file = "api.addr" /\ proc[p].pc \in {"rename", "cleanup"}

\* startNode's order: the file a process is at, and the keys it has by then.
StageOf(p) ==
    /\ proc[p].pc # "down" => proc[p].run \in 1 .. MaxRuns
    /\ proc[p].pc = "read" => proc[p].file \in KeyFiles
    /\ proc[p].pc \in Creating \cup {"cleanup"} => proc[p].file \in DirFiles
    /\ proc[p].pc \in {"down", "up", "closing"} => proc[p].file = "none"
    /\ proc[p].pc = "write" => proc[p].fd \in Inodes /\ proc[p].fd[2] = proc[p].file
    /\ proc[p].file = "api.addr" => p \in Serves
    /\ proc[p].file \in {"encryption.key", "api.addr"} \/ proc[p].pc \in {"up", "closing"}
         => proc[p].keys["identity.key"] # Nothing
    /\ proc[p].file = "api.addr" \/ proc[p].pc \in {"up", "closing"}
         => proc[p].keys["encryption.key"] # Nothing
Stages == \A p \in Procs : StageOf(p)

\* A name leads to an inode of its own file, and the two names of a file to
\* different ones.
OwnFile == \A n \in Names : link[n] # Nothing => link[n][2] = n[1]
ApartNames ==
    \A f \in DirFiles : link[Path(f)] # Nothing => link[Path(f)] # link[Tmp(f)]

\* No name leads to an inode that no run has created yet.
Unborn ==
    \A p \in Procs, r \in 1 .. MaxRuns, f \in DirFiles, n \in Names :
        link[n] = <<<<p, r>>, f>> => r < proc[p].run \/ (r = proc[p].run /\ Past(p, f))

\* No address file names a run that has not written it.
Unpublished ==
    \A p \in Procs, r \in 1 .. MaxRuns, i \in Inodes :
        data[i] = <<p, r>> =>
            r < proc[p].run \/ (r = proc[p].run /\ (i[2] = "api.addr" => Published(p)))

OneStarter ==
    ~overlapped => \A p, q \in Procs :
                       proc[p].pc \in Starting /\ proc[q].pc \in Starting => p = q

OneServe == \A s, t \in Serves : s = t

\* What a process has under way of a file is under the file's other name.
Private(p) == ~overlapped \/ (OneServe /\ proc[p].file = "api.addr")
SiblingOf(p) ==
    /\ proc[p].pc = "write" => link[Tmp(proc[p].file)] = proc[p].fd
    /\ proc[p].pc = "rename" => /\ link[Tmp(proc[p].file)] # Nothing
                                /\ data[link[Tmp(proc[p].file)]] = Run(p)
SiblingHeld == \A p \in Procs : Private(p) => SiblingOf(p)

\* Whoever has a key, or has used one, has the key that is on disk, and nobody
\* creates a key file that is there.
KeyOf(f, v) == link[Path(f)] # Nothing /\ Contents(f) = v
KeysAgree ==
    ~overlapped => \A f \in KeyFiles :
        /\ \A v \in used[f] : KeyOf(f, v)
        /\ \A p \in Procs : proc[p].keys[f] # Nothing => KeyOf(f, proc[p].keys[f])
        /\ \A p \in Procs : proc[p].file = f /\ proc[p].pc \in Creating => link[Path(f)] = Nothing

AddressOf(p) ==
    /\ proc[p].pc = "up" => KeyOf("api.addr", Run(p))
    /\ proc[p].pc = "closing" => link[Path("api.addr")] = Nothing
AddressStands == OneServe => \A p \in Serves : AddressOf(p)

DirInv ==
    /\ TypeOK
    /\ Stages
    /\ OwnFile
    /\ ApartNames
    /\ Unborn
    /\ Unpublished
    /\ OneStarter
    /\ SiblingHeld
    /\ NeverHalfWritten
    /\ KeysAgree
    /\ AddressStands

-----------------------------------------------------------------------------
(* What the types give, and what each step does to one process.            *)
(***************************************************************************)
Places == {"down", "up", "closing"} \cup Starting
ProcRecord == [pc : Places, run : 0 .. MaxRuns, file : DirFiles \cup {"none"},
               fd : Inodes \cup {Nothing}, keys : [KeyFiles -> Runs \cup {Nothing}]]

LEMMA Fields ==
    ASSUME TypeOK, NEW p \in Procs
    PROVE  /\ proc[p] \in ProcRecord
           /\ proc[p].pc \in Places
           /\ proc[p].run \in 0 .. MaxRuns
           /\ proc[p].file \in DirFiles \cup {"none"}
           /\ proc[p].fd \in Inodes \cup {Nothing}
           /\ proc[p].keys \in [KeyFiles -> Runs \cup {Nothing}]
<1>1. proc[p] \in ProcRecord
    BY DEF TypeOK, ProcRecord, Places
<1> QED
    BY <1>1 DEF ProcRecord

\* The two names of a file, and the constants, are what they seem.
LEMMA Spelled ==
    /\ \A f \in DirFiles : Path(f) \in Names /\ Tmp(f) \in Names
    /\ \A f, g \in DirFiles : /\ Path(f) # Tmp(g)
                              /\ Path(f) = Path(g) => f = g
                              /\ Tmp(f) = Tmp(g) => f = g
    /\ \A n \in Names : \E f \in DirFiles : n = Path(f) \/ n = Tmp(f)
    /\ \A f \in DirFiles : Path(f)[1] = f /\ Tmp(f)[1] = f
    /\ KeyFiles \subseteq DirFiles
    /\ "identity.key" \in KeyFiles
    /\ "encryption.key" \in KeyFiles
    /\ "api.addr" \in DirFiles
    /\ "api.addr" \notin KeyFiles
    /\ "none" \notin DirFiles
    /\ MaxRuns \in Nat
    /\ Nothing \notin Runs
    /\ Nothing \notin Inodes
BY DataDirAssumption DEF Path, Tmp, Names, DirFiles, KeyFiles

\* The run of a process that is not down, and the inode it would create.
LEMMA RunTyped ==
    ASSUME TypeOK, Stages, NEW p \in Procs, proc[p].pc # "down"
    PROVE  /\ proc[p].run \in 1 .. MaxRuns
           /\ Run(p) \in Runs
           /\ Run(p) # Nothing
           /\ \A f \in DirFiles : <<Run(p), f>> \in Inodes
BY Spelled DEF Stages, StageOf, Runs, Run, Inodes

LEMMA InodeParts ==
    ASSUME NEW i \in Inodes
    PROVE  /\ \E p \in Procs, r \in 1 .. MaxRuns, f \in DirFiles : i = <<<<p, r>>, f>>
           /\ i[2] \in DirFiles
BY DEF Inodes, Runs

Others(p) == \A q \in Procs : q # p => proc'[q] = proc[q]

\* Process p goes to pc and file within its run.
Goes(p, pc, file) ==
    /\ Others(p)
    /\ proc'[p].pc = pc
    /\ proc'[p].file = file
    /\ proc'[p].run = proc[p].run

LEMMA StartDoes ==
    ASSUME TypeOK, NEW p \in Procs, Start(p)
    PROVE  /\ TypeOK'
           /\ Others(p)
           /\ proc[p].pc = "down"
           /\ proc'[p].pc = "read"
           /\ proc'[p].file = "identity.key"
           /\ proc'[p].run = proc[p].run + 1
           /\ proc'[p].keys = NoKeys
<1> USE DEF Start
<1>1. proc[p].run + 1 \in 0 .. MaxRuns
    BY Fields, Spelled
<1>2. NoKeys \in [KeyFiles -> Runs \cup {Nothing}]
    BY DEF NoKeys
<1>3. proc \in [Procs -> ProcRecord]
    BY DEF TypeOK, ProcRecord, Places
<1> DEFINE new == [pc |-> "read", run |-> proc[p].run + 1, file |-> "identity.key",
                   fd |-> Nothing, keys |-> NoKeys]
<1>4. new \in ProcRecord
    BY <1>1, <1>2 DEF ProcRecord, Places, Starting, Creating, DirFiles, KeyFiles
<1>5. proc' = [proc EXCEPT ![p] = new]
    OBVIOUS
<1>6. /\ new.pc = "read"
      /\ new.file = "identity.key"
      /\ new.run = proc[p].run + 1
      /\ new.keys = NoKeys
    OBVIOUS
<1> HIDE DEF new
<1>7. proc' \in [Procs -> ProcRecord]
    BY <1>3, <1>4, <1>5
<1>8. overlapped' \in BOOLEAN
    BY DEF TypeOK
<1>9. TypeOK'
    BY <1>7, <1>8 DEF TypeOK, ProcRecord, Places
<1>10. proc'[p] = new /\ Others(p)
    BY <1>3, <1>5 DEF Others
<1> QED
    BY <1>6, <1>9, <1>10

\* Stop, of whatever state the process is in.
LEMMA StopDoes ==
    ASSUME TypeOK, NEW p \in Procs, Stop(p)
    PROVE  /\ proc' \in [Procs -> ProcRecord]
           /\ Goes(p, "down", "none")
           /\ proc'[p].keys = proc[p].keys
<1>1. proc \in [Procs -> ProcRecord]
    BY DEF TypeOK, ProcRecord, Places
<1> DEFINE new == [proc[p] EXCEPT !.pc = "down", !.file = "none"]
<1>2. new \in ProcRecord
    BY <1>1 DEF ProcRecord, Places
<1>3. proc' = [proc EXCEPT ![p] = new]
    BY DEF Stop
<1>4. /\ new.pc = "down"
      /\ new.file = "none"
      /\ new.run = proc[p].run
      /\ new.keys = proc[p].keys
    BY <1>1 DEF ProcRecord
<1> HIDE DEF new
<1>5. proc' \in [Procs -> ProcRecord] /\ proc'[p] = new /\ Others(p)
    BY <1>1, <1>2, <1>3 DEF Others
<1> QED
    BY <1>4, <1>5 DEF Goes

LEMMA OpenTmpDoes ==
    ASSUME TypeOK, Stages, NEW p \in Procs, OpenTmp(p)
    PROVE  /\ TypeOK'
           /\ Goes(p, "write", proc[p].file)
           /\ proc[p].file \in DirFiles
           /\ proc'[p].keys = proc[p].keys
           /\ proc'[p].fd = link'[Tmp(proc[p].file)]
           /\ link'[Tmp(proc[p].file)] \in Inodes
           /\ \/ link[Tmp(proc[p].file)] = Nothing
                   /\ link'[Tmp(proc[p].file)] = <<Run(p), proc[p].file>>
              \/ link[Tmp(proc[p].file)] # Nothing
                   /\ link'[Tmp(proc[p].file)] = link[Tmp(proc[p].file)]
           /\ \A n \in Names : n # Tmp(proc[p].file) => link'[n] = link[n]
           /\ data'[link'[Tmp(proc[p].file)]] = Nothing
           /\ \A i \in Inodes : i # link'[Tmp(proc[p].file)] => data'[i] = data[i]
<1> DEFINE f == proc[p].file
           inode == IF link[Tmp(f)] = Nothing THEN <<Run(p), f>> ELSE link[Tmp(f)]
           new == [proc[p] EXCEPT !.pc = "write", !.fd = inode]
<1>1. proc[p].pc = "open" /\ f \in DirFiles
    BY DEF OpenTmp, Stages, StageOf, Creating
<1>2. /\ link \in [Names -> Inodes \cup {Nothing}]
      /\ data \in [Inodes -> Runs \cup {Nothing}]
      /\ proc \in [Procs -> ProcRecord]
    BY DEF TypeOK, ProcRecord, Places
<1>3. <<Run(p), f>> \in Inodes
    BY <1>1, RunTyped
<1>4. Tmp(f) \in Names
    BY <1>1, Spelled
<1>5. inode \in Inodes
    BY <1>2, <1>3, <1>4
<1>6. new \in ProcRecord
    BY <1>2, <1>5 DEF ProcRecord, Places, Starting, Creating
<1>7. /\ link' = [link EXCEPT ![Tmp(f)] = inode]
      /\ data' = [data EXCEPT ![inode] = Nothing]
      /\ proc' = [proc EXCEPT ![p] = new]
    BY DEF OpenTmp
<1>8. /\ new.pc = "write"
      /\ new.file = f
      /\ new.run = proc[p].run
      /\ new.keys = proc[p].keys
      /\ new.fd = inode
    BY <1>2 DEF ProcRecord
<1>9. \/ link[Tmp(f)] = Nothing /\ inode = <<Run(p), f>>
      \/ link[Tmp(f)] # Nothing /\ inode = link[Tmp(f)]
    OBVIOUS
<1> HIDE DEF new, inode, f
<1>10. link' \in [Names -> Inodes \cup {Nothing}] /\ link'[Tmp(f)] = inode
    BY <1>2, <1>4, <1>5, <1>7
<1>11. \A n \in Names : n # Tmp(f) => link'[n] = link[n]
    BY <1>2, <1>7
<1>12. data' \in [Inodes -> Runs \cup {Nothing}] /\ data'[inode] = Nothing
    BY <1>2, <1>5, <1>7
<1>13. \A i \in Inodes : i # inode => data'[i] = data[i]
    BY <1>2, <1>7
<1>14. proc' \in [Procs -> ProcRecord] /\ proc'[p] = new /\ Others(p)
    BY <1>2, <1>6, <1>7 DEF Others
<1>15. TypeOK'
    BY <1>10, <1>12, <1>14 DEF TypeOK, ProcRecord, Places, OpenTmp
<1>16. Goes(p, "write", f)
    BY <1>8, <1>14 DEF Goes
<1>17. proc'[p].keys = proc[p].keys /\ proc'[p].fd = link'[Tmp(f)]
    BY <1>8, <1>10, <1>14
<1> QED
    BY <1>1, <1>5, <1>9, <1>10, <1>11, <1>12, <1>13, <1>15, <1>16, <1>17 DEF f

LEMMA WriteTmpDoes ==
    ASSUME TypeOK, Stages, NEW p \in Procs, WriteTmp(p)
    PROVE  /\ TypeOK'
           /\ Goes(p, "rename", proc[p].file)
           /\ proc[p].pc = "write"
           /\ proc[p].file \in DirFiles
           /\ proc'[p].keys = proc[p].keys
           /\ proc[p].fd \in Inodes
           /\ proc[p].fd[2] = proc[p].file
           /\ link' = link
           /\ data'[proc[p].fd] = Run(p)
           /\ \A i \in Inodes : i # proc[p].fd => data'[i] = data[i]
<1> DEFINE new == [proc[p] EXCEPT !.pc = "rename", !.fd = Nothing]
<1>1. proc[p].pc = "write" /\ proc[p].file \in DirFiles
    BY DEF WriteTmp, Stages, StageOf, Creating
<1>2. proc[p].fd \in Inodes /\ proc[p].fd[2] = proc[p].file
    BY <1>1 DEF Stages, StageOf
<1>3. /\ data \in [Inodes -> Runs \cup {Nothing}]
      /\ proc \in [Procs -> ProcRecord]
    BY DEF TypeOK, ProcRecord, Places
<1>4. Run(p) \in Runs
    BY <1>1, RunTyped
<1>5. data' \in [Inodes -> Runs \cup {Nothing}] /\ data'[proc[p].fd] = Run(p)
    BY <1>2, <1>3, <1>4 DEF WriteTmp
<1>6. \A i \in Inodes : i # proc[p].fd => data'[i] = data[i]
    BY <1>3 DEF WriteTmp
<1>7. new \in ProcRecord
    BY <1>3 DEF ProcRecord, Places, Starting, Creating
<1>8. proc' = [proc EXCEPT ![p] = new]
    BY DEF WriteTmp
<1>9. /\ new.pc = "rename"
      /\ new.file = proc[p].file
      /\ new.run = proc[p].run
      /\ new.keys = proc[p].keys
    BY <1>3 DEF ProcRecord
<1> HIDE DEF new
<1>10. proc' \in [Procs -> ProcRecord] /\ proc'[p] = new /\ Others(p)
    BY <1>3, <1>7, <1>8 DEF Others
<1>11. TypeOK'
    BY <1>5, <1>10 DEF TypeOK, ProcRecord, Places, WriteTmp
<1>12. link' = link
    BY DEF WriteTmp
<1> QED
    BY <1>1, <1>2, <1>5, <1>6, <1>9, <1>10, <1>11, <1>12 DEF Goes

\* Where Proceed leads from each of the three files.
ProceedsFrom(p, f, v) ==
    /\ f = "identity.key" =>
         /\ Goes(p, "read", "encryption.key")
         /\ proc'[p].keys["identity.key"] = v
         /\ proc'[p].keys["encryption.key"] = proc[p].keys["encryption.key"]
         /\ used' = used
    /\ f = "encryption.key" =>
         /\ p \in Serves => Goes(p, "open", "api.addr")
         /\ p \notin Serves => Goes(p, "up", "none")
         /\ proc'[p].keys["encryption.key"] = v
         /\ proc'[p].keys["identity.key"] = proc[p].keys["identity.key"]
         /\ used'["encryption.key"] = used["encryption.key"] \cup {v}
         /\ used'["identity.key"] = used["identity.key"] \cup {proc[p].keys["identity.key"]}
    /\ f = "api.addr" =>
         /\ Goes(p, "up", "none")
         /\ proc'[p].keys = proc[p].keys
         /\ used' = used

LEMMA ProceedDoes ==
    ASSUME TypeOK, Stages, NEW p \in Procs, NEW v \in Runs,
           proc[p].file \in DirFiles, Proceed(p, proc[p].file, v)
    PROVE  /\ proc' \in [Procs -> ProcRecord]
           /\ used' \in [KeyFiles -> SUBSET Runs]
           /\ ProceedsFrom(p, proc[p].file, v)
<1>0. /\ proc \in [Procs -> ProcRecord]
      /\ used \in [KeyFiles -> SUBSET Runs]
      /\ proc[p] \in ProcRecord
    BY DEF TypeOK, ProcRecord, Places
<1>k. /\ "identity.key" \in KeyFiles /\ "encryption.key" \in KeyFiles
      /\ \A g \in KeyFiles : g = "identity.key" \/ g = "encryption.key"
      /\ "identity.key" # "encryption.key"
    BY DEF KeyFiles
<1>1. CASE proc[p].file = "identity.key"
  <2> DEFINE new == [proc[p] EXCEPT !.pc = "read", !.file = "encryption.key",
                                    !.keys["identity.key"] = v]
  <2>1. proc' = [proc EXCEPT ![p] = new] /\ used' = used
      BY <1>1 DEF Proceed
  <2>2. new \in ProcRecord
      BY <1>0, <1>k DEF ProcRecord, Places, Starting, DirFiles
  <2>3. /\ new.pc = "read"
        /\ new.file = "encryption.key"
        /\ new.run = proc[p].run
      BY <1>0 DEF ProcRecord
  <2>4. /\ new.keys["identity.key"] = v
        /\ new.keys["encryption.key"] = proc[p].keys["encryption.key"]
      BY <1>0, <1>k DEF ProcRecord
  <2> HIDE DEF new
  <2>5. proc' \in [Procs -> ProcRecord] /\ proc'[p] = new /\ Others(p)
      BY <1>0, <2>1, <2>2 DEF Others
  <2>6. used' \in [KeyFiles -> SUBSET Runs]
      BY <1>0, <2>1
  <2>7. ProceedsFrom(p, proc[p].file, v)
      BY <1>1, <2>1, <2>3, <2>4, <2>5 DEF ProceedsFrom, Goes
  <2> QED
      BY <2>5, <2>6, <2>7
<1>2. CASE proc[p].file = "encryption.key"
  <2> DEFINE pc == IF p \in Serves THEN "open" ELSE "up"
             file == IF p \in Serves THEN "api.addr" ELSE "none"
             new == [proc[p] EXCEPT !.pc = pc, !.file = file, !.keys["encryption.key"] = v]
  <2>1. proc' = [proc EXCEPT ![p] = new]
      BY <1>2 DEF Proceed
  <2>2. used' = [g \in KeyFiles |->
                   used[g] \cup {IF g = "encryption.key" THEN v ELSE proc[p].keys[g]}]
      BY <1>2 DEF Proceed
  <2>3. proc[p].keys["identity.key"] \in Runs
    <3>1. proc[p].keys["identity.key"] # Nothing
        BY <1>2 DEF Stages, StageOf
    <3> QED
        BY <1>k, <3>1, Fields
  <2>4. pc \in Places /\ file \in DirFiles \cup {"none"}
      BY DEF Places, Starting, Creating, DirFiles
  <2>5. /\ p \in Serves => pc = "open" /\ file = "api.addr"
        /\ p \notin Serves => pc = "up" /\ file = "none"
      OBVIOUS
  <2> HIDE DEF pc, file
  <2>6. new \in ProcRecord
      BY <1>0, <1>k, <2>4 DEF ProcRecord
  <2>7. /\ new.pc = pc
        /\ new.file = file
        /\ new.run = proc[p].run
      BY <1>0 DEF ProcRecord
  <2>8. /\ new.keys["encryption.key"] = v
        /\ new.keys["identity.key"] = proc[p].keys["identity.key"]
      BY <1>0, <1>k DEF ProcRecord
  <2> HIDE DEF new
  <2>9. proc' \in [Procs -> ProcRecord] /\ proc'[p] = new /\ Others(p)
      BY <1>0, <2>1, <2>6 DEF Others
  <2>10. /\ used'["encryption.key"] = used["encryption.key"] \cup {v}
         /\ used'["identity.key"] = used["identity.key"] \cup {proc[p].keys["identity.key"]}
      BY <1>k, <2>2
  <2>11. used' \in [KeyFiles -> SUBSET Runs]
    <3>1. \A g \in KeyFiles :
             used[g] \cup {IF g = "encryption.key" THEN v ELSE proc[p].keys[g]} \in SUBSET Runs
        BY <1>0, <1>k, <2>3
    <3> QED
        BY <2>2, <3>1
  <2>12. ProceedsFrom(p, proc[p].file, v)
      BY <1>2, <2>5, <2>7, <2>8, <2>9, <2>10 DEF ProceedsFrom, Goes
  <2> QED
      BY <2>9, <2>11, <2>12
<1>3. CASE proc[p].file = "api.addr"
  <2> DEFINE new == [proc[p] EXCEPT !.pc = "up", !.file = "none"]
  <2>1. proc' = [proc EXCEPT ![p] = new] /\ used' = used
      BY <1>3 DEF Proceed
  <2>2. new \in ProcRecord
      BY <1>0 DEF ProcRecord, Places
  <2>3. /\ new.pc = "up"
        /\ new.file = "none"
        /\ new.run = proc[p].run
        /\ new.keys = proc[p].keys
      BY <1>0 DEF ProcRecord
  <2> HIDE DEF new
  <2>5. proc' \in [Procs -> ProcRecord] /\ proc'[p] = new /\ Others(p)
      BY <1>0, <2>1, <2>2 DEF Others
  <2>6. used' \in [KeyFiles -> SUBSET Runs]
      BY <1>0, <2>1
  <2>7. ProceedsFrom(p, proc[p].file, v)
      BY <1>3, <2>1, <2>3, <2>5 DEF ProceedsFrom, Goes
  <2> QED
      BY <2>5, <2>6, <2>7
<1> QED
    BY <1>1, <1>2, <1>3 DEF DirFiles, KeyFiles

LEMMA LoadKeyDoes ==
    ASSUME TypeOK, Stages, NEW p \in Procs, LoadKey(p)
    PROVE  /\ TypeOK'
           /\ proc[p].pc = "read"
           /\ proc[p].file \in KeyFiles
           /\ link' = link
           /\ data' = data
           /\ \/ /\ link[Path(proc[p].file)] = Nothing
                 /\ Goes(p, "open", proc[p].file)
                 /\ proc'[p].keys = proc[p].keys
                 /\ used' = used
              \/ /\ Goes(p, "down", "none")
                 /\ proc'[p].keys = proc[p].keys
                 /\ used' = used
              \/ /\ link[Path(proc[p].file)] # Nothing
                 /\ Contents(proc[p].file) \in Runs
                 /\ ProceedsFrom(p, proc[p].file, Contents(proc[p].file))
<1> DEFINE f == proc[p].file
<1>1. proc[p].pc = "read" /\ f \in KeyFiles /\ f \in DirFiles
    BY Spelled DEF LoadKey, Stages, StageOf
<1>2. link' = link /\ data' = data /\ client' = client /\ overlapped' = overlapped
    BY DEF LoadKey
<1>3. proc \in [Procs -> ProcRecord] /\ used \in [KeyFiles -> SUBSET Runs]
    BY DEF TypeOK, ProcRecord, Places
<1>4. ASSUME proc' \in [Procs -> ProcRecord], used' \in [KeyFiles -> SUBSET Runs]
      PROVE  TypeOK'
    BY <1>2, <1>4 DEF TypeOK, ProcRecord, Places
<1>5. CASE link[Path(f)] = Nothing
  <2> DEFINE new == [proc[p] EXCEPT !.pc = "open"]
  <2>1. proc' = [proc EXCEPT ![p] = new] /\ used' = used
      BY <1>5 DEF LoadKey
  <2>2. new \in ProcRecord
      BY <1>3 DEF ProcRecord, Places, Starting, Creating
  <2>3. /\ new.pc = "open"
        /\ new.file = f
        /\ new.run = proc[p].run
        /\ new.keys = proc[p].keys
      BY <1>3 DEF ProcRecord
  <2> HIDE DEF new
  <2>4. proc' \in [Procs -> ProcRecord] /\ proc'[p] = new /\ Others(p)
      BY <1>3, <2>1, <2>2 DEF Others
  <2>5. TypeOK'
      BY <1>3, <1>4, <2>1, <2>4
  <2> QED
      BY <1>1, <1>2, <1>5, <2>1, <2>3, <2>4, <2>5 DEF Goes
<1>6. CASE link[Path(f)] # Nothing /\ Contents(f) = Nothing
  <2>1. Stop(p) /\ used' = used
      BY <1>6 DEF LoadKey
  <2>2. TypeOK'
      BY <1>3, <1>4, <2>1, StopDoes
  <2> QED
      BY <1>1, <1>2, <2>1, <2>2, StopDoes
<1>7. CASE link[Path(f)] # Nothing /\ Contents(f) # Nothing
  <2>1. Proceed(p, f, Contents(f))
      BY <1>7 DEF LoadKey
  <2>2. Contents(f) \in Runs
      BY <1>1, <1>7, Spelled DEF TypeOK, Contents
  <2>3. /\ proc' \in [Procs -> ProcRecord]
        /\ used' \in [KeyFiles -> SUBSET Runs]
        /\ ProceedsFrom(p, f, Contents(f))
      BY <1>1, <2>1, <2>2, ProceedDoes
  <2>4. TypeOK'
      BY <1>4, <2>3
  <2> QED
      BY <1>1, <1>2, <1>7, <2>2, <2>3, <2>4
<1> QED
    BY <1>5, <1>6, <1>7

LEMMA RenameDoes ==
    ASSUME TypeOK, Stages, NEW p \in Procs, Rename(p)
    PROVE  /\ TypeOK'
           /\ proc[p].pc = "rename"
           /\ proc[p].file \in DirFiles
           /\ data' = data
           /\ \/ /\ link[Tmp(proc[p].file)] = Nothing
                 /\ link' = link
                 /\ used' = used
                 /\ Goes(p, "cleanup", proc[p].file)
                 /\ proc'[p].keys = proc[p].keys
              \/ /\ link[Tmp(proc[p].file)] # Nothing
                 /\ link'[Path(proc[p].file)] = link[Tmp(proc[p].file)]
                 /\ link'[Tmp(proc[p].file)] = Nothing
                 /\ \A n \in Names \ {Path(proc[p].file), Tmp(proc[p].file)} : link'[n] = link[n]
                 /\ ProceedsFrom(p, proc[p].file, Run(p))
<1> DEFINE f == proc[p].file
<1>1. proc[p].pc = "rename" /\ f \in DirFiles
    BY DEF Rename, Stages, StageOf, Creating
<1>2. data' = data /\ client' = client /\ overlapped' = overlapped
    BY DEF Rename
<1>3. /\ proc \in [Procs -> ProcRecord]
      /\ used \in [KeyFiles -> SUBSET Runs]
      /\ link \in [Names -> Inodes \cup {Nothing}]
    BY DEF TypeOK, ProcRecord, Places
<1>4. Path(f) \in Names /\ Tmp(f) \in Names /\ Path(f) # Tmp(f)
    BY <1>1, Spelled
<1>5. ASSUME proc' \in [Procs -> ProcRecord], used' \in [KeyFiles -> SUBSET Runs],
             link' \in [Names -> Inodes \cup {Nothing}]
      PROVE  TypeOK'
    BY <1>2, <1>5 DEF TypeOK, ProcRecord, Places
<1>6. CASE link[Tmp(f)] = Nothing
  <2> DEFINE new == [proc[p] EXCEPT !.pc = "cleanup"]
  <2>1. proc' = [proc EXCEPT ![p] = new] /\ link' = link /\ used' = used
      BY <1>6 DEF Rename
  <2>2. new \in ProcRecord
      BY <1>3 DEF ProcRecord, Places, Starting
  <2>3. /\ new.pc = "cleanup"
        /\ new.file = f
        /\ new.run = proc[p].run
        /\ new.keys = proc[p].keys
      BY <1>3 DEF ProcRecord
  <2> HIDE DEF new
  <2>4. proc' \in [Procs -> ProcRecord] /\ proc'[p] = new /\ Others(p)
      BY <1>3, <2>1, <2>2 DEF Others
  <2>5. TypeOK'
      BY <1>3, <1>5, <2>1, <2>4
  <2> QED
      BY <1>1, <1>2, <1>6, <2>1, <2>3, <2>4, <2>5 DEF Goes
<1>7. CASE link[Tmp(f)] # Nothing
  <2>1. /\ link' = [link EXCEPT ![Path(f)] = link[Tmp(f)], ![Tmp(f)] = Nothing]
        /\ Proceed(p, f, Run(p))
      BY <1>7 DEF Rename
  <2>2. Run(p) \in Runs
      BY <1>1, RunTyped
  <2>3. /\ proc' \in [Procs -> ProcRecord]
        /\ used' \in [KeyFiles -> SUBSET Runs]
        /\ ProceedsFrom(p, f, Run(p))
      BY <1>1, <2>1, <2>2, ProceedDoes
  <2> HIDE DEF f
  <2>4. link' \in [Names -> Inodes \cup {Nothing}]
      BY <1>3, <1>4, <2>1
  <2>5. /\ link'[Path(f)] = link[Tmp(f)]
        /\ link'[Tmp(f)] = Nothing
        /\ \A n \in Names \ {Path(f), Tmp(f)} : link'[n] = link[n]
      BY <1>3, <1>4, <2>1
  <2>6. TypeOK'
      BY <1>5, <2>3, <2>4
  <2> QED
      BY <1>1, <1>2, <1>7, <2>3, <2>5, <2>6 DEF f
<1> QED
    BY <1>6, <1>7

LEMMA CleanupDoes ==
    ASSUME TypeOK, Stages, NEW p \in Procs, Cleanup(p)
    PROVE  /\ TypeOK'
           /\ Goes(p, "down", "none")
           /\ proc'[p].keys = proc[p].keys
           /\ data' = data
           /\ proc[p].pc = "cleanup"
           /\ proc[p].file \in DirFiles
           /\ link'[Tmp(proc[p].file)] = Nothing
           /\ \A n \in Names \ {Tmp(proc[p].file)} : link'[n] = link[n]
<1> DEFINE f == proc[p].file
<1>1. proc[p].pc = "cleanup" /\ f \in DirFiles
    BY DEF Cleanup, Stages, StageOf
<1>2. Stop(p) /\ link' = [link EXCEPT ![Tmp(f)] = Nothing]
    BY DEF Cleanup
<1>3. /\ proc' \in [Procs -> ProcRecord]
      /\ Goes(p, "down", "none")
      /\ proc'[p].keys = proc[p].keys
    BY <1>2, StopDoes
<1>4. link \in [Names -> Inodes \cup {Nothing}] /\ Tmp(f) \in Names
    BY <1>1, Spelled DEF TypeOK
<1>5. link' \in [Names -> Inodes \cup {Nothing}]
    BY <1>2, <1>4
<1>6. link'[Tmp(f)] = Nothing /\ \A n \in Names \ {Tmp(f)} : link'[n] = link[n]
    BY <1>2, <1>4
<1>7. TypeOK'
    BY <1>3, <1>5 DEF TypeOK, ProcRecord, Places, Cleanup
<1> QED
    BY <1>1, <1>3, <1>6, <1>7 DEF Cleanup

LEMMA CloseDoes ==
    ASSUME TypeOK, Stages, NEW p \in Procs, Close(p)
    PROVE  /\ TypeOK'
           /\ proc[p].pc = "up"
           /\ proc'[p].keys = proc[p].keys
           /\ data' = data
           /\ p \in Serves => /\ Goes(p, "closing", "none")
                              /\ link'[Path("api.addr")] = Nothing
           /\ p \notin Serves => Goes(p, "down", "none") /\ link' = link
           /\ \A n \in Names \ {Path("api.addr")} : link'[n] = link[n]
<1>1. proc[p].pc = "up" /\ proc[p].file = "none"
    BY DEF Close, Stages, StageOf
<1>2. /\ proc \in [Procs -> ProcRecord]
      /\ link \in [Names -> Inodes \cup {Nothing}]
      /\ Path("api.addr") \in Names
    BY Spelled DEF TypeOK, ProcRecord, Places
<1>3. ASSUME proc' \in [Procs -> ProcRecord], link' \in [Names -> Inodes \cup {Nothing}]
      PROVE  TypeOK'
    BY <1>3 DEF TypeOK, ProcRecord, Places, Close
<1>4. CASE p \in Serves
  <2> DEFINE new == [proc[p] EXCEPT !.pc = "closing"]
  <2>1. /\ proc' = [proc EXCEPT ![p] = new]
        /\ link' = [link EXCEPT ![Path("api.addr")] = Nothing]
      BY <1>4 DEF Close
  <2>2. new \in ProcRecord
      BY <1>2 DEF ProcRecord, Places
  <2>3. /\ new.pc = "closing"
        /\ new.file = "none"
        /\ new.run = proc[p].run
        /\ new.keys = proc[p].keys
      BY <1>1, <1>2 DEF ProcRecord
  <2> HIDE DEF new
  <2>4. proc' \in [Procs -> ProcRecord] /\ proc'[p] = new /\ Others(p)
      BY <1>2, <2>1, <2>2 DEF Others
  <2>5. /\ link' \in [Names -> Inodes \cup {Nothing}]
        /\ link'[Path("api.addr")] = Nothing
        /\ \A n \in Names \ {Path("api.addr")} : link'[n] = link[n]
      BY <1>2, <2>1
  <2>6. TypeOK'
      BY <1>3, <2>4, <2>5
  <2> QED
      BY <1>1, <1>4, <2>3, <2>4, <2>5, <2>6 DEF Close, Goes
<1>5. CASE p \notin Serves
  <2>1. Stop(p) /\ link' = link
      BY <1>5 DEF Close
  <2>2. /\ proc' \in [Procs -> ProcRecord]
        /\ Goes(p, "down", "none")
        /\ proc'[p].keys = proc[p].keys
      BY <2>1, StopDoes
  <2>3. TypeOK'
      BY <1>2, <1>3, <2>1, <2>2
  <2> QED
      BY <1>1, <1>5, <2>1, <2>2, <2>3 DEF Close
<1> QED
    BY <1>4, <1>5

\* A process that ends without touching a file: Shutdown, Kill.
LEMMA EndDoes ==
    ASSUME TypeOK, Stages, NEW p \in Procs, Shutdown(p) \/ Kill(p)
    PROVE  /\ TypeOK'
           /\ Goes(p, "down", "none")
           /\ proc'[p].keys = proc[p].keys
           /\ UNCHANGED <<link, data, used, overlapped>>
<1>1. Stop(p) /\ UNCHANGED <<link, data, client, used, overlapped>>
    BY DEF Shutdown, Kill
<1>2. /\ proc' \in [Procs -> ProcRecord]
      /\ Goes(p, "down", "none")
      /\ proc'[p].keys = proc[p].keys
    BY <1>1, StopDoes
<1>3. TypeOK'
    BY <1>1, <1>2 DEF TypeOK, ProcRecord, Places
<1> QED
    BY <1>1, <1>2, <1>3

ClientRecord == [pc : {"idle", "absent", "dial", "served", "refused"}, addr : Runs \cup {Nothing}]

LEMMA ClientDoes ==
    ASSUME TypeOK, NEW q \in Dialers, ReadAddr(q) \/ Dial(q) \/ Done(q)
    PROVE  /\ TypeOK'
           /\ UNCHANGED <<link, data, proc, used, overlapped>>
<1>1. UNCHANGED <<link, data, proc, used, overlapped>>
    BY DEF ReadAddr, Dial, Done
<1>2. client \in [Dialers -> ClientRecord]
    BY DEF TypeOK, ClientRecord
<1>3. ReadAddr(q) => client' \in [Dialers -> ClientRecord]
  <2> SUFFICES ASSUME ReadAddr(q)
               PROVE  client' \in [Dialers -> ClientRecord]
      OBVIOUS
  <2>1. CASE link[Path("api.addr")] = Nothing
    <3>1. client' = [client EXCEPT ![q] = [pc |-> "absent", addr |-> Nothing]]
        BY <2>1 DEF ReadAddr
    <3> QED
        BY <1>2, <3>1 DEF ClientRecord
  <2>2. CASE link[Path("api.addr")] # Nothing
    <3>1. client' = [client EXCEPT ![q] = [pc |-> "dial", addr |-> Contents("api.addr")]]
        BY <2>2 DEF ReadAddr
    <3>2. Contents("api.addr") \in Runs \cup {Nothing}
        BY <2>2, Spelled DEF TypeOK, Contents
    <3> QED
        BY <1>2, <3>1, <3>2 DEF ClientRecord
  <2> QED
      BY <2>1, <2>2
<1>4. Dial(q) => client' \in [Dialers -> ClientRecord]
  <2> SUFFICES ASSUME Dial(q)
               PROVE  client' \in [Dialers -> ClientRecord]
      OBVIOUS
  <2>1. \/ client' = [client EXCEPT ![q].pc = "served"]
        \/ client' = [client EXCEPT ![q].pc = "refused"]
      BY DEF Dial
  <2> QED
      BY <1>2, <2>1 DEF ClientRecord
<1>5. Done(q) => client' \in [Dialers -> ClientRecord]
    BY <1>2 DEF Done, ClientRecord
<1>6. client' \in [Dialers -> ClientRecord]
    BY <1>3, <1>4, <1>5
<1>7. TypeOK'
    BY <1>1, <1>6 DEF TypeOK, ClientRecord
<1> QED
    BY <1>1, <1>7

-----------------------------------------------------------------------------
(* What carries each part of the invariant over a step of process p.       *)
(***************************************************************************)
LEMMA StagesKept ==
    ASSUME Stages, NEW p \in Procs, Others(p), StageOf(p)'
    PROVE  Stages'
<1> SUFFICES ASSUME NEW q \in Procs, q # p
             PROVE  StageOf(q)'
    BY DEF Stages
<1>1. StageOf(q) /\ proc'[q] = proc[q]
    BY DEF Stages, Others
<1> QED
    BY <1>1 DEF StageOf

LEMMA OneStarterKept ==
    ASSUME OneStarter, NEW p \in Procs, Others(p), overlapped' = overlapped,
           proc'[p].pc \in Starting => proc[p].pc \in Starting
    PROVE  OneStarter'
BY DEF OneStarter, Others

\* Within a run, what is past stays past.
LEMMA PastKept ==
    ASSUME TypeOK, Stages, NEW p \in Procs, NEW pc, NEW file, Goes(p, pc, file),
           \/ pc \in {"down", "up", "closing"}
           \/ file = proc[p].file /\ (proc[p].pc \in {"write", "rename", "cleanup"}
                                        => pc \in {"write", "rename", "cleanup"})
           \/ proc[p].file = "identity.key" /\ file = "encryption.key"
           \/ proc[p].file = "encryption.key" /\ file = "api.addr",
           proc[p].pc \in Starting \/ pc \in {"down", "up", "closing"}
    PROVE  \A q \in Procs, f \in DirFiles :
             /\ proc'[q].run = proc[q].run
             /\ Past(q, f) => Past(q, f)'
<1> SUFFICES ASSUME NEW q \in Procs, NEW f \in DirFiles
             PROVE  /\ proc'[q].run = proc[q].run
                    /\ Past(q, f) => Past(q, f)'
    OBVIOUS
<1>1. CASE q # p
    BY <1>1 DEF Goes, Others, Past
<1>2. CASE q = p
  <2>1. proc'[q].pc = pc /\ proc'[q].file = file /\ proc'[q].run = proc[q].run
      BY <1>2 DEF Goes
  <2> QED
      BY <1>2, <2>1 DEF Past, Starting, Creating, DirFiles, KeyFiles
<1> QED
    BY <1>1, <1>2

LEMMA UnbornKept ==
    ASSUME Unborn,
           \A q \in Procs, f \in DirFiles :
             /\ proc'[q].run = proc[q].run
             /\ Past(q, f) => Past(q, f)',
           \A n \in Names : \/ \E m \in Names : link'[n] = link[m]
                            \/ link'[n] = Nothing
    PROVE  Unborn'
<1> SUFFICES ASSUME NEW q \in Procs, NEW r \in 1 .. MaxRuns, NEW f \in DirFiles, NEW n \in Names,
                    link'[n] = <<<<q, r>>, f>>
             PROVE  r < proc'[q].run \/ (r = proc'[q].run /\ Past(q, f)')
    BY DEF Unborn
<1>1. <<<<q, r>>, f>> \in Inodes
    BY DEF Inodes, Runs
<1>2. PICK m \in Names : link[m] = <<<<q, r>>, f>>
    BY <1>1, Spelled, ZenonT(60)
<1>3. r < proc[q].run \/ (r = proc[q].run /\ Past(q, f))
    BY <1>2 DEF Unborn
<1> QED
    BY <1>3

LEMMA UnpublishedKept ==
    ASSUME Unpublished, NEW p \in Procs, Others(p), proc'[p].run = proc[p].run,
           Published(p) => Published(p)',
           \A i \in Inodes : data'[i] = data[i] \/ data'[i] = Nothing,
           Nothing \notin Runs
    PROVE  Unpublished'
<1> SUFFICES ASSUME NEW q \in Procs, NEW r \in 1 .. MaxRuns, NEW i \in Inodes,
                    data'[i] = <<q, r>>
             PROVE  r < proc'[q].run \/ (r = proc'[q].run /\ (i[2] = "api.addr" => Published(q)'))
    BY DEF Unpublished
<1>1. <<q, r>> \in Runs
    BY DEF Runs
<1>2. data[i] = <<q, r>>
    BY <1>1
<1>3. r < proc[q].run \/ (r = proc[q].run /\ (i[2] = "api.addr" => Published(q)))
    BY <1>2 DEF Unpublished
<1>4. proc'[q].run = proc[q].run /\ (Published(q) => Published(q)')
    BY DEF Others, Published
<1> QED
    BY <1>3, <1>4

\* Two processes that write, one of them undisturbed, write different files.
LEMMA Elsewhere ==
    ASSUME Stages, OneStarter, NEW p \in Procs, NEW q \in Procs, p # q, Private(q),
           proc[p].pc \in Starting, proc[q].pc \in Starting
    PROVE  proc[p].file # proc[q].file
BY DEF OneStarter, Private, OneServe, Stages, StageOf

\* A step of p leaves what q has under way alone when it leaves q's file alone.
LEMMA SiblingKept ==
    ASSUME SiblingHeld, NEW p \in Procs, Others(p), ~overlapped' => ~overlapped,
           Private(p)' => SiblingOf(p)',
           \A q \in Procs : q # p /\ Private(q) /\ proc[q].pc \in {"write", "rename"} =>
               /\ link'[Tmp(proc[q].file)] = link[Tmp(proc[q].file)]
               /\ data'[link[Tmp(proc[q].file)]] = data[link[Tmp(proc[q].file)]]
    PROVE  SiblingHeld'
<1> SUFFICES ASSUME NEW q \in Procs, q # p, Private(q)'
             PROVE  SiblingOf(q)'
    BY DEF SiblingHeld
<1>1. proc'[q] = proc[q]
    BY DEF Others
<1>2. Private(q)
    BY <1>1 DEF Private
<1>3. SiblingOf(q)
    BY <1>2 DEF SiblingHeld
<1>4. proc[q].pc \in {"write", "rename"} =>
               /\ link'[Tmp(proc[q].file)] = link[Tmp(proc[q].file)]
               /\ data'[link[Tmp(proc[q].file)]] = data[link[Tmp(proc[q].file)]]
    BY <1>2
<1> QED
    BY <1>1, <1>3, <1>4 DEF SiblingOf, Run

\* The step leaves the files of F under their own names.
PathsKept(F) ==
    \A f \in F : /\ link'[Path(f)] = link[Path(f)]
                 /\ link[Path(f)] # Nothing => data'[link[Path(f)]] = data[link[Path(f)]]

LEMMA KeyOfKept ==
    ASSUME NEW f, NEW v, PathsKept({f}), KeyOf(f, v)
    PROVE  KeyOf(f, v)'
BY DEF PathsKept, KeyOf, Contents

LEMMA NeverHalfKept ==
    ASSUME NeverHalfWritten, PathsKept(DirFiles), ~overlapped' => ~overlapped
    PROVE  NeverHalfWritten'
BY DEF NeverHalfWritten, PathsKept, Contents

LEMMA KeysAgreeKept ==
    ASSUME KeysAgree, NEW p \in Procs, Others(p), ~overlapped' => ~overlapped,
           ~overlapped => PathsKept(KeyFiles), used' = used,
           \A f \in KeyFiles : proc'[p].keys[f] \in {Nothing, proc[p].keys[f]},
           proc'[p].pc \in Creating /\ proc'[p].file \in KeyFiles =>
               \/ link[Path(proc'[p].file)] = Nothing
               \/ proc[p].pc \in Creating /\ proc[p].file = proc'[p].file
    PROVE  KeysAgree'
<1> SUFFICES ASSUME ~overlapped', NEW f \in KeyFiles
             PROVE  /\ \A v \in used'[f] : KeyOf(f, v)'
                    /\ \A q \in Procs : proc'[q].keys[f] # Nothing => KeyOf(f, proc[q].keys[f])'
                    /\ \A q \in Procs : proc'[q].file = f /\ proc'[q].pc \in Creating =>
                           link'[Path(f)] = Nothing
    BY DEF KeysAgree
<1>1. /\ \A v \in used[f] : KeyOf(f, v)
      /\ \A q \in Procs : proc[q].keys[f] # Nothing => KeyOf(f, proc[q].keys[f])
      /\ \A q \in Procs : proc[q].file = f /\ proc[q].pc \in Creating => link[Path(f)] = Nothing
    BY DEF KeysAgree
<1>2. PathsKept({f})
    BY DEF PathsKept
<1>3. \A v \in used'[f] : KeyOf(f, v)'
    BY <1>1, <1>2, KeyOfKept
<1>4. ASSUME NEW q \in Procs, proc'[q].keys[f] # Nothing
      PROVE  KeyOf(f, proc[q].keys[f])'
  <2>1. proc'[q].keys[f] = proc[q].keys[f]
      BY <1>4 DEF Others
  <2>2. KeyOf(f, proc[q].keys[f])
      BY <1>1, <1>4, <2>1
  <2> QED
      BY <1>2, <2>1, <2>2 DEF KeyOf, Contents, PathsKept
<1>5. ASSUME NEW q \in Procs, proc'[q].file = f, proc'[q].pc \in Creating
      PROVE  link'[Path(f)] = Nothing
  <2>1. link[Path(f)] = Nothing
      BY <1>1, <1>5 DEF Others
  <2> QED
      BY <1>2, <2>1 DEF PathsKept
<1> QED
    BY <1>3, <1>4, <1>5

LEMMA AddressKept ==
    ASSUME AddressStands, NEW p \in Procs, Others(p), OneServe => PathsKept({"api.addr"}),
           proc'[p].pc \notin {"up", "closing"} \/ p \notin Serves
    PROVE  AddressStands'
<1> SUFFICES ASSUME OneServe, NEW q \in Serves
             PROVE  AddressOf(q)'
    BY DEF AddressStands, OneServe
<1>1. AddressOf(q)
    BY DEF AddressStands
<1>2. CASE q = p
    BY <1>2 DEF AddressOf
<1>3. CASE q # p
  <2>1. proc'[q] = proc[q]
      BY <1>3 DEF Others, Procs
  <2> QED
      BY <1>1, <2>1 DEF AddressOf, KeyOf, Contents, PathsKept, Run
<1> QED
    BY <1>2, <1>3

\* A step that leaves every name and inode alone keeps them as they are.
LEMMA FilesKept ==
    ASSUME OwnFile, ApartNames, link' = link, data' = data
    PROVE  OwnFile' /\ ApartNames' /\ \A F : PathsKept(F)
BY DEF OwnFile, ApartNames, PathsKept

-----------------------------------------------------------------------------
(* Each action keeps the invariant.                                        *)
(***************************************************************************)
LEMMA StartKeeps ==
    ASSUME DirInv, NEW p \in Procs, Start(p)
    PROVE  DirInv'
<1>1. /\ TypeOK /\ Stages /\ OwnFile /\ ApartNames /\ Unborn /\ Unpublished /\ OneStarter
      /\ SiblingHeld /\ NeverHalfWritten /\ KeysAgree /\ AddressStands
    BY DEF DirInv
<1>2. /\ TypeOK'
      /\ Others(p)
      /\ proc[p].pc = "down"
      /\ proc'[p].pc = "read"
      /\ proc'[p].file = "identity.key"
      /\ proc'[p].run = proc[p].run + 1
      /\ proc'[p].keys = NoKeys
    BY <1>1, StartDoes
<1>3. link' = link /\ data' = data /\ used' = used
    BY DEF Start
<1>4. ~overlapped' => ~overlapped /\ \A q \in Procs : proc[q].pc \notin Starting
    BY DEF Start
<1>5. OwnFile' /\ ApartNames' /\ \A F : PathsKept(F)
    BY <1>1, <1>3, FilesKept
<1>6. Stages'
  <2>1. proc[p].run \in 0 .. MaxRuns /\ proc'[p].run \in 0 .. MaxRuns
      BY <1>1, <1>2, Fields DEF TypeOK
  <2>2. StageOf(p)'
      BY <1>2, <2>1, Spelled DEF StageOf, Creating, KeyFiles
  <2> QED
      BY <1>1, <1>2, <2>2, StagesKept
<1>7. proc[p].run \in Nat
    BY <1>1, Fields, Spelled
<1>8. Unborn'
  <2> SUFFICES ASSUME NEW q \in Procs, NEW r \in 1 .. MaxRuns, NEW f \in DirFiles,
                      NEW n \in Names, link'[n] = <<<<q, r>>, f>>
               PROVE  r < proc'[q].run \/ (r = proc'[q].run /\ Past(q, f)')
      BY DEF Unborn
  <2>1. r < proc[q].run \/ (r = proc[q].run /\ Past(q, f))
      BY <1>1, <1>3 DEF Unborn
  <2>2. CASE q = p
      BY <1>2, <1>7, <2>1, <2>2
  <2>3. CASE q # p
      BY <1>2, <2>1, <2>3 DEF Others, Past
  <2> QED
      BY <2>2, <2>3
<1>9. Unpublished'
  <2> SUFFICES ASSUME NEW q \in Procs, NEW r \in 1 .. MaxRuns, NEW i \in Inodes,
                      data'[i] = <<q, r>>
               PROVE  r < proc'[q].run
                        \/ (r = proc'[q].run /\ (i[2] = "api.addr" => Published(q)'))
      BY DEF Unpublished
  <2>1. r < proc[q].run \/ (r = proc[q].run /\ (i[2] = "api.addr" => Published(q)))
      BY <1>1, <1>3 DEF Unpublished
  <2>2. CASE q = p
      BY <1>2, <1>7, <2>1, <2>2
  <2>3. CASE q # p
      BY <1>2, <2>1, <2>3 DEF Others, Published
  <2> QED
      BY <2>2, <2>3
<1>10. OneStarter'
    BY <1>2, <1>4 DEF OneStarter, Others
<1>11. SiblingHeld'
  <2>1. SiblingOf(p)'
      BY <1>2 DEF SiblingOf
  <2> QED
      BY <1>1, <1>2, <1>3, <1>4, <2>1, SiblingKept
<1>12. NeverHalfWritten'
    BY <1>1, <1>4, <1>5, NeverHalfKept
<1>13. KeysAgree'
  <2>1. \A f \in KeyFiles : proc'[p].keys[f] \in {Nothing, proc[p].keys[f]}
      BY <1>2 DEF NoKeys
  <2>2. proc'[p].pc \notin Creating
      BY <1>2 DEF Creating
  <2> QED
      BY <1>1, <1>2, <1>3, <1>4, <1>5, <2>1, <2>2, KeysAgreeKept
<1>14. AddressStands'
    BY <1>1, <1>2, <1>5, AddressKept
<1> QED
    BY <1>2, <1>5, <1>6, <1>8, <1>9, <1>10, <1>11, <1>12, <1>13, <1>14 DEF DirInv

\* A process that ends, whatever it was doing.
LEMMA EndKeeps ==
    ASSUME DirInv, NEW p \in Procs, Shutdown(p) \/ Kill(p)
    PROVE  DirInv'
<1>1. /\ TypeOK /\ Stages /\ OwnFile /\ ApartNames /\ Unborn /\ Unpublished /\ OneStarter
      /\ SiblingHeld /\ NeverHalfWritten /\ KeysAgree /\ AddressStands
    BY DEF DirInv
<1>2. /\ TypeOK'
      /\ Goes(p, "down", "none")
      /\ proc'[p].keys = proc[p].keys
      /\ UNCHANGED <<link, data, used, overlapped>>
    BY <1>1, EndDoes
<1>3. /\ Others(p)
      /\ proc'[p].pc = "down"
      /\ proc'[p].file = "none"
      /\ proc'[p].run = proc[p].run
    BY <1>2 DEF Goes
<1>4. link' = link /\ data' = data /\ used' = used /\ overlapped' = overlapped
    BY <1>2
<1>5. OwnFile' /\ ApartNames' /\ \A F : PathsKept(F)
    BY <1>1, <1>4, FilesKept
<1>6. Stages'
  <2>1. StageOf(p)'
      BY <1>3 DEF StageOf, Creating, KeyFiles
  <2> QED
      BY <1>1, <1>3, <2>1, StagesKept
<1>7. Unborn'
  <2>1. \A q \in Procs, f \in DirFiles :
          /\ proc'[q].run = proc[q].run
          /\ Past(q, f) => Past(q, f)'
      BY <1>1, <1>2, PastKept
  <2> QED
      BY <1>1, <1>4, <2>1, UnbornKept
<1>8. Unpublished'
  <2>1. Published(p)'
      BY <1>3 DEF Published
  <2> QED
      BY <1>1, <1>3, <1>4, <2>1, Spelled, UnpublishedKept
<1>9. OneStarter'
  <2>1. proc'[p].pc \notin Starting
      BY <1>3 DEF Starting, Creating
  <2> QED
      BY <1>1, <1>3, <1>4, <2>1, OneStarterKept
<1>10. SiblingHeld'
  <2>1. SiblingOf(p)'
      BY <1>3 DEF SiblingOf
  <2> QED
      BY <1>1, <1>3, <1>4, <2>1, SiblingKept
<1>11. NeverHalfWritten'
    BY <1>1, <1>4, <1>5, NeverHalfKept
<1>12. KeysAgree'
  <2>1. proc'[p].pc \notin Creating
      BY <1>3 DEF Creating
  <2> QED
      BY <1>1, <1>2, <1>3, <1>4, <1>5, <2>1, KeysAgreeKept
<1>13. AddressStands'
    BY <1>1, <1>3, <1>5, AddressKept
<1> QED
    BY <1>2, <1>5, <1>6, <1>7, <1>8, <1>9, <1>10, <1>11, <1>12, <1>13 DEF DirInv

\* The sibling OpenTmp truncates is never what the file's own name leads to.
LEMMA OpenKeepsPaths ==
    ASSUME DirInv, NEW p \in Procs, OpenTmp(p)
    PROVE  PathsKept(DirFiles)
<1> DEFINE f == proc[p].file
           inode == link'[Tmp(f)]
<1>1. TypeOK /\ Stages /\ OwnFile /\ ApartNames /\ Unborn
    BY DEF DirInv
<1>2. /\ f \in DirFiles
      /\ \/ link[Tmp(f)] = Nothing /\ inode = <<Run(p), f>>
         \/ link[Tmp(f)] # Nothing /\ inode = link[Tmp(f)]
      /\ \A n \in Names : n # Tmp(f) => link'[n] = link[n]
      /\ \A i \in Inodes : i # inode => data'[i] = data[i]
    BY <1>1, OpenTmpDoes
<1>3. proc[p].pc = "open"
    BY DEF OpenTmp
<1>4. proc[p].run \in 1 .. MaxRuns
    BY <1>1, <1>3, RunTyped
<1> HIDE DEF inode
<1> SUFFICES ASSUME NEW g \in DirFiles
             PROVE  /\ link'[Path(g)] = link[Path(g)]
                    /\ link[Path(g)] # Nothing => data'[link[Path(g)]] = data[link[Path(g)]]
    BY DEF PathsKept
<1>5. Path(g) \in Names /\ Path(g) # Tmp(f) /\ Path(g)[1] = g /\ Tmp(f)[1] = f /\ Tmp(f) \in Names
    BY <1>2, Spelled
<1>6. ASSUME link[Path(g)] # Nothing
      PROVE  link[Path(g)] # inode
  <2>1. link[Path(g)] # <<Run(p), f>>
    <3>1. SUFFICES ASSUME link[Path(g)] = <<<<p, proc[p].run>>, f>>
                   PROVE  FALSE
        BY DEF Run
    <3>2. proc[p].run < proc[p].run \/ Past(p, f)
        BY <1>1, <1>2, <1>4, <1>5, <3>1 DEF Unborn
    <3>3. ~Past(p, f)
        BY <1>2, <1>3 DEF Past
    <3> QED
        BY <1>4, <3>2, <3>3
  <2>2. link[Tmp(f)] # Nothing => link[Path(g)] # link[Tmp(f)]
    <3>1. link[Path(g)][2] = g
        BY <1>1, <1>5, <1>6 DEF OwnFile
    <3>2. link[Tmp(f)] # Nothing => link[Tmp(f)][2] = f
        BY <1>1, <1>5 DEF OwnFile
    <3>3. CASE f = g
        BY <1>1, <1>2, <1>6, <3>3 DEF ApartNames
    <3> QED
        BY <3>1, <3>2, <3>3
  <2> QED
      BY <1>2, <2>1, <2>2
<1>7. link[Path(g)] # Nothing => link[Path(g)] \in Inodes
    BY <1>1, <1>5 DEF TypeOK
<1> QED
    BY <1>2, <1>5, <1>6, <1>7

LEMMA OpenTmpKeeps ==
    ASSUME DirInv, NEW p \in Procs, OpenTmp(p)
    PROVE  DirInv'
<1> DEFINE f == proc[p].file
<1>1. /\ TypeOK /\ Stages /\ OwnFile /\ ApartNames /\ Unborn /\ Unpublished /\ OneStarter
      /\ SiblingHeld /\ NeverHalfWritten /\ KeysAgree /\ AddressStands
    BY DEF DirInv
<1>2. /\ TypeOK'
      /\ Goes(p, "write", f)
      /\ f \in DirFiles
      /\ proc'[p].keys = proc[p].keys
      /\ proc'[p].fd = link'[Tmp(f)]
      /\ link'[Tmp(f)] \in Inodes
      /\ \/ link[Tmp(f)] = Nothing /\ link'[Tmp(f)] = <<Run(p), f>>
         \/ link[Tmp(f)] # Nothing /\ link'[Tmp(f)] = link[Tmp(f)]
      /\ \A n \in Names : n # Tmp(f) => link'[n] = link[n]
      /\ data'[link'[Tmp(f)]] = Nothing
      /\ \A i \in Inodes : i # link'[Tmp(f)] => data'[i] = data[i]
    BY <1>1, OpenTmpDoes
<1>3. proc[p].pc = "open" /\ used' = used /\ overlapped' = overlapped
    BY DEF OpenTmp
<1>4. /\ Others(p)
      /\ proc'[p].pc = "write"
      /\ proc'[p].file = f
      /\ proc'[p].run = proc[p].run
    BY <1>2 DEF Goes
<1>5. PathsKept(DirFiles)
    BY OpenKeepsPaths
<1>6. PathsKept(KeyFiles) /\ PathsKept({"api.addr"})
    BY <1>5, Spelled DEF PathsKept
<1>7. Tmp(f) \in Names /\ Tmp(f)[1] = f
    BY <1>2, Spelled
<1> HIDE DEF f
<1>8. link'[Tmp(f)][2] = f
    BY <1>1, <1>2, <1>7 DEF OwnFile
<1>9. OwnFile'
    BY <1>1, <1>2, <1>7, <1>8 DEF OwnFile
<1>10. ApartNames'
  <2> SUFFICES ASSUME NEW g \in DirFiles, link'[Path(g)] # Nothing
               PROVE  link'[Path(g)] # link'[Tmp(g)]
      BY DEF ApartNames
  <2>1. link'[Path(g)] = link[Path(g)] /\ link[Path(g)] # Nothing
      BY <1>5 DEF PathsKept
  <2>2. CASE g # f
    <3>1. link'[Tmp(g)] = link[Tmp(g)]
        BY <1>2, <2>2, Spelled
    <3> QED
        BY <1>1, <2>1, <3>1 DEF ApartNames
  <2>3. CASE g = f /\ link[Tmp(f)] # Nothing
      BY <1>1, <1>2, <2>1, <2>3 DEF ApartNames
  <2>4. CASE g = f /\ link[Tmp(f)] = Nothing
    <3>1. link'[Tmp(f)] = <<<<p, proc[p].run>>, f>>
        BY <1>2, <2>4 DEF Run
    <3>2. proc[p].run \in 1 .. MaxRuns
        BY <1>1, <1>3, RunTyped
    <3>3. ~Past(p, f)
        BY <1>2, <1>3 DEF Past, f
    <3>4. link[Path(f)] # <<<<p, proc[p].run>>, f>>
        BY <1>1, <1>2, <3>2, <3>3, Spelled DEF Unborn
    <3> QED
        BY <2>1, <2>4, <3>1, <3>4
  <2> QED
      BY <2>2, <2>3, <2>4
<1>11. Stages'
  <2>1. StageOf(p)
      BY <1>1 DEF Stages
  <2>2. proc[p].run \in 1 .. MaxRuns
      BY <1>1, <1>3, RunTyped
  <2>3. f # "none"
      BY <1>2, Spelled
  <2>4. StageOf(p)'
      BY <1>2, <1>3, <1>4, <1>8, <2>1, <2>2, <2>3 DEF StageOf, f
  <2> QED
      BY <1>1, <1>4, <2>4, StagesKept
<1>12. Unborn'
  <2> SUFFICES ASSUME NEW q \in Procs, NEW r \in 1 .. MaxRuns, NEW g \in DirFiles,
                      NEW n \in Names, link'[n] = <<<<q, r>>, g>>
               PROVE  r < proc'[q].run \/ (r = proc'[q].run /\ Past(q, g)')
      BY DEF Unborn
  <2>1. proc[p].pc \in Starting
      BY <1>3 DEF Starting, Creating
  <2>2. proc'[q].run = proc[q].run /\ (Past(q, g) => Past(q, g)')
      BY <1>1, <1>2, <1>3, <2>1, PastKept DEF f
  <2>3. CASE link'[n] = link[n]
      BY <1>1, <2>2, <2>3 DEF Unborn
  <2>4. CASE link'[n] # link[n]
    <3>1. <<<<q, r>>, g>> = <<<<p, proc[p].run>>, f>>
        BY <1>2, <2>4 DEF Run
    <3>2. q = p /\ r = proc[p].run /\ g = f
        BY <3>1
    <3>3. Past(p, g)'
        BY <1>4, <3>2 DEF Past
    <3> QED
        BY <2>2, <3>2, <3>3
  <2> QED
      BY <2>3, <2>4
<1>13. Unpublished'
  <2>1. ~Published(p)
      BY <1>3 DEF Published
  <2> QED
      BY <1>1, <1>2, <1>4, <2>1, Spelled, UnpublishedKept
<1>14. OneStarter'
  <2>1. proc[p].pc \in Starting
      BY <1>3 DEF Starting, Creating
  <2> QED
      BY <1>1, <1>3, <1>4, <2>1, OneStarterKept
<1>15. SiblingHeld'
  <2>1. SiblingOf(p)'
      BY <1>2, <1>4 DEF SiblingOf
  <2>2. ASSUME NEW q \in Procs, q # p, Private(q), proc[q].pc \in {"write", "rename"}
        PROVE  /\ link'[Tmp(proc[q].file)] = link[Tmp(proc[q].file)]
               /\ data'[link[Tmp(proc[q].file)]] = data[link[Tmp(proc[q].file)]]
    <3> DEFINE g == proc[q].file
    <3>1. g \in DirFiles
        BY <1>1, <2>2 DEF Stages, StageOf, Creating
    <3>2. g # f
        BY <1>1, <1>3, <2>2, Elsewhere DEF Starting, Creating, f
    <3>3. link'[Tmp(g)] = link[Tmp(g)] /\ Tmp(g) \in Names /\ Tmp(g)[1] = g
        BY <1>2, <3>1, <3>2, Spelled
    <3>4. link[Tmp(g)] # Nothing
        BY <1>1, <2>2, Spelled DEF SiblingHeld, SiblingOf, Stages, StageOf
    <3>5. link[Tmp(g)][2] = g /\ link[Tmp(g)] \in Inodes
        BY <1>1, <3>3, <3>4 DEF OwnFile, TypeOK
    <3>6. link[Tmp(g)] # link'[Tmp(f)]
        BY <1>8, <3>2, <3>5
    <3> QED
        BY <1>2, <3>3, <3>5, <3>6
  <2> QED
      BY <1>1, <1>3, <1>4, <2>1, <2>2, SiblingKept
<1>16. NeverHalfWritten'
    BY <1>1, <1>3, <1>5, NeverHalfKept
<1>17. KeysAgree'
  <2>1. proc[p].pc \in Creating
      BY <1>3 DEF Creating
  <2> QED
      BY <1>1, <1>2, <1>3, <1>4, <1>6, <2>1, KeysAgreeKept DEF f
<1>18. AddressStands'
    BY <1>1, <1>4, <1>6, AddressKept
<1> QED
    BY <1>2, <1>9, <1>10, <1>11, <1>12, <1>13, <1>14, <1>15, <1>16, <1>17, <1>18 DEF DirInv

\* What p writes goes to a file's own name only when others share its sibling.
LEMMA WriteKeepsPaths ==
    ASSUME DirInv, NEW p \in Procs, WriteTmp(p), NEW g \in DirFiles,
           g # proc[p].file \/ Private(p)
    PROVE  PathsKept({g})
<1> DEFINE f == proc[p].file
           inode == proc[p].fd
<1>1. TypeOK /\ Stages /\ OwnFile /\ ApartNames /\ SiblingHeld
    BY DEF DirInv
<1>2. /\ proc[p].pc = "write"
      /\ f \in DirFiles
      /\ inode \in Inodes /\ inode[2] = f
      /\ link' = link
      /\ \A i \in Inodes : i # inode => data'[i] = data[i]
    BY <1>1, WriteTmpDoes
<1>3. Path(g) \in Names /\ Path(g)[1] = g
    BY Spelled
<1> HIDE DEF inode
<1>4. link[Path(g)] # Nothing => link[Path(g)] \in Inodes /\ link[Path(g)] # inode
  <2> SUFFICES ASSUME link[Path(g)] # Nothing
               PROVE  link[Path(g)] \in Inodes /\ link[Path(g)] # inode
      OBVIOUS
  <2>1. link[Path(g)] \in Inodes /\ link[Path(g)][2] = g
      BY <1>1, <1>3 DEF TypeOK, OwnFile
  <2>2. CASE g # f
      BY <1>2, <2>1, <2>2
  <2>3. CASE g = f /\ Private(p)
    <3>1. link[Tmp(f)] = inode
        BY <1>1, <1>2, <2>3 DEF SiblingHeld, SiblingOf, inode
    <3> QED
        BY <1>1, <2>1, <2>3, <3>1 DEF ApartNames
  <2> QED
      BY <2>2, <2>3
<1> QED
    BY <1>2, <1>4 DEF PathsKept

LEMMA WriteTmpKeeps ==
    ASSUME DirInv, NEW p \in Procs, WriteTmp(p)
    PROVE  DirInv'
<1> DEFINE f == proc[p].file
<1>1. /\ TypeOK /\ Stages /\ OwnFile /\ ApartNames /\ Unborn /\ Unpublished /\ OneStarter
      /\ SiblingHeld /\ NeverHalfWritten /\ KeysAgree /\ AddressStands
    BY DEF DirInv
<1>2. /\ TypeOK'
      /\ Goes(p, "rename", f)
      /\ proc[p].pc = "write"
      /\ f \in DirFiles
      /\ proc'[p].keys = proc[p].keys
      /\ proc[p].fd \in Inodes
      /\ proc[p].fd[2] = f
      /\ link' = link
      /\ data'[proc[p].fd] = Run(p)
      /\ \A i \in Inodes : i # proc[p].fd => data'[i] = data[i]
    BY <1>1, WriteTmpDoes
<1>3. used' = used /\ overlapped' = overlapped
    BY DEF WriteTmp
<1>4. /\ Others(p)
      /\ proc'[p].pc = "rename"
      /\ proc'[p].file = f
      /\ proc'[p].run = proc[p].run
    BY <1>2 DEF Goes
<1>5. Run(p)' = Run(p) /\ Run(p) \in Runs /\ Run(p) # Nothing /\ proc[p].run \in 1 .. MaxRuns
    BY <1>1, <1>2, <1>4, RunTyped DEF Run
<1>6. Tmp(f) \in Names /\ Tmp(f)[1] = f /\ f # "none"
    BY <1>2, Spelled
<1>7. ~overlapped => PathsKept(DirFiles)
  <2> SUFFICES ASSUME ~overlapped, NEW g \in DirFiles
               PROVE  PathsKept({g})
      BY DEF PathsKept
  <2> QED
      BY WriteKeepsPaths DEF Private
<1>8. OneServe => PathsKept({"api.addr"})
    BY Spelled, WriteKeepsPaths DEF Private
<1>9. OwnFile' /\ ApartNames'
    BY <1>1, <1>2 DEF OwnFile, ApartNames
<1>10. proc[p].pc \in Starting /\ proc[p].pc \in Creating
    BY <1>2 DEF Starting, Creating
<1>11. Stages'
  <2>1. StageOf(p)
      BY <1>1 DEF Stages
  <2>2. StageOf(p)'
      BY <1>2, <1>4, <1>5, <1>6, <2>1 DEF StageOf
  <2> QED
      BY <1>1, <1>4, <2>2, StagesKept
<1>12. Unborn'
  <2>1. \A q \in Procs, g \in DirFiles :
          /\ proc'[q].run = proc[q].run
          /\ Past(q, g) => Past(q, g)'
      BY <1>1, <1>2, <1>10, PastKept
  <2> QED
      BY <1>1, <1>2, <2>1, UnbornKept
<1>13. Unpublished'
  <2> SUFFICES ASSUME NEW q \in Procs, NEW r \in 1 .. MaxRuns, NEW i \in Inodes,
                      data'[i] = <<q, r>>
               PROVE  r < proc'[q].run
                        \/ (r = proc'[q].run /\ (i[2] = "api.addr" => Published(q)'))
      BY DEF Unpublished
  <2>1. CASE i = proc[p].fd
    <3>1. <<q, r>> = <<p, proc[p].run>>
        BY <1>2, <2>1 DEF Run
    <3>2. q = p /\ r = proc[p].run
        BY <3>1
    <3>3. i[2] = "api.addr" => Published(q)'
        BY <1>2, <1>4, <2>1, <3>2 DEF Published
    <3> QED
        BY <1>4, <3>2, <3>3
  <2>2. CASE i # proc[p].fd
    <3>1. data[i] = <<q, r>>
        BY <1>2, <2>2
    <3>2. r < proc[q].run \/ (r = proc[q].run /\ (i[2] = "api.addr" => Published(q)))
        BY <1>1, <3>1 DEF Unpublished
    <3>3. proc'[q].run = proc[q].run
        BY <1>4 DEF Others
    <3>4. Published(q) => Published(q)'
        BY <1>2, <1>4 DEF Others, Published
    <3> QED
        BY <3>2, <3>3, <3>4
  <2> QED
      BY <2>1, <2>2
<1>14. OneStarter'
    BY <1>1, <1>3, <1>4, <1>10, OneStarterKept
<1>15. SiblingHeld'
  <2>1. Private(p)' => SiblingOf(p)'
    <3> SUFFICES ASSUME Private(p)'
                 PROVE  SiblingOf(p)'
        OBVIOUS
    <3>1. Private(p)
        BY <1>3, <1>4 DEF Private
    <3>2. link[Tmp(f)] = proc[p].fd
        BY <1>1, <1>2, <3>1 DEF SiblingHeld, SiblingOf
    <3>3. proc[p].fd # Nothing
        BY <1>2, Spelled
    <3> QED
        BY <1>2, <1>4, <1>5, <3>2, <3>3 DEF SiblingOf
  <2>2. ASSUME NEW q \in Procs, q # p, Private(q), proc[q].pc \in {"write", "rename"}
        PROVE  /\ link'[Tmp(proc[q].file)] = link[Tmp(proc[q].file)]
               /\ data'[link[Tmp(proc[q].file)]] = data[link[Tmp(proc[q].file)]]
    <3> DEFINE g == proc[q].file
    <3>1. g \in DirFiles
        BY <1>1, <2>2 DEF Stages, StageOf, Creating
    <3>2. g # f
        BY <1>1, <1>10, <2>2, Elsewhere DEF Starting, Creating
    <3>3. Tmp(g) \in Names /\ Tmp(g)[1] = g
        BY <3>1, Spelled
    <3>4. link[Tmp(g)] # Nothing
        BY <1>1, <2>2, Spelled DEF SiblingHeld, SiblingOf, Stages, StageOf
    <3>5. link[Tmp(g)][2] = g /\ link[Tmp(g)] \in Inodes
        BY <1>1, <3>3, <3>4 DEF OwnFile, TypeOK
    <3>6. link[Tmp(g)] # proc[p].fd
        BY <1>2, <3>2, <3>5
    <3> QED
        BY <1>2, <3>5, <3>6
  <2> QED
      BY <1>1, <1>3, <1>4, <2>1, <2>2, SiblingKept
<1>16. NeverHalfWritten'
  <2>1. CASE overlapped
      BY <1>3, <2>1 DEF NeverHalfWritten
  <2>2. CASE ~overlapped
      BY <1>1, <1>3, <1>7, <2>2, NeverHalfKept
  <2> QED
      BY <2>1, <2>2
<1>17. KeysAgree'
  <2>1. ~overlapped => PathsKept(KeyFiles)
      BY <1>7, Spelled DEF PathsKept
  <2> QED
      BY <1>1, <1>2, <1>3, <1>4, <1>10, <2>1, KeysAgreeKept
<1>18. AddressStands'
    BY <1>1, <1>4, <1>8, AddressKept
<1> QED
    BY <1>2, <1>9, <1>11, <1>12, <1>13, <1>14, <1>15, <1>16, <1>17, <1>18 DEF DirInv

LEMMA CleanupKeeps ==
    ASSUME DirInv, NEW p \in Procs, Cleanup(p)
    PROVE  DirInv'
<1> DEFINE f == proc[p].file
<1>1. /\ TypeOK /\ Stages /\ OwnFile /\ ApartNames /\ Unborn /\ Unpublished /\ OneStarter
      /\ SiblingHeld /\ NeverHalfWritten /\ KeysAgree /\ AddressStands
    BY DEF DirInv
<1>2. /\ TypeOK'
      /\ Goes(p, "down", "none")
      /\ proc'[p].keys = proc[p].keys
      /\ data' = data
      /\ proc[p].pc = "cleanup"
      /\ f \in DirFiles
      /\ link'[Tmp(f)] = Nothing
      /\ \A n \in Names \ {Tmp(f)} : link'[n] = link[n]
    BY <1>1, CleanupDoes
<1>3. used' = used /\ overlapped' = overlapped
    BY DEF Cleanup
<1>4. /\ Others(p)
      /\ proc'[p].pc = "down"
      /\ proc'[p].file = "none"
      /\ proc'[p].run = proc[p].run
    BY <1>2 DEF Goes
<1> HIDE DEF f
<1>5. \A g \in DirFiles : link'[Path(g)] = link[Path(g)]
    BY <1>2, Spelled
<1>6. PathsKept(DirFiles) /\ PathsKept(KeyFiles) /\ PathsKept({"api.addr"})
    BY <1>2, <1>5, Spelled DEF PathsKept
<1>7. OwnFile'
    BY <1>1, <1>2 DEF OwnFile
<1>8. ApartNames'
  <2> SUFFICES ASSUME NEW g \in DirFiles, link'[Path(g)] # Nothing
               PROVE  link'[Path(g)] # link'[Tmp(g)]
      BY DEF ApartNames
  <2>1. link'[Tmp(g)] \in {link[Tmp(g)], Nothing}
      BY <1>2, Spelled
  <2> QED
      BY <1>1, <1>5, <2>1 DEF ApartNames
<1>9. Stages'
  <2>1. StageOf(p)'
      BY <1>4 DEF StageOf, Creating, KeyFiles
  <2> QED
      BY <1>1, <1>4, <2>1, StagesKept
<1>10. Unborn'
  <2>1. \A q \in Procs, g \in DirFiles :
          /\ proc'[q].run = proc[q].run
          /\ Past(q, g) => Past(q, g)'
      BY <1>1, <1>2, PastKept
  <2>2. \A n \in Names : (\E m \in Names : link'[n] = link[m]) \/ link'[n] = Nothing
      BY <1>2
  <2> QED
      BY <1>1, <2>1, <2>2, UnbornKept
<1>11. Unpublished'
  <2>1. Published(p)'
      BY <1>4 DEF Published
  <2> QED
      BY <1>1, <1>2, <1>4, <2>1, Spelled, UnpublishedKept
<1>12. OneStarter'
  <2>1. proc'[p].pc \notin Starting
      BY <1>4 DEF Starting, Creating
  <2> QED
      BY <1>1, <1>3, <1>4, <2>1, OneStarterKept
<1>13. SiblingHeld'
  <2>1. SiblingOf(p)'
      BY <1>4 DEF SiblingOf
  <2>2. ASSUME NEW q \in Procs, q # p, Private(q), proc[q].pc \in {"write", "rename"}
        PROVE  link'[Tmp(proc[q].file)] = link[Tmp(proc[q].file)]
    <3>1. proc[q].file \in DirFiles
        BY <1>1, <2>2 DEF Stages, StageOf, Creating
    <3>2. proc[q].file # f
        BY <1>1, <1>2, <2>2, Elsewhere DEF Starting, Creating, f
    <3> QED
        BY <1>2, <3>1, <3>2, Spelled
  <2> QED
      BY <1>1, <1>2, <1>3, <1>4, <2>1, <2>2, SiblingKept
<1>14. NeverHalfWritten'
    BY <1>1, <1>3, <1>6, NeverHalfKept
<1>15. KeysAgree'
  <2>1. proc'[p].pc \notin Creating
      BY <1>4 DEF Creating
  <2> QED
      BY <1>1, <1>2, <1>3, <1>4, <1>6, <2>1, KeysAgreeKept
<1>16. AddressStands'
    BY <1>1, <1>4, <1>6, AddressKept
<1> QED
    BY <1>2, <1>7, <1>8, <1>9, <1>10, <1>11, <1>12, <1>13, <1>14, <1>15, <1>16 DEF DirInv

LEMMA CloseKeeps ==
    ASSUME DirInv, NEW p \in Procs, Close(p)
    PROVE  DirInv'
<1>1. /\ TypeOK /\ Stages /\ OwnFile /\ ApartNames /\ Unborn /\ Unpublished /\ OneStarter
      /\ SiblingHeld /\ NeverHalfWritten /\ KeysAgree /\ AddressStands
    BY DEF DirInv
<1>2. /\ TypeOK'
      /\ proc[p].pc = "up"
      /\ proc'[p].keys = proc[p].keys
      /\ data' = data
      /\ p \in Serves => /\ Goes(p, "closing", "none")
                         /\ link'[Path("api.addr")] = Nothing
      /\ p \notin Serves => Goes(p, "down", "none") /\ link' = link
      /\ \A n \in Names \ {Path("api.addr")} : link'[n] = link[n]
    BY <1>1, CloseDoes
<1>3. used' = used /\ overlapped' = overlapped
    BY DEF Close
<1>4. /\ Others(p)
      /\ proc'[p].pc \in {"closing", "down"}
      /\ proc'[p].file = "none"
      /\ proc'[p].run = proc[p].run
      /\ Goes(p, proc'[p].pc, "none")
    BY <1>2 DEF Goes
<1>5. /\ \A g \in DirFiles : link'[Tmp(g)] = link[Tmp(g)]
      /\ \A g \in KeyFiles : link'[Path(g)] = link[Path(g)]
      /\ \A n \in Names : link'[n] = link[n] \/ link'[n] = Nothing
    BY <1>2, Spelled
<1>6. PathsKept(KeyFiles)
    BY <1>2, <1>5 DEF PathsKept
<1>7. OwnFile'
    BY <1>1, <1>5 DEF OwnFile
<1>8. ApartNames'
    BY <1>1, <1>5, Spelled DEF ApartNames
<1>9. Stages'
  <2>1. StageOf(p)
      BY <1>1 DEF Stages
  <2>2. StageOf(p)'
      BY <1>2, <1>4, <2>1 DEF StageOf, Creating
  <2> QED
      BY <1>1, <1>4, <2>2, StagesKept
<1>10. Unborn'
  <2>1. \A q \in Procs, g \in DirFiles :
          /\ proc'[q].run = proc[q].run
          /\ Past(q, g) => Past(q, g)'
      BY <1>1, <1>4, PastKept
  <2> QED
      BY <1>1, <1>5, <2>1, UnbornKept
<1>11. Unpublished'
  <2>1. Published(p)'
      BY <1>4 DEF Published
  <2> QED
      BY <1>1, <1>2, <1>4, <2>1, Spelled, UnpublishedKept
<1>12. OneStarter'
  <2>1. proc'[p].pc \notin Starting
      BY <1>4 DEF Starting, Creating
  <2> QED
      BY <1>1, <1>3, <1>4, <2>1, OneStarterKept
<1>13. SiblingHeld'
  <2>1. SiblingOf(p)'
      BY <1>4 DEF SiblingOf
  <2>2. ASSUME NEW q \in Procs, q # p, Private(q), proc[q].pc \in {"write", "rename"}
        PROVE  link'[Tmp(proc[q].file)] = link[Tmp(proc[q].file)]
    <3>1. proc[q].file \in DirFiles
        BY <1>1, <2>2 DEF Stages, StageOf, Creating
    <3> QED
        BY <1>5, <3>1
  <2> QED
      BY <1>1, <1>2, <1>3, <1>4, <2>1, <2>2, SiblingKept
<1>14. NeverHalfWritten'
  <2> SUFFICES ASSUME ~overlapped', NEW g \in DirFiles, link'[Path(g)] # Nothing
               PROVE  Contents(g)' # Nothing
      BY DEF NeverHalfWritten
  <2>1. link'[Path(g)] = link[Path(g)]
      BY <1>5, Spelled
  <2>2. ~overlapped
      BY <1>3
  <2> QED
      BY <1>1, <1>2, <2>1, <2>2 DEF NeverHalfWritten, Contents
<1>15. KeysAgree'
  <2>1. proc'[p].pc \notin Creating
      BY <1>4 DEF Creating
  <2> QED
      BY <1>1, <1>2, <1>3, <1>4, <1>6, <2>1, KeysAgreeKept
<1>16. AddressStands'
  <2>1. CASE p \in Serves
    <3> SUFFICES ASSUME OneServe, NEW q \in Serves
                 PROVE  AddressOf(q)'
        BY DEF AddressStands, OneServe
    <3>1. q = p
        BY <2>1 DEF OneServe
    <3>2. proc'[p].pc = "closing" /\ link'[Path("api.addr")] = Nothing
        BY <1>2, <2>1 DEF Goes
    <3> QED
        BY <3>1, <3>2 DEF AddressOf
  <2>2. CASE p \notin Serves
    <3>1. PathsKept({"api.addr"})
        BY <1>2, <2>2 DEF PathsKept
    <3> QED
        BY <1>1, <1>4, <2>2, <3>1, AddressKept
  <2> QED
      BY <2>1, <2>2
<1> QED
    BY <1>2, <1>7, <1>8, <1>9, <1>10, <1>11, <1>12, <1>13, <1>14, <1>15, <1>16 DEF DirInv

\* Proceed's part of the invariant that the files do not matter to.
LEMMA ProceedsMoves ==
    ASSUME TypeOK, Stages, NEW p \in Procs, NEW v, v # Nothing,
           proc[p].file \in DirFiles, ProceedsFrom(p, proc[p].file, v),
           \/ proc[p].pc = "read" /\ proc[p].file \in KeyFiles
           \/ proc[p].pc = "rename"
    PROVE  /\ Others(p)
           /\ proc'[p].run = proc[p].run
           /\ proc'[p].pc \in {"read", "open", "up"}
           /\ proc[p].file # "api.addr" => proc'[p].pc # "up" \/ p \notin Serves
           /\ proc'[p].pc \in Creating => proc'[p].file \notin KeyFiles
           /\ Stages'
           /\ Published(p) => Published(p)'
           /\ \A q \in Procs, f \in DirFiles : /\ proc'[q].run = proc[q].run
                                               /\ Past(q, f) => Past(q, f)'
<1> DEFINE Facts == /\ Others(p)
                    /\ proc'[p].run = proc[p].run
                    /\ proc'[p].pc \in {"read", "open", "up"}
                    /\ proc[p].file # "api.addr" => proc'[p].pc # "up" \/ p \notin Serves
                    /\ proc'[p].pc \in Creating => proc'[p].file \notin KeyFiles
           Kept == \A q \in Procs, f \in DirFiles : /\ proc'[q].run = proc[q].run
                                                    /\ Past(q, f) => Past(q, f)'
           Public == Published(p) => Published(p)'
<1>1. StageOf(p) /\ proc[p].pc \in Starting /\ proc[p].pc # "down" /\ proc[p].run \in 1 .. MaxRuns
    BY RunTyped DEF Starting, Creating, Stages
<1>2. CASE proc[p].file = "identity.key"
  <2>1. /\ Goes(p, "read", "encryption.key")
        /\ proc'[p].keys["identity.key"] = v
      BY <1>2 DEF ProceedsFrom
  <2>2. /\ Others(p)
        /\ proc'[p].pc = "read"
        /\ proc'[p].file = "encryption.key"
        /\ proc'[p].run = proc[p].run
      BY <2>1 DEF Goes
  <2>3. Facts
      BY <2>2 DEF Creating
  <2>4. StageOf(p)'
      BY <1>1, <2>1, <2>2 DEF StageOf, Creating, KeyFiles
  <2>5. Stages'
      BY <2>2, <2>4, StagesKept
  <2>6. Public
      BY <1>2, <1>1 DEF Published, Starting, Creating
  <2>7. Kept
      BY <1>1, <1>2, <2>1, PastKept
  <2> QED
      BY <2>3, <2>5, <2>6, <2>7
<1>3. CASE proc[p].file = "encryption.key" /\ p \in Serves
  <2>1. /\ Goes(p, "open", "api.addr")
        /\ proc'[p].keys["encryption.key"] = v
        /\ proc'[p].keys["identity.key"] = proc[p].keys["identity.key"]
      BY <1>3 DEF ProceedsFrom
  <2>2. /\ Others(p)
        /\ proc'[p].pc = "open"
        /\ proc'[p].file = "api.addr"
        /\ proc'[p].run = proc[p].run
      BY <2>1 DEF Goes
  <2>3. Facts
      BY <2>2, Spelled
  <2>4. StageOf(p)'
      BY <1>1, <1>3, <2>1, <2>2 DEF StageOf, Creating, DirFiles
  <2>5. Stages'
      BY <2>2, <2>4, StagesKept
  <2>6. Public
      BY <1>3, <1>1 DEF Published, Starting, Creating
  <2>7. Kept
      BY <1>1, <1>3, <2>1, PastKept
  <2> QED
      BY <2>3, <2>5, <2>6, <2>7
<1>4. CASE proc[p].file = "encryption.key" /\ p \notin Serves
  <2>1. /\ Goes(p, "up", "none")
        /\ proc'[p].keys["encryption.key"] = v
        /\ proc'[p].keys["identity.key"] = proc[p].keys["identity.key"]
      BY <1>4 DEF ProceedsFrom
  <2>2. /\ Others(p)
        /\ proc'[p].pc = "up"
        /\ proc'[p].file = "none"
        /\ proc'[p].run = proc[p].run
      BY <2>1 DEF Goes
  <2>3. Facts
      BY <1>4, <2>2 DEF Creating
  <2>4. StageOf(p)'
      BY <1>1, <1>4, <2>1, <2>2 DEF StageOf, Creating
  <2>5. Stages'
      BY <2>2, <2>4, StagesKept
  <2>6. Public
      BY <2>2 DEF Published
  <2>7. Kept
      BY <1>1, <1>4, <2>1, PastKept
  <2> QED
      BY <2>3, <2>5, <2>6, <2>7
<1>5. CASE proc[p].file = "api.addr"
  <2>1. Goes(p, "up", "none") /\ proc'[p].keys = proc[p].keys
      BY <1>5 DEF ProceedsFrom
  <2>2. /\ Others(p)
        /\ proc'[p].pc = "up"
        /\ proc'[p].file = "none"
        /\ proc'[p].run = proc[p].run
      BY <2>1 DEF Goes
  <2>3. Facts
      BY <1>5, <2>2 DEF Creating
  <2>4. StageOf(p)'
      BY <1>1, <1>5, <2>1, <2>2 DEF StageOf, Creating
  <2>5. Stages'
      BY <2>2, <2>4, StagesKept
  <2>6. Public
      BY <2>2 DEF Published
  <2>7. Kept
      BY <1>1, <1>5, <2>1, PastKept
  <2> QED
      BY <2>3, <2>5, <2>6, <2>7
<1> QED
    BY <1>2, <1>3, <1>4, <1>5 DEF DirFiles, KeyFiles

\* The key a process goes on with is the one on disk, and stays the only one.
LEMMA ProceedsAgree ==
    ASSUME TypeOK, Stages, OneStarter, KeysAgree, NEW p \in Procs, NEW v, v # Nothing,
           proc[p].file \in DirFiles, ProceedsFrom(p, proc[p].file, v), Others(p),
           proc[p].pc \in Starting, overlapped' = overlapped,
           proc'[p].pc \in Creating => proc'[p].file \notin KeyFiles,
           ~overlapped => \A g \in KeyFiles : \A w : KeyOf(g, w) => KeyOf(g, w)',
           ~overlapped /\ proc[p].file \in KeyFiles =>
               link'[Path(proc[p].file)] # Nothing /\ data'[link'[Path(proc[p].file)]] = v
    PROVE  KeysAgree'
<1> SUFFICES ASSUME ~overlapped', NEW g \in KeyFiles
             PROVE  /\ \A w \in used'[g] : KeyOf(g, w)'
                    /\ \A q \in Procs : proc'[q].keys[g] # Nothing =>
                          link'[Path(g)] # Nothing /\ data'[link'[Path(g)]] = proc'[q].keys[g]
                    /\ \A q \in Procs : proc'[q].file = g /\ proc'[q].pc \in Creating =>
                          link'[Path(g)] = Nothing
    BY DEF KeysAgree, KeyOf, Contents
<1>0. ~overlapped
    OBVIOUS
<1>1. /\ \A w \in used[g] : KeyOf(g, w)
      /\ \A q \in Procs : proc[q].keys[g] # Nothing => KeyOf(g, proc[q].keys[g])
    BY <1>0 DEF KeysAgree
<1>2. \A w : KeyOf(g, w) => KeyOf(g, w)'
    BY <1>0
<1>3. g = "identity.key" \/ g = "encryption.key"
    BY DEF KeyFiles
<1>4. g = proc[p].file => KeyOf(g, v)'
  <2> SUFFICES ASSUME g = proc[p].file
               PROVE  KeyOf(g, v)'
      OBVIOUS
  <2>1. link'[Path(g)] # Nothing /\ data'[link'[Path(g)]] = v
      BY <1>0
  <2> QED
      BY <2>1 DEF KeyOf, Contents
<1>5. /\ g = proc[p].file => proc'[p].keys[g] = v
      /\ g # proc[p].file => proc'[p].keys[g] = proc[p].keys[g]
    BY <1>3 DEF ProceedsFrom, DirFiles, KeyFiles
<1>6. \A w \in used'[g] : \/ w \in used[g]
                          \/ g = proc[p].file /\ w = v
                          \/ g # proc[p].file /\ w = proc[p].keys[g] /\ w # Nothing
    BY <1>3 DEF ProceedsFrom, DirFiles, KeyFiles, Stages, StageOf
<1>7. \A w \in used'[g] : KeyOf(g, w)'
    BY <1>1, <1>2, <1>4, <1>6
<1>8. ASSUME NEW q \in Procs, proc'[q].keys[g] # Nothing
      PROVE  link'[Path(g)] # Nothing /\ data'[link'[Path(g)]] = proc'[q].keys[g]
  <2>1. CASE q = p /\ g = proc[p].file
      BY <1>4, <1>5, <2>1 DEF KeyOf, Contents
  <2>2. CASE ~(q = p /\ g = proc[p].file)
    <3>1. proc'[q].keys[g] = proc[q].keys[g]
        BY <1>5, <2>2 DEF Others
    <3> DEFINE w == proc[q].keys[g]
    <3>2. KeyOf(g, w)
        BY <1>1, <1>8, <3>1
    <3>3. link'[Path(g)] # Nothing /\ data'[link'[Path(g)]] = w
      <4>1. \A x : KeyOf(g, x) => link'[Path(g)] # Nothing /\ data'[link'[Path(g)]] = x
          BY <1>2 DEF KeyOf, Contents
      <4> QED
          BY <3>2, <4>1
    <3> QED
        BY <3>1, <3>3
  <2> QED
      BY <2>1, <2>2
<1>9. ASSUME NEW q \in Procs, proc'[q].file = g, proc'[q].pc \in Creating
      PROVE  FALSE
  <2>1. q # p
      BY <1>9
  <2>2. proc[q].pc \in Starting
      BY <1>9, <2>1 DEF Others, Starting
  <2> QED
      BY <1>0, <2>1, <2>2 DEF OneStarter
<1> QED
    BY <1>7, <1>8, <1>9

LEMMA LoadKeyKeeps ==
    ASSUME DirInv, NEW p \in Procs, LoadKey(p)
    PROVE  DirInv'
<1> DEFINE f == proc[p].file
<1>1. /\ TypeOK /\ Stages /\ OwnFile /\ ApartNames /\ Unborn /\ Unpublished /\ OneStarter
      /\ SiblingHeld /\ NeverHalfWritten /\ KeysAgree /\ AddressStands
    BY DEF DirInv
<1>2. /\ TypeOK'
      /\ proc[p].pc = "read"
      /\ f \in KeyFiles
      /\ link' = link
      /\ data' = data
      /\ \/ /\ link[Path(f)] = Nothing
            /\ Goes(p, "open", f)
            /\ proc'[p].keys = proc[p].keys
            /\ used' = used
         \/ /\ Goes(p, "down", "none")
            /\ proc'[p].keys = proc[p].keys
            /\ used' = used
         \/ /\ link[Path(f)] # Nothing
            /\ Contents(f) \in Runs
            /\ ProceedsFrom(p, f, Contents(f))
    BY <1>1, LoadKeyDoes
<1>3. overlapped' = overlapped
    BY DEF LoadKey
<1>4. f \in DirFiles /\ f # "api.addr" /\ proc[p].pc \in Starting
    BY <1>2, Spelled DEF Starting
<1>5. OwnFile' /\ ApartNames' /\ \A F : PathsKept(F)
    BY <1>1, <1>2, FilesKept
<1>6. NeverHalfWritten'
    BY <1>1, <1>3, <1>5, NeverHalfKept
<1> DEFINE Moves == /\ Others(p)
                    /\ proc'[p].run = proc[p].run
                    /\ proc'[p].pc \in {"down", "read", "open", "up"}
                    /\ proc'[p].pc # "up" \/ p \notin Serves
           Kept == \A q \in Procs, g \in DirFiles : /\ proc'[q].run = proc[q].run
                                                    /\ Past(q, g) => Past(q, g)'
<1>7. Moves /\ Stages' /\ Kept /\ (Published(p) => Published(p)') /\ KeysAgree'
  <2>1. CASE /\ link[Path(f)] = Nothing
             /\ Goes(p, "open", f)
             /\ proc'[p].keys = proc[p].keys
             /\ used' = used
    <3>1. /\ Others(p)
          /\ proc'[p].pc = "open"
          /\ proc'[p].file = f
          /\ proc'[p].run = proc[p].run
        BY <2>1 DEF Goes
    <3>2. StageOf(p) /\ proc[p].run \in 1 .. MaxRuns /\ f # "none"
        BY <1>1, <1>2, <1>4, RunTyped, Spelled DEF Stages
    <3>3. StageOf(p)'
        BY <1>2, <1>4, <2>1, <3>1, <3>2 DEF StageOf
    <3>4. Stages'
        BY <1>1, <3>1, <3>3, StagesKept
    <3>5. Kept
        BY <1>1, <1>2, <1>4, <2>1, PastKept
    <3>6. ~Published(p)
        BY <1>2 DEF Published
    <3>7. KeysAgree'
        BY <1>1, <1>3, <1>5, <2>1, <3>1, KeysAgreeKept
    <3> QED
        BY <3>1, <3>4, <3>5, <3>6, <3>7
  <2>2. CASE /\ Goes(p, "down", "none")
             /\ proc'[p].keys = proc[p].keys
             /\ used' = used
    <3>1. /\ Others(p)
          /\ proc'[p].pc = "down"
          /\ proc'[p].file = "none"
          /\ proc'[p].run = proc[p].run
        BY <2>2 DEF Goes
    <3>2. StageOf(p)'
        BY <3>1 DEF StageOf, Creating
    <3>3. Stages'
        BY <1>1, <3>1, <3>2, StagesKept
    <3>4. Kept
        BY <1>1, <1>4, <2>2, PastKept
    <3>5. ~Published(p)
        BY <1>2 DEF Published
    <3>6. proc'[p].pc \notin Creating
        BY <3>1 DEF Creating
    <3>7. KeysAgree'
        BY <1>1, <1>3, <1>5, <2>2, <3>1, <3>6, KeysAgreeKept
    <3> QED
        BY <3>1, <3>3, <3>4, <3>5, <3>7
  <2>3. CASE /\ link[Path(f)] # Nothing
             /\ Contents(f) \in Runs
             /\ ProceedsFrom(p, f, Contents(f))
    <3> DEFINE v == Contents(f)
    <3>1. v # Nothing
        BY <2>3, Spelled
    <3>2. link'[Path(f)] # Nothing /\ data'[link'[Path(f)]] = v
        BY <1>2, <2>3 DEF Contents
    <3>3. ProceedsFrom(p, f, v)
        BY <2>3
    <3>4. \A g \in KeyFiles : \A w : KeyOf(g, w) => KeyOf(g, w)'
        BY <1>2 DEF KeyOf, Contents
    <3> HIDE DEF v
    <3>5. /\ Others(p)
          /\ proc'[p].run = proc[p].run
          /\ proc'[p].pc \in {"read", "open", "up"}
          /\ proc'[p].pc # "up" \/ p \notin Serves
          /\ proc'[p].pc \in Creating => proc'[p].file \notin KeyFiles
          /\ Stages'
          /\ Published(p) => Published(p)'
          /\ Kept
        BY <1>1, <1>2, <1>4, <3>1, <3>3, ProceedsMoves
    <3>6. KeysAgree'
        BY <1>1, <1>3, <1>4, <3>1, <3>2, <3>3, <3>4, <3>5, ProceedsAgree
    <3> QED
        BY <3>5, <3>6
  <2> QED
      BY <1>2, <2>1, <2>2, <2>3
<1>8. Unborn'
    BY <1>1, <1>2, <1>7, UnbornKept
<1>9. Unpublished'
    BY <1>1, <1>2, <1>7, Spelled, UnpublishedKept
<1>10. OneStarter'
    BY <1>1, <1>3, <1>4, <1>7, OneStarterKept
<1>11. SiblingHeld'
  <2>1. SiblingOf(p)'
      BY <1>7 DEF SiblingOf
  <2> QED
      BY <1>1, <1>2, <1>3, <1>7, <2>1, SiblingKept
<1>12. AddressStands'
    BY <1>1, <1>5, <1>7, AddressKept
<1> QED
    BY <1>2, <1>5, <1>6, <1>7, <1>8, <1>9, <1>10, <1>11, <1>12 DEF DirInv

LEMMA RenameKeeps ==
    ASSUME DirInv, NEW p \in Procs, Rename(p)
    PROVE  DirInv'
<1> DEFINE f == proc[p].file
<1>1. /\ TypeOK /\ Stages /\ OwnFile /\ ApartNames /\ Unborn /\ Unpublished /\ OneStarter
      /\ SiblingHeld /\ NeverHalfWritten /\ KeysAgree /\ AddressStands
    BY DEF DirInv
<1>2. /\ TypeOK'
      /\ proc[p].pc = "rename"
      /\ f \in DirFiles
      /\ data' = data
      /\ \/ /\ link[Tmp(f)] = Nothing
            /\ link' = link
            /\ used' = used
            /\ Goes(p, "cleanup", f)
            /\ proc'[p].keys = proc[p].keys
         \/ /\ link[Tmp(f)] # Nothing
            /\ link'[Path(f)] = link[Tmp(f)]
            /\ link'[Tmp(f)] = Nothing
            /\ \A n \in Names \ {Path(f), Tmp(f)} : link'[n] = link[n]
            /\ ProceedsFrom(p, f, Run(p))
    BY <1>1, RenameDoes
<1>3. overlapped' = overlapped
    BY DEF Rename
<1>4. proc[p].pc \in Starting /\ proc[p].pc \in Creating /\ f # "none"
    BY <1>2, Spelled DEF Starting, Creating
<1>5. CASE /\ link[Tmp(f)] = Nothing
           /\ link' = link
           /\ used' = used
           /\ Goes(p, "cleanup", f)
           /\ proc'[p].keys = proc[p].keys
  <2>1. /\ Others(p)
        /\ proc'[p].pc = "cleanup"
        /\ proc'[p].file = f
        /\ proc'[p].run = proc[p].run
      BY <1>5 DEF Goes
  <2>2. OwnFile' /\ ApartNames' /\ \A F : PathsKept(F)
      BY <1>1, <1>2, <1>5, FilesKept
  <2>3. Stages'
    <3>1. StageOf(p) /\ proc[p].run \in 1 .. MaxRuns
        BY <1>1, <1>2, RunTyped DEF Stages
    <3>2. StageOf(p)'
        BY <1>2, <1>4, <1>5, <2>1, <3>1 DEF StageOf, Creating
    <3> QED
        BY <1>1, <2>1, <3>2, StagesKept
  <2>4. Unborn'
    <3>1. \A q \in Procs, g \in DirFiles :
            /\ proc'[q].run = proc[q].run
            /\ Past(q, g) => Past(q, g)'
        BY <1>1, <1>4, <1>5, PastKept
    <3> QED
        BY <1>1, <1>5, <3>1, UnbornKept
  <2>5. Unpublished'
    <3>1. Published(p) => Published(p)'
        BY <1>2, <2>1 DEF Published
    <3> QED
        BY <1>1, <1>2, <2>1, <3>1, Spelled, UnpublishedKept
  <2>6. OneStarter'
      BY <1>1, <1>3, <1>4, <2>1, OneStarterKept
  <2>7. SiblingHeld'
    <3>1. SiblingOf(p)'
        BY <2>1 DEF SiblingOf
    <3> QED
        BY <1>1, <1>2, <1>3, <1>5, <2>1, <3>1, SiblingKept
  <2>8. NeverHalfWritten'
      BY <1>1, <1>3, <2>2, NeverHalfKept
  <2>9. KeysAgree'
    <3>1. proc'[p].pc \notin Creating
        BY <2>1 DEF Creating
    <3> QED
        BY <1>1, <1>3, <1>5, <2>1, <2>2, <3>1, KeysAgreeKept
  <2>10. AddressStands'
      BY <1>1, <2>1, <2>2, AddressKept
  <2> QED
      BY <1>2, <2>2, <2>3, <2>4, <2>5, <2>6, <2>7, <2>8, <2>9, <2>10 DEF DirInv
<1>6. CASE /\ link[Tmp(f)] # Nothing
           /\ link'[Path(f)] = link[Tmp(f)]
           /\ link'[Tmp(f)] = Nothing
           /\ \A n \in Names \ {Path(f), Tmp(f)} : link'[n] = link[n]
           /\ ProceedsFrom(p, f, Run(p))
  <2> DEFINE v == Run(p)
  <2>1. v # Nothing /\ v \in Runs /\ v = <<p, proc[p].run>>
      BY <1>1, <1>2, RunTyped DEF Run
  <2>2. ProceedsFrom(p, f, v)
      BY <1>6
  <2>3. Private(p) => data[link[Tmp(f)]] = v
      BY <1>1, <1>2 DEF SiblingHeld, SiblingOf
  <2> HIDE DEF v
  <2>4. /\ Others(p)
        /\ proc'[p].run = proc[p].run
        /\ proc'[p].pc \in {"read", "open", "up"}
        /\ f # "api.addr" => proc'[p].pc # "up" \/ p \notin Serves
        /\ proc'[p].pc \in Creating => proc'[p].file \notin KeyFiles
        /\ Stages'
        /\ Published(p) => Published(p)'
        /\ \A q \in Procs, g \in DirFiles : /\ proc'[q].run = proc[q].run
                                            /\ Past(q, g) => Past(q, g)'
      BY <1>1, <1>2, <2>1, <2>2, ProceedsMoves
  <2>5. \A g \in DirFiles : g # f => /\ link'[Path(g)] = link[Path(g)]
                                     /\ link'[Tmp(g)] = link[Tmp(g)]
      BY <1>2, <1>6, Spelled
  <2>6. /\ Path(f) \in Names /\ Tmp(f) \in Names
        /\ Path(f)[1] = f /\ Tmp(f)[1] = f
      BY <1>2, Spelled
  <2>7. OwnFile'
      BY <1>1, <1>6, <2>6 DEF OwnFile
  <2>8. ApartNames'
    <3> SUFFICES ASSUME NEW g \in DirFiles, link'[Path(g)] # Nothing
                 PROVE  link'[Path(g)] # link'[Tmp(g)]
        BY DEF ApartNames
    <3> QED
        BY <1>1, <1>6, <2>5 DEF ApartNames
  <2>9. Unborn'
    <3>1. \A n \in Names : (\E m \in Names : link'[n] = link[m]) \/ link'[n] = Nothing
        BY <1>6, <2>6
    <3> QED
        BY <1>1, <2>4, <3>1, UnbornKept
  <2>10. Unpublished'
      BY <1>1, <1>2, <2>4, Spelled, UnpublishedKept
  <2>11. OneStarter'
      BY <1>1, <1>3, <1>4, <2>4, OneStarterKept
  <2>12. SiblingHeld'
    <3>1. SiblingOf(p)'
        BY <2>4 DEF SiblingOf
    <3>2. ASSUME NEW q \in Procs, q # p, Private(q), proc[q].pc \in {"write", "rename"}
          PROVE  link'[Tmp(proc[q].file)] = link[Tmp(proc[q].file)]
      <4>1. proc[q].file \in DirFiles
          BY <1>1, <3>2 DEF Stages, StageOf, Creating
      <4>2. proc[q].file # f
          BY <1>1, <1>4, <3>2, Elsewhere DEF Starting, Creating
      <4> QED
          BY <2>5, <4>1, <4>2
    <3> QED
        BY <1>1, <1>2, <1>3, <2>4, <3>1, <3>2, SiblingKept
  <2>13. NeverHalfWritten'
    <3> SUFFICES ASSUME ~overlapped', NEW g \in DirFiles, link'[Path(g)] # Nothing
                 PROVE  data'[link'[Path(g)]] # Nothing
        BY DEF NeverHalfWritten, Contents
    <3>1. CASE g = f
        BY <1>2, <1>3, <1>6, <2>1, <2>3, <3>1 DEF Private
    <3>2. CASE g # f
      <4>1. link'[Path(g)] = link[Path(g)] /\ ~overlapped
          BY <1>3, <2>5, <3>2
      <4> QED
          BY <1>1, <1>2, <4>1 DEF NeverHalfWritten, Contents
    <3> QED
        BY <3>1, <3>2
  <2>14. KeysAgree'
    <3>1. ~overlapped /\ f \in KeyFiles => link[Path(f)] = Nothing
        BY <1>1, <1>4 DEF KeysAgree
    <3>2. ~overlapped => \A g \in KeyFiles : \A w : KeyOf(g, w) => KeyOf(g, w)'
      <4> SUFFICES ASSUME ~overlapped, NEW g \in KeyFiles, NEW w, KeyOf(g, w)
                   PROVE  KeyOf(g, w)'
          OBVIOUS
      <4>1. link[Path(g)] # Nothing
          BY DEF KeyOf
      <4>2. g # f /\ g \in DirFiles
          BY <3>1, <4>1, Spelled
      <4>3. link'[Path(g)] = link[Path(g)]
          BY <2>5, <4>2
      <4> QED
          BY <1>2, <4>3 DEF KeyOf, Contents
    <3>3. ~overlapped /\ f \in KeyFiles =>
              link'[Path(f)] # Nothing /\ data'[link'[Path(f)]] = v
        BY <1>2, <1>6, <2>3 DEF Private
    <3> QED
        BY <1>1, <1>2, <1>3, <1>4, <2>1, <2>2, <2>4, <3>2, <3>3, ProceedsAgree
  <2>15. AddressStands'
    <3>1. CASE f = "api.addr"
      <4> SUFFICES ASSUME OneServe, NEW q \in Serves
                   PROVE  AddressOf(q)'
          BY DEF AddressStands, OneServe
      <4>1. q = p
          BY <1>1, <3>1 DEF OneServe, Stages, StageOf
      <4>2. link'[Path("api.addr")] # Nothing /\ data'[link'[Path("api.addr")]] = v
          BY <1>2, <1>6, <2>3, <3>1 DEF Private
      <4>3. Run(p)' = v
          BY <2>1, <2>4 DEF Run
      <4>4. proc'[p].pc # "closing"
          BY <2>4
      <4> QED
          BY <4>1, <4>2, <4>3, <4>4 DEF AddressOf, KeyOf, Contents
    <3>2. CASE f # "api.addr"
      <4>1. PathsKept({"api.addr"})
          BY <1>2, <2>5, <3>2, Spelled DEF PathsKept
      <4>2. proc'[p].pc \notin {"up", "closing"} \/ p \notin Serves
          BY <2>4, <3>2
      <4> QED
          BY <1>1, <2>4, <4>1, <4>2, AddressKept
    <3> QED
        BY <3>1, <3>2
  <2> QED
      BY <1>2, <2>4, <2>7, <2>8, <2>9, <2>10, <2>11, <2>12, <2>13, <2>14, <2>15 DEF DirInv
<1> QED
    BY <1>2, <1>5, <1>6

LEMMA ClientKeeps ==
    ASSUME DirInv, TypeOK', UNCHANGED <<link, data, proc, used, overlapped>>
    PROVE  DirInv'
<1>1. /\ link' = link /\ data' = data /\ proc' = proc /\ used' = used
      /\ overlapped' = overlapped
    OBVIOUS
<1>2. (Stages /\ OwnFile /\ ApartNames)'
    BY <1>1 DEF DirInv, Stages, StageOf, OwnFile, ApartNames
<1>3. (Unborn /\ Unpublished /\ OneStarter)'
    BY <1>1 DEF DirInv, Unborn, Past, Unpublished, Published, OneStarter
<1>4. (SiblingHeld /\ NeverHalfWritten)'
    BY <1>1 DEF DirInv, SiblingHeld, Private, SiblingOf, Run, NeverHalfWritten, Contents
<1>5. (KeysAgree /\ AddressStands)'
    BY <1>1 DEF DirInv, KeysAgree, KeyOf, Contents, AddressStands, AddressOf, Run
<1> QED
    BY <1>2, <1>3, <1>4, <1>5 DEF DirInv

LEMMA InitDirInv == Init => DirInv
<1> SUFFICES ASSUME Init
             PROVE  DirInv
    OBVIOUS
<1>1. /\ \A n \in Names : link[n] = Nothing
      /\ \A f \in DirFiles : link[Path(f)] = Nothing
      /\ \A i \in Inodes : data[i] = Nothing
      /\ \A f \in KeyFiles : used[f] = {}
    BY Spelled DEF Init
<1>2. \A p \in Procs : /\ proc[p].pc = "down"
                       /\ proc[p].run = 0
                       /\ proc[p].file = "none"
                       /\ \A f \in KeyFiles : proc[p].keys[f] = Nothing
    BY DEF Init, NoKeys
<1>3. TypeOK
  <2>1. NoKeys \in [KeyFiles -> Runs \cup {Nothing}]
      BY DEF NoKeys
  <2>2. [pc |-> "down", run |-> 0, file |-> "none", fd |-> Nothing, keys |-> NoKeys]
           \in ProcRecord
      BY <2>1, Spelled DEF ProcRecord, Places
  <2>3. proc \in [Procs -> ProcRecord]
      BY <2>2 DEF Init
  <2>4. /\ link \in [Names -> Inodes \cup {Nothing}]
        /\ data \in [Inodes -> Runs \cup {Nothing}]
        /\ client \in [Dialers -> ClientRecord]
        /\ used \in [KeyFiles -> SUBSET Runs]
        /\ overlapped \in BOOLEAN
      BY DEF Init, ClientRecord
  <2> QED
      BY <2>3, <2>4 DEF TypeOK, ProcRecord, Places, ClientRecord
<1>4. Stages
    BY <1>2 DEF Stages, StageOf, Creating
<1>5. OwnFile /\ ApartNames
    BY <1>1 DEF OwnFile, ApartNames
<1>6. Unborn
    BY <1>1, Spelled DEF Unborn, Inodes, Runs
<1>7. Unpublished
    BY <1>1, Spelled DEF Unpublished, Runs
<1>8. OneStarter
    BY <1>2 DEF OneStarter, Starting, Creating
<1>9. SiblingHeld
    BY <1>2 DEF SiblingHeld, SiblingOf
<1>10. NeverHalfWritten
    BY <1>1 DEF NeverHalfWritten
<1>11. KeysAgree
    BY <1>1, <1>2 DEF KeysAgree, Creating
<1>12. AddressStands
    BY <1>2 DEF AddressStands, AddressOf, Procs
<1> QED
    BY <1>3, <1>4, <1>5, <1>6, <1>7, <1>8, <1>9, <1>10, <1>11, <1>12 DEF DirInv

LEMMA NextDirInv == DirInv /\ [Next]_vars => DirInv'
<1> SUFFICES ASSUME DirInv, [Next]_vars
             PROVE  DirInv'
    OBVIOUS
<1>0. TypeOK
    BY DEF DirInv
<1>1. ASSUME NEW p \in Procs, Start(p)
      PROVE  DirInv'
    BY <1>1, StartKeeps
<1>2. ASSUME NEW p \in Procs, LoadKey(p)
      PROVE  DirInv'
    BY <1>2, LoadKeyKeeps
<1>3. ASSUME NEW p \in Procs, OpenTmp(p)
      PROVE  DirInv'
    BY <1>3, OpenTmpKeeps
<1>4. ASSUME NEW p \in Procs, WriteTmp(p)
      PROVE  DirInv'
    BY <1>4, WriteTmpKeeps
<1>5. ASSUME NEW p \in Procs, Rename(p)
      PROVE  DirInv'
    BY <1>5, RenameKeeps
<1>6. ASSUME NEW p \in Procs, Cleanup(p)
      PROVE  DirInv'
    BY <1>6, CleanupKeeps
<1>7. ASSUME NEW p \in Procs, Close(p)
      PROVE  DirInv'
    BY <1>7, CloseKeeps
<1>8. ASSUME NEW p \in Procs, Shutdown(p) \/ Kill(p)
      PROVE  DirInv'
    BY <1>8, EndKeeps
<1>9. ASSUME NEW q \in Dialers, ReadAddr(q) \/ Dial(q) \/ Done(q)
      PROVE  DirInv'
    BY <1>0, <1>9, ClientDoes, ClientKeeps
<1>10. CASE UNCHANGED vars
  <2>1. TypeOK'
      BY <1>0, <1>10 DEF TypeOK, vars
  <2>2. UNCHANGED <<link, data, proc, used, overlapped>>
      BY <1>10 DEF vars
  <2> QED
      BY <2>1, <2>2, ClientKeeps
<1> QED
    BY <1>1, <1>2, <1>3, <1>4, <1>5, <1>6, <1>7, <1>8, <1>9, <1>10 DEF Next

\* The invariant that the results below are read off from.
THEOREM DirInvariant == Spec => []DirInv
BY InitDirInv, NextDirInv, PTL DEF Spec

-----------------------------------------------------------------------------
(* What follows of it.                                                     *)
(***************************************************************************)

\* startNode, WriteFileAtomic, api.Serve and the client hold what the code's types
\* allow, for any number of processes, restarts and kills.
THEOREM DirTypeCorrect == Spec => []TypeOK
<1>1. DirInv => TypeOK
    BY DEF DirInv
<1> QED
    BY <1>1, DirInvariant, PTL

\* loadOrCreateIdentity and LoadOrCreateKey: as long as no two processes of the
\* directory start at the same time, all its nodes use one identity and one
\* encryption key, however often they are killed and wherever.
THEOREM KeysAreStable == Spec => []KeyStable
<1>1. DirInv => KeyStable
  <2> SUFFICES ASSUME DirInv, ~overlapped, NEW f \in KeyFiles
               PROVE  Cardinality(used[f]) <= 1
      BY DEF KeyStable, OneKey
  <2>1. \A v \in used[f] : KeyOf(f, v)
      BY DEF DirInv, KeysAgree
  <2>2. \A v, w \in used[f] : v = w
      BY <2>1 DEF KeyOf
  <2>3. CASE used[f] = {}
      BY <2>3, FS_EmptySet
  <2>4. CASE used[f] # {}
    <3>1. PICK v \in used[f] : TRUE
        BY <2>4
    <3>2. used[f] = {v}
        BY <2>2, <3>1
    <3>3. Cardinality({v}) = 1
        BY FS_Singleton
    <3>4. Cardinality(used[f]) = 1
        BY <3>2, <3>3
    <3> QED
        BY <3>4
  <2> QED
      BY <2>3, <2>4
<1> QED
    BY <1>1, DirInvariant, PTL

\* WriteFileAtomic: whoever opens a file under its own name finds it complete,
\* wherever its writer was killed, unless starts overlapped.
THEOREM FilesAreWhole == Spec => []NeverHalfWritten
<1>1. DirInv => NeverHalfWritten
    BY DEF DirInv
<1> QED
    BY <1>1, DirInvariant, PTL

\* startNode's order, keys before the API: a client that api.addr leads to a
\* node finds one that has both its keys, the ones on disk unless starts
\* overlapped.
THEOREM ClientsAreServedWithKeys == Spec => []ServedWithKeys
<1>1. DirInv => ServedWithKeys
  <2> SUFFICES ASSUME DirInv, NEW p \in Serves, link[Path("api.addr")] # Nothing,
                      proc[p].pc # "down", Contents("api.addr") = Run(p), NEW f \in KeyFiles
               PROVE  /\ proc[p].keys[f] # Nothing
                      /\ overlapped \/ KeyOf(f, proc[p].keys[f])
      BY DEF ServedWithKeys, KeyOf
  <2>1. TypeOK /\ Stages /\ OwnFile /\ Unpublished /\ KeysAgree /\ p \in Procs
      BY DEF DirInv, Procs
  <2> DEFINE i == link[Path("api.addr")]
  <2>2. i \in Inodes /\ i[2] = "api.addr"
      BY <2>1, Spelled DEF TypeOK, OwnFile
  <2>3. data[i] = <<p, proc[p].run>> /\ proc[p].run \in 1 .. MaxRuns
      BY <2>1, RunTyped DEF Contents, Run
  <2>4. Published(p)
    <3>1. proc[p].run < proc[p].run \/ Published(p)
        BY <2>1, <2>2, <2>3 DEF Unpublished
    <3> QED
        BY <2>3, <3>1
  <2>5. proc[p].keys[f] # Nothing
      BY <2>1, <2>4 DEF Published, Stages, StageOf, KeyFiles
  <2>6. overlapped \/ KeyOf(f, proc[p].keys[f])
      BY <2>1, <2>5 DEF KeysAgree
  <2> QED
      BY <2>5, <2>6
<1> QED
    BY <1>1, DirInvariant, PTL

\* api.Serve writes api.addr before the node is up and Close removes it first: a
\* directory with one `serve` leads its clients to that node exactly while it
\* is up.  (A second one would overwrite the address of the first.)
THEOREM ServeCanBeFound ==
    ASSUME OneServe
    PROVE  Spec => []CanBeFound
<1>1. DirInv => CanBeFound
    BY DEF DirInv, AddressStands, AddressOf, KeyOf, CanBeFound
<1> QED
    BY <1>1, DirInvariant, PTL

\* A step that leaves a settled key where it is, and makes no creator of it.
LEMMA SettledKept ==
    ASSUME NEW f \in KeyFiles, Settled(f), NEW p \in Procs, Others(p), PathsKept({f}),
           ~(proc'[p].file = f /\ proc'[p].pc \in Creating)
    PROVE  Settled(f)' /\ Contents(f)' = Contents(f)
<1>1. link'[Path(f)] = link[Path(f)] /\ link[Path(f)] # Nothing
    BY DEF PathsKept, Settled
<1>2. Contents(f)' = Contents(f)
    BY <1>1 DEF PathsKept, Contents
<1>3. \A q \in Procs : ~(proc'[q].file = f /\ proc'[q].pc \in Creating)
    BY DEF Others, Settled
<1> QED
    BY <1>1, <1>2, <1>3 DEF Settled

\* A key file that is there and that nobody is past finding missing is never
\* replaced, by no start, kill or left-over sibling, even when starts overlap:
\* LoadOrCreateKey creates a key only where it found none.
THEOREM SettledKeysAreKept == Spec => SettledKeysStay
<1> DEFINE Stay == \A f \in KeyFiles : Settled(f) => Settled(f)' /\ Contents(f)' = Contents(f)
<1>1. ASSUME DirInv, Next, NEW f \in KeyFiles, Settled(f)
      PROVE  Settled(f)' /\ Contents(f)' = Contents(f)
  <2>0. TypeOK /\ Stages /\ f \in DirFiles /\ f # "api.addr"
      BY <1>1, Spelled DEF DirInv
  <2>1. \A p \in Procs : ~(proc[p].file = f /\ proc[p].pc \in Creating)
      BY <1>1 DEF Settled
  <2>2. ASSUME NEW p \in Procs, Others(p), PathsKept({f}),
               ~(proc'[p].file = f /\ proc'[p].pc \in Creating)
        PROVE  Settled(f)' /\ Contents(f)' = Contents(f)
      BY <1>1, <2>2, SettledKept
  <2>3. ASSUME NEW p \in Procs, Start(p)
        PROVE  Settled(f)' /\ Contents(f)' = Contents(f)
    <3>1. Others(p) /\ proc'[p].pc = "read"
        BY <2>0, <2>3, StartDoes
    <3>2. PathsKept({f})
        BY <2>3 DEF Start, PathsKept
    <3> QED
        BY <2>2, <3>1, <3>2 DEF Creating
  <2>4. ASSUME NEW p \in Procs, LoadKey(p)
        PROVE  Settled(f)' /\ Contents(f)' = Contents(f)
    <3> DEFINE g == proc[p].file
    <3>1. /\ proc[p].pc = "read"
          /\ g \in KeyFiles
          /\ link' = link
          /\ data' = data
          /\ \/ link[Path(g)] = Nothing /\ Goes(p, "open", g)
             \/ Goes(p, "down", "none")
             \/ Contents(g) \in Runs /\ ProceedsFrom(p, g, Contents(g))
        BY <2>0, <2>4, LoadKeyDoes
    <3>2. PathsKept({f})
        BY <3>1 DEF PathsKept
    <3>3. CASE link[Path(g)] = Nothing /\ Goes(p, "open", g)
      <4>1. g # f
          BY <1>1, <3>3 DEF Settled
      <4>2. Others(p) /\ proc'[p].file = g
          BY <3>3 DEF Goes
      <4> QED
          BY <2>2, <3>2, <4>1, <4>2
    <3>4. CASE Goes(p, "down", "none")
      <4>1. Others(p) /\ proc'[p].pc = "down"
          BY <3>4 DEF Goes
      <4> QED
          BY <2>2, <3>2, <4>1 DEF Creating
    <3>5. CASE Contents(g) \in Runs /\ ProceedsFrom(p, g, Contents(g))
      <4>1. Contents(g) # Nothing /\ g \in DirFiles
          BY <3>1, <3>5, Spelled
      <4>2. Others(p) /\ (proc'[p].pc \in Creating => proc'[p].file \notin KeyFiles)
          BY <2>0, <3>1, <3>5, <4>1, ProceedsMoves
      <4> QED
          BY <1>1, <2>2, <3>2, <4>2
    <3> QED
        BY <3>1, <3>3, <3>4, <3>5
  <2>5. ASSUME NEW p \in Procs, OpenTmp(p)
        PROVE  Settled(f)' /\ Contents(f)' = Contents(f)
    <3>1. Others(p) /\ proc'[p].file = proc[p].file
        BY <2>0, <2>5, OpenTmpDoes DEF Goes
    <3>2. proc[p].pc \in Creating
        BY <2>5 DEF OpenTmp, Creating
    <3>3. PathsKept({f})
        BY <1>1, <2>0, <2>5, OpenKeepsPaths DEF PathsKept
    <3> QED
        BY <2>1, <2>2, <3>1, <3>2, <3>3
  <2>6. ASSUME NEW p \in Procs, WriteTmp(p)
        PROVE  Settled(f)' /\ Contents(f)' = Contents(f)
    <3>1. Others(p) /\ proc'[p].file = proc[p].file /\ proc[p].pc = "write"
        BY <2>0, <2>6, WriteTmpDoes DEF Goes
    <3>2. proc[p].pc \in Creating
        BY <3>1 DEF Creating
    <3>3. PathsKept({f})
        BY <1>1, <2>0, <2>1, <2>6, <3>2, WriteKeepsPaths
    <3> QED
        BY <2>1, <2>2, <3>1, <3>2, <3>3
  <2>7. ASSUME NEW p \in Procs, Rename(p)
        PROVE  Settled(f)' /\ Contents(f)' = Contents(f)
    <3> DEFINE g == proc[p].file
    <3>1. /\ proc[p].pc = "rename"
          /\ g \in DirFiles
          /\ data' = data
          /\ \/ link' = link /\ Goes(p, "cleanup", g)
             \/ /\ \A n \in Names \ {Path(g), Tmp(g)} : link'[n] = link[n]
                /\ ProceedsFrom(p, g, Run(p))
        BY <2>0, <2>7, RenameDoes
    <3>2. g # f
        BY <2>1, <3>1 DEF Creating
    <3>3. CASE link' = link /\ Goes(p, "cleanup", g)
      <4>1. Others(p) /\ proc'[p].pc = "cleanup"
          BY <3>3 DEF Goes
      <4>2. PathsKept({f})
          BY <3>1, <3>3 DEF PathsKept
      <4> QED
          BY <2>2, <4>1, <4>2 DEF Creating
    <3>4. CASE /\ \A n \in Names \ {Path(g), Tmp(g)} : link'[n] = link[n]
               /\ ProceedsFrom(p, g, Run(p))
      <4>1. Run(p) # Nothing
          BY <2>0, <3>1, RunTyped
      <4>2. Others(p) /\ (proc'[p].pc \in Creating => proc'[p].file \notin KeyFiles)
          BY <2>0, <3>1, <3>4, <4>1, ProceedsMoves
      <4>3. link'[Path(f)] = link[Path(f)]
          BY <2>0, <3>1, <3>2, <3>4, Spelled
      <4>4. PathsKept({f})
          BY <3>1, <4>3 DEF PathsKept
      <4> QED
          BY <1>1, <2>2, <4>2, <4>4
    <3> QED
        BY <3>1, <3>3, <3>4
  <2>8. ASSUME NEW p \in Procs, Cleanup(p)
        PROVE  Settled(f)' /\ Contents(f)' = Contents(f)
    <3>1. /\ Others(p) /\ proc'[p].pc = "down" /\ data' = data
          /\ proc[p].file \in DirFiles
          /\ \A n \in Names \ {Tmp(proc[p].file)} : link'[n] = link[n]
        BY <2>0, <2>8, CleanupDoes DEF Goes
    <3>2. PathsKept({f})
        BY <2>0, <3>1, Spelled DEF PathsKept
    <3> QED
        BY <2>2, <3>1, <3>2 DEF Creating
  <2>9. ASSUME NEW p \in Procs, Close(p)
        PROVE  Settled(f)' /\ Contents(f)' = Contents(f)
    <3>1. /\ Others(p) /\ proc'[p].pc \in {"down", "closing"} /\ data' = data
          /\ \A n \in Names \ {Path("api.addr")} : link'[n] = link[n]
        BY <2>0, <2>9, CloseDoes DEF Goes
    <3>2. PathsKept({f})
        BY <2>0, <3>1, Spelled DEF PathsKept
    <3> QED
        BY <2>2, <3>1, <3>2 DEF Creating
  <2>10. ASSUME NEW p \in Procs, Shutdown(p) \/ Kill(p)
         PROVE  Settled(f)' /\ Contents(f)' = Contents(f)
    <3>1. Others(p) /\ proc'[p].pc = "down" /\ data' = data /\ link' = link
        BY <2>0, <2>10, EndDoes DEF Goes
    <3>2. PathsKept({f})
        BY <3>1 DEF PathsKept
    <3> QED
        BY <2>2, <3>1, <3>2 DEF Creating
  <2>11. ASSUME NEW q \in Dialers, ReadAddr(q) \/ Dial(q) \/ Done(q)
         PROVE  Settled(f)' /\ Contents(f)' = Contents(f)
    <3>1. UNCHANGED <<link, data, proc>>
        BY <2>0, <2>11, ClientDoes
    <3> QED
        BY <1>1, <3>1 DEF Settled, Contents
  <2> QED
      BY <1>1, <2>3, <2>4, <2>5, <2>6, <2>7, <2>8, <2>9, <2>10, <2>11 DEF Next
<1>2. DirInv /\ [Next]_vars => [Stay]_vars
    BY <1>1
<1> QED
    BY <1>2, DirInvariant, PTL DEF Spec, SettledKeysStay
=============================================================================
