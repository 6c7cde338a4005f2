------------------------------- MODULE Custody -------------------------------
(***************************************************************************)
(* What replication promises (internal/server), without streams, blocks or *)
(* indexes: nodes hold whole copies of the versions of files, and callers  *)
(* are told of some of the copies.  Only a node's own copies of its own    *)
(* files are ever lost.                                                    *)
(***************************************************************************)
CONSTANTS Nodes, Keys, Ids

\* A file is a key of its owner; a place is a file as one node keeps it.
Files == Nodes \X Keys
Places == Nodes \X Nodes \X Keys
Of(s) == <<s[2], s[3]>>
Home(s) == s[1] = s[2]

VARIABLES
    made,   \* made[f]: the versions ever made of a file
    held,   \* <<s, id>>: the whole copies, and where they are
    told    \* <<s, id>>: the copies some caller was told of
vars == <<made, held, told>>

Init == made = [f \in Files |-> {}] /\ held = {} /\ told = {}

\* A version is made, by a put or for a share, at the node that owns the file.
Make(s, id) ==
    /\ Home(s)
    /\ \A f \in Files : id \notin made[f]
    /\ made' = [made EXCEPT ![Of(s)] = @ \cup {id}]
    /\ held' = held \cup {<<s, id>>}
    /\ UNCHANGED told

\* A custodian comes to hold a version; or its owner does again.
Take(s, id) ==
    /\ id \in made[Of(s)]
    /\ held' = held \cup {<<s, id>>}
    /\ UNCHANGED <<made, told>>

\* An owner loses copies of its own: a delete, or a restore over an old copy.
Lose(s) ==
    /\ Home(s)
    /\ \E lost \in SUBSET {h \in held : h[1] = s} : held' = held \ lost
    /\ UNCHANGED <<made, told>>

\* A caller is told that a custodian has taken a copy.
Tell(s, id) ==
    /\ ~Home(s)
    /\ <<s, id>> \in held
    /\ told' = told \cup {<<s, id>>}
    /\ UNCHANGED <<made, held>>

Next == \E s \in Places : Lose(s) \/ \E id \in Ids : Make(s, id) \/ Take(s, id) \/ Tell(s, id)

Spec == Init /\ [][Next]_vars
=============================================================================
