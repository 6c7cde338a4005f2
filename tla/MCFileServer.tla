---------------------------- MODULE MCFileServer -----------------------------
(* FileServer for TLC: where the clients are, and what each may call.        *)
EXTENDS FileServer, TLC

CONSTANTS n1, n2, n3, c1, c2, c3

\* One client on each of the first two nodes.
MCApart == (c1 :> n1) @@ (c2 :> n2)
\* Both clients, or all three, on the first node.
MCTogether == (c1 :> n1) @@ (c2 :> n1)
MCThree == (c1 :> n1) @@ (c2 :> n1) @@ (c3 :> n1)

\* An owner that puts, shares, deletes and fetches, and a peer that shares loose
\* files and drops connections; puts, gets of the latest and deletes; these and
\* shares, with a disconnect; an owner's calls and another's puts; the owner's
\* calls split among three.
MCShares == (c1 :> {"put", "share", "delete", "getLatest"}) @@
            (c2 :> {"shareLoose", "disconnect"})
MCLatest == [c \in Clients |-> {"put", "getLatest", "delete"}]
MCCalls == (c1 :> {"put", "getLatest", "share", "delete"}) @@
           (c2 :> {"put", "getLatest", "share", "delete", "disconnect"})
MCOwner == (c1 :> {"put", "get", "delete"}) @@ (c2 :> {"put"})
MCEach == (c1 :> {"put"}) @@ (c2 :> {"get", "delete"}) @@ (c3 :> {"get"})

\* Versions are alike, and so are nodes without clients.
MCIds == Permutations(VersionIDs)
MCPeers == Permutations(Nodes \ {At[c] : c \in Clients})
MCPeersAndIds == MCPeers \cup MCIds
=============================================================================
