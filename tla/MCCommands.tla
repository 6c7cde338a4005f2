----------------------------- MODULE MCCommands ------------------------------
(* Values of the constants of module Commands for its run.                 *)
EXTENDS Commands, TLC

CONSTANTS q1, q2

\* A command that changes the key, and one of any kind.
MCOps == (q1 :> {"put", "rm", "alias"}) @@ (q2 :> AllOps \ {"put"})
=============================================================================
