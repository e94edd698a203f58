----------------------------- MODULE MCPlatform -----------------------------
(***************************************************************************)
(* Four requests of one part, on an empty database or on one that an       *)
(* earlier run left (two active users; an active wallet); two users of one *)
(* name, two tokens of one mint; one page, and a channel that keeps one    *)
(* event.                                                                  *)
(***************************************************************************)
EXTENDS Platform, TLC

CONSTANTS r1, r2, r3, r4

MCUsername == [u \in Users |-> IF u = "admin" THEN "admin" ELSE "ann"]

MCDatabases ==
  {<< >>, [u \in {"admin", "ann"} |-> [status |-> "active", password |-> 0]]}

MCOwner == [i \in Ids |-> IF i = "c" THEN "bob" ELSE "ann"]

MCMint == [i \in Ids |-> IF i = "c" THEN "y" ELSE "x"]

Perms == Permutations(Requests)
=============================================================================
