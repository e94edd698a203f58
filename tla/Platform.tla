------------------------------ MODULE Platform ------------------------------
(***************************************************************************)
(* The API server (crates/api, crates/db, crates/auth): users and          *)
(* sessions, the rows that operators keep, and the console.  Its handlers  *)
(* share the database's pool and no table: what is done to one part leaves *)
(* the others as they are, and a behaviour has the requests of one part.   *)
(***************************************************************************)
EXTENDS Accounts

CONSTANTS
  Ids, Owner, Mint, Kept,                             \* of Records
  Clients, Capacity                                   \* of Console

VARIABLES
  part,
  table, rows, born, rowRequest,                      \* of Records
  switch, writer, command, events, client             \* of Console

accountVars == vars

recordVars == <<table, rows, born, rowRequest>>

consoleVars == <<switch, writer, command, events, client>>

platformVars == <<part, accountVars, recordVars, consoleVars>>

Rec == INSTANCE Records WITH request <- rowRequest

Con == INSTANCE Console WITH request <- command

PlatformInit ==
  /\ part \in {"accounts", "records", "console"}
  /\ Init /\ Rec!Init /\ Con!Init
  /\ part # "records" => table = "wallets" /\ rows = << >>
  /\ part # "accounts" => users = << >>

PlatformNext ==
  /\ part' = part
  /\ \/ part = "accounts" /\ Next /\ UNCHANGED <<recordVars, consoleVars>>
     \/ part = "records" /\ Rec!Next /\ UNCHANGED <<accountVars, consoleVars>>
     \/ part = "console" /\ Con!Next /\ UNCHANGED <<accountVars, recordVars>>

PlatformSpec == PlatformInit /\ [][PlatformNext]_platformVars

-----------------------------------------------------------------------------
\* Of Records (wallets.rs:100): the active wallet is lost in a race only.
ActiveWalletLostInRaceOnly == Rec!ActiveWalletLostInRaceOnly

\* Of Console (bot.rs:48): a page that has heard everything shows the stored switch.
BadgeTellsTheSwitch == Con!BadgeTellsTheSwitch
=============================================================================
