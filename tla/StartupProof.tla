---------------------------- MODULE StartupProof ----------------------------
(***************************************************************************)
(* What crates/bot/src/main.rs does before its hot loop: check the         *)
(* configuration, the RPC node and the wallet, and prove that it can trade *)
(* by sending a memo transaction and waiting until it is confirmed.        *)
(*                                                                         *)
(* Each attempt signs another text (the time), so each is a transaction of *)
(* its own: what was sent before and not seen may still land and cost its  *)
(* fee.  The attempt's number stands for its transaction.                  *)
(***************************************************************************)
EXTENDS Integers, Sequences

CONSTANTS
  Balances,                    \* lamports the operator wallet may hold
  Tip,                         \* config.jito_tip_lamports
  Fee,                         \* what the chain takes for a transaction
  Reserve,                     \* 10_000 + 5_000 of enforce_wallet_balance
  MAX_ATTEMPTS, CONFIRM_POLLS

VARIABLES
  stage,                       \* the await main is in
  attempt,                     \* of force_startup_transaction
  polls,                       \* status polls of the attempt
  wallet,                      \* chain: the wallet's lamports
  sent,                        \* chain: attempts the node accepted, not yet on the chain
  landed,                      \* chain: attempts on the chain
  proven                       \* attempts seen confirmed

vars == <<stage, attempt, polls, wallet, sent, landed, proven>>
bot == <<stage, attempt, polls, proven>>
chain == <<wallet, sent, landed>>

Init ==
  /\ stage = "environment" /\ attempt = 0 /\ polls = 0
  /\ wallet \in Balances
  /\ sent = {} /\ landed = {} /\ proven = {}

\* The checks in their order; each one stops the bot when it fails.
Checks == <<"environment", "slot", "keypair", "balance", "owner">>

Go(s) == stage' = s /\ UNCHANGED <<attempt, polls, proven, chain>>

\* slip: a wallet that can pay the tip
CanPayTip == wallet >= Tip

\* enforce_wallet_balance
Affordable == wallet >= Reserve + Tip

CheckPasses ==
  \E i \in 1 .. Len(Checks) :
     /\ stage = Checks[i]
     /\ stage = "balance" => Affordable
     /\ Go(IF i < Len(Checks) THEN Checks[i + 1] ELSE "connections")

CheckFails ==
  /\ \E i \in 1 .. Len(Checks) : stage = Checks[i]
  /\ Go("stopped")

\* validate_all_connections only logs what it finds.
ValidateConnections ==
  /\ stage = "connections"
  /\ stage' = "blockhash" /\ attempt' = 1
  /\ UNCHANGED <<polls, proven, chain>>

-----------------------------------------------------------------------------
(* force_startup_transaction                                                *)

NextAttempt ==
  IF attempt < MAX_ATTEMPTS THEN stage' = "blockhash" /\ attempt' = attempt + 1
                            ELSE stage' = "loop" /\ attempt' = attempt

\* No blockhash, a build that fails, a simulation that fails or rejects, a send refused.
AttemptFails ==
  /\ stage \in {"blockhash", "simulate", "send"}
  /\ NextAttempt
  /\ UNCHANGED <<polls, proven, chain>>

BuildTransaction ==
  /\ stage = "blockhash"
  /\ stage' = "simulate"
  /\ UNCHANGED <<attempt, polls, proven, chain>>

SimulationPasses ==
  /\ stage = "simulate"
  /\ stage' = "send"
  /\ UNCHANGED <<attempt, polls, proven, chain>>

Send ==
  /\ stage = "send"
  /\ sent' = sent \cup {attempt}
  /\ stage' = "confirm" /\ polls' = 1
  /\ UNCHANGED <<attempt, proven, wallet, landed>>

SendReplyLost ==
  /\ stage = "send"
  /\ sent' = sent \cup {attempt}
  /\ NextAttempt
  /\ UNCHANGED <<polls, proven, wallet, landed>>

\* slip: a confirmation does not end the attempts
ConfirmAndGoOn ==
  /\ stage = "confirm" /\ attempt \in landed
  /\ proven' = proven \cup {attempt}
  /\ NextAttempt
  /\ UNCHANGED <<polls, chain>>

\* confirm_transaction finds the status of this attempt's transaction
SeenConfirmed ==
  /\ stage = "confirm" /\ attempt \in landed
  /\ proven' = proven \cup {attempt}
  /\ stage' = "loop"
  /\ UNCHANGED <<attempt, polls, chain>>

NotYetConfirmed ==
  /\ stage = "confirm" /\ polls < CONFIRM_POLLS
  /\ polls' = polls + 1
  /\ UNCHANGED <<stage, attempt, proven, chain>>

\* The last poll, an error of the RPC node, or an error of the transaction.
ConfirmationFails ==
  /\ stage = "confirm"
  /\ NextAttempt
  /\ UNCHANGED <<polls, proven, chain>>

Lands ==
  \E a \in sent :
     /\ sent' = sent \ {a}
     /\ landed' = landed \cup {a}
     /\ wallet' = wallet - Fee
     /\ UNCHANGED bot

Expires ==
  \E a \in sent : sent' = sent \ {a} /\ UNCHANGED <<bot, wallet, landed>>

Main ==
  \/ CheckPasses \/ CheckFails \/ ValidateConnections
  \/ BuildTransaction \/ SimulationPasses \/ AttemptFails
  \/ Send \/ SendReplyLost
  \/ SeenConfirmed \/ NotYetConfirmed \/ ConfirmationFails

Next == Main \/ Lands \/ Expires

-----------------------------------------------------------------------------
\* What reached the node came from a wallet that passed every check, and the proof,
\* however often it is sent, leaves the lamports of the first tip.
ProofIsAffordable == landed # {} => wallet >= Tip

\* The attempts end with the first one seen confirmed, and that one is on the chain.
OneProof ==
  /\ proven \subseteq landed
  /\ \A a \in proven, b \in sent \cup landed : b <= a
=============================================================================
