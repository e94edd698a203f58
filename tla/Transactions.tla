---------------------------- MODULE Transactions ----------------------------
(***************************************************************************)
(* What the operator's key signs, side by side: the startup proof of       *)
(* main.rs, the orders of Jupiter Ultra with their tip, the flash loans    *)
(* and the bundles of crates/jito-handler.                                 *)
(*                                                                         *)
(* They share no state, so each behaviour follows one of them: desk says   *)
(* which.  An order or a loan is one call of a pure function, and job      *)
(* holds its argument and its result until the caller has it.              *)
(***************************************************************************)
EXTENDS FlashLoanTx

CONSTANTS
  \* startup
  Balances, TipLamports, Fee, Reserve, MAX_ATTEMPTS, CONFIRM_POLLS,
  \* orders
  Pubkeys, Operator, TipAccount, SystemProgram, MaxIndex, Messages, Tips,
  \* loans, with the pubkeys of FlashLoanTx
  Budgets, Swaps, Tables, Lamports,
  \* bundles
  Batches, Profits, Hashes, TipAccounts, MIN_TIP_LAMPORTS, MAX_BUNDLE_TXS,
  MAX_RETRIES, STATUS_POLL_ATTEMPTS, BLOCKHASH_RETRIES, MaxCalls

\* Ultra's messages are well formed; a wallet that startup lets through can pay for
\* every attempt and a tip.
ASSUME SignersAssumption ==
  /\ {Operator, TipAccount, SystemProgram} \subseteq Pubkeys
  /\ TipAccount # SystemProgram
  /\ MaxIndex \in Nat
  /\ Balances \subseteq Nat
  /\ {TipLamports, Fee, Reserve, MAX_ATTEMPTS, CONFIRM_POLLS} \subseteq Nat
  /\ MAX_ATTEMPTS # 0 /\ Reserve >= MAX_ATTEMPTS * Fee

\* Batches are vectors of payloads, amounts are u64, and no swap borrows.
ASSUME BatchesAssumption == \A b \in Batches : Len(b) \in Nat

ASSUME LoansAssumption ==
  /\ Lamports \subseteq Nat
  /\ \A q \in Budgets \cup Swaps :
        /\ q \in Seq({q[n] : n \in DOMAIN q})
        /\ \A n \in 1 .. Len(q) :
              /\ q[n].data.op \notin {"borrow", "repay"}
              /\ q[n].accounts \in Seq({q[n].accounts[i] : i \in DOMAIN q[n].accounts})
  /\ \A b \in Budgets : Len(b) < 256

\* A loan names at most 256 accounts, a number of them is a byte; what the legacy loan
\* writes to is neither a program nor one of the accounts that it only reads.
ASSUME PubkeysAssumption ==
  /\ Tables \subseteq Seq(Seq(Int))
  /\ \A b \in Budgets, s1, s2 \in Swaps, l \in Lamports, t \in Tips :
        LET named == Named(V0Instructions(b, s1, s2, l, SolendRepayAmount(l), t))
        IN named \subseteq Int /\ IsFiniteSet(named) /\ Cardinality(named) <= 256
  /\ \A s \in Swaps :
        s[1].program \in Int \ {Payer, LiquiditySupply, WsolAta, SolReserve, FeeReceiver,
                                Authority}
  /\ {Payer, LiquiditySupply, WsolAta, SolReserve, FeeReceiver, Authority}
        \cap {Solend, TokenProgram, SysvarInstructions, MainPool, System, AtaProgram} = {}

VARIABLES
  desk, job,
  stage, attempt, confirmPolls, wallet, sent, landed, proven,
  call, calls, polls, held, ran

startupVars == <<stage, attempt, confirmPolls, wallet, sent, landed, proven>>
bundleVars == <<call, calls, polls, held, ran>>
vars == <<desk, job, startupVars, bundleVars>>

Startup == INSTANCE StartupProof WITH Tip <- TipLamports, polls <- confirmPolls

Order == INSTANCE TipTransfer

Bundle == INSTANCE BundleSubmission

ASSUME OrdersAssumption == \A m \in Messages : Order!WellFormed(m)

NoJob == [kind |-> "none"]

Init ==
  /\ desk \in {"startup", "orders", "loans", "bundles"}
  /\ job = NoJob
  /\ Startup!Init /\ Bundle!Init

-----------------------------------------------------------------------------
\* attach_jito_tip_and_sign; Ultra's message is well formed
SignOrder(m, tip) ==
  /\ desk = "orders" /\ job = NoJob
  /\ job' = IF Order!Signable(m, tip)
            THEN [kind |-> "order", before |-> m, after |-> Order!AttachTip(m)]
            ELSE [kind |-> "refused", before |-> m]
  /\ UNCHANGED <<desk, startupVars, bundleVars>>

\* build_atomic_flash_v0, with a repayment of solend_repay_amount
BuildLoan(budget, swap1, swap2, lamports, tip, tables, home) ==
  /\ desk = "loans" /\ job = NoJob
  /\ SolendRepayAmount(lamports) > lamports        \* else Err
  /\ LET ixs == V0Instructions(budget, swap1, swap2, lamports,
                               SolendRepayAmount(lamports), tip)
     IN job' = [kind |-> "loan", ixs |-> ixs, msg |-> V0Message(ixs, tables, home)]
  /\ UNCHANGED <<desk, startupVars, bundleVars>>

\* build_flash_loan_tx, which is given the programs of its swaps
BuildLegacyLoan(swaps, lamports) ==
  /\ desk = "loans" /\ job = NoJob
  /\ LET repay == SolendRepayAmount(lamports)
     IN job' = [kind |-> "loan",
                ixs |-> V0Instructions(<< >>, LegacySwaps(swaps), << >>,
                                       lamports, repay, 0),
                msg |-> LegacyMessage(swaps, lamports, repay)]
  /\ UNCHANGED <<desk, startupVars, bundleVars>>

\* SolendFlashLoan::build_plan
PlanLoan(lamports) ==
  /\ desk = "loans" /\ job = NoJob /\ lamports > 0
  /\ job' = [kind |-> "plan", plan |-> BuildPlan(lamports)]
  /\ UNCHANGED <<desk, startupVars, bundleVars>>

HandOver ==
  /\ job # NoJob
  /\ job' = NoJob
  /\ UNCHANGED <<desk, startupVars, bundleVars>>

StartupStep == desk = "startup" /\ Startup!Next /\ UNCHANGED <<desk, job, bundleVars>>
BundleStep == desk = "bundles" /\ Bundle!Next /\ UNCHANGED <<desk, job, startupVars>>

MainStep == desk = "startup" /\ Startup!Main /\ UNCHANGED <<desk, job, bundleVars>>
HandlerStep == desk = "bundles" /\ Bundle!Handler /\ UNCHANGED <<desk, job, startupVars>>
PollStep(c) ==
  /\ desk = "bundles"
  /\ \E t \in polls : t.call = c /\ Bundle!PollOnce(t)
  /\ UNCHANGED <<desk, job, startupVars>>

Next ==
  \/ StartupStep
  \/ \E m \in Messages, t \in Tips : SignOrder(m, t)
  \/ \E b \in Budgets, s1, s2 \in Swaps, l \in Lamports, t \in Tips, tables \in Tables :
        \E home \in Homes(tables) : BuildLoan(b, s1, s2, l, t, tables, home)
  \/ \E s1, s2 \in Swaps, l \in Lamports :
        BuildLegacyLoan(<<s1[1].program, s2[1].program>>, l)
  \/ \E l \in Lamports : PlanLoan(l)
  \/ HandOver
  \/ BundleStep

\* The runtime polls every task again and every call has a timeout: main, a submission
\* and the task that polls a bundle go on.
Spec ==
  /\ Init /\ [][Next]_vars
  /\ WF_vars(MainStep) /\ WF_vars(HandlerStep)
  /\ \A c \in 1 .. MaxCalls : WF_vars(PollStep(c))

-----------------------------------------------------------------------------
\* What main signs at startup reaches the chain only from a wallet that passed every
\* check, and all the attempts together leave the lamports of the first tip.
ProofIsAffordable == Startup!ProofIsAffordable

\* The attempts of the startup proof end with the first one that is seen confirmed.
OneProof == Startup!OneProof

\* An order signed with its tip still asks Jupiter's programs for what Ultra ordered and
\* pays the tip from the operator, unless the message loads addresses and lacks the
\* system program (attach_jito_tip_and_sign).
OrderSurvivesTip ==
  job.kind = "order" /\ ~Order!Shifted(job.before)
    => Order!SameInstructions(job.before, job.after) /\ Order!PaysTip(job.after)

\* Both builders: the runtime reads the instructions that were meant, with the rights
\* they need, exactly as long as no lookup table loads a read-only account before
\* another table loads a writable one.  The builder does not keep to that: it numbers
\* table after table.  (The runtime also asks that no program is loaded from a table.)
LoanReadsAsMeant ==
  job.kind = "loan"
    => /\ Read(job.msg) = Meant(job.ixs) <=> Aligned(job.msg)
       /\ RightsKept(job.ixs, job.msg)

\* Each loan is paid back after the swaps, in one transaction, by an instruction that
\* names its borrow by its place and covers the fee, whatever budget instructions and
\* swaps come before (build_atomic_flash_v0, build_flash_loan_tx).
LoanIsRepaid == job.kind = "loan" => Paired(job.ixs)

\* However often a bundle is posted and a batch submitted again, no swap runs twice and
\* each tip paid bought a swap (submit_live, post_bundle).
BundlesPayOnce == Bundle!SwapsRunOnce /\ Bundle!TipsBuySwaps

\* Startup, every submission and every status poll come to an end.
AllEnd ==
  /\ desk = "startup" ~> stage \in {"loop", "stopped"}
  /\ desk = "bundles" ~> call = Bundle!Idle
  /\ \A c \in 1 .. MaxCalls : (\E t \in polls : t.call = c) ~> \A t \in polls : t.call # c

-----------------------------------------------------------------------------
(* What comments of the source say and the code does not do.                 *)

\* lib.rs:9, transaction.rs "appends Jito tip instruction": to append is to leave the
\* order as it is.
OrderUnchanged == job.kind = "order" => Order!SameInstructions(job.before, job.after)

\* solend.rs:140, "Fee = ceil(amount * fee_bps / 10_000)": the fee of a plan is the one
\* that Solend takes, rounded up.
PlanFeeIsCeiling ==
  job.kind = "plan" => job.plan.fee >= CeilDiv(job.plan.borrow * 9, 10000)
=============================================================================
