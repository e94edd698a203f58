-------------------------- MODULE BundleSubmission --------------------------
(***************************************************************************)
(* crates/jito-handler/src/bundle.rs: a batch of swap transactions is      *)
(* signed, given a tip transaction, posted to the block engine and then    *)
(* polled by a task of its own.                                            *)
(*                                                                         *)
(* The engine may hold a bundle whose answer was lost, so the handler may  *)
(* post what the engine already has, and a caller may submit a batch again *)
(* after an error.  The engine lands a bundle whole or not at all, and the *)
(* chain executes a transaction at most once.                              *)
(***************************************************************************)
EXTENDS Integers, Sequences, SequencesExt, FiniteSets

CONSTANTS
  Batches,                     \* the sequences of payloads a caller may submit
  Profits,                     \* expected_profit_lamports
  Hashes,                      \* the blockhashes an RPC node may return
  TipAccounts,                 \* JITO_TIP_ACCOUNTS
  MIN_TIP_LAMPORTS,
  MAX_BUNDLE_TXS, MAX_RETRIES, STATUS_POLL_ATTEMPTS,
  BLOCKHASH_RETRIES,           \* MAX_RETRIES of rpc.rs
  MaxCalls                     \* bound: submissions of a session

VARIABLES
  call,                        \* the submission under way, or Idle
  calls,                       \* how many have begun
  polls,                       \* the tasks polling a bundle's status
  held,                        \* engine: the bundles it has received and not dropped
  ran                          \* chain: the transactions it has executed

vars == <<call, calls, polls, held, ran>>

-----------------------------------------------------------------------------
(* A payload is its name, its first bytes and its length.  keypair.rs finds *)
(* the message behind the signature slots that a compact-u16 counts.        *)

\* decode_compact_u16
DecodeCompactU16(b) ==
  LET low(n) == b[n] % 128
      more(n) == b[n] >= 128
  IN CASE b = << >> -> [value |-> 0, size |-> 0]
       [] Len(b) >= 1 /\ (~more(1) \/ Len(b) = 1) -> [value |-> low(1), size |-> 1]
       [] Len(b) >= 2 /\ more(1) /\ (~more(2) \/ Len(b) = 2) ->
            [value |-> low(1) + 128 * b[2], size |-> 2]
       [] OTHER -> [value |-> (low(1) + 128 * low(2) + 16384 * b[3]) % 65536, size |-> 3]

Behind(p) ==
  LET versioned == p.head[1] >= 128
      sigs == DecodeCompactU16(IF versioned THEN Tail(p.head) ELSE p.head)
  IN [sigs |-> sigs.value,
      message |-> (IF versioned THEN 1 ELSE 0) + sigs.size + 64 * sigs.value]

\* sign_transaction: the message can be found and has a slot for the operator
Signs(p) ==
  /\ p.length > 0
  /\ Behind(p).sigs > 0 /\ Behind(p).message <= p.length

\* slip: the payload is signed over the fresh blockhash
FreshSwapTx(p, hash) == [kind |-> "swap", of |-> p.name, hash |-> hash, to |-> "own"]

\* The signature depends on the message only: signing again gives the same transaction.
SwapTx(p, hash) == [kind |-> "swap", of |-> p.name, hash |-> "own", to |-> "own"]

TipTx(tip, hash, account) == [kind |-> "tip", of |-> tip, hash |-> hash, to |-> account]

\* TipStrategy::compute_tip: record_outcome has no caller, the fraction stays at 30 %
ComputeTip(profit) ==
  LET raw == (profit * 30) \div 100
      ceiling == (profit * 70) \div 100
      cap == IF ceiling > MIN_TIP_LAMPORTS THEN ceiling ELSE MIN_TIP_LAMPORTS
  IN IF profit = 0 \/ raw < MIN_TIP_LAMPORTS THEN MIN_TIP_LAMPORTS
     ELSE IF raw > cap THEN cap ELSE raw

\* The first payloads of the batch, the ones that cannot be signed skipped.
SignAll(batch, hash) ==
  LET signable == {i \in 1 .. Len(batch) : i < MAX_BUNDLE_TXS /\ Signs(batch[i])}
      nth(n) == CHOOSE i \in signable : Cardinality({j \in signable : j <= i}) = n
  IN [n \in 1 .. Cardinality(signable) |-> SwapTx(batch[nth(n)], hash)]

-----------------------------------------------------------------------------
Idle == [stage |-> "idle", batch |-> << >>, tip |-> 0, to |-> "own", try |-> 0, txs |-> << >>]

Init == call = Idle /\ calls = 0 /\ polls = {} /\ held = {} /\ ran = {}

Submit(batch, profit, account) ==
  /\ call = Idle /\ calls < MaxCalls
  /\ call' = [stage |-> "blockhash", batch |-> batch, tip |-> ComputeTip(profit),
              to |-> account, try |-> 1, txs |-> << >>]
  /\ calls' = calls + 1
  /\ UNCHANGED <<polls, held, ran>>

Return == call' = Idle

WorthPosting(txs) == txs # << >>

BlockhashArrives(hash) ==
  /\ call.stage = "blockhash"
  /\ LET txs == SignAll(call.batch, hash)
         bundle == Append(txs, TipTx(call.tip, hash, call.to))
     IN IF WorthPosting(txs) /\ Len(bundle) <= MAX_BUNDLE_TXS
        THEN call' = [call EXCEPT !.stage = "post", !.try = 1, !.txs = bundle]
        ELSE Return                                     \* Err(Signing), Err(TooMany...)
  /\ UNCHANGED <<calls, polls, held, ran>>

BlockhashFails ==
  /\ call.stage = "blockhash"
  /\ IF call.try < BLOCKHASH_RETRIES THEN call' = [call EXCEPT !.try = @ + 1] ELSE Return
  /\ UNCHANGED <<calls, polls, held, ran>>

\* The engine answers with a UUID: a task of its own polls the bundle.
Accepted ==
  /\ call.stage = "post"
  /\ held' = held \cup {call.txs}
  /\ polls' = polls \cup {[call |-> calls, bundle |-> call.txs, left |-> STATUS_POLL_ATTEMPTS]}
  /\ Return
  /\ UNCHANGED <<calls, ran>>

\* An error in the answer ends the call, an answer that cannot be read ends it with Ok(None).
Answered ==
  /\ call.stage = "post"
  /\ held' \in {held, held \cup {call.txs}}
  /\ Return
  /\ UNCHANGED <<calls, polls, ran>>

\* slip: the count of posts starts over
PostUntilAnswered ==
  /\ call.stage = "post"
  /\ held' \in {held, held \cup {call.txs}}
  /\ call' = [call EXCEPT !.try = (@ % MAX_RETRIES) + 1]
  /\ UNCHANGED <<calls, polls, ran>>

\* An HTTP error or no answer: the same transactions are posted once more.
PostFails ==
  /\ call.stage = "post"
  /\ held' \in {held, held \cup {call.txs}}
  /\ IF call.try < MAX_RETRIES THEN call' = [call EXCEPT !.try = @ + 1] ELSE Return
  /\ UNCHANGED <<calls, polls, ran>>

\* poll_bundle_status_task: landed, failed and invalid end it, all else is one poll less
PollOnce(t) ==
  /\ t \in polls
  /\ \/ polls' = polls \ {t}
     \/ polls' = (polls \ {t}) \cup (IF t.left > 1 THEN {[t EXCEPT !.left = @ - 1]} ELSE {})
  /\ UNCHANGED <<call, calls, held, ran>>

-----------------------------------------------------------------------------
(* The block engine.                                                        *)

Land(b) ==
  /\ b \in held
  /\ ToSet(b) \cap ran = {}
  /\ held' = held \ {b}
  /\ ran' = ran \cup ToSet(b)
  /\ UNCHANGED <<call, calls, polls>>

Drop(b) ==
  /\ b \in held
  /\ held' = held \ {b}
  /\ UNCHANGED <<call, calls, polls, ran>>

Handler ==
  (\E h \in Hashes : BlockhashArrives(h)) \/ BlockhashFails \/ Accepted \/ Answered \/ PostFails

Next ==
  \/ \E b \in Batches, p \in Profits, a \in TipAccounts : Submit(b, p, a)
  \/ Handler
  \/ \E t \in polls : PollOnce(t)
  \/ \E b \in held : Land(b) \/ Drop(b)

-----------------------------------------------------------------------------
SwapRuns == {t \in ran : t.kind = "swap"}

\* No swap of a batch runs twice, whatever is posted and submitted again.
SwapsRunOnce == \A s, t \in SwapRuns : s.of = t.of => s = t

\* Each tip paid bought a swap of its own.
TipsBuySwaps == Cardinality(ran \ SwapRuns) <= Cardinality(SwapRuns)
=============================================================================
