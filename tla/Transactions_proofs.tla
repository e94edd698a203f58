------------------------- MODULE Transactions_proofs -------------------------
(***************************************************************************)
(* Proofs about Transactions: for every well-formed message and every      *)
(* number of attempts.                                                     *)
(***************************************************************************)
EXTENDS Transactions, FiniteSetTheorems, SequenceTheorems, TLAPS

-----------------------------------------------------------------------------
(* The message with its tip.                                                *)

LEMMA Sizes ==
  ASSUME NEW m \in Messages, NEW tip, Order!Signable(m, tip)
  PROVE  /\ m.size \in Nat \ {0} /\ m.readonly \in Nat
         /\ Order!InsertPos(m) \in 1 .. m.size
         /\ Order!InsertPos(m) = m.size - m.readonly
         /\ Order!Gained(m) \in {1, 2}
         /\ Order!HasSystem(m) <=> Order!Gained(m) = 1
BY OrdersAssumption DEF Order!WellFormed, Order!Signable, Order!InsertPos, Order!Gained

LEMMA After ==
  ASSUME NEW m, NEW tip
  PROVE  LET t == Order!AttachTip(m) IN
         /\ t.size = m.size + Order!Gained(m)
         /\ t.readonly = m.readonly + Order!Gained(m) - 1
         /\ t.loaded = m.loaded
         /\ t.keys = [i \in 0 .. m.size + Order!Gained(m) - 1 |->
                        IF i <= m.size THEN Order!WithTip(m)[i] ELSE SystemProgram]
         /\ t.ixs = Append(Order!Adjusted(m), Order!TipInstruction(m))
BY DEF Order!AttachTip

LEMMA WritableEnd ==
  ASSUME NEW m \in Messages, NEW tip, Order!Signable(m, tip)
  PROVE  Order!AttachTip(m).size - Order!AttachTip(m).readonly = Order!InsertPos(m) + 1
<1>1. ASSUME NEW size \in Nat, NEW readonly \in Nat, NEW g \in Nat
      PROVE  (size + g) - (readonly + g - 1) = (size - readonly) + 1
  OBVIOUS
<1>2. m.size \in Nat /\ m.readonly \in Nat /\ Order!Gained(m) \in Nat
  BY Sizes
<1>3. (m.size + Order!Gained(m)) - (m.readonly + Order!Gained(m) - 1)
        = (m.size - m.readonly) + 1
  BY <1>1, <1>2
<1> QED
  BY <1>3, After DEF Order!InsertPos

\* A number of the ordered message and its adjusted number mean the same account, with
\* the same right to write to it, unless it is a loaded one and two keys were gained.
LEMMA NumberKept ==
  ASSUME NEW m \in Messages, NEW tip, Order!Signable(m, tip),
         NEW i \in 0 .. m.size + Len(m.loaded) - 1,
         i >= m.size => Order!HasSystem(m)
  PROVE  LET t == Order!AttachTip(m) j == Order!AdjustIndex(m, i) IN
         Order!KeyOf(t, j) = Order!KeyOf(m, i) /\ Order!IsWritable(t, j) = Order!IsWritable(m, i)
<1> DEFINE t == Order!AttachTip(m)
           j == Order!AdjustIndex(m, i)
           P == Order!InsertPos(m)
           g == Order!Gained(m)
<1>1. /\ m.size \in Nat \ {0} /\ m.readonly \in Nat /\ P \in 1 .. m.size
      /\ P = m.size - m.readonly /\ g \in {1, 2}
      /\ Order!HasSystem(m) <=> g = 1
  BY Sizes
<1>2. m.loaded \in Seq(Order!Addresses) /\ Len(m.loaded) \in Nat
  BY OrdersAssumption DEF Order!WellFormed
<1>3. /\ t.size = m.size + g /\ t.readonly = m.readonly + g - 1 /\ t.loaded = m.loaded
      /\ t.keys = [n \in 0 .. m.size + g - 1 |->
                      IF n <= m.size THEN Order!WithTip(m)[n] ELSE SystemProgram]
  BY After
<1>4. j = IF i >= P THEN i + 1 ELSE i
  BY DEF Order!AdjustIndex
<1>9. t.size - t.readonly = P + 1
  BY WritableEnd
<1> HIDE DEF t, j, P, g
<1>5. CASE i < m.size
  <2>1. j \in 0 .. m.size /\ j < t.size /\ j # P
    <3>1. j \in 0 .. m.size /\ j # P
      BY <1>1, <1>4, <1>5
    <3> QED
      BY <1>1, <1>3, <3>1
  <2>2. Order!WithTip(m)[j] = m.keys[i]
    BY <1>1, <1>4, <1>5, <2>1 DEF Order!WithTip, P
  <2>3. Order!KeyOf(t, j) = m.keys[i]
    BY <1>1, <1>3, <2>1, <2>2 DEF Order!KeyOf
  <2>4. Order!IsWritable(t, j) = (j < P + 1)
    <3>1. Order!IsWritable(t, j) = (j < t.size - t.readonly)
      BY <2>1 DEF Order!IsWritable
    <3> QED
      BY <1>9, <3>1
  <2>5. Order!IsWritable(m, i) = (i < P)
    BY <1>1, <1>5 DEF Order!IsWritable
  <2>6. (j < P + 1) = (i < P)
    BY <1>1, <1>4, <1>5
  <2> QED
    BY <1>5, <2>3, <2>4, <2>5, <2>6 DEF Order!KeyOf, t, j
<1>6. CASE i >= m.size
  <2>1. g = 1 /\ j = i + 1 /\ t.size = m.size + 1
    BY <1>1, <1>3, <1>4, <1>6
  <2>2. ~(j < t.size) /\ j - t.size + 1 = i - m.size + 1 /\ ~(i < m.size)
    BY <1>1, <1>6, <2>1
  <2> QED
    BY <1>3, <2>2 DEF Order!KeyOf, Order!IsWritable, t, j
<1> QED
  BY <1>1, <1>5, <1>6

LEMMA SeqIsFunction ==
  ASSUME NEW S, NEW q \in Seq(S)
  PROVE  q = [n \in 1 .. Len(q) |-> q[n]]
OBVIOUS

LEMMA InstructionsKept ==
  ASSUME NEW m \in Messages, NEW tip, Order!Signable(m, tip), ~Order!Shifted(m)
  PROVE  Order!SameInstructions(m, Order!AttachTip(m))
<1> DEFINE t == Order!AttachTip(m)
           top == m.size + Len(m.loaded) - 1
<1>1. m.ixs \in Seq(Seq(0 .. top)) /\ m.size \in Nat \ {0} /\ Len(m.loaded) \in Nat
  BY OrdersAssumption DEF Order!WellFormed
<1>2. t.ixs = Append(Order!Adjusted(m), Order!TipInstruction(m))
  BY After
<1>3. Len(m.ixs) \in Nat /\ \A n \in 1 .. Len(m.ixs) : m.ixs[n] \in Seq(0 .. top)
  BY <1>1
<1> SUFFICES ASSUME NEW n \in 1 .. Len(m.ixs)
             PROVE  Order!Meaning(t, t.ixs[n]) = Order!Meaning(m, m.ixs[n])
  BY DEF Order!SameInstructions
<1> DEFINE ix == m.ixs[n]
           adjusted == [k \in 1 .. Len(ix) |-> Order!AdjustIndex(m, ix[k])]
<1>4. ix \in Seq(0 .. top) /\ Len(ix) \in Nat
  BY <1>3
<1>5. t.ixs[n] = adjusted
  <2>1. Order!Adjusted(m) =
          [x \in 1 .. Len(m.ixs) |->
             [k \in 1 .. Len(m.ixs[x]) |-> Order!AdjustIndex(m, m.ixs[x][k])]]
    BY DEF Order!Adjusted
  <2>2. Len(Order!Adjusted(m)) = Len(m.ixs) /\ Order!Adjusted(m)[n] = adjusted
    BY <1>3, <2>1
  <2>3. \A s, e : s = Order!Adjusted(m) => Append(s, e)[n] = s[n]
    BY <1>3, <2>1, <2>2
  <2> QED
    BY <1>2, <2>2, <2>3
<1>6. Len(adjusted) = Len(ix) /\ \A k \in 1 .. Len(ix) : adjusted[k] = Order!AdjustIndex(m, ix[k])
  BY <1>4
<1>7. \A k \in 1 .. Len(ix) :
        /\ Order!KeyOf(t, Order!AdjustIndex(m, ix[k])) = Order!KeyOf(m, ix[k])
        /\ Order!IsWritable(t, Order!AdjustIndex(m, ix[k])) = Order!IsWritable(m, ix[k])
  <2> SUFFICES ASSUME NEW k \in 1 .. Len(ix)
               PROVE  /\ Order!KeyOf(t, Order!AdjustIndex(m, ix[k])) = Order!KeyOf(m, ix[k])
                      /\ Order!IsWritable(t, Order!AdjustIndex(m, ix[k]))
                            = Order!IsWritable(m, ix[k])
    OBVIOUS
  <2>1. ix[k] \in 0 .. top
    BY <1>4, ElementOfSeq
  <2>2. ix[k] >= m.size => Order!HasSystem(m)
    BY DEF Order!Shifted
  <2> QED
    BY <2>1, <2>2, NumberKept
<1> HIDE DEF t, ix, adjusted, top
<1> QED
  BY <1>5, <1>6, <1>7 DEF Order!Meaning, ix

LEMMA TipPaid ==
  ASSUME NEW m \in Messages, NEW tip, Order!Signable(m, tip)
  PROVE  Order!PaysTip(Order!AttachTip(m))
<1> DEFINE t == Order!AttachTip(m)
           P == Order!InsertPos(m)
           g == Order!Gained(m)
           s == Order!SystemIndex(m)
<1>1. /\ m.size \in Nat \ {0} /\ m.readonly \in Nat /\ P \in 1 .. m.size
      /\ P = m.size - m.readonly /\ g \in {1, 2}
      /\ Order!HasSystem(m) <=> g = 1
  BY Sizes
<1>2. /\ t.size = m.size + g /\ t.readonly = m.readonly + g - 1
      /\ t.keys = [n \in 0 .. m.size + g - 1 |->
                      IF n <= m.size THEN Order!WithTip(m)[n] ELSE SystemProgram]
      /\ t.ixs = Append(Order!Adjusted(m), Order!TipInstruction(m))
  BY After
<1>3. /\ m.keys \in [0 .. m.size - 1 -> Pubkeys]
      /\ \A i, j \in 0 .. m.size - 1 : m.keys[i] = m.keys[j] => i = j
      /\ m.keys[0] = Operator
      /\ m.ixs \in Seq(Seq(0 .. m.size + Len(m.loaded) - 1))
  BY OrdersAssumption DEF Order!WellFormed, Order!Signable
<1>7. t.size - t.readonly = P + 1
  BY WritableEnd
<1> HIDE DEF t, P, g
<1>4. Order!WithTip(m) = [i \in 0 .. m.size |-> IF i < P THEN m.keys[i]
                            ELSE IF i = P THEN TipAccount ELSE m.keys[i - 1]]
  BY DEF Order!WithTip, P
<1>5. s \in Nat /\ t.keys[s] = SystemProgram /\ s < t.size
  <2>1. CASE Order!HasSystem(m)
    <3>1. PICK i \in 0 .. m.size : Order!WithTip(m)[i] = SystemProgram
      BY <2>1 DEF Order!HasSystem
    <3>2. \A j \in 0 .. m.size : Order!WithTip(m)[j] = SystemProgram => j = i
      <4> SUFFICES ASSUME NEW j \in 0 .. m.size, Order!WithTip(m)[j] = SystemProgram
                   PROVE  j = i
        OBVIOUS
      <4> DEFINE home(x) == IF x < P THEN x ELSE x - 1
      <4>1. i # P /\ j # P
        BY <1>4, <3>1, SignersAssumption
      <4>2. home(i) \in 0 .. m.size - 1 /\ home(j) \in 0 .. m.size - 1
        BY <1>1, <4>1
      <4>3. m.keys[home(i)] = SystemProgram /\ m.keys[home(j)] = SystemProgram
        BY <1>4, <3>1, <4>1
      <4>4. home(i) = home(j)
        BY <1>3, <4>2, <4>3
      <4> QED
        BY <1>1, <3>1, <4>1, <4>4
    <3>3. s \in 0 .. m.size /\ Order!WithTip(m)[s] = SystemProgram
      <4>1. /\ Order!WithTip(m)[i] = SystemProgram
            /\ \A j \in 0 .. i - 1 : Order!WithTip(m)[j] # SystemProgram
        BY <1>1, <3>1, <3>2
      <4> QED
        BY <2>1, <4>1 DEF Order!SystemIndex
    <3> QED
      BY <1>1, <1>2, <2>1, <3>3
  <2>2. CASE ~Order!HasSystem(m)
    <3>1. s = m.size + 1 /\ g = 2
      BY <1>1, <2>2 DEF Order!SystemIndex
    <3> QED
      BY <1>1, <1>2, <3>1
  <2> QED
    BY <2>1, <2>2
<1>6. t.keys[0] = Operator /\ t.keys[P] = TipAccount /\ P < t.size /\ 0 < t.size
  <2>1. P < t.size /\ 0 < t.size
    BY <1>1, <1>2
  <2>2. Order!WithTip(m)[0] = Operator /\ Order!WithTip(m)[P] = TipAccount
    BY <1>1, <1>3, <1>4
  <2>3. 0 \in 0 .. m.size + g - 1 /\ P \in 0 .. m.size + g - 1 /\ 0 <= m.size /\ P <= m.size
    BY <1>1
  <2> QED
    BY <1>2, <2>1, <2>2, <2>3
<1>8. t.ixs[Len(t.ixs)] = <<s, 0, P>>
  <2>1. Order!TipInstruction(m) = <<s, 0, P>>
    BY DEF Order!TipInstruction, P
  <2>2. Len(m.ixs) \in Nat
    BY <1>3
  <2>3. \A e : LET a == Append(Order!Adjusted(m), e) IN a[Len(a)] = e
    BY <2>2 DEF Order!Adjusted
  <2> QED
    BY <1>2, <2>1, <2>3
<1> HIDE DEF s
<1>9. Order!KeyOf(t, s) = SystemProgram /\ Order!KeyOf(t, 0) = Operator
      /\ Order!KeyOf(t, P) = TipAccount
  BY <1>1, <1>5, <1>6 DEF Order!KeyOf
<1>10. Order!IsWritable(t, 0) /\ Order!IsWritable(t, P)
  BY <1>1, <1>6, <1>7 DEF Order!IsWritable
<1> DEFINE ix == <<s, 0, P>>
<1>11. [k \in 1 .. Len(ix) |-> Order!KeyOf(t, ix[k])] = <<SystemProgram, Operator, TipAccount>>
  BY <1>9
<1> QED
  BY <1>8, <1>10, <1>11 DEF Order!PaysTip, t

-----------------------------------------------------------------------------
(* The startup proof.                                                       *)

Checking == {"environment", "slot", "keypair", "balance", "owner", "connections"}

AttemptsNumbered ==
  /\ stage \in Checking \cup {"stopped", "blockhash", "simulate", "send", "confirm", "loop"}
  /\ attempt \in 0 .. MAX_ATTEMPTS
  /\ stage \in Checking \cup {"stopped"} <=> attempt = 0
  /\ sent \subseteq 1 .. attempt /\ landed \subseteq 1 .. attempt
  /\ sent \cap landed = {}
  /\ stage \in {"blockhash", "simulate", "send"} => attempt \notin sent \cup landed

\* The wallet has paid for the attempts on the chain and for nothing else since it was
\* found to hold the minimum.
WalletKept ==
  /\ wallet \in Int
  /\ stage \in {"owner", "connections"} => wallet >= Reserve + TipLamports
  /\ attempt > 0 => wallet + Fee * Cardinality(landed) >= Reserve + TipLamports

ProofIsLast ==
  proven # {} => stage = "loop" /\ proven = {attempt} /\ attempt \in landed

StartupInv == AttemptsNumbered /\ WalletKept /\ ProofIsLast

LEMMA Counted ==
  ASSUME NEW n \in Nat, NEW S, S \subseteq 1 .. n
  PROVE  IsFiniteSet(S) /\ Cardinality(S) \in 0 .. n
<1>1. IsFiniteSet(1 .. n) /\ Cardinality(1 .. n) = n
  BY FS_Interval
<1>2. IsFiniteSet(S) /\ Cardinality(S) <= Cardinality(1 .. n)
  BY <1>1, FS_Subset
<1>3. Cardinality(S) \in Nat
  BY <1>2, FS_CardinalityType
<1> QED
  BY <1>1, <1>2, <1>3

LEMMA Products ==
  ASSUME NEW a \in Nat, NEW c \in Nat, NEW n \in Nat
  PROVE  /\ a * c \in Nat /\ a * (c + 1) = a * c + a
         /\ c <= n => a * c <= a * n
OBVIOUS

LEMMA ConstantsAreNat ==
  /\ TipLamports \in Nat /\ Fee \in Nat /\ Reserve \in Nat /\ MAX_ATTEMPTS \in Nat \ {0}
  /\ CONFIRM_POLLS \in Nat /\ Reserve >= MAX_ATTEMPTS * Fee
BY SignersAssumption

LEMMA NextAttemptKeeps ==
  ASSUME StartupInv, Startup!NextAttempt, attempt > 0, proven' = proven, proven = {},
         landed' = landed, wallet' = wallet,
         sent' \subseteq 1 .. attempt, sent' \cap landed = {}
  PROVE  StartupInv'
<1>1. CASE attempt < MAX_ATTEMPTS
  <2>1. stage' = "blockhash" /\ attempt' = attempt + 1
    BY <1>1 DEF Startup!NextAttempt
  <2>2. AttemptsNumbered'
    BY <1>1, <2>1, ConstantsAreNat DEF StartupInv, AttemptsNumbered, Checking
  <2> QED
    BY <2>1, <2>2 DEF StartupInv, WalletKept, ProofIsLast
<1>2. CASE ~(attempt < MAX_ATTEMPTS)
  <2>1. stage' = "loop" /\ attempt' = attempt
    BY <1>2 DEF Startup!NextAttempt
  <2>2. AttemptsNumbered'
    BY <2>1 DEF StartupInv, AttemptsNumbered, Checking
  <2> QED
    BY <2>1, <2>2 DEF StartupInv, WalletKept, ProofIsLast
<1> QED
  BY <1>1, <1>2

LEMMA CheckKeeps ==
  ASSUME StartupInv, Startup!CheckPasses
  PROVE  StartupInv'
<1>1. PICK i \in 1 .. 5 :
        /\ stage = Startup!Checks[i]
        /\ stage = "balance" => wallet >= Reserve + TipLamports
        /\ stage' = IF i < 5 THEN Startup!Checks[i + 1] ELSE "connections"
        /\ UNCHANGED <<attempt, confirmPolls, proven, wallet, sent, landed>>
  BY DEF Startup!CheckPasses, Startup!Go, Startup!Checks, Startup!chain, Startup!Affordable
<1>2. /\ stage \in Checking /\ stage' \in Checking
      /\ stage' = "owner" => stage = "balance"
      /\ stage' = "connections" => stage = "owner"
  BY <1>1 DEF Startup!Checks, Checking
<1>3. attempt = 0
  BY <1>2 DEF StartupInv, AttemptsNumbered
<1>4. AttemptsNumbered'
  BY <1>1, <1>2, <1>3, ConstantsAreNat DEF StartupInv, AttemptsNumbered, Checking
<1>5. WalletKept'
  BY <1>1, <1>2, <1>3 DEF StartupInv, WalletKept
<1>6. ProofIsLast'
  BY <1>1, <1>2, <1>3 DEF StartupInv, ProofIsLast, Checking
<1> QED
  BY <1>4, <1>5, <1>6 DEF StartupInv

LEMMA MainKeeps ==
  ASSUME StartupInv, Startup!Main
  PROVE  StartupInv'
<1> USE ConstantsAreNat
<1>1. CASE Startup!CheckPasses
  BY <1>1, CheckKeeps
<1>2. CASE Startup!CheckFails
  <2>1. stage \in Checking /\ stage' = "stopped"
        /\ UNCHANGED <<attempt, confirmPolls, proven, wallet, sent, landed>>
    BY <1>2 DEF Startup!CheckFails, Startup!Go, Startup!Checks, Startup!chain, Checking
  <2> QED
    BY <2>1 DEF StartupInv, AttemptsNumbered, WalletKept, ProofIsLast, Checking
<1>3. CASE Startup!ValidateConnections
  <2>1. /\ stage = "connections" /\ stage' = "blockhash" /\ attempt' = 1 /\ attempt = 0
        /\ UNCHANGED <<confirmPolls, proven, wallet, sent, landed>>
    BY <1>3 DEF Startup!ValidateConnections, Startup!chain, StartupInv, AttemptsNumbered, Checking
  <2>2. sent = {} /\ landed = {}
    BY <2>1 DEF StartupInv, AttemptsNumbered
  <2>6. Cardinality(landed) = 0
    BY <2>2, FS_EmptySet
  <2>3. AttemptsNumbered'
    BY <2>1, <2>2 DEF AttemptsNumbered, Checking
  <2>4. WalletKept'
    BY <2>1, <2>2, <2>6 DEF StartupInv, WalletKept
  <2>5. ProofIsLast'
    BY <2>1, <2>2 DEF StartupInv, ProofIsLast
  <2> QED
    BY <2>3, <2>4, <2>5 DEF StartupInv
<1>4. stage \in {"blockhash", "simulate", "send", "confirm"}
        => attempt \in 1 .. MAX_ATTEMPTS /\ proven = {}
  BY DEF StartupInv, AttemptsNumbered, ProofIsLast, Checking
<1>5. sent \subseteq 1 .. attempt /\ landed \subseteq 1 .. attempt /\ sent \cap landed = {}
  BY DEF StartupInv, AttemptsNumbered
<1>6. CASE Startup!BuildTransaction \/ Startup!SimulationPasses
  BY <1>6 DEF Startup!BuildTransaction, Startup!SimulationPasses, Startup!chain, StartupInv,
              AttemptsNumbered, WalletKept, ProofIsLast, Checking
<1>7. CASE Startup!AttemptFails \/ Startup!ConfirmationFails
  <2>1. /\ Startup!NextAttempt /\ stage \in {"blockhash", "simulate", "send", "confirm"}
        /\ UNCHANGED <<proven, wallet, sent, landed>>
    BY <1>7 DEF Startup!AttemptFails, Startup!ConfirmationFails, Startup!chain
  <2>2. attempt > 0 /\ proven = {}
    BY <1>4, <2>1
  <2> QED
    BY <1>5, <2>1, <2>2, NextAttemptKeeps
<1>8. CASE Startup!Send
  <2>1. /\ stage = "send" /\ stage' = "confirm" /\ sent' = sent \cup {attempt}
        /\ UNCHANGED <<attempt, proven, wallet, landed>>
    BY <1>8 DEF Startup!Send
  <2>2. attempt \in 1 .. MAX_ATTEMPTS /\ proven = {} /\ attempt \notin landed
    BY <1>4, <2>1 DEF StartupInv, AttemptsNumbered
  <2>3. AttemptsNumbered'
    BY <1>5, <2>1, <2>2 DEF AttemptsNumbered, Checking
  <2> QED
    BY <2>1, <2>2, <2>3 DEF StartupInv, WalletKept, ProofIsLast
<1>9. CASE Startup!SendReplyLost
  <2>1. sent' = sent \cup {attempt} /\ attempt \notin landed
    BY <1>9 DEF Startup!SendReplyLost, StartupInv, AttemptsNumbered
  <2>2. /\ Startup!NextAttempt /\ stage = "send"
        /\ UNCHANGED <<proven, wallet, landed>>
    BY <1>9 DEF Startup!SendReplyLost
  <2>3. attempt > 0 /\ proven = {} /\ attempt \in 1 .. attempt
    BY <1>4, <2>2
  <2>4. sent' \subseteq 1 .. attempt /\ sent' \cap landed = {}
    BY <1>5, <2>1, <2>3
  <2> QED
    BY <2>2, <2>3, <2>4, NextAttemptKeeps
<1>10. CASE Startup!SeenConfirmed
  BY <1>4, <1>5, <1>10 DEF Startup!SeenConfirmed, Startup!chain, StartupInv, AttemptsNumbered,
                           WalletKept, ProofIsLast, Checking
<1>11. CASE Startup!NotYetConfirmed
  BY <1>11 DEF Startup!NotYetConfirmed, Startup!chain, StartupInv, AttemptsNumbered, WalletKept,
               ProofIsLast
<1> QED
  BY <1>1, <1>2, <1>3, <1>6, <1>7, <1>8, <1>9, <1>10, <1>11 DEF Startup!Main

LEMMA ChainKeeps ==
  ASSUME StartupInv, Startup!Lands \/ Startup!Expires
  PROVE  StartupInv'
<1> USE ConstantsAreNat
<1>1. CASE Startup!Lands
  <2>1. PICK a \in sent : /\ sent' = sent \ {a} /\ landed' = landed \cup {a}
                          /\ wallet' = wallet - Fee
                          /\ UNCHANGED <<stage, attempt, confirmPolls, proven>>
    BY <1>1 DEF Startup!Lands, Startup!bot
  <2>2. a \in 1 .. attempt /\ a \notin landed /\ attempt \in Nat /\ attempt > 0
    BY <2>1 DEF StartupInv, AttemptsNumbered
  <2>3. IsFiniteSet(landed) /\ Cardinality(landed) \in Nat
    <3>1. landed \subseteq 1 .. attempt
      BY DEF StartupInv, AttemptsNumbered
    <3>2. IsFiniteSet(landed) /\ Cardinality(landed) \in 0 .. attempt
      BY <2>2, <3>1, Counted
    <3> QED
      BY <2>2, <3>2
  <2>4. Cardinality(landed') = Cardinality(landed) + 1
    BY <2>1, <2>2, <2>3, FS_AddElement
  <2>5. AttemptsNumbered'
    BY <2>1, <2>2 DEF StartupInv, AttemptsNumbered
  <2>6. WalletKept'
    <3>1. Fee * Cardinality(landed') = Fee * Cardinality(landed) + Fee
          /\ Fee * Cardinality(landed) \in Nat
      BY <2>3, <2>4, Products
    <3>2. wallet \in Int /\ wallet + Fee * Cardinality(landed) >= Reserve + TipLamports
      BY <2>2 DEF StartupInv, WalletKept
    <3>3. stage' \notin {"owner", "connections"}
      BY <2>1, <2>2 DEF StartupInv, AttemptsNumbered, Checking
    <3> QED
      BY <2>1, <3>1, <3>2, <3>3 DEF WalletKept
  <2>7. ProofIsLast'
    BY <2>1 DEF StartupInv, ProofIsLast
  <2> QED
    BY <2>5, <2>6, <2>7 DEF StartupInv
<1>2. CASE Startup!Expires
  BY <1>2 DEF Startup!Expires, Startup!bot, StartupInv, AttemptsNumbered, WalletKept, ProofIsLast
<1> QED
  BY <1>1, <1>2

-----------------------------------------------------------------------------
(* The bundles.                                                             *)

SwapOf(t) == t = [kind |-> "swap", of |-> t.of, hash |-> "own", to |-> "own"]

\* What is posted: one swap at least, each determined by its payload, and one tip.
IsBundle(b) ==
  /\ Len(b) \in Nat /\ Len(b) >= 2 /\ b = [n \in 1 .. Len(b) |-> b[n]]
  /\ \A n \in 1 .. Len(b) - 1 : SwapOf(b[n])
  /\ b[Len(b)].kind = "tip"

CallSound ==
  /\ call = [stage |-> call.stage, batch |-> call.batch, tip |-> call.tip, to |-> call.to,
             try |-> call.try, txs |-> call.txs]
  /\ call.stage = "blockhash" => call.batch \in Batches
  /\ call.stage = "post" => IsBundle(call.txs)

RanSound == IsFiniteSet(ran) /\ \A t \in ran : SwapOf(t) \/ t.kind = "tip"

BundleInv ==
  /\ CallSound
  /\ \A b \in held : IsBundle(b)
  /\ RanSound
  /\ Bundle!TipsBuySwaps

LEMMA SameCount ==
  \A S : Bundle!Cardinality(S) = Cardinality(S)
BY DEF Bundle!Cardinality, Cardinality

LEMMA SignedAreSwaps ==
  ASSUME NEW batch \in Batches, NEW hash
  PROVE  LET txs == Bundle!SignAll(batch, hash) IN
         /\ txs \in Seq({txs[n] : n \in 1 .. Len(txs)})
         /\ \A n \in 1 .. Len(txs) : SwapOf(txs[n])
<1> DEFINE signable == {i \in 1 .. Len(batch) : i < MAX_BUNDLE_TXS /\ Bundle!Signs(batch[i])}
           nth(n) == CHOOSE i \in signable :
                       Bundle!Cardinality({j \in signable : j <= i}) = n
           txs == Bundle!SignAll(batch, hash)
<1>1. Cardinality(signable) \in Nat
  <2>1. Len(batch) \in Nat /\ signable \subseteq 1 .. Len(batch)
    BY BatchesAssumption
  <2> HIDE DEF signable
  <2>2. Cardinality(signable) \in 0 .. Len(batch)
    BY <2>1, Counted
  <2> QED
    BY <2>1, <2>2
<1>2. txs = [n \in 1 .. Cardinality(signable) |-> Bundle!SwapTx(batch[nth(n)], hash)]
  BY SameCount DEF Bundle!SignAll
<1>3. \A p : SwapOf(Bundle!SwapTx(p, hash))
  BY DEF SwapOf, Bundle!SwapTx
<1> HIDE DEF signable, nth, txs
<1> DEFINE size == Cardinality(signable)
<1> HIDE DEF size
<1>4. size \in Nat /\ txs = [n \in 1 .. size |-> Bundle!SwapTx(batch[nth(n)], hash)]
  BY <1>1, <1>2 DEF size
<1>5. \A n \in 1 .. size : txs[n] = Bundle!SwapTx(batch[nth(n)], hash)
  BY <1>4
<1>6. Len(txs) = size /\ txs \in Seq({txs[n] : n \in 1 .. size})
  BY <1>4
<1> QED
  BY <1>3, <1>5, <1>6 DEF txs

\* A bundle that lands adds a swap the chain has not run, and one tip.
LEMMA LandingPays ==
  ASSUME RanSound, Bundle!TipsBuySwaps, NEW b, IsBundle(b),
         Bundle!ToSet(b) \cap ran = {}, ran' = ran \cup Bundle!ToSet(b)
  PROVE  RanSound' /\ Bundle!TipsBuySwaps'
<1> DEFINE all == {b[n] : n \in 1 .. Len(b)}
           tipTx == b[Len(b)]
           first == b[1]
           swaps == {t \in ran : t.kind = "swap"}
<1>1. Bundle!ToSet(b) = all
  BY DEF Bundle!ToSet, IsBundle
<1>2. IsFiniteSet(all)
  <2> DEFINE size == Len(b)
  <2>1. size \in Nat /\ b = [n \in 1 .. size |-> b[n]] /\ all = {b[n] : n \in 1 .. size}
    BY DEF IsBundle
  <2> HIDE DEF size, all
  <2>2. IsFiniteSet(1 .. size)
    <3>1. size \in Nat
      BY <2>1
    <3> QED
      BY <3>1, Counted
  <2>3. b \in Surjection(1 .. size, all)
    BY <2>1 DEF Surjection
  <2> QED
    BY <2>2, <2>3, FS_Surjection
<1>3. /\ tipTx \in all /\ first \in all /\ first.kind = "swap" /\ tipTx.kind = "tip"
      /\ \A t \in all : t = tipTx \/ SwapOf(t)
  <2>1. Len(b) \in Nat /\ Len(b) >= 2
    BY DEF IsBundle
  <2>2. 1 \in 1 .. Len(b) /\ Len(b) \in 1 .. Len(b) /\ 1 \in 1 .. Len(b) - 1
    BY <2>1
  <2>3. \A n \in 1 .. Len(b) : n = Len(b) \/ n \in 1 .. Len(b) - 1
    BY <2>1
  <2>4. SwapOf(first) /\ tipTx.kind = "tip"
    BY <2>2 DEF IsBundle
  <2>5. \A n \in 1 .. Len(b) : b[n] = tipTx \/ SwapOf(b[n])
    BY <2>3 DEF IsBundle
  <2>6. first.kind = "swap" /\ first \in all /\ tipTx \in all
    BY <2>2, <2>4 DEF SwapOf
  <2> QED
    BY <2>4, <2>5, <2>6
<1>4. \A t : SwapOf(t) => t.kind = "swap"
  BY DEF SwapOf
<1> HIDE DEF all, tipTx, first
<1>5. RanSound'
  <2>1. IsFiniteSet(ran')
    BY <1>1, <1>2, FS_Union DEF RanSound
  <2>2. \A t \in ran' : SwapOf(t) \/ t.kind = "tip"
    BY <1>1, <1>3 DEF RanSound
  <2> QED
    BY <2>1, <2>2 DEF RanSound
<1>6. Cardinality(ran \ swaps) <= Cardinality(swaps)
  BY SameCount DEF Bundle!TipsBuySwaps, Bundle!SwapRuns
<1>7. IsFiniteSet(swaps) /\ IsFiniteSet(ran \ swaps) /\ IsFiniteSet({t \in ran' : t.kind = "swap"})
  BY <1>5, FS_Subset DEF RanSound
<1>8. Cardinality(swaps) \in Nat /\ Cardinality(ran \ swaps) \in Nat
  BY <1>7, FS_CardinalityType
<1>9. first \notin swaps /\ tipTx \notin ran \ swaps
  BY <1>1, <1>3
<1>10. Cardinality(swaps \cup {first}) = Cardinality(swaps) + 1
       /\ Cardinality((ran \ swaps) \cup {tipTx}) = Cardinality(ran \ swaps) + 1
  BY <1>7, <1>9, FS_AddElement
<1>11. swaps \cup {first} \subseteq {t \in ran' : t.kind = "swap"}
  BY <1>1, <1>3
<1>12. ran' \ {t \in ran' : t.kind = "swap"} = (ran \ swaps) \cup {tipTx}
  BY <1>1, <1>3, <1>4
<1>13. Cardinality(swaps \cup {first}) <= Cardinality({t \in ran' : t.kind = "swap"})
  BY <1>7, <1>11, FS_Subset
<1>14. Cardinality({t \in ran' : t.kind = "swap"}) \in Nat
  BY <1>7, FS_CardinalityType
<1> HIDE DEF swaps
<1>15. Cardinality(ran' \ {t \in ran' : t.kind = "swap"})
         <= Cardinality({t \in ran' : t.kind = "swap"})
  BY <1>6, <1>8, <1>10, <1>12, <1>13, <1>14
<1> QED
  BY <1>5, <1>15, SameCount DEF Bundle!TipsBuySwaps, Bundle!SwapRuns

\* A batch of which a payload is signed becomes a bundle.
LEMMA Bundled ==
  ASSUME NEW batch \in Batches, NEW hash, NEW tip, NEW account,
         Bundle!WorthPosting(Bundle!SignAll(batch, hash))
  PROVE  IsBundle(Append(Bundle!SignAll(batch, hash), Bundle!TipTx(tip, hash, account)))
<1> DEFINE txs == Bundle!SignAll(batch, hash)
           tipTx == Bundle!TipTx(tip, hash, account)
<1> DEFINE S == {txs[n] : n \in 1 .. Len(txs)}
<1>1. txs \in Seq(S) /\ \A n \in 1 .. Len(txs) : SwapOf(txs[n])
  BY SignedAreSwaps
<1>2. tipTx.kind = "tip"
  BY DEF Bundle!TipTx
<1>4. txs # << >>
  BY DEF Bundle!WorthPosting
<1> HIDE DEF txs, tipTx, S
<1>5. Len(txs) \in Nat /\ Len(txs) >= 1
  BY <1>1, <1>4
<1> DEFINE b == Append(txs, tipTx)
<1>6. /\ Len(b) = Len(txs) + 1 /\ b = [n \in 1 .. Len(b) |-> b[n]]
      /\ b[Len(b)] = tipTx /\ \A n \in 1 .. Len(txs) : b[n] = txs[n]
  <2>1. txs \in Seq(S \cup {tipTx}) /\ tipTx \in S \cup {tipTx}
    BY <1>1
  <2>2. b \in Seq(S \cup {tipTx}) /\ Len(b) = Len(txs) + 1
    BY <2>1
  <2>3. b = [n \in 1 .. Len(b) |-> b[n]]
    BY <2>2, SeqIsFunction
  <2> QED
    BY <1>5, <2>1, <2>2, <2>3
<1> HIDE DEF b
<1>7. Len(b) \in Nat /\ Len(b) >= 2 /\ 1 .. Len(b) - 1 = 1 .. Len(txs)
  BY <1>1, <1>5, <1>6
<1>8. IsBundle(b)
  BY <1>1, <1>2, <1>6, <1>7 DEF IsBundle
<1> QED
  BY <1>8 DEF b, txs, tipTx

LEMMA IdleIsSound == ASSUME call' = Bundle!Idle PROVE CallSound'
BY DEF Bundle!Idle, CallSound

LEMMA BundleKeeps ==
  ASSUME BundleInv, Bundle!Next
  PROVE  BundleInv'
<1>1. ASSUME UNCHANGED ran PROVE RanSound' /\ Bundle!TipsBuySwaps'
  BY <1>1 DEF BundleInv, RanSound, Bundle!TipsBuySwaps, Bundle!SwapRuns
<1>2. ASSUME UNCHANGED call PROVE CallSound'
  BY <1>2 DEF BundleInv, CallSound
<1>3. CASE \E b \in Batches, p \in Profits, a \in TipAccounts : Bundle!Submit(b, p, a)
  <2>1. PICK b \in Batches, p \in Profits, a \in TipAccounts : Bundle!Submit(b, p, a)
    BY <1>3
  <2>2. CallSound'
    BY <2>1 DEF Bundle!Submit, CallSound
  <2> QED
    BY <1>1, <2>1, <2>2 DEF Bundle!Submit, BundleInv
<1>4. CASE \E h \in Hashes : Bundle!BlockhashArrives(h)
  <2>1. PICK h \in Hashes : Bundle!BlockhashArrives(h)
    BY <1>4
  <2> DEFINE txs == Bundle!SignAll(call.batch, h)
             bundle == Append(txs, Bundle!TipTx(call.tip, h, call.to))
  <2>2. call.batch \in Batches /\ UNCHANGED <<calls, polls, held, ran>>
    BY <2>1 DEF Bundle!BlockhashArrives, BundleInv, CallSound
  <2>3. CASE call' = Bundle!Idle
    BY <1>1, <2>2, <2>3, IdleIsSound DEF BundleInv
  <2>4. CASE call' # Bundle!Idle
    <3>1. /\ Bundle!WorthPosting(txs)
          /\ call' = [call EXCEPT !.stage = "post", !.try = 1, !.txs = bundle]
      BY <2>1, <2>4 DEF Bundle!BlockhashArrives, Bundle!Return
    <3>2. IsBundle(bundle)
      BY <2>2, <3>1, Bundled
    <3> HIDE DEF bundle, txs
    <3>3. CallSound'
      BY <3>1, <3>2 DEF BundleInv, CallSound
    <3> QED
      BY <1>1, <2>2, <3>3 DEF BundleInv
  <2> QED
    BY <2>3, <2>4
<1>5. CASE Bundle!BlockhashFails
  <2>1. call' = Bundle!Idle \/ call' = [call EXCEPT !.try = @ + 1]
    BY <1>5 DEF Bundle!BlockhashFails, Bundle!Return
  <2>2. CallSound'
    BY <2>1, IdleIsSound DEF BundleInv, CallSound
  <2> QED
    BY <1>1, <1>5, <2>2 DEF Bundle!BlockhashFails, BundleInv
<1>6. CASE Bundle!Accepted \/ Bundle!Answered \/ Bundle!PostFails
  <2>1. /\ call.stage = "post" /\ held' \in {held, held \cup {call.txs}} /\ UNCHANGED ran
        /\ call' = Bundle!Idle \/ call' = [call EXCEPT !.try = @ + 1]
    BY <1>6 DEF Bundle!Accepted, Bundle!Answered, Bundle!PostFails, Bundle!Return
  <2>2. CallSound'
    BY <2>1, IdleIsSound DEF BundleInv, CallSound
  <2>3. \A b \in held' : IsBundle(b)
    BY <2>1 DEF BundleInv, CallSound
  <2> QED
    BY <1>1, <2>1, <2>2, <2>3 DEF BundleInv
<1>7. CASE \E t \in polls : Bundle!PollOnce(t)
  BY <1>1, <1>2, <1>7 DEF Bundle!PollOnce, BundleInv
<1>8. CASE \E b \in held : Bundle!Land(b) \/ Bundle!Drop(b)
  <2>1. PICK b \in held : Bundle!Land(b) \/ Bundle!Drop(b)
    BY <1>8
  <2>2. UNCHANGED call /\ held' = held \ {b} /\ IsBundle(b)
    BY <2>1 DEF Bundle!Land, Bundle!Drop, BundleInv
  <2>3. RanSound' /\ Bundle!TipsBuySwaps'
    <3>1. CASE Bundle!Land(b)
      BY <2>2, <3>1, LandingPays DEF Bundle!Land, BundleInv
    <3>2. CASE Bundle!Drop(b)
      BY <1>1, <3>2 DEF Bundle!Drop
    <3> QED
      BY <2>1, <3>1, <3>2
  <2> QED
    BY <1>2, <2>2, <2>3 DEF BundleInv
<1> QED
  BY <1>3, <1>4, <1>5, <1>6, <1>7, <1>8 DEF Bundle!Next, Bundle!Handler

-----------------------------------------------------------------------------
(* The loans.                                                               *)

\* Instructions that neither borrow nor repay.
Plain(q) ==
  /\ q \in Seq({q[n] : n \in DOMAIN q})
  /\ \A n \in 1 .. Len(q) : q[n].data.op \notin {"borrow", "repay"}

\* The fee Solend takes, rounded up: at least nine basis points, and at most a lamport
\* above the fee of the plan.
LEMMA FeeCovered ==
  ASSUME NEW l \in Nat
  PROVE  /\ SolendRepayAmount(l) \in Nat
         /\ (SolendRepayAmount(l) - l) * 10000 >= l * 9
BY DEF SolendRepayAmount, CeilDiv

LEMMA Joined ==
  ASSUME NEW S, NEW p \in Seq(S), NEW q \in Seq(S)
  PROVE  /\ p \o q \in Seq(S) /\ Len(p \o q) = Len(p) + Len(q)
         /\ \A n \in 1 .. Len(p) : (p \o q)[n] = p[n]
         /\ \A n \in 1 .. Len(q) : (p \o q)[Len(p) + n] = q[n]
OBVIOUS

LEMMA PlainFew ==
  /\ Plain(<< >>)
  /\ \A e : e.data.op \notin {"borrow", "repay"} => Plain(<<e>>)
<1>1. Plain(<< >>)
  BY DEF Plain
<1>2. ASSUME NEW e, e.data.op \notin {"borrow", "repay"} PROVE Plain(<<e>>)
  <2> DEFINE q == <<e>>
  <2>1. Len(q) = 1 /\ q[1] = e /\ q \in Seq({e}) /\ DOMAIN q = {1}
    OBVIOUS
  <2> HIDE DEF q
  <2>2. {q[n] : n \in DOMAIN q} = {e} /\ 1 .. Len(q) = {1}
    BY <2>1
  <2>3. Plain(q)
    BY <1>2, <2>1, <2>2 DEF Plain
  <2> QED
    BY <2>3 DEF q
<1> QED
  BY <1>1, <1>2

At(x, op) == {n \in 1 .. Len(x) : x[n].data.op = op}

LEMMA PlainAppended ==
  ASSUME NEW S, NEW x \in Seq(S), NEW q \in Seq(S), Plain(q), NEW op \in {"borrow", "repay"}
  PROVE  At(x \o q, op) = At(x, op)
<1> DEFINE r == x \o q
<1>1. Len(x) \in Nat /\ Len(q) \in Nat
  OBVIOUS
<1>2. /\ Len(r) = Len(x) + Len(q)
      /\ \A n \in 1 .. Len(x) : r[n] = x[n]
      /\ \A n \in 1 .. Len(q) : r[Len(x) + n] = q[n]
  BY Joined
<1> HIDE DEF r
<1>3. ASSUME NEW n \in 1 .. Len(r), n > Len(x) PROVE r[n].data.op # op
  <2>1. n - Len(x) \in 1 .. Len(q) /\ Len(x) + (n - Len(x)) = n
    BY <1>1, <1>2, <1>3
  <2>2. r[n] = q[n - Len(x)]
    BY <1>2, <2>1
  <2> QED
    BY <2>1, <2>2 DEF Plain
<1>4. 1 .. Len(x) \subseteq 1 .. Len(r) /\ \A n \in 1 .. Len(r) : n > Len(x) \/ n \in 1 .. Len(x)
  BY <1>1, <1>2
<1>5. At(r, op) = At(x, op)
  BY <1>2, <1>3, <1>4 DEF At
<1> QED
  BY <1>5 DEF r

LEMMA OneAppended ==
  ASSUME NEW S, NEW x \in Seq(S), NEW e \in S, NEW op
  PROVE  /\ Len(x \o <<e>>) = Len(x) + 1 /\ x \o <<e>> \in Seq(S)
         /\ (x \o <<e>>)[Len(x) + 1] = e
         /\ \A n \in 1 .. Len(x) : (x \o <<e>>)[n] = x[n]
         /\ e.data.op = op => At(x \o <<e>>, op) = At(x, op) \cup {Len(x) + 1}
         /\ e.data.op # op => At(x \o <<e>>, op) = At(x, op)
<1> DEFINE r == x \o <<e>>
<1>1. /\ Len(r) = Len(x) + 1 /\ r \in Seq(S) /\ Len(x) \in Nat
      /\ \A n \in 1 .. Len(x) : r[n] = x[n]
      /\ r[Len(x) + 1] = e
  OBVIOUS
<1> HIDE DEF r
<1>2. 1 .. Len(r) = (1 .. Len(x)) \cup {Len(x) + 1}
  BY <1>1
<1>3. /\ e.data.op = op => At(r, op) = At(x, op) \cup {Len(x) + 1}
      /\ e.data.op # op => At(r, op) = At(x, op)
  BY <1>1, <1>2 DEF At
<1> QED
  BY <1>1, <1>3 DEF r

LEMMA LoanPaired ==
  ASSUME NEW budget, NEW s1, NEW s2, Plain(budget), Plain(s1), Plain(s2), Len(budget) < 256,
         NEW l \in Nat, NEW tip
  PROVE  Paired(V0Instructions(budget, s1, s2, l, SolendRepayAmount(l), tip))
<1> DEFINE repay == SolendRepayAmount(l)
           B == Borrow(l)
           R == Repay(repay, Len(budget) % 256)
           tail == IF tip > 0 THEN <<PayTip(tip)>> ELSE << >>
           All(q) == {q[n] : n \in DOMAIN q}
           S == All(budget) \cup All(s1) \cup All(s2) \cup All(tail) \cup {B, R}
           x1 == budget \o <<B>>
           x2 == x1 \o s1
           x3 == x2 \o s2
           x4 == x3 \o <<R>>
           x5 == x4 \o tail
<1>1. /\ budget \in Seq(S) /\ s1 \in Seq(S) /\ s2 \in Seq(S)
  BY DEF Plain
<1>2. Plain(tail)
  <2>1. PayTip(tip).data.op = "transfer"
    BY DEF PayTip, Instruction
  <2> QED
    BY <2>1, PlainFew
<1>3. tail \in Seq(S) /\ B \in S /\ R \in S
  <2> HIDE DEF tail, B, R
  <2> QED
    BY <1>2 DEF Plain
<1>4. B.data.op = "borrow" /\ B.data.lamports = l
  BY DEF Borrow, Instruction
<1>5. R.data.op = "repay" /\ R.data.lamports = repay /\ R.data.index = Len(budget)
  <2>1. R.data.op = "repay" /\ R.data.lamports = repay /\ R.data.index = Len(budget) % 256
    BY DEF Repay, Instruction
  <2>2. Len(budget) \in Nat
    BY <1>1
  <2> QED
    BY <2>1, <2>2
<1>6. V0Instructions(budget, s1, s2, l, repay, tip) = x5
  BY DEF V0Instructions
<1> HIDE DEF S, B, R, tail, repay
<1> DEFINE b == Len(budget) + 1
           r == Len(x3) + 1
<1>7. Len(budget) \in Nat /\ Len(s1) \in Nat /\ Len(s2) \in Nat /\ Len(tail) \in Nat
  BY <1>1, <1>3
<1>8. At(budget, "borrow") = {} /\ At(budget, "repay") = {}
  BY DEF At, Plain
<1>9. /\ x1 \in Seq(S) /\ Len(x1) = b /\ x1[b] = B
      /\ At(x1, "borrow") = {b} /\ At(x1, "repay") = {}
  <2>1. /\ At(x1, "borrow") = At(budget, "borrow") \cup {b}
        /\ At(x1, "repay") = At(budget, "repay")
    <3>1. budget \in Seq(S) /\ B \in S
      BY <1>1, <1>3
    <3>2. B.data.op = "borrow" /\ B.data.op # "repay"
      BY <1>4
    <3>3. At(x1, "borrow") = At(budget, "borrow") \cup {b}
      BY <3>1, <3>2, OneAppended DEF b
    <3>4. At(x1, "repay") = At(budget, "repay")
      BY <3>1, <3>2, OneAppended DEF b
    <3> QED
      BY <3>3, <3>4
  <2>2. x1 \in Seq(S) /\ Len(x1) = b /\ x1[b] = B
    BY <1>1, <1>3, OneAppended
  <2> QED
    BY <1>8, <2>1, <2>2
<1>b. b \in Nat /\ b >= 1
  BY <1>7
<1> HIDE DEF x1, b
<1>10. /\ x2 \in Seq(S) /\ Len(x2) = b + Len(s1) /\ x2[b] = B
       /\ At(x2, "borrow") = {b} /\ At(x2, "repay") = {}
  <2>1. At(x2, "borrow") = At(x1, "borrow") /\ At(x2, "repay") = At(x1, "repay")
    BY <1>1, <1>9, PlainAppended
  <2>2. x2 \in Seq(S) /\ Len(x2) = Len(x1) + Len(s1) /\ \A n \in 1 .. Len(x1) : x2[n] = x1[n]
    <3>1. x1 \in Seq(S) /\ s1 \in Seq(S)
      BY <1>1, <1>9
    <3> QED
      BY <3>1, Joined
  <2>3. b \in 1 .. Len(x1)
    BY <1>9, <1>b
  <2> QED
    BY <1>9, <2>1, <2>2, <2>3
<1> HIDE DEF x2
<1>11. /\ x3 \in Seq(S) /\ Len(x3) = b + Len(s1) + Len(s2) /\ x3[b] = B
       /\ At(x3, "borrow") = {b} /\ At(x3, "repay") = {}
  <2>1. At(x3, "borrow") = At(x2, "borrow") /\ At(x3, "repay") = At(x2, "repay")
    BY <1>1, <1>10, PlainAppended
  <2>2. x3 \in Seq(S) /\ Len(x3) = Len(x2) + Len(s2) /\ \A n \in 1 .. Len(x2) : x3[n] = x2[n]
    <3>1. x2 \in Seq(S) /\ s2 \in Seq(S)
      BY <1>1, <1>10
    <3> QED
      BY <3>1, Joined
  <2>3. b \in 1 .. Len(x2)
    BY <1>7, <1>10, <1>b
  <2> QED
    BY <1>10, <2>1, <2>2, <2>3
<1> HIDE DEF x3
<1>r. r \in Nat /\ b \in 1 .. Len(x3) /\ b < r
  BY <1>7, <1>11, <1>b
<1>12. /\ x4 \in Seq(S) /\ Len(x4) = r /\ x4[b] = B /\ x4[r] = R
       /\ At(x4, "borrow") = {b} /\ At(x4, "repay") = {r}
  <2>1. /\ At(x4, "borrow") = At(x3, "borrow")
        /\ At(x4, "repay") = At(x3, "repay") \cup {r}
    <3>1. x3 \in Seq(S) /\ R \in S
      BY <1>3, <1>11
    <3>2. R.data.op = "repay" /\ R.data.op # "borrow"
      BY <1>5
    <3>3. At(x4, "repay") = At(x3, "repay") \cup {r}
      BY <3>1, <3>2, OneAppended DEF r
    <3>4. At(x4, "borrow") = At(x3, "borrow")
      BY <3>1, <3>2, OneAppended DEF r
    <3> QED
      BY <3>3, <3>4
  <2>2. x4 \in Seq(S) /\ Len(x4) = r /\ x4[r] = R /\ \A n \in 1 .. Len(x3) : x4[n] = x3[n]
    BY <1>3, <1>11, OneAppended
  <2> QED
    BY <1>r, <1>11, <2>1, <2>2
<1>13. r \in Nat /\ b \in 1 .. r /\ b < r
  BY <1>b, <1>r
<1> HIDE DEF x4
<1>14. /\ x5[b] = B /\ x5[r] = R
       /\ At(x5, "borrow") = {b} /\ At(x5, "repay") = {r}
  <2>1. r \in 1 .. Len(x4) /\ b \in 1 .. Len(x4)
    BY <1>12, <1>13
  <2>2. x5[b] = B /\ x5[r] = R
    BY <1>3, <1>12, <2>1, Joined
  <2> QED
    BY <1>2, <1>3, <1>12, <2>2, PlainAppended
<1> HIDE DEF x5, r
<1>15. Cardinality({b}) = 1 /\ Cardinality({r}) = 1
  BY FS_Singleton
<1>16. (R.data.lamports - B.data.lamports) * 10000 >= B.data.lamports * 9
  BY <1>4, <1>5, FeeCovered DEF repay
<1>17. R.data.index = b - 1
  BY <1>5, <1>7 DEF b
<1>18. Paired(x5)
  <2> DEFINE bs == {n \in 1 .. Len(x5) : x5[n].data.op = "borrow"}
             rs == {n \in 1 .. Len(x5) : x5[n].data.op = "repay"}
  <2>1. bs = {b} /\ rs = {r}
    BY <1>14 DEF At
  <2> HIDE DEF bs, rs
  <2>2. Cardinality(bs) = 1 /\ Cardinality(rs) = 1
    BY <1>15, <2>1, SameCount
  <2>3. /\ b < r /\ x5[r].data.index = b - 1
        /\ (x5[r].data.lamports - x5[b].data.lamports) * 10000 >= x5[b].data.lamports * 9
    BY <1>13, <1>14, <1>16, <1>17
  <2>4. \E n \in bs, m \in rs :
           /\ n < m /\ x5[m].data.index = n - 1
           /\ (x5[m].data.lamports - x5[n].data.lamports) * 10000 >= x5[n].data.lamports * 9
    BY <2>1, <2>3
  <2> QED
    BY <2>2, <2>4 DEF Paired, bs, rs
<1> QED
  BY <1>6, <1>18 DEF repay

-----------------------------------------------------------------------------
(* The accounts of a loan, as the runtime reads them.                       *)

\* A non-empty set of naturals has a least element.
LEMMA LeastNatural ==
  ASSUME NEW T, T \subseteq Nat, T # {}
  PROVE  \E n \in T : \A m \in T : n <= m
<1> DEFINE R == OpToRel(<, Nat)
<1>1. IsWellFoundedOn(R, Nat)
  BY NatLessThanWellFounded
<1>2. \A x, y \in Nat : <<y, x>> \in R <=> y < x
  BY DEF OpToRel
<1> HIDE DEF R
<1>3. PICK n \in T : \A m \in T : ~(<<m, n>> \in R)
  BY <1>1, WFMin
<1>4. ASSUME NEW m \in T PROVE n <= m
  <2>1. n \in Nat /\ m \in Nat
    OBVIOUS
  <2>2. ~(m < n)
    BY <1>2, <1>3, <1>4, <2>1
  <2> QED
    BY <2>1, <2>2
<1> QED
  BY <1>4

\* Induction from b to n, with the property as the set of the numbers that have it.
LEMMA Induction ==
  ASSUME NEW b \in Nat, NEW n \in Nat, NEW T,
         b \in T, \A k \in b .. n - 1 : k \in T => k + 1 \in T
  PROVE  b .. n \subseteq T
<1> SUFFICES ASSUME (b .. n) \ T # {} PROVE FALSE
  OBVIOUS
<1>1. PICK k \in (b .. n) \ T : \A m \in (b .. n) \ T : k <= m
  <2>1. (b .. n) \ T \subseteq Nat
    OBVIOUS
  <2> QED
    BY <2>1, LeastNatural
<1>2. k # b /\ k - 1 \in b .. n - 1 /\ k - 1 \in b .. n
  BY <1>1
<1>3. k - 1 \in T
  BY <1>1, <1>2
<1>4. (k - 1) + 1 \in T
  BY <1>2, <1>3
<1> QED
  BY <1>1, <1>4

-----------------------------------------------------------------------------
(* Lists: sequences that hold each member of a set once.                    *)

LEMMA Regrouped ==
  ASSUME NEW S, NEW p \in Seq(S), NEW q \in Seq(S), NEW t \in Seq(S)
  PROVE  p \o (q \o t) = (p \o q) \o t
BY ConcatAssociative

LEMMA Widened ==
  ASSUME NEW S, NEW T, S \subseteq T, NEW s \in Seq(S)
  PROVE  s \in Seq(T)
OBVIOUS

Lists(s, S) ==
  /\ s \in Seq(S)
  /\ \A k \in S : \E i \in 1 .. Len(s) : s[i] = k
  /\ \A i, j \in 1 .. Len(s) : s[i] = s[j] => i = j
  /\ IsFiniteSet(S) /\ Cardinality(S) = Len(s)

\* A sequence of the members of S, one for each number, is a list of them.
LEMMA ListOf ==
  ASSUME NEW S, NEW s \in Seq(S),
         \A k \in S : \E i \in 1 .. Len(s) : s[i] = k,
         \A i, j \in 1 .. Len(s) : s[i] = s[j] => i = j
  PROVE  Lists(s, S)
<1> DEFINE n == Len(s)
           D == 1 .. n
<1>1. n \in Nat /\ IsFiniteSet(D) /\ Cardinality(D) = n
  <2>1. n \in Nat
    OBVIOUS
  <2> HIDE DEF n
  <2>2. 1 \in Int /\ n \in Int
    BY <2>1
  <2>3. IsFiniteSet(1 .. n) /\ Cardinality(1 .. n) = IF 1 > n THEN 0 ELSE n - 1 + 1
    BY <2>2, FS_Interval
  <2> QED
    BY <2>1, <2>3
<1>2. s \in Bijection(D, S)
  BY SMTT(30) DEF Bijection, Injection, Surjection, IsInjective
<1> HIDE DEF n, D
<1>3. IsFiniteSet(S) /\ Cardinality(S) = n
  BY <1>1, <1>2, FS_Bijection DEF ExistsBijection
<1> QED
  BY <1>3 DEF Lists, n

LEMMA ListsJoined ==
  ASSUME NEW S, NEW s, Lists(s, S), NEW T, NEW t, Lists(t, T), S \cap T = {}
  PROVE  Lists(s \o t, S \cup T)
<1> DEFINE u == s \o t
           U == S \cup T
<1>1. s \in Seq(U) /\ t \in Seq(U) /\ Len(s) \in Nat /\ Len(t) \in Nat
  BY DEF Lists
<1> HIDE DEF U
<1>2. /\ u \in Seq(U) /\ Len(u) = Len(s) + Len(t)
      /\ \A n \in 1 .. Len(s) : u[n] = s[n]
      /\ \A n \in 1 .. Len(t) : u[Len(s) + n] = t[n]
  BY <1>1, Joined
<1> HIDE DEF u
<1>3. ASSUME NEW k \in U PROVE \E i \in 1 .. Len(u) : u[i] = k
  <2>1. CASE k \in S
    <3>1. PICK i \in 1 .. Len(s) : s[i] = k
      BY <2>1 DEF Lists
    <3>2. i \in 1 .. Len(u) /\ u[i] = k
      BY <1>1, <1>2, <3>1
    <3> QED
      BY <3>2
  <2>2. CASE k \in T
    <3>1. PICK i \in 1 .. Len(t) : t[i] = k
      BY <2>2 DEF Lists
    <3>2. Len(s) + i \in 1 .. Len(u) /\ u[Len(s) + i] = k
      BY <1>1, <1>2, <3>1
    <3> QED
      BY <3>2
  <2> QED
    BY <2>1, <2>2 DEF U
<1>4. ASSUME NEW i \in 1 .. Len(u)
      PROVE  \/ i \in 1 .. Len(s) /\ u[i] = s[i] /\ s[i] \in S
             \/ /\ i - Len(s) \in 1 .. Len(t) /\ u[i] = t[i - Len(s)]
                /\ t[i - Len(s)] \in T
  <2>1. i <= Len(s) \/ i - Len(s) \in 1 .. Len(t)
    BY <1>1, <1>2
  <2>2. CASE i <= Len(s)
    BY <1>1, <1>2, <2>2 DEF Lists
  <2>3. CASE i - Len(s) \in 1 .. Len(t)
    <3> DEFINE m == i - Len(s)
    <3>1. m \in 1 .. Len(t) /\ Len(s) + m = i
      BY <1>1, <2>3
    <3> HIDE DEF m
    <3>2. u[i] = t[m] /\ t[m] \in T
      BY <1>2, <3>1 DEF Lists
    <3> QED
      BY <3>1, <3>2 DEF m
  <2> QED
    BY <2>1, <2>2, <2>3
<1>5. ASSUME NEW i \in 1 .. Len(u), NEW j \in 1 .. Len(u), u[i] = u[j] PROVE i = j
  <2>1. CASE i \in 1 .. Len(s) /\ j \in 1 .. Len(s)
    BY <1>2, <1>5, <2>1 DEF Lists
  <2>2. CASE i - Len(s) \in 1 .. Len(t) /\ j - Len(s) \in 1 .. Len(t)
    <3> DEFINE a == i - Len(s)
               b == j - Len(s)
    <3>1. i = Len(s) + a /\ j = Len(s) + b /\ a \in 1 .. Len(t) /\ b \in 1 .. Len(t)
      BY <1>1, <2>2
    <3> HIDE DEF a, b
    <3>2. t[a] = t[b]
      BY <1>2, <1>5, <3>1
    <3>3. a = b
      BY <3>1, <3>2 DEF Lists
    <3> QED
      BY <3>1, <3>3
  <2>3. ASSUME NEW x \in S PROVE x \notin T
    OBVIOUS
  <2> QED
    BY <1>4, <1>5, <2>1, <2>2, <2>3
<1>6. Lists(u, U)
  BY <1>2, <1>3, <1>5, ListOf
<1> QED
  BY <1>6 DEF u, U

\* InOrder lists the members of a finite set: their numbers of smaller members are all
\* the numbers from 0 on, each once.
LEMMA Ranked ==
  ASSUME NEW S, IsFiniteSet(S), NEW f \in [S -> Int],
         \A x, y \in S : f[x] = f[y] => x = y,
         NEW s, s = [i \in 1 .. Cardinality(S) |-> s[i]],
         \A i \in 1 .. Cardinality(S) :
            (\E k \in S : Cardinality({x \in S : f[x] < f[k]}) = i - 1)
              => s[i] \in S /\ Cardinality({x \in S : f[x] < f[s[i]]}) = i - 1
  PROVE  Lists(s, S)
<1> DEFINE n == Cardinality(S)
           below(k) == {x \in S : f[x] < f[k]}
           c == [k \in S |-> Cardinality(below(k)) + 1]
<1>1. n \in Nat
  BY FS_CardinalityType
<1>2. ASSUME NEW k \in S PROVE /\ IsFiniteSet(below(k)) /\ Cardinality(below(k)) \in Nat
                                /\ Cardinality(below(k)) < n
  <2>1. below(k) \in SUBSET S /\ k \notin below(k)
    OBVIOUS
  <2> HIDE DEF below
  <2>2. IsFiniteSet(below(k)) /\ Cardinality(below(k)) <= n /\ (n = Cardinality(below(k)) => S = below(k))
    BY <2>1, FS_Subset
  <2>3. Cardinality(below(k)) \in Nat
    BY <2>2, FS_CardinalityType
  <2>4. n # Cardinality(below(k))
    BY <2>1, <2>2
  <2> QED
    BY <1>1, <2>2, <2>3, <2>4
<1>3. ASSUME NEW x \in S, NEW y \in S, f[x] < f[y]
      PROVE  Cardinality(below(x)) < Cardinality(below(y))
  <2>1. below(x) \in SUBSET below(y) /\ x \in below(y) /\ x \notin below(x)
    <3>1. f[x] \in Int /\ f[y] \in Int /\ \A z \in S : f[z] \in Int
      OBVIOUS
    <3> QED
      BY <1>3, <3>1
  <2> HIDE DEF below
  <2>2. /\ Cardinality(below(x)) <= Cardinality(below(y))
        /\ Cardinality(below(y)) = Cardinality(below(x)) => below(y) = below(x)
    BY <1>2, <2>1, FS_Subset
  <2> QED
    BY <1>2, <2>1, <2>2
<1> HIDE DEF below
<1>4. c \in Injection(S, 1 .. n)
  <2>1. c \in [S -> 1 .. n]
    BY <1>1, <1>2
  <2>2. ASSUME NEW x \in S, NEW y \in S, c[x] = c[y] PROVE x = y
    <3>1. Cardinality(below(x)) = Cardinality(below(y))
      BY <1>2, <2>2
    <3>2. ~(f[x] < f[y]) /\ ~(f[y] < f[x])
      BY <1>2, <1>3, <3>1
    <3> QED
      BY <3>2
  <2> HIDE DEF c
  <2> QED
    BY <2>1, <2>2 DEF Injection, IsInjective
<1>5. IsFiniteSet(1 .. n) /\ Cardinality(1 .. n) = n
  <2>1. 1 \in Int /\ n \in Int
    BY <1>1
  <2> HIDE DEF n
  <2>2. IsFiniteSet(1 .. n) /\ Cardinality(1 .. n) = IF 1 > n THEN 0 ELSE n - 1 + 1
    BY <2>1, FS_Interval
  <2> QED
    BY <1>1, <2>2
<1>6. c \in Surjection(S, 1 .. n)
  <2> HIDE DEF c
  <2> QED
    BY <1>4, <1>5, FS_Injection DEF n
<1>7. ASSUME NEW i \in 1 .. n PROVE s[i] \in S /\ c[s[i]] = i
  <2>1. PICK k \in S : c[k] = i
    <3> HIDE DEF c
    <3> QED
      BY <1>6 DEF Surjection
  <2>2. Cardinality(below(k)) = i - 1
    BY <1>2, <2>1
  <2>3. s[i] \in S /\ Cardinality(below(s[i])) = i - 1
    BY <2>2 DEF below, n
  <2> QED
    BY <1>2, <2>3
<1>0. s \in Seq(S) /\ Len(s) = n
  <2>1. s = [i \in 1 .. n |-> s[i]] /\ \A i \in 1 .. n : s[i] \in S
    <3> HIDE DEF c
    <3> QED
      BY <1>7
  <2> HIDE DEF n
  <2>2. s \in [1 .. n -> S]
    BY <2>1
  <2>3. ASSUME NEW g \in [1 .. n -> S] PROVE g \in Seq(S) /\ Len(g) = n
    BY <1>1
  <2> QED
    BY <2>2, <2>3
<1>8. ASSUME NEW k \in S PROVE \E i \in 1 .. Len(s) : s[i] = k
  <2> HIDE DEF c
  <2>1. c[k] \in 1 .. Len(s)
    BY <1>4, <1>0 DEF Injection
  <2>2. c[s[c[k]]] = c[k] /\ s[c[k]] \in S
    BY <1>7, <1>0, <2>1
  <2>3. s[c[k]] = k
    BY <1>4, <2>2 DEF Injection, IsInjective
  <2> QED
    BY <2>1, <2>3
<1>9. ASSUME NEW i \in 1 .. Len(s), NEW j \in 1 .. Len(s), s[i] = s[j] PROVE i = j
  <2> HIDE DEF c
  <2> QED
    BY <1>7, <1>9, <1>0
<1> QED
  BY ZenonT(40), <1>8, <1>9, <1>0, ListOf

LEMMA SortedLists ==
  ASSUME NEW S, IsFiniteSet(S), S \subseteq Int
  PROVE  Lists(Sorted(S), S)
<1> DEFINE f == [k \in S |-> k]
           s == Sorted(S)
<1>1. s = [i \in 1 .. Cardinality(S) |->
             CHOOSE k \in S : Cardinality({x \in S : x < k}) = i - 1]
  BY DEF Sorted, InOrder
<1>2. ASSUME NEW k \in S PROVE {x \in S : f[x] < f[k]} = {x \in S : x < k}
  OBVIOUS
<1>3. f \in [S -> Int] /\ \A x, y \in S : f[x] = f[y] => x = y
  OBVIOUS
<1>4. ASSUME NEW i \in 1 .. Cardinality(S),
             \E k \in S : Cardinality({x \in S : f[x] < f[k]}) = i - 1
      PROVE  s[i] \in S /\ Cardinality({x \in S : f[x] < f[s[i]]}) = i - 1
  <2> DEFINE P(k) == Cardinality({x \in S : x < k}) = i - 1
  <2>1. \E k \in S : P(k)
    BY <1>2, <1>4
  <2>2. s[i] = CHOOSE k \in S : P(k)
    BY <1>1
  <2> HIDE DEF P
  <2>3. s[i] \in S /\ P(s[i])
    BY <2>1, <2>2
  <2> QED
    BY <1>2, <2>3 DEF P
<1>5. s = [i \in 1 .. Cardinality(S) |-> s[i]]
  BY <1>1
<1> HIDE DEF f, s
<1>6. Lists(s, S)
  BY ZenonT(40), <1>3, <1>4, <1>5, Ranked
<1> QED
  BY <1>6 DEF s

\* The place of a member of a sequence, and its last place.
LEMMA SlotIs ==
  ASSUME NEW S, NEW t \in Seq(S), NEW k \in ToSet(t)
  PROVE  Slot(t, k) \in 1 .. Len(t) /\ t[Slot(t, k)] = k
<1> DEFINE I == {i \in 1 .. Len(t) : t[i] = k}
           J == {Len(t) - i : i \in I}
<1>1. Len(t) \in Nat /\ DOMAIN t = 1 .. Len(t)
  OBVIOUS
<1>2. J \subseteq Nat /\ J # {}
  BY <1>1 DEF ToSet
<1>3. PICK j \in J : \A m \in J : j <= m
  <2> HIDE DEF J
  <2> QED
    BY <1>2, LeastNatural
<1>4. PICK i \in I : j = Len(t) - i
  OBVIOUS
<1>5. ASSUME NEW h \in i + 1 .. Len(t) PROVE t[h] # k
  <2>1. SUFFICES ASSUME t[h] = k PROVE FALSE
    OBVIOUS
  <2>2. h \in I /\ h > i /\ i \in Nat /\ h \in Nat
    BY <1>1, <2>1
  <2>3. Len(t) - h \in J /\ Len(t) - h < Len(t) - i
    BY <1>1, <2>2
  <2>4. j <= Len(t) - h
    BY <1>3, <2>3
  <2> HIDE DEF I, J
  <2> QED
    BY <1>1, <1>4, <2>2, <2>3, <2>4
<1> DEFINE P(x) == t[x] = k /\ \A h \in x + 1 .. Len(t) : t[h] # k
<1>6. \E x \in 1 .. Len(t) : P(x)
  BY <1>4, <1>5
<1>7. Slot(t, k) = CHOOSE x \in 1 .. Len(t) : P(x)
  BY DEF Slot
<1> HIDE DEF P
<1>8. Slot(t, k) \in 1 .. Len(t) /\ P(Slot(t, k))
  BY <1>6, <1>7
<1> QED
  BY <1>8 DEF P

LEMMA BySlotLists ==
  ASSUME NEW U, NEW t \in Seq(U), NEW S, IsFiniteSet(S), S \subseteq ToSet(t)
  PROVE  Lists(BySlot(t, S), S)
<1> DEFINE f == [k \in S |-> Slot(t, k)]
           s == BySlot(t, S)
<1>1. s = [i \in 1 .. Cardinality(S) |->
             CHOOSE k \in S : Cardinality({x \in S : Slot(t, x) < Slot(t, k)}) = i - 1]
  BY DEF BySlot, InOrder
<1>2. ASSUME NEW k \in S
      PROVE  {x \in S : f[x] < f[k]} = {x \in S : Slot(t, x) < Slot(t, k)}
  OBVIOUS
<1>3. f \in [S -> Int] /\ \A x, y \in S : f[x] = f[y] => x = y
  <2>1. \A x \in S : Slot(t, x) \in 1 .. Len(t) /\ t[Slot(t, x)] = x
    BY SlotIs
  <2>2. \A x \in S : f[x] = Slot(t, x)
    OBVIOUS
  <2> QED
    BY <2>1, <2>2
<1>4. ASSUME NEW i \in 1 .. Cardinality(S),
             \E k \in S : Cardinality({x \in S : f[x] < f[k]}) = i - 1
      PROVE  s[i] \in S /\ Cardinality({x \in S : f[x] < f[s[i]]}) = i - 1
  <2> DEFINE P(k) == Cardinality({x \in S : Slot(t, x) < Slot(t, k)}) = i - 1
  <2>1. \E k \in S : P(k)
    BY <1>2, <1>4
  <2>2. s[i] = CHOOSE k \in S : P(k)
    BY <1>1
  <2> HIDE DEF P
  <2>3. s[i] \in S /\ P(s[i])
    BY <2>1, <2>2
  <2> QED
    BY <1>2, <2>3 DEF P
<1>5. s = [i \in 1 .. Cardinality(S) |-> s[i]]
  BY <1>1
<1> HIDE DEF f, s
<1>6. Lists(s, S)
  BY ZenonT(40), <1>3, <1>4, <1>5, Ranked
<1> QED
  BY <1>6 DEF s

LEMMA PlaceIs ==
  ASSUME NEW S, NEW t \in Seq(S), NEW k \in ToSet(t)
  PROVE  Place(t, k) \in 1 .. Len(t) /\ t[Place(t, k)] = k
<1> DEFINE I == {i \in 1 .. Len(t) : t[i] = k}
<1>1. I # {} /\ I \subseteq Nat
  BY DEF ToSet
<1>2. Place(t, k) = Min(I)
  BY <1>1 DEF Place, SelectInSeq
<1> HIDE DEF I
<1>3. \E x \in I : \A y \in I : x <= y
  BY <1>1, LeastNatural
<1>4. Min(I) \in I
  BY <1>3 DEF Min
<1> QED
  BY <1>2, <1>4 DEF I

LEMMA ProgramsListed ==
  ASSUME NEW S, NEW t \in Seq(S)
  PROVE  Lists(Programs(t), ToSet(t))
<1> DEFINE T == ToSet(t)
           f == [k \in T |-> Place(t, k)]
           s == Programs(t)
<1>1. s = [i \in 1 .. Cardinality(T) |->
             CHOOSE k \in T : Cardinality({x \in T : Place(t, x) < Place(t, k)}) = i - 1]
  BY DEF Programs, InOrder
<1> HIDE DEF T
<1>2. ASSUME NEW k \in T
      PROVE  {x \in T : f[x] < f[k]} = {x \in T : Place(t, x) < Place(t, k)}
  OBVIOUS
<1>3. f \in [T -> 1 .. Len(t)] /\ \A x, y \in T : f[x] = f[y] => x = y
  <2>1. \A x \in T : Place(t, x) \in 1 .. Len(t) /\ t[Place(t, x)] = x
    BY PlaceIs DEF T
  <2>2. \A x \in T : f[x] = Place(t, x)
    OBVIOUS
  <2> QED
    BY <2>1, <2>2
<1>f. IsFiniteSet(T) /\ f \in [T -> Int]
  <2> HIDE DEF f
  <2>1. f \in Injection(T, 1 .. Len(t))
    BY <1>3 DEF Injection, IsInjective
  <2>2. IsFiniteSet(1 .. Len(t))
    <3>1. 1 \in Int /\ Len(t) \in Int
      OBVIOUS
    <3> QED
      BY <3>1, FS_Interval
  <2> QED
    BY <1>3, <2>1, <2>2, FS_Injection
<1>4. ASSUME NEW i \in 1 .. Cardinality(T),
             \E k \in T : Cardinality({x \in T : f[x] < f[k]}) = i - 1
      PROVE  s[i] \in T /\ Cardinality({x \in T : f[x] < f[s[i]]}) = i - 1
  <2> DEFINE P(k) == Cardinality({x \in T : Place(t, x) < Place(t, k)}) = i - 1
  <2>1. \E k \in T : P(k)
    BY <1>2, <1>4
  <2>2. s[i] = CHOOSE k \in T : P(k)
    BY <1>1
  <2> HIDE DEF P
  <2>3. s[i] \in T /\ P(s[i])
    BY <2>1, <2>2
  <2> QED
    BY <1>2, <2>3 DEF P
<1>5. s = [i \in 1 .. Cardinality(T) |-> s[i]]
  BY <1>1
<1> HIDE DEF f, s
<1>6. Lists(s, T)
  BY ZenonT(40), <1>3, <1>4, <1>5, <1>f, Ranked
<1> QED
  BY <1>6 DEF s, T
-----------------------------------------------------------------------------
(* Sequences laid end to end.                                               *)

\* G[k] is the first k of the sequences of ss, one after the other.
Prefixed(G, ss, S) ==
  /\ G = [k \in 0 .. Len(ss) |-> G[k]] /\ G[0] = << >>
  /\ \A k \in 0 .. Len(ss) : G[k] \in Seq(S)
  /\ \A k \in 1 .. Len(ss) : G[k] = G[k - 1] \o ss[k]
  /\ FlattenSeq(ss) = G[Len(ss)]

LEMMA FlattenPrefixes ==
  ASSUME NEW S, NEW ss \in Seq(Seq(S))
  PROVE  \E G : Prefixed(G, ss, S)
<1> DEFINE N == Len(ss)
           P(m, g) == /\ g = [k \in 1 .. m |-> IF k = 1 THEN ss[k] ELSE g[k - 1] \o ss[k]]
                      /\ \A k \in 1 .. m : g[k] \in Seq(S)
           T == {m \in Nat : \E g : P(m, g)}
           flat(g) == g = [k \in 1 .. N |-> IF k = 1 THEN ss[k] ELSE g[k - 1] \o ss[k]]
           H == CHOOSE g : flat(g)
           G == [k \in 0 .. N |-> IF k = 0 THEN << >> ELSE H[k]]
<1>0. N \in Nat /\ \A k \in 1 .. N : ss[k] \in Seq(S)
  OBVIOUS
<1>1. CASE N = 0
  <2>1. FlattenSeq(ss) = ss /\ ss = << >>
    BY <1>1 DEF FlattenSeq
  <2>2. Prefixed([k \in 0 .. 0 |-> << >>], ss, S)
    BY <1>1, <2>1 DEF Prefixed
  <2> QED
    BY <2>2
<1>2. CASE N # 0
  <2>1. N \in Nat /\ 1 \in 1 .. N /\ 1 \in Nat
    BY <1>0, <1>2
  <2>2. 1 \in T
    <3>1. P(1, [k \in 1 .. 1 |-> ss[1]])
      <4>1. \A k \in 1 .. 1 : k = 1
        OBVIOUS
      <4>2. ss[1] \in Seq(S)
        BY <2>1
      <4> QED
        BY <4>1, <4>2
    <3> HIDE DEF P
    <3> QED
      BY <2>1, <3>1
  <2>3. ASSUME NEW m \in 1 .. N - 1, m \in T PROVE m + 1 \in T
    <3>1. PICK g : P(m, g)
      BY <2>3
    <3> DEFINE h == [k \in 1 .. m + 1 |-> IF k = m + 1 THEN g[m] \o ss[m + 1] ELSE g[k]]
    <3>2. m \in 1 .. m /\ m + 1 \in 1 .. N /\ m + 1 # 1 /\ (m + 1) - 1 = m /\ m \in Nat
      BY <1>0
    <3>3. h[m + 1] = g[m] \o ss[m + 1] /\ \A k \in 1 .. m : h[k] = g[k]
      <4>1. m + 1 \in 1 .. m + 1 /\ \A k \in 1 .. m : k \in 1 .. m + 1 /\ k # m + 1
        BY <3>2
      <4> QED
        BY <4>1
    <3>4. h = [k \in 1 .. m + 1 |-> h[k]]
      OBVIOUS
    <3> HIDE DEF h
    <3>5. g[m] \in Seq(S) /\ ss[m + 1] \in Seq(S)
      BY <1>0, <3>1, <3>2
    <3>6. g[m] \o ss[m + 1] \in Seq(S)
      BY <3>5
    <3>7. ASSUME NEW k \in 1 .. m + 1
          PROVE  h[k] \in Seq(S) /\ h[k] = IF k = 1 THEN ss[k] ELSE h[k - 1] \o ss[k]
      <4>1. CASE k = m + 1
        BY <3>2, <3>3, <3>6, <4>1
      <4>2. CASE k # m + 1
        <5>1. k \in 1 .. m /\ (k = 1 \/ k - 1 \in 1 .. m)
          BY <4>2
        <5>2. g[k] \in Seq(S) /\ g[k] = IF k = 1 THEN ss[k] ELSE g[k - 1] \o ss[k]
          BY <3>1, <5>1
        <5> QED
          BY <3>3, <5>1, <5>2
      <4> QED
        BY <4>1, <4>2
    <3>8. P(m + 1, h)
      <4> DEFINE f == [k \in 1 .. m + 1 |-> IF k = 1 THEN ss[k] ELSE h[k - 1] \o ss[k]]
      <4>1. \A k \in 1 .. m + 1 : h[k] = f[k]
        BY <3>7
      <4>2. h = f
        BY <3>4, <4>1
      <4> QED
        BY <3>7, <4>2
    <3> HIDE DEF P
    <3> QED
      BY <3>2, <3>8
  <2>4. N \in T
    <3> HIDE DEF T, N
    <3>1. 1 .. N \subseteq T
      BY <2>1, <2>2, <2>3, Induction
    <3>2. N \in 1 .. N
      BY <2>1
    <3> QED
      BY <3>1, <3>2
  <2>5. PICK g : P(N, g)
    BY <2>4
  <2>6. flat(g)
    BY <2>5
  <2>7. FlattenSeq(ss) = H[N]
    BY <1>2 DEF FlattenSeq
  <2> HIDE DEF flat
  <2>8. flat(H)
    BY <2>6
  <2> HIDE DEF H
  <2>9. \A k \in 1 .. N : H[k] = IF k = 1 THEN ss[k] ELSE H[k - 1] \o ss[k]
    BY <2>8, Zenon DEF flat
  <2>10. /\ G[0] = << >> /\ G = [k \in 0 .. N |-> G[k]]
         /\ \A k \in 1 .. N : G[k] = H[k]
    BY <2>1
  <2>11. 1 .. N \subseteq {k \in Nat : H[k] \in Seq(S)}
    <3> DEFINE Q == {k \in Nat : H[k] \in Seq(S)}
    <3>1. 1 \in Q
      BY <1>0, <2>1, <2>9
    <3>2. ASSUME NEW m \in 1 .. N - 1, m \in Q PROVE m + 1 \in Q
      <4>1. m + 1 \in 1 .. N /\ m + 1 # 1 /\ (m + 1) - 1 = m /\ m + 1 \in Nat
        BY <1>0
      <4>2. H[m + 1] = H[m] \o ss[m + 1]
        BY <2>9, <4>1
      <4>3. H[m] \in Seq(S) /\ ss[m + 1] \in Seq(S)
        BY <1>0, <3>2, <4>1
      <4>4. H[m] \o ss[m + 1] \in Seq(S)
        BY <4>3
      <4> QED
        BY <4>1, <4>2, <4>4
    <3> HIDE DEF Q, N
    <3> QED
      BY <2>1, <3>1, <3>2, Induction DEF Q
  <2> HIDE DEF G, N
  <2>12. ASSUME NEW k \in 0 .. N PROVE G[k] \in Seq(S)
    <3>1. CASE k = 0
      <4>1. << >> \in Seq(S)
        OBVIOUS
      <4> QED
        BY <2>10, <3>1, <4>1
    <3>2. CASE k # 0
      <4>1. k \in 1 .. N
        BY <2>1, <3>2
      <4> QED
        BY <2>10, <2>11, <4>1
    <3> QED
      BY <3>1, <3>2
  <2>13. ASSUME NEW k \in 1 .. N PROVE G[k] = G[k - 1] \o ss[k]
    <3>1. CASE k = 1
      <4>1. G[1] = ss[1] /\ G[0] = << >> /\ ss[1] \in Seq(S)
        BY <1>0, <2>1, <2>9, <2>10
      <4>2. << >> \o ss[1] = ss[1]
        BY <4>1, ConcatEmptySeq
      <4>3. G[k] = ss[k] /\ G[k - 1] = << >> /\ << >> \o ss[k] = ss[k]
        BY <3>1, <4>1, <4>2
      <4> QED
        BY <4>3
    <3>2. CASE k # 1
      <4>1. k - 1 \in 1 .. N
        BY <2>1, <3>2
      <4> QED
        BY <2>9, <2>10, <3>2, <4>1
    <3> QED
      BY <3>1, <3>2
  <2>14. FlattenSeq(ss) = G[N]
    BY <2>1, <2>7, <2>10
  <2>15. Prefixed(G, ss, S)
    BY <2>10, <2>12, <2>13, <2>14 DEF Prefixed, N
  <2> QED
    BY <2>15
<1> QED
  BY <1>1, <1>2

\* The places of a sequence within all of them: off[k] members come before the next one.
Places(F, ss, off) ==
  /\ off[0] = 0 /\ off[Len(ss)] = Len(F)
  /\ \A k \in 0 .. Len(ss) : off[k] \in Nat
  /\ \A k \in 1 .. Len(ss) : /\ off[k] = off[k - 1] + Len(ss[k])
                              /\ \A i \in 1 .. Len(ss[k]) : F[off[k - 1] + i] = ss[k][i]
  /\ \A j, k \in 0 .. Len(ss) : j <= k => off[j] <= off[k]
  /\ \A p \in 1 .. Len(F) : \E k \in 1 .. Len(ss) : p > off[k - 1] /\ p <= off[k]

LEMMA FlattenPlaces ==
  ASSUME NEW S, NEW ss \in Seq(Seq(S))
  PROVE  FlattenSeq(ss) \in Seq(S) /\ \E off : Places(FlattenSeq(ss), ss, off)
<1> DEFINE N == Len(ss)
<1>1. PICK G : Prefixed(G, ss, S)
  BY FlattenPrefixes
<1> DEFINE off == [k \in 0 .. N |-> Len(G[k])]
<1>2. N \in Nat /\ (\A k \in 1 .. N : ss[k] \in Seq(S) /\ Len(ss[k]) \in Nat)
  OBVIOUS
<1>3. /\ G[0] = << >> /\ FlattenSeq(ss) = G[N]
      /\ \A k \in 0 .. N : G[k] \in Seq(S)
      /\ \A k \in 1 .. N : G[k] = G[k - 1] \o ss[k]
  BY <1>1 DEF Prefixed
<1> HIDE DEF N
<1>4. /\ \A k \in 0 .. N : off[k] = Len(G[k]) /\ off[k] \in Nat
      /\ off[0] = 0 /\ 0 \in 0 .. N /\ N \in 0 .. N
  BY <1>2, <1>3
<1> HIDE DEF off
<1>5. ASSUME NEW k \in 1 .. N
      PROVE  /\ off[k] = off[k - 1] + Len(ss[k])
             /\ \A i \in 1 .. off[k - 1] : G[k][i] = G[k - 1][i]
             /\ \A i \in 1 .. Len(ss[k]) : G[k][off[k - 1] + i] = ss[k][i]
  <2>1. k - 1 \in 0 .. N /\ k \in 0 .. N
    BY <1>2
  <2>2. G[k - 1] \in Seq(S) /\ ss[k] \in Seq(S) /\ G[k] = G[k - 1] \o ss[k]
    BY <1>2, <1>3, <2>1
  <2>3. /\ Len(G[k]) = Len(G[k - 1]) + Len(ss[k])
        /\ \A i \in 1 .. Len(G[k - 1]) : G[k][i] = G[k - 1][i]
        /\ \A i \in 1 .. Len(ss[k]) : G[k][Len(G[k - 1]) + i] = ss[k][i]
    <3> DEFINE x == G[k - 1]
               y == ss[k]
               z == G[k]
    <3>1. x \in Seq(S) /\ y \in Seq(S) /\ z = x \o y
      BY <2>2
    <3> HIDE DEF x, y, z
    <3>2. /\ Len(z) = Len(x) + Len(y)
          /\ \A i \in 1 .. Len(x) : z[i] = x[i]
          /\ \A i \in 1 .. Len(y) : z[Len(x) + i] = y[i]
      BY <3>1, Joined
    <3> QED
      BY <3>2 DEF x, y, z
  <2> QED
    BY <1>4, <2>1, <2>3

\* what is in the first j of them stays where it is
<1>6. ASSUME NEW j \in 0 .. N
      PROVE  j .. N \subseteq {k \in Nat : /\ off[j] <= off[k]
                                          /\ \A i \in 1 .. off[j] : G[k][i] = G[j][i]}
  <2> DEFINE Q == {k \in Nat : off[j] <= off[k] /\ \A i \in 1 .. off[j] : G[k][i] = G[j][i]}
  <2>1. j \in Nat /\ off[j] \in Nat
    BY <1>2, <1>4
  <2>2. j \in Q
    BY <2>1
  <2>3. ASSUME NEW k \in j .. N - 1, k \in Q PROVE k + 1 \in Q
    <3>1. k + 1 \in 1 .. N /\ (k + 1) - 1 = k /\ k \in 0 .. N /\ k + 1 \in 0 .. N
      BY <1>2, <2>1
    <3>2. off[k + 1] = off[k] + Len(ss[k + 1]) /\ \A i \in 1 .. off[k] : G[k + 1][i] = G[k][i]
      BY <1>5, <3>1
    <3>3. off[j] <= off[k] /\ off[k] \in Nat /\ Len(ss[k + 1]) \in Nat
      BY <1>2, <1>4, <2>3, <3>1
    <3>4. ASSUME NEW i \in 1 .. off[j] PROVE G[k + 1][i] = G[j][i]
      <4>1. i \in 1 .. off[k]
        BY <2>1, <3>3
      <4> QED
        BY <2>3, <3>2, <4>1
    <3> QED
      BY <2>1, <3>1, <3>2, <3>3, <3>4
  <2> HIDE DEF Q
  <2>4. CASE j <= N
    BY <1>2, <2>1, <2>2, <2>3, Induction DEF Q
  <2> QED
    BY <1>2, <2>4
<1> DEFINE F == FlattenSeq(ss)
<1>7. ASSUME NEW k \in 1 .. N, NEW i \in 1 .. Len(ss[k]) PROVE F[off[k - 1] + i] = ss[k][i]
  <2>1. /\ k \in 0 .. N /\ k - 1 \in 0 .. N /\ N \in k .. N /\ off[k - 1] \in Nat
        /\ off[k] = off[k - 1] + Len(ss[k]) /\ Len(ss[k]) \in Nat
    BY <1>2, <1>4, <1>5
  <2>2. off[k - 1] + i \in 1 .. off[k]
    BY <2>1
  <2>3. \A h \in 1 .. off[k] : G[N][h] = G[k][h]
    BY <1>6, <2>1
  <2> QED
    BY <1>3, <1>5, <2>2, <2>3
<1>8. ASSUME NEW j \in 0 .. N, NEW k \in 0 .. N, j <= k PROVE off[j] <= off[k]
  <2>1. k \in j .. N
    BY <1>2, <1>8
  <2> QED
    BY <1>6, <2>1
<1>9. F \in Seq(S) /\ Len(F) = off[N]
  BY <1>3, <1>4
<1> HIDE DEF F
<1>10. ASSUME NEW p \in 1 .. Len(F) PROVE \E k \in 1 .. N : p > off[k - 1] /\ p <= off[k]
  <2> DEFINE K == {k \in 0 .. N : p <= off[k]}
  <2>1. K \subseteq Nat /\ N \in K /\ p \in Nat /\ p >= 1
    BY <1>2, <1>4, <1>9
  <2>2. PICK k \in K : \A m \in K : k <= m
    <3> HIDE DEF K
    <3> QED
      BY <2>1, LeastNatural
  <2>3. k # 0 /\ k \in 1 .. N /\ k - 1 \in 0 .. N
    BY <1>2, <1>4, <2>1
  <2>4. k - 1 \notin K
    BY <2>2, <2>3
  <2>5. off[k - 1] \in Nat /\ off[k] \in Nat
    BY <1>4, <2>3
  <2> QED
    BY <2>1, <2>3, <2>4, <2>5
<1>11. Places(F, ss, off)
  BY <1>4, <1>5, <1>7, <1>8, <1>9, <1>10 DEF Places, N
<1> QED
  BY <1>9, <1>11 DEF F

\* Lists of disjoint sets, laid end to end, list their union.
ListsEach(n, ss, T) ==
  /\ ss = [k \in 1 .. n |-> ss[k]]
  /\ \A k \in 1 .. n : Lists(ss[k], T[k])
  /\ \A j, k \in 1 .. n : j # k => T[j] \cap T[k] = {}

LEMMA FlattenLists ==
  ASSUME NEW n \in Nat, NEW T, NEW ss, ListsEach(n, ss, T)
  PROVE  Lists(FlattenSeq(ss), UNION {T[k] : k \in 1 .. n})
<1> USE DEF ListsEach
<1> DEFINE S == UNION {T[k] : k \in 1 .. n}
           F == FlattenSeq(ss)
<1>1. ASSUME NEW k \in 1 .. n PROVE ss[k] \in Seq(S) /\ Len(ss[k]) \in Nat
  <2>1. ss[k] \in Seq(T[k]) /\ T[k] \subseteq S
    BY DEF Lists
  <2> HIDE DEF S
  <2> QED
    BY <2>1
<1>2. ss \in Seq(Seq(S)) /\ Len(ss) = n
  <2> HIDE DEF S
  <2>1. ss \in [1 .. n -> Seq(S)]
    BY <1>1
  <2> QED
    BY <2>1
<1>3. F \in Seq(S) /\ \E off : Places(F, ss, off)
  <2> HIDE DEF S
  <2> QED
    BY <1>2, FlattenPlaces
<1>4. PICK off : Places(F, ss, off)
  BY <1>3
<1> HIDE DEF F
<1>5. /\ off[n] = Len(F) /\ Len(F) \in Nat
      /\ \A k \in 0 .. n : off[k] \in Nat
      /\ \A k \in 1 .. n : /\ off[k] = off[k - 1] + Len(ss[k])
                           /\ \A i \in 1 .. Len(ss[k]) : F[off[k - 1] + i] = ss[k][i]
      /\ \A j, k \in 0 .. n : j <= k => off[j] <= off[k]
      /\ \A p \in 1 .. Len(F) : \E k \in 1 .. n : p > off[k - 1] /\ p <= off[k]
  BY <1>2, <1>3, <1>4 DEF Places
<1>6. ASSUME NEW p \in 1 .. Len(F)
      PROVE  \E k \in 1 .. n : \E i \in 1 .. Len(ss[k]) :
                p = off[k - 1] + i /\ F[p] = ss[k][i] /\ ss[k][i] \in T[k]
  <2>1. PICK k \in 1 .. n : p > off[k - 1] /\ p <= off[k]
    BY <1>5
  <2> DEFINE i == p - off[k - 1]
  <2>2. k - 1 \in 0 .. n /\ off[k - 1] \in Nat /\ off[k] = off[k - 1] + Len(ss[k]) /\ Len(ss[k]) \in Nat
    BY <1>1, <1>5
  <2>3. i \in 1 .. Len(ss[k]) /\ p = off[k - 1] + i
    BY <2>1, <2>2
  <2> HIDE DEF i
  <2>4. F[p] = ss[k][i]
    BY <1>5, <2>3
  <2>5. ss[k][i] \in T[k]
    BY <2>3 DEF Lists
  <2> QED
    BY <2>3, <2>4, <2>5
<1>7. ASSUME NEW x \in S PROVE \E p \in 1 .. Len(F) : F[p] = x
  <2>1. PICK k \in 1 .. n : x \in T[k]
    OBVIOUS
  <2>2. PICK i \in 1 .. Len(ss[k]) : ss[k][i] = x
    BY <2>1 DEF Lists
  <2>3. /\ k - 1 \in 0 .. n /\ k \in 0 .. n /\ n \in 0 .. n /\ off[k - 1] \in Nat
        /\ off[k] = off[k - 1] + Len(ss[k])
        /\ Len(ss[k]) \in Nat /\ off[k] <= off[n]
    <3>1. k - 1 \in 0 .. n /\ k \in 0 .. n /\ n \in 0 .. n /\ k <= n
      OBVIOUS
    <3> QED
      BY <1>1, <1>5, <3>1
  <2>4. off[k - 1] + i \in 1 .. Len(F)
    BY SMTT(30), <1>5, <2>2, <2>3
  <2>5. F[off[k - 1] + i] = x
    BY <1>5, <2>2
  <2> QED
    BY <2>4, <2>5
<1>8. ASSUME NEW p \in 1 .. Len(F), NEW q \in 1 .. Len(F), F[p] = F[q] PROVE p = q
  <2>a. PICK k \in 1 .. n : \E i \in 1 .. Len(ss[k]) :
                p = off[k - 1] + i /\ F[p] = ss[k][i] /\ ss[k][i] \in T[k]
    BY <1>6
  <2>b. PICK j \in 1 .. n : \E h \in 1 .. Len(ss[j]) :
                q = off[j - 1] + h /\ F[q] = ss[j][h] /\ ss[j][h] \in T[j]
    BY <1>6
  <2>1. PICK i \in 1 .. Len(ss[k]) :
                p = off[k - 1] + i /\ F[p] = ss[k][i] /\ ss[k][i] \in T[k]
    BY <2>a
  <2>2. PICK h \in 1 .. Len(ss[j]) :
                q = off[j - 1] + h /\ F[q] = ss[j][h] /\ ss[j][h] \in T[j]
    BY <2>b
  <2>3. j = k
    BY <1>8, <2>1, <2>2
  <2>4. i = h
    BY <1>8, <2>1, <2>2, <2>3 DEF Lists
  <2> QED
    BY <2>1, <2>2, <2>3, <2>4
<1> HIDE DEF S
<1>9. Lists(F, S)
  BY <1>3, <1>7, <1>8, ListOf
<1> QED
  BY <1>9 DEF F, S

\* Of two lists laid end to end, the first places hold the first set.
LEMMA ListsSplit ==
  ASSUME NEW S, NEW s, Lists(s, S), NEW T, NEW t, Lists(t, T)
  PROVE  /\ Len(s) \in Nat /\ Len(t) \in Nat /\ Len(s \o t) = Len(s) + Len(t)
         /\ \A p \in 1 .. Len(s \o t) :
              /\ p <= Len(s) => (s \o t)[p] = s[p] /\ s[p] \in S
              /\ p > Len(s) => (s \o t)[p] = t[p - Len(s)] /\ t[p - Len(s)] \in T
<1> DEFINE u == s \o t
           U == S \cup T
<1>1. s \in Seq(U) /\ t \in Seq(U) /\ Len(s) \in Nat /\ Len(t) \in Nat
  BY DEF Lists
<1>2. s \in Seq(S) /\ t \in Seq(T)
  BY DEF Lists
<1> HIDE DEF U
<1>3. /\ Len(u) = Len(s) + Len(t)
      /\ \A n \in 1 .. Len(s) : u[n] = s[n]
      /\ \A n \in 1 .. Len(t) : u[Len(s) + n] = t[n]
  BY <1>1, Joined
<1> HIDE DEF u
<1>4. ASSUME NEW p \in 1 .. Len(u), p <= Len(s) PROVE u[p] = s[p] /\ s[p] \in S
  <2>1. p \in 1 .. Len(s)
    BY <1>1, <1>4
  <2> QED
    BY <1>2, <1>3, <2>1
<1>5. ASSUME NEW p \in 1 .. Len(u), p > Len(s)
      PROVE  u[p] = t[p - Len(s)] /\ t[p - Len(s)] \in T
  <2> DEFINE q == p - Len(s)
  <2>1. q \in 1 .. Len(t) /\ Len(s) + q = p
    BY <1>1, <1>3, <1>5
  <2> HIDE DEF q
  <2>2. u[p] = t[q] /\ t[q] \in T
    BY <1>2, <1>3, <2>1
  <2> QED
    BY <2>2 DEF q
<1>6. /\ Len(u) = Len(s) + Len(t)
      /\ \A p \in 1 .. Len(u) :
           /\ p <= Len(s) => u[p] = s[p] /\ s[p] \in S
           /\ p > Len(s) => u[p] = t[p - Len(s)] /\ t[p - Len(s)] \in T
  BY <1>3, <1>4, <1>5
<1> QED
  BY <1>1, <1>6 DEF u

LaidOut(n, w, r) == [i \in 1 .. n |-> w[i] \o r[i]]

\* Pairs of sequences laid end to end are the first ones and then the second ones, if no
\* second one that is not empty comes before a first one that is not empty.
LEMMA FlattenAligned ==
  ASSUME NEW S, NEW n \in Nat, NEW w \in [1 .. n -> Seq(S)], NEW r \in [1 .. n -> Seq(S)],
         \A i, j \in 1 .. n : i < j => r[i] = << >> \/ w[j] = << >>
  PROVE  FlattenSeq(LaidOut(n, w, r)) = FlattenSeq(w) \o FlattenSeq(r)
<1> DEFINE wr == [i \in 1 .. n |-> w[i] \o r[i]]
<1>1. \A i \in 1 .. n : w[i] \in Seq(S) /\ r[i] \in Seq(S) /\ w[i] \o r[i] \in Seq(S)
  BY ConcatProperties
<1>2. wr \in [1 .. n -> Seq(S)] /\ \A i \in 1 .. n : wr[i] = w[i] \o r[i]
  BY <1>1
<1> HIDE DEF wr
<1>3. ASSUME NEW f \in [1 .. n -> Seq(S)] PROVE f \in Seq(Seq(S)) /\ Len(f) = n
  OBVIOUS
<1>a. PICK A : Prefixed(A, wr, S)
  BY <1>2, <1>3, FlattenPrefixes
<1>b. PICK W : Prefixed(W, w, S)
  BY <1>3, FlattenPrefixes
<1>c. PICK R : Prefixed(R, r, S)
  BY <1>3, FlattenPrefixes
<1>4. /\ A[0] = << >> /\ W[0] = << >> /\ R[0] = << >>
      /\ FlattenSeq(wr) = A[n] /\ FlattenSeq(w) = W[n] /\ FlattenSeq(r) = R[n]
      /\ \A k \in 0 .. n : W[k] \in Seq(S) /\ R[k] \in Seq(S)
      /\ \A k \in 1 .. n : /\ A[k] = A[k - 1] \o wr[k]
                           /\ W[k] = W[k - 1] \o w[k]
                           /\ R[k] = R[k - 1] \o r[k]
  BY <1>2, <1>3, <1>a, <1>b, <1>c DEF Prefixed
<1>5. ASSUME NEW k \in 0 .. n, \A i \in 1 .. k : r[i] = << >> PROVE R[k] = << >>
  <2> DEFINE Q == {m \in Nat : R[m] = << >>}
  <2>1. 0 \in Nat /\ k \in Nat /\ 0 \in Q /\ k \in 0 .. k
    BY <1>4
  <2>2. ASSUME NEW m \in 0 .. k - 1, m \in Q PROVE m + 1 \in Q
    <3>1. m + 1 \in 1 .. n /\ m + 1 \in 1 .. k /\ (m + 1) - 1 = m /\ m + 1 \in Nat
      BY <2>1
    <3>2. R[m + 1] = << >> \o << >>
      BY <1>4, <1>5, <2>2, <3>1
    <3>3. << >> \in Seq(S)
      OBVIOUS
    <3>4. << >> \o << >> = << >>
      BY <3>3, ConcatEmptySeq
    <3> QED
      BY <3>1, <3>2, <3>4
  <2> HIDE DEF Q
  <2>3. 0 .. k \subseteq Q
    BY <2>1, <2>2, Induction
  <2> QED
    BY <2>1, <2>3 DEF Q
<1> DEFINE T == {k \in Nat : A[k] = W[k] \o R[k]}
<1>6. 0 \in T
  <2>1. << >> \in Seq(S)
    OBVIOUS
  <2>2. << >> \o << >> = << >>
    BY <2>1, ConcatEmptySeq
  <2> QED
    BY <1>4, <2>2
<1>7. ASSUME NEW k \in 0 .. n - 1, k \in T PROVE k + 1 \in T
  <2>1. k + 1 \in 1 .. n /\ (k + 1) - 1 = k /\ k \in 0 .. n /\ k + 1 \in Nat
    OBVIOUS
  <2> DEFINE a == W[k]
             b == R[k]
             x == w[k + 1]
             y == r[k + 1]
  <2>2. a \in Seq(S) /\ b \in Seq(S) /\ x \in Seq(S) /\ y \in Seq(S)
    BY <1>1, <1>4, <2>1
  <2>3. A[k + 1] = (a \o b) \o (x \o y) /\ W[k + 1] = a \o x /\ R[k + 1] = b \o y
    BY <1>2, <1>4, <1>7, <2>1
  <2>4. b = << >> \/ x = << >>
    <3>1. ASSUME x # << >>, NEW i \in 1 .. k PROVE r[i] = << >>
      <4>1. i \in 1 .. n /\ i < k + 1
        BY <2>1
      <4> QED
        BY <2>1, <3>1, <4>1
    <3> QED
      BY <1>5, <2>1, <3>1
  <2> HIDE DEF a, b, x, y
  <2>5. x \o y \in Seq(S) /\ b \o y \in Seq(S)
    BY <2>2, ConcatProperties
  <2>6. (a \o b) \o (x \o y) = (a \o x) \o (b \o y)
    <3>1. CASE b = << >>
      <4>1. a \o b = a /\ b \o y = y
        BY <2>2, <3>1, ConcatEmptySeq
      <4>2. (a \o x) \o y = a \o (x \o y)
        BY <2>2, ConcatAssociative
      <4> QED
        BY <4>1, <4>2
    <3>2. CASE x = << >>
      <4>1. a \o x = a /\ x \o y = y
        BY <2>2, <3>2, ConcatEmptySeq
      <4>2. (a \o b) \o y = a \o (b \o y)
        BY SMTT(30), <2>2, ConcatAssociative
      <4> QED
        BY <4>1, <4>2
    <3> QED
      BY <2>4, <3>1, <3>2
  <2> QED
    BY <2>1, <2>3, <2>6
<1>8. n \in T
  <2> HIDE DEF T
  <2>1. 0 \in Nat /\ n \in 0 .. n
    OBVIOUS
  <2>2. 0 .. n \subseteq T
    BY <1>6, <1>7, <2>1, Induction
  <2> QED
    BY <2>1, <2>2
<1> QED
  BY <1>4, <1>8 DEF wr, LaidOut

Seqs(n, f, S) == n \in Nat /\ f \in [1 .. n -> Seq(S)]

LEMMA FlattenHolds ==
  ASSUME NEW S, NEW n, NEW f, Seqs(n, f, S)
  PROVE  \A i \in 1 .. n :
            f[i] # << >> => \E p \in 1 .. Len(FlattenSeq(f)) : FlattenSeq(f)[p] = f[i][1]
<1> SUFFICES ASSUME NEW i \in 1 .. n, f[i] # << >>
             PROVE  \E p \in 1 .. Len(FlattenSeq(f)) : FlattenSeq(f)[p] = f[i][1]
  OBVIOUS
<1>0. n \in Nat /\ f \in [1 .. n -> Seq(S)]
  BY DEF Seqs
<1> DEFINE F == FlattenSeq(f)
<1>1. f \in Seq(Seq(S)) /\ Len(f) = n
  BY <1>0
<1>2. F \in Seq(S) /\ \E off : Places(F, f, off)
  BY <1>1, FlattenPlaces
<1> HIDE DEF F
<1>3. PICK off : Places(F, f, off)
  BY <1>2
<1>4. /\ off[n] = Len(F)
      /\ \A k \in 0 .. n : off[k] \in Nat
      /\ \A k \in 1 .. n : /\ off[k] = off[k - 1] + Len(f[k])
                           /\ \A h \in 1 .. Len(f[k]) : F[off[k - 1] + h] = f[k][h]
      /\ \A k, m \in 0 .. n : k <= m => off[k] <= off[m]
  BY <1>1, <1>3 DEF Places
<1>5. Len(f[i]) \in Nat /\ Len(f[i]) >= 1
  <2>1. ASSUME NEW s \in Seq(S), s # << >> PROVE Len(s) \in Nat /\ Len(s) >= 1
    BY <2>1
  <2> QED
    BY <1>0, <2>1
<1>6. /\ i - 1 \in 0 .. n /\ i \in 0 .. n /\ n \in 0 .. n /\ i <= n
  BY <1>0
<1>7. /\ off[i - 1] \in Nat /\ off[i] \in Nat /\ off[i] = off[i - 1] + Len(f[i])
      /\ off[i] <= Len(F) /\ Len(F) \in Nat
  BY <1>2, <1>4, <1>6
<1>8. off[i - 1] + 1 \in 1 .. Len(F)
  BY <1>5, <1>7
<1>9. F[off[i - 1] + 1] = f[i][1]
  <2>1. 1 \in 1 .. Len(f[i])
    BY <1>5
  <2> QED
    BY <1>4, <2>1
<1>10. \E p \in 1 .. Len(F) : F[p] = f[i][1]
  BY <1>8, <1>9
<1> QED
  BY <1>10 DEF F

\* Otherwise the second one is before the first one of a later pair when they are laid
\* end to end.
LEMMA FlattenUnaligned ==
  ASSUME NEW S, NEW n, NEW w, NEW r, Seqs(n, w, S), Seqs(n, r, S)
  PROVE  \A i, j \in 1 .. n :
            i < j /\ r[i] # << >> /\ w[j] # << >>
              => \E p, q \in 1 .. Len(FlattenSeq(LaidOut(n, w, r))) :
                    /\ p < q
                    /\ FlattenSeq(LaidOut(n, w, r))[p] = r[i][1]
                    /\ FlattenSeq(LaidOut(n, w, r))[q] = w[j][1]
<1> SUFFICES ASSUME NEW i \in 1 .. n, NEW j \in 1 .. n, i < j, r[i] # << >>, w[j] # << >>
             PROVE  \E p, q \in 1 .. Len(FlattenSeq(LaidOut(n, w, r))) :
                       /\ p < q
                       /\ FlattenSeq(LaidOut(n, w, r))[p] = r[i][1]
                       /\ FlattenSeq(LaidOut(n, w, r))[q] = w[j][1]
  OBVIOUS
<1>0. n \in Nat /\ w \in [1 .. n -> Seq(S)] /\ r \in [1 .. n -> Seq(S)]
  BY DEF Seqs
<1> DEFINE wr == [k \in 1 .. n |-> w[k] \o r[k]]
           F == FlattenSeq(wr)
<1>1. \A k \in 1 .. n : w[k] \in Seq(S) /\ r[k] \in Seq(S) /\ w[k] \o r[k] \in Seq(S)
  BY <1>0, ConcatProperties
<1>2. wr \in [1 .. n -> Seq(S)] /\ \A k \in 1 .. n : wr[k] = w[k] \o r[k]
  BY <1>1
<1> HIDE DEF wr
<1>3. wr \in Seq(Seq(S)) /\ Len(wr) = n
  BY <1>0, <1>2
<1>4. F \in Seq(S) /\ \E off : Places(F, wr, off)
  BY <1>3, FlattenPlaces
<1>5. PICK off : Places(F, wr, off)
  BY <1>4
<1> HIDE DEF F
<1>6. /\ off[n] = Len(F)
      /\ \A k \in 0 .. n : off[k] \in Nat
      /\ \A k \in 1 .. n : /\ off[k] = off[k - 1] + Len(wr[k])
                           /\ \A h \in 1 .. Len(wr[k]) : F[off[k - 1] + h] = wr[k][h]
      /\ \A k, m \in 0 .. n : k <= m => off[k] <= off[m]
  BY <1>3, <1>5 DEF Places
<1>7. ASSUME NEW k \in 1 .. n
      PROVE  /\ Len(w[k]) \in Nat /\ Len(r[k]) \in Nat
             /\ Len(wr[k]) = Len(w[k]) + Len(r[k])
             /\ \A h \in 1 .. Len(w[k]) : wr[k][h] = w[k][h]
             /\ \A h \in 1 .. Len(r[k]) : wr[k][Len(w[k]) + h] = r[k][h]
  <2> DEFINE x == w[k]
             y == r[k]
             z == wr[k]
  <2>1. x \in Seq(S) /\ y \in Seq(S) /\ z = x \o y
    BY <1>1, <1>2
  <2> HIDE DEF x, y, z
  <2>2. /\ Len(x) \in Nat /\ Len(y) \in Nat /\ Len(z) = Len(x) + Len(y)
        /\ \A h \in 1 .. Len(x) : z[h] = x[h]
        /\ \A h \in 1 .. Len(y) : z[Len(x) + h] = y[h]
    BY <2>1, Joined
  <2> QED
    BY <2>2 DEF x, y, z
<1>8. Len(r[i]) >= 1 /\ Len(w[j]) >= 1
  <2>1. ASSUME NEW s \in Seq(S), s # << >> PROVE Len(s) >= 1
    BY <2>1
  <2> QED
    BY <1>1, <2>1
<1> DEFINE p == off[i - 1] + (Len(w[i]) + 1)
           q == off[j - 1] + 1
<1>9. /\ i - 1 \in 0 .. n /\ i \in 0 .. n /\ j - 1 \in 0 .. n /\ j \in 0 .. n /\ n \in 0 .. n
      /\ i <= j - 1 /\ j <= n
  BY <1>0
<1>10. /\ off[i - 1] \in Nat /\ off[i] \in Nat /\ off[j - 1] \in Nat /\ off[j] \in Nat
       /\ off[i] <= off[j - 1] /\ off[j] <= Len(F) /\ Len(F) \in Nat
       /\ off[i] = off[i - 1] + (Len(w[i]) + Len(r[i]))
       /\ off[j] = off[j - 1] + (Len(w[j]) + Len(r[j]))
  BY <1>4, <1>6, <1>7, <1>9
<1>11. p \in 1 .. Len(F) /\ q \in 1 .. Len(F) /\ p < q
  <2>1. /\ Len(w[i]) \in Nat /\ Len(r[i]) \in Nat /\ Len(w[j]) \in Nat /\ Len(r[j]) \in Nat
    BY <1>7
  <2>2. ASSUME NEW a \in Nat, NEW b \in Nat, NEW c \in Nat, NEW d \in Nat, NEW e \in Nat,
               NEW f \in Nat, NEW g \in Nat, NEW h \in Nat, NEW l \in Nat,
               c >= 1, f >= 1, d = a + (b + c), d <= e, h = e + (f + g), h <= l
        PROVE  a + (b + 1) \in 1 .. l /\ e + 1 \in 1 .. l /\ a + (b + 1) < e + 1
    BY <2>2
  <2> QED
    BY <1>8, <1>10, <2>1, <2>2
<1>12. F[p] = r[i][1]
  <2>1. Len(w[i]) + 1 \in 1 .. Len(wr[i]) /\ 1 \in 1 .. Len(r[i])
    <3>1. Len(w[i]) \in Nat /\ Len(r[i]) \in Nat /\ Len(wr[i]) = Len(w[i]) + Len(r[i])
      BY <1>7
    <3>2. ASSUME NEW a \in Nat, NEW b \in Nat, NEW c, c = a + b, b >= 1
          PROVE  a + 1 \in 1 .. c /\ 1 \in 1 .. b
      BY <3>2
    <3> QED
      BY <1>8, <3>1, <3>2
  <2>2. wr[i][Len(w[i]) + 1] = r[i][1]
    BY <1>7, <2>1
  <2>3. \A h \in 1 .. Len(wr[i]) : F[off[i - 1] + h] = wr[i][h]
    BY <1>6
  <2> QED
    BY <2>1, <2>2, <2>3
<1>13. F[q] = w[j][1]
  <2>1. 1 \in 1 .. Len(wr[j]) /\ 1 \in 1 .. Len(w[j])
    <3>1. Len(w[j]) \in Nat /\ Len(r[j]) \in Nat /\ Len(wr[j]) = Len(w[j]) + Len(r[j])
      BY <1>7
    <3>2. ASSUME NEW a \in Nat, NEW b \in Nat, NEW c, c = a + b, a >= 1
          PROVE  1 \in 1 .. c /\ 1 \in 1 .. a
      BY <3>2
    <3> QED
      BY <1>8, <3>1, <3>2
  <2>2. wr[j][1] = w[j][1]
    BY <1>7, <2>1
  <2>3. \A h \in 1 .. Len(wr[j]) : F[off[j - 1] + h] = wr[j][h]
    BY <1>6
  <2> QED
    BY <2>1, <2>2, <2>3
<1> HIDE DEF p, q
<1>14. \E a, b \in 1 .. Len(F) : a < b /\ F[a] = r[i][1] /\ F[b] = w[j][1]
  BY <1>11, <1>12, <1>13
<1> QED
  BY <1>14 DEF F, wr, LaidOut

AlignedLoads(n, w, r) == \A i, j \in 1 .. n : i < j => r[i] = << >> \/ w[j] = << >>

\* Out of order, a member of the second set comes before one of the first.
LEMMA OutOfOrder ==
  ASSUME NEW S, NEW n, NEW w, NEW r, Seqs(n, w, S), Seqs(n, r, S),
         NEW W, Lists(FlattenSeq(w), W), NEW R, Lists(FlattenSeq(r), R),
         ~AlignedLoads(n, w, r)
  PROVE  \E p, q \in 1 .. Len(FlattenSeq(LaidOut(n, w, r))) :
            /\ p < q
            /\ FlattenSeq(LaidOut(n, w, r))[p] \in R /\ FlattenSeq(LaidOut(n, w, r))[q] \in W
<1>1. PICK i \in 1 .. n : \E j \in 1 .. n : i < j /\ r[i] # << >> /\ w[j] # << >>
  BY DEF AlignedLoads
<1>2. PICK j \in 1 .. n : i < j /\ r[i] # << >> /\ w[j] # << >>
  BY <1>1
<1> DEFINE F == FlattenSeq(LaidOut(n, w, r))
           FW == FlattenSeq(w)
           FR == FlattenSeq(r)
<1>3. \E p, q \in 1 .. Len(F) : p < q /\ F[p] = r[i][1] /\ F[q] = w[j][1]
  BY <1>1, <1>2, FlattenUnaligned
<1>4. (\E x \in 1 .. Len(FR) : FR[x] = r[i][1]) /\ (\E x \in 1 .. Len(FW) : FW[x] = w[j][1])
  BY <1>1, <1>2, FlattenHolds
<1>5. Lists(FW, W) /\ Lists(FR, R)
  OBVIOUS
<1> HIDE DEF F, FW, FR
<1>6. ASSUME NEW s, NEW T, Lists(s, T), NEW x \in 1 .. Len(s) PROVE s[x] \in T
  <2>1. s \in Seq(T)
    BY <1>6 DEF Lists
  <2> QED
    BY <2>1
<1>7. r[i][1] \in R /\ w[j][1] \in W
  BY <1>4, <1>5, <1>6
<1>8. \E p, q \in 1 .. Len(F) : p < q /\ F[p] \in R /\ F[q] \in W
  BY <1>3, <1>7
<1> QED
  BY <1>8 DEF F

-----------------------------------------------------------------------------
(* The table of accounts of a v0 message.                                   *)

LEMMA OneListed ==
  ASSUME NEW k
  PROVE  Lists(<<k>>, {k})
<1> DEFINE s == <<k>>
<1>1. s \in Seq({k}) /\ Len(s) = 1 /\ s[1] = k
  OBVIOUS
<1> HIDE DEF s
<1>2. \A i \in 1 .. Len(s) : i = 1
  BY <1>1
<1>3. \A x \in {k} : \E i \in 1 .. Len(s) : s[i] = x
  BY <1>1
<1>4. \A i, j \in 1 .. Len(s) : s[i] = s[j] => i = j
  BY <1>2
<1>5. Lists(s, {k})
  BY <1>1, <1>3, <1>4, ListOf
<1> QED
  BY <1>5 DEF s

\* The accounts that a table loads: those that some table holds and that do not sign.
Loaded(ixs, home) == {k \in Named(ixs) \cap DOMAIN home : ~Signs(ixs, k)}

LEMMA StaticListed ==
  ASSUME NEW ixs, NEW home, IsFiniteSet(Named(ixs)), Named(ixs) \subseteq Int
  PROVE  LET table == Static(ixs, home)
             h == V0Header(ixs, home)
         IN /\ Lists(table, Named(ixs) \ Loaded(ixs, home))
            /\ \A p \in 0 .. Len(table) - 1 :
                 (IF p < h.signers THEN p < h.signers - h.readonlySigned
                                   ELSE p < Len(table) - h.readonly)
                   <=> WritesTo(ixs, table[p + 1])
<1> DEFINE N == Named(ixs)
           rest == {k \in N \ DOMAIN home : ~Signs(ixs, k)}
           signers == {k \in N \ {Payer} : Signs(ixs, k)}
           A == {k \in signers : WritesTo(ixs, k)}
           B == {k \in signers : ~WritesTo(ixs, k)}
           C == {k \in rest : WritesTo(ixs, k)}
           E == {k \in rest : ~WritesTo(ixs, k)}
           P == {Payer}
           u == <<Payer>>
           uA == u \o Sorted(A)
           uB == uA \o Sorted(B)
           uC == uB \o Sorted(C)
           uE == uC \o Sorted(E)
           All == (((P \cup A) \cup B) \cup C) \cup E
<1>1. Static(ixs, home) = uE
  BY DEF Static
<1>2. /\ Payer \in N /\ Signs(ixs, Payer) /\ WritesTo(ixs, Payer)
  BY DEF Named, Signs, WritesTo
<1>3. All = N \ Loaded(ixs, home)
  BY <1>2 DEF Loaded
<1>4. /\ A \in SUBSET N /\ B \in SUBSET N /\ C \in SUBSET N /\ E \in SUBSET N
  OBVIOUS
<1>5. /\ P \cap A = {} /\ (P \cup A) \cap B = {} /\ ((P \cup A) \cup B) \cap C = {}
      /\ (((P \cup A) \cup B) \cup C) \cap E = {}
  BY <1>2
<1>6. /\ \A k \in P \cup A : Signs(ixs, k) /\ WritesTo(ixs, k)
      /\ \A k \in B : Signs(ixs, k) /\ ~WritesTo(ixs, k)
      /\ \A k \in C : ~Signs(ixs, k) /\ WritesTo(ixs, k)
      /\ \A k \in E : ~Signs(ixs, k) /\ ~WritesTo(ixs, k)
  BY <1>2
<1> HIDE DEF A, B, C, E, rest, signers, P
<1>7. ASSUME NEW X \in SUBSET N PROVE Lists(Sorted(X), X)
  <2>1. IsFiniteSet(X) /\ X \subseteq Int
    BY FS_Subset
  <2> QED
    BY <2>1, SortedLists
<1> DEFINE sA == Sorted(A)
           sB == Sorted(B)
           sC == Sorted(C)
           sE == Sorted(E)
<1>8. Lists(sA, A) /\ Lists(sB, B) /\ Lists(sC, C) /\ Lists(sE, E) /\ Lists(u, P)
  BY <1>4, <1>7, OneListed DEF P
<1> HIDE DEF sA, sB, sC, sE, u
<1>9. Lists(uA, P \cup A)
  BY <1>5, <1>8, ListsJoined DEF sA
<1>10. Lists(uB, (P \cup A) \cup B)
  <2> HIDE DEF uA
  <2> QED
    BY <1>5, <1>8, <1>9, ListsJoined DEF sB
<1>11. Lists(uC, ((P \cup A) \cup B) \cup C)
  <2> HIDE DEF uB
  <2> QED
    BY <1>5, <1>8, <1>10, ListsJoined DEF sC
<1>12. Lists(uE, All)
  <2> HIDE DEF uC
  <2> QED
    BY <1>5, <1>8, <1>11, ListsJoined DEF sE
<1> DEFINE h == V0Header(ixs, home)
           static == ToSet(uE)
<1>13. static = All
  <2> HIDE DEF uE, All
  <2>1. DOMAIN uE = 1 .. Len(uE) /\ \A i \in 1 .. Len(uE) : uE[i] \in All
    BY <1>12 DEF Lists
  <2> QED
    BY <1>12, <2>1 DEF ToSet, Lists
<1>14. /\ {k \in static : Signs(ixs, k)} = (P \cup A) \cup B
       /\ {k \in static : Signs(ixs, k) /\ ~WritesTo(ixs, k)} = B
       /\ {k \in static : ~Signs(ixs, k) /\ ~WritesTo(ixs, k)} = E
  BY <1>6, <1>13
<1>15. h.signers = Len(uB) /\ h.readonlySigned = Len(sB) /\ h.readonly = Len(sE)
  <2>1. /\ h.signers = Cardinality({k \in static : Signs(ixs, k)})
        /\ h.readonlySigned = Cardinality({k \in static : Signs(ixs, k) /\ ~WritesTo(ixs, k)})
        /\ h.readonly = Cardinality({k \in static : ~Signs(ixs, k) /\ ~WritesTo(ixs, k)})
    BY <1>1 DEF V0Header
  <2> HIDE DEF h, static, uB
  <2> QED
    BY <1>8, <1>10, <1>14, <2>1 DEF Lists
<1> DEFINE first(s, t, S, T) ==
      /\ Len(s) \in Nat /\ Len(t) \in Nat /\ Len(s \o t) = Len(s) + Len(t)
      /\ \A p \in 1 .. Len(s \o t) :
           /\ p <= Len(s) => (s \o t)[p] = s[p] /\ s[p] \in S
           /\ p > Len(s) => (s \o t)[p] = t[p - Len(s)] /\ t[p - Len(s)] \in T
<1>16. /\ first(u, sA, P, A) /\ first(uA, sB, P \cup A, B)
       /\ first(uB, sC, (P \cup A) \cup B, C)
       /\ first(uC, sE, ((P \cup A) \cup B) \cup C, E)
  <2>1. first(u, sA, P, A)
    BY <1>8, ListsSplit
  <2>2. first(uA, sB, P \cup A, B)
    <3> HIDE DEF uA
    <3> QED
      BY <1>8, <1>9, ListsSplit
  <2>3. first(uB, sC, (P \cup A) \cup B, C)
    <3> HIDE DEF uB
    <3> QED
      BY <1>8, <1>10, ListsSplit
  <2>4. first(uC, sE, ((P \cup A) \cup B) \cup C, E)
    <3> HIDE DEF uC
    <3> QED
      BY <1>8, <1>11, ListsSplit
  <2> QED
    BY <2>1, <2>2, <2>3, <2>4
<1>17. /\ uA = u \o sA /\ uB = uA \o sB /\ uC = uB \o sC /\ uE = uC \o sE
  BY DEF sA, sB, sC, sE
<1> HIDE DEF uA, uB, uC, uE
<1> DEFINE lA == Len(uA)
           lB == Len(uB)
           lC == Len(uC)
           lE == Len(uE)
<1>18. /\ lA \in Nat /\ lB \in Nat /\ lC \in Nat /\ lE \in Nat
       /\ lB = lA + Len(sB) /\ lB - Len(sB) = lA
       /\ lC = lB + Len(sC) /\ lE = lC + Len(sE) /\ lE - Len(sE) = lC
       /\ lA <= lB /\ lB <= lC /\ lC <= lE
  BY <1>16, <1>17
<1>19. ASSUME NEW p \in 1 .. lE
       PROVE  /\ p <= lA => uE[p] \in P \cup A
              /\ p > lA /\ p <= lB => uE[p] \in B
              /\ p > lB /\ p <= lC => uE[p] \in C
              /\ p > lC => uE[p] \in E
  <2>1. p > lC => uE[p] \in E
    BY <1>16, <1>17
  <2>2. p <= lC => uE[p] = uC[p] /\ p \in 1 .. lC
    BY <1>16, <1>17, <1>18
  <2>3. p > lB /\ p <= lC => uC[p] \in C
    BY <1>16, <1>17, <2>2
  <2>4. p <= lB => p <= lC /\ uC[p] = uB[p] /\ p \in 1 .. lB
    BY <1>16, <1>17, <1>18, <2>2
  <2>5. p > lA /\ p <= lB => uB[p] \in B
    BY <1>16, <1>17, <2>4
  <2>6. p <= lA => p <= lB /\ uB[p] = uA[p] /\ uA[p] \in P \cup A
    BY <1>16, <1>17, <1>18, <2>4
  <2> QED
    BY <1>18, <2>1, <2>2, <2>3, <2>4, <2>5, <2>6
<1>20. ASSUME NEW p \in 0 .. lE - 1
       PROVE  (IF p < lB THEN p < lA ELSE p < lC) <=> WritesTo(ixs, uE[p + 1])
  <2> DEFINE q == p + 1
             x == uE[q]
  <2>1. /\ q \in 1 .. lE /\ (p < lA <=> q <= lA) /\ (p < lB <=> q <= lB) /\ (p < lC <=> q <= lC)
    BY <1>18
  <2> HIDE DEF q
  <2>2. /\ q <= lA => WritesTo(ixs, x)
        /\ q > lA /\ q <= lB => ~WritesTo(ixs, x)
        /\ q > lB /\ q <= lC => WritesTo(ixs, x)
        /\ q > lC => ~WritesTo(ixs, x)
    BY <1>6, <1>19, <2>1
  <2>3. WritesTo(ixs, x) <=> (IF q <= lB THEN q <= lA ELSE q <= lC)
    BY <1>18, <2>1, <2>2
  <2> QED
    BY <2>1, <2>3 DEF q
<1>21. \A p \in 0 .. lE - 1 :
         (IF p < h.signers THEN p < h.signers - h.readonlySigned ELSE p < lE - h.readonly)
            <=> WritesTo(ixs, uE[p + 1])
  <2> HIDE DEF h
  <2> QED
    BY <1>15, <1>18, <1>20
<1> QED
  <2> HIDE DEF All
  <2> QED
    BY <1>1, <1>3, <1>12, <1>21

\* What the tables load, each table's accounts to be written and to be read.
LoadedWritable(ixs, tables, home) ==
  [i \in 1 .. Len(UsedTables(ixs, tables, home)) |->
     Loads(ixs, tables, home, UsedTables(ixs, tables, home)[i]).writable]

LoadedReadonly(ixs, tables, home) ==
  [i \in 1 .. Len(UsedTables(ixs, tables, home)) |->
     Loads(ixs, tables, home, UsedTables(ixs, tables, home)[i]).readonly]

LEMMA LoadsListed ==
  ASSUME NEW ixs, NEW U, NEW tables \in Seq(Seq(U)), NEW home \in Homes(tables),
         IsFiniteSet(Named(ixs)), Named(ixs) \subseteq Int
  PROVE  LET n == Len(UsedTables(ixs, tables, home))
             w == LoadedWritable(ixs, tables, home)
             r == LoadedReadonly(ixs, tables, home)
             L == Loaded(ixs, home)
         IN /\ n \in Nat /\ w \in [1 .. n -> Seq(Int)] /\ r \in [1 .. n -> Seq(Int)]
            /\ Lists(FlattenSeq(LaidOut(n, w, r)), L)
            /\ Lists(FlattenSeq(w), {k \in L : WritesTo(ixs, k)})
            /\ Lists(FlattenSeq(r), {k \in L : ~WritesTo(ixs, k)})
<1> DEFINE used == UsedTables(ixs, tables, home)
           n == Len(used)
           w == LoadedWritable(ixs, tables, home)
           r == LoadedReadonly(ixs, tables, home)
           L == Loaded(ixs, home)
           D == DOMAIN tables
           I(t) == InTable(ixs, home, t)
           V == {t \in D : I(t) # {}}
           wT == [i \in 1 .. n |-> {k \in I(used[i]) : WritesTo(ixs, k)}]
           rT == [i \in 1 .. n |-> {k \in I(used[i]) : ~WritesTo(ixs, k)}]
           T == [i \in 1 .. n |-> I(used[i])]
<1>1. D = 1 .. Len(tables) /\ Len(tables) \in Nat /\ \A t \in D : tables[t] \in Seq(U)
  OBVIOUS
<1>2. Lists(used, V)
  <2>1. IsFiniteSet(D)
    <3>1. 1 \in Int /\ Len(tables) \in Int
      BY <1>1
    <3> QED
      BY <1>1, <3>1, FS_Interval
  <2>2. V \in SUBSET D /\ V \subseteq Int
    BY <1>1
  <2> HIDE DEF V, D
  <2>3. IsFiniteSet(V)
    BY <2>1, <2>2, FS_Subset
  <2>4. Lists(Sorted(V), V)
    BY <2>2, <2>3, SortedLists
  <2> QED
    BY <2>4 DEF UsedTables, V, D
<1> HIDE DEF used
<1>3. /\ n \in Nat /\ \A i \in 1 .. n : used[i] \in D
      /\ \A i, j \in 1 .. n : used[i] = used[j] => i = j
      /\ \A t \in V : \E i \in 1 .. n : used[i] = t
  <2>1. \A t \in V : t \in D
    OBVIOUS
  <2> HIDE DEF V, D
  <2> QED
    BY <1>2, <2>1 DEF Lists
<1>4. /\ \A t : I(t) = {k \in L : home[k] = t}
      /\ \A k \in L : home[k] \in D /\ k \in ToSet(tables[home[k]])
  <2>1. \A t : I(t) = {k \in L : home[k] = t}
    BY DEF InTable, Loaded
  <2>2. \A k \in DOMAIN home : home[k] \in D /\ k \in ToSet(tables[home[k]])
    BY DEF Homes
  <2>3. L \subseteq DOMAIN home
    BY DEF Loaded
  <2> QED
    BY <2>1, <2>2, <2>3
<1>5. IsFiniteSet(L) /\ L \subseteq Int
  <2>1. L \in SUBSET Named(ixs)
    BY DEF Loaded
  <2> QED
    BY <2>1, FS_Subset
<1>v. \A k \in L : home[k] \in V
  BY <1>4
<1> HIDE DEF I, L, D, V
<1>6. ASSUME NEW i \in 1 .. n
      PROVE  /\ w[i] \in Seq(Int) /\ r[i] \in Seq(Int)
             /\ Lists(w[i], wT[i]) /\ Lists(r[i], rT[i]) /\ Lists(w[i] \o r[i], T[i])
  <2> DEFINE t == used[i]
             X == {k \in I(t) : WritesTo(ixs, k)}
             Y == {k \in I(t) : ~WritesTo(ixs, k)}
  <2>1. w[i] = BySlot(tables[t], X) /\ r[i] = BySlot(tables[t], Y)
    BY DEF LoadedWritable, LoadedReadonly, Loads, used, I
  <2>2. wT[i] = X /\ rT[i] = Y /\ T[i] = I(t)
    OBVIOUS
  <2>3. tables[t] \in Seq(U) /\ I(t) \in SUBSET L /\ \A k \in I(t) : k \in ToSet(tables[t])
    BY <1>1, <1>3, <1>4
  <2>4. X \in SUBSET L /\ Y \in SUBSET L /\ X \cap Y = {} /\ X \cup Y = I(t)
        /\ X \subseteq ToSet(tables[t]) /\ Y \subseteq ToSet(tables[t])
    BY <2>3
  <2> HIDE DEF X, Y, t
  <2>5. IsFiniteSet(X) /\ IsFiniteSet(Y) /\ X \subseteq Int /\ Y \subseteq Int
    BY <1>5, <2>4, FS_Subset
  <2>6. Lists(BySlot(tables[t], X), X) /\ Lists(BySlot(tables[t], Y), Y)
    BY <2>3, <2>4, <2>5, BySlotLists
  <2> DEFINE x == BySlot(tables[t], X)
             y == BySlot(tables[t], Y)
  <2> HIDE DEF x, y
  <2>7. Lists(x, X) /\ Lists(y, Y)
    BY <2>6 DEF x, y
  <2>8. Lists(x \o y, X \cup Y)
    BY <2>4, <2>7, ListsJoined
  <2>9. ASSUME NEW z, NEW Z, Lists(z, Z), Z \subseteq Int PROVE z \in Seq(Int)
    <3>1. z \in Seq(Z)
      BY <2>9 DEF Lists
    <3> QED
      BY <2>9, <3>1, Widened
  <2>10. x \in Seq(Int) /\ y \in Seq(Int)
    BY <2>5, <2>7, <2>9
  <2>11. w[i] = x /\ r[i] = y
    BY <2>1 DEF x, y
  <2>12. wT[i] = X /\ rT[i] = Y /\ T[i] = X \cup Y
    BY <2>2, <2>4
  <2> HIDE DEF w, r, wT, rT, T
  <2> QED
    BY <2>7, <2>8, <2>10, <2>11, <2>12
<1>7. ASSUME NEW i \in 1 .. n, NEW j \in 1 .. n, i # j
      PROVE  T[i] \cap T[j] = {} /\ wT[i] \cap wT[j] = {} /\ rT[i] \cap rT[j] = {}
  BY <1>3, <1>4, <1>7
<1>8. /\ UNION {T[i] : i \in 1 .. n} = L
      /\ UNION {wT[i] : i \in 1 .. n} = {k \in L : WritesTo(ixs, k)}
      /\ UNION {rT[i] : i \in 1 .. n} = {k \in L : ~WritesTo(ixs, k)}
  <2>1. ASSUME NEW k \in L PROVE \E i \in 1 .. n : k \in I(used[i])
    BY <1>3, <1>4, <1>v
  <2>2. ASSUME NEW i \in 1 .. n PROVE I(used[i]) \subseteq L
    BY <1>4
  <2>3. UNION {T[i] : i \in 1 .. n} = L
    BY <2>1, <2>2
  <2>4. ASSUME NEW i \in 1 .. n
        PROVE  /\ wT[i] = {k \in I(used[i]) : WritesTo(ixs, k)}
               /\ rT[i] = {k \in I(used[i]) : ~WritesTo(ixs, k)}
    OBVIOUS
  <2> HIDE DEF wT, rT, T
  <2>5. UNION {wT[i] : i \in 1 .. n} = {k \in L : WritesTo(ixs, k)}
    <3>1. ASSUME NEW k \in L, WritesTo(ixs, k) PROVE \E i \in 1 .. n : k \in wT[i]
      <4>1. PICK i \in 1 .. n : k \in I(used[i])
        BY <2>1
      <4>2. k \in {x \in I(used[i]) : WritesTo(ixs, x)}
        BY <3>1, <4>1
      <4> QED
        BY <2>4, <4>2
    <3>2. ASSUME NEW i \in 1 .. n, NEW k \in wT[i] PROVE k \in L /\ WritesTo(ixs, k)
      <4>1. k \in {x \in I(used[i]) : WritesTo(ixs, x)}
        BY <2>4
      <4> QED
        BY <2>2, <4>1
    <3> QED
      BY <3>1, <3>2
  <2>6. UNION {rT[i] : i \in 1 .. n} = {k \in L : ~WritesTo(ixs, k)}
    <3>1. ASSUME NEW k \in L, ~WritesTo(ixs, k) PROVE \E i \in 1 .. n : k \in rT[i]
      <4>1. PICK i \in 1 .. n : k \in I(used[i])
        BY <2>1
      <4>2. k \in {x \in I(used[i]) : ~WritesTo(ixs, x)}
        BY <3>1, <4>1
      <4> QED
        BY <2>4, <4>2
    <3>2. ASSUME NEW i \in 1 .. n, NEW k \in rT[i] PROVE k \in L /\ ~WritesTo(ixs, k)
      <4>1. k \in {x \in I(used[i]) : ~WritesTo(ixs, x)}
        BY <2>4
      <4> QED
        BY <2>2, <4>1
    <3> QED
      BY <3>1, <3>2
  <2> QED
    BY <2>3, <2>5, <2>6
<1> DEFINE wr == [i \in 1 .. n |-> w[i] \o r[i]]
<1>9. /\ w = [i \in 1 .. n |-> w[i]] /\ r = [i \in 1 .. n |-> r[i]]
      /\ wr = [i \in 1 .. n |-> wr[i]] /\ \A i \in 1 .. n : Lists(wr[i], T[i])
  <2>1. w = [i \in 1 .. n |-> w[i]] /\ r = [i \in 1 .. n |-> r[i]]
    BY DEF LoadedWritable, LoadedReadonly, used
  <2> HIDE DEF w, r, T
  <2> QED
    BY <1>6, <2>1
<1> HIDE DEF w, r, wr, T, wT, rT, n
<1>e. ListsEach(n, wr, T) /\ ListsEach(n, w, wT) /\ ListsEach(n, r, rT)
  BY <1>6, <1>7, <1>9 DEF ListsEach
<1>10. Lists(FlattenSeq(wr), L)
  BY <1>3, <1>8, <1>e, FlattenLists
<1>11. Lists(FlattenSeq(w), {k \in L : WritesTo(ixs, k)})
  <2>1. Lists(FlattenSeq(w), UNION {wT[i] : i \in 1 .. n})
    BY <1>3, <1>e, FlattenLists
  <2> QED
    BY <1>8, <2>1
<1>12. Lists(FlattenSeq(r), {k \in L : ~WritesTo(ixs, k)})
  <2>1. n \in Nat /\ ListsEach(n, r, rT)
    BY <1>3, <1>e
  <2>2. Lists(FlattenSeq(r), UNION {rT[i] : i \in 1 .. n})
    BY <2>1, FlattenLists
  <2> QED
    BY <1>8, <2>2
<1>13. w \in [1 .. n -> Seq(Int)] /\ r \in [1 .. n -> Seq(Int)]
  BY <1>6, <1>9
<1> QED
  BY <1>3, <1>10, <1>11, <1>12, <1>13 DEF w, r, wr, n, used, L, LaidOut
-----------------------------------------------------------------------------
(* What the runtime reads of a v0 message.                                  *)

\* Writable, of the header and of how many accounts are static and loaded to be written.
WritablePlace(h, size, loaded, p) ==
  IF p < size THEN IF p < h.signers THEN p < h.signers - h.readonlySigned
                                    ELSE p < size - h.readonly
              ELSE p < size + loaded

\* The message and the runtime agree on the static keys and on what the tables load.
LEMMA V0Tables ==
  ASSUME NEW ixs, NEW tables, NEW home, Len(UsedTables(ixs, tables, home)) \in Nat
  PROVE  LET msg == V0Message(ixs, tables, home)
             n == Len(UsedTables(ixs, tables, home))
             w == LoadedWritable(ixs, tables, home)
             r == LoadedReadonly(ixs, tables, home)
         IN /\ Combined(ixs, tables, home)
                 = Static(ixs, home) \o FlattenSeq(LaidOut(n, w, r))
            /\ RuntimeTable(msg) = (Static(ixs, home) \o FlattenSeq(w)) \o FlattenSeq(r)
            /\ Aligned(msg) <=> AlignedLoads(n, w, r)
            /\ \A p : Writable(msg, p)
                        <=> WritablePlace(V0Header(ixs, home), Len(Static(ixs, home)),
                                          Len(FlattenSeq(w)), p)
<1> DEFINE msg == V0Message(ixs, tables, home)
           used == UsedTables(ixs, tables, home)
           n == Len(used)
           w == LoadedWritable(ixs, tables, home)
           r == LoadedReadonly(ixs, tables, home)
           load == [i \in 1 .. n |-> Loads(ixs, tables, home, used[i])]
<1>1. msg.static = Static(ixs, home) /\ msg.header = V0Header(ixs, home) /\ msg.lookups = load
  BY DEF V0Message
<1>2. Len(load) = n
  <2> HIDE DEF n
  <2>1. n \in Nat
    BY DEF n
  <2> QED
    BY <2>1
<1>3. \A i \in 1 .. n : load[i].writable = w[i] /\ load[i].readonly = r[i]
  BY DEF LoadedWritable, LoadedReadonly
<1>4. /\ w = [i \in 1 .. n |-> load[i].writable] /\ r = [i \in 1 .. n |-> load[i].readonly]
      /\ [i \in 1 .. n |-> load[i].writable \o load[i].readonly] = [i \in 1 .. n |-> w[i] \o r[i]]
  BY <1>3 DEF LoadedWritable, LoadedReadonly
<1>5. Combined(ixs, tables, home)
        = Static(ixs, home) \o FlattenSeq([i \in 1 .. n |-> load[i].writable \o load[i].readonly])
  <2>1. [i \in 1 .. n |-> load[i].writable \o load[i].readonly]
          = [i \in 1 .. n |-> Loads(ixs, tables, home, used[i]).writable
                                \o Loads(ixs, tables, home, used[i]).readonly]
    OBVIOUS
  <2> QED
    BY <2>1 DEF Combined
<1> HIDE DEF msg, load, n, w, r, used
<1>6. RuntimeTable(msg) = (Static(ixs, home) \o FlattenSeq(w)) \o FlattenSeq(r)
  <2>1. RuntimeTable(msg)
          = (msg.static \o FlattenSeq([i \in 1 .. Len(msg.lookups) |-> msg.lookups[i].writable]))
              \o FlattenSeq([i \in 1 .. Len(msg.lookups) |-> msg.lookups[i].readonly])
    BY DEF RuntimeTable
  <2> QED
    BY <1>1, <1>2, <1>4, <2>1
<1>7. Aligned(msg) <=> AlignedLoads(n, w, r)
  <2>1. Aligned(msg) <=> \A i, j \in 1 .. n :
                            i < j => load[i].readonly = << >> \/ load[j].writable = << >>
    BY <1>1, <1>2 DEF Aligned
  <2> QED
    BY <1>3, <2>1 DEF AlignedLoads
<1>8. ASSUME NEW p
      PROVE  Writable(msg, p)
                <=> WritablePlace(V0Header(ixs, home), Len(Static(ixs, home)),
                                  Len(FlattenSeq(w)), p)
  <2>1. [i \in 1 .. Len(msg.lookups) |-> msg.lookups[i].writable] = w
    BY <1>1, <1>2, <1>4
  <2> QED
    BY <1>1, <2>1, Zenon DEF Writable, WritablePlace
<1> QED
  BY <1>4, <1>5, <1>6, <1>7, <1>8 DEF msg, n, w, r, used, LaidOut

\* What the runtime reads is what was meant if it finds each account at its number.
LEMMA ReadEach ==
  ASSUME NEW ixs, Len(ixs) \in Nat, \A n \in 1 .. Len(ixs) : Len(ixs[n].accounts) \in Nat,
         NEW tables, NEW home
  PROVE  LET msg == V0Message(ixs, tables, home)
             found(k) == RuntimeTable(msg)[NumberOf(Combined(ixs, tables, home), k) + 1] = k
         IN Read(msg) = Meant(ixs)
              <=> \A n \in 1 .. Len(ixs) :
                    /\ found(ixs[n].program)
                    /\ \A i \in 1 .. Len(ixs[n].accounts) : found(ixs[n].accounts[i].key)
<1> DEFINE msg == V0Message(ixs, tables, home)
           R == RuntimeTable(msg)
           num(k) == NumberOf(Combined(ixs, tables, home), k)
           N == Len(ixs)
           M(n) == Len(ixs[n].accounts)
           given(n) == [program |-> num(ixs[n].program),
                        accounts |-> [i \in 1 .. M(n) |-> num(ixs[n].accounts[i].key)],
                        data |-> ixs[n].data]
           read(n) == [program |-> R[num(ixs[n].program) + 1],
                       accounts |-> [i \in 1 .. M(n) |-> R[num(ixs[n].accounts[i].key) + 1]],
                       data |-> ixs[n].data]
           meant(n) == [program |-> ixs[n].program,
                        accounts |-> [i \in 1 .. M(n) |-> ixs[n].accounts[i].key],
                        data |-> ixs[n].data]
<1>1. msg.ixs = [n \in 1 .. N |-> given(n)]
  BY DEF V0Message
<1> HIDE DEF msg, R, num
<1>2. Len(msg.ixs) = N
  <2> HIDE DEF given
  <2> QED
    BY <1>1
<1>3. ASSUME NEW n \in 1 .. N
      PROVE  /\ msg.ixs[n] = given(n) /\ Len(given(n).accounts) = M(n)
             /\ [program |-> R[given(n).program + 1],
                 accounts |-> [i \in 1 .. Len(given(n).accounts) |->
                                 R[given(n).accounts[i] + 1]],
                 data |-> given(n).data] = read(n)
  <2>1. msg.ixs[n] = given(n)
    BY <1>1
  <2>2. Len(given(n).accounts) = M(n)
    OBVIOUS
  <2>3. [i \in 1 .. M(n) |-> R[given(n).accounts[i] + 1]]
          = [i \in 1 .. M(n) |-> R[num(ixs[n].accounts[i].key) + 1]]
    OBVIOUS
  <2> QED
    BY <2>1, <2>2, <2>3
<1>4. Read(msg) = [n \in 1 .. N |-> read(n)]
  <2>1. Read(msg) = [n \in 1 .. Len(msg.ixs) |->
                       [program |-> R[msg.ixs[n].program + 1],
                        accounts |-> [i \in 1 .. Len(msg.ixs[n].accounts) |->
                                        R[msg.ixs[n].accounts[i] + 1]],
                        data |-> msg.ixs[n].data]]
    BY DEF Read, R
  <2>2. ASSUME NEW n \in 1 .. N
        PROVE  [program |-> R[msg.ixs[n].program + 1],
                accounts |-> [i \in 1 .. Len(msg.ixs[n].accounts) |->
                                R[msg.ixs[n].accounts[i] + 1]],
                data |-> msg.ixs[n].data] = read(n)
    <3> HIDE DEF given, read
    <3> QED
      BY <1>3
  <2> HIDE DEF read
  <2> QED
    BY <1>2, <2>1, <2>2
<1>5. Meant(ixs) = [n \in 1 .. N |-> meant(n)]
  BY DEF Meant
<1>6. ASSUME NEW n \in 1 .. N
      PROVE  read(n) = meant(n)
               <=> /\ R[num(ixs[n].program) + 1] = ixs[n].program
                   /\ \A i \in 1 .. M(n) :
                        R[num(ixs[n].accounts[i].key) + 1] = ixs[n].accounts[i].key
  <2> DEFINE f == [i \in 1 .. M(n) |-> R[num(ixs[n].accounts[i].key) + 1]]
             g == [i \in 1 .. M(n) |-> ixs[n].accounts[i].key]
  <2>1. f = g <=> \A i \in 1 .. M(n) :
                    R[num(ixs[n].accounts[i].key) + 1] = ixs[n].accounts[i].key
    <3>1. f = g <=> \A i \in 1 .. M(n) : f[i] = g[i]
      OBVIOUS
    <3> QED
      BY <3>1
  <2>2. read(n) = meant(n) <=> R[num(ixs[n].program) + 1] = ixs[n].program /\ f = g
    <3>1. /\ read(n) = [program |-> R[num(ixs[n].program) + 1], accounts |-> f,
                        data |-> ixs[n].data]
          /\ meant(n) = [program |-> ixs[n].program, accounts |-> g, data |-> ixs[n].data]
      OBVIOUS
    <3> HIDE DEF f, g, read, meant
    <3> QED
      BY <3>1
  <2> QED
    BY <2>1, <2>2
<1>7. Read(msg) = Meant(ixs) <=> \A n \in 1 .. N : read(n) = meant(n)
  <2> DEFINE a == Read(msg)
             b == Meant(ixs)
  <2>1. /\ a = [n \in 1 .. N |-> a[n]] /\ b = [n \in 1 .. N |-> b[n]]
        /\ \A n \in 1 .. N : a[n] = read(n) /\ b[n] = meant(n)
    <3> HIDE DEF read, meant
    <3> QED
      BY <1>4, <1>5
  <2> HIDE DEF a, b, read, meant
  <2>2. a = b <=> \A n \in 1 .. N : a[n] = b[n]
    BY <2>1
  <2> QED
    BY <2>1, <2>2 DEF a, b
<1> QED
  <2> HIDE DEF read, meant
  <2> QED
    BY <1>6, <1>7 DEF R, msg, num

\* Of two lists laid end to end, a place holds a member of the first set if it is one of
\* the first places and of the second set if it is not.
LEMMA V0Reads ==
  ASSUME NEW ixs, Len(ixs) \in Nat, \A n \in 1 .. Len(ixs) : Len(ixs[n].accounts) \in Nat,
         \A n \in 1 .. Len(ixs) : \A a \in ToSet(ixs[n].accounts) :
            \E i \in 1 .. Len(ixs[n].accounts) : ixs[n].accounts[i] = a,
         \A n \in 1 .. Len(ixs) : \A i \in 1 .. Len(ixs[n].accounts) :
            ixs[n].accounts[i] \in ToSet(ixs[n].accounts),
         NEW U, NEW tables \in Seq(Seq(U)), NEW home \in Homes(tables),
         IsFiniteSet(Named(ixs)), Named(ixs) \subseteq Int, Cardinality(Named(ixs)) <= 256
  PROVE  LET msg == V0Message(ixs, tables, home)
         IN (Read(msg) = Meant(ixs) <=> Aligned(msg)) /\ RightsKept(ixs, msg)
<1> DEFINE msg == V0Message(ixs, tables, home)
           st == Static(ixs, home)
           n == Len(UsedTables(ixs, tables, home))
           w == LoadedWritable(ixs, tables, home)
           r == LoadedReadonly(ixs, tables, home)
           L == Loaded(ixs, home)
           F == FlattenSeq(LaidOut(n, w, r))
           FW == FlattenSeq(w)
           FR == FlattenSeq(r)
           LW == {k \in L : WritesTo(ixs, k)}
           LR == {k \in L : ~WritesTo(ixs, k)}
           K == Named(ixs)
           C == st \o F
           SW == st \o FW
           R == SW \o FR
           h == V0Header(ixs, home)
<1>1. /\ n \in Nat /\ w \in [1 .. n -> Seq(Int)] /\ r \in [1 .. n -> Seq(Int)]
      /\ Lists(F, L) /\ Lists(FW, LW) /\ Lists(FR, LR)
  BY LoadsListed
<1>2. /\ Lists(st, K \ L)
      /\ \A p \in 0 .. Len(st) - 1 :
           (IF p < h.signers THEN p < h.signers - h.readonlySigned ELSE p < Len(st) - h.readonly)
             <=> WritesTo(ixs, st[p + 1])
  BY StaticListed
<1>3. /\ Combined(ixs, tables, home) = C /\ RuntimeTable(msg) = R
      /\ Aligned(msg) <=> AlignedLoads(n, w, r)
      /\ \A p : Writable(msg, p) <=> WritablePlace(h, Len(st), Len(FW), p)
  <2>1. Len(UsedTables(ixs, tables, home)) \in Nat
    BY <1>1
  <2>2. Combined(ixs, tables, home) = C /\ RuntimeTable(msg) = R
    BY <2>1, V0Tables
  <2>3. Aligned(msg) <=> AlignedLoads(n, w, r)
    BY <2>1, V0Tables
  <2>4. \A p : Writable(msg, p) <=> WritablePlace(h, Len(st), Len(FW), p)
    BY <2>1, V0Tables
  <2> QED
    BY <2>2, <2>3, <2>4
<1>4. /\ L \subseteq K /\ Payer \notin L /\ K \subseteq Int
      /\ LW \cap LR = {} /\ LW \cup LR = L
      /\ \A k \in LW : WritesTo(ixs, k)
      /\ \A k \in LR : ~WritesTo(ixs, k)
  BY DEF Loaded, Signs
<1> HIDE DEF st, n, w, r, L, F, FW, FR, LW, LR, K, h
<1>5. Lists(C, K)
  <2>1. Lists(C, (K \ L) \cup L)
    BY <1>1, <1>2, ListsJoined
  <2> QED
    BY <1>4, <2>1
<1>6. Lists(SW, (K \ L) \cup LW)
  BY <1>1, <1>2, <1>4, ListsJoined
<1>7. Lists(R, K)
  <2> DEFINE X == (K \ L) \cup LW
  <2>1. X \cap LR = {} /\ X \cup LR = K
    BY <1>4
  <2>2. Lists(SW, X)
    BY <1>6
  <2> HIDE DEF X, SW
  <2>3. Lists(R, X \cup LR)
    BY <1>1, <2>1, <2>2, ListsJoined
  <2> QED
    BY <2>1, <2>3
<1>8. /\ Len(st) \in Nat /\ Len(F) \in Nat /\ Len(C) = Len(st) + Len(F)
      /\ \A p \in 1 .. Len(C) :
           /\ p <= Len(st) => C[p] = st[p]
           /\ p > Len(st) => C[p] = F[p - Len(st)]
  BY <1>1, <1>2, ListsSplit
<1>9. /\ Len(FW) \in Nat /\ Len(SW) = Len(st) + Len(FW)
      /\ \A p \in 1 .. Len(SW) :
           /\ p <= Len(st) => SW[p] = st[p]
           /\ p > Len(st) => SW[p] \in LW
  BY <1>1, <1>2, ListsSplit
<1>10. /\ Len(SW) \in Nat /\ Len(FR) \in Nat /\ Len(R) = Len(SW) + Len(FR)
       /\ \A p \in 1 .. Len(R) :
            /\ p <= Len(SW) => R[p] = SW[p]
            /\ p > Len(SW) => R[p] \in LR
  <2> HIDE DEF SW
  <2>1. Lists(SW, (K \ L) \cup LW)
    BY <1>6
  <2> QED
    BY <1>1, <2>1, ListsSplit
<1> HIDE DEF C, SW, R
<1>11. /\ Len(C) \in Nat /\ Len(C) <= 256 /\ C \in Seq(K)
       /\ \A k \in K : k \in ToSet(C)
       /\ \A p, q \in 1 .. Len(C) : C[p] = C[q] => p = q
  <2>1. /\ C \in Seq(K) /\ Cardinality(K) = Len(C)
        /\ \A k \in K : \E i \in 1 .. Len(C) : C[i] = k
        /\ \A p, q \in 1 .. Len(C) : C[p] = C[q] => p = q
    BY <1>5 DEF Lists
  <2>2. Len(C) \in Nat /\ DOMAIN C = 1 .. Len(C) /\ Len(C) <= 256
    BY <2>1 DEF K
  <2> QED
    BY <2>1, <2>2 DEF ToSet
<1>12. ASSUME NEW k \in K
       PROVE  /\ Place(C, k) \in 1 .. Len(C) /\ C[Place(C, k)] = k
              /\ NumberOf(C, k) + 1 = Place(C, k)
  <2>1. Place(C, k) \in 1 .. Len(C) /\ C[Place(C, k)] = k
    BY <1>11, PlaceIs
  <2>2. ASSUME NEW p \in 1 .. Len(C) PROVE ((p - 1) % 256) + 1 = p
    <3>1. p - 1 \in Nat /\ p - 1 < 256
      BY <1>11
    <3>2. ASSUME NEW x \in Nat, x < 256 PROVE x % 256 = x
      BY SMTT(30), <3>2
    <3> DEFINE x == p - 1
    <3>3. x % 256 = x /\ x + 1 = p
      <4>1. x + 1 = p
        OBVIOUS
      <4>2. x \in Nat /\ x < 256
        BY <3>1
      <4> HIDE DEF x
      <4> QED
        BY <3>2, <4>1, <4>2
    <3> HIDE DEF x
    <3>4. (x % 256) + 1 = p
      BY <3>3
    <3> QED
      BY <3>4 DEF x
  <2> QED
    BY <2>1, <2>2 DEF NumberOf
<1>13. /\ \A m \in 1 .. Len(ixs) : ixs[m].program \in K
       /\ \A m \in 1 .. Len(ixs) : \A i \in 1 .. Len(ixs[m].accounts) :
            ixs[m].accounts[i].key \in K
       /\ \A k \in K : \/ k = Payer
                       \/ \E m \in 1 .. Len(ixs) : ixs[m].program = k
                       \/ \E m \in 1 .. Len(ixs) : \E i \in 1 .. Len(ixs[m].accounts) :
                            ixs[m].accounts[i].key = k
  <2>1. /\ \A m \in 1 .. Len(ixs) : \A i \in 1 .. Len(ixs[m].accounts) :
             ixs[m].accounts[i] \in Metas(ixs)
        /\ \A a \in Metas(ixs) : \E m \in 1 .. Len(ixs) : \E i \in 1 .. Len(ixs[m].accounts) :
             ixs[m].accounts[i] = a
    <3>1. ASSUME NEW m \in 1 .. Len(ixs), NEW i \in 1 .. Len(ixs[m].accounts)
          PROVE  ixs[m].accounts[i] \in Metas(ixs)
      <4>1. ixs[m].accounts[i] \in ToSet(ixs[m].accounts)
        OBVIOUS
      <4> QED
        BY <4>1 DEF Metas
    <3>2. ASSUME NEW a \in Metas(ixs)
          PROVE  \E m \in 1 .. Len(ixs) : \E i \in 1 .. Len(ixs[m].accounts) :
                    ixs[m].accounts[i] = a
      <4>1. PICK m \in 1 .. Len(ixs) : a \in ToSet(ixs[m].accounts)
        BY DEF Metas
      <4> QED
        BY <4>1
    <3> QED
      BY <3>1, <3>2
  <2>2. K = ({Payer} \cup {ixs[m].program : m \in 1 .. Len(ixs)})
              \cup {a.key : a \in Metas(ixs)}
    BY DEF K, Named
  <2>3. ASSUME NEW k \in K
        PROVE  \/ k = Payer
               \/ \E m \in 1 .. Len(ixs) : ixs[m].program = k
               \/ \E a \in Metas(ixs) : a.key = k
    BY <2>2
  <2>4. ASSUME NEW m \in 1 .. Len(ixs)
        PROVE  /\ ixs[m].program \in K
               /\ \A i \in 1 .. Len(ixs[m].accounts) : ixs[m].accounts[i].key \in K
    BY <2>1, <2>2
  <2>5. ASSUME NEW k \in K
        PROVE  \/ k = Payer
               \/ \E m \in 1 .. Len(ixs) : ixs[m].program = k
               \/ \E m \in 1 .. Len(ixs) : \E i \in 1 .. Len(ixs[m].accounts) :
                     ixs[m].accounts[i].key = k
    BY SMTT(30), <2>1, <2>3
  <2> QED
    BY <2>4, <2>5
<1>14. /\ Read(msg) = Meant(ixs) => \A k \in K \ {Payer} : R[Place(C, k)] = k
       /\ (\A k \in K : R[Place(C, k)] = k) => Read(msg) = Meant(ixs)
  <2> DEFINE found(k) == R[NumberOf(C, k) + 1] = k
  <2>1. Read(msg) = Meant(ixs)
          <=> \A m \in 1 .. Len(ixs) :
                /\ found(ixs[m].program)
                /\ \A i \in 1 .. Len(ixs[m].accounts) : found(ixs[m].accounts[i].key)
    BY <1>3, ReadEach
  <2>2. \A k \in K : found(k) <=> R[Place(C, k)] = k
    BY <1>12
  <2> HIDE DEF found
  <2>3. ASSUME Read(msg) = Meant(ixs), NEW k \in K \ {Payer} PROVE found(k)
    <3>1. \A m \in 1 .. Len(ixs) :
            /\ found(ixs[m].program)
            /\ \A i \in 1 .. Len(ixs[m].accounts) : found(ixs[m].accounts[i].key)
      BY <2>1, <2>3
    <3>2. CASE \E m \in 1 .. Len(ixs) : ixs[m].program = k
      BY <3>1, <3>2
    <3>3. CASE \E m \in 1 .. Len(ixs) : \E i \in 1 .. Len(ixs[m].accounts) :
                 ixs[m].accounts[i].key = k
      <4>1. PICK m \in 1 .. Len(ixs) : \E i \in 1 .. Len(ixs[m].accounts) :
                   ixs[m].accounts[i].key = k
        BY <3>3
      <4>2. PICK i \in 1 .. Len(ixs[m].accounts) : ixs[m].accounts[i].key = k
        BY <4>1
      <4> QED
        BY <3>1, <4>1, <4>2
    <3> QED
      BY <1>13, <3>2, <3>3
  <2>4. ASSUME \A k \in K : found(k) PROVE Read(msg) = Meant(ixs)
    BY <1>13, <2>1, <2>4
  <2> QED
    BY <2>2, <2>3, <2>4
<1>15. Aligned(msg) => \A k \in K : R[Place(C, k)] = k
  <2> SUFFICES ASSUME Aligned(msg) PROVE C = R
    BY <1>12
  <2>1. F = FW \o FR
    <3>1. \A i, j \in 1 .. n : i < j => r[i] = << >> \/ w[j] = << >>
      BY <1>3 DEF AlignedLoads
    <3> QED
      BY ZenonT(40), <1>1, <3>1, FlattenAligned DEF F, FW, FR
  <2>2. st \in Seq(Int) /\ FW \in Seq(Int) /\ FR \in Seq(Int)
    <3>1. st \in Seq(K \ L) /\ FW \in Seq(LW) /\ FR \in Seq(LR)
      BY <1>1, <1>2 DEF Lists
    <3>2. K \ L \subseteq Int /\ LW \subseteq Int /\ LR \subseteq Int
      BY <1>4
    <3> QED
      BY <3>1, <3>2, Widened
  <2>3. st \o (FW \o FR) = (st \o FW) \o FR
    BY SMTT(30), <2>2, Regrouped
  <2> QED
    BY <2>1, <2>3 DEF C, R, SW
<1>16. ~Aligned(msg) => \E k \in K \ {Payer} : R[Place(C, k)] # k
  <2> SUFFICES ASSUME ~Aligned(msg), \A k \in K \ {Payer} : R[Place(C, k)] = k PROVE FALSE
    OBVIOUS
  <2>1. \E p, q \in 1 .. Len(F) : p < q /\ F[p] \in LR /\ F[q] \in LW
    <3>1. Seqs(n, w, Int) /\ Seqs(n, r, Int)
      BY <1>1 DEF Seqs
    <3> QED
      BY <1>1, <1>3, <3>1, OutOfOrder DEF F, FW, FR
  <2>2. PICK p \in 1 .. Len(F) : \E q \in 1 .. Len(F) : p < q /\ F[p] \in LR /\ F[q] \in LW
    BY <2>1
  <2>3. PICK q \in 1 .. Len(F) : p < q /\ F[p] \in LR /\ F[q] \in LW
    BY <2>2
  <2>4. p < q
    BY <2>3
  <2>5. F[p] \in LR /\ F[q] \in LW
    BY <2>3
  <2>6. F[p] \in K \ {Payer} /\ F[q] \in K \ {Payer}
    BY <1>4, <2>5
  <2>7. Place(C, F[p]) = Len(st) + p /\ Place(C, F[q]) = Len(st) + q
    <3>1. ASSUME NEW x \in 1 .. Len(F), F[x] \in K PROVE Place(C, F[x]) = Len(st) + x
      <4>1. Len(st) + x \in 1 .. Len(C) /\ Len(st) + x > Len(st) /\ (Len(st) + x) - Len(st) = x
        BY <1>8
      <4>2. C[Len(st) + x] = F[x]
        BY <1>8, <4>1
      <4> QED
        BY <1>11, <1>12, <3>1, <4>1, <4>2
    <3> QED
      BY <2>6, <3>1
  <2>8. R[Len(st) + p] = F[p] /\ R[Len(st) + q] = F[q]
    BY <2>6, <2>7
  <2>9. Len(st) + p \in 1 .. Len(R) /\ Len(st) + q \in 1 .. Len(R)
    <3>1. Len(R) = Len(C)
      BY <1>5, <1>7 DEF Lists
    <3> QED
      BY <1>8, <3>1
  <2>10. Len(st) + p > Len(st) + Len(FW)
    <3> SUFFICES ASSUME Len(st) + p <= Len(SW) PROVE FALSE
      BY <1>8, <1>9
    <3>1. Len(st) + p \in 1 .. Len(SW) /\ Len(st) + p > Len(st)
      BY <1>8, <1>10
    <3>2. R[Len(st) + p] \in LW
      BY <1>9, <1>10, <2>9, <3>1
    <3> QED
      BY <1>4, <2>5, <2>8, <3>2
  <2>11. Len(st) + q <= Len(st) + Len(FW)
    <3> SUFFICES ASSUME Len(st) + q > Len(SW) PROVE FALSE
      BY <1>8, <1>9
    <3>1. R[Len(st) + q] \in LR
      BY <1>10, <2>9
    <3> QED
      BY <1>4, <2>5, <2>8, <3>1
  <2> QED
    BY <1>8, <1>9, <2>4, <2>10, <2>11
<1>17. RightsKept(ixs, msg)
  <2> USE DEF WritablePlace
  <2> SUFFICES ASSUME NEW i \in 0 .. Len(R) - 1
               PROVE  Writable(msg, i) <=> WritesTo(ixs, R[i + 1])
    BY <1>3 DEF RightsKept, WritesTo
  <2>1. i + 1 \in 1 .. Len(R) /\ i \in Nat
    BY <1>9, <1>10
  <2>2. CASE i < Len(st)
    <3>1. i \in 0 .. Len(st) - 1 /\ i + 1 \in 1 .. Len(SW) /\ i + 1 <= Len(SW) /\ i + 1 <= Len(st)
      BY <1>8, <1>9, <2>1, <2>2
    <3>2. R[i + 1] = st[i + 1]
      BY <1>9, <1>10, <2>1, <3>1
    <3> QED
      BY <1>2, <1>3, <2>2, <3>1, <3>2
  <2>3. CASE ~(i < Len(st)) /\ i < Len(st) + Len(FW)
    <3>1. i + 1 \in 1 .. Len(SW) /\ i + 1 <= Len(SW) /\ i + 1 > Len(st)
      BY <1>8, <1>9, <2>1, <2>3
    <3>2. R[i + 1] \in LW
      BY <1>9, <1>10, <2>1, <3>1
    <3> QED
      BY <1>3, <1>4, <2>3, <3>2
  <2>4. CASE ~(i < Len(st)) /\ ~(i < Len(st) + Len(FW))
    <3>1. i + 1 > Len(SW)
      BY <1>8, <1>9, <2>1, <2>4
    <3>2. R[i + 1] \in LR
      BY <1>10, <2>1, <3>1
    <3> QED
      BY <1>3, <1>4, <2>4, <3>2
  <2> QED
    BY <2>2, <2>3, <2>4
<1> QED
  BY <1>14, <1>15, <1>16, <1>17
-----------------------------------------------------------------------------
(* What the runtime reads of a legacy message.                              *)

LegacyWrites == {Payer, LiquiditySupply, WsolAta, SolReserve, FeeReceiver, Authority}
LegacyOthers == {Solend, TokenProgram, SysvarInstructions, MainPool, System, AtaProgram}

\* A function on the numbers from 1 to n.
Indexed(n, f) == f = [i \in 1 .. n |-> f[i]]

\* f between an a and a b.
Frames(s, a, f, b) == s = (<<a>> \o f) \o <<b>>

LEMMA Framed ==
  ASSUME NEW n \in Nat, NEW f, Indexed(n, f), NEW a, NEW b, NEW s, Frames(s, a, f, b)
  PROVE  /\ Len(s) = n + 2 /\ s[1] = a /\ s[n + 2] = b
         /\ \A i \in 1 .. n : s[i + 1] = f[i]
         /\ Indexed(n + 2, s)
<1> DEFINE S == {a, b} \cup {f[i] : i \in 1 .. n}
           u == <<a>>
           v == <<b>>
           t == u \o f
<1>1. u \in Seq(S) /\ Len(u) = 1 /\ u[1] = a /\ v \in Seq(S) /\ Len(v) = 1 /\ v[1] = b
  OBVIOUS
<1>2. f \in Seq(S) /\ Len(f) = n
  <2>1. \A i \in 1 .. n : f[i] \in S
    OBVIOUS
  <2> HIDE DEF S
  <2>2. f \in [1 .. n -> S]
    BY <2>1 DEF Indexed
  <2> QED
    BY <2>2
<1> HIDE DEF S, u, v
<1>3. /\ t \in Seq(S) /\ Len(t) = 1 + n /\ t[1] = a
      /\ \A i \in 1 .. n : t[1 + i] = f[i]
  <2>1. /\ t \in Seq(S) /\ Len(t) = Len(u) + Len(f)
        /\ \A i \in 1 .. Len(u) : t[i] = u[i]
        /\ \A i \in 1 .. Len(f) : t[Len(u) + i] = f[i]
    <3>1. u \in Seq(S) /\ f \in Seq(S)
      BY <1>1, <1>2
    <3> QED
      BY <3>1, Joined
  <2> HIDE DEF t
  <2>2. 1 \in 1 .. Len(u)
    BY <1>1
  <2>3. t[1] = a
    BY <1>1, <2>1, <2>2
  <2> QED
    BY <1>1, <1>2, <2>1, <2>3
<1>0. s = t \o v
  BY DEF Frames, t, u, v
<1> HIDE DEF t
<1>4. /\ s \in Seq(S) /\ Len(s) = (1 + n) + 1 /\ s[(1 + n) + 1] = b
      /\ \A i \in 1 .. 1 + n : s[i] = t[i]
  <2>1. /\ s \in Seq(S) /\ Len(s) = Len(t) + Len(v)
        /\ \A i \in 1 .. Len(t) : s[i] = t[i]
        /\ \A i \in 1 .. Len(v) : s[Len(t) + i] = v[i]
    <3>1. t \in Seq(S) /\ v \in Seq(S)
      BY <1>1, <1>3
    <3> QED
      BY <1>0, <3>1, Joined
  <2>2. 1 \in 1 .. Len(v)
    BY <1>1
  <2>3. s[Len(t) + 1] = b
    BY <1>1, <2>1, <2>2
  <2> QED
    BY <1>1, <1>3, <2>1, <2>3
<1>5. Len(s) = n + 2 /\ s[1] = a /\ s[n + 2] = b
  BY <1>3, <1>4
<1>6. ASSUME NEW i \in 1 .. n PROVE s[i + 1] = f[i]
  BY <1>3, <1>4
<1>7. Indexed(n + 2, s)
  BY <1>4, <1>5 DEF Indexed
<1> QED
  BY <1>5, <1>6, <1>7

LEMMA EmptyFlat ==
  FlattenSeq(<< >>) = << >>
<1>1. << >> \in Seq(Seq(Int)) /\ Len(<< >>) = 0
  OBVIOUS
<1> DEFINE e == << >>
<1>2. e \in Seq(Seq(Int)) /\ Len(e) = 0
  BY <1>1
<1> HIDE DEF e
<1>3. PICK G : Prefixed(G, e, Int)
  BY <1>2, FlattenPrefixes
<1>4. FlattenSeq(e) = << >>
  BY <1>2, <1>3 DEF Prefixed
<1> QED
  BY <1>4 DEF e

\* The instructions of the legacy builder.
LEMMA LegacyInstructions ==
  ASSUME NEW swaps \in Seq(Int), NEW borrow, NEW repay
  PROVE  LET ixs == V0Instructions(<< >>, LegacySwaps(swaps), << >>, borrow, repay, 0)
             n == Len(swaps)
         IN /\ n \in Nat /\ Len(ixs) = n + 2 /\ Indexed(n + 2, ixs)
            /\ ixs[1] = Borrow(borrow) /\ ixs[n + 2] = Repay(repay, 0)
            /\ \A i \in 1 .. n : ixs[i + 1] = LegacySwaps(swaps)[i]
<1> DEFINE f == LegacySwaps(swaps)
           b == Borrow(borrow)
           r == Repay(repay, 0)
           n == Len(swaps)
           ixs == V0Instructions(<< >>, f, << >>, borrow, repay, 0)
<1>1. n \in Nat /\ Indexed(n, f)
  BY DEF LegacySwaps, Indexed
<1>2. ixs = ((((<< >> \o <<b>>) \o f) \o << >>) \o <<Repay(repay, Len(<< >>) % 256)>>) \o << >>
  BY DEF V0Instructions
<1>3. Len(<< >>) % 256 = 0
  OBVIOUS
<1> HIDE DEF f, b, n, ixs
<1>4. ixs = (<<b>> \o f) \o <<r>>
  <2> DEFINE S == {b, r} \cup {f[i] : i \in 1 .. n}
             u == <<b>>
             v == <<r>>
  <2>1. u \in Seq(S) /\ v \in Seq(S)
    OBVIOUS
  <2>2. f \in Seq(S)
    <3>1. \A i \in 1 .. n : f[i] \in S
      OBVIOUS
    <3> HIDE DEF S
    <3>2. f \in [1 .. n -> S]
      BY <1>1, <3>1 DEF Indexed
    <3> QED
      BY <1>1, <3>2
  <2>3. ixs = ((((<< >> \o u) \o f) \o << >>) \o v) \o << >>
    BY <1>2, <1>3
  <2> HIDE DEF S, u, v
  <2>4. << >> \o u = u /\ u \o f \in Seq(S)
    BY <2>1, <2>2, ConcatProperties, ConcatEmptySeq
  <2>5. (u \o f) \o << >> = u \o f /\ (u \o f) \o v \in Seq(S)
    BY <2>1, <2>4, ConcatProperties, ConcatEmptySeq
  <2>6. ((u \o f) \o v) \o << >> = (u \o f) \o v
    BY <2>5, ConcatEmptySeq
  <2> QED
    BY <2>3, <2>4, <2>5, <2>6 DEF u, v
<1> HIDE DEF r
<1>5. /\ Len(ixs) = n + 2 /\ ixs[1] = b /\ ixs[n + 2] = r
      /\ \A i \in 1 .. n : ixs[i + 1] = f[i]
      /\ Indexed(n + 2, ixs)
  <2>1. n \in Nat /\ Indexed(n, f)
    BY <1>1
  <2>2. Frames(ixs, b, f, r)
    BY <1>4 DEF Frames
  <2> QED
    BY <2>1, <2>2, Framed
<1> QED
  BY <1>1, <1>5 DEF f, b, r, n, ixs

\* The table of the legacy builder and its header.
LegacyTable(swaps) ==
  LegacyBase \o [i \in 1 .. Len(Programs(swaps)) |-> Reads(Programs(swaps)[i])]

LegacyKey(swaps, k) == LegacyTable(swaps)[k].key

LEMMA LegacyTableIs ==
  ASSUME NEW swaps \in Seq(Int)
  PROVE  LET m == Len(Programs(swaps))
             T == LegacyTable(swaps)
         IN /\ m \in Nat /\ Len(T) = 12 + m
            /\ \A k \in 1 .. 12 : T[k] = LegacyBase[k]
            /\ \A i \in 1 .. m : T[12 + i] = Reads(Programs(swaps)[i])
            /\ \A i \in 1 .. m : Programs(swaps)[i] \in ToSet(swaps)
            /\ \A i \in 1 .. Len(swaps) :
                 LET j == Place(Programs(swaps), swaps[i])
                 IN j \in 1 .. m /\ Programs(swaps)[j] = swaps[i]
<1> DEFINE P == Programs(swaps)
           m == Len(P)
           T == LegacyTable(swaps)
           q == [i \in 1 .. m |-> Reads(P[i])]
           S == ToSet(swaps)
           X == {LegacyBase[k] : k \in 1 .. 12} \cup {q[i] : i \in 1 .. m}
<1>1. Lists(P, S)
  BY ProgramsListed
<1> HIDE DEF P, S
<1>2. P \in Seq(S) /\ m \in Nat /\ DOMAIN P = 1 .. m
  BY <1>1 DEF Lists
<1>3. LegacyBase \in Seq(X) /\ Len(LegacyBase) = 12
  <2>1. LegacyBase \in [1 .. 12 -> X] /\ Len(LegacyBase) = 12
    <3>1. Len(LegacyBase) = 12 /\ LegacyBase = [k \in 1 .. 12 |-> LegacyBase[k]]
      BY DEF LegacyBase
    <3>2. \A k \in 1 .. 12 : LegacyBase[k] \in X
      OBVIOUS
    <3> HIDE DEF X
    <3> QED
      BY <3>1, <3>2
  <2> DEFINE base == LegacyBase
             h == 12
  <2> HIDE DEF X, base, h
  <2>2. base \in [1 .. h -> X] /\ Len(base) = h /\ h \in Nat
    BY <2>1 DEF base, h
  <2>3. base \in Seq(X) /\ Len(base) = h
    BY <2>2
  <2> QED
    BY <2>3 DEF base, h
<1>4. q \in Seq(X) /\ Len(q) = m /\ \A i \in 1 .. m : q[i] = Reads(P[i])
  <2>1. \A i \in 1 .. m : q[i] \in X
    OBVIOUS
  <2>2. \A i \in 1 .. m : q[i] = Reads(P[i])
    OBVIOUS
  <2> HIDE DEF X
  <2>3. q \in [1 .. m -> X]
    BY <2>1
  <2> HIDE DEF q
  <2> QED
    BY <1>2, <2>2, <2>3
<1>5. T = LegacyBase \o q
  BY DEF LegacyTable, P
<1> DEFINE base == LegacyBase
<1> HIDE DEF q, X, m, T, base
<1>6. /\ Len(T) = 12 + m
      /\ \A k \in 1 .. 12 : T[k] = base[k]
      /\ \A i \in 1 .. m : T[12 + i] = q[i]
  <2>1. base \in Seq(X) /\ Len(base) = 12 /\ T = base \o q
    BY <1>3, <1>5 DEF base
  <2>2. /\ Len(base \o q) = Len(base) + Len(q)
        /\ \A k \in 1 .. Len(base) : (base \o q)[k] = base[k]
        /\ \A i \in 1 .. Len(q) : (base \o q)[Len(base) + i] = q[i]
    <3>1. base \in Seq(X) /\ q \in Seq(X)
      BY <1>4, <2>1
    <3> QED
      BY <3>1, Joined
  <2>3. /\ Len(base) = 12 /\ Len(q) = m /\ T = base \o q
    BY <1>4, <2>1
  <2> HIDE DEF q, base
  <2> QED
    BY <2>2, <2>3
<1>7. ASSUME NEW i \in 1 .. Len(swaps)
      PROVE  Place(P, swaps[i]) \in 1 .. m /\ P[Place(P, swaps[i])] = swaps[i]
  <2>1. swaps[i] \in S
    BY DEF S, ToSet
  <2>2. \E k \in 1 .. m : P[k] = swaps[i]
    BY <1>1, <2>1 DEF Lists, m
  <2>3. swaps[i] \in ToSet(P)
    BY <1>2, <2>2 DEF ToSet, m
  <2> QED
    BY <1>2, <2>3, PlaceIs DEF m
<1>8. \A i \in 1 .. m : P[i] \in S
  BY <1>2 DEF m
<1> QED
  BY <1>2, <1>4, <1>6, <1>7, <1>8 DEF P, m, T, base, S

\* Its first account signs, the first six are written to, the others are only read.
LEMMA LegacyColumns ==
  ASSUME NEW swaps \in Seq(Int)
  PROVE  LET m == Len(Programs(swaps))
             T == LegacyTable(swaps)
         IN \A k \in 1 .. 12 + m :
               /\ T[k].signer <=> k = 1
               /\ T[k].writable <=> k <= 6
               /\ k <= 6 => T[k].key \in LegacyWrites
               /\ k > 6 => T[k].key \in LegacyOthers \cup ToSet(swaps)
               /\ k = 1 => T[k].key = Payer
               /\ k = 2 => T[k].key = LiquiditySupply
               /\ k = 3 => T[k].key = WsolAta
               /\ k = 4 => T[k].key = SolReserve
               /\ k = 5 => T[k].key = FeeReceiver
               /\ k = 6 => T[k].key = Authority
               /\ k = 7 => T[k].key = Solend
               /\ k = 8 => T[k].key = TokenProgram
               /\ k = 9 => T[k].key = SysvarInstructions
               /\ k = 10 => T[k].key = MainPool
<1> DEFINE m == Len(Programs(swaps))
           T == LegacyTable(swaps)
           All(k) == /\ T[k].signer <=> k = 1
                     /\ T[k].writable <=> k <= 6
                     /\ k <= 6 => T[k].key \in LegacyWrites
                     /\ k > 6 => T[k].key \in LegacyOthers \cup ToSet(swaps)
                     /\ k = 1 => T[k].key = Payer
                     /\ k = 2 => T[k].key = LiquiditySupply
                     /\ k = 3 => T[k].key = WsolAta
                     /\ k = 4 => T[k].key = SolReserve
                     /\ k = 5 => T[k].key = FeeReceiver
                     /\ k = 6 => T[k].key = Authority
                     /\ k = 7 => T[k].key = Solend
                     /\ k = 8 => T[k].key = TokenProgram
                     /\ k = 9 => T[k].key = SysvarInstructions
                     /\ k = 10 => T[k].key = MainPool
<1>1. /\ m \in Nat /\ Len(T) = 12 + m
      /\ \A k \in 1 .. 12 : T[k] = LegacyBase[k]
      /\ \A i \in 1 .. m : T[12 + i] = Reads(Programs(swaps)[i])
      /\ \A i \in 1 .. m : Programs(swaps)[i] \in ToSet(swaps)
  BY LegacyTableIs
<1> HIDE DEF m, T
<1>2. /\ T[1] = Meta(Payer, TRUE, TRUE) /\ T[2] = Writes(LiquiditySupply)
      /\ T[3] = Writes(WsolAta) /\ T[4] = Writes(SolReserve) /\ T[5] = Writes(FeeReceiver)
      /\ T[6] = Writes(Authority) /\ T[7] = Reads(Solend) /\ T[8] = Reads(TokenProgram)
      /\ T[9] = Reads(SysvarInstructions) /\ T[10] = Reads(MainPool)
      /\ T[11] = Reads(System) /\ T[12] = Reads(AtaProgram)
  <2> DEFINE b == LegacyBase
  <2>1. /\ b[1] = Meta(Payer, TRUE, TRUE) /\ b[2] = Writes(LiquiditySupply)
        /\ b[3] = Writes(WsolAta) /\ b[4] = Writes(SolReserve) /\ b[5] = Writes(FeeReceiver)
        /\ b[6] = Writes(Authority) /\ b[7] = Reads(Solend) /\ b[8] = Reads(TokenProgram)
        /\ b[9] = Reads(SysvarInstructions) /\ b[10] = Reads(MainPool)
        /\ b[11] = Reads(System) /\ b[12] = Reads(AtaProgram)
    BY DEF LegacyBase
  <2> HIDE DEF b
  <2>2. \A k \in 1 .. 12 : T[k] = b[k]
    BY <1>1 DEF b
  <2>3. /\ T[1] = b[1] /\ T[2] = b[2] /\ T[3] = b[3] /\ T[4] = b[4] /\ T[5] = b[5]
        /\ T[6] = b[6] /\ T[7] = b[7] /\ T[8] = b[8] /\ T[9] = b[9] /\ T[10] = b[10]
        /\ T[11] = b[11] /\ T[12] = b[12]
    BY <2>2
  <2> QED
    BY <2>1, <2>3
<1>3. /\ All(1) /\ All(2) /\ All(3) /\ All(4) /\ All(5) /\ All(6)
  BY <1>2 DEF Meta, Writes, LegacyWrites
<1>4. /\ All(7) /\ All(8) /\ All(9) /\ All(10) /\ All(11) /\ All(12)
  BY <1>2 DEF Meta, Reads, LegacyOthers
<1>5. ASSUME NEW k \in 1 .. 12 + m, k > 12 PROVE All(k)
  <2> DEFINE i == k - 12
  <2>1. i \in 1 .. m /\ k = 12 + i
    BY <1>1, <1>5
  <2> HIDE DEF i
  <2>2. T[k] = Reads(Programs(swaps)[i]) /\ Programs(swaps)[i] \in ToSet(swaps)
    BY <1>1, <2>1
  <2>3. ~T[k].signer /\ ~T[k].writable /\ T[k].key \in ToSet(swaps)
    BY <2>2 DEF Reads, Meta
  <2>4. /\ k # 1 /\ ~(k <= 6) /\ k > 6 /\ k # 2 /\ k # 3 /\ k # 4 /\ k # 5 /\ k # 6 /\ k # 7
        /\ k # 8 /\ k # 9 /\ k # 10
    BY <1>1, <1>5
  <2> QED
    BY <2>3, <2>4
<1>6. ASSUME NEW k \in 1 .. 12 + m PROVE All(k)
  <2>1. \/ k = 1 \/ k = 2 \/ k = 3 \/ k = 4 \/ k = 5 \/ k = 6 \/ k = 7 \/ k = 8 \/ k = 9
        \/ k = 10 \/ k = 11 \/ k = 12 \/ k > 12
    BY <1>1
  <2> HIDE DEF All
  <2> QED
    BY <1>3, <1>4, <1>5, <2>1
<1> QED
  BY <1>6 DEF T, m

LEMMA LegacyHeader ==
  ASSUME NEW swaps \in Seq(Int), NEW borrow, NEW repay
  PROVE  LET msg == LegacyMessage(swaps, borrow, repay)
             m == Len(Programs(swaps))
         IN /\ msg.header.signers = 1 /\ msg.header.readonlySigned = 0
            /\ msg.header.readonly = 6 + m
            /\ msg.static = [k \in 1 .. 12 + m |-> LegacyKey(swaps, k)]
            /\ Len(msg.static) = 12 + m /\ msg.lookups = << >>
<1> DEFINE msg == LegacyMessage(swaps, borrow, repay)
           m == Len(Programs(swaps))
           T == LegacyTable(swaps)
           L == Len(T)
<1>1. /\ m \in Nat /\ L = 12 + m
  BY LegacyTableIs
<1>2. \A k \in 1 .. L : (T[k].signer <=> k = 1) /\ (T[k].writable <=> k <= 6)
  BY <1>1, LegacyColumns
<1>3. /\ msg.header.signers = Cardinality({k \in 1 .. L : T[k].signer})
      /\ msg.header.readonlySigned = Cardinality({k \in 1 .. L : T[k].signer /\ ~T[k].writable})
      /\ msg.header.readonly = Cardinality({k \in 1 .. L : ~T[k].signer /\ ~T[k].writable})
      /\ msg.static = [k \in 1 .. L |-> T[k].key] /\ msg.lookups = << >>
  BY DEF LegacyMessage, LegacyTable
<1> HIDE DEF m, T, L
<1>4. /\ {k \in 1 .. L : T[k].signer} = {1}
      /\ {k \in 1 .. L : T[k].signer /\ ~T[k].writable} = {}
      /\ {k \in 1 .. L : ~T[k].signer /\ ~T[k].writable} = 7 .. L
  <2>1. 1 \in 1 .. L
    BY <1>1
  <2>2. \A k \in 1 .. L : T[k].signer <=> k = 1
    BY <1>2
  <2>3. \A k \in 1 .. L : T[k].signer => T[k].writable
    BY <1>2
  <2>4. \A k : k \in 7 .. L <=> k \in 1 .. L /\ ~(k <= 6)
    BY <1>1
  <2>5. \A k \in 1 .. L : (~T[k].signer /\ ~T[k].writable) <=> ~(k <= 6)
    BY <1>2
  <2>6. {k \in 1 .. L : T[k].signer} = {1}
    BY <2>1, <2>2
  <2>7. {k \in 1 .. L : T[k].signer /\ ~T[k].writable} = {}
    BY <2>3
  <2>8. {k \in 1 .. L : ~T[k].signer /\ ~T[k].writable} = 7 .. L
    BY <2>4, <2>5
  <2> QED
    BY <2>6, <2>7, <2>8
<1>5. Cardinality({1}) = 1 /\ Cardinality({}) = 0 /\ Cardinality(7 .. L) = 6 + m
  <2>1. Cardinality({1}) = 1 /\ Cardinality({}) = 0
    BY FS_Singleton, FS_EmptySet
  <2>2. Cardinality(7 .. L) = IF 7 > L THEN 0 ELSE L - 7 + 1
    <3>1. 7 \in Int /\ L \in Int
      BY <1>1
    <3> DEFINE s == 7
    <3> HIDE DEF s
    <3>2. s \in Int
      BY <3>1 DEF s
    <3>3. Cardinality(s .. L) = IF s > L THEN 0 ELSE L - s + 1
      BY <3>1, <3>2, FS_Interval
    <3> QED
      BY <3>3 DEF s
  <2> QED
    BY <1>1, <2>1, <2>2
<1>6. Len(msg.static) = L
  <2> DEFINE s == [k \in 1 .. L |-> T[k].key]
  <2>1. L \in Nat
    BY <1>1
  <2>2. Len(s) = L
    BY <2>1
  <2> HIDE DEF s
  <2>3. msg.static = s
    BY <1>3 DEF s
  <2> QED
    BY <2>2, <2>3
<1> HIDE DEF msg
<1>7. /\ msg.header.signers = 1 /\ msg.header.readonlySigned = 0
      /\ msg.header.readonly = 6 + m
  BY <1>3, <1>4, <1>5
<1> QED
  BY <1>1, <1>3, <1>6, <1>7 DEF LegacyKey, T, m, msg, L

\* Its instructions, number by number.
LEMMA LegacyNumbers ==
  ASSUME NEW swaps \in Seq(Int), NEW borrow, NEW repay
  PROVE  LET msg == LegacyMessage(swaps, borrow, repay)
             n == Len(swaps)
         IN /\ n \in Nat /\ Len(msg.ixs) = n + 2
            /\ msg.ixs[1]
                 = [program |-> 6, accounts |-> <<1, 2, 3, 4, 4, 9, 5, 7, 8>>,
                    data |-> [op |-> "borrow", lamports |-> borrow]]
            /\ msg.ixs[n + 2]
                 = [program |-> 6, accounts |-> <<2, 1, 3, 4, 4, 9, 5, 0, 7, 8>>,
                    data |-> [op |-> "repay", lamports |-> repay, index |-> 0]]
            /\ \A i \in 1 .. n :
                 msg.ixs[i + 1] = [program |-> 11 + Place(Programs(swaps), swaps[i]),
                                   accounts |-> <<0, 2>>, data |-> [op |-> "swap"]]
<1> DEFINE msg == LegacyMessage(swaps, borrow, repay)
           n == Len(swaps)
           b == [program |-> 6, accounts |-> <<1, 2, 3, 4, 4, 9, 5, 7, 8>>,
                 data |-> [op |-> "borrow", lamports |-> borrow]]
           r == [program |-> 6, accounts |-> <<2, 1, 3, 4, 4, 9, 5, 0, 7, 8>>,
                 data |-> [op |-> "repay", lamports |-> repay, index |-> 0]]
           f == [i \in 1 .. n |->
                   [program |-> 11 + Place(Programs(swaps), swaps[i]),
                    accounts |-> <<0, 2>>, data |-> [op |-> "swap"]]]
<1>1. msg.ixs = (<<b>> \o f) \o <<r>>
  BY DEF LegacyMessage
<1>2. n \in Nat /\ Indexed(n, f)
  BY DEF Indexed
<1>3. \A i \in 1 .. n : f[i] = [program |-> 11 + Place(Programs(swaps), swaps[i]),
                                 accounts |-> <<0, 2>>, data |-> [op |-> "swap"]]
  OBVIOUS
<1> HIDE DEF msg, n, b, r, f
<1> DEFINE s == msg.ixs
<1>4. Frames(s, b, f, r)
  BY <1>1 DEF Frames
<1> HIDE DEF s
<1>5. /\ Len(s) = n + 2 /\ s[1] = b /\ s[n + 2] = r
      /\ \A i \in 1 .. n : s[i + 1] = f[i]
  BY <1>2, <1>4, Framed
<1>6. /\ Len(msg.ixs) = n + 2 /\ msg.ixs[1] = b /\ msg.ixs[n + 2] = r
      /\ \A i \in 1 .. n : msg.ixs[i + 1] = f[i]
  BY <1>5 DEF s
<1>7. /\ \A i \in 1 .. n : msg.ixs[i + 1]
             = [program |-> 11 + Place(Programs(swaps), swaps[i]),
                accounts |-> <<0, 2>>, data |-> [op |-> "swap"]]
  BY <1>3, <1>6
<1> QED
  BY <1>2, <1>6, <1>7 DEF msg, n, b, r

\* The runtime's table is the message's.
LEMMA LegacyRuntime ==
  ASSUME NEW swaps \in Seq(Int), NEW borrow, NEW repay
  PROVE  LET msg == LegacyMessage(swaps, borrow, repay)
             m == Len(Programs(swaps))
         IN /\ Len(RuntimeTable(msg)) = 12 + m
            /\ \A k \in 1 .. 12 + m : RuntimeTable(msg)[k] = LegacyKey(swaps, k)
            /\ \A p \in 0 .. 11 + m : Writable(msg, p) <=> p < 6
            /\ Aligned(msg)
<1> DEFINE msg == LegacyMessage(swaps, borrow, repay)
           m == Len(Programs(swaps))
<1>1. /\ msg.header.signers = 1 /\ msg.header.readonlySigned = 0
      /\ msg.header.readonly = 6 + m
      /\ msg.static = [k \in 1 .. 12 + m |-> LegacyKey(swaps, k)]
      /\ Len(msg.static) = 12 + m /\ msg.lookups = << >>
  BY LegacyHeader
<1>2. m \in Nat
  BY LegacyTableIs
<1> HIDE DEF msg, m
<1>3. /\ Len(msg.lookups) = 0
      /\ [i \in 1 .. Len(msg.lookups) |-> msg.lookups[i].writable] = << >>
      /\ [i \in 1 .. Len(msg.lookups) |-> msg.lookups[i].readonly] = << >>
  <2>1. Len(msg.lookups) = 0
    BY <1>1
  <2>2. 1 .. Len(msg.lookups) = {}
    BY <2>1
  <2>3. ASSUME NEW F, F \in [{} -> Int] PROVE F = << >>
    BY <2>3
  <2>4. /\ [i \in 1 .. Len(msg.lookups) |-> msg.lookups[i].writable] \in [{} -> Int]
        /\ [i \in 1 .. Len(msg.lookups) |-> msg.lookups[i].readonly] \in [{} -> Int]
    BY <2>2
  <2> QED
    BY <2>1, <2>3, <2>4
<1>4. RuntimeTable(msg) = (msg.static \o << >>) \o << >>
  BY <1>3, EmptyFlat DEF RuntimeTable
<1>5. msg.static \o << >> = msg.static
  <2> DEFINE S == {LegacyKey(swaps, k) : k \in 1 .. 12 + m}
  <2>1. \A k \in 1 .. 12 + m : LegacyKey(swaps, k) \in S
    OBVIOUS
  <2> HIDE DEF S
  <2>2. msg.static \in [1 .. 12 + m -> S]
    BY <1>1, <2>1
  <2>3. msg.static \in Seq(S)
    <3> DEFINE h == 12 + m
    <3>1. h \in Nat
      BY <1>2
    <3> HIDE DEF h
    <3>2. msg.static \in [1 .. h -> S]
      BY <2>2 DEF h
    <3> QED
      BY <3>1, <3>2
  <2> QED
    BY <2>3, ConcatEmptySeq
<1>6. RuntimeTable(msg) = msg.static
  BY <1>4, <1>5
<1>7. ASSUME NEW p \in 0 .. 11 + m PROVE Writable(msg, p) <=> p < 6
  <2>1. Writable(msg, p) <=> (IF p < 12 + m THEN IF p < 1 THEN p < 1 - 0 ELSE p < (12 + m) - (6 + m)
                              ELSE p < 12 + m + Len(FlattenSeq(<< >>)))
    BY <1>1, <1>3, Zenon DEF Writable
  <2>2. p < 12 + m /\ (12 + m) - (6 + m) = 6 /\ p \in Nat
    BY <1>2
  <2> QED
    BY <2>1, <2>2
<1>8. Aligned(msg)
  BY <1>3 DEF Aligned
<1> QED
  BY <1>1, <1>6, <1>7, <1>8 DEF msg, m

LEMMA LegacyReads ==
  ASSUME NEW swaps \in Seq(Int), NEW borrow, NEW repay,
         LegacyWrites \cap (LegacyOthers \cup ToSet(swaps)) = {}
  PROVE  LET msg == LegacyMessage(swaps, borrow, repay)
             ixs == V0Instructions(<< >>, LegacySwaps(swaps), << >>, borrow, repay, 0)
         IN (Read(msg) = Meant(ixs) <=> Aligned(msg)) /\ RightsKept(ixs, msg)
<1> DEFINE msg == LegacyMessage(swaps, borrow, repay)
           ixs == V0Instructions(<< >>, LegacySwaps(swaps), << >>, borrow, repay, 0)
           n == Len(swaps)
           P == Programs(swaps)
           m == Len(P)
           R == RuntimeTable(msg)
           key(k) == LegacyKey(swaps, k)
           read(ix) == [program |-> R[ix.program + 1],
                        accounts |-> [i \in 1 .. Len(ix.accounts) |-> R[ix.accounts[i] + 1]],
                        data |-> ix.data]
           meant(ix) == [program |-> ix.program,
                         accounts |-> [i \in 1 .. Len(ix.accounts) |-> ix.accounts[i].key],
                         data |-> ix.data]
           b == [program |-> 6, accounts |-> <<1, 2, 3, 4, 4, 9, 5, 7, 8>>,
                 data |-> [op |-> "borrow", lamports |-> borrow]]
           r == [program |-> 6, accounts |-> <<2, 1, 3, 4, 4, 9, 5, 0, 7, 8>>,
                 data |-> [op |-> "repay", lamports |-> repay, index |-> 0]]
           s(i) == [program |-> 11 + Place(P, swaps[i]),
                    accounts |-> <<0, 2>>, data |-> [op |-> "swap"]]
<1>1. /\ n \in Nat /\ Len(ixs) = n + 2
      /\ ixs[1] = Borrow(borrow) /\ ixs[n + 2] = Repay(repay, 0)
      /\ \A i \in 1 .. n : ixs[i + 1] = LegacySwaps(swaps)[i]
  BY LegacyInstructions
<1>2. /\ Len(msg.ixs) = n + 2 /\ msg.ixs[1] = b /\ msg.ixs[n + 2] = r
      /\ \A i \in 1 .. n : msg.ixs[i + 1] = s(i)
  BY SMTT(30), LegacyNumbers
<1>3. /\ Len(R) = 12 + m /\ \A k \in 1 .. 12 + m : R[k] = key(k)
      /\ \A p \in 0 .. 11 + m : Writable(msg, p) <=> p < 6
      /\ Aligned(msg)
  BY LegacyRuntime
<1>4. /\ m \in Nat
      /\ \A i \in 1 .. m : R[12 + i] = P[i]
      /\ \A i \in 1 .. n : Place(P, swaps[i]) \in 1 .. m /\ P[Place(P, swaps[i])] = swaps[i]
  <2>1. /\ m \in Nat
        /\ \A i \in 1 .. m : LegacyTable(swaps)[12 + i] = Reads(P[i])
        /\ \A i \in 1 .. n : Place(P, swaps[i]) \in 1 .. m /\ P[Place(P, swaps[i])] = swaps[i]
    BY LegacyTableIs
  <2>2. ASSUME NEW i \in 1 .. m PROVE R[12 + i] = P[i]
    <3>1. LegacyTable(swaps)[12 + i] = Reads(P[i])
      BY <2>1
    <3>2. ASSUME NEW x PROVE Reads(x).key = x
      BY DEF Reads, Meta
    <3>3. key(12 + i) = P[i]
      BY <3>1, <3>2 DEF LegacyKey
    <3> HIDE DEF key, m, R, P
    <3>4. 12 + i \in 1 .. 12 + m
      BY <2>1
    <3> QED
      BY <1>3, <3>3, <3>4
  <2> QED
    BY <2>1, <2>2
<1>5. /\ R[1] = Payer /\ R[2] = LiquiditySupply /\ R[3] = WsolAta /\ R[4] = SolReserve
      /\ R[5] = FeeReceiver /\ R[6] = Authority /\ R[7] = Solend /\ R[8] = TokenProgram
      /\ R[9] = SysvarInstructions /\ R[10] = MainPool
  <2>1. \A k \in 1 .. 12 + m :
               /\ k = 1 => key(k) = Payer
               /\ k = 2 => key(k) = LiquiditySupply
               /\ k = 3 => key(k) = WsolAta
               /\ k = 4 => key(k) = SolReserve
               /\ k = 5 => key(k) = FeeReceiver
               /\ k = 6 => key(k) = Authority
               /\ k = 7 => key(k) = Solend
               /\ k = 8 => key(k) = TokenProgram
               /\ k = 9 => key(k) = SysvarInstructions
               /\ k = 10 => key(k) = MainPool
    BY LegacyColumns DEF LegacyKey
  <2> HIDE DEF key, R, m
  <2>2. /\ 1 \in 1 .. 12 + m /\ 2 \in 1 .. 12 + m /\ 3 \in 1 .. 12 + m /\ 4 \in 1 .. 12 + m
        /\ 5 \in 1 .. 12 + m /\ 6 \in 1 .. 12 + m /\ 7 \in 1 .. 12 + m /\ 8 \in 1 .. 12 + m
        /\ 9 \in 1 .. 12 + m /\ 10 \in 1 .. 12 + m
    BY <1>4
  <2> QED
    BY <1>3, <2>1, <2>2
<1>6. /\ Read(msg) = [k \in 1 .. Len(msg.ixs) |-> read(msg.ixs[k])]
      /\ Meant(ixs) = [k \in 1 .. Len(ixs) |-> meant(ixs[k])]
  BY DEF Read, Meant
<1>c. /\ \A i \in 1 .. m : P[i] \in ToSet(swaps)
      /\ \A k \in 1 .. 12 + m :
               /\ k <= 6 => R[k] \in LegacyWrites
               /\ k > 6 => R[k] \in LegacyOthers \cup ToSet(swaps)
  <2>1. \A i \in 1 .. m : P[i] \in ToSet(swaps)
    BY LegacyTableIs
  <2>2. \A k \in 1 .. 12 + m :
               /\ k <= 6 => key(k) \in LegacyWrites
               /\ k > 6 => key(k) \in LegacyOthers \cup ToSet(swaps)
    BY LegacyColumns DEF LegacyKey
  <2> HIDE DEF key, R, m, P
  <2> QED
    BY <1>3, <2>1, <2>2
<1> HIDE DEF msg, ixs, n, P, m, R, key
<1>7. read(b) = meant(Borrow(borrow))
  <2> DEFINE x == <<1, 2, 3, 4, 4, 9, 5, 7, 8>>
             y == Borrow(borrow).accounts
             g == [i \in 1 .. 9 |-> R[x[i] + 1]]
             h == [i \in 1 .. 9 |-> y[i].key]
  <2>1. Len(x) = 9 /\ Len(y) = 9
    BY DEF Borrow, Instruction
  <2>2. /\ g[1] = h[1] /\ g[2] = h[2] /\ g[3] = h[3] /\ g[4] = h[4] /\ g[5] = h[5]
        /\ g[6] = h[6] /\ g[7] = h[7] /\ g[8] = h[8] /\ g[9] = h[9]
    BY <1>5 DEF Borrow, Instruction, Writes, Reads, Meta
  <2>3. g = h
    <3>1. g = [i \in 1 .. 9 |-> g[i]] /\ h = [i \in 1 .. 9 |-> h[i]]
      OBVIOUS
    <3> HIDE DEF g, h
    <3>2. \A i \in 1 .. 9 : i = 1 \/ i = 2 \/ i = 3 \/ i = 4 \/ i = 5 \/ i = 6 \/ i = 7
                            \/ i = 8 \/ i = 9
      OBVIOUS
    <3>3. \A i \in 1 .. 9 : g[i] = h[i]
      BY <2>2, <3>2
    <3> QED
      BY <3>1, <3>3
  <2>4. /\ read(b) = [program |-> R[7], accounts |-> g, data |-> b.data]
        /\ meant(Borrow(borrow)) = [program |-> Solend, accounts |-> h, data |-> b.data]
    <3>1. b.program + 1 = 7 /\ b.accounts = x
      OBVIOUS
    <3>2. /\ Borrow(borrow).program = Solend
          /\ Borrow(borrow).data = b.data
      BY DEF Borrow, Instruction
    <3> HIDE DEF x, y, b
    <3> QED
      BY <2>1, <3>1, <3>2 DEF y
  <2> HIDE DEF read, meant, g, h, b
  <2> QED
    BY <1>5, <2>3, <2>4
<1>8. read(r) = meant(Repay(repay, 0))
  <2> DEFINE x == <<2, 1, 3, 4, 4, 9, 5, 0, 7, 8>>
             y == Repay(repay, 0).accounts
             g == [i \in 1 .. 10 |-> R[x[i] + 1]]
             h == [i \in 1 .. 10 |-> y[i].key]
  <2>1. Len(x) = 10 /\ Len(y) = 10
    BY DEF Repay, Instruction
  <2>2. /\ g[1] = h[1] /\ g[2] = h[2] /\ g[3] = h[3] /\ g[4] = h[4] /\ g[5] = h[5]
        /\ g[6] = h[6] /\ g[7] = h[7] /\ g[8] = h[8] /\ g[9] = h[9] /\ g[10] = h[10]
    BY <1>5 DEF Repay, Instruction, Writes, Reads, Meta
  <2>3. g = h
    <3>1. g = [i \in 1 .. 10 |-> g[i]] /\ h = [i \in 1 .. 10 |-> h[i]]
      OBVIOUS
    <3> HIDE DEF g, h
    <3>2. \A i \in 1 .. 10 : i = 1 \/ i = 2 \/ i = 3 \/ i = 4 \/ i = 5 \/ i = 6 \/ i = 7
                             \/ i = 8 \/ i = 9 \/ i = 10
      OBVIOUS
    <3>3. \A i \in 1 .. 10 : g[i] = h[i]
      BY <2>2, <3>2
    <3> QED
      BY <3>1, <3>3
  <2>4. /\ read(r) = [program |-> R[7], accounts |-> g, data |-> r.data]
        /\ meant(Repay(repay, 0)) = [program |-> Solend, accounts |-> h, data |-> r.data]
    <3>1. r.program + 1 = 7 /\ r.accounts = x
      OBVIOUS
    <3>2. /\ Repay(repay, 0).program = Solend
          /\ Repay(repay, 0).data = r.data
      BY DEF Repay, Instruction
    <3> HIDE DEF x, y, r
    <3> QED
      BY <2>1, <3>1, <3>2 DEF y
  <2> HIDE DEF read, meant, g, h, r
  <2> QED
    BY <1>5, <2>3, <2>4
<1>9. ASSUME NEW i \in 1 .. n PROVE read(s(i)) = meant(LegacySwaps(swaps)[i])
  <2> DEFINE x == <<0, 2>>
             l == LegacySwaps(swaps)[i]
             y == <<Meta(Payer, TRUE, TRUE), Writes(WsolAta)>>
             j == Place(P, swaps[i])
             g == [k \in 1 .. 2 |-> R[x[k] + 1]]
             h == [k \in 1 .. 2 |-> y[k].key]
  <2>1. l.program = swaps[i] /\ l.accounts = y /\ l.data = [op |-> "swap"]
    BY DEF LegacySwaps, Instruction, n
  <2>2. R[(11 + j) + 1] = swaps[i]
    <3>1. j \in 1 .. m /\ P[j] = swaps[i]
      BY <1>4
    <3> HIDE DEF j
    <3>2. (11 + j) + 1 = 12 + j
      BY <3>1
    <3> QED
      BY <1>4, <3>1, <3>2
  <2>3. g[1] = h[1] /\ g[2] = h[2]
    BY <1>5 DEF Writes, Meta
  <2>4. g = h
    <3>1. g = [k \in 1 .. 2 |-> g[k]] /\ h = [k \in 1 .. 2 |-> h[k]]
      OBVIOUS
    <3> HIDE DEF g, h
    <3>2. \A k \in 1 .. 2 : g[k] = h[k]
      BY <2>3
    <3> QED
      BY <3>1, <3>2
  <2>5. Len(x) = 2 /\ Len(y) = 2
    OBVIOUS
  <2>6. s(i).program = 11 + j /\ s(i).accounts = x /\ s(i).data = [op |-> "swap"]
    OBVIOUS
  <2> HIDE DEF x, y, j, s, l
  <2>7. /\ read(s(i)) = [program |-> swaps[i], accounts |-> g, data |-> [op |-> "swap"]]
        /\ meant(l) = [program |-> swaps[i], accounts |-> h, data |-> [op |-> "swap"]]
    BY <2>1, <2>2, <2>5, <2>6
  <2> HIDE DEF read, meant, g, h
  <2> QED
    BY <2>4, <2>7 DEF l
<1>10. Read(msg) = Meant(ixs)
  <2> HIDE DEF read, meant, b, r, s
  <2>1. ASSUME NEW k \in 1 .. n + 2 PROVE read(msg.ixs[k]) = meant(ixs[k])
    <3>1. CASE k = 1
      BY <1>1, <1>2, <1>7, <3>1
    <3>2. CASE k = n + 2
      BY <1>1, <1>2, <1>8, <3>2
    <3>3. CASE k # 1 /\ k # n + 2
      <4> DEFINE i == k - 1
      <4>1. i \in 1 .. n /\ i + 1 = k
        BY <1>1, <3>3
      <4> HIDE DEF i
      <4>2. msg.ixs[i + 1] = s(i) /\ ixs[i + 1] = LegacySwaps(swaps)[i]
        BY <1>1, <1>2, <4>1
      <4> QED
        BY <1>9, <4>1, <4>2
    <3> QED
      BY <3>1, <3>2, <3>3
  <2> QED
    BY <1>1, <1>2, <1>6, <2>1
<1>11. /\ \A a \in Metas(ixs) : a.writable => a.key \in LegacyWrites
       /\ \A k \in LegacyWrites : k = Payer \/ \E a \in Metas(ixs) : a.key = k /\ a.writable
  <2> DEFINE of(k) == ToSet(ixs[k].accounts)
             some(k) == \E a \in Metas(ixs) : a.key = k /\ a.writable
  <2>1. Metas(ixs) = UNION {of(k) : k \in 1 .. n + 2}
    BY <1>1 DEF Metas
  <2>2. ASSUME NEW a \in of(1), a.writable PROVE a.key \in LegacyWrites
    <3> DEFINE y == Borrow(borrow).accounts
    <3>y. DOMAIN y = 1 .. 9
      BY DEF Borrow, Instruction
    <3>z. of(1) = ToSet(y)
      BY <1>1
    <3> HIDE DEF y, of
    <3>x. \E i \in 1 .. 9 : a = y[i]
      BY <2>2, <3>y, <3>z DEF ToSet
    <3>1. PICK i \in 1 .. 9 : a = Borrow(borrow).accounts[i]
      BY <3>x DEF y
    <3>2. \/ i = 1 \/ i = 2 \/ i = 3 \/ i = 4 \/ i = 5 \/ i = 6 \/ i = 7 \/ i = 8 \/ i = 9
      BY <3>1
    <3> QED
      BY <2>2, <3>1, <3>2 DEF Borrow, Instruction, Writes, Reads, Meta, LegacyWrites
  <2>3. ASSUME NEW a \in of(n + 2), a.writable PROVE a.key \in LegacyWrites
    <3> DEFINE y == Repay(repay, 0).accounts
    <3>y. DOMAIN y = 1 .. 10
      BY DEF Repay, Instruction
    <3>z. of(n + 2) = ToSet(y)
      BY <1>1
    <3> HIDE DEF y, of
    <3>x. \E i \in 1 .. 10 : a = y[i]
      BY <2>3, <3>y, <3>z DEF ToSet
    <3>1. PICK i \in 1 .. 10 : a = Repay(repay, 0).accounts[i]
      BY <3>x DEF y
    <3>2. \/ i = 1 \/ i = 2 \/ i = 3 \/ i = 4 \/ i = 5 \/ i = 6 \/ i = 7 \/ i = 8 \/ i = 9
          \/ i = 10
      BY <3>1
    <3> QED
      BY <2>3, <3>1, <3>2 DEF Repay, Instruction, Writes, Reads, Meta, LegacyWrites
  <2>4. ASSUME NEW i \in 1 .. n, NEW a \in of(i + 1), a.writable PROVE a.key \in LegacyWrites
    <3>1. ixs[i + 1].accounts = <<Meta(Payer, TRUE, TRUE), Writes(WsolAta)>>
      <4>1. LegacySwaps(swaps)[i].accounts = <<Meta(Payer, TRUE, TRUE), Writes(WsolAta)>>
        BY DEF LegacySwaps, Instruction, n
      <4> QED
        BY <1>1, <4>1
    <3>2. a = Meta(Payer, TRUE, TRUE) \/ a = Writes(WsolAta)
      <4> DEFINE y == <<Meta(Payer, TRUE, TRUE), Writes(WsolAta)>>
      <4>1. y[1] = Meta(Payer, TRUE, TRUE) /\ y[2] = Writes(WsolAta) /\ DOMAIN y = 1 .. 2
        OBVIOUS
      <4>2. a \in ToSet(y)
        BY <2>4, <3>1
      <4> HIDE DEF y
      <4>3. PICK j \in 1 .. 2 : a = y[j]
        BY <4>1, <4>2 DEF ToSet
      <4>4. j = 1 \/ j = 2
        BY <4>3
      <4> QED
        BY <4>1, <4>3, <4>4
    <3> QED
      BY <2>4, <3>2 DEF Writes, Meta, LegacyWrites
  <2> HIDE DEF of
  <2>5. ASSUME NEW a \in Metas(ixs), a.writable PROVE a.key \in LegacyWrites
    <3>1. PICK k \in 1 .. n + 2 : a \in of(k)
      BY <2>1
    <3>2. CASE k = 1
      BY <2>2, <2>5, <3>1, <3>2
    <3>3. CASE k = n + 2
      BY <2>3, <2>5, <3>1, <3>3
    <3>4. CASE k # 1 /\ k # n + 2
      <4> DEFINE i == k - 1
      <4>1. i \in 1 .. n /\ i + 1 = k
        BY <1>1, <3>1, <3>4
      <4> HIDE DEF i
      <4> QED
        BY <2>4, <2>5, <3>1, <4>1
    <3> QED
      BY <3>2, <3>3, <3>4
  <2>6. some(LiquiditySupply) /\ some(WsolAta) /\ some(SolReserve) /\ some(FeeReceiver)
        /\ some(Authority)
    <3> DEFINE y == Borrow(borrow).accounts
    <3>1. /\ y[1] = Writes(LiquiditySupply) /\ y[2] = Writes(WsolAta)
          /\ y[3] = Writes(SolReserve) /\ y[4] = Writes(FeeReceiver)
          /\ y[7] = Writes(Authority) /\ DOMAIN y = 1 .. 9
      BY DEF Borrow, Instruction
    <3> HIDE DEF y
    <3>2. /\ y[1] \in ToSet(y) /\ y[2] \in ToSet(y) /\ y[3] \in ToSet(y) /\ y[4] \in ToSet(y)
          /\ y[7] \in ToSet(y)
      BY <3>1 DEF ToSet
    <3>3. ToSet(y) \subseteq Metas(ixs)
      <4>1. of(1) = ToSet(y) /\ 1 \in 1 .. n + 2
        BY <1>1 DEF of, y
      <4> QED
        BY <2>1, <4>1
    <3>4. ASSUME NEW x, Writes(x) \in Metas(ixs) PROVE some(x)
      BY <3>4 DEF Writes, Meta
    <3> HIDE DEF some
    <3> QED
      BY <3>1, <3>2, <3>3, <3>4
  <2> QED
    BY <2>5, <2>6 DEF LegacyWrites
<1>12. RightsKept(ixs, msg)
  <2> SUFFICES ASSUME NEW p \in 0 .. 11 + m
               PROVE  Writable(msg, p)
                        <=> (R[p + 1] = Payer
                               \/ \E a \in Metas(ixs) : a.key = R[p + 1] /\ a.writable)
    <3>1. Len(R) - 1 = 11 + m
      BY <1>3, <1>4
    <3> QED
      BY <3>1 DEF RightsKept, R
  <2>1. p + 1 \in 1 .. 12 + m /\ (p < 6 <=> p + 1 <= 6) /\ (~(p < 6) <=> p + 1 > 6)
    BY <1>4
  <2>2. CASE p < 6
    <3>1. R[p + 1] \in LegacyWrites
      BY <1>c, <2>1, <2>2
    <3> QED
      BY <1>3, <1>11, <2>2, <3>1
  <2>3. CASE ~(p < 6)
    <3>1. R[p + 1] \notin LegacyWrites
      BY <1>c, <2>1, <2>3
    <3>2. Payer \in LegacyWrites
      BY DEF LegacyWrites
    <3> QED
      BY <1>3, <1>11, <2>3, <3>1, <3>2
  <2> QED
    BY <2>2, <2>3
<1> QED
  BY <1>3, <1>10, <1>12 DEF msg, ixs

-----------------------------------------------------------------------------
(* The loans that are built.                                                *)

\* Instructions of which each takes a sequence of accounts.
Whole(q) == \E S : q \in Seq(S) /\ \A x \in S : \E T : x.accounts \in Seq(T)

LEMMA WholeJoined ==
  ASSUME NEW p, NEW q, Whole(p), Whole(q)
  PROVE  Whole(p \o q)
<1>1. PICK S : p \in Seq(S) /\ \A x \in S : \E T : x.accounts \in Seq(T)
  BY DEF Whole
<1>2. PICK R : q \in Seq(R) /\ \A x \in R : \E T : x.accounts \in Seq(T)
  BY DEF Whole
<1>3. p \in Seq(S \cup R) /\ q \in Seq(S \cup R)
  <2>1. S \subseteq S \cup R /\ R \subseteq S \cup R
    OBVIOUS
  <2> QED
    BY <1>1, <1>2, <2>1, Widened
<1>4. p \o q \in Seq(S \cup R)
  BY <1>3
<1>5. \A x \in S \cup R : \E T : x.accounts \in Seq(T)
  BY <1>1, <1>2
<1> QED
  BY <1>4, <1>5 DEF Whole

LEMMA WholeFew ==
  /\ Whole(<< >>)
  /\ \A x, T : x.accounts \in Seq(T) => Whole(<<x>>)
<1>1. Whole(<< >>)
  <2> DEFINE S == {}
  <2>1. << >> \in Seq(S) /\ \A x \in S : \E T : x.accounts \in Seq(T)
    OBVIOUS
  <2> HIDE DEF S
  <2> QED
    BY <2>1 DEF Whole
<1>2. ASSUME NEW x, NEW T, x.accounts \in Seq(T) PROVE Whole(<<x>>)
  <2>1. <<x>> \in Seq({x})
    OBVIOUS
  <2>2. \A y \in {x} : \E R : y.accounts \in Seq(R)
    BY <1>2
  <2> QED
    BY <2>1, <2>2 DEF Whole
<1> QED
  BY <1>1, <1>2

\* What V0Reads asks of the instructions.
LEMMA WholeAccounts ==
  ASSUME NEW q, Whole(q)
  PROVE  /\ Len(q) \in Nat
         /\ \A n \in 1 .. Len(q) :
              /\ Len(q[n].accounts) \in Nat
              /\ \A a \in ToSet(q[n].accounts) :
                   \E i \in 1 .. Len(q[n].accounts) : q[n].accounts[i] = a
              /\ \A i \in 1 .. Len(q[n].accounts) : q[n].accounts[i] \in ToSet(q[n].accounts)
<1>1. PICK S : q \in Seq(S) /\ \A x \in S : \E T : x.accounts \in Seq(T)
  BY DEF Whole
<1>2. ASSUME NEW T, NEW s \in Seq(T)
      PROVE  /\ Len(s) \in Nat
             /\ \A a \in ToSet(s) : \E i \in 1 .. Len(s) : s[i] = a
             /\ \A i \in 1 .. Len(s) : s[i] \in ToSet(s)
  <2>1. Len(s) \in Nat /\ DOMAIN s = 1 .. Len(s)
    OBVIOUS
  <2> QED
    BY <2>1 DEF ToSet
<1>3. ASSUME NEW n \in 1 .. Len(q)
      PROVE  /\ Len(q[n].accounts) \in Nat
             /\ \A a \in ToSet(q[n].accounts) :
                  \E i \in 1 .. Len(q[n].accounts) : q[n].accounts[i] = a
             /\ \A i \in 1 .. Len(q[n].accounts) : q[n].accounts[i] \in ToSet(q[n].accounts)
  <2>1. q[n] \in S
    BY <1>1, ElementOfSeq
  <2>2. PICK T : q[n].accounts \in Seq(T)
    BY <1>1, <2>1
  <2> DEFINE s == q[n].accounts
  <2>3. s \in Seq(T)
    BY <2>2
  <2> HIDE DEF s
  <2>4. /\ Len(s) \in Nat
        /\ \A a \in ToSet(s) : \E i \in 1 .. Len(s) : s[i] = a
        /\ \A i \in 1 .. Len(s) : s[i] \in ToSet(s)
    BY <1>2, <2>3
  <2> QED
    BY <2>4 DEF s
<1> QED
  BY <1>1, <1>3

LEMMA LoanIsWhole ==
  ASSUME NEW b \in Budgets, NEW s1 \in Swaps, NEW s2 \in Swaps, NEW l, NEW r, NEW t
  PROVE  Whole(V0Instructions(b, s1, s2, l, r, t))
<1> DEFINE i == Len(b) % 256
           T == {Writes(LiquiditySupply), Writes(WsolAta), Writes(SolReserve),
                 Writes(FeeReceiver), Reads(MainPool), Writes(Authority),
                 Reads(TokenProgram), Reads(SysvarInstructions), Meta(Payer, TRUE, TRUE),
                 Writes(LoanTip)}
           tip == IF t > 0 THEN <<PayTip(t)>> ELSE << >>
<1>1. \A q \in Budgets \cup Swaps : Whole(q)
  <2> SUFFICES ASSUME NEW q \in Budgets \cup Swaps PROVE Whole(q)
    OBVIOUS
  <2> DEFINE S == {q[n] : n \in DOMAIN q}
  <2>1. /\ q \in Seq(S)
        /\ \A n \in 1 .. Len(q) :
             q[n].accounts \in Seq({q[n].accounts[k] : k \in DOMAIN q[n].accounts})
    BY LoansAssumption
  <2>2. DOMAIN q = 1 .. Len(q)
    BY <2>1
  <2>3. ASSUME NEW x \in S PROVE \E R : x.accounts \in Seq(R)
    <3>1. PICK n \in 1 .. Len(q) : x = q[n]
      BY <2>2
    <3> QED
      BY <2>1, <3>1
  <2> HIDE DEF S
  <2> QED
    BY <2>1, <2>3 DEF Whole
<1>2. Borrow(l).accounts \in Seq(T)
  <2> HIDE DEF T
  <2>1. /\ Writes(LiquiditySupply) \in T /\ Writes(WsolAta) \in T /\ Writes(SolReserve) \in T
        /\ Writes(FeeReceiver) \in T /\ Reads(MainPool) \in T /\ Writes(Authority) \in T
        /\ Reads(TokenProgram) \in T /\ Reads(SysvarInstructions) \in T
    BY DEF T
  <2> QED
    BY <2>1 DEF Borrow, Instruction
<1> DEFINE p == Meta(Payer, TRUE, TRUE)
<1>3. Repay(r, i).accounts \in Seq(T)
  <2>1. /\ Writes(LiquiditySupply) \in T /\ Writes(WsolAta) \in T /\ Writes(SolReserve) \in T
        /\ Writes(FeeReceiver) \in T /\ Reads(MainPool) \in T /\ Writes(Authority) \in T
        /\ Reads(TokenProgram) \in T /\ Reads(SysvarInstructions) \in T /\ p \in T
    BY DEF T
  <2>2. Repay(r, i).accounts =
          <<Writes(WsolAta), Writes(LiquiditySupply), Writes(SolReserve),
            Writes(FeeReceiver), Writes(FeeReceiver), Reads(MainPool), Writes(Authority), p,
            Reads(TokenProgram), Reads(SysvarInstructions)>>
    BY DEF Repay, Instruction
  <2> DEFINE u == <<Writes(WsolAta), Writes(LiquiditySupply), Writes(SolReserve),
                    Writes(FeeReceiver), Writes(FeeReceiver)>>
             v == <<Reads(MainPool), Writes(Authority), p, Reads(TokenProgram),
                    Reads(SysvarInstructions)>>
  <2> HIDE DEF T, p, i, tip
  <2>3. u \in Seq(T) /\ v \in Seq(T)
    BY <2>1
  <2>4. Repay(r, i).accounts = u \o v
    BY <2>2
  <2> HIDE DEF u, v
  <2> QED
    BY <2>3, <2>4
<1>4. PayTip(t).accounts \in Seq(T)
  <2>1. p \in T /\ Writes(LoanTip) \in T
    BY DEF T
  <2>2. PayTip(t).accounts = <<p, Writes(LoanTip)>>
    BY DEF PayTip, Instruction
  <2> HIDE DEF T, p
  <2> QED
    BY <2>1, <2>2
<1> HIDE DEF T, i
<1>5. Whole(<<Borrow(l)>>) /\ Whole(<<Repay(r, i)>>) /\ Whole(tip)
  BY <1>2, <1>3, <1>4, WholeFew
<1> HIDE DEF tip
<1>6. Whole(b) /\ Whole(s1) /\ Whole(s2)
  BY <1>1
<1>7. Whole(((((b \o <<Borrow(l)>>) \o s1) \o s2) \o <<Repay(r, i)>>) \o tip)
  BY <1>5, <1>6, WholeJoined
<1> QED
  BY <1>7 DEF V0Instructions, i, tip

LEMMA LoanReads ==
  ASSUME NEW b \in Budgets, NEW s1 \in Swaps, NEW s2 \in Swaps, NEW l \in Lamports,
         NEW t \in Tips, NEW tables \in Tables, NEW home \in Homes(tables)
  PROVE  LET ixs == V0Instructions(b, s1, s2, l, SolendRepayAmount(l), t)
             msg == V0Message(ixs, tables, home)
         IN (Read(msg) = Meant(ixs) <=> Aligned(msg)) /\ RightsKept(ixs, msg)
<1> DEFINE ixs == V0Instructions(b, s1, s2, l, SolendRepayAmount(l), t)
<1>1. Whole(ixs)
  BY LoanIsWhole
<1>2. Named(ixs) \subseteq Int /\ IsFiniteSet(Named(ixs)) /\ Cardinality(Named(ixs)) <= 256
  BY PubkeysAssumption
<1>3. tables \in Seq(Seq(Int))
  BY PubkeysAssumption
<1> HIDE DEF ixs
<1>4. /\ Len(ixs) \in Nat
      /\ \A n \in 1 .. Len(ixs) : Len(ixs[n].accounts) \in Nat
      /\ \A n \in 1 .. Len(ixs) : \A a \in ToSet(ixs[n].accounts) :
            \E i \in 1 .. Len(ixs[n].accounts) : ixs[n].accounts[i] = a
      /\ \A n \in 1 .. Len(ixs) : \A i \in 1 .. Len(ixs[n].accounts) :
            ixs[n].accounts[i] \in ToSet(ixs[n].accounts)
  <2>1. /\ Len(ixs) \in Nat
        /\ \A n \in 1 .. Len(ixs) :
             /\ Len(ixs[n].accounts) \in Nat
             /\ \A a \in ToSet(ixs[n].accounts) :
                  \E i \in 1 .. Len(ixs[n].accounts) : ixs[n].accounts[i] = a
             /\ \A i \in 1 .. Len(ixs[n].accounts) :
                  ixs[n].accounts[i] \in ToSet(ixs[n].accounts)
    BY <1>1, WholeAccounts, Zenon
  <2> QED
    BY <2>1, Zenon
<1>5. LET msg == V0Message(ixs, tables, home)
      IN (Read(msg) = Meant(ixs) <=> Aligned(msg)) /\ RightsKept(ixs, msg)
  BY <1>2, <1>3, <1>4, V0Reads
<1> QED
  BY <1>5 DEF ixs

LEMMA LegacyLoanReads ==
  ASSUME NEW s1 \in Swaps, NEW s2 \in Swaps, NEW l
  PROVE  LET swaps == <<s1[1].program, s2[1].program>>
             msg == LegacyMessage(swaps, l, SolendRepayAmount(l))
             ixs == V0Instructions(<< >>, LegacySwaps(swaps), << >>, l,
                                   SolendRepayAmount(l), 0)
         IN (Read(msg) = Meant(ixs) <=> Aligned(msg)) /\ RightsKept(ixs, msg)
<1> DEFINE p == s1[1].program
           q == s2[1].program
           swaps == <<p, q>>
<1>1. /\ p \in Int /\ q \in Int /\ p \notin LegacyWrites /\ q \notin LegacyWrites
      /\ LegacyWrites \cap LegacyOthers = {}
  BY PubkeysAssumption DEF LegacyWrites, LegacyOthers
<1> HIDE DEF p, q
<1>2. swaps \in Seq(Int) /\ ToSet(swaps) = {p, q}
  BY <1>1 DEF ToSet
<1> HIDE DEF swaps
<1>3. LegacyWrites \cap (LegacyOthers \cup ToSet(swaps)) = {}
  BY <1>1, <1>2
<1>4. LET msg == LegacyMessage(swaps, l, SolendRepayAmount(l))
          ixs == V0Instructions(<< >>, LegacySwaps(swaps), << >>, l, SolendRepayAmount(l), 0)
      IN (Read(msg) = Meant(ixs) <=> Aligned(msg)) /\ RightsKept(ixs, msg)
  BY <1>2, <1>3, LegacyReads
<1> QED
  BY <1>4 DEF swaps, p, q

-----------------------------------------------------------------------------
(* The composition.                                                         *)

OrderIsDone ==
  job.kind = "order" => /\ job.before \in Messages
                        /\ \E tip \in Tips : Order!Signable(job.before, tip)
                        /\ job.after = Order!AttachTip(job.before)

JobIsDone == OrderIsDone /\ LoanIsRepaid /\ LoanReadsAsMeant

IInv == StartupInv /\ BundleInv /\ JobIsDone

LEMMA InitHolds == Init => IInv
<1> SUFFICES ASSUME Init PROVE IInv
  OBVIOUS
<1>1. AttemptsNumbered /\ ProofIsLast
  BY ConstantsAreNat DEF Init, Startup!Init, AttemptsNumbered, ProofIsLast, Checking
<1>2. WalletKept
  BY SignersAssumption DEF Init, Startup!Init, WalletKept
<1>3. JobIsDone
  BY DEF Init, NoJob, JobIsDone, OrderIsDone, LoanIsRepaid, LoanReadsAsMeant
<1>4. CallSound /\ held = {} /\ ran = {}
  BY DEF Init, Bundle!Init, Bundle!Idle, CallSound
<1>5. IsFiniteSet(ran) /\ ran \ Bundle!SwapRuns = {} /\ Bundle!SwapRuns = {}
  BY <1>4, FS_EmptySet DEF Bundle!SwapRuns
<1>6. BundleInv
  BY <1>4, <1>5, FS_EmptySet, SameCount DEF BundleInv, RanSound, Bundle!TipsBuySwaps
<1> QED
  BY <1>1, <1>2, <1>3, <1>6 DEF IInv, StartupInv

LEMMA Unmoved == ASSUME StartupInv, UNCHANGED startupVars PROVE StartupInv'
BY DEF startupVars, StartupInv, AttemptsNumbered, WalletKept, ProofIsLast

LEMMA BundlesUnmoved == ASSUME BundleInv, UNCHANGED bundleVars PROVE BundleInv'
BY DEF bundleVars, BundleInv, CallSound, RanSound, Bundle!TipsBuySwaps, Bundle!SwapRuns

LEMMA JobUnmoved == ASSUME JobIsDone, UNCHANGED job PROVE JobIsDone'
BY DEF JobIsDone, OrderIsDone, LoanIsRepaid, LoanReadsAsMeant

LEMMA LoanArguments ==
  /\ \A q \in Budgets \cup Swaps : Plain(q)
  /\ \A b \in Budgets : Len(b) < 256
  /\ \A l \in Lamports : l \in Nat
BY LoansAssumption DEF Plain

LEMMA LegacyArguments ==
  ASSUME NEW p, NEW q
  PROVE  Plain(LegacySwaps(<<p, q>>))
<1> DEFINE r == LegacySwaps(<<p, q>>)
           ix(k) == Instruction(k, <<Meta(Payer, TRUE, TRUE), Writes(WsolAta)>>,
                                     [op |-> "swap"])
<1>1. r = [i \in 1 .. 2 |-> ix(<<p, q>>[i])]
  BY DEF LegacySwaps
<1>2. \A k : ix(k).data.op = "swap"
  BY DEF Instruction
<1> HIDE DEF r, ix
<1>3. Len(r) = 2 /\ r \in Seq({r[n] : n \in DOMAIN r})
  BY <1>1
<1>4. \A n \in 1 .. Len(r) : r[n].data.op = "swap"
  BY <1>1, <1>2, <1>3
<1> QED
  BY <1>3, <1>4 DEF Plain, r

LEMMA NextHolds == IInv /\ [Next]_vars => IInv'
<1> SUFFICES ASSUME IInv, [Next]_vars PROVE IInv'
  OBVIOUS
<1> USE DEF IInv
<1>1. CASE StartupStep
  <2>1. StartupInv'
    BY <1>1, MainKeeps, ChainKeeps DEF StartupStep, Startup!Next
  <2> QED
    BY <1>1, <2>1, BundlesUnmoved, JobUnmoved DEF StartupStep
<1>2. CASE \E m \in Messages, t \in Tips : SignOrder(m, t)
  <2>1. PICK m \in Messages, t \in Tips : SignOrder(m, t)
    BY <1>2
  <2>2. UNCHANGED startupVars /\ UNCHANGED bundleVars
    BY <2>1 DEF SignOrder
  <2>3. JobIsDone'
    BY <2>1 DEF SignOrder, JobIsDone, OrderIsDone, LoanIsRepaid, LoanReadsAsMeant
  <2> QED
    BY <2>2, <2>3, Unmoved, BundlesUnmoved
<1>3. CASE \E b \in Budgets, s1, s2 \in Swaps, l \in Lamports, t \in Tips, tables \in Tables :
             \E home \in Homes(tables) : BuildLoan(b, s1, s2, l, t, tables, home)
  <2>1. PICK b \in Budgets, s1 \in Swaps, s2 \in Swaps, l \in Lamports, t \in Tips,
             tables \in Tables :
               \E home \in Homes(tables) : BuildLoan(b, s1, s2, l, t, tables, home)
    BY <1>3
  <2> DEFINE ixs == V0Instructions(b, s1, s2, l, SolendRepayAmount(l), t)
             msg(h) == V0Message(ixs, tables, h)
  <2>2. PICK home \in Homes(tables) :
          /\ UNCHANGED startupVars /\ UNCHANGED bundleVars
          /\ job'.kind = "loan" /\ job'.ixs = ixs /\ job'.msg = msg(home)
    BY <2>1 DEF BuildLoan
  <2>3. Paired(ixs)
    BY LoanArguments, LoanPaired
  <2>4. /\ Read(msg(home)) = Meant(ixs) <=> Aligned(msg(home))
        /\ RightsKept(ixs, msg(home))
    BY LoanReads
  <2> HIDE DEF ixs, msg
  <2>5. JobIsDone'
    BY <2>2, <2>3, <2>4 DEF JobIsDone, OrderIsDone, LoanIsRepaid, LoanReadsAsMeant
  <2> QED
    BY <2>2, <2>5, Unmoved, BundlesUnmoved
<1>4. CASE \E s1, s2 \in Swaps, l \in Lamports :
             BuildLegacyLoan(<<s1[1].program, s2[1].program>>, l)
  <2>1. PICK s1 \in Swaps, s2 \in Swaps, l \in Lamports :
               BuildLegacyLoan(<<s1[1].program, s2[1].program>>, l)
    BY <1>4
  <2> DEFINE swaps == LegacySwaps(<<s1[1].program, s2[1].program>>)
             ixs == V0Instructions(<< >>, swaps, << >>, l, SolendRepayAmount(l), 0)
             msg == LegacyMessage(<<s1[1].program, s2[1].program>>, l, SolendRepayAmount(l))
  <2>2. /\ UNCHANGED startupVars /\ UNCHANGED bundleVars
        /\ job'.kind = "loan" /\ job'.ixs = ixs /\ job'.msg = msg
    BY <2>1 DEF BuildLegacyLoan
  <2>3. Paired(ixs)
    <3>1. Plain(swaps)
      BY LegacyArguments
    <3> HIDE DEF swaps
    <3>2. Plain(<< >>) /\ Len(<< >>) < 256 /\ l \in Nat
      BY PlainFew, LoanArguments
    <3> QED
      BY <3>1, <3>2, LoanPaired
  <2>4. (Read(msg) = Meant(ixs) <=> Aligned(msg)) /\ RightsKept(ixs, msg)
    BY LegacyLoanReads
  <2> HIDE DEF ixs, msg
  <2>5. JobIsDone'
    BY <2>2, <2>3, <2>4 DEF JobIsDone, OrderIsDone, LoanIsRepaid, LoanReadsAsMeant
  <2> QED
    BY <2>2, <2>5, Unmoved, BundlesUnmoved
<1>5. CASE HandOver
  <2>1. JobIsDone'
    BY <1>5 DEF HandOver, NoJob, JobIsDone, OrderIsDone, LoanIsRepaid, LoanReadsAsMeant
  <2> QED
    BY <1>5, <2>1, Unmoved, BundlesUnmoved DEF HandOver
<1>6. CASE BundleStep
  BY <1>6, BundleKeeps, Unmoved, JobUnmoved DEF BundleStep
<1>7. CASE \E l \in Lamports : PlanLoan(l)
  <2>1. PICK l \in Lamports : PlanLoan(l)
    BY <1>7
  <2>2. /\ UNCHANGED startupVars /\ UNCHANGED bundleVars /\ l > 0
        /\ job'.kind = "plan" /\ job'.plan = BuildPlan(l)
    BY <2>1 DEF PlanLoan
  <2>3. JobIsDone'
    BY <2>2 DEF JobIsDone, OrderIsDone, LoanIsRepaid, LoanReadsAsMeant
  <2> QED
    BY <2>2, <2>3, Unmoved, BundlesUnmoved
<1>8. CASE UNCHANGED vars
  BY <1>8, Unmoved, BundlesUnmoved, JobUnmoved DEF vars
<1> QED
  BY <1>1, <1>2, <1>3, <1>4, <1>5, <1>6, <1>7, <1>8 DEF Next

\* For every message Ultra may order and every tip: the signed order acts on the accounts
\* it acted on before, with the same rights, and pays the tip (transaction.rs).
THEOREM OrderSurvives == Spec => []OrderSurvivesTip
<1>1. IInv => OrderSurvivesTip
  BY InstructionsKept, TipPaid DEF IInv, JobIsDone, OrderIsDone, OrderSurvivesTip
<1> QED
  BY <1>1, InitHolds, NextHolds, PTL DEF Spec

\* For every number of attempts, tip and fee: the startup proof never takes the lamports
\* of the first tip (main.rs, enforce_wallet_balance and force_startup_transaction).
THEOREM ProofAffordable == Spec => []ProofIsAffordable
<1>1. IInv => ProofIsAffordable
  <2> SUFFICES ASSUME IInv, landed # {} PROVE wallet >= TipLamports
    BY DEF ProofIsAffordable, Startup!ProofIsAffordable
  <2>0. attempt \in 0 .. MAX_ATTEMPTS /\ landed \subseteq 1 .. attempt
    BY DEF IInv, StartupInv, AttemptsNumbered
  <2>1. attempt \in Nat /\ attempt > 0 /\ attempt <= MAX_ATTEMPTS
    <3>1. PICK a \in landed : a \in 1 .. attempt
      BY <2>0
    <3> QED
      BY <2>0, <3>1, ConstantsAreNat
  <2>2. Cardinality(landed) \in Nat /\ Cardinality(landed) <= MAX_ATTEMPTS
    <3>1. Cardinality(landed) \in 0 .. attempt
      BY <2>0, <2>1, Counted
    <3> QED
      BY <2>1, <3>1, ConstantsAreNat
  <2>3. Fee * Cardinality(landed) <= Fee * MAX_ATTEMPTS /\ Fee * Cardinality(landed) \in Nat
        /\ Fee * MAX_ATTEMPTS = MAX_ATTEMPTS * Fee /\ Fee * MAX_ATTEMPTS \in Nat
    BY <2>2, Products, ConstantsAreNat
  <2>4. wallet \in Int /\ wallet + Fee * Cardinality(landed) >= Reserve + TipLamports
    BY <2>1 DEF IInv, StartupInv, WalletKept
  <2> QED
    BY <2>3, <2>4, ConstantsAreNat
<1> QED
  BY <1>1, InitHolds, NextHolds, PTL DEF Spec

\* For every number of attempts: nothing is sent after an attempt is seen confirmed, and
\* that attempt is on the chain (force_startup_transaction).
THEOREM ProofIsOne == Spec => []OneProof
<1>1. IInv => OneProof
  <2> SUFFICES ASSUME IInv, NEW a \in proven, NEW b \in sent \cup landed
               PROVE  proven \subseteq landed /\ b <= a
    BY DEF OneProof, Startup!OneProof, IInv, StartupInv, ProofIsLast
  <2>1. proven = {attempt} /\ attempt \in landed /\ attempt \in Nat
        /\ sent \subseteq 1 .. attempt /\ landed \subseteq 1 .. attempt
    BY DEF IInv, StartupInv, AttemptsNumbered, ProofIsLast
  <2> QED
    BY <2>1
<1> QED
  BY <1>1, InitHolds, NextHolds, PTL DEF Spec

\* For every compute budget below 256 instructions, every swap and every amount: a loan is
\* paid back with its fee by an instruction that names its borrow, in either builder
\* (flash_tx_v2.rs, flash_tx.rs).
THEOREM LoansRepaid == Spec => []LoanIsRepaid
<1>1. IInv => LoanIsRepaid
  BY DEF IInv, JobIsDone
<1> QED
  BY <1>1, InitHolds, NextHolds, PTL DEF Spec

\* For every swap, budget, amount, tip and set of lookup tables of at most 256 accounts: the
\* runtime reads the instructions that were meant exactly as long as no table loads a
\* read-only account before another loads a writable one, and every account has the rights
\* it needs, in either builder (flash_tx_v2.rs, flash_tx.rs).
THEOREM LoansReadAsMeant == Spec => []LoanReadsAsMeant
<1>1. IInv => LoanReadsAsMeant
  BY DEF IInv, JobIsDone
<1> QED
  BY <1>1, InitHolds, NextHolds, PTL DEF Spec

\* For every batch, number of submissions, posts and lost answers: no swap runs twice and
\* the chain never has more tips than swaps (submit_live, post_bundle).
THEOREM BundlesPay == Spec => []BundlesPayOnce
<1>1. IInv => BundlesPayOnce
  <2> SUFFICES ASSUME IInv, NEW s \in Bundle!SwapRuns, NEW t \in Bundle!SwapRuns, s.of = t.of
               PROVE  s = t
    BY DEF IInv, BundleInv, BundlesPayOnce, Bundle!SwapsRunOnce
  <2>1. s \in ran /\ t \in ran /\ s.kind = "swap" /\ t.kind = "swap"
    BY DEF Bundle!SwapRuns
  <2>2. SwapOf(s) /\ SwapOf(t)
    BY <2>1 DEF IInv, BundleInv, RanSound
  <2> QED
    BY <2>2 DEF SwapOf
<1> QED
  BY <1>1, InitHolds, NextHolds, PTL DEF Spec
=============================================================================
