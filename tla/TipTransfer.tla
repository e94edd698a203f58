----------------------------- MODULE TipTransfer -----------------------------
(***************************************************************************)
(* crates/jito-handler/src/transaction.rs: a transaction that Jupiter      *)
(* Ultra ordered is taken apart, given a transfer of the Jito tip, put     *)
(* together again and signed.                                              *)
(*                                                                         *)
(* A compiled message names accounts by number, from zero: first the       *)
(* static keys (signers, writable, read-only), then the addresses that     *)
(* the runtime loads from lookup tables.  The tip's two accounts go into   *)
(* the static keys, so every number after them changes its meaning.        *)
(* An instruction is the sequence of its numbers, the program first; its   *)
(* data is copied and left out.                                            *)
(***************************************************************************)
EXTENDS Integers, Sequences

CONSTANTS
  Pubkeys,
  Operator, TipAccount, SystemProgram,
  MaxIndex                     \* u8::MAX

Addresses == [key : Pubkeys, writable : BOOLEAN]

\* What attach_jito_tip_and_sign can be given: the numbers name accounts, only a
\* versioned message loads addresses, and no account is listed twice.
WellFormed(m) ==
  /\ m.sigs \in Nat /\ m.signers \in Nat
  /\ m.size \in Nat \ {0} /\ m.readonly \in Nat
  /\ m.keys \in [0 .. m.size - 1 -> Pubkeys]
  /\ \A i, j \in 0 .. m.size - 1 : m.keys[i] = m.keys[j] => i = j
  /\ m.loaded \in Seq(Addresses)
  /\ m.version = "legacy" => m.loaded = << >>
  /\ m.ixs \in Seq(Seq(0 .. m.size + Len(m.loaded) - 1))

\* What the runtime makes of the number i of message m.
KeyOf(m, i) == IF i < m.size THEN m.keys[i] ELSE m.loaded[i - m.size + 1].key

IsWritable(m, i) ==
  IF i < m.size THEN i < m.size - m.readonly ELSE m.loaded[i - m.size + 1].writable

-----------------------------------------------------------------------------

\* Behind the last writable key that the message itself holds.
InsertPos(m) == m.size - m.readonly

WithTip(m) ==
  [i \in 0 .. m.size |-> IF i < InsertPos(m) THEN m.keys[i]
                         ELSE IF i = InsertPos(m) THEN TipAccount ELSE m.keys[i - 1]]

HasSystem(m) == \E i \in 0 .. m.size : WithTip(m)[i] = SystemProgram

SystemIndex(m) ==
  IF HasSystem(m)
  THEN CHOOSE i \in 0 .. m.size : /\ WithTip(m)[i] = SystemProgram
                                  /\ \A j \in 0 .. i - 1 : WithTip(m)[j] # SystemProgram
  ELSE m.size + 1

\* How many static keys the message gains.
Gained(m) == IF HasSystem(m) THEN 1 ELSE 2

\* slip: the key itself counts as before the insertion
AdjustAfter(m, i) == IF i > InsertPos(m) THEN i + 1 ELSE i

AdjustIndex(m, i) == IF i >= InsertPos(m) THEN i + 1 ELSE i

\* One signature slot, one signer, the operator pays, and every number still fits a byte.
Signable(m, tip) ==
  /\ tip > 0
  /\ m.sigs = 1 /\ m.signers = 1
  /\ m.version \in {"legacy", "v0"}
  /\ m.keys[0] = Operator
  /\ m.readonly <= m.size - m.signers
  /\ InsertPos(m) <= MaxIndex /\ SystemIndex(m) <= MaxIndex
  /\ m.readonly + Gained(m) - 1 <= MaxIndex
  /\ \A n \in 1 .. Len(m.ixs) : \A k \in 1 .. Len(m.ixs[n]) :
        AdjustIndex(m, m.ixs[n][k]) <= MaxIndex
  /\ m.version = "legacy" => ~m.trailing

Adjusted(m) ==
  [n \in 1 .. Len(m.ixs) |-> [k \in 1 .. Len(m.ixs[n]) |-> AdjustIndex(m, m.ixs[n][k])]]

TipInstruction(m) == <<SystemIndex(m), 0, InsertPos(m)>>

\* attach_jito_tip_and_sign, the message it signs
AttachTip(m) ==
  [sigs |-> m.sigs, signers |-> m.signers, version |-> m.version, trailing |-> m.trailing,
   loaded |-> m.loaded,
   size |-> m.size + Gained(m),
   readonly |-> m.readonly + Gained(m) - 1,
   keys |-> [i \in 0 .. m.size + Gained(m) - 1 |->
               IF i <= m.size THEN WithTip(m)[i] ELSE SystemProgram],
   ixs |-> Append(Adjusted(m), TipInstruction(m))]

-----------------------------------------------------------------------------

\* The accounts an instruction acts on, the program first.
Meaning(m, ix) == [k \in 1 .. Len(ix) |-> [key |-> KeyOf(m, ix[k]),
                                           writable |-> IsWritable(m, ix[k])]]

\* A number of a loaded address moves by two when both of the tip's accounts are new.
Shifted(m) ==
  /\ ~HasSystem(m)
  /\ \E n \in 1 .. Len(m.ixs) : \E k \in 1 .. Len(m.ixs[n]) : m.ixs[n][k] >= m.size

SameInstructions(m, t) ==
  \A n \in 1 .. Len(m.ixs) : Meaning(t, t.ixs[n]) = Meaning(m, m.ixs[n])

\* The last instruction is the transfer, between accounts it may debit and credit.
PaysTip(t) ==
  LET ix == t.ixs[Len(t.ixs)] IN
  /\ [k \in 1 .. Len(ix) |-> KeyOf(t, ix[k])] = <<SystemProgram, Operator, TipAccount>>
  /\ IsWritable(t, ix[2]) /\ IsWritable(t, ix[3])
=============================================================================
