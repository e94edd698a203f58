----------------------------- MODULE FlashLoanTx -----------------------------
(***************************************************************************)
(* The two builders of an atomic flash loan, crates/jito-handler/src/      *)
(* flash_tx.rs (legacy message, a table written by hand) and               *)
(* flash_tx_v2.rs (v0 message, a table computed from the instructions,     *)
(* with lookup tables), and the plan of crates/strategy/src/solend.rs.     *)
(*                                                                         *)
(* A pubkey is a number, and the order of the numbers is that of the       *)
(* base58 texts, by which the v0 builder sorts.  Signatures, hashes and    *)
(* the derivation of addresses are left out.                               *)
(***************************************************************************)
EXTENDS Integers, Sequences, FiniteSets, SequencesExt

CONSTANTS
  Payer, Solend, MainPool, SolReserve, LiquiditySupply, FeeReceiver,
  Authority, WsolAta, TokenProgram, SysvarInstructions, System, AtaProgram,
  LoanTip

Meta(k, s, w) == [key |-> k, signer |-> s, writable |-> w]
Writes(k) == Meta(k, FALSE, TRUE)
Reads(k) == Meta(k, FALSE, FALSE)

\* data: the discriminator, the lamports and, of a repayment, the index of its borrow
Instruction(program, accounts, data) ==
  [program |-> program, accounts |-> accounts, data |-> data]

\* The first place of k in s, or 0.
Place(s, k) == SelectInSeq(s, LAMBDA x : x = k)

-----------------------------------------------------------------------------
(* What Solend takes.                                                       *)

CeilDiv(a, b) == (a + b - 1) \div b

\* flash_tx_v2.rs
SolendRepayAmount(borrow) == borrow + CeilDiv(borrow * 9, 10000)

\* solend.rs
ComputeFee(borrow) ==
  LET fee == (borrow * 9) \div 10000 IN IF fee < 1 THEN 1 ELSE fee

BuildPlan(borrow) ==
  [borrow |-> borrow, fee |-> ComputeFee(borrow), repay |-> borrow + ComputeFee(borrow),
   index |-> 0]

-----------------------------------------------------------------------------
(* build_atomic_flash_v0: the instructions in the order of the loan.        *)

Borrow(lamports) ==
  Instruction(Solend,
    <<Writes(LiquiditySupply), Writes(WsolAta), Writes(SolReserve), Writes(FeeReceiver),
      Writes(FeeReceiver), Reads(MainPool), Writes(Authority), Reads(TokenProgram),
      Reads(SysvarInstructions)>>,
    [op |-> "borrow", lamports |-> lamports])

Repay(lamports, index) ==
  Instruction(Solend,
    <<Writes(WsolAta), Writes(LiquiditySupply), Writes(SolReserve), Writes(FeeReceiver),
      Writes(FeeReceiver), Reads(MainPool), Writes(Authority), Meta(Payer, TRUE, TRUE),
      Reads(TokenProgram), Reads(SysvarInstructions)>>,
    [op |-> "repay", lamports |-> lamports, index |-> index])

PayTip(lamports) ==
  Instruction(System, <<Meta(Payer, TRUE, TRUE), Writes(LoanTip)>>,
              [op |-> "transfer", lamports |-> lamports])

\* slip: the index of a loan without a compute budget
V0WithIndexZero(budget, swap1, swap2, borrow, repay, tip) ==
  budget \o <<Borrow(borrow)>> \o swap1 \o swap2 \o <<Repay(repay, 0)>>
         \o (IF tip > 0 THEN <<PayTip(tip)>> ELSE << >>)

V0Instructions(budget, swap1, swap2, borrow, repay, tip) ==
  budget \o <<Borrow(borrow)>> \o swap1 \o swap2
         \o <<Repay(repay, Len(budget) % 256)>>
         \o (IF tip > 0 THEN <<PayTip(tip)>> ELSE << >>)

-----------------------------------------------------------------------------
(* build_v0_message_and_sign: the table of accounts.                        *)

Metas(ixs) == UNION {ToSet(ixs[n].accounts) : n \in 1 .. Len(ixs)}

Named(ixs) ==
  {Payer} \cup {ixs[n].program : n \in 1 .. Len(ixs)} \cup {a.key : a \in Metas(ixs)}

Signs(ixs, k) == k = Payer \/ \E a \in Metas(ixs) : a.key = k /\ a.signer

\* slip: an account keeps the rights of its last mention
WritesToLast(ixs, k) ==
  \/ k = Payer
  \/ \E n \in 1 .. Len(ixs) :
        /\ \E a \in ToSet(ixs[n].accounts) : a.key = k /\ a.writable
        /\ \A j \in n + 1 .. Len(ixs) : \A a \in ToSet(ixs[j].accounts) : a.key # k

WritesTo(ixs, k) == k = Payer \/ \E a \in Metas(ixs) : a.key = k /\ a.writable

\* The members of S in the order of their ranks.
InOrder(S, rank(_)) ==
  [i \in 1 .. Cardinality(S) |->
     CHOOSE k \in S : Cardinality({x \in S : rank(x) < rank(k)}) = i - 1]

Sorted(S) == InOrder(S, LAMBDA k : k)

\* tables: the keys each lookup table holds.  alt_reverse keeps the entry that a
\* HashMap's order inserts last: home is one of the tables that hold the key.
Homes(tables) ==
  {h \in [UNION {ToSet(tables[t]) : t \in DOMAIN tables} -> DOMAIN tables] :
      \A k \in DOMAIN h : k \in ToSet(tables[h[k]])}

InTable(ixs, home, t) ==
  {k \in Named(ixs) \cap DOMAIN home : ~Signs(ixs, k) /\ home[k] = t}

Slot(table, k) == CHOOSE i \in 1 .. Len(table) :
                     table[i] = k /\ \A j \in i + 1 .. Len(table) : table[j] # k

BySlot(table, S) == InOrder(S, LAMBDA k : Slot(table, k))

Static(ixs, home) ==
  LET rest == {k \in Named(ixs) \ DOMAIN home : ~Signs(ixs, k)}
      signers == {k \in Named(ixs) \ {Payer} : Signs(ixs, k)}
  IN <<Payer>> \o Sorted({k \in signers : WritesTo(ixs, k)})
               \o Sorted({k \in signers : ~WritesTo(ixs, k)})
               \o Sorted({k \in rest : WritesTo(ixs, k)})
               \o Sorted({k \in rest : ~WritesTo(ixs, k)})

Loads(ixs, tables, home, t) ==
  LET here == InTable(ixs, home, t)
  IN [writable |-> BySlot(tables[t], {k \in here : WritesTo(ixs, k)}),
      readonly |-> BySlot(tables[t], {k \in here : ~WritesTo(ixs, k)})]

UsedTables(ixs, tables, home) ==
  Sorted({t \in DOMAIN tables : InTable(ixs, home, t) # {}})

\* The numbers are given table by table.
Combined(ixs, tables, home) ==
  LET used == UsedTables(ixs, tables, home)
      entry(i) == Loads(ixs, tables, home, used[i])
  IN Static(ixs, home)
       \o FlattenSeq([i \in 1 .. Len(used) |-> entry(i).writable \o entry(i).readonly])

V0Header(ixs, home) ==
  LET static == ToSet(Static(ixs, home)) IN
  [signers |-> Cardinality({k \in static : Signs(ixs, k)}),
   readonlySigned |-> Cardinality({k \in static : Signs(ixs, k) /\ ~WritesTo(ixs, k)}),
   readonly |-> Cardinality({k \in static : ~Signs(ixs, k) /\ ~WritesTo(ixs, k)})]

NumberOf(table, k) == (Place(table, k) - 1) % 256

V0Message(ixs, tables, home) ==
  LET table == Combined(ixs, tables, home)
      used == UsedTables(ixs, tables, home)
  IN [header |-> V0Header(ixs, home),
      static |-> Static(ixs, home),
      lookups |-> [i \in 1 .. Len(used) |-> Loads(ixs, tables, home, used[i])],
      ixs |-> [n \in 1 .. Len(ixs) |->
                 [program |-> NumberOf(table, ixs[n].program),
                  accounts |-> [i \in 1 .. Len(ixs[n].accounts) |->
                                  NumberOf(table, ixs[n].accounts[i].key)],
                  data |-> ixs[n].data]]]

-----------------------------------------------------------------------------
(* build_flash_loan_tx: the table by hand, the programs of the swaps after  *)
(* it, each once.                                                           *)

LegacyBase ==
  <<Meta(Payer, TRUE, TRUE), Writes(LiquiditySupply), Writes(WsolAta), Writes(SolReserve),
    Writes(FeeReceiver), Writes(Authority), Reads(Solend), Reads(TokenProgram),
    Reads(SysvarInstructions), Reads(MainPool), Reads(System), Reads(AtaProgram)>>

\* Each program once, in the order of their first mentions.
Programs(swaps) == InOrder(ToSet(swaps), LAMBDA p : Place(swaps, p))

LegacyMessage(swaps, borrow, repay) ==
  LET programs == Programs(swaps)
      table == LegacyBase \o [i \in 1 .. Len(programs) |-> Reads(programs[i])]
      count(Test(_)) == Cardinality({i \in 1 .. Len(table) : Test(table[i])})
  IN [header |-> [signers |-> count(LAMBDA a : a.signer),
                  readonlySigned |-> count(LAMBDA a : a.signer /\ ~a.writable),
                  readonly |-> count(LAMBDA a : ~a.signer /\ ~a.writable)],
      static |-> [i \in 1 .. Len(table) |-> table[i].key],
      lookups |-> << >>,
      ixs |-> << [program |-> 6, accounts |-> <<1, 2, 3, 4, 4, 9, 5, 7, 8>>,
                  data |-> [op |-> "borrow", lamports |-> borrow]] >>
              \o [i \in 1 .. Len(swaps) |->
                    [program |-> 11 + Place(programs, swaps[i]),
                     accounts |-> <<0, 2>>, data |-> [op |-> "swap"]]]
              \o << [program |-> 6, accounts |-> <<2, 1, 3, 4, 4, 9, 5, 0, 7, 8>>,
                     data |-> [op |-> "repay", lamports |-> repay, index |-> 0]] >>]

\* The same swaps for the other builder: the operator and its wSOL account.
LegacySwaps(swaps) ==
  [i \in 1 .. Len(swaps) |->
     Instruction(swaps[i], <<Meta(Payer, TRUE, TRUE), Writes(WsolAta)>>, [op |-> "swap"])]

-----------------------------------------------------------------------------
(* What the runtime reads: static keys, then what every table loads to be   *)
(* written, then what every table loads to be read.                         *)

RuntimeTable(msg) ==
  msg.static \o FlattenSeq([i \in 1 .. Len(msg.lookups) |-> msg.lookups[i].writable])
             \o FlattenSeq([i \in 1 .. Len(msg.lookups) |-> msg.lookups[i].readonly])

Writable(msg, i) ==
  LET loaded == Len(FlattenSeq([n \in 1 .. Len(msg.lookups) |-> msg.lookups[n].writable]))
      size == Len(msg.static)
  IN IF i < size
     THEN IF i < msg.header.signers THEN i < msg.header.signers - msg.header.readonlySigned
                                    ELSE i < size - msg.header.readonly
     ELSE i < size + loaded

Read(msg) ==
  LET key(i) == RuntimeTable(msg)[i + 1]
  IN [n \in 1 .. Len(msg.ixs) |->
        [program |-> key(msg.ixs[n].program),
         accounts |-> [i \in 1 .. Len(msg.ixs[n].accounts) |->
                         key(msg.ixs[n].accounts[i])],
         data |-> msg.ixs[n].data]]

Meant(ixs) ==
  [n \in 1 .. Len(ixs) |->
     [program |-> ixs[n].program,
      accounts |-> [i \in 1 .. Len(ixs[n].accounts) |-> ixs[n].accounts[i].key],
      data |-> ixs[n].data]]

\* Each account is writable exactly when it pays or an instruction wants it so.
RightsKept(ixs, msg) ==
  \A i \in 0 .. Len(RuntimeTable(msg)) - 1 :
     LET k == RuntimeTable(msg)[i + 1]
         wanted == \E a \in Metas(ixs) : a.key = k /\ a.writable
     IN Writable(msg, i) <=> k = Payer \/ wanted

\* Numbering table by table agrees with the runtime as long as no table loads a
\* read-only address before another loads a writable one.
Aligned(msg) ==
  \A i, j \in 1 .. Len(msg.lookups) :
     i < j => msg.lookups[i].readonly = << >> \/ msg.lookups[j].writable = << >>

\* Every repayment names the borrow it repays, and nothing borrowed is left over.
Paired(ixs) ==
  LET at(op) == {n \in 1 .. Len(ixs) : ixs[n].data.op = op} IN
  /\ Cardinality(at("borrow")) = 1 /\ Cardinality(at("repay")) = 1
  /\ \E b \in at("borrow"), r \in at("repay") :
        /\ b < r /\ ixs[r].data.index = b - 1
        /\ (ixs[r].data.lamports - ixs[b].data.lamports) * 10000
             >= ixs[b].data.lamports * 9
=============================================================================
