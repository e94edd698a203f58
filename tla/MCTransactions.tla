--------------------------- MODULE MCTransactions ---------------------------
(***************************************************************************)
(* Small inputs for every signer: messages of one to three accounts with   *)
(* up to two loaded addresses; loans with up to two lookup tables, which   *)
(* may share an address; batches with payloads that cannot be signed.      *)
(***************************************************************************)
EXTENDS Transactions

CONSTANTS op, tip, sys, other

MCBalances == {3, 6, 7}

\* one instruction, its program and one account
MCMessage(keys, readonly, loaded, version) ==
  {[sigs |-> s, signers |-> 1, readonly |-> readonly, size |-> Len(keys),
    keys |-> [i \in 0 .. Len(keys) - 1 |-> keys[i + 1]],
    loaded |-> loaded, version |-> version, trailing |-> FALSE,
    ixs |-> << <<p, a>> >>] :
     s \in {1}, p, a \in 0 .. Len(keys) + Len(loaded) - 1}

MCKeys ==
  {<<op>>, <<other>>} \cup {<<op, k>> : k \in {sys, tip, other}}
    \cup {<<op, sys, tip>>, <<op, tip, other>>, <<op, other, sys>>, <<op, other, tip>>}

MCLoaded == LET a(k, w) == [key |-> k, writable |-> w]
            IN {<< >>, <<a(sys, FALSE)>>, <<a(other, TRUE)>>,
                <<a(tip, TRUE), a(other, FALSE)>>}

MCMessages ==
  UNION {MCMessage(k, r, l, "v0") : k \in MCKeys, r \in 0 .. 2, l \in MCLoaded}
    \cup UNION {MCMessage(k, r, << >>, "legacy") : k \in MCKeys, r \in 0 .. 2}

\* Pubkeys 1 to 13 are those of the builders, 14 and 15 programs, 16 to 18 accounts.
MCSwap(program, metas) ==
  <<[program |-> program, accounts |-> metas, data |-> [op |-> "swap"]]>>

MCSwaps == {MCSwap(14, <<Meta(16, FALSE, TRUE), Meta(17, FALSE, FALSE)>>),
            MCSwap(15, <<Meta(17, FALSE, TRUE)>>),
            MCSwap(15, <<Meta(18, TRUE, FALSE), Meta(16, FALSE, FALSE)>>)}

MCBudgets == {<< >>, <<[program |-> 19, accounts |-> << >>, data |-> [op |-> "budget"]]>>}

\* 3 is the main pool, 5 the liquidity supply, 18 signs and may not be loaded
MCTables == {<< >>, <<<<16, 18, 17>>>>, <<<<5, 16>>, <<4, 17>>>>,
             <<<<17, 3, 5>>, <<16, 17, 14>>>>}

MCLamports == {1, 2000, 12345}

\* a payload: one slot, none, two with room for one, one behind a version byte, nothing
MCPayload(name, head, length) == [name |-> name, head |-> head, length |-> length]

MCBatches ==
  LET a == MCPayload("a", <<1, 0, 0>>, 80)
      b == MCPayload("b", <<129, 1, 0>>, 80)
      noSlot == MCPayload("no slot", <<0, 1, 0>>, 80)
      short == MCPayload("short", <<2, 0, 0>>, 100)
      long == MCPayload("long", <<130, 0, 0>>, 50)
      none == MCPayload("none", << >>, 0)
  IN {<<a, b>>, <<none, short, a>>, <<noSlot, long>>, <<a, none, b, noSlot>>}
=============================================================================
