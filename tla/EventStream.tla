---------------------------- MODULE EventStream ----------------------------
(***************************************************************************)
(* The transaction streams of crates/ingress/src/helius_ws.rs: connect,    *)
(* subscribe, forward each notification over a bounded channel, reconnect  *)
(* after a pause that doubles.  Helius and Alchemy run the same code; main *)
(* (crates/bot/src/main.rs) chooses one of them when it starts.            *)
(*                                                                         *)
(* An event is only a trigger, so the channel is a count.  The receiver is *)
(* never dropped.                                                          *)
(***************************************************************************)
EXTENDS Naturals

CONSTANTS
  Keys,                        \* providers a key is configured for
  EventCapacity                \* of the channel, 8192 in the code

RECONNECT_BASE_DELAY_MS == 500
RECONNECT_MAX_DELAY_MS == 30000

VARIABLES
  provider,                    \* whose stream was spawned
  link,                        \* the await of connect_and_stream, or the pause after it
  delay,                       \* reconnect_delay_ms
  events                       \* notifications in the channel

vars == <<provider, link, delay, events>>

-----------------------------------------------------------------------------
Init ==
  /\ provider = IF "helius" \in Keys THEN "helius" ELSE "alchemy"
  /\ link = "connecting" /\ delay = RECONNECT_BASE_DELAY_MS
  /\ events = 0

Connect ==
  /\ link = "connecting"
  /\ link' = "up"
  /\ UNCHANGED <<provider, delay, events>>

\* the connection was refused, a subscription or a message failed
Break ==
  /\ link \in {"connecting", "up"}
  /\ link' = "pausing"
  /\ UNCHANGED <<provider, delay, events>>

\* the server closed the connection: the pause starts small again
End ==
  /\ link = "up"
  /\ link' = "pausing"
  /\ delay' = RECONNECT_BASE_DELAY_MS
  /\ UNCHANGED <<provider, events>>

Reconnect ==
  /\ link = "pausing"
  /\ link' = "connecting"
  /\ delay' = IF 2 * delay < RECONNECT_MAX_DELAY_MS THEN 2 * delay ELSE RECONNECT_MAX_DELAY_MS
  /\ UNCHANGED <<provider, events>>

\* a logsNotification or, from Helius, a transactionNotification
Notify ==
  /\ link = "up"
  /\ link' = "sending"
  /\ UNCHANGED <<provider, delay, events>>

\* tx.send waits while the channel is full
Forward ==
  /\ link = "sending"
  /\ events < EventCapacity
  /\ events' = events + 1
  /\ link' = "up"
  /\ UNCHANGED <<provider, delay>>

\* shred_rx.try_recv in the hot loop
TakeEvent ==
  /\ events > 0
  /\ events' = events - 1
  /\ UNCHANGED <<provider, link, delay>>

Socket == Connect \/ Break \/ End \/ Notify

Next == Socket \/ Reconnect \/ Forward \/ TakeEvent

TypeOK ==
  /\ provider \in Keys
  /\ link \in {"connecting", "up", "sending", "pausing"}
  /\ delay \in RECONNECT_BASE_DELAY_MS .. RECONNECT_MAX_DELAY_MS
  /\ events \in 0 .. EventCapacity
=============================================================================
