----------------------------- MODULE RichPresence -----------------------------
(***************************************************************************)
(* What the Updater promises the rest of the program, without its timers,  *)
(* tickers and bookkeeping: there is at most one card to defend, and the   *)
(* connection to Discord carries that card or nothing at all.  Defending   *)
(* the card means sending it again in a form that differs from the last    *)
(* one, because Discord ignores a repetition (docs/adr/0001).              *)
(***************************************************************************)
CONSTANTS Card,     \* the rich-presence payloads the program can render
          NoCard    \* nothing to show

VARIABLES card,     \* the card being defended, or NoCard
          carried   \* the last payload the current connection was sent, or NoPayload

vars == <<card, carried>>

\* A payload is a card in one of its two spellings: as rendered, or with the
\* zero-width space that makes Discord treat it as new.
Payload == [card : Card, zws : BOOLEAN]
NoPayload == [card |-> NoCard, zws |-> FALSE]
Spellings(c) == {p \in Payload : p.card = c}

Init ==
  /\ card = NoCard
  /\ carried = NoPayload

\* A new card replaces whatever was there.
Show(c) ==
  /\ card' = c
  /\ carried' \in Spellings(c)

\* Nothing is defended any more.  When the connection belongs to another
\* application ID the clear does not reach Discord, and the connection keeps
\* what it carries until it is closed.
Clear ==
  /\ card' = NoCard
  /\ carried' \in {carried, NoPayload}

\* The card on show is sent again, never in the spelling Discord already has.
Defend ==
  /\ card # NoCard
  /\ carried' \in Spellings(card) \ {carried}
  /\ UNCHANGED card

\* The connection is gone, or a new one has carried nothing yet.
Lose ==
  /\ carried' = NoPayload
  /\ UNCHANGED card

Next ==
  \/ \E c \in Card : Show(c)
  \/ Clear
  \/ Defend
  \/ Lose

Spec == Init /\ [][Next]_vars
===============================================================================
