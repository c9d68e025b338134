-------------------------------- MODULE Updater --------------------------------
(***************************************************************************)
(* internal/discord/updater.go: the debounced, self-defending writer of    *)
(* Discord Rich Presence (docs/adr/0001), above a Discord client reduced   *)
(* to what the Updater sees of it.                                         *)
(*                                                                         *)
(* Every operation of the Updater runs under u.mu, so each is one action.  *)
(* What escapes the mutex is the debounce timer: a time.AfterFunc that has *)
(* fired is a goroutine queued on u.mu which Timer.Stop no longer reaches. *)
(***************************************************************************)
EXTENDS Integers

CONSTANTS
  State,        \* the game states the callers pass in
  Config,       \* the display configurations the store can hold
  Card,         \* the payloads MapStateToPresence can render
  Details,      \* the Details lines of those payloads; cards may share one
  NoState, NoCard,
  Render,       \* MapStateToPresence: state, then configuration, to card
  Hidden,       \* ShouldClearPresence: the pairs for which it holds
  DetailsOf,    \* the Details line of a card
  EmptyDetails, \* the empty string lastSentDetails starts as
  BurstCount,   \* reclaimBurstCount
  MaxFired      \* bound: goroutines of one state that wait on u.mu at once

ASSUME ConstantsAssumption ==
  /\ NoState \notin State
  /\ NoCard \notin Card
  /\ Render \in [State -> [Config -> Card]]
  /\ Hidden \subseteq State \X Config
  /\ DetailsOf \in [Card -> Details]
  /\ EmptyDetails \in Details
  /\ BurstCount \in Nat
  /\ MaxFired \in Nat

VARIABLES
  previousState,    \* last state performed, what DelayUpdate compares with
  previousRPCData,  \* the card being defended, NoCard for nil
  heartbeating,
  reclaimRemaining,
  tickerInterval,   \* the interval the ticker was last Reset to
  lastSentDetails,  \* the Details bytes of the last payload sent
  lastSent,         \* what LastSent() reports to the GUI
  timer,            \* the state captured by the armed debounce timer
  fired,            \* for each state, goroutines that fired and wait on u.mu
  cfg,              \* store.Load()
  link,             \* the client's connection, as the Updater sees it
  wire              \* the last payload the current connection accepted

sentVars == <<previousRPCData, heartbeating, reclaimRemaining, tickerInterval,
              lastSentDetails, lastSent>>
clientVars == <<link, wire>>
vars == <<previousState, sentVars, timer, fired, cfg, clientVars>>

--------------------------------------------------------------------------------
(* Payloads.  The zero-width space is a flag: a card has two spellings.    *)

Payload == [card : Card, zws : BOOLEAN]
NoPayload == [card |-> NoCard, zws |-> FALSE]
AsRendered(c) == [card |-> c, zws |-> FALSE]

DetailsBytes(p) == [line |-> DetailsOf[p.card], zws |-> p.zws]

\* The heartbeat's spelling of the card, one that the last send did not use.
ResendAsRendered == AsRendered(previousRPCData)

Resend ==
  LET p == AsRendered(previousRPCData)
  IN  IF DetailsBytes(p) = lastSentDetails THEN [p EXCEPT !.zws = TRUE] ELSE p

--------------------------------------------------------------------------------
(* The Discord client.  "live": connected under the configured application *)
(* ID.  "stale": a live pipe opened under another ID, which IsConnected    *)
(* denies and UpdatePresence still writes to.  "down": no connection.      *)

IsConnected == link = "live"

SendSucceeds(p) ==
  /\ link # "down"
  /\ wire' = p
  /\ UNCHANGED link

\* No connection, or the pipe failed and setActivity dropped it.
SendFails ==
  /\ link' = "down"
  /\ wire' = NoPayload

\* Client.ClearPresence, whose error every caller ignores.
ClientClear ==
  \/ ~IsConnected /\ UNCHANGED clientVars
  \/ IsConnected /\ SendSucceeds(NoPayload)
  \/ IsConnected /\ SendFails

--------------------------------------------------------------------------------
(* The bookkeeping shared by the operations.                               *)

recordSent(c) == lastSent' = [data |-> c, cleared |-> FALSE]
recordCleared == lastSent' = [data |-> NoCard, cleared |-> TRUE]

startReclaimBurst ==
  /\ heartbeating' = TRUE
  /\ reclaimRemaining' = BurstCount
  /\ tickerInterval' = IF BurstCount > 0 THEN "reclaim" ELSE tickerInterval

stopHeartbeatKeepsTicker ==
  /\ heartbeating' = FALSE
  /\ reclaimRemaining' = 0
  /\ UNCHANGED tickerInterval

stopHeartbeat ==
  /\ heartbeating' = FALSE
  /\ reclaimRemaining' = 0
  /\ tickerInterval' = IF reclaimRemaining > 0 THEN "heartbeat" ELSE tickerInterval

\* As Defended, forgetting to replace the payload that is compared and resent.
DefendedKeepsOldCard(c) ==
  /\ previousRPCData' = IF heartbeating THEN previousRPCData ELSE c
  /\ lastSentDetails' = DetailsBytes(AsRendered(c))
  /\ recordSent(c)
  /\ startReclaimBurst

\* A payload Discord accepted becomes the card to defend.
Defended(c) ==
  /\ previousRPCData' = c
  /\ lastSentDetails' = DetailsBytes(AsRendered(c))
  /\ recordSent(c)
  /\ startReclaimBurst

\* Nothing is left to defend.  lastSentDetails keeps its old value.
Undefended ==
  /\ previousRPCData' = NoCard
  /\ recordCleared
  /\ stopHeartbeat
  /\ UNCHANGED lastSentDetails

--------------------------------------------------------------------------------
(* The operations.                                                         *)

Init ==
  /\ previousState = NoState
  /\ previousRPCData = NoCard
  /\ heartbeating = FALSE
  /\ reclaimRemaining = 0
  /\ tickerInterval = "heartbeat"
  /\ lastSentDetails = [line |-> EmptyDetails, zws |-> FALSE]
  /\ lastSent = [data |-> NoCard, cleared |-> FALSE]
  /\ timer = NoState
  /\ fired = [s \in State |-> 0]
  /\ cfg \in Config
  /\ link = "down"
  /\ wire = NoPayload

\* The caller's request either matches the state already performed, and is
\* dropped with the pending timer left alone, or re-arms the timer.
DelayUpdate(s) ==
  /\ timer' = IF previousState = s THEN timer ELSE s
  /\ UNCHANGED <<previousState, sentVars, fired, cfg, clientVars>>

TimerFires(s) ==
  /\ timer = s
  /\ fired[s] < MaxFired
  /\ timer' = NoState
  /\ fired' = [fired EXCEPT ![s] = @ + 1]
  /\ UNCHANGED <<previousState, sentVars, cfg, clientVars>>

executeUpdate(s) ==
  /\ fired[s] > 0
  /\ fired' = [fired EXCEPT ![s] = @ - 1]
  /\ previousState' = s
  /\ \/ /\ <<s, cfg>> \in Hidden
        /\ ClientClear
        /\ Undefended
     \/ /\ <<s, cfg>> \notin Hidden
        /\ Render[s][cfg] = previousRPCData
        /\ UNCHANGED <<sentVars, clientVars>>
     \/ /\ <<s, cfg>> \notin Hidden
        /\ Render[s][cfg] # previousRPCData
        /\ \/ SendSucceeds(AsRendered(Render[s][cfg])) /\ Defended(Render[s][cfg])
           \/ SendFails /\ UNCHANGED sentVars
  /\ UNCHANGED <<timer, cfg>>

\* A failed send stores nothing, not even the state.
ImmediateUpdate(s) ==
  /\ timer' = NoState
  /\ \/ /\ <<s, cfg>> \in Hidden
        /\ ClientClear
        /\ Undefended
        /\ previousState' = s
     \/ /\ <<s, cfg>> \notin Hidden
        /\ SendSucceeds(AsRendered(Render[s][cfg]))
        /\ Defended(Render[s][cfg])
        /\ previousState' = s
     \/ /\ <<s, cfg>> \notin Hidden
        /\ SendFails
        /\ UNCHANGED <<sentVars, previousState>>
  /\ UNCHANGED <<fired, cfg>>

ClearPresence ==
  /\ timer' = NoState
  /\ previousState' = NoState
  /\ ClientClear
  /\ Undefended
  /\ UNCHANGED <<fired, cfg>>

\* A tick first counts the reclaim burst down, then resends the card.
BurstCountsPastZero ==
  /\ reclaimRemaining' = reclaimRemaining - 1
  /\ tickerInterval' = IF reclaimRemaining = 1 THEN "heartbeat" ELSE tickerInterval

BurstAdvances ==
  /\ reclaimRemaining' = IF reclaimRemaining > 0 THEN reclaimRemaining - 1 ELSE 0
  /\ tickerInterval' = IF reclaimRemaining = 1 THEN "heartbeat" ELSE tickerInterval

WorthDefendingInBurst == heartbeating /\ previousRPCData # NoCard /\ reclaimRemaining > 0

WorthDefending == heartbeating /\ previousRPCData # NoCard

\* The resend records the card as rendered, not the spelling it was sent in.
heartbeat ==
  /\ BurstAdvances
  /\ \/ /\ ~(WorthDefending /\ IsConnected)
        /\ UNCHANGED <<lastSentDetails, lastSent, clientVars>>
     \/ /\ WorthDefending /\ IsConnected
        /\ SendSucceeds(Resend)
        /\ lastSentDetails' = DetailsBytes(Resend)
        /\ recordSent(previousRPCData)
     \/ /\ WorthDefending /\ IsConnected
        /\ SendFails
        /\ UNCHANGED <<lastSentDetails, lastSent>>
  /\ UNCHANGED <<previousState, previousRPCData, heartbeating, timer, fired, cfg>>

--------------------------------------------------------------------------------
(* The environment: the settings page and the Discord supervisor.          *)

updaterVars == <<previousState, sentVars, timer, fired>>

SetConfig(c) ==
  /\ cfg' = c
  /\ UNCHANGED <<updaterVars, clientVars>>

\* Connect reads the application ID before it dials, so the setting may have
\* moved on by the time the connection is up.
Connect ==
  /\ link = "down"
  /\ link' \in {"live", "stale"}
  /\ UNCHANGED <<updaterVars, cfg, wire>>

Disconnect ==
  /\ link # "down"
  /\ SendFails
  /\ UNCHANGED <<updaterVars, cfg>>

\* The application ID in the settings changes, or changes back.
AppIDChanges ==
  /\ link # "down"
  /\ link' = IF link = "live" THEN "stale" ELSE "live"
  /\ UNCHANGED <<updaterVars, cfg, wire>>

Next ==
  \/ \E s \in State : \/ DelayUpdate(s)
                      \/ TimerFires(s)
                      \/ executeUpdate(s)
                      \/ ImmediateUpdate(s)
  \/ ClearPresence
  \/ heartbeat
  \/ \E c \in Config : SetConfig(c)
  \/ Connect
  \/ Disconnect
  \/ AppIDChanges

\* The only fairness the properties below need: Updater.Run keeps receiving
\* from its ticker.
Spec == Init /\ [][Next]_vars /\ WF_vars(heartbeat)

--------------------------------------------------------------------------------
(* Properties.                                                             *)

\* Every variable stays in its range; in particular the burst countdown
\* never runs below zero, whatever mix of clears, sends and ticks occurs.
TypeOK ==
  /\ previousState \in State \cup {NoState}
  /\ previousRPCData \in Card \cup {NoCard}
  /\ heartbeating \in BOOLEAN
  /\ reclaimRemaining \in 0..BurstCount
  /\ tickerInterval \in {"heartbeat", "reclaim"}
  /\ lastSentDetails \in [line : Details, zws : BOOLEAN]
  /\ lastSent \in [data : Card \cup {NoCard}, cleared : BOOLEAN]
  /\ timer \in State \cup {NoState}
  /\ fired \in [State -> 0..MaxFired]
  /\ cfg \in Config
  /\ link \in {"down", "live", "stale"}
  /\ wire \in Payload \cup {NoPayload}

\* The ticker runs at the reclaim cadence exactly while burst ticks remain.
\* The countdown and the cadence are written by four operations; one that
\* forgets the ticker leaves a 750 ms loop running for good, or a burst that
\* goes out at the slow cadence (startReclaimBurst, stopHeartbeat, heartbeat).
BurstCadence == (tickerInterval = "reclaim") <=> (reclaimRemaining > 0)

\* What is defended, what the GUI preview is told and what the connection
\* carries are the same card: the heartbeat never resends a card that was
\* replaced or cleared, and LastSent never reports another one.  After a
\* clear a connection of another application ID may still carry the old
\* card, and nothing is defended then.
DefendsWhatItSent ==
  /\ heartbeating <=> previousRPCData # NoCard
  /\ lastSent.data = previousRPCData
  /\ (heartbeating /\ wire # NoPayload) => wire.card = previousRPCData

\* ADR-0001: a tick on a live connection with a card to defend either changes
\* what the connection carries or finds the pipe broken.  It never repeats
\* the spelling Discord already has, which Discord would ignore.
HeartbeatNeverRepeats ==
  [][(heartbeat /\ WorthDefending /\ IsConnected) =>
       wire' # wire \/ link' = "down"]_vars

\* ADR-0001: while a card is up and the connection holds, resends never stop,
\* also after the burst has settled and whatever the callers do meanwhile.
CardIsDefended ==
  <>[](heartbeating /\ IsConnected) => []<><<wire' # wire>>_vars

\* The Updater implements the card that is shown, defended and cleared.
Presence == INSTANCE RichPresence WITH card <- previousRPCData, carried <- wire
PresenceSpec == Presence!Spec
================================================================================
