----------------------------- MODULE UpdaterProofs -----------------------------
(***************************************************************************)
(* Updater for every set of states, configurations and cards, every        *)
(* rendering of them and every burst length: the type invariant, the two   *)
(* safety invariants, the resend property and the refinement.              *)
(***************************************************************************)
EXTENDS Updater, TLAPS

\* A card is never the absent card, and a payload never the absent payload.
LEMMA CardsArePayloads ==
  ASSUME NEW c \in Card
  PROVE  /\ AsRendered(c) \in Payload
         /\ AsRendered(c).card = c
         /\ AsRendered(c) # NoPayload
         /\ DetailsBytes(AsRendered(c)) \in [line : Details, zws : BOOLEAN]
  BY ConstantsAssumption DEF AsRendered, Payload, NoPayload, DetailsBytes

\* The heartbeat's payload spells the defended card, in other bytes than the
\* last one sent.
LEMMA ResendSpellsTheCard ==
  ASSUME previousRPCData \in Card
  PROVE  /\ Resend \in Payload
         /\ Resend.card = previousRPCData
         /\ Resend # NoPayload
         /\ DetailsBytes(Resend) \in [line : Details, zws : BOOLEAN]
         /\ DetailsBytes(Resend) # lastSentDetails
<1> DEFINE p == AsRendered(previousRPCData)
           q == [card |-> previousRPCData, zws |-> TRUE]
<1>1. /\ DetailsBytes(p) = [line |-> DetailsOf[previousRPCData], zws |-> FALSE]
      /\ DetailsBytes(q) = [line |-> DetailsOf[previousRPCData], zws |-> TRUE]
      /\ DetailsBytes(p) # DetailsBytes(q)
  BY DEF DetailsBytes, AsRendered
<1>2. /\ p \in Payload /\ q \in Payload
      /\ p.card = previousRPCData /\ q.card = previousRPCData
      /\ p # NoPayload /\ q # NoPayload
  BY ConstantsAssumption DEF AsRendered, Payload, NoPayload
<1>3. /\ DetailsBytes(p) \in [line : Details, zws : BOOLEAN]
      /\ DetailsBytes(q) \in [line : Details, zws : BOOLEAN]
  <2>1. DetailsOf[previousRPCData] \in Details
    BY ConstantsAssumption
  <2> QED
    BY <2>1 DEF DetailsBytes, AsRendered
<1>4. CASE DetailsBytes(p) = lastSentDetails
  <2>1. Resend = q
    BY <1>4 DEF Resend, AsRendered
  <2> QED
    BY <1>1, <1>2, <1>3, <1>4, <2>1
<1>5. CASE DetailsBytes(p) # lastSentDetails
  <2>1. Resend = p
    BY <1>5 DEF Resend
  <2> QED
    BY <1>2, <1>3, <1>5, <2>1
<1> QED
  BY <1>4, <1>5

--------------------------------------------------------------------------------
(* Type correctness.                                                       *)

\* The types of what Defended and Undefended write.
SentTypeOK ==
  /\ previousRPCData \in Card \cup {NoCard}
  /\ heartbeating \in BOOLEAN
  /\ reclaimRemaining \in 0..BurstCount
  /\ tickerInterval \in {"heartbeat", "reclaim"}
  /\ lastSentDetails \in [line : Details, zws : BOOLEAN]
  /\ lastSent \in [data : Card \cup {NoCard}, cleared : BOOLEAN]

ClientTypeOK ==
  /\ link \in {"down", "live", "stale"}
  /\ wire \in Payload \cup {NoPayload}

LEMMA DefendedTypes ==
  ASSUME SentTypeOK, NEW c \in Card, Defended(c)
  PROVE  SentTypeOK'
<1>1. DetailsBytes(AsRendered(c)) \in [line : Details, zws : BOOLEAN]
  BY CardsArePayloads
<1> QED
  BY <1>1, ConstantsAssumption
     DEF SentTypeOK, Defended, recordSent, startReclaimBurst

LEMMA UndefendedTypes ==
  ASSUME SentTypeOK, Undefended
  PROVE  SentTypeOK'
<1>1. lastSent' \in [data : Card \cup {NoCard}, cleared : BOOLEAN]
  BY DEF Undefended, recordCleared
<1>2. /\ reclaimRemaining' \in 0..BurstCount
      /\ tickerInterval' \in {"heartbeat", "reclaim"}
  BY ConstantsAssumption DEF SentTypeOK, Undefended, stopHeartbeat
<1> QED
  BY <1>1, <1>2 DEF SentTypeOK, Undefended, stopHeartbeat

LEMMA ClientTypes ==
  ASSUME ClientTypeOK
  PROVE  /\ SendFails => ClientTypeOK'
         /\ ClientClear => ClientTypeOK'
         /\ \A p \in Payload : SendSucceeds(p) => ClientTypeOK'
  BY DEF ClientTypeOK, SendFails, ClientClear, SendSucceeds, clientVars

LEMMA TypeStep ==
  ASSUME TypeOK, [Next]_vars
  PROVE  TypeOK'
<1> USE DEF TypeOK
<1>0. SentTypeOK /\ ClientTypeOK
  BY DEF SentTypeOK, ClientTypeOK
<1>1. ASSUME NEW s \in State, DelayUpdate(s)
      PROVE  TypeOK'
  BY <1>1 DEF DelayUpdate, sentVars, clientVars
<1>2. ASSUME NEW s \in State, TimerFires(s)
      PROVE  TypeOK'
  <2>1. fired' \in [State -> 0..MaxFired]
    BY <1>2, ConstantsAssumption DEF TimerFires
  <2> QED
    BY <1>2, <2>1 DEF TimerFires, sentVars, clientVars
<1>3. ASSUME NEW s \in State, executeUpdate(s)
      PROVE  TypeOK'
  <2>1. /\ fired' \in [State -> 0..MaxFired]
        /\ previousState' \in State \cup {NoState}
        /\ timer' = timer /\ cfg' = cfg
    <3>1. fired[s] - 1 \in 0..MaxFired
      BY <1>3, ConstantsAssumption DEF executeUpdate
    <3> QED
      BY <1>3, <3>1 DEF executeUpdate
  <2>2. Render[s][cfg] \in Card
    BY ConstantsAssumption
  <2>3. SentTypeOK' /\ ClientTypeOK'
    <3>1. CASE ClientClear /\ Undefended
      BY <1>0, <3>1, UndefendedTypes, ClientTypes
    <3>2. CASE UNCHANGED <<sentVars, clientVars>>
      BY <1>0, <3>2 DEF SentTypeOK, ClientTypeOK, sentVars, clientVars
    <3>3. CASE SendSucceeds(AsRendered(Render[s][cfg])) /\ Defended(Render[s][cfg])
      BY <1>0, <2>2, <3>3, DefendedTypes, ClientTypes, CardsArePayloads
    <3>4. CASE SendFails /\ UNCHANGED sentVars
      <4>1. SentTypeOK'
        BY <1>0, <3>4 DEF SentTypeOK, sentVars
      <4> QED
        BY <1>0, <3>4, <4>1, ClientTypes
    <3> QED
      BY <1>3, <3>1, <3>2, <3>3, <3>4 DEF executeUpdate
  <2> QED
    BY <2>1, <2>3 DEF SentTypeOK, ClientTypeOK
<1>4. ASSUME NEW s \in State, ImmediateUpdate(s)
      PROVE  TypeOK'
  <2>1. /\ previousState' \in State \cup {NoState}
        /\ timer' = NoState /\ fired' = fired /\ cfg' = cfg
    BY <1>4 DEF ImmediateUpdate
  <2>2. Render[s][cfg] \in Card
    BY ConstantsAssumption
  <2>3. SentTypeOK' /\ ClientTypeOK'
    <3>1. CASE ClientClear /\ Undefended
      BY <1>0, <3>1, UndefendedTypes, ClientTypes
    <3>2. CASE SendSucceeds(AsRendered(Render[s][cfg])) /\ Defended(Render[s][cfg])
      BY <1>0, <2>2, <3>2, DefendedTypes, ClientTypes, CardsArePayloads
    <3>3. CASE SendFails /\ UNCHANGED <<sentVars, previousState>>
      <4>1. SentTypeOK'
        BY <1>0, <3>3 DEF SentTypeOK, sentVars
      <4> QED
        BY <1>0, <3>3, <4>1, ClientTypes
    <3> QED
      BY <1>4, <3>1, <3>2, <3>3 DEF ImmediateUpdate
  <2> QED
    BY <2>1, <2>3 DEF SentTypeOK, ClientTypeOK
<1>5. CASE ClearPresence
  <2>1. SentTypeOK' /\ ClientTypeOK'
    BY <1>0, <1>5, UndefendedTypes, ClientTypes DEF ClearPresence
  <2> QED
    BY <1>5, <2>1 DEF ClearPresence, SentTypeOK, ClientTypeOK
<1>6. CASE heartbeat
  <2>1. /\ reclaimRemaining' \in 0..BurstCount
        /\ tickerInterval' \in {"heartbeat", "reclaim"}
    BY <1>6, ConstantsAssumption DEF heartbeat, BurstAdvances
  <2>2. /\ lastSentDetails' \in [line : Details, zws : BOOLEAN]
        /\ lastSent' \in [data : Card \cup {NoCard}, cleared : BOOLEAN]
        /\ ClientTypeOK'
    <3>1. CASE UNCHANGED <<lastSentDetails, lastSent, clientVars>>
      BY <1>0, <3>1 DEF ClientTypeOK, clientVars
    <3>2. CASE /\ WorthDefending
               /\ SendSucceeds(Resend)
               /\ lastSentDetails' = DetailsBytes(Resend)
               /\ recordSent(previousRPCData)
      <4>1. previousRPCData \in Card
        BY <3>2 DEF WorthDefending
      <4> QED
        BY <1>0, <3>2, <4>1, ResendSpellsTheCard, ClientTypes DEF recordSent
    <3>3. CASE SendFails /\ UNCHANGED <<lastSentDetails, lastSent>>
      BY <1>0, <3>3, ClientTypes
    <3> QED
      BY <1>6, <3>1, <3>2, <3>3 DEF heartbeat
  <2> QED
    BY <1>6, <2>1, <2>2 DEF heartbeat, ClientTypeOK
<1>7. ASSUME NEW c \in Config, SetConfig(c)
      PROVE  TypeOK'
  BY <1>7 DEF SetConfig, updaterVars, sentVars, clientVars
<1>8. CASE Connect
  BY <1>8 DEF Connect, updaterVars, sentVars
<1>9. CASE Disconnect
  BY <1>9 DEF Disconnect, SendFails, updaterVars, sentVars
<1>10. CASE AppIDChanges
  BY <1>10 DEF AppIDChanges, updaterVars, sentVars
<1>11. CASE UNCHANGED vars
  BY <1>11 DEF vars, sentVars, clientVars
<1> QED
  BY <1>1, <1>2, <1>3, <1>4, <1>5, <1>6, <1>7, <1>8, <1>9, <1>10, <1>11 DEF Next

LEMMA InitTypes == Init => TypeOK
<1> SUFFICES ASSUME Init PROVE TypeOK
  OBVIOUS
<1>1. /\ lastSentDetails \in [line : Details, zws : BOOLEAN]
      /\ lastSent \in [data : Card \cup {NoCard}, cleared : BOOLEAN]
      /\ fired \in [State -> 0..MaxFired]
      /\ reclaimRemaining \in 0..BurstCount
  BY ConstantsAssumption DEF Init
<1> QED
  BY <1>1 DEF Init, TypeOK

\* Every variable stays in its range for every burst length: the countdown of
\* reclaim ticks never leaves 0..BurstCount (updater.go, heartbeat).
THEOREM TypeCorrect == Spec => []TypeOK
<1>1. TypeOK /\ [Next]_vars => TypeOK'
  BY TypeStep
<1> QED
  BY <1>1, InitTypes, PTL DEF Spec

--------------------------------------------------------------------------------
(* What the defended card, its bookkeeping and the connection share.       *)

\* Every step leaves the bookkeeping alone, clears it, replaces the card by one
\* that was just sent, or is a tick.  The connection changes accordingly.
LEMMA StepShapes ==
  ASSUME TypeOK, [Next]_vars
  PROVE  \/ UNCHANGED sentVars /\ wire' \in {wire, NoPayload}
         \/ Undefended /\ ClientClear
         \/ \E c \in Card : SendSucceeds(AsRendered(c)) /\ Defended(c)
         \/ heartbeat
<1>1. ASSUME NEW s \in State, DelayUpdate(s) \/ TimerFires(s)
      PROVE  UNCHANGED sentVars /\ wire' = wire
  BY <1>1 DEF DelayUpdate, TimerFires, clientVars
<1>2. ASSUME NEW s \in State, executeUpdate(s) \/ ImmediateUpdate(s)
      PROVE  \/ UNCHANGED sentVars /\ wire' \in {wire, NoPayload}
             \/ Undefended /\ ClientClear
             \/ \E c \in Card : SendSucceeds(AsRendered(c)) /\ Defended(c)
  <2>1. Render[s][cfg] \in Card
    BY ConstantsAssumption DEF TypeOK
  <2> QED
    BY <1>2, <2>1 DEF executeUpdate, ImmediateUpdate, SendFails, clientVars
<1>3. CASE ClearPresence
  BY <1>3 DEF ClearPresence
<1>4. CASE (\E c \in Config : SetConfig(c)) \/ Connect \/ Disconnect \/ AppIDChanges
  BY <1>4 DEF SetConfig, Connect, Disconnect, AppIDChanges, SendFails, updaterVars, clientVars
<1>5. CASE UNCHANGED vars
  BY <1>5 DEF vars, clientVars
<1> QED
  BY <1>1, <1>2, <1>3, <1>4, <1>5 DEF Next

LEMMA CadenceStep ==
  ASSUME TypeOK, BurstCadence, [Next]_vars
  PROVE  BurstCadence'
<1> USE DEF BurstCadence
<1>0. BurstCount \in Nat /\ reclaimRemaining \in 0..BurstCount
  BY ConstantsAssumption DEF TypeOK
<1>1. CASE UNCHANGED sentVars
  BY <1>1 DEF sentVars
<1>2. CASE Undefended
  BY <1>0, <1>2 DEF Undefended, stopHeartbeat
<1>3. ASSUME NEW c \in Card, Defended(c)
      PROVE  BurstCadence'
  BY <1>0, <1>3 DEF Defended, startReclaimBurst
<1>4. CASE heartbeat
  BY <1>0, <1>4 DEF heartbeat, BurstAdvances
<1> QED
  BY <1>1, <1>2, <1>3, <1>4, StepShapes

\* The ticker is at the reclaim cadence exactly while a burst remains, for
\* every burst length (updater.go, startReclaimBurst, stopHeartbeat and
\* heartbeat).
THEOREM CadenceCorrect == Spec => []BurstCadence
<1>1. Init => BurstCadence
  BY DEF Init, BurstCadence
<1>2. TypeOK /\ BurstCadence /\ [Next]_vars => BurstCadence'
  BY CadenceStep
<1> QED
  BY <1>1, <1>2, TypeCorrect, PTL DEF Spec

\* The strengthening behind the resend property: the bytes remembered are the
\* bytes the connection carries.  A card being defended is needed, since a
\* clear forgets the card and keeps the remembered bytes.
BytesAreRemembered ==
  (heartbeating /\ wire # NoPayload) => lastSentDetails = DetailsBytes(wire)

Inv == TypeOK /\ DefendsWhatItSent /\ BytesAreRemembered

LEMMA InvStep ==
  ASSUME Inv, [Next]_vars
  PROVE  Inv'
<1> USE DEF Inv, DefendsWhatItSent, BytesAreRemembered
<1>0. TypeOK'
  BY TypeStep
<1>1. CASE UNCHANGED sentVars /\ wire' \in {wire, NoPayload}
  BY <1>0, <1>1 DEF sentVars
<1>2. CASE Undefended /\ ClientClear
  BY <1>0, <1>2 DEF Undefended, recordCleared, stopHeartbeat
<1>3. ASSUME NEW c \in Card, SendSucceeds(AsRendered(c)), Defended(c)
      PROVE  Inv'
  <2>1. c # NoCard /\ AsRendered(c).card = c
    BY ConstantsAssumption DEF AsRendered
  <2>2. /\ wire' = AsRendered(c)
        /\ previousRPCData' = c
        /\ heartbeating'
        /\ lastSentDetails' = DetailsBytes(AsRendered(c))
        /\ lastSent'.data = c
    BY <1>3 DEF SendSucceeds, Defended, recordSent, startReclaimBurst
  <2> QED
    BY <1>0, <2>1, <2>2 DEF DetailsBytes
<1>4. CASE heartbeat
  <2>1. UNCHANGED <<heartbeating, previousRPCData>>
    BY <1>4 DEF heartbeat
  <2>2. CASE UNCHANGED <<lastSentDetails, lastSent, clientVars>>
    BY <1>0, <2>1, <2>2 DEF clientVars
  <2>3. CASE /\ WorthDefending
             /\ SendSucceeds(Resend)
             /\ lastSentDetails' = DetailsBytes(Resend)
             /\ recordSent(previousRPCData)
    <3>1. Resend.card = previousRPCData
      BY <2>3, ResendSpellsTheCard DEF WorthDefending, TypeOK
    <3>2. wire' = Resend /\ lastSent'.data = previousRPCData
      BY <2>3 DEF SendSucceeds, recordSent
    <3> QED
      BY <1>0, <2>1, <2>3, <3>1, <3>2 DEF DetailsBytes
  <2>4. CASE SendFails /\ UNCHANGED <<lastSentDetails, lastSent>>
    BY <1>0, <2>1, <2>4 DEF SendFails
  <2> QED
    BY <1>4, <2>2, <2>3, <2>4 DEF heartbeat
<1> QED
  BY <1>1, <1>2, <1>3, <1>4, StepShapes

\* Stated without fairness, which a composition need not have.
LEMMA InvAlways == Init /\ [][Next]_vars => []Inv
<1>1. Init => Inv
  BY InitTypes DEF Init, Inv, DefendsWhatItSent, BytesAreRemembered
<1>2. Inv /\ [Next]_vars => Inv'
  BY InvStep
<1> QED
  BY <1>1, <1>2, PTL

LEMMA InvHolds == Spec => []Inv
  BY InvAlways, PTL DEF Spec

\* The card being defended, the card LastSent reports and the card the
\* connection carries are one card, in every interleaving of calls, timers,
\* ticks and connection losses (updater.go, all operations).
THEOREM DefendsWhatItSentHolds == Spec => []DefendsWhatItSent
<1>1. Inv => DefendsWhatItSent
  BY DEF Inv
<1> QED
  BY <1>1, InvHolds, PTL

\* A heartbeat never sends Discord the spelling it already has (updater.go,
\* heartbeat; ADR-0001).
THEOREM ResendsDiffer == Spec => HeartbeatNeverRepeats
<1>1. ASSUME Inv, heartbeat, WorthDefending, IsConnected
      PROVE  wire' # wire \/ link' = "down"
  <2>1. previousRPCData \in Card /\ heartbeating
    BY <1>1 DEF WorthDefending, Inv, TypeOK
  <2>2. CASE SendSucceeds(Resend)
    <3>1. Resend # NoPayload /\ DetailsBytes(Resend) # lastSentDetails
      BY <2>1, ResendSpellsTheCard
    <3>2. wire = NoPayload \/ lastSentDetails = DetailsBytes(wire)
      BY <1>1, <2>1 DEF Inv, BytesAreRemembered
    <3> QED
      BY <2>2, <3>1, <3>2 DEF SendSucceeds
  <2>3. CASE SendFails
    BY <2>3 DEF SendFails
  <2> QED
    BY <1>1, <2>2, <2>3 DEF heartbeat
<1> QED
  BY <1>1, InvHolds, PTL DEF Spec, HeartbeatNeverRepeats

--------------------------------------------------------------------------------
(* Refinement.                                                             *)

LEMMA PresenceStep ==
  ASSUME Inv, [Next]_vars
  PROVE  [Presence!Next]_(Presence!vars)
<1> USE DEF Presence!Next, Presence!vars, Presence!Spellings, Presence!Payload,
            Presence!NoPayload, Payload, NoPayload
<1>1. CASE UNCHANGED sentVars /\ wire' \in {wire, NoPayload}
  <2>1. UNCHANGED previousRPCData
    BY <1>1 DEF sentVars
  <2> QED
    BY <1>1, <2>1 DEF Presence!Lose
<1>2. CASE Undefended /\ ClientClear
  <2>1. previousRPCData' = NoCard
    BY <1>2 DEF Undefended
  <2>2. wire' \in {wire, NoPayload}
    BY <1>2 DEF ClientClear, SendSucceeds, SendFails, clientVars
  <2> QED
    BY <2>1, <2>2 DEF Presence!Clear
<1>3. ASSUME NEW c \in Card, SendSucceeds(AsRendered(c)), Defended(c)
      PROVE  Presence!Next
  <2>1. wire' \in Payload /\ wire'.card = c /\ previousRPCData' = c
    BY <1>3, CardsArePayloads DEF SendSucceeds, Defended
  <2> QED
    BY <2>1 DEF Presence!Show
<1>4. CASE heartbeat
  <2>1. UNCHANGED previousRPCData
    BY <1>4 DEF heartbeat
  <2>2. CASE WorthDefending /\ SendSucceeds(Resend)
    <3>1. previousRPCData \in Card /\ heartbeating
      BY <2>2 DEF WorthDefending, Inv, TypeOK
    <3>2. /\ Resend \in Payload /\ Resend.card = previousRPCData
          /\ Resend # NoPayload /\ DetailsBytes(Resend) # lastSentDetails
      BY <3>1, ResendSpellsTheCard
    <3>3. wire' = Resend /\ wire' # wire
      BY <2>2, <3>1, <3>2 DEF SendSucceeds, Inv, BytesAreRemembered
    <3> QED
      BY <2>1, <2>2, <3>2, <3>3 DEF Presence!Defend, WorthDefending
  <2>3. CASE SendFails
    BY <2>1, <2>3 DEF SendFails, Presence!Lose
  <2>4. CASE UNCHANGED clientVars
    BY <2>1, <2>4 DEF clientVars
  <2> QED
    BY <1>4, <2>2, <2>3, <2>4 DEF heartbeat
<1> QED
  BY <1>1, <1>2, <1>3, <1>4, StepShapes DEF Inv

\* The Updater implements RichPresence: whatever its timers, its callers and
\* the connection do, each step shows, clears, defends or loses the one card.
THEOREM ImplementsRichPresence == Spec => PresenceSpec
<1>1. Init => Presence!Init
  BY DEF Init, Presence!Init, NoPayload, Presence!NoPayload
<1>2. Inv /\ [Next]_vars => [Presence!Next]_(Presence!vars)
  BY PresenceStep
<1> QED
  BY <1>1, <1>2, InvHolds, PTL DEF Spec, PresenceSpec, Presence!Spec
================================================================================
