------------------------------- MODULE LoopProofs -------------------------------
(***************************************************************************)
(* PresenceLoop for every set of states, agents, screens and settings: the *)
(* type invariant, the two safety properties of a cleared presence, and    *)
(* the fact that the loop drives the Updater only through its operations,  *)
(* so that what is proved of the Updater holds in the running daemon.      *)
(***************************************************************************)
EXTENDS PresenceLoop, UpdaterProofs, SequenceTheorems

\* A dead connection carries nothing.
DeadLinkCarriesNothing == link = "down" => wire = NoPayload

LoopInv == LoopTypeOK /\ DeadLinkCarriesNothing

--------------------------------------------------------------------------------
(* The loop drives the Updater through its operations.                     *)

\* One step of the daemon is a step of the Updater or leaves it alone.
LEMMA UpdaterStep ==
  ASSUME LoopInv, LoopNext
  PROVE  [Next]_vars
<1> USE LoopAssumption
<1>0. current \in State /\ (updates # <<>> => Head(updates) \in State)
  BY DEF LoopInv, LoopTypeOK
<1>1. CASE OnUpdate
  BY <1>0, <1>1 DEF OnUpdate, Next
<1>2. CASE OnConfig
  BY <1>0, <1>2 DEF OnConfig, Get, Next
<1>3. reconcile => [Next]_vars
  BY <1>0 DEF reconcile, ResendOnReconnect, HoldCleared, Get, Next
<1>4. CASE OnTick \/ OnPauseSignal
  BY <1>3, <1>4 DEF OnTick, OnPauseSignal
<1>5. CASE HandlerRest
  <2>1. Decide => [Next]_vars
    BY DEF Decide, HoldCleared, Next
  <2>2. Enter => [Next]_vars
    BY <1>0 DEF Enter, Get, Next
  <2>3. ReadScreen \/ ForgetAgent \/ KeepAgent \/ Lookup \/ Resolve => UNCHANGED vars
    BY DEF ReadScreen, ForgetAgent, KeepAgent, Lookup, Resolve
  <2> QED
    BY <1>5, <2>1, <2>2, <2>3 DEF HandlerRest
<1>6. CASE \/ \E l \in {"menus", "match"}, v \in Variant : ApplyPresence(l, v)
           \/ StallTimeout \/ RiotConnects \/ RiotDrops \/ RiotResets \/ RiotCloses
           \/ DiscordFlagged \/ \E b \in BOOLEAN : SetPaused(b)
  BY <1>6 DEF ApplyPresence, StallTimeout, RiotConnects, RiotDrops, RiotResets,
              RiotCloses, DiscordFlagged, SetPaused
<1>7. CASE DiscordOpens
  BY <1>7 DEF DiscordOpens, Next
<1>8. CASE DiscordCloses
  <2>1. SendFails /\ UNCHANGED <<updaterVars, cfg>>
    BY <1>8 DEF DiscordCloses
  <2>2. CASE link = "down"
    BY <2>1, <2>2 DEF SendFails, LoopInv, DeadLinkCarriesNothing, vars, updaterVars,
                      clientVars
  <2>3. CASE link # "down"
    BY <2>1, <2>3 DEF Disconnect, Next
  <2> QED
    BY <2>2, <2>3
<1>9. CASE ApplySettings
  BY <1>9 DEF ApplySettings, Next
<1>10. CASE UpdaterRuns
  BY <1>10 DEF UpdaterRuns, Next
<1> QED
  BY <1>1, <1>2, <1>4, <1>5, <1>6, <1>7, <1>8, <1>9, <1>10 DEF LoopNext

\* Every operation that takes the link down, or finds it down, also leaves
\* nothing on it.
LEMMA DeadLinkStep ==
  ASSUME DeadLinkCarriesNothing, [Next]_vars
  PROVE  DeadLinkCarriesNothing'
<1> USE DEF DeadLinkCarriesNothing
<1>1. ASSUME NEW p, SendSucceeds(p) PROVE DeadLinkCarriesNothing'
  BY <1>1 DEF SendSucceeds
<1>2. SendFails => DeadLinkCarriesNothing'
  BY DEF SendFails
<1>3. UNCHANGED clientVars => DeadLinkCarriesNothing'
  BY DEF clientVars
<1>4. ClientClear => DeadLinkCarriesNothing'
  BY <1>1, <1>2, <1>3 DEF ClientClear
<1>5. ASSUME NEW s \in State,
             DelayUpdate(s) \/ TimerFires(s) \/ executeUpdate(s) \/ ImmediateUpdate(s)
      PROVE  DeadLinkCarriesNothing'
  <2>1. CASE DelayUpdate(s) \/ TimerFires(s)
    BY <2>1, <1>3 DEF DelayUpdate, TimerFires
  <2>2. CASE executeUpdate(s)
    BY <2>2, <1>1, <1>2, <1>3, <1>4 DEF executeUpdate
  <2>3. CASE ImmediateUpdate(s)
    BY <2>3, <1>1, <1>2, <1>4 DEF ImmediateUpdate
  <2> QED
    BY <1>5, <2>1, <2>2, <2>3
<1>6. CASE ClearPresence
  BY <1>6, <1>4 DEF ClearPresence
<1>7. CASE heartbeat
  BY <1>7, <1>1, <1>2, <1>3 DEF heartbeat
<1>8. CASE \E c \in Config : SetConfig(c)
  BY <1>8, <1>3 DEF SetConfig
<1>9. CASE Connect
  BY <1>9 DEF Connect
<1>10. CASE Disconnect
  BY <1>10, <1>2 DEF Disconnect
<1>11. CASE AppIDChanges
  BY <1>11 DEF AppIDChanges
<1>12. CASE UNCHANGED vars
  BY <1>12, <1>3 DEF vars
<1> QED
  BY <1>5, <1>6, <1>7, <1>8, <1>9, <1>10, <1>11, <1>12 DEF Next

--------------------------------------------------------------------------------
(* Type correctness of the loop and of what it reads.                      *)

Stretch == {"decide", "screen", "enter", "lookup", "resolve"}

StateTypeOK ==
  /\ current \in GameState
  /\ updates \in Seq(GameState)
  /\ Len(updates) <= updateBuffer

EnvTypeOK ==
  /\ <<paused, pauseSignal, cfgSignal>> \in BOOLEAN \X BOOLEAN \X BOOLEAN
  /\ riotSup \in {"down", "open", "up", "dropped", "reset", "closed"}
  /\ hearing \in {"waiting", "stalled", "heard"}
  /\ discordSup \in {"down", "open", "up", "closed"}

LocalTypeOK ==
  /\ <<discordConnected, agentResolved>> \in BOOLEAN \X BOOLEAN
  /\ mode \in {"unknown", "connected", "cleared"}
  /\ todo \in Seq(Stretch)
  /\ held \in GameState \cup {NoState}

LEMMA LoopTypeSplit ==
  LoopTypeOK <=> TypeOK /\ StateTypeOK /\ EnvTypeOK /\ LocalTypeOK
  BY DEF LoopTypeOK, StateTypeOK, EnvTypeOK, LocalTypeOK, Stretch

\* Publishing a state keeps the state manager's types.
LEMMA ApplyTypes ==
  ASSUME StateTypeOK, NEW s \in GameState, Apply(s)
  PROVE  StateTypeOK'
<1> USE DEF StateTypeOK
<1>1. Stamped(s) \in GameState
  <2>1. CASE PhaseContext(s) = PhaseContext(current)
    BY <2>1 DEF Stamped
  <2>2. CASE PhaseContext(s) # PhaseContext(current)
    <3>1. Stamped(s) = [s EXCEPT !.entry = current.entry + 1]
      BY <2>2 DEF Stamped
    <3>2. current.entry + 1 \in 0..MaxEntry
      BY <3>1, LoopAssumption DEF Apply, GameState
    <3> QED
      BY <3>1, <3>2 DEF GameState
  <2> QED
    BY <2>1, <2>2
<1>2. CASE Stamped(s) = current
  BY <1>1, <1>2 DEF Apply
<1>3. CASE Stamped(s) # current
  <2>1. CASE Len(updates) < updateBuffer
    <3>1. updates' = Append(updates, Stamped(s)) /\ current' = Stamped(s)
      BY <1>3, <2>1 DEF Apply, broadcast
    <3>2. Append(updates, Stamped(s)) \in Seq(GameState)
          /\ Len(Append(updates, Stamped(s))) = Len(updates) + 1
      BY <1>1, AppendProperties
    <3>3. Len(updates) \in Nat
      BY LenProperties
    <3> QED
      BY <1>1, <2>1, <3>1, <3>2, <3>3, LoopAssumption
  <2>2. CASE ~(Len(updates) < updateBuffer)
    BY <1>1, <1>3, <2>2 DEF Apply, broadcast
  <2> QED
    BY <2>1, <2>2
<1> QED
  BY <1>2, <1>3

LEMMA NewStateTypes ==
  ASSUME NEW n \in 0..MaxEntry
  PROVE  NewState(n) \in GameState
  BY LoopAssumption DEF NewState, GameState

\* What every handler may do to its list of stretches.
LEMMA TodoTypes ==
  ASSUME todo \in Seq(Stretch)
  PROVE  /\ todo # <<>> => Tail(todo) \in Seq(Stretch)
         /\ todo # <<>> => <<"resolve">> \o Tail(todo) \in Seq(Stretch)
         /\ <<>> \in Seq(Stretch)
         /\ <<"decide">> \in Seq(Stretch)
         /\ <<"lookup", "screen">> \in Seq(Stretch)
         /\ <<"screen", "enter", "lookup">> \in Seq(Stretch)
<1>1. todo # <<>> => Tail(todo) \in Seq(Stretch)
  BY HeadTailProperties
<1>2. <<"resolve">> \in Seq(Stretch)
  BY DEF Stretch
<1>3. todo # <<>> => <<"resolve">> \o Tail(todo) \in Seq(Stretch)
  BY <1>1, <1>2, ConcatProperties
<1>4. <<>> \in Seq(Stretch) /\ <<"decide">> \in Seq(Stretch)
  BY DEF Stretch
<1>5. <<"lookup", "screen">> \in Seq(Stretch)
  BY DEF Stretch
<1>6. <<"screen", "enter", "lookup">> \in Seq(Stretch)
  BY DEF Stretch
<1> QED
  BY <1>1, <1>3, <1>4, <1>5, <1>6

\* No handler, and no goroutine beside the loop, leaves its types.
LEMMA LoopTypeStep ==
  ASSUME LoopInv, [LoopNext]_allVars
  PROVE  LoopTypeOK'
<1>0. TypeOK /\ StateTypeOK /\ EnvTypeOK /\ LocalTypeOK
  BY LoopTypeSplit DEF LoopInv
<1>t. [Next]_vars
  BY UpdaterStep DEF allVars
<1>1. TypeOK'
  BY <1>0, <1>t, TypeStep
<1>c. current \in GameState /\ NoAgent \in Agent \cup {NoAgent}
  BY <1>0 DEF StateTypeOK
<1>2. StateTypeOK'
  <2>1. ASSUME NEW a \in Agent \cup {NoAgent} PROVE [current EXCEPT !.agent = a] \in GameState
    BY <1>c, <2>1 DEF GameState
  <2>2. ASSUME NEW m \in Screen PROVE [current EXCEPT !.screen = m] \in GameState
    BY <1>c, <2>2 DEF GameState
  <2>3. ASSUME NEW l \in {"menus", "match"}, NEW v \in Variant
        PROVE  [current EXCEPT !.loop = l, !.variant = v] \in GameState
    BY <1>c, <2>3 DEF GameState
  <2>4. UNCHANGED stateVars => StateTypeOK'
    BY <1>0 DEF StateTypeOK, stateVars
  <2>5. CASE OnUpdate
    <3>1. updates # <<>> /\ updates' = Tail(updates) /\ current' = current
      BY <2>5 DEF OnUpdate
    <3>2. /\ Tail(updates) \in Seq(GameState)
          /\ Len(Tail(updates)) = Len(updates) - 1
      BY <1>0, <3>1, HeadTailProperties DEF StateTypeOK
    <3>3. Len(updates) \in Nat
      BY <1>0, LenProperties DEF StateTypeOK
    <3> QED
      BY <1>0, <3>1, <3>2, <3>3, LoopAssumption DEF StateTypeOK
  <2>6. CASE ReadScreen
    BY <1>0, <2>2, <2>4, <2>6, ApplyTypes DEF ReadScreen
  <2>7. CASE ForgetAgent
    BY <1>0, <1>c, <2>1, <2>4, <2>7, ApplyTypes DEF ForgetAgent
  <2>8. CASE Lookup
    BY <1>0, <2>1, <2>4, <2>8, ApplyTypes DEF Lookup
  <2>9. CASE \E l \in {"menus", "match"}, v \in Variant : ApplyPresence(l, v)
    BY <1>0, <2>3, <2>9, ApplyTypes DEF ApplyPresence
  <2>10. CASE RiotResets
    <3>1. Apply(NewState(current.entry + 1))
      BY <2>10 DEF RiotResets
    <3>2. current.entry \in 0..MaxEntry
      BY <1>c DEF GameState
    <3>3. Stamped(NewState(current.entry + 1)).entry = current.entry + 1
      BY <3>2, LoopAssumption DEF Stamped, NewState
    <3>4. current.entry + 1 \in 0..MaxEntry
      BY <3>1, <3>2, <3>3, LoopAssumption DEF Apply
    <3> QED
      BY <1>0, <3>1, <3>4, NewStateTypes, ApplyTypes
  <2>11. CASE OnConfig \/ OnTick \/ OnPauseSignal \/ Decide \/ Enter \/ KeepAgent \/ Resolve
    BY <2>4, <2>11 DEF OnConfig, OnTick, OnPauseSignal, Decide, Enter, KeepAgent, Resolve
  <2>12. CASE \/ StallTimeout \/ RiotConnects \/ RiotDrops \/ RiotCloses
              \/ DiscordOpens \/ DiscordFlagged \/ DiscordCloses
              \/ (\E b \in BOOLEAN : SetPaused(b)) \/ ApplySettings \/ UpdaterRuns
    BY <2>4, <2>12 DEF StallTimeout, RiotConnects, RiotDrops, RiotCloses, DiscordOpens,
       DiscordFlagged, DiscordCloses, SetPaused, ApplySettings, UpdaterRuns
  <2>13. CASE UNCHANGED allVars
    BY <2>4, <2>13 DEF allVars
  <2> QED
    BY <2>5, <2>6, <2>7, <2>8, <2>9, <2>10, <2>11, <2>12, <2>13 DEF LoopNext, HandlerRest
<1>3. EnvTypeOK'
  <2> USE DEF EnvTypeOK
  <2>1. UNCHANGED envVars => EnvTypeOK'
    BY <1>0 DEF envVars, signalVars, riotVars
  <2>2. CASE OnUpdate \/ OnTick \/ HandlerRest \/ UpdaterRuns
    BY <2>1, <2>2 DEF OnUpdate, OnTick, HandlerRest, Decide, ReadScreen, Enter, ForgetAgent,
       KeepAgent, Lookup, Resolve, UpdaterRuns
  <2>3. CASE OnConfig \/ OnPauseSignal \/ ApplySettings
    BY <1>0, <2>3 DEF OnConfig, OnPauseSignal, ApplySettings, riotVars
  <2>4. CASE \E b \in BOOLEAN : SetPaused(b)
    BY <1>0, <2>4 DEF SetPaused, riotVars
  <2>5. CASE \/ \E l \in {"menus", "match"}, v \in Variant : ApplyPresence(l, v)
             \/ StallTimeout \/ RiotConnects \/ RiotDrops \/ RiotResets \/ RiotCloses
    BY <1>0, <2>5 DEF ApplyPresence, StallTimeout, RiotConnects, RiotDrops, RiotResets,
       RiotCloses, signalVars
  <2>6. CASE DiscordOpens \/ DiscordFlagged \/ DiscordCloses
    BY <1>0, <2>6 DEF DiscordOpens, DiscordFlagged, DiscordCloses, signalVars, riotVars
  <2>7. CASE UNCHANGED allVars
    BY <2>1, <2>7 DEF allVars
  <2> QED
    BY <2>2, <2>3, <2>4, <2>5, <2>6, <2>7 DEF LoopNext
<1>4. LocalTypeOK'
  <2> USE DEF LocalTypeOK
  <2>1. UNCHANGED loopVars => LocalTypeOK'
    BY <1>0 DEF loopVars, localVars
  <2>2. /\ todo # <<>> => Tail(todo) \in Seq(Stretch)
        /\ todo # <<>> => <<"resolve">> \o Tail(todo) \in Seq(Stretch)
        /\ <<>> \in Seq(Stretch)
        /\ <<"decide">> \in Seq(Stretch)
        /\ <<"lookup", "screen">> \in Seq(Stretch)
        /\ <<"screen", "enter", "lookup">> \in Seq(Stretch)
    BY <1>0, TodoTypes
  <2>3. discordFlag \in BOOLEAN /\ (Get.agent # NoAgent) \in BOOLEAN
    BY DEF discordFlag
  <2>4. CASE OnUpdate
    <3>1. updates # <<>> => Head(updates) \in GameState
      BY <1>0, HeadTailProperties DEF StateTypeOK
    <3> QED
      BY <1>0, <2>2, <2>4, <3>1 DEF OnUpdate, localVars
  <2>5. reconcile => LocalTypeOK'
    BY <1>0, <2>2, <2>3 DEF reconcile, ResendOnReconnect, HoldCleared
  <2>6. CASE OnTick \/ OnPauseSignal
    BY <2>5, <2>6 DEF OnTick, OnPauseSignal
  <2>7. CASE Decide
    BY <1>0, <2>2, <2>7 DEF Decide, HoldCleared
  <2>8. CASE ReadScreen
    BY <1>0, <2>2, <2>8 DEF ReadScreen, At, localVars
  <2>9. CASE Enter
    BY <1>0, <1>c, <2>2, <2>9 DEF Enter, At, Get
  <2>10. CASE ForgetAgent \/ KeepAgent
    BY <1>0, <2>2, <2>10 DEF ForgetAgent, KeepAgent, At, localVars
  <2>11. CASE Lookup
    BY <1>0, <2>2, <2>11 DEF Lookup, At, localVars
  <2>12. CASE Resolve
    BY <1>0, <2>2, <2>3, <2>12 DEF Resolve, At
  <2>13. CASE \/ OnConfig
              \/ \E l \in {"menus", "match"}, v \in Variant : ApplyPresence(l, v)
              \/ StallTimeout \/ RiotConnects \/ RiotDrops \/ RiotResets \/ RiotCloses
              \/ DiscordOpens \/ DiscordFlagged \/ DiscordCloses
              \/ (\E b \in BOOLEAN : SetPaused(b)) \/ ApplySettings \/ UpdaterRuns
    BY <2>1, <2>13 DEF OnConfig, ApplyPresence, StallTimeout, RiotConnects, RiotDrops,
       RiotResets, RiotCloses, DiscordOpens, DiscordFlagged, DiscordCloses, SetPaused,
       ApplySettings, UpdaterRuns
  <2>14. CASE UNCHANGED allVars
    BY <2>1, <2>14 DEF allVars
  <2> QED
    BY <2>4, <2>6, <2>7, <2>8, <2>9, <2>10, <2>11, <2>12, <2>13, <2>14 DEF LoopNext, HandlerRest
<1> QED
  BY <1>1, <1>2, <1>3, <1>4
     DEF LoopTypeOK, StateTypeOK, EnvTypeOK, LocalTypeOK, Stretch

LEMMA LoopInvInit == LoopInit => LoopInv
<1> SUFFICES ASSUME LoopInit PROVE LoopInv
  OBVIOUS
<1> USE LoopAssumption DEF LoopInit
<1>1. TypeOK /\ DeadLinkCarriesNothing
  BY InitTypes DEF Init, DeadLinkCarriesNothing
<1>2. StateTypeOK
  BY NewStateTypes DEF StateTypeOK
<1>3. EnvTypeOK /\ LocalTypeOK
  BY DEF EnvTypeOK, LocalTypeOK
<1> QED
  BY <1>1, <1>2, <1>3, LoopTypeSplit DEF LoopInv

LEMMA LoopInvHolds == LoopSafety => []LoopInv
<1>1. LoopInv /\ [LoopNext]_allVars => LoopInv'
  <2> SUFFICES ASSUME LoopInv, [LoopNext]_allVars PROVE LoopInv'
    OBVIOUS
  <2>1. [Next]_vars
    BY UpdaterStep DEF allVars
  <2> QED
    BY <2>1, LoopTypeStep, DeadLinkStep DEF LoopInv
<1> QED
  BY <1>1, LoopInvInit, PTL DEF LoopSafety

--------------------------------------------------------------------------------
(* The theorems.                                                           *)

\* The loop, its queue and its supervisors keep their types, for every queue
\* capacity and every set of agents, screens and settings.
THEOREM LoopTypeCorrect == LoopSafety => []LoopTypeOK
<1>1. LoopInv => LoopTypeOK
  BY DEF LoopInv
<1> QED
  BY <1>1, LoopInvHolds, PTL

\* Every behaviour of the daemon is, seen from the Updater, a behaviour of
\* the Updater: the loop and the supervisors reach it through its operations
\* only, and what holds of all its behaviours holds here.
THEOREM LoopUsesUpdater == LoopSafety => Init /\ [][Next]_vars
<1>1. LoopInit => Init
  BY DEF LoopInit
<1>2. LoopInv /\ [LoopNext]_allVars => [Next]_vars
  BY UpdaterStep DEF allVars
<1> QED
  BY <1>1, <1>2, LoopInvHolds, PTL DEF LoopSafety

\* In the running daemon too, the card that is defended, the card the preview
\* is told of and the card on the connection are one card.
THEOREM LoopDefendsWhatItSent == LoopSafety => []DefendsWhatItSent
<1>1. Inv => DefendsWhatItSent
  BY DEF Inv
<1> QED
  BY <1>1, LoopUsesUpdater, InvAlways, PTL

\* No update stays armed once presence is held cleared.
THEOREM NothingArmed == LoopSafety => []NothingArmedWhileCleared
<1>1. LoopInit => NothingArmedWhileCleared
  BY DEF LoopInit, Init, NothingArmedWhileCleared
<1>2. ASSUME NothingArmedWhileCleared, [LoopNext]_allVars
      PROVE  NothingArmedWhileCleared'
  <2> USE <1>2 DEF NothingArmedWhileCleared
  <2>1. CASE OnUpdate
    BY <2>1 DEF OnUpdate, vars, localVars
  <2>2. CASE OnConfig
    BY <2>2 DEF OnConfig, ImmediateUpdate, vars, loopVars, localVars
  <2>3. HoldCleared => NothingArmedWhileCleared'
    BY DEF HoldCleared, ClearPresence, vars
  <2>4. ResendOnReconnect => NothingArmedWhileCleared'
    BY DEF ResendOnReconnect, ImmediateUpdate, vars
  <2>5. CASE OnTick \/ OnPauseSignal
    BY <2>3, <2>4, <2>5 DEF OnTick, OnPauseSignal, reconcile
  <2>6. CASE Decide
    BY <2>3, <2>6 DEF Decide, vars
  <2>7. CASE Enter
    BY <2>7 DEF Enter
  <2>8. CASE ReadScreen \/ ForgetAgent \/ KeepAgent \/ Lookup \/ Resolve
    BY <2>8 DEF ReadScreen, ForgetAgent, KeepAgent, Lookup, Resolve, vars, localVars
  <2>9. CASE \/ \E l \in {"menus", "match"}, v \in Variant : ApplyPresence(l, v)
             \/ StallTimeout \/ RiotConnects \/ RiotDrops \/ RiotResets \/ RiotCloses
             \/ DiscordFlagged \/ \E b \in BOOLEAN : SetPaused(b)
    BY <2>9 DEF ApplyPresence, StallTimeout, RiotConnects, RiotDrops, RiotResets,
       RiotCloses, DiscordFlagged, SetPaused, vars, loopVars, localVars
  <2>10. CASE DiscordOpens \/ DiscordCloses \/ ApplySettings
    BY <2>10 DEF DiscordOpens, DiscordCloses, ApplySettings, Connect, AppIDChanges,
       SetConfig, updaterVars, loopVars, localVars
  <2>11. CASE UpdaterRuns
    BY <2>11 DEF UpdaterRuns, heartbeat, TimerFires, executeUpdate, loopVars, localVars
  <2>12. CASE UNCHANGED allVars
    BY <2>12 DEF allVars, vars, loopVars, localVars
  <2> QED
    BY <2>1, <2>2, <2>5, <2>6, <2>7, <2>8, <2>9, <2>10, <2>11, <2>12
       DEF LoopNext, HandlerRest
<1> QED
  BY <1>1, <1>2, PTL DEF LoopSafety

\* While presence is held cleared, whatever brings a card back is a timer
\* goroutine that was already waiting.
THEOREM OnlyALateTimer == LoopSafety => OnlyALateTimerUndoesAClear
<1>1. ASSUME [LoopNext]_allVars, mode # "connected", mode' # "connected",
             ~heartbeating, heartbeating'
      PROVE  \E s \in State : executeUpdate(s)
  <2> USE <1>1
  <2>0. ~UNCHANGED heartbeating
    BY <1>1
  <2>1. ~OnUpdate /\ ~OnConfig
    BY <2>0 DEF OnUpdate, OnConfig, DelayUpdate, vars, sentVars
  <2>2. ~HoldCleared
    BY <2>0 DEF HoldCleared, ClearPresence, Undefended, stopHeartbeat, vars, sentVars
  <2>3. ~ResendOnReconnect
    BY <2>0 DEF ResendOnReconnect, vars, sentVars
  <2>4. ~OnTick /\ ~OnPauseSignal
    BY <2>2, <2>3 DEF OnTick, OnPauseSignal, reconcile
  <2>5. ~Decide /\ ~Enter
    BY <2>0, <2>2 DEF Decide, Enter, vars, sentVars
  <2>6. ~(ReadScreen \/ ForgetAgent \/ KeepAgent \/ Lookup \/ Resolve)
    BY <2>0 DEF ReadScreen, ForgetAgent, KeepAgent, Lookup, Resolve, vars, sentVars
  <2>7. ~ \/ \E l \in {"menus", "match"}, v \in Variant : ApplyPresence(l, v)
          \/ StallTimeout \/ RiotConnects \/ RiotDrops \/ RiotResets \/ RiotCloses
          \/ DiscordFlagged \/ \E b \in BOOLEAN : SetPaused(b)
    BY <2>0 DEF ApplyPresence, StallTimeout, RiotConnects, RiotDrops, RiotResets,
       RiotCloses, DiscordFlagged, SetPaused, vars, sentVars
  <2>8. ~(DiscordOpens \/ DiscordCloses \/ ApplySettings)
    BY <2>0 DEF DiscordOpens, DiscordCloses, ApplySettings, Connect, AppIDChanges,
       SetConfig, updaterVars, sentVars
  <2>9. ~heartbeat /\ \A s \in State : ~TimerFires(s)
    BY <2>0 DEF heartbeat, TimerFires, sentVars
  <2>10. UpdaterRuns
    <3>1. ~UNCHANGED allVars
      BY <2>0 DEF allVars, vars, sentVars
    <3> QED
      BY <2>1, <2>4, <2>5, <2>6, <2>7, <2>8, <3>1 DEF LoopNext, HandlerRest
  <2> QED
    BY <2>9, <2>10 DEF UpdaterRuns
<1> QED
  BY <1>1, PTL DEF LoopSafety, OnlyALateTimerUndoesAClear
================================================================================
