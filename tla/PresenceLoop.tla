------------------------------ MODULE PresenceLoop ------------------------------
(***************************************************************************)
(* internal/daemon/daemon.go: the loop that decides when presence is shown *)
(* and drives the Updater.  It composes the Updater with what the loop     *)
(* reads of the other goroutines: the state manager and its update queue,  *)
(* the pause flag with its wake-up signal, the config subscription and the *)
(* connection flags of the two supervisors.                                *)
(*                                                                         *)
(* One step of the loop is one stretch between two reads of shared state;  *)
(* todo holds the stretches of the handler that are still to run, and is   *)
(* empty at the select.                                                    *)
(***************************************************************************)
EXTENDS Updater, Sequences

CONSTANTS
  Agent, NoAgent,
  Screen,         \* the menu screens the game log tells apart
  Variant,        \* what changes within a context: score, party size
  FirstVariant,   \* the one NewState starts from
  AgentOf,        \* the agent of the match entered n-th
  MaxEntry,       \* bound: contexts entered
  updateBuffer    \* capacity of the Updates() channel

VARIABLES
  current,          \* state.Manager's current state
  updates,          \* the buffered Updates() channel
  paused, pauseSignal,
  cfgSignal,        \* a config snapshot waits in ConfigChanges()
  riotSup,          \* where the Riot supervisor and its connection stand
  hearing,          \* what RiotSource has heard on this connection
  discordSup,       \* where the Discord supervisor stands
  mode, discordConnected, agentResolved,   \* the loop's locals
  todo,             \* the rest of the handler that is running
  held              \* the state it was handed or has read

stateVars == <<current, updates>>
signalVars == <<paused, pauseSignal, cfgSignal>>
riotVars == <<riotSup, hearing>>
envVars == <<signalVars, riotVars, discordSup>>
localVars == <<mode, discordConnected, agentResolved>>
loopVars == <<localVars, todo, held>>
allVars == <<vars, stateVars, envVars, loopVars>>

\* entry stands for ContextEnteredAt: entering a context again gives a new
\* state.  Every loop state but a running match is folded into the menus.
GameState ==
  [entry : 0..MaxEntry, loop : {"menus", "match"}, screen : Screen,
   variant : Variant, agent : Agent \cup {NoAgent}]

InMatch(s) == s.loop = "match"
PhaseContext(s) == IF InMatch(s) THEN "match" ELSE s.screen

ASSUME LoopAssumption ==
  /\ State = GameState
  /\ NoAgent \notin Agent
  /\ "client" \in Screen
  /\ FirstVariant \in Variant
  /\ MaxEntry \in Nat
  /\ AgentOf \in [0..MaxEntry -> Agent \cup {NoAgent}]
  /\ updateBuffer \in Nat \ {0}

--------------------------------------------------------------------------------
(* What the loop reads of its surroundings.                                *)

\* RiotSupervisor.Connected: set and cleared by callbacks, it lags the link.
riotConnected == riotSup \in {"up", "dropped", "reset", "closed"}

\* DiscordSupervisor.Connected lags in the same way.
discordFlag == discordSup \in {"up", "closed"}

\* A live link that has produced nothing; one that is lost never stalls.
stalled == riotSup = "up" /\ hearing = "stalled"

Showable == riotConnected /\ ~stalled

--------------------------------------------------------------------------------
(* state.Manager.                                                          *)

Get == current

Stamped(s) ==
  IF PhaseContext(s) = PhaseContext(current) THEN s
                                             ELSE [s EXCEPT !.entry = current.entry + 1]

broadcastUnbounded(s) == updates' = Append(updates, s)

\* A full channel drops the new value.
broadcast(s) ==
  updates' = IF Len(updates) < updateBuffer THEN Append(updates, s) ELSE updates

\* Apply, for a mutator that turns the current state into s.
Apply(s) ==
  /\ Stamped(s).entry <= MaxEntry
  /\ current' = Stamped(s)
  /\ IF Stamped(s) = current THEN UNCHANGED updates ELSE broadcast(Stamped(s))

\* The state of a player about whom nothing is known, stamped now.
NewState(n) ==
  [entry |-> n, loop |-> "menus", screen |-> "client", variant |-> FirstVariant,
   agent |-> NoAgent]

LoopInit ==
  /\ Init
  /\ current = NewState(0)
  /\ updates = <<>>
  /\ paused = FALSE /\ pauseSignal = FALSE /\ cfgSignal = FALSE
  /\ riotSup = "down" /\ hearing = "waiting" /\ discordSup = "down"
  /\ mode = "unknown" /\ discordConnected = FALSE /\ agentResolved = FALSE
  /\ todo = <<>> /\ held = NoState

--------------------------------------------------------------------------------
(* The cases of the loop's select.                                         *)

AtSelect == todo = <<>>

\* As OnUpdate, performing a change whatever the mode.
OnUpdateInEveryMode ==
  /\ AtSelect
  /\ updates # <<>>
  /\ updates' = Tail(updates)
  /\ DelayUpdate(Head(updates))
  /\ todo' = <<"lookup", "screen">>
  /\ held' = Head(updates)
  /\ UNCHANGED <<current, envVars, localVars>>

\* A change is consumed in every mode and acted on only when connected.
OnUpdate ==
  /\ AtSelect
  /\ updates # <<>>
  /\ updates' = Tail(updates)
  /\ \/ /\ mode = "connected"
        /\ DelayUpdate(Head(updates))
        /\ todo' = <<"lookup", "screen">>
        /\ held' = Head(updates)
     \/ /\ mode # "connected"
        /\ UNCHANGED <<vars, todo, held>>
  /\ UNCHANGED <<current, envVars, localVars>>

\* As OnConfig, resending whatever the mode.
OnConfigInEveryMode ==
  /\ AtSelect
  /\ cfgSignal
  /\ cfgSignal' = FALSE
  /\ ImmediateUpdate(Get)
  /\ UNCHANGED <<stateVars, loopVars, paused, pauseSignal, riotVars, discordSup>>

OnConfig ==
  /\ AtSelect
  /\ cfgSignal
  /\ cfgSignal' = FALSE
  /\ IF mode = "connected" THEN ImmediateUpdate(Get) ELSE UNCHANGED vars
  /\ UNCHANGED <<stateVars, loopVars, paused, pauseSignal, riotVars, discordSup>>

\* ClearPresence unless the loop has cleared already.
HoldCleared ==
  /\ mode' = "cleared"
  /\ IF mode # "cleared" THEN ClearPresence ELSE UNCHANGED vars

\* Unpaused, reconcile resends on the rising edge of the Discord flag, which
\* it has missed if the flag rose and fell while it was not looking.
ResendOnReconnect ==
  /\ ~paused
  /\ IF discordFlag /\ ~discordConnected /\ mode = "connected"
       THEN ImmediateUpdate(Get) ELSE UNCHANGED vars
  /\ discordConnected' = discordFlag
  /\ todo' = <<"decide">>
  /\ UNCHANGED <<mode, agentResolved, held>>

\* As reconcile, returning on a pause before anything is cleared.
reconcileSkipsWhenPaused ==
  \/ paused /\ UNCHANGED <<vars, loopVars>>
  \/ ResendOnReconnect

\* reconcile up to its switch.  Paused, it holds presence cleared and leaves
\* discordConnected and agentResolved as they are.
reconcile ==
  \/ /\ paused
     /\ HoldCleared
     /\ UNCHANGED <<discordConnected, agentResolved, todo, held>>
  \/ ResendOnReconnect

OnTick ==
  /\ AtSelect
  /\ reconcile
  /\ UNCHANGED <<stateVars, envVars>>

OnPauseSignal ==
  /\ AtSelect
  /\ pauseSignal
  /\ pauseSignal' = FALSE
  /\ reconcile
  /\ UNCHANGED <<stateVars, paused, cfgSignal, riotVars, discordSup>>

--------------------------------------------------------------------------------
(* The rest of the handlers, stretch by stretch.                           *)

At(stretch) == todo # <<>> /\ Head(todo) = stretch

\* The switch of reconcile reads the Riot flags.
Decide ==
  /\ At("decide")
  /\ \/ /\ Showable
        /\ todo' = <<"screen", "enter", "lookup">>
        /\ UNCHANGED <<vars, mode, agentResolved>>
     \/ /\ ~Showable
        /\ HoldCleared
        /\ agentResolved' = FALSE
        /\ todo' = <<>>
  /\ UNCHANGED <<stateVars, envVars, discordConnected, held>>

\* fireScreen: in the menus the log names a screen, or cannot be read.
ReadScreen ==
  /\ At("screen")
  /\ \/ UNCHANGED stateVars
     \/ ~InMatch(current) /\ \E m \in Screen : Apply([current EXCEPT !.screen = m])
  /\ todo' = Tail(todo)
  /\ UNCHANGED <<vars, envVars, localVars, held>>

\* As Enter, staying out of the connected mode until Discord is there.
EnterOnceDiscordIsUp ==
  /\ At("enter")
  /\ IF mode # "connected" /\ discordFlag THEN ImmediateUpdate(Get) ELSE UNCHANGED vars
  /\ mode' = IF discordFlag THEN "connected" ELSE mode
  /\ held' = Get
  /\ todo' = Tail(todo)
  /\ UNCHANGED <<stateVars, envVars, discordConnected, agentResolved>>

\* The state is read, and shown if this is the step into the connected mode
\* and the Discord flag, read once more, is up.  The mode changes either way.
Enter ==
  /\ At("enter")
  /\ IF mode # "connected" /\ discordFlag THEN ImmediateUpdate(Get) ELSE UNCHANGED vars
  /\ mode' = "connected"
  /\ held' = Get
  /\ todo' = Tail(todo)
  /\ UNCHANGED <<stateVars, envVars, discordConnected, agentResolved>>

\* fireLookup outside a match: forget the agent.
ForgetAgent ==
  /\ At("lookup")
  /\ ~InMatch(held)
  /\ IF agentResolved \/ held.agent # NoAgent
       THEN Apply([current EXCEPT !.agent = NoAgent]) ELSE UNCHANGED stateVars
  /\ agentResolved' = FALSE
  /\ todo' = Tail(todo) /\ held' = NoState
  /\ UNCHANGED <<vars, envVars, mode, discordConnected>>

\* fireLookup in a match whose agent is taken as known.
KeepAgent ==
  /\ At("lookup")
  /\ InMatch(held)
  /\ agentResolved
  /\ todo' = Tail(todo) /\ held' = NoState
  /\ UNCHANGED <<vars, stateVars, envVars, localVars>>

\* The match the log speaks about: the running one, or the one just left.
LastMatch == IF InMatch(current) \/ current.entry = 0 THEN current.entry
                                                      ELSE current.entry - 1

\* fireLookup otherwise: the log names the agent, or nobody yet, and the
\* answer goes into whatever state is current by then.
Lookup ==
  /\ At("lookup")
  /\ InMatch(held)
  /\ ~agentResolved
  /\ \/ UNCHANGED stateVars
     \/ /\ AgentOf[LastMatch] \in Agent
        /\ Apply([current EXCEPT !.agent = AgentOf[LastMatch]])
  /\ todo' = <<"resolve">> \o Tail(todo) /\ held' = NoState
  /\ UNCHANGED <<vars, envVars, localVars>>

Resolve ==
  /\ At("resolve")
  /\ agentResolved' = (Get.agent # NoAgent)
  /\ todo' = Tail(todo)
  /\ UNCHANGED <<vars, stateVars, envVars, mode, discordConnected, held>>

HandlerRest ==
  Decide \/ ReadScreen \/ Enter \/ ForgetAgent \/ KeepAgent \/ Lookup \/ Resolve

--------------------------------------------------------------------------------
(* The goroutines beside the loop.                                         *)

\* A presence from Riot overwrites all but the agent and the screen.  A frame
\* still being handled when its connection is closed counts as one that came
\* just before.
ApplyPresence(l, v) ==
  /\ riotSup \in {"open", "up", "reset"}
  /\ Apply([current EXCEPT !.loop = l, !.variant = v])
  /\ hearing' = "heard"
  /\ UNCHANGED <<vars, loopVars, signalVars, riotSup, discordSup>>

StallTimeout ==
  /\ riotSup \in {"open", "up"}
  /\ hearing = "waiting"
  /\ hearing' = "stalled"
  /\ UNCHANGED <<vars, stateVars, loopVars, signalVars, riotSup, discordSup>>

\* RiotSource.Connect and the callback that follows it, or its failure.
RiotConnects ==
  /\ \/ riotSup = "down" /\ riotSup' = "open" /\ hearing' = "waiting"
     \/ riotSup = "open" /\ riotSup' \in {"up", "down"} /\ UNCHANGED hearing
  /\ UNCHANGED <<vars, stateVars, loopVars, signalVars, discordSup>>

\* The socket drops, which the supervisor sees at its next poll.
RiotDrops ==
  /\ riotSup = "up"
  /\ riotSup' = "dropped"
  /\ UNCHANGED <<vars, stateVars, loopVars, signalVars, hearing, discordSup>>

\* The supervisor has seen the socket gone or the game exit.  Disconnect
\* resets the state while the flag is still up and the listener may still run.
RiotResets ==
  /\ riotSup \in {"up", "dropped"}
  /\ riotSup' = IF riotSup = "up" THEN "reset" ELSE "closed"
  /\ hearing' = "waiting"
  /\ Apply(NewState(current.entry + 1))
  /\ UNCHANGED <<vars, loopVars, signalVars, discordSup>>

\* Then it closes the socket, and then the callback lowers the flag.
RiotCloses ==
  /\ \/ riotSup = "reset" /\ riotSup' = "closed"
     \/ riotSup = "closed" /\ riotSup' = "down"
  /\ UNCHANGED <<vars, stateVars, loopVars, signalVars, hearing, discordSup>>

\* The Discord supervisor: connect, raise the flag, see the connection lost
\* (or Discord or the game gone), disconnect, lower the flag.
DiscordOpens ==
  /\ discordSup = "down"
  /\ discordSup' = "open"
  /\ Connect
  /\ UNCHANGED <<stateVars, loopVars, signalVars, riotVars>>

DiscordFlagged ==
  /\ \/ discordSup = "open" /\ discordSup' = "up"
     \/ discordSup = "closed" /\ discordSup' = "down"
  /\ UNCHANGED <<vars, stateVars, loopVars, signalVars, riotVars>>

DiscordCloses ==
  /\ discordSup = "up"
  /\ discordSup' = "closed"
  /\ SendFails
  /\ UNCHANGED <<updaterVars, cfg>>
  /\ UNCHANGED <<stateVars, loopVars, signalVars, riotVars>>

SetPaused(b) ==
  /\ paused' = b
  /\ pauseSignal' = TRUE
  /\ UNCHANGED <<vars, stateVars, loopVars, cfgSignal, riotVars, discordSup>>

\* Store.Apply: swap the snapshot in and notify.  The application ID is one
\* of the settings.
ApplySettings ==
  /\ AppIDChanges \/ \E c \in Config : SetConfig(c)
  /\ cfgSignal' = TRUE
  /\ UNCHANGED <<stateVars, loopVars, paused, pauseSignal, riotVars, discordSup>>

UpdaterRuns ==
  /\ heartbeat \/ \E s \in State : TimerFires(s) \/ executeUpdate(s)
  /\ UNCHANGED <<stateVars, envVars, loopVars>>

LoopNext ==
  \/ OnUpdate \/ OnConfig \/ OnTick \/ OnPauseSignal
  \/ HandlerRest
  \/ \E l \in {"menus", "match"}, v \in Variant : ApplyPresence(l, v)
  \/ StallTimeout \/ RiotConnects \/ RiotDrops \/ RiotResets \/ RiotCloses
  \/ DiscordOpens \/ DiscordFlagged \/ DiscordCloses
  \/ \E b \in BOOLEAN : SetPaused(b)
  \/ ApplySettings
  \/ UpdaterRuns

LoopSafety == LoopInit /\ [][LoopNext]_allVars

\* Go's select picks among its ready cases at random, so a case that is ready
\* again and again is taken: the ticker's.  A handler runs to its end.
LoopSpec ==
  LoopSafety /\ SF_allVars(OnTick) /\ WF_allVars(HandlerRest)

\* The same for the other cases and the rest of the program: timers fire,
\* goroutines queued on a mutex get it, a supervisor retries for ever and acts
\* on a lost connection, and a callback that has been reached is made.
FairSpec ==
  /\ LoopSpec
  /\ SF_allVars(OnUpdate) /\ SF_allVars(OnConfig) /\ SF_allVars(OnPauseSignal)
  /\ WF_allVars(UpdaterRuns)
  /\ WF_allVars(DiscordFlagged) /\ WF_allVars(DiscordOpens)
  /\ WF_allVars(~IsConnected /\ DiscordCloses)

--------------------------------------------------------------------------------
(* Properties.                                                             *)

\* Every variable stays in its range: the change channel never holds more than it
\* has room for, and what is left of a handler is stretches of one.
LoopTypeOK ==
  /\ TypeOK
  /\ current \in GameState
  /\ updates \in Seq(GameState) /\ Len(updates) <= updateBuffer
  /\ <<paused, pauseSignal, cfgSignal>> \in BOOLEAN \X BOOLEAN \X BOOLEAN
  /\ <<discordConnected, agentResolved>> \in BOOLEAN \X BOOLEAN
  /\ riotSup \in {"down", "open", "up", "dropped", "reset", "closed"}
  /\ hearing \in {"waiting", "stalled", "heard"}
  /\ discordSup \in {"down", "open", "up", "closed"}
  /\ mode \in {"unknown", "connected", "cleared"}
  /\ todo \in Seq({"decide", "screen", "enter", "lookup", "resolve"})
  /\ held \in GameState \cup {NoState}

\* No debounced update is armed while presence is held cleared: whatever was
\* pending died with the clear, and queued changes are consumed unperformed
\* (the mode check of the Updates() case, the Stop in ClearPresence).
NothingArmedWhileCleared == mode # "connected" => timer = NoState

\* While presence is held cleared, a card comes back only through a timer
\* goroutine that had fired before the clear and was waiting on u.mu.  No
\* settings change, tick, signal or queued state change brings one back.
OnlyALateTimerUndoesAClear ==
  [][mode # "connected" /\ mode' # "connected" /\ ~heartbeating /\ heartbeating' =>
       \E s \in State : executeUpdate(s)]_allVars

\* If presence should be held cleared from some time on, because of the pause
\* flag, the game or a stalled connection, the loop comes to hold it cleared
\* for good, also when a wake-up signal was dropped.
ClearedInTheEnd == <>[](paused \/ ~Showable) => <>[](mode = "cleared")

\* And if nothing speaks against showing presence any more, the loop comes to
\* the connected mode for good, whatever the Discord supervisor does.
ConnectedInTheEnd == <>[](~paused /\ Showable) => <>[](mode = "connected")

\* "It starts false on every Daemon and clears presence for as long as it is
\* set": once the loop has acted on the pause, no card is up.
PausedStaysCleared == (paused /\ mode = "cleared") => ~heartbeating

\* "Skip while Discord isn't connected yet; the reconnect handler above
\* resends once it is": with both connections up for good, a card comes up.
ReconnectShowsPresence ==
  <>[](mode = "connected" /\ discordFlag /\ IsConnected) =>
    <>(heartbeating \/ \E s \in State : <<s, cfg>> \in Hidden)

\* "The next match has to resolve its own rather than inherit the last one":
\* with the loop at its select and no change waiting, an agent taken as known
\* is the agent of the match that is running.
AgentOfThisMatch ==
  (mode = "connected" /\ AtSelect /\ updates = <<>> /\ InMatch(current)
     /\ agentResolved) =>
       current.agent = AgentOf[current.entry]
================================================================================
