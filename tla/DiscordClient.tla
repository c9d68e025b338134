------------------------------ MODULE DiscordClient ------------------------------
(***************************************************************************)
(* internal/discord/client.go: the connection to Discord's pipe, shared by *)
(* the supervisor that opens and closes it and the writer that sends over  *)
(* it.  The lock guards the three fields only: it is released while a      *)
(* frame is on its way, so a failure may come back to another connection.  *)
(***************************************************************************)
EXTENDS Naturals

CONSTANTS
  MaxPipes,     \* bound: pipes that are held at a time
  AppID         \* the Discord application ids the setting takes

ASSUME ClientAssumption == MaxPipes \in Nat \ {0}

VARIABLES
  here,         \* the processes that run, of Discord and the game
  appID,        \* the setting
  pipe,         \* each pipe: open, broken by Discord, closed by the client
  conn, connected, connectedAppID,  \* Client, 0 for a nil conn
  at,           \* where the supervisor stands
  dialed,       \* the pipe and application id of its Connect
  leaving,      \* the pipe its Disconnect closes
  sending,      \* the pipe the writer's frame is on, 0 for none
  frame,        \* what that frame is, a card or a clear; a card when none is
  defended      \* the Updater has a card up, which its heartbeat resends

worldVars == <<here, appID>>
connVars == <<conn, connected, connectedAppID>>
supVars == <<at, dialed, leaving>>
writerVars == <<sending, frame, defended>>
ipcVars == <<worldVars, pipe, connVars, supVars, writerVars>>

Pipe == 1..MaxPipes
Needed == {"discord", "game"}

ClientInit ==
  /\ here \in SUBSET Needed
  /\ appID \in AppID
  /\ pipe = [p \in Pipe |-> "closed"]
  /\ conn = 0 /\ connected = FALSE /\ connectedAppID = appID
  /\ at = "idle" /\ dialed = [pipe |-> 0, app |-> appID] /\ leaving = 0
  /\ sending = 0 /\ frame = "card" /\ defended = FALSE

--------------------------------------------------------------------------------
(* Discord, the game and the settings page.                                *)

ProcessStarts(p) ==
  /\ here' = here \cup {p}
  /\ UNCHANGED <<appID, pipe, connVars, supVars, writerVars>>

ProcessEnds(p) ==
  /\ here' = here \ {p}
  /\ pipe' = [q \in Pipe |-> IF p = "discord" /\ pipe[q] = "open" THEN "broken" ELSE pipe[q]]
  /\ UNCHANGED <<appID, connVars, supVars, writerVars>>

SetsAppID(a) ==
  /\ appID' = a
  /\ UNCHANGED <<here, pipe, connVars, supVars, writerVars>>

--------------------------------------------------------------------------------
(* The supervisor: Connect, IsConnected and Disconnect, in turns.          *)

ReadsAppID ==
  /\ at = "idle" /\ here = Needed
  /\ at' = "dial" /\ dialed' = [pipe |-> 0, app |-> appID]
  /\ UNCHANGED <<worldVars, pipe, connVars, leaving, writerVars>>

\* A pipe that nobody holds any more has its number free again.
Held == {conn, dialed.pipe, leaving, sending}

DialsPipe ==
  /\ at = "dial"
  /\ \/ /\ "discord" \in here
        /\ \E p \in Pipe \ Held :
             pipe' = [pipe EXCEPT ![p] = "open"] /\ dialed' = [dialed EXCEPT !.pipe = p]
        /\ at' = "handshake"
     \/ /\ "discord" \notin here
        /\ at' = "idle"
        /\ UNCHANGED <<pipe, dialed>>
  /\ UNCHANGED <<worldVars, connVars, leaving, writerVars>>

Handshakes ==
  /\ at = "handshake"
  /\ \/ /\ pipe[dialed.pipe] = "open"
        /\ at' = "install"
        /\ UNCHANGED <<pipe, dialed>>
     \/ /\ pipe[dialed.pipe] # "open"
        /\ pipe' = [pipe EXCEPT ![dialed.pipe] = "closed"]
        /\ dialed' = [dialed EXCEPT !.pipe = 0]
        /\ at' = "idle"
  /\ UNCHANGED <<worldVars, connVars, leaving, writerVars>>

Installs ==
  /\ at = "install"
  /\ conn' = dialed.pipe /\ connected' = TRUE /\ connectedAppID' = dialed.app
  /\ dialed' = [dialed EXCEPT !.pipe = 0]
  /\ at' = "up"
  /\ UNCHANGED <<worldVars, pipe, leaving, writerVars>>

PipeIsUp == connected /\ connectedAppID = appID

\* The gated connector: the processes count as well as the client itself.
FindsItGone ==
  /\ at = "up"
  /\ ~PipeIsUp \/ here # Needed
  /\ at' = "gone"
  /\ UNCHANGED <<worldVars, pipe, connVars, dialed, leaving, writerVars>>

\* As Disconnects, closing nothing when the application id has changed.
DisconnectsUp ==
  /\ at = "gone"
  /\ leaving' = IF PipeIsUp THEN conn ELSE 0
  /\ conn' = 0 /\ connected' = FALSE
  /\ at' = "close"
  /\ UNCHANGED <<worldVars, pipe, connectedAppID, dialed, writerVars>>

\* A client that is not connected any more closes nothing.
Disconnects ==
  /\ at = "gone"
  /\ leaving' = IF connected THEN conn ELSE 0
  /\ conn' = 0 /\ connected' = FALSE
  /\ at' = "close"
  /\ UNCHANGED <<worldVars, pipe, connectedAppID, dialed, writerVars>>

ClosesPipe ==
  /\ at = "close"
  /\ pipe' = [p \in Pipe |-> IF p = leaving THEN "closed" ELSE pipe[p]]
  /\ leaving' = 0
  /\ at' = "idle"
  /\ UNCHANGED <<worldVars, connVars, dialed, writerVars>>

SupervisesClient ==
  \/ ReadsAppID \/ DialsPipe \/ Handshakes \/ Installs
  \/ FindsItGone \/ Disconnects \/ ClosesPipe

--------------------------------------------------------------------------------
(* The writer: setActivity, as the Updater calls it under its own mutex.   *)

Sends(what) ==
  /\ sending = 0
  /\ connected /\ conn # 0
  /\ sending' = conn /\ frame' = what
  /\ UNCHANGED <<worldVars, pipe, connVars, supVars, defended>>

\* The heartbeat resends a card that is up; with nothing up it sends nothing.
ResendsCard == defended /\ PipeIsUp /\ Sends("card")

\* A new card goes out on whatever connection there is.
SendsCard == Sends("card")

\* A clear leaves nothing up, also when there is no connection to send it on.
ClearsCard ==
  \/ PipeIsUp /\ Sends("clear")
  \/ /\ sending = 0 /\ ~PipeIsUp
     /\ defended' = FALSE
     /\ UNCHANGED <<worldVars, pipe, connVars, supVars, sending, frame>>

FrameArrives ==
  /\ pipe[sending] = "open"
  /\ defended' = (frame = "card")
  /\ UNCHANGED connVars

\* As SendReturns, leaving the connection to the supervisor.
SendReturnsOnly ==
  /\ sending # 0
  /\ sending' = 0 /\ frame' = "card"
  /\ \/ FrameArrives
     \/ /\ pipe[sending] # "open"
        /\ defended' = (defended /\ frame = "card")
        /\ UNCHANGED connVars
  /\ UNCHANGED <<worldVars, pipe, supVars>>

\* A failure drops whatever connection there is now, without closing it.  The
\* card that is up stays up for the heartbeat, unless it was to be cleared.
SendReturns ==
  /\ sending # 0
  /\ sending' = 0 /\ frame' = "card"
  /\ \/ FrameArrives
     \/ /\ pipe[sending] # "open"
        /\ conn' = 0 /\ connected' = FALSE
        /\ defended' = (defended /\ frame = "card")
        /\ UNCHANGED connectedAppID
  /\ UNCHANGED <<worldVars, pipe, supVars>>

ClientNext ==
  \/ \E p \in Needed : ProcessStarts(p) \/ ProcessEnds(p)
  \/ \E a \in AppID : SetsAppID(a)
  \/ SupervisesClient
  \/ ResendsCard \/ SendsCard \/ ClearsCard \/ SendReturns

\* The supervisor goes on, a send comes back, and the heartbeat ticks.  Nobody
\* has to send anything while no card is up.
ClientFairness ==
  WF_ipcVars(SupervisesClient) /\ WF_ipcVars(SendReturns) /\ WF_ipcVars(ResendsCard)

ClientSpec == ClientInit /\ [][ClientNext]_ipcVars /\ ClientFairness

--------------------------------------------------------------------------------
(* Properties.                                                             *)

\* "Disconnect closes the Discord RPC connection": whatever fails, breaks or is
\* changed meanwhile, a pipe that Discord has open is let go of only by closing
\* it, but for the failure of an earlier pipe that arrives late and takes its
\* connection away.  In particular no Connect overwrites one that is open.
OpenPipesAreClosed ==
  [][\A p \in Pipe :
       pipe[p] = "open" /\ p \in {conn, dialed.pipe, leaving} =>
         \/ p \in {conn', dialed'.pipe, leaving'}
         \/ pipe'[p] # "open"
         \/ sending \notin {0, p} /\ sending' = 0]_ipcVars

\* "It marks the client disconnected on any transport failure" and "a changed
\* setting takes effect on reconnect": once Discord, the game and the setting
\* stay as they are and a card stays up, the client comes to a pipe that Discord
\* has open, opened with that application id, and stays on it.  No failure of an
\* earlier pipe that arrives late may take the new one away for good, and a pipe
\* that broke unnoticed is found out by the resend of the card.  With no card up
\* nothing is sent, and such a pipe is kept until something is.
ConnectsForGood ==
  \A a \in AppID :
    <>[](here = Needed /\ appID = a /\ defended) =>
      <>[](connected /\ connectedAppID = a /\ \E p \in Pipe : p = conn /\ pipe[p] = "open")
================================================================================
