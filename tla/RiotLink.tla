-------------------------------- MODULE RiotLink --------------------------------
(***************************************************************************)
(* The way a presence takes from the Riot Client into the state manager:   *)
(* internal/riotclient (the connection and its listener goroutine),        *)
(* internal/riotchat (the watcher: subscription and snapshot) and          *)
(* internal/daemon/riotsource.go (the stall clock and the state).          *)
(*                                                                         *)
(* Two goroutines run here: the Riot supervisor, which connects and later  *)
(* disconnects, and the listener of a connection, which handles events.    *)
(* Presences are numbered in the order the player publishes them.          *)
(***************************************************************************)
EXTENDS Naturals, Sequences

CONSTANTS
  MaxConn,      \* bound: sockets opened
  MaxPresence   \* bound: presences published

ASSUME LinkAssumption == MaxConn \in Nat /\ MaxPresence \in Nat

VARIABLES
  published,    \* Riot: the presence published last, 0 before the first
  socket,       \* Riot: whether each socket is up and how often it is subscribed
  frames,       \* events on their way, per socket
  conn,         \* Client.conn: the socket in use, 0 for nil
  last,         \* the socket opened last; Client.closed is its channel
  connected,    \* Client.connected
  handlers,     \* handlers the registry holds for presence events
  listener,     \* where the listener of each socket stands
  event,        \* the presence it is handling
  subscribed, sawEvent,      \* Watcher
  snapshot,                  \* what fetchCurrent has read
  connectedAt, presenceAt,   \* RiotSource: which of the two times are set
  current,      \* the presence in state.Manager, 0 for NewState
  phase         \* where the supervisor stands

riotVars == <<published, socket, frames>>
clientVars == <<conn, last, connected, handlers>>
listenVars == <<listener, event>>
watchVars == <<subscribed, sawEvent, snapshot>>
sourceVars == <<connectedAt, presenceAt, current>>
vars == <<riotVars, clientVars, listenVars, watchVars, sourceVars, phase>>

Conn == 1..MaxConn
Presence == 1..MaxPresence

Init ==
  /\ published = 0
  /\ socket = [c \in Conn |-> [up |-> FALSE, subs |-> 0]]
  /\ frames = [c \in Conn |-> <<>>]
  /\ conn = 0 /\ last = 0 /\ connected = FALSE /\ handlers = 0
  /\ listener = [c \in Conn |-> "none"]
  /\ event = [c \in Conn |-> 0]
  /\ subscribed = FALSE /\ sawEvent = FALSE /\ snapshot = 0
  /\ connectedAt = FALSE /\ presenceAt = FALSE /\ current = 0
  /\ phase = "idle"

--------------------------------------------------------------------------------
(* The Riot Client.                                                        *)

\* A change goes out on every socket, once for each subscription it carries.
Publish ==
  /\ published < MaxPresence
  /\ published' = published + 1
  /\ frames' = [c \in Conn |->
       IF socket[c].up
         THEN frames[c] \o [i \in 1..socket[c].subs |-> published + 1]
         ELSE frames[c]]
  /\ UNCHANGED <<socket, clientVars, listenVars, watchVars, sourceVars, phase>>

\* A socket drops; what it had delivered may still be read.
SocketBreaks(c) ==
  /\ socket[c].up
  /\ socket' = [socket EXCEPT ![c].up = FALSE]
  /\ UNCHANGED <<published, frames, clientVars, listenVars, watchVars, sourceVars, phase>>

--------------------------------------------------------------------------------
(* riotclient.Client: connecting and disconnecting.                        *)

\* The context is canceled and the socket closed, so its listener reads no
\* more.  Nobody waits for the listener here.
clientDisconnect ==
  /\ conn' = 0 /\ connected' = FALSE
  /\ socket' = [c \in Conn |-> IF c = conn THEN [socket[c] EXCEPT !.up = FALSE] ELSE socket[c]]
  /\ frames' = [c \in Conn |-> IF c = conn THEN <<>> ELSE frames[c]]
  /\ UNCHANGED <<published, last, handlers>>

Connect ==
  /\ phase = "idle"
  /\ phase' = "wait"
  /\ IF connected THEN clientDisconnect ELSE UNCHANGED <<riotVars, clientVars>>
  /\ UNCHANGED <<listenVars, watchVars, sourceVars>>

\* waitClosed: the channel of the previous listener is closed, or there was none.
neverWaits == TRUE
waitClosed == \A c \in Conn : c = last => listener[c] = "done"

\* The credentials, the dial or the replay fails, and nothing is connected.
DialFails ==
  /\ phase = "wait"
  /\ waitClosed
  /\ phase' = "idle"
  /\ UNCHANGED <<riotVars, clientVars, listenVars, watchVars, sourceVars>>

\* A new socket knows nothing of the old one's subscriptions.
DialsWithoutReplay ==
  /\ phase = "wait"
  /\ waitClosed
  /\ last < MaxConn
  /\ last' = last + 1 /\ conn' = last + 1 /\ connected' = TRUE
  /\ socket' = [socket EXCEPT ![last + 1] = [up |-> TRUE, subs |-> 0]]
  /\ listener' = [listener EXCEPT ![last + 1] = "reading"]
  /\ phase' = "mark"
  /\ UNCHANGED <<published, frames, handlers, event, watchVars, sourceVars>>

\* The new socket is published, the subscriptions in the registry are replayed
\* on it, the flag goes up and its listener starts.
Dials ==
  /\ phase = "wait"
  /\ waitClosed
  /\ last < MaxConn
  /\ last' = last + 1 /\ conn' = last + 1 /\ connected' = TRUE
  /\ socket' = [socket EXCEPT ![last + 1] =
                  [up |-> TRUE, subs |-> IF handlers > 0 THEN 1 ELSE 0]]
  /\ listener' = [listener EXCEPT ![last + 1] = "reading"]
  /\ phase' = "mark"
  /\ UNCHANGED <<published, frames, handlers, event, watchVars, sourceVars>>

--------------------------------------------------------------------------------
(* The listener of a socket: listen, dispatch, Watcher.handleEvent and     *)
(* RiotSource.onPresence.                                                  *)

At(c, where) == listener[c] = where
Goes(c, where) == listener' = [listener EXCEPT ![c] = where]

Reads(c) ==
  /\ At(c, "reading")
  /\ frames[c] # <<>>
  /\ event' = [event EXCEPT ![c] = Head(frames[c])]
  /\ frames' = [frames EXCEPT ![c] = Tail(@)]
  /\ Goes(c, "sees")
  /\ UNCHANGED <<published, socket, clientVars, watchVars, sourceVars, phase>>

Sees(c) ==
  /\ At(c, "sees")
  /\ sawEvent' = TRUE
  /\ Goes(c, "hears")
  /\ UNCHANGED <<riotVars, clientVars, event, subscribed, snapshot, sourceVars, phase>>

Hears(c) ==
  /\ At(c, "hears")
  /\ presenceAt' = TRUE
  /\ Goes(c, "applies")
  /\ UNCHANGED <<riotVars, clientVars, event, watchVars, connectedAt, current, phase>>

Applies(c) ==
  /\ At(c, "applies")
  /\ current' = event[c]
  /\ Goes(c, "reading")
  /\ UNCHANGED <<riotVars, clientVars, event, watchVars, connectedAt, presenceAt, phase>>

\* A read fails, and the deferred calls run: the flag first, then the channel.
LowersFlag(c) ==
  /\ At(c, "reading")
  /\ ~socket[c].up
  /\ connected' = FALSE
  /\ Goes(c, "leaves")
  /\ UNCHANGED <<riotVars, conn, last, handlers, event, watchVars, sourceVars, phase>>

Leaves(c) ==
  /\ At(c, "leaves")
  /\ Goes(c, "done")
  /\ UNCHANGED <<riotVars, clientVars, event, watchVars, sourceVars, phase>>

Listens(c) == Reads(c) \/ Sees(c) \/ Hears(c) \/ Applies(c) \/ LowersFlag(c) \/ Leaves(c)

--------------------------------------------------------------------------------
(* RiotSource.Connect after the client's: the clock, then Watcher.Start.   *)

markConnected ==
  /\ phase = "mark"
  /\ connectedAt' = TRUE /\ presenceAt' = FALSE
  /\ phase' = "session"
  /\ UNCHANGED <<riotVars, clientVars, listenVars, watchVars, current>>

\* Start failed: the client is disconnected and the state left as it is.
StartFails ==
  /\ phase' = "idle"
  /\ clientDisconnect
  /\ UNCHANGED <<listenVars, watchVars, sourceVars>>

\* As fetchSession, subscribing on every connection.
fetchSessionSubscribesAgain ==
  /\ phase = "session"
  /\ \/ /\ sawEvent' = FALSE
        /\ phase' = "subscribe"
        /\ UNCHANGED <<riotVars, clientVars, listenVars, subscribed, snapshot, sourceVars>>
     \/ StartFails

\* The subscription outlives the connection, so it is made once.
fetchSession ==
  /\ phase = "session"
  /\ \/ /\ sawEvent' = FALSE
        /\ phase' = IF subscribed THEN "fetch" ELSE "subscribe"
        /\ UNCHANGED <<riotVars, clientVars, listenVars, subscribed, snapshot, sourceVars>>
     \/ StartFails

\* The registry sends a frame for the first handler of a name, and forgets the
\* handler when the frame cannot be sent.
SendsFrame == handlers = 0 /\ conn # 0

Subscribe ==
  /\ phase = "subscribe"
  /\ \/ /\ SendsFrame => socket[conn].up
        /\ handlers' = handlers + 1 /\ subscribed' = TRUE
        /\ socket' = IF SendsFrame THEN [socket EXCEPT ![conn].subs = @ + 1] ELSE socket
        /\ phase' = "fetch"
        /\ UNCHANGED <<published, frames, conn, last, connected, listenVars, sawEvent,
                       snapshot, sourceVars>>
     \/ SendsFrame /\ StartFails

\* The answer holds the presence published by then.  No answer, or none with a
\* presence in it, ends Start without one.
fetchCurrent ==
  /\ phase = "fetch"
  /\ \/ published # 0 /\ snapshot' = published /\ phase' = "check"
     \/ UNCHANGED snapshot /\ phase' = "up"
  /\ UNCHANGED <<riotVars, clientVars, listenVars, subscribed, sawEvent, sourceVars>>

emitsAnyway ==
  /\ phase = "check"
  /\ phase' = "hear"
  /\ UNCHANGED <<riotVars, clientVars, listenVars, watchVars, sourceVars>>

\* A snapshot that an event has overtaken is dropped.
dropIfOvertaken ==
  /\ phase = "check"
  /\ phase' = IF sawEvent THEN "up" ELSE "hear"
  /\ UNCHANGED <<riotVars, clientVars, listenVars, watchVars, sourceVars>>

\* Otherwise it goes the way of an event.
HearSnapshot ==
  /\ phase = "hear"
  /\ presenceAt' = TRUE
  /\ phase' = "apply"
  /\ UNCHANGED <<riotVars, clientVars, listenVars, watchVars, connectedAt, current>>

ApplySnapshot ==
  /\ phase = "apply"
  /\ current' = snapshot
  /\ phase' = "up"
  /\ UNCHANGED <<riotVars, clientVars, listenVars, watchVars, connectedAt, presenceAt>>

--------------------------------------------------------------------------------
(* RiotSource.Disconnect, once the supervisor has seen the flag down or    *)
(* the game gone.                                                          *)

markDisconnected ==
  /\ phase = "up"
  /\ connectedAt' = FALSE /\ presenceAt' = FALSE
  /\ phase' = "reset"
  /\ UNCHANGED <<riotVars, clientVars, listenVars, watchVars, current>>

ForgetPresence ==
  /\ phase = "reset"
  /\ current' = 0
  /\ phase' = "close"
  /\ UNCHANGED <<riotVars, clientVars, listenVars, watchVars, connectedAt, presenceAt>>

Disconnect ==
  /\ phase = "close"
  /\ phase' = "idle"
  /\ clientDisconnect
  /\ UNCHANGED <<listenVars, watchVars, sourceVars>>

Supervises ==
  \/ Connect \/ DialFails \/ Dials
  \/ markConnected \/ fetchSession \/ Subscribe \/ fetchCurrent
  \/ dropIfOvertaken \/ HearSnapshot \/ ApplySnapshot
  \/ markDisconnected \/ ForgetPresence \/ Disconnect

Next ==
  \/ Publish
  \/ \E c \in Conn : SocketBreaks(c) \/ Listens(c)
  \/ Supervises

Spec == Init /\ [][Next]_vars

\* The behaviours in which no event is seen between the moment Start finds
\* that none has overtaken its snapshot and the moment it applies it.
Undisturbed ==
  Init /\ [][Next /\ (phase \in {"hear", "apply"} => sawEvent' = sawEvent)]_vars

--------------------------------------------------------------------------------
(* Properties.                                                             *)

\* Every variable stays in its range.  There is never a second handler and no
\* socket is subscribed twice, so no event is handled twice over; and what is
\* on its way, handled or shown is a presence that was published.
TypeOK ==
  /\ published \in 0..MaxPresence /\ current \in 0..published
  /\ socket \in [Conn -> [up : BOOLEAN, subs : 0..1]]
  /\ frames \in [Conn -> Seq(1..published)]
  /\ conn \in 0..last /\ last \in 0..MaxConn
  /\ connected \in BOOLEAN /\ handlers \in 0..1
  /\ listener \in [Conn -> {"none", "reading", "sees", "hears", "applies", "leaves", "done"}]
  /\ event \in [Conn -> 0..published]
  /\ subscribed \in BOOLEAN /\ sawEvent \in BOOLEAN
  /\ snapshot \in 0..published
  /\ connectedAt \in BOOLEAN /\ presenceAt \in BOOLEAN
  /\ phase \in {"idle", "wait", "mark", "session", "subscribe", "fetch", "check", "hear",
                "apply", "up", "reset", "close"}

Running(c) == listener[c] \in {"reading", "sees", "hears", "applies"}

\* While the socket in use is up and its listener runs, the flag is up: the
\* deferred reset of an earlier listener never lands on a later connection,
\* which would pin it disconnected for good (client.go, waitClosed in Connect).
FlagTellsTruth ==
  \A c \in Conn : c = conn /\ socket[c].up /\ Running(c) => connected

\* A connection that Start has finished with carries one subscription, also
\* when the handler was registered several connections ago (socket.go, the
\* registry and its replay).
UpIsSubscribed ==
  \A c \in Conn : c = conn /\ phase \in {"fetch", "check", "hear", "apply", "up"} =>
    socket[c].subs = 1

\* No event waits, none is being handled and the connection stands.
Quiet ==
  /\ phase = "up"
  /\ \A c \in Conn : c = conn => socket[c].up /\ listener[c] = "reading" /\ frames[c] = <<>>

\* "An event that landed while this was in flight is newer than the snapshot,
\* so emitting it now would put stale state back on Discord": a connection
\* that has read a presence and has nothing left to read shows the presence
\* the player published last.
QuietShowsPublished == Quiet /\ presenceAt => current = published
================================================================================
