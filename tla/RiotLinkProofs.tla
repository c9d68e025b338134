----------------------------- MODULE RiotLinkProofs -----------------------------
(***************************************************************************)
(* That a connection to the Riot Client carries one subscription, that its *)
(* flag is up, and that it shows what the player published last, for any   *)
(* number of connections and presences, as long as no event is seen in the *)
(* window the watcher leaves open; that discovery misses no client that    *)
(* stays where it looks; and what is read out of a payload, of any length  *)
(* and with any entries.                                                   *)
(***************************************************************************)
EXTENDS RiotLink, Discovery, Decode, SequenceTheorems, WellFoundedInduction, TLAPS

Handling == {"sees", "hears", "applies"}
Started == {"fetch", "check", "hear", "apply", "up"}

\* TypeOK, in parts.
NumbersOK ==
  /\ published \in 0..MaxPresence /\ current \in 0..published /\ snapshot \in 0..published
  /\ conn \in 0..last /\ last \in 0..MaxConn
  /\ handlers \in 0..1
SocketsOK == socket \in [Conn -> [up : BOOLEAN, subs : 0..1]]
FramesOK == frames \in [Conn -> Seq(1..published)]
ListenersOK ==
  /\ listener \in [Conn -> {"none", "reading", "leaves", "done"} \cup Handling]
  /\ event \in [Conn -> 0..published]
FlagsOK ==
  /\ connected \in BOOLEAN
  /\ subscribed \in BOOLEAN /\ sawEvent \in BOOLEAN
  /\ connectedAt \in BOOLEAN /\ presenceAt \in BOOLEAN
  /\ phase \in {"idle", "wait", "mark", "session", "subscribe", "reset", "close"} \cup Started
Types == NumbersOK /\ SocketsOK /\ FramesOK /\ ListenersOK /\ FlagsOK

\* The listener of an earlier socket is done, and a later socket is unused.
ListenersInOrder ==
  /\ conn \in {0, last}
  /\ \A c \in Conn : /\ c < last => listener[c] = "done"
                     /\ c > last => listener[c] = "none" /\ socket[c] = [up |-> FALSE, subs |-> 0]

\* A subscription is made once and replayed on every later socket.
OneSubscription ==
  /\ handlers = IF subscribed THEN 1 ELSE 0
  /\ \A c \in Conn : c = conn => socket[c].subs = handlers
  /\ handlers = 0 => \A c \in Conn : socket[c].subs = 0
  /\ phase = "subscribe" => handlers = 0
  /\ phase \in Started => handlers = 1

Order == ListenersInOrder /\ OneSubscription /\ FlagTellsTruth
IInv == Types /\ Order

LEMMA PartsAreTypes == Types => TypeOK
  BY DEF Types, NumbersOK, SocketsOK, FramesOK, ListenersOK, FlagsOK, TypeOK, Handling, Started

\* One more presence at the end of a queue.
LEMMA Delivered ==
  ASSUME NEW n \in Nat, NEW s \in Seq(1..n), NEW k \in 0..1
  PROVE  LET t == s \o [i \in 1..k |-> n + 1]
         IN  /\ t \in Seq(1..(n + 1))
             /\ k = 0 => t = s
             /\ k = 1 => Len(t) = Len(s) + 1 /\ t[Len(t)] = n + 1
<1>1. [i \in 1..k |-> n + 1] \in Seq(1..(n + 1)) /\ Len([i \in 1..k |-> n + 1]) = k
  OBVIOUS
<1>2. s \in Seq(1..(n + 1))
  OBVIOUS
<1> QED
  BY <1>1, <1>2

\* The first presence of a queue, and the rest of it.
LEMMA FirstAndRest ==
  ASSUME NEW n \in Nat, NEW s \in Seq(1..n), s # <<>>
  PROVE  Head(s) \in 1..n /\ Tail(s) \in Seq(1..n)
  OBVIOUS

LEMMA InitHolds == Init => IInv
<1> SUFFICES ASSUME Init PROVE IInv
  OBVIOUS
<1>1. <<>> \in Seq(1..0)
  OBVIOUS
<1>2. NumbersOK /\ FlagsOK
  <2>1. NumbersOK
    BY LinkAssumption DEF Init, NumbersOK
  <2>2. FlagsOK
    BY DEF Init, FlagsOK
  <2> QED
    BY <2>1, <2>2
<1>3. SocketsOK /\ FramesOK /\ ListenersOK
  BY <1>1 DEF Init, SocketsOK, FramesOK, ListenersOK
<1>4. Order
  BY LinkAssumption
  DEF Init, Order, ListenersInOrder, OneSubscription, FlagTellsTruth, Conn, Started, Running
<1> QED
  BY <1>2, <1>3, <1>4 DEF IInv, Types

--------------------------------------------------------------------------------
(* The Riot Client and the listeners.                                      *)

LEMMA PublishKeeps == IInv /\ Publish => IInv'
<1> SUFFICES ASSUME IInv, Publish PROVE IInv'
  OBVIOUS
<1>1. /\ published \in Nat /\ published' = published + 1 /\ published' \in 0..MaxPresence
      /\ UNCHANGED <<socket, clientVars, listenVars, watchVars, sourceVars, phase>>
  BY LinkAssumption DEF Publish, IInv, Types, NumbersOK
<1>2. FramesOK'
  <2> SUFFICES ASSUME NEW c \in Conn PROVE frames'[c] \in Seq(1..published')
    BY DEF Publish, FramesOK
  <2>1. frames[c] \in Seq(1..published) /\ socket[c].subs \in 0..1
    BY DEF IInv, Types, FramesOK, SocketsOK
  <2>2. frames[c] \in Seq(1..(published + 1))
    BY <1>1, <2>1
  <2>3. frames[c] \o [i \in 1..socket[c].subs |-> published + 1] \in Seq(1..(published + 1))
    BY <1>1, <2>1, Delivered
  <2> QED
    BY <1>1, <2>2, <2>3 DEF Publish
<1>3. NumbersOK' /\ SocketsOK' /\ ListenersOK' /\ FlagsOK'
  BY <1>1
  DEF IInv, Types, NumbersOK, SocketsOK, ListenersOK, FlagsOK, clientVars, listenVars, watchVars,
      sourceVars
<1>4. Order'
  BY <1>1
  DEF IInv, Order, ListenersInOrder, OneSubscription, FlagTellsTruth, Running, clientVars,
      listenVars, watchVars, sourceVars
<1> QED
  BY <1>2, <1>3, <1>4 DEF IInv, Types

LEMMA BreakKeeps == ASSUME IInv, NEW c \in Conn, SocketBreaks(c) PROVE IInv'
<1>1. /\ socket' = [socket EXCEPT ![c].up = FALSE]
      /\ socket[c].up
      /\ UNCHANGED <<published, frames, clientVars, listenVars, watchVars, sourceVars, phase>>
  BY DEF SocketBreaks
<1>2. \A d \in Conn : socket[d] \in [up : BOOLEAN, subs : 0..1]
  BY DEF IInv, Types, SocketsOK
<1>3. /\ SocketsOK'
      /\ \A d \in Conn : /\ socket'[d].subs = socket[d].subs /\ (socket'[d].up => socket[d].up)
                         /\ d # c => socket'[d] = socket[d]
  BY <1>1, <1>2 DEF IInv, Types, SocketsOK
<1>4. /\ NumbersOK'
      /\ FramesOK' /\ ListenersOK'
      /\ FlagsOK'
  <2>1. NumbersOK'
    BY <1>1 DEF IInv, Types, NumbersOK, clientVars, watchVars, sourceVars
  <2>2. FramesOK' /\ ListenersOK'
    BY <1>1 DEF IInv, Types, FramesOK, ListenersOK, listenVars
  <2>3. FlagsOK'
    BY <1>1 DEF IInv, Types, FlagsOK, clientVars, watchVars, sourceVars
  <2> QED
    BY <2>1, <2>2, <2>3
<1>5. ListenersInOrder'
  BY <1>1, <1>3 DEF IInv, Order, ListenersInOrder, clientVars, listenVars
<1>6. OneSubscription' /\ FlagTellsTruth'
  BY <1>1, <1>3 DEF IInv, Order, OneSubscription, FlagTellsTruth, Running, Conn, clientVars,
     listenVars, watchVars
<1> QED
  BY <1>3, <1>4, <1>5, <1>6 DEF IInv, Types, Order

LEMMA ListensKeeps == ASSUME IInv, NEW c \in Conn, Listens(c) PROVE IInv'
<1> USE DEF Goes, At
<1>1. c \in Nat /\ last \in Nat
  BY LinkAssumption DEF IInv, Types, NumbersOK, Conn
\* Only the last socket has a listener that is not done.
<1>2. c = last
  BY <1>1 DEF Listens, Reads, Sees, Hears, Applies, LowersFlag, Leaves, IInv, Order,
     ListenersInOrder
<1>3. PICK where \in {"reading", "leaves", "done"} \cup Handling :
        /\ listener' = [listener EXCEPT ![c] = where]
        /\ where \in {"reading"} \cup Handling => listener[c] \in {"reading"} \cup Handling
  BY DEF Listens, Reads, Sees, Hears, Applies, LowersFlag, Leaves, Handling
<1>4. UNCHANGED <<published, socket, conn, last, handlers, subscribed, snapshot, connectedAt, phase>>
  BY DEF Listens, Reads, Sees, Hears, Applies, LowersFlag, Leaves, riotVars, clientVars,
     watchVars, sourceVars
<1>5. frames[c] # <<>> => Head(frames[c]) \in 0..published /\ Tail(frames[c]) \in Seq(1..published)
  <2> SUFFICES ASSUME frames[c] # <<>>
               PROVE  Head(frames[c]) \in 0..published /\ Tail(frames[c]) \in Seq(1..published)
    OBVIOUS
  <2>1. frames[c] \in Seq(1..published) /\ published \in Nat
    BY LinkAssumption DEF IInv, Types, FramesOK, NumbersOK
  <2>2. Head(frames[c]) \in 1..published /\ Tail(frames[c]) \in Seq(1..published)
    BY <2>1, FirstAndRest
  <2> QED
    BY <2>1, <2>2
<1>6. FramesOK' /\ ListenersOK'
  BY <1>3, <1>4, <1>5 DEF Listens, Reads, Sees, Hears, Applies, LowersFlag, Leaves, riotVars,
     listenVars, IInv, Types, FramesOK, ListenersOK
<1>7. FlagsOK'
  BY <1>4 DEF Listens, Reads, Sees, Hears, Applies, LowersFlag, Leaves, clientVars, watchVars,
     sourceVars, IInv, Types, FlagsOK
<1>8. NumbersOK' /\ SocketsOK'
  BY <1>4 DEF Listens, Reads, Sees, Hears, Applies, LowersFlag, Leaves, sourceVars, IInv, Types,
     NumbersOK, SocketsOK, ListenersOK
<1>9. ListenersInOrder' /\ OneSubscription'
  <2>1. \A d \in Conn : d # last => listener'[d] = listener[d]
    BY <1>2, <1>3 DEF IInv, Types, ListenersOK
  <2> QED
    BY <1>1, <1>4, <2>1 DEF IInv, Order, ListenersInOrder, OneSubscription, Conn
<1>10. FlagTellsTruth'
  <2>1. connected' = connected \/ ~socket[c].up
    BY DEF Listens, Reads, Sees, Hears, Applies, LowersFlag, Leaves, clientVars
  <2>2. \A d \in Conn : Running(d)' => Running(d)
    BY <1>3 DEF Running, IInv, Types, ListenersOK, Handling
  \* The flag is lowered by the listener of the only socket that can be in use.
  <2>3. \A d \in Conn : d = conn => d = c
    BY <1>1, <1>2, LinkAssumption DEF IInv, Order, ListenersInOrder, Conn
  <2> QED
    BY <1>4, <2>1, <2>2, <2>3 DEF IInv, Order, FlagTellsTruth
<1> QED
  BY <1>6, <1>7, <1>8, <1>9, <1>10 DEF IInv, Types, Order

--------------------------------------------------------------------------------
(* The supervisor.                                                         *)

\* A closed client has no connection, whatever else the step changes.
LEMMA DisconnectKeeps ==
  ASSUME IInv, clientDisconnect
  PROVE  /\ SocketsOK' /\ FramesOK'
         /\ \A c \in Conn : /\ socket'[c].subs = socket[c].subs
                            /\ c > last => socket'[c] = socket[c]
         /\ conn' = 0 /\ connected' = FALSE
         /\ UNCHANGED <<published, last, handlers>>
<1>1. \A c \in Conn : socket[c] \in [up : BOOLEAN, subs : 0..1] /\ frames[c] \in Seq(1..published)
  BY DEF IInv, Types, SocketsOK, FramesOK
<1>2. SocketsOK' /\ \A c \in Conn : socket'[c].subs = socket[c].subs
  BY <1>1 DEF clientDisconnect, SocketsOK
<1>3. FramesOK'
  <2>1. <<>> \in Seq(1..published)
    OBVIOUS
  <2> QED
    BY <1>1, <2>1 DEF clientDisconnect, FramesOK
<1>4. conn' = 0 /\ connected' = FALSE /\ UNCHANGED <<published, last, handlers>>
  BY DEF clientDisconnect
<1>5. \A c \in Conn : c > last => socket'[c] = socket[c]
  <2>1. \A c \in Conn : c > last => c # conn
    BY LinkAssumption DEF IInv, Types, NumbersOK, Conn
  <2> QED
    BY <2>1 DEF clientDisconnect
<1> QED
  BY <1>2, <1>3, <1>4, <1>5

LEMMA ClosesKeeps ==
  ASSUME IInv, clientDisconnect, phase' \in {"idle", "wait"},
         UNCHANGED <<listenVars, watchVars, sourceVars>>
  PROVE  IInv'
<1>1. /\ SocketsOK' /\ FramesOK'
      /\ \A c \in Conn : /\ socket'[c].subs = socket[c].subs
                         /\ c > last => socket'[c] = socket[c]
      /\ conn' = 0 /\ connected' = FALSE
      /\ UNCHANGED <<published, last, handlers>>
  BY DisconnectKeeps
<1>2. NumbersOK' /\ ListenersOK' /\ FlagsOK'
  <2>1. NumbersOK'
    BY <1>1, LinkAssumption DEF IInv, Types, NumbersOK, watchVars, sourceVars
  <2>2. ListenersOK'
    BY <1>1 DEF IInv, Types, ListenersOK, listenVars
  <2>3. FlagsOK'
    BY <1>1 DEF IInv, Types, FlagsOK, watchVars, sourceVars
  <2> QED
    BY <2>1, <2>2, <2>3
<1>3. ListenersInOrder'
  BY <1>1 DEF IInv, Order, ListenersInOrder, listenVars
<1>4. OneSubscription' /\ FlagTellsTruth'
  <2>1. \A c \in Conn : c # 0
    BY DEF Conn
  <2> QED
    BY <1>1, <2>1 DEF IInv, Order, OneSubscription, FlagTellsTruth, Started, watchVars
<1> QED
  BY <1>1, <1>2, <1>3, <1>4 DEF IInv, Types, Order

LEMMA StartFailsKeeps == IInv /\ StartFails => IInv'
  BY ClosesKeeps DEF StartFails

LEMMA OpensKeeps == IInv /\ (Connect \/ DialFails \/ Dials) => IInv'
<1> SUFFICES ASSUME IInv, Connect \/ DialFails \/ Dials PROVE IInv'
  OBVIOUS
<1>1. CASE Connect /\ connected
  BY <1>1, ClosesKeeps DEF Connect
<1>2. CASE DialFails \/ (Connect /\ ~connected)
  <2>1. phase' \in {"idle", "wait"} /\ UNCHANGED <<riotVars, clientVars, listenVars, watchVars, sourceVars>>
    BY <1>2 DEF DialFails, Connect
  <2> QED
    BY <2>1 DEF IInv, Types, NumbersOK, SocketsOK, FramesOK, ListenersOK, FlagsOK, Order,
       ListenersInOrder, OneSubscription, FlagTellsTruth, Running, Started, riotVars, clientVars,
       listenVars, watchVars, sourceVars
<1>3. CASE Dials
  <2>1. /\ last' = last + 1 /\ last' \in Conn /\ conn' = last' /\ connected' = TRUE
        /\ last \in Nat /\ handlers \in 0..1
        /\ phase' = "mark"
        /\ UNCHANGED <<published, frames, handlers, event, watchVars, sourceVars>>
    BY <1>3, LinkAssumption DEF Dials, IInv, Types, NumbersOK, Conn
  <2>2. /\ SocketsOK'
        /\ socket'[last'].subs = handlers
        /\ \A c \in Conn : c # last' => socket'[c] = socket[c]
    BY <1>3, <2>1 DEF Dials, IInv, Types, SocketsOK
  <2>3. /\ ListenersOK'
        /\ \A c \in Conn : listener'[c] = IF c = last' THEN "reading" ELSE listener[c]
    BY <1>3, <2>1 DEF Dials, IInv, Types, ListenersOK
  <2>4. NumbersOK' /\ FramesOK' /\ FlagsOK'
    <3>1. NumbersOK'
      BY <2>1, LinkAssumption DEF IInv, Types, NumbersOK, Conn, watchVars, sourceVars
    <3>2. FramesOK'
      BY <2>1 DEF IInv, Types, FramesOK
    <3>3. FlagsOK'
      BY <2>1 DEF IInv, Types, FlagsOK, watchVars, sourceVars
    <3> QED
      BY <3>1, <3>2, <3>3
  <2>5. ListenersInOrder'
    <3> SUFFICES ASSUME NEW c \in Conn
                 PROVE  /\ c < last' => listener'[c] = "done"
                        /\ c > last' => listener'[c] = "none" /\ socket'[c] = [up |-> FALSE, subs |-> 0]
      BY <2>1 DEF ListenersInOrder
    <3>1. c \in Nat /\ (c = last => listener[c] = "done")
      BY <1>3, LinkAssumption DEF Dials, waitClosed, Conn
    <3> QED
      BY <2>1, <2>2, <2>3, <3>1 DEF IInv, Order, ListenersInOrder
  <2>6. OneSubscription'
    BY <2>1, <2>2 DEF IInv, Order, OneSubscription, Started, watchVars
  <2>7. FlagTellsTruth'
    BY <2>1 DEF FlagTellsTruth
  <2> QED
    BY <2>2, <2>3, <2>4, <2>5, <2>6, <2>7 DEF IInv, Types, Order
<1> QED
  BY <1>1, <1>2, <1>3 DEF Connect

\* A step that leaves the sockets, the frames and the listeners alone, and the
\* numbers and flags in their range.
LEMMA QuietStepKeeps ==
  ASSUME IInv, UNCHANGED <<riotVars, clientVars, listenVars, subscribed>>, NumbersOK', FlagsOK',
         phase' = "subscribe" => handlers = 0,
         phase' \in Started => handlers = 1
  PROVE  IInv'
<1>1. Types'
  BY DEF IInv, Types, SocketsOK, FramesOK, ListenersOK, riotVars, listenVars
<1>2. ListenersInOrder' /\ FlagTellsTruth'
  BY DEF IInv, Order, ListenersInOrder, FlagTellsTruth, Running, riotVars, clientVars, listenVars
<1>3. OneSubscription'
  BY DEF IInv, Order, OneSubscription, riotVars, clientVars
<1> QED
  BY <1>1, <1>2, <1>3 DEF IInv, Order

LEMMA StartsKeeps ==
  IInv /\ (markConnected \/ fetchSession \/ Subscribe \/ fetchCurrent) => IInv'
<1> SUFFICES ASSUME IInv, markConnected \/ fetchSession \/ Subscribe \/ fetchCurrent,
                    ~StartFails
             PROVE  IInv'
  BY StartFailsKeeps
<1>1. CASE markConnected \/ fetchSession \/ fetchCurrent
  <2>1. UNCHANGED <<riotVars, clientVars, listenVars, subscribed>>
    BY <1>1 DEF markConnected, fetchSession, fetchCurrent, watchVars
  <2>2. NumbersOK' /\ FlagsOK'
    <3>1. NumbersOK'
      BY <1>1, <2>1, LinkAssumption
      DEF markConnected, fetchSession, fetchCurrent, IInv, Types, NumbersOK, riotVars, clientVars,
          watchVars, sourceVars
    <3>2. FlagsOK'
      BY <1>1, <2>1
      DEF markConnected, fetchSession, fetchCurrent, IInv, Types, FlagsOK, Started, clientVars,
          watchVars, sourceVars
    <3> QED
      BY <3>1, <3>2
  <2>3. (phase' = "subscribe" => handlers = 0) /\ (phase' \in Started => handlers = 1)
    BY <1>1 DEF markConnected, fetchSession, fetchCurrent, IInv, Order, OneSubscription, Started
  <2> QED
    BY <2>1, <2>2, <2>3, QuietStepKeeps
<1>2. CASE Subscribe
  <2>1. /\ phase = "subscribe" /\ phase' = "fetch"
        /\ handlers = 0 /\ handlers' = 1 /\ subscribed' = TRUE
        /\ socket' = IF conn # 0 THEN [socket EXCEPT ![conn].subs = @ + 1] ELSE socket
        /\ UNCHANGED <<published, frames, conn, last, connected, listenVars, sawEvent, snapshot,
                       sourceVars>>
    BY <1>2 DEF Subscribe, SendsFrame, IInv, Order, OneSubscription
  <2>2. \A c \in Conn : socket[c].subs = 0 /\ socket[c] \in [up : BOOLEAN, subs : 0..1]
    BY <2>1 DEF IInv, Types, SocketsOK, Order, OneSubscription
  <2>3. \A c \in Conn : c # 0 /\ c \in Nat
    BY LinkAssumption DEF Conn
  <2>4. /\ \A c \in Conn : socket'[c] = IF c = conn THEN [socket[c] EXCEPT !.subs = 1] ELSE socket[c]
        /\ DOMAIN socket' = Conn /\ socket' = [c \in Conn |-> socket'[c]]
    <3>1. CASE conn = 0
      BY <2>1, <2>3, <3>1 DEF IInv, Types, SocketsOK
    <3>2. CASE conn # 0
      <4>1. conn \in Conn
        BY <3>2, LinkAssumption DEF IInv, Types, NumbersOK, Conn
      <4>2. socket' = [socket EXCEPT ![conn] = [socket[conn] EXCEPT !.subs = 1]]
        <5>1. socket' = [socket EXCEPT ![conn].subs = socket[conn].subs + 1]
          BY <2>1, <3>2, <4>1 DEF IInv, Types, SocketsOK
        <5>2. socket[conn].subs + 1 = 1
          BY <2>2, <4>1
        <5> QED
          BY <5>1, <5>2
      <4> QED
        BY <4>1, <4>2 DEF IInv, Types, SocketsOK
    <3> QED
      BY <3>1, <3>2
  <2>5. SocketsOK'
    BY <2>2, <2>4 DEF SocketsOK
  <2>6. NumbersOK' /\ FramesOK' /\ ListenersOK' /\ FlagsOK'
    BY <2>1 DEF IInv, Types, NumbersOK, FramesOK, ListenersOK, FlagsOK, Started, listenVars,
       sourceVars
  <2>7. ListenersInOrder'
    <3>1. conn \in {0, last}
      BY DEF IInv, Order, ListenersInOrder
    <3>2. \A c \in Conn : c > last => c # conn
      BY <2>3, <3>1, LinkAssumption DEF IInv, Types, NumbersOK
    <3> QED
      BY <2>1, <2>4, <3>1, <3>2 DEF IInv, Order, ListenersInOrder, listenVars
  <2>8. OneSubscription' /\ FlagTellsTruth'
    BY <2>1, <2>2, <2>4 DEF IInv, Order, OneSubscription, FlagTellsTruth, Running, Started,
       listenVars
  <2> QED
    BY <2>5, <2>6, <2>7, <2>8 DEF IInv, Types, Order
<1> QED
  BY <1>1, <1>2

LEMMA ShowsAndClosesKeeps ==
  /\ IInv
  /\ \/ dropIfOvertaken \/ HearSnapshot \/ ApplySnapshot
     \/ markDisconnected \/ ForgetPresence \/ Disconnect
  => IInv'
<1> SUFFICES ASSUME IInv,
                    \/ dropIfOvertaken \/ HearSnapshot \/ ApplySnapshot
                    \/ markDisconnected \/ ForgetPresence \/ Disconnect
             PROVE  IInv'
  OBVIOUS
<1>1. CASE Disconnect
  BY <1>1, ClosesKeeps DEF Disconnect
<1>2. CASE dropIfOvertaken \/ HearSnapshot \/ ApplySnapshot \/ markDisconnected \/ ForgetPresence
  <2>1. UNCHANGED <<riotVars, clientVars, listenVars, watchVars>>
    BY <1>2 DEF dropIfOvertaken, HearSnapshot, ApplySnapshot, markDisconnected, ForgetPresence
  <2>2. NumbersOK' /\ FlagsOK'
    <3>1. NumbersOK'
      BY <1>2, <2>1, LinkAssumption
      DEF dropIfOvertaken, HearSnapshot, ApplySnapshot, markDisconnected, ForgetPresence,
          IInv, Types, NumbersOK, riotVars, clientVars, watchVars, sourceVars
    <3>2. FlagsOK'
      BY <1>2, <2>1
      DEF dropIfOvertaken, HearSnapshot, ApplySnapshot, markDisconnected, ForgetPresence,
          IInv, Types, FlagsOK, Started, clientVars, watchVars, sourceVars
    <3> QED
      BY <3>1, <3>2
  <2>3. phase' # "subscribe" /\ (phase' \in Started => handlers = 1)
    BY <1>2 DEF dropIfOvertaken, HearSnapshot, ApplySnapshot, markDisconnected, ForgetPresence,
       Started, IInv, Order, OneSubscription
  <2> QED
    BY <2>1, <2>2, <2>3, QuietStepKeeps DEF watchVars
<1> QED
  BY <1>1, <1>2

LEMMA InvStep == IInv /\ [Next]_vars => IInv'
<1> SUFFICES ASSUME IInv, [Next]_vars PROVE IInv'
  OBVIOUS
<1>1. CASE UNCHANGED vars
  BY <1>1 DEF IInv, Types, NumbersOK, SocketsOK, FramesOK, ListenersOK, FlagsOK, Order,
     ListenersInOrder, OneSubscription, FlagTellsTruth, Running, vars, riotVars, clientVars,
     listenVars, watchVars, sourceVars
<1>2. CASE Supervises
  BY <1>2, OpensKeeps, StartsKeeps, ShowsAndClosesKeeps DEF Supervises
<1> QED
  BY <1>1, <1>2, PublishKeeps, BreakKeeps, ListensKeeps DEF Next

--------------------------------------------------------------------------------

\* No event is subscribed to or handled twice over, and what is shown was
\* published, on any number of connections (socket.go, the registry).
THEOREM LinkTypes == Spec => []TypeOK
<1>1. IInv => TypeOK
  BY PartsAreTypes DEF IInv
<1> QED
  BY <1>1, InitHolds, InvStep, PTL DEF Spec

\* No earlier listener pins a later connection down (client.go, waitClosed).
THEOREM FlagIsTrue == Spec => []FlagTellsTruth
<1>1. IInv => FlagTellsTruth
  BY DEF IInv, Order
<1> QED
  BY <1>1, InitHolds, InvStep, PTL DEF Spec

\* Every connection that Start has finished with is subscribed once, however
\* many came before (socket.go, replaySubscriptions).
THEOREM EachIsSubscribed == Spec => []UpIsSubscribed
<1>1. IInv => UpIsSubscribed
  BY DEF IInv, Order, OneSubscription, UpIsSubscribed, Started
<1> QED
  BY <1>1, InitHolds, InvStep, PTL DEF Spec

--------------------------------------------------------------------------------
(* A quiet connection shows the presence published last.                   *)

\* Nothing waits for the listener, and it handles nothing.
Idle(c) == listener[c] = "reading" /\ frames[c] = <<>>

\* A client that is not connecting has a socket, closed by the peer perhaps.
Standing == phase \notin {"idle", "wait"} => conn # 0

\* The last event on its way, or in hand, is the presence published last.
NewestLast ==
  \A c \in Conn : socket[c].up /\ socket[c].subs = 1 =>
    /\ frames[c] # <<>> => frames[c][Len(frames[c])] = published
    /\ frames[c] = <<>> /\ listener[c] \in Handling => event[c] = published

\* No event comes without a subscription.
NoneUnsubscribed ==
  \A c \in Conn : socket[c].subs = 0 => frames[c] = <<>> /\ listener[c] \notin Handling

\* A snapshot that no event has overtaken is as new as what was handled since.
SnapshotNewest ==
  /\ phase \in {"hear", "apply"} => ~sawEvent
  /\ phase \in {"check", "hear", "apply"} /\ ~sawEvent =>
       \A c \in Conn : c = conn =>
         /\ listener[c] \in {"hears", "applies"} => event[c] <= snapshot
         /\ socket[c].up /\ Idle(c) => snapshot = published

\* So is the presence shown once this connection has read one.
ShownNewest ==
  /\ phase \in {"session", "subscribe"} /\ handlers = 0 => ~presenceAt
  /\ phase \in {"session", "subscribe", "fetch", "check", "hear", "up"} /\ presenceAt =>
       \A c \in Conn : c = conn /\ socket[c].up /\ socket[c].subs = 1 /\ Idle(c) =>
         current = published

Newest == Standing /\ NewestLast /\ NoneUnsubscribed /\ SnapshotNewest /\ ShownNewest

\* The last presence of a queue is in its rest, or is its first.
LEMMA LastOfTail ==
  ASSUME NEW n \in Nat, NEW s \in Seq(1..n), s # <<>>
  PROVE  /\ Tail(s) # <<>> => Tail(s)[Len(Tail(s))] = s[Len(s)]
         /\ Tail(s) = <<>> => Head(s) = s[Len(s)]
<1>1. /\ Len(s) \in Nat \ {0} /\ Tail(s) \in Seq(1..n) /\ Len(Tail(s)) = Len(s) - 1
      /\ Head(s) = s[1]
      /\ \A i \in 1..(Len(s) - 1) : Tail(s)[i] = s[i + 1]
  OBVIOUS
<1>2. Tail(s) # <<>> => Len(s) - 1 \in 1..(Len(s) - 1) /\ (Len(s) - 1) + 1 = Len(s)
  <2>1. Len(Tail(s)) # 0 => Len(s) - 1 \in 1..(Len(s) - 1) /\ (Len(s) - 1) + 1 = Len(s)
    BY <1>1
  <2>2. Tail(s) # <<>> => Len(Tail(s)) \in Nat \ {0}
    <3> DEFINE rest == Tail(s)
    <3>1. rest \in Seq(1..n)
      BY <1>1
    <3> HIDE DEF rest
    <3>2. rest # <<>> => Len(rest) \in Nat \ {0}
      BY <3>1, EmptySeq
    <3> QED
      BY <3>2 DEF rest
  <2> QED
    BY <2>1, <2>2
<1>3. Tail(s) = <<>> => Len(s) = 1
  <2>1. Tail(s) = <<>> => Len(Tail(s)) = 0
    BY EmptySeq
  <2>2. Len(Tail(s)) = 0 => Len(s) = 1
    BY <1>1
  <2> QED
    BY <2>1, <2>2
<1> QED
  BY <1>1, <1>2, <1>3

LEMMA InitNewest == Init => Newest
  BY DEF Init, Newest, Standing, NewestLast, NoneUnsubscribed, SnapshotNewest, ShownNewest, Handling

\* What the steps below need of the invariant above.
LEMMA Known ==
  ASSUME IInv
  PROVE  /\ published \in Nat /\ current \in Nat /\ snapshot \in 0..published /\ last \in Nat
         /\ conn \in {0, last}
         /\ \A c \in Conn :
              /\ c \in Nat \ {0}
              /\ socket[c] \in [up : BOOLEAN, subs : 0..1] /\ frames[c] \in Seq(1..published)
              /\ event[c] \in 0..published
              /\ listener[c] \in {"none", "reading", "leaves", "done"} \cup Handling
              /\ listener[c] \in {"reading"} \cup Handling => c = last
              /\ c > last => listener[c] = "none" /\ socket[c] = [up |-> FALSE, subs |-> 0]
              /\ c = conn => socket[c].subs = handlers
         /\ phase \in Started => handlers = 1
         /\ phase = "subscribe" => handlers = 0
<1>1. published \in Nat /\ current \in Nat /\ snapshot \in 0..published /\ last \in Nat
  BY LinkAssumption DEF IInv, Types, NumbersOK
<1>2. \A c \in Conn : /\ c \in Nat \ {0}
                      /\ socket[c] \in [up : BOOLEAN, subs : 0..1]
                      /\ frames[c] \in Seq(1..published)
                      /\ event[c] \in 0..published
                      /\ listener[c] \in {"none", "reading", "leaves", "done"} \cup Handling
  BY LinkAssumption DEF IInv, Types, SocketsOK, FramesOK, ListenersOK, Conn
<1>3. /\ conn \in {0, last}
      /\ \A c \in Conn :
           /\ c > last => listener[c] = "none" /\ socket[c] = [up |-> FALSE, subs |-> 0]
           /\ listener[c] \in {"reading"} \cup Handling => c = last
  BY <1>1, <1>2 DEF IInv, Order, ListenersInOrder, Handling
<1>4. /\ \A c \in Conn : c = conn => socket[c].subs = handlers
      /\ phase \in Started => handlers = 1
      /\ phase = "subscribe" => handlers = 0
  BY DEF IInv, Order, OneSubscription
<1> QED
  BY <1>1, <1>2, <1>3, <1>4

(* The Riot Client.                                                        *)

LEMMA PublishNewest == IInv /\ Newest /\ Publish => Newest'
<1> SUFFICES ASSUME IInv, Newest, Publish PROVE Newest'
  OBVIOUS
<1>1. /\ published' = published + 1
      /\ UNCHANGED <<socket, conn, handlers, listener, event, sawEvent, snapshot, presenceAt,
                     current, phase>>
  BY DEF Publish, clientVars, listenVars, watchVars, sourceVars
<1>2. \A c \in Conn :
        /\ ~socket[c].up \/ socket[c].subs = 0 => frames'[c] = frames[c]
        /\ socket[c].up /\ socket[c].subs = 1 =>
             frames'[c] # <<>> /\ frames'[c][Len(frames'[c])] = published'
  <2> SUFFICES ASSUME NEW c \in Conn
               PROVE  /\ ~socket[c].up \/ socket[c].subs = 0 => frames'[c] = frames[c]
                      /\ socket[c].up /\ socket[c].subs = 1 =>
                           frames'[c] # <<>> /\ frames'[c][Len(frames'[c])] = published'
    OBVIOUS
  <2>1. published \in Nat /\ frames[c] \in Seq(1..published) /\ socket[c].subs \in 0..1
    BY Known
  <2>2. frames'[c] = IF socket[c].up
                       THEN frames[c] \o [i \in 1..socket[c].subs |-> published + 1]
                       ELSE frames[c]
    BY DEF Publish
  <2> DEFINE t == frames[c] \o [i \in 1..socket[c].subs |-> published + 1]
  <2>3. /\ socket[c].subs = 0 => t = frames[c]
        /\ socket[c].subs = 1 => Len(t) = Len(frames[c]) + 1 /\ t[Len(t)] = published + 1
    BY <2>1, Delivered
  <2>4. Len(frames[c]) \in Nat
    BY <2>1
  <2>5. socket[c].subs = 1 => t # <<>>
    BY <2>3, <2>4
  <2> HIDE DEF t
  <2>6. frames'[c] = IF socket[c].up THEN t ELSE frames[c]
    BY <2>2 DEF t
  <2> QED
    BY <1>1, <2>3, <2>5, <2>6
<1>3. \A c \in Conn : socket[c].subs \in 0..1 /\ (c = conn => socket[c].subs = handlers)
  BY Known
<1>4. Standing' /\ NewestLast' /\ NoneUnsubscribed'
  BY <1>1, <1>2, <1>3 DEF Newest, Standing, NewestLast, NoneUnsubscribed
\* A connection that has started is subscribed, so now there is something to read.
<1>5. SnapshotNewest' /\ ShownNewest'
  BY <1>1, <1>2, <1>3, Known DEF Newest, SnapshotNewest, ShownNewest, Idle, Started
<1> QED
  BY <1>4, <1>5 DEF Newest

LEMMA BreakNewest == ASSUME IInv, Newest, NEW c \in Conn, SocketBreaks(c) PROVE Newest'
<1>1. /\ \A d \in Conn : socket'[d].subs = socket[d].subs /\ (socket'[d].up => socket[d].up)
      /\ UNCHANGED <<published, frames, conn, handlers, listener, event, sawEvent, snapshot,
                     presenceAt, current, phase>>
  BY DEF SocketBreaks, IInv, Types, SocketsOK, clientVars, listenVars, watchVars, sourceVars
<1> QED
  BY <1>1 DEF Newest, Standing, NewestLast, NoneUnsubscribed, SnapshotNewest, ShownNewest, Idle

--------------------------------------------------------------------------------
(* The listener.                                                           *)

LEMMA ReadsNewest == ASSUME IInv, Newest, NEW c \in Conn, Reads(c) PROVE Newest'
<1>1. /\ UNCHANGED <<published, socket, conn, handlers, sawEvent, snapshot, presenceAt, current,
                     phase>>
      /\ frames[c] # <<>>
  BY DEF Reads, clientVars, watchVars, sourceVars
<1>2. \A d \in Conn :
        /\ d = c => listener'[d] = "sees" /\ event'[d] = Head(frames[d])
                    /\ frames'[d] = Tail(frames[d])
        /\ d # c => listener'[d] = listener[d] /\ event'[d] = event[d] /\ frames'[d] = frames[d]
  BY DEF Reads, Goes, IInv, Types, FramesOK, ListenersOK
<1>3. /\ Tail(frames[c]) # <<>> =>
           Tail(frames[c])[Len(Tail(frames[c]))] = frames[c][Len(frames[c])]
      /\ Tail(frames[c]) = <<>> => Head(frames[c]) = frames[c][Len(frames[c])]
  <2>1. published \in Nat /\ frames[c] \in Seq(1..published)
    BY Known
  <2> QED
    BY <1>1, <2>1, LastOfTail
<1>4. socket[c].subs # 0
  BY <1>1 DEF Newest, NoneUnsubscribed
<1>5. Standing' /\ NewestLast' /\ NoneUnsubscribed'
  BY <1>1, <1>2, <1>3, <1>4 DEF Newest, Standing, NewestLast, NoneUnsubscribed
<1>6. SnapshotNewest' /\ ShownNewest'
  BY <1>1, <1>2 DEF Newest, SnapshotNewest, ShownNewest, Idle
<1> QED
  BY <1>5, <1>6 DEF Newest

\* An event seen while the snapshot is in flight overtakes it; none is seen
\* after that has been asked.
LEMMA SeesNewest ==
  ASSUME IInv, Newest, NEW c \in Conn, Sees(c), phase \in {"hear", "apply"} => sawEvent' = sawEvent
  PROVE  Newest'
<1>1. /\ UNCHANGED <<published, socket, frames, conn, handlers, event, snapshot, presenceAt,
                     current, phase>>
      /\ sawEvent' = TRUE
  BY DEF Sees, riotVars, clientVars, sourceVars
<1>2. /\ listener[c] \in Handling
      /\ \A d \in Conn : /\ d = c => listener'[d] = "hears"
                         /\ d # c => listener'[d] = listener[d]
  BY DEF Sees, Goes, At, IInv, Types, ListenersOK, Handling
<1>3. Standing' /\ NewestLast' /\ NoneUnsubscribed' /\ ShownNewest'
  BY <1>1, <1>2 DEF Newest, Standing, NewestLast, NoneUnsubscribed, ShownNewest, Idle, Handling
<1>4. SnapshotNewest'
  BY <1>1 DEF Newest, SnapshotNewest
<1> QED
  BY <1>3, <1>4 DEF Newest

\* A connection with no handler yet hears nothing.
LEMMA HearsNewest == ASSUME IInv, Newest, NEW c \in Conn, Hears(c) PROVE Newest'
<1>1. UNCHANGED <<published, socket, frames, conn, handlers, event, sawEvent, snapshot, current,
                  phase>>
  BY DEF Hears, riotVars, clientVars, watchVars
<1>2. /\ listener[c] = "hears"
      /\ \A d \in Conn : /\ d = c => listener'[d] = "applies"
                         /\ d # c => listener'[d] = listener[d]
  BY DEF Hears, Goes, At, IInv, Types, ListenersOK
<1>3. c = last /\ (c = conn => socket[c].subs = handlers) /\ conn \in {0, last}
  BY <1>2, Known DEF Handling
<1>4. Standing' /\ NewestLast' /\ NoneUnsubscribed' /\ SnapshotNewest'
  BY <1>1, <1>2 DEF Newest, Standing, NewestLast, NoneUnsubscribed, SnapshotNewest, Idle, Handling
<1>5. phase \in {"session", "subscribe"} => handlers # 0
  BY <1>2, <1>3 DEF Newest, Standing, NoneUnsubscribed, Handling
<1>6. ShownNewest'
  <2>1. \A d \in Conn : d = conn => d = c
    BY <1>3, Known
  <2> QED
    BY <1>1, <1>2, <1>5, <2>1 DEF ShownNewest, Idle
<1> QED
  BY <1>4, <1>6 DEF Newest

LEMMA AppliesNewest == ASSUME IInv, Newest, NEW c \in Conn, Applies(c) PROVE Newest'
<1>1. /\ UNCHANGED <<published, socket, frames, conn, handlers, event, sawEvent, snapshot,
                     presenceAt, phase>>
      /\ current' = event[c]
  BY DEF Applies, riotVars, clientVars, watchVars
<1>2. /\ listener[c] = "applies"
      /\ \A d \in Conn : /\ d = c => listener'[d] = "reading"
                         /\ d # c => listener'[d] = listener[d]
  BY DEF Applies, Goes, At, IInv, Types, ListenersOK
<1>3. \A d \in Conn : d = conn => d = c
  BY <1>2, Known DEF Handling
<1>4. Standing' /\ NewestLast' /\ NoneUnsubscribed'
  BY <1>1, <1>2 DEF Newest, Standing, NewestLast, NoneUnsubscribed, Handling
\* With nothing left to read, what was handled is what was published last.
<1>5. socket[c].up /\ socket[c].subs = 1 /\ frames[c] = <<>> => event[c] = published
  BY <1>2 DEF Newest, NewestLast, Handling
<1>6. SnapshotNewest'
  <2>1. phase \in Started /\ c = conn => socket[c].subs = 1
    BY Known
  <2>2. snapshot \in 0..published /\ published \in Nat /\ event[c] \in Nat
    BY Known
  <2> QED
    BY <1>1, <1>2, <1>3, <1>5, <2>1, <2>2 DEF Newest, SnapshotNewest, Idle, Started
<1>7. ShownNewest'
  BY <1>1, <1>3, <1>5 DEF Newest, ShownNewest, Idle
<1> QED
  BY <1>4, <1>6, <1>7 DEF Newest

LEMMA EndsNewest == ASSUME IInv, Newest, NEW c \in Conn, LowersFlag(c) \/ Leaves(c) PROVE Newest'
<1>1. /\ UNCHANGED <<published, socket, frames, conn, handlers, event, sawEvent, snapshot,
                     presenceAt, current, phase>>
      /\ \A d \in Conn : /\ d = c => listener'[d] \in {"leaves", "done"}
                         /\ d # c => listener'[d] = listener[d]
  BY DEF LowersFlag, Leaves, Goes, IInv, Types, ListenersOK, riotVars, clientVars, watchVars,
     sourceVars
<1> QED
  BY <1>1 DEF Newest, Standing, NewestLast, NoneUnsubscribed, SnapshotNewest, ShownNewest, Idle,
     Handling

--------------------------------------------------------------------------------
(* The supervisor.                                                         *)

\* A closed client shows nothing, so it owes nothing.
LEMMA ClosesNewest ==
  ASSUME IInv, Newest, clientDisconnect, phase' \in {"idle", "wait"}, UNCHANGED listenVars
  PROVE  Newest'
<1>1. \A c \in Conn : /\ socket'[c].subs = socket[c].subs
                      /\ socket'[c].up => socket[c].up /\ frames'[c] = frames[c]
                      /\ frames'[c] \in {frames[c], <<>>}
  <2>1. \A c \in Conn : socket[c] \in [up : BOOLEAN, subs : 0..1]
    BY Known
  <2> QED
    BY <2>1 DEF clientDisconnect
<1>2. UNCHANGED <<published, listener, event>>
  BY DEF clientDisconnect, listenVars
<1>3. Standing' /\ SnapshotNewest' /\ ShownNewest'
  BY DEF Standing, SnapshotNewest, ShownNewest
<1>4. NewestLast' /\ NoneUnsubscribed'
  BY <1>1, <1>2 DEF Newest, NewestLast, NoneUnsubscribed
<1> QED
  BY <1>3, <1>4 DEF Newest

\* A step of the supervisor that leaves the sockets and the listener alone.
LEMMA OnlyPhaseNewest ==
  ASSUME Newest, UNCHANGED <<riotVars, clientVars, listenVars>>,
         phase' \notin {"idle", "wait"} => conn # 0, SnapshotNewest', ShownNewest'
  PROVE  Newest'
<1>1. Standing' /\ NewestLast' /\ NoneUnsubscribed'
  BY DEF Newest, Standing, NewestLast, NoneUnsubscribed, riotVars, clientVars, listenVars
<1> QED
  BY <1>1 DEF Newest

LEMMA OpensNewest == IInv /\ Newest /\ (Connect \/ DialFails \/ Dials) => Newest'
<1> SUFFICES ASSUME IInv, Newest, Connect \/ DialFails \/ Dials PROVE Newest'
  OBVIOUS
<1>1. CASE Connect /\ connected
  BY <1>1, ClosesNewest DEF Connect
<1>2. CASE DialFails \/ (Connect /\ ~connected)
  <2>1. phase' \in {"idle", "wait"} /\ UNCHANGED <<riotVars, clientVars, listenVars>>
    BY <1>2 DEF DialFails, Connect
  <2>2. SnapshotNewest' /\ ShownNewest'
    BY <2>1 DEF SnapshotNewest, ShownNewest
  <2> QED
    BY <2>1, <2>2, OnlyPhaseNewest
<1>3. CASE Dials
  <2>1. /\ conn' = last + 1 /\ phase' = "mark" /\ last \in Nat
        /\ UNCHANGED <<published, frames, event>>
    BY <1>3, Known DEF Dials
  <2>2. \A c \in Conn :
          /\ c = conn' => /\ frames[c] = <<>>
                          /\ listener'[c] = "reading"
          /\ c # conn' => socket'[c] = socket[c] /\ listener'[c] = listener[c]
    <3>1. \A c \in Conn : c = conn' => socket[c].subs = 0
      BY <2>1, Known
    <3> QED
      BY <1>3, <2>1, <3>1
      DEF Dials, Newest, NoneUnsubscribed, IInv, Types, SocketsOK, ListenersOK
  <2>3. Standing' /\ SnapshotNewest' /\ ShownNewest'
    BY <2>1 DEF Standing, SnapshotNewest, ShownNewest
  <2>4. NewestLast' /\ NoneUnsubscribed'
    BY <2>1, <2>2 DEF Newest, NewestLast, NoneUnsubscribed, Handling
  <2> QED
    BY <2>3, <2>4 DEF Newest
<1> QED
  BY <1>1, <1>2, <1>3 DEF Connect

LEMMA StartsNewest ==
  IInv /\ Newest /\ (markConnected \/ fetchSession \/ Subscribe \/ fetchCurrent) => Newest'
<1> SUFFICES ASSUME IInv, Newest, markConnected \/ fetchSession \/ Subscribe \/ fetchCurrent
             PROVE  Newest'
  OBVIOUS
<1>1. CASE StartFails
  BY <1>1, ClosesNewest DEF StartFails
<1>2. CASE markConnected
  <2>1. /\ phase = "mark" /\ phase' = "session" /\ presenceAt' = FALSE
        /\ UNCHANGED <<riotVars, clientVars, listenVars>>
    BY <1>2 DEF markConnected
  <2>2. SnapshotNewest' /\ ShownNewest'
    BY <2>1 DEF SnapshotNewest, ShownNewest
  <2> QED
    BY <2>1, <2>2, OnlyPhaseNewest DEF Newest, Standing
<1>3. CASE fetchSession /\ ~StartFails
  <2>1. /\ phase = "session" /\ phase' = IF subscribed THEN "fetch" ELSE "subscribe"
        /\ UNCHANGED <<riotVars, clientVars, listenVars, presenceAt, current>>
    BY <1>3 DEF fetchSession, sourceVars
  <2>2. SnapshotNewest' /\ ShownNewest'
    BY <2>1 DEF Newest, SnapshotNewest, ShownNewest, Idle, riotVars, clientVars, listenVars
  <2> QED
    BY <2>1, <2>2, OnlyPhaseNewest DEF Newest, Standing
\* Whatever was published before the first subscription has not been heard.
<1>4. CASE Subscribe /\ ~StartFails
  <2>1. /\ phase = "subscribe" /\ phase' = "fetch" /\ handlers = 0
        /\ UNCHANGED <<published, frames, conn, listener, event, presenceAt, current>>
    BY <1>4, Known DEF Subscribe, listenVars, sourceVars
  <2>2. \A c \in Conn : frames[c] = <<>> /\ listener[c] \notin Handling
    BY <2>1 DEF IInv, Order, OneSubscription, Newest, NoneUnsubscribed
  <2>3. ~presenceAt
    BY <2>1 DEF Newest, ShownNewest
  <2>4. Standing' /\ SnapshotNewest' /\ ShownNewest'
    BY <2>1, <2>3 DEF Newest, Standing, SnapshotNewest, ShownNewest
  <2>5. NewestLast' /\ NoneUnsubscribed'
    BY <2>1, <2>2 DEF NewestLast, NoneUnsubscribed
  <2> QED
    BY <2>4, <2>5 DEF Newest
\* The answer is no older than anything the listener has in hand.
<1>5. CASE fetchCurrent
  <2>1. /\ phase = "fetch" /\ phase' \in {"check", "up"}
        /\ phase' = "check" => snapshot' = published
        /\ UNCHANGED <<riotVars, clientVars, listenVars, sawEvent, presenceAt, current>>
    BY <1>5 DEF fetchCurrent, sourceVars
  <2>2. \A c \in Conn : event[c] \in 0..published
    BY Known
  <2>3. SnapshotNewest'
    <3>1. published \in Nat
      BY Known
    <3> QED
      BY <2>1, <2>2, <3>1 DEF SnapshotNewest, riotVars, listenVars
  <2>4. ShownNewest'
    BY <2>1 DEF Newest, ShownNewest, Idle, riotVars, clientVars, listenVars
  <2> QED
    BY <2>1, <2>3, <2>4, OnlyPhaseNewest DEF Newest, Standing
<1> QED
  BY <1>1, <1>2, <1>3, <1>4, <1>5

LEMMA ShowsNewest ==
  IInv /\ Newest /\ (dropIfOvertaken \/ HearSnapshot \/ ApplySnapshot) => Newest'
<1> SUFFICES ASSUME IInv, Newest, dropIfOvertaken \/ HearSnapshot \/ ApplySnapshot
             PROVE  Newest'
  OBVIOUS
<1> USE DEF riotVars, clientVars, listenVars, watchVars
<1>1. CASE dropIfOvertaken
  <2>1. /\ phase = "check" /\ phase' = IF sawEvent THEN "up" ELSE "hear"
        /\ UNCHANGED <<riotVars, clientVars, listenVars, watchVars, presenceAt, current>>
    BY <1>1 DEF dropIfOvertaken, sourceVars
  <2>2. SnapshotNewest' /\ ShownNewest'
    BY <2>1 DEF Newest, SnapshotNewest, ShownNewest, Idle
  <2> QED
    BY <2>1, <2>2, OnlyPhaseNewest DEF Newest, Standing
<1>2. CASE HearSnapshot
  <2>1. /\ phase = "hear" /\ phase' = "apply"
        /\ UNCHANGED <<riotVars, clientVars, listenVars, watchVars, current>>
    BY <1>2 DEF HearSnapshot
  <2>2. SnapshotNewest' /\ ShownNewest'
    BY <2>1 DEF Newest, SnapshotNewest, ShownNewest, Idle
  <2> QED
    BY <2>1, <2>2, OnlyPhaseNewest DEF Newest, Standing
<1>3. CASE ApplySnapshot
  <2>1. /\ phase = "apply" /\ phase' = "up" /\ current' = snapshot
        /\ UNCHANGED <<riotVars, clientVars, listenVars, watchVars, presenceAt>>
    BY <1>3 DEF ApplySnapshot
  <2>2. SnapshotNewest' /\ ShownNewest'
    BY <2>1 DEF Newest, SnapshotNewest, ShownNewest, Idle
  <2> QED
    BY <2>1, <2>2, OnlyPhaseNewest DEF Newest, Standing
<1> QED
  BY <1>1, <1>2, <1>3

LEMMA LeavesNewest ==
  IInv /\ Newest /\ (markDisconnected \/ ForgetPresence \/ Disconnect) => Newest'
<1> SUFFICES ASSUME IInv, Newest, markDisconnected \/ ForgetPresence \/ Disconnect
             PROVE  Newest'
  OBVIOUS
<1>1. CASE Disconnect
  BY <1>1, ClosesNewest DEF Disconnect
<1>2. CASE markDisconnected \/ ForgetPresence
  <2>1. /\ phase \in {"up", "reset"} /\ phase' \in {"reset", "close"}
        /\ UNCHANGED <<riotVars, clientVars, listenVars>>
    BY <1>2 DEF markDisconnected, ForgetPresence
  <2>2. SnapshotNewest' /\ ShownNewest'
    BY <2>1 DEF SnapshotNewest, ShownNewest
  <2>3. conn # 0
    BY <2>1 DEF Newest, Standing
  <2> QED
    BY <2>1, <2>2, <2>3, OnlyPhaseNewest
<1> QED
  BY <1>1, <1>2

--------------------------------------------------------------------------------

LEMMA NewestStep ==
  ASSUME IInv, Newest, [Next /\ (phase \in {"hear", "apply"} => sawEvent' = sawEvent)]_vars
  PROVE  Newest'
<1>1. CASE UNCHANGED vars
  BY <1>1 DEF Newest, Standing, NewestLast, NoneUnsubscribed, SnapshotNewest, ShownNewest, Idle,
     vars, riotVars, clientVars, listenVars, watchVars, sourceVars
<1>2. CASE Supervises
  BY <1>2, OpensNewest, StartsNewest, ShowsNewest, LeavesNewest DEF Supervises
<1>3. ASSUME NEW c \in Conn, Listens(c), phase \in {"hear", "apply"} => sawEvent' = sawEvent
      PROVE  Newest'
  BY <1>3, ReadsNewest, SeesNewest, HearsNewest, AppliesNewest, EndsNewest DEF Listens
<1> QED
  BY <1>1, <1>2, <1>3, PublishNewest, BreakNewest DEF Next

\* "An event that landed while this was in flight is newer than the snapshot":
\* but for an event seen after the watcher has looked for one (the run
\* stale_snapshot), a quiet connection that has read a presence shows the one
\* published last, on any number of connections (watcher.go, Start).
THEOREM QuietIsNewest == Undisturbed => []QuietShowsPublished
<1>1. IInv /\ Newest => QuietShowsPublished
  <2> SUFFICES ASSUME IInv, Newest, Quiet, presenceAt PROVE current = published
    BY DEF QuietShowsPublished
  <2>1. phase = "up" /\ conn # 0 /\ handlers = 1
    BY Known DEF Quiet, Newest, Standing, Started
  <2>2. conn \in Conn
    BY <2>1, LinkAssumption DEF IInv, Types, NumbersOK, Conn
  <2>3. socket[conn].subs = 1
    BY <2>1, <2>2, Known
  <2> QED
    BY <2>1, <2>2, <2>3 DEF Quiet, Newest, ShownNewest, Idle
<1>2. Init => IInv /\ Newest
  BY InitHolds, InitNewest
<1>3. IInv /\ Newest /\ [Next /\ (phase \in {"hear", "apply"} => sawEvent' = sawEvent)]_vars
        => (IInv /\ Newest)'
  BY InvStep, NewestStep
<1> QED
  BY <1>1, <1>2, <1>3, PTL DEF Undisturbed

--------------------------------------------------------------------------------
(* Discovery.                                                              *)

\* Whose the lockfile and the credentials are.
FoundTypes ==
  /\ riot \in [RiotClient -> {"none", "starting", "answering", "hung", "gone"}]
  /\ lockfile = NoFile \/ lockfile \in [of : RiotClient, text : {"partial", "http", "whole"}]
  /\ step \in {"check lockfile", "check process"} => creds.of \in RiotClient

\* What a call has come to while the lockfile, or the process table, leads to
\* a client.
LockfileLeads ==
  \A r \in steady.lockfile :
    /\ InLockfile(r)
    /\ step \in {"lockfile", "check lockfile", "found"}
    /\ step # "lockfile" => creds = [of |-> r, protocol |-> "https"]
ProcessLeads ==
  \A r \in steady.process :
    /\ AloneListed(r)
    /\ step \notin {"idle", "sleep", "gave up"}
    /\ step = "check process" => creds = [of |-> r, protocol |-> "https"]
    /\ step = "found" => creds.of = r
FoundInv == FoundTypes /\ LockfileLeads /\ ProcessLeads

LEMMA FindInitHolds == FindInit => FoundInv
<1> SUFFICES ASSUME FindInit PROVE FoundInv
  OBVIOUS
<1>1. FoundTypes
  BY DEF FindInit, FoundTypes
<1>2. steady.lockfile = {} /\ steady.process = {}
  BY DEF FindInit
<1> QED
  BY <1>1, <1>2 DEF FoundInv, LockfileLeads, ProcessLeads

Environment ==
  \E r \in RiotClient : RiotStarts(r) \/ RiotWrites(r) \/ RiotAnswers(r) \/ RiotEnds(r)

LEMMA FindTypesStep ==
  ASSUME FoundTypes, StartsFind \/ Environment \/ Finds PROVE FoundTypes'
<1>1. CASE StartsFind
  BY <1>1 DEF FoundTypes, StartsFind, envFoundVars
<1>2. CASE Environment
  <2>1. PICK r \in RiotClient : RiotStarts(r) \/ RiotWrites(r) \/ RiotAnswers(r) \/ RiotEnds(r)
    BY <1>2 DEF Environment
  <2>2. CASE RiotStarts(r)
    <3>1. lockfile' = lockfile \/ lockfile' = [of |-> r, text |-> "partial"]
      BY <2>2 DEF RiotStarts
    <3>2. /\ riot' \in [RiotClient -> {"none", "starting", "answering", "hung", "gone"}]
          /\ UNCHANGED <<step, creds>>
      BY <2>2 DEF FoundTypes, RiotStarts, findVars
    <3>3. [of |-> r, text |-> "partial"] \in [of : RiotClient, text : {"partial", "http", "whole"}]
      OBVIOUS
    <3>4. lockfile' = NoFile \/ lockfile' \in [of : RiotClient, text : {"partial", "http", "whole"}]
      BY <3>1, <3>3 DEF FoundTypes
    <3>5. NoFile' = NoFile
      BY DEF NoFile
    <3> QED
      BY <3>2, <3>4, <3>5 DEF FoundTypes
  <2>3. CASE RiotWrites(r)
    <3>1. PICK text \in {"http", "whole"} : lockfile' = [of |-> r, text |-> text]
      BY <2>3 DEF RiotWrites
    <3>2. lockfile' \in [of : RiotClient, text : {"partial", "http", "whole"}]
      BY <3>1
    <3>3. UNCHANGED <<riot, step, creds>>
      BY <2>3 DEF RiotWrites, findVars
    <3> QED
      BY <3>2, <3>3 DEF FoundTypes
  <2>4. CASE RiotAnswers(r)
    BY <2>4 DEF FoundTypes, RiotAnswers, findVars
  <2>5. CASE RiotEnds(r)
    <3>1. riot' \in [RiotClient -> {"none", "starting", "answering", "hung", "gone"}]
      BY <2>5 DEF FoundTypes, RiotEnds
    <3>2. lockfile' \in {lockfile, NoFile} /\ UNCHANGED <<step, creds>>
      BY <2>5 DEF RiotEnds, findVars
    <3>3. NoFile' = NoFile
      BY DEF NoFile
    <3>4. lockfile' = NoFile \/ lockfile' \in [of : RiotClient, text : {"partial", "http", "whole"}]
      BY <3>2 DEF FoundTypes
    <3> QED
      BY <3>1, <3>2, <3>3, <3>4 DEF FoundTypes
  <2> QED
    BY <2>1, <2>2, <2>3, <2>4, <2>5
<1>3. CASE Finds
  <2>1. UNCHANGED <<riot, lockfile>>
    BY <1>3 DEF Finds, readLockfile, credentialsFromProcesses, CheckLockfile, CheckProcess,
       Sleeps, envFoundVars
  <2>2. step' \in {"check lockfile", "check process"} => creds'.of \in RiotClient
    <3>1. CASE readLockfile
      <4>1. CASE lockfile.text \in {"missing", "partial"}
        BY <3>1, <4>1 DEF readLockfile
      <4>2. CASE lockfile.text \notin {"missing", "partial"}
        <5>1. creds' = [of |-> lockfile.of, protocol |-> ParsesAs(lockfile)]
          BY <3>1, <4>2 DEF readLockfile
        <5>2. NoFile.text = "missing"
          BY DEF NoFile
        <5>3. lockfile \in [of : RiotClient, text : {"partial", "http", "whole"}]
          BY <4>2, <5>2 DEF FoundTypes
        <5>4. creds'.of = lockfile.of
          BY <5>1
        <5> QED
          BY <5>3, <5>4
      <4> QED
        BY <4>1, <4>2
    <3>2. CASE credentialsFromProcesses
      <4>1. CASE \A q \in RiotClient : ~Listed(q)
        <5>1. step' \in {"sleep", "gave up"}
          BY <3>2, <4>1 DEF credentialsFromProcesses, EndsRound
        <5> QED
          BY <5>1
      <4>2. CASE \E q \in RiotClient : Listed(q)
        <5>1. PICK q \in RiotClient : creds' = [of |-> q, protocol |-> "https"]
          BY <3>2, <4>2 DEF credentialsFromProcesses
        <5>2. creds'.of = q
          BY <5>1
        <5> QED
          BY <5>2
      <4> QED
        BY <4>1, <4>2
    <3>3. CASE CheckLockfile
      BY <3>3 DEF CheckLockfile
    <3>4. CASE CheckProcess
      BY <3>4 DEF CheckProcess, EndsRound
    <3>5. CASE Sleeps
      BY <3>5 DEF Sleeps
    <3> QED
      BY <1>3, <3>1, <3>2, <3>3, <3>4, <3>5 DEF Finds
  <2> QED
    BY <2>1, <2>2 DEF FoundTypes
<1> QED
  BY <1>1, <1>2, <1>3

\* Where the search stands says what it does next.
LEMMA FindsFrom ==
  ASSUME Finds
  PROVE  /\ step = "lockfile" => readLockfile
         /\ step = "process" => credentialsFromProcesses
         /\ step = "check lockfile" => CheckLockfile
         /\ step = "check process" => CheckProcess
         /\ step \in {"lockfile", "process", "check lockfile", "check process", "sleep"}
  BY DEF Finds, readLockfile, credentialsFromProcesses, CheckLockfile, CheckProcess, Sleeps

\* What a step of the search does with a client the lockfile leads to.
LEMMA LockfileStep ==
  ASSUME NEW r \in RiotClient, InLockfile(r), Finds,
         step \in {"lockfile", "check lockfile", "found"},
         step # "lockfile" => creds = [of |-> r, protocol |-> "https"]
  PROVE  step' \in {"check lockfile", "found"} /\ creds' = [of |-> r, protocol |-> "https"]
<1>1. lockfile.of = r /\ lockfile.text = "whole" /\ riot[r] = "answering"
  BY DEF InLockfile
<1>2. CASE step = "lockfile"
  BY <1>1, <1>2, FindsFrom DEF readLockfile, ParsesAs
<1>3. CASE step = "check lockfile"
  <2>1. creds = [of |-> r, protocol |-> "https"]
    BY <1>3
  <2>2. creds.of = r /\ creds.protocol = "https"
    BY <2>1
  <2>3. riot[creds.of] = "answering"
    BY <1>1, <2>2
  <2>4. step' = "found" /\ creds' = creds
    BY <1>3, <2>2, <2>3, FindsFrom DEF CheckLockfile, Passes, Fails
  <2> QED
    BY <2>1, <2>4
<1> QED
  BY <1>2, <1>3, FindsFrom

\* The same where only the process table does: whatever else passes the check
\* of a lockfile would have to be in the table as well.
LEMMA ProcessStep ==
  ASSUME FoundTypes, NEW r \in RiotClient, AloneListed(r), Finds,
         step \notin {"idle", "sleep", "gave up"},
         step = "check process" => creds = [of |-> r, protocol |-> "https"]
  PROVE  /\ step' \in {"check lockfile", "process", "check process", "found"}
         /\ step' = "check process" => creds' = [of |-> r, protocol |-> "https"]
         /\ step' = "found" => creds'.of = r
<1>1. riot[r] = "answering" /\ \A q \in RiotClient : Listed(q) => q = r
  BY DEF AloneListed
<1>2. Listed(r) /\ \A q \in RiotClient : riot[q] = "answering" => q = r
  BY <1>1 DEF Listed
<1>3. CASE step = "lockfile"
  BY <1>3, FindsFrom DEF readLockfile
<1>4. CASE step = "check lockfile"
  <2>1. creds.of \in RiotClient
    BY <1>4 DEF FoundTypes
  <2>2. \/ step' = "found" /\ creds' = creds /\ riot[creds.of] = "answering"
        \/ step' = "process"
    BY <1>4, FindsFrom DEF CheckLockfile, Passes
  <2> QED
    BY <1>2, <2>1, <2>2
<1>5. CASE step = "process"
  <2>1. PICK q \in RiotClient :
          Listed(q) /\ creds' = [of |-> q, protocol |-> "https"] /\ step' = "check process"
    BY <1>2, <1>5, FindsFrom DEF credentialsFromProcesses
  <2> QED
    BY <1>1, <2>1
<1>6. CASE step = "check process"
  <2>1. creds = [of |-> r, protocol |-> "https"]
    BY <1>6
  <2>2. creds.of = r /\ creds.protocol = "https"
    BY <2>1
  <2>3. riot[creds.of] = "answering"
    BY <1>1, <2>2
  <2>4. step' = "found" /\ creds' = creds
    BY <1>6, <2>2, <2>3, FindsFrom DEF CheckProcess, Passes, Fails
  <2> QED
    BY <2>2, <2>4
<1> QED
  BY <1>3, <1>4, <1>5, <1>6, FindsFrom

LEMMA FindStep == FoundInv /\ [FindNext]_foundVars => FoundInv'
<1> SUFFICES ASSUME FoundInv, [FindNext]_foundVars PROVE FoundInv'
  OBVIOUS
<1>1. CASE UNCHANGED foundVars
  BY <1>1 DEF FoundInv, FoundTypes, LockfileLeads, ProcessLeads, InLockfile, AloneListed, Listed,
     foundVars, findingVars, envFoundVars, findVars
<1>2. CASE StartsFind /\ steady' = Sourced
  <2>1. step' = "lockfile" /\ UNCHANGED <<riot, lockfile>>
    BY <1>2 DEF StartsFind, envFoundVars
  <2>2. \A r \in steady'.lockfile : r \in RiotClient /\ InLockfile(r)'
    BY <1>2, <2>1 DEF Sourced, InLockfile
  <2>3. \A r \in steady'.process : r \in RiotClient /\ AloneListed(r)'
    BY <1>2, <2>1 DEF Sourced, AloneListed, Listed
  <2>4. FoundTypes'
    BY <1>2, FindTypesStep DEF FoundInv
  <2> QED
    BY <2>1, <2>2, <2>3, <2>4 DEF FoundInv, LockfileLeads, ProcessLeads
<1>3. CASE /\ Environment \/ Finds
           /\ steady' = [lockfile |-> steady.lockfile \cap Sourced'.lockfile,
                         process |-> steady.process \cap Sourced'.process]
  <2>1. FoundTypes'
    BY <1>3, FindTypesStep DEF FoundInv
  <2>2. \A r \in steady'.lockfile : r \in steady.lockfile /\ r \in RiotClient /\ InLockfile(r)'
    BY <1>3 DEF Sourced
  <2>3. \A r \in steady'.process : r \in steady.process /\ r \in RiotClient /\ AloneListed(r)'
    BY <1>3 DEF Sourced
  <2>4. CASE Environment
    <3>1. UNCHANGED <<step, creds>>
      BY <2>4 DEF Environment, RiotStarts, RiotWrites, RiotAnswers, RiotEnds, findVars
    <3> QED
      BY <2>1, <2>2, <2>3, <3>1 DEF FoundInv, LockfileLeads, ProcessLeads
  <2>5. CASE Finds
    <3>1. LockfileLeads'
      <4> SUFFICES ASSUME NEW r \in steady'.lockfile
                   PROVE  /\ InLockfile(r)'
                          /\ step' \in {"lockfile", "check lockfile", "found"}
                          /\ step' # "lockfile" => creds' = [of |-> r, protocol |-> "https"]
        BY DEF LockfileLeads
      <4>1. r \in RiotClient /\ r \in steady.lockfile /\ InLockfile(r)'
        BY <2>2
      <4>2. step' \in {"check lockfile", "found"} /\ creds' = [of |-> r, protocol |-> "https"]
        BY <2>5, <4>1, LockfileStep DEF FoundInv, LockfileLeads
      <4> QED
        BY <4>1, <4>2
    <3>2. ProcessLeads'
      <4> SUFFICES ASSUME NEW r \in steady'.process
                   PROVE  /\ AloneListed(r)'
                          /\ step' \notin {"idle", "sleep", "gave up"}
                          /\ step' = "check process" => creds' = [of |-> r, protocol |-> "https"]
                          /\ step' = "found" => creds'.of = r
        BY DEF ProcessLeads
      <4>1. r \in RiotClient /\ r \in steady.process /\ AloneListed(r)'
        BY <2>3
      <4>2. /\ step' \in {"check lockfile", "process", "check process", "found"}
            /\ step' = "check process" => creds' = [of |-> r, protocol |-> "https"]
            /\ step' = "found" => creds'.of = r
        BY <2>5, <4>1, ProcessStep DEF FoundInv, ProcessLeads
      <4> QED
        BY <4>1, <4>2
    <3> QED
      BY <2>1, <3>1, <3>2 DEF FoundInv
  <2> QED
    BY <1>3, <2>4, <2>5
<1> QED
  BY <1>1, <1>2, <1>3 DEF FindNext, Environment

\* A client that is there and answers for the length of one call is what the call
\* ends with, if its own whole lockfile or its being alone in the process table
\* leads to it, for any number of clients that crash, hang and leave lockfiles
\* behind and any number of rounds (find in discovery.go).
THEOREM NoCallMisses == FindSpec => []NoCallMissesIt
<1>1. FoundInv => NoCallMissesIt
  BY DEF FoundInv, LockfileLeads, ProcessLeads, NoCallMissesIt
<1> QED
  BY <1>1, FindInitHolds, FindStep, PTL DEF FindSpec

--------------------------------------------------------------------------------
(* The least of a set of naturals.                                         *)

Less == {p \in Nat \X Nat : p[1] < p[2]}

LEMMA LessIsWellFounded == IsWellFoundedOn(Less, Nat)
  BY NatLessThanWellFounded DEF OpToRel, Less

\* A set of naturals that is not empty has a least element.
LEMMA HasLeast == ASSUME NEW T, T \subseteq Nat, T # {} PROVE \E m \in T : \A k \in T : m <= k
<1>1. PICK m \in T : \A k \in T : <<k, m>> \notin Less
  BY LessIsWellFounded, WFMin
<1>2. ASSUME NEW k \in T PROVE m <= k
  <2>1. m \in Nat /\ k \in Nat
    OBVIOUS
  <2>2. ~(k < m)
    <3>1. <<k, m>> \in Nat \X Nat /\ <<k, m>>[1] = k /\ <<k, m>>[2] = m
      BY <2>1
    <3> QED
      BY <1>1, <3>1 DEF Less
  <2> QED
    BY <2>1, <2>2
<1> QED
  BY <1>2

--------------------------------------------------------------------------------
(* The player's own presence.                                              *)

\* What Min chooses.
LEMMA FirstOf ==
  ASSUME NEW n \in Nat, NEW T, T \subseteq 1..n, T # {}
  PROVE  Min(T) \in T /\ \A k \in T : Min(T) <= k
<1>1. T \subseteq Nat
  OBVIOUS
<1>2. \E m \in T : \A k \in T : m <= k
  BY <1>1, HasLeast
<1> QED
  BY <1>2 DEF Min

\* What was said is what Decode makes of the payload that was heard.
SaidInv ==
  /\ heard.entries \in Seq(Entries) /\ said = DecodePayload(heard)
  /\ heard.entries # <<>> => heard.text = "list"

\* StateIsLastPresence, which is inductive by itself.
ShownInv ==
  /\ \A f \in Field \ {"playerCardId"} : shown.fields[f] = decoded.fields[f]
  /\ decoded.name \in {0, shown.name}
  /\ decoded.fields["playerCardId"] \in {0, shown.fields["playerCardId"]}
  /\ shown.availability = "away" <=> decoded.fields["isIdle"] = 1

LEMMA SaidHolds == DecodeSpec => []SaidInv
<1>1. DecodeInit => SaidInv
  <2> SUFFICES ASSUME DecodeInit PROVE SaidInv
    OBVIOUS
  <2>1. heard.text = "" /\ heard.entries = <<>>
    BY DEF DecodeInit
  <2>2. heard.text # "garbled"
    BY <2>1
  <2>3. DOMAIN heard.entries = {}
    <3>1. DOMAIN <<>> = {}
      OBVIOUS
    <3> QED
      BY <2>1, <3>1
  <2>4. ~Mistyped(heard)
    BY <2>3 DEF Mistyped
  <2>5. DecodePayload(heard) = Outcome("ErrNoPresence")
    BY <2>1, <2>2, <2>4 DEF DecodePayload
  <2> QED
    BY <2>1, <2>5, EmptySeq DEF DecodeInit, SaidInv
<1>2. SaidInv /\ [Delivers]_decodeVars => SaidInv'
  <2> SUFFICES ASSUME SaidInv, [Delivers]_decodeVars PROVE SaidInv'
    OBVIOUS
  <2>1. CASE Delivers
    <3>1. PICK payload \in Payload : Deliver(payload)
      BY <2>1 DEF Delivers
    <3>2. heard' = payload /\ said' = DecodePayload(payload)
      BY <3>1 DEF Deliver
    <3>3. payload.entries \in Seq(Entries) /\ (payload.entries # <<>> => payload.text = "list")
      <4>1. CASE payload \in [text : {"", "garbled"}, entries : {<<>>}]
        BY <4>1, EmptySeq
      <4>2. CASE payload \in [text : {"list"}, entries : UNION {[1..n -> Entries] : n \in 0..MaxEntries}]
        <5>1. payload.text = "list" /\ payload.entries \in UNION {[1..n -> Entries] : n \in 0..MaxEntries}
          BY <4>2
        <5>2. PICK n \in 0..MaxEntries : payload.entries \in [1..n -> Entries]
          BY <5>1
        <5> QED
          BY <5>1, <5>2, DecodeAssumption DEF DecodeAssumption
      <4> QED
        BY <4>1, <4>2 DEF Payload
    <3> QED
      BY <3>2, <3>3 DEF SaidInv
  <2>2. CASE UNCHANGED decodeVars
    BY <2>2 DEF SaidInv, decodeVars
  <2> QED
    BY <2>1, <2>2
<1> QED
  BY <1>1, <1>2, PTL DEF DecodeSpec

LEMMA FieldIs == Field = {"playerCardId", "sessionLoopState", "scoreAlly", "isIdle", "queueEntryTime"}
  BY DEF Field, KindOf

\* Where the entries that can be read stand.
Good(entries) == {i \in Mine(entries) : Readable(entries[i])}

\* DecodeEntries reads the first of them.
LEMMA GoodDecides ==
  ASSUME NEW entries
  PROVE  /\ Good(entries) # {} => DecodeEntries(entries) = Says(entries[Min(Good(entries))])
         /\ DecodeEntries(entries).kind = "presence" <=> Good(entries) # {}
  BY DEF DecodeEntries, Good, Says, Outcome

\* A list is looked at entry by entry when each of them is well typed.
LEMMA ListDecodes ==
  ASSUME NEW payload, payload.text = "list"
  PROVE  DecodePayload(payload) = IF Mistyped(payload) THEN Outcome("malformed")
                                  ELSE DecodeEntries(payload.entries)
  BY DEF DecodePayload

\* What decodes to a presence is the presence of an entry.
LEMMA DecodedIsPresence ==
  ASSUME NEW payload, DecodePayload(payload).kind = "presence"
  PROVE  \E entry : DecodePayload(payload) = Says(entry)
<1>1. DecodePayload(payload) = DecodeEntries(payload.entries)
  BY DEF DecodePayload, Outcome
<1> QED
  BY <1>1, GoodDecides

\* Whatever was decoded before, and whatever failed to decode, the state shows
\* the presence decoded last: applyPresence keeps nothing of an older one but
\* the name and the card.
THEOREM LastPresenceShows == DecodeSpec => []StateIsLastPresence
<1>1. DecodeInit => ShownInv
  <2> SUFFICES ASSUME DecodeInit PROVE ShownInv
    OBVIOUS
  <2>1. /\ decoded.name = 0 /\ shown.name = 0 /\ shown.availability = "online"
        /\ decoded.fields = [f \in Field |-> 0] /\ shown.fields = [f \in Field |-> 0]
    BY DEF DecodeInit, NoPresence
  <2>2. \A f \in Field : decoded.fields[f] = 0 /\ shown.fields[f] = 0
    BY <2>1
  <2>3. decoded.fields["playerCardId"] = 0 /\ decoded.fields["isIdle"] = 0
    BY <2>2, FieldIs
  <2>4. 0 # 1 /\ "online" # "away"
    OBVIOUS
  <2> QED
    BY <2>1, <2>2, <2>3, <2>4 DEF ShownInv
<1>2. ShownInv /\ [Delivers]_decodeVars => ShownInv'
  <2> SUFFICES ASSUME ShownInv, [Delivers]_decodeVars PROVE ShownInv'
    OBVIOUS
  <2>1. CASE UNCHANGED <<decoded, shown>>
    BY <2>1 DEF ShownInv
  <2>2. CASE Delivers /\ ~UNCHANGED <<decoded, shown>>
    <3>1. PICK payload \in Payload : Deliver(payload)
      BY <2>2 DEF Delivers
    <3>2. /\ said' = DecodePayload(payload) /\ said'.kind = "presence"
          /\ decoded' = said'.presence /\ shown' = applyPresence(decoded', shown)
      BY <2>2, <3>1 DEF Deliver
    <3>3. PICK entry : said' = Says(entry)
      BY <3>2, DecodedIsPresence
    <3>4. decoded' = decodePrivate(entry)
      BY <3>2, <3>3 DEF Says
    <3> DEFINE p == decoded'
               shows == applyPresence(p, shown)
    <3>5. p.fields = [f \in Field |-> p.fields[f]]
      BY <3>4 DEF decodePrivate
    <3> HIDE DEF p
    <3>6. shows.name = IF p.name # 0 THEN p.name ELSE shown.name
      BY DEF applyPresence
    <3>7. shows.fields["playerCardId"] =
            IF p.fields["playerCardId"] # 0 THEN p.fields["playerCardId"] ELSE shown.fields["playerCardId"]
      BY <3>5, FieldIs DEF applyPresence
    <3>8. \A f \in Field \ {"playerCardId"} : shows.fields[f] = p.fields[f]
      BY <3>5, FieldIs DEF applyPresence
    <3>9. shows.availability = "away" <=> p.fields["isIdle"] = 1
      BY DEF applyPresence, availabilityFor
    <3>10. shown' = shows
      BY <3>2 DEF p
    <3> HIDE DEF shows
    <3>11. p.name \in {0, shows.name} /\ p.fields["playerCardId"] \in {0, shows.fields["playerCardId"]}
      BY <3>6, <3>7
    <3> QED
      BY <3>8, <3>9, <3>10, <3>11 DEF ShownInv, p
  <2> QED
    BY <2>1, <2>2 DEF decodeVars
<1>3. ShownInv => StateIsLastPresence
  BY DEF ShownInv, StateIsLastPresence
<1> QED
  BY <1>1, <1>2, <1>3, PTL DEF DecodeSpec

--------------------------------------------------------------------------------
LEMMA GoodIs ==
  ASSUME NEW entries \in Seq(Entries), NEW i \in 1..Len(entries)
  PROVE  i \in Good(entries) <=> Ours(entries[i]) /\ Readable(entries[i])
<1>1. DOMAIN entries = 1..Len(entries)
  BY LenProperties
<1> QED
  BY <1>1 DEF Good, Mine, Readable

\* The elements after the one that is taken out move up.
LEMMA RemovedIs ==
  ASSUME NEW S, NEW s \in Seq(S), NEW i \in 1..Len(s)
  PROVE  /\ RemoveAt(s, i) \in Seq(S) /\ Len(RemoveAt(s, i)) = Len(s) - 1
         /\ \A k \in 1..(Len(s) - 1) : RemoveAt(s, i)[k] = IF k < i THEN s[k] ELSE s[k + 1]
<1> DEFINE n == Len(s)
           a == SubSeq(s, 1, i - 1)
           b == SubSeq(s, i + 1, n)
<1>1. n \in Nat /\ \A k \in 1..n : s[k] \in S
  BY LenProperties, ElementOfSeq
<1> HIDE DEF n
<1>2. i \in 1..n
  BY DEF n
<1>3. a \in Seq(S) /\ Len(a) = i - 1 /\ \A k \in 1..(i - 1) : a[k] = s[k]
  <2>1. 1 \in Int /\ i - 1 \in Int /\ \A k \in 1..(i - 1) : s[k] \in S
    BY <1>1, <1>2
  <2>2. /\ a \in Seq(S) /\ Len(a) = IF 1 <= i - 1 THEN (i - 1) - 1 + 1 ELSE 0
        /\ \A k \in 1..((i - 1) - 1 + 1) : a[k] = s[1 + k - 1]
    BY <2>1, SubSeqProperties
  <2> HIDE DEF a
  <2>3. Len(a) = i - 1 /\ \A k \in 1..(i - 1) : a[k] = s[k]
    BY <1>2, <2>2
  <2> QED
    BY <2>2, <2>3
<1>4. b \in Seq(S) /\ Len(b) = n - i /\ \A k \in 1..(n - i) : b[k] = s[i + k]
  <2>1. i + 1 \in Int /\ n \in Int /\ \A k \in (i + 1)..n : s[k] \in S
    BY <1>1, <1>2
  <2>2. /\ b \in Seq(S) /\ Len(b) = IF i + 1 <= n THEN n - (i + 1) + 1 ELSE 0
        /\ \A k \in 1..(n - (i + 1) + 1) : b[k] = s[(i + 1) + k - 1]
    BY <2>1, SubSeqProperties
  <2> HIDE DEF b
  <2>3. Len(b) = n - i
    BY <1>1, <1>2, <2>2
  <2>4. ASSUME NEW k \in 1..(n - i) PROVE b[k] = s[i + k]
    <3>1. k \in 1..(n - (i + 1) + 1) /\ (i + 1) + k - 1 = i + k
      BY <1>1, <1>2
    <3> QED
      BY <2>2, <3>1
  <2> QED
    BY <2>2, <2>3, <2>4
<1>5. RemoveAt(s, i) = a \o b
  BY DEF RemoveAt, n
<1> HIDE DEF a, b
<1>6. /\ a \o b \in Seq(S) /\ Len(a \o b) = Len(a) + Len(b)
      /\ \A k \in 1..(Len(a) + Len(b)) : (a \o b)[k] = IF k <= Len(a) THEN a[k] ELSE b[k - Len(a)]
  BY <1>3, <1>4, ConcatProperties
<1>7. Len(a) + Len(b) = n - 1
  BY <1>1, <1>2, <1>3, <1>4
<1>8. ASSUME NEW k \in 1..(n - 1) PROVE (a \o b)[k] = IF k < i THEN s[k] ELSE s[k + 1]
  <2>1. (a \o b)[k] = IF k <= i - 1 THEN a[k] ELSE b[k - (i - 1)]
    BY <1>3, <1>6, <1>7
  <2>2. CASE k < i
    <3>1. k <= i - 1 /\ k \in 1..(i - 1)
      BY <1>1, <1>2, <2>2
    <3> QED
      BY <1>3, <2>1, <2>2, <3>1
  <2>3. CASE ~(k < i)
    <3>1. ~(k <= i - 1) /\ k - (i - 1) \in 1..(n - i) /\ i + (k - (i - 1)) = k + 1
      BY <1>1, <1>2, <2>3
    <3> QED
      BY <1>4, <2>1, <2>3, <3>1
  <2> QED
    BY <2>2, <2>3
<1> QED
  BY <1>5, <1>6, <1>7, <1>8 DEF n

\* The first entry that can be read is the same one without a bad entry.
LEMMA BadEntryHidesNothing ==
  ASSUME NEW entries \in Seq(Entries), NEW i \in 1..Len(entries),
         ~(Ours(entries[i]) /\ Readable(entries[i])),
         DecodeEntries(RemoveAt(entries, i)).kind = "presence"
  PROVE  DecodeEntries(entries) = DecodeEntries(RemoveAt(entries, i))
<1> DEFINE rest == RemoveAt(entries, i)
           n == Len(entries)
           A == Good(entries)
           B == Good(rest)
<1>1. n \in Nat
  BY LenProperties
<1>2. /\ rest \in Seq(Entries) /\ Len(rest) = n - 1
      /\ \A k \in 1..(n - 1) : rest[k] = IF k < i THEN entries[k] ELSE entries[k + 1]
  BY RemovedIs
<1>3. i \notin A
  BY GoodIs
<1>4. B # {}
  BY GoodDecides
<1> HIDE DEF rest
<1>5. A \subseteq 1..n /\ B \subseteq 1..(n - 1)
  <2>1. DOMAIN entries = 1..n /\ DOMAIN rest = 1..(n - 1)
    BY <1>2, LenProperties
  <2> QED
    BY <2>1 DEF Good, Mine
<1>6. \A k \in 1..n : k \in A <=> Ours(entries[k]) /\ Readable(entries[k])
  BY GoodIs
<1>7. \A k \in 1..(n - 1) : k \in B <=> Ours(rest[k]) /\ Readable(rest[k])
  BY <1>2, GoodIs
<1> HIDE DEF n, A, B
<1>8. i \in 1..n /\ n - 1 \in Nat
  BY <1>1 DEF n
<1>9. \A k \in 1..(n - 1) : /\ k < i => (k \in B <=> k \in A) /\ k \in 1..n
                            /\ ~(k < i) => (k \in B <=> k + 1 \in A) /\ k + 1 \in 1..n
  BY <1>1, <1>2, <1>6, <1>7, <1>8
<1> DEFINE b == Min(B)
           a == Min(A)
<1>10. b \in B /\ \A k \in B : b <= k
  BY <1>4, <1>5, <1>8, FirstOf
<1>11. A # {}
  BY <1>5, <1>9, <1>10
<1>12. a \in A /\ \A k \in A : a <= k
  BY <1>1, <1>5, <1>11, FirstOf
<1> HIDE DEF a, b
<1>13. a \in 1..n /\ b \in 1..(n - 1) /\ a # i
  BY <1>3, <1>5, <1>10, <1>12
<1>14. a = IF b < i THEN b ELSE b + 1
  <2>1. a <= IF b < i THEN b ELSE b + 1
    BY <1>9, <1>10, <1>12, <1>13
  <2>2. CASE a < i
    <3>1. a \in 1..(n - 1) /\ a \in B
      <4>1. a \in 1..(n - 1)
        BY <1>1, <1>8, <1>13, <2>2
      <4> QED
        BY <1>9, <1>12, <2>2, <4>1
    <3>2. b <= a
      BY <1>10, <3>1
    <3> QED
      BY <1>1, <1>8, <1>13, <2>1, <2>2, <3>2
  <2>3. CASE ~(a < i)
    <3>1. a - 1 \in 1..(n - 1) /\ ~(a - 1 < i) /\ (a - 1) + 1 = a
      BY <1>1, <1>8, <1>13, <2>3
    <3>2. a - 1 \in B
      BY <1>9, <1>12, <3>1
    <3>3. b <= a - 1
      BY <1>10, <3>2
    <3> QED
      BY <1>1, <1>8, <1>13, <2>1, <2>3, <3>3
  <2> QED
    BY <2>2, <2>3
<1>15. rest[b] = entries[a]
  BY <1>2, <1>13, <1>14 DEF n
<1>16. DecodeEntries(entries) = Says(entries[a]) /\ DecodeEntries(rest) = Says(rest[b])
  BY <1>4, <1>11, GoodDecides DEF A, B, a, b
<1> QED
  BY <1>15, <1>16 DEF rest

\* Decode reads the first entry of ours that can be read: of a payload of any
\* length, a well typed entry that is not ours or is broken can be taken out
\* without changing what is read.  The others need not be assumed well typed: if
\* one of them were not, nothing would be read without the entry either.
THEOREM BadEntriesAreSkipped == DecodeSpec => []BadEntriesHideNothing
<1>1. SaidInv => BadEntriesHideNothing
  <2> SUFFICES ASSUME SaidInv, NEW i \in DOMAIN heard.entries, heard.entries[i].typed,
                      Bad(heard.entries[i]), Without(i).kind = "presence"
               PROVE  said = Without(i)
    BY DEF BadEntriesHideNothing
  <2> DEFINE all == heard.entries
             rest == RemoveAt(all, i)
             less == [heard EXCEPT !.entries = rest]
             n == Len(all)
  <2>1. all \in Seq(Entries) /\ DOMAIN all = 1..n /\ n \in Nat /\ i \in 1..n
    BY LenProperties DEF SaidInv
  <2>2. heard.text = "list" /\ said = DecodePayload(heard)
    BY EmptySeq DEF SaidInv
  <2>3. /\ rest \in Seq(Entries) /\ Len(rest) = n - 1
        /\ \A k \in 1..(n - 1) : rest[k] = IF k < i THEN all[k] ELSE all[k + 1]
    BY <2>1, RemovedIs
  <2>4. DOMAIN rest = 1..(n - 1)
    BY <2>3, LenProperties
  <2>5. less.text = "list" /\ less.entries = rest
    BY <2>2 DEF SaidInv
  <2>6. Without(i) = DecodePayload(less)
    BY DEF Without
  <2> HIDE DEF less, rest, n
  <2>7. ~Mistyped(less) /\ Without(i) = DecodeEntries(rest)
    BY <2>5, <2>6, ListDecodes DEF Outcome
  <2>8. \A k \in 1..(n - 1) : rest[k].typed
    BY <2>4, <2>5, <2>7 DEF Mistyped
  <2>9. ASSUME NEW j \in 1..n, j # i PROVE all[j].typed
    <3>1. CASE j < i
      <4>1. j \in 1..(n - 1)
        BY <2>1, <3>1
      <4> QED
        BY <2>3, <2>8, <3>1, <4>1
    <3>2. CASE ~(j < i)
      <4>1. j - 1 \in 1..(n - 1) /\ ~(j - 1 < i) /\ (j - 1) + 1 = j
        BY <2>1, <2>9, <3>2
      <4> QED
        BY <2>3, <2>8, <4>1
    <3> QED
      BY <3>1, <3>2
  <2>10. ~Mistyped(heard)
    BY <2>1, <2>9 DEF Mistyped
  <2>11. said = DecodeEntries(all)
    BY <2>2, <2>10, ListDecodes
  <2>12. DecodeEntries(all) = DecodeEntries(rest)
    BY <2>1, <2>7, BadEntryHidesNothing DEF Bad, rest, n
  <2> QED
    BY <2>7, <2>11, <2>12
<1> QED
  BY <1>1, SaidHolds, PTL

--------------------------------------------------------------------------------
\* The fields of one scope are read wherever it stands among empty ones.
LEMMA ReadOfOne ==
  ASSUME NEW scopes, DOMAIN scopes = 1..4, NEW p \in 1..4,
         \A k \in 1..4 : k # p => scopes[k] = Nothing, NEW f
  PROVE  read(scopes, f) = IF f \in DOMAIN scopes[p] /\ scopes[p][f].type \in Accepts[KindOf[f]]
                             THEN scopes[p][f].value ELSE 0
<1> DEFINE carrying == {i \in DOMAIN scopes : f \in DOMAIN scopes[i]}
<1>1. DOMAIN Nothing = {}
  BY DEF Nothing
<1>2. carrying = IF f \in DOMAIN scopes[p] THEN {p} ELSE {}
  BY <1>1
<1>3. read(scopes, f) = IF carrying # {} /\ scopes[Min(carrying)][f].type \in Accepts[KindOf[f]]
                          THEN scopes[Min(carrying)][f].value ELSE 0
  BY DEF read
<1> HIDE DEF carrying
<1>4. CASE f \in DOMAIN scopes[p]
  <2>1. carrying = {p} /\ carrying \subseteq 1..4 /\ carrying # {}
    BY <1>2, <1>4
  <2>2. 4 \in Nat
    OBVIOUS
  <2>3. Min(carrying) \in carrying
    BY <2>1, <2>2, FirstOf
  <2>4. Min(carrying) = p
    BY <2>1, <2>3
  <2> QED
    BY <1>3, <1>4, <2>1, <2>4
<1>5. CASE f \notin DOMAIN scopes[p]
  BY <1>2, <1>3, <1>5
<1> QED
  BY <1>4, <1>5

LEMMA MovedIsOurs ==
  ASSUME NEW entry \in Entries, NEW c
  PROVE  /\ Moved(entry, c).puuid = entry.puuid /\ Moved(entry, c).product = entry.product
         /\ Moved(entry, c).private = entry.private
<1>1. entry \in Entry
  BY DecodeAssumption DEF DecodeAssumption
<1> QED
  BY <1>1 DEF Moved, Entry

LEMMA MovedIs ==
  ASSUME NEW entry \in Entries, NEW c \in Container, NEW m, m = Moved(entry, c)
  PROVE  /\ m.name = entry.name
         /\ m.blob = [top |-> Nothing,
                      nested |-> [k \in {c} |-> [type |-> "object", fields |-> entry.blob.top]]]
<1>1. entry \in Entry
  BY DecodeAssumption DEF DecodeAssumption
<1> QED
  BY <1>1 DEF Moved, Entry

\* The fields of a flat blob, moved into a container.
LEMMA MovedReadsTheSame ==
  ASSUME NEW entry \in Entries, NEW c \in Container, entry.blob.nested = Nothing
  PROVE  decodePrivate(Moved(entry, c)) = decodePrivate(entry)
<1> DEFINE m == Moved(entry, c)
           top == entry.blob.top
           old == nestedContainers(entry.blob)
           new == nestedContainers(m.blob)
           p == CASE c = "matchPresenceData" -> 1
                  [] c = "partyPresenceData" -> 2
                  [] c = "playerPresenceData" -> 3
<1>0. m = Moved(entry, c)
  OBVIOUS
<1> HIDE DEF m
<1>1. /\ m.name = entry.name
      /\ m.blob = [top |-> Nothing,
                   nested |-> [k \in {c} |-> [type |-> "object", fields |-> entry.blob.top]]]
  BY <1>0, MovedIs
<1>2. \A k : nested(entry.blob, k) = Nothing
  BY DEF nested, Nothing
<1>3. \A k : nested(m.blob, k) = IF k = c THEN top ELSE Nothing
  BY <1>1 DEF nested
<1>4. DOMAIN old = 1..4 /\ old[4] = top /\ \A k \in 1..4 : k # 4 => old[k] = Nothing
  BY <1>2 DEF nestedContainers
<1>5. /\ DOMAIN new = 1..4
      /\ new[1] = nested(m.blob, "matchPresenceData") /\ new[2] = nested(m.blob, "partyPresenceData")
      /\ new[3] = nested(m.blob, "playerPresenceData") /\ new[4] = Nothing
  BY <1>1 DEF nestedContainers
<1>6. p \in 1..4 /\ new[p] = top /\ \A k \in 1..4 : k # p => new[k] = Nothing
  <2>1. CASE c = "matchPresenceData"
    BY <1>3, <1>5, <2>1
  <2>2. CASE c = "partyPresenceData"
    BY <1>3, <1>5, <2>2
  <2>3. CASE c = "playerPresenceData"
    BY <1>3, <1>5, <2>3
  <2> QED
    BY <2>1, <2>2, <2>3 DEF Container
<1> HIDE DEF p, old, new, top
<1>7. ASSUME NEW f \in Field PROVE read(new, f) = read(old, f)
  <2>1. read(old, f) = IF f \in DOMAIN top /\ top[f].type \in Accepts[KindOf[f]]
                         THEN top[f].value ELSE 0
    <3>1. 4 \in 1..4
      OBVIOUS
    <3> QED
      BY <1>4, <3>1, ReadOfOne
  <2>2. read(new, f) = IF f \in DOMAIN top /\ top[f].type \in Accepts[KindOf[f]]
                         THEN top[f].value ELSE 0
    BY <1>5, <1>6, ReadOfOne
  <2> QED
    BY <2>1, <2>2
<1>8. [f \in Field |-> read(new, f)] = [f \in Field |-> read(old, f)]
  BY <1>7
<1> QED
  BY <1>1, <1>8 DEF decodePrivate, new, old, m

\* decodePrivate reads a flat presence and one whose fields stand in any one
\* of the containers alike.
THEOREM ShapeDoesNotMatter == DecodeSpec => []ShapeIsTheSame
<1>1. SaidInv => ShapeIsTheSame
  <2> SUFFICES ASSUME SaidInv, NEW i \in DOMAIN heard.entries, NEW c \in Container,
                      heard.entries[i].blob.nested = Nothing, said.kind = "presence"
               PROVE  DecodeEntries([heard.entries EXCEPT ![i] = Moved(heard.entries[i], c)]) = said
    BY DEF ShapeIsTheSame
  <2> DEFINE old == heard.entries
             m == Moved(old[i], c)
             new == [old EXCEPT ![i] = m]
  <2>1. old \in Seq(Entries) /\ DOMAIN old = 1..Len(old) /\ old[i] \in Entries
    BY LenProperties, ElementOfSeq DEF SaidInv
  <2>2. heard.entries # <<>>
    BY EmptySeq
  <2>3. said = DecodeEntries(old)
    BY <2>2, ListDecodes DEF SaidInv, Outcome
  <2>4. /\ m.puuid = old[i].puuid /\ m.product = old[i].product /\ m.private = old[i].private
    BY <2>1, MovedIsOurs
  <2>5. decodePrivate(m) = decodePrivate(old[i])
    BY <2>1, MovedReadsTheSame
  <2> HIDE DEF m
  <2>6. DOMAIN new = DOMAIN old /\ new[i] = m /\ \A k \in DOMAIN old : k # i => new[k] = old[k]
    OBVIOUS
  <2> HIDE DEF new
  <2>7. \A k \in DOMAIN old : /\ Ours(new[k]) <=> Ours(old[k])
                              /\ new[k].private = old[k].private
                              /\ Says(new[k]) = Says(old[k])
    BY <2>4, <2>5, <2>6 DEF Ours, Says
  <2>8. Good(new) = Good(old) /\ Good(old) \subseteq DOMAIN old
    BY <2>6, <2>7 DEF Good, Mine, Readable
  <2>9. Good(old) # {}
    BY <2>3, GoodDecides
  <2>10. Min(Good(old)) \in Good(old)
    <3>1. Len(old) \in Nat
      BY <2>1, LenProperties
    <3> QED
      BY <2>1, <2>8, <2>9, <3>1, FirstOf
  <2>11. DecodeEntries(new) = Says(new[Min(Good(old))]) /\ DecodeEntries(old) = Says(old[Min(Good(old))])
    BY <2>8, <2>9, GoodDecides
  <2>12. DecodeEntries(new) = said
    BY <2>3, <2>7, <2>8, <2>10, <2>11
  <2> QED
    BY <2>12 DEF new, m
<1> QED
  BY <1>1, SaidHolds, PTL
=================================================================================
