------------------------------- MODULE Supervisors -------------------------------
(***************************************************************************)
(* internal/daemon/supervisor.go, riot_supervisor.go and                   *)
(* discord_supervisor.go: the two connection supervisors, their gates, the *)
(* process polls they go by, and shutdown (docs/adr/0002 and 0003).        *)
(*                                                                         *)
(* A supervisor is one goroutine.  Beside it run the goroutine of its      *)
(* connect attempt, which it may leave behind, and a poller that looks for *)
(* processes.  What Connect and Disconnect do is left to their modules:    *)
(* here a connection is there or not, and may drop at any time.            *)
(***************************************************************************)
EXTENDS Naturals, Sequences

VARIABLES
  running,    \* the processes that run: Riot Client, Valorant, Discord
  canceled,   \* the context of Daemon.Run
  gameUp,     \* RiotSupervisor.gameUp
  processUp,  \* DiscordSupervisor.processUp
  sawClient,  \* what checkGame has read of the Riot Client, "no" before it has
  stage,      \* where each supervisor stands
  read,       \* the conditions of IsConnected it has found to hold
  attempt,    \* its connect attempt
  link,       \* the connection itself
  flag        \* Connected(): set and cleared by the callbacks

processVars == <<running, gameUp, processUp, sawClient>>
linkVars == <<attempt, link>>
vars == <<canceled, processVars, stage, read, linkVars, flag>>

Sup == {"riot", "discord"}
Process == {"client", "game", "discord"}
Peer == [riot |-> "client", discord |-> "discord"]

Init ==
  /\ running \in SUBSET Process
  /\ canceled = FALSE
  /\ gameUp = FALSE /\ processUp = FALSE /\ sawClient = "no"
  /\ stage = [s \in Sup |-> "prime"]
  /\ read = [s \in Sup |-> 0]
  /\ attempt = [s \in Sup |-> "none"]
  /\ link = [s \in Sup |-> FALSE]
  /\ flag = [s \in Sup |-> FALSE]

At(s, where) == stage[s] = where
Goes(s, where) == stage' = [stage EXCEPT ![s] = where]

--------------------------------------------------------------------------------
(* The world: processes come and go, a connection drops, the user quits.   *)

Toggles(p) ==
  /\ running' = IF p \in running THEN running \ {p} ELSE running \cup {p}
  /\ UNCHANGED <<canceled, gameUp, processUp, sawClient, stage, read, linkVars, flag>>

LinkDrops(s) ==
  /\ link[s]
  /\ link' = [link EXCEPT ![s] = FALSE]
  /\ UNCHANGED <<canceled, processVars, stage, read, attempt, flag>>

Quit ==
  /\ ~canceled
  /\ canceled' = TRUE
  /\ UNCHANGED <<processVars, stage, read, linkVars, flag>>

--------------------------------------------------------------------------------
(* The polls.  Run makes the first one itself, before its loop.  A tick     *)
(* that wins against the end of the context counts as one before it.       *)

Polling(s) == At(s, "prime") \/ ~canceled
Primed(s) == IF At(s, "prime") THEN Goes(s, "gate") ELSE UNCHANGED stage

\* checkGame lists the processes twice, once for each name.
ReadsClient ==
  /\ Polling("riot")
  /\ sawClient = "no"
  /\ sawClient' = IF "client" \in running THEN "running" ELSE "gone"
  /\ UNCHANGED <<canceled, running, gameUp, processUp, stage, read, linkVars, flag>>

ReadsGame ==
  /\ sawClient # "no"
  /\ gameUp' = (sawClient = "running" /\ "game" \in running)
  /\ sawClient' = "no"
  /\ Primed("riot")
  /\ UNCHANGED <<canceled, running, processUp, read, linkVars, flag>>

\* checkProcess.
ReadsDiscord ==
  /\ Polling("discord")
  /\ processUp' = ("discord" \in running)
  /\ Primed("discord")
  /\ UNCHANGED <<canceled, running, gameUp, sawClient, read, linkVars, flag>>

\* A listing that fails, the second one of checkGame included, leaves what was
\* known, and the poll has done nothing but to be the first.
FirstPollFails(s) ==
  /\ At(s, "prime")
  /\ s = "riot" => sawClient = "no"
  /\ Goes(s, "gate")
  /\ UNCHANGED <<canceled, processVars, read, linkVars, flag>>

--------------------------------------------------------------------------------
(* Supervisor.Run.                                                         *)

\* The top of the loop looks at the context, then asks the gate.  Discord's
\* gate goes on to look for Discord itself.
AsksGate(s) ==
  /\ At(s, "gate")
  /\ ~canceled
  /\ \/ ~gameUp /\ Goes(s, "sleep") /\ UNCHANGED attempt
     \/ gameUp /\ s = "discord" /\ Goes(s, "list") /\ UNCHANGED attempt
     \/ gameUp /\ s = "riot" /\ Goes(s, "dial") /\ attempt' = [attempt EXCEPT ![s] = "dialing"]
  /\ UNCHANGED <<canceled, processVars, read, link, flag>>

ListsDiscord ==
  /\ At("discord", "list")
  /\ \/ "discord" \in running /\ Goes("discord", "dial")
        /\ attempt' = [attempt EXCEPT !["discord"] = "dialing"]
     \/ "discord" \notin running /\ Goes("discord", "sleep") /\ UNCHANGED attempt
  /\ UNCHANGED <<canceled, processVars, read, link, flag>>

ListingFails ==
  /\ At("discord", "list")
  /\ Goes("discord", "sleep")
  /\ UNCHANGED <<canceled, processVars, read, linkVars, flag>>

\* sleep, which the end of the context cuts short.
Wakes(s) ==
  /\ At(s, "sleep")
  /\ \/ Goes(s, "gate")
     \/ canceled /\ Goes(s, "stopped")
  /\ UNCHANGED <<canceled, processVars, read, linkVars, flag>>

\* The goroutine of the attempt: Connect returns, or never does.
DialSucceeds(s) ==
  /\ attempt[s] = "dialing"
  /\ Peer[s] \in running
  /\ attempt' = [attempt EXCEPT ![s] = "ok"]
  /\ link' = [link EXCEPT ![s] = TRUE]
  /\ UNCHANGED <<canceled, processVars, stage, read, flag>>

DialFails(s) ==
  /\ attempt[s] = "dialing"
  /\ attempt' = [attempt EXCEPT ![s] = "failed"]
  /\ UNCHANGED <<canceled, processVars, stage, read, link, flag>>

ReceivesOnce(s) ==
  /\ At(s, "dial")
  /\ attempt[s] \in {"ok", "failed"}
  /\ Goes(s, IF attempt[s] = "ok" THEN "opened" ELSE "stopped")
  /\ attempt' = [attempt EXCEPT ![s] = "none"]
  /\ UNCHANGED <<canceled, processVars, read, link, flag>>

Receives(s) ==
  /\ At(s, "dial")
  /\ attempt[s] \in {"ok", "failed"}
  /\ Goes(s, IF attempt[s] = "ok" THEN "opened" ELSE "sleep")
  /\ attempt' = [attempt EXCEPT ![s] = "none"]
  /\ UNCHANGED <<canceled, processVars, read, link, flag>>

\* An attempt in flight cannot be interrupted and is left behind.
AbandonsOnlyWhenDone(s) ==
  /\ At(s, "dial")
  /\ canceled /\ attempt[s] # "dialing"
  /\ Goes(s, "stopped")
  /\ UNCHANGED <<canceled, processVars, read, linkVars, flag>>

Abandons(s) ==
  /\ At(s, "dial")
  /\ canceled
  /\ Goes(s, "stopped")
  /\ UNCHANGED <<canceled, processVars, read, linkVars, flag>>

\* onConnect.
Raises(s) ==
  /\ At(s, "opened")
  /\ flag' = [flag EXCEPT ![s] = TRUE]
  /\ Goes(s, "up")
  /\ UNCHANGED <<canceled, processVars, read, linkVars>>

\* What the gated connectors' IsConnected reads, in this order.
LinkOnly(s) == <<link[s]>>

Conditions(s) ==
  IF s = "riot" THEN <<link[s], gameUp>> ELSE <<link[s], processUp, gameUp>>

\* waitWhileConnected reads them one after the other at each tick, until one
\* does not hold or the context ends.
Polls(s) ==
  LET holds == Conditions(s)[read[s] + 1]
      last  == read[s] + 1 = Len(Conditions(s))
  IN  /\ At(s, "up")
      /\ read' = [read EXCEPT ![s] = IF holds /\ ~last THEN @ + 1 ELSE 0]
      /\ IF holds THEN UNCHANGED stage ELSE Goes(s, "closing")
      /\ UNCHANGED <<canceled, processVars, linkVars, flag>>

LeavesAtOnce(s) ==
  /\ At(s, "up") /\ read[s] = 0
  /\ canceled
  /\ Goes(s, "stopped")
  /\ UNCHANGED <<canceled, processVars, read, linkVars, flag>>

Leaves(s) ==
  /\ At(s, "up") /\ read[s] = 0
  /\ canceled
  /\ Goes(s, "closing")
  /\ UNCHANGED <<canceled, processVars, read, linkVars, flag>>

ClosesHalfway(s) ==
  /\ At(s, "closing")
  /\ Goes(s, "closed")
  /\ UNCHANGED <<canceled, processVars, read, linkVars, flag>>

\* Disconnect, then onDisconnect.  Run then returns if the context has ended,
\* which the top of its loop comes to as well.
Closes(s) ==
  /\ At(s, "closing")
  /\ link' = [link EXCEPT ![s] = FALSE]
  /\ Goes(s, "closed")
  /\ UNCHANGED <<canceled, processVars, read, attempt, flag>>

Lowers(s) ==
  /\ At(s, "closed")
  /\ flag' = [flag EXCEPT ![s] = FALSE]
  /\ Goes(s, "gate")
  /\ UNCHANGED <<canceled, processVars, read, linkVars>>

Stops(s) ==
  /\ At(s, "gate")
  /\ canceled
  /\ Goes(s, "stopped")
  /\ UNCHANGED <<canceled, processVars, read, linkVars, flag>>

Run(s) ==
  \/ AsksGate(s) \/ (s = "discord" /\ (ListsDiscord \/ ListingFails)) \/ Wakes(s)
  \/ Receives(s) \/ Abandons(s) \/ Raises(s) \/ Polls(s) \/ Leaves(s)
  \/ Closes(s) \/ Lowers(s) \/ Stops(s)

Next ==
  \/ \E p \in Process : Toggles(p)
  \/ Quit
  \/ ReadsClient \/ ReadsGame \/ ReadsDiscord
  \/ \E s \in Sup : \/ LinkDrops(s) \/ FirstPollFails(s)
                    \/ DialSucceeds(s) \/ DialFails(s) \/ Run(s)

\* A supervisor goes on for as long as it can, and a select that finds the
\* context ended again and again picks that case at some time; each supervisor
\* leaves at most once after the end, so one formula serves both.
Scheduled ==
  /\ \A s \in Sup : WF_vars(Run(s))
  /\ SF_vars(\E s \in Sup : Leaves(s))

\* Pollers poll on, and neither listing the processes nor connecting to one
\* that runs fails for ever.
Answered ==
  /\ WF_vars(ReadsClient) /\ WF_vars(ReadsGame) /\ WF_vars(ReadsDiscord)
  /\ SF_vars(ListsDiscord)
  /\ \A s \in Sup : SF_vars(DialSucceeds(s))

Spec == Init /\ [][Next]_vars /\ Scheduled /\ Answered

--------------------------------------------------------------------------------
(* Properties.                                                             *)

Stage == {"prime", "gate", "list", "sleep", "dial", "opened", "up", "closing", "closed",
          "stopped"}

\* Every variable stays in its range, and an attempt is there only while its
\* supervisor waits for it or has left it behind.
TypeOK ==
  /\ running \in SUBSET Process
  /\ <<canceled, gameUp, processUp>> \in BOOLEAN \X BOOLEAN \X BOOLEAN
  /\ sawClient \in {"no", "running", "gone"}
  /\ stage \in [Sup -> Stage]
  /\ read \in [Sup -> 0..2]
  /\ attempt \in [Sup -> {"none", "dialing", "ok", "failed"}]
  /\ <<link, flag>> \in [Sup -> BOOLEAN] \X [Sup -> BOOLEAN]
  /\ \A s \in Sup : attempt[s] # "none" => stage[s] \in {"dial", "stopped"}

\* A connection is open only where its supervisor has yet to close it or to hear
\* of it from its attempt, and a supervisor that has returned has lowered its
\* flag, on every way out of Supervisor.Run.  So all that shutdown can leave open
\* is what an attempt it did not wait for opens: nobody closes that (connect).
NothingLeftOpen ==
  \A s \in Sup :
    /\ link[s] => stage[s] \in {"opened", "up", "closing"} \/ attempt[s] = "ok"
    /\ At(s, "stopped") => ~flag[s]

\* Each supervisor is a Connection: one connection at a time, never dialed over
\* an open one, with the flag raised after it and lowered after it is closed,
\* through lost connections, gates, retries and shutdown alike.
Station(s) ==
  IF flag[s] THEN (IF At(s, "closed") THEN "closed" ELSE "up")
  ELSE IF attempt[s] = "ok" \/ At(s, "opened") THEN "open" ELSE "down"

Riot == INSTANCE Connection WITH station <- Station("riot"), link <- link["riot"]
Discord == INSTANCE Connection WITH station <- Station("discord"), link <- link["discord"]
ConnectionsSpec == Riot!Spec /\ Discord!Spec

Needs == [riot |-> {"client", "game"}, discord |-> Process]

\* docs/adr/0003: when a process that a connection needs is gone for good, the
\* connection goes away and stays away.  (Two processes that take turns are
\* another matter: checkGame lists them at different times.)
GoneWithItsProcess ==
  \A s \in Sup : \A p \in Needs[s] :
    <>[](~canceled /\ p \notin running) => <>[](~link[s] /\ ~flag[s])

\* docs/adr/0002: with its processes there, a supervisor comes back to a
\* connection again and again, however often it is lost or refused, and Riot's
\* does so whether or not Discord runs.
NeverGivesUp ==
  \A s \in Sup : <>[](~canceled /\ Needs[s] \subseteq running) => []<>flag[s]

\* Quitting is never held up, not even by a connect that never returns.
StopsWhenAsked == canceled ~> \A s \in Sup : At(s, "stopped")
===============================================================================
