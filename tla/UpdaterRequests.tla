---------------------------- MODULE UpdaterRequests ----------------------------
(***************************************************************************)
(* Updater with a history variable, the state its caller asked for last.   *)
(* It states what DelayUpdate promises its caller, which no variable of    *)
(* the Updater itself can tell.                                            *)
(***************************************************************************)
EXTENDS Updater

VARIABLE asked   \* the last state given to DelayUpdate, NoState after the
                 \* other two operations, which supersede it

reqVars == <<vars, asked>>

ReqInit == Init /\ asked = NoState

ReqNext ==
  \/ \E s \in State : \/ DelayUpdate(s) /\ asked' = s
                      \/ ImmediateUpdate(s) /\ asked' = NoState
                      \/ (TimerFires(s) \/ executeUpdate(s)) /\ UNCHANGED asked
  \/ ClearPresence /\ asked' = NoState
  \/ heartbeat /\ UNCHANGED asked
  \/ \E c \in Config : SetConfig(c) /\ UNCHANGED asked
  \/ (Connect \/ Disconnect \/ AppIDChanges) /\ UNCHANGED asked

ReqSpec == ReqInit /\ [][ReqNext]_reqVars

\* "If called multiple times rapidly, only the last call will execute
\* (debouncing)": with no timer armed and none waiting on the mutex, the state
\* performed last is the state the last DelayUpdate asked for.
OnlyTheLastCallExecutes ==
  (asked # NoState /\ timer = NoState /\ \A s \in State : fired[s] = 0) =>
    previousState = asked
================================================================================
