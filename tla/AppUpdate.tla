-------------------------------- MODULE AppUpdate --------------------------------
(***************************************************************************)
(* internal/updates/updates.go: the Coordinator that looks for a newer     *)
(* release of the program, downloads it and stages it for the restart.     *)
(*                                                                         *)
(* Its mutex guards single sections; the round trips to the provider, the  *)
(* downloads run outside of it, on the goroutine of Run, on those of the   *)
(* callers of Check and Download, and on those that a check starts.  A     *)
(* step is one section or one round trip.  The callbacks that hand copies  *)
(* of the status to the GUI are left out: nothing here depends on them.    *)
(***************************************************************************)
EXTENDS Naturals

CONSTANTS
  Caller,      \* goroutines of the GUI that call Check and Download
  Background,  \* bound: goroutines running autoDownload at once
  Version      \* the releases there can be

None == 0
ASSUME UpdateAssumption == Version \subseteq Nat \ {None}

Loop == "run"
Thread == {Loop} \cup Caller \cup Background

VARIABLES
  release,              \* the provider's newer release, or None
  status,               \* Coordinator.status
  downloading, ready, failCount,
  pc,                   \* where each goroutine stands
  op,                   \* what it was called for: "check", "download", "auto"
  answer                \* what the provider told it

flagVars == <<downloading, ready, failCount>>
threadVars == <<pc, op, answer>>
vars == <<release, status, flagVars, threadVars>>

NoStatus ==
  [available |-> FALSE, version |-> None, error |-> FALSE, downloading |-> FALSE,
   ready |-> FALSE]

Init ==
  /\ release \in Version \cup {None}
  /\ status = NoStatus
  /\ downloading = FALSE /\ ready = FALSE /\ failCount = 0
  /\ pc = [t \in Thread |-> "idle"]
  /\ op = [t \in Thread |-> "check"]
  /\ answer = [t \in Thread |-> None]

At(t, where) == pc[t] = where
Goes(t, where) == pc' = [pc EXCEPT ![t] = where]

\* A goroutine, or a call, that ends takes its locals with it.
Ends(t) ==
  /\ Goes(t, "idle")
  /\ op' = [op EXCEPT ![t] = "check"]
  /\ answer' = [answer EXCEPT ![t] = None]

\* A release comes out or is withdrawn.
Publish(v) ==
  /\ release' = v
  /\ UNCHANGED <<status, flagVars, threadVars>>

--------------------------------------------------------------------------------
(* check.                                                                  *)

\* The ticker of Run, a click on "Check for updates", or a retry.
Asks(t, o) ==
  /\ At(t, "idle")
  /\ t \notin Background /\ (t = Loop => o = "check")
  /\ op' = [op EXCEPT ![t] = o]
  /\ Goes(t, "asking")
  /\ UNCHANGED <<release, status, flagVars, answer>>

\* The provider's answer may be outdated when it is recorded.
Replies(t) ==
  /\ At(t, "asking")
  /\ answer' = [answer EXCEPT ![t] = release]
  /\ Goes(t, "answered")
  /\ UNCHANGED <<release, status, flagVars, op>>

CheckFails(t) ==
  /\ At(t, "asking")
  /\ status' = [status EXCEPT !.error = TRUE]
  /\ Ends(t)
  /\ UNCHANGED <<release, flagVars>>

FoundForgets(t) ==
  /\ answer[t] # None
  /\ status' = [NoStatus EXCEPT !.available = TRUE, !.version = answer[t]]
  /\ UNCHANGED flagVars

\* A newer release: what is going on with it is carried over.
Found(t) ==
  /\ answer[t] # None
  /\ status' = [available |-> TRUE, version |-> answer[t], error |-> FALSE,
                downloading |-> downloading, ready |-> ready]
  /\ UNCHANGED flagVars

\* None: everything is cleared.
FoundNone(t) ==
  /\ answer[t] = None
  /\ status' = NoStatus
  /\ downloading' = FALSE /\ ready' = FALSE /\ failCount' = 0

Records(t) ==
  /\ At(t, "answered")
  /\ \/ Found(t) /\ Goes(t, IF op[t] = "check" THEN "decides" ELSE "begins")
        /\ UNCHANGED <<op, answer>>
     \/ FoundNone(t) /\ Ends(t)
  /\ UNCHANGED release

--------------------------------------------------------------------------------
(* checkNow and autoDownload.                                              *)

AlreadyHandled == ready \/ downloading

\* checkNow starts autoDownload on a goroutine of its own.
Decides(t) ==
  /\ At(t, "decides")
  /\ \/ AlreadyHandled /\ Ends(t)
     \/ /\ ~AlreadyHandled
        /\ \E a \in Background :
             /\ At(a, "idle")
             /\ pc' = [pc EXCEPT ![t] = "idle", ![a] = "tests"]
             /\ op' = [op EXCEPT ![a] = "auto"]
             /\ answer' = [answer EXCEPT ![t] = None]
  /\ UNCHANGED <<release, status, flagVars>>

\* autoDownload tests once more, and lets go of the lock before doDownload.
Tests(t) ==
  /\ At(t, "tests")
  /\ \/ AlreadyHandled /\ Ends(t)
     \/ ~AlreadyHandled /\ Goes(t, "begins") /\ UNCHANGED <<op, answer>>
  /\ UNCHANGED <<release, status, flagVars>>

--------------------------------------------------------------------------------
(* doDownload.                                                             *)

Begins(t) ==
  /\ At(t, "begins")
  /\ \/ ready /\ Ends(t) /\ UNCHANGED <<status, downloading>>
     \/ /\ ~ready
        /\ downloading' = TRUE
        /\ status' = [status EXCEPT !.downloading = TRUE]
        /\ Goes(t, "installs")
        /\ UNCHANGED <<op, answer>>
  /\ UNCHANGED <<release, ready, failCount>>

InstallSucceeds(t) ==
  /\ At(t, "installs")
  /\ downloading' = FALSE /\ ready' = TRUE /\ failCount' = 0
  /\ status' = [status EXCEPT !.downloading = FALSE, !.ready = TRUE, !.error = FALSE]
  /\ Ends(t)
  /\ UNCHANGED release

\* Counting beyond two makes no difference.
OneMoreFailure == failCount' = IF failCount < 2 THEN failCount + 1 ELSE 2

\* A retry tells of its failure at once, an automatic download of the second in
\* a row.
Surfaces(t) == op[t] = "download" \/ failCount + 1 >= 2

FailureUnstages(t) ==
  /\ At(t, "installs")
  /\ downloading' = FALSE /\ ready' = FALSE
  /\ OneMoreFailure
  /\ status' = [status EXCEPT !.downloading = FALSE, !.ready = FALSE,
                              !.error = @ \/ Surfaces(t)]
  /\ Ends(t)
  /\ UNCHANGED release

FailureKeepsTheFlag(t) ==
  /\ At(t, "installs")
  /\ OneMoreFailure
  /\ status' = [status EXCEPT !.error = @ \/ Surfaces(t)]
  /\ Ends(t)
  /\ UNCHANGED <<release, downloading, ready>>

InstallFails(t) ==
  /\ At(t, "installs")
  /\ downloading' = FALSE
  /\ OneMoreFailure
  /\ status' = [status EXCEPT !.downloading = FALSE, !.error = @ \/ Surfaces(t)]
  /\ Ends(t)
  /\ UNCHANGED <<release, ready>>

Download(t) == Begins(t) \/ InstallSucceeds(t) \/ InstallFails(t)

Checks(t) == Replies(t) \/ CheckFails(t) \/ Records(t) \/ Decides(t)

Next ==
  \/ \E v \in Version \cup {None} : Publish(v)
  \/ \E t \in Thread :
       \/ \E o \in {"check", "download"} : Asks(t, o)
       \/ Checks(t) \/ Tests(t) \/ Download(t)

\* Run checks for ever and a goroutine goes on to its end.  The provider does
\* not fail every check for ever, nor every download.
UpdateFairness ==
  /\ WF_vars(Asks(Loop, "check")) /\ WF_vars(Checks(Loop)) /\ SF_vars(Replies(Loop))
  /\ \A t \in Thread \ {Loop} : WF_vars(Checks(t) \/ Tests(t) \/ Download(t))
  /\ SF_vars(\E t \in Thread : InstallSucceeds(t))

Spec == Init /\ [][Next]_vars /\ UpdateFairness

--------------------------------------------------------------------------------
(* Properties.                                                             *)

Status ==
  [available : BOOLEAN, version : Version \cup {None}, error : BOOLEAN,
   downloading : BOOLEAN, ready : BOOLEAN]

\* Every variable stays in its range, and a version goes with a release.
TypeOK ==
  /\ release \in Version \cup {None}
  /\ status \in Status /\ (status.available <=> status.version # None)
  /\ <<downloading, ready>> \in BOOLEAN \X BOOLEAN
  /\ failCount \in 0..2
  /\ pc \in [Thread -> {"idle", "asking", "answered", "decides", "tests", "begins", "installs"}]
  /\ op \in [Thread -> {"check", "download", "auto"}]
  /\ answer \in [Thread -> Version \cup {None}]

\* The status a user sees and the flags the Coordinator decides by tell one
\* story, whatever checks and downloads overlap (check, doDownload).
OneStory == status.downloading = downloading /\ status.ready = ready

\* A staged update stays staged until a check finds that there is none: no
\* failing retry and no overlapping download takes it away.
StagedStays ==
  [][ready /\ ~ready' => \E t \in Thread : At(t, "answered") /\ answer[t] = None]_vars

\* With a release there for good, an update is staged in the end, however many
\* checks and downloads have failed or overlapped before: no flag is left up
\* that would keep every later check from downloading.
StagedInTheEnd == <>[](release # None) => <>[]ready

\* "Downloading is true while the background auto-download is in flight."
DownloadingWhileInFlight == \A t \in Background : At(t, "installs") => status.downloading
===============================================================================
