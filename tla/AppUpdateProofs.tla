---------------------------- MODULE AppUpdateProofs ----------------------------
(***************************************************************************)
(* Theorems about AppUpdate: types, one story, and a staged update that    *)
(* stays staged, for any number of callers, automatic downloads and        *)
(* releases.  One story alone is not inductive: a status that is no record *)
(* of the right fields could be changed in one of them without a trace.    *)
(***************************************************************************)
EXTENDS AppUpdate, TLAPS

Place == {"idle", "asking", "answered", "decides", "tests", "begins", "installs"}

Tells(s) == s \in Status /\ (s.available <=> s.version # None)

\* TypeOK, flag by flag.
Types ==
  /\ release \in Version \cup {None}
  /\ Tells(status)
  /\ downloading \in BOOLEAN /\ ready \in BOOLEAN
  /\ failCount \in {0, 1, 2}
  /\ pc \in [Thread -> Place]
  /\ op \in [Thread -> {"check", "download", "auto"}]
  /\ answer \in [Thread -> Version \cup {None}]

IInv == Types /\ OneStory

LEMMA NoStatusIsAStatus == Tells(NoStatus)
  BY DEF NoStatus, Status, Tells

\* A goroutine that ends leaves all three of its locals in their range.
LEMMA EndsKeepsTypes ==
  ASSUME Types, NEW t \in Thread, Ends(t)
  PROVE  /\ pc' \in [Thread -> Place]
         /\ op' \in [Thread -> {"check", "download", "auto"}]
         /\ answer' \in [Thread -> Version \cup {None}]
  BY DEF Types, Ends, Goes, Place

LEMMA InitHolds == Init => IInv
<1> SUFFICES ASSUME Init PROVE IInv
  OBVIOUS
<1>1. OneStory
  BY DEF Init, NoStatus, OneStory
<1>2. Tells(status)
  BY NoStatusIsAStatus DEF Init, NoStatus
<1> QED
  BY <1>1, <1>2 DEF Init, IInv, Types, Place

--------------------------------------------------------------------------------
(* One lemma per section of the code that records something.               *)

\* check: an error, a release or none.
LEMMA CheckStep ==
  ASSUME IInv, NEW t \in Thread, CheckFails(t) \/ Records(t)
  PROVE  IInv'
<1> USE DEF IInv
<1>1. CASE CheckFails(t)
  <2>1. Tells(status')
    BY <1>1 DEF CheckFails, Types, Tells, Status
  <2>2. OneStory'
    BY <1>1 DEF CheckFails, Types, Tells, Status, OneStory, flagVars
  <2> QED
    BY <1>1, <2>1, <2>2, EndsKeepsTypes DEF CheckFails, Types, flagVars
<1>2. CASE Records(t)
  <2>1. CASE Found(t)
    <3>1. Tells(status')
      BY <2>1 DEF Found, Types, Tells, Status
    <3>2. OneStory'
      BY <2>1 DEF Found, OneStory, flagVars
    <3>3. UNCHANGED <<release, downloading, ready, failCount, op, answer>>
          /\ pc' \in [Thread -> Place]
      BY <1>2, <2>1 DEF Records, Found, FoundNone, Types, Goes, flagVars, Place
    <3> QED
      BY <3>1, <3>2, <3>3 DEF Types
  <2>2. CASE FoundNone(t)
    <3>1. Tells(status')
      BY <2>2, NoStatusIsAStatus DEF FoundNone, NoStatus
    <3>2. OneStory'
      BY <2>2 DEF FoundNone, NoStatus, OneStory
    <3>3. Ends(t) /\ UNCHANGED release
      BY <1>2, <2>2 DEF Records, Found, FoundNone
    <3> QED
      BY <2>2, <3>1, <3>2, <3>3, EndsKeepsTypes DEF FoundNone, Types
  <2> QED
    BY <1>2, <2>1, <2>2 DEF Records
<1> QED
  BY <1>1, <1>2

\* doDownload: the flags and the status are written together.
LEMMA DownloadStep ==
  ASSUME IInv, NEW t \in Thread, Download(t)
  PROVE  IInv'
<1> USE DEF IInv
<1>1. CASE Begins(t)
  <2>1. CASE ready /\ Ends(t) /\ UNCHANGED <<status, downloading>>
    BY <1>1, <2>1, EndsKeepsTypes DEF Begins, Types, OneStory
  <2>2. CASE ~ready /\ downloading' = TRUE
             /\ status' = [status EXCEPT !.downloading = TRUE]
             /\ Goes(t, "installs") /\ UNCHANGED <<op, answer>>
    BY <1>1, <2>2 DEF Begins, Types, Tells, Status, OneStory, Goes, Place
  <2> QED
    BY <1>1, <2>1, <2>2 DEF Begins
<1>2. CASE InstallSucceeds(t)
  <2>1. Tells(status') /\ OneStory'
    BY <1>2 DEF InstallSucceeds, Types, Tells, Status, OneStory
  <2> QED
    BY <1>2, <2>1, EndsKeepsTypes DEF InstallSucceeds, Types
<1>3. CASE InstallFails(t)
  <2>1. Tells(status') /\ OneStory'
    BY <1>3 DEF InstallFails, Types, Tells, Status, OneStory, Surfaces
  <2>2. failCount' \in {0, 1, 2}
    BY <1>3 DEF InstallFails, OneMoreFailure, Types
  <2> QED
    BY <1>3, <2>1, <2>2, EndsKeepsTypes DEF InstallFails, Types
<1> QED
  BY <1>1, <1>2, <1>3 DEF Download

\* Everything else moves goroutines and leaves what they share alone.
LEMMA MovingStep ==
  ASSUME IInv, NEW t \in Thread,
         (\E o \in {"check", "download"} : Asks(t, o)) \/ Replies(t) \/ Decides(t) \/ Tests(t)
  PROVE  IInv'
<1> USE DEF IInv
<1>1. UNCHANGED <<release, status, downloading, ready, failCount>>
  BY DEF Asks, Replies, Decides, Tests, flagVars
<1>2. /\ pc' \in [Thread -> Place]
      /\ op' \in [Thread -> {"check", "download", "auto"}]
      /\ answer' \in [Thread -> Version \cup {None}]
  <2>1. ASSUME NEW o \in {"check", "download"}, Asks(t, o) PROVE <1>2!:
    BY <2>1 DEF Asks, Types, Goes, Place
  <2>2. CASE Replies(t)
    BY <2>2 DEF Replies, Types, Goes, Place
  <2>3. CASE Decides(t)
    BY <2>3, EndsKeepsTypes DEF Decides, Types, Thread, Place
  <2>4. CASE Tests(t)
    BY <2>4, EndsKeepsTypes DEF Tests, Types, Goes, Place
  <2> QED
    BY <2>1, <2>2, <2>3, <2>4
<1> QED
  BY <1>1, <1>2 DEF Types, OneStory

LEMMA InvStep ==
  ASSUME IInv, [Next]_vars
  PROVE  IInv'
<1>1. CASE UNCHANGED vars
  BY <1>1 DEF IInv, Types, OneStory, vars, flagVars, threadVars
<1>2. ASSUME NEW v \in Version \cup {None}, Publish(v) PROVE IInv'
  BY <1>2 DEF Publish, IInv, Types, OneStory, flagVars, threadVars
<1> QED
  BY <1>1, <1>2, CheckStep, DownloadStep, MovingStep DEF Next, Checks

LEMMA InvHolds == Spec => []IInv
  BY InitHolds, InvStep, PTL DEF Spec

--------------------------------------------------------------------------------
(* The theorems.                                                           *)

\* Every variable of the Coordinator stays in its range, and a version goes with
\* a release.
THEOREM UpdateTypes == Spec => []TypeOK
<1>1. IInv => TypeOK
  BY DEF IInv, Types, Tells, TypeOK, Place
<1> QED
  BY <1>1, InvHolds, PTL

\* The status a user sees and the flags the Coordinator decides by agree, however
\* many checks and downloads overlap.
THEOREM OneStoryIsTold == Spec => []OneStory
<1>1. IInv => OneStory
  BY DEF IInv
<1> QED
  BY <1>1, InvHolds, PTL

\* Only the answer of a check that found nothing takes a staged update away: no
\* download that fails late or overlaps with another one does.
THEOREM StagedIsKept == Spec => StagedStays
<1>1. ASSUME [Next]_vars
      PROVE  [ready /\ ~ready' => \E t \in Thread : At(t, "answered") /\ answer[t] = None]_vars
  <2> SUFFICES ASSUME ready, ~ready'
               PROVE  \E t \in Thread : At(t, "answered") /\ answer[t] = None
    OBVIOUS
  <2>1. \E t \in Thread : Records(t)
    <3>1. CASE UNCHANGED vars
      BY <3>1 DEF vars, flagVars
    <3>2. CASE \E v \in Version \cup {None} : Publish(v)
      BY <3>2 DEF Publish, flagVars
    <3>3. ASSUME NEW t \in Thread,
                 \/ \E o \in {"check", "download"} : Asks(t, o)
                 \/ Checks(t) \/ Tests(t) \/ Download(t)
          PROVE  Records(t)
      BY <3>3 DEF Asks, Checks, Replies, CheckFails, Decides, Tests, Download, Begins,
                  InstallSucceeds, InstallFails, flagVars
    <3> QED
      BY <1>1, <3>1, <3>2, <3>3 DEF Next
  <2> QED
    BY <2>1 DEF Records, Found, FoundNone, flagVars
<1> QED
  BY <1>1, PTL DEF Spec, StagedStays
===============================================================================
