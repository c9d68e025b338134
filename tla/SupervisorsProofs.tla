---------------------------- MODULE SupervisorsProofs ----------------------------
(***************************************************************************)
(* Theorems about Supervisors: types, nothing left open by a supervisor    *)
(* that has returned, and that each supervisor is a Connection.  They hold *)
(* whatever the processes, the connections and the user do.                *)
(***************************************************************************)
EXTENDS Supervisors, TLAPS

\* The ranges of the variables, without the relations between them.
Types ==
  /\ running \in SUBSET Process
  /\ canceled \in BOOLEAN /\ gameUp \in BOOLEAN /\ processUp \in BOOLEAN
  /\ sawClient \in {"no", "running", "gone"}
  /\ stage \in [Sup -> Stage]
  /\ read \in [Sup -> 0..2] /\ read["riot"] # 2
  /\ attempt \in [Sup -> {"none", "dialing", "ok", "failed"}]
  /\ link \in [Sup -> BOOLEAN] /\ flag \in [Sup -> BOOLEAN]

\* An attempt is there exactly while its supervisor waits for it, or left it.
AttemptInPlace(s) ==
  /\ attempt[s] # "none" => stage[s] \in {"dial", "stopped"}
  /\ stage[s] = "dial" => attempt[s] # "none"

\* The flag is up from one callback to the other.
FlagInPlace(s) == flag[s] <=> stage[s] \in {"up", "closing", "closed"}

\* A connection is somebody's: the supervisor has it, or the attempt that made
\* it still holds it out.
LinkInPlace(s) == link[s] => stage[s] \in {"opened", "up", "closing"} \/ attempt[s] = "ok"

InPlace(s) == AttemptInPlace(s) /\ FlagInPlace(s) /\ LinkInPlace(s)

IInv == Types /\ \A s \in Sup : InPlace(s)

\* A second supervisor keeps its place when the first one moves.
Apart(s) ==
  /\ stage'[s] = stage[s] /\ attempt'[s] = attempt[s]
  /\ link'[s] = link[s] /\ flag'[s] = flag[s]

LEMMA InitHolds == Init => IInv
<1> SUFFICES ASSUME Init PROVE IInv
  OBVIOUS
<1>1. Types
  <2>1. read \in [Sup -> 0..2] /\ read["riot"] # 2
    BY DEF Init, Sup
  <2>2. stage \in [Sup -> Stage] /\ attempt \in [Sup -> {"none", "dialing", "ok", "failed"}]
    BY DEF Init, Stage
  <2> QED
    BY <2>1, <2>2 DEF Init, Types
<1>2. ASSUME NEW s \in Sup PROVE InPlace(s)
  BY DEF Init, Sup, InPlace, AttemptInPlace, FlagInPlace, LinkInPlace
<1> QED
  BY <1>1, <1>2 DEF IInv

\* Every step keeps the ranges.
LEMMA TypesStep ==
  ASSUME Types, [Next]_vars
  PROVE  Types'
<1> USE DEF Types, Stage
<1>1. CASE UNCHANGED vars
  BY <1>1 DEF vars, processVars, linkVars
<1>2. ASSUME NEW p \in Process, Toggles(p) PROVE Types'
  BY <1>2 DEF Toggles, linkVars
<1>3. CASE Quit
  BY <1>3 DEF Quit, processVars, linkVars
<1>4. CASE ReadsClient
  BY <1>4 DEF ReadsClient, linkVars
<1>5. CASE ReadsGame
  BY <1>5 DEF ReadsGame, Primed, At, Goes, linkVars
<1>6. CASE ReadsDiscord
  BY <1>6 DEF ReadsDiscord, Primed, At, Goes, linkVars
<1>7. ASSUME NEW s \in Sup, LinkDrops(s) \/ FirstPollFails(s) \/ DialSucceeds(s) \/ DialFails(s)
      PROVE  Types'
  BY <1>7 DEF LinkDrops, FirstPollFails, DialSucceeds, DialFails, Goes, processVars, linkVars
<1>8. ASSUME NEW s \in Sup, Run(s) PROVE Types'
  <2> USE DEF Goes, processVars, linkVars
  <2>1. CASE AsksGate(s)
    BY <2>1 DEF AsksGate
  <2>2. CASE ListsDiscord \/ ListingFails
    BY <2>2 DEF ListsDiscord, ListingFails
  <2>3. CASE Wakes(s) \/ Receives(s) \/ Abandons(s) \/ Raises(s)
    BY <2>3 DEF Wakes, Receives, Abandons, Raises
  <2>4. CASE Polls(s)
    <3> DEFINE on == Conditions(s)[read[s] + 1] /\ read[s] + 1 # Len(Conditions(s))
               next == IF on THEN read[s] + 1 ELSE 0
    <3>1. next \in 0..2 /\ (s = "riot" => next # 2)
      <4>1. Len(Conditions(s)) = IF s = "riot" THEN 2 ELSE 3
        BY DEF Conditions
      <4>2. on => read[s] + 1 # IF s = "riot" THEN 2 ELSE 3
        BY <4>1
      <4>3. read[s] \in 0..2 /\ (s = "riot" => read[s] # 2)
        OBVIOUS
      <4> HIDE DEF on
      <4> QED
        BY <4>2, <4>3
    <3>2. read' = [read EXCEPT ![s] = next]
      BY <2>4 DEF Polls
    <3>3. read' \in [Sup -> 0..2] /\ read'["riot"] # 2
      <4> HIDE DEF next
      <4> QED
        BY <3>1, <3>2 DEF Sup
    <3>4. stage' \in [Sup -> Stage]
      BY <2>4 DEF Polls
    <3> QED
      BY <2>4, <3>3, <3>4 DEF Polls
  <2>5. CASE Leaves(s) \/ Closes(s) \/ Lowers(s) \/ Stops(s)
    BY <2>5 DEF Leaves, Closes, Lowers, Stops
  <2> QED
    BY <1>8, <2>1, <2>2, <2>3, <2>4, <2>5 DEF Run
<1> QED
  BY <1>1, <1>2, <1>3, <1>4, <1>5, <1>6, <1>7, <1>8 DEF Next

\* A step of one supervisor, or of its attempt, keeps everything in its place.
LEMMA RunStep ==
  ASSUME IInv, NEW s \in Sup,
         Run(s) \/ LinkDrops(s) \/ FirstPollFails(s) \/ DialSucceeds(s) \/ DialFails(s)
  PROVE  InPlace(s)'
<1> USE DEF IInv, Types, InPlace, AttemptInPlace, FlagInPlace, LinkInPlace, At, Goes,
            processVars, linkVars
<1>1. CASE AsksGate(s)
  BY <1>1 DEF AsksGate
<1>2. CASE s = "discord" /\ (ListsDiscord \/ ListingFails)
  BY <1>2 DEF ListsDiscord, ListingFails
<1>3. CASE Wakes(s) \/ Leaves(s) \/ Stops(s) \/ FirstPollFails(s)
  BY <1>3 DEF Wakes, Leaves, Stops, FirstPollFails
<1>4. CASE Receives(s) \/ Abandons(s)
  BY <1>4 DEF Receives, Abandons
<1>5. CASE Raises(s)
  BY <1>5 DEF Raises
<1>6. CASE Polls(s)
  BY <1>6 DEF Polls
<1>7. CASE Closes(s) \/ Lowers(s)
  BY <1>7 DEF Closes, Lowers
<1>8. CASE LinkDrops(s) \/ DialSucceeds(s) \/ DialFails(s)
  BY <1>8 DEF LinkDrops, DialSucceeds, DialFails
<1> QED
  BY <1>1, <1>2, <1>3, <1>4, <1>5, <1>6, <1>7, <1>8 DEF Run

\* It leaves the other supervisor where it is.
LEMMA OtherStep ==
  ASSUME IInv, NEW s \in Sup, NEW t \in Sup, s # t,
         Run(s) \/ LinkDrops(s) \/ FirstPollFails(s) \/ DialSucceeds(s) \/ DialFails(s)
  PROVE  Apart(t)
<1> USE DEF IInv, Types, Apart, Goes, processVars, linkVars
<1>1. CASE AsksGate(s)
  BY <1>1 DEF AsksGate
<1>2. CASE s = "discord" /\ (ListsDiscord \/ ListingFails)
  BY <1>2 DEF ListsDiscord, ListingFails
<1>3. CASE Wakes(s) \/ Leaves(s) \/ Stops(s) \/ FirstPollFails(s)
  BY <1>3 DEF Wakes, Leaves, Stops, FirstPollFails
<1>4. CASE Receives(s) \/ Abandons(s)
  BY <1>4 DEF Receives, Abandons
<1>5. CASE Raises(s) \/ Polls(s)
  BY <1>5 DEF Raises, Polls
<1>6. CASE Closes(s) \/ Lowers(s)
  BY <1>6 DEF Closes, Lowers
<1>7. CASE LinkDrops(s) \/ DialSucceeds(s) \/ DialFails(s)
  BY <1>7 DEF LinkDrops, DialSucceeds, DialFails
<1> QED
  BY <1>1, <1>2, <1>3, <1>4, <1>5, <1>6, <1>7 DEF Run

\* The steps that belong to nobody in particular: a supervisor stays where it
\* is or, after its first poll, enters its loop.
LEMMA SharedStep ==
  ASSUME IInv, NEW t \in Sup,
         \/ \E p \in Process : Toggles(p)
         \/ Quit \/ ReadsClient \/ ReadsGame \/ ReadsDiscord
         \/ UNCHANGED vars
  PROVE  /\ stage'[t] = stage[t] \/ (stage[t] = "prime" /\ stage'[t] = "gate")
         /\ attempt'[t] = attempt[t] /\ link'[t] = link[t] /\ flag'[t] = flag[t]
<1> USE DEF IInv, Types, At, Goes, Primed, processVars, linkVars
<1>1. CASE (\E p \in Process : Toggles(p)) \/ Quit \/ ReadsClient \/ UNCHANGED vars
  BY <1>1 DEF Toggles, Quit, ReadsClient, vars
<1>2. CASE ReadsGame
  BY <1>2 DEF ReadsGame
<1>3. CASE ReadsDiscord
  BY <1>3 DEF ReadsDiscord
<1> QED
  BY <1>1, <1>2, <1>3

\* The invariant is inductive.
LEMMA InvStep == IInv /\ [Next]_vars => IInv'
<1> SUFFICES ASSUME IInv, [Next]_vars PROVE IInv'
  OBVIOUS
<1>1. Types'
  BY TypesStep DEF IInv
<1>2. ASSUME NEW t \in Sup PROVE InPlace(t)'
  <2> DEFINE Shared == \/ \E p \in Process : Toggles(p)
                       \/ Quit \/ ReadsClient \/ ReadsGame \/ ReadsDiscord
                       \/ UNCHANGED vars
             Own(s) == Run(s) \/ LinkDrops(s) \/ FirstPollFails(s) \/ DialSucceeds(s)
                         \/ DialFails(s)
  <2>1. Shared \/ \E s \in Sup : Own(s)
    BY DEF Next
  <2>2. CASE Shared
    <3>1. /\ stage'[t] = stage[t] \/ (stage[t] = "prime" /\ stage'[t] = "gate")
          /\ attempt'[t] = attempt[t] /\ link'[t] = link[t] /\ flag'[t] = flag[t]
      BY <2>2, SharedStep
    <3> QED
      BY <3>1 DEF IInv, InPlace, AttemptInPlace, FlagInPlace, LinkInPlace
  <2>3. ASSUME NEW s \in Sup, Own(s) PROVE InPlace(t)'
    <3>1. CASE s = t
      BY <2>3, <3>1, RunStep
    <3>2. CASE s # t
      <4>1. Apart(t)
        BY <2>3, <3>2, OtherStep
      <4> QED
        BY <4>1 DEF Apart, IInv, InPlace, AttemptInPlace, FlagInPlace, LinkInPlace
    <3> QED
      BY <3>1, <3>2
  <2> QED
    BY <2>1, <2>2, <2>3
<1> QED
  BY <1>1, <1>2 DEF IInv

LEMMA InvHolds == Spec => []IInv
<1>1. Init /\ [][Next]_vars => []IInv
  BY InitHolds, InvStep, PTL
<1> QED
  BY <1>1, PTL DEF Spec

\* Every variable of the supervisors stays in its range, and an attempt is there
\* only while its supervisor waits for it or has left it behind.
THEOREM SupervisorTypes == Spec => []TypeOK
<1>1. IInv => TypeOK
  BY DEF IInv, Types, InPlace, AttemptInPlace, TypeOK
<1> QED
  BY <1>1, InvHolds, PTL

\* An open connection belongs to a supervisor that goes on to close it, or is what
\* an attempt opened that its supervisor waits for or, once canceled, left behind
\* (which connect of supervisor.go never closes); and no supervisor returns with
\* its flag raised.
THEOREM NothingIsLeftOpen == Spec => []NothingLeftOpen
<1>1. IInv => NothingLeftOpen
  BY DEF IInv, Types, InPlace, FlagInPlace, LinkInPlace, NothingLeftOpen, At
<1> QED
  BY <1>1, InvHolds, PTL

--------------------------------------------------------------------------------
(* Each supervisor is a Connection.                                        *)

\* The steps of a Connection, in the terms of the supervisor s.
ConnectionStep(s) ==
  \/ Station(s) = "down" /\ ~link[s] /\ Station(s)' = "open" /\ link'[s]
  \/ Station(s) = "open" /\ Station(s)' = "up" /\ link'[s] = link[s]
  \/ link[s] /\ ~link'[s] /\ Station(s)' = Station(s)
  \/ Station(s) = "up" /\ Station(s)' = "closed" /\ ~link'[s]
  \/ Station(s) = "closed" /\ Station(s)' = "down" /\ link'[s] = link[s]
  \/ Station(s)' = Station(s) /\ link'[s] = link[s]

LEMMA OwnConnectionStep ==
  ASSUME IInv, NEW s \in Sup,
         Run(s) \/ LinkDrops(s) \/ FirstPollFails(s) \/ DialSucceeds(s) \/ DialFails(s)
  PROVE  ConnectionStep(s)
<1> USE DEF IInv, Types, InPlace, AttemptInPlace, FlagInPlace, LinkInPlace, At, Goes,
            processVars, linkVars, ConnectionStep, Station
<1>1. CASE AsksGate(s)
  BY <1>1 DEF AsksGate
<1>2. CASE s = "discord" /\ (ListsDiscord \/ ListingFails)
  BY <1>2 DEF ListsDiscord, ListingFails
<1>3. CASE Wakes(s) \/ Stops(s) \/ FirstPollFails(s)
  BY <1>3 DEF Wakes, Stops, FirstPollFails
<1>4. CASE Receives(s)
  BY <1>4 DEF Receives
<1>5. CASE Abandons(s) \/ Leaves(s)
  BY <1>5 DEF Abandons, Leaves
<1>6. CASE Raises(s)
  BY <1>6 DEF Raises
<1>7. CASE Polls(s)
  BY <1>7 DEF Polls
<1>8. CASE Closes(s)
  BY <1>8 DEF Closes
<1>9. CASE Lowers(s)
  BY <1>9 DEF Lowers
<1>10. CASE LinkDrops(s)
  BY <1>10 DEF LinkDrops
<1>11. CASE DialSucceeds(s) \/ DialFails(s)
  BY <1>11 DEF DialSucceeds, DialFails
<1> QED
  BY <1>1, <1>2, <1>3, <1>4, <1>5, <1>6, <1>7, <1>8, <1>9, <1>10, <1>11 DEF Run

\* Steps of the other supervisor, of the pollers and of the world are stutters.
LEMMA EveryConnectionStep ==
  ASSUME IInv, [Next]_vars, NEW t \in Sup
  PROVE  ConnectionStep(t)
<1> DEFINE Shared == \/ \E p \in Process : Toggles(p)
                     \/ Quit \/ ReadsClient \/ ReadsGame \/ ReadsDiscord
                     \/ UNCHANGED vars
           Own(s) == Run(s) \/ LinkDrops(s) \/ FirstPollFails(s) \/ DialSucceeds(s)
                       \/ DialFails(s)
<1>1. Shared \/ \E s \in Sup : Own(s)
  BY DEF Next
<1>2. CASE Shared
  <2>1. /\ stage'[t] = stage[t] \/ (stage[t] = "prime" /\ stage'[t] = "gate")
        /\ attempt'[t] = attempt[t] /\ link'[t] = link[t] /\ flag'[t] = flag[t]
    BY <1>2, SharedStep
  <2> QED
    BY <2>1 DEF ConnectionStep, Station, At
<1>3. ASSUME NEW s \in Sup, Own(s) PROVE ConnectionStep(t)
  <2>1. CASE s = t
    BY <1>3, <2>1, OwnConnectionStep
  <2>2. CASE s # t
    <3>1. Apart(t)
      BY <1>3, <2>2, OtherStep
    <3> QED
      BY <3>1 DEF Apart, ConnectionStep, Station, At
  <2> QED
    BY <2>1, <2>2
<1> QED
  BY <1>1, <1>2, <1>3

\* A supervisor opens its connection before it raises the flag and closes it
\* before it lowers the flag, one connection at a time, through every retry,
\* lost connection and abandoned attempt.
THEOREM EachIsAConnection == Spec => ConnectionsSpec
<1>1. Init => Riot!Init /\ Discord!Init
  BY DEF Init, Sup, Riot!Init, Discord!Init, Station, At
<1>2. IInv /\ [Next]_vars => [Riot!Next]_(Riot!vars)
  <2> SUFFICES ASSUME IInv, [Next]_vars PROVE [Riot!Next]_(Riot!vars)
    OBVIOUS
  <2>1. "riot" \in Sup
    BY DEF Sup
  <2>2. ConnectionStep("riot")
    BY <2>1, EveryConnectionStep
  <2>3. link["riot"] \in BOOLEAN /\ link'["riot"] \in BOOLEAN
    BY <2>1, InvStep DEF IInv, Types
  <2> QED
    BY <2>2, <2>3 DEF ConnectionStep, Riot!Next, Riot!vars, Riot!Opens, Riot!Raises,
       Riot!Drops, Riot!Closes, Riot!Lowers
<1>3. IInv /\ [Next]_vars => [Discord!Next]_(Discord!vars)
  <2> SUFFICES ASSUME IInv, [Next]_vars PROVE [Discord!Next]_(Discord!vars)
    OBVIOUS
  <2>1. "discord" \in Sup
    BY DEF Sup
  <2>2. ConnectionStep("discord")
    BY <2>1, EveryConnectionStep
  <2>3. link["discord"] \in BOOLEAN /\ link'["discord"] \in BOOLEAN
    BY <2>1, InvStep DEF IInv, Types
  <2> QED
    BY <2>2, <2>3 DEF ConnectionStep, Discord!Next, Discord!vars, Discord!Opens,
       Discord!Raises, Discord!Drops, Discord!Closes, Discord!Lowers
<1>4. Init /\ [][Next]_vars => Riot!Spec
  BY <1>1, <1>2, InitHolds, InvStep, PTL DEF Riot!Spec
<1>5. Init /\ [][Next]_vars => Discord!Spec
  BY <1>1, <1>3, InitHolds, InvStep, PTL DEF Discord!Spec
<1> QED
  BY <1>4, <1>5, PTL DEF Spec, ConnectionsSpec
===============================================================================
