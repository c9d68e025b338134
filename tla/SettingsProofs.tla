------------------------------ MODULE SettingsProofs ------------------------------
(***************************************************************************)
(* That the settings survive a restart and that the entry that starts the  *)
(* program with Windows follows them, for any number of goroutines that    *)
(* apply settings and any hand edit of the file; and that the page and the *)
(* daemon agree on them once nothing is under way.                         *)
(***************************************************************************)
EXTENDS Settings, SettingsPage, SequenceTheorems, TLAPS

Conf == [launch : BOOLEAN, bad : SUBSET Checked]

\* Where a call stands that has the store to itself.
Inside == {"saves", "fills", "swaps", "drains", "pushes"}

TypeInv ==
  /\ file \in [text : {"missing", "torn", "whole"}, conf : Conf]
  /\ life \in {"off", "creates", "reconciles", "up"}
  /\ cur \in Conf
  /\ doing \in [Applier -> {"idle", "locks"} \cup Inside]
  /\ next \in [Applier -> Conf]

\* A call inside holds the lock; calls there are only while the program is up,
\* with settings that validate.
LockInv ==
  /\ \A a \in Applier : doing[a] \in Inside => lock = a
  /\ \A a \in Applier : doing[a] # "idle" => life = "up" /\ Validate(next[a])

\* What the file holds while a call is between its write and its swap.
FileInv ==
  /\ \A a \in Applier : /\ doing[a] = "fills" => file = Torn
                        /\ doing[a] = "swaps" => file = Whole(next[a])
  /\ life = "creates" => file.text \in {"missing", "torn"} /\ cur = DefaultConfig
  /\ life # "off" => Validate(cur)

IInv == TypeInv /\ LockInv /\ FileInv /\ RestartKeepsSettings

\* Reading back what was written.
LEMMA ReadsBack ==
  ASSUME NEW conf \in Conf, Validate(conf)
  PROVE  Readable(Whole(conf)) /\ Loads(Whole(conf)) = conf
  BY DEF Conf, Validate, Readable, Loads, Whole, clamp

LEMMA DefaultIsConf == DefaultConfig \in Conf /\ Validate(DefaultConfig)
  BY DEF DefaultConfig, Conf, Validate

\* Whatever a file holds, what is loaded from it validates, and loads again as
\* it is.
LEMMA LoadsValid ==
  ASSUME NEW f \in [text : {"missing", "torn", "whole"}, conf : Conf]
  PROVE  Loads(f) \in Conf /\ Validate(Loads(f))
  BY DefaultIsConf DEF Conf, Validate, Loads, clamp

LEMMA InitHolds == ConfigInit => IInv
  BY DefaultIsConf, SettingsAssumption
  DEF ConfigInit, IInv, TypeInv, LockInv, FileInv, RestartKeepsSettings, Inside

LEMMA InvStep == IInv /\ [ConfigNext]_configVars => IInv'
<1> USE SettingsAssumption DEF Inside
<1> SUFFICES ASSUME IInv, [ConfigNext]_configVars PROVE IInv'
  OBVIOUS
<1>1. CASE UNCHANGED configVars
  BY <1>1 DEF IInv, TypeInv, LockInv, FileInv, RestartKeepsSettings, Saving, configVars, storeVars,
     watcherVars
<1>2. CASE EditsFile
  <2>1. file' \in [text : {"missing", "torn", "whole"}, conf : Conf]
    BY <1>2, DefaultIsConf DEF EditsFile, Whole, Conf
  <2> QED
    BY <1>2, <2>1 DEF EditsFile, IInv, TypeInv, LockInv, FileInv, RestartKeepsSettings, storeVars
<1>3. CASE Quits
  BY <1>3, DefaultIsConf DEF Quits, IInv, TypeInv, LockInv, FileInv, RestartKeepsSettings
<1>4. CASE Starts
  <2>1. Loads(file) \in Conf /\ Validate(Loads(file))
    BY LoadsValid DEF IInv, TypeInv
  <2>2. cur' = Loads(file)' /\ file' = file /\ doing' = doing /\ next' = next /\ lock' = lock
    BY <1>4 DEF Starts, Loads
  <2>3. life' = "creates" => file.text = "missing" /\ cur' = DefaultConfig
    BY <1>4 DEF Starts, Loads
  <2>4. \A a \in Applier : doing[a] = "idle"
    BY <1>4 DEF Starts, IInv, LockInv
  <2> QED
    BY <1>4, <2>1, <2>2, <2>3, <2>4
    DEF Starts, Loads, IInv, TypeInv, LockInv, FileInv, RestartKeepsSettings
<1>5. CASE Creates
  <2>1. life = "creates" /\ cur' = cur /\ doing' = doing /\ next' = next /\ lock' = lock
    BY <1>5 DEF Creates, storeVars
  <2>2. \A a \in Applier : doing[a] = "idle"
    BY <2>1 DEF IInv, LockInv
  <2>3. CASE file' = Torn /\ life' = life
    BY <2>1, <2>2, <2>3, DefaultIsConf
    DEF Torn, IInv, TypeInv, LockInv, FileInv, RestartKeepsSettings
  <2>4. CASE file' = Whole(cur) /\ life' = "reconciles"
    <3>1. cur \in Conf /\ Validate(cur)
      BY <2>1, DefaultIsConf DEF IInv, FileInv
    <3>2. Readable(file') /\ Loads(file') = cur
      BY <3>1, <2>4, ReadsBack
    <3> QED
      BY <2>1, <2>2, <2>4, <3>1, <3>2
      DEF Whole, IInv, TypeInv, LockInv, FileInv, RestartKeepsSettings, Loads, Readable
  <2> QED
    BY <1>5, <2>3, <2>4 DEF Creates
<1>6. CASE Reconciles
  <2>1. \A a \in Applier : doing[a] = "idle"
    BY <1>6 DEF Reconciles, IInv, LockInv
  <2> QED
    BY <1>6, <2>1
    DEF Reconciles, storeVars, IInv, TypeInv, LockInv, FileInv, RestartKeepsSettings, Saving,
        Loads, Readable
<1>7. CASE watchConfigField
  <2>1. UNCHANGED <<file, life, cur, lock, doing, next>>
    BY <1>7 DEF watchConfigField, Subscribes, LoadsFirst, Receives, Acts, storeVars
  <2> QED
    BY <2>1 DEF IInv, TypeInv, LockInv, FileInv, RestartKeepsSettings, Saving, Loads, Readable
<1>8. ASSUME NEW a \in Applier, NEW launch \in BOOLEAN, NEW bad \in Edits,
             Calls(a, [launch |-> launch, bad |-> bad])
      PROVE  IInv'
  <2> DEFINE conf == [launch |-> launch, bad |-> bad]
  <2>1. conf \in Conf
    BY DEF Conf
  <2> HIDE DEF conf
  <2>2. /\ life = "up" /\ doing[a] = "idle" /\ Validate(conf)
        /\ doing' = [doing EXCEPT ![a] = "locks"] /\ next' = [next EXCEPT ![a] = conf]
        /\ UNCHANGED <<file, life, cur, lock>>
    BY <1>8 DEF Calls, conf
  <2>3. TypeInv'
    BY <2>1, <2>2 DEF IInv, TypeInv
  <2>4. LockInv'
    BY <2>2 DEF IInv, TypeInv, LockInv, Validate
  <2>5. FileInv'
    BY <2>2 DEF IInv, TypeInv, FileInv, Whole, Validate
  <2>6. RestartKeepsSettings'
    <3>1. ~Saving' => ~Saving
      BY <2>2 DEF Saving, IInv, TypeInv
    <3> QED
      BY <2>2, <3>1 DEF IInv, RestartKeepsSettings, Loads, Readable
  <2> QED
    BY <2>3, <2>4, <2>5, <2>6 DEF IInv
<1>9. ASSUME NEW a \in Applier, Apply(a) PROVE IInv'
  <2>0. UNCHANGED life
    BY <1>9 DEF Apply, Locks, Truncates, WritesRest, SaveFails, SetsCur, Drains, Pushes
  <2>1. doing[a] # "idle"
    BY <1>9 DEF Apply, Locks, Truncates, WritesRest, SaveFails, SetsCur, Drains, Pushes
  <2>2. life = "up" /\ Validate(next[a]) /\ next[a] \in Conf
    BY <2>1 DEF IInv, LockInv, TypeInv
  <2>3. \A b \in Applier \ {a} : doing[a] \in Inside => doing[b] \in {"idle", "locks"}
    BY DEF IInv, LockInv, TypeInv
  <2>4. CASE Locks(a)
    <3>1. /\ doing[a] = "locks" /\ lock = "nobody" /\ lock' = a
          /\ doing' = [doing EXCEPT ![a] = "saves"]
          /\ UNCHANGED <<file, life, cur, next>>
      BY <2>4 DEF Locks
    <3>2. \A b \in Applier : doing[b] \in {"idle", "locks"}
      BY <3>1 DEF IInv, LockInv, TypeInv
    <3>3. TypeInv' /\ LockInv' /\ FileInv'
      BY <2>2, <3>1, <3>2 DEF IInv, TypeInv, LockInv, FileInv, Validate
    <3>4. ~Saving
      BY <3>2 DEF Saving
    <3> QED
      BY <3>1, <3>3, <3>4 DEF IInv, RestartKeepsSettings, Loads, Readable
  <2>5. CASE Truncates(a)
    <3>1. /\ doing[a] = "saves" /\ file' = Torn
          /\ doing' = [doing EXCEPT ![a] = "fills"]
          /\ UNCHANGED <<life, cur, lock, next>>
      BY <2>5 DEF Truncates
    <3>2. TypeInv' /\ LockInv' /\ FileInv'
      BY <2>2, <2>3, <3>1, DefaultIsConf DEF IInv, TypeInv, LockInv, FileInv, Validate, Torn
    <3>3. Saving'
      BY <3>1 DEF Saving, IInv, TypeInv
    <3> QED
      BY <3>2, <3>3 DEF IInv, RestartKeepsSettings
  <2>6. CASE WritesRest(a)
    <3>1. /\ doing[a] = "fills" /\ file' = Whole(next[a])
          /\ doing' = [doing EXCEPT ![a] = "swaps"]
          /\ UNCHANGED <<life, cur, lock, next>>
      BY <2>6 DEF WritesRest
    <3>2. TypeInv' /\ LockInv' /\ FileInv'
      BY <2>2, <2>3, <3>1 DEF IInv, TypeInv, LockInv, FileInv, Validate, Whole
    <3>3. Saving'
      BY <3>1 DEF Saving, IInv, TypeInv
    <3> QED
      BY <3>2, <3>3 DEF IInv, RestartKeepsSettings
  <2>7. CASE SaveFails(a)
    <3>1. /\ doing[a] \in {"saves", "fills"}
          /\ doing' = [doing EXCEPT ![a] = "idle"] /\ next' = [next EXCEPT ![a] = DefaultConfig]
          /\ UNCHANGED <<file, life, cur>>
      BY <2>7 DEF SaveFails, Returns
    <3>2. TypeInv' /\ LockInv' /\ FileInv'
      BY <2>2, <2>3, <3>1, DefaultIsConf DEF IInv, TypeInv, LockInv, FileInv, Validate, Whole
    <3>3. CASE doing[a] = "saves"
      <4>1. ~Saving
        BY <2>3, <3>3 DEF Saving
      <4> QED
        BY <3>1, <3>2, <4>1 DEF IInv, RestartKeepsSettings, Loads, Readable
    <3>4. CASE doing[a] = "fills"
      <4>1. ~Readable(file') /\ Validate(cur')
        BY <2>2, <3>1, <3>4 DEF IInv, FileInv, Torn, Readable
      <4> QED
        BY <3>2, <4>1 DEF IInv, RestartKeepsSettings, Readable
    <3> QED
      BY <3>1, <3>3, <3>4
  <2>8. CASE SetsCur(a)
    <3>1. /\ doing[a] = "swaps" /\ cur' = next[a]
          /\ doing' = [doing EXCEPT ![a] = "drains"]
          /\ UNCHANGED <<file, life, lock, next>>
      BY <2>8 DEF SetsCur
    <3>2. TypeInv' /\ LockInv' /\ FileInv'
      BY <2>2, <2>3, <3>1 DEF IInv, TypeInv, LockInv, FileInv, Validate, Whole
    <3>3. file' = Whole(next[a])
      BY <3>1 DEF IInv, FileInv
    <3>4. Readable(file') /\ Loads(file') = cur' /\ Validate(cur')
      BY <2>2, <3>1, <3>3, ReadsBack
    <3> QED
      BY <3>2, <3>4 DEF IInv, RestartKeepsSettings, Loads, Readable, Validate
  <2>9. CASE Drains(a) \/ Pushes(a)
    <3>1. /\ doing[a] \in {"drains", "pushes"}
          /\ UNCHANGED <<file, life, cur>>
          /\ \/ /\ doing' = [doing EXCEPT ![a] = "idle"]
                /\ next' = [next EXCEPT ![a] = DefaultConfig]
             \/ /\ doing' = [doing EXCEPT ![a] = "pushes"]
                /\ UNCHANGED <<next, lock>>
      BY <2>9 DEF Drains, Pushes, Returns
    <3>2. TypeInv' /\ LockInv' /\ FileInv'
      BY <2>2, <2>3, <3>1, DefaultIsConf DEF IInv, TypeInv, LockInv, FileInv, Validate, Whole
    <3>3. ~Saving
      BY <2>3, <3>1 DEF Saving
    <3> QED
      BY <3>1, <3>2, <3>3 DEF IInv, RestartKeepsSettings, Loads, Readable
  <2> QED
    BY <1>9, <2>4, <2>5, <2>6, <2>7, <2>8, <2>9 DEF Apply
<1> QED
  BY <1>1, <1>2, <1>3, <1>4, <1>5, <1>6, <1>7, <1>8, <1>9 DEF ConfigNext

\* The settings the program runs on are ones it would save, and a restart comes
\* back to them, for any calls that overlap (Store.Apply, Save, LoadOrCreate).
THEOREM SettingsSurvive == ConfigSpec => []RestartKeepsSettings
<1>1. IInv => RestartKeepsSettings
  BY DEF IInv
<1> QED
  BY <1>1, InitHolds, InvStep, PTL DEF ConfigSpec

--------------------------------------------------------------------------------
(* The entry.                                                              *)

Ahead == {"drains", "pushes"}
Changing == \E a \in Applier : doing[a] \in Ahead

WatchTypes ==
  /\ watcher \in {"new", "subscribed", "waits", "acts"}
  /\ slot = <<>> \/ \E conf \in Conf : slot = <<conf>>
  /\ <<registry, seen, missed>> \in BOOLEAN \X BOOLEAN \X BOOLEAN
  /\ watcher # "new" => life = "up"
  /\ watcher = "new" => slot = <<>>

\* A call past its swap has yet to leave the settings in the channel.
PushInv ==
  \A a \in Applier :
    /\ doing[a] \in Ahead => cur = next[a]
    /\ doing[a] = "pushes" => slot = <<>> /\ watcher # "new"

\* No settings are lost on the way: with no call past its swap the newest are in
\* the channel or have been seen.
ChannelInv ==
  ~Changing =>
    /\ slot # <<>> => slot[1].launch = cur.launch
    /\ watcher \in {"waits", "acts"} /\ slot = <<>> => seen = cur.launch

\* What has been seen is what the entry says, unless a write failed.
EntryInv == watcher = "waits" /\ ~missed => registry = seen

WInv == WatchTypes /\ PushInv /\ ChannelInv /\ EntryInv

LEMMA WatchInit == ConfigInit => WInv
  BY SettingsAssumption
  DEF ConfigInit, WInv, WatchTypes, PushInv, ChannelInv, EntryInv, Ahead, Changing

LEMMA WatchStep == IInv /\ WInv /\ [ConfigNext]_configVars => WInv'
<1> USE DEF Inside, Ahead
<1> SUFFICES ASSUME IInv, WInv, [ConfigNext]_configVars PROVE WInv'
  OBVIOUS
<1>1. CASE UNCHANGED configVars
  BY <1>1 DEF WInv, WatchTypes, PushInv, ChannelInv, EntryInv, Changing, configVars, storeVars,
     watcherVars
<1>2. CASE EditsFile
  BY <1>2 DEF EditsFile, WInv, WatchTypes, PushInv, ChannelInv, EntryInv, Changing, storeVars,
     watcherVars
<1>3. CASE Quits
  BY <1>3 DEF Quits, WInv, WatchTypes, PushInv, ChannelInv, EntryInv, Changing
<1>4. CASE Starts \/ Creates \/ Reconciles
  <2>1. /\ life \in {"off", "creates", "reconciles"} /\ UNCHANGED <<doing, next, slot, watcher, seen>>
        /\ <<registry', missed'>> \in BOOLEAN \X BOOLEAN
    BY <1>4 DEF Starts, Creates, Reconciles, Writes, storeVars, watcherVars, WInv, WatchTypes, IInv,
       TypeInv, Conf
  <2>2. watcher = "new" /\ slot = <<>> /\ \A a \in Applier : doing[a] = "idle"
    BY <2>1 DEF WInv, WatchTypes, IInv, LockInv
  <2> QED
    BY <2>1, <2>2 DEF WInv, WatchTypes, PushInv, ChannelInv, EntryInv
<1>5. CASE Subscribes
  <2>1. ~Changing
    BY <1>5, SettingsAssumption DEF Subscribes, Changing, IInv, LockInv
  <2> QED
    BY <1>5, <2>1
    DEF Subscribes, storeVars, WInv, WatchTypes, PushInv, ChannelInv, EntryInv, Changing
<1>6. CASE LoadsFirst
  <2>1. cur.launch \in BOOLEAN
    BY DEF IInv, TypeInv, Conf
  <2> QED
    BY <1>6, <2>1
    DEF LoadsFirst, storeVars, WInv, WatchTypes, PushInv, ChannelInv, EntryInv, Changing
<1>7. CASE Receives
  <2>1. PICK conf \in Conf : slot = <<conf>>
    BY <1>7 DEF Receives, WInv, WatchTypes
  <2>2. Head(slot) = conf /\ slot[1] = conf /\ slot # <<>> /\ conf.launch \in BOOLEAN
    BY <2>1 DEF Conf
  <2>3. /\ seen' = conf.launch /\ slot' = <<>> /\ watcher = "waits"
        /\ watcher' = IF seen' # seen THEN "acts" ELSE "waits"
        /\ UNCHANGED <<life, cur, doing, next, registry, missed>>
    BY <1>7, <2>2 DEF Receives, storeVars
  <2>4. WatchTypes' /\ PushInv' /\ EntryInv'
    BY <2>2, <2>3 DEF WInv, WatchTypes, PushInv, EntryInv
  <2>5. ChannelInv'
    BY <2>2, <2>3 DEF WInv, ChannelInv, Changing
  <2> QED
    BY <2>4, <2>5 DEF WInv
<1>8. CASE Acts
  BY <1>8 DEF Acts, Writes, storeVars, WInv, WatchTypes, PushInv, ChannelInv, EntryInv, Changing
<1>9. ASSUME NEW a \in Applier, NEW launch \in BOOLEAN, NEW bad \in Edits,
             Calls(a, [launch |-> launch, bad |-> bad])
      PROVE  WInv'
  <2>1. /\ doing[a] = "idle" /\ doing' = [doing EXCEPT ![a] = "locks"]
        /\ \A b \in Applier \ {a} : next'[b] = next[b]
        /\ UNCHANGED <<registry, life, cur, slot, watcher, seen, missed>>
    BY <1>9 DEF Calls, watcherVars, IInv, TypeInv
  <2>2. \A b \in Applier : doing'[b] \in Ahead => b # a /\ doing[b] = doing'[b]
    BY <2>1 DEF IInv, TypeInv
  <2>3. \A b \in Applier : doing[b] \in Ahead => doing'[b] = doing[b]
    BY <2>1 DEF IInv, TypeInv
  <2> QED
    BY <2>1, <2>2, <2>3 DEF WInv, WatchTypes, PushInv, ChannelInv, EntryInv, Changing
<1>10. ASSUME NEW a \in Applier, Locks(a) \/ Truncates(a) \/ WritesRest(a) \/ SaveFails(a)
       PROVE  WInv'
  <2>1. /\ doing[a] \notin Ahead /\ doing'[a] \notin Ahead
        /\ \A b \in Applier \ {a} : doing'[b] = doing[b] /\ next'[b] = next[b]
        /\ UNCHANGED <<registry, life, cur, slot, watcher, seen, missed>>
    BY <1>10 DEF Locks, Truncates, WritesRest, SaveFails, Returns, watcherVars, IInv, TypeInv
  <2>2. Changing' <=> Changing
    BY <2>1 DEF Changing
  <2> QED
    BY <2>1, <2>2 DEF WInv, WatchTypes, PushInv, ChannelInv, EntryInv
<1>11. ASSUME NEW a \in Applier, SetsCur(a) PROVE WInv'
  <2>1. /\ doing[a] = "swaps" /\ doing'[a] = "drains" /\ cur' = next[a] /\ next' = next
        /\ \A b \in Applier \ {a} : doing'[b] = doing[b]
        /\ UNCHANGED <<registry, life, slot, watcher, seen, missed>>
    BY <1>11 DEF SetsCur, watcherVars, IInv, TypeInv
  <2>2. \A b \in Applier \ {a} : doing[b] \notin Ahead
    BY <2>1 DEF IInv, LockInv
  <2>3. Changing'
    BY <2>1 DEF Changing
  <2> QED
    BY <2>1, <2>2, <2>3 DEF WInv, WatchTypes, PushInv, ChannelInv, EntryInv
<1>12. ASSUME NEW a \in Applier, Drains(a) PROVE WInv'
  <2>1. doing[a] = "drains" /\ \A b \in Applier \ {a} : doing[b] \notin Ahead
    BY <1>12 DEF Drains, IInv, LockInv
  <2>2. UNCHANGED <<registry, life, cur, watcher, seen, missed>>
    BY <1>12 DEF Drains
  <2>3. CASE watcher = "new"
    <3>1. slot' = slot /\ slot = <<>> /\ \A b \in Applier : doing'[b] \notin Ahead
      BY <1>12, <2>1, <2>3 DEF Drains, Subscribed, Returns, IInv, TypeInv, WInv, WatchTypes
    <3> QED
      BY <2>2, <2>3, <3>1 DEF WInv, WatchTypes, PushInv, ChannelInv, EntryInv
  <2>4. CASE watcher # "new"
    <3>1. /\ slot' = <<>> /\ next' = next /\ doing'[a] = "pushes"
          /\ \A b \in Applier \ {a} : doing'[b] = doing[b]
      BY <1>12, <2>4 DEF Drains, Subscribed, IInv, TypeInv, WInv, WatchTypes
    <3>2. Changing'
      BY <3>1 DEF Changing
    <3> QED
      BY <2>1, <2>2, <2>4, <3>1, <3>2 DEF WInv, WatchTypes, PushInv, ChannelInv, EntryInv
  <2> QED
    BY <2>3, <2>4
<1>13. ASSUME NEW a \in Applier, Pushes(a) PROVE WInv'
  <2>1. doing[a] = "pushes" /\ \A b \in Applier \ {a} : doing[b] \notin Ahead
    BY <1>13 DEF Pushes, IInv, LockInv
  <2>2. slot = <<>> /\ watcher # "new" /\ cur = next[a] /\ next[a] \in Conf
    BY <2>1 DEF WInv, PushInv, IInv, TypeInv
  <2>3. /\ slot' = <<cur>> /\ \A b \in Applier : doing'[b] \notin Ahead
        /\ UNCHANGED <<registry, life, cur, watcher, seen, missed>>
    BY <1>13, <2>1, <2>2 DEF Pushes, Returns, IInv, TypeInv
  <2>4. slot' # <<>> /\ slot'[1] = cur /\ cur \in Conf
    BY <2>2, <2>3
  <2> QED
    BY <2>2, <2>3, <2>4 DEF WInv, WatchTypes, PushInv, ChannelInv, EntryInv
<1> QED
  BY <1>1, <1>2, <1>3, <1>4, <1>5, <1>6, <1>7, <1>8, <1>9, <1>10, <1>11, <1>12, <1>13
  DEF ConfigNext, Apply, watchConfigField

\* With nothing under way the Run entry is as the setting says, unless a write to
\* the registry failed or the setting changed before the watcher came up
\* (Reconcile, watchConfigField, Store.Apply and Subscribe).
THEOREM EntryFollows == ConfigSpec => []EntryFollowsSetting
<1>1. IInv /\ WInv => EntryFollowsSetting
  <2>1. IInv /\ lock = "nobody" => ~Changing
    BY SettingsAssumption DEF IInv, LockInv, Changing, Ahead, Inside
  <2> QED
    BY <2>1 DEF WInv, ChannelInv, EntryInv, EntryFollowsSetting
<1> QED
  BY <1>1, InitHolds, InvStep, WatchInit, WatchStep, PTL DEF ConfigSpec

--------------------------------------------------------------------------------
(* The settings between the page and the daemon (SettingsPage).            *)

PageConf == [Setting -> 0..(MaxClicks + 1)]
CallStep == {"apply", "done", "failed", "refetch", "refetched"}

PageTypes ==
  /\ clicks \in 0..MaxClicks
  /\ wanted \in PageConf /\ daemon \in PageConf /\ page \in PageConf
  /\ events \in Seq(PageConf) /\ queue \in Seq(PageConf)
  /\ calling \subseteq [step : CallStep, conf : PageConf]
  /\ seeding \in {<<>>, <<"asks">>} \cup {<<"told", a>> : a \in PageConf}
  /\ trouble \subseteq {"lost", "unheard"}

\* The page waits for the first answer before anything is clicked.
SeedInv ==
  /\ seeding = <<>> <=> written
  /\ ~written => /\ page = Unknown /\ queue = <<>> /\ calling = {} /\ news = <<>> /\ events = <<>>
                 /\ seeding \in {<<"asks">>, <<"told", daemon>>, <<"told", Unknown>>}

\* The queue runs one call at a time, so what it carries is as it was.
CallInv ==
  /\ \A c, d \in calling : c = d
  /\ \A c \in calling : /\ c.step = "refetched" => c.conf \in {daemon, Unknown}
                        /\ c.step = "done" => daemon = c.conf

\* The last news on its way to the page is of the settings in force.
NewsInv ==
  /\ news \in {<<>>, <<daemon>>}
  /\ news = <<>> /\ events # <<>> => Last(events) = daemon

\* With nothing on its way the page has it already.
ShownInv ==
  /\ seeding = <<>> /\ news = <<>> /\ events = <<>> /\ queue = <<>>
  /\ \A c \in calling : c.step = "done"
  => "unheard" \in trouble \/ page = daemon

\* The last apply that waits, is under way or has been served carries every click.
WantedInv ==
  "lost" \in trouble \/
    /\ queue # <<>> => Last(queue) = wanted
    /\ queue = <<>> =>
         /\ \A c \in calling : /\ c.step \in {"apply", "done"} => c.conf = wanted
                               /\ c.step \notin {"refetch", "refetched"}
         /\ calling = {} => daemon = wanted

PInv == PageTypes /\ SeedInv /\ CallInv /\ NewsInv /\ ShownInv /\ WantedInv

\* The last of a sequence stays it when the first is taken away.
LEMMA LastOfRest ==
  ASSUME NEW S, NEW s \in Seq(S), s # <<>>
  PROVE  /\ Head(s) \in S /\ Tail(s) \in Seq(S) /\ Last(s) \in S
         /\ Tail(s) # <<>> => Last(Tail(s)) = Last(s)
         /\ Tail(s) = <<>> => Head(s) = Last(s)
<1>1. /\ Head(s) \in S /\ Tail(s) \in Seq(S) /\ Len(Tail(s)) = Len(s) - 1
      /\ \A i \in 1..Len(Tail(s)) : Tail(s)[i] = s[i + 1]
  BY HeadTailProperties
<1>2. Len(s) \in Nat \ {0} /\ Head(s) = s[1]
  BY EmptySeq
<1>3. Last(s) \in S
  BY <1>2, ElementOfSeq DEF Last
<1>4. ASSUME Tail(s) # <<>> PROVE Last(Tail(s)) = Last(s)
  <2>1. Len(Tail(s)) \in Nat \ {0}
    <3> DEFINE rest == Tail(s)
    <3>1. rest \in Seq(S) /\ rest # <<>>
      BY <1>1, <1>4
    <3> HIDE DEF rest
    <3>2. Len(rest) \in Nat \ {0}
      BY <3>1, EmptySeq
    <3> QED
      BY <3>2 DEF rest
  <2> QED
    BY <1>1, <1>2, <2>1 DEF Last
<1>5. ASSUME Tail(s) = <<>> PROVE Head(s) = Last(s)
  <2> DEFINE m == Len(s)
             n == Len(Tail(s))
  <2>1. n = 0
    BY <1>5, EmptySeq
  <2>2. m \in Nat /\ n = m - 1
    BY <1>1, <1>2
  <2>3. m = 1
    <3> HIDE DEF m, n
    <3> QED
      BY <2>1, <2>2
  <2> QED
    BY <1>2, <2>3 DEF Last
<1> QED
  BY <1>1, <1>3, <1>4, <1>5

LEMMA LastOfAppend ==
  ASSUME NEW S, NEW s \in Seq(S), NEW e \in S
  PROVE  Append(s, e) \in Seq(S) /\ Append(s, e) # <<>> /\ Last(Append(s, e)) = e
  BY AppendProperties, LenProperties DEF Last

LEMMA PageInitHolds == PageInit => PInv
<1> SUFFICES ASSUME PageInit PROVE PInv
  OBVIOUS
<1>1. Nowhere \in PageConf /\ Unknown \in PageConf /\ <<>> \in Seq(PageConf)
  BY PageAssumption, EmptySeq DEF Nowhere, Unknown, PageConf
<1>2. PageTypes
  BY <1>1, PageAssumption DEF PageInit, PageTypes
<1>3. SeedInv /\ CallInv /\ NewsInv /\ ShownInv /\ WantedInv
  BY DEF PageInit, SeedInv, CallInv, NewsInv, ShownInv, WantedInv
<1> QED
  BY <1>2, <1>3 DEF PInv

(* The daemon.                                                             *)

LEMMA ServedKeeps == ASSUME PInv, NEW c \in calling, Served(c) PROVE PInv'
<1>1. /\ c.step = "apply" /\ c \in [step : CallStep, conf : PageConf] /\ calling = {c}
      /\ UNCHANGED <<clicks, wanted, events, page, written, seeding, queue, trouble>>
  BY DEF Served, PInv, PageTypes, CallInv
<1>2. CASE daemon' = c.conf /\ news' = <<c.conf>> /\ calling' = {Call("done", c.conf)}
  <2>1. PageTypes'
    BY <1>1, <1>2 DEF PInv, PageTypes, Call, CallStep
  <2>2. SeedInv' /\ CallInv'
    BY <1>1, <1>2 DEF PInv, SeedInv, CallInv, Call
  <2>3. NewsInv' /\ ShownInv'
    BY <1>1, <1>2 DEF PInv, NewsInv, ShownInv, Call
  <2>4. WantedInv'
    BY <1>1, <1>2 DEF PInv, WantedInv, Call
  <2> QED
    BY <2>1, <2>2, <2>3, <2>4 DEF PInv
<1>3. CASE UNCHANGED <<daemon, news>> /\ calling' = {Call("failed", c.conf)}
  <2>1. PageTypes'
    BY <1>1, <1>3 DEF PInv, PageTypes, Call, CallStep
  <2>2. SeedInv' /\ CallInv'
    BY <1>1, <1>3 DEF PInv, SeedInv, CallInv, Call
  <2>3. NewsInv'
    BY <1>1, <1>3 DEF PInv, NewsInv
  <2>4. ShownInv'
    <3>1. \E d \in calling' : d.step # "done"
      BY <1>3 DEF Call
    <3> QED
      BY <3>1 DEF ShownInv
  <2>5. WantedInv'
    <3>1. "lost" \in trouble \/ (queue # <<>> => Last(queue) = wanted)
      BY DEF PInv, WantedInv
    <3> DEFINE d == Call("failed", c.conf)
    <3>2. d.step = "failed"
      BY DEF Call
    <3>3. calling' = {d}
      BY <1>3
    <3> HIDE DEF d
    <3> QED
      BY <1>1, <3>1, <3>2, <3>3 DEF WantedInv
  <2> QED
    BY <2>1, <2>2, <2>3, <2>4, <2>5 DEF PInv
<1> QED
  BY <1>1, <1>2, <1>3 DEF Served

LEMMA PublishKeeps == PInv /\ publishConfigChanges => PInv'
<1> SUFFICES ASSUME PInv, publishConfigChanges PROVE PInv'
  OBVIOUS
<1>1. /\ news = <<daemon>> /\ daemon \in PageConf /\ events \in Seq(PageConf)
      /\ news' = <<>> /\ events' = Append(events, daemon)
      /\ UNCHANGED <<clicks, wanted, daemon, page, written, seeding, queue, calling, trouble>>
  BY DEF publishConfigChanges, PInv, NewsInv, PageTypes
<1>2. events' \in Seq(PageConf) /\ events' # <<>> /\ Last(events') = daemon
  BY <1>1, LastOfAppend
<1>3. PageTypes'
  BY <1>1, <1>2 DEF PInv, PageTypes
<1>4. SeedInv' /\ CallInv' /\ NewsInv' /\ ShownInv' /\ WantedInv'
  BY <1>1, <1>2 DEF PInv, SeedInv, CallInv, NewsInv, ShownInv, WantedInv
<1> QED
  BY <1>3, <1>4 DEF PInv

\* No call is under way beside a refetch, so the answer is still true when it comes.
LEMMA GetSettingsKeeps == PInv /\ GetSettings => PInv'
<1> SUFFICES ASSUME PInv, GetSettings PROVE PInv'
  OBVIOUS
<1>1. UNCHANGED <<clicks, wanted, daemon, news, events, page, written, queue, trouble>>
  BY DEF GetSettings
<1>2. PICK answer \in {daemon, Unknown} :
        \/ seeding = <<"asks">> /\ seeding' = <<"told", answer>> /\ UNCHANGED calling
        \/ \E c \in calling : /\ c.step = "refetch"
                              /\ calling' = (calling \ {c}) \cup {Call("refetched", answer)}
                              /\ UNCHANGED seeding
  BY DEF GetSettings
<1>3. answer \in PageConf
  BY PageAssumption DEF PInv, PageTypes, Unknown, PageConf
<1>4. CASE seeding = <<"asks">> /\ seeding' = <<"told", answer>> /\ UNCHANGED calling
  <2>1. PageTypes'
    BY <1>1, <1>3, <1>4 DEF PInv, PageTypes
  <2>2. seeding # <<>> /\ seeding' # <<>> /\ ~written
    BY <1>4 DEF PInv, SeedInv
  <2>3. SeedInv' /\ CallInv' /\ NewsInv' /\ ShownInv' /\ WantedInv'
    BY <1>1, <1>2, <1>4, <2>2 DEF PInv, SeedInv, CallInv, NewsInv, ShownInv, WantedInv
  <2> QED
    BY <2>1, <2>3 DEF PInv
<1>5. ASSUME NEW c \in calling, c.step = "refetch", UNCHANGED seeding,
             calling' = (calling \ {c}) \cup {Call("refetched", answer)}
      PROVE  PInv'
  <2>1. calling = {c} /\ calling' = {Call("refetched", answer)}
    BY <1>5 DEF PInv, CallInv
  <2>2. PageTypes'
    BY <1>1, <1>3, <1>5, <2>1 DEF PInv, PageTypes, Call, CallStep
  <2>3. SeedInv' /\ CallInv' /\ NewsInv' /\ ShownInv' /\ WantedInv'
    <3>1. SeedInv' /\ CallInv'
      BY <1>1, <1>2, <1>5, <2>1 DEF PInv, SeedInv, CallInv, Call
    <3>2. NewsInv'
      BY <1>1 DEF PInv, NewsInv
    <3>4. ShownInv'
      <4>1. \E d \in calling' : d.step # "done"
        BY <2>1 DEF Call
      <4> QED
        BY <4>1 DEF ShownInv
    <3>3. WantedInv'
      BY <1>1, <1>5, <2>1 DEF PInv, WantedInv, Call
    <3> QED
      BY <3>1, <3>2, <3>3, <3>4
  <2> QED
    BY <2>2, <2>3 DEF PInv
<1> QED
  BY <1>2, <1>4, <1>5

(* The page.                                                               *)

LEMMA SeedsKeeps == PInv /\ SeedsPage => PInv'
<1> SUFFICES ASSUME PInv, SeedsPage PROVE PInv'
  OBVIOUS
<1>1. /\ written' = TRUE /\ seeding' = <<>>
      /\ trouble' = trouble \cup {t \in {"unheard"} : ~written /\ seeding[2] = Unknown}
      /\ UNCHANGED <<clicks, wanted, daemon, news, events, queue, calling>>
  BY DEF SeedsPage
<1>2. seeding # <<>> /\ seeding # <<"asks">>
  <2>1. Len(seeding) = 2
    BY DEF SeedsPage
  <2>2. Len(<<>>) # 2 /\ Len(<<"asks">>) # 2
    OBVIOUS
  <2> QED
    BY <2>1, <2>2
<1>3. /\ ~written /\ page' = seeding[2] /\ seeding[2] \in {daemon, Unknown}
      /\ queue = <<>> /\ calling = {} /\ news = <<>> /\ events = <<>>
  BY <1>2 DEF SeedsPage, PInv, SeedInv
<1>4. PageTypes'
  <2>1. seeding[2] \in PageConf
    BY <1>3, PageAssumption DEF PInv, PageTypes, Unknown, PageConf
  <2> QED
    BY <1>1, <1>3, <2>1 DEF PInv, PageTypes
<1>5. SeedInv' /\ CallInv' /\ NewsInv' /\ ShownInv' /\ WantedInv'
  BY <1>1, <1>3 DEF PInv, SeedInv, CallInv, NewsInv, ShownInv, WantedInv
<1> QED
  BY <1>4, <1>5 DEF PInv

LEMMA ChangedKeeps == PInv /\ Changed => PInv'
<1> SUFFICES ASSUME PInv, Changed PROVE PInv'
  OBVIOUS
<1>1. /\ events # <<>> /\ events \in Seq(PageConf)
      /\ page' = Head(events) /\ written' = TRUE /\ trouble' = trouble \ {"unheard"}
      /\ events' = Tail(events)
      /\ UNCHANGED <<clicks, wanted, daemon, news, seeding, queue, calling>>
  BY DEF Changed, PInv, PageTypes
<1>2. /\ Head(events) \in PageConf /\ events' \in Seq(PageConf)
      /\ events' # <<>> => Last(events') = Last(events)
      /\ events' = <<>> => Head(events) = Last(events)
  BY <1>1, LastOfRest
<1>3. PageTypes'
  BY <1>1, <1>2 DEF PInv, PageTypes
<1>4. SeedInv' /\ CallInv' /\ NewsInv' /\ ShownInv' /\ WantedInv'
  BY <1>1, <1>2 DEF PInv, SeedInv, CallInv, NewsInv, ShownInv, WantedInv
<1> QED
  BY <1>3, <1>4 DEF PInv

\* A click on a page that shows every click before carries them all.
LEMMA ClicksKeeps == ASSUME PInv, NEW s \in Setting, Clicks(s) PROVE PInv'
<1>1. /\ clicks \in Nat /\ clicks < MaxClicks /\ clicks' = clicks + 1
      /\ wanted' = [wanted EXCEPT ![s] = clicks'] /\ page' = [page EXCEPT ![s] = clicks']
      /\ page # Unknown /\ written' = TRUE
      /\ queue' = Append(queue, page')
      /\ trouble' = trouble \cup {t \in {"lost"} : page # wanted}
      /\ UNCHANGED <<daemon, news, events, seeding, calling>>
  BY PageAssumption DEF Clicks, PInv, PageTypes
<1>2. wanted' \in PageConf /\ page' \in PageConf /\ clicks' \in 0..MaxClicks
  BY <1>1, PageAssumption DEF PInv, PageTypes, PageConf
<1>3. queue' \in Seq(PageConf) /\ queue' # <<>> /\ Last(queue') = page'
  BY <1>1, <1>2, LastOfAppend DEF PInv, PageTypes
<1>4. PageTypes'
  BY <1>1, <1>2, <1>3 DEF PInv, PageTypes
<1>5. written
  BY <1>1 DEF PInv, SeedInv
<1>6. SeedInv' /\ CallInv' /\ NewsInv' /\ ShownInv'
  BY <1>1, <1>3, <1>5 DEF PInv, SeedInv, CallInv, NewsInv, ShownInv
<1>7. WantedInv'
  <2>1. SUFFICES ASSUME "lost" \notin trouble' PROVE Last(queue') = wanted'
    BY <1>3 DEF WantedInv
  <2>2. page = wanted
    BY <1>1, <2>1
  <2> QED
    BY <1>1, <1>3, <2>2
<1> QED
  BY <1>4, <1>6, <1>7 DEF PInv

LEMMA RunsNextKeeps == PInv /\ RunsNext => PInv'
<1> SUFFICES ASSUME PInv, RunsNext PROVE PInv'
  OBVIOUS
<1>1. /\ queue # <<>> /\ queue \in Seq(PageConf) /\ calling = {}
      /\ calling' = {Call("apply", Head(queue))} /\ queue' = Tail(queue)
      /\ UNCHANGED <<clicks, wanted, daemon, news, events, page, written, seeding, trouble>>
  BY DEF RunsNext, PInv, PageTypes
<1>2. /\ Head(queue) \in PageConf /\ queue' \in Seq(PageConf)
      /\ queue' # <<>> => Last(queue') = Last(queue)
      /\ queue' = <<>> => Head(queue) = Last(queue)
  BY <1>1, LastOfRest
<1>3. PageTypes'
  BY <1>1, <1>2 DEF PInv, PageTypes, Call, CallStep
<1>4. SeedInv' /\ CallInv'
  BY <1>1 DEF PInv, SeedInv, CallInv, Call
<1>5. NewsInv'
  BY <1>1 DEF PInv, NewsInv
<1>6. ShownInv'
  <2>1. \E d \in calling' : d.step # "done"
    BY <1>1 DEF Call
  <2> QED
    BY <2>1 DEF ShownInv
<1>7. WantedInv'
  <2> DEFINE d == Call("apply", Head(queue))
  <2>1. "lost" \in trouble \/ Last(queue) = wanted
    BY <1>1 DEF PInv, WantedInv
  <2>2. d.step = "apply" /\ d.conf = Head(queue)
    BY DEF Call
  <2>3. calling' = {d}
    BY <1>1
  <2> HIDE DEF d
  <2> QED
    BY <1>1, <1>2, <2>1, <2>2, <2>3 DEF WantedInv
<1> QED
  BY <1>3, <1>4, <1>5, <1>6, <1>7 DEF PInv

LEMMA AnsweredKeeps == ASSUME PInv, NEW c \in calling, Answered(c) PROVE PInv'
<1>1. /\ calling = {c} /\ c \in [step : CallStep, conf : PageConf]
      /\ UNCHANGED <<clicks, wanted, daemon, news, events, seeding, queue>>
  BY DEF Answered, PInv, PageTypes, CallInv
<1>2. written
  BY <1>1 DEF PInv, SeedInv
<1>3. CASE c.step = "done" /\ calling' = {} /\ UNCHANGED <<page, written, trouble>>
  <2>1. PageTypes'
    BY <1>1, <1>3 DEF PInv, PageTypes
  <2>2. SeedInv' /\ CallInv' /\ NewsInv' /\ ShownInv' /\ WantedInv'
    BY <1>1, <1>2, <1>3 DEF PInv, SeedInv, CallInv, NewsInv, ShownInv, WantedInv
  <2> QED
    BY <2>1, <2>2 DEF PInv
<1>4. CASE /\ c.step = "failed" /\ calling' = {Call("refetch", c.conf)}
           /\ trouble' = trouble \cup {"lost"} /\ UNCHANGED <<page, written>>
  <2>1. PageTypes'
    BY <1>1, <1>4 DEF PInv, PageTypes, Call, CallStep
  <2>2. SeedInv' /\ CallInv' /\ NewsInv' /\ ShownInv' /\ WantedInv'
    BY <1>1, <1>2, <1>4 DEF PInv, SeedInv, CallInv, NewsInv, ShownInv, WantedInv, Call
  <2> QED
    BY <2>1, <2>2 DEF PInv
<1>5. CASE /\ c.step = "refetched" /\ calling' = {}
           /\ page' = IF c.conf = Unknown THEN page ELSE c.conf
           /\ trouble' = IF c.conf = Unknown THEN trouble \cup {"unheard"} ELSE trouble \ {"unheard"}
           /\ written' = TRUE
  <2>1. PageTypes'
    BY <1>1, <1>5 DEF PInv, PageTypes
  <2>2. SeedInv' /\ CallInv' /\ NewsInv' /\ ShownInv' /\ WantedInv'
    BY <1>1, <1>2, <1>5 DEF PInv, SeedInv, CallInv, NewsInv, ShownInv, WantedInv
  <2> QED
    BY <2>1, <2>2 DEF PInv
<1> QED
  BY <1>1, <1>3, <1>4, <1>5 DEF Answered

LEMMA PageStep == PInv /\ [PageNext]_pageVars => PInv'
<1> SUFFICES ASSUME PInv, [PageNext]_pageVars PROVE PInv'
  OBVIOUS
<1>1. CASE UNCHANGED pageVars
  BY <1>1 DEF pageVars, PInv, PageTypes, SeedInv, CallInv, NewsInv, ShownInv, WantedInv
<1> QED
  BY <1>1, ServedKeeps, PublishKeeps, GetSettingsKeeps, SeedsKeeps, ChangedKeeps, ClicksKeeps,
     RunsNextKeeps, AnsweredKeeps DEF PageNext

\* Once nothing is under way the page shows the settings in force, and these hold
\* every click, whatever calls fail and however answers and events cross, but for
\* a page that could not learn them and a click that was lost (useSettings.ts,
\* serialQueue.ts).
THEOREM PageSettlesInTheEnd == PageSpec => []PageSettles
<1>1. PInv => PageSettles
  BY DEF PInv, ShownInv, WantedInv, PageSettles, AtRest
<1> QED
  BY <1>1, PageInitHolds, PageStep, PTL DEF PageSpec
================================================================================
