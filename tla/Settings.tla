--------------------------------- MODULE Settings ---------------------------------
(***************************************************************************)
(* internal/config (the store, the file, the checks and repairs),          *)
(* internal/startup and watchConfigField of main.go: the settings in       *)
(* memory, on disk and in the entry "start with Windows", over calls that  *)
(* overlap, writes that fail, crashes and restarts.                        *)
(*                                                                         *)
(* Of a setting counts whether the program starts with Windows, and of the *)
(* others only which of them are out of bounds.                            *)
(***************************************************************************)
EXTENDS Naturals, Sequences, FiniteSets

CONSTANTS
  Applier,      \* goroutines that call Store.Apply
  Edits         \* bound: the fields a hand edit of the file may break together

VARIABLES
  file,         \* config.json
  registry,     \* the Run entry is set
  life,         \* where the program stands between off and up
  cur,          \* Store.cur
  lock,         \* who holds Store.mu
  slot,         \* the channel of the watcher, capacity 1
  doing, next,  \* each call of Apply: where it stands, and its settings
  watcher, seen,\* watchConfigField: where it stands, and last
  missed        \* the entry is known to lag: a write of it failed, or the
                \* setting had changed before the watcher came up

storeVars == <<cur, lock, doing, next>>
watcherVars == <<slot, watcher, seen>>
configVars == <<file, registry, life, storeVars, watcherVars, missed>>

Checked == {"discord_app_id", "theme", "match_image", "close_action", "update_interval"}
ASSUME SettingsAssumption == Edits \subseteq SUBSET Checked /\ "nobody" \notin Applier

DefaultConfig == [launch |-> TRUE, bad |-> {}]

ConfigInit ==
  /\ file \in [text : {"missing"}, conf : {DefaultConfig}]
  /\ registry \in BOOLEAN
  /\ life = "off" /\ cur = DefaultConfig /\ lock = "nobody"
  /\ slot = <<>>
  /\ doing = [a \in Applier |-> "idle"] /\ next = [a \in Applier |-> DefaultConfig]
  /\ watcher = "new" /\ seen = FALSE
  /\ missed = FALSE

--------------------------------------------------------------------------------
(* config.go, loader.go.                                                   *)

Validate(conf) == conf.bad = {}

\* As clamp, which has not heard of the newest field.
clampOld(conf) == [conf EXCEPT !.bad = @ \cap {"match_image"}]

clamp(conf) == [conf EXCEPT !.bad = {}]

\* A file that is torn does not parse.  There is no migration step yet.
Loads(f) == IF f.text = "missing" THEN DefaultConfig ELSE clamp(f.conf)
Readable(f) == f.text # "torn"

\* WriteFile truncates the file and then writes it; it may fail before, half
\* way or not at all.
Whole(conf) == [text |-> "whole", conf |-> conf]
Torn == [text |-> "torn", conf |-> DefaultConfig]

--------------------------------------------------------------------------------
(* The user and the machine.                                               *)

EditsFile ==
  /\ life = "off"
  /\ \E launch \in BOOLEAN, bad \in Edits :
       file' \in {Whole([launch |-> launch, bad |-> bad]), [text |-> "missing", conf |-> DefaultConfig]}
  /\ UNCHANGED <<registry, life, storeVars, watcherVars, missed>>

\* A quit, a crash or the end of the session, at any moment.
Quits ==
  /\ life # "off"
  /\ life' = "off"
  /\ cur' = DefaultConfig /\ lock' = "nobody"
  /\ doing' = [a \in Applier |-> "idle"] /\ next' = [a \in Applier |-> DefaultConfig]
  /\ slot' = <<>> /\ watcher' = "new" /\ seen' = FALSE
  /\ missed' = FALSE
  /\ UNCHANGED <<file, registry>>

--------------------------------------------------------------------------------
(* main: LoadOrCreate, NewStore, the first Reconcile.                      *)

\* A file that cannot be read ends the program again.
Starts ==
  /\ life = "off" /\ Readable(file)
  /\ cur' = Loads(file)
  /\ life' = IF file.text = "missing" THEN "creates" ELSE "reconciles"
  /\ UNCHANGED <<file, registry, lock, doing, next, watcherVars, missed>>

\* The default file, step by step as every other.
Creates ==
  /\ life = "creates"
  /\ \/ file.text = "missing" /\ file' = Torn /\ UNCHANGED life
     \/ file.text = "torn" /\ file' = Whole(cur) /\ life' = "reconciles"
  /\ UNCHANGED <<registry, storeVars, watcherVars, missed>>

\* Reconcile: the registry may refuse, which is logged.
Writes(want) ==
  \/ registry' = want /\ missed' = FALSE
  \/ registry # want /\ missed' = TRUE /\ UNCHANGED registry

Reconciles ==
  /\ life = "reconciles"
  /\ Writes(cur.launch)
  /\ life' = "up"
  /\ UNCHANGED <<file, storeVars, watcherVars>>

--------------------------------------------------------------------------------
(* Store.Apply.                                                            *)

\* A call with settings that do not validate returns at once.
Calls(a, conf) ==
  /\ life = "up" /\ doing[a] = "idle"
  /\ Validate(conf)
  /\ doing' = [doing EXCEPT ![a] = "locks"]
  /\ next' = [next EXCEPT ![a] = conf]
  /\ UNCHANGED <<file, registry, life, cur, lock, watcherVars, missed>>

\* As Locks, leaving the writers to each other.
LocksNothing(a) ==
  /\ doing[a] = "locks"
  /\ doing' = [doing EXCEPT ![a] = "saves"]
  /\ UNCHANGED <<file, registry, life, cur, lock, next, watcherVars, missed>>

Locks(a) ==
  /\ doing[a] = "locks" /\ lock = "nobody"
  /\ lock' = a
  /\ doing' = [doing EXCEPT ![a] = "saves"]
  /\ UNCHANGED <<file, registry, life, cur, next, watcherVars, missed>>

Returns(a) ==
  /\ doing' = [doing EXCEPT ![a] = "idle"]
  /\ next' = [next EXCEPT ![a] = DefaultConfig]
  /\ lock' = "nobody"

Truncates(a) ==
  /\ doing[a] = "saves"
  /\ file' = Torn
  /\ doing' = [doing EXCEPT ![a] = "fills"]
  /\ UNCHANGED <<registry, life, cur, lock, next, watcherVars, missed>>

WritesRest(a) ==
  /\ doing[a] = "fills"
  /\ file' = Whole(next[a])
  /\ doing' = [doing EXCEPT ![a] = "swaps"]
  /\ UNCHANGED <<registry, life, cur, lock, next, watcherVars, missed>>

\* Before or after the file was truncated.
SaveFails(a) ==
  /\ doing[a] \in {"saves", "fills"}
  /\ Returns(a)
  /\ UNCHANGED <<file, registry, life, cur, watcherVars, missed>>

SetsCur(a) ==
  /\ doing[a] = "swaps"
  /\ cur' = next[a]
  /\ doing' = [doing EXCEPT ![a] = "drains"]
  /\ UNCHANGED <<file, registry, life, lock, next, watcherVars, missed>>

Subscribed == watcher \notin {"new", "loaded"}

\* "Drop any stale pending value, then push the latest."
Drains(a) ==
  /\ doing[a] = "drains"
  /\ IF ~Subscribed THEN Returns(a) /\ UNCHANGED slot
     ELSE /\ slot' = <<>>
          /\ doing' = [doing EXCEPT ![a] = "pushes"]
          /\ UNCHANGED <<next, lock>>
  /\ UNCHANGED <<file, registry, life, cur, watcher, seen, missed>>

Pushes(a) ==
  /\ doing[a] = "pushes"
  /\ slot' = IF slot = <<>> THEN <<next[a]>> ELSE slot
  /\ Returns(a)
  /\ UNCHANGED <<file, registry, life, cur, watcher, seen, missed>>

Apply(a) ==
  Locks(a) \/ Truncates(a) \/ WritesRest(a) \/ SaveFails(a) \/ SetsCur(a) \/ Drains(a) \/ Pushes(a)

--------------------------------------------------------------------------------
(* watchConfigField, for the setting that starts the program with Windows. *)

\* Subscribe takes the lock of the store.
Subscribes ==
  /\ life = "up" /\ watcher = "new" /\ lock = "nobody"
  /\ slot' = <<>>
  /\ watcher' = "subscribed"
  /\ UNCHANGED <<file, registry, life, storeVars, seen, missed>>

\* A setting that changed before counts as the one the program started with.
LoadsFirst ==
  /\ watcher = "subscribed"
  /\ seen' = cur.launch
  /\ missed' = (missed \/ cur.launch # registry)
  /\ watcher' = "waits"
  /\ UNCHANGED <<file, registry, life, storeVars, slot>>

Receives ==
  /\ watcher = "waits" /\ slot # <<>>
  /\ seen' = Head(slot).launch
  /\ slot' = <<>>
  /\ watcher' = IF seen' # seen THEN "acts" ELSE "waits"
  /\ UNCHANGED <<file, registry, life, storeVars, missed>>

Acts ==
  /\ watcher = "acts"
  /\ Writes(seen)
  /\ watcher' = "waits"
  /\ UNCHANGED <<file, life, storeVars, slot, seen>>

\* As watchConfigField, loading before it subscribes.
watchLoadsFirst ==
  \/ /\ life = "up" /\ watcher = "new"
     /\ seen' = cur.launch /\ watcher' = "loaded"
     /\ missed' = (missed \/ cur.launch # registry)
     /\ UNCHANGED <<file, registry, life, storeVars, slot>>
  \/ /\ watcher = "loaded" /\ lock = "nobody"
     /\ slot' = <<>> /\ watcher' = "waits"
     /\ UNCHANGED <<file, registry, life, storeVars, seen, missed>>
  \/ Receives \/ Acts

watchConfigField == Subscribes \/ LoadsFirst \/ Receives \/ Acts

ConfigNext ==
  \/ EditsFile \/ Quits \/ Starts \/ Creates \/ Reconciles
  \/ \E a \in Applier :
       \/ \E launch \in BOOLEAN, bad \in Edits : Calls(a, [launch |-> launch, bad |-> bad])
       \/ Apply(a)
  \/ watchConfigField

ConfigSpec == ConfigInit /\ [][ConfigNext]_configVars

--------------------------------------------------------------------------------
(* Properties.                                                             *)

Saving == \E a \in Applier : doing[a] \in {"fills", "swaps"}

\* The settings the program runs on are ones it would save ("Shared by Validate
\* and clamp so the reject path and the load-time repair path can't drift
\* apart"), and a restart would come back to exactly them, also when calls
\* overlap and saves fail, unless a write broke off and left a file that does
\* not parse.
RestartKeepsSettings ==
  life \in {"reconciles", "up"} /\ ~Saving =>
    Validate(cur) /\ (Readable(file) => Loads(file) = cur)

\* "Keep the start with Windows registry entry matching the setting, both now
\* and whenever the GUI toggles it": with no call and no notice under way, the
\* entry is as the setting says, however the calls and the watcher met, unless
\* it is known to lag.
EntryFollowsSetting ==
  (watcher = "waits" /\ slot = <<>> /\ lock = "nobody" /\ ~missed) => registry = cur.launch
================================================================================
