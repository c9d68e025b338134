------------------------------- MODULE SettingsPage -------------------------------
(***************************************************************************)
(* The settings between the page and the daemon: useSettings.ts, its store *)
(* (createExternalStore.ts) and queue (serialQueue.ts), guiService with    *)
(* its goroutine publishConfigChanges, and of config.Store the settings    *)
(* and the channel of that goroutine.  Calls and events reach each other   *)
(* in no order; events among themselves keep theirs.                       *)
(*                                                                         *)
(* Settings are a value for each field, and click number n gives its field *)
(* the value n.                                                            *)
(***************************************************************************)
EXTENDS Naturals, SequencesExt

CONSTANTS
  Setting,      \* the fields of the settings
  MaxClicks     \* bound: clicks on settings

ASSUME PageAssumption == MaxClicks \in Nat

VARIABLES
  clicks,       \* clicks so far
  wanted,       \* what the clicks ask for
  daemon,       \* Store.cur
  news,         \* the channel of publishConfigChanges, capacity 1
  events,       \* settings:changed on its way to the page
  page, written,\* the store of the page
  seeding,      \* its first GetSettings
  queue,        \* applies that wait, the settings of each
  calling,      \* the calls under way, each with what it carries
  trouble       \* what has gone wrong: a "lost" click, an "unheard" answer

pageVars == <<clicks, wanted, daemon, news, events, page, written, seeding, queue, calling, trouble>>

Nowhere == [s \in Setting |-> 0]
Unknown == [s \in Setting |-> MaxClicks + 1]      \* null, before the first answer

PageInit ==
  /\ clicks = 0 /\ wanted = Nowhere
  /\ daemon = Nowhere /\ news = <<>> /\ events = <<>>
  /\ page = Unknown /\ written = FALSE
  /\ seeding = <<"asks">>
  /\ queue = <<>> /\ calling = {} /\ trouble = {}

Call(step, conf) == [step |-> step, conf |-> conf]

--------------------------------------------------------------------------------
(* The daemon.                                                             *)

\* Store.Apply: the newest settings take the place of those not yet fetched.
Served(c) ==
  /\ c.step = "apply"
  /\ \/ /\ daemon' = c.conf /\ news' = <<c.conf>>
        /\ calling' = (calling \ {c}) \cup {Call("done", c.conf)}
     \/ /\ calling' = (calling \ {c}) \cup {Call("failed", c.conf)}
        /\ UNCHANGED <<daemon, news>>
  /\ UNCHANGED <<clicks, wanted, events, page, written, seeding, queue, trouble>>

publishConfigChanges ==
  /\ news # <<>>
  /\ events' = Append(events, Head(news)) /\ news' = <<>>
  /\ UNCHANGED <<clicks, wanted, daemon, page, written, seeding, queue, calling, trouble>>

\* GetSettings, for the first load and after a failure; it may fail itself.
GetSettings ==
  /\ \E answer \in {daemon, Unknown} :
       \/ seeding = <<"asks">> /\ seeding' = <<"told", answer>> /\ UNCHANGED calling
       \/ \E c \in calling : /\ c.step = "refetch"
                             /\ calling' = (calling \ {c}) \cup {Call("refetched", answer)}
                             /\ UNCHANGED seeding
  /\ UNCHANGED <<clicks, wanted, daemon, news, events, page, written, queue, trouble>>

--------------------------------------------------------------------------------
(* The page.                                                               *)

\* setInitial: an event or a click that was there first counts.
SeedsPage ==
  /\ Len(seeding) = 2
  /\ page' = IF written THEN page ELSE seeding[2]
  /\ trouble' = trouble \cup {t \in {"unheard"} : ~written /\ seeding[2] = Unknown}
  /\ written' = TRUE
  /\ seeding' = <<>>
  /\ UNCHANGED <<clicks, wanted, daemon, news, events, queue, calling>>

Changed ==
  /\ events # <<>>
  /\ page' = Head(events) /\ written' = TRUE
  /\ trouble' = trouble \ {"unheard"}
  /\ events' = Tail(events)
  /\ UNCHANGED <<clicks, wanted, daemon, news, seeding, queue, calling>>

\* applyPatch, up to the queue.
Clicks(s) ==
  /\ page # Unknown
  /\ clicks < MaxClicks
  /\ clicks' = clicks + 1
  /\ wanted' = [wanted EXCEPT ![s] = clicks']
  /\ page' = [page EXCEPT ![s] = clicks'] /\ written' = TRUE
  /\ queue' = Append(queue, page')
  /\ trouble' = trouble \cup {t \in {"lost"} : page # wanted}
  /\ UNCHANGED <<daemon, news, events, seeding, calling>>

\* As RunsNext, not waiting for the task before.
RunsAtOnce ==
  /\ queue # <<>>
  /\ calling' = calling \cup {Call("apply", Head(queue))}
  /\ queue' = Tail(queue)
  /\ UNCHANGED <<clicks, wanted, daemon, news, events, page, written, seeding, trouble>>

\* The queue runs one task at a time, in order.
RunsNext ==
  /\ queue # <<>> /\ calling = {}
  /\ calling' = {Call("apply", Head(queue))}
  /\ queue' = Tail(queue)
  /\ UNCHANGED <<clicks, wanted, daemon, news, events, page, written, seeding, trouble>>

\* A failure refetches; when that fails too, the page stays as the click left it.
Answered(c) ==
  /\ \/ /\ c.step = "done"
        /\ calling' = calling \ {c}
        /\ UNCHANGED <<page, written, trouble>>
     \/ /\ c.step = "failed"
        /\ calling' = (calling \ {c}) \cup {Call("refetch", c.conf)}
        /\ trouble' = trouble \cup {"lost"}
        /\ UNCHANGED <<page, written>>
     \/ /\ c.step = "refetched"
        /\ calling' = calling \ {c}
        /\ page' = IF c.conf = Unknown THEN page ELSE c.conf
        /\ trouble' = IF c.conf = Unknown THEN trouble \cup {"unheard"} ELSE trouble \ {"unheard"}
        /\ written' = TRUE
  /\ UNCHANGED <<clicks, wanted, daemon, news, events, seeding, queue>>

PageNext ==
  \/ publishConfigChanges \/ GetSettings \/ SeedsPage \/ Changed \/ RunsNext
  \/ \E s \in Setting : Clicks(s)
  \/ \E c \in calling : Served(c) \/ Answered(c)

PageSpec == PageInit /\ [][PageNext]_pageVars

--------------------------------------------------------------------------------
(* Properties.                                                             *)

AtRest == seeding = <<>> /\ queue = <<>> /\ calling = {} /\ news = <<>> /\ events = <<>>

\* "two overlapping applies settle in call order instead of by whichever
\* response lands first": once nothing is under way the page shows the
\* daemon's settings, unless it could not learn them; and these hold every
\* click, unless a save failed or a click was made on a page that an event of
\* an earlier save had put back.
PageSettles ==
  AtRest => /\ "unheard" \in trouble \/ page = daemon
            /\ "lost" \in trouble \/ daemon = wanted
================================================================================
