-------------------------------- MODULE StatusView --------------------------------
(***************************************************************************)
(* The status on its way to the page: statusBridge of internal/app, with   *)
(* what it reads (the channel of the state manager, the connection flags,  *)
(* the last card sent, the pause flag), and the page's store               *)
(* (createExternalStore.ts, useStatus.ts).                                 *)
(*                                                                         *)
(* A snapshot is not taken at one moment: its sources are read one after   *)
(* the other, each under a lock of its own, by the bridge and by every     *)
(* GetStatus.  Events reach the page in the order of their emission; the   *)
(* answer to a call reaches it at any time, or never.                      *)
(***************************************************************************)
EXTENDS Naturals, Sequences

CONSTANTS
  Source,       \* the flags that are polled, paused and those of Connections
  Phase,        \* the contexts a state can be in
  MaxEvents     \* bound: no source changes while so many events are on their way

ASSUME StatusAssumption == MaxEvents \in Nat \ {0}

Bridge == "bridge"
Page == "page"
NoPhase == "none"

VARIABLES
  source,       \* the flags
  context,      \* the context of the newest state the manager published, once there is one
  states,       \* the bridge's channel from the manager, capacity 1
  known,        \* statusBridge.context
  snap,         \* the snapshot each reader is at: which flags it has read, and what
  last,         \* statusBridge.last, once there is one
  sent,         \* status:changed on its way to the page
  asked,        \* the page's GetStatus
  view,         \* the value of the page's store, once there is one
  heard         \* an event has come: written, but for the seed

readerVars == <<known, snap, last>>
pageStoreVars == <<asked, view, heard>>
sourceVars == <<source, context, states>>
statusVars == <<sourceVars, readerVars, sent, pageStoreVars>>

\* A snapshot under way, or none.
Idle == [open |-> FALSE, phase |-> NoPhase, left |-> {}, flags |-> [s \in Source |-> FALSE]]
Result(r) == [phase |-> snap[r].phase, flags |-> snap[r].flags]

StatusInit ==
  /\ source = [s \in Source |-> FALSE]
  /\ context = NoPhase /\ states = <<>> /\ known = NoPhase
  /\ snap = [r \in {Bridge, Page} |-> Idle]
  /\ last = <<>> /\ sent = <<>>
  /\ asked = "closed" /\ view = <<>> /\ heard = FALSE

--------------------------------------------------------------------------------
(* The sources.                                                            *)

\* A supervisor, the presence clock, the Updater or a click on Pause.
Flips(s) ==
  /\ Len(sent) < MaxEvents
  /\ source' = [source EXCEPT ![s] = ~@]
  /\ UNCHANGED <<context, states, readerVars, sent, pageStoreVars>>

\* As broadcast, dropping the newest of two.
broadcastDrops(p) ==
  /\ context # p /\ Len(sent) < MaxEvents
  /\ context' = p
  /\ states' = IF states = <<>> THEN <<p>> ELSE states
  /\ UNCHANGED <<source, readerVars, sent, pageStoreVars>>

\* Manager.Apply publishes; the newest state takes the place of the one before.
broadcast(p) ==
  /\ context # p /\ Len(sent) < MaxEvents
  /\ context' = p
  /\ states' = <<p>>
  /\ UNCHANGED <<source, readerVars, sent, pageStoreVars>>

--------------------------------------------------------------------------------
(* snapshot, for either reader.                                            *)

Opens(r) == snap' = [snap EXCEPT ![r] = [Idle EXCEPT !.open = TRUE, !.phase = known, !.left = Source]]

Reads(r, s) ==
  /\ s \in snap[r].left
  /\ snap' = [snap EXCEPT ![r].left = @ \ {s}, ![r].flags[s] = source[s]]
  /\ UNCHANGED <<sourceVars, known, last, sent, pageStoreVars>>

Complete(r) == snap[r].open /\ snap[r].left = {}

--------------------------------------------------------------------------------
(* statusBridge.run.                                                       *)

\* The ticker.
Polls ==
  /\ ~snap[Bridge].open
  /\ Opens(Bridge)
  /\ UNCHANGED <<sourceVars, known, last, sent, pageStoreVars>>

Hears ==
  /\ ~snap[Bridge].open /\ states # <<>>
  /\ known' = Head(states) /\ states' = <<>>
  /\ snap' = [snap EXCEPT ![Bridge] = [Idle EXCEPT !.open = TRUE, !.phase = known', !.left = Source]]
  /\ UNCHANGED <<source, context, last, sent, pageStoreVars>>

\* Emitting without a page reaches nobody.
emitIfChanged ==
  /\ Complete(Bridge)
  /\ snap' = [snap EXCEPT ![Bridge] = Idle]
  /\ last' = <<Result(Bridge)>>
  /\ sent' = IF last' = last \/ asked = "closed" THEN sent ELSE Append(sent, Result(Bridge))
  /\ UNCHANGED <<sourceVars, known, pageStoreVars>>

run == Polls \/ Hears \/ (\E s \in Source : Reads(Bridge, s)) \/ emitIfChanged

--------------------------------------------------------------------------------
(* The page's store.                                                       *)

\* The first subscriber makes the call and listens for the events.
Subscribe ==
  /\ asked = "closed"
  /\ asked' = "asks"
  /\ UNCHANGED <<sourceVars, readerVars, sent, view, heard>>

GetStatus ==
  \/ /\ asked = "asks"
     /\ Opens(Page)
     /\ asked' = "reads"
     /\ UNCHANGED <<sourceVars, known, last, sent, view, heard>>
  \/ \E s \in Source : Reads(Page, s)

\* As setInitial, overwriting what an event has brought.
setInitialAnyway ==
  /\ asked = "reads" /\ Complete(Page)
  /\ asked' = "told"
  /\ view' = <<Result(Page)>>
  /\ snap' = [snap EXCEPT ![Page] = Idle]
  /\ UNCHANGED <<sourceVars, known, last, sent, heard>>

\* An event that was there first counts.
setInitial ==
  /\ asked = "reads" /\ Complete(Page)
  /\ asked' = "told"
  /\ view' = IF heard THEN view ELSE <<Result(Page)>>
  /\ snap' = [snap EXCEPT ![Page] = Idle]
  /\ UNCHANGED <<sourceVars, known, last, sent, heard>>

Listens ==
  /\ sent # <<>>
  /\ view' = <<Head(sent)>> /\ heard' = TRUE
  /\ sent' = Tail(sent)
  /\ UNCHANGED <<sourceVars, readerVars, asked>>

StatusNext ==
  \/ \E s \in Source : Flips(s)
  \/ \E p \in Phase : broadcast(p)
  \/ run \/ Subscribe \/ GetStatus \/ setInitial \/ Listens

\* The bridge polls every second, and between two polls its select takes what the
\* channel holds; an event that is on its way arrives.
StatusFairness == WF_statusVars(run) /\ SF_statusVars(Hears) /\ WF_statusVars(Listens)

StatusSpec == StatusInit /\ [][StatusNext]_statusVars /\ StatusFairness

--------------------------------------------------------------------------------
(* Properties.                                                             *)

\* "Seeds the store from its initial fetch, unless an event beat it here": once an
\* event has come, the page shows what the bridge emitted last as soon as nothing
\* is on its way, though its own call may have read earlier and be answered later,
\* and the bridge takes what it emitted last for known to the page.
PageIsAtLastEmitted ==
  /\ sent # <<>> => last = <<sent[Len(sent)]>>
  /\ heard /\ sent = <<>> => view = last

\* "The live status snapshot: loaded once, kept in sync with status:changed":
\* when the sources come to rest, a page that any event has reached comes to
\* show them, though its snapshots were taken piece by piece while they changed
\* and its own call may be answered last.
StatusCatchesUp ==
  <>[][FALSE]_<<source, context>> =>
    <>[](heard => view = <<[phase |-> context, flags |-> source]>>)
================================================================================
