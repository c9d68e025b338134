# Verification of valorant-rpc

valorant-rpc is a Windows tray program that shows what a Valorant player is
doing as Discord Rich Presence.  It reads the local API of the Riot Client,
keeps one game state, decides whether that state should be shown, and writes it
to Discord's IPC pipe, where other writers compete for the same slot.  The
program runs for weeks without a restart (docs/adr/0002), while the game, the
Riot Client and Discord come and go around it.  Most of what can go wrong lies
between its goroutines.  This directory holds TLA+ models of those parts, the
TLC runs that check them and TLAPS proofs of their main invariants.

Paths below are relative to the repository; `PROJECT.json` maps every definition
to its source lines.

## 1. The system

| Component | State it keeps | Operations |
|---|---|---|
| Presence writer, `internal/discord/updater.go` | last state performed, card being defended, heartbeat and burst counters, ticker cadence, last Details bytes, debounce timer | `DelayUpdate`, the timer goroutine (`executeUpdate`), `ImmediateUpdate`, `ClearPresence`, `heartbeat`, `LastSent` |
| Discord client, `internal/discord/client.go`, `ipc/` | pipe, connected flag, application ID it was opened with | `Connect`, `Disconnect`, `UpdatePresence`, `ClearPresence`, `IsConnected` |
| Presence mapping, `internal/discord/presence.go`, `internal/presence/template` | none | state and settings to a card, or to "hide" |
| Presence loop, `internal/daemon/daemon.go` | mode, last Discord flag seen, agentResolved | a select over state changes, settings changes, pause signal and a 3 s tick |
| Game log lookups, `internal/daemon/agents.go`, `menuscreen.go`, `internal/gamelog` | none | read the agent or the menu screen from the log and apply it to the state |
| State manager, `internal/state` | current state, a buffered channel of changes, subscribers | `Get`, `Apply`, `Updates`, `Subscribe`, `Close` |
| Supervisors, `internal/daemon/supervisor.go`, `riot_supervisor.go`, `discord_supervisor.go` | process flags, connected flag | gate, connect, poll, disconnect, callbacks, for ever |
| Riot source, `internal/daemon/riotsource.go` | time of the connection and of the first presence | `Connect`, `Disconnect`, `onPresence`, `PresenceStalled` |
| Presence watcher, `internal/riotchat/watcher.go` | session, subscribed, sawEvent | `Start`, `handleEvent`, snapshot |
| Riot client, `internal/riotclient` | socket, connected flag, registry of handlers | `Connect`, `Disconnect`, `Subscribe`, the listener |
| Settings, `internal/config` | the snapshot, the file, subscribers | `Load`, `Subscribe`, `Apply`, load and migrate at start |
| App Update, `internal/updates` | status, downloading, ready, failure count | `Run`, `Check`, `Download`, `Restart` |
| Facade and status, `internal/app` | last status emitted | status bridge, previews, pass-through calls |
| GUI shell, `cmd/valorant-rpc-gui` | pause check mark, window, notified version | tray, services, config watchers |
| Content catalogue, `internal/content` | a snapshot of names and art | `Refresh`, `Run`, `Snapshot` |
| Log ring, `internal/logging` | the last lines, subscribers | `Write`, `RecentLines`, `Subscribe` |
| Discovery, `internal/riotclient/discovery.go`, `credentials.go` | none; the lockfile and the process table are read afresh | `find` |
| Decoding, `internal/riotchat/decode.go`, `internal/daemon/presence.go` | none | a payload to a presence, a presence into the state |
| Page stores, `frontend/src/hooks`, `LogViewer.tsx` | settings, status and log lines as the page shows them | fill from a call, follow events, apply clicks |

How they interact:

* A presence event runs on the listener goroutine of the Riot client, through
  `Watcher.handleEvent` and `RiotSource.onPresence`, into `state.Manager.Apply`.
  The same call is made by the supervisor's goroutine for the snapshot.
* `Apply` broadcasts a changed state on a buffered channel, and drops it when
  the channel is full.  The presence loop receives it.
* The loop also polls: every tick it reads the pause flag and the connected
  flags, which the supervisors' callbacks set some time after the fact.
* The loop calls the Updater.  The Updater's timer and ticker run on goroutines
  of their own; one mutex serializes all of them (docs/adr/0001).
* The Updater writes through the Discord client, whose connection the Discord
  supervisor opens and closes, and which drops it itself when the pipe fails.
* Settings are swapped in atomically and announced to every subscriber: the
  Updater reads them at each render, the loop resends on the announcement.

What makes it hard: fired timers that `Stop` no longer reaches; flags that lag
behind what they report; two reads of one flag in one decision; dropped channel
values and dropped signals; answers from the log or from HTTP that arrive when
the state has moved on; listeners that outlive their connection; a payload
Discord ignores because it equals the last one; settings that change what a live
connection counts as.  `PROJECT.json` lists each at its line under `hazards`,
with the properties that cover it.

What makes each component correct:

* Updater: what is defended, what the GUI is told and what the pipe carries are
  one card; a resend is never one Discord ignores; the card is defended as long
  as the connection holds; a clear ends the defence; only the last request of a
  burst of requests is performed.
* Loop: while presence is held cleared, nothing is armed and nothing brings a
  card back; whatever happened before, the loop ends up in the mode the flags
  call for; a reconnect shows the card again; a match shows its own agent.
* Riot link: a standing connection carries exactly one subscription, its flag is
  up, and what is shown is what the player published last.
* Supervisors: callbacks alternate, retries never end, a connection goes away
  when its process does, and quitting is never held up and leaves nothing open but
  what a connect it did not wait for opens.
* App Update: status and flags agree, a staged update stays staged, and a release
  that stays out is staged in the end.
* Settings: a restart comes back to the settings in force, the registry entry
  follows them, and the page and the daemon end up alike.
* Discord client: with Discord and the game there to stay and a card up, it comes
  to an open pipe under the configured application ID and stays on it.
* Discovery and decoding: no call misses a client that is there all the while, and
  a client that answers is found in the end; a bad entry hides no good one, and the
  state is the last presence and nothing older.
* Presence mapping: nothing that is hidden shows, lines read as text, and the
  preview is what a send would look like.
* Status, catalogue, log: the page catches up with the sources; a card is drawn
  from one refresh; the viewer shows the lines without a gap, up to the newest.

## 2. The modules

| Module | Models | Uses |
|---|---|---|
| `RichPresence` | the promise: a card is shown, defended, cleared or lost | |
| `Updater` | the Updater, with the Discord client as it sees it | refines `RichPresence` |
| `UpdaterRequests` | the Updater with a history of the last request | `Updater` |
| `PresenceLoop` | loop, state manager, lookups, pause, settings, supervisors | `Updater` |
| `RiotLink` | Riot client, listener, watcher, Riot source | |
| `Connection` | the promise: opened before it is flagged, closed before it is unflagged | |
| `Supervisors` | both supervisors, gates, polls, shutdown | refines `Connection`, once each |
| `AppUpdate` | the update Coordinator | |
| `DiscordClient` | the Discord client's lock and pipes | |
| `Presence` | the card of every state, and its preview | |
| `Discovery` | finding the Riot Client | |
| `Decode` | reading a presence and putting it into the state | |
| `Settings` | store, file, checks, start at login | |
| `SettingsPage` | settings between the page and the daemon | |
| `StatusView` | status bridge and the page's status store | |
| `Content` | the catalogue, its refresh and its readers | |
| `LogTail` | the log ring, its subscriber and the viewer | |
| `UpdaterProofs`, `LoopProofs`, `SupervisorsProofs`, `AppUpdateProofs` | theorems of the module they are named for | `TLAPS` |
| `WriterProofs` | theorems of `Presence` and `DiscordClient` | `TLAPS` |
| `RiotLinkProofs` | theorems of `RiotLink`, `Discovery` and `Decode` | `TLAPS` |
| `SettingsProofs`, `DesktopProofs` | theorems of `Settings` and `SettingsPage`, and of `LogTail`, `Content` and `StatusView` | `TLAPS` |
| `MCUpdater`, `MCUpdaterRequests`, `MCPresenceLoop` | values of the constants | |
| `MCWriter`, `MCRiotLink`, `MCDesktop` | values of the constants; several modules side by side | |

`MCWriter` puts `Presence` and `DiscordClient` beside `Updater`, `MCRiotLink` puts
`Discovery` and `Decode` beside `RiotLink`, and `MCDesktop` the six modules around
the presence beside each other.  These modules share no variable.  A variable
`part` is chosen at the start and never changes; only the chosen module moves, the
others keep a fixed initial value.  So one TLC run checks them all, its states are
the sum of theirs and not the product, and nothing is claimed of how their steps
interleave.  Where two of them do meet in the code, the interface is one the
other module leaves arbitrary: `Updater` takes any `Render`, `RiotLink` any failure
of a dial.

### RichPresence

Two variables: the card being defended and what the connection carries.  The
connection carries that card or nothing, except that a clear does not reach a
connection of another application ID; defending a card never repeats the
spelling Discord has.  `Updater!PresenceSpec` states that the Updater implements
it.

### Updater

One action per method, because each runs under `u.mu` from beginning to end.
What escapes the mutex is the debounce timer: `timer` is the state captured by
the armed `time.AfterFunc`, and `fired[s]` counts the goroutines that have fired
and wait for the mutex; `ClearPresence` and `ImmediateUpdate` reset the first and
leave the second, as `Timer.Stop` does.

A payload is a card and a flag for the zero-width space.  `DetailsOf` gives the
Details line of a card, and cards may share one: `Equals` compares the whole
card while the resend compares Details bytes, and the model keeps the
difference.  `Render` and `Hidden` stand for `MapStateToPresence` and
`ShouldClearPresence`, as arbitrary functions of state and settings.

The Discord client is reduced to what the Updater can see: `link` is "live",
"stale" (the pipe is open under another application ID, so `IsConnected` is
false while `UpdatePresence` still writes) or "down", and `wire` is the last
payload the connection accepted.  A failed send drops the connection, as
`setActivity` does.

### PresenceLoop

Extends `Updater`.  The loop is one goroutine; a step is one stretch of a handler
between two reads of something another goroutine writes, and `todo` is the list
of the stretches still to run.  Reading the pause flag and the Discord flag is
one stretch, reading the Riot flags another, the lookups, the second read of the
Discord flag and `Get` are further ones.  `held` is the state a handler was
handed or has read, which may be outdated when the lookup uses it.

`entry` stands for `ContextEnteredAt`: two states of the same context entered at
different times differ, which is all the code uses it for.  Loop states other
than a running match are folded into the menus, whose `screen` the log tells
apart.  `riotSup` runs through the supervisor's stations: open (connected, flag
not yet up), up, dropped (the socket is gone and the flag still up), reset (the
state forgotten), closed (flag still up) and down.  A frame being handled when
its connection is closed counts as one that came just before.

### RiotLink

Presences are numbered in the order they are published.  The supervisor's
goroutine walks through `phase`, one value per stretch of
`RiotSource.Connect`, `Watcher.Start` and `RiotSource.Disconnect`; each socket
has a listener with its own position.  A socket delivers one copy of an event
per subscription it carries, so a double subscription is a visible fault.  The
Riot Client itself (`Publish`, `SocketBreaks`) is external.

### Connection and Supervisors

`Connection` is what readers of a supervisor's `Connected()` may rely on: the
link is there before the flag rises and gone before it falls, and it may drop at
any time in between.  `PresenceLoop` assumes this much of both supervisors.

`Supervisors` has both of them at once, because Discord's gate and its
`IsConnected` read the Riot supervisor's `GameRunning`.  `stage` is where a
supervisor's goroutine stands, `attempt` the goroutine of its `Connect`, which
`connect` leaves behind when the context ends.  `checkGame` lists the processes
twice (`sawClient` is the first answer), `IsConnected` reads two or three things
one after the other (`read` is how far it got), and the processes come and go
between any two of these.  What `Connect` and `Disconnect` do inside is left to
`RiotLink` and the Discord client.  An attempt that was left behind may still
succeed; `supervisor.go` closes nothing then, and neither does the model:
`NothingLeftOpen` says that this is all that can be left open.

### AppUpdate

Run's loop, the callers of `Check` and `Download`, and the goroutines of
`autoDownload` walk through `pc`, one value per critical section or round trip.
The provider's answer is taken at one time and recorded at another.
`downloading` and `ready` are the Coordinator's own flags, `status` the copy that
is shown; the text of an error is whether there is one.  The status callbacks,
which run outside the mutex, are left out.

### DiscordClient

What `Updater` takes as one step, with its lock released in the middle: a frame is
on a pipe (`sending`) while Discord breaks the pipe, the supervisor leaves and dials
again, and its failure then takes down whatever connection the client has.  The
supervisor walks through `at`; `IsConnected` compares the application ID of the
connection with the setting.  The writer sends when it has something to send: a new
card at any time, a clear, and, while a card is up (`defended`), the resend of the
heartbeat.  Only a send finds out that Discord has broken the pipe, so with
presence cleared, paused or hidden a pipe that breaks between two looks at the
processes is kept until the next send.  `ConnectsForGood` is therefore about a card
that is up.

### Presence

`Tokens` is the tokens of a state, `render` fills a template and `cleanup` drops
what an empty token leaves.  A text is a sequence of parts, each a literal, a
separator or the name of a token with the value it is formatted from, which is
all that hiding and cleaning can tell apart.  `GetDisplayPreview` is the preview of
`internal/app`, over the sample data of each context.

### Discovery and Decode

`Discovery` walks through `discovery.find`: the lockfile is read and probed, then
the process table, in rounds with a wait between them, while clients write their
lockfile in two pieces, start to answer, hang, exit and crash.  Credentials are the
client they belong to, so another program that has taken a dead client's port is
not in the model, and of `checkHealth`, which accepts any answer but a rejection,
two things are left: a client that does not answer fails, and one that does passes,
except that over `http`, the protocol of a lockfile cut short, it may do either.
`steady` is a history variable: the clients that the lockfile, or the process
table, has led to ever since the call began.

`Decode` reads a payload of entries.  An entry carries a blob whose fields may be
flat, in containers, or both; there is one field of each kind (`KindOf`), and
`Accepts` says which JSON types a kind takes.  The fields of the entry itself are
unmarshaled with the whole list, so one of another type (`typed` is false) fails the
payload.  `applyPresence` puts the result into the state.

### Settings and SettingsPage

`Settings` is the daemon's side.  `Store.Apply` walks through `doing`: the lock, the
truncation, the writing, the swap, the drain and the push of the watcher's channel;
a write may fail at either point, and a crash may come at any.  A configuration is
whether the program starts with Windows and which other fields are out of bounds.
`missed` remembers that the registry entry is known to lag: the registry refused,
or the setting had changed before the watcher came up.

`SettingsPage` is the page's: clicks are set at once and saved one after the other
through the queue, each save is announced by an event, and a failed save makes the
page fetch the settings.  Calls and events are two channels that overtake each
other.  `trouble` remembers a click that was lost and an answer that never came.

### StatusView, Content, LogTail

`StatusView`: a snapshot reads its sources one after the other (`snap`), both in the
bridge and in the page's `GetStatus`; the bridge emits one that differs from its
last; the page takes the answer of its call only if no event came before.

`Content`: a refresh fetches five bodies and swaps in what they parse to.  `parseCatalogue`
fills tables, in which a later entry replaces an earlier one; `currentTiers` is the
tiers of the newest episode.  A render takes one snapshot and looks up one thing
after the other.

`LogTail`: a write stores its line under the lock and sends it on without; the
viewer asks for the recent lines and listens for new ones at the same time.  A line
has a number, by which the properties tell it from others, and a text, which is all
that the program has: two lines may say the same, and `dropHistoryOverlap` compares
texts.  `mishap` remembers what the viewer cannot make up for: a line dropped by a
full channel or a full page, one overtaken by another writer's, an answer that came
before the event of one of its lines, lines heard that have left the ring since, and
a line newer than the answer that says what the last line of the answer says
(`alike`).  Lines that repeat in any other way do no harm.

## 3. The runs

| Run | Question | Result |
|---|---|---|
| `updater` | bookkeeping, cadence, no ignored resend, defence for ever, refinement; nothing hidden in a card, clean lines, true previews; a connection made for good, no open pipe lost but to a late failure | holds |
| `updater_debounce` | "only the last call will execute" | violated |
| `presence_loop` | bounded queue, nothing armed while cleared, one single way back | holds |
| `presence_loop_live` | the loop ends in the right mode | holds |
| `paused_card` | pause "clears presence for as long as it is set" | violated |
| `missed_reconnect` | "the reconnect handler above resends once it is" | violated |
| `agent_carry_over` | "the next match has to resolve its own" | violated |
| `riot_link` | one subscription, truthful flag, published presence shown; no call misses the client, found in the end; payloads read alike in any shape and company | holds |
| `stale_snapshot` | an overtaken snapshot is not emitted | violated |
| `supervisors` | nothing left open, two Connections, gone with the process, never giving up, quitting never held up | holds |
| `app_update` | flags and status agree, staged stays staged, staged in the end; settings over restarts, in the registry and on the page; a status page that catches up and stays with the last event, cards of one refresh, log lines without a gap up to the newest | holds |
| `downloading_flag` | "Downloading is true while the background auto-download is in flight" | violated |

Every violated property is one a comment of the code states; `findings` quotes
it.  `updater` runs `MCWriter`, `riot_link` runs `MCRiotLink` and `app_update` runs
`MCDesktop`.  What the traces show:

* `updater_debounce`: `DelayUpdate(A)` is performed, `DelayUpdate(B)` arms the
  timer, `DelayUpdate(A)` returns early because A equals `previousState` and
  leaves the timer armed.  B is shown although A was asked for last.
* `paused_card`: the timer fires, the loop acts on the pause and clears, then
  the timer goroutine gets the mutex and sends.  The mode is already cleared, so
  nothing clears again, and the heartbeat defends the card during the pause.
  `OnlyALateTimerUndoesAClear` shows that this is the only way.
* `missed_reconnect`: the edge is taken with the flag up, the flag falls before
  the second read, the mode becomes connected without a send, and the flag is up
  again at the next tick: no edge, no card, until the state changes.
* `agent_carry_over`: pause in one match, unpause in the next.  The pause returns
  before `agentResolved` is reset and queued states are consumed unread.
* `stale_snapshot`: `sawEvent` is read, an event is handled, the snapshot is
  applied over it.
* `downloading_flag`: a check has been told that there is no release, another one
  finds one and starts the download, the first records its answer and clears the
  flags.  `app_update` shows what is left intact: flags and status still agree, a
  staged update survives, and the next check repairs the rest.

### Bounds

* `updater`, the writer: two states, two configurations, three cards of which two share
  their Details line, a burst of two ticks and one waiting goroutine per state.
  A second goroutine of one state does what the first does; two states with one
  each give every order of two late timers.  The cards: every combination of
  phase, party, screen, flow, queue and toggles, over default and hostile templates
  and three catalogues; values that are only copied have one value each.  The
  client: three pipes, one to send on, one closed meanwhile and one dialed since;
  they are numbered anew as they are given up, so connections have no bound.
* `presence_loop`: one agent, two screens, one entered context beyond the
  start, a change channel of capacity one.  The bound on entries limits how often
  the context changes, not the steps in one context; capacity one makes the
  channel full as soon as one value waits, and the loop has no other use for its
  capacity.
* `presence_loop_live`: one screen and no waiting timer goroutine, because
  neither enters the decision on the mode, and liveness needs the smaller state
  space.
* `missed_reconnect`, `paused_card`, `agent_carry_over`: just enough to reach
  the trace.  `agent_carry_over` keeps Discord closed, which does not enter the
  question, and lets three contexts be entered: match, menus, match.
* `riot_link`: three connections and three presences.  Three connections are
  needed for a handler registered on the first and replayed on the third;
  `DialsWithoutReplay` and `neverWaits` fail with two.  The run leaves out the
  window that `stale_snapshot` shows open (`Undisturbed`), and nothing else.
  Discovery: two clients, the old one and the new, and two rounds; a third client
  would do to the second what that does to the first.  Payloads of two entries:
  one ours and one beside it, on either side, which may be mistyped.

* `supervisors`: finite as it is, nothing is bounded.
* `app_update`: one GUI caller beside `Run`, two automatic downloads, one
  release, and a failure count that stops at two, beyond which it decides
  nothing.  Two automatic downloads overlap with each other and with a retry,
  which is all the overlap the tests of the flags can tell apart; a check that
  would start a third one waits.
* `app_update`, the rest: two goroutines that apply settings; two fields and three
  clicks, one to be saved, one to be set meanwhile and one built on that; one
  polled source and two phases, with two events on their way; two writers and
  two texts, a channel of one, a ring and a viewer of two and three lines in all, so
  that channel, ring and viewer each overflow, and lines repeat within an answer and
  on both sides of it.  The log and the page end when their bound is reached
  (`Bounded`), and deadlock is checked for everything else.

### Fairness

* `Updater!Spec`: weak fairness of the heartbeat, because `Updater.Run` does
  nothing but receive from its ticker.
* `PresenceLoop!LoopSpec`: strong fairness of the tick.  Go's select chooses at
  random among the ready cases, so a case that is ready again and again is taken
  with probability one; weak fairness would not do, since the case is not ready
  while a handler runs.  A handler runs to its end (weak).
* `PresenceLoop!FairSpec` adds the same for the other cases, and weak fairness
  for what the rest of the program always does in the end: timers fire and get
  the mutex, the supervisor retries for ever (docs/adr/0002), acts on a lost
  connection and makes its callbacks.  Nothing is assumed of Discord, the game or
  the user; the liveness properties have "from some time on" as their condition.

* `Supervisors!Spec`: weak fairness of each supervisor's goroutine and of the
  pollers, which do nothing but receive from a ticker; strong fairness of taking
  a context that has ended, for the reason given above.  `GoneWithItsProcess` and
  `NeverGivesUp` assume that listing processes and connecting to a process that
  runs do not fail for ever; `StopsWhenAsked` needs neither, and no connect
  has to return for it.
* `AppUpdate!Spec`: `Run` checks for ever, goroutines run to their end, and the
  provider neither fails every check nor every download for ever.  No fairness is
  given to the user's clicks.
* `DiscordClient!ClientFairness`: the supervisor goes on, a send comes back, and
  the heartbeat resends for as long as a card is up.  Nobody has to send anything
  else.  Dialing fails only while Discord does not run or breaks the pipe.
* `Discovery!FindFairness`: the search goes on, the supervisor asks for it again and
  again, and a client that starts writes its lockfile to the end.
* `StatusView!StatusFairness`: the bridge's loop takes its ticker and its channel
  again and again (strong, as for the other select), and events arrive.

## 4. The proofs

`UpdaterProofs`, for every set of states, settings and cards, every rendering and
every burst length (`ConstantsAssumption` is all that is assumed):

* `TypeCorrect`, `CadenceCorrect` and `DefendsWhatItSentHolds`: the invariants of
  the run, from the inductive invariant that is their conjunction with the link
  between the wire and the last Details bytes.  `TypeOK` alone is not enough for
  the cadence, and the one-card invariant needs to know that nothing is on a wire
  that is down, and that what is on the wire has the Details bytes the Updater
  remembers; the latter is also what `ResendsDiffer` rests on.
* `ResendsDiffer`: a resend differs from what the wire carries.
* `ImplementsRichPresence`: initial states map to initial states, and each action
  maps to a step of the abstract card or a stutter.

`LoopProofs`, for every queue capacity and every set of agents, screens, variants
and settings:

* `LoopUsesUpdater`: each step of the daemon is a step of the Updater or leaves it
  alone.  Hence `LoopDefendsWhatItSent`: what holds of the Updater's behaviours
  holds in the daemon, with no new induction.
* `LoopTypeCorrect`, `NothingArmed`, `OnlyALateTimer`.  The second needs its
  conjunction with the types: outside the connected mode the timer is unarmed,
  because only `OnUpdate` arms it, and that only when connected, and every way out
  of the connected mode clears.

`SupervisorsProofs` assumes nothing; the module has no constants:

* `SupervisorTypes`, `NothingIsLeftOpen` and `EachIsAConnection`, from the types
  and three facts per supervisor: where its attempt may stand (`AttemptInPlace`),
  that the flag is up exactly from the callback after the dial to the one after
  the close (`FlagInPlace`), and that a link is there only in these stations or
  with an attempt that has succeeded (`LinkInPlace`).  `NothingIsLeftOpen` says the
  same of open links, and that no supervisor returns with its flag raised; what an
  abandoned attempt opens stays open.  `LinkInPlace` is also why
  `Connect` never runs over an open connection, also after an abandoned attempt.

`RiotLinkProofs`, for any number of sockets and presences (`LinkAssumption`: both
bounds are natural numbers):

* `LinkTypes`, `FlagIsTrue` and `EachIsSubscribed`, from one invariant.  The flag
  needs that the listeners run in order: at most the last socket has one that is
  not done (`ListenersInOrder`), which `waitClosed` preserves and without which a
  deferred reset could land on a later connection.  The subscription needs that
  the registry, the watcher's flag and the socket in use tell of the same one
  (`OneSubscription`); that is also what keeps TypeOK's "no socket is subscribed
  twice" from being a matter of range alone.

For the behaviours `Undisturbed`, in addition:

* `QuietIsNewest`.  The property speaks of the moment when nothing is under way, so
  the invariant says what is true before it: the last event in the queue or in
  hand is the presence published last (`NewestLast`); none comes without a
  subscription (`NoneUnsubscribed`), so that the time of the last presence is not
  set before one is made; a snapshot that no event has overtaken is no older than
  what the listener has in hand, and is the newest when it has nothing
  (`SnapshotNewest`); and so is what is shown (`ShownNewest`).  The one place where
  `Undisturbed` is used is the step `Sees`, between `hear` and `apply`.

and of what comes before and after the link:

* `NoCallMisses`, for any number of clients and rounds (`DiscoveryAssumption`).  Its
  invariant says what a call has come to while a client is there for it: with the
  whole lockfile there, the call is at the lockfile, checks it with that client's
  credentials or has ended with them, and has never gone on to the process table
  (`LockfileLeads`); with the client alone in the process table, the call has not
  slept or given up, and what it checks or has found there is that client
  (`ProcessLeads`).  The second allows for a stale or cut lockfile that is checked
  first and fails, or one cut short that passes.
* `LastPresenceShows`, `BadEntriesAreSkipped` and `ShapeDoesNotMatter`, for payloads
  of any length and any entries (`DecodeAssumption`: an entry has the fields
  `Decode` reads).  The first is inductive with what was decoded and shown last.
  The other two rest on `said` being what the payload heard decodes to; what is
  left is about one payload, and for `BadEntriesAreSkipped` about one whose entries
  are well typed, since the property takes a well typed entry out of a payload that
  reads without it: `Decode` takes the readable entry of ours at the least
  position, which is the same one after another has been taken out, and `read`
  takes the least scope that carries a field, which is the same one after the
  fields have moved.

`AppUpdateProofs`, for any number of callers, automatic downloads and releases
(`UpdateAssumption`: a release is not None):

* `UpdateTypes` and `OneStoryIsTold`, from their conjunction: that the two copies
  of a flag change together is only true of a status with the right fields.
* `StagedIsKept`: of all steps, only recording that there is no release lowers
  `ready`; this needs no invariant.

`SettingsProofs`, for any number of goroutines and any hand edit
(`SettingsAssumption`: an edit breaks fields that are checked, and no goroutine is
called "nobody"):

* `SettingsSurvive`, from the types, that a call between the lock and its return
  has the lock and settings that validate (`LockInv`), and what the file holds while
  a call is between its truncation and its swap (`FileInv`).  Without the lock, two
  calls could write the file in one order and swap in the other.
* `EntryFollows` needs, on top of these, how the watcher's channel relates to the
  setting: once subscribed, either the newest setting is in the channel, or a call
  is on its way to put it there, or the watcher has it (`PushInv`, `ChannelInv`,
  `EntryInv`).
* `PageSettlesInTheEnd`, for any number of clicks and any settings
  (`PageAssumption`).  The property speaks of rest; the invariant says what is on its way
  before it: the queue runs one call at a time (`CallInv`), the last event under way
  is of the settings in force (`NewsInv`), with none the page has them already
  (`ShownInv`), and the last save that waits, runs or has been served carries every
  click that was not lost (`WantedInv`).

`DesktopProofs`, for a ring, a channel and a page of any size and any number of
writers (`LogAssumption`: all three are positive, and the page holds a ring full):

* `TailStaysWhole`.  Its invariant speaks of runs, sequences of consecutive lines:
  there is a line `upto` such that the lines after it are the run in `emitted`, then
  the run in the channel, then those the writers hold (`OnTheirWay`), and the lines up
  to it are on the page or will be once the answer is joined (`Waits`, `Showing`).
  `dropHistoryOverlap` compares text; that it cuts off what both have, and no more, is
  `OverlapDrops`, which needs that both are runs and that no line after the last of
  the answer says what that one says: a longer overlap would end with such a line.
  The property excepts what breaks this (`alike`), and the findings have it.
* `CardStaysOfOneRefresh`, for lists of any length (`ContentAssumption`: every
  answer is a list, and the one of the tiers a list of lists): the cache and the
  snapshot are each what one refresh's five bodies parse to, and the card, as far as
  it is drawn, is looked up in that snapshot (`ContentInv`).  That a table filled
  from the front shows the last entry of a key is `FilledHas`.
* `PageStaysAtLastEmitted`, for any flags and contexts: `StatusInv` adds to the
  property that before the page is opened nothing is on its way to it and it has heard
  nothing.  So `last` may run ahead of the page only while it is closed, and what is
  emitted afterwards is heard in that order.

`WriterProofs`, for any states, settings, templates and catalogues
(`PresenceAssumption`: they have the fields of `State`, `DisplayConfig` and
`Catalogue`):

* `HiddenStaysHidden`: a card is what its input renders to, so what is left is that
  `MapStateToPresence` takes the same path for a state and its censored copy.
* `PreviewShowsTheCard`: the sample state of a context has that context, and each
  art and token of the preview is that of a send.
* `CardReadsWell`: of the three passes of `cleanup`, the second leaves no two
  separators beside each other (`FoldedHasNoRun`, which is about neighbours in a
  subsequence), the third none at an end, and the first does not matter for either;
  a default line keeps the text it begins with.
* `PipesAreNotLost`, for any number of pipes (`ClientAssumption`: there is one) and
  of application ids: the supervisor has one pipe at a time, one it dials, one that is
  installed or one it closes (`ClientInv`), and an installed one is marked connected.
  So no step writes over a pipe it has not closed, and `Disconnect` never mistakes an
  installed pipe for none.  The exception, a send that fails late on an earlier pipe,
  is in the property and among the findings.

The prover has no induction over data.  Where one is needed, for what the
recursive functions `Kept` and `Filled` return and already for there being such a
function, the proofs take the least counterexample: the order of the natural
numbers is well-founded (`WFMin`), so a set of them has a least element
(`HasLeast`), and the step from its predecessor contradicts it.  This is why these
two are recursive functions over the positions of a sequence and not `SelectSeq` or
a fold, about which nothing could be proved.

Only model-checked: the liveness properties (`CardIsDefended`, `ClearedInTheEnd`,
`ConnectedInTheEnd`, `GoneWithItsProcess`, `NeverGivesUp`, `StopsWhenAsked`,
`StagedInTheEnd`, `ConnectsForGood`, `ClientIsFound`, `StatusCatchesUp`), which are
beyond the prover.  Every other property of a passing run is a theorem.  Only proved,
and in no run, are the types of the modules whose types say no more than ranges
(`SupervisorTypes`, `UpdateTypes`, and the types within the invariants of
`SettingsProofs`, `DesktopProofs` and `WriterProofs`).

### What reading showed besides

`PROJECT.json` lists under `findings`, without a run, where a comment says more than
the code does and the models except it by name or contain it: a presence that
arrives between the dial and the stall clock does not stop the clock; a failure on
an old pipe drops a newer connection; an event of an earlier save can lose a click;
a line whose event comes after the answer that holds it is shown twice, and one that
says what the last line of the answer says is not shown; an entry with a field of
another type takes the whole payload with it; a write that
breaks off leaves a file the next start gives up on; a status that only the page's
own call saw is never corrected; text and picture of a preview come from two
snapshots; the lobby's preview lacks the emblem; two pause toggles at once.

## 5. What is not modelled

* JSON, base64, HTTP and the pipe's frames: what they let through or refuse is a
  choice of the environment.
* The tray, windows, menus and notifications: calls into the GUI library, with the
  pause check mark as their only state.
* The order in which the frontend hears the status callbacks of updates, the
  changelog, the signature check and `Restart`.
* `Manager.Close`, a failing random source in `newNonce`, shutdown outside
  `Supervisors`, logging (but for the ring), the game log's text.
* Another program that answers on the port a dead client's lockfile names.
* Screens and layout of the frontend, the command line, release signing.

`PROJECT.json` gives the reason for every component that is not or partly modelled.

## 6. Plan

Modelled and checked: everything in the table of section 2.  What is left, in this
order:

1. `Updater`'s link as an abstraction of `DiscordClient`.
2. `AppUpdate`: the status callbacks and the order the frontend hears them in.
