---------------------------------- MODULE LogTail ----------------------------------
(***************************************************************************)
(* The log on its way to the Help screen: the ring of internal/logging,    *)
(* its channel, the goroutine publishLogLines, and the viewer              *)
(* (LogViewer.tsx, logTail.ts), which asks for the recent lines and        *)
(* listens for new ones at the same time and joins the two.                *)
(*                                                                         *)
(* A line is a number and has a text.  The program has the texts alone, and *)
(* two lines of one second may have the same; the properties tell lines    *)
(* apart by their numbers.  A write is the line stored under the lock, then *)
(* the line sent on without it.                                            *)
(***************************************************************************)
EXTENDS Integers, SequencesExt

CONSTANTS
  Writer,       \* goroutines that log
  Text,         \* what a line may say
  RingSize,     \* len(Ring.buf)
  Buffer,       \* capacity of a subscriber's channel
  MAX_TAIL_LINES,
  MaxLines      \* bound: lines logged

ASSUME LogAssumption ==
  {RingSize, Buffer, MAX_TAIL_LINES, MaxLines} \subseteq Nat \ {0} /\ RingSize <= MAX_TAIL_LINES

VARIABLES
  buf, nextSlot, full,  \* the ring
  logged,       \* lines stored so far
  text,         \* what each of them says
  writing,      \* the line each writer has stored and not yet sent on
  channel,      \* of publishLogLines
  emitted,      \* log:line on its way to the page
  reply,        \* the viewer's GetRecentLogs: where it stands, and its answer
  pending,      \* pendingRef
  shown,        \* lines
  mishap        \* what the viewer cannot make up for has happened

ringVars == <<buf, nextSlot, full, logged, text>>
viewerVars == <<reply, pending, shown>>
logVars == <<ringVars, writing, channel, emitted, viewerVars, mishap>>

NoLine == 0

LogInit ==
  /\ buf = [i \in 0..(RingSize - 1) |-> NoLine] /\ nextSlot = 0 /\ full = FALSE
  /\ logged = 0 /\ text = <<>> /\ writing = [w \in Writer |-> NoLine]
  /\ channel = <<>> /\ emitted = <<>>
  /\ reply = [step |-> "none", lines |-> <<>>]
  /\ pending = <<>> /\ shown = <<>> /\ mishap = {}

--------------------------------------------------------------------------------
(* Ring.                                                                   *)

\* As Stores, setting full one line too late.
StoresLate(w) ==
  /\ writing[w] = NoLine /\ logged < MaxLines
  /\ logged' = logged + 1
  /\ \E t \in Text : text' = Append(text, t)
  /\ buf' = [buf EXCEPT ![nextSlot] = logged']
  /\ nextSlot' = (nextSlot + 1) % RingSize
  /\ full' = (full \/ logged' > RingSize)
  /\ writing' = [writing EXCEPT ![w] = logged']
  /\ UNCHANGED <<channel, emitted, viewerVars, mishap>>

Stores(w) ==
  /\ writing[w] = NoLine /\ logged < MaxLines
  /\ logged' = logged + 1
  /\ \E t \in Text : text' = Append(text, t)
  /\ buf' = [buf EXCEPT ![nextSlot] = logged']
  /\ nextSlot' = (nextSlot + 1) % RingSize
  /\ full' = (full \/ nextSlot' = 0)
  /\ writing' = [writing EXCEPT ![w] = logged']
  /\ UNCHANGED <<channel, emitted, viewerVars, mishap>>

\* Two writers may send in the other order, and a full channel takes nothing.
SendsLine(w) ==
  /\ writing[w] # NoLine
  /\ LET dropped == Len(channel) = Buffer
         overtakes == \E v \in Writer : writing[v] \in 1..(writing[w] - 1)
     IN  /\ channel' = IF dropped THEN channel ELSE Append(channel, writing[w])
         /\ mishap' = mishap \cup {x \in {"dropped"} : dropped} \cup {x \in {"overtaken"} : overtakes}
  /\ writing' = [writing EXCEPT ![w] = NoLine]
  /\ UNCHANGED <<ringVars, emitted, viewerVars>>

Slots(from, to) == [i \in 1..(to - from) |-> buf[from + i - 1]]

RecentLines ==
  IF full THEN Slots(nextSlot, RingSize) \o Slots(0, nextSlot) ELSE Slots(0, nextSlot)

\* Emitting without a viewer reaches nobody.
publishLogLines ==
  /\ channel # <<>>
  /\ emitted' = IF reply.step = "none" THEN emitted ELSE Append(emitted, Head(channel))
  /\ channel' = Tail(channel)
  /\ UNCHANGED <<ringVars, writing, viewerVars, mishap>>

--------------------------------------------------------------------------------
(* LogViewer.                                                              *)

\* The call goes out, and the viewer listens.
Mounts ==
  /\ reply.step = "none"
  /\ reply' = [reply EXCEPT !.step = "asked"]
  /\ UNCHANGED <<ringVars, writing, channel, emitted, pending, shown, mishap>>

GetRecentLogs ==
  /\ reply.step = "asked"
  /\ \/ reply' = [step |-> "answered", lines |-> RecentLines] /\ UNCHANGED mishap
     \/ reply' = [step |-> "failed", lines |-> <<>>] /\ mishap' = mishap \cup {"failed"}
  /\ UNCHANGED <<ringVars, writing, channel, emitted, pending, shown>>

Ending(s, k) == SubSeq(s, Len(s) - k + 1, Len(s))
Capped(s) == IF Len(s) > MAX_TAIL_LINES THEN Ending(s, MAX_TAIL_LINES) ELSE s

Texts(s) == [i \in DOMAIN s |-> text[s[i]]]

\* Lines count as the same when they say the same.
Overlaps(history, lines) ==
  {k \in 0..Len(lines) : k <= Len(history)
                          /\ Texts(Ending(history, k)) = Texts(SubSeq(lines, 1, k))}

dropHistoryOverlap(history, lines) ==
  LET longest == CHOOSE k \in Overlaps(history, lines) : \A j \in Overlaps(history, lines) : j <= k
  IN  SubSeq(lines, longest + 1, Len(lines))

\* Lines that were stored and whose event is still to come.
Underway == ToSet(channel) \cup ToSet(emitted) \cup {writing[w] : w \in Writer}

\* A line that came after the answer says what the last line of the answer says.
Alike(history, lines) ==
  history # <<>> /\ \E i \in DOMAIN lines :
    lines[i] > Last(history) /\ text[lines[i]] = text[Last(history)]

\* A failed call shows what has come since.  The join fails for a line in the
\* answer that the viewer has yet to hear, for lines it has heard that have left
\* the ring, and for a new line it takes for the last of the answer.
Joins ==
  /\ reply.step \in {"answered", "failed"}
  /\ reply' = [step |-> "in", lines |-> <<>>]
  /\ pending' = dropHistoryOverlap(reply.lines, pending)
  /\ shown' = reply.lines
  /\ mishap' = mishap \cup {x \in {"late"} : ToSet(reply.lines) \cap Underway # {}}
                      \cup {x \in {"wrapped"} : reply.lines # <<>> /\ pending # <<>>
                                                 /\ Head(pending) < Head(reply.lines)}
                      \cup {x \in {"alike"} : Alike(reply.lines, pending)}
  /\ UNCHANGED <<ringVars, writing, channel, emitted>>

Buffers ==
  /\ emitted # <<>>
  /\ LET crowded == Len(pending) >= MAX_TAIL_LINES
     IN  /\ pending' = Append(IF crowded THEN Tail(pending) ELSE pending, Head(emitted))
         /\ mishap' = mishap \cup {x \in {"dropped"} : crowded}
  /\ emitted' = Tail(emitted)
  /\ UNCHANGED <<ringVars, writing, channel, reply, shown>>

Flushes ==
  /\ reply.step = "in" /\ pending # <<>>
  /\ shown' = Capped(shown \o pending)
  /\ pending' = <<>>
  /\ UNCHANGED <<ringVars, writing, channel, emitted, reply, mishap>>

LogNext ==
  \/ \E w \in Writer : Stores(w) \/ SendsLine(w)
  \/ publishLogLines \/ Mounts \/ GetRecentLogs \/ Joins \/ Buffers \/ Flushes

LogSpec == LogInit /\ [][LogNext]_logVars

--------------------------------------------------------------------------------
(* Properties.                                                             *)

Quiet == channel = <<>> /\ emitted = <<>> /\ pending = <<>> /\ \A w \in Writer : writing[w] = NoLine

\* "Lines keep buffering while this is in flight and the flush below holds them
\* back, so nothing written mid-fetch is lost or shown twice": the viewer shows
\* consecutive lines, and once all is quiet it shows the newest, as many as the
\* ring holds, however lines, events and the answer meet and whichever lines say
\* the same, unless a line was dropped at a limit or overtaken by another, the
\* answer came before the event of one of its lines, or a new line says what the
\* last of the answer does.  Without an answer it shows what came since.
TailIsWhole ==
  LET tail == shown \o pending
  IN  /\ reply.step = "in" /\ mishap \subseteq {"failed"} =>
           \A i \in 1..(Len(tail) - 1) : tail[i + 1] = tail[i] + 1
      /\ reply.step = "in" /\ mishap = {} /\ Quiet /\ logged > 0 =>
           tail # <<>> /\ Last(tail) = logged
           /\ (Len(tail) >= logged \/ Len(tail) >= RingSize)
================================================================================
