---------------------------- MODULE DesktopProofs ----------------------------
(***************************************************************************)
(* That the viewer shows the log without a gap and without a line twice,   *)
(* for a ring, a channel and a tail of any size and any number of writers; *)
(* that a card is drawn of one refresh of the catalogue, for lists of any  *)
(* length; and that the page shows the status that was emitted last.       *)
(***************************************************************************)
EXTENDS LogTail, Content, StatusView, SequenceTheorems, WellFoundedInduction, TLAPS

(* A set of numbers that is not empty has a least, and when bounded a greatest. *)

Less == {p \in Nat \X Nat : p[1] < p[2]}

LEMMA LessIsWellFounded == IsWellFoundedOn(Less, Nat)
  BY NatLessThanWellFounded DEF OpToRel, Less

LEMMA HasLeast == ASSUME NEW T, T \subseteq Nat, T # {} PROVE \E m \in T : \A k \in T : m <= k
<1>1. PICK m \in T : \A k \in T : <<k, m>> \notin Less
  BY LessIsWellFounded, WFMin
<1>2. ASSUME NEW k \in T PROVE m <= k
  <2>1. m \in Nat /\ k \in Nat
    OBVIOUS
  <2>2. ~(k < m)
    <3>1. <<k, m>> \in Nat \X Nat /\ <<k, m>>[1] = k /\ <<k, m>>[2] = m
      BY <2>1
    <3> QED
      BY <1>1, <3>1 DEF Less
  <2> QED
    BY <2>1, <2>2
<1> QED
  BY <1>2

LEMMA HasGreatest ==
  ASSUME NEW n \in Nat, NEW T, T \subseteq 0..n, T # {}
  PROVE  \E m \in T : \A k \in T : k <= m
<1> DEFINE U == {n - k : k \in T}
<1>1. U \subseteq Nat /\ U # {}
  <2>1. \A k \in T : k \in 0..n /\ n - k \in Nat /\ n - k \in U
    OBVIOUS
  <2>2. PICK k \in T : TRUE
    OBVIOUS
  <2> QED
    BY <2>1, <2>2
<1>2. PICK u \in U : \A k \in U : u <= k
  BY <1>1, HasLeast
<1>3. PICK m \in T : u = n - m
  OBVIOUS
<1>4. ASSUME NEW k \in T PROVE k <= m
  <2>1. n - k \in U /\ k \in 0..n /\ m \in 0..n
    OBVIOUS
  <2>2. n - m <= n - k
    BY <1>2, <1>3, <2>1
  <2> HIDE DEF U
  <2> QED
    BY <2>1, <2>2
<1> QED
  BY <1>4

--------------------------------------------------------------------------------
(* The log.                                                                *)

Line == Nat \ {0}

LogTypes ==
  /\ logged \in Nat
  /\ buf \in [0..(RingSize - 1) -> Nat] /\ nextSlot \in 0..(RingSize - 1) /\ full \in BOOLEAN
  /\ writing \in [Writer -> 0..logged]
  /\ channel \in Seq(Line) /\ emitted \in Seq(Line)
  /\ reply \in [step : {"none", "asked", "answered", "failed", "in"}, lines : Seq(Line)]
  /\ pending \in Seq(Line) /\ shown \in Seq(Line)
  /\ mishap \subseteq {"dropped", "overtaken", "failed", "late", "wrapped", "alike"}

\* The ring holds the lines stored last: from nextSlot on those of the turn
\* before, once there was one.
RingInv ==
  /\ ~full => logged = nextSlot
  /\ full => logged >= RingSize
  /\ \A i \in 0..(RingSize - 1) :
       /\ i < nextSlot => buf[i] = logged - nextSlot + i + 1
       /\ full /\ i >= nextSlot => buf[i] = logged - nextSlot - RingSize + i + 1

\* The lines that follow line n.
Run(s, n) == \A i \in 1..Len(s) : s[i] = n + i

\* The lines after line upto are on their way, in the order they were stored.
OnTheirWay(upto) ==
  /\ Run(emitted, upto)
  /\ Run(channel, upto + Len(emitted))
  /\ \A w \in Writer : writing[w] # NoLine => writing[w] > upto + Len(emitted) + Len(channel)
  /\ \A l \in (upto + Len(emitted) + Len(channel) + 1)..logged : \E w \in Writer : writing[w] = l
  /\ upto + Len(emitted) + Len(channel) <= logged

\* What the viewer has of the lines up to line upto, before the answer is joined.
Waits(upto) ==
  /\ reply.step \in {"asked", "answered", "failed"} =>
       /\ shown = <<>>
       /\ Len(pending) <= upto /\ Run(pending, upto - Len(pending))
  /\ reply.step = "answered" =>
       \E newest \in (upto - Len(pending))..logged :
         /\ Len(reply.lines) = (IF newest < RingSize THEN newest ELSE RingSize)
         /\ Run(reply.lines, newest - Len(reply.lines))

\* And after.
Showing(upto) ==
  reply.step = "in" /\ mishap \subseteq {"failed"} =>
    /\ Len(shown) + Len(pending) <= upto
    /\ Run(shown \o pending, upto - (Len(shown) + Len(pending)))
    /\ mishap = {} => Len(shown) + Len(pending) >= (IF upto < RingSize THEN upto ELSE RingSize)

ViewerInv ==
  /\ reply.step = "none" => emitted = <<>> /\ pending = <<>> /\ shown = <<>>
  /\ reply.step = "failed" => reply.lines = <<>> /\ "failed" \in mishap

InOrder ==
  mishap \cap {"dropped", "overtaken"} = {} =>
    \E upto \in 0..logged : OnTheirWay(upto) /\ Waits(upto) /\ Showing(upto)

\* No line is two writers'.
Distinct == \A v, w \in Writer : writing[v] # NoLine /\ writing[v] = writing[w] => v = w

LInv == LogTypes /\ RingInv /\ Distinct /\ ViewerInv /\ InOrder

--------------------------------------------------------------------------------
(* Runs of consecutive lines.                                              *)

LEMMA RunOfNone == ASSUME NEW n PROVE <<>> \in Seq(Line) /\ Len(<<>>) = 0 /\ Run(<<>>, n)
  BY EmptySeq DEF Run

LEMMA RunAppends ==
  ASSUME NEW s \in Seq(Line), NEW n \in Nat, NEW l \in Line, Run(s, n), l = n + Len(s) + 1
  PROVE  /\ Append(s, l) \in Seq(Line) /\ Len(Append(s, l)) = Len(s) + 1
         /\ Run(Append(s, l), n)
<1>1. /\ Append(s, l) \in Seq(Line) /\ Len(Append(s, l)) = Len(s) + 1
      /\ \A i \in 1..Len(s) : Append(s, l)[i] = s[i]
      /\ Append(s, l)[Len(s) + 1] = l
  BY AppendProperties
<1>2. Len(s) \in Nat
  BY LenProperties
<1> QED
  BY <1>1, <1>2 DEF Run

LEMMA RunHeadTail ==
  ASSUME NEW s \in Seq(Line), NEW n \in Nat, Run(s, n), s # <<>>
  PROVE  /\ Head(s) = n + 1 /\ Head(s) \in Line
         /\ Tail(s) \in Seq(Line) /\ Len(Tail(s)) = Len(s) - 1 /\ Len(s) \in Nat \ {0}
         /\ Run(Tail(s), n + 1)
<1>1. /\ Head(s) \in Line /\ Tail(s) \in Seq(Line) /\ Len(Tail(s)) = Len(s) - 1
      /\ \A i \in 1..Len(Tail(s)) : Tail(s)[i] = s[i + 1]
  BY HeadTailProperties
<1>2. Len(s) \in Nat \ {0} /\ Head(s) = s[1]
  BY EmptySeq
<1> DEFINE rest == Tail(s)
           m == Len(Tail(s))
<1>3. \A i \in 1..m : i + 1 \in 1..Len(s) /\ rest[i] = s[i + 1]
  <2>1. m = Len(s) - 1
    BY <1>1
  <2> HIDE DEF m
  <2>2. \A i \in 1..m : i + 1 \in 1..Len(s)
    BY <1>2, <2>1
  <2> QED
    BY <1>1, <2>2 DEF m
<1>4. \A i \in 1..m : rest[i] = n + (i + 1)
  BY <1>3 DEF Run
<1>5. Head(s) = n + 1
  BY <1>2 DEF Run
<1>6. Run(Tail(s), n + 1)
  <2>1. m \in Nat
    BY <1>1, LenProperties
  <2>2. \A i \in 1..m : rest[i] = n + 1 + i
    <3> HIDE DEF m, rest
    <3> QED
      BY <1>4, <2>1
  <2> QED
    BY <2>2 DEF Run
<1> QED
  BY <1>1, <1>2, <1>5, <1>6

\* Two runs, the second where the first ends, are one.
LEMMA RunsJoin ==
  ASSUME NEW s \in Seq(Line), NEW t \in Seq(Line), NEW n \in Int
  PROVE  /\ s \o t \in Seq(Line) /\ Len(s \o t) = Len(s) + Len(t)
         /\ Run(s \o t, n) <=> Run(s, n) /\ Run(t, n + Len(s))
<1>1. /\ s \o t \in Seq(Line) /\ Len(s \o t) = Len(s) + Len(t)
      /\ \A i \in 1..Len(s) + Len(t) : (s \o t)[i] = IF i <= Len(s) THEN s[i] ELSE t[i - Len(s)]
  BY ConcatProperties
<1>2. Len(s) \in Nat /\ Len(t) \in Nat
  BY LenProperties
<1> DEFINE u == s \o t
<1>3. ASSUME Run(u, n) PROVE Run(s, n) /\ Run(t, n + Len(s))
  <2>1. ASSUME NEW i \in 1..Len(s) PROVE s[i] = n + i
    <3>1. i \in 1..Len(s) + Len(t) /\ i <= Len(s)
      BY <1>2
    <3>2. u[i] = s[i]
      BY <1>1, <3>1
    <3> QED
      BY <1>1, <1>3, <3>1, <3>2 DEF Run
  <2>2. ASSUME NEW i \in 1..Len(t) PROVE t[i] = n + Len(s) + i
    <3>1. i + Len(s) \in 1..Len(s) + Len(t) /\ ~(i + Len(s) <= Len(s)) /\ (i + Len(s)) - Len(s) = i
      BY <1>2
    <3>2. u[i + Len(s)] = t[i]
      BY <1>1, <3>1
    <3>3. u[i + Len(s)] = n + (i + Len(s))
      BY <1>1, <1>3, <3>1 DEF Run
    <3> QED
      BY <1>2, <3>2, <3>3
  <2> QED
    BY <2>1, <2>2 DEF Run
<1>4. ASSUME Run(s, n), Run(t, n + Len(s)) PROVE Run(u, n)
  <2>1. ASSUME NEW i \in 1..Len(s) + Len(t) PROVE u[i] = n + i
    <3>1. CASE i <= Len(s)
      BY <1>1, <1>2, <1>4, <3>1 DEF Run
    <3>2. CASE i > Len(s)
      <4>1. i - Len(s) \in 1..Len(t) /\ u[i] = t[i - Len(s)]
        BY <1>1, <1>2, <3>2
      <4>2. t[i - Len(s)] = n + Len(s) + (i - Len(s))
        BY <1>4, <4>1 DEF Run
      <4> QED
        BY <1>2, <4>1, <4>2
    <3> QED
      BY <1>2, <3>1, <3>2
  <2> QED
    BY <1>1, <2>1 DEF Run
<1> QED
  BY <1>1, <1>3, <1>4

\* So is any part of a run.
LEMMA RunOfPart ==
  ASSUME NEW s \in Seq(Line), NEW n \in Int, Run(s, n),
         NEW from \in 1..(Len(s) + 1), NEW to \in (from - 1)..Len(s)
  PROVE  /\ SubSeq(s, from, to) \in Seq(Line) /\ Len(SubSeq(s, from, to)) = to - from + 1
         /\ Run(SubSeq(s, from, to), n + from - 1)
<1>1. Len(s) \in Nat
  BY LenProperties
<1>2. /\ SubSeq(s, from, to) \in Seq(Line)
      /\ Len(SubSeq(s, from, to)) = IF from <= to THEN to - from + 1 ELSE 0
      /\ \A i \in 1..(to - from + 1) : SubSeq(s, from, to)[i] = s[from + i - 1]
  BY <1>1, SubSeqProperties
<1>3. Len(SubSeq(s, from, to)) = to - from + 1
  BY <1>1, <1>2
<1>4. ASSUME NEW i \in 1..(to - from + 1) PROVE SubSeq(s, from, to)[i] = n + from - 1 + i
  <2>1. from + i - 1 \in 1..Len(s)
    BY <1>1
  <2>2. s[from + i - 1] = n + (from + i - 1)
    BY <2>1 DEF Run
  <2> QED
    BY <1>2, <2>2
<1> QED
  BY <1>2, <1>3, <1>4 DEF Run


LEMMA RunsAgree ==
  ASSUME NEW s \in Seq(Line), NEW t \in Seq(Line), Len(s) = Len(t), NEW n \in Int, Run(s, n), Run(t, n)
  PROVE  s = t
<1>1. \A i \in 1..Len(s) : s[i] = t[i]
  BY DEF Run
<1> QED
  BY <1>1, SeqEqual

\* The last lines of a run.
LEMMA RunOfEnding ==
  ASSUME NEW s \in Seq(Line), NEW final \in Int, Run(s, final - Len(s)), NEW k \in 0..Len(s)
  PROVE  /\ Ending(s, k) \in Seq(Line) /\ Len(Ending(s, k)) = k
         /\ Run(Ending(s, k), final - k)
<1>1. Len(s) \in Nat
  BY LenProperties
<1> DEFINE from == Len(s) - k + 1
<1>2. from \in 1..(Len(s) + 1) /\ Len(s) \in (from - 1)..Len(s) /\ final - Len(s) \in Int
  BY <1>1
<1>3. /\ SubSeq(s, from, Len(s)) \in Seq(Line) /\ Len(SubSeq(s, from, Len(s))) = Len(s) - from + 1
      /\ Run(SubSeq(s, from, Len(s)), (final - Len(s)) + from - 1)
  BY <1>2, RunOfPart
<1>4. Len(s) - from + 1 = k /\ (final - Len(s)) + from - 1 = final - k
  BY <1>1
<1> QED
  BY <1>3, <1>4 DEF Ending

LEMMA RunCapped ==
  ASSUME NEW s \in Seq(Line), NEW final \in Int, Run(s, final - Len(s))
  PROVE  /\ Capped(s) \in Seq(Line) /\ Run(Capped(s), final - Len(Capped(s)))
         /\ Len(Capped(s)) = IF Len(s) > MAX_TAIL_LINES THEN MAX_TAIL_LINES ELSE Len(s)
<1>1. Len(s) \in Nat /\ MAX_TAIL_LINES \in Nat
  BY LenProperties, LogAssumption
<1>2. CASE Len(s) > MAX_TAIL_LINES
  <2>1. MAX_TAIL_LINES \in 0..Len(s)
    BY <1>1, <1>2
  <2> QED
    BY <1>2, <2>1, RunOfEnding DEF Capped
<1>3. CASE ~(Len(s) > MAX_TAIL_LINES)
  BY <1>1, <1>3 DEF Capped
<1> QED
  BY <1>2, <1>3

\* Joining an answer that ends with line newest to the lines heard since first:
\* what both have is cut off once, if no line after newest says what it says.
LEMMA OverlapDrops ==
  ASSUME NEW history \in Seq(Line), NEW lines \in Seq(Line), NEW newest \in Nat, NEW first \in Nat,
         Run(history, newest - Len(history)), Run(lines, first),
         newest - Len(history) <= first, first <= newest, newest <= first + Len(lines),
         history # <<>> => \A i \in 1..Len(lines) : lines[i] > newest => text[lines[i]] # text[newest]
  PROVE  LET rest == dropHistoryOverlap(history, lines)
         IN  /\ rest \in Seq(Line) /\ Len(rest) = first + Len(lines) - newest
             /\ Run(rest, newest)
<1>1. Len(history) \in Nat /\ Len(lines) \in Nat
  BY LenProperties
<1> DEFINE overlaps == Overlaps(history, lines)
           longest == CHOOSE k \in overlaps : \A j \in overlaps : j <= k
           both == newest - first
<1>2. ASSUME NEW k \in 0..Len(lines), k <= Len(history)
      PROVE  /\ Ending(history, k) \in Seq(Line) /\ Len(Ending(history, k)) = k
             /\ Run(Ending(history, k), newest - k)
             /\ SubSeq(lines, 1, k) \in Seq(Line) /\ Len(SubSeq(lines, 1, k)) = k
             /\ Run(SubSeq(lines, 1, k), first)
  <2>1. k \in 0..Len(history) /\ 1 \in 1..(Len(lines) + 1) /\ k \in (1 - 1)..Len(lines)
    BY <1>1, <1>2
  <2>2. k - 1 + 1 = k /\ first + 1 - 1 = first
    BY <1>1
  <2>3. /\ SubSeq(lines, 1, k) \in Seq(Line) /\ Len(SubSeq(lines, 1, k)) = k - 1 + 1
        /\ Run(SubSeq(lines, 1, k), first + 1 - 1)
    BY <2>1, RunOfPart
  <2> QED
    BY <2>1, <2>2, <2>3, RunOfEnding
<1>3. both \in overlaps
  <2>1. both \in 0..Len(lines) /\ both <= Len(history) /\ newest - both = first
    BY <1>1
  <2>2. first \in Int
    OBVIOUS
  <2>3. Ending(history, both) = SubSeq(lines, 1, both)
    <3> HIDE DEF both
    <3>1. /\ Ending(history, both) \in Seq(Line) /\ Len(Ending(history, both)) = both
          /\ Run(Ending(history, both), first)
          /\ SubSeq(lines, 1, both) \in Seq(Line) /\ Len(SubSeq(lines, 1, both)) = both
          /\ Run(SubSeq(lines, 1, both), first)
      BY <1>2, <2>1
    <3> QED
      BY <2>2, <3>1, RunsAgree
  <2>4. Texts(Ending(history, both)) = Texts(SubSeq(lines, 1, both))
    BY <2>3
  <2> HIDE DEF both
  <2> QED
    BY <2>1, <2>4 DEF Overlaps
\* A longer one would take the line it ends with for newest.
<1>4. ASSUME NEW k \in overlaps PROVE k <= both
  <2>1. k \in 0..Len(lines) /\ k <= Len(history) /\ k \in Nat
    BY <1>1 DEF Overlaps
  <2>2. Texts(Ending(history, k)) = Texts(SubSeq(lines, 1, k))
    BY DEF Overlaps
  <2>3. ASSUME k > both PROVE FALSE
    <3>1. k \in 1..k /\ k \in 1..Len(lines) /\ history # <<>>
      BY <1>1, <2>1, <2>3, EmptySeq
    <3>2. DOMAIN Ending(history, k) = 1..k /\ DOMAIN SubSeq(lines, 1, k) = 1..k
      BY <1>2, <2>1, LenProperties
    <3>3. Ending(history, k)[k] = newest
      <4>1. Ending(history, k)[k] = newest - k + k
        BY <1>2, <2>1, <3>1 DEF Run
      <4> QED
        BY <2>1, <4>1
    <3>4. SubSeq(lines, 1, k)[k] = first + k /\ lines[k] = first + k
      BY <1>2, <2>1, <3>1 DEF Run
    <3>5. Texts(Ending(history, k))[k] = text[newest]
      BY <3>1, <3>2, <3>3 DEF Texts
    <3>6. Texts(SubSeq(lines, 1, k))[k] = text[lines[k]]
      BY <3>1, <3>2, <3>4 DEF Texts
    <3>7. lines[k] > newest
      BY <2>1, <2>3, <3>4
    <3> QED
      BY <2>2, <3>1, <3>5, <3>6, <3>7
  <2> QED
    BY <1>1, <2>1, <2>3
<1>5. longest = both
  <2>1. longest \in overlaps /\ \A j \in overlaps : j <= longest
    BY <1>3, <1>4
  <2>2. both \in Int /\ \A k \in overlaps : k \in Int
    BY <1>1 DEF Overlaps
  <2>3. longest <= both /\ both <= longest /\ longest \in Int
    <3> HIDE DEF longest, both, overlaps
    <3> QED
      BY <1>3, <1>4, <2>1, <2>2
  <2> HIDE DEF longest, both
  <2> QED
    BY <2>2, <2>3
<1>6. dropHistoryOverlap(history, lines) = SubSeq(lines, both + 1, Len(lines))
  BY <1>5 DEF dropHistoryOverlap
<1>7. /\ both + 1 \in 1..(Len(lines) + 1) /\ Len(lines) \in ((both + 1) - 1)..Len(lines)
      /\ Len(lines) - (both + 1) + 1 = first + Len(lines) - newest /\ first + (both + 1) - 1 = newest
  BY <1>1
<1> HIDE DEF both
<1>8. /\ SubSeq(lines, both + 1, Len(lines)) \in Seq(Line)
      /\ Len(SubSeq(lines, both + 1, Len(lines))) = Len(lines) - (both + 1) + 1
      /\ Run(SubSeq(lines, both + 1, Len(lines)), first + (both + 1) - 1)
  BY <1>7, RunOfPart
<1> QED
  BY <1>6, <1>7, <1>8

\* The join cuts lines off the beginning, whatever it is given.
LEMMA DropsFromFront ==
  ASSUME NEW history \in Seq(Line), NEW lines \in Seq(Line)
  PROVE  dropHistoryOverlap(history, lines) \in Seq(Line)
<1>1. Len(history) \in Nat /\ Len(lines) \in Nat
  BY LenProperties
<1> DEFINE overlaps == Overlaps(history, lines)
           longest == CHOOSE k \in overlaps : \A j \in overlaps : j <= k
<1>2. 0 \in overlaps
  <2>1. Ending(history, 0) = <<>>
    <3>1. Len(history) - 0 + 1 \in Int /\ Len(history) \in Int /\ Len(history) < Len(history) - 0 + 1
      BY <1>1
    <3> QED
      BY <3>1, SubSeqEmpty DEF Ending
  <2>2. SubSeq(lines, 1, 0) = <<>>
    <3>1. 1 \in Int /\ 0 \in Int /\ 0 < 1
      OBVIOUS
    <3> QED
      BY <3>1, SubSeqEmpty
  <2>3. 0 \in 0..Len(lines) /\ 0 <= Len(history)
    BY <1>1
  <2>4. Texts(Ending(history, 0)) = Texts(SubSeq(lines, 1, 0))
    BY <2>1, <2>2
  <2> QED
    BY <2>3, <2>4 DEF Overlaps
<1>3. \E k \in overlaps : \A j \in overlaps : j <= k
  <2>1. overlaps \subseteq 0..Len(lines) /\ overlaps # {}
    BY <1>2 DEF Overlaps
  <2> HIDE DEF overlaps
  <2> QED
    BY <1>1, <2>1, HasGreatest
<1>4. longest \in 0..Len(lines)
  <2>1. longest \in overlaps
    BY <1>3
  <2> HIDE DEF longest
  <2> QED
    BY <2>1 DEF Overlaps
<1> HIDE DEF longest
<1>5. \A i \in (longest + 1)..Len(lines) : lines[i] \in Line
  BY <1>1, <1>4, ElementOfSeq
<1>6. SubSeq(lines, longest + 1, Len(lines)) \in Seq(Line)
  BY <1>1, <1>4, <1>5, SubSeqProperties
<1> QED
  BY <1>6 DEF dropHistoryOverlap, longest

LEMMA LogInitHolds == LogInit => LInv
<1> SUFFICES ASSUME LogInit PROVE LInv
  OBVIOUS
<1>1. /\ {RingSize, Buffer, MAX_TAIL_LINES, MaxLines} \subseteq Nat \ {0}
      /\ <<>> \in Seq(Line) /\ Len(<<>>) = 0
  BY LogAssumption, EmptySeq
<1>2. LogTypes
  <2>1. RingSize \in Nat \ {0} /\ 0 \in 0..(RingSize - 1)
    BY <1>1
  <2>2. buf \in [0..(RingSize - 1) -> Nat] /\ nextSlot \in 0..(RingSize - 1) /\ full \in BOOLEAN
    BY <2>1 DEF LogInit, NoLine
  <2>3. writing \in [Writer -> 0..logged] /\ logged \in Nat
    BY DEF LogInit, NoLine
  <2>4. reply \in [step : {"none", "asked", "answered", "failed", "in"}, lines : Seq(Line)]
    BY <1>1 DEF LogInit
  <2> QED
    BY <1>1, <2>2, <2>3, <2>4 DEF LogInit, LogTypes
<1>3. RingInv /\ Distinct /\ ViewerInv
  BY <1>1 DEF LogInit, RingInv, Distinct, ViewerInv
<1>4. OnTheirWay(0) /\ Waits(0) /\ Showing(0)
  BY <1>1 DEF LogInit, OnTheirWay, Waits, Showing, Run
<1> QED
  BY <1>1, <1>2, <1>3, <1>4 DEF LInv, InOrder, LogInit

--------------------------------------------------------------------------------
(* The ring.                                                               *)

LEMMA NextSlot ==
  ASSUME NEW n \in Nat \ {0}, NEW i \in 0..(n - 1)
  PROVE  (i + 1) % n = IF i + 1 = n THEN 0 ELSE i + 1
  OBVIOUS

LEMMA SlotsAreRun ==
  ASSUME LogTypes, NEW from \in 0..RingSize, NEW to \in from..RingSize, NEW n \in Nat,
         \A i \in from..(to - 1) : buf[i] = n + (i - from) + 1
  PROVE  Slots(from, to) \in Seq(Line) /\ Len(Slots(from, to)) = to - from /\ Run(Slots(from, to), n)
<1>1. RingSize \in Nat
  BY LogAssumption
<1> DEFINE s == [i \in 1..(to - from) |-> buf[from + i - 1]]
<1>2. \A i \in 1..(to - from) : s[i] = n + i /\ s[i] \in Line
  <2> SUFFICES ASSUME NEW i \in 1..(to - from) PROVE s[i] = n + i /\ s[i] \in Line
    OBVIOUS
  <2>1. from + i - 1 \in from..(to - 1) /\ n + ((from + i - 1) - from) + 1 = n + i
    BY <1>1
  <2>2. buf[from + i - 1] = n + i
    BY <2>1
  <2> QED
    BY <2>2 DEF Line
<1>3. to - from \in Nat
  BY <1>1
<1>4. s \in Seq(Line) /\ Len(s) = to - from
  <2> DEFINE m == to - from
             f == [i \in 1..m |-> buf[from + i - 1]]
  <2>1. m \in Nat /\ \A i \in 1..m : f[i] \in Line
    BY <1>2, <1>3
  <2>2. f \in Seq(Line) /\ Len(f) = m
    <3> HIDE DEF m
    <3> QED
      BY <2>1
  <2> QED
    BY <2>2
<1> QED
  BY <1>2, <1>4 DEF Run, Slots

\* What the answer holds: the newest lines, as many as the ring has room for.
LEMMA RecentLinesAreRun ==
  ASSUME LogTypes, RingInv
  PROVE  /\ RecentLines \in Seq(Line)
         /\ Len(RecentLines) = IF logged < RingSize THEN logged ELSE RingSize
         /\ Run(RecentLines, logged - Len(RecentLines))
<1>1. /\ RingSize \in Nat \ {0} /\ nextSlot \in 0..(RingSize - 1) /\ logged \in Nat
      /\ nextSlot \in 0..RingSize /\ RingSize \in nextSlot..RingSize /\ nextSlot \in 0..RingSize
      /\ 0 \in 0..RingSize /\ nextSlot \in 0..RingSize
  BY LogAssumption DEF LogTypes
<1>2. CASE full
  <2> DEFINE older == Slots(nextSlot, RingSize)
             newer == Slots(0, nextSlot)
             n == logged - RingSize
  <2>1. n \in Nat /\ n + (RingSize - nextSlot) \in Nat
    BY <1>1, <1>2 DEF RingInv
  <2>2. \A i \in nextSlot..(RingSize - 1) : buf[i] = n + (i - nextSlot) + 1
    BY <1>1, <1>2 DEF RingInv
  <2>3. older \in Seq(Line) /\ Len(older) = RingSize - nextSlot /\ Run(older, n)
    <3> HIDE DEF n
    <3> QED
      BY <1>1, <2>1, <2>2, SlotsAreRun
  <2>4. \A i \in 0..(nextSlot - 1) : buf[i] = n + (RingSize - nextSlot) + (i - 0) + 1
    BY <1>1, <1>2 DEF RingInv
  <2>5. newer \in Seq(Line) /\ Len(newer) = nextSlot - 0 /\ Run(newer, n + (RingSize - nextSlot))
    <3> DEFINE k == n + (RingSize - nextSlot)
    <3>1. k \in Nat /\ \A i \in 0..(nextSlot - 1) : buf[i] = k + (i - 0) + 1
      BY <2>1, <2>4
    <3> HIDE DEF k
    <3>2. newer \in Seq(Line) /\ Len(newer) = nextSlot - 0 /\ Run(newer, k)
      BY <1>1, <3>1, SlotsAreRun
    <3> QED
      BY <3>2 DEF k
  <2> HIDE DEF older, newer
  <2>6. /\ older \o newer \in Seq(Line) /\ Len(older \o newer) = Len(older) + Len(newer)
        /\ Run(older \o newer, n)
    <3>1. n \in Int /\ Run(newer, n + Len(older))
      BY <2>1, <2>3, <2>5
    <3> HIDE DEF n
    <3> QED
      BY <2>3, <2>5, <3>1, RunsJoin
  <2>7. Len(older) + Len(newer) = RingSize /\ logged >= RingSize
    BY <1>1, <1>2, <2>3, <2>5 DEF RingInv
  <2>8. RecentLines = older \o newer
    BY <1>2 DEF RecentLines, older, newer
  <2> QED
    BY <1>1, <2>6, <2>7, <2>8
<1>3. CASE ~full
  <2> DEFINE s == Slots(0, nextSlot)
  <2>1. logged = nextSlot /\ \A i \in 0..(nextSlot - 1) : buf[i] = 0 + (i - 0) + 1
    BY <1>1, <1>3 DEF RingInv
  <2>2. s \in Seq(Line) /\ Len(s) = nextSlot - 0 /\ Run(s, 0)
    BY <1>1, <2>1, SlotsAreRun
  <2>3. RecentLines = s
    BY <1>3 DEF RecentLines
  <2> QED
    BY <1>1, <2>1, <2>2, <2>3
<1> QED
  BY <1>2, <1>3

LEMMA StoresKeeps == ASSUME LInv, NEW w \in Writer, Stores(w) PROVE LInv'
<1>1. /\ writing[w] = NoLine /\ logged \in Nat /\ logged' = logged + 1
      /\ buf' = [buf EXCEPT ![nextSlot] = logged'] /\ nextSlot' = (nextSlot + 1) % RingSize
      /\ full' = (full \/ nextSlot' = 0)
      /\ writing' = [writing EXCEPT ![w] = logged']
      /\ UNCHANGED <<channel, emitted, reply, pending, shown, mishap>>
  BY DEF Stores, viewerVars, LInv, LogTypes
<1>2. /\ RingSize \in Nat \ {0} /\ nextSlot \in 0..(RingSize - 1)
      /\ buf \in [0..(RingSize - 1) -> Nat] /\ full \in BOOLEAN
      /\ writing \in [Writer -> 0..logged]
  BY LogAssumption DEF LInv, LogTypes
<1>3. nextSlot' = IF nextSlot + 1 = RingSize THEN 0 ELSE nextSlot + 1
  BY <1>1, <1>2, NextSlot
<1>4. LogTypes'
  <2>1. buf' \in [0..(RingSize - 1) -> Nat]
    BY <1>1, <1>2
  <2>2. nextSlot' \in 0..(RingSize - 1) /\ full' \in BOOLEAN
    BY <1>1, <1>2, <1>3
  <2>3. logged' \in Nat /\ writing' \in [Writer -> 0..logged']
    BY <1>1, <1>2
  <2> QED
    BY <1>1, <2>1, <2>2, <2>3 DEF LInv, LogTypes
<1>5. RingInv'
  <2>1. /\ ~full => logged = nextSlot
        /\ full => logged >= RingSize
    BY DEF LInv, RingInv
  <2>2. /\ ~full' => logged' = nextSlot'
        /\ full' => logged' >= RingSize
    <3>1. CASE nextSlot + 1 = RingSize
      <4>1. nextSlot' = 0
        BY <1>3, <3>1
      <4>2. full'
        BY <1>1, <4>1
      <4>3. logged + 1 >= RingSize
        BY <1>1, <1>2, <2>1, <3>1
      <4> QED
        BY <1>1, <4>2, <4>3
    <3>2. CASE nextSlot + 1 # RingSize
      <4>1. nextSlot' = nextSlot + 1 /\ full' = full
        BY <1>1, <1>2, <1>3, <3>2
      <4> QED
        BY <1>1, <1>2, <2>1, <4>1
    <3> QED
      BY <3>1, <3>2
  <2>3. ASSUME NEW i \in 0..(RingSize - 1)
        PROVE  /\ i < nextSlot' => buf'[i] = logged' - nextSlot' + i + 1
               /\ full' /\ i >= nextSlot' => buf'[i] = logged' - nextSlot' - RingSize + i + 1
    <3>1. /\ i < nextSlot => buf[i] = logged - nextSlot + i + 1
          /\ full /\ i >= nextSlot => buf[i] = logged - nextSlot - RingSize + i + 1
      BY <2>3 DEF LInv, RingInv
    <3>2. CASE i = nextSlot
      <4>1. buf'[i] = logged + 1
        BY <1>1, <1>2, <3>2
      <4> QED
        BY <1>1, <1>2, <1>3, <3>2, <4>1
    <3>3. CASE i # nextSlot
      <4>1. buf'[i] = buf[i]
        BY <1>1, <1>2, <3>3
      <4>2. CASE nextSlot + 1 = RingSize
        <5>1. nextSlot' = 0 /\ i < nextSlot
          BY <1>2, <1>3, <3>3, <4>2
        <5>2. buf'[i] = logged' - 0 - RingSize + i + 1
          BY <1>1, <1>2, <3>1, <4>1, <4>2, <5>1
        <5>3. ~(i < nextSlot')
          BY <5>1
        <5> QED
          BY <5>1, <5>2, <5>3
      <4>3. CASE nextSlot + 1 # RingSize
        <5>1. nextSlot' = nextSlot + 1 /\ logged' = logged + 1
          BY <1>1, <1>3, <4>3
        <5>2. full' = full
          BY <1>1, <1>2, <1>3, <4>3
        <5>3. nextSlot \in Nat /\ logged \in Nat /\ i \in Nat
          BY <1>1, <1>2
        <5>4. /\ i < nextSlot' => i < nextSlot
              /\ i >= nextSlot' => i >= nextSlot
              /\ logged' - nextSlot' = logged - nextSlot
          BY <3>3, <5>1, <5>3
        <5> QED
          BY <3>1, <4>1, <5>2, <5>4
      <4> QED
        BY <4>2, <4>3
    <3> QED
      BY <3>2, <3>3
  <2> QED
    BY <2>2, <2>3 DEF RingInv
<1>6. Distinct'
  BY <1>1, <1>2 DEF LInv, Distinct, NoLine
<1>7. ViewerInv'
  BY <1>1 DEF LInv, ViewerInv
<1>8. InOrder'
  <2> SUFFICES ASSUME mishap \cap {"dropped", "overtaken"} = {} PROVE InOrder'
    BY <1>1 DEF InOrder
  <2>1. PICK upto \in 0..logged : OnTheirWay(upto) /\ Waits(upto) /\ Showing(upto)
    BY DEF LInv, InOrder
  <2> DEFINE passed == upto + Len(emitted) + Len(channel)
  <2>2. upto \in 0..logged' /\ Len(emitted) \in Nat /\ Len(channel) \in Nat /\ Len(pending) \in Nat
    BY <1>1, LenProperties DEF LInv, LogTypes
  <2>3. passed \in Nat /\ passed <= logged
    BY <2>1, <2>2 DEF OnTheirWay
  <2>4. OnTheirWay(upto)'
    <3>1. \A v \in Writer : writing'[v] # NoLine => writing'[v] > passed
      <4> HIDE DEF passed
      <4>1. \A v \in Writer : writing'[v] = IF v = w THEN logged + 1 ELSE writing[v]
        BY <1>1, <1>2
      <4>2. \A v \in Writer : writing[v] # NoLine => writing[v] > passed
        BY <2>1 DEF OnTheirWay, passed
      <4> QED
        BY <1>1, <2>3, <4>1, <4>2
    <3>2. ASSUME NEW l \in (passed + 1)..logged' PROVE \E v \in Writer : writing'[v] = l
      <4>1. CASE l = logged + 1
        BY <1>1, <1>2, <4>1
      <4>2. CASE l # logged + 1
        <5>1. l \in (passed + 1)..logged
          BY <1>1, <2>3, <3>2, <4>2
        <5>2. PICK v \in Writer : writing[v] = l
          BY <2>1, <5>1 DEF OnTheirWay
        <5>3. v # w
          BY <1>1, <2>3, <5>1, <5>2 DEF NoLine
        <5> QED
          BY <1>1, <1>2, <5>2, <5>3
      <4> QED
        BY <4>1, <4>2
    <3>3. passed <= logged'
      BY <1>1, <2>3
    <3> QED
      BY <1>1, <2>1, <3>1, <3>2, <3>3 DEF OnTheirWay, Run
  <2>5. Waits(upto)'
    <3>1. ASSUME NEW n \in (upto - Len(pending))..logged PROVE n \in (upto - Len(pending))..logged'
      BY <1>1, <2>2
    <3> QED
      BY <1>1, <2>1, <3>1 DEF Waits, Run
  <2>6. Showing(upto)'
    BY <1>1, <2>1 DEF Showing, Run
  <2> QED
    BY <2>2, <2>4, <2>5, <2>6 DEF InOrder
<1> QED
  BY <1>4, <1>5, <1>6, <1>7, <1>8 DEF LInv

--------------------------------------------------------------------------------
(* On their way to the page.                                               *)

\* Sent in the order they were stored, unless one overtakes another.
LEMMA SendsKeeps == ASSUME LInv, NEW w \in Writer, SendsLine(w) PROVE LInv'
<1> DEFINE dropped == Len(channel) = Buffer
           overtakes == \E v \in Writer : writing[v] \in 1..(writing[w] - 1)
<1>1. /\ writing[w] # NoLine
      /\ channel' = IF dropped THEN channel ELSE Append(channel, writing[w])
      /\ mishap' = mishap \cup {x \in {"dropped"} : dropped} \cup {x \in {"overtaken"} : overtakes}
      /\ writing' = [writing EXCEPT ![w] = NoLine]
      /\ UNCHANGED <<buf, nextSlot, full, logged, emitted, reply, pending, shown>>
  BY DEF SendsLine, ringVars, viewerVars
<1>2. /\ logged \in Nat /\ writing \in [Writer -> 0..logged] /\ writing[w] \in Line
      /\ channel \in Seq(Line) /\ emitted \in Seq(Line) /\ pending \in Seq(Line)
      /\ Len(channel) \in Nat /\ Len(emitted) \in Nat
  BY <1>1, LenProperties DEF LInv, LogTypes, NoLine, Line
<1>3. LogTypes'
  <2>1. channel' \in Seq(Line)
    BY <1>1, <1>2, AppendProperties
  <2>2. writing' \in [Writer -> 0..logged]
    BY <1>1, <1>2 DEF NoLine
  <2>3. mishap' \subseteq {"dropped", "overtaken", "failed", "late", "wrapped", "alike"}
    BY <1>1 DEF LInv, LogTypes
  <2> QED
    BY <1>1, <2>1, <2>2, <2>3 DEF LInv, LogTypes
<1>4. RingInv'
  BY <1>1 DEF LInv, RingInv
<1>5. Distinct'
  BY <1>1, <1>2 DEF LInv, Distinct, NoLine
<1>6. ViewerInv'
  BY <1>1 DEF LInv, ViewerInv
<1>7. InOrder'
  <2> SUFFICES ASSUME mishap' \cap {"dropped", "overtaken"} = {} PROVE InOrder'
    BY DEF InOrder
  <2>1. ~dropped /\ ~overtakes /\ mishap' = mishap /\ mishap \cap {"dropped", "overtaken"} = {}
    BY <1>1
  <2>2. PICK upto \in 0..logged : OnTheirWay(upto) /\ Waits(upto) /\ Showing(upto)
    BY <2>1 DEF LInv, InOrder
  <2> DEFINE passed == upto + Len(emitted) + Len(channel)
  <2>3. /\ passed \in Nat /\ passed <= logged
        /\ \A v \in Writer : writing[v] # NoLine => writing[v] > passed
        /\ \A l \in (passed + 1)..logged : \E v \in Writer : writing[v] = l
    BY <1>2, <2>2 DEF OnTheirWay
  <2>4. writing[w] = passed + 1
    <3> HIDE DEF passed
    <3>1. writing[w] > passed /\ writing[w] \in 0..logged
      BY <1>1, <1>2, <2>3
    <3>4. passed + 1 \in (passed + 1)..logged
      BY <1>2, <2>3, <3>1
    <3>2. PICK v \in Writer : writing[v] = passed + 1
      BY <2>3, <3>4
    <3>3. ~(passed + 1 \in 1..(writing[w] - 1))
      BY <2>1, <3>2
    <3> QED
      BY <2>3, <3>1, <3>3
  <2>5. /\ channel' \in Seq(Line) /\ Len(channel') = Len(channel) + 1
        /\ Run(channel', upto + Len(emitted))
    <3>1. upto + Len(emitted) \in Nat /\ Run(channel, upto + Len(emitted))
      BY <1>2, <2>2 DEF OnTheirWay
    <3>2. writing[w] = upto + Len(emitted) + Len(channel) + 1
      BY <2>4
    <3> QED
      BY <1>1, <1>2, <2>1, <3>1, <3>2, RunAppends
  <2> DEFINE sent1 == upto + Len(emitted) + Len(channel')
  <2>6. sent1 = passed + 1
    BY <1>2, <2>5
  <2>7. \A v \in Writer : writing'[v] # NoLine => writing'[v] > sent1
    <3> HIDE DEF passed, sent1
    <3> SUFFICES ASSUME NEW v \in Writer, writing'[v] # NoLine PROVE writing'[v] > sent1
      OBVIOUS
    <3>1. v # w /\ writing'[v] = writing[v]
      BY <1>1, <1>2
    <3>2. writing[v] # writing[w]
      BY <1>1, <3>1 DEF LInv, Distinct
    <3>3. writing[v] > passed /\ writing[v] \in 0..logged
      BY <1>2, <2>3, <3>1
    <3> QED
      BY <2>3, <2>4, <2>6, <3>1, <3>2, <3>3
  <2>8. \A l \in (sent1 + 1)..logged : \E v \in Writer : writing'[v] = l
    <3> HIDE DEF passed, sent1
    <3> SUFFICES ASSUME NEW l \in (sent1 + 1)..logged PROVE \E v \in Writer : writing'[v] = l
      OBVIOUS
    <3>1. l \in (passed + 1)..logged /\ l # writing[w]
      BY <2>3, <2>4, <2>6
    <3>2. PICK v \in Writer : writing[v] = l
      BY <2>3, <3>1
    <3> QED
      BY <1>1, <1>2, <3>1, <3>2
  <2>9. sent1 <= logged
    <3> HIDE DEF passed, sent1
    <3> QED
      BY <1>2, <2>4, <2>6
  <2>10. OnTheirWay(upto)'
    BY <1>1, <2>2, <2>5, <2>7, <2>8, <2>9 DEF OnTheirWay, Run
  <2>11. Waits(upto)' /\ Showing(upto)'
    BY <1>1, <2>1, <2>2 DEF Waits, Showing, Run
  <2> QED
    BY <1>1, <2>10, <2>11 DEF InOrder
<1> QED
  BY <1>3, <1>4, <1>5, <1>6, <1>7 DEF LInv

LEMMA PublishesKeeps == LInv /\ publishLogLines => LInv'
<1> SUFFICES ASSUME LInv, publishLogLines PROVE LInv'
  OBVIOUS
<1>1. /\ channel # <<>> /\ channel' = Tail(channel)
      /\ emitted' = IF reply.step = "none" THEN emitted ELSE Append(emitted, Head(channel))
      /\ UNCHANGED <<buf, nextSlot, full, logged, writing, reply, pending, shown, mishap>>
  BY DEF publishLogLines, ringVars, viewerVars
<1>2. /\ logged \in Nat /\ channel \in Seq(Line) /\ emitted \in Seq(Line) /\ pending \in Seq(Line)
      /\ Len(channel) \in Nat \ {0} /\ Len(emitted) \in Nat /\ Len(pending) \in Nat
      /\ Head(channel) \in Line /\ channel' \in Seq(Line) /\ Len(channel') = Len(channel) - 1
  BY <1>1, LenProperties, EmptySeq, HeadTailProperties DEF LInv, LogTypes
<1>3. LogTypes'
  <2>1. emitted' \in Seq(Line)
    BY <1>1, <1>2, AppendProperties
  <2> QED
    BY <1>1, <1>2, <2>1 DEF LInv, LogTypes
<1>4. RingInv' /\ Distinct' /\ ViewerInv'
  BY <1>1 DEF LInv, RingInv, Distinct, ViewerInv
<1>5. InOrder'
  <2> SUFFICES ASSUME mishap \cap {"dropped", "overtaken"} = {} PROVE InOrder'
    BY <1>1 DEF InOrder
  <2>1. PICK upto \in 0..logged : OnTheirWay(upto) /\ Waits(upto) /\ Showing(upto)
    BY DEF LInv, InOrder
  <2> DEFINE passed == upto + Len(emitted) + Len(channel)
             at == upto + Len(emitted)
  <2>2. /\ Run(emitted, upto) /\ Run(channel, at)
        /\ \A v \in Writer : writing[v] # NoLine => writing[v] > passed
        /\ \A l \in (passed + 1)..logged : \E v \in Writer : writing[v] = l
        /\ passed <= logged /\ at \in Nat /\ passed \in Nat
    BY <1>2, <2>1 DEF OnTheirWay
  <2>3. Head(channel) = at + 1 /\ Run(channel', at + 1)
    <3> HIDE DEF at
    <3> QED
      BY <1>1, <1>2, <2>2, RunHeadTail
  <2>4. CASE reply.step = "none"
    <3>1. emitted = <<>> /\ emitted' = <<>> /\ Len(emitted) = 0
      BY <1>1, <2>4, EmptySeq DEF LInv, ViewerInv
    <3>2. /\ upto + 1 \in 0..logged
          /\ (upto + 1) + Len(emitted') + Len(channel') = passed
          /\ (upto + 1) + Len(emitted') = at + 1
      BY <1>2, <2>2, <3>1
    <3>3. Run(emitted', upto + 1)
      BY <3>1 DEF Run
    <3>4. OnTheirWay(upto + 1)'
      BY <1>1, <2>2, <2>3, <3>2, <3>3 DEF OnTheirWay, Run
    <3>5. Waits(upto + 1)' /\ Showing(upto + 1)'
      BY <1>1, <2>4 DEF Waits, Showing
    <3> QED
      BY <1>1, <3>2, <3>4, <3>5 DEF InOrder
  <2>5. CASE reply.step # "none"
    <3>1. Run(emitted', upto) /\ Len(emitted') = Len(emitted) + 1
      <4>1. upto \in Nat /\ emitted' = Append(emitted, Head(channel))
        BY <1>1, <2>5
      <4> QED
        BY <1>2, <2>2, <2>3, <4>1, RunAppends
    <3>2. upto + Len(emitted') = at + 1 /\ upto + Len(emitted') + Len(channel') = passed
      BY <1>2, <2>2, <3>1
    <3>3. OnTheirWay(upto)'
      BY <1>1, <2>2, <2>3, <3>1, <3>2 DEF OnTheirWay, Run
    <3>4. Waits(upto)' /\ Showing(upto)'
      BY <1>1, <2>1 DEF Waits, Showing, Run
    <3> QED
      BY <1>1, <3>3, <3>4 DEF InOrder
  <2> QED
    BY <2>4, <2>5
<1> QED
  BY <1>3, <1>4, <1>5 DEF LInv

--------------------------------------------------------------------------------
(* The viewer.                                                             *)

LEMMA MountsKeeps == LInv /\ Mounts => LInv'
<1> SUFFICES ASSUME LInv, Mounts PROVE LInv'
  OBVIOUS
<1>1. /\ reply.step = "none" /\ reply' = [reply EXCEPT !.step = "asked"]
      /\ UNCHANGED <<buf, nextSlot, full, logged, writing, channel, emitted, pending, shown, mishap>>
  BY DEF Mounts, ringVars
<1>2. reply' = [step |-> "asked", lines |-> reply.lines] /\ reply.lines \in Seq(Line)
  BY <1>1 DEF LInv, LogTypes
<1>3. LogTypes'
  BY <1>1, <1>2 DEF LInv, LogTypes
<1>4. RingInv' /\ Distinct' /\ ViewerInv'
  BY <1>1, <1>2 DEF LInv, RingInv, Distinct, ViewerInv
<1>5. pending = <<>> /\ shown = <<>> /\ Len(pending) = 0
  BY <1>1, EmptySeq DEF LInv, ViewerInv
<1>6. InOrder'
  <2> SUFFICES ASSUME mishap \cap {"dropped", "overtaken"} = {} PROVE InOrder'
    BY <1>1 DEF InOrder
  <2>1. PICK upto \in 0..logged : OnTheirWay(upto)
    BY DEF LInv, InOrder
  <2>2. OnTheirWay(upto)'
    BY <1>1, <2>1 DEF OnTheirWay, Run
  <2>3. Waits(upto)' /\ Showing(upto)'
    BY <1>1, <1>2, <1>5 DEF Waits, Showing, Run
  <2> QED
    BY <1>1, <2>2, <2>3 DEF InOrder
<1> QED
  BY <1>3, <1>4, <1>6 DEF LInv

LEMMA GetRecentKeeps == LInv /\ GetRecentLogs => LInv'
<1> SUFFICES ASSUME LInv, GetRecentLogs PROVE LInv'
  OBVIOUS
<1>1. /\ reply.step = "asked"
      /\ UNCHANGED <<buf, nextSlot, full, logged, writing, channel, emitted, pending, shown>>
  BY DEF GetRecentLogs, ringVars
<1>2. \/ reply' = [step |-> "answered", lines |-> RecentLines] /\ mishap' = mishap
      \/ reply' = [step |-> "failed", lines |-> <<>>] /\ mishap' = mishap \cup {"failed"}
  BY DEF GetRecentLogs
<1>3. /\ RecentLines \in Seq(Line)
      /\ Len(RecentLines) = IF logged < RingSize THEN logged ELSE RingSize
      /\ Run(RecentLines, logged - Len(RecentLines))
      /\ logged \in Nat /\ Len(pending) \in Nat /\ <<>> \in Seq(Line)
  BY RecentLinesAreRun, LenProperties, EmptySeq DEF LInv, LogTypes
<1>4. LogTypes'
  <2>1. reply' \in [step : {"none", "asked", "answered", "failed", "in"}, lines : Seq(Line)]
    <3> DEFINE recent == RecentLines
    <3>1. recent \in Seq(Line)
      BY <1>3
    <3> HIDE DEF recent
    <3>2. [step |-> "answered", lines |-> recent]
            \in [step : {"none", "asked", "answered", "failed", "in"}, lines : Seq(Line)]
      BY <3>1
    <3>3. [step |-> "failed", lines |-> <<>>]
            \in [step : {"none", "asked", "answered", "failed", "in"}, lines : Seq(Line)]
      BY <1>3
    <3> QED
      BY <1>2, <3>2, <3>3 DEF recent
  <2>2. mishap' \subseteq {"dropped", "overtaken", "failed", "late", "wrapped", "alike"}
    BY <1>2 DEF LInv, LogTypes
  <2> QED
    BY <1>1, <2>1, <2>2 DEF LInv, LogTypes
<1>5. RingInv' /\ Distinct' /\ ViewerInv'
  BY <1>1, <1>2 DEF LInv, RingInv, Distinct, ViewerInv
<1>6. InOrder'
  <2> SUFFICES ASSUME mishap' \cap {"dropped", "overtaken"} = {} PROVE InOrder'
    BY DEF InOrder
  <2>1. PICK upto \in 0..logged : OnTheirWay(upto) /\ Waits(upto)
    BY <1>2 DEF LInv, InOrder
  <2>2. OnTheirWay(upto)' /\ Showing(upto)'
    BY <1>1, <1>2, <2>1 DEF OnTheirWay, Showing, Run
  <2>3. Len(pending) <= upto /\ shown = <<>> /\ Run(pending, upto - Len(pending))
    BY <1>1, <2>1 DEF Waits
  <2>4. Waits(upto)'
    <3>1. CASE reply' = [step |-> "failed", lines |-> <<>>]
      BY <1>1, <2>3, <3>1 DEF Waits, Run
    <3>2. CASE reply' = [step |-> "answered", lines |-> RecentLines]
      <4>1. logged \in (upto - Len(pending))..logged
        BY <1>3
      <4>2. /\ reply.step' = "answered" /\ reply.lines' = RecentLines
            /\ logged' = logged /\ pending' = pending /\ shown' = shown
        BY <1>1, <3>2
      <4> QED
        BY <1>3, <2>3, <4>1, <4>2 DEF Waits, Run
    <3> QED
      BY <1>2, <3>1, <3>2
  <2> QED
    BY <1>1, <2>2, <2>4 DEF InOrder
<1> QED
  BY <1>4, <1>5, <1>6 DEF LInv

\* What the join puts together, when nothing has happened it cannot make up for.
LEMMA JoinIsWhole ==
  ASSUME LInv, Joins, mishap' \subseteq {"failed"}, NEW upto \in 0..logged,
         OnTheirWay(upto), Waits(upto)
  PROVE  /\ Len(shown') + Len(pending') <= upto
         /\ Run(shown' \o pending', upto - (Len(shown') + Len(pending')))
         /\ mishap' = {} => Len(shown') + Len(pending') >= (IF upto < RingSize THEN upto ELSE RingSize)
<1> DEFINE lines == reply.lines
           first == upto - Len(pending)
<1>1. /\ reply.step \in {"answered", "failed"}
      /\ pending' = dropHistoryOverlap(lines, pending) /\ shown' = lines
      /\ ToSet(lines) \cap Underway = {}
      /\ lines # <<>> /\ pending # <<>> => ~(Head(pending) < Head(lines))
      /\ ~Alike(lines, pending)
      /\ mishap \subseteq mishap'
  <2> DEFINE isLate == ToSet(lines) \cap Underway # {}
             hasWrapped == lines # <<>> /\ pending # <<>> /\ Head(pending) < Head(lines)
             isAlike == Alike(lines, pending)
  <2>1. mishap' = mishap \cup {x \in {"late"} : isLate} \cup {x \in {"wrapped"} : hasWrapped}
                         \cup {x \in {"alike"} : isAlike}
    BY DEF Joins
  <2>2. ~isLate /\ ~hasWrapped /\ ~isAlike
    <3> HIDE DEF isLate, hasWrapped, isAlike
    <3> QED
      BY <2>1
  <2>3. mishap \subseteq mishap'
    BY <2>1
  <2>4. /\ reply.step \in {"answered", "failed"}
        /\ pending' = dropHistoryOverlap(lines, pending) /\ shown' = lines
    BY DEF Joins
  <2> QED
    BY <2>2, <2>3, <2>4
<1>2. /\ logged \in Nat /\ RingSize \in Nat \ {0} /\ upto \in Nat
      /\ lines \in Seq(Line) /\ pending \in Seq(Line) /\ emitted \in Seq(Line) /\ channel \in Seq(Line)
      /\ Len(lines) \in Nat /\ Len(pending) \in Nat /\ Len(emitted) \in Nat /\ Len(channel) \in Nat
  BY LenProperties, LogAssumption DEF LInv, LogTypes
<1>3. Len(pending) <= upto /\ Run(pending, first) /\ first \in Nat
  BY <1>1, <1>2 DEF Waits
<1>4. \E newest \in first..logged :
        /\ Run(lines, newest - Len(lines)) /\ Len(lines) <= newest
        /\ lines = <<>> => newest = first
        /\ reply.step = "answered" => Len(lines) = (IF newest < RingSize THEN newest ELSE RingSize)
  <2>1. CASE reply.step = "failed"
    <3>1. lines = <<>> /\ Len(lines) = 0
      BY <2>1, EmptySeq DEF LInv, ViewerInv
    <3>2. first \in first..logged /\ Run(lines, first - Len(lines)) /\ Len(lines) <= first
      BY <1>2, <1>3, <3>1 DEF Run
    <3>3. reply.step # "answered"
      BY <2>1
    <3> HIDE DEF first, lines
    <3> QED
      BY <3>2, <3>3
  <2>2. CASE reply.step = "answered"
    <3>1. PICK newest \in first..logged :
            /\ Len(lines) = (IF newest < RingSize THEN newest ELSE RingSize)
            /\ Run(lines, newest - Len(lines))
      BY <2>2 DEF Waits
    <3>2. lines = <<>> => newest = first
      <4>1. lines = <<>> => Len(lines) = 0
        BY EmptySeq
      <4> QED
        BY <1>2, <1>3, <3>1, <4>1
    <3>3. newest \in Nat /\ Len(lines) <= newest
      BY <1>2, <1>3, <3>1
    <3> HIDE DEF first, lines
    <3> QED
      BY <3>1, <3>2, <3>3
  <2> QED
    BY <1>1, <2>1, <2>2
<1>5. PICK newest \in first..logged :
        /\ Run(lines, newest - Len(lines)) /\ Len(lines) <= newest
        /\ lines = <<>> => newest = first
        /\ reply.step = "answered" => Len(lines) = (IF newest < RingSize THEN newest ELSE RingSize)
  BY <1>4
\* No line of the answer is still to come,
<1>6. newest <= upto
  <2>1. CASE lines = <<>>
    BY <1>2, <1>3, <1>5, <2>1
  <2>2. CASE lines # <<>>
    <3>1. Len(lines) \in 1..Len(lines) /\ lines[Len(lines)] = newest
      <4>1. Len(lines) \in Nat \ {0}
        BY <1>2, <2>2, EmptySeq
      <4>2. Len(lines) \in 1..Len(lines)
        BY <4>1
      <4>3. lines[Len(lines)] = (newest - Len(lines)) + Len(lines)
        BY <1>5, <4>2 DEF Run
      <4>4. newest \in Int
        BY <1>2, <1>3
      <4> HIDE DEF lines
      <4> QED
        BY <4>1, <4>2, <4>3, <4>4
    <3>2. newest \in ToSet(lines)
      BY <1>2, <3>1, LenProperties DEF ToSet
    <3>3. ASSUME newest > upto PROVE FALSE
      <4>1. CASE newest <= upto + Len(emitted)
        <5>1. newest - upto \in 1..Len(emitted) /\ emitted[newest - upto] = newest
          <6>1. newest \in Int /\ upto + (newest - upto) = newest
            BY <1>2, <1>3
          <6>2. newest - upto \in 1..Len(emitted)
            BY <1>2, <3>3, <4>1, <6>1
          <6>3. emitted[newest - upto] = upto + (newest - upto)
            BY <6>2 DEF OnTheirWay, Run
          <6> QED
            BY <6>1, <6>2, <6>3
        <5>2. newest \in ToSet(emitted)
          BY <1>2, <5>1, LenProperties DEF ToSet
        <5> QED
          BY <1>1, <3>2, <5>2 DEF Underway
      <4>2. CASE newest > upto + Len(emitted) /\ newest <= upto + Len(emitted) + Len(channel)
        <5> DEFINE i == newest - (upto + Len(emitted))
        <5>1. i \in 1..Len(channel) /\ channel[i] = newest
          <6>1. newest \in Int /\ (upto + Len(emitted)) + i = newest
            BY <1>2, <1>3
          <6>2. i \in 1..Len(channel)
            BY <1>2, <1>3, <4>2, <6>1
          <6>3. channel[i] = (upto + Len(emitted)) + i
            BY <6>2 DEF OnTheirWay, Run
          <6> QED
            BY <6>1, <6>2, <6>3
        <5>2. newest \in ToSet(channel)
          BY <1>2, <5>1, LenProperties DEF ToSet
        <5> QED
          BY <1>1, <3>2, <5>2 DEF Underway
      <4>3. CASE newest > upto + Len(emitted) + Len(channel)
        <5>1. newest \in (upto + Len(emitted) + Len(channel) + 1)..logged
          BY <1>2, <1>3, <1>5, <4>3
        <5>2. PICK w \in Writer : writing[w] = newest
          BY <5>1 DEF OnTheirWay
        <5> QED
          BY <1>1, <3>2, <5>2 DEF Underway
      <4> QED
        BY <1>2, <1>3, <1>5, <4>1, <4>2, <4>3
    <3> QED
      BY <1>2, <1>3, <1>5, <3>3
  <2> QED
    BY <2>1, <2>2
\* and none that has come has left the ring.
<1>7. newest - Len(lines) <= first
  <2>1. CASE lines = <<>>
    BY <1>2, <1>3, <1>5, <2>1
  <2>2. CASE pending = <<>>
    <3>1. Len(pending) = 0
      BY <2>2, EmptySeq
    <3> QED
      BY <1>2, <1>3, <1>5, <1>6, <3>1
  <2>3. CASE lines # <<>> /\ pending # <<>>
    <3>1. Head(pending) = first + 1
      BY <1>2, <1>3, <2>3, RunHeadTail
    <3>2. newest - Len(lines) \in Nat
      BY <1>2, <1>3, <1>5
    <3>3. Head(lines) = (newest - Len(lines)) + 1
      <4> DEFINE n == newest - Len(lines)
      <4>1. n \in Nat /\ Run(lines, n)
        BY <1>5, <3>2
      <4> HIDE DEF n
      <4>2. Head(lines) = n + 1
        BY <1>2, <2>3, <4>1, RunHeadTail
      <4> QED
        BY <4>2 DEF n
    <3>4. ~(first + 1 < (newest - Len(lines)) + 1)
      BY <1>1, <2>3, <3>1, <3>3
    <3> HIDE DEF first, lines
    <3> QED
      BY <1>3, <3>2, <3>4
  <2> QED
    BY <2>1, <2>2, <2>3
<1> DEFINE rest == dropHistoryOverlap(lines, pending)
<1>8. rest \in Seq(Line) /\ Len(rest) = first + Len(pending) - newest /\ Run(rest, newest)
  <2>1. newest \in Nat /\ first <= newest /\ newest <= first + Len(pending)
    BY <1>2, <1>3, <1>5, <1>6
  <2>2. lines # <<>> =>
          \A i \in 1..Len(pending) : pending[i] > newest => text[pending[i]] # text[newest]
    <3> SUFFICES ASSUME lines # <<>>, NEW i \in 1..Len(pending), pending[i] > newest
                 PROVE  text[pending[i]] # text[newest]
      OBVIOUS
    <3>1. Len(lines) \in 1..Len(lines)
      <4>1. Len(lines) # 0
        BY <1>2, EmptySeq
      <4> QED
        BY <1>2, <4>1
    <3>2. lines[Len(lines)] = (newest - Len(lines)) + Len(lines)
      BY <1>5, <3>1 DEF Run
    <3>3. Last(lines) = newest
      <4> HIDE DEF lines
      <4> QED
        BY <1>2, <2>1, <3>2 DEF Last
    <3>4. i \in DOMAIN pending
      BY <1>2, LenProperties
    <3> QED
      BY <1>1, <3>3, <3>4 DEF Alike
  <2> HIDE DEF first, lines
  <2> QED
    BY <1>2, <1>3, <1>5, <1>7, <2>1, <2>2, OverlapDrops
<1>9. Len(rest) = upto - newest
  BY <1>2, <1>3, <1>5, <1>8
<1> HIDE DEF rest
<1>10. Run(lines \o rest, newest - Len(lines))
  <2> DEFINE n == newest - Len(lines)
  <2>1. n \in Int /\ n + Len(lines) = newest
    BY <1>2, <1>3, <1>5
  <2>2. Run(lines, n) /\ Run(rest, n + Len(lines))
    BY <1>5, <1>8, <2>1
  <2> HIDE DEF n, lines
  <2>3. Run(lines \o rest, n)
    BY <1>2, <1>8, <2>1, <2>2, RunsJoin
  <2> QED
    BY <2>3 DEF n
<1>11. /\ Len(lines) + Len(rest) <= upto
       /\ upto - (Len(lines) + Len(rest)) = newest - Len(lines)
  BY <1>2, <1>3, <1>5, <1>9
<1>12. ASSUME mishap' = {}
       PROVE  Len(lines) + Len(rest) >= (IF upto < RingSize THEN upto ELSE RingSize)
  <2>1. reply.step = "answered"
    BY <1>1, <1>12 DEF LInv, ViewerInv
  <2> QED
    BY <1>2, <1>3, <1>5, <1>6, <1>9, <2>1
<1> QED
  BY <1>1, <1>10, <1>11, <1>12 DEF rest

LEMMA JoinsKeeps == LInv /\ Joins => LInv'
<1> SUFFICES ASSUME LInv, Joins PROVE LInv'
  OBVIOUS
<1>1. /\ reply' = [step |-> "in", lines |-> <<>>] /\ shown' = reply.lines
      /\ pending' = dropHistoryOverlap(reply.lines, pending)
      /\ mishap \subseteq mishap' /\ mishap' \subseteq mishap \cup {"late", "wrapped", "alike"}
      /\ reply.step \in {"answered", "failed"}
      /\ UNCHANGED <<buf, nextSlot, full, logged, writing, channel, emitted>>
  BY DEF Joins, ringVars
<1>2. LogTypes'
  <2>1. reply.lines \in Seq(Line) /\ pending \in Seq(Line) /\ <<>> \in Seq(Line)
    BY EmptySeq DEF LInv, LogTypes
  <2>2. shown' \in Seq(Line) /\ pending' \in Seq(Line)
    BY <1>1, <2>1, DropsFromFront
  <2> QED
    BY <1>1, <2>1, <2>2 DEF LInv, LogTypes
<1>3. RingInv' /\ Distinct' /\ ViewerInv'
  BY <1>1 DEF LInv, RingInv, Distinct, ViewerInv
<1>4. InOrder'
  <2> SUFFICES ASSUME mishap' \cap {"dropped", "overtaken"} = {} PROVE InOrder'
    BY DEF InOrder
  <2>1. PICK upto \in 0..logged : OnTheirWay(upto) /\ Waits(upto)
    BY <1>1 DEF LInv, InOrder
  <2>2. OnTheirWay(upto)' /\ Waits(upto)'
    BY <1>1, <2>1 DEF OnTheirWay, Waits, Run
  <2>3. Showing(upto)'
    <3> SUFFICES ASSUME mishap' \subseteq {"failed"} PROVE Showing(upto)'
      BY DEF Showing
    <3>1. /\ Len(shown') + Len(pending') <= upto
          /\ Run(shown' \o pending', upto - (Len(shown') + Len(pending')))
          /\ mishap' = {} => Len(shown') + Len(pending') >= (IF upto < RingSize THEN upto ELSE RingSize)
      BY <2>1, JoinIsWhole
    <3> QED
      BY <3>1 DEF Showing, Run
  <2> QED
    BY <1>1, <2>2, <2>3 DEF InOrder
<1> QED
  BY <1>2, <1>3, <1>4 DEF LInv

LEMMA BuffersKeeps == LInv /\ Buffers => LInv'
<1> SUFFICES ASSUME LInv, Buffers PROVE LInv'
  OBVIOUS
<1> DEFINE crowded == Len(pending) >= MAX_TAIL_LINES
<1>1. /\ emitted # <<>> /\ emitted' = Tail(emitted)
      /\ pending' = Append(IF crowded THEN Tail(pending) ELSE pending, Head(emitted))
      /\ mishap' = mishap \cup {x \in {"dropped"} : crowded}
      /\ UNCHANGED <<buf, nextSlot, full, logged, writing, channel, reply, shown>>
  BY DEF Buffers, ringVars
<1>2. /\ logged \in Nat /\ MAX_TAIL_LINES \in Nat \ {0} /\ pending \in Seq(Line) /\ shown \in Seq(Line)
      /\ emitted \in Seq(Line) /\ Head(emitted) \in Line /\ emitted' \in Seq(Line)
      /\ Len(emitted) \in Nat \ {0} /\ Len(emitted') = Len(emitted) - 1
      /\ Len(pending) \in Nat /\ Len(channel) \in Nat /\ Len(shown) \in Nat
  BY <1>1, LogAssumption, LenProperties, EmptySeq, HeadTailProperties DEF LInv, LogTypes
<1>3. LogTypes'
  <2>1. crowded => Tail(pending) \in Seq(Line)
    <3>1. crowded => pending # <<>>
      BY <1>2, EmptySeq
    <3> QED
      BY <1>2, <3>1, HeadTailProperties
  <2>2. pending' \in Seq(Line)
    BY <1>1, <1>2, <2>1, AppendProperties
  <2>3. mishap' \subseteq {"dropped", "overtaken", "failed", "late", "wrapped", "alike"}
    BY <1>1 DEF LInv, LogTypes
  <2> QED
    BY <1>1, <1>2, <2>2, <2>3 DEF LInv, LogTypes
<1>4. reply.step # "none"
  BY <1>1 DEF LInv, ViewerInv
<1>5. RingInv' /\ Distinct' /\ ViewerInv'
  BY <1>1, <1>4 DEF LInv, RingInv, Distinct, ViewerInv
<1>6. InOrder'
  <2> SUFFICES ASSUME mishap' \cap {"dropped", "overtaken"} = {} PROVE InOrder'
    BY DEF InOrder
  <2>1. ~crowded /\ mishap' = mishap /\ pending' = Append(pending, Head(emitted))
    BY <1>1
  <2>2. PICK upto \in 0..logged : OnTheirWay(upto) /\ Waits(upto) /\ Showing(upto)
    BY <2>1 DEF LInv, InOrder
  <2>3. upto \in Nat /\ Head(emitted) = upto + 1 /\ Run(emitted', upto + 1)
    BY <1>1, <1>2, <2>2, RunHeadTail DEF OnTheirWay
  <2>4. /\ upto + 1 \in 0..logged
        /\ (upto + 1) + Len(emitted') = upto + Len(emitted)
    BY <1>2, <2>2, <2>3 DEF OnTheirWay
  <2>5. OnTheirWay(upto + 1)'
    BY <1>1, <2>2, <2>3, <2>4 DEF OnTheirWay, Run
  <2>6. ASSUME NEW n \in Nat, Run(pending, n), n + Len(pending) = upto
        PROVE  /\ Len(pending') = Len(pending) + 1 /\ Run(pending', n)
               /\ (upto + 1) - Len(pending') = upto - Len(pending)
    <3>1. Len(pending') = Len(pending) + 1 /\ Run(pending', n)
      BY <1>2, <2>1, <2>3, <2>6, RunAppends
    <3> QED
      BY <1>2, <2>3, <3>1
  <2>7. Waits(upto + 1)'
    <3> SUFFICES ASSUME reply.step \in {"asked", "answered", "failed"} PROVE Waits(upto + 1)'
      BY <1>1 DEF Waits
    <3>1. shown = <<>> /\ Len(pending) <= upto /\ Run(pending, upto - Len(pending))
      BY <2>2 DEF Waits
    <3>2. /\ Len(pending') = Len(pending) + 1 /\ Run(pending', upto - Len(pending))
          /\ (upto + 1) - Len(pending') = upto - Len(pending)
      <4> DEFINE n == upto - Len(pending)
      <4>1. n \in Nat /\ n + Len(pending) = upto /\ Run(pending, n)
        BY <1>2, <2>3, <3>1
      <4> HIDE DEF n
      <4>2. /\ Len(pending') = Len(pending) + 1 /\ Run(pending', n)
            /\ (upto + 1) - Len(pending') = upto - Len(pending)
        BY <2>6, <4>1
      <4> QED
        BY <4>2 DEF n
    <3>3. Len(pending') <= upto + 1
      BY <1>2, <2>3, <3>1, <3>2
    <3> QED
      BY <1>1, <2>2, <3>1, <3>2, <3>3 DEF Waits, Run
  <2>8. Showing(upto + 1)'
    <3> SUFFICES ASSUME reply.step = "in", mishap \subseteq {"failed"} PROVE Showing(upto + 1)'
      BY <1>1, <2>1 DEF Showing
    <3> DEFINE n == upto - (Len(shown) + Len(pending))
               k == n + Len(shown)
    <3>1. /\ Len(shown) + Len(pending) <= upto /\ Run(shown \o pending, n)
          /\ mishap = {} => Len(shown) + Len(pending) >= (IF upto < RingSize THEN upto ELSE RingSize)
      BY <2>2 DEF Showing
    <3>2. n \in Int /\ k \in Nat /\ k + Len(pending) = upto
      BY <1>2, <2>3, <3>1
    <3>3. Run(shown, n) /\ Run(pending, k)
      <4> HIDE DEF n
      <4> QED
        BY <1>2, <3>1, <3>2, RunsJoin
    <3>4. Len(pending') = Len(pending) + 1 /\ Run(pending', k)
      <4> HIDE DEF k
      <4> QED
        BY <2>6, <3>2, <3>3
    <3>5. Run(shown \o pending', n)
      <4>1. pending' \in Seq(Line)
        BY <1>3 DEF LogTypes
      <4> HIDE DEF n
      <4> QED
        BY <1>2, <3>2, <3>3, <3>4, <4>1, RunsJoin
    <3>6. /\ Len(shown) + Len(pending') <= upto + 1
          /\ (upto + 1) - (Len(shown) + Len(pending')) = n
      BY <1>2, <2>3, <3>1, <3>4
    <3>7. ASSUME mishap = {}
          PROVE  Len(shown) + Len(pending') >= (IF upto + 1 < RingSize THEN upto + 1 ELSE RingSize)
      <4>1. RingSize \in Nat
        BY LogAssumption
      <4> QED
        BY <1>2, <2>3, <3>1, <3>4, <3>7, <4>1
    <3> HIDE DEF n
    <3> QED
      BY <1>1, <2>1, <3>5, <3>6, <3>7 DEF Showing, Run
  <2> QED
    BY <1>1, <2>4, <2>5, <2>7, <2>8 DEF InOrder
<1> QED
  BY <1>3, <1>5, <1>6 DEF LInv

LEMMA FlushesKeeps == LInv /\ Flushes => LInv'
<1> SUFFICES ASSUME LInv, Flushes PROVE LInv'
  OBVIOUS
<1> DEFINE tail == shown \o pending
<1>1. /\ reply.step = "in" /\ shown' = Capped(tail) /\ pending' = <<>>
      /\ UNCHANGED <<buf, nextSlot, full, logged, writing, channel, emitted, reply, mishap>>
  BY DEF Flushes, ringVars
<1>2. /\ logged \in Nat /\ shown \in Seq(Line) /\ pending \in Seq(Line) /\ <<>> \in Seq(Line)
      /\ Len(shown) \in Nat /\ Len(pending) \in Nat /\ Len(<<>>) = 0
      /\ tail \in Seq(Line) /\ Len(tail) = Len(shown) + Len(pending)
  BY LenProperties, EmptySeq, ConcatProperties DEF LInv, LogTypes
<1>3. Capped(tail) \in Seq(Line)
  <2>1. CASE Len(tail) > MAX_TAIL_LINES
    <3>1. Len(tail) \in Nat /\ MAX_TAIL_LINES \in Nat
      BY <1>2, LogAssumption
    <3>2. \A i \in (Len(tail) - MAX_TAIL_LINES + 1)..Len(tail) : tail[i] \in Line
      BY <1>2, <2>1, <3>1, ElementOfSeq
    <3>3. Len(tail) - MAX_TAIL_LINES + 1 \in Int /\ Len(tail) \in Int
      BY <3>1
    <3>4. SubSeq(tail, Len(tail) - MAX_TAIL_LINES + 1, Len(tail)) \in Seq(Line)
      BY <3>2, <3>3, SubSeqProperties
    <3> HIDE DEF tail
    <3> QED
      BY <2>1, <3>4 DEF Capped, Ending
  <2>2. CASE ~(Len(tail) > MAX_TAIL_LINES)
    BY <1>2, <2>2 DEF Capped
  <2> QED
    BY <2>1, <2>2
<1>4. LogTypes'
  BY <1>1, <1>2, <1>3 DEF LInv, LogTypes
<1>5. RingInv' /\ Distinct' /\ ViewerInv'
  BY <1>1 DEF LInv, RingInv, Distinct, ViewerInv
<1>6. InOrder'
  <2> SUFFICES ASSUME mishap \cap {"dropped", "overtaken"} = {} PROVE InOrder'
    BY <1>1 DEF InOrder
  <2>1. PICK upto \in 0..logged : OnTheirWay(upto) /\ Waits(upto) /\ Showing(upto)
    BY DEF LInv, InOrder
  <2>2. OnTheirWay(upto)' /\ Waits(upto)'
    BY <1>1, <2>1 DEF OnTheirWay, Waits, Run
  <2>3. Showing(upto)'
    <3> SUFFICES ASSUME mishap \subseteq {"failed"} PROVE Showing(upto)'
      BY <1>1 DEF Showing
    <3>1. /\ Len(tail) <= upto /\ Run(tail, upto - Len(tail))
          /\ mishap = {} => Len(tail) >= (IF upto < RingSize THEN upto ELSE RingSize)
      BY <1>1, <1>2, <2>1 DEF Showing
    <3> HIDE DEF tail
    <3>2. upto \in Int /\ Len(tail) \in Nat /\ MAX_TAIL_LINES \in Nat /\ RingSize \in Nat
          /\ RingSize <= MAX_TAIL_LINES
      BY <1>2, LogAssumption, LenProperties
    <3> DEFINE kept == Capped(tail)
    <3>3. /\ kept \in Seq(Line) /\ Run(kept, upto - Len(kept))
          /\ Len(kept) = IF Len(tail) > MAX_TAIL_LINES THEN MAX_TAIL_LINES ELSE Len(tail)
      BY <1>2, <3>1, <3>2, RunCapped
    <3> HIDE DEF kept
    <3>4. kept \o <<>> = kept /\ Len(kept) + Len(<<>>) = Len(kept)
      BY <1>2, <3>2, <3>3, ConcatEmptySeq
    <3>5. /\ Len(kept) <= upto
          /\ mishap = {} => Len(kept) >= (IF upto < RingSize THEN upto ELSE RingSize)
      BY <3>1, <3>2, <3>3
    <3>6. shown' = kept /\ pending' = <<>> /\ mishap' = mishap
      BY <1>1 DEF kept
    <3> QED
      BY <3>3, <3>4, <3>5, <3>6 DEF Showing
  <2> QED
    BY <1>1, <2>2, <2>3 DEF InOrder
<1> QED
  BY <1>4, <1>5, <1>6 DEF LInv

LEMMA LogStep == LInv /\ [LogNext]_logVars => LInv'
<1> SUFFICES ASSUME LInv, [LogNext]_logVars PROVE LInv'
  OBVIOUS
<1>1. CASE UNCHANGED logVars
  <2>1. UNCHANGED <<buf, nextSlot, full, logged, writing, channel, emitted, reply, pending, shown, mishap>>
    BY <1>1 DEF logVars, ringVars, viewerVars
  <2>2. LogTypes' /\ RingInv' /\ Distinct' /\ ViewerInv'
    BY <2>1 DEF LInv, LogTypes, RingInv, Distinct, ViewerInv
  <2>3. \A upto : OnTheirWay(upto) /\ Waits(upto) /\ Showing(upto) =>
                     (OnTheirWay(upto) /\ Waits(upto) /\ Showing(upto))'
    BY <2>1 DEF OnTheirWay, Waits, Showing, Run
  <2>4. InOrder'
    BY <2>1, <2>3 DEF LInv, InOrder
  <2> QED
    BY <2>2, <2>4 DEF LInv
<1> QED
  BY <1>1, StoresKeeps, SendsKeeps, PublishesKeeps, MountsKeeps, GetRecentKeeps, JoinsKeeps,
     BuffersKeeps, FlushesKeeps DEF LogNext

--------------------------------------------------------------------------------

\* "nothing written mid-fetch is lost or shown twice": unless a line was dropped
\* or overtaken, the answer and the events missed each other, or a new line says
\* what the last one fetched does, the viewer shows consecutive lines and at rest
\* the newest, for a ring, a channel and a tail of any size, any number of writers
\* and lines that repeat in any other way (Ring, publishLogLines, LogViewer.tsx,
\* dropHistoryOverlap).
THEOREM TailStaysWhole == LogSpec => []TailIsWhole
<1>1. LInv => TailIsWhole
  <2> SUFFICES ASSUME LInv, reply.step = "in", mishap \subseteq {"failed"}
               PROVE  LET tail == shown \o pending
                      IN  /\ \A i \in 1..(Len(tail) - 1) : tail[i + 1] = tail[i] + 1
                          /\ mishap = {} /\ Quiet /\ logged > 0 =>
                               tail # <<>> /\ Last(tail) = logged
                               /\ (Len(tail) >= logged \/ Len(tail) >= RingSize)
    BY DEF TailIsWhole
  <2> DEFINE tail == shown \o pending
  <2>1. PICK upto \in 0..logged : OnTheirWay(upto) /\ Showing(upto)
    BY DEF LInv, InOrder
  <2>2. /\ tail \in Seq(Line) /\ Len(tail) = Len(shown) + Len(pending) /\ Len(tail) \in Nat
        /\ logged \in Nat /\ upto \in Nat /\ RingSize \in Nat \ {0}
    BY LenProperties, ConcatProperties, LogAssumption DEF LInv, LogTypes
  <2>3. /\ Len(tail) <= upto /\ Run(tail, upto - Len(tail))
        /\ mishap = {} => Len(tail) >= (IF upto < RingSize THEN upto ELSE RingSize)
    BY <2>1, <2>2 DEF Showing
  <2> HIDE DEF tail
  <2>4. ASSUME NEW i \in 1..(Len(tail) - 1) PROVE tail[i + 1] = tail[i] + 1
    <3>1. i \in 1..Len(tail) /\ i + 1 \in 1..Len(tail)
      BY <2>2
    <3>2. tail[i] = upto - Len(tail) + i /\ tail[i + 1] = upto - Len(tail) + (i + 1)
      BY <2>3, <3>1 DEF Run
    <3> QED
      BY <2>2, <3>2
  <2>5. ASSUME mishap = {}, Quiet, logged > 0
        PROVE  tail # <<>> /\ Last(tail) = logged /\ (Len(tail) >= logged \/ Len(tail) >= RingSize)
    <3>1. upto = logged
      <4>1. Len(emitted) = 0 /\ Len(channel) = 0
        BY <2>5, EmptySeq DEF Quiet
      <4>2. ASSUME upto < logged PROVE FALSE
        <5>1. logged \in (upto + Len(emitted) + Len(channel) + 1)..logged
          BY <2>2, <4>1, <4>2
        <5>2. PICK w \in Writer : writing[w] = logged
          BY <2>1, <5>1 DEF OnTheirWay
        <5> QED
          BY <2>5, <5>2 DEF Quiet, NoLine
      <4> QED
        BY <2>2, <4>2
    <3>2. Len(tail) >= logged \/ Len(tail) >= RingSize
      BY <2>2, <2>3, <2>5, <3>1
    <3>3. Len(tail) \in 1..Len(tail)
      BY <2>2, <2>5, <3>2
    <3>4. tail[Len(tail)] = upto - Len(tail) + Len(tail)
      BY <2>3, <3>3 DEF Run
    <3>5. tail # <<>>
      BY <3>3, EmptySeq
    <3> QED
      BY <2>2, <3>1, <3>2, <3>4, <3>5 DEF Last
  <2> QED
    BY <2>4, <2>5 DEF tail
<1> QED
  BY <1>1, LogInitHolds, LogStep, PTL DEF LogSpec

--------------------------------------------------------------------------------
(* The tables of a catalogue.                                              *)

IsList(s) == Len(s) \in Nat /\ DOMAIN s = 1..Len(s)

LEMMA ListIsList == ASSUME NEW S, NEW s \in Seq(S) PROVE IsList(s)
  BY LenProperties DEF IsList

LEMMA EmptyIsList == IsList(<<>>) /\ Len(<<>>) = 0
<1>1. <<>> \in Seq({})
  BY EmptySeq
<1> QED
  BY <1>1, ListIsList, EmptySeq

LEMMA GreatestOf ==
  ASSUME NEW n \in Nat, NEW T, T \subseteq 1..n, T # {}
  PROVE  Max(T) \in T /\ \A k \in T : k <= Max(T)
<1>1. T \subseteq 0..n
  OBVIOUS
<1>2. PICK m \in T : \A k \in T : k <= m
  BY <1>1, HasGreatest
<1>3. \E m2 \in T : \A k \in T : m2 >= k
  BY <1>1, <1>2
<1>4. Max(T) \in T /\ \A k \in T : Max(T) >= k
  BY <1>3 DEF Max
<1> QED
  BY <1>1, <1>4

\* A table with the entry of one more position.
With(K, key, value, table, n) ==
  IF n \in K THEN [k \in DOMAIN table \cup {key[n]} |-> IF k = key[n] THEN value[n] ELSE table[k]]
  ELSE table

Fills(u, K, key, value, m) ==
  u = [n \in 0..m |-> IF n = 0 THEN <<>> ELSE With(K, key, value, u[n - 1], n)]

LEMMA FilledIsFilled ==
  ASSUME NEW K, NEW key, NEW value, Len(value) \in Nat
  PROVE  \E u : Fills(u, K, key, value, Len(value)) /\ Filled(K, key, value) = u[Len(value)]
<1> DEFINE N == Len(value)
           Bad == {m \in 0..N : ~ \E u : Fills(u, K, key, value, m)}
<1> HIDE DEF N
<1>0. N \in Nat
  BY DEF N
<1>1. \E u : Fills(u, K, key, value, 0)
  <2> DEFINE u == [n \in 0..0 |-> <<>>]
  <2>1. Fills(u, K, key, value, 0)
    BY DEF Fills
  <2> QED
    BY <2>1
<1>2. ASSUME NEW m \in 0..N, m # 0, NEW v, Fills(v, K, key, value, m - 1)
      PROVE  \E u : Fills(u, K, key, value, m)
  <2> DEFINE put == With(K, key, value, v[m - 1], m)
             u == [n \in 0..m |-> IF n = m THEN put ELSE v[n]]
  <2> HIDE DEF put
  <2>1. \A n \in 0..(m - 1) : u[n] = v[n]
    BY <1>0, <1>2
  <2>2. \A n \in 0..(m - 1) : v[n] = IF n = 0 THEN <<>> ELSE With(K, key, value, v[n - 1], n)
    BY <1>2 DEF Fills
  <2>3. u[m] = put
    BY <1>0, <1>2
  <2>4. u = [n \in 0..m |-> u[n]]
    OBVIOUS
  <2> HIDE DEF u
  <2>5. ASSUME NEW n \in 0..m
        PROVE  u[n] = IF n = 0 THEN <<>> ELSE With(K, key, value, u[n - 1], n)
    <3>1. CASE n = m
      <4>1. n - 1 \in 0..(m - 1)
        BY <1>0, <1>2, <3>1
      <4> QED
        BY <1>2, <2>1, <2>3, <3>1, <4>1 DEF put
    <3>2. CASE n # m /\ n # 0
      <4>1. n \in 0..(m - 1) /\ n - 1 \in 0..(m - 1)
        BY <1>0, <1>2, <3>2
      <4> QED
        BY <2>1, <2>2, <3>2, <4>1
    <3>3. CASE n = 0
      <4>1. n \in 0..(m - 1)
        BY <1>0, <1>2, <3>3
      <4> QED
        BY <2>1, <2>2, <3>3, <4>1
    <3> QED
      BY <3>1, <3>2, <3>3
  <2>6. Fills(u, K, key, value, m)
    BY <2>4, <2>5 DEF Fills
  <2> QED
    BY <2>6
<1>3. Bad = {}
  <2> SUFFICES ASSUME Bad # {} PROVE FALSE
    OBVIOUS
  <2>1. Bad \subseteq Nat
    BY <1>0
  <2>2. PICK m \in Bad : \A k \in Bad : m <= k
    BY <2>1, HasLeast
  <2>3. m \in 0..N /\ ~ \E u : Fills(u, K, key, value, m)
    OBVIOUS
  <2>4. m # 0
    BY <1>1, <2>3
  <2>5. m - 1 \in 0..N /\ ~(m <= m - 1)
    BY <1>0, <2>3, <2>4
  <2>6. m - 1 \notin Bad
    BY <2>2, <2>5
  <2>7. \E u : Fills(u, K, key, value, m - 1)
    BY <2>5, <2>6
  <2> QED
    BY <1>2, <2>3, <2>4, <2>7
<1>4. \E u : Fills(u, K, key, value, N)
  <2>1. N \in 0..N
    BY <1>0
  <2> SUFFICES ASSUME ~ \E u : Fills(u, K, key, value, N) PROVE FALSE
    OBVIOUS
  <2>2. N \in Bad
    BY <2>1
  <2> QED
    BY <1>3, <2>2
<1> DEFINE w == CHOOSE u : Fills(u, K, key, value, N)
<1>5. Fills(w, K, key, value, N)
  BY <1>4
<1>6. Filled(K, key, value) = w[N]
  BY DEF Filled, Fills, With, N
<1> QED
  BY <1>5, <1>6 DEF N

\* The positions of K at which an entry has key k.
Under(K, key, value, k) == {m \in K \cap (1..Len(value)) : key[m] = k}

\* A table has the keys of the entries put in, each with the put of its entries.
LEMMA FilledHas ==
  ASSUME NEW K, NEW key, NEW value, Len(value) \in Nat, NEW k, NEW M, M = Under(K, key, value, k)
  PROVE  /\ k \in DOMAIN Filled(K, key, value) <=> M # {}
         /\ M # {} => Filled(K, key, value)[k] = value[Max(M)]
<1> DEFINE N == Len(value)
<1>0. N \in Nat
  OBVIOUS
<1>1. PICK u : Fills(u, K, key, value, N) /\ Filled(K, key, value) = u[N]
  BY FilledIsFilled
<1> HIDE DEF N
<1>2. u[0] = <<>> /\ \A n \in 1..N : u[n] = With(K, key, value, u[n - 1], n)
  <2>1. \A n \in 0..N : u[n] = IF n = 0 THEN <<>> ELSE With(K, key, value, u[n - 1], n)
    BY <1>1 DEF Fills
  <2> QED
    BY <1>0, <2>1
<1> DEFINE At(n) == {m \in K \cap (1..n) : key[m] = k}
           Right(n) == /\ k \in DOMAIN u[n] <=> At(n) # {}
                       /\ At(n) # {} => u[n][k] = value[Max(At(n))]
           Bad == {n \in 0..N : ~Right(n)}
<1>3. Right(0)
  <2>1. At(0) = {} /\ DOMAIN u[0] = {}
    BY <1>2
  <2> QED
    BY <2>1
<1>4. ASSUME NEW n \in 1..N, Right(n - 1) PROVE Right(n)
  <2>0. n \in Nat /\ n - 1 \in Nat /\ 1..n = (1..(n - 1)) \cup {n} /\ n \notin 1..(n - 1)
    BY <1>0
  <2>1. CASE n \in K /\ key[n] = k
    <3>1. At(n) = At(n - 1) \cup {n} /\ At(n) \subseteq 1..n /\ n \in At(n)
      BY <2>0, <2>1
    <3>2. u[n] = [j \in DOMAIN u[n - 1] \cup {k} |-> IF j = k THEN value[n] ELSE u[n - 1][j]]
      BY <1>2, <2>1 DEF With
    <3>3. Max(At(n)) = n
      <4> HIDE DEF At
      <4>1. Max(At(n)) \in At(n) /\ n <= Max(At(n))
        BY <2>0, <3>1, GreatestOf
      <4>2. Max(At(n)) \in 1..n
        BY <3>1, <4>1
      <4> QED
        BY <2>0, <4>1, <4>2
    <3> HIDE DEF At
    <3> QED
      BY <3>1, <3>2, <3>3
  <2>2. CASE ~(n \in K /\ key[n] = k)
    <3>1. At(n) = At(n - 1)
      BY <2>0, <2>2
    <3>2. /\ k \in DOMAIN u[n] <=> k \in DOMAIN u[n - 1]
          /\ k \in DOMAIN u[n - 1] => u[n][k] = u[n - 1][k]
      <4>1. CASE n \in K
        <5>1. u[n] = [j \in DOMAIN u[n - 1] \cup {key[n]} |->
                        IF j = key[n] THEN value[n] ELSE u[n - 1][j]]
          BY <1>2, <4>1 DEF With
        <5> QED
          BY <2>2, <4>1, <5>1
      <4>2. CASE n \notin K
        BY <1>2, <4>2 DEF With
      <4> QED
        BY <4>1, <4>2
    <3> HIDE DEF At
    <3> QED
      BY <1>4, <3>1, <3>2
  <2> QED
    BY <2>1, <2>2
<1> HIDE DEF Right
<1>5. Right(N)
  <2>1. N \in 0..N
    BY <1>0
  <2> SUFFICES ASSUME ~Right(N) PROVE FALSE
    OBVIOUS
  <2>2. Bad # {} /\ Bad \subseteq Nat
    BY <1>0, <2>1
  <2>3. PICK n \in Bad : \A j \in Bad : n <= j
    BY <2>2, HasLeast
  <2>4. n \in 0..N /\ ~Right(n)
    OBVIOUS
  <2>5. n # 0
    BY <1>3, <2>4
  <2>6. n \in 1..N /\ n - 1 \in 0..N /\ ~(n <= n - 1)
    BY <1>0, <2>4, <2>5
  <2>7. Right(n - 1)
    BY <2>3, <2>6
  <2> QED
    BY <1>4, <2>4, <2>6, <2>7
<1>6. M = At(N)
  BY DEF N, Under
<1> HIDE DEF At
<1> QED
  BY <1>1, <1>5, <1>6 DEF Right

\* What a table shows under a key is what the last entry of that key shows.
LEMMA TableShowsLast ==
  ASSUME NEW K, NEW key, NEW value, IsList(value), NEW k, NEW M, M = Under(K, key, value, k)
  PROVE  Shows(Filled(K, key, value), k) = LastOf(value, M)
<1>1. Len(value) \in Nat
  BY DEF IsList
<1>2. k \in DOMAIN Filled(K, key, value) <=> M # {}
  BY <1>1, FilledHas
<1>3. M # {} => Filled(K, key, value)[k] = value[Max(M)]
  BY <1>1, FilledHas
<1> QED
  BY <1>2, <1>3 DEF Shows, LastOf

--------------------------------------------------------------------------------
(* The cache and the card that is drawn of it.                             *)

EndpointSet == {"agents", "maps", "tiers", "modes", "cards"}

LEMMA EndpointIs == ToSet(Endpoint) = EndpointSet
  BY DEF ToSet, Endpoint, EndpointSet

Lists(b) ==
  /\ \A e \in EndpointSet : IsList(b[e])
  /\ \A i \in DOMAIN b["tiers"] : IsList(b["tiers"][i])

Answer == [kind : {"list", "garbled", "none"}, list : {<<>>} \cup UNION {Body[e] : e \in EndpointSet}]

\* What has been fetched is what was asked for, in the order of the endpoints.
Fetched ==
  /\ bodies \in Seq(Answer)
  /\ Len(bodies) \in 0..5 /\ DOMAIN bodies = 1..Len(bodies)
  /\ \A i \in 1..Len(bodies) : bodies[i].kind = "list" => bodies[i].list \in Body[Endpoint[i]]

\* The cache is of one refresh, and so is the card, as far as it is drawn.
CardOf(P) ==
  /\ DOMAIN card = {"step", "agentID", "agent", "map", "tier", "card"}
  /\ card.step \in {"card", "map", "tier", "sent"}
  /\ card.step \in {"map", "tier", "sent"} =>
       card.card = PlayerCard(P, Asked.card) /\ card.agent = Agent(P, card.agentID)
  /\ card.step \in {"tier", "sent"} => card.map = Map(P, Asked.map)
  /\ card.step = "sent" => card.tier = Tier(P, Asked.tier)

ContentInv ==
  /\ Fetched
  /\ Lists(good) /\ cat = parseCatalogue(good)
  /\ Lists(drawn)
  /\ snapshot \in {<<>>, <<parseCatalogue(drawn)>>}
  /\ snapshot = <<>> => card = Blank
  /\ CardOf(parseCatalogue(drawn))

LEMMA GatheredIsLists ==
  ASSUME Fetched, AllCame, AllParse
  PROVE  Lists(Gathered)
<1>1. /\ Endpoint[1] = "agents" /\ Endpoint[2] = "maps" /\ Endpoint[3] = "tiers"
      /\ Endpoint[4] = "modes" /\ Endpoint[5] = "cards" /\ DOMAIN Endpoint = 1..5 /\ Len(Endpoint) = 5
  BY DEF Endpoint
<1>2. Len(bodies) = 5 /\ DOMAIN bodies = 1..5
  BY <1>1 DEF AllCame, Fetched
<1>3. \A i \in 1..5 : bodies[i].list \in Body[Endpoint[i]]
  BY <1>2 DEF Fetched, AllParse
<1>4. ASSUME NEW e \in EndpointSet PROVE Gathered[e] \in Body[e]
  <2>1. PICK i \in 1..5 : Endpoint[i] = e
    BY <1>1, <1>4 DEF EndpointSet
  <2> DEFINE j == CHOOSE k \in DOMAIN Endpoint : Endpoint[k] = e
  <2>2. j \in 1..5 /\ Endpoint[j] = e
    BY <1>1, <2>1
  <2>3. Gathered[e] = bodies[j].list
    BY EndpointIs DEF Gathered
  <2> QED
    BY <1>3, <2>2, <2>3
<1>5. DOMAIN Body = EndpointSet
  BY ContentAssumption, EndpointIs DEF ContentAssumption
<1>6. \A e \in EndpointSet : IsList(Gathered[e])
  BY <1>4, <1>5, ContentAssumption, ListIsList DEF ContentAssumption
<1>7. Gathered["tiers"] \in Body["tiers"]
  BY <1>4 DEF EndpointSet
<1>8. \A i \in DOMAIN Gathered["tiers"] : IsList(Gathered["tiers"][i])
  BY <1>7, ContentAssumption, ListIsList DEF ContentAssumption
<1> QED
  BY <1>6, <1>8 DEF Lists

LEMMA FilledOfNone == ASSUME NEW K, NEW key PROVE Filled(K, key, <<>>) = <<>>
<1>1. PICK u : Fills(u, K, key, <<>>, 0) /\ Filled(K, key, <<>>) = u[0]
  BY EmptyIsList, FilledIsFilled DEF IsList
<1> QED
  BY <1>1 DEF Fills

LEMMA NoBodiesAreEmpty ==
  /\ Lists(NoBodies)
  /\ parseCatalogue(NoBodies) = EmptyTables
<1>1. \A e \in EndpointSet : NoBodies[e] = <<>>
  BY EndpointIs DEF NoBodies
<1>2. /\ NoBodies["agents"] = <<>> /\ NoBodies["maps"] = <<>> /\ NoBodies["tiers"] = <<>>
      /\ NoBodies["modes"] = <<>> /\ NoBodies["cards"] = <<>>
  BY <1>1 DEF EndpointSet
<1>3. Lists(NoBodies)
  <2>1. DOMAIN NoBodies["tiers"] = {}
    BY <1>2, EmptyIsList
  <2> QED
    BY <1>1, <2>1, EmptyIsList DEF Lists
<1>4. DOMAIN <<>> = {}
  OBVIOUS
<1>5. currentTiers(NoBodies["tiers"]) = <<>>
  BY <1>2 DEF currentTiers
<1>6. \A K, f : Filled(K, f, <<>>) = <<>>
  BY FilledOfNone
<1>7. [i \in DOMAIN <<>> |-> <<>>[i].key] = <<>>
  OBVIOUS
<1>8. parseCatalogue(NoBodies) = EmptyTables
  BY <1>2, <1>5, <1>6, <1>7 DEF parseCatalogue, EmptyTables
<1> QED
  BY <1>3, <1>8

\* What is looked up in a catalogue is what the last entry under that key shows.
LEMMA MapIsLast ==
  ASSUME NEW b, Lists(b), NEW k, NEW M,
         M = {i \in DOMAIN b["maps"] : b["maps"][i].key # NoKey /\ b["maps"][i].key.names = k.names}
  PROVE  Map(parseCatalogue(b), k) = LastOf(b["maps"], M)
<1> DEFINE list == b["maps"]
           K == {i \in DOMAIN list : list[i].key # NoKey}
           keys == [i \in DOMAIN list |-> foldKey(list[i].key)]
<1>1. IsList(list)
  BY DEF Lists, EndpointSet
<1>2. parseCatalogue(b).maps = Filled(K, keys, list)
  BY DEF parseCatalogue
<1>3. M = Under(K, keys, list, foldKey(k))
  BY <1>1 DEF Under, foldKey, IsList
<1> HIDE DEF K, keys, list
<1>4. Shows(Filled(K, keys, list), foldKey(k)) = LastOf(list, M)
  <2>1. \A j, T : T = Under(K, keys, list, j) => Shows(Filled(K, keys, list), j) = LastOf(list, T)
    BY <1>1, TableShowsLast
  <2> QED
    BY <1>3, <2>1
<1>5. Map(parseCatalogue(b), k) = LastOf(list, M)
  BY <1>2, <1>4 DEF Map
<1> QED
  BY <1>5 DEF list

LEMMA AgentIsLast ==
  ASSUME NEW b, Lists(b), NEW k, NEW M,
         M = {i \in DOMAIN b["agents"] : b["agents"][i].key.names = k.names}
  PROVE  Agent(parseCatalogue(b), k) = LastOf(b["agents"], M)
<1> DEFINE list == b["agents"]
           K == DOMAIN list
           keys == [i \in DOMAIN list |-> foldKey(list[i].key)]
<1>1. IsList(list)
  BY DEF Lists, EndpointSet
<1>2. parseCatalogue(b).agents = Filled(K, keys, list)
  BY DEF parseCatalogue
<1>3. M = Under(K, keys, list, foldKey(k))
  BY <1>1 DEF Under, foldKey, IsList
<1> HIDE DEF K, keys, list
<1>4. Shows(Filled(K, keys, list), foldKey(k)) = LastOf(list, M)
  <2>1. \A j, T : T = Under(K, keys, list, j) => Shows(Filled(K, keys, list), j) = LastOf(list, T)
    BY <1>1, TableShowsLast
  <2> QED
    BY <1>3, <2>1
<1>5. Agent(parseCatalogue(b), k) = LastOf(list, M)
  BY <1>2, <1>4 DEF Agent
<1> QED
  BY <1>5 DEF list

LEMMA PlayerCardIsLast ==
  ASSUME NEW b, Lists(b), NEW k, NEW M,
         M = {i \in DOMAIN b["cards"] : b["cards"][i].key.names = k.names}
  PROVE  PlayerCard(parseCatalogue(b), k) = LastOf(b["cards"], M)
<1> DEFINE list == b["cards"]
           K == DOMAIN list
           keys == [i \in DOMAIN list |-> foldKey(list[i].key)]
<1>1. IsList(list)
  BY DEF Lists, EndpointSet
<1>2. parseCatalogue(b).cards = Filled(K, keys, list)
  BY DEF parseCatalogue
<1>3. M = Under(K, keys, list, foldKey(k))
  BY <1>1 DEF Under, foldKey, IsList
<1> HIDE DEF K, keys, list
<1>4. Shows(Filled(K, keys, list), foldKey(k)) = LastOf(list, M)
  <2>1. \A j, T : T = Under(K, keys, list, j) => Shows(Filled(K, keys, list), j) = LastOf(list, T)
    BY <1>1, TableShowsLast
  <2> QED
    BY <1>3, <2>1
<1>5. PlayerCard(parseCatalogue(b), k) = LastOf(list, M)
  BY <1>2, <1>4 DEF PlayerCard
<1> QED
  BY <1>5 DEF list

\* Of the tables of the tiers the last counts.
LastTable(tables) == IF tables = <<>> THEN <<>> ELSE tables[Len(tables)]

LEMMA TierIsLast ==
  ASSUME NEW b, Lists(b), NEW k, NEW table, table = LastTable(b["tiers"]), NEW M,
         M = {i \in DOMAIN table : /\ table[i].tier = k /\ table[i].division # "INVALID"}
  PROVE  Tier(parseCatalogue(b), k) = LastOf(table, M)
<1> DEFINE K == {i \in DOMAIN table : table[i].division # "INVALID"}
           keys == [i \in DOMAIN table |-> table[i].tier]
<1>0. currentTiers(b["tiers"]) = table
  BY DEF currentTiers, LastTable, Last
<1>1. IsList(table)
  <2>1. CASE b["tiers"] = <<>>
    BY <2>1, EmptyIsList DEF LastTable
  <2>2. CASE b["tiers"] # <<>>
    <3>1. IsList(b["tiers"])
      BY DEF Lists, EndpointSet
    <3>2. CASE Len(b["tiers"]) \in DOMAIN b["tiers"]
      BY <2>2, <3>2 DEF LastTable, Lists
    <3>3. CASE Len(b["tiers"]) = 0
      <4>1. b["tiers"] = <<>>
        BY <3>1, <3>3 DEF IsList, Lists
      <4> QED
        BY <2>2, <4>1
    <3> QED
      BY <3>1, <3>2, <3>3 DEF IsList
  <2> QED
    BY <2>1, <2>2
<1>2. parseCatalogue(b).tiers = Filled(K, keys, table)
  <2> QED
    BY <1>0 DEF parseCatalogue
<1>3. M = Under(K, keys, table, k)
  BY <1>1 DEF Under, IsList
<1> HIDE DEF K, keys
<1>4. Shows(Filled(K, keys, table), k) = LastOf(table, M)
  <2>1. \A j, T : T = Under(K, keys, table, j) => Shows(Filled(K, keys, table), j) = LastOf(table, T)
    BY <1>1, TableShowsLast
  <2> QED
    BY <1>3, <2>1
<1>5. Tier(parseCatalogue(b), k) = LastOf(table, M)
  BY <1>2, <1>4 DEF Tier
<1> QED
  BY <1>5

--------------------------------------------------------------------------------
(* Every step keeps the invariant.                                         *)

LEMMA ContentInitHolds == ContentInit => ContentInv
<1> SUFFICES ASSUME ContentInit PROVE ContentInv
  OBVIOUS
<1>1. bodies = <<>> /\ cat = EmptyTables /\ good = NoBodies /\ snapshot = <<>> /\ card = Blank
      /\ drawn = NoBodies
  BY DEF ContentInit
<1>2. Fetched
  BY <1>1, EmptyIsList, EmptySeq DEF Fetched, IsList
<1>3. CardOf(parseCatalogue(drawn))
  BY <1>1 DEF CardOf, Blank
<1> QED
  BY <1>1, <1>2, <1>3, NoBodiesAreEmpty DEF ContentInv

LEMMA FetchedKeeps == Fetched /\ ContentNext => Fetched'
<1> SUFFICES ASSUME Fetched, ContentNext PROVE Fetched'
  OBVIOUS
<1>1. CASE bodies' = <<>>
  <2>1. Len(<<>>) = 0 /\ DOMAIN <<>> = 1..0
    BY EmptyIsList DEF IsList
  <2> QED
    BY <1>1, <2>1, EmptySeq DEF Fetched
<1>2. CASE bodies' = bodies
  BY <1>2 DEF Fetched
<1>3. CASE get
  <2>1. PICK b \in [kind : {"list"}, list : Body[Endpoint[Len(bodies) + 1]]]
                  \cup [kind : {"garbled", "none"}, list : {<<>>}] : bodies' = Append(bodies, b)
    BY <1>3 DEF get
  <2>2. Len(Endpoint) = 5
    BY DEF Endpoint
  <2> DEFINE n == Len(bodies)
  <2>3. n \in 0..4 /\ DOMAIN bodies = 1..n
    BY <1>3, <2>2 DEF get, Fetched
  <2>4. bodies \in Seq(Answer) /\ b \in Answer
    <3>1. Endpoint[n + 1] \in EndpointSet
      <4> HIDE DEF n
      <4>0. n \in 0..4
        BY <2>3
      <4>1. n + 1 \in 1..5
        BY <4>0
      <4> QED
        BY <4>1 DEF Endpoint, EndpointSet
    <3>2. b.list \in {<<>>} \cup UNION {Body[e] : e \in EndpointSet}
      BY <2>1, <3>1
    <3>3. b = [kind |-> b.kind, list |-> b.list] /\ b.kind \in {"list", "garbled", "none"}
      BY <2>1
    <3> QED
      BY <3>2, <3>3 DEF Answer, Fetched
  <2>5. /\ Len(bodies') = n + 1 /\ DOMAIN bodies' = 1..(n + 1)
        /\ \A i \in 1..n : bodies'[i] = bodies[i]
        /\ bodies'[n + 1] = b /\ bodies' \in Seq(Answer)
    BY <2>1, <2>4, AppendProperties
  <2>6. b.kind = "list" => b.list \in Body[Endpoint[n + 1]]
    BY <2>1
  <2> HIDE DEF n
  <2>7. \A i \in 1..(n + 1) : i \in 1..n \/ i = n + 1
    BY <2>3
  <2>8. \A i \in 1..(n + 1) : bodies'[i].kind = "list" => bodies'[i].list \in Body[Endpoint[i]]
    BY <2>5, <2>6, <2>7 DEF Fetched, n
  <2>9. Len(bodies') \in 0..5 /\ DOMAIN bodies' = 1..Len(bodies')
    BY <2>3, <2>5
  <2> QED
    BY <2>5, <2>8, <2>9 DEF Fetched
<1>4. bodies' = <<>> \/ bodies' = bodies \/ get
  BY DEF ContentNext, Refresh, Replaces, logFailure, Lookup, Snapshot, Draws, SendsCard, cacheVars
<1> QED
  BY <1>1, <1>2, <1>3, <1>4

LEMMA ContentStep == ContentInv /\ [ContentNext]_contentVars => ContentInv'
<1> SUFFICES ASSUME ContentInv, [ContentNext]_contentVars PROVE ContentInv'
  OBVIOUS
<1>1. CASE UNCHANGED contentVars
  <2>1. UNCHANGED <<bodies, refreshing, cat, good, agentID, snapshot, card, drawn>>
    BY <1>1 DEF contentVars, cacheVars, cardVars
  <2>2. Fetched' /\ Lists(good)' /\ Lists(drawn)' /\ CardOf(parseCatalogue(drawn))'
    BY <2>1 DEF ContentInv, Fetched, Lists, CardOf
  <2> QED
    BY <2>1, <2>2 DEF ContentInv
<1> SUFFICES ASSUME ContentNext PROVE ContentInv'
  BY <1>1
<1>2. Fetched'
  BY FetchedKeeps DEF ContentInv
<1>3. CASE Refresh \/ get \/ logFailure \/ Lookup
  <2>1. UNCHANGED <<cat, good, snapshot, card, drawn>>
    BY <1>3 DEF Refresh, get, logFailure, Lookup, cacheVars, cardVars
  <2>2. Lists(good)' /\ Lists(drawn)' /\ CardOf(parseCatalogue(drawn))'
    BY <2>1 DEF ContentInv, Lists, CardOf
  <2> QED
    BY <1>2, <2>1, <2>2 DEF ContentInv
<1>4. CASE Replaces
  <2>1. good' = Gathered /\ cat' = parseCatalogue(Gathered) /\ UNCHANGED <<snapshot, card, drawn>>
    BY <1>4 DEF Replaces, cardVars
  <2>2. Lists(Gathered)
    BY <1>4, GatheredIsLists DEF Replaces, ContentInv
  <2>3. Lists(good') /\ cat' = parseCatalogue(good')
    BY <2>1, <2>2
  <2>4. Lists(good)'
    BY <2>3 DEF Lists
  <2>5. Lists(drawn)' /\ CardOf(parseCatalogue(drawn))'
    BY <2>1 DEF ContentInv, Lists, CardOf
  <2> QED
    BY <1>2, <2>1, <2>3, <2>4, <2>5 DEF ContentInv
<1>5. CASE Snapshot
  <2>1. /\ snapshot' = <<cat>> /\ drawn' = good /\ card' = [Blank EXCEPT !.agentID = agentID]
        /\ UNCHANGED <<cat, good>>
    BY <1>5 DEF Snapshot, cacheVars
  <2>2. snapshot' = <<parseCatalogue(drawn')>>
    BY <2>1 DEF ContentInv
  <2>3. snapshot' # <<>>
    BY <2>1
  <2>4. CardOf(parseCatalogue(drawn))'
    BY <2>1 DEF CardOf, Blank
  <2>5. Lists(good)' /\ Lists(drawn)'
    BY <2>1 DEF ContentInv, Lists
  <2> QED
    BY <1>2, <2>1, <2>2, <2>3, <2>4, <2>5 DEF ContentInv
<1>6. CASE Draws
  <2> DEFINE P == parseCatalogue(drawn)
  <2>1. snapshot # <<>> /\ UNCHANGED <<cat, good, snapshot, drawn>>
    BY <1>6 DEF Draws, cacheVars
  <2>2. snapshot[1] = P
    BY <2>1 DEF ContentInv
  <2>3. CardOf(P)
    BY DEF ContentInv
  <2> HIDE DEF P
  <2>4. \/ card.step = "card" /\ card' =
              [card EXCEPT !.step = "map", !.card = PlayerCard(P, Asked.card),
                           !.agent = Agent(P, card.agentID)]
        \/ card.step = "map" /\ card' = [card EXCEPT !.step = "tier", !.map = Map(P, Asked.map)]
        \/ card.step = "tier" /\ card' = [card EXCEPT !.step = "sent", !.tier = Tier(P, Asked.tier)]
    BY <1>6, <2>2 DEF Draws
  <2>5. /\ DOMAIN card' = {"step", "agentID", "agent", "map", "tier", "card"}
        /\ card'.step \in {"card", "map", "tier", "sent"}
        /\ card'.step \in {"map", "tier", "sent"} =>
             card'.card = PlayerCard(P, Asked.card) /\ card'.agent = Agent(P, card'.agentID)
        /\ card'.step \in {"tier", "sent"} => card'.map = Map(P, Asked.map)
        /\ card'.step = "sent" => card'.tier = Tier(P, Asked.tier)
    <3>1. CASE card.step = "card" /\ card' =
              [card EXCEPT !.step = "map", !.card = PlayerCard(P, Asked.card),
                           !.agent = Agent(P, card.agentID)]
      BY <2>3, <3>1 DEF CardOf
    <3>2. CASE card.step = "map" /\ card' = [card EXCEPT !.step = "tier", !.map = Map(P, Asked.map)]
      BY <2>3, <3>2 DEF CardOf
    <3>3. CASE card.step = "tier" /\ card' = [card EXCEPT !.step = "sent", !.tier = Tier(P, Asked.tier)]
      BY <2>3, <3>3 DEF CardOf
    <3> QED
      BY <2>4, <3>1, <3>2, <3>3
  <2>6. P' = P
    BY <2>1 DEF P
  <2>7. CardOf(P)'
    BY <2>5, <2>6 DEF CardOf
  <2>8. Lists(good)' /\ Lists(drawn)'
    BY <2>1 DEF ContentInv, Lists
  <2> QED
    BY <1>2, <2>1, <2>7, <2>8 DEF ContentInv, P
<1>7. CASE SendsCard
  <2>1. card' = Blank /\ snapshot' = <<>> /\ drawn' = NoBodies /\ UNCHANGED <<cat, good>>
    BY <1>7 DEF SendsCard, cacheVars
  <2>2. CardOf(parseCatalogue(drawn))'
    BY <2>1 DEF CardOf, Blank
  <2>3. Lists(good)' /\ Lists(drawn)'
    BY <2>1, NoBodiesAreEmpty DEF ContentInv, Lists
  <2> QED
    BY <1>2, <2>1, <2>2, <2>3 DEF ContentInv
<1> QED
  BY <1>3, <1>4, <1>5, <1>6, <1>7 DEF ContentNext

\* "a half-loaded catalogue is never published": whatever a card shows, its map,
\* its agent, its tier and its picture, is what the last entry of that name says
\* in the five lists one refresh brought, for lists of any length and refreshes
\* that fail or overlap with the card in any way (Cache.Refresh, parseCatalogue,
\* executeUpdate).
THEOREM CardStaysOfOneRefresh == ContentSpec => []CardIsOfOneRefresh
<1>1. ContentInv => CardIsOfOneRefresh
  <2> SUFFICES ASSUME ContentInv, card.step = "sent" PROVE CardIsOfOneRefresh
    BY DEF CardIsOfOneRefresh
  <2> DEFINE P == parseCatalogue(drawn)
             maps == drawn["maps"]
             cards == drawn["cards"]
             agents == drawn["agents"]
             tables == drawn["tiers"]
             tiers == IF tables = <<>> THEN <<>> ELSE tables[Len(tables)]
  <2>1. Lists(drawn) /\ CardOf(P)
    BY DEF ContentInv
  <2> HIDE DEF P
  <2>2. /\ card.card = PlayerCard(P, Asked.card) /\ card.agent = Agent(P, card.agentID)
        /\ card.map = Map(P, Asked.map) /\ card.tier = Tier(P, Asked.tier)
    BY <2>1 DEF CardOf
  <2>3. card.map = LastOf(maps, {i \in DOMAIN maps : /\ maps[i].key # NoKey
                                                    /\ maps[i].key.names = Asked.map.names})
    BY <2>1, <2>2, MapIsLast DEF P
  <2>4. card.card = LastOf(cards, {i \in DOMAIN cards : cards[i].key.names = Asked.card.names})
    BY <2>1, <2>2, PlayerCardIsLast DEF P
  <2>5. card.agent = LastOf(agents, {i \in DOMAIN agents :
                                       agents[i].key.names = card.agentID.names})
    BY <2>1, <2>2, AgentIsLast DEF P
  <2>6. card.tier = LastOf(tiers, {i \in DOMAIN tiers : /\ tiers[i].tier = Asked.tier
                                                       /\ tiers[i].division # "INVALID"})
    <3>1. tiers = LastTable(drawn["tiers"])
      BY DEF LastTable
    <3> HIDE DEF tiers
    <3>2. \A M : M = {i \in DOMAIN tiers : /\ tiers[i].tier = Asked.tier
                                          /\ tiers[i].division # "INVALID"}
                   => Tier(P, Asked.tier) = LastOf(tiers, M)
      BY <2>1, <3>1, TierIsLast DEF P
    <3> QED
      BY <2>2, <3>2
  <2> QED
    BY <2>3, <2>4, <2>5, <2>6 DEF CardIsOfOneRefresh
<1> QED
  BY <1>1, ContentInitHolds, ContentStep, PTL DEF ContentSpec

--------------------------------------------------------------------------------
(* The status on the page.                                                 *)

Shot == [phase : Phase \cup {NoPhase}, flags : [Source -> BOOLEAN]]

StatusTypes ==
  /\ source \in [Source -> BOOLEAN] /\ context \in Phase \cup {NoPhase}
  /\ states \in {<<>>} \cup {<<p>> : p \in Phase \cup {NoPhase}} /\ known \in Phase \cup {NoPhase}
  /\ snap \in [{Bridge, Page} -> [open : BOOLEAN, phase : Phase \cup {NoPhase},
                                 left : SUBSET Source, flags : [Source -> BOOLEAN]]]
  /\ sent \in Seq(Shot)

StatusInv ==
  /\ StatusTypes /\ PageIsAtLastEmitted
  /\ asked = "closed" => sent = <<>> /\ ~heard

LEMMA StatusInitHolds == StatusInit => StatusInv
<1> SUFFICES ASSUME StatusInit PROVE StatusInv
  OBVIOUS
<1>1. StatusTypes
  BY EmptySeq DEF StatusInit, StatusTypes, Idle
<1> QED
  BY <1>1 DEF StatusInit, StatusInv, PageIsAtLastEmitted

LEMMA StatusTypesKeep == StatusTypes /\ StatusNext => StatusTypes'
<1> SUFFICES ASSUME StatusTypes, StatusNext PROVE StatusTypes'
  OBVIOUS
<1>0. Idle \in [open : BOOLEAN, phase : Phase \cup {NoPhase}, left : SUBSET Source,
                flags : [Source -> BOOLEAN]]
  BY DEF Idle
<1>1. CASE \E s \in Source : Flips(s)
  BY <1>1 DEF Flips, StatusTypes, readerVars
<1>2. CASE \E p \in Phase : broadcast(p)
  BY <1>2 DEF broadcast, StatusTypes, readerVars
<1>3. CASE Polls
  BY <1>0, <1>3 DEF Polls, Opens, StatusTypes, sourceVars
<1>4. CASE Hears
  <2>1. Head(states) \in Phase \cup {NoPhase}
    BY <1>4 DEF Hears, StatusTypes
  <2>2. known' \in Phase \cup {NoPhase}
    BY <1>4, <2>1 DEF Hears
  <2> QED
    BY <1>0, <1>4, <2>2 DEF Hears, StatusTypes
<1>5. CASE \E r \in {Bridge, Page}, s \in Source : Reads(r, s)
  BY <1>5 DEF Reads, StatusTypes, sourceVars
<1>6. CASE emitIfChanged
  <2>1. Result(Bridge) \in Shot
    BY DEF StatusTypes, Result, Shot
  <2>2. sent' \in Seq(Shot)
    BY <1>6, <2>1, AppendProperties DEF emitIfChanged, StatusTypes
  <2> QED
    BY <1>0, <1>6, <2>2 DEF emitIfChanged, StatusTypes, sourceVars
<1>7. CASE Subscribe
  BY <1>7 DEF Subscribe, StatusTypes, sourceVars, readerVars
<1>8. CASE Opens(Page) /\ UNCHANGED <<sourceVars, known, sent>>
  BY <1>0, <1>8 DEF Opens, StatusTypes, sourceVars
<1>9. CASE setInitial
  BY <1>0, <1>9 DEF setInitial, StatusTypes, sourceVars
<1>10. CASE Listens
  BY <1>10, HeadTailProperties DEF Listens, StatusTypes, sourceVars, readerVars
<1> QED
  BY <1>1, <1>2, <1>3, <1>4, <1>5, <1>6, <1>7, <1>8, <1>9, <1>10 DEF StatusNext, run, GetStatus

LEMMA StatusStep == StatusInv /\ [StatusNext]_statusVars => StatusInv'
<1> SUFFICES ASSUME StatusInv, [StatusNext]_statusVars PROVE StatusInv'
  OBVIOUS
<1>1. StatusTypes'
  <2>1. CASE UNCHANGED statusVars
    BY <2>1 DEF StatusInv, StatusTypes, statusVars, sourceVars, readerVars
  <2> QED
    BY <2>1, StatusTypesKeep DEF StatusInv
<1>2. CASE UNCHANGED <<last, sent, view, heard, asked>>
  BY <1>1, <1>2 DEF StatusInv, PageIsAtLastEmitted
<1>3. CASE emitIfChanged
  <2> DEFINE shot == Result(Bridge)
  <2>1. last' = <<shot>> /\ UNCHANGED <<view, heard, asked>>
    BY <1>3 DEF emitIfChanged, pageStoreVars
  <2>2. CASE sent' = Append(sent, shot) /\ asked # "closed"
    <3>1. shot \in Shot /\ sent \in Seq(Shot)
      BY DEF StatusInv, StatusTypes, Result, Shot
    <3> HIDE DEF shot
    <3>2. sent' # <<>> /\ sent'[Len(sent')] = shot
      BY <2>2, <3>1, AppendProperties
    <3>3. PageIsAtLastEmitted'
      BY <2>1, <3>2 DEF PageIsAtLastEmitted
    <3>4. asked' # "closed"
      BY <2>1, <2>2
    <3> QED
      BY <1>1, <3>3, <3>4 DEF StatusInv
  <2>3. CASE sent' = sent /\ last' = last
    BY <1>1, <2>1, <2>3 DEF StatusInv, PageIsAtLastEmitted
  <2>4. CASE sent' = sent /\ asked = "closed"
    BY <1>1, <2>1, <2>4 DEF StatusInv, PageIsAtLastEmitted
  <2> QED
    BY <1>3, <2>2, <2>3, <2>4 DEF emitIfChanged
<1>4. CASE setInitial
  BY <1>1, <1>4 DEF setInitial, StatusInv, PageIsAtLastEmitted
<1>5. CASE Listens
  <2>1. sent # <<>> /\ view' = <<Head(sent)>> /\ sent' = Tail(sent) /\ UNCHANGED <<last, asked>>
    BY <1>5 DEF Listens, readerVars
  <2>2. sent \in Seq(Shot) /\ last = <<sent[Len(sent)]>> /\ asked # "closed"
    BY <2>1 DEF StatusInv, StatusTypes, PageIsAtLastEmitted
  <2>3. Len(sent) \in Nat \ {0} /\ Len(sent') = Len(sent) - 1
        /\ \A i \in 1..Len(sent') : sent'[i] = sent[i + 1]
    BY <2>1, <2>2, EmptySeq, LenProperties, HeadTailProperties
  <2>4. sent' \in Seq(Shot)
    BY <2>1, <2>2, HeadTailProperties
  <2>5. ASSUME sent' # <<>> PROVE sent'[Len(sent')] = sent[Len(sent)]
    <3>1. Len(sent') \in 1..Len(sent') /\ Len(sent') + 1 = Len(sent)
      BY <2>3, <2>4, <2>5, EmptySeq, LenProperties
    <3> QED
      BY <2>3, <3>1
  <2>6. ASSUME sent' = <<>> PROVE Head(sent) = sent[Len(sent)]
    <3>1. Len(sent) = 1
      BY <2>3, <2>6, EmptySeq
    <3> QED
      BY <2>1, <2>2, <3>1
  <2>7. PageIsAtLastEmitted'
    BY <2>1, <2>2, <2>5, <2>6 DEF PageIsAtLastEmitted
  <2> QED
    BY <1>1, <2>1, <2>2, <2>7 DEF StatusInv
<1>6. CASE StatusNext /\ ~emitIfChanged /\ ~setInitial /\ ~Listens
  <2>1. UNCHANGED <<last, sent, view, heard>> /\ (asked' = "closed" => asked = "closed")
    BY <1>6 DEF StatusNext, run, GetStatus, Flips, broadcast, Polls, Hears, Reads, Subscribe,
                readerVars, pageStoreVars
  <2> QED
    BY <1>1, <2>1 DEF StatusInv, PageIsAtLastEmitted
<1> QED
  BY <1>2, <1>3, <1>4, <1>5, <1>6 DEF statusVars, readerVars, pageStoreVars

\* "Without the guard a slow fetch overwrites the newer value": once an event has
\* come and none is on its way, the page shows what the bridge emitted last, for
\* any flags and contexts and however snapshots and changes interleave
\* (createExternalStore.ts, statusBridge).
THEOREM PageStaysAtLastEmitted == StatusSpec => []PageIsAtLastEmitted
<1>1. StatusInv => PageIsAtLastEmitted
  BY DEF StatusInv
<1> QED
  BY <1>1, StatusInitHolds, StatusStep, PTL DEF StatusSpec
================================================================================
