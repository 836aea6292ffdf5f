---------------------------- MODULE BayIntervals ----------------------------
(***************************************************************************)
(* The interval arithmetic of modules/appointments/bayAvailability.ts: how *)
(* the booked intervals of a bay become the windows and start times the    *)
(* reception is offered, and the check that decides in the end.  A time is *)
(* a number of steps; an interval is half open.                            *)
(***************************************************************************)
EXTENDS Integers, SequencesExt

LOCAL BySmallerStart(a, b) == a.start < b.start

Overlaps(a, b) == a.start < b.end /\ a.end > b.start

\* One step of the merge: an interval that touches the last one extends it.
MergeStep(out, iv) ==
  IF out # <<>> /\ iv.start <= Last(out).end
    THEN [out EXCEPT ![Len(out)].end = IF iv.end > @ THEN iv.end ELSE @]
    ELSE Append(out, iv)

MergeIntervals(intervals) == FoldLeft(MergeStep, <<>>, SetToSortSeq(intervals, BySmallerStart))

\* The opening hours less the booked intervals, each cut to them.
FreeWindows(open, close, booked) ==
  LET cut(b) == [start |-> IF b.start > open THEN b.start ELSE open,
                 end   |-> IF b.end < close THEN b.end ELSE close]
      merged == MergeIntervals({b \in {cut(x) : x \in booked} : b.end > b.start})
      after(i) == IF i = 0 THEN open ELSE merged[i].end
      before(i) == IF i = Len(merged) THEN close ELSE merged[i + 1].start
  IN {[start |-> after(i), end |-> before(i)] :
        i \in {j \in 0 .. Len(merged) : after(j) < before(j)}}

DurationFits(start, length, windows) ==
  \E w \in windows : start >= w.start /\ start + length <= w.end

\* The start times offered: steps of the slot interval from each window's start.
StartSlots(windows, interval) ==
  UNION {{s \in w.start .. w.end : (s - w.start) % interval = 0 /\ s + interval <= w.end} : w \in windows}

ValidBayInterval(start, length, booked, open, close) ==
  /\ start >= open
  /\ start + length <= close
  /\ \A b \in booked : ~Overlaps([start |-> start, end |-> start + length], b)

-----------------------------------------------------------------------------
\* What the reception is offered (freeWindows, durationFits, generateStartSlots) is what
\* the check at the end (validateBayInterval) accepts, and nothing less.
OfferedIsBookable(booked, open, close) ==
  LET free == FreeWindows(open, close, booked)
  IN \A length \in 1 .. close - open, start \in open .. close :
       /\ DurationFits(start, length, free) <=> ValidBayInterval(start, length, booked, open, close)
       /\ start \in StartSlots(free, length) => DurationFits(start, length, free)
=============================================================================
