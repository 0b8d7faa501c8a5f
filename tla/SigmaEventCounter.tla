-------------------------- MODULE SigmaEventCounter -------------------------
(***************************************************************************)
(* EventCounter of the live mode and the enrichment of an alert from it:   *)
(* one group of events with the same signature.  Times are ticks; the      *)
(* counter's window is WindowSize ticks.                                   *)
(***************************************************************************)
EXTENDS Integers, Sequences, SequencesExt, FiniteSets

CONSTANTS
    WindowSize,
    countThreshold,         \* of the enricher
    HighCount, MidCount,    \* AdjustConfidence: 50 and 10
    Confidence,             \* of the alert before it, in thousandths
    MaxTime, MaxEvents      \* bounds of the model

VARIABLES
    time,
    group,         \* Occurrences, FirstSeen and LastSeen of the group
    history,       \* every occurrence, oldest first
    enriched       \* the statistics in the last enhanced alert

vars == <<time, group, history, enriched>>

NoGroup == [Occurrences |-> <<>>, FirstSeen |-> 0, LastSeen |-> 0]
NoAlert == [EventCount |-> 0, at |-> 0, FirstSeen |-> 0, LastSeen |-> 0, CountTrend |-> "flat",
            Confidence |-> 0, ShouldEscalate |-> FALSE]

TypeOK ==
    /\ time \in 1 .. MaxTime
    /\ \A i \in 1 .. Len(group.Occurrences) : group.Occurrences[i] \in 1 .. time
    /\ Len(history) <= MaxEvents

Init == time = 1 /\ group = NoGroup /\ history = <<>> /\ enriched = NoAlert

-----------------------------------------------------------------------------
(* Faulty variant: the occurrence at the cutoff goes too. *)
inWindowStrictly(t, now) == t > now - WindowSize

(* An occurrence is kept if it is not Before the cutoff. *)
inWindow(t, now) == t >= now - WindowSize

(* sort.Search: where the occurrences begin that are kept. *)
Cutoff(s, now) ==
    CHOOSE i \in 1 .. Len(s) + 1 :
        (i <= Len(s) => inWindow(s[i], now)) /\ \A j \in 1 .. i - 1 : ~inWindow(s[j], now)

(* FirstSeen moves only if something was dropped and something is left. *)
cleanOldOccurrences(g, now) ==
    LET idx == Cutoff(g.Occurrences, now)
        kept == SubSeq(g.Occurrences, idx, Len(g.Occurrences))
    IN  [g EXCEPT !.Occurrences = kept,
                  !.FirstSeen = IF idx > 1 /\ kept # <<>> THEN kept[1] ELSE @]

(* The sum of the intervals telescopes to last minus first. *)
avgInterval(s) == [num |-> IF Len(s) < 2 THEN 0 ELSE Last(s) - s[1],
                   den |-> IF Len(s) < 2 THEN 1 ELSE Len(s) - 1]

(* The change (first - second) / first, compared with a fifth. *)
calculateTrend(s) ==
    LET mid == Len(s) \div 2
        f == avgInterval(SubSeq(s, 1, mid))
        g == avgInterval(SubSeq(s, mid + 1, Len(s)))
        change == 5 * (f.num * g.den - g.num * f.den)
    IN  CASE Len(s) < 2 \/ f.num = 0 -> "flat"
          [] Len(s) >= 2 /\ f.num > 0 /\ change > f.num * g.den -> "up"
          [] Len(s) >= 2 /\ f.num > 0 /\ change < -(f.num * g.den) -> "down"
          [] OTHER -> "flat"

(* RecordEvent: a new group, or one more occurrence. *)
Recorded(g, now) ==
    cleanOldOccurrences(
        [Occurrences |-> Append(g.Occurrences, now),
         FirstSeen |-> IF g = NoGroup THEN now ELSE g.FirstSeen,
         LastSeen |-> now], now)

(* AdjustConfidence, in thousandths, of an alert with Confidence; at most 1. *)
AdjustConfidence(count, trend) ==
    LET frequency == IF count > HighCount THEN 20 ELSE IF count > MidCount THEN 15 ELSE 10
        rising == IF trend = "up" THEN 13 ELSE 10
        adjusted == (Confidence * frequency * rising) \div 100
    IN  IF adjusted > 1000 THEN 1000 ELSE adjusted

(* CheckEscalation; the rate is the count per window. *)
CheckEscalation(count, trend, critical) ==
    count > countThreshold \/ (trend = "up" /\ count > HighCount) \/ critical

(* EnrichAlert: RecordEvent, GetStatistics, UpdateStatistics,
   AdjustConfidence and CheckEscalation, in one call of processEvents. *)
EnrichAlert(critical) ==
    /\ Len(history) < MaxEvents
    /\ group' = Recorded(group, time)
    /\ LET n == Len(group'.Occurrences)
           trend == calculateTrend(group'.Occurrences)
       IN  enriched' = [EventCount |-> n, at |-> time, FirstSeen |-> group'.FirstSeen,
                        LastSeen |-> group'.LastSeen, CountTrend |-> trend,
                        Confidence |-> AdjustConfidence(n, trend),
                        ShouldEscalate |-> CheckEscalation(n, trend, critical)]
    /\ history' = Append(history, time)
    /\ UNCHANGED time

(* Cleanup, each minute: an empty group is deleted. *)
Cleanup ==
    /\ LET g == cleanOldOccurrences(group, time)
       IN  group' = IF g.Occurrences = <<>> THEN NoGroup ELSE g
    /\ UNCHANGED <<time, history, enriched>>

Tick ==
    /\ time < MaxTime
    /\ time' = time + 1
    /\ UNCHANGED <<group, history, enriched>>

Next == (\E c \in BOOLEAN : EnrichAlert(c)) \/ Cleanup \/ Tick

Spec == Init /\ [][Next]_vars

-----------------------------------------------------------------------------
(***************************************************************************)
(* The statistics in an alert are those of the events themselves: as many  *)
(* as happened in the window up to it, seen first and last when the first  *)
(* and the last of them happened - whatever the cleanups between deleted.  *)
(***************************************************************************)
StatisticsTrue ==
    LET window == {i \in 1 .. Len(history) :
                      history[i] <= enriched.at /\ history[i] >= enriched.at - WindowSize}
    IN  enriched # NoAlert =>
            /\ enriched.EventCount = Cardinality(window)
            /\ enriched.LastSeen = enriched.at
            /\ \A i \in window : enriched.FirstSeen <= history[i]
            /\ \E i \in window : enriched.FirstSeen = history[i]
=============================================================================
