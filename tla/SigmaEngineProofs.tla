-------------------------- MODULE SigmaEngineProofs -------------------------
(***************************************************************************)
(* What the event loop, the loader, the counter, the reading of an event's *)
(* fields, the matching and the rule index of the Sigma engine keep, for   *)
(* any rules, events and capacities.  Each part has an inductive invariant *)
(* of its own; a step of the engine is a step or a stutter of each part.   *)
(* Induction over numbers is by the least counterexample, over a set.      *)
(***************************************************************************)
EXTENDS MCSigmaEngine, SequenceTheorems, FiniteSetTheorems, WellFoundedInduction, TLAPS

\* A step of the engine is a step or a stutter of each part.
LEMMA PartsMove ==
    ASSUME [EngineNext]_engineVars
    PROVE  /\ [Next]_vars /\ [L!Next]_(L!vars) /\ [C!Next]_(C!vars) /\ [M!Next]_(M!vars)
           /\ [R!Next]_(R!vars) /\ [X!Next]_(X!vars) /\ [N!Next]_(N!vars) /\ [E!Next]_(E!vars)
           /\ part' = part
BY DEF EngineNext, Moves, engineVars, lVars, mVars, rVars, xVars, nVars, eVars,
       L!vars, L!scan, L!results, C!vars, M!vars, R!vars, X!vars, N!vars, E!vars

-----------------------------------------------------------------------------
(* Numbers.                                                                  *)

\* A set of numbers that has one has a least one.
LEMMA Least ==
    ASSUME NEW T, T \subseteq Nat, T # {}
    PROVE  \E x \in T : \A y \in T : x <= y
<1> DEFINE Less == OpToRel(<, Nat)
<1>1. IsWellFoundedOn(Less, Nat)
  BY NatLessThanWellFounded
<1>2. \A x, y \in Nat : <<y, x>> \in Less <=> y < x
  BY DEF OpToRel
<1> HIDE DEF Less
<1>3. PICK x \in T : \A y \in T : ~(<<y, x>> \in Less)
  BY <1>1, WFMin
<1>4. \A y \in T : ~(y < x)
  BY <1>2, <1>3, Zenon
<1> QED
  BY <1>4

\* Induction, over a set of numbers.
LEMMA Climb ==
    ASSUME NEW T, 0 \in T, \A n \in Nat : n \in T => n + 1 \in T
    PROVE  Nat \subseteq T
<1> SUFFICES ASSUME Nat \ T # {} PROVE FALSE
  OBVIOUS
<1>1. PICK x \in Nat \ T : \A y \in Nat \ T : x <= y
  BY Least
<1>2. x # 0 /\ x - 1 \in Nat
  BY <1>1
<1>3. x - 1 \in T
  BY <1>1, <1>2
<1> QED
  BY <1>1, <1>2, <1>3

\* Numbers handed out in order: with a number, every smaller one.
Initial(D) == \A x \in D : \A y \in 1 .. x : y \in D

\* Of numbers handed out in order the next one is new, and they stay in order.
LEMMA NextIsNew ==
    ASSUME NEW n \in Nat, NEW D \in SUBSET (1 .. n), Initial(D)
    PROVE  /\ Cardinality(D) + 1 \in Nat \ D
           /\ Initial(D \cup {Cardinality(D) + 1})
<1> DEFINE m == Cardinality(D) + 1
<1>1. IsFiniteSet(1 .. n)
  BY FS_Interval
<1>2. IsFiniteSet(D) /\ Cardinality(D) \in Nat
  BY <1>1, FS_Subset, FS_CardinalityType
<1>3. ASSUME m \in D PROVE FALSE
  <2>1. 1 .. m \subseteq D
    BY <1>3 DEF Initial
  <2>2. Cardinality(1 .. m) = m
    BY <1>2, FS_Interval
  <2>3. Cardinality(1 .. m) <= Cardinality(D)
    BY <1>2, <2>1, FS_Subset
  <2> QED
    BY <1>2, <2>2, <2>3
<1>4. ASSUME NEW y \in 1 .. m - 1, y \notin D PROVE FALSE
  <2>1. D \subseteq 1 .. (y - 1)
    BY <1>4 DEF Initial
  <2>2. IsFiniteSet(1 .. (y - 1)) /\ Cardinality(1 .. (y - 1)) = y - 1
    <3>1. 1 \in Int /\ y - 1 \in Int
      BY <1>2
    <3>2. IsFiniteSet(1 .. (y - 1)) /\ Cardinality(1 .. (y - 1)) = IF 1 > y - 1 THEN 0 ELSE (y - 1) - 1 + 1
      BY <3>1, FS_Interval
    <3> QED
      BY <1>2, <3>2
  <2>3. Cardinality(D) <= y - 1
    BY <2>1, <2>2, FS_Subset
  <2> QED
    BY <1>2, <1>4, <2>3
<1> QED
  BY <1>2, <1>3, <1>4 DEF Initial

-----------------------------------------------------------------------------
(* The event loop.                                                           *)

\* The events that were read, and the rows they can be in.
ReadSoFar == {e \in Events : kind[e] # "unread"}
Rows == [by : ReadSoFar, ids : SUBSET ReadSoFar, recent : BOOLEAN]

\* Events are read in order, and whatever stage holds one, it was read: its kind is settled.
Carried ==
    /\ Initial(ReadSoFar)
    /\ consumer.at = "sending" => consumer.e \in ReadSoFar
    /\ eventChan \in Seq(ReadSoFar) /\ alertChan \in Seq(ReadSoFar)
    /\ prodChan \in Seq(ReadSoFar) /\ prodBatch \in Seq(ReadSoFar)
    /\ writeChan \in Seq(ReadSoFar) /\ writeBatch \in Seq(ReadSoFar)
    /\ \A w \in Workers : worker[w].at \in {"checked", "sending"} =>
           worker[w].e \in ReadSoFar /\ kind[worker[w].e] \in Keys
    /\ publisher.at = "writing" => publisher.e \in ReadSoFar
    /\ writer.at \in {"flushing", "found"} => writeBatch # <<>>
    /\ rows \subseteq Rows

\* What a key let through belongs to a live entry.
Windows == \A k \in Keys : (window[k] # {} => k \in entries) /\ \A d, e \in window[k] : d = e

\* The types that Carried does not give.
Placed ==
    /\ kind \in [Events -> Kinds \cup {"unread"}]
    /\ consumer \in Place({"idle", "sending", "gone"})
    /\ Len(eventChan) <= EventCap /\ Len(alertChan) <= AlertCap
    /\ Len(prodChan) <= ProducerCap /\ Len(prodBatch) <= BatchSize
    /\ Len(writeChan) <= WriterCap /\ Len(writeBatch) <= BatchSize
    /\ worker \in [Workers -> Place({"idle", "checked", "sending", "gone"})]
    /\ entries \subseteq Keys /\ window \in [Keys -> SUBSET Events]
    /\ publisher \in Place({"idle", "writing", "gone"})
    /\ producer \in {"idle", "gone"}
    /\ writer \in Place({"idle", "flushing", "found", "last", "gone"})
    /\ writer.at = "idle" => Len(writeBatch) < BatchSize
    /\ Len(prodBatch) < BatchSize
    /\ topic \subseteq Events /\ gaveUp \subseteq Events
    /\ stop \in {"no", "consumer", "grace", "wait", "producer", "done"}
Switches == eventsOpen \in BOOLEAN /\ alertsOpen \in BOOLEAN /\ ctxDone \in BOOLEAN

LoopInv == Placed /\ Switches /\ Carried /\ Windows /\ OneRecentRow

\* The invariant says what is in each variable.
LEMMA LoopTypes == LoopInv => TypeOK
<1> SUFFICES ASSUME LoopInv PROVE TypeOK
  OBVIOUS
<1>1. Seq(ReadSoFar) \subseteq Seq(Events)
  BY DEF ReadSoFar
<1>2. \A r \in rows : r.ids \subseteq Events /\ r.recent \in BOOLEAN
  BY DEF LoopInv, Carried, Rows, ReadSoFar
<1>3. eventsOpen \in BOOLEAN /\ alertsOpen \in BOOLEAN /\ ctxDone \in BOOLEAN
  BY DEF LoopInv, Switches
<1> QED
  BY <1>1, <1>2, <1>3 DEF LoopInv, Placed, Carried, TypeOK

\* At first nothing is read.
LEMMA LoopInit == Init => LoopInv
<1> SUFFICES ASSUME Init PROVE LoopInv
  OBVIOUS
<1>1. ReadSoFar = {}
  BY DEF Init, ReadSoFar
<1>2. Placed /\ Switches
  <2>1. Switches
    BY Zenon DEF Init, Switches
  <2> QED
    BY <2>1, LoopAssumption DEF Init, Placed, Idle, Place, Events
<1>3. Carried
  BY <1>1 DEF Init, Carried, Initial, Idle
<1>4. Windows
  BY DEF Init, Windows
<1> QED
  BY <1>2, <1>3, <1>4 DEF LoopInv, OneRecentRow, Init

\* The switches are on or off.
LEMMA SwitchesHold == ASSUME Switches, [Next]_vars PROVE Switches'
<1> USE DEF Switches
<1>1. CASE (\E k \in Kinds : ReadMessage(k)) \/ SendEvent \/ ConsumerEnds
  BY <1>1, Zenon DEF ReadMessage, SendEvent, ConsumerEnds
<1>2. CASE \E w \in Workers : WorkerStep(w)
  BY <1>2, Zenon DEF WorkerStep, Detect, ShouldSuppress, RaiseAlert, WorkerEnds, input
<1>3. CASE (\E k \in Keys : EntryExpires(k)) \/ PublisherStep
  BY <1>3, Zenon DEF EntryExpires, PublisherStep, Publish, Write, PublisherEnds, input
<1>4. CASE ProducerStep \/ ProducerEnds
  BY <1>4, Zenon DEF ProducerStep, ProducerTakes, ProducerTick, ProducerEnds, FlushBatch, input
<1>5. CASE WriterStep \/ WriterEnds \/ RowAges \/ DeleteAlert
  <2>1. UNCHANGED <<eventsOpen, alertsOpen, ctxDone>>
    BY <1>5 DEF WriterStep, WriterTakes, WriterTick, FindRecent, IncrementEventCount, WriterEnds, RowAges,
                DeleteAlert, input
  <2> QED
    BY <2>1
<1>6. CASE Signal \/ StopStep
  BY <1>6, Zenon DEF Signal, StopStep, StopConsumer, CloseAlerts, WaitAll, StopProducer, input
<1>7. CASE UNCHANGED vars
  BY <1>7 DEF vars, input
<1> QED
  BY <1>1, <1>2, <1>3, <1>4, <1>5, <1>6, <1>7 DEF Next

\* A step of the consumer: the event read is the next one, and no kind that was settled changes.
LEMMA ConsumerSteps ==
    ASSUME LoopInv, (\E k \in Kinds : ReadMessage(k)) \/ SendEvent \/ ConsumerEnds
    PROVE  Placed' /\ Carried' /\ Windows' /\ OneRecentRow'
<1> USE DEF LoopInv
<1>1. CASE \E k \in Kinds : ReadMessage(k)
  <2>1. PICK k \in Kinds : ReadMessage(k)
    BY <1>1
  <2> DEFINE e == Cardinality(ReadSoFar) + 1
  <2>2. e \in Events /\ e \notin ReadSoFar /\ Initial(ReadSoFar \cup {e})
    <3>1. e \in Events
      BY <2>1 DEF ReadMessage, ReadSoFar
    <3> QED
      BY <3>1, NextIsNew, LoopAssumption DEF Carried, ReadSoFar, Events
  <2>3. kind' = [kind EXCEPT ![e] = k] /\ k # "unread" /\ k \in Kinds
    BY <2>1, LoopAssumption DEF ReadMessage, ReadSoFar, Kinds
  <2> HIDE DEF e
  <2>4. ReadSoFar' = ReadSoFar \cup {e} /\ \A d \in ReadSoFar : kind'[d] = kind[d]
    BY <2>2, <2>3 DEF ReadSoFar, Placed
  <2>5. Seq(ReadSoFar) \subseteq Seq(ReadSoFar') /\ ReadSoFar \subseteq ReadSoFar'
    BY <2>4
  <2>6. consumer' = Idle \/ consumer' = [at |-> "sending", e |-> e]
    BY <2>1 DEF ReadMessage, ReadSoFar, e
  <2>7. UNCHANGED <<eventChan, eventsOpen, detect, alertChan, alertsOpen, publisher, output, store, ctxDone, stop, gaveUp>>
    BY <2>1 DEF ReadMessage
  <2>8. Placed'
    <3>1. kind' \in [Events -> Kinds \cup {"unread"}]
      BY <2>3 DEF Placed
    <3>2. consumer' \in Place({"idle", "sending", "gone"})
      BY <2>2, <2>6, LoopAssumption DEF Place, Idle, Events
    <3> QED
      BY <3>1, <3>2, <2>7 DEF Placed, detect, output, store
  <2>9. Carried'
    <3>1. rows' \subseteq Rows'
      BY <2>5, <2>7 DEF Carried, Rows, store
    <3>2. \A w \in Workers : worker'[w].at \in {"checked", "sending"} =>
              worker'[w].e \in ReadSoFar' /\ kind'[worker'[w].e] \in Keys
      BY <2>4, <2>7 DEF Carried, detect
    <3> QED
      BY <2>2, <2>4, <2>5, <2>6, <2>7, <3>1, <3>2 DEF Carried, Idle, output, store
  <2>10. OneRecentRow' /\ Windows'
    BY <2>4, <2>7 DEF OneRecentRow, Carried, Rows, Windows, detect, store
  <2> QED
    BY <2>8, <2>9, <2>10
<1>2. CASE SendEvent
  <2>1. consumer.e \in ReadSoFar /\ ReadSoFar \subseteq Events
    BY <1>2 DEF SendEvent, Carried, ReadSoFar
  <2>2. eventChan' \in Seq(ReadSoFar) /\ Len(eventChan') <= EventCap
    <3>1. eventChan \in Seq(ReadSoFar) /\ Len(eventChan) <= EventCap /\ EventCap \in Nat
      BY LoopAssumption DEF Carried, Placed
    <3>2. CASE Len(eventChan) < EventCap /\ eventChan' = Append(eventChan, consumer.e)
      BY <2>1, <3>1, <3>2
    <3>3. CASE UNCHANGED eventChan
      BY <3>1, <3>3
    <3> QED
      BY <1>2, <3>2, <3>3 DEF SendEvent
  <2>5. UNCHANGED <<kind, eventsOpen, detect, alertChan, alertsOpen, publisher, output, store, ctxDone, stop, gaveUp>>
        /\ consumer' = Idle
    BY <1>2 DEF SendEvent
  <2>6. ReadSoFar' = ReadSoFar /\ Rows' = Rows
    BY <2>5 DEF ReadSoFar, Rows
  <2>7. Placed'
    BY <2>2, <2>5, LoopAssumption DEF Placed, Place, Idle, detect, output, store
  <2>8. Carried'
    BY <2>2, <2>5, <2>6 DEF Carried, Idle, detect, output, store
  <2> QED
    BY <2>5, <2>7, <2>8 DEF Windows, OneRecentRow, detect, store
<1>3. CASE ConsumerEnds
  <2>1. UNCHANGED <<kind, eventChan, detect, alertChan, alertsOpen, publisher, output, store, ctxDone, stop, gaveUp>>
        /\ consumer' = Gone /\ eventsOpen' = FALSE
    BY <1>3 DEF ConsumerEnds
  <2>2. ReadSoFar' = ReadSoFar /\ Rows' = Rows
    BY <2>1 DEF ReadSoFar, Rows
  <2>3. Placed'
    BY <2>1, LoopAssumption DEF Placed, Place, Gone, detect, output, store
  <2>4. Carried'
    BY <2>1, <2>2 DEF Carried, Gone, detect, output, store
  <2> QED
    BY <2>1, <2>3, <2>4 DEF Windows, OneRecentRow, detect, store
<1> QED
  BY <1>1, <1>2, <1>3

\* A worker lets an alert through only while its key has no entry, and makes the entry with it.
LEMMA WorkerSteps ==
    ASSUME LoopInv, NEW w \in Workers, WorkerStep(w)
    PROVE  Placed' /\ Carried' /\ Windows' /\ OneRecentRow'
<1> USE DEF LoopInv
<1>0. UNCHANGED <<kind, consumer, eventsOpen, alertsOpen, publisher, output, store, ctxDone, stop, gaveUp>>
  BY DEF WorkerStep, Detect, ShouldSuppress, RaiseAlert, WorkerEnds, input
<1>1. ReadSoFar' = ReadSoFar /\ Rows' = Rows /\ ReadSoFar \subseteq Events
  BY <1>0 DEF ReadSoFar, Rows
<1>2. OneRecentRow'
  BY <1>0 DEF OneRecentRow, store
<1> SUFFICES
      /\ worker' \in [Workers -> Place({"idle", "checked", "sending", "gone"})]
      /\ \A v \in Workers : worker'[v].at \in {"checked", "sending"} =>
             worker'[v].e \in ReadSoFar /\ kind[worker'[v].e] \in Keys
      /\ eventChan' \in Seq(ReadSoFar) /\ Len(eventChan') <= EventCap
      /\ alertChan' \in Seq(ReadSoFar) /\ Len(alertChan') <= AlertCap
      /\ entries' \subseteq Keys /\ window' \in [Keys -> SUBSET Events] /\ Windows'
  BY <1>0, <1>1, <1>2 DEF Placed, Carried, output, store
<1>3. /\ worker \in [Workers -> Place({"idle", "checked", "sending", "gone"})]
      /\ \A v \in Workers : worker[v].at \in {"checked", "sending"} =>
             worker[v].e \in ReadSoFar /\ kind[worker[v].e] \in Keys
      /\ eventChan \in Seq(ReadSoFar) /\ Len(eventChan) <= EventCap /\ EventCap \in Nat
      /\ alertChan \in Seq(ReadSoFar) /\ Len(alertChan) <= AlertCap /\ AlertCap \in Nat
      /\ entries \subseteq Keys /\ window \in [Keys -> SUBSET Events]
      /\ Idle \in Place({"idle"}) /\ Gone \in Place({"gone"})
  BY LoopAssumption DEF Placed, Carried, Place, Idle, Gone
<1>4. CASE Detect(w)
  <2> DEFINE e == Head(eventChan)
  <2>1. e \in ReadSoFar /\ Tail(eventChan) \in Seq(ReadSoFar) /\ Len(Tail(eventChan)) <= EventCap
    BY <1>3, <1>4 DEF Detect
  <2>2. worker'[w] = Idle \/ (worker'[w] = [at |-> "checked", e |-> e] /\ kind[e] \in Keys)
    BY <1>3, <1>4 DEF Detect
  <2>3. \A v \in Workers \ {w} : worker'[v] = worker[v]
    BY <1>3, <1>4 DEF Detect
  <2>4. worker'[w] \in Place({"idle", "checked", "sending", "gone"})
    <3> HIDE DEF e
    <3>1. e \in 0 .. MaxEvents
      BY <1>1, <2>1 DEF Events
    <3> QED
      BY <1>3, <2>2, <3>1 DEF Place
  <2>5. worker' \in [Workers -> Place({"idle", "checked", "sending", "gone"})]
    BY <1>3, <1>4, <2>3, <2>4 DEF Detect
  <2> HIDE DEF e
  <2> QED
    BY <1>3, <1>4, <2>1, <2>2, <2>3, <2>5 DEF Detect, Windows, Idle
<1>5. CASE ShouldSuppress(w)
  <2> DEFINE e == worker[w].e
             k == kind[e]
  <2>1. e \in ReadSoFar /\ k \in Keys /\ UNCHANGED <<eventChan, alertChan>>
    BY <1>3, <1>5 DEF ShouldSuppress, input
  <2>2. CASE k \in entries
    <3>1. worker' = [worker EXCEPT ![w] = Idle] /\ UNCHANGED <<entries, window>>
      BY <1>5, <2>2 DEF ShouldSuppress
    <3> QED
      BY <1>3, <2>1, <3>1 DEF Windows, Idle, Place
  <2>3. CASE k \notin entries
    <3>1. /\ entries' = entries \cup {k}
          /\ window' = [window EXCEPT ![k] = @ \cup {e}]
          /\ worker' = [worker EXCEPT ![w].at = "sending"]
      BY <1>5, <2>3 DEF ShouldSuppress
    <3>2. window[k] = {}
      BY <2>1, <2>3 DEF Windows
    <3>3. window' \in [Keys -> SUBSET Events] /\ Windows'
      BY <1>1, <1>3, <2>1, <3>1, <3>2 DEF Windows
    <3>4. worker' = [worker EXCEPT ![w] = [at |-> "sending", e |-> e]]
      <4>1. worker[w] \in [at : {"idle", "checked", "sending", "gone"}, e : 0 .. MaxEvents]
        BY <1>3 DEF Place
      <4>2. [worker[w] EXCEPT !.at = "sending"] = [at |-> "sending", e |-> e]
        BY <4>1
      <4> QED
        BY <3>1, <4>2
    <3>5. worker' \in [Workers -> Place({"idle", "checked", "sending", "gone"})]
      BY <1>3, <3>4 DEF Place
    <3> QED
      BY <1>3, <2>1, <3>1, <3>3, <3>4, <3>5
  <2> QED
    BY <2>2, <2>3
<1>6. CASE RaiseAlert(w)
  <2>1. alertChan' \in Seq(ReadSoFar) /\ Len(alertChan') <= AlertCap
    <3>1. worker[w].e \in ReadSoFar
      BY <1>3, <1>6 DEF RaiseAlert
    <3>2. CASE Len(alertChan) < AlertCap /\ alertChan' = Append(alertChan, worker[w].e)
      BY <1>3, <3>1, <3>2
    <3>3. CASE alertChan' = alertChan
      BY <1>3, <3>3
    <3> QED
      BY <1>6, <3>2, <3>3 DEF RaiseAlert
  <2>2. worker' = [worker EXCEPT ![w] = Idle] /\ UNCHANGED <<eventChan, entries, window>>
    BY <1>6 DEF RaiseAlert, input
  <2> QED
    BY <1>3, <2>1, <2>2 DEF Windows, Idle, Place
<1>7. CASE WorkerEnds(w)
  <2>1. worker' = [worker EXCEPT ![w] = Gone] /\ UNCHANGED <<eventChan, alertChan, entries, window>>
    BY <1>7 DEF WorkerEnds, input
  <2> QED
    BY <1>3, <2>1 DEF Windows, Gone, Place
<1> QED
  BY <1>4, <1>5, <1>6, <1>7 DEF WorkerStep

\* With its entry a key's window ends.
LEMMA EntrySteps ==
    ASSUME LoopInv, NEW k \in Keys, EntryExpires(k)
    PROVE  Placed' /\ Carried' /\ Windows' /\ OneRecentRow'
<1> USE DEF LoopInv
<1>1. UNCHANGED <<input, worker, alertChan, alertsOpen, publisher, output, store, ctxDone, stop, gaveUp>>
  BY DEF EntryExpires
<1>2. ReadSoFar' = ReadSoFar /\ Rows' = Rows
  BY <1>1 DEF ReadSoFar, Rows, input
<1>3. entries' \subseteq Keys /\ window' \in [Keys -> SUBSET Events] /\ Windows'
  BY DEF EntryExpires, Placed, Windows
<1>4. Placed' /\ Carried'
  BY <1>1, <1>2, <1>3 DEF Placed, Carried, input, output, store
<1> QED
  BY <1>1, <1>3, <1>4 DEF OneRecentRow, input, store

\* The publisher and the producer pass on what they were given.
LEMMA PublisherSteps ==
    ASSUME LoopInv, PublisherStep \/ ProducerStep \/ ProducerEnds
    PROVE  Placed' /\ Carried' /\ Windows' /\ OneRecentRow'
<1> USE DEF LoopInv
<1>0. UNCHANGED <<input, detect, alertsOpen, writeBatch, writer, rows, ctxDone, stop>>
  BY DEF PublisherStep, ProducerStep, ProducerEnds, Publish, Write, PublisherEnds, ProducerTakes, ProducerTick, store
<1>1. ReadSoFar' = ReadSoFar /\ Rows' = Rows /\ ReadSoFar \subseteq Events
  BY <1>0 DEF ReadSoFar, Rows, input
<1>2. OneRecentRow' /\ Windows'
  BY <1>0 DEF OneRecentRow, Windows, input, detect
<1> SUFFICES
      /\ publisher' \in Place({"idle", "writing", "gone"}) /\ (publisher'.at = "writing" => publisher'.e \in ReadSoFar)
      /\ alertChan' \in Seq(ReadSoFar) /\ Len(alertChan') <= AlertCap
      /\ prodChan' \in Seq(ReadSoFar) /\ Len(prodChan') <= ProducerCap
      /\ prodBatch' \in Seq(ReadSoFar) /\ Len(prodBatch') < BatchSize
      /\ writeChan' \in Seq(ReadSoFar) /\ Len(writeChan') <= WriterCap
      /\ producer' \in {"idle", "gone"} /\ topic' \subseteq Events /\ gaveUp' \subseteq Events
  BY <1>0, <1>1, <1>2, LoopAssumption DEF Placed, Carried, input, detect
<1>3. /\ publisher \in Place({"idle", "writing", "gone"}) /\ (publisher.at = "writing" => publisher.e \in ReadSoFar)
      /\ alertChan \in Seq(ReadSoFar) /\ Len(alertChan) <= AlertCap /\ AlertCap \in Nat
      /\ prodChan \in Seq(ReadSoFar) /\ Len(prodChan) <= ProducerCap /\ ProducerCap \in Nat
      /\ prodBatch \in Seq(ReadSoFar) /\ Len(prodBatch) < BatchSize /\ BatchSize \in Nat \ {0}
      /\ writeChan \in Seq(ReadSoFar) /\ Len(writeChan) <= WriterCap /\ WriterCap \in Nat
      /\ producer \in {"idle", "gone"} /\ topic \subseteq Events /\ gaveUp \subseteq Events
      /\ Idle \in Place({"idle"}) /\ Gone \in Place({"gone"})
  BY LoopAssumption DEF Placed, Carried, Place, Idle, Gone
<1>4. CASE Publish
  <2> DEFINE e == Head(alertChan)
  <2>1. e \in ReadSoFar /\ alertChan' \in Seq(ReadSoFar) /\ Len(alertChan') <= AlertCap
    BY <1>3, <1>4 DEF Publish
  <2>2. prodChan' \in Seq(ReadSoFar) /\ Len(prodChan') <= ProducerCap
    <3>1. CASE Len(prodChan) < ProducerCap /\ prodChan' = Append(prodChan, e)
      BY <1>3, <2>1, <3>1
    <3>2. CASE prodChan' = prodChan
      BY <1>3, <3>2
    <3> QED
      BY <1>4, <3>1, <3>2 DEF Publish
  <2>3. gaveUp' \subseteq Events
    <3>1. gaveUp' = gaveUp \/ gaveUp' = gaveUp \cup {e}
      BY <1>4 DEF Publish, GivesUp
    <3> QED
      BY <1>1, <1>3, <2>1, <3>1
  <2>4. publisher' = [at |-> "writing", e |-> e] /\ UNCHANGED <<prodBatch, producer, topic, writeChan>>
    BY <1>4 DEF Publish, store
  <2> HIDE DEF e
  <2>5. publisher' \in Place({"idle", "writing", "gone"})
    BY <1>1, <2>1, <2>4 DEF Place, Events
  <2> QED
    BY <1>3, <2>1, <2>2, <2>4, <2>5, <2>3
<1>5. CASE Write
  <2>1. writeChan' \in Seq(ReadSoFar) /\ Len(writeChan') <= WriterCap
    <3>1. CASE Len(writeChan) < WriterCap /\ writeChan' = Append(writeChan, publisher.e)
      BY <1>3, <1>5, <3>1 DEF Write
    <3>2. CASE writeChan' = writeChan
      BY <1>3, <3>2
    <3> QED
      BY <1>5, <3>1, <3>2 DEF Write
  <2>2. publisher' = Idle /\ UNCHANGED <<alertChan, prodChan, prodBatch, producer, topic, gaveUp>>
    BY <1>5 DEF Write, output
  <2> QED
    BY <1>3, <2>1, <2>2 DEF Idle, Place
<1>6. CASE PublisherEnds
  BY <1>3, <1>6 DEF PublisherEnds, Gone, Place, output, store
<1>7. ASSUME NEW batch \in Seq(ReadSoFar), FlushBatch(batch)
      PROVE  /\ prodBatch' \in Seq(ReadSoFar) /\ Len(prodBatch') < BatchSize
             /\ topic' \subseteq Events /\ gaveUp' \subseteq Events
  <2>1. prodBatch' = <<>>
    BY <1>7 DEF FlushBatch
  <2>2. \A i \in 1 .. Len(batch) : batch[i] \in Events
    BY <1>1, <1>7
  <2>3. topic' \subseteq Events /\ gaveUp' \subseteq Events
    BY <1>3, <1>7, <2>2 DEF FlushBatch, GivesUp
  <2> QED
    BY <1>3, <2>1, <2>3
<1>8. CASE ProducerTakes
  <2> DEFINE batch == Append(prodBatch, Head(prodChan))
  <2>1. batch \in Seq(ReadSoFar) /\ prodChan' \in Seq(ReadSoFar) /\ Len(prodChan') <= ProducerCap
    BY <1>3, <1>8 DEF ProducerTakes
  <2>2. /\ prodBatch' \in Seq(ReadSoFar) /\ Len(prodBatch') < BatchSize
        /\ topic' \subseteq Events /\ gaveUp' \subseteq Events
    <3>1. CASE Len(batch) >= BatchSize /\ FlushBatch(batch)
      BY <1>7, <2>1, <3>1
    <3>2. CASE Len(batch) < BatchSize /\ prodBatch' = batch /\ UNCHANGED <<topic, gaveUp>>
      <4> HIDE DEF batch
      <4>2. Len(batch) \in Nat
        BY <2>1
      <4> QED
        BY <1>3, <2>1, <3>2, <4>2
    <3>3. CASE GivesUp({Head(prodChan)}) /\ UNCHANGED <<prodBatch, topic>>
      <4>1. Head(prodChan) \in ReadSoFar
        BY <1>3, <1>8 DEF ProducerTakes
      <4> QED
        BY <1>1, <1>3, <3>3, <4>1 DEF GivesUp
    <3> QED
      BY <1>8, <3>1, <3>2, <3>3 DEF ProducerTakes
  <2>3. UNCHANGED <<publisher, alertChan, writeChan, producer>>
    BY <1>8 DEF ProducerTakes, store
  <2> QED
    BY <1>3, <2>1, <2>2, <2>3
<1>9. CASE ProducerTick
  <2>1. UNCHANGED <<publisher, alertChan, prodChan, writeChan, producer>> /\ FlushBatch(prodBatch)
    BY <1>9 DEF ProducerTick, store
  <2> QED
    BY <1>3, <1>7, <2>1
<1>10. CASE ProducerEnds
  <2>1. UNCHANGED <<publisher, alertChan, prodChan, writeChan>> /\ FlushBatch(prodBatch) /\ producer' = "gone"
    BY <1>10 DEF ProducerEnds, store
  <2> QED
    BY <1>3, <1>7, <2>1
<1> QED
  BY <1>4, <1>5, <1>6, <1>8, <1>9, <1>10 DEF PublisherStep, ProducerStep

\* The writer makes a row for a key that has no recent one, and rows keep the event that made them.
LEMMA WriterSteps ==
    ASSUME LoopInv, WriterStep \/ WriterEnds \/ RowAges \/ DeleteAlert
    PROVE  Placed' /\ Carried' /\ Windows' /\ OneRecentRow'
<1> USE DEF LoopInv
<1>0. UNCHANGED <<input, detect, alertChan, alertsOpen, publisher, output, ctxDone, stop, gaveUp>>
  BY DEF WriterStep, WriterTakes, WriterTick, FindRecent, IncrementEventCount, WriterEnds, RowAges, DeleteAlert
<1>1. ReadSoFar' = ReadSoFar /\ Rows' = Rows /\ ReadSoFar \subseteq Events /\ kind' = kind
  BY <1>0 DEF ReadSoFar, Rows, input
<1>2. Windows'
  BY <1>0 DEF Windows, detect
<1> DEFINE Writing(b, v) ==
        /\ v \in Place({"idle", "flushing", "found", "last", "gone"})
        /\ b \in Seq(ReadSoFar) /\ Len(b) <= BatchSize
        /\ v.at \in {"flushing", "found"} => b # <<>>
        /\ v.at = "idle" => Len(b) < BatchSize
<1> SUFFICES
      /\ writeChan' \in Seq(ReadSoFar) /\ Len(writeChan') <= WriterCap
      /\ Writing(writeBatch', writer')
      /\ rows' \subseteq Rows /\ OneRecentRow'
  BY <1>0, <1>1, <1>2, LoopAssumption DEF Placed, Carried, input, detect, output
<1>3. /\ writeChan \in Seq(ReadSoFar) /\ Len(writeChan) <= WriterCap /\ WriterCap \in Nat
      /\ Writing(writeBatch, writer) /\ BatchSize \in Nat \ {0}
      /\ rows \subseteq Rows
      /\ 0 \in 0 .. MaxEvents
  BY LoopAssumption DEF Placed, Carried
<1>4. CASE WriterTakes
  <2> DEFINE batch == Append(writeBatch, Head(writeChan))
  <2>1. /\ writeChan # <<>> /\ writeChan' = Tail(writeChan) /\ writeBatch' = batch /\ writer = Idle
        /\ writer' = IF Len(batch) >= BatchSize THEN [at |-> "flushing", e |-> 0] ELSE Idle
        /\ rows' = rows
    BY <1>4 DEF WriterTakes
  <2>2. writeChan' \in Seq(ReadSoFar) /\ Len(writeChan') <= WriterCap /\ Head(writeChan) \in ReadSoFar
    BY <1>3, <2>1
  <2>3. Len(writeBatch) < BatchSize /\ Len(writeBatch) \in Nat
    BY <1>3, <2>1 DEF Idle
  <2>4. batch \in Seq(ReadSoFar) /\ Len(batch) = Len(writeBatch) + 1 /\ batch # <<>>
    BY <1>3, <2>2
  <2> HIDE DEF batch
  <2>5. Writing(writeBatch', writer')
    BY <1>3, <2>1, <2>3, <2>4 DEF Idle, Place
  <2> QED
    BY <1>1, <1>3, <2>1, <2>2, <2>5 DEF OneRecentRow
<1>5. CASE WriterTick
  <2>1. writeBatch # <<>> /\ writer' = [at |-> "flushing", e |-> 0] /\ UNCHANGED <<writeChan, writeBatch, rows>>
    BY <1>5 DEF WriterTick
  <2> QED
    BY <1>1, <1>3, <2>1 DEF OneRecentRow, Place
<1>6. CASE WriterEnds
  <2>1. writer' = Gone /\ writeBatch' = <<>> /\ UNCHANGED <<writeChan, rows>>
    BY <1>6 DEF WriterEnds
  <2> QED
    BY <1>1, <1>3, <2>1 DEF OneRecentRow, Place, Gone
<1>7. ASSUME Skip, writer' = AfterOne, writeBatch # <<>>
      PROVE  Writing(writeBatch', writer')
  <2>1. writeBatch' \in Seq(ReadSoFar) /\ Len(writeBatch') = Len(writeBatch) - 1 /\ Len(writeBatch) \in Nat
    BY <1>3, <1>7 DEF Skip
  <2>2. writer' \in Place({"idle", "flushing", "found", "last", "gone"})
        /\ writer'.at = IF Len(writeBatch) = 1 THEN "idle" ELSE "flushing"
    BY <1>3, <1>7 DEF AfterOne, Idle, Place
  <2> QED
    BY <1>3, <2>1, <2>2
<1>8. CASE FindRecent
  <2> DEFINE e == Head(writeBatch)
             found == RecentRow(kind[e])
  <2>1. writer.at = "flushing" /\ writeBatch # <<>> /\ writeChan' = writeChan
    BY <1>3, <1>8 DEF FindRecent
  <2>2. e \in ReadSoFar
    BY <1>3, <2>1
  <2>3. CASE found # {} /\ writer' = [at |-> "found", e |-> (CHOOSE r \in found : TRUE).by]
             /\ UNCHANGED <<writeBatch, rows>>
    <3>1. (CHOOSE r \in found : TRUE) \in rows
      BY <2>3 DEF RecentRow
    <3>2. \A r \in rows : r.by \in 0 .. MaxEvents
      <4>1. \A r \in rows : r.by \in Events
        BY <1>1, <1>3 DEF Rows
      <4>2. Events \subseteq 0 .. MaxEvents
        BY LoopAssumption DEF Events
      <4> QED
        BY <4>1, <4>2
    <3> HIDE DEF found
    <3>3. writer' \in Place({"idle", "flushing", "found", "last", "gone"}) /\ writer'.at = "found"
      BY <2>3, <3>1, <3>2 DEF Place
    <3> QED
      BY <1>1, <1>3, <2>1, <2>3, <3>3 DEF OneRecentRow
  <2>4. CASE found = {} /\ rows' = rows \cup {[by |-> e, ids |-> {e}, recent |-> TRUE]} /\ Skip /\ writer' = AfterOne
    <3>1. \A r \in rows : r.recent => kind[r.by] # kind[e]
      BY <2>4 DEF RecentRow
    <3>2. PICK row : row = [by |-> e, ids |-> {e}, recent |-> TRUE]
      OBVIOUS
    <3> HIDE DEF e, found
    <3>3. row \in Rows /\ row.by = e /\ rows' = rows \cup {row}
      BY <2>2, <2>4, <3>2 DEF Rows
    <3>4. rows' \subseteq Rows
      BY <1>3, <3>3
    <3>5. OneRecentRow'
      BY <1>1, <3>1, <3>3 DEF OneRecentRow
    <3> QED
      BY <1>3, <1>7, <2>1, <2>4, <3>4, <3>5
  <2>5. CASE Skip /\ writer' = AfterOne /\ UNCHANGED rows
    BY <1>1, <1>3, <1>7, <2>1, <2>5 DEF OneRecentRow
  <2> QED
    BY <1>8, <2>3, <2>4, <2>5 DEF FindRecent
<1>9. CASE IncrementEventCount
  <2> DEFINE e == Head(writeBatch)
  <2>1. writer.at = "found" /\ writeBatch # <<>> /\ Skip /\ writer' = AfterOne /\ writeChan' = writeChan
    BY <1>3, <1>9 DEF IncrementEventCount
  <2>2. e \in ReadSoFar
    BY <1>3, <2>1
  <2>3. CASE rows' = {IF r.by = writer.e THEN [r EXCEPT !.ids = @ \cup {e}] ELSE r : r \in rows}
    <3> HIDE DEF e
    <3> DEFINE Seen(r) == IF r.by = writer.e THEN [r EXCEPT !.ids = @ \cup {e}] ELSE r
    <3>1. \A r \in Rows : Seen(r) \in Rows /\ Seen(r).by = r.by /\ Seen(r).recent = r.recent
      BY <2>2 DEF Rows
    <3>2. \A t \in rows' : \E r \in rows : t = Seen(r)
      BY <2>3
    <3> HIDE DEF Seen
    <3>3. rows' \subseteq Rows
      BY <1>3, <3>1, <3>2
    <3>4. OneRecentRow'
      BY <1>1, <1>3, <3>1, <3>2 DEF OneRecentRow
    <3> QED
      BY <1>3, <1>7, <2>1, <3>3, <3>4
  <2>4. CASE UNCHANGED rows
    BY <1>1, <1>3, <1>7, <2>1, <2>4 DEF OneRecentRow
  <2> QED
    BY <1>9, <2>3, <2>4 DEF IncrementEventCount
<1>10. CASE RowAges
  <2>1. UNCHANGED <<writeChan, writeBatch, writer>>
    BY <1>10 DEF RowAges
  <2>2. PICK r \in rows : rows' = (rows \ {r}) \cup {[r EXCEPT !.recent = FALSE]}
    BY <1>10 DEF RowAges
  <2>3. [r EXCEPT !.recent = FALSE] \in Rows /\ ~[r EXCEPT !.recent = FALSE].recent
    BY <1>3 DEF Rows
  <2> QED
    BY <1>1, <1>3, <2>1, <2>2, <2>3 DEF OneRecentRow
<1>11. CASE DeleteAlert
  <2>1. UNCHANGED <<writeChan, writeBatch, writer>> /\ rows' \subseteq rows
    BY <1>11 DEF DeleteAlert
  <2> QED
    BY <1>1, <1>3, <2>1 DEF OneRecentRow
<1> QED
  BY <1>4, <1>5, <1>6, <1>8, <1>9, <1>10, <1>11 DEF WriterStep

\* Stop moves nothing but itself and the end of the alerts.
LEMMA StopSteps ==
    ASSUME LoopInv, Signal \/ StopStep \/ UNCHANGED vars
    PROVE  Placed' /\ Carried' /\ Windows' /\ OneRecentRow'
<1> USE DEF LoopInv
<1>1. UNCHANGED <<kind, consumer, eventChan, worker, entries, window, alertChan, publisher, output, store, gaveUp>>
  BY DEF Signal, StopStep, StopConsumer, CloseAlerts, WaitAll, StopProducer, vars, input, detect
<1>2. stop' \in {"no", "consumer", "grace", "wait", "producer", "done"}
  BY DEF Signal, StopStep, StopConsumer, CloseAlerts, WaitAll, StopProducer, vars, Placed
<1>3. ReadSoFar' = ReadSoFar /\ Rows' = Rows
  BY <1>1 DEF ReadSoFar, Rows
<1>4. Placed' /\ Carried'
  BY <1>1, <1>2, <1>3 DEF Placed, Carried, output, store
<1> QED
  BY <1>1, <1>4 DEF Windows, OneRecentRow, store

\* Every step of the loop keeps the invariant.
LEMMA LoopStep == ASSUME LoopInv, [Next]_vars PROVE LoopInv'
<1>1. Switches'
  BY SwitchesHold DEF LoopInv
<1>2. Placed' /\ Carried' /\ Windows' /\ OneRecentRow'
  BY ConsumerSteps, WorkerSteps, EntrySteps, PublisherSteps, WriterSteps, StopSteps DEF Next
<1> QED
  BY <1>1, <1>2 DEF LoopInv

\* What the loop promises follows from the invariant.
LEMMA LoopPromises == LoopInv => TypeOK /\ OneAlertPerWindow /\ OneRecentRow
<1> SUFFICES ASSUME LoopInv, NEW k \in Keys PROVE Cardinality(window[k]) <= 1
  BY LoopTypes DEF LoopInv, OneAlertPerWindow
<1>1. CASE window[k] = {}
  <2>1. Cardinality(window[k]) = 0
    BY <1>1, FS_EmptySet
  <2> QED
    BY <2>1
<1>2. CASE window[k] # {}
  <2>1. PICK e : window[k] = {e}
    BY <1>2 DEF LoopInv, Windows
  <2>2. Cardinality(window[k]) = 1
    BY <2>1, FS_Singleton, Zenon
  <2> QED
    BY <2>2
<1> QED
  BY <1>1, <1>2

-----------------------------------------------------------------------------
(* The loader.                                                               *)

In(q) == {q[i] : i \in 1 .. Len(q)}
Sound == {f \in Files : outcome[f] \in {"rule", "poor"}}
Unsound == {f \in Files : outcome[f] \in {"skip", "error"}}
Settled(f) == (outcome[f] = "rule" => f \in rules) /\ (outcome[f] = "error" => f \in errors)

\* Until the context ends a file is on its way or in its place, and a stage that is over has
\* left no file behind.
LoaderInv ==
    /\ L!TypeOK
    /\ jobs \in Seq(Files) /\ ruleChan \in Seq(Sound) /\ errorChan \in Seq(Unsound)
    /\ rules \subseteq {f \in Files : outcome[f] = "rule"} /\ errors \subseteq {f \in Files : outcome[f] = "error"}
    /\ ~cancelled =>
           /\ \A f \in Files : \/ f \in unscanned \cup In(jobs) \cup In(ruleChan) \cup In(errorChan)
                               \/ \E p \in Parsers : parser[p] = f
                               \/ Settled(f)
           /\ ~jobsOpen => unscanned = {}
           /\ \A p \in Parsers : parser[p] = L!Ended => jobs = <<>> /\ ~jobsOpen
           /\ ~open => \A p \in Parsers : parser[p] = L!Ended
    /\ collector # "collecting" => L!Accounted

\* At first every file is to be scanned.
LEMMA LoaderInit == L!Init => LoaderInv
<1> SUFFICES ASSUME L!Init PROVE LoaderInv
  OBVIOUS
<1>1. jobsOpen \in BOOLEAN /\ open \in BOOLEAN /\ cancelled \in BOOLEAN /\ jobsOpen /\ open /\ ~cancelled
  BY Zenon DEF L!Init
<1> QED
  <2>1. L!TypeOK
    BY <1>1, LoaderAssumption DEF L!Init, L!TypeOK
  <2>2. parser = [p \in Parsers |-> L!NoFile] /\ unscanned = Files /\ jobs = <<>> /\ ruleChan = <<>> /\ errorChan = <<>>
        /\ rules = {} /\ errors = {} /\ collector = "collecting"
    BY DEF L!Init
  <2>3. \A p \in Parsers : parser[p] # L!Ended
    BY <2>2 DEF L!NoFile, L!Ended
  <2> QED
    BY <1>1, <2>1, <2>2, <2>3 DEF LoaderInv

\* Appending adds one element, taking the head removes at most that one.
LEMMA InChannel ==
    ASSUME NEW S, NEW q \in Seq(S)
    PROVE  /\ \A x \in S : In(Append(q, x)) = In(q) \cup {x} /\ Append(q, x) \in Seq(S) /\ Len(Append(q, x)) = Len(q) + 1
           /\ q # <<>> => /\ In(q) \subseteq In(Tail(q)) \cup {Head(q)} /\ Tail(q) \in Seq(S)
                          /\ Len(Tail(q)) = Len(q) - 1 /\ Head(q) \in S
           /\ Len(q) \in Nat /\ In(<<>>) = {}
<1>1. ASSUME NEW x \in S PROVE In(Append(q, x)) = In(q) \cup {x}
  <2>1. Len(q) \in Nat /\ Len(Append(q, x)) = Len(q) + 1
        /\ \A i \in 1 .. Len(q) + 1 : Append(q, x)[i] = IF i = Len(q) + 1 THEN x ELSE q[i]
    OBVIOUS
  <2> QED
    BY <2>1 DEF In
<1>2. ASSUME q # <<>> PROVE In(q) \subseteq In(Tail(q)) \cup {Head(q)}
  <2>1. Len(q) \in Nat \ {0} /\ Len(Tail(q)) = Len(q) - 1 /\ Head(q) = q[1]
        /\ \A i \in 1 .. Len(q) - 1 : Tail(q)[i] = q[i + 1]
    BY <1>2
  <2>2. ASSUME NEW i \in 1 .. Len(q), i # 1 PROVE q[i] \in In(Tail(q))
    <3>1. i - 1 \in 1 .. Len(Tail(q)) /\ Tail(q)[i - 1] = q[i]
      BY <2>1, <2>2
    <3> QED
      BY <3>1 DEF In
  <2> QED
    BY <2>1, <2>2 DEF In
<1> QED
  BY <1>1, <1>2 DEF In

\* Every step of the loader keeps the invariant.
LEMMA LoaderStep == ASSUME LoaderInv, [L!Next]_(L!vars) PROVE LoaderInv'
<1> USE DEF LoaderInv, L!scan, L!results
<1>0. /\ outcome \in [Files -> L!Outcomes] /\ parser \in [Parsers -> Files \cup {L!NoFile, L!Ended}]
      /\ JobCap \in Nat /\ RuleCap \in Nat /\ ErrorCap \in Nat /\ L!NoFile \notin Files /\ L!Ended \notin Files
      /\ L!NoFile # L!Ended
  BY LoaderAssumption DEF L!TypeOK, L!NoFile, L!Ended
<1> USE DEF Sound, Unsound
<1>1. ASSUME NEW f \in Files, L!ScanFile(f) PROVE LoaderInv'
  <2>1. f \in unscanned /\ Len(jobs) < JobCap /\ unscanned' = unscanned \ {f} /\ jobs' = Append(jobs, f)
        /\ UNCHANGED <<outcome, jobsOpen, parser, ruleChan, errorChan, open, collector, rules, errors, cancelled>>
    BY <1>1 DEF L!ScanFile
  <2>2. In(jobs') = In(jobs) \cup {f} /\ jobs' \in Seq(Files) /\ Len(jobs') <= JobCap
    BY <1>0, <2>1, InChannel
  <2>3. ~cancelled => jobsOpen /\ \A p \in Parsers : parser[p] # L!Ended
    BY <2>1
  <2> QED
    BY <2>1, <2>2, <2>3 DEF L!TypeOK, L!Accounted, Settled
<1>2. CASE L!CloseJobs
  <2>1. jobsOpen' = FALSE /\ (unscanned = {} \/ cancelled)
        /\ UNCHANGED <<outcome, unscanned, jobs, parser, ruleChan, errorChan, open, collector, rules, errors, cancelled>>
    BY <1>2 DEF L!CloseJobs
  <2> QED
    BY <2>1 DEF L!TypeOK, L!Accounted, Settled
<1>3. ASSUME NEW p \in Parsers, L!TakeFile(p) PROVE LoaderInv'
  <2>1. parser[p] = L!NoFile /\ jobs # <<>> /\ jobs' = Tail(jobs)
        /\ parser' = [parser EXCEPT ![p] = IF cancelled THEN L!Ended ELSE Head(jobs)]
        /\ UNCHANGED <<outcome, unscanned, jobsOpen, ruleChan, errorChan, open, collector, rules, errors, cancelled>>
    BY <1>3 DEF L!TakeFile
  <2>2. In(jobs) \subseteq In(jobs') \cup {Head(jobs)} /\ jobs' \in Seq(Files) /\ Len(jobs') <= JobCap /\ Head(jobs) \in Files
    BY <1>0, <2>1, InChannel DEF L!TypeOK
  <2>3. parser' \in [Parsers -> Files \cup {L!NoFile, L!Ended}]
    BY <1>0, <2>1, <2>2
  <2>4. ~cancelled => /\ parser'[p] = Head(jobs) /\ \A o \in Parsers \ {p} : parser'[o] = parser[o]
                      /\ \A o \in Parsers : parser[o] # L!Ended /\ open
    BY <1>0, <2>1
  <2> QED
    BY <1>0, <2>1, <2>2, <2>3, <2>4 DEF L!TypeOK, L!Accounted, Settled
<1>4. ASSUME NEW p \in Parsers, L!SendRule(p) PROVE LoaderInv'
  <2>1. parser[p] \in Sound /\ UNCHANGED <<outcome, unscanned, jobs, jobsOpen, errorChan, open, collector, rules, errors, cancelled>>
    BY <1>4 DEF L!SendRule, Sound
  <2>2. ~cancelled => open
    BY <1>0, <2>1
  <2>3. CASE Len(ruleChan) < RuleCap /\ ruleChan' = Append(ruleChan, parser[p]) /\ parser' = [parser EXCEPT ![p] = L!NoFile]
    <3>1. In(ruleChan') = In(ruleChan) \cup {parser[p]} /\ ruleChan' \in Seq(Sound) /\ Len(ruleChan') <= RuleCap
      <4> HIDE DEF Sound
      <4>1. ruleChan \in Seq(Sound)
        BY DEF LoaderInv
      <4> QED
        BY <1>0, <2>1, <2>3, <4>1, InChannel
    <3>2. parser' \in [Parsers -> Files \cup {L!NoFile, L!Ended}] /\ \A o \in Parsers \ {p} : parser'[o] = parser[o]
      BY <1>0, <2>3
    <3> QED
      BY <1>0, <2>1, <2>2, <2>3, <3>1, <3>2 DEF L!TypeOK, L!Accounted, Settled
  <2>4. CASE cancelled /\ parser' = [parser EXCEPT ![p] = L!Ended] /\ ruleChan' = ruleChan
    <3>1. parser' \in [Parsers -> Files \cup {L!NoFile, L!Ended}]
      BY <1>0, <2>4
    <3> QED
      BY <1>0, <2>1, <2>4, <3>1 DEF L!TypeOK, L!Accounted
  <2> QED
    BY <1>4, <2>3, <2>4 DEF L!SendRule
<1>5. ASSUME NEW p \in Parsers, L!SendError(p) PROVE LoaderInv'
  <2>1. parser[p] \in Unsound /\ Len(errorChan) < ErrorCap /\ errorChan' = Append(errorChan, parser[p])
        /\ parser' = [parser EXCEPT ![p] = L!NoFile]
        /\ UNCHANGED <<outcome, unscanned, jobs, jobsOpen, ruleChan, open, collector, rules, errors, cancelled>>
    BY <1>5 DEF L!SendError, Unsound
  <2>2. ~cancelled => open
    BY <1>0, <2>1
  <2>3. In(errorChan') = In(errorChan) \cup {parser[p]} /\ errorChan' \in Seq(Unsound) /\ Len(errorChan') <= ErrorCap
    BY <1>0, <2>1, InChannel
  <2>4. parser' \in [Parsers -> Files \cup {L!NoFile, L!Ended}] /\ \A o \in Parsers \ {p} : parser'[o] = parser[o]
    BY <1>0, <2>1
  <2> QED
    BY <1>0, <2>1, <2>2, <2>3, <2>4 DEF L!TypeOK, L!Accounted, Settled
<1>6. ASSUME NEW p \in Parsers, L!ParserEnds(p) PROVE LoaderInv'
  <2>1. parser[p] = L!NoFile /\ jobs = <<>> /\ ~jobsOpen /\ parser' = [parser EXCEPT ![p] = L!Ended]
        /\ UNCHANGED <<outcome, unscanned, jobs, jobsOpen, ruleChan, errorChan, open, collector, rules, errors, cancelled>>
    BY <1>6 DEF L!ParserEnds
  <2>2. parser' \in [Parsers -> Files \cup {L!NoFile, L!Ended}] /\ \A o \in Parsers \ {p} : parser'[o] = parser[o]
    BY <1>0, <2>1
  <2> QED
    BY <1>0, <2>1, <2>2 DEF L!TypeOK, L!Accounted, Settled
<1>7. CASE L!CloseResults
  <2>1. (\A p \in Parsers : parser[p] = L!Ended) /\ open' = FALSE
        /\ UNCHANGED <<outcome, unscanned, jobs, jobsOpen, parser, ruleChan, errorChan, collector, rules, errors, cancelled>>
    BY <1>7 DEF L!CloseResults
  <2> QED
    BY <2>1 DEF L!TypeOK, L!Accounted, Settled
<1>8. CASE L!CollectRule
  <2>1. collector = "collecting" /\ ruleChan # <<>> /\ ruleChan' = Tail(ruleChan)
        /\ rules' = (IF outcome[Head(ruleChan)] = "rule" THEN rules \cup {Head(ruleChan)} ELSE rules)
        /\ UNCHANGED <<outcome, unscanned, jobs, jobsOpen, parser, errorChan, open, collector, errors, cancelled>>
    BY <1>8 DEF L!CollectRule
  <2>2. In(ruleChan) \subseteq In(ruleChan') \cup {Head(ruleChan)} /\ ruleChan' \in Seq(Sound) /\ Len(ruleChan') <= RuleCap
        /\ Head(ruleChan) \in Sound
    BY <1>0, <2>1, InChannel DEF L!TypeOK
  <2>3. /\ rules \subseteq rules' /\ rules' \subseteq {f \in Files : outcome[f] = "rule"}
        /\ outcome[Head(ruleChan)] = "rule" => Head(ruleChan) \in rules'
    BY <2>1, <2>2
  <2> QED
    BY <1>0, <2>1, <2>2, <2>3 DEF L!TypeOK, L!Accounted, Settled
<1>9. CASE L!CollectError
  <2>1. collector = "collecting" /\ errorChan # <<>> /\ errorChan' = Tail(errorChan)
        /\ errors' = (IF outcome[Head(errorChan)] = "error" THEN errors \cup {Head(errorChan)} ELSE errors)
        /\ UNCHANGED <<outcome, unscanned, jobs, jobsOpen, parser, ruleChan, open, collector, rules, cancelled>>
    BY <1>9 DEF L!CollectError
  <2>2. In(errorChan) \subseteq In(errorChan') \cup {Head(errorChan)} /\ errorChan' \in Seq(Unsound) /\ Len(errorChan') <= ErrorCap
        /\ Head(errorChan) \in Unsound
    BY <1>0, <2>1, InChannel DEF L!TypeOK
  <2>3. /\ errors \subseteq errors' /\ errors' \subseteq {f \in Files : outcome[f] = "error"}
        /\ outcome[Head(errorChan)] = "error" => Head(errorChan) \in errors'
    BY <2>1, <2>2
  <2> QED
    BY <1>0, <2>1, <2>2, <2>3 DEF L!TypeOK, L!Accounted, Settled
<1>10. CASE L!LoadReturns
  <2>1. collector = "collecting" /\ ~open /\ ruleChan = <<>> /\ errorChan = <<>> /\ collector' = "returned"
        /\ UNCHANGED <<outcome, unscanned, jobs, jobsOpen, parser, ruleChan, errorChan, open, rules, errors, cancelled>>
    BY <1>10 DEF L!LoadReturns
  <2>2. ASSUME ~cancelled, NEW f \in Files PROVE Settled(f)
    <3>1. unscanned = {} /\ jobs = <<>> /\ \A p \in Parsers : parser[p] = L!Ended
      BY <2>1, <2>2, LoaderAssumption
    <3>2. In(jobs) = {} /\ In(ruleChan) = {} /\ In(errorChan) = {}
      BY <2>1, <3>1 DEF In
    <3> QED
      BY <1>0, <2>2, <3>1, <3>2
  <2>3. L!Accounted'
    BY <2>1, <2>2 DEF L!Accounted, Settled
  <2> QED
    BY <2>1, <2>3 DEF L!TypeOK, Settled
<1>11. CASE L!LoadFails
  <2>1. cancelled /\ collector' = "failed"
        /\ UNCHANGED <<outcome, unscanned, jobs, jobsOpen, parser, ruleChan, errorChan, open, rules, errors, cancelled>>
    BY <1>11 DEF L!LoadFails
  <2> QED
    BY <2>1 DEF L!TypeOK, L!Accounted
<1>12. CASE L!Cancel
  <2>1. cancelled' = TRUE /\ ~cancelled
        /\ UNCHANGED <<outcome, unscanned, jobs, jobsOpen, parser, ruleChan, errorChan, open, rules, errors, collector>>
    BY <1>12 DEF L!Cancel
  <2> QED
    BY <2>1 DEF L!TypeOK, L!Accounted
<1>13. CASE UNCHANGED L!vars
  BY <1>13 DEF L!vars, L!TypeOK, L!Accounted, Settled
<1> QED
  BY <1>1, <1>2, <1>3, <1>4, <1>5, <1>6, <1>7, <1>8, <1>9, <1>10, <1>11, <1>12, <1>13
     DEF L!Next, L!ScanStep, L!CollectStep, L!ParserStep

-----------------------------------------------------------------------------
(* The counter.                                                              *)

Groups == [Occurrences : Seq(Nat), FirstSeen : Nat, LastSeen : Nat]

InOrder(h) == \A i, j \in 1 .. Len(h) : i <= j => h[i] <= h[j]
TooOld(h, n, now) == \A i \in 1 .. n : h[i] < now - WindowSize
InTime(h, n, now) == \A i \in n + 1 .. Len(h) : h[i] >= now - WindowSize

\* The group g keeps what is left of the history h after its first n events.
Keeps(g, h, n) ==
    g.Occurrences = SubSeq(h, n + 1, Len(h)) /\ (n < Len(h) => g.FirstSeen = h[n + 1])

\* What the group has dropped is older than the window, and a group that is there keeps something.
CounterInv ==
    /\ time \in 1 .. MaxTime /\ history \in Seq(Nat) /\ Len(history) <= MaxCounted
    /\ group \in Groups
    /\ \A i \in 1 .. Len(history) : history[i] <= time
    /\ \A i \in 1 .. Len(history) : history[i] # 0
    /\ InOrder(history)
    /\ \E n \in 0 .. Len(history) :
           Keeps(group, history, n) /\ TooOld(history, n, time) /\ (n = Len(history) => group = N!NoGroup)
    /\ N!StatisticsTrue

\* What sort.Search finds: the first occurrence that is not too old.
LEMMA CutoffFound ==
    ASSUME NEW s \in Seq(Nat), NEW now \in Nat
    PROVE  /\ N!Cutoff(s, now) \in 1 .. Len(s) + 1
           /\ N!Cutoff(s, now) <= Len(s) => N!inWindow(s[N!Cutoff(s, now)], now)
           /\ \A j \in 1 .. N!Cutoff(s, now) - 1 : ~N!inWindow(s[j], now)
<1> DEFINE T == {i \in 1 .. Len(s) + 1 : i <= Len(s) => N!inWindow(s[i], now)}
<1>1. Len(s) + 1 \in T /\ T \subseteq Nat
  OBVIOUS
<1>2. PICK i \in T : \A j \in T : i <= j
  BY <1>1, Least
<1>3. \A j \in 1 .. i - 1 : ~N!inWindow(s[j], now)
  BY <1>2
<1>4. \E k \in 1 .. Len(s) + 1 : (k <= Len(s) => N!inWindow(s[k], now)) /\ \A j \in 1 .. k - 1 : ~N!inWindow(s[j], now)
  BY <1>2, <1>3
<1> QED
  BY <1>4 DEF N!Cutoff

\* A sequence without its first k elements.
LEMMA From ==
    ASSUME NEW S, NEW s \in Seq(S), NEW k \in 0 .. Len(s)
    PROVE  /\ SubSeq(s, k + 1, Len(s)) \in Seq(S)
           /\ Len(SubSeq(s, k + 1, Len(s))) = Len(s) - k
           /\ \A i \in 1 .. Len(s) - k : SubSeq(s, k + 1, Len(s))[i] = s[k + i]
<1>1. k + 1 \in Int /\ Len(s) \in Nat /\ \A i \in k + 1 .. Len(s) : s[i] \in S
  OBVIOUS
<1>2. /\ SubSeq(s, k + 1, Len(s)) \in Seq(S)
      /\ Len(SubSeq(s, k + 1, Len(s))) = IF k + 1 <= Len(s) THEN Len(s) - (k + 1) + 1 ELSE 0
      /\ \A i \in 1 .. Len(s) - (k + 1) + 1 : SubSeq(s, k + 1, Len(s))[i] = s[(k + 1) + i - 1]
  BY <1>1, SubSeqProperties
<1>3. ASSUME NEW i \in 1 .. Len(s) - k PROVE SubSeq(s, k + 1, Len(s))[i] = s[k + i]
  <2>1. i \in 1 .. Len(s) - (k + 1) + 1 /\ (k + 1) + i - 1 = k + i
    BY <1>1
  <2> QED
    BY <1>2, <2>1
<1> QED
  BY <1>1, <1>2, <1>3

\* Cleaning what is kept leaves what is still in the window.
LEMMA Cleaned ==
    ASSUME NEW now \in Nat, NEW h \in Seq(Nat), NEW n \in 0 .. Len(h), NEW g \in Groups,
           n < Len(h), Keeps(g, h, n), TooOld(h, n, now), InOrder(h)
    PROVE  LET c == N!cleanOldOccurrences(g, now) IN
           /\ c \in Groups /\ c.LastSeen = g.LastSeen
           /\ \E m \in 0 .. Len(h) : Keeps(c, h, m) /\ TooOld(h, m, now) /\ InTime(h, m, now)
<1> DEFINE s == g.Occurrences
           idx == N!Cutoff(s, now)
           c == N!cleanOldOccurrences(g, now)
<1>1. Len(h) \in Nat /\ WindowSize \in Nat /\ s \in Seq(Nat) /\ Len(s) = Len(h) - n
      /\ \A i \in 1 .. Len(s) : s[i] = h[n + i]
  <2>1. s = SubSeq(h, n + 1, Len(h)) /\ Len(h) \in Nat /\ WindowSize \in Nat
    BY CounterAssumption DEF Keeps
  <2>2. SubSeq(h, n + 1, Len(h)) \in Seq(Nat) /\ Len(SubSeq(h, n + 1, Len(h))) = Len(h) - n
        /\ \A i \in 1 .. Len(h) - n : SubSeq(h, n + 1, Len(h))[i] = h[n + i]
    BY From
  <2> QED
    BY <2>1, <2>2, Zenon
<1>2. c = [g EXCEPT !.Occurrences = SubSeq(s, idx, Len(s)),
                    !.FirstSeen = IF idx > 1 /\ SubSeq(s, idx, Len(s)) # <<>> THEN SubSeq(s, idx, Len(s))[1] ELSE @]
  BY DEF N!cleanOldOccurrences
<1>3. /\ idx \in 1 .. Len(s) + 1
      /\ idx <= Len(s) => s[idx] >= now - WindowSize
      /\ \A j \in 1 .. idx - 1 : ~(s[j] >= now - WindowSize)
  BY <1>1, CutoffFound DEF N!inWindow
<1> HIDE DEF idx, c, s
<1>4. PICK k \in 0 .. Len(s) : idx = k + 1
  BY <1>1, <1>3
<1>5. PICK m \in 0 .. Len(h) : m = n + k
  BY <1>1, <1>4
<1> DEFINE t == SubSeq(s, k + 1, Len(s))
           u == SubSeq(h, m + 1, Len(h))
<1>6. t \in Seq(Nat) /\ Len(t) = Len(s) - k /\ \A i \in 1 .. Len(s) - k : t[i] = s[k + i]
  BY <1>1, From
<1>7. u \in Seq(Nat) /\ Len(u) = Len(h) - m /\ \A i \in 1 .. Len(h) - m : u[i] = h[m + i]
  BY From
<1>8. c = [g EXCEPT !.Occurrences = t, !.FirstSeen = IF k > 0 /\ t # <<>> THEN t[1] ELSE @]
  <2>1. idx > 1 <=> k > 0
    BY <1>4
  <2> HIDE DEF t
  <2>2. SubSeq(s, idx, Len(s)) = t
    BY <1>4 DEF t
  <2> QED
    BY <1>2, <2>1, <2>2
<1> HIDE DEF t, u
<1>9. t = u
  <2>1. Len(t) = Len(u)
    BY <1>1, <1>5, <1>6, <1>7
  <2>2. ASSUME NEW i \in 1 .. Len(t) PROVE t[i] = u[i]
    <3>1. t[i] = s[k + i] /\ k + i \in 1 .. Len(s) /\ k \in Int
      BY <1>1, <1>6, <2>2
    <3>2. s[k + i] = h[n + (k + i)] /\ n + (k + i) = m + i
      BY <1>1, <1>5, <3>1
    <3>3. u[i] = h[m + i]
      BY <1>7, <2>1, <1>1
    <3> QED
      BY <3>1, <3>2, <3>3
  <2> QED
    BY <1>6, <1>7, <2>1, <2>2, SeqEqual
<1>10. TooOld(h, m, now)
  <2> SUFFICES ASSUME NEW i \in 1 .. m PROVE h[i] < now - WindowSize
    BY DEF TooOld
  <2>1. CASE i <= n
    BY <2>1 DEF TooOld
  <2>2. CASE i > n
    <3>1. PICK j \in 1 .. k : i = n + j
      BY <1>5, <2>2
    <3>2. s[j] = h[i] /\ ~(s[j] >= now - WindowSize) /\ s[j] \in Nat
      <4>3. Len(s) \in Nat /\ k \in Int /\ k <= Len(s) /\ j \in 1 .. k
        BY <1>1, <1>4, <3>1
      <4>4. j \in 1 .. Len(s)
        BY <4>3
      <4>5. j \in 1 .. idx - 1
        BY <1>4, <4>3
      <4>6. i \in 1 .. Len(h)
        BY <1>1, <1>5
      <4>7. h[i] \in Nat
        BY <4>6
      <4>1. j \in 1 .. Len(s) /\ j \in 1 .. idx - 1 /\ h[i] \in Nat
        BY <4>4, <4>5, <4>7
      <4>2. s[j] = h[n + j] /\ ~(s[j] >= now - WindowSize)
        BY <1>1, <1>3, <4>1, Zenon
      <4> QED
        BY <3>1, <4>1, <4>2
    <3>3. WindowSize \in Nat
      BY <1>1
    <3> QED
      BY <3>2, <3>3
  <2> QED
    BY <2>1, <2>2
<1>11. InTime(h, m, now)
  <2> SUFFICES ASSUME NEW i \in m + 1 .. Len(h) PROVE h[i] >= now - WindowSize
    BY DEF InTime
  <2>1. k + 1 \in 1 .. Len(s) /\ n + (k + 1) = m + 1 /\ m + 1 \in 1 .. Len(h) /\ i \in 1 .. Len(h) /\ m + 1 <= i
    BY <1>1, <1>5
  <2>2. s[k + 1] = h[m + 1] /\ s[k + 1] >= now - WindowSize
    <3>1. s[k + 1] = h[n + (k + 1)]
      BY <1>1, <2>1, Zenon
    <3>2. idx <= Len(s)
      BY <1>4, <2>1
    <3> QED
      BY <1>3, <1>4, <2>1, <3>1, <3>2
  <2>3. h[m + 1] <= h[i] /\ h[i] \in Nat /\ h[m + 1] \in Nat
    BY <2>1 DEF InOrder
  <2> QED
    BY <1>1, <2>2, <2>3
<1>12. c \in Groups /\ c.LastSeen = g.LastSeen /\ c.Occurrences = t
  <2>1. t # <<>> => t[1] \in Nat
    BY <1>6
  <2> QED
    BY <1>6, <1>8, <2>1 DEF Groups
<1>13. ASSUME m < Len(h) PROVE c.FirstSeen = h[m + 1]
  <2>1. t # <<>> /\ t[1] = h[m + 1]
    <3>1. 1 \in 1 .. Len(h) - m
      BY <1>13
    <3>2. Len(u) > 0 /\ u[1] = h[m + 1]
      BY <1>7, <1>13, <3>1
    <3> QED
      BY <1>7, <1>9, <3>2
  <2>2. c.FirstSeen = IF k > 0 /\ t # <<>> THEN t[1] ELSE g.FirstSeen
    BY <1>8 DEF Groups
  <2>3. k = 0 => m = n
    BY <1>5
  <2> QED
    BY <2>1, <2>2, <2>3 DEF Keeps
<1>14. Keeps(c, h, m)
  BY <1>9, <1>12, <1>13 DEF Keeps, u
<1> QED
  BY <1>10, <1>11, <1>12, <1>14 DEF c

\* The part counts with the one Cardinality.
LEMMA CounterCounts == \A T : N!Cardinality(T) = Cardinality(T)
BY DEF N!Cardinality, Cardinality

\* At first there is neither history nor group.
LEMMA CounterInit == N!Init => CounterInv
<1> SUFFICES ASSUME N!Init PROVE CounterInv
  OBVIOUS
<1>1. group \in Groups
  BY DEF N!Init, N!NoGroup, Groups
<1>2. history = <<>> /\ Len(history) = 0
  BY DEF N!Init
<1>3. Keeps(group, history, 0)
  <2>1. SubSeq(history, 0 + 1, Len(history)) = <<>>
    BY <1>2, SubSeqEmpty
  <2> QED
    BY <1>2, <2>1 DEF Keeps, N!Init, N!NoGroup
<1>4. TooOld(history, 0, time) /\ InOrder(history)
  BY <1>2 DEF TooOld, InOrder
<1>5. N!StatisticsTrue
  BY DEF N!Init, N!StatisticsTrue
<1> QED
  BY <1>1, <1>2, <1>3, <1>4, <1>5, CounterAssumption DEF CounterInv, N!Init

\* The history with the event of now, in order like the one before.
LEMMA Grown ==
    ASSUME NEW h \in Seq(Nat), NEW t \in Nat, InOrder(h), \A i \in 1 .. Len(h) : h[i] <= t
    PROVE  /\ Append(h, t) \in Seq(Nat) /\ Len(Append(h, t)) = Len(h) + 1 /\ Len(h) \in Nat
           /\ Append(h, t)[Len(h) + 1] = t /\ (\A i \in 1 .. Len(h) : Append(h, t)[i] = h[i])
           /\ InOrder(Append(h, t)) /\ \A i \in 1 .. Len(h) + 1 : Append(h, t)[i] <= t
<1>1. /\ Append(h, t) \in Seq(Nat) /\ Len(Append(h, t)) = Len(h) + 1 /\ Len(h) \in Nat
      /\ Append(h, t)[Len(h) + 1] = t /\ (\A i \in 1 .. Len(h) : Append(h, t)[i] = h[i])
  OBVIOUS
<1>2. \A i \in 1 .. Len(h) + 1 : Append(h, t)[i] <= t
  BY <1>1
<1>3. ASSUME NEW i \in 1 .. Len(h) + 1, NEW j \in 1 .. Len(h) + 1, i <= j
      PROVE  Append(h, t)[i] <= Append(h, t)[j]
  <2>1. CASE j = Len(h) + 1
    BY <1>1, <1>2, <2>1
  <2>2. CASE j # Len(h) + 1
    <3>1. i \in 1 .. Len(h) /\ j \in 1 .. Len(h)
      BY <1>1, <1>3, <2>2
    <3> QED
      BY <1>1, <1>3, <3>1 DEF InOrder
  <2> QED
    BY <2>1, <2>2
<1>4. InOrder(Append(h, t))
  BY <1>1, <1>3 DEF InOrder
<1> QED
  BY <1>1, <1>2, <1>4

\* An event more: the group keeps it too.
LEMMA KeepsOneMore ==
    ASSUME NEW h \in Seq(Nat), NEW t \in Nat, NEW n \in 0 .. Len(h), NEW g \in Groups, Keeps(g, h, n),
           n = Len(h) => g = N!NoGroup, NEW f, f = [Occurrences |-> Append(g.Occurrences, t),
                     FirstSeen |-> IF g = N!NoGroup THEN t ELSE g.FirstSeen, LastSeen |-> t]
    PROVE  f \in Groups /\ Keeps(f, Append(h, t), n) /\ n < Len(Append(h, t)) /\ n \in 0 .. Len(Append(h, t))
<1> DEFINE s == g.Occurrences
           k == Append(h, t)
           u == SubSeq(k, n + 1, Len(k))
<1>0. s = SubSeq(h, n + 1, Len(h)) /\ Len(h) \in Nat
  BY DEF Keeps
<1>r. SubSeq(h, n + 1, Len(h)) \in Seq(Nat) /\ Len(SubSeq(h, n + 1, Len(h))) = Len(h) - n
      /\ \A i \in 1 .. Len(h) - n : SubSeq(h, n + 1, Len(h))[i] = h[n + i]
  BY From
<1>1. s \in Seq(Nat) /\ Len(s) = Len(h) - n /\ Len(h) \in Nat
  BY <1>0, <1>r, Zenon
<1>2. \A i \in 1 .. Len(h) - n : s[i] = h[n + i]
  BY <1>0, <1>r, Zenon
<1>3. k \in Seq(Nat) /\ Len(k) = Len(h) + 1 /\ k[Len(h) + 1] = t /\ \A i \in 1 .. Len(h) : k[i] = h[i]
  OBVIOUS
<1>4. f \in Groups
  <2>1. Append(s, t) \in Seq(Nat)
    BY <1>1
  <2> QED
    BY <2>1 DEF Groups
<1>5. n \in 0 .. Len(k) /\ n < Len(k)
  BY <1>1, <1>3
<1> HIDE DEF k
<1>6. u \in Seq(Nat) /\ Len(u) = Len(k) - n /\ \A i \in 1 .. Len(k) - n : u[i] = k[n + i]
  BY <1>3, <1>5, From
<1> HIDE DEF u, s
<1>7. /\ Append(s, t) \in Seq(Nat) /\ Len(Append(s, t)) = Len(s) + 1
      /\ Append(s, t)[Len(s) + 1] = t /\ \A i \in 1 .. Len(s) : Append(s, t)[i] = s[i]
  BY <1>1
<1>8. ASSUME NEW i \in 1 .. Len(u) PROVE Append(s, t)[i] = u[i]
  <2>0. Len(u) = Len(s) + 1 /\ Len(s) \in Nat /\ n \in Nat /\ Len(s) = Len(h) - n /\ u[i] = k[n + i]
    BY <1>1, <1>3, <1>6
  <2>1. CASE i = Len(s) + 1
    <3>1. n + i = Len(h) + 1
      BY <1>1, <2>0, <2>1
    <3> QED
      BY <1>3, <1>7, <2>0, <2>1, <3>1
  <2>2. CASE i # Len(s) + 1
    <3>1. i \in 1 .. Len(s) /\ n + i \in 1 .. Len(h) /\ i \in 1 .. Len(h) - n
      <4>1. i \in 1 .. Len(s)
        BY <2>0, <2>2
      <4>2. n + i \in 1 .. Len(h)
        BY <1>1, <2>0, <4>1
      <4> QED
        BY <1>1, <2>0, <4>1, <4>2
    <3>2. Append(s, t)[i] = s[i] /\ s[i] = h[n + i] /\ k[n + i] = h[n + i]
      BY <1>2, <1>3, <1>7, <3>1, Zenon
    <3> QED
      BY <2>0, <3>2
  <2> QED
    BY <2>1, <2>2
<1>9. Append(s, t) = u
  <2>1. Len(Append(s, t)) = Len(u)
    BY <1>1, <1>3, <1>6, <1>7
  <2> QED
    BY <1>6, <1>7, <1>8, <2>1, SeqEqual
<1>10. f.FirstSeen = k[n + 1]
  <2>1. CASE n = Len(h)
    BY <1>3, <2>1
  <2>2. CASE n # Len(h)
    <3>1. n < Len(h) /\ n + 1 \in 1 .. Len(h)
      BY <1>1, <2>2
    <3>2. g.FirstSeen = h[n + 1] /\ k[n + 1] = h[n + 1]
      BY <1>3, <3>1 DEF Keeps
    <3>3. g # N!NoGroup
      <4>1. Len(s) # 0
        BY <1>1, <3>1
      <4> QED
        BY <4>1 DEF N!NoGroup, s
    <3> QED
      BY <3>2, <3>3
  <2> QED
    BY <2>1, <2>2
<1>11. Keeps(f, k, n)
  BY <1>9, <1>10 DEF Keeps, u, s
<1> QED
  BY <1>4, <1>5, <1>11 DEF k

\* The statistics of an alert are those of the events in the window that ends with it.
LEMMA EnrichSteps ==
    ASSUME CounterInv, NEW critical \in BOOLEAN, N!EnrichAlert(critical)
    PROVE  CounterInv'
<1> DEFINE h == Append(history, time)
           f == [Occurrences |-> Append(group.Occurrences, time),
                 FirstSeen |-> IF group = N!NoGroup THEN time ELSE group.FirstSeen, LastSeen |-> time]
<1>1. time \in Nat \ {0} /\ history \in Seq(Nat) /\ time \in 1 .. MaxTime /\ group \in Groups
      /\ Len(history) < MaxCounted /\ WindowSize \in Nat /\ MaxCounted \in Nat
  BY CounterAssumption DEF CounterInv, N!EnrichAlert
<1>2. history' = h /\ time' = time /\ group' = N!cleanOldOccurrences(f, time)
      /\ enriched'.EventCount = Len(group'.Occurrences) /\ enriched'.at = time
      /\ enriched'.FirstSeen = group'.FirstSeen /\ enriched'.LastSeen = group'.LastSeen
  BY DEF N!EnrichAlert, N!Recorded
<1>3. PICK n \in 0 .. Len(history) :
          Keeps(group, history, n) /\ TooOld(history, n, time) /\ (n = Len(history) => group = N!NoGroup)
  BY DEF CounterInv
<1>4. f \in Groups /\ Keeps(f, h, n) /\ n < Len(h) /\ n \in 0 .. Len(h)
  BY <1>1, <1>3, KeepsOneMore
<1>5. InOrder(history) /\ \A i \in 1 .. Len(history) : history[i] <= time
  BY DEF CounterInv
<1>6. /\ h \in Seq(Nat) /\ Len(h) = Len(history) + 1 /\ Len(history) \in Nat
      /\ h[Len(h)] = time /\ (\A i \in 1 .. Len(history) : h[i] = history[i])
      /\ InOrder(h) /\ \A i \in 1 .. Len(h) : h[i] <= time
  BY <1>1, <1>5, Grown
<1>7. f.LastSeen = time
  OBVIOUS
<1>8. \A i \in 1 .. Len(h) : h[i] # 0
  <2>1. \A i \in 1 .. Len(history) : history[i] # 0
    BY DEF CounterInv
  <2> QED
    BY <1>1, <1>6, <2>1
<1> HIDE DEF h, f
<1>9. TooOld(h, n, time)
  BY <1>3, <1>6 DEF TooOld
<1>10. PICK m \in 0 .. Len(h) : Keeps(group', h, m) /\ TooOld(h, m, time) /\ InTime(h, m, time)
  BY <1>1, <1>2, <1>4, <1>6, <1>9, Cleaned
<1>11. group' \in Groups /\ group'.LastSeen = time
  BY <1>1, <1>2, <1>4, <1>6, <1>7, <1>9, Cleaned
<1>12. m < Len(h)
  <2> SUFFICES ASSUME m = Len(h) PROVE FALSE
    BY <1>6
  <2>1. Len(h) \in 1 .. m
    BY <1>6
  <2>2. h[Len(h)] < time - WindowSize
    BY <1>10, <2>1 DEF TooOld
  <2> QED
    BY <1>1, <1>6, <2>2
<1>13. group'.FirstSeen = h[m + 1] /\ Len(group'.Occurrences) = Len(h) - m
  <2>1. Len(SubSeq(h, m + 1, Len(h))) = Len(h) - m
    BY <1>6, From
  <2> QED
    BY <1>10, <1>12, <2>1 DEF Keeps
<1>14. N!StatisticsTrue'
  <2> DEFINE W == {i \in 1 .. Len(h) : h[i] <= time /\ h[i] >= time - WindowSize}
  <2>1. W = m + 1 .. Len(h)
    <3>1. ASSUME NEW i \in W PROVE i \in m + 1 .. Len(h)
      <4>1. h[i] \in Nat /\ h[i] >= time - WindowSize
        BY <1>6, <3>1
      <4>2. i \notin 1 .. m
        BY <1>1, <1>10, <4>1 DEF TooOld
      <4> QED
        BY <3>1, <4>2, <1>6
    <3>2. ASSUME NEW i \in m + 1 .. Len(h) PROVE i \in W
      <4>1. i \in 1 .. Len(h)
        BY <1>6
      <4>2. h[i] >= time - WindowSize
        BY <1>10 DEF InTime
      <4> QED
        BY <1>6, <4>1, <4>2
    <3> QED
      BY <3>1, <3>2
  <2>2. Cardinality(W) = Len(h) - m
    <3>1. m + 1 \in Int /\ Len(h) \in Int
      BY <1>6
    <3>2. Cardinality(m + 1 .. Len(h)) = IF m + 1 > Len(h) THEN 0 ELSE Len(h) - (m + 1) + 1
      BY <3>1, FS_Interval
    <3>3. m \in Nat /\ Len(h) \in Nat /\ m < Len(h)
      BY <1>6, <1>12
    <3>4. Cardinality(m + 1 .. Len(h)) = Len(h) - m
      BY <3>2, <3>3
    <3> QED
      BY <2>1, <3>4
  <2>3. \A i \in W : h[m + 1] <= h[i]
    <3> TAKE i \in W
    <3>0. i \in W
      OBVIOUS
    <3> HIDE DEF W
    <3>1. i \in m + 1 .. Len(h)
      BY <2>1, <3>0, Zenon
    <3>2. m \in Nat /\ Len(h) \in Nat
      BY <1>6
    <3>3. m + 1 \in 1 .. Len(h) /\ i \in 1 .. Len(h) /\ m + 1 <= i
      BY <3>1, <3>2
    <3> QED
      BY <1>6, <3>3 DEF InOrder
  <2>4. m + 1 \in W
    BY <1>6, <1>12, <2>1
  <2>5. W = {i \in 1 .. Len(history') : history'[i] <= enriched'.at /\ history'[i] >= enriched'.at - WindowSize}
    BY <1>2
  <2> HIDE DEF W
  <2>6. enriched'.EventCount = N!Cardinality(W) /\ enriched'.LastSeen = enriched'.at
    BY <1>2, <1>11, <1>13, <2>2, CounterCounts
  <2>7. (\A i \in W : enriched'.FirstSeen <= history'[i]) /\ \E i \in W : enriched'.FirstSeen = history'[i]
    BY <1>2, <1>13, <2>3, <2>4
  <2> QED
    BY <2>5, <2>6, <2>7 DEF N!StatisticsTrue
<1>15. Len(history') <= MaxCounted
  BY <1>1, <1>2, <1>6
<1> QED
  BY <1>1, <1>2, <1>6, <1>8, <1>10, <1>11, <1>12, <1>14, <1>15 DEF CounterInv

\* A cleanup drops what is too old, and a group of which nothing is left.
LEMMA CleanupSteps == ASSUME CounterInv, N!Cleanup PROVE CounterInv'
<1> DEFINE c == N!cleanOldOccurrences(group, time)
<1>1. time \in Nat /\ history \in Seq(Nat) /\ group \in Groups /\ InOrder(history) /\ Len(history) \in Nat
  BY CounterAssumption DEF CounterInv
<1>2. UNCHANGED <<time, history, enriched>> /\ group' = IF c.Occurrences = <<>> THEN N!NoGroup ELSE c
  BY DEF N!Cleanup
<1>3. PICK n \in 0 .. Len(history) :
          Keeps(group, history, n) /\ TooOld(history, n, time) /\ (n = Len(history) => group = N!NoGroup)
  BY DEF CounterInv
<1> SUFFICES /\ group' \in Groups
             /\ \E m \in 0 .. Len(history) : /\ Keeps(group', history, m) /\ TooOld(history, m, time)
                                             /\ m = Len(history) => group' = N!NoGroup
  BY <1>2 DEF CounterInv, N!StatisticsTrue
<1>4. N!NoGroup \in Groups
  BY DEF N!NoGroup, Groups
<1>5. CASE n = Len(history)
  <2>1. group.Occurrences = <<>>
    BY <1>3, <1>5 DEF N!NoGroup
  <2>2. N!Cutoff(<<>>, time) = 1
    <3>1. <<>> \in Seq(Nat) /\ 1 .. Len(<<>>) + 1 = {1}
      OBVIOUS
    <3>2. N!Cutoff(<<>>, time) \in 1 .. Len(<<>>) + 1
      BY <1>1, <3>1, CutoffFound
    <3> QED
      BY <3>1, <3>2
  <2>3. SubSeq(<<>>, 1, Len(<<>>)) = <<>>
    BY SubSeqEmpty
  <2>4. c.Occurrences = <<>>
    BY <1>1, <2>1, <2>2, <2>3 DEF N!cleanOldOccurrences, Groups
  <2>5. group' = group
    BY <1>2, <1>3, <1>5, <2>4
  <2> QED
    BY <1>1, <1>3, <2>5
<1>6. CASE n # Len(history)
  <2>1. n < Len(history)
    BY <1>1, <1>6
  <2>2. PICK m \in 0 .. Len(history) : Keeps(c, history, m) /\ TooOld(history, m, time) /\ InTime(history, m, time)
    BY <1>1, <1>3, <2>1, Cleaned
  <2>3. c \in Groups
    BY <1>1, <1>3, <2>1, Cleaned
  <2>4. c.Occurrences = SubSeq(history, m + 1, Len(history)) /\ Len(SubSeq(history, m + 1, Len(history))) = Len(history) - m
    BY <1>1, <2>2, From DEF Keeps
  <2> HIDE DEF c
  <2>5. CASE c.Occurrences = <<>>
    <3>1. m = Len(history)
      BY <1>1, <2>4, <2>5
    <3>2. Keeps(N!NoGroup, history, m)
      BY <1>1, <2>4, <2>5, <3>1 DEF Keeps, N!NoGroup
    <3> QED
      BY <1>2, <1>4, <2>2, <2>5, <3>2
  <2>6. CASE c.Occurrences # <<>>
    <3>1. m # Len(history)
      <4>1. m = Len(history) => SubSeq(history, m + 1, Len(history)) = <<>>
        BY <1>1, SubSeqEmpty
      <4> QED
        BY <2>4, <2>6, <4>1
    <3> QED
      BY <1>2, <2>2, <2>3, <2>6, <3>1
  <2> QED
    BY <2>5, <2>6
<1> QED
  BY <1>5, <1>6

\* Every step of the counter keeps the invariant.
LEMMA CounterStep == ASSUME CounterInv, [N!Next]_(N!vars) PROVE CounterInv'
<1>1. CASE N!Tick
  <2>1. time \in Nat /\ time' = time + 1 /\ time' \in 1 .. MaxTime /\ UNCHANGED <<group, history, enriched>>
        /\ WindowSize \in Nat /\ history \in Seq(Nat)
    BY <1>1, CounterAssumption DEF CounterInv, N!Tick
  <2>2. PICK n \in 0 .. Len(history) :
            Keeps(group, history, n) /\ TooOld(history, n, time) /\ (n = Len(history) => group = N!NoGroup)
    BY DEF CounterInv
  <2>3. TooOld(history, n, time')
    BY <2>1, <2>2 DEF TooOld
  <2>4. \A i \in 1 .. Len(history) : history[i] <= time'
    BY <2>1 DEF CounterInv
  <2> QED
    BY <2>1, <2>2, <2>3, <2>4 DEF CounterInv, N!StatisticsTrue
<1>2. CASE UNCHANGED N!vars
  BY <1>2 DEF N!vars, CounterInv, N!StatisticsTrue
<1> QED
  BY <1>1, <1>2, EnrichSteps, CleanupSteps DEF N!Next

\* The counter's type.
LEMMA CounterTypes == CounterInv => N!TypeOK
<1> SUFFICES ASSUME CounterInv PROVE N!TypeOK
  OBVIOUS
<1>1. PICK n \in 0 .. Len(history) : Keeps(group, history, n)
  BY DEF CounterInv
<1>2. history \in Seq(Nat) /\ time \in 1 .. MaxTime /\ Len(history) \in Nat
  BY DEF CounterInv
<1>3. /\ Len(group.Occurrences) = Len(history) - n
      /\ \A i \in 1 .. Len(history) - n : group.Occurrences[i] = history[n + i]
  BY <1>1, <1>2, From DEF Keeps
<1>4. ASSUME NEW i \in 1 .. Len(group.Occurrences) PROVE group.Occurrences[i] \in 1 .. time
  <2>1. i \in 1 .. Len(history) - n /\ n + i \in 1 .. Len(history)
    BY <1>2, <1>3
  <2>2. group.Occurrences[i] = history[n + i]
    BY <1>3, <2>1, Zenon
  <2>3. history[n + i] <= time /\ history[n + i] # 0 /\ history[n + i] \in Nat
    BY <1>2, <2>1 DEF CounterInv
  <2> QED
    BY <1>2, <2>2, <2>3, CounterAssumption
<1> QED
  BY <1>4 DEF CounterInv, N!TypeOK

-----------------------------------------------------------------------------
(* Whatever part moves, an alert is raised once in its window and its row is *)
(* the recent one, and the statistics in an alert are those of the events    *)
(* (processEvents, ShouldSuppress, AlertWriter; EventCounter), for any       *)
(* workers, keys, capacities, window and number of events.                   *)
THEOREM AlertsOnce == EngineSpec => []AlertsCountOnce
<1>1. EngineInit => LoopInv /\ CounterInv
  BY LoopInit, CounterInit DEF EngineInit
<1>2. LoopInv /\ CounterInv /\ [EngineNext]_engineVars => (LoopInv /\ CounterInv)'
  <2> SUFFICES ASSUME LoopInv, CounterInv, [EngineNext]_engineVars PROVE LoopInv' /\ CounterInv'
    OBVIOUS
  <2>1. [Next]_vars /\ [N!Next]_(N!vars)
    BY PartsMove
  <2> QED
    BY <2>1, LoopStep, CounterStep
<1>3. LoopInv /\ CounterInv => AlertsCountOnce
  BY LoopPromises DEF AlertsCountOnce, CounterInv
<1> QED
  BY <1>1, <1>2, <1>3, PTL DEF EngineSpec

\* Once the loader has answered, by its end or by a failure, every file is in its place, the
\* ones that ended in a rule among the rules and the ones that failed among the errors, unless
\* the load was cancelled (RuleLoader.LoadRules), for any files, parsers and capacities.
LoadAccounted == part = "loader" /\ collector # "collecting" => L!Accounted

\* What LoadAccounted says holds in every state of the engine.
THEOREM LoadAccounts == EngineSpec => []LoadAccounted
<1>1. EngineInit => LoaderInv
  BY LoaderInit DEF EngineInit
<1>2. LoaderInv /\ [EngineNext]_engineVars => LoaderInv'
  BY PartsMove, LoaderStep
<1>3. LoaderInv => LoadAccounted
  BY DEF LoaderInv, LoadAccounted
<1> QED
  BY <1>1, <1>2, <1>3, PTL DEF EngineSpec

-----------------------------------------------------------------------------
(* Reading the fields of an event.                                           *)

\* The least of the hits, or n: what it is depends on nothing behind it.
LEMMA StopsAlike ==
    ASSUME NEW n \in Nat \ {0}, NEW H \in SUBSET (1 .. n), NEW H0 \in SUBSET (1 .. n), NEW s,
           s = E!Min(H0 \cup {n}), \A i \in 1 .. s : i \in H <=> i \in H0
    PROVE  s \in 1 .. n /\ E!Min(H \cup {n}) = s
<1>1. PICK x \in H0 \cup {n} : \A y \in H0 \cup {n} : x <= y
  <2>1. H0 \cup {n} \subseteq Nat /\ H0 \cup {n} # {}
    OBVIOUS
  <2> QED
    BY <2>1, Least
<1>2. s \in H0 \cup {n} /\ \A y \in H0 \cup {n} : s <= y
  BY <1>1 DEF E!Min
<1>3. s \in 1 .. n
  BY <1>2
<1>4. s \in H \cup {n}
  BY <1>2, <1>3
<1>5. ASSUME NEW y \in H \cup {n} PROVE s <= y
  <2>1. CASE y <= s /\ y \in H
    BY <1>2, <1>3, <2>1
  <2>2. CASE y = n
    BY <1>3, <2>2
  <2> QED
    BY <1>3, <1>5, <2>1, <2>2
<1>6. \A z \in H \cup {n} : (\A y \in H \cup {n} : z <= y) => z = s
  BY <1>3, <1>4, <1>5
<1> HIDE DEF E!Min
<1>7. E!Min(H \cup {n}) \in H \cup {n} /\ \A y \in H \cup {n} : E!Min(H \cup {n}) <= y
  BY <1>4, <1>5 DEF E!Min
<1> QED
  BY <1>3, <1>6, <1>7, Zenon

\* A list of paths.
Listed(paths, n) == n \in Nat \ {0} /\ DOMAIN paths = 1 .. n /\ Len(paths) = n

\* The search for a value that is there ends alike in two lookups that agree on what it asks for.
LEMMA ThereAlike ==
    ASSUME NEW n, NEW paths, Listed(paths, n), NEW look, NEW look0,
           \A p \in E!Asked(paths, look0, E!There) : look[p] = look0[p]
    PROVE  /\ E!Stop(paths, look, E!There) = E!Stop(paths, look0, E!There)
           /\ look[paths[E!Stop(paths, look0, E!There)]] = look0[paths[E!Stop(paths, look0, E!There)]]
           /\ E!Asked(paths, look, E!There) = E!Asked(paths, look0, E!There)
           /\ \A p \in E!Asked(paths, look0, E!There) : \E i \in DOMAIN paths : p = paths[i]
           /\ E!Has(paths, look) <=> E!Has(paths, look0)
<1> DEFINE H(l) == {i \in 1 .. n : E!There(l[paths[i]])}
           s == E!Stop(paths, look0, E!There)
<1>1. E!Stop(paths, look, E!There) = E!Min(H(look) \cup {n}) /\ s = E!Min(H(look0) \cup {n})
  BY DEF E!Stop, Listed
<1>2. E!Asked(paths, look0, E!There) = {paths[i] : i \in 1 .. s}
  BY DEF E!Asked
<1> HIDE DEF s
<1>3. \A i \in 1 .. s : look[paths[i]] = look0[paths[i]]
  BY <1>2
<1>4. n \in Nat \ {0} /\ H(look) \in SUBSET (1 .. n) /\ H(look0) \in SUBSET (1 .. n)
  BY DEF Listed
<1>0. s \in 1 .. n
  <2>1. \A i \in 1 .. s : i \in H(look0) <=> i \in H(look0)
    OBVIOUS
  <2> HIDE DEF H
  <2> QED
    BY <1>1, <1>4, <2>1, StopsAlike
<1>5. \A i \in 1 .. s : i \in H(look) <=> i \in H(look0)
  BY <1>0, <1>3, <1>4
<1> HIDE DEF H
<1>6. E!Min(H(look) \cup {n}) = s
  <2>1. s = E!Min(H(look0) \cup {n})
    BY <1>1
  <2> QED
    BY <1>4, <1>5, <2>1, StopsAlike, Zenon
<1>7. E!Has(paths, look) <=> E!Has(paths, look0)
  <2>0. \A l : E!Has(paths, l) <=> H(l) # {}
    BY DEF E!Has, H, Listed
  <2>1. H(look) # {} <=> H(look0) # {}
    <3>1. CASE s \in H(look0)
      BY <1>0, <1>5, <3>1
    <3>2. CASE s \notin H(look0)
      <4>1. s = n
        <5>1. s \in H(look0) \cup {n}
          <6>1. \E x \in H(look0) \cup {n} : \A y \in H(look0) \cup {n} : x <= y
            BY <1>4, Least
          <6> QED
            BY <1>1, <6>1 DEF E!Min
        <5> QED
          BY <3>2, <5>1
      <4> QED
        BY <1>4, <1>5, <4>1
    <3> QED
      BY <3>1, <3>2
  <2> QED
    BY <2>0, <2>1
<1>8. E!Asked(paths, look, E!There) = {paths[i] : i \in 1 .. E!Stop(paths, look, E!There)}
  BY DEF E!Asked
<1>9. E!Stop(paths, look, E!There) = s
  BY <1>1, <1>6
<1>10. E!Asked(paths, look, E!There) = E!Asked(paths, look0, E!There)
  BY <1>2, <1>8, <1>9
<1>11. \A p \in E!Asked(paths, look0, E!There) : \E i \in DOMAIN paths : p = paths[i]
  BY <1>0, <1>2 DEF Listed
<1>12. look[paths[s]] = look0[paths[s]]
  BY <1>0, <1>3, <1>4
<1> QED
  BY <1>7, <1>9, <1>10, <1>11, <1>12, Zenon DEF s

\* The search for a value that names a product.
LEMMA NameAlike ==
    ASSUME NEW n, NEW paths, Listed(paths, n), NEW look, NEW look0,
           \A p \in E!Asked(paths, look0, E!NamesProduct) : look[p] = look0[p]
    PROVE  /\ E!Stop(paths, look, E!NamesProduct) = E!Stop(paths, look0, E!NamesProduct)
           /\ look[paths[E!Stop(paths, look0, E!NamesProduct)]] = look0[paths[E!Stop(paths, look0, E!NamesProduct)]]
           /\ \A p \in E!Asked(paths, look0, E!NamesProduct) : \E i \in DOMAIN paths : p = paths[i]
<1> DEFINE H(l) == {i \in 1 .. n : E!NamesProduct(l[paths[i]])}
           s == E!Stop(paths, look0, E!NamesProduct)
<1>1. E!Stop(paths, look, E!NamesProduct) = E!Min(H(look) \cup {n}) /\ s = E!Min(H(look0) \cup {n})
  BY DEF E!Stop, Listed
<1>2. E!Asked(paths, look0, E!NamesProduct) = {paths[i] : i \in 1 .. s}
  BY DEF E!Asked
<1> HIDE DEF s
<1>3. \A i \in 1 .. s : look[paths[i]] = look0[paths[i]]
  BY <1>2
<1>4. n \in Nat \ {0} /\ H(look) \in SUBSET (1 .. n) /\ H(look0) \in SUBSET (1 .. n)
  BY DEF Listed
<1>5. s \in 1 .. n
  <2> HIDE DEF H
  <2> QED
    BY <1>1, <1>4, StopsAlike
<1>6. \A i \in 1 .. s : i \in H(look) <=> i \in H(look0)
  BY <1>3, <1>4, <1>5
<1> HIDE DEF H
<1>7. E!Stop(paths, look, E!NamesProduct) = s
  <2>1. s = E!Min(H(look0) \cup {n})
    BY <1>1
  <2>2. E!Min(H(look) \cup {n}) = s
    BY <1>4, <1>6, <2>1, StopsAlike, Zenon
  <2> QED
    BY <1>1, <2>2
<1>8. look[paths[s]] = look0[paths[s]]
  BY <1>3, <1>4, <1>5
<1>9. \A p \in E!Asked(paths, look0, E!NamesProduct) : \E i \in DOMAIN paths : p = paths[i]
  BY <1>2, <1>5 DEF Listed
<1> QED
  BY <1>7, <1>8, <1>9, Zenon DEF s

\* The search for a value that is a time.
LEMMA TimeAlike ==
    ASSUME NEW n, NEW paths, Listed(paths, n), NEW look, NEW look0,
           \A p \in E!Asked(paths, look0, E!IsTime) : look[p] = look0[p]
    PROVE  /\ E!Stop(paths, look, E!IsTime) = E!Stop(paths, look0, E!IsTime)
           /\ look[paths[E!Stop(paths, look0, E!IsTime)]] = look0[paths[E!Stop(paths, look0, E!IsTime)]]
           /\ \A p \in E!Asked(paths, look0, E!IsTime) : \E i \in DOMAIN paths : p = paths[i]
<1> DEFINE H(l) == {i \in 1 .. n : E!IsTime(l[paths[i]])}
           s == E!Stop(paths, look0, E!IsTime)
<1>1. E!Stop(paths, look, E!IsTime) = E!Min(H(look) \cup {n}) /\ s = E!Min(H(look0) \cup {n})
  BY DEF E!Stop, Listed
<1>2. E!Asked(paths, look0, E!IsTime) = {paths[i] : i \in 1 .. s}
  BY DEF E!Asked
<1> HIDE DEF s
<1>3. \A i \in 1 .. s : look[paths[i]] = look0[paths[i]]
  BY <1>2
<1>4. n \in Nat \ {0} /\ H(look) \in SUBSET (1 .. n) /\ H(look0) \in SUBSET (1 .. n)
  BY DEF Listed
<1>5. s \in 1 .. n
  <2> HIDE DEF H
  <2> QED
    BY <1>1, <1>4, StopsAlike
<1>6. \A i \in 1 .. s : i \in H(look) <=> i \in H(look0)
  BY <1>3, <1>4, <1>5
<1> HIDE DEF H
<1>7. E!Stop(paths, look, E!IsTime) = s
  <2>1. s = E!Min(H(look0) \cup {n})
    BY <1>1
  <2>2. E!Min(H(look) \cup {n}) = s
    BY <1>4, <1>6, <2>1, StopsAlike, Zenon
  <2> QED
    BY <1>1, <2>2
<1>8. look[paths[s]] = look0[paths[s]]
  BY <1>3, <1>4, <1>5
<1>9. \A p \in E!Asked(paths, look0, E!IsTime) : \E i \in DOMAIN paths : p = paths[i]
  BY <1>2, <1>5 DEF Listed
<1> QED
  BY <1>7, <1>8, <1>9, Zenon DEF s

\* The lists that NewLogEvent tries.
LEMMA Lists ==
    /\ Listed(E!EventIDPaths, 6) /\ Listed(E!ProductPaths, 5) /\ Listed(E!TimePaths, 6)
    /\ Listed(E!ImagePaths, 2) /\ Listed(E!LinePaths, 2)
    /\ DOMAIN E!FieldPairs = 1 .. 4 /\ \A i \in 1 .. 4 : Listed(E!FieldPairs[i].paths, 2)
<1>1. Listed(E!EventIDPaths, 6) /\ Listed(E!ProductPaths, 5) /\ Listed(E!TimePaths, 6)
  BY DEF Listed, E!EventIDPaths, E!ProductPaths, E!TimePaths
<1>2. Listed(E!ImagePaths, 2) /\ Listed(E!LinePaths, 2)
  BY DEF Listed, E!ImagePaths, E!LinePaths
<1>3. DOMAIN E!FieldPairs = 1 .. 4
  BY DEF E!FieldPairs
<1>4. ASSUME NEW i \in 1 .. 4 PROVE Listed(E!FieldPairs[i].paths, 2)
  <2>1. i \in {1, 2, 3, 4}
    BY <1>4
  <2> QED
    BY <2>1 DEF Listed, E!FieldPairs
<1> QED
  BY <1>1, <1>2, <1>3, <1>4

\* The tests of inferCategory, one by one.
First5(look) ==
    <<[asks |-> {<<"event_type">>}, says |-> E!typeCategory(look[<<"event_type">>])],
      [asks |-> {}, says |-> E!InferCategoryFromEventID(E!extractEventID(look))],
      [asks |-> {<<"event", "action">>}, says |-> E!actionCategory(look[<<"event", "action">>])],
      [asks |-> {<<"event", "category">>}, says |-> E!textCategory(look[<<"event", "category">>])],
      [asks |-> E!Asked(E!ImagePaths, look, E!There) \cup
                (IF E!Has(E!ImagePaths, look) THEN E!Asked(E!LinePaths, look, E!There) ELSE {}),
       says |-> IF E!Has(E!ImagePaths, look) /\ E!Has(E!LinePaths, look) THEN "process_creation" ELSE "unknown"]>>
Pair(i, look) ==
    [asks |-> E!Asked(E!FieldPairs[i].paths, look, E!There),
     says |-> IF E!Has(E!FieldPairs[i].paths, look) THEN E!FieldPairs[i].category ELSE "unknown"]

\* The nine tests of a category, in order.
LEMMA NineTests ==
    ASSUME NEW look
    PROVE  /\ DOMAIN E!Tests(look) = 1 .. 9 /\ Len(E!Tests(look)) = 9
           /\ \A i \in 1 .. 5 : E!Tests(look)[i] = First5(look)[i]
           /\ \A i \in 1 .. 4 : E!Tests(look)[5 + i] = Pair(i, look)
<1> DEFINE a == First5(look)
           b == [i \in 1 .. 4 |-> Pair(i, look)]
           S == {a[i] : i \in 1 .. 5} \cup {Pair(i, look) : i \in 1 .. 4}
<1>1. E!Tests(look) = a \o b
  BY Lists DEF E!Tests, First5, Pair
<1>2. DOMAIN a = 1 .. 5 /\ Len(a) = 5 /\ a = [i \in 1 .. 5 |-> a[i]]
  BY DEF First5
<1> HIDE DEF a
<1>3. a \in Seq(S)
  <2>1. a \in [1 .. 5 -> S]
    BY <1>2
  <2> QED
    BY <2>1, SeqDef
<1>4. b \in Seq(S) /\ Len(b) = 4 /\ \A i \in 1 .. 4 : b[i] = Pair(i, look)
  OBVIOUS
<1> HIDE DEF b, S
<1>5. /\ a \o b \in Seq(S) /\ Len(a \o b) = Len(a) + Len(b)
      /\ \A i \in 1 .. Len(a) + Len(b) : (a \o b)[i] = IF i <= Len(a) THEN a[i] ELSE b[i - Len(a)]
  BY <1>3, <1>4, ConcatProperties
<1>6. Len(a \o b) = 9 /\ DOMAIN (a \o b) = 1 .. 9
  BY <1>2, <1>4, <1>5
<1>7. \A i \in 1 .. 5 : (a \o b)[i] = a[i]
  BY <1>2, <1>4, <1>5
<1>8. \A i \in 1 .. 4 : (a \o b)[5 + i] = b[i]
  BY <1>2, <1>4, <1>5
<1> QED
  BY <1>1, <1>4, <1>6, <1>7, <1>8 DEF a

\* A test says the same of two lookups that agree on what it asks for.
LEMMA TestAlike ==
    ASSUME NEW look, NEW look0, E!extractEventID(look) = E!extractEventID(look0), NEW i \in 1 .. 9,
           \A p \in E!Tests(look0)[i].asks : look[p] = look0[p]
    PROVE  E!Tests(look)[i] = E!Tests(look0)[i]
<1>0. /\ \A j \in 1 .. 5 : E!Tests(look)[j] = First5(look)[j] /\ E!Tests(look0)[j] = First5(look0)[j]
      /\ \A j \in 1 .. 4 : E!Tests(look)[5 + j] = Pair(j, look) /\ E!Tests(look0)[5 + j] = Pair(j, look0)
  BY NineTests
<1>1. CASE i \in 1 .. 5
  <2>1. \A p \in First5(look0)[i].asks : look[p] = look0[p]
    BY <1>0, <1>1
  <2>2. First5(look)[i] = First5(look0)[i]
    <3>1. CASE i = 1
      BY <2>1, <3>1 DEF First5
    <3>2. CASE i = 2
      BY <3>2 DEF First5
    <3>3. CASE i = 3
      BY <2>1, <3>3 DEF First5
    <3>4. CASE i = 4
      BY <2>1, <3>4 DEF First5
    <3>5. CASE i = 5
      <4>1. First5(look0)[5].asks = E!Asked(E!ImagePaths, look0, E!There) \cup
                (IF E!Has(E!ImagePaths, look0) THEN E!Asked(E!LinePaths, look0, E!There) ELSE {})
        BY DEF First5
      <4>2. \A p \in E!Asked(E!ImagePaths, look0, E!There) : look[p] = look0[p]
        BY <2>1, <3>5, <4>1
      <4>3. /\ E!Asked(E!ImagePaths, look, E!There) = E!Asked(E!ImagePaths, look0, E!There)
            /\ E!Has(E!ImagePaths, look) <=> E!Has(E!ImagePaths, look0)
        BY <4>2, Lists, ThereAlike
      <4>4. ASSUME E!Has(E!ImagePaths, look0)
            PROVE  /\ E!Asked(E!LinePaths, look, E!There) = E!Asked(E!LinePaths, look0, E!There)
                   /\ E!Has(E!LinePaths, look) <=> E!Has(E!LinePaths, look0)
        <5>1. \A p \in E!Asked(E!LinePaths, look0, E!There) : look[p] = look0[p]
          BY <2>1, <3>5, <4>1, <4>4
        <5> QED
          BY <5>1, Lists, ThereAlike
      <4> QED
        BY <3>5, <4>3, <4>4 DEF First5
    <3> QED
      BY <1>1, <3>1, <3>2, <3>3, <3>4, <3>5
  <2> QED
    BY <1>0, <1>1, <2>2
<1>2. CASE i \notin 1 .. 5
  <2>1. PICK j \in 1 .. 4 : i = 5 + j
    <3>1. i - 5 \in 1 .. 4 /\ i = 5 + (i - 5)
      BY <1>2
    <3> QED
      BY <3>1
  <2>2. \A p \in E!Asked(E!FieldPairs[j].paths, look0, E!There) : look[p] = look0[p]
    BY <1>0, <2>1 DEF Pair
  <2>3. Pair(j, look) = Pair(j, look0)
    <3>1. Listed(E!FieldPairs[j].paths, 2)
      BY Lists
    <3>2. /\ E!Asked(E!FieldPairs[j].paths, look, E!There) = E!Asked(E!FieldPairs[j].paths, look0, E!There)
          /\ E!Has(E!FieldPairs[j].paths, look) <=> E!Has(E!FieldPairs[j].paths, look0)
      BY <2>2, <3>1, ThereAlike
    <3> QED
      BY <3>2 DEF Pair
  <2> QED
    BY <1>0, <2>1, <2>3
<1> QED
  BY <1>1, <1>2

\* The test that decides depends on no test behind it.
LEMMA DecidesAlike ==
    ASSUME NEW look, NEW look0
    PROVE  /\ E!Deciding(look0) \in 1 .. 9
           /\ (\A i \in 1 .. E!Deciding(look0) : E!Tests(look)[i] = E!Tests(look0)[i])
                  => E!Deciding(look) = E!Deciding(look0)
<1> DEFINE A == {i \in 1 .. 9 : E!Tests(look)[i].says # "unknown"}
           B == {i \in 1 .. 9 : E!Tests(look0)[i].says # "unknown"}
<1>1. PICK n \in Nat \ {0} : n = 9
  OBVIOUS
<1>2. E!Deciding(look) = E!Min(A \cup {n}) /\ E!Deciding(look0) = E!Min(B \cup {n})
  BY <1>1, NineTests DEF E!Deciding
<1>3. A \in SUBSET (1 .. n) /\ B \in SUBSET (1 .. n)
  BY <1>1
<1>4. E!Deciding(look0) \in 1 .. n
  <2> HIDE DEF A, B
  <2> QED
    BY <1>2, <1>3, StopsAlike
<1>5. ASSUME \A i \in 1 .. E!Deciding(look0) : E!Tests(look)[i] = E!Tests(look0)[i]
      PROVE  E!Deciding(look) = E!Deciding(look0)
  <2>1. \A i \in 1 .. E!Deciding(look0) : i \in A <=> i \in B
    BY <1>1, <1>4, <1>5
  <2> HIDE DEF A, B
  <2> QED
    BY <1>2, <1>3, <2>1, StopsAlike
<1> QED
  BY <1>1, <1>4, <1>5

\* The event made depends only on what making it asked for.
LEMMA MadeAlike ==
    ASSUME NEW look, NEW look0, \A p \in E!AskedInMaking(look0) : look[p] = look0[p]
    PROVE  E!Made(look) = E!Made(look0)
<1>1. E!extractEventID(look) = E!extractEventID(look0)
  <2>1. \A p \in E!Asked(E!EventIDPaths, look0, E!There) : look[p] = look0[p]
    BY DEF E!AskedInMaking
  <2>2. /\ E!Stop(E!EventIDPaths, look, E!There) = E!Stop(E!EventIDPaths, look0, E!There)
        /\ look[E!EventIDPaths[E!Stop(E!EventIDPaths, look0, E!There)]] = look0[E!EventIDPaths[E!Stop(E!EventIDPaths, look0, E!There)]]
    BY <2>1, Lists, ThereAlike
  <2> QED
    BY <2>2 DEF E!extractEventID
<1>2. E!extractProduct(look) = E!extractProduct(look0)
  <2>1. \A p \in E!Asked(E!ProductPaths, look0, E!NamesProduct) : look[p] = look0[p]
    BY DEF E!AskedInMaking
  <2>2. /\ E!Stop(E!ProductPaths, look, E!NamesProduct) = E!Stop(E!ProductPaths, look0, E!NamesProduct)
        /\ look[E!ProductPaths[E!Stop(E!ProductPaths, look0, E!NamesProduct)]]
               = look0[E!ProductPaths[E!Stop(E!ProductPaths, look0, E!NamesProduct)]]
    BY <2>1, Lists, NameAlike
  <2> QED
    BY <2>2 DEF E!extractProduct
<1>3. E!extractTimestamp(look) = E!extractTimestamp(look0)
  <2>1. \A p \in E!Asked(E!TimePaths, look0, E!IsTime) : look[p] = look0[p]
    BY DEF E!AskedInMaking
  <2>2. /\ E!Stop(E!TimePaths, look, E!IsTime) = E!Stop(E!TimePaths, look0, E!IsTime)
        /\ look[E!TimePaths[E!Stop(E!TimePaths, look0, E!IsTime)]]
               = look0[E!TimePaths[E!Stop(E!TimePaths, look0, E!IsTime)]]
    BY <2>1, Lists, TimeAlike
  <2> QED
    BY <2>2 DEF E!extractTimestamp
<1>4. E!inferCategory(look) = E!inferCategory(look0)
  <2> DEFINE s == E!Deciding(look0)
  <2>1. s \in 1 .. 9
    BY DecidesAlike
  <2>2. \A i \in 1 .. s : \A p \in E!Tests(look0)[i].asks : look[p] = look0[p]
    BY DEF E!AskedInMaking
  <2> HIDE DEF s
  <2>3. \A i \in 1 .. s : E!Tests(look)[i] = E!Tests(look0)[i]
    <3> TAKE i \in 1 .. s
    <3>1. i \in 1 .. 9
      BY <2>1
    <3> QED
      BY <1>1, <2>2, <3>1, TestAlike
  <2>4. E!Deciding(look) = s
    BY <2>3, DecidesAlike DEF s
  <2>5. E!Tests(look)[s] = E!Tests(look0)[s]
    BY <2>1, <2>3
  <2> QED
    BY <2>4, <2>5 DEF E!inferCategory, s
<1> QED
  BY <1>1, <1>2, <1>3, <1>4 DEF E!Made

\* A search asks for the paths of its list.
LEMMA WithinThere ==
    ASSUME NEW n, NEW paths, Listed(paths, n), NEW look
    PROVE  \A p \in E!Asked(paths, look, E!There) : \E i \in DOMAIN paths : p = paths[i]
<1> DEFINE H == {i \in 1 .. n : E!There(look[paths[i]])}
           s == E!Stop(paths, look, E!There)
<1>1. s = E!Min(H \cup {n}) /\ n \in Nat \ {0} /\ H \in SUBSET (1 .. n)
  BY DEF E!Stop, Listed
<1>2. E!Asked(paths, look, E!There) = {paths[i] : i \in 1 .. s}
  BY DEF E!Asked
<1> HIDE DEF s, H
<1>3. s \in 1 .. n
  BY <1>1, StopsAlike
<1> QED
  BY <1>2, <1>3 DEF Listed

\* Only listed paths are asked for a product,
LEMMA WithinNamesProduct ==
    ASSUME NEW n, NEW paths, Listed(paths, n), NEW look
    PROVE  \A p \in E!Asked(paths, look, E!NamesProduct) : \E i \in DOMAIN paths : p = paths[i]
<1> DEFINE H == {i \in 1 .. n : E!NamesProduct(look[paths[i]])}
           s == E!Stop(paths, look, E!NamesProduct)
<1>1. s = E!Min(H \cup {n}) /\ n \in Nat \ {0} /\ H \in SUBSET (1 .. n)
  BY DEF E!Stop, Listed
<1>2. E!Asked(paths, look, E!NamesProduct) = {paths[i] : i \in 1 .. s}
  BY DEF E!Asked
<1> HIDE DEF s, H
<1>3. s \in 1 .. n
  BY <1>1, StopsAlike
<1> QED
  BY <1>2, <1>3 DEF Listed

\* and for a time.
LEMMA WithinIsTime ==
    ASSUME NEW n, NEW paths, Listed(paths, n), NEW look
    PROVE  \A p \in E!Asked(paths, look, E!IsTime) : \E i \in DOMAIN paths : p = paths[i]
<1> DEFINE H == {i \in 1 .. n : E!IsTime(look[paths[i]])}
           s == E!Stop(paths, look, E!IsTime)
<1>1. s = E!Min(H \cup {n}) /\ n \in Nat \ {0} /\ H \in SUBSET (1 .. n)
  BY DEF E!Stop, Listed
<1>2. E!Asked(paths, look, E!IsTime) = {paths[i] : i \in 1 .. s}
  BY DEF E!Asked
<1> HIDE DEF s, H
<1>3. s \in 1 .. n
  BY <1>1, StopsAlike
<1> QED
  BY <1>2, <1>3 DEF Listed

\* Making an event asks for paths of the model.
LEMMA AsksPaths == ASSUME NEW look PROVE E!AskedInMaking(look) \subseteq E!Paths
<1>0. \A i \in 1 .. 4 : {E!FieldPairs[i].paths[j] : j \in DOMAIN E!FieldPairs[i].paths} \subseteq E!Paths
  <2> TAKE i \in 1 .. 4
  <2>1. E!Range(E!FieldPairs[i].paths) \subseteq E!Paths
    <3>1. i \in DOMAIN E!FieldPairs
      BY Lists
    <3>2. E!Range(E!FieldPairs[i].paths) \subseteq UNION {E!Range(E!FieldPairs[j].paths) : j \in DOMAIN E!FieldPairs}
      BY <3>1
    <3> QED
      BY <3>2 DEF E!Paths
  <2> QED
    BY <2>1 DEF E!Range
<1>1. /\ {E!EventIDPaths[i] : i \in DOMAIN E!EventIDPaths} \subseteq E!Paths
      /\ {E!ProductPaths[i] : i \in DOMAIN E!ProductPaths} \subseteq E!Paths
      /\ {E!TimePaths[i] : i \in DOMAIN E!TimePaths} \subseteq E!Paths
      /\ {E!ImagePaths[i] : i \in DOMAIN E!ImagePaths} \subseteq E!Paths
      /\ {E!LinePaths[i] : i \in DOMAIN E!LinePaths} \subseteq E!Paths
  BY DEF E!Paths, E!Range
<1>2. E!Asked(E!EventIDPaths, look, E!There) \subseteq E!Paths
  <2>1. \A p \in E!Asked(E!EventIDPaths, look, E!There) : \E i \in DOMAIN E!EventIDPaths : p = E!EventIDPaths[i]
    BY Lists, WithinThere, Zenon
  <2> QED
    BY <1>1, <2>1
<1>3. E!Asked(E!ProductPaths, look, E!NamesProduct) \subseteq E!Paths
  <2>1. \A p \in E!Asked(E!ProductPaths, look, E!NamesProduct) : \E i \in DOMAIN E!ProductPaths : p = E!ProductPaths[i]
    BY Lists, WithinNamesProduct, Zenon
  <2> QED
    BY <1>1, <2>1
<1>4. E!Asked(E!TimePaths, look, E!IsTime) \subseteq E!Paths
  <2>1. \A p \in E!Asked(E!TimePaths, look, E!IsTime) : \E i \in DOMAIN E!TimePaths : p = E!TimePaths[i]
    BY Lists, WithinIsTime, Zenon
  <2> QED
    BY <1>1, <2>1
<1>5. E!Asked(E!ImagePaths, look, E!There) \subseteq E!Paths
  <2>1. \A p \in E!Asked(E!ImagePaths, look, E!There) : \E i \in DOMAIN E!ImagePaths : p = E!ImagePaths[i]
    BY Lists, WithinThere, Zenon
  <2> QED
    BY <1>1, <2>1
<1>6. E!Asked(E!LinePaths, look, E!There) \subseteq E!Paths
  <2>1. \A p \in E!Asked(E!LinePaths, look, E!There) : \E i \in DOMAIN E!LinePaths : p = E!LinePaths[i]
    BY Lists, WithinThere, Zenon
  <2> QED
    BY <1>1, <2>1
<1>7. ASSUME NEW i \in 1 .. 4 PROVE Pair(i, look).asks \subseteq E!Paths
  <2>1. Listed(E!FieldPairs[i].paths, 2)
    BY Lists
  <2>2. E!Asked(E!FieldPairs[i].paths, look, E!There) \subseteq E!Paths
    <3>1. \A p \in E!Asked(E!FieldPairs[i].paths, look, E!There) :
              \E j \in DOMAIN E!FieldPairs[i].paths : p = E!FieldPairs[i].paths[j]
      BY <2>1, WithinThere, Zenon
    <3> QED
      BY <1>0, <3>1
  <2> QED
    BY <2>2 DEF Pair
<1>8. ASSUME NEW i \in 1 .. 5 PROVE First5(look)[i].asks \subseteq E!Paths
  <2>1. {<<"event_type">>, <<"event", "action">>, <<"event", "category">>} \subseteq E!Paths
    <3> DEFINE A == {<<"event_type">>, <<"event", "action">>, <<"event", "category">>}
    <3>1. E!Paths = (ReadFields \cup (UNION {E!Range(s) : s \in {E!EventIDPaths, E!ProductPaths, E!TimePaths, E!ImagePaths, E!LinePaths}})
                         \cup (UNION {E!Range(E!FieldPairs[k].paths) : k \in DOMAIN E!FieldPairs}) \cup A)
      BY DEF E!Paths
    <3> HIDE DEF A
    <3>2. A \subseteq E!Paths
      BY <3>1
    <3> QED
      BY <3>2 DEF A
  <2>2. i \in {1, 2, 3, 4, 5}
    BY <1>8
  <2> QED
    BY <1>5, <1>6, <2>1, <2>2 DEF First5
<1>9. ASSUME NEW i \in 1 .. 9 PROVE E!Tests(look)[i].asks \subseteq E!Paths
  <2>1. CASE i \in 1 .. 5
    BY <1>8, <2>1, NineTests
  <2>2. CASE i \notin 1 .. 5
    <3>1. i - 5 \in 1 .. 4 /\ i = 5 + (i - 5)
      BY <2>2
    <3>2. E!Tests(look)[5 + (i - 5)] = Pair(i - 5, look)
      BY <3>1, NineTests
    <3> QED
      BY <1>7, <3>1, <3>2
  <2> QED
    BY <2>1, <2>2
<1>10. E!Deciding(look) \in 1 .. 9
  BY DecidesAlike
<1>11. UNION {E!Tests(look)[i].asks : i \in 1 .. E!Deciding(look)} \subseteq E!Paths
  BY <1>9, <1>10
<1> QED
  BY <1>2, <1>3, <1>4, <1>11 DEF E!AskedInMaking

\* Some lookups made the event; what they asked for is in the cache with their value, and every
\* answer is the cached value.
Remembers(look) ==
    /\ made = E!Made(look)
    /\ E!AskedInMaking(look) \subseteq DOMAIN fieldCache
    /\ \A p \in E!AskedInMaking(look) : fieldCache[p] = look[p]
FieldsInv ==
    /\ E!TypeOK /\ DOMAIN reader = Readers
    /\ \E look : Remembers(look)
    /\ \A a \in answers : a.path \in DOMAIN fieldCache /\ a.value = fieldCache[a.path]

\* NewLogEvent leaves in the cache what it asked for.
LEMMA FieldsInit == E!Init => FieldsInv
<1> SUFFICES ASSUME E!Init PROVE FieldsInv
  OBVIOUS
<1>1. PICK look : made = E!Made(look) /\ fieldCache = [p \in E!AskedInMaking(look) |-> look[p]]
  BY DEF E!Init
<1>2. Remembers(look)
  BY <1>1 DEF Remembers
<1>3. E!TypeOK
  BY <1>1, AsksPaths, FieldsAssumption DEF E!Init, E!TypeOK
<1> QED
  BY <1>2, <1>3 DEF FieldsInv, E!Init

\* No step takes a value out of the cache or changes one.
LEMMA FieldsStep == ASSUME FieldsInv, [E!Next]_(E!vars) PROVE FieldsInv'
<1> USE DEF E!TypeOK
<1>1. ReadFields \subseteq E!Paths
  BY DEF E!Paths
<1>2. PICK look : Remembers(look)
  BY DEF FieldsInv
<1>3. CASE UNCHANGED E!vars
  BY <1>3 DEF E!vars, FieldsInv, Remembers
<1>4. ASSUME NEW r \in Readers, NEW path \in ReadFields, E!ReadCache(r, path) PROVE FieldsInv'
  <2>1. /\ reads' = reads + 1 /\ reads < MaxReads /\ UNCHANGED <<raw, made, fieldCache>>
        /\ \/ path \in DOMAIN fieldCache /\ E!Answers(path, fieldCache[path], TRUE) /\ UNCHANGED reader
           \/ reader' = [reader EXCEPT ![r] = [at |-> "missed", path |-> path]] /\ UNCHANGED answers
    BY <1>4 DEF E!ReadCache
  <2>2. E!TypeOK' /\ DOMAIN reader' = Readers
    <3>1. (\A q \in Readers : reader'[q] = E!Idle \/ reader'[q].path \in ReadFields) /\ DOMAIN reader' = Readers
      <4>1. CASE UNCHANGED reader
        BY <4>1 DEF FieldsInv
      <4>2. CASE reader' = [reader EXCEPT ![r] = [at |-> "missed", path |-> path]]
        BY <4>2 DEF FieldsInv
      <4> QED
        BY <2>1, <4>1, <4>2
    <3>2. reads' \in 0 .. MaxReads
      BY <2>1, FieldsAssumption DEF FieldsInv
    <3> QED
      BY <2>1, <3>1, <3>2 DEF FieldsInv
  <2>3. Remembers(look)'
    BY <1>2, <2>1 DEF Remembers
  <2>4. \A a \in answers' : a.path \in DOMAIN fieldCache' /\ a.value = fieldCache'[a.path]
    BY <2>1 DEF FieldsInv, E!Answers
  <2> QED
    BY <2>2, <2>3, <2>4 DEF FieldsInv
<1>5. ASSUME NEW r \in Readers, E!FillCache(r) PROVE FieldsInv'
  <2> DEFINE path == reader[r].path
  <2>1. reader[r].at = "missed" /\ reader' = [reader EXCEPT ![r] = E!Idle] /\ UNCHANGED <<raw, made, reads>>
    BY <1>5 DEF E!FillCache
  <2>2. path \in ReadFields
    BY <2>1 DEF FieldsInv, E!Idle
  <2>3. \A q \in Readers : reader'[q] = E!Idle \/ reader'[q].path \in ReadFields
    BY <2>1 DEF FieldsInv
  <2>6. DOMAIN reader' = Readers
    BY <2>1 DEF FieldsInv
  <2>4. CASE path \in DOMAIN fieldCache /\ E!Answers(path, fieldCache[path], TRUE) /\ UNCHANGED fieldCache
    <3>1. E!TypeOK'
      BY <2>1, <2>3, <2>4 DEF FieldsInv
    <3>2. Remembers(look)'
      BY <1>2, <2>1, <2>4 DEF Remembers
    <3>3. \A a \in answers' : a.path \in DOMAIN fieldCache' /\ a.value = fieldCache'[a.path]
      BY <2>4 DEF FieldsInv, E!Answers
    <3> QED
      BY <2>6, <3>1, <3>2, <3>3 DEF FieldsInv
  <2>5. ASSUME path \notin DOMAIN fieldCache, NEW v, NEW ok,
               fieldCache' = [p \in DOMAIN fieldCache \cup {path} |-> IF p = path THEN v ELSE fieldCache[p]],
               E!Answers(path, v, ok)
        PROVE  FieldsInv'
    <3> HIDE DEF path
    <3>0. /\ DOMAIN fieldCache' = DOMAIN fieldCache \cup {path} /\ fieldCache'[path] = v
          /\ \A p \in DOMAIN fieldCache : fieldCache'[p] = fieldCache[p]
      BY <2>5
    <3>1. E!TypeOK'
      BY <1>1, <2>1, <2>2, <2>3, <3>0 DEF FieldsInv
    <3>2. Remembers(look)'
      BY <1>2, <2>1, <3>0 DEF Remembers
    <3>3. \A a \in answers' : a.path \in DOMAIN fieldCache' /\ a.value = fieldCache'[a.path]
      BY <2>5, <3>0 DEF FieldsInv, E!Answers
    <3> QED
      BY <2>6, <3>1, <3>2, <3>3 DEF FieldsInv
  <2> QED
    BY <1>5, <2>4, <2>5 DEF E!FillCache
<1> QED
  BY <1>3, <1>4, <1>5 DEF E!Next

\* So a field has one value, and the values that are read would make the same event.
LEMMA FieldsPromise == FieldsInv => E!TypeOK /\ E!OneAnswer
<1> SUFFICES ASSUME FieldsInv PROVE E!OneAnswer
  BY DEF FieldsInv
<1>1. \A a, b \in answers : a.path = b.path => a.value = b.value
  BY DEF FieldsInv
<1>2. ASSUME NEW look \in E!Looks(raw, fieldCache) PROVE E!Made(look) = made
  <2>1. \A p \in E!Paths \cap DOMAIN fieldCache : look[p] = fieldCache[p]
    BY DEF E!Looks
  <2>2. PICK look0 : Remembers(look0)
    BY DEF FieldsInv
  <2>3. \A p \in E!AskedInMaking(look0) : look[p] = look0[p]
    BY <2>1, <2>2, AsksPaths DEF Remembers
  <2> QED
    BY <2>2, <2>3, MadeAlike DEF Remembers
<1> QED
  BY <1>1, <1>2 DEF E!OneAnswer

-----------------------------------------------------------------------------
(* Matching.                                                                 *)

\* The part counts with the one Cardinality.
LEMMA MatchCounts == \A T : M!Cardinality(T) = Cardinality(T)
BY DEF M!Cardinality, Cardinality

\* The image of a finite set under a function.
LEMMA ImageFinite ==
    ASSUME NEW S, IsFiniteSet(S), NEW f, DOMAIN f = S
    PROVE  /\ IsFiniteSet({f[x] : x \in S}) /\ Cardinality({f[x] : x \in S}) <= Cardinality(S)
           /\ Cardinality({f[x] : x \in S}) \in Nat /\ Cardinality(S) \in Nat
<1> DEFINE T == {f[x] : x \in S}
           g == [x \in S |-> f[x]]
<1>1. g \in Surjection(S, T)
  BY DEF Surjection
<1> HIDE DEF g, T
<1>2. IsFiniteSet(T) /\ Cardinality(T) <= Cardinality(S)
  BY <1>1, FS_Surjection
<1> QED
  BY <1>2, FS_CardinalityType DEF T

\* The two evaluations of a rule agree.
LEMMA EvaluationsAgree ==
    ASSUME NEW r, NEW e
    PROVE  M!EvaluateRuleForAggregation(r, e) = M!EvaluateRule(r, e)
<1> DEFINE matching == {sel \in r.selections : M!EvaluateSelection(e, sel)}
<1>1. ({sel \in r.selections : M!IsFilter(sel) /\ M!EvaluateSelection(e, sel)} = {}) <=> \A sel \in matching : ~M!IsFilter(sel)
  OBVIOUS
<1> QED
  BY <1>1 DEF M!EvaluateRuleForAggregation, M!EvaluateRule

\* A level is ranked no higher than it is read, and one that has a rank is read as its rank.
LEMMA LevelsRead ==
    ASSUME NEW level
    PROVE  /\ M!SeverityFromString(level) \in 1 .. 5 /\ M!SeverityRank(level) \in 0 .. 5
           /\ M!SeverityRank(level) <= M!SeverityFromString(level)
           /\ M!SeverityRank(level) > 0 => M!SeverityFromString(level) = M!SeverityRank(level)
<1>1. CASE level \in {"critical", "high", "medium", "low", "informational"}
  BY <1>1 DEF M!SeverityFromString, M!SeverityRank
<1>2. CASE level \notin {"critical", "high", "medium", "low", "informational"}
  <2>1. M!SeverityRank(level) = 0
    BY <1>2 DEF M!SeverityRank
  <2>2. M!SeverityFromString(level) \in 1 .. 5
    BY DEF M!SeverityFromString
  <2> QED
    BY <2>1, <2>2
<1> QED
  BY <1>1, <1>2

\* Many or sure matches only raise a severity.
LEMMA SeverityRises ==
    ASSUME NEW b \in 1 .. 5, NEW n, NEW k
    PROVE  M!CalculateAggregatedSeverity(b, n, k) \in b .. 5
<1> DEFINE high == IF n > 3 /\ b < 4 THEN 4 ELSE b
           many == IF n > 5 /\ k > 80000 /\ b < 5 THEN 5 ELSE high
<1>1. high \in b .. 5
  OBVIOUS
<1> HIDE DEF high
<1>2. many \in b .. 5
  BY <1>1
<1> HIDE DEF many
<1>3. (IF k > 90000 /\ many < 5 THEN many + 1 ELSE many) \in b .. 5
  BY <1>2
<1> QED
  BY <1>3 DEF M!CalculateAggregatedSeverity, many, high

\* The alert for a reading of an event covers the rules found for it.
LEMMA AlertCovers ==
    ASSUME NEW e, NEW severity \in M!AggregatedAlert(e)
    PROVE  /\ severity \in 0 .. 5
           /\ severity > 0 <=> M!Detect(e) # {}
           /\ \A q \in M!Detect(e) : M!SeverityRank(q.level) > 0 => M!SeverityFromString(q.level) <= severity
<1> DEFINE F == M!Detect(e)
<1>1. F = IF M!IsWhitelisted(e) THEN {} ELSE {r \in M!GetRules(e) : M!EvaluateRuleForAggregation(r, e) > 0}
  BY EvaluationsAgree DEF M!Detect
<1>2. M!AggregatedAlert(e) =
          IF F = {} THEN {0}
          ELSE {M!CalculateAggregatedSeverity(M!SeverityFromString(r.level), M!Cardinality(F),
                                              M!CombinedConfidence(F, e)) : r \in M!HighestSeverityMatch(F, e)}
  BY <1>1 DEF M!AggregatedAlert
<1> HIDE DEF F
<1>3. CASE F = {}
  BY <1>2, <1>3 DEF F
<1>4. CASE F # {}
  <2>1. PICK r \in M!HighestSeverityMatch(F, e) :
            severity = M!CalculateAggregatedSeverity(M!SeverityFromString(r.level), M!Cardinality(F), M!CombinedConfidence(F, e))
    BY <1>2, <1>4
  <2>2. r \in F /\ \A q \in F : M!SeverityRank(q.level) <= M!SeverityRank(r.level)
    BY <2>1 DEF M!HighestSeverityMatch
  <2>3. M!SeverityFromString(r.level) \in 1 .. 5
    BY DEF M!SeverityFromString
  <2>4. severity \in M!SeverityFromString(r.level) .. 5
    BY <2>1, <2>3, SeverityRises
  <2>5. ASSUME NEW q \in F, M!SeverityRank(q.level) > 0 PROVE M!SeverityFromString(q.level) <= severity
    <3>1. M!SeverityFromString(q.level) = M!SeverityRank(q.level) /\ M!SeverityRank(q.level) \in 0 .. 5
      BY <2>5, LevelsRead
    <3>2. M!SeverityRank(r.level) <= M!SeverityFromString(r.level) /\ M!SeverityRank(r.level) \in 0 .. 5
      BY LevelsRead
    <3>3. M!SeverityRank(q.level) <= M!SeverityRank(r.level)
      BY <2>2
    <3> QED
      BY <2>3, <2>4, <3>1, <3>2, <3>3
  <2>6. severity \in 0 .. 5 /\ severity > 0
    BY <2>3, <2>4
  <2> QED
    BY <1>4, <2>5, <2>6 DEF F
<1> QED
  BY <1>3, <1>4

\* The rules found are of those loaded.
LEMMA FoundLoaded == ASSUME NEW e PROVE M!Detect(e) \subseteq loaded
BY DEF M!Detect, M!GetRules

\* The mapper comes to some value, if only to None.
LEMMA Resolves == ASSUME NEW e, NEW f PROVE M!ResolveField(e, f) # {}
<1> DEFINE direct == M!FirstOf(Chain[f], e, {None})
           fallback == M!FirstOf(Fallback[f], e, {None, <<>>})
           late == {M!FirstOf(paths, e, {None}) : paths \in Late[f]} \ {None}
           value(v) == IF v = Null THEN None ELSE v
<1>1. M!ResolveField(e, f) =
          CASE direct # None -> {value(direct)}
            [] direct = None /\ fallback # None -> {value(fallback)}
            [] OTHER -> IF late = {} THEN {None} ELSE {value(v) : v \in late}
  BY Zenon DEF M!ResolveField
<1> HIDE DEF direct, fallback, late, value
<1> QED
  BY <1>1

\* A reading is of the event's own values.
LEMMA ReadsOwn ==
    ASSUME NEW e, NEW x \in M!Readings(e), NEW f \in MatchFields
    PROVE  x.key = e.key /\ x.value[f] \in M!ResolveField(e, f)
<1> DEFINE V == M!Vague(e)
           picks == {p \in [V -> UNION {M!ResolveField(e, g) : g \in V}] : \A g \in V : p[g] \in M!ResolveField(e, g)}
           look(p) == [g \in MatchFields |-> IF g \in V THEN p[g] ELSE CHOOSE v \in M!ResolveField(e, g) : TRUE]
<1>1. PICK p \in picks : x = [product |-> e.product, category |-> e.category, key |-> e.key, value |-> look(p)]
  BY DEF M!Readings
<1>2. x.key = e.key /\ x.value = look(p)
  BY <1>1
<1>3. (CHOOSE v \in M!ResolveField(e, f) : TRUE) \in M!ResolveField(e, f)
  BY Resolves
<1>4. f \in V => p[f] \in M!ResolveField(e, f)
  BY <1>1
<1> QED
  BY <1>2, <1>3, <1>4

\* Of an event whose fields have one value each there is one reading.
LEMMA ReadOneWay ==
    ASSUME NEW e, M!Vague(e) = {}, NEW x \in M!Readings(e), NEW y \in M!Readings(e)
    PROVE  x = y
<1> DEFINE only == [product |-> e.product, category |-> e.category, key |-> e.key,
                    value |-> [g \in MatchFields |-> CHOOSE v \in M!ResolveField(e, g) : TRUE]]
<1>1. \A z \in M!Readings(e) : z = only
  BY DEF M!Readings
<1> QED
  BY <1>1

\* What the cache holds for an event of an agent is the event's own.
OwnCache ==
    \A e \in MatchEvents, f \in MatchFields :
        e.agent /\ <<e.key, f>> \in DOMAIN cache => cache[<<e.key, f>>] \in M!ResolveField(e, f)
MatchInv == M!TypeOK /\ OwnCache /\ M!OwnValues /\ M!AlertCoversMatches

\* Nothing is cached or matched at first.
LEMMA MatchInit == M!Init => MatchInv
<1> SUFFICES ASSUME M!Init PROVE MatchInv
  OBVIOUS
<1>1. DOMAIN cache = {}
  BY DEF M!Init
<1>2. M!Cardinality(DOMAIN cache) = 0
  BY <1>1, MatchCounts, FS_EmptySet
<1>3. M!TypeOK
  BY <1>1, <1>2, MatchingAssumption DEF M!Init, M!TypeOK, M!Nothing
<1> QED
  BY <1>1, <1>3 DEF MatchInv, OwnCache, M!OwnValues, M!AlertCoversMatches, M!Init, M!Nothing

\* A step of matching keeps its invariant.
LEMMA MatchStep == ASSUME MatchInv, [M!Next]_(M!vars) PROVE MatchInv'
<1>1. CASE UNCHANGED M!vars
  BY <1>1 DEF M!vars, MatchInv, OwnCache, M!TypeOK, M!OwnValues, M!AlertCoversMatches
<1>2. ASSUME NEW e \in MatchEvents, M!Process(e) PROVE MatchInv'
  <2>0. PICK once \in M!Readings(e), again \in M!Readings(e) :
            LET resolved == {M!CacheKey(e, f) : f \in {g \in MatchFields : M!Seen(once, g) # None}}
                after == [k \in DOMAIN cache \cup resolved |-> IF k \in DOMAIN cache THEN cache[k] ELSE M!Seen(once, k[2])]
            IN /\ \E severity \in M!AggregatedAlert(once) :
                     last' = [event |-> e, seen |-> [f \in MatchFields |-> M!Seen(once, f)],
                              found |-> M!Detect(again), alert |-> severity]
               /\ \E kept \in SUBSET DOMAIN after :
                     M!Cardinality(kept) <= CacheSize /\ cache' = [k \in kept |-> after[k]]
               /\ UNCHANGED loaded
    BY <1>2 DEF M!Process, M!Restrict
  <2> DEFINE resolved == {M!CacheKey(e, f) : f \in {g \in MatchFields : M!Seen(once, g) # None}}
             after == [k \in DOMAIN cache \cup resolved |-> IF k \in DOMAIN cache THEN cache[k] ELSE M!Seen(once, k[2])]
  <2>1. PICK kept \in SUBSET (DOMAIN cache \cup resolved) :
            M!Cardinality(kept) <= CacheSize /\ cache' = [k \in kept |-> after[k]]
    BY <2>0
  <2>2. PICK severity \in M!AggregatedAlert(once) :
            last' = [event |-> e, seen |-> [f \in MatchFields |-> M!Seen(once, f)], found |-> M!Detect(again), alert |-> severity]
    BY <2>0
  <2>3. loaded' = loaded /\ loaded \in SUBSET MatchRules
    BY <2>0 DEF MatchInv, M!TypeOK
  <2>4. /\ severity \in 0 .. 5 /\ M!Detect(again) \subseteq loaded
        /\ severity > 0 <=> M!Detect(once) # {}
        /\ \A q \in M!Detect(once) : M!SeverityRank(q.level) > 0 => M!SeverityFromString(q.level) <= severity
    BY AlertCovers, FoundLoaded
  <2>5. ASSUME NEW f \in MatchFields, e.agent PROVE M!Seen(once, f) \in M!ResolveField(e, f)
    <3>1. once.key = e.key /\ once.value[f] \in M!ResolveField(e, f)
      BY ReadsOwn
    <3> QED
      BY <2>5, <3>1 DEF MatchInv, OwnCache, M!Seen, M!CacheKey
  <2>6. M!OwnValues'
    <3>1. \A f \in MatchFields : e.agent => M!Seen(once, f) \in M!ResolveField(e, f)
      BY <2>5
    <3>2. last'.event = e /\ last'.seen = [f \in MatchFields |-> M!Seen(once, f)]
      BY <2>2
    <3> QED
      BY <3>1, <3>2 DEF M!OwnValues
  <2>7. M!AlertCoversMatches'
    <3>1. last'.event = e /\ last'.found = M!Detect(again) /\ last'.alert = severity
      BY <2>2
    <3>2. M!Vague(e) = {} => once = again
      BY ReadOneWay
    <3> QED
      BY <2>4, <3>1, <3>2 DEF M!AlertCoversMatches
  <2>8. M!TypeOK'
    <3>1. kept \subseteq {d.key : d \in MatchEvents} \X MatchFields
      BY <2>1 DEF MatchInv, M!TypeOK, M!CacheKey
    <3>2. DOMAIN cache' = kept
      BY <2>1
    <3> QED
      BY <2>1, <2>2, <2>3, <2>4, <3>1, <3>2 DEF M!TypeOK
  <2>9. ASSUME NEW d \in MatchEvents, NEW f \in MatchFields, d.agent, <<d.key, f>> \in DOMAIN cache'
        PROVE  cache'[<<d.key, f>>] \in M!ResolveField(d, f)
    <3> DEFINE k == <<d.key, f>>
    <3>1. k \in kept /\ k[2] = f /\ cache'[k] = IF k \in DOMAIN cache THEN cache[k] ELSE M!Seen(once, f)
      BY <2>1, <2>9
    <3>2. CASE k \in DOMAIN cache
      BY <2>9, <3>1, <3>2 DEF MatchInv, OwnCache
    <3>3. CASE k \notin DOMAIN cache
      <4>1. PICK g \in MatchFields : k = <<e.key, g>>
        BY <3>1, <3>3 DEF M!CacheKey
      <4>2. d.key = e.key
        BY <4>1
      <4>3. e = d
        BY <2>9, <4>2, MatchingAssumption
      <4>4. cache'[k] = M!Seen(once, f)
        BY <3>1, <3>3
      <4> QED
        BY <2>5, <2>9, <4>3, <4>4
    <3> QED
      BY <3>2, <3>3
  <2>10. OwnCache'
    BY <2>9 DEF OwnCache
  <2> QED
    BY <2>6, <2>7, <2>8, <2>10 DEF MatchInv
<1> QED
  BY <1>1, <1>2 DEF M!Next

\* Whatever part moves, rules are matched against the event's own values, there is an alert
\* exactly when a rule matches an event without two values for a field, no less severe than
\* a rule whose level has a rank, and a field of an event has one value
\* (SigmaDetectionEngine, FieldCache, LogEvent.GetField), for any rules, events and fields and
\* any confidence asked for, with the filters on or off.
THEOREM Matches == EngineSpec => []MatchesAreTrue
<1>1. EngineInit => MatchInv /\ FieldsInv
  BY MatchInit, FieldsInit DEF EngineInit
<1>2. MatchInv /\ FieldsInv /\ [EngineNext]_engineVars => (MatchInv /\ FieldsInv)'
  <2> SUFFICES ASSUME MatchInv, FieldsInv, [EngineNext]_engineVars PROVE MatchInv' /\ FieldsInv'
    OBVIOUS
  <2>1. [M!Next]_(M!vars) /\ [E!Next]_(E!vars)
    BY PartsMove
  <2> QED
    BY <2>1, MatchStep, FieldsStep
<1>3. MatchInv /\ FieldsInv => MatchesAreTrue
  BY FieldsPromise DEF MatchInv, MatchesAreTrue
<1> QED
  BY <1>1, <1>2, <1>3, PTL DEF EngineSpec

-----------------------------------------------------------------------------
(* The index.                                                                *)

Picks(q, Y) ==
    LET upTo[i \in 0 .. Len(q)] ==
            IF i = 0 THEN <<>> ELSE IF q[i] \in Y THEN Append(upTo[i - 1], q[i]) ELSE upTo[i - 1]
    IN  upTo
Pick1(q, Y, g, i) == IF i = 0 THEN <<>> ELSE IF q[i] \in Y THEN Append(g[i - 1], q[i]) ELSE g[i - 1]

\* The loop over q gathers what its definition says.
LEMMA PicksDefined ==
    ASSUME NEW S, NEW q \in Seq(S), NEW Y
    PROVE  /\ Picks(q, Y) = [i \in 0 .. Len(q) |-> Pick1(q, Y, Picks(q, Y), i)]
           /\ Picks(q, Y) \in [0 .. Len(q) -> Seq(S)]
<1> DEFINE Good(n, g) == g = [i \in 0 .. n |-> g[i]] /\ \A i \in 0 .. n : g[i] = Pick1(q, Y, g, i)
           There(n) == \E g : Good(n, g)
           T == {n \in Nat : There(n)}
<1>0. Len(q) \in Nat /\ \A i \in 1 .. Len(q) : q[i] \in S
  OBVIOUS
<1>1. There(0)
  <2> DEFINE g == [i \in 0 .. 0 |-> <<>>]
  <2>1. Good(0, g)
    BY DEF Pick1
  <2> QED
    BY <2>1
<1>2. ASSUME NEW n \in Nat, There(n) PROVE There(n + 1)
  <2>1. PICK g : Good(n, g)
    BY <1>2
  <2> DEFINE h == [i \in 0 .. n + 1 |-> IF i = n + 1 THEN Pick1(q, Y, g, n + 1) ELSE g[i]]
  <2>2. \A i \in 0 .. n : h[i] = g[i] /\ i \in 0 .. n + 1
    OBVIOUS
  <2>3. h[n + 1] = Pick1(q, Y, g, n + 1) /\ h = [i \in 0 .. n + 1 |-> h[i]]
    OBVIOUS
  <2> HIDE DEF h
  <2>4. ASSUME NEW i \in 0 .. n + 1 PROVE h[i] = Pick1(q, Y, h, i)
    <3>1. CASE i = 0
      <4>1. h[0] = g[0] /\ g[0] = Pick1(q, Y, g, 0)
        BY <2>1, <2>2
      <4> QED
        BY <3>1, <4>1 DEF Pick1
    <3>2. CASE i # 0
      <4>1. i - 1 \in 0 .. n /\ h[i - 1] = g[i - 1]
        BY <2>2, <2>4, <3>2
      <4>2. h[i] = Pick1(q, Y, g, i)
        <5>1. CASE i = n + 1
          BY <2>3, <5>1
        <5>2. CASE i # n + 1
          <6>1. i \in 0 .. n
            BY <2>4, <5>2
          <6> QED
            BY <2>1, <2>2, <6>1
        <5> QED
          BY <5>1, <5>2
      <4> QED
        BY <3>2, <4>1, <4>2 DEF Pick1
    <3> QED
      BY <3>1, <3>2
  <2> QED
    BY <2>3, <2>4
<1> HIDE DEF There
<1>3. There(Len(q))
  <2>1. 0 \in T /\ \A n \in Nat : n \in T => n + 1 \in T
    BY <1>1, <1>2
  <2> HIDE DEF T
  <2>2. Nat \subseteq T
    BY <2>1, Climb
  <2> QED
    BY <1>0, <2>2 DEF T
<1>4. PICK g : Good(Len(q), g)
  BY <1>3 DEF There
<1>5. g = [i \in 0 .. Len(q) |-> IF i = 0 THEN <<>> ELSE IF q[i] \in Y THEN Append(g[i - 1], q[i]) ELSE g[i - 1]]
  <2> HIDE DEF Pick1
  <2>1. g = [i \in 0 .. Len(q) |-> g[i]] /\ \A i \in 0 .. Len(q) : g[i] = Pick1(q, Y, g, i)
    BY <1>4
  <2> QED
    BY <2>1 DEF Pick1
<1>6. Picks(q, Y) = [i \in 0 .. Len(q) |-> Pick1(q, Y, Picks(q, Y), i)]
  BY <1>5 DEF Picks, Pick1
<1>7. ASSUME NEW f, f = [i \in 0 .. Len(q) |-> Pick1(q, Y, f, i)] PROVE f \in [0 .. Len(q) -> Seq(S)]
  <2> DEFINE U == {n \in Nat : n <= Len(q) => f[n] \in Seq(S)}
  <2>0. DOMAIN f = 0 .. Len(q) /\ \A i \in 0 .. Len(q) : f[i] = Pick1(q, Y, f, i)
    BY <1>7
  <2>1. 0 \in U
    <3>1. f[0] = <<>> /\ <<>> \in Seq(S)
      BY <1>0, <2>0 DEF Pick1
    <3> QED
      BY <3>1
  <2>2. ASSUME NEW n \in Nat, n \in U PROVE n + 1 \in U
    <3> SUFFICES ASSUME n + 1 <= Len(q) PROVE f[n + 1] \in Seq(S)
      <4>1. n + 1 \in Nat
        OBVIOUS
      <4> QED
        BY <4>1
    <3>1. f[n] \in Seq(S) /\ q[n + 1] \in S /\ n + 1 \in 0 .. Len(q) /\ n + 1 # 0 /\ (n + 1) - 1 = n
      BY <1>0, <2>2
    <3>2. f[n + 1] = IF q[n + 1] \in Y THEN Append(f[n], q[n + 1]) ELSE f[n]
      BY <2>0, <3>1 DEF Pick1
    <3> QED
      BY <3>1, <3>2
  <2> HIDE DEF U
  <2>3. Nat \subseteq U
    BY <2>1, <2>2, Climb
  <2>4. ASSUME NEW i \in 0 .. Len(q) PROVE f[i] \in Seq(S)
    BY <1>0, <2>3, <2>4 DEF U
  <2> QED
    BY <1>7, <2>0, <2>4
<1> HIDE DEF Good
<1> QED
  BY <1>6, <1>7

\* Gathering stage by stage.
LEMMA PicksStep ==
    ASSUME NEW S, NEW q \in Seq(S), NEW Y
    PROVE  /\ Picks(q, Y)[0] = <<>>
           /\ \A n \in 0 .. Len(q) : Picks(q, Y)[n] \in Seq(S)
           /\ \A n \in 0 .. Len(q) - 1 :
                  Picks(q, Y)[n + 1] = IF q[n + 1] \in Y THEN Append(Picks(q, Y)[n], q[n + 1]) ELSE Picks(q, Y)[n]
           /\ X!Chosen(q, Y) = Picks(q, Y)[Len(q)]
<1> DEFINE f == Picks(q, Y)
<1>0. Len(q) \in Nat
  OBVIOUS
<1>1. f = [i \in 0 .. Len(q) |-> Pick1(q, Y, f, i)] /\ f \in [0 .. Len(q) -> Seq(S)]
  BY PicksDefined
<1>2. X!Chosen(q, Y) = f[Len(q)]
  BY DEF X!Chosen, Picks
<1> HIDE DEF f
<1>3. \A i \in 0 .. Len(q) : f[i] = Pick1(q, Y, f, i)
  BY <1>1
<1>4. f[0] = <<>>
  BY <1>0, <1>3 DEF Pick1
<1>5. ASSUME NEW n \in 0 .. Len(q) - 1
      PROVE  f[n + 1] = IF q[n + 1] \in Y THEN Append(f[n], q[n + 1]) ELSE f[n]
  <2>1. n + 1 \in 0 .. Len(q) /\ n + 1 # 0 /\ (n + 1) - 1 = n
    BY <1>0
  <2> QED
    BY <1>3, <2>1 DEF Pick1
<1> QED
  BY <1>1, <1>2, <1>4, <1>5 DEF f

\* What is gathered of a prefix depends on the prefix.
LEMMA PicksPrefix ==
    ASSUME NEW S, NEW q \in Seq(S), NEW p \in Seq(S), NEW Y, Len(q) <= Len(p),
           \A i \in 1 .. Len(q) : p[i] = q[i]
    PROVE  \A n \in 0 .. Len(q) : Picks(p, Y)[n] = Picks(q, Y)[n]
<1> DEFINE f == Picks(q, Y)
           g == Picks(p, Y)
           T == {n \in Nat : n <= Len(q) => g[n] = f[n]}
<1>0. Len(q) \in Nat /\ Len(p) \in Nat
  OBVIOUS
<1>1. f[0] = <<>> /\ g[0] = <<>>
  BY PicksStep
<1>2. /\ \A n \in 0 .. Len(q) - 1 : f[n + 1] = IF q[n + 1] \in Y THEN Append(f[n], q[n + 1]) ELSE f[n]
      /\ \A n \in 0 .. Len(p) - 1 : g[n + 1] = IF p[n + 1] \in Y THEN Append(g[n], p[n + 1]) ELSE g[n]
  BY PicksStep
<1> HIDE DEF f, g
<1>3. 0 \in T
  BY <1>1
<1>4. ASSUME NEW n \in Nat, n \in T PROVE n + 1 \in T
  <2>1. CASE n + 1 <= Len(q)
    <3>1. n \in 0 .. Len(q) - 1 /\ n \in 0 .. Len(p) - 1 /\ n + 1 \in 1 .. Len(q) /\ n <= Len(q)
      BY <1>0, <2>1
    <3>2. g[n] = f[n] /\ p[n + 1] = q[n + 1]
      BY <1>4, <3>1
    <3>3. g[n + 1] = f[n + 1]
      BY <1>2, <3>1, <3>2
    <3> QED
      BY <3>3
  <2>2. CASE ~(n + 1 <= Len(q))
    BY <2>2
  <2> QED
    BY <2>1, <2>2
<1> HIDE DEF T
<1>5. Nat \subseteq T
  BY <1>3, <1>4, Climb
<1>6. ASSUME NEW n \in 0 .. Len(q) PROVE g[n] = f[n]
  BY <1>0, <1>5, <1>6 DEF T
<1> QED
  BY <1>6 DEF f, g

\* One rule more.
LEMMA ChosenAppend ==
    ASSUME NEW S, NEW q \in Seq(S), NEW r \in S, NEW Y
    PROVE  X!Chosen(Append(q, r), Y) = IF r \in Y THEN Append(X!Chosen(q, Y), r) ELSE X!Chosen(q, Y)
<1> DEFINE p == Append(q, r)
<1>1. p \in Seq(S) /\ Len(p) = Len(q) + 1 /\ Len(q) \in Nat /\ p[Len(q) + 1] = r /\ \A i \in 1 .. Len(q) : p[i] = q[i]
  OBVIOUS
<1> HIDE DEF p
<1>2. Picks(p, Y)[Len(q)] = Picks(q, Y)[Len(q)]
  BY <1>1, PicksPrefix
<1>3. X!Chosen(q, Y) = Picks(q, Y)[Len(q)] /\ X!Chosen(p, Y) = Picks(p, Y)[Len(q) + 1]
  BY <1>1, PicksStep
<1>4. Picks(p, Y)[Len(q) + 1] = IF p[Len(q) + 1] \in Y THEN Append(Picks(p, Y)[Len(q)], p[Len(q) + 1]) ELSE Picks(p, Y)[Len(q)]
  <2>1. Len(q) \in 0 .. Len(p) - 1
    BY <1>1
  <2> QED
    BY <1>1, <2>1, PicksStep
<1> QED
  BY <1>1, <1>2, <1>3, <1>4 DEF p

\* All the rules of Y that q has are gathered, and nothing if it has none.
LEMMA ChosenAll ==
    ASSUME NEW S, NEW q \in Seq(S), NEW Y
    PROVE  /\ X!Chosen(q, Y) \in Seq(S)
           /\ \A r \in X!Range(q) \cap Y : X!Chosen(q, Y) # <<>> /\ r \in X!Range(X!Chosen(q, Y))
           /\ X!Range(q) \cap Y = {} => X!Chosen(q, Y) = <<>>
<1> DEFINE f == Picks(q, Y)
           T == {n \in Nat : n <= Len(q) => \A i \in 1 .. n : q[i] \in Y => \E j \in 1 .. Len(f[n]) : f[n][j] = q[i]}
           U == {n \in Nat : n <= Len(q) => f[n] = <<>>}
<1>0. Len(q) \in Nat /\ (\A i \in 1 .. Len(q) : q[i] \in S) /\ DOMAIN q = 1 .. Len(q)
  OBVIOUS
<1>1. f[0] = <<>> /\ (\A n \in 0 .. Len(q) : f[n] \in Seq(S)) /\ X!Chosen(q, Y) = f[Len(q)]
  BY PicksStep
<1>2. \A n \in 0 .. Len(q) - 1 : f[n + 1] = IF q[n + 1] \in Y THEN Append(f[n], q[n + 1]) ELSE f[n]
  BY PicksStep
<1> HIDE DEF f
<1>3. 0 \in T
  OBVIOUS
<1>4. ASSUME NEW n \in Nat, n \in T PROVE n + 1 \in T
  <2> SUFFICES ASSUME n + 1 <= Len(q), NEW i \in 1 .. n + 1, q[i] \in Y
               PROVE  \E j \in 1 .. Len(f[n + 1]) : f[n + 1][j] = q[i]
    <3>1. n + 1 \in Nat
      OBVIOUS
    <3> QED
      BY <3>1
  <2>1. n \in 0 .. Len(q) - 1 /\ n <= Len(q) /\ n + 1 \in 1 .. Len(q) /\ n \in 0 .. Len(q)
    BY <1>0
  <2>2. f[n] \in Seq(S) /\ q[n + 1] \in S
    BY <1>0, <1>1, <2>1
  <2>3. f[n + 1] = IF q[n + 1] \in Y THEN Append(f[n], q[n + 1]) ELSE f[n]
    BY <1>2, <2>1
  <2>4. CASE i = n + 1
    <3> DEFINE s == f[n]
               x == q[n + 1]
    <3>1. s \in Seq(S) /\ x \in S
      BY <2>2
    <3> HIDE DEF s, x
    <3>2. Len(Append(s, x)) \in 1 .. Len(Append(s, x)) /\ Append(s, x)[Len(Append(s, x))] = x
      BY <3>1
    <3> QED
      BY <2>3, <2>4, <3>2 DEF s, x
  <2>5. CASE i # n + 1
    <3>1. i \in 1 .. n
      BY <2>5
    <3>2. PICK j \in 1 .. Len(f[n]) : f[n][j] = q[i]
      BY <1>4, <2>1, <3>1
    <3> DEFINE s == f[n]
               x == q[n + 1]
    <3>3. s \in Seq(S) /\ x \in S
      BY <2>2
    <3> HIDE DEF s, x
    <3>4. ASSUME NEW k \in 1 .. Len(s) PROVE k \in 1 .. Len(Append(s, x)) /\ Append(s, x)[k] = s[k]
      BY <3>3
    <3>5. j \in 1 .. Len(Append(s, x)) /\ Append(s, x)[j] = s[j]
      BY <3>4 DEF s
    <3> QED
      BY <2>3, <3>2, <3>5 DEF s, x
  <2> QED
    BY <2>4, <2>5
<1> HIDE DEF T
<1>5. Nat \subseteq T
  BY <1>3, <1>4, Climb
<1>6. ASSUME NEW r \in X!Range(q) \cap Y PROVE f[Len(q)] # <<>> /\ r \in X!Range(f[Len(q)])
  <2>1. PICK i \in 1 .. Len(q) : q[i] = r
    BY <1>0, <1>6 DEF X!Range
  <2>2. PICK j \in 1 .. Len(f[Len(q)]) : f[Len(q)][j] = q[i]
    <3>1. Len(q) \in T /\ Len(q) <= Len(q)
      BY <1>0, <1>5
    <3> QED
      BY <1>6, <2>1, <3>1 DEF T
  <2>3. f[Len(q)] \in Seq(S)
    BY <1>0, <1>1
  <2> DEFINE s == f[Len(q)]
  <2> HIDE DEF s
  <2>4. s \in Seq(S) /\ j \in 1 .. Len(s) /\ s[j] = r
    BY <2>1, <2>2, <2>3 DEF s
  <2>5. s # <<>> /\ j \in DOMAIN s
    BY <2>4
  <2> QED
    BY <2>4, <2>5 DEF s, X!Range
<1>7. ASSUME X!Range(q) \cap Y = {} PROVE f[Len(q)] = <<>>
  <2>1. \A i \in 1 .. Len(q) : q[i] \notin Y
    BY <1>0, <1>7 DEF X!Range
  <2>2. 0 \in U
    BY <1>1
  <2>3. ASSUME NEW n \in Nat, n \in U PROVE n + 1 \in U
    <3>1. CASE n + 1 <= Len(q)
      <4>1. n \in 0 .. Len(q) - 1 /\ n <= Len(q) /\ n + 1 \in 1 .. Len(q)
        BY <1>0, <3>1
      <4>2. f[n + 1] = f[n] /\ f[n] = <<>>
        BY <1>2, <2>1, <2>3, <4>1
      <4> QED
        BY <4>2
    <3>2. CASE ~(n + 1 <= Len(q))
      BY <3>2
    <3> QED
      BY <3>1, <3>2
  <2> HIDE DEF U
  <2>4. Nat \subseteq U
    BY <2>2, <2>3, Climb
  <2> QED
    BY <1>0, <2>4 DEF U
<1>8. f[Len(q)] \in Seq(S)
  BY <1>0, <1>1
<1> QED
  BY <1>1, <1>6, <1>7, <1>8

\* The rules that go under a key of each table.
KeyRules(k) == {r \in IndexRules : X!buildKey(r) = k}
CatRules(k) == {r \in IndexRules : X!InCategory(r) /\ X!catKey(r) = k}
ProdRules(k) == {r \in IndexRules : X!InProduct(r) /\ r.product = k}

\* Each table holds under each key the rules of q that go there, in the order of q.
Tables(idx, cat, prod, q) ==
    /\ \A k : X!At(idx, k) = X!Chosen(q, KeyRules(k))
    /\ \A k : X!At(cat, k) = X!Chosen(q, CatRules(k))
    /\ \A k : X!At(prod, k) = X!Chosen(q, ProdRules(k))

Slices(t) == \A k \in DOMAIN t : t[k] \in Seq(IndexRules)

\* A table with a key written.
LEMMA PutAt ==
    ASSUME NEW t, NEW k, NEW v
    PROVE  /\ \A j : X!At(X!Put(t, k, v), j) = IF j = k THEN v ELSE X!At(t, j)
           /\ Slices(t) /\ v \in Seq(IndexRules) => Slices(X!Put(t, k, v))
           /\ Slices(t) => X!At(t, k) \in Seq(IndexRules)
BY DEF X!At, X!Put, Slices

\* BuildIndex fills the tables.
LEMMA Built ==
    ASSUME NEW q \in Seq(IndexRules)
    PROVE  LET idx == X!Table(q, X!buildKey, X!Always)
               cat == X!Table(q, X!catKey, X!InCategory)
               prod == X!Table(q, X!Product, X!InProduct)
           IN  Tables(idx, cat, prod, q) /\ Slices(idx) /\ Slices(cat) /\ Slices(prod)
<1> DEFINE idx == X!Table(q, X!buildKey, X!Always)
           cat == X!Table(q, X!catKey, X!InCategory)
           prod == X!Table(q, X!Product, X!InProduct)
           A == {X!buildKey(r) : r \in X!Range(q)}
           B == {X!catKey(r) : r \in {s \in X!Range(q) : X!InCategory(s)}}
           C0 == {r.product : r \in {s \in X!Range(q) : X!InProduct(s)}}
<1>0. X!Range(q) \subseteq IndexRules
  BY DEF X!Range
<1>1. idx = [k \in A |-> X!Chosen(q, KeyRules(k))]
  BY DEF X!Table, X!Always, KeyRules
<1>2. cat = [k \in B |-> X!Chosen(q, CatRules(k))]
  BY DEF X!Table, CatRules
<1>3. prod = [k \in C0 |-> X!Chosen(q, ProdRules(k))]
  BY DEF X!Table, X!Product, ProdRules
<1> HIDE DEF idx, cat, prod
<1>4. ASSUME NEW k PROVE X!At(idx, k) = X!Chosen(q, KeyRules(k))
  <2>1. k \notin A => X!Range(q) \cap KeyRules(k) = {}
    BY DEF KeyRules
  <2>2. k \notin A => X!Chosen(q, KeyRules(k)) = <<>>
    BY <2>1, ChosenAll
  <2> HIDE DEF A
  <2> QED
    BY <1>1, <2>2 DEF X!At
<1>5. ASSUME NEW k PROVE X!At(cat, k) = X!Chosen(q, CatRules(k))
  <2>1. k \notin B => X!Range(q) \cap CatRules(k) = {}
    BY DEF CatRules
  <2>2. k \notin B => X!Chosen(q, CatRules(k)) = <<>>
    BY <2>1, ChosenAll
  <2> HIDE DEF B
  <2> QED
    BY <1>2, <2>2 DEF X!At
<1>6. ASSUME NEW k PROVE X!At(prod, k) = X!Chosen(q, ProdRules(k))
  <2>1. k \notin C0 => X!Range(q) \cap ProdRules(k) = {}
    BY DEF ProdRules
  <2>2. k \notin C0 => X!Chosen(q, ProdRules(k)) = <<>>
    BY <2>1, ChosenAll
  <2> HIDE DEF C0
  <2> QED
    BY <1>3, <2>2 DEF X!At
<1> HIDE DEF A, B, C0
<1>7. Slices(idx)
  BY <1>1, ChosenAll DEF Slices
<1>8. Slices(cat)
  BY <1>2, ChosenAll DEF Slices
<1>9. Slices(prod)
  BY <1>3, ChosenAll DEF Slices
<1> QED
  BY <1>4, <1>5, <1>6, <1>7, <1>8, <1>9 DEF Tables, idx, cat, prod

\* The indexer's state as a value.
Shaped(s) ==
    /\ DOMAIN s = {"all", "index", "category", "product", "total", "per"}
    /\ s.all \in Seq(IndexRules) /\ s.total = Len(s.all)
    /\ Slices(s.index) /\ Slices(s.category) /\ Slices(s.product)
Holds(s) == Tables(s.index, s.category, s.product, s.all)

\* AddRule adds a rule whose id is new.
LEMMA AddOne ==
    ASSUME NEW s, Shaped(s), NEW r \in IndexRules
    PROVE  /\ Shaped(X!AddRule(s, r))
           /\ ~X!Has(s.all, r.id) => X!AddRule(s, r).all = Append(s.all, r)
           /\ ~X!Has(s.all, r.id) /\ Holds(s) => Holds(X!AddRule(s, r))
<1> DEFINE a == X!AddRule(s, r)
           idx == X!Put(s.index, X!buildKey(r), Append(X!At(s.index, X!buildKey(r)), r))
           cat == IF X!InCategory(r) THEN X!Put(s.category, X!catKey(r), Append(X!At(s.category, X!catKey(r)), r)) ELSE s.category
           prod == IF X!InProduct(r) THEN X!Put(s.product, r.product, Append(X!At(s.product, r.product), r)) ELSE s.product
<1>1. CASE X!Has(s.all, r.id)
  BY <1>1 DEF X!AddRule
<1>2. CASE ~X!Has(s.all, r.id)
  <2>1. /\ DOMAIN a = {"all", "index", "category", "product", "total", "per"}
        /\ a.all = Append(s.all, r) /\ a.total = s.total + 1 /\ a.index = idx /\ a.category = cat /\ a.product = prod
    BY <1>2 DEF X!AddRule, Shaped
  <2> HIDE DEF a
  <2>2. s.all \in Seq(IndexRules) /\ s.total = Len(s.all) /\ Slices(s.index) /\ Slices(s.category) /\ Slices(s.product)
    BY DEF Shaped
  <2>3. Append(s.all, r) \in Seq(IndexRules) /\ Len(Append(s.all, r)) = Len(s.all) + 1
    BY <2>2
  <2>4. Slices(idx)
    <3>1. X!At(s.index, X!buildKey(r)) \in Seq(IndexRules)
      BY <2>2, PutAt
    <3>2. Append(X!At(s.index, X!buildKey(r)), r) \in Seq(IndexRules)
      BY <3>1
    <3> QED
      BY <2>2, <3>2, PutAt
  <2>5. Slices(cat)
    <3>1. X!At(s.category, X!catKey(r)) \in Seq(IndexRules)
      BY <2>2, PutAt
    <3>2. Append(X!At(s.category, X!catKey(r)), r) \in Seq(IndexRules)
      BY <3>1
    <3> QED
      BY <2>2, <3>2, PutAt
  <2>6. Slices(prod)
    <3>1. X!At(s.product, r.product) \in Seq(IndexRules)
      BY <2>2, PutAt
    <3>2. Append(X!At(s.product, r.product), r) \in Seq(IndexRules)
      BY <3>1
    <3> QED
      BY <2>2, <3>2, PutAt
  <2>7. ASSUME Holds(s) PROVE Holds(a)
    <3>0. /\ \A k : X!At(s.index, k) = X!Chosen(s.all, KeyRules(k))
          /\ \A k : X!At(s.category, k) = X!Chosen(s.all, CatRules(k))
          /\ \A k : X!At(s.product, k) = X!Chosen(s.all, ProdRules(k))
      BY <2>7 DEF Holds, Tables
    <3>1. ASSUME NEW k PROVE X!At(idx, k) = X!Chosen(Append(s.all, r), KeyRules(k))
      <4>1. X!At(idx, k) = IF k = X!buildKey(r) THEN Append(X!At(s.index, k), r) ELSE X!At(s.index, k)
        BY PutAt
      <4>2. r \in KeyRules(k) <=> k = X!buildKey(r)
        BY DEF KeyRules
      <4>3. X!Chosen(Append(s.all, r), KeyRules(k)) = IF r \in KeyRules(k) THEN Append(X!Chosen(s.all, KeyRules(k)), r) ELSE X!Chosen(s.all, KeyRules(k))
        BY <2>2, ChosenAppend
      <4> HIDE DEF idx
      <4> QED
        BY <3>0, <4>1, <4>2, <4>3
    <3>2. ASSUME NEW k PROVE X!At(cat, k) = X!Chosen(Append(s.all, r), CatRules(k))
      <4>1. X!At(cat, k) = IF X!InCategory(r) /\ k = X!catKey(r) THEN Append(X!At(s.category, k), r) ELSE X!At(s.category, k)
        BY PutAt
      <4>2. r \in CatRules(k) <=> X!InCategory(r) /\ k = X!catKey(r)
        BY DEF CatRules
      <4>3. X!Chosen(Append(s.all, r), CatRules(k)) = IF r \in CatRules(k) THEN Append(X!Chosen(s.all, CatRules(k)), r) ELSE X!Chosen(s.all, CatRules(k))
        BY <2>2, ChosenAppend
      <4> HIDE DEF cat
      <4> QED
        BY <3>0, <4>1, <4>2, <4>3
    <3>3. ASSUME NEW k PROVE X!At(prod, k) = X!Chosen(Append(s.all, r), ProdRules(k))
      <4>1. X!At(prod, k) = IF X!InProduct(r) /\ k = r.product THEN Append(X!At(s.product, k), r) ELSE X!At(s.product, k)
        BY PutAt
      <4>2. r \in ProdRules(k) <=> X!InProduct(r) /\ k = r.product
        BY DEF ProdRules
      <4>3. X!Chosen(Append(s.all, r), ProdRules(k)) = IF r \in ProdRules(k) THEN Append(X!Chosen(s.all, ProdRules(k)), r) ELSE X!Chosen(s.all, ProdRules(k))
        BY <2>2, ChosenAppend
      <4> HIDE DEF prod
      <4> QED
        BY <3>0, <4>1, <4>2, <4>3
    <3> HIDE DEF idx, cat, prod
    <3> QED
      BY <2>1, <3>1, <3>2, <3>3 DEF Holds, Tables
  <2> HIDE DEF idx, cat, prod
  <2>8. Shaped(a)
    BY <2>1, <2>2, <2>3, <2>4, <2>5, <2>6 DEF Shaped
  <2> QED
    BY <2>1, <2>7, <2>8 DEF a
<1> QED
  BY <1>1, <1>2

Stages(s, q) ==
    LET state[i \in 0 .. Len(q)] == IF i = 0 THEN s ELSE X!AddRule(state[i - 1], q[i])
    IN  state
Stage1(s, q, g, i) == IF i = 0 THEN s ELSE X!AddRule(g[i - 1], q[i])

\* The loop that adds the rules q to the state s does what its definition says.
LEMMA StagesDefined ==
    ASSUME NEW S, NEW q \in Seq(S), NEW s
    PROVE  Stages(s, q) = [i \in 0 .. Len(q) |-> Stage1(s, q, Stages(s, q), i)]
<1> DEFINE Good(n, g) == g = [i \in 0 .. n |-> g[i]] /\ \A i \in 0 .. n : g[i] = Stage1(s, q, g, i)
           There(n) == \E g : Good(n, g)
           T == {n \in Nat : There(n)}
<1>0. Len(q) \in Nat
  OBVIOUS
<1>1. There(0)
  <2> DEFINE g == [i \in 0 .. 0 |-> s]
  <2>1. Good(0, g)
    BY DEF Stage1
  <2> QED
    BY <2>1
<1>2. ASSUME NEW n \in Nat, There(n) PROVE There(n + 1)
  <2>1. PICK g : Good(n, g)
    BY <1>2
  <2> DEFINE h == [i \in 0 .. n + 1 |-> IF i = n + 1 THEN Stage1(s, q, g, n + 1) ELSE g[i]]
  <2>2. \A i \in 0 .. n : h[i] = g[i] /\ i \in 0 .. n + 1
    OBVIOUS
  <2>3. h[n + 1] = Stage1(s, q, g, n + 1) /\ h = [i \in 0 .. n + 1 |-> h[i]]
    OBVIOUS
  <2> HIDE DEF h
  <2>4. ASSUME NEW i \in 0 .. n + 1 PROVE h[i] = Stage1(s, q, h, i)
    <3>1. CASE i = 0
      <4>1. h[0] = g[0] /\ g[0] = Stage1(s, q, g, 0)
        BY <2>1, <2>2
      <4> QED
        BY <3>1, <4>1 DEF Stage1
    <3>2. CASE i # 0
      <4>1. i - 1 \in 0 .. n /\ h[i - 1] = g[i - 1]
        BY <2>2, <2>4, <3>2
      <4>2. h[i] = Stage1(s, q, g, i)
        <5>1. CASE i = n + 1
          BY <2>3, <5>1
        <5>2. CASE i # n + 1
          <6>1. i \in 0 .. n
            BY <2>4, <5>2
          <6> QED
            BY <2>1, <2>2, <6>1
        <5> QED
          BY <5>1, <5>2
      <4> QED
        BY <3>2, <4>1, <4>2 DEF Stage1
    <3> QED
      BY <3>1, <3>2
  <2> QED
    BY <2>3, <2>4
<1> HIDE DEF There
<1>3. There(Len(q))
  <2>1. 0 \in T /\ \A n \in Nat : n \in T => n + 1 \in T
    BY <1>1, <1>2
  <2> HIDE DEF T
  <2>2. Nat \subseteq T
    BY <2>1, Climb
  <2> QED
    BY <1>0, <2>2 DEF T
<1>4. PICK g : Good(Len(q), g)
  BY <1>3 DEF There
<1>5. g = [i \in 0 .. Len(q) |-> IF i = 0 THEN s ELSE X!AddRule(g[i - 1], q[i])]
  <2>1. g = [i \in 0 .. Len(q) |-> g[i]] /\ \A i \in 0 .. Len(q) : g[i] = Stage1(s, q, g, i)
    BY <1>4
  <2> QED
    BY <2>1 DEF Stage1
<1> QED
  BY <1>5 DEF Stages, Stage1

\* Adding rules stage by stage.
LEMMA StagesStep ==
    ASSUME NEW S, NEW q \in Seq(S), NEW s
    PROVE  /\ Stages(s, q)[0] = s
           /\ \A n \in 0 .. Len(q) - 1 : Stages(s, q)[n + 1] = X!AddRule(Stages(s, q)[n], q[n + 1])
<1> DEFINE f == Stages(s, q)
<1>0. Len(q) \in Nat
  OBVIOUS
<1>1. f = [i \in 0 .. Len(q) |-> Stage1(s, q, f, i)]
  BY StagesDefined
<1> HIDE DEF f
<1>2. \A i \in 0 .. Len(q) : f[i] = Stage1(s, q, f, i)
  BY <1>1
<1>3. f[0] = s
  BY <1>0, <1>2 DEF Stage1
<1>4. ASSUME NEW n \in 0 .. Len(q) - 1 PROVE f[n + 1] = X!AddRule(f[n], q[n + 1])
  <2>1. n + 1 \in 0 .. Len(q) /\ n + 1 # 0 /\ (n + 1) - 1 = n
    BY <1>0
  <2> QED
    BY <1>2, <2>1 DEF Stage1
<1> QED
  BY <1>3, <1>4 DEF f

\* Rules whose ids are new, and differ, are added at the end, and the tables keep holding what there is.
LEMMA AddAll ==
    ASSUME NEW s, Shaped(s), NEW q \in Seq(IndexRules)
    PROVE  /\ Shaped(Stages(s, q)[Len(q)])
           /\ /\ \A i \in 1 .. Len(q) : ~X!Has(s.all, q[i].id)
              /\ \A i, j \in 1 .. Len(q) : i # j => q[i].id # q[j].id
              /\ Holds(s)
              => Stages(s, q)[Len(q)].all = s.all \o q /\ Holds(Stages(s, q)[Len(q)])
<1> DEFINE f == Stages(s, q)
           T == {n \in Nat : n <= Len(q) => Shaped(f[n])}
<1>0. Len(q) \in Nat /\ \A i \in 1 .. Len(q) : q[i] \in IndexRules
  OBVIOUS
<1>1. f[0] = s /\ \A n \in 0 .. Len(q) - 1 : f[n + 1] = X!AddRule(f[n], q[n + 1])
  BY StagesStep
<1> HIDE DEF f
<1>2. 0 \in T
  BY <1>1
<1>3. ASSUME NEW n \in Nat, n \in T PROVE n + 1 \in T
  <2>1. CASE n + 1 <= Len(q)
    <3>1. n \in 0 .. Len(q) - 1 /\ n <= Len(q) /\ n + 1 \in 1 .. Len(q)
      BY <1>0, <2>1
    <3>2. Shaped(f[n]) /\ f[n + 1] = X!AddRule(f[n], q[n + 1]) /\ q[n + 1] \in IndexRules
      BY <1>0, <1>1, <1>3, <3>1
    <3>3. Shaped(f[n + 1])
      BY <3>2, AddOne
    <3> QED
      BY <3>3
  <2>2. CASE ~(n + 1 <= Len(q))
    BY <2>2
  <2> QED
    BY <2>1, <2>2
<1>4. \A n \in 0 .. Len(q) : Shaped(f[n])
  <2> HIDE DEF T
  <2>1. Nat \subseteq T
    BY <1>2, <1>3, Climb
  <2> QED
    BY <1>0, <2>1 DEF T
<1>5. ASSUME \A i \in 1 .. Len(q) : ~X!Has(s.all, q[i].id),
             \A i, j \in 1 .. Len(q) : i # j => q[i].id # q[j].id,
             Holds(s)
      PROVE  f[Len(q)].all = s.all \o q /\ Holds(f[Len(q)])
  <2> DEFINE a == s.all
             Grown0(n) == /\ Holds(f[n]) /\ Len(f[n].all) = Len(a) + n
                          /\ \A i \in 1 .. Len(a) : f[n].all[i] = a[i]
                          /\ \A i \in 1 .. n : f[n].all[Len(a) + i] = q[i]
             U == {n \in Nat : n <= Len(q) => Grown0(n)}
  <2>0. a \in Seq(IndexRules) /\ Len(a) \in Nat
    BY DEF Shaped
  <2> HIDE DEF a
  <2>1. 0 \in U
    BY <1>1, <1>5, <2>0 DEF a
  <2>2. ASSUME NEW n \in Nat, n \in U, n + 1 <= Len(q) PROVE Grown0(n + 1)
    <3> DEFINE b == f[n].all
               r == q[n + 1]
    <3>1. n \in 0 .. Len(q) - 1 /\ n \in 0 .. Len(q) /\ n <= Len(q) /\ n + 1 \in 1 .. Len(q) /\ r \in IndexRules
      BY <1>0, <2>2
    <3>2. Grown0(n) /\ Shaped(f[n])
      BY <1>4, <2>2, <3>1
    <3>3. b \in Seq(IndexRules)
      BY <3>2 DEF Shaped
    <3>4. f[n + 1] = X!AddRule(f[n], r)
      BY <1>1, <3>1
    <3>5. ~X!Has(b, r.id)
      <4> SUFFICES ASSUME NEW i \in DOMAIN b, b[i].id = r.id PROVE FALSE
        BY DEF X!Has
      <4>1. i \in 1 .. Len(b) /\ Len(b) = Len(a) + n
        BY <3>2, <3>3
      <4>2. CASE i <= Len(a)
        <5>1. i \in 1 .. Len(a) /\ i \in DOMAIN a /\ b[i] = a[i]
          BY <2>0, <3>2, <4>1, <4>2
        <5>2. X!Has(s.all, r.id)
          BY <5>1 DEF X!Has, a
        <5> QED
          BY <1>5, <3>1, <5>2
      <4>3. CASE ~(i <= Len(a))
        <5>1. PICK k \in Int : k = i - Len(a)
          BY <2>0, <4>1
        <5>2. k \in 1 .. n /\ i = Len(a) + k /\ k \in 1 .. Len(q) /\ k # n + 1
          BY <1>0, <2>0, <3>1, <4>1, <4>3, <5>1
        <5>3. b[i] = q[k]
          BY <3>2, <5>2
        <5> QED
          BY <1>5, <3>1, <5>2, <5>3
      <4> QED
        BY <4>2, <4>3
    <3>6. f[n + 1].all = Append(b, r) /\ Holds(f[n + 1])
      BY <3>1, <3>2, <3>4, <3>5, AddOne
    <3>7. Len(b) = Len(a) + n /\ (\A i \in 1 .. Len(a) : b[i] = a[i]) /\ (\A i \in 1 .. n : b[Len(a) + i] = q[i])
      BY <3>2
    <3> HIDE DEF b, r
    <3>8. Len(Append(b, r)) = Len(b) + 1 /\ (\A i \in 1 .. Len(b) : Append(b, r)[i] = b[i]) /\ Append(b, r)[Len(b) + 1] = r
      BY <3>3
    <3>9. Len(Append(b, r)) = Len(a) + (n + 1)
      BY <2>0, <3>7, <3>8
    <3>10. \A i \in 1 .. Len(a) : Append(b, r)[i] = a[i]
      BY <2>0, <3>7, <3>8
    <3>11. ASSUME NEW i \in 1 .. n + 1 PROVE Append(b, r)[Len(a) + i] = q[i]
      <4>1. CASE i = n + 1
        <5>1. Len(a) + i = Len(b) + 1
          BY <2>0, <3>7, <4>1
        <5> QED
          BY <3>8, <4>1, <5>1 DEF r
      <4>2. CASE i # n + 1
        <5>1. i \in 1 .. n /\ Len(a) + i \in 1 .. Len(b)
          BY <2>0, <3>7, <3>11, <4>2
        <5> QED
          BY <3>7, <3>8, <5>1
      <4> QED
        BY <4>1, <4>2
    <3> QED
      BY <3>6, <3>9, <3>10, <3>11
  <2> HIDE DEF Grown0
  <2>3. \A n \in Nat : n \in U => n + 1 \in U
    BY <2>2
  <2>4. Grown0(Len(q))
    <3> HIDE DEF U
    <3>1. Nat \subseteq U
      BY <2>1, <2>3, Climb
    <3> QED
      BY <1>0, <3>1 DEF U
  <2> DEFINE b == f[Len(q)].all
  <2>5. b \in Seq(IndexRules)
    BY <1>0, <1>4 DEF Shaped
  <2>6. Len(b) = Len(a) + Len(q) /\ (\A i \in 1 .. Len(a) : b[i] = a[i]) /\ (\A i \in 1 .. Len(q) : b[Len(a) + i] = q[i])
    BY <2>4 DEF Grown0
  <2> HIDE DEF b
  <2>7. /\ a \o q \in Seq(IndexRules) /\ Len(a \o q) = Len(a) + Len(q)
        /\ \A i \in 1 .. Len(a) + Len(q) : (a \o q)[i] = IF i <= Len(a) THEN a[i] ELSE q[i - Len(a)]
    BY <2>0
  <2>8. ASSUME NEW i \in 1 .. Len(b) PROVE b[i] = (a \o q)[i]
    <3>1. CASE i <= Len(a)
      BY <1>0, <2>0, <2>6, <2>7, <3>1
    <3>2. CASE ~(i <= Len(a))
      <4>1. PICK k \in Int : k = i - Len(a)
        BY <2>0
      <4>2. k \in 1 .. Len(q) /\ i = Len(a) + k /\ i \in 1 .. Len(a) + Len(q)
        BY <1>0, <2>0, <2>6, <2>8, <3>2, <4>1
      <4>3. (a \o q)[i] = q[k]
        BY <2>7, <3>2, <4>1, <4>2
      <4> QED
        BY <2>6, <4>2, <4>3
    <3> QED
      BY <3>1, <3>2
  <2>9. b = a \o q
    BY <2>5, <2>6, <2>7, <2>8, SeqEqual
  <2> QED
    BY <2>4, <2>9 DEF Grown0, a, b
<1> QED
  BY <1>0, <1>4, <1>5 DEF f

\* The rules given to a call are rules, each with its own id.
LEMMA GivenRules ==
    ASSUME NEW q \in X!Given
    PROVE  q \in Seq(IndexRules) /\ \A i, j \in 1 .. Len(q) : i # j => q[i].id # q[j].id
<1>1. PICK m \in 0 .. MaxGiven : q \in [1 .. m -> IndexRules]
  BY DEF X!Given, X!Sequences
<1>2. m \in Nat
  BY <1>1
<1>3. q \in Seq(IndexRules)
  BY <1>1, <1>2, SeqDef
<1>4. DOMAIN q = 1 .. Len(q)
  BY <1>3
<1> QED
  BY <1>3, <1>4 DEF X!Given

\* AddRules takes the rules before the first one it knows.
LEMMA AddedFound ==
    ASSUME NEW q \in Seq(IndexRules)
    PROVE  \E n \in 0 .. Len(q) : /\ X!Added(q) = SubSeq(q, 1, n)
                                  /\ \A i \in 1 .. n : ~X!Has(given, q[i].id)
<1> DEFINE New == {n \in 0 .. Len(q) : \A i \in 1 .. n : ~X!Has(given, q[i].id)}
           U == {d \in Nat : \E n \in New : d = Len(q) - n}
<1>0. Len(q) \in Nat
  OBVIOUS
<1>1. 0 \in New
  BY <1>0
<1>2. New \subseteq 0 .. Len(q)
  OBVIOUS
<1>3. \A n \in New : \A i \in 1 .. n : ~X!Has(given, q[i].id)
  OBVIOUS
<1>4. X!Added(q) = SubSeq(q, 1, CHOOSE n \in New : \A m \in New : m <= n)
  BY DEF X!Added
<1> HIDE DEF New
<1>5. Len(q) \in U
  BY <1>0, <1>1
<1>6. PICK d \in U : \A e \in U : d <= e
  BY <1>5, Least
<1>7. PICK n \in New : d = Len(q) - n
  BY <1>6
<1>8. \A m \in New : m <= n
  <2> SUFFICES ASSUME NEW m \in New PROVE m <= n
    OBVIOUS
  <2>1. m \in 0 .. Len(q) /\ n \in 0 .. Len(q)
    BY <1>2, <1>7
  <2>2. PICK e \in Int : e = Len(q) - m
    BY <1>0, <2>1
  <2>3. e \in Nat
    BY <1>0, <2>1, <2>2
  <2>4. e \in U
    BY <2>2, <2>3
  <2>5. d <= e
    BY <1>6, <2>4
  <2> HIDE DEF U
  <2> QED
    BY <1>0, <1>7, <2>1, <2>2, <2>5
<1>9. (CHOOSE k \in New : \A m \in New : m <= k) \in New
  BY <1>7, <1>8
<1> QED
  BY <1>2, <1>3, <1>4, <1>9

\* What is before the first rule that is known.
LEMMA AddedRules ==
    ASSUME NEW q \in X!Given
    PROVE  /\ X!Added(q) \in Seq(IndexRules)
           /\ \A i \in 1 .. Len(X!Added(q)) : ~X!Has(given, X!Added(q)[i].id)
           /\ \A i, j \in 1 .. Len(X!Added(q)) : i # j => X!Added(q)[i].id # X!Added(q)[j].id
<1>1. q \in Seq(IndexRules) /\ \A i, j \in 1 .. Len(q) : i # j => q[i].id # q[j].id
  BY GivenRules
<1>2. PICK n \in 0 .. Len(q) : X!Added(q) = SubSeq(q, 1, n) /\ \A i \in 1 .. n : ~X!Has(given, q[i].id)
  BY <1>1, AddedFound
<1>3. Len(q) \in Nat /\ n \in Nat /\ n <= Len(q)
  BY <1>1, <1>2
<1>4. /\ SubSeq(q, 1, n) \in Seq(IndexRules) /\ Len(SubSeq(q, 1, n)) = n
      /\ \A i \in 1 .. n : SubSeq(q, 1, n)[i] = q[i] /\ i \in 1 .. Len(q)
  BY <1>1, <1>3
<1> QED
  BY <1>1, <1>2, <1>4

\* The first rule with an id.
LEMMA PositionFound ==
    ASSUME NEW q \in Seq(IndexRules), NEW id, X!Has(q, id)
    PROVE  X!Position(q, id) \in 1 .. Len(q)
<1> DEFINE T == {i \in DOMAIN q : q[i].id = id}
<1>0. DOMAIN q = 1 .. Len(q) /\ Len(q) \in Nat
  OBVIOUS
<1>1. T # {} /\ T \subseteq Nat
  BY <1>0 DEF X!Has
<1>2. PICK i \in T : \A j \in T : i <= j
  BY <1>1, Least
<1>3. i \in DOMAIN q /\ q[i].id = id
  BY <1>2
<1>4. \A j \in 1 .. i - 1 : q[j].id # id
  BY <1>0, <1>2, <1>3
<1>5. X!Position(q, id) \in DOMAIN q
  BY <1>3, <1>4 DEF X!Position
<1> QED
  BY <1>0, <1>5

\* A slice that a rule is cut from stays a slice.
LEMMA CutSlice ==
    ASSUME NEW q \in Seq(IndexRules), NEW id
    PROVE  X!removeFromSlice(q, id) \in Seq(IndexRules)
<1>1. CASE ~X!Has(q, id)
  BY <1>1 DEF X!removeFromSlice
<1>2. CASE X!Has(q, id)
  <2> DEFINE p == X!Position(q, id)
             c == [i \in DOMAIN q |-> IF i < p \/ i = Len(q) THEN q[i] ELSE q[i + 1]]
  <2>0. DOMAIN q = 1 .. Len(q) /\ Len(q) \in Nat /\ \A i \in 1 .. Len(q) : q[i] \in IndexRules
    OBVIOUS
  <2>1. X!removeFromSlice(q, id) = c
    BY <1>2 DEF X!removeFromSlice
  <2> HIDE DEF p
  <2>2. ASSUME NEW i \in 1 .. Len(q) PROVE (IF i < p \/ i = Len(q) THEN q[i] ELSE q[i + 1]) \in IndexRules
    <3>1. ASSUME NEW n \in Nat, i \in 1 .. n, i # n PROVE i + 1 \in 1 .. n
      BY <3>1
    <3>2. i # Len(q) => i + 1 \in 1 .. Len(q)
      BY <2>0, <2>2, <3>1
    <3> QED
      BY <2>0, <2>2, <3>2
  <2>3. c \in [1 .. Len(q) -> IndexRules]
    BY <2>0, <2>2
  <2> HIDE DEF c
  <2> QED
    BY <2>0, <2>1, <2>3, SeqDef
<1> QED
  BY <1>1, <1>2

\* RemoveRule leaves a state of its type.
LEMMA RemoveShaped ==
    ASSUME NEW s, Shaped(s), NEW id
    PROVE  Shaped(X!RemoveRule(s, id))
<1>1. CASE ~X!Has(s.all, id)
  BY <1>1 DEF X!RemoveRule
<1>2. CASE X!Has(s.all, id)
  <2> DEFINE a == X!RemoveRule(s, id)
             p == X!Position(s.all, id)
             r == s.all[p]
             idx == X!Put(s.index, X!buildKey(r), X!removeFromSlice(X!At(s.index, X!buildKey(r)), id))
             cat == IF X!InCategory(r) THEN X!Put(s.category, X!catKey(r), X!removeFromSlice(X!At(s.category, X!catKey(r)), id)) ELSE s.category
             prod == IF X!InProduct(r) THEN X!Put(s.product, r.product, X!removeFromSlice(X!At(s.product, r.product), id)) ELSE s.product
  <2>1. /\ DOMAIN a = {"all", "index", "category", "product", "total", "per"}
        /\ a.all = X!RemoveAt(s.all, p) /\ a.total = s.total - 1 /\ a.index = idx /\ a.category = cat /\ a.product = prod
    BY <1>2 DEF X!RemoveRule, Shaped
  <2>2. s.all \in Seq(IndexRules) /\ s.total = Len(s.all) /\ Slices(s.index) /\ Slices(s.category) /\ Slices(s.product)
    BY DEF Shaped
  <2>3. p \in 1 .. Len(s.all)
    BY <1>2, <2>2, PositionFound
  <2> HIDE DEF a, p
  <2>4. X!RemoveAt(s.all, p) \in Seq(IndexRules) /\ Len(X!RemoveAt(s.all, p)) = Len(s.all) - 1
    <3> DEFINE b == s.all
    <3>0. b \in Seq(IndexRules) /\ p \in 1 .. Len(b) /\ Len(b) \in Nat
      BY <2>2, <2>3
    <3>1. X!RemoveAt(s.all, p) = SubSeq(b, 1, p - 1) \o SubSeq(b, p + 1, Len(b))
      BY DEF X!RemoveAt
    <3> HIDE DEF b
    <3>2. SubSeq(b, 1, p - 1) \in Seq(IndexRules) /\ Len(SubSeq(b, 1, p - 1)) = p - 1
      BY <3>0
    <3>3. SubSeq(b, p + 1, Len(b)) \in Seq(IndexRules) /\ Len(SubSeq(b, p + 1, Len(b))) = Len(b) - p
      <4>1. \A i \in p + 1 .. Len(b) : b[i] \in IndexRules
        BY <3>0
      <4>2. p + 1 \in Int /\ Len(b) \in Int
        BY <3>0
      <4>3. /\ SubSeq(b, p + 1, Len(b)) \in Seq(IndexRules)
            /\ Len(SubSeq(b, p + 1, Len(b))) = IF p + 1 <= Len(b) THEN Len(b) - (p + 1) + 1 ELSE 0
        BY <4>1, <4>2, SubSeqProperties
      <4> QED
        BY <3>0, <4>3
    <3> DEFINE u == SubSeq(b, 1, p - 1)
               v == SubSeq(b, p + 1, Len(b))
    <3> HIDE DEF u, v
    <3>4. u \in Seq(IndexRules) /\ v \in Seq(IndexRules) /\ Len(u) = p - 1 /\ Len(v) = Len(b) - p
      BY <3>2, <3>3 DEF u, v
    <3>5. u \o v \in Seq(IndexRules) /\ Len(u \o v) = Len(b) - 1
      BY <3>0, <3>4
    <3> QED
      BY <3>1, <3>5 DEF u, v, b
  <2>5. Slices(idx)
    <3>1. X!At(s.index, X!buildKey(r)) \in Seq(IndexRules)
      BY <2>2, PutAt
    <3> QED
      BY <2>2, <3>1, CutSlice, PutAt
  <2>6. Slices(cat)
    <3>1. X!At(s.category, X!catKey(r)) \in Seq(IndexRules)
      BY <2>2, PutAt
    <3>2. X!removeFromSlice(X!At(s.category, X!catKey(r)), id) \in Seq(IndexRules)
      BY <3>1, CutSlice
    <3> QED
      BY <2>2, <3>2, PutAt
  <2>7. Slices(prod)
    <3>1. X!At(s.product, r.product) \in Seq(IndexRules)
      BY <2>2, PutAt
    <3>2. X!removeFromSlice(X!At(s.product, r.product), id) \in Seq(IndexRules)
      BY <3>1, CutSlice
    <3> QED
      BY <2>2, <3>2, PutAt
  <2> HIDE DEF idx, cat, prod, r
  <2>8. Shaped(a)
    BY <2>1, <2>2, <2>4, <2>5, <2>6, <2>7 DEF Shaped
  <2> QED
    BY <2>8 DEF a
<1> QED
  BY <1>1, <1>2

-----------------------------------------------------------------------------

\* The indexer's state has its shape, and until a rule is removed its tables hold the engine's rules.
IndexHolds(g, all, idx, cat, prod, n, gone) ==
    /\ g \in Seq(IndexRules) /\ all \in Seq(IndexRules) /\ n = Len(all)
    /\ Slices(idx) /\ Slices(cat) /\ Slices(prod)
    /\ gone = {} => all = g /\ Tables(idx, cat, prod, all)

IndexInv == IndexHolds(given, allRules, index, categoryIndex, productIndex, total, removed)

\* There are no rules at first.
LEMMA NoRules == \A gone : IndexHolds(<<>>, <<>>, <<>>, <<>>, <<>>, 0, gone)
<1>1. <<>> \in Seq(IndexRules) /\ Len(<<>>) = 0
  OBVIOUS
<1>2. X!Range(<<>>) = {}
  BY DEF X!Range
<1>3. \A Y : X!Chosen(<<>>, Y) = <<>>
  BY <1>1, <1>2, ChosenAll
<1>4. \A k : X!At(<<>>, k) = <<>>
  BY DEF X!At
<1>5. Slices(<<>>)
  BY DEF Slices
<1>6. Tables(<<>>, <<>>, <<>>, <<>>)
  BY <1>3, <1>4 DEF Tables
<1> QED
  BY <1>1, <1>5, <1>6 DEF IndexHolds

\* The empty index holds no rules.
LEMMA IndexInit == X!Init => IndexInv
BY NoRules DEF X!Init, X!Empty, IndexInv

\* A state that the indexer becomes.
LEMMA Become ==
    ASSUME NEW s, Shaped(s), X!Becomes(s), given' \in Seq(IndexRules),
           removed' = {} => s.all = given' /\ Holds(s)
    PROVE  IndexInv'
<1>1. /\ allRules' = s.all /\ index' = s.index /\ categoryIndex' = s.category /\ productIndex' = s.product
      /\ total' = s.total
  BY DEF X!Becomes
<1>2. s.all \in Seq(IndexRules) /\ s.total = Len(s.all) /\ Slices(s.index) /\ Slices(s.category) /\ Slices(s.product)
  BY DEF Shaped
<1>3. removed' = {} => Tables(s.index, s.category, s.product, s.all)
  BY DEF Holds
<1>4. IndexHolds(given', s.all, s.index, s.category, s.product, s.total, removed')
  BY <1>2, <1>3 DEF IndexHolds
<1> QED
  BY <1>1, <1>4 DEF IndexInv

\* Loading, adding, removing and clearing keep the index in step with the rules.
LEMMA IndexStep == ASSUME IndexInv, [X!Next]_(X!vars) PROVE IndexInv'
<1>1. CASE UNCHANGED X!vars
  BY <1>1 DEF X!vars, IndexInv
<1>2. ASSUME NEW q \in X!Given, X!LoadRules(q) PROVE IndexInv'
  <2>0. q \in Seq(IndexRules)
    BY <1>2, GivenRules
  <2> DEFINE idx == X!Table(q, X!buildKey, X!Always)
             cat == X!Table(q, X!catKey, X!InCategory)
             prod == X!Table(q, X!Product, X!InProduct)
  <2>1. given' = q /\ allRules' = q /\ total' = Len(q) /\ index' = idx /\ categoryIndex' = cat /\ productIndex' = prod
    BY <1>2 DEF X!LoadRules, X!BuildIndex
  <2>2. Tables(idx, cat, prod, q) /\ Slices(idx) /\ Slices(cat) /\ Slices(prod)
    BY <2>0, Built
  <2> HIDE DEF idx, cat, prod
  <2>3. IndexHolds(q, q, idx, cat, prod, Len(q), removed')
    BY <2>0, <2>2 DEF IndexHolds
  <2> QED
    BY <2>1, <2>3 DEF IndexInv
<1>3. ASSUME NEW q \in X!Given, X!AddRules(q) PROVE IndexInv'
  <2> DEFINE a == X!Added(q)
             s == X!State
             t == Stages(s, a)[Len(a)]
  <2>1. /\ a \in Seq(IndexRules) /\ \A i \in 1 .. Len(a) : ~X!Has(given, a[i].id)
        /\ \A i, j \in 1 .. Len(a) : i # j => a[i].id # a[j].id
    BY <1>3, AddedRules
  <2>2. given' = given \o a /\ X!Becomes(t) /\ removed' = removed
    BY <1>3 DEF X!AddRules, X!Adding, Stages
  <2>3. Shaped(s) /\ given \in Seq(IndexRules) /\ (removed = {} => s.all = given /\ Holds(s))
    BY DEF IndexInv, IndexHolds, Shaped, Holds, X!State
  <2> HIDE DEF a, s
  <2>4. Shaped(t)
    BY <2>1, <2>3, AddAll
  <2>5. removed = {} => t.all = given \o a /\ Holds(t)
    BY <2>1, <2>3, AddAll
  <2>6. given' \in Seq(IndexRules)
    BY <2>1, <2>2, <2>3
  <2> HIDE DEF t
  <2> QED
    BY <2>2, <2>4, <2>5, <2>6, Become
<1>4. ASSUME NEW id, X!EngineRemoveRule(id) PROVE IndexInv'
  <2> DEFINE t == X!RemoveRule(X!State, id)
             p == {r \in IndexRules : r.id # id}
  <2>1. given' = X!Chosen(given, p) /\ X!Becomes(t) /\ removed' # {}
    BY <1>4 DEF X!EngineRemoveRule
  <2>2. Shaped(t)
    <3>1. Shaped(X!State)
      BY DEF IndexInv, IndexHolds, Shaped, X!State
    <3> QED
      BY <3>1, RemoveShaped
  <2>3. given' \in Seq(IndexRules)
    BY <2>1, ChosenAll DEF IndexInv, IndexHolds
  <2> HIDE DEF t
  <2> QED
    BY <2>1, <2>2, <2>3, Become
<1>5. CASE X!Shutdown
  <2>1. given' = <<>> /\ allRules' = <<>> /\ index' = <<>> /\ categoryIndex' = <<>> /\ productIndex' = <<>> /\ total' = 0
    BY <1>5 DEF X!Shutdown, X!NewRuleIndexer, X!Empty
  <2> QED
    BY <2>1, NoRules DEF IndexInv
<1> QED
  BY <1>1, <1>2, <1>3, <1>4, <1>5 DEF X!Next

\* The invariant gives the types and what the index promises.
LEMMA IndexPromise == IndexInv => X!TypeOK /\ X!IndexAgrees
<1> SUFFICES ASSUME IndexInv PROVE X!TypeOK /\ X!IndexAgrees
  OBVIOUS
<1>0. /\ given \in Seq(IndexRules) /\ allRules \in Seq(IndexRules) /\ total = Len(allRules)
      /\ Slices(index) /\ Slices(categoryIndex) /\ Slices(productIndex)
      /\ removed = {} => allRules = given /\ Tables(index, categoryIndex, productIndex, allRules)
  BY DEF IndexInv, IndexHolds
<1>1. X!TypeOK
  <2>1. total \in Nat
    BY <1>0
  <2> QED
    BY <1>0, <2>1 DEF X!TypeOK, Slices
<1>2. ASSUME removed = {}, NEW r \in X!Range(given)
      PROVE  /\ index[X!buildKey(r)] = X!Chosen(given, {s \in IndexRules : X!buildKey(s) = X!buildKey(r)})
             /\ X!InProduct(r) => X!GetRulesByProduct(r.product) = X!PortGetRules(r.product, None, None, {}, {})
             /\ X!InCategory(r) => r \in X!GetRulesByCategory(r.category)
  <2>0. /\ \A k : X!At(index, k) = X!Chosen(given, KeyRules(k))
        /\ \A k : X!At(categoryIndex, k) = X!Chosen(given, CatRules(k))
        /\ \A k : X!At(productIndex, k) = X!Chosen(given, ProdRules(k))
    BY <1>0, <1>2 DEF Tables
  <2>1. r \in IndexRules
    BY <1>0, <1>2 DEF X!Range
  <2>2. index[X!buildKey(r)] = X!Chosen(given, {s \in IndexRules : X!buildKey(s) = X!buildKey(r)})
    <3> DEFINE k == X!buildKey(r)
    <3>1. r \in KeyRules(k)
      BY <2>1 DEF KeyRules
    <3>2. X!Chosen(given, KeyRules(k)) # <<>>
      BY <1>0, <1>2, <3>1, ChosenAll
    <3>3. X!At(index, k) # <<>>
      BY <2>0, <3>2
    <3>4. X!At(index, k) = index[k]
      BY <3>3 DEF X!At
    <3>5. KeyRules(k) = {s \in IndexRules : X!buildKey(s) = k}
      BY DEF KeyRules
    <3> HIDE DEF k
    <3>6. index[k] = X!Chosen(given, {s \in IndexRules : X!buildKey(s) = k})
      BY <2>0, <3>4, <3>5
    <3> QED
      BY <3>6 DEF k
  <2>3. ASSUME X!InProduct(r)
        PROVE  X!GetRulesByProduct(r.product) = X!PortGetRules(r.product, None, None, {}, {})
    <3> DEFINE S == {s \in IndexRules :
            /\ r.product \in {None, s.product} /\ None \in {None, s.category} /\ None \in {None, s.level}
            /\ {} = {} \/ s.id \in {}
            /\ {} \subseteq s.tags}
    <3>1. S = ProdRules(r.product)
      BY <2>3 DEF ProdRules, X!InProduct
    <3>2. X!PortGetRules(r.product, None, None, {}, {}) = X!Chosen(given, S)
      BY DEF X!PortGetRules
    <3> HIDE DEF S
    <3>3. X!GetRulesByProduct(r.product) = X!Chosen(given, ProdRules(r.product))
      BY <2>0 DEF X!GetRulesByProduct
    <3> QED
      BY <3>1, <3>2, <3>3
  <2>4. ASSUME X!InCategory(r) PROVE r \in X!GetRulesByCategory(r.category)
    <3> DEFINE k == X!catKey(r)
    <3>1. r \in CatRules(k)
      BY <2>1, <2>4 DEF CatRules
    <3>2. X!Chosen(given, CatRules(k)) # <<>> /\ r \in X!Range(X!Chosen(given, CatRules(k)))
      BY <1>0, <1>2, <3>1, ChosenAll
    <3>3. X!At(categoryIndex, k) # <<>> /\ r \in X!Range(X!At(categoryIndex, k))
      BY <2>0, <3>2
    <3>4. k[2] = r.category
      BY DEF X!catKey
    <3> HIDE DEF k
    <3>5. k \in DOMAIN categoryIndex /\ X!At(categoryIndex, k) = categoryIndex[k]
      BY <3>3 DEF X!At
    <3>6. r \in X!Range(categoryIndex[k])
      BY <3>3, <3>5
    <3> QED
      BY <3>4, <3>5, <3>6 DEF X!GetRulesByCategory
  <2> QED
    BY <2>2, <2>3, <2>4
<1> QED
  BY <1>0, <1>1, <1>2 DEF X!IndexAgrees
=============================================================================
