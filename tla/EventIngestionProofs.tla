------------------------ MODULE EventIngestionProofs ------------------------
(***************************************************************************)
(* Proofs about EventIngestion for any number of streams, batches, events, *)
(* deliveries and faults.                                                  *)
(*                                                                         *)
(* Durability needs the position of each worker: what it has passed is in  *)
(* the topic.  The order of the topic follows from the same: whoever adds  *)
(* an event has passed the ones before it.  That nothing is published      *)
(* twice needs, for every batch that nothing disturbs, who has it and how  *)
(* far he is (OnceFor).                                                    *)
(***************************************************************************)
EXTENDS EventIngestion, TLAPS

\* A batch is safe: durable, or known to have failed to be.
Safe(b) == Durable(b) \/ b \in lost

\* A worker starts each batch at its first event, and every event before the one it
\* publishes next is in the topic.
IndexInStep ==
    \A w \in Workers :
        /\ pc[w] \in {"idle", "check"} => index[w] = 1
        /\ pc[w] = "publish" => \A i \in 1..(index[w] - 1) : published[batch[w]][i] > 0

\* What is about to be marked, marked, or done with is safe.
SafeSoFar ==
    /\ \A w \in Workers : pc[w] = "mark" => Safe(batch[w])
    /\ FinishedIsDurable
    /\ ProcessedIsDurable

IInv == TypeOK /\ IndexInStep /\ SafeSoFar /\ TopicHoldsPrefixes
-----------------------------------------------------------------------------
\* A write of worker w adds one to one event's count.
LEMMA TopicStep ==
    ASSUME TypeOK, NEW w \in Workers, batch[w] \in Batches, AddToTopic(w)
    PROVE  /\ published' \in [Batches -> [Events -> Nat]]
           /\ \A b \in Batches, i \in Events :
                 published'[b][i] = published[b][i] + IF b = batch[w] /\ i = index[w] THEN 1 ELSE 0
<1> DEFINE counts == published[batch[w]]
           new    == [counts EXCEPT ![index[w]] = @ + 1]
<1>1. counts \in [Events -> Nat] /\ index[w] \in Events
  BY DEF TypeOK
<1>2. new \in [Events -> Nat]
  BY <1>1
<1>3. published' = [published EXCEPT ![batch[w]] = new]
  BY DEF AddToTopic
<1>4. published' \in [Batches -> [Events -> Nat]]
  BY <1>2, <1>3 DEF TypeOK
<1>5. ASSUME NEW b \in Batches, NEW i \in Events
      PROVE  published'[b][i] = published[b][i] + IF b = batch[w] /\ i = index[w] THEN 1 ELSE 0
  <2>1. published[b][i] \in Nat
    BY DEF TypeOK
  <2>2. CASE b = batch[w]
    <3>1. published'[b] = new
      BY <1>3, <2>2 DEF TypeOK
    <3> QED
      BY <1>1, <2>1, <2>2, <3>1
  <2>3. CASE b # batch[w]
    BY <1>3, <2>1, <2>3 DEF TypeOK
  <2> QED
    BY <2>2, <2>3
<1> QED
  BY <1>4, <1>5

\* The part of the type that processBatch's control moves through.
WorkerType ==
    /\ pc \in [Workers -> {"idle", "check", "publish", "store", "storeAndAck", "mark"}]
    /\ batch \in [Workers -> Batches \cup {NoBatch}]
    /\ \A w \in Workers : Busy(w) <=> batch[w] \in Batches
    /\ index \in [Workers -> Events]
    /\ ctxDone \in [Workers -> BOOLEAN]

\* The part of the type about what is kept.
StoreType ==
    /\ configured \subseteq Services
    /\ kind \in [Batches -> Kinds]
    /\ dlq \subseteq Batches \X Events
    /\ fallback \subseteq Batches
    /\ processed \subseteq Batches
    /\ acked \subseteq Batches
    /\ stored \subseteq Batches
    /\ lost \subseteq Batches
    /\ disturbed \subseteq Batches
    /\ deliveries \in Nat
    /\ faults \in Nat

TopicType == published \in [Batches -> [Events -> Nat]]

\* The three parts make up TypeOK.
LEMMA TypeParts == TypeOK <=> WorkerType /\ StoreType /\ TopicType
BY DEF TypeOK, WorkerType, StoreType, TopicType

\* Every batch starts at event 1.
LEMMA OneIsEvent == 1 \in Events
BY IngestionAssumption DEF Events

\* A worker that finishes is idle and without a batch.
LEMMA FinishType ==
    ASSUME WorkerType, NEW w \in Workers, Finish(w), UNCHANGED ctxDone
    PROVE  WorkerType'
BY OneIsEvent, IngestionAssumption DEF WorkerType, Finish, Busy

\* Type correctness: the workers.
LEMMA WorkerTypeStep == TypeOK /\ [Next]_vars => WorkerType'
<1> SUFFICES ASSUME WorkerType, [Next]_vars PROVE WorkerType'
  BY TypeParts
<1> USE DEF WorkerType, Busy
<1>1. ASSUME NEW w \in Workers, NEW b \in Batches, Receive(w, b) PROVE WorkerType'
  BY <1>1 DEF Receive
<1>2. ASSUME NEW w \in Workers, NEW b \in Batches, ReceiveRefused(w, b) PROVE WorkerType'
  BY <1>2 DEF ReceiveRefused
<1>3. ASSUME NEW w \in Workers, IgnoreDuplicate(w) \/ Store(w) \/ MarkAndAck(w) PROVE WorkerType'
  BY <1>3, FinishType DEF IgnoreDuplicate, Store, MarkAndAck
<1>4. ASSUME NEW w \in Workers, Decode(w) PROVE WorkerType'
  BY <1>4 DEF Decode, DecodedTo
<1>5. ASSUME NEW w \in Workers, Publish(w) PROVE WorkerType'
  <2>1. index' \in [Workers -> Events]
    BY <1>5, IngestionAssumption DEF Publish, Events
  <2> QED
    BY <1>5, <2>1 DEF Publish
<1>6. ASSUME NEW w \in Workers, WriterRetries(w) \/ PublishFails(w) PROVE WorkerType'
  BY <1>6 DEF WriterRetries, PublishFails
<1>7. ASSUME NEW w \in Workers, PublishCancelled(w) PROVE WorkerType'
  BY <1>7 DEF PublishCancelled
<1>8. ASSUME NEW w \in Workers, StoreAndAck(w) PROVE WorkerType'
  BY <1>8 DEF StoreAndAck
<1>9. ASSUME NEW w \in Workers, LoseContext(w) PROVE WorkerType'
  BY <1>9 DEF LoseContext
<1>10. ASSUME NEW b \in Batches, KeyExpires(b) PROVE WorkerType'
  BY <1>10 DEF KeyExpires
<1>11. CASE Crash
  BY <1>11, OneIsEvent, IngestionAssumption DEF Crash
<1>12. CASE UNCHANGED vars
  BY <1>12 DEF vars
<1> QED
  BY <1>1, <1>2, <1>3, <1>4, <1>5, <1>6, <1>7, <1>8, <1>9, <1>10, <1>11, <1>12
     DEF Next, ProcessBatch

\* Type correctness: what is kept.
LEMMA StoreTypeStep == TypeOK /\ [Next]_vars => StoreType'
<1> SUFFICES ASSUME WorkerType, StoreType, [Next]_vars PROVE StoreType'
  BY TypeParts
<1> USE DEF StoreType, WorkerType, Busy, setting, bounds, Fault, CallFails
<1>1. ASSUME NEW w \in Workers, NEW b \in Batches, Receive(w, b) PROVE StoreType'
  BY <1>1 DEF Receive
<1>2. ASSUME NEW w \in Workers, NEW b \in Batches, ReceiveRefused(w, b) PROVE StoreType'
  BY <1>2 DEF ReceiveRefused
<1>3. ASSUME NEW w \in Workers, IgnoreDuplicate(w) PROVE StoreType'
  BY <1>3 DEF IgnoreDuplicate
<1>4. ASSUME NEW w \in Workers, Decode(w) PROVE StoreType'
  BY <1>4 DEF Decode, CheckedAsNew
<1>5. ASSUME NEW w \in Workers, Publish(w) PROVE StoreType'
  BY <1>5 DEF Publish
<1>6. ASSUME NEW w \in Workers, WriterRetries(w) \/ PublishFails(w) PROVE StoreType'
  BY <1>6 DEF WriterRetries, PublishFails
<1>7. ASSUME NEW w \in Workers, PublishCancelled(w) PROVE StoreType'
  BY <1>7 DEF PublishCancelled
<1>8. ASSUME NEW w \in Workers, Store(w) PROVE StoreType'
  BY <1>8 DEF Store, StoreToFallback
<1>9. ASSUME NEW w \in Workers, StoreAndAck(w) PROVE StoreType'
  BY <1>9 DEF StoreAndAck, StoreToFallback
<1>10. ASSUME NEW w \in Workers, MarkAndAck(w) PROVE StoreType'
  BY <1>10 DEF MarkAndAck
<1>11. ASSUME NEW w \in Workers, LoseContext(w) PROVE StoreType'
  BY <1>11 DEF LoseContext
<1>12. ASSUME NEW b \in Batches, KeyExpires(b) PROVE StoreType'
  BY <1>12 DEF KeyExpires
<1>13. CASE Crash
  BY <1>13 DEF Crash
<1>14. CASE UNCHANGED vars
  BY <1>14 DEF vars
<1> QED
  BY <1>1, <1>2, <1>3, <1>4, <1>5, <1>6, <1>7, <1>8, <1>9, <1>10, <1>11, <1>12, <1>13, <1>14
     DEF Next, ProcessBatch

\* The topic changes by a write of a worker that publishes, and by nothing else.
LEMMA TopicChanges ==
    ASSUME TypeOK, [Next]_vars
    PROVE  \/ UNCHANGED published
           \/ \E w \in Workers : batch[w] \in Batches /\ pc[w] = "publish" /\ AddToTopic(w)
BY DEF TypeOK, Busy, Next, ProcessBatch, vars, Receive, ReceiveRefused, IgnoreDuplicate, Decode,
   Publish, WriterRetries, PublishFails, PublishCancelled, Store, StoreAndAck, MarkAndAck,
   LoseContext, KeyExpires, Crash

\* The induction step of type correctness.
LEMMA TypeStep == TypeOK /\ [Next]_vars => TypeOK'
<1> SUFFICES ASSUME TypeOK, [Next]_vars PROVE TypeOK'
  OBVIOUS
<1>1. TopicType'
  BY TopicChanges, TopicStep DEF TopicType, TypeOK
<1>2. WorkerType' /\ StoreType'
  BY WorkerTypeStep, StoreTypeStep
<1> QED
  BY <1>1, <1>2 DEF TypeOK, WorkerType, StoreType, TopicType

\* Nothing is taken back from the topic.
LEMMA TopicGrows ==
    ASSUME TypeOK, [Next]_vars
    PROVE  \A b \in Batches, i \in Events :
              /\ published[b][i] \in Nat
              /\ published'[b][i] \in Nat
              /\ published'[b][i] >= published[b][i]
<1> TAKE b \in Batches, i \in Events
<1>1. published[b][i] \in Nat
  BY DEF TypeOK
<1>2. CASE UNCHANGED published
  BY <1>1, <1>2
<1>3. ASSUME NEW w \in Workers, batch[w] \in Batches, AddToTopic(w)
      PROVE  published'[b][i] \in Nat /\ published'[b][i] >= published[b][i]
  <2>1. published'[b][i] = published[b][i] + IF b = batch[w] /\ i = index[w] THEN 1 ELSE 0
    BY <1>3, TopicStep
  <2> QED
    BY <1>1, <2>1
<1> QED
  BY <1>1, <1>2, <1>3, TopicChanges
-----------------------------------------------------------------------------
\* The workers before and after a step, as far as the positions in the batches go.
LEMMA IndexStep == TypeOK /\ IndexInStep /\ [Next]_vars => IndexInStep'
<1> SUFFICES ASSUME TypeOK, IndexInStep, [Next]_vars, NEW v \in Workers
             PROVE  /\ pc'[v] \in {"idle", "check"} => index'[v] = 1
                    /\ pc'[v] = "publish" =>
                          \A i \in 1..(index'[v] - 1) : published'[batch'[v]][i] > 0
  BY DEF IndexInStep
<1>1. \A b \in Batches, i \in Events :
         published[b][i] \in Nat /\ published'[b][i] \in Nat /\ published'[b][i] >= published[b][i]
  BY TopicGrows
<1>2. /\ pc[v] \in {"idle", "check"} => index[v] = 1
      /\ pc[v] = "publish" => \A i \in 1..(index[v] - 1) : published[batch[v]][i] > 0
  BY DEF IndexInStep
<1>3. CASE pc'[v] = pc[v] /\ batch'[v] = batch[v] /\ index'[v] = index[v]
  <2>1. pc[v] = "publish" => batch[v] \in Batches /\ 1..(index[v] - 1) \subseteq Events
    BY IngestionAssumption DEF TypeOK, Busy, Events
  <2> QED
    BY <1>1, <1>2, <1>3, <2>1
<1>4. CASE index'[v] = 1
  BY <1>4
<1>5. CASE Publish(v)
  <2>1. batch[v] \in Batches /\ index[v] \in Events /\ AddToTopic(v)
    BY <1>5 DEF Publish, TypeOK, Busy
  <2>2. published'[batch[v]][index[v]] > 0
    <3>1. published'[batch[v]][index[v]] = published[batch[v]][index[v]] + 1
      BY <2>1, TopicStep
    <3> QED
      BY <1>1, <2>1, <3>1
  <2>3. \A i \in 1..index[v] : published'[batch[v]][i] > 0
    <3>1. 1..index[v] \subseteq Events /\ index[v] \in Nat
      BY <2>1, IngestionAssumption DEF Events
    <3> QED
      BY <1>1, <1>2, <1>5, <2>1, <2>2, <3>1 DEF Publish
  <2>4. /\ batch'[v] = batch[v]
        /\ \/ pc'[v] = "publish" /\ index'[v] = index[v] + 1
           \/ pc'[v] = "mark"
    BY <1>5 DEF Publish, TypeOK
  <2>5. index[v] \in Nat
    BY <2>1, IngestionAssumption DEF Events
  <2> QED
    BY <2>3, <2>4, <2>5
<1>6. CASE pc'[v] \in {"store", "mark"}
  BY <1>6
<1>7. CASE Decode(v)
  BY <1>2, <1>7 DEF Decode, DecodedTo, TypeOK
<1>8. CASE \E b \in Batches : Receive(v, b)
  BY <1>2, <1>8 DEF Receive, Busy, TypeOK
<1>9. \/ pc'[v] = pc[v] /\ batch'[v] = batch[v] /\ index'[v] = index[v]
      \/ index'[v] = 1
      \/ Publish(v) \/ Decode(v)
      \/ pc'[v] \in {"store", "mark"}
      \/ \E b \in Batches : Receive(v, b)
  BY DEF Next, ProcessBatch, vars, TypeOK, Receive, ReceiveRefused, IgnoreDuplicate, Decode,
     Publish, WriterRetries, PublishFails, PublishCancelled, Store, StoreAndAck, MarkAndAck,
     LoseContext, KeyExpires, Crash, Finish
<1> QED
  BY <1>3, <1>4, <1>5, <1>6, <1>7, <1>8, <1>9

\* Nothing that is safe is given up.
LEMMA SafeStays == ASSUME TypeOK, [Next]_vars, NEW b \in Batches, Safe(b) PROVE Safe(b)'
<1>1. fallback \subseteq fallback' /\ lost \subseteq lost'
  BY DEF Next, ProcessBatch, vars, Receive, ReceiveRefused, IgnoreDuplicate, Decode, Publish,
     WriterRetries, PublishFails, PublishCancelled, Store, StoreAndAck, StoreToFallback,
     MarkAndAck, LoseContext, KeyExpires, Crash
<1>2. \A i \in Events : published[b][i] > 0 => published'[b][i] > 0
  BY TopicGrows
<1> QED
  BY <1>1, <1>2 DEF Safe, Durable

\* A batch is safe when processBatch marks it, and when it is done with it.
LEMMA SafeStep == TypeOK /\ IndexInStep /\ SafeSoFar /\ [Next]_vars => SafeSoFar'
<1> SUFFICES ASSUME TypeOK, IndexInStep, SafeSoFar, [Next]_vars PROVE SafeSoFar'
  OBVIOUS
<1>1. TypeOK'
  BY TypeStep
<1>2. \A b \in Batches : Safe(b) => Safe(b)'
  BY SafeStays
<1>3. ASSUME NEW v \in Workers, pc'[v] = "mark" PROVE Safe(batch[v])' 
  <2>1. CASE pc[v] = "mark" /\ batch'[v] = batch[v]
    <3>1. batch[v] \in Batches /\ Safe(batch[v])
      BY <2>1 DEF TypeOK, Busy, SafeSoFar
    <3> QED
      BY <1>2, <2>1, <3>1 DEF Safe, Durable
  <2>2. CASE StoreAndAck(v)
    BY <2>2 DEF StoreAndAck, StoreToFallback, Safe, Durable
  <2>3. CASE Publish(v)
    <3>1. batch[v] \in Batches /\ AddToTopic(v) /\ batch'[v] = batch[v] /\ pc[v] = "publish"
      BY <2>3 DEF Publish, TypeOK, Busy
    <3>2. index[v] = EventsPerBatch
      BY <1>3, <2>3, <3>1 DEF Publish, TypeOK
    <3>3. ASSUME NEW i \in Events PROVE published'[batch[v]][i] > 0
      <4>1. CASE i = index[v]
        <5>1. published'[batch[v]][i] = published[batch[v]][i] + 1
          BY <3>1, <4>1, TopicStep
        <5> QED
          BY <3>1, <5>1, TopicGrows
      <4>2. CASE i # index[v]
        <5>1. i \in 1..(index[v] - 1)
          BY <3>2, <4>2, IngestionAssumption DEF Events
        <5>2. published[batch[v]][i] > 0
          BY <3>1, <5>1 DEF IndexInStep
        <5> QED
          BY <3>1, <5>2, TopicGrows
      <4> QED
        BY <4>1, <4>2
    <3> QED
      BY <3>1, <3>3 DEF Safe, Durable
  <2>4. \/ pc[v] = "mark" /\ batch'[v] = batch[v]
        \/ StoreAndAck(v)
        \/ Publish(v)
    BY <1>3 DEF Next, ProcessBatch, vars, TypeOK, Receive, ReceiveRefused, IgnoreDuplicate, Decode,
       DecodedTo, Publish, WriterRetries, PublishFails, PublishCancelled, Store, StoreAndAck,
       MarkAndAck, LoseContext, KeyExpires, Crash, Finish
  <2> QED
    BY <2>1, <2>2, <2>3, <2>4
<1>4. ASSUME NEW b \in stored' PROVE Safe(b)'
  <2>1. CASE b \in stored
    BY <1>2, <2>1 DEF SafeSoFar, FinishedIsDurable, Safe, TypeOK
  <2>2. ASSUME NEW w \in Workers, Store(w), b = batch[w] PROVE Safe(b)'
    BY <2>2 DEF Store, StoreToFallback, Safe, Durable
  <2>3. ASSUME NEW w \in Workers, MarkAndAck(w), b = batch[w] PROVE Safe(b)'
    <3>1. batch[w] \in Batches /\ Safe(batch[w])
      BY <2>3 DEF MarkAndAck, TypeOK, Busy, SafeSoFar
    <3> QED
      BY <1>2, <2>3, <3>1
  <2>4. b \in stored \/ \E w \in Workers : (Store(w) \/ MarkAndAck(w)) /\ b = batch[w]
    BY <1>4 DEF Next, ProcessBatch, vars, Receive, ReceiveRefused, IgnoreDuplicate, Decode,
       Publish, WriterRetries, PublishFails, PublishCancelled, Store, StoreAndAck, MarkAndAck,
       LoseContext, KeyExpires, Crash
  <2> QED
    BY <2>1, <2>2, <2>3, <2>4
<1>5. ASSUME NEW b \in processed' PROVE Safe(b)'
  <2>1. CASE b \in processed
    BY <1>2, <2>1 DEF SafeSoFar, ProcessedIsDurable, Safe, TypeOK
  <2>2. ASSUME NEW w \in Workers, MarkAndAck(w), b = batch[w] PROVE Safe(b)'
    <3>1. batch[w] \in Batches /\ Safe(batch[w])
      BY <2>2 DEF MarkAndAck, TypeOK, Busy, SafeSoFar
    <3> QED
      BY <1>2, <2>2, <3>1
  <2>3. b \in processed \/ \E w \in Workers : MarkAndAck(w) /\ b = batch[w]
    BY <1>5 DEF Next, ProcessBatch, vars, Receive, ReceiveRefused, IgnoreDuplicate, Decode,
       Publish, WriterRetries, PublishFails, PublishCancelled, Store, StoreAndAck, MarkAndAck,
       LoseContext, KeyExpires, Crash
  <2> QED
    BY <2>1, <2>2, <2>3
<1> QED
  BY <1>3, <1>4, <1>5 DEF SafeSoFar, FinishedIsDurable, ProcessedIsDurable, Safe
-----------------------------------------------------------------------------
\* Whoever adds an event to the topic has passed the ones before it.
LEMMA PrefixStep == TypeOK /\ IndexInStep /\ TopicHoldsPrefixes /\ [Next]_vars => TopicHoldsPrefixes'
<1> SUFFICES ASSUME TypeOK, IndexInStep, TopicHoldsPrefixes, [Next]_vars,
                    NEW b \in Batches, NEW i \in 1..(EventsPerBatch - 1), published'[b][i + 1] > 0
             PROVE  published'[b][i] > 0
  BY DEF TopicHoldsPrefixes
<1>1. i \in Events /\ i + 1 \in Events /\ i \in Nat
  BY IngestionAssumption DEF Events
<1>2. /\ published[b][i] \in Nat /\ published'[b][i] \in Nat /\ published[b][i + 1] \in Nat
      /\ published'[b][i] >= published[b][i]
  BY <1>1, TopicGrows
<1>3. CASE published[b][i + 1] > 0
  <2>1. published[b][i] > 0
    BY <1>3 DEF TopicHoldsPrefixes
  <2> QED
    BY <1>2, <2>1
<1>4. CASE published[b][i + 1] = 0
  <2>1. PICK w \in Workers : batch[w] \in Batches /\ pc[w] = "publish" /\ AddToTopic(w)
    BY <1>4, TopicChanges
  <2>2. published'[b][i + 1] =
           published[b][i + 1] + IF b = batch[w] /\ i + 1 = index[w] THEN 1 ELSE 0
    BY <1>1, <2>1, TopicStep
  <2>3. b = batch[w] /\ i + 1 = index[w]
    BY <1>4, <2>2
  <2>4. i \in 1..(index[w] - 1)
    BY <1>1, <2>3
  <2>5. published[b][i] > 0
    BY <2>1, <2>3, <2>4 DEF IndexInStep
  <2> QED
    BY <1>2, <2>5
<1> QED
  BY <1>2, <1>3, <1>4
-----------------------------------------------------------------------------
\* Nothing is under way, published or stored at first.
LEMMA InitIInv == Init => IInv
<1> SUFFICES ASSUME Init PROVE IInv
  OBVIOUS
<1>1. TypeOK
  BY OneIsEvent, IngestionAssumption DEF Init, TypeOK, Busy
<1>2. IndexInStep /\ SafeSoFar
  BY DEF Init, IndexInStep, SafeSoFar, FinishedIsDurable, ProcessedIsDurable
<1>3. TopicHoldsPrefixes
  <2> SUFFICES ASSUME NEW b \in Batches, NEW i \in 1..(EventsPerBatch - 1)
               PROVE  published[b][i + 1] > 0 => published[b][i] > 0
    BY DEF TopicHoldsPrefixes
  <2>1. published[b][i + 1] = 0
    BY IngestionAssumption DEF Init, Events
  <2> QED
    BY <2>1
<1> QED
  BY <1>1, <1>2, <1>3 DEF IInv

\* The inductive invariant holds in every reachable state.
THEOREM Invariance == Spec => []IInv
<1>1. Init => IInv
  BY InitIInv
<1>2. IInv /\ [Next]_vars => IInv'
  BY TypeStep, IndexStep, SafeStep, PrefixStep DEF IInv
<1> QED
  BY <1>1, <1>2, PTL DEF Spec

\* The state of processBatch and of the stores behind it keeps its type.
THEOREM TypeCorrect == Spec => []TypeOK
<1>1. IInv => TypeOK
  BY DEF IInv
<1> QED
  BY <1>1, Invariance, PTL

\* A batch that processBatch is done with is durable, or its fallback write failed.
THEOREM FinishedBatchIsSafe == Spec => []FinishedIsDurable
<1>1. IInv => FinishedIsDurable
  BY DEF IInv, SafeSoFar
<1> QED
  BY <1>1, Invariance, PTL

\* The duplicate check never turns away the only copy of a batch.
THEOREM MarkedBatchIsSafe == Spec => []ProcessedIsDurable
<1>1. IInv => ProcessedIsDurable
  BY DEF IInv, SafeSoFar
<1> QED
  BY <1>1, Invariance, PTL

\* The topic holds no event of a batch without the one before it.
THEOREM TopicInOrder == Spec => []TopicHoldsPrefixes
<1>1. IInv => TopicHoldsPrefixes
  BY DEF IInv
<1> QED
  BY <1>1, Invariance, PTL
-----------------------------------------------------------------------------
(* Published once.                                                           *)

\* No event of the batch is in the topic.
Fresh(b) == \A i \in Events : published[b][i] = 0

\* Batch b, while nothing fails: one stream has it at a time; behind the duplicate check
\* it is not marked; a stream that publishes it has published each event before its
\* position once and none after; and until a stream has published it, or it is marked,
\* none of its events is in the topic.
OnceFor(b) ==
    /\ \A v, w \in Workers : batch[v] = b /\ batch[w] = b => v = w
    /\ \A w \in Workers : batch[w] = b => ~ctxDone[w]
    /\ \A w \in Workers : batch[w] = b /\ pc[w] # "check" => b \notin processed
    /\ \A w \in Workers : batch[w] = b /\ pc[w] = "publish" =>
          \A i \in Events : published[b][i] = IF i < index[w] THEN 1 ELSE 0
    /\ b \in processed \/ (\E w \in Workers : batch[w] = b /\ pc[w] \in {"publish", "mark"}) \/ Fresh(b)
    /\ \A i \in Events : published[b][i] <= 1

OnceInv == Has("redis") /\ faults = 0 => \A b \in Batches \ disturbed : OnceFor(b)

\* The history of disturbances only grows, and so does the count of faults.
LEMMA HistoryGrows ==
    TypeOK /\ [Next]_vars =>
        configured' = configured /\ disturbed \subseteq disturbed' /\ (faults' = 0 => faults = 0)
<1> SUFFICES ASSUME TypeOK, [Next]_vars
             PROVE  configured' = configured /\ disturbed \subseteq disturbed' /\ (faults' = 0 => faults = 0)
  OBVIOUS
<1>1. faults \in Nat
  BY DEF TypeOK
<1>2. faults' = faults \/ faults' = faults + 1
  BY DEF Next, vars, ProcessBatch, Receive, ReceiveRefused, IgnoreDuplicate, Decode, CheckedAsNew,
     CallFails, Fault, Publish, WriterRetries, PublishFails, PublishCancelled, Store, StoreAndAck,
     StoreToFallback, MarkAndAck, LoseContext, KeyExpires, Crash, bounds
<1>3. configured' = configured /\ disturbed \subseteq disturbed'
  BY DEF Next, vars, setting, ProcessBatch, Receive, ReceiveRefused, IgnoreDuplicate, Decode,
     Publish, WriterRetries, PublishFails, PublishCancelled, Store, StoreAndAck, MarkAndAck,
     LoseContext, KeyExpires, Crash
<1> QED
  BY <1>1, <1>2, <1>3

\* What a step leaves alone of batch b: its workers, its mark and its events.
LEMMA OnceUndisturbed ==
    ASSUME NEW b \in Batches, OnceFor(b),
           \A w \in Workers : batch'[w] = b =>
               batch[w] = b /\ pc'[w] = pc[w] /\ index'[w] = index[w] /\ ctxDone'[w] = ctxDone[w],
           \A w \in Workers : batch[w] = b /\ pc[w] \in {"publish", "mark"} => batch'[w] = b,
           published'[b] = published[b], b \in processed' <=> b \in processed
    PROVE  OnceFor(b)'
BY DEF OnceFor, Fresh

\* A step of processBatch that does not fail.
LEMMA ProcessOnce ==
    ASSUME TypeOK, IndexInStep, NEW b \in Batches, OnceFor(b), Has("redis"), faults' = faults,
           NEW w \in Workers, ProcessBatch(w)
    PROVE  OnceFor(b)'
<1>1. batch[w] \in Batches \/ pc[w] = "idle"
  BY DEF TypeOK, Busy
<1>2. faults \in Nat /\ ~Fault
  BY DEF TypeOK, Fault
<1>3. ASSUME batch[w] # b, UNCHANGED ctxDone,
             \A v \in Workers \ {w} : batch'[v] = batch[v] /\ pc'[v] = pc[v] /\ index'[v] = index[v],
             batch'[w] # b, published'[b] = published[b], b \in processed' <=> b \in processed
      PROVE  OnceFor(b)'
  BY <1>3, OnceUndisturbed
<1>4. CASE batch[w] # b
  <2>1. /\ UNCHANGED ctxDone /\ batch'[w] # b
        /\ \A v \in Workers \ {w} : batch'[v] = batch[v] /\ pc'[v] = pc[v] /\ index'[v] = index[v]
    BY <1>4, IngestionAssumption DEF ProcessBatch, IgnoreDuplicate, Decode, Publish, WriterRetries,
       PublishFails, PublishCancelled, Store, StoreAndAck, MarkAndAck, Finish, TypeOK
  <2>2. b \in processed' <=> b \in processed
    BY <1>4 DEF ProcessBatch, IgnoreDuplicate, Decode, Publish, WriterRetries, PublishFails,
       PublishCancelled, Store, StoreAndAck, MarkAndAck
  <2>3. published'[b] = published[b]
    BY <1>4 DEF ProcessBatch, IgnoreDuplicate, Decode, Publish, WriterRetries, PublishFails,
       PublishCancelled, Store, StoreAndAck, MarkAndAck, AddToTopic, TypeOK
  <2> QED
    BY <1>3, <1>4, <2>1, <2>2, <2>3
<1>5. CASE batch[w] = b
  <2>1. ~ctxDone[w] /\ ~CallFails(w) /\ pc[w] # "idle"
    BY <1>2, <1>5 DEF OnceFor, CallFails, TypeOK, Busy
  <2>2. \A v \in Workers \ {w} : batch[v] # b
    BY <1>5 DEF OnceFor
  <2>3. ASSUME IgnoreDuplicate(w) PROVE OnceFor(b)'
    <3>1. /\ b \in processed /\ UNCHANGED <<published, processed>>
          /\ \A v \in Workers : batch'[v] # b
      BY <1>5, <2>2, <2>3, IngestionAssumption DEF IgnoreDuplicate, Finish, TypeOK
    <3> QED
      BY <3>1 DEF OnceFor
  <2>4. ASSUME Decode(w) PROVE OnceFor(b)'
    <3>1. /\ b \notin processed /\ pc[w] = "check" /\ UNCHANGED <<batch, index, ctxDone, published, processed>>
          /\ pc' = [pc EXCEPT ![w] = DecodedTo(b)]
      BY <1>5, <2>1, <2>4 DEF Decode, CheckedAsNew
    <3>2. Fresh(b)
      BY <1>5, <2>2, <3>1 DEF OnceFor
    <3>3. index[w] = 1 /\ \A i \in Events : ~(i < 1)
      BY <3>1 DEF IndexInStep, Events
    <3>4. pc'[w] \in {"publish", "store", "storeAndAck"}
      BY <1>5, <3>1 DEF TypeOK, DecodedTo
    <3>5. Fresh(b)' /\ \A i \in Events : published'[b][i] = 0 /\ published'[b][i] <= 1
      BY <3>1, <3>2 DEF Fresh
    <3> QED
      BY <1>5, <2>1, <2>2, <3>1, <3>3, <3>4, <3>5 DEF OnceFor
  <2>5. ASSUME Publish(w) PROVE OnceFor(b)'
    <3>1. /\ pc[w] = "publish" /\ AddToTopic(w) /\ UNCHANGED <<batch, ctxDone, processed>>
          /\ index[w] \in Events /\ EventsPerBatch \in Nat
          /\ \A v \in Workers \ {w} : pc'[v] = pc[v] /\ index'[v] = index[v]
      BY <2>5, IngestionAssumption DEF Publish, TypeOK
    <3>2. \/ index'[w] = index[w] + 1 /\ pc'[w] = "publish"
          \/ index[w] = EventsPerBatch /\ pc'[w] = "mark"
      BY <2>5 DEF Publish, TypeOK
    <3>3. \A i \in Events : published'[b][i] = published[b][i] + IF i = index[w] THEN 1 ELSE 0
      BY <1>5, <3>1, TopicStep
    <3>4. \A i \in Events : published[b][i] = IF i < index[w] THEN 1 ELSE 0
      BY <1>5, <3>1 DEF OnceFor
    <3>5. \A i \in Events : published'[b][i] = IF i < index[w] + 1 THEN 1 ELSE 0
      BY <3>1, <3>3, <3>4 DEF Events
    <3>6. b \notin processed
      BY <1>5, <3>1 DEF OnceFor
    <3> QED
      BY <1>5, <2>1, <2>2, <3>1, <3>2, <3>5, <3>6 DEF OnceFor
  <2>6. ~WriterRetries(w) /\ ~PublishFails(w) /\ ~PublishCancelled(w)
    BY <1>2, <2>1 DEF WriterRetries, PublishFails, PublishCancelled
  <2>7. ASSUME Store(w) PROVE OnceFor(b)'
    <3>1. /\ UNCHANGED <<published, processed>> /\ pc[w] = "store"
          /\ \A v \in Workers : batch'[v] # b
      BY <1>5, <2>2, <2>7, IngestionAssumption DEF Store, Finish, TypeOK
    <3>2. Fresh(b)
      BY <1>5, <2>2, <3>1 DEF OnceFor
    <3> QED
      BY <3>1, <3>2 DEF OnceFor, Fresh
  <2>8. ASSUME StoreAndAck(w) PROVE OnceFor(b)'
    <3>1. /\ UNCHANGED <<batch, ctxDone, published, processed>> /\ pc[w] = "storeAndAck" /\ pc'[w] = "mark"
          /\ \A v \in Workers \ {w} : pc'[v] = pc[v]
      BY <2>8 DEF StoreAndAck, TypeOK
    <3> QED
      BY <1>5, <2>2, <3>1 DEF OnceFor
  <2>9. ASSUME MarkAndAck(w) PROVE OnceFor(b)'
    <3>1. /\ b \in processed' /\ UNCHANGED published
          /\ \A v \in Workers : batch'[v] # b
      BY <1>5, <2>1, <2>2, <2>9, IngestionAssumption DEF MarkAndAck, Finish, TypeOK
    <3> QED
      BY <3>1 DEF OnceFor
  <2> QED
    BY <2>3, <2>4, <2>5, <2>6, <2>7, <2>8, <2>9 DEF ProcessBatch
<1> QED
  BY <1>4, <1>5

\* The induction step.
LEMMA OnceStep == TypeOK /\ IndexInStep /\ OnceInv /\ [Next]_vars => OnceInv'
<1> SUFFICES ASSUME TypeOK, IndexInStep, OnceInv, [Next]_vars, Has("redis")', faults' = 0,
                    NEW b \in Batches, b \notin disturbed'
             PROVE  OnceFor(b)'
  BY DEF OnceInv
<1>1. Has("redis") /\ faults = 0 /\ b \notin disturbed
  BY HistoryGrows DEF Has
<1>2. OnceFor(b)
  BY <1>1 DEF OnceInv
<1>3. ASSUME NEW w \in Workers, NEW c \in Batches, Receive(w, c) PROVE OnceFor(b)'
  <2>1. /\ UNCHANGED <<index, published, processed>>
        /\ batch' = [batch EXCEPT ![w] = c] /\ pc' = [pc EXCEPT ![w] = "check"]
        /\ ctxDone' = [ctxDone EXCEPT ![w] = FALSE] /\ pc[w] = "idle"
    BY <1>3 DEF Receive, Busy
  <2>2. batch[w] # b
    BY <2>1 DEF TypeOK, Busy
  <2>3. CASE c # b
    BY <1>2, <2>1, <2>2, <2>3, OnceUndisturbed DEF TypeOK
  <2>4. CASE c = b
    <3>1. \A v \in Workers : batch[v] # b
      BY <1>3, <2>4 DEF Receive
    <3>2. /\ batch'[w] = b /\ pc'[w] = "check" /\ ~ctxDone'[w]
          /\ \A v \in Workers \ {w} : batch'[v] # b
      BY <2>1, <2>4, <3>1 DEF TypeOK
    <3>3. (b \in processed' \/ Fresh(b)') /\ \A i \in Events : published'[b][i] <= 1
      BY <1>2, <2>1, <3>1 DEF OnceFor, Fresh
    <3> QED
      BY <3>2, <3>3 DEF OnceFor
  <2> QED
    BY <2>3, <2>4
<1>4. ASSUME NEW w \in Workers, LoseContext(w) PROVE OnceFor(b)'
  <2>1. batch[w] # b
    BY <1>4 DEF LoseContext
  <2>2. UNCHANGED <<pc, batch, index, published, processed>> /\ \A v \in Workers \ {w} : ctxDone'[v] = ctxDone[v]
    BY <1>4 DEF LoseContext, TypeOK
  <2> QED
    BY <1>2, <2>1, <2>2, OnceUndisturbed
<1>5. ASSUME NEW w \in Workers, ProcessBatch(w) PROVE OnceFor(b)'
  BY <1>1, <1>2, <1>5, ProcessOnce
<1>6. ~Fault
  BY <1>1 DEF Fault
<1>7. ASSUME UNCHANGED <<pc, batch, index, ctxDone, published, processed>> PROVE OnceFor(b)'
  BY <1>2, <1>7, OnceUndisturbed
<1>8. ASSUME NEW w \in Workers, NEW c \in Batches, ReceiveRefused(w, c) PROVE OnceFor(b)'
  BY <1>7, <1>8 DEF ReceiveRefused
<1>9. CASE UNCHANGED vars
  BY <1>7, <1>9 DEF vars
<1> QED
  BY <1>3, <1>4, <1>5, <1>6, <1>8, <1>9 DEF Next, KeyExpires, Crash

\* With Redis, and as long as nothing fails, repeated deliveries put an event into the
\* topic once, unless two streams had the batch at the same time or its stream ended.
THEOREM EventsPublishedOnce == Spec => []PublishedOnce
<1>1. Init => OnceInv
  <2> SUFFICES ASSUME Init, NEW b \in Batches PROVE OnceFor(b)
    BY DEF OnceInv
  <2>1. \A i \in Events : published[b][i] = 0
    BY DEF Init
  <2>2. \A w \in Workers : batch[w] # b
    BY IngestionAssumption DEF Init
  <2> QED
    BY <2>1, <2>2 DEF OnceFor, Fresh
<1>2. IInv /\ OnceInv /\ [Next]_vars => OnceInv'
  BY OnceStep DEF IInv
<1>3. OnceInv => PublishedOnce
  BY DEF OnceInv, OnceFor, PublishedOnce
<1> QED
  BY <1>1, <1>2, <1>3, Invariance, PTL DEF Spec
=============================================================================
