------------------------ MODULE AgentPipelineProofs ------------------------
(***************************************************************************)
(* Proofs about AgentPipeline for every value of its constants.            *)
(*                                                                         *)
(* OneBatchPerEvent and BatchesAreRuns are not inductive: they say nothing *)
(* of where the events of the channel and the buffer stand with respect to *)
(* the batches already made.  The strengthening is that the buffer         *)
(* followed by the channel is the gapless run of the events above Cut, and *)
(* that every batch ever made lies at or below Cut.                        *)
(*                                                                         *)
(* QuotaRespected is inductive over the types alone, once it is known what *)
(* one file more or less does to the size of a directory: the last part    *)
(* counts that with injections between the sets of stored events.          *)
(***************************************************************************)
EXTENDS AgentPipeline, TLAPS, SequenceTheorems, FiniteSetTheorems

\* The last event that has left the buffer.
Cut == accepted - Len(eventChan) - Len(buffer)

\* What the batcher has not batched yet is the run above Cut.
PendingRun ==
    /\ Cut \in Nat
    /\ \A i \in 1..Len(buffer) : buffer[i] = Cut + i
    /\ \A i \in 1..Len(eventChan) : eventChan[i] = Cut + Len(buffer) + i

\* The batch f is a run that ends at or below c.
RunUpTo(f, c) ==
    \A i \in 1..Len(f.events) : f.events[i] = f.events[1] + i - 1 /\ f.events[i] <= c

Apart(f, g) ==
    \A i \in 1..Len(f.events), j \in 1..Len(g.events) : f.events[i] # g.events[j]

BatchesBelow ==
    /\ \A w \in Writers : RunUpTo(hand[w], Cut)
    /\ \A i \in 1..Len(disk) : disk[i].events # <<>> /\ RunUpTo(disk[i], Cut)
    /\ \A f \in sent : f.events # <<>> /\ RunUpTo(f, Cut)
    /\ RunUpTo(peeked, Cut)

BatchesApart ==
    /\ \A i, j \in 1..Len(disk) : i # j => Apart(disk[i], disk[j])
    /\ \A w \in Writers, i \in 1..Len(disk) : Apart(hand[w], disk[i])
    /\ Apart(hand["batcher"], hand["ticker"])

\* What a goroutine carries at each point of its loop.
Carrying ==
    /\ \A w \in Writers : pc[w] \in {"enqueue", "locked"} <=> hand[w].events # <<>>
    /\ pc["processor"] \in {"send", "remove"} => peeked.events # <<>>
    /\ pc["processor"] = "remove" => peeked \in sent
    /\ \A w \in Writers : pc[w] \in {"loop", "enqueue", "locked", "done"}

IInv == TypeOK /\ PendingRun /\ BatchesBelow /\ BatchesApart /\ Carrying
-----------------------------------------------------------------------------
(* The sequence operators the disk queue is built from.                      *)

\* t is the sequence s over S with e inserted as its k-th element.
IsInsertion(t, S, s, k, e) ==
    /\ t \in Seq(S)
    /\ Len(t) = Len(s) + 1
    /\ \A i \in 1..(Len(s) + 1) : t[i] = IF i < k THEN s[i] ELSE IF i = k THEN e ELSE s[i - 1]

\* Inserting a file shifts the ones after it and changes no other.
LEMMA InsertAtProperties ==
    ASSUME NEW S, NEW s \in Seq(S), NEW k \in 1..(Len(s) + 1), NEW e \in S
    PROVE  IsInsertion(InsertAt(s, k, e), S, s, k, e)
<1> DEFINE a == SubSeq(s, 1, k - 1)
           b == SubSeq(s, k, Len(s))
           c == a \o <<e>>
<1>1. /\ a \in Seq(S) /\ Len(a) = k - 1
      /\ \A i \in 1..(k - 1) : a[i] = s[i]
  OBVIOUS
<1>2. /\ b \in Seq(S) /\ Len(b) = Len(s) - k + 1
      /\ \A i \in 1..(Len(s) - k + 1) : b[i] = s[k + i - 1]
  OBVIOUS
<1>3. InsertAt(s, k, e) = c \o b
  BY DEF InsertAt
<1>4. /\ c \in Seq(S) /\ Len(c) = k
      /\ \A i \in 1..k : c[i] = IF i < k THEN s[i] ELSE e
  <2>1. <<e>> \in Seq(S) /\ Len(<<e>>) = 1 /\ <<e>>[1] = e
    OBVIOUS
  <2> HIDE DEF a
  <2> QED
    BY <1>1, <2>1, ConcatProperties
<1> HIDE DEF a, b, c
<1>5. /\ c \o b \in Seq(S) /\ Len(c \o b) = Len(s) + 1
      /\ \A i \in 1..(Len(s) + 1) : (c \o b)[i] = IF i <= k THEN c[i] ELSE b[i - k]
  BY <1>2, <1>4, ConcatProperties
<1>6. \A i \in 1..(Len(s) + 1) : i > k => b[i - k] = s[i - 1]
  BY <1>2
<1> QED
  BY <1>3, <1>4, <1>5, <1>6 DEF IsInsertion

\* Removing a file closes the gap and changes no other.
LEMMA RemoveAtProperties ==
    ASSUME NEW S, NEW s \in Seq(S), NEW k \in 1..Len(s)
    PROVE  /\ RemoveAt(s, k) \in Seq(S)
           /\ Len(RemoveAt(s, k)) = Len(s) - 1
           /\ \A i \in 1..(Len(s) - 1) :
                RemoveAt(s, k)[i] = IF i < k THEN s[i] ELSE s[i + 1]
<1> DEFINE a == SubSeq(s, 1, k - 1)
           b == SubSeq(s, k + 1, Len(s))
<1>1. /\ a \in Seq(S) /\ Len(a) = k - 1
      /\ \A i \in 1..(k - 1) : a[i] = s[i]
  OBVIOUS
<1>2. /\ b \in Seq(S) /\ Len(b) = Len(s) - k
      /\ \A i \in 1..(Len(s) - k) : b[i] = s[k + i]
  OBVIOUS
<1>3. RemoveAt(s, k) = a \o b
  BY DEF RemoveAt
<1> Len(s) \in Nat /\ k \in Nat
  OBVIOUS
<1> HIDE DEF a, b
<1>4. /\ a \o b \in Seq(S) /\ Len(a \o b) = Len(s) - 1
      /\ \A i \in 1..(Len(s) - 1) : (a \o b)[i] = IF i <= k - 1 THEN a[i] ELSE b[i - (k - 1)]
  <2>1. /\ a \o b \in Seq(S) /\ Len(a \o b) = Len(a) + Len(b)
        /\ \A i \in 1..(Len(a) + Len(b)) : (a \o b)[i] = IF i <= Len(a) THEN a[i] ELSE b[i - Len(a)]
    BY <1>1, <1>2, ConcatProperties
  <2>2. Len(a) = k - 1 /\ Len(a) + Len(b) = Len(s) - 1
    BY <1>1, <1>2
  <2> QED
    BY <2>1, <2>2
<1>5. \A i \in 1..(Len(s) - 1) : i >= k => b[i - (k - 1)] = s[i + 1]
  BY <1>2
<1> QED
  BY <1>1, <1>3, <1>4, <1>5

\* The set of a sequence's elements.
LEMMA ToSetProperties ==
    ASSUME NEW S, NEW s \in Seq(S)
    PROVE  /\ ToSet(s) \subseteq S
           /\ \A i \in 1..Len(s) : s[i] \in ToSet(s)
           /\ \A x \in ToSet(s) : \E i \in 1..Len(s) : x = s[i]
BY DEF ToSet
-----------------------------------------------------------------------------
(* Each step preserves the inductive invariant.                              *)

\* The absent batch is a file without events.
LEMMA NoFileIsEmpty == NoFile \in File /\ NoFile.events = <<>>
BY DEF NoFile, File

\* Every goroutine starts empty-handed on an empty queue.
LEMMA InitIInv == Init => IInv
<1> SUFFICES ASSUME Init PROVE IInv
  OBVIOUS
<1> USE PipelineAssumption, NoFileIsEmpty DEF Init, Writers, Routines
<1>1. TypeOK
  <2>1. /\ eventChan \in Seq(Event) /\ Len(eventChan) <= BufferSize
        /\ buffer \in Seq(Event) /\ Len(buffer) < BatchSize
        /\ disk \in Seq(File) /\ wire \in Seq(File)
    OBVIOUS
  <2>2. hand \in [Writers -> File] /\ peeked \in File
    OBVIOUS
  <2>3. pc \in [Routines -> {"loop", "enqueue", "locked", "send", "remove", "done"}]
    OBVIOUS
  <2> QED
    BY <2>1, <2>2, <2>3 DEF TypeOK
<1>2. PendingRun
  BY DEF PendingRun, Cut
<1>3. BatchesBelow /\ BatchesApart
  BY DEF BatchesBelow, BatchesApart, RunUpTo, Apart
<1>4. Carrying
  BY DEF Carrying
<1> QED
  BY <1>1, <1>2, <1>3, <1>4 DEF IInv

\* The parts of the invariant about events and batches read these variables only.
LEMMA DataFrame ==
    ASSUME IInv, UNCHANGED <<eventChan, buffer, accepted, hand, disk, sent, peeked>>
    PROVE  PendingRun' /\ BatchesBelow' /\ BatchesApart'
<1>1. Cut' = Cut
  BY DEF Cut
<1>2. PendingRun'
  BY <1>1 DEF IInv, PendingRun
<1>3. BatchesBelow'
  BY <1>1 DEF IInv, BatchesBelow
<1>4. BatchesApart'
  BY DEF IInv, BatchesApart
<1> QED
  BY <1>2, <1>3, <1>4

\* An accepted event extends the run above Cut.
LEMMA SubmitIInv == IInv /\ SubmitEvent => IInv'
<1> SUFFICES ASSUME IInv, SubmitEvent PROVE IInv'
  OBVIOUS
<1> USE PipelineAssumption DEF IInv
<1>0. UNCHANGED <<phase, buffer, pc, hand, draining, disk, peeked, idSet, enroll, stream, wire,
                  sent, ingested, faults>>
  BY DEF SubmitEvent, network, outcome
<1>1. CASE UNCHANGED <<eventChan, accepted>>
  BY <1>0, <1>1 DEF TypeOK, PendingRun, BatchesBelow, BatchesApart, Carrying, Cut
<1>2. CASE /\ Len(eventChan) < BufferSize
           /\ eventChan' = Append(eventChan, accepted + 1)
           /\ accepted' = accepted + 1
  <2>1. TypeOK'
    BY <1>0, <1>2 DEF TypeOK, Event
  <2>2. Cut' = Cut
    BY <1>0, <1>2 DEF TypeOK, Cut
  <2>3. PendingRun'
    BY <1>0, <1>2, <2>2 DEF PendingRun, TypeOK, Cut
  <2>4. BatchesBelow' /\ BatchesApart' /\ Carrying'
    BY <1>0, <2>2 DEF BatchesBelow, BatchesApart, Carrying
  <2> QED
    BY <2>1, <2>3, <2>4
<1> QED
  BY <1>1, <1>2 DEF SubmitEvent

\* A run up to c is one up to any larger bound, and shares nothing with what is above c.
LEMMA RunProperties ==
    ASSUME NEW f \in File, NEW c \in Nat, RunUpTo(f, c)
    PROVE  /\ \A d \in Nat : c <= d => RunUpTo(f, d)
           /\ \A g \in File : (\A i \in 1..Len(g.events) : g.events[i] > c)
                               => Apart(f, g) /\ Apart(g, f)
<1> f.events \in Seq(Nat)
  BY DEF File, Event
<1>1. \A i \in 1..Len(f.events) : f.events[i] \in Nat /\ f.events[i] <= c
  BY DEF RunUpTo
<1>2. ASSUME NEW d \in Nat, c <= d PROVE RunUpTo(f, d)
  BY <1>1, <1>2 DEF RunUpTo
<1>3. ASSUME NEW g \in File, \A i \in 1..Len(g.events) : g.events[i] > c
      PROVE  Apart(f, g) /\ Apart(g, f)
  <2>1. ASSUME NEW i \in 1..Len(f.events), NEW j \in 1..Len(g.events)
        PROVE  f.events[i] # g.events[j]
    <3>1. f.events[i] \in Nat /\ f.events[i] <= c /\ g.events[j] > c
      BY <1>1, <1>3
    <3>2. g.events[j] \in Nat
      BY DEF File, Event
    <3> QED
      BY <3>1, <3>2
  <2> QED
    BY <2>1 DEF Apart
<1> QED
  BY <1>2, <1>3

\* A new batch takes the run just above Cut, hence events of no other batch.
LEMMA CreateBatchIInv ==
    ASSUME IInv, NEW w \in Writers, NEW events \in Seq(Event), events # <<>>, NEW after,
           \A i \in 1..Len(events) : events[i] = Cut + i,
           Cut' = Cut + Len(events), hand[w].events = <<>>,
           CreateBatch(w, events, after), UNCHANGED <<disk, sent, peeked>>
    PROVE  BatchesBelow' /\ BatchesApart' /\ hand' \in [Writers -> File]
<1> DEFINE new == [events |-> events, stamped |-> idSet]
<1>1. new \in File /\ new.events = events
  BY DEF IInv, TypeOK, File
<1>2. Cut \in Nat /\ Cut' \in Nat /\ Cut <= Cut'
  BY DEF IInv, PendingRun
<1>3. /\ hand \in [Writers -> File] /\ disk \in Seq(File) /\ peeked \in File /\ sent \subseteq File
      /\ \A i \in 1..Len(disk) : disk[i] \in File
  BY DEF IInv, TypeOK
<1>4. RunUpTo(new, Cut')
  BY <1>1, <1>2 DEF RunUpTo
<1>5. \A i \in 1..Len(new.events) : new.events[i] > Cut
  BY <1>1, <1>2
<1> HIDE DEF new
<1>6. /\ \A v \in Writers : RunUpTo(hand[v], Cut')
      /\ \A i \in 1..Len(disk) : disk[i].events # <<>> /\ RunUpTo(disk[i], Cut')
      /\ \A f \in sent : f.events # <<>> /\ RunUpTo(f, Cut')
      /\ RunUpTo(peeked, Cut')
  BY <1>2, <1>3, RunProperties DEF IInv, BatchesBelow
<1>7. /\ \A v \in Writers : Apart(hand[v], new) /\ Apart(new, hand[v])
      /\ \A i \in 1..Len(disk) : Apart(new, disk[i])
  BY <1>1, <1>2, <1>3, <1>5, RunProperties DEF IInv, BatchesBelow
<1>8. CASE hand' = hand
  BY <1>3, <1>6, <1>8 DEF IInv, BatchesBelow, BatchesApart
<1>9. CASE hand' = [hand EXCEPT ![w] = new]
  <2>1. hand' \in [Writers -> File] /\ BatchesBelow'
    BY <1>1, <1>3, <1>4, <1>6, <1>9 DEF BatchesBelow
  <2>2. BatchesApart'
    BY <1>3, <1>7, <1>9 DEF IInv, BatchesApart, Writers
  <2> QED
    BY <2>1, <2>2
<1> QED
  BY <1>8, <1>9 DEF CreateBatch, new

\* The goroutine that made a batch carries it.
LEMMA CreateBatchCarrying ==
    ASSUME IInv, NEW w \in Writers, pc[w] = "loop", NEW events \in Seq(Event), events # <<>>,
           NEW after \in {"loop", "done"}, CreateBatch(w, events, after), UNCHANGED <<peeked, sent>>
    PROVE  Carrying'
<1>1. /\ pc \in [Routines -> {"loop", "enqueue", "locked", "send", "remove", "done"}]
      /\ hand \in [Writers -> File] /\ hand[w].events = <<>>
  BY DEF IInv, TypeOK, Carrying
<1>2. CASE /\ hand' = [hand EXCEPT ![w] = [events |-> events, stamped |-> idSet]]
           /\ pc' = [pc EXCEPT ![w] = "enqueue"]
  <2>1. hand'[w].events = events /\ pc'[w] = "enqueue"
    BY <1>1, <1>2 DEF Routines
  <2>2. \A v \in Writers : v # w => hand'[v] = hand[v] /\ pc'[v] = pc[v]
    BY <1>1, <1>2 DEF Routines
  <2>3. pc'["processor"] = pc["processor"]
    BY <1>1, <1>2 DEF Routines, Writers
  <2> QED
    BY <2>1, <2>2, <2>3 DEF IInv, Carrying
<1>3. CASE hand' = hand /\ pc' = [pc EXCEPT ![w] = after]
  <2>1. pc'[w] = after /\ \A v \in Writers : v # w => pc'[v] = pc[v]
    BY <1>1, <1>3 DEF Routines
  <2>3. pc'["processor"] = pc["processor"]
    BY <1>1, <1>3 DEF Routines, Writers
  <2> QED
    BY <1>1, <1>3, <2>1, <2>3 DEF IInv, Carrying
<1> QED
  BY <1>2, <1>3 DEF CreateBatch

\* runBatcher moves the oldest event of the channel to the buffer, and cuts a full batch.
LEMMA BatcherReceiveIInv == IInv /\ BatcherReceive => IInv'
<1> SUFFICES ASSUME IInv, BatcherReceive PROVE IInv'
  OBVIOUS
<1> DEFINE events == Append(buffer, Head(eventChan))
<1>0. /\ UNCHANGED <<phase, accepted, draining, disk, peeked, idSet, enroll, stream, wire, sent, ingested>>
      /\ eventChan # <<>> /\ eventChan' = Tail(eventChan) /\ pc["batcher"] = "loop"
  BY DEF BatcherReceive, network, outcome
<1>a. /\ eventChan \in Seq(Event) /\ Len(eventChan) \in Nat \ {0} /\ Len(eventChan) <= BufferSize
      /\ buffer \in Seq(Event) /\ Len(buffer) \in Nat /\ accepted \in Nat /\ BufferSize \in Nat
  BY <1>0, PipelineAssumption DEF IInv, TypeOK
<1>b. /\ Cut \in Nat
      /\ \A i \in 1..Len(buffer) : buffer[i] = Cut + i
      /\ \A i \in 1..Len(eventChan) : eventChan[i] = Cut + Len(buffer) + i
  BY DEF IInv, PendingRun
<1>c. Len(eventChan') = Len(eventChan) - 1 /\ Len(eventChan') \in Nat
  BY <1>0, <1>a
<1>1. /\ eventChan' \in Seq(Event) /\ Len(eventChan') <= BufferSize
      /\ \A i \in 1..Len(eventChan') : eventChan'[i] = eventChan[i + 1]
      /\ Head(eventChan) = eventChan[1] /\ Head(eventChan) \in Event
  BY <1>0, <1>a, <1>c
<1>d. /\ events \in Seq(Event) /\ events # <<>> /\ Len(events) = Len(buffer) + 1
      /\ \A i \in 1..Len(buffer) : events[i] = buffer[i]
      /\ events[Len(buffer) + 1] = eventChan[1]
  BY <1>1, <1>a, AppendProperties
<1> HIDE DEF events
<1>e. eventChan[1] = Cut + Len(buffer) + 1
  BY <1>a, <1>b
<1>2. \A i \in 1..Len(events) : events[i] = Cut + i
  <2> TAKE i \in 1..Len(events)
  <2>1. CASE i \in 1..Len(buffer)
    BY <1>b, <1>d, <2>1
  <2>2. CASE i = Len(buffer) + 1
    BY <1>a, <1>b, <1>d, <1>e, <2>2
  <2> QED
    BY <1>a, <1>d, <2>1, <2>2
<1>3. \A i \in 1..Len(eventChan') : eventChan'[i] = Cut + (Len(buffer) + 1) + i
  BY <1>1, <1>a, <1>b, <1>c
<1>4. CASE Len(events) < BatchSize /\ buffer' = events /\ UNCHANGED <<hand, pc, faults>>
  <2>1. TypeOK'
    BY <1>0, <1>1, <1>d, <1>4 DEF IInv, TypeOK
  <2>a. Len(buffer') = Len(buffer) + 1
    BY <1>d, <1>4
  <2>2. Cut' = Cut
    BY <1>0, <1>a, <1>c, <2>a DEF Cut
  <2>3. PendingRun'
    <3>1. \A i \in 1..Len(buffer') : buffer'[i] = Cut' + i
      BY <1>2, <1>4, <2>2
    <3>2. \A i \in 1..Len(eventChan') : eventChan'[i] = Cut' + Len(buffer') + i
      BY <1>3, <2>a, <2>2
    <3> QED
      BY <1>b, <2>2, <3>1, <3>2 DEF PendingRun
  <2>4. BatchesBelow' /\ BatchesApart' /\ Carrying'
    BY <1>0, <1>4, <2>2 DEF IInv, BatchesBelow, BatchesApart, Carrying
  <2> QED
    BY <2>1, <2>3, <2>4 DEF IInv
<1>5. CASE CreateBatch("batcher", events, "loop")
  <2>1. buffer' = <<>> /\ Len(buffer') = 0 /\ hand["batcher"].events = <<>>
    BY <1>0, <1>5 DEF CreateBatch, IInv, Carrying, Writers
  <2>2. Cut' = Cut + Len(events)
    BY <1>0, <1>a, <1>c, <1>d, <2>1 DEF Cut
  <2>3. BatchesBelow' /\ BatchesApart' /\ hand' \in [Writers -> File]
    BY <1>0, <1>2, <1>5, <1>d, <2>1, <2>2, CreateBatchIInv DEF Writers
  <2>4. PendingRun'
    <3>1. \A i \in 1..Len(eventChan') : eventChan'[i] = Cut' + Len(buffer') + i
      BY <1>3, <1>a, <1>b, <1>c, <1>d, <2>1, <2>2
    <3>2. Cut' \in Nat
      BY <1>a, <1>b, <1>d, <2>2
    <3>3. \A i \in 1..Len(buffer') : buffer'[i] = Cut' + i
      BY <2>1
    <3> QED
      BY <3>1, <3>2, <3>3 DEF PendingRun
  <2>5. TypeOK'
    <3>1. faults' \in Nat
      BY <1>5 DEF CreateBatch, Fault, IInv, TypeOK
    <3>2. pc' \in [Routines -> {"loop", "enqueue", "locked", "send", "remove", "done"}]
      BY <1>5 DEF CreateBatch, IInv, TypeOK
    <3>3. buffer' \in Seq(Event) /\ Len(buffer') < BatchSize
      BY <2>1, PipelineAssumption
    <3> QED
      BY <1>0, <1>1, <2>3, <3>1, <3>2, <3>3 DEF IInv, TypeOK
  <2>6. Carrying'
    BY <1>0, <1>5, <1>d, CreateBatchCarrying DEF Writers
  <2> QED
    BY <2>3, <2>4, <2>5, <2>6 DEF IInv
<1> QED
  BY <1>4, <1>5 DEF BatcherReceive, events

\* Both flushes take the whole buffer.
LEMMA FlushIInv ==
    ASSUME IInv, NEW w \in Writers, pc[w] = "loop", buffer # <<>>, NEW after \in {"loop", "done"},
           CreateBatch(w, buffer, after), draining' \in BOOLEAN,
           UNCHANGED <<phase, eventChan, accepted, disk, peeked, idSet, enroll, stream, wire, sent, ingested>>
    PROVE  IInv'
<1>a. buffer \in Seq(Event) /\ Len(buffer) \in Nat /\ Len(eventChan) \in Nat /\ accepted \in Nat
  BY DEF IInv, TypeOK
<1>b. Cut \in Nat /\ \A i \in 1..Len(buffer) : buffer[i] = Cut + i
  BY DEF IInv, PendingRun
<1>1. hand[w].events = <<>>
  BY DEF IInv, Carrying
<1>2. buffer' = <<>> /\ Len(buffer') = 0
  BY DEF CreateBatch
<1>3. Cut' = Cut + Len(buffer)
  BY <1>a, <1>2 DEF Cut
<1>4. BatchesBelow' /\ BatchesApart' /\ hand' \in [Writers -> File]
  BY <1>1, <1>a, <1>b, <1>3, CreateBatchIInv
<1>5. PendingRun'
  <2>1. \A i \in 1..Len(eventChan') : eventChan'[i] = Cut' + Len(buffer') + i
    BY <1>a, <1>b, <1>2, <1>3 DEF IInv, PendingRun
  <2>2. Cut' \in Nat
    BY <1>a, <1>b, <1>3
  <2>3. \A i \in 1..Len(buffer') : buffer'[i] = Cut' + i
    BY <1>2
  <2> QED
    BY <2>1, <2>2, <2>3 DEF PendingRun
<1>6. TypeOK'
  <2>1. faults' \in Nat
    BY DEF CreateBatch, Fault, IInv, TypeOK
  <2>2. pc' \in [Routines -> {"loop", "enqueue", "locked", "send", "remove", "done"}]
    BY DEF CreateBatch, IInv, TypeOK
  <2>3. buffer' \in Seq(Event) /\ Len(buffer') < BatchSize
    BY <1>2, PipelineAssumption
  <2> QED
    BY <1>4, <2>1, <2>2, <2>3 DEF IInv, TypeOK
<1>7. Carrying'
  BY <1>a, CreateBatchCarrying
<1> QED
  BY <1>4, <1>5, <1>6, <1>7 DEF IInv

\* The flush of runBatcher's exit and the one of runSender's ticker.
LEMMA BatcherStopIInv == IInv /\ BatcherStop => IInv'
<1> SUFFICES ASSUME IInv, BatcherStop PROVE IInv'
  OBVIOUS
<1>0. /\ UNCHANGED <<phase, eventChan, accepted, disk, peeked, idSet, enroll, stream, wire, sent, ingested>>
      /\ pc["batcher"] = "loop"
  BY DEF BatcherStop, network, outcome
<1>1. CASE buffer # <<>> /\ CreateBatch("batcher", buffer, "done") /\ draining' = TRUE
  BY <1>0, <1>1, FlushIInv DEF Writers
<1>2. CASE pc' = [pc EXCEPT !["batcher"] = "done"] /\ UNCHANGED <<buffer, hand, draining, faults>>
  <2>1. TypeOK'
    BY <1>0, <1>2 DEF IInv, TypeOK
  <2>2. PendingRun' /\ BatchesBelow' /\ BatchesApart'
    BY <1>0, <1>2, DataFrame
  <2>3. Carrying'
    BY <1>0, <1>2 DEF IInv, TypeOK, Carrying, Writers, Routines
  <2> QED
    BY <2>1, <2>2, <2>3 DEF IInv
<1> QED
  BY <1>1, <1>2 DEF BatcherStop

\* The timer's flush takes the whole buffer; its end touches no batch.
LEMMA TickerIInv == IInv /\ (TickerFlush \/ TickerStop) => IInv'
<1> SUFFICES ASSUME IInv, TickerFlush \/ TickerStop PROVE IInv'
  OBVIOUS
<1>1. CASE TickerFlush
  <2>1. draining \in BOOLEAN
    BY DEF IInv, TypeOK
  <2> QED
    BY <1>1, <2>1, FlushIInv DEF TickerFlush, Writers, network, outcome
<1>2. CASE TickerStop
  <2>0. /\ UNCHANGED <<phase, accepted, eventChan, buffer, hand, draining, disk, peeked, idSet, enroll,
                       stream, wire, sent, ingested, faults>>
        /\ pc["ticker"] = "loop" /\ pc' = [pc EXCEPT !["ticker"] = "done"]
    BY <1>2 DEF TickerStop, memory, network, outcome
  <2>1. TypeOK'
    BY <2>0 DEF IInv, TypeOK
  <2>2. PendingRun' /\ BatchesBelow' /\ BatchesApart'
    BY <2>0, DataFrame
  <2>3. Carrying'
    BY <2>0 DEF IInv, TypeOK, Carrying, Writers, Routines
  <2> QED
    BY <2>1, <2>2, <2>3 DEF IInv
<1> QED
  BY <1>1, <1>2

\* Taking the lock touches no batch; an eviction leaves a subsequence of the queue.
LEMMA EnqueueLockIInv == ASSUME NEW w \in Writers PROVE IInv /\ EnqueueLock(w) => IInv'
<1> SUFFICES ASSUME IInv, EnqueueLock(w) PROVE IInv'
  OBVIOUS
<1>0. /\ UNCHANGED <<phase, accepted, eventChan, buffer, hand, draining, disk, peeked, idSet, enroll,
                     stream, wire, sent, ingested, faults>>
      /\ pc[w] = "enqueue" /\ pc' = [pc EXCEPT ![w] = "locked"]
  BY DEF EnqueueLock, memory, network, outcome
<1>1. TypeOK'
  BY <1>0 DEF IInv, TypeOK
<1>2. PendingRun' /\ BatchesBelow' /\ BatchesApart'
  BY <1>0, DataFrame
<1>3. Carrying'
  BY <1>0 DEF IInv, TypeOK, Carrying, Writers, Routines
<1> QED
  BY <1>1, <1>2, <1>3 DEF IInv

\* An eviction takes the oldest file and keeps the rest.
LEMMA EnqueueEvictIInv == ASSUME NEW w \in Writers PROVE IInv /\ EnqueueEvict(w) => IInv'
<1> SUFFICES ASSUME IInv, EnqueueEvict(w) PROVE IInv'
  OBVIOUS
<1>0. /\ UNCHANGED <<phase, accepted, eventChan, buffer, hand, draining, pc, peeked, idSet, enroll,
                     stream, wire, sent, ingested, faults>>
      /\ disk # <<>> /\ disk' = Tail(disk)
  BY DEF EnqueueEvict, memory, network, outcome
<1>1. disk \in Seq(File) /\ disk' \in Seq(File)
  BY <1>0 DEF IInv, TypeOK
<1>2. Len(disk') = Len(disk) - 1 /\ \A i \in 1..Len(disk') : i + 1 \in 1..Len(disk) /\ disk'[i] = disk[i + 1]
  BY <1>0, <1>1
<1>3. TypeOK'
  BY <1>0, <1>1 DEF IInv, TypeOK
<1>4. Cut' = Cut
  BY <1>0 DEF Cut
<1>5. PendingRun' /\ Carrying'
  BY <1>0, <1>4 DEF IInv, PendingRun, Carrying
<1>6. BatchesBelow'
  BY <1>0, <1>2, <1>4 DEF IInv, BatchesBelow
<1>7. BatchesApart'
  <2>1. \A i, j \in 1..Len(disk') : i # j => i + 1 # j + 1
    OBVIOUS
  <2> QED
    BY <1>0, <1>2, <2>1 DEF IInv, BatchesApart
<1> QED
  BY <1>3, <1>5, <1>6, <1>7 DEF IInv

\* A goroutine that leaves Enqueue is empty-handed.
LEMMA AfterEnqueueIInv ==
    ASSUME IInv, NEW w \in Writers, AfterEnqueue(w), pc[w] = "locked"
    PROVE  /\ UNCHANGED <<phase, eventChan, buffer, accepted, draining, peeked, idSet, enroll, stream,
                          wire, sent, ingested>>
           /\ hand' \in [Writers -> File] /\ hand'[w] = NoFile
           /\ \A v \in Writers : v # w => hand'[v] = hand[v]
           /\ pc' \in [Routines -> {"loop", "enqueue", "locked", "send", "remove", "done"}]
           /\ Cut' = Cut /\ PendingRun' /\ Carrying'
<1>0. UNCHANGED <<phase, eventChan, buffer, accepted, draining, peeked, idSet, enroll, stream,
                  wire, sent, ingested>>
  BY DEF AfterEnqueue, network, outcome
<1>1. /\ hand' \in [Writers -> File] /\ hand'[w] = NoFile
      /\ \A v \in Writers : v # w => hand'[v] = hand[v]
  BY NoFileIsEmpty DEF AfterEnqueue, IInv, TypeOK
<1>2. /\ pc' \in [Routines -> {"loop", "enqueue", "locked", "send", "remove", "done"}]
      /\ pc'[w] \in {"loop", "done"}
      /\ \A v \in Writers : v # w => pc'[v] = pc[v]
      /\ pc'["processor"] = pc["processor"]
  BY DEF AfterEnqueue, IInv, TypeOK, Writers, Routines
<1>3. Cut' = Cut
  BY <1>0 DEF Cut
<1>4. PendingRun'
  BY <1>0, <1>3 DEF IInv, PendingRun
<1>5. Carrying'
  BY <1>0, <1>1, <1>2, NoFileIsEmpty DEF IInv, Carrying
<1> QED
  BY <1>0, <1>1, <1>2, <1>3, <1>4, <1>5

\* An empty batch is trivially a run and apart from every batch.
LEMMA EmptyBatch ==
    ASSUME NEW c PROVE RunUpTo(NoFile, c) /\ \A g : Apart(NoFile, g) /\ Apart(g, NoFile)
BY NoFileIsEmpty DEF RunUpTo, Apart

\* A failed Enqueue drops the batch in hand.
LEMMA EnqueueFailIInv == ASSUME NEW w \in Writers PROVE IInv /\ EnqueueFail(w) => IInv'
<1> SUFFICES ASSUME IInv, EnqueueFail(w) PROVE IInv'
  OBVIOUS
<1>0. pc[w] = "locked" /\ AfterEnqueue(w) /\ disk' = disk /\ faults' = faults + 1
  BY DEF EnqueueFail, Fault
<1>1. /\ UNCHANGED <<phase, eventChan, buffer, accepted, draining, peeked, idSet, enroll, stream,
                     wire, sent, ingested>>
      /\ hand' \in [Writers -> File] /\ hand'[w] = NoFile
      /\ \A v \in Writers : v # w => hand'[v] = hand[v]
      /\ pc' \in [Routines -> {"loop", "enqueue", "locked", "send", "remove", "done"}]
      /\ Cut' = Cut /\ PendingRun' /\ Carrying'
  BY <1>0, AfterEnqueueIInv
<1>2. TypeOK'
  BY <1>0, <1>1 DEF IInv, TypeOK
<1>3. BatchesBelow'
  BY <1>0, <1>1, EmptyBatch DEF IInv, BatchesBelow
<1>4. BatchesApart'
  BY <1>0, <1>1, EmptyBatch DEF IInv, BatchesApart, Writers
<1> QED
  BY <1>1, <1>2, <1>3, <1>4 DEF IInv

\* A written batch moves from the hand to the queue, wherever its name sorts it.
LEMMA EnqueueWriteIInv == ASSUME NEW w \in Writers PROVE IInv /\ EnqueueWrite(w) => IInv'
<1> SUFFICES ASSUME IInv, EnqueueWrite(w) PROVE IInv'
  OBVIOUS
<1>0. pc[w] = "locked" /\ AfterEnqueue(w) /\ faults' = faults
  BY DEF EnqueueWrite
<1>1. /\ UNCHANGED <<phase, eventChan, buffer, accepted, draining, peeked, idSet, enroll, stream,
                     wire, sent, ingested>>
      /\ hand' \in [Writers -> File] /\ hand'[w] = NoFile
      /\ \A v \in Writers : v # w => hand'[v] = hand[v]
      /\ pc' \in [Routines -> {"loop", "enqueue", "locked", "send", "remove", "done"}]
      /\ Cut' = Cut /\ PendingRun' /\ Carrying'
  BY <1>0, AfterEnqueueIInv
<1>2. PICK k \in 1..(Len(disk) + 1) : disk' = InsertAt(disk, k, hand[w])
  BY DEF EnqueueWrite
<1>3. disk \in Seq(File) /\ Len(disk) \in Nat /\ hand[w] \in File /\ hand[w].events # <<>>
  BY <1>0 DEF IInv, TypeOK, Carrying
<1>4. /\ disk' \in Seq(File) /\ Len(disk') = Len(disk) + 1
      /\ \A i \in 1..(Len(disk) + 1) :
           disk'[i] = IF i < k THEN disk[i] ELSE IF i = k THEN hand[w] ELSE disk[i - 1]
  <2>1. IsInsertion(disk', File, disk, k, hand[w])
    BY <1>2, <1>3, InsertAtProperties
  <2> QED
    BY <2>1 DEF IsInsertion
<1> DEFINE old(i) == IF i < k THEN i ELSE i - 1
<1>5. /\ disk'[k] = hand[w]
      /\ \A i \in 1..Len(disk') : i # k => old(i) \in 1..Len(disk) /\ disk'[i] = disk[old(i)]
      /\ \A i, j \in 1..Len(disk') : i # k /\ j # k /\ i # j => old(i) # old(j)
  BY <1>3, <1>4
<1> HIDE DEF old
<1>6. TypeOK'
  BY <1>0, <1>1, <1>4 DEF IInv, TypeOK
<1>7. BatchesBelow'
  BY <1>1, <1>3, <1>5, EmptyBatch DEF IInv, BatchesBelow
<1>8. BatchesApart'
  <2>1. \A f, g : Apart(f, g) => Apart(g, f)
    BY DEF Apart
  <2>2. \A i, j \in 1..Len(disk') : i # j => Apart(disk'[i], disk'[j])
    BY <1>5, <2>1 DEF IInv, BatchesApart
  <2>3. \A v \in Writers : v # w => Apart(hand[v], hand[w])
    BY <2>1 DEF IInv, BatchesApart, Writers
  <2>4. \A v \in Writers, i \in 1..Len(disk') : Apart(hand'[v], disk'[i])
    BY <1>1, <1>5, <2>3, EmptyBatch DEF IInv, BatchesApart
  <2>5. Apart(hand'["batcher"], hand'["ticker"])
    BY <1>1, EmptyBatch DEF IInv, BatchesApart, Writers
  <2> QED
    BY <2>2, <2>4, <2>5 DEF BatchesApart
<1> QED
  BY <1>1, <1>6, <1>7, <1>8 DEF IInv

\* Peeking copies a queued batch, sending records it, removing drops it.
LEMMA ProcessorIInv == IInv /\ Processor => IInv'
<1> SUFFICES ASSUME IInv, Processor PROVE IInv'
  OBVIOUS
<1> USE DEF memory, network, outcome
<1>t. /\ pc \in [Routines -> {"loop", "enqueue", "locked", "send", "remove", "done"}]
      /\ disk \in Seq(File) /\ peeked \in File /\ sent \subseteq File /\ wire \in Seq(File)
  BY DEF IInv, TypeOK
<1>p. ASSUME NEW p \in {"loop", "send", "remove", "done"}, pc' = [pc EXCEPT !["processor"] = p]
      PROVE  /\ pc' \in [Routines -> {"loop", "enqueue", "locked", "send", "remove", "done"}]
             /\ pc'["processor"] = p /\ \A w \in Writers : pc'[w] = pc[w]
  BY <1>t, <1>p DEF Writers, Routines
<1>1. CASE ProcessorPeek
  <2>0. /\ UNCHANGED <<phase, accepted, eventChan, buffer, hand, draining, disk, idSet, enroll, stream,
                       wire, sent, ingested, faults>>
        /\ disk # <<>> /\ peeked' = Head(disk) /\ pc' = [pc EXCEPT !["processor"] = "send"]
    BY <1>1 DEF ProcessorPeek
  <2>1. 1 \in 1..Len(disk) /\ peeked' = disk[1] /\ peeked' \in File
    BY <1>t, <2>0
  <2>2. Cut' = Cut
    BY <2>0 DEF Cut
  <2>3. TypeOK'
    BY <1>p, <2>0, <2>1 DEF IInv, TypeOK
  <2>4. PendingRun' /\ BatchesApart'
    BY <2>0, <2>2 DEF IInv, PendingRun, BatchesApart
  <2>5. BatchesBelow'
    BY <2>0, <2>1, <2>2 DEF IInv, BatchesBelow
  <2>6. Carrying'
    BY <1>p, <2>0, <2>1 DEF IInv, Carrying, BatchesBelow
  <2> QED
    BY <2>3, <2>4, <2>5, <2>6 DEF IInv
<1>2. CASE ProcessorIdle
  BY <1>2 DEF ProcessorIdle, vars, IInv, TypeOK, PendingRun, BatchesBelow, BatchesApart, Carrying, Cut
<1>3. CASE ProcessorSend
  <2>0. /\ UNCHANGED <<phase, accepted, eventChan, buffer, hand, draining, disk, peeked, idSet, enroll,
                       stream, ingested, faults>>
        /\ wire' \in {wire, Append(wire, peeked)} /\ sent' = sent \cup {peeked}
        /\ pc["processor"] = "send" /\ pc' = [pc EXCEPT !["processor"] = "remove"]
    BY <1>3 DEF ProcessorSend
  <2>1. wire' \in Seq(File) /\ sent' \subseteq File
    BY <1>t, <2>0
  <2>2. Cut' = Cut
    BY <2>0 DEF Cut
  <2>3. TypeOK'
    BY <1>p, <2>0, <2>1 DEF IInv, TypeOK
  <2>4. PendingRun' /\ BatchesApart'
    BY <2>0, <2>2 DEF IInv, PendingRun, BatchesApart
  <2>5. BatchesBelow'
    BY <2>0, <2>2 DEF IInv, BatchesBelow, Carrying
  <2>6. Carrying'
    BY <1>p, <2>0 DEF IInv, Carrying
  <2> QED
    BY <2>3, <2>4, <2>5, <2>6 DEF IInv
<1>r. ASSUME UNCHANGED <<phase, accepted, eventChan, buffer, hand, draining, idSet, enroll, stream, wire,
                         sent, ingested>>,
             pc' = [pc EXCEPT !["processor"] = "loop"], peeked' = NoFile, faults' \in Nat,
             disk' = disk
      PROVE  IInv'
  <2>1. Cut' = Cut
    BY <1>r DEF Cut
  <2>2. TypeOK'
    BY <1>p, <1>r, NoFileIsEmpty DEF IInv, TypeOK
  <2>3. PendingRun' /\ BatchesApart'
    BY <1>r, <2>1 DEF IInv, PendingRun, BatchesApart
  <2>4. BatchesBelow'
    BY <1>r, <2>1, EmptyBatch DEF IInv, BatchesBelow
  <2>5. Carrying'
    BY <1>p, <1>r DEF IInv, Carrying
  <2> QED
    BY <2>2, <2>3, <2>4, <2>5 DEF IInv
<1>4. CASE ProcessorSendError
  BY <1>4, <1>r DEF ProcessorSendError, IInv, TypeOK
<1>5. CASE ProcessorRemove
  <2>0. /\ UNCHANGED <<phase, accepted, eventChan, buffer, hand, draining, idSet, enroll, stream,
                       wire, sent, ingested, faults>>
        /\ peeked' = NoFile /\ pc' = [pc EXCEPT !["processor"] = "loop"]
    BY <1>5 DEF ProcessorRemove
  <2>1. PICK k \in 1..Len(disk) : disk' = RemoveAt(disk, k)
    BY <1>5, <1>t DEF ProcessorRemove
  <2>2. /\ disk' \in Seq(File) /\ Len(disk') = Len(disk) - 1
        /\ \A i \in 1..(Len(disk) - 1) : disk'[i] = IF i < k THEN disk[i] ELSE disk[i + 1]
    BY <1>t, <2>1, RemoveAtProperties
  <2> DEFINE old(i) == IF i < k THEN i ELSE i + 1
  <2>3. /\ \A i \in 1..Len(disk') : old(i) \in 1..Len(disk) /\ disk'[i] = disk[old(i)]
        /\ \A i, j \in 1..Len(disk') : i # j => old(i) # old(j)
    BY <1>t, <2>2
  <2> HIDE DEF old
  <2>4. Cut' = Cut
    BY <2>0 DEF Cut
  <2>5. TypeOK'
    BY <1>p, <2>0, <2>2, NoFileIsEmpty DEF IInv, TypeOK
  <2>6. PendingRun'
    BY <2>0, <2>4 DEF IInv, PendingRun
  <2>7. BatchesBelow'
    BY <2>0, <2>3, <2>4, EmptyBatch DEF IInv, BatchesBelow
  <2>8. BatchesApart'
    BY <2>0, <2>3 DEF IInv, BatchesApart
  <2>9. Carrying'
    BY <1>p, <2>0 DEF IInv, Carrying
  <2> QED
    BY <2>5, <2>6, <2>7, <2>8, <2>9 DEF IInv
<1>6. CASE ProcessorRemoveError
  <2>1. faults' \in Nat
    BY <1>6 DEF ProcessorRemoveError, Fault, IInv, TypeOK
  <2> QED
    BY <1>6, <1>r, <2>1 DEF ProcessorRemoveError
<1>7. CASE ProcessorStop
  <2>0. /\ UNCHANGED <<phase, accepted, eventChan, buffer, hand, draining, disk, peeked, idSet, enroll,
                       stream, wire, sent, ingested, faults>>
        /\ pc' = [pc EXCEPT !["processor"] = "done"]
    BY <1>7 DEF ProcessorStop
  <2>1. TypeOK'
    BY <1>p, <2>0 DEF IInv, TypeOK
  <2>2. PendingRun' /\ BatchesBelow' /\ BatchesApart'
    BY <2>0, DataFrame
  <2>3. Carrying'
    BY <1>p, <2>0 DEF IInv, Carrying
  <2> QED
    BY <2>1, <2>2, <2>3 DEF IInv
<1> QED
  BY <1>1, <1>2, <1>3, <1>4, <1>5, <1>6, <1>7 DEF Processor

\* The stream, the re-enrolment and Stop's first two steps touch no batch in the agent.
LEMMA NetworkIInv ==
    IInv /\ (StreamRoutine \/ BreakStream \/ ServerReceive \/ Reject \/ StopCancel \/ StopClose) => IInv'
<1> SUFFICES ASSUME IInv,
                    StreamRoutine \/ BreakStream \/ ServerReceive \/ Reject \/ StopCancel \/ StopClose
             PROVE  IInv'
  OBVIOUS
<1> USE DEF memory, network, outcome, Fault
<1>1. UNCHANGED <<accepted, pc, eventChan, buffer, hand, draining, disk, peeked, sent>>
  BY DEF StreamRoutine, OpenStream, NoticeBreak, ReEnroll, BreakStream, ServerReceive, Reject,
         StopCancel, StopClose
<1>2. /\ phase' \in {"running", "cancelled", "closed", "down"} /\ faults' \in Nat
      /\ idSet' \in BOOLEAN /\ enroll' \in {"idle", "wiped", "done", "failed", "stuck"}
      /\ stream' \in {"nil", "open", "broken"}
  <2>0. /\ phase \in {"running", "cancelled", "closed", "down"} /\ faults \in Nat
        /\ idSet \in BOOLEAN /\ enroll \in {"idle", "wiped", "done", "failed", "stuck"}
        /\ stream \in {"nil", "open", "broken"}
    BY DEF IInv, TypeOK
  <2>1. CASE StreamRoutine
    BY <2>0, <2>1 DEF StreamRoutine, OpenStream, NoticeBreak, ReEnroll
  <2>2. CASE BreakStream \/ ServerReceive
    BY <2>0, <2>2 DEF BreakStream, ServerReceive
  <2>3. CASE Reject
    <3>1. faults' \in Nat /\ UNCHANGED <<phase, stream>>
      BY <2>0, <2>3 DEF Reject
    <3>2. /\ idSet' \in {idSet, FALSE}
          /\ enroll' \in {"wiped", "stuck"}
      BY <2>3 DEF Reject
    <3> QED
      BY <2>0, <3>1, <3>2
  <2>4. CASE StopCancel \/ StopClose
    BY <2>0, <2>4 DEF StopCancel, StopClose
  <2> QED
    BY <2>1, <2>2, <2>3, <2>4
<1>3. wire' \in Seq(File) /\ ingested' \subseteq File
  <2>1. wire \in Seq(File) /\ ingested \subseteq File
    BY DEF IInv, TypeOK
  <2>2. CASE ServerReceive
    <3>1. Head(wire) \in File /\ Tail(wire) \in Seq(File)
      BY <2>1, <2>2 DEF ServerReceive
    <3> QED
      BY <2>1, <2>2, <3>1 DEF ServerReceive
  <2>3. CASE ~ServerReceive
    <3>1. wire' \in {wire, <<>>} /\ ingested' = ingested
      BY <2>3 DEF StreamRoutine, OpenStream, NoticeBreak, ReEnroll, BreakStream, Reject, StopCancel, StopClose
    <3>2. <<>> \in Seq(File)
      OBVIOUS
    <3> QED
      BY <2>1, <3>1, <3>2
  <2> QED
    BY <2>2, <2>3
<1>4. TypeOK'
  BY <1>1, <1>2, <1>3 DEF IInv, TypeOK
<1>5. PendingRun' /\ BatchesBelow' /\ BatchesApart'
  BY <1>1, DataFrame
<1>6. Carrying'
  BY <1>1 DEF IInv, Carrying
<1> QED
  BY <1>4, <1>5, <1>6 DEF IInv

\* The end of the process moves Cut up to everything accepted; the queue stays as it is.
LEMMA ProcessEndsIInv == IInv /\ (StopExit \/ Crash \/ CollectorPanic) => IInv'
<1> SUFFICES ASSUME IInv, StopExit \/ Crash \/ CollectorPanic PROVE IInv'
  OBVIOUS
<1>1. ProcessEnds /\ faults' \in Nat
  BY DEF StopExit, Crash, CollectorPanic, Fault, IInv, TypeOK
<1>2. /\ UNCHANGED <<accepted, disk, idSet, enroll, sent, ingested>>
      /\ eventChan' = <<>> /\ buffer' = <<>> /\ peeked' = NoFile /\ wire' = <<>>
      /\ hand' = [w \in Writers |-> NoFile] /\ pc' = [r \in Routines |-> "done"]
      /\ phase' = "down" /\ draining' = FALSE /\ stream' = "nil"
  BY <1>1 DEF ProcessEnds, outcome
<1>3. TypeOK'
  <2>1. /\ eventChan' \in Seq(Event) /\ Len(eventChan') <= BufferSize
        /\ buffer' \in Seq(Event) /\ Len(buffer') < BatchSize /\ wire' \in Seq(File)
    BY <1>2, PipelineAssumption
  <2>2. hand' \in [Writers -> File] /\ peeked' \in File
    BY <1>2, NoFileIsEmpty
  <2>3. pc' \in [Routines -> {"loop", "enqueue", "locked", "send", "remove", "done"}]
    BY <1>2
  <2> QED
    BY <1>1, <1>2, <2>1, <2>2, <2>3 DEF IInv, TypeOK
<1>4. accepted \in Nat /\ Len(eventChan) \in Nat /\ Len(buffer) \in Nat
  BY DEF IInv, TypeOK
<1>5. Cut' = accepted /\ Cut \in Nat /\ Cut <= Cut' /\ Cut' \in Nat
  BY <1>2, <1>4 DEF Cut, IInv, PendingRun
<1>6. PendingRun'
  BY <1>2, <1>5 DEF PendingRun
<1>7. BatchesBelow'
  <2>1. \A i \in 1..Len(disk) : disk[i] \in File
    BY DEF IInv, TypeOK
  <2>2. \A i \in 1..Len(disk) : disk[i].events # <<>> /\ RunUpTo(disk[i], Cut')
    BY <1>5, <2>1, RunProperties DEF IInv, BatchesBelow
  <2>3. \A f \in sent : f.events # <<>> /\ RunUpTo(f, Cut')
    BY <1>5, RunProperties DEF IInv, BatchesBelow, TypeOK
  <2> QED
    BY <1>2, <2>2, <2>3, EmptyBatch DEF BatchesBelow
<1>8. BatchesApart'
  BY <1>2, EmptyBatch DEF IInv, BatchesApart, Writers
<1>9. Carrying'
  BY <1>2, NoFileIsEmpty DEF Carrying, Writers, Routines
<1> QED
  BY <1>3, <1>6, <1>7, <1>8, <1>9 DEF IInv
-----------------------------------------------------------------------------
(* The goroutines of a process that has ended are gone: Start finds every    *)
(* hand empty.                                                               *)

DownIsIdle == phase = "down" => \A w \in Writers : pc[w] = "done"

\* A goroutine takes its steps while the process is alive.
LEMMA DownIsIdleStep == DownIsIdle /\ [Next]_vars => DownIsIdle'
<1> SUFFICES ASSUME DownIsIdle, [Next]_vars PROVE DownIsIdle'
  OBVIOUS
<1> USE DEF memory, network, outcome
<1>1. CASE SubmitEvent \/ BreakStream \/ ServerReceive \/ Reject \/ StreamRoutine \/ UNCHANGED vars
  <2>1. UNCHANGED <<phase, pc>>
    BY <1>1 DEF SubmitEvent, BreakStream, ServerReceive, Reject, StreamRoutine, OpenStream,
                NoticeBreak, ReEnroll, vars
  <2> QED
    BY <2>1 DEF DownIsIdle
<1>2. CASE BatcherReceive \/ BatcherStop \/ TickerFlush \/ TickerStop
  <2>1. phase' # "down"
    BY <1>2 DEF BatcherReceive, BatcherStop, TickerFlush, TickerStop, Alive
  <2> QED
    BY <2>1 DEF DownIsIdle
<1>3. CASE Enqueue("batcher") \/ Enqueue("ticker")
  <2>1. phase' # "down"
    BY <1>3 DEF Enqueue, EnqueueLock, EnqueueEvict, EnqueueWrite, EnqueueFail, AfterEnqueue, Alive
  <2> QED
    BY <2>1 DEF DownIsIdle
<1>4. CASE Processor
  <2>1. phase' # "down"
    BY <1>4 DEF Processor, ProcessorPeek, ProcessorIdle, ProcessorSend, ProcessorSendError,
                ProcessorRemove, ProcessorRemoveError, ProcessorStop, Alive, vars
  <2> QED
    BY <2>1 DEF DownIsIdle
<1>5. CASE StopCancel \/ StopClose \/ Start
  <2>1. phase' # "down"
    BY <1>5 DEF StopCancel, StopClose, Start
  <2> QED
    BY <2>1 DEF DownIsIdle
<1>6. CASE StopExit \/ Crash \/ CollectorPanic
  <2>1. pc' = [r \in Routines |-> "done"]
    BY <1>6 DEF StopExit, Crash, CollectorPanic, ProcessEnds
  <2> QED
    BY <2>1 DEF DownIsIdle, Writers, Routines
<1> QED
  BY <1>1, <1>2, <1>3, <1>4, <1>5, <1>6 DEF Next, BatcherRoutine, TickerRoutine, StopRoutine

\* A new process has a new loop in every goroutine and the old queue.
LEMMA StartIInv == IInv /\ DownIsIdle /\ Start => IInv'
<1> SUFFICES ASSUME IInv, DownIsIdle, Start PROVE IInv'
  OBVIOUS
<1>1. /\ UNCHANGED <<accepted, eventChan, buffer, hand, draining, disk, peeked, stream, wire, sent,
                     ingested, faults>>
      /\ phase' = "running" /\ idSet' = TRUE /\ enroll' = "idle" /\ pc' = [r \in Routines |-> "loop"]
  BY DEF Start, memory, outcome
<1>2. TypeOK'
  <2>1. pc' \in [Routines -> {"loop", "enqueue", "locked", "send", "remove", "done"}]
    BY <1>1
  <2> QED
    BY <1>1, <2>1 DEF IInv, TypeOK
<1>3. PendingRun' /\ BatchesBelow' /\ BatchesApart'
  BY <1>1, DataFrame
<1>4. Carrying'
  <2>1. \A w \in Writers : hand[w].events = <<>>
    BY DEF Start, IInv, Carrying, DownIsIdle
  <2> QED
    BY <1>1, <2>1 DEF Carrying, Writers, Routines
<1> QED
  BY <1>2, <1>3, <1>4 DEF IInv

\* The induction step.
LEMMA NextIInv == IInv /\ DownIsIdle /\ [Next]_vars => IInv'
<1> SUFFICES ASSUME IInv, DownIsIdle, [Next]_vars PROVE IInv'
  OBVIOUS
<1>1. ASSUME NEW w \in Writers, Enqueue(w) PROVE IInv'
  BY <1>1, EnqueueLockIInv, EnqueueEvictIInv, EnqueueWriteIInv, EnqueueFailIInv DEF Enqueue
<1>2. CASE BatcherRoutine
  BY <1>1, <1>2, BatcherReceiveIInv, BatcherStopIInv DEF BatcherRoutine, Writers
<1>3. CASE TickerRoutine
  BY <1>1, <1>3, TickerIInv DEF TickerRoutine, Writers
<1>4. CASE StreamRoutine \/ BreakStream \/ ServerReceive \/ Reject \/ StopCancel \/ StopClose
  BY <1>4, NetworkIInv
<1>5. CASE StopExit \/ Crash \/ CollectorPanic
  BY <1>5, ProcessEndsIInv
<1>6. CASE UNCHANGED vars
  BY <1>6 DEF vars, IInv, TypeOK, PendingRun, BatchesBelow, BatchesApart, Carrying, Cut
<1> QED
  BY <1>2, <1>3, <1>4, <1>5, <1>6, SubmitIInv, ProcessorIInv, StartIInv DEF Next, StopRoutine

\* The inductive invariant holds in every reachable state.
THEOREM Invariance == Spec => [](IInv /\ DownIsIdle)
<1>1. Init => IInv /\ DownIsIdle
  BY InitIInv DEF Init, DownIsIdle
<1>2. (IInv /\ DownIsIdle) /\ [Next]_vars => (IInv /\ DownIsIdle)'
  BY NextIInv, DownIsIdleStep
<1> QED
  BY <1>1, <1>2, PTL DEF Spec
-----------------------------------------------------------------------------
(* The properties that the runs check, for every value of the constants.     *)

\* Every variable keeps its type; in particular the channel never exceeds its
\* capacity and the buffer is always cut before it reaches BatchSize.
THEOREM TypeCorrect == Spec => []TypeOK
BY Invariance, PTL DEF IInv

\* An event is in at most one batch, whichever of runBatcher and runSender cuts
\* it, and it has then left the channel and the buffer.
THEOREM EventsBatchedOnce == Spec => []OneBatchPerEvent
<1>1. IInv => OneBatchPerEvent
  <2> SUFFICES ASSUME IInv PROVE OneBatchPerEvent
    OBVIOUS
  <2>t. /\ disk \in Seq(File) /\ hand \in [Writers -> File]
        /\ buffer \in Seq(Event) /\ eventChan \in Seq(Event)
    BY DEF IInv, TypeOK
  <2>a. \A f, g \in File : Apart(f, g) => ~Shares(f, g)
    BY DEF Apart, Shares, ToSet, File
  <2>1. \A i, j \in DOMAIN disk : i # j => ~Shares(disk[i], disk[j])
    BY <2>t, <2>a DEF IInv, BatchesApart
  <2>2. \A w \in Writers, i \in DOMAIN disk : ~Shares(hand[w], disk[i])
    BY <2>t, <2>a DEF IInv, BatchesApart
  <2>3. \A v, w \in Writers : v # w => ~Shares(hand[v], hand[w])
    <3>1. ~Shares(hand["batcher"], hand["ticker"])
      BY <2>t, <2>a DEF IInv, BatchesApart, Writers
    <3> QED
      BY <3>1 DEF Shares, Writers
  <2>4. ASSUME NEW f \in ToSet(disk) \cup {hand[w] : w \in Writers}
        PROVE  ToSet(f.events) \cap (ToSet(buffer) \cup ToSet(eventChan)) = {}
    <3>0. (\E i \in 1..Len(disk) : f = disk[i]) \/ (\E w \in Writers : f = hand[w])
      BY <2>t, ToSetProperties
    <3>1. f \in File /\ f.events \in Seq(Event) /\ f.events \in Seq(Nat)
      <4>1. f \in File
        BY <2>t, <3>0
      <4> QED
        BY <4>1 DEF File, Event
    <3>2. RunUpTo(f, Cut)
      BY <3>0 DEF IInv, BatchesBelow
    <3>3. \A e \in ToSet(f.events) : e \in Nat /\ e <= Cut
      BY <3>1, <3>2 DEF ToSet, RunUpTo
    <3>4. Cut \in Nat /\ Len(buffer) \in Nat
      BY <2>t DEF IInv, PendingRun
    <3>5. \A e \in ToSet(buffer) : e > Cut
      BY <2>t, <3>4 DEF ToSet, IInv, PendingRun
    <3>6. \A e \in ToSet(eventChan) : e > Cut
      BY <2>t, <3>4, SMTT(30) DEF ToSet, IInv, PendingRun
    <3> QED
      BY <3>3, <3>4, <3>5, <3>6
  <2> QED
    BY <2>1, <2>2, <2>3, <2>4 DEF OneBatchPerEvent
<1> QED
  BY <1>1, Invariance, PTL

\* A batch on the disk or on the wire is a gapless run of the accepted events.
THEOREM BatchesAreGapless == Spec => []BatchesAreRuns
<1>1. IInv => BatchesAreRuns
  <2> SUFFICES ASSUME IInv, NEW f \in ToSet(disk) \cup sent
               PROVE  f.events # <<>> /\ IsRun(f.events)
    BY DEF BatchesAreRuns
  <2>t. disk \in Seq(File) /\ sent \subseteq File
    BY DEF IInv, TypeOK
  <2>0. (\E i \in 1..Len(disk) : f = disk[i]) \/ f \in sent
    BY <2>t, ToSetProperties
  <2>1. f \in File /\ f.events \in Seq(Nat) /\ Len(f.events) \in Nat
    <3>1. f \in File
      BY <2>t, <2>0
    <3> QED
      BY <3>1 DEF File, Event
  <2>2. f.events # <<>> /\ RunUpTo(f, Cut)
    BY <2>0 DEF IInv, BatchesBelow
  <2>3. \A i \in 1..(Len(f.events) - 1) : f.events[i + 1] = f.events[i] + 1
    <3> TAKE i \in 1..(Len(f.events) - 1)
    <3>1. i \in 1..Len(f.events) /\ i + 1 \in 1..Len(f.events) /\ f.events[1] \in Nat
      BY <2>1
    <3>2. f.events[i] = f.events[1] + i - 1 /\ f.events[i + 1] = f.events[1] + (i + 1) - 1
      BY <2>2, <3>1 DEF RunUpTo
    <3> QED
      BY <3>1, <3>2
  <2> QED
    BY <2>2, <2>3 DEF IsRun
<1> QED
  BY <1>1, Invariance, PTL

\* A queued batch leaves the disk only after Send returned nil for it or as the
\* victim of an Enqueue without space: no crash, stop, restart or re-enrolment
\* loses a file.
THEOREM QueueIsDurable == Spec => DurableUntilSent
<1> DEFINE Justified ==
      \A f \in ToSet(disk) \ ToSet(disk') :
         f \in sent \/ (f = Head(disk) /\ \E w \in Writers : pc[w] = "locked" /\ ~Fits(w))
<1>1. IInv /\ [Next]_vars => [Justified]_vars
  <2> SUFFICES ASSUME IInv, [Next]_vars PROVE Justified
    OBVIOUS
  <2>t. disk \in Seq(File)
    BY DEF IInv, TypeOK
  <2>1. CASE disk' = disk
    BY <2>1
  <2>2. ASSUME NEW w \in Writers, EnqueueEvict(w) PROVE Justified
    <3>1. disk # <<>> /\ disk' = Tail(disk) /\ pc[w] = "locked" /\ ~Fits(w)
      BY <2>2 DEF EnqueueEvict
    <3>2. ASSUME NEW i \in 1..Len(disk), i # 1 PROVE disk[i] \in ToSet(disk')
      <4>1. disk' \in Seq(File) /\ i - 1 \in 1..Len(disk') /\ disk'[i - 1] = disk[i]
        BY <2>t, <3>1, <3>2
      <4> QED
        BY <4>1, ToSetProperties
    <3>3. Head(disk) = disk[1]
      BY <2>t, <3>1
    <3>4. \A f \in ToSet(disk) \ ToSet(disk') : f = Head(disk)
      BY <2>t, <3>2, <3>3, ToSetProperties
    <3> QED
      BY <3>1, <3>4
  <2>3. ASSUME NEW w \in Writers, EnqueueWrite(w) PROVE Justified
    <3>1. PICK k \in 1..(Len(disk) + 1) : disk' = InsertAt(disk, k, hand[w])
      BY <2>3 DEF EnqueueWrite
    <3>2. hand[w] \in File
      BY DEF IInv, TypeOK
    <3> HIDE DEF Justified
    <3>3. /\ disk' \in Seq(File) /\ Len(disk') = Len(disk) + 1
          /\ \A i \in 1..(Len(disk) + 1) :
               disk'[i] = IF i < k THEN disk[i] ELSE IF i = k THEN hand[w] ELSE disk[i - 1]
      <4>1. IsInsertion(disk', File, disk, k, hand[w])
        BY <2>t, <3>1, <3>2, InsertAtProperties
      <4> QED
        BY <4>1 DEF IsInsertion
    <3>4. \A i \in 1..Len(disk) : \E j \in 1..Len(disk') : disk'[j] = disk[i]
      <4> TAKE i \in 1..Len(disk)
      <4>1. CASE i < k
        BY <2>t, <3>3, <4>1
      <4>2. CASE i >= k
        <5>1. i + 1 \in 1..(Len(disk) + 1) /\ ~(i + 1 < k) /\ i + 1 # k /\ (i + 1) - 1 = i
          BY <2>t, <4>2
        <5> QED
          BY <3>3, <5>1
      <4> QED
        BY <4>1, <4>2
    <3>5. ASSUME NEW f \in ToSet(disk) PROVE f \in ToSet(disk')
      <4>1. PICK i \in 1..Len(disk) : f = disk[i]
        BY <2>t, ToSetProperties
      <4>2. PICK j \in 1..Len(disk') : disk'[j] = f
        BY <3>4, <4>1
      <4>3. \A n \in 1..Len(disk') : disk'[n] \in ToSet(disk')
        BY <3>3, ToSetProperties
      <4> QED
        BY <4>2, <4>3
    <3> QED
      BY <3>5 DEF Justified
  <2>4. CASE ProcessorRemove
    <3>1. peeked \in sent
      BY <2>4 DEF ProcessorRemove, IInv, Carrying
    <3>2. PICK k \in 1..Len(disk) : disk[k] = peeked /\ disk' = RemoveAt(disk, k)
      BY <2>t, <2>4 DEF ProcessorRemove
    <3>3. /\ disk' \in Seq(File) /\ Len(disk') = Len(disk) - 1
          /\ \A i \in 1..(Len(disk) - 1) : disk'[i] = IF i < k THEN disk[i] ELSE disk[i + 1]
      BY <2>t, <3>2, RemoveAtProperties
    <3>4. \A i \in 1..Len(disk) : i # k => \E j \in 1..Len(disk') : disk'[j] = disk[i]
      <4> SUFFICES ASSUME NEW i \in 1..Len(disk), i # k
                   PROVE  \E j \in 1..Len(disk') : disk'[j] = disk[i]
        OBVIOUS
      <4>1. CASE i < k
        BY <2>t, <3>3, <4>1
      <4>2. CASE i > k
        <5>1. i - 1 \in 1..(Len(disk) - 1) /\ ~(i - 1 < k) /\ (i - 1) + 1 = i
          BY <2>t, <4>2
        <5> QED
          BY <3>3, <5>1
      <4> QED
        BY <4>1, <4>2
    <3>5. ASSUME NEW f \in ToSet(disk), f # peeked PROVE f \in ToSet(disk')
      <4>1. PICK i \in 1..Len(disk) : f = disk[i]
        BY <2>t, ToSetProperties
      <4>2. PICK j \in 1..Len(disk') : disk'[j] = f
        BY <3>2, <3>4, <3>5, <4>1
      <4>3. \A n \in 1..Len(disk') : disk'[n] \in ToSet(disk')
        BY <3>3, ToSetProperties
      <4> QED
        BY <4>2, <4>3
    <3> QED
      BY <3>1, <3>5
  <2>5. ASSUME NEW w \in Writers, EnqueueLock(w) \/ EnqueueFail(w) PROVE disk' = disk
    BY <2>5 DEF EnqueueLock, EnqueueFail
  <2>6. CASE \/ SubmitEvent \/ BatcherReceive \/ BatcherStop \/ TickerFlush \/ TickerStop
             \/ StreamRoutine \/ BreakStream \/ ServerReceive \/ Reject
    <3>1. disk' = disk
      BY <2>6 DEF SubmitEvent, BatcherReceive, BatcherStop, TickerFlush, TickerStop, StreamRoutine,
                  OpenStream, NoticeBreak, ReEnroll, BreakStream, ServerReceive, Reject
    <3> QED
      BY <2>1, <3>1
  <2>7. CASE \/ StopCancel \/ StopRoutine \/ Crash \/ CollectorPanic \/ Start \/ UNCHANGED vars
    <3>1. disk' = disk
      BY <2>7 DEF StopCancel, StopRoutine, StopClose, StopExit, Crash, CollectorPanic, ProcessEnds,
                  Start, vars
    <3> QED
      BY <2>1, <3>1
  <2>8. CASE Processor /\ ~ProcessorRemove
    <3>1. disk' = disk
      BY <2>8 DEF Processor, ProcessorPeek, ProcessorIdle, ProcessorSend, ProcessorSendError,
                  ProcessorRemoveError, ProcessorStop, vars
    <3> QED
      BY <2>1, <3>1
  <2>9. ASSUME NEW w \in Writers, Enqueue(w) PROVE Justified
    BY <2>1, <2>2, <2>3, <2>5, <2>9 DEF Enqueue
  <2> HIDE DEF Justified
  <2> QED
    BY <2>4, <2>6, <2>7, <2>8, <2>9 DEF Next, BatcherRoutine, TickerRoutine, Writers
<1>2. [][Justified]_vars => DurableUntilSent
  BY DEF DurableUntilSent
<1> HIDE DEF Justified
<1> QED
  BY <1>1, <1>2, Invariance, PTL DEF Spec
-----------------------------------------------------------------------------
(* The quota of the disk queue.                                              *)

\* The events a directory holds are finitely many.
LEMMA StoredProperties ==
    ASSUME NEW files \in Seq(File)
    PROVE  /\ \A x : x \in Stored(files) <=>
                 \E k \in 1..Len(files) : \E i \in 1..Len(files[k].events) : x = <<k, i>>
           /\ IsFiniteSet(Stored(files)) /\ TotalSize(files) \in Nat
<1>1. DOMAIN files = 1..Len(files) /\ Len(files) \in Nat
  OBVIOUS
<1>2. \A k \in 1..Len(files) : /\ DOMAIN files[k].events = 1..Len(files[k].events)
                               /\ Len(files[k].events) \in Nat
  <2>1. \A k \in 1..Len(files) : files[k] \in File
    OBVIOUS
  <2>2. \A k \in 1..Len(files) : files[k].events \in Seq(Event)
    BY <2>1 DEF File
  <2> QED
    BY <2>2
<1> DEFINE P == {{k} \X DOMAIN files[k].events : k \in DOMAIN files}
<1>3. \A x : x \in Stored(files) <=>
         \E k \in 1..Len(files) : \E i \in 1..Len(files[k].events) : x = <<k, i>>
  BY <1>1, <1>2 DEF Stored
<1>4. IsFiniteSet(Stored(files))
  <2> DEFINE top == [k \in 1..Len(files) |-> {k} \X (1..Len(files[k].events))]
  <2>1. P = {top[k] : k \in 1..Len(files)}
    BY <1>1, <1>2
  <2>2. IsFiniteSet(1..Len(files))
    BY <1>1, FS_Interval
  <2>3. top \in Surjection(1..Len(files), P)
    BY <2>1 DEF Surjection
  <2>4. IsFiniteSet(P)
    BY <2>2, <2>3, FS_Surjection
  <2>5. ASSUME NEW T \in P PROVE IsFiniteSet(T)
    <3>1. PICK k \in 1..Len(files) : T = {k} \X (1..Len(files[k].events))
      BY <1>1, <1>2
    <3>2. IsFiniteSet({k})
      BY FS_Singleton
    <3>3. 1 \in Int /\ Len(files[k].events) \in Int
      BY <1>2
    <3>4. IsFiniteSet(1..Len(files[k].events))
      BY <3>3, FS_Interval
    <3> QED
      BY <3>1, <3>2, <3>4, FS_Product
  <2> QED
    BY <2>4, <2>5, FS_UNION DEF Stored
<1> QED
  BY <1>3, <1>4, FS_CardinalityType DEF TotalSize

\* Files taken out of the directory, whichever, make it no larger.
LEMMA FewerFiles ==
    ASSUME NEW old \in Seq(File), NEW new \in Seq(File), NEW g \in [1..Len(new) -> 1..Len(old)],
           \A k, l \in 1..Len(new) : g[k] = g[l] => k = l,
           \A k \in 1..Len(new) : new[k] = old[g[k]]
    PROVE  TotalSize(new) <= TotalSize(old)
<1> DEFINE f == [x \in Stored(new) |-> <<g[x[1]], x[2]>>]
<1>1. \A x : x \in Stored(new) <=>
         \E k \in 1..Len(new) : \E i \in 1..Len(new[k].events) : x = <<k, i>>
  BY StoredProperties
<1>2. \A x : x \in Stored(old) <=>
         \E k \in 1..Len(old) : \E i \in 1..Len(old[k].events) : x = <<k, i>>
  BY StoredProperties
<1>3. \A x \in Stored(new) : f[x] \in Stored(old)
  BY <1>1, <1>2, SMTT(30)
<1>4. \A x, y \in Stored(new) : f[x] = f[y] => x = y
  BY <1>1, SMTT(30)
<1>5. f \in Injection(Stored(new), Stored(old))
  BY <1>3, <1>4 DEF Injection, IsInjective
<1> QED
  BY <1>5, StoredProperties, FS_Injection DEF TotalSize

\* A new file adds no more than its own size.
LEMMA OneMoreFile ==
    ASSUME NEW old \in Seq(File), NEW e \in File, NEW k \in 1..(Len(old) + 1), NEW new,
           IsInsertion(new, File, old, k, e)
    PROVE  TotalSize(new) <= TotalSize(old) + Len(e.events)
<1> DEFINE n == Len(e.events)
           E == {0} \X (1..n)
           f == [x \in Stored(new) |->
                   IF x[1] < k THEN x ELSE IF x[1] = k THEN <<0, x[2]>> ELSE <<x[1] - 1, x[2]>>]
<1>1. new \in Seq(File) /\ Len(new) = Len(old) + 1 /\ n \in Nat /\ Len(old) \in Nat /\ k \in Nat
  BY DEF IsInsertion, File
<1>2. \A x : x \in Stored(new) <=>
         \E l \in 1..Len(new) : \E i \in 1..Len(new[l].events) : x = <<l, i>>
  BY <1>1, StoredProperties
<1>3. \A x : x \in Stored(old) <=>
         \E l \in 1..Len(old) : \E i \in 1..Len(old[l].events) : x = <<l, i>>
  BY StoredProperties
<1>4. ASSUME NEW x \in Stored(new) PROVE f[x] \in Stored(old) \cup E
  <2>1. PICK l \in 1..Len(new) : \E i \in 1..Len(new[l].events) : x = <<l, i>>
    BY <1>2
  <2>2. PICK i \in 1..Len(new[l].events) : x = <<l, i>>
    BY <2>1
  <2>3. CASE l < k
    <3>1. l \in 1..Len(old) /\ new[l] = old[l] /\ f[x] = x
      BY <1>1, <2>2, <2>3 DEF IsInsertion
    <3> QED
      BY <1>3, <2>2, <3>1
  <2>4. CASE l = k
    <3>1. new[l] = e /\ f[x] = <<0, i>> /\ i \in 1..n
      BY <1>1, <2>2, <2>4 DEF IsInsertion
    <3> QED
      BY <3>1
  <2>5. CASE l > k
    <3>1. l - 1 \in 1..Len(old) /\ new[l] = old[l - 1] /\ f[x] = <<l - 1, i>>
      BY <1>1, <2>2, <2>5 DEF IsInsertion
    <3> QED
      BY <1>3, <2>2, <3>1
  <2> QED
    BY <1>1, <2>3, <2>4, <2>5
<1>5. ASSUME NEW x \in Stored(new), NEW y \in Stored(new), f[x] = f[y] PROVE x = y
  <2>1. PICK l \in 1..Len(new) : \E i \in 1..Len(new[l].events) : x = <<l, i>>
    BY <1>2
  <2>2. PICK i \in 1..Len(new[l].events) : x = <<l, i>>
    BY <2>1
  <2>3. PICK m \in 1..Len(new) : \E j \in 1..Len(new[m].events) : y = <<m, j>>
    BY <1>2
  <2>4. PICK j \in 1..Len(new[m].events) : y = <<m, j>>
    BY <2>3
  <2>5. /\ f[x] = IF l < k THEN <<l, i>> ELSE IF l = k THEN <<0, i>> ELSE <<l - 1, i>>
        /\ f[y] = IF m < k THEN <<m, j>> ELSE IF m = k THEN <<0, j>> ELSE <<m - 1, j>>
    BY <2>2, <2>4
  <2>6. l = m /\ i = j
    BY <1>1, <1>5, <2>5
  <2> QED
    BY <2>2, <2>4, <2>6
<1>6. f \in Injection(Stored(new), Stored(old) \cup E)
  BY <1>4, <1>5 DEF Injection, IsInjective
<1>7. IsFiniteSet(E) /\ Cardinality(E) = n
  <2>1. IsFiniteSet({0}) /\ Cardinality({0}) = 1
    BY FS_Singleton
  <2> HIDE DEF n
  <2>2. IsFiniteSet(1..n) /\ Cardinality(1..n) = n
    <3>1. 1 \in Int /\ n \in Int
      BY <1>1
    <3>2. IsFiniteSet(1..n) /\ Cardinality(1..n) = IF 1 > n THEN 0 ELSE n - 1 + 1
      BY <3>1, FS_Interval
    <3> QED
      BY <1>1, <3>2
  <2>3. IsFiniteSet(E) /\ Cardinality(E) = Cardinality({0}) * Cardinality(1..n)
    BY <2>1, <2>2, FS_Product
  <2> QED
    BY <1>1, <2>1, <2>2, <2>3
<1>8. IsFiniteSet(Stored(old)) /\ TotalSize(old) \in Nat /\ TotalSize(old) = Cardinality(Stored(old))
  BY StoredProperties DEF TotalSize
<1> HIDE DEF E, f, n
<1>9. /\ IsFiniteSet(Stored(old) \cup E)
      /\ Cardinality(Stored(old) \cup E) =
            Cardinality(Stored(old)) + Cardinality(E) - Cardinality(Stored(old) \cap E)
  BY <1>7, <1>8, FS_Union
<1>10. Cardinality(Stored(old) \cap E) \in Nat
  BY <1>8, FS_Intersection, FS_CardinalityType
<1>11. Cardinality(Stored(new)) <= Cardinality(Stored(old) \cup E) /\ Cardinality(Stored(new)) \in Nat
  BY <1>1, <1>6, <1>9, StoredProperties, FS_Injection DEF TotalSize
<1> QED
  BY <1>1, <1>7, <1>8, <1>9, <1>10, <1>11 DEF TotalSize, n

\* An empty directory holds nothing.
LEMMA EmptyDirectory == TotalSize(<<>>) = 0
<1>1. Stored(<<>>) = {}
  BY DEF Stored
<1> QED
  BY <1>1, FS_EmptySet DEF TotalSize

\* A step leaves the directory, takes one file out of it, or adds one that fits or finds
\* it empty.
LEMMA DiskSteps ==
    ASSUME TypeOK, [Next]_vars
    PROVE  \/ disk' = disk
           \/ disk # <<>> /\ disk' = Tail(disk)
           \/ \E k \in 1..Len(disk) : disk' = RemoveAt(disk, k)
           \/ \E w \in Writers, k \in 1..(Len(disk) + 1) :
                 (Fits(w) \/ disk = <<>>) /\ disk' = InsertAt(disk, k, hand[w])
<1> DEFINE G == \/ disk' = disk
                \/ disk # <<>> /\ disk' = Tail(disk)
                \/ \E k \in 1..Len(disk) : disk' = RemoveAt(disk, k)
                \/ \E w \in Writers, k \in 1..(Len(disk) + 1) :
                      (Fits(w) \/ disk = <<>>) /\ disk' = InsertAt(disk, k, hand[w])
<1>1. ASSUME NEW w \in Writers, EnqueueWrite(w) PROVE G
  BY <1>1 DEF EnqueueWrite
<1>2. ASSUME NEW w \in Writers, EnqueueEvict(w) PROVE G
  BY <1>2 DEF EnqueueEvict
<1>3. ASSUME ProcessorRemove PROVE G
  <2>1. DOMAIN disk = 1..Len(disk)
    BY DEF TypeOK
  <2> QED
    BY <1>3, <2>1 DEF ProcessorRemove
<1> QED
  BY <1>1, <1>2, <1>3 DEF Next, SubmitEvent, BatcherRoutine, BatcherReceive, BatcherStop,
     TickerRoutine, TickerFlush, TickerStop, Enqueue, EnqueueLock, EnqueueFail, AfterEnqueue,
     CreateBatch, Processor, ProcessorPeek, ProcessorIdle, ProcessorSend, ProcessorSendError,
     ProcessorRemoveError, ProcessorStop, StreamRoutine, OpenStream, NoticeBreak, ReEnroll,
     BreakStream, ServerReceive, Reject, StopCancel, StopRoutine, StopClose, StopExit,
     ProcessEnds, Crash, CollectorPanic, Start, vars, Writers

\* QuotaRespected is inductive over the types.
LEMMA QuotaStep == TypeOK /\ QuotaRespected /\ [Next]_vars => QuotaRespected'
<1> SUFFICES ASSUME TypeOK, QuotaRespected, [Next]_vars PROVE QuotaRespected'
  OBVIOUS
<1>1. disk \in Seq(File) /\ hand \in [Writers -> File] /\ Len(disk) \in Nat /\ QueueQuota \in Nat
  BY PipelineAssumption DEF TypeOK
<1>2. TotalSize(disk) \in Nat
  BY <1>1, StoredProperties
<1>3. CASE disk' = disk
  BY <1>3 DEF QuotaRespected
<1>4. ASSUME disk' \in Seq(File), TotalSize(disk') <= TotalSize(disk), Len(disk') = Len(disk) - 1,
             Len(disk) # 0
      PROVE  QuotaRespected'
  <2>1. TotalSize(disk') \in Nat
    BY <1>4, StoredProperties
  <2>2. CASE Len(disk) = 1
    <3>1. disk' = <<>>
      BY <1>4, <2>2
    <3> QED
      BY <1>1, <3>1, EmptyDirectory DEF QuotaRespected
  <2> QED
    BY <1>1, <1>2, <1>4, <2>1, <2>2 DEF QuotaRespected
<1>5. CASE disk # <<>> /\ disk' = Tail(disk)
  <2>1. /\ disk' \in Seq(File) /\ Len(disk') = Len(disk) - 1 /\ Len(disk) # 0
        /\ \A k \in 1..Len(disk') : disk'[k] = disk[k + 1]
    BY <1>1, <1>5
  <2> DEFINE g == [k \in 1..Len(disk') |-> k + 1]
  <2>2. /\ g \in [1..Len(disk') -> 1..Len(disk)]
        /\ \A k, l \in 1..Len(disk') : g[k] = g[l] => k = l
        /\ \A k \in 1..Len(disk') : disk'[k] = disk[g[k]]
    BY <1>1, <2>1
  <2> HIDE DEF g
  <2>3. TotalSize(disk') <= TotalSize(disk)
    BY <1>1, <2>1, <2>2, FewerFiles
  <2> QED
    BY <1>4, <2>1, <2>3
<1>6. ASSUME NEW k \in 1..Len(disk), disk' = RemoveAt(disk, k) PROVE QuotaRespected'
  <2>1. /\ disk' \in Seq(File) /\ Len(disk') = Len(disk) - 1 /\ Len(disk) # 0
        /\ \A i \in 1..(Len(disk) - 1) : disk'[i] = IF i < k THEN disk[i] ELSE disk[i + 1]
    <3>1. /\ RemoveAt(disk, k) \in Seq(File) /\ Len(RemoveAt(disk, k)) = Len(disk) - 1
          /\ \A i \in 1..(Len(disk) - 1) :
                RemoveAt(disk, k)[i] = IF i < k THEN disk[i] ELSE disk[i + 1]
      BY <1>1, RemoveAtProperties
    <3>2. Len(disk) # 0
      BY <1>1
    <3> QED
      BY <1>6, <3>1, <3>2
  <2> DEFINE g == [i \in 1..Len(disk') |-> IF i < k THEN i ELSE i + 1]
  <2>2. /\ g \in [1..Len(disk') -> 1..Len(disk)]
        /\ \A i, j \in 1..Len(disk') : g[i] = g[j] => i = j
        /\ \A i \in 1..Len(disk') : disk'[i] = disk[g[i]]
    BY <1>1, <2>1
  <2> HIDE DEF g
  <2>3. TotalSize(disk') <= TotalSize(disk)
    BY <1>1, <2>1, <2>2, FewerFiles
  <2> QED
    BY <1>4, <2>1, <2>3
<1>7. ASSUME NEW w \in Writers, NEW k \in 1..(Len(disk) + 1), Fits(w) \/ disk = <<>>,
             disk' = InsertAt(disk, k, hand[w])
      PROVE  QuotaRespected'
  <2>1. hand[w] \in File /\ Len(hand[w].events) \in Nat
    BY <1>1 DEF File
  <2>2. IsInsertion(disk', File, disk, k, hand[w])
    BY <1>1, <1>7, <2>1, InsertAtProperties
  <2>3. TotalSize(disk') <= TotalSize(disk) + Len(hand[w].events)
    BY <1>1, <2>1, <2>2, OneMoreFile
  <2>4. disk' \in Seq(File) /\ Len(disk') = Len(disk) + 1
    BY <2>2 DEF IsInsertion
  <2>5. TotalSize(disk') \in Nat
    BY <2>4, StoredProperties
  <2>6. CASE disk = <<>>
    BY <1>1, <2>4, <2>6 DEF QuotaRespected
  <2>7. CASE Fits(w)
    BY <1>1, <1>2, <2>1, <2>3, <2>5, <2>7 DEF Fits, QuotaRespected
  <2> QED
    BY <1>7, <2>6, <2>7
<1> QED
  BY DiskSteps, <1>3, <1>5, <1>6, <1>7

\* DiskQueue.Enqueue evicts the oldest files until the new one fits and holds the lock
\* meanwhile, so whichever goroutines enqueue, remove, fail or crash, the directory stays
\* within maxSizeBytes; only a single batch larger than the quota itself may exceed it.
THEOREM QueueWithinQuota == Spec => []QuotaRespected
<1>1. Init => QuotaRespected
  <2> SUFFICES ASSUME Init PROVE QuotaRespected
    OBVIOUS
  <2>1. TotalSize(disk) = 0 /\ QueueQuota \in Nat
    BY EmptyDirectory, PipelineAssumption DEF Init
  <2> QED
    BY <2>1 DEF QuotaRespected
<1> QED
  BY <1>1, QuotaStep, TypeCorrect, PTL DEF Spec
=============================================================================
