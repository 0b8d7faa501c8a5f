----------------------------- MODULE DeadLetters ----------------------------
(***************************************************************************)
(* EventConsumer and the DLQMonitor built on it: one partition of the      *)
(* dead-letter topic is read in order, each message is given to the        *)
(* handler, whose error is only logged, and its offset is marked for the   *)
(* commit the reader writes at intervals.  A consumer that comes back      *)
(* starts at the committed offset.  An operator may replay an entry the    *)
(* monitor has reported.                                                   *)
(***************************************************************************)
EXTENDS Integers, FiniteSets

CONSTANTS
    MaxLetters,  \* dead letters written
    MaxCrashes,
    Oldest,      \* StartOffset is "oldest", as the monitor sets it
    None

VARIABLES
    written,     \* offsets 1 .. written are in the topic
    running, at, \* the next offset the reader fetches
    held,        \* the message the loop has, None between two
    marked,      \* CommitMessages has been called up to here
    committed,   \* -1: the group has no offset yet
    handled, failed,
    replayed,    \* how often each entry was sent again
    crashes

vars == <<written, running, at, held, marked, committed, handled, failed, replayed, crashes>>

Letters == 1 .. MaxLetters

TypeOK ==
    /\ written \in 0 .. MaxLetters /\ running \in BOOLEAN /\ at \in 0 .. MaxLetters + 1
    /\ held \in Letters \cup {None} /\ marked \in 0 .. MaxLetters /\ committed \in -1 .. MaxLetters
    /\ handled \subseteq Letters /\ failed \subseteq handled
    /\ replayed \in [Letters -> Nat] /\ crashes \in 0 .. MaxCrashes

Init ==
    /\ written \in 0 .. MaxLetters /\ running = FALSE /\ at = 0 /\ held = None
    /\ marked = 0 /\ committed = -1 /\ handled = {} /\ failed = {}
    /\ replayed = [l \in Letters |-> 0] /\ crashes = 0

(* The producer gives up on an event. *)
SendToDLQ ==
    /\ written < MaxLetters /\ written' = written + 1
    /\ UNCHANGED <<running, at, held, marked, committed, handled, failed, replayed, crashes>>

(* NewEventConsumer: a group without an offset starts at either end. *)
StartReader ==
    /\ ~running /\ running' = TRUE
    /\ at' = CASE committed >= 0 -> committed + 1
               [] committed < 0 /\ Oldest -> 1
               [] OTHER -> written + 1
    /\ UNCHANGED <<written, held, marked, committed, handled, failed, replayed, crashes>>

(* Faulty variant: the offset is marked when the message is fetched. *)
FetchMessageMarking ==
    /\ running /\ held = None /\ at <= written
    /\ held' = at /\ at' = at + 1 /\ marked' = at
    /\ UNCHANGED <<written, running, committed, handled, failed, replayed, crashes>>

FetchMessage ==
    /\ running /\ held = None /\ at <= written
    /\ held' = at /\ at' = at + 1
    /\ UNCHANGED <<written, running, marked, committed, handled, failed, replayed, crashes>>

(* The monitor's handler reports the entry. *)
Reported(l) == handled \cup {l}

(* The handler returns, with an error or without; either way the offset is
   marked.  CommitMessages does not fail for a reader with an interval. *)
Process ==
    /\ running /\ held # None
    /\ handled' = Reported(held)
    /\ failed' \in {failed, failed \cup {held}}
    /\ marked' = held /\ held' = None
    /\ UNCHANGED <<written, running, at, committed, replayed, crashes>>

(* Every CommitInterval the reader writes what is marked. *)
Commit ==
    /\ running /\ marked > 0 /\ committed # marked
    /\ committed' = marked
    /\ UNCHANGED <<written, running, at, held, marked, handled, failed, replayed, crashes>>

(* A crash, or a rebalance: what was not committed is read again. *)
Crash ==
    /\ running /\ crashes < MaxCrashes
    /\ crashes' = crashes + 1 /\ running' = FALSE /\ held' = None /\ at' = 0
    /\ marked' = IF committed > 0 THEN committed ELSE 0
    /\ UNCHANGED <<written, committed, handled, failed, replayed>>

(* Close writes the last marked offset. *)
Close ==
    /\ running /\ held = None /\ crashes < MaxCrashes
    /\ crashes' = crashes + 1 /\ running' = FALSE /\ at' = 0
    /\ committed' = IF marked > 0 THEN marked ELSE committed
    /\ UNCHANGED <<written, held, marked, handled, failed, replayed>>

(* ReplayDLQEntry, once for each report of the entry. *)
ReplayDLQEntry(l) ==
    /\ l \in handled /\ replayed[l] = 0
    /\ replayed' = [replayed EXCEPT ![l] = 1]
    /\ UNCHANGED <<written, running, at, held, marked, committed, handled, failed, crashes>>

Next ==
    \/ SendToDLQ \/ StartReader \/ FetchMessage \/ Process \/ Commit \/ Crash \/ Close
    \/ \E l \in Letters : ReplayDLQEntry(l)

Fairness == WF_vars(StartReader) /\ WF_vars(FetchMessage) /\ WF_vars(Process)

Spec == Init /\ [][Next]_vars /\ Fairness

(***************************************************************************)
(* The monitor's handler is given every dead letter, through crashes,      *)
(* restarts and commits that lag behind: no committed offset ever lies     *)
(* past a letter the handler has not had.                                  *)
(***************************************************************************)
NoLetterSkipped == Oldest => \A l \in Letters : l <= committed => l \in handled

(***************************************************************************)
(* A letter whose handler failed is given to it again.  Not so: its offset *)
(* is committed like any other.                                            *)
(***************************************************************************)
FailedIsKept == \A l \in failed : l > committed
=============================================================================
