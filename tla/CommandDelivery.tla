-------------------------- MODULE CommandDelivery ---------------------------
(***************************************************************************)
(* What the command routing promises whoever sends a command: the answer   *)
(* is final, a command that was refused never reaches the agent, and one   *)
(* that was dispatched reaches it once, over one of its streams, or is     *)
(* lost; what is lost does not turn up later.  CommandStream implements    *)
(* it, with registries, channels and goroutines.                           *)
(***************************************************************************)
EXTENDS Sequences

CONSTANTS Commands, Streams

VARIABLES
    fate,      \* of each command
    received   \* per stream: what the agent has received over it

vars == <<fate, received>>

Fates == {"unanswered", "refused", "underway", "delivered", "lost"}

Init ==
    /\ fate = [c \in Commands |-> "unanswered"]
    /\ received = [s \in Streams |-> <<>>]

Becomes(c, from, to) ==
    /\ fate[c] = from
    /\ fate' = [fate EXCEPT ![c] = to]

Refuse(c) == Becomes(c, "unanswered", "refused") /\ UNCHANGED received

Dispatch(c) == Becomes(c, "unanswered", "underway") /\ UNCHANGED received

Deliver(c, s) ==
    /\ Becomes(c, "underway", "delivered")
    /\ received' = [received EXCEPT ![s] = Append(@, c)]

Lose(c) == Becomes(c, "underway", "lost") /\ UNCHANGED received

Next ==
    \E c \in Commands :
        Refuse(c) \/ Dispatch(c) \/ Lose(c) \/ \E s \in Streams : Deliver(c, s)

Spec == Init /\ [][Next]_vars
=============================================================================
