----------------------------- MODULE AgentFilter ----------------------------
(***************************************************************************)
(* The agent's event filter, shared by its collectors.  ShouldFilter holds *)
(* the read lock and counts with atomic adds; UpdateExclusions replaces    *)
(* four of the six lists under the write lock, one after the other; Stats  *)
(* loads the two counters one after the other, without the lock.  A path   *)
(* is the sequence of its parts, and the patterns have no wildcards.       *)
(***************************************************************************)
EXTENDS Integers, Sequences, SequencesExt, FiniteSets

CONSTANTS
    Collectors,
    Configs,     \* [processes, ips, registry, paths, include, ids, hashes]: sets
    Events,      \* [type, id, hash, name, path, ip, key], None where absent
    Word,        \* 2^64
    MaxEvents,   \* bound of the model: events judged
    None

VARIABLES
    lists,       \* the lists in force
    writer,      \* the config UpdateExclusions installs and the lists it has still to set
    judging,     \* the event each collector has inside ShouldFilter
    since,       \* the configs in force at some time since the collector went in
    total, filtered,
    stats,       \* what Stats has loaded and returned
    let          \* the events let through, with the configs of their time

vars == <<lists, writer, judging, since, total, filtered, stats, let>>

Lists == {"processes", "registry", "ids", "hashes"}
NoWriter == [config |-> None, left |-> {}]
NoStats == [total |-> None, passed |-> None]

TypeOK ==
    /\ writer.left \subseteq Lists
    /\ judging \in [Collectors -> Events \cup {None}]
    /\ filtered \in 0 .. MaxEvents /\ total \in 0 .. MaxEvents
    /\ stats.passed \in 0 .. Word - 1 \cup {None}

-----------------------------------------------------------------------------
(* One event against the lists.                                            *)

Clean(path) == SelectSeq(path, LAMBDA part : part # ".")

(* The path itself or what lies below it. *)
pathToRegex(pattern, path) == IsPrefix(pattern, path)

matchesExcludePath(path) == \E p \in lists.paths : pathToRegex(p, Clean(path))
matchesIncludePath(path) == \E p \in lists.include : pathToRegex(p, Clean(path))

filterByEventID(e) == e.id # None /\ e.id \in lists.ids

filterByTrustedHash(e) == e.hash # None /\ e.hash \in lists.hashes

filterProcess(e) ==
    /\ e.name # None
    /\ \/ e.name \in lists.processes
       \/ e.path # None /\ matchesExcludePath(e.path) /\ ~matchesIncludePath(e.path)

filterNetwork(e) == e.ip # None /\ (e.ip \in lists.ips \/ e.ip = "127.0.0.1")

filterRegistry(e) == e.key # None /\ e.key \in lists.registry

filterFile(e) == e.path # None /\ ~matchesIncludePath(e.path) /\ matchesExcludePath(e.path)

Filtered(e) ==
    \/ filterByEventID(e)
    \/ filterByTrustedHash(e)
    \/ e.type = "process" /\ filterProcess(e)
    \/ e.type = "network" /\ filterNetwork(e)
    \/ e.type = "registry" /\ filterRegistry(e)
    \/ e.type = "file" /\ filterFile(e)

-----------------------------------------------------------------------------
Init ==
    /\ lists \in Configs
    /\ writer = NoWriter
    /\ judging = [c \in Collectors |-> None] /\ since = [c \in Collectors |-> {}]
    /\ total = 0 /\ filtered = 0 /\ stats = NoStats /\ let = {}

(* Faulty variant: the filter is read without its lock. *)
EnterUnlocked(c, e) ==
    /\ judging[c] = None /\ total < MaxEvents
    /\ judging' = [judging EXCEPT ![c] = e]
    /\ since' = [since EXCEPT ![c] = {lists} \cup ({writer.config} \ {None})]
    /\ total' = total + 1
    /\ UNCHANGED <<lists, writer, filtered, stats, let>>

(* ShouldFilter: the read lock, and the first counter. *)
Enter(c, e) ==
    /\ judging[c] = None /\ total < MaxEvents
    /\ writer = NoWriter
    /\ judging' = [judging EXCEPT ![c] = e]
    /\ since' = [since EXCEPT ![c] = {lists}]
    /\ total' = total + 1
    /\ UNCHANGED <<lists, writer, filtered, stats, let>>

ShouldFilter(c) ==
    LET e == judging[c] IN
    /\ e # None
    /\ IF Filtered(e) THEN filtered' = filtered + 1 /\ UNCHANGED let
       ELSE let' = let \cup {<<e, since[c]>>} /\ UNCHANGED filtered
    /\ judging' = [judging EXCEPT ![c] = None]
    /\ since' = [since EXCEPT ![c] = {}]
    /\ UNCHANGED <<lists, writer, total, stats>>

(* UpdateExclusions: the write lock, then a list at a time. *)
UpdateBegins(config) ==
    /\ writer = NoWriter /\ \A c \in Collectors : judging[c] = None
    /\ config.processes # lists.processes \/ config.ids # lists.ids
    /\ writer' = [config |-> config, left |-> Lists]
    /\ UNCHANGED <<lists, judging, since, total, filtered, stats, let>>

(* A map is emptied and filled again. *)
UpdateExclusions(name) ==
    /\ name \in writer.left
    /\ \/ lists[name] # {} /\ lists[name] # writer.config[name]
          /\ lists' = [lists EXCEPT ![name] = {}] /\ UNCHANGED writer
       \/ lists[name] \in {{}, writer.config[name]}
          /\ lists' = [lists EXCEPT ![name] = writer.config[name]]
          /\ writer' = IF writer.left = {name} THEN NoWriter ELSE [writer EXCEPT !.left = @ \ {name}]
    /\ UNCHANGED <<judging, since, total, filtered, stats, let>>

(* Stats: one load, and the other. *)
LoadTotal ==
    /\ stats.total = None
    /\ stats' = [total |-> total, passed |-> None]
    /\ UNCHANGED <<lists, writer, judging, since, total, filtered, let>>

Stats ==
    /\ stats.total # None
    /\ stats' = [total |-> None, passed |-> (stats.total - filtered) % Word]
    /\ UNCHANGED <<lists, writer, judging, since, total, filtered, let>>

Next ==
    \/ \E c \in Collectors : ShouldFilter(c) \/ \E e \in Events : Enter(c, e)
    \/ (\E config \in Configs : UpdateBegins(config)) \/ \E name \in Lists : UpdateExclusions(name)
    \/ LoadTotal \/ Stats

Spec == Init /\ [][Next]_vars

-----------------------------------------------------------------------------
(***************************************************************************)
(* No event slips through an update: what every configuration in force     *)
(* while ShouldFilter ran excludes by its process name or its event id is  *)
(* not let through, although the update empties each list before it fills  *)
(* it again.                                                               *)
(***************************************************************************)
NothingSlipsThrough ==
    \A pair \in let : \E config \in pair[2] :
        pair[1].id \notin config.ids /\ (pair[1].type = "process" => pair[1].name \notin config.processes)

(***************************************************************************)
(* PassedEvents is a number of events judged.  Not so: the total is loaded *)
(* first, the events filtered before the second load may outnumber it, and *)
(* the difference is unsigned.                                             *)
(***************************************************************************)
PassedIsCounted == stats.passed # None => stats.passed <= total
=============================================================================
