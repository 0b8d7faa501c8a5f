----------------------------- MODULE SigmaStart -----------------------------
(***************************************************************************)
(* The start of the two Sigma programs, sigma-engine-kafka and             *)
(* sigma-engine-live: the settings they load (infrastructure/config), the  *)
(* rules they take from the rule cache or from the rule directory          *)
(* (pkg/rules/cache.go and each program's loadRules), and the parts the    *)
(* Kafka program starts.  Both name the same cache file by default.        *)
(*                                                                         *)
(* The directory is the number of the edit it stands at.  Rules are what   *)
(* they were made from: the edit, the products and, where the loader was   *)
(* given the filter, the quality, and whether there are some.  A file is   *)
(* an inode: a rename moves it under the cache's name while another        *)
(* program may still write into it.                                        *)
(***************************************************************************)
EXTENDS Integers, FiniteSets

CONSTANTS
    Programs,             \* a subset of {"kafka", "live"}
    Settings,             \* files the operator may have: None, or a record
    Cores,                \* runtime.NumCPU()
    None, Torn,
    MaxEdits, MaxStarts

VARIABLES
    pc,        \* per program: where main is
    cfg,       \* per program: the settings in force
    rules,     \* per program: the rules given to its engine, None before
    parts,     \* what the Kafka program has running
    file,      \* the operator's settings file
    dir,       \* edits of the rule directory so far
    inodes,    \* contents of the inodes: Torn, or a RuleCache
    tmp, cache,        \* the inode under each of the two names
    writes,    \* per program: the inode it holds open
    old,       \* the cache file is older than cache_max_age_hours
    starts

vars == <<pc, cfg, rules, parts, file, dir, inodes, tmp, cache, writes, old, starts>>
files == <<inodes, tmp, cache, writes, old>>
operator == <<file, dir>>

Set(f, x, v) == [f EXCEPT ![x] = v]

-----------------------------------------------------------------------------
(* LoadConfig.  A missing file is DefaultConfig; a file is read over zero  *)
(* values and ValidateAndSetDefaults puts the default where it left one.   *)

PositiveOrZero(n, default) == IF n < 0 THEN default ELSE n

Positive(n, default) == IF n <= 0 THEN default ELSE n

Given(v, default) == IF v = None THEN default ELSE v

Clamp(n) == IF n < 4 THEN 4 ELSE IF n > 32 THEN 32 ELSE n

ValidateAndSetDefaults(f) ==
    [ workers  |-> Positive(f.workers, Cores),
      cacheSize |-> Positive(f.cacheSize, 10000),
      loaders  |-> Positive(f.loaders, Clamp(4 * Cores)),
      products |-> Given(f.products, {"windows"}),
      quality  |-> Given(f.quality, "medium"),
      level    |-> Given(f.level, "info"),
      critical |-> f.critical ]

DefaultConfig ==
    [ workers |-> Cores, cacheSize |-> 10000, loaders |-> 32,
      products |-> {"windows"}, quality |-> "medium", level |-> "info",
      critical |-> TRUE ]

LoadConfig(f) == IF f = None THEN DefaultConfig ELSE ValidateAndSetDefaults(f)

\* Config.Validate, which the live program alone calls, looks the level up in
\* a map in which "debug" is there and false.
Validate(c) == c.level \in {"info", "warn", "error"}

-----------------------------------------------------------------------------
Init ==
    /\ pc = [p \in Programs |-> "down"]
    /\ cfg = [p \in Programs |-> None]
    /\ rules = [p \in Programs |-> None]
    /\ parts = {}
    /\ file \in Settings /\ dir = 0
    /\ inodes = <<>> /\ tmp = None /\ cache = None
    /\ writes = [p \in Programs |-> None] /\ old = FALSE /\ starts = 0

Start(p) ==
    /\ pc[p] \in {"down", "refused"} /\ starts < MaxStarts
    /\ starts' = starts + 1
    /\ cfg' = Set(cfg, p, LoadConfig(file))
    /\ rules' = Set(rules, p, None)
    /\ pc' = Set(pc, p, IF /\ p = "live" => Validate(LoadConfig(file))
                           /\ LoadConfig(file).cacheSize > 0
                        THEN "rules" ELSE "refused")
    /\ UNCHANGED <<parts, operator, files>>

\* The watch directory, the output file or the rule directory fail the live
\* program's checks: EnsureWatchDirectory, EnsureOutputFile, Validate.
LiveRefuses ==
    /\ "live" \in Programs /\ pc["live"] = "rules"
    /\ pc' = Set(pc, "live", "refused")
    /\ UNCHANGED <<cfg, rules, parts, operator, files, starts>>

-----------------------------------------------------------------------------
(* loadRules of either program, and the rule cache.                        *)

\* The Kafka program's loader filters by quality, the live program's engine
\* does so alone.  The one marks its cache with no fingerprint and asks for
\* none, the other with its settings.
LoadFromDir(p, some) ==
    [ some |-> some, dir |-> dir, products |-> cfg[p].products,
      quality |-> IF p = "kafka" THEN cfg[p].quality ELSE None ]

fingerprint(p) == IF p = "kafka" THEN None ELSE <<cfg[p].products, cfg[p].quality>>

FitsAny(c, p) == c # Torn

Fits(c, p) ==
    /\ c # Torn
    /\ c.rules.some
    /\ fingerprint(p) # None => c.fingerprint = fingerprint(p)

\* LoadRulesFromCache: a file that is missing, old, cut short, of another
\* fingerprint or without a rule is a miss.
CacheHit(p) == cache # None /\ ~old /\ Fits(inodes[cache], p)

LoadRulesFromCache(p) ==
    /\ pc[p] = "rules" /\ CacheHit(p)
    /\ rules' = Set(rules, p, inodes[cache].rules)
    /\ pc' = Set(pc, p, "parts")
    /\ UNCHANGED <<cfg, parts, operator, files, starts>>

\* The Kafka program takes, and saves, a directory in which it finds no rule.
LoadRules(p) ==
    /\ pc[p] = "rules" /\ ~CacheHit(p)
    /\ \E some \in BOOLEAN :
          /\ p = "live" => some
          /\ rules' = Set(rules, p, LoadFromDir(p, some))
    /\ pc' = Set(pc, p, "create")
    /\ UNCHANGED <<cfg, parts, operator, files, starts>>

\* The loader fails, or the live program gets no rule: Fatalf.
LoadFails(p) ==
    /\ pc[p] = "rules" /\ ~CacheHit(p)
    /\ pc' = Set(pc, p, "refused")
    /\ UNCHANGED <<cfg, rules, parts, operator, files, starts>>

\* SaveRulesToCache: os.Create empties the file under the temporary name, or
\* makes it; Encode writes it; Rename moves it.  Any error is a warning.
CreateTmp(p) ==
    /\ pc[p] = "create"
    /\ LET i == IF tmp = None THEN Cardinality(DOMAIN inodes) + 1 ELSE tmp
       IN  /\ tmp' = i
           /\ inodes' = [j \in DOMAIN inodes \cup {i} |-> IF j = i THEN Torn ELSE inodes[j]]
           /\ writes' = Set(writes, p, i)
    /\ pc' = Set(pc, p, "encode")
    /\ UNCHANGED <<cfg, rules, parts, operator, cache, old, starts>>

Encode(p) ==
    /\ pc[p] = "encode"
    /\ inodes' = Set(inodes, writes[p],
                     [rules |-> rules[p], fingerprint |-> fingerprint(p)])
    /\ old' = (old /\ writes[p] # cache)
    /\ pc' = Set(pc, p, "rename")
    /\ UNCHANGED <<cfg, rules, parts, operator, tmp, cache, writes, starts>>

\* Rename takes whatever the temporary name stands for by then.
Rename(p) ==
    /\ pc[p] = "rename"
    /\ IF tmp = None THEN UNCHANGED <<tmp, cache, old>>
       ELSE tmp' = None /\ cache' = tmp /\ old' = FALSE
    /\ writes' = Set(writes, p, None)
    /\ pc' = Set(pc, p, "parts")
    /\ UNCHANGED <<cfg, rules, parts, operator, inodes, starts>>

\* Create or Encode return an error; Encode leaves the file it began.
SaveFails(p) ==
    /\ pc[p] \in {"create", "encode"}
    /\ writes' = Set(writes, p, None)
    /\ pc' = Set(pc, p, "parts")
    /\ UNCHANGED <<cfg, rules, parts, operator, inodes, tmp, cache, old, starts>>

SaveRulesToCache(p) == CreateTmp(p) \/ Encode(p) \/ Rename(p) \/ SaveFails(p)

-----------------------------------------------------------------------------
(* The parts of the Kafka program: the REST interface always, repositories *)
(* and the seeding with a database, the event loop with Kafka, the alert   *)
(* writer with both.  A migration that fails ends the program.             *)

StartKafkaParts(db, broker, loop) ==
    /\ "kafka" \in Programs /\ pc["kafka"] = "parts"
    /\ parts' = {"api"} \cup (IF db THEN {"repositories"} ELSE {})
                        \cup (IF broker /\ loop THEN {"loop"} ELSE {})
                        \cup (IF broker /\ db THEN {"writer"} ELSE {})
    /\ pc' = Set(pc, "kafka", "up")
    /\ UNCHANGED <<cfg, rules, operator, files, starts>>

MigrationsFail ==
    /\ "kafka" \in Programs /\ pc["kafka"] = "parts"
    /\ pc' = Set(pc, "kafka", "refused")
    /\ UNCHANGED <<cfg, rules, parts, operator, files, starts>>

\* The live program's file monitor starts, or does not (Fatalf).
StartLiveParts ==
    /\ "live" \in Programs /\ pc["live"] = "parts"
    /\ \E to \in {"up", "refused"} : pc' = Set(pc, "live", to)
    /\ UNCHANGED <<cfg, rules, parts, operator, files, starts>>

\* A signal, or the death of the process at any step.
Ends(p) ==
    /\ pc[p] \notin {"down", "refused"}
    /\ pc' = Set(pc, p, "down")
    /\ writes' = Set(writes, p, None)
    /\ parts' = IF p = "kafka" THEN {} ELSE parts
    /\ UNCHANGED <<cfg, rules, operator, inodes, tmp, cache, old, starts>>

EditSettings ==
    /\ dir < MaxEdits /\ dir' = dir + 1
    /\ file' \in Settings
    /\ UNCHANGED <<pc, cfg, rules, parts, files, starts>>

CacheAges ==
    /\ cache # None /\ ~old /\ old' = TRUE
    /\ UNCHANGED <<pc, cfg, rules, parts, operator, inodes, tmp, cache, writes, starts>>

Next ==
    \/ \E p \in Programs :
         \/ Start(p) \/ LoadRulesFromCache(p) \/ LoadRules(p) \/ LoadFails(p)
         \/ SaveRulesToCache(p) \/ Ends(p)
    \/ \E db, broker, loop \in BOOLEAN : StartKafkaParts(db, broker, loop)
    \/ LiveRefuses \/ MigrationsFail \/ StartLiveParts
    \/ EditSettings \/ CacheAges

Spec == Init /\ [][Next]_vars

TypeOK ==
    /\ pc \in [Programs -> {"down", "refused", "rules", "create", "encode", "rename", "parts", "up"}]
    /\ file \in Settings /\ dir \in 0 .. MaxEdits /\ starts \in Nat
    /\ {tmp, cache} \cup {writes[p] : p \in Programs} \subseteq DOMAIN inodes \cup {None}

-----------------------------------------------------------------------------
\* Whatever the two programs did to the cache file and wherever they died in
\* it, the live program runs on the rules of its own settings: all products
\* and no other, not a part of a file, not an empty one, and not the other
\* program's choice by quality, which its own filter would not undo.
LiveHasItsRules ==
    "live" \in Programs /\ pc["live"] = "up" =>
        /\ rules["live"].products = cfg["live"].products
        /\ rules["live"].quality = None /\ rules["live"].some

\* Whatever the file says, the pools and caches get a positive size.
SizesArePositive ==
    \A p \in Programs : cfg[p] # None =>
        cfg[p].workers > 0 /\ cfg[p].cacheSize > 0 /\ cfg[p].loaders > 0

\* Not so: when both programs save at once, the one renames the file the other
\* has just emptied, and a crash or an error of the other leaves it cut short.
\* It is a miss for the next reader, never a part of the rules.
CacheIsWhole ==
    cache # None /\ inodes[cache] = Torn =>
        \E p \in Programs : pc[p] = "encode" /\ writes[p] = cache

\* Not so: the Kafka program asks for no fingerprint and runs for a day on
\* the rules of the settings before.
KafkaHasItsRules ==
    "kafka" \in Programs /\ pc["kafka"] = "up" =>
        rules["kafka"].products = cfg["kafka"].products

=============================================================================
