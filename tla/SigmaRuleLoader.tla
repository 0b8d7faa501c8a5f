--------------------------- MODULE SigmaRuleLoader --------------------------
(***************************************************************************)
(* RuleLoader.LoadRules: a scanner walks the rule directory, workers parse *)
(* the files, and the loader collects rules and errors from two channels   *)
(* until both are closed or its context ends.                              *)
(***************************************************************************)
EXTENDS Naturals, Sequences, FiniteSets

CONSTANTS
    Files,                      \* the .yml and .yaml files below the directory
    Parsers,                    \* the worker goroutines
    JobCap, RuleCap, ErrorCap   \* capacities of the channels

(* What parsing a file gives: a rule, a rule the quality filter refuses, the *)
(* SKIP error of a product that is not wanted, or an error.                  *)
Outcomes == {"rule", "poor", "skip", "error"}

VARIABLES
    outcome,
    unscanned, jobs, jobsOpen,
    parser,                     \* the file each worker holds
    ruleChan, errorChan, open,  \* open: neither result channel is closed
    collector,                  \* where LoadRules is
    rules, errors,
    cancelled

scan == <<unscanned, jobs, jobsOpen>>
results == <<ruleChan, errorChan, open>>
vars == <<outcome, scan, parser, results, collector, rules, errors, cancelled>>

NoFile == "no file"
Ended == "ended"

TypeOK ==
    /\ outcome \in [Files -> Outcomes]
    /\ unscanned \subseteq Files /\ rules \subseteq Files /\ errors \subseteq Files
    /\ Len(jobs) <= JobCap /\ Len(ruleChan) <= RuleCap /\ Len(errorChan) <= ErrorCap
    /\ parser \in [Parsers -> Files \cup {NoFile, Ended}]
    /\ jobsOpen \in BOOLEAN /\ open \in BOOLEAN /\ cancelled \in BOOLEAN
    /\ collector \in {"collecting", "returned", "failed"}

Init ==
    /\ outcome \in [Files -> Outcomes]
    /\ unscanned = Files /\ jobs = <<>> /\ jobsOpen = TRUE
    /\ parser = [p \in Parsers |-> NoFile]
    /\ ruleChan = <<>> /\ errorChan = <<>> /\ open = TRUE
    /\ collector = "collecting" /\ rules = {} /\ errors = {}
    /\ cancelled = FALSE

(* scanFiles, in the order of the walk or in any other. *)
ScanFile(f) ==
    /\ f \in unscanned /\ Len(jobs) < JobCap
    /\ unscanned' = unscanned \ {f} /\ jobs' = Append(jobs, f)
    /\ UNCHANGED <<outcome, jobsOpen, parser, results, collector, rules, errors, cancelled>>

(* The walk is over, or the context is. *)
CloseJobs ==
    /\ jobsOpen /\ (unscanned = {} \/ cancelled)
    /\ jobsOpen' = FALSE
    /\ UNCHANGED <<outcome, unscanned, jobs, parser, results, collector, rules, errors, cancelled>>

(* worker: a file, and the end when the context has ended meanwhile. *)
TakeFile(p) ==
    /\ parser[p] = NoFile /\ jobs # <<>>
    /\ jobs' = Tail(jobs)
    /\ parser' = [parser EXCEPT ![p] = IF cancelled THEN Ended ELSE Head(jobs)]
    /\ UNCHANGED <<outcome, unscanned, jobsOpen, results, collector, rules, errors, cancelled>>

SendRule(p) ==
    /\ parser[p] \in Files /\ outcome[parser[p]] \in {"rule", "poor"}
    /\ \/ /\ Len(ruleChan) < RuleCap
          /\ ruleChan' = Append(ruleChan, parser[p]) /\ parser' = [parser EXCEPT ![p] = NoFile]
       \/ /\ cancelled
          /\ parser' = [parser EXCEPT ![p] = Ended] /\ UNCHANGED ruleChan
    /\ UNCHANGED <<outcome, scan, errorChan, open, collector, rules, errors, cancelled>>

(* The send of an error does not look at the context. *)
SendError(p) ==
    /\ parser[p] \in Files /\ outcome[parser[p]] \in {"skip", "error"}
    /\ Len(errorChan) < ErrorCap
    /\ errorChan' = Append(errorChan, parser[p])
    /\ parser' = [parser EXCEPT ![p] = NoFile]
    /\ UNCHANGED <<outcome, scan, ruleChan, open, collector, rules, errors, cancelled>>

ParserEnds(p) ==
    /\ parser[p] = NoFile /\ jobs = <<>> /\ ~jobsOpen
    /\ parser' = [parser EXCEPT ![p] = Ended]
    /\ UNCHANGED <<outcome, scan, results, collector, rules, errors, cancelled>>

(* Faulty variant: the channels are closed when the files are all handed out. *)
CloseResultsEarly ==
    /\ open /\ ~jobsOpen /\ jobs = <<>>
    /\ open' = FALSE
    /\ UNCHANGED <<outcome, scan, parser, ruleChan, errorChan, collector, rules, errors, cancelled>>

(* wg.Wait, then both channels are closed. *)
CloseResults ==
    /\ open /\ \A p \in Parsers : parser[p] = Ended
    /\ open' = FALSE
    /\ UNCHANGED <<outcome, scan, parser, ruleChan, errorChan, collector, rules, errors, cancelled>>

(* The quality filter keeps a rule or drops it. *)
CollectRule ==
    /\ collector = "collecting" /\ ruleChan # <<>>
    /\ ruleChan' = Tail(ruleChan)
    /\ rules' = IF outcome[Head(ruleChan)] = "rule" THEN rules \cup {Head(ruleChan)} ELSE rules
    /\ UNCHANGED <<outcome, scan, parser, errorChan, open, collector, errors, cancelled>>

CollectError ==
    /\ collector = "collecting" /\ errorChan # <<>>
    /\ errorChan' = Tail(errorChan)
    /\ errors' = IF outcome[Head(errorChan)] = "error" THEN errors \cup {Head(errorChan)} ELSE errors
    /\ UNCHANGED <<outcome, scan, parser, ruleChan, open, collector, rules, cancelled>>

(* Both channels closed and empty: the rules are indexed and returned. *)
LoadReturns ==
    /\ collector = "collecting" /\ ~open /\ ruleChan = <<>> /\ errorChan = <<>>
    /\ collector' = "returned"
    /\ UNCHANGED <<outcome, scan, parser, results, rules, errors, cancelled>>

(* The context ends, while channels may hold rules. *)
LoadFails ==
    /\ collector = "collecting" /\ cancelled
    /\ collector' = "failed"
    /\ UNCHANGED <<outcome, scan, parser, results, rules, errors, cancelled>>

Cancel ==
    /\ ~cancelled /\ cancelled' = TRUE
    /\ UNCHANGED <<outcome, scan, parser, results, collector, rules, errors>>

ParserStep(p) == TakeFile(p) \/ SendRule(p) \/ SendError(p) \/ ParserEnds(p)
ScanStep == CloseJobs \/ \E f \in Files : ScanFile(f)
CollectStep == CollectRule \/ CollectError \/ LoadReturns

Next ==
    \/ ScanStep \/ CloseResults \/ CollectStep \/ LoadFails \/ Cancel
    \/ \E p \in Parsers : ParserStep(p)

Fairness ==
    /\ WF_vars(ScanStep) /\ WF_vars(CloseResults) /\ WF_vars(CollectStep)
    /\ \A p \in Parsers : WF_vars(ParserStep(p))

Spec == Init /\ [][Next]_vars /\ Fairness

(* Where loading has to end. *)
Accounted ==
    \/ collector = "failed" /\ cancelled
    \/ /\ collector = "returned"
       /\ ~cancelled => /\ rules = {f \in Files : outcome[f] = "rule"}
                        /\ errors = {f \in Files : outcome[f] = "error"}

(***************************************************************************)
(* Loading comes to an end, however the workers, the two bounded channels  *)
(* and the select of the collector interleave, and unless the context has  *)
(* ended it ends with every file in its place: no file lost between a      *)
(* worker's send and the closing of its channel.                           *)
(***************************************************************************)
LoadAccounts == <>Accounted
=============================================================================
