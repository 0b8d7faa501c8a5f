---------------------------- MODULE SigmaFileMode ---------------------------
(***************************************************************************)
(* The live mode of the Sigma engine on one log file: the writer of the    *)
(* file, FileMonitor's poll loop, its checkpoint loop, and the program     *)
(* that stops or is killed and starts again from the checkpoint.           *)
(*                                                                         *)
(* A position in the file is two per line: 2n after n whole lines, odd in  *)
(* the middle of the last line while its writer has written half of it.    *)
(* A line is <<generation, number>>; a rotation starts a new generation.   *)
(* Of a modification time that is remembered, only whether it is still the *)
(* file's own matters: a write makes it an old one.                        *)
(***************************************************************************)
EXTENDS Naturals

CONSTANTS
    None,          \* no file, no entry
    ChanCap,       \* capacity of eventChan
    Long,          \* lines of more than the scanner's 64 KB
    MaxGen,        \* bounds of the model: generations,
    MaxSize,       \* the size of a file that is told apart,
    MaxHalts       \* and how often the program ends

VARIABLES
    file,          \* the generation that the path names, or None
    size,          \* the size of each generation, 0 before it is there
    running,       \* the program runs
    tracked,       \* trackedFiles: Offset and Inode of the file, or None
    reader,        \* readFileLines: where it is
    eventChan,     \* how many events the channel holds
    checkpoint,    \* the checkpoint file: Offset and Inode, or None
    halts, emitted,
    torn           \* history: a checkpoint "saved" amid handleFileRotation, then "loaded"

program == <<running, tracked, reader, eventChan>>
vars == <<file, size, program, checkpoint, halts, emitted, torn>>

Idle == [at |-> "idle"]
Inodes == {"its", "old", "0"}
Entries == [Offset : 0 .. MaxSize, Inode : Inodes]
Lines == (1 .. MaxGen) \X (1 .. MaxSize \div 2)

TypeOK ==
    /\ file \in (1 .. MaxGen) \cup {None}
    /\ size \in [1 .. MaxGen -> 0 .. MaxSize]
    /\ tracked \in Entries \cup {None} /\ checkpoint \in Entries \cup {None}
    /\ reader.at \in {"idle", "open", "reading", "over", "rotated", "rotating"}
    /\ eventChan \in 0 .. ChanCap /\ running \in BOOLEAN /\ torn \in {"no", "saved", "loaded"}
    /\ halts \in 0 .. MaxHalts /\ emitted \subseteq Lines

Init ==
    /\ file = 1 /\ size = [g \in 1 .. MaxGen |-> IF g = 1 THEN 2 ELSE 0]
    /\ running = FALSE /\ tracked = None /\ reader = Idle /\ eventChan = 0
    /\ checkpoint = None /\ halts = 0 /\ emitted = {} /\ torn = "no"

-----------------------------------------------------------------------------
(* The writer.                                                             *)

(* getInode returns the modification time: after a write it is another. *)
Outdated(entry) ==
    IF entry = None THEN None ELSE [entry EXCEPT !.Inode = IF @ = "its" THEN "old" ELSE @]
Written == tracked' = Outdated(tracked) /\ checkpoint' = Outdated(checkpoint)

(* Half a line at a time; a file of MaxSize grows on, and what follows is
   not told apart. *)
Append ==
    /\ file # None
    /\ size' = [size EXCEPT ![file] = IF @ < MaxSize THEN @ + 1 ELSE @]
    /\ Written
    /\ UNCHANGED <<file, running, reader, eventChan, halts, emitted, torn>>

(* The file is removed, or moved away by a rotation ... *)
Remove ==
    /\ file # None
    /\ file' = None
    /\ UNCHANGED <<size, program, checkpoint, halts, emitted, torn>>

(* ... and the next one appears, a line long. *)
Create(g) ==
    /\ file = None /\ size[g] = 0 /\ \A h \in 1 .. g - 1 : size[h] # 0
    /\ file' = g
    /\ size' = [size EXCEPT ![g] = 2]
    /\ Written
    /\ UNCHANGED <<running, reader, eventChan, halts, emitted, torn>>

-----------------------------------------------------------------------------
(* FileMonitor.                                                            *)

Discovered == [Offset |-> 0, Inode |-> "its"]

(* ApplyToTrackedFiles: the saved offset is taken if the file seems the same. *)
Restored ==
    IF /\ checkpoint # None /\ checkpoint.Inode \in {Discovered.Inode, "0"}
       /\ checkpoint.Offset <= size[file]
    THEN [Discovered EXCEPT !.Offset = checkpoint.Offset]
    ELSE Discovered

(* A checkpoint that cannot be read or parsed is passed over. *)
Start ==
    /\ ~running
    /\ running' = TRUE
    /\ IF file = None THEN tracked' = None ELSE tracked' \in {Restored, Discovered}
    /\ reader' = Idle /\ eventChan' = 0
    /\ torn' = IF torn = "saved" THEN "loaded" ELSE torn
    /\ UNCHANGED <<file, size, checkpoint, halts, emitted>>

discoverFiles ==
    /\ running /\ reader = Idle /\ tracked = None /\ file # None
    /\ tracked' = Discovered
    /\ UNCHANGED <<file, size, running, reader, eventChan, checkpoint, halts, emitted, torn>>

(* readFileLines up to the opening of the file. *)
CheckFile ==
    /\ running /\ reader = Idle /\ tracked # None
    /\ \/ file = None /\ tracked' = None /\ UNCHANGED reader
       \/ file # None /\ tracked.Inode # "its" /\ reader' = [at |-> "rotated"] /\ UNCHANGED tracked
       \/ file # None /\ tracked.Inode = "its" /\ size[file] > tracked.Offset
            /\ reader' = [at |-> "open"] /\ UNCHANGED tracked
    /\ UNCHANGED <<file, size, running, eventChan, checkpoint, halts, emitted, torn>>

(* handleFileRotation asks for the inode again, and ignores an error; the
   two assignments are seen by Save. *)
SetInode ==
    /\ running /\ reader.at = "rotated"
    /\ tracked' = [tracked EXCEPT !.Inode = IF file = None THEN "0" ELSE "its"]
    /\ reader' = [at |-> "rotating"]
    /\ UNCHANGED <<file, size, running, eventChan, checkpoint, halts, emitted, torn>>

FinishRotation ==
    /\ running /\ reader.at = "rotating"
    /\ tracked' = [tracked EXCEPT !.Offset = 0]
    /\ reader' = Idle
    /\ UNCHANGED <<file, size, running, eventChan, checkpoint, halts, emitted, torn>>

(* The scanner starts at the offset of what the path names by now. *)
OpenFile ==
    /\ running /\ reader.at = "open"
    /\ reader' = IF file = None THEN Idle ELSE [at |-> "reading", gen |-> file, pos |-> tracked.Offset]
    /\ UNCHANGED <<file, size, running, tracked, eventChan, checkpoint, halts, emitted, torn>>

AtLine == reader.pos % 2 = 0 /\ reader.pos + 2 <= size[reader.gen]
ThisLine == <<reader.gen, reader.pos \div 2 + 1>>

(* A line that is read whole is emitted; while the channel is full the
   reader waits. *)
EmitLine ==
    /\ running /\ reader.at = "reading" /\ AtLine /\ ThisLine \notin Long
    /\ eventChan < ChanCap
    /\ eventChan' = eventChan + 1
    /\ emitted' = emitted \cup {ThisLine}
    /\ reader' = [reader EXCEPT !.pos = @ + 2]
    /\ UNCHANGED <<file, size, running, tracked, checkpoint, halts, torn>>

(* The rest of a line does not parse.  The first half of one, at the end of
   the file, does not either, and there the scanner ends; a line that is too
   long is an error which ends it in the middle of the line. *)
SkipFragment ==
    /\ running /\ reader.at = "reading" /\ reader.pos < size[reader.gen] /\ ~(AtLine /\ ThisLine \notin Long)
    /\ reader' = [reader EXCEPT !.pos = @ + 1, !.at = IF reader.pos % 2 = 0 THEN "over" ELSE @]
    /\ UNCHANGED <<file, size, running, tracked, eventChan, checkpoint, halts, emitted, torn>>

FinishRead ==
    /\ running
    /\ \/ reader.at = "over"
       \/ reader.at = "reading" /\ reader.pos >= size[reader.gen]
    /\ tracked' = [tracked EXCEPT !.Offset = reader.pos]
    /\ reader' = Idle
    /\ UNCHANGED <<file, size, running, eventChan, checkpoint, halts, emitted, torn>>

(* CheckpointManager.Save, at a tick of checkpointLoop or in Stop: it holds
   the lock of the map, not of the file in it.  A save that fails leaves the
   file that was there. *)
Save ==
    /\ running
    /\ \/ /\ checkpoint' = tracked
          /\ torn' = CASE torn = "loaded" -> torn
                      [] torn # "loaded" /\ reader.at = "rotating" -> "saved"
                      [] OTHER -> "no"
       \/ UNCHANGED <<checkpoint, torn>>
    /\ UNCHANGED <<file, size, program, halts, emitted>>

-----------------------------------------------------------------------------
(* processEvents takes an event: detection, enrichment, output. *)
processEvents ==
    /\ running /\ eventChan > 0
    /\ eventChan' = eventChan - 1
    /\ UNCHANGED <<file, size, running, tracked, reader, checkpoint, halts, emitted, torn>>

(* The program is killed, or stops: Stop saves, cancels and leaves what the
   channel holds. *)
Halt ==
    /\ running /\ halts < MaxHalts
    /\ running' = FALSE /\ tracked' = None /\ reader' = Idle /\ eventChan' = 0
    /\ halts' = halts + 1
    /\ UNCHANGED <<file, size, checkpoint, emitted, torn>>

ReaderStep ==
    \/ discoverFiles \/ CheckFile \/ SetInode \/ FinishRotation
    \/ OpenFile \/ EmitLine \/ SkipFragment \/ FinishRead

Next ==
    \/ Append \/ Remove \/ \E g \in 1 .. MaxGen : Create(g)
    \/ Start \/ ReaderStep \/ Save \/ processEvents \/ Halt

(* The poll loop and the program's loop go on; somebody starts the program. *)
Fairness == WF_vars(ReaderStep) /\ WF_vars(processEvents) /\ WF_vars(Start)

Spec == Init /\ [][Next]_vars /\ Fairness

-----------------------------------------------------------------------------
Holds(line) == file = line[1] /\ size[file] >= 2 * line[2] /\ line \notin Long
Settled(line) == line \in emitted \/ ~Holds(line) \/ torn = "loaded"

(* The writer comes to rest. *)
WriterRests == <>[][~(Append \/ Remove \/ \E g \in 1 .. MaxGen : Create(g))]_vars

(***************************************************************************)
(* Once its writer rests, a whole line of a file that stays is handed to   *)
(* detection, unless it is too long for the scanner: through half lines    *)
(* that were read too early, lines too long before it, rotations that the  *)
(* poll meets between its look at the file and its opening, and restarts - *)
(* unless the program starts from a checkpoint that was saved between the  *)
(* two assignments of handleFileRotation.                                  *)
(***************************************************************************)
LineEmitted == WriterRests => \A line \in Lines : Holds(line) ~> Settled(line)

(***************************************************************************)
(* Not so: with such a checkpoint the lines before the old offset are      *)
(* skipped after a restart.                                                *)
(***************************************************************************)
LineEmittedAlways ==
    WriterRests => \A line \in Lines : Holds(line) ~> (line \in emitted \/ ~Holds(line))

(***************************************************************************)
(* Not so: "getInode gets the file inode (for rotation detection)"         *)
(* (file_monitor.go:523).  It is the modification time: a file written to  *)
(* between any two polls is taken for rotated at each and never read.      *)
(***************************************************************************)
LineEmittedMeanwhile == \A line \in Lines : Holds(line) ~> Settled(line)
=============================================================================
