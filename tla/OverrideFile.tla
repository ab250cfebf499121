---------------------------- MODULE OverrideFile ----------------------------
(***************************************************************************)
(* The runtime override (src/tp4/glm53_speedup/scheduler.py,               *)
(* SchedulerBridge.refresh and _read_bounded).                             *)
(*                                                                         *)
(* The scheduler polls a JSON file that somebody else may replace, rewrite *)
(* in place, take away or put back while it is being read.  One poll is    *)
(*                                                                         *)
(*   idle -> stat -> open -> read -> fstat -> stat -> validate and stat    *)
(*                                                                         *)
(* with one system call per action.  A poll ends in one of three ways: the *)
(* file is the one already in force, its settings are put in force with    *)
(* its stamp, or everything is switched off and the stamp forgotten.       *)
(*                                                                         *)
(* A stamp (device, inode, mtime, ctime, size) is the number of the write  *)
(* that produced it: no two writes leave the same stamp.                   *)
(***************************************************************************)
EXTENDS Naturals, Sequences

CONSTANTS
  Content,      \* what may be in the file: mode, mixed_prefill_tokens, parses
  MaxWrites     \* bound: changes of the file

VARIABLES
  inode,        \* the files there have been, by inode: stamp and content
  path,         \* the inode the path leads to, 0 when there is none
  hidden,       \* the inode the path led to before it vanished
  written,      \* history: the content each stamp stands for
  mode,         \* policy.settings.mode
  prefill_cap,  \* prefill_cap of the bridge (GLM53_SPEEDUP_MIXED_PREFILL_RUNTIME = 1)
  stamp,        \* the stamp of the file in force, 0 for None
  reader,       \* where the poll is: a system call, "idle" or "done"
  opened,       \* the inode that was opened
  before,       \* the stamp it had
  raw,          \* the content that was read
  met           \* history: the contents the path led to during the last poll

fileVars == <<inode, path, hidden, written>>
readVars == <<reader, opened, before, raw>>
inForceVars == <<mode, prefill_cap, stamp>>
overrideVars == <<fileVars, inForceVars, readVars, met>>

Off == [mode |-> "off", cap |-> 0]
Torn == [mode |-> "off", cap |-> 0, parses |-> FALSE]

\* The checks on the document, _validate_prefill_adaptive included: a runtime
\* prefill cap does not go with an adaptive mode.
Valid(c) == c.parses /\ (c.cap > 0 => c.mode = "off")

\* What the settings should be while the path leads to inode i.
Wanted(i) ==
  IF i # 0 /\ Valid(inode[i].content)
  THEN [mode |-> inode[i].content.mode, cap |-> inode[i].content.cap] ELSE Off

InForce == [mode |-> mode, cap |-> prefill_cap]

Found(i) == IF i = 0 THEN {} ELSE {inode[i].content}

OverrideInit(c, startMode) ==
  /\ inode = <<[stamp |-> 1, content |-> c]>> /\ path = 1 /\ hidden = 0
  /\ written = <<c>>
  /\ mode = startMode /\ prefill_cap = 0 /\ stamp = 0
  /\ reader = "idle" /\ opened = 0 /\ before = 0 /\ raw = Torn
  /\ met = {}

-----------------------------------------------------------------------------
(* The writer. *)

\* The path leads to inode i with the contents c, which a poll may meet.
Lead(i, c) ==
  /\ path' = i
  /\ met' = IF reader = "idle" THEN {} ELSE met \cup c

Writes == Len(written)

\* A complete new file is renamed over the path.
Replace(c) ==
  /\ Writes < MaxWrites
  /\ written' = Append(written, c)
  /\ inode' = Append(inode, [stamp |-> Writes + 1, content |-> c])
  /\ Lead(Len(inode) + 1, {c})
  /\ UNCHANGED <<hidden, inForceVars, readVars>>

\* The file is written in place, piece by piece.
Rewrite(c) ==
  /\ Writes < MaxWrites /\ path # 0
  /\ written' = Append(written, c)
  /\ inode' = [inode EXCEPT ![path] = [stamp |-> Writes + 1, content |-> c]]
  /\ Lead(path, {c})
  /\ UNCHANGED <<hidden, inForceVars, readVars>>

\* The path vanishes: the file, or a directory above it, is moved away.
Vanish ==
  /\ path # 0 /\ hidden = 0
  /\ hidden' = path /\ Lead(0, {})
  /\ UNCHANGED <<inode, written, inForceVars, readVars>>

\* The directory is moved back: the file has the stamp it had.
Reappear ==
  /\ path = 0
  /\ Lead(hidden, Found(hidden))
  /\ UNCHANGED <<inode, hidden, written, inForceVars, readVars>>

Write == (\E c \in Content : Replace(c) \/ Rewrite(c)) \/ Rewrite(Torn) \/ Vanish \/ Reappear

-----------------------------------------------------------------------------
(* The poll. *)

\* Mutant of Forgotten: the stamp survives a failed poll.
ForgottenNot == stamp

\* The stamp after a failed poll.
Forgotten == 0

\* Mutant of Withdrawn: a failed poll leaves the settings as they are.
WithdrawnNot == InForce

\* The settings after a failed poll.
Withdrawn == Off

\* Any error of a poll: "a missing/truncated file cannot leave an old
\* experimental mode on".
PollFails ==
  /\ mode' = Withdrawn.mode /\ prefill_cap' = Withdrawn.cap
  /\ stamp' = Forgotten
  /\ reader' = "done"
  /\ UNCHANGED <<opened, before, raw>>

PollStarts ==
  /\ reader = "idle"
  /\ reader' = "stat"
  /\ met' = Found(path)
  /\ UNCHANGED <<fileVars, inForceVars, opened, before, raw>>

\* path.stat: nothing to do when the file is the one in force.
Stat ==
  /\ reader = "stat"
  /\ \/ path = 0 /\ PollFails
     \/ /\ path # 0
        /\ reader' = IF inode[path].stamp = stamp THEN "done" ELSE "open"
        /\ UNCHANGED <<inForceVars, opened, before, raw>>
  /\ UNCHANGED <<fileVars, met>>

\* os.open and the first fstat.
Open ==
  /\ reader = "open"
  /\ \/ path = 0 /\ PollFails
     \/ /\ path # 0
        /\ opened' = path /\ before' = inode[path].stamp
        /\ reader' = "read"
        /\ UNCHANGED <<inForceVars, raw>>
  /\ UNCHANGED <<fileVars, met>>

Read ==
  /\ reader = "read"
  /\ raw' = inode[opened].content
  /\ reader' = "fstat"
  /\ UNCHANGED <<fileVars, inForceVars, opened, before, met>>

\* The inode still has the stamp the open file had before it was read.
SameFile(i) == i # 0 /\ inode[i].stamp = before

\* The second fstat of _read_bounded.
Fstat ==
  /\ reader = "fstat"
  /\ \/ ~SameFile(opened) /\ PollFails
     \/ SameFile(opened) /\ reader' = "path" /\ UNCHANGED <<inForceVars, opened, before, raw>>
  /\ UNCHANGED <<fileVars, met>>

\* The path.stat at the end of _read_bounded.
StatPath ==
  /\ reader = "path"
  /\ \/ ~SameFile(path) /\ PollFails
     \/ SameFile(path) /\ reader' = "commit" /\ UNCHANGED <<inForceVars, opened, before, raw>>
  /\ UNCHANGED <<fileVars, met>>

\* Validation, the last path.stat, and the single commit.
Commit ==
  /\ reader = "commit"
  /\ \/ ~(Valid(raw) /\ SameFile(path)) /\ PollFails
     \/ /\ Valid(raw) /\ SameFile(path)
        /\ mode' = raw.mode /\ prefill_cap' = raw.cap /\ stamp' = before
        /\ reader' = "done"
        /\ UNCHANGED <<opened, before, raw>>
  /\ UNCHANGED <<fileVars, met>>

\* refresh returns: what it read is forgotten.
PollReturns ==
  /\ reader = "done"
  /\ reader' = "idle" /\ opened' = 0 /\ before' = 0 /\ raw' = Torn /\ met' = {}
  /\ UNCHANGED <<fileVars, inForceVars>>

PollStep == Stat \/ Open \/ Read \/ Fstat \/ StatPath \/ Commit
=============================================================================
