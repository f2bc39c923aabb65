----------------------------- MODULE CommandLog -----------------------------
(***************************************************************************)
(* How a command becomes durable: `#command` (zec/engine/engine.ts)        *)
(* applies it and appends it to the hash chain, the commit hook of         *)
(* `openEngine` (zec/engine/store.ts) writes its line and syncs the file,  *)
(* and only then is it committed and its caller answered.  After a stop,   *)
(* opening the log cuts a torn last line off and replays the others, each  *)
(* of which must be the next of the hash chain.                            *)
(*                                                                         *)
(* A command runs to its end before the next one starts, so the steps here *)
(* are the points where the process can stop or a call can fail.  A line   *)
(* is its sequence number and its command; the header line, the hashes and *)
(* the clock are left out.  What the operating system has not synced may   *)
(* be lost in a power failure, the last line in the middle.                *)
(***************************************************************************)
EXTENDS Integers, Sequences

CONSTANT
  Commands      \* commands the engine's rules accept, each issued once

VARIABLES
  records,   \* engine: the hash chain, the commands in effect
  pc,        \* engine: where the running command is, "down" or "refused"
  running,   \* engine: the command being executed, {} if none
  file,      \* the log's lines
  synced,    \* how many lines have reached the disk for certain
  told       \* what the caller of every command was told

logVars == <<records, pc, running, file, synced, told>>

\* A line whose end is missing has `whole` FALSE.  What is written after it
\* continues it, and does not parse.
Line(seq, c) == [seq |-> seq, command |-> c, whole |-> TRUE]
Lines == [seq : Nat \cup {-1}, command : Commands, whole : BOOLEAN]

Whole(lines) == \A i \in 1 .. Len(lines) : lines[i].whole
Torn(lines) == lines # <<>> /\ ~lines[Len(lines)].whole

\* `lines` with `line` after them: glued to a torn one, if that is last.
Extend(lines, line) ==
  IF Torn(lines) THEN [lines EXCEPT ![Len(lines)].seq = -1,
                                    ![Len(lines)].whole = line.whole]
  ELSE Append(lines, line)

LogInit ==
  /\ records = <<>>
  /\ pc = "idle"
  /\ running = {}
  /\ file = <<>>
  /\ synced = 0
  /\ told = [c \in Commands |-> "none"]

-----------------------------------------------------------------------------
\* Executing a command

\* The command is applied and appended to the hash chain.
RunCommand(c) ==
  /\ pc = "idle"
  /\ told[c] = "none"
  /\ running' = {c}
  /\ records' = Append(records, c)
  /\ told' = [told EXCEPT ![c] = "pending"]
  /\ pc' = "write"
  /\ UNCHANGED <<file, synced>>

\* The line of the running command, whose number is its place in the chain.
NewLine(c) == Line(Len(records) - 1, c)

\* Mutant: the line is only buffered, and the command commits.
MutWrite(c) ==
  /\ pc = "write" /\ running = {c}
  /\ file' = Extend(file, NewLine(c))
  /\ pc' = "commit"
  /\ UNCHANGED <<records, running, synced, told>>

Write(c) ==
  /\ pc = "write" /\ running = {c}
  /\ file' = Extend(file, NewLine(c))
  /\ pc' = "sync"
  /\ UNCHANGED <<records, running, synced, told>>

Sync ==
  /\ pc = "sync"
  /\ synced' = Len(file)
  /\ pc' = "commit"
  /\ UNCHANGED <<records, running, file, told>>

\* Mutant: the command is answered but stays the running one.
MutCommit(c) ==
  /\ pc = "commit" /\ running = {c}
  /\ told' = [told EXCEPT ![c] = "accepted"]
  /\ pc' = "idle"
  /\ UNCHANGED <<records, running, file, synced>>

\* The command is committed and its caller answered.
Commit(c) ==
  /\ pc = "commit" /\ running = {c}
  /\ told' = [told EXCEPT ![c] = "accepted"]
  /\ running' = {}
  /\ pc' = "idle"
  /\ UNCHANGED <<records, file, synced>>

-----------------------------------------------------------------------------
\* Stopping and opening

\* What the system may have of the file: the line being written too.
Written ==
  {file} \cup {Extend(file, NewLine(c)) :
                 c \in IF pc = "write" THEN running ELSE {}}

\* A line without its end.
Tear(line) == [seq |-> line.seq, command |-> line.command, whole |-> FALSE]

\* The process or the machine stops.  Everything in memory is gone; of the
\* lines that were not synced the last ones may be lost, and the last one that
\* is left may be torn.
Crash ==
  /\ pc \notin {"down", "refused"}
  /\ pc' = "down"
  /\ records' = <<>>
  /\ running' = {}
  /\ told' = [c \in Commands |-> IF c \in running THEN "unknown" ELSE told[c]]
  /\ \E lines \in Written : \E n \in synced .. Len(lines), torn \in BOOLEAN :
       /\ torn => n > synced
       /\ file' = IF torn THEN [SubSeq(lines, 1, n) EXCEPT ![n] = Tear(@)]
                  ELSE SubSeq(lines, 1, n)
  /\ UNCHANGED synced

\* Mutant: a torn last line is left in the file.
MutReadable(lines) == lines

\* The file without a torn last line.
Readable(lines) ==
  IF Torn(lines) THEN SubSeq(lines, 1, Len(lines) - 1) ELSE lines

\* Every line parses and is the next of the hash chain.
Replays(lines) ==
  \A i \in 1 .. Len(lines) : lines[i].whole /\ lines[i].seq = i - 1

\* The commands that replaying the file brings back.
Recovered ==
  [i \in 1 .. Len(Readable(file)) |-> Readable(file)[i].command]

\* Opening cuts the torn line off and replays the others.  A line that does
\* not parse or is out of order makes it throw: the log does not open.
Open ==
  /\ pc = "down"
  /\ LET lines == Readable(file)
     IN  /\ file' = lines
         /\ synced' = IF synced > Len(lines) THEN Len(lines) ELSE synced
         /\ records' = IF Replays(lines) THEN Recovered ELSE <<>>
         /\ pc' = IF Replays(lines) THEN "idle" ELSE "refused"
  /\ UNCHANGED <<running, told>>

-----------------------------------------------------------------------------
\* A write or a sync that fails while the process lives on

\* The write stores only part of the line; its result is not looked at.
ShortWrite(c) ==
  /\ pc = "write" /\ running = {c}
  /\ file' = Extend(file, [NewLine(c) EXCEPT !.whole = FALSE])
  /\ pc' = "sync"
  /\ UNCHANGED <<records, running, synced, told>>

\* The hook throws, from the write or from the sync: the record is popped, the
\* command rolled back and its caller told that it failed.
PersistFails(c) ==
  /\ pc \in {"write", "sync"} /\ running = {c}
  /\ records' = SubSeq(records, 1, Len(records) - 1)
  /\ told' = [told EXCEPT ![c] = "rejected"]
  /\ running' = {}
  /\ pc' = "idle"
  /\ UNCHANGED <<file, synced>>

-----------------------------------------------------------------------------
\* Backing up

\* Mutant: a backup may be made while a command is half way.
MutMayBackUp == pc \notin {"down", "refused"}

\* The admin's backup reads the file, the length of the chain and its head in
\* one go: between two commands.
MayBackUp == pc = "idle"

-----------------------------------------------------------------------------

LogNext ==
  \/ \E c \in Commands : RunCommand(c)
  \/ \E c \in Commands : Write(c)
  \/ Sync
  \/ \E c \in Commands : Commit(c)
  \/ Crash
  \/ Open

LogSpec == LogInit /\ [][LogNext]_logVars

\* The same on a disk that may fail.
FailingNext == LogNext \/ \E c \in Commands : ShortWrite(c) \/ PersistFails(c)

FailingSpec == LogInit /\ [][FailingNext]_logVars

-----------------------------------------------------------------------------
\* Properties

\* The type invariant.  A command is running exactly between apply and commit.
LogTypeOK ==
  /\ records \in Seq(Commands)
  /\ pc \in {"idle", "write", "sync", "commit", "down", "refused"}
  /\ running \in {{}} \cup {{c} : c \in Commands}
  /\ file \in Seq(Lines)
  /\ synced \in 0 .. Len(file)
  /\ told \in [Commands -> {"none", "pending", "accepted", "rejected",
                            "unknown"}]
  /\ running # {} <=> pc \in {"write", "sync", "commit"}

\* Whatever a crash leaves of the file, the log opens again.
AlwaysOpens == pc # "refused"

\* An accepted command is on the disk, not just in the system's cache.
AcceptedIsSynced ==
  \A c \in Commands : told[c] = "accepted" =>
    \E i \in 1 .. synced : file[i].whole /\ file[i].command = c

\* A backup restores: its lines replay, to the chain whose length and head were
\* stored with them (store.ts `openEngine`, as the restore tool calls it).
BackupRestores == MayBackUp => Replays(file) /\ Recovered = records

\* A command whose caller was told that it failed never takes effect, after a
\* restart either (engine.ts:1328-1329: "Durable before visible: persist
\* first, and if that fails, the command never happened").
RejectedNeverHappens ==
  \A c \in Commands : \A i \in 1 .. Len(records) :
    told[c] = "rejected" => records[i] # c

\* The commands in effect: those committed or, while the engine is down, those
\* it will come up with.
InEffect ==
  IF pc \in {"down", "refused"} THEN Recovered
  ELSE IF running = {} THEN records
  ELSE SubSeq(records, 1, Len(records) - 1)

D == INSTANCE DurableLog WITH history <- InEffect, verdict <- told

\* Through every crash the log opens, holds on disk what was accepted, and can
\* be backed up at any time.
LogKept == AlwaysOpens /\ AcceptedIsSynced /\ BackupRestores

\* The log keeps the promise of DurableLog.
ImplementsDurableLog == D!Spec
=============================================================================
