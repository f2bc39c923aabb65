-------------------------- MODULE CommandLogProofs --------------------------
(***************************************************************************)
(* The command log and what is kept in, or read from, a log of its kind.   *)
(*                                                                         *)
(* CommandLog, for every set of commands: the log always opens, what was   *)
(* accepted is on the disk, a backup restores, and, taken together, the    *)
(* log implements DurableLog.  The invariant says three things of the      *)
(* file.  It is in order, and only a line that was not synced can be torn, *)
(* only after a crash.  It holds the chain of records, without the command *)
(* whose line is not yet written.  And the callers of the lines that were  *)
(* not synced are in the dark, or still waiting: so what a crash may take  *)
(* from the end of the file was promised to nobody.                        *)
(*                                                                         *)
(* CommandCodec: what is read back of a line is the command that ran.  It  *)
(* rests on the shapes of the two dozen kinds, one table.                  *)
(*                                                                         *)
(* Waitlist: the list in memory is what its lines give.  A line that is    *)
(* accepted changes list and lines alike, and what changes the standings   *)
(* alone is no line.                                                       *)
(*                                                                         *)
(* Feed: what the read model absorbed is what the chain's records give,    *)
(* the sums and sequences that a catch-up adds to being those of the       *)
(* records that came since.                                                *)
(***************************************************************************)
EXTENDS CommandLog, CommandCodec, Waitlist, Feed, SequenceTheorems, Sums

\* In order, and whole but for what a crash left at the end.
FileOK ==
  /\ \A i \in 1 .. Len(file) : file[i].seq = i - 1
  /\ \A i \in 1 .. Len(file) :
       file[i].whole \/ (pc = "down" /\ i = Len(file) /\ i > synced)

\* The file and the chain of records hold the same commands.
ChainOK ==
  /\ pc # "refused"
  /\ pc # "down" =>
       /\ Len(records) = Len(file) + (IF pc = "write" THEN 1 ELSE 0)
       /\ \A i \in 1 .. Len(file) : records[i] = file[i].command
  /\ \A c \in running : records # <<>> /\ records[Len(records)] = c
  /\ pc = "commit" => synced = Len(file)

\* Who waits is being executed; no line is a command that nobody issued, and
\* none that could still be lost was answered.
ToldOK ==
  /\ \A c \in Commands : told[c] = "pending" <=> c \in running
  /\ \A i \in 1 .. Len(file) : told[file[i].command] # "none"
  /\ \A i \in synced + 1 .. Len(file) :
       \/ told[file[i].command] = "unknown"
       \/ pc = "sync" /\ i = Len(file)

LogInv == LogTypeOK /\ FileOK /\ ChainOK /\ ToldOK /\ AcceptedIsSynced

-----------------------------------------------------------------------------
\* Reading the file

\* The beginning of a sequence.
LEMMA Beginning ==
  ASSUME NEW S, NEW s \in Seq(S), NEW n \in 0 .. Len(s)
  PROVE  /\ SubSeq(s, 1, n) \in Seq(S)
         /\ Len(SubSeq(s, 1, n)) = n
         /\ \A i \in 1 .. n : SubSeq(s, 1, n)[i] = s[i]
<1>1. \A i \in 1 .. n : s[i] \in S
  BY ElementOfSeq
<1>2. n \in Int /\ (1 <= n \/ n = 0)
  OBVIOUS
<1>3. /\ SubSeq(s, 1, n) \in Seq(S)
      /\ Len(SubSeq(s, 1, n)) = IF 1 <= n THEN n - 1 + 1 ELSE 0
      /\ \A i \in 1 .. n - 1 + 1 : SubSeq(s, 1, n)[i] = s[1 + i - 1]
  BY <1>1, <1>2, SubSeqProperties
<1> QED
  BY <1>2, <1>3

\* A line is a record of its three fields.
LEMMA LineTyped ==
  ASSUME NEW n \in Nat, NEW c \in Commands
  PROVE  Line(n, c) \in Lines
BY DEF Line, Lines

\* What is read of a file is its whole lines, in order: all but a torn last one,
\* which is after the first `k` when those are whole.
LEMMA ReadLines ==
  ASSUME NEW lines \in Seq(Lines), NEW k \in 0 .. Len(lines),
         \A i \in 1 .. Len(lines) : lines[i].whole \/ (i = Len(lines) /\ i > k)
  PROVE  /\ Readable(lines) \in Seq(Lines)
         /\ Len(Readable(lines)) =
              IF Torn(lines) THEN Len(lines) - 1 ELSE Len(lines)
         /\ \A i \in 1 .. Len(Readable(lines)) : Readable(lines)[i] = lines[i]
         /\ \A i \in 1 .. Len(Readable(lines)) : lines[i].whole
         /\ Torn(lines) => k < Len(lines)
<1>1. CASE Torn(lines)
  <2>1. Len(lines) > 0 /\ ~lines[Len(lines)].whole
    BY <1>1 DEF Torn
  <2>2. k < Len(lines)
    BY <2>1
  <2>3. Readable(lines) = SubSeq(lines, 1, Len(lines) - 1)
    BY <1>1 DEF Readable
  <2>4. Len(lines) - 1 \in 0 .. Len(lines)
    BY <2>1
  <2>5. /\ Readable(lines) \in Seq(Lines)
        /\ Len(Readable(lines)) = Len(lines) - 1
        /\ \A i \in 1 .. Len(lines) - 1 : Readable(lines)[i] = lines[i]
    BY <2>3, <2>4, Beginning
  <2>6. \A i \in 1 .. Len(lines) - 1 : lines[i].whole
    OBVIOUS
  <2> QED
    BY <1>1, <2>2, <2>5, <2>6
<1>2. CASE ~Torn(lines)
  <2>1. Readable(lines) = lines
    BY <1>2 DEF Readable
  <2>2. \A i \in 1 .. Len(lines) : lines[i].whole
    BY <1>2 DEF Torn
  <2> QED
    BY <1>2, <2>1, <2>2
<1> QED
  BY <1>1, <1>2

\* The same of the log's file.
LEMMA ReadFile ==
  ASSUME LogTypeOK, FileOK
  PROVE  /\ Readable(file) \in Seq(Lines)
         /\ Len(Readable(file)) = IF Torn(file) THEN Len(file) - 1 ELSE Len(file)
         /\ \A i \in 1 .. Len(Readable(file)) : Readable(file)[i] = file[i]
         /\ Torn(file) => pc = "down" /\ synced < Len(file)
         /\ Replays(Readable(file))
<1>1. file \in Seq(Lines) /\ Len(file) \in Nat /\ synced \in 0 .. Len(file)
  BY DEF LogTypeOK
<1>2. /\ Readable(file) \in Seq(Lines)
      /\ Len(Readable(file)) = IF Torn(file) THEN Len(file) - 1 ELSE Len(file)
      /\ \A i \in 1 .. Len(Readable(file)) : Readable(file)[i] = file[i]
      /\ \A i \in 1 .. Len(Readable(file)) : file[i].whole
      /\ Torn(file) => synced < Len(file)
  BY <1>1, ReadLines DEF FileOK
<1>3. Torn(file) => pc = "down"
  BY <1>1 DEF FileOK, Torn
<1>4. Replays(Readable(file))
  BY <1>1, <1>2 DEF Replays, FileOK
<1> QED
  BY <1>2, <1>3, <1>4

\* The commands it holds.
LEMMA RecoveredCommands ==
  ASSUME LogTypeOK, FileOK
  PROVE  /\ Recovered \in Seq(Commands)
         /\ Len(Recovered) = Len(Readable(file))
         /\ \A i \in 1 .. Len(Recovered) : Recovered[i] = file[i].command
<1>1. /\ Readable(file) \in Seq(Lines) /\ Len(Readable(file)) \in Nat
      /\ \A i \in 1 .. Len(Readable(file)) : Readable(file)[i] = file[i]
  BY ReadFile
<1>2. \A i \in 1 .. Len(Readable(file)) : Readable(file)[i].command \in Commands
  <2> SUFFICES ASSUME NEW i \in 1 .. Len(Readable(file))
               PROVE  Readable(file)[i].command \in Commands
    OBVIOUS
  <2>1. Readable(file)[i] \in Lines
    BY <1>1, ElementOfSeq
  <2> QED
    BY <2>1 DEF Lines
<1>3. Recovered \in [1 .. Len(Readable(file)) -> Commands]
  BY <1>2 DEF Recovered
<1>4. Recovered \in Seq(Commands) /\ Len(Recovered) = Len(Readable(file))
  BY <1>1, <1>3
<1> QED
  BY <1>1, <1>4 DEF Recovered

-----------------------------------------------------------------------------
\* A stop

\* What the system may have of the file is the file, and the line being
\* written after it; a stop leaves a beginning of that, perhaps with a torn end.
LEMMA Stopped ==
  ASSUME LogInv, Crash
  PROVE  \E n \in synced .. Len(file) + 1 :
           /\ n <= Len(file) \/ (pc = "write" /\ n = Len(file) + 1)
           /\ file' \in Seq(Lines) /\ Len(file') = n
           /\ \A i \in 1 .. n : file'[i].seq = i - 1
           /\ \A i \in 1 .. n : file'[i].whole \/ (i = n /\ i > synced)
           /\ \A i \in 1 .. n : i <= synced => file'[i] = file[i]
           /\ \A i \in 1 .. n : file'[i].command =
                IF i <= Len(file) THEN file[i].command ELSE records[Len(records)]
<1>1. /\ file \in Seq(Lines) /\ Len(file) \in Nat /\ synced \in 0 .. Len(file)
      /\ records \in Seq(Commands) /\ Len(records) \in Nat
  BY DEF LogInv, LogTypeOK
<1>2. /\ pc # "down"
      /\ \A i \in 1 .. Len(file) : file[i].whole /\ file[i].seq = i - 1
      /\ ~Torn(file)
  <2>1. pc # "down"
    BY DEF Crash
  <2>2. \A i \in 1 .. Len(file) : file[i].whole /\ file[i].seq = i - 1
    BY <2>1 DEF LogInv, FileOK
  <2>3. file # <<>> => Len(file) \in 1 .. Len(file)
    BY <1>1
  <2> QED
    BY <2>1, <2>2, <2>3 DEF Torn
<1>3. PICK lines \in Written : \E n \in synced .. Len(lines), torn \in BOOLEAN :
        /\ torn => n > synced
        /\ file' = IF torn THEN [SubSeq(lines, 1, n) EXCEPT ![n] = Tear(@)]
                   ELSE SubSeq(lines, 1, n)
  BY DEF Crash
<1>4. /\ lines \in Seq(Lines) /\ Len(lines) \in Nat
      /\ \/ Len(lines) = Len(file)
         \/ Len(lines) = Len(file) + 1 /\ pc = "write"
      /\ \A i \in 1 .. Len(file) : lines[i] = file[i]
      /\ \A i \in 1 .. Len(lines) : lines[i].whole /\ lines[i].seq = i - 1
      /\ \A i \in 1 .. Len(lines) : lines[i].command =
           IF i <= Len(file) THEN file[i].command ELSE records[Len(records)]
  <2>1. CASE lines = file
    BY <1>1, <1>2, <2>1
  <2>2. CASE lines # file
    <3>1. PICK c \in running : lines = Extend(file, NewLine(c)) /\ pc = "write"
      BY <1>3, <2>2 DEF Written
    <3>2. /\ c \in Commands /\ Len(records) = Len(file) + 1
          /\ records[Len(records)] = c
      BY <1>1, <3>1 DEF LogInv, LogTypeOK, ChainOK
    <3>3. lines = Append(file, Line(Len(file), c))
      <4>1. lines = Append(file, NewLine(c))
        BY <1>2, <3>1, Zenon DEF Extend
      <4>2. Len(records) - 1 = Len(file)
        BY <1>1, <3>2
      <4> QED
        BY <4>1, <4>2, Zenon DEF NewLine
    <3>4. Line(Len(file), c) \in Lines
      BY <1>1, <3>2, LineTyped
    <3>5. /\ lines \in Seq(Lines) /\ Len(lines) = Len(file) + 1
          /\ \A i \in 1 .. Len(file) : lines[i] = file[i]
          /\ lines[Len(file) + 1] = Line(Len(file), c)
      BY <1>1, <3>3, <3>4, AppendProperties
    <3>6. /\ Line(Len(file), c).whole /\ Line(Len(file), c).seq = Len(file)
          /\ Line(Len(file), c).command = c
      BY DEF Line
    <3> QED
      BY <1>1, <1>2, <3>1, <3>2, <3>5, <3>6, SMTT(30)
  <2> QED
    BY <2>1, <2>2
<1>5. PICK n \in synced .. Len(lines), torn \in BOOLEAN :
        /\ torn => n > synced
        /\ file' = IF torn THEN [SubSeq(lines, 1, n) EXCEPT ![n] = Tear(@)]
                   ELSE SubSeq(lines, 1, n)
  BY <1>3
<1> DEFINE cut == SubSeq(lines, 1, n)
<1>6. /\ n \in 0 .. Len(lines) /\ n \in Nat
      /\ n \in synced .. Len(file) + 1
      /\ n <= Len(file) \/ (pc = "write" /\ n = Len(file) + 1)
  BY <1>1, <1>4, <1>5
<1>7. /\ cut \in Seq(Lines) /\ Len(cut) = n
      /\ \A i \in 1 .. n : cut[i] = lines[i]
  BY <1>4, <1>6, Beginning
<1>8. /\ file' \in Seq(Lines) /\ Len(file') = n
      /\ \A i \in 1 .. n :
           /\ file'[i].seq = lines[i].seq
           /\ file'[i].command = lines[i].command
           /\ file'[i].whole \/ (i = n /\ i > synced)
           /\ i <= synced => file'[i] = lines[i]
  <2>1. CASE ~torn
    BY <1>4, <1>5, <1>6, <1>7, <2>1
  <2>2. CASE torn
    <3> DEFINE last == Tear(cut[n])
    <3>1. n > synced /\ n \in 1 .. Len(cut)
      BY <1>1, <1>5, <1>6, <1>7, <2>2
    <3>2. cut[n] \in Lines
      BY <1>7, <3>1, ElementOfSeq
    <3>3. /\ last \in Lines /\ last.seq = cut[n].seq
          /\ last.command = cut[n].command
      BY <3>2 DEF Lines, Tear
    <3>4. file' = [cut EXCEPT ![n] = last]
      BY <1>5, <2>2
    <3> HIDE DEF last, cut
    <3>5. /\ file' \in Seq(Lines) /\ Len(file') = n
          /\ \A i \in 1 .. n : file'[i] = IF i = n THEN last ELSE cut[i]
      BY <1>7, <3>1, <3>3, <3>4, ExceptSeq
    <3> QED
      BY <1>1, <1>4, <1>6, <1>7, <3>1, <3>3, <3>5
  <2> QED
    BY <2>1, <2>2
<1>9. \A i \in 1 .. n : i <= synced => lines[i] = file[i]
  BY <1>1, <1>4
<1> HIDE DEF cut
<1>10. ASSUME NEW i \in 1 .. n
       PROVE  /\ file'[i].seq = i - 1
              /\ file'[i].whole \/ (i = n /\ i > synced)
              /\ i <= synced => file'[i] = file[i]
              /\ file'[i].command =
                   IF i <= Len(file) THEN file[i].command ELSE records[Len(records)]
  <2>1. i \in 1 .. Len(lines)
    BY <1>4, <1>6
  <2>2. /\ lines[i].seq = i - 1
        /\ lines[i].command =
             IF i <= Len(file) THEN file[i].command ELSE records[Len(records)]
    BY <1>4, <2>1
  <2>3. /\ file'[i].seq = lines[i].seq /\ file'[i].command = lines[i].command
        /\ file'[i].whole \/ (i = n /\ i > synced)
        /\ i <= synced => file'[i] = lines[i]
    BY <1>8, Zenon
  <2>4. i <= synced => lines[i] = file[i]
    BY <1>9
  <2> QED
    BY <2>2, <2>3, <2>4, Zenon
<1> QED
  BY <1>6, <1>8, <1>10

-----------------------------------------------------------------------------
\* The invariant, action by action

LEMMA LogInitially == LogInit => LogInv
<1> SUFFICES ASSUME LogInit PROVE LogInv
  OBVIOUS
<1>1. records = <<>> /\ file = <<>> /\ synced = 0 /\ pc = "idle" /\ running = {}
      /\ told = [c \in Commands |-> "none"]
  BY DEF LogInit
<1>2. LogTypeOK
  BY <1>1 DEF LogTypeOK
<1>3. FileOK /\ ChainOK /\ ToldOK /\ AcceptedIsSynced
  BY <1>1 DEF FileOK, ChainOK, ToldOK, AcceptedIsSynced
<1> QED
  BY <1>2, <1>3 DEF LogInv

LEMMA ExecuteKeeps ==
  ASSUME LogInv, NEW c \in Commands, RunCommand(c)
  PROVE  LogInv'
<1>1. /\ pc = "idle" /\ told[c] = "none" /\ running' = {c}
      /\ records' = Append(records, c) /\ pc' = "write"
      /\ told' = [told EXCEPT ![c] = "pending"]
      /\ file' = file /\ synced' = synced
  BY DEF RunCommand
<1>2. /\ records \in Seq(Commands) /\ Len(records) \in Nat
      /\ file \in Seq(Lines) /\ Len(file) \in Nat /\ synced \in 0 .. Len(file)
      /\ running = {}
      /\ told \in [Commands -> {"none", "pending", "accepted", "rejected",
                                "unknown"}]
  BY <1>1 DEF LogInv, LogTypeOK
<1>3. /\ records' \in Seq(Commands) /\ Len(records') = Len(records) + 1
      /\ \A i \in 1 .. Len(records) : records'[i] = records[i]
      /\ records'[Len(records) + 1] = c /\ records' # <<>>
  BY <1>1, <1>2, AppendProperties
<1>4. LogTypeOK'
  BY <1>1, <1>2, <1>3 DEF LogTypeOK
<1>5. FileOK'
  BY <1>1 DEF LogInv, FileOK
<1>6. ChainOK'
  BY <1>1, <1>2, <1>3 DEF LogInv, ChainOK
<1>7. \A i \in 1 .. Len(file) : file[i].command # c
  BY <1>1 DEF LogInv, ToldOK
<1>8. \A i \in 1 .. Len(file) : file[i].command \in Commands
  <2> SUFFICES ASSUME NEW i \in 1 .. Len(file) PROVE file[i].command \in Commands
    OBVIOUS
  <2>1. file[i] \in Lines
    BY <1>2, ElementOfSeq
  <2> QED
    BY <2>1 DEF Lines
<1>9. \A i \in 1 .. Len(file) : told'[file[i].command] = told[file[i].command]
  BY <1>1, <1>2, <1>7, <1>8
<1>10. ToldOK'
  <2>1. \A d \in Commands : told'[d] = "pending" <=> d \in running'
    BY <1>1, <1>2 DEF LogInv, ToldOK
  <2>2. \A i \in 1 .. Len(file) : told'[file[i].command] # "none"
    BY <1>9 DEF LogInv, ToldOK
  <2>3. \A i \in synced + 1 .. Len(file) : told'[file[i].command] = "unknown"
    BY <1>1, <1>2, <1>9 DEF LogInv, ToldOK
  <2> QED
    BY <1>1, <2>1, <2>2, <2>3 DEF ToldOK
<1>11. AcceptedIsSynced'
  BY <1>1, <1>2 DEF LogInv, AcceptedIsSynced
<1> QED
  BY <1>4, <1>5, <1>6, <1>10, <1>11 DEF LogInv

LEMMA WriteKeeps ==
  ASSUME LogInv, NEW c \in Commands, Write(c)
  PROVE  LogInv'
<1>1. /\ pc = "write" /\ running = {c} /\ pc' = "sync"
      /\ file' = Extend(file, NewLine(c))
      /\ records' = records /\ running' = running /\ synced' = synced
      /\ told' = told
  BY Zenon DEF Write
<1>2. /\ records \in Seq(Commands) /\ Len(records) \in Nat
      /\ file \in Seq(Lines) /\ Len(file) \in Nat /\ synced \in 0 .. Len(file)
      /\ told \in [Commands -> {"none", "pending", "accepted", "rejected",
                                "unknown"}]
  BY DEF LogInv, LogTypeOK
<1>3. /\ Len(records) = Len(file) + 1 /\ records[Len(records)] = c
      /\ \A i \in 1 .. Len(file) : records[i] = file[i].command
  BY <1>1, <1>2 DEF LogInv, ChainOK
<1>4. \A i \in 1 .. Len(file) : file[i].whole /\ file[i].seq = i - 1
  BY <1>1 DEF LogInv, FileOK
<1>5. ~Torn(file)
  BY <1>2, <1>4 DEF Torn
<1> DEFINE line == Line(Len(file), c)
<1>6. file' = Append(file, line)
  <2>1. file' = Append(file, NewLine(c))
    BY <1>1, <1>5, Zenon DEF Extend
  <2>2. Len(records) - 1 = Len(file)
    BY <1>2, <1>3
  <2> QED
    BY <2>1, <2>2, Zenon DEF NewLine
<1>7. /\ line \in Lines /\ line.whole /\ line.seq = Len(file)
      /\ line.command = c
  <2>1. line \in Lines
    BY <1>2, LineTyped
  <2> QED
    BY <2>1 DEF Line
<1> HIDE DEF line
<1>8. /\ file' \in Seq(Lines) /\ Len(file') = Len(file) + 1
      /\ \A i \in 1 .. Len(file) : file'[i] = file[i]
      /\ file'[Len(file) + 1] = line
  BY <1>2, <1>6, <1>7, AppendProperties
<1>9. LogTypeOK'
  BY <1>1, <1>2, <1>8 DEF LogInv, LogTypeOK
<1>10. \A i \in 1 .. Len(file') : file'[i].whole /\ file'[i].seq = i - 1
  BY <1>2, <1>4, <1>7, <1>8, SMTT(30)
<1>11. FileOK'
  BY <1>10 DEF FileOK
<1>12. \A i \in 1 .. Len(file') : records[i] = file'[i].command
  BY <1>2, <1>3, <1>7, <1>8
<1>13. ChainOK'
  BY <1>1, <1>2, <1>3, <1>8, <1>12 DEF LogInv, ChainOK
<1>14. ToldOK'
  <2>1. told[c] = "pending"
    BY <1>1 DEF LogInv, ToldOK
  <2>2. \A i \in 1 .. Len(file') : told[file'[i].command] # "none"
    BY <1>2, <1>7, <1>8, <2>1 DEF LogInv, ToldOK
  <2>3. \A i \in synced + 1 .. Len(file') :
          told[file'[i].command] = "unknown" \/ i = Len(file')
    BY <1>1, <1>2, <1>8 DEF LogInv, ToldOK
  <2> QED
    BY <1>1, <2>2, <2>3 DEF LogInv, ToldOK
<1>15. AcceptedIsSynced'
  BY <1>1, <1>2, <1>8 DEF LogInv, AcceptedIsSynced
<1> QED
  BY <1>9, <1>11, <1>13, <1>14, <1>15 DEF LogInv

LEMMA SyncKeeps == LogInv /\ Sync => LogInv'
<1> SUFFICES ASSUME LogInv, Sync PROVE LogInv'
  OBVIOUS
<1>1. /\ pc = "sync" /\ pc' = "commit" /\ synced' = Len(file)
      /\ records' = records /\ running' = running /\ file' = file
      /\ told' = told
  BY DEF Sync
<1>2. file \in Seq(Lines) /\ Len(file) \in Nat /\ synced \in 0 .. Len(file)
  BY DEF LogInv, LogTypeOK
<1>3. LogTypeOK'
  BY <1>1, <1>2 DEF LogInv, LogTypeOK
<1>4. FileOK'
  BY <1>1 DEF LogInv, FileOK
<1>5. ChainOK' /\ ToldOK'
  BY <1>1, <1>2 DEF LogInv, ChainOK, ToldOK
<1>6. AcceptedIsSynced'
  BY <1>1, <1>2 DEF LogInv, AcceptedIsSynced
<1> QED
  BY <1>3, <1>4, <1>5, <1>6 DEF LogInv

LEMMA CommitKeeps ==
  ASSUME LogInv, NEW c \in Commands, Commit(c)
  PROVE  LogInv'
<1>1. /\ pc = "commit" /\ running = {c} /\ pc' = "idle" /\ running' = {}
      /\ told' = [told EXCEPT ![c] = "accepted"]
      /\ records' = records /\ file' = file /\ synced' = synced
  BY DEF Commit
<1>2. /\ records \in Seq(Commands) /\ Len(records) \in Nat
      /\ file \in Seq(Lines) /\ Len(file) \in Nat /\ synced = Len(file)
      /\ told \in [Commands -> {"none", "pending", "accepted", "rejected",
                                "unknown"}]
  BY <1>1 DEF LogInv, LogTypeOK, ChainOK
<1>3. /\ Len(records) = Len(file) /\ records # <<>> /\ records[Len(records)] = c
      /\ \A i \in 1 .. Len(file) : records[i] = file[i].command
  BY <1>1, <1>2 DEF LogInv, ChainOK
<1>4. LogTypeOK'
  BY <1>1, <1>2 DEF LogInv, LogTypeOK
<1>5. FileOK'
  BY <1>1 DEF LogInv, FileOK
<1>6. ChainOK'
  BY <1>1, <1>2, <1>3 DEF LogInv, ChainOK
<1>7. ToldOK'
  <2>1. \A d \in Commands : told'[d] = "pending" <=> d \in running'
    BY <1>1, <1>2 DEF LogInv, ToldOK
  <2>2. \A i \in 1 .. Len(file) : told'[file[i].command] # "none"
    BY <1>1, <1>2 DEF LogInv, ToldOK
  <2> QED
    BY <1>1, <1>2, <2>1, <2>2 DEF ToldOK
<1>8. AcceptedIsSynced'
  <2>1. Len(file) \in 1 .. synced
    BY <1>2, <1>3
  <2>2. file[Len(file)].whole
    BY <1>1, <1>2, <2>1 DEF LogInv, FileOK
  <2>3. file[Len(file)].command = c
    BY <1>2, <1>3, <2>1
  <2> QED
    BY <1>1, <1>2, <2>1, <2>2, <2>3 DEF LogInv, AcceptedIsSynced
<1> QED
  BY <1>4, <1>5, <1>6, <1>7, <1>8 DEF LogInv

LEMMA CrashKeeps == LogInv /\ Crash => LogInv'
<1> SUFFICES ASSUME LogInv, Crash PROVE LogInv'
  OBVIOUS
<1>1. PICK n \in synced .. Len(file) + 1 :
        /\ n <= Len(file) \/ (pc = "write" /\ n = Len(file) + 1)
        /\ file' \in Seq(Lines) /\ Len(file') = n
        /\ \A i \in 1 .. n : file'[i].seq = i - 1
        /\ \A i \in 1 .. n : file'[i].whole \/ (i = n /\ i > synced)
        /\ \A i \in 1 .. n : i <= synced => file'[i] = file[i]
        /\ \A i \in 1 .. n : file'[i].command =
             IF i <= Len(file) THEN file[i].command ELSE records[Len(records)]
  BY Stopped
<1>2. /\ pc' = "down" /\ records' = <<>> /\ running' = {} /\ synced' = synced
      /\ told' = [c \in Commands |-> IF c \in running THEN "unknown" ELSE told[c]]
  BY DEF Crash
<1>3. /\ file \in Seq(Lines) /\ Len(file) \in Nat /\ synced \in 0 .. Len(file)
      /\ told \in [Commands -> {"none", "pending", "accepted", "rejected",
                                "unknown"}]
      /\ n \in Nat /\ records \in Seq(Commands)
  BY <1>1 DEF LogInv, LogTypeOK
<1>4. LogTypeOK'
  BY <1>1, <1>2, <1>3 DEF LogTypeOK
<1>5. FileOK'
  BY <1>1, <1>2 DEF FileOK
<1>6. ChainOK'
  BY <1>2 DEF ChainOK
<1>7. \A i \in 1 .. n : i <= Len(file) => file'[i].command = file[i].command
  BY <1>1
<1>8. \A i \in 1 .. Len(file) : file[i].command \in Commands
  <2> SUFFICES ASSUME NEW i \in 1 .. Len(file) PROVE file[i].command \in Commands
    OBVIOUS
  <2>1. file[i] \in Lines
    BY <1>3, ElementOfSeq
  <2> QED
    BY <2>1 DEF Lines
<1>9. n > Len(file) => /\ n = Len(file) + 1 /\ file'[n].command \in running
                       /\ file'[n].command \in Commands
  <2> SUFFICES ASSUME n > Len(file)
               PROVE  /\ n = Len(file) + 1 /\ file'[n].command \in running
                      /\ file'[n].command \in Commands
    OBVIOUS
  <2>1. pc = "write" /\ n = Len(file) + 1
    BY <1>1, <1>3
  <2>2. PICK c \in Commands : running = {c}
    BY <2>1 DEF LogInv, LogTypeOK
  <2>3. records[Len(records)] = c
    BY <2>2 DEF LogInv, ChainOK
  <2>4. n \in 1 .. n /\ ~(n <= Len(file))
    BY <1>3, <2>1
  <2>5. file'[n].command = records[Len(records)]
    BY <1>1, <2>4
  <2> QED
    BY <2>1, <2>2, <2>3, <2>5
<1>10. ToldOK'
  <2>1. \A c \in Commands : told'[c] # "pending"
    BY <1>2, <1>3 DEF LogInv, ToldOK
  <2>2. \A i \in 1 .. n : told'[file'[i].command] # "none"
    BY <1>2, <1>3, <1>7, <1>8, <1>9 DEF LogInv, ToldOK
  <2>3. ASSUME NEW i \in synced + 1 .. n PROVE told'[file'[i].command] = "unknown"
    <3>1. CASE i > Len(file)
      BY <1>1, <1>2, <1>3, <1>9, <3>1
    <3>2. CASE i <= Len(file)
      <4>1. i \in 1 .. n /\ i \in 1 .. Len(file) /\ i \in synced + 1 .. Len(file)
        BY <1>3, <3>2
      <4>2. file'[i].command = file[i].command /\ file[i].command \in Commands
        BY <1>7, <1>8, <4>1
      <4>3. CASE told[file[i].command] = "unknown"
        BY <1>2, <4>2, <4>3
      <4>4. CASE pc = "sync" /\ i = Len(file)
        <5>1. PICK c \in Commands : running = {c}
          BY <4>4 DEF LogInv, LogTypeOK
        <5>2. file[i].command = c
          BY <1>3, <4>1, <4>4, <5>1 DEF LogInv, ChainOK
        <5> QED
          BY <1>2, <4>2, <5>1, <5>2
      <4> QED
        BY <4>1, <4>3, <4>4 DEF LogInv, ToldOK
    <3> QED
      BY <1>3, <3>1, <3>2
  <2> QED
    BY <1>1, <1>2, <2>1, <2>2, <2>3 DEF ToldOK
<1>11. AcceptedIsSynced'
  <2>1. ASSUME NEW c \in Commands, told'[c] = "accepted"
        PROVE  \E i \in 1 .. synced : file'[i].whole /\ file'[i].command = c
    <3>1. told[c] = "accepted"
      BY <1>2, <2>1
    <3>2. PICK i \in 1 .. synced : file[i].whole /\ file[i].command = c
      BY <3>1 DEF LogInv, AcceptedIsSynced
    <3>3. i \in 1 .. n /\ i <= synced
      BY <1>1, <1>3
    <3> QED
      BY <1>1, <3>2, <3>3
  <2> QED
    BY <1>2, <2>1 DEF AcceptedIsSynced
<1> QED
  BY <1>4, <1>5, <1>6, <1>10, <1>11 DEF LogInv

LEMMA OpenKeeps == LogInv /\ Open => LogInv'
<1> SUFFICES ASSUME LogInv, Open PROVE LogInv'
  OBVIOUS
<1> DEFINE lines == Readable(file)
<1>1. /\ lines \in Seq(Lines)
      /\ Len(lines) = IF Torn(file) THEN Len(file) - 1 ELSE Len(file)
      /\ \A i \in 1 .. Len(lines) : lines[i] = file[i]
      /\ Torn(file) => synced < Len(file)
      /\ Replays(lines)
  BY ReadFile DEF LogInv
<1>2. /\ Recovered \in Seq(Commands) /\ Len(Recovered) = Len(lines)
      /\ \A i \in 1 .. Len(Recovered) : Recovered[i] = file[i].command
  BY RecoveredCommands DEF LogInv
<1> HIDE DEF lines
<1>3. /\ pc = "down" /\ pc' = "idle" /\ file' = lines /\ records' = Recovered
      /\ synced' = IF synced > Len(lines) THEN Len(lines) ELSE synced
      /\ running' = running /\ told' = told
  BY <1>1 DEF Open, lines
<1>4. /\ Len(file) \in Nat /\ Len(lines) \in Nat /\ synced \in 0 .. Len(file)
      /\ synced <= Len(lines) /\ Len(lines) <= Len(file) /\ running = {}
  BY <1>1, <1>3 DEF LogInv, LogTypeOK
<1>5. synced' = synced
  BY <1>3, <1>4
<1>6. LogTypeOK'
  BY <1>1, <1>2, <1>3, <1>4, <1>5 DEF LogInv, LogTypeOK
<1>7. FileOK'
  BY <1>1, <1>3 DEF Replays, FileOK
<1>8. ChainOK'
  <2>1. \A i \in 1 .. Len(lines) : Recovered[i] = lines[i].command
    BY <1>1, <1>2
  <2> QED
    BY <1>2, <1>3, <1>4, <2>1 DEF ChainOK
<1>9. ToldOK'
  <2>1. \A i \in 1 .. Len(lines) : told[lines[i].command] # "none"
    BY <1>1, <1>4 DEF LogInv, ToldOK
  <2>2. \A i \in synced + 1 .. Len(lines) : told[lines[i].command] = "unknown"
    BY <1>1, <1>3, <1>4 DEF LogInv, ToldOK
  <2> QED
    BY <1>3, <1>5, <2>1, <2>2 DEF LogInv, ToldOK
<1>10. AcceptedIsSynced'
  BY <1>1, <1>3, <1>4, <1>5, SMTT(30) DEF LogInv, AcceptedIsSynced
<1> QED
  BY <1>6, <1>7, <1>8, <1>9, <1>10 DEF LogInv

LEMMA LogKeeps == LogInv /\ [LogNext]_logVars => LogInv'
<1> SUFFICES ASSUME LogInv, [LogNext]_logVars PROVE LogInv'
  OBVIOUS
<1>1. ASSUME NEW c \in Commands, RunCommand(c) PROVE LogInv'
  BY <1>1, ExecuteKeeps
<1>2. ASSUME NEW c \in Commands, Write(c) PROVE LogInv'
  BY <1>2, WriteKeeps
<1>3. CASE Sync
  BY <1>3, SyncKeeps
<1>4. ASSUME NEW c \in Commands, Commit(c) PROVE LogInv'
  BY <1>4, CommitKeeps
<1>5. CASE Crash
  BY <1>5, CrashKeeps
<1>6. CASE Open
  BY <1>6, OpenKeeps
<1>7. CASE UNCHANGED logVars
  BY <1>7 DEF logVars, LogInv, LogTypeOK, FileOK, ChainOK, ToldOK, AcceptedIsSynced
<1> QED
  BY <1>1, <1>2, <1>3, <1>4, <1>5, <1>6, <1>7 DEF LogNext

THEOREM LogInvariant == LogSpec => []LogInv
  BY LogInitially, LogKeeps, PTL DEF LogSpec

-----------------------------------------------------------------------------
\* The promises

LEMMA InvariantKeepsLog == LogInv => LogKept
<1> SUFFICES ASSUME LogInv PROVE LogKept
  OBVIOUS
<1>1. AlwaysOpens /\ AcceptedIsSynced
  BY DEF LogInv, ChainOK, AlwaysOpens
<1>2. ASSUME MayBackUp PROVE Replays(file) /\ Recovered = records
  <2>1. pc = "idle"
    BY <1>2 DEF MayBackUp
  <2>2. /\ file \in Seq(Lines) /\ records \in Seq(Commands)
        /\ Len(records) = Len(file)
        /\ \A i \in 1 .. Len(file) : records[i] = file[i].command
    BY <2>1 DEF LogInv, LogTypeOK, ChainOK
  <2>3. ~Torn(file) /\ Replays(Readable(file))
        /\ Len(Readable(file)) = IF Torn(file) THEN Len(file) - 1 ELSE Len(file)
    BY <2>1, ReadFile DEF LogInv
  <2>4. Readable(file) = file
    BY <2>3, Zenon DEF Readable
  <2>5. /\ Recovered \in Seq(Commands) /\ Len(Recovered) = Len(file)
        /\ \A i \in 1 .. Len(Recovered) : Recovered[i] = file[i].command
    BY <2>4, RecoveredCommands DEF LogInv
  <2>6. Recovered = records
    BY <2>2, <2>5, SeqEqual
  <2> QED
    BY <2>3, <2>4, <2>6
<1> QED
  BY <1>1, <1>2 DEF LogKept, BackupRestores

\* Whatever a crash leaves of the file, the log opens again (store.ts
\* `openEngine` throws on a line out of place); an accepted command is on the
\* disk; and a backup made between two commands restores to what it says.
THEOREM LogIsKept == LogSpec => []LogKept
  BY LogInvariant, InvariantKeepsLog, PTL

-----------------------------------------------------------------------------
\* The refinement of DurableLog

\* The commands in effect are those of the file's first lines.
LEMMA EffectIsOnFile ==
  ASSUME LogInv
  PROVE  /\ InEffect \in Seq(Commands)
         /\ Len(InEffect) = IF pc = "down" THEN Len(Readable(file))
                            ELSE IF pc \in {"sync", "commit"} THEN Len(file) - 1
                            ELSE Len(file)
         /\ Len(InEffect) <= Len(file)
         /\ \A i \in 1 .. Len(InEffect) : InEffect[i] = file[i].command
<1>1. /\ file \in Seq(Lines) /\ Len(file) \in Nat
      /\ records \in Seq(Commands) /\ Len(records) \in Nat
      /\ pc \in {"idle", "write", "sync", "commit", "down"}
      /\ running # {} <=> pc \in {"write", "sync", "commit"}
  BY DEF LogInv, LogTypeOK, ChainOK
<1>2. CASE pc = "down"
  <2>1. InEffect = Recovered
    BY <1>2 DEF InEffect
  <2>2. Len(Readable(file)) <= Len(file)
    BY <1>1, ReadFile DEF LogInv
  <2> QED
    BY <1>2, <2>1, <2>2, RecoveredCommands DEF LogInv
<1>3. CASE pc = "idle"
  <2>1. InEffect = records
    BY <1>1, <1>3 DEF InEffect
  <2> QED
    BY <1>1, <1>3, <2>1 DEF LogInv, ChainOK
<1>4. CASE pc \in {"write", "sync", "commit"}
  <2>1. InEffect = SubSeq(records, 1, Len(records) - 1)
    BY <1>1, <1>4 DEF InEffect
  <2>2. /\ Len(records) = Len(file) + (IF pc = "write" THEN 1 ELSE 0)
        /\ \A i \in 1 .. Len(file) : records[i] = file[i].command
        /\ Len(records) > 0
    BY <1>1, <1>4 DEF LogInv, ChainOK
  <2>3. Len(records) - 1 \in 0 .. Len(records)
    BY <1>1, <2>2
  <2>4. /\ InEffect \in Seq(Commands) /\ Len(InEffect) = Len(records) - 1
        /\ \A i \in 1 .. Len(records) - 1 : InEffect[i] = records[i]
    BY <1>1, <2>1, <2>3, Beginning
  <2> QED
    BY <1>1, <1>4, <2>2, <2>4
<1> QED
  BY <1>1, <1>2, <1>3, <1>4

\* The command being executed comes next.
LEMMA ExecutingIsNext ==
  ASSUME LogInv, NEW c \in Commands, running = {c}
  PROVE  records = Append(InEffect, c)
<1>1. /\ records \in Seq(Commands) /\ Len(records) \in Nat
      /\ records # <<>> /\ records[Len(records)] = c
      /\ pc \in {"write", "sync", "commit"}
  BY DEF LogInv, LogTypeOK, ChainOK
<1>2. Len(records) - 1 \in 0 .. Len(records)
  BY <1>1
<1>3. InEffect = SubSeq(records, 1, Len(records) - 1)
  BY <1>1 DEF InEffect
<1>4. /\ InEffect \in Seq(Commands) /\ Len(InEffect) = Len(records) - 1
      /\ \A i \in 1 .. Len(records) - 1 : InEffect[i] = records[i]
  BY <1>1, <1>2, <1>3, Beginning
<1>5. /\ Append(InEffect, c) \in Seq(Commands)
      /\ Len(Append(InEffect, c)) = Len(records)
      /\ \A i \in 1 .. Len(InEffect) : Append(InEffect, c)[i] = InEffect[i]
      /\ Append(InEffect, c)[Len(InEffect) + 1] = c
  BY <1>1, <1>4, AppendProperties
<1>6. \A i \in 1 .. Len(records) : records[i] = Append(InEffect, c)[i]
  BY <1>1, <1>4, <1>5
<1> QED
  BY <1>1, <1>5, <1>6, SeqEqual

\* Executing submits the command.
LEMMA ExecuteSubmits ==
  ASSUME LogInv, NEW c \in Commands, RunCommand(c)
  PROVE  D!Submit(c)
<1>1. /\ pc = "idle" /\ told[c] = "none" /\ running' = {c} /\ pc' = "write"
      /\ records' = Append(records, c) /\ told' = [told EXCEPT ![c] = "pending"]
  BY DEF RunCommand
<1>2. records \in Seq(Commands) /\ running = {}
  BY <1>1 DEF LogInv, LogTypeOK
<1>3. LogInv'
  BY ExecuteKeeps
<1>4. InEffect = records
  BY <1>1, <1>2 DEF InEffect
<1>5. InEffect' = SubSeq(records', 1, Len(records') - 1)
  BY <1>1 DEF InEffect
<1>6. /\ Append(records, c) \in Seq(Commands) /\ Len(records) \in Nat
      /\ Len(Append(records, c)) = Len(records) + 1
      /\ \A i \in 1 .. Len(records) : Append(records, c)[i] = records[i]
  BY <1>2, AppendProperties
<1>7. /\ InEffect' \in Seq(Commands) /\ Len(InEffect') = Len(records)
      /\ \A i \in 1 .. Len(records) : InEffect'[i] = records[i]
  <2>1. Len(records') - 1 = Len(records) /\ Len(records) \in 0 .. Len(records')
    BY <1>1, <1>6
  <2>2. InEffect' = SubSeq(records', 1, Len(records))
    BY <1>5, <2>1
  <2> QED
    BY <1>1, <1>6, <2>1, <2>2, Beginning
<1>8. InEffect' = InEffect
  BY <1>2, <1>4, <1>7, SeqEqual
<1>9. \A d \in Commands : told[d] # "pending"
  BY <1>2 DEF LogInv, ToldOK
<1> QED
  BY <1>1, <1>8, <1>9 DEF D!Submit

\* Committing accepts it.
LEMMA CommitAccepts ==
  ASSUME LogInv, NEW c \in Commands, Commit(c)
  PROVE  D!Accept(c)
<1>1. /\ running = {c} /\ running' = {} /\ pc' = "idle" /\ records' = records
      /\ told' = [told EXCEPT ![c] = "accepted"]
  BY DEF Commit
<1>2. told[c] = "pending"
  BY <1>1 DEF LogInv, ToldOK
<1>3. InEffect' = records
  BY <1>1 DEF InEffect
<1>4. records = Append(InEffect, c)
  BY <1>1, ExecutingIsNext
<1> QED
  BY <1>1, <1>2, <1>3, <1>4 DEF D!Accept

\* A stop settles whether the command being executed took effect, and loses
\* from the end only what nobody was promised.
LEMMA CrashIsCrash == LogInv /\ Crash => D!Crash
<1> SUFFICES ASSUME LogInv, Crash PROVE D!Crash
  OBVIOUS
<1> DEFINE kept == Readable(file')
           m == Len(kept)
<1>1. PICK n \in synced .. Len(file) + 1 :
        /\ n <= Len(file) \/ (pc = "write" /\ n = Len(file) + 1)
        /\ file' \in Seq(Lines) /\ Len(file') = n
        /\ \A i \in 1 .. n : file'[i].seq = i - 1
        /\ \A i \in 1 .. n : file'[i].whole \/ (i = n /\ i > synced)
        /\ \A i \in 1 .. n : i <= synced => file'[i] = file[i]
        /\ \A i \in 1 .. n : file'[i].command =
             IF i <= Len(file) THEN file[i].command ELSE records[Len(records)]
  BY Stopped
<1>2. /\ pc' = "down" /\ synced' = synced /\ pc # "down"
      /\ told' = [c \in Commands |-> IF c \in running THEN "unknown" ELSE told[c]]
  BY DEF Crash
<1>3. LogInv'
  BY CrashKeeps
<1>4. /\ file \in Seq(Lines) /\ Len(file) \in Nat /\ synced \in 0 .. Len(file)
      /\ pc \in {"idle", "write", "sync", "commit"}
      /\ running # {} <=> pc \in {"write", "sync", "commit"}
      /\ n \in Nat
  BY <1>1, <1>2 DEF LogInv, LogTypeOK, ChainOK
<1>5. /\ kept \in Seq(Lines) /\ m \in Nat /\ synced <= m /\ m <= n
      /\ \A i \in 1 .. m : kept[i] = file'[i]
  <2>1. synced \in 0 .. Len(file')
    BY <1>1, <1>4
  <2>2. /\ kept \in Seq(Lines)
        /\ m = IF Torn(file') THEN Len(file') - 1 ELSE Len(file')
        /\ \A i \in 1 .. m : kept[i] = file'[i]
        /\ Torn(file') => synced < Len(file')
    BY <1>1, <2>1, ReadLines
  <2> QED
    BY <1>1, <1>4, <2>2
<1> HIDE DEF m
<1>6. /\ InEffect' \in Seq(Commands) /\ Len(InEffect') = m
      /\ \A i \in 1 .. m : InEffect'[i] = file'[i].command
  <2>1. InEffect' = [i \in 1 .. m |-> kept[i].command]
    BY <1>2 DEF InEffect, Recovered, m
  <2>2. \A i \in 1 .. m : kept[i].command \in Commands
    <3> SUFFICES ASSUME NEW i \in 1 .. m PROVE kept[i].command \in Commands
      OBVIOUS
    <3>1. kept[i] \in Lines
      BY <1>5, ElementOfSeq DEF m
    <3> QED
      BY <3>1 DEF Lines
  <2> HIDE DEF kept
  <2> QED
    BY <1>5, <2>1, <2>2
<1>7. /\ InEffect \in Seq(Commands)
      /\ Len(InEffect) = IF pc \in {"sync", "commit"} THEN Len(file) - 1
                         ELSE Len(file)
      /\ \A i \in 1 .. Len(InEffect) : InEffect[i] = file[i].command
      /\ Len(InEffect) \in Nat
  BY <1>2, EffectIsOnFile
<1> HIDE DEF kept
<1>8. \A i \in 1 .. m : i <= Len(file) => InEffect'[i] = file[i].command
  BY <1>1, <1>4, <1>5, <1>6
<1>9. \A c \in Commands : told[c] = "pending" <=> c \in running
  BY DEF LogInv, ToldOK
<1>10. told' = [c \in Commands |-> IF told[c] = "pending" THEN "unknown"
                                   ELSE told[c]]
  BY <1>2, <1>9
<1>11. CASE m <= Len(InEffect)
  <2>1. m \in 0 .. Len(InEffect)
    BY <1>5, <1>11
  <2>2. \A i \in m + 1 .. Len(InEffect) : told[InEffect[i]] = "unknown"
    BY <1>4, <1>5, <1>7, SMTT(30) DEF LogInv, ToldOK
  <2>3. /\ SubSeq(InEffect, 1, m) \in Seq(Commands)
        /\ Len(SubSeq(InEffect, 1, m)) = m
        /\ \A i \in 1 .. m : SubSeq(InEffect, 1, m)[i] = InEffect[i]
    BY <1>7, <2>1, Beginning
  <2>4. ASSUME NEW i \in 1 .. m
        PROVE  InEffect'[i] = SubSeq(InEffect, 1, m)[i]
    <3>1. i \in 1 .. Len(InEffect)
      <4>1. Len(InEffect) \in Nat
        BY <1>7
      <4> QED
        BY <2>1, <4>1
    <3>2. i <= Len(file)
      <4>1. Len(InEffect) <= Len(file) /\ Len(InEffect) \in Nat /\ Len(file) \in Nat
        BY <1>4, <1>7, EffectIsOnFile
      <4> QED
        BY <3>1, <4>1
    <3>3. InEffect'[i] = file[i].command
      BY <1>8, <3>2
    <3>4. InEffect[i] = file[i].command
      BY <1>7, <3>1
    <3> QED
      BY <2>3, <3>3, <3>4
  <2>5. InEffect' = SubSeq(InEffect, 1, m)
    BY <1>6, <2>3, <2>4, SeqEqual
  <2>6. \E k \in 0 .. Len(InEffect) :
          /\ \A i \in k + 1 .. Len(InEffect) : told[InEffect[i]] = "unknown"
          /\ InEffect' = SubSeq(InEffect, 1, k)
    BY <2>1, <2>2, <2>5
  <2> QED
    BY <1>10, <2>6, Zenon DEF D!Crash
<1>12. CASE m > Len(InEffect)
  <2>1. /\ running # {} /\ m = Len(InEffect) + 1
    BY <1>1, <1>4, <1>5, <1>7, <1>12
  <2>2. PICK c \in Commands : running = {c}
    BY <2>1 DEF LogInv, LogTypeOK
  <2>3. /\ records \in Seq(Commands) /\ Len(records) \in Nat
        /\ records[Len(records)] = c
        /\ Len(records) = Len(file) + (IF pc = "write" THEN 1 ELSE 0)
        /\ \A i \in 1 .. Len(file) : records[i] = file[i].command
    BY <1>2, <2>2 DEF LogInv, LogTypeOK, ChainOK
  <2>4. Len(records) = m
    BY <1>4, <1>7, <2>1, <2>3
  <2>5. ASSUME NEW i \in 1 .. m PROVE InEffect'[i] = records[i]
    <3>1. i \in 1 .. n /\ InEffect'[i] = file'[i].command
      BY <1>4, <1>5, <1>6, SMTT(30)
    <3>2. CASE i <= Len(file)
      BY <1>1, <1>4, <2>3, <3>1, <3>2
    <3>3. CASE i > Len(file)
      <4>1. i = Len(records) /\ ~(i <= Len(file))
        BY <1>4, <1>5, <2>3, <2>4, <3>3
      <4> QED
        BY <1>1, <3>1, <4>1
    <3> QED
      BY <1>4, <3>2, <3>3
  <2>6. InEffect' = records
    BY <1>6, <2>3, <2>4, <2>5, SeqEqual
  <2>7. records = Append(InEffect, c)
    BY <2>2, ExecutingIsNext
  <2> QED
    BY <1>9, <1>10, <2>2, <2>6, <2>7 DEF D!Crash
<1> QED
  BY <1>5, <1>7, <1>11, <1>12

\* Writing, syncing and opening change nothing that a caller could notice.
LEMMA OthersStutter ==
  ASSUME LogInv, (\E c \in Commands : Write(c)) \/ Sync \/ Open \/ UNCHANGED logVars
  PROVE  UNCHANGED D!vars
<1>1. ASSUME NEW c \in Commands, Write(c) PROVE UNCHANGED <<InEffect, told>>
  <2>1. /\ pc = "write" /\ pc' = "sync" /\ records' = records
        /\ running' = running /\ told' = told
    BY <1>1, Zenon DEF Write
  <2> QED
    BY <2>1 DEF InEffect
<1>2. CASE Sync
  <2>1. /\ pc = "sync" /\ pc' = "commit" /\ records' = records
        /\ running' = running /\ told' = told
    BY <1>2 DEF Sync
  <2> QED
    BY <2>1 DEF InEffect, D!vars
<1>3. CASE Open
  <2>1. Replays(Readable(file))
    BY ReadFile DEF LogInv
  <2>2. /\ pc = "down" /\ pc' = "idle" /\ records' = Recovered
        /\ running' = running /\ told' = told
    BY <1>3, <2>1 DEF Open
  <2>3. running = {}
    BY <2>2 DEF LogInv, LogTypeOK
  <2> QED
    BY <2>2, <2>3 DEF InEffect, D!vars
<1>4. CASE UNCHANGED logVars
  BY <1>4 DEF logVars, InEffect, Recovered, Readable, Torn, D!vars
<1> QED
  BY <1>1, <1>2, <1>3, <1>4 DEF D!vars

LEMMA LogStartsAbstract == LogInit => D!Init
BY DEF LogInit, InEffect, D!Init

LEMMA LogStepsAbstract == LogInv /\ [LogNext]_logVars => [D!Next]_(D!vars)
<1> SUFFICES ASSUME LogInv, [LogNext]_logVars PROVE [D!Next]_(D!vars)
  OBVIOUS
<1>1. ASSUME NEW c \in Commands, RunCommand(c) PROVE D!Next
  BY <1>1, ExecuteSubmits DEF D!Next
<1>2. ASSUME NEW c \in Commands, Commit(c) PROVE D!Next
  BY <1>2, CommitAccepts DEF D!Next
<1>3. CASE Crash
  BY <1>3, CrashIsCrash DEF D!Next
<1>4. CASE (\E c \in Commands : Write(c)) \/ Sync \/ Open \/ UNCHANGED logVars
  BY <1>4, OthersStutter
<1> QED
  BY <1>1, <1>2, <1>3, <1>4 DEF LogNext

\* A command takes effect once its caller is told so and for good, and a crash
\* decides about one whose caller heard nothing (engine.ts:1328-1329:
\* "Durable before visible").
THEOREM LogImplementsDurableLog == LogSpec => ImplementsDurableLog
<1>1. LogSpec => []LogInv
  BY LogInvariant
<1> QED
  BY <1>1, LogStartsAbstract, LogStepsAbstract, PTL DEF LogSpec, ImplementsDurableLog, D!Spec


-----------------------------------------------------------------------------
\* What a command looks like in the log (CommandCodec)

\* The numeric fields are amounts, and no others; a tax is in its own field.
LEMMA TheTable ==
  ASSUME NEW k \in Kinds
  PROVE  /\ Bigints(k) \subseteq AmountFields(k) \cup {"amount"}
         /\ AmountFields(k) \subseteq Bigints(k)
         /\ "amount" \in Plain(k) \cup AmountFields(k) \cup Optional(k) =>
              "amount" \in Bigints(k)
         /\ "kind" \notin Bigints(k) /\ "tax" \notin Bigints(k)
         /\ "kind" \notin Optional(k)
         /\ "tax" \notin Plain(k)
         /\ k # "null"
BY DEF Kinds, Bigints, AmountFields, Plain, Optional

\* A value is written and read back.
IsValue(v) == v = [type |-> v.type, is |-> v.is]

LEMMA ReadBack ==
  ASSUME NEW v, IsValue(v)
  PROVE  /\ v.type = "bigint" => Read(AsText(v)) = v
         /\ v.type # "bigint" => AsText(v) = v
<1>1. v.type # "bigint" => AsText(v) = v
  BY DEF AsText
<1>2. ASSUME v.type = "bigint" PROVE Read(AsText(v)) = v
  <2>1. PICK a, b : v = [type |-> a, is |-> b]
    BY DEF IsValue
  <2>2. a = "bigint"
    BY <1>2, <2>1
  <2>3. AsText(v) = [type |-> "string", is |-> b]
    BY <1>2, <2>1 DEF AsText
  <2>4. Read(AsText(v)) = [type |-> "bigint", is |-> b]
    BY <2>3 DEF Read
  <2> QED
    BY <2>1, <2>2, <2>4
<1> QED
  BY <1>1, <1>2

\* A command that a method built: what each field holds.
IsCommand(c) ==
  /\ c = [f \in DOMAIN c |-> c[f]]
  /\ "kind" \in DOMAIN c /\ c["kind"] \in Kinds
  /\ "amount" \in DOMAIN c => "amount" \in Bigints(c["kind"])
  /\ \A f \in DOMAIN c \ {"kind", "tax"} :
       /\ IsValue(c[f]) /\ c[f].type # "object"
       /\ f \in Bigints(c["kind"]) <=> c[f].type = "bigint"
  /\ "tax" \in DOMAIN c =>
       \E rate \in {Zero, Amount} : c["tax"] = Tax(rate) /\ rate # Zero

LEMMA CallsAreCommands ==
  ASSUME NEW c \in Calls
  PROVE  IsCommand(Built(c))
<1>0. PICK k \in Kinds :
        \E more \in SUBSET Optional(k), memo \in {Name, Null},
           tax \in {Null, Tax(Zero), Tax(Amount)} : c = Call(k, more, memo, tax)
  BY DEF Calls
<1>1. PICK more \in SUBSET Optional(k), memo \in {Name, Null},
           tax \in {Null, Tax(Zero), Tax(Amount)} : c = Call(k, more, memo, tax)
  BY <1>0
<1> DEFINE b == Built(c)
<1> SUFFICES IsCommand(b)
  OBVIOUS
<1>2. /\ c = [f \in DOMAIN c |-> c[f]]
      /\ DOMAIN c = {"kind"} \cup Plain(k) \cup AmountFields(k) \cup more
      /\ c["kind"] = k
      /\ "tax" \in DOMAIN c => c["tax"] = tax
  BY <1>1, TheTable DEF Call
<1>6. "amount" \in DOMAIN c => "amount" \in Bigints(k)
  BY <1>2, TheTable
<1>3. ASSUME NEW f \in DOMAIN c, f \notin {"kind", "tax"}
      PROVE  /\ IsValue(c[f]) /\ c[f].type # "object"
             /\ f \in Bigints(k) <=> c[f].type = "bigint"
  <2>1. f \in Bigints(k) <=> f \in AmountFields(k) \cup {"amount"}
    BY <1>2, <1>3, TheTable
  <2>2. {"index", "mature", "paused", "memo"}
          \cap (AmountFields(k) \cup {"amount"}) = {}
    BY DEF Kinds, AmountFields
  <2>3. c[f] = CASE f = "kind" -> k
                 [] f = "index" -> Number
                 [] f \in {"mature", "paused"} -> Flag
                 [] f = "memo" -> memo
                 [] f = "tax" -> tax
                 [] f \in AmountFields(k) \cup {"amount"} -> Amount
                 [] OTHER -> Name
    BY <1>1, <1>2, <1>3 DEF Call
  <2>4. \/ c[f] = Amount /\ f \in Bigints(k)
        \/ c[f] \in {Number, Flag, Name, Null} /\ f \notin Bigints(k)
    BY <1>3, <2>1, <2>2, <2>3
  <2> QED
    BY <2>4 DEF IsValue, Amount, Number, Flag, Name, Null
<1>4. CASE Has(c, "tax") /\ Untaxed(c)
  <2>1. b = [g \in DOMAIN c \ {"tax"} |-> c[g]]
    BY <1>4 DEF Built, Without
  <2>2. /\ DOMAIN b = DOMAIN c \ {"tax"}
        /\ \A f \in DOMAIN b : b[f] = c[f]
        /\ b = [f \in DOMAIN b |-> b[f]]
    BY <2>1
  <2>3. /\ "kind" \in DOMAIN b /\ b["kind"] = k /\ "tax" \notin DOMAIN b
    BY <1>2, <2>2
  <2>4. \A f \in DOMAIN b \ {"kind", "tax"} :
          /\ IsValue(b[f]) /\ b[f].type # "object"
          /\ f \in Bigints(k) <=> b[f].type = "bigint"
    BY <1>3, <2>2
  <2> HIDE DEF b
  <2> QED
    BY <1>6, <2>2, <2>3, <2>4 DEF IsCommand
<1>5. CASE ~(Has(c, "tax") /\ Untaxed(c))
  <2>1. b = c
    BY <1>5 DEF Built
  <2>2. ASSUME "tax" \in DOMAIN c
        PROVE  tax = Tax(Amount)
    <3>1. c["tax"] = tax /\ ~Untaxed(c)
      BY <1>2, <1>5, <2>2 DEF Has
    <3>2. tax # Null
      BY <3>1 DEF Untaxed, Null
    <3>3. tax # Tax(Zero)
      BY <3>1 DEF Untaxed, Tax, TaxFields
    <3> QED
      BY <3>2, <3>3
  <2>3. Amount # Zero
    BY DEF Amount, Zero
  <2>4. \A f \in DOMAIN b \ {"kind", "tax"} :
          /\ IsValue(b[f]) /\ b[f].type # "object"
          /\ f \in Bigints(k) <=> b[f].type = "bigint"
    BY <1>3, <2>1
  <2>5. "tax" \in DOMAIN c => c["tax"] = Tax(Amount)
    BY <1>2, <2>2
  <2>6. /\ c = [f \in DOMAIN c |-> c[f]]
        /\ "kind" \in DOMAIN c /\ c["kind"] = k
    BY <1>2
  <2> HIDE DEF b
  <2> QED
    BY <1>6, <2>1, <2>3, <2>4, <2>5, <2>6 DEF IsCommand
<1> QED
  BY <1>4, <1>5

\* The tax survives: it is an object of amounts.
LEMMA TaxReadBack ==
  ASSUME NEW rate \in {Zero, Amount}
  PROVE  LET v == Tax(rate)
             w == [v EXCEPT !.is = [g \in DOMAIN @ |-> AsText(@[g])]]
         IN  /\ v.type = "object"
             /\ DecodeTax(w) = v
             /\ \A f \in TaxFields : v.is[f].type = "bigint"
<1> DEFINE v == Tax(rate)
           tax == [f \in TaxFields |-> IF f = "creatorBps" THEN Amount ELSE rate]
           texts == [f \in TaxFields |-> AsText(tax[f])]
           back == [f \in TaxFields |-> Read(texts[f])]
           w == [v EXCEPT !.is = [g \in DOMAIN @ |-> AsText(@[g])]]
<1>1. v = [type |-> "object", is |-> tax]
  BY DEF Tax
<1>2. \A f \in TaxFields : IsValue(tax[f]) /\ tax[f].type = "bigint"
  BY DEF IsValue, Zero, Amount
<1>3. \A f \in TaxFields : Read(AsText(tax[f])) = tax[f]
  BY <1>2, ReadBack
<1>4. DOMAIN tax = TaxFields /\ DOMAIN texts = TaxFields
  OBVIOUS
<1>5. tax = [f \in TaxFields |-> tax[f]]
  OBVIOUS
<1>6. back = tax
  <2>1. \A f \in TaxFields : Read(texts[f]) = tax[f]
    BY <1>3
  <2> HIDE DEF tax, texts
  <2> QED
    BY <1>5, <2>1
<1>7. texts = [f \in DOMAIN tax |-> AsText(tax[f])]
  BY <1>4
<1> HIDE DEF tax
<1>8. w = [type |-> "object", is |-> texts]
  BY <1>1, <1>7
<1>9. back = [f \in DOMAIN texts |-> Read(texts[f])]
  BY <1>4
<1> HIDE DEF texts, w
<1>10. DecodeTax(w) = [type |-> "object", is |-> back]
  BY <1>8, <1>9 DEF DecodeTax
<1>11. DecodeTax(w) = v
  BY <1>1, <1>6, <1>10
<1> QED
  BY <1>1, <1>2, <1>11 DEF w

\* Reading a line that was written gives the command back.
LEMMA CommandReadBack ==
  ASSUME NEW c, IsCommand(c)
  PROVE  DecodeCommand(Canonical(c)) = c
<1> DEFINE w == Canonical(c)
<1>1. /\ DOMAIN w = DOMAIN c /\ w["kind"] = c["kind"]
      /\ "kind" \in DOMAIN c /\ c["kind"] \in Kinds
  BY DEF Canonical, IsCommand
<1>2. ASSUME NEW f \in DOMAIN c
      PROVE  (IF f \in Bigints(w["kind"]) THEN Read(w[f])
              ELSE IF f = "tax" THEN DecodeTax(w[f]) ELSE w[f]) = c[f]
  <2>1. CASE f = "kind"
    BY <1>1, <2>1, TheTable
  <2>2. CASE f = "tax"
    <3>1. PICK rate \in {Zero, Amount} : c["tax"] = Tax(rate)
      BY <2>2 DEF IsCommand
    <3>2. c[f].type = "object" /\ f # "kind"
      BY <2>2, <3>1, TaxReadBack
    <3>3. w[f] = [c[f] EXCEPT !.is = [g \in DOMAIN @ |-> AsText(@[g])]]
      BY <3>2 DEF Canonical
    <3>4. DecodeTax(w[f]) = c[f]
      BY <2>2, <3>1, <3>3, TaxReadBack
    <3>5. f \notin Bigints(w["kind"])
      BY <1>1, <2>2, TheTable
    <3> QED
      BY <2>2, <3>4, <3>5
  <2>3. CASE f \notin {"kind", "tax"}
    <3>1. /\ IsValue(c[f]) /\ c[f].type # "object"
          /\ f \in Bigints(c["kind"]) <=> c[f].type = "bigint"
      BY <2>3 DEF IsCommand
    <3>2. w[f] = AsText(c[f])
      BY <2>3, <3>1 DEF Canonical
    <3>3. CASE c[f].type = "bigint"
      BY <1>1, <2>3, <3>1, <3>2, <3>3, ReadBack
    <3>4. CASE c[f].type # "bigint"
      BY <1>1, <2>3, <3>1, <3>2, <3>4, ReadBack
    <3> QED
      BY <3>3, <3>4
  <2> QED
    BY <2>1, <2>2, <2>3
<1>3. c = [f \in DOMAIN c |-> c[f]]
  BY DEF IsCommand
<1> HIDE DEF w
<1>4. DecodeCommand(w) = [f \in DOMAIN c |-> c[f]]
  BY <1>1, <1>2 DEF DecodeCommand
<1> QED
  BY <1>3, <1>4 DEF w

\* A method that is given what it built builds the same, and does not throw.
LEMMA BuiltAgain ==
  ASSUME NEW c, IsCommand(c)
  PROVE  Built(c) = c /\ ~Throws(c)
<1>1. "tax" \in DOMAIN c => ~Untaxed(c)
  <2>1. ASSUME "tax" \in DOMAIN c
        PROVE  ~Untaxed(c)
    <3>1. PICK rate \in {Zero, Amount} : c["tax"] = Tax(rate) /\ rate # Zero
      BY <2>1 DEF IsCommand
    <3>2. c["tax"].type = "object" /\ c["tax"].is["buyBps"] = rate
      BY <3>1 DEF Tax, TaxFields
    <3> QED
      BY <3>1, <3>2 DEF Untaxed
  <2> QED
    BY <2>1
<1>2. "tax" \in DOMAIN c => \A f \in TaxFields : c["tax"].is[f].type = "bigint"
  <2>1. ASSUME "tax" \in DOMAIN c
        PROVE  \A f \in TaxFields : c["tax"].is[f].type = "bigint"
    <3>1. PICK rate \in {Zero, Amount} : c["tax"] = Tax(rate)
      BY <2>1 DEF IsCommand
    <3> QED
      BY <3>1, TaxReadBack
  <2> QED
    BY <2>1
<1>3. ASSUME NEW f \in DOMAIN c, f \in AmountFields(c["kind"]) \cup {"amount"}
      PROVE  c[f].type = "bigint"
  <2>1. PICK k \in Kinds : k = c["kind"]
    BY DEF IsCommand
  <2>2. f \in Bigints(k) /\ f \notin {"kind", "tax"}
    BY <1>3, <2>1, TheTable DEF IsCommand
  <2> QED
    BY <2>1, <2>2 DEF IsCommand
<1> QED
  BY <1>1, <1>2, <1>3 DEF Built, Has, Throws

\* The log's lines are those of the records executed, in their order.
CodecInv ==
  /\ \E S : executed \in Seq(S)
  /\ \E S : logged \in Seq(S)
  /\ Len(executed) = Len(logged)
  /\ \A i \in 1 .. Len(logged) :
       \E c, time : /\ IsCommand(c)
                    /\ executed[i] = [seq |-> i - 1, ts |-> time, command |-> c]
                    /\ logged[i] = [seq |-> i - 1, ts |-> time,
                                    command |-> Canonical(c)]

LEMMA CodecStep ==
  ASSUME CodecInv, [CodecNext]_codecVars
  PROVE  CodecInv'
<1>1. CASE UNCHANGED <<logged, executed>>
  BY <1>1 DEF CodecInv
<1>2. ASSUME NEW call \in Calls, ExecuteCall(call)
      PROVE  CodecInv'
  <2> DEFINE c == Built(call)
             r == [seq |-> Len(logged), ts |-> second, command |-> c]
             line == [seq |-> Len(logged), ts |-> second, command |-> Canonical(c)]
  <2>1. executed' = Append(executed, r) /\ logged' = Append(logged, line)
    BY <1>2 DEF ExecuteCall, RecordOf, LineOf
  <2>2. IsCommand(c)
    BY CallsAreCommands
  <2>3. PICK S : executed \in Seq(S)
    BY DEF CodecInv
  <2>4. PICK T : logged \in Seq(T)
    BY DEF CodecInv
  <2> DEFINE n == Len(logged)
  <2>5. n \in Nat /\ Len(executed) = n
    BY <2>4 DEF CodecInv
  <2> HIDE DEF c
  <2>11. r = [seq |-> n, ts |-> second, command |-> c]
         /\ line = [seq |-> n, ts |-> second, command |-> Canonical(c)]
    OBVIOUS
  <2> HIDE DEF n, r, line
  <2>6. /\ executed' \in Seq(S \cup {r}) /\ logged' \in Seq(T \cup {line})
        /\ Len(executed') = n + 1 /\ Len(logged') = n + 1
    <3>1. executed \in Seq(S \cup {r}) /\ logged \in Seq(T \cup {line})
      BY <2>3, <2>4
    <3> QED
      BY <2>1, <2>5, <3>1 DEF n
  <2>7. /\ executed'[n + 1] = r /\ logged'[n + 1] = line
        /\ \A i \in 1 .. n : executed'[i] = executed[i] /\ logged'[i] = logged[i]
    BY <2>1, <2>3, <2>4, <2>5 DEF n
  <2>8. ASSUME NEW i \in 1 .. n + 1
        PROVE  \E d, time :
                 /\ IsCommand(d)
                 /\ executed'[i] = [seq |-> i - 1, ts |-> time, command |-> d]
                 /\ logged'[i] = [seq |-> i - 1, ts |-> time,
                                  command |-> Canonical(d)]
    <3>1. CASE i = n + 1
      <4>1. i - 1 = n
        BY <2>5, <3>1
      <4>2. /\ executed'[i] = [seq |-> i - 1, ts |-> second, command |-> c]
            /\ logged'[i] = [seq |-> i - 1, ts |-> second,
                             command |-> Canonical(c)]
        BY <2>7, <2>11, <3>1, <4>1
      <4> QED
        BY <2>2, <4>2
    <3>2. CASE i # n + 1
      <4>1. i \in 1 .. n
        BY <2>5, <3>2
      <4>2. PICK d, time :
              /\ IsCommand(d)
              /\ executed[i] = [seq |-> i - 1, ts |-> time, command |-> d]
              /\ logged[i] = [seq |-> i - 1, ts |-> time,
                              command |-> Canonical(d)]
        BY <4>1 DEF CodecInv, n
      <4> QED
        BY <2>7, <4>1, <4>2
    <3> QED
      BY <3>1, <3>2
  <2> QED
    BY <2>6, <2>8 DEF CodecInv
<1> QED
  BY <1>1, <1>2 DEF CodecNext, SecondPasses, codecVars

LEMMA CodecMeans ==
  ASSUME CodecInv
  PROVE  ReplayIsExact
<1> SUFFICES ASSUME NEW i \in 1 .. Len(logged)
             PROVE  /\ ~Throws(DecodeCommand(logged[i].command))
                    /\ Replay(i) = executed[i]
                    /\ LineOf(Replay(i)) = logged[i]
  BY DEF ReplayIsExact
<1>1. PICK c, time :
        /\ IsCommand(c)
        /\ executed[i] = [seq |-> i - 1, ts |-> time, command |-> c]
        /\ logged[i] = [seq |-> i - 1, ts |-> time, command |-> Canonical(c)]
  BY DEF CodecInv
<1>2. /\ logged[i].ts = time /\ logged[i].command = Canonical(c)
  BY <1>1
<1>3. DecodeCommand(logged[i].command) = c
  BY <1>1, <1>2, CommandReadBack
<1>4. Built(c) = c /\ ~Throws(c)
  BY <1>1, BuiltAgain
<1>5. Replay(i) = [seq |-> i - 1, ts |-> time, command |-> c]
  BY <1>2, <1>3, <1>4 DEF Replay, RecordOf
<1>6. LineOf(Replay(i)) = logged[i]
  BY <1>1, <1>5 DEF LineOf
<1> QED
  BY <1>1, <1>3, <1>4, <1>5, <1>6

\* Reading the log back executes what was executed: every field of every
\* command that ran comes back as it was, whatever is in the log
\* (decodeCommand of store.ts undoes canonical of hashchain.ts).
THEOREM ReplayProved == CodecSpec => []ReplayIsExact
<1>1. CodecInit => CodecInv
  BY DEF CodecInit, CodecInv
<1>2. CodecInv /\ [CodecNext]_codecVars => CodecInv'
  BY CodecStep
<1>3. CodecInv => ReplayIsExact
  BY CodecMeans
<1> QED
  BY <1>1, <1>2, <1>3, PTL DEF CodecSpec

-----------------------------------------------------------------------------
\* The waitlist (Waitlist)

\* A list has these fields, whatever is in them.
Shape(l) ==
  /\ l = [entry |-> l.entry, handles |-> l.handles, held |-> l.held,
          referrals |-> l.referrals, done |-> l.done, ranked |-> l.ranked]
  /\ l.entry = [a \in Listed(l) |-> l.entry[a]]
  /\ l.held = [k \in ContactKinds |-> l.held[k]]
  /\ l.referrals = [c \in 1 .. MaxLines |-> l.referrals[c]]

IsEntry(e, n) ==
  /\ e = [t |-> e.t, account |-> e.account, handle |-> e.handle,
          contact |-> e.contact, code |-> e.code, by |-> e.by]
  /\ e.contact \in [ContactKinds -> Contacts \cup {Nobody}]
  /\ e.code \in 1 .. n

\* What a lines of n lines makes of the list.
Consistent(l, n) ==
  /\ Shape(l)
  /\ IsFiniteSet(Listed(l))
  /\ \A a \in Listed(l) : IsEntry(l.entry[a], n)
  /\ AddsUp(l)

\* The standings depend on the rest of the list.
LEMMA StandingsOf ==
  ASSUME NEW l, NEW m, l.entry = m.entry, l.referrals = m.referrals,
         l.done = m.done
  PROVE  Standings(l) = Standings(m)
<1>1. Listed(l) = Listed(m)
  BY DEF Listed
<1>2. \A a : Points(l, a) = Points(m, a)
  BY DEF Points
<1>3. \A a, b : Outranks(l, a, b) <=> Outranks(m, a, b)
  BY <1>2 DEF Outranks
<1>4. \A a : {b \in Listed(l) : Outranks(l, b, a)} =
             {b \in Listed(m) : Outranks(m, b, a)}
  BY <1>1, <1>3
<1> QED
  BY <1>1, <1>2, <1>4 DEF Standings

\* Computing the standings changes nothing else.
LEMMA RankKeeps ==
  ASSUME NEW l, Shape(l), l.ranked \in {Nobody, Standings(l)}
  PROVE  /\ Shape(Rank(l))
         /\ Rank(l).ranked \in {Nobody, Standings(Rank(l))}
         /\ [Rank(l) EXCEPT !.ranked = Nobody] = [l EXCEPT !.ranked = Nobody]
<1> DEFINE r == [entry |-> l.entry, handles |-> l.handles, held |-> l.held,
                 referrals |-> l.referrals, done |-> l.done,
                 ranked |-> Standings(l)]
<1>0. l = [entry |-> l.entry, handles |-> l.handles, held |-> l.held,
           referrals |-> l.referrals, done |-> l.done, ranked |-> l.ranked]
  BY DEF Shape
<1>1. CASE l.ranked # Nobody
  BY <1>1 DEF Rank
<1>2. CASE l.ranked = Nobody
  <2>1. Rank(l) = r
    BY <1>0, <1>2 DEF Rank
  <2>2. Shape(r)
    BY DEF Shape, Listed
  <2>3. Standings(r) = Standings(l)
    BY StandingsOf
  <2>4. [r EXCEPT !.ranked = Nobody] = [l EXCEPT !.ranked = Nobody]
    BY <1>0
  <2>5. r.ranked = Standings(l)
    OBVIOUS
  <2> HIDE DEF r
  <2> QED
    BY <2>1, <2>2, <2>3, <2>4, <2>5
<1> QED
  BY <1>1, <1>2

\* What a line does, field by field.
WithJoin(l, line) ==
  [entry |-> [a \in Listed(l) \cup {line.account} |->
                 IF a = line.account THEN line ELSE l.entry[a]],
    handles |-> l.handles \cup {line.handle},
    held |-> [k \in ContactKinds |->
                l.held[k] \cup ({line.contact[k]} \ {Nobody})],
    referrals |-> [c \in 1 .. MaxLines |->
                     l.referrals[c] + IF c = line.by THEN 1 ELSE 0],
    done |-> l.done,
    ranked |-> Nobody]

LEMMA JoinFields ==
  ASSUME NEW l, Shape(l), NEW line, line.t = "join"
  PROVE  Apply(l, line) = WithJoin(l, line)
<1> DEFINE fresh == [entry |-> l.entry, handles |-> l.handles,
                     held |-> l.held, referrals |-> l.referrals,
                     done |-> l.done, ranked |-> Nobody]
<1>0. l = [entry |-> l.entry, handles |-> l.handles, held |-> l.held,
           referrals |-> l.referrals, done |-> l.done, ranked |-> l.ranked]
  BY DEF Shape
<1>1. fresh = [l EXCEPT !.ranked = Nobody]
  BY <1>0
<1>2. Apply(l, line) = ApplyJoin(fresh, line)
  BY <1>1 DEF Apply
<1>3. /\ Listed(fresh) = Listed(l) /\ fresh.entry = l.entry
      /\ fresh.handles = l.handles /\ fresh.held = l.held
      /\ fresh.referrals = l.referrals /\ fresh.done = l.done
      /\ fresh.ranked = Nobody
  BY DEF Listed
<1>4. DOMAIN l.referrals = 1 .. MaxLines
  BY DEF Shape
<1> HIDE DEF fresh
<1> QED
  BY <1>2, <1>3, <1>4 DEF ApplyJoin, WithJoin

\* The same, point by point.
LEMMA JoinParts ==
  ASSUME NEW l, Shape(l), NEW line, line.t = "join"
  PROVE  LET m == Apply(l, line)
         IN  /\ Shape(m)
             /\ m.ranked = Nobody
             /\ Listed(m) = Listed(l) \cup {line.account}
             /\ m.entry[line.account] = line
             /\ \A a \in Listed(l) : a # line.account => m.entry[a] = l.entry[a]
             /\ m.handles = l.handles \cup {line.handle}
             /\ \A k \in ContactKinds :
                  m.held[k] = l.held[k] \cup ({line.contact[k]} \ {Nobody})
             /\ \A c \in 1 .. MaxLines :
                  m.referrals[c] = l.referrals[c] + IF c = line.by THEN 1 ELSE 0
<1> DEFINE e == [a \in Listed(l) \cup {line.account} |->
                   IF a = line.account THEN line ELSE l.entry[a]]
           g == [k \in ContactKinds |->
                   l.held[k] \cup ({line.contact[k]} \ {Nobody})]
           r == [c \in 1 .. MaxLines |->
                   l.referrals[c] + IF c = line.by THEN 1 ELSE 0]
           h == l.handles \cup {line.handle}
           m == Apply(l, line)
<1>1. m = [entry |-> e, handles |-> h, held |-> g, referrals |-> r,
           done |-> l.done, ranked |-> Nobody]
  <2>1. m = WithJoin(l, line)
    BY JoinFields
  <2> HIDE DEF m
  <2> QED
    BY <2>1 DEF WithJoin
<1>2. /\ DOMAIN e = Listed(l) \cup {line.account}
      /\ e[line.account] = line
      /\ \A a \in Listed(l) : a # line.account => e[a] = l.entry[a]
      /\ \A k \in ContactKinds :
           g[k] = l.held[k] \cup ({line.contact[k]} \ {Nobody})
      /\ \A c \in 1 .. MaxLines :
           r[c] = l.referrals[c] + IF c = line.by THEN 1 ELSE 0
      /\ e = [a \in DOMAIN e |-> e[a]] /\ g = [k \in ContactKinds |-> g[k]]
      /\ r = [c \in 1 .. MaxLines |-> r[c]]
  OBVIOUS
<1> HIDE DEF m, e, g, r
<1>3. /\ m.entry = e /\ m.handles = h /\ m.held = g /\ m.referrals = r
      /\ m.ranked = Nobody
  BY <1>1
<1>4. Shape(m)
  BY <1>1, <1>2 DEF Shape, Listed
<1> QED
  BY <1>2, <1>3, <1>4 DEF m, Listed

LEMMA TaskFields ==
  ASSUME NEW l, Shape(l), NEW line, line.t = "task"
  PROVE  \E d : Apply(l, line) =
           [entry |-> l.entry, handles |-> l.handles, held |-> l.held,
            referrals |-> l.referrals, done |-> d, ranked |-> Nobody]
<1> DEFINE fresh == [entry |-> l.entry, handles |-> l.handles,
                     held |-> l.held, referrals |-> l.referrals,
                     done |-> l.done, ranked |-> Nobody]
           d == [l.done EXCEPT ![line.account] = @ \cup {line.task}]
<1>0. l = [entry |-> l.entry, handles |-> l.handles, held |-> l.held,
           referrals |-> l.referrals, done |-> l.done, ranked |-> l.ranked]
  BY DEF Shape
<1>1. fresh = [l EXCEPT !.ranked = Nobody]
  BY <1>0
<1>2. Apply(l, line) = [fresh EXCEPT !.done[line.account] = @ \cup {line.task}]
  BY <1>1 DEF Apply
<1>3. [fresh EXCEPT !.done[line.account] = @ \cup {line.task}] =
        [entry |-> l.entry, handles |-> l.handles, held |-> l.held,
         referrals |-> l.referrals, done |-> d, ranked |-> Nobody]
  OBVIOUS
<1> QED
  BY <1>2, <1>3

LEMMA ContactFields ==
  ASSUME NEW l, Shape(l), NEW line, line.t \notin {"join", "task"}
  PROVE  Apply(l, line) =
           IF line.account \notin Listed(l)
           THEN [entry |-> l.entry, handles |-> l.handles, held |-> l.held,
                 referrals |-> l.referrals, done |-> l.done, ranked |-> Nobody]
           ELSE [entry |-> [l.entry EXCEPT
                              ![line.account].contact[line.t] = line.value],
                 handles |-> l.handles,
                 held |-> [l.held EXCEPT ![line.t] =
                   (@ \ {l.entry[line.account].contact[line.t]})
                     \cup ({line.value} \ {Nobody})],
                 referrals |-> l.referrals, done |-> l.done, ranked |-> Nobody]
<1> DEFINE fresh == [entry |-> l.entry, handles |-> l.handles,
                     held |-> l.held, referrals |-> l.referrals,
                     done |-> l.done, ranked |-> Nobody]
<1>0. l = [entry |-> l.entry, handles |-> l.handles, held |-> l.held,
           referrals |-> l.referrals, done |-> l.done, ranked |-> l.ranked]
  BY DEF Shape
<1>1. fresh = [l EXCEPT !.ranked = Nobody]
  BY <1>0
<1>2. Apply(l, line) = ApplyContact(fresh, line)
  BY <1>1 DEF Apply
<1>3. CASE line.account \notin Listed(l)
  BY <1>2, <1>3 DEF ApplyContact, Listed
<1>4. CASE line.account \in Listed(l)
  <2> DEFINE v == (l.held[line.t] \ {l.entry[line.account].contact[line.t]})
                    \cup ({line.value} \ {Nobody})
             held == [l.held EXCEPT ![line.t] = v]
             freed == [entry |-> l.entry, handles |-> l.handles,
                       held |-> held, referrals |-> l.referrals,
                       done |-> l.done, ranked |-> Nobody]
  <2>1. freed = [fresh EXCEPT !.held[line.t] = v]
    <3> HIDE DEF v
    <3> QED
      OBVIOUS
  <2>2. fresh.entry = l.entry /\ fresh.held = l.held
        /\ Listed(fresh) = Listed(l)
    BY DEF Listed
  <2> HIDE DEF fresh
  <2>3. ApplyContact(fresh, line) =
          [freed EXCEPT !.entry[line.account].contact[line.t] = line.value]
    BY <1>4, <2>1, <2>2 DEF ApplyContact
  <2> HIDE DEF held, v
  <2>4. [freed EXCEPT !.entry[line.account].contact[line.t] = line.value] =
          [entry |-> [l.entry EXCEPT
                        ![line.account].contact[line.t] = line.value],
           handles |-> l.handles, held |-> held, referrals |-> l.referrals,
           done |-> l.done, ranked |-> Nobody]
    OBVIOUS
  <2> QED
    BY <1>2, <1>4, <2>3, <2>4 DEF held, v
<1> QED
  BY <1>3, <1>4

\* Whatever the line, a list remains a list, and its standings are stale.
LEMMA ApplyShape ==
  ASSUME NEW l, Shape(l), NEW line
  PROVE  Shape(Apply(l, line)) /\ Apply(l, line).ranked = Nobody
<1> DEFINE m == Apply(l, line)
<1> SUFFICES Shape(m) /\ m.ranked = Nobody
  OBVIOUS
<1>1. CASE line.t = "join"
  BY <1>1, JoinParts
<1>2. CASE line.t = "task"
  <2>1. PICK d :
          m = [entry |-> l.entry, handles |-> l.handles, held |-> l.held,
               referrals |-> l.referrals, done |-> d, ranked |-> Nobody]
    BY <1>2, TaskFields
  <2> HIDE DEF m
  <2> QED
    BY <2>1 DEF Shape, Listed
<1>3. CASE line.t \notin {"join", "task"} /\ line.account \notin Listed(l)
  <2>1. m = [entry |-> l.entry, handles |-> l.handles, held |-> l.held,
             referrals |-> l.referrals, done |-> l.done, ranked |-> Nobody]
    BY <1>3, ContactFields
  <2> HIDE DEF m
  <2> QED
    BY <2>1 DEF Shape, Listed
<1>4. CASE line.t \notin {"join", "task"} /\ line.account \in Listed(l)
  <2>1. PICK e, g :
          /\ m = [entry |-> e, handles |-> l.handles, held |-> g,
                  referrals |-> l.referrals, done |-> l.done, ranked |-> Nobody]
          /\ e = [l.entry EXCEPT ![line.account].contact[line.t] = line.value]
          /\ g = [l.held EXCEPT ![line.t] =
                    (@ \ {l.entry[line.account].contact[line.t]})
                      \cup ({line.value} \ {Nobody})]
    BY <1>4, ContactFields
  <2>2. e = [a \in DOMAIN e |-> e[a]] /\ g = [k \in ContactKinds |-> g[k]]
    BY <2>1 DEF Shape
  <2> HIDE DEF m
  <2> QED
    BY <2>1, <2>2 DEF Shape, Listed
<1> QED
  BY <1>1, <1>2, <1>3, <1>4

LEMMA EmptyConsistent ==
  Consistent(EmptyList, 0) /\ EmptyList.ranked = Nobody
<1> DEFINE e == [entry |-> <<>>, handles |-> {},
                 held |-> [k \in ContactKinds |-> {}],
                 referrals |-> [c \in 1 .. MaxLines |-> 0],
                 done |-> [a \in Joiners |-> {}], ranked |-> Nobody]
<1>1. EmptyList = e
  BY DEF EmptyList
<1>2. DOMAIN <<>> = {} /\ \A S : [a \in {} |-> S] = <<>>
  OBVIOUS
<1>3. Shape(e)
  BY <1>2 DEF Shape, Listed
<1>4. IsFiniteSet({}) /\ Cardinality({}) = 0
  BY FS_EmptySet
<1>5. \A c : {a \in DOMAIN e.entry : e.entry[a].by = c} = {}
  BY <1>2
<1>6. AddsUp(e)
  BY <1>2, <1>4, <1>5 DEF AddsUp
<1> QED
  BY <1>1, <1>2, <1>3, <1>4, <1>6 DEF Consistent, Listed

\* A line that parses or not takes a place in the lines.
LEMMA LaterConsistent ==
  ASSUME NEW n \in Nat, NEW l, Consistent(l, n)
  PROVE  Consistent(l, n + 1)
BY DEF Consistent, IsEntry

\* What a task or the standings change does not matter.
LEMMA SameConsistent ==
  ASSUME NEW n, NEW l, Consistent(l, n), NEW d, NEW x
  PROVE  Consistent([entry |-> l.entry, handles |-> l.handles, held |-> l.held,
                     referrals |-> l.referrals, done |-> d, ranked |-> x], n)
<1> DEFINE m == [entry |-> l.entry, handles |-> l.handles, held |-> l.held,
                 referrals |-> l.referrals, done |-> d, ranked |-> x]
<1>1. /\ m.entry = l.entry /\ m.handles = l.handles /\ m.held = l.held
      /\ m.referrals = l.referrals
  OBVIOUS
<1>2. Shape(m)
  BY DEF Consistent, Shape, Listed
<1> HIDE DEF m
<1>3. AddsUp(m)
  BY <1>1 DEF Consistent, AddsUp
<1>4. Consistent(m, n)
  BY <1>1, <1>2, <1>3 DEF Consistent, Listed
<1> QED
  BY <1>4 DEF m

\* A sign-up whose handle, e-mail and wallet are nobody's.
LEMMA JoinConsistent ==
  ASSUME NEW n \in Nat, NEW l, Consistent(l, n),
         NEW x, x \notin Listed(l), NEW h, h \notin l.handles,
         NEW contact \in [ContactKinds -> Contacts \cup {Nobody}],
         \A k \in ContactKinds :
           ~(contact[k] # Nobody /\ contact[k] \in l.held[k]),
         NEW by
  PROVE  Consistent(Apply(l, JoinLine(x, h, contact, n + 1, by)), n + 1)
<1>0. PICK line : line = JoinLine(x, h, contact, n + 1, by)
  OBVIOUS
<1> DEFINE m == Apply(l, line)
           E == l.entry
<1>1. /\ line.t = "join" /\ line.account = x /\ line.handle = h
      /\ line.contact = contact /\ line.code = n + 1 /\ line.by = by
      /\ line = [t |-> "join", account |-> x, handle |-> h,
                 contact |-> contact, code |-> n + 1, by |-> by]
  BY <1>0 DEF JoinLine
<1>2. /\ Shape(l) /\ line.t = "join"
  BY <1>1 DEF Consistent
<1>3. /\ Shape(m)
      /\ Listed(m) = Listed(l) \cup {line.account}
      /\ m.entry[line.account] = line
      /\ \A a \in Listed(l) : a # line.account => m.entry[a] = l.entry[a]
      /\ m.handles = l.handles \cup {line.handle}
      /\ \A k \in ContactKinds :
           m.held[k] = l.held[k] \cup ({line.contact[k]} \ {Nobody})
      /\ \A c \in 1 .. MaxLines :
           m.referrals[c] = l.referrals[c] + IF c = line.by THEN 1 ELSE 0
  BY <1>2, JoinParts
<1> HIDE DEF m
<1> DEFINE F == m.entry
<1>4. /\ m.entry = F /\ m.handles = l.handles \cup {h}
      /\ \A k \in ContactKinds :
           m.held[k] = l.held[k] \cup ({contact[k]} \ {Nobody})
      /\ \A c \in 1 .. MaxLines :
           m.referrals[c] = l.referrals[c] + IF c = by THEN 1 ELSE 0
  BY <1>1, <1>3
<1>5. /\ DOMAIN E = Listed(l) /\ DOMAIN F = Listed(l) \cup {x}
      /\ Listed(m) = Listed(l) \cup {x}
      /\ F[x] = line /\ \A a \in Listed(l) : F[a] = E[a]
  BY <1>1, <1>3 DEF Listed
<1> HIDE DEF F
<1>6. IsFiniteSet(Listed(m))
  BY <1>5, FS_AddElement DEF Consistent
<1>7. ASSUME NEW a \in Listed(m) PROVE IsEntry(m.entry[a], n + 1)
  <2>1. CASE a = x
    BY <1>1, <1>4, <1>5, <2>1 DEF IsEntry
  <2>2. CASE a # x
    BY <1>4, <1>5, <1>7, <2>2 DEF IsEntry, Consistent
  <2> QED
    BY <2>1, <2>2
<1>8. /\ l.handles = {E[a].handle : a \in Listed(l)}
      /\ \A k \in ContactKinds :
           l.held[k] = {E[a].contact[k] : a \in Listed(l)} \ {Nobody}
      /\ \A a, b \in Listed(l) : a # b =>
           /\ E[a].handle # E[b].handle /\ E[a].code # E[b].code
           /\ \A k \in ContactKinds : E[a].contact[k] # Nobody =>
                E[a].contact[k] # E[b].contact[k]
      /\ \A c \in 1 .. MaxLines :
           l.referrals[c] = Cardinality({a \in Listed(l) : E[a].by = c})
      /\ \A a \in Listed(l) : E[a].code \in 1 .. n
  BY DEF Consistent, AddsUp, Listed, IsEntry
<1>9. m.handles = {F[a].handle : a \in Listed(m)}
  BY <1>1, <1>4, <1>5, <1>8
<1>10. ASSUME NEW k \in ContactKinds
       PROVE  m.held[k] = {F[a].contact[k] : a \in Listed(m)} \ {Nobody}
  BY <1>1, <1>4, <1>5, <1>8
<1>11. ASSUME NEW a \in Listed(m), NEW b \in Listed(m), a # b
       PROVE  /\ F[a].handle # F[b].handle /\ F[a].code # F[b].code
              /\ \A k \in ContactKinds : F[a].contact[k] # Nobody =>
                   F[a].contact[k] # F[b].contact[k]
  <2>1. ASSUME NEW c \in Listed(l)
        PROVE  /\ h # E[c].handle /\ n + 1 # E[c].code
               /\ \A k \in ContactKinds : contact[k] # Nobody =>
                    contact[k] # E[c].contact[k]
    BY <1>8, <2>1
  <2>2. CASE a = x
    BY <1>1, <1>5, <1>11, <2>1, <2>2
  <2>3. CASE b = x
    BY <1>1, <1>5, <1>11, <2>1, <2>3
  <2>4. CASE a # x /\ b # x
    BY <1>5, <1>8, <1>11, <2>4
  <2> QED
    BY <2>2, <2>3, <2>4
<1>12. ASSUME NEW c \in 1 .. MaxLines
       PROVE  m.referrals[c] = Cardinality({a \in Listed(m) : F[a].by = c})
  <2> DEFINE S == {a \in Listed(l) : E[a].by = c}
             T == {a \in Listed(m) : F[a].by = c}
  <2>1. IsFiniteSet(S)
    <3>1. S \subseteq Listed(l) /\ IsFiniteSet(Listed(l))
      BY DEF Consistent
    <3> QED
      BY <3>1, FS_Subset
  <2>2. CASE c = by
    <3>1. T = S \cup {x} /\ x \notin S
      BY <1>1, <1>5, <2>2
    <3>2. Cardinality(T) = Cardinality(S) + 1
      BY <2>1, <3>1, FS_AddElement
    <3> QED
      BY <1>4, <1>8, <2>2, <3>2
  <2>3. CASE c # by
    <3>1. T = S
      BY <1>1, <1>5, <2>3
    <3>2. Cardinality(S) \in Nat
      BY <2>1, FS_CardinalityType
    <3> QED
      BY <1>4, <1>8, <2>3, <3>1, <3>2
  <2> QED
    BY <2>2, <2>3
<1>13. AddsUp(m)
  BY <1>4, <1>5, <1>9, <1>10, <1>11, <1>12 DEF AddsUp, Listed
<1> QED
  BY <1>0, <1>3, <1>6, <1>7, <1>13 DEF Consistent, m

LEMMA ContactParts ==
  ASSUME NEW l, Shape(l), NEW line, line.t \in ContactKinds,
         line.t \notin {"join", "task"}, line.account \in Listed(l),
         line.value \in Contacts \cup {Nobody},
         NEW n, IsEntry(l.entry[line.account], n)
  PROVE  LET m == Apply(l, line)
             e == l.entry[line.account]
             f == m.entry[line.account]
         IN  /\ Shape(m)
             /\ m.ranked = Nobody
             /\ Listed(m) = Listed(l)
             /\ \A a \in Listed(l) : a # line.account => m.entry[a] = l.entry[a]
             /\ IsEntry(f, n)
             /\ f.handle = e.handle /\ f.code = e.code /\ f.by = e.by
             /\ f.contact[line.t] = line.value
             /\ \A k \in ContactKinds :
                  k # line.t => f.contact[k] = e.contact[k]
             /\ m.handles = l.handles
             /\ m.held[line.t] =
                  (l.held[line.t] \ {e.contact[line.t]})
                    \cup ({line.value} \ {Nobody})
             /\ \A k \in ContactKinds : k # line.t => m.held[k] = l.held[k]
             /\ m.referrals = l.referrals
<1> DEFINE m == Apply(l, line)
           x == line.account
           k0 == line.t
           e == l.entry[x]
           f == [t |-> e.t, account |-> e.account, handle |-> e.handle,
                 contact |-> [e.contact EXCEPT ![k0] = line.value],
                 code |-> e.code, by |-> e.by]
           v == (l.held[k0] \ {e.contact[k0]}) \cup ({line.value} \ {Nobody})
           E == [l.entry EXCEPT ![x].contact[k0] = line.value]
           H == [l.held EXCEPT ![k0] = v]
<1>1. Shape(m) /\ m.ranked = Nobody
  BY ApplyShape
<1>2. m = [entry |-> E, handles |-> l.handles, held |-> H,
           referrals |-> l.referrals, done |-> l.done, ranked |-> Nobody]
  BY ContactFields
<1>3. x \in DOMAIN l.entry /\ DOMAIN l.entry = Listed(l)
  BY DEF Listed
<1>4. /\ DOMAIN E = Listed(l)
      /\ \A a \in Listed(l) : a # x => E[a] = l.entry[a]
  BY <1>3
<1>5. E[x] = [e EXCEPT !.contact[k0] = line.value]
  BY <1>3
<1>6. /\ e = [t |-> e.t, account |-> e.account, handle |-> e.handle,
              contact |-> e.contact, code |-> e.code, by |-> e.by]
      /\ e.contact \in [ContactKinds -> Contacts \cup {Nobody}]
      /\ e.code \in 1 .. n
  BY DEF IsEntry
<1>7. E[x] = f
  <2> HIDE DEF E
  <2> QED
    BY <1>5, <1>6
<1>8. /\ f.contact \in [ContactKinds -> Contacts \cup {Nobody}]
      /\ f.contact[k0] = line.value
      /\ \A k \in ContactKinds : k # k0 => f.contact[k] = e.contact[k]
  BY <1>6
<1>9. H[k0] = v /\ \A k \in ContactKinds : k # k0 => H[k] = l.held[k]
  <2> HIDE DEF v
  <2> QED
    BY DEF Shape
<1>10. /\ f.handle = e.handle /\ f.code = e.code /\ f.by = e.by
       /\ f = [t |-> f.t, account |-> f.account, handle |-> f.handle,
               contact |-> f.contact, code |-> f.code, by |-> f.by]
  OBVIOUS
<1>11. Listed(m) = Listed(l)
  BY <1>2, <1>4 DEF Listed
<1>14. IsEntry(f, n)
  <2> HIDE DEF f
  <2> QED
    BY <1>6, <1>8, <1>10 DEF IsEntry
<1> HIDE DEF E, f, H, m
<1>12. /\ m.entry = E /\ m.handles = l.handles /\ m.held = H
       /\ m.referrals = l.referrals
  BY <1>2
<1>13. m.entry[x] = f
  BY <1>7, <1>12
<1> QED
  BY <1>1, <1>4, <1>8, <1>9, <1>10, <1>11, <1>12, <1>13, <1>14 DEF m

\* Another e-mail or wallet, which is nobody else's.
LEMMA ContactConsistent ==
  ASSUME NEW n \in Nat, NEW l, Consistent(l, n), NEW x \in Listed(l),
         NEW k0 \in ContactKinds, NEW v \in Contacts \cup {Nobody},
         ~(v # Nobody /\ v \in l.held[k0])
  PROVE  Consistent(Apply(l, ContactLine(x, k0, v)), n)
<1>0. PICK line : line = ContactLine(x, k0, v)
  OBVIOUS
<1> DEFINE m == Apply(l, line)
           E == l.entry
           e == E[x]
           F == m.entry
           f == F[x]
<1>1. line.t = k0 /\ line.account = x /\ line.value = v
      /\ k0 \notin {"join", "task"}
  BY <1>0, KindsAssumption DEF ContactLine
<1>2. Shape(l) /\ \A a \in Listed(l) : IsEntry(l.entry[a], n)
  BY DEF Consistent
<1>3. /\ Shape(l) /\ line.t \in ContactKinds
      /\ line.t \notin {"join", "task"} /\ line.account \in Listed(l)
      /\ line.value \in Contacts \cup {Nobody}
      /\ IsEntry(l.entry[line.account], n)
  BY <1>1, <1>2
<1>4. /\ Shape(m)
      /\ Listed(m) = Listed(l)
      /\ \A a \in Listed(l) : a # x => F[a] = E[a]
      /\ IsEntry(f, n)
      /\ f.handle = e.handle /\ f.code = e.code /\ f.by = e.by
      /\ f.contact[k0] = v
      /\ \A k \in ContactKinds : k # k0 => f.contact[k] = e.contact[k]
      /\ m.handles = l.handles
      /\ m.held[k0] = (l.held[k0] \ {e.contact[k0]}) \cup ({v} \ {Nobody})
      /\ \A k \in ContactKinds : k # k0 => m.held[k] = l.held[k]
      /\ m.referrals = l.referrals
  <2>1. Shape(m)
    BY <1>3, ContactParts
  <2>2. Listed(m) = Listed(l)
    BY <1>3, ContactParts
  <2>3. \A a \in Listed(l) : a # line.account => m.entry[a] = l.entry[a]
    BY <1>3, ContactParts
  <2>4. IsEntry(m.entry[line.account], n)
    BY <1>3, ContactParts
  <2>5. /\ m.entry[line.account].handle = l.entry[line.account].handle
        /\ m.entry[line.account].code = l.entry[line.account].code
        /\ m.entry[line.account].by = l.entry[line.account].by
    BY <1>3, ContactParts
  <2>6. m.entry[line.account].contact[line.t] = line.value
    BY <1>3, ContactParts
  <2>7. \A k \in ContactKinds : k # line.t =>
          m.entry[line.account].contact[k] = l.entry[line.account].contact[k]
    BY <1>3, ContactParts
  <2>8. m.held[line.t] =
          (l.held[line.t] \ {l.entry[line.account].contact[line.t]})
            \cup ({line.value} \ {Nobody})
    BY <1>3, ContactParts
  <2>9. /\ m.handles = l.handles /\ m.referrals = l.referrals
        /\ \A k \in ContactKinds : k # line.t => m.held[k] = l.held[k]
    BY <1>3, ContactParts
  <2> HIDE DEF m
  <2> QED
    BY <1>1, <2>1, <2>2, <2>3, <2>4, <2>5, <2>6, <2>7, <2>8, <2>9
<1> HIDE DEF m, F
<1>6. \A a \in Listed(l) : /\ F[a].handle = E[a].handle
                           /\ F[a].code = E[a].code /\ F[a].by = E[a].by
                           /\ \A k \in ContactKinds :
                                ~(a = x /\ k = k0) =>
                                  F[a].contact[k] = E[a].contact[k]
  BY <1>4
<1>7. ASSUME NEW a \in Listed(m) PROVE IsEntry(m.entry[a], n)
  BY <1>2, <1>4, <1>7 DEF F
<1>8. /\ l.handles = {E[a].handle : a \in Listed(l)}
      /\ \A k \in ContactKinds :
           l.held[k] = {E[a].contact[k] : a \in Listed(l)} \ {Nobody}
      /\ \A a, b \in Listed(l) : a # b =>
           /\ E[a].handle # E[b].handle /\ E[a].code # E[b].code
           /\ \A k \in ContactKinds : E[a].contact[k] # Nobody =>
                E[a].contact[k] # E[b].contact[k]
      /\ \A c \in 1 .. MaxLines :
           l.referrals[c] = Cardinality({a \in Listed(l) : E[a].by = c})
  BY DEF Consistent, AddsUp, Listed
<1>9. m.handles = {F[a].handle : a \in Listed(m)}
  BY <1>4, <1>6, <1>8
<1>10. ASSUME NEW k \in ContactKinds
       PROVE  m.held[k] = {F[a].contact[k] : a \in Listed(m)} \ {Nobody}
  <2>1. CASE k # k0
    BY <1>4, <1>6, <1>8, <2>1
  <2>2. CASE k = k0
    <3>1. l.held[k0] = {E[a].contact[k0] : a \in Listed(l)} \ {Nobody}
      BY <1>8
    <3>2. \A a \in Listed(l) : a # x =>
            /\ F[a].contact[k0] = E[a].contact[k0]
            /\ E[a].contact[k0] # Nobody =>
                 E[a].contact[k0] # e.contact[k0]
      BY <1>6, <1>8
    <3>3. F[x].contact[k0] = v /\ e = E[x]
      BY <1>4
    <3> HIDE DEF e, f
    <3>4. \A w : w \in m.held[k0] <=>
             w \in {F[a].contact[k0] : a \in Listed(m)} \ {Nobody}
      <4> TAKE w
      <4>1. w \in m.held[k0] <=>
              \/ (\E a \in Listed(l) : w = E[a].contact[k0])
                   /\ w # Nobody /\ w # e.contact[k0]
              \/ w = v /\ w # Nobody
        BY <1>4, <3>1
      <4>2. w \in {F[a].contact[k0] : a \in Listed(m)} \ {Nobody} <=>
              w # Nobody /\ \E a \in Listed(l) : w = F[a].contact[k0]
        BY <1>4
      <4> QED
        BY <3>2, <3>3, <4>1, <4>2
    <3> QED
      BY <2>2, <3>4
  <2> QED
    BY <2>1, <2>2
<1>11. ASSUME NEW a \in Listed(m), NEW b \in Listed(m), a # b
       PROVE  /\ F[a].handle # F[b].handle /\ F[a].code # F[b].code
              /\ \A k \in ContactKinds : F[a].contact[k] # Nobody =>
                   F[a].contact[k] # F[b].contact[k]
  <2>1. F[a].handle # F[b].handle /\ F[a].code # F[b].code
    BY <1>4, <1>6, <1>8, <1>11
  <2>2. ASSUME NEW k \in ContactKinds, F[a].contact[k] # Nobody
        PROVE  F[a].contact[k] # F[b].contact[k]
    <3>1. CASE k # k0
      BY <1>4, <1>6, <1>8, <1>11, <2>2, <3>1
    <3>2. CASE k = k0 /\ a # x /\ b # x
      BY <1>4, <1>6, <1>8, <1>11, <2>2, <3>2
    <3>3. \A c \in Listed(l) :
            v # Nobody => v # E[c].contact[k0]
      BY <1>8
    <3>4. CASE k = k0 /\ a = x
      BY <1>4, <1>6, <1>11, <2>2, <3>3, <3>4
    <3>5. CASE k = k0 /\ b = x
      BY <1>4, <1>6, <1>11, <2>2, <3>3, <3>5
    <3> QED
      BY <3>1, <3>2, <3>4, <3>5
  <2> QED
    BY <2>1, <2>2
<1>12. ASSUME NEW c \in 1 .. MaxLines
       PROVE  m.referrals[c] = Cardinality({a \in Listed(m) : F[a].by = c})
  <2>1. {a \in Listed(m) : F[a].by = c} = {a \in Listed(l) : E[a].by = c}
    BY <1>4, <1>6
  <2> QED
    BY <1>4, <1>8, <2>1
<1>13. AddsUp(m)
  BY <1>9, <1>10, <1>11, <1>12 DEF AddsUp, Listed, F
<1>14. IsFiniteSet(Listed(m))
  BY <1>4 DEF Consistent
<1> QED
  BY <1>0, <1>4, <1>7, <1>13, <1>14 DEF Consistent, m

LEMMA TaskConsistent ==
  ASSUME NEW n, NEW l, Consistent(l, n), NEW x, NEW task
  PROVE  Consistent(Apply(l, TaskLine(x, task)), n)
<1>1. PICK line : line = TaskLine(x, task)
  OBVIOUS
<1>2. line.t = "task"
  BY <1>1 DEF TaskLine
<1>3. PICK d : Apply(l, line) =
           [entry |-> l.entry, handles |-> l.handles, held |-> l.held,
            referrals |-> l.referrals, done |-> d, ranked |-> Nobody]
  BY <1>2, TaskFields DEF Consistent
<1> QED
  BY <1>1, <1>3, SameConsistent
-----------------------------------------------------------------------------
\* The lists that a lines goes through when it is replayed

LEMMA AfterDef ==
  ASSUME NEW lines, Len(lines) \in Nat
  PROVE  After(lines) =
           [n \in 0 .. Len(lines) |->
              IF n = 0 THEN EmptyList
              ELSE IF lines[n].reads THEN Apply(After(lines)[n - 1], lines[n].line)
                   ELSE After(lines)[n - 1]]
<1> DEFINE N == Len(lines)
           Is(g, m) ==
             g = [n \in 0 .. m |->
                    IF n = 0 THEN EmptyList
                    ELSE IF lines[n].reads THEN Apply(g[n - 1], lines[n].line)
                         ELSE g[n - 1]]
           S == {m \in Nat : \E g : Is(g, m)}
<1>1. 0 \in S
  <2>1. Is([n \in 0 .. 0 |-> EmptyList], 0)
    OBVIOUS
  <2> QED
    BY <2>1
<1>2. ASSUME NEW m \in Nat, m \in S
      PROVE  m + 1 \in S
  <2>1. PICK g : Is(g, m)
    BY <1>2
  <2> DEFINE last == IF lines[m + 1].reads
                     THEN Apply(g[m], lines[m + 1].line) ELSE g[m]
             h == [n \in 0 .. m + 1 |-> IF n <= m THEN g[n] ELSE last]
  <2>2. \A n \in 0 .. m : h[n] = g[n]
    OBVIOUS
  <2>3. h[m + 1] = last
    OBVIOUS
  <2>4. h = [n \in 0 .. m + 1 |-> h[n]]
    OBVIOUS
  <2> HIDE DEF h
  <2>5. h[0] = EmptyList
    <3>1. 0 \in 0 .. m
      OBVIOUS
    <3>2. g[0] = EmptyList
      BY <2>1, <3>1
    <3> QED
      BY <2>2, <3>1, <3>2
  <2>6. ASSUME NEW n \in 1 .. m
        PROVE  h[n] = IF lines[n].reads THEN Apply(h[n - 1], lines[n].line)
                      ELSE h[n - 1]
    <3>1. n \in 0 .. m /\ n - 1 \in 0 .. m /\ n # 0
      OBVIOUS
    <3> QED
      BY <2>1, <2>2, <3>1
  <2>7. \A n \in 0 .. m + 1 : n = 0 \/ n \in 1 .. m \/ n = m + 1
    OBVIOUS
  <2>8. m \in 0 .. m /\ m + 1 - 1 = m
    OBVIOUS
  <2>9. \A n \in 0 .. m + 1 : h[n] =
          IF n = 0 THEN EmptyList
          ELSE IF lines[n].reads THEN Apply(h[n - 1], lines[n].line)
               ELSE h[n - 1]
    BY <2>2, <2>3, <2>5, <2>6, <2>7, <2>8
  <2>10. Is(h, m + 1)
    BY <2>4, <2>9
  <2> QED
    BY <2>10
<1>3. N \in S
  <2> HIDE DEF S, N
  <2>1. N \in Nat
    BY DEF N
  <2>2. Nat \subseteq S
    BY <1>1, <1>2, Counting
  <2> QED
    BY <2>1, <2>2
<1>4. PICK g : Is(g, N)
  BY <1>3
<1>5. After(lines) = CHOOSE f : Is(f, N)
  BY DEF After
<1> QED
  BY <1>4, <1>5

LEMMA AfterStep ==
  ASSUME NEW lines, Len(lines) \in Nat
  PROVE  /\ After(lines)[0] = EmptyList
         /\ \A n \in 1 .. Len(lines) :
              After(lines)[n] =
                IF lines[n].reads THEN Apply(After(lines)[n - 1], lines[n].line)
                ELSE After(lines)[n - 1]
<1>1. PICK f : f = After(lines)
  OBVIOUS
<1>2. 0 \in 0 .. Len(lines)
      /\ \A n \in 1 .. Len(lines) : n \in 0 .. Len(lines) /\ n # 0
  OBVIOUS
<1>3. f = [n \in 0 .. Len(lines) |->
             IF n = 0 THEN EmptyList
             ELSE IF lines[n].reads THEN Apply(f[n - 1], lines[n].line)
                  ELSE f[n - 1]]
  BY <1>1, AfterDef
<1> QED
  BY <1>1, <1>2, <1>3

LEMMA AfterShape ==
  ASSUME NEW lines, Len(lines) \in Nat, NEW n \in 0 .. Len(lines)
  PROVE  Shape(After(lines)[n]) /\ After(lines)[n].ranked = Nobody
<1> DEFINE P(k) == k \in 0 .. Len(lines) =>
                     Shape(After(lines)[k]) /\ After(lines)[k].ranked = Nobody
           S == {k \in Nat : P(k)}
<1>1. 0 \in S
  BY AfterStep, EmptyConsistent DEF Consistent
<1>2. ASSUME NEW k \in Nat, k \in S
      PROVE  k + 1 \in S
  <2>1. SUFFICES ASSUME k + 1 \in 0 .. Len(lines)
                 PROVE  P(k + 1)
    OBVIOUS
  <2>2. k \in 0 .. Len(lines) /\ k + 1 \in 1 .. Len(lines) /\ k + 1 - 1 = k
    BY <2>1
  <2>3. Shape(After(lines)[k]) /\ After(lines)[k].ranked = Nobody
    BY <1>2, <2>2
  <2>4. After(lines)[k + 1] =
          IF lines[k + 1].reads THEN Apply(After(lines)[k], lines[k + 1].line)
          ELSE After(lines)[k]
    BY <2>2, AfterStep
  <2> QED
    BY <2>3, <2>4, ApplyShape
<1>3. n \in S
  <2> HIDE DEF S
  <2>1. Nat \subseteq S
    BY <1>1, <1>2, Counting
  <2> QED
    BY <2>1
<1> QED
  BY <1>3

\* What comes later does not matter.
SamePrefix(lines, other, m) ==
  /\ Len(lines) \in Nat /\ Len(other) \in Nat
  /\ m \in Nat /\ m <= Len(lines) /\ m <= Len(other)
  /\ \A n \in 1 .. m :
       lines[n].line = other[n].line /\ lines[n].reads = other[n].reads

LEMMA AfterPrefix ==
  ASSUME NEW lines, NEW other, NEW m, SamePrefix(lines, other, m),
         NEW n \in 0 .. m
  PROVE  After(lines)[n] = After(other)[n]
<1>0. /\ Len(lines) \in Nat /\ Len(other) \in Nat
      /\ m \in Nat /\ m <= Len(lines) /\ m <= Len(other)
      /\ \A k \in 1 .. m :
           lines[k].line = other[k].line /\ lines[k].reads = other[k].reads
  BY DEF SamePrefix
<1> DEFINE S == {k \in Nat : k <= m => After(lines)[k] = After(other)[k]}
<1>1. 0 \in S
  BY <1>0, AfterStep
<1>2. ASSUME NEW k \in Nat, k \in S
      PROVE  k + 1 \in S
  <2>1. SUFFICES ASSUME k + 1 <= m
                 PROVE  After(lines)[k + 1] = After(other)[k + 1]
    OBVIOUS
  <2>2. /\ k <= m /\ k + 1 \in 1 .. m /\ k + 1 - 1 = k
        /\ k + 1 \in 1 .. Len(lines) /\ k + 1 \in 1 .. Len(other)
    BY <1>0, <2>1
  <2>3. After(lines)[k + 1] =
          IF lines[k + 1].reads THEN Apply(After(lines)[k], lines[k + 1].line)
          ELSE After(lines)[k]
    BY <1>0, <2>2, AfterStep
  <2>4. After(other)[k + 1] =
          IF other[k + 1].reads THEN Apply(After(other)[k], other[k + 1].line)
          ELSE After(other)[k]
    BY <1>0, <2>2, AfterStep
  <2>5. After(lines)[k] = After(other)[k]
    BY <1>2, <2>2
  <2> QED
    BY <1>0, <2>2, <2>3, <2>4, <2>5
<1>3. n \in S
  <2> HIDE DEF S
  <2>1. Nat \subseteq S
    BY <1>1, <1>2, Counting
  <2> QED
    BY <1>0, <2>1
<1> QED
  BY <1>0, <1>3

-----------------------------------------------------------------------------
\* A line that is written

IsFile(lines) ==
  /\ \E S : lines \in Seq(S)
  /\ \A i \in 1 .. Len(lines) :
       lines[i] = [line |-> lines[i].line, reads |-> lines[i].reads,
                  ends |-> lines[i].ends]

Lost(lines) == \E i \in 1 .. Len(lines) : lines[i].ends /\ ~lines[i].reads

\* Every list that a replay goes through adds up.
Kept(lines) == \A n \in 0 .. Len(lines) : Consistent(After(lines)[n], n)

\* `lines` is the listFile with a line more.
Grown(lines, line, full, ended) ==
  LET N == Len(listFile)
  IN  /\ IsFile(lines) /\ N \in Nat /\ Len(lines) = N + 1
      /\ \A i \in 1 .. N :
           lines[i].line = listFile[i].line /\ lines[i].ends = listFile[i].ends
      /\ \A i \in 1 .. N - 1 : lines[i].reads = listFile[i].reads
      /\ Unended => N > 0 /\ lines[N].reads = FALSE
      /\ ~Unended => \A i \in 1 .. N : lines[i].reads = listFile[i].reads
      /\ lines[N + 1].line = line /\ lines[N + 1].ends = ended
      /\ Unended => ~lines[N + 1].reads
      /\ ~Unended => lines[N + 1].reads = full

LEMMA AppendedGrown ==
  ASSUME IsFile(listFile), NEW line, NEW full, NEW ended,
         NEW lines, lines = Appended(line, full, ended)
  PROVE  Grown(lines, line, full, ended)
<1> DEFINE N == Len(listFile)
           start == [listFile EXCEPT ![N].reads = FALSE]
<1>1. PICK S : listFile \in Seq(S)
  BY DEF IsFile
<1>2. N \in Nat /\ listFile \in [1 .. N -> S]
  BY <1>1
<1>3. ASSUME NEW last, NEW begin, NEW T, begin \in Seq(T), Len(begin) = N,
             last = [line |-> line, reads |-> last.reads, ends |-> last.ends],
             \A i \in 1 .. N :
               begin[i] = [line |-> begin[i].line, reads |-> begin[i].reads,
                           ends |-> begin[i].ends]
      PROVE  /\ IsFile(Append(begin, last)) /\ Len(Append(begin, last)) = N + 1
             /\ \A i \in 1 .. N : Append(begin, last)[i] = begin[i]
             /\ Append(begin, last)[N + 1] = last
  <2>1. begin \in Seq(T \cup {last}) /\ last \in T \cup {last}
    BY <1>3
  <2>2. /\ Append(begin, last) \in Seq(T \cup {last})
        /\ Len(Append(begin, last)) = N + 1
        /\ \A i \in 1 .. N : Append(begin, last)[i] = begin[i]
        /\ Append(begin, last)[N + 1] = last
    BY <1>2, <1>3, <2>1, AppendProperties
  <2>3. \A i \in 1 .. N + 1 : i \in 1 .. N \/ i = N + 1
    BY <1>2
  <2>4. last.line = line
    BY <1>3
  <2>5. \A i \in 1 .. N + 1 :
          Append(begin, last)[i] =
            [line |-> Append(begin, last)[i].line,
             reads |-> Append(begin, last)[i].reads,
             ends |-> Append(begin, last)[i].ends]
    BY <1>3, <2>2, <2>3, <2>4
  <2> QED
    BY <2>2, <2>5 DEF IsFile
<1>4. CASE Unended
  <2> DEFINE last == [line |-> line, reads |-> FALSE, ends |-> ended]
             V == S \cup {[listFile[N] EXCEPT !.reads = FALSE]}
  <2>1. lines = Append(start, last)
    BY <1>4 DEF Appended
  <2>2. N > 0 /\ N \in 1 .. N
    BY <1>1, <1>2, <1>4 DEF Unended
  <2>3. start = [i \in 1 .. N |->
                   IF i = N THEN [listFile[N] EXCEPT !.reads = FALSE]
                   ELSE listFile[i]]
    BY <1>2
  <2>4. start \in [1 .. N -> V]
    BY <1>2, <2>3
  <2>5. start \in Seq(V) /\ Len(start) = N
    <3> HIDE DEF start, V, N
    <3> QED
      BY <1>2, <2>4
  <2>6. \A i \in 1 .. N - 1 : i \in 1 .. N /\ start[i] = listFile[i]
    BY <1>2, <2>3
  <2>7. start[N] = [line |-> listFile[N].line, reads |-> FALSE,
                    ends |-> listFile[N].ends]
    <3>1. listFile[N] = [line |-> listFile[N].line, reads |-> listFile[N].reads,
                        ends |-> listFile[N].ends]
      BY <2>2 DEF IsFile
    <3>2. start[N] = [listFile[N] EXCEPT !.reads = FALSE]
      BY <1>2, <2>2
    <3> HIDE DEF start, N
    <3> QED
      BY <3>1, <3>2
  <2>8. last = [line |-> line, reads |-> last.reads, ends |-> last.ends]
        /\ last.line = line /\ last.reads = FALSE /\ last.ends = ended
    OBVIOUS
  <2>9. \A i \in 1 .. N : i = N \/ i \in 1 .. N - 1
    <3>1. N \in Nat
      BY <1>2
    <3> HIDE DEF N
    <3> QED
      BY <3>1
  <2>10. \A i \in 1 .. N :
           /\ start[i] = [line |-> start[i].line, reads |-> start[i].reads,
                          ends |-> start[i].ends]
           /\ start[i].line = listFile[i].line
           /\ start[i].ends = listFile[i].ends
    <3> HIDE DEF start
    <3>1. start[N].line = listFile[N].line /\ start[N].ends = listFile[N].ends
          /\ start[N].reads = FALSE
      BY <2>7
    <3> QED
      BY <2>6, <2>7, <2>9, <3>1 DEF IsFile
  <2>11. start[N].reads = FALSE
    BY <2>7
  <2> HIDE DEF start, last, V, N
  <2>12. /\ IsFile(lines) /\ Len(lines) = N + 1
         /\ \A i \in 1 .. N : lines[i] = start[i]
         /\ lines[N + 1] = last
    BY <1>3, <2>1, <2>5, <2>8, <2>10
  <2> QED
    BY <1>2, <1>4, <2>2, <2>6, <2>8, <2>10, <2>11, <2>12 DEF N, Grown
<1>5. CASE ~Unended
  <2> DEFINE last == [line |-> line, reads |-> full, ends |-> ended]
  <2>1. lines = Append(listFile, last)
    BY <1>5 DEF Appended
  <2>2. last = [line |-> line, reads |-> last.reads, ends |-> last.ends]
        /\ last.line = line /\ last.reads = full /\ last.ends = ended
    OBVIOUS
  <2>3. \A i \in 1 .. N - 1 : i \in 1 .. N
    BY <1>2
  <2> HIDE DEF last
  <2>4. /\ IsFile(lines) /\ Len(lines) = N + 1
        /\ \A i \in 1 .. N : lines[i] = listFile[i]
        /\ lines[N + 1] = last
    BY <1>1, <1>3, <2>1, <2>2 DEF IsFile
  <2> QED
    BY <1>2, <1>5, <2>2, <2>3, <2>4 DEF Grown
<1> QED
  BY <1>4, <1>5

\* The lists of the lines with a line more.
ListsGrown(lines, line, full, ended) ==
  LET N == Len(listFile)
      start == IF Unended THEN N - 1 ELSE N
  IN  /\ start \in Nat
      /\ \A n \in 0 .. start : After(lines)[n] = After(listFile)[n]
      /\ Unended => After(lines)[N] = After(listFile)[N - 1]
      /\ After(lines)[N + 1] =
           IF full /\ ~Unended THEN Apply(After(listFile)[N], line)
           ELSE After(lines)[N]
      /\ Lost(listFile) => Lost(lines)
      /\ ended /\ ~(full /\ ~Unended) => Lost(lines)

LEMMA AppendedLists ==
  ASSUME IsFile(listFile), NEW line, NEW full, NEW ended,
         NEW lines, lines = Appended(line, full, ended)
  PROVE  ListsGrown(lines, line, full, ended)
<1> DEFINE N == Len(listFile)
<1>1. lines = Appended(line, full, ended)
  OBVIOUS
<1>2. /\ IsFile(lines) /\ N \in Nat /\ Len(lines) = N + 1
      /\ \A i \in 1 .. N :
           lines[i].line = listFile[i].line /\ lines[i].ends = listFile[i].ends
      /\ \A i \in 1 .. N - 1 : lines[i].reads = listFile[i].reads
      /\ Unended => N > 0 /\ lines[N].reads = FALSE
      /\ ~Unended => \A i \in 1 .. N : lines[i].reads = listFile[i].reads
      /\ lines[N + 1].line = line /\ lines[N + 1].ends = ended
      /\ Unended => ~lines[N + 1].reads
      /\ ~Unended => lines[N + 1].reads = full
  <2>1. Grown(lines, line, full, ended)
    BY <1>1, AppendedGrown
  <2> QED
    BY <2>1 DEF Grown
<1> HIDE DEF N
<1> DEFINE start == IF Unended THEN N - 1 ELSE N
<1>3. start \in Nat /\ start <= N /\ start <= Len(lines)
      /\ \A i \in 1 .. start : i \in 1 .. N
  BY <1>2
<1>4. \A i \in 1 .. start : /\ lines[i].line = listFile[i].line
                            /\ lines[i].reads = listFile[i].reads
  BY <1>2, <1>3
<1>5. ASSUME NEW n \in 0 .. start PROVE After(lines)[n] = After(listFile)[n]
  <2>1. Len(lines) \in Nat /\ Len(listFile) \in Nat /\ start <= Len(listFile)
    BY <1>2, <1>3 DEF N
  <2> HIDE DEF start
  <2>2. SamePrefix(lines, listFile, start)
    BY <1>3, <1>4, <2>1 DEF SamePrefix
  <2> QED
    BY <2>2, AfterPrefix
<1>6. Len(lines) \in Nat /\ N + 1 \in 1 .. Len(lines) /\ N + 1 - 1 = N
  BY <1>2
<1>7. After(lines)[N + 1] = IF lines[N + 1].reads
                           THEN Apply(After(lines)[N], lines[N + 1].line)
                           ELSE After(lines)[N]
  <2>1. PICK n \in 1 .. Len(lines) : n = N + 1
    BY <1>6
  <2>2. n - 1 = N
    BY <1>2, <2>1
  <2>3. After(lines)[n] = IF lines[n].reads
                         THEN Apply(After(lines)[n - 1], lines[n].line)
                         ELSE After(lines)[n - 1]
    BY <1>6, AfterStep
  <2> QED
    BY <2>1, <2>2, <2>3
<1>8. ~Unended => After(lines)[N] = After(listFile)[N]
  BY <1>2, <1>5
<1>9. ASSUME Unended PROVE After(lines)[N] = After(listFile)[N - 1]
  <2>1. N \in 1 .. Len(lines) /\ N - 1 \in 0 .. start
    BY <1>2, <1>9
  <2>2. After(lines)[N] = After(lines)[N - 1]
    BY <1>2, <1>6, <1>9, <2>1, AfterStep
  <2> QED
    BY <1>5, <2>1, <2>2
<1>10. After(lines)[N + 1] =
         IF full /\ ~Unended THEN Apply(After(listFile)[N], line)
         ELSE After(lines)[N]
  <2>1. CASE full /\ ~Unended
    BY <1>2, <1>7, <1>8, <2>1
  <2>2. CASE ~(full /\ ~Unended)
    BY <1>2, <1>7, <2>2
  <2> QED
    BY <2>1, <2>2
<1>11. ASSUME Lost(listFile) PROVE Lost(lines)
  <2>1. PICK i \in 1 .. N : listFile[i].ends /\ ~listFile[i].reads
    BY <1>11 DEF Lost, N
  <2>2. i \in 1 .. Len(lines) /\ (i \in 1 .. N - 1 \/ i = N)
    BY <1>2
  <2>3. lines[i].ends
    BY <1>2, <2>1
  <2>4. ~lines[i].reads
    BY <1>2, <2>1, <2>2
  <2> QED
    BY <2>2, <2>3, <2>4 DEF Lost
<1>12. ended /\ ~(full /\ ~Unended) => Lost(lines)
  BY <1>2, <1>6 DEF Lost
<1> QED
  BY <1>1, <1>3, <1>5, <1>9, <1>10, <1>11, <1>12 DEF N, ListsGrown

\* A line that keeps the last list consistent keeps all of them so.
LEMMA AppendedKept ==
  ASSUME IsFile(listFile), Kept(listFile), NEW line,
         NEW full, NEW ended,
         full /\ ~Unended =>
           Consistent(Apply(After(listFile)[Len(listFile)], line), Len(listFile) + 1)
  PROVE  Kept(Appended(line, full, ended))
<1> DEFINE N == Len(listFile)
           start == IF Unended THEN N - 1 ELSE N
<1>1. PICK lines : lines = Appended(line, full, ended)
  OBVIOUS
<1>2. N \in Nat /\ Len(lines) = N + 1
  <2>1. Grown(lines, line, full, ended)
    BY <1>1, AppendedGrown
  <2> QED
    BY <2>1 DEF Grown
<1>3. /\ start \in Nat
      /\ \A n \in 0 .. start : After(lines)[n] = After(listFile)[n]
      /\ Unended => After(lines)[N] = After(listFile)[N - 1]
      /\ After(lines)[N + 1] =
           IF full /\ ~Unended THEN Apply(After(listFile)[N], line)
           ELSE After(lines)[N]
  <2>1. ListsGrown(lines, line, full, ended)
    BY <1>1, AppendedLists
  <2> QED
    BY <2>1 DEF ListsGrown
<1>4. \A n \in 0 .. N : Consistent(After(listFile)[n], n)
  BY DEF Kept
<1>5. full /\ ~Unended => Consistent(Apply(After(listFile)[N], line), N + 1)
  OBVIOUS
<1> HIDE DEF N
<1>6. \A n \in 0 .. start : Consistent(After(lines)[n], n)
  BY <1>2, <1>3, <1>4
<1>7. Consistent(After(lines)[N], N)
  <2>1. CASE Unended
    <3>1. N - 1 \in Nat /\ N - 1 \in 0 .. N /\ N - 1 + 1 = N
      BY <1>2, <1>3, <2>1
    <3>2. Consistent(After(listFile)[N - 1], N - 1)
      BY <1>4, <3>1
    <3> QED
      BY <1>3, <2>1, <3>1, <3>2, LaterConsistent
  <2>2. CASE ~Unended
    BY <1>2, <1>6, <2>2
  <2> QED
    BY <2>1, <2>2
<1>8. Consistent(After(lines)[N + 1], N + 1)
  <2>1. CASE full /\ ~Unended
    BY <1>3, <1>5, <2>1
  <2>2. CASE ~(full /\ ~Unended)
    BY <1>2, <1>3, <1>7, <2>2, LaterConsistent
  <2> QED
    BY <2>1, <2>2
<1>9. \A n \in 0 .. N + 1 : n \in 0 .. start \/ n = N \/ n = N + 1
  BY <1>2
<1> QED
  BY <1>1, <1>2, <1>6, <1>7, <1>8, <1>9 DEF Kept

\* Every line that a request may write.
LEMMA WritableConsistent ==
  ASSUME NEW l, l = [list EXCEPT !.ranked = Nobody], Shape(list),
         Len(listFile) \in Nat, Consistent(l, Len(listFile)),
         NEW line \in Writable
  PROVE  Consistent(Apply(l, line), Len(listFile) + 1)
<1> DEFINE N == Len(listFile)
<1>0. l.entry = list.entry /\ l.handles = list.handles /\ l.held = list.held
      /\ l.done = list.done /\ Listed(l) = Listed(list)
  BY DEF Shape, Listed
<1>1. CASE line \in SignUps
  <2>1. PICK a \in Joiners \ Listed(list), h \in Handles \ list.handles,
             contact \in {c \in [ContactKinds -> Contacts \cup {Nobody}] :
                            \A k \in ContactKinds : ~Claimed(k, c[k])},
             by \in {Nobody} \cup {list.entry[r].code : r \in Listed(list)} :
               line = JoinLine(a, h, contact, N + 1, by)
    BY <1>1 DEF SignUps
  <2>2. \A k \in ContactKinds :
          ~(contact[k] # Nobody /\ contact[k] \in l.held[k])
    BY <1>0, <2>1 DEF Claimed
  <2> QED
    BY <1>0, <2>1, <2>2, JoinConsistent
<1>2. CASE \E a \in Listed(list) : line \in NewContacts(a)
  <2>1. PICK a \in Listed(list), k \in ContactKinds,
             v \in Contacts \cup {Nobody} :
               line = ContactLine(a, k, v) /\ ~Claimed(line.t, line.value)
    BY <1>2 DEF NewContacts
  <2>2. ~(v # Nobody /\ v \in l.held[k])
    BY <1>0, <2>1 DEF Claimed, ContactLine
  <2>3. Consistent(Apply(l, line), N)
    BY <1>0, <2>1, <2>2, ContactConsistent
  <2> QED
    BY <2>3, LaterConsistent
<1>3. CASE \E a \in Listed(list) : line \in NewTasks(a)
  <2>1. PICK a, task : line = TaskLine(a, task)
    BY <1>3 DEF NewTasks
  <2>2. Consistent(Apply(l, line), N)
    BY <2>1, TaskConsistent
  <2> QED
    BY <2>2, LaterConsistent
<1> QED
  BY <1>1, <1>2, <1>3 DEF Writable

-----------------------------------------------------------------------------
\* The list in memory and the list of the lines

LEMMA FreshSame ==
  ASSUME NEW l, Shape(l), l.ranked = Nobody
  PROVE  [l EXCEPT !.ranked = Nobody] = l
<1>1. l = [entry |-> l.entry, handles |-> l.handles, held |-> l.held,
           referrals |-> l.referrals, done |-> l.done, ranked |-> l.ranked]
  BY DEF Shape
<1> QED
  BY <1>1

\* Memory and lines agree, but for the standings, as long as no line is lost.
WaitInv ==
  /\ IsFile(listFile)
  /\ Shape(list)
  /\ serving \in BOOLEAN
  /\ StandingsCurrent
  /\ ~serving => list = EmptyList
  /\ ~Lost(listFile) =>
       /\ Kept(listFile)
       /\ serving => Replayed = [list EXCEPT !.ranked = Nobody]

\* Any line makes the standings stale, and nothing else is read of them.
LEMMA ApplyFresh ==
  ASSUME NEW l, NEW m, l = [m EXCEPT !.ranked = Nobody], Shape(m), NEW line
  PROVE  Apply(l, line) = Apply(m, line)
<1>1. m = [entry |-> m.entry, handles |-> m.handles, held |-> m.held,
           referrals |-> m.referrals, done |-> m.done, ranked |-> m.ranked]
  BY DEF Shape
<1>2. [l EXCEPT !.ranked = Nobody] = [m EXCEPT !.ranked = Nobody]
  BY <1>1
<1> QED
  BY <1>2 DEF Apply

LEMMA LineKeeps ==
  ASSUME WaitInv, serving, NEW line \in Writable, WriteLine(line)
  PROVE  WaitInv'
<1> DEFINE N == Len(listFile)
           lines == Appended(line, TRUE, TRUE)
           m == Apply(list, line)
<1>1. /\ IsFile(listFile) /\ Shape(list) /\ listFile' = lines
      /\ list' = Rank(m) /\ serving' = serving
  BY DEF WaitInv, WriteLine
<1>2. Grown(lines, line, TRUE, TRUE) /\ ListsGrown(lines, line, TRUE, TRUE)
  BY <1>1, AppendedGrown, AppendedLists
<1>3. Shape(m) /\ m.ranked = Nobody
  BY <1>1, ApplyShape
<1>4. /\ Shape(Rank(m)) /\ Rank(m).ranked \in {Nobody, Standings(Rank(m))}
      /\ [Rank(m) EXCEPT !.ranked = Nobody] = m
  BY <1>3, RankKeeps, FreshSame
<1>5. IsFile(lines) /\ Len(lines) = N + 1 /\ N \in Nat
  BY <1>2 DEF Grown
<1>6. ASSUME ~Lost(lines)
      PROVE  Kept(lines) /\ After(lines)[Len(lines)] = m
  <2>1. ~Lost(listFile) /\ ~Unended
    BY <1>2, <1>6 DEF ListsGrown
  <2>2. /\ Kept(listFile) /\ After(listFile)[N] = [list EXCEPT !.ranked = Nobody]
        /\ serving
    BY <2>1 DEF WaitInv, Replayed
  <2>3. Consistent(After(listFile)[N], N)
    BY <1>5, <2>2 DEF Kept
  <2>4. Consistent(Apply(After(listFile)[N], line), N + 1)
    BY <1>1, <1>5, <2>2, <2>3, WritableConsistent
  <2>5. Kept(lines)
    BY <1>1, <2>2, <2>4, AppendedKept
  <2>6. Apply(After(listFile)[N], line) = m
    BY <1>1, <2>2, ApplyFresh
  <2>7. After(lines)[N + 1] = Apply(After(listFile)[N], line)
    BY <1>2, <2>1 DEF ListsGrown
  <2> QED
    BY <1>5, <2>5, <2>6, <2>7
<1> HIDE DEF m, lines, N
<1> QED
  BY <1>1, <1>4, <1>5, <1>6 DEF WaitInv, StandingsCurrent, Replayed

LEMMA RankedKeeps ==
  ASSUME WaitInv, serving, list' = Rank(list),
         listFile' = listFile, serving' = serving
  PROVE  WaitInv'
<1>1. Shape(list) /\ list.ranked \in {Nobody, Standings(list)}
  BY DEF WaitInv, StandingsCurrent
<1>2. /\ Shape(Rank(list))
      /\ Rank(list).ranked \in {Nobody, Standings(Rank(list))}
      /\ [Rank(list) EXCEPT !.ranked = Nobody] = [list EXCEPT !.ranked = Nobody]
  BY <1>1, RankKeeps
<1> QED
  BY <1>2 DEF WaitInv, StandingsCurrent, Replayed

LEMMA StopKeeps ==
  ASSUME WaitInv, Stop
  PROVE  WaitInv'
<1>1. /\ serving /\ serving' = FALSE /\ list' = EmptyList
      /\ Shape(EmptyList) /\ EmptyList.ranked = Nobody
  BY EmptyConsistent DEF Stop, Consistent
<1>2. /\ IsFile(listFile)
      /\ ~Lost(listFile) =>
           /\ Kept(listFile)
           /\ After(listFile)[Len(listFile)] = [list EXCEPT !.ranked = Nobody]
      /\ Shape(list)
  BY <1>1 DEF WaitInv, Replayed
<1>3. CASE listFile' = listFile
  BY <1>1, <1>2, <1>3 DEF WaitInv, StandingsCurrent
<1>4. CASE \E line \in Writable, full \in BOOLEAN :
             listFile' = Appended(line, full, FALSE)
  <2>1. PICK line \in Writable, full \in BOOLEAN :
               listFile' = Appended(line, full, FALSE)
    BY <1>4
  <2>2. PICK lines : lines = Appended(line, full, FALSE) /\ listFile' = lines
    BY <2>1
  <2>3. Grown(lines, line, full, FALSE) /\ ListsGrown(lines, line, full, FALSE)
    BY <1>2, <2>2, AppendedGrown, AppendedLists
  <2>4. IsFile(lines) /\ Len(listFile) \in Nat
    BY <2>3 DEF Grown
  <2>5. ASSUME ~Lost(lines) PROVE Kept(lines)
    <3>1. ~Lost(listFile)
      BY <2>3, <2>5 DEF ListsGrown
    <3>2. Consistent(After(listFile)[Len(listFile)], Len(listFile))
      BY <1>2, <2>4, <3>1 DEF Kept
    <3>3. Consistent(Apply(After(listFile)[Len(listFile)], line), Len(listFile) + 1)
      BY <1>2, <2>4, <3>1, <3>2, WritableConsistent
    <3> QED
      BY <1>2, <2>2, <3>1, <3>3, AppendedKept
  <2> QED
    BY <1>1, <2>2, <2>4, <2>5 DEF WaitInv, StandingsCurrent
<1> QED
  BY <1>3, <1>4 DEF Stop

LEMMA StartKeeps ==
  ASSUME WaitInv, Start
  PROVE  WaitInv'
<1>1. serving' = TRUE /\ list' = Replayed /\ listFile' = listFile
  BY DEF Start
<1>2. Len(listFile) \in Nat
  BY DEF WaitInv, IsFile
<1>3. Shape(Replayed) /\ Replayed.ranked = Nobody
  BY <1>2, AfterShape DEF Replayed
<1>4. [Replayed EXCEPT !.ranked = Nobody] = Replayed
  BY <1>3, FreshSame
<1>5. Replayed' = Replayed
  BY <1>1 DEF Replayed
<1> QED
  BY <1>1, <1>3, <1>4, <1>5 DEF WaitInv, StandingsCurrent

LEMMA WaitInvInit == WaitInit => WaitInv
<1> SUFFICES ASSUME WaitInit PROVE WaitInv
  OBVIOUS
<1>1. /\ listFile = <<>> /\ list = EmptyList /\ serving = TRUE
      /\ Len(listFile) = 0
  BY DEF WaitInit
<1>2. Consistent(EmptyList, 0) /\ EmptyList.ranked = Nobody /\ Shape(EmptyList)
  BY EmptyConsistent DEF Consistent
<1>3. IsFile(listFile)
  BY <1>1 DEF IsFile
<1>4. After(listFile)[0] = EmptyList
  BY <1>1, AfterStep
<1>5. Kept(listFile)
  BY <1>1, <1>2, <1>4 DEF Kept
<1>6. [EmptyList EXCEPT !.ranked = Nobody] = EmptyList
  BY <1>2, FreshSame
<1> QED
  BY <1>1, <1>2, <1>3, <1>4, <1>5, <1>6 DEF WaitInv, StandingsCurrent, Replayed

LEMMA WaitInvStep == WaitInv /\ [WaitNext]_waitVars => WaitInv'
<1> SUFFICES ASSUME WaitInv, [WaitNext]_waitVars PROVE WaitInv'
  OBVIOUS
<1>1. ASSUME NEW line \in SignUps, NEW client \in Clients, Join(line, client)
      PROVE  WaitInv'
  BY <1>1, LineKeeps DEF Join, Writable
<1>2. ASSUME NEW a \in Listed(list), JoinAgain(a)
      PROVE  WaitInv'
  <2>1. CASE list' = Rank(list) /\ UNCHANGED <<listFile, serving, outages>>
    BY <1>2, <2>1, RankedKeeps DEF JoinAgain
  <2>2. CASE \E line \in NewContacts(a) : WriteLine(line)
    BY <1>2, <2>2, LineKeeps DEF JoinAgain, Writable
  <2> QED
    BY <1>2, <2>1, <2>2 DEF JoinAgain
<1>3. ASSUME NEW a \in Listed(list), NEW line \in NewTasks(a),
             CompleteTask(line)
      PROVE  WaitInv'
  BY <1>3, LineKeeps DEF CompleteTask, Writable
<1>4. CASE ReadStandings
  BY <1>4, RankedKeeps DEF ReadStandings
<1>5. ASSUME UNCHANGED <<listFile, list, serving>> PROVE WaitInv'
  BY <1>5 DEF WaitInv, StandingsCurrent, Replayed
<1>6. ASSUME NEW client \in Clients, DayPasses(client) PROVE WaitInv'
  BY <1>5, <1>6 DEF DayPasses
<1>7. CASE UNCHANGED waitVars
  BY <1>5, <1>7 DEF waitVars
<1> QED
  BY <1>1, <1>2, <1>3, <1>4, <1>6, <1>7, StopKeeps, StartKeeps DEF WaitNext

LEMMA WaitInvMeans == WaitInv => ListKept
<1> SUFFICES ASSUME WaitInv PROVE ListKept
  OBVIOUS
<1>1. LineLost <=> Lost(listFile)
  BY DEF LineLost, Lost
<1>2. StandingsCurrent
  BY DEF WaitInv
<1>3. ASSUME ~LineLost PROVE AddsUp(list)
  <2>1. CASE ~serving
    BY <2>1, EmptyConsistent DEF WaitInv, Consistent
  <2>2. CASE serving
    <3>1. /\ Kept(listFile) /\ Replayed = [list EXCEPT !.ranked = Nobody]
          /\ Len(listFile) \in Nat /\ Shape(list)
      BY <1>1, <1>3, <2>2 DEF WaitInv, IsFile
    <3>2. AddsUp(Replayed)
      BY <3>1 DEF Kept, Consistent, Replayed
    <3>3. /\ Replayed.entry = list.entry /\ Replayed.handles = list.handles
          /\ Replayed.held = list.held /\ Replayed.referrals = list.referrals
      BY <3>1 DEF Shape
    <3> QED
      BY <3>2, <3>3 DEF AddsUp
  <2> QED
    BY <2>1, <2>2
<1>4. RestartRestores
  BY <1>1 DEF WaitInv, RestartRestores
<1> QED
  BY <1>2, <1>3, <1>4 DEF ListKept, ListAddsUp

\* The waitlist's memory and lines never part: while no line is lost, no two
\* people share a handle, an e-mail or a wallet, what counts as taken is what
\* somebody has, referrals are the people who came, the standings shown are
\* current, and a restart brings back the list as it was.
THEOREM ListProved == WaitSpec => []ListKept
<1> QED
  BY WaitInvInit, WaitInvStep, WaitInvMeans, PTL DEF WaitSpec

-----------------------------------------------------------------------------
\* The rows of the tape (Feed)

Events == [type : {"CreatorFee", "Trade", "Buyback"}, quote : Nat, price : Nat]
Committed == [ts : Nat, events : EventLists]
TapeRows == [seq : Nat, ts : Nat, price : Nat, quote : Nat]

RowOf(rec, i, n) ==
  [seq |-> i, ts |-> rec.ts, price |-> rec.events[n].price,
   quote |-> rec.events[n].quote]

OneMore(rows, rec, i, n) ==
  IF rec.events[n].type \in {"Trade", "Buyback"}
  THEN Append(rows, RowOf(rec, i, n)) ELSE rows

IsRowsOf(g, rec, i, m) ==
  g = [n \in 0 .. m |-> IF n = 0 THEN <<>> ELSE OneMore(g[n - 1], rec, i, n)]

WithRecord(rows, log, a, n) ==
  IF n < a THEN rows ELSE rows \o RowsOf(log[n], n)

IsRowsFrom(g, log, a, m) ==
  g = [n \in 0 .. m |-> IF n = 0 THEN <<>> ELSE WithRecord(g[n - 1], log, a, n)]

IsCharts(g, rows, m) ==
  g = [n \in 0 .. m |-> IF n = 0 THEN <<>> ELSE WithTrade(g[n - 1], rows[n])]

LEMMA RowsOfBuilt ==
  ASSUME NEW rec, NEW i, Len(rec.events) \in Nat
  PROVE  \E f : IsRowsOf(f, rec, i, Len(rec.events))
              /\ RowsOf(rec, i) = f[Len(rec.events)]
<1> DEFINE S == {m \in Nat : \E g : IsRowsOf(g, rec, i, m)}
<1>1. 0 \in S
  <2>1. IsRowsOf([k \in 0 .. 0 |-> <<>>], rec, i, 0)
    BY DEF IsRowsOf
  <2> QED
    BY <2>1
<1>2. ASSUME NEW m \in Nat, m \in S
      PROVE  m + 1 \in S
  <2>1. PICK g : IsRowsOf(g, rec, i, m)
    BY <1>2
  <2> DEFINE last == OneMore(g[m], rec, i, m + 1)
             h == [k \in 0 .. m + 1 |-> IF k <= m THEN g[k] ELSE last]
  <2>2. \A k \in 0 .. m : h[k] = g[k]
    OBVIOUS
  <2>3. h[m + 1] = last
    OBVIOUS
  <2>4. h = [k \in 0 .. m + 1 |-> h[k]]
    OBVIOUS
  <2> HIDE DEF h
  <2>5. h[0] = <<>>
    <3>1. 0 \in 0 .. m
      OBVIOUS
    <3>2. g[0] = <<>>
      BY <2>1, <3>1 DEF IsRowsOf
    <3> QED
      BY <2>2, <3>1, <3>2
  <2>6. ASSUME NEW k \in 1 .. m
        PROVE  h[k] = OneMore(h[k - 1], rec, i, k)
    <3>1. k \in 0 .. m /\ k - 1 \in 0 .. m /\ k # 0
      OBVIOUS
    <3> QED
      BY <2>1, <2>2, <3>1 DEF IsRowsOf
  <2>7. \A k \in 0 .. m + 1 : k = 0 \/ k \in 1 .. m \/ k = m + 1
    OBVIOUS
  <2>8. m \in 0 .. m /\ m + 1 - 1 = m
    OBVIOUS
  <2>9. \A k \in 0 .. m + 1 :
          h[k] = IF k = 0 THEN <<>>
                 ELSE OneMore(h[k - 1], rec, i, k)
    <3> SUFFICES ASSUME NEW k \in 0 .. m + 1
                 PROVE  h[k] = IF k = 0 THEN <<>> ELSE OneMore(h[k - 1], rec, i, k)
      OBVIOUS
    <3>1. CASE k = 0
      BY <2>5, <3>1
    <3>2. CASE k \in 1 .. m
      BY <2>6, <3>2
    <3>3. CASE k = m + 1
      <4>1. h[m] = g[m] /\ m + 1 # 0
        BY <2>2, <2>8
      <4> QED
        BY <2>3, <2>8, <3>3, <4>1
    <3> QED
      BY <2>7, <3>1, <3>2, <3>3
  <2>10. IsRowsOf(h, rec, i, m + 1)
    BY <2>4, <2>9 DEF IsRowsOf
  <2> QED
    BY <2>10
<1>3. \E g : IsRowsOf(g, rec, i, Len(rec.events))
  <2> HIDE DEF S
  <2>1. Nat \subseteq S
    BY <1>1, <1>2, Counting
  <2>2. Len(rec.events) \in S
    BY <2>1
  <2> QED
    BY <2>2 DEF S
<1>4. PICK f : f = CHOOSE g : IsRowsOf(g, rec, i, Len(rec.events))
  OBVIOUS
<1>5. IsRowsOf(f, rec, i, Len(rec.events))
  BY <1>3, <1>4
<1>6. RowsOf(rec, i) = f[Len(rec.events)]
  BY <1>4 DEF RowsOf, IsRowsOf, OneMore, RowOf
<1> QED
  BY <1>5, <1>6

LEMMA RowsFromBuilt ==
  ASSUME NEW log, NEW a, Len(log) \in Nat
  PROVE  IsRowsFrom(RowsFrom(log, a), log, a, Len(log))
<1> DEFINE S == {m \in Nat : \E g : IsRowsFrom(g, log, a, m)}
<1>1. 0 \in S
  <2>1. IsRowsFrom([k \in 0 .. 0 |-> <<>>], log, a, 0)
    BY DEF IsRowsFrom
  <2> QED
    BY <2>1
<1>2. ASSUME NEW m \in Nat, m \in S
      PROVE  m + 1 \in S
  <2>1. PICK g : IsRowsFrom(g, log, a, m)
    BY <1>2
  <2> DEFINE last == WithRecord(g[m], log, a, m + 1)
             h == [k \in 0 .. m + 1 |-> IF k <= m THEN g[k] ELSE last]
  <2>2. \A k \in 0 .. m : h[k] = g[k]
    OBVIOUS
  <2>3. h[m + 1] = last
    OBVIOUS
  <2>4. h = [k \in 0 .. m + 1 |-> h[k]]
    OBVIOUS
  <2> HIDE DEF h
  <2>5. h[0] = <<>>
    <3>1. 0 \in 0 .. m
      OBVIOUS
    <3>2. g[0] = <<>>
      BY <2>1, <3>1 DEF IsRowsFrom
    <3> QED
      BY <2>2, <3>1, <3>2
  <2>6. ASSUME NEW k \in 1 .. m
        PROVE  h[k] = WithRecord(h[k - 1], log, a, k)
    <3>1. k \in 0 .. m /\ k - 1 \in 0 .. m /\ k # 0
      OBVIOUS
    <3> QED
      BY <2>1, <2>2, <3>1 DEF IsRowsFrom
  <2>7. \A k \in 0 .. m + 1 : k = 0 \/ k \in 1 .. m \/ k = m + 1
    OBVIOUS
  <2>8. m \in 0 .. m /\ m + 1 - 1 = m
    OBVIOUS
  <2>9. \A k \in 0 .. m + 1 :
          h[k] = IF k = 0 THEN <<>>
                 ELSE WithRecord(h[k - 1], log, a, k)
    BY <2>2, <2>3, <2>5, <2>6, <2>7, <2>8
  <2>10. IsRowsFrom(h, log, a, m + 1)
    BY <2>4, <2>9 DEF IsRowsFrom
  <2> QED
    BY <2>10
<1>3. \E g : IsRowsFrom(g, log, a, Len(log))
  <2> HIDE DEF S
  <2>1. Nat \subseteq S
    BY <1>1, <1>2, Counting
  <2>2. Len(log) \in S
    BY <2>1
  <2> QED
    BY <2>2 DEF S
<1>4. RowsFrom(log, a) = CHOOSE g : IsRowsFrom(g, log, a, Len(log))
  BY DEF IsRowsFrom, RowsFrom, WithRecord
<1> QED
  BY <1>3, <1>4

LEMMA ChartsBuilt ==
  ASSUME NEW rows, Len(rows) \in Nat
  PROVE  IsCharts(Charts(rows), rows, Len(rows))
<1> DEFINE S == {m \in Nat : \E g : IsCharts(g, rows, m)}
<1>1. 0 \in S
  <2>1. IsCharts([k \in 0 .. 0 |-> <<>>], rows, 0)
    BY DEF IsCharts
  <2> QED
    BY <2>1
<1>2. ASSUME NEW m \in Nat, m \in S
      PROVE  m + 1 \in S
  <2>1. PICK g : IsCharts(g, rows, m)
    BY <1>2
  <2> DEFINE last == WithTrade(g[m], rows[m + 1])
             h == [k \in 0 .. m + 1 |-> IF k <= m THEN g[k] ELSE last]
  <2>2. \A k \in 0 .. m : h[k] = g[k]
    OBVIOUS
  <2>3. h[m + 1] = last
    OBVIOUS
  <2>4. h = [k \in 0 .. m + 1 |-> h[k]]
    OBVIOUS
  <2> HIDE DEF h
  <2>5. h[0] = <<>>
    <3>1. 0 \in 0 .. m
      OBVIOUS
    <3>2. g[0] = <<>>
      BY <2>1, <3>1 DEF IsCharts
    <3> QED
      BY <2>2, <3>1, <3>2
  <2>6. ASSUME NEW k \in 1 .. m
        PROVE  h[k] = WithTrade(h[k - 1], rows[k])
    <3>1. k \in 0 .. m /\ k - 1 \in 0 .. m /\ k # 0
      OBVIOUS
    <3> QED
      BY <2>1, <2>2, <3>1 DEF IsCharts
  <2>7. \A k \in 0 .. m + 1 : k = 0 \/ k \in 1 .. m \/ k = m + 1
    OBVIOUS
  <2>8. m \in 0 .. m /\ m + 1 - 1 = m
    OBVIOUS
  <2>9. \A k \in 0 .. m + 1 :
          h[k] = IF k = 0 THEN <<>>
                 ELSE WithTrade(h[k - 1], rows[k])
    BY <2>2, <2>3, <2>5, <2>6, <2>7, <2>8
  <2>10. IsCharts(h, rows, m + 1)
    BY <2>4, <2>9 DEF IsCharts
  <2> QED
    BY <2>10
<1>3. \E g : IsCharts(g, rows, Len(rows))
  <2> HIDE DEF S
  <2>1. Nat \subseteq S
    BY <1>1, <1>2, Counting
  <2>2. Len(rows) \in S
    BY <2>1
  <2> QED
    BY <2>2 DEF S
<1>4. Charts(rows) = CHOOSE g : IsCharts(g, rows, Len(rows))
  BY DEF IsCharts, Charts
<1> QED
  BY <1>3, <1>4

LEMMA RowsOfType ==
  ASSUME NEW rec \in Committed, NEW i \in Nat
  PROVE  /\ RowsOf(rec, i) \in Seq(TapeRows)
         /\ \A k \in 1 .. Len(RowsOf(rec, i)) : RowsOf(rec, i)[k].ts = rec.ts
<1> DEFINE N == Len(rec.events)
<1>1. rec.ts \in Nat /\ rec.events \in Seq(Events) /\ N \in Nat
  BY FeedAssumption DEF Committed, Events
<1>2. PICK f : IsRowsOf(f, rec, i, N) /\ RowsOf(rec, i) = f[N]
  BY <1>1, RowsOfBuilt
<1> DEFINE P(n) == /\ f[n] \in Seq(TapeRows)
                   /\ \A k \in 1 .. Len(f[n]) : f[n][k].ts = rec.ts
           S == {n \in Nat : n <= N => P(n)}
<1>3. f[0] = <<>> /\ \A n \in 1 .. N : f[n] = OneMore(f[n - 1], rec, i, n)
  <2> HIDE DEF N
  <2> QED
    BY <1>1, <1>2 DEF IsRowsOf
<1>4. 0 \in S
  <2>1. <<>> \in Seq(TapeRows) /\ \A k \in 1 .. Len(<<>>) : FALSE
    OBVIOUS
  <2>2. P(0)
    BY <1>3, <2>1
  <2> QED
    BY <2>2
<1>5. ASSUME NEW n \in Nat, n \in S
      PROVE  n + 1 \in S
  <2>1. SUFFICES ASSUME n + 1 <= N
                 PROVE  P(n + 1)
    OBVIOUS
  <2>2. P(n)
    BY <1>1, <1>5, <2>1
  <2>3. f[n + 1] = OneMore(f[n], rec, i, n + 1)
    <3>1. n + 1 \in 1 .. N /\ n + 1 - 1 = n
      BY <1>1, <2>1
    <3> QED
      BY <1>3, <3>1
  <2> DEFINE row == RowOf(rec, i, n + 1)
  <2>4. row \in TapeRows /\ row.ts = rec.ts
    <3>1. rec.events[n + 1] \in Events
      <4> HIDE DEF Events
      <4> QED
        BY <1>1, <2>1
    <3> QED
      BY <1>1, <3>1 DEF RowOf, TapeRows, Events
  <2>5. f[n + 1] = Append(f[n], row) \/ f[n + 1] = f[n]
    BY <2>3 DEF OneMore
  <2> HIDE DEF row
  <2>6. CASE f[n + 1] = f[n]
    BY <2>2, <2>6
  <2>7. CASE f[n + 1] = Append(f[n], row)
    <3>1. PICK old : old = f[n]
      OBVIOUS
    <3>2. PICK more : more = f[n + 1]
      OBVIOUS
    <3>3. old \in Seq(TapeRows) /\ Len(old) \in Nat /\ more = Append(old, row)
          /\ \A k \in 1 .. Len(old) : old[k].ts = rec.ts
      BY <2>2, <2>7, <3>1, <3>2
    <3>4. more \in Seq(TapeRows) /\ Len(more) = Len(old) + 1
          /\ more[Len(old) + 1] = row
          /\ \A k \in 1 .. Len(old) : more[k] = old[k]
      BY <2>4, <3>3
    <3>5. \A k \in 1 .. Len(old) + 1 : k \in 1 .. Len(old) \/ k = Len(old) + 1
      BY <3>3
    <3>6. \A k \in 1 .. Len(more) : more[k].ts = rec.ts
      BY <2>4, <3>3, <3>4, <3>5
    <3> QED
      BY <3>2, <3>4, <3>6
  <2> QED
    BY <2>5, <2>6, <2>7
<1>6. N \in S
  <2> HIDE DEF S, N
  <2>1. Nat \subseteq S
    BY <1>4, <1>5, Counting
  <2> QED
    BY <1>1, <2>1
<1>7. P(N)
  BY <1>1, <1>6
<1> QED
  BY <1>2, <1>7

LEMMA RowsStep ==
  ASSUME NEW log, Len(log) \in Nat, NEW a
  PROVE  /\ RowsFrom(log, a)[0] = <<>>
         /\ \A n \in 1 .. Len(log) :
              RowsFrom(log, a)[n] = WithRecord(RowsFrom(log, a)[n - 1], log, a, n)
<1>1. PICK f : f = RowsFrom(log, a)
  OBVIOUS
<1>2. 0 \in 0 .. Len(log)
      /\ \A n \in 1 .. Len(log) : n \in 0 .. Len(log) /\ n # 0
  OBVIOUS
<1>3. f = [n \in 0 .. Len(log) |->
             IF n = 0 THEN <<>> ELSE WithRecord(f[n - 1], log, a, n)]
  BY <1>1, RowsFromBuilt DEF IsRowsFrom
<1> QED
  BY <1>1, <1>2, <1>3

LEMMA RowsType ==
  ASSUME NEW log \in Seq(Committed), NEW a, NEW n \in 0 .. Len(log)
  PROVE  RowsFrom(log, a)[n] \in Seq(TapeRows)
<1> DEFINE f == RowsFrom(log, a)
           S == {k \in Nat : k <= Len(log) => f[k] \in Seq(TapeRows)}
<1>1. Len(log) \in Nat
  OBVIOUS
<1>2. 0 \in S
  <2>1. f[0] = <<>>
    BY <1>1, RowsStep
  <2> HIDE DEF f
  <2>2. f[0] \in Seq(TapeRows)
    BY <2>1
  <2> QED
    BY <2>2
<1>3. ASSUME NEW k \in Nat, k \in S
      PROVE  k + 1 \in S
  <2>1. SUFFICES ASSUME k + 1 <= Len(log)
                 PROVE  f[k + 1] \in Seq(TapeRows)
    OBVIOUS
  <2>2. f[k] \in Seq(TapeRows)
    BY <1>1, <1>3, <2>1
  <2>3. k + 1 \in 1 .. Len(log) /\ k + 1 - 1 = k /\ k + 1 \in Nat
    BY <1>1, <2>1
  <2>4. f[k + 1] = WithRecord(f[k], log, a, k + 1)
    BY <1>1, <2>3, RowsStep
  <2>5. log[k + 1] \in Committed
    <3> HIDE DEF Committed
    <3> QED
      BY <2>3
  <2>6. RowsOf(log[k + 1], k + 1) \in Seq(TapeRows)
    BY <2>3, <2>5, RowsOfType
  <2> QED
    BY <2>2, <2>4, <2>6 DEF WithRecord
<1>4. n \in S
  <2> HIDE DEF S
  <2> QED
    BY <1>2, <1>3, Counting
<1> QED
  BY <1>1, <1>4

LEMMA RowsNone ==
  ASSUME NEW log, Len(log) \in Nat, NEW a \in Nat, NEW n \in 0 .. Len(log), n < a
  PROVE  RowsFrom(log, a)[n] = <<>>
<1> DEFINE f == RowsFrom(log, a)
           S == {k \in Nat : k <= Len(log) /\ k < a => f[k] = <<>>}
<1>1. 0 \in S
  BY RowsStep
<1>2. ASSUME NEW k \in Nat, k \in S
      PROVE  k + 1 \in S
  <2>1. SUFFICES ASSUME k + 1 <= Len(log) /\ k + 1 < a
                 PROVE  f[k + 1] = <<>>
    OBVIOUS
  <2>2. k + 1 \in 1 .. Len(log) /\ k + 1 - 1 = k /\ f[k] = <<>>
    BY <1>2, <2>1
  <2>3. f[k + 1] = WithRecord(f[k], log, a, k + 1)
    BY <2>2, RowsStep
  <2> QED
    BY <2>1, <2>2, <2>3 DEF WithRecord
<1>3. n \in S
  <2> HIDE DEF S
  <2> QED
    BY <1>1, <1>2, Counting
<1> QED
  BY <1>3

\* Records that come later change nothing.
LEMMA RowsSame ==
  ASSUME NEW log \in Seq(Committed), NEW rec \in Committed, NEW a,
         NEW n \in 0 .. Len(log)
  PROVE  RowsFrom(Append(log, rec), a)[n] = RowsFrom(log, a)[n]
<1> DEFINE more == Append(log, rec)
           f == RowsFrom(log, a)
           g == RowsFrom(more, a)
           S == {k \in Nat : k <= Len(log) => g[k] = f[k]}
<1>1. /\ Len(log) \in Nat /\ Len(more) = Len(log) + 1
      /\ \A k \in 1 .. Len(log) : more[k] = log[k]
  <2> HIDE DEF Committed
  <2> QED
    OBVIOUS
<1> HIDE DEF more
<1>2. 0 \in S
  BY <1>1, RowsStep
<1>3. ASSUME NEW k \in Nat, k \in S
      PROVE  k + 1 \in S
  <2>1. SUFFICES ASSUME k + 1 <= Len(log)
                 PROVE  g[k + 1] = f[k + 1]
    OBVIOUS
  <2>2. g[k] = f[k]
    BY <1>1, <1>3, <2>1
  <2>3. k + 1 \in 1 .. Len(log) /\ k + 1 \in 1 .. Len(more) /\ k + 1 - 1 = k
    BY <1>1, <2>1
  <2>4. f[k + 1] = WithRecord(f[k], log, a, k + 1)
        /\ g[k + 1] = WithRecord(g[k], more, a, k + 1)
    BY <1>1, <2>3, RowsStep
  <2> QED
    BY <1>1, <2>2, <2>3, <2>4 DEF WithRecord
<1>4. n \in S
  <2> HIDE DEF S
  <2> QED
    BY <1>2, <1>3, Counting
<1> QED
  BY <1>1, <1>4 DEF more

LEMMA RowsAssociate ==
  ASSUME NEW r \in Seq(TapeRows), NEW s \in Seq(TapeRows), NEW t \in Seq(TapeRows)
  PROVE  (r \o s) \o t = r \o (s \o t)
<1> DEFINE T == TapeRows
<1>1. r \in Seq(T) /\ s \in Seq(T) /\ t \in Seq(T)
  OBVIOUS
<1> HIDE DEF T
<1> QED
  BY <1>1, ConcatAssociative

\* Rows from a on are those up to c and those after c.
LEMMA RowsSplit ==
  ASSUME NEW log \in Seq(Committed), NEW a \in Nat, NEW c \in 0 .. Len(log),
         a <= c + 1, NEW n \in c .. Len(log)
  PROVE  RowsFrom(log, a)[n] = RowsFrom(log, a)[c] \o RowsFrom(log, c + 1)[n]
<1>1. Len(log) \in Nat /\ c \in Nat
  OBVIOUS
<1>2. PICK f : f = RowsFrom(log, a)
  OBVIOUS
<1>3. PICK g : g = RowsFrom(log, c + 1)
  OBVIOUS
<1>4. /\ \A k \in 0 .. Len(log) : f[k] \in Seq(TapeRows) /\ g[k] \in Seq(TapeRows)
      /\ g[c] = <<>> /\ c \in 0 .. Len(log)
  BY <1>1, <1>2, <1>3, RowsType, RowsNone
<1>5. f[c] = f[c] \o g[c]
  BY <1>4, ConcatEmptySeq
<1>6. ASSUME NEW k \in Nat, k >= c, k + 1 <= Len(log), f[k] = f[c] \o g[k]
      PROVE  f[k + 1] = f[c] \o g[k + 1]
  <2>1. /\ k + 1 \in 1 .. Len(log) /\ k + 1 - 1 = k /\ k \in 0 .. Len(log)
        /\ k + 1 \in Nat /\ ~(k + 1 < a) /\ ~(k + 1 < c + 1)
    BY <1>1, <1>6
  <2>2. /\ f[k + 1] = WithRecord(f[k], log, a, k + 1)
        /\ g[k + 1] = WithRecord(g[k], log, c + 1, k + 1)
    BY <1>1, <1>2, <1>3, <2>1, RowsStep
  <2>3. PICK new : new = RowsOf(log[k + 1], k + 1)
    OBVIOUS
  <2>4. f[k + 1] = f[k] \o new /\ g[k + 1] = g[k] \o new
    BY <2>1, <2>2, <2>3 DEF WithRecord
  <2>5. new \in Seq(TapeRows)
    <3>1. log[k + 1] \in Committed
      <4>1. k + 1 \in 1 .. Len(log)
        BY <2>1
      <4> HIDE DEF Committed
      <4> QED
        BY <4>1
    <3>2. k + 1 \in Nat
      BY <2>1
    <3> QED
      BY <2>3, <3>1, <3>2, RowsOfType
  <2>6. PICK x : x = f[c]
    OBVIOUS
  <2>7. PICK y : y = g[k]
    OBVIOUS
  <2>8. x \in Seq(TapeRows) /\ y \in Seq(TapeRows)
    BY <1>4, <2>1, <2>6, <2>7
  <2>9. (x \o y) \o new = x \o (y \o new)
    BY <2>5, <2>8, RowsAssociate, Zenon
  <2> QED
    BY <1>6, <2>4, <2>6, <2>7, <2>9
<1> DEFINE Joins(k) == f[k] = f[c] \o g[k]
           N == Len(log)
           S == {k \in Nat : k >= c /\ k <= N => Joins(k)}
<1>7. Joins(c)
  BY <1>5
<1>8. ASSUME NEW k \in Nat, k >= c, k + 1 <= N, Joins(k)
      PROVE  Joins(k + 1)
  BY <1>6, <1>8
<1>9. N \in Nat /\ n \in c .. N
  BY <1>1
<1>10. Joins(n)
  <2> HIDE DEF Joins, N
  <2>1. 0 \in S
    BY <1>1, <1>7
  <2>2. ASSUME NEW k \in Nat, k \in S
        PROVE  k + 1 \in S
    <3>1. CASE k >= c
      BY <1>1, <1>8, <1>9, <2>2, <3>1
    <3>2. CASE ~(k >= c)
      BY <1>1, <1>7, <3>2
    <3> QED
      BY <3>1, <3>2
  <2>3. n \in S
    <3> HIDE DEF S
    <3>1. n \in Nat
      BY <1>1, <1>9
    <3> QED
      BY <2>1, <2>2, <3>1, Counting
  <2> QED
    BY <1>1, <1>9, <2>3
<1> QED
  BY <1>2, <1>3, <1>10

-----------------------------------------------------------------------------
\* The read model

\* The records are in the order of time.
LogOK ==
  /\ committed \in Seq(Committed) /\ clock \in Nat
  /\ \A i, j \in 1 .. Len(committed) :
       i <= j => committed[i].ts <= committed[j].ts
  /\ \A i \in 1 .. Len(committed) : committed[i].ts <= clock

\* The tape and the earnings are those of the records before `next`.
MarketOK ==
  /\ next \in 1 .. Len(committed) + 1
  /\ tape = Rows(1, next - 1)
  /\ creatorEarned = Fees(1, next - 1)

\* So is what a stream got, from the record on before which it opened.
StreamsOK ==
  /\ IsFiniteSet(DOMAIN streams) /\ DOMAIN streams \subseteq Pages
  /\ \A p \in DOMAIN streams :
       streams[p].from \in 1 .. next /\ streams[p].got = Rows(streams[p].from, next - 1)

OpenFrom(c) == {p \in DOMAIN streams : Origin[p] = c}

ClientsOK ==
  /\ perClient \in [{Origin[p] : p \in Pages} -> Nat]
  /\ \A c \in DOMAIN perClient : perClient[c] = Cardinality(OpenFrom(c))

\* A page that fetched has its stream still.
PagesOK ==
  /\ trades = [p \in Pages |-> trades[p]]
  /\ fetched \subseteq DOMAIN streams
  /\ PagesFollow

\* Each part is of what the chain says alone, whatever was pushed when; the
\* chart needs the order of time.
FeedInv == LogOK /\ MarketOK /\ StreamsOK /\ ClientsOK /\ PagesOK

\* What a creator earned by a record is a natural number.
LEMMA FeesNat ==
  ASSUME NEW log \in Seq(Committed), NEW n \in 1 .. Len(log)
  PROVE  FeesOf(log[n]) \in Nat
<1>1. log[n] \in Committed
  <2> HIDE DEF Committed
  <2> QED
    OBVIOUS
<1> DEFINE ev == log[n].events
           fee == [k \in DOMAIN ev |-> IF ev[k].type = "CreatorFee"
                                       THEN ev[k].quote ELSE 0]
<1>2. ev \in Seq(Events)
  BY <1>1, FeedAssumption DEF Committed, Events
<1>3. Len(ev) \in Nat /\ DOMAIN ev = 1 .. Len(ev)
      /\ \A k \in 1 .. Len(ev) : ev[k] \in Events
  <2> HIDE DEF ev, Events
  <2> QED
    BY <1>2
<1>4. \A k \in DOMAIN ev : ev[k].quote \in Nat
  BY <1>3 DEF Events
<1>5. DOMAIN fee = DOMAIN ev /\ \A k \in DOMAIN fee : fee[k] \in Nat
  <2>1. DOMAIN fee = DOMAIN ev
    OBVIOUS
  <2>2. ASSUME NEW k \in DOMAIN ev
        PROVE  fee[k] \in Nat
    <3>1. fee[k] = IF ev[k].type = "CreatorFee" THEN ev[k].quote ELSE 0
      <4> HIDE DEF ev
      <4> QED
        BY <2>2
    <3>2. ev[k].quote \in Nat /\ 0 \in Nat
      BY <1>4, <2>2
    <3> HIDE DEF fee, ev
    <3> QED
      BY <3>1, <3>2
  <2> QED
    BY <2>1, <2>2
<1>6. IsFiniteSet(DOMAIN ev)
  <2>1. DOMAIN ev = 1 .. Len(ev) /\ 1 \in Int /\ Len(ev) \in Int
    <3> HIDE DEF ev
    <3> QED
      BY <1>3
  <2> HIDE DEF ev
  <2>2. IsFiniteSet(1 .. Len(ev))
    BY <2>1, FS_Interval
  <2> QED
    BY <2>1, <2>2
<1>7. FeesOf(log[n]) = SumFunctionOnSet(fee, DOMAIN fee)
  BY DEF FeesOf
<1> HIDE DEF fee, ev
<1> QED
  BY <1>5, <1>6, <1>7, SumNat

FeeList(log) == [n \in DOMAIN log |-> FeesOf(log[n])]

\* Earnings up to a record, and those since.
LEMMA FeesSplit ==
  ASSUME NEW log \in Seq(Committed), NEW c \in 0 .. Len(log)
  PROVE  SumFunctionOnSet(FeeList(log), 1 .. Len(log)) =
           SumFunctionOnSet(FeeList(log), 1 .. c)
             + SumFunctionOnSet(FeeList(log), c + 1 .. Len(log))
<1> DEFINE n == Len(log)
           A == 1 .. c
           B == c + 1 .. n
<1>1. n \in Nat /\ DOMAIN log = 1 .. n /\ c \in 0 .. n
  OBVIOUS
<1>2. 1 .. n = A \cup B /\ A \cap B = {}
  <2> HIDE DEF n
  <2> QED
    BY <1>1
<1>3. IsFiniteSet(A) /\ IsFiniteSet(B)
  <2>1. c \in Int /\ c + 1 \in Int /\ n \in Int
    BY <1>1
  <2> QED
    BY <2>1, FS_Interval
<1>4. \A x \in A \cup B : FeeList(log)[x] \in Nat
  <2>1. \A x \in 1 .. n : FeeList(log)[x] = FeesOf(log[x])
    BY <1>1 DEF FeeList
  <2>2. \A x \in 1 .. n : FeesOf(log[x]) \in Nat
    BY FeesNat
  <2> HIDE DEF n
  <2> QED
    BY <1>2, <2>1, <2>2
<1> HIDE DEF A, B, n
<1>5. SumFunctionOnSet(FeeList(log), A \cup B) =
        SumFunctionOnSet(FeeList(log), A) + SumFunctionOnSet(FeeList(log), B)
  BY <1>2, <1>3, <1>4, SumUnion
<1> QED
  BY <1>2, <1>5 DEF A, B, n

LEMMA FeesSame ==
  ASSUME NEW log \in Seq(Committed), NEW rec \in Committed,
         NEW c \in 0 .. Len(log)
  PROVE  SumFunctionOnSet(FeeList(Append(log, rec)), 1 .. c) =
           SumFunctionOnSet(FeeList(log), 1 .. c)
<1> DEFINE more == Append(log, rec)
           f == FeeList(log)
           g == FeeList(more)
<1>1. /\ Len(log) \in Nat /\ DOMAIN log = 1 .. Len(log)
      /\ DOMAIN more = 1 .. Len(log) + 1
      /\ \A k \in 1 .. Len(log) : more[k] = log[k]
  <2> HIDE DEF Committed
  <2> QED
    OBVIOUS
<1>2. \A k \in 1 .. c : k \in 1 .. Len(log) /\ k \in 1 .. Len(log) + 1
  BY <1>1
<1> HIDE DEF more
<1>3. \A k \in 1 .. c : f[k] = FeesOf(log[k]) /\ g[k] = FeesOf(log[k])
  BY <1>1, <1>2 DEF FeeList
<1>4. \A k \in 1 .. c : f[k] \in Nat /\ f[k] = g[k]
  BY <1>2, <1>3, FeesNat
<1>5. IsFiniteSet(1 .. c)
  <2>1. c \in Int
    BY <1>1
  <2> QED
    BY <2>1, FS_Interval
<1> HIDE DEF f, g
<1>6. SumFunctionOnSet(f, 1 .. c) = SumFunctionOnSet(g, 1 .. c)
  BY <1>4, <1>5, SumSame
<1> QED
  BY <1>6 DEF f, g, more

\* The tape, the earnings and the streams after all records are absorbed.
LEMMA CatchUpKeeps ==
  ASSUME FeedInv, CatchUp(New), UNCHANGED <<committed, clock>>
  PROVE  LogOK' /\ MarketOK' /\ StreamsOK' /\ DOMAIN streams' = DOMAIN streams
<1> DEFINE log == committed
           n == Len(log)
           f(a) == RowsFrom(log, a)
<1>1. /\ log \in Seq(Committed) /\ n \in Nat
      /\ next \in 1 .. n + 1 /\ tape = f(1)[next - 1]
      /\ creatorEarned = SumFunctionOnSet(FeeList(log), 1 .. next - 1)
  BY DEF FeedInv, LogOK, MarketOK, Rows, Fees, FeeList
<1>2. /\ tape' = tape \o f(next)[n]
      /\ creatorEarned' = creatorEarned
           + SumFunctionOnSet(FeeList(log), next .. n)
      /\ next' = n + 1
      /\ streams' = [p \in DOMAIN streams |->
           [from |-> streams[p].from, got |-> streams[p].got \o f(next)[n]]]
  BY DEF CatchUp, New, Rows, Fees, FeeList
<1>3. PICK c \in 0 .. n : c = next - 1 /\ c + 1 = next
  <2> HIDE DEF n
  <2>1. next - 1 \in 0 .. n /\ (next - 1) + 1 = next
    BY <1>1
  <2> QED
    BY <2>1
<1>4. n \in c .. n /\ 1 \in Nat /\ 1 <= c + 1 /\ n + 1 - 1 = n
  <2> HIDE DEF n
  <2> QED
    BY <1>1, <1>3
<1>5. tape' = f(1)[n]
  <2>1. f(1)[n] = f(1)[c] \o f(c + 1)[n]
    BY <1>1, <1>3, <1>4, RowsSplit
  <2> QED
    BY <1>1, <1>2, <1>3, <2>1
<1>6. creatorEarned' = SumFunctionOnSet(FeeList(log), 1 .. n)
  <2>1. SumFunctionOnSet(FeeList(log), 1 .. n) =
          SumFunctionOnSet(FeeList(log), 1 .. c)
            + SumFunctionOnSet(FeeList(log), c + 1 .. n)
    BY <1>1, <1>3, FeesSplit
  <2> QED
    BY <1>1, <1>2, <1>3, <2>1
<1>7. MarketOK'
  <2>1. next' \in 1 .. Len(committed') + 1
    <3> HIDE DEF n
    <3>1. n + 1 \in 1 .. n + 1
      BY <1>1
    <3> QED
      BY <1>2, <3>1 DEF n
  <2>2. next' - 1 = n
    BY <1>2, <1>4
  <2>3. tape' = RowsFrom(committed', 1)[next' - 1]
    BY <1>5, <2>2
  <2>4. creatorEarned' = SumFunctionOnSet(FeeList(committed'), 1 .. next' - 1)
    BY <1>6, <2>2
  <2> QED
    BY <2>1, <2>3, <2>4 DEF MarketOK, Rows, Fees, FeeList
<1>8. DOMAIN streams' = DOMAIN streams
      /\ \A p \in DOMAIN streams :
           /\ streams'[p].from = streams[p].from
           /\ streams'[p].got = streams[p].got \o f(next)[n]
  <2> HIDE DEF f, n
  <2> QED
    BY <1>2
<1>9. StreamsOK'
  <2>1. IsFiniteSet(DOMAIN streams') /\ DOMAIN streams' \subseteq Pages
    BY <1>8 DEF FeedInv, StreamsOK
  <2>2. ASSUME NEW p \in DOMAIN streams
        PROVE  /\ streams'[p].from \in 1 .. next'
               /\ streams'[p].got = RowsFrom(committed', streams'[p].from)[next' - 1]
    <3> DEFINE a == streams[p].from
    <3>1. a \in 1 .. next /\ streams[p].got = f(a)[c]
      BY <1>3, <2>2 DEF FeedInv, StreamsOK, Rows
    <3>2. a \in Nat /\ a <= c + 1 /\ a \in 1 .. n + 1
      <4> HIDE DEF a, n
      <4> QED
        BY <1>1, <1>3, <3>1
    <3>3. f(a)[n] = f(a)[c] \o f(c + 1)[n]
      <4> HIDE DEF a
      <4> QED
        BY <1>1, <1>3, <1>4, <3>2, RowsSplit
    <3>4. streams'[p].got = f(a)[n]
      BY <1>3, <1>8, <3>1, <3>3
    <3> QED
      BY <1>2, <1>4, <1>8, <3>2, <3>4
  <2> QED
    BY <1>8, <2>1, <2>2 DEF StreamsOK, Rows
<1>10. LogOK'
  BY DEF FeedInv, LogOK
<1> QED
  BY <1>7, <1>8, <1>9, <1>10

\* Nothing has been absorbed: at the start, and after a restart.
NothingAbsorbed ==
  /\ next = 1 /\ tape = <<>> /\ creatorEarned = 0 /\ streams = <<>>
  /\ perClient = [c \in {Origin[p] : p \in Pages} |-> 0]

LEMMA NothingYet == LogOK /\ NothingAbsorbed => MarketOK /\ StreamsOK /\ ClientsOK
<1> SUFFICES ASSUME LogOK, NothingAbsorbed
             PROVE  MarketOK /\ StreamsOK /\ ClientsOK
  OBVIOUS
<1> USE DEF NothingAbsorbed
<1>1. committed \in Seq(Committed)
  BY DEF LogOK
<1>2. Len(committed) \in Nat
  <2> HIDE DEF Committed
  <2> QED
    BY <1>1
<1>3. next \in 1 .. Len(committed) + 1 /\ next - 1 = 0
  <2> DEFINE N == Len(committed)
  <2>1. N \in Nat
    BY <1>2
  <2> HIDE DEF N
  <2>2. 1 \in 1 .. N + 1
    BY <2>1
  <2> QED
    BY <2>2 DEF N
<1>4. tape = Rows(1, next - 1)
  <2>1. 0 \in 0 .. Len(committed) /\ 1 \in Nat /\ 0 < 1
    BY <1>2
  <2>2. RowsFrom(committed, 1)[0] = <<>>
    BY <1>2, <2>1, RowsNone
  <2> QED
    BY <1>3, <2>2 DEF Rows
<1>5. creatorEarned = Fees(1, next - 1)
  <2>1. 1 .. 0 = {}
    OBVIOUS
  <2>2. Fees(1, 0) = 0
    BY <2>1, SumEmpty DEF Fees
  <2> QED
    BY <1>3, <2>2
<1>6. DOMAIN streams = {}
  OBVIOUS
<1>7. StreamsOK
  BY <1>6, FS_EmptySet DEF StreamsOK
<1>8. ClientsOK
  <2>1. \A c : OpenFrom(c) = {}
    BY <1>6 DEF OpenFrom
  <2>2. Cardinality({}) = 0
    BY FS_EmptySet
  <2> QED
    BY <2>1, <2>2 DEF ClientsOK
<1> QED
  BY <1>3, <1>4, <1>5, <1>7, <1>8 DEF MarketOK

LEMMA FeedStart ==
  ASSUME FeedInit
  PROVE  FeedInv
<1>1. LogOK
  <2>1. committed = <<>> /\ clock = 0
    BY DEF FeedInit
  <2>2. Len(committed) = 0 /\ committed \in Seq(Committed)
    BY <2>1
  <2>3. 1 .. Len(committed) = {}
    BY <2>2
  <2> QED
    BY <2>1, <2>2, <2>3 DEF LogOK
<1>2. MarketOK /\ StreamsOK /\ ClientsOK
  BY <1>1, NothingYet DEF FeedInit, NothingAbsorbed
<1>3. PagesOK
  BY DEF FeedInit, PagesOK, PagesFollow
<1> QED
  BY <1>1, <1>2, <1>3 DEF FeedInv

\* A command that lands is not absorbed yet.
LEMMA LandKeeps ==
  ASSUME FeedInv, NEW events \in EventLists, LandCommand(events)
  PROVE  FeedInv'
<1> DEFINE log == committed
           rec == [ts |-> clock, events |-> events]
           n == Len(log)
<1>1. /\ log \in Seq(Committed) /\ clock \in Nat /\ committed' = Append(log, rec)
      /\ UNCHANGED <<clock, market, streams, perClient, shows, fetched, drops>>
  BY DEF FeedInv, LogOK, LandCommand
<1>2. rec \in Committed
  BY <1>1 DEF Committed
<1>3. rec.ts = clock
  OBVIOUS
<1> HIDE DEF rec
<1>4. /\ n \in Nat /\ committed' \in Seq(Committed) /\ Len(committed') = n + 1
      /\ \A k \in 1 .. n : committed'[k] = log[k]
      /\ committed'[n + 1] = rec
  <2> HIDE DEF Committed
  <2> QED
    BY <1>1, <1>2
<1>5. LogOK'
  <2>1. \A k \in 1 .. n : log[k].ts <= clock /\ log[k].ts \in Nat
    <3>1. \A k \in 1 .. n : log[k] \in Committed
      <4> HIDE DEF Committed
      <4> QED
        BY <1>1
    <3> QED
      BY <3>1 DEF FeedInv, LogOK, Committed
  <2>2. \A i, j \in 1 .. n : i <= j => log[i].ts <= log[j].ts
    BY DEF FeedInv, LogOK
  <2> DEFINE ts(k) == committed'[k].ts
  <2>3. /\ \A k \in 1 .. n : ts(k) = log[k].ts
        /\ ts(n + 1) = clock
    BY <1>3, <1>4
  <2>4. \A k \in 1 .. n : ts(k) <= clock
    BY <2>1, <2>3
  <2>5. \A i, j \in 1 .. n : i <= j => ts(i) <= ts(j)
    BY <2>2, <2>3
  <2>6. \A i, j \in 1 .. n + 1 : i <= j => ts(i) <= ts(j)
    <3> HIDE DEF ts, n
    <3>1. \A k \in 1 .. n + 1 : k \in 1 .. n \/ k = n + 1
      BY <1>4
    <3>2. n + 1 \notin 1 .. n /\ \A j \in 1 .. n : ~(n + 1 <= j)
      BY <1>4
    <3>3. clock <= clock
      BY <1>1
    <3> QED
      BY <2>3, <2>4, <2>5, <3>1, <3>2, <3>3
  <2>7. \A k \in 1 .. n + 1 : ts(k) <= clock
    <3> HIDE DEF ts, n
    <3>1. \A k \in 1 .. n + 1 : k \in 1 .. n \/ k = n + 1
      BY <1>4
    <3>2. clock <= clock
      BY <1>1
    <3> QED
      BY <2>3, <2>4, <3>1, <3>2
  <2>8. committed' \in Seq(Committed) /\ clock' = clock /\ clock \in Nat
        /\ Len(committed') = n + 1
    BY <1>1, <1>4
  <2> HIDE DEF n
  <2> QED
    BY <2>6, <2>7, <2>8 DEF LogOK
<1>6. next' = next /\ tape' = tape /\ creatorEarned' = creatorEarned
      /\ streams' = streams
  BY <1>1 DEF market
<1>7. PICK c \in 0 .. n : c = next - 1 /\ next \in 1 .. n + 1
  <2>1. next \in 1 .. n + 1
    BY DEF FeedInv, MarketOK
  <2> HIDE DEF n
  <2>2. next - 1 \in 0 .. n
    BY <1>4, <2>1
  <2> QED
    BY <2>1, <2>2
<1>8. \A a : RowsFrom(committed', a)[c] = RowsFrom(log, a)[c]
  BY <1>1, <1>2, <1>7, RowsSame
<1>9. MarketOK'
  <2>1. tape' = RowsFrom(committed', 1)[next' - 1]
    BY <1>6, <1>7, <1>8 DEF FeedInv, MarketOK, Rows
  <2>2. creatorEarned' = SumFunctionOnSet(FeeList(committed'), 1 .. next' - 1)
    <3>1. creatorEarned = SumFunctionOnSet(FeeList(log), 1 .. c)
      BY <1>7 DEF FeedInv, MarketOK, Fees, FeeList
    <3>2. SumFunctionOnSet(FeeList(committed'), 1 .. c) =
            SumFunctionOnSet(FeeList(log), 1 .. c)
      BY <1>1, <1>2, <1>7, FeesSame
    <3> QED
      BY <1>6, <1>7, <3>1, <3>2
  <2>3. next' \in 1 .. Len(committed') + 1
    <3>1. next \in 1 .. (n + 1) + 1
      <4> HIDE DEF n
      <4> QED
        BY <1>4, <1>7
    <3> QED
      BY <1>4, <1>6, <3>1
  <2> QED
    BY <2>1, <2>2, <2>3 DEF MarketOK, Rows, Fees, FeeList
<1>10. StreamsOK'
  <2>1. \A p \in DOMAIN streams :
          streams[p].from \in 1 .. next
          /\ streams[p].got = RowsFrom(committed', streams[p].from)[c]
    BY <1>7, <1>8 DEF FeedInv, StreamsOK, Rows
  <2> QED
    BY <1>6, <1>7, <2>1 DEF FeedInv, StreamsOK, Rows
<1>11. ClientsOK' /\ PagesOK'
  BY <1>1 DEF FeedInv, ClientsOK, OpenFrom, PagesOK, PagesFollow, market, shows
<1> QED
  BY <1>5, <1>9, <1>10, <1>11 DEF FeedInv

\* The same streams are open: the counts stand.
LEMMA CountsStand ==
  ASSUME ClientsOK, DOMAIN streams' = DOMAIN streams, perClient' = perClient
  PROVE  ClientsOK'
<1>1. \A c : OpenFrom(c)' = OpenFrom(c)
  BY DEF OpenFrom
<1> QED
  BY <1>1 DEF ClientsOK

LEMMA TapeIsRows ==
  ASSUME FeedInv
  PROVE  tape \in Seq(TapeRows)
<1>1. committed \in Seq(Committed) /\ next \in 1 .. Len(committed) + 1
      /\ tape = RowsFrom(committed, 1)[next - 1]
  BY DEF FeedInv, LogOK, MarketOK, Rows
<1>2. Len(committed) \in Nat
  <2> HIDE DEF Committed
  <2> QED
    BY <1>1
<1>3. next - 1 \in 0 .. Len(committed)
  <2> DEFINE N == Len(committed)
  <2> HIDE DEF N
  <2>1. N \in Nat /\ next \in 1 .. N + 1
    BY <1>1, <1>2 DEF N
  <2>2. next - 1 \in 0 .. N
    BY <2>1
  <2> QED
    BY <2>2 DEF N
<1> QED
  BY <1>1, <1>3, RowsType

\* Pages that the push did not reach show the tape still.
LEMMA OthersFollow ==
  ASSUME FeedInv, CatchUp(New), NEW p \in fetched, p \notin stale \cup PushedTo
  PROVE  trades[p] = tape'
<1>1. p \in DOMAIN streams /\ trades[p] = tape
  BY DEF FeedInv, PagesOK, PagesFollow
<1>2. New = <<>>
  BY <1>1 DEF PushedTo
<1>3. tape \in Seq(TapeRows)
  BY TapeIsRows
<1>4. tape \o <<>> = tape
  BY <1>3, ConcatEmptySeq
<1> QED
  BY <1>1, <1>2, <1>4 DEF CatchUp

LEMMA PushKeeps ==
  ASSUME FeedInv, Push
  PROVE  FeedInv'
<1>1. LogOK' /\ MarketOK' /\ StreamsOK' /\ DOMAIN streams' = DOMAIN streams
  BY CatchUpKeeps DEF Push
<1>2. ClientsOK'
  BY <1>1, CountsStand DEF Push, FeedInv
<1>3. PagesOK'
  <2>1. trades' = trades /\ fetched' = fetched /\ stale' = stale \cup PushedTo
    BY DEF Push
  <2>2. \A p \in fetched : p \notin stale \cup PushedTo => trades[p] = tape'
    BY OthersFollow DEF Push
  <2> QED
    BY <1>1, <2>1, <2>2 DEF FeedInv, PagesOK, PagesFollow
<1> QED
  BY <1>1, <1>2, <1>3 DEF FeedInv

LEMMA FetchKeeps ==
  ASSUME FeedInv, NEW p \in Pages, FetchTrades(p)
  PROVE  FeedInv'
<1>1. LogOK' /\ MarketOK' /\ StreamsOK' /\ DOMAIN streams' = DOMAIN streams
  BY CatchUpKeeps DEF FetchTrades
<1>2. ClientsOK'
  BY <1>1, CountsStand DEF FetchTrades, FeedInv
<1>3. /\ trades' = [trades EXCEPT ![p] = tape']
      /\ trades = [q \in Pages |-> trades[q]]
      /\ fetched' \subseteq fetched \cup {p} /\ fetched' \subseteq DOMAIN streams
      /\ stale' = (stale \cup PushedTo) \ {p}
  BY DEF FetchTrades, FeedInv, PagesOK
<1>4. /\ trades' = [q \in Pages |-> trades'[q]] /\ trades'[p] = tape'
      /\ \A q \in Pages : q # p => trades'[q] = trades[q]
  BY <1>3
<1>5. ASSUME NEW q \in fetched', q \notin stale'
      PROVE  trades'[q] = tape'
  <2>1. CASE q = p
    BY <1>4, <2>1
  <2>2. CASE q # p
    <3>1. q \in fetched /\ q \notin stale \cup PushedTo
      BY <1>3, <1>5, <2>2
    <3>2. q \in Pages
      BY <3>1 DEF FeedInv, PagesOK, StreamsOK
    <3>3. trades[q] = tape'
      BY <3>1, OthersFollow DEF FetchTrades
    <3> QED
      BY <1>4, <2>2, <3>2, <3>3
  <2> QED
    BY <2>1, <2>2
<1>6. PagesOK'
  BY <1>1, <1>3, <1>4, <1>5 DEF PagesOK, PagesFollow
<1> QED
  BY <1>1, <1>2, <1>6 DEF FeedInv

LEMMA ConnectKeeps ==
  ASSUME FeedInv, NEW p \in Pages, Connect(p)
  PROVE  FeedInv'
<1>1. /\ p \notin DOMAIN streams
      /\ perClient' = [perClient EXCEPT ![Origin[p]] = perClient[Origin[p]] + 1]
      /\ streams' = [q \in DOMAIN streams \cup {p} |->
                       IF q = p THEN [from |-> next, got |-> <<>>] ELSE streams[q]]
      /\ UNCHANGED <<committed, clock, market, shows, fetched, drops>>
  BY DEF Connect
<1>2. /\ DOMAIN streams' = DOMAIN streams \cup {p}
      /\ streams'[p] = [from |-> next, got |-> <<>>]
      /\ \A q \in DOMAIN streams : streams'[q] = streams[q]
  BY <1>1
<1>3. /\ next' = next /\ tape' = tape /\ creatorEarned' = creatorEarned
      /\ committed' = committed /\ clock' = clock /\ trades' = trades
      /\ stale' = stale /\ fetched' = fetched
  BY <1>1 DEF market, shows
<1>4. LogOK' /\ MarketOK'
  BY <1>3 DEF FeedInv, LogOK, MarketOK, Rows, Fees
<1>5. StreamsOK'
  <2>1. IsFiniteSet(DOMAIN streams \cup {p})
    BY FS_AddElement DEF FeedInv, StreamsOK
  <2>2. DOMAIN streams \cup {p} \subseteq Pages
    BY DEF FeedInv, StreamsOK
  <2>3. next \in 1 .. next /\ <<>> = RowsFrom(committed, next)[next - 1]
    <3> DEFINE n == Len(committed)
    <3>1. n \in Nat
      <4>1. committed \in Seq(Committed)
        BY DEF FeedInv, LogOK
      <4> HIDE DEF Committed
      <4> QED
        BY <4>1
    <3>2. next \in 1 .. n + 1
      BY DEF FeedInv, MarketOK
    <3> HIDE DEF n
    <3>3. /\ next \in Nat /\ next - 1 \in 0 .. n /\ next - 1 < next
          /\ next \in 1 .. next
      BY <3>1, <3>2
    <3>4. RowsFrom(committed, next)[next - 1] = <<>>
      BY <3>1, <3>3, RowsNone DEF n
    <3> QED
      BY <3>3, <3>4
  <2>4. ASSUME NEW q \in DOMAIN streams'
        PROVE  /\ streams'[q].from \in 1 .. next
               /\ streams'[q].got = RowsFrom(committed, streams'[q].from)[next - 1]
    <3>1. CASE q = p
      BY <1>2, <2>3, <3>1
    <3>2. CASE q # p
      BY <1>2, <3>2 DEF FeedInv, StreamsOK, Rows
    <3> QED
      BY <3>1, <3>2
  <2> QED
    BY <1>2, <1>3, <2>1, <2>2, <2>4 DEF StreamsOK, Rows
<1>6. ClientsOK'
  <2> DEFINE o == Origin[p]
  <2>1. perClient \in [{Origin[q] : q \in Pages} -> Nat] /\ o \in DOMAIN perClient
    BY DEF FeedInv, ClientsOK
  <2>2. /\ perClient' \in [{Origin[q] : q \in Pages} -> Nat]
        /\ perClient'[o] = perClient[o] + 1
        /\ \A c \in DOMAIN perClient : c # o => perClient'[c] = perClient[c]
    <3> HIDE DEF o
    <3>1. perClient' = [perClient EXCEPT ![o] = perClient[o] + 1]
      BY <1>1 DEF o
    <3>2. perClient[o] + 1 \in Nat
      BY <2>1
    <3> QED
      BY <2>1, <3>1, <3>2
  <2>3. ASSUME NEW c \in DOMAIN perClient
        PROVE  perClient'[c] = Cardinality(OpenFrom(c)')
    <3>1. perClient[c] = Cardinality(OpenFrom(c))
      BY DEF FeedInv, ClientsOK
    <3>2. CASE c = o
      <4>1. OpenFrom(c)' = OpenFrom(c) \cup {p} /\ p \notin OpenFrom(c)
        BY <1>1, <1>2, <3>2 DEF OpenFrom
      <4>2. IsFiniteSet(OpenFrom(c))
        <5>1. OpenFrom(c) \subseteq DOMAIN streams
          BY DEF OpenFrom
        <5> QED
          BY <5>1, FS_Subset DEF FeedInv, StreamsOK
      <4>3. Cardinality(OpenFrom(c) \cup {p}) = Cardinality(OpenFrom(c)) + 1
        BY <4>1, <4>2, FS_AddElement
      <4> QED
        BY <2>2, <3>1, <3>2, <4>1, <4>3
    <3>3. CASE c # o
      <4>1. OpenFrom(c)' = OpenFrom(c)
        BY <1>2, <3>3 DEF OpenFrom
      <4> QED
        BY <2>2, <3>1, <3>3, <4>1
    <3> QED
      BY <3>2, <3>3
  <2>4. DOMAIN perClient' = DOMAIN perClient
    BY <1>1
  <2> QED
    BY <2>2, <2>3, <2>4 DEF ClientsOK, OpenFrom
<1>7. PagesOK'
  BY <1>2, <1>3 DEF FeedInv, PagesOK, PagesFollow
<1> QED
  BY <1>4, <1>5, <1>6, <1>7 DEF FeedInv

LEMMA DisconnectKeeps ==
  ASSUME FeedInv, NEW p \in Pages, Disconnect(p)
  PROVE  FeedInv'
<1>1. /\ p \in DOMAIN streams
      /\ perClient' = [perClient EXCEPT ![Origin[p]] = perClient[Origin[p]] - 1]
      /\ streams' = [q \in DOMAIN streams \ {p} |-> streams[q]]
      /\ fetched' = fetched \ {p}
      /\ UNCHANGED <<committed, clock, market, shows>>
  BY DEF Disconnect
<1>2. /\ DOMAIN streams' = DOMAIN streams \ {p}
      /\ \A q \in DOMAIN streams' : streams'[q] = streams[q]
  BY <1>1
<1>3. /\ next' = next /\ tape' = tape /\ creatorEarned' = creatorEarned
      /\ committed' = committed /\ clock' = clock /\ trades' = trades
      /\ stale' = stale
  BY <1>1 DEF market, shows
<1>4. LogOK' /\ MarketOK'
  BY <1>3 DEF FeedInv, LogOK, MarketOK, Rows, Fees
<1>5. StreamsOK'
  <2>1. IsFiniteSet(DOMAIN streams')
    BY <1>2, FS_Subset DEF FeedInv, StreamsOK
  <2> QED
    BY <1>2, <1>3, <2>1 DEF FeedInv, StreamsOK, Rows
<1>6. ClientsOK'
  <2> DEFINE o == Origin[p]
  <2>1. /\ perClient \in [{Origin[q] : q \in Pages} -> Nat] /\ o \in DOMAIN perClient
        /\ \A c \in DOMAIN perClient : perClient[c] = Cardinality(OpenFrom(c))
    BY DEF FeedInv, ClientsOK
  <2>2. \A c : IsFiniteSet(OpenFrom(c))
    <3>1. \A c : OpenFrom(c) \subseteq DOMAIN streams
      BY DEF OpenFrom
    <3> QED
      BY <3>1, FS_Subset DEF FeedInv, StreamsOK
  <2>3. p \in OpenFrom(o)
    BY <1>1 DEF OpenFrom
  <2>4. /\ IsFiniteSet(OpenFrom(o) \ {p})
        /\ Cardinality(OpenFrom(o) \ {p}) = Cardinality(OpenFrom(o)) - 1
    BY <2>2, <2>3, FS_RemoveElement
  <2>5. Cardinality(OpenFrom(o) \ {p}) \in Nat
    BY <2>4, FS_CardinalityType
  <2>6. perClient[o] - 1 = Cardinality(OpenFrom(o) \ {p}) /\ perClient[o] - 1 \in Nat
    BY <2>1, <2>4, <2>5
  <2>7. /\ perClient' \in [{Origin[q] : q \in Pages} -> Nat]
        /\ perClient'[o] = perClient[o] - 1
        /\ \A c \in DOMAIN perClient : c # o => perClient'[c] = perClient[c]
    <3> HIDE DEF o
    <3>1. perClient' = [perClient EXCEPT ![o] = perClient[o] - 1]
      BY <1>1 DEF o
    <3> QED
      BY <2>1, <2>6, <3>1
  <2>8. ASSUME NEW c \in DOMAIN perClient
        PROVE  perClient'[c] = Cardinality(OpenFrom(c)')
    <3>1. CASE c = o
      <4>1. OpenFrom(c)' = OpenFrom(o) \ {p}
        BY <1>2, <3>1 DEF OpenFrom
      <4> QED
        BY <2>6, <2>7, <3>1, <4>1
    <3>2. CASE c # o
      <4>1. OpenFrom(c)' = OpenFrom(c)
        BY <1>2, <3>2 DEF OpenFrom
      <4> QED
        BY <2>1, <2>7, <3>2, <4>1
    <3> QED
      BY <3>1, <3>2
  <2>9. DOMAIN perClient' = DOMAIN perClient
    BY <1>1
  <2> QED
    BY <2>7, <2>8, <2>9 DEF ClientsOK, OpenFrom
<1>7. PagesOK'
  BY <1>1, <1>2, <1>3 DEF FeedInv, PagesOK, PagesFollow
<1> QED
  BY <1>4, <1>5, <1>6, <1>7 DEF FeedInv

LEMMA RestartKeeps ==
  ASSUME FeedInv, Restart
  PROVE  FeedInv'
<1>1. LogOK'
  BY DEF FeedInv, LogOK, Restart
<1>2. perClient' = [c \in {Origin[p] : p \in Pages} |-> 0]
  BY DEF FeedInv, ClientsOK, Restart
<1>3. NothingAbsorbed'
  BY <1>2 DEF Restart, NothingAbsorbed
<1>4. (MarketOK /\ StreamsOK /\ ClientsOK)'
  BY <1>1, <1>3, NothingYet, PTL
<1>5. PagesOK'
  BY DEF FeedInv, PagesOK, PagesFollow, Restart, shows
<1> QED
  BY <1>1, <1>4, <1>5 DEF FeedInv

LEMMA FeedStep ==
  ASSUME FeedInv, [FeedNext]_feedVars
  PROVE  FeedInv'
<1>1. CASE \E events \in EventLists : LandCommand(events)
  BY <1>1, LandKeeps
<1>2. CASE Push
  BY <1>2, PushKeeps
<1>3. CASE \E p \in Pages : FetchTrades(p)
  BY <1>3, FetchKeeps
<1>4. CASE \E p \in Pages : Connect(p)
  BY <1>4, ConnectKeeps
<1>5. CASE \E p \in Pages : Disconnect(p)
  BY <1>5, DisconnectKeeps
<1>6. CASE Restart
  BY <1>6, RestartKeeps
<1>7. CASE ClockTicks
  <2>1. LogOK'
    <3>1. clock' = clock + 1 /\ committed' = committed /\ clock \in Nat
      BY <1>7 DEF ClockTicks, FeedInv, LogOK
    <3>2. \A i \in 1 .. Len(committed) : committed[i].ts \in Nat
      <4>1. \A i \in 1 .. Len(committed) : committed[i] \in Committed
        <5>1. committed \in Seq(Committed)
          BY DEF FeedInv, LogOK
        <5> HIDE DEF Committed
        <5> QED
          BY <5>1
      <4> QED
        BY <4>1 DEF Committed
    <3>3. \A i \in 1 .. Len(committed) : committed[i].ts <= clock'
      BY <3>1, <3>2 DEF FeedInv, LogOK
    <3>4. clock' \in Nat
      BY <3>1
    <3> QED
      BY <3>1, <3>3, <3>4 DEF FeedInv, LogOK
  <2> QED
    BY <1>7, <2>1 DEF ClockTicks, FeedInv, MarketOK, StreamsOK, ClientsOK, OpenFrom,
       PagesOK, PagesFollow, Rows, Fees, market, shows
<1>8. CASE UNCHANGED feedVars
  BY <1>8 DEF FeedInv, LogOK, MarketOK, StreamsOK, ClientsOK, OpenFrom,
     PagesOK, PagesFollow, Rows, Fees, market, shows, feedVars
<1> QED
  BY <1>1, <1>2, <1>3, <1>4, <1>5, <1>6, <1>7, <1>8 DEF FeedNext

-----------------------------------------------------------------------------
\* The chart

Candle == [time : Nat, open : Nat, high : Nat, low : Nat, close : Nat,
           volume : Nat]

Slot(ts) == (ts \div Interval) * Interval

Fits(c) ==
  c.low <= c.open /\ c.open <= c.high /\ c.low <= c.close /\ c.close <= c.high

InTime(C) ==
  \A i \in 2 .. Len(C) : C[i - 1].time < C[i].time /\ C[i].open = C[i - 1].close

Fair(C) == C \in Seq(Candle) /\ InTime(C) /\ \A i \in 1 .. Len(C) : Fits(C[i])

Traded(C) == SumFunctionOnSet([i \in DOMAIN C |-> C[i].volume], DOMAIN C)

\* The chart C2 is fair, ends with the candle x, and has q more volume than C.
Follows(C2, C, x, q) ==
  Fair(C2) /\ Len(C2) > 0 /\ C2[Len(C2)] = x /\ Traded(C2) = Traded(C) + q

LEMMA SlotType ==
  ASSUME NEW ts \in Nat
  PROVE  Slot(ts) \in Nat
<1>1. Interval \in Nat /\ Interval > 0
  BY FeedAssumption
<1>2. ts \div Interval \in Nat
  BY <1>1
<1> DEFINE k == ts \div Interval
<1> HIDE DEF k
<1>3. k * Interval \in Nat
  BY <1>1, <1>2 DEF k
<1> QED
  BY <1>3 DEF Slot, k

\* A later trade is in the same slot or a later one.
LEMMA SlotsInOrder ==
  ASSUME NEW a \in Nat, NEW b \in Nat, a <= b
  PROVE  Slot(a) <= Slot(b)
<1>1. Interval \in Nat /\ Interval > 0
  BY FeedAssumption
<1>2. PICK d \in Nat : d = Interval /\ d > 0
  BY <1>1
<1>3. PICK k \in Nat : k = a \div d /\ d * k <= a
  BY <1>2
<1>4. PICK m \in Nat : m = b \div d /\ b < d * (m + 1)
  BY <1>2
<1>5. k <= m
  <2>1. SUFFICES ASSUME k >= m + 1
                 PROVE  FALSE
    OBVIOUS
  <2>2. PICK e \in Nat : k = m + 1 + e
    <3>1. k - (m + 1) \in Nat /\ k = m + 1 + (k - (m + 1))
      BY <2>1
    <3> QED
      BY <3>1
  <2>3. d * k = d * (m + 1) + d * e
    BY <2>2
  <2>4. d * e \in Nat
    OBVIOUS
  <2>5. d * k \in Nat /\ d * (m + 1) \in Nat
    OBVIOUS
  <2> QED
    BY <1>3, <1>4, <2>3, <2>4, <2>5
<1>6. k * d <= m * d
  BY <1>5
<1> QED
  BY <1>2, <1>3, <1>4, <1>6 DEF Slot

\* A trade in the slot of the last candle.
LEMMA CandleGrows ==
  ASSUME NEW C, Fair(C), NEW n, n = Len(C), n > 0, NEW x \in Candle, Fits(x),
         x.time = C[n].time, x.open = C[n].open,
         NEW q \in Nat, x.volume = C[n].volume + q
  PROVE  Follows([C EXCEPT ![n] = x], C, x, q)
<1>1. C \in Seq(Candle) /\ InTime(C) /\ \A i \in 1 .. Len(C) : Fits(C[i])
  BY DEF Fair
<1>2. n \in Nat /\ DOMAIN C = 1 .. n /\ n \in 1 .. n
  BY <1>1
<1>3. PICK C2 : C2 = [C EXCEPT ![n] = x]
  OBVIOUS
<1>4. /\ C2 \in Seq(Candle) /\ Len(C2) = n /\ DOMAIN C2 = 1 .. n /\ C2[n] = x
      /\ \A i \in 1 .. n : i # n => C2[i] = C[i]
  <2> HIDE DEF Candle
  <2> QED
    BY <1>1, <1>2, <1>3
<1>5. ASSUME NEW i \in 2 .. n
      PROVE  C2[i - 1].time < C2[i].time /\ C2[i].open = C2[i - 1].close
  <2>1. C[i - 1].time < C[i].time /\ C[i].open = C[i - 1].close
    BY <1>1 DEF InTime
  <2>2. i - 1 \in 1 .. n /\ i - 1 # n /\ i \in 1 .. n
    BY <1>2
  <2>3. C2[i - 1] = C[i - 1]
    BY <1>4, <2>2
  <2>4. CASE i = n
    BY <1>4, <2>1, <2>3, <2>4
  <2>5. CASE i # n
    BY <1>4, <2>1, <2>2, <2>3, <2>5
  <2> QED
    BY <2>4, <2>5
<1>6. Fair(C2)
  BY <1>1, <1>4, <1>5 DEF Fair, InTime
<1>7. Traded(C2) = Traded(C) + q
  <2> DEFINE S == 1 .. n
             f == [i \in S |-> C[i].volume]
             g == [i \in S |-> C2[i].volume]
  <2>1. IsFiniteSet(S) /\ n \in S
    <3>1. n \in Int /\ 1 \in Int
      BY <1>2
    <3>2. IsFiniteSet(1 .. n)
      BY <3>1, FS_Interval
    <3> QED
      BY <1>2, <3>2
  <2>2. \A i \in S : C[i] \in Candle /\ C2[i] \in Candle
    <3> HIDE DEF Candle
    <3> QED
      BY <1>1, <1>2, <1>4
  <2>3. \A i \in S : C[i].volume \in Nat /\ C2[i].volume \in Nat
    BY <2>2 DEF Candle
  <2>4. \A i \in S : f[i] = C[i].volume /\ g[i] = C2[i].volume
    <3> HIDE DEF S
    <3> QED
      OBVIOUS
  <2>5. g[n] = f[n] + q /\ f[n] \in Nat
    <3>1. C2[n] = x
      BY <1>4
    <3>2. g[n] = x.volume /\ f[n] = C[n].volume
      <4> HIDE DEF f, g, S
      <4> QED
        BY <2>1, <2>4, <3>1
    <3>3. C[n].volume \in Nat
      BY <2>1, <2>3
    <3> HIDE DEF f, g, S
    <3> QED
      BY <3>2, <3>3
  <2>6. Traded(C) = SumFunctionOnSet(f, S) /\ Traded(C2) = SumFunctionOnSet(g, S)
    BY <1>2, <1>4 DEF Traded
  <2> HIDE DEF f, g
  <2>7. \A i \in S : f[i] \in Nat /\ g[i] \in Nat /\ (i # n => g[i] = f[i])
    BY <1>4, <2>3, <2>4
  <2> HIDE DEF S
  <2>8. SumFunctionOnSet(g, S) = SumFunctionOnSet(f, S) + (g[n] - f[n])
    <3>1. ASSUME NEW u \in S,
                 \A i \in S : f[i] \in Nat /\ g[i] \in Nat /\ (i # u => g[i] = f[i])
          PROVE  SumFunctionOnSet(g, S) = SumFunctionOnSet(f, S) + (g[u] - f[u])
      BY <2>1, <3>1, SumChange
    <3> QED
      BY <2>1, <2>7, <3>1
  <2>9. SumFunctionOnSet(f, S) \in Nat
    <3>1. \A i \in S : f[i] \in Nat
      BY <2>7
    <3> QED
      BY <2>1, <3>1, SumNat
  <2> QED
    BY <2>5, <2>6, <2>8, <2>9
<1> QED
  BY <1>2, <1>3, <1>4, <1>6, <1>7 DEF Follows

\* A trade in a later slot.
LEMMA CandleOpens ==
  ASSUME NEW C, Fair(C), NEW n, n = Len(C), NEW x \in Candle, Fits(x),
         n > 0 => C[n].time < x.time /\ x.open = C[n].close
  PROVE  Follows(Append(C, x), C, x, x.volume)
<1>1. C \in Seq(Candle) /\ InTime(C) /\ \A i \in 1 .. Len(C) : Fits(C[i])
  BY DEF Fair
<1>2. n \in Nat /\ DOMAIN C = 1 .. n
  BY <1>1
<1>3. PICK C2 : C2 = Append(C, x)
  OBVIOUS
<1>4. /\ C2 \in Seq(Candle) /\ Len(C2) = n + 1 /\ DOMAIN C2 = 1 .. n + 1
      /\ C2[n + 1] = x /\ \A i \in 1 .. n : C2[i] = C[i]
  <2> HIDE DEF Candle
  <2> QED
    BY <1>1, <1>2, <1>3
<1>5. ASSUME NEW i \in 2 .. n + 1
      PROVE  C2[i - 1].time < C2[i].time /\ C2[i].open = C2[i - 1].close
  <2>1. i - 1 \in 1 .. n
    BY <1>2
  <2>2. C2[i - 1] = C[i - 1]
    BY <1>4, <2>1
  <2>3. CASE i = n + 1
    <3>1. i - 1 = n /\ n > 0
      BY <1>2, <2>3
    <3> QED
      BY <1>4, <2>2, <2>3, <3>1
  <2>4. CASE i # n + 1
    <3>1. i \in 2 .. n /\ i \in 1 .. n
      BY <1>2, <2>4
    <3>2. C[i - 1].time < C[i].time /\ C[i].open = C[i - 1].close
      BY <1>1, <3>1 DEF InTime
    <3> QED
      BY <1>4, <2>2, <3>1, <3>2
  <2> QED
    BY <2>3, <2>4
<1>6. Fair(C2)
  <2>1. \A i \in 1 .. n + 1 : i \in 1 .. n \/ i = n + 1
    BY <1>2
  <2>2. \A i \in 1 .. n + 1 : Fits(C2[i])
    <3> HIDE DEF Fits
    <3> QED
      BY <1>1, <1>4, <2>1
  <2> QED
    BY <1>4, <1>5, <2>2 DEF Fair, InTime
<1>7. Traded(C2) = Traded(C) + x.volume
  <2> DEFINE S == 1 .. n
             T == 1 .. n + 1
             f == [i \in S |-> C[i].volume]
             g == [i \in T |-> C2[i].volume]
  <2>1. IsFiniteSet(S) /\ n + 1 \notin S /\ T = S \cup {n + 1}
    <3>1. n \in Int /\ 1 \in Int
      BY <1>2
    <3>2. IsFiniteSet(1 .. n)
      BY <3>1, FS_Interval
    <3>3. n + 1 \notin 1 .. n /\ 1 .. n + 1 = 1 .. n \cup {n + 1}
      BY <1>2
    <3> QED
      BY <3>2, <3>3
  <2>2. /\ \A i \in S : C[i] \in Candle
        /\ \A i \in T : C2[i] \in Candle
    <3> HIDE DEF Candle
    <3> QED
      BY <1>1, <1>2, <1>4
  <2>3. /\ \A i \in S : C[i].volume \in Nat
        /\ \A i \in T : C2[i].volume \in Nat
    BY <2>2 DEF Candle
  <2>4. /\ \A i \in S : f[i] = C[i].volume
        /\ \A i \in T : g[i] = C2[i].volume
    <3> HIDE DEF S, T
    <3> QED
      OBVIOUS
  <2>5. Traded(C) = SumFunctionOnSet(f, S) /\ Traded(C2) = SumFunctionOnSet(g, T)
    BY <1>2, <1>4 DEF Traded
  <2>6. g[n + 1] = x.volume
    BY <1>4, <2>1, <2>4
  <2> HIDE DEF f, g
  <2>7. \A i \in S : f[i] = g[i] /\ f[i] \in Nat
    BY <1>4, <2>1, <2>3, <2>4
  <2>8. \A i \in S \cup {n + 1} : g[i] \in Nat
    BY <2>1, <2>3, <2>4
  <2> HIDE DEF S, T
  <2>9. SumFunctionOnSet(f, S) = SumFunctionOnSet(g, S)
    <3>1. (\A i \in S : f[i] \in Nat) /\ (\A i \in S : f[i] = g[i])
      BY <2>7
    <3> QED
      BY <2>1, <3>1, SumSame
  <2>10. SumFunctionOnSet(g, S \cup {n + 1}) = SumFunctionOnSet(g, S) + g[n + 1]
    BY <2>1, <2>8, SumAdd
  <2> QED
    BY <2>1, <2>5, <2>6, <2>9, <2>10
<1> QED
  BY <1>2, <1>3, <1>4, <1>6, <1>7 DEF Follows

\* With the trade `row`, the chart C2 follows the chart C.
Joined(C2, C, row) ==
  /\ Fair(C2) /\ Len(C2) > 0 /\ C2[Len(C2)].time = Slot(row.ts)
  /\ Traded(C2) = Traded(C) + row.quote

LEMMA TradeJoins ==
  ASSUME NEW C, Fair(C), NEW row \in TapeRows,
         Len(C) > 0 => C[Len(C)].time <= Slot(row.ts)
  PROVE  Joined(WithTrade(C, row), C, row)
<1>1. row.ts \in Nat /\ row.price \in Nat /\ row.quote \in Nat
  BY DEF TapeRows
<1>2. C \in Seq(Candle) /\ Len(C) \in Nat
  <2>1. C \in Seq(Candle)
    BY DEF Fair
  <2> HIDE DEF Candle
  <2> QED
    BY <2>1
<1>3. PICK n \in Nat : n = Len(C)
  BY <1>2
<1>4. PICK t : t = Slot(row.ts)
  OBVIOUS
<1>5. t \in Nat
  BY <1>1, <1>4, SlotType
<1>6. ASSUME n > 0
      PROVE  /\ C[n].time \in Nat /\ C[n].open \in Nat /\ C[n].high \in Nat
             /\ C[n].low \in Nat /\ C[n].close \in Nat /\ C[n].volume \in Nat
             /\ Fits(C[n]) /\ C[n].time <= t
  <2>1. n \in 1 .. Len(C)
    BY <1>3, <1>6
  <2>2. C[n] \in Candle
    <3> HIDE DEF Candle
    <3> QED
      BY <1>2, <2>1
  <2>3. Fits(C[n])
    BY <2>1 DEF Fair
  <2>4. C[n].time <= t
    BY <1>3, <1>4, <1>6
  <2> HIDE DEF Fits
  <2> QED
    BY <2>2, <2>3, <2>4 DEF Candle
<1>7. CASE n > 0 /\ C[n].time = t
  <2> DEFINE p == row.price
             x == [time |-> t, open |-> C[n].open, high |-> Larger(C[n].high, p),
                   low |-> Smaller(C[n].low, p), close |-> p,
                   volume |-> C[n].volume + row.quote]
  <2>1. PICK c : c = C[n]
    OBVIOUS
  <2>2. /\ c.open \in Nat /\ c.high \in Nat /\ c.low \in Nat /\ c.volume \in Nat
        /\ c.low <= c.open /\ c.open <= c.high
    BY <1>6, <1>7, <2>1 DEF Fits
  <2>3. /\ Larger(c.high, p) \in Nat /\ Smaller(c.low, p) \in Nat
        /\ Smaller(c.low, p) <= c.low /\ Smaller(c.low, p) <= p
        /\ c.high <= Larger(c.high, p) /\ p <= Larger(c.high, p)
    BY <1>1, <2>2 DEF Larger, Smaller
  <2>4. /\ x.time = t /\ x.open = c.open /\ x.high = Larger(c.high, p)
        /\ x.low = Smaller(c.low, p) /\ x.close = p
        /\ x.volume = c.volume + row.quote
    BY <2>1
  <2>5. x \in Candle
    <3>1. c.volume + row.quote \in Nat
      BY <1>1, <2>2
    <3> HIDE DEF p
    <3>2. p \in Nat
      BY <1>1 DEF p
    <3> QED
      BY <1>5, <2>1, <2>2, <2>3, <3>1, <3>2 DEF Candle
  <2>6. WithTrade(C, row) = [C EXCEPT ![n] = x]
    BY <1>3, <1>4, <1>7 DEF WithTrade, Slot
  <2> HIDE DEF x
  <2>7. Fits(x)
    <3> DEFINE hi == Larger(c.high, p)
               lo == Smaller(c.low, p)
    <3>1. /\ hi \in Nat /\ lo \in Nat /\ lo <= c.low /\ lo <= p
          /\ c.high <= hi /\ p <= hi
      BY <2>3
    <3>2. x.open = c.open /\ x.high = hi /\ x.low = lo /\ x.close = p
      BY <2>4
    <3> HIDE DEF hi, lo
    <3>3. lo <= c.open /\ c.open <= hi
      BY <2>2, <3>1
    <3> QED
      BY <3>1, <3>2, <3>3 DEF Fits
  <2>8. Follows([C EXCEPT ![n] = x], C, x, row.quote)
    <3>1. n = Len(C) /\ n > 0 /\ x.time = C[n].time /\ x.open = C[n].open
          /\ row.quote \in Nat /\ x.volume = C[n].volume + row.quote
      BY <1>1, <1>3, <1>7, <2>1, <2>4
    <3> HIDE DEF Fits, Candle
    <3> QED
      BY <2>5, <2>7, <3>1, CandleGrows
  <2> QED
    BY <1>4, <2>4, <2>6, <2>8 DEF Follows, Joined
<1>8. CASE ~(n > 0 /\ C[n].time = t)
  <2> DEFINE p == row.price
             o == IF n = 0 THEN p ELSE C[n].close
             x == [time |-> t, open |-> o, high |-> Larger(o, p),
                   low |-> Smaller(o, p), close |-> p, volume |-> row.quote]
  <2>1. o \in Nat /\ p \in Nat
    <3>1. CASE n = 0
      BY <1>1, <3>1
    <3>2. CASE n # 0
      <4>1. n > 0
        BY <1>3, <3>2
      <4> QED
        BY <1>1, <1>6, <3>2, <4>1
    <3> QED
      BY <3>1, <3>2
  <2>2. n > 0 => C[n].time < t /\ o = C[n].close
    <3>1. ASSUME n > 0
          PROVE  C[n].time < t /\ o = C[n].close
      <4>1. C[n].time \in Nat /\ C[n].time <= t /\ C[n].time # t
        BY <1>6, <1>8, <3>1
      <4>2. C[n].time < t
        BY <1>5, <4>1
      <4>3. n # 0
        BY <1>3, <3>1
      <4> QED
        BY <4>2, <4>3
    <3> QED
      BY <3>1
  <2>3. WithTrade(C, row) = Append(C, x)
    BY <1>3, <1>4, <1>8 DEF WithTrade, Slot
  <2> HIDE DEF o, p
  <2>4. /\ Larger(o, p) \in Nat /\ Smaller(o, p) \in Nat
        /\ Smaller(o, p) <= o /\ Smaller(o, p) <= p
        /\ o <= Larger(o, p) /\ p <= Larger(o, p)
    BY <2>1 DEF Larger, Smaller
  <2>5. /\ x.time = t /\ x.open = o /\ x.high = Larger(o, p)
        /\ x.low = Smaller(o, p) /\ x.close = p /\ x.volume = row.quote
    OBVIOUS
  <2>6. x \in Candle
    BY <1>1, <1>5, <2>1, <2>4 DEF Candle
  <2> HIDE DEF x
  <2>7. Fits(x)
    BY <2>4, <2>5 DEF Fits
  <2>8. Follows(Append(C, x), C, x, x.volume)
    <3>1. n = Len(C) /\ (n > 0 => C[n].time < x.time /\ x.open = C[n].close)
      BY <1>3, <2>2, <2>5
    <3> HIDE DEF Fits, Candle
    <3> QED
      BY <2>6, <2>7, <3>1, CandleOpens
  <2> QED
    BY <1>4, <2>3, <2>5, <2>8 DEF Follows, Joined
<1> QED
  BY <1>7, <1>8

-----------------------------------------------------------------------------
\* The chart tells the tape

InOrder(rows) ==
  \A i, j \in 1 .. Len(rows) : i <= j => rows[i].ts <= rows[j].ts

Quotes(rows) == [i \in DOMAIN rows |-> rows[i].quote]

\* The chart C tells the first k rows.
Tells(C, rows, k) ==
  /\ Fair(C)
  /\ IF k = 0 THEN C = <<>> ELSE Len(C) > 0 /\ C[Len(C)].time = Slot(rows[k].ts)
  /\ Traded(C) = SumFunctionOnSet(Quotes(rows), 1 .. k)

LEMMA TellsNone ==
  ASSUME NEW rows
  PROVE  Tells(<<>>, rows, 0)
<1>1. <<>> \in Seq(Candle) /\ Len(<<>>) = 0 /\ DOMAIN <<>> = {} /\ 1 .. 0 = {}
  OBVIOUS
<1>2. Fair(<<>>)
  BY <1>1 DEF Fair, InTime
<1>3. Traded(<<>>) = 0
  BY <1>1, SumEmpty DEF Traded
<1>4. SumFunctionOnSet(Quotes(rows), 1 .. 0) = 0
  BY <1>1, SumEmpty
<1> QED
  BY <1>2, <1>3, <1>4 DEF Tells

LEMMA TellsMore ==
  ASSUME NEW rows \in Seq(TapeRows), InOrder(rows), NEW k \in Nat,
         k + 1 <= Len(rows), NEW C, Tells(C, rows, k)
  PROVE  Tells(WithTrade(C, rows[k + 1]), rows, k + 1)
<1>1. Len(rows) \in Nat /\ DOMAIN rows = 1 .. Len(rows)
  <2> HIDE DEF TapeRows
  <2> QED
    OBVIOUS
<1>2. k + 1 \in 1 .. Len(rows)
  BY <1>1
<1>3. \A i \in 1 .. Len(rows) : rows[i] \in TapeRows
  <2> HIDE DEF TapeRows
  <2> QED
    OBVIOUS
<1>4. \A i \in 1 .. Len(rows) : rows[i].ts \in Nat /\ rows[i].quote \in Nat
  BY <1>3 DEF TapeRows
<1>5. PICK row : row = rows[k + 1]
  OBVIOUS
<1>6. row \in TapeRows /\ row.ts \in Nat /\ row.quote \in Nat
  BY <1>2, <1>3, <1>4, <1>5
<1>7. Len(C) > 0 => C[Len(C)].time <= Slot(row.ts)
  <2>1. CASE k = 0
    <3>1. C = <<>>
      BY <2>1 DEF Tells
    <3>2. Len(C) = 0
      BY <3>1
    <3> QED
      BY <3>2
  <2>2. CASE k # 0
    <3>1. C[Len(C)].time = Slot(rows[k].ts)
      BY <2>2 DEF Tells
    <3>2. k \in 1 .. Len(rows) /\ k <= k + 1
      BY <1>1, <2>2
    <3>3. rows[k].ts <= row.ts /\ rows[k].ts \in Nat
      BY <1>2, <1>4, <1>5, <3>2 DEF InOrder
    <3>4. Slot(rows[k].ts) <= Slot(row.ts)
      BY <1>6, <3>3, SlotsInOrder
    <3> QED
      BY <3>1, <3>4
  <2> QED
    BY <2>1, <2>2
<1>8. Fair(C)
  BY DEF Tells
<1>9. Joined(WithTrade(C, row), C, row)
  BY <1>6, <1>7, <1>8, TradeJoins
<1>10. SumFunctionOnSet(Quotes(rows), 1 .. k + 1) =
         SumFunctionOnSet(Quotes(rows), 1 .. k) + row.quote
  <2> DEFINE f == Quotes(rows)
             S == 1 .. k
  <2>1. \A i \in 1 .. Len(rows) : f[i] = rows[i].quote
    BY <1>1 DEF Quotes
  <2>2. 1 .. k + 1 = S \cup {k + 1} /\ k + 1 \notin S
    OBVIOUS
  <2>3. IsFiniteSet(S)
    BY FS_Interval
  <2>4. \A i \in S \cup {k + 1} : i \in 1 .. Len(rows)
    BY <1>1
  <2>5. f[k + 1] = row.quote
    BY <1>2, <1>5, <2>1
  <2> HIDE DEF f, S
  <2>6. \A i \in S \cup {k + 1} : f[i] \in Nat
    BY <1>4, <2>1, <2>4
  <2>7. SumFunctionOnSet(f, S \cup {k + 1}) = SumFunctionOnSet(f, S) + f[k + 1]
    BY <2>2, <2>3, <2>6, SumAdd
  <2>8. SumFunctionOnSet(f, 1 .. k + 1) = SumFunctionOnSet(f, S) + row.quote
    BY <2>2, <2>5, <2>7
  <2> QED
    BY <2>8 DEF f, S
<1>11. Traded(C) = SumFunctionOnSet(Quotes(rows), 1 .. k)
  BY DEF Tells
<1>12. k + 1 # 0
  OBVIOUS
<1> QED
  BY <1>5, <1>9, <1>10, <1>11, <1>12 DEF Joined, Tells

LEMMA ChartTells ==
  ASSUME NEW rows \in Seq(TapeRows), InOrder(rows)
  PROVE  Tells(Charts(rows)[Len(rows)], rows, Len(rows))
<1> DEFINE N == Len(rows)
           f == Charts(rows)
           S == {k \in Nat : k <= N => Tells(f[k], rows, k)}
<1>1. N \in Nat
  <2> HIDE DEF TapeRows
  <2> QED
    OBVIOUS
<1>2. IsCharts(f, rows, N)
  BY <1>1, ChartsBuilt
<1> HIDE DEF f, N
<1>3. f[0] = <<>> /\ \A k \in 1 .. N : f[k] = WithTrade(f[k - 1], rows[k])
  BY <1>1, <1>2 DEF IsCharts
<1>4. 0 \in S
  BY <1>3, TellsNone
<1>5. ASSUME NEW k \in Nat, k \in S
      PROVE  k + 1 \in S
  <2>1. SUFFICES ASSUME k + 1 <= N
                 PROVE  Tells(f[k + 1], rows, k + 1)
    OBVIOUS
  <2>2. Tells(f[k], rows, k)
    BY <1>1, <1>5, <2>1
  <2>3. k + 1 \in 1 .. N /\ k + 1 - 1 = k
    BY <1>1, <2>1
  <2>4. f[k + 1] = WithTrade(f[k], rows[k + 1])
    BY <1>3, <2>3
  <2>5. k + 1 <= Len(rows)
    BY <2>1 DEF N
  <2>6. Tells(WithTrade(f[k], rows[k + 1]), rows, k + 1)
    BY <2>2, <2>5, TellsMore
  <2> QED
    BY <2>4, <2>6
<1>6. N \in S
  <2> HIDE DEF S
  <2> QED
    BY <1>1, <1>4, <1>5, Counting
<1> QED
  BY <1>1, <1>6 DEF f, N

\* Rows of one time, no earlier than those before, keep the order.
LEMMA OrderGrows ==
  ASSUME NEW rows \in Seq(TapeRows), NEW new \in Seq(TapeRows), NEW t \in Nat,
         InOrder(rows), \A i \in 1 .. Len(rows) : rows[i].ts <= t,
         \A i \in 1 .. Len(new) : new[i].ts = t
  PROVE  /\ InOrder(rows \o new)
         /\ \A i \in 1 .. Len(rows \o new) : (rows \o new)[i].ts <= t
<1>1. PICK a \in Nat : a = Len(rows)
  <2> HIDE DEF TapeRows
  <2> QED
    OBVIOUS
<1>2. PICK b \in Nat : b = Len(new)
  <2> HIDE DEF TapeRows
  <2> QED
    OBVIOUS
<1>3. PICK all : all = rows \o new
  OBVIOUS
<1>4. /\ Len(all) = a + b
      /\ \A i \in 1 .. a + b : all[i] = IF i <= a THEN rows[i] ELSE new[i - a]
  <2> HIDE DEF TapeRows
  <2> QED
    BY <1>1, <1>2, <1>3
<1>5. /\ \A i \in 1 .. a + b : i <= a => i \in 1 .. a
      /\ \A i \in 1 .. a + b : ~(i <= a) => i - a \in 1 .. b
  BY <1>1, <1>2
<1>6. /\ \A i \in 1 .. a + b : i <= a => all[i] = rows[i] /\ all[i].ts <= t
      /\ \A i \in 1 .. a + b : ~(i <= a) => all[i].ts = t
  BY <1>1, <1>2, <1>4, <1>5
<1>7. t <= t
  OBVIOUS
<1>8. \A i \in 1 .. a + b : all[i].ts <= t
  BY <1>6, <1>7
<1>9. ASSUME NEW i \in 1 .. a + b, NEW j \in 1 .. a + b, i <= j
      PROVE  all[i].ts <= all[j].ts
  <2>1. CASE j <= a
    <3>1. i <= a
      BY <1>1, <1>2, <1>9, <2>1
    <3>2. all[i] = rows[i] /\ all[j] = rows[j] /\ i \in 1 .. a /\ j \in 1 .. a
      BY <1>5, <1>6, <2>1, <3>1
    <3>3. rows[i].ts <= rows[j].ts
      BY <1>1, <1>9, <3>2 DEF InOrder
    <3> QED
      BY <3>2, <3>3
  <2>2. CASE ~(j <= a)
    BY <1>6, <1>8, <2>2
  <2> QED
    BY <2>1, <2>2
<1>10. InOrder(all)
  BY <1>4, <1>9 DEF InOrder
<1> QED
  BY <1>3, <1>4, <1>8, <1>10

\* The rows are in the order of time, when the records are.
Timed(rows, log, n) ==
  /\ InOrder(rows)
  /\ \A i \in 1 .. Len(rows) : \A m \in 1 .. Len(log) :
       m > n => rows[i].ts <= log[m].ts

LEMMA RowsInOrder ==
  ASSUME NEW log \in Seq(Committed), NEW n \in 0 .. Len(log),
         \A i, j \in 1 .. Len(log) : i <= j => log[i].ts <= log[j].ts
  PROVE  InOrder(RowsFrom(log, 1)[n])
<1> DEFINE N == Len(log)
           f == RowsFrom(log, 1)
           S == {k \in Nat : k <= N => Timed(f[k], log, k)}
<1>1. N \in Nat /\ n \in Nat /\ n <= N
  OBVIOUS
<1>2. f[0] = <<>> /\ \A k \in 1 .. N : f[k] = WithRecord(f[k - 1], log, 1, k)
  BY <1>1, RowsStep
<1>3. \A k \in 0 .. N : f[k] \in Seq(TapeRows)
  BY RowsType
<1>4. \A k \in 1 .. N : log[k] \in Committed
  <2> HIDE DEF Committed
  <2> QED
    OBVIOUS
<1> HIDE DEF f, N
<1>5. 0 \in S
  <2>1. Len(f[0]) = 0
    BY <1>2
  <2>2. 1 .. Len(f[0]) = {}
    BY <2>1
  <2>3. Timed(f[0], log, 0)
    BY <2>2 DEF Timed, InOrder
  <2> QED
    BY <2>3
<1>6. ASSUME NEW k \in Nat, k \in S
      PROVE  k + 1 \in S
  <2>1. SUFFICES ASSUME k + 1 <= N
                 PROVE  Timed(f[k + 1], log, k + 1)
    OBVIOUS
  <2>2. Timed(f[k], log, k)
    BY <1>1, <1>6, <2>1
  <2>3. k + 1 \in 1 .. N /\ k + 1 - 1 = k /\ ~(k + 1 < 1) /\ k + 1 > k
        /\ k \in 0 .. N /\ k + 1 \in Nat
    BY <1>1, <2>1
  <2>4. PICK rec : rec = log[k + 1]
    OBVIOUS
  <2>5. PICK new : new = RowsOf(rec, k + 1)
    OBVIOUS
  <2>6. f[k + 1] = f[k] \o new
    <3>1. f[k + 1] = WithRecord(f[k], log, 1, k + 1)
      BY <1>2, <2>3
    <3> QED
      BY <2>3, <2>4, <2>5, <3>1 DEF WithRecord
  <2>7. rec \in Committed /\ rec.ts \in Nat
    <3>1. rec \in Committed
      BY <1>4, <2>3, <2>4
    <3> QED
      BY <3>1 DEF Committed
  <2>8. new \in Seq(TapeRows) /\ \A i \in 1 .. Len(new) : new[i].ts = rec.ts
    BY <2>3, <2>5, <2>7, RowsOfType
  <2>9. PICK rows : rows = f[k]
    OBVIOUS
  <2>10. rows \in Seq(TapeRows)
    BY <1>3, <2>3, <2>9
  <2>11. InOrder(rows) /\ \A i \in 1 .. Len(rows) : rows[i].ts <= rec.ts
    BY <2>2, <2>3, <2>4, <2>9 DEF Timed, N
  <2>12. PICK more : more = rows \o new
    OBVIOUS
  <2>13. InOrder(more) /\ \A i \in 1 .. Len(more) : more[i].ts <= rec.ts
    BY <2>7, <2>8, <2>10, <2>11, <2>12, OrderGrows
  <2>14. more \in Seq(TapeRows)
    BY <2>8, <2>10, <2>12
  <2>15. ASSUME NEW i \in 1 .. Len(more), NEW m \in 1 .. Len(log), m > k + 1
         PROVE  more[i].ts <= log[m].ts
    <3>1. k + 1 \in 1 .. Len(log) /\ k + 1 <= m
      BY <1>1, <2>3, <2>15 DEF N
    <3>2. rec.ts <= log[m].ts
      BY <2>4, <3>1
    <3>3. log[m].ts \in Nat
      BY <1>4 DEF N, Committed
    <3>4. more[i] \in TapeRows
      <4> HIDE DEF TapeRows
      <4> QED
        BY <2>14
    <3>5. more[i].ts \in Nat
      BY <3>4 DEF TapeRows
    <3>6. more[i].ts <= rec.ts
      BY <2>13
    <3> QED
      BY <2>7, <3>2, <3>3, <3>5, <3>6
  <2>16. Timed(more, log, k + 1)
    BY <2>13, <2>15 DEF Timed
  <2> QED
    BY <2>6, <2>9, <2>12, <2>16
<1>7. n \in S
  <2> HIDE DEF S
  <2> QED
    BY <1>1, <1>5, <1>6, Counting
<1> QED
  BY <1>1, <1>7 DEF Timed, f

\* No row is older than the epoch: the volume since then is all of it.
LEMMA VolumeOfAll ==
  ASSUME tape \in Seq(TapeRows)
  PROVE  Volume(0) = SumFunctionOnSet(Quotes(tape), 1 .. Len(tape))
<1> DEFINE S == {n \in DOMAIN tape : \A m \in n .. Len(tape) : tape[m].ts >= 0}
           N == Len(tape)
<1>1. DOMAIN tape = 1 .. N /\ N \in Nat
  <2> HIDE DEF TapeRows
  <2> QED
    OBVIOUS
<1>2. \A m \in 1 .. N : tape[m] \in TapeRows
  <2> HIDE DEF TapeRows
  <2> QED
    OBVIOUS
<1>3. \A m \in 1 .. N : tape[m].ts \in Nat
  BY <1>2 DEF TapeRows
<1>4. \A m \in 1 .. N : tape[m].ts >= 0
  BY <1>3
<1>5. \A n \in 1 .. N : \A m \in n .. N : m \in 1 .. N
  <2> HIDE DEF N
  <2> QED
    BY <1>1
<1>6. S = 1 .. N
  <2> HIDE DEF N
  <2>1. S = {n \in 1 .. N : \A m \in n .. N : tape[m].ts >= 0}
    BY <1>1 DEF N
  <2> HIDE DEF S
  <2> QED
    BY <1>4, <1>5, <2>1
<1>7. Volume(0) = SumFunctionOnSet(Quotes(tape), S)
  BY DEF Volume, Quotes
<1> QED
  BY <1>6, <1>7

LEMMA ChartMeans ==
  ASSUME FeedInv
  PROVE  CandlesTellTape
<1>1. tape \in Seq(TapeRows)
  BY TapeIsRows
<1>2. InOrder(tape)
  <2>1. /\ committed \in Seq(Committed) /\ next \in 1 .. Len(committed) + 1
        /\ tape = RowsFrom(committed, 1)[next - 1]
        /\ \A i, j \in 1 .. Len(committed) :
             i <= j => committed[i].ts <= committed[j].ts
    BY DEF FeedInv, LogOK, MarketOK, Rows
  <2>2. Len(committed) \in Nat
    <3> HIDE DEF Committed
    <3> QED
      BY <2>1
  <2>3. PICK n \in 0 .. Len(committed) : n = next - 1
    <3> DEFINE N == Len(committed)
    <3> HIDE DEF N
    <3>1. N \in Nat /\ next \in 1 .. N + 1
      BY <2>1, <2>2 DEF N
    <3>2. next - 1 \in 0 .. N
      BY <3>1
    <3> QED
      BY <3>2 DEF N
  <2>4. InOrder(RowsFrom(committed, 1)[n])
    BY <2>1, RowsInOrder
  <2> QED
    BY <2>1, <2>3, <2>4
<1>3. PICK C : C = Candles
  OBVIOUS
<1>4. Tells(C, tape, Len(tape))
  BY <1>1, <1>2, <1>3, ChartTells DEF Candles
<1>5. InTime(C) /\ \A i \in 1 .. Len(C) : Fits(C[i])
  BY <1>4 DEF Tells, Fair
<1>6. \A i \in 2 .. Len(C) : C[i - 1].time < C[i].time /\ C[i].open = C[i - 1].close
  BY <1>5 DEF InTime
<1>7. \A i \in 1 .. Len(C) : \A x \in {C[i].open, C[i].close} :
        C[i].low <= x /\ x <= C[i].high
  BY <1>5 DEF Fits
<1>8. Volume(0) = SumFunctionOnSet([i \in DOMAIN C |-> C[i].volume], DOMAIN C)
  BY <1>1, <1>4, VolumeOfAll DEF Tells, Traded
<1> QED
  BY <1>3, <1>6, <1>7, <1>8 DEF CandlesTellTape

LEMMA FeedMeans ==
  ASSUME FeedInv
  PROVE  FeedTrue
<1>1. FeedMatchesLog
  BY DEF FeedInv, MarketOK, StreamsOK, ClientsOK, OpenFrom, FeedMatchesLog
<1> QED
  BY <1>1, ChartMeans DEF FeedInv, PagesOK, FeedTrue

\* From the log to the page nothing is dropped, doubled or shuffled, in every
\* interleaving of commands, pushes, fetches, broken streams and restarts.
THEOREM FeedProved == FeedSpec => []FeedTrue
<1>1. FeedInit => FeedInv
  BY FeedStart
<1>2. FeedInv /\ [FeedNext]_feedVars => FeedInv'
  BY FeedStep
<1>3. FeedInv => FeedTrue
  BY FeedMeans
<1> QED
  BY <1>1, <1>2, <1>3, PTL DEF FeedSpec
=============================================================================
