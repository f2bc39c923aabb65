------------------------------- MODULE Waitlist -------------------------------
(***************************************************************************)
(* The pre-launch waitlist (zec/server/waitlist.ts): sign-ups, their       *)
(* e-mail and wallet, referrals and tasks, kept in memory and appended to  *)
(* a file that is replayed when the server starts.                         *)
(*                                                                         *)
(* The server answers one request at a time, so a request is one step; it  *)
(* may stop in the middle of writing a line.  The next start does not cut  *)
(* an unfinished last line off, so what it writes continues that line.     *)
(*                                                                         *)
(* A sign-up's code is random and new; here it is the place of its line in *)
(* the file.  Left out: the spelling rules of handles, e-mails and         *)
(* wallets, and the errors of a disk that fails while the server lives on. *)
(***************************************************************************)
EXTENDS Integers, Sequences, FiniteSets

CONSTANTS
  Joiners, Handles, Tasks, Clients,
  ContactKinds, \* what a person may add to a sign-up: "email", "wallet"
  Contacts,     \* the values of each kind
  Nobody,       \* no referrer, no value
  JoinPoints, ReferralPoints, TaskPoints,
  PerDay,       \* sign-ups one client may make in a day
  MaxLines,     \* bound: lines written
  MaxOutages    \* bound: stops of the server

\* A line of the file says which kind it is.
ASSUME KindsAssumption == {"join", "task"} \cap ContactKinds = {}

VARIABLES
  listFile,      \* the file: lines, whether each parses, and ends in a newline
  list,         \* what the server holds in memory
  recent,       \* sign-ups of each client in the last day
  joined,       \* accounts told that they are on the list
  serving,      \* the server is up
  outages

waitVars == <<listFile, list, recent, joined, serving, outages>>

-----------------------------------------------------------------------------
\* The list in memory, and the effect of a line on it

EmptyList ==
  [entry |-> <<>>, handles |-> {}, held |-> [k \in ContactKinds |-> {}],
   referrals |-> [c \in 1 .. MaxLines |-> 0],
   done |-> [a \in Joiners |-> {}],
   ranked |-> Nobody]

Listed(l) == DOMAIN l.entry

JoinLine(a, h, contact, code, by) ==
  [t |-> "join", account |-> a, handle |-> h, contact |-> contact,
   code |-> code, by |-> by]
ContactLine(a, k, v) == [t |-> k, account |-> a, value |-> v]
TaskLine(a, task) == [t |-> "task", account |-> a, task |-> task]

ApplyJoin(l, line) ==
  [entry |-> [a \in Listed(l) \cup {line.account} |->
                IF a = line.account THEN line ELSE l.entry[a]],
   handles |-> l.handles \cup {line.handle},
   held |-> [k \in ContactKinds |->
               l.held[k] \cup ({line.contact[k]} \ {Nobody})],
   referrals |-> [c \in DOMAIN l.referrals |->
                    l.referrals[c] + IF c = line.by THEN 1 ELSE 0],
   done |-> l.done,
   ranked |-> l.ranked]

\* Mutant: the value a person gives up stays taken.
MutApplyContact(l, line) ==
  IF line.account \notin Listed(l) THEN l
  ELSE [l EXCEPT !.held[line.t] = @ \cup ({line.value} \ {Nobody}),
                 !.entry[line.account].contact[line.t] = line.value]

ApplyContact(l, line) ==
  IF line.account \notin Listed(l) THEN l
  ELSE LET old == l.entry[line.account].contact[line.t]
           freed == [l EXCEPT !.held[line.t] =
                       (@ \ {old}) \cup ({line.value} \ {Nobody})]
       IN  [freed EXCEPT !.entry[line.account].contact[line.t] = line.value]

\* Any line makes the standings stale.
Apply(l, line) ==
  LET fresh == [l EXCEPT !.ranked = Nobody]
  IN  CASE line.t = "join" -> ApplyJoin(fresh, line)
        [] line.t = "task" ->
             [fresh EXCEPT !.done[line.account] = @ \cup {line.task}]
        [] OTHER -> ApplyContact(fresh, line)

Points(l, a) ==
  JoinPoints + ReferralPoints * l.referrals[l.entry[a].code]
    + TaskPoints * Cardinality(l.done[a])

\* By points, and among equals by who joined first.
Outranks(l, a, b) ==
  \/ Points(l, a) > Points(l, b)
  \/ Points(l, a) = Points(l, b) /\ l.entry[a].code < l.entry[b].code

Standings(l) ==
  [a \in Listed(l) |->
     [rank |-> 1 + Cardinality({b \in Listed(l) : Outranks(l, b, a)}),
      points |-> Points(l, a)]]

\* #rank: the standings are kept until they are stale.
Rank(l) ==
  IF l.ranked = Nobody THEN [l EXCEPT !.ranked = Standings(l)] ELSE l

\* The list after each line of a file: lines that do not parse are passed over.
After(file) ==
  LET after[n \in 0 .. Len(file)] ==
        IF n = 0 THEN EmptyList
        ELSE IF file[n].reads THEN Apply(after[n - 1], file[n].line)
             ELSE after[n - 1]
  IN  after

\* What a start makes of the file.
Replayed == After(listFile)[Len(listFile)]

-----------------------------------------------------------------------------
\* Writing

Unended == listFile # <<>> /\ ~listFile[Len(listFile)].ends

\* The file with `line` after it, in full and with its newline or not.  Glued
\* to an unfinished line, neither parses.
Appended(line, full, ended) ==
  IF Unended
  THEN Append([listFile EXCEPT ![Len(listFile)].reads = FALSE],
              [line |-> line, reads |-> FALSE, ends |-> ended])
  ELSE Append(listFile, [line |-> line, reads |-> full, ends |-> ended])

\* `line` is written, synced and applied, and the standing returned.
WriteLine(line) ==
  /\ Len(listFile) < MaxLines
  /\ listFile' = Appended(line, TRUE, TRUE)
  /\ list' = Rank(Apply(list, line))
  /\ UNCHANGED <<serving, outages>>

\* A value that somebody else holds.
Claimed(k, v) == v # Nobody /\ v \in list.held[k]

-----------------------------------------------------------------------------
\* Requests

\* The lines that requests may write.  A sign-up: nobody else has the handle,
\* the e-mail or the wallet, and the referrer, if any, is on the list.
SignUps ==
  {JoinLine(a, h, contact, Len(listFile) + 1, by) :
     a \in Joiners \ Listed(list), h \in Handles \ list.handles,
     contact \in {c \in [ContactKinds -> Contacts \cup {Nobody}] :
                    \A k \in ContactKinds : ~Claimed(k, c[k])},
     by \in {Nobody} \cup {list.entry[r].code : r \in Listed(list)}}

\* Another e-mail or wallet, or none.
NewContacts(a) ==
  {line \in {ContactLine(a, k, v) : k \in ContactKinds,
                                    v \in Contacts \cup {Nobody}} :
     /\ line.value # list.entry[a].contact[line.t]
     /\ ~Claimed(line.t, line.value)}

\* A task is done once.
NewTasks(a) == {TaskLine(a, task) : task \in Tasks \ list.done[a]}

Writable ==
  SignUps \cup UNION {NewContacts(a) \cup NewTasks(a) : a \in Listed(list)}

Join(line, client) ==
  /\ serving
  /\ recent[client] < PerDay
  /\ WriteLine(line)
  /\ recent' = [recent EXCEPT ![client] = @ + 1]
  /\ joined' = joined \cup {line.account}

\* Joining again changes the e-mail or the wallet, if another one is given,
\* and returns the person's standing.
JoinAgain(a) ==
  /\ serving
  /\ joined' = joined \cup {a}
  /\ \/ list' = Rank(list) /\ UNCHANGED <<listFile, serving, outages>>
     \/ \E line \in NewContacts(a) : WriteLine(line)
  /\ UNCHANGED recent

CompleteTask(line) ==
  /\ serving
  /\ WriteLine(line)
  /\ UNCHANGED <<recent, joined>>

\* GET waitlist, a person's standing, or the operator's export.
ReadStandings ==
  serving /\ list' = Rank(list)
  /\ UNCHANGED <<listFile, recent, joined, serving, outages>>

\* The oldest sign-up of a client is a day old.
DayPasses(client) ==
  /\ serving
  /\ recent[client] > 0
  /\ recent' = [recent EXCEPT ![client] = @ - 1]
  /\ UNCHANGED <<listFile, list, joined, serving, outages>>

-----------------------------------------------------------------------------
\* Stops and starts

\* The server stops, perhaps with a line on its way into the file.  That line
\* may be there without its newline, and in part or in full.
Stop ==
  /\ serving /\ outages < MaxOutages
  /\ serving' = FALSE
  /\ outages' = outages + 1
  /\ list' = EmptyList
  /\ recent' = [c \in Clients |-> 0]
  /\ \/ UNCHANGED listFile
     \/ /\ Len(listFile) < MaxLines
        /\ \E line \in Writable, full \in BOOLEAN :
             listFile' = Appended(line, full, FALSE)
  /\ UNCHANGED joined

Start ==
  /\ ~serving
  /\ serving' = TRUE
  /\ list' = Replayed
  /\ UNCHANGED <<listFile, recent, joined, outages>>

WaitInit ==
  /\ listFile = <<>>
  /\ list = EmptyList
  /\ recent = [c \in Clients |-> 0]
  /\ joined = {}
  /\ serving = TRUE
  /\ outages = 0

WaitNext ==
  \/ \E line \in SignUps, client \in Clients : Join(line, client)
  \/ \E a \in Listed(list) : JoinAgain(a)
  \/ \E a \in Listed(list) : \E line \in NewTasks(a) : CompleteTask(line)
  \/ ReadStandings
  \/ \E client \in Clients : DayPasses(client)
  \/ Stop
  \/ Start

WaitSpec == WaitInit /\ [][WaitNext]_waitVars

-----------------------------------------------------------------------------
\* Properties

\* A line that was written after an unfinished one, and lost with it.
LineLost == \E i \in 1 .. Len(listFile) : listFile[i].ends /\ ~listFile[i].reads

\* The standings that are kept are those of the list as it is, whatever has
\* joined, been referred or done a task since they were computed, also through
\* somebody else's code.
StandingsCurrent == list.ranked \in {Nobody, Standings(list)}

\* Two people never share a handle, an e-mail or a wallet, what is taken is
\* what somebody has, and a person's referrals are the people who joined with
\* their code.
AddsUp(l) ==
  LET E == l.entry
  IN  /\ l.handles = {E[a].handle : a \in DOMAIN E}
      /\ \A k \in ContactKinds :
           l.held[k] = {E[a].contact[k] : a \in DOMAIN E} \ {Nobody}
      /\ \A a, b \in DOMAIN E : a # b =>
           /\ E[a].handle # E[b].handle /\ E[a].code # E[b].code
           /\ \A k \in ContactKinds : E[a].contact[k] # Nobody =>
                E[a].contact[k] # E[b].contact[k]
      /\ \A c \in 1 .. MaxLines :
           l.referrals[c] = Cardinality({a \in DOMAIN E : E[a].by = c})

\* While no line is lost, the list adds up: after changes of e-mail, stops in
\* the middle of a line and replays as well.  The standings shown are current.
ListAddsUp == StandingsCurrent /\ (~LineLost => AddsUp(list))

\* While no line is lost, a restart would bring the list back as it is: the
\* file and the memory never part, in whatever order people join, change
\* their e-mail and do their tasks.
RestartRestores ==
  serving /\ ~LineLost => Replayed = [list EXCEPT !.ranked = Nobody]

\* Both: the list is consistent, now and after a restart.
ListKept == ListAddsUp /\ RestartRestores

\* Everyone who was told that they are on the list is on it (waitlist.ts:19:
\* "Storage is an append-only JSON-lines file, fsynced, replayed on start").
SignUpsKept == serving => joined \subseteq Listed(list)
=============================================================================
