------------------------------ MODULE RailsWatch ------------------------------
(***************************************************************************)
(* Alerts about the rails (zec/server/alerts.ts): the watch that the main  *)
(* loop (zec/server/main.ts) calls after every tick, and the alerter, that *)
(* holds a repeat of the same text back for a while and remembers only so  *)
(* many texts.  The loop awaits each message, so a tick and its alerts are *)
(* one step.  A text is its kind, with the number in it.  A recovery whose *)
(* text was sent a moment ago is held back: then the last word is "down".  *)
(***************************************************************************)
EXTENDS Integers, Sequences, SequencesExt

CONSTANTS
  Alarms,        \* texts of alerts that a tick may raise
  Critical,      \* of them, those that start with "reorg", "PAUSED", "GUARD"
  FailAfter,     \* failed ticks in a row that make an outage
  RepeatFor,     \* repeatMs
  Remembered,    \* texts the alerter remembers
  MaxRaised, MaxFailures, MaxMinutes    \* bounds

ASSUME WatchAssumption == FailAfter \in Nat \ {0}

VARIABLES
  minute,        \* the clock
  failures,      \* failed ticks in a row
  lastSent,      \* texts sent, with the time, in the order they were first sent
  word,          \* the last word of the messages: the rails are "up" or "down"
  missed         \* critical alarms raised and not sent

watchVars == <<minute, failures, lastSent, word, missed>>

Failing == <<"failing", FailAfter>>
Recovered(n) == <<"recovered", n>>

-----------------------------------------------------------------------------
\* The alerter

Place(sent, text) == {i \in 1 .. Len(sent) : sent[i].text = text}

\* Mutant: a critical alert is held back as well.
MutGoesOut(sent, text, critical) ==
  \A i \in Place(sent, text) : minute - sent[i].at >= RepeatFor

\* Whether a message goes out.
GoesOut(sent, text, critical) ==
  critical \/ \A i \in Place(sent, text) : minute - sent[i].at >= RepeatFor

\* The texts remembered after it: one already known keeps its place, and the
\* first one is forgotten when there are too many.
Noted(sent, text) ==
  LET known == Place(sent, text)
      with == IF known = {} THEN Append(sent, [text |-> text, at |-> minute])
              ELSE [i \in 1 .. Len(sent) |-> IF i \in known
                      THEN [sent[i] EXCEPT !.at = minute] ELSE sent[i]]
  IN  IF Len(with) > Remembered THEN Tail(with) ELSE with

Send(sent, text, critical) ==
  IF GoesOut(sent, text, critical) THEN Noted(sent, text) ELSE sent

-----------------------------------------------------------------------------
\* The watch

\* Mutant: the outage is reported when the count is passed, not when reached.
MutReports(n) == n = FailAfter + 1

\* The failed tick that is reported.
Reports(n) == n = FailAfter

\* A tick failed.
TickFailed ==
  /\ failures < MaxFailures
  /\ failures' = failures + 1
  /\ IF Reports(failures')
     THEN /\ lastSent' = Send(lastSent, Failing, TRUE)
          /\ word' = IF GoesOut(lastSent, Failing, TRUE) THEN "down" ELSE word
     ELSE UNCHANGED <<lastSent, word>>
  /\ UNCHANGED <<minute, missed>>

\* A tick succeeded: the recovery after an outage, then the tick's alerts.
TickOk(raised) ==
  LET back == failures >= FailAfter
      told == back /\ GoesOut(lastSent, Recovered(failures), FALSE)
      sent0 == IF back THEN Send(lastSent, Recovered(failures), FALSE)
               ELSE lastSent
  IN  /\ failures' = 0
      /\ word' = IF told THEN "up" ELSE word
      /\ lastSent' = FoldLeft(LAMBDA sent, a : Send(sent, a, a \in Critical),
                              sent0, raised)
      /\ missed' = missed \cup {a \in Range(raised) \cap Critical :
                                  ~GoesOut(sent0, a, TRUE)}
      /\ UNCHANGED minute

MinutePasses ==
  /\ minute < MaxMinutes
  /\ minute' = minute + 1
  /\ UNCHANGED <<failures, lastSent, word, missed>>

WatchInit ==
  /\ minute = 0
  /\ failures = 0
  /\ lastSent = <<>>
  /\ word = "up"
  /\ missed = {}

WatchNext ==
  \/ TickFailed
  \/ \E raised \in UNION {[1 .. n -> Alarms] : n \in 0 .. MaxRaised} : TickOk(raised)
  \/ MinutePasses

WatchSpec == WatchInit /\ [][WatchNext]_watchVars

-----------------------------------------------------------------------------
\* Properties

\* During an outage the last word of the messages is that the rails are down,
\* and every critical alarm went out: also when the same was sent a moment ago
\* (alerts.ts: "a critical alert always goes out").
OutageAnnounced ==
  /\ failures >= FailAfter => word = "down"
  /\ missed = {}
=============================================================================
