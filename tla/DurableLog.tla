----------------------------- MODULE DurableLog -----------------------------
(***************************************************************************)
(* What the engine promises of a command: it takes effect in one order     *)
(* with all others, an accepted command is never lost, a rejected one      *)
(* never takes effect, and one whose caller heard nothing before a crash   *)
(* took effect or did not, and the next accepted command settles which.    *)
(***************************************************************************)
EXTENDS Naturals, Sequences

CONSTANT Commands

VARIABLES
  history,   \* the commands that took effect, in order
  verdict    \* what the caller of every command was told

vars == <<history, verdict>>

Verdicts == {"none", "pending", "accepted", "rejected", "unknown"}

Init ==
  /\ history = <<>>
  /\ verdict = [c \in Commands |-> "none"]

Submit(c) ==
  /\ verdict[c] = "none"
  /\ \A d \in Commands : verdict[d] # "pending"
  /\ verdict' = [verdict EXCEPT ![c] = "pending"]
  /\ UNCHANGED history

Accept(c) ==
  /\ verdict[c] = "pending"
  /\ history' = Append(history, c)
  /\ verdict' = [verdict EXCEPT ![c] = "accepted"]

Reject(c) ==
  /\ verdict[c] = "pending"
  /\ verdict' = [verdict EXCEPT ![c] = "rejected"]
  /\ UNCHANGED history

\* A crash leaves the caller of a pending command in the dark: it took effect
\* or not.  Commands at the end whose callers are all in the dark may be lost
\* again, as long as nothing was accepted after them.
Crash ==
  /\ verdict' = [c \in Commands |-> IF verdict[c] = "pending" THEN "unknown"
                                    ELSE verdict[c]]
  /\ \/ \E c \in Commands : /\ verdict[c] = "pending"
                            /\ history' = Append(history, c)
     \/ \E n \in 0 .. Len(history) :
          /\ \A i \in n + 1 .. Len(history) : verdict[history[i]] = "unknown"
          /\ history' = SubSeq(history, 1, n)

Next ==
  \/ Crash
  \/ \E c \in Commands : Submit(c) \/ Accept(c) \/ Reject(c)

Spec == Init /\ [][Next]_vars
=============================================================================
