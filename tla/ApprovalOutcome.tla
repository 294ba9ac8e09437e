-------------------------- MODULE ApprovalOutcome ---------------------------
(***************************************************************************)
(* What the approval workflow promises of every approval: once raised it     *)
(* gets one outcome, for good, by the worker's expiry or by one request      *)
(* that asked for it or came too late; money moves with the outcome EXECUTED, *)
(* once, and with no other; nobody is told an outcome it did not get; and     *)
(* who is refused has decided nothing, and never will.                       *)
(***************************************************************************)
EXTENDS Naturals

CONSTANTS Subjects, Asking, SubjectOf(_), Wanted(_), NotTold

VARIABLES
  status,   \* Approval.status
  booked,   \* ledger entries posted for the approval's receipt
  acted,    \* the requests that decided an approval
  told      \* the outcome a decision request was answered with, or that it was refused

vars == <<status, booked, acted, told>>

Outcomes == {"EXECUTED", "REJECTED", "EXPIRED"}

Init == /\ status = [a \in Subjects |-> "none"]
        /\ booked = [a \in Subjects |-> 0]
        /\ acted = {}
        /\ told = [q \in Asking |-> NotTold]

Raise(a) == /\ status[a] = "none"
            /\ status' = [status EXCEPT ![a] = "PENDING"]
            /\ UNCHANGED <<booked, acted, told>>

Decide(S, o) ==
  /\ \A a \in S : status[a] = "PENDING"
  /\ status' = [a \in Subjects |-> IF a \in S THEN o ELSE status[a]]
  /\ booked' = [a \in Subjects |-> IF a \in S /\ o = "EXECUTED" THEN booked[a] + 1
                                   ELSE booked[a]]
  /\ UNCHANGED told

\* The worker expires one or several approvals in one step.
Expire(S) == Decide(S, "EXPIRED") /\ UNCHANGED acted

\* A request that has not been answered decides its approval as it asks, or finds
\* it overdue.
DecideBy(q, o) == /\ o \in {Wanted(q), "EXPIRED"}
                  /\ q \notin acted /\ told[q] = NotTold
                  /\ Decide({SubjectOf(q)}, o)
                  /\ acted' = acted \cup {q}

Tell(q) == /\ told[q] = NotTold
           /\ status[SubjectOf(q)] \in Outcomes
           /\ told' = [told EXCEPT ![q] = status[SubjectOf(q)]]
           /\ UNCHANGED <<status, booked, acted>>

Refuse(q) == /\ told[q] = NotTold /\ q \notin acted
             /\ told' = [told EXCEPT ![q] = "REFUSED"]
             /\ UNCHANGED <<status, booked, acted>>

Next == \/ \E a \in Subjects : Raise(a)
        \/ \E S \in SUBSET Subjects : Expire(S)
        \/ \E q \in Asking : \/ \E o \in Outcomes : DecideBy(q, o)
                             \/ Tell(q) \/ Refuse(q)

Spec == Init /\ [][Next]_vars
=============================================================================
