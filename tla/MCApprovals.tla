---------------------------- MODULE MCApprovals -----------------------------
(* Small instances of Approvals for TLC. *)
EXTENDS Approvals

\* q1 and q2 are one decision sent twice; q3 is another supervisor's, against it;
\* q4 comes from the requester; q5 decides a redemption.
MCKeyOf == [q \in Requests |-> IF q \in {"q1", "q2", "q5"} THEN "k1" ELSE "k2"]
MCApprovalOf == [q \in Requests |-> IF q = "q5" THEN "redeem" ELSE "earn"]
MCVerdictOf == [q \in Requests |-> IF q = "q3" THEN "REJECTED" ELSE "APPROVED"]
MCOwn == Requests \cap {"q4"}

\* The decisions that meet: three on the earn alone, or two beside both approvals,
\* of which q1 and q5 share a key.
Together == LET sent == {q \in Requests : pc[q] # "unsent"}
            IN  \/ sent \subseteq {"q1", "q2", "q3"} /\ approval["redeem"] = "none"
                \/ sent \subseteq {"q4", "q5"}
                \/ sent \subseteq {"q1", "q5"}
=============================================================================
