--------------------------- MODULE MCEarnRequests ---------------------------
(* Small instances of EarnRequests for TLC. *)
EXTENDS EarnRequests, TLC

CONSTANTS q1, q2, q3, q4

\* q1 and q2 are one purchase sent twice; q3 reuses their key for another body
\* and receipt; q4 brings the receipt of q1 under a key of its own.
MCKeyOf == [q \in Requests |-> IF q = q4 THEN "k2" ELSE "k1"]
MCPayloadOf == [q \in Requests |-> IF q = q3 THEN "b2" ELSE IF q = q4 THEN "b3" ELSE "b1"]
MCReceiptOf == [b \in Payloads |-> IF b = "b2" THEN "r2" ELSE "r1"]

\* The requests that meet: the three of one key, or the two of one receipt.
Together == LET sent == {q \in Requests : pc[q] # "unsent"}
            IN  sent \subseteq {q1, q2, q3} \/ sent \subseteq {q1, q4}
=============================================================================
