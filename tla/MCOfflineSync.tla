--------------------------- MODULE MCOfflineSync ----------------------------
(* Small instances of OfflineSync for TLC. *)
EXTENDS OfflineSync, TLC

CONSTANTS q1, q2, l1, l2

\* One purchase submitted twice under its key, each failure saved as a record.
MCKeyOf == [q \in Requests |-> "k1"]
MCPayloadOf == [q \in Requests |-> "b1"]
MCReceiptOf == [b \in Payloads |-> "r1"]
MCSavedAs == [q \in Online |-> IF q = q1 THEN l1 ELSE l2]

\* One fault at a time; a lost answer, after which calls overlap, meets one record,
\* a batch over the limit meets reloads only, and a forgotten key crashes only.
Forgotten == \E q \in Requests : outcome[q] # NotYet /\ record[KeyOf[q]] = None
Together == /\ crashes + losses + reloads <= 1
            /\ losses = 1 => submission[q2] = "draft"
            /\ maxRecords = 1 => crashes + losses = 0
            /\ Forgotten => maxRecords = 2 /\ losses + reloads = 0
=============================================================================
