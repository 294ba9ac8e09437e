---------------------------- MODULE EarnService -----------------------------
(***************************************************************************)
(* What POST /transactions/earn promises: every request is answered in one  *)
(* step, either with a capture of its receipt, or with the answer an earlier *)
(* request got under the same key and body, or with a refusal that has a     *)
(* reason.  EarnRequests shows that the handler's many steps keep this.      *)
(***************************************************************************)
EXTENDS EarnDomain

VARIABLES
  outcome,    \* what the request's own transaction captured
  record,     \* the request that wrote the key's idempotency record
  elsewhere,  \* receipts captured by redemptions
  reply       \* the answer of the request

vars == <<outcome, record, elsewhere, reply>>

Captured(q) == outcome[q] # NotYet
Used(r) == r \in elsewhere \/ \E p \in Requests : Captured(p) /\ Receipt(p) = r

Init == /\ outcome = [q \in Requests |-> NotYet]
        /\ record = [k \in Keys |-> None]
        /\ elsewhere = {}
        /\ reply = [q \in Requests |-> NotYet]

Answer(q, a) == /\ reply[q] = NotYet
                /\ reply' = [reply EXCEPT ![q] = a]

Capture(q, a) ==
  /\ ~Used(Receipt(q))
  /\ record[KeyOf[q]] = None
  /\ Answer(q, a)
  /\ outcome' = [outcome EXCEPT ![q] = a]
  /\ record' = [record EXCEPT ![KeyOf[q]] = q]
  /\ UNCHANGED elsewhere

\* The key's record was written for the same body: its answer is given again.
Replay(q) ==
  \E p \in Requests :
    /\ record[KeyOf[q]] = p
    /\ SamePayload(p, q)
    /\ Answer(q, outcome[p])
    /\ UNCHANGED <<outcome, record, elsewhere>>

Refuse(q, a) ==
  /\ a = "RECEIPT_ALREADY_USED" => Used(Receipt(q))
  /\ a = "IDEMPOTENCY_CONFLICT" =>
       \E p \in Requests : Captured(p) /\ SameKey(p, q) /\ ~SamePayload(p, q)
  /\ Answer(q, a)
  /\ UNCHANGED <<outcome, record, elsewhere>>

\* An idempotency record has reached its end of life.
Forget(k) == /\ record' = [record EXCEPT ![k] = None]
             /\ UNCHANGED <<outcome, elsewhere, reply>>

SettleElsewhere(r) == /\ ~Used(r)
                      /\ elsewhere' = elsewhere \cup {r}
                      /\ UNCHANGED <<outcome, record, reply>>

Next == \/ \E q \in Requests : \/ \E a \in Captures : Capture(q, a)
                               \/ Replay(q)
                               \/ \E a \in Refusals : Refuse(q, a)
        \/ \E k \in Keys : Forget(k)
        \/ \E r \in Receipts : SettleElsewhere(r)

Spec == Init /\ [][Next]_vars
=============================================================================
