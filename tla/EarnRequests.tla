---------------------------- MODULE EarnRequests ----------------------------
(***************************************************************************)
(* LoyaltyService.earn as it runs: several requests at once, each a chain of *)
(* separate database calls around one SERIALIZABLE transaction.  The         *)
(* transaction reads its snapshot when it opens and learns at its end        *)
(* whether a concurrent one got there first: as a unique-index violation,    *)
(* or as a serialization failure, which PostgreSQL may also report without a *)
(* visible cause.                                                           *)
(***************************************************************************)
EXTENDS EarnDomain, Naturals

CONSTANT Attempts   \* EARN_SERIALIZATION_RETRY_ATTEMPTS

ASSUME AttemptsAssumption == Attempts \in Nat \ {0}

VARIABLES
  pc,        \* where the handler of a request stands
  tries,     \* transactions the handler has opened
  outcome,   \* captureStatus of the receipt the request's transaction wrote
  record,    \* the request that wrote the key's IdempotencyRecord
  stale,     \* keys whose record is past its expiresAt
  elsewhere, \* receipts captured by redemptions
  eligible,  \* whether device, branch, card, customer, amount and time pass
  evidence,  \* requests recorded as FR-DUP-001 duplicate-receipt attempts
  reply      \* the HTTP answer

vars == <<pc, tries, outcome, record, stale, elsewhere, eligible, evidence, reply>>
tables == <<outcome, record, stale, elsewhere, eligible, evidence>>

Steps == {"unsent", "received", "cleaned", "checked", "open", "duplicate",
          "receiptConflict", "keyConflict", "transactionConflict",
          "answered", "lost"}

Captured(q) == outcome[q] # NotYet
Used(r) == r \in elsewhere \/ \E p \in Requests : Captured(p) /\ Receipt(p) = r

Init == /\ pc = [q \in Requests |-> "unsent"]
        /\ tries = [q \in Requests |-> 0]
        /\ outcome = [q \in Requests |-> NotYet]
        /\ record = [k \in Keys |-> None]
        /\ stale = {}
        /\ elsewhere = {}
        /\ eligible = TRUE
        /\ evidence = {}
        /\ reply = [q \in Requests |-> NotYet]

Goto(q, from, to) == pc[q] = from /\ pc' = [pc EXCEPT ![q] = to]

Answer(q, from, a) == /\ Goto(q, from, "answered")
                      /\ reply' = [reply EXCEPT ![q] = a]

Receive(q) == /\ Goto(q, "unsent", "received")
              /\ UNCHANGED <<tries, tables, reply>>

\* cleanupExpiredIdempotencyRecords deletes the key's record once it has expired.
\* Fault: it deletes the record whatever its age.
AnyRecord(k) == TRUE
ExpiredRecord(k) == k \in stale

Cleanup(q) ==
  LET k == KeyOf[q]
  IN  /\ Goto(q, "received", "cleaned")
      /\ record' = [record EXCEPT ![k] = IF ExpiredRecord(k) THEN None ELSE @]
      /\ stale' = stale \ {k}
      /\ UNCHANGED <<tries, outcome, elsewhere, eligible, evidence, reply>>

\* findCompletedEarnReplay: the record of the key, if it was written for this body.
\* Fault: the request hash is not compared.
ReplayOfAnyBody(q) == {p \in Requests : record[KeyOf[q]] = p}
ReplaysFor(q) == {p \in Requests : record[KeyOf[q]] = p /\ SamePayload(p, q)}

ReplayFrom(q, step) == \E p \in ReplaysFor(q) : /\ Answer(q, step, outcome[p])
                                                /\ UNCHANGED <<tries, tables>>

\* The look at the idempotency table before the transaction.
LookUp(q) ==
  \/ ReplayFrom(q, "cleaned")
  \/ /\ record[KeyOf[q]] # None
     /\ ReplaysFor(q) = {}
     /\ Answer(q, "cleaned", "IDEMPOTENCY_CONFLICT")
     /\ UNCHANGED <<tries, tables>>
  \/ /\ record[KeyOf[q]] = None
     /\ IF eligible THEN Goto(q, "cleaned", "checked") /\ UNCHANGED reply
                    ELSE Answer(q, "cleaned", "REJECTED")
     /\ UNCHANGED <<tries, tables>>

\* Fault: the attempt is not counted.
SameAttempt(q) == tries[q]
NextAttempt(q) == tries[q] + 1

\* The transaction opens and reads device, card and receipt from its snapshot.
Open(q) ==
  /\ tries' = [tries EXCEPT ![q] = NextAttempt(q)]
  /\ IF ~eligible THEN Answer(q, "checked", "REJECTED")
     ELSE /\ Goto(q, "checked", IF Used(Receipt(q)) THEN "duplicate" ELSE "open")
          /\ UNCHANGED reply
  /\ UNCHANGED tables

\* What the unique indexes answer to the transaction's writes, in their order:
\* the receipt first, the idempotency record later.
\* Fault: the unique receipt index is missing.
ClashOnKeyOnly(q) == IF record[KeyOf[q]] # None THEN {"keyConflict"} ELSE {}
Clash(q) == IF Used(Receipt(q)) THEN {"receiptConflict"}
            ELSE IF record[KeyOf[q]] # None THEN {"keyConflict"}
            ELSE {}

Commit(q, a) ==
  /\ Clash(q) = {}
  /\ Answer(q, "open", a)
  /\ outcome' = [outcome EXCEPT ![q] = a]
  /\ record' = [record EXCEPT ![KeyOf[q]] = q]
  /\ stale' = stale \ {KeyOf[q]}
  /\ UNCHANGED <<tries, elsewhere, eligible, evidence>>

Abort(q) == /\ \E to \in Clash(q) \cup {"transactionConflict"} : Goto(q, "open", to)
            /\ UNCHANGED <<tries, tables, reply>>

\* P2002 on the idempotency record.
ResolveKeyConflict(q) ==
  \/ ReplayFrom(q, "keyConflict")
  \/ /\ ReplaysFor(q) = {}
     /\ Answer(q, "keyConflict", "IDEMPOTENCY_CONFLICT")
     /\ UNCHANGED <<tries, tables>>

\* P2002 on the receipt.
ResolveReceiptConflict(q) ==
  \/ ReplayFrom(q, "receiptConflict")
  \/ /\ ReplaysFor(q) = {}
     /\ Goto(q, "receiptConflict", "duplicate")
     /\ UNCHANGED <<tries, tables, reply>>

\* recordDuplicateReceiptAttempt in a transaction of its own, then the refusal.
RefuseDuplicate(q) ==
  /\ Answer(q, "duplicate", "RECEIPT_ALREADY_USED")
  /\ evidence' = evidence \cup {q}
  /\ UNCHANGED <<tries, outcome, record, stale, elsewhere, eligible>>

\* Serialization failure: replay, retry while attempts are left, or give up.
MayRetry(q) == tries[q] < Attempts

ResolveTransactionConflict(q) ==
  \/ ReplayFrom(q, "transactionConflict")
  \/ /\ ReplaysFor(q) = {}
     /\ MayRetry(q)
     /\ Goto(q, "transactionConflict", "checked")
     /\ UNCHANGED <<tries, tables, reply>>
  \/ /\ ReplaysFor(q) = {}
     /\ ~MayRetry(q)
     /\ Answer(q, "transactionConflict", "EARN_TRANSACTION_CONFLICT")
     /\ UNCHANGED <<tries, tables>>

Step(q) == \/ Cleanup(q) \/ LookUp(q) \/ Open(q) \/ Abort(q)
           \/ \E a \in Captures : Commit(q, a)
           \/ ResolveKeyConflict(q) \/ ResolveReceiptConflict(q)
           \/ ResolveTransactionConflict(q) \/ RefuseDuplicate(q)

\* The server stops or the connection drops while the request is in progress; an
\* open transaction rolls back.
Lose(q) == /\ pc[q] \notin {"unsent", "answered", "lost"}
           /\ pc' = [pc EXCEPT ![q] = "lost"]
           /\ UNCHANGED <<tries, tables, reply>>

\* The surroundings: a record reaches the end of its seven days, a redemption
\* takes a receipt, an administrator changes a card, a device or the policy.
Lapse(k) == /\ record[k] # None
            /\ stale' = stale \cup {k}
            /\ UNCHANGED <<pc, tries, outcome, record, elsewhere, eligible, evidence, reply>>

SettleElsewhere(r) ==
  /\ ~Used(r)
  /\ elsewhere' = elsewhere \cup {r}
  /\ UNCHANGED <<pc, tries, outcome, record, stale, eligible, evidence, reply>>

ChangeEligibility ==
  /\ eligible' = ~eligible
  /\ UNCHANGED <<pc, tries, outcome, record, stale, elsewhere, evidence, reply>>

Next == \/ \E q \in Requests : Receive(q) \/ Step(q) \/ Lose(q)
        \/ \E k \in Keys : Lapse(k)
        \/ \E r \in Receipts : SettleElsewhere(r)
        \/ ChangeEligibility

Spec == Init /\ [][Next]_vars

\* A received request is worked on until it is answered, unless it is lost.
FairSpec == Spec /\ WF_vars(\E q \in Requests : Step(q))

-----------------------------------------------------------------------------
TypeOK ==
  /\ pc \in [Requests -> Steps]
  /\ tries \in [Requests -> 0 .. Attempts]
  /\ outcome \in [Requests -> Captures \cup {NotYet}]
  /\ record \in [Keys -> Requests \cup {None}]
  /\ stale \subseteq Keys
  /\ elsewhere \subseteq Receipts
  /\ eligible \in BOOLEAN
  /\ evidence \subseteq Requests
  /\ reply \in [Requests -> Captures \cup Refusals \cup {NotYet}]

\* A physical receipt is captured at most once, whichever requests race for it,
\* under one key or several, and never beside a redemption that took it.
ReceiptCapturedOnce ==
  \A p \in Requests : Captured(p) =>
    /\ Receipt(p) \notin elsewhere
    /\ \A q \in Requests : Captured(q) /\ SameReceipt(p, q) => p = q

\* What an answer a that refuses a request for a conflict says of the tables.
Reasoned(q, a) ==
  /\ a = "RECEIPT_ALREADY_USED" => Used(Receipt(q))
  /\ a = "IDEMPOTENCY_CONFLICT" =>
       \E p \in Requests : Captured(p) /\ SameKey(p, q) /\ ~SamePayload(p, q)

\* A cashier who is told CONFIRMED or PENDING_APPROVAL can rely on it: the same
\* body was captured with that status under the same key.  One who is refused
\* can rely on that too: the request left nothing behind, a receipt called used is
\* used, and a key called taken was taken by another body, however long before its
\* answer the handler met the conflict.  The receipt may have been used by the same
\* purchase sent a moment earlier: such a twin is not always given its sibling's
\* answer.
RepliesTellTheTruth ==
  \A q \in Requests :
    /\ reply[q] \in Captures =>
         \E p \in Requests : /\ SameKey(p, q) /\ SamePayload(p, q)
                             /\ outcome[p] = reply[q]
    /\ reply[q] \in Refusals => ~Captured(q)
    /\ Reasoned(q, reply[q])

\* A stored answer stays available for its whole life: between the commit and the
\* expiry no request removes or replaces the key's record.
RecordsKeptForLife ==
  [][\A k \in Keys : record[k] # None /\ record'[k] # record[k]
                     => k \in stale /\ record'[k] = None]_vars

\* The handler with its races keeps the promise of EarnService, in which every
\* request is answered in one step.
Promise == INSTANCE EarnService
             WITH outcome <- outcome, record <- record, elsewhere <- elsewhere, reply <- reply
Implements == Promise!Spec

\* Every request that arrives is answered unless it is lost: the retries end.
EveryRequestAnswered ==
  <>[](\A q \in Requests : pc[q] \in {"unsent", "answered", "lost"})
=============================================================================
