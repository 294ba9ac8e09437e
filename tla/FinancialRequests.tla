------------------------- MODULE FinancialRequests -------------------------
(***************************************************************************)
(* RedemptionsService.redeem, AdjustmentsService.createAdjustment and        *)
(* ReversalsService.reverse as requests: the idempotency record around one   *)
(* SERIALIZABLE transaction, the unique indexes behind it, and the three     *)
(* different ways the handlers deal with a conflict.  What a transaction does *)
(* to lots and ledger is CreditLedger's; here it takes effect or not, and a   *)
(* refusal that depends on balances and lots may happen whenever it opens.    *)
(***************************************************************************)
EXTENDS Naturals

CONSTANTS
  Requests,   \* HTTP requests, each sent at most once
  Keys,       \* (actor, idempotency key) pairs
  Payloads,   \* request hashes: actor and normalised body
  Receipts,
  Mixes,      \* what the requests may ask for: see Asking
  Attempts,   \* the three services' retry bound
  None

Kinds == {"redeem", "adjust", "reverse"}

\* What each request asks for: its endpoint, key and body, the receipt it names if it
\* is a redemption, and the request whose ledger entry it names if it is a reversal.
Asking == [kind : [Requests -> Kinds], key : [Requests -> Keys],
           payload : [Requests -> Payloads], receipt : [Requests -> Receipts],
           target : [Requests -> Requests]]

ASSUME FinancialAssumption ==
  /\ None \notin Requests
  /\ Attempts \in Nat \ {0}
  /\ Mixes \subseteq Asking
  /\ \A m \in Mixes : \A p, q \in Requests : m.payload[p] = m.payload[q] =>
       /\ m.kind[p] = m.kind[q]
       /\ m.receipt[p] = m.receipt[q]
       /\ m.target[p] = m.target[q]

VARIABLES
  asks,      \* what the requests ask for
  pc, tries,
  outcome,   \* what the request's committed transaction produced
  record,    \* the request that wrote the IdempotencyRecord of an endpoint and key
  stale,     \* records past their expiresAt
  elsewhere, \* receipts captured by earns
  approved,  \* pending redemptions that a supervisor has approved since
  evidence,  \* redemptions reported as FR-DUP-001 duplicate-receipt attempts
  reply

vars == <<asks, pc, tries, outcome, record, stale, elsewhere, approved, evidence, reply>>
tables == <<outcome, record, stale, elsewhere, approved, evidence>>

KindOf == asks.kind
KeyOf == asks.key
PayloadOf == asks.payload
ReceiptOf == asks.receipt
TargetOf == asks.target
OfKind(kind) == {q \in Requests : KindOf[q] = kind}

Slots == Kinds \X Keys
Slot(q) == <<KindOf[q], KeyOf[q]>>
SamePayload(p, q) == PayloadOf[p] = PayloadOf[q]

NotYet == "NONE"
Effects == {"CONFIRMED", "PENDING_APPROVAL"}
EffectsOf(q) == IF KindOf[q] = "redeem" THEN Effects ELSE {"CONFIRMED"}
Refusals == {"IDEMPOTENCY_CONFLICT", "RECEIPT_ALREADY_USED", "ALREADY_REVERSED",
             "REVIEW_REQUIRED", "REJECTED", "TRANSACTION_CONFLICT"}
Steps == {"unsent", "received", "cleaned", "checked", "open", "duplicate",
          "receiptConflict", "keyConflict", "transactionConflict", "answered", "lost"}

Committed(q) == outcome[q] # NotYet
Used(r) == \/ r \in elsewhere
           \/ \E p \in OfKind("redeem") : Committed(p) /\ ReceiptOf[p] = r
Settled(p) == outcome[p] = "CONFIRMED" \/ p \in approved
ReversedBy(p) == {q \in OfKind("reverse") : Committed(q) /\ TargetOf[q] = p}

Init == /\ asks \in Mixes
        /\ pc = [q \in Requests |-> "unsent"]
        /\ tries = [q \in Requests |-> 0]
        /\ outcome = [q \in Requests |-> NotYet]
        /\ record = [s \in Slots |-> None]
        /\ stale = {}
        /\ elsewhere = {}
        /\ approved = {}
        /\ evidence = {}
        /\ reply = [q \in Requests |-> NotYet]

Goto(q, from, to) == pc[q] = from /\ pc' = [pc EXCEPT ![q] = to]
Answer(q, from, a) == Goto(q, from, "answered") /\ reply' = [reply EXCEPT ![q] = a]

Receive(q) == Goto(q, "unsent", "received") /\ UNCHANGED <<tries, tables, reply>>

\* Fault: the age of a record is not compared.
AnyAge(q) == {s \in Slots : s[2] = KeyOf[q] /\ (KindOf[q] = "redeem" => s[1] = "redeem")}
Expired(q) == {s \in stale : s[2] = KeyOf[q] /\ (KindOf[q] = "redeem" => s[1] = "redeem")}
Cleanup(q) ==
  /\ Goto(q, "received", "cleaned")
  /\ record' = [s \in Slots |-> IF s \in Expired(q) THEN None ELSE record[s]]
  /\ stale' = stale \ Expired(q)
  /\ UNCHANGED <<tries, outcome, elsewhere, approved, evidence, reply>>

-----------------------------------------------------------------------------
(* The idempotency record.  It is written inside the transaction, so what others *)
(* can read of it is complete.                                                   *)

\* Fault: the request hash is not compared.
ReplaysOfAnyBody(q) == {p \in Requests : record[Slot(q)] = p}
ReplaysFor(q) == {p \in Requests : record[Slot(q)] = p /\ SamePayload(p, q)}
OtherBody(q) == record[Slot(q)] # None /\ ReplaysFor(q) = {}

Replay(q, from) == \E p \in ReplaysFor(q) : /\ Answer(q, from, outcome[p])
                                            /\ UNCHANGED <<tries, tables>>
Refuse(q, from, a) == Answer(q, from, a) /\ UNCHANGED <<tries, tables>>

\* A redemption settles together with the earn of its receipt: a reversal of it is
\* a reversal of the pair, and its replay is checked against the ledger first.
Paired(q) == KindOf[q] = "reverse" /\ KindOf[TargetOf[q]] = "redeem"

\* The look before the transaction.
LookUp(q) ==
  \/ ~Paired(q) /\ Replay(q, "cleaned")
  \/ OtherBody(q) /\ Refuse(q, "cleaned", "IDEMPOTENCY_CONFLICT")
  \/ /\ ~OtherBody(q)
     /\ ReplaysFor(q) # {} => Paired(q)
     /\ Goto(q, "cleaned", "checked")
     /\ UNCHANGED <<tries, tables, reply>>

-----------------------------------------------------------------------------
(* The transaction reads its snapshot.  Card, customer, device, amount, balance   *)
(* and lots may each refuse the request.                                         *)

OpenRedeem(q) ==
  /\ KindOf[q] = "redeem"
  /\ \/ Answer(q, "checked", "REJECTED")
     \/ /\ Goto(q, "checked", IF Used(ReceiptOf[q]) THEN "duplicate" ELSE "open")
        /\ UNCHANGED reply

OpenAdjust(q) ==
  /\ KindOf[q] = "adjust"
  /\ \/ Answer(q, "checked", "REJECTED")
     \/ Goto(q, "checked", "open") /\ UNCHANGED reply

\* The compensation of a pair was itself reversed, so that the earned lot is full
\* again: the history no longer looks like a completed reversal.
Undone(p) == \E q \in ReversedBy(p) : ReversedBy(q) # {}

AlreadyReversed(q) == ReversedBy(TargetOf[q]) # {}

OpenReverse(q) ==
  /\ KindOf[q] = "reverse"
  /\ \/ OtherBody(q) /\ Answer(q, "checked", "IDEMPOTENCY_CONFLICT")
     \/ /\ ~OtherBody(q) /\ ~Settled(TargetOf[q])
        /\ Answer(q, "checked", "REJECTED")
     \/ /\ ~OtherBody(q) /\ Settled(TargetOf[q])
        /\ \/ /\ Paired(q) /\ Undone(TargetOf[q])
              /\ Answer(q, "checked", "REVIEW_REQUIRED")
           \/ /\ ~(Paired(q) /\ Undone(TargetOf[q]))
              /\ \E p \in ReplaysFor(q) : Answer(q, "checked", outcome[p])
           \/ /\ ~(Paired(q) /\ Undone(TargetOf[q]))
              /\ ReplaysFor(q) = {} /\ AlreadyReversed(q)
              /\ Answer(q, "checked", "ALREADY_REVERSED")
           \/ /\ ReplaysFor(q) = {} /\ ~AlreadyReversed(q)
              /\ \/ Answer(q, "checked", "REVIEW_REQUIRED")
                 \/ Goto(q, "checked", "open") /\ UNCHANGED reply

Open(q) == /\ OpenRedeem(q) \/ OpenAdjust(q) \/ OpenReverse(q)
           /\ tries' = [tries EXCEPT ![q] = @ + 1]
           /\ UNCHANGED tables

-----------------------------------------------------------------------------
(* Its end: the unique indexes and PostgreSQL's serialization check.             *)

KeyTaken(q) == record[Slot(q)] # None
\* LoyaltyLedgerEntry.correlationId is the request hash, and unique.
\* Fault: correlationId is not unique.
FreshCorrelation(q) == FALSE
CorrelationTaken(q) == \E p \in Requests : Committed(p) /\ SamePayload(p, q)

\* Where a violated index sends the handler.  Adjustment and reversal take every
\* P2002 for a conflict of the key.
\* Fault: the unique receipt index is missing.
ClashBesideReceipt(q) == IF KeyTaken(q) THEN {"keyConflict"} ELSE {}
Clash(q) ==
  CASE KindOf[q] = "redeem" -> IF Used(ReceiptOf[q]) THEN {"receiptConflict"}
                               ELSE IF KeyTaken(q) THEN {"keyConflict"} ELSE {}
    [] KindOf[q] = "adjust" -> IF KeyTaken(q) \/ CorrelationTaken(q)
                               THEN {"transactionConflict"} ELSE {}
    [] KindOf[q] = "reverse" -> IF KeyTaken(q) \/ CorrelationTaken(q) \/ AlreadyReversed(q)
                                THEN {"transactionConflict"} ELSE {}

Commit(q, a) ==
  /\ Clash(q) = {}
  /\ Answer(q, "open", a)
  /\ outcome' = [outcome EXCEPT ![q] = a]
  /\ record' = [record EXCEPT ![Slot(q)] = q]
  /\ stale' = stale \ {Slot(q)}
  /\ UNCHANGED <<tries, elsewhere, approved, evidence>>

Abort(q) == /\ \E to \in Clash(q) \cup {"transactionConflict"} : Goto(q, "open", to)
            /\ UNCHANGED <<tries, tables, reply>>

\* redeem after P2002 on the idempotency record, and on the receipt.
ResolveKeyConflict(q) ==
  \/ Replay(q, "keyConflict")
  \/ ReplaysFor(q) = {} /\ Refuse(q, "keyConflict", "IDEMPOTENCY_CONFLICT")
ResolveReceiptConflict(q) ==
  \/ Replay(q, "receiptConflict")
  \/ /\ ReplaysFor(q) = {}
     /\ Goto(q, "receiptConflict", "duplicate")
     /\ UNCHANGED <<tries, tables, reply>>

\* recordDuplicateReceiptAttempt commits in a transaction of its own.
RefuseDuplicate(q) ==
  /\ Answer(q, "duplicate", "RECEIPT_ALREADY_USED")
  /\ evidence' = evidence \cup {q}
  /\ UNCHANGED <<tries, outcome, record, stale, elsewhere, approved>>

\* runWithBoundedFinancialRetries with findCompletedRedeemReplay, and the loop of
\* runReverseTransaction, which looks for the replay when it opens again.
MayRetry(q) == tries[q] < Attempts
\* Fault: every conflict is retried, without end.
RetryForever(q) == \/ Replay(q, "transactionConflict")
                   \/ /\ ReplaysFor(q) = {}
                      /\ pc[q] = "transactionConflict"
                      /\ pc' = [pc EXCEPT ![q] = "checked"]
                      /\ tries' = [tries EXCEPT ![q] = 0]
                      /\ UNCHANGED <<tables, reply>>
RetryConflict(q) ==
  \/ KindOf[q] = "redeem" /\ Replay(q, "transactionConflict")
  \/ /\ KindOf[q] = "redeem" => ReplaysFor(q) = {}
     /\ IF MayRetry(q) THEN /\ Goto(q, "transactionConflict", "checked")
                            /\ UNCHANGED <<tries, tables, reply>>
        ELSE Refuse(q, "transactionConflict", "TRANSACTION_CONFLICT")

\* waitForAdjustmentReplay: a record that is not this body's, a missing one
\* included, is a conflict, so the loop around it never comes to a second attempt.
AwaitReplay(q) ==
  \/ Replay(q, "transactionConflict")
  \/ ReplaysFor(q) = {} /\ Refuse(q, "transactionConflict", "IDEMPOTENCY_CONFLICT")

ResolveTransactionConflict(q) == IF KindOf[q] = "adjust" THEN AwaitReplay(q)
                                 ELSE RetryConflict(q)

Step(q) == \/ Cleanup(q) \/ LookUp(q) \/ Open(q) \/ Abort(q)
           \/ \E a \in EffectsOf(q) : Commit(q, a)
           \/ ResolveKeyConflict(q) \/ ResolveReceiptConflict(q)
           \/ ResolveTransactionConflict(q) \/ RefuseDuplicate(q)

-----------------------------------------------------------------------------
(* The surroundings. *)

\* The server stops or the connection drops; an open transaction rolls back.
Lose(q) == /\ pc[q] \notin {"unsent", "answered", "lost"}
           /\ pc' = [pc EXCEPT ![q] = "lost"]
           /\ UNCHANGED <<tries, tables, reply>>

Lapse(s) == /\ record[s] # None
            /\ stale' = stale \cup {s}
            /\ UNCHANGED <<pc, tries, outcome, record, elsewhere, approved, evidence, reply>>

EarnElsewhere(r) ==
  /\ ~Used(r)
  /\ elsewhere' = elsewhere \cup {r}
  /\ UNCHANGED <<pc, tries, outcome, record, stale, approved, evidence, reply>>

\* A supervisor approves the settlement (module Approvals).
ApproveSettlement(q) ==
  /\ outcome[q] = "PENDING_APPROVAL"
  /\ approved' = approved \cup {q}
  /\ UNCHANGED <<pc, tries, outcome, record, stale, elsewhere, evidence, reply>>

Next == /\ \/ \E q \in Requests : Receive(q) \/ Step(q) \/ Lose(q) \/ ApproveSettlement(q)
           \/ \E s \in Slots : Lapse(s)
           \/ \E r \in Receipts : EarnElsewhere(r)
        /\ UNCHANGED asks

Spec == Init /\ [][Next]_vars
FairSpec == Spec /\ WF_vars(UNCHANGED asks /\ \E q \in Requests : Step(q))

-----------------------------------------------------------------------------
TypeOK ==
  /\ asks \in Mixes
  /\ pc \in [Requests -> Steps]
  /\ tries \in [Requests -> 0 .. Attempts]
  /\ outcome \in [Requests -> Effects \cup {NotYet}]
  /\ record \in [Slots -> Requests \cup {None}]
  /\ stale \subseteq Slots
  /\ elsewhere \subseteq Receipts
  /\ approved \subseteq OfKind("redeem")
  /\ evidence \subseteq OfKind("redeem")
  /\ reply \in [Requests -> Effects \cup Refusals \cup {NotYet}]

\* However often a request is sent, under one key or another, before or after its
\* record has expired, its body takes effect once.
EffectOnce == \A p, q \in Requests : Committed(p) /\ Committed(q) /\ SamePayload(p, q) => p = q

\* Different bodies do not meet either: a receipt is settled once, and never beside an
\* earn, and a ledger entry is reversed once.
TargetTakenOnce ==
  /\ \A p, q \in OfKind("redeem") :
       Committed(p) /\ Committed(q) /\ ReceiptOf[p] = ReceiptOf[q] => p = q
  /\ \A p \in OfKind("redeem") : Committed(p) => ReceiptOf[p] \notin elsewhere
  /\ \A p, q \in OfKind("reverse") :
       Committed(p) /\ Committed(q) /\ TargetOf[p] = TargetOf[q] => p = q

\* What a refusal claims about the tables has happened.  The conflict that an adjustment
\* reports is left out: AwaitReplay also reports one for a key that nobody has used.
Reasoned(q, a) ==
  /\ a = "RECEIPT_ALREADY_USED" => Used(ReceiptOf[q])
  /\ a = "ALREADY_REVERSED" => AlreadyReversed(q)
  /\ a = "IDEMPOTENCY_CONFLICT" /\ KindOf[q] # "adjust" =>
       \E p \in Requests : Committed(p) /\ Slot(p) = Slot(q) /\ ~SamePayload(p, q)

\* A confirmation is that of the same body under the same key, a refused request has
\* left nothing behind, and redeem and reverse give a reason that is true: the receipt
\* is used, the entry reversed, the key taken by another body.  The redemption that is
\* refused because its own twin has used the receipt is told the truth in this sense.
RepliesTellTheTruth ==
  \A q \in Requests :
    /\ reply[q] \in Effects =>
         \E p \in Requests : Slot(p) = Slot(q) /\ SamePayload(p, q) /\ outcome[p] = reply[q]
    /\ reply[q] \in Refusals => ~Committed(q)
    /\ Reasoned(q, reply[q])

\* A stored answer is kept until it expires, also from the clean-ups of the other
\* endpoints that use the same key.
RecordsKeptForLife ==
  [][\A s \in Slots : record[s] # None /\ record'[s] # record[s]
                      => s \in stale /\ record'[s] = None]_vars

\* Every request is answered unless it is lost.
EveryRequestAnswered == <>[](\A q \in Requests : pc[q] \in {"unsent", "answered", "lost"})
=============================================================================
