----------------------------- MODULE Approvals ------------------------------
(***************************************************************************)
(* Earn and redemption approvals: LoyaltyService.decideApproval as several   *)
(* supervisors run it at once, the sweep of the approval-expiry worker, and  *)
(* the policies an approval is raised and executed under.  A decision is a   *)
(* look at the idempotency table, one SERIALIZABLE transaction, and a        *)
(* separate write that completes the idempotency record.                     *)
(***************************************************************************)
EXTENDS Naturals, FiniteSets

CONSTANTS
  Earns,       \* approvals of target EARN
  Redeems,     \* approvals of target REDEEM
  BasketOnly,  \* the REDEEM ones raised for the basket, not the redeemed amount
  Requests,    \* decision requests
  Keys,        \* idempotency keys, each of one actor
  KeyOf, ApprovalOf, VerdictOf,
  Own,         \* requests whose actor raised the approval
  Batch,       \* APPROVAL_EXPIRY_SWEEP_BATCH_SIZE
  MaxVersion,  \* bound on the policy changes explored
  None

Ids == Earns \cup Redeems
Verdicts == {"APPROVED", "REJECTED"}

ASSUME DomainAssumption ==
  /\ Earns \cap Redeems = {} /\ BasketOnly \subseteq Redeems
  /\ KeyOf \in [Requests -> Keys]
  /\ ApprovalOf \in [Requests -> Ids]
  /\ VerdictOf \in [Requests -> Verdicts]
  /\ Own \subseteq Requests
  /\ Batch \in Nat \ {0} /\ MaxVersion \in Nat

VARIABLES
  approval,    \* Approval.status
  receipt,     \* Receipt.reviewStatus of the held receipt
  redemption,  \* Redemption.status of the held redemption
  booked,      \* ledger entries posted for the receipt's settlement
  raisedUnder, \* Approval.policyVersion
  policy,      \* version of the environment's policy, and of the branch's (0: none)
  overdue,     \* approvals past their expiresAt
  eligible,    \* branch, device, card, customer and balance allow execution
  pc,          \* where the handler of a decision stands
  result,      \* what its transaction committed
  record,      \* the request that wrote the key's IdempotencyRecord
  completed,   \* keys whose record is COMPLETED, with the response
  stale,       \* keys whose record is past its expiresAt
  reply        \* the HTTP answer

rows == <<approval, receipt, redemption, booked>>
world == <<raisedUnder, policy, overdue, eligible>>
idempotency == <<record, completed, stale>>
vars == <<rows, world, pc, result, record, completed, stale, reply>>

Steps == {"unsent", "checked", "open", "committed", "keyConflict",
          "transactionConflict", "answered", "lost"}
Outcomes == {"EXECUTED", "REJECTED", "EXPIRED"}
Refusals == {"NOT_FOUND", "SELF_DECISION_FORBIDDEN", "ALREADY_DECIDED",
             "NO_LONGER_ELIGIBLE", "POLICY_CHANGED", "IDEMPOTENCY_CONFLICT"}
Versions == {"environment", "branch"} \X Nat

ASSUME NoneAssumption == None \notin Requests \cup Outcomes \cup Refusals

SamePayload(p, q) == ApprovalOf[p] = ApprovalOf[q] /\ VerdictOf[p] = VerdictOf[q]

\* getApprovalPolicyVersion without and with the branch's PolicyConfiguration.
EnvironmentVersion == <<"environment", policy.environment>>
VersionInForce == IF policy.branch = 0 THEN EnvironmentVersion
                  ELSE <<"branch", policy.branch>>

Init == /\ approval = [a \in Ids |-> "none"]
        /\ receipt = [a \in Ids |-> "none"]
        /\ redemption = [a \in Ids |-> "none"]
        /\ booked = [a \in Ids |-> 0]
        /\ raisedUnder = [a \in Ids |-> <<"environment", 0>>]
        /\ policy = [environment |-> 0, branch |-> 0]
        /\ overdue = {}
        /\ eligible = TRUE
        /\ pc = [q \in Requests |-> "unsent"]
        /\ result = [q \in Requests |-> None]
        /\ record = [k \in Keys |-> None]
        /\ completed = {}
        /\ stale = {}
        /\ reply = [q \in Requests |-> None]

Goto(q, from, to) == pc[q] = from /\ pc' = [pc EXCEPT ![q] = to]
Answer(q, from, x) == /\ Goto(q, from, "answered")
                      /\ reply' = [reply EXCEPT ![q] = x]

-----------------------------------------------------------------------------
(* Rows. *)

\* earn or redeem holds a receipt above a threshold and raises its approval.
Raise(a) ==
  /\ approval[a] = "none"
  /\ approval' = [approval EXCEPT ![a] = "PENDING"]
  /\ receipt' = [receipt EXCEPT ![a] = "PENDING"]
  /\ redemption' = [redemption EXCEPT ![a] = IF a \in Redeems THEN "PENDING_APPROVAL"
                                             ELSE "none"]
  /\ raisedUnder' = [raisedUnder EXCEPT ![a] = VersionInForce]
  /\ UNCHANGED <<booked, policy, overdue, eligible, pc, result, record, completed, stale, reply>>

\* expireApproval, for each of the approvals S.
\* Fault: the update of the redemption is forgotten.
ExpireWithoutRedemption(S) ==
  /\ approval' = [a \in Ids |-> IF a \in S THEN "EXPIRED" ELSE approval[a]]
  /\ receipt' = [a \in Ids |-> IF a \in S THEN "REJECTED" ELSE receipt[a]]
  /\ UNCHANGED <<redemption, booked>>
ExpireApprovals(S) ==
  /\ \A a \in S : /\ approval[a] = "PENDING"
                  /\ receipt[a] = "PENDING"
                  /\ a \in Redeems => redemption[a] = "PENDING_APPROVAL"
  /\ approval' = [a \in Ids |-> IF a \in S THEN "EXPIRED" ELSE approval[a]]
  /\ receipt' = [a \in Ids |-> IF a \in S THEN "REJECTED" ELSE receipt[a]]
  /\ redemption' = [a \in Ids |-> IF a \in S \cap Redeems THEN "EXPIRED" ELSE redemption[a]]
  /\ UNCHANGED booked

\* The rejection: no money moves.
RejectApproval(a) ==
  /\ approval' = [approval EXCEPT ![a] = "REJECTED"]
  /\ receipt' = [receipt EXCEPT ![a] = "REJECTED"]
  /\ redemption' = [redemption EXCEPT ![a] = IF a \in Redeems THEN "REJECTED" ELSE @]
  /\ UNCHANGED booked

\* The approval: the earning, or the redemption settlement, is posted and the
\* approval moves through APPROVED to EXECUTED.
ExecuteApproval(a) ==
  /\ approval' = [approval EXCEPT ![a] = "EXECUTED"]
  /\ receipt' = [receipt EXCEPT ![a] = "APPROVED"]
  /\ redemption' = [redemption EXCEPT ![a] = IF a \in Redeems THEN "CONFIRMED" ELSE @]
  /\ booked' = [booked EXCEPT ![a] = @ + 1]

\* assertApprovalPolicyStillPermitsExecution compares with the environment's
\* policy only.  A redemption is compared with the branch's policy, and then with
\* the environment's by assertRedemptionApprovalPolicyStillPermitsExecution, which
\* also wants the redeemed amount itself to be above the threshold.
PolicyPermits(a) ==
  /\ raisedUnder[a] = EnvironmentVersion
  /\ a \in Redeems => raisedUnder[a] = VersionInForce /\ a \notin BasketOnly

-----------------------------------------------------------------------------
(* A decision. *)

\* findApprovalIdempotency: an expired record is deleted, then the key looked up.
LookUp(q) ==
  LET k == KeyOf[q]
      found == IF k \in stale THEN None ELSE record[k]
  IN  /\ record' = [record EXCEPT ![k] = found]
      /\ completed' = completed \ (IF k \in stale THEN {k} ELSE {})
      /\ stale' = stale \ {k}
      /\ IF found = None THEN Goto(q, "unsent", "checked") /\ UNCHANGED reply
         ELSE Answer(q, "unsent", IF k \in completed /\ SamePayload(found, q)
                                  THEN result[found] ELSE "IDEMPOTENCY_CONFLICT")
      /\ UNCHANGED <<rows, world, result>>

\* The transaction opens: it inserts the PENDING idempotency record, finds the
\* approval in its snapshot, and locks it.
RefusalAtOpen(q) ==
  IF approval[ApprovalOf[q]] = "none" THEN "NOT_FOUND"
  ELSE IF q \in Own THEN "SELF_DECISION_FORBIDDEN"
  ELSE IF approval[ApprovalOf[q]] # "PENDING" THEN "ALREADY_DECIDED"
  ELSE None

Open(q) ==
  /\ IF record[KeyOf[q]] # None THEN Goto(q, "checked", "keyConflict") /\ UNCHANGED reply
     ELSE IF RefusalAtOpen(q) # None THEN Answer(q, "checked", RefusalAtOpen(q))
     ELSE Goto(q, "checked", "open") /\ UNCHANGED reply
  /\ UNCHANGED <<rows, world, result, idempotency>>

\* Nobody changed the locked rows since the snapshot, nor used the key.
\* Fault: READ COMMITTED and no lock: the snapshot's status is trusted.
KeyUnused(q) == record[KeyOf[q]] = None
Serializable(q) == record[KeyOf[q]] = None /\ approval[ApprovalOf[q]] = "PENDING"

\* The transaction commits, with its idempotency record still PENDING.
Commit(q, x) ==
  /\ Serializable(q)
  /\ Goto(q, "open", "committed")
  /\ result' = [result EXCEPT ![q] = x]
  /\ record' = [record EXCEPT ![KeyOf[q]] = q]
  /\ UNCHANGED <<world, completed, stale, reply>>

DecideExpired(q) == /\ ApprovalOf[q] \in overdue
                    /\ Commit(q, "EXPIRED")
                    /\ ExpireApprovals({ApprovalOf[q]})

DecideRejected(q) == /\ ApprovalOf[q] \notin overdue
                     /\ VerdictOf[q] = "REJECTED"
                     /\ Commit(q, "REJECTED")
                     /\ RejectApproval(ApprovalOf[q])

RefusalAtExecution(q) ==
  IF ~eligible THEN "NO_LONGER_ELIGIBLE"
  ELSE IF ~PolicyPermits(ApprovalOf[q]) THEN "POLICY_CHANGED"
  ELSE None

DecideApproved(q) ==
  /\ ApprovalOf[q] \notin overdue
  /\ VerdictOf[q] = "APPROVED"
  /\ \/ /\ RefusalAtExecution(q) = None
        /\ Commit(q, "EXECUTED")
        /\ ExecuteApproval(ApprovalOf[q])
     \/ /\ RefusalAtExecution(q) # None
        /\ Serializable(q)
        /\ Answer(q, "open", RefusalAtExecution(q))
        /\ UNCHANGED <<rows, world, result, idempotency>>

\* A unique-index violation on the key, or a serialization failure: PostgreSQL may
\* report one for any rows the transaction read, this approval or others.
Abort(q) ==
  /\ \E to \in {"transactionConflict"} \cup (IF record[KeyOf[q]] # None THEN {"keyConflict"} ELSE {}) :
       Goto(q, "open", to)
  /\ UNCHANGED <<rows, world, result, idempotency, reply>>

\* After the commit: an expiry is reported and its record left PENDING; any other
\* result is written into the record and answered.
Finish(q) ==
  /\ IF result[q] = "EXPIRED" THEN UNCHANGED completed
     ELSE completed' = completed \cup {KeyOf[q]}
  /\ Answer(q, "committed", result[q])
  /\ UNCHANGED <<rows, world, result, record, stale>>

ResolveKeyConflict(q) ==
  LET p == record[KeyOf[q]]
  IN  /\ Answer(q, "keyConflict",
                IF p # None /\ KeyOf[q] \in completed \ stale /\ SamePayload(p, q)
                THEN result[p] ELSE "IDEMPOTENCY_CONFLICT")
      /\ UNCHANGED <<rows, world, result, idempotency>>

\* Fault: the transaction is retried without a bound.
RetryTransaction(q) == /\ Goto(q, "transactionConflict", "checked")
                       /\ UNCHANGED <<rows, world, result, idempotency, reply>>
ResolveTransactionConflict(q) ==
  /\ Answer(q, "transactionConflict", "ALREADY_DECIDED")
  /\ UNCHANGED <<rows, world, result, idempotency>>

Handle(q) == \/ Open(q) \/ DecideExpired(q) \/ DecideRejected(q) \/ DecideApproved(q)
             \/ Abort(q) \/ Finish(q)
             \/ ResolveKeyConflict(q) \/ ResolveTransactionConflict(q)

\* The server stops while it works on the request; an open transaction rolls back.
Lose(q) == /\ pc[q] \notin {"unsent", "answered", "lost"}
           /\ pc' = [pc EXCEPT ![q] = "lost"]
           /\ UNCHANGED <<rows, world, result, idempotency, reply>>

-----------------------------------------------------------------------------
(* The worker and the surroundings. *)

\* expireOverdueApprovals: one transaction over a batch of overdue approvals;
\* SKIP LOCKED leaves out the ones a decision holds.
\* Fault: only the approvals that hold a receipt themselves are swept.
EarnDueForExpiry(a) == a \in overdue \cap Earns /\ approval[a] = "PENDING"
DueForExpiry(a) == a \in overdue /\ approval[a] = "PENDING"

Sweep == /\ \E S \in SUBSET {a \in Ids : DueForExpiry(a)} :
              S # {} /\ Cardinality(S) <= Batch /\ ExpireApprovals(S)
         /\ UNCHANGED <<world, pc, result, idempotency, reply>>

Lapse(a) == /\ approval[a] # "none"
            /\ overdue' = overdue \cup {a}
            /\ UNCHANGED <<rows, raisedUnder, policy, eligible, pc, result, idempotency, reply>>

\* A record outlives the handler that wrote it by a day.
LapseRecord(k) == /\ record[k] # None
                  /\ pc[record[k]] # "committed"
                  /\ stale' = stale \cup {k}
                  /\ UNCHANGED <<rows, world, pc, result, record, completed, reply>>

\* updatePolicyConfiguration, or a deployment with other environment variables.
ChangePolicy == /\ \E field \in {"environment", "branch"} :
                     /\ policy[field] < MaxVersion
                     /\ policy' = [policy EXCEPT ![field] = @ + 1]
                /\ UNCHANGED <<rows, raisedUnder, overdue, eligible, pc, result, idempotency, reply>>

ChangeEligibility ==
  /\ eligible' = ~eligible
  /\ UNCHANGED <<rows, raisedUnder, policy, overdue, pc, result, idempotency, reply>>

Next == \/ \E a \in Ids : Raise(a) \/ Lapse(a)
        \/ \E q \in Requests : LookUp(q) \/ Handle(q) \/ Lose(q)
        \/ \E k \in Keys : LapseRecord(k)
        \/ Sweep \/ ChangePolicy \/ ChangeEligibility

Spec == Init /\ [][Next]_vars

\* The worker's timer keeps firing and a request in progress is worked on.
FairSpec == Spec /\ WF_vars(Sweep) /\ \A q \in Requests : WF_vars(Handle(q))

-----------------------------------------------------------------------------
TypeOK ==
  /\ approval \in [Ids -> Outcomes \cup {"none", "PENDING"}]
  /\ receipt \in [Ids -> {"none", "PENDING", "APPROVED", "REJECTED"}]
  /\ redemption \in [Ids -> {"none", "PENDING_APPROVAL", "CONFIRMED", "REJECTED", "EXPIRED"}]
  /\ booked \in [Ids -> Nat]
  /\ raisedUnder \in [Ids -> Versions]
  /\ policy \in [environment : Nat, branch : Nat]
  /\ overdue \subseteq Ids
  /\ eligible \in BOOLEAN
  /\ pc \in [Requests -> Steps]
  /\ result \in [Requests -> Outcomes \cup {None}]
  /\ record \in [Keys -> Requests \cup {None}]
  /\ completed \subseteq Keys
  /\ stale \subseteq Keys
  /\ reply \in [Requests -> Outcomes \cup Refusals \cup {None}]

\* What Receipt.reviewStatus and Redemption.status should be beside an approval.
ReceiptFor(status) == CASE status = "EXECUTED" -> "APPROVED"
                        [] status \in {"REJECTED", "EXPIRED"} -> "REJECTED"
                        [] OTHER -> status
RedemptionFor(status) == CASE status = "PENDING" -> "PENDING_APPROVAL"
                           [] status = "EXECUTED" -> "CONFIRMED"
                           [] OTHER -> status

\* However many supervisors and the worker meet on an approval, its receipt, its
\* redemption and the money tell one story: a settlement is booked once, and only
\* for an approval that was executed.  A disagreement would make expireApproval
\* throw, and with it every later sweep.
RowsAgree ==
  \A a \in Ids : /\ receipt[a] = ReceiptFor(approval[a])
                 /\ redemption[a] = IF a \in Redeems THEN RedemptionFor(approval[a]) ELSE "none"
                 /\ booked[a] = IF approval[a] = "EXECUTED" THEN 1 ELSE 0

\* The outcome a supervisor is told, at once or by a replay of the stored answer,
\* is the one the approval has.
AnswersAreTrue ==
  \A q \in Requests : reply[q] \in Outcomes => approval[ApprovalOf[q]] = reply[q]

\* An approval with an outcome keeps it, and so does the money it moved: a late
\* decision, a retry or a sweep changes nothing.
DecisionIsFinal ==
  [][\A a \in Ids : approval[a] \in Outcomes
                    => approval'[a] = approval[a] /\ booked'[a] = booked[a]]_vars

\* decideApproval, the worker and their races keep the promise of ApprovalOutcome: an
\* approval gets one outcome, from one request that asked for it or from its expiry,
\* and who is refused has decided nothing.  Why it is refused is not promised: after a
\* conflict the answer is ALREADY_DECIDED even when nobody has decided.
SubjectOf(q) == ApprovalOf[q]
Wanted(q) == IF VerdictOf[q] = "APPROVED" THEN "EXECUTED" ELSE "REJECTED"
Acted == {q \in Requests : result[q] # None}
Told == [q \in Requests |-> IF reply[q] \in Refusals THEN "REFUSED" ELSE reply[q]]
Promise == INSTANCE ApprovalOutcome
             WITH Subjects <- Ids, Asking <- Requests, NotTold <- None,
                  status <- approval, acted <- Acted, told <- Told
Implements == Promise!Spec

\* An approval nobody decides in time does not hold its receipt for ever.
OverdueIsSettled == <>[](\A a \in overdue : approval[a] # "PENDING")

\* Every decision sent to the server is answered, unless the server loses it.
EveryDecisionAnswered == <>[](\A q \in Requests : pc[q] \in {"unsent", "answered", "lost"})

\* The refusal says "Approval policy changed after the request was captured": the
\* policy in force is then another one (a version is never used again).
PolicyRefusalIsTrue ==
  \A q \in Requests : reply[q] = "POLICY_CHANGED"
                      => raisedUnder[ApprovalOf[q]] # VersionInForce
=============================================================================
