-------------------------- MODULE ApprovalsProofs ---------------------------
(***************************************************************************)
(* For any number of approvals, supervisors, keys and sweeps: the rows of an *)
(* approval tell one story, and decideApproval with its races, the expiry    *)
(* worker and the replays implements ApprovalOutcome.                        *)
(***************************************************************************)
EXTENDS Approvals, TLAPS

\* What a transaction committed is still the outcome of its approval.
ResultsStand ==
  \A q \in Requests : result[q] # None => approval[ApprovalOf[q]] = result[q]

\* A record is that of a decision that committed, under its own key.
RecordsOfDecisions ==
  \A k \in Keys : record[k] # None => result[record[k]] # None

\* Whoever stands behind its commit has a result, and nobody who stands before it;
\* only an ended request has a reply.
StandsWhereItSays ==
  \A q \in Requests : /\ pc[q] = "committed" => result[q] # None
                      /\ result[q] # None => pc[q] \in {"committed", "answered", "lost"}
                      /\ reply[q] # None => pc[q] = "answered"

ApprovalInv == /\ TypeOK
               /\ RowsAgree
               /\ ResultsStand
               /\ RecordsOfDecisions
               /\ StandsWhereItSays
               /\ AnswersAreTrue

\* Nothing is raised, decided or answered.
LEMMA InitApprovals == Init => ApprovalInv
  BY DomainAssumption, NoneAssumption
     DEF Init, ApprovalInv, TypeOK, RowsAgree, ResultsStand, RecordsOfDecisions,
         StandsWhereItSays, AnswersAreTrue, ReceiptFor, RedemptionFor, Outcomes, Refusals,
         Versions, Steps

Rows == /\ approval \in [Ids -> Outcomes \cup {"none", "PENDING"}]
        /\ receipt \in [Ids -> {"none", "PENDING", "APPROVED", "REJECTED"}]
        /\ redemption \in [Ids -> {"none", "PENDING_APPROVAL", "CONFIRMED", "REJECTED",
                                   "EXPIRED"}]
        /\ booked \in [Ids -> Nat]

\* The pending approvals S get the outcome o, and the money moves with EXECUTED.
Decided(S, o) ==
  /\ approval' = [a \in Ids |-> IF a \in S THEN o ELSE approval[a]]
  /\ booked' = [a \in Ids |-> IF a \in S /\ o = "EXECUTED" THEN booked[a] + 1 ELSE booked[a]]

\* expireApproval, the rejection and the execution write all the rows of a decision.
LEMMA ExpireDecides ==
  ASSUME Rows, RowsAgree, NEW S \in SUBSET Ids, ExpireApprovals(S)
  PROVE  Decided(S, "EXPIRED") /\ Rows' /\ RowsAgree' /\ \A a \in S : approval[a] = "PENDING"
<1> USE DEF ExpireApprovals, Outcomes
<1>1. Decided(S, "EXPIRED") BY DEF Decided, Rows
<1>2. Rows' BY DEF Rows
<1>3. RowsAgree' BY DEF Rows, RowsAgree, ReceiptFor, RedemptionFor
<1> QED BY <1>1, <1>2, <1>3

LEMMA RejectDecides ==
  ASSUME Rows, RowsAgree, NEW a \in Ids, approval[a] = "PENDING", RejectApproval(a)
  PROVE  Decided({a}, "REJECTED") /\ Rows' /\ RowsAgree'
<1> USE DEF RejectApproval, Outcomes
<1>1. Decided({a}, "REJECTED") BY DEF Decided, Rows
<1>2. Rows' BY DEF Rows
<1>3. RowsAgree' BY DEF Rows, RowsAgree, ReceiptFor, RedemptionFor
<1> QED BY <1>1, <1>2, <1>3

LEMMA ExecuteDecides ==
  ASSUME Rows, RowsAgree, NEW a \in Ids, approval[a] = "PENDING", ExecuteApproval(a)
  PROVE  Decided({a}, "EXECUTED") /\ Rows' /\ RowsAgree'
<1> USE DEF ExecuteApproval, Outcomes
<1>1. Decided({a}, "EXECUTED") BY DEF Decided, Rows
<1>2. Rows' BY DEF Rows
<1>3. RowsAgree' BY DEF Rows, RowsAgree, ReceiptFor, RedemptionFor
<1> QED BY <1>1, <1>2, <1>3

\* The types of what is not an approval's row.
Handlers == /\ raisedUnder \in [Ids -> Versions]
            /\ policy \in [environment : Nat, branch : Nat]
            /\ overdue \subseteq Ids
            /\ eligible \in BOOLEAN
            /\ pc \in [Requests -> Steps]
            /\ result \in [Requests -> Outcomes \cup {None}]
            /\ record \in [Keys -> Requests \cup {None}]
            /\ completed \subseteq Keys
            /\ stale \subseteq Keys
            /\ reply \in [Requests -> Outcomes \cup Refusals \cup {None}]

LEMMA TypeSplits == (TypeOK <=> Rows /\ Handlers) /\ (TypeOK' <=> Rows' /\ Handlers')
  BY DEF TypeOK, Rows, Handlers

\* A commit: the approval is decided, the record written, nobody told yet.
LEMMA CommitKeeps ==
  ASSUME ApprovalInv, NEW q \in Requests, NEW x \in Outcomes, Commit(q, x),
         Decided({ApprovalOf[q]}, x), Rows', RowsAgree'
  PROVE  ApprovalInv'
<1> USE DomainAssumption, NoneAssumption
<1>1. approval[ApprovalOf[q]] = "PENDING" /\ ApprovalOf[q] \in Ids
  BY DEF Commit, Serializable
<1>2. /\ pc[q] = "open" /\ pc' = [pc EXCEPT ![q] = "committed"]
      /\ result' = [result EXCEPT ![q] = x]
      /\ record' = [record EXCEPT ![KeyOf[q]] = q]
      /\ UNCHANGED <<world, completed, stale, reply>>
  BY DEF Commit, Goto
<1>3. Handlers' BY <1>2, TypeSplits DEF ApprovalInv, Handlers, Steps, world
<1>4. \A a \in Ids : approval[a] \in Outcomes => approval'[a] = approval[a]
  BY <1>1 DEF Decided, Outcomes
<1>5. approval'[ApprovalOf[q]] = x BY <1>1 DEF Decided
<1>6. ResultsStand'
  BY <1>2, <1>4, <1>5 DEF ApprovalInv, ResultsStand, TypeOK
<1>7. RecordsOfDecisions'
  BY <1>2 DEF ApprovalInv, RecordsOfDecisions, TypeOK
<1>8. StandsWhereItSays'
  BY <1>2 DEF ApprovalInv, StandsWhereItSays, TypeOK
<1>9. AnswersAreTrue'
  BY <1>2, <1>4 DEF ApprovalInv, AnswersAreTrue
<1> QED BY <1>3, <1>6, <1>7, <1>8, <1>9, TypeSplits DEF ApprovalInv

\* An answer is true when the outcome it names is one that was committed.
LEMMA AnswerKeeps ==
  ASSUME ApprovalInv, NEW q \in Requests, NEW from \in Steps, NEW x, Answer(q, from, x),
         \/ x \in Refusals
         \/ \E p \in Requests : ApprovalOf[p] = ApprovalOf[q] /\ x = result[p] /\ x # None,
         UNCHANGED <<rows, world, result>>,
         record' \in [Keys -> Requests \cup {None}],
         \A k \in Keys : record'[k] # None => record'[k] = record[k],
         completed' \subseteq Keys, stale' \subseteq Keys
  PROVE  ApprovalInv'
<1> USE DomainAssumption, NoneAssumption
<1>1. /\ pc[q] = from /\ pc' = [pc EXCEPT ![q] = "answered"]
      /\ reply' = [reply EXCEPT ![q] = x]
  BY DEF Answer, Goto
<1>2. x \in Refusals \cup Outcomes /\ (x \in Outcomes => approval[ApprovalOf[q]] = x)
  <2>1. CASE x \in Refusals BY <2>1 DEF Refusals, Outcomes
  <2>2. CASE \E p \in Requests : ApprovalOf[p] = ApprovalOf[q] /\ x = result[p] /\ x # None
    BY <2>2 DEF ApprovalInv, ResultsStand, TypeOK
  <2> QED BY <2>1, <2>2
<1>3. Handlers'
  BY <1>1, <1>2, TypeSplits DEF ApprovalInv, Handlers, Steps, world
<1>4. Rows' /\ RowsAgree' /\ ResultsStand'
  BY DEF ApprovalInv, TypeOK, Rows, RowsAgree, ResultsStand, rows
<1>5. RecordsOfDecisions'
  BY DEF ApprovalInv, RecordsOfDecisions
<1>6. StandsWhereItSays'
  BY <1>1 DEF ApprovalInv, StandsWhereItSays, TypeOK
<1>7. AnswersAreTrue'
  BY <1>1, <1>2 DEF ApprovalInv, AnswersAreTrue, TypeOK, rows
<1> QED BY <1>3, <1>4, <1>5, <1>6, <1>7, TypeSplits DEF ApprovalInv

\* A handler moves on without an answer and without a commit.
LEMMA MoveKeeps ==
  ASSUME ApprovalInv, NEW q \in Requests, NEW to \in Steps \ {"committed", "answered"},
         pc[q] # "answered", pc' = [pc EXCEPT ![q] = to],
         to = "lost" \/ pc[q] \notin {"committed", "lost"},
         UNCHANGED <<rows, world, result, reply>>,
         record' \in [Keys -> Requests \cup {None}],
         \A k \in Keys : record'[k] # None => record'[k] = record[k],
         completed' \subseteq Keys, stale' \subseteq Keys
  PROVE  ApprovalInv'
<1>1. Handlers' BY TypeSplits DEF ApprovalInv, Handlers, world
<1>2. Rows' /\ RowsAgree' /\ ResultsStand' /\ AnswersAreTrue'
  BY DEF ApprovalInv, TypeOK, Rows, RowsAgree, ResultsStand, AnswersAreTrue, rows
<1>3. RecordsOfDecisions' /\ StandsWhereItSays'
  BY DEF ApprovalInv, RecordsOfDecisions, StandsWhereItSays, TypeOK
<1> QED BY <1>1, <1>2, <1>3, TypeSplits DEF ApprovalInv

\* The steps of a decision.
LEMMA HandleKeeps ==
  ASSUME ApprovalInv, NEW q \in Requests, LookUp(q) \/ Handle(q) \/ Lose(q)
  PROVE  ApprovalInv'
<1> USE DomainAssumption, NoneAssumption
<1>a. /\ Rows /\ Handlers /\ RowsAgree
      /\ ApprovalOf[q] \in Ids /\ KeyOf[q] \in Keys
  BY TypeSplits DEF ApprovalInv
<1>1. CASE LookUp(q)
  <2> DEFINE k == KeyOf[q]
             found == IF k \in stale THEN None ELSE record[k]
             x == IF k \in completed /\ SamePayload(found, q)
                  THEN result[found] ELSE "IDEMPOTENCY_CONFLICT"
  <2>1. /\ record' = [record EXCEPT ![k] = found]
        /\ completed' \subseteq Keys /\ stale' \subseteq Keys
        /\ UNCHANGED <<rows, world, result>>
    BY <1>1, <1>a DEF LookUp, Handlers
  <2>2. /\ record' \in [Keys -> Requests \cup {None}]
        /\ \A j \in Keys : record'[j] # None => record'[j] = record[j]
    BY <2>1, <1>a DEF Handlers
  <2>3. CASE found = None
    <3>1. Goto(q, "unsent", "checked") /\ UNCHANGED reply BY <1>1, <2>3 DEF LookUp
    <3> QED BY <2>1, <2>2, <3>1, MoveKeeps DEF Goto, Steps
  <2>4. CASE found # None
    <3>1. Answer(q, "unsent", x) BY <1>1, <2>4 DEF LookUp
    <3>2. found \in Requests /\ result[found] # None
      BY <2>4, <1>a DEF Handlers, ApprovalInv, RecordsOfDecisions
    <3>3. \/ x \in Refusals
          \/ \E p \in Requests : ApprovalOf[p] = ApprovalOf[q] /\ x = result[p] /\ x # None
      BY <3>2 DEF Refusals, SamePayload
    <3> HIDE DEF x
    <3> QED BY <2>1, <2>2, <3>1, <3>3, AnswerKeeps DEF Steps
  <2> QED BY <2>3, <2>4
<1>2. CASE Open(q)
  <2>1. /\ UNCHANGED <<rows, world, result, idempotency>>
        /\ record' \in [Keys -> Requests \cup {None}]
        /\ completed' \subseteq Keys /\ stale' \subseteq Keys
        /\ \A j \in Keys : record'[j] # None => record'[j] = record[j]
    BY <1>2, <1>a DEF Open, Handlers, idempotency
  <2>2. CASE UNCHANGED reply /\ \E to \in {"keyConflict", "open"} : Goto(q, "checked", to)
    BY <2>1, <2>2, MoveKeeps DEF Goto, Steps
  <2>3. CASE Answer(q, "checked", RefusalAtOpen(q)) /\ RefusalAtOpen(q) # None
    <3>1. RefusalAtOpen(q) \in Refusals BY <2>3 DEF RefusalAtOpen, Refusals
    <3> QED BY <2>1, <2>3, <3>1, AnswerKeeps DEF Steps
  <2> QED BY <1>2, <2>2, <2>3 DEF Open
<1>3. CASE DecideExpired(q)
  <2>1. Decided({ApprovalOf[q]}, "EXPIRED") /\ Rows' /\ RowsAgree'
    BY <1>3, <1>a, ExpireDecides DEF DecideExpired
  <2> QED BY <1>3, <2>1, CommitKeeps DEF DecideExpired, Outcomes
<1>4. CASE DecideRejected(q)
  <2>1. approval[ApprovalOf[q]] = "PENDING"
    BY <1>4 DEF DecideRejected, Commit, Serializable
  <2>2. Decided({ApprovalOf[q]}, "REJECTED") /\ Rows' /\ RowsAgree'
    BY <1>4, <1>a, <2>1, RejectDecides DEF DecideRejected
  <2> QED BY <1>4, <2>2, CommitKeeps DEF DecideRejected, Outcomes
<1>5. CASE DecideApproved(q)
  <2>1. CASE Commit(q, "EXECUTED") /\ ExecuteApproval(ApprovalOf[q])
    <3>1. approval[ApprovalOf[q]] = "PENDING"
      BY <2>1 DEF Commit, Serializable
    <3>2. Decided({ApprovalOf[q]}, "EXECUTED") /\ Rows' /\ RowsAgree'
      BY <1>a, <2>1, <3>1, ExecuteDecides
    <3> QED BY <2>1, <3>2, CommitKeeps DEF Outcomes
  <2>2. CASE /\ RefusalAtExecution(q) # None
             /\ Answer(q, "open", RefusalAtExecution(q))
             /\ UNCHANGED <<rows, world, result, idempotency>>
    <3>1. RefusalAtExecution(q) \in Refusals BY <2>2 DEF RefusalAtExecution, Refusals
    <3>2. /\ record' \in [Keys -> Requests \cup {None}]
          /\ completed' \subseteq Keys /\ stale' \subseteq Keys
          /\ \A j \in Keys : record'[j] # None => record'[j] = record[j]
      BY <2>2, <1>a DEF Handlers, idempotency
    <3> QED BY <2>2, <3>1, <3>2, AnswerKeeps DEF Steps
  <2> QED BY <1>5, <2>1, <2>2 DEF DecideApproved
<1>6. CASE Abort(q)
  <2>1. /\ record' \in [Keys -> Requests \cup {None}]
        /\ completed' \subseteq Keys /\ stale' \subseteq Keys
        /\ \A j \in Keys : record'[j] # None => record'[j] = record[j]
        /\ UNCHANGED <<rows, world, result, reply>>
    BY <1>6, <1>a DEF Abort, Handlers, idempotency
  <2>2. \E to \in {"transactionConflict", "keyConflict"} : Goto(q, "open", to)
    BY <1>6 DEF Abort
  <2> QED BY <2>1, <2>2, MoveKeeps DEF Goto, Steps
<1>7. CASE Finish(q)
  <2>1. /\ record' \in [Keys -> Requests \cup {None}]
        /\ completed' \subseteq Keys /\ stale' \subseteq Keys
        /\ \A j \in Keys : record'[j] # None => record'[j] = record[j]
        /\ UNCHANGED <<rows, world, result>>
        /\ Answer(q, "committed", result[q])
    BY <1>7, <1>a DEF Finish, Handlers
  <2>2. result[q] # None
    BY <2>1 DEF Answer, Goto, ApprovalInv, StandsWhereItSays
  <2> QED BY <2>1, <2>2, AnswerKeeps DEF Steps
<1>8. CASE ResolveKeyConflict(q)
  <2> DEFINE p == record[KeyOf[q]]
             x == IF p # None /\ KeyOf[q] \in completed \ stale /\ SamePayload(p, q)
                  THEN result[p] ELSE "IDEMPOTENCY_CONFLICT"
  <2>1. /\ record' \in [Keys -> Requests \cup {None}]
        /\ completed' \subseteq Keys /\ stale' \subseteq Keys
        /\ \A j \in Keys : record'[j] # None => record'[j] = record[j]
        /\ UNCHANGED <<rows, world, result>>
        /\ Answer(q, "keyConflict", x)
    BY <1>8, <1>a DEF ResolveKeyConflict, Handlers, idempotency
  <2>2. p # None => p \in Requests /\ result[p] # None
    BY <1>a DEF Handlers, ApprovalInv, RecordsOfDecisions
  <2>3. \/ x \in Refusals
        \/ \E r \in Requests : ApprovalOf[r] = ApprovalOf[q] /\ x = result[r] /\ x # None
    BY <2>2 DEF Refusals, SamePayload
  <2> HIDE DEF x
  <2> QED BY <2>1, <2>3, AnswerKeeps DEF Steps
<1>9. CASE ResolveTransactionConflict(q)
  <2>1. /\ record' \in [Keys -> Requests \cup {None}]
        /\ completed' \subseteq Keys /\ stale' \subseteq Keys
        /\ \A j \in Keys : record'[j] # None => record'[j] = record[j]
        /\ UNCHANGED <<rows, world, result>>
        /\ Answer(q, "transactionConflict", "ALREADY_DECIDED")
    BY <1>9, <1>a DEF ResolveTransactionConflict, Handlers, idempotency
  <2> QED BY <2>1, AnswerKeeps DEF Steps, Refusals
<1>10. CASE Lose(q)
  <2>1. /\ record' \in [Keys -> Requests \cup {None}]
        /\ completed' \subseteq Keys /\ stale' \subseteq Keys
        /\ \A j \in Keys : record'[j] # None => record'[j] = record[j]
        /\ UNCHANGED <<rows, world, result, reply>>
        /\ pc[q] # "answered" /\ pc' = [pc EXCEPT ![q] = "lost"]
    BY <1>10, <1>a DEF Lose, Handlers, idempotency
  <2> QED BY <2>1, MoveKeeps DEF Steps
<1> QED BY <1>1, <1>2, <1>3, <1>4, <1>5, <1>6, <1>7, <1>8, <1>9, <1>10 DEF Handle

\* The sweep expires what is pending and tells nobody.
LEMMA SweepKeeps == ApprovalInv /\ Sweep => ApprovalInv'
<1> SUFFICES ASSUME ApprovalInv, Sweep PROVE ApprovalInv'
  OBVIOUS
<1> USE DomainAssumption
<1>1. Rows /\ Handlers /\ RowsAgree BY TypeSplits DEF ApprovalInv
<1>2. PICK S \in SUBSET Ids : ExpireApprovals(S) BY DEF Sweep
<1>3. Decided(S, "EXPIRED") /\ Rows' /\ RowsAgree' /\ \A a \in S : approval[a] = "PENDING"
  BY <1>1, <1>2, ExpireDecides
<1>4. \A a \in Ids : approval[a] \in Outcomes => approval'[a] = approval[a]
  BY <1>3 DEF Decided, Outcomes
<1>5. Handlers' BY <1>1 DEF Sweep, Handlers, world, idempotency
<1>6. ResultsStand' /\ AnswersAreTrue'
  BY <1>1, <1>4 DEF Sweep, ApprovalInv, ResultsStand, AnswersAreTrue, Handlers
<1>7. RecordsOfDecisions' /\ StandsWhereItSays'
  BY DEF Sweep, ApprovalInv, RecordsOfDecisions, StandsWhereItSays, idempotency
<1> QED BY <1>3, <1>5, <1>6, <1>7, TypeSplits DEF ApprovalInv

\* A new approval is pending in all its rows.
LEMMA RaiseKeeps == ASSUME ApprovalInv, NEW a \in Ids, Raise(a) PROVE ApprovalInv'
<1> USE DomainAssumption DEF Raise
<1>1. Rows /\ Handlers /\ RowsAgree BY TypeSplits DEF ApprovalInv
<1>2. Rows' BY <1>1 DEF Rows, Outcomes
<1>3. RowsAgree' BY <1>1 DEF Rows, RowsAgree, ReceiptFor, RedemptionFor
<1>4. VersionInForce \in Versions
  <2>1. policy.environment \in Nat /\ policy.branch \in Nat BY <1>1 DEF Handlers
  <2> QED BY <2>1 DEF VersionInForce, EnvironmentVersion, Versions
<1>5. Handlers' BY <1>1, <1>4 DEF Handlers
<1>6. \A b \in Ids : approval[b] \in Outcomes => approval'[b] = approval[b]
  BY <1>1 DEF Rows, Outcomes
<1>7. ResultsStand' /\ AnswersAreTrue'
  BY <1>1, <1>6 DEF ApprovalInv, ResultsStand, AnswersAreTrue, Handlers
<1>8. RecordsOfDecisions' /\ StandsWhereItSays'
  BY DEF ApprovalInv, RecordsOfDecisions, StandsWhereItSays
<1> QED BY <1>2, <1>3, <1>5, <1>7, <1>8, TypeSplits DEF ApprovalInv

\* Time and the surroundings change neither an approval nor an answer.
LEMMA SurroundingsKeep ==
  ASSUME ApprovalInv, UNCHANGED <<rows, pc, result, record, reply>>, Handlers'
  PROVE  ApprovalInv'
<1>1. Rows' /\ RowsAgree'
  BY TypeSplits DEF ApprovalInv, Rows, RowsAgree, rows
<1>2. ResultsStand' /\ AnswersAreTrue' /\ RecordsOfDecisions' /\ StandsWhereItSays'
  BY DEF ApprovalInv, ResultsStand, AnswersAreTrue, RecordsOfDecisions, StandsWhereItSays, rows
<1> QED BY <1>1, <1>2, TypeSplits DEF ApprovalInv

LEMMA NextApprovals == ApprovalInv /\ [Next]_vars => ApprovalInv'
<1> SUFFICES ASSUME ApprovalInv, [Next]_vars PROVE ApprovalInv'
  OBVIOUS
<1>1. Handlers BY TypeSplits DEF ApprovalInv
<1>2. ASSUME NEW a \in Ids, Lapse(a) PROVE ApprovalInv'
  <2>1. Handlers' BY <1>1, <1>2 DEF Lapse, Handlers, idempotency
  <2> QED BY <1>2, <2>1, SurroundingsKeep DEF Lapse, idempotency
<1>3. ASSUME NEW k \in Keys, LapseRecord(k) PROVE ApprovalInv'
  <2>1. Handlers' BY <1>1, <1>3 DEF LapseRecord, Handlers, world
  <2> QED BY <1>3, <2>1, SurroundingsKeep DEF LapseRecord
<1>4. CASE ChangePolicy
  <2>1. policy' \in [environment : Nat, branch : Nat]
    BY <1>1, <1>4 DEF ChangePolicy, Handlers
  <2>2. Handlers' BY <1>1, <1>4, <2>1 DEF ChangePolicy, Handlers, idempotency
  <2> QED BY <1>4, <2>2, SurroundingsKeep DEF ChangePolicy, idempotency
<1>5. CASE ChangeEligibility
  <2>1. eligible' \in BOOLEAN BY <1>5 DEF ChangeEligibility
  <2>2. Handlers' BY <1>1, <1>5, <2>1 DEF ChangeEligibility, Handlers, idempotency
  <2> QED BY <1>5, <2>2, SurroundingsKeep DEF ChangeEligibility, idempotency
<1>6. CASE UNCHANGED vars
  <2>1. Handlers' BY <1>1, <1>6 DEF vars, Handlers, world
  <2> QED BY <1>6, <2>1, SurroundingsKeep DEF vars
<1> QED BY <1>2, <1>3, <1>4, <1>5, <1>6, HandleKeeps, SweepKeeps, RaiseKeeps DEF Next

LEMMA ApprovalInvariant == Spec => []ApprovalInv
  BY InitApprovals, NextApprovals, PTL DEF Spec

-----------------------------------------------------------------------------
(* The refinement. *)

\* A decision of some approvals is a Decide of the promise, when nobody is answered.
LEMMA DecidedIsDecide ==
  ASSUME NEW S \in SUBSET Ids, NEW o \in Outcomes, Decided(S, o),
         \A a \in S : approval[a] = "PENDING", UNCHANGED reply
  PROVE  Promise!Decide(S, o)
<1>1. Told' = Told BY DEF Told
<1> QED BY <1>1 DEF Decided, Promise!Decide

\* A commit is the decision of the request that commits, and of no other.
LEMMA CommitIsDecideBy ==
  ASSUME ApprovalInv, NEW q \in Requests, NEW o \in Outcomes, Commit(q, o),
         o \in {Wanted(q), "EXPIRED"}, Decided({ApprovalOf[q]}, o)
  PROVE  Promise!Next
<1> USE DomainAssumption, NoneAssumption
<1>1. /\ approval[ApprovalOf[q]] = "PENDING" /\ pc[q] = "open" /\ UNCHANGED reply
      /\ result' = [result EXCEPT ![q] = o] /\ ApprovalOf[q] \in Ids
  BY DEF Commit, Goto, Serializable
<1>2. Promise!Decide({SubjectOf(q)}, o)
  BY <1>1, DecidedIsDecide DEF SubjectOf
<1>3. result[q] = None /\ reply[q] = None
  BY <1>1 DEF ApprovalInv, StandsWhereItSays
<1>4. q \notin Acted /\ Told[q] = None
  BY <1>3 DEF Acted, Told
<1>5. Acted' = Acted \cup {q}
  <2>1. result \in [Requests -> Outcomes \cup {None}] BY DEF ApprovalInv, TypeOK
  <2>2. \A p \in Requests : result'[p] = IF p = q THEN o ELSE result[p] BY <1>1, <2>1
  <2> QED BY <2>2 DEF Acted
<1>6. Promise!DecideBy(q, o) BY <1>2, <1>4, <1>5 DEF Promise!DecideBy
<1> QED BY <1>6 DEF Promise!Next, Promise!Outcomes, Outcomes

\* A true answer is a Tell, and a refusal is one of a request that decided nothing.
LEMMA AnswerIsTell ==
  ASSUME ApprovalInv, ApprovalInv', NEW q \in Requests, NEW from \in Steps \ {"answered"},
         NEW x, Answer(q, from, x), UNCHANGED <<rows, result>>,
         x \in Refusals => from \notin {"committed", "lost"}
  PROVE  [Promise!Next]_(Promise!vars)
<1> USE DomainAssumption, NoneAssumption
<1>1. /\ reply' = [reply EXCEPT ![q] = x] /\ reply[q] = None
      /\ reply \in [Requests -> Outcomes \cup Refusals \cup {None}]
  BY DEF Answer, Goto, ApprovalInv, StandsWhereItSays, TypeOK
<1>a. Acted' = Acted BY DEF Acted
<1>b. Outcomes \cap Refusals = {} BY DEF Outcomes, Refusals
<1>2. CASE x \in Outcomes
  <2>1. Told[q] = None BY <1>1 DEF Told
  <2>2. approval[ApprovalOf[q]] = x
    BY <1>1, <1>2 DEF ApprovalInv, AnswersAreTrue, rows
  <2>3. Told' = [Told EXCEPT ![q] = approval[SubjectOf(q)]]
    BY <1>1, <1>2, <1>b, <2>2 DEF Told, SubjectOf
  <2>4. Promise!Tell(q)
    BY <1>2, <1>a, <2>1, <2>2, <2>3 DEF Promise!Tell, Promise!Outcomes, Outcomes, SubjectOf, rows
  <2> QED BY <2>4 DEF Promise!Next
<1>3. CASE x \in Refusals
  <2>1. Told[q] = None BY <1>1 DEF Told
  <2>2. q \notin Acted
    BY <1>3 DEF Answer, Goto, ApprovalInv, StandsWhereItSays, Acted
  <2>3. Told' = [Told EXCEPT ![q] = "REFUSED"] BY <1>1, <1>3 DEF Told
  <2>4. Promise!Refuse(q) BY <1>a, <2>1, <2>2, <2>3 DEF Promise!Refuse, rows
  <2> QED BY <2>4 DEF Promise!Next
<1>4. CASE x = None
  <2>1. Told' = Told BY <1>1, <1>4 DEF Told
  <2> QED BY <1>a, <2>1 DEF Promise!vars, rows
<1>5. x \in Outcomes \cup Refusals \cup {None}
  BY <1>1 DEF ApprovalInv, TypeOK
<1> QED BY <1>2, <1>3, <1>4, <1>5

\* Every step of the handlers and the worker is a step of the promise or none.
LEMMA StepOfPromise ==
  ApprovalInv /\ ApprovalInv' /\ [Next]_vars => [Promise!Next]_(Promise!vars)
<1> SUFFICES ASSUME ApprovalInv, ApprovalInv', [Next]_vars
             PROVE  [Promise!Next]_(Promise!vars)
  OBVIOUS
<1> USE DomainAssumption
<1>a. Rows /\ RowsAgree BY TypeSplits DEF ApprovalInv
<1>b. ASSUME UNCHANGED <<rows, result, reply>> PROVE [Promise!Next]_(Promise!vars)
  <2>1. Told' = Told /\ Acted' = Acted BY <1>b DEF Told, Acted
  <2> QED BY <1>b, <2>1 DEF Promise!vars, rows
<1>1. ASSUME NEW a \in Ids, Raise(a) PROVE Promise!Next
  <2>1. Told' = Told /\ Acted' = Acted BY <1>1 DEF Raise, Told, Acted
  <2>2. Promise!Raise(a) BY <1>1, <2>1 DEF Raise, Promise!Raise
  <2> QED BY <2>2 DEF Promise!Next
<1>2. ASSUME NEW a \in Ids, Lapse(a) PROVE [Promise!Next]_(Promise!vars)
  BY <1>2, <1>b DEF Lapse
<1>3. ASSUME NEW q \in Requests, LookUp(q) PROVE [Promise!Next]_(Promise!vars)
  <2>1. UNCHANGED <<rows, result>>
        /\ (UNCHANGED reply \/ \E x : Answer(q, "unsent", x))
    BY <1>3 DEF LookUp
  <2>2. ASSUME NEW x, Answer(q, "unsent", x) PROVE [Promise!Next]_(Promise!vars)
    <3>1. "unsent" \in Steps \ {"answered"} BY DEF Steps
    <3> QED BY <2>1, <2>2, <3>1, AnswerIsTell
  <2> QED BY <2>1, <2>2, <1>b
<1>4. ASSUME NEW q \in Requests, Open(q) PROVE [Promise!Next]_(Promise!vars)
  <2>1. UNCHANGED <<rows, result>>
        /\ (UNCHANGED reply \/ \E x : Answer(q, "checked", x))
    BY <1>4 DEF Open
  <2>2. ASSUME NEW x, Answer(q, "checked", x) PROVE [Promise!Next]_(Promise!vars)
    <3>1. "checked" \in Steps \ {"answered"} BY DEF Steps
    <3> QED BY <2>1, <2>2, <3>1, AnswerIsTell
  <2> QED BY <2>1, <2>2, <1>b
<1>5. ASSUME NEW q \in Requests, DecideExpired(q) PROVE Promise!Next
  <2>1. ExpireApprovals({ApprovalOf[q]}) /\ Commit(q, "EXPIRED") /\ ApprovalOf[q] \in Ids
    BY <1>5 DEF DecideExpired
  <2>2. Decided({ApprovalOf[q]}, "EXPIRED") BY <1>a, <2>1, ExpireDecides
  <2> QED BY <2>1, <2>2, CommitIsDecideBy DEF Outcomes
<1>6. ASSUME NEW q \in Requests, DecideRejected(q) PROVE Promise!Next
  <2>1. /\ Commit(q, "REJECTED") /\ RejectApproval(ApprovalOf[q])
        /\ ApprovalOf[q] \in Ids /\ approval[ApprovalOf[q]] = "PENDING"
    BY <1>6 DEF DecideRejected, Commit, Serializable
  <2>2. Decided({ApprovalOf[q]}, "REJECTED") BY <1>a, <2>1, RejectDecides
  <2>3. Wanted(q) = "REJECTED" BY <1>6 DEF DecideRejected, Wanted
  <2> QED BY <2>1, <2>2, <2>3, CommitIsDecideBy DEF Outcomes
<1>7. ASSUME NEW q \in Requests, DecideApproved(q) PROVE [Promise!Next]_(Promise!vars)
  <2>1. CASE Commit(q, "EXECUTED") /\ ExecuteApproval(ApprovalOf[q])
    <3>1. ApprovalOf[q] \in Ids /\ approval[ApprovalOf[q]] = "PENDING"
      BY <2>1 DEF Commit, Serializable
    <3>2. Decided({ApprovalOf[q]}, "EXECUTED") BY <1>a, <2>1, <3>1, ExecuteDecides
    <3>3. Wanted(q) = "EXECUTED" BY <1>7 DEF DecideApproved, Wanted
    <3> QED BY <2>1, <3>2, <3>3, CommitIsDecideBy DEF Outcomes
  <2>2. CASE UNCHANGED <<rows, result>> /\ \E x : Answer(q, "open", x)
    BY <2>2, AnswerIsTell DEF Steps
  <2> QED BY <1>7, <2>1, <2>2 DEF DecideApproved
<1>8. ASSUME NEW q \in Requests, Abort(q) \/ Lose(q) PROVE [Promise!Next]_(Promise!vars)
  BY <1>8, <1>b DEF Abort, Lose
<1>9. ASSUME NEW q \in Requests,
             Finish(q) \/ ResolveKeyConflict(q) \/ ResolveTransactionConflict(q)
      PROVE  [Promise!Next]_(Promise!vars)
  <2>1. CASE Finish(q)
    <3>1. Answer(q, "committed", result[q]) /\ UNCHANGED <<rows, result>>
      BY <2>1 DEF Finish
    <3>2. result[q] \in Outcomes
      BY <3>1 DEF Answer, Goto, ApprovalInv, StandsWhereItSays, TypeOK
    <3>3. result[q] \notin Refusals BY <3>2 DEF Outcomes, Refusals
    <3> QED BY <3>1, <3>3, AnswerIsTell DEF Steps
  <2>2. CASE ResolveKeyConflict(q) \/ ResolveTransactionConflict(q)
    <3>1. /\ UNCHANGED <<rows, result>>
          /\ \E from \in {"keyConflict", "transactionConflict"} : \E x : Answer(q, from, x)
      BY <2>2 DEF ResolveKeyConflict, ResolveTransactionConflict
    <3> QED BY <3>1, AnswerIsTell DEF Steps
  <2> QED BY <1>9, <2>1, <2>2
<1>10. CASE Sweep
  <2>1. PICK S \in SUBSET Ids : ExpireApprovals(S) BY <1>10 DEF Sweep
  <2>2. /\ Decided(S, "EXPIRED") /\ \A a \in S : approval[a] = "PENDING"
    BY <1>a, <2>1, ExpireDecides
  <2>3. Promise!Decide(S, "EXPIRED") BY <1>10, <2>2, DecidedIsDecide DEF Sweep, Outcomes
  <2>4. Acted' = Acted BY <1>10 DEF Sweep, Acted
  <2> QED BY <2>3, <2>4 DEF Promise!Expire, Promise!Next
<1>11. CASE \/ ChangePolicy \/ ChangeEligibility \/ UNCHANGED vars
            \/ \E k \in Keys : LapseRecord(k)
  BY <1>11, <1>b DEF ChangePolicy, ChangeEligibility, vars, LapseRecord
<1> QED BY <1>1, <1>2, <1>3, <1>4, <1>5, <1>6, <1>7, <1>8, <1>9, <1>10, <1>11 DEF Next, Handle

-----------------------------------------------------------------------------
\* The columns and handler variables of the approval workflow keep their types.
THEOREM ApprovalsTyped == Spec => []TypeOK
  BY ApprovalInvariant, PTL DEF ApprovalInv

\* Approval, receipt, redemption and ledger tell one story of every approval, so
\* expireApproval never meets rows that disagree, and never throws.
THEOREM RowsTellOneStory == Spec => []RowsAgree
  BY ApprovalInvariant, PTL DEF ApprovalInv

\* The outcome a supervisor is told, directly or as a replay, is the approval's.
THEOREM AnswersTrue == Spec => []AnswersAreTrue
  BY ApprovalInvariant, PTL DEF ApprovalInv

\* decideApproval, the expiry worker and the replays keep the promise of
\* ApprovalOutcome: one outcome for good, decided as one request asked or by expiry,
\* money once and with EXECUTED only, and no effect of a request that is refused.
THEOREM ApprovalsImplementPromise == Spec => Implements
<1>1. Init => Promise!Init
  BY NoneAssumption DEF Init, Promise!Init, Told, Acted, Refusals
<1> QED BY <1>1, StepOfPromise, ApprovalInvariant, PTL DEF Spec, Implements, Promise!Spec

\* An approval that has an outcome keeps it, and the money it moved.
THEOREM OutcomesAreFinal == Spec => DecisionIsFinal
<1> DEFINE Final == \A a \in Ids : approval[a] \in Outcomes
                                   => approval'[a] = approval[a] /\ booked'[a] = booked[a]
<1>1. ApprovalInv /\ ApprovalInv' /\ [Next]_vars => [Final]_vars
  <2> SUFFICES ASSUME ApprovalInv, ApprovalInv', [Next]_vars PROVE Final
    OBVIOUS
  <2>1. [Promise!Next]_(Promise!vars) BY StepOfPromise
  <2>2. CASE UNCHANGED Promise!vars BY <2>2 DEF Promise!vars
  <2>3. ASSUME NEW a \in Ids, Promise!Raise(a) PROVE Final
    BY <2>3 DEF Promise!Raise, Outcomes, ApprovalInv, TypeOK
  <2>4. ASSUME NEW S \in SUBSET Ids, NEW o \in Outcomes, Promise!Decide(S, o) PROVE Final
    BY <2>4 DEF Promise!Decide, Outcomes
  <2>5. ASSUME NEW q \in Requests, Promise!Tell(q) \/ Promise!Refuse(q) PROVE Final
    BY <2>5 DEF Promise!Tell, Promise!Refuse
  <2>6. ASSUME NEW S \in SUBSET Ids, Promise!Expire(S) PROVE Final
    BY <2>4, <2>6 DEF Promise!Expire, Outcomes
  <2>7. ASSUME NEW q \in Requests, NEW o \in Outcomes, Promise!DecideBy(q, o) PROVE Final
    BY <2>4, <2>7, DomainAssumption DEF Promise!DecideBy, SubjectOf
  <2> QED BY <2>1, <2>2, <2>3, <2>5, <2>6, <2>7 DEF Promise!Next, Promise!Outcomes, Outcomes
<1> QED BY <1>1, ApprovalInvariant, PTL DEF Spec, DecisionIsFinal
=============================================================================
