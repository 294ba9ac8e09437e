------------------------- MODULE EarnRequestsProofs -------------------------
(***************************************************************************)
(* For every number of requests, keys, receipts and attempts: the earn       *)
(* handler captures a receipt once, answers truthfully, and implements the   *)
(* one-step EarnService.                                                    *)
(***************************************************************************)
EXTENDS EarnRequests, TLAPS

\* The record of a key was written by a request with that key that did capture.
RecordsAreCaptures ==
  \A k \in Keys : record[k] \in Requests => Captured(record[k]) /\ KeyOf[record[k]] = k

\* A request answers exactly when it ends, and captures only as it answers.
AnsweredAtTheEnd ==
  \A q \in Requests : /\ reply[q] # NotYet <=> pc[q] = "answered"
                      /\ Captured(q) => reply[q] = outcome[q]

\* What a handler learnt before it stopped to look again is still so: a used
\* receipt stays used, a key taken by another body stays taken.
ConflictsAreReal ==
  \A q \in Requests :
    /\ pc[q] \in {"duplicate", "receiptConflict"} => Used(Receipt(q))
    /\ pc[q] = "keyConflict" =>
         \E p \in Requests : Captured(p) /\ SameKey(p, q) /\ ~SamePayload(p, q)

\* Attempts are left whenever a transaction may open.
AttemptsLeft ==
  \A q \in Requests :
    pc[q] \in {"unsent", "received", "cleaned", "checked"} => tries[q] < Attempts

EarnInv == /\ TypeOK
           /\ RecordsAreCaptures
           /\ AnsweredAtTheEnd
           /\ ConflictsAreReal
           /\ AttemptsLeft
           /\ ReceiptCapturedOnce
           /\ RepliesTellTheTruth

\* The initial state satisfies the invariant: nothing is captured or answered.
LEMMA InitEarn == Init => EarnInv
  BY RequestsAssumption, AttemptsAssumption
     DEF Init, EarnInv, TypeOK, RecordsAreCaptures, AnsweredAtTheEnd,
         ConflictsAreReal, AttemptsLeft, ReceiptCapturedOnce,
         RepliesTellTheTruth, Reasoned, Captured, Used, Steps, Captures, Refusals, NotYet

\* An answer that leaves the tables alone keeps the invariant, if it is truthful.
LEMMA AnswerKeeps ==
  ASSUME EarnInv, NEW q \in Requests, NEW from \in Steps \ {"answered"},
         NEW a \in Captures \cup Refusals, Answer(q, from, a),
         UNCHANGED tables,
         \/ UNCHANGED tries
         \/ /\ from = "checked"
            /\ tries' = [tries EXCEPT ![q] = NextAttempt(q)],
         a \in Captures =>
           \E p \in Requests : SameKey(p, q) /\ SamePayload(p, q) /\ outcome[p] = a,
         Reasoned(q, a)
  PROVE  EarnInv'
<1> USE DEF Captured, Captures, Refusals, NotYet
<1>1. /\ pc[q] = from /\ pc' = [pc EXCEPT ![q] = "answered"]
      /\ reply' = [reply EXCEPT ![q] = a]
      /\ outcome' = outcome /\ record' = record /\ stale' = stale
      /\ elsewhere' = elsewhere /\ eligible' = eligible /\ evidence' = evidence
  BY DEF Answer, Goto, tables
<1>2. TypeOK /\ AnsweredAtTheEnd
  BY DEF EarnInv
<1>3. TypeOK'
  <2>1. tries' \in [Requests -> 0 .. Attempts]
    BY <1>1, <1>2, AttemptsAssumption DEF EarnInv, TypeOK, AttemptsLeft, NextAttempt
  <2> QED
    BY <1>1, <1>2, <2>1 DEF TypeOK, Steps
<1>4. ~Captured(q)
  BY <1>1, <1>2 DEF AnsweredAtTheEnd, TypeOK
<1>5. RecordsAreCaptures' /\ ReceiptCapturedOnce'
  BY <1>1 DEF EarnInv, RecordsAreCaptures, ReceiptCapturedOnce
<1>6. AnsweredAtTheEnd'
  BY <1>1, <1>2, <1>4 DEF AnsweredAtTheEnd, TypeOK, Steps
<1>7. ConflictsAreReal'
  BY <1>1, <1>2 DEF EarnInv, ConflictsAreReal, TypeOK, Used
<1>8. AttemptsLeft'
  BY <1>1, <1>2 DEF EarnInv, AttemptsLeft, TypeOK
<1>9. RepliesTellTheTruth'
  BY <1>1, <1>2, <1>4 DEF EarnInv, RepliesTellTheTruth, TypeOK, Reasoned, Used
<1> QED
  BY <1>3, <1>5, <1>6, <1>7, <1>8, <1>9 DEF EarnInv

\* A move of the handler that neither answers nor writes keeps the invariant, if
\* what it claims to have learnt is so.
LEMMA MoveKeeps ==
  ASSUME EarnInv, NEW q \in Requests, NEW from \in Steps \ {"answered"},
         NEW to \in Steps \ {"answered"}, Goto(q, from, to),
         UNCHANGED <<tables, reply>>,
         \/ UNCHANGED tries
         \/ /\ from = "checked"
            /\ tries' = [tries EXCEPT ![q] = NextAttempt(q)],
         to \in {"duplicate", "receiptConflict"} => Used(Receipt(q)),
         to = "keyConflict" =>
           \E p \in Requests : Captured(p) /\ SameKey(p, q) /\ ~SamePayload(p, q),
         to \in {"unsent", "received", "cleaned", "checked"} =>
           tries'[q] < Attempts
  PROVE  EarnInv'
<1>1. /\ pc[q] = from /\ pc' = [pc EXCEPT ![q] = to]
      /\ reply' = reply
      /\ outcome' = outcome /\ record' = record /\ stale' = stale
      /\ elsewhere' = elsewhere /\ eligible' = eligible /\ evidence' = evidence
  BY DEF Goto, tables
<1>2. TypeOK /\ AnsweredAtTheEnd
  BY DEF EarnInv
<1>3. TypeOK'
  <2>1. tries' \in [Requests -> 0 .. Attempts]
    BY <1>1, <1>2, AttemptsAssumption DEF EarnInv, TypeOK, AttemptsLeft, NextAttempt
  <2> QED
    BY <1>1, <1>2, <2>1 DEF TypeOK
<1>4. RecordsAreCaptures' /\ ReceiptCapturedOnce'
  BY <1>1 DEF EarnInv, RecordsAreCaptures, ReceiptCapturedOnce, Captured
<1>5. AnsweredAtTheEnd'
  BY <1>1, <1>2 DEF AnsweredAtTheEnd, TypeOK, Captured
<1>6. ConflictsAreReal'
  BY <1>1, <1>2 DEF EarnInv, ConflictsAreReal, TypeOK, Used, Captured
<1>7. AttemptsLeft'
  BY <1>1, <1>2, <1>3 DEF EarnInv, AttemptsLeft, TypeOK
<1>8. RepliesTellTheTruth'
  BY <1>1 DEF EarnInv, RepliesTellTheTruth, Captured, Reasoned, Used
<1> QED
  BY <1>3, <1>4, <1>5, <1>6, <1>7, <1>8 DEF EarnInv

\* A replay answers with what the record of the key says, which is a capture.
LEMMA ReplayKeeps ==
  ASSUME EarnInv, NEW q \in Requests, NEW from \in Steps \ {"answered"},
         ReplayFrom(q, from)
  PROVE  EarnInv'
<1>1. PICK p \in ReplaysFor(q) : Answer(q, from, outcome[p]) /\ UNCHANGED <<tries, tables>>
  BY DEF ReplayFrom
<1>2. \A a \in Captures : Reasoned(q, a)
  BY DEF Captures, Reasoned
<1>3. p \in Requests /\ SameKey(p, q) /\ SamePayload(p, q) /\ outcome[p] \in Captures
  BY <1>1, RequestsAssumption
     DEF ReplaysFor, EarnInv, RecordsAreCaptures, TypeOK, Captured, SameKey
<1> QED
  BY <1>1, <1>2, <1>3, AnswerKeeps

\* When no replay is found behind a taken key, another body took the key.
LEMMA TakenByAnotherBody ==
  ASSUME EarnInv, NEW q \in Requests, record[KeyOf[q]] # None, ReplaysFor(q) = {}
  PROVE  \E p \in Requests : Captured(p) /\ SameKey(p, q) /\ ~SamePayload(p, q)
<1>1. record[KeyOf[q]] \in Requests
  BY RequestsAssumption DEF EarnInv, TypeOK
<1>2. ~SamePayload(record[KeyOf[q]], q)
  BY <1>1 DEF ReplaysFor
<1> QED
  BY <1>1, <1>2, RequestsAssumption DEF EarnInv, RecordsAreCaptures, SameKey

\* A commit captures an unused receipt under a free key.
LEMMA CommitKeeps ==
  ASSUME EarnInv, NEW q \in Requests, NEW a \in Captures, Commit(q, a)
  PROVE  EarnInv'
<1> USE DEF Captured
<1>1. /\ pc[q] = "open" /\ pc' = [pc EXCEPT ![q] = "answered"]
      /\ reply' = [reply EXCEPT ![q] = a]
      /\ outcome' = [outcome EXCEPT ![q] = a]
      /\ record' = [record EXCEPT ![KeyOf[q]] = q]
      /\ stale' = stale \ {KeyOf[q]} /\ tries' = tries
      /\ elsewhere' = elsewhere /\ eligible' = eligible /\ evidence' = evidence
  BY DEF Commit, Answer, Goto
<1>2. ~Used(Receipt(q)) /\ record[KeyOf[q]] = None
  BY DEF Commit, Clash
<1>3. TypeOK /\ KeyOf[q] \in Keys /\ a # NotYet
  BY RequestsAssumption DEF EarnInv, Captures, NotYet
<1>4. ~Captured(q)
  BY <1>1 DEF EarnInv, AnsweredAtTheEnd, TypeOK
<1>5. TypeOK'
  BY <1>1, <1>3 DEF TypeOK, Steps
<1>6. RecordsAreCaptures'
  BY <1>1, <1>3, RequestsAssumption DEF EarnInv, RecordsAreCaptures, TypeOK
<1>7. AnsweredAtTheEnd'
  BY <1>1, <1>3 DEF EarnInv, AnsweredAtTheEnd, TypeOK
<1>8. ConflictsAreReal'
  <2>1. \A p \in Requests : Captured(p) => Captured(p)'
    BY <1>1, <1>3 DEF TypeOK
  <2>2. \A r \in Receipts : Used(r) => Used(r)'
    BY <1>1, <2>1 DEF Used
  <2>3. \A p \in Requests : Receipt(p) \in Receipts
    BY RequestsAssumption DEF Receipt
  <2>4. \A p \in Requests : pc'[p] # "answered" => pc'[p] = pc[p]
    BY <1>1, <1>3 DEF TypeOK
  <2> SUFFICES ASSUME NEW p \in Requests
               PROVE  /\ pc'[p] \in {"duplicate", "receiptConflict"} => Used(Receipt(p))'
                      /\ pc'[p] = "keyConflict" =>
                           \E o \in Requests :
                             Captured(o)' /\ SameKey(o, p) /\ ~SamePayload(o, p)
    BY DEF ConflictsAreReal, SameKey, SamePayload
  <2>5. CASE pc'[p] \in {"duplicate", "receiptConflict"}
    <3>1. Used(Receipt(p))
      BY <2>4, <2>5 DEF EarnInv, ConflictsAreReal
    <3> QED
      BY <2>2, <2>3, <2>5, <3>1
  <2>6. CASE pc'[p] = "keyConflict"
    BY <2>1, <2>4, <2>6 DEF EarnInv, ConflictsAreReal
  <2> QED
    BY <2>5, <2>6
<1>9. AttemptsLeft'
  BY <1>1, <1>3 DEF EarnInv, AttemptsLeft, TypeOK
<1>10. ReceiptCapturedOnce'
  BY <1>1, <1>2, <1>3 DEF EarnInv, ReceiptCapturedOnce, TypeOK, Used, SameReceipt, Receipt
<1>11. RepliesTellTheTruth'
  <2>1. \A p \in Requests : Captured(p) => Captured(p)'
    BY <1>1, <1>3 DEF TypeOK
  <2>2. \A p \in Requests : Used(Receipt(p)) => Used(Receipt(p))'
    BY <1>1, <2>1 DEF Used
  <2>3. \A p \in Requests : Reasoned(p, reply[p])
    BY DEF EarnInv, RepliesTellTheTruth
  <2>4. ASSUME NEW p \in Requests PROVE Reasoned(p, reply[p])'
    <3>1. CASE p = q
      BY <1>1, <1>3, <3>1 DEF Reasoned, TypeOK, Captures
    <3>2. CASE p # q
      BY <1>1, <1>3, <2>1, <2>2, <2>3, <3>2 DEF Reasoned, TypeOK
    <3> QED
      BY <3>1, <3>2
  <2>5. ASSUME NEW p \in Requests
        PROVE  /\ reply'[p] \in Captures =>
                    \E o \in Requests : SameKey(o, p) /\ SamePayload(o, p) /\ outcome'[o] = reply'[p]
               /\ reply'[p] \in Refusals => ~Captured(p)'
    BY <1>1, <1>3, <1>4
       DEF EarnInv, RepliesTellTheTruth, TypeOK, SameKey, SamePayload, Captures, Refusals, NotYet
  <2> QED
    BY <2>4, <2>5 DEF RepliesTellTheTruth, SameKey, SamePayload
<1> QED
  BY <1>5, <1>6, <1>7, <1>8, <1>9, <1>10, <1>11 DEF EarnInv

\* Requests lost, records lapsing or cleaned up, receipts taken by redemptions and
\* changes of eligibility undo nothing that a handler relies on.
LEMMA SurroundingsKeep ==
  ASSUME EarnInv, \/ \E q \in Requests : Cleanup(q) \/ Lose(q) \/ RefuseDuplicate(q)
                  \/ \E k \in Keys : Lapse(k)
                  \/ \E r \in Receipts : SettleElsewhere(r)
                  \/ ChangeEligibility
  PROVE  EarnInv'
<1> USE DEF Captured, Goto
<1>1. ASSUME NEW q \in Requests, Cleanup(q) PROVE EarnInv'
  <2> DEFINE k == KeyOf[q]
  <2>1. /\ pc[q] = "received" /\ pc' = [pc EXCEPT ![q] = "cleaned"]
        /\ \/ record' = record
           \/ record' = [record EXCEPT ![k] = None]
        /\ stale' = stale \ {k} /\ UNCHANGED <<tries, outcome, elsewhere, eligible, evidence, reply>>
    <3>1. k \in Keys /\ record \in [Keys -> Requests \cup {None}]
      BY RequestsAssumption DEF EarnInv, TypeOK
    <3> QED
      BY <1>1, <3>1 DEF Cleanup
  <2>2. k \in Keys /\ None \notin Requests
    BY RequestsAssumption
  <2> HIDE DEF k
  <2> QED
    BY <2>1, <2>2
       DEF EarnInv, TypeOK, RecordsAreCaptures, AnsweredAtTheEnd, ConflictsAreReal,
           AttemptsLeft, ReceiptCapturedOnce, RepliesTellTheTruth, Reasoned, Used, Steps
<1>2. ASSUME NEW q \in Requests, Lose(q) PROVE EarnInv'
  BY <1>2
     DEF Lose, tables, EarnInv, TypeOK, RecordsAreCaptures, AnsweredAtTheEnd,
         ConflictsAreReal, AttemptsLeft, ReceiptCapturedOnce, RepliesTellTheTruth,
         Reasoned, Used, Steps
<1>3. ASSUME NEW q \in Requests, RefuseDuplicate(q) PROVE EarnInv'
  <2>1. "RECEIPT_ALREADY_USED" \in Refusals \ Captures
    BY DEF Refusals, Captures
  <2> QED
    BY <1>3, <2>1
       DEF RefuseDuplicate, Answer, EarnInv, TypeOK, RecordsAreCaptures,
           AnsweredAtTheEnd, ConflictsAreReal, AttemptsLeft, ReceiptCapturedOnce,
           RepliesTellTheTruth, Reasoned, Used, Steps, NotYet
<1>4. ASSUME NEW k \in Keys, Lapse(k) PROVE EarnInv'
  BY <1>4
     DEF Lapse, EarnInv, TypeOK, RecordsAreCaptures, AnsweredAtTheEnd, ConflictsAreReal,
         AttemptsLeft, ReceiptCapturedOnce, RepliesTellTheTruth, Reasoned, Used
<1>5. ASSUME NEW r \in Receipts, SettleElsewhere(r) PROVE EarnInv'
  BY <1>5
     DEF SettleElsewhere, EarnInv, TypeOK, RecordsAreCaptures, AnsweredAtTheEnd,
         ConflictsAreReal, AttemptsLeft, ReceiptCapturedOnce, RepliesTellTheTruth,
         Reasoned, Used, Receipt
<1>6. ASSUME ChangeEligibility PROVE EarnInv'
  BY <1>6
     DEF ChangeEligibility, EarnInv, TypeOK, RecordsAreCaptures, AnsweredAtTheEnd,
         ConflictsAreReal, AttemptsLeft, ReceiptCapturedOnce, RepliesTellTheTruth, Reasoned, Used
<1> QED
  BY <1>1, <1>2, <1>3, <1>4, <1>5, <1>6

\* Every step of the handlers and of their surroundings keeps the invariant.
LEMMA NextEarn == EarnInv /\ [Next]_vars => EarnInv'
<1> SUFFICES ASSUME EarnInv, [Next]_vars PROVE EarnInv'
  OBVIOUS
<1> DEFINE moves == {"unsent", "received", "cleaned", "checked", "open", "duplicate",
                     "receiptConflict", "keyConflict", "transactionConflict"}
<1>a. moves \subseteq Steps \ {"answered"} /\ Refusals \cap Captures = {}
  BY DEF Steps, Refusals, Captures
<1>b. \A q \in Requests : tries[q] \in Nat
  BY AttemptsAssumption DEF EarnInv, TypeOK
<1>1. ASSUME NEW q \in Requests, Receive(q) PROVE EarnInv'
  <2>1. tries'[q] < Attempts
    BY <1>1 DEF Receive, Goto, EarnInv, AttemptsLeft
  <2>2. Goto(q, "unsent", "received") /\ UNCHANGED <<tables, reply>> /\ UNCHANGED tries
    BY <1>1 DEF Receive
  <2> QED
    BY <1>a, <2>1, <2>2, MoveKeeps
<1>2. ASSUME NEW q \in Requests, LookUp(q) PROVE EarnInv'
  <2>1. CASE ReplayFrom(q, "cleaned")
    BY <1>a, <2>1, ReplayKeeps
  <2>2. ASSUME NEW a \in Refusals, Answer(q, "cleaned", a), UNCHANGED <<tries, tables>>,
               \/ a = "REJECTED"
               \/ a = "IDEMPOTENCY_CONFLICT" /\ record[KeyOf[q]] # None /\ ReplaysFor(q) = {}
        PROVE  EarnInv'
    <3>1. Reasoned(q, a)
      BY <2>2, TakenByAnotherBody DEF Reasoned
    <3> QED
      BY <1>a, <2>2, <3>1, AnswerKeeps
  <2>3. CASE Goto(q, "cleaned", "checked") /\ UNCHANGED reply /\ UNCHANGED <<tries, tables>>
    <3>1. tries'[q] < Attempts
      BY <2>3 DEF Goto, EarnInv, AttemptsLeft
    <3> QED
      BY <1>a, <2>3, <3>1, MoveKeeps
  <2> QED
    BY <1>2, <2>1, <2>2, <2>3 DEF LookUp, Refusals
<1>3. ASSUME NEW q \in Requests, Open(q) PROVE EarnInv'
  <2>1. UNCHANGED tables /\ tries' = [tries EXCEPT ![q] = NextAttempt(q)]
    BY <1>3 DEF Open
  <2>2. CASE ~eligible
    <3>1. Answer(q, "checked", "REJECTED") /\ "REJECTED" \in Refusals /\ Reasoned(q, "REJECTED")
      BY <1>3, <2>2 DEF Open, Refusals, Reasoned
    <3> QED
      BY <1>a, <2>1, <3>1, AnswerKeeps
  <2>3. CASE eligible
    <3>1. PICK to \in {"duplicate", "open"} :
            /\ Goto(q, "checked", to) /\ UNCHANGED reply
            /\ to = "duplicate" => Used(Receipt(q))
      BY <1>3, <2>3 DEF Open
    <3> QED
      BY <1>a, <2>1, <3>1, MoveKeeps
  <2> QED
    BY <2>2, <2>3
<1>4. ASSUME NEW q \in Requests, Abort(q) PROVE EarnInv'
  <2>1. PICK to \in Clash(q) \cup {"transactionConflict"} : Goto(q, "open", to)
    BY <1>4 DEF Abort
  <2>2. UNCHANGED <<tables, reply>> /\ UNCHANGED tries
    BY <1>4 DEF Abort
  <2>3. CASE to = "transactionConflict"
    BY <1>a, <2>1, <2>2, <2>3, MoveKeeps
  <2>4. CASE to = "receiptConflict" /\ Used(Receipt(q))
    BY <1>a, <2>1, <2>2, <2>4, MoveKeeps
  <2>5. CASE to = "keyConflict" /\ ~Used(Receipt(q)) /\ record[KeyOf[q]] # None
    <3>1. record[KeyOf[q]] \in Requests /\ KeyOf[record[KeyOf[q]]] = KeyOf[q]
          /\ Captured(record[KeyOf[q]])
      BY <2>5, RequestsAssumption DEF EarnInv, TypeOK, RecordsAreCaptures
    <3>2. ~SamePayload(record[KeyOf[q]], q)
      BY <2>5, <3>1 DEF Used, SamePayload, Receipt
    <3>3. \E p \in Requests : Captured(p) /\ SameKey(p, q) /\ ~SamePayload(p, q)
      BY <3>1, <3>2 DEF SameKey
    <3> QED
      BY <1>a, <2>1, <2>2, <2>5, <3>3, MoveKeeps
  <2> QED
    BY <2>1, <2>3, <2>4, <2>5 DEF Clash
<1>5. ASSUME NEW q \in Requests, ResolveKeyConflict(q) PROVE EarnInv'
  <2>1. CASE ReplayFrom(q, "keyConflict")
    BY <1>a, <2>1, ReplayKeeps
  <2>2. CASE Answer(q, "keyConflict", "IDEMPOTENCY_CONFLICT") /\ UNCHANGED <<tries, tables>>
    <3>1. "IDEMPOTENCY_CONFLICT" \in Refusals /\ Reasoned(q, "IDEMPOTENCY_CONFLICT")
      BY <2>2 DEF Refusals, Answer, Goto, EarnInv, ConflictsAreReal, Reasoned
    <3> QED
      BY <1>a, <2>2, <3>1, AnswerKeeps
  <2> QED
    BY <1>5, <2>1, <2>2 DEF ResolveKeyConflict
<1>6. ASSUME NEW q \in Requests, ResolveReceiptConflict(q) PROVE EarnInv'
  <2>1. CASE ReplayFrom(q, "receiptConflict")
    BY <1>a, <2>1, ReplayKeeps
  <2>2. CASE Goto(q, "receiptConflict", "duplicate") /\ UNCHANGED <<tries, tables, reply>>
    <3>1. Used(Receipt(q))
      BY <2>2 DEF Goto, EarnInv, ConflictsAreReal
    <3> QED
      BY <1>a, <2>2, <3>1, MoveKeeps
  <2> QED
    BY <1>6, <2>1, <2>2 DEF ResolveReceiptConflict
<1>7. ASSUME NEW q \in Requests, ResolveTransactionConflict(q) PROVE EarnInv'
  <2>1. CASE ReplayFrom(q, "transactionConflict")
    BY <1>a, <2>1, ReplayKeeps
  <2>2. CASE /\ MayRetry(q) /\ Goto(q, "transactionConflict", "checked")
             /\ UNCHANGED <<tries, tables, reply>>
    BY <1>a, <1>b, <2>2, MoveKeeps DEF MayRetry
  <2>3. CASE /\ Answer(q, "transactionConflict", "EARN_TRANSACTION_CONFLICT")
             /\ UNCHANGED <<tries, tables>>
    <3>1. /\ "EARN_TRANSACTION_CONFLICT" \in Refusals
          /\ Reasoned(q, "EARN_TRANSACTION_CONFLICT")
      BY DEF Refusals, Reasoned
    <3> QED
      BY <1>a, <2>3, <3>1, AnswerKeeps
  <2> QED
    BY <1>7, <2>1, <2>2, <2>3 DEF ResolveTransactionConflict
<1>8. CASE UNCHANGED vars
  BY <1>8
     DEF vars, EarnInv, TypeOK, RecordsAreCaptures, AnsweredAtTheEnd, ConflictsAreReal,
         AttemptsLeft, ReceiptCapturedOnce, RepliesTellTheTruth, Reasoned, Used, Captured
<1> QED
  BY <1>1, <1>2, <1>3, <1>4, <1>5, <1>6, <1>7, <1>8, CommitKeeps, SurroundingsKeep
     DEF Next, Step

\* The inductive invariant holds in every reachable state.
THEOREM EarnInvariant == Spec => []EarnInv
  BY InitEarn, NextEarn, PTL DEF Spec

\* Every variable keeps its type: in particular no handler comes to a fourth attempt.
THEOREM EarnTyped == Spec => []TypeOK
<1>1. EarnInv => TypeOK  BY DEF EarnInv
<1> QED
  BY <1>1, EarnInvariant, PTL

\* The earn handler captures a receipt at most once, for any number of racing
\* requests and attempts.
THEOREM CapturedOnce == Spec => []ReceiptCapturedOnce
<1>1. EarnInv => ReceiptCapturedOnce
  BY DEF EarnInv
<1> QED
  BY <1>1, EarnInvariant, PTL

\* The answers of the earn handler are truthful, for any number of racing requests.
THEOREM RepliesTruthful == Spec => []RepliesTellTheTruth
<1>1. EarnInv => RepliesTellTheTruth
  BY DEF EarnInv
<1> QED
  BY <1>1, EarnInvariant, PTL

\* An answer given without touching the tables is a replay or a refusal of the
\* promised service.
LEMMA AnswerPromised ==
  ASSUME EarnInv, NEW q \in Requests, NEW from \in Steps \ {"answered"},
         NEW a \in Refusals, Answer(q, from, a), UNCHANGED <<outcome, record, elsewhere>>,
         a = "RECEIPT_ALREADY_USED" => Used(Receipt(q)),
         a = "IDEMPOTENCY_CONFLICT" =>
           \E p \in Requests : Captured(p) /\ SameKey(p, q) /\ ~SamePayload(p, q)
  PROVE  Promise!Next
<1>1. reply[q] = NotYet /\ reply' = [reply EXCEPT ![q] = a]
  BY DEF Answer, Goto, EarnInv, AnsweredAtTheEnd
<1>2. Promise!Answer(q, a)
  BY <1>1 DEF Promise!Answer, Promise!NotYet, NotYet
<1>3. Promise!Refuse(q, a)
  BY <1>2 DEF Promise!Refuse, Promise!Used, Promise!Captured, Used, Captured,
              Promise!NotYet, NotYet, Promise!Receipt, Receipt, Promise!SameKey,
              SameKey, Promise!SamePayload, SamePayload
<1> QED
  BY <1>3 DEF Promise!Next, Promise!Refusals, Refusals

\* So is a replay of a stored answer.
LEMMA ReplayPromised ==
  ASSUME EarnInv, NEW q \in Requests, NEW from \in Steps \ {"answered"},
         ReplayFrom(q, from)
  PROVE  Promise!Next
<1>1. PICK p \in ReplaysFor(q) : Answer(q, from, outcome[p]) /\ UNCHANGED <<tries, tables>>
  BY DEF ReplayFrom
<1>2. reply[q] = NotYet /\ reply' = [reply EXCEPT ![q] = outcome[p]]
  BY <1>1 DEF Answer, Goto, EarnInv, AnsweredAtTheEnd
<1>3. Promise!Answer(q, outcome[p])
  BY <1>2 DEF Promise!Answer, Promise!NotYet, NotYet
<1>4. Promise!Replay(q)
  BY <1>1, <1>3 DEF Promise!Replay, ReplaysFor, tables, Promise!SamePayload, SamePayload
<1> QED
  BY <1>4 DEF Promise!Next

\* Every step of the handlers is one step of the promised service, or none.
LEMMA StepPromised == EarnInv /\ [Next]_vars => [Promise!Next]_(Promise!vars)
<1> SUFFICES ASSUME EarnInv, [Next]_vars
             PROVE  Promise!Next \/ UNCHANGED <<outcome, record, elsewhere, reply>>
  BY DEF Promise!vars
<1>a. {"unsent", "received", "cleaned", "checked", "open", "duplicate",
       "receiptConflict", "keyConflict", "transactionConflict"} \subseteq Steps \ {"answered"}
  BY DEF Steps
<1>1. ASSUME NEW q \in Requests, LookUp(q)
      PROVE  Promise!Next \/ UNCHANGED <<outcome, record, elsewhere, reply>>
  <2>1. CASE ReplayFrom(q, "cleaned")
    BY <1>a, <2>1, ReplayPromised
  <2>2. CASE /\ record[KeyOf[q]] # None /\ ReplaysFor(q) = {}
             /\ Answer(q, "cleaned", "IDEMPOTENCY_CONFLICT") /\ UNCHANGED <<tries, tables>>
    <3>1. UNCHANGED <<outcome, record, elsewhere>> /\ "IDEMPOTENCY_CONFLICT" \in Refusals
      BY <2>2 DEF tables, Refusals
    <3> QED
      BY <1>a, <2>2, <3>1, TakenByAnotherBody, AnswerPromised
  <2>3. CASE Answer(q, "cleaned", "REJECTED") /\ UNCHANGED <<tries, tables>>
    <3>1. UNCHANGED <<outcome, record, elsewhere>> /\ "REJECTED" \in Refusals
      BY <2>3 DEF tables, Refusals
    <3> QED
      BY <1>a, <2>3, <3>1, AnswerPromised
  <2> QED
    BY <1>1, <2>1, <2>2, <2>3 DEF LookUp, tables
<1>2. ASSUME NEW q \in Requests, Open(q)
      PROVE  Promise!Next \/ UNCHANGED <<outcome, record, elsewhere, reply>>
  <2>1. CASE Answer(q, "checked", "REJECTED")
    <3>1. UNCHANGED <<outcome, record, elsewhere>> /\ "REJECTED" \in Refusals
      BY <1>2 DEF Open, tables, Refusals
    <3> QED
      BY <1>a, <2>1, <3>1, AnswerPromised
  <2> QED
    BY <1>2, <2>1 DEF Open, tables
<1>3. ASSUME NEW q \in Requests, NEW a \in Captures, Commit(q, a) PROVE Promise!Next
  <2>1. ~Used(Receipt(q)) /\ record[KeyOf[q]] = None
    BY <1>3 DEF Commit, Clash
  <2>2. reply[q] = NotYet
    BY <1>3 DEF Commit, Answer, Goto, EarnInv, AnsweredAtTheEnd
  <2>3. Promise!Answer(q, a)
    BY <1>3, <2>2 DEF Commit, Answer, Promise!Answer, Promise!NotYet, NotYet
  <2>4. Promise!Capture(q, a)
    BY <1>3, <2>1, <2>3
       DEF Commit, Promise!Capture, Promise!Used, Promise!Captured, Used, Captured,
           Promise!NotYet, NotYet, Promise!Receipt, Receipt
  <2> QED
    BY <2>4 DEF Promise!Next, Promise!Captures, Captures
<1>4. ASSUME NEW q \in Requests, ResolveKeyConflict(q) PROVE Promise!Next
  <2>1. CASE ReplayFrom(q, "keyConflict")
    BY <1>a, <2>1, ReplayPromised
  <2>2. CASE Answer(q, "keyConflict", "IDEMPOTENCY_CONFLICT") /\ UNCHANGED <<tries, tables>>
    <3>1. UNCHANGED <<outcome, record, elsewhere>> /\ "IDEMPOTENCY_CONFLICT" \in Refusals
      BY <2>2 DEF tables, Refusals
    <3>2. \E p \in Requests : Captured(p) /\ SameKey(p, q) /\ ~SamePayload(p, q)
      BY <2>2 DEF Answer, Goto, EarnInv, ConflictsAreReal
    <3> QED
      BY <1>a, <2>2, <3>1, <3>2, AnswerPromised
  <2> QED
    BY <1>4, <2>1, <2>2 DEF ResolveKeyConflict
<1>5. ASSUME NEW q \in Requests, ResolveReceiptConflict(q)
      PROVE  Promise!Next \/ UNCHANGED <<outcome, record, elsewhere, reply>>
  BY <1>5, <1>a, ReplayPromised DEF ResolveReceiptConflict, tables
<1>6. ASSUME NEW q \in Requests, ResolveTransactionConflict(q)
      PROVE  Promise!Next \/ UNCHANGED <<outcome, record, elsewhere, reply>>
  <2>1. CASE ReplayFrom(q, "transactionConflict")
    BY <1>a, <2>1, ReplayPromised
  <2>2. CASE /\ Answer(q, "transactionConflict", "EARN_TRANSACTION_CONFLICT")
             /\ UNCHANGED <<tries, tables>>
    <3>1. UNCHANGED <<outcome, record, elsewhere>> /\ "EARN_TRANSACTION_CONFLICT" \in Refusals
      BY <2>2 DEF tables, Refusals
    <3> QED
      BY <1>a, <2>2, <3>1, AnswerPromised
  <2> QED
    BY <1>6, <2>1, <2>2 DEF ResolveTransactionConflict, tables
<1>7. ASSUME NEW q \in Requests, RefuseDuplicate(q) PROVE Promise!Next
  <2>1. Used(Receipt(q)) /\ "RECEIPT_ALREADY_USED" \in Refusals
    BY <1>7 DEF RefuseDuplicate, Answer, Goto, EarnInv, ConflictsAreReal, Refusals
  <2>2. /\ Answer(q, "duplicate", "RECEIPT_ALREADY_USED")
        /\ UNCHANGED <<outcome, record, elsewhere>>
    BY <1>7 DEF RefuseDuplicate
  <2> QED
    BY <1>a, <2>1, <2>2, AnswerPromised
<1>8. ASSUME NEW q \in Requests, Cleanup(q)
      PROVE  Promise!Next \/ UNCHANGED <<outcome, record, elsewhere, reply>>
  <2>1. KeyOf[q] \in Keys /\ record \in [Keys -> Requests \cup {None}]
    BY RequestsAssumption DEF EarnInv, TypeOK
  <2>2. record' = record \/ Promise!Forget(KeyOf[q])
    BY <1>8, <2>1 DEF Cleanup, Promise!Forget
  <2> QED
    BY <1>8, <2>1, <2>2 DEF Cleanup, Promise!Next
<1>9. ASSUME NEW r \in Receipts, SettleElsewhere(r) PROVE Promise!Next
  BY <1>9 DEF SettleElsewhere, Promise!SettleElsewhere, Promise!Next, Promise!Used,
              Promise!Captured, Used, Captured, Promise!NotYet, NotYet,
              Promise!Receipt, Receipt
<1> QED
  BY <1>1, <1>2, <1>3, <1>4, <1>5, <1>6, <1>7, <1>8, <1>9
     DEF Next, Step, vars, Receive, Abort, Lose, Lapse, ChangeEligibility, tables

\* LoyaltyService.earn, with its interleavings, conflicts and retries, implements
\* the service that answers every request in one step.
THEOREM EarnImplementsService == Spec => Implements
<1>1. Init => Promise!Init
  BY DEF Init, Promise!Init, Promise!NotYet, NotYet
<1> QED
  BY <1>1, StepPromised, EarnInvariant, PTL DEF Spec, Implements, Promise!Spec

\* Only the cleanup of an expired record removes the stored answer of a key.
THEOREM RecordsKept == Spec => RecordsKeptForLife
<1> DEFINE Kept == \A k \in Keys : record[k] # None /\ record'[k] # record[k]
                                  => k \in stale /\ record'[k] = None
<1>1. EarnInv /\ [Next]_vars => Kept
  <2> SUFFICES ASSUME EarnInv, [Next]_vars PROVE Kept
    OBVIOUS
  <2>1. record \in [Keys -> Requests \cup {None}] /\ \A q \in Requests : KeyOf[q] \in Keys
    BY RequestsAssumption DEF EarnInv, TypeOK
  <2>2. ASSUME NEW q \in Requests, Cleanup(q) PROVE Kept
    BY <2>1, <2>2 DEF Cleanup, ExpiredRecord
  <2>3. ASSUME NEW q \in Requests, NEW a \in Captures, Commit(q, a) PROVE Kept
    <3>1. record[KeyOf[q]] = None /\ record' = [record EXCEPT ![KeyOf[q]] = q]
      BY <2>3 DEF Commit, Clash
    <3> QED
      BY <2>1, <3>1
  <2>4. CASE record' = record
    BY <2>4
  <2> QED
    BY <2>2, <2>3, <2>4
       DEF Next, Step, vars, tables, Receive, LookUp, ReplayFrom, Open, Abort,
           ResolveKeyConflict, ResolveReceiptConflict, ResolveTransactionConflict,
           RefuseDuplicate, Lose, Lapse, SettleElsewhere, ChangeEligibility
<1> QED
  BY <1>1, EarnInvariant, PTL DEF Spec, RecordsKeptForLife
=============================================================================
