---------------------- MODULE FinancialRequestsProofs ----------------------
(***************************************************************************)
(* Proofs about FinancialRequests for any number of redemptions,           *)
(* adjustments and reversals, any mix of keys, bodies, receipts and        *)
(* targets, and any retry bound.  Liveness is left to TLC.                 *)
(***************************************************************************)
EXTENDS FinancialRequests, TLAPS

-----------------------------------------------------------------------------
(* The inductive invariant.  Beside the properties it says where a request  *)
(* stands when it has been answered, how many attempts it has left, and what *)
(* the stored records and the pending settlements are.                       *)

\* A request that has taken effect or has a reply is answered, with what it committed.
EffectIsTheAnswer ==
  \A q \in Requests : /\ reply[q] # NotYet => pc[q] = "answered"
                      /\ Committed(q) => pc[q] = "answered" /\ reply[q] = outcome[q]

\* A request at "checked" may still open a transaction.
AttemptsLeft ==
  \A q \in Requests : /\ pc[q] \in {"unsent", "received", "cleaned"} => tries[q] = 0
                      /\ pc[q] = "checked" => tries[q] < Attempts

\* Only a redemption becomes a duplicate, or waits for approval.
RedemptionsOnly ==
  \A q \in Requests :
    pc[q] \in {"duplicate", "receiptConflict"} \/ outcome[q] = "PENDING_APPROVAL"
    => KindOf[q] = "redeem"

\* A record was written by a committed request of its endpoint and key.
RecordsOfEffects ==
  \A s \in Slots : record[s] # None => Committed(record[s]) /\ Slot(record[s]) = s

\* A request on its way to a refusal for a used receipt or a taken key has met one.
ConflictsAreReal ==
  \A q \in Requests :
    /\ pc[q] \in {"duplicate", "receiptConflict"} => Used(ReceiptOf[q])
    /\ pc[q] = "keyConflict" => Reasoned(q, "IDEMPOTENCY_CONFLICT")

Inv == /\ TypeOK /\ EffectIsTheAnswer /\ AttemptsLeft /\ RedemptionsOnly
       /\ RecordsOfEffects /\ ConflictsAreReal /\ EffectOnce /\ TargetTakenOnce /\ RepliesTellTheTruth

-----------------------------------------------------------------------------
\* What the requests ask for is well typed, and equal bodies ask for the same.
LEMMA AskingTyped ==
  ASSUME TypeOK
  PROVE  /\ KindOf \in [Requests -> Kinds] /\ KeyOf \in [Requests -> Keys]
         /\ ReceiptOf \in [Requests -> Receipts] /\ TargetOf \in [Requests -> Requests]
         /\ \A q \in Requests : Slot(q) \in Slots
         /\ \A p, q \in Requests : SamePayload(p, q) =>
              KindOf[p] = KindOf[q] /\ ReceiptOf[p] = ReceiptOf[q] /\ TargetOf[p] = TargetOf[q]
<1>1. asks \in Asking
  BY FinancialAssumption DEF TypeOK
<1>2. KindOf \in [Requests -> Kinds] /\ KeyOf \in [Requests -> Keys]
      /\ ReceiptOf \in [Requests -> Receipts] /\ TargetOf \in [Requests -> Requests]
  BY <1>1 DEF Asking, KindOf, KeyOf, ReceiptOf, TargetOf
<1>3. \A q \in Requests : Slot(q) \in Slots
  BY <1>2 DEF Slot, Slots
<1>4. \A p, q \in Requests : SamePayload(p, q) =>
              KindOf[p] = KindOf[q] /\ ReceiptOf[p] = ReceiptOf[q] /\ TargetOf[p] = TargetOf[q]
  BY FinancialAssumption DEF TypeOK, SamePayload, PayloadOf, KindOf, ReceiptOf, TargetOf
<1> QED
  BY <1>2, <1>3, <1>4

\* The facts about committed rows do not depend on where the requests stand.
LEMMA TablesKept ==
  ASSUME Inv, UNCHANGED <<asks, outcome, record, elsewhere>>
  PROVE  RecordsOfEffects' /\ EffectOnce' /\ TargetTakenOnce'
BY DEF Inv, RecordsOfEffects, EffectOnce, TargetTakenOnce, Committed, Slot, Slots, SamePayload,
       OfKind, KindOf, KeyOf, PayloadOf, ReceiptOf, TargetOf

\* What a refusal claims stays true as long as no effect and no captured receipt is lost.
LEMMA ReasonsKept ==
  ASSUME asks' = asks, NEW q \in Requests,
         \A p \in Requests : Committed(p) => Committed(p)',
         elsewhere \subseteq elsewhere'
  PROVE  /\ Used(ReceiptOf[q]) => (Used(ReceiptOf[q]))'
         /\ \A a : Reasoned(q, a) => Reasoned(q, a)'
<1>1. /\ KindOf' = KindOf /\ KeyOf' = KeyOf /\ PayloadOf' = PayloadOf
      /\ ReceiptOf' = ReceiptOf /\ TargetOf' = TargetOf
  BY DEF KindOf, KeyOf, PayloadOf, ReceiptOf, TargetOf
<1>2. Used(ReceiptOf[q]) => (Used(ReceiptOf[q]))'
  BY <1>1 DEF Used, OfKind
<1>3. AlreadyReversed(q) => AlreadyReversed(q)'
  BY <1>1 DEF AlreadyReversed, ReversedBy, OfKind
<1>4. ASSUME NEW p \in Requests, Committed(p), Slot(p) = Slot(q), ~SamePayload(p, q)
      PROVE  Committed(p)' /\ (Slot(p) = Slot(q))' /\ ~SamePayload(p, q)'
  BY <1>1, <1>4 DEF Slot, SamePayload
<1> QED
  BY <1>1, <1>2, <1>3, <1>4 DEF Reasoned

\* A record of the key with another body is the reason of a conflict.
LEMMA OtherBodyIsReason ==
  ASSUME Inv, NEW q \in Requests, OtherBody(q)
  PROVE  Reasoned(q, "IDEMPOTENCY_CONFLICT")
<1>1. Slot(q) \in Slots
  BY AskingTyped DEF Inv
<1>2. PICK p \in Requests : record[Slot(q)] = p
  BY <1>1 DEF OtherBody, Inv, TypeOK
<1>3. Committed(p) /\ Slot(p) = Slot(q)
  BY <1>1, <1>2, FinancialAssumption DEF Inv, RecordsOfEffects
<1>4. ~SamePayload(p, q)
  BY <1>2 DEF OtherBody, ReplaysFor
<1> QED
  BY <1>3, <1>4 DEF Reasoned

\* A step that moves one request on and writes nothing.
LEMMA MovePreserves ==
  ASSUME Inv, UNCHANGED <<asks, reply, tables>>,
         NEW q \in Requests, pc[q] # "answered",
         NEW to \in Steps, pc' = [pc EXCEPT ![q] = to],
         to \in {"duplicate", "receiptConflict"} => KindOf[q] = "redeem" /\ Used(ReceiptOf[q]),
         to = "keyConflict" => Reasoned(q, "IDEMPOTENCY_CONFLICT"),
         tries' \in [Requests -> 0 .. Attempts],
         \A p \in Requests \ {q} : tries'[p] = tries[p],
         to \in {"unsent", "received", "cleaned"} => tries'[q] = 0,
         to = "checked" => tries'[q] < Attempts
  PROVE  Inv'
<1>1. TypeOK'
  BY DEF Inv, TypeOK, tables, OfKind, KindOf
<1>2. EffectIsTheAnswer'
  BY DEF Inv, TypeOK, tables, EffectIsTheAnswer, Committed
<1>3. AttemptsLeft'
  BY DEF Inv, TypeOK, AttemptsLeft
<1>4. RedemptionsOnly'
  BY DEF Inv, TypeOK, tables, RedemptionsOnly, KindOf
<1>5. ASSUME NEW p \in Requests
      PROVE  /\ Used(ReceiptOf[p]) => (Used(ReceiptOf[p]))'
             /\ \A a : Reasoned(p, a) => Reasoned(p, a)'
  BY ReasonsKept DEF tables, Committed
<1>6. RepliesTellTheTruth'
  BY <1>5 DEF Inv, tables, RepliesTellTheTruth, Committed, Slot, SamePayload, KindOf, KeyOf,
              PayloadOf
<1>7. ConflictsAreReal'
  BY <1>5 DEF Inv, TypeOK, ConflictsAreReal
<1> QED
  BY <1>1, <1>2, <1>3, <1>4, <1>6, <1>7, TablesKept DEF Inv, tables

\* A step that answers one request and changes no committed row: the answer is a
\* refusal for a true reason, or that of a request with the same key and body.
LEMMA AnswerPreserves ==
  ASSUME Inv, UNCHANGED <<asks, outcome, record, stale, elsewhere, approved>>,
         NEW q \in Requests, NEW from, from # "answered", NEW a, Answer(q, from, a),
         \/ a \in Refusals /\ Reasoned(q, a)
         \/ a \in Effects /\ \E p \in Requests :
                               Slot(p) = Slot(q) /\ SamePayload(p, q) /\ outcome[p] = a,
         evidence' \subseteq OfKind("redeem"),
         tries' \in [Requests -> 0 .. Attempts],
         \A p \in Requests \ {q} : tries'[p] = tries[p]
  PROVE  Inv'
<1> USE DEF Answer, Goto
<1>0. ~Committed(q) /\ a # NotYet
  BY DEF Inv, EffectIsTheAnswer, Refusals, Effects, NotYet
<1>1. TypeOK'
  BY DEF Inv, TypeOK, Steps, OfKind, KindOf
<1>2. EffectIsTheAnswer'
  BY <1>0 DEF Inv, TypeOK, EffectIsTheAnswer, Committed
<1>3. AttemptsLeft'
  BY DEF Inv, TypeOK, AttemptsLeft
<1>4. RedemptionsOnly'
  BY DEF Inv, TypeOK, RedemptionsOnly, KindOf
<1>5. ASSUME NEW p \in Requests
      PROVE  /\ Used(ReceiptOf[p]) => (Used(ReceiptOf[p]))'
             /\ \A b : Reasoned(p, b) => Reasoned(p, b)'
  BY ReasonsKept DEF Committed
<1>6. Reasoned(q, a)
  BY DEF Reasoned, Effects
<1>7. ASSUME NEW p \in Requests PROVE Reasoned(p, reply[p])'
  <2>1. reply'[p] = IF p = q THEN a ELSE reply[p]
    BY DEF Inv, TypeOK
  <2>2. Reasoned(p, reply[p])
    BY DEF Inv, RepliesTellTheTruth
  <2>3. Reasoned(p, reply'[p])
    BY <1>6, <2>1, <2>2
  <2> QED
    BY <1>5, <2>3 DEF Reasoned
<1>8. ASSUME NEW p \in Requests
      PROVE  /\ reply'[p] \in Effects =>
                  \E x \in Requests : Slot(x) = Slot(p) /\ SamePayload(x, p) /\ outcome[x] = reply'[p]
             /\ reply'[p] \in Refusals => ~Committed(p)
  BY <1>0 DEF Inv, TypeOK, RepliesTellTheTruth, Refusals, Effects
<1>9. RepliesTellTheTruth'
  BY <1>7, <1>8 DEF RepliesTellTheTruth, Committed, Slot, SamePayload, KindOf, KeyOf, PayloadOf
<1>10. ConflictsAreReal'
  BY <1>5 DEF Inv, TypeOK, ConflictsAreReal
<1> QED
  BY <1>1, <1>2, <1>3, <1>4, <1>9, <1>10, TablesKept DEF Inv

\* A stored record of the same body is the answer of a request of that body and key.
LEMMA ReplayIsTrue ==
  ASSUME Inv, NEW q \in Requests, NEW p \in ReplaysFor(q)
  PROVE  /\ outcome[p] \in Effects
         /\ \E x \in Requests : Slot(x) = Slot(q) /\ SamePayload(x, q) /\ outcome[x] = outcome[p]
<1>1. p \in Requests /\ record[Slot(q)] = p /\ SamePayload(p, q) /\ Slot(q) \in Slots
  BY AskingTyped DEF ReplaysFor, Inv
<1>2. Committed(p) /\ Slot(p) = Slot(q)
  BY <1>1, FinancialAssumption DEF Inv, RecordsOfEffects
<1> QED
  BY <1>1, <1>2 DEF Inv, TypeOK, Committed

LEMMA ReplayPreserves ==
  ASSUME Inv, asks' = asks, NEW q \in Requests, NEW from, from # "answered", Replay(q, from)
  PROVE  Inv'
<1>1. PICK p \in ReplaysFor(q) : Answer(q, from, outcome[p]) /\ UNCHANGED <<tries, tables>>
  BY DEF Replay
<1> QED
  BY <1>1, ReplayIsTrue, AnswerPreserves DEF tables, Inv, TypeOK, OfKind, KindOf

LEMMA RefusePreserves ==
  ASSUME Inv, asks' = asks, NEW q \in Requests, NEW from, from # "answered",
         NEW a \in Refusals, Reasoned(q, a), Refuse(q, from, a)
  PROVE  Inv'
BY AnswerPreserves DEF Refuse, tables, Inv, TypeOK, OfKind, KindOf

-----------------------------------------------------------------------------
(* One lemma per action. *)

LEMMA ReceivePreserves ==
  ASSUME Inv, asks' = asks, NEW q \in Requests, Receive(q)
  PROVE  Inv'
<1>1. pc[q] # "answered" /\ "received" \in Steps /\ tries[q] = 0
  BY DEF Receive, Goto, Steps, Inv, AttemptsLeft
<1> QED
  BY <1>1, MovePreserves DEF Receive, Goto, Inv, TypeOK

LEMMA LosePreserves ==
  ASSUME Inv, asks' = asks, NEW q \in Requests, Lose(q)
  PROVE  Inv'
BY MovePreserves DEF Lose, Steps, Inv, TypeOK

LEMMA CleanupPreserves ==
  ASSUME Inv, asks' = asks, NEW q \in Requests, Cleanup(q)
  PROVE  Inv'
<1> USE DEF Cleanup, Goto
<1>1. TypeOK'
  BY DEF Inv, TypeOK, Steps, OfKind, KindOf
<1>2. EffectIsTheAnswer'
  BY DEF Inv, TypeOK, EffectIsTheAnswer, Committed
<1>3. AttemptsLeft'
  BY DEF Inv, TypeOK, AttemptsLeft
<1>4. RedemptionsOnly'
  BY DEF Inv, TypeOK, RedemptionsOnly, KindOf
<1>5. RepliesTellTheTruth' /\ ConflictsAreReal'
  <2>1. ASSUME NEW p \in Requests
        PROVE  /\ Used(ReceiptOf[p]) => (Used(ReceiptOf[p]))'
               /\ \A a : Reasoned(p, a) => Reasoned(p, a)'
    BY ReasonsKept DEF Committed
  <2>2. RepliesTellTheTruth'
    BY <2>1 DEF Inv, RepliesTellTheTruth, Committed, Slot, SamePayload, KindOf, KeyOf, PayloadOf
  <2>3. ConflictsAreReal'
    BY <2>1 DEF Inv, TypeOK, ConflictsAreReal
  <2> QED
    BY <2>2, <2>3
<1>6. RecordsOfEffects'
  BY DEF Inv, RecordsOfEffects, Committed, Slot, Slots, KindOf, KeyOf
<1>7. EffectOnce' /\ TargetTakenOnce'
  BY DEF Inv, EffectOnce, TargetTakenOnce, Committed, SamePayload, OfKind, KindOf, PayloadOf,
         ReceiptOf, TargetOf
<1> QED
  BY <1>1, <1>2, <1>3, <1>4, <1>5, <1>6, <1>7 DEF Inv

LEMMA LookUpPreserves ==
  ASSUME Inv, asks' = asks, NEW q \in Requests, LookUp(q)
  PROVE  Inv'
<1>1. CASE Replay(q, "cleaned")
  BY <1>1, ReplayPreserves
<1>2. CASE OtherBody(q) /\ Refuse(q, "cleaned", "IDEMPOTENCY_CONFLICT")
  BY <1>2, OtherBodyIsReason, RefusePreserves DEF Refusals
<1>3. CASE Goto(q, "cleaned", "checked") /\ UNCHANGED <<tries, tables, reply>>
  <2>1. pc[q] = "cleaned" /\ "checked" \in Steps /\ tries[q] < Attempts
    BY <1>3, FinancialAssumption DEF Goto, Steps, Inv, AttemptsLeft
  <2> QED
    BY <1>3, <2>1, MovePreserves DEF Goto, Inv, TypeOK
<1> QED
  BY <1>1, <1>2, <1>3 DEF LookUp

LEMMA OpenPreserves ==
  ASSUME Inv, asks' = asks, NEW q \in Requests, Open(q)
  PROVE  Inv'
<1>1. pc[q] = "checked"
  BY DEF Open, OpenRedeem, OpenAdjust, OpenReverse, Answer, Goto
<1>2. /\ tries' \in [Requests -> 0 .. Attempts]
      /\ \A p \in Requests \ {q} : tries'[p] = tries[p]
  BY <1>1, FinancialAssumption DEF Open, Inv, TypeOK, AttemptsLeft
<1>3. UNCHANGED tables /\ evidence' \subseteq OfKind("redeem")
  BY DEF Open, tables, Inv, TypeOK, OfKind
<1>4. ASSUME NEW a \in Refusals, Reasoned(q, a), Answer(q, "checked", a)
      PROVE  Inv'
  BY <1>2, <1>3, <1>4, AnswerPreserves DEF tables
<1>5. ASSUME NEW p \in ReplaysFor(q), Answer(q, "checked", outcome[p])
      PROVE  Inv'
  BY <1>2, <1>3, <1>5, ReplayIsTrue, AnswerPreserves DEF tables
<1>6. ASSUME Goto(q, "checked", "open"), UNCHANGED reply
      PROVE  Inv'
  BY <1>1, <1>2, <1>3, <1>6, MovePreserves DEF Goto, Steps, tables
<1>7. ASSUME KindOf[q] = "redeem", Used(ReceiptOf[q]), Goto(q, "checked", "duplicate"),
             UNCHANGED reply
      PROVE  Inv'
  BY <1>1, <1>2, <1>3, <1>7, MovePreserves DEF Goto, Steps, tables
<1>a. /\ {"REJECTED", "REVIEW_REQUIRED", "IDEMPOTENCY_CONFLICT", "ALREADY_REVERSED"}
           \subseteq Refusals
      /\ Reasoned(q, "REJECTED") /\ Reasoned(q, "REVIEW_REQUIRED")
      /\ AlreadyReversed(q) => Reasoned(q, "ALREADY_REVERSED")
  BY DEF Refusals, Reasoned
<1>b. OtherBody(q) => Reasoned(q, "IDEMPOTENCY_CONFLICT")
  BY OtherBodyIsReason
<1>8. CASE OpenRedeem(q)
  BY <1>4, <1>6, <1>7, <1>8, <1>a DEF OpenRedeem
<1>9. CASE OpenAdjust(q)
  BY <1>4, <1>6, <1>9, <1>a DEF OpenAdjust
<1>10. CASE OpenReverse(q)
  BY <1>4, <1>5, <1>6, <1>10, <1>a, <1>b DEF OpenReverse
<1> QED
  BY <1>8, <1>9, <1>10 DEF Open

\* What an empty Clash means: no committed request has this body, and none has taken
\* the receipt or the entry.
LEMMA NoClash ==
  ASSUME Inv, NEW q \in Requests, Clash(q) = {}
  PROVE  /\ \A p \in Requests : Committed(p) => ~SamePayload(p, q)
         /\ KindOf[q] = "redeem" => ~Used(ReceiptOf[q])
         /\ KindOf[q] = "reverse" => ~AlreadyReversed(q)
<1>1. KindOf[q] \in Kinds
  BY AskingTyped DEF Inv
<1>2. KindOf[q] = "redeem" => ~Used(ReceiptOf[q])
  BY DEF Clash
<1>3. KindOf[q] \in {"adjust", "reverse"} => ~CorrelationTaken(q)
  BY DEF Clash
<1>4. KindOf[q] = "reverse" => ~AlreadyReversed(q)
  BY DEF Clash
<1>5. KindOf[q] = "redeem" => \A p \in Requests : Committed(p) => ~SamePayload(p, q)
  BY <1>2, AskingTyped DEF Used, OfKind, Inv
<1> QED
  BY <1>1, <1>2, <1>3, <1>4, <1>5 DEF Kinds, CorrelationTaken

LEMMA CommitPreserves ==
  ASSUME Inv, asks' = asks, NEW q \in Requests, NEW a \in EffectsOf(q), Commit(q, a)
  PROVE  Inv'
<1> USE DEF Commit, Answer, Goto
<1>0. /\ a \in Effects /\ a # NotYet /\ ~Committed(q) /\ Slot(q) \in Slots
      /\ a = "PENDING_APPROVAL" => KindOf[q] = "redeem"
  BY AskingTyped DEF EffectsOf, Effects, NotYet, Inv, EffectIsTheAnswer
<1>a. \A p \in Requests : Committed(p)' <=> Committed(p) \/ p = q
  BY <1>0 DEF Committed, Inv, TypeOK
<1>1. TypeOK'
  BY <1>0 DEF Inv, TypeOK, Steps, OfKind, KindOf
<1>2. EffectIsTheAnswer'
  BY <1>0, <1>a DEF Inv, TypeOK, EffectIsTheAnswer
<1>3. AttemptsLeft'
  BY DEF Inv, TypeOK, AttemptsLeft
<1>4. RedemptionsOnly'
  BY <1>0 DEF Inv, TypeOK, RedemptionsOnly, KindOf
<1>b. ASSUME NEW p \in Requests
      PROVE  /\ Used(ReceiptOf[p]) => (Used(ReceiptOf[p]))'
             /\ \A b : Reasoned(p, b) => Reasoned(p, b)'
  BY <1>a, ReasonsKept
<1>c. ConflictsAreReal'
  BY <1>b DEF Inv, TypeOK, ConflictsAreReal
<1>5. RepliesTellTheTruth'
  <2>1. \A p \in Requests : p # q => outcome'[p] = outcome[p] /\ reply'[p] = reply[p]
    BY DEF Inv, TypeOK
  <2>2. outcome'[q] = a /\ reply'[q] = a
    BY DEF Inv, TypeOK
  <2>3. \A x, y \in Requests : (Slot(x) = Slot(y))' <=> Slot(x) = Slot(y)
    BY DEF Slot, KindOf, KeyOf
  <2>4. \A x, y \in Requests : SamePayload(x, y)' <=> SamePayload(x, y)
    BY DEF SamePayload, PayloadOf
  <2>5. SamePayload(q, q)
    BY DEF SamePayload
  <2>6. \A p \in Requests : outcome[p] \in Effects => p # q
    BY <1>0 DEF Committed, Effects, NotYet
  <2>7. a \notin Refusals
    BY <1>0 DEF Effects, Refusals
  <2>8. ASSUME NEW p \in Requests PROVE Reasoned(p, reply[p])'
    <3>1. CASE p = q
      BY <1>0, <2>2, <3>1 DEF Reasoned, Effects
    <3>2. CASE p # q
      BY <1>b, <2>1, <3>2 DEF Inv, RepliesTellTheTruth, Reasoned
    <3> QED
      BY <3>1, <3>2
  <2>9. ASSUME NEW p \in Requests
        PROVE  /\ reply'[p] \in Effects =>
                    \E x \in Requests : /\ (Slot(x) = Slot(p))' /\ SamePayload(x, p)'
                                         /\ outcome'[x] = reply'[p]
               /\ reply'[p] \in Refusals => ~Committed(p)'
    BY <1>0, <1>a, <2>1, <2>2, <2>3, <2>4, <2>5, <2>6, <2>7 DEF Inv, RepliesTellTheTruth
  <2> QED
    BY <2>8, <2>9 DEF RepliesTellTheTruth
<1>6. RecordsOfEffects'
  <2>1. \A s \in Slots : record'[s] = IF s = Slot(q) THEN q ELSE record[s]
    BY <1>0 DEF Inv, TypeOK
  <2>2. \A p \in Requests : Slot(p)' = Slot(p)
    BY DEF Slot, KindOf, KeyOf
  <2>3. \A s \in Slots : record[s] # None => record[s] \in Requests
    BY DEF Inv, TypeOK
  <2> QED
    BY <1>a, <2>1, <2>2, <2>3 DEF Inv, RecordsOfEffects, Slots
<1>7. EffectOnce'
  BY <1>a, NoClash DEF Inv, EffectOnce, SamePayload, PayloadOf
<1>8. TargetTakenOnce'
  <2>1. /\ KindOf' = KindOf /\ ReceiptOf' = ReceiptOf /\ TargetOf' = TargetOf
        /\ \A k : OfKind(k)' = OfKind(k)
    BY DEF KindOf, ReceiptOf, TargetOf, OfKind
  <2>2. KindOf[q] = "redeem" =>
           /\ ReceiptOf[q] \notin elsewhere
           /\ \A p \in OfKind("redeem") : Committed(p) => ReceiptOf[p] # ReceiptOf[q]
    BY NoClash DEF Used
  <2>3. KindOf[q] = "reverse" =>
           \A p \in OfKind("reverse") : Committed(p) => TargetOf[p] # TargetOf[q]
    BY NoClash DEF AlreadyReversed, ReversedBy
  <2>4. \A k : \A p \in OfKind(k) : p \in Requests /\ KindOf[p] = k
    BY DEF OfKind
  <2> QED
    BY <1>a, <2>1, <2>2, <2>3, <2>4 DEF Inv, TargetTakenOnce
<1> QED
  BY <1>1, <1>2, <1>3, <1>4, <1>5, <1>6, <1>7, <1>8, <1>c DEF Inv

\* A redemption whose receipt is free but whose key is taken meets another body: an
\* equal one names the same receipt.
LEMMA TakenByAnotherBody ==
  ASSUME Inv, NEW q \in Requests, KindOf[q] = "redeem", ~Used(ReceiptOf[q]), KeyTaken(q)
  PROVE  Reasoned(q, "IDEMPOTENCY_CONFLICT")
<1>1. Slot(q) \in Slots /\ \A p \in Requests : SamePayload(p, q) =>
                             KindOf[p] = KindOf[q] /\ ReceiptOf[p] = ReceiptOf[q]
  BY AskingTyped DEF Inv
<1>2. PICK p \in Requests : record[Slot(q)] = p
  BY <1>1 DEF KeyTaken, Inv, TypeOK
<1>3. Committed(p) /\ Slot(p) = Slot(q)
  BY <1>1, <1>2, FinancialAssumption DEF Inv, RecordsOfEffects
<1>4. ~SamePayload(p, q)
  BY <1>1, <1>3 DEF Used, OfKind
<1> QED
  BY <1>3, <1>4 DEF Reasoned

LEMMA AbortPreserves ==
  ASSUME Inv, asks' = asks, NEW q \in Requests, Abort(q)
  PROVE  Inv'
<1>1. PICK to \in Clash(q) \cup {"transactionConflict"} : Goto(q, "open", to)
  BY DEF Abort
<1>2. KindOf[q] \in Kinds
  BY AskingTyped DEF Inv
<1>3. /\ to \in {"receiptConflict", "keyConflict", "transactionConflict"}
      /\ to = "receiptConflict" => KindOf[q] = "redeem" /\ Used(ReceiptOf[q])
      /\ to = "keyConflict" => KindOf[q] = "redeem" /\ ~Used(ReceiptOf[q]) /\ KeyTaken(q)
  BY <1>2 DEF Clash, Kinds
<1>4. to = "keyConflict" => Reasoned(q, "IDEMPOTENCY_CONFLICT")
  BY <1>3, TakenByAnotherBody
<1> QED
  BY <1>1, <1>3, <1>4, MovePreserves DEF Abort, Goto, Steps, Inv, TypeOK

LEMMA ResolvePreserves ==
  ASSUME Inv, asks' = asks, NEW q \in Requests,
         \/ ResolveKeyConflict(q) \/ ResolveReceiptConflict(q) \/ ResolveTransactionConflict(q)
  PROVE  Inv'
<1>1. ASSUME NEW from \in {"keyConflict", "receiptConflict", "transactionConflict"},
             Replay(q, from)
      PROVE  Inv'
  BY <1>1, ReplayPreserves
<1>2. ASSUME NEW from \in {"keyConflict", "receiptConflict", "transactionConflict"},
             NEW a \in Refusals, Reasoned(q, a), Refuse(q, from, a)
      PROVE  Inv'
  BY <1>2, RefusePreserves
<1>3. ASSUME Goto(q, "receiptConflict", "duplicate"), UNCHANGED <<tries, tables, reply>>
      PROVE  Inv'
  <2>1. KindOf[q] = "redeem" /\ Used(ReceiptOf[q])
    BY <1>3 DEF Goto, Inv, RedemptionsOnly, ConflictsAreReal
  <2> QED
    BY <1>3, <2>1, MovePreserves DEF Goto, Steps, Inv, TypeOK
<1>4. ASSUME MayRetry(q), Goto(q, "transactionConflict", "checked"),
             UNCHANGED <<tries, tables, reply>>
      PROVE  Inv'
  BY <1>4, MovePreserves DEF MayRetry, Goto, Steps, Inv, TypeOK
<1>a. {"IDEMPOTENCY_CONFLICT", "TRANSACTION_CONFLICT"} \subseteq Refusals
  BY DEF Refusals
<1>5. CASE ResolveKeyConflict(q)
  <2>1. pc[q] = "keyConflict"
    BY <1>5 DEF ResolveKeyConflict, Replay, Refuse, Answer, Goto
  <2>2. Reasoned(q, "IDEMPOTENCY_CONFLICT")
    BY <2>1 DEF Inv, ConflictsAreReal
  <2> QED
    BY <1>1, <1>2, <1>5, <1>a, <2>2 DEF ResolveKeyConflict
<1>6. CASE ResolveReceiptConflict(q)
  BY <1>1, <1>3, <1>6 DEF ResolveReceiptConflict
<1>7. CASE ResolveTransactionConflict(q)
  <2>1. CASE KindOf[q] = "adjust" /\ AwaitReplay(q)
    <3>1. Reasoned(q, "IDEMPOTENCY_CONFLICT")
      BY <2>1 DEF Reasoned
    <3> QED
      BY <1>1, <1>2, <1>a, <2>1, <3>1 DEF AwaitReplay
  <2>2. CASE RetryConflict(q)
    <3>1. Reasoned(q, "TRANSACTION_CONFLICT")
      BY DEF Reasoned
    <3> QED
      BY <1>1, <1>2, <1>4, <1>a, <2>2, <3>1 DEF RetryConflict
  <2> QED
    BY <1>7, <2>1, <2>2 DEF ResolveTransactionConflict
<1> QED
  BY <1>5, <1>6, <1>7

LEMMA DuplicatePreserves ==
  ASSUME Inv, asks' = asks, NEW q \in Requests, RefuseDuplicate(q)
  PROVE  Inv'
<1>1. KindOf[q] = "redeem"
  BY DEF RefuseDuplicate, Answer, Goto, Inv, RedemptionsOnly
<1>2. evidence' \subseteq OfKind("redeem")
  BY <1>1 DEF RefuseDuplicate, OfKind, Inv, TypeOK
<1>3. "RECEIPT_ALREADY_USED" \in Refusals /\ Reasoned(q, "RECEIPT_ALREADY_USED")
  BY DEF RefuseDuplicate, Answer, Goto, Inv, ConflictsAreReal, Reasoned, Refusals
<1> QED
  BY <1>2, <1>3, AnswerPreserves DEF RefuseDuplicate, Inv, TypeOK

\* The surroundings touch no request.
LEMMA SurroundingsPreserve ==
  ASSUME Inv, asks' = asks,
         \/ \E q \in Requests : ApproveSettlement(q)
         \/ \E s \in Slots : Lapse(s)
         \/ \E r \in Receipts : EarnElsewhere(r)
  PROVE  Inv'
<1>0. UNCHANGED <<asks, pc, tries, outcome, record, evidence, reply>>
  BY DEF ApproveSettlement, Lapse, EarnElsewhere
<1>1. stale' \subseteq Slots /\ elsewhere' \subseteq Receipts
  BY DEF ApproveSettlement, Lapse, EarnElsewhere, Inv, TypeOK
<1>2. approved' \subseteq OfKind("redeem")
  BY DEF ApproveSettlement, Lapse, EarnElsewhere, Inv, TypeOK, RedemptionsOnly, OfKind
<1>3. TypeOK'
  BY <1>0, <1>1, <1>2 DEF Inv, TypeOK, OfKind, KindOf
<1>4. EffectIsTheAnswer' /\ AttemptsLeft' /\ RedemptionsOnly'
  BY <1>0 DEF Inv, EffectIsTheAnswer, AttemptsLeft, RedemptionsOnly, Committed, KindOf
<1>5. RepliesTellTheTruth' /\ ConflictsAreReal'
  <2>1. elsewhere \subseteq elsewhere'
    BY DEF ApproveSettlement, Lapse, EarnElsewhere
  <2>2. ASSUME NEW p \in Requests
        PROVE  /\ Used(ReceiptOf[p]) => (Used(ReceiptOf[p]))'
               /\ \A a : Reasoned(p, a) => Reasoned(p, a)'
    BY <1>0, <2>1, ReasonsKept DEF Committed
  <2>3. RepliesTellTheTruth'
    BY <1>0, <2>2 DEF Inv, RepliesTellTheTruth, Committed, Slot, SamePayload, KindOf, KeyOf,
                      PayloadOf
  <2>4. ConflictsAreReal'
    BY <1>0, <2>2 DEF Inv, ConflictsAreReal
  <2> QED
    BY <2>3, <2>4
<1>6. RecordsOfEffects' /\ EffectOnce'
  BY <1>0 DEF Inv, RecordsOfEffects, EffectOnce, Committed, Slot, Slots, SamePayload, KindOf,
              KeyOf, PayloadOf
<1>7. TargetTakenOnce'
  <2>1. \A p \in OfKind("redeem") : Committed(p) => ReceiptOf[p] \notin elsewhere'
    BY DEF ApproveSettlement, Lapse, EarnElsewhere, Used, Inv, TargetTakenOnce
  <2> QED
    BY <1>0, <2>1 DEF Inv, TargetTakenOnce, Committed, OfKind, KindOf, ReceiptOf, TargetOf
<1> QED
  BY <1>3, <1>4, <1>5, <1>6, <1>7 DEF Inv

-----------------------------------------------------------------------------
\* The invariant holds of every behaviour.
THEOREM InvHolds == Spec => []Inv
<1>1. Init => Inv
  <2> SUFFICES ASSUME Init PROVE Inv
    OBVIOUS
  <2>1. TypeOK
    BY FinancialAssumption DEF Init, TypeOK, Steps
  <2> QED
    BY <2>1, FinancialAssumption DEF Init, Inv, EffectIsTheAnswer, AttemptsLeft, RedemptionsOnly,
         RecordsOfEffects, ConflictsAreReal, EffectOnce, TargetTakenOnce, RepliesTellTheTruth,
         Reasoned, Committed, NotYet, Effects, Refusals, OfKind
<1>2. Inv /\ [Next]_vars => Inv'
  <2> SUFFICES ASSUME Inv, [Next]_vars PROVE Inv'
    OBVIOUS
  <2>1. CASE UNCHANGED vars
    <3>1. TypeOK' /\ EffectIsTheAnswer' /\ AttemptsLeft' /\ RedemptionsOnly'
      BY <2>1 DEF vars, Inv, TypeOK, EffectIsTheAnswer, AttemptsLeft, RedemptionsOnly,
           Committed, OfKind, KindOf
    <3>2. RecordsOfEffects' /\ EffectOnce' /\ TargetTakenOnce'
      BY <2>1, TablesKept DEF vars
    <3>3. ASSUME NEW p \in Requests
          PROVE  /\ Used(ReceiptOf[p]) => (Used(ReceiptOf[p]))'
                 /\ \A a : Reasoned(p, a) => Reasoned(p, a)'
      BY <2>1, ReasonsKept DEF vars, Committed
    <3>4. RepliesTellTheTruth'
      BY <2>1, <3>3 DEF vars, Inv, RepliesTellTheTruth, Committed, Slot, SamePayload, KindOf,
           KeyOf, PayloadOf
    <3>5. ConflictsAreReal'
      BY <2>1, <3>3 DEF vars, Inv, ConflictsAreReal
    <3> QED
      BY <3>1, <3>2, <3>4, <3>5 DEF Inv
  <2>2. CASE Next
    <3>0. asks' = asks
      BY <2>2 DEF Next
    <3>1. ASSUME NEW q \in Requests, Step(q)
          PROVE  Inv'
      BY <3>0, <3>1, CleanupPreserves, LookUpPreserves, OpenPreserves, AbortPreserves,
         CommitPreserves, ResolvePreserves, DuplicatePreserves DEF Step
    <3> QED
      BY <2>2, <3>0, <3>1, ReceivePreserves, LosePreserves, SurroundingsPreserve DEF Next
  <2> QED
    BY <2>1, <2>2
<1> QED
  BY <1>1, <1>2, PTL DEF Spec

\* Redemptions, adjustments and reversals in any mix keep the types of their state: no
\* handler takes more than its bounded attempts, and only redemptions are reported.
THEOREM RequestsTyped == Spec => []TypeOK
BY InvHolds, PTL DEF Inv

\* A body takes effect once, under however many keys and after however many expiries.
THEOREM BodyTakesEffectOnce == Spec => []EffectOnce
BY InvHolds, PTL DEF Inv

\* A receipt is settled once and never beside an earn; an entry is reversed once.
THEOREM TargetsTakenOnce == Spec => []TargetTakenOnce
BY InvHolds, PTL DEF Inv

\* Confirmations are those of the same body and key, refusals left nothing behind, and
\* the reason that a redemption or a reversal is refused for is a fact.
THEOREM RepliesTruthful == Spec => []RepliesTellTheTruth
BY InvHolds, PTL DEF Inv

\* Only the clean-up of an expired record removes a stored answer.
THEOREM RecordsKept == Spec => RecordsKeptForLife
<1> DEFINE Kept == \A s \in Slots : record[s] # None /\ record'[s] # record[s]
                                    => s \in stale /\ record'[s] = None
<1>1. Inv /\ [Next]_vars => [Kept]_vars
  <2> SUFFICES ASSUME Inv, Next PROVE Kept
    BY DEF vars
  <2>1. ASSUME NEW q \in Requests, Cleanup(q) PROVE Kept
    BY <2>1 DEF Cleanup, Expired, Slots
  <2>2. ASSUME NEW q \in Requests, NEW a \in EffectsOf(q), Commit(q, a) PROVE Kept
    <3>1. ~KeyTaken(q)
      <4>1. KindOf[q] \in Kinds
        BY AskingTyped DEF Inv
      <4> QED
        BY <2>2, <4>1 DEF Commit, Clash, Kinds
    <3> QED
      BY <2>2, <3>1 DEF Commit, KeyTaken, Inv, TypeOK, Slots
  <2>3. CASE record' = record
    BY <2>3
  <2>4. ASSUME NEW q \in Requests,
               \/ Receive(q) \/ Lose(q) \/ ApproveSettlement(q) \/ LookUp(q) \/ Open(q)
               \/ Abort(q) \/ ResolveKeyConflict(q) \/ ResolveReceiptConflict(q)
               \/ ResolveTransactionConflict(q) \/ RefuseDuplicate(q)
        PROVE  record' = record
    BY <2>4 DEF Receive, Lose, ApproveSettlement, LookUp, Open, Abort, ResolveKeyConflict,
         ResolveReceiptConflict, ResolveTransactionConflict, RefuseDuplicate, AwaitReplay,
         RetryConflict, Replay, Refuse, tables
  <2>5. ASSUME \/ \E s \in Slots : Lapse(s)
               \/ \E r \in Receipts : EarnElsewhere(r)
        PROVE  record' = record
    BY <2>5 DEF Lapse, EarnElsewhere
  <2> QED
    BY <2>1, <2>2, <2>3, <2>4, <2>5 DEF Next, Step
<1> QED
  BY <1>1, InvHolds, PTL DEF Spec, RecordsKeptForLife
=============================================================================
