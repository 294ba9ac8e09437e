------------------------ MODULE AdministrationProofs ------------------------
(***************************************************************************)
(* The two services whose rows people edit from what they saw on a screen,   *)
(* under optimistic concurrency.  For any number of requests, customers and  *)
(* cards: cards form chains, a key's answer is true, and a card changes only  *)
(* from the status its editor has read.  For any number of administrators,   *)
(* readers and saves: no save overwrites a change its author has not seen,   *)
(* and one load at a time serves everybody who waits for the public          *)
(* configuration.                                                            *)
(***************************************************************************)
EXTENDS CardLifecycle, PolicyConfiguration, FiniteSetTheorems, WellFoundedInduction, TLAPS

-----------------------------------------------------------------------------
(* Cards and customers: the inductive invariant. *)

Steps == {"unsent", "received", "reading", "checked", "inside", "answered", "lost"}
CardStatuses == Settable \cup {"ABSENT", "REPLACED"}

\* The types of the rows and of the handlers.
CardTyped ==
  /\ asks \in [Requests -> Asks]
  /\ customer \in [Customers -> CustomerRows]
  /\ card \in [Cards -> CardRows]
  /\ notices \in [Cards -> Nat]
  /\ record \in [Slots -> Requests \cup {None}]
  /\ pc \in [Requests -> Steps]
  /\ gate \in [Requests -> Nat]
  /\ saw \in [Requests -> CardStatuses \cup {None}]
  /\ reply \in [Requests -> Replies \cup {None}]

\* Every replacement is announced once.
Announced == \A d \in Cards : notices[d] = IF card[d].status = "REPLACED" THEN 1 ELSE 0

\* A record is that of a request carried out under its endpoint and key.
RecordsOfDone ==
  \A s \in Slots : record[s] # None => reply[record[s]] = "DONE" /\ Slot(record[s]) = s

\* Where a handler stands: it answers at its end, and has read nothing before it looks.
HandlersInOrder ==
  \A q \in Requests : /\ reply[q] # None => pc[q] = "answered"
                      /\ pc[q] \in {"unsent", "received"} => gate[q] = 0

\* A handler whose first read is behind it.
PastFirstRead(q) == pc[q] \in {"checked", "inside"} \/ (pc[q] = "reading" /\ gate[q] # 0)

\* What the first read found and what cannot be undone since: customers and cards are not
\* deleted, and the handler remembers the status it saw.
StillThere(q) ==
  LET a == asks[q]
  IN  /\ a.kind = "issue" => Known(a.customer)
      /\ a.kind = "replace" => Exists(a.card) /\ saw[q] = "ACTIVE"
      /\ a.kind = "cardStatus" => Exists(a.card) /\ saw[q] \in Settable
ReadsStand == \A q \in Requests : PastFirstRead(q) => StillThere(q)

\* The inductive invariant.
CardInv ==
  /\ CardTyped
  /\ InOrder(customer, card)
  /\ Announced
  /\ RecordsOfDone
  /\ HandlersInOrder
  /\ ReadsStand
  /\ RepliesTellTheTruth

-----------------------------------------------------------------------------
(* What a step of one handler may not touch. *)

\* The rows of the requests other than q are left alone, and q's stay in their types.
OwnNotes(q) ==
  /\ gate' \in [Requests -> Nat] /\ saw' \in [Requests -> CardStatuses \cup {None}]
  /\ \A p \in Requests \ {q} : gate'[p] = gate[p] /\ saw'[p] = saw[p]

\* Records go, and none is written.
RecordsOnlyGo ==
  record' \in [Slots -> Requests \cup {None}] /\ \A s \in Slots : record'[s] \in {record[s], None}

\* A request without an answer has not been told that it was carried out.
LEMMA NoneIsNoReply == None # "DONE"
BY CardAssumption DEF Replies

\* The endpoint and key of a request is one of the slots.
LEMMA SlotTyped == ASSUME CardTyped, NEW q \in Requests PROVE Slot(q) \in Slots
<1>1. asks[q] \in Asks
  BY DEF CardTyped
<1>2. asks[q].kind \in Kinds /\ asks[q].key \in Keys
  BY <1>1 DEF Asks
<1> QED
  BY <1>2 DEF Slot, Slots

\* Rows that do not change stay in order.
LEMMA RowsFrame ==
  ASSUME CardInv, UNCHANGED <<customer, card, notices>>
  PROVE  InOrder(customer, card)' /\ Announced'
BY DEF CardInv, Announced, InOrder, NoCard, Cards

\* What a handler has read stands while it and the rows stand.
LEMMA ReadsFrame ==
  ASSUME CardInv, UNCHANGED asks, NEW q \in Requests, OwnNotes(q),
         \A p \in Requests \ {q} : pc'[p] = pc[p],
         \A c \in Customers : Known(c) => Known(c)', \A d \in Cards : Exists(d) => Exists(d)',
         PastFirstRead(q)' => StillThere(q)'
  PROVE  ReadsStand'
<1> SUFFICES ASSUME NEW p \in Requests, p # q, PastFirstRead(p)' PROVE StillThere(p)'
  BY DEF ReadsStand
<1>1. PastFirstRead(p)
  BY DEF PastFirstRead, OwnNotes
<1>2. StillThere(p)
  BY <1>1 DEF CardInv, ReadsStand
<1>3. asks[p].customer \in Customers
  BY DEF CardInv, CardTyped, Asks
<1>4. Exists(asks[p].card) => Exists(asks[p].card)'
  BY DEF Exists
<1> QED
  BY <1>2, <1>3, <1>4 DEF StillThere, OwnNotes

\* A handler that has not answered may be answered with the truth: the answers of the
\* others rest on answers that stay.
LEMMA TruthFrame ==
  ASSUME CardInv, UNCHANGED asks, NEW q \in Requests, reply[q] = None,
         \A p \in Requests \ {q} : reply'[p] = reply[p],
         reply'[q] = "REPLAYED" =>
           \E p \in Requests : reply[p] = "DONE" /\ Slot(p) = Slot(q) /\ SameBody(p, q),
         reply'[q] = "IDEMPOTENCY_CONFLICT" =>
           \E p \in Requests : reply[p] = "DONE" /\ Slot(p) = Slot(q) /\ ~SameBody(p, q)
  PROVE  RepliesTellTheTruth'
<1>1. \A p \in Requests : reply[p] = "DONE" => reply'[p] = "DONE"
  BY NoneIsNoReply
<1>2. \A p, r \in Requests : /\ (Slot(p) = Slot(r))' <=> Slot(p) = Slot(r)
                             /\ SameBody(p, r)' <=> SameBody(p, r)
  BY DEF Slot, SameBody
<1>3. ASSUME NEW r \in Requests, reply'[r] = "REPLAYED"
      PROVE  \E p \in Requests : reply[p] = "DONE" /\ Slot(p) = Slot(r) /\ SameBody(p, r)
  BY <1>3 DEF CardInv, RepliesTellTheTruth
<1>4. ASSUME NEW r \in Requests, reply'[r] = "IDEMPOTENCY_CONFLICT"
      PROVE  \E p \in Requests : reply[p] = "DONE" /\ Slot(p) = Slot(r) /\ ~SameBody(p, r)
  BY <1>4 DEF CardInv, RepliesTellTheTruth
<1> QED
  BY <1>1, <1>2, <1>3, <1>4 DEF RepliesTellTheTruth

\* A handler moves on without an answer.
LEMMA MoveKeeps ==
  ASSUME CardInv, NEW q \in Requests, NEW from \in Steps \ {"answered"},
         NEW to \in Steps, Goto(q, from, to),
         UNCHANGED <<asks, customer, card, notices, reply>>, OwnNotes(q), RecordsOnlyGo,
         to \in {"unsent", "received"} => gate'[q] = 0,
         PastFirstRead(q)' => StillThere(q)'
  PROVE  CardInv'
<1>1. /\ pc[q] = from /\ pc' = [pc EXCEPT ![q] = to]
      /\ pc \in [Requests -> Steps]
  BY DEF Goto, CardInv, CardTyped
<1>2. /\ pc'[q] = to /\ pc' \in [Requests -> Steps]
      /\ \A p \in Requests \ {q} : pc'[p] = pc[p]
  BY <1>1
<1>3. reply[q] = None
  BY <1>1 DEF CardInv, HandlersInOrder
<1>4. CardTyped'
  BY <1>2 DEF CardInv, CardTyped, OwnNotes, RecordsOnlyGo
<1>5. InOrder(customer, card)' /\ Announced'
  BY RowsFrame
<1>6. RecordsOfDone'
  BY DEF CardInv, RecordsOfDone, RecordsOnlyGo, Slot
<1>7. HandlersInOrder'
  BY <1>2, <1>3 DEF CardInv, HandlersInOrder, OwnNotes
<1>8. ReadsStand'
  BY <1>2, ReadsFrame DEF Known, Exists
<1>9. RepliesTellTheTruth'
  BY DEF CardInv, RepliesTellTheTruth, Slot, SameBody
<1> QED
  BY <1>4, <1>5, <1>6, <1>7, <1>8, <1>9 DEF CardInv

\* A handler answers without having written anything.
LEMMA AnswerKeeps ==
  ASSUME CardInv, NEW q \in Requests, NEW from \in Steps \ {"answered"},
         NEW a \in Replies, Answer(q, from, a),
         UNCHANGED <<asks, customer, card, notices>>, OwnNotes(q), RecordsOnlyGo,
         a = "REPLAYED" =>
           \E p \in Requests : reply[p] = "DONE" /\ Slot(p) = Slot(q) /\ SameBody(p, q),
         a = "IDEMPOTENCY_CONFLICT" =>
           \E p \in Requests : reply[p] = "DONE" /\ Slot(p) = Slot(q) /\ ~SameBody(p, q)
  PROVE  CardInv'
<1>1. /\ pc[q] = from /\ pc' = [pc EXCEPT ![q] = "answered"]
      /\ reply' = [reply EXCEPT ![q] = a]
      /\ pc \in [Requests -> Steps] /\ reply \in [Requests -> Replies \cup {None}]
  BY DEF Answer, Goto, CardInv, CardTyped
<1>2. /\ pc'[q] = "answered" /\ pc' \in [Requests -> Steps]
      /\ \A p \in Requests \ {q} : pc'[p] = pc[p]
      /\ reply'[q] = a /\ reply' \in [Requests -> Replies \cup {None}]
      /\ \A p \in Requests \ {q} : reply'[p] = reply[p]
  BY <1>1 DEF Steps
<1>3. reply[q] = None
  BY <1>1 DEF CardInv, HandlersInOrder
<1>4. CardTyped'
  BY <1>2 DEF CardInv, CardTyped, OwnNotes, RecordsOnlyGo
<1>5. InOrder(customer, card)' /\ Announced'
  BY RowsFrame
<1>6. RecordsOfDone'
  <2>1. \A p \in Requests : reply[p] = "DONE" => reply'[p] = "DONE"
    BY <1>2, <1>3, NoneIsNoReply
  <2> QED
    BY <2>1 DEF CardInv, CardTyped, RecordsOfDone, RecordsOnlyGo, Slot
<1>7. HandlersInOrder'
  BY <1>2, <1>3 DEF CardInv, HandlersInOrder, OwnNotes
<1>8. ReadsStand'
  BY <1>2, ReadsFrame DEF Known, Exists, PastFirstRead
<1>9. RepliesTellTheTruth'
  BY <1>2, <1>3, TruthFrame
<1> QED
  BY <1>4, <1>5, <1>6, <1>7, <1>8, <1>9 DEF CardInv

-----------------------------------------------------------------------------
(* The handler up to its transaction. *)

\* What the first read of a kind lets through.
LEMMA FirstGate ==
  ASSUME NEW a, Gates(a)[1]
  PROVE  /\ a.kind = "issue" => customer[a.customer].status = "ACTIVE"
         /\ a.kind = "replace" => Exists(a.card) /\ card[a.card].status = "ACTIVE"
         /\ a.kind = "cardStatus" => Exists(a.card) /\ card[a.card].status # "REPLACED"
<1>1. CASE a.kind = "issue"
  BY <1>1 DEF Gates
<1>2. CASE a.kind = "replace"
  BY <1>2 DEF Gates
<1>3. CASE a.kind = "cardStatus"
  BY <1>3 DEF Gates
<1> QED
  BY <1>1, <1>2, <1>3

\* The first look at a card: it is remembered.
LEMMA ReadKeeps ==
  ASSUME CardInv, NEW q \in Requests, Read(q)
  PROVE  CardInv'
<1> DEFINE a == asks[q]
           g == gate[q] + 1
           seen == IF g = 1 /\ Exists(a.card) THEN card[a.card].status ELSE saw[q]
<1>1. /\ pc[q] = "reading" /\ gate' = [gate EXCEPT ![q] = g]
      /\ saw' = [saw EXCEPT ![q] = seen]
      /\ UNCHANGED <<asks, customer, card, notices, record>>
  BY DEF Read, tables, rows
<1>2. gate \in [Requests -> Nat] /\ saw \in [Requests -> CardStatuses \cup {None}]
      /\ record \in [Slots -> Requests \cup {None}]
  BY DEF CardInv, CardTyped
<1>3. Exists(a.card) => card[a.card].status \in CardStatuses
  BY DEF CardInv, CardTyped, CardRows, CardStatuses, Exists
<1>4. seen \in CardStatuses \cup {None} /\ g \in Nat /\ g # 0
  BY <1>2, <1>3
<1> HIDE DEF seen
<1>5. OwnNotes(q) /\ RecordsOnlyGo /\ gate'[q] = g /\ saw'[q] = seen
  BY <1>1, <1>2, <1>4 DEF OwnNotes, RecordsOnlyGo
<1>6. CASE Answer(q, "reading", "REJECTED")
  BY <1>1, <1>5, <1>6, AnswerKeeps DEF Steps, Replies
<1>7. CASE /\ Gates(a)[g] /\ UNCHANGED reply
           /\ Goto(q, "reading", IF g = Len(Gates(a)) THEN "checked" ELSE "reading")
  <2>1. StillThere(q)'
    <3>1. CASE gate[q] = 0
      <4>1. g = 1 /\ Gates(a)[1]
        BY <1>7, <3>1
      <4>2. /\ a.kind = "issue" => customer[a.customer].status = "ACTIVE"
            /\ a.kind = "replace" => Exists(a.card) /\ card[a.card].status = "ACTIVE"
            /\ a.kind = "cardStatus" => Exists(a.card) /\ card[a.card].status # "REPLACED"
        BY <4>1, FirstGate
      <4>3. Exists(a.card) => saw'[q] = card[a.card].status /\ card[a.card].status # "ABSENT"
        BY <1>5, <4>1 DEF seen, Exists
      <4>4. a.kind = "cardStatus" => saw'[q] \in Settable
        BY <1>3, <4>2, <4>3 DEF CardStatuses
      <4> QED
        BY <1>1, <4>2, <4>3, <4>4 DEF StillThere, Known, Exists
    <3>2. CASE gate[q] # 0
      <4>1. StillThere(q)
        BY <1>1, <3>2 DEF CardInv, ReadsStand, PastFirstRead
      <4>2. saw'[q] = saw[q]
        BY <1>2, <1>5, <3>2 DEF seen
      <4> QED
        BY <1>1, <4>1, <4>2 DEF StillThere, Known, Exists
    <3> QED
      BY <3>1, <3>2
  <2>2. PICK to \in {"checked", "reading"} : Goto(q, "reading", to)
    BY <1>7
  <2> QED
    BY <1>1, <1>5, <1>7, <2>1, <2>2, MoveKeeps DEF Steps
<1> QED
  BY <1>6, <1>7 DEF Read

\* The look at the key's record.
LEMMA LookUpKeeps ==
  ASSUME CardInv, NEW q \in Requests, LookUp(q)
  PROVE  CardInv'
<1>1. /\ record' = [record EXCEPT ![Slot(q)] = IF Slot(q) \in stale THEN None ELSE @]
      /\ UNCHANGED <<asks, customer, card, notices, gate, saw>>
  BY DEF LookUp, rows
<1>2. /\ gate \in [Requests -> Nat] /\ saw \in [Requests -> CardStatuses \cup {None}]
      /\ record \in [Slots -> Requests \cup {None}] /\ Slot(q) \in Slots
  BY SlotTyped DEF CardInv, CardTyped
<1>3. OwnNotes(q) /\ RecordsOnlyGo
  BY <1>1, <1>2 DEF OwnNotes, RecordsOnlyGo
<1>4. Live(Slot(q)) => /\ record[Slot(q)] \in Requests /\ reply[record[Slot(q)]] = "DONE"
                       /\ Slot(record[Slot(q)]) = Slot(q)
  BY <1>2 DEF Live, CardInv, RecordsOfDone
<1>5. CASE Replays(q) /\ Answer(q, "received", "REPLAYED")
  <2>1. \E p \in Requests : reply[p] = "DONE" /\ Slot(p) = Slot(q) /\ SameBody(p, q)
    BY <1>4, <1>5 DEF Replays
  <2> QED
    BY <1>1, <1>3, <1>5, <2>1, AnswerKeeps DEF Steps, Replies
<1>6. CASE Live(Slot(q)) /\ ~Replays(q) /\ Answer(q, "received", "IDEMPOTENCY_CONFLICT")
  <2>1. \E p \in Requests : reply[p] = "DONE" /\ Slot(p) = Slot(q) /\ ~SameBody(p, q)
    BY <1>4, <1>6 DEF Replays
  <2> QED
    BY <1>1, <1>3, <1>6, <2>1, AnswerKeeps DEF Steps, Replies
<1>7. CASE Goto(q, "received", "reading") /\ UNCHANGED reply
  <2>1. pc'[q] = "reading" /\ gate'[q] = 0
    BY <1>1, <1>7 DEF Goto, CardInv, CardTyped, HandlersInOrder
  <2> QED
    BY <1>1, <1>3, <1>7, <2>1, MoveKeeps DEF Steps, PastFirstRead
<1> QED
  BY <1>5, <1>6, <1>7 DEF LookUp

\* A step that leaves all tables and notes alone.
LEMMA NotesUntouched ==
  ASSUME CardInv, NEW q \in Requests, UNCHANGED <<record, gate, saw>>
  PROVE  OwnNotes(q) /\ RecordsOnlyGo
BY DEF CardInv, CardTyped, OwnNotes, RecordsOnlyGo

\* The handler comes in, opens its transaction, is refused, or is lost.
LEMMA OtherStepsKeep ==
  ASSUME CardInv, NEW q \in Requests,
         Receive(q) \/ Begin(q) \/ Refuse(q) \/ Abort(q) \/ Lose(q)
  PROVE  CardInv'
<1>1. UNCHANGED <<asks, customer, card, notices, record, gate, saw>>
  BY DEF Receive, Begin, Refuse, Abort, Lose, tables, rows
<1>2. OwnNotes(q) /\ RecordsOnlyGo
  BY <1>1, NotesUntouched
<1>3. CASE Receive(q)
  <2>1. pc'[q] = "received" /\ gate'[q] = 0
    BY <1>1, <1>3 DEF Receive, Goto, CardInv, CardTyped, HandlersInOrder
  <2>2. Goto(q, "unsent", "received") /\ UNCHANGED reply
    BY <1>3 DEF Receive
  <2> QED
    BY <1>1, <1>2, <2>1, <2>2, MoveKeeps DEF Steps, PastFirstRead
<1>4. ASSUME NEW from \in {"checked", "inside"}, NEW a \in {"ERROR", "REJECTED"},
             Answer(q, from, a)
      PROVE  CardInv'
  BY <1>1, <1>2, <1>4, AnswerKeeps DEF Steps, Replies
<1>5. CASE Begin(q)
  <2>1. CASE Goto(q, "checked", "inside") /\ UNCHANGED reply
    <3>1. StillThere(q)
      BY <2>1 DEF Goto, CardInv, ReadsStand, PastFirstRead
    <3>2. StillThere(q)'
      BY <1>1, <3>1 DEF StillThere, Known, Exists
    <3> QED
      BY <1>1, <1>2, <2>1, <3>2, MoveKeeps DEF Steps
  <2> QED
    BY <1>4, <1>5, <2>1 DEF Begin
<1>6. CASE Refuse(q) \/ Abort(q)
  BY <1>4, <1>6 DEF Refuse, Abort
<1>7. CASE Lose(q)
  <2>1. pc[q] \in Steps \ {"answered"} /\ Goto(q, pc[q], "lost") /\ UNCHANGED reply
    BY <1>7 DEF Lose, Goto, CardInv, CardTyped
  <2>2. pc'[q] = "lost"
    BY <1>7 DEF Lose, CardInv, CardTyped
  <2> QED
    BY <1>1, <1>2, <2>1, <2>2, MoveKeeps DEF Steps, PastFirstRead
<1> QED
  BY <1>3, <1>5, <1>6, <1>7

-----------------------------------------------------------------------------
(* The writes of a transaction. *)

\* Every set of numbers has a least one.
LEMMA LeastNumber ==
  ASSUME NEW N \in SUBSET Nat, N # {}
  PROVE  \E n \in N : \A k \in N : n <= k
<1> DEFINE R == OpToRel(<, Nat)
<1>1. IsWellFoundedOn(R, Nat)
  BY NatLessThanWellFounded
<1>2. \A x, y \in Nat : x < y => <<x, y>> \in R
  BY DEF OpToRel
<1> HIDE DEF R
<1>3. PICK n \in N : \A k \in N : ~(<<k, n>> \in R)
  BY <1>1, WFMin
<1>4. ASSUME NEW k \in N PROVE n <= k
  <2>1. k \in Nat /\ n \in Nat
    OBVIOUS
  <2>2. ~(k < n)
    BY <1>2, <1>3, <2>1, Zenon
  <2> QED
    BY <2>1, <2>2
<1> QED
  BY <1>4

\* A new card gets an id no card has.
LEMMA NewCardIsFree == ASSUME Free # {} PROVE NewCard \in Free
<1>1. Free \in SUBSET Nat
  BY CardAssumption DEF Free, Cards
<1>2. \E d \in Free : \A x \in Free : d <= x
  BY <1>1, LeastNumber
<1> QED
  BY <1>2 DEF NewCard

\* What a transaction must leave of the rows.
RowsKept ==
  /\ customer' \in [Customers -> CustomerRows] /\ card' \in [Cards -> CardRows]
  /\ notices' \in [Cards -> Nat]
  /\ InOrder(customer, card)' /\ Announced'
  /\ \A c \in Customers : Known(c) => Known(c)'
  /\ \A d \in Cards : Exists(d) => Exists(d)'

\* A free id is that of no row, and of nobody's successor.
LEMMA FreeIsNobody ==
  ASSUME CardInv, NEW n \in Free
  PROVE  /\ n \in Cards /\ n # None /\ card[n] = NoCard
         /\ \A d \in Cards : card[d].by # n
<1>1. n \in Cards /\ n # None /\ card[n] = NoCard
  BY CardAssumption DEF Free, CardInv, InOrder
<1>2. ASSUME NEW d \in Cards, card[d].by = n PROVE FALSE
  <2>1. card[n].of = card[d].of /\ card[d].status = "REPLACED"
    BY <1>1, <1>2 DEF CardInv, InOrder
  <2>2. card[d].of \in Customers
    BY <2>1 DEF CardInv, InOrder, NoCard
  <2> QED
    BY <1>1, <2>1, <2>2, CardAssumption DEF NoCard
<1> QED
  BY <1>1, <1>2

\* A card issued to a customer without one in use.
LEMMA IssueKeeps ==
  ASSUME CardInv, NEW n \in Free, NEW c \in Customers, NEW serial \in Serials,
         ActiveCards(c) = {}, customer' \in [Customers -> CustomerRows],
         \A x \in Customers : Known(x) => Known(x)', Known(c)',
         card' = [card EXCEPT ![n] = NewRow(c, serial)], UNCHANGED notices
  PROVE  RowsKept
<1>1. /\ n \in Cards /\ n # None /\ card[n] = NoCard
      /\ \A d \in Cards : card[d].by # n
  BY FreeIsNobody
<1>2. card \in [Cards -> CardRows] /\ notices \in [Cards -> Nat]
  BY DEF CardInv, CardTyped
<1>3. /\ card'[n] = NewRow(c, serial) /\ \A d \in Cards \ {n} : card'[d] = card[d]
      /\ card' \in [Cards -> CardRows]
  <2>1. NewRow(c, serial) \in CardRows
    BY DEF NewRow, CardRows, Settable
  <2> QED
    BY <1>1, <1>2, <2>1
<1>4. /\ card'[n].status = "ACTIVE" /\ card'[n].of = c /\ card'[n].by = None
  BY <1>3 DEF NewRow
<1>5. InOrder(customer, card)'
  <2>1. ASSUME NEW d \in Cards
        PROVE  \/ card'[d] = NoCard
               \/ /\ card'[d].status # "ABSENT"
                  /\ card'[d].of \in Customers /\ customer'[card'[d].of].status # "ABSENT"
    BY <1>3, <1>4 DEF CardInv, InOrder, Known
  <2>2. ASSUME NEW d \in Cards
        PROVE  card'[d].status = "REPLACED" <=> card'[d].by # None
    BY <1>3, <1>4 DEF CardInv, InOrder
  <2>3. ASSUME NEW d \in Cards, card'[d].by # None
        PROVE  /\ card'[card'[d].by].of = card'[d].of
               /\ \A x \in Cards : card'[x].by = card'[d].by => x = d
    <3>1. d # n /\ card'[d] = card[d]
      BY <1>3, <1>4, <2>3
    <3>2. card[d].by \in Cards /\ card[d].by # n
      BY <1>1, <1>2, <2>3, <3>1 DEF CardRows
    <3> QED
      BY <1>3, <1>4, <2>3, <3>1, <3>2 DEF CardInv, InOrder
  <2>4. ASSUME NEW d \in Cards, NEW e \in Cards, card'[d].status = "ACTIVE",
               card'[e].status = "ACTIVE", card'[d].of = card'[e].of
        PROVE  d = e
    <3>1. \A x \in Cards : card[x].status = "ACTIVE" => card[x].of # c
      BY DEF ActiveCards
    <3> QED
      BY <1>3, <1>4, <2>4, <3>1 DEF CardInv, InOrder
  <2> QED
    BY <2>1, <2>2, <2>3, <2>4 DEF InOrder
<1>6. Announced'
  BY <1>1, <1>3, <1>4 DEF CardInv, Announced, NoCard
<1>7. \A d \in Cards : Exists(d) => Exists(d)'
  BY <1>3, <1>4 DEF Exists
<1> QED
  BY <1>2, <1>3, <1>5, <1>6, <1>7 DEF RowsKept

\* A card in use gets its successor.
LEMMA ReplaceKeeps ==
  ASSUME CardInv, NEW n \in Free, NEW old \in Cards, NEW serial \in Serials,
         card[old].status = "ACTIVE", UNCHANGED customer,
         card' = [card EXCEPT ![old].status = "REPLACED", ![old].by = n,
                              ![n] = NewRow(card[old].of, serial)],
         notices' = [notices EXCEPT ![old] = @ + 1]
  PROVE  RowsKept
<1> DEFINE c == card[old].of
<1>1. /\ n \in Cards /\ n # None /\ card[n] = NoCard /\ n # old
      /\ \A d \in Cards : card[d].by # n
  BY FreeIsNobody DEF NoCard
<1>2. card \in [Cards -> CardRows] /\ notices \in [Cards -> Nat]
      /\ customer \in [Customers -> CustomerRows]
  BY DEF CardInv, CardTyped
<1>3. c \in Customers /\ Known(c) /\ card[old].by = None
  BY DEF CardInv, InOrder, NoCard, Known
<1> HIDE DEF c
<1>4. card[old] \in CardRows /\ NewRow(c, serial) \in CardRows
      /\ [card[old] EXCEPT !.status = "REPLACED", !.by = n] \in CardRows
  BY <1>1, <1>2, <1>3 DEF NewRow, CardRows, Settable
<1>5. /\ card'[n] = NewRow(c, serial)
      /\ card'[old] = [card[old] EXCEPT !.status = "REPLACED", !.by = n]
      /\ \A d \in Cards \ {n, old} : card'[d] = card[d]
      /\ card' \in [Cards -> CardRows]
  BY <1>1, <1>2, <1>4 DEF c
<1>6. /\ card'[n].status = "ACTIVE" /\ card'[n].of = c /\ card'[n].by = None
      /\ card'[old].status = "REPLACED" /\ card'[old].of = c /\ card'[old].by = n
  BY <1>4, <1>5 DEF NewRow, CardRows, c
<1>7. InOrder(customer, card)'
  <2>1. ASSUME NEW d \in Cards
        PROVE  \/ card'[d] = NoCard
               \/ /\ card'[d].status # "ABSENT"
                  /\ card'[d].of \in Customers /\ customer'[card'[d].of].status # "ABSENT"
    BY <1>3, <1>5, <1>6 DEF CardInv, InOrder, Known
  <2>2. ASSUME NEW d \in Cards
        PROVE  card'[d].status = "REPLACED" <=> card'[d].by # None
    BY <1>1, <1>5, <1>6 DEF CardInv, InOrder
  <2>3. ASSUME NEW d \in Cards, card'[d].by # None
        PROVE  /\ card'[card'[d].by].of = card'[d].of
               /\ \A x \in Cards : card'[x].by = card'[d].by => x = d
    <3>1. CASE d = old
      BY <1>1, <1>5, <1>6, <3>1
    <3>2. CASE d # old
      <4>1. d # n /\ card'[d] = card[d]
        BY <1>5, <1>6, <2>3, <3>2
      <4>2. card[d].by \in Cards /\ card[d].by # n
        BY <1>1, <1>2, <2>3, <4>1 DEF CardRows
      <4>3. card'[card[d].by].of = card[card[d].by].of
        BY <1>5, <1>6, <4>2 DEF c
      <4> QED
        BY <1>3, <1>5, <1>6, <2>3, <4>1, <4>2, <4>3 DEF CardInv, InOrder
    <3> QED
      BY <3>1, <3>2
  <2>4. ASSUME NEW d \in Cards, NEW e \in Cards, card'[d].status = "ACTIVE",
               card'[e].status = "ACTIVE", card'[d].of = card'[e].of
        PROVE  d = e
    <3>1. \A x \in Cards \ {old} : card[x].status = "ACTIVE" => card[x].of # c
      BY DEF CardInv, InOrder, c
    <3> QED
      BY <1>5, <1>6, <2>4, <3>1 DEF CardInv, InOrder
  <2> QED
    BY <2>1, <2>2, <2>3, <2>4 DEF InOrder
<1>8. Announced'
  <2>1. notices[old] = 0 /\ notices[n] = 0
    BY <1>1 DEF CardInv, Announced, NoCard
  <2> QED
    BY <1>1, <1>2, <1>5, <1>6, <2>1 DEF CardInv, Announced
<1>9. \A d \in Cards : Exists(d) => Exists(d)'
  BY <1>5, <1>6 DEF Exists
<1> QED
  BY <1>2, <1>5, <1>7, <1>8, <1>9 DEF RowsKept, Known

\* A card is blocked, or comes back into use beside no other.
LEMMA SetStatusKeeps ==
  ASSUME CardInv, NEW d \in Cards, NEW st \in Settable, card[d].status \in Settable,
         st = "ACTIVE" => ActiveCards(card[d].of) \subseteq {d},
         card' = [card EXCEPT ![d].status = st], UNCHANGED <<customer, notices>>
  PROVE  RowsKept
<1>1. card \in [Cards -> CardRows] /\ notices \in [Cards -> Nat]
      /\ customer \in [Customers -> CustomerRows]
  BY DEF CardInv, CardTyped
<1>2. card[d] \in CardRows /\ [card[d] EXCEPT !.status = st] \in CardRows
  BY <1>1 DEF CardRows
<1>3. /\ card'[d].status = st /\ card'[d].of = card[d].of /\ card'[d].by = card[d].by
      /\ \A e \in Cards \ {d} : card'[e] = card[e]
      /\ card' \in [Cards -> CardRows]
  BY <1>1, <1>2 DEF CardRows
<1>4. st # "ABSENT" /\ st # "REPLACED" /\ card[d].status # "ABSENT" /\ card[d].status # "REPLACED"
  BY DEF Settable
<1>5. \A e \in Cards : card'[e].of = card[e].of /\ card'[e].by = card[e].by
  BY <1>3
<1>6. InOrder(customer, card)'
  <2>1. ASSUME NEW e \in Cards
        PROVE  \/ card'[e] = NoCard
               \/ /\ card'[e].status # "ABSENT"
                  /\ card'[e].of \in Customers /\ customer'[card'[e].of].status # "ABSENT"
    <3>1. card[d].of \in Customers /\ customer[card[d].of].status # "ABSENT"
      BY <1>4 DEF CardInv, InOrder, NoCard
    <3> QED
      BY <1>3, <1>4, <3>1 DEF CardInv, InOrder
  <2>2. ASSUME NEW e \in Cards
        PROVE  card'[e].status = "REPLACED" <=> card'[e].by # None
    BY <1>3, <1>4 DEF CardInv, InOrder
  <2>3. ASSUME NEW e \in Cards, card'[e].by # None
        PROVE  /\ card'[card'[e].by].of = card'[e].of
               /\ \A x \in Cards : card'[x].by = card'[e].by => x = e
    <3>1. card[e].by \in Cards
      BY <1>1, <1>5, <2>3 DEF CardRows
    <3> QED
      BY <1>5, <2>3, <3>1 DEF CardInv, InOrder
  <2>4. ASSUME NEW x \in Cards, NEW y \in Cards, card'[x].status = "ACTIVE",
               card'[y].status = "ACTIVE", card'[x].of = card'[y].of
        PROVE  x = y
    BY <1>3, <2>4 DEF CardInv, InOrder, ActiveCards
  <2> QED
    BY <2>1, <2>2, <2>3, <2>4 DEF InOrder
<1>7. Announced'
  BY <1>3, <1>4 DEF CardInv, Announced
<1>8. \A e \in Cards : Exists(e) => Exists(e)'
  BY <1>3, <1>4 DEF Exists
<1> QED
  BY <1>1, <1>3, <1>6, <1>7, <1>8 DEF RowsKept, Known

\* The customer's row changes, and stays.
LEMMA CustomerKeeps ==
  ASSUME CardInv, customer' \in [Customers -> CustomerRows],
         \A c \in Customers : Known(c) => Known(c)', UNCHANGED <<card, notices>>
  PROVE  RowsKept
<1>1. InOrder(customer, card)'
  BY DEF CardInv, InOrder, Known
<1> QED
  BY <1>1 DEF RowsKept, CardInv, CardTyped, Announced, Exists

\* The transaction of every endpoint keeps the rows in order.
LEMMA WritesKeep ==
  ASSUME CardInv, NEW q \in Requests, pc[q] = "inside", Passes(q), Free # {}, Writes(asks[q])
  PROVE  RowsKept
<1>0. PICK a : a = asks[q]
  OBVIOUS
<1>1. /\ a \in Asks /\ customer \in [Customers -> CustomerRows]
      /\ card \in [Cards -> CardRows]
  BY <1>0 DEF CardInv, CardTyped
<1>2. /\ a.customer \in Customers /\ a.phone \in Phones /\ a.serial \in Serials
      /\ a.status \in Settable
  BY <1>1 DEF Asks
<1>3. StillThere(q)
  BY DEF CardInv, ReadsStand, PastFirstRead
<1>4. NewCard \in Free
  BY NewCardIsFree
<1>5. CASE a.kind = "register" /\ Register(a)
  <2>1. /\ customer[a.customer].status = "ABSENT"
        /\ customer' = [customer EXCEPT ![a.customer] = [status |-> "ACTIVE", phone |-> a.phone]]
        /\ card' = [card EXCEPT ![NewCard] = NewRow(a.customer, a.serial)]
        /\ UNCHANGED notices
    BY <1>5 DEF Register
  <2>2. [status |-> "ACTIVE", phone |-> a.phone] \in CustomerRows
    BY <1>2 DEF CustomerRows, Settable
  <2>3. /\ customer' \in [Customers -> CustomerRows]
        /\ customer'[a.customer].status = "ACTIVE"
        /\ \A c \in Customers \ {a.customer} : customer'[c] = customer[c]
    BY <1>1, <1>2, <2>1, <2>2
  <2>4. Known(a.customer)' /\ \A c \in Customers : Known(c) => Known(c)'
    BY <2>3 DEF Known
  <2>5. ActiveCards(a.customer) = {}
    BY <2>1 DEF ActiveCards, CardInv, InOrder, NoCard
  <2> QED
    BY <1>2, <1>4, <2>1, <2>3, <2>4, <2>5, IssueKeeps
<1>6. CASE a.kind = "issue" /\ Issue(a)
  <2>1. /\ card' = [card EXCEPT ![NewCard] = NewRow(a.customer, a.serial)]
        /\ UNCHANGED <<customer, notices>>
    BY <1>6 DEF Issue
  <2>2. Known(a.customer) /\ ActiveCards(a.customer) = {}
    BY <1>0, <1>3, <1>6 DEF StillThere, Passes
  <2>3. customer' \in [Customers -> CustomerRows] /\ \A c \in Customers : Known(c) <=> Known(c)'
    BY <1>1, <2>1 DEF Known
  <2> QED
    BY <1>2, <1>4, <2>1, <2>2, <2>3, IssueKeeps
<1>7. CASE a.kind = "replace" /\ Replace(a)
  <2>1. /\ card' = [card EXCEPT ![a.card].status = "REPLACED", ![a.card].by = NewCard,
                                ![NewCard] = NewRow(card[a.card].of, a.serial)]
        /\ notices' = [notices EXCEPT ![a.card] = @ + 1] /\ UNCHANGED customer
    BY <1>7 DEF Replace
  <2>2. a.card \in Cards /\ card[a.card].status = "ACTIVE"
    BY <1>0, <1>3, <1>7 DEF StillThere, Exists, Passes, StillActive
  <2> QED
    BY <1>2, <1>4, <2>1, <2>2, ReplaceKeeps
<1>8. CASE a.kind = "cardStatus" /\ SetCardStatus(a)
  <2>1. card' = [card EXCEPT ![a.card].status = a.status] /\ UNCHANGED <<customer, notices>>
    BY <1>8 DEF SetCardStatus
  <2>2. a.card \in Cards /\ card[a.card].status \in Settable
    BY <1>0, <1>3, <1>8 DEF StillThere, Exists, Passes, StillAsSeen
  <2>3. a.status = "ACTIVE" => ActiveCards(card[a.card].of) \subseteq {a.card}
    BY <1>0, <1>8 DEF Passes
  <2> QED
    BY <1>2, <2>1, <2>2, <2>3, SetStatusKeeps
<1>9. CASE a.kind = "update" /\ Update(a)
  <2>1. customer' = [customer EXCEPT ![a.customer].phone = a.phone] /\ UNCHANGED <<card, notices>>
    BY <1>9 DEF Update
  <2>2. [customer[a.customer] EXCEPT !.phone = a.phone] \in CustomerRows
    BY <1>1, <1>2 DEF CustomerRows
  <2>3. /\ customer' \in [Customers -> CustomerRows]
        /\ \A c \in Customers : customer'[c].status = customer[c].status
    BY <1>1, <1>2, <2>1, <2>2 DEF CustomerRows
  <2> QED
    BY <2>1, <2>3, CustomerKeeps DEF Known
<1>10. CASE a.kind = "customerStatus" /\ SetCustomerStatus(a)
  <2>1. customer' = [customer EXCEPT ![a.customer].status = a.status] /\ UNCHANGED <<card, notices>>
    BY <1>10 DEF SetCustomerStatus
  <2>2. [customer[a.customer] EXCEPT !.status = a.status] \in CustomerRows
        /\ [customer[a.customer] EXCEPT !.status = a.status].status # "ABSENT"
    BY <1>1, <1>2 DEF CustomerRows, Settable
  <2>3. /\ customer' \in [Customers -> CustomerRows]
        /\ customer'[a.customer].status # "ABSENT"
        /\ \A c \in Customers \ {a.customer} : customer'[c] = customer[c]
    BY <1>1, <1>2, <2>1, <2>2
  <2> QED
    BY <2>1, <2>3, CustomerKeeps DEF Known
<1>11. CASE a.kind = "withdraw" /\ Withdraw(a)
  <2>1. UNCHANGED <<customer, card, notices>>
    BY <1>11 DEF Withdraw
  <2> QED
    BY <1>1, <2>1, CustomerKeeps DEF Known
<1> QED
  BY <1>0, <1>5, <1>6, <1>7, <1>8, <1>9, <1>10, <1>11 DEF Writes

\* The transaction commits, and the record tells of it.
LEMMA CommitKeeps ==
  ASSUME CardInv, NEW q \in Requests, Commit(q)
  PROVE  CardInv'
<1>1. /\ pc[q] = "inside" /\ pc' = [pc EXCEPT ![q] = "answered"]
      /\ reply' = [reply EXCEPT ![q] = "DONE"] /\ record' = [record EXCEPT ![Slot(q)] = q]
      /\ UNCHANGED <<asks, gate, saw>>
  BY DEF Commit, Answer, Goto
<1>2. RowsKept
  BY <1>1, WritesKeep DEF Commit
<1>3. /\ pc \in [Requests -> Steps] /\ reply \in [Requests -> Replies \cup {None}]
      /\ record \in [Slots -> Requests \cup {None}] /\ Slot(q) \in Slots
  BY SlotTyped DEF CardInv, CardTyped
<1>4. /\ pc'[q] = "answered" /\ pc' \in [Requests -> Steps]
      /\ \A p \in Requests \ {q} : pc'[p] = pc[p]
      /\ reply'[q] = "DONE" /\ reply' \in [Requests -> Replies \cup {None}]
      /\ \A p \in Requests \ {q} : reply'[p] = reply[p]
  BY <1>1, <1>3 DEF Steps, Replies
<1>5. reply[q] = None
  BY <1>1 DEF CardInv, HandlersInOrder
<1>6. CardTyped'
  <2>1. record' \in [Slots -> Requests \cup {None}]
    BY <1>1, <1>3
  <2> QED
    BY <1>1, <1>2, <1>4, <2>1 DEF CardInv, CardTyped, RowsKept
<1>7. RecordsOfDone'
  <2>1. \A p \in Requests : reply[p] = "DONE" => reply'[p] = "DONE"
    BY <1>4
  <2>2. ASSUME NEW s \in Slots, record'[s] # None
        PROVE  reply'[record'[s]] = "DONE" /\ Slot(record'[s]) = s
    <3>1. CASE s = Slot(q)
      BY <1>1, <1>3, <1>4, <3>1
    <3>2. CASE s # Slot(q)
      <4>1. record'[s] = record[s] /\ record[s] # None /\ record[s] \in Requests
        BY <1>1, <1>3, <2>2, <3>2
      <4>2. reply[record[s]] = "DONE" /\ Slot(record[s]) = s
        BY <4>1 DEF CardInv, RecordsOfDone
      <4> QED
        BY <2>1, <4>1, <4>2
    <3> QED
      BY <3>1, <3>2
  <2> QED
    BY <1>1, <2>2 DEF RecordsOfDone, Slot
<1>8. HandlersInOrder'
  BY <1>1, <1>4, <1>5 DEF CardInv, HandlersInOrder
<1>9. ReadsStand'
  <2>1. OwnNotes(q)
    BY <1>1 DEF OwnNotes, CardInv, CardTyped
  <2> QED
    BY <1>1, <1>2, <1>4, <2>1, ReadsFrame DEF RowsKept, PastFirstRead
<1>10. RepliesTellTheTruth'
  BY <1>1, <1>4, <1>5, TruthFrame
<1> QED
  BY <1>2, <1>6, <1>7, <1>8, <1>9, <1>10 DEF CardInv, RowsKept

-----------------------------------------------------------------------------
(* The theorems. *)

\* The rows a mix starts with are in order, and nobody has been answered.
LEMMA InitCards == Init => CardInv
<1> SUFFICES ASSUME Init PROVE CardInv
  OBVIOUS
<1>1. PICK m \in Mixes : asks = m.asks /\ customer = m.customer /\ card = m.card
  BY DEF Init
<1>2. /\ m \in [asks : [Requests -> Asks], customer : [Customers -> CustomerRows],
                card : [Cards -> CardRows]]
      /\ InOrder(m.customer, m.card)
  BY CardAssumption
<1>3. InOrder(customer, card) /\ Announced
  BY <1>1, <1>2 DEF Init, Announced
<1>4. CardTyped
  BY <1>1, <1>2 DEF Init, CardTyped, Steps
<1>5. RecordsOfDone /\ HandlersInOrder /\ ReadsStand
  BY DEF Init, RecordsOfDone, HandlersInOrder, ReadsStand, PastFirstRead
<1>6. RepliesTellTheTruth
  BY CardAssumption DEF Init, RepliesTellTheTruth, Replies
<1> QED
  BY <1>3, <1>4, <1>5, <1>6 DEF CardInv

\* A step that changes neither rows nor handlers.
LEMMA StutterKeeps ==
  ASSUME CardInv, UNCHANGED <<asks, customer, card, notices, record, pc, gate, saw, reply>>
  PROVE  CardInv'
<1>1. InOrder(customer, card)' /\ Announced'
  BY RowsFrame
<1>2. CardTyped' /\ RecordsOfDone' /\ HandlersInOrder'
  BY DEF CardInv, CardTyped, RecordsOfDone, HandlersInOrder, Slot
<1>3. ReadsStand'
  BY DEF CardInv, ReadsStand, PastFirstRead, StillThere, Known, Exists
<1>4. RepliesTellTheTruth'
  BY DEF CardInv, RepliesTellTheTruth, Slot, SameBody
<1> QED
  BY <1>1, <1>2, <1>3, <1>4 DEF CardInv

\* Every step keeps the invariant.
LEMMA NextCards == CardInv /\ [Next]_vars => CardInv'
<1> SUFFICES ASSUME CardInv, [Next]_vars PROVE CardInv'
  OBVIOUS
<1>1. CASE UNCHANGED vars
  BY <1>1, StutterKeeps DEF vars
<1>2. ASSUME NEW s \in Slots, Lapse(s) PROVE CardInv'
  BY <1>2, StutterKeeps DEF Lapse, rows
<1>3. ASSUME NEW q \in Requests, Handle(q) \/ Lose(q) PROVE CardInv'
  BY <1>3, LookUpKeeps, ReadKeeps, OtherStepsKeep, CommitKeeps DEF Handle
<1> QED
  BY <1>1, <1>2, <1>3 DEF Next

\* The inductive invariant holds.
THEOREM CardInvariant == Spec => []CardInv
BY InitCards, NextCards, PTL DEF Spec

\* Cards in order are the chains the run checks.
LEMMA OrderIsChains == CardInv => CardsFormChains
<1> SUFFICES ASSUME CardInv PROVE CardsFormChains
  OBVIOUS
<1>1. ASSUME NEW c \in Customers PROVE Cardinality(ActiveCards(c)) <= 1
  <2>1. CASE ActiveCards(c) = {}
    BY <2>1, FS_EmptySet
  <2>2. CASE ActiveCards(c) # {}
    <3>1. PICK d \in ActiveCards(c) : TRUE
      BY <2>2
    <3>2. ActiveCards(c) = {d}
      BY <3>1 DEF ActiveCards, CardInv, InOrder
    <3>3. Cardinality({d}) = 1
      BY FS_Singleton
    <3> QED
      BY <3>2, <3>3
  <2> QED
    BY <2>1, <2>2
<1>2. \A d \in Cards :
        /\ card[d].status = "REPLACED" <=> card[d].by # None
        /\ card[d].by # None => /\ card[card[d].by].of = card[d].of
                                /\ \A x \in Cards : card[x].by = card[d].by => x = d
  BY DEF CardInv, InOrder
<1>3. \A d \in Cards : notices[d] = IF card[d].status = "REPLACED" THEN 1 ELSE 0
  BY DEF CardInv, Announced
<1> QED
  BY <1>1, <1>2, <1>3 DEF CardsFormChains

\* createCard, replaceCard, updateStatus and createCustomer, however many of them meet:
\* a customer has one active card at most, and replaced cards form chains.
THEOREM ChainsHold == Spec => []CardsFormChains
BY CardInvariant, OrderIsChains, PTL

\* findCardIdempotency: a replay and a conflict are never reported without a cause.
THEOREM CardRepliesTruthful == Spec => []RepliesTellTheTruth
<1>1. CardInv => RepliesTellTheTruth
  BY DEF CardInv
<1> QED
  BY <1>1, CardInvariant, PTL

\* A transaction changes no status but that of the card it had read.
LEMMA CommitFollowsWhatWasSeen ==
  ASSUME CardInv, NEW q \in Requests, Commit(q), NEW d \in Cards, Exists(d),
         card'[d].status # card[d].status
  PROVE  /\ pc[q] = "inside" /\ pc'[q] = "answered"
         /\ asks[q].card = d /\ saw[q] = card[d].status
<1> DEFINE a == asks[q]
<1>1. /\ pc[q] = "inside" /\ pc'[q] = "answered" /\ Writes(a) /\ Passes(q)
      /\ card \in [Cards -> CardRows]
  BY DEF Commit, Answer, Goto, CardInv, CardTyped
<1>2. StillThere(q)
  BY <1>1 DEF CardInv, ReadsStand, PastFirstRead
<1>3. NewCard \in Free /\ NewCard \in Cards /\ NewCard # d
  BY NewCardIsFree DEF Commit, Free, Exists
<1>4. CASE Register(a) \/ Issue(a)
  BY <1>1, <1>3, <1>4 DEF Register, Issue
<1>5. CASE Update(a) \/ SetCustomerStatus(a) \/ Withdraw(a)
  BY <1>5 DEF Update, SetCustomerStatus, Withdraw
<1>6. CASE a.kind = "replace" /\ Replace(a)
  <2>1. a.card \in Cards /\ saw[q] = "ACTIVE" /\ card[a.card].status = "ACTIVE"
    BY <1>1, <1>2, <1>6 DEF StillThere, Exists, Passes, StillActive
  <2>2. d = a.card
    BY <1>1, <1>3, <1>6, <2>1 DEF Replace
  <2> QED
    BY <1>1, <2>1, <2>2
<1>7. CASE a.kind = "cardStatus" /\ SetCardStatus(a)
  <2>1. a.card \in Cards /\ saw[q] = card[a.card].status
    BY <1>1, <1>2, <1>7 DEF StillThere, Exists, Passes, StillAsSeen
  <2>2. d = a.card
    BY <1>1, <1>7, <2>1 DEF SetCardStatus
  <2> QED
    BY <1>1, <2>1, <2>2
<1> QED
  BY <1>1, <1>4, <1>5, <1>6, <1>7 DEF Writes

\* replaceCard and updateStatus: optimistic concurrency on the status of a card.
THEOREM SeenBeforeChanged == Spec => ChangesFollowWhatWasSeen
<1>1. ASSUME CardInv, [Next]_vars, NEW d \in Cards, Exists(d), card'[d].status # card[d].status
      PROVE  \E q \in Requests : /\ pc[q] = "inside" /\ pc'[q] = "answered"
                                 /\ asks[q].card = d /\ saw[q] = card[d].status
  <2>1. \E q \in Requests : Commit(q)
    BY <1>1 DEF Next, Handle, Receive, LookUp, Read, Begin, Refuse, Abort, Lose, Lapse, vars,
         tables, rows
  <2> QED
    BY <1>1, <2>1, CommitFollowsWhatWasSeen
<1>2. CardInv /\ [Next]_vars =>
        [\A d \in Cards : Exists(d) /\ card'[d].status # card[d].status =>
           \E q \in Requests : /\ pc[q] = "inside" /\ pc'[q] = "answered"
                               /\ asks[q].card = d /\ saw[q] = card[d].status]_vars
  BY <1>1
<1> QED
  BY <1>2, CardInvariant, PTL DEF Spec, ChangesFollowWhatWasSeen

-----------------------------------------------------------------------------
(* Policy configuration. *)

\* The inductive invariant: what is saved, and who loads, with the types.
ConfigInv == ConfigTypeOK /\ NoLostUpdate /\ SingleFlight

\* Nobody has saved, and nobody loads.
LEMMA InitConfig == ConfigInit => ConfigInv
  BY ConfigurationAssumption
     DEF ConfigInit, ConfigInv, ConfigTypeOK, NoLostUpdate, SingleFlight, Empty, Ages, Errors,
         EditorStates, ReaderStates

\* A move changes where one editor, or one reader, stands and nothing else of it.
LEMMA EditorMovesTyped ==
  ASSUME ConfigTypeOK, NEW a \in Editors, NEW from,
         NEW to \in {"away", "editing", "writing", "saved", "conflict", "error"},
         EditorMoves(a, from, to)
  PROVE  editor' \in [Editors -> EditorStates]
<1>1. editor[a] \in EditorStates BY DEF ConfigTypeOK
<1>2. [editor[a] EXCEPT !.at = to] \in EditorStates BY <1>1 DEF EditorStates
<1> QED BY <1>2 DEF EditorMoves, ConfigTypeOK

LEMMA ReaderMovesTyped ==
  ASSUME ConfigTypeOK, NEW g \in Readers, NEW from,
         NEW to \in {"idle", "verifying", "confirmed", "denied", "loading", "loaded",
                     "joined"},
         ReaderMoves(g, from, to)
  PROVE  /\ reader' \in [Readers -> ReaderStates]
         /\ reader[g].at = from /\ reader'[g].at = to
         /\ \A h \in Readers \ {g} : reader'[h] = reader[h]
<1>1. reader[g] \in ReaderStates BY DEF ConfigTypeOK
<1>2. [reader[g] EXCEPT !.at = to] \in ReaderStates /\ [reader[g] EXCEPT !.at = to].at = to
  BY <1>1 DEF ReaderStates
<1> QED BY <1>2 DEF ReaderMoves, ConfigTypeOK

\* Saving: the row that is added was made from the row before it.
LEMMA EditKeeps ==
  ASSUME ConfigInv, NEW a \in Editors, LoadPolicy(a) \/ Edit(a)
  PROVE  ConfigInv'
<1> USE ConfigurationAssumption
<1> USE DEF ConfigInv, publicly
<1>1. CASE LoadPolicy(a)
  <2>1. Version \in Nat BY DEF ConfigTypeOK, Version
  <2>2. [at |-> "editing", base |-> Version] \in EditorStates BY <2>1 DEF EditorStates
  <2>3. editor' \in [Editors -> EditorStates] BY <1>1, <2>2 DEF LoadPolicy, ConfigTypeOK
  <2> QED BY <1>1, <2>3 DEF LoadPolicy, ConfigTypeOK, NoLostUpdate, SingleFlight
<1>2. CASE ReadCurrent(a)
  <2>1. editor' \in [Editors -> EditorStates]
    BY <1>2, EditorMovesTyped DEF ReadCurrent
  <2> QED BY <1>2, <2>1 DEF ReadCurrent, ConfigTypeOK, NoLostUpdate, SingleFlight
<1>3. CASE Save(a)
  <2>0. editor' \in [Editors -> EditorStates] BY <1>3, EditorMovesTyped DEF Save
  <2>1. CASE StillCurrent(a) /\ saved' = Append(saved, [by |-> a, base |-> editor[a].base])
    <3> DEFINE row == [by |-> a, base |-> editor[a].base]
    <3>1. row \in [by : Editors, base : Nat] /\ row.base = Len(saved)
      BY <2>1 DEF ConfigTypeOK, StillCurrent, Version, EditorStates
    <3>2. saved' \in Seq([by : Editors, base : Nat])
      BY <2>1, <3>1 DEF ConfigTypeOK
    <3>3. NoLostUpdate'
      <4> HIDE DEF row
      <4>1. /\ DOMAIN saved' = 1 .. Len(saved) + 1
            /\ \A i \in 1 .. Len(saved) : saved'[i] = saved[i]
            /\ saved'[Len(saved) + 1] = row
        BY <2>1, <3>1 DEF ConfigTypeOK, row
      <4>2. DOMAIN saved = 1 .. Len(saved) /\ Len(saved) \in Nat
        BY DEF ConfigTypeOK
      <4> QED BY <3>1, <4>1, <4>2 DEF NoLostUpdate
    <3>4. ConfigTypeOK' BY <1>3, <2>0, <3>2 DEF Save, ConfigTypeOK
    <3> QED BY <1>3, <3>3, <3>4 DEF Save, SingleFlight
  <2>2. CASE UNCHANGED saved
    BY <1>3, <2>0, <2>2 DEF Save, ConfigTypeOK, NoLostUpdate, SingleFlight
  <2> QED BY <1>3, <2>1, <2>2 DEF Save
<1>4. CASE Invalidate(a)
  <2>1. editor' \in [Editors -> EditorStates] BY <1>4, EditorMovesTyped DEF Invalidate
  <2>2. Empty \in [version : Nat \cup {Nothing}, age : Ages] BY DEF Empty, Ages
  <2> QED BY <1>4, <2>1, <2>2 DEF Invalidate, ConfigTypeOK, NoLostUpdate, SingleFlight
<1> QED BY <1>1, <1>2, <1>3, <1>4 DEF Edit

\* Whoever finds a load under way joins it; whoever does not becomes the one.
LEMMA JoinOrLoadKeeps ==
  ASSUME ConfigTypeOK, SingleFlight, NEW g \in Readers,
         NEW from \in {"idle", "denied"}, JoinOrLoad(g, from)
  PROVE  /\ SingleFlight'
         /\ refresh' \in Readers \cup {Nothing}
         /\ reader' \in [Readers -> ReaderStates]
<1> USE ConfigurationAssumption
<1>1. CASE refresh # Nothing /\ ReaderMoves(g, from, "joined") /\ UNCHANGED refresh
  BY <1>1, ReaderMovesTyped DEF ConfigTypeOK, SingleFlight
<1>2. CASE refresh = Nothing /\ ReaderMoves(g, from, "loading") /\ refresh' = g
  BY <1>2, ReaderMovesTyped DEF ConfigTypeOK, SingleFlight
<1> QED BY <1>1, <1>2 DEF JoinOrLoad

\* The load ends for the one who started it and for everyone who joined, together.
LEMMA SettleKeeps ==
  ASSUME ConfigTypeOK, SingleFlight, NEW g \in Readers,
         reader[g].at \in {"loading", "loaded"},
         NEW all \in Nat \cup Errors, NEW alone \in Nat \cup Errors,
         Settle(g, all, alone)
  PROVE  /\ SingleFlight'
         /\ refresh' \in Readers \cup {Nothing}
         /\ reader' \in [Readers -> ReaderStates]
         /\ answer' \in [Readers -> Nat \cup Errors \cup {Nothing}]
<1>1. [at |-> "idle", saw |-> Nothing] \in ReaderStates BY DEF ReaderStates
<1> QED BY <1>1, ConfigurationAssumption DEF Settle, ConfigTypeOK, SingleFlight

\* The steps of a request for the public configuration.
LEMMA ServeKeeps ==
  ASSUME ConfigInv, NEW g \in Readers, Ask(g) \/ Serve(g) \/ LoadFails(g)
  PROVE  ConfigInv'
<1> USE ConfigurationAssumption
<1> USE DEF ConfigInv
<1>1. CASE Ask(g)
  <2>1. CASE ReaderMoves(g, "idle", "verifying") /\ UNCHANGED refresh
    BY <1>1, <2>1, ReaderMovesTyped DEF Ask, ConfigTypeOK, NoLostUpdate, SingleFlight
  <2>2. CASE JoinOrLoad(g, "idle")
    BY <1>1, <2>2, JoinOrLoadKeeps DEF Ask, ConfigTypeOK, NoLostUpdate
  <2> QED BY <1>1, <2>1, <2>2 DEF Ask
<1>2. CASE Verify(g)
  <2> DEFINE to == IF active THEN "confirmed" ELSE "denied"
  <2>1. /\ ReaderMoves(g, "verifying", to)
        /\ UNCHANGED <<saved, editor, active, cache, refresh, answer, outages>>
    BY <1>2 DEF Verify
  <2>2. to \in {"confirmed", "denied"} OBVIOUS
  <2> HIDE DEF to
  <2>3. /\ reader' \in [Readers -> ReaderStates]
        /\ reader[g].at = "verifying" /\ reader'[g].at \in {"confirmed", "denied"}
        /\ \A h \in Readers \ {g} : reader'[h] = reader[h]
    BY <2>1, <2>2, ReaderMovesTyped
  <2> QED BY <2>1, <2>3 DEF ConfigTypeOK, NoLostUpdate, SingleFlight
<1>3. CASE AfterVerify(g)
  <2>1. CASE ReaderMoves(g, "confirmed", "idle") /\ UNCHANGED <<cache, refresh>>
             /\ Tell(g, IF cache.version = Nothing THEN SystemError ELSE cache.version)
    <3>1. answer' \in [Readers -> Nat \cup Errors \cup {Nothing}]
      BY <2>1 DEF Tell, Errors, ConfigTypeOK
    <3>2. /\ reader' \in [Readers -> ReaderStates]
          /\ reader[g].at = "confirmed" /\ reader'[g].at = "idle"
          /\ \A h \in Readers \ {g} : reader'[h] = reader[h]
      BY <2>1, ReaderMovesTyped
    <3> QED BY <1>3, <2>1, <3>1, <3>2 DEF AfterVerify, ConfigTypeOK, NoLostUpdate, SingleFlight
  <2>2. CASE JoinOrLoad(g, "denied") /\ cache' = Empty /\ UNCHANGED answer
    <3>1. Empty \in [version : Nat \cup {Nothing}, age : Ages] BY DEF Empty, Ages
    <3> QED BY <1>3, <2>2, <3>1, JoinOrLoadKeeps DEF AfterVerify, ConfigTypeOK, NoLostUpdate
  <2> QED BY <1>3, <2>1, <2>2 DEF AfterVerify
<1>4. CASE Load(g)
  <2>1. Version \in Nat BY DEF ConfigTypeOK, Version
  <2> DEFINE seen == [at |-> "loaded", saw |-> IF active THEN Version ELSE Nothing]
  <2>2. seen \in ReaderStates /\ seen.at = "loaded" BY <2>1 DEF ReaderStates
  <2> HIDE DEF seen
  <2>3. reader' = [reader EXCEPT ![g] = seen] BY <1>4 DEF Load, seen
  <2> QED BY <1>4, <2>2, <2>3 DEF Load, ConfigTypeOK, NoLostUpdate, SingleFlight
<1>5. CASE Finish(g)
  <2>1. CASE reader[g].saw # Nothing
    <3>1. reader[g].saw \in Nat BY <2>1 DEF ConfigTypeOK, ReaderStates
    <3>2. /\ Settle(g, reader[g].saw, reader[g].saw)
          /\ cache' = [version |-> reader[g].saw, age |-> "fresh"]
          /\ UNCHANGED outages
      <4>1. cache' = [version |-> reader[g].saw, age |-> "fresh"]
        BY <1>5, <2>1 DEF Finish
      <4> QED BY <1>5, <2>1, <4>1 DEF Finish
    <3>3. cache' \in [version : Nat \cup {Nothing}, age : Ages]
      BY <3>1, <3>2 DEF Ages
    <3>4. /\ SingleFlight' /\ refresh' \in Readers \cup {Nothing}
          /\ reader' \in [Readers -> ReaderStates]
          /\ answer' \in [Readers -> Nat \cup Errors \cup {Nothing}]
      BY <1>5, <3>1, <3>2, SettleKeeps DEF Finish
    <3> QED BY <3>2, <3>3, <3>4 DEF Settle, ConfigTypeOK, NoLostUpdate
  <2>2. CASE reader[g].saw = Nothing
    <3>1. Settle(g, Unavailable, Unavailable) /\ UNCHANGED <<cache, outages>>
      BY <1>5, <2>2 DEF Finish
    <3>2. Unavailable \in Nat \cup Errors BY DEF Errors
    <3>3. /\ SingleFlight' /\ refresh' \in Readers \cup {Nothing}
          /\ reader' \in [Readers -> ReaderStates]
          /\ answer' \in [Readers -> Nat \cup Errors \cup {Nothing}]
      BY <1>5, <3>1, <3>2, SettleKeeps DEF Finish
    <3> QED BY <3>1, <3>3 DEF Settle, ConfigTypeOK, NoLostUpdate
  <2> QED BY <2>1, <2>2
<1>6. CASE LoadFails(g)
  <2> DEFINE alone == IF cache.version # Nothing /\ cache.age # "old" THEN cache.version
                      ELSE SystemError
  <2>1. alone \in Nat \cup Errors BY DEF ConfigTypeOK, Errors
  <2>2. outages' \in 0 .. MaxOutages BY <1>6 DEF LoadFails, ConfigTypeOK
  <2>3. Settle(g, SystemError, alone) /\ reader[g].at = "loading" /\ UNCHANGED cache
    BY <1>6 DEF LoadFails
  <2> HIDE DEF alone
  <2>4. SystemError \in Nat \cup Errors BY DEF Errors
  <2>5. /\ SingleFlight' /\ refresh' \in Readers \cup {Nothing}
        /\ reader' \in [Readers -> ReaderStates]
        /\ answer' \in [Readers -> Nat \cup Errors \cup {Nothing}]
    BY <2>1, <2>3, <2>4, SettleKeeps
  <2> QED BY <2>2, <2>3, <2>5 DEF Settle, ConfigTypeOK, NoLostUpdate
<1> QED BY <1>1, <1>2, <1>3, <1>4, <1>5, <1>6 DEF Serve

\* Every step keeps the invariant.
LEMMA NextConfig == ConfigInv /\ [ConfigNext]_configVars => ConfigInv'
<1> SUFFICES ASSUME ConfigInv, [ConfigNext]_configVars PROVE ConfigInv'
  OBVIOUS
<1>1. CASE Age
  BY <1>1 DEF Age, Ages, ConfigInv, ConfigTypeOK, NoLostUpdate, SingleFlight
<1>2. CASE ChangeStatus
  BY <1>2 DEF ChangeStatus, publicly, ConfigInv, ConfigTypeOK, NoLostUpdate, SingleFlight
<1>3. CASE UNCHANGED configVars
  BY <1>3 DEF configVars, ConfigInv, ConfigTypeOK, NoLostUpdate, SingleFlight
<1> QED BY <1>1, <1>2, <1>3, EditKeeps, ServeKeeps DEF ConfigNext

LEMMA ConfigInvariant == ConfigSpec => []ConfigInv
  BY InitConfig, NextConfig, PTL DEF ConfigSpec

\* updatePolicyConfiguration: every committed policy was made from the one before it.
THEOREM NoSaveIsLost == ConfigSpec => []NoLostUpdate
  BY ConfigInvariant, PTL DEF ConfigInv

\* getPublicConfig: one load at a time, and nobody waits for a load that has ended.
THEOREM OneLoadServesAll == ConfigSpec => []SingleFlight
  BY ConfigInvariant, PTL DEF ConfigInv
=============================================================================
