--------------------------- MODULE CardLifecycle ----------------------------
(***************************************************************************)
(* CardsService and the writing half of CustomersService.  Each endpoint     *)
(* looks its idempotency key up, reads the rows it depends on one by one     *)
(* without a lock, and then runs one READ COMMITTED transaction, which opens *)
(* with the insertion of the key's record and is held to what the handler    *)
(* has read only by the conditions of its updates and by unique indexes.     *)
(* A phone number stands for phone and e-mail, a serial for its normal form. *)
(***************************************************************************)
EXTENDS Naturals, FiniteSets, Sequences

CONSTANTS
  Requests,   \* HTTP requests, each sent at most once
  Keys,       \* (actor, idempotency key) pairs
  Customers, Phones, Serials,
  MaxCards,   \* bound on the cards ever issued
  Mixes,      \* what the requests ask for, together with the rows they meet
  None

Kinds == {"register", "update", "customerStatus", "withdraw", "issue", "replace", "cardStatus"}
Cards == 1 .. MaxCards
Settable == {"ACTIVE", "BLOCKED"}

\* What a request asks for; a kind uses the fields it has a use for.
Asks == [kind : Kinds, key : Keys, customer : Customers, card : Cards \cup {None},
         phone : Phones, serial : Serials, status : Settable]
CustomerRows == [status : Settable \cup {"ABSENT"}, phone : Phones \cup {None}]
CardRows == [of : Customers \cup {None}, serial : Serials \cup {None},
             status : Settable \cup {"ABSENT", "REPLACED"}, by : Cards \cup {None}]
Replies == {"DONE", "REPLAYED", "IDEMPOTENCY_CONFLICT", "REJECTED", "ERROR"}
NoCard == [of |-> None, serial |-> None, status |-> "ABSENT", by |-> None]

\* Rows the services may have left behind: a card belongs to a customer who has
\* registered, one card of a customer at most is in use, and a card was replaced if and
\* only if it names its successor, which is the same customer's and succeeds no other.
InOrder(customers, cards) ==
  /\ \A d \in Cards :
       /\ \/ cards[d] = NoCard
          \/ /\ cards[d].status # "ABSENT"
             /\ cards[d].of \in Customers /\ customers[cards[d].of].status # "ABSENT"
       /\ cards[d].status = "REPLACED" <=> cards[d].by # None
       /\ cards[d].by # None => /\ cards[cards[d].by].of = cards[d].of
                                /\ \A x \in Cards : cards[x].by = cards[d].by => x = d
  /\ \A d, e \in Cards :
       cards[d].status = "ACTIVE" /\ cards[e].status = "ACTIVE" /\ cards[d].of = cards[e].of
       => d = e

ASSUME CardAssumption ==
  /\ MaxCards \in Nat
  /\ None \notin Requests /\ None \notin Cards /\ None \notin Customers /\ None \notin Replies
  /\ Mixes \subseteq [asks : [Requests -> Asks], customer : [Customers -> CustomerRows],
                      card : [Cards -> CardRows]]
  /\ \A m \in Mixes : InOrder(m.customer, m.card)

VARIABLES
  asks,      \* what the requests ask for
  customer,  \* Customer: status and phoneE164
  card,      \* Card: customerId, barcodeValue, status, replacedByCardId
  optedOut,  \* customers whose latest CustomerMarketingPreferenceEvent is OPTED_OUT
  notices,   \* card-replaced SMS intents, each with its fraud.evaluate event, of a card
  record,    \* the request that wrote the IdempotencyRecord of an endpoint and key
  stale,     \* records past their expiresAt
  pc,        \* where the handler of a request stands
  gate,      \* the reads it has behind it
  saw,       \* the status of the card it read
  reply

vars == <<asks, customer, card, optedOut, notices, record, stale, pc, gate, saw, reply>>
rows == <<customer, card, optedOut, notices>>
tables == <<rows, record, stale>>

Slots == Kinds \X Keys
Slot(q) == <<asks[q].kind, asks[q].key>>
\* The request hash is taken over the body and the actor.
SameBody(p, q) == asks[p] = asks[q]

Init == /\ \E m \in Mixes : asks = m.asks /\ customer = m.customer /\ card = m.card
        /\ optedOut = {}
        /\ notices = [c \in Cards |-> IF card[c].status = "REPLACED" THEN 1 ELSE 0]
        /\ record = [s \in Slots |-> None]
        /\ stale = {}
        /\ pc = [q \in Requests |-> "unsent"]
        /\ gate = [q \in Requests |-> 0]
        /\ saw = [q \in Requests |-> None]
        /\ reply = [q \in Requests |-> None]

Goto(q, from, to) == pc[q] = from /\ pc' = [pc EXCEPT ![q] = to]
Answer(q, from, a) == Goto(q, from, "answered") /\ reply' = [reply EXCEPT ![q] = a]

Receive(q) == Goto(q, "unsent", "received") /\ UNCHANGED <<asks, tables, gate, saw, reply>>

-----------------------------------------------------------------------------
(* findCardIdempotency and findCustomerIdempotency: an expired record goes, *)
(* one of this body is the answer, one of another body a conflict.          *)

Live(s) == record[s] # None /\ s \notin stale
\* Fault: the request hash is not compared.
ReplaysAnyBody(q) == Live(Slot(q))
Replays(q) == Live(Slot(q)) /\ SameBody(record[Slot(q)], q)

LookUp(q) ==
  /\ \/ Replays(q) /\ Answer(q, "received", "REPLAYED")
     \/ Live(Slot(q)) /\ ~Replays(q) /\ Answer(q, "received", "IDEMPOTENCY_CONFLICT")
     \/ ~Live(Slot(q)) /\ Goto(q, "received", "reading") /\ UNCHANGED reply
  /\ record' = [record EXCEPT ![Slot(q)] = IF Slot(q) \in stale THEN None ELSE @]
  /\ stale' = stale \ {Slot(q)}
  /\ UNCHANGED <<asks, rows, gate, saw>>

-----------------------------------------------------------------------------
(* The reads before the transaction, each an await of its own. *)

Known(c) == customer[c].status # "ABSENT"
ActiveCards(c) == {d \in Cards : card[d].of = c /\ card[d].status = "ACTIVE"}
SerialTaken(s) == \E d \in Cards : card[d].serial = s
PhoneTaken(p, but) == \E c \in Customers \ but : customer[c].phone = p
Exists(d) == d \in Cards /\ card[d].status # "ABSENT"

\* What the reads of a kind must find, in their order.
Gates(a) ==
  CASE a.kind = "register" -> <<~PhoneTaken(a.phone, {}), ~SerialTaken(a.serial)>>
    [] a.kind = "update" -> <<Known(a.customer), ~PhoneTaken(a.phone, {a.customer})>>
    [] a.kind = "issue" -> <<customer[a.customer].status = "ACTIVE", ~SerialTaken(a.serial),
                             ActiveCards(a.customer) = {}>>
    [] a.kind = "replace" -> <<Exists(a.card) /\ card[a.card].status = "ACTIVE",
                               Exists(a.card) /\ customer[card[a.card].of].status = "ACTIVE">>
    [] a.kind = "cardStatus" ->
         <<Exists(a.card) /\ card[a.card].status # "REPLACED"
             /\ (a.status = "ACTIVE" => customer[card[a.card].of].status = "ACTIVE")>>
    [] OTHER -> <<Known(a.customer)>>

Read(q) ==
  LET a == asks[q]
      g == gate[q] + 1
  IN  /\ pc[q] = "reading"
      /\ \/ /\ Gates(a)[g]
            /\ Goto(q, "reading", IF g = Len(Gates(a)) THEN "checked" ELSE "reading")
            /\ UNCHANGED reply
         \/ ~Gates(a)[g] /\ Answer(q, "reading", "REJECTED")
      /\ gate' = [gate EXCEPT ![q] = g]
      /\ saw' = [saw EXCEPT ![q] = IF g = 1 /\ Exists(a.card) THEN card[a.card].status ELSE @]
      /\ UNCHANGED <<asks, tables>>

-----------------------------------------------------------------------------
(* The transaction. *)

\* It inserts the record, which waits for a transaction that has inserted the same
\* one, and then looks again at what a replacement or an activation depends on.
OnlyOneInside(q) == \A p \in Requests : Slot(p) = Slot(q) => pc[p] # "inside"
Disturbed(a) ==
  \/ a.kind = "replace" /\ \E d \in Cards \ {a.card} : card[d].serial = a.serial
  \/ a.kind = "cardStatus" /\ a.status = "ACTIVE" /\ ActiveCards(card[a.card].of) \ {a.card} # {}

Begin(q) ==
  /\ pc[q] = "checked" /\ OnlyOneInside(q)
  /\ \/ record[Slot(q)] # None /\ Answer(q, "checked", "ERROR")
     \/ record[Slot(q)] = None /\ Disturbed(asks[q]) /\ Answer(q, "checked", "REJECTED")
     \/ /\ record[Slot(q)] = None /\ ~Disturbed(asks[q])
        /\ Goto(q, "checked", "inside")
        /\ UNCHANGED reply
  /\ UNCHANGED <<asks, tables, gate, saw>>

Free == {d \in Cards : card[d].status = "ABSENT"}
NewCard == CHOOSE d \in Free : \A x \in Free : d <= x
NewRow(c, serial) == [of |-> c, serial |-> serial, status |-> "ACTIVE", by |-> None]

\* The condition of replaceCard's updateMany, and of updateStatus's.
\* Fault: replaceCard updates the card by its id alone.
ReplaceableById(q) == TRUE
StillActive(q) == card[asks[q].card].status = "ACTIVE"
\* Fault: updateStatus updates the card by its id alone.
ChangeableById(q) == TRUE
StillAsSeen(q) == card[asks[q].card].status = saw[q]

\* What the conditions and the unique indexes let through: barcodeValue, phoneE164,
\* and Card_one_active_per_customer.
Passes(q) ==
  LET a == asks[q]
  IN  CASE a.kind = "register" -> ~PhoneTaken(a.phone, {}) /\ ~SerialTaken(a.serial)
        [] a.kind = "update" -> ~PhoneTaken(a.phone, {a.customer})
        [] a.kind = "issue" -> ~SerialTaken(a.serial) /\ ActiveCards(a.customer) = {}
        [] a.kind = "replace" -> StillActive(q) /\ ~SerialTaken(a.serial)
                                 /\ ActiveCards(card[a.card].of) \subseteq {a.card}
        [] a.kind = "cardStatus" ->
             StillAsSeen(q)
             /\ (a.status = "ACTIVE" => ActiveCards(card[a.card].of) \subseteq {a.card})
        [] OTHER -> TRUE

Register(a) ==
  /\ customer[a.customer].status = "ABSENT"   \* a new id
  /\ customer' = [customer EXCEPT ![a.customer] = [status |-> "ACTIVE", phone |-> a.phone]]
  /\ card' = [card EXCEPT ![NewCard] = NewRow(a.customer, a.serial)]
  /\ UNCHANGED <<optedOut, notices>>
Update(a) == /\ customer' = [customer EXCEPT ![a.customer].phone = a.phone]
             /\ UNCHANGED <<card, optedOut, notices>>
SetCustomerStatus(a) == /\ customer' = [customer EXCEPT ![a.customer].status = a.status]
                        /\ UNCHANGED <<card, optedOut, notices>>
Withdraw(a) == optedOut' = optedOut \cup {a.customer} /\ UNCHANGED <<customer, card, notices>>
Issue(a) == /\ card' = [card EXCEPT ![NewCard] = NewRow(a.customer, a.serial)]
            /\ UNCHANGED <<customer, optedOut, notices>>
Replace(a) ==
  /\ card' = [card EXCEPT ![a.card].status = "REPLACED", ![a.card].by = NewCard,
                          ![NewCard] = NewRow(card[a.card].of, a.serial)]
  /\ notices' = [notices EXCEPT ![a.card] = @ + 1]
  /\ UNCHANGED <<customer, optedOut>>
SetCardStatus(a) == /\ card' = [card EXCEPT ![a.card].status = a.status]
                    /\ UNCHANGED <<customer, optedOut, notices>>

Writes(a) == \/ a.kind = "register" /\ Register(a)
             \/ a.kind = "update" /\ Update(a)
             \/ a.kind = "customerStatus" /\ SetCustomerStatus(a)
             \/ a.kind = "withdraw" /\ Withdraw(a)
             \/ a.kind = "issue" /\ Issue(a)
             \/ a.kind = "replace" /\ Replace(a)
             \/ a.kind = "cardStatus" /\ SetCardStatus(a)

Commit(q) ==
  /\ Answer(q, "inside", "DONE")
  /\ Passes(q) /\ Free # {}
  /\ Writes(asks[q])
  /\ record' = [record EXCEPT ![Slot(q)] = q]
  /\ UNCHANGED <<asks, stale, gate, saw>>

\* normalizeCardWriteError answers for the cards' indexes; the customers' do not.
Refuse(q) == /\ Answer(q, "inside", IF asks[q].kind \in {"register", "update"} THEN "ERROR"
                                    ELSE "REJECTED")
             /\ ~Passes(q)
             /\ UNCHANGED <<asks, tables, gate, saw>>

\* The database ends the transaction: a deadlock, a timeout, a lost connection.
Abort(q) == Answer(q, "inside", "ERROR") /\ UNCHANGED <<asks, tables, gate, saw>>

Handle(q) == Receive(q) \/ LookUp(q) \/ Read(q) \/ Begin(q) \/ Commit(q) \/ Refuse(q) \/ Abort(q)

\* The process dies, and what it had not committed is rolled back.
Lose(q) == /\ pc[q] \notin {"unsent", "answered", "lost"}
           /\ pc' = [pc EXCEPT ![q] = "lost"]
           /\ UNCHANGED <<asks, tables, gate, saw, reply>>

\* The 24 hours of a record pass.
Lapse(s) == /\ Live(s)
            /\ stale' = stale \cup {s}
            /\ UNCHANGED <<asks, rows, record, pc, gate, saw, reply>>

Next == \/ \E q \in Requests : Handle(q) \/ Lose(q)
        \/ \E s \in Slots : Lapse(s)

Spec == Init /\ [][Next]_vars

-----------------------------------------------------------------------------
\* openspec/specs/card-lifecycle-correctness/spec.md, "Preserve lifecycle concurrency":
\* however the requests meet, a customer has one active card at most, a card was replaced
\* if and only if it names its successor, which is the same customer's and no other
\* card's, and every replacement is announced exactly once.
CardsFormChains ==
  /\ \A c \in Customers : Cardinality(ActiveCards(c)) <= 1
  /\ \A d \in Cards :
       /\ card[d].status = "REPLACED" <=> card[d].by # None
       /\ card[d].by # None => /\ card[card[d].by].of = card[d].of
                               /\ \A x \in Cards : card[x].by = card[d].by => x = d
       /\ notices[d] = IF card[d].status = "REPLACED" THEN 1 ELSE 0

\* Optimistic concurrency: the status of a card that exists is changed by nobody who
\* has not read the status it has.
ChangesFollowWhatWasSeen ==
  [][\A d \in Cards : Exists(d) /\ card'[d].status # card[d].status =>
       \E q \in Requests : /\ pc[q] = "inside" /\ pc'[q] = "answered"
                           /\ asks[q].card = d /\ saw[q] = card[d].status]_vars

\* A key's answer is given to none but its own request: a replay repeats a request that
\* was carried out, and a conflict is reported only over one that was another.
RepliesTellTheTruth ==
  \A q \in Requests :
    LET done == {p \in Requests : reply[p] = "DONE" /\ Slot(p) = Slot(q)}
    IN  /\ reply[q] = "REPLAYED" => \E p \in done : SameBody(p, q)
        /\ reply[q] = "IDEMPOTENCY_CONFLICT" => \E p \in done : ~SameBody(p, q)
=============================================================================
