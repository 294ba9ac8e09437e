--------------------------- MODULE MCCardLifecycle --------------------------
(* Small instances of CardLifecycle for TLC. *)
EXTENDS CardLifecycle

\* c1 holds a card that is in use and an older one that was blocked; c2 and c3 have
\* not registered.
FirstCustomers ==
  [c \in Customers |-> IF c = "c1" THEN [status |-> "ACTIVE", phone |-> "p1"]
                       ELSE [status |-> "ABSENT", phone |-> None]]
FirstCards ==
  [d \in Cards |-> CASE d = 1 -> [of |-> "c1", serial |-> "s1", status |-> "BLOCKED", by |-> None]
                     [] d = 2 -> [of |-> "c1", serial |-> "s2", status |-> "ACTIVE", by |-> None]
                     [] OTHER -> NoCard]

Ask(kind, key) == [kind |-> kind, key |-> key, customer |-> "c1", card |-> None,
                   phone |-> "p2", serial |-> "s3", status |-> "BLOCKED"]
Card(kind, key, d) == [Ask(kind, key) EXCEPT !.card = d]
Activate(key, d) == [Card("cardStatus", key, d) EXCEPT !.status = "ACTIVE"]
Block(key, d) == Card("cardStatus", key, d)

Meetings == {
  \* one card replaced twice, and blocked meanwhile
  <<Card("replace", "k1", 2), [Card("replace", "k2", 2) EXCEPT !.serial = "s4"], Block("k1", 2)>>,
  \* one replacement sent twice, and its key used for another
  <<Card("replace", "k1", 2), Card("replace", "k1", 2),
    [Card("replace", "k1", 2) EXCEPT !.serial = "s4"]>>,
  \* a card blocked and activated under a replacement
  <<Card("replace", "k1", 2), Block("k1", 2), Activate("k2", 2)>>,
  \* the older card comes back: activated, beside a new one, or beside a replacement
  <<Block("k1", 2), Activate("k2", 1), Card("replace", "k1", 2)>>,
  <<Block("k1", 2), Activate("k2", 1), Ask("issue", "k1")>>,
  <<Card("replace", "k1", 2), Ask("issue", "k1"), Block("k1", 2)>>,
  \* registrations and a change of number that meet on a phone, or on a serial
  <<[Ask("register", "k1") EXCEPT !.customer = "c2"],
    [Ask("register", "k2") EXCEPT !.customer = "c3", !.serial = "s4"], Ask("update", "k1")>>,
  <<[Ask("register", "k1") EXCEPT !.customer = "c2"], Card("replace", "k1", 2),
    Ask("withdraw", "k1")>>,
  \* the customer is blocked while the card is replaced or activated
  <<Ask("customerStatus", "k1"), Card("replace", "k1", 2), Activate("k1", 1)>>}

MCMixes == {[asks |-> m, customer |-> FirstCustomers, card |-> FirstCards] : m \in Meetings}
=============================================================================
