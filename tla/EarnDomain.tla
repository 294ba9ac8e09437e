----------------------------- MODULE EarnDomain -----------------------------
(***************************************************************************)
(* The requests that reach POST /transactions/earn, as the modules about    *)
(* that endpoint see them.  A key stands for the pair of actor and          *)
(* idempotency key; a payload for the fields that go into the request hash   *)
(* (card, receipt, amount, time, device, override reason).                  *)
(***************************************************************************)
CONSTANTS
  Requests,   \* HTTP requests, each sent at most once
  Keys,       \* (actor, idempotency key) pairs
  Payloads,   \* hashed request bodies
  Receipts,   \* physical receipts: branch, week and receipt number
  KeyOf,      \* the key a request carries
  PayloadOf,  \* the body a request carries
  ReceiptOf,  \* the receipt a body names
  None        \* no request

ASSUME RequestsAssumption ==
  /\ None \notin Requests
  /\ KeyOf \in [Requests -> Keys]
  /\ PayloadOf \in [Requests -> Payloads]
  /\ ReceiptOf \in [Payloads -> Receipts]

Captures == {"CONFIRMED", "PENDING_APPROVAL"}
Refusals == {"IDEMPOTENCY_CONFLICT", "RECEIPT_ALREADY_USED", "REJECTED",
             "EARN_TRANSACTION_CONFLICT"}
NotYet == "NONE"

Receipt(q) == ReceiptOf[PayloadOf[q]]
SameKey(p, q) == KeyOf[p] = KeyOf[q]
SamePayload(p, q) == PayloadOf[p] = PayloadOf[q]
SameReceipt(p, q) == Receipt(p) = Receipt(q)
=============================================================================
