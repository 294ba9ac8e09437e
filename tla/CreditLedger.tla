---------------------------- MODULE CreditLedger ----------------------------
(***************************************************************************)
(* The store-credit ledger of ShopCity: the committed rows of               *)
(* LoyaltyLedgerEntry, CreditLot, RedemptionAllocation,                     *)
(* AllocationRestoration and CreditExpiry, and every financial transaction  *)
(* that writes them.                                                        *)
(*                                                                          *)
(* Each writer (earn, redemption settlement, manual adjustment, reversal,   *)
(* expiry sweep) runs in one SERIALIZABLE database transaction, so each is   *)
(* one action here; a transaction that is refused or that loses a            *)
(* serialization conflict leaves the rows as they were and is no step.       *)
(*                                                                          *)
(* Ledger rows are numbered in commit order.  A credit lot belongs to        *)
(* exactly one credit entry (CreditLot.earnLedgerEntryId is unique), so a    *)
(* lot is named by the number of that entry.  The random row ids that break  *)
(* ties between lots are the constant Rank.                                  *)
(***************************************************************************)
EXTENDS Naturals, FiniteSets, KoboSums

CONSTANTS
  Customers,         \* active customers of one tenant
  Receipts,          \* physical POS receipts
  None,              \* "no customer", "no receipt"
  Purchases,         \* purchase and basket amounts, in kobo
  Adjustments,       \* amounts of manual adjustments, in kobo
  EarnRateBps,       \* DEFAULT_EARN_RATE_BPS
  MinRedemption,     \* MIN_REDEMPTION_KOBO
  MaxBasketPercent,  \* MAX_REDEMPTION_BASKET_PERCENT
  LotLife,           \* twelve months, in clock ticks
  Rank,              \* order of the random row ids
  BatchSize,         \* lots one expiry sweep takes at most
  MaxEntries,        \* bound: ledger rows
  MaxTime            \* bound: the clock

Ids == 1 .. MaxEntries
Times == 0 .. MaxTime

ASSUME ConstantsAssumption ==
  /\ None \notin Customers \cup Receipts
  /\ Purchases \subseteq Nat \ {0}
  /\ Adjustments \subseteq Nat \ {0}
  /\ EarnRateBps \in Nat \ {0}
  /\ MinRedemption \in Nat \ {0}
  /\ MaxBasketPercent \in 1 .. 100
  /\ LotLife \in Nat \ {0}
  /\ BatchSize \in Nat \ {0}
  /\ MaxEntries \in Nat
  /\ MaxTime \in Nat
  /\ Rank \in [Ids -> Nat]
  /\ \A a, b \in Ids : Rank[a] = Rank[b] => a = b

VARIABLES
  now,         \* the database clock
  size,        \* rows 1 .. size of the ledger are committed
  ledger,      \* LoyaltyLedgerEntry, by row number
  expiresAt,   \* CreditLot.expiresAt, by the row of the lot's credit entry
  remaining,   \* CreditLot.remainingAmountKobo
  alloc,       \* alloc[d][l]: amount debit entry d took from lot l, 0 if no row
  restored,    \* restored[d][l]: how much of alloc[d][l] reversals gave back
  expired,     \* CreditExpiry.amountKobo of the lot, 0 if no row
  redemption   \* Redemption.status of the receipt

vars == <<now, size, ledger, expiresAt, remaining, alloc, restored, expired,
          redemption>>

Types == {"EARN", "REDEEM", "ADJUSTMENT", "REVERSAL", "EXPIRY", "NONE"}
Directions == {"CREDIT", "DEBIT", "NONE"}

EntrySet == [type : Types, direction : Directions, amount : Nat,
             customer : Customers \cup {None}, receipt : Receipts \cup {None},
             reverses : Ids \cup {0}]

\* Number 0 in "reverses" is the null of reversesEntryId.
Entry(type, direction, amount, customer, receipt, reverses) ==
  [type |-> type, direction |-> direction, amount |-> amount,
   customer |-> customer, receipt |-> receipt, reverses |-> reverses]

Blank == Entry("NONE", "NONE", 0, None, None, 0)

Nothing == [l \in Ids |-> 0]

(***************************************************************************)
(* Reading the tables.                                                      *)
(***************************************************************************)
IsLot(e) == \/ ledger[e].type = "EARN"
            \/ ledger[e].type = "ADJUSTMENT" /\ ledger[e].direction = "CREDIT"

IsAllocatedDebit(e) ==
  \/ ledger[e].type = "REDEEM"
  \/ ledger[e].type = "ADJUSTMENT" /\ ledger[e].direction = "DEBIT"

\* Fault: the expiry instant itself still counts as unexpired.
LapsedLate(l) == expiresAt[l] < now
Lapsed(l) == expiresAt[l] <= now

LotsOf(c) == {l \in Ids : IsLot(l) /\ ledger[l].customer = c}

EligibleLots(c) == {l \in LotsOf(c) : remaining[l] > 0 /\ ~Lapsed(l)}

ActiveBalance(c) == Total(remaining, EligibleLots(c))

\* ORDER BY expiresAt, earnedAt, id.  Every lot lives LotLife from earnedAt, so
\* earnedAt orders lots exactly as expiresAt does.
\* Fault: lots are taken in row-id order.
PrecedesById(a, b) == Rank[a] < Rank[b]
Precedes(a, b) == \/ expiresAt[a] < expiresAt[b]
                  \/ expiresAt[a] = expiresAt[b] /\ Rank[a] < Rank[b]

Reversed(e) == \E v \in Ids : ledger[v].reverses = e

UnusedReceipt(r) == \A e \in Ids : ledger[e].receipt # r

\* Fault: the settlement pair of a receipt is not looked up.
NoReceiptPeers(e) == {}
ReceiptPeers(e) == {p \in Ids \ {e} : /\ ledger[e].receipt # None
                                      /\ ledger[p].receipt = ledger[e].receipt}

\* Integer division rounded up: a fraction of a kobo is a kobo for the customer.
EarnAmount(paid) == (paid * EarnRateBps + 9999) \div 10000

MaximumAllowed(c, basket) ==
  Smaller(ActiveBalance(c), (basket * MaxBasketPercent) \div 100)

(***************************************************************************)
(* planAllocations: walk the lots in order and take from each what is still *)
(* missing.  When the lots before l hold Ahead(lots, l), lot l gives the     *)
(* rest of the amount or all it has.                                         *)
(***************************************************************************)
Ahead(lots, l) == Total(remaining, {m \in lots : Precedes(m, l)})

\* Fault: the running remainder is not reduced from lot to lot.
PlanWithoutRunningRest(lots, amount) ==
  [l \in Ids |-> IF l \in lots THEN Smaller(remaining[l], amount) ELSE 0]
\* Fault: a lot is charged the whole rest, whatever it holds.
PlanWithoutLotLimit(lots, amount) ==
  [l \in Ids |-> IF l \in lots /\ Ahead(lots, l) < amount
                 THEN amount - Ahead(lots, l) ELSE 0]
PlanAllocations(lots, amount) ==
  [l \in Ids |-> IF l \in lots /\ Ahead(lots, l) < amount
                 THEN Smaller(remaining[l], amount - Ahead(lots, l)) ELSE 0]

(***************************************************************************)
(* planRestorations: what a reversal of debit d gives back to each lot, and  *)
(* whether it may (no touched lot has expired, something is left to give).   *)
(***************************************************************************)
\* Fault: only the lot that comes first gets its money back.
RestorableOfFirst(d) ==
  [l \in Ids |-> IF \E m \in Ids : alloc[d][m] > 0 /\ Precedes(m, l)
                 THEN 0 ELSE alloc[d][l] - restored[d][l]]
Restorable(d) == [l \in Ids |-> alloc[d][l] - restored[d][l]]

\* Fault: expired lots are restored too.
CanRestoreAnyLot(d) == Total(Restorable(d), Ids) > 0
CanRestore(d) == /\ \A l \in Ids : alloc[d][l] > 0 => ~Lapsed(l)
                 /\ Total(Restorable(d), Ids) > 0

\* Fault: the sweep writes off the amount the lot was opened with.
WriteOffOriginal(l) == ledger[l].amount
WriteOff(l) == remaining[l]

(***************************************************************************)
(* Initial state: an empty ledger.                                          *)
(***************************************************************************)
Init == /\ now = 0
        /\ size = 0
        /\ ledger = [e \in Ids |-> Blank]
        /\ expiresAt = Nothing
        /\ remaining = Nothing
        /\ alloc = [d \in Ids |-> Nothing]
        /\ restored = [d \in Ids |-> Nothing]
        /\ expired = Nothing
        /\ redemption = [r \in Receipts |-> "NONE"]

\* The rows a transaction appends must fit under the bound MaxEntries.
Fits(rows) == size + rows <= MaxEntries

(***************************************************************************)
(* earn, directly or when an approval is executed: an EARN credit for the    *)
(* receipt and the lot it opens, aged from the time of the purchase, which   *)
(* a supervisor may put in the past or in the future.                        *)
(***************************************************************************)
Earn(c, r, purchase, occurredAt) ==
  LET e == size + 1
      credit == EarnAmount(purchase)
  IN  /\ Fits(1)
      /\ UnusedReceipt(r)
      /\ size' = e
      /\ ledger' = [ledger EXCEPT ![e] = Entry("EARN", "CREDIT", credit, c, r, 0)]
      /\ remaining' = [remaining EXCEPT ![e] = credit]
      /\ expiresAt' = [expiresAt EXCEPT ![e] = occurredAt + LotLife]
      /\ UNCHANGED <<now, alloc, restored, expired, redemption>>

(***************************************************************************)
(* executeRedemptionSettlement, from redeem or from an approved redemption:  *)
(* the REDEEM debit is allocated over the lots first, then the part of the   *)
(* basket paid in money earns a new lot on the same receipt.                 *)
(***************************************************************************)
Settle(c, r, basket, amount, occurredAt) ==
  LET d == size + 1
      plan == PlanAllocations(EligibleLots(c), amount)
      credit == EarnAmount(basket - amount)
      rows == IF credit > 0 THEN 2 ELSE 1
      earned == [e \in Ids |-> credit > 0 /\ e = size + 2]
  IN  /\ MinRedemption <= amount
      /\ amount <= MaximumAllowed(c, basket)
      /\ Fits(rows)
      /\ UnusedReceipt(r)
      /\ size' = size + rows
      /\ ledger' = [e \in Ids |->
           IF e = d THEN Entry("REDEEM", "DEBIT", amount, c, r, 0)
           ELSE IF earned[e] THEN Entry("EARN", "CREDIT", credit, c, r, 0)
           ELSE ledger[e]]
      /\ alloc' = [alloc EXCEPT ![d] = plan]
      /\ remaining' = [e \in Ids |-> IF earned[e] THEN credit
                                     ELSE remaining[e] - plan[e]]
      /\ expiresAt' = [e \in Ids |-> IF earned[e] THEN occurredAt + LotLife
                                     ELSE expiresAt[e]]
      /\ redemption' = [redemption EXCEPT ![r] = "CONFIRMED"]
      /\ UNCHANGED <<now, restored, expired>>

(***************************************************************************)
(* createAdjustment, both kinds.                                            *)
(***************************************************************************)
AdjustCredit(c, amount, effectiveAt) ==
  LET e == size + 1
  IN  /\ Fits(1)
      /\ size' = e
      /\ ledger' = [ledger EXCEPT
           ![e] = Entry("ADJUSTMENT", "CREDIT", amount, c, None, 0)]
      /\ remaining' = [remaining EXCEPT ![e] = amount]
      /\ expiresAt' = [expiresAt EXCEPT ![e] = effectiveAt + LotLife]
      /\ UNCHANGED <<now, alloc, restored, expired, redemption>>

AdjustDebit(c, amount) ==
  LET d == size + 1
      plan == PlanAllocations(EligibleLots(c), amount)
  IN  /\ Fits(1)
      /\ amount <= ActiveBalance(c)
      /\ size' = d
      /\ ledger' = [ledger EXCEPT
           ![d] = Entry("ADJUSTMENT", "DEBIT", amount, c, None, 0)]
      /\ alloc' = [alloc EXCEPT ![d] = plan]
      /\ remaining' = [l \in Ids |-> remaining[l] - plan[l]]
      /\ UNCHANGED <<now, expiresAt, restored, expired, redemption>>

(***************************************************************************)
(* reverse, one entry at a time.  A credit is taken back by a debit on its   *)
(* own lot, which must be whole and unexpired; a debit is given back to the  *)
(* lots it came from.                                                       *)
(***************************************************************************)
ReverseCredit(e) ==
  LET d == size + 1
  IN  /\ Fits(1)
      /\ IsLot(e)
      /\ ReceiptPeers(e) = {}
      /\ ~Reversed(e)
      /\ ~Lapsed(e)
      /\ remaining[e] = ledger[e].amount
      /\ size' = d
      /\ ledger' = [ledger EXCEPT ![d] =
           Entry("ADJUSTMENT", "DEBIT", ledger[e].amount, ledger[e].customer, None, e)]
      /\ alloc' = [alloc EXCEPT ![d] = [Nothing EXCEPT ![e] = ledger[e].amount]]
      /\ remaining' = [remaining EXCEPT ![e] = remaining[e] - ledger[e].amount]
      /\ UNCHANGED <<now, expiresAt, restored, expired, redemption>>

ReverseDebit(e) ==
  LET v == size + 1
      back == Restorable(e)
  IN  /\ Fits(1)
      /\ IsAllocatedDebit(e)
      /\ ReceiptPeers(e) = {}
      /\ ~Reversed(e)
      /\ CanRestore(e)
      /\ size' = v
      /\ ledger' = [ledger EXCEPT ![v] =
           Entry("REVERSAL", "CREDIT", Total(back, Ids), ledger[e].customer, None, e)]
      /\ remaining' = [l \in Ids |-> remaining[l] + back[l]]
      /\ restored' = [restored EXCEPT ![e] = [l \in Ids |-> @[l] + back[l]]]
      /\ redemption' = [r \in Receipts |->
           IF ledger[e].type = "REDEEM" /\ ledger[e].receipt = r
           THEN "REVERSED" ELSE redemption[r]]
      /\ UNCHANGED <<now, expiresAt, alloc, expired>>

(***************************************************************************)
(* reversePairedSettlement: both entries of a settled receipt in one         *)
(* transaction, and only when nothing of either has been touched.            *)
(***************************************************************************)
ReversePair(earn, redeem) ==
  LET d == size + 1
      v == size + 2
      back == Restorable(redeem)
      credit == ledger[earn].amount
  IN  /\ Fits(2)
      /\ ledger[earn].type = "EARN" /\ ledger[redeem].type = "REDEEM"
      /\ ReceiptPeers(earn) = {redeem}
      /\ ledger[earn].customer = ledger[redeem].customer
      /\ redemption[ledger[redeem].receipt] = "CONFIRMED"
      /\ ~Reversed(earn) /\ ~Reversed(redeem)
      /\ remaining[earn] = credit
      /\ ~Lapsed(earn)
      /\ alloc[redeem][earn] = 0
      /\ restored[redeem] = Nothing
      /\ \A l \in Ids : alloc[redeem][l] > 0 =>
           remaining[l] + alloc[redeem][l] <= ledger[l].amount
      /\ CanRestore(redeem)
      /\ Total(back, Ids) = ledger[redeem].amount
      /\ size' = v
      /\ ledger' = [ledger EXCEPT
           ![d] = Entry("ADJUSTMENT", "DEBIT", credit, ledger[earn].customer, None, earn),
           ![v] = Entry("REVERSAL", "CREDIT", Total(back, Ids),
                        ledger[redeem].customer, None, redeem)]
      /\ alloc' = [alloc EXCEPT ![d] = [Nothing EXCEPT ![earn] = credit]]
      /\ remaining' = [l \in Ids |-> IF l = earn THEN remaining[l] - credit
                                     ELSE remaining[l] + back[l]]
      /\ restored' = [restored EXCEPT ![redeem] = [l \in Ids |-> @[l] + back[l]]]
      /\ redemption' = [redemption EXCEPT ![ledger[redeem].receipt] = "REVERSED"]
      /\ UNCHANGED <<now, expiresAt, expired>>

(***************************************************************************)
(* expireDueCredit: one sweep writes off a batch of due lots, in order.      *)
(* FOR UPDATE SKIP LOCKED passes over the lots some other transaction holds, *)
(* so the batch is any part of the due lots.                                 *)
(***************************************************************************)
DueLots == {l \in Ids : IsLot(l) /\ remaining[l] > 0 /\ Lapsed(l)}

ExpireDueCredit(batch) ==
  LET row(l) == size + 1 + Cardinality({m \in batch : Precedes(m, l)})
      swept == [e \in Ids |-> {l \in batch : row(l) = e}]
  IN  /\ batch # {} /\ Cardinality(batch) <= BatchSize
      /\ Fits(Cardinality(batch))
      /\ size' = size + Cardinality(batch)
      /\ ledger' = [e \in Ids |->
           IF swept[e] = {} THEN ledger[e]
           ELSE LET l == CHOOSE l \in swept[e] : TRUE
                IN  Entry("EXPIRY", "DEBIT", WriteOff(l), ledger[l].customer, None, 0)]
      /\ expired' = [l \in Ids |-> IF l \in batch THEN WriteOff(l) ELSE expired[l]]
      /\ remaining' = [l \in Ids |-> IF l \in batch THEN 0 ELSE remaining[l]]
      /\ UNCHANGED <<now, expiresAt, alloc, restored, redemption>>

Tick == /\ now < MaxTime
        /\ now' = now + 1
        /\ UNCHANGED <<size, ledger, expiresAt, remaining, alloc, restored,
                       expired, redemption>>

Next ==
  \/ \E c \in Customers, r \in Receipts, p \in Purchases, t \in Times :
       Earn(c, r, p, t)
  \/ \E c \in Customers, r \in Receipts, p \in Purchases, t \in Times :
       \E a \in 1 .. p : Settle(c, r, p, a, t)
  \/ \E c \in Customers, a \in Adjustments, t \in Times : AdjustCredit(c, a, t)
  \/ \E c \in Customers, a \in Adjustments : AdjustDebit(c, a)
  \/ \E e \in Ids : ReverseCredit(e)
  \/ \E e \in Ids : ReverseDebit(e)
  \/ \E e, d \in Ids : ReversePair(e, d)
  \/ \E batch \in SUBSET DueLots : ExpireDueCredit(batch)
  \/ Tick

Spec == Init /\ [][Next]_vars

-----------------------------------------------------------------------------
(***************************************************************************)
(* The types of the rows.                                                    *)
(***************************************************************************)
TypeOK ==
  /\ now \in Times
  /\ size \in 0 .. MaxEntries
  /\ ledger \in [Ids -> EntrySet]
  /\ expiresAt \in [Ids -> Nat]
  /\ remaining \in [Ids -> Nat]
  /\ alloc \in [Ids -> [Ids -> Nat]]
  /\ restored \in [Ids -> [Ids -> Nat]]
  /\ expired \in [Ids -> Nat]
  /\ redemption \in [Receipts -> {"NONE", "CONFIRMED", "REVERSED"}]

\* What debits still hold of lot l: their allocations less the restorations.
Held(l) == Total([d \in Ids |-> alloc[d][l] - restored[d][l]], Ids)

\* What the deferred trigger validate_credit_lot_balance_evidence_for_lot demands
\* of every lot at commit: what remains is the original amount less allocations,
\* plus restorations, less the expiry.  Holding it, no transaction of the services
\* is ever rejected by that trigger, and no lot is overdrawn or overfilled.
LotEvidence ==
  \A l \in Ids : IsLot(l) => remaining[l] + Held(l) + expired[l] = ledger[l].amount

SumOf(c, direction) ==
  LET rows == {e \in Ids : ledger[e].customer = c /\ ledger[e].direction = direction}
  IN  Total([e \in Ids |-> ledger[e].amount], rows)

\* The customer's money according to the append-only ledger (credits less debits)
\* is the money in the customer's lots: no order of earns, settlements,
\* adjustments, reversals and sweeps makes the two books drift apart.
LedgerMatchesLots ==
  \A c \in Customers :
    SumOf(c, "CREDIT") = SumOf(c, "DEBIT") + Total(remaining, LotsOf(c))

\* A reversal of a debit gives back all of it, to the lots it came from; one that
\* can give back only a part is refused (REVERSAL_REVIEW_REQUIRED).
ReversalsRestoreInFull ==
  \A v \in Ids : ledger[v].type = "REVERSAL" =>
    LET d == ledger[v].reverses
    IN  ledger[v].amount = ledger[d].amount /\ restored[d] = alloc[d]

\* A lot the sweep has written off stays empty: no reversal of an old debit
\* refills it, so its expiry row keeps telling the truth.
WrittenOffForGood == \A l \in Ids : expired[l] > 0 => remaining[l] = 0

\* The EARN and the REDEEM of one receipt are reversed together or not at all,
\* and the redemption row says REVERSED exactly when they are.
SettlementReversedAsUnit ==
  \A d \in Ids : ledger[d].type = "REDEEM" =>
    /\ Reversed(d) <=> redemption[ledger[d].receipt] = "REVERSED"
    /\ \A e \in Ids : ledger[e].receipt = ledger[d].receipt =>
         (Reversed(e) <=> Reversed(d))

\* A debit that is not a reversal empties the lots that expire sooner before it
\* touches one that expires later (first to expire, first out).
FirstExpiringFirst ==
  [][\A l, m \in Ids :
       /\ size' > size
       /\ ledger'[size + 1].direction = "DEBIT"
       /\ ledger'[size + 1].type \in {"REDEEM", "ADJUSTMENT"}
       /\ ledger'[size + 1].reverses = 0
       /\ remaining'[l] < remaining[l]
       /\ m \in EligibleLots(ledger[l].customer)
       /\ expiresAt[m] < expiresAt[l]
       => remaining'[m] = 0]_vars

\* From its expiry instant on a lot is neither spent nor refilled: the only
\* change it may still see is the sweep that empties it.
OnlyExpiryTouchesLapsedLots ==
  [][\A l \in Ids :
       IsLot(l) /\ expiresAt[l] <= now /\ remaining'[l] # remaining[l]
       => remaining'[l] = 0 /\ expired'[l] = remaining[l]]_vars

\* An entry's effect stands unless a reversal of it does: the reversal may itself
\* have been reversed.
Stands(e) == ~\E v \in Ids : ledger[v].reverses = e /\ ~Reversed(v)

\* docs/TRD.md:445: "A paired settlement is reversed as a group; single-leg
\* reversal fails closed for review."
PairStandsOrFallsTogether ==
  \A d \in Ids : ledger[d].type = "REDEEM" =>
    \A e \in Ids : ledger[e].receipt = ledger[d].receipt => (Stands(e) <=> Stands(d))
=============================================================================
