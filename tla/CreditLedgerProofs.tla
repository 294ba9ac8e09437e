------------------------- MODULE CreditLedgerProofs -------------------------
(***************************************************************************)
(* For every number of customers, receipts, rows and ticks and every rate:  *)
(* the tables keep their types, every lot satisfies the balance evidence    *)
(* the database demands at commit, a written-off lot stays empty, nothing   *)
(* but the expiry sweep touches a lot from its expiry instant on, the       *)
(* ledger and the lots agree about every customer's money, reversals give   *)
(* back all of a debit, a settled receipt is reversed as a whole, and       *)
(* debits spend what expires first.                                         *)
(***************************************************************************)
EXTENDS CreditLedger, FunctionTheorems, FiniteSetTheorems, TLAPS

-----------------------------------------------------------------------------
(* Sums of amounts. *)

\* One amount is that many kobos.
LEMMA OneTo ==
  ASSUME NEW n \in Nat
  PROVE  IsFiniteSet(1 .. n) /\ Cardinality(1 .. n) = n
<1>1. 1 \in Int /\ n \in Int
  OBVIOUS
<1>2. /\ IsFiniteSet(1 .. n)
      /\ Cardinality(1 .. n) = IF 1 > n THEN 0 ELSE n - 1 + 1
  BY ONLY <1>1, FS_Interval
<1>3. (IF 1 > n THEN 0 ELSE n - 1 + 1) = n
  OBVIOUS
<1> QED
  BY ONLY <1>2, <1>3

\* A finite table of amounts holds finitely many kobos.
LEMMA KobosFinite ==
  ASSUME NEW S, IsFiniteSet(S), NEW f, \A s \in S : f[s] \in Nat
  PROVE  IsFiniteSet(Kobos(f, S))
<1> DEFINE pile == [s \in S |-> {s} \X (1 .. f[s])]
           piles == {{s} \X (1 .. f[s]) : s \in S}
<1>1. pile \in Surjection(S, piles)
  BY DEF Surjection
<1>2. IsFiniteSet(piles)
  BY <1>1, FS_Surjection
<1>3. ASSUME NEW s \in S
      PROVE  IsFiniteSet({s} \X (1 .. f[s]))
  <2>1. IsFiniteSet(1 .. f[s])
    BY OneTo
  <2>2. IsFiniteSet({s})
    BY FS_Singleton
  <2> QED
    BY <2>1, <2>2, FS_Product
<1>4. \A T \in piles : IsFiniteSet(T)
  BY <1>3
<1> QED
  BY <1>2, <1>4, FS_UNION DEF Kobos

\* A sum of amounts is an amount.
LEMMA TotalNat ==
  ASSUME NEW S, IsFiniteSet(S), NEW f, \A s \in S : f[s] \in Nat
  PROVE  Total(f, S) \in Nat
BY KobosFinite, FS_CardinalityType DEF Total

\* Nothing adds up to nothing.
LEMMA TotalZero ==
  ASSUME NEW S, NEW f, \A s \in S : f[s] = 0
  PROVE  Total(f, S) = 0
<1>1. Kobos(f, S) = {}
  BY DEF Kobos
<1> QED
  BY <1>1, FS_EmptySet DEF Total

\* The sum depends on the amounts only.
LEMMA TotalSame ==
  ASSUME NEW S, NEW f, NEW g, \A s \in S : f[s] = g[s]
  PROVE  Total(f, S) = Total(g, S)
<1>1. Kobos(f, S) = Kobos(g, S)
  BY DEF Kobos
<1> QED
  BY <1>1 DEF Total

\* One amount and the rest.
LEMMA TotalSplit ==
  ASSUME NEW S, IsFiniteSet(S), NEW f, \A s \in S : f[s] \in Nat, NEW d \in S
  PROVE  Total(f, S) = Total(f, S \ {d}) + f[d]
<1> DEFINE rest == Kobos(f, S \ {d})
           own == {d} \X (1 .. f[d])
<1>1. Kobos(f, S) = rest \cup own
  BY DEF Kobos
<1>2. rest \cap own = {}
  BY DEF Kobos
<1>3. IsFiniteSet(S \ {d})
  BY FS_Difference
<1>4. IsFiniteSet(rest) /\ Cardinality(rest) \in Nat
  BY <1>3, KobosFinite, FS_CardinalityType
<1>5. IsFiniteSet(own) /\ Cardinality(own) = f[d]
  <2>1. IsFiniteSet(1 .. f[d]) /\ Cardinality(1 .. f[d]) = f[d]
    <3>1. f[d] \in Nat
      OBVIOUS
    <3> QED
      BY <3>1, OneTo, Zenon
  <2>2. IsFiniteSet({d}) /\ Cardinality({d}) = 1
    BY FS_Singleton
  <2>3. IsFiniteSet(own) /\ Cardinality(own) = Cardinality({d}) * Cardinality(1 .. f[d])
    BY ONLY <2>1, <2>2, FS_Product, Zenon
  <2>4. f[d] \in Nat
    OBVIOUS
  <2> HIDE DEF own
  <2> QED
    BY ONLY <2>1, <2>2, <2>3, <2>4
<1> HIDE DEF rest, own
<1>6. Cardinality(rest \cup own) =
        Cardinality(rest) + Cardinality(own) - Cardinality(rest \cap own)
  BY <1>4, <1>5, FS_Union
<1>7. Cardinality(rest \cap own) = 0
  BY <1>2, FS_EmptySet
<1>8. Cardinality(rest \cup own) = Cardinality(rest) + f[d]
  BY <1>4, <1>5, <1>6, <1>7
<1> QED
  BY <1>1, <1>8 DEF Total, rest

\* When a single amount changes, the sum changes by as much.
LEMMA TotalUpdate ==
  ASSUME NEW S, IsFiniteSet(S), NEW f, NEW g, NEW d \in S,
         \A s \in S : f[s] \in Nat /\ g[s] \in Nat,
         \A s \in S \ {d} : g[s] = f[s]
  PROVE  Total(g, S) + f[d] = Total(f, S) + g[d]
<1>1. Total(f, S) = Total(f, S \ {d}) + f[d]
  BY TotalSplit
<1>2. Total(g, S) = Total(g, S \ {d}) + g[d]
  BY TotalSplit
<1>3. Total(f, S \ {d}) = Total(g, S \ {d})
  BY TotalSame
<1>4. Total(f, S \ {d}) \in Nat
  BY TotalNat, FS_Difference
<1> QED
  BY <1>1, <1>2, <1>3, <1>4

\* A finite set that another one maps onto one to one counts the same.
LEMMA SameCount ==
  ASSUME NEW S, IsFiniteSet(S), NEW T, NEW b \in [S -> T],
         \A x, y \in S : b[x] = b[y] => x = y,
         \A t \in T : \E s \in S : b[s] = t
  PROVE  IsFiniteSet(T) /\ Cardinality(T) = Cardinality(S)
<1>1. b \in Bijection(S, T)
  BY DEF Bijection, Injection, Surjection, IsInjective
<1> QED
  BY <1>1, FS_Bijection DEF ExistsBijection

\* Counting two finite sets that have nothing in common.
LEMMA DisjointCount ==
  ASSUME NEW S, NEW T, IsFiniteSet(S), IsFiniteSet(T), S \cap T = {}
  PROVE  Cardinality(S \cup T) = Cardinality(S) + Cardinality(T)
<1>1. Cardinality(S \cap T) = 0
  BY FS_EmptySet
<1>2. Cardinality(S) \in Nat /\ Cardinality(T) \in Nat
  BY FS_CardinalityType
<1>3. Cardinality(S \cup T) = Cardinality(S) + Cardinality(T) - Cardinality(S \cap T)
  BY FS_Union
<1> QED
  BY <1>1, <1>2, <1>3

\* What is in a pile of kobos.
LEMMA InKobos ==
  ASSUME NEW S, NEW f, NEW p
  PROVE  p \in Kobos(f, S) <=> \E s \in S, k \in Nat : k \in 1 .. f[s] /\ p = <<s, k>>
BY DEF Kobos

\* The sum of two tables is the table of the sums.
LEMMA TotalPlus ==
  ASSUME NEW S, IsFiniteSet(S), NEW f, NEW g, NEW h,
         \A s \in S : f[s] \in Nat /\ g[s] \in Nat /\ h[s] = f[s] + g[s]
  PROVE  Total(h, S) = Total(f, S) + Total(g, S)
<1> DEFINE A == Kobos(f, S)
           B == Kobos(g, S)
           C == Kobos(h, S)
           D == {p \in C : p[2] > f[p[1]]}
           b == [p \in B |-> <<p[1], f[p[1]] + p[2]>>]
<1>1. IsFiniteSet(A) /\ IsFiniteSet(B)
  BY KobosFinite
<1>2. b \in [B -> D]
  <2> SUFFICES ASSUME NEW p \in B PROVE <<p[1], f[p[1]] + p[2]>> \in D
    OBVIOUS
  <2>1. PICK s \in S, k \in Nat : k \in 1 .. g[s] /\ p = <<s, k>>
    BY InKobos
  <2>2. f[s] \in Nat /\ g[s] \in Nat /\ h[s] = f[s] + g[s] /\ k \in Nat
    OBVIOUS
  <2>3. f[s] + k \in 1 .. h[s] /\ f[s] + k > f[s]
    BY <2>1, <2>2
  <2>4. <<s, f[s] + k>> \in C
    BY <2>3, InKobos
  <2> QED
    BY <2>1, <2>3, <2>4
<1>3. ASSUME NEW p \in B, NEW q \in B, b[p] = b[q]
      PROVE  p = q
  <2>1. PICK s \in S, k \in Nat : k \in 1 .. g[s] /\ p = <<s, k>>
    BY InKobos
  <2>2. PICK t \in S, j \in Nat : j \in 1 .. g[t] /\ q = <<t, j>>
    BY InKobos
  <2>3. <<s, f[s] + k>> = <<t, f[t] + j>>
    BY <1>3, <2>1, <2>2
  <2>4. s = t /\ f[s] + k = f[s] + j
    BY <2>3
  <2>5. k = j
    BY <2>4
  <2> QED
    BY <2>1, <2>2, <2>4, <2>5
<1>4. ASSUME NEW p \in D PROVE \E q \in B : b[q] = p
  <2>1. PICK s \in S, k \in Nat : k \in 1 .. h[s] /\ p = <<s, k>>
    BY InKobos
  <2>2. f[s] \in Nat /\ g[s] \in Nat /\ h[s] = f[s] + g[s] /\ k > f[s]
    BY <2>1
  <2>3. k - f[s] \in 1 .. g[s] /\ f[s] + (k - f[s]) = k
    BY <2>1, <2>2
  <2>4. <<s, k - f[s]>> \in B
    BY <2>3, InKobos
  <2>5. b[<<s, k - f[s]>>] = p
    BY <2>1, <2>3, <2>4
  <2> QED
    BY <2>4, <2>5
<1>5. C = A \cup D
  <2>1. ASSUME NEW p \in C PROVE p \in A \cup D
    <3>1. PICK s \in S, k \in Nat : k \in 1 .. h[s] /\ p = <<s, k>>
      BY InKobos
    <3>2. CASE k > f[s]
      BY <3>1, <3>2
    <3>3. CASE k <= f[s]
      BY <3>1, <3>3, InKobos
    <3> QED
      BY <3>1, <3>2, <3>3
  <2>2. ASSUME NEW p \in A PROVE p \in C
    <3>1. PICK s \in S, k \in Nat : k \in 1 .. f[s] /\ p = <<s, k>>
      BY InKobos
    <3>2. k \in 1 .. h[s]
      BY <3>1
    <3> QED
      BY <3>1, <3>2, InKobos
  <2> QED
    BY <2>1, <2>2
<1>6. A \cap D = {}
  <2> SUFFICES ASSUME NEW p \in A, p \in D PROVE FALSE
    OBVIOUS
  <2>1. PICK s \in S, k \in Nat : k \in 1 .. f[s] /\ p = <<s, k>>
    BY InKobos
  <2> QED
    BY <2>1
<1> HIDE DEF A, B, C, D, b
<1>7. IsFiniteSet(D) /\ Cardinality(D) = Cardinality(B)
  BY <1>1, <1>2, <1>3, <1>4, SameCount
<1>8. Cardinality(C) = Cardinality(A) + Cardinality(B)
  BY <1>1, <1>5, <1>6, <1>7, DisjointCount
<1> QED
  BY <1>8 DEF Total, A, B, C

\* The sum over a part of the table, the rest read as nothing.
LEMMA TotalPart ==
  ASSUME NEW S, NEW T \in SUBSET S, NEW f, NEW g,
         \A s \in S : g[s] = IF s \in T THEN f[s] ELSE 0
  PROVE  Total(f, T) = Total(g, S)
<1>1. Kobos(f, T) = Kobos(g, S)
  <2>1. ASSUME NEW p \in Kobos(f, T) PROVE p \in Kobos(g, S)
    BY InKobos
  <2>2. ASSUME NEW p \in Kobos(g, S) PROVE p \in Kobos(f, T)
    <3>1. PICK s \in S, k \in Nat : k \in 1 .. g[s] /\ p = <<s, k>>
      BY InKobos
    <3>2. s \in T
      BY <3>1
    <3> QED
      BY <3>1, <3>2, InKobos
  <2> QED
    BY <2>1, <2>2
<1> QED
  BY <1>1 DEF Total

\* A table with a single amount in it.
LEMMA TotalOnly ==
  ASSUME NEW S, IsFiniteSet(S), NEW d \in S, NEW f, f[d] \in Nat,
         \A s \in S \ {d} : f[s] = 0
  PROVE  Total(f, S) = f[d]
<1>1. Total(f, S) = Total(f, S \ {d}) + f[d]
  BY TotalSplit
<1>2. Total(f, S \ {d}) = 0
  BY TotalZero
<1> QED
  BY <1>1, <1>2

\* A part holds no more than the whole.
LEMMA TotalWithin ==
  ASSUME NEW S, IsFiniteSet(S), NEW T \in SUBSET S, NEW f, \A s \in S : f[s] \in Nat
  PROVE  Total(f, T) <= Total(f, S)
<1>1. Kobos(f, T) \in SUBSET Kobos(f, S)
  BY DEF Kobos
<1>2. IsFiniteSet(Kobos(f, S))
  BY KobosFinite
<1> QED
  BY <1>1, <1>2, FS_Subset DEF Total

\* Renumbering the rows of a table, each to a row of its own, keeps the sum.
LEMMA TotalRenumbered ==
  ASSUME NEW S, IsFiniteSet(S), NEW T, NEW f, NEW g, NEW b \in [S -> T],
         \A s \in S : f[s] \in Nat /\ g[b[s]] = f[s],
         \A x, y \in S : b[x] = b[y] => x = y,
         \A t \in T : (\A s \in S : b[s] # t) => g[t] = 0
  PROVE  Total(g, T) = Total(f, S)
<1> DEFINE A == Kobos(f, S)
           B == Kobos(g, T)
           m == [p \in A |-> <<b[p[1]], p[2]>>]
<1>1. IsFiniteSet(A)
  BY KobosFinite
<1>2. m \in [A -> B]
  <2> SUFFICES ASSUME NEW p \in A PROVE <<b[p[1]], p[2]>> \in B
    OBVIOUS
  <2>1. PICK s \in S, k \in Nat : k \in 1 .. f[s] /\ p = <<s, k>>
    BY InKobos
  <2>2. b[s] \in T /\ k \in 1 .. g[b[s]]
    BY <2>1
  <2>3. <<b[s], k>> \in B
    BY <2>2, InKobos
  <2> QED
    BY <2>1, <2>3
<1>3. ASSUME NEW p \in A, NEW q \in A, m[p] = m[q]
      PROVE  p = q
  <2>1. PICK s \in S, k \in Nat : k \in 1 .. f[s] /\ p = <<s, k>>
    BY InKobos
  <2>2. PICK t \in S, j \in Nat : j \in 1 .. f[t] /\ q = <<t, j>>
    BY InKobos
  <2>3. <<b[s], k>> = <<b[t], j>>
    BY <1>3, <2>1, <2>2
  <2> QED
    BY <2>1, <2>2, <2>3
<1>4. ASSUME NEW p \in B PROVE \E q \in A : m[q] = p
  <2>1. PICK t \in T, k \in Nat : k \in 1 .. g[t] /\ p = <<t, k>>
    BY InKobos
  <2>2. PICK s \in S : b[s] = t
    BY <2>1
  <2>3. <<s, k>> \in A
    BY <2>1, <2>2, InKobos
  <2> QED
    BY <2>1, <2>2, <2>3
<1> HIDE DEF A, B, m
<1>5. Cardinality(B) = Cardinality(A)
  BY <1>1, <1>2, <1>3, <1>4, SameCount
<1> QED
  BY <1>5 DEF Total, A, B

-----------------------------------------------------------------------------
(* The tables: types, balance evidence, expiry. *)

\* Rows that are not committed yet hold nothing.
FreeRowsEmpty ==
  \A e \in Ids : e > size =>
    ledger[e] = Blank /\ alloc[e] = Nothing /\ restored[e] = Nothing

\* Only credit lots hold money, are allocated from or are written off.
OnlyLotsHoldMoney ==
  \A l \in Ids : ~IsLot(l) =>
    remaining[l] = 0 /\ expired[l] = 0 /\ \A d \in Ids : alloc[d][l] = 0

\* A debit never gets back more than it took.
RestoredWithinAllocated ==
  \A d, l \in Ids : restored[d][l] <= alloc[d][l]

\* What was written off had expired, and is gone.
WrittenOffLapsed ==
  \A l \in Ids : expired[l] > 0 => remaining[l] = 0 /\ Lapsed(l)

\* The invariant of the tables, inductive on its own.
LedgerInv ==
  /\ TypeOK
  /\ FreeRowsEmpty
  /\ OnlyLotsHoldMoney
  /\ RestoredWithinAllocated
  /\ WrittenOffLapsed
  /\ LotEvidence

\* There are finitely many rows.
LEMMA IdsFinite == IsFiniteSet(Ids) /\ \A S \in SUBSET Ids : IsFiniteSet(S)
<1>1. IsFiniteSet(Ids)
  BY ConstantsAssumption, FS_Interval DEF Ids
<1> QED
  BY <1>1, FS_Subset

\* The two-dimensional tables hold amounts.
LEMMA CellTypes ==
  ASSUME TypeOK, NEW d \in Ids, NEW l \in Ids
  PROVE  /\ alloc[d] \in [Ids -> Nat] /\ restored[d] \in [Ids -> Nat]
         /\ alloc[d][l] \in Nat /\ restored[d][l] \in Nat
<1>1. alloc[d] \in [Ids -> Nat] /\ restored[d] \in [Ids -> Nat]
  BY DEF TypeOK
<1> QED
  BY <1>1

\* An earn or the earning half of a settlement credits a whole number of kobos.
LEMMA EarnAmountNat == ASSUME NEW p \in Nat PROVE EarnAmount(p) \in Nat
<1>1. p * EarnRateBps \in Nat
  BY ConstantsAssumption
<1> DEFINE x == p * EarnRateBps
<1> HIDE DEF x
<1>2. (x + 9999) \div 10000 \in Nat
  BY <1>1 DEF x
<1> QED
  BY <1>2 DEF EarnAmount, x

\* planAllocations takes from eligible lots only, and from none more than it holds.
LEMMA PlanWithinLots ==
  ASSUME TypeOK, NEW lots \in SUBSET Ids, NEW amount \in Nat
  PROVE  LET plan == PlanAllocations(lots, amount)
         IN  /\ plan \in [Ids -> Nat]
             /\ \A l \in Ids : plan[l] <= remaining[l]
             /\ \A l \in Ids : plan[l] > 0 => l \in lots
<1> DEFINE plan == PlanAllocations(lots, amount)
<1>1. remaining \in [Ids -> Nat]
  BY DEF TypeOK
<1>2. \A l \in Ids : Ahead(lots, l) \in Nat
  BY <1>1, IdsFinite, TotalNat DEF Ahead
<1>3. ASSUME NEW l \in Ids
      PROVE  plan[l] \in Nat /\ plan[l] <= remaining[l] /\ (plan[l] > 0 => l \in lots)
  <2>1. Ahead(lots, l) \in Nat /\ remaining[l] \in Nat
    BY <1>1, <1>2
  <2>2. plan[l] = IF l \in lots /\ Ahead(lots, l) < amount
                  THEN Smaller(remaining[l], amount - Ahead(lots, l)) ELSE 0
    BY DEF PlanAllocations
  <2> QED
    BY <2>1, <2>2 DEF Smaller
<1>4. plan = [l \in Ids |-> plan[l]]
  BY DEF PlanAllocations
<1> HIDE DEF plan
<1>5. plan \in [Ids -> Nat]
  BY <1>3, <1>4
<1> QED
  BY <1>3, <1>5 DEF plan

\* What debits hold of a lot is an amount.
LEMMA HeldNat ==
  ASSUME TypeOK, RestoredWithinAllocated, NEW l \in Ids
  PROVE  Held(l) \in Nat
<1> DEFINE f == [d \in Ids |-> alloc[d][l] - restored[d][l]]
<1>1. \A d \in Ids : f[d] \in Nat
  BY CellTypes DEF RestoredWithinAllocated
<1> QED
  BY <1>1, IdsFinite, TotalNat DEF Held

\* When the rows of one debit change, what is held of a lot changes by as much.
LEMMA HeldChange ==
  ASSUME NEW l \in Ids, NEW d \in Ids,
         TypeOK, RestoredWithinAllocated, TypeOK', RestoredWithinAllocated',
         \A e \in Ids \ {d} : alloc'[e][l] = alloc[e][l] /\ restored'[e][l] = restored[e][l]
  PROVE  /\ Held(l)' \in Nat
         /\ Held(l)' + (alloc[d][l] - restored[d][l])
              = Held(l) + (alloc'[d][l] - restored'[d][l])
<1> DEFINE f == [e \in Ids |-> alloc[e][l] - restored[e][l]]
           g == [e \in Ids |-> alloc'[e][l] - restored'[e][l]]
<1>1. \A e \in Ids : f[e] \in Nat /\ g[e] \in Nat
  <2> TAKE e \in Ids
  <2>1. alloc[e][l] \in Nat /\ restored[e][l] \in Nat /\ restored[e][l] <= alloc[e][l]
    BY CellTypes DEF RestoredWithinAllocated
  <2>2. alloc'[e] \in [Ids -> Nat] /\ restored'[e] \in [Ids -> Nat]
    BY DEF TypeOK
  <2>3. restored'[e][l] <= alloc'[e][l]
    BY DEF RestoredWithinAllocated
  <2> QED
    BY <2>1, <2>2, <2>3
<1>2. \A e \in Ids \ {d} : g[e] = f[e]
  OBVIOUS
<1>3. f[d] = alloc[d][l] - restored[d][l] /\ g[d] = alloc'[d][l] - restored'[d][l]
  OBVIOUS
<1>4. Held(l) = Total(f, Ids) /\ Held(l)' = Total(g, Ids)
  BY DEF Held
<1> HIDE DEF f, g
<1>5. Total(g, Ids) + f[d] = Total(f, Ids) + g[d]
  <2>1. PICK F, G : F = f /\ G = g
    OBVIOUS
  <2>2. \A e \in Ids : F[e] \in Nat /\ G[e] \in Nat
    BY <1>1, <2>1
  <2>3. \A e \in Ids \ {d} : G[e] = F[e]
    BY <1>2, <2>1
  <2>4. Total(G, Ids) + F[d] = Total(F, Ids) + G[d]
    BY ONLY IdsFinite, TotalUpdate, <2>2, <2>3, d \in Ids
  <2> QED
    BY <2>1, <2>4
<1>6. Total(g, Ids) \in Nat
  BY <1>1, IdsFinite, TotalNat
<1> QED
  BY <1>3, <1>4, <1>5, <1>6

\* When no debit changes, what is held of a lot stays.
LEMMA HeldSame ==
  ASSUME NEW l \in Ids, \A e \in Ids : alloc'[e][l] = alloc[e][l] /\ restored'[e][l] = restored[e][l]
  PROVE  Held(l)' = Held(l)
BY TotalSame DEF Held

\* A lot no debit took from is held by none.
LEMMA HeldZero ==
  ASSUME NEW l \in Ids, \A d \in Ids : alloc[d][l] = 0 /\ restored[d][l] = 0
  PROVE  Held(l) = 0
<1> DEFINE f == [d \in Ids |-> alloc[d][l] - restored[d][l]]
<1>1. \A d \in Ids : f[d] = 0
  OBVIOUS
<1>2. Total(f, Ids) = 0
  <2> HIDE DEF f
  <2> QED
    BY <1>1, TotalZero
<1> QED
  BY <1>2 DEF Held

\* An uncommitted row is no lot, and no lot is uncommitted.
LEMMA LotsCommitted ==
  ASSUME LedgerInv, NEW e \in Ids, e > size
  PROVE  /\ ~IsLot(e) /\ ~IsAllocatedDebit(e)
         /\ remaining[e] = 0 /\ expired[e] = 0
         /\ \A d \in Ids : alloc[d][e] = 0 /\ restored[d][e] = 0
         /\ \A l \in Ids : alloc[e][l] = 0 /\ restored[e][l] = 0
<1>1. ledger[e] = Blank /\ alloc[e] = Nothing /\ restored[e] = Nothing
  BY DEF LedgerInv, FreeRowsEmpty
<1>2. ~IsLot(e) /\ ~IsAllocatedDebit(e)
  BY <1>1 DEF IsLot, IsAllocatedDebit, Blank, Entry
<1>3. remaining[e] = 0 /\ expired[e] = 0 /\ \A d \in Ids : alloc[d][e] = 0
  BY <1>2 DEF LedgerInv, OnlyLotsHoldMoney
<1>4. \A d \in Ids : restored[d][e] = 0
  <2> TAKE d \in Ids
  <2>1. restored[d][e] \in Nat /\ restored[d][e] <= alloc[d][e]
    BY CellTypes DEF LedgerInv, RestoredWithinAllocated
  <2> QED
    BY <1>3, <2>1
<1>5. \A l \in Ids : alloc[e][l] = 0 /\ restored[e][l] = 0
  BY <1>1 DEF Nothing
<1> QED
  BY <1>2, <1>3, <1>4, <1>5

\* Opening a lot in the next row (earn, credit adjustment) keeps the invariant.
LEMMA OpenLot ==
  ASSUME LedgerInv, NEW e \in Ids, NEW x \in EntrySet, NEW t \in Nat,
         e = size + 1,
         x.type = "EARN" \/ (x.type = "ADJUSTMENT" /\ x.direction = "CREDIT"),
         size' = e,
         ledger' = [ledger EXCEPT ![e] = x],
         remaining' = [remaining EXCEPT ![e] = x.amount],
         expiresAt' = [expiresAt EXCEPT ![e] = t],
         UNCHANGED <<now, alloc, restored, expired, redemption>>
  PROVE  LedgerInv'
<1>1. TypeOK
  BY DEF LedgerInv
<1>2. size \in Nat /\ Ids \subseteq Nat /\ e \in 0 .. MaxEntries
  BY <1>1, ConstantsAssumption DEF TypeOK, Ids
<1>3. x.amount \in Nat
  BY DEF EntrySet
<1>4. TypeOK'
  BY <1>1, <1>2, <1>3 DEF TypeOK
<1>5. FreeRowsEmpty'
  BY <1>1, <1>2 DEF TypeOK, LedgerInv, FreeRowsEmpty
<1>6. \A l \in Ids \ {e} : IsLot(l)' <=> IsLot(l)
  BY <1>1 DEF TypeOK, IsLot
<1>7. IsLot(e)'
  BY <1>1 DEF TypeOK, IsLot
<1>8. OnlyLotsHoldMoney'
  BY <1>1, <1>6, <1>7 DEF TypeOK, LedgerInv, OnlyLotsHoldMoney
<1>9. RestoredWithinAllocated'
  BY DEF LedgerInv, RestoredWithinAllocated
<1>10. remaining[e] = 0 /\ expired[e] = 0 /\ \A d \in Ids : alloc[d][e] = 0 /\ restored[d][e] = 0
  BY <1>2, LotsCommitted
<1>11. WrittenOffLapsed'
  BY <1>1, <1>10 DEF TypeOK, LedgerInv, WrittenOffLapsed, Lapsed
<1>12. ASSUME NEW l \in Ids, IsLot(l)'
       PROVE  (remaining[l] + Held(l) + expired[l] = ledger[l].amount)'
  <2>1. Held(l)' = Held(l)
    BY HeldSame
  <2>2. CASE l # e
    BY <1>1, <1>6, <1>12, <2>1, <2>2 DEF TypeOK, LedgerInv, LotEvidence
  <2>3. CASE l = e
    <3>1. Held(e) = 0
      BY <1>10, HeldZero
    <3> QED
      BY <1>1, <1>3, <1>10, <2>1, <2>3, <3>1 DEF TypeOK
  <2> QED
    BY <2>2, <2>3
<1> QED
  BY <1>4, <1>5, <1>8, <1>9, <1>11, <1>12 DEF LedgerInv, LotEvidence

\* Charging a debit in the next row to lots that are not lapsed (debit adjustment,
\* reversal of a credit) keeps the invariant.
LEMMA TakeFromLots ==
  ASSUME LedgerInv, NEW d \in Ids, NEW x \in EntrySet, NEW plan \in [Ids -> Nat],
         d = size + 1,
         x.type = "ADJUSTMENT" /\ x.direction = "DEBIT",
         \A l \in Ids : plan[l] <= remaining[l],
         size' = d,
         ledger' = [ledger EXCEPT ![d] = x],
         alloc' = [alloc EXCEPT ![d] = plan],
         remaining' = [l \in Ids |-> remaining[l] - plan[l]],
         UNCHANGED <<now, expiresAt, restored, expired, redemption>>
  PROVE  LedgerInv'
<1>1. TypeOK
  BY DEF LedgerInv
<1>2. size \in Nat /\ Ids \subseteq Nat /\ d \in 0 .. MaxEntries
  BY <1>1, ConstantsAssumption DEF TypeOK, Ids
<1>3. \A l \in Ids : remaining'[l] = remaining[l] - plan[l] /\ remaining'[l] \in Nat
                      /\ plan[l] \in Nat /\ remaining[l] \in Nat
  BY <1>1 DEF TypeOK
<1>4. TypeOK'
  <2>1. remaining' \in [Ids -> Nat]
    BY <1>3
  <2> QED
    BY <1>1, <1>2, <2>1 DEF TypeOK
<1>5. FreeRowsEmpty'
  BY <1>1, <1>2 DEF TypeOK, LedgerInv, FreeRowsEmpty
<1>6. /\ ~IsLot(d) /\ remaining[d] = 0 /\ expired[d] = 0
      /\ \A e \in Ids : alloc[e][d] = 0 /\ restored[e][d] = 0
      /\ \A l \in Ids : alloc[d][l] = 0 /\ restored[d][l] = 0
  <2>1. d > size
    BY <1>2
  <2> QED
    BY <2>1, LotsCommitted
<1>7. \A l \in Ids : IsLot(l)' <=> IsLot(l)
  BY <1>1, <1>6 DEF TypeOK, IsLot
<1>8. \A l \in Ids : alloc'[d][l] = plan[l]
  BY <1>1 DEF TypeOK
<1>9. \A e \in Ids \ {d} : alloc'[e] = alloc[e]
  BY <1>1 DEF TypeOK
<1>10. OnlyLotsHoldMoney'
  <2> SUFFICES ASSUME NEW l \in Ids, ~IsLot(l)
               PROVE  remaining'[l] = 0 /\ expired'[l] = 0 /\ \A e \in Ids : alloc'[e][l] = 0
    BY <1>7 DEF OnlyLotsHoldMoney
  <2>1. remaining[l] = 0 /\ expired[l] = 0 /\ \A e \in Ids : alloc[e][l] = 0
    BY DEF LedgerInv, OnlyLotsHoldMoney
  <2> QED
    BY <1>3, <1>8, <1>9, <2>1
<1>11. RestoredWithinAllocated'
  <2> SUFFICES ASSUME NEW e \in Ids, NEW l \in Ids
               PROVE  restored[e][l] <= alloc'[e][l]
    BY DEF RestoredWithinAllocated
  <2>1. CASE e = d
    BY <1>3, <1>6, <1>8, <2>1
  <2>2. CASE e # d
    BY <1>9, <2>2 DEF LedgerInv, RestoredWithinAllocated
  <2> QED
    BY <2>1, <2>2
<1>12. WrittenOffLapsed'
  <2> SUFFICES ASSUME NEW l \in Ids, expired[l] > 0
               PROVE  remaining'[l] = 0 /\ Lapsed(l)
    BY DEF WrittenOffLapsed, Lapsed
  <2>1. remaining[l] = 0 /\ Lapsed(l)
    BY DEF LedgerInv, WrittenOffLapsed
  <2> QED
    BY <1>3, <2>1
<1>13. ASSUME NEW l \in Ids, IsLot(l)'
       PROVE  (remaining[l] + Held(l) + expired[l] = ledger[l].amount)'
  <2>1. Held(l) \in Nat /\ expired[l] \in Nat
    BY <1>1, HeldNat DEF LedgerInv, TypeOK
  <2>2. /\ Held(l)' \in Nat
        /\ Held(l)' + (alloc[d][l] - restored[d][l]) = Held(l) + (alloc'[d][l] - restored'[d][l])
    BY <1>1, <1>4, <1>9, <1>11, HeldChange DEF LedgerInv
  <2>4. Held(l)' = Held(l) + plan[l]
    BY <1>3, <1>6, <1>8, <2>1, <2>2
  <2>5. l # d /\ ledger'[l] = ledger[l]
    BY <1>1, <1>6, <1>7, <1>13 DEF TypeOK
  <2>6. remaining[l] + Held(l) + expired[l] = ledger[l].amount
    BY <1>7, <1>13 DEF LedgerInv, LotEvidence
  <2> QED
    BY <1>3, <2>1, <2>4, <2>5, <2>6
<1> QED
  BY <1>4, <1>5, <1>10, <1>11, <1>12, <1>13 DEF LedgerInv, LotEvidence

\* The restorable part of a debit is what its allocations hold.
LEMMA RestorableNat ==
  ASSUME LedgerInv, NEW d \in Ids
  PROVE  /\ Restorable(d) \in [Ids -> Nat]
         /\ \A l \in Ids : /\ Restorable(d)[l] = alloc[d][l] - restored[d][l]
                           /\ alloc[d][l] = 0 => Restorable(d)[l] = 0
         /\ Total(Restorable(d), Ids) \in Nat
<1>1. ASSUME NEW l \in Ids
      PROVE  /\ alloc[d][l] \in Nat /\ restored[d][l] \in Nat
             /\ restored[d][l] <= alloc[d][l]
  BY CellTypes DEF LedgerInv, RestoredWithinAllocated
<1>2. \A l \in Ids : /\ Restorable(d)[l] = alloc[d][l] - restored[d][l]
                     /\ Restorable(d)[l] \in Nat
                     /\ alloc[d][l] = 0 => Restorable(d)[l] = 0
  BY <1>1 DEF Restorable
<1>3. Restorable(d) \in [Ids -> Nat]
  BY <1>1 DEF Restorable
<1>4. Total(Restorable(d), Ids) \in Nat
  BY <1>2, IdsFinite, TotalNat
<1> QED
  BY <1>2, <1>3, <1>4

\* Reversing a debit keeps the invariant: the lots get back what the debit held of
\* them, and none of them has lapsed.
LEMMA ReverseDebitStep ==
  ASSUME LedgerInv, NEW e \in Ids, ReverseDebit(e)
  PROVE  LedgerInv'
<1> DEFINE v == size + 1
           back == Restorable(e)
<1>1. TypeOK
  BY DEF LedgerInv
<1>2. size \in Nat /\ Ids \subseteq Nat /\ v \in Ids /\ size' = v /\ v \in 0 .. MaxEntries
  BY <1>1, ConstantsAssumption DEF TypeOK, Ids, ReverseDebit, Fits
<1>3. /\ back \in [Ids -> Nat] /\ Total(back, Ids) \in Nat
      /\ \A l \in Ids : back[l] = alloc[e][l] - restored[e][l]
      /\ \A l \in Ids : alloc[e][l] = 0 => back[l] = 0
  <2>1. /\ Restorable(e) \in [Ids -> Nat]
        /\ \A l \in Ids : /\ Restorable(e)[l] = alloc[e][l] - restored[e][l]
                          /\ alloc[e][l] = 0 => Restorable(e)[l] = 0
        /\ Total(Restorable(e), Ids) \in Nat
    BY RestorableNat
  <2> QED
    BY <2>1
<1> DEFINE x == Entry("REVERSAL", "CREDIT", Total(back, Ids), ledger[e].customer, None, e)
<1>4. /\ ledger' = [ledger EXCEPT ![v] = x]
      /\ remaining' = [l \in Ids |-> remaining[l] + back[l]]
      /\ restored' = [restored EXCEPT ![e] = [l \in Ids |-> restored[e][l] + back[l]]]
      /\ UNCHANGED <<now, expiresAt, alloc, expired>>
      /\ \A l \in Ids : alloc[e][l] > 0 => ~Lapsed(l)
  BY <1>1 DEF ReverseDebit, CanRestore, TypeOK
<1>5. x \in EntrySet
  <2>1. ledger[e].customer \in Customers \cup {None}
    BY <1>1 DEF TypeOK, EntrySet
  <2> QED
    BY <1>3, <2>1 DEF Entry, EntrySet, Types, Directions
<1>6. redemption' \in [Receipts -> {"NONE", "CONFIRMED", "REVERSED"}]
  BY <1>1 DEF TypeOK, ReverseDebit
<1>7. ~IsLot(v) /\ v # e
  BY <1>2, LotsCommitted DEF ReverseDebit
<1>8. \A l \in Ids : IsLot(l)' <=> IsLot(l)
  BY <1>1, <1>2, <1>4, <1>7 DEF TypeOK, IsLot, Entry
<1>9. \A d \in Ids : d # e => restored'[d] = restored[d]
  BY <1>1, <1>4 DEF TypeOK
<1>10. ASSUME NEW l \in Ids
       PROVE  /\ alloc[e][l] \in Nat /\ restored[e][l] \in Nat /\ remaining[l] \in Nat
              /\ restored'[e][l] = alloc[e][l]
              /\ remaining'[l] = remaining[l] + back[l]
  <2>1. alloc[e][l] \in Nat /\ restored[e][l] \in Nat
    BY <1>1, CellTypes
  <2>2. remaining[l] \in Nat
    BY <1>1 DEF TypeOK
  <2>3. restored'[e][l] = restored[e][l] + back[l]
    BY <1>1, <1>4 DEF TypeOK
  <2> QED
    BY <1>3, <1>4, <2>1, <2>2, <2>3
<1> HIDE DEF v, back, x
<1>11. TypeOK'
  <2>1. ledger' \in [Ids -> EntrySet]
    BY <1>1, <1>4, <1>5 DEF TypeOK
  <2>2. remaining' \in [Ids -> Nat]
    BY <1>1, <1>3, <1>4 DEF TypeOK
  <2>3. [l \in Ids |-> restored[e][l] + back[l]] \in [Ids -> Nat]
    BY <1>3, <1>10
  <2>4. restored' \in [Ids -> [Ids -> Nat]]
    BY <1>1, <1>4, <2>3 DEF TypeOK
  <2> QED
    BY <1>1, <1>2, <1>4, <1>6, <2>1, <2>2, <2>4 DEF TypeOK
<1>12. FreeRowsEmpty'
  <2> SUFFICES ASSUME NEW d \in Ids, d > v
               PROVE  ledger'[d] = Blank /\ alloc'[d] = Nothing /\ restored'[d] = Nothing
    BY <1>2 DEF FreeRowsEmpty
  <2>1. d > size
    BY <1>2 DEF v
  <2>2. d # e
    BY <2>1, LotsCommitted DEF ReverseDebit
  <2>3. ledger[d] = Blank /\ alloc[d] = Nothing /\ restored[d] = Nothing
    BY <2>1 DEF LedgerInv, FreeRowsEmpty
  <2>4. ledger'[d] = ledger[d]
    BY <1>1, <1>2, <1>4 DEF TypeOK
  <2> QED
    BY <1>4, <1>9, <2>2, <2>3, <2>4
<1>13. OnlyLotsHoldMoney'
  <2> SUFFICES ASSUME NEW l \in Ids, ~IsLot(l)
               PROVE  remaining'[l] = 0 /\ expired'[l] = 0 /\ \A d \in Ids : alloc'[d][l] = 0
    BY <1>8 DEF OnlyLotsHoldMoney
  <2>1. remaining[l] = 0 /\ expired[l] = 0 /\ \A d \in Ids : alloc[d][l] = 0
    BY DEF LedgerInv, OnlyLotsHoldMoney
  <2> QED
    BY <1>3, <1>4, <1>10, <2>1
<1>14. RestoredWithinAllocated'
  <2> SUFFICES ASSUME NEW d \in Ids, NEW l \in Ids
               PROVE  restored'[d][l] <= alloc[d][l]
    BY <1>4 DEF RestoredWithinAllocated
  <2>1. CASE d = e
    BY <1>10, <2>1
  <2>2. CASE d # e
    BY <1>9, <2>2 DEF LedgerInv, RestoredWithinAllocated
  <2> QED
    BY <2>1, <2>2
<1>15. WrittenOffLapsed'
  <2> SUFFICES ASSUME NEW l \in Ids, expired[l] > 0
               PROVE  remaining'[l] = 0 /\ Lapsed(l)
    BY <1>4 DEF WrittenOffLapsed, Lapsed
  <2>1. remaining[l] = 0 /\ Lapsed(l)
    BY DEF LedgerInv, WrittenOffLapsed
  <2>2. alloc[e][l] = 0
    BY <1>4, <1>10, <2>1
  <2> QED
    BY <1>3, <1>10, <2>1, <2>2
<1>16. ASSUME NEW l \in Ids, IsLot(l)'
       PROVE  (remaining[l] + Held(l) + expired[l] = ledger[l].amount)'
  <2>1. Held(l) \in Nat /\ expired[l] \in Nat
    BY <1>1, HeldNat DEF LedgerInv, TypeOK
  <2>2. /\ Held(l)' \in Nat
        /\ Held(l)' + (alloc[e][l] - restored[e][l]) = Held(l) + (alloc'[e][l] - restored'[e][l])
    BY <1>1, <1>4, <1>9, <1>11, <1>14, HeldChange DEF LedgerInv
  <2>3. back[l] \in Nat /\ Held(l)' + back[l] = Held(l)
    BY <1>3, <1>4, <1>10, <2>1, <2>2
  <2>4. ledger'[l] = ledger[l]
    BY <1>1, <1>4, <1>7, <1>8, <1>16 DEF TypeOK
  <2>5. remaining[l] + Held(l) + expired[l] = ledger[l].amount
    BY <1>8, <1>16 DEF LedgerInv, LotEvidence
  <2> QED
    BY <1>4, <1>10, <2>1, <2>2, <2>3, <2>4, <2>5
<1> QED
  BY <1>11, <1>12, <1>13, <1>14, <1>15, <1>16 DEF LedgerInv, LotEvidence

\* A settlement keeps the invariant: the debit takes from live lots what they hold,
\* and the lot it opens is a fresh row the debit did not touch.
LEMMA SettleStep ==
  ASSUME LedgerInv, NEW c \in Customers, NEW r \in Receipts, NEW basket \in Nat,
         NEW amount \in 1 .. basket, NEW occurredAt \in Times,
         Settle(c, r, basket, amount, occurredAt)
  PROVE  LedgerInv'
<1> DEFINE d == size + 1
           w == size + 2
           plan == PlanAllocations(EligibleLots(c), amount)
           credit == EarnAmount(basket - amount)
           redeem == Entry("REDEEM", "DEBIT", amount, c, r, 0)
           earn == Entry("EARN", "CREDIT", credit, c, r, 0)
<1>1. TypeOK
  BY DEF LedgerInv
<1>2. /\ amount \in Nat /\ credit \in Nat /\ occurredAt + LotLife \in Nat
      /\ size \in Nat /\ Ids \subseteq Nat
  <2>1. amount \in Nat /\ basket - amount \in Nat
    OBVIOUS
  <2>2. credit \in Nat
    BY <2>1, EarnAmountNat
  <2> QED
    BY <1>1, <2>1, <2>2, ConstantsAssumption DEF TypeOK, Ids, Times
<1>3. /\ plan \in [Ids -> Nat]
      /\ \A l \in Ids : plan[l] <= remaining[l]
      /\ \A l \in Ids : plan[l] > 0 => l \in EligibleLots(c)
  <2>1. EligibleLots(c) \in SUBSET Ids
    BY DEF EligibleLots, LotsOf
  <2> QED
    BY <1>1, <1>2, <2>1, PlanWithinLots
<1>4. redeem \in EntrySet /\ earn \in EntrySet
  BY <1>2 DEF Entry, EntrySet, Types, Directions
<1>5. d \in Ids /\ d # w /\ (credit > 0 => w \in Ids)
      /\ size' = (IF credit > 0 THEN w ELSE d) /\ size' \in 0 .. MaxEntries
  BY <1>2, ConstantsAssumption DEF Settle, Fits, Ids
<1>6. /\ ledger' = [e \in Ids |-> IF e = d THEN redeem
                                 ELSE IF credit > 0 /\ e = w THEN earn ELSE ledger[e]]
      /\ alloc' = [alloc EXCEPT ![d] = plan]
      /\ remaining' = [e \in Ids |-> IF credit > 0 /\ e = w THEN credit
                                    ELSE remaining[e] - plan[e]]
      /\ expiresAt' = [e \in Ids |-> IF credit > 0 /\ e = w THEN occurredAt + LotLife
                                    ELSE expiresAt[e]]
      /\ redemption' = [redemption EXCEPT ![r] = "CONFIRMED"]
      /\ UNCHANGED <<now, restored, expired>>
  BY DEF Settle
<1>7. /\ ~IsLot(d) /\ remaining[d] = 0 /\ expired[d] = 0
      /\ \A e \in Ids : alloc[e][d] = 0 /\ restored[e][d] = 0
      /\ \A l \in Ids : alloc[d][l] = 0 /\ restored[d][l] = 0
  <2>1. d > size
    BY <1>2
  <2> HIDE DEF d
  <2> QED
    BY <1>5, <2>1, LotsCommitted
<1>8. credit > 0 => /\ ~IsLot(w) /\ remaining[w] = 0 /\ expired[w] = 0
                    /\ \A e \in Ids : alloc[e][w] = 0 /\ restored[e][w] = 0
  BY <1>2, <1>5, LotsCommitted
<1>9. redeem.type = "REDEEM" /\ earn.type = "EARN" /\ earn.amount = credit
  BY DEF Entry
<1>10. \A l \in Ids : remaining[l] \in Nat /\ plan[l] \in Nat /\ remaining[l] - plan[l] \in Nat
  BY <1>1, <1>3 DEF TypeOK
<1>11. /\ \A l \in Ids : alloc'[d][l] = plan[l]
       /\ \A e \in Ids \ {d} : alloc'[e] = alloc[e]
  BY <1>1, <1>5, <1>6 DEF TypeOK
<1> HIDE DEF d, w, plan, credit, redeem, earn
<1>12. TypeOK'
  <2>1. ledger' \in [Ids -> EntrySet]
    BY <1>1, <1>4, <1>6 DEF TypeOK
  <2>2. remaining' \in [Ids -> Nat] /\ expiresAt' \in [Ids -> Nat]
    BY <1>1, <1>2, <1>6, <1>10 DEF TypeOK
  <2>3. alloc' \in [Ids -> [Ids -> Nat]]
    BY <1>1, <1>3, <1>6 DEF TypeOK
  <2> QED
    BY <1>1, <1>5, <1>6, <2>1, <2>2, <2>3 DEF TypeOK
<1>13. FreeRowsEmpty'
  <2> SUFFICES ASSUME NEW e \in Ids, e > size'
               PROVE  ledger'[e] = Blank /\ alloc'[e] = Nothing /\ restored'[e] = Nothing
    BY DEF FreeRowsEmpty
  <2>1. e > size /\ e # d /\ ~(credit > 0 /\ e = w)
    BY <1>2, <1>5 DEF d, w
  <2> QED
    BY <1>6, <1>11, <2>1 DEF LedgerInv, FreeRowsEmpty
<1>14. /\ \A l \in Ids : ~(credit > 0 /\ l = w) => (IsLot(l)' <=> IsLot(l))
       /\ \A l \in Ids : credit > 0 /\ l = w => IsLot(l)'
  BY <1>5, <1>6, <1>7, <1>9 DEF IsLot
<1>15. OnlyLotsHoldMoney'
  <2> SUFFICES ASSUME NEW l \in Ids, ~IsLot(l)'
               PROVE  remaining'[l] = 0 /\ expired'[l] = 0 /\ \A e \in Ids : alloc'[e][l] = 0
    BY DEF OnlyLotsHoldMoney
  <2>1. ~(credit > 0 /\ l = w) /\ ~IsLot(l)
    BY <1>14
  <2>2. remaining[l] = 0 /\ expired[l] = 0 /\ \A e \in Ids : alloc[e][l] = 0
    BY <2>1 DEF LedgerInv, OnlyLotsHoldMoney
  <2>3. plan[l] = 0
    BY <1>3, <1>10, <2>2
  <2> QED
    BY <1>6, <1>11, <2>1, <2>2, <2>3
<1>16. RestoredWithinAllocated'
  <2> SUFFICES ASSUME NEW e \in Ids, NEW l \in Ids
               PROVE  restored[e][l] <= alloc'[e][l]
    BY <1>6 DEF RestoredWithinAllocated
  <2>1. CASE e = d
    BY <1>7, <1>10, <1>11, <2>1
  <2>2. CASE e # d
    BY <1>11, <2>2 DEF LedgerInv, RestoredWithinAllocated
  <2> QED
    BY <2>1, <2>2
<1>17. WrittenOffLapsed'
  <2> SUFFICES ASSUME NEW l \in Ids, expired[l] > 0
               PROVE  remaining'[l] = 0 /\ expiresAt'[l] <= now
    BY <1>6 DEF WrittenOffLapsed, Lapsed
  <2>1. remaining[l] = 0 /\ expiresAt[l] <= now
    BY DEF LedgerInv, WrittenOffLapsed, Lapsed
  <2>2. ~(credit > 0 /\ l = w)
    BY <1>8
  <2>3. plan[l] = 0
    BY <1>3, <1>10, <2>1
  <2> QED
    BY <1>6, <2>1, <2>2, <2>3
<1>18. ASSUME NEW l \in Ids, IsLot(l)'
       PROVE  (remaining[l] + Held(l) + expired[l] = ledger[l].amount)'
  <2>1. Held(l) \in Nat /\ expired[l] \in Nat
    BY <1>1, HeldNat DEF LedgerInv, TypeOK
  <2>2. /\ Held(l)' \in Nat
        /\ Held(l)' + (alloc[d][l] - restored[d][l]) = Held(l) + (alloc'[d][l] - restored'[d][l])
    BY <1>1, <1>5, <1>6, <1>11, <1>12, <1>16, HeldChange DEF LedgerInv
  <2>3. Held(l)' = Held(l) + plan[l]
    BY <1>6, <1>7, <1>10, <1>11, <2>1, <2>2
  <2>4. CASE credit > 0 /\ l = w
    <3>1. Held(w) = 0 /\ plan[w] = 0
      BY <1>3, <1>8, <1>10, <2>4, HeldZero
    <3> QED
      BY <1>2, <1>5, <1>6, <1>8, <1>9, <2>3, <2>4, <3>1
  <2>5. CASE ~(credit > 0 /\ l = w)
    <3>1. l # d /\ ledger'[l] = ledger[l]
      BY <1>6, <1>7, <1>14, <1>18, <2>5
    <3>2. remaining[l] + Held(l) + expired[l] = ledger[l].amount
      BY <1>14, <1>18, <2>5 DEF LedgerInv, LotEvidence
    <3> QED
      BY <1>6, <1>10, <2>1, <2>3, <2>5, <3>1, <3>2
  <2> QED
    BY <2>4, <2>5
<1> QED
  BY <1>12, <1>13, <1>15, <1>16, <1>17, <1>18 DEF LedgerInv, LotEvidence

\* Reversing a settlement as a pair keeps the invariant: the lot the settlement
\* opened is emptied, the lots the redemption drew on are refilled, and the two
\* are different lots.
LEMMA ReversePairStep ==
  ASSUME LedgerInv, NEW earn \in Ids, NEW redeem \in Ids, ReversePair(earn, redeem)
  PROVE  LedgerInv'
<1> DEFINE d == size + 1
           v == size + 2
           back == Restorable(redeem)
           credit == ledger[earn].amount
           x == Entry("ADJUSTMENT", "DEBIT", credit, ledger[earn].customer, None, earn)
           y == Entry("REVERSAL", "CREDIT", Total(back, Ids), ledger[redeem].customer, None, redeem)
           take == [Nothing EXCEPT ![earn] = credit]
<1>1. TypeOK
  BY DEF LedgerInv
<1>2. size \in Nat /\ Ids \subseteq Nat /\ size' = v /\ v \in 0 .. MaxEntries
      /\ d \in Ids /\ v \in Ids /\ d # v /\ d > size /\ v > size
  BY <1>1, ConstantsAssumption DEF TypeOK, Ids, ReversePair, Fits
<1>3. /\ back \in [Ids -> Nat] /\ Total(back, Ids) \in Nat
      /\ \A l \in Ids : back[l] = alloc[redeem][l] - restored[redeem][l]
      /\ \A l \in Ids : alloc[redeem][l] = 0 => back[l] = 0
  BY RestorableNat
<1>4. IsLot(earn) /\ IsAllocatedDebit(redeem)
  BY DEF ReversePair, IsLot, IsAllocatedDebit
<1>5. earn # d /\ earn # v /\ redeem # d /\ redeem # v
  BY <1>2, <1>4, LotsCommitted
<1>6. credit \in Nat /\ remaining[earn] = credit /\ alloc[redeem][earn] = 0 /\ ~Lapsed(earn)
  BY <1>1 DEF ReversePair, TypeOK, EntrySet
<1>7. /\ ledger' = [ledger EXCEPT ![d] = x, ![v] = y]
      /\ alloc' = [alloc EXCEPT ![d] = take]
      /\ remaining' = [l \in Ids |-> IF l = earn THEN remaining[l] - credit
                                     ELSE remaining[l] + back[l]]
      /\ restored' = [restored EXCEPT ![redeem] = [l \in Ids |-> restored[redeem][l] + back[l]]]
      /\ UNCHANGED <<now, expiresAt, expired>>
      /\ \A l \in Ids : alloc[redeem][l] > 0 => ~Lapsed(l)
  BY <1>1 DEF ReversePair, CanRestore, TypeOK
<1>8. redemption' \in [Receipts -> {"NONE", "CONFIRMED", "REVERSED"}]
  BY <1>1 DEF TypeOK, ReversePair
<1>9. x \in EntrySet /\ y \in EntrySet
  <2>1. /\ ledger[earn].customer \in Customers \cup {None}
        /\ ledger[redeem].customer \in Customers \cup {None}
    BY <1>1 DEF TypeOK, EntrySet
  <2> QED
    BY <1>3, <1>6, <2>1 DEF Entry, EntrySet, Types, Directions
<1>10. x.type = "ADJUSTMENT" /\ x.direction = "DEBIT" /\ y.type = "REVERSAL"
  BY DEF Entry
<1>11. take \in [Ids -> Nat] /\ take[earn] = credit /\ \A l \in Ids \ {earn} : take[l] = 0
  BY <1>6 DEF Nothing
<1> HIDE DEF d, v, back, credit, x, y, take
<1>12. ~IsLot(d) /\ ~IsLot(v)
       /\ \A l \in Ids : alloc[d][l] = 0 /\ restored[d][l] = 0
  BY <1>2, LotsCommitted
<1>13. /\ ledger'[d] = x /\ ledger'[v] = y
       /\ \A e \in Ids \ {d, v} : ledger'[e] = ledger[e]
  BY <1>1, <1>2, <1>7 DEF TypeOK
<1>14. \A l \in Ids : IsLot(l)' <=> IsLot(l)
  BY <1>10, <1>12, <1>13 DEF IsLot
<1>15. /\ alloc'[d] = take /\ \A e \in Ids \ {d} : alloc'[e] = alloc[e]
       /\ \A e \in Ids \ {redeem} : restored'[e] = restored[e]
  BY <1>1, <1>2, <1>7 DEF TypeOK
<1>16. ASSUME NEW l \in Ids
       PROVE  /\ alloc[redeem][l] \in Nat /\ restored[redeem][l] \in Nat
              /\ remaining[l] \in Nat /\ back[l] \in Nat
              /\ restored'[redeem][l] = alloc[redeem][l]
              /\ remaining'[l] = IF l = earn THEN 0 ELSE remaining[l] + back[l]
  <2>1. alloc[redeem][l] \in Nat /\ restored[redeem][l] \in Nat
    BY <1>1, CellTypes
  <2>2. remaining[l] \in Nat
    BY <1>1 DEF TypeOK
  <2>3. restored'[redeem][l] = restored[redeem][l] + back[l]
    BY <1>1, <1>7 DEF TypeOK
  <2> QED
    BY <1>3, <1>6, <1>7, <2>1, <2>2, <2>3
<1>17. TypeOK'
  <2>1. ledger' \in [Ids -> EntrySet]
    BY <1>1, <1>7, <1>9 DEF TypeOK
  <2>2. remaining' \in [Ids -> Nat]
    BY <1>6, <1>7, <1>16
  <2>3. [l \in Ids |-> restored[redeem][l] + back[l]] \in [Ids -> Nat]
    BY <1>16
  <2>4. restored' \in [Ids -> [Ids -> Nat]]
    BY <1>1, <1>7, <2>3 DEF TypeOK
  <2>5. alloc' \in [Ids -> [Ids -> Nat]]
    BY <1>1, <1>7, <1>11 DEF TypeOK
  <2> QED
    BY <1>1, <1>2, <1>7, <1>8, <2>1, <2>2, <2>4, <2>5 DEF TypeOK
<1>18. FreeRowsEmpty'
  <2> SUFFICES ASSUME NEW e \in Ids, e > v
               PROVE  ledger'[e] = Blank /\ alloc'[e] = Nothing /\ restored'[e] = Nothing
    BY <1>2 DEF FreeRowsEmpty
  <2>1. e > size /\ e # d /\ e # v
    BY <1>2 DEF d, v
  <2>2. e # redeem
    BY <1>4, <2>1, LotsCommitted
  <2>3. ledger[e] = Blank /\ alloc[e] = Nothing /\ restored[e] = Nothing
    BY <2>1 DEF LedgerInv, FreeRowsEmpty
  <2> QED
    BY <1>13, <1>15, <2>1, <2>2, <2>3
<1>19. OnlyLotsHoldMoney'
  <2> SUFFICES ASSUME NEW l \in Ids, ~IsLot(l)
               PROVE  remaining'[l] = 0 /\ expired'[l] = 0 /\ \A e \in Ids : alloc'[e][l] = 0
    BY <1>14 DEF OnlyLotsHoldMoney
  <2>1. remaining[l] = 0 /\ expired[l] = 0 /\ \A e \in Ids : alloc[e][l] = 0
    BY DEF LedgerInv, OnlyLotsHoldMoney
  <2>2. l # earn
    BY <1>4
  <2> QED
    BY <1>3, <1>7, <1>11, <1>15, <1>16, <2>1, <2>2
<1>20. RestoredWithinAllocated'
  <2> SUFFICES ASSUME NEW e \in Ids, NEW l \in Ids
               PROVE  restored'[e][l] <= alloc'[e][l]
    BY DEF RestoredWithinAllocated
  <2>1. CASE e = redeem
    BY <1>5, <1>15, <1>16, <2>1
  <2>2. CASE e = d
    BY <1>5, <1>11, <1>12, <1>15, <2>2
  <2>3. CASE e # redeem /\ e # d
    BY <1>15, <2>3 DEF LedgerInv, RestoredWithinAllocated
  <2> QED
    BY <2>1, <2>2, <2>3
<1>21. WrittenOffLapsed'
  <2> SUFFICES ASSUME NEW l \in Ids, expired[l] > 0
               PROVE  remaining'[l] = 0 /\ Lapsed(l)
    BY <1>7 DEF WrittenOffLapsed, Lapsed
  <2>1. remaining[l] = 0 /\ Lapsed(l)
    BY DEF LedgerInv, WrittenOffLapsed
  <2>2. alloc[redeem][l] = 0
    BY <1>7, <1>16, <2>1
  <2> QED
    BY <1>3, <1>16, <2>1, <2>2
<1>22. ASSUME NEW l \in Ids, IsLot(l)'
       PROVE  (remaining[l] + Held(l) + expired[l] = ledger[l].amount)'
  <2>1. Held(l) \in Nat /\ expired[l] \in Nat
    BY <1>1, HeldNat DEF LedgerInv, TypeOK
  <2>2. ledger'[l] = ledger[l]
    BY <1>12, <1>13, <1>14, <1>22
  <2>3. remaining[l] + Held(l) + expired[l] = ledger[l].amount
    BY <1>14, <1>22 DEF LedgerInv, LotEvidence
  <2>4. CASE l = earn
    <3>1. restored'[redeem][l] = 0 /\ restored[redeem][l] = 0
      <4>1. restored[redeem][l] <= alloc[redeem][l]
        BY DEF LedgerInv, RestoredWithinAllocated
      <4> QED
        BY <1>6, <1>16, <2>4, <4>1
    <3>2. \A e \in Ids \ {d} : alloc'[e][l] = alloc[e][l] /\ restored'[e][l] = restored[e][l]
      BY <1>15, <3>1
    <3>3. /\ Held(l)' \in Nat
          /\ Held(l)' + (alloc[d][l] - restored[d][l]) = Held(l) + (alloc'[d][l] - restored'[d][l])
      BY <1>1, <1>2, <1>17, <1>20, <3>2, HeldChange DEF LedgerInv
    <3>4. alloc'[d][l] = credit /\ restored'[d][l] = 0 /\ alloc[d][l] = 0 /\ restored[d][l] = 0
      BY <1>2, <1>5, <1>11, <1>12, <1>15, <2>4
    <3>5. Held(l)' = Held(l) + credit
      BY <1>6, <2>1, <3>3, <3>4
    <3>6. remaining'[l] = 0 /\ remaining[l] = credit /\ expired'[l] = expired[l]
      BY <1>6, <1>7, <1>16, <2>4
    <3>7. remaining[l] \in Nat /\ Held(l)' = Held(l) + remaining[l]
      BY <1>16, <3>5, <3>6
    <3>8. remaining'[l] + Held(l)' + expired'[l] = remaining[l] + Held(l) + expired[l]
      BY <2>1, <3>6, <3>7
    <3> QED
      BY <2>2, <2>3, <3>8
  <2>5. CASE l # earn
    <3>1. alloc'[d][l] = alloc[d][l] /\ restored'[d][l] = restored[d][l]
      BY <1>2, <1>5, <1>11, <1>12, <1>15, <2>5
    <3>2. \A e \in Ids \ {redeem} : alloc'[e][l] = alloc[e][l] /\ restored'[e][l] = restored[e][l]
      BY <1>15, <3>1
    <3>3. /\ Held(l)' \in Nat
          /\ Held(l)' + (alloc[redeem][l] - restored[redeem][l])
               = Held(l) + (alloc'[redeem][l] - restored'[redeem][l])
      BY <1>1, <1>17, <1>20, <3>2, HeldChange DEF LedgerInv
    <3>4. alloc'[redeem][l] = alloc[redeem][l]
      BY <1>5, <1>15
    <3>5. Held(l)' + back[l] = Held(l)
      BY <1>3, <1>16, <2>1, <3>3, <3>4
    <3>6. /\ remaining[l] \in Nat /\ back[l] \in Nat
          /\ remaining'[l] = remaining[l] + back[l] /\ expired'[l] = expired[l]
      BY <1>7, <1>16, <2>5
    <3>7. remaining'[l] + Held(l)' + expired'[l] = remaining[l] + Held(l) + expired[l]
      BY <2>1, <3>3, <3>5, <3>6
    <3> QED
      BY <2>2, <2>3, <3>7
  <2> QED
    BY <2>4, <2>5
<1> QED
  BY <1>17, <1>18, <1>19, <1>20, <1>21, <1>22 DEF LedgerInv, LotEvidence

\* A sweep keeps the invariant: it writes new rows only, and moves what a due lot
\* still holds to its expiry row.
LEMMA ExpireStep ==
  ASSUME LedgerInv, NEW batch \in SUBSET DueLots, ExpireDueCredit(batch)
  PROVE  LedgerInv'
<1> DEFINE row(l) == size + 1 + Cardinality({m \in batch : Precedes(m, l)})
           swept == [e \in Ids |-> {l \in batch : row(l) = e}]
<1>1. TypeOK
  BY DEF LedgerInv
<1>2. batch \subseteq Ids /\ \A l \in batch : IsLot(l) /\ remaining[l] > 0 /\ Lapsed(l)
  BY DEF DueLots
<1>3. /\ size \in Nat /\ Ids \subseteq Nat /\ Cardinality(batch) \in Nat
      /\ size' = size + Cardinality(batch) /\ size' \in 0 .. MaxEntries
  <2>1. Cardinality(batch) \in Nat
    BY <1>2, IdsFinite, FS_CardinalityType
  <2>2. size' = size + Cardinality(batch) /\ size + Cardinality(batch) <= MaxEntries
    BY DEF ExpireDueCredit, Fits
  <2>3. size \in Nat /\ Ids \subseteq Nat
    BY <1>1, ConstantsAssumption DEF TypeOK, Ids
  <2> QED
    BY <2>1, <2>2, <2>3, ConstantsAssumption
<1>4. \A l \in batch : row(l) \in Nat /\ row(l) > size /\ row(l) <= size'
  <2> SUFFICES ASSUME NEW l \in batch
               PROVE  row(l) \in Nat /\ row(l) > size /\ row(l) <= size'
    OBVIOUS
  <2> DEFINE before == {m \in batch : Precedes(m, l)}
  <2>1. IsFiniteSet(batch)
    BY <1>2, IdsFinite
  <2>2. l \notin before
    <3>1. expiresAt[l] \in Nat /\ Rank[l] \in Nat
      BY <1>1, <1>2, ConstantsAssumption DEF TypeOK
    <3> QED
      BY <3>1 DEF Precedes
  <2>3. before \subseteq batch \ {l}
    BY <2>2
  <2> HIDE DEF before
  <2>4. IsFiniteSet(batch \ {l}) /\ Cardinality(batch \ {l}) = Cardinality(batch) - 1
    BY <2>1, FS_RemoveElement
  <2>5. IsFiniteSet(before) /\ Cardinality(before) <= Cardinality(batch \ {l})
    BY <2>3, <2>4, FS_Subset
  <2>6. Cardinality(before) \in Nat
    BY <2>5, FS_CardinalityType
  <2> QED
    BY <1>3, <2>4, <2>5, <2>6 DEF before
<1> HIDE DEF row
<1>5. \A l \in Ids : remaining[l] \in Nat /\ expired[l] \in Nat
  BY <1>1 DEF TypeOK
<1>6. /\ expired' = [l \in Ids |-> IF l \in batch THEN remaining[l] ELSE expired[l]]
      /\ remaining' = [l \in Ids |-> IF l \in batch THEN 0 ELSE remaining[l]]
      /\ UNCHANGED <<now, expiresAt, alloc, restored, redemption>>
  BY DEF ExpireDueCredit, WriteOff
<1>7. ASSUME NEW e \in Ids
      PROVE  \/ ledger'[e] = ledger[e] /\ swept[e] = {}
             \/ \E l \in batch : /\ row(l) = e
                                 /\ ledger'[e] = Entry("EXPIRY", "DEBIT", remaining[l],
                                                       ledger[l].customer, None, 0)
  <2>1. ledger'[e] = IF swept[e] = {} THEN ledger[e]
                     ELSE LET l == CHOOSE l \in swept[e] : TRUE
                          IN  Entry("EXPIRY", "DEBIT", remaining[l], ledger[l].customer, None, 0)
    BY DEF ExpireDueCredit, WriteOff, row
  <2>2. CASE swept[e] = {}
    BY <2>1, <2>2
  <2>3. CASE swept[e] # {}
    <3> DEFINE l == CHOOSE l \in swept[e] : TRUE
    <3>1. l \in swept[e]
      BY <2>3
    <3>2. l \in batch /\ row(l) = e
      BY <3>1
    <3> QED
      BY <2>1, <2>3, <3>2
  <2> QED
    BY <2>2, <2>3
<1>8. ASSUME NEW e \in Ids, e <= size \/ e > size'
      PROVE  ledger'[e] = ledger[e]
  BY <1>3, <1>4, <1>7, <1>8
<1>9. \A e \in Ids : ledger'[e] # ledger[e] => e > size /\ ledger'[e].type = "EXPIRY"
  <2> SUFFICES ASSUME NEW e \in Ids, ledger'[e] # ledger[e]
               PROVE  e > size /\ ledger'[e].type = "EXPIRY"
    OBVIOUS
  <2>1. PICK l \in batch : /\ row(l) = e
                           /\ ledger'[e] = Entry("EXPIRY", "DEBIT", remaining[l],
                                                 ledger[l].customer, None, 0)
    BY <1>7
  <2> QED
    BY <1>4, <2>1 DEF Entry
<1>10. \A l \in Ids : IsLot(l)' <=> IsLot(l)
  <2> TAKE l \in Ids
  <2>1. CASE ledger'[l] = ledger[l]
    BY <2>1 DEF IsLot
  <2>2. CASE ledger'[l] # ledger[l]
    BY <1>9, <2>2, LotsCommitted DEF IsLot
  <2> QED
    BY <2>1, <2>2
<1>11. TypeOK'
  <2>1. \A e \in Ids : ledger'[e] \in EntrySet
    <3> TAKE e \in Ids
    <3>1. CASE ledger'[e] = ledger[e]
      BY <1>1, <3>1 DEF TypeOK
    <3>2. ASSUME NEW l \in batch,
                 ledger'[e] = Entry("EXPIRY", "DEBIT", remaining[l], ledger[l].customer, None, 0)
          PROVE  ledger'[e] \in EntrySet
      <4>1. ledger[l].customer \in Customers \cup {None} /\ remaining[l] \in Nat
        BY <1>1, <1>2, <1>5 DEF TypeOK, EntrySet
      <4> QED
        BY <3>2, <4>1 DEF Entry, EntrySet, Types, Directions
    <3> QED
      BY <1>7, <3>1, <3>2
  <2>2. ledger' \in [Ids -> EntrySet]
    <3>1. ledger' = [e \in Ids |-> ledger'[e]]
      BY DEF ExpireDueCredit
    <3> QED
      BY <2>1, <3>1
  <2>3. remaining' \in [Ids -> Nat] /\ expired' \in [Ids -> Nat]
    BY <1>5, <1>6
  <2> QED
    BY <1>1, <1>3, <1>6, <2>2, <2>3 DEF TypeOK
<1>12. FreeRowsEmpty'
  BY <1>3, <1>6, <1>8 DEF LedgerInv, FreeRowsEmpty
<1>13. OnlyLotsHoldMoney'
  BY <1>2, <1>6, <1>10 DEF LedgerInv, OnlyLotsHoldMoney
<1>14. RestoredWithinAllocated'
  BY <1>6 DEF LedgerInv, RestoredWithinAllocated
<1>15. WrittenOffLapsed'
  BY <1>2, <1>6 DEF LedgerInv, WrittenOffLapsed, Lapsed
<1>16. ASSUME NEW l \in Ids, IsLot(l)'
       PROVE  (remaining[l] + Held(l) + expired[l] = ledger[l].amount)'
  <2>1. Held(l) \in Nat /\ Held(l)' = Held(l)
    BY <1>1, <1>6, HeldNat, HeldSame DEF LedgerInv
  <2>2. ledger'[l] = ledger[l]
    BY <1>9, <1>10, <1>16, LotsCommitted
  <2>3. remaining[l] + Held(l) + expired[l] = ledger[l].amount
    BY <1>10, <1>16 DEF LedgerInv, LotEvidence
  <2>4. l \in batch => expired[l] = 0
    BY <1>2, <1>5 DEF LedgerInv, WrittenOffLapsed
  <2> QED
    BY <1>5, <1>6, <2>1, <2>2, <2>3, <2>4
<1> QED
  BY <1>11, <1>12, <1>13, <1>14, <1>15, <1>16 DEF LedgerInv, LotEvidence

\* Init establishes the invariant: nothing is allocated from an empty ledger.
LEMMA InitInv == Init => LedgerInv
<1> SUFFICES ASSUME Init PROVE LedgerInv
  OBVIOUS
<1>1. Blank \in EntrySet
  BY DEF Blank, Entry, EntrySet, Types, Directions
<1>2. TypeOK
  BY <1>1, ConstantsAssumption DEF Init, TypeOK, Nothing, Times
<1>3. \A l \in Ids : ~IsLot(l)
  BY DEF Init, IsLot, Blank, Entry
<1>4. FreeRowsEmpty /\ OnlyLotsHoldMoney /\ RestoredWithinAllocated /\ WrittenOffLapsed
  BY DEF Init, Nothing, FreeRowsEmpty, OnlyLotsHoldMoney, RestoredWithinAllocated,
         WrittenOffLapsed
<1> QED
  BY <1>2, <1>3, <1>4 DEF LedgerInv, LotEvidence

\* Every transaction preserves the invariant.
LEMMA NextInv == LedgerInv /\ [Next]_vars => LedgerInv'
<1> SUFFICES ASSUME LedgerInv, [Next]_vars PROVE LedgerInv'
  OBVIOUS
<1>1. TypeOK /\ size \in Nat
  BY ConstantsAssumption DEF LedgerInv, TypeOK
<1>2. \A rows \in {1} : Fits(rows) => size + 1 \in Ids
  BY <1>1, ConstantsAssumption DEF Fits, Ids
<1>3. ASSUME NEW t \in Times PROVE t + LotLife \in Nat
  BY ConstantsAssumption DEF Times
<1>4. ASSUME NEW c \in Customers, NEW r \in Receipts, NEW p \in Purchases, NEW t \in Times,
             Earn(c, r, p, t)
      PROVE  LedgerInv'
  <2> DEFINE x == Entry("EARN", "CREDIT", EarnAmount(p), c, r, 0)
  <2>1. p \in Nat
    BY ConstantsAssumption
  <2>2. x \in EntrySet /\ x.type = "EARN" /\ x.amount = EarnAmount(p)
    BY <2>1, EarnAmountNat DEF Entry, EntrySet, Types, Directions
  <2>3. /\ size + 1 \in Ids
        /\ size' = size + 1
        /\ ledger' = [ledger EXCEPT ![size + 1] = x]
        /\ remaining' = [remaining EXCEPT ![size + 1] = x.amount]
        /\ expiresAt' = [expiresAt EXCEPT ![size + 1] = t + LotLife]
        /\ UNCHANGED <<now, alloc, restored, expired, redemption>>
    BY <1>2, <1>4, <2>2 DEF Earn
  <2>4. t + LotLife \in Nat
    BY <1>3
  <2>5. x \in EntrySet /\ (x.type = "EARN" \/ (x.type = "ADJUSTMENT" /\ x.direction = "CREDIT"))
    BY <2>2
  <2> HIDE DEF x
  <2> QED
    BY <2>3, <2>4, <2>5, OpenLot
<1>5. ASSUME NEW c \in Customers, NEW r \in Receipts, NEW p \in Purchases, NEW t \in Times,
             NEW a \in 1 .. p, Settle(c, r, p, a, t)
      PROVE  LedgerInv'
  <2>1. p \in Nat
    BY ConstantsAssumption
  <2> QED
    BY <1>5, <2>1, SettleStep
<1>6. ASSUME NEW c \in Customers, NEW a \in Adjustments, NEW t \in Times,
             AdjustCredit(c, a, t)
      PROVE  LedgerInv'
  <2> DEFINE x == Entry("ADJUSTMENT", "CREDIT", a, c, None, 0)
  <2>1. a \in Nat
    BY ConstantsAssumption
  <2>2. x \in EntrySet /\ x.type = "ADJUSTMENT" /\ x.direction = "CREDIT" /\ x.amount = a
    BY <2>1 DEF Entry, EntrySet, Types, Directions
  <2>3. /\ size + 1 \in Ids
        /\ size' = size + 1
        /\ ledger' = [ledger EXCEPT ![size + 1] = x]
        /\ remaining' = [remaining EXCEPT ![size + 1] = x.amount]
        /\ expiresAt' = [expiresAt EXCEPT ![size + 1] = t + LotLife]
        /\ UNCHANGED <<now, alloc, restored, expired, redemption>>
    BY <1>2, <1>6, <2>2 DEF AdjustCredit
  <2>4. t + LotLife \in Nat
    BY <1>3
  <2> HIDE DEF x
  <2> QED
    BY <2>2, <2>3, <2>4, OpenLot
<1>7. ASSUME NEW c \in Customers, NEW a \in Adjustments, AdjustDebit(c, a)
      PROVE  LedgerInv'
  <2> DEFINE x == Entry("ADJUSTMENT", "DEBIT", a, c, None, 0)
             plan == PlanAllocations(EligibleLots(c), a)
  <2>1. a \in Nat
    BY ConstantsAssumption
  <2>2. x \in EntrySet /\ x.type = "ADJUSTMENT" /\ x.direction = "DEBIT"
    BY <2>1 DEF Entry, EntrySet, Types, Directions
  <2>3. EligibleLots(c) \in SUBSET Ids
    BY DEF EligibleLots, LotsOf
  <2>4. plan \in [Ids -> Nat] /\ \A l \in Ids : plan[l] <= remaining[l]
    BY <1>1, <2>1, <2>3, PlanWithinLots
  <2>5. /\ size + 1 \in Ids
        /\ size' = size + 1
        /\ ledger' = [ledger EXCEPT ![size + 1] = x]
        /\ alloc' = [alloc EXCEPT ![size + 1] = plan]
        /\ remaining' = [l \in Ids |-> remaining[l] - plan[l]]
        /\ UNCHANGED <<now, expiresAt, restored, expired, redemption>>
    BY <1>2, <1>7 DEF AdjustDebit
  <2> HIDE DEF x, plan
  <2> QED
    BY <2>2, <2>4, <2>5, TakeFromLots
<1>8. ASSUME NEW e \in Ids, ReverseCredit(e)
      PROVE  LedgerInv'
  <2> DEFINE x == Entry("ADJUSTMENT", "DEBIT", ledger[e].amount, ledger[e].customer, None, e)
             plan == [Nothing EXCEPT ![e] = ledger[e].amount]
  <2>1. ledger[e].amount \in Nat /\ ledger[e].customer \in Customers \cup {None}
    BY <1>1 DEF TypeOK, EntrySet
  <2>2. x \in EntrySet /\ x.type = "ADJUSTMENT" /\ x.direction = "DEBIT"
    BY <2>1 DEF Entry, EntrySet, Types, Directions
  <2>3. /\ remaining \in [Ids -> Nat] /\ remaining[e] = ledger[e].amount
    BY <1>1, <1>8 DEF TypeOK, ReverseCredit
  <2>4. /\ plan \in [Ids -> Nat]
        /\ \A l \in Ids : plan[l] = IF l = e THEN ledger[e].amount ELSE 0
    BY <2>1 DEF Nothing
  <2>5. \A l \in Ids : plan[l] <= remaining[l]
    BY <2>3, <2>4
  <2>6. remaining' = [l \in Ids |-> remaining[l] - plan[l]]
    <3>1. remaining' = [remaining EXCEPT ![e] = remaining[e] - ledger[e].amount]
      BY <1>8 DEF ReverseCredit
    <3>2. \A l \in Ids : remaining'[l] = remaining[l] - plan[l]
      BY <2>3, <2>4, <3>1
    <3>3. remaining' = [l \in Ids |-> remaining'[l]]
      BY <2>3, <3>1
    <3> HIDE DEF plan
    <3> QED
      BY <3>2, <3>3
  <2>7. /\ size + 1 \in Ids
        /\ size' = size + 1
        /\ ledger' = [ledger EXCEPT ![size + 1] = x]
        /\ alloc' = [alloc EXCEPT ![size + 1] = plan]
        /\ UNCHANGED <<now, expiresAt, restored, expired, redemption>>
    BY <1>2, <1>8 DEF ReverseCredit
  <2> HIDE DEF x, plan
  <2> QED
    BY <2>2, <2>4, <2>5, <2>6, <2>7, TakeFromLots
<1>9. ASSUME NEW e \in Ids, ReverseDebit(e) PROVE LedgerInv'
  BY <1>9, ReverseDebitStep
<1>10. ASSUME NEW e \in Ids, NEW d \in Ids, ReversePair(e, d) PROVE LedgerInv'
  BY <1>10, ReversePairStep
<1>11. ASSUME NEW batch \in SUBSET DueLots, ExpireDueCredit(batch) PROVE LedgerInv'
  BY <1>11, ExpireStep
<1>12. CASE Tick
  <2>1. /\ UNCHANGED <<size, ledger, expiresAt, remaining, alloc, restored, expired,
                       redemption>>
        /\ now \in Nat /\ now' = now + 1 /\ now' \in Times
    BY <1>1, <1>12, ConstantsAssumption DEF Tick, TypeOK, Times
  <2>2. TypeOK' /\ FreeRowsEmpty' /\ OnlyLotsHoldMoney' /\ RestoredWithinAllocated' /\ LotEvidence'
    BY <2>1 DEF LedgerInv, TypeOK, FreeRowsEmpty, OnlyLotsHoldMoney, RestoredWithinAllocated,
                LotEvidence, Held, IsLot
  <2>3. WrittenOffLapsed'
    BY <1>1, <2>1 DEF LedgerInv, TypeOK, WrittenOffLapsed, Lapsed
  <2> QED
    BY <2>2, <2>3 DEF LedgerInv
<1>13. CASE UNCHANGED vars
  BY <1>13 DEF vars, LedgerInv, TypeOK, FreeRowsEmpty, OnlyLotsHoldMoney,
               RestoredWithinAllocated, WrittenOffLapsed, LotEvidence, Held, IsLot, Lapsed
<1> QED
  BY <1>4, <1>5, <1>6, <1>7, <1>8, <1>9, <1>10, <1>11, <1>12, <1>13 DEF Next

\* LedgerInv is an inductive invariant of the ledger.
THEOREM InvariantHolds == Spec => []LedgerInv
<1>1. Init => LedgerInv
  BY InitInv
<1>2. LedgerInv /\ [Next]_vars => LedgerInv'
  BY NextInv
<1> QED
  BY <1>1, <1>2, PTL DEF Spec

\* The tables keep their types; in particular no sequence of transactions drives a
\* lot's remainingAmountKobo below zero.
THEOREM TypeCorrect == Spec => []TypeOK
<1>1. LedgerInv => TypeOK
  BY DEF LedgerInv
<1> QED
  BY <1>1, InvariantHolds, PTL

\* Every committed state satisfies the balance evidence the deferred database
\* trigger checks for every lot: the services never write what it would reject.
THEOREM EvidenceHolds == Spec => []LotEvidence
<1>1. LedgerInv => LotEvidence
  BY DEF LedgerInv
<1> QED
  BY <1>1, InvariantHolds, PTL

\* A lot the sweep wrote off stays empty whatever is reversed later.
THEOREM WriteOffIsFinal == Spec => []WrittenOffForGood
<1>1. LedgerInv => WrittenOffForGood
  BY DEF LedgerInv, WrittenOffLapsed, WrittenOffForGood
<1> QED
  BY <1>1, InvariantHolds, PTL

\* No transaction but the sweep changes a lot from its expiry instant on.
LEMMA LapsedUntouched ==
  ASSUME LedgerInv, [Next]_vars, NEW l \in Ids, IsLot(l), expiresAt[l] <= now,
         remaining'[l] # remaining[l]
  PROVE  remaining'[l] = 0 /\ expired'[l] = remaining[l]
<1>1. TypeOK /\ size \in Nat /\ remaining \in [Ids -> Nat] /\ Lapsed(l)
  BY ConstantsAssumption DEF LedgerInv, TypeOK, Lapsed
<1>2. l # size + 1 /\ l # size + 2
  BY <1>1, LotsCommitted
<1>3. \A c \in Customers, a \in Nat : PlanAllocations(EligibleLots(c), a)[l] = 0
  BY <1>1 DEF PlanAllocations, EligibleLots
<1>4. ASSUME NEW c \in Customers, NEW r \in Receipts, NEW p \in Purchases, NEW t \in Times,
             Earn(c, r, p, t)
      PROVE  FALSE
  BY <1>1, <1>2, <1>4 DEF Earn
<1>5. ASSUME NEW c \in Customers, NEW r \in Receipts, NEW p \in Purchases, NEW t \in Times,
             NEW a \in 1 .. p, Settle(c, r, p, a, t)
      PROVE  FALSE
  <2>1. a \in Nat
    OBVIOUS
  <2>2. remaining'[l] = remaining[l] - PlanAllocations(EligibleLots(c), a)[l]
    BY <1>2, <1>5 DEF Settle
  <2> QED
    BY <1>1, <1>3, <2>1, <2>2
<1>6. ASSUME NEW c \in Customers, NEW a \in Adjustments, NEW t \in Times,
             AdjustCredit(c, a, t)
      PROVE  FALSE
  BY <1>1, <1>2, <1>6 DEF AdjustCredit
<1>7. ASSUME NEW c \in Customers, NEW a \in Adjustments, AdjustDebit(c, a)
      PROVE  FALSE
  <2>1. a \in Nat
    BY ConstantsAssumption
  <2>2. remaining'[l] = remaining[l] - PlanAllocations(EligibleLots(c), a)[l]
    BY <1>7 DEF AdjustDebit
  <2> QED
    BY <1>1, <1>3, <2>1, <2>2
<1>8. ASSUME NEW e \in Ids, ReverseCredit(e) PROVE FALSE
  BY <1>1, <1>8 DEF ReverseCredit
<1>9. ASSUME NEW d \in Ids, CanRestore(d) PROVE Restorable(d)[l] = 0
  <2>1. alloc[d][l] = 0
    BY <1>1, <1>9, CellTypes DEF CanRestore
  <2> QED
    BY <2>1, RestorableNat
<1>10. ASSUME NEW e \in Ids, ReverseDebit(e) PROVE FALSE
  <2>1. CanRestore(e) /\ remaining'[l] = remaining[l] + Restorable(e)[l]
    BY <1>10 DEF ReverseDebit
  <2> QED
    BY <1>1, <1>9, <2>1
<1>11. ASSUME NEW e \in Ids, NEW d \in Ids, ReversePair(e, d) PROVE FALSE
  <2>1. l # e /\ CanRestore(d)
    BY <1>1, <1>11 DEF ReversePair
  <2>2. remaining'[l] = remaining[l] + Restorable(d)[l]
    BY <1>11, <2>1 DEF ReversePair
  <2> QED
    BY <1>1, <1>9, <2>1, <2>2
<1>12. ASSUME NEW batch \in SUBSET DueLots, ExpireDueCredit(batch)
       PROVE  remaining'[l] = 0 /\ expired'[l] = remaining[l]
  BY <1>12 DEF ExpireDueCredit, WriteOff
<1>13. CASE Tick
  BY <1>13 DEF Tick
<1>14. CASE UNCHANGED vars
  BY <1>14 DEF vars
<1> QED
  BY <1>4, <1>5, <1>6, <1>7, <1>8, <1>10, <1>11, <1>12, <1>13, <1>14 DEF Next

\* From its expiry instant on a lot is neither spent nor refilled, only swept, in
\* every order of earns, settlements, adjustments, reversals and sweeps.
THEOREM LapsedLotsOnlyExpire == Spec => OnlyExpiryTouchesLapsedLots
<1>1. LedgerInv /\ [Next]_vars =>
        [\A l \in Ids :
           IsLot(l) /\ expiresAt[l] <= now /\ remaining'[l] # remaining[l]
           => remaining'[l] = 0 /\ expired'[l] = remaining[l]]_vars
  BY LapsedUntouched
<1> QED
  BY <1>1, InvariantHolds, PTL DEF Spec, OnlyExpiryTouchesLapsedLots

-----------------------------------------------------------------------------
(* The order of the lots, and what planAllocations takes from them. *)

\* Every set of numbers has a least one.
LEMMA LeastNumber ==
  ASSUME NEW N \in SUBSET Nat, N # {}
  PROVE  \E n \in N : \A k \in N : n <= k
<1> DEFINE R == OpToRel(<, Nat)
<1>1. IsWellFoundedOn(R, Nat)
  BY NatLessThanWellFounded
<1>2. \A x, y \in Nat : x < y => <<x, y>> \in R
  BY DEF OpToRel
<1> HIDE DEF R
<1>3. PICK n \in N : \A k \in N : ~(<<k, n>> \in R)
  BY <1>1, WFMin
<1>4. ASSUME NEW k \in N PROVE n <= k
  <2>1. k \in Nat /\ n \in Nat
    OBVIOUS
  <2>2. ~(k < n)
    BY <1>2, <1>3, <2>1, Zenon
  <2> QED
    BY <2>1, <2>2
<1> QED
  BY <1>4

\* The order in which lots are spent is strict and total: rows with the same expiry
\* differ in their id.
LEMMA PrecedesOrders ==
  ASSUME TypeOK
  PROVE  /\ \A a \in Ids : ~Precedes(a, a)
         /\ \A a, b, c \in Ids : Precedes(a, b) /\ Precedes(b, c) => Precedes(a, c)
         /\ \A a, b \in Ids : a # b => Precedes(a, b) \/ Precedes(b, a)
<1>1. \A a \in Ids : expiresAt[a] \in Nat /\ Rank[a] \in Nat
  BY ConstantsAssumption DEF TypeOK
<1>2. \A a, b \in Ids : Rank[a] = Rank[b] => a = b
  BY ConstantsAssumption
<1> QED
  BY <1>1, <1>2 DEF Precedes

\* Among some lots, the number of lots before one tells where it comes.
LEMMA PlaceInOrder ==
  ASSUME TypeOK, NEW lots \in SUBSET Ids, NEW a \in lots, NEW b \in lots, Precedes(a, b)
  PROVE  Cardinality({m \in lots : Precedes(m, a)}) < Cardinality({m \in lots : Precedes(m, b)})
<1> DEFINE A == {m \in lots : Precedes(m, a)}
           B == {m \in lots : Precedes(m, b)}
<1>1. A \in SUBSET B /\ A # B /\ B \in SUBSET Ids
  BY PrecedesOrders
<1>2. IsFiniteSet(B) /\ IsFiniteSet(A)
  BY <1>1, IdsFinite
<1> HIDE DEF A, B
<1>3. Cardinality(A) <= Cardinality(B) /\ Cardinality(A) # Cardinality(B)
  BY <1>1, <1>2, FS_Subset
<1>4. Cardinality(A) \in Nat /\ Cardinality(B) \in Nat
  BY <1>2, FS_CardinalityType
<1>5. Cardinality(A) < Cardinality(B)
  BY <1>3, <1>4
<1> QED
  BY <1>5 DEF A, B

\* Some lot comes first.
LEMMA FirstLot ==
  ASSUME TypeOK, NEW lots \in SUBSET Ids, lots # {}
  PROVE  \E l \in lots : \A m \in lots : m = l \/ Precedes(l, m)
<1> DEFINE place == [l \in lots |-> Cardinality({m \in lots : Precedes(m, l)})]
<1>1. \A l \in lots : place[l] \in Nat
  <2> TAKE l \in lots
  <2>1. {m \in lots : Precedes(m, l)} \in SUBSET Ids
    OBVIOUS
  <2> QED
    BY <2>1, IdsFinite, FS_CardinalityType
<1>2. \A a, b \in lots : Precedes(a, b) => place[a] < place[b]
  BY PlaceInOrder
<1> HIDE DEF place
<1>3. PICK n \in {place[l] : l \in lots} : \A k \in {place[l] : l \in lots} : n <= k
  <2>1. {place[l] : l \in lots} \in SUBSET Nat /\ {place[l] : l \in lots} # {}
    BY <1>1
  <2> QED
    BY <2>1, LeastNumber
<1>4. PICK l \in lots : \A m \in lots : place[l] <= place[m]
  BY <1>3
<1>5. \A m \in lots : ~Precedes(m, l)
  BY <1>1, <1>2, <1>4
<1> QED
  BY <1>5, PrecedesOrders

\* Some lot comes last.
LEMMA LastLot ==
  ASSUME TypeOK, NEW lots \in SUBSET Ids, lots # {}
  PROVE  \E l \in lots : \A m \in lots : m = l \/ Precedes(m, l)
<1> DEFINE total == Cardinality(lots)
           place == [l \in lots |-> Cardinality({m \in lots : Precedes(m, l)})]
<1>1. total \in Nat
  BY IdsFinite, FS_CardinalityType
<1>2. \A l \in lots : place[l] \in Nat /\ place[l] <= total
  <2> TAKE l \in lots
  <2>1. {m \in lots : Precedes(m, l)} \in SUBSET lots /\ IsFiniteSet(lots)
    BY IdsFinite
  <2> QED
    BY <2>1, FS_Subset, FS_CardinalityType
<1>3. \A a, b \in lots : Precedes(a, b) => place[a] < place[b]
  BY PlaceInOrder
<1> HIDE DEF place, total
<1>4. PICK n \in {total - place[l] : l \in lots} : \A k \in {total - place[l] : l \in lots} : n <= k
  <2>1. {total - place[l] : l \in lots} \in SUBSET Nat /\ {total - place[l] : l \in lots} # {}
    BY <1>1, <1>2
  <2> QED
    BY <2>1, LeastNumber
<1>5. PICK l \in lots : \A m \in lots : total - place[l] <= total - place[m]
  BY <1>4
<1>6. \A m \in lots : ~Precedes(l, m)
  BY <1>1, <1>2, <1>3, <1>5
<1> QED
  BY <1>6, PrecedesOrders

\* The lots before one lot hold at least what every earlier lot and the lots before
\* that one hold.
LEMMA AheadGrows ==
  ASSUME TypeOK, NEW lots \in SUBSET Ids, NEW l \in lots, NEW m \in lots, Precedes(m, l)
  PROVE  Ahead(lots, m) + remaining[m] <= Ahead(lots, l)
<1> DEFINE L == {k \in lots : Precedes(k, l)}
           M == {k \in lots : Precedes(k, m)}
<1>1. m \in L /\ M \in SUBSET (L \ {m}) /\ L \in SUBSET Ids
  BY PrecedesOrders
<1>2. IsFiniteSet(L) /\ IsFiniteSet(L \ {m})
  BY <1>1, IdsFinite, FS_Difference
<1>3. \A s \in L : remaining[s] \in Nat
  BY <1>1 DEF TypeOK
<1>4. Ahead(lots, l) = Total(remaining, L) /\ Ahead(lots, m) = Total(remaining, M)
  BY DEF Ahead
<1> HIDE DEF L, M
<1>5. Total(remaining, L) = Total(remaining, L \ {m}) + remaining[m]
  BY <1>1, <1>2, <1>3, TotalSplit
<1>6. Total(remaining, M) <= Total(remaining, L \ {m})
  BY <1>1, <1>2, <1>3, TotalWithin
<1>7. Total(remaining, M) \in Nat /\ Total(remaining, L \ {m}) \in Nat /\ remaining[m] \in Nat
  <2>1. IsFiniteSet(M) /\ \A s \in M : remaining[s] \in Nat
    BY <1>1, <1>2, <1>3, FS_Subset
  <2> QED
    BY <1>1, <1>2, <1>3, <2>1, TotalNat
<1> QED
  BY <1>4, <1>5, <1>6, <1>7

\* What planAllocations takes from the lots before one it touches: all of it.
LEMMA PlanEmptiesEarlier ==
  ASSUME TypeOK, NEW lots \in SUBSET Ids, NEW amount \in Nat,
         NEW l \in lots, NEW m \in lots, Precedes(m, l), Ahead(lots, l) < amount
  PROVE  PlanAllocations(lots, amount)[m] = remaining[m]
<1>1. Ahead(lots, m) + remaining[m] <= Ahead(lots, l)
  BY AheadGrows
<1>2. remaining[m] \in Nat /\ remaining \in [Ids -> Nat]
  BY DEF TypeOK
<1>3. Ahead(lots, m) \in Nat /\ Ahead(lots, l) \in Nat
  BY <1>2, IdsFinite, TotalNat DEF Ahead
<1>4. Ahead(lots, m) < amount /\ remaining[m] <= amount - Ahead(lots, m)
  BY <1>1, <1>2, <1>3
<1>5. PlanAllocations(lots, amount)[m] = Smaller(remaining[m], amount - Ahead(lots, m))
  BY <1>4 DEF PlanAllocations
<1> QED
  BY <1>2, <1>3, <1>4, <1>5 DEF Smaller

\* When the lots hold the amount, planAllocations finds all of it: the walk ends at
\* the last lot it touches with nothing missing.
LEMMA PlanCoversAmount ==
  ASSUME TypeOK, NEW lots \in SUBSET Ids, NEW amount \in Nat,
         amount <= Total(remaining, lots)
  PROVE  Total(PlanAllocations(lots, amount), Ids) = amount
<1> DEFINE plan == PlanAllocations(lots, amount)
           touched == {l \in lots : Ahead(lots, l) < amount}
<1>1. remaining \in [Ids -> Nat]
  BY DEF TypeOK
<1>2. \A l \in Ids : Ahead(lots, l) \in Nat
  BY <1>1, IdsFinite, TotalNat DEF Ahead
<1>3. \A l \in Ids : plan[l] = IF l \in touched
                               THEN Smaller(remaining[l], amount - Ahead(lots, l)) ELSE 0
  BY DEF PlanAllocations
<1>4. \A l \in Ids : plan[l] \in Nat
  BY PlanWithinLots
<1>5. CASE amount = 0
  <2>1. \A l \in Ids : plan[l] = 0
    BY <1>2, <1>3, <1>5
  <2> HIDE DEF plan
  <2>2. Total(plan, Ids) = 0
    BY <2>1, TotalZero
  <2> QED
    BY <1>5, <2>2 DEF plan
<1>6. CASE amount > 0
  <2>1. touched # {}
    <3>1. lots # {}
      <4>1. lots = {} => Total(remaining, lots) = 0
        BY TotalZero
      <4> QED
        BY <1>6, <4>1
    <3>2. PICK l \in lots : \A m \in lots : m = l \/ Precedes(l, m)
      BY <3>1, FirstLot
    <3>3. {m \in lots : Precedes(m, l)} = {}
      BY <3>2, PrecedesOrders
    <3>4. Ahead(lots, l) = 0
      BY <3>3, TotalZero DEF Ahead
    <3> QED
      BY <1>6, <3>4
  <2>2. touched \in SUBSET Ids
    OBVIOUS
  <2>3. PICK t \in touched : \A m \in touched : m = t \/ Precedes(m, t)
    BY <2>1, <2>2, LastLot
  <2>4. t \in lots /\ t \in Ids /\ Ahead(lots, t) < amount
    OBVIOUS
  <2> DEFINE before == {m \in lots : Precedes(m, t)}
             upTo == before \cup {t}
  <2>5. before \in SUBSET Ids /\ upTo \in SUBSET Ids /\ t \notin before /\ upTo \ {t} = before
    BY <2>4, PrecedesOrders
  <2>6. Total(remaining, upTo) = Ahead(lots, t) + remaining[t]
    <3>1. IsFiniteSet(upTo)
      BY <2>5, IdsFinite
    <3>2. \A l \in upTo : remaining[l] \in Nat
      BY <1>1, <2>5
    <3>3. t \in upTo /\ Ahead(lots, t) = Total(remaining, before)
      BY DEF Ahead
    <3> HIDE DEF upTo, before
    <3> QED
      BY <2>5, <3>1, <3>2, <3>3, TotalSplit
  \* Were anything missing after the last touched lot, the next one would be touched.
  <2>7. amount <= Ahead(lots, t) + remaining[t]
    <3> SUFFICES ASSUME Ahead(lots, t) + remaining[t] < amount PROVE FALSE
      BY <1>1, <1>2, <2>4
    <3> DEFINE later == {m \in lots : Precedes(t, m)}
    <3>1. CASE later = {}
      <4>1. lots = upTo
        BY <2>4, <3>1, PrecedesOrders
      <4>2. Total(remaining, lots) = Ahead(lots, t) + remaining[t]
        BY <2>6, <4>1
      <4> QED
        BY <1>1, <1>2, <2>4, <4>2
    <3>2. CASE later # {}
      <4>1. later \in SUBSET Ids
        OBVIOUS
      <4>2. PICK n \in later : \A m \in later : m = n \/ Precedes(n, m)
        BY <3>2, <4>1, FirstLot
      <4>3. n \in lots /\ n \in Ids /\ Precedes(t, n)
        OBVIOUS
      <4>4. {m \in lots : Precedes(m, n)} = upTo
        BY <2>4, <4>2, <4>3, PrecedesOrders
      <4>5. Ahead(lots, n) < amount
        BY <2>6, <4>4 DEF Ahead
      <4>6. n \in touched
        BY <4>3, <4>5
      <4> QED
        BY <2>3, <2>4, <4>3, <4>6, PrecedesOrders
    <3> QED
      BY <3>1, <3>2
  <2>8. plan[t] = amount - Ahead(lots, t)
    BY <1>1, <1>2, <1>3, <2>4, <2>7 DEF Smaller
  <2>9. \A l \in before : plan[l] = remaining[l]
    BY <2>4, PlanEmptiesEarlier
  <2>10. \A l \in Ids : l \notin upTo => plan[l] = 0
    <3> SUFFICES ASSUME NEW l \in Ids, l \notin upTo, l \in touched PROVE FALSE
      BY <1>3
    <3> QED
      BY <2>3
  <2>11. \A l \in Ids : plan[l] = IF l \in upTo THEN plan[l] ELSE 0
    BY <2>10
  <2> HIDE DEF plan, upTo, before, touched
  <2>12. Total(plan, upTo) = Total(plan, Ids)
    BY <2>5, <2>11, TotalPart
  <2>13. Total(plan, upTo) = Total(plan, before) + plan[t]
    <3>1. IsFiniteSet(upTo) /\ t \in upTo
      BY <2>5, IdsFinite DEF upTo
    <3>2. \A l \in upTo : plan[l] \in Nat
      BY <1>4, <2>5
    <3> QED
      BY <2>5, <3>1, <3>2, TotalSplit
  <2>14. Total(plan, before) = Ahead(lots, t)
    <3>1. Total(plan, before) = Total(remaining, before)
      BY <2>9, TotalSame
    <3> QED
      BY <3>1 DEF Ahead, before
  <2>15. Total(plan, Ids) = amount
    BY <1>2, <2>4, <2>8, <2>12, <2>13, <2>14
  <2> QED
    BY <2>15 DEF plan
<1> QED
  BY <1>5, <1>6

\* A lot together with the lots before it.
LEMMA AheadOfNext ==
  ASSUME TypeOK, NEW lots \in SUBSET Ids, NEW l \in lots, NEW S \in SUBSET lots,
         l \in S, S \ {l} = {m \in lots : Precedes(m, l)}
  PROVE  Total(remaining, S) = Ahead(lots, l) + remaining[l]
<1>1. IsFiniteSet(S) /\ \A s \in S : remaining[s] \in Nat
  BY IdsFinite DEF TypeOK
<1>2. Total(remaining, S) = Total(remaining, S \ {l}) + remaining[l]
  BY <1>1, TotalSplit
<1> QED
  BY <1>2 DEF Ahead

\* The loop variable of planAllocations, "remaining", when the walk has come to lot l:
\* what the lots before l left of the amount.
Missing(lots, amount, l) ==
  IF Ahead(lots, l) < amount THEN amount - Ahead(lots, l) ELSE 0

\* In the order of the walk, lot m comes directly after lot l.
Follows(lots, l, m) ==
  Precedes(l, m) /\ \A k \in lots : ~(Precedes(l, k) /\ Precedes(k, m))

\* PlanAllocations, which gives each lot's share without a loop, is what the loop of
\* planAllocations computes: it starts with the whole amount, takes from each lot the
\* smaller of what the lot has and what is missing, goes on with the rest, and throws
\* INSUFFICIENT_BALANCE, something being missing after the last lot, exactly when the
\* lots hold less than the amount.
THEOREM PlanIsTheWalk ==
  ASSUME TypeOK, NEW lots \in SUBSET Ids, NEW amount \in Nat
  PROVE  LET plan == PlanAllocations(lots, amount)
         IN  /\ \A l \in lots : (\A m \in lots : ~Precedes(m, l)) =>
                  Missing(lots, amount, l) = amount
             /\ \A l \in lots : plan[l] = Smaller(remaining[l], Missing(lots, amount, l))
             /\ \A l, m \in lots : Follows(lots, l, m) =>
                  Missing(lots, amount, m) = Missing(lots, amount, l) - plan[l]
             /\ \A l \in lots : (\A m \in lots : ~Precedes(l, m)) =>
                  (Missing(lots, amount, l) - plan[l] > 0 <=> Total(remaining, lots) < amount)
<1> DEFINE plan == PlanAllocations(lots, amount)
<1>1. remaining \in [Ids -> Nat] /\ \A l \in lots : l \in Ids /\ remaining[l] \in Nat
  BY DEF TypeOK
<1>2. \A l \in lots : Ahead(lots, l) \in Nat
  BY <1>1, IdsFinite, TotalNat DEF Ahead
<1>3. \A l \in lots : plan[l] = Smaller(remaining[l], Missing(lots, amount, l))
  BY <1>1, <1>2 DEF PlanAllocations, Missing, Smaller
<1>4. ASSUME NEW l \in lots, \A m \in lots : ~Precedes(m, l)
      PROVE  Missing(lots, amount, l) = amount
  <2>1. {m \in lots : Precedes(m, l)} = {}
    BY <1>4
  <2>2. Ahead(lots, l) = 0
    BY <2>1, TotalZero DEF Ahead
  <2> QED
    BY <2>2 DEF Missing
<1> HIDE DEF plan
\* After lot l the amount that is missing is what Ahead and lot l together leave of it.
<1>5. ASSUME NEW l \in lots
      PROVE  Missing(lots, amount, l) - plan[l] =
               IF Ahead(lots, l) + remaining[l] < amount
               THEN amount - (Ahead(lots, l) + remaining[l]) ELSE 0
  <2>1. Ahead(lots, l) \in Nat /\ remaining[l] \in Nat
    BY <1>1, <1>2
  <2>2. plan[l] = Smaller(remaining[l], Missing(lots, amount, l))
    BY <1>3
  <2> QED
    BY <2>1, <2>2 DEF Missing, Smaller
<1>6. ASSUME NEW l \in lots, NEW m \in lots, Follows(lots, l, m)
      PROVE  Missing(lots, amount, m) = Missing(lots, amount, l) - plan[l]
  <2> DEFINE S == {k \in lots : Precedes(k, m)}
  <2>1. S \in SUBSET lots /\ l \in S /\ S \ {l} = {k \in lots : Precedes(k, l)}
    BY <1>1, <1>6, PrecedesOrders DEF Follows
  <2>2. Ahead(lots, m) = Total(remaining, S)
    BY DEF Ahead
  <2> HIDE DEF S
  <2>3. Ahead(lots, m) = Ahead(lots, l) + remaining[l]
    BY <2>1, <2>2, AheadOfNext
  <2> QED
    BY <1>5, <2>3 DEF Missing
<1>7. ASSUME NEW l \in lots, \A m \in lots : ~Precedes(l, m)
      PROVE  Missing(lots, amount, l) - plan[l] > 0 <=> Total(remaining, lots) < amount
  <2>1. lots \ {l} = {m \in lots : Precedes(m, l)}
    BY <1>1, <1>7, PrecedesOrders
  <2>2. Total(remaining, lots) = Ahead(lots, l) + remaining[l]
    BY <2>1, AheadOfNext
  <2> QED
    BY <1>1, <1>2, <1>5, <2>2
<1> QED
  BY <1>3, <1>4, <1>6, <1>7 DEF plan

-----------------------------------------------------------------------------
(* What the rows say of one another: receipts, reversals, allocations. *)

\* The rows of a POS receipt are the earnings and redemptions.
ReceiptsOnSettlements ==
  \A e \in Ids : ledger[e].receipt \in Receipts <=> ledger[e].type \in {"EARN", "REDEEM"}

\* A reversal names a row committed before it.
ReversesEarlier == \A e \in Ids : ledger[e].reverses < e

\* What a debit took from lots is what it is booked at.
DebitsCovered ==
  \A d \in Ids : IsAllocatedDebit(d) => Total(alloc[d], Ids) = ledger[d].amount

\* A debit takes from its customer's lots only.
OwnLotsOnly ==
  \A d, l \in Ids : alloc[d][l] > 0 => ledger[d].customer = ledger[l].customer

\* A REVERSAL row names a debit and has given all of it back.
ReversalsInFull ==
  \A v \in Ids : ledger[v].type = "REVERSAL" =>
    LET d == ledger[v].reverses
    IN  /\ d \in Ids /\ IsAllocatedDebit(d)
        /\ ledger[v].amount = ledger[d].amount /\ restored[d] = alloc[d]

\* Nothing has been given back of a debit no row reverses.
StandingDebitsUntouched == \A d \in Ids : Reversed(d) \/ restored[d] = Nothing

\* LedgerInv, and what the rows say of one another: inductive together.
RowsInv ==
  /\ LedgerInv
  /\ ReceiptsOnSettlements
  /\ ReversesEarlier
  /\ DebitsCovered
  /\ OwnLotsOnly
  /\ ReversalsInFull
  /\ StandingDebitsUntouched
  /\ SettlementReversedAsUnit

\* What a transaction must make sure of for a row e it appends.
NewRow(e) ==
  LET x == ledger'[e]
  IN  /\ x.receipt \in Receipts <=> x.type \in {"EARN", "REDEEM"}
      /\ x.receipt \in Receipts => UnusedReceipt(x.receipt)
      /\ x.type = "REDEEM" => redemption'[x.receipt] = "CONFIRMED"
      /\ x.reverses <= size
      /\ x.type = "REDEEM" \/ (x.type = "ADJUSTMENT" /\ x.direction = "DEBIT") =>
           Total(alloc'[e], Ids) = x.amount
      /\ \A l \in Ids : alloc'[e][l] > 0 => IsLot(l) /\ x.customer = ledger[l].customer
      /\ x.type = "REVERSAL" =>
           /\ x.reverses \in Ids /\ IsAllocatedDebit(x.reverses)
           /\ x.amount = ledger[x.reverses].amount
           /\ restored'[x.reverses] = alloc[x.reverses]

\* The rows a transaction appends, the set named of earlier rows it reverses.
Appends(named) ==
  /\ \A e \in Ids : e <= size => ledger'[e] = ledger[e] /\ alloc'[e] = alloc[e]
  /\ \A e \in Ids : size < e /\ e <= size' => NewRow(e)
  /\ \A e \in Ids : e \in named <=>
       \E v \in Ids : size < v /\ v <= size' /\ ledger'[v].reverses = e
  /\ \A e \in named : ~Reversed(e)
  /\ \A e \in named, p \in Ids :
       ledger[p].receipt \in Receipts /\ ledger[p].receipt = ledger[e].receipt => p \in named
  /\ \A d \in Ids : ledger[d].type = "REDEEM" =>
       redemption'[ledger[d].receipt] = IF d \in named THEN "REVERSED"
                                        ELSE redemption[ledger[d].receipt]
  /\ \A d \in Ids : d \notin named => restored'[d] = restored[d]

\* A transaction that appends such rows and reverses whole receipts only keeps what
\* the rows say.
LEMMA RowsStep ==
  ASSUME RowsInv, LedgerInv', size' >= size, NEW named \in SUBSET Ids, Appends(named)
  PROVE  RowsInv'
<1>1. TypeOK /\ TypeOK' /\ size \in Nat /\ size' \in Nat /\ Ids \subseteq Nat
  <2>1. TypeOK /\ TypeOK'
    BY DEF RowsInv, LedgerInv
  <2>2. size \in 0 .. MaxEntries /\ size' \in 0 .. MaxEntries
    BY <2>1 DEF TypeOK
  <2> QED
    BY <2>1, <2>2, ConstantsAssumption DEF Ids
<1>2. \A e \in Ids : e <= size => ledger'[e] = ledger[e] /\ alloc'[e] = alloc[e]
  BY DEF Appends
<1>3. \A e \in Ids : size < e /\ e <= size' => NewRow(e)
  BY DEF Appends
<1>4. \A e \in Ids : e > size => ledger[e] = Blank /\ restored[e] = Nothing
  BY DEF RowsInv, LedgerInv, FreeRowsEmpty
<1>5. \A e \in Ids : e > size' => ledger'[e] = Blank /\ alloc'[e] = Nothing
  BY DEF LedgerInv, FreeRowsEmpty
<1>6. /\ Blank.receipt \notin Receipts /\ Blank.type = "NONE" /\ Blank.reverses = 0
      /\ Blank.direction = "NONE" /\ \A l \in Ids : Nothing[l] = 0
  BY ConstantsAssumption DEF Blank, Entry, Nothing
\* A row is an old one, a new one or a free one.
<1>7. \A e \in Ids : e <= size \/ (size < e /\ e <= size') \/ e > size'
  BY <1>1
<1>8. \A e \in Ids : e <= size => (IsLot(e)' <=> IsLot(e))
                                  /\ (IsAllocatedDebit(e)' <=> IsAllocatedDebit(e))
  BY <1>2 DEF IsLot, IsAllocatedDebit
<1>9. \A e \in Ids : e > size => ~IsLot(e) /\ ~IsAllocatedDebit(e)
  BY LotsCommitted DEF RowsInv
<1>10. ReceiptsOnSettlements'
  <2> SUFFICES ASSUME NEW e \in Ids
               PROVE  ledger'[e].receipt \in Receipts <=> ledger'[e].type \in {"EARN", "REDEEM"}
    BY DEF ReceiptsOnSettlements
  <2>1. CASE e <= size
    BY <1>2, <2>1 DEF RowsInv, ReceiptsOnSettlements
  <2>2. CASE size < e /\ e <= size'
    BY <1>3, <2>2 DEF NewRow
  <2>3. CASE e > size'
    BY <1>5, <1>6, <2>3
  <2> QED
    BY <1>7, <2>1, <2>2, <2>3
<1>11. ReversesEarlier'
  <2> SUFFICES ASSUME NEW e \in Ids PROVE ledger'[e].reverses < e
    BY DEF ReversesEarlier
  <2>1. CASE e <= size
    BY <1>2, <2>1 DEF RowsInv, ReversesEarlier
  <2>2. CASE size < e /\ e <= size'
    <3>1. ledger'[e].reverses <= size /\ ledger'[e].reverses \in Ids \cup {0}
      BY <1>1, <1>3, <2>2 DEF NewRow, TypeOK, EntrySet
    <3>2. size \in Nat /\ e \in Nat /\ Ids \subseteq Nat
      BY <1>1
    <3>3. PICK r : r = ledger'[e].reverses
      OBVIOUS
    <3>4. r \in Ids \cup {0}
      BY ONLY <3>1, <3>3
    <3>5. r \in Nat
      BY ONLY <3>2, <3>4
    <3> QED
      BY ONLY <2>2, <3>1, <3>2, <3>3, <3>5
  <2>3. CASE e > size'
    BY <1>1, <1>5, <1>6, <2>3
  <2> QED
    BY <1>7, <2>1, <2>2, <2>3
<1>12. DebitsCovered'
  <2> SUFFICES ASSUME NEW d \in Ids, IsAllocatedDebit(d)'
               PROVE  Total(alloc'[d], Ids) = ledger'[d].amount
    BY DEF DebitsCovered
  <2>1. CASE d <= size
    BY <1>2, <1>8, <2>1 DEF RowsInv, DebitsCovered
  <2>2. CASE size < d /\ d <= size'
    <3>1. \/ ledger'[d].type = "REDEEM"
          \/ ledger'[d].type = "ADJUSTMENT" /\ ledger'[d].direction = "DEBIT"
      BY DEF IsAllocatedDebit
    <3>2. NewRow(d)
      BY <1>3, <2>2
    <3> QED
      BY <3>1, <3>2 DEF NewRow
  <2>3. CASE d > size'
    BY <1>5, <1>6, <2>3 DEF IsAllocatedDebit
  <2> QED
    BY <1>7, <2>1, <2>2, <2>3
<1>13. OwnLotsOnly'
  <2> SUFFICES ASSUME NEW d \in Ids, NEW l \in Ids, alloc'[d][l] > 0
               PROVE  ledger'[d].customer = ledger'[l].customer
    BY DEF OwnLotsOnly
  <2>1. CASE d <= size
    <3>1. alloc[d][l] > 0
      BY <1>2, <2>1
    <3>2. IsLot(l)
      BY <3>1 DEF RowsInv, LedgerInv, OnlyLotsHoldMoney
    <3>3. ledger'[l] = ledger[l]
      <4>1. size \in Nat /\ l \in Nat /\ ~(l > size)
        BY <1>1, <1>9, <3>2
      <4>2. l <= size
        BY ONLY <4>1
      <4> QED
        BY <1>2, <4>2
    <3> QED
      BY <1>2, <2>1, <3>1, <3>3 DEF RowsInv, OwnLotsOnly
  <2>2. CASE size < d /\ d <= size'
    <3>1. IsLot(l) /\ ledger'[d].customer = ledger[l].customer
      BY <1>3, <2>2 DEF NewRow
    <3>2. ledger'[l] = ledger[l]
      <4>1. size \in Nat /\ l \in Nat /\ ~(l > size)
        BY <1>1, <1>9, <3>1
      <4>2. l <= size
        BY ONLY <4>1
      <4> QED
        BY <1>2, <4>2
    <3> QED
      BY <3>1, <3>2
  <2>3. CASE d > size'
    BY <1>5, <1>6, <2>3
  <2> QED
    BY <1>7, <2>1, <2>2, <2>3
<1>14. \A e \in Ids : Reversed(e)' <=> Reversed(e) \/ e \in named
  <2> TAKE e \in Ids
  <2>1. ASSUME NEW v \in Ids, v <= size PROVE ledger'[v].reverses = ledger[v].reverses
    BY <1>2, <2>1
  <2>2. ASSUME NEW v \in Ids, v > size PROVE ledger[v].reverses # e
    BY <1>1, <1>4, <1>6, <2>2 DEF Ids
  <2>3. ASSUME NEW v \in Ids, v > size' PROVE ledger'[v].reverses # e
    BY <1>1, <1>5, <1>6, <2>3 DEF Ids
  <2>4. e \in named <=> \E v \in Ids : size < v /\ v <= size' /\ ledger'[v].reverses = e
    BY DEF Appends
  <2> QED
    BY <1>1, <1>7, <2>1, <2>2, <2>3, <2>4 DEF Reversed
<1>15. \A e \in Ids : e > size => ~Reversed(e) /\ e \notin named
  <2> SUFFICES ASSUME NEW e \in Ids, e > size PROVE ~Reversed(e) /\ e \notin named
    OBVIOUS
  <2>1. ASSUME NEW v \in Ids PROVE ledger[v].reverses # e
    <3>1. CASE v <= size
      <4>1. ledger[v].reverses < v /\ ledger[v].reverses \in Ids \cup {0}
        BY <1>1 DEF RowsInv, ReversesEarlier, TypeOK, EntrySet
      <4> QED
        BY <1>1, <3>1, <4>1
    <3>2. CASE v > size
      BY <1>1, <1>4, <1>6, <3>2 DEF Ids
    <3> QED
      BY <1>1, <3>1, <3>2
  <2>2. ASSUME NEW v \in Ids, size < v, v <= size' PROVE ledger'[v].reverses # e
    <3>1. ledger'[v].reverses <= size /\ ledger'[v].reverses \in Ids \cup {0}
      BY <1>1, <1>3, <2>2 DEF NewRow, TypeOK, EntrySet
    <3> QED
      BY <1>1, <3>1
  <2>3. e \in named <=> \E v \in Ids : size < v /\ v <= size' /\ ledger'[v].reverses = e
    BY DEF Appends
  <2> QED
    BY <2>1, <2>2, <2>3 DEF Reversed
<1>16. ReversalsInFull'
  <2> SUFFICES ASSUME NEW v \in Ids, ledger'[v].type = "REVERSAL",
                      NEW d, d = ledger'[v].reverses
               PROVE  /\ d \in Ids /\ IsAllocatedDebit(d)'
                      /\ ledger'[v].amount = ledger'[d].amount /\ restored'[d] = alloc'[d]
    BY DEF ReversalsInFull, IsAllocatedDebit
  <2>1. CASE v <= size
    <3>1. ledger'[v] = ledger[v]
      BY <1>2, <2>1
    <3>2. d \in Ids /\ IsAllocatedDebit(d) /\ ledger[v].amount = ledger[d].amount
          /\ restored[d] = alloc[d]
      BY <3>1 DEF RowsInv, ReversalsInFull
    <3>3. d <= size
      BY <1>1, <1>9, <3>2
    <3>4. d \notin named
      <4>1. Reversed(d)
        BY <3>1 DEF Reversed
      <4> QED
        BY <4>1 DEF Appends
    <3>5. restored'[d] = restored[d]
      BY <3>2, <3>4 DEF Appends
    <3> QED
      BY <1>2, <1>8, <3>1, <3>2, <3>3, <3>5
  <2>2. CASE size < v /\ v <= size'
    <3>1. d \in Ids /\ IsAllocatedDebit(d) /\ ledger'[v].amount = ledger[d].amount
          /\ restored'[d] = alloc[d]
      BY <1>3, <2>2 DEF NewRow
    <3>2. d <= size
      <4>1. d \in Nat /\ ~(d > size)
        BY <1>1, <1>9, <3>1
      <4> QED
        BY <1>1, <4>1
    <3> QED
      BY <1>2, <1>8, <3>1, <3>2
  <2>3. CASE v > size'
    BY <1>5, <1>6, <2>3
  <2> QED
    BY <1>7, <2>1, <2>2, <2>3
<1>17. StandingDebitsUntouched'
  <2> SUFFICES ASSUME NEW d \in Ids, ~Reversed(d)' PROVE restored'[d] = Nothing
    BY DEF StandingDebitsUntouched
  <2>1. ~Reversed(d) /\ d \notin named
    BY <1>14
  <2>2. restored'[d] = restored[d]
    BY <2>1 DEF Appends
  <2> QED
    BY <2>1, <2>2 DEF RowsInv, StandingDebitsUntouched
<1>18. SettlementReversedAsUnit'
  <2> SUFFICES ASSUME NEW d \in Ids, ledger'[d].type = "REDEEM"
               PROVE  /\ Reversed(d)' <=> redemption'[ledger'[d].receipt] = "REVERSED"
                      /\ \A e \in Ids : ledger'[e].receipt = ledger'[d].receipt =>
                           (Reversed(e)' <=> Reversed(d)')
    BY DEF SettlementReversedAsUnit
  <2>1. ledger'[d].receipt \in Receipts
    BY <1>10 DEF ReceiptsOnSettlements
  <2>2. \A e \in Ids : size < e /\ e <= size' /\ ledger'[e].receipt = ledger'[d].receipt =>
          \A p \in Ids : ledger[p].receipt # ledger'[d].receipt
    BY <1>3, <2>1 DEF NewRow, UnusedReceipt
  <2>3. \A e \in Ids : e > size' => ledger'[e].receipt # ledger'[d].receipt
    BY <1>5, <1>6, <2>1
  <2>4. CASE d <= size
    <3>1. ledger'[d] = ledger[d]
      BY <1>2, <2>4
    <3>2. ASSUME NEW e \in Ids, ledger'[e].receipt = ledger[d].receipt
          PROVE  e <= size /\ ledger'[e] = ledger[e]
      BY <1>2, <1>7, <2>2, <2>3, <3>1, <3>2
    <3>3. /\ Reversed(d) <=> redemption[ledger[d].receipt] = "REVERSED"
          /\ \A e \in Ids : ledger[e].receipt = ledger[d].receipt => (Reversed(e) <=> Reversed(d))
      BY <3>1 DEF RowsInv, SettlementReversedAsUnit
    <3>4. redemption'[ledger[d].receipt] = IF d \in named THEN "REVERSED"
                                           ELSE redemption[ledger[d].receipt]
      BY <3>1 DEF Appends
    <3>5. \A e \in Ids : ledger[e].receipt = ledger[d].receipt => (e \in named <=> d \in named)
      BY <2>1, <3>1 DEF Appends
    <3> QED
      BY <1>14, <3>1, <3>2, <3>3, <3>4, <3>5
  <2>5. CASE size < d /\ d <= size'
    <3>1. redemption'[ledger'[d].receipt] = "CONFIRMED"
      BY <1>3, <2>5 DEF NewRow
    <3>2. ASSUME NEW e \in Ids, ledger'[e].receipt = ledger'[d].receipt PROVE e > size
      BY <1>1, <1>2, <2>2, <2>5, <3>2
    <3>3. \A e \in Ids : e > size => ~Reversed(e)'
      BY <1>14, <1>15
    <3> QED
      BY <2>5, <3>1, <3>2, <3>3
  <2>6. CASE d > size'
    BY <2>3, <2>6
  <2> QED
    BY <1>7, <2>4, <2>5, <2>6
<1> QED
  BY <1>10, <1>11, <1>12, <1>13, <1>16, <1>17, <1>18 DEF RowsInv

\* Room for one more row.
LEMMA NextRow ==
  ASSUME LedgerInv, NEW n \in {1, 2}, Fits(n)
  PROVE  /\ TypeOK /\ size \in Nat /\ Ids \subseteq Nat
         /\ size + 1 \in Ids /\ size + n \in Ids
         /\ \A e \in Ids : e > size => ledger[e] = Blank /\ alloc[e] = Nothing
         /\ \A e \in Ids : ledger[e] # Blank => e <= size
<1>1. TypeOK /\ size \in Nat /\ Ids \subseteq Nat
  <2>1. TypeOK /\ size \in 0 .. MaxEntries
    BY DEF LedgerInv, TypeOK
  <2> QED
    BY <2>1, ConstantsAssumption DEF Ids
<1>2. size + 1 \in Ids /\ size + n \in Ids
  BY <1>1, ConstantsAssumption DEF Fits, Ids
<1>3. \A e \in Ids : e > size => ledger[e] = Blank /\ alloc[e] = Nothing
  BY DEF LedgerInv, FreeRowsEmpty
<1>4. \A e \in Ids : ledger[e] # Blank => e <= size
  BY <1>1, <1>3
<1> QED
  BY <1>1, <1>2, <1>3, <1>4

\* A transaction that appends one row and reverses none.
LEMMA OneRowAppended ==
  ASSUME LedgerInv, Fits(1), NEW x, size' = size + 1,
         ledger' = [ledger EXCEPT ![size + 1] = x], x.reverses = 0,
         \A e \in Ids : e <= size => alloc'[e] = alloc[e],
         NewRow(size + 1),
         UNCHANGED restored,
         \A d \in Ids : ledger[d].type = "REDEEM" =>
           redemption'[ledger[d].receipt] = redemption[ledger[d].receipt]
  PROVE  Appends({})
<1>1. TypeOK /\ size \in Nat /\ Ids \subseteq Nat /\ size + 1 \in Ids
  BY NextRow
<1>2. ledger'[size + 1] = x /\ \A e \in Ids : e <= size => ledger'[e] = ledger[e]
  BY <1>1 DEF TypeOK
<1>3. \A e \in Ids : size < e /\ e <= size' => e = size + 1
  BY <1>1
<1>4. 0 \notin Ids
  BY DEF Ids
<1> QED
  BY <1>1, <1>2, <1>3, <1>4 DEF Appends

\* An earn appends a row of an unused receipt and reverses nothing.
LEMMA EarnRows ==
  ASSUME RowsInv, NEW c \in Customers, NEW r \in Receipts, NEW p \in Purchases, NEW t \in Times,
         Earn(c, r, p, t)
  PROVE  Appends({})
<1> DEFINE e == size + 1
           x == Entry("EARN", "CREDIT", EarnAmount(p), c, r, 0)
<1>1. LedgerInv /\ Fits(1) /\ UnusedReceipt(r)
  BY DEF RowsInv, Earn
<1>2. /\ TypeOK /\ e \in Ids /\ alloc[e] = Nothing /\ size \in Nat
  BY <1>1, NextRow
<1>3. /\ size' = e /\ ledger' = [ledger EXCEPT ![e] = x]
      /\ UNCHANGED <<alloc, restored, redemption>>
  BY DEF Earn
<1>4. x.receipt = r /\ x.type = "EARN" /\ x.reverses = 0
  BY DEF Entry
<1> HIDE DEF x
<1>5. ledger'[e] = x
  BY <1>2, <1>3 DEF TypeOK
<1>6. NewRow(e)
  <2>1. \A l \in Ids : alloc'[e][l] = 0
    BY <1>2, <1>3 DEF Nothing
  <2> QED
    BY <1>1, <1>2, <1>4, <1>5, <2>1 DEF NewRow
<1> QED
  BY <1>1, <1>3, <1>4, <1>6, OneRowAppended

\* A manual credit appends a row without a receipt and reverses nothing.
LEMMA AdjustCreditRows ==
  ASSUME RowsInv, NEW c \in Customers, NEW a \in Adjustments, NEW t \in Times,
         AdjustCredit(c, a, t)
  PROVE  Appends({})
<1> DEFINE e == size + 1
           x == Entry("ADJUSTMENT", "CREDIT", a, c, None, 0)
<1>1. LedgerInv /\ Fits(1)
  BY DEF RowsInv, AdjustCredit
<1>2. /\ TypeOK /\ e \in Ids /\ alloc[e] = Nothing /\ size \in Nat
  BY <1>1, NextRow
<1>3. /\ size' = e /\ ledger' = [ledger EXCEPT ![e] = x]
      /\ UNCHANGED <<alloc, restored, redemption>>
  BY DEF AdjustCredit
<1>4. /\ x.receipt \notin Receipts /\ x.type = "ADJUSTMENT" /\ x.direction = "CREDIT"
      /\ x.reverses = 0
  BY ConstantsAssumption DEF Entry
<1> HIDE DEF x
<1>5. ledger'[e] = x
  BY <1>2, <1>3 DEF TypeOK
<1>6. NewRow(e)
  <2>1. \A l \in Ids : alloc'[e][l] = 0
    BY <1>2, <1>3 DEF Nothing
  <2> QED
    BY <1>2, <1>4, <1>5, <2>1 DEF NewRow
<1> QED
  BY <1>1, <1>3, <1>4, <1>6, OneRowAppended

\* A plan for a debit of customer c takes the amount, from lots of c.
LEMMA PlanForCustomer ==
  ASSUME TypeOK, NEW c, NEW amount \in Nat, amount <= ActiveBalance(c)
  PROVE  LET plan == PlanAllocations(EligibleLots(c), amount)
         IN  /\ plan \in [Ids -> Nat] /\ Total(plan, Ids) = amount
             /\ \A l \in Ids : plan[l] <= remaining[l]
             /\ \A l \in Ids : plan[l] > 0 => IsLot(l) /\ ledger[l].customer = c
<1>1. EligibleLots(c) \in SUBSET Ids
  BY DEF EligibleLots, LotsOf
<1>2. \A l \in EligibleLots(c) : IsLot(l) /\ ledger[l].customer = c
  BY DEF EligibleLots, LotsOf
<1>3. Total(PlanAllocations(EligibleLots(c), amount), Ids) = amount
  BY <1>1, PlanCoversAmount DEF ActiveBalance
<1> QED
  BY <1>1, <1>2, <1>3, PlanWithinLots

\* A manual debit appends a row its plan covers, from lots of its customer.
LEMMA AdjustDebitRows ==
  ASSUME RowsInv, NEW c \in Customers, NEW a \in Adjustments, AdjustDebit(c, a)
  PROVE  Appends({})
<1> DEFINE d == size + 1
           x == Entry("ADJUSTMENT", "DEBIT", a, c, None, 0)
           plan == PlanAllocations(EligibleLots(c), a)
<1>1. LedgerInv /\ Fits(1) /\ a \in Nat /\ a <= ActiveBalance(c)
  BY ConstantsAssumption DEF RowsInv, AdjustDebit
<1>2. TypeOK /\ d \in Ids /\ size \in Nat
  BY <1>1, NextRow
<1>3. /\ size' = d /\ ledger' = [ledger EXCEPT ![d] = x]
      /\ alloc' = [alloc EXCEPT ![d] = plan]
      /\ UNCHANGED <<restored, redemption>>
  BY DEF AdjustDebit
<1>4. /\ x.receipt \notin Receipts /\ x.type = "ADJUSTMENT" /\ x.amount = a /\ x.customer = c
      /\ x.reverses = 0
  BY ConstantsAssumption DEF Entry
<1>5. /\ Total(plan, Ids) = a
      /\ \A l \in Ids : plan[l] > 0 => IsLot(l) /\ ledger[l].customer = c
  BY <1>1, <1>2, PlanForCustomer
<1> HIDE DEF x, plan
<1>6. ledger'[d] = x /\ alloc'[d] = plan /\ \A e \in Ids : e <= size => alloc'[e] = alloc[e]
  BY <1>2, <1>3 DEF TypeOK
<1>7. NewRow(d)
  BY <1>2, <1>4, <1>5, <1>6 DEF NewRow
<1> QED
  BY <1>1, <1>3, <1>4, <1>6, <1>7, OneRowAppended

\* A settlement redeems no more than the customer's lots hold.
LEMMA SettleWithinBalance ==
  ASSUME LedgerInv, NEW c, NEW r, NEW basket \in Nat, NEW amount \in Nat, NEW t,
         Settle(c, r, basket, amount, t)
  PROVE  amount <= ActiveBalance(c)
<1>1. amount <= MaximumAllowed(c, basket)
  BY DEF Settle
<1>2. ActiveBalance(c) \in Nat
  <2>1. EligibleLots(c) \in SUBSET Ids
    BY DEF EligibleLots, LotsOf
  <2>2. \A l \in EligibleLots(c) : remaining[l] \in Nat
    BY <2>1 DEF LedgerInv, TypeOK
  <2> QED
    BY <2>1, <2>2, IdsFinite, TotalNat DEF ActiveBalance
<1>3. (basket * MaxBasketPercent) \div 100 \in Nat
  <2>1. basket * MaxBasketPercent \in Nat
    BY ConstantsAssumption
  <2> DEFINE b == basket * MaxBasketPercent
  <2> HIDE DEF b
  <2>2. b \div 100 \in Nat
    BY <2>1 DEF b
  <2> QED
    BY <2>2 DEF b
<1> QED
  BY <1>1, <1>2, <1>3 DEF MaximumAllowed, Smaller

\* A settlement appends the rows of an unused receipt, the debit covered by its plan.
LEMMA SettleRows ==
  ASSUME RowsInv, NEW c \in Customers, NEW r \in Receipts, NEW basket \in Nat,
         NEW amount \in 1 .. basket, NEW t \in Times, Settle(c, r, basket, amount, t)
  PROVE  Appends({})
<1> DEFINE d == size + 1
           w == size + 2
           plan == PlanAllocations(EligibleLots(c), amount)
           credit == EarnAmount(basket - amount)
           x == Entry("REDEEM", "DEBIT", amount, c, r, 0)
           y == Entry("EARN", "CREDIT", credit, c, r, 0)
<1>1. LedgerInv /\ UnusedReceipt(r) /\ amount \in Nat /\ credit \in Nat
  <2>1. amount \in Nat /\ basket - amount \in Nat
    OBVIOUS
  <2> QED
    BY <2>1, EarnAmountNat DEF RowsInv, Settle
<1>2. /\ Fits(IF credit > 0 THEN 2 ELSE 1)
      /\ size' = size + (IF credit > 0 THEN 2 ELSE 1)
      /\ ledger' = [e \in Ids |-> IF e = d THEN x
                                 ELSE IF credit > 0 /\ e = w THEN y ELSE ledger[e]]
      /\ alloc' = [alloc EXCEPT ![d] = plan]
      /\ redemption' = [redemption EXCEPT ![r] = "CONFIRMED"]
      /\ UNCHANGED restored
  BY DEF Settle
<1>3. /\ TypeOK /\ size \in Nat /\ Ids \subseteq Nat /\ d \in Ids
      /\ \A e \in Ids : e > size => alloc[e] = Nothing
  BY <1>1, <1>2, NextRow
<1>4. amount <= ActiveBalance(c)
  BY <1>1, SettleWithinBalance
<1>5. /\ Total(plan, Ids) = amount
      /\ \A l \in Ids : plan[l] > 0 => IsLot(l) /\ ledger[l].customer = c
  BY <1>1, <1>3, <1>4, PlanForCustomer
<1>6. /\ x.receipt = r /\ x.type = "REDEEM" /\ x.amount = amount /\ x.customer = c /\ x.reverses = 0
      /\ y.receipt = r /\ y.type = "EARN" /\ y.reverses = 0
  BY DEF Entry
<1> HIDE DEF x, y, plan, credit
<1>7. /\ \A e \in Ids : e <= size => ledger'[e] = ledger[e] /\ alloc'[e] = alloc[e]
      /\ ledger'[d] = x /\ alloc'[d] = plan /\ redemption'[r] = "CONFIRMED"
  BY <1>2, <1>3 DEF TypeOK
<1>8. ASSUME NEW e \in Ids, size < e, e <= size'
      PROVE  NewRow(e) /\ ledger'[e].reverses = 0
  <2>1. CASE e = d
    BY <1>1, <1>3, <1>5, <1>6, <1>7, <2>1 DEF NewRow
  <2>2. CASE e # d
    <3>1. credit > 0 /\ e = w
      BY <1>1, <1>2, <1>3, <1>8, <2>2
    <3>2. ledger'[e] = y
      BY <1>2, <1>3, <3>1, <2>2
    <3>3. \A l \in Ids : alloc'[e][l] = 0
      BY <1>2, <1>3, <1>8, <2>2 DEF TypeOK, Nothing
    <3> QED
      BY <1>1, <1>3, <1>6, <3>2, <3>3 DEF NewRow
  <2> QED
    BY <2>1, <2>2
<1>9. \A e \in Ids : ~\E v \in Ids : size < v /\ v <= size' /\ ledger'[v].reverses = e
  BY <1>8 DEF Ids
<1>10. ASSUME NEW e \in Ids, ledger[e].type = "REDEEM"
       PROVE  redemption'[ledger[e].receipt] = redemption[ledger[e].receipt]
  <2>1. ledger[e].receipt # r
    BY <1>1 DEF UnusedReceipt
  <2>2. ledger[e].receipt \in Receipts
    BY <1>10 DEF RowsInv, ReceiptsOnSettlements
  <2> QED
    BY <1>2, <1>3, <2>1, <2>2 DEF TypeOK
<1> QED
  BY <1>2, <1>7, <1>8, <1>9, <1>10 DEF Appends

\* Only rows of the same receipt share it.
LEMMA SameReceipt ==
  ASSUME NEW e \in Ids, NEW p \in Ids, ledger[p].receipt \in Receipts,
         ledger[p].receipt = ledger[e].receipt, p # e
  PROVE  p \in ReceiptPeers(e)
BY ConstantsAssumption DEF ReceiptPeers

\* Taking a credit back appends a debit on its lot, and reverses that row alone.
LEMMA ReverseCreditRows ==
  ASSUME RowsInv, NEW e \in Ids, ReverseCredit(e)
  PROVE  Appends({e})
<1> DEFINE d == size + 1
           credit == ledger[e].amount
           x == Entry("ADJUSTMENT", "DEBIT", credit, ledger[e].customer, None, e)
           take == [Nothing EXCEPT ![e] = credit]
<1>1. LedgerInv /\ Fits(1) /\ IsLot(e) /\ ReceiptPeers(e) = {} /\ ~Reversed(e)
  BY DEF RowsInv, ReverseCredit
<1>2. TypeOK /\ size \in Nat /\ Ids \subseteq Nat /\ d \in Ids
  BY <1>1, NextRow
<1>3. e <= size /\ credit \in Nat
  <2>1. ~(e > size)
    BY <1>1, LotsCommitted
  <2> QED
    BY <1>2, <2>1 DEF TypeOK, EntrySet
<1>4. /\ size' = d /\ ledger' = [ledger EXCEPT ![d] = x]
      /\ alloc' = [alloc EXCEPT ![d] = take]
      /\ UNCHANGED <<restored, redemption>>
  BY DEF ReverseCredit
<1>5. /\ x.receipt \notin Receipts /\ x.type = "ADJUSTMENT" /\ x.amount = credit
      /\ x.customer = ledger[e].customer /\ x.reverses = e
  BY ConstantsAssumption DEF Entry
<1>6. take[e] = credit /\ \A l \in Ids \ {e} : take[l] = 0
  BY DEF Nothing
<1> HIDE DEF x, take, credit
<1>7. Total(take, Ids) = credit
  BY <1>3, <1>6, IdsFinite, TotalOnly
<1>8. /\ \A p \in Ids : p <= size => ledger'[p] = ledger[p] /\ alloc'[p] = alloc[p]
      /\ ledger'[d] = x /\ alloc'[d] = take
  BY <1>2, <1>4 DEF TypeOK
<1>9. NewRow(d)
  BY <1>1, <1>2, <1>3, <1>5, <1>6, <1>7, <1>8 DEF NewRow
<1>10. \A p \in Ids : size < p /\ p <= size' <=> p = d
  BY <1>2, <1>4
<1>11. \A p \in Ids : ledger[p].type = "REDEEM" => p # e
  BY <1>1 DEF IsLot
<1>12. \A p \in Ids : ledger[p].receipt \in Receipts /\ ledger[p].receipt = ledger[e].receipt => p = e
  BY <1>1, SameReceipt
<1> QED
  BY <1>1, <1>2, <1>4, <1>5, <1>8, <1>9, <1>10, <1>11, <1>12 DEF Appends

\* A debit no row reverses can be given back whole.
LEMMA RestorableWhole ==
  ASSUME RowsInv, NEW e \in Ids, IsAllocatedDebit(e), ~Reversed(e)
  PROVE  /\ Restorable(e) = alloc[e]
         /\ Total(Restorable(e), Ids) = ledger[e].amount
         /\ [l \in Ids |-> restored[e][l] + Restorable(e)[l]] = alloc[e]
<1>1. restored[e] = Nothing
  BY DEF RowsInv, StandingDebitsUntouched
<1>2. alloc[e] \in [Ids -> Nat] /\ \A l \in Ids : alloc[e][l] \in Nat /\ restored[e][l] = 0
  BY <1>1, CellTypes DEF RowsInv, LedgerInv, Nothing
<1>3. \A l \in Ids : alloc[e][l] - restored[e][l] = alloc[e][l]
                     /\ restored[e][l] + alloc[e][l] = alloc[e][l]
  BY <1>2
<1>4. alloc[e] = [l \in Ids |-> alloc[e][l]]
  BY <1>2
<1>5. Restorable(e) = alloc[e]
  BY <1>3, <1>4 DEF Restorable
<1> QED
  BY <1>3, <1>4, <1>5 DEF RowsInv, DebitsCovered

\* Giving a debit back appends a reversal of all of it, and reverses that row alone.
LEMMA ReverseDebitRows ==
  ASSUME RowsInv, NEW e \in Ids, ReverseDebit(e)
  PROVE  Appends({e})
<1> DEFINE v == size + 1
           x == Entry("REVERSAL", "CREDIT", Total(Restorable(e), Ids), ledger[e].customer, None, e)
<1>1. LedgerInv /\ Fits(1) /\ IsAllocatedDebit(e) /\ ReceiptPeers(e) = {} /\ ~Reversed(e)
  BY DEF RowsInv, ReverseDebit
<1>2. TypeOK /\ size \in Nat /\ Ids \subseteq Nat /\ v \in Ids /\ alloc[v] = Nothing
  BY <1>1, NextRow
<1>3. e <= size
  <2>1. ~(e > size)
    BY <1>1, LotsCommitted
  <2> QED
    BY <1>2, <2>1
<1>4. /\ size' = v /\ ledger' = [ledger EXCEPT ![v] = x]
      /\ restored' = [restored EXCEPT ![e] = alloc[e]]
      /\ redemption' = [r \in Receipts |->
           IF ledger[e].type = "REDEEM" /\ ledger[e].receipt = r
           THEN "REVERSED" ELSE redemption[r]]
      /\ UNCHANGED alloc
  <2>1. restored' = [restored EXCEPT ![e] = [l \in Ids |-> restored[e][l] + Restorable(e)[l]]]
    BY <1>2 DEF ReverseDebit, TypeOK
  <2> QED
    BY <1>1, <2>1, RestorableWhole DEF ReverseDebit
<1>5. /\ x.receipt \notin Receipts /\ x.type = "REVERSAL" /\ x.amount = ledger[e].amount
      /\ x.reverses = e
  BY <1>1, RestorableWhole, ConstantsAssumption DEF Entry
<1> HIDE DEF x
<1>6. /\ \A p \in Ids : p <= size => ledger'[p] = ledger[p]
      /\ ledger'[v] = x /\ restored'[e] = alloc[e]
      /\ \A p \in Ids : p # e => restored'[p] = restored[p]
  BY <1>2, <1>4 DEF TypeOK
<1>7. NewRow(v)
  <2>1. \A l \in Ids : alloc'[v][l] = 0
    BY <1>2, <1>4 DEF Nothing
  <2> QED
    BY <1>1, <1>2, <1>3, <1>5, <1>6, <2>1 DEF NewRow
<1>8. \A p \in Ids : size < p /\ p <= size' <=> p = v
  BY <1>2, <1>4
<1>9. \A p \in Ids : ledger[p].receipt \in Receipts /\ ledger[p].receipt = ledger[e].receipt => p = e
  BY <1>1, SameReceipt
<1>10. ASSUME NEW p \in Ids, ledger[p].type = "REDEEM"
       PROVE  redemption'[ledger[p].receipt] = IF p = e THEN "REVERSED"
                                               ELSE redemption[ledger[p].receipt]
  <2>1. ledger[p].receipt \in Receipts
    BY <1>10 DEF RowsInv, ReceiptsOnSettlements
  <2> QED
    BY <1>4, <1>9, <1>10, <2>1
<1> QED
  BY <1>1, <1>2, <1>4, <1>5, <1>6, <1>7, <1>8, <1>9, <1>10 DEF Appends

\* Undoing a settlement reverses the two rows of its receipt and no other row.
LEMMA ReversePairRows ==
  ASSUME RowsInv, NEW earn \in Ids, NEW redeem \in Ids, ReversePair(earn, redeem)
  PROVE  Appends({earn, redeem})
<1> DEFINE d == size + 1
           v == size + 2
           credit == ledger[earn].amount
           x == Entry("ADJUSTMENT", "DEBIT", credit, ledger[earn].customer, None, earn)
           y == Entry("REVERSAL", "CREDIT", Total(Restorable(redeem), Ids),
                      ledger[redeem].customer, None, redeem)
           take == [Nothing EXCEPT ![earn] = credit]
<1>1. /\ LedgerInv /\ Fits(2) /\ ledger[earn].type = "EARN" /\ ledger[redeem].type = "REDEEM"
      /\ ReceiptPeers(earn) = {redeem} /\ ~Reversed(earn) /\ ~Reversed(redeem)
  BY DEF RowsInv, ReversePair
<1>2. IsLot(earn) /\ IsAllocatedDebit(redeem) /\ earn # redeem
  BY <1>1 DEF IsLot, IsAllocatedDebit
<1>3. /\ TypeOK /\ size \in Nat /\ Ids \subseteq Nat /\ d \in Ids /\ v \in Ids
      /\ alloc[v] = Nothing
  BY <1>1, NextRow
<1>4. earn <= size /\ redeem <= size /\ credit \in Nat
  <2>1. ~(earn > size) /\ ~(redeem > size)
    BY <1>1, <1>2, LotsCommitted
  <2> QED
    BY <1>3, <2>1 DEF TypeOK, EntrySet
<1>5. /\ size' = v /\ ledger' = [ledger EXCEPT ![d] = x, ![v] = y]
      /\ alloc' = [alloc EXCEPT ![d] = take]
      /\ restored' = [restored EXCEPT ![redeem] = alloc[redeem]]
      /\ redemption' = [redemption EXCEPT ![ledger[redeem].receipt] = "REVERSED"]
  <2>1. restored' = [restored EXCEPT
          ![redeem] = [l \in Ids |-> restored[redeem][l] + Restorable(redeem)[l]]]
    BY <1>3 DEF ReversePair, TypeOK
  <2> QED
    BY <1>1, <1>2, <2>1, RestorableWhole DEF ReversePair
<1>6. /\ x.receipt \notin Receipts /\ x.type = "ADJUSTMENT" /\ x.amount = credit
      /\ x.customer = ledger[earn].customer /\ x.reverses = earn
      /\ y.receipt \notin Receipts /\ y.type = "REVERSAL" /\ y.amount = ledger[redeem].amount
      /\ y.reverses = redeem
  BY <1>1, <1>2, RestorableWhole, ConstantsAssumption DEF Entry
<1>7. take[earn] = credit /\ \A l \in Ids \ {earn} : take[l] = 0
  BY DEF Nothing
<1> HIDE DEF x, y, take, credit
<1>8. Total(take, Ids) = credit
  BY <1>4, <1>7, IdsFinite, TotalOnly
<1>9. /\ \A p \in Ids : p <= size => ledger'[p] = ledger[p] /\ alloc'[p] = alloc[p]
      /\ ledger'[d] = x /\ alloc'[d] = take /\ ledger'[v] = y /\ alloc'[v] = alloc[v]
      /\ restored'[redeem] = alloc[redeem]
      /\ \A p \in Ids : p # redeem => restored'[p] = restored[p]
  BY <1>3, <1>5 DEF TypeOK
<1>10. NewRow(d)
  BY <1>2, <1>3, <1>4, <1>6, <1>7, <1>8, <1>9 DEF NewRow
<1>11. NewRow(v)
  <2>1. \A l \in Ids : alloc'[v][l] = 0
    BY <1>3, <1>9 DEF Nothing
  <2> QED
    BY <1>2, <1>3, <1>4, <1>6, <1>9, <2>1 DEF NewRow
<1>12. \A p \in Ids : size < p /\ p <= size' <=> p = d \/ p = v
  BY <1>3, <1>5
<1>13. /\ ledger[earn].receipt = ledger[redeem].receipt
       /\ \A p \in Ids : ledger[p].receipt \in Receipts /\ ledger[p].receipt = ledger[earn].receipt
                         => p \in {earn, redeem}
  <2>1. redeem \in ReceiptPeers(earn)
    BY <1>1
  <2> QED
    BY <1>1, <2>1, SameReceipt DEF ReceiptPeers
<1>14. ASSUME NEW p \in Ids, ledger[p].type = "REDEEM"
       PROVE  redemption'[ledger[p].receipt] = IF p \in {earn, redeem} THEN "REVERSED"
                                               ELSE redemption[ledger[p].receipt]
  <2>1. ledger[p].receipt \in Receipts /\ p # earn
    BY <1>1, <1>14 DEF RowsInv, ReceiptsOnSettlements
  <2>2. p # redeem => ledger[p].receipt # ledger[redeem].receipt
    BY <1>13, <2>1
  <2> QED
    BY <1>3, <1>5, <2>1, <2>2 DEF TypeOK
<1>15. \A e \in Ids : e \in {earn, redeem} <=>
         \E q \in Ids : size < q /\ q <= size' /\ ledger'[q].reverses = e
  BY <1>3, <1>6, <1>9, <1>12
<1> QED
  BY <1>1, <1>9, <1>10, <1>11, <1>12, <1>13, <1>14, <1>15 DEF Appends

\* The sweep books every lot of its batch in a new row of its own.
LEMMA SweepRows ==
  ASSUME LedgerInv, NEW batch \in SUBSET DueLots, ExpireDueCredit(batch)
  PROVE  /\ batch \in SUBSET Ids /\ size' >= size
         /\ \E row \in [batch -> Ids] :
              /\ \A l, m \in batch : row[l] = row[m] => l = m
              /\ \A l \in batch : size < row[l] /\ row[l] <= size' /\
                   ledger'[row[l]] = Entry("EXPIRY", "DEBIT", remaining[l],
                                           ledger[l].customer, None, 0)
              /\ \A e \in Ids : (\A l \in batch : row[l] # e) => ledger'[e] = ledger[e]
<1> DEFINE place(l) == Cardinality({m \in batch : Precedes(m, l)})
           row == [l \in batch |-> size + 1 + place(l)]
           swept == [e \in Ids |-> {l \in batch : size + 1 + place(l) = e}]
<1>1. TypeOK /\ batch \in SUBSET Ids
  BY DEF LedgerInv, DueLots
<1>2. /\ size \in Nat /\ Cardinality(batch) \in Nat /\ IsFiniteSet(batch)
      /\ size' = size + Cardinality(batch) /\ size' <= MaxEntries
  <2>1. Cardinality(batch) \in Nat /\ IsFiniteSet(batch)
    BY <1>1, IdsFinite, FS_CardinalityType
  <2>2. size \in 0 .. MaxEntries
    BY <1>1 DEF TypeOK
  <2> QED
    BY <2>1, <2>2, ConstantsAssumption DEF ExpireDueCredit, Fits
<1>3. ASSUME NEW l \in batch PROVE place(l) \in Nat /\ place(l) < Cardinality(batch)
  <2> DEFINE before == {m \in batch : Precedes(m, l)}
  <2>1. before \in SUBSET (batch \ {l})
    BY <1>1, PrecedesOrders
  <2>2. IsFiniteSet(batch \ {l}) /\ Cardinality(batch \ {l}) = Cardinality(batch) - 1
    BY <1>2, FS_RemoveElement
  <2> HIDE DEF before
  <2>3. IsFiniteSet(before) /\ Cardinality(before) <= Cardinality(batch) - 1
    BY <2>1, <2>2, FS_Subset
  <2>4. Cardinality(before) \in Nat
    BY <2>3, FS_CardinalityType
  <2> QED
    BY <1>2, <2>3, <2>4 DEF before
<1>4. ASSUME NEW l \in batch, NEW m \in batch, l # m PROVE place(l) # place(m)
  <2>1. Precedes(l, m) => place(l) < place(m)
    BY <1>1, PlaceInOrder
  <2>2. Precedes(m, l) => place(m) < place(l)
    BY <1>1, PlaceInOrder
  <2>3. Precedes(l, m) \/ Precedes(m, l)
    BY <1>1, <1>4, PrecedesOrders
  <2> HIDE DEF place
  <2> QED
    BY <1>3, <2>1, <2>2, <2>3
<1>5. ledger' = [e \in Ids |-> IF swept[e] = {} THEN ledger[e]
                ELSE LET l == CHOOSE l \in swept[e] : TRUE
                     IN  Entry("EXPIRY", "DEBIT", remaining[l], ledger[l].customer, None, 0)]
  BY DEF ExpireDueCredit, WriteOff
<1> HIDE DEF place
<1>6. row \in [batch -> Ids] /\ \A l \in batch : size < row[l] /\ row[l] <= size'
  <2>1. ASSUME NEW l \in batch
        PROVE  /\ size + 1 + place(l) \in Ids
               /\ size < size + 1 + place(l) /\ size + 1 + place(l) <= size'
    <3>1. place(l) \in Nat /\ place(l) < Cardinality(batch)
      BY <1>3
    <3>2. MaxEntries \in Nat
      BY ConstantsAssumption
    <3> QED
      BY ONLY <1>2, <3>1, <3>2 DEF Ids
  <2> QED
    BY <2>1
<1>7. \A l, m \in batch : row[l] = row[m] => l = m
  BY <1>2, <1>3, <1>4
<1>8. ASSUME NEW l \in batch
      PROVE  ledger'[row[l]] = Entry("EXPIRY", "DEBIT", remaining[l], ledger[l].customer, None, 0)
  <2> DEFINE m == CHOOSE m \in swept[row[l]] : TRUE
  <2>1. row[l] \in Ids /\ l \in swept[row[l]]
    BY <1>6
  <2>2. m \in swept[row[l]]
    BY <2>1
  <2>3. m \in batch /\ row[m] = row[l]
    BY <2>1, <2>2
  <2>4. m = l
    BY <1>7, <2>3
  <2> QED
    BY <1>5, <2>1, <2>4
<1>9. ASSUME NEW e \in Ids, \A l \in batch : row[l] # e PROVE ledger'[e] = ledger[e]
  <2>1. swept[e] = {}
    BY <1>9
  <2> QED
    BY <1>5, <2>1
<1>10. size' >= size
  BY <1>2
<1> QED
  BY <1>1, <1>6, <1>7, <1>8, <1>9, <1>10

\* A sweep appends rows without receipt or allocation and reverses nothing.
LEMMA ExpireRows ==
  ASSUME RowsInv, NEW batch \in SUBSET DueLots, ExpireDueCredit(batch)
  PROVE  Appends({})
<1>1. LedgerInv /\ UNCHANGED <<alloc, restored, redemption>>
  BY DEF RowsInv, ExpireDueCredit
<1>2. PICK row \in [batch -> Ids] :
        /\ \A l, m \in batch : row[l] = row[m] => l = m
        /\ \A l \in batch : size < row[l] /\ row[l] <= size' /\
             ledger'[row[l]] = Entry("EXPIRY", "DEBIT", remaining[l],
                                     ledger[l].customer, None, 0)
        /\ \A e \in Ids : (\A l \in batch : row[l] # e) => ledger'[e] = ledger[e]
  BY <1>1, SweepRows
<1>3. /\ size \in Nat /\ Ids \subseteq Nat
      /\ \A e \in Ids : e > size => ledger[e] = Blank /\ alloc[e] = Nothing
  <2>1. size \in 0 .. MaxEntries
    BY <1>1 DEF LedgerInv, TypeOK
  <2> QED
    BY <1>1, <2>1, ConstantsAssumption DEF LedgerInv, FreeRowsEmpty, Ids
<1>4. \A e \in Ids : e <= size => ledger'[e] = ledger[e]
  BY <1>2, <1>3
<1>5. ASSUME NEW e \in Ids, size < e
      PROVE  /\ ledger'[e].receipt \notin Receipts /\ ledger'[e].reverses = 0
             /\ ledger'[e].type \in {"EXPIRY", "NONE"}
  <2>1. ASSUME NEW l \in batch, row[l] = e
        PROVE  /\ ledger'[e].receipt \notin Receipts /\ ledger'[e].reverses = 0
               /\ ledger'[e].type \in {"EXPIRY", "NONE"}
    <3>1. ledger'[e] = Entry("EXPIRY", "DEBIT", remaining[l], ledger[l].customer, None, 0)
      BY <1>2, <2>1
    <3> QED
      BY <3>1, ConstantsAssumption DEF Entry
  <2>2. CASE \A l \in batch : row[l] # e
    <3>1. ledger'[e] = Blank
      BY <1>2, <1>3, <1>5, <2>2
    <3> QED
      BY <3>1, ConstantsAssumption DEF Blank, Entry
  <2> QED
    BY <2>1, <2>2
<1>6. ASSUME NEW e \in Ids, size < e PROVE NewRow(e)
  <2>1. \A l \in Ids : alloc'[e][l] = 0
    BY <1>1, <1>3, <1>6 DEF Nothing
  <2> QED
    BY <1>3, <1>5, <1>6, <2>1 DEF NewRow
<1>7. \A e \in Ids : ~\E v \in Ids : size < v /\ v <= size' /\ ledger'[v].reverses = e
  BY <1>5 DEF Ids
<1> QED
  BY <1>1, <1>4, <1>6, <1>7 DEF Appends

\* Time and stuttering leave the rows alone.
LEMMA NoRows ==
  ASSUME RowsInv, UNCHANGED <<size, ledger, alloc, restored, redemption>>
  PROVE  Appends({})
<1>1. size \in Nat /\ Ids \subseteq Nat
  <2>1. size \in 0 .. MaxEntries
    BY DEF RowsInv, LedgerInv, TypeOK
  <2> QED
    BY <2>1, ConstantsAssumption DEF Ids
<1>2. \A e \in Ids : ~(size < e /\ e <= size')
  BY <1>1
<1> QED
  BY <1>2 DEF Appends

\* No transaction removes a row.
LEMMA SizeGrows ==
  ASSUME LedgerInv, [Next]_vars
  PROVE  size' >= size
<1>1. size \in Nat
  <2>1. size \in 0 .. MaxEntries
    BY DEF LedgerInv, TypeOK
  <2> QED
    BY <2>1, ConstantsAssumption
<1>2. ASSUME NEW c \in Customers, NEW r \in Receipts, NEW p \in Purchases, NEW t \in Times,
             Earn(c, r, p, t)
      PROVE  size' >= size
  BY <1>1, <1>2 DEF Earn
<1>3. ASSUME NEW c \in Customers, NEW r \in Receipts, NEW p \in Purchases, NEW t \in Times,
             NEW a \in 1 .. p, Settle(c, r, p, a, t)
      PROVE  size' >= size
  BY <1>1, <1>3 DEF Settle
<1>4. ASSUME NEW c \in Customers, NEW a \in Adjustments, NEW t \in Times, AdjustCredit(c, a, t)
      PROVE  size' >= size
  BY <1>1, <1>4 DEF AdjustCredit
<1>5. ASSUME NEW c \in Customers, NEW a \in Adjustments, AdjustDebit(c, a) PROVE size' >= size
  BY <1>1, <1>5 DEF AdjustDebit
<1>6. ASSUME NEW e \in Ids, ReverseCredit(e) PROVE size' >= size
  BY <1>1, <1>6 DEF ReverseCredit
<1>7. ASSUME NEW e \in Ids, ReverseDebit(e) PROVE size' >= size
  BY <1>1, <1>7 DEF ReverseDebit
<1>8. ASSUME NEW e \in Ids, NEW d \in Ids, ReversePair(e, d) PROVE size' >= size
  BY <1>1, <1>8 DEF ReversePair
<1>9. ASSUME NEW batch \in SUBSET DueLots, ExpireDueCredit(batch) PROVE size' >= size
  BY <1>9, SweepRows
<1>10. CASE Tick
  BY <1>1, <1>10 DEF Tick
<1>11. CASE UNCHANGED vars
  BY <1>1, <1>11 DEF vars
<1> QED
  BY <1>2, <1>3, <1>4, <1>5, <1>6, <1>7, <1>8, <1>9, <1>10, <1>11 DEF Next

-----------------------------------------------------------------------------
(* The ledger against the lots. *)

\* A table with two amounts in it.
LEMMA TotalTwo ==
  ASSUME NEW S, IsFiniteSet(S), NEW a \in S, NEW b \in S, a # b, NEW f,
         f[a] \in Nat, f[b] \in Nat, \A s \in S \ {a, b} : f[s] = 0
  PROVE  Total(f, S) = f[a] + f[b]
<1>1. IsFiniteSet(S \ {a}) /\ b \in S \ {a} /\ \A s \in (S \ {a}) \ {b} : f[s] = 0
  BY FS_Difference
<1>2. Total(f, S \ {a}) = f[b]
  BY <1>1, TotalOnly
<1>3. \A s \in S : f[s] \in Nat
  OBVIOUS
<1>4. Total(f, S) = Total(f, S \ {a}) + f[a]
  BY <1>3, TotalSplit
<1> QED
  BY <1>2, <1>4

\* The sums of the ledger before and after a step that appends rows.
LEMMA SumGrows ==
  ASSUME LedgerInv, LedgerInv', NEW c, NEW direction, NEW add,
         \A e \in Ids : e <= size => ledger'[e] = ledger[e] /\ add[e] = 0,
         \A e \in Ids : e > size =>
           add[e] = IF ledger'[e].customer = c /\ ledger'[e].direction = direction
                    THEN ledger'[e].amount ELSE 0
  PROVE  /\ SumOf(c, direction) \in Nat /\ Total(add, Ids) \in Nat
         /\ SumOf(c, direction)' = SumOf(c, direction) + Total(add, Ids)
<1> DEFINE f == [e \in Ids |-> IF ledger[e].customer = c /\ ledger[e].direction = direction
                               THEN ledger[e].amount ELSE 0]
           h == [e \in Ids |-> IF ledger'[e].customer = c /\ ledger'[e].direction = direction
                               THEN ledger'[e].amount ELSE 0]
<1>1. /\ size \in Nat /\ Ids \subseteq Nat
      /\ \A e \in Ids : ledger[e].amount \in Nat /\ ledger'[e].amount \in Nat
      /\ \A e \in Ids : e > size => ledger[e] = Blank
  <2>1. TypeOK /\ TypeOK'
    BY DEF LedgerInv
  <2>2. size \in 0 .. MaxEntries /\ \A e \in Ids : ledger[e] \in EntrySet /\ ledger'[e] \in EntrySet
    BY <2>1 DEF TypeOK
  <2>3. \A e \in Ids : ledger[e].amount \in Nat /\ ledger'[e].amount \in Nat
    BY <2>2 DEF EntrySet
  <2> QED
    BY <2>2, <2>3, ConstantsAssumption DEF Ids, LedgerInv, FreeRowsEmpty
<1>2. SumOf(c, direction) = Total(f, Ids)
  <2> DEFINE rows == {e \in Ids : ledger[e].customer = c /\ ledger[e].direction = direction}
             g == [e \in Ids |-> ledger[e].amount]
  <2>1. rows \in SUBSET Ids /\ \A e \in Ids : f[e] = IF e \in rows THEN g[e] ELSE 0
    OBVIOUS
  <2>2. SumOf(c, direction) = Total(g, rows)
    BY DEF SumOf
  <2> HIDE DEF rows, g, f
  <2> QED
    BY <2>1, <2>2, TotalPart
<1>3. SumOf(c, direction)' = Total(h, Ids)
  <2> DEFINE rows == {e \in Ids : ledger'[e].customer = c /\ ledger'[e].direction = direction}
             g == [e \in Ids |-> ledger'[e].amount]
  <2>1. rows \in SUBSET Ids /\ \A e \in Ids : h[e] = IF e \in rows THEN g[e] ELSE 0
    OBVIOUS
  <2>2. SumOf(c, direction)' = Total(g, rows)
    BY DEF SumOf
  <2>3. PICK R, G, H : R = rows /\ G = g /\ H = h
    OBVIOUS
  <2> HIDE DEF rows, g, h
  <2>4. Total(G, R) = Total(H, Ids)
    BY <2>1, <2>3, TotalPart
  <2> QED
    BY <2>2, <2>3, <2>4
<1>4. ASSUME NEW e \in Ids PROVE f[e] \in Nat /\ add[e] \in Nat /\ h[e] = f[e] + add[e]
  <2>1. CASE e <= size
    BY <1>1, <2>1
  <2>2. CASE e > size
    <3>1. ledger[e].amount = 0
      BY <1>1, <2>2 DEF Blank, Entry
    <3> QED
      BY <1>1, <2>2, <3>1
  <2> QED
    BY <1>1, <2>1, <2>2
<1> HIDE DEF f, h
<1>5. Total(h, Ids) = Total(f, Ids) + Total(add, Ids)
  <2>1. PICK F, G, H : F = f /\ G = add /\ H = h
    OBVIOUS
  <2>2. \A e \in Ids : F[e] \in Nat /\ G[e] \in Nat /\ H[e] = F[e] + G[e]
    BY <1>4, <2>1
  <2>3. Total(H, Ids) = Total(F, Ids) + Total(G, Ids)
    BY <2>2, IdsFinite, TotalPlus
  <2> QED
    BY <2>1, <2>3
<1>6. Total(f, Ids) \in Nat /\ Total(add, Ids) \in Nat
  BY <1>4, IdsFinite, TotalNat
<1> QED
  BY <1>2, <1>3, <1>5, <1>6

\* The customer's lots before and after a step that puts some amounts into lots and
\* takes others out.
LEMMA PurseMoves ==
  ASSUME LedgerInv, LedgerInv', NEW c, NEW into \in [Ids -> Nat], NEW out \in [Ids -> Nat],
         \A l \in Ids : (IF ledger'[l].customer = c THEN remaining'[l] ELSE 0) + out[l]
                          = (IF ledger[l].customer = c THEN remaining[l] ELSE 0) + into[l]
  PROVE  /\ Total(remaining, LotsOf(c)) \in Nat /\ Total(remaining, LotsOf(c))' \in Nat
         /\ Total(into, Ids) \in Nat /\ Total(out, Ids) \in Nat
         /\ Total(remaining, LotsOf(c))' + Total(out, Ids)
              = Total(remaining, LotsOf(c)) + Total(into, Ids)
<1> DEFINE f == [l \in Ids |-> IF ledger[l].customer = c THEN remaining[l] ELSE 0]
           h == [l \in Ids |-> IF ledger'[l].customer = c THEN remaining'[l] ELSE 0]
           s == [l \in Ids |-> f[l] + into[l]]
<1>1. \A l \in Ids : remaining[l] \in Nat /\ remaining'[l] \in Nat
  BY DEF LedgerInv, TypeOK
<1>2. /\ \A l \in Ids : ~IsLot(l) => remaining[l] = 0
      /\ \A l \in Ids : ~IsLot(l)' => remaining'[l] = 0
  BY DEF LedgerInv, OnlyLotsHoldMoney
<1>3. Total(remaining, LotsOf(c)) = Total(f, Ids)
  <2>1. LotsOf(c) \in SUBSET Ids /\ \A l \in Ids : f[l] = IF l \in LotsOf(c) THEN remaining[l] ELSE 0
    BY <1>2 DEF LotsOf
  <2> HIDE DEF f
  <2> QED
    BY <2>1, TotalPart
<1>4. Total(remaining, LotsOf(c))' = Total(h, Ids)
  <2> DEFINE lots == {l \in Ids : IsLot(l)' /\ ledger'[l].customer = c}
  <2>1. lots \in SUBSET Ids /\ \A l \in Ids : h[l] = IF l \in lots THEN remaining'[l] ELSE 0
    BY <1>2
  <2>2. Total(remaining, LotsOf(c))' = Total(remaining', lots)
    BY DEF LotsOf
  <2>3. PICK L, G, H : L = lots /\ G = remaining' /\ H = h
    OBVIOUS
  <2> HIDE DEF lots, h
  <2>4. Total(G, L) = Total(H, Ids)
    BY <2>1, <2>3, TotalPart
  <2> QED
    BY <2>2, <2>3, <2>4
<1>5. \A l \in Ids : /\ f[l] \in Nat /\ h[l] \in Nat /\ into[l] \in Nat /\ out[l] \in Nat
                     /\ s[l] = f[l] + into[l] /\ s[l] = h[l] + out[l]
  BY <1>1
<1> HIDE DEF f, h, s
<1>6. PICK F, H, S : F = f /\ H = h /\ S = s
  OBVIOUS
<1>7. \A l \in Ids : /\ F[l] \in Nat /\ H[l] \in Nat /\ into[l] \in Nat /\ out[l] \in Nat
                     /\ S[l] = F[l] + into[l] /\ S[l] = H[l] + out[l]
  BY <1>5, <1>6
<1>8. Total(S, Ids) = Total(F, Ids) + Total(into, Ids)
  BY <1>7, IdsFinite, TotalPlus
<1>9. Total(S, Ids) = Total(H, Ids) + Total(out, Ids)
  BY <1>7, IdsFinite, TotalPlus
<1>10. /\ Total(F, Ids) \in Nat /\ Total(H, Ids) \in Nat
       /\ Total(into, Ids) \in Nat /\ Total(out, Ids) \in Nat
  BY <1>7, IdsFinite, TotalNat
<1> QED
  BY <1>3, <1>4, <1>6, <1>8, <1>9, <1>10

\* The two books agree about customer c.
Balanced(c) == SumOf(c, "CREDIT") = SumOf(c, "DEBIT") + Total(remaining, LotsOf(c))

\* What the rows a step appends add to a sum of customer c.
Booked(c, direction) ==
  [e \in Ids |-> IF /\ e > size
                    /\ ledger'[e].customer = c /\ ledger'[e].direction = direction
                 THEN ledger'[e].amount ELSE 0]

\* The books go on agreeing when what is booked is what moves.
LEMMA BalanceKept ==
  ASSUME LedgerInv, LedgerInv', NEW c, NEW into \in [Ids -> Nat], NEW out \in [Ids -> Nat],
         \A e \in Ids : e <= size => ledger'[e] = ledger[e],
         \A l \in Ids : (IF ledger'[l].customer = c THEN remaining'[l] ELSE 0) + out[l]
                          = (IF ledger[l].customer = c THEN remaining[l] ELSE 0) + into[l],
         Total(Booked(c, "CREDIT"), Ids) + Total(out, Ids)
           = Total(Booked(c, "DEBIT"), Ids) + Total(into, Ids),
         Balanced(c)
  PROVE  Balanced(c)'
<1>1. size \in Nat /\ Ids \subseteq Nat
  <2>1. size \in 0 .. MaxEntries
    BY DEF LedgerInv, TypeOK
  <2> QED
    BY <2>1, ConstantsAssumption DEF Ids
<1>2. ASSUME NEW direction
      PROVE  /\ SumOf(c, direction) \in Nat /\ Total(Booked(c, direction), Ids) \in Nat
             /\ SumOf(c, direction)' = SumOf(c, direction) + Total(Booked(c, direction), Ids)
  <2>1. PICK add : add = Booked(c, direction)
    OBVIOUS
  <2>2. /\ \A e \in Ids : e <= size => add[e] = 0
        /\ \A e \in Ids : e > size =>
             add[e] = IF ledger'[e].customer = c /\ ledger'[e].direction = direction
                      THEN ledger'[e].amount ELSE 0
    BY <1>1, <2>1 DEF Booked
  <2>3. /\ SumOf(c, direction) \in Nat /\ Total(add, Ids) \in Nat
        /\ SumOf(c, direction)' = SumOf(c, direction) + Total(add, Ids)
    BY <2>2, SumGrows
  <2> QED
    BY <2>1, <2>3
<1>3. /\ Total(remaining, LotsOf(c)) \in Nat /\ Total(remaining, LotsOf(c))' \in Nat
      /\ Total(into, Ids) \in Nat /\ Total(out, Ids) \in Nat
      /\ Total(remaining, LotsOf(c))' + Total(out, Ids)
           = Total(remaining, LotsOf(c)) + Total(into, Ids)
  <2>1. LedgerInv /\ LedgerInv' /\ into \in [Ids -> Nat] /\ out \in [Ids -> Nat]
    OBVIOUS
  <2>2. \A l \in Ids : (IF ledger'[l].customer = c THEN remaining'[l] ELSE 0) + out[l]
                          = (IF ledger[l].customer = c THEN remaining[l] ELSE 0) + into[l]
    OBVIOUS
  <2> QED
    BY ONLY <2>1, <2>2, PurseMoves
<1>4. /\ SumOf(c, "CREDIT")' = SumOf(c, "CREDIT") + Total(Booked(c, "CREDIT"), Ids)
      /\ SumOf(c, "CREDIT") \in Nat /\ Total(Booked(c, "CREDIT"), Ids) \in Nat
  BY <1>2
<1>5. /\ SumOf(c, "DEBIT")' = SumOf(c, "DEBIT") + Total(Booked(c, "DEBIT"), Ids)
      /\ SumOf(c, "DEBIT") \in Nat /\ Total(Booked(c, "DEBIT"), Ids) \in Nat
  BY <1>2
<1>6. SumOf(c, "CREDIT")' = SumOf(c, "DEBIT")' + Total(remaining, LotsOf(c))'
  BY <1>3, <1>4, <1>5 DEF Balanced
<1> QED
  BY <1>6 DEF Balanced

\* The sum a single new row is booked in.
LEMMA BookedOne ==
  ASSUME LedgerInv, LedgerInv', NEW c, NEW direction, NEW d \in Ids, d = size + 1, size' = d
  PROVE  Total(Booked(c, direction), Ids) =
           IF ledger'[d].customer = c /\ ledger'[d].direction = direction
           THEN ledger'[d].amount ELSE 0
<1>1. size \in Nat /\ Ids \subseteq Nat /\ \A e \in Ids : ledger'[e].amount \in Nat
  <2>1. size \in 0 .. MaxEntries /\ \A e \in Ids : ledger'[e] \in EntrySet
    BY DEF LedgerInv, TypeOK
  <2> QED
    BY <2>1, ConstantsAssumption DEF Ids, EntrySet
<1>2. \A e \in Ids : e > d => ledger'[e].amount = 0
  BY DEF LedgerInv, FreeRowsEmpty, Blank, Entry
<1>3. PICK f : f = Booked(c, direction)
  OBVIOUS
<1>4. f[d] = IF ledger'[d].customer = c /\ ledger'[d].direction = direction
             THEN ledger'[d].amount ELSE 0
  BY <1>1, <1>3 DEF Booked
<1>5. \A e \in Ids \ {d} : f[e] = 0
  BY <1>1, <1>2, <1>3 DEF Booked
<1>6. f[d] \in Nat
  BY <1>1, <1>4
<1>7. Total(f, Ids) = f[d]
  BY <1>5, <1>6, IdsFinite, TotalOnly
<1> QED
  BY <1>3, <1>4, <1>7

\* The sums two new rows are booked in.
LEMMA BookedTwo ==
  ASSUME LedgerInv, LedgerInv', NEW c, NEW direction, NEW d \in Ids, NEW v \in Ids,
         d = size + 1, v = size + 2, size' = v
  PROVE  Total(Booked(c, direction), Ids) =
           (IF ledger'[d].customer = c /\ ledger'[d].direction = direction
            THEN ledger'[d].amount ELSE 0)
           + (IF ledger'[v].customer = c /\ ledger'[v].direction = direction
              THEN ledger'[v].amount ELSE 0)
<1>1. size \in Nat /\ Ids \subseteq Nat /\ \A e \in Ids : ledger'[e].amount \in Nat
  <2>1. size \in 0 .. MaxEntries /\ \A e \in Ids : ledger'[e] \in EntrySet
    BY DEF LedgerInv, TypeOK
  <2> QED
    BY <2>1, ConstantsAssumption DEF Ids, EntrySet
<1>2. \A e \in Ids : e > v => ledger'[e].amount = 0
  BY DEF LedgerInv, FreeRowsEmpty, Blank, Entry
<1>3. PICK f : f = Booked(c, direction)
  OBVIOUS
<1>4. /\ f[d] = IF ledger'[d].customer = c /\ ledger'[d].direction = direction
                THEN ledger'[d].amount ELSE 0
      /\ f[v] = IF ledger'[v].customer = c /\ ledger'[v].direction = direction
                THEN ledger'[v].amount ELSE 0
  BY <1>1, <1>3 DEF Booked
<1>5. \A e \in Ids \ {d, v} : f[e] = 0
  BY <1>1, <1>2, <1>3 DEF Booked
<1>6. f[d] \in Nat /\ f[v] \in Nat /\ d # v
  BY <1>1, <1>4
<1>7. Total(f, Ids) = f[d] + f[v]
  BY ONLY <1>5, <1>6, IdsFinite, TotalTwo, d \in Ids, v \in Ids
<1> QED
  BY <1>3, <1>4, <1>7

\* An amount n for one lot, nothing for the others.
Only(x, n) == [l \in Ids |-> IF l = x THEN n ELSE 0]

\* One amount alone adds up to itself.
LEMMA OnlyTotal ==
  ASSUME NEW x \in Ids, NEW n \in Nat
  PROVE  Only(x, n) \in [Ids -> Nat] /\ Total(Only(x, n), Ids) = n
<1>1. PICK f : f = Only(x, n)
  OBVIOUS
<1>2. f \in [Ids -> Nat] /\ f[x] = n /\ \A s \in Ids \ {x} : f[s] = 0
  BY <1>1 DEF Only
<1>3. Total(f, Ids) = n
  BY <1>2, IdsFinite, TotalOnly
<1> QED
  BY <1>1, <1>2, <1>3

\* No amounts add up to nothing.
LEMMA NothingTotal == Nothing \in [Ids -> Nat] /\ Total(Nothing, Ids) = 0
<1>1. PICK f : f = Nothing
  OBVIOUS
<1>2. f \in [Ids -> Nat] /\ \A s \in Ids : f[s] = 0
  BY <1>1 DEF Nothing
<1>3. Total(f, Ids) = 0
  BY <1>2, TotalZero
<1> QED
  BY <1>1, <1>2, <1>3

\* A credit and the lot it opens (earn, credit adjustment).
LEMMA OpenedBalance ==
  ASSUME LedgerInv, LedgerInv', NEW c, NEW d \in Ids, NEW x \in EntrySet,
         d = size + 1, size' = d, x.direction = "CREDIT",
         ledger' = [ledger EXCEPT ![d] = x],
         remaining' = [remaining EXCEPT ![d] = x.amount],
         Balanced(c)
  PROVE  Balanced(c)'
<1>1. TypeOK /\ size \in Nat /\ Ids \subseteq Nat /\ x.amount \in Nat
  <2>1. TypeOK /\ size \in 0 .. MaxEntries
    BY DEF LedgerInv, TypeOK
  <2> QED
    BY <2>1, ConstantsAssumption DEF Ids, EntrySet
<1>2. remaining[d] = 0
  BY <1>1, LotsCommitted
<1>3. /\ ledger'[d] = x /\ remaining'[d] = x.amount
      /\ \A e \in Ids \ {d} : ledger'[e] = ledger[e] /\ remaining'[e] = remaining[e]
  BY <1>1 DEF TypeOK
<1>4. PICK into : into = IF x.customer = c THEN Only(d, x.amount) ELSE Nothing
  OBVIOUS
<1>5. /\ into \in [Ids -> Nat]
      /\ Total(into, Ids) = IF x.customer = c THEN x.amount ELSE 0
  BY <1>1, <1>4, OnlyTotal, NothingTotal
<1>6. \A l \in Ids : into[l] = IF l = d /\ x.customer = c THEN x.amount ELSE 0
  BY <1>4 DEF Only, Nothing
<1>7. ASSUME NEW l \in Ids
      PROVE  (IF ledger'[l].customer = c THEN remaining'[l] ELSE 0) + Nothing[l]
               = (IF ledger[l].customer = c THEN remaining[l] ELSE 0) + into[l]
  <2>1. remaining[l] \in Nat /\ Nothing[l] = 0
    BY <1>1 DEF TypeOK, Nothing
  <2> QED
    BY <1>1, <1>2, <1>3, <1>6, <2>1
<1>8. /\ Total(Booked(c, "CREDIT"), Ids) = IF x.customer = c THEN x.amount ELSE 0
      /\ Total(Booked(c, "DEBIT"), Ids) = 0
  <2>1. ASSUME NEW direction
        PROVE  Total(Booked(c, direction), Ids) =
                 IF x.customer = c /\ x.direction = direction THEN x.amount ELSE 0
    BY <1>3, BookedOne
  <2> QED
    BY <2>1
<1>9. \A e \in Ids : e <= size => ledger'[e] = ledger[e]
  BY <1>1, <1>3
<1>10. Nothing \in [Ids -> Nat] /\ Total(Nothing, Ids) = 0
  BY NothingTotal
<1>11. Total(Booked(c, "CREDIT"), Ids) + Total(Nothing, Ids)
         = Total(Booked(c, "DEBIT"), Ids) + Total(into, Ids)
  BY <1>1, <1>5, <1>8, <1>10
<1> QED
  BY <1>5, <1>7, <1>9, <1>10, <1>11, BalanceKept

\* A debit and what it takes from its customer's lots (debit adjustment, reversal of
\* a credit).
LEMMA TakenBalance ==
  ASSUME LedgerInv, LedgerInv', NEW c, NEW d \in Ids, NEW x \in EntrySet,
         NEW plan \in [Ids -> Nat],
         d = size + 1, size' = d, x.direction = "DEBIT",
         Total(plan, Ids) = x.amount,
         \A l \in Ids : plan[l] <= remaining[l],
         \A l \in Ids : plan[l] > 0 => IsLot(l) /\ ledger[l].customer = x.customer,
         ledger' = [ledger EXCEPT ![d] = x],
         \A l \in Ids : remaining'[l] = remaining[l] - plan[l],
         Balanced(c)
  PROVE  Balanced(c)'
<1>1. TypeOK /\ size \in Nat /\ Ids \subseteq Nat /\ x.amount \in Nat
  <2>1. TypeOK /\ size \in 0 .. MaxEntries
    BY DEF LedgerInv, TypeOK
  <2> QED
    BY <2>1, ConstantsAssumption DEF Ids, EntrySet
<1>2. remaining[d] = 0 /\ ~IsLot(d) /\ plan[d] = 0
  BY <1>1, LotsCommitted
<1>3. /\ ledger'[d] = x
      /\ \A e \in Ids \ {d} : ledger'[e] = ledger[e]
  BY <1>1 DEF TypeOK
<1>4. PICK out : out = IF x.customer = c THEN plan ELSE Nothing
  OBVIOUS
<1>5. /\ out \in [Ids -> Nat]
      /\ Total(out, Ids) = IF x.customer = c THEN x.amount ELSE 0
  BY <1>1, <1>4, NothingTotal
<1>6. \A l \in Ids : out[l] = IF x.customer = c THEN plan[l] ELSE 0
  BY <1>4 DEF Nothing
<1>7. ASSUME NEW l \in Ids
      PROVE  (IF ledger'[l].customer = c THEN remaining'[l] ELSE 0) + out[l]
               = (IF ledger[l].customer = c THEN remaining[l] ELSE 0) + Nothing[l]
  <2>1. /\ remaining[l] \in Nat /\ Nothing[l] = 0 /\ plan[l] \in Nat
        /\ remaining'[l] = remaining[l] - plan[l] /\ plan[l] <= remaining[l]
    BY <1>1 DEF TypeOK, Nothing
  <2>2. ledger[l].customer # x.customer => plan[l] = 0
    BY <2>1
  <2>3. CASE l = d
    BY <1>2, <1>6, <2>1, <2>3
  <2>4. CASE l # d
    BY <1>3, <1>6, <2>1, <2>2, <2>4
  <2> QED
    BY <2>3, <2>4
<1>8. /\ Total(Booked(c, "DEBIT"), Ids) = IF x.customer = c THEN x.amount ELSE 0
      /\ Total(Booked(c, "CREDIT"), Ids) = 0
  <2>1. ASSUME NEW direction
        PROVE  Total(Booked(c, direction), Ids) =
                 IF x.customer = c /\ x.direction = direction THEN x.amount ELSE 0
    BY <1>3, BookedOne
  <2> QED
    BY <2>1
<1>9. \A e \in Ids : e <= size => ledger'[e] = ledger[e]
  BY <1>1, <1>3
<1>10. Nothing \in [Ids -> Nat] /\ Total(Nothing, Ids) = 0
  BY NothingTotal
<1>11. Total(Booked(c, "CREDIT"), Ids) + Total(out, Ids)
         = Total(Booked(c, "DEBIT"), Ids) + Total(Nothing, Ids)
  BY <1>1, <1>5, <1>8, <1>10
<1> QED
  BY <1>5, <1>7, <1>9, <1>10, <1>11, BalanceKept

\* The reversal of a debit and what it gives back to the lots the debit took from.
LEMMA ReverseDebitBalance ==
  ASSUME RowsInv, LedgerInv', NEW e \in Ids, ReverseDebit(e), NEW c, Balanced(c)
  PROVE  Balanced(c)'
<1> DEFINE k == ledger[e].customer
           back == Restorable(e)
<1>1. LedgerInv /\ Fits(1)
  BY DEF RowsInv, ReverseDebit
<1>2. TypeOK /\ size \in Nat /\ Ids \subseteq Nat /\ size + 1 \in Ids
  BY <1>1, NextRow
<1>3. PICK d \in Ids : d = size + 1
  BY <1>2
<1>4. /\ back \in [Ids -> Nat] /\ Total(back, Ids) \in Nat
      /\ \A l \in Ids : back[l] > 0 => IsLot(l) /\ ledger[l].customer = k
  <2>1. back \in [Ids -> Nat] /\ Total(back, Ids) \in Nat
        /\ \A l \in Ids : alloc[e][l] = 0 => back[l] = 0
    BY <1>1, RestorableNat
  <2>2. ASSUME NEW l \in Ids, back[l] > 0 PROVE alloc[e][l] > 0
    BY <1>2, <2>1, <2>2, CellTypes
  <2>3. \A l \in Ids : back[l] > 0 => IsLot(l) /\ ledger[l].customer = k
    BY <1>1, <2>2 DEF RowsInv, OwnLotsOnly, LedgerInv, OnlyLotsHoldMoney
  <2> QED
    BY <2>1, <2>3
<1>5. /\ size' = d
      /\ ledger' = [ledger EXCEPT ![d] = Entry("REVERSAL", "CREDIT", Total(back, Ids), k, None, e)]
      /\ remaining' = [l \in Ids |-> remaining[l] + back[l]]
  BY <1>3 DEF ReverseDebit
<1> HIDE DEF k, back
<1>6. /\ ledger'[d].customer = k /\ ledger'[d].direction = "CREDIT"
      /\ ledger'[d].amount = Total(back, Ids)
      /\ \A p \in Ids \ {d} : ledger'[p] = ledger[p]
  BY <1>2, <1>5 DEF TypeOK, Entry
<1>7. remaining[d] = 0 /\ ~IsLot(d) /\ back[d] = 0
  BY <1>1, <1>2, <1>3, <1>4, LotsCommitted
<1>8. PICK into : into = IF k = c THEN back ELSE Nothing
  OBVIOUS
<1>9. /\ into \in [Ids -> Nat]
      /\ Total(into, Ids) = IF k = c THEN Total(back, Ids) ELSE 0
      /\ Nothing \in [Ids -> Nat] /\ Total(Nothing, Ids) = 0
  BY <1>4, <1>8, NothingTotal
<1>10. \A l \in Ids : into[l] = IF k = c THEN back[l] ELSE 0
  BY <1>8 DEF Nothing
<1>11. ASSUME NEW l \in Ids
       PROVE  (IF ledger'[l].customer = c THEN remaining'[l] ELSE 0) + Nothing[l]
                = (IF ledger[l].customer = c THEN remaining[l] ELSE 0) + into[l]
  <2>1. /\ remaining[l] \in Nat /\ Nothing[l] = 0 /\ back[l] \in Nat
        /\ remaining'[l] = remaining[l] + back[l]
    BY <1>2, <1>4, <1>5 DEF TypeOK, Nothing
  <2>2. ledger[l].customer # k => back[l] = 0
    BY <1>4, <2>1
  <2>3. CASE l = d
    BY <1>7, <1>10, <2>1, <2>3
  <2>4. CASE l # d
    BY <1>6, <1>10, <2>1, <2>2, <2>4
  <2> QED
    BY <2>3, <2>4
<1>12. /\ Total(Booked(c, "CREDIT"), Ids) = IF k = c THEN Total(back, Ids) ELSE 0
       /\ Total(Booked(c, "DEBIT"), Ids) = 0
  <2>1. ASSUME NEW direction
        PROVE  Total(Booked(c, direction), Ids) =
                 IF k = c /\ direction = "CREDIT" THEN Total(back, Ids) ELSE 0
    BY <1>1, <1>3, <1>5, <1>6, BookedOne
  <2> QED
    BY <2>1
<1>13. \A p \in Ids : p <= size => ledger'[p] = ledger[p]
  <2>1. ~(d <= size)
    BY <1>2, <1>3
  <2> QED
    BY <1>6, <2>1
<1>14. Total(Booked(c, "CREDIT"), Ids) + Total(Nothing, Ids)
         = Total(Booked(c, "DEBIT"), Ids) + Total(into, Ids)
  BY <1>4, <1>9, <1>12
<1> QED
  BY <1>1, <1>9, <1>11, <1>13, <1>14, BalanceKept

\* A settlement: the REDEEM debit and what it takes, the EARN credit and its lot.
LEMMA SettleBalance ==
  ASSUME RowsInv, LedgerInv', NEW k \in Customers, NEW r \in Receipts, NEW basket \in Nat,
         NEW amount \in 1 .. basket, NEW t \in Times, Settle(k, r, basket, amount, t),
         NEW c, Balanced(c)
  PROVE  Balanced(c)'
<1> DEFINE plan == PlanAllocations(EligibleLots(k), amount)
           credit == EarnAmount(basket - amount)
           x == Entry("REDEEM", "DEBIT", amount, k, r, 0)
           y == Entry("EARN", "CREDIT", credit, k, r, 0)
<1>1. LedgerInv /\ amount \in Nat /\ credit \in Nat
  <2>1. amount \in Nat /\ basket - amount \in Nat
    OBVIOUS
  <2> QED
    BY <2>1, EarnAmountNat DEF RowsInv
<1>2. /\ Fits(IF credit > 0 THEN 2 ELSE 1)
      /\ size' = size + (IF credit > 0 THEN 2 ELSE 1)
      /\ ledger' = [e \in Ids |-> IF e = size + 1 THEN x
                                 ELSE IF credit > 0 /\ e = size + 2 THEN y ELSE ledger[e]]
      /\ remaining' = [e \in Ids |-> IF credit > 0 /\ e = size + 2 THEN credit
                                    ELSE remaining[e] - plan[e]]
  BY DEF Settle
<1>3. TypeOK /\ size \in Nat /\ Ids \subseteq Nat /\ size + 1 \in Ids
      /\ (credit > 0 => size + 2 \in Ids)
  BY <1>1, <1>2, NextRow
<1>4. PICK d, w : d = size + 1 /\ w = size + 2
  OBVIOUS
<1>5. /\ plan \in [Ids -> Nat] /\ Total(plan, Ids) = amount
      /\ \A l \in Ids : plan[l] <= remaining[l]
      /\ \A l \in Ids : plan[l] > 0 => IsLot(l) /\ ledger[l].customer = k
  BY <1>1, <1>3, SettleWithinBalance, PlanForCustomer
<1>6. /\ x.direction = "DEBIT" /\ x.amount = amount /\ x.customer = k
      /\ y.direction = "CREDIT" /\ y.amount = credit /\ y.customer = k
  BY DEF Entry
<1> HIDE DEF plan, credit, x, y
<1>7. /\ d \in Ids /\ (credit > 0 => w \in Ids) /\ d # w /\ d > size /\ w > size
      /\ size' = IF credit > 0 THEN w ELSE d
      /\ ledger'[d] = x /\ (credit > 0 => ledger'[w] = y)
      /\ \A e \in Ids : e # d /\ ~(credit > 0 /\ e = w) => ledger'[e] = ledger[e]
      /\ \A e \in Ids : remaining'[e] = IF credit > 0 /\ e = w THEN credit
                                        ELSE remaining[e] - plan[e]
  BY <1>2, <1>3, <1>4
<1>8. /\ \A e \in Ids : e > size => remaining[e] = 0 /\ plan[e] = 0
  <2> SUFFICES ASSUME NEW e \in Ids, e > size PROVE remaining[e] = 0 /\ plan[e] = 0
    OBVIOUS
  <2>1. remaining[e] = 0
    BY <1>1, LotsCommitted
  <2> QED
    BY <1>5, <2>1
<1>9. PICK out, into : /\ out = IF k = c THEN plan ELSE Nothing
                       /\ into = IF k = c /\ credit > 0 THEN Only(w, credit) ELSE Nothing
  OBVIOUS
<1>10. /\ out \in [Ids -> Nat] /\ into \in [Ids -> Nat]
       /\ Total(out, Ids) = IF k = c THEN amount ELSE 0
       /\ Total(into, Ids) = IF k = c /\ credit > 0 THEN credit ELSE 0
  BY <1>1, <1>5, <1>7, <1>9, OnlyTotal, NothingTotal
<1>11. \A l \in Ids : /\ out[l] = IF k = c THEN plan[l] ELSE 0
                      /\ into[l] = IF k = c /\ credit > 0 /\ l = w THEN credit ELSE 0
  BY <1>9 DEF Only, Nothing
<1>12. ASSUME NEW l \in Ids
       PROVE  (IF ledger'[l].customer = c THEN remaining'[l] ELSE 0) + out[l]
                = (IF ledger[l].customer = c THEN remaining[l] ELSE 0) + into[l]
  <2>1. remaining[l] \in Nat /\ plan[l] \in Nat /\ plan[l] <= remaining[l]
    BY <1>3, <1>5 DEF TypeOK
  <2>2. ledger[l].customer # k => plan[l] = 0
    BY <1>5, <2>1
  <2>3. CASE credit > 0 /\ l = w
    BY <1>1, <1>6, <1>7, <1>8, <1>11, <2>1, <2>3
  <2>4. CASE l = d
    BY <1>1, <1>6, <1>7, <1>8, <1>11, <2>1, <2>4
  <2>5. CASE l # d /\ ~(credit > 0 /\ l = w)
    <3>1. ledger'[l] = ledger[l] /\ remaining'[l] = remaining[l] - plan[l] /\ into[l] = 0
      BY <1>7, <1>11, <2>5
    <3> QED
      BY <1>11, <2>1, <2>2, <3>1
  <2> QED
    BY <2>3, <2>4, <2>5
<1>13. /\ Total(Booked(c, "CREDIT"), Ids) = IF k = c /\ credit > 0 THEN credit ELSE 0
       /\ Total(Booked(c, "DEBIT"), Ids) = IF k = c THEN amount ELSE 0
  <2>1. CASE credit > 0
    <3>1. ASSUME NEW direction
          PROVE  Total(Booked(c, direction), Ids) =
                   (IF x.customer = c /\ x.direction = direction THEN x.amount ELSE 0)
                   + (IF y.customer = c /\ y.direction = direction THEN y.amount ELSE 0)
      BY <1>1, <1>4, <1>7, <2>1, BookedTwo
    <3>2. Total(Booked(c, "CREDIT"), Ids) = 0 + (IF k = c THEN credit ELSE 0)
      BY <1>6, <3>1
    <3>3. Total(Booked(c, "DEBIT"), Ids) = (IF k = c THEN amount ELSE 0) + 0
      BY <1>6, <3>1
    <3> QED
      BY <1>1, <2>1, <3>2, <3>3
  <2>2. CASE ~(credit > 0)
    <3>1. ASSUME NEW direction
          PROVE  Total(Booked(c, direction), Ids) =
                   IF x.customer = c /\ x.direction = direction THEN x.amount ELSE 0
      BY <1>1, <1>4, <1>7, <2>2, BookedOne
    <3> QED
      BY <1>1, <1>6, <2>2, <3>1
  <2> QED
    BY <2>1, <2>2
<1>14. \A e \in Ids : e <= size => ledger'[e] = ledger[e]
  BY <1>3, <1>7
<1>15. Total(Booked(c, "CREDIT"), Ids) + Total(out, Ids)
         = Total(Booked(c, "DEBIT"), Ids) + Total(into, Ids)
  BY <1>1, <1>10, <1>13
<1> QED
  BY <1>1, <1>10, <1>12, <1>14, <1>15, BalanceKept

\* The reversal of a settlement: its lot emptied, its redemption given back.
LEMMA ReversePairBalance ==
  ASSUME RowsInv, LedgerInv', NEW earn \in Ids, NEW redeem \in Ids,
         ReversePair(earn, redeem), NEW c, Balanced(c)
  PROVE  Balanced(c)'
<1> DEFINE k == ledger[earn].customer
           credit == ledger[earn].amount
           back == Restorable(redeem)
           x == Entry("ADJUSTMENT", "DEBIT", credit, k, None, earn)
           y == Entry("REVERSAL", "CREDIT", Total(back, Ids), k, None, redeem)
<1>1. /\ LedgerInv /\ Fits(2) /\ IsLot(earn) /\ alloc[redeem][earn] = 0
      /\ remaining[earn] = credit /\ ledger[redeem].customer = k
  BY DEF RowsInv, ReversePair, IsLot
<1>2. /\ TypeOK /\ size \in Nat /\ Ids \subseteq Nat /\ size + 1 \in Ids /\ size + 2 \in Ids
      /\ credit \in Nat
  BY <1>1, NextRow DEF TypeOK, EntrySet
<1>3. PICK d \in Ids, v \in Ids : d = size + 1 /\ v = size + 2
  BY <1>2
<1>4. /\ back \in [Ids -> Nat] /\ Total(back, Ids) \in Nat /\ back[earn] = 0
      /\ \A l \in Ids : back[l] > 0 => IsLot(l) /\ ledger[l].customer = k
  <2>1. back \in [Ids -> Nat] /\ Total(back, Ids) \in Nat
        /\ \A l \in Ids : alloc[redeem][l] = 0 => back[l] = 0
    BY <1>1, RestorableNat
  <2>2. ASSUME NEW l \in Ids, back[l] > 0 PROVE alloc[redeem][l] > 0
    BY <1>2, <2>1, <2>2, CellTypes
  <2>3. ASSUME NEW l \in Ids, back[l] > 0 PROVE IsLot(l) /\ ledger[l].customer = k
    <3>1. alloc[redeem][l] > 0
      BY <2>2, <2>3
    <3>2. IsLot(l)
      BY <1>1, <3>1 DEF LedgerInv, OnlyLotsHoldMoney
    <3> QED
      BY <1>1, <3>1, <3>2 DEF RowsInv, OwnLotsOnly
  <2> QED
    BY <1>1, <2>1, <2>3
<1>5. /\ size' = v /\ ledger' = [ledger EXCEPT ![d] = x, ![v] = y]
      /\ remaining' = [l \in Ids |-> IF l = earn THEN remaining[l] - credit
                                     ELSE remaining[l] + back[l]]
  BY <1>1, <1>3 DEF ReversePair
<1>6. /\ x.direction = "DEBIT" /\ x.amount = credit /\ x.customer = k
      /\ y.direction = "CREDIT" /\ y.amount = Total(back, Ids) /\ y.customer = k
  BY DEF Entry
<1> HIDE DEF k, credit, back, x, y
<1>7. /\ d # v /\ d > size /\ v > size
      /\ ledger'[d] = x /\ ledger'[v] = y
      /\ \A e \in Ids \ {d, v} : ledger'[e] = ledger[e]
  BY <1>2, <1>3, <1>5 DEF TypeOK
<1>8. /\ \A e \in Ids : e > size => remaining[e] = 0 /\ back[e] = 0 /\ e # earn
  <2> SUFFICES ASSUME NEW e \in Ids, e > size PROVE remaining[e] = 0 /\ back[e] = 0 /\ e # earn
    OBVIOUS
  <2>1. remaining[e] = 0 /\ ~IsLot(e)
    BY <1>1, LotsCommitted
  <2> QED
    BY <1>1, <1>4, <2>1
<1>9. PICK out, into : /\ out = IF k = c THEN Only(earn, credit) ELSE Nothing
                       /\ into = IF k = c THEN back ELSE Nothing
  OBVIOUS
<1>10. /\ out \in [Ids -> Nat] /\ into \in [Ids -> Nat]
       /\ Total(out, Ids) = IF k = c THEN credit ELSE 0
       /\ Total(into, Ids) = IF k = c THEN Total(back, Ids) ELSE 0
  BY <1>2, <1>4, <1>9, OnlyTotal, NothingTotal
<1>11. \A l \in Ids : /\ out[l] = IF k = c /\ l = earn THEN credit ELSE 0
                      /\ into[l] = IF k = c THEN back[l] ELSE 0
  BY <1>9 DEF Only, Nothing
<1>12. ASSUME NEW l \in Ids
       PROVE  (IF ledger'[l].customer = c THEN remaining'[l] ELSE 0) + out[l]
                = (IF ledger[l].customer = c THEN remaining[l] ELSE 0) + into[l]
  <2>1. /\ remaining[l] \in Nat /\ back[l] \in Nat
        /\ remaining'[l] = IF l = earn THEN remaining[l] - credit ELSE remaining[l] + back[l]
    BY <1>2, <1>4, <1>5 DEF TypeOK
  <2>2. ledger[l].customer # k => back[l] = 0
    BY <1>4, <2>1
  <2>3. CASE l = d \/ l = v
    BY <1>7, <1>8, <1>11, <2>1, <2>3
  <2>4. CASE l = earn
    <3>1. ledger'[l] = ledger[l] /\ ledger[l].customer = k
      BY <1>7, <1>8, <2>4 DEF k
    <3> QED
      BY <1>1, <1>2, <1>4, <1>11, <2>1, <2>4, <3>1
  <2>5. CASE l # earn /\ l # d /\ l # v
    <3>1. ledger'[l] = ledger[l] /\ remaining'[l] = remaining[l] + back[l] /\ out[l] = 0
      BY <1>7, <1>11, <2>1, <2>5
    <3> QED
      BY <1>11, <2>1, <2>2, <3>1
  <2> QED
    BY <2>3, <2>4, <2>5
<1>13. /\ Total(Booked(c, "CREDIT"), Ids) = IF k = c THEN Total(back, Ids) ELSE 0
       /\ Total(Booked(c, "DEBIT"), Ids) = IF k = c THEN credit ELSE 0
  <2>1. ASSUME NEW direction
        PROVE  Total(Booked(c, direction), Ids) =
                 (IF x.customer = c /\ x.direction = direction THEN x.amount ELSE 0)
                 + (IF y.customer = c /\ y.direction = direction THEN y.amount ELSE 0)
    <3>1. size' = v
      BY <1>5
    <3>2. Total(Booked(c, direction), Ids) =
            (IF ledger'[d].customer = c /\ ledger'[d].direction = direction
             THEN ledger'[d].amount ELSE 0)
            + (IF ledger'[v].customer = c /\ ledger'[v].direction = direction
               THEN ledger'[v].amount ELSE 0)
      BY <1>1, <1>3, <3>1, BookedTwo
    <3> QED
      BY ONLY <1>7, <3>2
  <2>2. Total(Booked(c, "CREDIT"), Ids) = 0 + (IF k = c THEN Total(back, Ids) ELSE 0)
    BY <1>6, <2>1
  <2>3. Total(Booked(c, "DEBIT"), Ids) = (IF k = c THEN credit ELSE 0) + 0
    BY <1>6, <2>1
  <2> QED
    BY <1>2, <1>4, <2>2, <2>3
<1>14. \A e \in Ids : e <= size => ledger'[e] = ledger[e]
  <2> SUFFICES ASSUME NEW e \in Ids, e <= size PROVE ledger'[e] = ledger[e]
    OBVIOUS
  <2>1. size \in Nat /\ d > size /\ v > size /\ d \in Nat /\ v \in Nat /\ e \in Nat
    BY <1>2, <1>7
  <2>2. e # d /\ e # v
    BY ONLY <2>1, e <= size
  <2> QED
    BY <1>7, <2>2
<1>15. Total(Booked(c, "CREDIT"), Ids) + Total(out, Ids)
         = Total(Booked(c, "DEBIT"), Ids) + Total(into, Ids)
  BY <1>2, <1>4, <1>10, <1>13
<1> QED
  BY <1>1, <1>10, <1>12, <1>14, <1>15, BalanceKept

\* A sweep: every lot it empties is booked, at what was in it, in a row of its own.
LEMMA ExpireBalance ==
  ASSUME RowsInv, LedgerInv', NEW batch \in SUBSET DueLots, ExpireDueCredit(batch),
         NEW c, Balanced(c)
  PROVE  Balanced(c)'
<1>1. LedgerInv /\ TypeOK /\ batch \in SUBSET Ids
  BY DEF RowsInv, LedgerInv, DueLots
<1>2. PICK row \in [batch -> Ids] :
        /\ \A l, m \in batch : row[l] = row[m] => l = m
        /\ \A l \in batch : size < row[l] /\ row[l] <= size' /\
             ledger'[row[l]] = Entry("EXPIRY", "DEBIT", remaining[l],
                                     ledger[l].customer, None, 0)
        /\ \A e \in Ids : (\A l \in batch : row[l] # e) => ledger'[e] = ledger[e]
  BY <1>1, SweepRows
<1>3. /\ size \in Nat /\ Ids \subseteq Nat
      /\ \A e \in Ids : e > size => ledger[e].amount = 0 /\ remaining[e] = 0
  <2>1. size \in 0 .. MaxEntries
    BY <1>1 DEF TypeOK
  <2>2. ASSUME NEW e \in Ids, e > size PROVE ledger[e].amount = 0 /\ remaining[e] = 0
    BY <1>1, <2>2, LotsCommitted DEF LedgerInv, FreeRowsEmpty, Blank, Entry
  <2> QED
    BY <2>1, <2>2, ConstantsAssumption DEF Ids
<1>4. \A l \in Ids : /\ remaining[l] \in Nat
                     /\ remaining'[l] = IF l \in batch THEN 0 ELSE remaining[l]
  BY <1>1 DEF TypeOK, ExpireDueCredit
<1>5. \A e \in Ids : e <= size => ledger'[e] = ledger[e]
  BY <1>2, <1>3
<1>6. PICK out, own : /\ out = [l \in Ids |-> IF l \in batch /\ ledger[l].customer = c
                                              THEN remaining[l] ELSE 0]
                      /\ own = [l \in batch |-> IF ledger[l].customer = c
                                                THEN remaining[l] ELSE 0]
  OBVIOUS
<1>7. /\ out \in [Ids -> Nat] /\ \A l \in batch : own[l] \in Nat
      /\ \A l \in Ids : out[l] = IF l \in batch THEN own[l] ELSE 0
  BY <1>1, <1>4, <1>6
<1>8. Total(own, batch) = Total(out, Ids)
  BY <1>1, <1>7, TotalPart
<1>9. ASSUME NEW l \in Ids
      PROVE  (IF ledger'[l].customer = c THEN remaining'[l] ELSE 0) + out[l]
               = (IF ledger[l].customer = c THEN remaining[l] ELSE 0) + Nothing[l]
  <2>1. Nothing[l] = 0 /\ remaining[l] \in Nat /\ out[l] \in Nat
        /\ out[l] = IF l \in batch /\ ledger[l].customer = c THEN remaining[l] ELSE 0
    BY <1>4, <1>6 DEF Nothing
  <2>2. CASE l <= size
    BY <1>4, <1>5, <2>1, <2>2
  <2>3. CASE l > size
    BY <1>3, <1>4, <2>1, <2>3
  <2> QED
    BY <1>3, <2>2, <2>3
<1>10. ASSUME NEW e \in Ids, \A l \in batch : row[l] # e, e > size
       PROVE  ledger'[e].amount = 0
  BY <1>2, <1>3, <1>10
<1>11. ASSUME NEW l \in batch
       PROVE  /\ row[l] \in Ids /\ row[l] > size /\ ledger'[row[l]].customer = ledger[l].customer
              /\ ledger'[row[l]].direction = "DEBIT" /\ ledger'[row[l]].amount = remaining[l]
  <2>1. /\ row[l] \in Ids /\ size < row[l]
        /\ ledger'[row[l]] = Entry("EXPIRY", "DEBIT", remaining[l], ledger[l].customer, None, 0)
    BY <1>2, <1>11
  <2>2. row[l] > size
    BY <1>3, <2>1
  <2> QED
    BY ONLY <2>1, <2>2 DEF Entry
<1>12. PICK credits, debits : credits = Booked(c, "CREDIT") /\ debits = Booked(c, "DEBIT")
  OBVIOUS
<1>13. \A e \in Ids : credits[e] = 0
  <2> SUFFICES ASSUME NEW e \in Ids PROVE credits[e] = 0
    OBVIOUS
  <2>1. CASE \E l \in batch : row[l] = e
    BY <1>11, <1>12, <2>1 DEF Booked
  <2>2. CASE \A l \in batch : row[l] # e
    BY <1>10, <1>12, <2>2 DEF Booked
  <2> QED
    BY <2>1, <2>2
<1>14. \A l \in batch : debits[row[l]] = own[l]
  BY <1>6, <1>11, <1>12 DEF Booked
<1>15. \A e \in Ids : (\A l \in batch : row[l] # e) => debits[e] = 0
  BY <1>10, <1>12 DEF Booked
<1>16. Total(debits, Ids) = Total(own, batch)
  <2>1. IsFiniteSet(batch)
    BY <1>1, IdsFinite
  <2>2. \A l, m \in batch : row[l] = row[m] => l = m
    BY <1>2
  <2>3. \A l \in batch : own[l] \in Nat /\ debits[row[l]] = own[l]
    BY <1>7, <1>14
  <2> QED
    BY ONLY <1>15, <2>1, <2>2, <2>3, TotalRenumbered, row \in [batch -> Ids]
<1>17. Total(credits, Ids) = 0
  BY <1>13, TotalZero
<1>18. Nothing \in [Ids -> Nat] /\ Total(Nothing, Ids) = 0
  BY NothingTotal
<1>19. Total(out, Ids) \in Nat
  BY <1>7, IdsFinite, TotalNat
<1>20. Total(Booked(c, "CREDIT"), Ids) + Total(out, Ids)
         = Total(Booked(c, "DEBIT"), Ids) + Total(Nothing, Ids)
  BY <1>8, <1>12, <1>16, <1>17, <1>18, <1>19
<1> QED
  BY <1>1, <1>5, <1>7, <1>9, <1>18, <1>20, BalanceKept

-----------------------------------------------------------------------------
(* The theorems about the two books and about the order of spending. *)

\* RowsInv, and the agreement of the two books.
BooksInv == RowsInv /\ LedgerMatchesLots

\* The empty ledger satisfies the invariant.
LEMMA InitBooks == Init => BooksInv
<1> SUFFICES ASSUME Init PROVE BooksInv
  OBVIOUS
<1>1. LedgerInv
  BY InitInv
<1>2. /\ \A e \in Ids : ledger[e] = Blank /\ restored[e] = Nothing /\ remaining[e] = 0
      /\ \A d, l \in Ids : alloc[d][l] = 0
  BY DEF Init, Nothing
<1>3. /\ Blank.type = "NONE" /\ Blank.direction = "NONE" /\ Blank.amount = 0
      /\ Blank.receipt = None /\ Blank.reverses = 0
  BY DEF Blank, Entry
<1>4. ReceiptsOnSettlements /\ DebitsCovered /\ OwnLotsOnly /\ ReversalsInFull
      /\ StandingDebitsUntouched /\ SettlementReversedAsUnit
  BY <1>2, <1>3, ConstantsAssumption
     DEF ReceiptsOnSettlements, DebitsCovered, IsAllocatedDebit, OwnLotsOnly, ReversalsInFull,
         StandingDebitsUntouched, SettlementReversedAsUnit
<1>5. ReversesEarlier
  BY <1>2, <1>3, ConstantsAssumption DEF ReversesEarlier, Ids
<1>6. ASSUME NEW c \in Customers
      PROVE  SumOf(c, "CREDIT") = SumOf(c, "DEBIT") + Total(remaining, LotsOf(c))
  <2>1. \A e \in Ids : [x \in Ids |-> ledger[x].amount][e] = 0
    BY <1>2, <1>3
  <2>2. SumOf(c, "CREDIT") = 0
    BY <2>1, TotalZero DEF SumOf
  <2>3. SumOf(c, "DEBIT") = 0
    BY <2>1, TotalZero DEF SumOf
  <2>4. Total(remaining, LotsOf(c)) = 0
    BY <1>2, TotalZero DEF LotsOf
  <2> QED
    BY <2>2, <2>3, <2>4
<1> QED
  BY <1>1, <1>4, <1>5, <1>6 DEF BooksInv, RowsInv, LedgerMatchesLots

\* Every transaction keeps what the rows say of one another.
LEMMA NextRows ==
  ASSUME RowsInv, [Next]_vars
  PROVE  RowsInv'
<1>1. LedgerInv' /\ size' >= size
  BY NextInv, SizeGrows DEF RowsInv
<1>2. ASSUME NEW named \in SUBSET Ids, Appends(named) PROVE RowsInv'
  BY <1>1, <1>2, RowsStep
<1>3. ASSUME Appends({}) PROVE RowsInv'
  BY <1>2, <1>3
<1>4. ASSUME NEW c \in Customers, NEW r \in Receipts, NEW p \in Purchases, NEW t \in Times,
             Earn(c, r, p, t)
      PROVE  RowsInv'
  BY <1>3, <1>4, EarnRows
<1>5. ASSUME NEW c \in Customers, NEW r \in Receipts, NEW p \in Purchases, NEW t \in Times,
             NEW a \in 1 .. p, Settle(c, r, p, a, t)
      PROVE  RowsInv'
  <2>1. p \in Nat
    BY ConstantsAssumption
  <2> QED
    BY <1>3, <1>5, <2>1, SettleRows
<1>6. ASSUME NEW c \in Customers, NEW a \in Adjustments, NEW t \in Times,
             AdjustCredit(c, a, t)
      PROVE  RowsInv'
  BY <1>3, <1>6, AdjustCreditRows
<1>7. ASSUME NEW c \in Customers, NEW a \in Adjustments, AdjustDebit(c, a)
      PROVE  RowsInv'
  BY <1>3, <1>7, AdjustDebitRows
<1>8. ASSUME NEW e \in Ids, ReverseCredit(e) PROVE RowsInv'
  BY <1>2, <1>8, ReverseCreditRows
<1>9. ASSUME NEW e \in Ids, ReverseDebit(e) PROVE RowsInv'
  BY <1>2, <1>9, ReverseDebitRows
<1>10. ASSUME NEW e \in Ids, NEW d \in Ids, ReversePair(e, d) PROVE RowsInv'
  BY <1>2, <1>10, ReversePairRows
<1>11. ASSUME NEW batch \in SUBSET DueLots, ExpireDueCredit(batch) PROVE RowsInv'
  BY <1>3, <1>11, ExpireRows
<1>12. CASE Tick
  BY <1>3, <1>12, NoRows DEF Tick
<1>13. CASE UNCHANGED vars
  BY <1>3, <1>13, NoRows DEF vars
<1> QED
  BY <1>4, <1>5, <1>6, <1>7, <1>8, <1>9, <1>10, <1>11, <1>12, <1>13 DEF Next

\* Every transaction moves as much money in the lots as it books.
LEMMA NextBalance ==
  ASSUME RowsInv, [Next]_vars, NEW c, Balanced(c)
  PROVE  Balanced(c)'
<1>1. LedgerInv /\ LedgerInv' /\ TypeOK
  BY NextInv DEF RowsInv, LedgerInv
<1>2. ASSUME Fits(1) PROVE \E d \in Ids : d = size + 1
  BY <1>1, <1>2, NextRow
<1>3. ASSUME NEW k \in Customers, NEW r \in Receipts, NEW p \in Purchases, NEW t \in Times,
             Earn(k, r, p, t)
      PROVE  Balanced(c)'
  <2>1. Fits(1) /\ EarnAmount(p) \in Nat
    BY <1>3, ConstantsAssumption, EarnAmountNat DEF Earn
  <2>2. PICK d \in Ids : d = size + 1
    BY <1>2, <2>1
  <2>3. PICK x : x = Entry("EARN", "CREDIT", EarnAmount(p), k, r, 0)
    OBVIOUS
  <2>4. x \in EntrySet /\ x.direction = "CREDIT" /\ x.amount = EarnAmount(p)
    BY <2>1, <2>3 DEF Entry, EntrySet, Types, Directions
  <2>5. /\ size' = d /\ ledger' = [ledger EXCEPT ![d] = x]
        /\ remaining' = [remaining EXCEPT ![d] = x.amount]
    BY <1>3, <2>2, <2>3, <2>4 DEF Earn
  <2> QED
    BY <1>1, <2>2, <2>4, <2>5, OpenedBalance
<1>4. ASSUME NEW k \in Customers, NEW r \in Receipts, NEW p \in Purchases, NEW t \in Times,
             NEW a \in 1 .. p, Settle(k, r, p, a, t)
      PROVE  Balanced(c)'
  <2>1. p \in Nat
    BY ConstantsAssumption
  <2> QED
    BY <1>1, <1>4, <2>1, SettleBalance
<1>5. ASSUME NEW k \in Customers, NEW a \in Adjustments, NEW t \in Times,
             AdjustCredit(k, a, t)
      PROVE  Balanced(c)'
  <2>1. Fits(1) /\ a \in Nat
    BY <1>5, ConstantsAssumption DEF AdjustCredit
  <2>2. PICK d \in Ids : d = size + 1
    BY <1>2, <2>1
  <2>3. PICK x : x = Entry("ADJUSTMENT", "CREDIT", a, k, None, 0)
    OBVIOUS
  <2>4. x \in EntrySet /\ x.direction = "CREDIT" /\ x.amount = a
    BY <2>1, <2>3 DEF Entry, EntrySet, Types, Directions
  <2>5. /\ size' = d /\ ledger' = [ledger EXCEPT ![d] = x]
        /\ remaining' = [remaining EXCEPT ![d] = x.amount]
    BY <1>5, <2>2, <2>3, <2>4 DEF AdjustCredit
  <2> QED
    BY <1>1, <2>2, <2>4, <2>5, OpenedBalance
<1>6. ASSUME NEW k \in Customers, NEW a \in Adjustments, AdjustDebit(k, a)
      PROVE  Balanced(c)'
  <2>1. Fits(1) /\ a \in Nat /\ a <= ActiveBalance(k)
    BY <1>6, ConstantsAssumption DEF AdjustDebit
  <2>2. PICK d \in Ids : d = size + 1
    BY <1>2, <2>1
  <2>3. PICK x, plan : /\ x = Entry("ADJUSTMENT", "DEBIT", a, k, None, 0)
                       /\ plan = PlanAllocations(EligibleLots(k), a)
    OBVIOUS
  <2>4. x \in EntrySet /\ x.direction = "DEBIT" /\ x.amount = a /\ x.customer = k
    BY <2>1, <2>3 DEF Entry, EntrySet, Types, Directions
  <2>5. /\ plan \in [Ids -> Nat] /\ Total(plan, Ids) = x.amount
        /\ \A l \in Ids : plan[l] <= remaining[l]
        /\ \A l \in Ids : plan[l] > 0 => IsLot(l) /\ ledger[l].customer = x.customer
    BY <1>1, <2>1, <2>3, <2>4, PlanForCustomer
  <2>6. /\ size' = d /\ ledger' = [ledger EXCEPT ![d] = x]
        /\ \A l \in Ids : remaining'[l] = remaining[l] - plan[l]
    BY <1>6, <2>2, <2>3 DEF AdjustDebit
  <2> QED
    BY <1>1, <2>2, <2>4, <2>5, <2>6, TakenBalance
<1>7. ASSUME NEW e \in Ids, ReverseCredit(e)
      PROVE  Balanced(c)'
  <2>1. /\ Fits(1) /\ IsLot(e) /\ remaining[e] = ledger[e].amount
        /\ ledger[e].amount \in Nat /\ ledger[e].customer \in Customers \cup {None}
    BY <1>1, <1>7 DEF ReverseCredit, TypeOK, EntrySet
  <2>2. PICK d \in Ids : d = size + 1
    BY <1>2, <2>1
  <2>3. PICK x : x = Entry("ADJUSTMENT", "DEBIT", ledger[e].amount, ledger[e].customer, None, e)
    OBVIOUS
  <2>4. /\ x \in EntrySet /\ x.direction = "DEBIT" /\ x.amount = ledger[e].amount
        /\ x.customer = ledger[e].customer
    BY <2>1, <2>3 DEF Entry, EntrySet, Types, Directions
  <2>5. PICK plan : plan = Only(e, ledger[e].amount)
    OBVIOUS
  <2>6. plan \in [Ids -> Nat] /\ Total(plan, Ids) = x.amount
    BY <2>1, <2>4, <2>5, OnlyTotal
  <2>7. \A l \in Ids : plan[l] = IF l = e THEN ledger[e].amount ELSE 0
    BY <2>5 DEF Only
  <2>8. /\ size' = d /\ ledger' = [ledger EXCEPT ![d] = x]
        /\ remaining' = [remaining EXCEPT ![e] = remaining[e] - ledger[e].amount]
    BY <1>7, <2>2, <2>3 DEF ReverseCredit
  <2>9. remaining \in [Ids -> Nat]
    BY <1>1 DEF TypeOK
  <2>10. /\ \A l \in Ids : plan[l] <= remaining[l]
         /\ \A l \in Ids : plan[l] > 0 => IsLot(l) /\ ledger[l].customer = x.customer
         /\ \A l \in Ids : remaining'[l] = remaining[l] - plan[l]
    BY <2>1, <2>4, <2>7, <2>8, <2>9
  <2> QED
    BY <1>1, <2>2, <2>4, <2>6, <2>8, <2>10, TakenBalance
<1>8. ASSUME NEW e \in Ids, ReverseDebit(e) PROVE Balanced(c)'
  BY <1>1, <1>8, ReverseDebitBalance
<1>9. ASSUME NEW e \in Ids, NEW d \in Ids, ReversePair(e, d) PROVE Balanced(c)'
  BY <1>1, <1>9, ReversePairBalance
<1>10. ASSUME NEW batch \in SUBSET DueLots, ExpireDueCredit(batch) PROVE Balanced(c)'
  BY <1>1, <1>10, ExpireBalance
<1>11. ASSUME UNCHANGED <<ledger, remaining>> PROVE Balanced(c)'
  BY <1>11 DEF Balanced, SumOf, LotsOf, IsLot
<1>12. CASE Tick
  BY <1>11, <1>12 DEF Tick
<1>13. CASE UNCHANGED vars
  BY <1>11, <1>13 DEF vars
<1> QED
  BY <1>3, <1>4, <1>5, <1>6, <1>7, <1>8, <1>9, <1>10, <1>12, <1>13 DEF Next

\* Every transaction preserves the invariant.
LEMMA NextBooks == BooksInv /\ [Next]_vars => BooksInv'
<1> SUFFICES ASSUME BooksInv, [Next]_vars PROVE BooksInv'
  OBVIOUS
<1>1. RowsInv /\ RowsInv'
  BY NextRows DEF BooksInv
<1>2. ASSUME NEW c \in Customers PROVE Balanced(c)'
  <2>1. Balanced(c)
    BY DEF BooksInv, LedgerMatchesLots, Balanced
  <2> QED
    BY <1>1, <2>1, NextBalance
<1>3. LedgerMatchesLots'
  BY <1>2 DEF LedgerMatchesLots, Balanced
<1> QED
  BY <1>1, <1>3 DEF BooksInv

\* The strengthened invariant holds in every reachable state.
THEOREM BooksInvariant == Spec => []BooksInv
<1>1. Init => BooksInv
  BY InitBooks
<1>2. BooksInv /\ [Next]_vars => BooksInv'
  BY NextBooks
<1> QED
  BY <1>1, <1>2, PTL DEF Spec

\* Credits less debits is the money in the lots, for every customer, in every order
\* of earns, settlements, adjustments, reversals and sweeps.
THEOREM BooksAgree == Spec => []LedgerMatchesLots
<1>1. BooksInv => LedgerMatchesLots
  BY DEF BooksInv
<1> QED
  BY <1>1, BooksInvariant, PTL

\* reverse() never gives back a part of a debit.
THEOREM ReversalsComplete == Spec => []ReversalsRestoreInFull
<1>1. BooksInv => ReversalsRestoreInFull
  BY DEF BooksInv, RowsInv, ReversalsInFull, ReversalsRestoreInFull
<1> QED
  BY <1>1, BooksInvariant, PTL

\* The two rows of a settled receipt are reversed together, and the redemption's
\* status says so.
THEOREM SettlementsReverseWhole == Spec => []SettlementReversedAsUnit
<1>1. BooksInv => SettlementReversedAsUnit
  BY DEF BooksInv, RowsInv
<1> QED
  BY <1>1, BooksInvariant, PTL

\* A plan that touches a lot has emptied the eligible lots that expire sooner.
LEMMA PlanTakesSoonest ==
  ASSUME TypeOK, NEW c, NEW amount \in Nat, NEW l \in Ids, NEW m \in Ids,
         PlanAllocations(EligibleLots(c), amount)[l] > 0,
         m \in EligibleLots(ledger[l].customer), expiresAt[m] < expiresAt[l]
  PROVE  PlanAllocations(EligibleLots(c), amount)[m] = remaining[m]
<1>1. EligibleLots(c) \in SUBSET Ids
  BY DEF EligibleLots, LotsOf
<1>2. l \in EligibleLots(c)
  BY <1>1, PlanWithinLots
<1>3. Ahead(EligibleLots(c), l) < amount
  BY <1>2 DEF PlanAllocations
<1>4. ledger[l].customer = c
  BY <1>2 DEF EligibleLots, LotsOf
<1>5. Precedes(m, l)
  BY DEF Precedes
<1> QED
  BY <1>1, <1>2, <1>3, <1>4, <1>5, PlanEmptiesEarlier

\* The step that spends from a lot empties the lots that expire sooner.
LEMMA SoonestFirst ==
  ASSUME LedgerInv, [Next]_vars, NEW l \in Ids, NEW m \in Ids,
         size' > size,
         ledger'[size + 1].direction = "DEBIT",
         ledger'[size + 1].type \in {"REDEEM", "ADJUSTMENT"},
         ledger'[size + 1].reverses = 0,
         remaining'[l] < remaining[l],
         m \in EligibleLots(ledger[l].customer), expiresAt[m] < expiresAt[l]
  PROVE  remaining'[m] = 0
<1>1. /\ TypeOK /\ size \in Nat /\ Ids \subseteq Nat /\ 0 \notin Ids
      /\ remaining \in [Ids -> Nat] /\ DOMAIN ledger = Ids
  <2>1. TypeOK /\ size \in 0 .. MaxEntries
    BY DEF LedgerInv, TypeOK
  <2>2. remaining \in [Ids -> Nat] /\ DOMAIN ledger = Ids
    BY <2>1 DEF TypeOK
  <2>3. size \in Nat /\ Ids \subseteq Nat /\ 0 \notin Ids
    BY <2>1, ConstantsAssumption DEF Ids
  <2> QED
    BY <2>1, <2>2, <2>3
<1>2. ASSUME Fits(1) PROVE size + 1 \in Ids
  BY <1>2, NextRow
<1>3. IsLot(m) /\ m # size + 2
  <2>1. IsLot(m)
    BY DEF EligibleLots, LotsOf
  <2> QED
    BY <1>1, <2>1, LotsCommitted
<1>4. ASSUME NEW c \in Customers, NEW r \in Receipts, NEW p \in Purchases, NEW t \in Times,
             Earn(c, r, p, t)
      PROVE  FALSE
  <2>1. Fits(1) /\ ledger'[size + 1] = Entry("EARN", "CREDIT", EarnAmount(p), c, r, 0)
    BY <1>1, <1>2, <1>4 DEF Earn
  <2> QED
    BY <2>1 DEF Entry
<1>5. ASSUME NEW c \in Customers, NEW r \in Receipts, NEW p \in Purchases, NEW t \in Times,
             NEW a \in 1 .. p, Settle(c, r, p, a, t)
      PROVE  remaining'[m] = 0
  <2> DEFINE plan == PlanAllocations(EligibleLots(c), a)
             credit == EarnAmount(p - a)
  <2>1. a \in Nat /\ credit \in Nat
    <3>1. a \in Nat /\ p - a \in Nat
      BY ConstantsAssumption
    <3> QED
      BY <3>1, EarnAmountNat
  <2>2. \A e \in Ids : remaining'[e] = IF credit > 0 /\ e = size + 2 THEN credit
                                      ELSE remaining[e] - plan[e]
    BY <1>5 DEF Settle
  <2>3. /\ plan[l] \in Nat /\ plan[m] \in Nat
    <3>1. EligibleLots(c) \in SUBSET Ids
      BY DEF EligibleLots, LotsOf
    <3> QED
      BY <1>1, <2>1, <3>1, PlanWithinLots
  <2>4. ~(credit > 0 /\ l = size + 2)
    <3>1. CASE l = size + 2
      <4>1. remaining[l] = 0
        BY <1>1, <3>1, LotsCommitted
      <4> QED
        BY <2>1, <2>2, <4>1
    <3> QED
      BY <3>1
  <2>5. remaining'[l] = remaining[l] - plan[l]
    BY <2>2, <2>4
  <2>6. remaining[l] \in Nat
    BY <1>1
  <2> HIDE DEF plan, credit
  <2>7. plan[l] > 0
    BY <2>3, <2>5, <2>6
  <2>8. plan[m] = remaining[m]
    BY <1>1, <2>1, <2>7, PlanTakesSoonest DEF plan
  <2>9. remaining'[m] = remaining[m] - plan[m]
    BY <1>3, <2>2
  <2> QED
    BY <1>1, <2>8, <2>9
<1>6. ASSUME NEW c \in Customers, NEW a \in Adjustments, NEW t \in Times,
             AdjustCredit(c, a, t)
      PROVE  FALSE
  <2>1. Fits(1) /\ ledger'[size + 1] = Entry("ADJUSTMENT", "CREDIT", a, c, None, 0)
    BY <1>1, <1>2, <1>6 DEF AdjustCredit
  <2> QED
    BY <2>1 DEF Entry
<1>7. ASSUME NEW c \in Customers, NEW a \in Adjustments, AdjustDebit(c, a)
      PROVE  remaining'[m] = 0
  <2> DEFINE plan == PlanAllocations(EligibleLots(c), a)
  <2>1. a \in Nat
    BY ConstantsAssumption
  <2>2. \A e \in Ids : remaining'[e] = remaining[e] - plan[e]
    BY <1>7 DEF AdjustDebit
  <2>3. plan[l] \in Nat /\ remaining[l] \in Nat /\ remaining[m] \in Nat
    <3>1. EligibleLots(c) \in SUBSET Ids
      BY DEF EligibleLots, LotsOf
    <3> QED
      BY <1>1, <2>1, <3>1, PlanWithinLots
  <2> HIDE DEF plan
  <2>4. plan[l] > 0
    BY <2>2, <2>3
  <2>5. plan[m] = remaining[m]
    BY <1>1, <2>1, <2>4, PlanTakesSoonest DEF plan
  <2> QED
    BY <2>2, <2>3, <2>5
<1>8. ASSUME NEW e \in Ids, ReverseCredit(e) PROVE FALSE
  <2>1. Fits(1) /\ ledger'[size + 1] = Entry("ADJUSTMENT", "DEBIT", ledger[e].amount,
                                             ledger[e].customer, None, e)
    BY <1>1, <1>2, <1>8 DEF ReverseCredit
  <2> QED
    BY <1>1, <2>1 DEF Entry
<1>9. ASSUME NEW e \in Ids, ReverseDebit(e) PROVE FALSE
  <2>1. Fits(1) /\ ledger'[size + 1] = Entry("REVERSAL", "CREDIT", Total(Restorable(e), Ids),
                                             ledger[e].customer, None, e)
    BY <1>1, <1>2, <1>9 DEF ReverseDebit
  <2> QED
    BY <2>1 DEF Entry
<1>10. ASSUME NEW e \in Ids, NEW d \in Ids, ReversePair(e, d) PROVE FALSE
  <2>1. Fits(2) /\ size + 1 \in Ids /\ size + 1 # size + 2
    BY <1>1, <1>10, NextRow DEF ReversePair
  <2>2. ledger'[size + 1] = Entry("ADJUSTMENT", "DEBIT", ledger[e].amount,
                                  ledger[e].customer, None, e)
    BY <1>1, <1>10, <2>1 DEF ReversePair
  <2> QED
    BY <1>1, <2>2 DEF Entry
<1>11. ASSUME NEW batch \in SUBSET DueLots, ExpireDueCredit(batch) PROVE FALSE
  <2>1. PICK row \in [batch -> Ids] :
          /\ \A j \in batch : size < row[j] /\ row[j] <= size' /\
               ledger'[row[j]] = Entry("EXPIRY", "DEBIT", remaining[j],
                                       ledger[j].customer, None, 0)
          /\ \A e \in Ids : (\A j \in batch : row[j] # e) => ledger'[e] = ledger[e]
    BY <1>11, SweepRows
  <2>2. size + 1 \in Ids
    <3>1. Cardinality(batch) \in Nat /\ size + Cardinality(batch) <= MaxEntries
      BY <1>11, IdsFinite, FS_CardinalityType DEF ExpireDueCredit, Fits, DueLots
    <3>2. size' = size + Cardinality(batch)
      BY <1>11 DEF ExpireDueCredit
    <3> QED
      BY <1>1, <3>1, <3>2, ConstantsAssumption DEF Ids
  <2>3. CASE \E j \in batch : row[j] = size + 1
    <3>1. PICK j \in batch : row[j] = size + 1
      BY <2>3
    <3>2. ledger'[size + 1] = Entry("EXPIRY", "DEBIT", remaining[j], ledger[j].customer, None, 0)
      BY <2>1, <3>1
    <3> QED
      BY <3>2 DEF Entry
  <2>4. CASE \A j \in batch : row[j] # size + 1
    <3>1. ledger'[size + 1] = ledger[size + 1]
      BY <2>1, <2>2, <2>4
    <3>2. ledger[size + 1] = Blank
      BY <1>1, <2>2 DEF LedgerInv, FreeRowsEmpty
    <3> QED
      BY <3>1, <3>2 DEF Blank, Entry
  <2> QED
    BY <2>3, <2>4
<1>12. CASE Tick
  BY <1>1, <1>12 DEF Tick
<1>13. CASE UNCHANGED vars
  BY <1>1, <1>13 DEF vars
<1> QED
  BY <1>4, <1>5, <1>6, <1>7, <1>8, <1>9, <1>10, <1>11, <1>12, <1>13 DEF Next

\* Settlements and manual debits spend what expires first.
THEOREM SoonestExpiringSpentFirst == Spec => FirstExpiringFirst
<1>1. LedgerInv /\ [Next]_vars =>
        [\A l, m \in Ids :
           /\ size' > size
           /\ ledger'[size + 1].direction = "DEBIT"
           /\ ledger'[size + 1].type \in {"REDEEM", "ADJUSTMENT"}
           /\ ledger'[size + 1].reverses = 0
           /\ remaining'[l] < remaining[l]
           /\ m \in EligibleLots(ledger[l].customer)
           /\ expiresAt[m] < expiresAt[l]
           => remaining'[m] = 0]_vars
  BY SoonestFirst
<1> QED
  BY <1>1, InvariantHolds, PTL DEF Spec, FirstExpiringFirst
=============================================================================
