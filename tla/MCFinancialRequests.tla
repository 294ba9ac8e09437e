------------------------ MODULE MCFinancialRequests ------------------------
(* Small instances of FinancialRequests for TLC. *)
EXTENDS FinancialRequests

\* Three requests that name no receipt but r1 and no entry but the first one's.
Three(kinds, keys, payloads) ==
  [kind |-> kinds, key |-> keys, payload |-> payloads,
   receipt |-> [q \in 1 .. 3 |-> "r1"], target |-> [q \in 1 .. 3 |-> 1]]

Redeems == <<"redeem", "redeem", "redeem">>
Adjusts == <<"adjust", "adjust", "adjust">>
Reverses == <<"redeem", "reverse", "reverse">>

Meetings == {
  \* a redemption sent twice, and another one that has its key, or its receipt
  [Three(Redeems, <<"k1", "k1", "k1">>, <<"d", "d", "e">>)
     EXCEPT !.receipt = <<"r1", "r1", "r2">>],
  Three(Redeems, <<"k1", "k1", "k2">>, <<"d", "d", "e">>),
  \* a reversal of a redemption sent twice, or two under different keys
  Three(Reverses, <<"k1", "k1", "k1">>, <<"d", "v", "v">>),
  Three(Reverses, <<"k1", "k1", "k2">>, <<"d", "v", "w">>),
  \* a reversal of the reversal, under its key
  [Three(Reverses, <<"k1", "k1", "k1">>, <<"d", "v", "w">>)
     EXCEPT !.target = <<1, 1, 2>>],
  \* an adjustment sent twice, and again under another key; one beside a redemption
  Three(Adjusts, <<"k1", "k1", "k2">>, <<"a", "a", "a">>),
  Three(<<"adjust", "adjust", "redeem">>, <<"k1", "k2", "k1">>, <<"a", "b", "d">>)}
============================================================================
