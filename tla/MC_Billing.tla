----------------------------- MODULE MC_Billing -----------------------------
(* A small deployment for TLC: two callers of the ledger, two webhook       *)
(* deliveries, one reconciliation run, one payment. A caller's keyed        *)
(* operations share the payment's key.                                      *)
EXTENDS Billing

CONSTANTS c1, c2, h1, h2, r1, pay

Op(kind, amount, key, neg) == [kind |-> kind, amount |-> amount, key |-> key, neg |-> neg]

SomeRequests == {Op("grant", 2, pay, FALSE), Op("consume", 2, pay, FALSE),
                 Op("consume", 2, NoKey, FALSE), Op("consume", 1, NoKey, TRUE),
                 Op("set", 3, NoKey, FALSE)}
=============================================================================
