--------------------------- MODULE PaystackPricing ---------------------------
(***************************************************************************)
(* What a parent pays so that the school receives its whole fee, where the *)
(* school passes Paystack's charge on (services/paystackPricing.ts): a     *)
(* binary search for the smallest total, below the amount from which the   *)
(* flat charge is taken and then from it on. One behaviour is one call;    *)
(* a step is a test or a turn of the loop.                                 *)
(***************************************************************************)
EXTENDS Integers

CONSTANTS
    flatKobo, flatFromKobo, capKobo,
    Fee                 \* the fees asked about

ASSUME PricingAssumption == flatKobo \in Nat /\ flatFromKobo \in Nat \ {0} /\ capKobo \in Nat
ASSUME FeeAssumption == Fee \subseteq Nat \ {0}

VARIABLES feeKobo, pc, lo, hi
pricingVars == <<feeKobo, pc, lo, hi>>

percentBasisPoints == 150

ceilDiv(a, b) == (a - (a % b)) \div b + IF a % b = 0 THEN 0 ELSE 1

Lesser(a, b) == IF a <= b THEN a ELSE b
Greater(a, b) == IF a >= b THEN a ELSE b

\* Paystack's charge on a payment, a fraction of a kobo counted as a whole one.
paystackChargeKobo(total) ==
    Lesser(ceilDiv(total * percentBasisPoints, 10000) + (IF total >= flatFromKobo THEN flatKobo ELSE 0), capKobo)

Receives(total) == total - paystackChargeKobo(total)

-----------------------------------------------------------------------------
\* Mutant: one search over the whole range.
InitOneSearch == feeKobo \in Fee /\ pc = "below" /\ lo = feeKobo /\ hi = feeKobo + capKobo

PricingInit ==
    /\ feeKobo \in Fee
    /\ pc = "below"
    /\ lo = feeKobo /\ hi = flatFromKobo - 1

\* smallest(lo, hi) answers null when nothing in the range leaves the school its fee.
None == lo > hi \/ Receives(hi) < feeKobo

\* Nothing below the flat charge will do: search from it, up to the fee and the cap.
GoFrom ==
    /\ pc = "below" /\ None
    /\ pc' = "from"
    /\ lo' = Greater(feeKobo, flatFromKobo) /\ hi' = Greater(flatFromKobo, feeKobo + capKobo)
    /\ UNCHANGED feeKobo

Enter ==
    /\ pc \in {"below", "from"} /\ ~ None
    /\ pc' = "search"
    /\ UNCHANGED <<feeKobo, lo, hi>>

mid == lo + (hi - lo) \div 2

\* Mutant: the lower bound moves to the middle, and not past it.
HalveShort ==
    /\ pc = "search" /\ lo < hi
    /\ IF Receives(mid) >= feeKobo THEN hi' = mid /\ UNCHANGED lo ELSE lo' = mid /\ UNCHANGED hi
    /\ UNCHANGED <<feeKobo, pc>>

Halve ==
    /\ pc = "search" /\ lo < hi
    /\ IF Receives(mid) >= feeKobo THEN hi' = mid /\ UNCHANGED lo ELSE lo' = mid + 1 /\ UNCHANGED hi
    /\ UNCHANGED <<feeKobo, pc>>

\* totalKobo is lo.
Answer ==
    /\ pc = "search" /\ lo = hi
    /\ pc' = "answered"
    /\ UNCHANGED <<feeKobo, lo, hi>>

PricingNext == GoFrom \/ Enter \/ Halve \/ Answer

PricingSpec == PricingInit /\ [][PricingNext]_pricingVars

\* The loop of one call runs to its end.
FairSpec == PricingSpec /\ WF_pricingVars(PricingNext)

-----------------------------------------------------------------------------
\* The bounds stay numbers, in order once the loop is entered, and never on both sides of
\* the amount where the flat charge starts: the search sees only where Receives rises.
PricingTypeOK ==
    /\ feeKobo \in Fee /\ lo \in Nat /\ hi \in Nat
    /\ pc \in {"below", "from", "search", "answered"}
    /\ pc \in {"search", "answered"} => lo <= hi /\ (hi < flatFromKobo \/ flatFromKobo <= lo)

\* The answer leaves the school its whole fee and no smaller payment does, although what the
\* school receives drops where the flat charge starts and changes slope at the cap
\* (totalForSchoolToReceive).
SmallestTotal ==
    pc = "answered" => Receives(lo) >= feeKobo /\ \A total \in 0..lo - 1 : Receives(total) < feeKobo

\* Every call answers: the second search always finds a total (the code asserts that it is not null).
SearchAnswers == <>(pc = "answered")
=============================================================================
