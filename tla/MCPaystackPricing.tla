-------------------------- MODULE MCPaystackPricing --------------------------
\* PaystackPricing with the real percentage, a flat charge of 3 kobo from 100 kobo and a cap of
\* 6 kobo, reached at 134: every fee across the three of them.
EXTENDS PaystackPricing

MCFee == 1..300
=============================================================================
