---------------------------- MODULE MCFeeCheckout ----------------------------
\* FeeCheckout on a small instance: two requests for the payments of one invoice.
EXTENDS FeeCheckout

MCTime == {0}
MCExtra == {1}
=============================================================================
