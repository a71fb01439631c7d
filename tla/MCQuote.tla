------------------------------ MODULE MCQuote ------------------------------
EXTENDS Quote
=============================================================================
