------------------------- MODULE MCCustomerDisplay -------------------------
EXTENDS CustomerDisplay
=============================================================================
