------------------------- MODULE MCCommandDelivery --------------------------
EXTENDS CommandDelivery, TLC
=============================================================================
