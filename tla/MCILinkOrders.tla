--------------------------- MODULE MCILinkOrders ---------------------------
EXTENDS ILinkOrders
=============================================================================
