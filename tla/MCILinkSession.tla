--------------------------- MODULE MCILinkSession ---------------------------
EXTENDS ILinkSession
=============================================================================
