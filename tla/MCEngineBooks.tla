--------------------------- MODULE MCEngineBooks ---------------------------
EXTENDS EngineBooks
=============================================================================
