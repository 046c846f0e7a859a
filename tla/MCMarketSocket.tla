--------------------------- MODULE MCMarketSocket ---------------------------
EXTENDS MarketSocket
=============================================================================
