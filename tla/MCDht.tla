------------------------------- MODULE MCDht -------------------------------
EXTENDS Dht
=============================================================================
