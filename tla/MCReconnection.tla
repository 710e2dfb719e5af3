-------------------------- MODULE MCReconnection --------------------------
EXTENDS Reconnection, TLC
=============================================================================
