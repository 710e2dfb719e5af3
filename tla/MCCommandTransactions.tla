----------------------- MODULE MCCommandTransactions -----------------------
EXTENDS CommandTransactions, TLC
=============================================================================
