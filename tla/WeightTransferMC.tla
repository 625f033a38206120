-------------------------- MODULE WeightTransferMC --------------------------
\* An instance of WeightTransfer for TLC.
EXTENDS WeightTransfer

\* Buckets that are exactly full, not full, and of one weight; no weight at all.
SomeModels == {<<>>, <<2>>, <<1, 1, 2, 1>>, <<2, 2, 1, 1>>, <<1, 2, 1, 2, 1>>, <<2, 2, 2, 1, 1, 2>>}
=============================================================================
