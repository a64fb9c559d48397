------------------------------ MODULE MCOutbox ------------------------------
\* Instances of Outbox for TLC.
EXTENDS Outbox, TLC

\* Workers are interchangeable; used by the safety runs only.
WorkerSymmetry == Permutations(Workers)
=============================================================================
