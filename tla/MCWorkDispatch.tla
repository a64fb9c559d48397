---------------------------- MODULE MCWorkDispatch ---------------------------
\* Instances of WorkDispatch for TLC.
EXTENDS WorkDispatch, TLC

\* Sessions, work orders and technicians are interchangeable in safety runs.
Symmetry ==
  Permutations(Sessions) \union Permutations(Works) \union Permutations(Techs)
=============================================================================
