---------------------------- MODULE MCReservations ---------------------------
\* Constants of the instances of Reservations for TLC.
EXTENDS Reservations, TLC

CONSTANTS w1, w2

\* Sessions are interchangeable in the safety runs.
SessionSymmetry == Permutations(Sessions)

\* Material is planned for one pair, for one work order, or for nothing.
NoPlan == {}
PlanFirst == {<<w1, 1>>}
PlanBoth == {<<w1, 1>>, <<w1, 2>>}
=============================================================================
