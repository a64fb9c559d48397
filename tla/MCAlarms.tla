------------------------------- MODULE MCAlarms ------------------------------
\* Instances of Alarms for TLC.
EXTENDS Alarms, TLC

\* Channel 1 has two thresholds on the high side, channel 2 a critical low one.
BothLimits == <<
  [criticalHigh |-> 3, criticalLow |-> NoLimit, warningHigh |-> 2, warningLow |-> NoLimit],
  [criticalHigh |-> NoLimit, criticalLow |-> -1, warningHigh |-> NoLimit, warningLow |-> NoLimit]>>

R(c, v, at) == [channel |-> c, value |-> v, at |-> at]

\* Readings of a channel, dated and not, a batch that visits it twice, and one
\* that visits the other channel first.
ManyReadings ==
  {<<R(1, 3, 2)>>, <<R(1, 1, 1)>>, <<R(1, 1, 3)>>, <<R(1, 2, Omitted)>>,
   <<R(1, 1, Omitted), R(1, 3, Omitted)>>, <<R(2, 0, 1), R(1, 1, 2)>>}

\* Batches of two channels in opposite orders.
TwoChannels ==
  {<<R(1, 3, Omitted), R(2, 0, Omitted)>>, <<R(2, -1, Omitted), R(1, 1, Omitted)>>}

\* Sessions are interchangeable.
SessionSymmetry == Permutations(Sessions)
=============================================================================
