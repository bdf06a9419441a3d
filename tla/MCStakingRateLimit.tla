------------------------- MODULE MCStakingRateLimit -------------------------
EXTENDS StakingRateLimitHistory

CONSTANT MaxAccepted   \* bound on the stake a behaviour follows

\* Growth that divides the maximum, growth that does not (twice), no growth, a lower
\* maximum, and pairs that setStakingLimit refuses.
MCStakeLimits == {<<4, 2>>, <<5, 2>>, <<5, 3>>, <<5, 0>>, <<3, 1>>, <<0, 0>>, <<2, 3>>, <<16, 4>>}

MCConstraint == accepted <= MaxAccepted
=============================================================================
