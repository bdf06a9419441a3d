------------------------- MODULE MCReportReceivers --------------------------
EXTENDS ReportReceivers

\* The wrapper is looked at with the burner as the only receiver; the list of
\* the composite is filled once it is the receiver, and grows beyond two while
\* nothing is requested.
MCWrapperIdle == SupplyOf(wstETH) = 0 /\ \A u \in Wrappers : allowances[u][Wrapper] = 0

MCBound ==
    /\ receiver = Composite => MCWrapperIdle
    /\ callbacks # << >> => receiver = Composite
    /\ Len(callbacks) > 2 => Requested = 0 /\ Burnt = 0
=============================================================================
