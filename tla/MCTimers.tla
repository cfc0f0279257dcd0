------------------------------ MODULE MCTimers ------------------------------
EXTENDS Timers

MCNoStartup == <<>>

\* Windows that overlap, two that ask for no slack, one due at once.
MCIntervals == {<<0, 0>>, <<1, 3>>, <<2, 0>>, <<3, 4>>}
MCPingInterval == <<2, 3>>
=============================================================================
