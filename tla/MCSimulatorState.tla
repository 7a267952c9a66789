------------------------- MODULE MCSimulatorState -------------------------
(* Instantiation of SimulatorState for TLC; constants not given here are  *)
(* model values in the cfg files.                                          *)
EXTENDS SimulatorState

\* Width of a balance: 2^3 in the sequential run, where MaxCalls mints of
\* at most 2 cannot reach it (as 2^64 is out of reach of real supplies).
MCWordWide == 8
MCAmounts == {1, 2}
=============================================================================
