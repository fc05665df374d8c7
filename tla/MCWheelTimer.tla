---------------------------- MODULE MCWheelTimer ----------------------------
(* Small instances of WheelTimer.                                          *)
EXTENDS WheelTimer, TLC

\* after(), every(1) with two firings, and every(2), whose period is -1.
Short == {<<0, 0>>, <<1, 2>>, <<2, -1>>}
\* every() with an interval as long as a turn of the first wheel.
Turn == {<<Count, 2>>}

Symmetry == Permutations(Timers)
=============================================================================
