---------------------------- MODULE MCGantryAxis ----------------------------
\* TLC instance of GantryAxis: a 5 mm axis of 5 mm per revolution that travels
\* in the negative direction of its motor.
EXTENDS GantryAxis
MCSign   == -1
MCTrack  == -2 .. 0
MCMoves  == {0, 5, 15}
MCShifts == {0, 1}
MCHomeEnds == {-1, 0}
=============================================================================
