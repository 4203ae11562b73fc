------------------------------ MODULE MCPacer -------------------------------
\* TLC instance of Pacer: a period shorter than the clamp of the correction, and
\* stalls of several periods.
EXTENDS Pacer
=============================================================================
