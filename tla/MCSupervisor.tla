---------------------------- MODULE MCSupervisor ----------------------------
\* TLC instance of Supervisor: two callers, two attempts, two outages.
EXTENDS Supervisor
=============================================================================
