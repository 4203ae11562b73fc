------------------------ MODULE MCControllerRestart -------------------------
\* TLC instance of ControllerRestart: one caller, one move per run, one rebuild.
EXTENDS ControllerRestart
=============================================================================
