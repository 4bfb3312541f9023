------------------------------- MODULE MCProbe -------------------------------
EXTENDS Probe
=============================================================================
