----------------------------- MODULE MCCheckpoint -----------------------------
EXTENDS Checkpoint
=============================================================================
