-------------------------- MODULE MCSerialTaskQueue --------------------------
EXTENDS SerialTaskQueue, TLC
=============================================================================
