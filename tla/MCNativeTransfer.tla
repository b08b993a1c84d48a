-------------------------- MODULE MCNativeTransfer --------------------------
(* NativeTransfer on a small instance for TLC.                             *)
EXTENDS NativeTransfer
=============================================================================
