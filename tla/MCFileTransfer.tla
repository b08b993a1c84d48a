---------------------------- MODULE MCFileTransfer ----------------------------
(* FileTransfer on a small instance for TLC.                               *)
EXTENDS FileTransfer
=============================================================================
