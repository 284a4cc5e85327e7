---------------------------- MODULE MCFileTransfer ----------------------------
EXTENDS FileTransfer, TLC

CONSTANTS c1, c2, t1, t2
=============================================================================
