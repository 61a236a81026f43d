------------------------------- MODULE MCWal -------------------------------
EXTENDS Wal
=============================================================================
