----------------------------- MODULE MCSSTable -----------------------------
EXTENDS SSTableClients
=============================================================================
