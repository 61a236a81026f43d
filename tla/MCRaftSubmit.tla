---------------------------- MODULE MCRaftSubmit ----------------------------
EXTENDS RaftSubmit

Command(id, read, len) == [id |-> id, read |-> read, len |-> len]
Writes == {Command("r1", FALSE, 1), Command("r2", FALSE, 1)}
Mixed == {<<Command("r3", FALSE, 2), Command("r1", FALSE, 1), Command("q", TRUE, 0)>>}

\* Not every bound at once: two crashes or a failed write between two requests.
Effort == used.submits + used.crashes + used.failures <= 4
=============================================================================
