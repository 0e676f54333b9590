------------------------------ MODULE MCPaging ------------------------------
EXTENDS Paging

\* Frame 4, of the first 4MB, is free as well: it is the first to be handed out,
\* as is the frame of the .boot section.
MCReserved == {0, 1, 2, 3, 5}

NewTables == {<<3, 1>>}
DeadTables == {2}

\* What memory that was used can hold: the words of the multiboot header at the
\* heap's first pages, FLAGS, which leads to frame 0, and CHECKSUM, which leads
\* outside the machine; and at the page of Temps one that leads to a frame that
\* can be handed out.
Header == [Empty EXCEPT ![5] = 0, ![0] = HIGH, ![1] = 7]
Words == {Header}
UsedMemory == {[f \in Frame |-> Header]}
=============================================================================
