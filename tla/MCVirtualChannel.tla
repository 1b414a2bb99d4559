--------------------------- MODULE MCVirtualChannel ---------------------------
\* A frame without segmentation whose packet goes on after it, a packet that
\* does not fit in two segments, one that fits in three, and a frame with three
\* packets, of which the last one is left over.
EXTENDS VirtualChannel

Portion(flag, size) == [flag |-> flag, size |-> size, ends |-> << >>]
Blocked(size, ends) == [flag |-> "NO_SEGMENTATION", size |-> size, ends |-> ends]
MCFrames == << Blocked(3, <<4>>), Portion("FIRST_PORTION", 2), Portion("LAST_PORTION", 2),
               Portion("FIRST_PORTION", 1), Portion("CONTINUING_PORTION", 1), Portion("LAST_PORTION", 1),
               Blocked(3, <<1, 2, 3>>) >>
=============================================================================
