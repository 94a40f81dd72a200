------------------------------ MODULE MCWAL ------------------------------
EXTENDS WAL

\* An empty record, one that leaves a trailer, and one of up to three blocks;
\* with equal bytes a record in the wrong place would not be noticed.
MCRecords == { << >>, <<7, 1>>, <<9, 1, 3, 8, 2, 7, 4, 5, 3>> }

\* Fewer records where writes fail in every place.
MCFaultyRecords == { <<1>>, <<4, 1, 2, 3, 1, 6>> }

=============================================================================
