--------------------------- MODULE MCConstruction ---------------------------
EXTENDS Construction

AllLengths == 0 .. UsizeMax

SmallAlignments == {0, 3} \cup PowersOfTwo
=============================================================================
