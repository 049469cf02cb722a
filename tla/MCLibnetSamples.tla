--------------------------- MODULE MCLibnetSamples ---------------------------
EXTENDS LibnetSamples

\* One port; a range and a range to the last port; a range given backwards.
MCPortLists == {<<<<2>>>>, <<<<1, 2>>, <<4, OpenEnd>>>>, <<<<3, 1>>>>, <<<<0, 2>>>>}
=============================================================================
