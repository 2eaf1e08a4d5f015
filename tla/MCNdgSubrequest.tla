---------------------------- MODULE MCNdgSubrequest ---------------------------
\* Bodies: none, an empty one, in one chain, in two, with a null chain between.
EXTENDS NdgSubrequest

MCBodies == {<<>>, <<<<>>>>, <<<<1, 2>>>>, <<<<1>>, <<2>>>>, <<<<1>>, <<>>, <<2, 3>>>>}
===============================================================================
