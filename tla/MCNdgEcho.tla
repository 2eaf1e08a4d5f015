------------------------------- MODULE MCNdgEcho ------------------------------
\* Lengths that no two sums have in common by accident.
EXTENDS NdgEcho
===============================================================================
