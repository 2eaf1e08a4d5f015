----------------------------- MODULE MCStreamTime -----------------------------
\* Two sessions on one worker.
EXTENDS StreamTime
===============================================================================
