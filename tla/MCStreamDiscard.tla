--------------------------- MODULE MCStreamDiscard ----------------------------
\* Two sessions on one worker.
EXTENDS StreamDiscard
===============================================================================
