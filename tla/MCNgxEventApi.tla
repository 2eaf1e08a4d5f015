---------------------------- MODULE MCNgxEventApi -----------------------------
\* One event, with delays on both sides of the lazy delay.
EXTENDS NgxEventApi
===============================================================================
