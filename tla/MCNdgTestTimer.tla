---------------------------- MODULE MCNdgTestTimer ----------------------------
\* One or two requests; the two delays keep their ratio.  ngx_nil is among the
\* delays of other modules, and 0 is not: a callback that adds itself with no
\* delay keeps nginx in the loop over due timers, which no other timer may then
\* get through.
EXTENDS NdgTestTimer

AllDelays == {Nil, 1, 2, 4}
===============================================================================
