------------------------------- MODULE NgxEvent -------------------------------
(***************************************************************************)
(* The part of nginx's ngx_event_t that ngxpp/NgxEvent.hpp touches, and    *)
(* the wrapper NgxEvent::timeout on top of it.  This module only defines   *)
(* operators on event records; the modules with state extend it.           *)
(*                                                                         *)
(*   ready      the descriptor can be read (or written) without blocking   *)
(*   timedout   the event loop has seen its timer expire (never cleared)   *)
(*   timer_set  the event is a node of the timer tree                      *)
(*   left       timer.key - ngx_current_msec, as a signed difference; it   *)
(*              is kept relative so that the clock needs no bound, and is  *)
(*              0 while timer_set is FALSE                                 *)
(***************************************************************************)
EXTENDS Integers

CONSTANT LazyDelay   \* NGX_TIMER_LAZY_DELAY of nginx, 300 ms

ASSUME LazyDelayAssumption == LazyDelay \in Nat

Events == [ready: BOOLEAN, timedout: BOOLEAN, timer_set: BOOLEAN, left: Int]

\* ngx_nil is -1 in every integer type: as an ngx_msec_t added to the clock it
\* gives the key of the previous millisecond.
Nil == -1

\* ngx_memzero of an event.
FreshEvent ==
    [ready |-> FALSE, timedout |-> FALSE, timer_set |-> FALSE, left |-> 0]

Gap(a, b) == IF a < b THEN b - a ELSE a - b

\* ngx_event_del_timer
DelTimer(ev) == [ev EXCEPT !.timer_set = FALSE, !.left = 0]

\* ngx_event_add_timer: an armed timer is moved only when the new key is at
\* least the lazy delay away from the old one.
AddTimer(ev, ms) ==
    IF ev.timer_set /\ Gap(ms, ev.left) < LazyDelay
    THEN ev
    ELSE [ev EXCEPT !.timer_set = TRUE, !.left = ms]

\* ngx_event_expire_timers on a due node, before it calls the handler.
Due(ev) == ev.timer_set /\ ev.left <= 0

Expire(ev) == [DelTimer(ev) EXCEPT !.timedout = TRUE]

\* k milliseconds pass.
Elapse(ev, k) == IF ev.timer_set THEN [ev EXCEPT !.left = @ - k] ELSE ev

\* Mutants of Timeout: the caller's wish to reset is ignored, or is taken for
\* granted, or the test of timer_set is lost.
TimeoutNeverResets(ev, ms, reset) ==
    IF ev.timer_set
    THEN IF ms = Nil THEN DelTimer(ev) ELSE ev
    ELSE AddTimer(ev, ms)

TimeoutAlwaysResets(ev, ms, reset) ==
    IF ev.timer_set /\ ms = Nil THEN DelTimer(ev) ELSE AddTimer(ev, ms)

TimeoutForgetsNil(ev, ms, reset) ==
    IF ev.timer_set /\ ~reset THEN ev ELSE AddTimer(ev, ms)

\* NgxEvent::timeout
Timeout(ev, ms, reset) ==
    IF ev.timer_set /\ ms = Nil THEN DelTimer(ev)
    ELSE IF ev.timer_set /\ ~reset THEN ev
    ELSE AddTimer(ev, ms)

===============================================================================
