----------------------------- MODULE NgxEventApi ------------------------------
(***************************************************************************)
(* One event under arbitrary calls of NgxEvent::timeout, next to what its  *)
(* callers are told: "timeout(ms)" gives an event without a timer a        *)
(* deadline, "timeout(ms, true)" replaces the deadline, and                *)
(* "timeout(ngx_nil)" takes it away.  The ghost variable asked holds that  *)
(* deadline, relative to now: {} when there is none.                       *)
(***************************************************************************)
EXTENDS NgxEvent

CONSTANTS
    Timeouts,        \* the delays that callers pass, Nil aside
    Turns,           \* how many milliseconds one turn of the loop may take
    NilOnlyIfArmed   \* TRUE if callers pass Nil only when a timer is set

ASSUME ApiAssumption ==
    /\ Timeouts \subseteq Nat \ {0}
    /\ Turns \subseteq Nat \ {0}
    /\ NilOnlyIfArmed \in BOOLEAN

VARIABLES ev, asked

apiVars == <<ev, asked>>

-------------------------------------------------------------------------------

ApiInit ==
    /\ ev = FreshEvent
    /\ asked = {}

\* A caller sets, or resets, a deadline.
Ask(ms, reset) ==
    /\ ev' = Timeout(ev, ms, reset)
    /\ asked' = IF asked # {} /\ ~reset THEN asked ELSE {ms}

\* A caller cancels.
Cancel(reset) ==
    /\ NilOnlyIfArmed => ev.timer_set
    /\ ev' = Timeout(ev, Nil, reset)
    /\ asked' = {}

\* The loop waits for descriptors, then runs the handlers of due timers.
Turn(k) ==
    /\ ~Due(ev)
    /\ ev' = Elapse(ev, k)
    /\ asked' = {a - k : a \in asked}

Fire ==
    /\ Due(ev)
    /\ ev' = Expire(ev)
    /\ asked' = {}

ApiNext ==
    \/ \E ms \in Timeouts, reset \in BOOLEAN : Ask(ms, reset)
    \/ \E reset \in BOOLEAN : Cancel(reset)
    \/ \E k \in Turns : Turn(k)
    \/ Fire

ApiSpec == ApiInit /\ [][ApiNext]_apiVars

-------------------------------------------------------------------------------

\* What the callers were told and what the timer tree holds agree at every
\* point of every sequence of calls: a timer is armed exactly while a deadline
\* is wanted, and it is due within the lazy delay of that deadline, however
\* many resets nginx has coalesced since the key was last moved.
TimerFollowsCalls ==
    /\ ev.timer_set <=> asked # {}
    /\ \A a \in asked : Gap(a, ev.left) < LazyDelay \/ a = ev.left

\* NgxEvent.hpp:54, "ngx_nil = ngx_del_timer": once a caller has cancelled, no
\* timer is left to fire.
CancelledStaysOff == asked = {} => ~ev.timer_set

===============================================================================
