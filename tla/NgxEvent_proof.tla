---------------------------- MODULE NgxEvent_proof ----------------------------
(***************************************************************************)
(* What the operators of NgxEvent do to each field of an event.  The       *)
(* proofs about modules with state cite these lemmas and leave the         *)
(* operators folded.                                                       *)
(***************************************************************************)
EXTENDS NgxEvent, TLAPS

\* Writing one field of an event.
LEMMA SetTimer ==
    ASSUME NEW ev \in Events, NEW b \in BOOLEAN
    PROVE  /\ [ev EXCEPT !.timer_set = b] \in Events
           /\ [ev EXCEPT !.timer_set = b].timer_set = b
           /\ [ev EXCEPT !.timer_set = b].left = ev.left
           /\ [ev EXCEPT !.timer_set = b].ready = ev.ready
           /\ [ev EXCEPT !.timer_set = b].timedout = ev.timedout
BY DEF Events

LEMMA SetLeft ==
    ASSUME NEW ev \in Events, NEW n \in Int
    PROVE  /\ [ev EXCEPT !.left = n] \in Events
           /\ [ev EXCEPT !.left = n].left = n
           /\ [ev EXCEPT !.left = n].timer_set = ev.timer_set
           /\ [ev EXCEPT !.left = n].ready = ev.ready
           /\ [ev EXCEPT !.left = n].timedout = ev.timedout
BY DEF Events

LEMMA SetTimedout ==
    ASSUME NEW ev \in Events, NEW b \in BOOLEAN
    PROVE  /\ [ev EXCEPT !.timedout = b] \in Events
           /\ [ev EXCEPT !.timedout = b].timedout = b
           /\ [ev EXCEPT !.timedout = b].timer_set = ev.timer_set
           /\ [ev EXCEPT !.timedout = b].left = ev.left
           /\ [ev EXCEPT !.timedout = b].ready = ev.ready
BY DEF Events

LEMMA SetReady ==
    ASSUME NEW ev \in Events, NEW b \in BOOLEAN
    PROVE  /\ [ev EXCEPT !.ready = b] \in Events
           /\ [ev EXCEPT !.ready = b].ready = b
           /\ [ev EXCEPT !.ready = b].timedout = ev.timedout
           /\ [ev EXCEPT !.ready = b].timer_set = ev.timer_set
           /\ [ev EXCEPT !.ready = b].left = ev.left
BY DEF Events

-------------------------------------------------------------------------------

LEMMA FreshEventFields ==
    /\ FreshEvent \in Events
    /\ ~FreshEvent.ready
    /\ ~FreshEvent.timedout
    /\ ~FreshEvent.timer_set
    /\ FreshEvent.left = 0
<1>1. 0 \in Int
  OBVIOUS
<1> QED
  BY <1>1 DEF FreshEvent, Events

LEMMA DelTimerFields ==
    ASSUME NEW ev \in Events
    PROVE  /\ DelTimer(ev) \in Events
           /\ ~DelTimer(ev).timer_set
           /\ DelTimer(ev).left = 0
           /\ DelTimer(ev).ready = ev.ready
           /\ DelTimer(ev).timedout = ev.timedout
<1> DEFINE a == [ev EXCEPT !.timer_set = FALSE]
<1>1. a \in Events /\ ~a.timer_set /\ a.ready = ev.ready /\ a.timedout = ev.timedout
  BY SetTimer
<1>2. DelTimer(ev) = [a EXCEPT !.left = 0]
  BY Zenon DEF DelTimer
<1> HIDE DEF a
<1>3. 0 \in Int
  OBVIOUS
<1> QED
  BY <1>1, <1>2, <1>3, SetLeft

LEMMA ExpireFields ==
    ASSUME NEW ev \in Events
    PROVE  /\ Expire(ev) \in Events
           /\ ~Expire(ev).timer_set
           /\ Expire(ev).timedout
           /\ Expire(ev).left = 0
           /\ Expire(ev).ready = ev.ready
<1> DEFINE a == DelTimer(ev)
<1>1. a \in Events /\ ~a.timer_set /\ a.left = 0 /\ a.ready = ev.ready
  BY DelTimerFields
<1>2. Expire(ev) = [a EXCEPT !.timedout = TRUE]
  BY Zenon DEF Expire
<1> HIDE DEF a
<1>3. TRUE \in BOOLEAN
  OBVIOUS
<1>4. /\ [a EXCEPT !.timedout = TRUE] \in Events
      /\ [a EXCEPT !.timedout = TRUE].timedout
      /\ [a EXCEPT !.timedout = TRUE].timer_set = a.timer_set
      /\ [a EXCEPT !.timedout = TRUE].left = a.left
      /\ [a EXCEPT !.timedout = TRUE].ready = a.ready
  BY <1>1, <1>3, SetTimedout
<1> QED
  BY <1>1, <1>2, <1>4, Zenon

LEMMA ElapseFields ==
    ASSUME NEW ev \in Events, NEW k \in Int
    PROVE  /\ Elapse(ev, k) \in Events
           /\ Elapse(ev, k).timer_set = ev.timer_set
           /\ Elapse(ev, k).timedout = ev.timedout
           /\ Elapse(ev, k).ready = ev.ready
           /\ Elapse(ev, k).left = IF ev.timer_set THEN ev.left - k ELSE ev.left
<1> DEFINE n == ev.left - k
<1>1. n \in Int
  BY DEF Events
<1>2. CASE ev.timer_set
  <2>1. Elapse(ev, k) = [ev EXCEPT !.left = n]
    BY <1>2, Zenon DEF Elapse
  <2> HIDE DEF n
  <2>2. /\ Elapse(ev, k) \in Events
        /\ Elapse(ev, k).timer_set = ev.timer_set
        /\ Elapse(ev, k).timedout = ev.timedout
        /\ Elapse(ev, k).ready = ev.ready
        /\ Elapse(ev, k).left = n
    BY <1>1, <2>1, SetLeft
  <2> QED
    BY <1>2, <2>2 DEF n
<1>3. CASE ~ev.timer_set
  BY <1>3 DEF Elapse
<1> QED
  BY <1>2, <1>3

\* Whether or not nginx moves an armed timer, it is then due within the lazy
\* delay of what was asked for.
LEMMA AddTimerFields ==
    ASSUME NEW ev \in Events, NEW ms \in Int
    PROVE  /\ AddTimer(ev, ms) \in Events
           /\ AddTimer(ev, ms).timer_set
           /\ AddTimer(ev, ms).timedout = ev.timedout
           /\ AddTimer(ev, ms).ready = ev.ready
           /\ \/ AddTimer(ev, ms).left = ms
              \/ /\ ev.timer_set
                 /\ AddTimer(ev, ms).left = ev.left
                 /\ Gap(ms, ev.left) < LazyDelay
           /\ ~ev.timer_set => AddTimer(ev, ms).left = ms
<1>1. CASE ev.timer_set /\ Gap(ms, ev.left) < LazyDelay
  BY <1>1 DEF AddTimer
<1>2. CASE ~(ev.timer_set /\ Gap(ms, ev.left) < LazyDelay)
  <2> DEFINE a == [ev EXCEPT !.timer_set = TRUE]
  <2>1. a \in Events /\ a.timer_set /\ a.ready = ev.ready /\ a.timedout = ev.timedout
    BY SetTimer
  <2>2. AddTimer(ev, ms) = [a EXCEPT !.left = ms]
    BY <1>2, Zenon DEF AddTimer
  <2> HIDE DEF a
  <2> QED
    BY <2>1, <2>2, SetLeft
<1> QED
  BY <1>1, <1>2

\* The three ways through NgxEvent::timeout.
LEMMA TimeoutCases ==
    ASSUME NEW ev \in Events, NEW ms \in Int, NEW reset \in BOOLEAN
    PROVE  /\ ev.timer_set /\ ms = Nil => Timeout(ev, ms, reset) = DelTimer(ev)
           /\ ev.timer_set /\ ms # Nil /\ ~reset => Timeout(ev, ms, reset) = ev
           /\ ~ev.timer_set \/ (ms # Nil /\ reset)
                => Timeout(ev, ms, reset) = AddTimer(ev, ms)
BY DEF Timeout
===============================================================================
