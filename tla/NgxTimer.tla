------------------------------- MODULE NgxTimer -------------------------------
(***************************************************************************)
(* ngxpp/NgxTimer.hpp: NgxTimer::add(ms, f) promises to call f once, ms    *)
(* milliseconds from now.  The event that carries the promise comes from   *)
(* pool(), a static deque, or from the heap when the deque is empty; the   *)
(* static handler NgxTimer::call runs the function and pushes the event    *)
(* back.  The callback may itself call add, before its own event is back.  *)
(*                                                                         *)
(* The worker is one thread: a turn of its loop waits (Tick), then expires *)
(* every due timer (Call ... Release), and between those the handlers of   *)
(* other events may call add.                                              *)
(***************************************************************************)
EXTENDS NgxEvent, Sequences, FiniteSets, Functions

CONSTANTS
    TimerEvents,   \* the heap objects: a bound on what boost::factory makes
    Funcs,         \* the boost::function objects callers pass
    Delays,        \* the delays callers pass
    Steps,         \* how long one turn of the loop may take
    None           \* no event

ASSUME TimerAssumption ==
    /\ IsFiniteSet(TimerEvents)
    /\ Delays \subseteq Nat \cup {Nil}
    /\ Steps \subseteq Nat \ {0}
    /\ None \notin TimerEvents
    /\ None \notin Funcs

VARIABLES
    pool,      \* the deque of released events
    made,      \* events that boost::factory has made; none is ever deleted
    m_ev,      \* m_ev of each event
    m_func,    \* m_func of each event
    calling,   \* the event whose handler is running, or None
    parked,    \* ghost: events acquired with ngx_nil, which nothing fires
    owed,      \* ghost: calls still owed to each function
    peak       \* ghost: the most events that were in use at one time

vars == <<pool, made, m_ev, m_func, calling, parked, owed, peak>>

-------------------------------------------------------------------------------

Pooled == Range(pool)

Armed == {e \in made : m_ev[e].timer_set}

InUse == Armed \cup parked \cup ({calling} \ {None})

Init ==
    /\ pool = <<>>
    /\ made = {}
    /\ m_ev = [e \in TimerEvents |-> FreshEvent]
    /\ m_func = [e \in TimerEvents |-> None]
    /\ calling = None
    /\ parked = {}
    /\ owed = [f \in Funcs |-> 0]
    /\ peak = 0

-------------------------------------------------------------------------------
\* Acquire and release.

\* Mutants: the event stays in the deque; the deque is not looked at.
acquireKeeps(e) ==
    \/ /\ pool = <<>>
       /\ e \in TimerEvents \ made
       /\ made' = made \cup {e}
       /\ UNCHANGED pool
    \/ /\ pool # <<>>
       /\ e = Head(pool)
       /\ UNCHANGED <<pool, made>>

acquireFresh(e) ==
    /\ e \in TimerEvents \ made
    /\ made' = made \cup {e}
    /\ UNCHANGED pool

acquire(e) ==
    \/ /\ pool = <<>>
       /\ e \in TimerEvents \ made
       /\ made' = made \cup {e}
       /\ UNCHANGED pool
    \/ /\ pool # <<>>
       /\ e = Head(pool)
       /\ pool' = Tail(pool)
       /\ UNCHANGED made

\* Mutant: the event is not pushed back.
releaseForgets(e) == UNCHANGED pool

release(e) == pool' = Append(pool, e)

\* Mutants of init: ngx_nil is not looked for; the timer is never started.
initStartsAnyway(e, f, ms) ==
    /\ m_func' = [m_func EXCEPT ![e] = f]
    /\ m_ev' = [m_ev EXCEPT ![e] = AddTimer(FreshEvent, ms)]

initNeverStarts(e, f, ms) ==
    /\ m_func' = [m_func EXCEPT ![e] = f]
    /\ m_ev' = [m_ev EXCEPT ![e] = FreshEvent]

\* NgxTimerEv::init
init(e, f, ms) ==
    /\ m_func' = [m_func EXCEPT ![e] = f]
    /\ m_ev' = [m_ev EXCEPT ![e] =
                    IF ms = Nil THEN FreshEvent ELSE AddTimer(FreshEvent, ms)]

\* NgxTimer::add, from a callback or from any other handler of the worker.
add(ms, f) ==
    \E e \in TimerEvents :
        /\ acquire(e)
        /\ init(e, f, ms)
        /\ IF ms = Nil
           THEN parked' = parked \cup {e} /\ UNCHANGED owed
           ELSE owed' = [owed EXCEPT ![f] = @ + 1] /\ UNCHANGED parked
        /\ LET used == Cardinality(InUse \cup {e})
           IN  peak' = IF used > peak THEN used ELSE peak
        /\ UNCHANGED calling

-------------------------------------------------------------------------------
\* The event loop.

\* ngx_event_expire_timers takes the due node with the smallest key and calls
\* its handler, NgxTimer::call, which calls e().
Fires(e) ==
    /\ calling = None
    /\ Due(m_ev[e])
    /\ \A x \in Armed : m_ev[e].left <= m_ev[x].left

\* Mutant of call: the event is released before e() runs.
callReleasesFirst(e) ==
    /\ e \in made
    /\ Fires(e)
    /\ m_ev' = [m_ev EXCEPT ![e] = Expire(m_ev[e])]
    /\ calling' = e
    /\ pool' = Append(pool, e)
    /\ owed' = [owed EXCEPT ![m_func[e]] = @ - 1]
    /\ UNCHANGED <<made, m_func, parked, peak>>

call(e) ==
    /\ e \in made
    /\ Fires(e)
    /\ m_ev' = [m_ev EXCEPT ![e] = Expire(m_ev[e])]
    /\ calling' = e
    \* operator() calls m_func only after the timer has expired.
    /\ owed' = IF m_ev'[e].timedout
               THEN [owed EXCEPT ![m_func[e]] = @ - 1]
               ELSE owed
    /\ UNCHANGED <<pool, made, m_func, parked, peak>>

\* Mutant of return: the event is forgotten before it is released.
returnForgetsFirst ==
    /\ calling # None
    /\ calling' = None
    /\ pool' = Append(pool, calling')
    /\ UNCHANGED <<made, m_ev, m_func, parked, owed, peak>>

\* e() has returned: NgxTimer::call releases the event.
return ==
    /\ calling # None
    /\ release(calling)
    /\ calling' = None
    /\ UNCHANGED <<made, m_ev, m_func, parked, owed, peak>>

\* The loop waits again once no timer is due.
Tick(k) ==
    /\ calling = None
    /\ \A e \in made : ~Due(m_ev[e])
    /\ m_ev' = [e \in TimerEvents |-> Elapse(m_ev[e], k)]
    /\ UNCHANGED <<pool, made, m_func, calling, parked, owed, peak>>

Next ==
    \/ \E ms \in Delays, f \in Funcs : add(ms, f)
    \/ \E e \in TimerEvents : call(e)
    \/ return
    \/ \E k \in Steps : Tick(k)

Spec == Init /\ [][Next]_vars

-------------------------------------------------------------------------------

TypeOK ==
    /\ pool \in Seq(TimerEvents)
    /\ made \in SUBSET TimerEvents
    /\ m_ev \in [TimerEvents -> Events]
    /\ m_func \in [TimerEvents -> Funcs \cup {None}]
    /\ calling \in TimerEvents \cup {None}
    /\ parked \in SUBSET TimerEvents
    /\ owed \in [Funcs -> Int]
    /\ peak \in Nat

\* An event in the deque is in nobody's hands: it is not in the timer tree, its
\* handler is not running, nobody parked it, and it is in the deque only once.
\* acquire hands it out, and init zeroes it, on the strength of this.
PoolIsIdle ==
    /\ IsInjective(pool)
    /\ Pooled \cap InUse = {}

\* Every event that was ever made is in the deque or in use: none is lost.
NothingLost == made = Pooled \cup InUse

\* A function is owed exactly the calls whose timers are in the tree: no add is
\* forgotten, none is answered twice, and no event carries another's function.
PromisesInTree ==
    \A f \in Funcs : owed[f] = Cardinality({e \in Armed : m_func[e] = f})

\* The heap is asked for an event only when all those there are are in use.
MadeIsPeak == Cardinality(made) = peak

\* The ways of being in use exclude one another, and an armed event has a
\* function to call.
UsesApart ==
    /\ Armed \cap parked = {}
    /\ calling \notin Armed \cup parked
    /\ \A e \in Armed : m_func[e] \in Funcs

\* The inductive invariant.
IInv ==
    /\ TypeOK
    /\ PoolIsIdle
    /\ NothingLost
    /\ UsesApart
    /\ PromisesInTree
    /\ MadeIsPeak

\* An event never changes its function while it is armed or its handler runs,
\* so the boost::function being executed is never assigned from inside itself.
FuncStableInUse ==
    [][\A e \in TimerEvents : e \in InUse => m_func'[e] = m_func[e]]_vars

\* A promised call is made.
PromiseKept ==
    \A f \in Funcs : owed[f] > 0 ~> (calling # None /\ m_func[calling] = f)

===============================================================================
