----------------------------- MODULE NdgTestTimer -----------------------------
(***************************************************************************)
(* http/test/NdgTestHandler.hpp on top of NgxTimer: every enabled request  *)
(* ends by calling timer(), which adds timer_call in 2000 ms, and          *)
(* timer_call adds itself again in 1000 ms.  Nothing ever cancels a timer, *)
(* so each request leaves a chain of timers behind that lives as long as   *)
(* the worker.  Other modules use NgxTimer as well, in their handlers and  *)
(* in their callbacks.                                                     *)
(***************************************************************************)
EXTENDS NgxTimer

CONSTANTS
    timer_call,    \* NdgTestHandler's function
    First,         \* 2000 ms
    Again,         \* 1000 ms
    MaxRequests,   \* bound on the requests handled
    MaxOthers      \* bound on the events in use by other modules

ASSUME TestAssumption ==
    /\ timer_call \in Funcs
    /\ First \in Delays \ {Nil}
    /\ Again \in Delays \ {Nil}
    /\ MaxRequests \in Nat
    /\ MaxOthers \in Nat
    /\ MaxRequests + MaxOthers < Cardinality(TimerEvents)

VARIABLES
    handled,    \* the enabled requests that reached timer()
    added       \* whether the running timer_call has added itself again

testVars == <<vars, handled, added>>

TestInit == Init /\ handled = 0 /\ added = FALSE

-------------------------------------------------------------------------------

Running == calling # None /\ m_func[calling] = timer_call

\* NdgTestHandler::handler of an enabled request.  A request that is disabled,
\* or whose earlier steps throw, returns before timer() and changes nothing.
handler ==
    /\ calling = None
    /\ handled < MaxRequests
    /\ add(First, timer_call)
    /\ handled' = handled + 1
    /\ UNCHANGED added

\* The body of NdgTestHandler::timer_call.
timerCall ==
    /\ Running
    /\ ~added
    /\ add(Again, timer_call)
    /\ added' = TRUE
    /\ UNCHANGED handled

\* Any other handler or callback.
otherAdds ==
    /\ ~Running
    /\ Cardinality({e \in InUse : m_func[e] # timer_call}) < MaxOthers
    /\ \E ms \in Delays, f \in Funcs \ {timer_call} : add(ms, f)
    /\ UNCHANGED <<handled, added>>

timerFires ==
    /\ \E e \in TimerEvents : call(e)
    /\ added' = FALSE
    /\ UNCHANGED handled

timerReturns ==
    /\ Running => added
    /\ return
    /\ UNCHANGED <<handled, added>>

TestTick == (\E k \in Steps : Tick(k)) /\ UNCHANGED <<handled, added>>

TestNext ==
    \/ handler
    \/ timerCall
    \/ otherAdds
    \/ timerFires
    \/ timerReturns
    \/ TestTick

\* Handlers finish: timer_call gets to its add, and every callback returns.
TestSpec ==
    /\ TestInit
    /\ [][TestNext]_testVars
    /\ WF_testVars(timerCall)
    /\ WF_testVars(timerFires)
    /\ WF_testVars(timerReturns)
    /\ WF_testVars(TestTick)

-------------------------------------------------------------------------------

Chains ==
    Cardinality({e \in Armed : m_func[e] = timer_call})
        + (IF Running /\ ~added THEN 1 ELSE 0)

\* Each handled request has left exactly one chain: chains neither die out nor
\* multiply, whatever the order in which timers come due.
OneChainPerRequest == Chains = handled

\* The chain a request left is never the last thing the worker forgets: from
\* then on timer_call runs again and again.
ChainsNeverEnd == handled > 0 ~> []<>Running

===============================================================================
