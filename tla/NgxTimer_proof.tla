---------------------------- MODULE NgxTimer_proof ----------------------------
(***************************************************************************)
(* Proofs about the timer of one event, about the timer pool and about     *)
(* http/test on top of it.  For NgxEventApi: what callers ask for is what  *)
(* the timer tree holds, for any delays, turns and lazy delay.  For        *)
(* NgxTimer: the inductive invariant IInv for any set of events, functions *)
(* and delays, and what follows from it.  For NdgTestTimer: it is one of   *)
(* the uses of the pool that NgxTimer allows, and it keeps one chain of    *)
(* timers per request.                                                     *)
(***************************************************************************)
EXTENDS NdgTestTimer, NgxEventApi, NgxEvent_proof, FiniteSetTheorems, SequenceTheorems

\* pop_front of a deque without duplicates takes its first element out of it.
LEMMA PopFront ==
    ASSUME NEW S, NEW s \in Seq(S), s # <<>>, IsInjective(s)
    PROVE  /\ Head(s) \in Range(s)
           /\ Tail(s) \in Seq(S)
           /\ IsInjective(Tail(s))
           /\ Range(Tail(s)) = Range(s) \ {Head(s)}
<1>1. /\ Len(s) \in Nat \ {0}
      /\ DOMAIN s = 1 .. Len(s)
      /\ Head(s) = s[1]
  BY EmptySeq, LenProperties
<1>2. /\ Tail(s) \in Seq(S)
      /\ Len(Tail(s)) = Len(s) - 1
      /\ DOMAIN Tail(s) = 1 .. (Len(s) - 1)
      /\ \A i \in 1 .. (Len(s) - 1) : Tail(s)[i] = s[i + 1]
  BY HeadTailProperties, LenProperties
<1>3. Head(s) \in Range(s)
  BY <1>1 DEF Range
<1>4. IsInjective(Tail(s))
  <2>1. SUFFICES ASSUME NEW i \in 1 .. (Len(s) - 1), NEW j \in 1 .. (Len(s) - 1),
                        Tail(s)[i] = Tail(s)[j]
                 PROVE  i = j
    BY <1>2 DEF IsInjective
  <2>2. s[i + 1] = s[j + 1]
    BY <1>2, <2>1
  <2>3. i + 1 \in DOMAIN s /\ j + 1 \in DOMAIN s
    BY <1>1
  <2>4. i + 1 = j + 1
    BY <2>2, <2>3 DEF IsInjective
  <2> QED
    BY <2>4
<1>5. Range(Tail(s)) \subseteq Range(s) \ {Head(s)}
  <2>1. SUFFICES ASSUME NEW i \in 1 .. (Len(s) - 1)
                 PROVE  Tail(s)[i] \in Range(s) /\ Tail(s)[i] # Head(s)
    BY <1>2 DEF Range
  <2>2. Tail(s)[i] = s[i + 1] /\ i + 1 \in DOMAIN s /\ 1 \in DOMAIN s /\ i + 1 # 1
    BY <1>1, <1>2
  <2> QED
    BY <1>1, <2>2 DEF Range, IsInjective
<1>6. Range(s) \ {Head(s)} \subseteq Range(Tail(s))
  <2>1. SUFFICES ASSUME NEW i \in 1 .. Len(s), s[i] # Head(s)
                 PROVE  s[i] \in Range(Tail(s))
    BY <1>1 DEF Range
  <2>2. i # 1
    BY <1>1, <2>1
  <2>3. i - 1 \in DOMAIN Tail(s) /\ Tail(s)[i - 1] = s[i]
    BY <1>1, <1>2, <2>2
  <2> QED
    BY <2>3 DEF Range
<1> QED
  BY <1>2, <1>3, <1>4, <1>5, <1>6

\* push_back of an element that is not in the deque keeps it without duplicates.
LEMMA PushBack ==
    ASSUME NEW S, NEW s \in Seq(S), NEW x \in S, x \notin Range(s), IsInjective(s)
    PROVE  /\ Append(s, x) \in Seq(S)
           /\ IsInjective(Append(s, x))
           /\ Range(Append(s, x)) = Range(s) \cup {x}
<1> DEFINE t == Append(s, x)
<1>1. /\ Len(s) \in Nat
      /\ DOMAIN s = 1 .. Len(s)
      /\ t \in Seq(S)
      /\ DOMAIN t = 1 .. (Len(s) + 1)
      /\ \A i \in 1 .. Len(s) : t[i] = s[i]
      /\ t[Len(s) + 1] = x
  BY AppendProperties, LenProperties
<1>2. IsInjective(t)
  <2>1. SUFFICES ASSUME NEW i \in 1 .. (Len(s) + 1), NEW j \in 1 .. (Len(s) + 1),
                        t[i] = t[j], i # j
                 PROVE  FALSE
    BY <1>1 DEF IsInjective
  <2>2. CASE i \in 1 .. Len(s) /\ j \in 1 .. Len(s)
    BY <1>1, <2>1, <2>2 DEF IsInjective
  <2>3. CASE i = Len(s) + 1
    BY <1>1, <2>1, <2>3 DEF Range
  <2>4. CASE j = Len(s) + 1
    BY <1>1, <2>1, <2>4 DEF Range
  <2> QED
    BY <1>1, <2>2, <2>3, <2>4
<1>3. Range(t) = Range(s) \cup {x}
  <2>1. \A i \in 1 .. (Len(s) + 1) : t[i] \in Range(s) \cup {x}
    BY <1>1 DEF Range
  <2>2. \A i \in 1 .. Len(s) : s[i] \in Range(t)
    BY <1>1 DEF Range
  <2>3. x \in Range(t)
    BY <1>1 DEF Range
  <2> QED
    BY <1>1, <2>1, <2>2, <2>3 DEF Range
<1> QED
  BY <1>1, <1>2, <1>3

-------------------------------------------------------------------------------

\* The event that acquire hands out is in nobody's hands, and leaves the deque.
LEMMA AcquireIdle ==
    ASSUME IInv, NEW e \in TimerEvents, acquire(e)
    PROVE  /\ e \notin InUse
           /\ pool' \in Seq(TimerEvents)
           /\ IsInjective(pool')
           /\ Range(pool') = Pooled \ {e}
           /\ made' = made \cup {e}
           /\ e \notin made => Pooled = {}
<1> USE TimerAssumption
<1>1. CASE pool = <<>> /\ e \in TimerEvents \ made /\ made' = made \cup {e} /\ UNCHANGED pool
  <2>1. Range(pool) = {}
    BY <1>1 DEF Range
  <2>2. e \notin InUse
    BY <1>1 DEF IInv, NothingLost
  <2> QED
    BY <1>1, <2>1, <2>2 DEF IInv, TypeOK, PoolIsIdle, Pooled
<1>2. CASE pool # <<>> /\ e = Head(pool) /\ pool' = Tail(pool) /\ UNCHANGED made
  <2>1. pool \in Seq(TimerEvents) /\ IsInjective(pool)
    BY DEF IInv, TypeOK, PoolIsIdle
  <2>2. /\ e \in Pooled
        /\ pool' \in Seq(TimerEvents)
        /\ IsInjective(pool')
        /\ Range(pool') = Pooled \ {e}
    BY <1>2, <2>1, PopFront DEF Pooled
  <2>3. e \in made /\ e \notin InUse
    BY <2>2 DEF IInv, NothingLost, PoolIsIdle
  <2> QED
    BY <1>2, <2>2, <2>3
<1> QED
  BY <1>1, <1>2 DEF acquire

\* Whatever the delay, init leaves a fresh event, armed unless it is ngx_nil.
LEMMA InitArms ==
    ASSUME IInv, NEW e \in TimerEvents, NEW f \in Funcs, NEW ms \in Delays,
           init(e, f, ms)
    PROVE  /\ m_ev' \in [TimerEvents -> Events]
           /\ m_func' \in [TimerEvents -> Funcs \cup {None}]
           /\ m_ev'[e].timer_set <=> ms # Nil
           /\ m_func'[e] = f
           /\ \A x \in TimerEvents \ {e} : m_ev'[x] = m_ev[x] /\ m_func'[x] = m_func[x]
<1>1. ms \in Int
  BY TimerAssumption DEF Nil
<1>2. m_ev \in [TimerEvents -> Events] /\ m_func \in [TimerEvents -> Funcs \cup {None}]
  BY DEF IInv, TypeOK
<1>3. FreshEvent \in Events /\ AddTimer(FreshEvent, ms) \in Events
  BY <1>1, FreshEventFields, AddTimerFields
<1>4. ~FreshEvent.timer_set /\ AddTimer(FreshEvent, ms).timer_set
  BY <1>1, FreshEventFields, AddTimerFields
<1>5. m_ev'[e] = IF ms = Nil THEN FreshEvent ELSE AddTimer(FreshEvent, ms)
  BY <1>2 DEF init
<1> QED
  BY <1>2, <1>3, <1>4, <1>5 DEF init

\* Sets of events are finite.
LEMMA EventsFinite ==
    ASSUME NEW S \in SUBSET TimerEvents
    PROVE  IsFiniteSet(S) /\ Cardinality(S) \in Nat
BY FS_Subset, FS_CardinalityType, TimerAssumption

LEMMA ArmedSubset == Armed \subseteq made
BY DEF Armed

LEMMA AddStep ==
    ASSUME IInv, NEW ms \in Delays, NEW f \in Funcs, add(ms, f)
    PROVE  IInv'
<1> USE TimerAssumption
<1>1. PICK e \in TimerEvents :
        /\ acquire(e)
        /\ init(e, f, ms)
        /\ IF ms = Nil
           THEN parked' = parked \cup {e} /\ UNCHANGED owed
           ELSE owed' = [owed EXCEPT ![f] = @ + 1] /\ UNCHANGED parked
        /\ LET used == Cardinality(InUse \cup {e})
           IN  peak' = IF used > peak THEN used ELSE peak
        /\ UNCHANGED calling
  BY DEF add
<1>2. /\ e \notin InUse
      /\ pool' \in Seq(TimerEvents)
      /\ IsInjective(pool')
      /\ Range(pool') = Pooled \ {e}
      /\ made' = made \cup {e}
      /\ e \notin made => Pooled = {}
  BY <1>1, AcquireIdle
<1>3. /\ m_ev' \in [TimerEvents -> Events]
      /\ m_func' \in [TimerEvents -> Funcs \cup {None}]
      /\ m_ev'[e].timer_set <=> ms # Nil
      /\ m_func'[e] = f
      /\ \A x \in TimerEvents \ {e} : m_ev'[x] = m_ev[x] /\ m_func'[x] = m_func[x]
  BY <1>1, InitArms
<1>4. made \subseteq TimerEvents /\ parked \subseteq TimerEvents /\ InUse \subseteq made
  BY DEF IInv, TypeOK, NothingLost
<1>5. Armed' = IF ms = Nil THEN Armed ELSE Armed \cup {e}
  BY <1>2, <1>3, <1>4 DEF Armed, InUse
<1>6. InUse' = InUse \cup {e}
  BY <1>1, <1>5 DEF InUse
<1>7. e \notin Armed /\ e \notin parked /\ (calling # None => calling # e)
  BY <1>2 DEF InUse
<1>8. PoolIsIdle' /\ NothingLost'
  BY <1>2, <1>6 DEF IInv, PoolIsIdle, NothingLost, Pooled
<1>9. UsesApart'
  <2>1. Armed' \cap parked' = {}
    BY <1>1, <1>5, <1>7 DEF IInv, UsesApart
  <2>2. calling' \notin Armed' \cup parked'
    BY <1>1, <1>5, <1>7 DEF IInv, UsesApart
  <2>3. \A x \in Armed' : m_func'[x] \in Funcs
    BY <1>3, <1>4, <1>5, ArmedSubset DEF IInv, UsesApart
  <2> QED
    BY <2>1, <2>2, <2>3 DEF UsesApart
<1>10. PromisesInTree'
  <2> DEFINE Holds(g) == {x \in Armed : m_func[x] = g}
  <2>1. SUFFICES ASSUME NEW g \in Funcs
                 PROVE  owed'[g] = Cardinality({x \in Armed' : m_func'[x] = g})
    BY DEF PromisesInTree
  <2>2. owed \in [Funcs -> Int] /\ owed[g] = Cardinality(Holds(g))
    BY DEF IInv, TypeOK, PromisesInTree
  <2>3. IsFiniteSet(Holds(g)) /\ e \notin Holds(g)
    BY <1>4, <1>7, EventsFinite, ArmedSubset
  <2>4. {x \in Armed' : m_func'[x] = g} =
          IF ms # Nil /\ g = f THEN Holds(g) \cup {e} ELSE Holds(g)
    BY <1>3, <1>4, <1>5, <1>7, ArmedSubset
  <2>5. owed'[g] = IF ms # Nil /\ g = f THEN owed[g] + 1 ELSE owed[g]
    BY <1>1, <2>2
  <2>6. CASE ms # Nil /\ g = f
    <3>1. Cardinality(Holds(g) \cup {e}) = Cardinality(Holds(g)) + 1
      BY <2>3, FS_AddElement
    <3> HIDE DEF Holds
    <3> QED
      BY <2>2, <2>4, <2>5, <2>6, <3>1
  <2>7. CASE ~(ms # Nil /\ g = f)
    <3> HIDE DEF Holds
    <3> QED
      BY <2>2, <2>4, <2>5, <2>7
  <2> QED
    BY <2>6, <2>7
<1>11. MadeIsPeak' /\ peak' \in Nat
  <2>1. Cardinality(made) = peak /\ Cardinality(made) \in Nat /\ IsFiniteSet(made)
    BY <1>4, EventsFinite DEF IInv, MadeIsPeak
  <2>2. CASE e \in made
    <3>1. made' = made /\ InUse \cup {e} \in SUBSET made
      BY <1>2, <1>4, <2>2
    <3>2. /\ Cardinality(InUse \cup {e}) <= Cardinality(made)
          /\ Cardinality(InUse \cup {e}) \in Nat
      BY <1>4, <2>1, <3>1, FS_Subset, EventsFinite
    <3>3. peak' = peak
      BY <1>1, <2>1, <3>2
    <3> QED
      BY <2>1, <3>1, <3>3 DEF MadeIsPeak
  <2>3. CASE e \notin made
    <3>1. made = InUse /\ made' = InUse \cup {e}
      BY <1>2, <2>3 DEF IInv, NothingLost
    <3>2. Cardinality(made') = peak + 1
      BY <1>2, <2>1, <2>3, FS_AddElement
    <3>3. peak' = peak + 1
      BY <1>1, <2>1, <3>1, <3>2
    <3> QED
      BY <2>1, <3>2, <3>3 DEF MadeIsPeak
  <2> QED
    BY <2>2, <2>3
<1>12. TypeOK'
  <2>1. owed' \in [Funcs -> Int]
    BY <1>1 DEF IInv, TypeOK
  <2>2. parked' \in SUBSET TimerEvents /\ calling' \in TimerEvents \cup {None}
    BY <1>1 DEF IInv, TypeOK
  <2>3. made' \in SUBSET TimerEvents
    BY <1>2, <1>4
  <2> QED
    BY <1>2, <1>3, <1>11, <2>1, <2>2, <2>3 DEF TypeOK
<1> QED
  BY <1>8, <1>9, <1>10, <1>11, <1>12 DEF IInv

LEMMA CallStep ==
    ASSUME IInv, NEW e \in TimerEvents, call(e)
    PROVE  IInv'
<1> USE TimerAssumption
<1>1. /\ e \in made
      /\ calling = None
      /\ Due(m_ev[e])
      /\ m_ev' = [m_ev EXCEPT ![e] = Expire(m_ev[e])]
      /\ calling' = e
      /\ owed' = IF m_ev'[e].timedout
                 THEN [owed EXCEPT ![m_func[e]] = @ - 1]
                 ELSE owed
      /\ UNCHANGED <<pool, made, m_func, parked, peak>>
  BY DEF call, Fires
<1>2. /\ m_ev \in [TimerEvents -> Events]
      /\ owed \in [Funcs -> Int]
      /\ made \subseteq TimerEvents
  BY DEF IInv, TypeOK
<1>3. Expire(m_ev[e]) \in Events /\ ~Expire(m_ev[e]).timer_set /\ Expire(m_ev[e]).timedout
  BY <1>2, ExpireFields
<1>4. /\ m_ev' \in [TimerEvents -> Events]
      /\ ~m_ev'[e].timer_set
      /\ m_ev'[e].timedout
      /\ \A x \in TimerEvents \ {e} : m_ev'[x] = m_ev[x]
  BY <1>1, <1>2, <1>3
<1>5. e \in Armed
  BY <1>1 DEF Armed, Due
<1>6. Armed' = Armed \ {e}
  BY <1>1, <1>2, <1>4 DEF Armed
<1>7. m_func[e] \in Funcs
  BY <1>5 DEF IInv, UsesApart
<1>8. owed' = [owed EXCEPT ![m_func[e]] = @ - 1]
  BY <1>1, <1>4
<1>9. InUse' = InUse
  BY <1>1, <1>5, <1>6 DEF InUse
<1>10. TypeOK'
  BY <1>1, <1>2, <1>4, <1>7, <1>8 DEF IInv, TypeOK
<1>11. PoolIsIdle' /\ NothingLost' /\ MadeIsPeak'
  BY <1>1, <1>9 DEF IInv, PoolIsIdle, NothingLost, MadeIsPeak, Pooled
<1>12. UsesApart'
  BY <1>1, <1>5, <1>6 DEF IInv, UsesApart
<1>13. PromisesInTree'
  <2> DEFINE Holds(g) == {x \in Armed : m_func[x] = g}
  <2>1. SUFFICES ASSUME NEW g \in Funcs
                 PROVE  owed'[g] = Cardinality({x \in Armed' : m_func'[x] = g})
    BY DEF PromisesInTree
  <2>2. owed[g] = Cardinality(Holds(g))
    BY DEF IInv, PromisesInTree
  <2>3. IsFiniteSet(Holds(g))
    BY <1>2, EventsFinite, ArmedSubset
  <2>4. {x \in Armed' : m_func'[x] = g} = Holds(g) \ {e}
    BY <1>1, <1>6
  <2>5. e \in Holds(g) <=> g = m_func[e]
    BY <1>5
  <2>6. owed'[g] = IF g = m_func[e] THEN owed[g] - 1 ELSE owed[g]
    BY <1>2, <1>7, <1>8
  <2>7. Cardinality(Holds(g) \ {e}) =
          IF e \in Holds(g) THEN Cardinality(Holds(g)) - 1 ELSE Cardinality(Holds(g))
    BY <2>3, FS_RemoveElement
  <2> HIDE DEF Holds
  <2> QED
    BY <2>2, <2>4, <2>5, <2>6, <2>7
<1> QED
  BY <1>10, <1>11, <1>12, <1>13 DEF IInv

LEMMA ReturnStep ==
    ASSUME IInv, return
    PROVE  IInv'
<1> USE TimerAssumption
<1>1. /\ calling # None
      /\ pool' = Append(pool, calling)
      /\ calling' = None
      /\ UNCHANGED <<made, m_ev, m_func, parked, owed, peak>>
  BY DEF return, release
<1>2. /\ calling \in TimerEvents
      /\ calling \in InUse
      /\ pool \in Seq(TimerEvents)
      /\ IsInjective(pool)
      /\ calling \notin Range(pool)
  BY <1>1 DEF IInv, TypeOK, PoolIsIdle, InUse, Pooled
<1>3. /\ pool' \in Seq(TimerEvents)
      /\ IsInjective(pool')
      /\ Range(pool') = Range(pool) \cup {calling}
  BY <1>1, <1>2, PushBack
<1>4. Armed' = Armed
  BY <1>1 DEF Armed
<1>5. InUse' = InUse \ {calling}
  BY <1>1, <1>4 DEF InUse, IInv, UsesApart
<1>6. TypeOK'
  BY <1>1, <1>3 DEF IInv, TypeOK
<1>7. PoolIsIdle' /\ NothingLost'
  BY <1>1, <1>2, <1>3, <1>5 DEF IInv, PoolIsIdle, NothingLost, Pooled
<1>8. None \notin Armed \cup parked
  BY ArmedSubset DEF IInv, TypeOK
<1>9. UsesApart' /\ PromisesInTree' /\ MadeIsPeak'
  BY <1>1, <1>4, <1>8 DEF IInv, UsesApart, PromisesInTree, MadeIsPeak
<1> QED
  BY <1>6, <1>7, <1>9 DEF IInv

LEMMA TickStep ==
    ASSUME IInv, NEW k \in Steps, Tick(k)
    PROVE  IInv'
<1> USE TimerAssumption
<1>1. /\ m_ev' = [e \in TimerEvents |-> Elapse(m_ev[e], k)]
      /\ UNCHANGED <<pool, made, m_func, calling, parked, owed, peak>>
  BY DEF Tick
<1>2. m_ev \in [TimerEvents -> Events] /\ made \subseteq TimerEvents /\ k \in Int
  BY DEF IInv, TypeOK
<1>3. \A e \in TimerEvents : /\ m_ev'[e] \in Events
                             /\ m_ev'[e].timer_set = m_ev[e].timer_set
  BY <1>1, <1>2, ElapseFields
<1>4. m_ev' \in [TimerEvents -> Events]
  BY <1>1, <1>3
<1>5. Armed' = Armed
  BY <1>1, <1>2, <1>3 DEF Armed
<1>6. InUse' = InUse
  BY <1>1, <1>5 DEF InUse
<1> QED
  BY <1>1, <1>4, <1>5, <1>6
     DEF IInv, TypeOK, PoolIsIdle, NothingLost, UsesApart, PromisesInTree, MadeIsPeak, Pooled

-------------------------------------------------------------------------------

LEMMA InitIInv == Init => IInv
<1> SUFFICES ASSUME Init PROVE IInv
  OBVIOUS
<1> USE TimerAssumption
<1>1. Armed = {} /\ InUse = {} /\ Pooled = {}
  BY DEF Init, Armed, InUse, Pooled, Range
<1>2. TypeOK
  <2>1. <<>> \in Seq(TimerEvents)
    BY EmptySeq
  <2> QED
    BY <2>1, FreshEventFields DEF Init, TypeOK
<1>3. PoolIsIdle /\ NothingLost /\ UsesApart
  BY <1>1 DEF Init, PoolIsIdle, NothingLost, UsesApart, IsInjective
<1>4. PromisesInTree
  <2>1. \A f \in Funcs : {e \in Armed : m_func[e] = f} = {}
    BY <1>1
  <2> QED
    BY <2>1, FS_EmptySet DEF Init, PromisesInTree
<1>5. MadeIsPeak
  BY FS_EmptySet DEF Init, MadeIsPeak
<1> QED
  BY <1>2, <1>3, <1>4, <1>5 DEF IInv

LEMMA NextIInv == IInv /\ [Next]_vars => IInv'
<1> SUFFICES ASSUME IInv, [Next]_vars PROVE IInv'
  OBVIOUS
<1>1. ASSUME NEW ms \in Delays, NEW f \in Funcs, add(ms, f) PROVE IInv'
  BY <1>1, AddStep
<1>2. ASSUME NEW e \in TimerEvents, call(e) PROVE IInv'
  BY <1>2, CallStep
<1>3. CASE return
  BY <1>3, ReturnStep
<1>4. ASSUME NEW k \in Steps, Tick(k) PROVE IInv'
  BY <1>4, TickStep
<1>5. CASE UNCHANGED vars
  BY <1>5 DEF vars, IInv, TypeOK, PoolIsIdle, NothingLost, UsesApart, PromisesInTree,
              MadeIsPeak, Armed, InUse, Pooled
<1> QED
  BY <1>1, <1>2, <1>3, <1>4, <1>5 DEF Next

\* IInv is an invariant of NgxTimer (NgxTimer.hpp:91-143), however many events
\* the heap provides and whatever functions and delays are passed to add.
THEOREM TimerInvariant == Spec => []IInv
BY InitIInv, NextIInv, PTL DEF Spec

\* Types.
THEOREM TimerTypeOK == Spec => []TypeOK
<1>1. IInv => TypeOK
  BY DEF IInv
<1> QED
  BY <1>1, TimerInvariant, PTL

\* No event of the deque is armed, running or parked, and none is there twice.
THEOREM TimerPoolIsIdle == Spec => []PoolIsIdle
<1>1. IInv => PoolIsIdle
  BY DEF IInv
<1> QED
  BY <1>1, TimerInvariant, PTL

\* Every event ever made is in the deque or in use.
THEOREM TimerNothingLost == Spec => []NothingLost
<1>1. IInv => NothingLost
  BY DEF IInv
<1> QED
  BY <1>1, TimerInvariant, PTL

\* Every function is owed exactly as many calls as there are timers that will
\* call it.
THEOREM TimerPromisesInTree == Spec => []PromisesInTree
<1>1. IInv => PromisesInTree
  BY DEF IInv
<1> QED
  BY <1>1, TimerInvariant, PTL

\* As many events are made as were ever in use together.
THEOREM TimerMadeIsPeak == Spec => []MadeIsPeak
<1>1. IInv => MadeIsPeak
  BY DEF IInv
<1> QED
  BY <1>1, TimerInvariant, PTL

\* The function of an event that is armed or running is never assigned, not
\* even by an add from inside the callback that the event is running.
THEOREM TimerFuncStable == Spec => FuncStableInUse
<1> DEFINE Stable == \A e \in TimerEvents : e \in InUse => m_func'[e] = m_func[e]
<1>1. IInv /\ [Next]_vars => [Stable]_vars
  <2> SUFFICES ASSUME IInv, Next PROVE Stable
    BY DEF vars
  <2>1. ASSUME NEW ms \in Delays, NEW f \in Funcs, add(ms, f) PROVE Stable
    <3>1. PICK e \in TimerEvents : acquire(e) /\ init(e, f, ms)
      BY <2>1 DEF add
    <3>2. e \notin InUse
      BY <3>1, AcquireIdle
    <3>3. \A x \in TimerEvents \ {e} : m_func'[x] = m_func[x]
      BY <3>1, InitArms
    <3> QED
      BY <3>2, <3>3
  <2>2. ASSUME NEW e \in TimerEvents, call(e) PROVE Stable
    BY <2>2 DEF call
  <2>3. CASE return
    BY <2>3 DEF return
  <2>4. ASSUME NEW k \in Steps, Tick(k) PROVE Stable
    BY <2>4 DEF Tick
  <2> QED
    BY <2>1, <2>2, <2>3, <2>4 DEF Next
<1> QED
  BY <1>1, TimerInvariant, PTL DEF Spec, FuncStableInUse

-------------------------------------------------------------------------------
\* http/test.

\* The chains, counted by the calls that timer_call is owed.
Links == owed[timer_call] + (IF Running /\ ~added THEN 1 ELSE 0)

LinksCount == handled \in Nat /\ added \in BOOLEAN /\ Links = handled

\* A step of http/test, or of a module beside it, is a step of the pool.
LEMMA TestStep == [TestNext]_testVars => [Next]_vars
<1> SUFFICES ASSUME [TestNext]_testVars PROVE [Next]_vars
  OBVIOUS
<1>1. CASE handler
  BY <1>1, TestAssumption DEF handler, Next
<1>2. CASE timerCall
  BY <1>2, TestAssumption DEF timerCall, Next
<1>3. CASE otherAdds
  BY <1>3 DEF otherAdds, Next
<1>4. CASE timerFires
  BY <1>4 DEF timerFires, Next
<1>5. CASE timerReturns
  BY <1>5 DEF timerReturns, Next
<1>6. CASE TestTick
  BY <1>6 DEF TestTick, Next
<1>7. CASE UNCHANGED testVars
  BY <1>7 DEF testVars, vars
<1> QED
  BY <1>1, <1>2, <1>3, <1>4, <1>5, <1>6, <1>7 DEF TestNext

\* NdgTestHandler uses the pool as NgxTimer expects (NdgTestHandler.hpp:219-242).
THEOREM TestImplementsTimer == TestSpec => Spec
<1>1. TestInit => Init
  BY DEF TestInit
<1> QED
  BY <1>1, TestStep, PTL DEF TestSpec, Spec

-------------------------------------------------------------------------------

\* An add that is not parked owes its function one more call, takes nothing from
\* the others, and leaves the running callback what it is.
LEMMA AddOwes ==
    ASSUME IInv, NEW ms \in Delays, NEW f \in Funcs, add(ms, f)
    PROVE  /\ owed' = IF ms = Nil THEN owed ELSE [owed EXCEPT ![f] = @ + 1]
           /\ owed \in [Funcs -> Int]
           /\ Running' = Running
<1>1. PICK e \in TimerEvents :
        /\ acquire(e)
        /\ init(e, f, ms)
        /\ IF ms = Nil
           THEN parked' = parked \cup {e} /\ UNCHANGED owed
           ELSE owed' = [owed EXCEPT ![f] = @ + 1] /\ UNCHANGED parked
        /\ UNCHANGED calling
  BY DEF add
<1>2. e \notin InUse
  BY <1>1, AcquireIdle
<1>3. \A x \in TimerEvents \ {e} : m_func'[x] = m_func[x]
  BY <1>1, InitArms
<1>4. calling # None => calling \in TimerEvents /\ calling # e
  BY <1>2 DEF IInv, TypeOK, InUse
<1>5. Running' = Running
  BY <1>1, <1>3, <1>4 DEF Running
<1> QED
  BY <1>1, <1>5 DEF IInv, TypeOK

\* Each request adds a link, timer_call replaces the link it is, and nobody else
\* touches the chains.
LEMMA LinksStep == IInv /\ LinksCount /\ [TestNext]_testVars => LinksCount'
<1> SUFFICES ASSUME IInv, LinksCount, [TestNext]_testVars PROVE LinksCount'
  OBVIOUS
<1> USE TestAssumption, TimerAssumption
<1>1. CASE handler
  <2>1. add(First, timer_call) /\ calling = None /\ handled' = handled + 1 /\ added' = added
    BY <1>1 DEF handler
  <2>2. /\ owed' = [owed EXCEPT ![timer_call] = @ + 1]
        /\ owed \in [Funcs -> Int]
        /\ Running' = Running
    BY <2>1, AddOwes
  <2>3. owed'[timer_call] = owed[timer_call] + 1
    BY <2>2
  <2>4. ~Running
    BY <2>1 DEF Running
  <2> QED
    BY <2>1, <2>2, <2>3, <2>4 DEF LinksCount, Links
<1>2. CASE timerCall
  <2>1. add(Again, timer_call) /\ Running /\ ~added /\ handled' = handled /\ added' = TRUE
    BY <1>2 DEF timerCall
  <2>2. /\ owed' = [owed EXCEPT ![timer_call] = @ + 1]
        /\ owed \in [Funcs -> Int]
    BY <2>1, AddOwes
  <2>3. owed'[timer_call] = owed[timer_call] + 1
    BY <2>2
  <2> QED
    BY <2>1, <2>2, <2>3 DEF LinksCount, Links
<1>3. CASE otherAdds
  <2>1. PICK ms \in Delays, f \in Funcs \ {timer_call} : add(ms, f)
    BY <1>3 DEF otherAdds
  <2>2. handled' = handled /\ added' = added
    BY <1>3 DEF otherAdds
  <2>3. /\ owed' = IF ms = Nil THEN owed ELSE [owed EXCEPT ![f] = @ + 1]
        /\ owed \in [Funcs -> Int]
        /\ Running' = Running
    BY <2>1, AddOwes
  <2>4. owed'[timer_call] = owed[timer_call]
    BY <2>1, <2>3
  <2> QED
    BY <2>2, <2>3, <2>4 DEF LinksCount, Links
<1>4. CASE timerFires
  <2>1. PICK e \in TimerEvents : call(e)
    BY <1>4 DEF timerFires
  <2>2. handled' = handled /\ added' = FALSE
    BY <1>4 DEF timerFires
  <2>3. /\ e \in made
        /\ Due(m_ev[e])
        /\ calling = None
        /\ calling' = e
        /\ m_func' = m_func
        /\ m_ev' = [m_ev EXCEPT ![e] = Expire(m_ev[e])]
        /\ owed' = IF m_ev'[e].timedout
                   THEN [owed EXCEPT ![m_func[e]] = @ - 1]
                   ELSE owed
    BY <2>1 DEF call, Fires
  <2>4. m_ev \in [TimerEvents -> Events] /\ owed \in [Funcs -> Int]
    BY DEF IInv, TypeOK
  <2>5. m_ev'[e].timedout
    BY <2>3, <2>4, ExpireFields
  <2>6. m_func[e] \in Funcs
    BY <2>3 DEF IInv, UsesApart, Armed, Due
  <2>7. owed'[timer_call] =
          IF m_func[e] = timer_call THEN owed[timer_call] - 1 ELSE owed[timer_call]
    BY <2>3, <2>4, <2>5, <2>6
  <2>8. ~Running /\ (Running' <=> m_func[e] = timer_call)
    BY <2>3 DEF Running
  <2>9. Links = owed[timer_call] + 0
    BY <2>8 DEF Links
  <2>10. Links' = owed'[timer_call] + (IF m_func[e] = timer_call THEN 1 ELSE 0)
    BY <2>2, <2>8 DEF Links
  <2>11. owed[timer_call] \in Int
    BY <2>4
  <2>12. Links' = Links
    BY <2>7, <2>9, <2>10, <2>11
  <2>13. added' \in BOOLEAN
    BY <2>2
  <2> QED
    BY <2>2, <2>12, <2>13 DEF LinksCount
<1>5. CASE timerReturns
  <2>1. (Running => added) /\ ~Running' /\ owed' = owed /\ handled' = handled /\ added' = added
    BY <1>5 DEF timerReturns, return, Running
  <2> QED
    BY <2>1 DEF LinksCount, Links
<1>6. CASE TestTick
  <2>1. PICK k \in Steps : Tick(k)
    BY <1>6 DEF TestTick
  <2>2. ~Running /\ ~Running' /\ owed' = owed /\ handled' = handled /\ added' = added
    BY <1>6, <2>1 DEF TestTick, Tick, Running
  <2> QED
    BY <2>2 DEF LinksCount, Links
<1>7. CASE UNCHANGED testVars
  BY <1>7 DEF testVars, vars, LinksCount, Links, Running
<1> QED
  BY <1>1, <1>2, <1>3, <1>4, <1>5, <1>6, <1>7 DEF TestNext

\* The invariants of the pool hold under http/test.
THEOREM TestInvariant == TestSpec => []IInv
BY TestImplementsTimer, TimerInvariant, PTL

\* However many requests are handled and whatever other modules do, the timers
\* armed for timer_call, and the one whose callback is about to add itself
\* again, are as many as the requests (NdgTestHandler.hpp:219-223, 240).
THEOREM TestOneChainPerRequest == TestSpec => []OneChainPerRequest
<1>1. TestInit => LinksCount
  <2> SUFFICES ASSUME TestInit PROVE LinksCount
    OBVIOUS
  <2>1. ~Running
    BY DEF TestInit, Init, Running
  <2>2. owed[timer_call] = 0
    BY TestAssumption DEF TestInit, Init
  <2>3. Links = owed[timer_call] + 0
    BY <2>1 DEF Links
  <2>4. handled = 0 /\ added \in BOOLEAN
    BY DEF TestInit
  <2> QED
    BY <2>2, <2>3, <2>4 DEF LinksCount
<1>2. IInv /\ LinksCount => OneChainPerRequest
  BY TestAssumption DEF IInv, PromisesInTree, LinksCount, Links, OneChainPerRequest, Chains
<1> QED
  BY <1>1, <1>2, LinksStep, TestInvariant, PTL DEF TestSpec

-------------------------------------------------------------------------------
\* NgxEventApi: the timer tree follows the callers of NgxEvent::timeout, if they
\* cancel only a timer that is set.  TimerFollowsCalls is inductive with the types.

Following ==
    /\ ev \in Events
    /\ asked \subseteq Int
    /\ TimerFollowsCalls

LEMMA AskKeeps ==
    ASSUME Following, NEW ms \in Timeouts, NEW reset \in BOOLEAN, Ask(ms, reset)
    PROVE  Following'
<1>1. ms \in Int /\ ms # Nil
  BY ApiAssumption DEF Nil
<1>2. ev' = Timeout(ev, ms, reset)
  BY DEF Ask
<1>3. CASE asked # {} /\ ~reset
  <2>1. ev' = ev /\ asked' = asked
    BY <1>1, <1>2, <1>3, TimeoutCases DEF Following, TimerFollowsCalls, Ask
  <2> QED
    BY <2>1 DEF Following, TimerFollowsCalls
<1>4. CASE ~(asked # {} /\ ~reset)
  <2>1. asked' = {ms} /\ ev' = AddTimer(ev, ms)
    BY <1>1, <1>2, <1>4, TimeoutCases DEF Following, TimerFollowsCalls, Ask
  <2>2. /\ ev' \in Events
        /\ ev'.timer_set
        /\ ev'.left = ms \/ Gap(ms, ev'.left) < LazyDelay
    BY <1>1, <2>1, AddTimerFields DEF Following
  <2> QED
    BY <1>1, <2>1, <2>2 DEF Following, TimerFollowsCalls
<1> QED
  BY <1>3, <1>4

LEMMA CancelKeeps ==
    ASSUME Following, NilOnlyIfArmed, NEW reset \in BOOLEAN, Cancel(reset)
    PROVE  Following'
<1>1. ev' = DelTimer(ev) /\ asked' = {}
  BY TimeoutCases DEF Following, Cancel, Nil
<1> QED
  BY <1>1, DelTimerFields DEF Following, TimerFollowsCalls

\* The key and the deadline come nearer together.
LEMMA TurnKeeps ==
    ASSUME Following, NEW k \in Turns, Turn(k)
    PROVE  Following'
<1>1. k \in Int
  BY ApiAssumption
<1>2. /\ ev' \in Events
      /\ ev'.timer_set = ev.timer_set
      /\ ev.timer_set => ev'.left = ev.left - k
  BY <1>1, ElapseFields DEF Following, Turn
<1>3. asked' = {a - k : a \in asked}
  BY DEF Turn
<1>4. asked' \subseteq Int
  <2>1. ASSUME NEW a \in asked
        PROVE  a - k \in Int
    <3>1. a \in Int
      BY DEF Following
    <3> QED
      BY <1>1, <3>1
  <2> QED
    BY <1>3, <2>1
<1>5. ASSUME NEW a \in asked
      PROVE  Gap(a - k, ev'.left) < LazyDelay \/ a - k = ev'.left
  <2>1. a \in Int /\ ev.left \in Int /\ ev'.left = ev.left - k
    BY <1>2 DEF Following, TimerFollowsCalls, Events
  <2>2. Gap(a - k, ev.left - k) = Gap(a, ev.left)
    BY <1>1, <2>1 DEF Gap
  <2>3. Gap(a, ev.left) < LazyDelay \/ a = ev.left
    BY DEF Following, TimerFollowsCalls
  <2> QED
    BY <2>1, <2>2, <2>3
<1>6. ev'.timer_set <=> asked' # {}
  BY <1>2, <1>3 DEF Following, TimerFollowsCalls
<1> QED
  BY <1>2, <1>3, <1>4, <1>5, <1>6 DEF Following, TimerFollowsCalls

LEMMA FireKeeps ==
    ASSUME Following, Fire
    PROVE  Following'
BY ExpireFields DEF Following, Fire, TimerFollowsCalls

\* A timer is armed exactly while a deadline is wanted, and is due within the
\* lazy delay of it (NgxEvent::timeout), for any delays, turns and lazy delay.
THEOREM ApiTimerFollowsCalls ==
    ASSUME NilOnlyIfArmed
    PROVE  ApiSpec => []TimerFollowsCalls
<1>1. ApiInit => Following
  BY FreshEventFields DEF ApiInit, Following, TimerFollowsCalls
<1>2. Following /\ [ApiNext]_apiVars => Following'
  <2> SUFFICES ASSUME Following, [ApiNext]_apiVars
               PROVE  Following'
    OBVIOUS
  <2>1. CASE \E ms \in Timeouts, reset \in BOOLEAN : Ask(ms, reset)
    BY <2>1, AskKeeps
  <2>2. CASE \E reset \in BOOLEAN : Cancel(reset)
    BY <2>2, CancelKeeps
  <2>3. CASE \E k \in Turns : Turn(k)
    BY <2>3, TurnKeeps
  <2>4. CASE Fire
    BY <2>4, FireKeeps
  <2>5. CASE UNCHANGED apiVars
    BY <2>5 DEF Following, TimerFollowsCalls, apiVars
  <2> QED
    BY <2>1, <2>2, <2>3, <2>4, <2>5 DEF ApiNext
<1>3. Following => TimerFollowsCalls
  BY DEF Following
<1> QED
  BY <1>1, <1>2, <1>3, PTL DEF ApiSpec

===============================================================================
