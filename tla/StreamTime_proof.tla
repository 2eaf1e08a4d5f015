--------------------------- MODULE StreamTime_proof ---------------------------
(***************************************************************************)
(* Proofs about StreamTime, for any number of sessions and any delays.     *)
(***************************************************************************)
EXTENDS StreamTime, NgxEvent_proof

Codes == {"ok", "timeout", "error"}

\* Closing a session leaves the others as they were and nothing behind that
\* could call its handler; if it is closed with success, all was sent.
LEMMA CloseStep ==
    ASSUME IInv, NEW s \in Sessions, NEW c \in Codes, cur \in {None, s},
           close(s, c),
           UNCHANGED <<peer, age>>,
           closing' \in SUBSET Sessions,
           full' \in SUBSET Sessions,
           buffered' \in [Sessions -> Nat],
           took' \in [Sessions -> Nat],
           \A x \in Sessions \ {s} : /\ x \in full' <=> x \in full
                                     /\ buffered'[x] = buffered[x]
                                     /\ took'[x] = took[x],
           c = "ok" => buffered'[s] = 0 /\ took'[s] > 0
    PROVE  IInv'
<1> USE TimeAssumption, LazyDelayAssumption
<1>1. /\ state' = [state EXCEPT ![s] = "closed"]
      /\ wev' = [wev EXCEPT ![s] = FreshEvent]
      /\ code' = [code EXCEPT ![s] = c]
      /\ cur' = None
      /\ pc' = "loop"
      /\ active' = active \ {s}
      /\ edge' = edge \ {s}
      /\ batch' = batch \ {s}
  BY DEF close
<1>2. TypeOK
  BY DEF IInv
<1>3. Open' = Open \ {s}
  BY <1>1, <1>2 DEF Open, TypeOK
<1>4. \A x \in Sessions \ {s} : /\ wev'[x] = wev[x]
                                /\ code'[x] = code[x]
                                /\ state'[x] = state[x]
                                /\ Writable(x)' <=> Writable(x)
  BY <1>1, <1>2 DEF TypeOK, Writable
<1>5. /\ state'[s] = "closed"
      /\ wev'[s] = FreshEvent
      /\ code'[s] = c
  BY <1>1, <1>2 DEF TypeOK
<1>6. TypeOK'
  BY <1>1, <1>2, FreshEventFields DEF TypeOK, Codes
<1>7. OnlyOpenIsServed'
  <2>1. active' \cup edge' \cup batch' \subseteq Open'
    BY <1>1, <1>3 DEF IInv, OnlyOpenIsServed
  <2>2. \A x \in Sessions : wev'[x].timer_set => x \in Open'
    BY <1>3, <1>4, <1>5, FreshEventFields DEF IInv, OnlyOpenIsServed
  <2> QED
    BY <2>1, <2>2 DEF OnlyOpenIsServed
<1>8. \A x \in (Open \ {cur})' : x \in Open \ {cur} /\ x \in Sessions \ {s}
  BY <1>3 DEF Open
<1>9. NoStrandedOutput'
  BY <1>1, <1>4, <1>8 DEF IInv, NoStrandedOutput
<1>10. HardDeadline' /\ UnsetIsYoung'
  BY <1>4, <1>5, FreshEventFields DEF IInv, HardDeadline, UnsetIsYoung
<1>11. OkMeansSent' /\ ClosedHaveCode'
  BY <1>4, <1>5 DEF IInv, OkMeansSent, ClosedHaveCode, Codes
<1>12. Handling'
  BY <1>1 DEF Handling
<1> QED
  BY <1>6, <1>7, <1>9, <1>10, <1>11, <1>12 DEF IInv

\* The handler starts on an event that has not expired: of a new session, or of
\* one whose event epoll has reported.
LEMMA EnterStep ==
    ASSUME IInv, NEW s \in Sessions, NEW ev \in Events, cur = None,
           enter(s, ev),
           ev.timer_set => wev[s].timer_set /\ ev.left = wev[s].left,
           ~ev.timer_set => ~wev[s].timer_set,
           \/ state[s] = "new"
           \/ state[s] = "open" /\ ev.ready,
           UNCHANGED <<buffered, closing, took, peer, full, age>>
    PROVE  IInv'
<1> USE TimeAssumption, LazyDelayAssumption
<1>1. TypeOK
  BY DEF IInv
<1>2. CASE ev.timedout
  <2>1. close(s, "timeout")
    BY <1>2 DEF enter
  <2> QED
    BY <1>1, <2>1, CloseStep DEF TypeOK, Codes
<1>3. CASE ~ev.timedout /\ s \in closing
  <2>1. close(s, "error")
    BY <1>3 DEF enter
  <2> QED
    BY <1>1, <2>1, CloseStep DEF TypeOK, Codes
<1>4. CASE ~ev.timedout /\ s \notin closing
  <2>1. /\ state' = [state EXCEPT ![s] = "open"]
        /\ wev' = [wev EXCEPT ![s] = ev]
        /\ cur' = s
        /\ pc' = IF ev.ready THEN "send" ELSE "wait"
        /\ batch' = batch \ {s}
        /\ UNCHANGED <<active, edge, code>>
    BY <1>4 DEF enter
  <2>2. s # None /\ Open' = Open \cup {s}
    BY <1>1, <2>1 DEF Open, TypeOK
  <2>3. \A x \in Sessions \ {s} : wev'[x] = wev[x] /\ state'[x] = state[x]
    BY <1>1, <2>1 DEF TypeOK
  <2>4. wev'[s] = ev /\ state'[s] = "open"
    BY <1>1, <2>1 DEF TypeOK
  <2>5. \A x \in Sessions : Writable(x)' = Writable(x)
    BY DEF Writable
  <2>6. TypeOK'
    BY <1>1, <2>1 DEF TypeOK
  <2>7. OnlyOpenIsServed'
    BY <2>1, <2>2, <2>3, <2>4 DEF IInv, OnlyOpenIsServed
  <2>8. \A x \in (Open \ {cur})' : x \in Open \ {cur} /\ x \in Sessions \ {s}
    BY <2>1, <2>2 DEF Open, TypeOK
  <2>9. NoStrandedOutput'
    BY <2>1, <2>3, <2>5, <2>8 DEF IInv, NoStrandedOutput
  <2>10. HardDeadline' /\ UnsetIsYoung'
    BY <2>3, <2>4 DEF IInv, HardDeadline, UnsetIsYoung
  <2>11. OkMeansSent' /\ ClosedHaveCode'
    BY <2>1, <2>3, <2>4 DEF IInv, OkMeansSent, ClosedHaveCode
  <2>12. Handling'
    <3>1. pc' = "wait" => ~wev'[s].ready /\ s \notin active'
      BY <2>1, <2>4 DEF IInv, OnlyOpenIsServed, Open
    <3> QED
      BY <2>1, <2>2, <3>1 DEF Handling
  <2> QED
    BY <2>6, <2>7, <2>9, <2>10, <2>11, <2>12 DEF IInv
<1> QED
  BY <1>2, <1>3, <1>4

LEMMA HandlerStep ==
    ASSUME IInv, NEW s \in Sessions, handler(s)
    PROVE  IInv'
<1>1. PICK b \in BOOLEAN : enter(s, [FreshEvent EXCEPT !.ready = b])
  BY DEF handler
<1> DEFINE ev == [FreshEvent EXCEPT !.ready = b]
<1>2. cur = None /\ state[s] = "new" /\ UNCHANGED <<buffered, closing, took, peer, full, age>>
  BY DEF handler
<1>3. ev \in Events /\ ~ev.timer_set
  BY FreshEventFields, SetReady
<1>4. ~wev[s].timer_set
  BY <1>2 DEF IInv, OnlyOpenIsServed, Open
<1>5. enter(s, ev)
  BY <1>1
<1> HIDE DEF ev
<1> QED
  BY <1>2, <1>3, <1>4, <1>5, EnterStep

LEMMA DeliverStep ==
    ASSUME IInv, NEW s \in Sessions, deliver(s)
    PROVE  IInv'
<1> DEFINE ev == [wev[s] EXCEPT !.ready = TRUE]
<1>1. /\ cur = None
      /\ s \in batch
      /\ enter(s, ev)
      /\ UNCHANGED <<buffered, closing, took, peer, full, age>>
  BY DEF deliver
<1>2. state[s] = "open" /\ wev[s] \in Events
  BY <1>1 DEF IInv, TypeOK, OnlyOpenIsServed, Open
<1>3. /\ ev \in Events
      /\ ev.ready
      /\ ev.timer_set = wev[s].timer_set
      /\ ev.left = wev[s].left
  BY <1>2, SetReady
<1> HIDE DEF ev
<1> QED
  BY <1>1, <1>2, <1>3, EnterStep

LEMMA ExpireStep ==
    ASSUME IInv, NEW s \in Sessions, expire(s)
    PROVE  IInv'
<1>1. /\ cur = None
      /\ enter(s, Expire(wev[s]))
      /\ UNCHANGED <<buffered, closing, took, peer, full, age>>
  BY DEF expire
<1>2. TypeOK /\ wev[s] \in Events
  BY DEF IInv, TypeOK
<1>3. close(s, "timeout")
  BY <1>1, <1>2, ExpireFields DEF enter
<1> QED
  BY <1>1, <1>2, <1>3, CloseStep DEF TypeOK, Codes

LEMMA DrainStep ==
    ASSUME IInv, NEW s \in Sessions, drain(s)
    PROVE  IInv'
<1>1. /\ closing' \in SUBSET Sessions
      /\ UNCHANGED <<state, wev, buffered, cur, pc, took, peer, full, active, edge, batch,
                     age, code>>
  BY DEF drain, IInv, TypeOK
<1> QED
  BY <1>1 DEF IInv, TypeOK, OnlyOpenIsServed, NoStrandedOutput, HardDeadline, OkMeansSent,
              Handling, UnsetIsYoung, ClosedHaveCode, Open, Writable

LEMMA SendStep ==
    ASSUME IInv, send
    PROVE  IInv'
<1> USE TimeAssumption
<1>1. pc = "send" /\ UNCHANGED <<closing, peer, age>>
  BY DEF send
<1>2. TypeOK
  BY DEF IInv
<1>3. cur \in Open /\ cur \in Sessions /\ cur # None
  BY <1>1 DEF IInv, Handling, Open
<1>4. CASE sendFails
  <2>1. close(cur, "error") /\ UNCHANGED <<buffered, closing, took, peer, full, age>>
    BY <1>1, <1>4 DEF sendFails
  <2> QED
    BY <1>2, <1>3, <2>1, CloseStep DEF TypeOK, Codes
<1>5. CASE sendAll
  <2>1. /\ took' = [took EXCEPT ![cur] = @ + buffered[cur] + 1]
        /\ buffered' = [buffered EXCEPT ![cur] = 0]
        /\ close(cur, "ok")
        /\ UNCHANGED full
    BY <1>5 DEF sendAll
  <2>2. /\ took' \in [Sessions -> Nat]
        /\ buffered' \in [Sessions -> Nat]
        /\ buffered'[cur] = 0
        /\ took'[cur] > 0
    <3>1. took[cur] \in Nat /\ buffered[cur] \in Nat
      BY <1>2, <1>3 DEF TypeOK
    <3> QED
      BY <1>2, <1>3, <2>1, <3>1 DEF TypeOK
  <2>3. \A x \in Sessions \ {cur} : buffered'[x] = buffered[x] /\ took'[x] = took[x]
    BY <1>2, <2>1 DEF TypeOK
  <2> QED
    BY <1>1, <1>2, <1>3, <2>1, <2>2, <2>3, CloseStep DEF TypeOK, Codes
<1>6. CASE peer[cur] = "up" /\ sendBlocks
  <2> DEFINE ev == [wev[cur] EXCEPT !.ready = FALSE]
  <2>1. /\ buffered' = [buffered EXCEPT ![cur] = @ + 1]
        /\ full' = full \cup {cur}
        /\ wev' = [wev EXCEPT ![cur] = ev]
        /\ pc' = "wait"
        /\ UNCHANGED <<state, code, cur, took, active, edge, batch>>
    BY <1>6 DEF sendBlocks
  <2>2. wev[cur] \in Events
    BY <1>2, <1>3 DEF TypeOK
  <2>3. /\ ev \in Events
        /\ ~ev.ready
        /\ ev.timer_set = wev[cur].timer_set
        /\ ev.left = wev[cur].left
    BY <2>2, SetReady
  <2> HIDE DEF ev
  <2>4. wev'[cur] = ev /\ \A x \in Sessions \ {cur} : wev'[x] = wev[x]
    BY <1>2, <1>3, <2>1 DEF TypeOK
  <2>5. Open' = Open /\ \A x \in Sessions \ {cur} : Writable(x)' = Writable(x)
    BY <1>1, <2>1 DEF Open, Writable
  <2>6. buffered' \in [Sessions -> Nat]
    <3>1. buffered[cur] + 1 \in Nat
      BY <1>2, <1>3 DEF TypeOK
    <3> QED
      BY <1>2, <1>3, <2>1, <3>1 DEF TypeOK
  <2>7. TypeOK'
    BY <1>1, <1>2, <1>3, <2>1, <2>3, <2>6 DEF TypeOK
  <2>8. OnlyOpenIsServed'
    BY <1>3, <2>1, <2>3, <2>4, <2>5 DEF IInv, OnlyOpenIsServed
  <2>9. NoStrandedOutput'
    BY <2>1, <2>4, <2>5 DEF IInv, NoStrandedOutput, Open
  <2>10. HardDeadline' /\ UnsetIsYoung' /\ ClosedHaveCode'
    BY <1>1, <2>1, <2>3, <2>4 DEF IInv, HardDeadline, UnsetIsYoung, ClosedHaveCode
  <2>11. OkMeansSent'
    <3>1. code[cur] = "none"
      BY <1>2, <1>3 DEF IInv, ClosedHaveCode, Open, TypeOK
    <3> QED
      BY <1>2, <2>1, <3>1 DEF IInv, OkMeansSent, TypeOK
  <2>12. Handling'
    <3>1. ~Writable(cur)'
      BY <1>1, <1>6, <2>1 DEF Writable
    <3> QED
      BY <1>1, <1>3, <2>1, <2>3, <2>4, <2>5, <3>1 DEF Handling
  <2> QED
    BY <2>7, <2>8, <2>9, <2>10, <2>11, <2>12 DEF IInv
<1> QED
  BY <1>4, <1>5, <1>6 DEF send

\* The first wait starts the clock when the session is accepted; a later one
\* finds it running and leaves it alone.
LEMMA WaitStep ==
    ASSUME IInv, wait_for
    PROVE  IInv'
<1> USE TimeAssumption, LazyDelayAssumption
<1>1. /\ pc = "wait"
      /\ wev' = [wev EXCEPT ![cur] = Timeout(wev[cur], Wait, FALSE)]
      /\ register(cur)
      /\ cur' = None
      /\ pc' = "loop"
      /\ UNCHANGED <<state, buffered, closing, took, peer, full, batch, age, code>>
  BY DEF wait_for
<1>2. TypeOK
  BY DEF IInv
<1>3. cur \in Open /\ cur \in Sessions /\ cur # None
  BY <1>1 DEF IInv, Handling, Open
<1>4. wev[cur] \in Events /\ Wait \in Int /\ Wait # Nil
  BY <1>2, <1>3 DEF TypeOK, Nil
<1>5. /\ wev'[cur] = Timeout(wev[cur], Wait, FALSE)
      /\ \A x \in Sessions \ {cur} : wev'[x] = wev[x]
  BY <1>1, <1>2, <1>3 DEF TypeOK
<1>6. /\ wev'[cur] \in Events
      /\ wev'[cur].timer_set
      /\ wev[cur].timer_set => wev'[cur].left = wev[cur].left
      /\ ~wev[cur].timer_set => wev'[cur].left = Wait
  <2>1. CASE wev[cur].timer_set
    BY <1>4, <1>5, <2>1, TimeoutCases
  <2>2. CASE ~wev[cur].timer_set
    <3>1. wev'[cur] = AddTimer(wev[cur], Wait)
      BY <1>4, <1>5, <2>2, TimeoutCases
    <3> QED
      BY <1>4, <2>2, <3>1, AddTimerFields
  <2> QED
    BY <2>1, <2>2
<1>7. ~wev[cur].ready /\ (cur \in active /\ Writable(cur) => cur \in edge \cup batch)
  BY <1>1 DEF IInv, Handling
<1>8. /\ active' = active \cup {cur}
      /\ edge \subseteq edge' /\ edge' \subseteq edge \cup {cur}
      /\ Writable(cur) => cur \in edge' \cup batch
  BY <1>1, <1>7 DEF register
<1>9. Open' = Open /\ \A x \in Sessions : Writable(x)' = Writable(x)
  BY <1>1 DEF Open, Writable
<1>10. TypeOK'
  BY <1>1, <1>2, <1>3, <1>5, <1>6, <1>8 DEF TypeOK
<1>11. OnlyOpenIsServed'
  BY <1>1, <1>3, <1>5, <1>8, <1>9 DEF IInv, OnlyOpenIsServed
<1>12. NoStrandedOutput'
  <2>1. \A x \in Open \ {cur} : x \in Sessions \ {cur}
    BY DEF Open
  <2> QED
    BY <1>1, <1>3, <1>5, <1>6, <1>8, <1>9, <2>1 DEF IInv, NoStrandedOutput
<1>13. HardDeadline'
  <2>1. wev'[cur].left + age[cur] = Wait
    <3>1. CASE wev[cur].timer_set
      BY <1>3, <1>6, <3>1 DEF IInv, HardDeadline
    <3>2. CASE ~wev[cur].timer_set
      <4>1. age[cur] = 0
        BY <1>3, <3>2 DEF IInv, UnsetIsYoung, Open
      <4> QED
        BY <1>6, <3>2, <4>1
    <3> QED
      BY <3>1, <3>2
  <2> QED
    BY <1>1, <1>5, <2>1 DEF IInv, HardDeadline
<1>14. UnsetIsYoung'
  BY <1>1, <1>5, <1>6 DEF IInv, UnsetIsYoung
<1>15. OkMeansSent' /\ ClosedHaveCode' /\ Handling'
  BY <1>1 DEF IInv, OkMeansSent, ClosedHaveCode, Handling
<1> QED
  BY <1>10, <1>11, <1>12, <1>13, <1>14, <1>15 DEF IInv

LEMMA WaitFailsStep ==
    ASSUME IInv, wait_fails
    PROVE  IInv'
<1>1. cur \in Sessions
  BY DEF wait_fails, IInv, Handling, Open
<1>2. close(cur, "error") /\ UNCHANGED <<buffered, closing, took, peer, full, age>>
  BY DEF wait_fails
<1> QED
  BY <1>1, <1>2, CloseStep DEF IInv, TypeOK, Codes

LEMMA PollStep ==
    ASSUME IInv, NEW k \in Steps, poll(k)
    PROVE  IInv'
<1> USE TimeAssumption
<1>1. /\ cur = None
      /\ batch = {}
      /\ wev' = [s \in Sessions |-> Elapse(wev[s], k)]
      /\ age' = [s \in Sessions |-> IF s \in Open THEN age[s] + k ELSE age[s]]
      /\ batch' = edge
      /\ edge' = {}
      /\ UNCHANGED <<state, buffered, closing, cur, pc, took, peer, full, active, code>>
  BY DEF poll
<1>2. TypeOK
  BY DEF IInv
<1>3. k \in Int /\ k \in Nat
  OBVIOUS
<1>4. \A s \in Sessions :
        /\ wev'[s] \in Events
        /\ wev'[s].timer_set = wev[s].timer_set
        /\ wev'[s].left = IF wev[s].timer_set THEN wev[s].left - k ELSE wev[s].left
  <2>1. \A s \in Sessions : wev[s] \in Events /\ wev'[s] = Elapse(wev[s], k)
    BY <1>1, <1>2 DEF TypeOK
  <2> QED
    BY <1>3, <2>1, ElapseFields
<1>5. Open' = Open /\ \A s \in Sessions : Writable(s)' = Writable(s)
  BY <1>1 DEF Open, Writable
<1>6. TypeOK'
  <2>1. wev' \in [Sessions -> Events]
    BY <1>1, <1>4
  <2>2. age' \in [Sessions -> Nat]
    BY <1>1, <1>2, <1>3 DEF TypeOK
  <2> QED
    BY <1>1, <1>2, <2>1, <2>2 DEF TypeOK
<1>7. OnlyOpenIsServed'
  BY <1>1, <1>4, <1>5 DEF IInv, OnlyOpenIsServed
<1>8. NoStrandedOutput'
  BY <1>1, <1>4, <1>5 DEF IInv, NoStrandedOutput, Open
<1>9. HardDeadline'
  <2>1. SUFFICES ASSUME NEW s \in Sessions, wev[s].timer_set
                 PROVE  wev'[s].left + age'[s] = wev[s].left + age[s]
    BY <1>4 DEF IInv, HardDeadline
  <2>2. wev[s].left \in Int /\ age[s] \in Int
    BY <1>2 DEF TypeOK, Events
  <2>3. s \in Open
    BY <2>1 DEF IInv, OnlyOpenIsServed
  <2> QED
    BY <1>1, <1>3, <1>4, <2>1, <2>2, <2>3
<1>10. UnsetIsYoung'
  <2>1. SUFFICES ASSUME NEW s \in Sessions, state[s] # "closed", ~wev[s].timer_set
                 PROVE  age'[s] = age[s]
    BY <1>1, <1>4 DEF IInv, UnsetIsYoung
  <2>2. s \notin Open
    BY <1>1, <2>1 DEF IInv, NoStrandedOutput, Open
  <2> QED
    BY <1>1, <2>2
<1>11. OkMeansSent' /\ ClosedHaveCode' /\ Handling'
  BY <1>1 DEF IInv, OkMeansSent, ClosedHaveCode, Handling
<1> QED
  BY <1>6, <1>7, <1>8, <1>9, <1>10, <1>11 DEF IInv

\* What a client does is reported if its socket is registered.
LEMMA ClientStep ==
    ASSUME IInv, NEW s \in Sessions, drains(s) \/ resets(s)
    PROVE  IInv'
<1>1. TypeOK /\ s \in Sessions /\ state[s] # "closed"
  BY DEF IInv, drains, resets
<1>2. /\ edge' = IF s \in active THEN edge \cup {s} ELSE edge
      /\ UNCHANGED <<state, wev, buffered, closing, cur, pc, took, active, batch, age, code>>
  BY DEF drains, resets, changes
<1>3. /\ full' \in SUBSET Sessions
      /\ peer' \in [Sessions -> {"up", "rst"}]
      /\ \A x \in Sessions \ {s} : Writable(x)' <=> Writable(x)
  <2>1. CASE drains(s)
    BY <1>1, <2>1 DEF drains, Writable, TypeOK
  <2>2. CASE resets(s)
    BY <1>1, <2>2 DEF resets, Writable, TypeOK
  <2> QED
    BY <2>1, <2>2
<1>4. Open' = Open
  BY <1>2 DEF Open
<1>5. TypeOK'
  BY <1>1, <1>2, <1>3 DEF TypeOK
<1>6. OnlyOpenIsServed'
  BY <1>2, <1>4 DEF IInv, OnlyOpenIsServed
<1>7. NoStrandedOutput'
  BY <1>2, <1>3, <1>4 DEF IInv, NoStrandedOutput, Open
<1>8. HardDeadline' /\ OkMeansSent' /\ UnsetIsYoung' /\ ClosedHaveCode'
  BY <1>2 DEF IInv, HardDeadline, OkMeansSent, UnsetIsYoung, ClosedHaveCode
<1>9. Handling'
  <2>1. cur # None => cur \in Sessions
    BY <1>1 DEF TypeOK
  <2> QED
    BY <1>2, <1>3, <1>4, <2>1 DEF IInv, Handling
<1> QED
  BY <1>5, <1>6, <1>7, <1>8, <1>9 DEF IInv

-------------------------------------------------------------------------------

LEMMA InitIInv == Init => IInv
<1> SUFFICES ASSUME Init PROVE IInv
  OBVIOUS
<1>1. Open = {}
  BY DEF Init, Open
<1>2. TypeOK
  BY FreshEventFields DEF Init, TypeOK
<1> QED
  BY <1>1, <1>2, FreshEventFields
     DEF Init, IInv, OnlyOpenIsServed, NoStrandedOutput, HardDeadline, OkMeansSent,
         Handling, UnsetIsYoung, ClosedHaveCode

LEMMA NextIInv == IInv /\ [Next]_vars => IInv'
<1> SUFFICES ASSUME IInv, [Next]_vars PROVE IInv'
  OBVIOUS
<1>1. ASSUME NEW s \in Sessions, handler(s) PROVE IInv'
  BY <1>1, HandlerStep
<1>2. ASSUME NEW s \in Sessions, deliver(s) PROVE IInv'
  BY <1>2, DeliverStep
<1>3. ASSUME NEW s \in Sessions, expire(s) PROVE IInv'
  BY <1>3, ExpireStep
<1>4. ASSUME NEW s \in Sessions, drain(s) PROVE IInv'
  BY <1>4, DrainStep
<1>5. ASSUME NEW k \in Steps, poll(k) PROVE IInv'
  BY <1>5, PollStep
<1>6. CASE send
  BY <1>6, SendStep
<1>7. CASE wait_for
  BY <1>7, WaitStep
<1>8. CASE wait_fails
  BY <1>8, WaitFailsStep
<1>9. CASE Clients
  BY <1>9, ClientStep DEF Clients
<1>10. CASE UNCHANGED vars
  BY <1>10 DEF vars, IInv, TypeOK, OnlyOpenIsServed, NoStrandedOutput, HardDeadline,
               OkMeansSent, Handling, UnsetIsYoung, ClosedHaveCode, Open, Writable
<1>11. CASE Worker
  BY <1>1, <1>2, <1>3, <1>4, <1>5, <1>6, <1>7, <1>8, <1>11 DEF Worker
<1> QED
  BY <1>9, <1>10, <1>11 DEF Next

\* IInv is an invariant of the time server (NdgStreamTimeHandler.hpp:16-86).
THEOREM TimeInvariant == Spec => []IInv
BY InitIInv, NextIInv, PTL DEF Spec

\* Types.
THEOREM TimeTypeOK == Spec => []TypeOK
<1>1. IInv => TypeOK
  BY DEF IInv
<1> QED
  BY <1>1, TimeInvariant, PTL

\* Output never waits without a timer and a registration, nor room for it
\* without an event.
THEOREM TimeNoStrandedOutput == Spec => []NoStrandedOutput
<1>1. IInv => NoStrandedOutput
  BY DEF IInv
<1> QED
  BY <1>1, TimeInvariant, PTL

\* No event reaches the handler on behalf of a closed session.
THEOREM TimeOnlyOpenIsServed == Spec => []OnlyOpenIsServed
<1>1. IInv => OnlyOpenIsServed
  BY DEF IInv
<1> QED
  BY <1>1, TimeInvariant, PTL

\* wait_for(100) without reset counts the 100 ms from the accept.
THEOREM TimeHardDeadline == Spec => []HardDeadline
<1>1. IInv => HardDeadline
  BY DEF IInv
<1> QED
  BY <1>1, TimeInvariant, PTL

\* NGX_STREAM_OK means that the socket took everything.
THEOREM TimeOkMeansSent == Spec => []OkMeansSent
<1>1. IInv => OkMeansSent
  BY DEF IInv
<1> QED
  BY <1>1, TimeInvariant, PTL

===============================================================================
