------------------------- MODULE StreamDiscard_proof --------------------------
(***************************************************************************)
(* Proofs about StreamDiscard, for any number of sessions and any limits.  *)
(***************************************************************************)
EXTENDS StreamDiscard, NgxEvent_proof

Reasons == {"timeout", "asked", "eof", "failed"}

\* Closing a session, for whatever reason the code has for it, leaves the others
\* as they were and nothing behind that could call its handlers.
LEMMA CloseStep ==
    ASSUME IInv, NEW s \in Open, NEW reason \in Reasons,
           cur \in {None, s},
           reason = "timeout" => quiet[s] > IdleLimit - LazyDelay
                                 \/ quiet[s] >= IdleLimit,
           reason = "asked" => s \notin heard,
           close(s, reason),
           UNCHANGED <<data, peer, quiet, heard>>
    PROVE  IInv'
<1> USE DiscardAssumption, LazyDelayAssumption
<1>1. /\ state' = [state EXCEPT ![s] = "closed"]
      /\ rev' = [rev EXCEPT ![s] = FreshEvent]
      /\ reusable' = reusable \ {s}
      /\ active' = active \ {s}
      /\ edge' = edge \ {s}
      /\ batch' = batch \ {s}
      /\ why' = [why EXCEPT ![s] = reason]
      /\ cur' = None
      /\ pc' = "loop"
  BY DEF close
<1>2. TypeOK
  BY DEF IInv
<1>3. s \in Sessions /\ Open' = Open \ {s}
  BY <1>1, <1>2 DEF Open, TypeOK
<1>4. \A x \in Sessions \ {s} : /\ rev'[x] = rev[x]
                                /\ why'[x] = why[x]
                                /\ state'[x] = state[x]
                                /\ Readable(x)' = Readable(x)
  BY <1>1, <1>2 DEF TypeOK, Readable
<1>5. TypeOK'
  BY <1>1, <1>2, FreshEventFields DEF TypeOK, Reasons
<1>6. OnlyOpenIsServed'
  <2>1. active' \cup edge' \cup batch' \subseteq Open'
    BY <1>1, <1>3 DEF IInv, OnlyOpenIsServed
  <2>2. \A x \in Sessions : rev'[x].timer_set => x \in Open'
    BY <1>1, <1>2, <1>3, <1>4, FreshEventFields DEF IInv, OnlyOpenIsServed, TypeOK
  <2> QED
    BY <1>1, <2>1, <2>2 DEF OnlyOpenIsServed
<1>7. \A x \in (Open \ {cur})' : x \in Open \ {cur} /\ x # s /\ x \in Sessions
  BY <1>3 DEF Open
<1>8. NoStrandedInput' /\ IdleWindow'
  BY <1>1, <1>4, <1>7 DEF IInv, NoStrandedInput, IdleWindow
<1>9. NoHastyTimeout' /\ ClosedHaveReason' /\ HeardIsKept'
  BY <1>1, <1>2, <1>4 DEF IInv, NoHastyTimeout, ClosedHaveReason, HeardIsKept, TypeOK, Reasons
<1>10. Handling'
  BY <1>1 DEF Handling
<1> QED
  BY <1>5, <1>6, <1>8, <1>9, <1>10 DEF IInv

\* The handler starts, on an event that has not expired: of a new session, or of
\* one whose event epoll has reported.
LEMMA EnterStep ==
    ASSUME IInv, NEW s \in Sessions, NEW ev \in Events, cur = None,
           enter(s, ev, FALSE),
           ~ev.timedout,
           ev.timer_set => rev[s].timer_set /\ ev.left = rev[s].left,
           \/ state[s] = "new"
           \/ state[s] = "open" /\ ev.ready,
           UNCHANGED <<data, peer, quiet, heard>>
    PROVE  IInv'
<1> USE DiscardAssumption, LazyDelayAssumption
<1>1. /\ state' = [state EXCEPT ![s] = "open"]
      /\ rev' = [rev EXCEPT ![s] = ev]
      /\ cur' = s
      /\ pc' = IF ev.ready THEN "recv" ELSE "wait"
      /\ batch' = batch \ {s}
      /\ UNCHANGED <<reusable, active, edge, why>>
  BY DEF enter
<1>2. TypeOK
  BY DEF IInv
<1>3. s # None /\ Open' = Open \cup {s}
  BY <1>1, <1>2 DEF Open, TypeOK
<1>4. \A x \in Sessions \ {s} : /\ rev'[x] = rev[x]
                                /\ state'[x] = state[x]
  BY <1>1, <1>2 DEF TypeOK
<1>5. \A x \in Sessions : Readable(x)' = Readable(x)
  BY <1>1 DEF Readable
<1>6. rev'[s] = ev
  BY <1>1, <1>2 DEF TypeOK
<1>7. TypeOK'
  BY <1>1, <1>2 DEF TypeOK
<1>8. OnlyOpenIsServed'
  BY <1>1, <1>3, <1>4, <1>6 DEF IInv, OnlyOpenIsServed
<1>9. \A x \in (Open \ {cur})' : x \in Open \ {cur} /\ x # s /\ x \in Sessions
  BY <1>1, <1>3 DEF Open, TypeOK
<1>10. NoStrandedInput' /\ IdleWindow'
  BY <1>1, <1>4, <1>5, <1>9 DEF IInv, NoStrandedInput, IdleWindow
<1>11. NoHastyTimeout' /\ ClosedHaveReason' /\ HeardIsKept'
  BY <1>1, <1>2, <1>4 DEF IInv, NoHastyTimeout, ClosedHaveReason, HeardIsKept, TypeOK
<1>12. Handling'
  <2>1. ~rev'[s].timedout /\ (pc' = "wait" => ~rev'[s].ready)
    BY <1>1, <1>6
  <2>2. rev'[s].timer_set => rev'[s].left + quiet'[s] <= IdleLimit
    <3>1. rev[s].timer_set => s \in Open \ {cur}
      BY DEF IInv, OnlyOpenIsServed, Open
    <3> QED
      BY <1>6, <3>1 DEF IInv, IdleWindow
  <2>3. ~(pc' = "wait" /\ s \in active')
    BY <1>1 DEF IInv, OnlyOpenIsServed, Open
  <2> QED
    BY <1>1, <2>1, <2>2, <2>3 DEF Handling
<1> QED
  BY <1>7, <1>8, <1>10, <1>11, <1>12 DEF IInv

LEMMA HandlerStep ==
    ASSUME IInv, NEW s \in Sessions, handler(s)
    PROVE  IInv'
<1>1. PICK b \in {FALSE, Readable(s)} : enter(s, [FreshEvent EXCEPT !.ready = b], FALSE)
  BY DEF handler
<1> DEFINE ev == [FreshEvent EXCEPT !.ready = b]
<1>2. cur = None /\ state[s] = "new" /\ UNCHANGED <<data, peer, quiet, heard>>
  BY DEF handler
<1>3. b \in BOOLEAN
  BY DEF Readable
<1>4. ev \in Events /\ ~ev.timedout /\ ~ev.timer_set /\ ev.left = 0
  BY <1>3, FreshEventFields, SetReady
<1>5. enter(s, ev, FALSE)
  BY <1>1
<1> HIDE DEF ev
<1> QED
  BY <1>2, <1>4, <1>5, EnterStep

LEMMA DeliverStep ==
    ASSUME IInv, NEW s \in Sessions, deliver(s)
    PROVE  IInv'
<1> DEFINE ev == [rev[s] EXCEPT !.ready = TRUE]
<1>1. /\ cur = None
      /\ s \in batch
      /\ enter(s, ev, FALSE)
      /\ UNCHANGED <<data, peer, quiet, heard>>
  BY DEF deliver
<1>2. s \in Open \ {cur} /\ state[s] = "open" /\ rev[s] \in Events
  BY <1>1, DiscardAssumption DEF IInv, TypeOK, OnlyOpenIsServed, Open
<1>3. ~rev[s].timedout
  BY <1>2 DEF IInv, NoStrandedInput
<1>4. /\ ev \in Events
      /\ ev.ready
      /\ ev.timedout = rev[s].timedout
      /\ ev.timer_set = rev[s].timer_set
      /\ ev.left = rev[s].left
  BY <1>2, SetReady
<1> HIDE DEF ev
<1> QED
  BY <1>1, <1>2, <1>3, <1>4, EnterStep

LEMMA ExpireStep ==
    ASSUME IInv, NEW s \in Sessions, expire(s)
    PROVE  IInv'
<1> USE DiscardAssumption, LazyDelayAssumption
<1>1. /\ cur = None
      /\ rev[s].timer_set
      /\ rev[s].left <= 0
      /\ enter(s, Expire(rev[s]), FALSE)
      /\ UNCHANGED <<data, peer, quiet, heard>>
  BY DEF expire, Due
<1>2. rev[s] \in Events /\ rev[s].left \in Int /\ quiet[s] \in Nat
  BY DEF IInv, TypeOK, Events
<1>3. s \in Open \ {cur}
  BY <1>1 DEF IInv, OnlyOpenIsServed
<1>4. close(s, "timeout")
  BY <1>1, <1>2, ExpireFields DEF enter
<1>5. quiet[s] > IdleLimit - LazyDelay \/ quiet[s] >= IdleLimit
  <2> DEFINE due == rev[s].left + quiet[s]
  <2>1. due = IdleLimit \/ IdleLimit - due < LazyDelay
    BY <1>3 DEF IInv, IdleWindow
  <2>2. quiet[s] >= due
    BY <1>1, <1>2
  <2> QED
    BY <1>2, <2>1, <2>2
<1> QED
  BY <1>1, <1>3, <1>4, <1>5, CloseStep DEF Reasons

LEMMA DrainStep ==
    ASSUME IInv, NEW s \in Sessions, drain(s)
    PROVE  IInv'
<1>1. /\ cur = None
      /\ s \in Open
      /\ s \in reusable
      /\ enter(s, rev[s], TRUE)
      /\ UNCHANGED <<data, peer, quiet, heard>>
  BY DEF drain
<1>2. ~rev[s].timedout
  BY <1>1, DiscardAssumption DEF IInv, NoStrandedInput, Open
<1>3. close(s, "asked")
  BY <1>1, <1>2 DEF enter
<1>4. s \notin heard
  BY <1>1 DEF IInv, HeardIsKept
<1> QED
  BY <1>1, <1>3, <1>4, CloseStep DEF Reasons

LEMMA RecvStep ==
    ASSUME IInv, recv
    PROVE  IInv'
<1> USE DiscardAssumption, LazyDelayAssumption
<1>1. pc = "recv" /\ UNCHANGED <<peer, quiet>>
  BY DEF recv
<1>2. TypeOK
  BY DEF IInv
<1>3. cur \in Open /\ cur \in Sessions /\ cur # None
  BY <1>1 DEF IInv, OnlyOpenIsServed, Open
<1>4. CASE recvPiece
  <2>1. /\ data' = [data EXCEPT ![cur] = @ - 1]
        /\ data[cur] > 0
        /\ heard' = heard \cup {cur}
        /\ reusable' = reusable \ {cur}
        /\ UNCHANGED <<state, rev, cur, pc, active, edge, batch, why>>
    BY <1>4 DEF recvPiece
  <2>2. data[cur] - 1 \in Nat
    BY <1>2, <1>3, <2>1 DEF TypeOK
  <2>3. TypeOK'
    BY <1>1, <1>2, <1>3, <2>1, <2>2 DEF TypeOK
  <2>4. Open' = Open /\ \A x \in Sessions \ {cur} : Readable(x)' = Readable(x)
    BY <1>1, <1>2, <2>1 DEF Open, Readable, TypeOK
  <2>5. OnlyOpenIsServed' /\ IdleWindow' /\ NoHastyTimeout' /\ ClosedHaveReason'
    BY <1>1, <2>1, <2>4 DEF IInv, OnlyOpenIsServed, IdleWindow, NoHastyTimeout, ClosedHaveReason
  <2>6. NoStrandedInput'
    BY <2>1, <2>4 DEF IInv, NoStrandedInput, Open
  <2>7. Handling'
    BY <1>1, <2>1 DEF IInv, Handling
  <2>8. why[cur] = "none"
    BY <1>2, <1>3 DEF IInv, ClosedHaveReason, Open
  <2>9. HeardIsKept'
    BY <2>1, <2>8 DEF IInv, HeardIsKept
  <2> QED
    BY <2>3, <2>5, <2>6, <2>7, <2>9 DEF IInv
<1>5. CASE recvAgain
  <2>1. /\ data[cur] = 0
        /\ peer[cur] = "up"
        /\ rev' = [rev EXCEPT ![cur] = [rev[cur] EXCEPT !.ready = FALSE]]
        /\ pc' = "wait"
        /\ UNCHANGED <<state, reusable, cur, data, active, edge, batch, heard, why>>
    BY <1>5 DEF recvAgain
  <2>2. rev[cur] \in Events
    BY <1>2, <1>3 DEF TypeOK
  <2>3. /\ rev'[cur] \in Events
        /\ ~rev'[cur].ready
        /\ rev'[cur].timedout = rev[cur].timedout
        /\ rev'[cur].timer_set = rev[cur].timer_set
        /\ rev'[cur].left = rev[cur].left
    BY <1>2, <1>3, <2>1, <2>2, SetReady DEF TypeOK
  <2>4. \A x \in Sessions \ {cur} : rev'[x] = rev[x]
    BY <2>1, <1>2 DEF TypeOK
  <2>5. TypeOK'
    BY <1>1, <1>2, <2>1, <2>3, <2>4 DEF TypeOK
  <2>6. Open' = Open /\ (\A x \in Sessions : Readable(x)' = Readable(x)) /\ ~Readable(cur)
    BY <1>1, <2>1 DEF Open, Readable
  <2>7. OnlyOpenIsServed'
    BY <1>1, <1>3, <2>1, <2>3, <2>4, <2>6 DEF IInv, OnlyOpenIsServed
  <2>8. NoStrandedInput' /\ IdleWindow'
    BY <1>1, <2>1, <2>4, <2>6 DEF IInv, NoStrandedInput, IdleWindow, Open
  <2>9. NoHastyTimeout' /\ ClosedHaveReason' /\ HeardIsKept'
    BY <1>1, <2>1 DEF IInv, NoHastyTimeout, ClosedHaveReason, HeardIsKept
  <2>10. Handling'
    BY <1>1, <1>3, <2>1, <2>3, <2>6 DEF IInv, Handling
  <2> QED
    BY <2>5, <2>7, <2>8, <2>9, <2>10 DEF IInv
<1>6. CASE recvEnd
  <2>1. close(cur, "eof") /\ UNCHANGED <<data, peer, quiet, heard>>
    BY <1>1, <1>6 DEF recvEnd
  <2> QED
    BY <1>3, <2>1, CloseStep DEF Reasons
<1> QED
  BY <1>4, <1>5, <1>6 DEF recv

LEMMA WaitStep ==
    ASSUME IInv, wait_for
    PROVE  IInv'
<1> USE DiscardAssumption, LazyDelayAssumption
<1>1. /\ pc = "wait"
      /\ rev' = [rev EXCEPT ![cur] = Timeout(rev[cur], IdleLimit, TRUE)]
      /\ quiet' = [quiet EXCEPT ![cur] = 0]
      /\ register(cur)
      /\ cur' = None
      /\ pc' = "loop"
      /\ UNCHANGED <<state, reusable, data, peer, batch, heard, why>>
  BY DEF wait_for
<1>2. TypeOK
  BY DEF IInv
<1>3. cur \in Open /\ cur \in Sessions /\ cur # None
  BY <1>1 DEF IInv, OnlyOpenIsServed, Open
<1>4. rev[cur] \in Events /\ IdleLimit \in Int /\ IdleLimit # Nil
  BY <1>2, <1>3 DEF TypeOK, Nil
<1>5. rev'[cur] = AddTimer(rev[cur], IdleLimit)
  <2>1. Timeout(rev[cur], IdleLimit, TRUE) = AddTimer(rev[cur], IdleLimit)
    BY <1>4, TimeoutCases
  <2> QED
    BY <1>1, <1>2, <1>3, <2>1 DEF TypeOK
<1>6. /\ rev'[cur] \in Events
      /\ rev'[cur].timer_set
      /\ rev'[cur].timedout = rev[cur].timedout
      /\ \/ rev'[cur].left = IdleLimit
         \/ /\ rev[cur].timer_set
            /\ rev'[cur].left = rev[cur].left
            /\ Gap(IdleLimit, rev[cur].left) < LazyDelay
  BY <1>4, <1>5, AddTimerFields
<1>7. /\ \A x \in Sessions \ {cur} : rev'[x] = rev[x] /\ quiet'[x] = quiet[x]
      /\ quiet'[cur] = 0
  BY <1>1, <1>2, <1>3 DEF TypeOK
<1>8. rev'[cur].left <= IdleLimit /\ (rev'[cur].left = IdleLimit
                                      \/ IdleLimit - rev'[cur].left < LazyDelay)
  <2>1. CASE rev'[cur].left = IdleLimit
    BY <2>1
  <2>2. CASE rev[cur].timer_set /\ rev'[cur].left = rev[cur].left
             /\ Gap(IdleLimit, rev[cur].left) < LazyDelay
    <3>1. rev[cur].left \in Int /\ quiet[cur] \in Nat
      BY <1>2, <1>3, <1>4 DEF TypeOK, Events
    <3>2. rev[cur].left + quiet[cur] <= IdleLimit
      BY <1>3, <2>2 DEF IInv, Handling
    <3> QED
      BY <2>2, <3>1, <3>2 DEF Gap
  <2> QED
    BY <1>6, <2>1, <2>2
<1>9. ~rev[cur].timedout /\ ~rev[cur].ready
      /\ (cur \in active /\ Readable(cur) => cur \in edge \cup batch)
  BY <1>1, <1>3 DEF IInv, Handling
<1>10. /\ active' = active \cup {cur}
       /\ edge \subseteq edge' /\ edge' \subseteq edge \cup {cur}
       /\ Readable(cur) => cur \in edge' \cup batch
  BY <1>1, <1>9 DEF register
<1>11. Open' = Open /\ \A x \in Sessions : Readable(x)' = Readable(x)
  BY <1>1 DEF Open, Readable
<1>12. TypeOK'
  BY <1>1, <1>2, <1>3, <1>6, <1>7, <1>10 DEF TypeOK
<1>13. OnlyOpenIsServed'
  BY <1>1, <1>3, <1>7, <1>10, <1>11 DEF IInv, OnlyOpenIsServed
<1>14. \A x \in Open \ {cur} : x \in Sessions \ {cur}
  BY DEF Open
<1>15. NoStrandedInput'
  BY <1>1, <1>3, <1>6, <1>7, <1>9, <1>10, <1>11, <1>14 DEF IInv, NoStrandedInput
<1>16. IdleWindow'
  <2>1. SUFFICES ASSUME NEW x \in Open
                 PROVE  /\ rev'[x].left + quiet'[x] <= IdleLimit
                        /\ \/ rev'[x].left + quiet'[x] = IdleLimit
                           \/ IdleLimit - (rev'[x].left + quiet'[x]) < LazyDelay
    BY <1>11 DEF IdleWindow
  <2>2. CASE x = cur
    <3>1. rev'[cur].left \in Int
      BY <1>6 DEF Events
    <3> QED
      BY <1>7, <1>8, <2>2, <3>1
  <2>3. CASE x # cur
    BY <1>7, <1>14, <2>3 DEF IInv, IdleWindow
  <2> QED
    BY <2>2, <2>3
<1>17. NoHastyTimeout'
  <2>1. why[cur] = "none"
    BY <1>2, <1>3 DEF IInv, ClosedHaveReason, Open
  <2> QED
    BY <1>1, <1>7, <2>1 DEF IInv, NoHastyTimeout
<1>18. ClosedHaveReason' /\ HeardIsKept' /\ Handling'
  BY <1>1 DEF IInv, ClosedHaveReason, HeardIsKept, Handling
<1> QED
  BY <1>12, <1>13, <1>15, <1>16, <1>17, <1>18 DEF IInv

LEMMA WaitFailsStep ==
    ASSUME IInv, wait_fails
    PROVE  IInv'
<1>1. cur \in Open /\ cur # None
  BY DEF wait_fails, IInv, OnlyOpenIsServed
<1>2. close(cur, "failed") /\ UNCHANGED <<data, peer, quiet, heard>>
  BY DEF wait_fails
<1> QED
  BY <1>1, <1>2, CloseStep DEF Reasons

LEMMA PollStep ==
    ASSUME IInv, NEW k \in Steps, poll(k)
    PROVE  IInv'
<1> USE DiscardAssumption, LazyDelayAssumption
<1>1. /\ cur = None
      /\ batch = {}
      /\ rev' = [s \in Sessions |-> Elapse(rev[s], k)]
      /\ quiet' = [s \in Sessions |-> IF s \in Open THEN quiet[s] + k ELSE quiet[s]]
      /\ batch' = edge
      /\ edge' = {}
      /\ UNCHANGED <<state, reusable, cur, pc, data, peer, active, heard, why>>
  BY DEF poll
<1>2. TypeOK
  BY DEF IInv
<1>3. k \in Int /\ k \in Nat
  OBVIOUS
<1>4. \A s \in Sessions :
        /\ rev'[s] \in Events
        /\ rev'[s].timer_set = rev[s].timer_set
        /\ rev'[s].timedout = rev[s].timedout
        /\ rev'[s].left = IF rev[s].timer_set THEN rev[s].left - k ELSE rev[s].left
  <2>1. \A s \in Sessions : rev[s] \in Events /\ rev'[s] = Elapse(rev[s], k)
    BY <1>1, <1>2 DEF TypeOK
  <2> QED
    BY <1>3, <2>1, ElapseFields
<1>5. Open' = Open /\ \A s \in Sessions : Readable(s)' = Readable(s)
  BY <1>1 DEF Open, Readable
<1>6. TypeOK'
  <2>1. rev' \in [Sessions -> Events]
    BY <1>1, <1>4
  <2>2. quiet' \in [Sessions -> Nat]
    BY <1>1, <1>2, <1>3 DEF TypeOK
  <2> QED
    BY <1>1, <1>2, <2>1, <2>2 DEF TypeOK
<1>7. OnlyOpenIsServed'
  BY <1>1, <1>4, <1>5 DEF IInv, OnlyOpenIsServed
<1>8. NoStrandedInput'
  BY <1>1, <1>4, <1>5 DEF IInv, NoStrandedInput, Open
<1>9. IdleWindow'
  <2>1. SUFFICES ASSUME NEW s \in Open
                 PROVE  rev'[s].left + quiet'[s] = rev[s].left + quiet[s]
    BY <1>1, <1>5 DEF IInv, IdleWindow
  <2>2. s \in Sessions /\ s \in Open \ {cur}
    BY <1>1 DEF Open
  <2>3. rev[s].timer_set
    BY <2>2 DEF IInv, NoStrandedInput
  <2>4. rev[s].left \in Int /\ quiet[s] \in Int
    BY <1>2, <2>2 DEF TypeOK, Events
  <2> QED
    BY <1>1, <1>3, <1>4, <2>2, <2>3, <2>4
<1>10. NoHastyTimeout'
  <2>1. \A s \in Sessions : why[s] = "timeout" => s \notin Open
    BY <1>2 DEF IInv, ClosedHaveReason, Open
  <2> QED
    BY <1>1, <2>1 DEF IInv, NoHastyTimeout
<1>11. ClosedHaveReason' /\ HeardIsKept' /\ Handling'
  BY <1>1 DEF IInv, ClosedHaveReason, HeardIsKept, Handling
<1> QED
  BY <1>6, <1>7, <1>8, <1>9, <1>10, <1>11 DEF IInv

\* What a client does is reported if its socket is registered.
LEMMA ClientStep ==
    ASSUME IInv, NEW s \in Sessions,
           state[s] # "closed",
           data' \in [Sessions -> Nat],
           peer' \in [Sessions -> {"up", "fin", "rst"}],
           \A x \in Sessions \ {s} : data'[x] = data[x] /\ peer'[x] = peer[x],
           arrive(s),
           UNCHANGED <<state, rev, reusable, cur, pc, active, batch, quiet, heard, why>>
    PROVE  IInv'
<1>1. edge' = IF s \in active THEN edge \cup {s} ELSE edge
  BY DEF arrive
<1>2. Open' = Open /\ \A x \in Sessions \ {s} : Readable(x)' = Readable(x)
  BY DEF Open, Readable
<1>3. TypeOK'
  BY <1>1 DEF IInv, TypeOK
<1>4. OnlyOpenIsServed'
  BY <1>1, <1>2 DEF IInv, OnlyOpenIsServed
<1>5. NoStrandedInput'
  BY <1>1, <1>2 DEF IInv, NoStrandedInput, Open
<1>6. IdleWindow' /\ NoHastyTimeout' /\ ClosedHaveReason' /\ HeardIsKept'
  BY <1>2 DEF IInv, IdleWindow, NoHastyTimeout, ClosedHaveReason, HeardIsKept
<1>7. Handling'
  <2>1. cur # None => cur \in Sessions
    BY DEF IInv, TypeOK
  <2> QED
    BY <1>1, <1>2, <2>1 DEF IInv, Handling
<1> QED
  BY <1>3, <1>4, <1>5, <1>6, <1>7 DEF IInv

LEMMA SendStep ==
    ASSUME IInv, NEW s \in Sessions, send(s)
    PROVE  IInv'
<1>1. data \in [Sessions -> Nat] /\ peer \in [Sessions -> {"up", "fin", "rst"}]
  BY DEF IInv, TypeOK
<1>2. data' = [data EXCEPT ![s] = @ + 1] /\ UNCHANGED peer
  BY DEF send
<1>3. /\ data' \in [Sessions -> Nat]
      /\ \A x \in Sessions \ {s} : data'[x] = data[x] /\ peer'[x] = peer[x]
  BY <1>1, <1>2
<1> QED
  BY <1>1, <1>2, <1>3, ClientStep DEF send

LEMMA FinishStep ==
    ASSUME IInv, NEW s \in Sessions, NEW how \in {"fin", "rst"}, finish(s, how)
    PROVE  IInv'
<1>1. data \in [Sessions -> Nat] /\ peer \in [Sessions -> {"up", "fin", "rst"}]
  BY DEF IInv, TypeOK
<1>2. /\ data' = [data EXCEPT ![s] = IF how = "rst" THEN 0 ELSE @]
      /\ peer' = [peer EXCEPT ![s] = how]
  BY DEF finish
<1>3. /\ data' \in [Sessions -> Nat]
      /\ peer' \in [Sessions -> {"up", "fin", "rst"}]
      /\ \A x \in Sessions \ {s} : data'[x] = data[x] /\ peer'[x] = peer[x]
  BY <1>1, <1>2
<1> QED
  BY <1>3, ClientStep DEF finish

-------------------------------------------------------------------------------

LEMMA InitIInv == Init => IInv
<1> SUFFICES ASSUME Init PROVE IInv
  OBVIOUS
<1>1. Open = {}
  BY DEF Init, Open
<1>2. TypeOK
  BY FreshEventFields DEF Init, TypeOK
<1> QED
  BY <1>1, <1>2, FreshEventFields
     DEF Init, IInv, OnlyOpenIsServed, NoStrandedInput, IdleWindow, NoHastyTimeout,
         Handling, ClosedHaveReason, HeardIsKept

LEMMA NextIInv == IInv /\ [Next]_vars => IInv'
<1> SUFFICES ASSUME IInv, [Next]_vars PROVE IInv'
  OBVIOUS
<1>1. ASSUME NEW s \in Sessions, handler(s) PROVE IInv'
  BY <1>1, HandlerStep
<1>2. ASSUME NEW s \in Sessions, deliver(s) PROVE IInv'
  BY <1>2, DeliverStep
<1>3. ASSUME NEW s \in Sessions, expire(s) PROVE IInv'
  BY <1>3, ExpireStep
<1>4. ASSUME NEW s \in Sessions, drain(s) PROVE IInv'
  BY <1>4, DrainStep
<1>5. ASSUME NEW k \in Steps, poll(k) PROVE IInv'
  BY <1>5, PollStep
<1>6. CASE recv
  BY <1>6, RecvStep
<1>7. CASE wait_for
  BY <1>7, WaitStep
<1>8. CASE wait_fails
  BY <1>8, WaitFailsStep
<1>9. ASSUME NEW s \in Sessions, send(s) PROVE IInv'
  BY <1>9, SendStep
<1>10. ASSUME NEW s \in Sessions, NEW how \in {"fin", "rst"}, finish(s, how) PROVE IInv'
  BY <1>10, FinishStep
<1>11. CASE UNCHANGED vars
  BY <1>11 DEF vars, IInv, TypeOK, OnlyOpenIsServed, NoStrandedInput, IdleWindow,
               NoHastyTimeout, Handling, ClosedHaveReason, HeardIsKept, Open, Readable
<1>12. CASE Worker
  BY <1>1, <1>2, <1>3, <1>4, <1>5, <1>6, <1>7, <1>8, <1>12 DEF Worker
<1>13. CASE Clients
  BY <1>9, <1>10, <1>13 DEF Clients
<1> QED
  BY <1>11, <1>12, <1>13 DEF Next

\* IInv is an invariant of the discard server (NdgStreamDiscardHandler.hpp:16-89).
THEOREM DiscardInvariant == Spec => []IInv
BY InitIInv, NextIInv, PTL DEF Spec

\* Types.
THEOREM DiscardTypeOK == Spec => []TypeOK
<1>1. IInv => TypeOK
  BY DEF IInv
<1> QED
  BY <1>1, DiscardInvariant, PTL

\* No event reaches the handler on behalf of a closed session.
THEOREM DiscardOnlyOpenIsServed == Spec => []OnlyOpenIsServed
<1>1. IInv => OnlyOpenIsServed
  BY DEF IInv
<1> QED
  BY <1>1, DiscardInvariant, PTL

\* Input never waits without an event that will make the worker read it.
THEOREM DiscardNoStrandedInput == Spec => []NoStrandedInput
<1>1. IInv => NoStrandedInput
  BY DEF IInv
<1> QED
  BY <1>1, DiscardInvariant, PTL

\* The idle timer stays within the lazy delay of the configured limit.
THEOREM DiscardIdleWindow == Spec => []IdleWindow
<1>1. IInv => IdleWindow
  BY DEF IInv
<1> QED
  BY <1>1, DiscardInvariant, PTL

\* No session is closed for silence before its time.
THEOREM DiscardNoHastyTimeout == Spec => []NoHastyTimeout
<1>1. IInv => NoHastyTimeout
  BY DEF IInv
<1> QED
  BY <1>1, DiscardInvariant, PTL

\* A session that has been heard from is not closed to free its connection.
THEOREM DiscardHeardIsKept == Spec => []HeardIsKept
<1>1. IInv => HeardIsKept
  BY DEF IInv
<1> QED
  BY <1>1, DiscardInvariant, PTL

-------------------------------------------------------------------------------

\* The step leaves session s, its timer and the reason of its end as they were.
Kept(s) == state'[s] = state[s] /\ rev'[s] = rev[s] /\ why'[s] = why[s]

\* Closing or entering a session leaves the others alone.
LEMMA OthersKept ==
    ASSUME IInv, NEW s \in Sessions, NEW x \in Sessions \ {s},
           \/ \E reason : close(s, reason)
           \/ \E ev, asked : enter(s, ev, asked)
    PROVE  Kept(x)
<1>1. TypeOK
  BY DEF IInv
<1>2. ASSUME NEW reason, close(s, reason) PROVE Kept(x)
  BY <1>1, <1>2 DEF close, Kept, TypeOK
<1>3. ASSUME NEW ev, NEW asked, enter(s, ev, asked) PROVE Kept(x)
  BY <1>1, <1>2, <1>3 DEF enter, Kept, TypeOK
<1> QED
  BY <1>2, <1>3

\* A session that is closed stays closed, with no timer and for the reason it
\* had: a second close, a late event or a timer changes nothing.
THEOREM DiscardClosedForGood == Spec => ClosedForGood
<1> DEFINE ForGood == \A s \in Sessions : state[s] = "closed" =>
                            /\ state'[s] = "closed"
                            /\ rev'[s] = rev[s]
                            /\ why'[s] = why[s]
<1>1. IInv /\ [Next]_vars => [ForGood]_vars
  <2> SUFFICES ASSUME IInv, Next, NEW x \in Sessions, state[x] = "closed" PROVE Kept(x)
    BY DEF Kept, vars
  <2>1. TypeOK /\ OnlyOpenIsServed /\ x \notin Open
    BY DEF IInv, Open
  <2>2. ASSUME NEW s \in Sessions, handler(s) PROVE Kept(x)
    <3>1. s # x /\ \E ev, asked : enter(s, ev, asked)
      BY <2>2 DEF handler
    <3> QED
      BY <3>1, OthersKept
  <2>3. ASSUME NEW s \in Sessions, deliver(s) PROVE Kept(x)
    <3>1. s # x /\ \E ev, asked : enter(s, ev, asked)
      BY <2>1, <2>3 DEF deliver, OnlyOpenIsServed
    <3> QED
      BY <3>1, OthersKept
  <2>4. ASSUME NEW s \in Sessions, expire(s) PROVE Kept(x)
    <3>1. s # x /\ \E ev, asked : enter(s, ev, asked)
      BY <2>1, <2>4 DEF expire, OnlyOpenIsServed, Due
    <3> QED
      BY <3>1, OthersKept
  <2>5. ASSUME NEW s \in Sessions, drain(s) PROVE Kept(x)
    <3>1. s # x /\ \E ev, asked : enter(s, ev, asked)
      BY <2>1, <2>5 DEF drain
    <3> QED
      BY <3>1, OthersKept
  <2>6. ASSUME NEW k \in Steps, poll(k) PROVE Kept(x)
    <3>1. ~rev[x].timer_set
      BY <2>1 DEF OnlyOpenIsServed
    <3> QED
      BY <2>6, <3>1 DEF poll, Elapse, Kept
  <2>7. ASSUME recv \/ wait_for \/ wait_fails PROVE Kept(x)
    <3>1. cur \in Open /\ cur \in Sessions /\ cur # x
      BY <2>1, <2>7 DEF recv, wait_for, wait_fails, OnlyOpenIsServed, Open
    <3>2. CASE recv /\ recvPiece
      BY <3>2 DEF recvPiece, Kept
    <3>3. CASE recv /\ recvAgain
      BY <2>1, <3>1, <3>3 DEF recvAgain, Kept, TypeOK
    <3>4. CASE recv /\ recvEnd
      BY <3>1, <3>4, OthersKept DEF recvEnd
    <3>5. CASE wait_for
      BY <2>1, <3>1, <3>5 DEF wait_for, Kept, TypeOK
    <3>6. CASE wait_fails
      BY <3>1, <3>6, OthersKept DEF wait_fails
    <3> QED
      BY <2>7, <3>2, <3>3, <3>4, <3>5, <3>6 DEF recv
  <2>8. CASE Clients
    BY <2>8 DEF Clients, send, finish, Kept
  <2> QED
    BY <2>2, <2>3, <2>4, <2>5, <2>6, <2>7, <2>8 DEF Next, Worker
<1> QED
  BY <1>1, DiscardInvariant, PTL DEF Spec, ClosedForGood
===============================================================================
