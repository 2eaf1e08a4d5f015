------------------------------ MODULE StreamTime ------------------------------
(***************************************************************************)
(* stream/time/NdgStreamTimeHandler.hpp: a server that sends the time and  *)
(* closes the session.  When the socket does not take the bytes the        *)
(* handler waits for it, 100 ms at the most: wait_for(100) without reset   *)
(* never moves a timer that is set.  Each time the handler is called it    *)
(* composes another time stamp.                                            *)
(*                                                                         *)
(* The loop of the worker and epoll are modelled as in StreamDiscard, for  *)
(* the write event of the connection.                                      *)
(***************************************************************************)
EXTENDS NgxEvent, FiniteSets

CONSTANTS
    Sessions,   \* the sessions that clients open
    Wait,       \* 100 ms
    Steps,      \* how long one turn of the loop may take
    None        \* no session

ASSUME TimeAssumption ==
    /\ Wait \in Nat
    /\ Steps \subseteq Nat \ {0}
    /\ None \notin Sessions

VARIABLES
    state,      \* of each session: "new", "open" or "closed"
    wev,        \* the write event of each connection
    buffered,   \* time stamps that nginx holds for each connection
    closing,    \* connections whose c->close is set: nginx wants them back
    cur, pc,    \* the session being handled, and where its handler is
    took,       \* environment: whole time stamps that the socket has taken
    peer,       \* environment: whether the client is up or has reset
    full,       \* environment: sockets that take no more bytes now
    active,     \* environment: sockets registered with epoll
    edge,       \* environment: sockets with a change not yet fetched
    batch,      \* fetched events whose handlers have not run yet
    age,        \* ghost: milliseconds since the session was accepted
    code        \* the code the session was closed with

vars == <<state, wev, buffered, closing, cur, pc, took, peer, full, active, edge, batch,
          age, code>>

-------------------------------------------------------------------------------

Open == {s \in Sessions : state[s] = "open"}

\* There is something for a send to find out: room, or a reset.
Writable(s) == s \notin full \/ peer[s] = "rst"

\* A socket may be full from the start: what it takes is up to the kernel.
Init ==
    /\ state = [s \in Sessions |-> "new"]
    /\ wev = [s \in Sessions |-> FreshEvent]
    /\ buffered = [s \in Sessions |-> 0]
    /\ closing = {}
    /\ cur = None
    /\ pc = "loop"
    /\ took = [s \in Sessions |-> 0]
    /\ peer = [s \in Sessions |-> "up"]
    /\ full \in SUBSET Sessions
    /\ active = {}
    /\ edge = {}
    /\ batch = {}
    /\ age = [s \in Sessions |-> 0]
    /\ code = [s \in Sessions |-> "none"]

-------------------------------------------------------------------------------
\* The handler.

\* Mutant: the connection is left in epoll.
closeKeepsActive(s, c) ==
    /\ state' = [state EXCEPT ![s] = "closed"]
    /\ wev' = [wev EXCEPT ![s] = FreshEvent]
    /\ code' = [code EXCEPT ![s] = c]
    /\ cur' = None
    /\ pc' = "loop"
    /\ edge' = edge \ {s}
    /\ batch' = batch \ {s}
    /\ UNCHANGED active

\* NgxStreamSession::close(code), at the end of the handler or in its catch.
close(s, c) ==
    /\ state' = [state EXCEPT ![s] = "closed"]
    /\ wev' = [wev EXCEPT ![s] = FreshEvent]
    /\ code' = [code EXCEPT ![s] = c]
    /\ cur' = None
    /\ pc' = "loop"
    /\ active' = active \ {s}
    /\ edge' = edge \ {s}
    /\ batch' = batch \ {s}

\* The first statements of time_write_handler, on the write event ev of s.
enter(s, ev) ==
    IF ev.timedout
    THEN close(s, "timeout")
    ELSE IF s \in closing
    THEN close(s, "error")
    ELSE /\ state' = [state EXCEPT ![s] = "open"]
         /\ wev' = [wev EXCEPT ![s] = ev]
         /\ cur' = s
         /\ pc' = IF ev.ready THEN "send" ELSE "wait"
         /\ batch' = batch \ {s}
         /\ UNCHANGED <<active, edge, code>>

\* Mutants of sendBlocks: the handler tries again until the socket has room;
\* conn->buffered is not looked at.
sendBlocksSpins ==
    /\ full' = full \cup {cur}
    /\ UNCHANGED <<state, wev, buffered, code, cur, pc, took, active, edge, batch>>

sendBlocksCloses ==
    /\ buffered' = [buffered EXCEPT ![cur] = @ + 1]
    /\ full' = full \cup {cur}
    /\ close(cur, "ok")
    /\ UNCHANGED took

\* The pool is exhausted, or the top filter returns NGX_ERROR.
sendFails ==
    /\ close(cur, "error")
    /\ UNCHANGED <<buffered, took, full>>

\* Mutant: the count of what is held is off by one after a flush.
sendAllOffByOne ==
    /\ cur \notin full
    /\ took' = [took EXCEPT ![cur] = @ + buffered[cur] + 1]
    /\ buffered' = [buffered EXCEPT ![cur] = @ - 1]
    /\ close(cur, "ok")
    /\ UNCHANGED full

\* The socket takes the new stamp and all that was held: the session is done.
sendAll ==
    /\ cur \notin full
    /\ took' = [took EXCEPT ![cur] = @ + buffered[cur] + 1]
    /\ buffered' = [buffered EXCEPT ![cur] = 0]
    /\ close(cur, "ok")
    /\ UNCHANGED full

\* The socket takes less than that: nginx holds the rest and clears ready.
sendBlocks ==
    /\ buffered' = [buffered EXCEPT ![cur] = @ + 1]
    /\ full' = full \cup {cur}
    /\ wev' = [wev EXCEPT ![cur].ready = FALSE]
    /\ pc' = "wait"
    /\ UNCHANGED <<state, code, cur, took, active, edge, batch>>

send ==
    /\ pc = "send"
    /\ \/ sendFails
       \/ peer[cur] = "up" /\ (sendAll \/ sendBlocks)
    /\ UNCHANGED <<closing, peer, age>>

\* ngx_handle_write_event registers the socket if it is neither registered nor
\* ready; epoll then reports at once what is the case already.
register(s) ==
    IF s \in active \/ wev[s].ready
    THEN UNCHANGED <<active, edge>>
    ELSE /\ active' = active \cup {s}
         /\ edge' = IF Writable(s) THEN edge \cup {s} ELSE edge

\* Mutants: the wait is started anew each time; the event is not registered.
wait_forResets ==
    /\ pc = "wait"
    /\ wev' = [wev EXCEPT ![cur] = Timeout(wev[cur], Wait, TRUE)]
    /\ register(cur)
    /\ cur' = None
    /\ pc' = "loop"
    /\ UNCHANGED <<state, buffered, closing, took, peer, full, batch, age, code>>

wait_forOnlyTimer ==
    /\ pc = "wait"
    /\ wev' = [wev EXCEPT ![cur] = Timeout(wev[cur], Wait, FALSE)]
    /\ cur' = None
    /\ pc' = "loop"
    /\ UNCHANGED <<state, buffered, closing, took, peer, full, active, edge, batch, age, code>>

\* wev.wait_for(100)
wait_for ==
    /\ pc = "wait"
    /\ wev' = [wev EXCEPT ![cur] = Timeout(wev[cur], Wait, FALSE)]
    /\ register(cur)
    /\ cur' = None
    /\ pc' = "loop"
    /\ UNCHANGED <<state, buffered, closing, took, peer, full, batch, age, code>>

\* wait_for, when epoll refuses the socket: require() throws.
wait_fails ==
    /\ pc = "wait"
    /\ cur \notin active
    /\ close(cur, "error")
    /\ UNCHANGED <<buffered, closing, took, peer, full, age>>

-------------------------------------------------------------------------------
\* The loop of the worker.

\* A session reaches the content handler, which installs time_write_handler and
\* runs it.  nginx takes a new connection to be writable; a handshake or a
\* filter that ran before may have found that it is not.
handler(s) ==
    /\ cur = None
    /\ state[s] = "new"
    /\ \E b \in BOOLEAN : enter(s, [FreshEvent EXCEPT !.ready = b])
    /\ UNCHANGED <<buffered, closing, took, peer, full, age>>

deliver(s) ==
    /\ cur = None
    /\ s \in batch
    /\ enter(s, [wev[s] EXCEPT !.ready = TRUE])
    /\ UNCHANGED <<buffered, closing, took, peer, full, age>>

expire(s) ==
    /\ cur = None
    /\ batch = {}
    /\ Due(wev[s])
    /\ enter(s, Expire(wev[s]))
    /\ UNCHANGED <<buffered, closing, took, peer, full, age>>

\* ngx_drain_connections sets c->close and calls the read handler, which does
\* nothing: the session goes on until its write event is next handled.
drain(s) ==
    /\ cur = None
    /\ s \in Open \ closing
    /\ closing' = closing \cup {s}
    /\ UNCHANGED <<state, wev, buffered, cur, pc, took, peer, full, active, edge, batch, age, code>>

poll(k) ==
    /\ cur = None
    /\ batch = {}
    /\ \A s \in Sessions : ~Due(wev[s])
    /\ wev' = [s \in Sessions |-> Elapse(wev[s], k)]
    /\ age' = [s \in Sessions |-> IF s \in Open THEN age[s] + k ELSE age[s]]
    /\ batch' = edge
    /\ edge' = {}
    /\ UNCHANGED <<state, buffered, closing, cur, pc, took, peer, full, active, code>>

-------------------------------------------------------------------------------
\* The clients.

changes(s) == edge' = IF s \in active THEN edge \cup {s} ELSE edge

\* The client reads, so its socket has room again.
drains(s) ==
    /\ state[s] # "closed"
    /\ s \in full
    /\ full' = full \ {s}
    /\ changes(s)
    /\ UNCHANGED <<state, wev, buffered, closing, cur, pc, took, peer, active, batch, age, code>>

resets(s) ==
    /\ state[s] # "closed"
    /\ peer[s] = "up"
    /\ peer' = [peer EXCEPT ![s] = "rst"]
    /\ changes(s)
    /\ UNCHANGED <<state, wev, buffered, closing, cur, pc, took, full, active, batch, age, code>>

-------------------------------------------------------------------------------

Worker ==
    \/ \E s \in Sessions : handler(s) \/ deliver(s) \/ expire(s) \/ drain(s)
    \/ \E k \in Steps : poll(k)
    \/ send
    \/ wait_for
    \/ wait_fails

Clients == \E s \in Sessions : drains(s) \/ resets(s)

Next == Worker \/ Clients

Spec == Init /\ [][Next]_vars

\* The worker keeps turning its loop and finishes each handler.
FairSpec ==
    /\ Spec
    /\ WF_vars(send)
    /\ WF_vars(wait_for)
    /\ WF_vars(\E s \in Sessions : deliver(s))
    /\ WF_vars(\E s \in Sessions : expire(s))
    /\ WF_vars(\E k \in Steps : poll(k))

-------------------------------------------------------------------------------

\* Types.
TypeOK ==
    /\ state \in [Sessions -> {"new", "open", "closed"}]
    /\ wev \in [Sessions -> Events]
    /\ buffered \in [Sessions -> Nat]
    /\ closing \in SUBSET Sessions
    /\ cur \in Sessions \cup {None}
    /\ pc \in {"loop", "send", "wait"}
    /\ took \in [Sessions -> Nat]
    /\ peer \in [Sessions -> {"up", "rst"}]
    /\ full \in SUBSET Sessions
    /\ active \in SUBSET Sessions
    /\ edge \in SUBSET Sessions
    /\ batch \in SUBSET Sessions
    /\ age \in [Sessions -> Nat]
    /\ code \in [Sessions -> {"none", "ok", "timeout", "error"}]

\* A session that the worker has left waits with a timer, registered, and if its
\* socket has room, or was reset, an event for it is on its way.
NoStrandedOutput ==
    \A s \in Open \ {cur} :
        /\ wev[s].timer_set
        /\ s \in active
        /\ Writable(s) => s \in edge \cup batch

\* Nothing can reach the handler on behalf of a session that is not open.
OnlyOpenIsServed ==
    /\ active \cup edge \cup batch \subseteq Open
    /\ \A s \in Sessions : wev[s].timer_set => s \in Open

\* The 100 ms are counted from the accept, however often the handler has been
\* called in between and found the socket full again.
HardDeadline ==
    \A s \in Sessions : wev[s].timer_set => wev[s].left + age[s] = Wait

\* A session closed with NGX_STREAM_OK has handed all its bytes to the socket,
\* one time stamp at least.
OkMeansSent ==
    \A s \in Sessions :
        code[s] = "ok" => buffered[s] = 0 /\ took[s] > 0

\* What holds half-way through a handler: it waits only after the socket was
\* found full, and room made after that is reported if the socket is registered.
Handling ==
    /\ cur # None <=> pc # "loop"
    /\ cur # None => cur \in Open
    /\ pc = "wait" => ~wev[cur].ready
    /\ pc = "wait" /\ cur \in active /\ Writable(cur) => cur \in edge \cup batch

\* The first wait is the one that starts the clock.
UnsetIsYoung ==
    \A s \in Sessions : state[s] # "closed" /\ ~wev[s].timer_set => age[s] = 0

ClosedHaveCode == \A s \in Sessions : code[s] # "none" <=> state[s] = "closed"

\* The inductive invariant.
IInv ==
    /\ TypeOK
    /\ OnlyOpenIsServed
    /\ NoStrandedOutput
    /\ HardDeadline
    /\ OkMeansSent
    /\ Handling
    /\ UnsetIsYoung
    /\ ClosedHaveCode

\* Every session is closed, whatever its client does or fails to do.
EverySessionEnds == \A s \in Sessions : state[s] = "open" ~> state[s] = "closed"

===============================================================================
