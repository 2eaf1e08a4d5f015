---------------------------- MODULE StreamDiscard -----------------------------
(***************************************************************************)
(* stream/discard/NdgStreamDiscardHandler.hpp: a server that reads and     *)
(* forgets what its clients send (RFC 863), and closes a session whose     *)
(* client has been silent for discard_timeout milliseconds.                *)
(*                                                                         *)
(* The worker is one thread.  A turn of its loop fetches the events epoll  *)
(* has (Poll), runs their handlers, then the handlers of due timers.       *)
(* Clients act at any time, also between two steps of a handler.           *)
(* The module is written for Linux: epoll reports a descriptor once per    *)
(* arrival of input (edge-triggered), so a handler that does not read all  *)
(* there is may never hear of the rest.                                    *)
(***************************************************************************)
EXTENDS NgxEvent, FiniteSets

CONSTANTS
    Sessions,   \* the sessions that clients open
    IdleLimit,  \* discard_timeout, in milliseconds
    MaxData,    \* bound on the 64-byte pieces unread in a socket
    Steps,      \* how long one turn of the loop may take
    None        \* no session

ASSUME DiscardAssumption ==
    /\ IdleLimit \in Nat
    /\ MaxData \in Nat
    /\ Steps \subseteq Nat \ {0}
    /\ None \notin Sessions

VARIABLES
    state,      \* of each session: "new", "open" or "closed"
    rev,        \* the read event of each connection
    reusable,   \* connections in nginx's list of reusable ones
    cur, pc,    \* the session being handled, and where its handler is
    data, peer, \* environment: unread pieces, and whether the client is up
    active,     \* environment: sockets registered with epoll
    edge,       \* environment: sockets with an arrival not yet fetched
    batch,      \* fetched events whose handlers have not run yet
    quiet,      \* ghost: milliseconds since the worker last waited for s
    heard,      \* ghost: sessions that recv has returned bytes of
    why         \* ghost: what closed s

vars == <<state, rev, reusable, cur, pc, data, peer, active, edge,
          batch, quiet, heard, why>>

-------------------------------------------------------------------------------

Open == {s \in Sessions : state[s] = "open"}

\* There is something for recv to return: bytes, end of file or an error.
Readable(s) == data[s] > 0 \/ peer[s] # "up"

\* A connection that nginx accepts is reusable or not: that is decided before
\* this handler is called, by code that is not part of it.
Init ==
    /\ state = [s \in Sessions |-> "new"]
    /\ rev = [s \in Sessions |-> FreshEvent]
    /\ reusable \in SUBSET Sessions
    /\ cur = None
    /\ pc = "loop"
    /\ data = [s \in Sessions |-> 0]
    /\ peer = [s \in Sessions |-> "up"]
    /\ active = {}
    /\ edge = {}
    /\ batch = {}
    /\ quiet = [s \in Sessions |-> 0]
    /\ heard = {}
    /\ why = [s \in Sessions |-> "none"]

-------------------------------------------------------------------------------
\* The handler.

\* Mutant: the session is finalized but its connection stays in the tree.
closeLeavesTimer(s, reason) ==
    /\ state' = [state EXCEPT ![s] = "closed"]
    /\ UNCHANGED rev
    /\ reusable' = reusable \ {s}
    /\ active' = active \ {s}
    /\ edge' = edge \ {s}
    /\ batch' = batch \ {s}
    /\ why' = [why EXCEPT ![s] = reason]
    /\ cur' = None
    /\ pc' = "loop"

\* NgxStreamSession::close: nginx closes the connection, which takes its events
\* out of the timer tree and out of epoll; a fetched event is then stale.
close(s, reason) ==
    /\ state' = [state EXCEPT ![s] = "closed"]
    /\ rev' = [rev EXCEPT ![s] = FreshEvent]
    /\ reusable' = reusable \ {s}
    /\ active' = active \ {s}
    /\ edge' = edge \ {s}
    /\ batch' = batch \ {s}
    /\ why' = [why EXCEPT ![s] = reason]
    /\ cur' = None
    /\ pc' = "loop"

\* Mutant: the handler does not look at expired().
enterForgetsExpired(s, ev, asked) ==
    IF asked
    THEN close(s, "asked")
    ELSE /\ state' = [state EXCEPT ![s] = "open"]
         /\ rev' = [rev EXCEPT ![s] = ev]
         /\ cur' = s
         /\ pc' = IF ev.ready THEN "recv" ELSE "wait"
         /\ batch' = batch \ {s}
         /\ UNCHANGED <<reusable, active, edge, why>>

\* The first statements of discard_read_handler, on the read event ev of s;
\* asked is c->close: nginx wants the connection back.
enter(s, ev, asked) ==
    IF ev.timedout
    THEN close(s, "timeout")
    ELSE IF asked
    THEN close(s, "asked")
    ELSE /\ state' = [state EXCEPT ![s] = "open"]
         /\ rev' = [rev EXCEPT ![s] = ev]
         /\ cur' = s
         /\ pc' = IF ev.ready THEN "recv" ELSE "wait"
         /\ batch' = batch \ {s}
         /\ UNCHANGED <<reusable, active, edge, why>>

\* Mutants: one recv is taken to be enough; the connection stays reusable; the
\* loop is not left when recv returns nothing.
recvPieceOnce ==
    /\ data[cur] > 0
    /\ heard' = heard \cup {cur}
    /\ data' = [data EXCEPT ![cur] = @ - 1]
    /\ reusable' = reusable \ {cur}
    /\ pc' = "wait"
    /\ UNCHANGED <<state, rev, cur, active, edge, batch, why>>

recvPieceReusable ==
    /\ data[cur] > 0
    /\ heard' = heard \cup {cur}
    /\ data' = [data EXCEPT ![cur] = @ - 1]
    /\ UNCHANGED <<state, rev, reusable, cur, pc, active, edge, batch, why>>

recvPieceAnyway ==
    /\ heard' = heard \cup {cur}
    /\ data' = [data EXCEPT ![cur] = @ - 1]
    /\ reusable' = reusable \ {cur}
    /\ UNCHANGED <<state, rev, cur, pc, active, edge, batch, why>>

\* conn.recv returns n > 0, and the loop goes round.
recvPiece ==
    /\ data[cur] > 0
    /\ heard' = heard \cup {cur}
    /\ data' = [data EXCEPT ![cur] = @ - 1]
    /\ reusable' = reusable \ {cur}
    /\ UNCHANGED <<state, rev, cur, pc, active, edge, batch, why>>

\* conn.recv returns NGX_AGAIN, and has cleared ready.
recvAgain ==
    /\ data[cur] = 0
    /\ peer[cur] = "up"
    /\ rev' = [rev EXCEPT ![cur].ready = FALSE]
    /\ pc' = "wait"
    /\ UNCHANGED <<state, reusable, cur, data, active, edge, batch, heard, why>>

\* conn.recv returns 0 or NGX_ERROR, and fail() throws.
recvEnd ==
    /\ data[cur] = 0
    /\ peer[cur] # "up"
    /\ close(cur, "eof")
    /\ UNCHANGED <<data, heard>>

recv ==
    /\ pc = "recv"
    /\ recvPiece \/ recvAgain \/ recvEnd
    /\ UNCHANGED <<peer, quiet>>

\* ngx_handle_read_event registers the socket if it is neither registered nor
\* ready; epoll then reports at once what is there already.
register(s) ==
    IF s \in active \/ rev[s].ready
    THEN UNCHANGED <<active, edge>>
    ELSE /\ active' = active \cup {s}
         /\ edge' = IF Readable(s) THEN edge \cup {s} ELSE edge

\* Mutant: the timer is only set the first time.
wait_forNoReset ==
    /\ pc = "wait"
    /\ rev' = [rev EXCEPT ![cur] = Timeout(rev[cur], IdleLimit, FALSE)]
    /\ quiet' = [quiet EXCEPT ![cur] = 0]
    /\ register(cur)
    /\ cur' = None
    /\ pc' = "loop"
    /\ UNCHANGED <<state, reusable, data, peer, batch, heard, why>>

\* rev.wait_for(cf.timeout, true)
wait_for ==
    /\ pc = "wait"
    /\ rev' = [rev EXCEPT ![cur] = Timeout(rev[cur], IdleLimit, TRUE)]
    /\ quiet' = [quiet EXCEPT ![cur] = 0]
    /\ register(cur)
    /\ cur' = None
    /\ pc' = "loop"
    /\ UNCHANGED <<state, reusable, data, peer, batch, heard, why>>

\* wait_for, when epoll refuses the socket: require() throws.
wait_fails ==
    /\ pc = "wait"
    /\ cur \notin active
    /\ ~rev[cur].ready
    /\ close(cur, "failed")
    /\ UNCHANGED <<data, peer, quiet, heard>>

-------------------------------------------------------------------------------
\* The loop of the worker.

\* A connection is accepted and its session reaches the content handler, which
\* installs discard_read_handler and runs it; the socket is known to be
\* readable only if nginx was told so (deferred accept).
handler(s) ==
    /\ cur = None
    /\ state[s] = "new"
    /\ \E b \in {FALSE, Readable(s)} :
            enter(s, [FreshEvent EXCEPT !.ready = b], FALSE)
    /\ UNCHANGED <<data, peer, quiet, heard>>

deliver(s) ==
    /\ cur = None
    /\ s \in batch
    /\ enter(s, [rev[s] EXCEPT !.ready = TRUE], FALSE)
    /\ UNCHANGED <<data, peer, quiet, heard>>

expire(s) ==
    /\ cur = None
    /\ batch = {}
    /\ Due(rev[s])
    /\ enter(s, Expire(rev[s]), FALSE)
    /\ UNCHANGED <<data, peer, quiet, heard>>

\* ngx_drain_connections, when nginx runs out of connections.
drain(s) ==
    /\ cur = None
    /\ s \in Open \cap reusable
    /\ enter(s, rev[s], TRUE)
    /\ UNCHANGED <<data, peer, quiet, heard>>

\* Due timers are expired before the loop waits again.
poll(k) ==
    /\ cur = None
    /\ batch = {}
    /\ \A s \in Sessions : ~Due(rev[s])
    /\ rev' = [s \in Sessions |-> Elapse(rev[s], k)]
    /\ quiet' = [s \in Sessions |-> IF s \in Open THEN quiet[s] + k ELSE quiet[s]]
    /\ batch' = edge
    /\ edge' = {}
    /\ UNCHANGED <<state, reusable, cur, pc, data, peer, active, heard, why>>

-------------------------------------------------------------------------------
\* The clients.

arrive(s) == edge' = IF s \in active THEN edge \cup {s} ELSE edge

send(s) ==
    /\ state[s] # "closed"
    /\ peer[s] = "up"
    /\ data[s] < MaxData
    /\ data' = [data EXCEPT ![s] = @ + 1]
    /\ arrive(s)
    /\ UNCHANGED <<state, rev, reusable, cur, pc, peer, active, batch, quiet, heard, why>>

\* The client ends its side; a reset also loses what was not read.
finish(s, how) ==
    /\ state[s] # "closed"
    /\ peer[s] = "up"
    /\ peer' = [peer EXCEPT ![s] = how]
    /\ data' = [data EXCEPT ![s] = IF how = "rst" THEN 0 ELSE @]
    /\ arrive(s)
    /\ UNCHANGED <<state, rev, reusable, cur, pc, active, batch, quiet, heard, why>>

-------------------------------------------------------------------------------

Worker ==
    \/ \E s \in Sessions : handler(s) \/ deliver(s) \/ expire(s) \/ drain(s)
    \/ \E k \in Steps : poll(k)
    \/ recv
    \/ wait_for
    \/ wait_fails

Clients == \E s \in Sessions : send(s) \/ finish(s, "fin") \/ finish(s, "rst")

Next == Worker \/ Clients

Spec == Init /\ [][Next]_vars

\* The worker keeps turning its loop and finishes each handler.
FairSpec ==
    /\ Spec
    /\ WF_vars(recv)
    /\ WF_vars(wait_for)
    /\ WF_vars(\E s \in Sessions : handler(s) \/ deliver(s))
    /\ WF_vars(\E s \in Sessions : expire(s))
    /\ WF_vars(\E k \in Steps : poll(k))

-------------------------------------------------------------------------------

\* Types; a closed session is in none of the worker's or epoll's sets.
TypeOK ==
    /\ state \in [Sessions -> {"new", "open", "closed"}]
    /\ rev \in [Sessions -> Events]
    /\ reusable \in SUBSET Sessions
    /\ cur \in Sessions \cup {None}
    /\ pc \in {"loop", "recv", "wait"}
    /\ data \in [Sessions -> Nat]
    /\ peer \in [Sessions -> {"up", "fin", "rst"}]
    /\ active \in SUBSET Sessions
    /\ edge \in SUBSET Sessions
    /\ batch \in SUBSET Sessions
    /\ quiet \in [Sessions -> Nat]
    /\ heard \in SUBSET Sessions
    /\ why \in [Sessions -> {"none", "timeout", "asked", "eof", "failed"}]

\* Nothing can reach a handler on behalf of a session that is not open: no
\* timer, no registration and no fetched event is left of it.
OnlyOpenIsServed ==
    /\ cur # None <=> pc # "loop"
    /\ cur # None => cur \in Open
    /\ active \cup edge \cup batch \subseteq Open
    /\ \A s \in Sessions : rev[s].timer_set => s \in Open

\* Whatever arrives, and whenever it does, also between the recv that returned
\* NGX_AGAIN and the registration with epoll: an open session that the worker
\* has left waits with a timer and a registration, and if there is something to
\* read, an event for it is on its way.
NoStrandedInput ==
    \A s \in Open \ {cur} :
        /\ rev[s].timer_set
        /\ ~rev[s].timedout
        /\ s \in active
        /\ Readable(s) => s \in edge \cup batch

\* The timer of a waiting session comes due IdleLimit milliseconds after the
\* worker last waited for it, or earlier by less than nginx's lazy delay,
\* because a reset closer than that to the old key is not carried out.
IdleWindow ==
    \A s \in Open \ {cur} :
        LET due == rev[s].left + quiet[s]
        IN  /\ due <= IdleLimit
            /\ due = IdleLimit \/ IdleLimit - due < LazyDelay

\* A session that was closed for silence had been silent.
NoHastyTimeout ==
    \A s \in Sessions : why[s] = "timeout" => quiet[s] > IdleLimit - LazyDelay
                                              \/ quiet[s] >= IdleLimit

\* A connection that has been heard from is no longer one that nginx may take
\* back: its session is never closed for that reason.
HeardIsKept ==
    \A s \in heard : s \notin reusable /\ why[s] # "asked"

\* What holds of the session being handled: it has not expired, it stops waiting
\* for input only after recv has said that there is none, and what arrives after
\* that is reported if the socket is registered.
Handling ==
    cur # None =>
        /\ ~rev[cur].timedout
        /\ rev[cur].timer_set => rev[cur].left + quiet[cur] <= IdleLimit
        /\ pc = "wait" => ~rev[cur].ready
        /\ pc = "wait" /\ cur \in active /\ Readable(cur) => cur \in edge \cup batch

ClosedHaveReason == \A s \in Sessions : why[s] # "none" <=> state[s] = "closed"

\* The inductive invariant.
IInv ==
    /\ TypeOK
    /\ OnlyOpenIsServed
    /\ NoStrandedInput
    /\ IdleWindow
    /\ NoHastyTimeout
    /\ Handling
    /\ ClosedHaveReason
    /\ HeardIsKept

\* A closed session stays as it was left, for the reason it was closed first.
ClosedForGood ==
    [][\A s \in Sessions : state[s] = "closed" =>
            /\ state'[s] = "closed"
            /\ rev'[s] = rev[s]
            /\ why'[s] = why[s]]_vars

\* If from some time on no client sends, every session that was opened is
\* closed, whether its client ends it or not.
Silence == <>[][\A s \in Sessions : data'[s] <= data[s]]_vars
SilentSessionsClose ==
    Silence => \A s \in Sessions : state[s] = "open" ~> state[s] = "closed"

===============================================================================
