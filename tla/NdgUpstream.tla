------------------------------ MODULE NdgUpstream -----------------------------
(***************************************************************************)
(* ngxpp/NgxUpstream.hpp, legacy/upstream and legacy/loadbalance: a request *)
(* that is answered by a backend.  The backend is sent four bytes; it      *)
(* answers with two bytes that announce a length and then a body, and      *)
(* closes.  ngx_http_upstream, which calls back the module, is external;   *)
(* so is ngx_http_finalize_request.                                        *)
(*                                                                         *)
(*   count         r->main->count, the references to the request           *)
(*   onstack       whether NdgUpstreamHandler::handler has not returned    *)
(*   state         where ngx_http_upstream is                              *)
(*   request_bufs  u->request_bufs, a message a link                       *)
(*   peer          the peer data, see NdgLoadBalance                       *)
(*   buffer        u->buffer between pos and last, a byte a Nat            *)
(*   answer, line  the answer of the backend, and what of it has yet to    *)
(*                 arrive                                                  *)
(*   heard         the messages that backends received, in order           *)
(*   wire          the response to the client: declared length, body,      *)
(*                 whether it was ended, and its code                      *)
(*   worker        "up", or "crashed"                                      *)
(*   block         the upstream block: its servers, and whether it has     *)
(*                 ndg_load_balance                                        *)
(*                                                                         *)
(* The answer is what the backend that was asked has to say; it may break  *)
(* off at any byte.                                                        *)
(***************************************************************************)
EXTENDS NdgLoadBalance, Integers, Sequences

CONSTANTS
    Methods,    \* "GET" and others
    Args,       \* the query strings, sequences of characters
    Answers,    \* what backends answer, sequences of bytes
    NoHeader    \* a value outside Nat

ASSUME UpstreamAssumption ==
    /\ Answers \subseteq Seq(Nat)
    /\ NoHeader \notin Nat

GET == "GET"

VARIABLES count, onstack, state, request_bufs, peer, buffer, line, answer, heard,
          wire, worker, block

vars == <<count, onstack, state, request_bufs, peer, buffer, line, answer, heard,
          wire, worker, block>>

up == <<request_bufs, peer, buffer, line, answer, heard>>

NoWire == [declared |-> NoHeader, sent |-> <<>>, ended |-> FALSE, code |-> 0]

Init ==
    /\ block \in [servers: Blocks, balance: BOOLEAN]
    /\ count = 1
    /\ onstack = FALSE
    /\ state = "content"
    /\ request_bufs = <<>>
    /\ peer = init_peer(block.servers)
    /\ buffer = <<>>
    /\ line = <<>>
    /\ answer = <<>>
    /\ heard = <<>>
    /\ wire = NoWire
    /\ worker = "up"

-------------------------------------------------------------------------------
\* The configuration: what NdgUpstreamConf::create leaves 0 and no directive or
\* merge sets.

\* Mutant: the default of nginx's own proxy.
createRetries == {"error", "timeout"}

\* NdgUpstreamConf::create: next_upstream is a mask without a bit.
create == {}

-------------------------------------------------------------------------------
\* What ends a request.

\* ngx_http_finalize_request drops a reference; the last one frees the request.
\* An answer that nginx makes itself is complete at once.
Close(code) ==
    /\ count' = count - 1
    /\ state' = "done"
    /\ wire' = [wire EXCEPT !.code = code]

\* ngx_http_terminate_request frees the request whatever its count.
Terminate ==
    /\ count' = 0
    /\ state' = "done"
    /\ onstack' = FALSE
    /\ wire' = [wire EXCEPT !.code = 499]

\* ngx_http_upstream_finalize_request releases the peer first, and the reference
\* to the request last.
finalize(code) ==
    /\ releasable(peer)
    /\ peer' = free(block.servers, peer)
    /\ Close(code)
    /\ UNCHANGED <<onstack, request_bufs, buffer, line, answer, heard, worker, block>>

\* ngx_http_upstream_next: if the configuration allows it, there are attempts left
\* and the failure is one to try again after, connect again, with the request and
\* the buffer reset.
next(ft, code) ==
    \/ /\ ft \in create
       /\ releasable(peer)
       /\ peer' = free(block.servers, peer)
       /\ peer'.left > 0
       /\ state' = "connect"
       /\ buffer' = <<>>
       /\ UNCHANGED <<count, onstack, request_bufs, line, answer, heard, wire, worker,
                      block>>
    \/ /\ ft \notin create \/ free(block.servers, peer).left = 0
       /\ finalize(code)

-------------------------------------------------------------------------------
\* The module.

\* NdgUpstreamCallback::create_request: four bytes of the arguments.
create_request(args) ==
    IF Len(args) >= 4 THEN SubSeq(args, 1, 4) ELSE <<"x", "x", "x", "x">>

\* NgxUpstream::request appends to the buffers there are.
request(bufs, msg) == Append(bufs, msg)

\* Mutants: the request is counted once for two users; the length is read when
\* there is only one byte of it.
startUncounted == /\ count' = count
                  /\ onstack' = TRUE

processEarly(b) == IF Len(b) < 1 THEN {}
                   ELSE {[length |-> b[1] * 256 + (IF Len(b) > 1 THEN b[2] ELSE 0),
                          rest |-> SubSeq(b, 3, Len(b))]}

\* NgxUpstreamHelper::start, without the body: the count is for
\* ngx_http_upstream_init, which the handler's frame does not outlive.
start == /\ count' = count + 1
         /\ onstack' = TRUE

\* NdgUpstreamCallback::process_header: NGX_AGAIN, or the length and what is
\* left in the buffer.
process_header(b) == IF Len(b) < 2 THEN {}
                     ELSE {[length |-> b[1] * 256 + b[2],
                            rest |-> SubSeq(b, 3, Len(b))]}

\* ngx_http_upstream_create fails, or the body cannot be discarded: the handler
\* returns the status that the exception carries.
notCreated ==
    /\ \E code \in {400, 500} : Close(code)
    /\ UNCHANGED <<onstack, request_bufs>>

\* ngx_http_upstream_init as far as create_request.
created(args) ==
    /\ start
    /\ request_bufs' = request(request_bufs, create_request(args))
    /\ state' = "connect"
    /\ wire' = wire

\* NdgUpstreamHandler::handler
handler(method, args) ==
    /\ state = "content"
    /\ \/ method # GET /\ Close(405) /\ UNCHANGED <<onstack, request_bufs>>
       \/ method = GET /\ (notCreated \/ created(args))
    /\ UNCHANGED <<peer, buffer, line, answer, heard, worker, block>>

\* An allocation of create_request, or of the peer data, fails: the exception
\* goes through nginx's frames to the handler, which returns NGX_ERROR.
throws ==
    /\ onstack
    /\ state = "connect"
    /\ peer = init_peer(block.servers)
    /\ Terminate
    /\ UNCHANGED <<up, worker, block>>

\* The handler returns NGX_DONE once ngx_http_upstream_init has nothing more to
\* do for now: finalize_request(NGX_DONE) drops the reference of the caller.
returns ==
    /\ onstack
    /\ state # "connect"
    /\ worker = "up"
    /\ onstack' = FALSE
    /\ count' = count - 1
    /\ UNCHANGED <<state, up, wire, worker, block>>

-------------------------------------------------------------------------------
\* ngx_http_upstream and the network.

\* ngx_http_upstream_connect: a peer, and an attempt to reach it.
connect ==
    /\ state = "connect"
    /\ peer' \in IF block.balance THEN get(block.servers, peer)
                ELSE round_robin(block.servers, peer)
    /\ state' = "connecting"
    /\ UNCHANGED <<count, onstack, request_bufs, buffer, line, answer, heard, wire,
                   worker, block>>

\* Round robin has no peer to offer: all of them failed other requests lately.
busy ==
    /\ state = "connect"
    /\ block.balance => single(block.servers)
    /\ next("nolive", 502)

\* The peer is reached and the whole message is sent; on a later attempt the
\* buffers start anew.
send_request ==
    /\ state = "connecting"
    /\ heard' = heard \o request_bufs
    /\ \E a \in Answers : line' = a /\ answer' = a
    /\ state' = "header"
    /\ UNCHANGED <<count, onstack, request_bufs, peer, buffer, wire, worker, block>>

\* n bytes arrive; process_header is called until it does not return NGX_AGAIN,
\* and then the client gets the header and what there is of the body.
receive(n) ==
    /\ state = "header"
    /\ n <= Len(line)
    /\ line' = SubSeq(line, n + 1, Len(line))
    /\ LET b == buffer \o SubSeq(line, 1, n) IN
       \/ /\ process_header(b) = {}
          /\ buffer' = b
          /\ UNCHANGED <<state, wire>>
       \/ \E h \in process_header(b) :
          /\ state' = "body"
          /\ buffer' = <<>>
          /\ wire' = [declared |-> h.length, sent |-> h.rest, ended |-> FALSE, code |-> 200]
    /\ UNCHANGED <<count, onstack, request_bufs, peer, answer, heard, worker, block>>

\* Body bytes are passed on unbuffered, and not counted: there is no input filter.
relay(n) ==
    /\ state = "body"
    /\ n <= Len(line)
    /\ line' = SubSeq(line, n + 1, Len(line))
    /\ wire' = [wire EXCEPT !.sent = @ \o SubSeq(line, 1, n)]
    /\ UNCHANGED <<count, onstack, state, request_bufs, peer, buffer, answer, heard,
                   worker, block>>

\* The backend closes, after its answer or before its end: the end of the body.
eof ==
    /\ state = "body"
    /\ releasable(peer)
    /\ peer' = free(block.servers, peer)
    /\ count' = count - 1
    /\ state' = "done"
    /\ wire' = [wire EXCEPT !.ended = TRUE]
    /\ UNCHANGED <<onstack, request_bufs, buffer, line, answer, heard, worker, block>>

\* The peer refuses, resets or closes before the header is complete.
fails ==
    /\ state \in {"connecting", "header"}
    /\ next("error", 502)

\* One of the three timers of NdgUpstreamConf::create expires.
expires ==
    /\ ~onstack
    /\ \/ state \in {"connecting", "header"} /\ next("timeout", 504)
       \/ state = "body" /\ finalize(499)

\* The client goes away.
aborts ==
    /\ ~onstack
    /\ state \in {"connecting", "header", "body"}
    /\ finalize(499)

\* Each of these releases the peer, through a pointer that round robin has not
\* set if the peer was drawn: the worker dies.
crashes ==
    /\ worker = "up"
    /\ state \in {"connecting", "header", "body"}
    /\ ~releasable(peer)
    /\ worker' = "crashed"
    /\ state' = "done"
    /\ UNCHANGED <<count, onstack, up, wire, block>>

Next ==
    \/ \E m \in Methods, a \in Args : handler(m, a)
    \/ throws
    \/ returns
    \/ connect
    \/ busy
    \/ send_request
    \/ \E n \in {1, 2, Len(line)} \ {0} : receive(n) \/ relay(n)
    \/ eof
    \/ fails
    \/ expires
    \/ aborts
    \/ crashes

Spec == Init /\ [][Next]_vars

-------------------------------------------------------------------------------

\* The request is counted once while the upstream works on it and once while
\* its handler runs, so it is freed when the last of the two is over, whichever
\* that is, and not before: connect may fail before the handler has returned.
CountHolds ==
    worker = "up" =>
        count = (IF state = "done" THEN 0 ELSE 1) + (IF onstack THEN 1 ELSE 0)

\* However the answer is cut on its way, also between the two bytes of the
\* length: nothing of it is lost or seen twice, the client is told the length
\* that the backend announced and gets the body from its first byte on.
Relayed ==
    /\ state = "header" => buffer \o line = answer
    /\ wire.declared # NoHeader =>
        /\ Len(answer) >= 2
        /\ wire.declared = answer[1] * 256 + answer[2]
        /\ wire.sent \o line = SubSeq(answer, 3, Len(answer))
    /\ wire.ended => wire.declared # NoHeader

\* A backend is asked at most once on behalf of a request, whatever fails: with
\* the configuration that create leaves, nginx tries no second peer.
AskedOnce ==
    heard = <<>> \/ \E a \in Args : heard = <<create_request(a)>>

\* The worker dies only of releasing a peer that was drawn, which takes more than
\* one server in a block with ndg_load_balance.
CrashNeedsDraw == worker = "crashed" => block.balance /\ ~single(block.servers)

==============================================================================
