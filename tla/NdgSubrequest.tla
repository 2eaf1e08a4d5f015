------------------------------ MODULE NdgSubrequest ---------------------------
(***************************************************************************)
(* ngxpp/NgxSubRequest.hpp, legacy/subrequest and legacy/datahook: a        *)
(* request that asks another location of the server and makes its answer   *)
(* of what that one says.  The parent is either NdgSubrequestHandler,      *)
(* which has nginx collect the body of the subrequest in sr->out, or a     *)
(* module that has NdgDataHookHandler keep it in its own context.          *)
(*                                                                         *)
(* A body is a sequence of bytes, told apart, and is cut into chains of    *)
(* buffers of one byte; a chain without a buffer is what nginx sends to    *)
(* have held back output written.  ngx_http_subrequest, the postpone       *)
(* filter, which fills sr->out, ngx_http_finalize_request and the location *)
(* that is asked are external.                                             *)
(***************************************************************************)
EXTENDS Integers, Sequences

CONSTANTS
    Methods,      \* "GET" and others
    Codes,        \* the statuses that the asked location answers with, 200 one of them
    Bodies,       \* what it sends: sequences of chains
    MsgLen,       \* length of the message that the parent adds
    PageSize,     \* length of nginx's error page
    Null

\* What NdgDataHookCtx holds.
Contexts == [hook: BOOLEAN, status: Int, headers: BOOLEAN, body: Seq(Nat)]

ASSUME SubrequestAssumption ==
    /\ Codes \subseteq Nat
    /\ Bodies \subseteq Seq(Seq(Nat))
    /\ MsgLen \in Nat
    /\ PageSize \in Nat
    /\ Null \notin Contexts \cup Seq(Nat)

GET == "GET"
OK == 0
ERROR == -1
NoHeader == -2

VARIABLES
    kind,       \* "ndg" or "hooking"
    linked,     \* whether ndg_data_hook_filter_module is linked
    pc,         \* the parent: "content", "waiting", "post", "send", "done", or "stuck"
    write_event_handler,  \* the parent's: "empty" or "parent_post"
    sub,        \* the subrequest: where it is, its status, how it was finalized, and
                \* whether it is on r->postponed
    todo,       \* the chains it has yet to send
    given,      \* ghost: the bytes that it has sent
    out,        \* the bytes in sr->out; Null if there is no buffer
    ctx,        \* NdgDataHookCtx of the parent; Null until it is made
    do_hook,    \* that flag of the subrequest's own context
    calls,      \* what parent_post has yet to send: sizes and end marks
    wire        \* the response: declared length, bytes, end, loss, and its code

vars == <<kind, linked, pc, write_event_handler, sub, todo, given, out, ctx, do_hook, calls,
          wire>>

sr == <<sub, todo, given, out, do_hook>>

Init ==
    /\ kind \in {"ndg", "hooking"}
    /\ linked \in BOOLEAN
    /\ kind = "hooking" => linked
    /\ pc = "content"
    /\ write_event_handler = "empty"
    /\ sub = [state |-> "none", status |-> 0, rc |-> OK, listed |-> FALSE]
    /\ todo = <<>>
    /\ given = <<>>
    /\ out = Null
    /\ ctx = Null
    /\ do_hook = FALSE
    /\ calls = <<>>
    /\ wire = [declared |-> NoHeader, sent |-> 0, ended |-> FALSE, lost |-> FALSE,
               code |-> 0]

-------------------------------------------------------------------------------
\* What ends the parent.

\* The header with its length, and what is then sent in which order.
respond(code, length, parts) ==
    /\ calls' = parts
    /\ wire' = [wire EXCEPT !.declared = length, !.code = code]
    /\ pc' = "send"

\* ngx_http_finalize_request with a status: nginx's error page.
errorPage(code) == respond(code, PageSize, <<[size |-> PageSize, last |-> TRUE]>>)

\* NGX_ERROR, or a worker that dies.
lose ==
    /\ wire' = [wire EXCEPT !.lost = TRUE]
    /\ pc' = "done"
    /\ UNCHANGED calls

-------------------------------------------------------------------------------
\* The parent starts.

\* NgxSubRequest::create; what it throws is NGX_ERROR.
create_subrequest ==
    \/ /\ sub' = [sub EXCEPT !.state = "header", !.listed = TRUE]
       /\ todo' \in Bodies
       /\ pc' = "waiting"
       /\ UNCHANGED <<calls, wire>>
    \/ /\ lose
       /\ UNCHANGED <<sub, todo>>

\* NdgSubrequestHandler::handler
handle(method) ==
    /\ pc = "content"
    /\ IF kind = "ndg" /\ method # GET
       THEN errorPage(405) /\ UNCHANGED <<sub, todo>>
       ELSE create_subrequest
    /\ UNCHANGED <<kind, linked, write_event_handler, given, out, ctx, do_hook>>

FreshCtx == [hook |-> FALSE, status |-> 0, headers |-> FALSE, body |-> <<>>]

\* NgxModuleCtx::data: the context, made on the first call.
data(c) == IF c = Null THEN FreshCtx ELSE c

\* NdgDataHookCtx::hooking, which the other kind of parent calls once, before or
\* after it makes the subrequest.
hooking ==
    /\ kind = "hooking"
    /\ pc \in {"content", "waiting"}
    /\ ctx = Null
    /\ ctx' = [data(ctx) EXCEPT !.hook = TRUE]
    /\ UNCHANGED <<kind, linked, pc, write_event_handler, sr, calls, wire>>

-------------------------------------------------------------------------------
\* The subrequest and the filters.

\* Whether the header is kept for the parent.
header_filter == linked /\ ctx # Null /\ ctx.hook

\* Mutant: the parent's flag decides at each call of the body filter.
bodyAsksParent == header_filter

\* Whether the body filter keeps a chain that is not null.
body_filter == do_hook

\* A null chain ends at the data hook; another goes to one of the two buffers.  A
\* failure in the middle leaves the bytes before it.
feed(bytes) ==
    /\ given' = given \o bytes
    /\ IF body_filter
       THEN /\ ctx' = [ctx EXCEPT !.body = @ \o bytes]
            /\ UNCHANGED out
       ELSE /\ out' = IF out = Null THEN bytes ELSE out \o bytes
            /\ UNCHANGED ctx

subHeader(code) ==
    /\ sub.state = "header"
    /\ sub' = [sub EXCEPT !.state = "body", !.status = code]
    /\ do_hook' = header_filter
    /\ ctx' = IF header_filter THEN [ctx EXCEPT !.headers = TRUE] ELSE ctx
    /\ UNCHANGED <<kind, linked, pc, write_event_handler, todo, given, out, calls, wire>>

subBody ==
    /\ sub.state = "body"
    /\ todo # <<>>
    /\ IF linked /\ Head(todo) = <<>> THEN UNCHANGED <<given, out, ctx>>
       ELSE feed(Head(todo))
    /\ todo' = Tail(todo)
    /\ UNCHANGED <<kind, linked, pc, write_event_handler, sub, do_hook, calls, wire>>

\* NdgDataHookCtx::state, the first time it is called.
state(rc) == IF rc = OK THEN 200 ELSE IF rc < OK THEN 500 ELSE rc

\* Mutant: the subrequest does not set the handler of its parent.
sub_postForgets(rc) ==
    /\ UNCHANGED <<write_event_handler, ctx>>
    /\ \E listed \in BOOLEAN :
        sub' = [sub EXCEPT !.state = "over", !.rc = rc, !.listed = listed]

\* sub_post is called before anything else is done with the end of the
\* subrequest, and answers NGX_OK whatever rc is, so no error page is made.
sub_post(rc) ==
    /\ write_event_handler' = "parent_post"
    /\ \E listed \in BOOLEAN :
        sub' = [sub EXCEPT !.state = "over", !.rc = rc, !.listed = listed]
    /\ ctx' = IF kind = "hooking" /\ ctx # Null THEN [ctx EXCEPT !.status = state(rc)]
              ELSE ctx

\* The rest of the body does not come, or does not fit.
subBreaks ==
    /\ sub.state = "body"
    /\ todo # <<>>
    /\ \E k \in 0..Len(Head(todo)) : todo' = <<SubSeq(Head(todo), 1, k)>>
    /\ sub' = [sub EXCEPT !.rc = ERROR]
    /\ UNCHANGED <<kind, linked, pc, write_event_handler, given, out, ctx, do_hook, calls, wire>>

\* The end, with no header if there was an error before it.
subEnds ==
    /\ \/ sub.state = "header" /\ \E rc \in (Codes \ {200}) \cup {ERROR} : sub_post(rc)
       \/ sub.state = "body" /\ todo = <<>> /\ sub_post(sub.rc)
    /\ todo' = <<>>
    /\ UNCHANGED <<kind, linked, pc, given, out, do_hook, calls, wire>>

\* ngx_http_run_posted_requests calls the parent.
wake ==
    /\ pc = "waiting"
    /\ sub.state = "over"
    /\ write_event_handler = "parent_post"
    /\ pc' = "post"
    /\ UNCHANGED <<kind, linked, write_event_handler, sr, ctx, calls, wire>>

-------------------------------------------------------------------------------
\* The parent goes on.

\* Mutant: the mark of the end is left on the subrequest's buffer.
relayMarked ==
    respond(200, MsgLen + Len(out),
            <<[size |-> Len(out), last |-> TRUE], [size |-> MsgLen, last |-> FALSE],
              [size |-> 0, last |-> TRUE]>>)

\* The rest of NdgSubrequestCallback::parent_post: the length and the header, the
\* subrequest's buffer with its mark taken off, the message, and the end.
relay ==
    respond(200, MsgLen + Len(out),
            <<[size |-> Len(out), last |-> FALSE], [size |-> MsgLen, last |-> FALSE],
              [size |-> 0, last |-> TRUE]>>)

\* An exception: NgxSubRequestHandler::parent_post catches it and returns, and
\* does not finalize the parent.
swallowed == pc' = "stuck" /\ UNCHANGED <<calls, wire>>

\* A subrequest that is no longer on r->postponed, or has no buffer, is a null
\* pointer.
parent_post ==
    /\ pc = "post"
    /\ kind = "ndg"
    /\ CASE ~sub.listed         -> lose
         [] sub.listed /\ sub.status # 200 -> errorPage(500)
         [] OTHER -> IF out = Null THEN lose
                     ELSE relay \/ swallowed
    /\ UNCHANGED <<kind, linked, write_event_handler, sr, ctx>>

\* The other kind of parent makes its answer of its context.
hooked ==
    /\ pc = "post"
    /\ kind = "hooking"
    /\ IF ctx # Null /\ ctx.status = 200
       THEN respond(200, Len(ctx.body), <<[size |-> Len(ctx.body), last |-> TRUE]>>)
       ELSE errorPage(500)
    /\ UNCHANGED <<kind, linked, write_event_handler, sr, ctx>>

\* Each call may fail in the writer, which takes no buffer that is empty and says
\* nothing; the message needs a buffer from the pool.
send ==
    /\ pc = "send"
    /\ LET c == Head(calls) IN
       \/ /\ c.size > 0 \/ c.last
          /\ wire' = [wire EXCEPT !.sent = @ + c.size, !.ended = @ \/ c.last]
          /\ calls' = Tail(calls)
          /\ pc' = IF Len(calls) = 1 THEN "done" ELSE "send"
       \/ lose
       \/ kind = "ndg" /\ Len(calls) = 2 /\ swallowed
    /\ UNCHANGED <<kind, linked, write_event_handler, sr, ctx>>

Next ==
    \/ \E m \in Methods : handle(m)
    \/ hooking
    \/ \E code \in Codes : subHeader(code)
    \/ subBody
    \/ subBreaks
    \/ subEnds
    \/ wake
    \/ parent_post
    \/ hooked
    \/ send

\* The worker goes on with what there is to do.
Spec == Init /\ [][Next]_vars /\ WF_vars(Next)

-------------------------------------------------------------------------------

Message == INSTANCE HttpMessage WITH
    Undeclared <- -1,
    declared <- wire.declared, sent <- wire.sent, ended <- wire.ended, lost <- wire.lost

\* The parent's response, put together from the subrequest's buffer and a message
\* of its own, is well formed: the end mark that the subrequest left in the
\* buffer does not end it early, and what is declared is sent.
WellFramed == Message!Spec

\* Whatever becomes of the subrequest, the parent is woken, and answers or is
\* lost; only an exception in parent_post leaves it waiting for ever.
Settled == (pc = "content") ~> (pc = "done" \/ pc = "stuck")

\* However the body is cut, and whenever the parent asks for the hook: header and
\* body of a subrequest are either both kept in the parent's context or both
\* passed on, with every byte in order in just one of the two places.
HookedWhole ==
    LET kept == IF ctx = Null THEN <<>> ELSE ctx.body
        passed == IF out = Null THEN <<>> ELSE out
    IN  IF ctx # Null /\ ctx.headers THEN kept = given /\ passed = <<>>
        ELSE kept = <<>> /\ passed = given

===============================================================================
