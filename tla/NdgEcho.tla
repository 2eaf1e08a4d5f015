------------------------------- MODULE NdgEcho --------------------------------
(***************************************************************************)
(* One request from its content handler to the wire: http/echo (and its    *)
(* older form legacy/echo), or one of nginx's own content handlers, sends  *)
(* the header and then the body, piece by piece, through the chains of     *)
(* filters that NgxFilter has built, with http/filter (or legacy/footer)   *)
(* on them.  Nginx's writer puts the buffers on the wire one by one.       *)
(*                                                                         *)
(* The worker is one thread and a request has its own contexts, so one     *)
(* request is all there is to look at.  What can go wrong is the sequence  *)
(* of calls: how the body is cut into chains, where its end is marked,     *)
(* a header that is refused below the filter, so that nginx answers with   *)
(* an error page through the same filters, a subrequest whose body is part *)
(* of the response, and a connection that is lost on the way.              *)
(***************************************************************************)
EXTENDS NgxFilter, NdgFilter

CONSTANTS
    Ndg,          \* the module of this repository among FilterModules
    Footers,      \* lengths of ndg_footer; 0: not configured
    Messages,     \* lengths of ndg_echo
    Arguments,    \* lengths of the query string; 0: none
    Bodies,       \* lengths of what nginx's own handlers send
    PageSize,     \* length of nginx's error page
    WithFooter    \* what may meet a footer: see May

ASSUME EchoAssumption ==
    /\ Ndg \in FilterModules
    /\ Footers \cup Messages \cup Arguments \cup Bodies \subseteq Nat
    /\ PageSize \in Nat \ {0}
    /\ WithFooter \subseteq {"empty", "refusal", "subrequest"}

Main == "main"
Sub == "sub"
NoHeader == -2

VARIABLES
    chains,    \* the chains of header and of body filters
    waiting,   \* the modules whose filters are not yet registered, in order
    conf,      \* the footer of the location and of the subrequest's location,
               \* and which of the two modules is linked
    req,       \* of the request and its subrequest: flag, length, header_sent
    pc,        \* "config", "content", "send", "write" or "done"
    todo,      \* the chains that remain to be sent, each with its request
    chain,     \* what the body filters have passed to the writer
    page,      \* whether the response is nginx's error page
    wire,      \* what the client has been sent
    kinds      \* ghost: of what kind the bytes sent are, buffer by buffer

vars == <<chains, waiting, conf, req, pc, todo, chain, page, wire, kinds>>

FreshRequest == [flag |-> 0, length |-> Undeclared, header_sent |-> FALSE]

\* A situation does not meet a footer, unless it is one that may.
May(situation) == conf.footer = 0 \/ situation \in WithFooter

-------------------------------------------------------------------------------
\* Configuration.

Init ==
    /\ chains = [k \in Kinds |-> WriterOnly]
    /\ waiting \in SetToSeqs(FilterModules)
    /\ conf \in [footer: Footers, subfooter: Footers, legacy: BOOLEAN]
    /\ req = [r \in {Main, Sub} |-> FreshRequest]
    /\ pc = "config"
    /\ todo = <<>>
    /\ chain = <<>>
    /\ page = FALSE
    /\ wire = [declared |-> NoHeader, sent |-> 0, ended |-> FALSE, lost |-> FALSE]
    /\ kinds = <<>>

\* The postconfiguration of the modules, in the order they are linked;
\* NdgFilterHandler::init passes both filters, another module what it has.
register(ks) ==
    /\ pc = "config"
    /\ waiting # <<>>
    /\ Head(waiting) = Ndg => ks = Kinds
    /\ chains' = init(chains, Head(waiting), ks)
    /\ waiting' = Tail(waiting)
    /\ pc' = IF waiting' = <<>> THEN "content" ELSE pc
    /\ UNCHANGED <<conf, req, todo, chain, page, wire, kinds>>

-------------------------------------------------------------------------------
\* The content handlers.

special(mark) ==
    [size |-> 0, last |-> mark = "last", lic |-> mark = "lic", kind |-> "special"]

ending(b) == [b EXCEPT !.last = TRUE, !.lic = TRUE]

Calls(r, chs) == [i \in DOMAIN chs |-> [r |-> r, chain |-> chs[i]]]

\* The calls of NgxResponse::send, flush and eof that the handler makes: the
\* arguments and a comma, if there are arguments, the message and the end.
echoCalls(args, msg) ==
    (IF args > 0 THEN Calls(Main, <<<<Content(args)>>, <<Content(1)>>>>) ELSE <<>>)
        \o Calls(Main, <<<<Content(msg)>>>>)
        \o (IF conf.legacy THEN Calls(Main, <<<<special("flush")>>>>) ELSE <<>>)
        \o Calls(Main, <<<<special("last")>>>>)

\* Mutants: the comma is not counted; the end is not sent.
echoNoComma(args, msg) ==
    /\ req' = [req EXCEPT ![Main].length = msg + args]
    /\ todo' = echoCalls(args, msg)
    /\ UNCHANGED page

echoNoEof(args, msg) ==
    LET calls == echoCalls(args, msg)
    IN  /\ req' = [req EXCEPT ![Main].length =
                        msg + IF args > 0 THEN args + 1 ELSE 0]
        /\ todo' = SubSeq(calls, 1, Len(calls) - 1)
        /\ UNCHANGED page

\* The body of NdgEchoHandler::handler, of a GET.
echo(args, msg) ==
    /\ req' = [req EXCEPT ![Main].length = msg + IF args > 0 THEN args + 1 ELSE 0]
    /\ todo' = echoCalls(args, msg)
    /\ UNCHANGED page

\* nginx's error page, for the code that a handler returned.
errorPage ==
    /\ todo' = Calls(Main, <<<<ending(Content(PageSize))>>>>)
    /\ page' = TRUE

\* Another method, or discard() throws: the handler returns the code.
refuse ==
    /\ req' = [req EXCEPT ![Main].length = PageSize]
    /\ errorPage

handler(args, msg) ==
    /\ pc = "content"
    /\ echo(args, msg) \/ refuse
    /\ pc' = "send"
    /\ UNCHANGED <<chains, waiting, conf, chain, wire, kinds>>

\* One of nginx's own handlers: n bytes in two pieces or in one, in one chain or
\* each in its own, the end marked on the last bytes or on a buffer of its own;
\* the length is declared or not.
Pieces(n) == {p \in {<<n>>, <<1, n - 1>>} : \A i \in DOMAIN p : p[i] > 0}

Marked(bufs) == ReplaceAt(bufs, Len(bufs), ending(bufs[Len(bufs)]))

Bodied(n) ==
    LET bufs == {[i \in DOMAIN p |-> Content(p[i])] : p \in Pieces(n)}
    IN  {Marked(b) : b \in bufs} \cup {Append(b, special("last")) : b \in bufs}
            \cup {<<special("last")>> : x \in {n} \cap {0}}

serve(n) ==
    /\ pc = "content"
    /\ n = 0 => May("empty")
    /\ \E b \in Bodied(n), len \in {n, Undeclared}, together \in BOOLEAN :
        /\ todo' = Calls(Main, IF together THEN <<b>> ELSE [i \in DOMAIN b |-> <<b[i]>>])
        /\ req' = [req EXCEPT ![Main].length = len]
    /\ pc' = "send"
    /\ UNCHANGED <<chains, waiting, conf, chain, page, wire, kinds>>

\* The same, with a subrequest between two pieces: its body is a part of the
\* response, so the length of that is not declared, and its end is the end of
\* a chain only.
subrequest(n) ==
    /\ pc = "content"
    /\ conf.legacy /\ conf.subfooter > 0 => "subrequest" \in WithFooter
    /\ \E own \in BOOLEAN :
        todo' = Calls(Main, <<<<Content(n)>>>>)
                  \o Calls(Sub, IF own THEN <<<<Content(n)>>, <<special("lic")>>>>
                                ELSE <<<<[Content(n) EXCEPT !.lic = TRUE]>>>>)
                  \o Calls(Main, <<<<special("last")>>>>)
    /\ req' = [req EXCEPT ![Sub].length = n]
    /\ pc' = "send"
    /\ UNCHANGED <<chains, waiting, conf, chain, page, wire, kinds>>

-------------------------------------------------------------------------------
\* Sending.

footer(r) == IF r = Main THEN conf.footer ELSE conf.subfooter

\* Whether a call to the top of a chain gets to the module, and to the writer.
Filtered(k) == Ndg \in Walk(chains[k])
Written(k) == Writer \in Walk(chains[k])

headerFiltered(r) ==
    IF Filtered("header") THEN do_header_filter(req[r], footer(r)) ELSE req[r]

\* NgxResponse::send(): the header goes through the filters; that of the main
\* request is put on the wire.
headerPasses(r) ==
    LET q == headerFiltered(r)
    IN  /\ req' = [req EXCEPT ![r] = [q EXCEPT !.header_sent = TRUE]]
        /\ wire' = IF r = Main THEN [wire EXCEPT !.declared = q.length] ELSE wire
        /\ UNCHANGED <<pc, todo, page>>

\* A filter below returns a status code, as nginx's range filter does: send()
\* throws it, the handler returns it, and nginx answers with an error page.
headerRefused(r) ==
    /\ r = Main
    /\ ~page
    /\ May("refusal")
    /\ req' = [req EXCEPT ![r] = [headerFiltered(r) EXCEPT !.length = PageSize]]
    /\ errorPage
    /\ UNCHANGED <<pc, wire>>

\* NGX_ERROR, also from header_filter itself when the pool is exhausted: the
\* request is terminated.
lose ==
    /\ wire' = [wire EXCEPT !.lost = TRUE]
    /\ pc' = "done"

send ==
    /\ pc = "send"
    /\ todo # <<>>
    /\ ~req[Head(todo).r].header_sent
    /\ Written("header")
    /\ \/ headerPasses(Head(todo).r)
       \/ headerRefused(Head(todo).r)
       \/ lose /\ UNCHANGED <<req, todo, page>>
    /\ UNCHANGED <<chains, waiting, conf, chain, kinds>>

\* ngx_http_output_filter, of a request whose header was sent.
output ==
    /\ pc = "send"
    /\ todo # <<>>
    /\ Written("body")
    /\ LET r == Head(todo).r
           ch == Head(todo).chain
       IN  /\ req[r].header_sent
           /\ IF Filtered("body")
              THEN /\ chain' = bodyChain(req[r], footer(r), ch, conf.legacy)
                   /\ req' = [req EXCEPT ![r].flag =
                                bodyFlag(req[r], footer(r), ch, conf.legacy)]
              ELSE chain' = ch /\ UNCHANGED req
    /\ todo' = Tail(todo)
    /\ pc' = "write"
    /\ UNCHANGED <<chains, waiting, conf, page, wire, kinds>>

\* The writer; a buffer that holds nothing and says nothing is an error.
write ==
    /\ pc = "write"
    /\ LET b == Head(chain)
       IN  \/ /\ b.size > 0 \/ b.kind = "special"
              /\ wire' = [wire EXCEPT !.sent = @ + b.size, !.ended = @ \/ b.last]
              /\ kinds' = IF b.size > 0 THEN Append(kinds, b.kind) ELSE kinds
              /\ chain' = Tail(chain)
              /\ pc' = IF chain' # <<>> THEN pc
                       ELSE IF todo = <<>> THEN "done"
                       ELSE "send"
           \/ /\ lose
              /\ UNCHANGED <<chain, kinds>>
    /\ UNCHANGED <<chains, waiting, conf, req, todo, page>>

-------------------------------------------------------------------------------

Next ==
    \/ \E ks \in SUBSET Kinds : register(ks)
    \/ \E args \in Arguments, msg \in Messages : handler(args, msg)
    \/ \E n \in Bodies : serve(n)
    \/ \E n \in Bodies \ {0} : subrequest(n)
    \/ send
    \/ output
    \/ write

\* The worker goes on until the response is complete, or send_timeout has ended
\* the connection.
Spec == Init /\ [][Next]_vars /\ WF_vars(Next)

-------------------------------------------------------------------------------

\* However the body is cut, whoever sends it, and whatever the filter adds, the
\* client gets a well-formed response: as many bytes as declared, and an end
\* with nothing after it.
Message == INSTANCE HttpMessage WITH
    declared <- wire.declared, sent <- wire.sent, ended <- wire.ended, lost <- wire.lost

WellFramed == Message!Spec

\* A response that has a footer ends with it, and has it once.
FooterCloses ==
    wire.ended =>
        {i \in DOMAIN kinds : kinds[i] = "footer"} = IF conf.footer > 0 THEN {Len(kinds)} ELSE {}

\* Every request is answered, unless the connection is lost.
Answered == (pc = "content") ~> (wire.ended \/ wire.lost)

\* t/filter.t:27-41 (a response is received with its footer): when a response
\* of declared length ends, as many bytes have been sent as were declared.
DeclaredIsSent ==
    wire.ended => wire.declared \in {Undeclared, wire.sent}

===============================================================================
