--------------------------- MODULE NdgUpstream_proof --------------------------
(***************************************************************************)
(* The safety of NdgUpstream, for any arguments, answers and peers.  Each  *)
(* property has an invariant of its own that is inductive with the types:  *)
(* Referenced for CountHolds, Asked for AskedOnce, Drawn for               *)
(* CrashNeedsDraw and Framed for Relayed.                                  *)
(***************************************************************************)
EXTENDS NdgUpstream, FiniteSetTheorems, SequenceTheorems, TLAPS

Working == {"connect", "connecting", "header", "body"}

PeerData == [current: Peers \cup {None}, tried: SUBSET Peers, left: Nat, tries: Nat,
             sockaddr: Peers \cup {None}]

Wire == [declared: Nat \cup {NoHeader}, sent: Seq(Nat), ended: BOOLEAN, code: Nat]

\* The two holders of a reference.
Upstream == IF state = "done" THEN 0 ELSE 1
Handler == IF onstack THEN 1 ELSE 0

Referenced ==
    /\ count \in Int
    /\ Handler = 1 => state # "content"
    /\ worker = "up" => count = Upstream + Handler

Asked ==
    /\ state = "content" => request_bufs = <<>>
    /\ state \in Working => \E a \in Args : request_bufs = <<create_request(a)>>
    /\ state \in {"content", "connect", "connecting"} => heard = <<>>
    /\ AskedOnce

Drawn ==
    /\ block \in [servers: Blocks, balance: BOOLEAN]
    /\ peer \in PeerData
    /\ ~releasable(peer) => block.balance /\ ~single(block.servers)
    /\ CrashNeedsDraw

Framed ==
    /\ buffer \in Seq(Nat) /\ line \in Seq(Nat) /\ answer \in Seq(Nat)
    /\ wire \in Wire
    /\ state \in {"content", "connect", "connecting"} => buffer = <<>>
    /\ state \in {"content", "connect", "connecting", "header"} => wire.declared = NoHeader
    /\ state = "body" => wire.declared # NoHeader
    /\ Relayed

-------------------------------------------------------------------------------

\* No second peer: every failure of the upstream finalizes the request.
LEMMA NextFinalizes ==
    ASSUME NEW ft, NEW code, next(ft, code)
    PROVE  finalize(code)
BY DEF next, create

\* The early returns of the handler, and its way to the upstream.
LEMMA HandlerCases ==
    ASSUME NEW m \in Methods, NEW a \in Args, handler(m, a)
    PROVE  \/ /\ \E code \in {400, 405, 500} : Close(code)
              /\ UNCHANGED <<onstack, request_bufs>>
           \/ created(a)
<1>1. CASE m # GET /\ Close(405) /\ UNCHANGED <<onstack, request_bufs>>
  BY <1>1
<1>2. CASE notCreated
  BY <1>2 DEF notCreated
<1>3. CASE created(a)
  BY <1>3
<1> QED
  BY <1>1, <1>2, <1>3, Zenon DEF handler

LEMMA FailureFinalizes ==
    ASSUME busy \/ fails \/ expires \/ aborts
    PROVE  state \in Working /\ \E code \in {499, 502, 504} : finalize(code)
<1>1. CASE busy
  BY <1>1, NextFinalizes DEF busy, Working
<1>2. CASE fails
  BY <1>2, NextFinalizes DEF fails, Working
<1>3. CASE expires
  BY <1>3, NextFinalizes DEF expires, Working
<1>4. CASE aborts
  BY <1>4 DEF aborts, Working
<1> QED
  BY <1>1, <1>2, <1>3, <1>4

LEMMA ReceiveFrame ==
    ASSUME NEW n, receive(n)
    PROVE  /\ state = "header" /\ state' \in {"header", "body"}
           /\ UNCHANGED <<count, onstack, request_bufs, peer, answer, heard, worker, block>>
<1> DEFINE b == buffer \o SubSeq(line, 1, n)
<1>1. /\ state = "header"
      /\ \/ UNCHANGED state
         \/ \E h \in process_header(b) : state' = "body"
      /\ UNCHANGED <<count, onstack, request_bufs, peer, answer, heard, worker, block>>
  BY Zenon DEF receive
<1> QED
  BY <1>1

LEMMA RelayFrame ==
    ASSUME NEW n, relay(n)
    PROVE  UNCHANGED <<count, onstack, state, request_bufs, peer, answer, heard, worker, block>>
BY DEF relay

-------------------------------------------------------------------------------

LEMMA HandlerIs ==
    /\ Handler \in {0, 1}
    /\ Handler = 1 <=> onstack
    /\ onstack' = onstack => Handler' = Handler
    /\ onstack' => Handler' = 1
    /\ ~onstack' => Handler' = 0
<1>1. CASE onstack
  BY <1>1 DEF Handler
<1>2. CASE ~onstack
  BY <1>2 DEF Handler
<1>3. ASSUME onstack' = onstack
      PROVE  Handler' = Handler
  BY <1>3, SMT DEF Handler
<1>4. onstack' => Handler' = 1
  BY DEF Handler
<1>5. ~onstack' => Handler' = 0
  BY DEF Handler
<1>6. Handler \in {0, 1} /\ (Handler = 1 <=> onstack)
  BY <1>1, <1>2
<1>7. (onstack' => Handler' = 1) /\ (~onstack' => Handler' = 0)
  BY <1>4, <1>5, Zenon
<1> QED
  BY <1>3, <1>6, <1>7, Zenon

LEMMA ReferencedKept == Referenced /\ [Next]_vars => Referenced'
<1> SUFFICES ASSUME Referenced, [Next]_vars
             PROVE  Referenced'
  OBVIOUS
<1> USE DEF Referenced, Upstream
<1>1. ASSUME state \notin {"done"}, state' = "done", count' = count - 1,
             UNCHANGED <<onstack, worker>>
      PROVE  Referenced'
  BY <1>1, HandlerIs
<1>2. ASSUME state # "content", state # "done", state' # "content", state' # "done",
             UNCHANGED <<count, onstack, worker>>
      PROVE  Referenced'
  BY <1>2, HandlerIs
<1>3. CASE \E m \in Methods, a \in Args : handler(m, a)
  <2>1. PICK m \in Methods, a \in Args : handler(m, a)
    BY <1>3
  <2>2. state = "content" /\ worker' = worker
    BY <2>1, Zenon DEF handler
  <2>3. CASE created(a)
    <3>1. state' = "connect" /\ count' = count + 1 /\ onstack'
      BY <2>3, Zenon DEF created, start
    <3>2. Handler = 0 /\ Handler' = 1
      BY <2>2, <3>1, HandlerIs
    <3> QED
      BY <2>2, <3>1, <3>2
  <2>4. ASSUME NEW code, Close(code), UNCHANGED <<onstack, request_bufs>>
        PROVE  Referenced'
    BY <1>1, <2>2, <2>4 DEF Close
  <2> QED
    BY <2>1, <2>3, <2>4, HandlerCases, Zenon
<1>4. CASE throws
  <2>1. count' = 0 /\ state' = "done" /\ ~onstack'
    BY <1>4, Zenon DEF throws, Terminate
  <2> QED
    BY <2>1, HandlerIs
<1>5. CASE returns
  <2>1. onstack /\ ~onstack' /\ count' = count - 1 /\ state' = state /\ worker = "up"
    BY <1>5, Zenon DEF returns
  <2>2. Handler = 1 /\ Handler' = 0
    BY <2>1, HandlerIs, Zenon
  <2> QED
    BY <2>1, <2>2
<1>6. CASE connect \/ send_request
  BY <1>2, <1>6 DEF connect, send_request
<1>7. CASE \E n \in {1, 2, Len(line)} \ {0} : receive(n) \/ relay(n)
  <2>1. PICK n : receive(n) \/ relay(n)
    BY <1>7
  <2>2. CASE receive(n)
    BY <1>2, <2>2, ReceiveFrame
  <2>3. CASE relay(n)
    <3>1. state = "body" /\ UNCHANGED <<count, onstack, state, worker>>
      BY <2>3, RelayFrame DEF relay
    <3> QED
      BY <1>2, <3>1
  <2> QED
    BY <2>1, <2>2, <2>3
<1>8. CASE eof
  BY <1>1, <1>8 DEF eof
<1>9. CASE busy \/ fails \/ expires \/ aborts
  <2>1. PICK code : state \in Working /\ finalize(code)
    BY <1>9, FailureFinalizes
  <2> QED
    BY <1>1, <2>1 DEF finalize, Close, Working
<1>10. CASE crashes
  <2>1. worker' = "crashed" /\ state' = "done" /\ UNCHANGED <<count, onstack>>
    BY <1>10 DEF crashes
  <2> QED
    BY <2>1, HandlerIs
<1>11. CASE UNCHANGED vars
  <2>1. UNCHANGED <<count, onstack, state, worker>>
    BY <1>11 DEF vars
  <2> QED
    BY <2>1, HandlerIs
<1> QED
  BY <1>3, <1>4, <1>5, <1>6, <1>7, <1>8, <1>9, <1>10, <1>11 DEF Next

LEMMA AskedKept == Asked /\ [Next]_vars => Asked'
<1> SUFFICES ASSUME Asked, [Next]_vars
             PROVE  Asked'
  OBVIOUS
<1> USE DEF Asked, AskedOnce, Working
<1>1. CASE \E m \in Methods, a \in Args : handler(m, a)
  <2>1. PICK m \in Methods, a \in Args : handler(m, a)
    BY <1>1
  <2>2. CASE created(a) /\ UNCHANGED heard
    <3>1. request_bufs' = <<create_request(a)>>
      BY <2>1, <2>2 DEF handler, created, request
    <3> QED
      BY <2>1, <2>2, <3>1 DEF handler, created
  <2>3. CASE state' = "done" /\ UNCHANGED <<request_bufs, heard>>
    BY <2>3
  <2> QED
    BY <2>1, <2>2, <2>3 DEF handler, notCreated, Close
<1>2. CASE throws
  BY <1>2 DEF throws, Terminate, up
<1>3. CASE returns
  BY <1>3 DEF returns, up
<1>4. CASE connect
  BY <1>4 DEF connect
<1>5. CASE send_request
  <2>1. PICK a \in Args : request_bufs = <<create_request(a)>>
    BY <1>5 DEF send_request
  <2>2. heard' = <<create_request(a)>>
    BY <1>5, <2>1 DEF send_request
  <2> QED
    BY <1>5, <2>1, <2>2 DEF send_request
<1>6. CASE \E n \in {1, 2, Len(line)} \ {0} : receive(n) \/ relay(n)
  BY <1>6, ReceiveFrame, RelayFrame
<1>7. CASE eof
  BY <1>7 DEF eof
<1>8. CASE busy \/ fails \/ expires \/ aborts
  BY <1>8, FailureFinalizes DEF finalize, Close
<1>9. CASE crashes
  BY <1>9 DEF crashes, up
<1>10. CASE UNCHANGED vars
  BY <1>10 DEF vars
<1> QED
  BY <1>1, <1>2, <1>3, <1>4, <1>5, <1>6, <1>7, <1>8, <1>9, <1>10 DEF Next

-------------------------------------------------------------------------------

\* What the operators on the peer data do with the peer round robin chose.
LEMMA InitPeer ==
    ASSUME NEW peers \in Blocks
    PROVE  init_peer(peers) \in PeerData /\ releasable(init_peer(peers))
<1>1. Cardinality(peers) \in Nat
  BY PeersAssumption, FS_Subset, FS_CardinalityType DEF Blocks
<1> QED
  BY <1>1 DEF init_peer, releasable, PeerData

LEMMA Called ==
    ASSUME NEW d \in PeerData
    PROVE  called(d) \in PeerData /\ called(d).tried = d.tried
BY DEF called, PeerData

LEMMA RoundRobin ==
    ASSUME NEW peers \in Blocks, NEW d \in PeerData, NEW e \in round_robin(peers, d)
    PROVE  e \in PeerData /\ releasable(e)
<1>1. PICK p \in Peers : e = [d EXCEPT !.current = p, !.sockaddr = p, !.tried = @ \cup {p}]
  BY DEF round_robin, Blocks
<1>2. e \in PeerData /\ e.current = p
  BY <1>1 DEF PeerData
<1> QED
  BY <1>2, PeersAssumption DEF releasable

LEMMA Get ==
    ASSUME NEW peers \in Blocks, NEW d \in PeerData, NEW e \in get(peers, d)
    PROVE  e \in PeerData /\ (single(peers) => releasable(e))
<1>1. CASE e \in round_robin(peers, called(d))
  BY <1>1, Called, RoundRobin
<1>2. CASE ~single(peers) /\ e \in draw(peers, d)
  <2>1. PICK p \in Peers : e = [called(d) EXCEPT !.sockaddr = p]
    BY <1>2 DEF draw, Blocks
  <2> QED
    BY <1>2, <2>1, Called DEF PeerData
<1> QED
  BY <1>1, <1>2 DEF get

LEMMA Free ==
    ASSUME NEW peers, NEW d \in PeerData
    PROVE  free(peers, d) \in PeerData /\ releasable(free(peers, d))
<1> DEFINE n == IF d.sockaddr = None THEN d.left
                ELSE IF single(peers) \/ d.left = 0 THEN 0 ELSE d.left - 1
<1>1. PICK m \in Nat : m = n
  BY DEF PeerData
<1> HIDE DEF n
<1>2. free(peers, d) = [d EXCEPT !.sockaddr = None, !.left = m]
  BY <1>1 DEF free, n
<1> QED
  BY <1>2 DEF PeerData, releasable

LEMMA DrawnKept == Drawn /\ [Next]_vars => Drawn'
<1> SUFFICES ASSUME Drawn, [Next]_vars
             PROVE  Drawn'
  OBVIOUS
<1> USE DEF Drawn, CrashNeedsDraw
<1>1. ASSUME UNCHANGED <<peer, worker, block>>
      PROVE  Drawn'
  BY <1>1 DEF releasable, single
<1>2. ASSUME peer' = free(block.servers, peer), UNCHANGED <<worker, block>>
      PROVE  Drawn'
  BY <1>2, Free DEF single
<1>3. CASE \E m \in Methods, a \in Args : handler(m, a)
  BY <1>1, <1>3 DEF handler
<1>4. CASE throws \/ returns
  BY <1>1, <1>4 DEF throws, returns, up
<1>5. CASE connect
  <2>1. block.servers \in Blocks /\ block' = block /\ worker' = worker
    BY <1>5 DEF connect
  <2>2. peer' \in PeerData /\ (~releasable(peer') => block.balance /\ ~single(block.servers))
    BY <1>5, <2>1, Get, RoundRobin DEF connect
  <2> QED
    BY <2>1, <2>2 DEF releasable, single
<1>6. CASE send_request
  BY <1>1, <1>6 DEF send_request
<1>7. CASE \E n \in {1, 2, Len(line)} \ {0} : receive(n) \/ relay(n)
  BY <1>1, <1>7, ReceiveFrame, RelayFrame
<1>8. CASE eof
  BY <1>2, <1>8 DEF eof
<1>9. CASE busy \/ fails \/ expires \/ aborts
  BY <1>2, <1>9, FailureFinalizes DEF finalize
<1>10. CASE crashes
  <2>1. ~releasable(peer) /\ peer' = peer /\ block' = block
    BY <1>10 DEF crashes, up
  <2> QED
    BY <2>1 DEF releasable, single
<1>11. CASE UNCHANGED vars
  BY <1>1, <1>11 DEF vars
<1> QED
  BY <1>3, <1>4, <1>5, <1>6, <1>7, <1>8, <1>9, <1>10, <1>11 DEF Next

-------------------------------------------------------------------------------

\* Cutting a sequence of bytes and putting it together.
LEMMA PartOf ==
    ASSUME NEW s \in Seq(Nat), NEW m \in Nat \ {0}
    PROVE  /\ SubSeq(s, m, Len(s)) \in Seq(Nat)
           /\ Len(SubSeq(s, m, Len(s))) = IF m <= Len(s) THEN Len(s) - m + 1 ELSE 0
           /\ \A i \in 1 .. Len(s) - m + 1 : SubSeq(s, m, Len(s))[i] = s[m + i - 1]
<1>1. \A i \in m .. Len(s) : s[i] \in Nat
  OBVIOUS
<1> QED
  BY <1>1, SubSeqProperties

LEMMA Cut ==
    ASSUME NEW s \in Seq(Nat), NEW n \in Nat, n <= Len(s)
    PROVE  /\ SubSeq(s, 1, n) \in Seq(Nat)
           /\ SubSeq(s, n + 1, Len(s)) \in Seq(Nat)
           /\ SubSeq(s, 1, n) \o SubSeq(s, n + 1, Len(s)) = s
<1>1. \A i \in 1 .. n : s[i] \in Nat
  OBVIOUS
<1>2. SubSeq(s, 1, n) \in Seq(Nat) /\ SubSeq(s, n + 1, Len(s)) \in Seq(Nat)
  BY <1>1, PartOf, SubSeqProperties
<1>3. /\ 1 \in 1 .. Len(s) + 1
      /\ n \in 1 - 1 .. Len(s)
      /\ Len(s) \in n .. Len(s)
  OBVIOUS
<1>4. SubSeq(s, 1, n) \o SubSeq(s, n + 1, Len(s)) = SubSeq(s, 1, Len(s))
  BY <1>3, ConcatAdjacentSubSeq
<1> QED
  BY <1>2, <1>4, SubSeqFull

LEMMA CatAssoc ==
    ASSUME NEW a \in Seq(Nat), NEW b \in Seq(Nat), NEW c \in Seq(Nat)
    PROVE  (a \o b) \o c = a \o (b \o c)
OBVIOUS

LEMMA BodyOfCat ==
    ASSUME NEW b \in Seq(Nat), NEW l \in Seq(Nat), Len(b) >= 2
    PROVE  /\ SubSeq(b, 3, Len(b)) \in Seq(Nat)
           /\ SubSeq(b, 3, Len(b)) \o l = SubSeq(b \o l, 3, Len(b \o l))
           /\ Len(b \o l) >= 2
           /\ (b \o l)[1] = b[1] /\ (b \o l)[2] = b[2]
<1>1. PICK c \in Seq(Nat) : c = b \o l
  BY ConcatProperties
<1>2. /\ Len(c) = Len(b) + Len(l)
      /\ c[1] = b[1] /\ c[2] = b[2]
      /\ Len(b) \in Nat /\ Len(l) \in Nat /\ Len(c) \in Nat
  BY <1>1, ConcatProperties
<1>3. SubSeq(c, 3, Len(b)) = SubSeq(b, 3, Len(b))
  <2>1. CASE Len(b) = 2
    BY <2>1, SubSeqEmpty
  <2>2. CASE Len(b) > 2
    <3>1. 3 \in 1 .. Len(b) /\ Len(b) \in 1 .. Len(b)
      BY <1>2, <2>2
    <3> QED
      BY <1>1, <3>1, SubSeqOfConcat1
  <2> QED
    BY <1>2, <2>1, <2>2
<1>4. SubSeq(c, Len(b) + 1, Len(c)) = l
  <2>1. CASE l = <<>>
    BY <1>2, <2>1, SubSeqEmpty
  <2>2. CASE l # <<>>
    <3>1. Len(l) > 0
      BY <1>2, <2>2, EmptySeq
    <3>2. /\ Len(b) + 1 \in Len(b) + 1 .. Len(b) + Len(l)
          /\ Len(c) \in Len(b) + 1 .. Len(b) + Len(l)
          /\ Len(b) + 1 - Len(b) = 1
          /\ Len(c) - Len(b) = Len(l)
      BY <1>2, <3>1
    <3>3. SubSeq(c, Len(b) + 1, Len(c)) = SubSeq(l, Len(b) + 1 - Len(b), Len(c) - Len(b))
      BY <1>1, <3>2, SubSeqOfConcat2
    <3> QED
      BY <3>2, <3>3, SubSeqFull
  <2> QED
    BY <2>1, <2>2
<1>5. SubSeq(c, 3, Len(b)) \o SubSeq(c, Len(b) + 1, Len(c)) = SubSeq(c, 3, Len(c))
  <2>1. /\ 3 \in 1 .. Len(c) + 1
        /\ Len(b) \in 3 - 1 .. Len(c)
        /\ Len(c) \in Len(b) .. Len(c)
    BY <1>2
  <2> QED
    BY <2>1, ConcatAdjacentSubSeq
<1>6. SubSeq(b, 3, Len(b)) \o l = SubSeq(c, 3, Len(c))
  BY <1>3, <1>4, <1>5
<1>7. SubSeq(b, 3, Len(b)) \in Seq(Nat)
  BY PartOf
<1>8. Len(c) >= 2
  BY <1>2
<1> QED
  BY <1>1, <1>2, <1>6, <1>7, <1>8

LEMMA SetCode ==
    ASSUME NEW w \in Wire, NEW code \in Nat
    PROVE  /\ [w EXCEPT !.code = code] \in Wire
           /\ [w EXCEPT !.code = code].declared = w.declared
           /\ [w EXCEPT !.code = code].sent = w.sent
           /\ [w EXCEPT !.code = code].ended = w.ended
BY DEF Wire

\* Steps that only close the request, or do not touch the stream at all.
LEMMA StreamKept ==
    ASSUME Framed, UNCHANGED <<buffer, line, answer>>,
           wire' \in Wire, wire'.declared = wire.declared,
           wire'.sent = wire.sent, wire'.ended = wire.ended,
           state' = state \/ state' = "done" \/ (state = "content" /\ state' = "connect")
              \/ (state = "connect" /\ state' = "connecting")
    PROVE  Framed'
BY DEF Framed, Relayed

LEMMA ClosingKept ==
    ASSUME Framed, UNCHANGED <<buffer, line, answer>>, state' = "done",
           NEW code \in Nat, wire' = [wire EXCEPT !.code = code]
    PROVE  Framed'
<1>1. /\ wire' \in Wire
      /\ wire'.declared = wire.declared
      /\ wire'.sent = wire.sent
      /\ wire'.ended = wire.ended
  BY SetCode DEF Framed
<1> QED
  BY <1>1, StreamKept

LEMMA ReceiveFramed ==
    ASSUME Framed, NEW n \in Nat, receive(n)
    PROVE  Framed'
<1> DEFINE p == SubSeq(line, 1, n)
           b == buffer \o p
<1>1. n <= Len(line) /\ line' = SubSeq(line, n + 1, Len(line)) /\ answer' = answer
  BY DEF receive
<1>2. p \in Seq(Nat) /\ line' \in Seq(Nat) /\ p \o line' = line
  BY <1>1, Cut DEF Framed
<1>3. \/ state' = state /\ wire' = wire /\ buffer' = b
      \/ \E h \in process_header(b) :
            /\ state' = "body"
            /\ buffer' = <<>>
            /\ wire' = [declared |-> h.length, sent |-> h.rest, ended |-> FALSE, code |-> 200]
  BY Zenon DEF receive
<1>4. state = "header" /\ wire.declared = NoHeader /\ buffer \o line = answer
  BY DEF receive, Framed, Relayed
<1> HIDE DEF p, b
<1>5. b \in Seq(Nat) /\ b \o line' = answer
  <2>1. buffer \in Seq(Nat)
    BY DEF Framed
  <2>2. (buffer \o p) \o line' = buffer \o (p \o line')
    BY <1>2, <2>1, CatAssoc
  <2>3. buffer \o p \in Seq(Nat)
    BY <1>2, <2>1, ConcatProperties
  <2> QED
    BY <1>2, <1>4, <2>2, <2>3 DEF b
<1>6. CASE state' = state /\ wire' = wire /\ buffer' = b
  BY <1>1, <1>2, <1>4, <1>5, <1>6 DEF Framed, Relayed
<1>7. ASSUME NEW h \in process_header(b), state' = "body", buffer' = <<>>,
             wire' = [declared |-> h.length, sent |-> h.rest, ended |-> FALSE, code |-> 200]
      PROVE  Framed'
  <2>1. /\ Len(b) >= 2
        /\ h = [length |-> b[1] * 256 + b[2], rest |-> SubSeq(b, 3, Len(b))]
    BY <1>5 DEF process_header
  <2>2. h.length = b[1] * 256 + b[2] /\ h.rest = SubSeq(b, 3, Len(b))
    BY <2>1
  <2>3. b[1] * 256 + b[2] \in Nat /\ SubSeq(b, 3, Len(b)) \in Seq(Nat)
    <3>1. b[1] \in Nat /\ b[2] \in Nat
      BY <1>5, <2>1
    <3>2. b[1] * 256 + b[2] \in Nat
      BY <3>1
    <3>3. SubSeq(b, 3, Len(b)) \in Seq(Nat)
      BY <1>5, PartOf
    <3> QED
      BY <3>2, <3>3
  <2>4. PICK m \in Nat, r \in Seq(Nat) :
            /\ m = b[1] * 256 + b[2]
            /\ r = SubSeq(b, 3, Len(b))
            /\ wire' = [declared |-> m, sent |-> r, ended |-> FALSE, code |-> 200]
    BY <1>7, <2>2, <2>3, Zenon
  <2>5. wire'.declared = m /\ wire'.sent = r /\ ~wire'.ended
    BY <2>4
  <2>6. wire' \in Wire
    BY <2>4 DEF Wire
  <2>7. /\ Len(answer) >= 2
        /\ m = answer[1] * 256 + answer[2]
        /\ r \o line' = SubSeq(answer, 3, Len(answer))
    BY <1>2, <1>5, <2>1, <2>4, BodyOfCat
  <2>8. <<>> \in Seq(Nat)
    BY EmptySeq
  <2> QED
    BY <1>1, <1>2, <1>7, <2>5, <2>6, <2>7, <2>8, UpstreamAssumption DEF Framed, Relayed
<1> QED
  BY <1>3, <1>6, <1>7

LEMMA RelayFramed ==
    ASSUME Framed, NEW n \in Nat, relay(n)
    PROVE  Framed'
<1> DEFINE p == SubSeq(line, 1, n)
<1>1. /\ n <= Len(line)
      /\ line' = SubSeq(line, n + 1, Len(line))
      /\ state = "body"
      /\ UNCHANGED <<state, buffer, answer>>
      /\ wire' = [wire EXCEPT !.sent = wire.sent \o p]
  BY DEF relay
<1>2. p \in Seq(Nat) /\ line' \in Seq(Nat) /\ p \o line' = line
  BY <1>1, Cut DEF Framed
<1> HIDE DEF p
<1>3. wire.sent \in Seq(Nat)
  BY DEF Framed, Wire
<1>4. wire.sent \o p \in Seq(Nat)
  BY <1>2, <1>3, ConcatProperties
<1>5. /\ wire' \in Wire
      /\ wire'.declared = wire.declared
      /\ wire'.sent = wire.sent \o p
      /\ wire'.ended = wire.ended
  BY <1>1, <1>4 DEF Framed, Wire
<1>6. wire'.sent \o line' = wire.sent \o line
  <2>1. (wire.sent \o p) \o line' = wire.sent \o (p \o line')
    BY <1>2, <1>3, CatAssoc
  <2> QED
    BY <1>2, <1>5, <2>1
<1> QED
  BY <1>1, <1>2, <1>5, <1>6 DEF Framed, Relayed

LEMMA FramedKept == Framed /\ [Next]_vars => Framed'
<1> SUFFICES ASSUME Framed, [Next]_vars
             PROVE  Framed'
  OBVIOUS
<1>1. wire \in Wire
  BY DEF Framed
<1>2. CASE \E m \in Methods, a \in Args : handler(m, a)
  <2>1. PICK m \in Methods, a \in Args : handler(m, a)
    BY <1>2
  <2>2. state = "content" /\ UNCHANGED <<buffer, line, answer>>
    BY <2>1, Zenon DEF handler
  <2>3. CASE created(a)
    <3>1. state' = "connect" /\ wire' = wire
      BY <2>3, Zenon DEF created
    <3> QED
      BY <1>1, <2>2, <3>1, StreamKept
  <2>4. ASSUME NEW code \in {400, 405, 500}, Close(code)
        PROVE  Framed'
    <3>1. code \in Nat
      OBVIOUS
    <3>2. state' = "done" /\ wire' = [wire EXCEPT !.code = code]
      BY <2>4, Zenon DEF Close
    <3> QED
      BY <2>2, <3>1, <3>2, ClosingKept, Zenon
  <2>5. created(a) \/ \E code \in {400, 405, 500} : Close(code)
    BY <2>1, HandlerCases, Zenon
  <2> QED
    BY <2>3, <2>4, <2>5, Zenon
<1>3. CASE throws
  BY <1>3, ClosingKept DEF throws, Terminate, up
<1>4. CASE returns
  BY <1>1, <1>4, StreamKept DEF returns, up
<1>5. CASE connect
  BY <1>1, <1>5, StreamKept DEF connect
<1>6. CASE send_request
  <2>1. /\ state = "connecting" /\ state' = "header"
        /\ buffer' = buffer /\ wire' = wire
        /\ line' \in Answers /\ answer' = line'
    BY <1>6 DEF send_request
  <2>2. buffer = <<>> /\ line' \in Seq(Nat)
    BY <2>1, UpstreamAssumption DEF Framed
  <2>3. buffer' \o line' = answer'
    BY <2>1, <2>2, ConcatEmptySeq
  <2> QED
    BY <2>1, <2>2, <2>3 DEF Framed, Relayed
<1>7. CASE \E n \in {1, 2, Len(line)} \ {0} : receive(n) \/ relay(n)
  <2>1. PICK n \in Nat : receive(n) \/ relay(n)
    BY <1>7 DEF Framed
  <2> QED
    BY <2>1, ReceiveFramed, RelayFramed
<1>8. CASE eof
  <2>1. /\ state = "body" /\ state' = "done"
        /\ UNCHANGED <<buffer, line, answer>>
        /\ wire' = [wire EXCEPT !.ended = TRUE]
    BY <1>8 DEF eof
  <2>2. /\ wire' \in Wire
        /\ wire'.declared = wire.declared /\ wire'.sent = wire.sent
    BY <1>1, <2>1 DEF Wire
  <2> QED
    BY <2>1, <2>2 DEF Framed, Relayed
<1>9. CASE busy \/ fails \/ expires \/ aborts
  <2>1. PICK code \in {499, 502, 504} : finalize(code)
    BY <1>9, FailureFinalizes
  <2>2. /\ UNCHANGED <<buffer, line, answer>>
        /\ state' = "done"
        /\ wire' = [wire EXCEPT !.code = code]
    BY <2>1 DEF finalize, Close
  <2> QED
    BY <2>2, ClosingKept
<1>10. CASE crashes
  BY <1>1, <1>10, StreamKept DEF crashes, up
<1>11. CASE UNCHANGED vars
  BY <1>1, <1>11, StreamKept DEF vars
<1> QED
  BY <1>2, <1>3, <1>4, <1>5, <1>6, <1>7, <1>8, <1>9, <1>10, <1>11 DEF Next

-------------------------------------------------------------------------------

\* The request is freed when the upstream and the handler are both done with it,
\* and not before (NgxUpstreamHelper::start), whatever is asked and answered.
THEOREM UpstreamCountHolds == Spec => []CountHolds
<1>1. Init => Referenced
  BY DEF Init, Referenced, Upstream, Handler
<1>2. Referenced => CountHolds
  BY DEF Referenced, CountHolds, Upstream, Handler
<1> QED
  BY <1>1, <1>2, ReferencedKept, PTL DEF Spec

\* With what NdgUpstreamConf::create leaves in next_upstream no backend is asked
\* twice on behalf of a request, whatever fails and however many servers there are.
THEOREM UpstreamAskedOnce == Spec => []AskedOnce
<1>1. Init => Asked
  BY DEF Init, Asked, AskedOnce, Working
<1>2. Asked => AskedOnce
  BY DEF Asked
<1> QED
  BY <1>1, <1>2, AskedKept, PTL DEF Spec

\* A worker only dies of releasing a peer that NdgLoadBalanceCallback::get drew
\* from a block of several, for any number of servers.
THEOREM UpstreamCrashNeedsDraw == Spec => []CrashNeedsDraw
<1>1. Init => Drawn
  BY InitPeer DEF Init, Drawn, CrashNeedsDraw
<1>2. Drawn => CrashNeedsDraw
  BY DEF Drawn
<1> QED
  BY <1>1, <1>2, DrawnKept, PTL DEF Spec

\* However the backend's answer is cut, none of it is lost or seen twice: the
\* client is told the length that NdgUpstreamCallback::process_header parsed, and
\* gets the body from its first byte on.
THEOREM UpstreamRelayed == Spec => []Relayed
<1>1. Init => Framed
  <2>1. NoWire \in Wire /\ NoWire.declared = NoHeader /\ ~NoWire.ended
    BY EmptySeq DEF NoWire, Wire
  <2>2. <<>> \in Seq(Nat)
    BY EmptySeq
  <2> QED
    BY <2>1, <2>2 DEF Init, Framed, Relayed
<1>2. Framed => Relayed
  BY DEF Framed
<1> QED
  BY <1>1, <1>2, FramedKept, PTL DEF Spec

===============================================================================
