---------------------------- MODULE NdgEcho_proof -----------------------------
(***************************************************************************)
(* The response and its footer, for any filters, lengths and bodies.       *)
(* Linked says that the filters are on both chains; Marks where the end    *)
(* of the body is marked in what remains to be sent, and that the footer   *)
(* has not been sent before it; Account that what is still to be sent      *)
(* makes up the length that is declared.                                   *)
(***************************************************************************)
EXTENDS NdgEcho, SequenceTheorems, FiniteSetTheorems, TLAPS

Buffers == [size: Nat, last: BOOLEAN, lic: BOOLEAN, kind: {"content", "special", "footer"}]
CallsOf == [r: {Main, Sub}, chain: Seq(Buffers)]
Requests == [flag: {0, 1, 2}, length: Nat \cup {Undeclared}, header_sent: BOOLEAN]
Confs == [footer: Nat, subfooter: Nat, legacy: BOOLEAN]

-------------------------------------------------------------------------------
\* The chains of filters.

Waits(m) == \E i \in 1 .. Len(waiting) : waiting[i] = m

Linked ==
    /\ chains \in [Kinds -> FilterChains]
    /\ waiting \in Seq(FilterModules)
    /\ \A i, j \in 1 .. Len(waiting) : waiting[i] = waiting[j] => i = j
    /\ \A k \in Kinds :
        /\ ~Waits(chains[k].top)
        /\ \A m \in FilterModules : ~Waits(chains[k].next[m])
        /\ ~Waits(Ndg) => Ndg \in Walk(chains[k])
    /\ pc # "config" => waiting = <<>>

\* NgxFilter::set keeps every filter that calls went through before.
LEMMA SetKeepsWalk ==
    ASSUME NEW c \in FilterChains, NEW m \in FilterModules,
           c.top # m, \A x \in FilterModules : c.next[x] # m
    PROVE  /\ set(c, m) \in FilterChains
           /\ set(c, m).top = m
           /\ set(c, m).next[m] = c.top
           /\ \A x \in FilterModules \ {m} : set(c, m).next[x] = c.next[x]
           /\ Walk(c) \subseteq Walk(set(c, m))
           /\ m \in Walk(set(c, m))
<1> DEFINE d == set(c, m)
<1>1. /\ d \in FilterChains /\ d.top = m /\ d.next[m] = c.top
      /\ \A x \in FilterModules \ {m} : d.next[x] = c.next[x]
  BY DEF set, FilterChains
<1> HIDE DEF d
<1>2. m \in Places /\ c.top # m
  BY DEF Places
<1>3. m \in Walk(d)
  BY <1>1, <1>2 DEF Walk, Follows
<1>4. ASSUME NEW x \in Walk(c)
      PROVE  x \in Walk(d)
  <2>1. x \in Places
    BY DEF Walk
  <2>2. ASSUME NEW S \in SUBSET Places, Follows(d, S)
        PROVE  x \in S
    <3> DEFINE R == S \ {m}
    <3>1. m \in S /\ c.top \in R
      BY <1>1, <2>2 DEF Follows
    <3>2. ASSUME NEW y \in R \cap FilterModules
          PROVE  c.next[y] \in R
      BY <1>1, <2>2, <3>2 DEF Follows
    <3>3. Follows(c, R) /\ R \in SUBSET Places
      BY <3>1, <3>2 DEF Follows
    <3> QED
      BY <3>3 DEF Walk
  <2> QED
    BY <2>1, <2>2 DEF Walk
<1> QED
  BY <1>1, <1>3, <1>4 DEF d

LEMMA LinkedKept == Linked /\ [Next]_vars => Linked'
<1> SUFFICES ASSUME Linked, [Next]_vars
             PROVE  Linked'
  OBVIOUS
<1>1. ASSUME NEW ks \in SUBSET Kinds, register(ks)
      PROVE  Linked'
  <2> DEFINE m == Head(waiting)
  <2>1. /\ pc = "config" /\ waiting # <<>> /\ (m = Ndg => ks = Kinds)
        /\ chains' = init(chains, m, ks)
        /\ waiting' = Tail(waiting)
        /\ pc' = IF waiting' = <<>> THEN "content" ELSE pc
    BY <1>1 DEF register
  <2>2. /\ waiting \in Seq(FilterModules)
        /\ Len(waiting) \in Nat \ {0}
        /\ m = waiting[1] /\ m \in FilterModules
        /\ Tail(waiting) \in Seq(FilterModules)
        /\ Len(Tail(waiting)) = Len(waiting) - 1
        /\ \A i \in 1 .. (Len(waiting) - 1) : Tail(waiting)[i] = waiting[i + 1]
    <3>1. waiting \in Seq(FilterModules)
      BY DEF Linked
    <3> QED
      BY <2>1, <3>1, HeadTailProperties, LenProperties, EmptySeq
  <2> HIDE DEF m
  <2>3. \A i, j \in 1 .. Len(waiting') : waiting'[i] = waiting'[j] => i = j
    <3>1. ASSUME NEW i \in 1 .. Len(waiting'), NEW j \in 1 .. Len(waiting'),
                 waiting'[i] = waiting'[j]
          PROVE  i = j
      <4>1. /\ i + 1 \in 1 .. Len(waiting) /\ j + 1 \in 1 .. Len(waiting)
            /\ waiting[i + 1] = waiting[j + 1]
        BY <2>1, <2>2, <3>1
      <4>2. i + 1 = j + 1
        BY <4>1 DEF Linked
      <4> QED
        BY <4>2
    <3> QED
      BY <3>1
  <2>4. \A x : Waits(x)' => Waits(x) /\ x # m
    <3>1. ASSUME NEW i \in 1 .. Len(waiting')
          PROVE  Waits(waiting'[i]) /\ waiting'[i] # m
      <4>1. i + 1 \in 1 .. Len(waiting) /\ 1 \in 1 .. Len(waiting) /\ i + 1 # 1
            /\ waiting'[i] = waiting[i + 1]
        BY <2>1, <2>2
      <4>2. waiting[i + 1] # waiting[1]
        BY <4>1 DEF Linked
      <4> QED
        BY <2>2, <4>1, <4>2 DEF Waits
    <3> QED
      BY <3>1 DEF Waits
  <2>5. Waits(m)
    BY <2>2 DEF Waits
  <2>6. \A x : Waits(x) /\ x # m => Waits(x)'
    <3>1. ASSUME NEW i \in 1 .. Len(waiting), waiting[i] # m
          PROVE  \E j \in 1 .. Len(waiting') : waiting'[j] = waiting[i]
      <4>1. i # 1
        BY <2>2, <3>1
      <4>2. i - 1 \in 1 .. Len(waiting') /\ waiting'[i - 1] = waiting[i]
        BY <2>1, <2>2, <4>1
      <4> QED
        BY <4>2
    <3> QED
      BY <3>1 DEF Waits
  <2>7. ASSUME NEW k \in Kinds
        PROVE  /\ chains'[k] \in FilterChains
               /\ ~Waits(chains[k].top)'
               /\ \A x \in FilterModules : ~Waits(chains[k].next[x])'
               /\ ~Waits(Ndg)' => Ndg \in Walk(chains[k])'
    <3>1. /\ chains[k] \in FilterChains
          /\ ~Waits(chains[k].top)
          /\ \A x \in FilterModules : ~Waits(chains[k].next[x])
          /\ ~Waits(Ndg) => Ndg \in Walk(chains[k])
      BY DEF Linked
    <3>2. chains'[k] = IF k \in ks THEN set(chains[k], m) ELSE chains[k]
      BY <2>1 DEF init
    <3>3. CASE k \notin ks
      <4>1. chains'[k] = chains[k] /\ m # Ndg
        BY <2>1, <3>2, <3>3
      <4>2. ~Waits(Ndg)' => ~Waits(Ndg)
        BY <2>6, <4>1
      <4> QED
        BY <2>4, <3>1, <4>1, <4>2 DEF Walk, Follows
    <3>4. CASE k \in ks
      <4>1. chains'[k] = set(chains[k], m)
        BY <3>2, <3>4
      <4>2. /\ set(chains[k], m) \in FilterChains
            /\ set(chains[k], m).top = m
            /\ set(chains[k], m).next[m] = chains[k].top
            /\ \A x \in FilterModules \ {m} : set(chains[k], m).next[x] = chains[k].next[x]
            /\ Walk(chains[k]) \subseteq Walk(set(chains[k], m))
            /\ m \in Walk(set(chains[k], m))
        <5>1. chains[k].top # m /\ \A x \in FilterModules : chains[k].next[x] # m
          BY <2>5, <3>1
        <5> QED
          BY <2>2, <3>1, <5>1, SetKeepsWalk
      <4>3. ~Waits(chains[k].top)'
        BY <2>4, <4>1, <4>2
      <4>4. \A x \in FilterModules : ~Waits(chains[k].next[x])'
        BY <2>4, <3>1, <4>1, <4>2
      <4>5. ~Waits(Ndg)' => Ndg \in Walk(chains'[k])
        BY <2>6, <3>1, <4>1, <4>2
      <4> QED
        BY <4>1, <4>2, <4>3, <4>4, <4>5 DEF Walk, Follows
    <3> QED
      BY <3>3, <3>4
  <2>8. chains' \in [Kinds -> FilterChains]
    <3>1. chains' = [k \in Kinds |-> chains'[k]]
      BY <2>1 DEF init
    <3> QED
      BY <2>7, <3>1
  <2> QED
    BY <2>1, <2>2, <2>3, <2>7, <2>8 DEF Linked
<1>2. ASSUME UNCHANGED <<chains, waiting>>, pc' = "config" <=> pc = "config"
      PROVE  Linked'
  BY <1>2 DEF Linked, Waits
<1>3. CASE \E args \in Arguments, msg \in Messages : handler(args, msg)
  BY <1>2, <1>3 DEF handler
<1>4. CASE \E n \in Bodies : serve(n)
  BY <1>2, <1>4 DEF serve
<1>5. CASE \E n \in Bodies \ {0} : subrequest(n)
  BY <1>2, <1>5 DEF subrequest
<1>6. CASE send
  BY <1>2, <1>6 DEF send, headerPasses, headerRefused, lose
<1>7. CASE output
  BY <1>2, <1>7 DEF output
<1>8. CASE write
  BY <1>2, <1>8 DEF write, lose
<1>9. CASE UNCHANGED vars
  BY <1>2, <1>9 DEF vars
<1> QED
  BY <1>1, <1>3, <1>4, <1>5, <1>6, <1>7, <1>8, <1>9 DEF Next

LEMMA InitLinked == Init => Linked
<1> SUFFICES ASSUME Init PROVE Linked
  OBVIOUS
<1> DEFINE n == Cardinality(FilterModules)
<1>1. /\ waiting \in [1 .. n -> FilterModules]
      /\ \A i, j \in 1 .. n : i # j => waiting[i] # waiting[j]
  BY DEF Init, SetToSeqs
<1>2. n \in Nat /\ IsFiniteSet(FilterModules)
  BY FilterAssumption, FS_CardinalityType
<1>3. waiting \in Seq(FilterModules) /\ Len(waiting) = n
  BY <1>1, <1>2
<1>4. Waits(Ndg)
  <2>1. IsFiniteSet(1 .. n) /\ Cardinality(1 .. n) = n
    <3>1. n \in Int /\ 1 \in Int
      BY <1>2
    <3> QED
      BY <1>2, <3>1, FS_Interval
  <2>2. waiting \in Injection(1 .. n, FilterModules)
    BY <1>1 DEF Injection, IsInjective
  <2>3. waiting \in Surjection(1 .. n, FilterModules)
    BY <1>2, <2>1, <2>2, FS_Injection
  <2>4. Ndg \in FilterModules
    BY EchoAssumption
  <2> QED
    BY <1>3, <2>3, <2>4 DEF Surjection, Waits
<1>5. WriterOnly \in FilterChains
  BY DEF WriterOnly, FilterChains
<1>6. Writer \notin FilterModules /\ NoFilter \notin FilterModules
  BY FilterAssumption
<1>7. \A x : Waits(x) => x \in FilterModules
  BY <1>1, <1>3 DEF Waits
<1>8. \A i, j \in 1 .. Len(waiting) : waiting[i] = waiting[j] => i = j
  BY <1>1, <1>3
<1>9. ASSUME NEW k \in Kinds
      PROVE  /\ ~Waits(chains[k].top)
             /\ \A m \in FilterModules : ~Waits(chains[k].next[m])
  BY <1>6, <1>7 DEF Init, WriterOnly
<1> QED
  BY <1>3, <1>4, <1>5, <1>8, <1>9 DEF Init, Linked

-------------------------------------------------------------------------------
\* The end of the body.

Plain(c) == \A j \in 1 .. Len(c) : ~c[j].last /\ c[j].kind # "footer"

\* The call of a chain with which the body does not end, for either of the modules.
OpenCall(x) ==
    /\ x.chain # <<>>
    /\ Plain(x.chain)
    /\ x.r = Main => \A j \in 1 .. Len(x.chain) : ~x.chain[j].lic
    /\ x.r = Sub => ~(conf.legacy /\ conf.subfooter > 0)

Ending(c) ==
    /\ c # <<>>
    /\ \A j \in 1 .. Len(c) :
        /\ c[j].kind # "footer"
        /\ c[j].last <=> j = Len(c)
        /\ c[j].lic => j = Len(c)

LastCall(x) == x.r = Main /\ Ending(x.chain)

Open(t) == \A i \in 1 .. Len(t) : OpenCall(t[i])

Closed(t) == \A i \in 1 .. Len(t) : IF i = Len(t) THEN LastCall(t[i]) ELSE OpenCall(t[i])

\* The last chain as the writer gets it.
Ended(c) ==
    /\ c # <<>>
    /\ \A j \in 1 .. Len(c) :
        /\ c[j].last <=> j = Len(c)
        /\ c[j].kind = "footer" <=> (j = Len(c) /\ conf.footer > 0)
        /\ c[j].kind = "footer" => c[j].size > 0

Typed ==
    /\ conf \in Confs
    /\ req \in [{Main, Sub} -> Requests]
    /\ pc \in {"config", "content", "send", "write", "done"}
    /\ todo \in Seq(CallsOf)
    /\ chain \in Seq(Buffers)
    /\ page \in BOOLEAN
    /\ wire \in [declared: Nat \cup {Undeclared, NoHeader}, sent: Nat,
                 ended: BOOLEAN, lost: BOOLEAN]
    /\ kinds \in Seq({"content", "special", "footer"})

Unsent ==
    /\ ~wire.ended
    /\ kinds = <<>>
    /\ chain = <<>>
    /\ req = [r \in {Main, Sub} |-> FreshRequest]

\* The footer is still to come, and the module knows of the request.
Awaited ==
    /\ ~wire.ended
    /\ \A i \in 1 .. Len(kinds) : kinds[i] # "footer"
    /\ Closed(todo)
    /\ todo # <<>> => IF req[Main].header_sent THEN req[Main].flag = 1
                                               ELSE req[Main].flag \in {0, 1}

Marks ==
    /\ Typed
    /\ pc \in {"config", "content"} => Unsent
    /\ pc \in {"send", "write"} => Awaited
    /\ pc = "send" => todo # <<>> /\ chain = <<>>
    /\ pc = "write" => chain # <<>> /\ IF todo = <<>> THEN Ended(chain) ELSE Plain(chain)
    /\ FooterCloses

\* What do_header_filter leaves in a request.
LEMMA HeaderFilterIs ==
    ASSUME NEW q \in Requests, NEW f \in Nat
    PROVE  LET d == do_header_filter(q, f)
           IN  /\ d \in Requests
               /\ d.header_sent = q.header_sent
               /\ d.flag = IF q.flag = 0 THEN 1 ELSE q.flag
               /\ d.length = IF q.flag = 0 /\ f > 0 /\ q.length > 0
                             THEN q.length + f ELSE q.length
<1>1. PICK flag \in {0, 1, 2}, length \in Nat \cup {Undeclared}, hs \in BOOLEAN :
        q = [flag |-> flag, length |-> length, header_sent |-> hs]
  BY DEF Requests
<1>2. length \in Int /\ Undeclared = -1
  BY DEF Undeclared
<1>3. CASE flag # 0
  <2>1. do_header_filter(q, f) = q
    BY <1>1, <1>3 DEF do_header_filter
  <2> QED
    BY <1>1, <1>3, <2>1
<1>4. CASE flag = 0
  <2> DEFINE more == IF f > 0 /\ length > 0 THEN length + f ELSE length
  <2>1. do_header_filter(q, f) = [flag |-> 1, length |-> more, header_sent |-> hs]
    BY <1>1, <1>4 DEF do_header_filter
  <2>2. more \in Nat \cup {Undeclared}
    BY <1>2
  <2> QED
    BY <1>1, <1>2, <1>4, <2>1, <2>2 DEF Requests
<1> QED
  BY <1>1, <1>3, <1>4

\* do_body_filter lets a chain pass in which it sees no end.
LEMMA BodyPasses ==
    ASSUME NEW q, NEW f, NEW c \in Seq(Buffers), NEW l \in BOOLEAN,
           f = 0 \/ \A j \in 1 .. Len(c) : ~Ends(c[j], l)
    PROVE  bodyChain(q, f, c, l) = c /\ bodyFlag(q, f, c, l) = q.flag
<1>1. ~Finds(q, f, c, l)
  BY DEF Finds
<1> QED
  BY <1>1 DEF bodyChain, bodyFlag

\* The last chain gets the footer, in the place of its last buffer or after it.
FooterAdded(c, f, d) ==
    LET n == Len(c)
    IN  \/ f = 0 /\ d = c
        \/ /\ f > 0 /\ c[n].size = 0
           /\ d = [c EXCEPT ![n] = footerBuf(f)]
        \/ /\ f > 0 /\ c[n].size > 0
           /\ d = SubSeq(c, 1, n - 1)
                     \o <<[c[n] EXCEPT !.last = FALSE, !.lic = FALSE], footerBuf(f)>>

LEMMA BodyCloses ==
    ASSUME NEW q, q.flag = 1, NEW f \in Nat, NEW c \in Seq(Buffers), Ending(c),
           NEW l \in BOOLEAN
    PROVE  FooterAdded(c, f, bodyChain(q, f, c, l))
<1> DEFINE n == Len(c)
<1>1. n \in Nat \ {0} /\ DOMAIN c = 1 .. n
  BY EmptySeq, LenProperties DEF Ending
<1>2. \A j \in 1 .. n : Ends(c[j], l) <=> j = n
  BY <1>1 DEF Ending, Ends
<1>3. CASE f = 0
  <2>1. bodyChain(q, f, c, l) = c
    BY <1>3, BodyPasses
  <2> QED
    BY <1>3, <2>1 DEF FooterAdded
<1>4. CASE f > 0
  <2>1. Finds(q, f, c, l)
    <3>1. n \in DOMAIN c
      BY <1>1
    <3>2. n \in DOMAIN c /\ Ends(c[n], l)
      BY <1>1, <1>2, <3>1, Zenon
    <3> QED
      BY <1>4, <3>2 DEF Finds
  <2>2. FirstEnd(c, l) = n
    <3> DEFINE First(i) == Ends(c[i], l) /\ \A j \in 1 .. (i - 1) : ~Ends(c[j], l)
    <3>1. n \in DOMAIN c /\ First(n)
      <4>1. n \in 1 .. n /\ \A j \in 1 .. (n - 1) : j \in 1 .. n /\ j # n
        <5> HIDE DEF n
        <5> QED
          BY <1>1
      <4> QED
        BY <1>1, <1>2, <4>1, Zenon
    <3>2. \A i \in DOMAIN c : First(i) => i = n
      BY <1>1, <1>2, Zenon
    <3>3. FirstEnd(c, l) = CHOOSE i \in DOMAIN c : First(i)
      BY DEF FirstEnd
    <3> HIDE DEF First
    <3> QED
      BY <3>1, <3>2, <3>3
  <2>3. c[n].size \in Nat
    <3>1. c[n] \in Buffers
      BY <1>1, ElementOfSeq
    <3> QED
      BY <3>1 DEF Buffers
  <2>4. bodyChain(q, f, c, l) =
            IF c[n].size = 0 THEN [c EXCEPT ![n] = footerBuf(f)]
            ELSE SubSeq(c, 1, n - 1)
                    \o <<[c[n] EXCEPT !.last = FALSE, !.lic = FALSE], footerBuf(f)>>
    BY <2>1, <2>2 DEF bodyChain, ReplaceAt
  <2>5. CASE c[n].size = 0
    BY <1>4, <2>4, <2>5 DEF FooterAdded
  <2>6. CASE c[n].size > 0
    BY <1>4, <2>4, <2>6 DEF FooterAdded
  <2>7. c[n].size = 0 \/ c[n].size > 0
    BY <2>3
  <2> QED
    BY <2>5, <2>6, <2>7
<1>5. f = 0 \/ f > 0
  OBVIOUS
<1> QED
  BY <1>3, <1>4, <1>5

\* The buffers of the chain that do_body_filter makes of the last one.
LEMMA ClosedIs ==
    ASSUME NEW f \in Nat \ {0}, NEW c \in Seq(Buffers), c # <<>>
    PROVE  LET n == Len(c)
               d == SubSeq(c, 1, n - 1)
                      \o <<[c[n] EXCEPT !.last = FALSE, !.lic = FALSE], footerBuf(f)>>
           IN  /\ d \in Seq(Buffers) /\ Len(d) = n + 1
               /\ \A j \in 1 .. (n - 1) : d[j] = c[j]
               /\ d[n] = [c[n] EXCEPT !.last = FALSE, !.lic = FALSE]
               /\ d[n + 1] = footerBuf(f)
<1> DEFINE n == Len(c)
           a == SubSeq(c, 1, n - 1)
           x == [c[n] EXCEPT !.last = FALSE, !.lic = FALSE]
           e == <<x, footerBuf(f)>>
<1>1. n \in Nat \ {0} /\ c[n] \in Buffers
  <2>1. n \in Nat \ {0}
    BY EmptySeq, LenProperties
  <2> QED
    BY <2>1, ElementOfSeq
<1>2. /\ a \in Seq(Buffers) /\ Len(a) = n - 1
      /\ \A j \in 1 .. (n - 1) : a[j] = c[j]
  <2>1. 1 \in Int /\ n - 1 \in Int
    BY <1>1
  <2>2. \A i \in 1 .. (n - 1) : c[i] \in Buffers
    BY <1>1, ElementOfSeq
  <2>3. /\ a \in Seq(Buffers) /\ Len(a) = IF 1 <= n - 1 THEN (n - 1) - 1 + 1 ELSE 0
        /\ \A j \in 1 .. ((n - 1) - 1 + 1) : a[j] = c[1 + j - 1]
    BY <2>1, <2>2, SubSeqProperties
  <2>4. \A j \in 1 .. (n - 1) : 1 + j - 1 = j
    OBVIOUS
  <2>5. (n - 1) - 1 + 1 = n - 1 /\ (~(1 <= n - 1) => n - 1 = 0)
    <3> HIDE DEF n
    <3> QED
      BY <1>1
  <2> HIDE DEF a, n
  <2> QED
    BY <1>1, <2>3, <2>4, <2>5
<1>3. footerBuf(f) \in Buffers
  BY DEF footerBuf, Buffers
<1>4. x \in Buffers
  BY <1>1 DEF Buffers
<1> HIDE DEF x
<1>5. e \in Seq(Buffers) /\ Len(e) = 2 /\ e[1] = x /\ e[2] = footerBuf(f)
  BY <1>3, <1>4
<1> HIDE DEF a, e, n
<1> SUFFICES /\ a \o e \in Seq(Buffers) /\ Len(a \o e) = n + 1
             /\ \A j \in 1 .. (n - 1) : (a \o e)[j] = c[j]
             /\ (a \o e)[n] = x
             /\ (a \o e)[n + 1] = footerBuf(f)
  BY DEF a, e, n, x
<1>6. /\ a \o e \in Seq(Buffers) /\ Len(a \o e) = n + 1
      /\ \A j \in 1 .. (n + 1) : (a \o e)[j] = IF j <= n - 1 THEN a[j] ELSE e[j - (n - 1)]
  <2>1. /\ a \o e \in Seq(Buffers)
        /\ Len(a \o e) = Len(a) + Len(e)
        /\ \A i \in 1 .. (Len(a) + Len(e)) :
            (a \o e)[i] = IF i <= Len(a) THEN a[i] ELSE e[i - Len(a)]
    BY <1>2, <1>5, ConcatProperties
  <2> QED
    BY <1>1, <1>2, <1>5, <2>1
<1>7. ASSUME NEW j \in 1 .. (n - 1)
      PROVE  (a \o e)[j] = c[j]
  <2>1. j \in 1 .. (n + 1) /\ j <= n - 1
    BY <1>1
  <2>2. (a \o e)[j] = a[j]
    BY <1>6, <2>1
  <2> QED
    BY <1>2, <2>2
<1>8. (a \o e)[n] = x /\ (a \o e)[n + 1] = footerBuf(f)
  <2>1. /\ n \in 1 .. (n + 1) /\ ~(n <= n - 1) /\ n - (n - 1) = 1
        /\ n + 1 \in 1 .. (n + 1) /\ ~(n + 1 <= n - 1) /\ (n + 1) - (n - 1) = 2
    BY <1>1
  <2>2. (a \o e)[n] = e[n - (n - 1)] /\ (a \o e)[n + 1] = e[(n + 1) - (n - 1)]
    BY <1>6, <2>1
  <2> QED
    BY <1>5, <2>1, <2>2
<1> QED
  BY <1>6, <1>7, <1>8

LEMMA BodyEnded ==
    ASSUME NEW q, q.flag = 1, NEW c \in Seq(Buffers), Ending(c), conf \in Confs
    PROVE  LET d == bodyChain(q, conf.footer, c, conf.legacy)
           IN  d \in Seq(Buffers) /\ Ended(d)
<1> DEFINE f == conf.footer
           d == bodyChain(q, f, c, conf.legacy)
           n == Len(c)
<1>1. f \in Nat /\ conf.legacy \in BOOLEAN
  BY DEF Confs
<1>2. n \in Nat \ {0} /\ DOMAIN c = 1 .. n
  BY EmptySeq, LenProperties DEF Ending
<1>3. CASE f = 0 /\ d = c
  <2>1. ~(conf.footer > 0)
    BY <1>3
  <2>2. \A j \in 1 .. n : c[j].kind # "footer" /\ (c[j].last <=> j = n)
    BY DEF Ending
  <2> QED
    BY <1>3, <2>1, <2>2, Zenon DEF Ending, Ended
<1>4. CASE f > 0 /\ c[n].size = 0 /\ d = [c EXCEPT ![n] = footerBuf(f)]
  <2>1. footerBuf(f) \in Buffers
    BY <1>1 DEF footerBuf, Buffers
  <2>2. d \in Seq(Buffers) /\ Len(d) = n
    BY <1>2, <1>4, <2>1, ExceptSeq
  <2>3. /\ d[n] = footerBuf(f)
        /\ \A j \in 1 .. n : j # n => d[j] = c[j]
    BY <1>2, <1>4
  <2>4. \A j \in 1 .. n : j # n => ~c[j].last /\ c[j].kind # "footer"
    BY <1>2 DEF Ending
  <2>5. footerBuf(f).last /\ footerBuf(f).kind = "footer" /\ footerBuf(f).size > 0
    BY <1>4 DEF footerBuf
  <2> QED
    BY <1>2, <1>4, <2>2, <2>3, <2>4, <2>5, EmptySeq DEF Ended
<1>5. CASE /\ f > 0
           /\ d = SubSeq(c, 1, n - 1)
                    \o <<[c[n] EXCEPT !.last = FALSE, !.lic = FALSE], footerBuf(f)>>
  <2>1. /\ d \in Seq(Buffers) /\ Len(d) = n + 1
        /\ \A j \in 1 .. (n - 1) : d[j] = c[j]
        /\ d[n] = [c[n] EXCEPT !.last = FALSE, !.lic = FALSE]
        /\ d[n + 1] = footerBuf(f)
    <3>1. f \in Nat \ {0} /\ c # <<>>
      BY <1>1, <1>5 DEF Ending
    <3> DEFINE e == SubSeq(c, 1, Len(c) - 1)
                      \o <<[c[Len(c)] EXCEPT !.last = FALSE, !.lic = FALSE], footerBuf(f)>>
    <3>2. /\ e \in Seq(Buffers) /\ Len(e) = Len(c) + 1
          /\ \A j \in 1 .. (Len(c) - 1) : e[j] = c[j]
          /\ e[Len(c)] = [c[Len(c)] EXCEPT !.last = FALSE, !.lic = FALSE]
          /\ e[Len(c) + 1] = footerBuf(f)
      <4> HIDE DEF f
      <4> QED
        BY <3>1, ClosedIs
    <3>3. d = e
      BY <1>5
    <3> HIDE DEF d, e
    <3> QED
      BY <3>2, <3>3
  <2>2. \A j \in 1 .. n : d[j].last = FALSE /\ d[j].kind # "footer"
    <3>1. ASSUME NEW j \in 1 .. n
          PROVE  d[j].last = FALSE /\ d[j].kind # "footer"
      <4>1. c[j] \in Buffers /\ c[j].kind # "footer" /\ (c[j].last <=> j = n)
        BY <1>2, ElementOfSeq DEF Ending
      <4>2. CASE j = n
        <5>1. PICK size \in Nat, last \in BOOLEAN, lic \in BOOLEAN,
                   kind \in {"content", "special", "footer"} :
                c[n] = [size |-> size, last |-> last, lic |-> lic, kind |-> kind]
          BY <4>1, <4>2 DEF Buffers
        <5>2. d[n] = [size |-> size, last |-> FALSE, lic |-> FALSE, kind |-> kind]
          <6>1. d[n] = [[size |-> size, last |-> last, lic |-> lic, kind |-> kind]
                            EXCEPT !.last = FALSE, !.lic = FALSE]
            BY <2>1, <5>1
          <6> HIDE DEF d, n
          <6> QED
            BY <6>1
        <5>3. d[n].last = FALSE /\ d[n].kind = kind
          <6> HIDE DEF d, n
          <6> QED
            BY <5>2
        <5>4. c[n].kind = kind
          BY <5>1
        <5>5. d[j] = d[n] /\ c[j] = c[n]
          BY <4>2
        <5> HIDE DEF d, n
        <5> QED
          BY <4>1, <5>3, <5>4, <5>5, Zenon
      <4>3. CASE j # n
        <5>1. j \in 1 .. (n - 1)
          <6> HIDE DEF n
          <6> QED
            BY <1>2, <4>3
        <5>2. d[j] = c[j]
          BY <2>1, <5>1
        <5>3. c[j].last = FALSE
          <6>1. c[j].last \in BOOLEAN
            BY <4>1 DEF Buffers
          <6> QED
            BY <4>1, <4>3, <6>1
        <5> QED
          BY <4>1, <5>2, <5>3, Zenon
      <4> QED
        BY <4>2, <4>3
    <3> QED
      BY <3>1
  <2>3. footerBuf(f).last /\ footerBuf(f).kind = "footer" /\ footerBuf(f).size > 0
    BY <1>5 DEF footerBuf
  <2> QED
    BY <1>2, <1>5, <2>1, <2>2, <2>3, EmptySeq DEF Ended
<1>6. FooterAdded(c, f, d)
  <2> HIDE DEF f
  <2> QED
    BY <1>1, BodyCloses
<1> HIDE DEF f
<1>7. \/ f = 0 /\ d = c
      \/ f > 0 /\ c[n].size = 0 /\ d = [c EXCEPT ![n] = footerBuf(f)]
      \/ /\ f > 0
         /\ d = SubSeq(c, 1, n - 1)
                  \o <<[c[n] EXCEPT !.last = FALSE, !.lic = FALSE], footerBuf(f)>>
  BY <1>6, Zenon DEF FooterAdded
<1> HIDE DEF d, n
<1> QED
  BY <1>3, <1>4, <1>5, <1>7, Zenon

-------------------------------------------------------------------------------
\* What the content handlers send.

LEMMA BuffersAre ==
    /\ \A n \in Nat : Content(n) \in Buffers
    /\ \A mark \in {"flush", "lic", "last"} : special(mark) \in Buffers
BY DEF Content, special, Buffers

LEMMA CallsAre ==
    ASSUME NEW r \in {Main, Sub}, NEW chs \in Seq(Seq(Buffers))
    PROVE  /\ Calls(r, chs) \in Seq(CallsOf)
           /\ Len(Calls(r, chs)) = Len(chs)
           /\ \A i \in 1 .. Len(chs) : Calls(r, chs)[i] = [r |-> r, chain |-> chs[i]]
<1> DEFINE n == Len(chs)
           t == [i \in 1 .. n |-> [r |-> r, chain |-> chs[i]]]
<1>1. n \in Nat /\ DOMAIN chs = 1 .. n /\ \A i \in 1 .. n : chs[i] \in Seq(Buffers)
  BY LenProperties, ElementOfSeq
<1>2. Calls(r, chs) = t
  BY <1>1 DEF Calls
<1>3. \A i \in 1 .. n : t[i] \in CallsOf
  BY <1>1 DEF CallsOf
<1>4. t \in Seq(CallsOf) /\ Len(t) = n
  <2> HIDE DEF n
  <2> QED
    BY <1>1, <1>3
<1> QED
  BY <1>2, <1>4

LEMMA OpenCalls ==
    ASSUME NEW r \in {Main, Sub}, NEW chs \in Seq(Seq(Buffers)),
           \A i \in 1 .. Len(chs) : chs[i] # <<>> /\ Plain(chs[i]),
           r = Main => \A i \in 1 .. Len(chs) : \A j \in 1 .. Len(chs[i]) : ~chs[i][j].lic,
           r = Sub => ~(conf.legacy /\ conf.subfooter > 0)
    PROVE  Calls(r, chs) \in Seq(CallsOf) /\ Open(Calls(r, chs))
<1>1. /\ Calls(r, chs) \in Seq(CallsOf)
      /\ Len(Calls(r, chs)) = Len(chs)
      /\ \A i \in 1 .. Len(chs) : Calls(r, chs)[i] = [r |-> r, chain |-> chs[i]]
  BY CallsAre
<1>2. ASSUME NEW i \in 1 .. Len(chs)
      PROVE  OpenCall([r |-> r, chain |-> chs[i]])
  BY DEF OpenCall
<1> QED
  BY <1>1, <1>2 DEF Open

LEMMA LastCalls ==
    ASSUME NEW c \in Seq(Buffers), Ending(c)
    PROVE  /\ Calls(Main, <<c>>) \in Seq(CallsOf)
           /\ Calls(Main, <<c>>) # <<>>
           /\ Closed(Calls(Main, <<c>>))
<1>1. /\ <<c>> \in Seq(Seq(Buffers)) /\ Len(<<c>>) = 1 /\ <<c>>[1] = c
      /\ Main \in {Main, Sub}
  OBVIOUS
<1>2. /\ Calls(Main, <<c>>) \in Seq(CallsOf)
      /\ Len(Calls(Main, <<c>>)) = 1
      /\ \A i \in 1 .. 1 : Calls(Main, <<c>>)[i] = [r |-> Main, chain |-> <<c>>[i]]
  BY <1>1, CallsAre
<1>3. LastCall([r |-> Main, chain |-> c])
  BY DEF LastCall
<1> DEFINE t == Calls(Main, <<c>>)
<1>4. t[1] = [r |-> Main, chain |-> c]
  <2>1. 1 \in 1 .. 1
    OBVIOUS
  <2>2. t[1] = [r |-> Main, chain |-> <<c>>[1]]
    BY <1>2, <2>1, Zenon
  <2> QED
    BY <2>2
<1>5. Len(t) = 1
  BY <1>2
<1>6. t # <<>>
  BY <1>2, EmptySeq
<1> HIDE DEF t
<1>7. \A i \in 1 .. Len(t) : IF i = Len(t) THEN LastCall(t[i]) ELSE OpenCall(t[i])
  <2>1. \A i \in 1 .. Len(t) : i = 1 /\ i = Len(t)
    BY <1>5
  <2> QED
    BY <1>3, <1>4, <2>1, Zenon
<1>8. Closed(t)
  BY <1>7 DEF Closed
<1> QED
  BY <1>2, <1>6, <1>8 DEF t

LEMMA OpenConcat ==
    ASSUME NEW a \in Seq(CallsOf), NEW b \in Seq(CallsOf), Open(a)
    PROVE  /\ a \o b \in Seq(CallsOf)
           /\ Open(b) => Open(a \o b)
           /\ b # <<>> /\ Closed(b) => a \o b # <<>> /\ Closed(a \o b)
<1> DEFINE k == Len(a)
           m == Len(b)
           t == a \o b
<1>1. k \in Nat /\ m \in Nat /\ (b # <<>> => m > 0)
  BY LenProperties, EmptySeq
<1>2. /\ t \in Seq(CallsOf) /\ Len(t) = k + m
      /\ \A i \in 1 .. (k + m) : t[i] = IF i <= k THEN a[i] ELSE b[i - k]
  BY ConcatProperties
<1>3. \A i \in 1 .. k : OpenCall(a[i])
  BY DEF Open
<1>4. ASSUME Open(b) PROVE Open(t)
  <2>1. \A i \in 1 .. m : OpenCall(b[i])
    BY <1>4 DEF Open
  <2>2. ASSUME NEW i \in 1 .. Len(t)
        PROVE  OpenCall(t[i])
    <3> HIDE DEF k, m, t
    <3>1. CASE i <= k
      BY <1>1, <1>2, <1>3, <3>1
    <3>2. CASE ~(i <= k)
      <4>1. i - k \in 1 .. m /\ t[i] = b[i - k]
        BY <1>1, <1>2, <3>2
      <4> QED
        BY <2>1, <4>1, Zenon
    <3> QED
      BY <3>1, <3>2
  <2> QED
    BY <2>2 DEF Open
<1>5. ASSUME b # <<>>, Closed(b) PROVE t # <<>> /\ Closed(t)
  <2>1. \A i \in 1 .. m : IF i = m THEN LastCall(b[i]) ELSE OpenCall(b[i])
    BY <1>5 DEF Closed
  <2>2. ASSUME NEW i \in 1 .. Len(t)
        PROVE  IF i = Len(t) THEN LastCall(t[i]) ELSE OpenCall(t[i])
    <3> HIDE DEF k, m, t
    <3>1. CASE i <= k
      <4>1. i \in 1 .. k /\ i # Len(t) /\ t[i] = a[i]
        BY <1>1, <1>2, <1>5, <3>1
      <4> QED
        BY <1>3, <4>1, Zenon
    <3>2. CASE ~(i <= k)
      <4>1. i - k \in 1 .. m /\ t[i] = b[i - k] /\ (i = Len(t) <=> i - k = m)
        BY <1>1, <1>2, <3>2
      <4> QED
        BY <2>1, <4>1, Zenon
    <3> QED
      BY <3>1, <3>2
  <2>3. t # <<>>
    <3> HIDE DEF k, m, t
    <3> QED
      BY <1>1, <1>2, <1>5, EmptySeq
  <2> QED
    BY <2>2, <2>3 DEF Closed
<1> QED
  BY <1>2, <1>4, <1>5

LEMMA OneIsPlain ==
    ASSUME NEW b \in Buffers, ~b.last, b.kind # "footer"
    PROVE  <<b>> \in Seq(Buffers) /\ <<b>> # <<>> /\ Plain(<<b>>)
BY DEF Plain

LEMMA OneIsEnding ==
    ASSUME NEW b \in Buffers, b.last, b.kind # "footer"
    PROVE  <<b>> \in Seq(Buffers) /\ Ending(<<b>>)
<1>1. /\ <<b>> \in Seq(Buffers) /\ Len(<<b>>) = 1 /\ <<b>>[1] = b /\ <<b>> # <<>>
      /\ \A j \in 1 .. 1 : j = 1
  OBVIOUS
<1> QED
  BY <1>1, Zenon DEF Ending

\* A call with one buffer that ends nothing.
LEMMA OneOpenCall ==
    ASSUME NEW r \in {Main, Sub}, NEW b \in Buffers, ~b.last, b.kind # "footer",
           r = Main => ~b.lic,
           r = Sub => ~(conf.legacy /\ conf.subfooter > 0)
    PROVE  Calls(r, <<<<b>>>>) \in Seq(CallsOf) /\ Open(Calls(r, <<<<b>>>>))
<1>1. <<b>> \in Seq(Buffers) /\ <<b>> # <<>> /\ Plain(<<b>>) /\ Len(<<b>>) = 1 /\ <<b>>[1] = b
  BY OneIsPlain
<1> DEFINE chs == <<<<b>>>>
<1>2. chs \in Seq(Seq(Buffers)) /\ Len(chs) = 1 /\ chs[1] = <<b>>
  BY <1>1
<1>3. \A i \in 1 .. Len(chs) : chs[i] = <<b>>
  BY <1>2
<1>4. \A j \in 1 .. Len(<<b>>) : <<b>>[j] = b
  BY <1>1
<1> HIDE DEF chs
<1>5. \A i \in 1 .. Len(chs) : chs[i] # <<>> /\ Plain(chs[i])
  BY <1>1, <1>3
<1>6. r = Main => \A i \in 1 .. Len(chs) : \A j \in 1 .. Len(chs[i]) : ~chs[i][j].lic
  BY <1>3, <1>4
<1>7. Calls(r, chs) \in Seq(CallsOf) /\ Open(Calls(r, chs))
  BY <1>2, <1>5, <1>6, OpenCalls
<1> QED
  BY <1>7 DEF chs

LEMMA MarksOf ==
    /\ \A n \in Nat : ~Content(n).last /\ ~Content(n).lic /\ Content(n).kind = "content"
    /\ \A n \in Nat : Content(n).size = n
    /\ \A mark \in {"flush", "lic", "last"} :
        /\ special(mark).kind = "special" /\ special(mark).size = 0
        /\ special(mark).last <=> mark = "last"
        /\ special(mark).lic <=> mark = "lic"
BY DEF Content, special

LEMMA EmptyIsOpen == <<>> \in Seq(CallsOf) /\ Open(<<>>)
BY EmptySeq DEF Open

LEMMA EchoCallsClosed ==
    ASSUME NEW args \in Nat, NEW msg \in Nat
    PROVE  /\ echoCalls(args, msg) \in Seq(CallsOf)
           /\ echoCalls(args, msg) # <<>>
           /\ Closed(echoCalls(args, msg))
<1> DEFINE chs == <<<<Content(args)>>, <<Content(1)>>>>
           a == IF args > 0 THEN Calls(Main, chs) ELSE <<>>
           b == Calls(Main, <<<<Content(msg)>>>>)
           f == IF conf.legacy THEN Calls(Main, <<<<special("flush")>>>>) ELSE <<>>
           e == Calls(Main, <<<<special("last")>>>>)
<1>1. /\ \A n \in Nat : /\ Content(n) \in Buffers /\ ~Content(n).last /\ ~Content(n).lic
                        /\ Content(n).kind # "footer"
      /\ Main \in {Main, Sub} /\ Main # Sub
  BY BuffersAre, MarksOf DEF Main, Sub
<1>2. a \in Seq(CallsOf) /\ Open(a)
  <2>1. \A n \in Nat : /\ <<Content(n)>> \in Seq(Buffers) /\ <<Content(n)>> # <<>>
                       /\ Plain(<<Content(n)>>)
                       /\ \A j \in 1 .. Len(<<Content(n)>>) : ~<<Content(n)>>[j].lic
    <3> TAKE n \in Nat
    <3>1. \A j \in 1 .. Len(<<Content(n)>>) : <<Content(n)>>[j] = Content(n)
      OBVIOUS
    <3>2. <<Content(n)>> \in Seq(Buffers) /\ <<Content(n)>> # <<>> /\ Plain(<<Content(n)>>)
      BY <1>1, OneIsPlain
    <3> QED
      BY <1>1, <3>1, <3>2
  <2>2. /\ chs \in Seq(Seq(Buffers))
        /\ \A i \in 1 .. Len(chs) : \E n \in Nat : chs[i] = <<Content(n)>>
    <3>1. /\ <<Content(args)>> \in Seq(Buffers) /\ <<Content(1)>> \in Seq(Buffers)
          /\ 1 \in Nat
      BY <2>1
    <3>2. Len(chs) = 2 /\ chs[1] = <<Content(args)>> /\ chs[2] = <<Content(1)>>
      OBVIOUS
    <3>3. \A i \in 1 .. 2 : i = 1 \/ i = 2
      OBVIOUS
    <3>4. chs \in Seq(Seq(Buffers))
      BY <3>1
    <3> HIDE DEF chs
    <3> QED
      BY <3>1, <3>2, <3>3, <3>4
  <2> HIDE DEF chs
  <2>3. Calls(Main, chs) \in Seq(CallsOf) /\ Open(Calls(Main, chs))
    <3>1. /\ \A i \in 1 .. Len(chs) : chs[i] # <<>> /\ Plain(chs[i])
          /\ \A i \in 1 .. Len(chs) : \A j \in 1 .. Len(chs[i]) : ~chs[i][j].lic
      BY <2>1, <2>2
    <3> QED
      BY <1>1, <2>2, <3>1, OpenCalls
  <2> QED
    BY <2>3, EmptyIsOpen
<1>3. b \in Seq(CallsOf) /\ Open(b)
  BY <1>1, OneOpenCall
<1>4. f \in Seq(CallsOf) /\ Open(f)
  <2>1. /\ special("flush") \in Buffers /\ ~special("flush").last
        /\ ~special("flush").lic /\ special("flush").kind # "footer"
    BY BuffersAre, MarksOf
  <2> QED
    BY <1>1, <2>1, OneOpenCall, EmptyIsOpen
<1>5. e \in Seq(CallsOf) /\ e # <<>> /\ Closed(e)
  <2>1. /\ special("last") \in Buffers /\ special("last").last
        /\ special("last").kind # "footer"
    BY BuffersAre, MarksOf
  <2>2. <<special("last")>> \in Seq(Buffers) /\ Ending(<<special("last")>>)
    BY <2>1, OneIsEnding
  <2> QED
    BY <2>2, LastCalls
<1>6. echoCalls(args, msg) = ((a \o b) \o f) \o e
  BY DEF echoCalls
<1> HIDE DEF a, b, f, e
<1>7. a \o b \in Seq(CallsOf) /\ Open(a \o b)
  BY <1>2, <1>3, OpenConcat
<1>8. (a \o b) \o f \in Seq(CallsOf) /\ Open((a \o b) \o f)
  BY <1>4, <1>7, OpenConcat
<1> QED
  BY <1>5, <1>6, <1>8, OpenConcat

LEMMA EndingIs ==
    ASSUME NEW size, NEW last, NEW lic, NEW kind
    PROVE  ending([size |-> size, last |-> last, lic |-> lic, kind |-> kind])
             = [size |-> size, last |-> TRUE, lic |-> TRUE, kind |-> kind]
<1> DEFINE b == [size |-> size, last |-> last, lic |-> lic, kind |-> kind]
<1>1. ending(b) = [b EXCEPT !.last = TRUE, !.lic = TRUE]
  BY DEF ending
<1> QED
  BY <1>1

LEMMA ErrorPageClosed ==
    ASSUME errorPage
    PROVE  todo' \in Seq(CallsOf) /\ todo' # <<>> /\ Closed(todo') /\ page' = TRUE
<1> DEFINE b == ending(Content(PageSize))
<1>1. b = [size |-> PageSize, last |-> TRUE, lic |-> TRUE, kind |-> "content"]
  BY EndingIs DEF Content
<1>2. b \in Buffers /\ b.last /\ b.kind # "footer"
  BY <1>1, EchoAssumption DEF Buffers
<1>3. todo' = Calls(Main, <<<<b>>>>) /\ page' = TRUE
  BY DEF errorPage
<1> HIDE DEF b
<1>4. <<b>> \in Seq(Buffers) /\ Ending(<<b>>)
  BY <1>2, OneIsEnding
<1> QED
  BY <1>3, <1>4, LastCalls

\* A body of nginx's own handlers, before its end is marked.
Bare(c) ==
    \A j \in 1 .. Len(c) : ~c[j].last /\ ~c[j].lic /\ c[j].kind = "content"

LEMMA MarkedEnds ==
    ASSUME NEW c \in Seq(Buffers), c # <<>>, Bare(c)
    PROVE  /\ Marked(c) \in Seq(Buffers) /\ Ending(Marked(c))
           /\ Len(Marked(c)) = Len(c)
           /\ \A j \in 1 .. Len(c) : Marked(c)[j].size = c[j].size
<1> DEFINE n == Len(c)
<1>1. n \in Nat \ {0} /\ DOMAIN c = 1 .. n /\ c[n] \in Buffers
  <2>1. n \in Nat \ {0} /\ DOMAIN c = 1 .. n
    BY EmptySeq, LenProperties
  <2> QED
    BY <2>1, ElementOfSeq
<1>2. PICK size \in Nat, last \in BOOLEAN, lic \in BOOLEAN,
           kind \in {"content", "special", "footer"} :
        c[n] = [size |-> size, last |-> last, lic |-> lic, kind |-> kind]
  BY <1>1 DEF Buffers
<1> DEFINE x == [size |-> size, last |-> TRUE, lic |-> TRUE, kind |-> kind]
<1>3. x \in Buffers
  BY DEF Buffers
<1>4. Marked(c) = [c EXCEPT ![n] = x]
  <2>1. ending(c[n]) = x
    BY <1>2, EndingIs
  <2> QED
    BY <2>1 DEF Marked, ReplaceAt
<1> HIDE DEF x, n
<1>5. /\ [c EXCEPT ![n] = x] \in Seq(Buffers)
      /\ Len([c EXCEPT ![n] = x]) = n
      /\ \A j \in 1 .. n : [c EXCEPT ![n] = x][j] = IF j = n THEN x ELSE c[j]
  BY <1>1, <1>3, ExceptSeq DEF n
<1>6. x.last /\ x.size = c[n].size /\ x.kind = c[n].kind
  BY <1>2 DEF x
<1>7. \A j \in 1 .. n : ~c[j].last /\ ~c[j].lic /\ c[j].kind # "footer"
  BY DEF Bare, n
<1> DEFINE d == Marked(c)
<1>8. /\ d \in Seq(Buffers) /\ Len(d) = n /\ \A j \in 1 .. n : d[j] = IF j = n THEN x ELSE c[j]
  BY <1>4, <1>5
<1>9. n \in 1 .. n
  BY <1>1
<1> HIDE DEF d
<1>10. d # <<>>
  BY <1>1, <1>8, EmptySeq
<1>11. Ending(d)
  BY <1>6, <1>7, <1>8, <1>9, <1>10, Zenon DEF Ending
<1>12. \A j \in 1 .. n : d[j].size = c[j].size
  BY <1>6, <1>8
<1> QED
  BY <1>8, <1>11, <1>12 DEF d, n

LEMMA AppendEnds ==
    ASSUME NEW c \in Seq(Buffers), Bare(c)
    PROVE  LET d == Append(c, special("last"))
           IN  /\ d \in Seq(Buffers) /\ Ending(d)
               /\ Len(d) = Len(c) + 1
               /\ \A j \in 1 .. Len(c) : d[j].size = c[j].size
               /\ d[Len(c) + 1].size = 0
<1> DEFINE n == Len(c)
           x == special("last")
           d == Append(c, x)
<1>1. /\ x \in Buffers /\ x.last /\ x.kind = "special" /\ x.size = 0
      /\ n \in Nat
  BY BuffersAre, MarksOf, LenProperties
<1> HIDE DEF x
<1>2. /\ d \in Seq(Buffers) /\ Len(d) = n + 1 /\ d[n + 1] = x
      /\ \A j \in 1 .. n : d[j] = c[j]
  BY <1>1, AppendProperties
<1>3. \A j \in 1 .. n : ~c[j].last /\ ~c[j].lic /\ c[j].kind # "footer"
  BY DEF Bare
<1> HIDE DEF n
<1>4. \A j \in 1 .. (n + 1) : j \in 1 .. n \/ j = n + 1
  BY <1>1
<1>5. \A j \in 1 .. n : j # n + 1
  BY <1>1
<1> HIDE DEF d
<1>6. d # <<>>
  BY <1>1, <1>2, EmptySeq
<1>7. \A j \in 1 .. Len(d) : /\ d[j].kind # "footer"
                             /\ d[j].last <=> j = Len(d)
                             /\ d[j].lic => j = Len(d)
  BY <1>1, <1>2, <1>3, <1>4, <1>5, Zenon
<1>8. Ending(d)
  BY <1>6, <1>7 DEF Ending
<1> QED
  BY <1>1, <1>2, <1>8 DEF d, n, x

\* The pieces of a body, as buffers.
Cut(p) == [i \in DOMAIN p |-> Content(p[i])]

LEMMA PiecesAre ==
    ASSUME NEW n \in Nat, NEW p \in Pieces(n)
    PROVE  /\ n > 0
           /\ p = <<n>> \/ (p = <<1, n - 1>> /\ n > 1)
           /\ p \in Seq(Nat \ {0}) /\ p # <<>>
<1>1. p \in {<<n>>, <<1, n - 1>>} /\ \A i \in DOMAIN p : p[i] > 0
  BY DEF Pieces
<1>2. CASE p = <<n>>
  <2>1. 1 \in DOMAIN <<n>> /\ <<n>>[1] = n
    OBVIOUS
  <2>2. n > 0
    BY <1>1, <1>2, <2>1
  <2> QED
    BY <1>2, <2>2
<1>3. CASE p = <<1, n - 1>>
  <2>1. 2 \in DOMAIN <<1, n - 1>> /\ <<1, n - 1>>[2] = n - 1
    OBVIOUS
  <2>2. n - 1 > 0
    BY <1>1, <1>3, <2>1
  <2>3. n > 1 /\ n - 1 \in Nat \ {0}
    BY <2>2
  <2> QED
    BY <1>3, <2>3
<1> QED
  BY <1>1, <1>2, <1>3

LEMMA CutIsBare ==
    ASSUME NEW p \in Seq(Nat \ {0}), p # <<>>
    PROVE  /\ Cut(p) \in Seq(Buffers) /\ Cut(p) # <<>> /\ Bare(Cut(p))
           /\ Len(Cut(p)) = Len(p)
           /\ \A j \in 1 .. Len(p) : Cut(p)[j].size = p[j]
<1> DEFINE n == Len(p)
           c == [i \in 1 .. n |-> Content(p[i])]
<1>1. n \in Nat \ {0} /\ DOMAIN p = 1 .. n /\ \A i \in 1 .. n : p[i] \in Nat
  BY LenProperties, EmptySeq, ElementOfSeq
<1>2. Cut(p) = c
  BY <1>1 DEF Cut
<1>3. \A i \in 1 .. n : /\ c[i] \in Buffers /\ c[i].size = p[i] /\ c[i].kind = "content"
                        /\ ~c[i].last /\ ~c[i].lic
  BY <1>1, BuffersAre, MarksOf
<1> HIDE DEF n
<1>4. c \in Seq(Buffers) /\ Len(c) = n
  BY <1>1, <1>3
<1> HIDE DEF c
<1>5. c # <<>>
  BY <1>1, <1>4, EmptySeq
<1>6. Bare(c)
  BY <1>3, <1>4 DEF Bare
<1> QED
  BY <1>2, <1>3, <1>4, <1>5, <1>6 DEF n

LEMMA BodiedAre ==
    ASSUME NEW n \in Nat, NEW b \in Bodied(n)
    PROVE  /\ \/ \E p \in Pieces(n) : b = Marked(Cut(p)) \/ b = Append(Cut(p), special("last"))
              \/ n = 0 /\ b = <<special("last")>>
           /\ b \in Seq(Buffers) /\ Ending(b)
<1>1. \/ \E p \in Pieces(n) : b = Marked(Cut(p)) \/ b = Append(Cut(p), special("last"))
      \/ n = 0 /\ b = <<special("last")>>
  BY DEF Bodied, Cut
<1>2. ASSUME NEW p \in Pieces(n), b = Marked(Cut(p)) \/ b = Append(Cut(p), special("last"))
      PROVE  b \in Seq(Buffers) /\ Ending(b)
  <2>1. Cut(p) \in Seq(Buffers) /\ Cut(p) # <<>> /\ Bare(Cut(p))
    BY PiecesAre, CutIsBare
  <2> QED
    BY <1>2, <2>1, MarkedEnds, AppendEnds
<1>3. ASSUME b = <<special("last")>>
      PROVE  b \in Seq(Buffers) /\ Ending(b)
  <2>1. /\ special("last") \in Buffers /\ special("last").last
        /\ special("last").kind # "footer"
    BY BuffersAre, MarksOf
  <2> DEFINE c == <<special("last")>>
  <2>2. c \in Seq(Buffers) /\ Ending(c)
    BY <2>1, OneIsEnding
  <2>3. b = c
    BY <1>3
  <2> HIDE DEF c
  <2> QED
    BY <2>2, <2>3
<1> QED
  BY <1>1, <1>2, <1>3

LEMMA SplitCalls ==
    ASSUME NEW b \in Seq(Buffers), Ending(b)
    PROVE  LET t == Calls(Main, [i \in DOMAIN b |-> <<b[i]>>])
           IN  /\ t \in Seq(CallsOf) /\ t # <<>> /\ Closed(t)
               /\ Len(t) = Len(b)
               /\ \A i \in 1 .. Len(b) : t[i] = [r |-> Main, chain |-> <<b[i]>>]
<1> DEFINE n == Len(b)
           chs == [i \in 1 .. n |-> <<b[i]>>]
           t == Calls(Main, chs)
<1>1. /\ n \in Nat \ {0} /\ DOMAIN b = 1 .. n
      /\ \A i \in 1 .. n : b[i] \in Buffers /\ <<b[i]>> \in Seq(Buffers)
  BY LenProperties, EmptySeq, ElementOfSeq DEF Ending
<1>2. \A i \in 1 .. n : /\ b[i].kind # "footer"
                        /\ b[i].last <=> i = n
                        /\ b[i].lic => i = n
  BY DEF Ending
<1>3. \A i \in 1 .. n : chs[i] = <<b[i]>>
  OBVIOUS
<1> HIDE DEF n
<1>4. chs \in Seq(Seq(Buffers)) /\ Len(chs) = n
  BY <1>1
<1> HIDE DEF chs
<1>5. /\ t \in Seq(CallsOf) /\ Len(t) = n
      /\ \A i \in 1 .. n : t[i] = [r |-> Main, chain |-> <<b[i]>>]
  <2>1. Main \in {Main, Sub}
    OBVIOUS
  <2>2. /\ t \in Seq(CallsOf) /\ Len(t) = Len(chs)
        /\ \A i \in 1 .. Len(chs) : t[i] = [r |-> Main, chain |-> chs[i]]
    BY <1>4, <2>1, CallsAre
  <2> HIDE DEF t
  <2> QED
    BY <1>3, <1>4, <2>2
<1> HIDE DEF t
<1>6. ASSUME NEW i \in 1 .. n
      PROVE  IF i = n THEN LastCall(t[i]) ELSE OpenCall(t[i])
  <2>1. t[i].r = Main /\ t[i].chain = <<b[i]>>
    BY <1>5
  <2>2. CASE i = n
    BY <1>1, <1>2, <2>1, <2>2, OneIsEnding DEF LastCall
  <2>3. CASE i # n
    <3>1. ~b[i].last /\ ~b[i].lic /\ b[i].kind # "footer" /\ b[i] \in Buffers
      BY <1>1, <1>2, <2>3, Zenon
    <3>2. <<b[i]>> # <<>> /\ Plain(<<b[i]>>)
      BY <3>1, OneIsPlain
    <3>3. \A j \in 1 .. Len(<<b[i]>>) : ~<<b[i]>>[j].lic
      BY <3>1
    <3>4. Main # Sub
      BY DEF Main, Sub
    <3> QED
      BY <2>1, <2>3, <3>2, <3>3, <3>4 DEF OpenCall
  <2> QED
    BY <2>2, <2>3
<1>7. Closed(t)
  BY <1>5, <1>6 DEF Closed
<1>8. t # <<>>
  BY <1>1, <1>5, EmptySeq
<1> QED
  BY <1>1, <1>5, <1>7, <1>8 DEF t, chs, n

\* A handler starts the response.
LEMMA StartMarks ==
    ASSUME Marks, pc = "content", pc' = "send",
           todo' \in Seq(CallsOf), todo' # <<>>, Closed(todo'),
           req' \in [{Main, Sub} -> Requests], page' \in BOOLEAN,
           req'[Main].flag = 0, req'[Main].header_sent = FALSE,
           UNCHANGED <<conf, chain, wire, kinds>>
    PROVE  Marks'
<1>1. Typed /\ Unsent
  BY DEF Marks
<1>2. Typed'
  BY <1>1 DEF Typed
<1>3. Closed(todo)'
  BY DEF Closed, LastCall, OpenCall, Ending, Plain
<1>4. kinds' = <<>> /\ chain' = <<>> /\ ~wire'.ended
  BY <1>1 DEF Unsent
<1>5. Awaited'
  BY <1>3, <1>4 DEF Awaited
<1> QED
  BY <1>2, <1>4, <1>5 DEF Marks, FooterCloses

LEMMA FreshIs ==
    ASSUME Unsent
    PROVE  /\ req[Main] = FreshRequest /\ req[Sub] = FreshRequest
           /\ DOMAIN req = {Main, Sub}
           /\ FreshRequest.flag = 0 /\ FreshRequest.header_sent = FALSE
           /\ \A n \in Nat \cup {Undeclared} :
                [FreshRequest EXCEPT !.length = n]
                  = [flag |-> 0, length |-> n, header_sent |-> FALSE]
<1>1. req = [r \in {Main, Sub} |-> FreshRequest]
  BY DEF Unsent
<1>2. FreshRequest = [flag |-> 0, length |-> Undeclared, header_sent |-> FALSE]
  BY DEF FreshRequest
<1>3. ASSUME NEW n
      PROVE  [FreshRequest EXCEPT !.length = n]
                = [flag |-> 0, length |-> n, header_sent |-> FALSE]
  <2> DEFINE q == [flag |-> 0, length |-> Undeclared, header_sent |-> FALSE]
  <2>1. ASSUME NEW d, d = [q EXCEPT !.length = n]
        PROVE  d = [flag |-> 0, length |-> n, header_sent |-> FALSE]
    BY <2>1
  <2> QED
    BY <1>2, <2>1
<1> QED
  BY <1>1, <1>2, <1>3

\* The request of whose response a handler has declared the length.
LEMMA DeclaredIs ==
    ASSUME Unsent, NEW r \in {Main, Sub}, NEW n \in Nat \cup {Undeclared},
           req' = [req EXCEPT ![r].length = n]
    PROVE  /\ req' \in [{Main, Sub} -> Requests]
           /\ req'[r].length = n
           /\ \A x \in {Main, Sub} :
                /\ req'[x].flag = 0 /\ req'[x].header_sent = FALSE
                /\ x # r => req'[x] = req[x]
<1> DEFINE d == [flag |-> 0, length |-> n, header_sent |-> FALSE]
<1>1. DOMAIN req = {Main, Sub} /\ req[r] = FreshRequest
  BY FreshIs
<1>2. req' = [req EXCEPT ![r] = [FreshRequest EXCEPT !.length = n]]
  BY <1>1
<1>3. req' = [req EXCEPT ![r] = d]
  BY <1>2, FreshIs
<1>4. FreshRequest \in Requests
  BY DEF FreshRequest, Requests, Undeclared
<1>5. d \in Requests /\ d.flag = 0 /\ d.length = n /\ d.header_sent = FALSE
  BY DEF Requests
<1>6. req = [x \in {Main, Sub} |-> FreshRequest]
  BY DEF Unsent
<1> HIDE DEF d
<1>7. \A x \in {Main, Sub} : req'[x] = IF x = r THEN d ELSE FreshRequest
  BY <1>3, <1>6
<1>8. req' = [x \in {Main, Sub} |-> IF x = r THEN d ELSE FreshRequest]
  BY <1>3, <1>6
<1> QED
  BY <1>1, <1>4, <1>5, <1>6, <1>7, <1>8, FreshIs

LEMMA HandlerMarks ==
    ASSUME Marks, NEW args \in Arguments, NEW msg \in Messages, handler(args, msg)
    PROVE  Marks'
<1>1. /\ pc = "content" /\ pc' = "send" /\ UNCHANGED <<conf, chain, wire, kinds>>
      /\ echo(args, msg) \/ refuse
  BY DEF handler
<1>2. Unsent /\ page \in BOOLEAN
  BY <1>1 DEF Marks, Typed
<1>3. args \in Nat /\ msg \in Nat /\ PageSize \in Nat
  BY EchoAssumption
<1>4. CASE echo(args, msg)
  <2> DEFINE n == msg + IF args > 0 THEN args + 1 ELSE 0
  <2>1. /\ req' = [req EXCEPT ![Main].length = n]
        /\ todo' = echoCalls(args, msg) /\ page' = page
    BY <1>4 DEF echo
  <2>2. n \in Nat \cup {Undeclared}
    BY <1>3
  <2> HIDE DEF n
  <2>3. /\ req' \in [{Main, Sub} -> Requests]
        /\ req'[Main].flag = 0 /\ req'[Main].header_sent = FALSE
    BY <1>2, <2>1, <2>2, DeclaredIs
  <2> QED
    BY <1>1, <1>2, <1>3, <2>1, <2>3, EchoCallsClosed, StartMarks
<1>5. CASE refuse
  <2>1. req' = [req EXCEPT ![Main].length = PageSize] /\ errorPage
    BY <1>5 DEF refuse
  <2>2. /\ req' \in [{Main, Sub} -> Requests]
        /\ req'[Main].flag = 0 /\ req'[Main].header_sent = FALSE
    BY <1>2, <1>3, <2>1, DeclaredIs
  <2> QED
    BY <1>1, <1>2, <2>1, <2>2, ErrorPageClosed, StartMarks
<1> QED
  BY <1>1, <1>4, <1>5

LEMMA ServeMarks ==
    ASSUME Marks, NEW n \in Bodies, serve(n)
    PROVE  Marks'
<1>1. /\ pc = "content" /\ pc' = "send" /\ UNCHANGED <<conf, chain, page, wire, kinds>>
  BY DEF serve
<1>2. PICK b \in Bodied(n), len \in {n, Undeclared}, together \in BOOLEAN :
        /\ todo' = Calls(Main, IF together THEN <<b>> ELSE [i \in DOMAIN b |-> <<b[i]>>])
        /\ req' = [req EXCEPT ![Main].length = len]
  BY DEF serve
<1>3. Unsent /\ page' \in BOOLEAN
  BY <1>1 DEF Marks, Typed
<1>4. n \in Nat
  BY EchoAssumption
<1>5. b \in Seq(Buffers) /\ Ending(b)
  BY <1>4, BodiedAre
<1>6. /\ req' \in [{Main, Sub} -> Requests]
      /\ req'[Main].flag = 0 /\ req'[Main].header_sent = FALSE
  BY <1>2, <1>3, <1>4, DeclaredIs
<1>7. todo' \in Seq(CallsOf) /\ todo' # <<>> /\ Closed(todo')
  <2>1. CASE together
    BY <1>2, <1>5, <2>1, LastCalls
  <2>2. CASE ~together
    BY <1>2, <1>5, <2>2, SplitCalls
  <2> QED
    BY <2>1, <2>2
<1> QED
  BY <1>1, <1>3, <1>6, <1>7, StartMarks

LEMMA SubrequestMarks ==
    ASSUME Marks, "subrequest" \notin WithFooter, NEW n \in Bodies, subrequest(n)
    PROVE  Marks'
<1>1. /\ pc = "content" /\ pc' = "send" /\ UNCHANGED <<conf, chain, page, wire, kinds>>
      /\ ~(conf.legacy /\ conf.subfooter > 0)
      /\ req' = [req EXCEPT ![Sub].length = n]
  BY DEF subrequest
<1> DEFINE lic == [Content(n) EXCEPT !.lic = TRUE]
           chs == <<<<Content(n)>>, <<special("lic")>>>>
           a == Calls(Main, <<<<Content(n)>>>>)
           s == Calls(Sub, chs)
           t == Calls(Sub, <<<<lic>>>>)
           e == Calls(Main, <<<<special("last")>>>>)
<1>2. todo' = (a \o s) \o e \/ todo' = (a \o t) \o e
  BY DEF subrequest
<1>3. /\ n \in Nat /\ Content(n) \in Buffers
      /\ ~Content(n).last /\ ~Content(n).lic /\ Content(n).kind # "footer"
      /\ special("lic") \in Buffers /\ ~special("lic").last /\ special("lic").kind # "footer"
      /\ special("last") \in Buffers /\ special("last").last
      /\ special("last").kind # "footer"
      /\ Main \in {Main, Sub} /\ Sub \in {Main, Sub} /\ Main # Sub
  BY EchoAssumption, BuffersAre, MarksOf DEF Main, Sub
<1>4. a \in Seq(CallsOf) /\ Open(a)
  BY <1>3, OneOpenCall
<1>5. s \in Seq(CallsOf) /\ Open(s)
  <2> DEFINE c == <<Content(n)>>
             d == <<special("lic")>>
  <2>1. c \in Seq(Buffers) /\ c # <<>> /\ Plain(c) /\ d \in Seq(Buffers) /\ d # <<>> /\ Plain(d)
    BY <1>3, OneIsPlain
  <2>2. chs = <<c, d>>
    OBVIOUS
  <2> HIDE DEF c, d, chs
  <2>3. /\ chs \in Seq(Seq(Buffers)) /\ Len(chs) = 2
        /\ \A i \in 1 .. 2 : chs[i] = c \/ chs[i] = d
    BY <2>1, <2>2
  <2>4. \A i \in 1 .. Len(chs) : chs[i] # <<>> /\ Plain(chs[i])
    BY <2>1, <2>3
  <2> QED
    BY <1>1, <1>3, <2>3, <2>4, OpenCalls
<1>6. t \in Seq(CallsOf) /\ Open(t)
  <2>1. lic = [size |-> n, last |-> FALSE, lic |-> TRUE, kind |-> "content"]
    <3> DEFINE b == [size |-> n, last |-> FALSE, lic |-> FALSE, kind |-> "content"]
    <3>1. Content(n) = b
      BY DEF Content
    <3>2. ASSUME NEW d, d = [b EXCEPT !.lic = TRUE]
          PROVE  d = [size |-> n, last |-> FALSE, lic |-> TRUE, kind |-> "content"]
      BY <3>2
    <3> QED
      BY <3>1, <3>2
  <2>2. lic \in Buffers /\ ~lic.last /\ lic.kind # "footer"
    BY <1>3, <2>1 DEF Buffers
  <2> HIDE DEF lic
  <2> QED
    BY <1>1, <1>3, <2>2, OneOpenCall
<1>7. e \in Seq(CallsOf) /\ e # <<>> /\ Closed(e)
  BY <1>3, OneIsEnding, LastCalls
<1> HIDE DEF a, s, t, e
<1>8. /\ a \o s \in Seq(CallsOf) /\ Open(a \o s)
      /\ a \o t \in Seq(CallsOf) /\ Open(a \o t)
  BY <1>4, <1>5, <1>6, OpenConcat
<1>9. todo' \in Seq(CallsOf) /\ todo' # <<>> /\ Closed(todo')
  BY <1>2, <1>7, <1>8, OpenConcat
<1>10. Unsent /\ page' \in BOOLEAN
  BY <1>1 DEF Marks, Typed
<1>11. /\ req' \in [{Main, Sub} -> Requests]
       /\ req'[Main].flag = 0 /\ req'[Main].header_sent = FALSE
  BY <1>1, <1>3, <1>10, DeclaredIs
<1> QED
  BY <1>1, <1>9, <1>10, <1>11, StartMarks

-------------------------------------------------------------------------------
\* Sending.

LEMMA LinkedFilters ==
    ASSUME Linked, pc # "config"
    PROVE  Filtered("header") /\ Filtered("body")
<1>1. waiting = <<>> /\ "header" \in Kinds /\ "body" \in Kinds
  BY DEF Linked, Kinds
<1>2. ~Waits(Ndg)
  BY <1>1 DEF Waits
<1> QED
  BY <1>1, <1>2 DEF Linked, Filtered

LEMMA HeaderFilteredIs ==
    ASSUME Typed, Filtered("header"), NEW r \in {Main, Sub}
    PROVE  LET q == headerFiltered(r)
           IN  /\ q \in Requests
               /\ q.header_sent = req[r].header_sent
               /\ q.flag = IF req[r].flag = 0 THEN 1 ELSE req[r].flag
               /\ q.length = IF req[r].flag = 0 /\ footer(r) > 0 /\ req[r].length > 0
                             THEN req[r].length + footer(r) ELSE req[r].length
<1>1. req[r] \in Requests /\ footer(r) \in Nat
  BY DEF Typed, Confs, footer
<1>2. headerFiltered(r) = do_header_filter(req[r], footer(r))
  BY DEF headerFiltered
<1> DEFINE q == req[r]
           f == footer(r)
           d == do_header_filter(q, f)
<1> HIDE DEF q, f
<1>3. q \in Requests /\ f \in Nat
  BY <1>1 DEF q, f
<1>4. /\ d \in Requests
      /\ d.header_sent = q.header_sent
      /\ d.flag = IF q.flag = 0 THEN 1 ELSE q.flag
      /\ d.length = IF q.flag = 0 /\ f > 0 /\ q.length > 0
                    THEN q.length + f ELSE q.length
  BY <1>3, HeaderFilterIs
<1>5. headerFiltered(r) = d
  BY <1>2 DEF q, f
<1> HIDE DEF d
<1> QED
  BY <1>4, <1>5 DEF q, f

LEMMA PassedIs ==
    ASSUME Typed, Filtered("header"), NEW r \in {Main, Sub}, headerPasses(r)
    PROVE  LET q == headerFiltered(r)
           IN  /\ req' \in [{Main, Sub} -> Requests]
               /\ req'[r].header_sent = TRUE
               /\ req'[r].flag = q.flag /\ req'[r].length = q.length
               /\ \A x \in {Main, Sub} : x # r => req'[x] = req[x]
               /\ wire' = IF r = Main
                          THEN [declared |-> q.length, sent |-> wire.sent,
                                ended |-> wire.ended, lost |-> wire.lost]
                          ELSE wire
<1> DEFINE q == headerFiltered(r)
<1>1. q \in Requests
  BY HeaderFilteredIs
<1>2. /\ req' = [req EXCEPT ![r] = [q EXCEPT !.header_sent = TRUE]]
      /\ wire' = IF r = Main THEN [wire EXCEPT !.declared = q.length] ELSE wire
  BY DEF headerPasses
<1> HIDE DEF q
<1>3. PICK flag \in {0, 1, 2}, length \in Nat \cup {Undeclared}, hs \in BOOLEAN :
        q = [flag |-> flag, length |-> length, header_sent |-> hs]
  BY <1>1 DEF Requests
<1> DEFINE d == [flag |-> flag, length |-> length, header_sent |-> TRUE]
<1>4. d \in Requests
  BY DEF Requests
<1>5. ASSUME NEW e, e = [q EXCEPT !.header_sent = TRUE]
      PROVE  e = d
  BY <1>3, <1>5
<1>6. req' = [req EXCEPT ![r] = d]
  BY <1>2, <1>5
<1>7. req \in [{Main, Sub} -> Requests]
  BY DEF Typed
<1>8. d.header_sent = TRUE /\ d.flag = q.flag /\ d.length = q.length
  BY <1>3
<1> HIDE DEF d
<1>9. /\ req' \in [{Main, Sub} -> Requests]
      /\ req'[r] = d
      /\ \A x \in {Main, Sub} : x # r => req'[x] = req[x]
  BY <1>4, <1>6, <1>7
<1>10. wire' = IF r = Main
               THEN [declared |-> q.length, sent |-> wire.sent,
                     ended |-> wire.ended, lost |-> wire.lost]
               ELSE wire
  <2>1. PICK w1, w2, w3, w4 :
            wire = [declared |-> w1, sent |-> w2, ended |-> w3, lost |-> w4]
    BY DEF Typed
  <2>2. CASE r = Main
    BY <1>2, <2>1, <2>2
  <2>3. CASE r # Main
    BY <1>2, <2>3
  <2> QED
    BY <2>2, <2>3
<1> QED
  BY <1>8, <1>9, <1>10 DEF q

LEMMA RefusedIs ==
    ASSUME Typed, Filtered("header"), headerRefused(Main)
    PROVE  LET q == headerFiltered(Main)
           IN  /\ req' \in [{Main, Sub} -> Requests]
               /\ req'[Main].header_sent = q.header_sent
               /\ req'[Main].flag = q.flag /\ req'[Main].length = PageSize
               /\ req'[Sub] = req[Sub]
<1> DEFINE q == headerFiltered(Main)
<1>1. q \in Requests
  BY HeaderFilteredIs
<1>2. req' = [req EXCEPT ![Main] = [q EXCEPT !.length = PageSize]]
  BY DEF headerRefused
<1> HIDE DEF q
<1>3. PICK flag \in {0, 1, 2}, length \in Nat \cup {Undeclared}, hs \in BOOLEAN :
        q = [flag |-> flag, length |-> length, header_sent |-> hs]
  BY <1>1 DEF Requests
<1> DEFINE d == [flag |-> flag, length |-> PageSize, header_sent |-> hs]
<1>4. d \in Requests
  BY EchoAssumption DEF Requests
<1>5. ASSUME NEW e, e = [q EXCEPT !.length = PageSize]
      PROVE  e = d
  BY <1>3, <1>5
<1>6. req' = [req EXCEPT ![Main] = d]
  BY <1>2, <1>5
<1>7. req \in [{Main, Sub} -> Requests]
  BY DEF Typed
<1>8. d.length = PageSize /\ d.flag = q.flag /\ d.header_sent = q.header_sent
  BY <1>3
<1>9. Main # Sub
  BY DEF Main, Sub
<1> HIDE DEF d
<1>10. /\ req' \in [{Main, Sub} -> Requests]
       /\ req'[Main] = d /\ req'[Sub] = req[Sub]
  BY <1>4, <1>6, <1>7, <1>9
<1> QED
  BY <1>8, <1>10 DEF q

LEMMA LostIs ==
    ASSUME Typed, lose
    PROVE  wire' = [declared |-> wire.declared, sent |-> wire.sent,
                    ended |-> wire.ended, lost |-> TRUE]
<1>1. PICK w1, w2, w3, w4 :
          wire = [declared |-> w1, sent |-> w2, ended |-> w3, lost |-> w4]
  BY DEF Typed
<1>2. wire' = [wire EXCEPT !.lost = TRUE]
  BY DEF lose
<1> QED
  BY <1>1, <1>2

LEMMA LoseMarks ==
    ASSUME Marks, lose, UNCHANGED <<conf, req, todo, chain, page, kinds>>
    PROVE  Marks'
<1>1. Typed /\ FooterCloses
  BY DEF Marks
<1>2. wire' = [declared |-> wire.declared, sent |-> wire.sent,
               ended |-> wire.ended, lost |-> TRUE]
  BY <1>1, LostIs
<1>3. wire' \in [declared: Nat \cup {Undeclared, NoHeader}, sent: Nat,
                 ended: BOOLEAN, lost: BOOLEAN]
  BY <1>1, <1>2 DEF Typed
<1>4. wire'.ended = wire.ended
  BY <1>2
<1>5. pc' = "done"
  BY DEF lose
<1>6. Typed'
  BY <1>1, <1>3, <1>5 DEF Typed
<1>7. FooterCloses'
  BY <1>1, <1>4 DEF FooterCloses
<1> QED
  BY <1>5, <1>6, <1>7 DEF Marks

LEMMA SendMarks ==
    ASSUME Marks, Linked, send
    PROVE  Marks'
<1> DEFINE r == Head(todo).r
<1>1. /\ pc = "send" /\ todo # <<>> /\ ~req[r].header_sent
      /\ \/ headerPasses(r)
         \/ headerRefused(r)
         \/ lose /\ UNCHANGED <<req, todo, page>>
      /\ UNCHANGED <<conf, chain, kinds>>
  BY DEF send
<1>2. /\ Typed /\ Awaited /\ chain = <<>> /\ Filtered("header") /\ Main # Sub
  BY <1>1, LinkedFilters DEF Marks, Main, Sub
<1>3. r \in {Main, Sub}
  <2>1. Head(todo) \in CallsOf
    BY <1>1, <1>2, HeadTailProperties DEF Typed
  <2> QED
    BY <2>1 DEF CallsOf
<1> HIDE DEF r
<1>4. /\ ~wire.ended /\ Closed(todo)
      /\ \A i \in 1 .. Len(kinds) : kinds[i] # "footer"
      /\ IF req[Main].header_sent THEN req[Main].flag = 1 ELSE req[Main].flag \in {0, 1}
  BY <1>1, <1>2 DEF Awaited
<1>5. CASE headerPasses(r)
  <2> DEFINE q == headerFiltered(r)
  <2>1. /\ req' \in [{Main, Sub} -> Requests]
        /\ req'[r].header_sent = TRUE
        /\ req'[r].flag = q.flag
        /\ \A x \in {Main, Sub} : x # r => req'[x] = req[x]
        /\ wire' = IF r = Main
                   THEN [declared |-> q.length, sent |-> wire.sent,
                         ended |-> wire.ended, lost |-> wire.lost]
                   ELSE wire
    BY <1>2, <1>3, <1>5, PassedIs
  <2>2. /\ q \in Requests
        /\ q.flag = IF req[r].flag = 0 THEN 1 ELSE req[r].flag
    BY <1>2, <1>3, HeaderFilteredIs
  <2> HIDE DEF q
  <2>3. UNCHANGED <<pc, todo, page>>
    BY <1>5 DEF headerPasses
  <2>4. /\ wire' \in [declared: Nat \cup {Undeclared, NoHeader}, sent: Nat,
                      ended: BOOLEAN, lost: BOOLEAN]
        /\ wire'.ended = wire.ended
    <3>1. q.length \in Nat \cup {Undeclared}
      BY <2>2 DEF Requests
    <3>2. CASE r = Main
      <4>1. wire' = [declared |-> q.length, sent |-> wire.sent,
                     ended |-> wire.ended, lost |-> wire.lost]
        BY <2>1, <3>2
      <4> QED
        BY <1>2, <3>1, <4>1 DEF Typed
    <3>3. CASE r # Main
      BY <1>2, <2>1, <3>3 DEF Typed
    <3> QED
      BY <3>2, <3>3
  <2>5. Typed'
    BY <1>1, <1>2, <2>1, <2>3, <2>4 DEF Typed
  <2>6. IF req'[Main].header_sent THEN req'[Main].flag = 1 ELSE req'[Main].flag \in {0, 1}
    <3>1. CASE r = Main
      BY <1>1, <1>4, <2>1, <2>2, <3>1
    <3>2. CASE r # Main
      <4>1. req'[Main] = req[Main]
        BY <2>1, <3>2
      <4> QED
        BY <1>4, <4>1
    <3> QED
      BY <3>1, <3>2
  <2>7. Closed(todo)'
    BY <1>1, <1>4, <2>3 DEF Closed, LastCall, OpenCall, Ending, Plain
  <2>8. ~wire'.ended
    BY <1>4, <2>4, Zenon
  <2>9. Awaited'
    BY <1>1, <1>4, <2>6, <2>7, <2>8 DEF Awaited
  <2> QED
    BY <1>1, <1>2, <2>3, <2>5, <2>8, <2>9 DEF Marks, FooterCloses
<1>6. CASE headerRefused(r)
  <2> DEFINE q == headerFiltered(Main)
  <2>1. r = Main /\ headerRefused(Main) /\ errorPage /\ UNCHANGED <<pc, wire>>
    BY <1>6 DEF headerRefused
  <2>2. /\ req' \in [{Main, Sub} -> Requests]
        /\ req'[Main].header_sent = q.header_sent
        /\ req'[Main].flag = q.flag
    BY <1>2, <2>1, RefusedIs
  <2>3. /\ q.header_sent = req[Main].header_sent
        /\ q.flag = IF req[Main].flag = 0 THEN 1 ELSE req[Main].flag
    BY <1>2, HeaderFilteredIs
  <2> HIDE DEF q
  <2>4. todo' \in Seq(CallsOf) /\ todo' # <<>> /\ Closed(todo') /\ page' = TRUE
    BY <2>1, ErrorPageClosed
  <2>5. Typed'
    BY <1>1, <1>2, <2>1, <2>2, <2>4 DEF Typed
  <2>6. req'[Main].flag = 1
    BY <1>1, <1>4, <2>1, <2>2, <2>3
  <2>7. Closed(todo)'
    BY <1>1, <2>4 DEF Closed, LastCall, OpenCall, Ending, Plain
  <2>8. Awaited'
    BY <1>1, <1>4, <2>1, <2>6, <2>7 DEF Awaited
  <2> QED
    BY <1>1, <1>2, <1>4, <2>1, <2>4, <2>5, <2>8 DEF Marks, FooterCloses
<1>7. CASE lose /\ UNCHANGED <<req, todo, page>>
  BY <1>1, <1>7, LoseMarks
<1> QED
  BY <1>1, <1>5, <1>6, <1>7

LEMMA ClosedTail ==
    ASSUME NEW t \in Seq(CallsOf), t # <<>>, Closed(t)
    PROVE  /\ Head(t) = t[1] /\ t[1] \in CallsOf
           /\ Tail(t) \in Seq(CallsOf) /\ Closed(Tail(t))
           /\ Tail(t) = <<>> => LastCall(t[1])
           /\ Tail(t) # <<>> => OpenCall(t[1])
<1> DEFINE n == Len(t)
           u == Tail(t)
<1>1. /\ n \in Nat \ {0} /\ Head(t) = t[1] /\ t[1] \in CallsOf
      /\ u \in Seq(CallsOf) /\ Len(u) = n - 1
      /\ \A i \in 1 .. (n - 1) : u[i] = t[i + 1]
  <2>1. n \in Nat \ {0} /\ 1 \in 1 .. n
    BY EmptySeq
  <2>2. t[1] \in CallsOf
    BY <2>1, ElementOfSeq
  <2> QED
    BY <2>1, <2>2, HeadTailProperties
<1>2. \A i \in 1 .. n : IF i = n THEN LastCall(t[i]) ELSE OpenCall(t[i])
  BY DEF Closed
<1>3. (u = <<>>) <=> n = 1
  <2> HIDE DEF n, u
  <2>1. u = <<>> => Len(u) = 0
    BY EmptySeq
  <2>2. u # <<>> => Len(u) \in Nat \ {0}
    BY <1>1, EmptySeq
  <2> QED
    BY <1>1, <2>1, <2>2
<1> HIDE DEF n, u
<1>4. 1 \in 1 .. n
  BY <1>1
<1>5. ASSUME NEW i \in 1 .. Len(u)
      PROVE  IF i = Len(u) THEN LastCall(u[i]) ELSE OpenCall(u[i])
  <2>1. i + 1 \in 1 .. n /\ u[i] = t[i + 1] /\ (i = Len(u) <=> i + 1 = n)
    BY <1>1
  <2> QED
    BY <1>2, <2>1, Zenon
<1>6. Closed(u)
  BY <1>5 DEF Closed
<1>7. u = <<>> => LastCall(t[1])
  BY <1>2, <1>3, <1>4, Zenon
<1>8. u # <<>> => OpenCall(t[1])
  BY <1>2, <1>3, <1>4, Zenon
<1> QED
  BY <1>1, <1>6, <1>7, <1>8 DEF u

\* The filter lets a chain pass with which the body does not end.
LEMMA OpenPasses ==
    ASSUME Typed, NEW x \in CallsOf, OpenCall(x)
    PROVE  /\ bodyChain(req[x.r], footer(x.r), x.chain, conf.legacy) = x.chain
           /\ bodyFlag(req[x.r], footer(x.r), x.chain, conf.legacy) = req[x.r].flag
<1> DEFINE c == x.chain
           f == footer(x.r)
<1>1. /\ c \in Seq(Buffers) /\ x.r \in {Main, Sub} /\ conf.legacy \in BOOLEAN
      /\ conf.subfooter \in Nat /\ Main # Sub
  BY DEF CallsOf, Typed, Confs, Main, Sub
<1>2. /\ \A j \in 1 .. Len(c) : ~c[j].last
      /\ x.r = Main => \A j \in 1 .. Len(c) : ~c[j].lic
      /\ x.r = Sub => ~(conf.legacy /\ conf.subfooter > 0)
  BY DEF OpenCall, Plain
<1>3. f = 0 \/ \A j \in 1 .. Len(c) : ~Ends(c[j], conf.legacy)
  <2>1. CASE x.r = Main
    BY <1>2, <2>1, Zenon DEF Ends
  <2>2. CASE x.r = Sub /\ ~conf.legacy
    BY <1>2, <2>2, Zenon DEF Ends
  <2>3. CASE x.r = Sub /\ conf.legacy
    <3>1. f = conf.subfooter
      BY <1>1, <2>3 DEF footer
    <3>2. ~(conf.subfooter > 0)
      BY <1>2, <2>3, Zenon
    <3> HIDE DEF f
    <3> QED
      BY <1>1, <3>1, <3>2
  <2> QED
    BY <1>1, <2>1, <2>2, <2>3
<1> HIDE DEF c, f
<1>4. /\ bodyChain(req[x.r], f, c, conf.legacy) = c
      /\ bodyFlag(req[x.r], f, c, conf.legacy) = req[x.r].flag
  BY <1>1, <1>3, BodyPasses
<1> QED
  BY <1>4 DEF c, f

\* What a call leaves: the chain as it is, or the last one, with its footer.
LEMMA OutputIs ==
    ASSUME Marks, Linked, output
    PROVE  LET x == todo[1]
           IN  /\ todo # <<>> /\ x \in CallsOf /\ todo' = Tail(todo) /\ pc' = "write"
               /\ req[x.r].header_sent
               /\ req' \in [{Main, Sub} -> Requests]
               /\ \A y \in {Main, Sub} : /\ req'[y].header_sent = req[y].header_sent
                                         /\ req'[y].length = req[y].length
               /\ Tail(todo) = <<>> =>
                    /\ x.r = Main /\ Ending(x.chain) /\ req[Main].flag = 1
                    /\ chain' = bodyChain(req[Main], conf.footer, x.chain, conf.legacy)
               /\ Tail(todo) # <<>> =>
                    /\ OpenCall(x) /\ chain' = x.chain
                    /\ \A y \in {Main, Sub} : req'[y].flag = req[y].flag
<1> DEFINE x == todo[1]
<1>1. Typed /\ Awaited /\ Filtered("body") /\ pc = "send"
  <2>1. pc = "send"
    BY DEF output
  <2> QED
    BY <2>1, LinkedFilters DEF Marks
<1>2. todo # <<>> /\ todo \in Seq(CallsOf) /\ Closed(todo)
  BY <1>1 DEF output, Typed, Awaited
<1>3. /\ Head(todo) = x /\ x \in CallsOf
      /\ Tail(todo) = <<>> => LastCall(x)
      /\ Tail(todo) # <<>> => OpenCall(x)
  BY <1>2, ClosedTail
<1> DEFINE g == bodyFlag(req[x.r], footer(x.r), x.chain, conf.legacy)
<1>4. /\ req[x.r].header_sent /\ todo' = Tail(todo) /\ pc' = "write"
      /\ chain' = bodyChain(req[x.r], footer(x.r), x.chain, conf.legacy)
      /\ req' = [req EXCEPT ![x.r].flag = g]
  BY <1>1, <1>3 DEF output
<1>5. x.r \in {Main, Sub} /\ req \in [{Main, Sub} -> Requests] /\ req[x.r] \in Requests
  BY <1>1, <1>3 DEF CallsOf, Typed
<1>6. g \in {0, 1, 2}
  BY <1>5 DEF bodyFlag, Requests
<1> HIDE DEF g
<1>7. PICK flag \in {0, 1, 2}, length \in Nat \cup {Undeclared}, hs \in BOOLEAN :
        req[x.r] = [flag |-> flag, length |-> length, header_sent |-> hs]
  BY <1>5 DEF Requests
<1> DEFINE d == [flag |-> g, length |-> length, header_sent |-> hs]
<1>8. d \in Requests
  BY <1>6 DEF Requests
<1>9. ASSUME NEW e, e = [req[x.r] EXCEPT !.flag = g]
      PROVE  e = d
  BY <1>7, <1>9
<1>10. req' = [req EXCEPT ![x.r] = [req[x.r] EXCEPT !.flag = g]]
  BY <1>4
<1>11. req' = [req EXCEPT ![x.r] = d]
  BY <1>9, <1>10
<1>12. d.flag = g /\ d.length = req[x.r].length /\ d.header_sent = req[x.r].header_sent
  BY <1>7
<1> HIDE DEF d
<1>13. /\ req' \in [{Main, Sub} -> Requests]
       /\ req'[x.r] = d
       /\ \A y \in {Main, Sub} : y # x.r => req'[y] = req[y]
  BY <1>5, <1>8, <1>11
<1>14. ASSUME NEW y \in {Main, Sub}
       PROVE  /\ req'[y].header_sent = req[y].header_sent
              /\ req'[y].length = req[y].length
              /\ g = req[x.r].flag => req'[y].flag = req[y].flag
  <2>1. CASE y = x.r
    BY <1>12, <1>13, <2>1
  <2>2. CASE y # x.r
    BY <1>13, <2>2
  <2> QED
    BY <2>1, <2>2
<1>15. ASSUME Tail(todo) # <<>>
       PROVE  OpenCall(x) /\ chain' = x.chain /\ \A y \in {Main, Sub} : req'[y].flag = req[y].flag
  <2>1. OpenCall(x)
    BY <1>3, <1>15
  <2>2. chain' = x.chain /\ g = req[x.r].flag
    BY <1>1, <1>3, <1>4, <2>1, OpenPasses DEF g
  <2> QED
    BY <1>14, <2>1, <2>2
<1>16. ASSUME Tail(todo) = <<>>
       PROVE  /\ x.r = Main /\ Ending(x.chain) /\ req[Main].flag = 1
              /\ chain' = bodyChain(req[Main], conf.footer, x.chain, conf.legacy)
  <2>1. x.r = Main /\ Ending(x.chain)
    BY <1>3, <1>16 DEF LastCall
  <2>2. footer(x.r) = conf.footer
    BY <2>1 DEF footer
  <2>3. req[Main].flag = 1
    BY <1>1, <1>2, <1>4, <2>1 DEF Awaited
  <2> QED
    BY <1>4, <2>1, <2>2, <2>3
<1> HIDE DEF x
<1>17. /\ todo # <<>> /\ x \in CallsOf /\ todo' = Tail(todo) /\ pc' = "write"
       /\ req[x.r].header_sent
       /\ req' \in [{Main, Sub} -> Requests]
  BY <1>2, <1>3, <1>4, <1>13
<1> QED
  BY <1>14, <1>15, <1>16, <1>17 DEF x

LEMMA OutputMarks ==
    ASSUME Marks, Linked, output
    PROVE  Marks'
<1> DEFINE x == todo[1]
           u == Tail(todo)
<1>1. /\ todo # <<>> /\ x \in CallsOf /\ todo' = u /\ pc' = "write"
      /\ req' \in [{Main, Sub} -> Requests]
      /\ \A y \in {Main, Sub} : req'[y].header_sent = req[y].header_sent
      /\ u = <<>> =>
           /\ Ending(x.chain) /\ req[Main].flag = 1
           /\ chain' = bodyChain(req[Main], conf.footer, x.chain, conf.legacy)
      /\ u # <<>> =>
           /\ OpenCall(x) /\ chain' = x.chain
           /\ \A y \in {Main, Sub} : req'[y].flag = req[y].flag
  BY OutputIs
<1>2. /\ pc = "send" /\ Typed /\ Awaited /\ UNCHANGED <<conf, page, wire, kinds>>
  <2>1. pc = "send" /\ UNCHANGED <<conf, page, wire, kinds>>
    BY DEF output
  <2> QED
    BY <2>1 DEF Marks
<1>3. todo \in Seq(CallsOf) /\ Closed(todo)
  BY <1>2 DEF Typed, Awaited
<1>4. u \in Seq(CallsOf) /\ Closed(u)
  BY <1>1, <1>3, ClosedTail
<1> HIDE DEF x, u
<1>5. x.chain \in Seq(Buffers) /\ conf \in Confs
  BY <1>1, <1>2 DEF CallsOf, Typed
<1>6. CASE u = <<>>
  <2>1. chain' \in Seq(Buffers) /\ Ended(chain')
    BY <1>1, <1>5, <1>6, BodyEnded
  <2>2. chain' # <<>> /\ Ended(chain)'
    BY <1>2, <2>1 DEF Ended
  <2>3. Closed(todo)'
    BY <1>1, <1>2, <1>4 DEF Closed, LastCall, OpenCall, Ending, Plain
  <2>4. Typed'
    BY <1>1, <1>2, <1>4, <2>1 DEF Typed
  <2>5. Awaited'
    BY <1>1, <1>2, <1>6, <2>3 DEF Awaited
  <2>6. FooterCloses'
    BY <1>2 DEF Awaited, FooterCloses
  <2> QED
    BY <1>1, <1>6, <2>2, <2>4, <2>5, <2>6 DEF Marks
<1>7. CASE u # <<>>
  <2>1. chain' = x.chain /\ chain' # <<>> /\ Plain(chain')
    BY <1>1, <1>7 DEF OpenCall
  <2>2. Plain(chain)'
    BY <2>1 DEF Plain
  <2>3. Closed(todo)'
    BY <1>1, <1>2, <1>4 DEF Closed, LastCall, OpenCall, Ending, Plain
  <2>4. Typed'
    BY <1>1, <1>2, <1>4, <1>5, <2>1 DEF Typed
  <2>5. /\ Main \in {Main, Sub}
        /\ IF req[Main].header_sent THEN req[Main].flag = 1 ELSE req[Main].flag \in {0, 1}
    BY <1>1, <1>2 DEF Awaited
  <2>6. IF req'[Main].header_sent THEN req'[Main].flag = 1 ELSE req'[Main].flag \in {0, 1}
    BY <1>1, <1>7, <2>5
  <2>7. Awaited'
    BY <1>2, <2>3, <2>6 DEF Awaited
  <2>8. FooterCloses'
    BY <1>2 DEF Awaited, FooterCloses
  <2> QED
    BY <1>1, <1>7, <2>1, <2>2, <2>4, <2>7, <2>8 DEF Marks
<1> QED
  BY <1>6, <1>7

\* What the writer leaves of a chain.
LEMMA TailIs ==
    ASSUME NEW c \in Seq(Buffers), c # <<>>
    PROVE  /\ Head(c) = c[1] /\ c[1] \in Buffers
           /\ Tail(c) \in Seq(Buffers)
           /\ Plain(c) => Plain(Tail(c)) /\ ~c[1].last /\ c[1].kind # "footer"
           /\ Ended(c) /\ Tail(c) # <<>> =>
                Ended(Tail(c)) /\ ~c[1].last /\ c[1].kind # "footer"
           /\ Ended(c) /\ Tail(c) = <<>> =>
                /\ c[1].last
                /\ c[1].kind = "footer" <=> conf.footer > 0
                /\ c[1].kind = "footer" => c[1].size > 0
<1> DEFINE n == Len(c)
           u == Tail(c)
<1>1. /\ n \in Nat \ {0} /\ Head(c) = c[1] /\ c[1] \in Buffers
      /\ u \in Seq(Buffers) /\ Len(u) = n - 1
      /\ \A i \in 1 .. (n - 1) : u[i] = c[i + 1]
  <2>1. n \in Nat \ {0} /\ 1 \in 1 .. n
    BY EmptySeq
  <2>2. c[1] \in Buffers
    BY <2>1, ElementOfSeq
  <2> QED
    BY <2>1, <2>2, HeadTailProperties
<1>2. (u = <<>>) <=> n = 1
  <2> HIDE DEF n, u
  <2>1. u = <<>> => Len(u) = 0
    BY EmptySeq
  <2>2. u # <<>> => Len(u) \in Nat \ {0}
    BY <1>1, EmptySeq
  <2> QED
    BY <1>1, <2>1, <2>2
<1>3. Plain(c) => \A j \in 1 .. n : ~c[j].last /\ c[j].kind # "footer"
  BY DEF Plain
<1>4. Ended(c) => \A j \in 1 .. n :
            /\ c[j].last <=> j = n
            /\ c[j].kind = "footer" <=> (j = n /\ conf.footer > 0)
            /\ c[j].kind = "footer" => c[j].size > 0
  BY DEF Ended
<1> HIDE DEF n, u
<1>5. 1 \in 1 .. n
  BY <1>1
<1>6. \A i \in 1 .. Len(u) : i + 1 \in 1 .. n /\ u[i] = c[i + 1] /\ (i = Len(u) <=> i + 1 = n)
  BY <1>1
<1>7. Plain(c) => Plain(u) /\ ~c[1].last /\ c[1].kind # "footer"
  BY <1>3, <1>5, <1>6, Zenon DEF Plain
<1>8. ASSUME Ended(c), u # <<>>
      PROVE  Ended(u) /\ ~c[1].last /\ c[1].kind # "footer"
  <2>1. 1 # n
    BY <1>2, <1>8
  <2>2. ASSUME NEW i \in 1 .. Len(u)
        PROVE  /\ u[i].last <=> i = Len(u)
               /\ u[i].kind = "footer" <=> (i = Len(u) /\ conf.footer > 0)
               /\ u[i].kind = "footer" => u[i].size > 0
    BY <1>4, <1>6, <1>8, Zenon
  <2>3. Ended(u)
    BY <1>8, <2>2 DEF Ended
  <2> QED
    BY <1>4, <1>5, <1>8, <2>1, <2>3, Zenon
<1>9. ASSUME Ended(c), u = <<>>
      PROVE  /\ c[1].last
             /\ c[1].kind = "footer" <=> conf.footer > 0
             /\ c[1].kind = "footer" => c[1].size > 0
  <2>1. 1 = n
    BY <1>2, <1>9
  <2> QED
    BY <1>4, <1>5, <1>9, <2>1, Zenon
<1> QED
  BY <1>1, <1>7, <1>8, <1>9 DEF u

\* What a buffer leaves on the wire.
LEMMA WrittenIs ==
    ASSUME Typed, NEW b \in Buffers,
           wire' = [wire EXCEPT !.sent = @ + b.size, !.ended = @ \/ b.last]
    PROVE  /\ wire' = [declared |-> wire.declared, sent |-> wire.sent + b.size,
                       ended |-> wire.ended \/ b.last, lost |-> wire.lost]
           /\ wire' \in [declared: Nat \cup {Undeclared, NoHeader}, sent: Nat,
                         ended: BOOLEAN, lost: BOOLEAN]
<1>1. PICK w1 \in Nat \cup {Undeclared, NoHeader}, w2 \in Nat, w3 \in BOOLEAN, w4 \in BOOLEAN :
          wire = [declared |-> w1, sent |-> w2, ended |-> w3, lost |-> w4]
  BY DEF Typed
<1>2. b.size \in Nat /\ b.last \in BOOLEAN
  BY DEF Buffers
<1>3. wire' = [declared |-> wire.declared, sent |-> wire.sent + b.size,
               ended |-> wire.ended \/ b.last, lost |-> wire.lost]
  BY <1>1
<1>4. wire.declared = w1 /\ wire.sent = w2 /\ wire.ended = w3 /\ wire.lost = w4
  BY <1>1
<1>5. w2 + b.size \in Nat /\ (w3 \/ b.last) \in BOOLEAN
  BY <1>2
<1> QED
  BY <1>3, <1>4, <1>5

\* The writer puts a buffer on the wire.
WritesHead ==
    LET b == chain[1]
    IN  /\ pc = "write" /\ chain # <<>> /\ b \in Buffers
        /\ b.size > 0 \/ b.kind = "special"
        /\ wire' = [declared |-> wire.declared, sent |-> wire.sent + b.size,
                    ended |-> wire.ended \/ b.last, lost |-> wire.lost]
        /\ wire' \in [declared: Nat \cup {Undeclared, NoHeader}, sent: Nat,
                      ended: BOOLEAN, lost: BOOLEAN]
        /\ kinds' = IF b.size > 0 THEN Append(kinds, b.kind) ELSE kinds
        /\ chain' = Tail(chain)
        /\ pc' = IF chain' # <<>> THEN pc
                 ELSE IF todo = <<>> THEN "done" ELSE "send"
        /\ UNCHANGED <<conf, req, todo, page>>

LEMMA WriteIs ==
    ASSUME Marks, write
    PROVE  (lose /\ UNCHANGED <<conf, req, todo, chain, page, kinds>>) \/ WritesHead
<1>1. Typed /\ chain # <<>> /\ chain \in Seq(Buffers) /\ pc = "write"
  BY DEF Marks, Typed, write
<1>2. Head(chain) = chain[1] /\ chain[1] \in Buffers
  BY <1>1, TailIs
<1> DEFINE b == chain[1]
<1> SUFFICES ASSUME ~(lose /\ UNCHANGED <<conf, req, todo, chain, page, kinds>>)
             PROVE  WritesHead
  OBVIOUS
<1>3. /\ b.size > 0 \/ b.kind = "special"
      /\ wire' = [wire EXCEPT !.sent = @ + b.size, !.ended = @ \/ b.last]
      /\ kinds' = IF b.size > 0 THEN Append(kinds, b.kind) ELSE kinds
      /\ chain' = Tail(chain)
      /\ pc' = IF chain' # <<>> THEN pc
               ELSE IF todo = <<>> THEN "done" ELSE "send"
      /\ UNCHANGED <<conf, req, todo, page>>
  BY <1>2, Zenon DEF write
<1> HIDE DEF b
<1>4. /\ wire' = [declared |-> wire.declared, sent |-> wire.sent + b.size,
                  ended |-> wire.ended \/ b.last, lost |-> wire.lost]
      /\ wire' \in [declared: Nat \cup {Undeclared, NoHeader}, sent: Nat,
                    ended: BOOLEAN, lost: BOOLEAN]
  BY <1>1, <1>2, <1>3, WrittenIs DEF b
<1> QED
  BY <1>1, <1>2, <1>3, <1>4 DEF b, WritesHead

LEMMA WriteMarks ==
    ASSUME Marks, write
    PROVE  Marks'
<1>1. CASE lose /\ UNCHANGED <<conf, req, todo, chain, page, kinds>>
  BY <1>1, LoseMarks
<1>2. CASE WritesHead
  <2> DEFINE b == chain[1]
  <2>1. /\ pc = "write" /\ chain # <<>> /\ b \in Buffers
        /\ wire' = [declared |-> wire.declared, sent |-> wire.sent + b.size,
                    ended |-> wire.ended \/ b.last, lost |-> wire.lost]
        /\ wire' \in [declared: Nat \cup {Undeclared, NoHeader}, sent: Nat,
                      ended: BOOLEAN, lost: BOOLEAN]
        /\ kinds' = IF b.size > 0 THEN Append(kinds, b.kind) ELSE kinds
        /\ chain' = Tail(chain)
        /\ pc' = IF chain' # <<>> THEN pc
                 ELSE IF todo = <<>> THEN "done" ELSE "send"
        /\ UNCHANGED <<conf, req, todo, page>>
    BY <1>2 DEF WritesHead
  <2>2. /\ Typed /\ ~wire.ended /\ \A i \in 1 .. Len(kinds) : kinds[i] # "footer"
        /\ Awaited /\ IF todo = <<>> THEN Ended(chain) ELSE Plain(chain)
    BY <2>1 DEF Marks, Awaited
  <2>3. chain \in Seq(Buffers) /\ kinds \in Seq({"content", "special", "footer"})
    BY <2>2 DEF Typed
  <2> DEFINE u == Tail(chain)
  <2>4. /\ u \in Seq(Buffers)
        /\ Plain(chain) => Plain(u) /\ ~b.last /\ b.kind # "footer"
        /\ Ended(chain) /\ u # <<>> => Ended(u) /\ ~b.last /\ b.kind # "footer"
        /\ Ended(chain) /\ u = <<>> =>
                /\ b.last
                /\ b.kind = "footer" <=> conf.footer > 0
                /\ b.kind = "footer" => b.size > 0
    BY <2>1, <2>3, TailIs
  <2> HIDE DEF b, u
  <2>5. b.kind \in {"content", "special", "footer"} /\ b.size \in Nat /\ b.last \in BOOLEAN
    BY <2>1 DEF Buffers
  <2>6. /\ kinds' \in Seq({"content", "special", "footer"})
        /\ kinds' = kinds
           \/ /\ b.size > 0 /\ Len(kinds') = Len(kinds) + 1
              /\ kinds'[Len(kinds) + 1] = b.kind
              /\ \A i \in 1 .. Len(kinds) : kinds'[i] = kinds[i]
    <3>1. CASE b.size > 0
      <4>1. kinds' = Append(kinds, b.kind)
        BY <2>1, <3>1
      <4> QED
        BY <2>3, <2>5, <3>1, <4>1, AppendProperties
    <3>2. CASE ~(b.size > 0)
      BY <2>1, <2>3, <3>2
    <3> QED
      BY <3>1, <3>2
  <2>7. Typed'
    BY <2>1, <2>2, <2>4, <2>6 DEF Typed, u
  <2>8. ASSUME ~b.last, b.kind # "footer", pc' \in {"send", "write"}
        PROVE  Awaited'
    <3>1. ~wire'.ended
      BY <2>1, <2>2, <2>8
    <3>2. \A i \in 1 .. Len(kinds') : kinds'[i] # "footer"
      <4>1. Len(kinds) \in Nat
        BY <2>3, LenProperties
      <4> QED
        BY <2>2, <2>6, <2>8, <4>1
    <3>3. Closed(todo)'
      BY <2>1, <2>2 DEF Awaited, Closed, LastCall, OpenCall, Ending, Plain
    <3> QED
      BY <2>1, <2>2, <3>1, <3>2, <3>3 DEF Awaited
  <2>9. CASE todo # <<>>
    <3>1. Plain(u) /\ ~b.last /\ b.kind # "footer"
      BY <2>2, <2>4, <2>9
    <3>2. Plain(chain)'
      BY <2>1, <3>1 DEF Plain, u
    <3>3. pc' = IF chain' # <<>> THEN "write" ELSE "send"
      BY <2>1, <2>9
    <3>4. Awaited'
      BY <2>8, <3>1, <3>3
    <3>5. FooterCloses'
      BY <3>4 DEF Awaited, FooterCloses
    <3> QED
      BY <2>1, <2>7, <2>9, <3>2, <3>3, <3>4, <3>5 DEF Marks
  <2>10. CASE todo = <<>> /\ u # <<>>
    <3>1. Ended(u) /\ ~b.last /\ b.kind # "footer"
      BY <2>2, <2>4, <2>10
    <3>2. Ended(chain)'
      BY <2>1, <3>1 DEF Ended, u
    <3>3. pc' = "write" /\ chain' # <<>>
      BY <2>1, <2>10 DEF u
    <3>4. Awaited'
      BY <2>8, <3>1, <3>3
    <3>5. FooterCloses'
      BY <3>4 DEF Awaited, FooterCloses
    <3> QED
      BY <2>1, <2>7, <2>10, <3>2, <3>3, <3>4, <3>5 DEF Marks
  <2>11. CASE todo = <<>> /\ u = <<>>
    <3>1. /\ b.last
          /\ b.kind = "footer" <=> conf.footer > 0
          /\ b.kind = "footer" => b.size > 0
      BY <2>2, <2>4, <2>11
    <3>2. pc' = "done"
      BY <2>1, <2>11 DEF u
    <3>3. {i \in 1 .. Len(kinds') : kinds'[i] = "footer"}
            = IF conf.footer > 0 THEN {Len(kinds')} ELSE {}
      <4>1. Len(kinds) \in Nat /\ conf.footer \in Nat
        BY <2>2, <2>3, LenProperties DEF Typed, Confs
      <4>2. CASE conf.footer > 0
        <5>1. b.kind = "footer" /\ b.size > 0
          BY <3>1, <4>2
        <5>2. kinds' = Append(kinds, "footer")
          BY <2>1, <5>1
        <5>3. /\ Len(kinds') = Len(kinds) + 1
              /\ kinds'[Len(kinds) + 1] = "footer"
              /\ \A i \in 1 .. Len(kinds) : kinds'[i] = kinds[i]
          BY <2>3, <5>2, AppendProperties
        <5> QED
          BY <2>2, <4>1, <4>2, <5>3
      <4>3. CASE ~(conf.footer > 0)
        <5>1. b.kind # "footer"
          BY <3>1, <4>3
        <5>2. \A i \in 1 .. Len(kinds') : kinds'[i] # "footer"
          BY <2>2, <2>6, <4>1, <5>1
        <5> QED
          BY <4>3, <5>2
      <4> QED
        BY <4>2, <4>3
    <3>4. DOMAIN kinds' = 1 .. Len(kinds') /\ conf' = conf
      BY <2>1, <2>6, LenProperties
    <3>5. FooterCloses'
      BY <3>3, <3>4 DEF FooterCloses
    <3> QED
      BY <2>7, <3>2, <3>5 DEF Marks
  <2> QED
    BY <2>9, <2>10, <2>11
<1> QED
  BY <1>1, <1>2, WriteIs

-------------------------------------------------------------------------------

LEMMA RegisterMarks ==
    ASSUME Marks, NEW ks \in SUBSET Kinds, register(ks)
    PROVE  Marks'
<1>1. /\ pc = "config" /\ pc' \in {"config", "content"}
      /\ UNCHANGED <<conf, req, todo, chain, page, wire, kinds>>
  BY DEF register
<1>2. Typed /\ Unsent /\ FooterCloses
  BY <1>1 DEF Marks
<1>3. Typed'
  BY <1>1, <1>2 DEF Typed
<1>4. Unsent'
  BY <1>1, <1>2 DEF Unsent
<1>5. FooterCloses'
  BY <1>1, <1>2 DEF FooterCloses
<1> QED
  BY <1>1, <1>3, <1>4, <1>5 DEF Marks

LEMMA StutterMarks == ASSUME Marks, UNCHANGED vars PROVE Marks'
<1>1. UNCHANGED <<conf, req, pc, todo, chain, page, wire, kinds>>
  BY DEF vars
<1>2. Typed'
  BY <1>1 DEF Marks, Typed
<1>3. Unsent => Unsent'
  BY <1>1 DEF Unsent
<1>4. Awaited => Awaited'
  BY <1>1 DEF Awaited, Closed, LastCall, OpenCall, Ending, Plain
<1>5. (Plain(chain) => Plain(chain)') /\ (Ended(chain) => Ended(chain)')
  BY <1>1 DEF Plain, Ended
<1>6. FooterCloses'
  BY <1>1 DEF Marks, FooterCloses
<1> QED
  BY <1>1, <1>2, <1>3, <1>4, <1>5, <1>6 DEF Marks

LEMMA MarksKept ==
    ASSUME "subrequest" \notin WithFooter
    PROVE  Marks /\ Linked /\ [Next]_vars => Marks'
<1> SUFFICES ASSUME Marks, Linked, [Next]_vars
             PROVE  Marks'
  OBVIOUS
<1> QED
  BY RegisterMarks, HandlerMarks, ServeMarks, SubrequestMarks, SendMarks, OutputMarks,
     WriteMarks, StutterMarks DEF Next

LEMMA InitMarks == Init => Marks
<1> SUFFICES ASSUME Init PROVE Marks
  OBVIOUS
<1>1. FreshRequest \in Requests
  BY DEF FreshRequest, Requests, Undeclared
<1>2. conf \in Confs
  BY EchoAssumption DEF Init, Confs
<1>3. wire \in [declared: Nat \cup {Undeclared, NoHeader}, sent: Nat,
                ended: BOOLEAN, lost: BOOLEAN] /\ ~wire.ended
  <2>1. wire = [declared |-> NoHeader, sent |-> 0, ended |-> FALSE, lost |-> FALSE]
    BY DEF Init
  <2>2. 0 \in Nat /\ NoHeader \in Nat \cup {Undeclared, NoHeader} /\ FALSE \in BOOLEAN
    OBVIOUS
  <2>3. ~wire.ended
    BY <2>1
  <2>4. wire \in [declared: Nat \cup {Undeclared, NoHeader}, sent: Nat,
                  ended: BOOLEAN, lost: BOOLEAN]
    <3> DEFINE w == [declared |-> NoHeader, sent |-> 0, ended |-> FALSE, lost |-> FALSE]
    <3>1. w \in [declared: Nat \cup {Undeclared, NoHeader}, sent: Nat,
                 ended: BOOLEAN, lost: BOOLEAN]
      BY <2>2
    <3>2. wire = w
      BY <2>1
    <3> HIDE DEF w
    <3> QED
      BY <3>1, <3>2
  <2> QED
    BY <2>3, <2>4
<1>4. Typed
  <2>1. /\ req \in [{Main, Sub} -> Requests] /\ pc = "config" /\ page = FALSE
        /\ todo = <<>> /\ chain = <<>> /\ kinds = <<>>
    BY <1>1 DEF Init
  <2> QED
    BY <1>2, <1>3, <2>1, EmptySeq DEF Typed
<1>5. Unsent
  BY <1>3 DEF Init, Unsent
<1> QED
  BY <1>3, <1>4, <1>5 DEF Init, Marks, FooterCloses

\* Whatever lengths, filters and bodies, a response that has ended has its footer once,
\* as the last of its bytes, or none if none is configured (do_body_filter of
\* NdgFilterHandler.hpp, and NdgFooterHandler.hpp of legacy).  A subrequest of a
\* location with a footer, under legacy/footer, is kept out: there the footer of the
\* subrequest ends the parent's response too.
THEOREM EchoFooterCloses ==
    ASSUME "subrequest" \notin WithFooter
    PROVE  Spec => []FooterCloses
<1>1. Init => Marks /\ Linked
  BY InitMarks, InitLinked
<1>2. (Marks /\ Linked) /\ [Next]_vars => (Marks /\ Linked)'
  BY MarksKept, LinkedKept
<1>3. Marks => FooterCloses
  BY DEF Marks
<1> QED
  BY <1>1, <1>2, <1>3, PTL DEF Spec

-------------------------------------------------------------------------------
\* The lengths.

\* n is the sum of w: some function holds what remains of it from each place on.
Adds(w, n) ==
    \E p \in [1 .. Len(w) + 1 -> Nat] :
        /\ p[1] = n
        /\ p[Len(w) + 1] = 0
        /\ \A i \in 1 .. Len(w) : p[i] = w[i] + p[i + 1]

Sizes(c) == [i \in 1 .. Len(c) |-> c[i].size]

\* The bytes in a chain, and in the chains of calls.
Weighs(c, n) == Adds(Sizes(c), n)

Amounts(t, n) ==
    \E w \in Seq(Nat) :
        /\ Len(w) = Len(t)
        /\ Adds(w, n)
        /\ \A i \in 1 .. Len(t) : Weighs(t[i].chain, w[i])

LEMMA AddsEmpty ==
    /\ Adds(<<>>, 0)
    /\ \A n : Adds(<<>>, n) => n = 0
<1>1. Len(<<>>) = 0
  OBVIOUS
<1>2. Adds(<<>>, 0)
  <2> DEFINE p == [i \in 1 .. 1 |-> 0]
  <2>1. p \in [1 .. 0 + 1 -> Nat] /\ p[1] = 0 /\ p[0 + 1] = 0
    OBVIOUS
  <2> HIDE DEF p
  <2>2. \A i \in 1 .. 0 : p[i] = <<>>[i] + p[i + 1]
    OBVIOUS
  <2> QED
    BY <1>1, <2>1, <2>2 DEF Adds
<1>3. ASSUME NEW n, Adds(<<>>, n)
      PROVE  n = 0
  <2>1. PICK p : p[1] = n /\ p[0 + 1] = 0
    BY <1>1, <1>3 DEF Adds
  <2> QED
    BY <2>1
<1> QED
  BY <1>2, <1>3

LEMMA AddsOne ==
    ASSUME NEW x \in Nat
    PROVE  Adds(<<x>>, x)
<1> DEFINE p == [i \in 1 .. 2 |-> IF i = 1 THEN x ELSE 0]
           w == <<x>>
<1>1. Len(w) = 1 /\ w[1] = x
  OBVIOUS
<1>2. p \in [1 .. 1 + 1 -> Nat] /\ p[1] = x /\ p[1 + 1] = 0
  OBVIOUS
<1> HIDE DEF p, w
<1>3. \A i \in 1 .. 1 : p[i] = w[i] + p[i + 1]
  BY <1>1, <1>2
<1>4. Adds(w, x)
  BY <1>1, <1>2, <1>3 DEF Adds
<1> QED
  BY <1>4 DEF w

LEMMA AddsTwo ==
    ASSUME NEW x \in Nat, NEW y \in Nat
    PROVE  <<x, y>> \in Seq(Nat) /\ Adds(<<x, y>>, x + y)
<1> DEFINE p == [i \in 1 .. 3 |-> IF i = 1 THEN x + y ELSE IF i = 2 THEN y ELSE 0]
           w == <<x, y>>
<1>1. w \in Seq(Nat) /\ Len(w) = 2 /\ w[1] = x /\ w[2] = y
  OBVIOUS
<1>2. p \in [1 .. 2 + 1 -> Nat] /\ p[1] = x + y /\ p[1 + 1] = y /\ p[2] = y /\ p[2 + 1] = 0
  OBVIOUS
<1> HIDE DEF p, w
<1>3. ASSUME NEW i \in 1 .. 2
      PROVE  p[i] = w[i] + p[i + 1]
  <2>1. i = 1 \/ i = 2
    OBVIOUS
  <2> QED
    BY <1>1, <1>2, <2>1
<1>4. Adds(w, x + y)
  BY <1>1, <1>2, <1>3 DEF Adds
<1> QED
  BY <1>1, <1>4 DEF w

LEMMA AddsTail ==
    ASSUME NEW w \in Seq(Nat), w # <<>>, NEW n, Adds(w, n)
    PROVE  /\ n \in Nat /\ w[1] \in Nat /\ w[1] <= n
           /\ Tail(w) \in Seq(Nat) /\ Adds(Tail(w), n - w[1])
<1> DEFINE k == Len(w)
           u == Tail(w)
<1>1. /\ k \in Nat \ {0} /\ u \in Seq(Nat) /\ Len(u) = k - 1
      /\ \A i \in 1 .. (k - 1) : u[i] = w[i + 1]
  BY EmptySeq, HeadTailProperties
<1>2. \A i \in 1 .. k : w[i] \in Nat
  BY ElementOfSeq
<1>3. PICK p \in [1 .. k + 1 -> Nat] :
        /\ p[1] = n /\ p[k + 1] = 0
        /\ \A i \in 1 .. k : p[i] = w[i] + p[i + 1]
  BY DEF Adds
<1> HIDE DEF k, u
<1> DEFINE q == [i \in 1 .. k |-> p[i + 1]]
<1>4. q \in [1 .. Len(u) + 1 -> Nat]
  BY <1>1, <1>3
<1>5. /\ 1 \in 1 .. k /\ k \in 1 .. k /\ Len(u) + 1 = k /\ 1 \in 1 .. k + 1 /\ 1 + 1 \in 1 .. k + 1
  BY <1>1
<1>6. p[1] = w[1] + p[1 + 1] /\ p[1 + 1] \in Nat /\ w[1] \in Nat
  BY <1>2, <1>3, <1>5
<1>7. q[1] = n - w[1] /\ q[Len(u) + 1] = 0
  BY <1>3, <1>5, <1>6
<1>8. ASSUME NEW i \in 1 .. Len(u)
      PROVE  q[i] = u[i] + q[i + 1]
  <2>1. i \in 1 .. k /\ i + 1 \in 1 .. k /\ i \in 1 .. (k - 1)
    BY <1>1
  <2>2. q[i] = p[i + 1] /\ q[i + 1] = p[(i + 1) + 1] /\ u[i] = w[i + 1]
    BY <1>1, <2>1
  <2> QED
    BY <1>3, <2>1, <2>2
<1> HIDE DEF q
<1>9. Adds(u, n - w[1])
  BY <1>4, <1>7, <1>8 DEF Adds
<1> QED
  BY <1>1, <1>3, <1>6, <1>9 DEF u

LEMMA AddsConcat ==
    ASSUME NEW a \in Seq(Nat), NEW b \in Seq(Nat), NEW m, NEW n, Adds(a, m), Adds(b, n)
    PROVE  a \o b \in Seq(Nat) /\ Len(a \o b) = Len(a) + Len(b) /\ Adds(a \o b, m + n)
<1> DEFINE k == Len(a)
           l == Len(b)
           t == a \o b
<1>1. k \in Nat /\ l \in Nat
  BY LenProperties
<1>2. /\ t \in Seq(Nat) /\ Len(t) = k + l
      /\ \A i \in 1 .. (k + l) : t[i] = IF i <= k THEN a[i] ELSE b[i - k]
  BY ConcatProperties
<1>3. PICK p \in [1 .. k + 1 -> Nat] :
        /\ p[1] = m /\ p[k + 1] = 0
        /\ \A i \in 1 .. k : p[i] = a[i] + p[i + 1]
  BY DEF Adds
<1>4. PICK q \in [1 .. l + 1 -> Nat] :
        /\ q[1] = n /\ q[l + 1] = 0
        /\ \A i \in 1 .. l : q[i] = b[i] + q[i + 1]
  BY DEF Adds
<1>5. \A i \in 1 .. k : a[i] \in Nat
  BY ElementOfSeq
<1> HIDE DEF k, l, t
<1>6. m \in Nat /\ n \in Nat
  BY <1>1, <1>3, <1>4
<1> DEFINE s == [i \in 1 .. (k + l) + 1 |-> IF i <= k THEN p[i] + n ELSE q[i - k]]
<1>7. s \in [1 .. Len(t) + 1 -> Nat]
  <2>1. ASSUME NEW i \in 1 .. (k + l) + 1
        PROVE  (IF i <= k THEN p[i] + n ELSE q[i - k]) \in Nat
    <3>1. CASE i <= k
      <4>1. p[i] \in Nat
        BY <1>1, <1>3, <3>1
      <4> QED
        BY <1>6, <3>1, <4>1
    <3>2. CASE ~(i <= k)
      <4>1. i - k \in 1 .. l + 1
        BY <1>1, <3>2
      <4> QED
        BY <1>4, <3>2, <4>1
    <3> QED
      BY <3>1, <3>2
  <2> QED
    BY <1>2, <2>1
<1>8. s[1] = m + n
  <2>1. 1 \in 1 .. (k + l) + 1
    BY <1>1
  <2>2. CASE k = 0
    BY <1>3, <1>4, <1>6, <2>1, <2>2
  <2>3. CASE k # 0
    BY <1>1, <1>3, <2>1, <2>3
  <2> QED
    BY <2>2, <2>3
<1>9. s[Len(t) + 1] = 0
  <2>1. (k + l) + 1 \in 1 .. (k + l) + 1 /\ ~((k + l) + 1 <= k) /\ ((k + l) + 1) - k = l + 1
    BY <1>1
  <2> QED
    BY <1>2, <1>4, <2>1
<1>10. ASSUME NEW i \in 1 .. Len(t)
       PROVE  s[i] = t[i] + s[i + 1]
  <2>1. /\ i \in 1 .. (k + l) /\ i \in 1 .. (k + l) + 1 /\ i + 1 \in 1 .. (k + l) + 1
        /\ t[i] = IF i <= k THEN a[i] ELSE b[i - k]
    <3>1. i \in 1 .. (k + l)
      BY <1>2
    <3>2. i \in 1 .. (k + l) + 1 /\ i + 1 \in 1 .. (k + l) + 1
      <4> HIDE DEF s
      <4> QED
        BY <1>1, <3>1
    <3> QED
      BY <1>2, <3>1, <3>2
  <2>2. i \in Int /\ 1 <= i /\ i <= k + l
    <3>1. i \in 1 .. (k + l)
      BY <2>1
    <3> HIDE DEF s
    <3> QED
      BY <1>1, <3>1
  <2>3. CASE i < k
    <3>1. i \in 1 .. k /\ i + 1 \in 1 .. k + 1 /\ i <= k /\ i + 1 <= k
      BY <1>1, <2>3
    <3>2. s[i] = p[i] + n /\ s[i + 1] = p[i + 1] + n /\ t[i] = a[i]
      BY <2>1, <3>1
    <3>3. p[i] = a[i] + p[i + 1] /\ p[i + 1] \in Nat /\ a[i] \in Nat
      BY <1>3, <1>5, <3>1
    <3> QED
      BY <1>6, <3>2, <3>3
  <2>4. CASE i = k
    <3>1. k \in 1 .. k /\ ~(k + 1 <= k) /\ (k + 1) - k = 1
      <4>1. 1 <= k
        BY <2>2, <2>4
      <4> HIDE DEF s
      <4> QED
        BY <1>1, <4>1
    <3>2. s[i] = p[k] + n /\ s[i + 1] = q[1] /\ t[i] = a[k]
      <4>1. i <= k /\ ~(i + 1 <= k) /\ (i + 1) - k = 1 /\ i = k
        BY <2>4, <3>1
      <4>2. s[i] = p[i] + n /\ s[i + 1] = q[(i + 1) - k] /\ t[i] = a[i]
        BY <2>1, <4>1
      <4> HIDE DEF s
      <4> QED
        BY <4>1, <4>2
    <3>3. p[k] = a[k] + p[k + 1] /\ a[k] \in Nat
      BY <1>3, <1>5, <3>1
    <3> QED
      BY <1>3, <1>4, <1>6, <3>2, <3>3, SMTT(30)
  <2>5. CASE i > k
    <3>1. /\ i - k \in 1 .. l /\ ~(i <= k) /\ ~(i + 1 <= k)
          /\ (i + 1) - k = (i - k) + 1
      <4> HIDE DEF s
      <4> QED
        BY <1>1, <2>5, <2>2
    <3>2. s[i] = q[i - k] /\ s[i + 1] = q[(i - k) + 1] /\ t[i] = b[i - k]
      BY <2>1, <3>1
    <3> QED
      BY <1>4, <3>1, <3>2
  <2> QED
    BY <1>1, <2>3, <2>4, <2>5, <2>2
<1> HIDE DEF s
<1>11. Adds(t, m + n)
  BY <1>7, <1>8, <1>9, <1>10 DEF Adds
<1> QED
  BY <1>2, <1>11 DEF t, k, l

\* The last of the numbers grows.
LEMMA AddsMore ==
    ASSUME NEW w \in Seq(Nat), w # <<>>, NEW n, Adds(w, n), NEW f \in Nat
    PROVE  LET k == Len(w)
           IN  Adds([w EXCEPT ![k] = w[k] + f], n + f)
<1> DEFINE k == Len(w)
           v == [w EXCEPT ![k] = w[k] + f]
<1>1. k \in Nat \ {0} /\ DOMAIN w = 1 .. k
  BY EmptySeq, LenProperties
<1>2. \A i \in 1 .. k : w[i] \in Nat
  BY ElementOfSeq
<1>3. PICK p \in [1 .. k + 1 -> Nat] :
        /\ p[1] = n /\ p[k + 1] = 0
        /\ \A i \in 1 .. k : p[i] = w[i] + p[i + 1]
  BY DEF Adds
<1>4. w[k] + f \in Nat /\ k \in 1 .. k
  <2> HIDE DEF k
  <2> QED
    BY <1>1, <1>2
<1>5. Len(v) = k /\ \A i \in 1 .. k : v[i] = IF i = k THEN w[k] + f ELSE w[i]
  BY <1>4, ExceptSeq
<1> HIDE DEF k, v
<1> DEFINE q == [i \in 1 .. k + 1 |-> IF i = k + 1 THEN 0 ELSE p[i] + f]
<1>6. q \in [1 .. k + 1 -> Nat] /\ q[1] = n + f /\ q[k + 1] = 0
  <2>1. \A i \in 1 .. k + 1 : p[i] + f \in Nat
    BY <1>3
  <2>2. q \in [1 .. k + 1 -> Nat]
    BY <2>1
  <2>3. 1 \in 1 .. k + 1 /\ k + 1 \in 1 .. k + 1 /\ 1 # k + 1
    BY <1>1
  <2> QED
    BY <1>3, <2>2, <2>3
<1>7. ASSUME NEW i \in 1 .. k
      PROVE  q[i] = v[i] + q[i + 1]
  <2>1. i \in 1 .. k + 1 /\ i + 1 \in 1 .. k + 1 /\ i # k + 1
    BY <1>1
  <2>2. p[i] = w[i] + p[i + 1] /\ w[i] \in Nat /\ p[i + 1] \in Nat
    BY <1>2, <1>3, <2>1
  <2>3. CASE i = k
    BY <1>3, <1>5, <2>1, <2>2, <2>3
  <2>4. CASE i # k
    <3>1. i + 1 # k + 1
      BY <1>1, <2>4
    <3> QED
      BY <1>5, <2>1, <2>2, <2>4, <3>1
  <2> QED
    BY <2>3, <2>4
<1> HIDE DEF q
<1>8. Adds(v, n + f)
  BY <1>5, <1>6, <1>7 DEF Adds
<1> QED
  BY <1>8 DEF v, k

LEMMA SizesAre ==
    ASSUME NEW c \in Seq(Buffers)
    PROVE  /\ Sizes(c) \in Seq(Nat) /\ Len(Sizes(c)) = Len(c)
           /\ \A i \in 1 .. Len(c) : Sizes(c)[i] = c[i].size
<1> DEFINE n == Len(c)
<1>1. n \in Nat /\ \A i \in 1 .. n : c[i].size \in Nat
  <2>1. \A i \in 1 .. n : c[i] \in Buffers
    BY ElementOfSeq
  <2> QED
    BY <2>1, LenProperties DEF Buffers
<1>2. Sizes(c) = [i \in 1 .. n |-> c[i].size]
  BY DEF Sizes
<1> HIDE DEF n
<1>3. Sizes(c) \in Seq(Nat) /\ Len(Sizes(c)) = n
  BY <1>1, <1>2
<1> QED
  BY <1>2, <1>3 DEF n

LEMMA SizesSame ==
    ASSUME NEW c \in Seq(Buffers), NEW w \in Seq(Nat), Len(w) = Len(c),
           \A i \in 1 .. Len(c) : w[i] = c[i].size
    PROVE  Sizes(c) = w
BY SizesAre, SeqEqual

LEMMA WeighsEmpty ==
    /\ Weighs(<<>>, 0)
    /\ \A n : Weighs(<<>>, n) => n = 0
<1>1. Sizes(<<>>) = <<>>
  <2> DEFINE e == <<>>
  <2>1. e \in Seq(Buffers) /\ e \in Seq(Nat) /\ Len(e) = 0
    BY EmptySeq
  <2> HIDE DEF e
  <2>2. \A i \in 1 .. Len(e) : e[i] = e[i].size
    BY <2>1
  <2>3. Sizes(e) = e
    BY <2>1, <2>2, SizesSame
  <2> QED
    BY <2>3 DEF e
<1> QED
  BY <1>1, AddsEmpty DEF Weighs

LEMMA WeighsOne ==
    ASSUME NEW b \in Buffers
    PROVE  Weighs(<<b>>, b.size)
<1> DEFINE c == <<b>>
           w == <<b.size>>
<1>1. b.size \in Nat
  BY DEF Buffers
<1>2. /\ c \in Seq(Buffers) /\ Len(c) = 1 /\ c[1] = b
      /\ w \in Seq(Nat) /\ Len(w) = 1 /\ w[1] = b.size
  BY <1>1
<1>3. Adds(w, b.size)
  BY <1>1, AddsOne
<1> HIDE DEF c, w
<1>4. \A i \in 1 .. Len(c) : w[i] = c[i].size
  BY <1>2
<1>5. Sizes(c) = w
  BY <1>2, <1>4, SizesSame
<1>6. Weighs(c, b.size)
  BY <1>3, <1>5 DEF Weighs
<1> QED
  BY <1>6 DEF c

LEMMA WeighsTail ==
    ASSUME NEW c \in Seq(Buffers), c # <<>>, NEW n, Weighs(c, n)
    PROVE  /\ n \in Nat /\ c[1].size \in Nat /\ c[1].size <= n
           /\ Weighs(Tail(c), n - c[1].size)
<1> DEFINE k == Len(c)
           u == Tail(c)
           w == Sizes(c)
<1>1. /\ k \in Nat \ {0} /\ u \in Seq(Buffers) /\ Len(u) = k - 1
      /\ \A i \in 1 .. (k - 1) : u[i] = c[i + 1]
  BY EmptySeq, HeadTailProperties
<1>2. w \in Seq(Nat) /\ Len(w) = k /\ \A i \in 1 .. k : w[i] = c[i].size
  BY SizesAre
<1>3. Adds(w, n)
  BY DEF Weighs
<1> HIDE DEF k, u, w
<1>4. w # <<>>
  BY <1>1, <1>2, EmptySeq
<1>5. /\ n \in Nat /\ w[1] \in Nat /\ w[1] <= n
      /\ Tail(w) \in Seq(Nat) /\ Adds(Tail(w), n - w[1])
  BY <1>2, <1>3, <1>4, AddsTail
<1>6. w[1] = c[1].size
  BY <1>1, <1>2
<1>7. /\ Len(Tail(w)) = k - 1
      /\ \A i \in 1 .. (k - 1) : Tail(w)[i] = w[i + 1]
  BY <1>2, <1>4, HeadTailProperties
<1>8. \A i \in 1 .. Len(u) : Tail(w)[i] = u[i].size
  <2>1. \A i \in 1 .. (k - 1) : i + 1 \in 1 .. k
    BY <1>1
  <2> QED
    BY <1>1, <1>2, <1>7, <2>1
<1>9. Sizes(u) = Tail(w)
  BY <1>1, <1>5, <1>7, <1>8, SizesSame
<1>10. Weighs(u, n - w[1])
  BY <1>5, <1>9 DEF Weighs
<1> QED
  BY <1>5, <1>6, <1>10 DEF u

\* The footer adds its length to that of the chain it is put on.
LEMMA WeighsFooter ==
    ASSUME NEW f \in Nat, NEW c \in Seq(Buffers), c # <<>>, NEW n, Weighs(c, n),
           NEW d, FooterAdded(c, f, d)
    PROVE  Weighs(d, n + f)
<1> DEFINE k == Len(c)
           w == Sizes(c)
           g == footerBuf(f)
<1>1. k \in Nat \ {0} /\ k \in 1 .. k /\ n \in Nat
  <2>1. k \in Nat \ {0} /\ n \in Nat
    BY EmptySeq, WeighsTail
  <2> HIDE DEF k
  <2> QED
    BY <2>1
<1>2. w \in Seq(Nat) /\ Len(w) = k /\ \A i \in 1 .. k : w[i] = c[i].size
  BY SizesAre
<1>3. Adds(w, n)
  BY DEF Weighs
<1>4. g \in Buffers /\ g.size = f
  BY DEF footerBuf, Buffers
<1> HIDE DEF k, w, g
<1>5. w # <<>>
  BY <1>1, <1>2, EmptySeq
<1>6. CASE f = 0 /\ d = c
  BY <1>1, <1>6
<1>7. CASE c[k].size = 0 /\ d = [c EXCEPT ![k] = g]
  <2>1. /\ d \in Seq(Buffers) /\ Len(d) = k
        /\ \A j \in 1 .. k : d[j] = IF j = k THEN g ELSE c[j]
    BY <1>1, <1>4, <1>7, ExceptSeq DEF k
  <2> DEFINE v == [w EXCEPT ![k] = w[k] + f]
  <2>2. w[k] = 0
    BY <1>1, <1>2, <1>7
  <2>3. /\ v \in Seq(Nat) /\ Len(v) = k
        /\ \A j \in 1 .. k : v[j] = IF j = k THEN w[k] + f ELSE w[j]
    BY <1>1, <1>2, <2>2, ExceptSeq
  <2>4. Adds(v, n + f)
    <3>1. Adds([w EXCEPT ![Len(w)] = w[Len(w)] + f], n + f)
      BY <1>2, <1>3, <1>5, AddsMore
    <3> QED
      BY <1>2, <3>1
  <2> HIDE DEF v
  <2>5. \A j \in 1 .. k : v[j] = d[j].size
    <3>1. ASSUME NEW j \in 1 .. k
          PROVE  v[j] = d[j].size
      <4>1. CASE j = k
        BY <1>4, <2>1, <2>2, <2>3, <4>1
      <4>2. CASE j # k
        BY <1>2, <2>1, <2>3, <4>2
      <4> QED
        BY <4>1, <4>2
    <3> QED
      BY <3>1
  <2>6. Sizes(d) = v
    BY <2>1, <2>3, <2>5, SizesSame
  <2> QED
    BY <2>4, <2>6 DEF Weighs
<1>8. CASE /\ f > 0
           /\ d = SubSeq(c, 1, k - 1)
                    \o <<[c[k] EXCEPT !.last = FALSE, !.lic = FALSE], g>>
  <2>1. /\ d \in Seq(Buffers) /\ Len(d) = k + 1
        /\ \A j \in 1 .. (k - 1) : d[j] = c[j]
        /\ d[k] = [c[k] EXCEPT !.last = FALSE, !.lic = FALSE]
        /\ d[k + 1] = g
    <3>1. f \in Nat \ {0}
      BY <1>8
    <3> DEFINE e == SubSeq(c, 1, Len(c) - 1)
                      \o <<[c[Len(c)] EXCEPT !.last = FALSE, !.lic = FALSE], footerBuf(f)>>
    <3>2. /\ e \in Seq(Buffers) /\ Len(e) = Len(c) + 1
          /\ \A j \in 1 .. (Len(c) - 1) : e[j] = c[j]
          /\ e[Len(c)] = [c[Len(c)] EXCEPT !.last = FALSE, !.lic = FALSE]
          /\ e[Len(c) + 1] = footerBuf(f)
      BY <3>1, ClosedIs
    <3>3. d = e
      BY <1>8 DEF k, g
    <3> HIDE DEF e
    <3> QED
      BY <3>2, <3>3 DEF k, g
  <2>2. d[k].size = c[k].size
    <3>1. c[k] \in Buffers
      BY <1>1, ElementOfSeq DEF k
    <3>2. PICK b1, b2, b3, b4 :
            c[k] = [size |-> b1, last |-> b2, lic |-> b3, kind |-> b4]
      BY <3>1 DEF Buffers
    <3>3. d[k].size = b1
      BY <2>1, <3>2
    <3> QED
      BY <3>2, <3>3
  <2> DEFINE v == w \o <<f>>
  <2>3. /\ v \in Seq(Nat) /\ Len(v) = k + 1 /\ Adds(v, n + f)
    <3>1. <<f>> \in Seq(Nat) /\ Len(<<f>>) = 1 /\ Adds(<<f>>, f)
      BY AddsOne
    <3> QED
      BY <1>2, <1>3, <3>1, AddsConcat
  <2>4. \A j \in 1 .. (k + 1) : v[j] = IF j <= k THEN w[j] ELSE f
    <3>1. <<f>> \in Seq(Nat) /\ Len(<<f>>) = 1 /\ <<f>>[1] = f
      OBVIOUS
    <3>2. \A j \in 1 .. Len(w) + Len(<<f>>) : v[j] =
                IF j <= Len(w) THEN w[j] ELSE <<f>>[j - Len(w)]
      BY <1>2, <3>1, ConcatProperties
    <3>3. \A j \in 1 .. (k + 1) : ~(j <= k) => j - k = 1
      BY <1>1
    <3> HIDE DEF v
    <3> QED
      BY <1>1, <1>2, <3>1, <3>2, <3>3
  <2> HIDE DEF v
  <2>5. ASSUME NEW j \in 1 .. (k + 1)
        PROVE  v[j] = d[j].size
    <3>1. CASE j <= k - 1
      <4>1. j \in 1 .. (k - 1) /\ j \in 1 .. k /\ j <= k
        BY <1>1, <3>1
      <4> QED
        BY <1>2, <2>1, <2>4, <4>1
    <3>2. CASE j = k
      <4>1. k <= k /\ j <= k
        BY <1>1, <3>2
      <4> QED
        BY <1>1, <1>2, <2>2, <2>4, <3>2, <4>1
    <3>3. CASE j = k + 1
      <4>1. ~(j <= k)
        BY <1>1, <3>3
      <4> QED
        BY <1>4, <2>1, <2>4, <3>3, <4>1
    <3>4. j <= k - 1 \/ j = k \/ j = k + 1
      BY <1>1
    <3> QED
      BY <3>1, <3>2, <3>3, <3>4
  <2>6. Sizes(d) = v
    BY <2>1, <2>3, <2>5, SizesSame
  <2> QED
    BY <2>3, <2>6 DEF Weighs
<1> QED
  BY <1>6, <1>7, <1>8, Zenon DEF FooterAdded, k, g

LEMMA AmountsEmpty ==
    /\ Amounts(<<>>, 0)
    /\ \A n : Amounts(<<>>, n) => n = 0
<1>1. <<>> \in Seq(Nat) /\ Len(<<>>) = 0
  BY EmptySeq
<1>2. \A i \in 1 .. Len(<<>>) : FALSE
  BY <1>1
<1>3. Amounts(<<>>, 0)
  BY <1>1, <1>2, AddsEmpty, Zenon DEF Amounts
<1>4. ASSUME NEW n, Amounts(<<>>, n)
      PROVE  n = 0
  <2>1. PICK w \in Seq(Nat) : Len(w) = Len(<<>>) /\ Adds(w, n)
    BY <1>4 DEF Amounts
  <2>2. w = <<>>
    BY <1>1, <2>1, EmptySeq
  <2> QED
    BY <2>1, <2>2, AddsEmpty
<1> QED
  BY <1>3, <1>4

LEMMA AmountsTail ==
    ASSUME NEW t \in Seq(CallsOf), t # <<>>, NEW n, Amounts(t, n)
    PROVE  /\ n \in Nat
           /\ \E m \in Nat : m <= n /\ Weighs(t[1].chain, m) /\ Amounts(Tail(t), n - m)
<1> DEFINE k == Len(t)
           u == Tail(t)
<1>1. /\ k \in Nat \ {0} /\ Len(u) = k - 1
      /\ \A i \in 1 .. (k - 1) : u[i] = t[i + 1]
  BY EmptySeq, HeadTailProperties
<1>2. PICK w \in Seq(Nat) :
        Len(w) = k /\ Adds(w, n) /\ \A i \in 1 .. k : Weighs(t[i].chain, w[i])
  BY DEF Amounts
<1> HIDE DEF k, u
<1>3. w # <<>>
  BY <1>1, <1>2, EmptySeq
<1>4. /\ n \in Nat /\ w[1] \in Nat /\ w[1] <= n
      /\ Tail(w) \in Seq(Nat) /\ Adds(Tail(w), n - w[1])
  BY <1>2, <1>3, AddsTail
<1>5. /\ Len(Tail(w)) = k - 1
      /\ \A i \in 1 .. (k - 1) : Tail(w)[i] = w[i + 1]
  BY <1>2, <1>3, HeadTailProperties
<1>6. Weighs(t[1].chain, w[1])
  <2>1. 1 \in 1 .. k
    BY <1>1
  <2> QED
    BY <1>2, <2>1
<1>7. \A i \in 1 .. Len(u) : Weighs(u[i].chain, Tail(w)[i])
  <2>1. \A i \in 1 .. (k - 1) : i + 1 \in 1 .. k
    BY <1>1
  <2>2. ASSUME NEW i \in 1 .. (k - 1)
        PROVE  Weighs(u[i].chain, Tail(w)[i])
    <3>1. Weighs(t[i + 1].chain, w[i + 1])
      BY <1>2, <2>1
    <3>2. u[i] = t[i + 1] /\ Tail(w)[i] = w[i + 1]
      BY <1>1, <1>5
    <3> QED
      BY <3>1, <3>2
  <2> QED
    BY <1>1, <2>2
<1>8. Amounts(u, n - w[1])
  BY <1>1, <1>4, <1>5, <1>7 DEF Amounts
<1> QED
  BY <1>4, <1>6, <1>8 DEF u

LEMMA AmountsConcat ==
    ASSUME NEW a \in Seq(CallsOf), NEW b \in Seq(CallsOf), NEW m, NEW n,
           Amounts(a, m), Amounts(b, n)
    PROVE  a \o b \in Seq(CallsOf) /\ Amounts(a \o b, m + n)
<1> DEFINE k == Len(a)
           l == Len(b)
           t == a \o b
<1>1. k \in Nat /\ l \in Nat
  BY LenProperties
<1>2. /\ t \in Seq(CallsOf) /\ Len(t) = k + l
      /\ \A i \in 1 .. (k + l) : t[i] = IF i <= k THEN a[i] ELSE b[i - k]
  BY ConcatProperties
<1>3. PICK v \in Seq(Nat) :
        Len(v) = k /\ Adds(v, m) /\ \A i \in 1 .. k : Weighs(a[i].chain, v[i])
  BY DEF Amounts
<1>4. PICK w \in Seq(Nat) :
        Len(w) = l /\ Adds(w, n) /\ \A i \in 1 .. l : Weighs(b[i].chain, w[i])
  BY DEF Amounts
<1> DEFINE x == v \o w
<1>5. x \in Seq(Nat) /\ Len(x) = k + l /\ Adds(x, m + n)
  BY <1>3, <1>4, AddsConcat
<1>6. \A i \in 1 .. (k + l) : x[i] = IF i <= k THEN v[i] ELSE w[i - k]
  <2>1. \A i \in 1 .. Len(v) + Len(w) : x[i] = IF i <= Len(v) THEN v[i] ELSE w[i - Len(v)]
    BY ConcatProperties
  <2> QED
    BY <1>3, <1>4, <2>1
<1> HIDE DEF k, l, t, x
<1>7. ASSUME NEW i \in 1 .. Len(t)
      PROVE  Weighs(t[i].chain, x[i])
  <2>1. i \in 1 .. (k + l)
    BY <1>2
  <2>2. CASE i <= k
    <3>1. i \in 1 .. k
      BY <1>1, <2>1, <2>2
    <3>2. t[i] = a[i] /\ x[i] = v[i]
      BY <1>2, <1>6, <2>1, <2>2
    <3> QED
      BY <1>3, <3>1, <3>2
  <2>3. CASE ~(i <= k)
    <3>1. i - k \in 1 .. l
      BY <1>1, <2>1, <2>3
    <3>2. t[i] = b[i - k] /\ x[i] = w[i - k]
      BY <1>2, <1>6, <2>1, <2>3
    <3> QED
      BY <1>4, <3>1, <3>2
  <2> QED
    BY <2>2, <2>3
<1>8. Amounts(t, m + n)
  BY <1>2, <1>5, <1>7 DEF Amounts
<1> QED
  BY <1>2, <1>8 DEF t

LEMMA AmountsOne ==
    ASSUME NEW r \in {Main, Sub}, NEW c \in Seq(Buffers), NEW n \in Nat, Weighs(c, n)
    PROVE  /\ Calls(r, <<c>>) \in Seq(CallsOf)
           /\ Calls(r, <<c>>)[1] = [r |-> r, chain |-> c]
           /\ Calls(r, <<c>>) # <<>>
           /\ Amounts(Calls(r, <<c>>), n)
<1> DEFINE chs == <<c>>
           w == <<n>>
           t == Calls(r, chs)
<1>1. chs \in Seq(Seq(Buffers)) /\ Len(chs) = 1 /\ chs[1] = c
  OBVIOUS
<1>2. w \in Seq(Nat) /\ Len(w) = 1 /\ w[1] = n /\ Adds(w, n)
  BY AddsOne
<1> HIDE DEF chs, w
<1>3. /\ t \in Seq(CallsOf) /\ Len(t) = 1
      /\ \A i \in 1 .. 1 : t[i] = [r |-> r, chain |-> chs[i]]
  BY <1>1, CallsAre
<1> HIDE DEF t
<1>4. t[1] = [r |-> r, chain |-> c]
  BY <1>1, <1>3
<1>5. \A i \in 1 .. Len(t) : Weighs(t[i].chain, w[i])
  <2>1. \A i \in 1 .. Len(t) : i = 1
    BY <1>3
  <2>2. Weighs(t[1].chain, w[1])
    BY <1>2, <1>4
  <2> QED
    BY <2>1, <2>2, Zenon
<1>6. Amounts(t, n)
  <2>1. Len(w) = Len(t)
    BY <1>2, <1>3
  <2> QED
    BY <1>2, <1>5, <2>1 DEF Amounts
<1>7. t # <<>>
  <2>1. t = <<>> => Len(t) = 0
    BY EmptySeq
  <2> QED
    BY <1>3, <2>1
<1> QED
  BY <1>3, <1>4, <1>6, <1>7 DEF t, chs

LEMMA AmountsOneBuffer ==
    ASSUME NEW r \in {Main, Sub}, NEW b \in Buffers
    PROVE  /\ Calls(r, <<<<b>>>>) \in Seq(CallsOf)
           /\ Calls(r, <<<<b>>>>)[1] = [r |-> r, chain |-> <<b>>]
           /\ Calls(r, <<<<b>>>>) # <<>>
           /\ Amounts(Calls(r, <<<<b>>>>), b.size)
<1> DEFINE c == <<b>>
<1>1. c \in Seq(Buffers) /\ Weighs(c, b.size) /\ b.size \in Nat
  BY WeighsOne DEF Buffers
<1> HIDE DEF c
<1>2. /\ Calls(r, <<c>>) \in Seq(CallsOf)
      /\ Calls(r, <<c>>)[1] = [r |-> r, chain |-> c]
      /\ Calls(r, <<c>>) # <<>>
      /\ Amounts(Calls(r, <<c>>), b.size)
  BY <1>1, AmountsOne
<1> QED
  BY <1>2 DEF c

\* The first of two sequences of calls is the first of both.
LEMMA FirstOfConcat ==
    ASSUME NEW a \in Seq(CallsOf), NEW b \in Seq(CallsOf), a # <<>>
    PROVE  /\ (a \o b)[1] = a[1] /\ a \o b # <<>>
           /\ Tail(a \o b) = <<>> => b = <<>>
<1> DEFINE k == Len(a)
           l == Len(b)
           t == a \o b
<1>1. k \in Nat \ {0} /\ l \in Nat
  BY LenProperties, EmptySeq
<1>2. /\ t \in Seq(CallsOf) /\ Len(t) = k + l
      /\ \A i \in 1 .. (k + l) : t[i] = IF i <= k THEN a[i] ELSE b[i - k]
  BY ConcatProperties
<1>3. b # <<>> => l \in Nat \ {0}
  BY EmptySeq
<1> HIDE DEF k, l, t
<1>4. t[1] = a[1]
  <2>1. 1 \in 1 .. (k + l) /\ 1 <= k
    BY <1>1
  <2> QED
    BY <1>2, <2>1
<1>5. t # <<>>
  BY <1>1, <1>2, EmptySeq
<1>6. ASSUME Tail(t) = <<>>
      PROVE  b = <<>>
  <2>1. Len(Tail(t)) = (k + l) - 1
    BY <1>2, <1>5, HeadTailProperties
  <2>2. Len(Tail(t)) = 0
    BY <1>6, EmptySeq
  <2>3. (k + l) - 1 = 0
    BY <2>1, <2>2
  <2>4. l = 0
    BY <1>1, <2>3
  <2> QED
    BY <1>3, <2>4
<1> QED
  BY <1>4, <1>5, <1>6 DEF t

\* A response whose first piece is empty stops there: nginx's writer refuses it.
Blocked(c) == c # <<>> /\ c[1].size = 0 /\ c[1].kind = "content"

Stuck(t) == t # <<>> /\ Tail(t) # <<>> /\ Blocked(t[1].chain)

LEMMA EchoAmounts ==
    ASSUME NEW args \in Nat, NEW msg \in Nat
    PROVE  LET t == echoCalls(args, msg)
               n == msg + IF args > 0 THEN args + 1 ELSE 0
           IN  /\ t[1].r = Main
               /\ Amounts(t, n)
               /\ n > 0 \/ Stuck(t)
<1> DEFINE chs == <<<<Content(args)>>, <<Content(1)>>>>
           a == IF args > 0 THEN Calls(Main, chs) ELSE <<>>
           b == Calls(Main, <<<<Content(msg)>>>>)
           f == IF conf.legacy THEN Calls(Main, <<<<special("flush")>>>>) ELSE <<>>
           e == Calls(Main, <<<<special("last")>>>>)
           x == IF args > 0 THEN args + 1 ELSE 0
           t == echoCalls(args, msg)
<1>1. /\ \A n \in Nat : Content(n) \in Buffers /\ Content(n).size = n /\ Content(n).kind = "content"
      /\ Main \in {Main, Sub}
      /\ special("flush") \in Buffers /\ special("flush").size = 0
      /\ special("last") \in Buffers /\ special("last").size = 0
  BY BuffersAre, MarksOf
<1>2. a \in Seq(CallsOf) /\ Amounts(a, x) /\ (args > 0 => a # <<>> /\ a[1].r = Main)
  <2>1. CASE args > 0
    <3> DEFINE w == <<args, 1>>
    <3>1. /\ <<Content(args)>> \in Seq(Buffers) /\ <<Content(1)>> \in Seq(Buffers)
          /\ Weighs(<<Content(args)>>, args) /\ Weighs(<<Content(1)>>, 1)
      <4>1. \A n \in Nat : <<Content(n)>> \in Seq(Buffers) /\ Weighs(<<Content(n)>>, n)
        <5> TAKE n \in Nat
        <5>1. Weighs(<<Content(n)>>, Content(n).size)
          BY <1>1, WeighsOne
        <5> QED
          BY <1>1, <5>1
      <4> QED
        BY <4>1
    <3>2. /\ chs \in Seq(Seq(Buffers)) /\ Len(chs) = 2
          /\ chs[1] = <<Content(args)>> /\ chs[2] = <<Content(1)>>
      BY <3>1
    <3>3. w \in Seq(Nat) /\ Len(w) = 2 /\ w[1] = args /\ w[2] = 1
      OBVIOUS
    <3>4. Adds(w, args + 1)
      BY AddsTwo
    <3> DEFINE u == Calls(Main, chs)
    <3> HIDE DEF chs, w
    <3>5. /\ u \in Seq(CallsOf) /\ Len(u) = 2
          /\ \A i \in 1 .. 2 : u[i] = [r |-> Main, chain |-> chs[i]]
      BY <1>1, <3>2, CallsAre
    <3> HIDE DEF u
    <3>6. /\ u[1] = [r |-> Main, chain |-> chs[1]] /\ u[2] = [r |-> Main, chain |-> chs[2]]
      BY <3>5
    <3>7. Weighs(u[1].chain, w[1]) /\ Weighs(u[2].chain, w[2])
      BY <3>1, <3>2, <3>3, <3>6
    <3>8. \A i \in 1 .. Len(u) : Weighs(u[i].chain, w[i])
      <4>1. \A i \in 1 .. Len(u) : i = 1 \/ i = 2
        BY <3>5
      <4> QED
        BY <3>7, <4>1, Zenon
    <3>9. Amounts(u, args + 1)
      <4>1. Len(w) = Len(u)
        BY <3>3, <3>5
      <4> QED
        BY <3>3, <3>4, <3>8, <4>1, Zenon DEF Amounts
    <3>10. u # <<>> /\ u[1].r = Main
      <4>1. u = <<>> => Len(u) = 0
        BY EmptySeq
      <4> QED
        BY <3>5, <3>6, <4>1
    <3> QED
      BY <2>1, <3>5, <3>9, <3>10 DEF u
  <2>2. CASE ~(args > 0)
    BY <2>2, EmptySeq, AmountsEmpty
  <2> QED
    BY <2>1, <2>2
<1>3. /\ b \in Seq(CallsOf) /\ Amounts(b, msg) /\ b # <<>>
      /\ b[1] = [r |-> Main, chain |-> <<Content(msg)>>]
  BY <1>1, AmountsOneBuffer
<1>4. f \in Seq(CallsOf) /\ Amounts(f, 0)
  BY <1>1, AmountsOneBuffer, AmountsEmpty, EmptySeq
<1>5. e \in Seq(CallsOf) /\ Amounts(e, 0) /\ e # <<>>
  BY <1>1, AmountsOneBuffer
<1>6. t = ((a \o b) \o f) \o e
  BY DEF echoCalls
<1>7. x \in Nat /\ (~(args > 0) => a = <<>> /\ x = 0)
  OBVIOUS
<1> HIDE DEF a, b, f, e, x, t
<1>8. a \o b \in Seq(CallsOf) /\ Amounts(a \o b, x + msg)
  BY <1>2, <1>3, AmountsConcat
<1>9. (a \o b) \o f \in Seq(CallsOf) /\ Amounts((a \o b) \o f, (x + msg) + 0)
  BY <1>4, <1>8, AmountsConcat
<1>10. t \in Seq(CallsOf) /\ Amounts(t, ((x + msg) + 0) + 0)
  BY <1>5, <1>6, <1>9, AmountsConcat
<1>11. ((x + msg) + 0) + 0 = msg + x
  BY <1>7
<1>12. a \o b # <<>> /\ (a \o b)[1].r = Main /\ (a = <<>> => (a \o b)[1] = b[1])
  <2>1. CASE a = <<>>
    <3>1. a \o b = b
      BY <1>3, <2>1, ConcatEmptySeq
    <3> QED
      BY <1>3, <3>1
  <2>2. CASE a # <<>>
    <3>1. args > 0
      BY <1>7, <2>2
    <3> QED
      BY <1>2, <1>3, <2>2, <3>1, FirstOfConcat
  <2> QED
    BY <2>1, <2>2
<1>13. (a \o b) \o f # <<>> /\ ((a \o b) \o f)[1] = (a \o b)[1]
  BY <1>4, <1>8, <1>12, FirstOfConcat
<1>14. t[1] = (a \o b)[1] /\ t # <<>> /\ Tail(t) # <<>>
  BY <1>5, <1>6, <1>9, <1>13, FirstOfConcat
<1>15. ASSUME ~(msg + x > 0)
       PROVE  Stuck(t)
  <2>1. msg = 0 /\ ~(args > 0)
    <3>1. args > 0 => x > 0
      BY DEF x
    <3> QED
      BY <1>7, <1>15, <3>1
  <2>2. t[1] = [r |-> Main, chain |-> <<Content(0)>>]
    BY <1>3, <1>7, <1>12, <1>14, <2>1
  <2>3. Content(0).size = 0 /\ Content(0).kind = "content"
    BY <1>1
  <2>4. t[1].chain = <<Content(0)>>
    BY <2>2
  <2>5. Blocked(t[1].chain)
    BY <2>3, <2>4 DEF Blocked
  <2> QED
    BY <1>14, <2>5 DEF Stuck
<1> QED
  BY <1>10, <1>11, <1>12, <1>14, <1>15 DEF t, x

LEMMA BodiedWeighs ==
    ASSUME NEW n \in Nat, NEW b \in Bodied(n)
    PROVE  Weighs(b, n)
<1>1. \/ \E p \in Pieces(n) : b = Marked(Cut(p)) \/ b = Append(Cut(p), special("last"))
      \/ n = 0 /\ b = <<special("last")>>
  BY BodiedAre
<1>2. ASSUME NEW p \in Pieces(n)
      PROVE  p \in Seq(Nat) /\ Adds(p, n)
  <2>1. p = <<n>> \/ (p = <<1, n - 1>> /\ n > 1)
    BY PiecesAre
  <2>2. CASE p = <<n>>
    BY <2>2, AddsOne
  <2>3. CASE p = <<1, n - 1>> /\ n > 1
    <3>1. /\ n - 1 \in Nat /\ 1 + (n - 1) = n
      BY <2>3
    <3>2. <<1, n - 1>> \in Seq(Nat) /\ Adds(<<1, n - 1>>, 1 + (n - 1))
      BY <3>1, AddsTwo
    <3> QED
      BY <2>3, <3>1, <3>2
  <2> QED
    BY <2>1, <2>2, <2>3
<1>3. ASSUME NEW p \in Pieces(n)
      PROVE  /\ Cut(p) \in Seq(Buffers) /\ Cut(p) # <<>> /\ Bare(Cut(p))
             /\ Len(Cut(p)) = Len(p)
             /\ \A j \in 1 .. Len(p) : Cut(p)[j].size = p[j]
  BY PiecesAre, CutIsBare
<1>4. ASSUME NEW p \in Pieces(n), b = Marked(Cut(p))
      PROVE  Weighs(b, n)
  <2> DEFINE c == Cut(p)
  <2>1. /\ b \in Seq(Buffers) /\ Len(b) = Len(p)
        /\ \A j \in 1 .. Len(p) : b[j].size = p[j]
    <3>1. /\ c \in Seq(Buffers) /\ c # <<>> /\ Bare(c) /\ Len(c) = Len(p)
          /\ \A j \in 1 .. Len(p) : c[j].size = p[j]
      BY <1>3
    <3> HIDE DEF c
    <3>2. /\ Marked(c) \in Seq(Buffers) /\ Len(Marked(c)) = Len(c)
          /\ \A j \in 1 .. Len(c) : Marked(c)[j].size = c[j].size
      BY <3>1, MarkedEnds
    <3>3. b = Marked(c)
      BY <1>4 DEF c
    <3> QED
      BY <3>1, <3>2, <3>3
  <2>2. Sizes(b) = p
    BY <1>2, <2>1, SizesSame
  <2> QED
    BY <1>2, <2>2 DEF Weighs
<1>5. ASSUME NEW p \in Pieces(n), b = Append(Cut(p), special("last"))
      PROVE  Weighs(b, n)
  <2> DEFINE c == Cut(p)
             k == Len(p)
             v == p \o <<0>>
  <2>1. /\ c \in Seq(Buffers) /\ Bare(c) /\ Len(c) = k
        /\ \A j \in 1 .. k : c[j].size = p[j]
    BY <1>3
  <2> HIDE DEF c
  <2>2. /\ b \in Seq(Buffers) /\ Len(b) = k + 1
        /\ \A j \in 1 .. k : b[j].size = p[j]
        /\ b[k + 1].size = 0
    <3> DEFINE d == Append(c, special("last"))
    <3>1. /\ d \in Seq(Buffers) /\ Len(d) = Len(c) + 1
          /\ \A j \in 1 .. Len(c) : d[j].size = c[j].size
          /\ d[Len(c) + 1].size = 0
      BY <2>1, AppendEnds
    <3>2. b = d
      BY <1>5 DEF c
    <3> HIDE DEF d
    <3> QED
      BY <2>1, <3>1, <3>2
  <2>3. k \in Nat /\ p \in Seq(Nat) /\ Adds(p, n)
    BY <1>2, LenProperties
  <2>4. v \in Seq(Nat) /\ Len(v) = k + 1 /\ Adds(v, n + 0)
    <3>1. <<0>> \in Seq(Nat) /\ Len(<<0>>) = 1 /\ Adds(<<0>>, 0)
      BY AddsOne
    <3> QED
      BY <2>3, <3>1, AddsConcat
  <2>5. \A j \in 1 .. (k + 1) : v[j] = IF j <= k THEN p[j] ELSE 0
    <3>1. <<0>> \in Seq(Nat) /\ Len(<<0>>) = 1 /\ <<0>>[1] = 0
      OBVIOUS
    <3>2. \A j \in 1 .. k + Len(<<0>>) : v[j] = IF j <= k THEN p[j] ELSE <<0>>[j - k]
      BY <2>3, <3>1, ConcatProperties
    <3> HIDE DEF v, k
    <3>3. \A j \in 1 .. (k + 1) : ~(j <= k) => j - k = 1
      BY <2>3
    <3> QED
      BY <2>3, <3>1, <3>2, <3>3
  <2> HIDE DEF v, k
  <2>6. ASSUME NEW j \in 1 .. (k + 1)
        PROVE  v[j] = b[j].size
    <3>1. CASE j <= k
      <4>1. j \in 1 .. k
        BY <2>3, <3>1
      <4> QED
        BY <2>2, <2>5, <3>1, <4>1
    <3>2. CASE ~(j <= k)
      <4>1. j = k + 1
        BY <2>3, <3>2
      <4> QED
        BY <2>2, <2>5, <3>2, <4>1
    <3> QED
      BY <3>1, <3>2
  <2>7. Sizes(b) = v
    BY <2>2, <2>4, <2>6, SizesSame
  <2> QED
    BY <2>4, <2>7 DEF Weighs
<1>6. ASSUME n = 0, b = <<special("last")>>
      PROVE  Weighs(b, n)
  <2>1. special("last") \in Buffers /\ special("last").size = 0
    BY BuffersAre, MarksOf
  <2>2. Weighs(<<special("last")>>, special("last").size)
    BY <2>1, WeighsOne
  <2> QED
    BY <1>6, <2>1, <2>2
<1> QED
  BY <1>1, <1>4, <1>5, <1>6

LEMMA SplitAmounts ==
    ASSUME NEW b \in Seq(Buffers), Ending(b), NEW n, Weighs(b, n)
    PROVE  LET t == Calls(Main, [i \in DOMAIN b |-> <<b[i]>>])
           IN  Amounts(t, n) /\ t[1].r = Main
<1> DEFINE k == Len(b)
           w == Sizes(b)
           t == Calls(Main, [i \in DOMAIN b |-> <<b[i]>>])
<1>1. /\ k \in Nat \ {0} /\ \A i \in 1 .. k : b[i] \in Buffers
  BY EmptySeq, ElementOfSeq DEF Ending
<1>2. w \in Seq(Nat) /\ Len(w) = k /\ Adds(w, n) /\ \A i \in 1 .. k : w[i] = b[i].size
  BY SizesAre DEF Weighs
<1>3. t \in Seq(CallsOf) /\ Len(t) = k /\ \A i \in 1 .. k : t[i] = [r |-> Main, chain |-> <<b[i]>>]
  BY SplitCalls
<1> HIDE DEF k, w, t
<1>4. ASSUME NEW i \in 1 .. k
      PROVE  Weighs(t[i].chain, w[i])
  <2>1. Weighs(<<b[i]>>, b[i].size)
    BY <1>1, WeighsOne
  <2>2. t[i].chain = <<b[i]>> /\ w[i] = b[i].size
    BY <1>2, <1>3
  <2> QED
    BY <2>1, <2>2
<1>5. Amounts(t, n)
  BY <1>2, <1>3, <1>4 DEF Amounts
<1>6. t[1].r = Main
  <2>1. 1 \in 1 .. k
    BY <1>1
  <2> QED
    BY <1>3, <2>1
<1> QED
  BY <1>5, <1>6 DEF t

-------------------------------------------------------------------------------
\* The account of the response.

\* Before its header: the length declared is that of what is to be sent.
Planned ==
    req[Main].length # Undeclared =>
        /\ Amounts(todo, req[Main].length)
        /\ conf.footer > 0 => req[Main].flag = 0 /\ (req[Main].length > 0 \/ Stuck(todo))

\* After it: what was declared is what was sent, what is to be sent, and the footer.
Balanced ==
    \E a, b \in Nat :
        /\ Weighs(chain, a)
        /\ Amounts(todo, b)
        /\ wire.declared = wire.sent + a + b + IF todo # <<>> THEN conf.footer ELSE 0

Account ==
    /\ pc # "done" => ~wire.lost /\ ~wire.ended
    /\ ~req[Main].header_sent =>
        /\ wire.declared = NoHeader /\ wire.sent = 0 /\ pc # "write"
        /\ pc = "send" => todo[1].r = Main /\ Planned
    /\ req[Main].header_sent /\ pc \in {"send", "write"} =>
        /\ wire.declared # NoHeader
        /\ \/ wire.declared = Undeclared
           \/ IF pc = "send" THEN Stuck(todo) ELSE Blocked(chain)
           \/ Balanced

LEMMA StartAccount ==
    ASSUME Account, Marks, pc = "content", pc' = "send",
           req'[Main].flag = 0, req'[Main].header_sent = FALSE,
           UNCHANGED <<conf, wire>>, todo'[1].r = Main,
           req'[Main].length # Undeclared =>
                /\ Amounts(todo', req'[Main].length)
                /\ conf.footer > 0 => req'[Main].length > 0 \/ Stuck(todo')
    PROVE  Account' /\ UNCHANGED Message!vars
<1>1. req[Main].header_sent = FALSE
  BY FreshIs DEF Marks
<1>2. wire.declared = NoHeader /\ wire.sent = 0 /\ ~wire.lost /\ ~wire.ended
  BY <1>1 DEF Account
<1>3. Planned'
  BY DEF Planned
<1>4. Account'
  BY <1>2, <1>3 DEF Account
<1> QED
  BY <1>4 DEF Message!vars

LEMMA ErrorPageAmounts ==
    ASSUME errorPage
    PROVE  /\ todo'[1].r = Main /\ Amounts(todo', PageSize)
           /\ PageSize \in Nat /\ PageSize > 0 /\ PageSize # Undeclared
<1> DEFINE b == ending(Content(PageSize))
<1>1. PageSize \in Nat /\ PageSize > 0 /\ PageSize # Undeclared
  BY EchoAssumption DEF Undeclared
<1>2. todo' = Calls(Main, <<<<b>>>>)
  BY DEF errorPage
<1>3. b \in Buffers /\ b.size = PageSize
  <2>1. b = [size |-> PageSize, last |-> TRUE, lic |-> TRUE, kind |-> "content"]
    BY EndingIs DEF Content
  <2> QED
    BY <1>1, <2>1 DEF Buffers
<1> HIDE DEF b
<1> DEFINE t == Calls(Main, <<<<b>>>>)
<1>4. t[1] = [r |-> Main, chain |-> <<b>>] /\ Amounts(t, b.size)
  BY <1>3, AmountsOneBuffer
<1> HIDE DEF t
<1>5. t[1].r = Main
  BY <1>4
<1>6. todo' = t
  BY <1>2 DEF t
<1> QED
  BY <1>1, <1>3, <1>4, <1>5, <1>6

LEMMA HandlerAccount ==
    ASSUME Account, Marks, NEW args \in Arguments, NEW msg \in Messages, handler(args, msg)
    PROVE  Account' /\ UNCHANGED Message!vars
<1>1. /\ pc = "content" /\ pc' = "send" /\ UNCHANGED <<conf, chain, wire, kinds>>
      /\ echo(args, msg) \/ refuse
  BY DEF handler
<1>2. Unsent
  BY <1>1 DEF Marks
<1>3. args \in Nat /\ msg \in Nat /\ PageSize \in Nat \ {0}
  BY EchoAssumption
<1>4. CASE echo(args, msg)
  <2> DEFINE n == msg + IF args > 0 THEN args + 1 ELSE 0
             t == echoCalls(args, msg)
  <2>1. req' = [req EXCEPT ![Main].length = n] /\ todo' = t
    BY <1>4 DEF echo
  <2>2. n \in Nat \cup {Undeclared}
    BY <1>3
  <2>3. t[1].r = Main /\ Amounts(t, n) /\ (n > 0 \/ Stuck(t))
    BY <1>3, EchoAmounts
  <2> HIDE DEF n, t
  <2>4. req'[Main].flag = 0 /\ req'[Main].header_sent = FALSE /\ req'[Main].length = n
    BY <1>2, <2>1, <2>2, DeclaredIs
  <2> QED
    BY <1>1, <2>1, <2>3, <2>4, StartAccount
<1>5. CASE refuse
  <2>1. req' = [req EXCEPT ![Main].length = PageSize] /\ errorPage
    BY <1>5 DEF refuse
  <2>2. req'[Main].flag = 0 /\ req'[Main].header_sent = FALSE /\ req'[Main].length = PageSize
    BY <1>2, <1>3, <2>1, DeclaredIs
  <2>3. todo'[1].r = Main /\ Amounts(todo', PageSize) /\ PageSize > 0
    BY <2>1, ErrorPageAmounts
  <2>4. UNCHANGED <<conf, wire>>
    BY <1>1
  <2> QED
    BY <1>1, <2>2, <2>3, <2>4, StartAccount
<1> QED
  BY <1>1, <1>4, <1>5

LEMMA ServeAccount ==
    ASSUME Account, Marks, WithFooter = {}, NEW n \in Bodies, serve(n)
    PROVE  Account' /\ UNCHANGED Message!vars
<1>1. /\ pc = "content" /\ pc' = "send" /\ UNCHANGED <<conf, chain, page, wire, kinds>>
      /\ n = 0 => conf.footer = 0
  BY DEF serve, May
<1>2. PICK b \in Bodied(n), len \in {n, Undeclared}, together \in BOOLEAN :
        /\ todo' = Calls(Main, IF together THEN <<b>> ELSE [i \in DOMAIN b |-> <<b[i]>>])
        /\ req' = [req EXCEPT ![Main].length = len]
  BY DEF serve
<1>3. Unsent /\ n \in Nat
  BY <1>1, EchoAssumption DEF Marks
<1>4. b \in Seq(Buffers) /\ Ending(b) /\ Weighs(b, n)
  BY <1>3, BodiedAre, BodiedWeighs
<1>5. req'[Main].flag = 0 /\ req'[Main].header_sent = FALSE /\ req'[Main].length = len
  BY <1>2, <1>3, DeclaredIs
<1>6. todo'[1].r = Main /\ Amounts(todo', n)
  <2>1. CASE together
    <3>1. todo' = Calls(Main, <<b>>)
      BY <1>2, <2>1
    <3>2. todo'[1] = [r |-> Main, chain |-> b] /\ Amounts(todo', n)
      BY <1>3, <1>4, <3>1, AmountsOne
    <3> QED
      BY <3>2
  <2>2. CASE ~together
    BY <1>2, <1>4, <2>2, SplitAmounts
  <2> QED
    BY <2>1, <2>2
<1>7. len # Undeclared => len = n
  BY <1>2
<1>8. conf.footer > 0 => n > 0
  BY <1>1, <1>3
<1> QED
  BY <1>1, <1>5, <1>6, <1>7, <1>8, StartAccount

LEMMA SubrequestAccount ==
    ASSUME Account, Marks, NEW n \in Bodies, subrequest(n)
    PROVE  Account' /\ UNCHANGED Message!vars
<1>1. /\ pc = "content" /\ pc' = "send" /\ UNCHANGED <<conf, chain, page, wire, kinds>>
      /\ req' = [req EXCEPT ![Sub].length = n]
  BY DEF subrequest
<1>2. Unsent /\ n \in Nat /\ Main # Sub
  BY <1>1, EchoAssumption DEF Marks, Main, Sub
<1>3. /\ req'[Main].flag = 0 /\ req'[Main].header_sent = FALSE
      /\ req'[Main].length = Undeclared
  <2>1. req'[Main] = req[Main]
    BY <1>1, <1>2, DeclaredIs
  <2>2. req[Main].length = Undeclared
    BY <1>2 DEF Unsent, FreshRequest
  <2> QED
    BY <1>1, <1>2, <2>1, <2>2, DeclaredIs
<1>4. todo'[1].r = Main
  <2> DEFINE a == Calls(Main, <<<<Content(n)>>>>)
             chs == <<<<Content(n)>>, <<special("lic")>>>>
             lic == [Content(n) EXCEPT !.lic = TRUE]
             s == Calls(Sub, chs)
             t == Calls(Sub, <<<<lic>>>>)
             e == Calls(Main, <<<<special("last")>>>>)
  <2>1. todo' = (a \o s) \o e \/ todo' = (a \o t) \o e
    BY DEF subrequest
  <2>2. /\ Content(n) \in Buffers /\ special("lic") \in Buffers /\ special("last") \in Buffers
        /\ Main \in {Main, Sub} /\ Sub \in {Main, Sub}
    BY <1>2, BuffersAre
  <2>3. a \in Seq(CallsOf) /\ a # <<>> /\ a[1] = [r |-> Main, chain |-> <<Content(n)>>]
    BY <2>2, AmountsOneBuffer
  <2>4. s \in Seq(CallsOf)
    <3>1. chs \in Seq(Seq(Buffers))
      BY <2>2
    <3> HIDE DEF chs
    <3> QED
      BY <2>2, <3>1, CallsAre
  <2>5. t \in Seq(CallsOf)
    <3>1. lic \in Buffers
      BY <1>2, <2>2 DEF Buffers
    <3> HIDE DEF lic
    <3> QED
      BY <2>2, <3>1, AmountsOneBuffer
  <2>6. e \in Seq(CallsOf)
    BY <2>2, AmountsOneBuffer
  <2> HIDE DEF a, s, t, e
  <2>7. /\ a \o s \in Seq(CallsOf) /\ a \o s # <<>> /\ (a \o s)[1] = a[1]
        /\ a \o t \in Seq(CallsOf) /\ a \o t # <<>> /\ (a \o t)[1] = a[1]
    BY <2>3, <2>4, <2>5, FirstOfConcat, ConcatProperties
  <2>8. todo'[1] = a[1]
    BY <2>1, <2>6, <2>7, FirstOfConcat
  <2> QED
    BY <2>3, <2>8
<1> QED
  BY <1>1, <1>3, <1>4, StartAccount

LEMMA LoseAccount ==
    ASSUME Account, Typed, lose, UNCHANGED req
    PROVE  Account' /\ Message!Lose
<1>1. wire' = [declared |-> wire.declared, sent |-> wire.sent,
               ended |-> wire.ended, lost |-> TRUE]
  BY LostIs
<1>2. pc' = "done"
  BY DEF lose
<1>3. Message!Lose
  BY <1>1 DEF Message!Lose
<1>4. ~req[Main].header_sent => wire'.declared = NoHeader /\ wire'.sent = 0
  BY <1>1 DEF Account
<1> QED
  BY <1>2, <1>3, <1>4 DEF Account

\* The header of the response is put on the wire.
LEMMA PassesAccount ==
    ASSUME Account, Marks, Linked, pc = "send", todo # <<>>, ~req[Main].header_sent,
           headerPasses(Main), UNCHANGED <<conf, chain>>
    PROVE  Account' /\ Message!Header
<1> DEFINE q == headerFiltered(Main)
           l == req[Main].length
           f == conf.footer
<1>1. /\ Typed /\ chain = <<>> /\ Filtered("header") /\ Main \in {Main, Sub}
  BY LinkedFilters DEF Marks
<1>2. /\ req'[Main].header_sent = TRUE
      /\ wire' = [declared |-> q.length, sent |-> wire.sent,
                  ended |-> wire.ended, lost |-> wire.lost]
  BY <1>1, PassedIs
<1>3. /\ q \in Requests
      /\ q.length = IF req[Main].flag = 0 /\ f > 0 /\ l > 0 THEN l + f ELSE l
  <2>1. footer(Main) = f
    BY DEF footer
  <2> QED
    BY <1>1, <2>1, HeaderFilteredIs
<1>4. f \in Nat /\ l \in Nat \cup {Undeclared}
  BY <1>1 DEF Typed, Confs, Requests
<1>5. /\ wire.declared = NoHeader /\ wire.sent = 0 /\ ~wire.lost /\ ~wire.ended
      /\ todo[1].r = Main /\ Planned
  BY DEF Account
<1>6. pc' = "send" /\ todo' = todo /\ conf' = conf /\ chain' = <<>>
  BY <1>1 DEF headerPasses
<1> DEFINE n == q.length
<1>7. n \in Nat \cup {Undeclared}
  BY <1>3 DEF Requests
<1>8. l # Undeclared => Amounts(todo, l) /\ (f > 0 => req[Main].flag = 0 /\ (l > 0 \/ Stuck(todo)))
  BY <1>5 DEF Planned
<1>9. n # NoHeader
  BY <1>7 DEF NoHeader, Undeclared
<1> HIDE DEF q
<1>10. n = Undeclared \/ Stuck(todo) \/ (Amounts(todo, l) /\ l \in Nat /\ n = l + f)
  BY <1>3, <1>4, <1>8 DEF Undeclared
<1>11. ASSUME Amounts(todo, l), l \in Nat, n = l + f
       PROVE  Balanced'
  <2>1. Weighs(chain', 0) /\ Amounts(todo', l) /\ todo' # <<>>
    BY <1>6, <1>11, WeighsEmpty
  <2>2. wire'.declared = n /\ wire'.sent = 0
    BY <1>2, <1>5
  <2>3. wire'.declared = wire'.sent + 0 + l + IF todo' # <<>> THEN conf'.footer ELSE 0
    BY <1>4, <1>6, <1>11, <2>1, <2>2
  <2> QED
    BY <1>11, <2>1, <2>3 DEF Balanced
<1>12. /\ wire'.declared = n /\ wire'.sent = wire.sent /\ wire'.ended = wire.ended
       /\ wire'.lost = wire.lost
  BY <1>2
<1> HIDE DEF n, l, f
<1>13. wire'.declared = Undeclared \/ Stuck(todo') \/ Balanced'
  BY <1>6, <1>10, <1>11, <1>12
<1>14. Account'
  BY <1>2, <1>5, <1>6, <1>9, <1>12, <1>13, Zenon DEF Account
<1>15. Message!Header
  BY <1>5, <1>7, <1>12 DEF Message!Header
<1> QED
  BY <1>14, <1>15

LEMMA SendAccount ==
    ASSUME Account, Marks, Linked, WithFooter = {}, send
    PROVE  Account' /\ [Message!Next]_Message!vars
<1> DEFINE r == Head(todo).r
<1>1. /\ pc = "send" /\ todo # <<>> /\ ~req[r].header_sent
      /\ \/ headerPasses(r)
         \/ headerRefused(r)
         \/ lose /\ UNCHANGED <<req, todo, page>>
      /\ UNCHANGED <<conf, chain, kinds>>
  BY DEF send
<1>2. /\ Typed /\ Filtered("header") /\ Main # Sub
  BY <1>1, LinkedFilters DEF Marks, Main, Sub
<1>3. r \in {Main, Sub} /\ r = todo[1].r
  <2>1. Head(todo) \in CallsOf /\ Head(todo) = todo[1]
    BY <1>1, <1>2, HeadTailProperties, EmptySeq DEF Typed
  <2> QED
    BY <2>1 DEF CallsOf
<1> HIDE DEF r
<1>4. ~req[Main].header_sent => r = Main /\ Planned
  BY <1>1, <1>3 DEF Account
<1>5. CASE headerPasses(r) /\ r = Main
  <2>1. Account' /\ Message!Header
    BY <1>1, <1>5, PassesAccount
  <2> QED
    BY <2>1 DEF Message!Next
<1>6. CASE headerPasses(r) /\ r # Main
  <2>1. req'[Main] = req[Main] /\ wire' = wire
    BY <1>2, <1>3, <1>6, PassedIs
  <2>2. req[Main].header_sent /\ pc' = pc /\ todo' = todo /\ conf' = conf /\ chain' = chain
    BY <1>1, <1>4, <1>6 DEF headerPasses
  <2>3. Stuck(todo)' = Stuck(todo) /\ Balanced' = Balanced
    BY <2>1, <2>2 DEF Stuck, Balanced, Blocked
  <2>4. Account'
    BY <1>1, <2>1, <2>2, <2>3 DEF Account
  <2> QED
    BY <2>1, <2>4 DEF Message!vars
<1>7. CASE headerRefused(r)
  <2>1. /\ r = Main /\ headerRefused(Main) /\ errorPage /\ UNCHANGED <<pc, wire>>
        /\ conf.footer = 0
    BY <1>7 DEF headerRefused, May
  <2>2. /\ req'[Main].header_sent = headerFiltered(Main).header_sent
        /\ req'[Main].length = PageSize
    BY <1>2, <2>1, RefusedIs
  <2>3. headerFiltered(Main).header_sent = req[Main].header_sent
    BY <1>2, HeaderFilteredIs
  <2>4. todo'[1].r = Main /\ Amounts(todo', PageSize)
    BY <2>1, ErrorPageAmounts
  <2>5. Planned'
    BY <1>1, <2>1, <2>2, <2>4 DEF Planned
  <2>6. ~req[Main].header_sent /\ ~req'[Main].header_sent
    BY <1>1, <2>1, <2>2, <2>3
  <2>7. /\ wire.declared = NoHeader /\ wire.sent = 0 /\ ~wire.lost /\ ~wire.ended
    BY <1>1, <2>6 DEF Account
  <2>8. Account'
    BY <1>1, <2>1, <2>4, <2>5, <2>6, <2>7 DEF Account
  <2> QED
    BY <2>1, <2>8 DEF Message!vars
<1>8. CASE lose /\ UNCHANGED <<req, todo, page>>
  <2>1. Account' /\ Message!Lose
    BY <1>2, <1>8, LoseAccount
  <2> QED
    BY <2>1 DEF Message!Next
<1> QED
  BY <1>1, <1>5, <1>6, <1>7, <1>8

\* The body filters: the bytes move from the calls to the chain, with the footer at the end.
LEMMA OutputAccount ==
    ASSUME Account, Marks, Linked, output
    PROVE  Account' /\ UNCHANGED Message!vars
<1> DEFINE x == todo[1]
           u == Tail(todo)
           f == conf.footer
<1>1. /\ todo # <<>> /\ x \in CallsOf /\ todo' = u /\ pc' = "write"
      /\ req[x.r].header_sent
      /\ \A y \in {Main, Sub} : req'[y].header_sent = req[y].header_sent
      /\ u = <<>> =>
           /\ Ending(x.chain) /\ req[Main].flag = 1
           /\ chain' = bodyChain(req[Main], f, x.chain, conf.legacy)
      /\ u # <<>> => chain' = x.chain
  BY OutputIs, Zenon
<1>2. pc = "send" /\ conf' = conf /\ wire' = wire
  BY DEF output
<1>3. Typed /\ chain = <<>>
  BY <1>2 DEF Marks
<1>4. f \in Nat /\ conf.legacy \in BOOLEAN /\ todo \in Seq(CallsOf) /\ wire.sent \in Nat
  BY <1>3 DEF Typed, Confs
<1> HIDE DEF u, x, f
<1>5. x.chain \in Seq(Buffers) /\ x.r \in {Main, Sub}
  BY <1>1 DEF CallsOf
<1>6. req[Main].header_sent /\ req'[Main].header_sent
  <2>1. ~req[Main].header_sent => x.r = Main
    BY <1>2 DEF Account, x
  <2> QED
    BY <1>1, <2>1
<1>7. /\ ~wire.lost /\ ~wire.ended /\ wire.declared # NoHeader
      /\ wire.declared = Undeclared \/ Stuck(todo) \/ Balanced
  BY <1>2, <1>6, Zenon DEF Account
<1>8. ASSUME Stuck(todo)
      PROVE  Blocked(chain')
  <2>1. u # <<>> /\ Blocked(x.chain)
    BY <1>8 DEF Stuck, u, x
  <2> QED
    BY <1>1, <2>1
<1>9. ASSUME Balanced
      PROVE  Balanced'
  <2>1. PICK a \in Nat, b \in Nat :
            /\ Weighs(chain, a) /\ Amounts(todo, b)
            /\ wire.declared = wire.sent + a + b + IF todo # <<>> THEN f ELSE 0
    BY <1>9 DEF Balanced, f
  <2>2. a = 0
    BY <1>3, <2>1, WeighsEmpty
  <2>3. wire.declared = wire.sent + b + f
    BY <1>1, <1>4, <2>1, <2>2
  <2>4. PICK m \in Nat : m <= b /\ Weighs(x.chain, m) /\ Amounts(u, b - m)
    BY <1>1, <1>4, <2>1, AmountsTail DEF x, u
  <2>5. b - m \in Nat
    BY <2>4
  <2>6. CASE u # <<>>
    <3>1. Weighs(chain', m) /\ Amounts(todo', b - m) /\ todo' # <<>>
      BY <1>1, <2>4, <2>6
    <3>2. wire'.declared
            = wire'.sent + m + (b - m) + IF todo' # <<>> THEN conf'.footer ELSE 0
      BY <1>2, <1>4, <2>3, <2>5, <3>1 DEF f
    <3> QED
      BY <2>5, <3>1, <3>2 DEF Balanced
  <2>7. CASE u = <<>>
    <3>1. FooterAdded(x.chain, f, chain')
      BY <1>1, <1>4, <1>5, <2>7, BodyCloses
    <3>2. x.chain # <<>>
      BY <1>1, <2>7 DEF Ending
    <3>3. Weighs(chain', m + f)
      BY <1>4, <1>5, <2>4, <3>1, <3>2, WeighsFooter
    <3>4. Amounts(todo', b - m) /\ todo' = <<>>
      BY <1>1, <2>4, <2>7
    <3>5. wire'.declared
            = wire'.sent + (m + f) + (b - m) + IF todo' # <<>> THEN conf'.footer ELSE 0
      BY <1>2, <1>4, <2>3, <2>5, <3>4
    <3>6. m + f \in Nat
      BY <1>4
    <3> QED
      BY <2>5, <3>3, <3>4, <3>5, <3>6 DEF Balanced
  <2> QED
    BY <2>6, <2>7
<1>10. Account'
  BY <1>1, <1>2, <1>6, <1>7, <1>8, <1>9, Zenon DEF Account
<1> QED
  BY <1>2, <1>10 DEF Message!vars

\* The writer: a buffer's bytes are on the wire, and with the last one nothing is left.
LEMMA WriteAccount ==
    ASSUME Account, Marks, write
    PROVE  Account' /\ [Message!Next]_Message!vars
<1>1. CASE lose /\ UNCHANGED <<conf, req, todo, chain, page, kinds>>
  <2>1. Typed
    BY DEF Marks
  <2>2. Account' /\ Message!Lose
    BY <1>1, <2>1, LoseAccount
  <2> QED
    BY <2>2 DEF Message!Next
<1>2. CASE WritesHead
  <2> DEFINE b == chain[1]
             u == Tail(chain)
             f == conf.footer
             w == wire.sent
  <2>1. /\ pc = "write" /\ chain # <<>> /\ b \in Buffers
        /\ b.size > 0 \/ b.kind = "special"
        /\ wire' = [declared |-> wire.declared, sent |-> w + b.size,
                    ended |-> wire.ended \/ b.last, lost |-> wire.lost]
        /\ chain' = u
        /\ pc' = IF chain' # <<>> THEN pc
                 ELSE IF todo = <<>> THEN "done" ELSE "send"
        /\ UNCHANGED <<conf, req, todo>>
    BY <1>2 DEF WritesHead
  <2>2. Typed /\ Awaited /\ (IF todo = <<>> THEN Ended(chain) ELSE Plain(chain))
    BY <2>1 DEF Marks
  <2>3. chain \in Seq(Buffers) /\ todo \in Seq(CallsOf) /\ f \in Nat /\ w \in Nat
    BY <2>2 DEF Typed, Confs
  <2>4. /\ u \in Seq(Buffers)
        /\ todo # <<>> \/ u # <<>> => ~b.last
        /\ todo = <<>> /\ u = <<>> => b.last
    BY <2>1, <2>2, <2>3, TailIs
  <2>5. req[Main].header_sent
    BY <2>1 DEF Account
  <2>6. /\ ~wire.lost /\ ~wire.ended /\ wire.declared # NoHeader
        /\ wire.declared = Undeclared \/ Blocked(chain) \/ Balanced
    BY <2>1, <2>5, Zenon DEF Account
  <2>7. ~Blocked(chain)
    BY <2>1 DEF Blocked
  <2>8. /\ wire'.declared = wire.declared /\ wire'.sent = w + b.size
        /\ wire'.ended = b.last /\ wire'.lost = wire.lost
    <3>1. b.last \in BOOLEAN
      BY <2>1 DEF Buffers
    <3> QED
      BY <2>1, <2>6, <3>1
  <2>9. b.size \in Nat /\ b.last \in BOOLEAN /\ wire.ended \in BOOLEAN
    BY <2>1, <2>2 DEF Buffers, Typed
  <2> HIDE DEF b, u, f, w
  <2>10. ASSUME Balanced
         PROVE  /\ Balanced'
                /\ w + b.size <= wire.declared
                /\ b.last => wire.declared = w + b.size
    <3>1. PICK c \in Nat, d \in Nat :
              /\ Weighs(chain, c) /\ Amounts(todo, d)
              /\ wire.declared = w + c + d + IF todo # <<>> THEN f ELSE 0
      BY <2>10 DEF Balanced, w, f
    <3>2. b.size <= c /\ Weighs(u, c - b.size)
      BY <2>1, <2>3, <3>1, WeighsTail DEF b, u
    <3>3. c - b.size \in Nat
      BY <2>9, <3>2
    <3>4. wire'.declared
            = wire'.sent + (c - b.size) + d + IF todo' # <<>> THEN conf'.footer ELSE 0
      BY <2>1, <2>3, <2>8, <2>9, <3>1, <3>3 DEF f
    <3>5. Balanced'
      BY <2>1, <3>1, <3>2, <3>3, <3>4 DEF Balanced
    <3>6. w + b.size <= wire.declared
      BY <2>3, <2>9, <3>1, <3>2
    <3>7. ASSUME b.last
          PROVE  wire.declared = w + b.size
      <4>1. todo = <<>> /\ u = <<>>
        BY <2>4, <3>7
      <4>2. d = 0 /\ c - b.size = 0
        BY <3>1, <3>2, <4>1, AmountsEmpty, WeighsEmpty
      <4> QED
        BY <2>3, <2>9, <3>1, <4>1, <4>2
    <3> QED
      BY <3>5, <3>6, <3>7
  <2>11. Account'
    <3>1. pc' # "done" => ~b.last
      BY <2>1, <2>4
    <3>2. pc' = "send" => todo # <<>> /\ u = <<>>
      BY <2>1
    <3>3. wire'.declared = Undeclared \/ Balanced'
      BY <2>6, <2>7, <2>8, <2>10
    <3>4. req'[Main].header_sent
      BY <2>1, <2>5
    <3> QED
      BY <2>6, <2>8, <3>1, <3>3, <3>4 DEF Account
  <2>12. \/ wire.declared = Undeclared
         \/ w + b.size <= wire.declared /\ (b.last => wire.declared = w + b.size)
    BY <2>6, <2>7, <2>10
  <2>13. w + b.size \in Nat /\ w + b.size >= w
    BY <2>3, <2>9
  <2>14. CASE b.last
    <3>1. wire'.ended = TRUE
      <4>1. b.last = TRUE
        BY <2>9, <2>14, Zenon
      <4> QED
        BY <2>8, <4>1, Zenon
    <3>2. wire.declared \in {Undeclared, wire'.sent}
      BY <2>8, <2>12, <2>14, Zenon
    <3>3. wire'.sent \in Nat /\ wire'.sent >= wire.sent
      BY <2>8, <2>13 DEF w
    <3>4. wire'.declared = wire.declared /\ wire'.lost = wire.lost
      BY <2>8
    <3>5. Message!Last
      BY <2>6, <3>1, <3>2, <3>3, <3>4, Zenon DEF Message!Last
    <3> QED
      BY <2>11, <3>5 DEF Message!Next
  <2>15. CASE ~b.last
    <3>1. wire'.ended = wire.ended
      <4>1. b.last = FALSE /\ wire.ended = FALSE
        BY <2>6, <2>9, <2>15, Zenon
      <4> QED
        BY <2>8, <4>1, Zenon
    <3>2. wire.declared = Undeclared \/ wire'.sent <= wire.declared
      BY <2>8, <2>12, Zenon
    <3>3. wire'.sent \in Nat /\ wire'.sent >= wire.sent
      BY <2>8, <2>13 DEF w
    <3>4. wire'.declared = wire.declared /\ wire'.lost = wire.lost
      BY <2>8
    <3>5. Message!Piece
      BY <2>6, <3>1, <3>2, <3>3, <3>4, Zenon DEF Message!Piece, Message!Fits
    <3> QED
      BY <2>11, <3>5 DEF Message!Next
  <2> QED
    BY <2>14, <2>15
<1> QED
  BY <1>1, <1>2, WriteIs

LEMMA RegisterAccount ==
    ASSUME Account, Marks, NEW ks \in SUBSET Kinds, register(ks)
    PROVE  Account' /\ UNCHANGED Message!vars
<1>1. /\ pc = "config" /\ pc' \in {"config", "content"}
      /\ UNCHANGED <<conf, req, todo, chain, wire>>
  BY DEF register
<1>2. ~req[Main].header_sent
  BY <1>1, FreshIs DEF Marks
<1>3. Account'
  BY <1>1, <1>2 DEF Account
<1> QED
  BY <1>1, <1>3 DEF Message!vars

LEMMA StutterAccount ==
    ASSUME Account, UNCHANGED vars
    PROVE  Account' /\ UNCHANGED Message!vars
<1>1. UNCHANGED <<conf, req, pc, todo, chain, wire>>
  BY DEF vars
<1>2. Account'
  BY <1>1 DEF Account, Planned, Balanced, Stuck, Blocked
<1> QED
  BY <1>1, <1>2 DEF Message!vars

LEMMA StepsFramed ==
    ASSUME WithFooter = {}
    PROVE  Account /\ Marks /\ Linked /\ [Next]_vars => Account' /\ [Message!Next]_Message!vars
<1> SUFFICES ASSUME Account, Marks, Linked, [Next]_vars
             PROVE  Account' /\ [Message!Next]_Message!vars
  OBVIOUS
<1> QED
  BY RegisterAccount, HandlerAccount, ServeAccount, SubrequestAccount, SendAccount,
     OutputAccount, WriteAccount, StutterAccount DEF Next

LEMMA InitAccount == Init => Account /\ Message!Init
<1> SUFFICES ASSUME Init PROVE Account /\ Message!Init
  OBVIOUS
<1>1. wire = [declared |-> NoHeader, sent |-> 0, ended |-> FALSE, lost |-> FALSE]
  BY DEF Init
<1>2. pc = "config" /\ req[Main].header_sent = FALSE
  <2>1. Main \in {Main, Sub} /\ FreshRequest.header_sent = FALSE
    BY DEF FreshRequest
  <2> QED
    BY <2>1 DEF Init
<1>3. Account
  BY <1>1, <1>2 DEF Account
<1>4. Message!Init
  BY <1>1 DEF Message!Init
<1> QED
  BY <1>3, <1>4

\* Whatever lengths, filters and bodies, what the client gets is a well-formed message:
\* the length that header_filter of NdgFilterHandler.hpp declares is the number of bytes
\* that do_body_filter and the writer let through, the footer among them, and the end
\* comes once, with nothing after it.  The situations of WithFooter are kept out: in each
\* of them the module and nginx disagree.
THEOREM EchoWellFramed ==
    ASSUME WithFooter = {}
    PROVE  Spec => WellFramed
<1>1. Init => Account /\ Marks /\ Linked /\ Message!Init
  BY InitAccount, InitMarks, InitLinked
<1>2. (Marks /\ Linked) /\ [Next]_vars => (Marks /\ Linked)'
  <2>1. "subrequest" \notin WithFooter
    OBVIOUS
  <2> QED
    BY <2>1, MarksKept, LinkedKept
<1>3. Account /\ Marks /\ Linked /\ [Next]_vars => Account' /\ [Message!Next]_Message!vars
  BY StepsFramed
<1> QED
  BY <1>1, <1>2, <1>3, PTL DEF Spec, WellFramed, Message!Spec

===============================================================================
