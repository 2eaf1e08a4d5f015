------------------------------- MODULE NgxChain ------------------------------
(***************************************************************************)
(* NgxChain.hpp: chains of buffers, whose links come from NgxPool::chain   *)
(* and go back to a list in the pool, which links them by the same field.  *)
(* A chain that is appended to another is from then on part of that.       *)
(***************************************************************************)
EXTENDS Naturals, Sequences, FiniteSets

CONSTANTS
    Chains,
    MaxLinks,    \* bound: the links that the pool makes before it fails
    None

Links == 1..MaxLinks

VARIABLES
    next,        \* of each link
    head,        \* of each chain; None if there is none
    spare,       \* the first link in the pool's list
    links,       \* how many were made
    freeing,     \* the run of NgxChain::free: chain, where it is, where it stops
    mine,        \* ghost: the links of each chain
    freed        \* ghost: those that are in the pool's list

vars == <<next, head, spare, links, freeing, mine, freed>>

Init ==
    /\ next = [n \in Links |-> None]
    /\ head = [c \in Chains |-> None]
    /\ spare = None
    /\ links = 0
    /\ freeing = None
    /\ mine = [c \in Chains |-> <<>>]
    /\ freed = <<>>

\* The links from one on; more than MaxLinks would be a circle.
Walk[x \in (0..(MaxLinks + 1)) \X (Links \cup {None})] ==
    IF x[1] = 0 \/ x[2] \in {None} THEN <<>> ELSE <<x[2]>> \o Walk[<<x[1] - 1, next[x[2]]>>]
From(n) == Walk[<<MaxLinks + 1, n>>]

\* NgxChain::tail and trace, which end at the link that has no next; there must be
\* one, since they look at the first without asking.
tail(c) == From(head[c])[Len(From(head[c]))]

\* NgxPool::chain: the first spare link, or a new one.
alloc(n) ==
    \/ /\ spare # None
       /\ n = spare
       /\ spare' = next[n]
       /\ freed' = Tail(freed)
       /\ UNCHANGED links
    \/ /\ spare = None
       /\ links < MaxLinks
       /\ n = links + 1
       /\ links' = n
       /\ UNCHANGED <<spare, freed>>

\* A chain of one link is made, or one is put at the end of a chain.
chain(c) ==
    /\ freeing = None
    /\ head[c] = None
    /\ \E n \in Links :
        /\ alloc(n)
        /\ next' = [next EXCEPT ![n] = None]
        /\ head' = [head EXCEPT ![c] = n]
        /\ mine' = [mine EXCEPT ![c] = <<n>>]
    /\ UNCHANGED freeing

append(c, d) ==
    /\ freeing = None
    /\ c # d
    /\ head[c] # None
    /\ next' = [next EXCEPT ![tail(c)] = head[d]]
    /\ head' = [head EXCEPT ![d] = None]
    /\ mine' = [mine EXCEPT ![c] = @ \o mine[d], ![d] = <<>>]
    /\ UNCHANGED <<spare, links, freeing, freed>>

\* NgxChain::free, up to a link, which becomes the head of the chain.
free(c, pos) ==
    /\ freeing = None
    /\ head[c] # None
    /\ pos = None \/ \E i \in DOMAIN mine[c] : mine[c][i] = pos
    /\ freeing' = [chain |-> c, iter |-> head[c], pos |-> pos]
    /\ UNCHANGED <<next, head, spare, links, mine, freed>>

\* Mutant: the link is given back before its next is read.
giveBackFirst(cur) ==
    /\ next' = [next EXCEPT ![cur] = spare]
    /\ freeing' = [freeing EXCEPT !.iter = next'[cur]]

\* NgxChainNode::free: ngx_free_chain, after the iterator has moved on.
giveBack(cur) ==
    /\ freeing' = [freeing EXCEPT !.iter = next[cur]]
    /\ next' = [next EXCEPT ![cur] = spare]

frees ==
    /\ freeing # None
    /\ LET cur == freeing.iter IN
       IF cur \notin {None, freeing.pos}
       THEN /\ giveBack(cur)
            /\ spare' = cur
            /\ freed' = <<cur>> \o freed
            /\ UNCHANGED <<head, links, mine>>
       ELSE /\ freeing' = None
            /\ head' = [head EXCEPT ![freeing.chain] = freeing.pos]
            /\ mine' = [mine EXCEPT ![freeing.chain] = From(freeing.pos)]
            /\ UNCHANGED <<next, spare, links, freed>>

Next ==
    \/ \E c \in Chains : chain(c)
    \/ \E c, d \in Chains : append(c, d)
    \/ \E c \in Chains, pos \in Links \cup {None} : free(c, pos)
    \/ frees

Spec == Init /\ [][Next]_vars

-------------------------------------------------------------------------------

Places(n) ==
    {p \in Chains \X Links : p[2] <= Len(From(head[p[1]])) /\ From(head[p[1]])[p[2]] = n}
    \cup {<<None, i>> : i \in {j \in DOMAIN From(spare) : From(spare)[j] = n}}

\* Every link that was ever made is in one chain or in the pool's list, and there
\* once, and each chain ends: links that are taken, appended, given back and taken
\* again never join two chains, or close one to a circle.
NoneTwice ==
    freeing = None =>
        /\ \A c \in Chains : From(head[c]) = mine[c]
        /\ From(spare) = freed
        /\ \A n \in 1..links : Cardinality(Places(n)) = 1

===============================================================================
