------------------------------- MODULE NgxList -------------------------------
(***************************************************************************)
(* NgxList.hpp and NgxHeaders.hpp: the list of a request's headers, and    *)
(* that of a subrequest, which NgxSubRequest::create gets as a copy.       *)
(*                                                                         *)
(* A list is a row of parts.  The first stands in the list itself, so that *)
(* a copy of a list has one of its own; the cells that hold the elements,  *)
(* and the further parts, are memory of the pool, which copies share.      *)
(***************************************************************************)
EXTENDS Naturals, Sequences

CONSTANTS
    Main, Sub,   \* the request and its subrequest, and their lists and first parts
    Keys,        \* the names of headers
    Nalloc,      \* the cells of a part
    MaxBlocks,   \* bound: the blocks of cells the pool gives before it fails
    MaxCalls,    \* bound: the calls that are made
    None         \* no part, no header, no visit

Lists == {Main, Sub}
Other(l) == IF l = Main THEN Sub ELSE Main
Parts == Lists \cup (1..MaxBlocks)

VARIABLES
    part,        \* each part: its block, how many of the cells it uses, the next
    last,        \* each list's last part
    cells,       \* the cells of each block
    blocks,      \* how many blocks there are
    calls,       \* how many calls were made
    visit,       \* the visit or merge that runs
    copied,      \* whether the subrequest has been made
    own,         \* ghost: what each list was given, whoever else wrote
    tied,        \* ghost: the lists still have a block in common
    wrote,       \* ghost: who wrote while they were tied
    plain        \* ghost: Sub began as one part, and was only pushed to

vars == <<part, last, cells, blocks, calls, visit, copied, own, tied, wrote, plain>>
ghosts == <<own, tied, wrote, plain>>

Header(k, by) == [key |-> k, by |-> by, hash |-> 1]
Fresh(b) == [elts |-> b, nelts |-> 0, next |-> None]

\* NgxList's constructor takes a list with one empty part from the pool.
Init ==
    /\ part = [p \in Parts |-> Fresh(1)]
    /\ last = [l \in Lists |-> l]
    /\ cells = [b \in 1..MaxBlocks |-> [i \in 1..Nalloc |-> None]]
    /\ blocks = 1
    /\ calls = 0
    /\ visit = None
    /\ copied = FALSE
    /\ own = [l \in Lists |-> <<>>]
    /\ tied = FALSE
    /\ wrote = {}
    /\ plain = FALSE

InUse(l) == l = Main \/ copied
Call(l) ==
    /\ visit = None
    /\ InUse(l)
    /\ calls < MaxCalls
    /\ calls' = calls + 1

Wrote(l) == wrote' = IF tied THEN wrote \cup {l} ELSE wrote

-------------------------------------------------------------------------------
\* Reading.

\* NgxListIterator: where it is, whether that is valid, and one step on.
begin(l) == [part |-> l, data |-> part[l].elts, count |-> 0]
valid(it) == it.part # None /\ it.data # None /\ part[it.part].nelts > 0
dereference(it) == cells[it.data][it.count + 1]

\* Mutant: the iterator goes on before the callback is called.
incrementBefore(ps, it) ==
    IF it.count + 1 < part[it.part].nelts THEN [it EXCEPT !.count = @ + 1]
    ELSE LET n == part[it.part].next
         IN  [part |-> n, data |-> IF n = None THEN None ELSE part[n].elts, count |-> 0]

increment(ps, it) ==
    IF it.count + 1 < ps[it.part].nelts THEN [it EXCEPT !.count = @ + 1]
    ELSE LET n == ps[it.part].next
         IN  [part |-> n, data |-> IF n = None THEN None ELSE ps[n].elts, count |-> 0]

\* The cells from a part on, and the headers in those of a list.
From[p \in Parts \cup {None}] ==
    IF p = None THEN <<>>
    ELSE [i \in 1..part[p].nelts |-> <<part[p].elts, i>>] \o From[part[p].next]

Held(c) == cells[c[1]][c[2]]
Contents(l) == [i \in DOMAIN From[l] |-> Held(From[l][i])]

-------------------------------------------------------------------------------
\* Writing.

\* NgxList::prepare and push: into the last part, or a new one.
put(l, x) ==
    LET p == part[last[l]]
    IN  IF p.nelts < Nalloc
        THEN /\ cells' = [cells EXCEPT ![p.elts][p.nelts + 1] = x]
             /\ part' = [part EXCEPT ![last[l]].nelts = @ + 1]
             /\ UNCHANGED <<last, blocks>>
        ELSE LET n == blocks + 1
             IN  /\ blocks < MaxBlocks
                 /\ blocks' = n
                 /\ cells' = [cells EXCEPT ![n][1] = x]
                 /\ part' = [part EXCEPT ![last[l]].next = n,
                                         ![n] = [Fresh(n) EXCEPT !.nelts = 1]]
                 /\ last' = [last EXCEPT ![l] = n]

\* NgxHeaders::add: a header without a hash, as one that was removed, gets one.
add(l, h) ==
    /\ put(l, [h EXCEPT !.hash = 1])
    /\ own' = [own EXCEPT ![l] = Append(@, [h EXCEPT !.hash = 1])]
    /\ Wrote(l)
    /\ UNCHANGED <<visit, copied, tied, plain>>

push(l, k) == Call(l) /\ add(l, Header(k, l))

\* NgxHeaders::find and NgxList::find: the first of that name, also if removed.
Found(s, k) == {i \in DOMAIN s : s[i].key = k /\ \A j \in 1..(i-1) : s[j].key # k}

\* NgxHeaders::remove: that one is marked.
remove(l, k) ==
    /\ Call(l)
    /\ \E i \in Found(Contents(l), k) :
        LET c == From[l][i] IN cells' = [cells EXCEPT ![c[1]][c[2]].hash = 0]
    /\ own' = [own EXCEPT ![l] = [i \in DOMAIN own[l] |->
                  IF i \in Found(own[l], k) THEN [own[l][i] EXCEPT !.hash = 0] ELSE own[l][i]]]
    /\ Wrote(l)
    /\ plain' = (plain /\ l = Main)
    /\ UNCHANGED <<part, last, blocks, visit, copied, tied>>

\* NgxList::clear: the first part is used anew.
clear(l) ==
    /\ Call(l)
    /\ part' = [part EXCEPT ![l] = Fresh(part[l].elts)]
    /\ last' = [last EXCEPT ![l] = l]
    /\ own' = [own EXCEPT ![l] = <<>>]
    /\ plain' = (plain /\ l = Main)
    /\ UNCHANGED <<cells, blocks, visit, copied, tied, wrote>>

\* NgxList::reshape and reinit: the first part gets other cells.
reinit(l) ==
    /\ Call(l)
    /\ blocks < MaxBlocks
    /\ blocks' = blocks + 1
    /\ part' = [part EXCEPT ![l] = Fresh(blocks')]
    /\ last' = [last EXCEPT ![l] = l]
    /\ own' = [own EXCEPT ![l] = <<>>]
    /\ tied' = FALSE
    /\ UNCHANGED <<cells, visit, copied, wrote, plain>>

\* Mutant: what nginx leaves of the copy.
createUnfixed ==
    /\ part' = [part EXCEPT ![Sub] = part[Main]]
    /\ last' = [last EXCEPT ![Sub] = last[Main]]

\* NgxSubRequest::create: the copy's last part is its own, if it is the first.
create ==
    /\ part' = [part EXCEPT ![Sub] = part[Main]]
    /\ last' = [last EXCEPT ![Sub] = IF last[Main] = Main THEN Sub ELSE last[Main]]

copy ==
    /\ visit = None
    /\ ~copied
    /\ create
    /\ copied' = TRUE
    /\ own' = [own EXCEPT ![Sub] = own[Main]]
    /\ tied' = TRUE
    /\ plain' = (last[Main] = Main)
    /\ UNCHANGED <<calls, cells, blocks, visit, wrote>>

-------------------------------------------------------------------------------
\* Visits, whose callback may push to another list or to this one.

begins(l, into, each) ==
    /\ Call(l)
    /\ into # None => InUse(into)
    /\ visit' = [list |-> l, at |-> begin(l), into |-> into, each |-> each, seen |-> <<>>]
    /\ UNCHANGED <<part, last, cells, blocks, copied, ghosts>>

\* NgxList::visit: any callback, which may push what it gets to the list into.
visits(l, into) == begins(l, into, FALSE)

\* NgxList::merge: the callback pushes each element.
merge(into, l) == begins(l, into, TRUE)

step ==
    /\ visit # None
    /\ valid(visit.at)
    /\ LET x == dereference(visit.at)
       IN  /\ \/ /\ visit.into # None
                 /\ put(visit.into, x)
                 /\ own' = [own EXCEPT ![visit.into] = Append(@, x)]
                 /\ Wrote(visit.into)
              \/ ~visit.each /\ UNCHANGED <<part, last, cells, blocks, own, wrote>>
           /\ visit' = [visit EXCEPT !.seen = Append(@, x), !.at = increment(part', @)]
    /\ UNCHANGED <<calls, copied, tied, plain>>

\* The pool fails, and prepare throws.
throws ==
    /\ visit # None
    /\ visit.into # None
    /\ valid(visit.at)
    /\ blocks = MaxBlocks
    /\ part[last[visit.into]].nelts = Nalloc
    /\ visit' = None
    /\ UNCHANGED <<calls, part, last, cells, blocks, copied, ghosts>>

ends ==
    /\ visit # None
    /\ ~valid(visit.at)
    /\ visit' = None
    /\ UNCHANGED <<calls, part, last, cells, blocks, copied, ghosts>>

Next ==
    \/ \E l \in Lists, k \in Keys : push(l, k) \/ remove(l, k)
    \/ \E l \in Lists : clear(l) \/ reinit(l)
    \/ copy
    \/ \E l \in Lists, into \in Lists \cup {None} : visits(l, into)
    \/ \E l, into \in Lists : merge(into, l)
    \/ step
    \/ throws
    \/ ends

Spec == Init /\ [][Next]_vars

-------------------------------------------------------------------------------

\* A list holds what it was given in order, while the lists share cells: that of
\* the subrequest until its parent's is written to, that of the parent until the
\* subrequest's is; and if the parent had one part and the subrequest only adds
\* headers, also the parent's.  Once either is initialised anew, both for ever.
OwnKept ==
    /\ \A l \in Lists : InUse(l) /\ Other(l) \notin wrote => Contents(l) = own[l]
    /\ plain /\ Main \notin wrote => Contents(Main) = own[Main]

\* At each step a visit has seen the elements so far once and in order, over all
\* parts and with what was pushed to the list meanwhile.  It stops when it has seen
\* all, and a merge of a list with itself never has: it only ends where the pool
\* does.  All of this as long as the list is still what its owner made of it.
VisitSees ==
    visit # None /\ Other(visit.list) \notin wrote =>
        LET seen == visit.seen
            all == own[visit.list]
        IN  /\ Len(seen) <= Len(all)
            /\ \A i \in DOMAIN seen : seen[i] = all[i]
            /\ ~valid(visit.at) => Len(seen) = Len(all)
            /\ visit.each /\ visit.into = visit.list /\ seen # <<>> => Len(seen) < Len(all)

===============================================================================
