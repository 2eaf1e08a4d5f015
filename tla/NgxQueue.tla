------------------------------- MODULE NgxQueue ------------------------------
(***************************************************************************)
(* NgxQueue.hpp: rings of nodes, each with a head that is a node without   *)
(* data.  The nodes belong to the caller, who may put one into one queue   *)
(* at a time.  A queue that was merged into another is not to be used      *)
(* before it is initialised again.  The macros ngx_queue_* are external;   *)
(* as in a build without NGX_DEBUG they leave the links of what is removed. *)
(***************************************************************************)
EXTENDS Naturals, Sequences, SequencesExt

CONSTANTS
    Queues,
    Nodes,       \* numbers, by which the caller sorts
    None

Cells == Queues \cup Nodes

VARIABLES
    succ, pred,  \* the links of each head and node
    used,        \* the queues that are initialised, and not merged since
    walk,        \* the iteration that runs: its queue, where it is, what it saw
    placed       \* ghost: the nodes of each queue, as they were put there

vars == <<succ, pred, used, walk, placed>>

Init ==
    /\ succ = [c \in Cells |-> None]
    /\ pred = [c \in Cells |-> None]
    /\ used = {}
    /\ walk = None
    /\ placed = [q \in Queues |-> <<>>]

Idle == walk = None
Loose == {n \in Nodes : \A q \in Queues : ~Contains(placed[q], n)}

\* ngx_queue_insert_after and ngx_queue_remove
insert_after(c, n) ==
    /\ succ' = [succ EXCEPT ![n] = succ[c], ![c] = n]
    /\ pred' = [pred EXCEPT ![n] = c, ![succ[c]] = n]

unlink(n) ==
    /\ succ' = [succ EXCEPT ![pred[n]] = succ[n]]
    /\ pred' = [pred EXCEPT ![succ[n]] = pred[n]]

-------------------------------------------------------------------------------

\* NgxQueue::init: whatever was in the queue is no longer.
init(q) ==
    /\ Idle
    /\ succ' = [succ EXCEPT ![q] = q]
    /\ pred' = [pred EXCEPT ![q] = q]
    /\ used' = used \cup {q}
    /\ placed' = [placed EXCEPT ![q] = <<>>]
    /\ UNCHANGED walk

empty(q) == pred[q] = q
back(q) == pred[q]

\* NgxQueue::insert and append: at the front, and at the back.
insert(q, n) ==
    /\ insert_after(q, n)
    /\ placed' = [placed EXCEPT ![q] = <<n>> \o @]

append(q, n) ==
    /\ insert_after(back(q), n)
    /\ placed' = [placed EXCEPT ![q] = Append(@, n)]

\* NgxQueue::insert with an iterator, and NgxQueueNode::append: behind the node.
insertAt(q, i, n) ==
    /\ insert_after(placed[q][i], n)
    /\ placed' = [placed EXCEPT ![q] = InsertAt(@, i + 1, n)]

inserts(q, n) ==
    /\ Idle
    /\ q \in used
    /\ n \in Loose
    /\ insert(q, n) \/ append(q, n) \/ \E i \in DOMAIN placed[q] : insertAt(q, i, n)
    /\ UNCHANGED <<used, walk>>

\* NgxQueueNode::remove
remove(q, n) ==
    /\ unlink(n)
    /\ \E i \in DOMAIN placed[q] :
        placed[q][i] = n /\ placed' = [placed EXCEPT ![q] = RemoveAt(@, i)]

removes(q, n) ==
    /\ Idle
    /\ q \in used
    /\ Contains(placed[q], n)
    /\ remove(q, n)
    /\ UNCHANGED <<used, walk>>

\* NgxQueue::merge, by ngx_queue_add: also of an empty queue, whose head then
\* looks back into the other one.
merge(q, r) ==
    /\ Idle
    /\ {q, r} \subseteq used
    /\ q # r
    /\ LET p == [pred EXCEPT ![succ[r]] = pred[q]]
           tail == p[r]
       IN  /\ succ' = [succ EXCEPT ![pred[q]] = succ[r], ![tail] = q]
           /\ pred' = [p EXCEPT ![q] = tail]
    /\ used' = used \ {r}
    /\ placed' = [placed EXCEPT ![q] = @ \o placed[r], ![r] = <<>>]
    /\ UNCHANGED walk

\* The nodes of a queue, which are different numbers, in order.
Sorted(s) == {t \in [DOMAIN s -> ToSet(s)] : \A i, j \in DOMAIN s : i < j => t[i] < t[j]}

\* NgxQueue::sort, by ngx_queue_sort.
sort(q) ==
    /\ Idle
    /\ q \in used
    /\ \E s \in Sorted(placed[q]) :
       LET c(i) == IF i \in DOMAIN s THEN s[i] ELSE q
           at(n) == CHOOSE i \in DOMAIN s : s[i] = n
       IN  /\ succ' = [n \in Cells |-> IF n = q THEN c(1)
                                       ELSE IF Contains(s, n) THEN c(at(n) + 1) ELSE succ[n]]
           /\ pred' = [n \in Cells |-> IF n = q THEN c(Len(s))
                                       ELSE IF Contains(s, n) THEN c(at(n) - 1) ELSE pred[n]]
           /\ placed' = [placed EXCEPT ![q] = s]
    /\ UNCHANGED <<used, walk>>

-------------------------------------------------------------------------------
\* Iteration, whose body may remove the node that it is at.

begin(q) ==
    /\ Idle
    /\ q \in used
    /\ walk' = [queue |-> q, at |-> succ[q], seen |-> <<>>, all |-> placed[q]]
    /\ UNCHANGED <<succ, pred, used, placed>>

increment ==
    /\ ~Idle
    /\ walk.at # walk.queue
    /\ remove(walk.queue, walk.at) \/ UNCHANGED <<succ, pred, placed>>
    /\ walk' = [walk EXCEPT !.seen = Append(@, walk.at), !.at = succ'[@]]
    /\ UNCHANGED used

ends ==
    /\ ~Idle
    /\ walk.at = walk.queue
    /\ walk' = None
    /\ UNCHANGED <<succ, pred, used, placed>>

Next ==
    \/ \E q \in Queues : init(q) \/ sort(q) \/ begin(q)
    \/ \E q \in Queues, n \in Nodes : inserts(q, n) \/ removes(q, n)
    \/ \E q, r \in Queues : merge(q, r)
    \/ increment
    \/ ends

Spec == Init /\ [][Next]_vars

-------------------------------------------------------------------------------

\* The cells from one on along links, up to the head of the queue; more than
\* there are nodes would be a circle beside the head.
Most == Cardinality(Nodes) + 1

Along(link, q) ==
    LET f[x \in (0..Most) \X (Cells \cup {None})] ==
            IF x[1] = 0 \/ x[2] \in {q, None} THEN <<>>
            ELSE <<x[2]>> \o f[<<x[1] - 1, link[x[2]]>>]
    IN  f[<<Most, link[q]>>]

Forwards(q) == Along(succ, q)
Backwards(q) == Along(pred, q)

\* A queue holds what was put into it, in that order, read from either end: nodes
\* that are taken out of one and put into another, queues that are merged, sorted
\* and initialised again never mix their links; and an iteration meets each node
\* once, also if its body removes it.
NoneTwice ==
    /\ \A q \in used :
        /\ Forwards(q) = placed[q]
        /\ Backwards(q) = Reverse(placed[q])
        /\ empty(q) <=> placed[q] = <<>>
    /\ ~Idle /\ walk.at = walk.queue => walk.seen = walk.all

===============================================================================
