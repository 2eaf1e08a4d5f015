--------------------------- MODULE MCNgxContainers --------------------------
\* The lists, arrays, chains and queues of a request, in one run: they have no memory in
\* common, so the state space is the sum of theirs.
EXTENDS Integers, Sequences, FiniteSets, TLC

CONSTANTS
    Main, Sub, Keys, Nalloc,           \* of NgxList
    Arrays, Values, MaxRoom,           \* of NgxArray
    Chains, MaxLinks,                  \* of NgxChain
    Queues, Nodes,                     \* of NgxQueue
    MaxBlocks, MaxCalls, None          \* of all

\* None is no number, and none of what there may be in its place.
ASSUME ContainersAssumption ==
    /\ Nalloc \in Nat \ {0}
    /\ MaxRoom \in Nat \ {0, 1}
    /\ {MaxBlocks, MaxLinks, MaxCalls} \subseteq Nat /\ MaxBlocks # 0
    /\ Main # Sub /\ {Main, Sub} \cap Nat = {}
    /\ IsFiniteSet(Nodes) /\ Nodes \subseteq Int /\ Nodes \cap Queues = {}
    /\ None \notin Nat \cup {Main, Sub} \cup Arrays \cup Chains \cup Queues \cup Nodes
    /\ None \notin [array: Arrays, elts: Nat, into: Arrays \cup {None}, each: BOOLEAN,
                  seen: Seq(Values \cup {None})]
    /\ None \notin [chain: Chains, iter: Nat \cup {None}, pos: Nat \cup {None}]
    /\ None \notin [queue: Queues, at: Queues \cup Nodes \cup {None}, seen: Seq(Nodes), all: Seq(Nodes)]

VARIABLES
    focus,                             \* the kind that is used
    part, last, cells, blocks, calls, visit, copied, own, tied, wrote, plain,
    array, room, memory, made, done, visiting, given,
    next, head, spare, links, freeing, mine, freed,
    succ, pred, used, walk, placed

L == INSTANCE NgxList
A == INSTANCE NgxArray
C == INSTANCE NgxChain
Q == INSTANCE NgxQueue

lvars == <<part, last, cells, blocks, calls, visit, copied, own, tied, wrote, plain>>
avars == <<array, room, memory, made, done, visiting, given>>
cvars == <<next, head, spare, links, freeing, mine, freed>>
qvars == <<succ, pred, used, walk, placed>>

Init ==
    /\ focus \in {"list", "array", "chain", "queue"}
    /\ L!Init
    /\ A!Init
    /\ C!Init
    /\ Q!Init

Next ==
    \/ focus = "list" /\ L!Next /\ UNCHANGED <<focus, avars, cvars, qvars>>
    \/ focus = "array" /\ A!Next /\ UNCHANGED <<focus, lvars, cvars, qvars>>
    \/ focus = "chain" /\ C!Next /\ UNCHANGED <<focus, lvars, avars, qvars>>
    \/ focus = "queue" /\ Q!Next /\ UNCHANGED <<focus, lvars, avars, cvars>>

Spec == Init /\ [][Next]_<<focus, lvars, avars, cvars, qvars>>

\* The lists of a request and its subrequest hold what each was given, as long as
\* they are told apart (NgxSubRequest::create, NgxList).
OwnKept == L!OwnKept

\* At each step of a visit the elements so far were seen once and in order, also
\* those pushed meanwhile, and at its end all (NgxList::visit, NgxArray::visit, merge).
VisitSees == L!VisitSees /\ A!VisitSees

\* No link is in two chains, or in one and in the pool (NgxChain::free), and no
\* node in two queues or twice in one, read from either end (NgxQueue::merge).
NoneTwice == C!NoneTwice /\ Q!NoneTwice

Alike == Permutations(Keys) \cup Permutations(Arrays) \cup Permutations(Values)
         \cup Permutations(Queues)

=============================================================================
