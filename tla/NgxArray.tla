------------------------------- MODULE NgxArray ------------------------------
(***************************************************************************)
(* NgxArray.hpp: arrays that move to a larger block when they are full,    *)
(* and visits of them whose callback pushes, at each step or at some, to   *)
(* the same array or another.                                              *)
(***************************************************************************)
EXTENDS Naturals, Sequences

CONSTANTS
    Arrays,
    Values,
    MaxBlocks,   \* bound: the blocks that the pool gives before it fails
    MaxRoom,     \* bound: the elements of a block
    MaxCalls,    \* bound: the calls that are made
    None

VARIABLES
    array,       \* each array: its block and the elements in use; elts None: no array yet
    room,        \* how many elements each block has room for
    memory,      \* what is in each block; None is not initialised
    made,        \* how many blocks there are
    done,        \* how many calls were made
    visiting,    \* the visit or merge that runs
    given        \* ghost: what each array was given since it was made or cleared

vars == <<array, room, memory, made, done, visiting, given>>

Init ==
    /\ array = [a \in Arrays |-> [elts |-> None, nelts |-> 0]]
    /\ room = [b \in 1..MaxBlocks |-> 0]
    /\ memory = [b \in 1..MaxBlocks |-> [i \in 1..MaxRoom |-> None]]
    /\ made = 0
    /\ done = 0
    /\ visiting = None
    /\ given = [a \in Arrays |-> <<>>]

size(a) == array[a].nelts
Idle == visiting = None
Call == Idle /\ done < MaxCalls /\ done' = done + 1
Exists(a) == array[a].elts # None

\* NgxArray's constructor, and reshape and reinit: a new block of n elements.
reshape(a, n) ==
    /\ Call
    /\ made < MaxBlocks
    /\ made' = made + 1
    /\ room' = [room EXCEPT ![made'] = n]
    /\ array' = [array EXCEPT ![a] = [elts |-> made', nelts |-> 0]]
    /\ given' = [given EXCEPT ![a] = <<>>]
    /\ UNCHANGED <<memory, visiting>>

clear(a) ==
    /\ Call
    /\ array' = [array EXCEPT ![a].nelts = 0]
    /\ given' = [given EXCEPT ![a] = <<>>]
    /\ UNCHANGED <<room, memory, made, visiting>>

\* ngx_array_push, where the array has room, ends where the pool has some left,
\* or has to move to a block of twice the size.
fits(a, x) ==
    LET e == array[a].elts IN
    /\ size(a) < room[e]
    /\ memory' = [memory EXCEPT ![e][size(a) + 1] = x]
    /\ array' = [array EXCEPT ![a].nelts = @ + 1]
    /\ UNCHANGED <<room, made>>

extends(a, x) ==
    LET e == array[a].elts IN
    /\ size(a) = room[e]
    /\ room[e] < MaxRoom
    /\ room' = [room EXCEPT ![e] = @ + 1]
    /\ memory' = [memory EXCEPT ![e][size(a) + 1] = x]
    /\ array' = [array EXCEPT ![a].nelts = @ + 1]
    /\ UNCHANGED made

moves(a, x) ==
    LET e == array[a].elts IN
    /\ size(a) = room[e]
    /\ made < MaxBlocks
    /\ 2 * room[e] <= MaxRoom
    /\ made' = made + 1
    /\ room' = [room EXCEPT ![made'] = 2 * room[e]]
    /\ memory' = [memory EXCEPT ![made'] = [memory[e] EXCEPT ![size(a) + 1] = x]]
    /\ array' = [array EXCEPT ![a] = [elts |-> made', nelts |-> size(a) + 1]]

\* NgxArray::prepare and push
prepare(a, x) ==
    /\ fits(a, x) \/ extends(a, x) \/ moves(a, x)
    /\ given' = [given EXCEPT ![a] = Append(@, x)]

push(a, x) == Call /\ Exists(a) /\ prepare(a, x) /\ UNCHANGED visiting

\* A visit: the elements are looked up once, their number at each step.
begins(a, into, each) ==
    /\ Call
    /\ Exists(a)
    /\ into # None => Exists(into)
    /\ visiting' = [array |-> a, elts |-> array[a].elts, into |-> into, each |-> each,
                    seen |-> <<>>]
    /\ UNCHANGED <<array, room, memory, made, given>>

\* NgxArray::visit: any callback, which may push what it gets to the array into.
visit(a, into) == begins(a, into, FALSE)

\* NgxArray::merge: the callback pushes each element.
merge(into, a) == begins(a, into, TRUE)

more == Len(visiting.seen) < size(visiting.array)

step ==
    /\ ~Idle
    /\ more
    /\ LET i == Len(visiting.seen) + 1
           x == IF i <= room[visiting.elts] THEN memory[visiting.elts][i] ELSE None
       IN  /\ visiting' = [visiting EXCEPT !.seen = Append(@, x)]
           /\ \/ visiting.into # None /\ prepare(visiting.into, x)
              \/ ~visiting.each /\ UNCHANGED <<array, room, memory, made, given>>
    /\ UNCHANGED done

ends ==
    /\ ~Idle
    /\ ~more
    /\ visiting' = None
    /\ UNCHANGED <<array, room, memory, made, done, given>>

\* The pool fails, and prepare throws.
throws ==
    /\ ~Idle
    /\ more
    /\ visiting.into # None
    /\ size(visiting.into) = room[array[visiting.into].elts]
    /\ visiting' = None
    /\ UNCHANGED <<array, room, memory, made, done, given>>

Next ==
    \/ \E a \in Arrays, n \in {1, 2} : reshape(a, n)
    \/ \E a \in Arrays : clear(a)
    \/ \E a \in Arrays, x \in Values : push(a, x)
    \/ \E a \in Arrays, into \in Arrays \cup {None} : visit(a, into)
    \/ \E a, into \in Arrays : merge(into, a)
    \/ step
    \/ ends
    \/ throws

Spec == Init /\ [][Next]_vars

-------------------------------------------------------------------------------

Contents(a) == [i \in 1..size(a) |-> memory[array[a].elts][i]]

\* An array holds what it was given, in order, wherever it moves.  At each step a
\* visit has called back in order for the elements so far, also those pushed
\* meanwhile, and with the right values up to the room of the block where it reads:
\* if a callback's push moves the array, the visit goes on past its old block.  It
\* stops when it has seen all, and a merge of an array with itself never has.
VisitSees ==
    /\ \A a \in Arrays : Contents(a) = given[a]
    /\ ~Idle =>
        LET seen == visiting.seen
            all == given[visiting.array]
        IN  /\ Len(seen) <= Len(all)
            /\ \A i \in DOMAIN seen : i <= room[visiting.elts] => seen[i] = all[i]
            /\ ~more => Len(seen) = Len(all)
            /\ visiting.each /\ visiting.into = visiting.array /\ seen # <<>> =>
                Len(seen) < Len(all)

===============================================================================
