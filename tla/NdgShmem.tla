------------------------------- MODULE NdgShmem ------------------------------
(***************************************************************************)
(* legacy/shmem: after each request a worker adds what it has sent to a    *)
(* counter in a segment of shared memory that all workers open by name.    *)
(*                                                                         *)
(* Workers may be killed at any point and are replaced; a reload replaces  *)
(* them all, with another ndg_shmem_size perhaps; an upgrade of the binary *)
(* starts a second master, and then the first one exits.  A segment stays  *)
(* in memory, without its name, for those who have it mapped.              *)
(*                                                                         *)
(* boost::interprocess, nginx's masters and the kernel are external.       *)
(***************************************************************************)
EXTENDS Naturals, FiniteSets

CONSTANTS
    Workers,     \* the slots for worker processes
    Segments,    \* bound: the segments that are ever made
    Sizes,       \* the values of ndg_shmem_size
    Least,       \* what a segment needs to be usable
    Total,       \* bound: the bytes that are counted
    None

ASSUME ShmemAssumption == None \notin Nat /\ Sizes \subseteq Nat

VARIABLES
    size,        \* ndg_shmem_size, in the configuration now loaded
    named,       \* the segment that has the name; None
    segments,    \* each segment: its size (0: not made), counter (None: not
                 \* constructed) and the worker that has its lock
    worker,      \* where each worker is: "idle", "open", "find", "construct", "add"
    segment,     \* each worker's static segment; None before its first request
    masters,     \* how many master processes there are
    counted      \* ghost: what was added to each segment

shmemVars == <<size, named, segments, worker, segment, masters, counted>>

ShmemInit ==
    /\ size \in Sizes
    /\ named = None
    /\ segments = [s \in Segments |-> [size |-> 0, counter |-> None, lock |-> None]]
    /\ worker = [w \in Workers |-> "idle"]
    /\ segment = [w \in Workers |-> None]
    /\ masters = 1
    /\ counted = [s \in Segments |-> 0]

-------------------------------------------------------------------------------

Goto(w, pc) == worker' = [worker EXCEPT ![w] = pc]

\* A request of the worker ends, and the log phase begins.
ends(w) ==
    /\ worker[w] = "idle"
    /\ Goto(w, IF segment[w] = None THEN "open" ELSE "find")
    /\ UNCHANGED <<size, named, segments, segment, masters, counted>>

\* The worker is gone, and its place is taken; whoever has a lock keeps it.
Gone(w) ==
    /\ worker' = [worker EXCEPT ![w] = "idle"]
    /\ segment' = [segment EXCEPT ![w] = None]

\* The static segment: open_or_create opens the one that has the name, whatever
\* its size, or makes one of the configured size.  Memory that is too small for
\* its own management throws, and the exception is not one that handler catches.
openOrCreate(w) ==
    /\ worker[w] = "open"
    /\ LET made == {s \in Segments : segments[s].size > 0}
       IN  \E s \in IF named # None THEN {named} ELSE Segments \ made :
            /\ named' = s
            /\ segments' = IF named = None THEN [segments EXCEPT ![s].size = size]
                           ELSE segments
            /\ IF segments'[s].size < Least THEN Gone(w)
               ELSE /\ segment' = [segment EXCEPT ![w] = s]
                    /\ Goto(w, "find")
    /\ UNCHANGED <<size, masters, counted>>

\* find_or_construct takes the lock of the segment, ...
lock(w) ==
    /\ worker[w] = "find"
    /\ segments[segment[w]].lock = None
    /\ segments' = [segments EXCEPT ![segment[w]].lock = w]
    /\ Goto(w, "construct")
    /\ UNCHANGED <<size, named, segment, masters, counted>>

\* Mutant: the counter is made anew by each who comes.
constructAnew(w) == [segments EXCEPT ![segment[w]] = [@ EXCEPT !.lock = None, !.counter = 0]]

\* ... looks for the counter or makes it, and gives the lock back.
constructed(w) ==
    LET s == segments[segment[w]]
        c == IF s.counter = None THEN 0 ELSE s.counter
    IN  [segments EXCEPT ![segment[w]] = [s EXCEPT !.lock = None, !.counter = c]]

find_or_construct(w) ==
    /\ worker[w] = "construct"
    /\ segments' = constructed(w)
    /\ Goto(w, "add")
    /\ UNCHANGED <<size, named, segment, masters, counted>>

\* counter += sent, which is atomic.
add(w) ==
    /\ worker[w] = "add"
    /\ counted[segment[w]] < Total
    /\ segments' = [segments EXCEPT ![segment[w]].counter = @ + 1]
    /\ counted' = [counted EXCEPT ![segment[w]] = @ + 1]
    /\ Goto(w, "idle")
    /\ UNCHANGED <<size, named, segment, masters>>

-------------------------------------------------------------------------------
\* The processes.

killed(w) ==
    /\ segment[w] # None \/ worker[w] # "idle"
    /\ Gone(w)
    /\ UNCHANGED <<size, named, segments, masters, counted>>

\* A reload: the old workers finish what they do and are replaced.
reload ==
    /\ \A w \in Workers : worker[w] = "idle"
    /\ size' \in Sizes
    /\ segment' = [w \in Workers |-> None]
    /\ UNCHANGED <<named, segments, worker, masters, counted>>

upgrade ==
    /\ masters = 1
    /\ masters' = 2
    /\ UNCHANGED <<size, named, segments, worker, segment, counted>>

\* NdgShmemHandler::exit_master: the name is removed.  After an upgrade the other
\* master's workers go on.
exit_master ==
    /\ masters = 2
    /\ masters' = 1
    /\ named' = None
    /\ UNCHANGED <<size, segments, worker, segment, counted>>

ShmemNext ==
    \/ \E w \in Workers : ends(w) \/ openOrCreate(w) \/ lock(w) \/ find_or_construct(w)
                            \/ add(w) \/ killed(w)
    \/ reload
    \/ upgrade
    \/ exit_master

ShmemSpec == ShmemInit /\ [][ShmemNext]_shmemVars

-------------------------------------------------------------------------------

\* No count is lost: whichever workers look for the counter, make it and add to it
\* at the same time, are killed between any two steps, or come after a reload or
\* an upgrade, the counter of a segment is the sum of all that was added to it.
Counted ==
    /\ \A s \in Segments : segments[s].counter \in {None, counted[s]}
    /\ \A s \in Segments : counted[s] > 0 => segments[s].counter # None

===============================================================================
