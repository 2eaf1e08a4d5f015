------------------------------ MODULE NgxFilter -------------------------------
(***************************************************************************)
(* ngxpp/NgxFilter.hpp: NgxFilter<Tag> puts the filters of a module at the *)
(* top of nginx's chains of header filters and of body filters, and keeps  *)
(* for each chain what was on top before, to call it next.  Operators on   *)
(* one chain, a record:                                                    *)
(*                                                                         *)
(*   top    ngx_http_top_header_filter, or ..._body_filter                 *)
(*   next   the static next_filter of each module; NoFilter if never set   *)
(*                                                                         *)
(* The chain ends at nginx's own filter, which writes.                     *)
(***************************************************************************)
EXTENDS Naturals, FiniteSets

CONSTANTS FilterModules, Writer, NoFilter

ASSUME FilterAssumption ==
    /\ IsFiniteSet(FilterModules)
    /\ {Writer, NoFilter} \cap FilterModules = {}
    /\ Writer # NoFilter

Kinds == {"header", "body"}

FilterChains ==
    [top: FilterModules \cup {Writer},
     next: [FilterModules -> FilterModules \cup {Writer, NoFilter}]]

\* nginx's own filter is the first on a chain.
WriterOnly == [top |-> Writer, next |-> [m \in FilterModules |-> NoFilter]]

\* Mutants: what was on top is not kept, or is looked at too late.
setForgets(c, m) == [c EXCEPT !.top = m]

setTooLate(c, m) == [top |-> m, next |-> [c.next EXCEPT ![m] = m]]

\* NgxFilter::set
set(c, m) == [top |-> m, next |-> [c.next EXCEPT ![m] = c.top]]

\* NgxFilter::init; kinds says which of the two filters the module passes.
init(chains, m, kinds) ==
    [k \in Kinds |-> IF k \in kinds THEN set(chains[k], m) ELSE chains[k]]

\* NgxFilter::next, from the top: the filters a call goes through are those in every
\* set that has the first one and, with a filter, the next.
Places == FilterModules \cup {Writer, NoFilter}
Follows(c, S) == c.top \in S /\ \A m \in S \cap FilterModules : c.next[m] \in S
Walk(c) == {m \in Places : \A S \in SUBSET Places : Follows(c, S) => m \in S}

===============================================================================
