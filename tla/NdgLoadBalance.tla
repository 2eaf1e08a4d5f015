---------------------------- MODULE NdgLoadBalance ----------------------------
(***************************************************************************)
(* ngxpp/NgxLoadBalance.hpp and legacy/loadbalance: how one request picks  *)
(* a server of its upstream block.  Operators on the peer data of the      *)
(* request, a record:                                                      *)
(*                                                                         *)
(*   current    rrp.current, the peer nginx's round robin chose            *)
(*   tried      rrp.tried, the peers it has handed out already             *)
(*   left       pc->tries, the attempts that nginx still allows            *)
(*   tries      the calls of get, a u_char                                 *)
(*   sockaddr   pc->sockaddr, the peer to connect to                       *)
(***************************************************************************)
EXTENDS Naturals, FiniteSets

CONSTANTS Peers, None

ASSUME PeersAssumption == IsFiniteSet(Peers) /\ Peers # {} /\ None \notin Peers

\* peers is the upstream block, the servers of it that a request may use.
Blocks == SUBSET Peers \ {{}}

single(peers) == Cardinality(peers) = 1

\* NgxLoadBalance::init for a request, which keeps what round robin's init does.
init_peer(peers) ==
    [current |-> None, tried |-> {}, left |-> Cardinality(peers), tries |-> 0,
     sockaddr |-> None]

\* nginx's round robin: the data after each choice it may make; without one all
\* peers have been tried.
round_robin(peers, d) ==
    {[d EXCEPT !.current = p, !.sockaddr = p, !.tried = @ \cup {p}] :
        p \in IF single(peers) THEN peers ELSE peers \ d.tried}

called(d) == [d EXCEPT !.tries = (@ + 1) % 256]

draw(peers, d) == {[called(d) EXCEPT !.sockaddr = p] : p \in peers}

\* Mutant: a lone server is drawn as well.
getIgnoresSingle(peers, d) ==
    IF d.tries > 5 THEN round_robin(peers, called(d)) ELSE draw(peers, d)

\* NdgLoadBalanceCallback::get draws one of the peers, failed or not, and does
\* not tell round robin which.
get(peers, d) ==
    IF d.tries > 5 \/ single(peers)
    THEN round_robin(peers, called(d))
    ELSE draw(peers, d)

\* The release is left to nginx's round robin, which reads the peer it chose and
\* counts the attempts.
releasable(d) == d.sockaddr = None \/ d.current # None

free(peers, d) ==
    [d EXCEPT !.sockaddr = None,
              !.left = IF d.sockaddr = None THEN @
                       ELSE IF single(peers) \/ @ = 0 THEN 0 ELSE @ - 1]

===============================================================================
