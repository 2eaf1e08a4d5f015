------------------------------ MODULE NdgFilter -------------------------------
(***************************************************************************)
(* The filters of http/filter/NdgFilterHandler.hpp, and of its older form  *)
(* legacy/footer/NdgFooterHandler.hpp: they add a footer to the body of a  *)
(* response and correct the declared length.  Operators on                 *)
(*                                                                         *)
(*   a request    flag is the module's ctx.flag, length is                 *)
(*                headers_out.content_length_n                             *)
(*   a chain      a sequence of buffers; last and lic are last_buf and     *)
(*                last_in_chain                                            *)
(*                                                                         *)
(* The headers that header_filter adds do not matter to the body and are   *)
(* left out.                                                               *)
(***************************************************************************)
EXTENDS Integers, Sequences, SequencesExt

Undeclared == -1   \* content_length_n of a response of unknown length

\* Buffers: their bytes, the two marks, and whose they are.
Content(n) == [size |-> n, last |-> FALSE, lic |-> FALSE, kind |-> "content"]

footerBuf(n) == [size |-> n, last |-> TRUE, lic |-> TRUE, kind |-> "footer"]

\* Mutant of do_header_filter: an unknown length is added to.
headerUnknownToo(q, footer) ==
    IF q.flag # 0 THEN q
    ELSE [q EXCEPT !.flag = 1, !.length = IF footer > 0 THEN @ + footer ELSE @]

\* do_header_filter; footer is the length of the configured footer, or 0.
do_header_filter(q, footer) ==
    IF q.flag # 0 THEN q
    ELSE [q EXCEPT !.flag = 1,
                   !.length = IF footer > 0 /\ @ > 0 THEN @ + footer ELSE @]

\* The node at which a module takes the body to end.
Ends(b, legacy) == b.last \/ (legacy /\ b.lic)

FirstEnd(chain, legacy) ==
    CHOOSE i \in DOMAIN chain :
        /\ Ends(chain[i], legacy)
        /\ \A j \in 1..(i - 1) : ~Ends(chain[j], legacy)

Finds(q, footer, chain, legacy) ==
    footer > 0 /\ q.flag = 1 /\ \E i \in DOMAIN chain : Ends(chain[i], legacy)

\* Mutants of bodyChain: the old last node stays marked; the footer is put in
\* front of it.
bodyKeepsMark(q, footer, chain, legacy) ==
    IF ~Finds(q, footer, chain, legacy) THEN chain
    ELSE LET i == FirstEnd(chain, legacy)
         IN  IF chain[i].size = 0
             THEN ReplaceAt(chain, i, footerBuf(footer))
             ELSE SubSeq(chain, 1, i) \o <<footerBuf(footer)>>

bodyBeforeEnd(q, footer, chain, legacy) ==
    IF ~Finds(q, footer, chain, legacy) THEN chain
    ELSE LET i == FirstEnd(chain, legacy)
         IN  SubSeq(chain, 1, i - 1)
                \o <<[footerBuf(footer) EXCEPT !.last = FALSE, !.lic = FALSE]>>
                \o SubSeq(chain, i, Len(chain))

\* do_body_filter: the chain it passes on ...
bodyChain(q, footer, chain, legacy) ==
    IF ~Finds(q, footer, chain, legacy) THEN chain
    ELSE LET i == FirstEnd(chain, legacy)
         IN  IF chain[i].size = 0
             THEN ReplaceAt(chain, i, footerBuf(footer))
             ELSE SubSeq(chain, 1, i - 1)
                    \o <<[chain[i] EXCEPT !.last = FALSE, !.lic = FALSE],
                         footerBuf(footer)>>

\* ... and what it leaves in the context.
bodyFlag(q, footer, chain, legacy) ==
    IF Finds(q, footer, chain, legacy) THEN 2 ELSE q.flag

===============================================================================
