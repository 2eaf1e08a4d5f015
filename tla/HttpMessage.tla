----------------------------- MODULE HttpMessage ------------------------------
(***************************************************************************)
(* What a client may rely on in one HTTP response: a header that declares  *)
(* the length of the body or leaves it open, then a body that is exactly   *)
(* as long as declared, then an end, and nothing after it.  The connection *)
(* may be lost at any time.                                                *)
(***************************************************************************)
EXTENDS Integers

CONSTANTS NoHeader, Undeclared   \* two values outside Nat

VARIABLES
    declared,   \* the declared length; NoHeader, or Undeclared
    sent,       \* bytes of the body that were sent
    ended,      \* whether the end of the body was sent
    lost        \* whether the connection was lost

vars == <<declared, sent, ended, lost>>

Init ==
    /\ declared = NoHeader
    /\ sent = 0
    /\ ended = FALSE
    /\ lost = FALSE

Fits(n) == declared = Undeclared \/ n <= declared

Header ==
    /\ ~lost
    /\ declared = NoHeader
    /\ declared' \in Nat \cup {Undeclared}
    /\ UNCHANGED <<sent, ended, lost>>

Piece ==
    /\ ~lost
    /\ declared # NoHeader
    /\ ~ended
    /\ sent' \in Nat
    /\ sent' >= sent
    /\ Fits(sent')
    /\ UNCHANGED <<declared, ended, lost>>

Last ==
    /\ ~lost
    /\ declared # NoHeader
    /\ ~ended
    /\ sent' \in Nat
    /\ sent' >= sent
    /\ declared \in {Undeclared, sent'}
    /\ ended' = TRUE
    /\ UNCHANGED <<declared, lost>>

Lose == lost' = TRUE /\ UNCHANGED <<declared, sent, ended>>

Next == Header \/ Piece \/ Last \/ Lose

Spec == Init /\ [][Next]_vars

===============================================================================
