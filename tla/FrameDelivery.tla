--------------------------- MODULE FrameDelivery ---------------------------
(***************************************************************************)
(* What the resending of frames to the power board promises: a request is  *)
(* put on the line once, then again a limited number of times while its    *)
(* answer is missing; an answer ends it, and it is given up only after the *)
(* last of its transmissions.                                              *)
(***************************************************************************)
EXTENDS Naturals

CONSTANTS Requests,     \* frames sent with resend = 1
          Transmissions \* how often one frame may go out

VARIABLES sent,    \* transmissions of each request so far
          state    \* "new", "open", "answered" or "given up"

vars == <<sent, state>>

Init == /\ sent = [r \in Requests |-> 0]
        /\ state = [r \in Requests |-> "new"]

First(r) == /\ state[r] = "new"
            /\ sent' = [sent EXCEPT ![r] = 1]
            /\ state' = [state EXCEPT ![r] = "open"]

Again(r) == /\ state[r] = "open"
            /\ sent[r] < Transmissions
            /\ sent' = [sent EXCEPT ![r] = @ + 1]
            /\ UNCHANGED state

Answered(r) == /\ state[r] = "open"
               /\ state' = [state EXCEPT ![r] = "answered"]
               /\ UNCHANGED sent

GiveUp(r) == /\ state[r] = "open"
             /\ sent[r] = Transmissions
             /\ state' = [state EXCEPT ![r] = "given up"]
             /\ UNCHANGED sent

Next == \E r \in Requests : First(r) \/ Again(r) \/ Answered(r) \/ GiveUp(r)

Spec == Init /\ [][Next]_vars
=============================================================================
