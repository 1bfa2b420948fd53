---------------------------- MODULE LinkDelivery ----------------------------
(***************************************************************************)
(* What one IWP session promises the router above it, whatever the network *)
(* does: a message is given to HandleRecvLinkMessage only if the peer has  *)
(* sent it, and as long as its session lives the sender forgets a message  *)
(* only after that happened.  A session that ends forgets all it has, and  *)
(* neither sends nor hands over from then on, while the other end may go   *)
(* on for a while.  It is not promised that a message arrives, nor that it *)
(* arrives once, nor an order.                                             *)
(***************************************************************************)
EXTENDS Naturals

CONSTANT MaxMsgs  \* bound on the messages of an end

VARIABLES
    sent,      \* sent[s]: how many messages end s has queued
    handled,   \* handled[s][i]: 0, 1 or 2 (many) times given to the router
    released,  \* released[s]: the messages end s has forgotten
    ended      \* ended[s]: the session of end s is no more

vars == <<sent, handled, released, ended>>

Ends == {"init", "resp"}
Other(s) == IF s = "init" THEN "resp" ELSE "init"

\* The responder has sent its LIM when the session starts.
Init ==
    /\ sent = [s \in Ends |-> IF s = "init" THEN 0 ELSE 1]
    /\ handled = [s \in Ends |-> [i \in 0..(MaxMsgs - 1) |-> 0]]
    /\ released = [s \in Ends |-> {}]
    /\ ended = [s \in Ends |-> FALSE]

SendMore(s) == sent[s] < MaxMsgs /\ sent' = [sent EXCEPT ![s] = @ + 1]

Hand(s, i) ==
    /\ i < sent[Other(s)]
    /\ handled' = [handled EXCEPT ![s][i] = IF @ = 0 THEN 1 ELSE 2]

Send(s) == SendMore(s) /\ UNCHANGED <<handled, released, ended>>

Handle(s, i) == Hand(s, i) /\ UNCHANGED <<sent, released, ended>>

\* The peer's LIM is answered in the step that handles it.
HandleAndAnswer(s) == Hand(s, 0) /\ SendMore(s) /\ UNCHANGED <<released, ended>>

Release(s, i) ==
    /\ i < sent[s]
    /\ handled[Other(s)][i] > 0
    /\ released' = [released EXCEPT ![s] = @ \cup {i}]
    /\ UNCHANGED <<sent, handled, ended>>

\* The session times out, or both ends agree that it is invalidated.
End(s) ==
    /\ ended' = [ended EXCEPT ![s] = TRUE]
    /\ released' = [released EXCEPT ![s] = {i \in 0..(MaxMsgs - 1) : i < sent[s]}]
    /\ UNCHANGED <<sent, handled>>

Next ==
    \E s \in Ends :
        /\ ~ended[s]
        /\ \/ Send(s)
           \/ HandleAndAnswer(s)
           \/ End(s)
           \/ \E i \in 0..(MaxMsgs - 1) : Handle(s, i) \/ Release(s, i)

Spec == Init /\ [][Next]_vars
=============================================================================
