---------------------------- MODULE MCIwpFrame ----------------------------
(* Small instances of IwpFrame: the initiator sends one message after its   *)
(* LIM, the responder its two LIMs and nothing else.                        *)
EXTENDS IwpFrame

\* Bound on the frames under way at once.
CONSTANT MaxInFlight
InFlight == Cardinality(net) <= MaxInFlight

\* The session after the exchange of LIMs: a state Spec reaches.
EstablishedInit ==
    /\ state = [s \in Side |-> "Established"]
    /\ txids = [s \in Side |-> IF s = "init" THEN 1 ELSE 2]
    /\ numfrags = [s \in Side |-> [i \in Ids |-> 0]]
    /\ tx = [s \in Side |-> {}]
    /\ txStatus = [s \in Side |-> [i \in Ids |-> {}]]
    /\ rx = [s \in Side |-> {}]
    /\ rxStatus = [s \in Side |-> [i \in Ids |-> {}]]
    /\ txInv = [s \in Side |-> FALSE]
    /\ rxInv = [s \in Side |-> FALSE]
    /\ sendqueue = [s \in Side |-> {}]
    /\ keepalive = [s \in Side |-> FALSE]
    /\ net = {}
    /\ handled = [s \in Side |-> [i \in Ids |->
                                     IF i < txids[Peer(s)] THEN 1 ELSE 0]]

EstablishedSpec == EstablishedInit /\ [][Next]_vars

\* Scheduling: the cleanup timer ticks the sender's session again and again, and
\* a fragment of its message that is resent for ever gets through in the end.
Fairness ==
    /\ WF_vars(TickAlive("init"))
    /\ \A k \in UNION {Frags(n) : n \in FragCounts} : SF_vars(RecvFragment("resp", 1, k))

FairEstablishedSpec == EstablishedSpec /\ Fairness
=============================================================================
