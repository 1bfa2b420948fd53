------------------------------ MODULE IwpFrame ------------------------------
(***************************************************************************)
(* The frame layer of one IWP session (src/udap/iwp_link.cpp): the         *)
(* frame_state and the transit_messages of both ends, from the moment the  *)
(* session key is agreed: the initiator has sent its session start, the    *)
(* responder has verified it and sent its link introduce message (LIM).    *)
(*                                                                         *)
(* A link message is cut into numfrags full fragments and one last         *)
(* fragment.  The XMIT frame carries the header and the last fragment, the *)
(* FRAG frames carry the others, ACKS frames carry the bitmask of the      *)
(* fragments received, ALIV frames keep the session alive.  Every frame    *)
(* carries the sender's flags, of which SESSION_INVALIDATED is used.       *)
(*                                                                         *)
(* The datagrams go through the CoDel queue (newest first), the crypto     *)
(* workers and UDP: net is the set of frames somewhere on that way.  It    *)
(* reorders, and may lose and duplicate.  Frames are authenticated, so     *)
(* they are never altered.  A message's bytes are fixed by its sender and  *)
(* its id; of them the model keeps the number of full fragments.           *)
(***************************************************************************)
EXTENDS Naturals, FiniteSets

CONSTANTS
    MaxMsgs,     \* bound on the ids an end uses in one session
    FragCounts,  \* numfrags a message given to sendto may have
    LimFrags,    \* numfrags an encoded LIM may have
    BadRC,       \* ends whose RC fails the other end's CheckRCValid
    MayLose,     \* may the network lose a datagram?
    MayDup,      \* may it deliver a datagram again?
    MayTimeout,  \* may SESSION_TIMEOUT pass without a valid frame?
    MayClose     \* may the router close an established session?

Side == {"init", "resp"}

Peer(s) == IF s = "init" THEN "resp" ELSE "init"

\* The responder sends two LIMs.
ASSUME MaxMsgsAssumption == MaxMsgs \in Nat /\ MaxMsgs >= 2

\* status is a bitset<32>: a longer message has fragments no mask can name.
ASSUME FragAssumption ==
    /\ FragCounts \subseteq 0..32
    /\ LimFrags \subseteq 0..32

ASSUME EnvironmentAssumption ==
    /\ BadRC \subseteq Side
    /\ {MayLose, MayDup, MayTimeout, MayClose} \subseteq BOOLEAN

VARIABLES
    state,      \* state[s]: session::state, and "Removed" once deallocated
    txids,      \* txids[s]: the next message id of end s
    numfrags,   \* numfrags[s][i]: xmit::numfrags of message i of end s
    tx,         \* tx[s]: the ids in frame_state::tx
    txStatus,   \* txStatus[s][i]: status of the outbound message i
    rx,         \* rx[s]: the ids in frame_state::rx
    rxStatus,   \* rxStatus[s][i]: status of the inbound message i
    txInv,      \* txInv[s]: eSessionInvalidated in txflags
    rxInv,      \* rxInv[s]: eSessionInvalidated in rxflags
    sendqueue,  \* sendqueue[s]: frames pushed and not pumped yet
    keepalive,  \* keepalive[s]: close has queued a send_keepalive job
    net,        \* the frames under way
    handled     \* history: handled[s][i] counts (0, 1, many) how often
                \* message i of the peer was given to HandleRecvLinkMessage

txVars == <<txids, numfrags, tx, txStatus>>
rxVars == <<rx, rxStatus, handled>>
flagVars == <<txInv, rxInv, keepalive>>
vars == <<state, txVars, rxVars, flagVars, sendqueue, net>>

Ids == 0..(MaxMsgs - 1)
Frags(n) == IF n = 0 THEN {} ELSE 0..(n - 1)

States == {"SessionStartSent", "LIMSent", "Established", "Removed"}
-----------------------------------------------------------------------------
\* Operators named Mut... are wrong on purpose: forms that a plausible bug would
\* give to the definition after them.  The properties are tested against them.

\* The frames, as init_sendbuf and its callers fill them.
Xmit(s, i, inv) == [type |-> "XMIT", from |-> s, id |-> i, inv |-> inv]
Frag(s, i, k, inv) ==
    [type |-> "FRAG", from |-> s, id |-> i, frag |-> k, inv |-> inv]
MutAcksFirstBit(s, i, mask, inv) ==
    [type |-> "ACKS", from |-> s, id |-> i, inv |-> inv,
     mask |-> IF mask = {} THEN {} ELSE mask \cup {0}]
MutAcksShifted(s, i, mask, inv) ==
    [type |-> "ACKS", from |-> s, id |-> i, inv |-> inv,
     mask |-> {k + 1 : k \in mask}]
Acks(s, i, mask, inv) ==
    [type |-> "ACKS", from |-> s, id |-> i, mask |-> mask, inv |-> inv]
Aliv(s, inv) == [type |-> "ALIV", from |-> s, inv |-> inv]

MutCompleted(status, n) == Frags(IF n = 0 THEN 0 ELSE n - 1) \subseteq status

\* transit_message::completed
completed(status, n) == Frags(n) \subseteq status

\* transit_message::should_send_ack
should_send_ack(status, n) ==
    n = 0 \/ Cardinality(status) % (1 + (n \div 2)) = 0

MutRetransmitXmit(s, i, status) ==
    {Frag(s, i, k, txInv[s]) : k \in Frags(numfrags[s][i]) \ status}
        \cup {Xmit(s, i, txInv[s])}

\* transit_message::retransmit_frags: only fragments, never the XMIT.
retransmit_frags(s, i, status) ==
    {Frag(s, i, k, txInv[s]) : k \in Frags(numfrags[s][i]) \ status}

MutNoRetransmit(s) == {}

\* frame_state::retransmit
retransmit(s) == UNION {retransmit_frags(s, i, txStatus[s][i]) : i \in tx[s]}

\* frame_state::flags_agree(eSessionInvalidated), session::is_invalidated
is_invalidated(s) == rxInv[s] /\ txInv[s]

\* session::pump: the send queue goes out after the frames already there.
pump(s, before, pushed) ==
    /\ net' = before \cup sendqueue[s] \cup pushed
    /\ sendqueue' = [sendqueue EXCEPT ![s] = {}]

\* Frames pushed by a handler that returns false wait for the next pump.
hold(s, before, pushed) ==
    /\ net' = before
    /\ sendqueue' = [sendqueue EXCEPT ![s] = @ \cup pushed]
-----------------------------------------------------------------------------
Init ==
    /\ state = [s \in Side |->
                   IF s = "init" THEN "SessionStartSent" ELSE "LIMSent"]
    /\ txids = [s \in Side |-> IF s = "init" THEN 0 ELSE 1]
    /\ \E n \in LimFrags :
          numfrags = [s \in Side |-> [i \in Ids |->
                         IF s = "resp" /\ i = 0 THEN n ELSE 0]]
    /\ tx = [s \in Side |-> IF s = "init" THEN {} ELSE {0}]
    /\ txStatus = [s \in Side |-> [i \in Ids |-> {}]]
    /\ rx = [s \in Side |-> {}]
    /\ rxStatus = [s \in Side |-> [i \in Ids |-> {}]]
    /\ txInv = [s \in Side |-> FALSE]
    /\ rxInv = [s \in Side |-> FALSE]
    /\ sendqueue = [s \in Side |-> {}]
    /\ keepalive = [s \in Side |-> FALSE]
    /\ net = {Xmit("resp", 0, FALSE)}
    /\ handled = [s \in Side |-> [i \in Ids |-> 0]]

MutIdAfterIncrement(s, n) ==
    /\ txids' = [txids EXCEPT ![s] = @ + 1]
    /\ numfrags' = [numfrags EXCEPT ![s][txids[s]] = n]
    /\ tx' = [tx EXCEPT ![s] = @ \cup {txids'[s]}]
    /\ txStatus' = [txStatus EXCEPT ![s][txids[s]] = {}]
MutForgetTx(s, n) ==
    /\ txids' = [txids EXCEPT ![s] = @ + 1]
    /\ numfrags' = [numfrags EXCEPT ![s][txids[s]] = n]
    /\ UNCHANGED <<tx, txStatus>>

\* frame_state::queue_tx of a new transit_message with n full fragments.
queue_tx(s, n) ==
    /\ txids' = [txids EXCEPT ![s] = @ + 1]
    /\ numfrags' = [numfrags EXCEPT ![s][txids[s]] = n]
    /\ tx' = [tx EXCEPT ![s] = @ \cup {txids[s]}]
    /\ txStatus' = [txStatus EXCEPT ![s][txids[s]] = {}]

\* session::sendto and add_outbound_message: reached through m_Connected,
\* which names the session once it is established.
sendto(s) ==
    /\ state[s] = "Established"
    /\ txids[s] < MaxMsgs
    /\ \E n \in FragCounts : queue_tx(s, n)
    /\ pump(s, net, {Xmit(s, txids[s], txInv[s])})
    /\ UNCHANGED <<state, rxVars, flagVars>>
-----------------------------------------------------------------------------
\* What is left under way when frame f arrives.
Remains(f) == IF MayDup THEN {net, net \ {f}} ELSE {net \ {f}}

\* A datagram reaches a session that is still there, is decrypted and its
\* header flags are taken over (frame_state::process).
Arrives(s, f) ==
    /\ f \in net
    /\ f.from = Peer(s)
    /\ state[s] # "Removed"
    /\ rxInv' = [rxInv EXCEPT ![s] = @ \/ f.inv]

\* A message whose handler may refuse it.  The LIMs, message 0 of both ends
\* and the responder's answer to the initiator's LIM, are always accepted.
IsLIM(s, i) == i = 0 \/ (s = "resp" /\ i = 1)

Count(c) == IF c = 0 THEN 1 ELSE 2

\* The branches of inbound_frame_complete for message i at end s; acks are the
\* frames its caller has pushed, before is what is left under way.

\* A spoofed LIM: the session is closed, the handler returns false.
SpoofedLIM(s, i, before, acks) ==
    /\ i = 0 /\ Peer(s) \in BadRC
    /\ txInv' = [txInv EXCEPT ![s] = TRUE]
    /\ keepalive' = [keepalive EXCEPT ![s] = TRUE]
    /\ hold(s, before, acks)
    /\ UNCHANGED <<state, txVars>>

MutFirstLIM(s, i, before, acks) ==
    /\ i = 0
    /\ state[s] # "Established"
    /\ \E n \in LimFrags : queue_tx(s, n)
    /\ pump(s, before, acks \cup {Xmit(s, txids[s], txInv[s])})
    /\ state' = [state EXCEPT ![s] = "Established"]
    /\ UNCHANGED <<txInv, keepalive>>

\* The peer's LIM: we answer with ours and the session is established.
FirstLIM(s, i, before, acks) ==
    /\ i = 0 /\ Peer(s) \notin BadRC
    /\ state[s] # "Established"
    /\ \E n \in LimFrags : queue_tx(s, n)
    /\ pump(s, before, acks \cup {Xmit(s, txids[s], txInv[s])})
    /\ state' = [state EXCEPT ![s] = "Established"]
    /\ UNCHANGED <<txInv, keepalive>>

\* Any other message, accepted by its handler.
Accepted(s, i, before, acks) ==
    /\ i = 0 => (Peer(s) \notin BadRC /\ state[s] = "Established")
    /\ pump(s, before, acks)
    /\ UNCHANGED <<state, txVars, txInv, keepalive>>

\* Any other message, refused by its handler.
Refused(s, i, before, acks) ==
    /\ ~IsLIM(Peer(s), i)
    /\ hold(s, before, acks)
    /\ UNCHANGED <<state, txVars, txInv, keepalive>>

\* frame_state::inbound_frame_complete
inbound_frame_complete(s, i, before, acks) ==
    /\ handled' = [handled EXCEPT ![s][i] = Count(@)]
    /\ rx' = [rx EXCEPT ![s] = @ \ {i}]
    /\ rxStatus' = [rxStatus EXCEPT ![s][i] = {}]
    /\ \/ SpoofedLIM(s, i, before, acks)
       \/ FirstLIM(s, i, before, acks)
       \/ Accepted(s, i, before, acks)
       \/ Refused(s, i, before, acks)

\* frame_state::got_xmit
got_xmit(s, f, before) ==
    /\ f.type = "XMIT"
    /\ IF f.id \in rx[s]
       THEN \* duplicate XMIT: false, and no ACKS
            /\ hold(s, before, {})
            /\ UNCHANGED <<state, txVars, rxVars, txInv, keepalive>>
       ELSE LET ack == {Acks(s, f.id, {}, txInv[s])} IN
            IF numfrags[f.from][f.id] = 0
            THEN inbound_frame_complete(s, f.id, before, ack)
            ELSE /\ rx' = [rx EXCEPT ![s] = @ \cup {f.id}]
                 /\ rxStatus' = [rxStatus EXCEPT ![s][f.id] = {}]
                 /\ pump(s, before, ack)
                 /\ UNCHANGED <<state, txVars, handled, txInv, keepalive>>

\* frame_state::got_frag
got_frag(s, f, before) ==
    /\ f.type = "FRAG"
    /\ IF f.id \notin rx[s]
       THEN \* no such RX fragment: true, and no ACKS
            /\ pump(s, before, {})
            /\ UNCHANGED <<state, txVars, rxVars, txInv, keepalive>>
       ELSE LET n      == numfrags[f.from][f.id]
                status == rxStatus[s][f.id] \cup {f.frag}
                ack    == {Acks(s, f.id, status, txInv[s])} IN
            IF completed(status, n)
            THEN inbound_frame_complete(s, f.id, before, ack)
            ELSE /\ rxStatus' = [rxStatus EXCEPT ![s][f.id] = status]
                 /\ pump(s, before,
                         IF should_send_ack(status, n) THEN ack ELSE {})
                 /\ UNCHANGED <<state, txVars, rx, handled, txInv, keepalive>>

\* frame_state::got_acks
got_acks(s, f, before) ==
    /\ f.type = "ACKS"
    /\ IF f.id \notin tx[s]
       THEN /\ pump(s, before, {})
            /\ UNCHANGED txVars
       ELSE LET status == txStatus[s][f.id] \cup f.mask IN
            /\ IF completed(status, numfrags[s][f.id])
               THEN /\ tx' = [tx EXCEPT ![s] = @ \ {f.id}]
                    /\ txStatus' = [txStatus EXCEPT ![s][f.id] = {}]
                    /\ pump(s, before, {})
               ELSE /\ txStatus' = [txStatus EXCEPT ![s][f.id] = status]
                    /\ pump(s, before, retransmit_frags(s, f.id, status))
                    /\ UNCHANGED tx
            /\ UNCHANGED <<txids, numfrags>>
    /\ UNCHANGED <<state, rxVars, txInv, keepalive>>

\* eALIV in frame_state::process: an invalidated peer invalidates us.
got_aliv(s, f, before) ==
    /\ f.type = "ALIV"
    /\ txInv' = [txInv EXCEPT ![s] = @ \/ rxInv'[s]]
    /\ pump(s, before, {})
    /\ UNCHANGED <<state, txVars, rxVars, keepalive>>

\* session::handle_frame_decrypt of frame f at end s
Recv(s, f) ==
    /\ Arrives(s, f)
    /\ \E before \in Remains(f) :
          \/ got_xmit(s, f, before)
          \/ got_frag(s, f, before)
          \/ got_acks(s, f, before)
          \/ got_aliv(s, f, before)
-----------------------------------------------------------------------------
MutKeepaliveEcho(s) ==
    IF is_invalidated(s) THEN {} ELSE {Aliv(s, txInv[s] \/ rxInv[s])}

\* session::send_keepalive: silent once both sides agree on invalidation.
send_keepalive(s) == IF is_invalidated(s) THEN {} ELSE {Aliv(s, txInv[s])}

\* session::close by the router, of an established session
close(s) ==
    /\ MayClose
    /\ state[s] = "Established"
    /\ txInv' = [txInv EXCEPT ![s] = TRUE]
    /\ keepalive' = [keepalive EXCEPT ![s] = TRUE]
    /\ UNCHANGED <<state, txVars, rxVars, rxInv, sendqueue, net>>

\* the send_keepalive job that close has queued
RunKeepalive(s) ==
    /\ keepalive[s]
    /\ keepalive' = [keepalive EXCEPT ![s] = FALSE]
    /\ IF is_invalidated(s)
       THEN UNCHANGED <<net, sendqueue>>
       ELSE pump(s, net, send_keepalive(s))
    /\ UNCHANGED <<state, txVars, rxVars, txInv, rxInv>>

\* frame_state::clear: what is in tx and rx is freed, acknowledged and handled or
\* not.  txids, numfrags and handled are history from here on, as are the flags.
clear(s) ==
    /\ tx' = [tx EXCEPT ![s] = {}]
    /\ txStatus' = [txStatus EXCEPT ![s] = [i \in Ids |-> {}]]
    /\ rx' = [rx EXCEPT ![s] = {}]
    /\ rxStatus' = [rxStatus EXCEPT ![s] = [i \in Ids |-> {}]]
    /\ UNCHANGED <<txids, numfrags, handled>>

\* server::RemoveSessionByAddr: the session and its queues are freed.
RemoveSession(s) ==
    /\ state' = [state EXCEPT ![s] = "Removed"]
    /\ clear(s)
    /\ sendqueue' = [sendqueue EXCEPT ![s] = {}]
    /\ keepalive' = [keepalive EXCEPT ![s] = FALSE]
    /\ UNCHANGED <<txInv, rxInv, net>>

\* session::Tick, run by TickSessions every 100 ms
TickTimedOut(s) == MayTimeout /\ state[s] # "Removed" /\ RemoveSession(s)

TickInvalidated(s) ==
    state[s] # "Removed" /\ is_invalidated(s) /\ RemoveSession(s)

TickAlive(s) ==
    /\ state[s] \in {"LIMSent", "Established"}
    /\ ~is_invalidated(s)
    /\ pump(s, net, send_keepalive(s) \cup
               IF state[s] = "Established" THEN retransmit(s) ELSE {})
    /\ UNCHANGED <<state, txVars, rxVars, flagVars>>

Tick(s) == TickTimedOut(s) \/ TickInvalidated(s) \/ TickAlive(s)

\* UDP
Lose(f) ==
    /\ MayLose
    /\ net' = net \ {f}
    /\ UNCHANGED <<state, txVars, rxVars, flagVars, sendqueue>>

Next ==
    \/ \E s \in Side :
          \/ sendto(s)
          \/ close(s)
          \/ RunKeepalive(s)
          \/ Tick(s)
          \/ \E f \in net : Recv(s, f)
    \/ \E f \in net : Lose(f)

Spec == Init /\ [][Next]_vars

\* A copy of fragment k of message i arrives.
RecvFragment(s, i, k) ==
    \E f \in net : f.type = "FRAG" /\ f.id = i /\ f.frag = k /\ Recv(s, f)

-----------------------------------------------------------------------------
Frame ==
    [type : {"XMIT"}, from : Side, id : Ids, inv : BOOLEAN]
    \cup [type : {"FRAG"}, from : Side, id : Ids, frag : 0..31, inv : BOOLEAN]
    \cup [type : {"ACKS"}, from : Side, id : Ids, mask : SUBSET (0..31),
          inv : BOOLEAN]
    \cup [type : {"ALIV"}, from : Side, inv : BOOLEAN]

(* Type correctness of the two frame_states and of the network. *)
TypeOK ==
    /\ state \in [Side -> States]
    /\ txids \in [Side -> 0..MaxMsgs]
    /\ numfrags \in [Side -> [Ids -> 0..32]]
    /\ tx \in [Side -> SUBSET Ids]
    /\ txStatus \in [Side -> [Ids -> SUBSET (0..31)]]
    /\ rx \in [Side -> SUBSET Ids]
    /\ rxStatus \in [Side -> [Ids -> SUBSET (0..31)]]
    /\ txInv \in [Side -> BOOLEAN]
    /\ rxInv \in [Side -> BOOLEAN]
    /\ sendqueue \in [Side -> SUBSET Frame]
    /\ keepalive \in [Side -> BOOLEAN]
    /\ net \in SUBSET Frame
    /\ handled \in [Side -> [Ids -> 0..2]]

(* As long as its session lives, a message leaves the sender's tx (got_acks,
   "message transmitted") only after the receiver has reassembled it and given
   it to the router, also if the receiver's session is gone by now: no mix of
   stale, duplicated and reordered ACKS adds up to a full bitmask early. *)
TxDoneMeansHandled ==
    \A s \in Side : state[s] # "Removed" =>
        \A i \in Ids :
            i < txids[s] /\ i \notin tx[s] => handled[Peer(s)][i] > 0

(* While a message has not been handled and its receiver lives, the sender
   believes no fragment received that the receiver does not hold: a fragment
   that is not resent is never one that is still missing. *)
AckedIsHeld ==
    \A s \in Side : \A i \in tx[s] :
        handled[Peer(s)][i] = 0 /\ state[Peer(s)] # "Removed" =>
            txStatus[s][i] \subseteq rxStatus[Peer(s)][i]

(* A half-received message has a sender that still keeps it and resends what is
   missing, until the sender's session is removed and forgets everything: no
   other order of frames and ACKS leaves an rx entry that nobody completes
   (networks that do not duplicate). *)
NoOrphanRx ==
    \A s \in Side : state[Peer(s)] # "Removed" => rx[s] \subseteq tx[Peer(s)]

(* Without duplication by the network no message is handled twice: the code
   never sends an XMIT again, and rx forgets a message only when handled. *)
AtMostOnce ==
    \A s \in Side : \A i \in Ids : handled[s][i] <= 1

(* A session is invalidated on agreement only: an end that sees both flags
   has a peer that set its own, and some end has called close. *)
InvalidationIsMutual ==
    \A s \in Side : rxInv[s] => txInv[Peer(s)]

(* An end is established only by a peer whose LIM it has handled and whose
   RC it has accepted, whatever else has arrived before. *)
EstablishedMeansIdentified ==
    \A s \in Side : state[s] = "Established" =>
        handled[s][0] > 0 /\ Peer(s) \notin BadRC
-----------------------------------------------------------------------------
(* The inductive invariant behind TxDoneMeansHandled and AckedIsHeld. *)

\* The frames of both ends, pumped or not.
AllFrames == net \cup sendqueue["init"] \cup sendqueue["resp"]

\* A frame names a message of its sender (of its addressee, for an ACKS) and
\* fragments that message has, and it says invalidated only if that was set.
FrameSound(f) ==
    /\ f.type \in {"XMIT", "FRAG"} => f.id < txids[f.from]
    /\ f.type = "FRAG" => f.frag \in Frags(numfrags[f.from][f.id])
    /\ f.type = "ACKS" =>
          /\ f.id < txids[Peer(f.from)]
          /\ f.mask \subseteq Frags(numfrags[Peer(f.from)][f.id])
    /\ f.inv => txInv[f.from]

FramesSound == \A f \in AllFrames : FrameSound(f)

\* What is in tx and rx are messages that were sent, with fragments they have.
StatusSound ==
    \A s \in Side : \A i \in Ids :
        /\ i \in tx[s] => i < txids[s]
        /\ i \in rx[s] => i < txids[Peer(s)]
        /\ txStatus[s][i] \subseteq Frags(numfrags[s][i])
        /\ rxStatus[s][i] \subseteq Frags(numfrags[Peer(s)][i])
        /\ i \notin tx[s] => txStatus[s][i] = {}
        /\ i \notin rx[s] => rxStatus[s][i] = {}

\* Before it is established an end has sent at most one LIM.
PhaseSound ==
    \A s \in Side :
        state[s] \in {"SessionStartSent", "LIMSent"} => txids[s] <= 1

\* While message i of end s has not been handled, its receiver's one rx entry
\* is incomplete and holds all that any ACKS and the sender's status claim.
Unhandled(s, i) ==
    /\ txStatus[s][i] \subseteq rxStatus[Peer(s)][i]
    /\ i \in rx[Peer(s)] =>
          ~(Frags(numfrags[s][i]) \subseteq rxStatus[Peer(s)][i])
    /\ \A f \in AllFrames :
          f.type = "ACKS" /\ f.from = Peer(s) /\ f.id = i =>
              i \in rx[Peer(s)] /\ f.mask \subseteq rxStatus[Peer(s)][i]

UnhandledSound ==
    \A s \in Side : \A i \in Ids :
        handled[Peer(s)][i] = 0 /\ state[Peer(s)] # "Removed" => Unhandled(s, i)

\* The ACKS under way for message i of end s.
AcksFor(s, i) ==
    {f \in AllFrames : f.type = "ACKS" /\ f.from = Peer(s) /\ f.id = i}

\* A receiver that was removed before it had the whole message has left no ACKS
\* for it, or there is a fragment that none of them and no status claims.
Unclaimed(s, i) ==
    \/ AcksFor(s, i) = {}
    \/ \E k \in Frags(numfrags[s][i]) :
          k \notin txStatus[s][i] /\ \A f \in AcksFor(s, i) : k \notin f.mask

GoneSound ==
    \A s \in Side : \A i \in Ids :
        handled[Peer(s)][i] = 0 /\ state[Peer(s)] = "Removed" => Unclaimed(s, i)

(* The inductive invariant: what frames, status bits and ids mean, and that
   nothing claims a fragment of an unhandled message its receiver lacks, or
   all fragments of one its receiver never had in full. *)
IInv ==
    /\ TypeOK
    /\ FramesSound
    /\ StatusSound
    /\ PhaseSound
    /\ UnhandledSound
    /\ GoneSound
    /\ TxDoneMeansHandled
    /\ InvalidationIsMutual
-----------------------------------------------------------------------------
\* The messages the sender has forgotten.
Released == [s \in Side |-> {i \in Ids : i < txids[s] /\ i \notin tx[s]}]

Ended == [s \in Side |-> state[s] = "Removed"]

Delivery == INSTANCE LinkDelivery
    WITH sent <- txids, released <- Released, ended <- Ended

(* The frame layer implements the promise of LinkDelivery: every step of the
   two frame_states sends, hands over or releases, ends a session, or changes
   nothing there. *)
ImplementsLinkDelivery == Delivery!Spec

(* Once the XMIT of a message has arrived, Tick's retransmit of what is not
   acknowledged completes it, unless one of the sessions is removed first. *)
FragmentsGetThrough ==
    \A s \in Side : \A i \in Ids :
        (state[s] = "Established" /\ i \in rx[Peer(s)])
            ~> \/ handled[Peer(s)][i] > 0
               \/ "Removed" \in {state[s], state[Peer(s)]}
=============================================================================
