-------------------------- MODULE IwpFrame_proofs --------------------------
(***************************************************************************)
(* Proofs about IwpFrame, for every bound on the messages, every set of    *)
(* fragment counts, every network (lossy, duplicating, reordering) and     *)
(* every pattern of closes and timeouts.                                   *)
(***************************************************************************)
EXTENDS IwpFrame, TLAPS

(* The other end of the other end is this end. *)
LEMMA PeerFacts ==
    ASSUME NEW s \in Side
    PROVE  /\ Peer(s) \in Side
           /\ Peer(Peer(s)) = s
           /\ Peer(s) # s
           /\ \A r \in Side : r # s => r = Peer(s)
  BY DEF Side, Peer

(* The fragments of a message fit the 32 bits of status. *)
LEMMA FragsFit ==
    ASSUME NEW n \in 0..32
    PROVE  Frags(n) \subseteq 0..31
  BY DEF Frags

(* Every constructor of a frame yields a frame. *)
LEMMA FrameTypes ==
    ASSUME NEW s \in Side, NEW i \in Ids, NEW v \in BOOLEAN
    PROVE  /\ Xmit(s, i, v) \in Frame
           /\ \A k \in 0..31 : Frag(s, i, k, v) \in Frame
           /\ \A m \in SUBSET (0..31) : Acks(s, i, m, v) \in Frame
           /\ Aliv(s, v) \in Frame
  BY DEF Xmit, Frag, Acks, Aliv, Frame

(* session::pump adds to the frames of both ends only what was pushed. *)
LEMMA PumpFrames ==
    ASSUME TypeOK, NEW s \in Side, NEW before, NEW pushed,
           before \subseteq net, pushed \subseteq Frame, pump(s, before, pushed)
    PROVE  /\ AllFrames' \subseteq AllFrames \cup pushed
           /\ net' \in SUBSET Frame
           /\ sendqueue' \in [Side -> SUBSET Frame]
  BY DEF TypeOK, pump, AllFrames, Side

(* So do the frames that wait for the next pump. *)
LEMMA HoldFrames ==
    ASSUME TypeOK, NEW s \in Side, NEW before, NEW pushed,
           before \subseteq net, pushed \subseteq Frame, hold(s, before, pushed)
    PROVE  /\ AllFrames' \subseteq AllFrames \cup pushed
           /\ net' \in SUBSET Frame
           /\ sendqueue' \in [Side -> SUBSET Frame]
  BY DEF TypeOK, hold, AllFrames, Side

(* What a frame that arrives leaves under way was under way. *)
LEMMA RemainsBelow ==
    ASSUME NEW f, NEW before \in Remains(f)
    PROVE  before \subseteq net
  BY DEF Remains
-----------------------------------------------------------------------------
\* No session is removed.
SameLife == \A r \in Side : state'[r] = "Removed" <=> state[r] = "Removed"

(* What a removed receiver has left behind grows by nothing: the ACKS under way
   get fewer, and a sender's status takes over only what they claim. *)
LEMMA GoneStep ==
    ASSUME IInv, SameLife,
           \A r \in Side : \A j \in Ids : handled'[r][j] = 0 => handled[r][j] = 0,
           \A r \in Side : \A j \in Ids :
               j < txids[r] => numfrags'[r][j] = numfrags[r][j],
           \A r \in Side : \A j \in Ids :
               txStatus'[r][j] \subseteq
                   txStatus[r][j] \cup UNION {f.mask : f \in AcksFor(r, j)},
           \A f \in AllFrames' :
               f \in AllFrames \/ f.type # "ACKS" \/ state[f.from] # "Removed"
    PROVE  GoneSound'
<1>1. SUFFICES ASSUME NEW r \in Side, NEW j \in Ids,
                      handled'[Peer(r)][j] = 0, state'[Peer(r)] = "Removed"
      PROVE  Unclaimed(r, j)'
  BY DEF GoneSound
<1>2. Peer(r) \in Side /\ state[Peer(r)] = "Removed" /\ handled[Peer(r)][j] = 0
  BY <1>1, PeerFacts DEF SameLife
<1>3. Unclaimed(r, j)
  BY <1>2 DEF IInv, GoneSound
<1>4. AcksFor(r, j)' \subseteq AcksFor(r, j)
  BY <1>2 DEF AcksFor
<1>5. CASE AcksFor(r, j) = {}
  BY <1>4, <1>5 DEF Unclaimed
<1>6. CASE AcksFor(r, j) # {}
  <2>1. PICK g \in AcksFor(r, j) : TRUE
    BY <1>6
  <2>2. FrameSound(g) /\ g.type = "ACKS" /\ g.from = Peer(r) /\ g.id = j
    BY <2>1 DEF AcksFor, IInv, FramesSound
  <2>3. j < txids[r]
    BY <2>2, PeerFacts DEF FrameSound
  <2>4. PICK k \in Frags(numfrags[r][j]) :
          k \notin txStatus[r][j] /\ \A f \in AcksFor(r, j) : k \notin f.mask
    BY <1>3, <1>6 DEF Unclaimed
  <2>5. k \in Frags(numfrags'[r][j]) /\ k \notin txStatus'[r][j]
    BY <2>3, <2>4
  <2>6. \A f \in AcksFor(r, j)' : k \notin f.mask
    BY <1>4, <2>4
  <2>7. QED
    BY <2>5, <2>6 DEF Unclaimed
<1>7. QED
  BY <1>5, <1>6

(* A step that leaves every message alone and sends no ACKS. *)
LEMMA QuietStep ==
    ASSUME IInv, TypeOK', PhaseSound', InvalidationIsMutual', SameLife,
           UNCHANGED <<txids, numfrags, tx, txStatus, rx, rxStatus, handled>>,
           \A r \in Side : txInv[r] => txInv'[r],
           NEW pushed, AllFrames' \subseteq AllFrames \cup pushed,
           \A f \in pushed : f.type # "ACKS" /\ FrameSound(f)'
    PROVE  IInv'
<1>0. AllFrames \subseteq Frame
  BY DEF IInv, TypeOK, AllFrames, Side
<1>1. FramesSound'
  <2>1. SUFFICES ASSUME NEW f \in AllFrames PROVE FrameSound(f)'
    BY DEF FramesSound
  <2>2. FrameSound(f) /\ f.from \in Side
    BY <1>0, <2>1 DEF IInv, FramesSound, Frame
  <2>3. QED
    BY <2>2 DEF FrameSound
<1>2. StatusSound'
  BY DEF IInv, StatusSound
<1>3. UnhandledSound'
  BY PeerFacts DEF IInv, UnhandledSound, Unhandled, SameLife
<1>4. TxDoneMeansHandled'
  BY DEF IInv, TxDoneMeansHandled, SameLife
<1>5. GoneSound'
  BY GoneStep
<1>6. QED
  BY <1>1, <1>2, <1>3, <1>4, <1>5 DEF IInv

(* A fragment that is sent again is one its message has. *)
LEMMA RetransmitSound ==
    ASSUME IInv, NEW s \in Side, NEW i \in tx[s], NEW status,
           NEW f \in retransmit_frags(s, i, status)
    PROVE  f \in Frame /\ f.type = "FRAG" /\ FrameSound(f)
<1>1. PICK k \in Frags(numfrags[s][i]) : f = Frag(s, i, k, txInv[s])
  BY DEF retransmit_frags
<1>2. i \in Ids /\ txInv[s] \in BOOLEAN /\ numfrags[s][i] \in 0..32 /\ i < txids[s]
  BY DEF IInv, TypeOK, StatusSound
<1>3. f \in Frame
  BY <1>1, <1>2, FragsFit, FrameTypes
<1>4. QED
  BY <1>1, <1>2, <1>3 DEF Frag, FrameSound

(* The invariant holds when the session key has just been agreed and the
   responder's LIM is under way. *)
LEMMA InitInv == Init => IInv
<1> SUFFICES ASSUME Init PROVE IInv
  OBVIOUS
<1> USE MaxMsgsAssumption, FragAssumption DEF Init
<1>1. TypeOK
  <2>1. net \in SUBSET Frame
    <3>1. "resp" \in Side /\ 0 \in Ids
      BY DEF Side, Ids
    <3>2. Xmit("resp", 0, FALSE) \in Frame
      BY <3>1, FrameTypes
    <3>3. QED
      BY <3>2
  <2>2. numfrags \in [Side -> [Ids -> 0..32]]
    BY DEF Side
  <2>3. tx \in [Side -> SUBSET Ids]
    BY DEF Side, Ids
  <2>4. txids \in [Side -> 0..MaxMsgs] /\ state \in [Side -> States]
    BY DEF Side, States
  <2>5. txStatus \in [Side -> [Ids -> SUBSET (0..31)]]
        /\ rxStatus \in [Side -> [Ids -> SUBSET (0..31)]]
        /\ rx \in [Side -> SUBSET Ids]
        /\ sendqueue \in [Side -> SUBSET Frame]
    OBVIOUS
  <2>6. /\ txInv \in [Side -> BOOLEAN]
        /\ rxInv \in [Side -> BOOLEAN]
        /\ keepalive \in [Side -> BOOLEAN]
        /\ handled \in [Side -> [Ids -> 0..2]]
    OBVIOUS
  <2>7. QED
    BY <2>1, <2>2, <2>3, <2>4, <2>5, <2>6 DEF TypeOK
<1>2. AllFrames = {Xmit("resp", 0, FALSE)}
  BY DEF AllFrames, Side
<1>3. FramesSound
  BY <1>2 DEF FramesSound, FrameSound, Xmit, Side
<1>4. StatusSound
  BY DEF StatusSound, Side, Peer
<1>5. PhaseSound
  BY DEF PhaseSound, Side
<1>6. UnhandledSound
  BY <1>2 DEF UnhandledSound, Unhandled, Xmit, Side, Peer
<1>7. TxDoneMeansHandled
  BY DEF TxDoneMeansHandled, Side, Ids
<1>8. InvalidationIsMutual
  BY DEF InvalidationIsMutual, Side
<1>9. GoneSound
  BY DEF GoneSound, Side, Peer
<1>10. QED
  BY <1>1, <1>3, <1>4, <1>5, <1>6, <1>7, <1>8, <1>9 DEF IInv
-----------------------------------------------------------------------------
(* The header flags taken over from a frame are flags its sender has set. *)
LEMMA ArrivesFlags ==
    ASSUME IInv, NEW s \in Side, NEW f, Arrives(s, f)
    PROVE  /\ f \in Frame /\ f \in AllFrames /\ FrameSound(f) /\ f.from = Peer(s)
           /\ rxInv' \in [Side -> BOOLEAN]
           /\ \A r \in Side : rxInv'[r] => txInv[Peer(r)]
<1>1. f \in Frame /\ f \in AllFrames /\ FrameSound(f) /\ f.from = Peer(s)
  BY DEF IInv, TypeOK, FramesSound, AllFrames, Arrives
<1>2. f.inv \in BOOLEAN
  BY <1>1 DEF Frame
<1>3. rxInv \in [Side -> BOOLEAN] /\ rxInv' = [rxInv EXCEPT ![s] = rxInv[s] \/ f.inv]
  BY DEF IInv, TypeOK, Arrives
<1>4. rxInv' \in [Side -> BOOLEAN]
  BY <1>2, <1>3, Zenon
<1>5. ASSUME NEW r \in Side, rxInv'[r] PROVE txInv[Peer(r)]
  <2>1. CASE r = s
    <3>1. rxInv[s] \/ f.inv
      BY <1>3, <1>5, <2>1, Zenon
    <3>2. f.inv => txInv[f.from]
      BY <1>1 DEF FrameSound
    <3>3. rxInv[s] => txInv[Peer(s)]
      BY DEF IInv, InvalidationIsMutual
    <3>4. QED
      BY <1>1, <2>1, <3>1, <3>2, <3>3
  <2>2. CASE r # s
    <3>1. rxInv[r]
      BY <1>3, <1>5, <2>2, Zenon
    <3>2. QED
      BY <3>1 DEF IInv, InvalidationIsMutual
  <2>3. QED
    BY <2>1, <2>2
<1>6. QED
  BY <1>1, <1>4, <1>5

(* A datagram lost by UDP takes nothing from the invariant. *)
LEMMA LoseInv ==
    ASSUME IInv, NEW f \in net, Lose(f)
    PROVE  IInv'
<1> USE DEF Lose, txVars, rxVars, flagVars
<1> DEFINE pushed == {}
<1>1. TypeOK'
  BY DEF IInv, TypeOK
<1>2. PhaseSound' /\ InvalidationIsMutual'
  BY DEF IInv, PhaseSound, InvalidationIsMutual
<1>3. AllFrames' \subseteq AllFrames \cup pushed
  BY DEF AllFrames
<1>4. /\ UNCHANGED <<txids, numfrags, tx, txStatus, rx, rxStatus, handled>>
      /\ \A r \in Side : txInv[r] => txInv'[r]
      /\ \A g \in pushed : g.type # "ACKS" /\ FrameSound(g)'
      /\ SameLife
  BY DEF SameLife
<1> HIDE DEF pushed
<1>5. QED
  BY <1>1, <1>2, <1>3, <1>4, QuietStep, Zenon

(* session::close only sets a flag and queues a job. *)
LEMMA CloseInv ==
    ASSUME IInv, NEW s \in Side, close(s)
    PROVE  IInv'
<1> USE DEF close, txVars, rxVars, flagVars
<1> DEFINE pushed == {}
<1>1. TypeOK'
  BY DEF IInv, TypeOK
<1>2. \A r \in Side : txInv[r] => txInv'[r]
  BY DEF IInv, TypeOK
<1>3. PhaseSound' /\ InvalidationIsMutual'
  BY <1>2, PeerFacts DEF IInv, PhaseSound, InvalidationIsMutual
<1>4. AllFrames' \subseteq AllFrames \cup pushed
  BY DEF AllFrames
<1>5. /\ UNCHANGED <<txids, numfrags, tx, txStatus, rx, rxStatus, handled>>
      /\ \A r \in Side : txInv[r] => txInv'[r]
      /\ \A g \in pushed : g.type # "ACKS" /\ FrameSound(g)'
      /\ SameLife
  BY <1>2 DEF SameLife
<1> HIDE DEF pushed
<1>6. QED
  BY <1>1, <1>2, <1>3, <1>4, <1>5, QuietStep, Zenon

(* Freeing a session (RemoveSessionByAddr) forgets its messages.  Its peer is
   left with claims about them that no longer grow, and that never add up to a
   message the removed end had only in part. *)
LEMMA RemoveInv ==
    ASSUME IInv, NEW s \in Side, state[s] # "Removed", RemoveSession(s)
    PROVE  IInv'
<1> USE DEF RemoveSession, clear
<1>0. /\ tx \in [Side -> SUBSET Ids]
      /\ txStatus \in [Side -> [Ids -> SUBSET (0..31)]]
      /\ rx \in [Side -> SUBSET Ids]
      /\ rxStatus \in [Side -> [Ids -> SUBSET (0..31)]]
      /\ state \in [Side -> States]
      /\ sendqueue \in [Side -> SUBSET Frame]
  BY DEF IInv, TypeOK
<1>1. TypeOK'
  BY DEF IInv, TypeOK, States
<1>2. PhaseSound' /\ InvalidationIsMutual'
  BY DEF IInv, TypeOK, PhaseSound, InvalidationIsMutual
<1>3. AllFrames' \subseteq AllFrames
  BY <1>0 DEF AllFrames, Side
<1>4. FramesSound'
  BY <1>3 DEF IInv, FramesSound, FrameSound
<1>5. \A r \in Side : r # s =>
          /\ tx'[r] = tx[r] /\ txStatus'[r] = txStatus[r]
          /\ rx'[r] = rx[r] /\ rxStatus'[r] = rxStatus[r]
          /\ state'[r] = state[r]
  BY <1>0
<1>6. /\ tx'[s] = {} /\ rx'[s] = {} /\ state'[s] = "Removed"
      /\ \A j \in Ids : txStatus'[s][j] = {} /\ rxStatus'[s][j] = {}
  BY <1>0
<1>7. \A r \in Side : Peer(r) \in Side /\ (Peer(r) = s <=> r # s)
  BY DEF Side, Peer
<1>8. StatusSound'
  <2>1. SUFFICES ASSUME NEW r \in Side, NEW j \in Ids
        PROVE /\ j \in tx'[r] => j < txids[r]
              /\ j \in rx'[r] => j < txids[Peer(r)]
              /\ txStatus'[r][j] \subseteq Frags(numfrags[r][j])
              /\ rxStatus'[r][j] \subseteq Frags(numfrags[Peer(r)][j])
              /\ j \notin tx'[r] => txStatus'[r][j] = {}
              /\ j \notin rx'[r] => rxStatus'[r][j] = {}
    BY DEF StatusSound
  <2>2. CASE r = s
    BY <1>6, <2>2
  <2>3. CASE r # s
    BY <1>5, <2>3 DEF IInv, StatusSound
  <2>4. QED
    BY <2>2, <2>3
<1>9. UnhandledSound'
  <2>1. SUFFICES ASSUME NEW r \in Side, NEW j \in Ids,
                        handled[Peer(r)][j] = 0, state'[Peer(r)] # "Removed"
        PROVE Unhandled(r, j)'
    BY DEF UnhandledSound
  <2>2. Peer(r) # s /\ r = s /\ Peer(r) \in Side
    BY <1>6, <1>7, <2>1
  <2>3. Unhandled(r, j)
    BY <1>5, <2>1, <2>2 DEF IInv, UnhandledSound
  <2>4. QED
    BY <1>3, <1>5, <1>6, <2>2, <2>3 DEF Unhandled
<1>10. GoneSound'
  <2>1. SUFFICES ASSUME NEW r \in Side, NEW j \in Ids,
                        handled[Peer(r)][j] = 0, state'[Peer(r)] = "Removed"
        PROVE Unclaimed(r, j)'
    BY DEF GoneSound
  <2>2. AcksFor(r, j)' \subseteq AcksFor(r, j)
    BY <1>3 DEF AcksFor
  <2>3. CASE r = s
    <3>1. Unclaimed(r, j)
      BY <1>5, <1>7, <2>1, <2>3 DEF IInv, GoneSound
    <3>2. QED
      BY <1>6, <2>2, <2>3, <3>1 DEF Unclaimed
  <2>4. CASE r # s
    <3>1. Peer(r) = s /\ txStatus'[r] = txStatus[r]
      BY <1>5, <1>7, <2>4
    <3>2. Unhandled(r, j)
      BY <2>1, <3>1 DEF IInv, UnhandledSound
    <3>3. CASE j \notin rx[s]
      <4>1. AcksFor(r, j) = {}
        BY <3>1, <3>2, <3>3 DEF Unhandled, AcksFor
      <4>2. QED
        BY <2>2, <4>1 DEF Unclaimed
    <3>4. CASE j \in rx[s]
      <4>1. PICK k \in Frags(numfrags[r][j]) : k \notin rxStatus[s][j]
        BY <3>1, <3>2, <3>4 DEF Unhandled
      <4>2. k \notin txStatus[r][j] /\ \A f \in AcksFor(r, j) : k \notin f.mask
        BY <3>1, <3>2, <4>1 DEF Unhandled, AcksFor
      <4>3. QED
        BY <2>2, <3>1, <4>1, <4>2 DEF Unclaimed
    <3>5. QED
      BY <3>3, <3>4
  <2>5. QED
    BY <2>3, <2>4
<1>11. TxDoneMeansHandled'
  BY <1>5, <1>6 DEF IInv, TxDoneMeansHandled
<1>12. QED
  BY <1>1, <1>2, <1>4, <1>8, <1>9, <1>10, <1>11 DEF IInv

(* A keepalive frame carries the flag its sender has. *)
LEMMA KeepaliveSound ==
    ASSUME IInv, NEW s \in Side, NEW f \in send_keepalive(s)
    PROVE  f \in Frame /\ f.type = "ALIV" /\ FrameSound(f)
<1>1. f = Aliv(s, txInv[s]) /\ txInv[s] \in BOOLEAN
  BY DEF send_keepalive, IInv, TypeOK
<1>2. f \in Frame
  BY <1>1, FrameTypes, MaxMsgsAssumption DEF Ids
<1>3. QED
  BY <1>1, <1>2 DEF Aliv, FrameSound

(* The keepalive job of close preserves the invariant. *)
LEMMA RunKeepaliveInv ==
    ASSUME IInv, NEW s \in Side, RunKeepalive(s)
    PROVE  IInv'
<1> USE DEF RunKeepalive, txVars, rxVars
<1>0. send_keepalive(s) \subseteq Frame
  BY KeepaliveSound
<1>1. /\ AllFrames' \subseteq AllFrames \cup send_keepalive(s)
      /\ net' \in SUBSET Frame
      /\ sendqueue' \in [Side -> SUBSET Frame]
  <2>1. CASE is_invalidated(s)
    BY <2>1 DEF AllFrames, IInv, TypeOK
  <2>2. CASE ~is_invalidated(s)
    BY <2>2, <1>0, PumpFrames DEF IInv
  <2>3. QED
    BY <2>1, <2>2
<1>2. TypeOK'
  BY <1>1 DEF IInv, TypeOK
<1>3. PhaseSound' /\ InvalidationIsMutual'
  BY DEF IInv, PhaseSound, InvalidationIsMutual
<1>4. \A f \in send_keepalive(s) : f.type # "ACKS" /\ FrameSound(f)'
  BY KeepaliveSound DEF FrameSound
<1>5. SameLife /\ \A r \in Side : txInv[r] => txInv'[r]
  BY DEF SameLife
<1>6. QED
  BY <1>1, <1>2, <1>3, <1>4, <1>5, QuietStep, Zenon

(* session::Tick with its keepalive and retransmissions preserves it. *)
LEMMA TickAliveInv ==
    ASSUME IInv, NEW s \in Side, TickAlive(s)
    PROVE  IInv'
<1> USE DEF TickAlive, txVars, rxVars, flagVars
<1> DEFINE pushed == send_keepalive(s) \cup
               IF state[s] = "Established" THEN retransmit(s) ELSE {}
<1>0. \A f \in pushed : f \in Frame /\ f.type # "ACKS" /\ FrameSound(f)
  BY KeepaliveSound, RetransmitSound DEF retransmit
<1>1. /\ AllFrames' \subseteq AllFrames \cup pushed
      /\ net' \in SUBSET Frame
      /\ sendqueue' \in [Side -> SUBSET Frame]
  <2>1. pump(s, net, pushed) /\ pushed \subseteq Frame
    BY <1>0
  <2> HIDE DEF pushed
  <2>2. QED
    BY <2>1, PumpFrames DEF IInv
<1>2. TypeOK'
  BY <1>1 DEF IInv, TypeOK
<1>3. PhaseSound' /\ InvalidationIsMutual'
  BY DEF IInv, PhaseSound, InvalidationIsMutual
<1>4. \A f \in pushed : f.type # "ACKS" /\ FrameSound(f)'
  BY <1>0 DEF FrameSound
<1>5. SameLife /\ \A r \in Side : txInv[r] => txInv'[r]
  BY DEF SameLife
<1>6. UNCHANGED <<txids, numfrags, tx, txStatus, rx, rxStatus, handled>>
  OBVIOUS
<1> HIDE DEF pushed
<1>7. QED
  BY <1>1, <1>2, <1>3, <1>4, <1>5, <1>6, QuietStep, Zenon
-----------------------------------------------------------------------------
(* What a step does to the outbound messages when it queues at most new ones:
   ids grow, known messages stay, and nothing leaves tx. *)
TxGrows ==
    /\ \A r \in Side : txids[r] <= txids'[r]
    /\ \A r \in Side : \A j \in Ids :
          /\ j < txids[r] => numfrags'[r][j] = numfrags[r][j]
          /\ j < txids'[r] /\ j \notin tx'[r] => j < txids[r] /\ j \notin tx[r]
          /\ j \in tx'[r] => j < txids'[r]
          /\ j \notin tx'[r] => txStatus'[r][j] = {}
          /\ txStatus'[r][j] \subseteq txStatus[r][j]
          /\ txStatus'[r][j] \subseteq Frags(numfrags'[r][j])

TxTypeOK ==
    /\ txids \in [Side -> 0..MaxMsgs]
    /\ numfrags \in [Side -> [Ids -> 0..32]]
    /\ tx \in [Side -> SUBSET Ids]
    /\ txStatus \in [Side -> [Ids -> SUBSET (0..31)]]

(* A step that leaves the outbound messages alone lets them grow trivially. *)
LEMMA TxUnchanged ==
    ASSUME IInv, UNCHANGED txVars
    PROVE  TxGrows /\ TxTypeOK'
  BY DEF IInv, TypeOK, StatusSound, txVars, TxGrows, TxTypeOK

(* frame_state::queue_tx takes an id no message has had. *)
LEMMA QueueTx ==
    ASSUME IInv, NEW s \in Side, NEW n \in 0..32, txids[s] < MaxMsgs,
           queue_tx(s, n)
    PROVE  TxGrows /\ TxTypeOK' /\ txids[s] \in Ids
           /\ txids'[s] = txids[s] + 1
<1>1. txids[s] \in Ids
  BY MaxMsgsAssumption DEF IInv, TypeOK, Ids
<1>2. TxTypeOK'
  <2>1. txids' \in [Side -> 0..MaxMsgs]
    BY MaxMsgsAssumption DEF IInv, TypeOK, queue_tx
  <2>2. numfrags' \in [Side -> [Ids -> 0..32]]
    BY <1>1 DEF IInv, TypeOK, queue_tx
  <2>3. tx' \in [Side -> SUBSET Ids]
    BY <1>1 DEF IInv, TypeOK, queue_tx
  <2>4. txStatus' \in [Side -> [Ids -> SUBSET (0..31)]]
    BY <1>1 DEF IInv, TypeOK, queue_tx
  <2>5. QED
    BY <2>1, <2>2, <2>3, <2>4 DEF TxTypeOK
<1>3. TxGrows
  <2>1. /\ txids \in [Side -> 0..MaxMsgs] /\ tx \in [Side -> SUBSET Ids]
        /\ numfrags \in [Side -> [Ids -> 0..32]]
        /\ txStatus \in [Side -> [Ids -> SUBSET (0..31)]]
    BY DEF IInv, TypeOK
  <2>2. \A r \in Side : txids[r] <= txids'[r]
    BY <2>1, MaxMsgsAssumption DEF queue_tx
  <2>3. ASSUME NEW r \in Side, NEW j \in Ids
        PROVE  /\ j < txids[r] => numfrags'[r][j] = numfrags[r][j]
               /\ j < txids'[r] /\ j \notin tx'[r] => j < txids[r] /\ j \notin tx[r]
               /\ j \in tx'[r] => j < txids'[r]
               /\ j \notin tx'[r] => txStatus'[r][j] = {}
               /\ txStatus'[r][j] \subseteq txStatus[r][j]
               /\ txStatus'[r][j] \subseteq Frags(numfrags'[r][j])
    <3>1. /\ j \in tx[r] => j < txids[r]
          /\ txStatus[r][j] \subseteq Frags(numfrags[r][j])
          /\ j \notin tx[r] => txStatus[r][j] = {}
      BY DEF IInv, StatusSound
    <3>2. j \in Nat /\ txids[r] \in Nat
      BY <2>1, MaxMsgsAssumption DEF Ids
    <3>3. CASE r = s /\ j = txids[s]
      <4>1. j \in tx'[r] /\ txStatus'[r][j] = {} /\ txids'[r] = txids[r] + 1
        BY <1>1, <2>1, <3>3 DEF queue_tx
      <4>2. QED
        BY <3>2, <3>3, <4>1
    <3>4. CASE ~(r = s /\ j = txids[s])
      <4>1. /\ numfrags'[r][j] = numfrags[r][j]
            /\ txStatus'[r][j] = txStatus[r][j]
            /\ j \in tx'[r] <=> j \in tx[r]
            /\ txids'[r] = IF r = s THEN txids[r] + 1 ELSE txids[r]
        BY <1>1, <2>1, <3>4 DEF queue_tx
      <4>2. j < txids'[r] <=> j < txids[r]
        BY <3>2, <3>4, <4>1
      <4>3. QED
        BY <3>1, <4>1, <4>2
    <3>5. QED
      BY <3>3, <3>4
  <2>4. QED
    BY <2>2, <2>3 DEF TxGrows
<1>4. QED
  BY <1>1, <1>2, <1>3 DEF queue_tx, IInv, TypeOK

(* Frames stay sound while messages and flags only grow. *)
LEMMA FramesStable ==
    ASSUME IInv, TxGrows, TxTypeOK', \A r \in Side : txInv[r] => txInv'[r],
           NEW f \in AllFrames
    PROVE  FrameSound(f)' /\ f \in Frame
<1>1. f \in Frame /\ FrameSound(f)
  BY DEF IInv, TypeOK, AllFrames, FramesSound, Side
<1>2. f.from \in Side /\ Peer(f.from) \in Side
  BY <1>1, PeerFacts DEF Frame
<1>3. \A r \in Side : txids[r] \in Nat /\ txids'[r] \in Nat
  BY MaxMsgsAssumption DEF IInv, TypeOK, TxTypeOK
<1>4. f.type \in {"XMIT", "FRAG", "ACKS"} => f.id \in Ids /\ f.id \in Nat
  BY <1>1, MaxMsgsAssumption DEF Frame, Ids
<1>5. QED
  BY <1>1, <1>2, <1>3, <1>4 DEF FrameSound, TxGrows

(* A step that queues messages and sends frames, but receives nothing. *)
LEMMA SendStep ==
    ASSUME IInv, TypeOK', PhaseSound', InvalidationIsMutual', TxGrows, TxTypeOK',
           SameLife,
           UNCHANGED <<rx, rxStatus, handled>>,
           \A r \in Side : txInv[r] => txInv'[r],
           NEW pushed, AllFrames' \subseteq AllFrames \cup pushed,
           \A f \in pushed : f.type # "ACKS" /\ FrameSound(f)'
    PROVE  IInv'
<1>1. FramesSound'
  BY FramesStable DEF FramesSound
<1>2. \A r \in Side : \A j \in Ids : j \in Nat /\ txids[r] \in Nat /\ txids'[r] \in Nat
  BY MaxMsgsAssumption DEF IInv, TypeOK, TxTypeOK, Ids
<1>3. StatusSound'
  <2>1. SUFFICES ASSUME NEW r \in Side, NEW j \in Ids
        PROVE /\ j \in tx'[r] => j < txids'[r]
              /\ j \in rx'[r] => j < txids'[Peer(r)]
              /\ txStatus'[r][j] \subseteq Frags(numfrags'[r][j])
              /\ rxStatus'[r][j] \subseteq Frags(numfrags'[Peer(r)][j])
              /\ j \notin tx'[r] => txStatus'[r][j] = {}
              /\ j \notin rx'[r] => rxStatus'[r][j] = {}
    BY DEF StatusSound
  <2>2. Peer(r) \in Side
    BY PeerFacts
  <2>3. j < txids[Peer(r)] => numfrags'[Peer(r)][j] = numfrags[Peer(r)][j]
    BY <2>2 DEF TxGrows
  <2>4. /\ rxStatus[r][j] \subseteq Frags(numfrags[Peer(r)][j])
        /\ j \in rx[r] => j < txids[Peer(r)]
        /\ j \notin rx[r] => rxStatus[r][j] = {}
    BY DEF IInv, StatusSound
  <2>5. QED
    BY <1>2, <2>2, <2>3, <2>4 DEF TxGrows
<1>4. UnhandledSound'
  <2>1. SUFFICES ASSUME NEW r \in Side, NEW j \in Ids,
                        handled[Peer(r)][j] = 0, state'[Peer(r)] # "Removed"
        PROVE Unhandled(r, j)'
    BY DEF UnhandledSound
  <2>2. Unhandled(r, j) /\ Peer(r) \in Side
    BY <2>1, PeerFacts DEF IInv, UnhandledSound, SameLife
  <2>3. j \in rx[Peer(r)] => j < txids[r]
    BY PeerFacts DEF IInv, StatusSound
  <2>4. QED
    BY <2>2, <2>3 DEF Unhandled, TxGrows
<1>5. TxDoneMeansHandled'
  BY DEF IInv, TxDoneMeansHandled, TxGrows, SameLife
<1>6. GoneSound'
  BY GoneStep DEF TxGrows
<1>7. QED
  BY <1>1, <1>3, <1>4, <1>5, <1>6 DEF IInv

(* A frame that announces a message just queued. *)
LEMMA XmitSound ==
    ASSUME IInv, NEW s \in Side, NEW n \in 0..32, txids[s] < MaxMsgs,
           queue_tx(s, n), \A r \in Side : txInv[r] => txInv'[r],
           NEW f, f = Xmit(s, txids[s], txInv[s])
    PROVE  f \in Frame /\ f.type = "XMIT" /\ FrameSound(f)'
<1>1. txids[s] \in Ids /\ txids'[s] = txids[s] + 1 /\ txids[s] \in Nat
  BY QueueTx, MaxMsgsAssumption DEF Ids
<1>2. txInv[s] \in BOOLEAN
  BY DEF IInv, TypeOK
<1>3. f \in Frame
  BY <1>1, <1>2, FrameTypes
<1>4. QED
  BY <1>1, <1>3 DEF Xmit, FrameSound

(* session::sendto queues a message and announces it: invariant preserved. *)
LEMMA SendtoInv ==
    ASSUME IInv, NEW s \in Side, sendto(s)
    PROVE  IInv'
<1> USE DEF sendto, rxVars, flagVars
<1> DEFINE pushed == {Xmit(s, txids[s], txInv[s])}
<1>1. PICK n \in 0..32 : queue_tx(s, n)
  BY FragAssumption
<1>2. \A r \in Side : txInv[r] => txInv'[r]
  OBVIOUS
<1>3. \A f \in pushed : f \in Frame /\ f.type # "ACKS" /\ FrameSound(f)'
  BY <1>1, <1>2, XmitSound
<1>4. pump(s, net, pushed) /\ pushed \subseteq Frame
  BY <1>3
<1>5. TxGrows /\ TxTypeOK'
  BY <1>1, QueueTx
<1> HIDE DEF pushed
<1>6. /\ AllFrames' \subseteq AllFrames \cup pushed
      /\ net' \in SUBSET Frame
      /\ sendqueue' \in [Side -> SUBSET Frame]
  BY <1>4, PumpFrames DEF IInv
<1>7. TypeOK'
  BY <1>5, <1>6 DEF IInv, TypeOK, TxTypeOK
<1>8. PhaseSound' /\ InvalidationIsMutual'
  <2>1. InvalidationIsMutual'
    BY DEF IInv, InvalidationIsMutual
  <2>2. PhaseSound'
    BY <1>1 DEF IInv, TypeOK, PhaseSound, queue_tx
  <2>3. QED
    BY <2>1, <2>2
<1>9. UNCHANGED <<rx, rxStatus, handled>> /\ SameLife
  BY DEF SameLife
<1>10. QED
  BY <1>2, <1>3, <1>5, <1>6, <1>7, <1>8, <1>9, SendStep, Zenon
-----------------------------------------------------------------------------
(* A step that changes what end s has received of message i, and adds at most
   new messages: StatusSound and TxDoneMeansHandled. *)
LEMMA ReceiveStatus ==
    ASSUME IInv, TypeOK', TxGrows, TxTypeOK', SameLife, NEW s \in Side,
           NEW i \in Ids,
           i < txids[Peer(s)],
           \A r \in Side : \A j \in Ids : ~(r = s /\ j = i) =>
               /\ j \in rx'[r] <=> j \in rx[r]
               /\ rxStatus'[r][j] = rxStatus[r][j],
           rxStatus'[s][i] \subseteq Frags(numfrags[Peer(s)][i]),
           i \notin rx'[s] => rxStatus'[s][i] = {},
           \A r \in Side : \A j \in Ids : handled[r][j] > 0 => handled'[r][j] > 0
    PROVE  StatusSound' /\ TxDoneMeansHandled'
<1>1. \A r \in Side : \A j \in Ids : j \in Nat /\ txids[r] \in Nat /\ txids'[r] \in Nat
  BY MaxMsgsAssumption DEF IInv, TypeOK, TxTypeOK, Ids
<1>2. StatusSound'
  <2>1. SUFFICES ASSUME NEW r \in Side, NEW j \in Ids
        PROVE /\ j \in tx'[r] => j < txids'[r]
              /\ j \in rx'[r] => j < txids'[Peer(r)]
              /\ txStatus'[r][j] \subseteq Frags(numfrags'[r][j])
              /\ rxStatus'[r][j] \subseteq Frags(numfrags'[Peer(r)][j])
              /\ j \notin tx'[r] => txStatus'[r][j] = {}
              /\ j \notin rx'[r] => rxStatus'[r][j] = {}
    BY DEF StatusSound
  <2>2. Peer(r) \in Side
    BY PeerFacts
  <2>3. /\ j < txids[Peer(r)] => numfrags'[Peer(r)][j] = numfrags[Peer(r)][j]
        /\ txids[Peer(r)] <= txids'[Peer(r)]
    BY <2>2 DEF TxGrows
  <2>4. /\ rxStatus[r][j] \subseteq Frags(numfrags[Peer(r)][j])
        /\ j \in rx[r] => j < txids[Peer(r)]
        /\ j \notin rx[r] => rxStatus[r][j] = {}
    BY DEF IInv, StatusSound
  <2>5. /\ j \in rx'[r] => j < txids'[Peer(r)]
        /\ rxStatus'[r][j] \subseteq Frags(numfrags'[Peer(r)][j])
        /\ j \notin rx'[r] => rxStatus'[r][j] = {}
    <3>1. CASE r = s /\ j = i
      BY <1>1, <2>2, <2>3, <3>1
    <3>2. CASE ~(r = s /\ j = i)
      BY <1>1, <2>2, <2>3, <2>4, <3>2
    <3>3. QED
      BY <3>1, <3>2
  <2>6. QED
    BY <2>5 DEF TxGrows
<1>3. TxDoneMeansHandled'
  BY PeerFacts DEF IInv, TxDoneMeansHandled, TxGrows, SameLife
<1>4. QED
  BY <1>2, <1>3

(* The same step, when message i has been handled after it. *)
LEMMA HandledStep ==
    ASSUME IInv, TypeOK', PhaseSound', InvalidationIsMutual', TxGrows, TxTypeOK',
           SameLife, NEW s \in Side, state[s] # "Removed",
           NEW i \in Ids, i < txids[Peer(s)],
           rx' = [rx EXCEPT ![s] = @ \ {i}],
           rxStatus' = [rxStatus EXCEPT ![s][i] = {}],
           handled' = [handled EXCEPT ![s][i] = Count(@)],
           \A r \in Side : txInv[r] => txInv'[r],
           NEW pushed, AllFrames' \subseteq AllFrames \cup pushed,
           \A f \in pushed : /\ f.type = "ACKS" => f.from = s /\ f.id = i
                             /\ FrameSound(f)'
    PROVE  IInv'
<1>0. /\ rx \in [Side -> SUBSET Ids]
      /\ rxStatus \in [Side -> [Ids -> SUBSET (0..31)]]
      /\ handled \in [Side -> [Ids -> 0..2]]
  BY DEF IInv, TypeOK
<1>1. FramesSound'
  BY FramesStable DEF FramesSound
<1>2. \A r \in Side : \A j \in Ids : ~(r = s /\ j = i) =>
          /\ j \in rx'[r] <=> j \in rx[r]
          /\ rxStatus'[r][j] = rxStatus[r][j]
          /\ handled'[r][j] = handled[r][j]
  BY <1>0
<1>3. i \notin rx'[s] /\ rxStatus'[s][i] = {} /\ handled'[s][i] > 0
  BY <1>0 DEF Count
<1>4. \A r \in Side : \A j \in Ids : handled[r][j] > 0 => handled'[r][j] > 0
  BY <1>2, <1>3
<1>5. StatusSound' /\ TxDoneMeansHandled'
  BY <1>2, <1>3, <1>4, ReceiveStatus
<1>6. UnhandledSound'
  <2>1. SUFFICES ASSUME NEW r \in Side, NEW j \in Ids,
                        handled'[Peer(r)][j] = 0, state'[Peer(r)] # "Removed"
        PROVE Unhandled(r, j)'
    BY DEF UnhandledSound
  <2>2. Peer(r) \in Side /\ ~(Peer(r) = s /\ j = i)
    BY <1>3, <2>1, PeerFacts
  <2>3. Unhandled(r, j)
    BY <1>2, <2>1, <2>2 DEF IInv, UnhandledSound, SameLife
  <2>4. j \in rx[Peer(r)] => j < txids[r]
    BY <2>2, PeerFacts DEF IInv, StatusSound
  <2>5. QED
    BY <1>2, <2>2, <2>3, <2>4 DEF Unhandled, TxGrows
<1>7. GoneSound'
  <2>1. \A r \in Side : \A j \in Ids : handled'[r][j] = 0 => handled[r][j] = 0
    BY <1>2, <1>3
  <2>2. QED
    BY <2>1, GoneStep DEF TxGrows
<1>8. QED
  BY <1>1, <1>5, <1>6, <1>7 DEF IInv

(* An ACKS for fragments the message has. *)
LEMMA AckSound ==
    ASSUME IInv, NEW s \in Side, NEW i \in Ids, i < txids[Peer(s)],
           NEW m, m \subseteq Frags(numfrags[Peer(s)][i]),
           NEW a, a = Acks(s, i, m, txInv[s])
    PROVE  /\ a \in Frame /\ FrameSound(a)
           /\ a.type = "ACKS" /\ a.from = s /\ a.id = i /\ a.mask = m
<1>1. Peer(s) \in Side /\ txInv[s] \in BOOLEAN
  BY PeerFacts DEF IInv, TypeOK
<1>2. m \in SUBSET (0..31)
  <2>1. numfrags[Peer(s)][i] \in 0..32
    BY <1>1 DEF IInv, TypeOK
  <2>2. QED
    BY <2>1, FragsFit
<1>3. a \in Frame
  BY <1>1, <1>2, FrameTypes
<1>4. QED
  BY <1>3 DEF Acks, FrameSound

(* The ACKS stays sound while messages and flags only grow. *)
LEMMA AckStable ==
    ASSUME IInv, TxGrows, TxTypeOK', \A r \in Side : txInv[r] => txInv'[r],
           NEW s \in Side, NEW i \in Ids, i < txids[Peer(s)],
           NEW m, m \subseteq Frags(numfrags[Peer(s)][i]),
           NEW a, a = Acks(s, i, m, txInv[s])
    PROVE  FrameSound(a)'
<1>1. FrameSound(a) /\ a.type = "ACKS" /\ a.from = s /\ a.id = i
  BY AckSound
<1>2. Peer(s) \in Side /\ i \in Nat /\ txids[Peer(s)] \in Nat /\ txids'[Peer(s)] \in Nat
  BY PeerFacts, MaxMsgsAssumption DEF IInv, TypeOK, TxTypeOK, Ids
<1>3. QED
  BY <1>1, <1>2 DEF FrameSound, TxGrows

(* frame_state::inbound_frame_complete, whatever the router says. *)
LEMMA CompleteInv ==
    ASSUME IInv, NEW s \in Side, NEW f, Arrives(s, f),
           NEW i \in Ids, i < txids[Peer(s)],
           NEW m, m \subseteq Frags(numfrags[Peer(s)][i]),
           NEW before, before \subseteq net,
           inbound_frame_complete(s, i, before, {Acks(s, i, m, txInv[s])})
    PROVE  IInv'
<1>0. PICK ack : ack = Acks(s, i, m, txInv[s])
  OBVIOUS
<1> DEFINE acks == {ack}
<1>1. ack \in Frame /\ ack.type = "ACKS" /\ ack.from = s /\ ack.id = i
  BY <1>0, AckSound
<1>2. acks \subseteq Frame
  BY <1>1
<1>3. /\ handled' = [handled EXCEPT ![s][i] = Count(@)]
      /\ rx' = [rx EXCEPT ![s] = @ \ {i}]
      /\ rxStatus' = [rxStatus EXCEPT ![s][i] = {}]
  BY DEF inbound_frame_complete
<1>4. /\ handled' \in [Side -> [Ids -> 0..2]]
      /\ rx' \in [Side -> SUBSET Ids]
      /\ rxStatus' \in [Side -> [Ids -> SUBSET (0..31)]]
  BY <1>3 DEF IInv, TypeOK, Count
<1>5. rxInv' \in [Side -> BOOLEAN] /\ \A r \in Side : rxInv'[r] => txInv[Peer(r)]
  BY ArrivesFlags
<1>9. state[s] # "Removed" /\ state \in [Side -> States]
  BY DEF Arrives, IInv, TypeOK
<1>6. CASE FirstLIM(s, i, before, acks)
  <2>0. PICK lim : lim = Xmit(s, txids[s], txInv[s])
    OBVIOUS
  <2> DEFINE pushed == acks \cup {lim}
  <2>1. PICK n \in 0..32 : queue_tx(s, n)
    BY <1>6, FragAssumption DEF FirstLIM
  <2>2. txids[s] < MaxMsgs
    <3>1. state[s] \in {"SessionStartSent", "LIMSent"}
      BY <1>6 DEF FirstLIM, Arrives, IInv, TypeOK, States
    <3>2. txids[s] <= 1 /\ txids[s] \in Nat
      BY <3>1, MaxMsgsAssumption DEF IInv, TypeOK, PhaseSound
    <3>3. QED
      BY <3>2, MaxMsgsAssumption
  <2>3. /\ UNCHANGED <<txInv, keepalive>> /\ pump(s, before, pushed)
        /\ state' = [state EXCEPT ![s] = "Established"]
    BY <1>6, <2>0 DEF FirstLIM
  <2>4. TxGrows /\ TxTypeOK'
    BY <2>1, <2>2, QueueTx
  <2>5. \A r \in Side : txInv[r] => txInv'[r]
    BY <2>3
  <2>6. lim \in Frame /\ lim.type = "XMIT" /\ FrameSound(lim)'
    BY <2>0, <2>1, <2>2, <2>5, XmitSound
  <2>7. FrameSound(ack)'
    BY <1>0, <2>4, <2>5, AckStable
  <2>8. \A g \in pushed : /\ g.type = "ACKS" => g.from = s /\ g.id = i
                          /\ FrameSound(g)'
    BY <1>1, <2>6, <2>7
  <2>14. pushed \subseteq Frame
    BY <1>1, <2>6
  <2> HIDE DEF pushed
  <2>9. /\ AllFrames' \subseteq AllFrames \cup pushed
        /\ net' \in SUBSET Frame
        /\ sendqueue' \in [Side -> SUBSET Frame]
    BY <2>3, <2>14, PumpFrames DEF IInv
  <2>10. TypeOK'
    BY <1>4, <1>5, <2>3, <2>4, <2>9 DEF IInv, TypeOK, TxTypeOK, States
  <2>11. PhaseSound'
    BY <2>1, <2>3 DEF IInv, TypeOK, PhaseSound, queue_tx
  <2>12. InvalidationIsMutual'
    BY <1>5, <2>3 DEF InvalidationIsMutual
  <2>15. SameLife
    BY <1>9, <2>3 DEF SameLife
  <2>13. QED
    BY <1>3, <1>9, <2>15, <2>4, <2>5, <2>8, <2>9, <2>10, <2>11, <2>12, HandledStep, Zenon
<1>7. CASE \/ SpoofedLIM(s, i, before, acks)
           \/ Accepted(s, i, before, acks)
           \/ Refused(s, i, before, acks)
  <2>1. /\ UNCHANGED <<state, txVars>>
        /\ hold(s, before, acks) \/ pump(s, before, acks)
    BY <1>7 DEF SpoofedLIM, Accepted, Refused
  <2>2. /\ txInv' \in [Side -> BOOLEAN] /\ keepalive' \in [Side -> BOOLEAN]
        /\ \A r \in Side : txInv[r] => txInv'[r]
    BY <1>7 DEF SpoofedLIM, Accepted, Refused, IInv, TypeOK
  <2>3. TxGrows /\ TxTypeOK'
    BY <2>1, TxUnchanged
  <2>4. FrameSound(ack)'
    BY <1>0, <2>2, <2>3, AckStable
  <2>5. \A g \in acks : /\ g.type = "ACKS" => g.from = s /\ g.id = i
                        /\ FrameSound(g)'
    BY <1>1, <2>4
  <2> HIDE DEF acks
  <2>6. /\ AllFrames' \subseteq AllFrames \cup acks
        /\ net' \in SUBSET Frame
        /\ sendqueue' \in [Side -> SUBSET Frame]
    BY <1>2, <2>1, PumpFrames, HoldFrames DEF IInv
  <2>7. TypeOK'
    BY <1>4, <1>5, <2>1, <2>2, <2>3, <2>6 DEF IInv, TypeOK, TxTypeOK
  <2>8. PhaseSound'
    BY <2>1 DEF IInv, PhaseSound, txVars
  <2>9. InvalidationIsMutual'
    BY <1>5, <2>2, PeerFacts DEF InvalidationIsMutual
  <2>11. SameLife
    BY <2>1 DEF SameLife
  <2>10. QED
    BY <1>3, <1>9, <2>11, <2>2, <2>3, <2>5, <2>6, <2>7, <2>8, <2>9, HandledStep, Zenon
<1>8. QED
  BY <1>0, <1>6, <1>7 DEF inbound_frame_complete
-----------------------------------------------------------------------------
(* A step that opens or fills the rx entry of message i at end s and
   acknowledges no more than the entry holds afterwards. *)
LEMMA FillStep ==
    ASSUME IInv, TypeOK', PhaseSound', InvalidationIsMutual', SameLife,
           UNCHANGED <<txids, numfrags, tx, txStatus, txInv, handled>>,
           NEW s \in Side, state[s] # "Removed",
           NEW i \in Ids, i < txids[Peer(s)],
           NEW status, status \subseteq Frags(numfrags[Peer(s)][i]),
           rxStatus[s][i] \subseteq status,
           ~(Frags(numfrags[Peer(s)][i]) \subseteq status),
           rx' = [rx EXCEPT ![s] = @ \cup {i}],
           rxStatus' = [rxStatus EXCEPT ![s][i] = status],
           NEW pushed, AllFrames' \subseteq AllFrames \cup pushed,
           \A f \in pushed : /\ f.type = "ACKS" /\ f.from = s /\ f.id = i
                             /\ f.mask \subseteq status
                             /\ FrameSound(f)
    PROVE  IInv'
<1>0. /\ rx \in [Side -> SUBSET Ids]
      /\ rxStatus \in [Side -> [Ids -> SUBSET (0..31)]]
  BY DEF IInv, TypeOK
<1>1. TxGrows /\ TxTypeOK'
  BY TxUnchanged DEF txVars
<1>2. FramesSound'
  <2>1. ASSUME NEW f \in pushed PROVE FrameSound(f)'
    BY DEF FrameSound
  <2>2. ASSUME NEW f \in AllFrames PROVE FrameSound(f)'
    BY <1>1, FramesStable
  <2>3. QED
    BY <2>1, <2>2 DEF FramesSound
<1>3. \A r \in Side : \A j \in Ids : ~(r = s /\ j = i) =>
          /\ j \in rx'[r] <=> j \in rx[r]
          /\ rxStatus'[r][j] = rxStatus[r][j]
  BY <1>0
<1>4. i \in rx'[s] /\ rxStatus'[s][i] = status
  BY <1>0
<1>5. StatusSound' /\ TxDoneMeansHandled'
  BY <1>1, <1>3, <1>4, ReceiveStatus
<1>6. UnhandledSound'
  <2>1. SUFFICES ASSUME NEW r \in Side, NEW j \in Ids,
                        handled[Peer(r)][j] = 0, state'[Peer(r)] # "Removed"
        PROVE Unhandled(r, j)'
    BY DEF UnhandledSound
  <2>2. Peer(r) \in Side /\ Peer(Peer(r)) = r
    BY PeerFacts
  <2>3. Unhandled(r, j)
    BY <2>1, <2>2 DEF IInv, UnhandledSound, SameLife
  <2>4. CASE Peer(r) = s /\ j = i
    BY <1>4, <2>2, <2>3, <2>4 DEF Unhandled
  <2>5. CASE ~(Peer(r) = s /\ j = i)
    BY <1>3, <2>2, <2>3, <2>5 DEF Unhandled
  <2>6. QED
    BY <2>4, <2>5
<1>7. GoneSound'
  BY GoneStep
<1>8. QED
  BY <1>2, <1>5, <1>6, <1>7 DEF IInv

(* frame_state::got_xmit preserves the invariant, for a duplicate XMIT, a
   message of one fragment and a longer one. *)
LEMMA GotXmitInv ==
    ASSUME IInv, NEW s \in Side, NEW f, Arrives(s, f),
           NEW before \in Remains(f), got_xmit(s, f, before)
    PROVE  IInv'
<1>0. before \subseteq net
  BY RemainsBelow
<1>1. /\ f \in Frame /\ f.from = Peer(s) /\ FrameSound(f) /\ f.type = "XMIT"
      /\ rxInv' \in [Side -> BOOLEAN]
      /\ \A r \in Side : rxInv'[r] => txInv[Peer(r)]
  BY ArrivesFlags DEF got_xmit
<1>2. f.id \in Ids /\ f.id < txids[Peer(s)] /\ Peer(s) \in Side
  BY <1>1, PeerFacts DEF Frame, FrameSound
<1>3. CASE f.id \in rx[s]
  <2> DEFINE pushed == {}
  <2>1. /\ hold(s, before, pushed)
        /\ UNCHANGED <<state, txVars, rxVars, txInv, keepalive>>
    BY <1>3 DEF got_xmit
  <2>2. /\ AllFrames' \subseteq AllFrames \cup pushed
        /\ net' \in SUBSET Frame
        /\ sendqueue' \in [Side -> SUBSET Frame]
    BY <1>0, <2>1, HoldFrames DEF IInv
  <2>3. TypeOK'
    BY <1>1, <2>1, <2>2 DEF IInv, TypeOK, txVars, rxVars
  <2>4. PhaseSound' /\ InvalidationIsMutual'
    BY <1>1, <2>1 DEF IInv, PhaseSound, InvalidationIsMutual, txVars
  <2>5. /\ UNCHANGED <<txids, numfrags, tx, txStatus, rx, rxStatus, handled>>
        /\ \A r \in Side : txInv[r] => txInv'[r]
        /\ \A g \in pushed : g.type # "ACKS" /\ FrameSound(g)'
        /\ SameLife
    BY <2>1 DEF txVars, rxVars, SameLife
  <2> HIDE DEF pushed
  <2>6. QED
    BY <2>2, <2>3, <2>4, <2>5, QuietStep, Zenon
<1>4. CASE f.id \notin rx[s] /\ numfrags[f.from][f.id] = 0
  <2>1. inbound_frame_complete(s, f.id, before, {Acks(s, f.id, {}, txInv[s])})
    BY <1>4 DEF got_xmit
  <2>2. QED
    BY <1>0, <1>2, <2>1, CompleteInv
<1>5. CASE f.id \notin rx[s] /\ numfrags[f.from][f.id] # 0
  <2>0. PICK ack : ack = Acks(s, f.id, {}, txInv[s])
    OBVIOUS
  <2> DEFINE pushed == {ack}
  <2>1. /\ pump(s, before, pushed)
        /\ rx' = [rx EXCEPT ![s] = @ \cup {f.id}]
        /\ rxStatus' = [rxStatus EXCEPT ![s][f.id] = {}]
        /\ UNCHANGED <<state, txVars, handled, txInv, keepalive>>
    BY <1>5, <2>0 DEF got_xmit
  <2>2. /\ ack \in Frame /\ FrameSound(ack)
        /\ ack.type = "ACKS" /\ ack.from = s /\ ack.id = f.id /\ ack.mask = {}
    BY <1>2, <2>0, AckSound
  <2>3. /\ AllFrames' \subseteq AllFrames \cup pushed
        /\ net' \in SUBSET Frame
        /\ sendqueue' \in [Side -> SUBSET Frame]
    BY <1>0, <2>1, <2>2, PumpFrames DEF IInv
  <2>4. TypeOK'
    BY <1>1, <1>2, <2>1, <2>3 DEF IInv, TypeOK, txVars
  <2>5. PhaseSound' /\ InvalidationIsMutual'
    BY <1>1, <2>1 DEF IInv, PhaseSound, InvalidationIsMutual, txVars
  <2>6. ~(Frags(numfrags[Peer(s)][f.id]) \subseteq {})
    <3>1. numfrags[Peer(s)][f.id] \in 0..32 /\ numfrags[Peer(s)][f.id] # 0
      BY <1>1, <1>2, <1>5 DEF IInv, TypeOK
    <3>2. 0 \in Frags(numfrags[Peer(s)][f.id])
      BY <3>1 DEF Frags
    <3>3. QED
      BY <3>2
  <2>7. rxStatus[s][f.id] \subseteq {}
    BY <1>2, <1>5 DEF IInv, StatusSound
  <2>8. /\ UNCHANGED <<txids, numfrags, tx, txStatus, txInv, handled>>
        /\ SameLife /\ state[s] # "Removed"
    BY <2>1 DEF txVars, SameLife, Arrives
  <2>9. {} \subseteq Frags(numfrags[Peer(s)][f.id])
    OBVIOUS
  <2>10. \A g \in pushed : /\ g.type = "ACKS" /\ g.from = s /\ g.id = f.id
                           /\ g.mask \subseteq {}
                           /\ FrameSound(g)
    BY <2>2
  <2> HIDE DEF pushed
  <2>11. QED
    BY <1>2, <2>1, <2>3, <2>4, <2>5, <2>6, <2>7, <2>8, <2>9, <2>10, FillStep,
       Zenon
<1>6. QED
  BY <1>3, <1>4, <1>5

(* A received frame that has no effect on any message. *)
LEMMA IgnoredFrame ==
    ASSUME IInv, NEW s \in Side, NEW f, Arrives(s, f), NEW before \in Remains(f),
           pump(s, before, {}), UNCHANGED <<state, txVars, rxVars, keepalive>>,
           txInv' \in [Side -> BOOLEAN], \A r \in Side : txInv[r] => txInv'[r]
    PROVE  IInv'
<1> DEFINE pushed == {}
<1>1. /\ AllFrames' \subseteq AllFrames \cup pushed
      /\ net' \in SUBSET Frame
      /\ sendqueue' \in [Side -> SUBSET Frame]
  BY RemainsBelow, PumpFrames DEF IInv
<1>2. rxInv' \in [Side -> BOOLEAN] /\ \A r \in Side : rxInv'[r] => txInv[Peer(r)]
  BY ArrivesFlags
<1>3. TypeOK'
  BY <1>1, <1>2 DEF IInv, TypeOK, txVars, rxVars
<1>4. PhaseSound' /\ InvalidationIsMutual'
  BY <1>2, PeerFacts DEF IInv, PhaseSound, InvalidationIsMutual, txVars
<1>5. /\ UNCHANGED <<txids, numfrags, tx, txStatus, rx, rxStatus, handled>>
      /\ \A g \in pushed : g.type # "ACKS" /\ FrameSound(g)'
      /\ SameLife
  BY DEF txVars, rxVars, SameLife
<1> HIDE DEF pushed
<1>6. QED
  BY <1>1, <1>3, <1>4, <1>5, QuietStep, Zenon

(* frame_state::got_frag preserves the invariant, for an unknown message, a
   fragment that completes it and one that does not. *)
LEMMA GotFragInv ==
    ASSUME IInv, NEW s \in Side, NEW f, Arrives(s, f),
           NEW before \in Remains(f), got_frag(s, f, before)
    PROVE  IInv'
<1> DEFINE n == numfrags[f.from][f.id]
           status == rxStatus[s][f.id] \cup {f.frag}
<1>0. before \subseteq net
  BY RemainsBelow
<1>1. /\ f \in Frame /\ f.from = Peer(s) /\ FrameSound(f) /\ f.type = "FRAG"
      /\ rxInv' \in [Side -> BOOLEAN]
      /\ \A r \in Side : rxInv'[r] => txInv[Peer(r)]
  BY ArrivesFlags DEF got_frag
<1>2. f.id \in Ids /\ f.id < txids[Peer(s)] /\ Peer(s) \in Side
  BY <1>1, PeerFacts DEF Frame, FrameSound
<1>3. status \subseteq Frags(numfrags[Peer(s)][f.id]) /\ status \in SUBSET (0..31)
  <2>1. /\ rxStatus[s][f.id] \subseteq Frags(numfrags[Peer(s)][f.id])
        /\ f.frag \in Frags(numfrags[Peer(s)][f.id])
    BY <1>1, <1>2 DEF IInv, StatusSound, FrameSound
  <2>2. numfrags[Peer(s)][f.id] \in 0..32
    BY <1>2 DEF IInv, TypeOK
  <2>3. QED
    BY <2>1, <2>2, FragsFit
<1>4. CASE f.id \notin rx[s]
  <2>1. /\ pump(s, before, {})
        /\ UNCHANGED <<state, txVars, rxVars, txInv, keepalive>>
    BY <1>4 DEF got_frag
  <2>2. txInv' \in [Side -> BOOLEAN] /\ \A r \in Side : txInv[r] => txInv'[r]
    BY <2>1 DEF IInv, TypeOK
  <2>3. QED
    BY <2>1, <2>2, IgnoredFrame
<1>5. CASE f.id \in rx[s] /\ completed(status, n)
  <2>1. inbound_frame_complete(s, f.id, before, {Acks(s, f.id, status, txInv[s])})
    BY <1>5 DEF got_frag
  <2> HIDE DEF status
  <2>2. QED
    BY <1>0, <1>2, <1>3, <2>1, CompleteInv
<1>6. CASE f.id \in rx[s] /\ ~completed(status, n)
  <2>0. PICK st : st = status
    OBVIOUS
  <2>1. PICK ack : ack = Acks(s, f.id, st, txInv[s])
    OBVIOUS
  <2> DEFINE pushed == IF should_send_ack(st, n) THEN {ack} ELSE {}
  <2>2. /\ pump(s, before, pushed)
        /\ rxStatus' = [rxStatus EXCEPT ![s][f.id] = st]
        /\ UNCHANGED <<state, txVars, rx, handled, txInv, keepalive>>
    BY <1>6, <2>0, <2>1 DEF got_frag
  <2>3. rx' = [rx EXCEPT ![s] = @ \cup {f.id}]
    BY <1>6, <2>2 DEF IInv, TypeOK
  <2>4. rxStatus[s][f.id] \subseteq st /\ st \in SUBSET (0..31)
    BY <1>3, <2>0
  <2>5. ~(Frags(numfrags[Peer(s)][f.id]) \subseteq st)
    BY <1>1, <1>6, <2>0 DEF completed
  <2>6. st \subseteq Frags(numfrags[Peer(s)][f.id])
    BY <1>3, <2>0
  <2> HIDE DEF status, n
  <2>7. /\ ack \in Frame /\ FrameSound(ack)
        /\ ack.type = "ACKS" /\ ack.from = s /\ ack.id = f.id /\ ack.mask = st
    BY <1>2, <2>1, <2>6, AckSound
  <2>8. pushed \subseteq Frame
    BY <2>7
  <2>9. \A g \in pushed : /\ g.type = "ACKS" /\ g.from = s /\ g.id = f.id
                          /\ g.mask \subseteq st
                          /\ FrameSound(g)
    BY <2>7
  <2> HIDE DEF pushed
  <2>10. /\ AllFrames' \subseteq AllFrames \cup pushed
         /\ net' \in SUBSET Frame
         /\ sendqueue' \in [Side -> SUBSET Frame]
    BY <1>0, <2>2, <2>8, PumpFrames DEF IInv
  <2>11. TypeOK'
    BY <1>1, <1>2, <2>2, <2>4, <2>10 DEF IInv, TypeOK, txVars
  <2>12. PhaseSound' /\ InvalidationIsMutual'
    BY <1>1, <2>2 DEF IInv, PhaseSound, InvalidationIsMutual, txVars
  <2>13. /\ UNCHANGED <<txids, numfrags, tx, txStatus, txInv, handled>>
         /\ SameLife /\ state[s] # "Removed"
    BY <2>2 DEF txVars, SameLife, Arrives
  <2>14. /\ rxStatus[s][f.id] \subseteq st
         /\ rxStatus' = [rxStatus EXCEPT ![s][f.id] = st]
    BY <2>2, <2>4
  <2>15. QED
    BY <1>2, <2>3, <2>5, <2>6, <2>9, <2>10, <2>11, <2>12, <2>13, <2>14,
       FillStep, Zenon
<1>7. QED
  BY <1>4, <1>5, <1>6

(* A keepalive that arrives (frame_state::process) changes flags only. *)
LEMMA GotAlivInv ==
    ASSUME IInv, NEW s \in Side, NEW f, Arrives(s, f),
           NEW before \in Remains(f), got_aliv(s, f, before)
    PROVE  IInv'
<1>1. txInv' \in [Side -> BOOLEAN] /\ \A r \in Side : txInv[r] => txInv'[r]
  <2>1. rxInv' \in [Side -> BOOLEAN]
    BY ArrivesFlags
  <2>2. txInv \in [Side -> BOOLEAN] /\ txInv' = [txInv EXCEPT ![s] = txInv[s] \/ rxInv'[s]]
    BY DEF IInv, TypeOK, got_aliv
  <2>3. QED
    BY <2>1, <2>2, Zenon
<1>2. QED
  BY <1>1, IgnoredFrame DEF got_aliv

-----------------------------------------------------------------------------
\* What got_acks does to the tx entry of message i, given the new status.
AckedTx(s, i, status) ==
    \/ /\ Frags(numfrags[s][i]) \subseteq status
       /\ tx' = [tx EXCEPT ![s] = @ \ {i}]
       /\ txStatus' = [txStatus EXCEPT ![s][i] = {}]
    \/ tx' = tx /\ txStatus' = [txStatus EXCEPT ![s][i] = status]

(* got_acks: an end learns that fragments of its message i have arrived, or,
   when the mask completes the message, forgets it.  Nothing is claimed that
   the receiver of an unhandled message lacks. *)
LEMMA AckedStep ==
    ASSUME IInv, TypeOK', PhaseSound', InvalidationIsMutual', SameLife,
           UNCHANGED <<txids, numfrags, rx, rxStatus, txInv, handled>>,
           NEW s \in Side, NEW i \in tx[s],
           NEW g \in AllFrames, g.type = "ACKS", g.from = Peer(s), g.id = i,
           NEW status, status = txStatus[s][i] \cup g.mask,
           AckedTx(s, i, status),
           NEW pushed, AllFrames' \subseteq AllFrames \cup pushed,
           \A f \in pushed : f.type # "ACKS" /\ FrameSound(f)'
    PROVE  IInv'
<1>0. /\ tx \in [Side -> SUBSET Ids]
      /\ txStatus \in [Side -> [Ids -> SUBSET (0..31)]]
      /\ i \in Ids /\ Peer(s) \in Side /\ Peer(Peer(s)) = s
      /\ handled[Peer(s)][i] \in 0..2
  BY PeerFacts DEF IInv, TypeOK
<1>1. FramesSound'
  <2>1. ASSUME NEW f \in AllFrames PROVE FrameSound(f)'
    BY DEF IInv, FramesSound, FrameSound
  <2>2. QED
    BY <2>1 DEF FramesSound
<1>2. \A r \in Side : \A j \in Ids : ~(r = s /\ j = i) =>
          /\ j \in tx'[r] <=> j \in tx[r]
          /\ txStatus'[r][j] = txStatus[r][j]
  BY <1>0 DEF AckedTx
<1>3. status \subseteq Frags(numfrags[s][i]) /\ i < txids[s]
  <2>1. FrameSound(g)
    BY DEF IInv, FramesSound
  <2>2. QED
    BY <1>0, <2>1 DEF FrameSound, IInv, StatusSound
<1>4. \/ i \notin tx'[s] /\ txStatus'[s][i] = {} /\ Frags(numfrags[s][i]) \subseteq status
      \/ i \in tx'[s] /\ txStatus'[s][i] = status
  BY <1>0 DEF AckedTx
<1>5. handled[Peer(s)][i] = 0 =>
          /\ ~(Frags(numfrags[s][i]) \subseteq status)
          /\ state[Peer(s)] # "Removed" => status \subseteq rxStatus[Peer(s)][i]
  <2>1. CASE handled[Peer(s)][i] = 0 /\ state[Peer(s)] # "Removed"
    <3>1. Unhandled(s, i)
      BY <1>0, <2>1 DEF IInv, UnhandledSound
    <3>2. i \in rx[Peer(s)] /\ g.mask \subseteq rxStatus[Peer(s)][i]
      BY <3>1 DEF Unhandled
    <3>3. QED
      BY <2>1, <3>1, <3>2 DEF Unhandled
  <2>2. CASE handled[Peer(s)][i] = 0 /\ state[Peer(s)] = "Removed"
    <3>1. Unclaimed(s, i) /\ g \in AcksFor(s, i)
      BY <1>0, <2>2 DEF IInv, GoneSound, AcksFor
    <3>2. PICK k \in Frags(numfrags[s][i]) : k \notin txStatus[s][i] /\ k \notin g.mask
      BY <3>1 DEF Unclaimed
    <3>3. QED
      BY <2>2, <3>2
  <2>3. QED
    BY <2>1, <2>2
<1>6. StatusSound'
  <2>1. SUFFICES ASSUME NEW r \in Side, NEW j \in Ids
        PROVE /\ j \in tx'[r] => j < txids[r]
              /\ txStatus'[r][j] \subseteq Frags(numfrags[r][j])
              /\ j \notin tx'[r] => txStatus'[r][j] = {}
    BY DEF IInv, StatusSound
  <2>2. CASE r = s /\ j = i
    BY <1>3, <1>4, <2>2
  <2>3. CASE ~(r = s /\ j = i)
    BY <1>2, <2>3 DEF IInv, StatusSound
  <2>4. QED
    BY <2>2, <2>3
<1>7. UnhandledSound'
  <2>1. SUFFICES ASSUME NEW r \in Side, NEW j \in Ids,
                        handled[Peer(r)][j] = 0, state'[Peer(r)] # "Removed"
        PROVE Unhandled(r, j)'
    BY DEF UnhandledSound
  <2>2. Unhandled(r, j) /\ state[Peer(r)] # "Removed"
    BY <2>1, PeerFacts DEF IInv, UnhandledSound, SameLife
  <2>3. txStatus'[r][j] \subseteq rxStatus[Peer(r)][j]
    <3>1. CASE r = s /\ j = i
      BY <1>4, <1>5, <2>1, <2>2, <3>1
    <3>2. CASE ~(r = s /\ j = i)
      BY <1>2, <2>2, <3>2 DEF Unhandled
    <3>3. QED
      BY <3>1, <3>2
  <2>4. QED
    BY <2>2, <2>3 DEF Unhandled
<1>8. TxDoneMeansHandled'
  <2>1. SUFFICES ASSUME NEW r \in Side, NEW j \in Ids, state'[r] # "Removed",
                        j < txids[r], j \notin tx'[r]
        PROVE handled[Peer(r)][j] > 0
    BY DEF TxDoneMeansHandled
  <2>2. CASE r = s /\ j = i
    BY <1>0, <1>4, <1>5, <2>1, <2>2
  <2>3. CASE ~(r = s /\ j = i)
    BY <1>2, <2>1, <2>3 DEF IInv, TxDoneMeansHandled, SameLife
  <2>4. QED
    BY <2>2, <2>3
<1>9. GoneSound'
  <2>1. \A r \in Side : \A j \in Ids :
            txStatus'[r][j] \subseteq
                txStatus[r][j] \cup UNION {f.mask : f \in AcksFor(r, j)}
    <3>1. g \in AcksFor(s, i)
      BY DEF AcksFor
    <3>2. QED
      BY <1>2, <1>4, <3>1
  <2>2. QED
    BY <2>1, GoneStep
<1>10. QED
  BY <1>1, <1>6, <1>7, <1>8, <1>9 DEF IInv

(* frame_state::got_acks preserves the invariant. *)
LEMMA GotAcksInv ==
    ASSUME IInv, NEW s \in Side, NEW f, Arrives(s, f),
           NEW before \in Remains(f), got_acks(s, f, before)
    PROVE  IInv'
<1>0. before \subseteq net
  BY RemainsBelow
<1>1. /\ f \in Frame /\ f \in AllFrames /\ f.from = Peer(s) /\ f.type = "ACKS"
      /\ rxInv' \in [Side -> BOOLEAN]
      /\ \A r \in Side : rxInv'[r] => txInv[Peer(r)]
  BY ArrivesFlags DEF got_acks
<1>2. f.id \in Ids /\ f.mask \in SUBSET (0..31) /\ Peer(s) \in Side
  BY <1>1, PeerFacts DEF Frame
<1>3. UNCHANGED <<state, rxVars, txInv, keepalive>>
  BY DEF got_acks
<1>4. CASE f.id \notin tx[s]
  <2>1. pump(s, before, {}) /\ UNCHANGED <<state, txVars, rxVars, keepalive>>
    BY <1>3, <1>4 DEF got_acks
  <2>2. txInv' \in [Side -> BOOLEAN] /\ \A r \in Side : txInv[r] => txInv'[r]
    BY <1>3 DEF IInv, TypeOK
  <2>3. QED
    BY <2>1, <2>2, IgnoredFrame
<1>5. CASE f.id \in tx[s]
  <2>1. PICK st : st = txStatus[s][f.id] \cup f.mask
    OBVIOUS
  <2>2. PICK pushed \in {{}, retransmit_frags(s, f.id, st)} :
          /\ AckedTx(s, f.id, st)
          /\ pump(s, before, pushed)
          /\ UNCHANGED <<txids, numfrags>>
    BY <1>5, <2>1 DEF got_acks, AckedTx, completed
  <2>3. UNCHANGED <<txids, numfrags, rx, rxStatus, txInv, handled>> /\ SameLife
    BY <1>3, <2>2 DEF rxVars, SameLife
  <2>4. \A h \in pushed : h \in Frame /\ h.type # "ACKS" /\ FrameSound(h)'
    <3>1. SUFFICES ASSUME NEW h \in retransmit_frags(s, f.id, st)
          PROVE h \in Frame /\ h.type # "ACKS" /\ FrameSound(h)'
      BY <2>2
    <3>2. h \in Frame /\ h.type = "FRAG" /\ FrameSound(h)
      BY <1>5, RetransmitSound
    <3>3. QED
      BY <2>3, <3>2 DEF FrameSound
  <2>5. /\ AllFrames' \subseteq AllFrames \cup pushed
        /\ net' \in SUBSET Frame
        /\ sendqueue' \in [Side -> SUBSET Frame]
    <3>1. pushed \subseteq Frame
      BY <2>4
    <3>2. QED
      BY <1>0, <2>2, <3>1, PumpFrames DEF IInv
  <2>6. /\ tx' \in [Side -> SUBSET Ids]
        /\ txStatus' \in [Side -> [Ids -> SUBSET (0..31)]]
    <3>1. /\ tx \in [Side -> SUBSET Ids]
          /\ txStatus \in [Side -> [Ids -> SUBSET (0..31)]]
      BY DEF IInv, TypeOK
    <3>2. st \in SUBSET (0..31)
      BY <1>2, <2>1, <3>1
    <3>3. tx' \in [Side -> SUBSET Ids]
      BY <2>2, <3>1 DEF AckedTx
    <3>4. txStatus' \in [Side -> [Ids -> SUBSET (0..31)]]
      <4>1. PICK w \in SUBSET (0..31) :
              txStatus' = [txStatus EXCEPT ![s][f.id] = w]
        BY <2>2, <3>2 DEF AckedTx
      <4>2. QED
        BY <1>2, <3>1, <4>1
    <3>5. QED
      BY <3>3, <3>4
  <2>7. TypeOK'
    BY <1>1, <1>3, <2>3, <2>5, <2>6 DEF IInv, TypeOK
  <2>8. PhaseSound' /\ InvalidationIsMutual'
    BY <1>1, <1>3, <2>3 DEF IInv, PhaseSound, InvalidationIsMutual
  <2>9. /\ \A h \in pushed : h.type # "ACKS" /\ FrameSound(h)'
        /\ AllFrames' \subseteq AllFrames \cup pushed
    BY <2>4, <2>5
  <2>10. QED
    BY <1>1, <1>5, <2>1, <2>2, <2>3, <2>7, <2>8, <2>9, AckedStep, Zenon
<1>6. QED
  BY <1>4, <1>5
-----------------------------------------------------------------------------
(* Every step of the two ends and of the network preserves the invariant. *)
LEMMA NextInv == IInv /\ [Next]_vars => IInv'
<1> SUFFICES ASSUME IInv, [Next]_vars PROVE IInv'
  OBVIOUS
<1>1. ASSUME NEW s \in Side, sendto(s) PROVE IInv'
  BY <1>1, SendtoInv
<1>2. ASSUME NEW s \in Side, close(s) PROVE IInv'
  BY <1>2, CloseInv
<1>3. ASSUME NEW s \in Side, RunKeepalive(s) PROVE IInv'
  BY <1>3, RunKeepaliveInv
<1>4. ASSUME NEW s \in Side, Tick(s) PROVE IInv'
  BY <1>4, RemoveInv, TickAliveInv DEF Tick, TickTimedOut, TickInvalidated
<1>5. ASSUME NEW s \in Side, NEW f \in net, Recv(s, f) PROVE IInv'
  <2>1. PICK before \in Remains(f) :
          \/ got_xmit(s, f, before)
          \/ got_frag(s, f, before)
          \/ got_acks(s, f, before)
          \/ got_aliv(s, f, before)
    BY <1>5 DEF Recv
  <2>2. Arrives(s, f)
    BY <1>5 DEF Recv
  <2>3. QED
    BY <2>1, <2>2, GotXmitInv, GotFragInv, GotAcksInv, GotAlivInv
<1>6. ASSUME NEW f \in net, Lose(f) PROVE IInv'
  BY <1>6, LoseInv
<1>7. CASE UNCHANGED vars
  <2> USE <1>7 DEF vars, txVars, rxVars, flagVars
  <2> DEFINE pushed == {}
  <2>1. TypeOK'
    BY DEF IInv, TypeOK
  <2>2. PhaseSound' /\ InvalidationIsMutual'
    BY DEF IInv, PhaseSound, InvalidationIsMutual
  <2>3. AllFrames' \subseteq AllFrames \cup pushed
    BY DEF AllFrames
  <2>4. /\ UNCHANGED <<txids, numfrags, tx, txStatus, rx, rxStatus, handled>>
        /\ \A r \in Side : txInv[r] => txInv'[r]
        /\ \A g \in pushed : g.type # "ACKS" /\ FrameSound(g)'
        /\ SameLife
    BY DEF SameLife
  <2> HIDE DEF pushed
  <2>5. QED
    BY <2>1, <2>2, <2>3, <2>4, QuietStep, Zenon
<1>8. QED
  BY <1>1, <1>2, <1>3, <1>4, <1>5, <1>6, <1>7 DEF Next

(* The invariant of the frame layer holds in every reachable state. *)
THEOREM InvariantHolds == Spec => []IInv
<1>1. Init => IInv
  BY InitInv
<1>2. IInv /\ [Next]_vars => IInv'
  BY NextInv
<1>3. QED
  BY <1>1, <1>2, PTL DEF Spec

(* Type correctness of the two frame_states and of the network. *)
THEOREM TypeCorrect == Spec => []TypeOK
<1>1. IInv => TypeOK
  BY DEF IInv
<1>2. QED
  BY <1>1, InvariantHolds, PTL

(* got_acks lets the sender forget a message only after the receiver has
   reassembled it and handed it to the router, for any number of messages and
   any loss, duplication and reordering of frames. *)
THEOREM ReleasedIsHandled == Spec => []TxDoneMeansHandled
<1>1. IInv => TxDoneMeansHandled
  BY DEF IInv
<1>2. QED
  BY <1>1, InvariantHolds, PTL

(* Until a message is handled its sender's status bits, which decide what Tick
   resends, claim only fragments that got_frag has stored. *)
THEOREM NoFragmentForgotten == Spec => []AckedIsHeld
<1>1. IInv => AckedIsHeld
  BY DEF IInv, TypeOK, UnhandledSound, Unhandled, AckedIsHeld
<1>2. QED
  BY <1>1, InvariantHolds, PTL

(* An end that has received SESSION_INVALIDATED has a peer that has set it:
   is_invalidated is never true at one end only by a stray flag. *)
THEOREM CloseIsMutual == Spec => []InvalidationIsMutual
<1>1. IInv => InvalidationIsMutual
  BY DEF IInv
<1>2. QED
  BY <1>1, InvariantHolds, PTL

-----------------------------------------------------------------------------
\* The refinement of LinkDelivery: sent is txids, released is Released, and a
\* session has ended when its state is "Removed".

(* A queued message is not a released one. *)
LEMMA QueueKeepsReleased ==
    ASSUME IInv, NEW s \in Side, NEW n \in 0..32, txids[s] < MaxMsgs,
           queue_tx(s, n)
    PROVE  Delivery!SendMore(s) /\ Released' = Released
<1>1. /\ txids \in [Side -> 0..MaxMsgs] /\ tx \in [Side -> SUBSET Ids]
      /\ txids' = [txids EXCEPT ![s] = @ + 1]
      /\ tx' = [tx EXCEPT ![s] = @ \cup {txids[s]}]
  BY DEF IInv, TypeOK, queue_tx
<1>2. ASSUME NEW r \in Side, NEW j \in Ids
      PROVE  (j < txids'[r] /\ j \notin tx'[r]) <=> (j < txids[r] /\ j \notin tx[r])
  <2>1. j \in Nat /\ txids[r] \in Nat
    BY <1>1, MaxMsgsAssumption DEF Ids
  <2>2. QED
    BY <1>1, <2>1
<1>3. Released' = Released
  BY <1>2 DEF Released
<1>4. QED
  BY <1>1, <1>3 DEF Delivery!SendMore

(* What inbound_frame_complete does is a Handle, or the answer to a LIM. *)
LEMMA CompleteRefines ==
    ASSUME IInv, NEW s \in Side, state[s] # "Removed",
           NEW i \in Ids, i < txids[Peer(s)], NEW before, NEW acks,
           inbound_frame_complete(s, i, before, acks)
    PROVE  Delivery!Next
<1>1. s \in Delivery!Ends /\ Delivery!Other(s) = Peer(s) /\ i \in 0..(MaxMsgs - 1)
  BY DEF Side, Delivery!Ends, Delivery!Other, Peer, Ids
<1>2. Delivery!Hand(s, i) /\ ~Ended[s]
  BY <1>1 DEF inbound_frame_complete, Delivery!Hand, Count, Ended
<1>3. CASE FirstLIM(s, i, before, acks)
  <2>1. PICK n \in 0..32 : queue_tx(s, n)
    BY <1>3, FragAssumption DEF FirstLIM
  <2>2. txids[s] < MaxMsgs
    <3>1. state[s] \in {"SessionStartSent", "LIMSent"}
      BY <1>3 DEF FirstLIM, IInv, TypeOK, States
    <3>2. txids[s] <= 1 /\ txids[s] \in Nat
      BY <3>1, MaxMsgsAssumption DEF IInv, TypeOK, PhaseSound
    <3>3. QED
      BY <3>2, MaxMsgsAssumption
  <2>3. Delivery!SendMore(s) /\ Released' = Released
    BY <2>1, <2>2, QueueKeepsReleased
  <2>4. i = 0
    BY <1>3 DEF FirstLIM
  <2>5. Ended' = Ended
    BY <1>3 DEF FirstLIM, Ended, IInv, TypeOK
  <2>6. Delivery!HandleAndAnswer(s)
    BY <1>2, <2>3, <2>4, <2>5 DEF Delivery!HandleAndAnswer
  <2>7. QED
    BY <1>1, <1>2, <2>6 DEF Delivery!Next
<1>4. CASE \/ SpoofedLIM(s, i, before, acks)
           \/ Accepted(s, i, before, acks)
           \/ Refused(s, i, before, acks)
  <2>1. UNCHANGED <<state, txids, tx>>
    BY <1>4 DEF SpoofedLIM, Accepted, Refused, txVars
  <2>2. Delivery!Handle(s, i)
    BY <1>2, <2>1 DEF Delivery!Handle, Released, Ended
  <2>3. QED
    BY <1>1, <1>2, <2>2 DEF Delivery!Next
<1>5. QED
  BY <1>3, <1>4 DEF inbound_frame_complete

(* Forgetting an acknowledged message is a Release. *)
LEMMA AcksRefine ==
    ASSUME IInv, IInv', NEW s \in Side, state[s] # "Removed",
           NEW f \in net, f.from = Peer(s), NEW before, got_acks(s, f, before)
    PROVE  Delivery!Next \/ UNCHANGED Delivery!vars
<1>1. /\ f.type = "ACKS" /\ f.id \in Ids /\ UNCHANGED <<state, txids, handled>>
      /\ tx \in [Side -> SUBSET Ids] /\ s \in Delivery!Ends
      /\ Delivery!Other(s) = Peer(s)
  BY DEF got_acks, IInv, TypeOK, Frame, txVars, rxVars, Delivery!Ends, Side,
     Delivery!Other, Peer
<1>2. CASE tx' = tx
  BY <1>1, <1>2 DEF Delivery!vars, Released, Ended
<1>3. CASE f.id \in tx[s] /\ tx' = [tx EXCEPT ![s] = @ \ {f.id}]
  <2>1. f.id < txids[s] /\ f.id \notin tx'[s]
    BY <1>1, <1>3 DEF IInv, StatusSound
  <2>2. handled[Peer(s)][f.id] > 0
    BY <1>1, <2>1 DEF IInv, TxDoneMeansHandled
  <2>3. ASSUME NEW r \in Side
        PROVE  Released'[r] = IF r = s THEN Released[r] \cup {f.id} ELSE Released[r]
    <3>1. CASE r = s
      BY <1>1, <1>3, <2>1, <3>1 DEF Released
    <3>2. CASE r # s
      BY <1>1, <1>3, <3>2 DEF Released
    <3>3. QED
      BY <3>1, <3>2
  <2>4. Released' = [Released EXCEPT ![s] = @ \cup {f.id}]
    BY <2>3 DEF Released
  <2>5. Delivery!Release(s, f.id) /\ ~Ended[s]
    BY <1>1, <2>1, <2>2, <2>4 DEF Delivery!Release, Ended
  <2>6. QED
    BY <1>1, <2>5 DEF Delivery!Next, Ids
<1>4. QED
  BY <1>2, <1>3 DEF got_acks, txVars

(* Removing a session, with all that is in its tx, is an End. *)
LEMMA RemoveRefines ==
    ASSUME IInv, NEW s \in Side, state[s] # "Removed", RemoveSession(s)
    PROVE  Delivery!Next
<1>1. /\ state \in [Side -> States] /\ tx \in [Side -> SUBSET Ids]
      /\ state' = [state EXCEPT ![s] = "Removed"]
      /\ tx' = [tx EXCEPT ![s] = {}]
      /\ UNCHANGED <<txids, handled>>
  BY DEF IInv, TypeOK, RemoveSession, clear
<1>2. Ended' = [Ended EXCEPT ![s] = TRUE] /\ ~Ended[s]
  BY <1>1 DEF Ended
<1>3. ASSUME NEW r \in Side
      PROVE  Released'[r] = IF r = s THEN {i \in Ids : i < txids[s]} ELSE Released[r]
  <2>1. CASE r = s
    BY <1>1, <2>1 DEF Released
  <2>2. CASE r # s
    BY <1>1, <2>2 DEF Released
  <2>3. QED
    BY <2>1, <2>2
<1>4. Released' = [Released EXCEPT ![s] = {i \in Ids : i < txids[s]}]
  BY <1>3 DEF Released
<1>5. Delivery!End(s)
  BY <1>1, <1>2, <1>4 DEF Delivery!End, Ids
<1>6. QED
  BY <1>2, <1>5 DEF Delivery!Next, Delivery!Ends, Side

(* Every step of the frame layer is a step of LinkDelivery or changes nothing
   it speaks of. *)
LEMMA StepRefines ==
    IInv /\ IInv' /\ [Next]_vars => [Delivery!Next]_(Delivery!vars)
<1> SUFFICES ASSUME IInv, IInv', [Next]_vars
             PROVE  Delivery!Next \/ UNCHANGED Delivery!vars
  OBVIOUS
<1> USE DEF txVars, rxVars, flagVars
<1>1. ASSUME NEW s \in Side, sendto(s) PROVE Delivery!Next
  <2>1. PICK n \in 0..32 : queue_tx(s, n)
    BY <1>1, FragAssumption DEF sendto
  <2>2. Delivery!SendMore(s) /\ Released' = Released
    BY <1>1, <2>1, QueueKeepsReleased DEF sendto
  <2>3. Delivery!Send(s) /\ ~Ended[s]
    BY <1>1, <2>2 DEF sendto, Delivery!Send, Ended
  <2>4. QED
    BY <2>3 DEF Delivery!Next, Delivery!Ends, Side
<1>2. ASSUME UNCHANGED <<state, txids, tx, handled>> PROVE UNCHANGED Delivery!vars
  BY <1>2 DEF Delivery!vars, Released, Ended
<1>3. ASSUME NEW s \in Side, close(s) \/ RunKeepalive(s) \/ TickAlive(s)
      PROVE  UNCHANGED Delivery!vars
  BY <1>2, <1>3 DEF close, RunKeepalive, TickAlive
<1>4. ASSUME NEW s \in Side, NEW f \in net, Recv(s, f)
      PROVE  Delivery!Next \/ UNCHANGED Delivery!vars
  <2>1. PICK before \in Remains(f) :
          \/ got_xmit(s, f, before)
          \/ got_frag(s, f, before)
          \/ got_acks(s, f, before)
          \/ got_aliv(s, f, before)
    BY <1>4 DEF Recv
  <2>2. /\ f.from = Peer(s) /\ state[s] # "Removed" /\ f \in Frame
        /\ f.type \in {"XMIT", "FRAG"} => f.id \in Ids /\ f.id < txids[Peer(s)]
    BY <1>4 DEF Recv, Arrives, IInv, TypeOK, FramesSound, AllFrames, FrameSound,
       Frame
  <2>3. CASE got_xmit(s, f, before)
    BY <1>2, <2>2, <2>3, CompleteRefines DEF got_xmit
  <2>4. CASE got_frag(s, f, before)
    BY <1>2, <2>2, <2>4, CompleteRefines DEF got_frag
  <2>5. CASE got_acks(s, f, before)
    BY <2>2, <2>5, AcksRefine
  <2>6. CASE got_aliv(s, f, before)
    BY <1>2, <2>6 DEF got_aliv
  <2>7. QED
    BY <2>1, <2>3, <2>4, <2>5, <2>6
<1>5. ASSUME NEW f \in net, Lose(f) PROVE UNCHANGED Delivery!vars
  BY <1>2, <1>5 DEF Lose
<1>6. CASE UNCHANGED vars
  BY <1>2, <1>6 DEF vars
<1>7. ASSUME NEW s \in Side, TickTimedOut(s) \/ TickInvalidated(s)
      PROVE  Delivery!Next
  BY <1>7, RemoveRefines DEF TickTimedOut, TickInvalidated
<1>8. QED
  BY <1>1, <1>3, <1>4, <1>5, <1>6, <1>7 DEF Next, Tick

(* The frame layer implements LinkDelivery: queue_tx sends, the router's
   HandleRecvLinkMessage handles, got_acks releases, the removal of a session
   ends it, and nothing else is seen. *)
THEOREM RefinesLinkDelivery == Spec => ImplementsLinkDelivery
<1>1. Init => Delivery!Init
  <2>1. ASSUME Init PROVE Released = [s \in Delivery!Ends |-> {}]
    BY <2>1, MaxMsgsAssumption DEF Init, Released, Side, Delivery!Ends, Ids
  <2>2. ASSUME Init PROVE Ended = [s \in Delivery!Ends |-> FALSE]
    BY <2>2 DEF Init, Ended, Side, Delivery!Ends
  <2>3. QED
    BY <2>1, <2>2 DEF Init, Delivery!Init, Delivery!Ends, Side, Ids
<1>2. IInv /\ IInv' /\ [Next]_vars => [Delivery!Next]_(Delivery!vars)
  BY StepRefines
<1>3. QED
  BY <1>1, <1>2, InvariantHolds, PTL DEF Spec, ImplementsLinkDelivery, Delivery!Spec
-----------------------------------------------------------------------------
\* Messages at most once, for networks that do not duplicate.

\* The XMIT of a message is under way once and before its receiver knows the
\* message, an rx entry is of a message not handled yet, and no other frame
\* than an ACKS ever waits in a send queue.
OnceInv ==
    /\ \A s \in Side : \A f \in sendqueue[s] : f.type = "ACKS"
    /\ \A f, g \in net :
          f.type = "XMIT" /\ g.type = "XMIT" /\ f.from = g.from /\ f.id = g.id => f = g
    /\ \A f \in net : f.type = "XMIT" =>
          f.id \notin rx[Peer(f.from)] /\ handled[Peer(f.from)][f.id] = 0
    /\ \A s \in Side : \A i \in rx[s] : handled[s][i] = 0
    /\ \A s \in Side : \A i \in Ids : handled[s][i] > 0 => i < txids[Peer(s)]
    /\ AtMostOnce

\* The frames in net' were there, are no XMIT, or are the XMIT of a new message.
OnlyNewXmit ==
    \A f \in net' : f.type = "XMIT" =>
        \/ f \in net
        \/ \E s \in Side : f = Xmit(s, txids[s], txInv[s])

(* The invariant at the start of the frame layer: one LIM is under way. *)
LEMMA InitOnce == Init => OnceInv
<1> SUFFICES ASSUME Init PROVE OnceInv
  OBVIOUS
<1>1. AtMostOnce
  BY DEF Init, AtMostOnce
<1>2. Peer("resp") = "init" /\ 0 \in Ids
  BY MaxMsgsAssumption DEF Peer, Ids
<1>3. QED
  BY <1>1, <1>2 DEF Init, OnceInv, Xmit, Side

(* A step in which nothing is received: a message is sent or not. *)
LEMMA SendOnce ==
    ASSUME IInv, IInv', OnceInv, UNCHANGED <<rx, handled>>, OnlyNewXmit,
           \A s \in Side : txids[s] <= txids'[s],
           \A s \in Side : \A f \in sendqueue'[s] : f.type = "ACKS"
    PROVE  OnceInv'
<1>1. /\ \A f \in net : f.type = "XMIT" => f.from \in Side /\ f.id < txids[f.from]
      /\ \A s \in Side : txids[s] \in Nat
      /\ \A s \in Side : rx[s] \subseteq Ids
  BY MaxMsgsAssumption DEF IInv, TypeOK, FramesSound, FrameSound, AllFrames, Frame
<1>2. ASSUME NEW s \in Side
      PROVE  /\ Xmit(s, txids[s], txInv[s]).type = "XMIT"
             /\ Xmit(s, txids[s], txInv[s]).from = s
             /\ Xmit(s, txids[s], txInv[s]).id = txids[s]
             /\ txids[s] \notin rx[Peer(s)]
             /\ txids[s] \in Ids => handled[Peer(s)][txids[s]] = 0
  <2>1. Peer(s) \in Side /\ Peer(Peer(s)) = s
    BY PeerFacts
  <2>2. \A i \in rx[Peer(s)] : i < txids[s]
    BY <1>1, <2>1 DEF IInv, StatusSound
  <2>3. txids[s] \in Ids => ~(handled[Peer(s)][txids[s]] > 0) /\ handled[Peer(s)][txids[s]] \in 0..2
    BY <1>1, <2>1 DEF OnceInv, IInv, TypeOK
  <2>4. QED
    BY <1>1, <2>2, <2>3 DEF Xmit
<1>3. ASSUME NEW f \in net', f.type = "XMIT", NEW g \in net', g.type = "XMIT",
             f.from = g.from, f.id = g.id
      PROVE  f = g
  BY <1>1, <1>2, <1>3 DEF OnceInv, OnlyNewXmit
<1>4. ASSUME NEW f \in net', f.type = "XMIT"
      PROVE  f.id \notin rx[Peer(f.from)] /\ handled[Peer(f.from)][f.id] = 0
  <2>1. f.id \in Ids
    BY <1>4 DEF IInv, TypeOK, Frame
  <2>2. QED
    BY <1>2, <1>4, <2>1 DEF OnceInv, OnlyNewXmit
<1>5. \A s \in Side : \A i \in Ids : handled[s][i] > 0 => i < txids'[Peer(s)]
  <2>1. SUFFICES ASSUME NEW s \in Side, NEW i \in Ids, handled[s][i] > 0
        PROVE  i < txids'[Peer(s)]
    OBVIOUS
  <2>2. /\ Peer(s) \in Side /\ i \in Nat /\ i < txids[Peer(s)]
        /\ txids'[Peer(s)] \in Nat /\ txids[Peer(s)] \in Nat
    BY <2>1, PeerFacts, MaxMsgsAssumption DEF OnceInv, IInv, TypeOK, Ids
  <2>3. QED
    BY <2>2
<1>6. QED
  BY <1>3, <1>4, <1>5 DEF OnceInv, AtMostOnce

(* A message is handed to the router: it was not handled before, and its XMIT
   is no longer under way. *)
LEMMA CompleteOnce ==
    ASSUME IInv, IInv', OnceInv, NEW s \in Side, NEW i \in Ids, i < txids[Peer(s)],
           handled[s][i] = 0, NEW before, before \subseteq net, NEW a, a.type = "ACKS",
           \A f \in before : f.type = "XMIT" /\ f.from = Peer(s) => f.id # i,
           inbound_frame_complete(s, i, before, {a})
    PROVE  OnceInv'
<1>1. /\ handled' = [handled EXCEPT ![s][i] = 1]
      /\ rx' = [rx EXCEPT ![s] = @ \ {i}]
  BY DEF inbound_frame_complete, Count
<1>2. /\ \A r \in Side : txids[r] <= txids'[r]
      /\ OnlyNewXmit
      /\ \A f \in net' : f.type = "XMIT" /\ f \in net => f \in before
      /\ \A r \in Side : \A f \in sendqueue'[r] : f.type = "ACKS"
  <2>0. /\ \A r \in Side : txids[r] \in Nat
        /\ \A r \in Side : \A f \in sendqueue[r] : f.type = "ACKS"
        /\ sendqueue \in [Side -> SUBSET Frame]
    BY MaxMsgsAssumption DEF IInv, TypeOK, OnceInv
  <2>1. CASE FirstLIM(s, i, before, {a})
    <3>1. PICK x : x = Xmit(s, txids[s], txInv[s])
      OBVIOUS
    <3>2. x.type = "XMIT" /\ x.from = s /\ x.id = txids[s]
      BY <3>1 DEF Xmit
    <3>3. net' = before \cup sendqueue[s] \cup {a, x} /\ sendqueue' = [sendqueue EXCEPT ![s] = {}]
      BY <2>1, <3>1 DEF FirstLIM, pump
    <3>4. x \notin net
      BY <2>0, <3>2 DEF IInv, FramesSound, FrameSound, AllFrames
    <3>5. \A r \in Side : txids[r] <= txids'[r]
      BY <2>0, <2>1 DEF FirstLIM, queue_tx, IInv, TypeOK
    <3>6. QED
      BY <2>0, <3>1, <3>3, <3>4, <3>5 DEF OnlyNewXmit
  <2>2. CASE SpoofedLIM(s, i, before, {a}) \/ Accepted(s, i, before, {a})
             \/ Refused(s, i, before, {a})
    <3>1. /\ UNCHANGED txids
          /\ net' \subseteq before \cup sendqueue[s] \cup {a}
          /\ \/ sendqueue' = [sendqueue EXCEPT ![s] = {}]
             \/ sendqueue' = [sendqueue EXCEPT ![s] = @ \cup {a}]
      BY <2>2 DEF SpoofedLIM, Accepted, Refused, pump, hold, txVars
    <3>2. QED
      BY <2>0, <3>1 DEF OnlyNewXmit
  <2>3. QED
    BY <2>1, <2>2 DEF inbound_frame_complete
<1>3. /\ handled \in [Side -> [Ids -> 0..2]] /\ rx \in [Side -> SUBSET Ids]
      /\ \A r \in Side : txids[r] \in Nat /\ txids'[r] \in Nat
      /\ \A f \in net : f.type = "XMIT" => f.from \in Side /\ f.id \in Ids /\ f.id < txids[f.from]
      /\ \A f \in net' : f.type = "XMIT" => f.from \in Side /\ f.id \in Ids
  BY MaxMsgsAssumption DEF IInv, TypeOK, FramesSound, FrameSound, AllFrames, Frame
<1>4. ASSUME NEW f \in net', f.type = "XMIT"
      PROVE  /\ f.from \in Side /\ f.id \in Ids
             /\ ~(Peer(f.from) = s /\ f.id = i)
             /\ f.id \notin rx[Peer(f.from)] /\ handled[Peer(f.from)][f.id] = 0
             /\ f \in net \/ f = Xmit(f.from, txids[f.from], txInv[f.from])
             /\ f \notin net => f.id = txids[f.from]
  <2>0. f.from \in Side /\ f.id \in Ids /\ Peer(f.from) \in Side /\ Peer(Peer(f.from)) = f.from
    BY <1>3, <1>4, PeerFacts
  <2>1. CASE f \in net
    BY <1>2, <1>4, <2>0, <2>1 DEF OnceInv
  <2>2. CASE f \notin net
    <3>1. PICK r \in Side : f = Xmit(r, txids[r], txInv[r])
      BY <1>2, <1>4, <2>2 DEF OnlyNewXmit
    <3>2. f.from = r /\ f.id = txids[r]
      BY <3>1 DEF Xmit
    <3>3. f.id \notin rx[Peer(r)] /\ ~(handled[Peer(r)][f.id] > 0)
      BY <1>3, <2>0, <3>2 DEF OnceInv, IInv, StatusSound
    <3>4. QED
      BY <1>3, <2>0, <3>1, <3>2, <3>3
  <2>3. QED
    BY <2>1, <2>2
<1>5. ASSUME NEW f \in net', f.type = "XMIT", NEW g \in net', g.type = "XMIT",
             f.from = g.from, f.id = g.id
      PROVE  f = g
  <2>1. f \in net <=> g \in net
    BY <1>3, <1>4, <1>5
  <2>2. QED
    BY <1>4, <1>5, <2>1 DEF OnceInv
<1>6. \A f \in net' : f.type = "XMIT" =>
          f.id \notin rx'[Peer(f.from)] /\ handled'[Peer(f.from)][f.id] = 0
  <2>1. SUFFICES ASSUME NEW f \in net', f.type = "XMIT"
        PROVE  f.id \notin rx'[Peer(f.from)] /\ handled'[Peer(f.from)][f.id] = 0
    OBVIOUS
  <2>2. f.from \in Side /\ f.id \in Ids /\ Peer(f.from) \in Side
    BY <1>4, <2>1, PeerFacts
  <2>3. QED
    BY <1>1, <1>3, <1>4, <2>1, <2>2
<1>7. \A r \in Side : \A j \in rx'[r] : handled'[r][j] = 0
  BY <1>1, <1>3 DEF OnceInv
<1>8. \A r \in Side : \A j \in Ids : handled'[r][j] > 0 => j < txids'[Peer(r)]
  <2>1. SUFFICES ASSUME NEW r \in Side, NEW j \in Ids, handled'[r][j] > 0
        PROVE  j < txids'[Peer(r)]
    OBVIOUS
  <2>2. /\ Peer(r) \in Side /\ j \in Nat /\ txids[Peer(r)] <= txids'[Peer(r)]
        /\ txids'[Peer(r)] \in Nat /\ txids[Peer(r)] \in Nat
    BY <1>2, <1>3, PeerFacts, MaxMsgsAssumption DEF Ids
  <2>3. j < txids[Peer(r)]
    BY <1>1, <1>3, <2>1 DEF OnceInv
  <2>4. QED
    BY <2>2, <2>3
<1>9. AtMostOnce'
  BY <1>1, <1>3 DEF OnceInv, AtMostOnce
<1>10. QED
  BY <1>2, <1>5, <1>6, <1>7, <1>8, <1>9 DEF OnceInv

(* Frames pushed by pump or left by hold that are no XMIT bring no new one. *)
LEMMA QuietOnce ==
    ASSUME IInv, IInv', OnceInv, UNCHANGED <<rx, handled>>, NEW s \in Side,
           \A r \in Side : txids[r] <= txids'[r],
           NEW before, before \subseteq net, NEW pushed,
           \A f \in pushed : f.type # "XMIT" \/ f = Xmit(s, txids[s], txInv[s]),
           \/ pump(s, before, pushed)
           \/ pushed = {} /\ hold(s, before, pushed)
    PROVE  OnceInv'
<1>1. /\ sendqueue \in [Side -> SUBSET Frame]
      /\ \A r \in Side : \A f \in sendqueue[r] : f.type = "ACKS"
  BY DEF IInv, TypeOK, OnceInv
<1>2. OnlyNewXmit
  BY <1>1 DEF OnlyNewXmit, pump, hold
<1>3. \A r \in Side : \A f \in sendqueue'[r] : f.type = "ACKS"
  BY <1>1 DEF pump, hold
<1>4. QED
  BY <1>2, <1>3, SendOnce

(* frame_state::got_xmit: the XMIT is used up. *)
LEMMA XmitOnce ==
    ASSUME IInv, IInv', OnceInv, ~MayDup, NEW s \in Side, NEW f, Arrives(s, f),
           NEW before \in Remains(f), got_xmit(s, f, before)
    PROVE  OnceInv'
<1>1. /\ before = net \ {f} /\ f \in net /\ f.from = Peer(s) /\ f.type = "XMIT"
  BY DEF Remains, Arrives, got_xmit
<1>2. /\ f.id \in Ids /\ f.id < txids[Peer(s)] /\ Peer(Peer(s)) = s
      /\ f.id \notin rx[s] /\ handled[s][f.id] = 0
  BY <1>1, PeerFacts DEF OnceInv, IInv, TypeOK, Frame, FramesSound, FrameSound, AllFrames
<1>3. PICK a : a = Acks(s, f.id, {}, txInv[s])
  OBVIOUS
<1>4. a.type = "ACKS"
  BY <1>3 DEF Acks
<1>5. CASE numfrags[f.from][f.id] = 0
  <2>1. inbound_frame_complete(s, f.id, before, {a})
    BY <1>2, <1>3, <1>5 DEF got_xmit
  <2>2. \A g \in before : g.type = "XMIT" /\ g.from = Peer(s) => g.id # f.id
    BY <1>1 DEF OnceInv
  <2>3. QED
    BY <1>1, <1>2, <1>4, <2>1, <2>2, CompleteOnce
<1>6. CASE numfrags[f.from][f.id] # 0
  <2>1. /\ rx' = [rx EXCEPT ![s] = @ \cup {f.id}]
        /\ pump(s, before, {a})
        /\ UNCHANGED <<txids, handled>>
    BY <1>2, <1>3, <1>6 DEF got_xmit, txVars
  <2>2. /\ rx \in [Side -> SUBSET Ids] /\ sendqueue \in [Side -> SUBSET Frame]
        /\ net' \subseteq (net \ {f}) \cup sendqueue[s] \cup {a}
        /\ sendqueue' = [sendqueue EXCEPT ![s] = {}]
    BY <1>1, <2>1 DEF pump, IInv, TypeOK
  <2>3. \A g \in net' : g.type = "XMIT" => g \in net \ {f} /\ g.from \in Side
    BY <1>4, <2>2 DEF OnceInv, IInv, TypeOK, Frame
  <2>4. \A g \in net' : g.type = "XMIT" =>
            g.id \notin rx'[Peer(g.from)] /\ handled[Peer(g.from)][g.id] = 0
    <3>1. SUFFICES ASSUME NEW g \in net', g.type = "XMIT"
          PROVE  g.id \notin rx'[Peer(g.from)] /\ handled[Peer(g.from)][g.id] = 0
      OBVIOUS
    <3>2. g \in net /\ g # f /\ g.from \in Side /\ Peer(g.from) \in Side
          /\ Peer(Peer(g.from)) = g.from
      BY <2>3, <3>1, PeerFacts
    <3>3. ~(g.from = f.from /\ g.id = f.id)
      BY <1>1, <3>1, <3>2 DEF OnceInv
    <3>4. ~(Peer(g.from) = s /\ g.id = f.id)
      BY <1>1, <3>2, <3>3
    <3>5. QED
      BY <2>1, <2>2, <3>1, <3>2, <3>4 DEF OnceInv
  <2>5. \A r \in Side : \A j \in rx'[r] : handled[r][j] = 0
    BY <1>2, <2>1, <2>2 DEF OnceInv
  <2>6. QED
    BY <2>1, <2>2, <2>3, <2>4, <2>5 DEF OnceInv, AtMostOnce
<1>7. QED
  BY <1>5, <1>6

(* frame_state::got_frag: what it completes has an rx entry. *)
LEMMA FragOnce ==
    ASSUME IInv, IInv', OnceInv, NEW s \in Side, NEW f, Arrives(s, f),
           NEW before \in Remains(f), got_frag(s, f, before)
    PROVE  OnceInv'
<1>0. before \subseteq net
  BY RemainsBelow
<1>1. /\ f \in net /\ f.from = Peer(s) /\ f.type = "FRAG"
  BY DEF Arrives, got_frag
<1>2. /\ f.id \in Ids /\ f.id < txids[Peer(s)] /\ Peer(s) \in Side /\ Peer(Peer(s)) = s
  BY <1>1, PeerFacts DEF IInv, TypeOK, Frame, FramesSound, FrameSound, AllFrames
<1> DEFINE n == numfrags[f.from][f.id]
           status == rxStatus[s][f.id] \cup {f.frag}
           ack == Acks(s, f.id, status, txInv[s])
<1>3. ack.type = "ACKS"
  BY DEF Acks
<1>4. \A r \in Side : txids[r] \in Nat
  BY MaxMsgsAssumption DEF IInv, TypeOK
<1> HIDE DEF ack
<1>5. CASE f.id \notin rx[s]
  <2>1. pump(s, before, {}) /\ UNCHANGED <<rx, handled, txids>>
    BY <1>5 DEF got_frag, txVars, rxVars
  <2>2. QED
    BY <1>0, <1>4, <2>1, QuietOnce
<1>6. CASE f.id \in rx[s] /\ completed(status, n)
  <2>1. inbound_frame_complete(s, f.id, before, {ack})
    BY <1>6 DEF got_frag, ack
  <2>2. /\ handled[s][f.id] = 0
        /\ \A g \in before : g.type = "XMIT" /\ g.from = Peer(s) => g.id # f.id
    BY <1>0, <1>2, <1>6 DEF OnceInv
  <2>3. QED
    BY <1>0, <1>2, <1>3, <2>1, <2>2, CompleteOnce
<1>7. CASE f.id \in rx[s] /\ ~completed(status, n)
  <2>1. PICK pushed \in SUBSET {ack} : pump(s, before, pushed) /\ UNCHANGED <<rx, handled, txids>>
    BY <1>7 DEF got_frag, ack, txVars
  <2>2. QED
    BY <1>0, <1>3, <1>4, <2>1, QuietOnce
<1>8. QED
  BY <1>5, <1>6, <1>7

(* Without duplication by the network every step keeps the invariant. *)
LEMMA NextOnce ==
    ASSUME IInv, IInv', OnceInv, ~MayDup, [Next]_vars
    PROVE  OnceInv'
<1>0. \A r \in Side : txids[r] \in Nat
  BY MaxMsgsAssumption DEF IInv, TypeOK
<1>1. ASSUME NEW s \in Side, sendto(s) PROVE OnceInv'
  <2>1. /\ pump(s, net, {Xmit(s, txids[s], txInv[s])})
        /\ UNCHANGED <<rx, handled>>
        /\ \A r \in Side : txids[r] <= txids'[r]
    BY <1>0, <1>1 DEF sendto, queue_tx, rxVars, IInv, TypeOK
  <2>2. QED
    BY <2>1, QuietOnce
<1>2. ASSUME NEW s \in Side, close(s) PROVE OnceInv'
  BY <1>2 DEF close, txVars, rxVars, OnceInv, AtMostOnce
<1>3. ASSUME NEW s \in Side, RunKeepalive(s) PROVE OnceInv'
  <2>1. CASE is_invalidated(s)
    BY <1>3, <2>1 DEF RunKeepalive, txVars, rxVars, OnceInv, AtMostOnce
  <2>2. CASE ~is_invalidated(s)
    <3>1. pump(s, net, send_keepalive(s)) /\ UNCHANGED <<rx, handled, txids>>
      BY <1>3, <2>2 DEF RunKeepalive, txVars, rxVars
    <3>2. \A g \in send_keepalive(s) : g.type # "XMIT"
      BY DEF send_keepalive, Aliv
    <3>3. QED
      BY <1>0, <3>1, <3>2, QuietOnce
  <2>3. QED
    BY <2>1, <2>2
<1>4. ASSUME NEW s \in Side, RemoveSession(s) PROVE OnceInv'
  <2>1. sendqueue \in [Side -> SUBSET Frame] /\ rx \in [Side -> SUBSET Ids]
    BY DEF IInv, TypeOK
  <2>2. \A r \in Side : rx'[r] \subseteq rx[r]
    BY <1>4, <2>1 DEF RemoveSession, clear
  <2>3. \A f \in net : f.type = "XMIT" => Peer(f.from) \in Side
    BY PeerFacts DEF IInv, TypeOK, Frame
  <2>4. QED
    BY <1>4, <2>1, <2>2, <2>3 DEF RemoveSession, clear, OnceInv, AtMostOnce
<1>5. ASSUME NEW s \in Side, TickAlive(s) PROVE OnceInv'
  <2> DEFINE pushed == send_keepalive(s) \cup
                 IF state[s] = "Established" THEN retransmit(s) ELSE {}
  <2>1. pump(s, net, pushed) /\ UNCHANGED <<rx, handled, txids>>
    BY <1>5 DEF TickAlive, txVars, rxVars
  <2>2. \A g \in pushed : g.type # "XMIT"
    BY DEF send_keepalive, Aliv, retransmit, retransmit_frags, Frag
  <2> HIDE DEF pushed
  <2>3. QED
    BY <1>0, <2>1, <2>2, QuietOnce
<1>6. ASSUME NEW s \in Side, NEW f \in net, Recv(s, f) PROVE OnceInv'
  <2>1. PICK before \in Remains(f) :
          \/ got_xmit(s, f, before)
          \/ got_frag(s, f, before)
          \/ got_acks(s, f, before)
          \/ got_aliv(s, f, before)
    BY <1>6 DEF Recv
  <2>2. Arrives(s, f) /\ before \subseteq net
    BY <1>6, RemainsBelow DEF Recv
  <2>3. CASE got_acks(s, f, before)
    <3>1. /\ \E pushed : pump(s, before, pushed) /\ \A g \in pushed : g.type # "XMIT"
          /\ UNCHANGED <<rx, handled, txids>>
      BY <2>3 DEF got_acks, txVars, rxVars, retransmit_frags, Frag
    <3>2. QED
      BY <1>0, <2>2, <3>1, QuietOnce
  <2>4. CASE got_aliv(s, f, before)
    <3>1. pump(s, before, {}) /\ UNCHANGED <<rx, handled, txids>>
      BY <2>4 DEF got_aliv, txVars, rxVars
    <3>2. QED
      BY <1>0, <2>2, <3>1, QuietOnce
  <2>5. QED
    BY <2>1, <2>2, <2>3, <2>4, XmitOnce, FragOnce
<1>7. ASSUME NEW f \in net, Lose(f) PROVE OnceInv'
  BY <1>7 DEF Lose, txVars, rxVars, OnceInv, AtMostOnce
<1>8. CASE UNCHANGED vars
  BY <1>8 DEF vars, txVars, rxVars, OnceInv, AtMostOnce
<1>9. QED
  BY <1>1, <1>2, <1>3, <1>4, <1>5, <1>6, <1>7, <1>8
     DEF Next, Tick, TickTimedOut, TickInvalidated

(* Over a network that does not duplicate, HandleRecvLinkMessage gets no
   message twice, however frames are lost and reordered and whatever is resent:
   inbound_frame_complete erases the rx entry and no XMIT opens it again. *)
THEOREM HandledAtMostOnce == ~MayDup => (Spec => []AtMostOnce)
<1> SUFFICES ASSUME ~MayDup PROVE Spec => []AtMostOnce
  OBVIOUS
<1>1. Init => OnceInv
  BY InitOnce
<1>2. IInv /\ IInv' /\ OnceInv /\ [Next]_vars => OnceInv'
  BY NextOnce
<1>3. OnceInv => AtMostOnce
  BY DEF OnceInv
<1>4. QED
  BY <1>1, <1>2, <1>3, InvariantHolds, PTL DEF Spec

(* Over such a network a half-received message still has its sender as long as
   the sender's session lives, so its fragments are resent: got_acks erases a tx
   entry only once the message has been handled, and then the receiver has no rx
   entry for it. *)
THEOREM RxHasSender == ~MayDup => (Spec => []NoOrphanRx)
<1> SUFFICES ASSUME ~MayDup PROVE Spec => []NoOrphanRx
  OBVIOUS
<1>1. Init => OnceInv
  BY InitOnce
<1>2. IInv /\ IInv' /\ OnceInv /\ [Next]_vars => OnceInv'
  BY NextOnce
<1>3. ASSUME IInv, OnceInv PROVE NoOrphanRx
  <2>1. SUFFICES ASSUME NEW s \in Side, state[Peer(s)] # "Removed",
                        NEW i \in rx[s]
                 PROVE  i \in tx[Peer(s)]
    BY DEF NoOrphanRx
  <2>2. i \in Ids /\ Peer(s) \in Side /\ Peer(Peer(s)) = s
    BY <1>3, PeerFacts DEF IInv, TypeOK
  <2>3. i < txids[Peer(s)] /\ ~(handled[s][i] > 0)
    BY <1>3, <2>2 DEF IInv, StatusSound, OnceInv
  <2>4. QED
    BY <1>3, <2>1, <2>2, <2>3 DEF IInv, TxDoneMeansHandled
<1>4. QED
  BY <1>1, <1>2, <1>3, InvariantHolds, PTL DEF Spec

(* A session is established only by inbound_frame_complete of the peer's LIM,
   and only if the peer's RC passed CheckRCValid. *)
THEOREM EstablishedIsIdentified == Spec => []EstablishedMeansIdentified
<1>1. Init => EstablishedMeansIdentified
  BY DEF Init, EstablishedMeansIdentified, Side
<1>2. ASSUME IInv, EstablishedMeansIdentified, [Next]_vars
      PROVE  EstablishedMeansIdentified'
  <2>0. /\ state \in [Side -> States] /\ handled \in [Side -> [Ids -> 0..2]] /\ 0 \in Ids
    BY <1>2, MaxMsgsAssumption DEF IInv, TypeOK, Ids
  <2>1. ASSUME NEW s \in Side, NEW i, NEW before, NEW acks,
               inbound_frame_complete(s, i, before, acks)
        PROVE  EstablishedMeansIdentified'
    <3>1. handled' = [handled EXCEPT ![s][i] = Count(@)]
      BY <2>1 DEF inbound_frame_complete
    <3>2. \A r \in Side : handled[r][0] > 0 => handled'[r][0] > 0
      BY <2>0, <3>1 DEF Count
    <3>3. CASE FirstLIM(s, i, before, acks)
      <4>1. state' = [state EXCEPT ![s] = "Established"] /\ i = 0 /\ Peer(s) \notin BadRC
        BY <3>3 DEF FirstLIM
      <4>2. handled'[s][0] > 0
        BY <2>0, <3>1, <4>1 DEF Count
      <4>3. QED
        BY <1>2, <2>0, <3>2, <4>1, <4>2 DEF EstablishedMeansIdentified
    <3>4. CASE UNCHANGED state
      BY <1>2, <3>2, <3>4 DEF EstablishedMeansIdentified
    <3>5. QED
      BY <2>1, <3>3, <3>4 DEF inbound_frame_complete, SpoofedLIM, Accepted, Refused
  <2>2. ASSUME NEW s \in Side, NEW f \in net, Recv(s, f)
        PROVE  EstablishedMeansIdentified'
    <3>1. CASE UNCHANGED <<state, handled>>
      BY <1>2, <3>1 DEF EstablishedMeansIdentified
    <3>2. QED
      BY <2>1, <2>2, <3>1 DEF Recv, got_xmit, got_frag, got_acks, got_aliv, rxVars
  <2>3. ASSUME NEW s \in Side, RemoveSession(s) PROVE EstablishedMeansIdentified'
    BY <1>2, <2>0, <2>3 DEF RemoveSession, clear, EstablishedMeansIdentified
  <2>4. CASE UNCHANGED <<state, handled>>
    BY <1>2, <2>4 DEF EstablishedMeansIdentified
  <2>5. QED
    BY <1>2, <2>2, <2>3, <2>4 DEF Next, sendto, close, RunKeepalive, Tick, TickTimedOut,
       TickInvalidated, TickAlive, Lose, vars, rxVars
<1>3. QED
  BY <1>1, <1>2, InvariantHolds, PTL DEF Spec
=============================================================================
