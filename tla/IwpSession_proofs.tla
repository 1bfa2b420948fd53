-------------------------- MODULE IwpSession_proofs --------------------------
(***************************************************************************)
(* Proofs about IWP sessions, for any number of establish attempts and     *)
(* session objects, and for any loss, delay, reordering and duplication of *)
(* datagrams.                                                              *)
(***************************************************************************)
EXTENDS IwpSession, FiniteSetTheorems, TLAPS

-----------------------------------------------------------------------------
(* Bags: only what is in them counts here *)

LEMMA InSum ==
    ASSUME NEW A, NEW B
    PROVE  BagToSet(A (+) B) = BagToSet(A) \cup BagToSet(B)
BY DEF BagToSet, (+)

LEMMA InDifference ==
    ASSUME NEW A, NEW B
    PROVE  BagToSet(A (-) B) \subseteq BagToSet(A)
BY DEF BagToSet, (-)

LEMMA InQueued ==
    /\ \A j : BagToSet(Queued(j)) = {j}
    /\ BagToSet(EmptyBag) = {}
    /\ \A j : BagToSet(Once(j)) \subseteq {j}
BY DEF BagToSet, Queued, SetToBag, EmptyBag, Once

-----------------------------------------------------------------------------
(* The inductive invariant *)

OpenerJobs == {"GenIntro", "EnterIntroSent", "VerifyIntroAck", "GenStart"}

PlainJobs ==
    {"VerifyIntro", "InformIntro", "GenIntroAck", "PutSession", "EnterIntroAckSent",
     "EnterStartSent", "VerifyStart", "EnterLIMSent", "Encrypt", "Keepalive"} \cup OpenerJobs

JobType ==
    [do : PlainJobs, obj : Obj]
    \cup [do : {"Decrypt"}, obj : Obj, frame : Datagram]
    \cup [do : {"Process"}, obj : Obj, frame : Payload]

\* Only a opens: no START ever comes from b.
DatagramOK(d) == d \in Datagram /\ (d.from = "b" => d.t # "START")

\* A job belongs to an object that has a token, and b has no job of an opener.
JobOK(j) ==
    /\ j \in JobType /\ sess[j.obj].token \in Obj
    /\ j.obj[1] = "b" => j.do \notin OpenerJobs

\* The token of an object of b is the object, and so is the first part of its
\* key; a derives keys only from its own nonces.
ObjOK(o) ==
    /\ sess[o] \in Session
    /\ sess[o].token \in Obj \/ sess[o].job = "none"
    /\ o[1] = "b" =>
         /\ sess[o].token \in {o, NoObj} /\ sess[o].state # "IntroSent"
         /\ sess[o].key = NoKey \/ sess[o].key[1] = o
    /\ o[1] = "a" =>
         /\ sess[o].workbuf.t # "START"
         /\ sess[o].key = NoKey \/ sess[o].key[2] \in 1..nonces["a"]

Tables ==
    /\ tracked \in [Server -> Obj \cup {NoObj}]
    /\ connected \in [Server -> BOOLEAN]
    /\ router \in [Server -> {"idle", "waiting", "backoff"}]
    /\ tries \in [Server -> 0..MaxTries]
    /\ nonces \in [Server -> Nat]

\* m_sessions of a server has the server's own objects, and they have tokens.
TrackedOK ==
    \A x \in Server :
      tracked[x] # NoObj => tracked[x][1] = x /\ sess[tracked[x]].token \in Obj

\* No two objects of a use the same nonce.
NoncesDiffer ==
    \A o, p \in Obj :
      (o[1] = "a" /\ p[1] = "a" /\ sess[o].key # NoKey /\ sess[o].key[2] = sess[p].key[2])
        => o = p

IInv ==
    /\ Tables /\ TrackedOK
    /\ sess \in [Obj -> Session] /\ \A o \in Obj : ObjOK(o)
    /\ \A j \in BagToSet(jobs) : JobOK(j)
    /\ \A d \in BagToSet(net) : DatagramOK(d)
    /\ NoncesDiffer

-----------------------------------------------------------------------------
(* Steps *)

LEMMA Objects ==
    /\ \A o \in Obj : o[1] \in Server /\ o # NoObj /\ Peer(o[1]) \in Server
    /\ <<"a", 1>> \in Obj /\ "a" \in Server /\ "b" \in Server
    /\ \A o \in Obj : o[1] = "a" \/ o[1] = "b"
    /\ \A x \in Server : Peer(x) \in Server /\ Peer(x) # x
BY BoundAssumption DEF Obj, Server, NoObj, Peer

LEMMA RunsAdds ==
    ASSUME NEW j, NEW new, Runs(j, new)
    PROVE  /\ j \in BagToSet(jobs) /\ sess[j.obj].state # "Freed"
           /\ \A k \in BagToSet(jobs') : k \in BagToSet(jobs) \/ k \in BagToSet(new)
<1>1. BagToSet(jobs') = BagToSet(jobs (-) Queued(j)) \cup BagToSet(new)
  BY InSum DEF Runs
<1> QED
  BY <1>1, InDifference DEF Runs, Has, BagIn

LEMMA SendsAdds ==
    ASSUME NEW d, Sends(d)
    PROVE  \A e \in BagToSet(net') : e \in BagToSet(net) \/ e = d
<1>1. PICK n \in 1..Copies : net' = net (+) [e \in {d} |-> n]
  BY DEF Sends
<1>2. BagToSet(net') = BagToSet(net) \cup BagToSet([e \in {d} |-> n])
  BY <1>1, InSum
<1>3. BagToSet([e \in {d} |-> n]) = {d}
  BY DEF BagToSet
<1> QED
  BY <1>2, <1>3

\* What a step that changes one object has to show.  a's key is kept or reset.
LEMMA StepKeeps ==
    ASSUME IInv, Tables', nonces' = nonces, NEW o \in Obj,
           sess' \in [Obj -> Session], \A p \in Obj : p = o \/ sess'[p] = sess[p],
           sess[o].token \in Obj => sess'[o].token \in Obj,
           sess'[o].token \in Obj \/ sess'[o].job = "none",
           \A x \in Server :
             \/ tracked'[x] \in {NoObj, tracked[x]}
             \/ tracked'[x] = o /\ o[1] = x /\ sess'[o].token \in Obj,
           o[1] = "b" => /\ sess'[o].token \in {o, NoObj} /\ sess'[o].state # "IntroSent"
                         /\ sess'[o].key = NoKey \/ sess'[o].key[1] = o,
           o[1] = "a" => sess'[o].workbuf.t # "START" /\ sess'[o].key \in {NoKey, sess[o].key},
           \A j \in BagToSet(jobs') : j \in BagToSet(jobs) \/ JobOK(j)',
           \A d \in BagToSet(net') : d \in BagToSet(net) \/ DatagramOK(d)
    PROVE  IInv'
<1>1. ASSUME NEW p \in Obj PROVE ObjOK(p)'
  <2>1. CASE p = o
    BY <2>1 DEF IInv, ObjOK
  <2>2. CASE p # o
    BY <2>2 DEF IInv, ObjOK
  <2> QED BY <2>1, <2>2
<1>2. ASSUME NEW j \in BagToSet(jobs') PROVE JobOK(j)'
  <2>1. CASE j \in BagToSet(jobs)
    <3>1. JobOK(j) /\ j.obj \in Obj
      BY <2>1 DEF IInv, JobOK, JobType
    <3> QED BY <3>1 DEF JobOK
  <2> QED BY <1>2, <2>1
<1>3. \A d \in BagToSet(net') : DatagramOK(d)'
  BY DEF IInv, DatagramOK
<1>4. NoncesDiffer'
  <2> SUFFICES ASSUME NEW p \in Obj, NEW q \in Obj, p[1] = "a", q[1] = "a",
                      sess'[p].key # NoKey, sess'[p].key[2] = sess'[q].key[2]
               PROVE  p = q
    BY DEF NoncesDiffer
  <2>1. NoKey[2] = 0
    BY DEF NoKey
  <2>2. nonces["a"] \in Nat
    BY Objects DEF IInv, Tables
  <2>3. sess[p].key # NoKey /\ sess'[p].key = sess[p].key /\ sess[p].key[2] \in 1..nonces["a"]
    BY DEF IInv, ObjOK
  <2>4. sess'[q].key # NoKey
    BY <2>1, <2>2, <2>3
  <2>5. sess'[q].key = sess[q].key
    BY <2>4
  <2> QED BY <2>3, <2>5 DEF IInv, NoncesDiffer
<1>5. TrackedOK'
  <2> SUFFICES ASSUME NEW x \in Server, tracked'[x] # NoObj
               PROVE  tracked'[x][1] = x /\ sess'[tracked'[x]].token \in Obj
    BY DEF TrackedOK
  <2>1. CASE tracked'[x] = tracked[x]
    <3>1. tracked[x] \in Obj
      BY <2>1 DEF IInv, Tables
    <3> QED BY <2>1, <3>1 DEF IInv, TrackedOK
  <2> QED BY <2>1
<1> QED
  BY <1>1, <1>2, <1>3, <1>4, <1>5 DEF IInv

\* What a step that changes no object has to show.
LEMMA StayKeeps ==
    ASSUME IInv, Tables', nonces' = nonces, sess' = sess, tracked' = tracked,
           \A j \in BagToSet(jobs') : j \in BagToSet(jobs) \/ JobOK(j),
           \A d \in BagToSet(net') : d \in BagToSet(net) \/ DatagramOK(d)
    PROVE  IInv'
<1>1. PICK o : o \in Obj
  BY Objects
<1>2. \A j : JobOK(j)' <=> JobOK(j)
  BY DEF JobOK
<1>3. sess[o] \in Session /\ ObjOK(o) /\ sess' \in [Obj -> Session]
  BY <1>1 DEF IInv
<1> QED
  BY <1>1, <1>2, <1>3, StepKeeps DEF ObjOK

-----------------------------------------------------------------------------
(* The establish attempts *)

LEMMA Messages ==
    /\ \A x \in Server : Intro(x) \in Datagram /\ Intro(x).t = "INTRO" /\ Intro(x).from = x
    /\ \A x \in Server, o \in Obj :
         /\ IntroAck(x, o) \in Datagram /\ IntroAck(x, o).t = "INTROACK"
         /\ IntroAck(x, o).from = x
    /\ \A x \in Server, o \in Obj, n \in Nat :
         /\ Start(x, o, n) \in Datagram /\ Start(x, o, n).t = "START" /\ Start(x, o, n).from = x
    /\ Junk.t = "junk"
BY DEF Intro, IntroAck, Start, Junk, Datagram

LEMMA NewSession ==
    ASSUME NEW o \in Obj
    PROVE  /\ create_session(o) \in Session /\ create_session(o).token = o
           /\ create_session(o).key = NoKey /\ create_session(o).state = "Initial"
           /\ create_session(o).workbuf = Junk
<1>1. NoKey \in Key
  BY DEF NoKey, Key, NoObj
<1> QED
  BY <1>1 DEF create_session, Session, HandshakeState

LEMMA EstablishKeeps ==
    ASSUME IInv, link_try_establish("a")
    PROVE  IInv'
<1>1. PICK o \in Obj :
          /\ o = IF tracked["a"] = NoObj THEN Fresh("a") ELSE tracked["a"]
          /\ sess[o].state # "Freed"
          /\ sess' = [sess EXCEPT ![o] =
                [IF tracked["a"] = NoObj THEN create_session(o) ELSE sess[o]
                    EXCEPT !.job = "waiting", !.idle = FALSE, !.timer = "armed",
                           !.workbuf = Intro("a"), !.introbuf = TRUE,
                           !.hook = "generated", !.working = TRUE]]
          /\ tracked' = [tracked EXCEPT !["a"] = o]
          /\ jobs' = jobs (+) Queued(Job("GenIntro", o))
  BY DEF link_try_establish
<1>2. o[1] = "a"
  BY <1>1, Objects DEF IInv, TrackedOK, Fresh
<1>3. PICK base : base = IF tracked["a"] = NoObj THEN create_session(o) ELSE sess[o]
  OBVIOUS
<1>4. /\ base \in Session /\ base.key \in {NoKey, sess[o].key}
      /\ sess[o].token \in Obj => base.token \in Obj
  BY <1>3, NewSession DEF IInv
<1>5. base.token \in Obj
  BY <1>1, <1>3, NewSession, Objects DEF IInv, TrackedOK
<1>6. PICK s : s = [base EXCEPT !.job = "waiting", !.idle = FALSE, !.timer = "armed",
                                !.workbuf = Intro("a"), !.introbuf = TRUE,
                                !.hook = "generated", !.working = TRUE]
  OBVIOUS
<1>7. /\ s \in Session /\ s.key = base.key /\ s.token = base.token /\ s.workbuf = Intro("a")
  BY <1>4, <1>6, Messages, Objects DEF Session
<1>8. sess' = [sess EXCEPT ![o] = s] /\ sess \in [Obj -> Session]
  BY <1>1, <1>3, <1>6 DEF IInv
<1>9. sess' \in [Obj -> Session] /\ sess'[o] = s /\ \A p \in Obj : p = o \/ sess'[p] = sess[p]
  BY <1>7, <1>8
<1>10. PICK j : j = Job("GenIntro", o)
  OBVIOUS
<1>11. JobOK(j)'
  BY <1>2, <1>5, <1>7, <1>9, <1>10 DEF JobOK, JobType, Job, PlainJobs, OpenerJobs
<1>12. \A k \in BagToSet(jobs') : k \in BagToSet(jobs) \/ k = j
  BY <1>1, <1>10, InSum, InQueued
<1>13. Tables'
  <2>1. Tables /\ tries["a"] < MaxTries /\ tries["a"] \in 0..MaxTries /\ MaxTries \in Nat
    BY Objects, BoundAssumption DEF IInv, Tables, link_try_establish
  <2>2. tries["a"] + 1 \in 0..MaxTries
    BY <2>1
  <2>3. /\ router' = [router EXCEPT !["a"] = "waiting"] /\ tries' = [tries EXCEPT !["a"] = @ + 1]
        /\ UNCHANGED <<connected, nonces>>
    BY DEF link_try_establish
  <2> QED
    BY <1>1, <2>1, <2>2, <2>3 DEF Tables
<1>14. \A x \in Server : \/ tracked'[x] \in {NoObj, tracked[x]}
                         \/ tracked'[x] = o /\ o[1] = x /\ sess'[o].token \in Obj
  BY <1>1, <1>2, <1>5, <1>7, <1>9 DEF IInv, Tables
<1>15. s.workbuf.t # "START"
  BY <1>7, Messages, Objects
<1>16. UNCHANGED <<nonces, net>>
  BY DEF link_try_establish
<1> QED
  BY <1>2, <1>4, <1>5, <1>7, <1>9, <1>11, <1>12, <1>13, <1>14, <1>15, <1>16, StepKeeps

-----------------------------------------------------------------------------
(* The net thread *)

LEMMA RemoveFacts ==
    ASSUME IInv, NEW o \in Obj, RemoveSessionByAddr(o)
    PROVE  /\ sess' \in [Obj -> Session] /\ \A p \in Obj : p = o \/ sess'[p] = sess[p]
           /\ sess'[o].token = sess[o].token /\ sess'[o].key = sess[o].key
           /\ sess'[o].workbuf = sess[o].workbuf /\ sess'[o].state = "Freed"
           /\ tracked' \in [Server -> Obj \cup {NoObj}]
           /\ \A x \in Server : tracked'[x] \in {NoObj, tracked[x]}
           /\ connected' \in [Server -> BOOLEAN]
<1>1. sess \in [Obj -> Session] /\ sess[o] \in Session
  BY DEF IInv
<1>2. sess' = [sess EXCEPT ![o].state = "Freed", ![o].timer = "off"]
  BY DEF RemoveSessionByAddr
<1>3. /\ sess' \in [Obj -> Session] /\ \A p \in Obj : p = o \/ sess'[p] = sess[p]
      /\ sess'[o].token = sess[o].token /\ sess'[o].key = sess[o].key
      /\ sess'[o].workbuf = sess[o].workbuf /\ sess'[o].state = "Freed"
  BY <1>1, <1>2 DEF Session
<1>4. /\ tracked' = [tracked EXCEPT ![o[1]] = NoObj]
      /\ connected' = [connected EXCEPT ![o[1]] = FALSE]
      /\ tracked \in [Server -> Obj \cup {NoObj}] /\ connected \in [Server -> BOOLEAN]
  BY DEF RemoveSessionByAddr, IInv, Tables
<1> QED
  BY <1>3, <1>4, Objects

\* session::recv on the object in m_sessions or on a new one.
LEMMA RecvKeeps ==
    ASSUME IInv, NEW o \in Obj, NEW s, NEW d,
           (s = sess[o] /\ sess[o].token \in Obj) \/ s = create_session(o),
           d \in Datagram, o[1] = "a" => d.t # "START",
           recv(o, s, d), UNCHANGED <<router, tries, nonces>>,
           \A e \in BagToSet(net') : e \in BagToSet(net)
    PROVE  IInv'
<1>1. sess \in [Obj -> Session] /\ sess[o] \in Session /\ ObjOK(o)
  BY DEF IInv
<1>2. s \in Session /\ s.token \in Obj /\ s.key \in {NoKey, sess[o].key}
  BY <1>1, NewSession
<1>3. /\ o[1] = "b" => /\ s.token \in {o, NoObj} /\ s.state # "IntroSent"
                       /\ s.key = NoKey \/ s.key[1] = o
      /\ o[1] = "a" => s.workbuf.t # "START"
  BY <1>1, NewSession, Messages DEF ObjOK
<1>4. ASSUME NEW do \in PlainJobs, o[1] = "b" => do \notin OpenerJobs, sess'[o].token \in Obj,
             jobs' = jobs (+) Queued(Job(do, o))
      PROVE  \A j \in BagToSet(jobs') : j \in BagToSet(jobs) \/ JobOK(j)'
  <2>1. PICK k : k = Job(do, o)
    OBVIOUS
  <2>2. JobOK(k)'
    BY <1>4, <2>1 DEF JobOK, JobType, Job
  <2>3. \A j \in BagToSet(jobs') : j \in BagToSet(jobs) \/ j = k
    BY <1>4, <2>1, InSum, InQueued
  <2> QED BY <2>2, <2>3
<1>5. ASSUME UNCHANGED <<tracked, connected>>
      PROVE  Tables' /\ \A x \in Server : tracked'[x] \in {NoObj, tracked[x]}
  BY <1>5 DEF IInv, Tables
<1>6. CASE s.state = "Initial" /\ on_intro(o, s, d)
  <2>1. CASE d.t = "FRAME" /\ d.body.t = "LIM"
    <3>1. sess' = [sess EXCEPT ![o] = [s EXCEPT !.state = "Freed"]]
          /\ UNCHANGED <<tracked, connected, jobs>>
      BY <1>6, <2>1 DEF on_intro
    <3>2. PICK u : u = [s EXCEPT !.state = "Freed"]
      OBVIOUS
    <3>3. /\ u \in Session /\ u.token = s.token /\ u.key = s.key /\ u.workbuf = s.workbuf
          /\ u.state = "Freed"
      BY <1>2, <3>2 DEF Session
    <3>4. sess' \in [Obj -> Session] /\ sess'[o] = u /\ \A p \in Obj : p = o \/ sess'[p] = sess[p]
      BY <1>1, <3>1, <3>2, <3>3
    <3> QED
      BY <1>2, <1>3, <1>5, <3>1, <3>3, <3>4, StepKeeps
  <2>2. CASE ~(d.t = "FRAME" /\ d.body.t = "LIM")
    <3>1. PICK u : u = [s EXCEPT !.workbuf = d, !.introbuf = TRUE, !.hook = "verified",
                                 !.state = "IntroRecv", !.idle = FALSE, !.working = TRUE]
      OBVIOUS
    <3>2. /\ sess' = [sess EXCEPT ![o] = u]
          /\ jobs' = jobs (+) Queued(Job("VerifyIntro", o)) /\ UNCHANGED <<tracked, connected>>
      BY <1>6, <2>2, <3>1 DEF on_intro
    <3>3. /\ u \in Session /\ u.token = s.token /\ u.key = s.key /\ u.workbuf = d
          /\ u.state = "IntroRecv"
      BY <1>2, <3>1 DEF Session, HandshakeState
    <3>4. sess' \in [Obj -> Session] /\ sess'[o] = u /\ \A p \in Obj : p = o \/ sess'[p] = sess[p]
      BY <1>1, <3>2, <3>3
    <3>5. \A j \in BagToSet(jobs') : j \in BagToSet(jobs) \/ JobOK(j)'
      BY <1>2, <1>4, <3>2, <3>3, <3>4 DEF PlainJobs, OpenerJobs
    <3> QED
      BY <1>2, <1>3, <1>5, <3>2, <3>3, <3>4, <3>5, StepKeeps
  <2> QED BY <2>1, <2>2
<1>7. ASSUME s.state # "Initial"
      PROVE  s = sess[o] /\ sess[o].token \in Obj
  BY <1>7, NewSession
<1>8. ASSUME NEW do \in PlainJobs, o[1] = "b" => do \notin OpenerJobs, s.state # "Initial",
             sess' = [sess EXCEPT ![o].workbuf = d, ![o].working = TRUE],
             jobs' = jobs (+) Queued(Job(do, o)), UNCHANGED <<tracked, connected>>
      PROVE  IInv'
  <2>1. /\ sess' \in [Obj -> Session] /\ \A p \in Obj : p = o \/ sess'[p] = sess[p]
        /\ sess'[o].token = sess[o].token /\ sess'[o].key = sess[o].key /\ sess'[o].workbuf = d
        /\ sess'[o].state = sess[o].state
    BY <1>1, <1>8 DEF Session
  <2>2. \A j \in BagToSet(jobs') : j \in BagToSet(jobs) \/ JobOK(j)'
    BY <1>4, <1>7, <1>8, <2>1
  <2> QED
    BY <1>3, <1>5, <1>7, <1>8, <2>1, <2>2, StepKeeps
<1>9. CASE s.state = "IntroSent" /\ on_intro_ack(o, d)
  <2>1. o[1] = "a"
    BY <1>3, <1>9, Objects
  <2>2. CASE d.t = "FRAME" /\ d.body.t = "LIM"
    <3>1. RemoveSessionByAddr(o) /\ UNCHANGED jobs
      BY <1>9, <2>2 DEF on_intro_ack
    <3>2. Tables'
      BY <3>1, RemoveFacts DEF IInv, Tables
    <3> QED
      BY <1>3, <1>7, <1>9, <2>1, <3>1, <3>2, RemoveFacts, StepKeeps
  <2>3. CASE ~(d.t = "FRAME" /\ d.body.t = "LIM")
    BY <1>8, <1>9, <2>1, <2>3 DEF on_intro_ack, PlainJobs, OpenerJobs
  <2> QED BY <2>2, <2>3
<1>10. ASSUME UNCHANGED <<sess, jobs, tracked, connected>> PROVE IInv'
  BY <1>5, <1>10, StayKeeps
<1>11. CASE s.state = "IntroAckSent" /\ on_session_start(o, d)
  <2>1. CASE d.t = "FRAME" /\ d.body.t = "LIM"
    BY <1>10, <1>11, <2>1 DEF on_session_start
  <2>2. CASE ~(d.t = "FRAME" /\ d.body.t = "LIM")
    BY <1>8, <1>11, <2>2 DEF on_session_start, PlainJobs, OpenerJobs
  <2> QED BY <2>1, <2>2
<1>12. CASE s.state \in FrameState /\ decrypt_frame(o, d)
  <2>1. PICK k : k = FrameJob("Decrypt", o, d)
    OBVIOUS
  <2>2. JobOK(k)
    BY <1>7, <1>12, <2>1 DEF JobOK, JobType, FrameJob, OpenerJobs, FrameState
  <2>3. \A j \in BagToSet(jobs') : j \in BagToSet(jobs) \/ j = k
    BY <1>12, <2>1, InSum, InQueued DEF decrypt_frame
  <2>4. UNCHANGED <<sess, tracked, connected>>
    BY <1>12 DEF decrypt_frame
  <2> QED
    BY <1>5, <2>2, <2>3, <2>4, StayKeeps
<1> QED
  BY <1>6, <1>9, <1>10, <1>11, <1>12 DEF recv

LEMMA HandleRecvKeeps ==
    ASSUME IInv, NEW x \in Server, NEW d \in BagToSet(net), handle_recvfrom(x, d)
    PROVE  IInv'
<1>1. d \in Datagram /\ (x = "a" => d.t # "START")
  BY DEF IInv, DatagramOK, handle_recvfrom, Peer
<1>2. \A e \in BagToSet(net') : e \in BagToSet(net)
  BY InDifference DEF handle_recvfrom
<1>3. CASE tracked[x] = NoObj
  <2>1. Fresh(x) \in Obj /\ recv(Fresh(x), create_session(Fresh(x)), d) /\ Fresh(x)[1] = x
    BY <1>3 DEF handle_recvfrom, Fresh
  <2> QED
    BY <1>1, <1>2, <2>1, RecvKeeps DEF handle_recvfrom
<1>4. CASE tracked[x] # NoObj
  <2>1. /\ tracked[x] \in Obj /\ tracked[x][1] = x /\ sess[tracked[x]].token \in Obj
        /\ recv(tracked[x], sess[tracked[x]], d)
    BY <1>4 DEF handle_recvfrom, IInv, Tables, TrackedOK
  <2> QED
    BY <1>1, <1>2, <2>1, RecvKeeps DEF handle_recvfrom
<1> QED
  BY <1>3, <1>4

-----------------------------------------------------------------------------
(* Jobs *)

\* A job that runs and queues jobs of the same object.
LEMMA RunsNext ==
    ASSUME IInv, NEW o \in Obj, NEW do, NEW new, Runs(Job(do, o), new),
           \A k \in BagToSet(new) : \E e \in PlainJobs :
              k = Job(e, o) /\ (e \in OpenerJobs => do \in OpenerJobs)
    PROVE  /\ sess[o].token \in Obj
           /\ do \in OpenerJobs => o[1] = "a"
           /\ \A k \in BagToSet(jobs') : k \in BagToSet(jobs) \/ JobOK(k)
<1>1. PICK j : j = Job(do, o)
  OBVIOUS
<1>2. j.do = do /\ j.obj = o
  BY <1>1 DEF Job
<1>3. /\ j \in BagToSet(jobs)
      /\ \A k \in BagToSet(jobs') : k \in BagToSet(jobs) \/ k \in BagToSet(new)
  BY <1>1, RunsAdds
<1>4. JobOK(j)
  BY <1>3 DEF IInv
<1>5. sess[o].token \in Obj /\ (o[1] = "b" => do \notin OpenerJobs)
  BY <1>2, <1>4 DEF JobOK
<1>6. ASSUME NEW k \in BagToSet(new) PROVE JobOK(k)
  <2>1. PICK e \in PlainJobs : k = Job(e, o) /\ (e \in OpenerJobs => do \in OpenerJobs)
    BY <1>6
  <2> QED BY <1>5, <2>1 DEF JobOK, JobType, Job
<1> QED
  BY <1>3, <1>5, <1>6, Objects

\* What a step has to show that keeps tokens and keys, and m_sessions.
LEMMA ObjectStep ==
    ASSUME IInv, NEW o \in Obj, UNCHANGED <<tracked, tries, nonces>>,
           connected' \in [Server -> BOOLEAN],
           router' \in [Server -> {"idle", "waiting", "backoff"}],
           sess' \in [Obj -> Session], \A p \in Obj : p = o \/ sess'[p] = sess[p],
           sess'[o].token = sess[o].token, sess'[o].key = sess[o].key,
           sess'[o].workbuf \in {sess[o].workbuf, Junk},
           sess[o].token \in Obj \/ sess'[o].job \in {"none", sess[o].job},
           o[1] = "a" \/ sess'[o].state # "IntroSent" \/ sess'[o].state = sess[o].state,
           \A j \in BagToSet(jobs') : j \in BagToSet(jobs) \/ JobOK(j),
           \A d \in BagToSet(net') : d \in BagToSet(net) \/ DatagramOK(d)
    PROVE  IInv'
<1>1. Tables' /\ \A x \in Server : tracked'[x] \in {NoObj, tracked[x]}
  BY DEF IInv, Tables
<1>2. ObjOK(o)
  BY DEF IInv
<1>3. ASSUME NEW j, JobOK(j) PROVE JobOK(j)'
  <2>1. j.obj \in Obj
    BY <1>3 DEF JobOK, JobType
  <2>2. sess'[j.obj].token = sess[j.obj].token
    BY <2>1
  <2> QED BY <1>3, <2>2 DEF JobOK
<1>4. \A j \in BagToSet(jobs') : j \in BagToSet(jobs) \/ JobOK(j)'
  BY <1>3
<1>5. sess'[o].token \in Obj \/ sess'[o].job = "none"
  BY <1>2 DEF ObjOK
<1>6. o[1] = "b" => /\ sess'[o].token \in {o, NoObj} /\ sess'[o].state # "IntroSent"
                    /\ sess'[o].key = NoKey \/ sess'[o].key[1] = o
  BY <1>2 DEF ObjOK
<1>7. o[1] = "a" => sess'[o].workbuf.t # "START" /\ sess'[o].key \in {NoKey, sess[o].key}
  BY <1>2, Messages DEF ObjOK
<1> QED
  BY <1>1, <1>4, <1>5, <1>6, <1>7, StepKeeps

\* The new jobs of most steps.
LEMMA NewJobs ==
    ASSUME NEW o
    PROVE  /\ \A do \in PlainJobs : \A k \in BagToSet(Queued(Job(do, o))) : k = Job(do, o)
           /\ \A k \in BagToSet(PumpCryptoOutbound(o)) : k = Job("Encrypt", o)
           /\ \A k \in BagToSet(EmptyBag) : FALSE
           /\ \A k \in BagToSet(PumpCryptoOutbound(o) (+) Queued(Job("EnterLIMSent", o))) :
                 k \in {Job("Encrypt", o), Job("EnterLIMSent", o)}
BY InQueued, InSum DEF PumpCryptoOutbound

-----------------------------------------------------------------------------
(* The crypto workers *)

LEMMA GenIntroKeeps ==
    ASSUME IInv, NEW o \in Obj, gen_intro(o),
           UNCHANGED <<tracked, nonces, connected, router, tries>>
    PROVE  IInv'
<1>1. Tables /\ sess \in [Obj -> Session] /\ sess[o] \in Session
  BY DEF IInv
<1>2. CASE /\ Runs(Job("GenIntro", o), Queued(Job("EnterIntroSent", o)))
           /\ sess' = [sess EXCEPT ![o].working = FALSE]
           /\ Sends(Intro(o[1]))
  <2>1. \A k \in BagToSet(Queued(Job("EnterIntroSent", o))) : \E e \in PlainJobs :
           k = Job(e, o) /\ (e \in OpenerJobs => "GenIntro" \in OpenerJobs)
    BY NewJobs DEF PlainJobs, OpenerJobs
  <2>2. \A k \in BagToSet(jobs') : k \in BagToSet(jobs) \/ JobOK(k)
    BY <1>2, <2>1, RunsNext
  <2>3. PICK m : m = Intro(o[1])
    OBVIOUS
  <2>4. DatagramOK(m)
    BY <2>3, Messages, Objects DEF DatagramOK
  <2>5. \A d \in BagToSet(net') : d \in BagToSet(net) \/ DatagramOK(d)
    BY <1>2, <2>3, <2>4, SendsAdds
  <2>6. /\ sess' \in [Obj -> Session] /\ \A p \in Obj : p = o \/ sess'[p] = sess[p]
        /\ sess'[o].token = sess[o].token /\ sess'[o].key = sess[o].key
        /\ sess'[o].job = sess[o].job
        /\ sess'[o].workbuf = sess[o].workbuf /\ sess'[o].state = sess[o].state
    BY <1>1, <1>2 DEF Session
  <2> QED
    BY <1>1, <2>2, <2>5, <2>6, ObjectStep DEF Tables
<1>3. CASE /\ Runs(Job("GenIntro", o), Queued(Job("GenIntroAck", o)))
           /\ StartIntroAck(o) /\ UNCHANGED net
  <2>1. \A k \in BagToSet(Queued(Job("GenIntroAck", o))) : \E e \in PlainJobs :
           k = Job(e, o) /\ (e \in OpenerJobs => "GenIntro" \in OpenerJobs)
    BY NewJobs DEF PlainJobs, OpenerJobs
  <2>2. \A k \in BagToSet(jobs') : k \in BagToSet(jobs) \/ JobOK(k)
    BY <1>3, <2>1, RunsNext
  <2>3. /\ sess' \in [Obj -> Session] /\ \A p \in Obj : p = o \/ sess'[p] = sess[p]
        /\ sess'[o].token = sess[o].token /\ sess'[o].key = sess[o].key
        /\ sess'[o].job = sess[o].job
        /\ sess'[o].workbuf = Junk /\ sess'[o].state = sess[o].state
    BY <1>1, <1>3 DEF Session, StartIntroAck
  <2> QED
    BY <1>1, <1>3, <2>2, <2>3, ObjectStep DEF Tables
<1> QED
  BY <1>2, <1>3 DEF gen_intro

LEMMA VerifyIntroKeeps ==
    ASSUME IInv, NEW o \in Obj, verify_intro(o),
           UNCHANGED <<tracked, nonces, connected, router, tries>>
    PROVE  IInv'
<1>1. Tables /\ sess \in [Obj -> Session] /\ sess[o] \in Session
  BY DEF IInv
<1>2. \A k \in BagToSet(Queued(Job("InformIntro", o))) : \E e \in PlainJobs :
         k = Job(e, o) /\ (e \in OpenerJobs => "VerifyIntro" \in OpenerJobs)
  BY NewJobs DEF PlainJobs, OpenerJobs
<1>3. \A k \in BagToSet(jobs') : k \in BagToSet(jobs) \/ JobOK(k)
  BY <1>2, RunsNext DEF verify_intro
<1>4. PICK b : b = (sess[o].introbuf /\ sess[o].workbuf = Intro(Peer(o[1])))
  OBVIOUS
<1>5. b \in BOOLEAN
  BY <1>4
<1>6. sess' = [sess EXCEPT ![o].introbuf = b]
  BY <1>4 DEF verify_intro
<1>7. /\ sess' \in [Obj -> Session] /\ \A p \in Obj : p = o \/ sess'[p] = sess[p]
      /\ sess'[o].token = sess[o].token /\ sess'[o].key = sess[o].key
      /\ sess'[o].job = sess[o].job
      /\ sess'[o].workbuf = sess[o].workbuf /\ sess'[o].state = sess[o].state
  BY <1>1, <1>5, <1>6 DEF Session
<1> QED
  BY <1>1, <1>3, <1>7, ObjectStep DEF Tables, verify_intro

\* EnterState, with the job it ends
LEMMA EnterKeeps ==
    ASSUME IInv, NEW o \in Obj, NEW do, NEW st, EnterState(o, do, st),
           <<do, st>> \in {<<"EnterIntroSent", "IntroSent">>,
                           <<"EnterIntroAckSent", "IntroAckSent">>,
                           <<"EnterStartSent", "SessionStartSent">>,
                           <<"EnterLIMSent", "LIMSent">>},
           UNCHANGED <<tracked, nonces, connected, router, tries>>
    PROVE  IInv'
<1>1. Tables /\ sess \in [Obj -> Session] /\ sess[o] \in Session
  BY DEF IInv
<1>2. PICK new : new = IF st \in {"SessionStartSent", "IntroAckSent"}
                       THEN PumpCryptoOutbound(o) ELSE EmptyBag
  OBVIOUS
<1>3. \A k \in BagToSet(new) : \E e \in PlainJobs :
         k = Job(e, o) /\ (e \in OpenerJobs => do \in OpenerJobs)
  <2>1. "Encrypt" \in PlainJobs /\ "Encrypt" \notin OpenerJobs
    BY DEF PlainJobs, OpenerJobs
  <2> QED BY <1>2, <2>1, NewJobs
<1>4. Runs(Job(do, o), new)
  BY <1>2 DEF EnterState
<1>5. /\ \A k \in BagToSet(jobs') : k \in BagToSet(jobs) \/ JobOK(k)
      /\ do \in OpenerJobs => o[1] = "a"
  BY <1>3, <1>4, RunsNext
<1>6. st \in HandshakeState \cup FrameState /\ (st # "IntroSent" \/ do \in OpenerJobs)
  BY DEF HandshakeState, FrameState, OpenerJobs
<1>7. sess' = [sess EXCEPT ![o].state = st, ![o].idle = FALSE] /\ UNCHANGED net
  BY DEF EnterState
<1>8. /\ sess' \in [Obj -> Session] /\ \A p \in Obj : p = o \/ sess'[p] = sess[p]
      /\ sess'[o].token = sess[o].token /\ sess'[o].key = sess[o].key
      /\ sess'[o].job = sess[o].job
      /\ sess'[o].workbuf = sess[o].workbuf /\ sess'[o].state = st
  BY <1>1, <1>6, <1>7 DEF Session
<1> QED
  BY <1>1, <1>5, <1>6, <1>7, <1>8, ObjectStep DEF Tables

LEMMA EncryptKeeps ==
    ASSUME IInv, NEW o \in Obj, EncryptOutboundFrames(o),
           UNCHANGED <<tracked, nonces, connected, router, tries>>
    PROVE  IInv'
<1>1. Tables /\ sess \in [Obj -> Session] /\ sess[o] \in Session
  BY DEF IInv
<1>2. \A k \in BagToSet(jobs') : k \in BagToSet(jobs) \/ JobOK(k)
  BY NewJobs, RunsNext DEF EncryptOutboundFrames
<1>3. /\ sess' \in [Obj -> Session] /\ \A p \in Obj : p = o \/ sess'[p] = sess[p]
      /\ sess'[o].token = sess[o].token /\ sess'[o].key = sess[o].key
      /\ sess'[o].job = sess[o].job
      /\ sess'[o].workbuf = sess[o].workbuf /\ sess'[o].state = sess[o].state
  BY <1>1 DEF Session, EncryptOutboundFrames
<1>4. PICK out : out = {Sealed(o[1], sess[o].key, p) : p \in sess[o].outq}
  OBVIOUS
<1>5. PICK new : new = {d \in out : d.body.t = "ALIV" => ~BagIn(d, net)}
  OBVIOUS
<1>6. PICK n : net' = net (+) [d \in new |-> n]
  BY <1>4, <1>5 DEF EncryptOutboundFrames
<1>7. BagToSet(net') = BagToSet(net) \cup new
  BY <1>6, InSum DEF BagToSet
<1>8. ASSUME NEW d \in new PROVE DatagramOK(d)
  <2>1. PICK p \in sess[o].outq : d = Sealed(o[1], sess[o].key, p)
    BY <1>4, <1>5
  <2>2. p \in Payload /\ sess[o].key \in Key /\ o[1] \in Server
    BY <1>1, <2>1, Objects DEF Session
  <2> QED BY <2>1, <2>2 DEF DatagramOK, Datagram, Sealed
<1> QED
  BY <1>1, <1>2, <1>3, <1>7, <1>8, ObjectStep DEF Tables

LEMMA DecryptKeeps ==
    ASSUME IInv, NEW o \in Obj, hmac_then_decrypt(o),
           UNCHANGED <<tracked, nonces, connected, router, tries>>
    PROVE  IInv'
<1>1. PICK j \in BagToSet(jobs) :
         /\ j.do = "Decrypt" /\ j.obj = o
         /\ Runs(j, IF j.frame.t = "FRAME" /\ j.frame.key = sess[o].key
                    THEN Once(FrameJob("Process", o, j.frame.body)) ELSE EmptyBag)
  BY DEF hmac_then_decrypt
<1>2. JobOK(j)
  BY <1>1 DEF IInv
<1>3. j.frame \in Datagram /\ sess[o].token \in Obj
  BY <1>1, <1>2 DEF JobOK, JobType, PlainJobs, OpenerJobs
<1>4. PICK new : new = IF j.frame.t = "FRAME" /\ j.frame.key = sess[o].key
                       THEN Once(FrameJob("Process", o, j.frame.body)) ELSE EmptyBag
  OBVIOUS
<1>5. \A k \in BagToSet(jobs') : k \in BagToSet(jobs) \/ k \in BagToSet(new)
  BY <1>1, <1>4, RunsAdds
<1>6. ASSUME NEW k \in BagToSet(new) PROVE JobOK(k)
  <2>1. j.frame.t = "FRAME" /\ k = FrameJob("Process", o, j.frame.body)
    BY <1>4, <1>6, InQueued
  <2>2. j.frame.body \in Payload
    BY <1>3, <2>1 DEF Datagram
  <2> QED BY <1>3, <2>1, <2>2 DEF JobOK, JobType, FrameJob, OpenerJobs
<1>7. UNCHANGED <<sess, net>> /\ Tables'
  BY DEF hmac_then_decrypt, IInv, Tables
<1> QED
  BY <1>5, <1>6, <1>7, StayKeeps

LEMMA JobStays ==
    ASSUME NEW o \in Obj, \A p \in Obj : p = o \/ sess'[p] = sess[p],
           sess[o].token \in Obj => sess'[o].token \in Obj,
           NEW j, JobOK(j)
    PROVE  JobOK(j)'
<1>1. j.obj \in Obj
  BY DEF JobOK, JobType
<1>2. sess[j.obj].token \in Obj => sess'[j.obj].token \in Obj
  BY <1>1
<1> QED
  BY <1>2 DEF JobOK

LEMMA VerifyAckKeeps ==
    ASSUME IInv, NEW o \in Obj, verify_introack(o),
           UNCHANGED <<tracked, nonces, connected, router, tries>>
    PROVE  IInv'
<1>1. Tables /\ sess \in [Obj -> Session] /\ sess[o] \in Session
  BY DEF IInv
<1>2. CASE sess[o].workbuf.t = "INTROACK"
  <2>1. /\ Runs(Job("VerifyIntroAck", o), Queued(Job("GenStart", o)))
        /\ sess' = [sess EXCEPT ![o].state = "IntroAckRecv", ![o].idle = FALSE,
                                ![o].token = sess[o].workbuf.token, ![o].workbuf = Junk,
                                ![o].working = TRUE]
        /\ UNCHANGED net
    BY <1>2 DEF verify_introack
  <2>2. \A k \in BagToSet(Queued(Job("GenStart", o))) : \E e \in PlainJobs :
           k = Job(e, o) /\ (e \in OpenerJobs => "VerifyIntroAck" \in OpenerJobs)
    BY NewJobs DEF PlainJobs, OpenerJobs
  <2>3. /\ \A k \in BagToSet(jobs') : k \in BagToSet(jobs) \/ JobOK(k)
        /\ "VerifyIntroAck" \in OpenerJobs => o[1] = "a"
    BY <2>1, <2>2, RunsNext
  <2>4. o[1] = "a"
    BY <2>3 DEF OpenerJobs
  <2>5. sess[o].workbuf \in Datagram
    BY <1>1, <1>2, Messages DEF Session
  <2>6. sess[o].workbuf.token \in Obj
    BY <1>2, <2>5 DEF Datagram
  <2>7. /\ sess' \in [Obj -> Session] /\ \A p \in Obj : p = o \/ sess'[p] = sess[p]
        /\ sess'[o].token = sess[o].workbuf.token /\ sess'[o].key = sess[o].key
        /\ sess'[o].workbuf = Junk
    BY <1>1, <2>1, <2>6 DEF Session, HandshakeState
  <2>8. \A k \in BagToSet(jobs') : k \in BagToSet(jobs) \/ JobOK(k)'
    BY <2>3, <2>6, <2>7, JobStays
  <2>9. Tables'
    BY <1>1 DEF Tables
  <2>10. o[1] # "b" /\ Junk.t # "START"
    BY <2>4, Messages
  <2> QED
    BY <2>1, <2>6, <2>7, <2>8, <2>9, <2>10, StepKeeps
<1>3. CASE sess[o].workbuf.t # "INTROACK"
  <2>1. /\ Runs(Job("VerifyIntroAck", o), EmptyBag)
        /\ sess' = [sess EXCEPT ![o].working = FALSE] /\ UNCHANGED net
    BY <1>3 DEF verify_introack
  <2>2. \A k \in BagToSet(jobs') : k \in BagToSet(jobs) \/ JobOK(k)
    BY <2>1, NewJobs, RunsNext
  <2>3. /\ sess' \in [Obj -> Session] /\ \A p \in Obj : p = o \/ sess'[p] = sess[p]
        /\ sess'[o].token = sess[o].token /\ sess'[o].key = sess[o].key
        /\ sess'[o].job = sess[o].job
        /\ sess'[o].workbuf = sess[o].workbuf /\ sess'[o].state = sess[o].state
    BY <1>1, <2>1 DEF Session
  <2> QED
    BY <1>1, <2>1, <2>2, <2>3, ObjectStep DEF Tables
<1> QED
  BY <1>2, <1>3

LEMMA LimIsPayload ==
    ASSUME NEW o \in Obj, sess[o] \in Session
    PROVE  LimQueued(o) \in SUBSET Payload
BY DEF LimQueued, Lim, Payload, Session

\* The key of an object of b has its own token; at a no START gets here.
LEMMA VerifyStartKeeps ==
    ASSUME IInv, NEW o \in Obj, verify_session_start(o),
           UNCHANGED <<tracked, nonces, connected, router, tries>>
    PROVE  IInv'
<1>1. Tables /\ sess \in [Obj -> Session] /\ sess[o] \in Session /\ ObjOK(o)
  BY DEF IInv
<1>2. PICK w : w = sess[o].workbuf
  OBVIOUS
<1>3. w \in Datagram \cup {Junk}
  BY <1>1, <1>2 DEF Session
<1>4. CASE w.t = "START" /\ w.token = sess[o].token
  <2>1. /\ Runs(Job("VerifyStart", o), PumpCryptoOutbound(o) (+) Queued(Job("EnterLIMSent", o)))
        /\ sess' = [sess EXCEPT ![o].key = <<w.token, w.nonce>>,
                                ![o].workbuf = Junk, ![o].working = FALSE,
                                ![o].outq = LimQueued(o), ![o].limSent = TRUE]
        /\ UNCHANGED net
    BY <1>2, <1>4 DEF verify_session_start
  <2>2. \A k \in BagToSet(PumpCryptoOutbound(o) (+) Queued(Job("EnterLIMSent", o))) :
           \E e \in PlainJobs :
             k = Job(e, o) /\ (e \in OpenerJobs => "VerifyStart" \in OpenerJobs)
    <3>1. {"Encrypt", "EnterLIMSent"} \subseteq PlainJobs \ OpenerJobs
      BY DEF PlainJobs, OpenerJobs
    <3> QED BY <3>1, NewJobs
  <2>3. /\ \A k \in BagToSet(jobs') : k \in BagToSet(jobs) \/ JobOK(k)
        /\ sess[o].token \in Obj
    BY <2>1, <2>2, RunsNext
  <2>4. o[1] = "b"
    BY <1>1, <1>2, <1>4, Objects DEF ObjOK
  <2>5. w \in Datagram
    BY <1>3, <1>4, Messages
  <2>6. w.token \in Obj /\ w.nonce \in Nat
    BY <1>4, <2>5 DEF Datagram
  <2>7. <<w.token, w.nonce>> \in Key /\ <<w.token, w.nonce>>[1] = w.token
    BY <2>6 DEF Key
  <2>8. w.token = o
    BY <1>1, <1>4, <2>3, <2>4, Objects DEF ObjOK
  <2>9. LimQueued(o) \in SUBSET Payload
    BY <1>1, LimIsPayload
  <2>10. /\ sess' \in [Obj -> Session] /\ \A p \in Obj : p = o \/ sess'[p] = sess[p]
         /\ sess'[o].token = sess[o].token /\ sess'[o].key = <<w.token, w.nonce>>
         /\ sess'[o].state = sess[o].state
    BY <1>1, <2>1, <2>7, <2>9 DEF Session
  <2>11. \A k \in BagToSet(jobs') : k \in BagToSet(jobs) \/ JobOK(k)'
    BY <2>3, <2>10, JobStays
  <2>12. /\ Tables' /\ o[1] # "a"
         /\ sess'[o].token \in {o, NoObj} /\ sess'[o].state # "IntroSent"
    BY <1>1, <2>4, <2>10 DEF Tables, ObjOK
  <2>13. sess'[o].key[1] = o
    BY <2>7, <2>8, <2>10
  <2>14. /\ \A x \in Server : tracked'[x] \in {NoObj, tracked[x]}
         /\ \A d \in BagToSet(net') : d \in BagToSet(net)
    BY <2>1
  <2> QED
    BY <2>3, <2>10, <2>11, <2>12, <2>13, <2>14, StepKeeps
<1>5. CASE ~(w.t = "START" /\ w.token = sess[o].token)
  <2>1. PICK v : v = IF w.t = "START" THEN Junk ELSE w
    OBVIOUS
  <2>2. /\ Runs(Job("VerifyStart", o), EmptyBag)
        /\ sess' = [sess EXCEPT ![o].working = FALSE, ![o].workbuf = v] /\ UNCHANGED net
    BY <1>2, <1>5, <2>1 DEF verify_session_start
  <2>3. \A k \in BagToSet(jobs') : k \in BagToSet(jobs) \/ JobOK(k)
    BY <2>2, NewJobs, RunsNext
  <2>4. v \in Datagram \cup {Junk} /\ v \in {sess[o].workbuf, Junk}
    BY <1>2, <1>3, <2>1
  <2>5. /\ sess' \in [Obj -> Session] /\ \A p \in Obj : p = o \/ sess'[p] = sess[p]
        /\ sess'[o].token = sess[o].token /\ sess'[o].key = sess[o].key
        /\ sess'[o].job = sess[o].job
        /\ sess'[o].workbuf = v /\ sess'[o].state = sess[o].state
    BY <1>1, <2>2, <2>4 DEF Session
  <2> QED
    BY <1>1, <2>2, <2>3, <2>4, <2>5, ObjectStep DEF Tables
<1> QED
  BY <1>4, <1>5

LEMMA GenAckKeeps ==
    ASSUME IInv, NEW o \in Obj, gen_introack(o),
           UNCHANGED <<nonces, connected, router, tries>>
    PROVE  IInv'
<1>1. Tables /\ sess \in [Obj -> Session] /\ sess[o] \in Session
  BY DEF IInv
<1>2. CASE tracked[o[1]] # NoObj
  <2>1. /\ Runs(Job("GenIntroAck", o), EmptyBag)
        /\ sess' = [sess EXCEPT ![o].state = "Freed"] /\ UNCHANGED <<net, tracked>>
    BY <1>2 DEF gen_introack
  <2>2. \A k \in BagToSet(jobs') : k \in BagToSet(jobs) \/ JobOK(k)
    BY <2>1, NewJobs, RunsNext
  <2>3. /\ sess' \in [Obj -> Session] /\ \A p \in Obj : p = o \/ sess'[p] = sess[p]
        /\ sess'[o].token = sess[o].token /\ sess'[o].key = sess[o].key
        /\ sess'[o].job = sess[o].job
        /\ sess'[o].workbuf = sess[o].workbuf /\ sess'[o].state = "Freed"
    BY <1>1, <2>1 DEF Session
  <2> QED
    BY <1>1, <2>1, <2>2, <2>3, ObjectStep DEF Tables
<1>3. CASE tracked[o[1]] = NoObj
  <2>1. /\ Runs(Job("GenIntroAck", o), Queued(Job("PutSession", o)))
        /\ UNCHANGED <<sess, net, tracked>>
    BY <1>3 DEF gen_introack
  <2>2. \A k \in BagToSet(Queued(Job("PutSession", o))) : \E e \in PlainJobs :
           k = Job(e, o) /\ (e \in OpenerJobs => "GenIntroAck" \in OpenerJobs)
    BY NewJobs DEF PlainJobs, OpenerJobs
  <2>3. \A k \in BagToSet(jobs') : k \in BagToSet(jobs) \/ JobOK(k)
    BY <2>1, <2>2, RunsNext
  <2>4. Tables'
    BY <1>1, <2>1 DEF Tables
  <2> QED
    BY <2>1, <2>3, <2>4, StayKeeps
<1> QED
  BY <1>2, <1>3

LEMMA PutKeeps ==
    ASSUME IInv, NEW o \in Obj, put_session(o),
           UNCHANGED <<nonces, connected, router, tries>>
    PROVE  IInv'
<1>1. Tables /\ sess \in [Obj -> Session] /\ sess[o] \in Session /\ ObjOK(o)
  BY DEF IInv
<1>2. \A k \in BagToSet(Queued(Job("EnterIntroAckSent", o))) : \E e \in PlainJobs :
         k = Job(e, o) /\ (e \in OpenerJobs => "PutSession" \in OpenerJobs)
  BY NewJobs DEF PlainJobs, OpenerJobs
<1>3. /\ \A k \in BagToSet(jobs') : k \in BagToSet(jobs) \/ JobOK(k)
      /\ sess[o].token \in Obj
  BY <1>2, RunsNext DEF put_session
<1>4. PICK m : m = IntroAck(o[1], o)
  OBVIOUS
<1>5. DatagramOK(m)
  BY <1>4, Messages, Objects DEF DatagramOK
<1>6. \A d \in BagToSet(net') : d \in BagToSet(net) \/ DatagramOK(d)
  BY <1>4, <1>5, SendsAdds DEF put_session
<1>7. /\ sess' \in [Obj -> Session] /\ \A p \in Obj : p = o \/ sess'[p] = sess[p]
      /\ sess'[o].token = sess[o].token /\ sess'[o].key = sess[o].key
      /\ sess'[o].job = sess[o].job
      /\ sess'[o].workbuf = sess[o].workbuf /\ sess'[o].state = sess[o].state
  BY <1>1 DEF Session, put_session
<1>8. tracked' = [tracked EXCEPT ![o[1]] = IF tracked[o[1]] = NoObj THEN o ELSE tracked[o[1]]]
  BY <1>1, Objects DEF put_session, Tables
<1>9. /\ \A x \in Server : \/ tracked'[x] \in {NoObj, tracked[x]}
                           \/ tracked'[x] = o /\ o[1] = x /\ sess'[o].token \in Obj
      /\ tracked' \in [Server -> Obj \cup {NoObj}]
  BY <1>1, <1>3, <1>7, <1>8, Objects DEF Tables
<1>10. \A k \in BagToSet(jobs') : k \in BagToSet(jobs) \/ JobOK(k)'
  BY <1>3, <1>7, JobStays
<1>11. Tables'
  BY <1>1, <1>9 DEF Tables
<1>12. /\ o[1] = "b" => /\ sess'[o].token \in {o, NoObj} /\ sess'[o].state # "IntroSent"
                        /\ sess'[o].key = NoKey \/ sess'[o].key[1] = o
       /\ o[1] = "a" => sess'[o].workbuf.t # "START" /\ sess'[o].key \in {NoKey, sess[o].key}
  BY <1>1, <1>7 DEF ObjOK
<1> QED
  BY <1>3, <1>6, <1>7, <1>9, <1>10, <1>11, <1>12, StepKeeps

\* The only step of a that gives an object a key: its nonce is new.
LEMMA GenStartKeeps ==
    ASSUME IInv, NEW o \in Obj, gen_session_start(o),
           UNCHANGED <<tracked, connected, router, tries>>
    PROVE  IInv'
<1>1. Tables /\ sess \in [Obj -> Session] /\ sess[o] \in Session /\ ObjOK(o) /\ TrackedOK
  BY DEF IInv
<1>2. \A k \in BagToSet(Queued(Job("EnterStartSent", o))) : \E e \in PlainJobs :
         k = Job(e, o) /\ (e \in OpenerJobs => "GenStart" \in OpenerJobs)
  BY NewJobs DEF PlainJobs, OpenerJobs
<1>3. /\ \A k \in BagToSet(jobs') : k \in BagToSet(jobs) \/ JobOK(k)
      /\ sess[o].token \in Obj /\ ("GenStart" \in OpenerJobs => o[1] = "a")
  BY <1>2, RunsNext DEF gen_session_start
<1>4. o[1] = "a"
  BY <1>3 DEF OpenerJobs
<1>5. PICK n : n = nonces["a"] + 1
  OBVIOUS
<1>6. nonces["a"] \in Nat /\ n \in Nat /\ n \in 1..n /\ n > nonces["a"]
  BY <1>1, <1>5, Objects DEF Tables
<1>7. PICK k : k = <<sess[o].token, n>>
  OBVIOUS
<1>8. k \in Key /\ k[2] = n /\ k # NoKey
  BY <1>3, <1>6, <1>7 DEF Key, NoKey
<1>9. /\ nonces' = [nonces EXCEPT !["a"] = n]
      /\ sess' = [sess EXCEPT ![o].key = k, ![o].working = FALSE]
      /\ Sends(Start("a", sess[o].token, n))
  BY <1>4, <1>5, <1>7 DEF gen_session_start
<1>10. nonces' \in [Server -> Nat] /\ nonces'["a"] = n
  BY <1>1, <1>6, <1>9, Objects DEF Tables
<1>11. Tables'
  BY <1>1, <1>10 DEF Tables
<1>12. /\ sess' \in [Obj -> Session] /\ \A p \in Obj : p = o \/ sess'[p] = sess[p]
       /\ sess'[o].token = sess[o].token /\ sess'[o].key = k
       /\ sess'[o].workbuf = sess[o].workbuf /\ sess'[o].state = sess[o].state
  BY <1>1, <1>8, <1>9 DEF Session
<1>13. ASSUME NEW p \in Obj PROVE ObjOK(p)'
  <2>1. CASE p = o
    BY <1>1, <1>3, <1>4, <1>6, <1>8, <1>10, <1>12, <2>1 DEF ObjOK
  <2>2. CASE p # o
    <3>1. ObjOK(p) /\ sess'[p] = sess[p]
      BY <1>12, <2>2 DEF IInv
    <3>2. 1..nonces["a"] \subseteq 1..n
      BY <1>6
    <3> QED BY <1>10, <3>1, <3>2 DEF ObjOK
  <2> QED BY <2>1, <2>2
<1>14. ASSUME NEW j \in BagToSet(jobs') PROVE JobOK(j)'
  <2>1. JobOK(j)
    BY <1>3, <1>14 DEF IInv
  <2> QED BY <1>12, <2>1, JobStays
<1>15. ASSUME NEW d \in BagToSet(net') PROVE DatagramOK(d)'
  <2>1. d \in BagToSet(net) \/ d = Start("a", sess[o].token, n)
    BY <1>9, SendsAdds
  <2>2. CASE d = Start("a", sess[o].token, n)
    BY <1>3, <1>6, <2>2, Messages, Objects DEF DatagramOK
  <2> QED BY <2>1, <2>2 DEF IInv, DatagramOK
<1>16. ASSUME NEW p \in Obj, p[1] = "a", p # o
       PROVE  sess'[p].key = sess[p].key /\ sess'[p].key[2] # n
  <2>1. ObjOK(p) /\ sess'[p].key = sess[p].key
    BY <1>12, <1>16 DEF IInv
  <2>2. NoKey[2] = 0
    BY DEF NoKey
  <2>3. sess[p].key[2] \in 0..nonces["a"]
    BY <1>6, <1>16, <2>1, <2>2 DEF ObjOK
  <2> QED BY <1>6, <2>1, <2>3
<1>17. NoncesDiffer'
  <2> SUFFICES ASSUME NEW p \in Obj, NEW q \in Obj, p[1] = "a", q[1] = "a",
                      sess'[p].key # NoKey, sess'[p].key[2] = sess'[q].key[2]
               PROVE  p = q
    BY DEF NoncesDiffer
  <2>1. CASE p = o
    BY <1>8, <1>12, <1>16, <2>1
  <2>2. CASE q = o
    BY <1>8, <1>12, <1>16, <2>2
  <2>3. CASE p # o /\ q # o
    BY <1>16, <2>3 DEF IInv, NoncesDiffer
  <2> QED BY <2>1, <2>2, <2>3
<1>18. TrackedOK'
  <2> SUFFICES ASSUME NEW x \in Server, tracked[x] # NoObj
               PROVE  tracked[x][1] = x /\ sess'[tracked[x]].token \in Obj
    BY DEF TrackedOK
  <2>1. tracked[x] \in Obj
    BY <1>1 DEF Tables
  <2> QED BY <1>1, <1>12, <2>1 DEF TrackedOK
<1> QED
  BY <1>11, <1>12, <1>13, <1>14, <1>15, <1>17, <1>18 DEF IInv

LEMMA WorkerKeeps ==
    ASSUME IInv, NEW o \in Obj, Worker(o)
    PROVE  IInv'
<1>1. UNCHANGED <<connected, router, tries>>
  BY DEF Worker
<1>2. CASE gen_intro(o) /\ UNCHANGED <<tracked, nonces>>
  BY <1>1, <1>2, GenIntroKeeps
<1>3. CASE verify_intro(o) /\ UNCHANGED <<tracked, nonces>>
  BY <1>1, <1>3, VerifyIntroKeeps
<1>4. CASE verify_introack(o) /\ UNCHANGED <<tracked, nonces>>
  BY <1>1, <1>4, VerifyAckKeeps
<1>5. CASE verify_session_start(o) /\ UNCHANGED <<tracked, nonces>>
  BY <1>1, <1>5, VerifyStartKeeps
<1>6. CASE /\ \/ EnterState(o, "EnterIntroSent", "IntroSent")
              \/ EnterState(o, "EnterIntroAckSent", "IntroAckSent")
              \/ EnterState(o, "EnterStartSent", "SessionStartSent")
              \/ EnterState(o, "EnterLIMSent", "LIMSent")
           /\ UNCHANGED <<tracked, nonces>>
  BY <1>1, <1>6, EnterKeeps
<1>7. CASE EncryptOutboundFrames(o) /\ UNCHANGED <<tracked, nonces>>
  BY <1>1, <1>7, EncryptKeeps
<1>8. CASE hmac_then_decrypt(o) /\ UNCHANGED <<tracked, nonces>>
  BY <1>1, <1>8, DecryptKeeps
<1>9. CASE gen_session_start(o) /\ UNCHANGED tracked
  BY <1>1, <1>9, GenStartKeeps
<1>10. CASE gen_introack(o) /\ UNCHANGED nonces
  BY <1>1, <1>10, GenAckKeeps
<1>11. CASE put_session(o) /\ UNCHANGED nonces
  BY <1>1, <1>11, PutKeeps
<1> QED
  BY <1>2, <1>3, <1>4, <1>5, <1>6, <1>7, <1>8, <1>9, <1>10, <1>11 DEF Worker

-----------------------------------------------------------------------------
(* The logic thread *)

LEMMA HandleVerifyKeeps ==
    ASSUME IInv, NEW o \in Obj, handle_verify_intro(o),
           UNCHANGED <<tracked, connected, router, tries, nonces>>
    PROVE  IInv'
<1>1. Tables /\ sess \in [Obj -> Session] /\ sess[o] \in Session
  BY DEF IInv
<1>2. PICK new : new = IF sess[o].introbuf THEN Queued(Job("GenIntroAck", o)) ELSE EmptyBag
  OBVIOUS
<1>3. Runs(Job("InformIntro", o), new)
  BY <1>2 DEF handle_verify_intro
<1>4. \A k \in BagToSet(new) : \E e \in PlainJobs :
         k = Job(e, o) /\ (e \in OpenerJobs => "InformIntro" \in OpenerJobs)
  <2>1. "GenIntroAck" \in PlainJobs \ OpenerJobs
    BY DEF PlainJobs, OpenerJobs
  <2> QED BY <1>2, <2>1, NewJobs
<1>5. \A k \in BagToSet(jobs') : k \in BagToSet(jobs) \/ JobOK(k)
  BY <1>3, <1>4, RunsNext
<1>6. \/ sess' = [sess EXCEPT ![o].workbuf = Junk, ![o].working = TRUE]
      \/ sess' = [sess EXCEPT ![o].working = FALSE]
  BY DEF handle_verify_intro, StartIntroAck
<1>7. /\ sess' \in [Obj -> Session] /\ \A p \in Obj : p = o \/ sess'[p] = sess[p]
      /\ sess'[o].token = sess[o].token /\ sess'[o].key = sess[o].key
      /\ sess'[o].job = sess[o].job
      /\ sess'[o].workbuf \in {sess[o].workbuf, Junk} /\ sess'[o].state = sess[o].state
  <2>1. CASE sess' = [sess EXCEPT ![o].workbuf = Junk, ![o].working = TRUE]
    BY <1>1, <2>1 DEF Session
  <2>2. CASE sess' = [sess EXCEPT ![o].working = FALSE]
    BY <1>1, <2>2 DEF Session
  <2> QED BY <1>6, <2>1, <2>2
<1> QED
  BY <1>1, <1>5, <1>7, ObjectStep DEF Tables, handle_verify_intro

LEMMA ProcessKeeps ==
    ASSUME IInv, NEW o \in Obj, handle_frame_decrypt(o), UNCHANGED <<tries, nonces>>
    PROVE  IInv'
<1>1. Tables /\ sess \in [Obj -> Session] /\ sess[o] \in Session
  BY DEF IInv
<1>2. PICK j \in BagToSet(jobs) :
         /\ j.do = "Process" /\ j.obj = o
         /\ \/ SpoofedLIM(o, j.frame) \/ ProcessLIM(o, j.frame)
            \/ ProcessOtherLIM(o, j.frame) \/ ProcessALIV(o, j.frame)
  BY DEF handle_frame_decrypt
<1>3. JobOK(j)
  BY <1>2 DEF IInv
<1>4. j.frame \in Payload /\ sess[o].token \in Obj
  BY <1>2, <1>3 DEF JobOK, JobType, PlainJobs, OpenerJobs
<1>5. PICK p : p = j.frame
  OBVIOUS
<1>6. p.inv \in BOOLEAN
  BY <1>4, <1>5 DEF Payload
<1>7. \A do \in {"Encrypt", "Keepalive"} : JobOK(Job(do, o))
  BY <1>4 DEF JobOK, Job, JobType, PlainJobs, OpenerJobs
<1>8. ASSUME NEW new, Runs(FrameJob("Process", o, p), new),
             \A k \in BagToSet(new) : k \in {Job("Encrypt", o), Job("Keepalive", o)}
      PROVE  \A k \in BagToSet(jobs') : k \in BagToSet(jobs) \/ JobOK(k)
  BY <1>7, <1>8, RunsAdds
<1>9. PICK s : s = Alive(o, p)
  OBVIOUS
<1>10. /\ s \in Session /\ s.token = sess[o].token /\ s.key = sess[o].key
       /\ s.workbuf = sess[o].workbuf /\ s.state = sess[o].state
  <2>1. PICK b : b = (sess[o].rxInv \/ p.inv)
    OBVIOUS
  <2>2. b \in BOOLEAN /\ s = [sess[o] EXCEPT !.rxInv = b, !.idle = FALSE]
    BY <1>9, <2>1 DEF Alive
  <2> QED BY <1>1, <2>2 DEF Session
<1>11. /\ router' \in [Server -> {"idle", "waiting", "backoff"}] /\ UNCHANGED <<tracked, net>>
  BY <1>1 DEF handle_frame_decrypt, Tables
<1>12. ASSUME NEW u \in Session, sess' = [sess EXCEPT ![o] = u], u.token = sess[o].token,
              u.key = sess[o].key, u.workbuf = sess[o].workbuf,
              u.state \in {sess[o].state, "Established"}, connected' \in [Server -> BOOLEAN],
              NEW new, Runs(FrameJob("Process", o, p), new),
              \A k \in BagToSet(new) : k \in {Job("Encrypt", o), Job("Keepalive", o)}
       PROVE  IInv'
  <2>1. \A k \in BagToSet(jobs') : k \in BagToSet(jobs) \/ JobOK(k)
    BY <1>8, <1>12
  <2>2. sess' \in [Obj -> Session] /\ sess'[o] = u /\ \A q \in Obj : q = o \/ sess'[q] = sess[q]
    BY <1>1, <1>12
  <2> QED BY <1>4, <1>11, <1>12, <2>1, <2>2, ObjectStep
<1>13. CASE SpoofedLIM(o, p)
  <2>1. PICK b : b = (sess[o].rxInv \/ p.inv)
    OBVIOUS
  <2>2. PICK u : u = [sess[o] EXCEPT !.rxInv = b, !.txInv = TRUE]
    OBVIOUS
  <2>3. b \in BOOLEAN
    BY <2>1
  <2>4. /\ u \in Session /\ u.token = sess[o].token /\ u.key = sess[o].key
        /\ u.workbuf = sess[o].workbuf /\ u.state = sess[o].state
    BY <1>1, <2>2, <2>3 DEF Session
  <2>5. sess' = [sess EXCEPT ![o] = u]
    BY <1>1, <1>13, <2>1, <2>2 DEF SpoofedLIM
  <2>6. \A k \in BagToSet(Once(Job("Keepalive", o))) : k = Job("Keepalive", o)
    BY InQueued
  <2>7. connected' \in [Server -> BOOLEAN]
    BY <1>1, <1>13 DEF SpoofedLIM, Tables
  <2> QED BY <1>12, <1>13, <2>4, <2>5, <2>6, <2>7 DEF SpoofedLIM
<1>14. CASE ProcessLIM(o, p)
  <2>1. PICK t : t = TimerCancelled(o)
    OBVIOUS
  <2>2. t \in {"off", "armed", "due", "cancelled"}
    BY <1>1, <2>1 DEF TimerCancelled, Session
  <2>3. PICK q : q = LimQueued(o)
    OBVIOUS
  <2>4. q \in SUBSET Payload
    BY <1>1, <2>3, LimIsPayload
  <2>5. PICK u : u = [s EXCEPT !.outq = q, !.limSent = TRUE, !.state = "Established", !.timer = t]
    OBVIOUS
  <2>6. /\ u \in Session /\ u.token = sess[o].token /\ u.key = sess[o].key
        /\ u.workbuf = sess[o].workbuf /\ u.state = "Established"
    BY <1>10, <2>2, <2>4, <2>5 DEF Session, FrameState
  <2>7. sess' = [sess EXCEPT ![o] = u]
    BY <1>9, <1>14, <2>1, <2>3, <2>5 DEF ProcessLIM
  <2>8. \A k \in BagToSet(PumpCryptoOutbound(o)) : k = Job("Encrypt", o)
    BY NewJobs
  <2>9. connected' \in [Server -> BOOLEAN]
    BY <1>1, <1>14 DEF ProcessLIM, Tables
  <2> QED BY <1>12, <1>14, <2>6, <2>7, <2>8, <2>9 DEF ProcessLIM
<1>15. CASE ProcessOtherLIM(o, p)
  <2>1. sess' = [sess EXCEPT ![o] = s] /\ connected' \in [Server -> BOOLEAN]
    BY <1>1, <1>9, <1>15 DEF ProcessOtherLIM, Tables
  <2> QED BY <1>10, <1>12, <1>15, <2>1, NewJobs DEF ProcessOtherLIM
<1>16. CASE ProcessALIV(o, p)
  <2>1. PICK b : b = (sess[o].txInv \/ sess[o].rxInv \/ p.inv)
    OBVIOUS
  <2>2. PICK u : u = [s EXCEPT !.txInv = b]
    OBVIOUS
  <2>3. b \in BOOLEAN
    BY <2>1
  <2>4. /\ u \in Session /\ u.token = sess[o].token /\ u.key = sess[o].key
        /\ u.workbuf = sess[o].workbuf /\ u.state = sess[o].state
    BY <1>10, <2>2, <2>3 DEF Session
  <2>5. sess' = [sess EXCEPT ![o] = u] /\ connected' \in [Server -> BOOLEAN]
    BY <1>1, <1>9, <1>16, <2>1, <2>2 DEF ProcessALIV, Tables
  <2> QED BY <1>12, <1>16, <2>4, <2>5, NewJobs DEF ProcessALIV
<1> QED
  BY <1>2, <1>5, <1>13, <1>14, <1>15, <1>16

\* Steps that only queue a keepalive or its encryption.
LEMMA QuietJobs ==
    ASSUME NEW o \in Obj, sess[o].token \in Obj
    PROVE  JobOK(Job("Encrypt", o)) /\ JobOK(Job("Keepalive", o))
BY DEF JobOK, Job, JobType, PlainJobs, OpenerJobs

LEMMA CloseKeeps ==
    ASSUME IInv, NEW o \in Obj, close(o), UNCHANGED <<tries, nonces>>
    PROVE  IInv'
<1>1. Tables /\ sess \in [Obj -> Session] /\ sess[o] \in Session /\ ObjOK(o)
  BY DEF IInv
<1>2. sess[o].token \in Obj
  BY <1>1 DEF ObjOK, close
<1>3. /\ sess' \in [Obj -> Session] /\ \A p \in Obj : p = o \/ sess'[p] = sess[p]
      /\ sess'[o].token = sess[o].token /\ sess'[o].key = sess[o].key
      /\ sess'[o].workbuf = sess[o].workbuf /\ sess'[o].state = sess[o].state
  BY <1>1 DEF Session, close
<1>4. \A k \in BagToSet(jobs') : k \in BagToSet(jobs) \/ k = Job("Keepalive", o)
  BY InSum, InQueued DEF close
<1>5. \A k \in BagToSet(jobs') : k \in BagToSet(jobs) \/ JobOK(k)
  BY <1>2, <1>4, QuietJobs
<1> QED
  BY <1>1, <1>2, <1>3, <1>5, ObjectStep DEF Tables, close

\* A keepalive is queued for encryption.
LEMMA AlivQueued ==
    ASSUME IInv, NEW o \in Obj,
           sess' = [sess EXCEPT ![o].outq = @ \cup {Aliv(sess[o].txInv)}]
    PROVE  /\ sess' \in [Obj -> Session] /\ \A p \in Obj : p = o \/ sess'[p] = sess[p]
           /\ sess'[o].token = sess[o].token /\ sess'[o].key = sess[o].key
           /\ sess'[o].workbuf = sess[o].workbuf /\ sess'[o].state = sess[o].state
           /\ sess'[o].job = sess[o].job
<1>1. sess \in [Obj -> Session] /\ sess[o] \in Session
  BY DEF IInv
<1>2. PICK q : q = sess[o].outq \cup {Aliv(sess[o].txInv)}
  OBVIOUS
<1>3. q \in SUBSET Payload
  BY <1>1, <1>2 DEF Session, Aliv, Payload
<1>4. sess' = [sess EXCEPT ![o].outq = q]
  BY <1>1, <1>2
<1> QED
  BY <1>1, <1>3, <1>4 DEF Session

LEMMA KeepaliveKeeps ==
    ASSUME IInv, NEW o \in Obj, send_keepalive(o), UNCHANGED <<tries, nonces>>
    PROVE  IInv'
<1>1. Tables
  BY DEF IInv
<1>2. UNCHANGED <<tracked, connected, router, net>> /\ Tables'
  BY <1>1 DEF send_keepalive, Tables
<1>3. CASE is_invalidated(o)
  <2>1. \A k \in BagToSet(jobs') : k \in BagToSet(jobs) \/ JobOK(k)
    BY <1>3, NewJobs, RunsNext DEF send_keepalive
  <2> QED BY <1>2, <1>3, <2>1, StayKeeps DEF send_keepalive
<1>4. CASE ~is_invalidated(o)
  <2>1. /\ Runs(Job("Keepalive", o), PumpCryptoOutbound(o))
        /\ sess' = [sess EXCEPT ![o].outq = @ \cup {Aliv(sess[o].txInv)}]
    BY <1>4 DEF send_keepalive
  <2>2. "Encrypt" \in PlainJobs \ OpenerJobs
    BY DEF PlainJobs, OpenerJobs
  <2>3. \A k \in BagToSet(jobs') : k \in BagToSet(jobs) \/ JobOK(k)
    BY <2>1, <2>2, NewJobs, RunsNext
  <2> QED BY <1>1, <1>2, <2>1, <2>3, AlivQueued, ObjectStep DEF Tables
<1> QED
  BY <1>3, <1>4

LEMMA TickRemoveKeeps ==
    ASSUME IInv, NEW o \in Obj, TickRemove(o), UNCHANGED <<tries, nonces>>
    PROVE  IInv'
<1>1. Tables /\ ObjOK(o) /\ TrackedOK
  BY DEF IInv
<1>2. sess[o].token \in Obj
  BY <1>1, Objects DEF TrackedOK, TickRemove
<1>3. RemoveSessionByAddr(o) /\ UNCHANGED <<jobs, router, net>>
  BY DEF TickRemove
<1>4. Tables'
  BY <1>1, <1>3, RemoveFacts DEF Tables
<1>5. /\ o[1] = "b" => /\ sess'[o].token \in {o, NoObj} /\ sess'[o].state # "IntroSent"
                       /\ sess'[o].key = NoKey \/ sess'[o].key[1] = o
      /\ o[1] = "a" => sess'[o].workbuf.t # "START" /\ sess'[o].key \in {NoKey, sess[o].key}
  BY <1>1, <1>3, RemoveFacts DEF ObjOK
<1> QED
  BY <1>2, <1>3, <1>4, <1>5, RemoveFacts, StepKeeps

LEMMA TickKeepKeeps ==
    ASSUME IInv, NEW o \in Obj, TickKeep(o), UNCHANGED <<tries, nonces>>
    PROVE  IInv'
<1>1. Tables /\ TrackedOK
  BY DEF IInv
<1>2. sess[o].token \in Obj
  BY <1>1, Objects DEF TrackedOK, TickKeep
<1>3. \A k \in BagToSet(jobs') : k \in BagToSet(jobs) \/ JobOK(k)
  BY <1>2, InSum, NewJobs, QuietJobs DEF TickKeep
<1> QED
  BY <1>1, <1>3, AlivQueued, ObjectStep DEF Tables, TickKeep

LEMMA TimeoutKeeps ==
    ASSUME IInv, NEW o \in Obj, handle_establish_timeout(o), UNCHANGED <<tries, nonces>>
    PROVE  IInv'
<1>1. Tables /\ sess \in [Obj -> Session] /\ sess[o] \in Session /\ ObjOK(o)
  BY DEF IInv
<1>2. PICK r : r = IF sess[o].job = "waiting" /\ sess[o].state = "Established"
                   THEN "answered" ELSE "none"
  OBVIOUS
<1>3. r \in {"answered", "none"} /\ (r = "none" \/ sess[o].job = "waiting")
  BY <1>2
<1>4. sess' = [sess EXCEPT ![o].timer = "off", ![o].job = r]
  BY <1>1, <1>2 DEF handle_establish_timeout
<1>5. /\ sess' \in [Obj -> Session] /\ \A p \in Obj : p = o \/ sess'[p] = sess[p]
      /\ sess'[o].token = sess[o].token /\ sess'[o].key = sess[o].key /\ sess'[o].job = r
      /\ sess'[o].workbuf = sess[o].workbuf /\ sess'[o].state = sess[o].state
  BY <1>1, <1>3, <1>4 DEF Session
<1>6. sess[o].token \in Obj \/ r = "none"
  BY <1>1, <1>3 DEF ObjOK
<1>7. router' \in [Server -> {"idle", "waiting", "backoff"}]
  BY <1>1, Objects DEF Tables, handle_establish_timeout
<1>8. UNCHANGED <<tracked, connected, jobs, net>>
  BY DEF handle_establish_timeout
<1> QED
  BY <1>1, <1>5, <1>6, <1>7, <1>8, ObjectStep DEF Tables

LEMMA LogicKeeps ==
    ASSUME IInv, NEW o \in Obj, Logic(o)
    PROVE  IInv'
<1>1. UNCHANGED <<tries, nonces>>
  BY DEF Logic
<1>2. CASE handle_verify_intro(o) /\ UNCHANGED <<tracked, connected, router>>
  BY <1>1, <1>2, HandleVerifyKeeps
<1>3. CASE handle_frame_decrypt(o)
  BY <1>1, <1>3, ProcessKeeps
<1>4. CASE close(o)
  BY <1>1, <1>4, CloseKeeps
<1>5. CASE send_keepalive(o)
  BY <1>1, <1>5, KeepaliveKeeps
<1>6. CASE TickRemove(o)
  BY <1>1, <1>6, TickRemoveKeeps
<1>7. CASE TickKeep(o)
  BY <1>1, <1>7, TickKeepKeeps
<1>8. CASE handle_establish_timeout(o)
  BY <1>1, <1>8, TimeoutKeeps
<1> QED
  BY <1>2, <1>3, <1>4, <1>5, <1>6, <1>7, <1>8 DEF Logic

-----------------------------------------------------------------------------
(* Time, loss, and the results *)

LEMMA TimeKeeps ==
    ASSUME IInv, NEW o \in Obj, TimePasses(o)
    PROVE  IInv'
<1>1. Tables /\ sess \in [Obj -> Session] /\ sess[o] \in Session
  BY DEF IInv
<1>2. \/ sess' = [sess EXCEPT ![o].timer = "due"]
      \/ sess' = [sess EXCEPT ![o].idle = TRUE]
  BY DEF TimePasses
<1>3. /\ sess' \in [Obj -> Session] /\ \A p \in Obj : p = o \/ sess'[p] = sess[p]
      /\ sess'[o].token = sess[o].token /\ sess'[o].key = sess[o].key
      /\ sess'[o].workbuf = sess[o].workbuf /\ sess'[o].state = sess[o].state
      /\ sess'[o].job = sess[o].job
  <2>1. CASE sess' = [sess EXCEPT ![o].timer = "due"]
    BY <1>1, <2>1 DEF Session
  <2>2. CASE sess' = [sess EXCEPT ![o].idle = TRUE]
    BY <1>1, <2>2 DEF Session
  <2> QED BY <1>2, <2>1, <2>2
<1>4. UNCHANGED <<tracked, connected, router, tries, nonces, jobs, net>>
  BY DEF TimePasses
<1> QED
  BY <1>1, <1>3, <1>4, ObjectStep DEF Tables

LEMMA LoseKeeps ==
    ASSUME IInv, NEW d \in BagToSet(net), Lose(d)
    PROVE  IInv'
<1>1. \A e \in BagToSet(net') : e \in BagToSet(net)
  BY InDifference DEF Lose
<1>2. UNCHANGED <<sess, tracked, connected, router, tries, nonces, jobs>>
  BY DEF Lose
<1>3. Tables'
  BY <1>2 DEF IInv, Tables
<1> QED
  BY <1>1, <1>2, <1>3, StayKeeps

LEMMA InitIInv == Init => IInv
<1> SUFFICES ASSUME Init PROVE IInv
  OBVIOUS
<1>1. NoKey \in Key /\ NoObj \notin Obj
  BY Objects DEF NoKey, Key
<1>2. /\ None \in Session /\ None.token = NoObj /\ None.key = NoKey /\ None.job = "none"
      /\ None.workbuf = Junk /\ None.state = "None"
  BY <1>1 DEF None, create_session, Session, HandshakeState
<1>3. sess \in [Obj -> Session] /\ \A o \in Obj : sess[o] = None
  BY <1>2 DEF Init
<1>4. ASSUME NEW o \in Obj PROVE ObjOK(o)
  BY <1>2, <1>3, Messages DEF ObjOK
<1>5. NoncesDiffer
  BY <1>2, <1>3 DEF NoncesDiffer
<1>6. Tables /\ TrackedOK
  BY BoundAssumption DEF Init, Tables, TrackedOK
<1>7. BagToSet(jobs) = {} /\ BagToSet(net) = {}
  BY InQueued DEF Init
<1> QED
  BY <1>3, <1>4, <1>5, <1>6, <1>7 DEF IInv

LEMMA NextIInv == IInv /\ [Next]_vars => IInv'
<1> SUFFICES ASSUME IInv, [Next]_vars PROVE IInv'
  OBVIOUS
<1>1. CASE try_connect
  BY <1>1, EstablishKeeps DEF try_connect
<1>2. CASE connect_job_retry
  BY <1>2, EstablishKeeps DEF connect_job_retry
<1>3. ASSUME NEW x \in Server, NEW d \in BagToSet(net), handle_recvfrom(x, d) PROVE IInv'
  BY <1>3, HandleRecvKeeps
<1>4. ASSUME NEW o \in Obj, Worker(o) PROVE IInv'
  BY <1>4, WorkerKeeps
<1>5. ASSUME NEW o \in Obj, Logic(o) PROVE IInv'
  BY <1>5, LogicKeeps
<1>6. ASSUME NEW o \in Obj, TimePasses(o) PROVE IInv'
  BY <1>6, TimeKeeps
<1>7. ASSUME NEW d \in BagToSet(net), Lose(d) PROVE IInv'
  BY <1>7, LoseKeeps
<1>8. CASE UNCHANGED vars
  <2>1. UNCHANGED <<sess, tracked, jobs, net, nonces>> /\ Tables'
    BY <1>8 DEF vars, IInv, Tables
  <2> QED BY <2>1, StayKeeps
<1> QED
  BY <1>1, <1>2, <1>3, <1>4, <1>5, <1>6, <1>7, <1>8 DEF Next

(* IInv holds in every state of the specification, whatever is retried, late,
   lost or duplicated (all of session and server in iwp_link.cpp). *)
THEOREM InvariantHolds == Spec => []IInv
BY InitIInv, NextIInv, PTL DEF Spec

(* Session objects, m_sessions, jobs and datagrams always have their types: no
   hook hands on a token, key or frame that the handshake did not fill in
   (on_intro_ack, verify_introack, handle_verify_session_start). *)
THEOREM TypeCorrect == Spec => []TypeOK
<1>1. IInv => TypeOK
  <2> SUFFICES ASSUME IInv PROVE TypeOK
    OBVIOUS
  <2>1. ASSUME NEW j \in BagToSet(jobs) PROVE j.obj \in Obj
    BY <2>1 DEF IInv, JobOK, JobType
  <2>2. BagToSet(net) \subseteq Datagram
    BY DEF IInv, DatagramOK
  <2> QED BY <2>1, <2>2 DEF IInv, Tables, TypeOK
<1> QED
  BY <1>1, InvariantHolds, PTL

(* The key of a session at b comes from the token of this very session, and no
   two sessions of a server ever share a key, for any number of attempts,
   sessions and copies of a datagram (verify_session_start, gen_session_start). *)
THEOREM KeysAreFresh == Spec => []KeyIsFresh
<1>1. IInv => KeyIsFresh
  <2> SUFFICES ASSUME IInv, NEW o \in Obj, sess[o].key # NoKey
               PROVE  /\ o[1] = "b" => sess[o].key[1] = o
                      /\ \A p \in Obj : p[1] = o[1] /\ sess[p].key = sess[o].key => p = o
    BY DEF KeyIsFresh
  <2>1. ASSUME NEW p \in Obj, p[1] = "b", sess[p].key # NoKey PROVE sess[p].key[1] = p
    BY <2>1 DEF IInv, ObjOK
  <2>2. ASSUME NEW p \in Obj, p[1] = o[1], sess[p].key = sess[o].key PROVE p = o
    <3>1. CASE o[1] = "b"
      BY <2>1, <2>2, <3>1
    <3>2. CASE o[1] = "a"
      BY <2>2, <3>2 DEF IInv, NoncesDiffer
    <3> QED BY <3>1, <3>2, Objects
  <2> QED BY <2>1, <2>2
<1> QED
  BY <1>1, InvariantHolds, PTL
=============================================================================
