-------------------------- MODULE IwpAttempt_proofs --------------------------
(***************************************************************************)
(* Proofs about one attempt to establish a session (MaxTries = 1), for any *)
(* number of session objects and any loss, delay and reordering, and, where *)
(* a theorem does not exclude it, any duplication of datagrams.  What b    *)
(* does with its objects is proved for any number of attempts.             *)
(***************************************************************************)
EXTENDS IwpSession_proofs, NatLemmas

-----------------------------------------------------------------------------
(* The answering server, whatever the opener does *)

On(do, o) == Job(do, o) \in BagToSet(jobs)

Single(do, o) == On(do, o) => jobs[Job(do, o)] = 1

Counted == IsABag(jobs) /\ IsABag(net)

\* Objects are made one after the other.
Segment ==
    \A x \in Server : \A m, n \in 1..MaxSessions :
      m < n /\ sess[<<x, m>>].state = "None" => sess[<<x, n>>].state = "None"

Unborn ==
    \A o \in Obj : sess[o].state = "None" =>
      sess[o] = None /\ tracked[o[1]] # o /\ \A j \in BagToSet(jobs) : j.obj # o

\* The jobs that lead from an INTRO to the INTROACK, and the EnterState after it.
Chain == {"VerifyIntro", "InformIntro", "GenIntroAck", "PutSession"}
Steps == Chain \cup {"EnterIntroAckSent"}

\* An object of b takes the steps of the handshake once, has no other job
\* meanwhile, and is in m_sessions only after the check for a duplicate.
Answerer(o) ==
    /\ sess[o].state \notin {"Initial", "SessionStartSent"} /\ ~On("EnterStartSent", o)
    /\ \A do \in Steps : On(do, o) =>
         /\ Single(do, o) /\ sess[o].state = "IntroRecv" /\ sess[o].working
         /\ \A e \in Steps : On(e, o) => e = do
    /\ \A do \in Chain : On(do, o) => tracked["b"] # o
    /\ \A j \in BagToSet(jobs) : j.obj = o =>
         /\ sess[o].state = "IntroRecv" => j.do \in Steps
         /\ j.do \in {"Decrypt", "Process"} => sess[o].state \in FrameState \cup {"Freed"}
    /\ tracked["b"] = o => sess[o].state # "Freed"
    /\ sess[o].job = "none"

Answering ==
    /\ Counted /\ Segment /\ Unborn
    /\ \A o \in Obj : o[1] = "b" => Answerer(o)

-----------------------------------------------------------------------------
(* The opening server, in its only attempt *)

A1 == <<"a", 1>>

BHasKey == \E p \in Obj : p[1] = "b" /\ sess[p].key # NoKey

AHasKey == sess[A1].key # NoKey

\* Before the attempt
NotTried ==
    /\ tries["a"] = 0 /\ nonces["a"] = 0
    /\ \A o \in Obj : sess[o] = None
    /\ \A x \in Server : tracked[x] = NoObj /\ router[x] = "idle"
    /\ BagToSet(jobs) = {} /\ BagToSet(net) = {}

\* The INTRO is being made.
Introducing ==
    /\ tries["a"] = 1 /\ nonces["a"] = 0
    /\ \A o \in Obj : o # A1 => sess[o] = None
    /\ sess[A1] = [create_session(A1) EXCEPT
                     !.job = "waiting", !.idle = FALSE, !.timer = "armed",
                     !.workbuf = Intro("a"), !.introbuf = TRUE,
                     !.hook = "generated", !.working = TRUE]
    /\ tracked["a"] = A1 /\ tracked["b"] = NoObj
    /\ router["a"] = "waiting" /\ router["b"] = "idle"
    /\ BagToSet(jobs) = {Job("GenIntro", A1)} /\ Single("GenIntro", A1)
    /\ BagToSet(net) = {}

OpenJobs ==
    {"EnterIntroSent", "VerifyIntro", "InformIntro", "VerifyIntroAck", "GenStart",
     "EnterStartSent", "Encrypt", "Keepalive", "Decrypt", "Process"}

\* Objects that a makes for late datagrams come to nothing.
Late(o) ==
    /\ sess[o].state \in {"None", "IntroRecv", "Freed"} /\ sess[o].key = NoKey
    /\ sess[o].outq = {} /\ sess[o].job = "none" /\ sess[o].timer = "off"
    /\ \A j \in BagToSet(jobs) : j.obj = o => j.do \in {"VerifyIntro", "InformIntro"}

\* a is never asked to answer.
AskedNothing ==
    /\ \A j \in BagToSet(jobs) : j.obj[1] = "a" => j.do \in OpenJobs
    /\ \A o \in Obj : o[1] = "a" =>
         /\ sess[o].workbuf # Intro("b")
         /\ On("InformIntro", o) => ~sess[o].introbuf
         /\ On("VerifyIntro", o) \/ On("InformIntro", o) => sess[o].state # "Initial"
    /\ \A d \in BagToSet(net) : d.from = "b" => d.t # "INTRO"

\* How far the attempt has come.
Progress ==
    /\ tracked["a"] \in {NoObj, A1} /\ sess[A1].state \notin {"None", "IntroAckSent"}
    /\ nonces["a"] \in {0, 1} /\ (AHasKey <=> nonces["a"] = 1)
    /\ sess[A1].state \in {"Initial", "IntroSent"} => ~AHasKey
    /\ sess[A1].state = "Initial" =>
         \A do \in {"VerifyIntroAck", "GenStart", "EnterStartSent"} : ~On(do, A1)
    /\ On("EnterIntroSent", A1) =>
         /\ Single("EnterIntroSent", A1) /\ ~AHasKey /\ ~sess[A1].idle /\ ~sess[A1].txInv
         /\ sess[A1].state \in {"Initial", "IntroRecv"}
         /\ \A do \in {"VerifyIntroAck", "GenStart", "EnterStartSent"} : ~On(do, A1)
    /\ On("GenStart", A1) =>
         /\ Single("GenStart", A1) /\ ~AHasKey
         /\ sess[A1].workbuf.t # "INTROACK" /\ sess[A1].state \in {"IntroAckRecv", "Freed"}
    /\ AHasKey => sess[A1].workbuf.t # "INTROACK"
    /\ On("EnterStartSent", A1) =>
         /\ Single("EnterStartSent", A1) /\ AHasKey
         /\ sess[A1].state \in {"IntroAckRecv", "Freed"}
    /\ \A j \in BagToSet(jobs) :
         j.obj = A1 /\ j.do \in {"Decrypt", "Process"} => sess[A1].state \in FrameState \cup {"Freed"}
    /\ sess[A1].state \in FrameState => AHasKey
    /\ tracked["a"] = A1 => sess[A1].state # "Freed"

\* There is one key.
FrameKey(d) == AHasKey /\ d.key = sess[A1].key /\ (d.from = "b" => BHasKey)
StartKey(d) == AHasKey /\ <<d.token, d.nonce>> = sess[A1].key

OneKey ==
    /\ \A o \in Obj : o[1] = "b" =>
         /\ sess[o].key \in {NoKey, sess[A1].key}
         /\ sess[o].workbuf.t = "START" => StartKey(sess[o].workbuf)
    /\ \A d \in BagToSet(net) :
         (d.t = "FRAME" => FrameKey(d)) /\ (d.t = "START" => StartKey(d))
    /\ \A j \in BagToSet(jobs) :
         /\ j.do = "Decrypt" /\ j.frame.t = "FRAME" =>
              FrameKey(j.frame) /\ j.frame.from = Peer(j.obj[1])
         /\ j.do \in {"Process", "Keepalive", "EnterLIMSent"} => sess[j.obj].key # NoKey
         /\ j.do = "Process" => BHasKey
    /\ \A o \in Obj :
         /\ sess[o].outq # {} => sess[o].key # NoKey
         /\ sess[o].state \in {"LIMSent", "Established"} \/ sess[o].job = "answered" =>
              sess[o].key # NoKey /\ BHasKey

Opened ==
    /\ tries["a"] = 1
    /\ \A j \in BagToSet(jobs) : j.do # "GenIntro"
    /\ \A o \in Obj : o[1] = "a" /\ o # A1 => Late(o)
    /\ AskedNothing

Under == Opened /\ Progress /\ OneKey

Attempt == NotTried \/ Introducing \/ Under

-----------------------------------------------------------------------------
(* The router's establish job, if no RC is bad *)

Flagless(d) == d.t = "FRAME" => ~d.body.inv

Waiting ==
    router["a"] = "waiting" =>
      /\ tracked["a"] = A1 /\ sess[A1].job = "waiting" /\ sess[A1].timer # "off"
      /\ ~sess[A1].idle
      /\ \A o \in Obj :
           ~sess[o].txInv /\ ~sess[o].rxInv /\ \A p \in sess[o].outq : ~p.inv
      /\ \A d \in BagToSet(net) : Flagless(d)
      /\ \A j \in BagToSet(jobs) :
           (j.do = "Decrypt" => Flagless(j.frame)) /\ (j.do = "Process" => ~j.frame.inv)

Pending ==
    /\ router["b"] # "waiting" /\ (sess[A1].job = "answered" => router["a"] # "waiting")
    /\ \A o \in Obj : o # A1 => sess[o].job = "none"
    /\ Waiting

-----------------------------------------------------------------------------
(* The START, if no datagram is duplicated *)

IsStart(d) == d.t = "START"

StartOnce ==
    /\ \A d \in BagToSet(net) : IsStart(d) =>
         /\ net[d] = 1 /\ ~BHasKey
         /\ \A o \in Obj : o[1] = "b" => ~IsStart(sess[o].workbuf)
    /\ \A o, p \in Obj :
         o[1] = "b" /\ p[1] = "b" /\ IsStart(sess[o].workbuf) =>
           ~BHasKey /\ (IsStart(sess[p].workbuf) => o = p)
    /\ \A o \in Obj : On("EnterLIMSent", o) =>
         Single("EnterLIMSent", o) /\ sess[o].state \notin FrameState

-----------------------------------------------------------------------------
(* Bags of jobs *)

Same(j) ==
    /\ j \in BagToSet(jobs') <=> j \in BagToSet(jobs)
    /\ j \in BagToSet(jobs) => jobs'[j] = jobs[j]

LEMMA BagOfOne ==
    ASSUME NEW j
    PROVE  /\ IsABag(Queued(j)) /\ Queued(j)[j] = 1
           /\ IsABag(EmptyBag) /\ IsABag(Once(j)) /\ (j \in BagToSet(Once(j)) => Once(j)[j] = 1)
BY DEF IsABag, Queued, SetToBag, EmptyBag, Once, BagToSet

LEMMA SumIsBag ==
    ASSUME NEW A, NEW B, IsABag(A), IsABag(B)
    PROVE  /\ IsABag(A (+) B)
           /\ \A e \in BagToSet(A) : e \notin BagToSet(B) => (A (+) B)[e] = A[e]
           /\ \A e \in BagToSet(B) : e \notin BagToSet(A) => (A (+) B)[e] = B[e]
BY DEF IsABag, (+), BagToSet

LEMMA DifferenceIsBag ==
    ASSUME NEW A, NEW j, IsABag(A)
    PROVE  /\ IsABag(A (-) Queued(j))
           /\ \A e \in BagToSet(A) : e # j => /\ e \in BagToSet(A (-) Queued(j))
                                              /\ (A (-) Queued(j))[e] = A[e]
           /\ j \in BagToSet(A) /\ A[j] = 1 => j \notin BagToSet(A (-) Queued(j))
BY DEF IsABag, (-), BagToSet, Queued, SetToBag

\* A step of object o takes a job named in D, if any, and queues jobs named in S.
Change(o, D, S) ==
    /\ IsABag(jobs')
    /\ \A e, p : p # o \/ e \notin D \cup S =>
         (On(e, p)' <=> On(e, p)) /\ (Single(e, p) => Single(e, p)')
    /\ \A e \in D : e \notin S /\ Single(e, o) => ~On(e, o)'
    /\ \A e \in S : ~On(e, o) => Single(e, o)'
    /\ \A j \in BagToSet(jobs') : j \in BagToSet(jobs) \/ (j.obj = o /\ j.do \in S)

LEMMA Taken ==
    ASSUME NEW j, NEW new, Runs(j, new), IsABag(jobs), IsABag(new)
    PROVE  /\ IsABag(jobs')
           /\ \A k : k # j /\ k \notin BagToSet(new) => Same(k)
           /\ j \notin BagToSet(new) /\ jobs[j] = 1 => j \notin BagToSet(jobs')
           /\ \A k \in BagToSet(new) : k \notin BagToSet(jobs) => jobs'[k] = new[k]
<1>1. PICK rest : rest = jobs (-) Queued(j)
  OBVIOUS
<1>2. jobs' = rest (+) new /\ j \in BagToSet(jobs)
  BY <1>1 DEF Runs, Has, BagIn
<1>3. /\ IsABag(rest) /\ BagToSet(rest) \subseteq BagToSet(jobs)
      /\ \A e \in BagToSet(jobs) : e # j => e \in BagToSet(rest) /\ rest[e] = jobs[e]
      /\ jobs[j] = 1 => j \notin BagToSet(rest)
  BY <1>1, <1>2, DifferenceIsBag, InDifference
<1>4. BagToSet(jobs') = BagToSet(rest) \cup BagToSet(new)
  BY <1>2, InSum
<1>5. /\ IsABag(jobs')
      /\ \A e \in BagToSet(rest) : e \notin BagToSet(new) => jobs'[e] = rest[e]
      /\ \A e \in BagToSet(new) : e \notin BagToSet(rest) => jobs'[e] = new[e]
  BY <1>2, <1>3, SumIsBag
<1> QED
  BY <1>3, <1>4, <1>5 DEF Same

LEMMA RunsChange ==
    ASSUME NEW j, NEW new, NEW o, NEW do, NEW S, Runs(j, new), IsABag(jobs), IsABag(new),
           j.obj = o, j.do = do, j = Job(do, o) \/ ~On(do, o),
           \A k \in BagToSet(new) : new[k] = 1 /\ k.obj = o /\ k.do \in S
    PROVE  Change(o, {do}, S)
<1>1. /\ IsABag(jobs')
      /\ \A k : k # j /\ k \notin BagToSet(new) => Same(k)
      /\ j \notin BagToSet(new) /\ jobs[j] = 1 => j \notin BagToSet(jobs')
      /\ \A k \in BagToSet(new) : k \notin BagToSet(jobs) => jobs'[k] = 1
  BY Taken
<1>2. \A e, p : Job(e, p).do = e /\ Job(e, p).obj = p
  BY DEF Job
<1>3. ASSUME NEW e, NEW p, p # o \/ e \notin {do} \cup S
      PROVE  (On(e, p)' <=> On(e, p)) /\ (Single(e, p) => Single(e, p)')
  <2>1. PICK k : k = Job(e, p)
    OBVIOUS
  <2>2. Same(k)
    BY <1>1, <1>2, <1>3, <2>1
  <2> QED BY <2>1, <2>2 DEF On, Single, Same
<1>4. ASSUME do \notin S, Single(do, o) PROVE ~On(do, o)'
  <2>1. PICK k : k = Job(do, o)
    OBVIOUS
  <2>2. k \notin BagToSet(new)
    BY <1>2, <1>4, <2>1
  <2>3. CASE k = j
    BY <1>1, <1>4, <2>1, <2>2, <2>3, RunsAdds DEF On, Single
  <2>4. CASE k # j
    BY <1>1, <2>1, <2>2, <2>4 DEF On, Same
  <2> QED BY <2>3, <2>4
<1>5. ASSUME NEW e \in S, ~On(e, o) PROVE Single(e, o)'
  <2>1. PICK k : k = Job(e, o)
    OBVIOUS
  <2>2. k # j /\ k \notin BagToSet(jobs)
    BY <1>5, <2>1, RunsAdds DEF On
  <2> QED BY <1>1, <2>1, <2>2 DEF On, Single, Same
<1>6. \A k \in BagToSet(jobs') : k \in BagToSet(jobs) \/ (k.obj = o /\ k.do \in S)
  BY RunsAdds
<1> QED
  BY <1>1, <1>3, <1>4, <1>5, <1>6 DEF Change

LEMMA AddsChange ==
    ASSUME NEW new, NEW o, NEW S, IsABag(jobs), IsABag(new), jobs' = jobs (+) new,
           \A k \in BagToSet(new) : new[k] = 1 /\ k.obj = o /\ k.do \in S
    PROVE  Change(o, {}, S)
<1>1. /\ IsABag(jobs') /\ BagToSet(jobs') = BagToSet(jobs) \cup BagToSet(new)
      /\ \A k : k \notin BagToSet(new) => Same(k)
      /\ \A k \in BagToSet(new) : k \notin BagToSet(jobs) => jobs'[k] = 1
  BY SumIsBag, InSum DEF Same
<1>2. \A e, p : Job(e, p).do = e /\ Job(e, p).obj = p
  BY DEF Job
<1>3. ASSUME NEW e, NEW p, p # o \/ e \notin S
      PROVE  (On(e, p)' <=> On(e, p)) /\ (Single(e, p) => Single(e, p)')
  <2>1. PICK k : k = Job(e, p)
    OBVIOUS
  <2>2. Same(k)
    BY <1>1, <1>2, <1>3, <2>1
  <2> QED BY <2>1, <2>2 DEF On, Single, Same
<1>4. ASSUME NEW e \in S, ~On(e, o) PROVE Single(e, o)'
  <2>1. PICK k : k = Job(e, o)
    OBVIOUS
  <2>2. k \notin BagToSet(jobs)
    BY <1>4, <2>1 DEF On
  <2> QED BY <1>1, <2>1, <2>2 DEF On, Single, Same
<1> QED
  BY <1>1, <1>3, <1>4 DEF Change

\* The jobs that steps queue for object o.
Ones(new, o, S) ==
    IsABag(new) /\ \A k \in BagToSet(new) : new[k] = 1 /\ k.obj = o /\ k.do \in S

LEMMA NewOnes ==
    ASSUME NEW o
    PROVE  /\ \A e : Ones(Queued(Job(e, o)), o, {e}) /\ Ones(Once(Job(e, o)), o, {e})
           /\ \A e, f : Ones(Once(FrameJob(e, o, f)), o, {e})
           /\ Ones(PumpCryptoOutbound(o), o, {"Encrypt"})
           /\ Ones(PumpCryptoOutbound(o) (+) Queued(Job("EnterLIMSent", o)), o,
                   {"Encrypt", "EnterLIMSent"})
           /\ Ones(EmptyBag, o, {})
<1>1. \A e : Job(e, o).do = e /\ Job(e, o).obj = o
  BY DEF Job
<1>2. \A e, f : FrameJob(e, o, f).do = e /\ FrameJob(e, o, f).obj = o
  BY DEF FrameJob
<1>3. ASSUME NEW k, k.obj = o
      PROVE  Ones(Queued(k), o, {k.do}) /\ Ones(Once(k), o, {k.do})
  BY <1>3, BagOfOne, InQueued DEF Ones
<1>4. \A e : Ones(Queued(Job(e, o)), o, {e}) /\ Ones(Once(Job(e, o)), o, {e})
  BY <1>1, <1>3
<1>5. \A e, f : Ones(Once(FrameJob(e, o, f)), o, {e})
  BY <1>2, <1>3
<1>6. PICK p, q : p = PumpCryptoOutbound(o) /\ q = Queued(Job("EnterLIMSent", o))
  OBVIOUS
<1>7. Ones(p, o, {"Encrypt"}) /\ Ones(q, o, {"EnterLIMSent"})
  BY <1>4, <1>6 DEF PumpCryptoOutbound
<1>8. Ones(p (+) q, o, {"Encrypt", "EnterLIMSent"})
  <2>1. /\ \A l \in BagToSet(p) : p[l] = 1 /\ l.obj = o /\ l.do = "Encrypt"
        /\ \A l \in BagToSet(q) : q[l] = 1 /\ l.obj = o /\ l.do = "EnterLIMSent"
        /\ IsABag(p) /\ IsABag(q)
    BY <1>7 DEF Ones
  <2> QED BY <2>1, SumIsBag, InSum DEF Ones
<1>9. Ones(EmptyBag, o, {})
  BY BagOfOne, InQueued DEF Ones
<1> QED
  BY <1>4, <1>5, <1>6, <1>7, <1>8, <1>9

LEMMA PlainRuns ==
    ASSUME IsABag(jobs), NEW o, NEW do, NEW new, Runs(Job(do, o), new)
    PROVE  /\ On(do, o) /\ sess[o].state # "Freed"
           /\ new = EmptyBag => Change(o, {do}, {})
           /\ \A e : new = Queued(Job(e, o)) => Change(o, {do}, {e})
           /\ new = PumpCryptoOutbound(o) => Change(o, {do}, {"Encrypt"})
           /\ new = PumpCryptoOutbound(o) (+) Queued(Job("EnterLIMSent", o)) =>
                Change(o, {do}, {"Encrypt", "EnterLIMSent"})
<1>1. PICK j : j = Job(do, o)
  OBVIOUS
<1>2. j.obj = o /\ j.do = do /\ Runs(j, new)
  BY <1>1 DEF Job
<1>3. On(do, o) /\ sess[o].state # "Freed"
  BY <1>1, <1>2, RunsAdds DEF On
<1>4. ASSUME NEW S, Ones(new, o, S) PROVE Change(o, {do}, S)
  BY <1>1, <1>2, <1>4, RunsChange DEF Ones
<1>5. new = EmptyBag => Change(o, {do}, {})
  BY <1>4, NewOnes
<1>6. ASSUME NEW e, new = Queued(Job(e, o)) PROVE Change(o, {do}, {e})
  BY <1>4, <1>6, NewOnes
<1>7. new = PumpCryptoOutbound(o) => Change(o, {do}, {"Encrypt"})
  BY <1>4, NewOnes
<1>8. new = PumpCryptoOutbound(o) (+) Queued(Job("EnterLIMSent", o)) =>
        Change(o, {do}, {"Encrypt", "EnterLIMSent"})
  BY <1>4, NewOnes
<1> QED
  BY <1>3, <1>5, <1>6, <1>7, <1>8

LEMMA FrameRuns ==
    ASSUME IInv, IsABag(jobs), NEW o \in Obj, NEW j, NEW new, Runs(j, new),
           j.do \in {"Decrypt", "Process"}, j.obj = o
    PROVE  /\ j \in BagToSet(jobs) /\ sess[o].state # "Freed"
           /\ new = EmptyBag => Change(o, {j.do}, {})
           /\ \A f : new = Once(FrameJob("Process", o, f)) => Change(o, {j.do}, {"Process"})
           /\ \A e : new = Once(Job(e, o)) => Change(o, {j.do}, {e})
<1>1. j \in BagToSet(jobs) /\ sess[o].state # "Freed"
  BY RunsAdds
<1>2. ~On(j.do, o)
  <2> SUFFICES ASSUME On(j.do, o) PROVE FALSE
    OBVIOUS
  <2>1. PICK k : k = Job(j.do, o)
    OBVIOUS
  <2>2. JobOK(k)
    BY <2>1 DEF On, IInv
  <2>3. k \in JobType /\ k.do \notin PlainJobs /\ DOMAIN k = {"do", "obj"}
    BY <2>1, <2>2 DEF JobOK, Job, PlainJobs, OpenerJobs
  <2> QED BY <2>3 DEF JobType
<1>3. ASSUME NEW S, Ones(new, o, S) PROVE Change(o, {j.do}, S)
  BY <1>2, <1>3, RunsChange DEF Ones
<1>4. new = EmptyBag => Change(o, {j.do}, {})
  BY <1>3, NewOnes
<1>5. ASSUME NEW f, new = Once(FrameJob("Process", o, f)) PROVE Change(o, {j.do}, {"Process"})
  BY <1>3, <1>5, NewOnes
<1>6. ASSUME NEW e, new = Once(Job(e, o)) PROVE Change(o, {j.do}, {e})
  BY <1>3, <1>6, NewOnes
<1> QED
  BY <1>1, <1>4, <1>5, <1>6

LEMMA Adds ==
    ASSUME IsABag(jobs), NEW o
    PROVE  /\ \A e : jobs' = jobs (+) Queued(Job(e, o)) => Change(o, {}, {e})
           /\ \A e : jobs' = jobs (+) Once(Job(e, o)) => Change(o, {}, {e})
           /\ \A e, f : jobs' = jobs (+) Once(FrameJob(e, o, f)) => Change(o, {}, {e})
           /\ jobs' = jobs => Change(o, {}, {})
<1>1. ASSUME NEW new, NEW S, Ones(new, o, S), jobs' = jobs (+) new PROVE Change(o, {}, S)
  BY <1>1, AddsChange DEF Ones
<1>2. ASSUME NEW e, jobs' = jobs (+) Queued(Job(e, o)) \/ jobs' = jobs (+) Once(Job(e, o))
      PROVE  Change(o, {}, {e})
  BY <1>1, <1>2, NewOnes
<1>3. ASSUME NEW e, NEW f, jobs' = jobs (+) Once(FrameJob(e, o, f)) PROVE Change(o, {}, {e})
  BY <1>1, <1>3, NewOnes
<1>4. jobs' = jobs => Change(o, {}, {})
  BY DEF Change, On, Single
<1> QED
  BY <1>2, <1>3, <1>4

\* Datagrams
LEMMA NetBag ==
    ASSUME IsABag(net)
    PROVE  /\ \A d : Sends(d) => IsABag(net')
           /\ \A d : net' = net (-) Queued(d) => IsABag(net')
           /\ \A new : \A n \in 1..Copies : net' = net (+) [d \in new |-> n] => IsABag(net')
<1>1. ASSUME NEW new, NEW n \in 1..Copies PROVE IsABag([d \in new |-> n])
  BY BoundAssumption DEF IsABag
<1> QED
  BY <1>1, SumIsBag, DifferenceIsBag DEF Sends

-----------------------------------------------------------------------------
(* What the steps change *)

Field ==
    {"state", "working", "workbuf", "hook", "introbuf", "token", "key", "limSent",
     "txInv", "rxInv", "idle", "job", "timer", "outq"}

But(o, F) == \A f \in Field : f \notin F => sess'[o][f] = sess[o][f]

\* Object o takes a job named in D, queues jobs named in S and changes fields in F.
Step(o, D, S, F) ==
    /\ \A p \in Obj : p # o => sess'[p] = sess[p]
    /\ But(o, F) /\ Change(o, D, S) /\ IsABag(net')
    /\ D # {} => sess[o].state # "Freed"

LEMMA VerifyIntroDoes ==
    ASSUME IInv, Counted, NEW o \in Obj, verify_intro(o)
    PROVE  /\ Step(o, {"VerifyIntro"}, {"InformIntro"}, {"introbuf"}) /\ On("VerifyIntro", o)
           /\ sess'[o].introbuf <=> sess[o].introbuf /\ sess[o].workbuf = Intro(Peer(o[1]))
           /\ UNCHANGED net
<1>1. sess \in [Obj -> Session] /\ sess[o] \in Session
  BY DEF IInv
<1>2. PICK b : b = (sess[o].introbuf /\ sess[o].workbuf = Intro(Peer(o[1])))
  OBVIOUS
<1>3. sess' = [sess EXCEPT ![o].introbuf = b] /\ UNCHANGED net
  BY <1>2 DEF verify_intro
<1>4. /\ \A p \in Obj : p # o => sess'[p] = sess[p]
      /\ But(o, {"introbuf"}) /\ sess'[o].introbuf = b
  BY <1>1, <1>3 DEF But, Session, Field
<1> QED
  BY <1>2, <1>3, <1>4, PlainRuns DEF verify_intro, Step, Counted

LEMMA InformIntroDoes ==
    ASSUME IInv, Counted, NEW o \in Obj, handle_verify_intro(o)
    PROVE  /\ On("InformIntro", o) /\ UNCHANGED net
           /\ \/ /\ sess[o].introbuf /\ sess'[o].working /\ sess'[o].workbuf = Junk
                 /\ Step(o, {"InformIntro"}, {"GenIntroAck"}, {"workbuf", "working"})
              \/ /\ ~sess[o].introbuf /\ ~sess'[o].working
                 /\ Step(o, {"InformIntro"}, {}, {"working"})
<1>1. sess \in [Obj -> Session] /\ sess[o] \in Session
  BY DEF IInv
<1>2. CASE sess[o].introbuf
  <2>1. /\ \A p \in Obj : p # o => sess'[p] = sess[p]
        /\ But(o, {"workbuf", "working"}) /\ sess'[o].working /\ sess'[o].workbuf = Junk
    BY <1>1, <1>2 DEF But, Session, Field, handle_verify_intro, StartIntroAck
  <2> QED
    BY <1>2, <2>1, PlainRuns DEF handle_verify_intro, Step, Counted
<1>3. CASE ~sess[o].introbuf
  <2>1. /\ \A p \in Obj : p # o => sess'[p] = sess[p]
        /\ But(o, {"working"}) /\ ~sess'[o].working
    BY <1>1, <1>3 DEF But, Session, Field, handle_verify_intro
  <2> QED
    BY <1>3, <2>1, PlainRuns DEF handle_verify_intro, Step, Counted
<1> QED
  BY <1>2, <1>3

LEMMA GenAckDoes ==
    ASSUME IInv, Counted, NEW o \in Obj, gen_introack(o)
    PROVE  /\ On("GenIntroAck", o) /\ UNCHANGED <<tracked, net>>
           /\ \/ /\ tracked[o[1]] # NoObj /\ sess'[o].state = "Freed"
                 /\ Step(o, {"GenIntroAck"}, {}, {"state"})
              \/ /\ tracked[o[1]] = NoObj /\ sess' = sess
                 /\ Step(o, {"GenIntroAck"}, {"PutSession"}, {})
<1>1. sess \in [Obj -> Session] /\ sess[o] \in Session
  BY DEF IInv
<1>2. CASE tracked[o[1]] # NoObj
  <2>1. /\ \A p \in Obj : p # o => sess'[p] = sess[p]
        /\ But(o, {"state"}) /\ sess'[o].state = "Freed"
    BY <1>1, <1>2 DEF But, Session, Field, gen_introack
  <2> QED
    BY <1>2, <2>1, PlainRuns DEF gen_introack, Step, Counted
<1>3. CASE tracked[o[1]] = NoObj
  <2>1. sess' = sess /\ But(o, {})
    BY <1>3 DEF But, gen_introack
  <2> QED
    BY <1>3, <2>1, PlainRuns DEF gen_introack, Step, Counted
<1> QED
  BY <1>2, <1>3

LEMMA PutDoes ==
    ASSUME IInv, Counted, NEW o \in Obj, put_session(o)
    PROVE  /\ On("PutSession", o)
           /\ Step(o, {"PutSession"}, {"EnterIntroAckSent"}, {"idle"}) /\ ~sess'[o].idle
           /\ Sends(IntroAck(o[1], o))
           /\ tracked' = [tracked EXCEPT ![o[1]] = IF tracked[o[1]] = NoObj THEN o ELSE @]
<1>1. sess \in [Obj -> Session] /\ sess[o] \in Session
  BY DEF IInv
<1>2. /\ \A p \in Obj : p # o => sess'[p] = sess[p]
      /\ But(o, {"idle"}) /\ ~sess'[o].idle
  BY <1>1 DEF But, Session, Field, put_session
<1>3. IsABag(net')
  BY NetBag DEF put_session, Counted
<1>4. tracked' = [tracked EXCEPT ![o[1]] = IF tracked[o[1]] = NoObj THEN o ELSE @]
  BY DEF put_session
<1> QED
  BY <1>2, <1>3, <1>4, PlainRuns DEF put_session, Step, Counted

LEMMA EnterDoes ==
    ASSUME IInv, Counted, NEW o \in Obj, NEW do, NEW st, EnterState(o, do, st)
    PROVE  /\ On(do, o) /\ UNCHANGED net /\ sess'[o].state = st /\ ~sess'[o].idle
           /\ Step(o, {do}, {"Encrypt"}, {"state", "idle"})
<1>1. sess \in [Obj -> Session] /\ sess[o] \in Session
  BY DEF IInv
<1>2. /\ \A p \in Obj : p # o => sess'[p] = sess[p]
      /\ But(o, {"state", "idle"}) /\ sess'[o].state = st /\ ~sess'[o].idle
  BY <1>1 DEF But, Session, Field, EnterState
<1>3. Change(o, {do}, {"Encrypt"})
  <2>1. PICK new : new = IF st \in {"SessionStartSent", "IntroAckSent"}
                         THEN PumpCryptoOutbound(o) ELSE EmptyBag
    OBVIOUS
  <2>2. PICK j : j = Job(do, o)
    OBVIOUS
  <2>3. Ones(new, o, {"Encrypt"})
    BY <2>1, NewOnes DEF Ones
  <2>4. Runs(j, new) /\ j.obj = o /\ j.do = do
    BY <2>1, <2>2 DEF EnterState, Job
  <2> QED BY <2>2, <2>3, <2>4, RunsChange DEF Ones, Counted
<1> QED
  BY <1>2, <1>3, PlainRuns DEF EnterState, Step, Counted

LEMMA GenIntroDoes ==
    ASSUME IInv, Counted, NEW o \in Obj, gen_intro(o)
    PROVE  /\ On("GenIntro", o)
           /\ \/ /\ sess[o].hook = "generated" /\ ~sess'[o].working /\ Sends(Intro(o[1]))
                 /\ Step(o, {"GenIntro"}, {"EnterIntroSent"}, {"working"})
              \/ /\ sess[o].hook = "verified" /\ UNCHANGED net
                 /\ Step(o, {"GenIntro"}, {"GenIntroAck"}, {"workbuf", "working"})
<1>1. sess \in [Obj -> Session] /\ sess[o] \in Session
  BY DEF IInv
<1>2. CASE /\ sess[o].hook = "generated"
           /\ Runs(Job("GenIntro", o), Queued(Job("EnterIntroSent", o)))
           /\ sess' = [sess EXCEPT ![o].working = FALSE] /\ Sends(Intro(o[1]))
  <2>1. /\ \A p \in Obj : p # o => sess'[p] = sess[p]
        /\ But(o, {"working"}) /\ ~sess'[o].working
    BY <1>1, <1>2 DEF But, Session, Field
  <2>2. IsABag(net')
    BY <1>2, NetBag DEF Counted
  <2> QED
    BY <1>2, <2>1, <2>2, PlainRuns DEF Step, Counted
<1>3. CASE /\ sess[o].hook = "verified"
           /\ Runs(Job("GenIntro", o), Queued(Job("GenIntroAck", o)))
           /\ StartIntroAck(o) /\ UNCHANGED net
  <2>1. /\ \A p \in Obj : p # o => sess'[p] = sess[p]
        /\ But(o, {"workbuf", "working"})
    BY <1>1, <1>3 DEF But, Session, Field, StartIntroAck
  <2> QED
    BY <1>3, <2>1, PlainRuns DEF Step, Counted
<1> QED
  BY <1>2, <1>3 DEF gen_intro

LEMMA VerifyAckDoes ==
    ASSUME IInv, Counted, NEW o \in Obj, verify_introack(o)
    PROVE  /\ On("VerifyIntroAck", o) /\ UNCHANGED net
           /\ \/ /\ sess[o].workbuf.t = "INTROACK" /\ sess'[o].workbuf = Junk
                 /\ sess'[o].state = "IntroAckRecv" /\ sess'[o].working /\ ~sess'[o].idle
                 /\ Step(o, {"VerifyIntroAck"}, {"GenStart"},
                         {"state", "idle", "token", "workbuf", "working"})
              \/ /\ sess[o].workbuf.t # "INTROACK" /\ ~sess'[o].working
                 /\ Step(o, {"VerifyIntroAck"}, {}, {"working"})
<1>1. sess \in [Obj -> Session] /\ sess[o] \in Session
  BY DEF IInv
<1>2. CASE sess[o].workbuf.t = "INTROACK"
  <2>1. /\ \A p \in Obj : p # o => sess'[p] = sess[p]
        /\ But(o, {"state", "idle", "token", "workbuf", "working"})
        /\ sess'[o].workbuf = Junk /\ sess'[o].state = "IntroAckRecv" /\ sess'[o].working
        /\ ~sess'[o].idle
    BY <1>1, <1>2 DEF But, Session, Field, verify_introack
  <2> QED
    BY <1>2, <2>1, PlainRuns DEF verify_introack, Step, Counted
<1>3. CASE sess[o].workbuf.t # "INTROACK"
  <2>1. /\ \A p \in Obj : p # o => sess'[p] = sess[p]
        /\ But(o, {"working"}) /\ ~sess'[o].working
    BY <1>1, <1>3 DEF But, Session, Field, verify_introack
  <2> QED
    BY <1>3, <2>1, PlainRuns DEF verify_introack, Step, Counted
<1> QED
  BY <1>2, <1>3

LEMMA GenStartDoes ==
    ASSUME IInv, Counted, NEW o \in Obj, gen_session_start(o)
    PROVE  /\ On("GenStart", o) /\ ~sess'[o].working
           /\ Step(o, {"GenStart"}, {"EnterStartSent"}, {"key", "working"})
           /\ nonces' = [nonces EXCEPT ![o[1]] = nonces[o[1]] + 1]
           /\ sess'[o].key = <<sess[o].token, nonces[o[1]] + 1>>
           /\ Sends(Start(o[1], sess[o].token, nonces[o[1]] + 1))
<1>1. sess \in [Obj -> Session] /\ sess[o] \in Session
  BY DEF IInv
<1>2. /\ sess' = [sess EXCEPT ![o].key = <<sess[o].token, nonces[o[1]] + 1>>, ![o].working = FALSE]
      /\ Runs(Job("GenStart", o), Queued(Job("EnterStartSent", o)))
      /\ nonces' = [nonces EXCEPT ![o[1]] = nonces[o[1]] + 1]
      /\ Sends(Start(o[1], sess[o].token, nonces[o[1]] + 1))
  BY DEF gen_session_start
<1>3. /\ \A p \in Obj : p # o => sess'[p] = sess[p]
      /\ But(o, {"key", "working"}) /\ ~sess'[o].working
      /\ sess'[o].key = <<sess[o].token, nonces[o[1]] + 1>>
  BY <1>1, <1>2 DEF But, Session, Field
<1>4. IsABag(net')
  BY <1>2, NetBag DEF Counted
<1> QED
  BY <1>2, <1>3, <1>4, PlainRuns DEF Step, Counted

LEMMA VerifyStartDoes ==
    ASSUME IInv, Counted, NEW o \in Obj, verify_session_start(o)
    PROVE  /\ On("VerifyStart", o) /\ UNCHANGED net /\ ~sess'[o].working
           /\ \/ /\ sess[o].workbuf.t = "START" /\ sess'[o].workbuf = Junk
                 /\ sess'[o].key = <<sess[o].workbuf.token, sess[o].workbuf.nonce>>
                 /\ sess'[o].outq = LimQueued(o)
                 /\ Step(o, {"VerifyStart"}, {"Encrypt", "EnterLIMSent"},
                         {"key", "workbuf", "working", "outq", "limSent"})
              \/ /\ sess'[o].workbuf =
                      IF sess[o].workbuf.t = "START" THEN Junk ELSE sess[o].workbuf
                 /\ Step(o, {"VerifyStart"}, {}, {"working", "workbuf"})
<1>1. sess \in [Obj -> Session] /\ sess[o] \in Session
  BY DEF IInv
<1>2. PICK w : w = sess[o].workbuf
  OBVIOUS
<1>3. CASE w.t = "START" /\ w.token = sess[o].token
  <2>1. /\ Runs(Job("VerifyStart", o), PumpCryptoOutbound(o) (+) Queued(Job("EnterLIMSent", o)))
        /\ sess' = [sess EXCEPT ![o].key = <<w.token, w.nonce>>,
                                ![o].workbuf = Junk, ![o].working = FALSE,
                                ![o].outq = LimQueued(o), ![o].limSent = TRUE]
        /\ UNCHANGED net
    BY <1>2, <1>3 DEF verify_session_start
  <2>2. /\ \A p \in Obj : p # o => sess'[p] = sess[p]
        /\ But(o, {"key", "workbuf", "working", "outq", "limSent"})
        /\ sess'[o].workbuf = Junk /\ ~sess'[o].working /\ sess'[o].key = <<w.token, w.nonce>>
        /\ sess'[o].outq = LimQueued(o)
    BY <1>1, <2>1 DEF But, Session, Field
  <2> QED
    BY <1>2, <1>3, <2>1, <2>2, PlainRuns DEF Step, Counted
<1>4. CASE ~(w.t = "START" /\ w.token = sess[o].token)
  <2>1. /\ Runs(Job("VerifyStart", o), EmptyBag)
        /\ sess' = [sess EXCEPT ![o].working = FALSE,
                                ![o].workbuf = IF w.t = "START" THEN Junk ELSE w]
        /\ UNCHANGED net
    BY <1>2, <1>4 DEF verify_session_start
  <2>2. /\ \A p \in Obj : p # o => sess'[p] = sess[p]
        /\ But(o, {"working", "workbuf"}) /\ ~sess'[o].working
        /\ sess'[o].workbuf = IF w.t = "START" THEN Junk ELSE w
    BY <1>1, <2>1 DEF But, Session, Field
  <2> QED
    BY <1>2, <2>1, <2>2, PlainRuns DEF Step, Counted
<1> QED
  BY <1>3, <1>4

LEMMA EncryptDoes ==
    ASSUME IInv, Counted, NEW o \in Obj, EncryptOutboundFrames(o)
    PROVE  /\ Step(o, {"Encrypt"}, {}, {"outq"}) /\ sess'[o].outq = {} /\ On("Encrypt", o)
           /\ \A d \in BagToSet(net') : d \in BagToSet(net) \/
                \E p \in sess[o].outq : d = Sealed(o[1], sess[o].key, p)
           /\ \A d \in BagToSet(net) : d.t # "FRAME" => net'[d] = net[d]
<1>1. sess \in [Obj -> Session] /\ sess[o] \in Session
  BY DEF IInv
<1>2. /\ \A p \in Obj : p # o => sess'[p] = sess[p]
      /\ But(o, {"outq"}) /\ sess'[o].outq = {}
  BY <1>1 DEF But, Session, Field, EncryptOutboundFrames
<1>3. PICK out : out = {Sealed(o[1], sess[o].key, p) : p \in sess[o].outq}
  OBVIOUS
<1>4. PICK new : new = {d \in out : d.body.t = "ALIV" => ~BagIn(d, net)}
  OBVIOUS
<1>5. PICK n \in 1..Copies : net' = net (+) [d \in new |-> n]
  BY <1>3, <1>4 DEF EncryptOutboundFrames
<1>6. IsABag(net')
  BY <1>5, NetBag DEF Counted
<1>7. BagToSet(net') = BagToSet(net) \cup new
  BY <1>5, InSum DEF BagToSet
<1>8. \A d \in new : d.t = "FRAME"
  BY <1>3, <1>4 DEF Sealed
<1>9. \A d \in BagToSet(net) : d.t # "FRAME" => net'[d] = net[d]
  <2>1. PICK more : more = [d \in new |-> n]
    OBVIOUS
  <2>2. IsABag(more) /\ BagToSet(more) = new
    BY <1>5, <2>1, BoundAssumption DEF IsABag, BagToSet
  <2> QED BY <1>5, <1>8, <2>1, <2>2, SumIsBag DEF Counted
<1> QED
  BY <1>2, <1>3, <1>4, <1>6, <1>7, <1>9, PlainRuns DEF EncryptOutboundFrames, Step, Counted

LEMMA DecryptDoes ==
    ASSUME IInv, Counted, NEW o \in Obj, hmac_then_decrypt(o)
    PROVE  /\ UNCHANGED <<sess, net>> /\ Step(o, {"Decrypt"}, {"Process"}, {})
           /\ \E j \in BagToSet(jobs) :
                /\ j.do = "Decrypt" /\ j.obj = o
                /\ \A k \in BagToSet(jobs') : k \in BagToSet(jobs) \/
                     /\ k = FrameJob("Process", o, j.frame.body)
                     /\ j.frame.t = "FRAME" /\ j.frame.key = sess[o].key
<1>1. PICK j \in BagToSet(jobs) :
         /\ j.do = "Decrypt" /\ j.obj = o
         /\ Runs(j, IF j.frame.t = "FRAME" /\ j.frame.key = sess[o].key
                    THEN Once(FrameJob("Process", o, j.frame.body)) ELSE EmptyBag)
  BY DEF hmac_then_decrypt
<1>2. PICK new : new = IF j.frame.t = "FRAME" /\ j.frame.key = sess[o].key
                       THEN Once(FrameJob("Process", o, j.frame.body)) ELSE EmptyBag
  OBVIOUS
<1>3. Runs(j, new)
  BY <1>1, <1>2
<1>4. \A k \in BagToSet(jobs') : k \in BagToSet(jobs) \/
         /\ k = FrameJob("Process", o, j.frame.body)
         /\ j.frame.t = "FRAME" /\ j.frame.key = sess[o].key
  BY <1>2, <1>3, RunsAdds, InQueued
<1>5. Change(o, {"Decrypt"}, {}) => Change(o, {"Decrypt"}, {"Process"})
  BY DEF Change, Single
<1>6. Change(o, {"Decrypt"}, {"Process"}) /\ sess[o].state # "Freed"
  BY <1>1, <1>2, <1>3, <1>5, FrameRuns DEF Counted
<1>7. UNCHANGED <<sess, net>> /\ But(o, {})
  BY DEF hmac_then_decrypt, But
<1> QED
  BY <1>1, <1>4, <1>6, <1>7 DEF Step, Counted

\* The flags that a frame sets come from its sender's, or from a bad RC.
LEMMA ProcessDoes ==
    ASSUME IInv, Counted, NEW o \in Obj, handle_frame_decrypt(o)
    PROVE  /\ UNCHANGED <<tracked, router, net>>
           /\ \E j \in BagToSet(jobs) :
                /\ j.do = "Process" /\ j.obj = o
                /\ sess'[o].rxInv = (sess[o].rxInv \/ j.frame.inv)
                /\ \/ /\ Step(o, {"Process"}, {"Keepalive"}, {"rxInv", "txInv"}) /\ BadRC # {}
                      /\ sess'[o].state = sess[o].state
                   \/ /\ Step(o, {"Process"}, {"Encrypt"},
                              {"rxInv", "idle", "outq", "limSent", "state", "timer"})
                      /\ sess'[o].state = "Established" /\ ~sess'[o].idle
                      /\ sess'[o].timer = TimerCancelled(o)
                      /\ \A p \in sess'[o].outq : p \in sess[o].outq \/ p.inv = sess[o].txInv
                   \/ /\ Step(o, {"Process"}, {}, {"rxInv", "idle", "txInv"}) /\ ~sess'[o].idle
                      /\ sess'[o].txInv \in {sess[o].txInv, sess[o].txInv \/ sess[o].rxInv \/ j.frame.inv}
<1>1. sess \in [Obj -> Session] /\ sess[o] \in Session
  BY DEF IInv
<1>2. PICK j \in BagToSet(jobs) :
          /\ j.do = "Process" /\ j.obj = o
          /\ \/ SpoofedLIM(o, j.frame) \/ ProcessLIM(o, j.frame)
             \/ ProcessOtherLIM(o, j.frame) \/ ProcessALIV(o, j.frame)
  BY DEF handle_frame_decrypt
<1>3. PICK p : p = j.frame
  OBVIOUS
<1>4. JobOK(j)
  BY <1>2 DEF IInv
<1>5. j = FrameJob("Process", o, p)
  BY <1>2, <1>3, <1>4 DEF JobOK, JobType, FrameJob, PlainJobs, OpenerJobs
<1>6. UNCHANGED <<tracked, router, net>> /\ IsABag(net')
  BY DEF handle_frame_decrypt, Counted
<1>7. CASE SpoofedLIM(o, p)
  <2>1. /\ sess' = [sess EXCEPT ![o].rxInv = sess[o].rxInv \/ p.inv, ![o].txInv = TRUE]
        /\ Runs(j, Once(Job("Keepalive", o))) /\ BadRC # {}
    BY <1>5, <1>7 DEF SpoofedLIM
  <2>2. Change(o, {"Process"}, {"Keepalive"}) /\ sess[o].state # "Freed"
    BY <1>2, <2>1, FrameRuns DEF Counted
  <2>3. /\ \A q \in Obj : q # o => sess'[q] = sess[q]
        /\ But(o, {"rxInv", "txInv"}) /\ sess'[o].rxInv = (sess[o].rxInv \/ p.inv)
        /\ sess'[o].state = sess[o].state
    BY <1>1, <2>1 DEF But, Session, Field
  <2>4. Step(o, {"Process"}, {"Keepalive"}, {"rxInv", "txInv"})
    BY <1>6, <2>2, <2>3 DEF Step
  <2>5. BadRC # {}
    BY <2>1
  <2> QED BY <1>2, <1>3, <1>6, <2>3, <2>4, <2>5
<1>8. CASE ProcessLIM(o, p)
  <2>1. /\ sess' = [sess EXCEPT ![o] =
             [sess[o] EXCEPT !.rxInv = sess[o].rxInv \/ p.inv, !.idle = FALSE,
                             !.outq = LimQueued(o), !.limSent = TRUE,
                             !.state = "Established", !.timer = TimerCancelled(o)]]
        /\ Runs(j, PumpCryptoOutbound(o))
    BY <1>5, <1>8 DEF ProcessLIM, Alive
  <2>2. Change(o, {"Process"}, {"Encrypt"}) /\ sess[o].state # "Freed"
    BY <1>2, <2>1, FrameRuns DEF Counted, PumpCryptoOutbound
  <2>3. /\ \A q \in Obj : q # o => sess'[q] = sess[q]
        /\ But(o, {"rxInv", "idle", "outq", "limSent", "state", "timer"})
        /\ sess'[o].rxInv = (sess[o].rxInv \/ p.inv) /\ sess'[o].state = "Established"
        /\ sess'[o].timer = TimerCancelled(o) /\ sess'[o].outq = LimQueued(o) /\ ~sess'[o].idle
    BY <1>1, <2>1 DEF But, Session, Field
  <2>4. \A q \in LimQueued(o) : q \in sess[o].outq \/ q.inv = sess[o].txInv
    BY DEF LimQueued, Lim
  <2> QED BY <1>2, <1>3, <1>6, <2>2, <2>3, <2>4 DEF Step
<1>9. CASE ProcessOtherLIM(o, p)
  <2>1. /\ sess' = [sess EXCEPT ![o] =
             [sess[o] EXCEPT !.rxInv = sess[o].rxInv \/ p.inv, !.idle = FALSE]]
        /\ Runs(j, EmptyBag)
    BY <1>5, <1>9 DEF ProcessOtherLIM, Alive
  <2>2. Change(o, {"Process"}, {}) /\ sess[o].state # "Freed"
    BY <1>2, <2>1, FrameRuns DEF Counted
  <2>3. /\ \A q \in Obj : q # o => sess'[q] = sess[q]
        /\ But(o, {"rxInv", "idle", "txInv"}) /\ sess'[o].txInv = sess[o].txInv
        /\ sess'[o].rxInv = (sess[o].rxInv \/ p.inv) /\ ~sess'[o].idle
    BY <1>1, <2>1 DEF But, Session, Field
  <2> QED BY <1>2, <1>3, <1>6, <2>2, <2>3 DEF Step
<1>10. CASE ProcessALIV(o, p)
  <2>1. /\ sess' = [sess EXCEPT ![o] =
             [sess[o] EXCEPT !.rxInv = sess[o].rxInv \/ p.inv, !.idle = FALSE,
                             !.txInv = sess[o].txInv \/ sess[o].rxInv \/ p.inv]]
        /\ Runs(j, EmptyBag)
    BY <1>5, <1>10 DEF ProcessALIV, Alive
  <2>2. Change(o, {"Process"}, {}) /\ sess[o].state # "Freed"
    BY <1>2, <2>1, FrameRuns DEF Counted
  <2>3. /\ \A q \in Obj : q # o => sess'[q] = sess[q]
        /\ But(o, {"rxInv", "idle", "txInv"})
        /\ sess'[o].txInv = (sess[o].txInv \/ sess[o].rxInv \/ p.inv)
        /\ sess'[o].rxInv = (sess[o].rxInv \/ p.inv) /\ ~sess'[o].idle
    BY <1>1, <2>1 DEF But, Session, Field
  <2> QED BY <1>2, <1>3, <1>6, <2>2, <2>3 DEF Step
<1> QED
  BY <1>2, <1>3, <1>7, <1>8, <1>9, <1>10

LEMMA CloseDoes ==
    ASSUME IInv, Counted, NEW o \in Obj, close(o)
    PROVE  /\ sess[o].job = "answered" /\ sess'[o].job = "none" /\ sess[o].state # "Freed"
           /\ Step(o, {}, {"Keepalive"}, {"txInv", "job"})
           /\ UNCHANGED <<tracked, router, net>>
<1>1. sess \in [Obj -> Session] /\ sess[o] \in Session
  BY DEF IInv
<1>2. /\ \A p \in Obj : p # o => sess'[p] = sess[p]
      /\ But(o, {"txInv", "job"}) /\ sess'[o].job = "none"
  BY <1>1 DEF But, Session, Field, close
<1> QED
  BY <1>2, Adds DEF close, Step, Counted

LEMMA KeepaliveDoes ==
    ASSUME IInv, Counted, NEW o \in Obj, send_keepalive(o)
    PROVE  /\ On("Keepalive", o) /\ UNCHANGED <<tracked, router, net>>
           /\ Step(o, {"Keepalive"}, {"Encrypt"}, {"outq"})
           /\ \A p \in sess'[o].outq : p \in sess[o].outq \/ p.inv = sess[o].txInv
<1>1. sess \in [Obj -> Session] /\ sess[o] \in Session
  BY DEF IInv
<1>2. CASE is_invalidated(o)
  <2>1. UNCHANGED sess /\ Runs(Job("Keepalive", o), EmptyBag)
    BY <1>2 DEF send_keepalive
  <2>2. Change(o, {"Keepalive"}, {}) => Change(o, {"Keepalive"}, {"Encrypt"})
    BY DEF Change, Single
  <2>3. But(o, {"outq"})
    BY <2>1 DEF But
  <2> QED BY <2>1, <2>2, <2>3, PlainRuns DEF send_keepalive, Step, Counted
<1>3. CASE ~is_invalidated(o)
  <2>1. /\ sess' = [sess EXCEPT ![o].outq = @ \cup {Aliv(sess[o].txInv)}]
        /\ Runs(Job("Keepalive", o), PumpCryptoOutbound(o))
    BY <1>3 DEF send_keepalive
  <2>2. /\ \A p \in Obj : p # o => sess'[p] = sess[p]
        /\ But(o, {"outq"}) /\ sess'[o].outq = sess[o].outq \cup {Aliv(sess[o].txInv)}
    BY <1>1, <2>1 DEF But, Session, Field
  <2>3. \A p \in sess'[o].outq : p \in sess[o].outq \/ p.inv = sess[o].txInv
    BY <2>2 DEF Aliv
  <2> QED BY <2>1, <2>2, <2>3, PlainRuns DEF send_keepalive, Step, Counted
<1> QED
  BY <1>2, <1>3

LEMMA RemoveDoes ==
    ASSUME IInv, Counted, NEW o \in Obj, RemoveSessionByAddr(o), UNCHANGED jobs, IsABag(net')
    PROVE  /\ Step(o, {}, {}, {"state", "timer"}) /\ sess'[o].state = "Freed"
           /\ tracked' = [tracked EXCEPT ![o[1]] = NoObj]
<1>1. sess \in [Obj -> Session] /\ sess[o] \in Session
  BY DEF IInv
<1>2. /\ \A p \in Obj : p # o => sess'[p] = sess[p]
      /\ But(o, {"state", "timer"}) /\ sess'[o].state = "Freed"
  BY <1>1 DEF But, Session, Field, RemoveSessionByAddr
<1> QED
  BY <1>2, Adds DEF RemoveSessionByAddr, Step, Counted

LEMMA TickKeepDoes ==
    ASSUME IInv, Counted, NEW o \in Obj, TickKeep(o)
    PROVE  /\ tracked[o[1]] = o /\ sess[o].state \in {"LIMSent", "Established"}
           /\ Step(o, {}, {"Encrypt"}, {"outq"}) /\ UNCHANGED <<tracked, router, net>>
           /\ \A p \in sess'[o].outq : p \in sess[o].outq \/ p.inv = sess[o].txInv
<1>1. sess \in [Obj -> Session] /\ sess[o] \in Session
  BY DEF IInv
<1>2. /\ \A p \in Obj : p # o => sess'[p] = sess[p]
      /\ But(o, {"outq"}) /\ sess'[o].outq = sess[o].outq \cup {Aliv(sess[o].txInv)}
  BY <1>1 DEF But, Session, Field, TickKeep
<1>3. \A p \in sess'[o].outq : p \in sess[o].outq \/ p.inv = sess[o].txInv
  BY <1>2 DEF Aliv
<1> QED
  BY <1>2, <1>3, Adds DEF TickKeep, Step, Counted, PumpCryptoOutbound

LEMMA TimeoutDoes ==
    ASSUME IInv, Counted, NEW o \in Obj, handle_establish_timeout(o)
    PROVE  /\ sess[o].timer # "off" /\ sess[o].state # "Freed"
           /\ Step(o, {}, {}, {"timer", "job"}) /\ UNCHANGED <<tracked, net>>
           /\ sess'[o].job = IF sess[o].job = "waiting" /\ sess[o].state = "Established"
                             THEN "answered" ELSE "none"
           /\ IF sess[o].job = "waiting"
              THEN router' = [router EXCEPT ![o[1]] =
                      IF sess[o].state = "Established" THEN "idle" ELSE "backoff"]
              ELSE router' = router
<1>1. sess \in [Obj -> Session] /\ sess[o] \in Session
  BY DEF IInv
<1>2. sess' = [sess EXCEPT ![o].timer = "off", ![o].job =
                 IF sess[o].job = "waiting" /\ sess[o].state = "Established"
                 THEN "answered" ELSE "none"]
  BY DEF handle_establish_timeout
<1>3. /\ \A p \in Obj : p # o => sess'[p] = sess[p]
      /\ But(o, {"timer", "job"})
      /\ sess'[o].job = IF sess[o].job = "waiting" /\ sess[o].state = "Established"
                        THEN "answered" ELSE "none"
  BY <1>1, <1>2 DEF But, Session, Field
<1> QED
  BY <1>3, Adds DEF handle_establish_timeout, Step, Counted

LEMMA TimePassesDoes ==
    ASSUME IInv, Counted, NEW o \in Obj, TimePasses(o)
    PROVE  /\ tracked[o[1]] = o /\ Step(o, {}, {}, {"timer", "idle"})
           /\ UNCHANGED <<tracked, router, tries, nonces, net, jobs>>
           /\ \A j \in BagToSet(jobs) : j.do \in FrameWork \/ sess[j.obj].state = "Freed"
           /\ sess[o].timer # "off" =>
                sess'[o].timer # "off" /\ (sess'[o].idle <=> sess[o].idle)
           /\ sess[o].timer = "off" => sess'[o].timer = "off"
<1>1. sess \in [Obj -> Session] /\ sess[o] \in Session
  BY DEF IInv
<1>2. /\ \A p \in Obj : p # o => sess'[p] = sess[p]
      /\ But(o, {"timer", "idle"})
      /\ sess[o].timer # "off" => sess'[o].timer # "off" /\ (sess'[o].idle <=> sess[o].idle)
      /\ sess[o].timer = "off" => sess'[o].timer = "off"
  BY <1>1 DEF But, Session, Field, TimePasses
<1>3. \A j \in BagToSet(jobs) : j.do \in FrameWork \/ sess[j.obj].state = "Freed"
  BY InQueued DEF TimePasses
<1> QED
  BY <1>2, <1>3, Adds DEF TimePasses, Step, Counted

\* A new object is the first that is not used yet.
LEMMA FreshIsNext ==
    ASSUME Segment, NEW x \in Server, Fresh(x) \in Obj
    PROVE  /\ sess[Fresh(x)].state = "None" /\ Fresh(x)[1] = x
           /\ \A m \in 1..MaxSessions :
                m < Fresh(x)[2] => sess[<<x, m>>].state # "None"
<1>1. MaxSessions \in Nat \ {0}
  BY BoundAssumption
<1>2. PICK T : T = {n \in 1..MaxSessions : sess[<<x, n>>].state = "None"}
  OBVIOUS
<1>3. PICK c : c = Cardinality(Used(x))
  OBVIOUS
<1>4. Fresh(x) = <<x, c + 1>>
  BY <1>3 DEF Fresh
<1>5. T # {}
  <2> SUFFICES ASSUME T = {} PROVE FALSE
    OBVIOUS
  <2>1. Used(x) = 1..MaxSessions
    BY <1>2 DEF Used
  <2>2. c = MaxSessions
    BY <1>1, <1>3, <2>1, FS_Interval
  <2> QED BY <1>1, <1>4, <2>2 DEF Obj
<1>6. PICK n \in T : \A m \in T : n <= m
  <2>1. T \in SUBSET Nat
    BY <1>1, <1>2
  <2> QED BY <1>5, <2>1, LeastNat
<1>7. n \in 1..MaxSessions /\ sess[<<x, n>>].state = "None"
  BY <1>2, <1>6
<1>8. \A m \in 1..MaxSessions : m < n => sess[<<x, m>>].state # "None"
  BY <1>1, <1>2, <1>6
<1>9. Used(x) = 1..(n - 1)
  BY <1>1, <1>7, <1>8 DEF Used, Segment
<1>10. c = n - 1
  BY <1>1, <1>3, <1>7, <1>9, FS_Interval
<1>11. Fresh(x) = <<x, n>>
  BY <1>1, <1>4, <1>7, <1>10
<1> QED
  BY <1>7, <1>8, <1>11

\* What the net thread does with a datagram.
LEMMA RecvCases ==
    ASSUME IInv, Answering, NEW x \in Server, NEW d \in BagToSet(net), handle_recvfrom(x, d)
    PROVE  \E o \in Obj :
             /\ o[1] = x
             /\ \/ /\ tracked[x] = NoObj /\ o = Fresh(x) /\ sess[o].state = "None"
                   /\ on_intro(o, create_session(o), d)
                \/ /\ tracked[x] = o /\ sess[o].state # "None"
                   /\ \/ sess[o].state = "Initial" /\ on_intro(o, sess[o], d)
                      \/ sess[o].state = "IntroSent" /\ on_intro_ack(o, d)
                      \/ sess[o].state = "IntroAckSent" /\ on_session_start(o, d)
                      \/ sess[o].state \in FrameState /\ decrypt_frame(o, d)
                      \/ UNCHANGED <<sess, jobs, tracked, connected>>
<1>1. CASE tracked[x] = NoObj
  <2>1. Fresh(x) \in Obj /\ recv(Fresh(x), create_session(Fresh(x)), d)
    BY <1>1 DEF handle_recvfrom
  <2>2. sess[Fresh(x)].state = "None" /\ Fresh(x)[1] = x
    BY <2>1, FreshIsNext DEF Answering
  <2>3. on_intro(Fresh(x), create_session(Fresh(x)), d)
    BY <2>1, NewSession DEF recv, FrameState
  <2> QED BY <1>1, <2>1, <2>2, <2>3
<1>2. CASE tracked[x] # NoObj
  <2>1. PICK o : o = tracked[x]
    OBVIOUS
  <2>2. o \in Obj /\ o[1] = x
    BY <1>2, <2>1 DEF IInv, Tables, TrackedOK
  <2>3. sess[o].state # "None"
    BY <2>1, <2>2 DEF Answering, Unborn
  <2>4. recv(o, sess[o], d)
    BY <1>2, <2>1 DEF handle_recvfrom
  <2> QED BY <2>1, <2>2, <2>3, <2>4 DEF recv
<1> QED
  BY <1>1, <1>2

LEMMA RecvNet ==
    ASSUME IInv, Counted, NEW x \in Server, NEW d \in BagToSet(net), handle_recvfrom(x, d)
    PROVE  /\ IsABag(net') /\ UNCHANGED <<router, tries, nonces>>
           /\ \A e \in BagToSet(net') : e \in BagToSet(net)
           /\ \A e \in BagToSet(net') : e # d => net'[e] = net[e]
           /\ net[d] = 1 => d \notin BagToSet(net')
           /\ DatagramOK(d) /\ d \in Datagram /\ d.from = Peer(x)
<1>1. net' = net (-) Queued(d) /\ UNCHANGED <<router, tries, nonces>> /\ d.from = Peer(x)
  BY DEF handle_recvfrom
<1>2. \A e \in BagToSet(net') : e \in BagToSet(net)
  BY <1>1, InDifference
<1>3. DatagramOK(d) /\ d \in Datagram
  BY DEF IInv, DatagramOK
<1> QED
  BY <1>1, <1>2, <1>3, DifferenceIsBag DEF Counted

LEMMA OnIntroDoes ==
    ASSUME IInv, Counted, NEW o \in Obj, NEW s \in Session, NEW d, on_intro(o, s, d),
           IsABag(net')
    PROVE  /\ UNCHANGED <<tracked, connected>>
           /\ sess'[o].key = s.key /\ sess'[o].outq = s.outq /\ sess'[o].job = s.job
           /\ sess'[o].timer = s.timer /\ sess'[o].txInv = s.txInv /\ sess'[o].rxInv = s.rxInv
           /\ \/ /\ Step(o, {}, {}, Field) /\ d.t = "FRAME" /\ sess'[o].state = "Freed"
                 /\ sess'[o].workbuf = s.workbuf
              \/ /\ Step(o, {}, {"VerifyIntro"}, Field) /\ sess'[o].state = "IntroRecv"
                 /\ sess'[o].working /\ ~sess'[o].idle /\ sess'[o].workbuf = d
<1>1. sess \in [Obj -> Session] /\ sess[o] \in Session
  BY DEF IInv
<1>2. But(o, Field)
  BY DEF But
<1>3. CASE d.t = "FRAME" /\ d.body.t = "LIM"
  <2>1. sess' = [sess EXCEPT ![o] = [s EXCEPT !.state = "Freed"]]
        /\ UNCHANGED <<tracked, connected, jobs>>
    BY <1>3 DEF on_intro
  <2>2. PICK u : u = [s EXCEPT !.state = "Freed"]
    OBVIOUS
  <2>3. /\ u.key = s.key /\ u.outq = s.outq /\ u.job = s.job /\ u.timer = s.timer
        /\ u.txInv = s.txInv /\ u.rxInv = s.rxInv /\ u.state = "Freed" /\ u.workbuf = s.workbuf
    BY <2>2 DEF Session
  <2>4. sess'[o] = u /\ \A p \in Obj : p # o => sess'[p] = sess[p]
    BY <1>1, <2>1, <2>2
  <2> QED BY <1>2, <1>3, <2>1, <2>3, <2>4, Adds DEF Step, Counted
<1>4. CASE ~(d.t = "FRAME" /\ d.body.t = "LIM")
  <2>1. PICK u : u = [s EXCEPT !.workbuf = d, !.introbuf = TRUE, !.hook = "verified",
                               !.state = "IntroRecv", !.idle = FALSE, !.working = TRUE]
    OBVIOUS
  <2>2. /\ sess' = [sess EXCEPT ![o] = u] /\ UNCHANGED <<tracked, connected>>
        /\ jobs' = jobs (+) Queued(Job("VerifyIntro", o))
    BY <1>4, <2>1 DEF on_intro
  <2>3. /\ u.key = s.key /\ u.outq = s.outq /\ u.job = s.job /\ u.timer = s.timer
        /\ u.txInv = s.txInv /\ u.rxInv = s.rxInv /\ u.state = "IntroRecv" /\ u.workbuf = d
        /\ u.working /\ ~u.idle
    BY <2>1 DEF Session
  <2>4. sess'[o] = u /\ \A p \in Obj : p # o => sess'[p] = sess[p]
    BY <1>1, <2>2
  <2> QED BY <1>2, <2>2, <2>3, <2>4, Adds DEF Step, Counted
<1> QED
  BY <1>3, <1>4

LEMMA OnAckDoes ==
    ASSUME IInv, Counted, NEW o \in Obj, NEW d, on_intro_ack(o, d), IsABag(net')
    PROVE  \/ /\ Step(o, {}, {}, {"state", "timer"}) /\ sess'[o].state = "Freed"
              /\ d.t = "FRAME" /\ tracked' = [tracked EXCEPT ![o[1]] = NoObj]
           \/ /\ Step(o, {}, {"VerifyIntroAck"}, {"workbuf", "working"}) /\ UNCHANGED tracked
              /\ sess'[o].workbuf = d /\ sess'[o].working
<1>1. sess \in [Obj -> Session] /\ sess[o] \in Session
  BY DEF IInv
<1>2. CASE d.t = "FRAME" /\ d.body.t = "LIM"
  BY <1>2, RemoveDoes DEF on_intro_ack
<1>3. CASE ~(d.t = "FRAME" /\ d.body.t = "LIM")
  <2>1. /\ \A p \in Obj : p # o => sess'[p] = sess[p]
        /\ But(o, {"workbuf", "working"}) /\ sess'[o].workbuf = d /\ sess'[o].working
    BY <1>1, <1>3 DEF But, Session, Field, on_intro_ack
  <2> QED BY <1>3, <2>1, Adds DEF on_intro_ack, Step, Counted
<1> QED
  BY <1>2, <1>3

LEMMA OnStartDoes ==
    ASSUME IInv, Counted, NEW o \in Obj, NEW d, on_session_start(o, d), IsABag(net')
    PROVE  /\ UNCHANGED tracked
           /\ \/ UNCHANGED <<sess, jobs>> /\ d.t = "FRAME"
              \/ /\ Step(o, {}, {"VerifyStart"}, {"workbuf", "working"})
                 /\ sess'[o].workbuf = d /\ sess'[o].working
<1>1. sess \in [Obj -> Session] /\ sess[o] \in Session
  BY DEF IInv
<1>2. CASE d.t = "FRAME" /\ d.body.t = "LIM"
  BY <1>2 DEF on_session_start
<1>3. CASE ~(d.t = "FRAME" /\ d.body.t = "LIM")
  <2>1. /\ \A p \in Obj : p # o => sess'[p] = sess[p]
        /\ But(o, {"workbuf", "working"}) /\ sess'[o].workbuf = d /\ sess'[o].working
    BY <1>1, <1>3 DEF But, Session, Field, on_session_start
  <2> QED BY <1>3, <2>1, Adds DEF on_session_start, Step, Counted
<1> QED
  BY <1>2, <1>3

LEMMA DecryptFrameDoes ==
    ASSUME IInv, Counted, NEW o \in Obj, NEW d, decrypt_frame(o, d), IsABag(net')
    PROVE  /\ UNCHANGED <<sess, tracked>> /\ Step(o, {}, {"Decrypt"}, {})
           /\ \A j \in BagToSet(jobs') : j \in BagToSet(jobs) \/ j = FrameJob("Decrypt", o, d)
<1>1. UNCHANGED <<sess, tracked>> /\ But(o, {})
      /\ jobs' = jobs (+) Once(FrameJob("Decrypt", o, d))
  BY DEF decrypt_frame, But
<1>2. \A j \in BagToSet(jobs') : j \in BagToSet(jobs) \/ j = FrameJob("Decrypt", o, d)
  BY <1>1, InSum, InQueued
<1> QED
  BY <1>1, <1>2, Adds DEF Step, Counted

-----------------------------------------------------------------------------
(* The answering server *)

\* Only the object of the step has to be looked at.
LEMMA AnswersOn ==
    ASSUME IInv, Answering, NEW o \in Obj, NEW D, NEW S, NEW F, Step(o, D, S, F),
           \A x \in Server : \/ tracked'[x] \in {NoObj, tracked[x]}
                             \/ tracked'[x] = o /\ o[1] = x,
           sess[o].state # "None" \/ o = Fresh(o[1]), sess'[o].state # "None",
           o[1] = "b" => Answerer(o)'
    PROVE  Answering'
<1>1. \A p \in Obj : p # o => sess'[p] = sess[p]
  BY DEF Step
<1>2. \A j \in BagToSet(jobs') : j \in BagToSet(jobs) \/ j.obj = o
  BY DEF Step, Change
<1>3. Counted'
  BY DEF Step, Change, Counted
<1>4. Segment'
  <2> SUFFICES ASSUME NEW x \in Server, NEW m \in 1..MaxSessions, NEW n \in 1..MaxSessions,
                      m < n, sess'[<<x, m>>].state = "None", sess'[<<x, n>>].state # "None"
               PROVE  FALSE
    BY DEF Segment
  <2>1. <<x, m>> \in Obj /\ <<x, n>> \in Obj /\ <<x, m>> # o
    BY DEF Obj
  <2>2. sess[<<x, m>>].state = "None"
    BY <1>1, <2>1
  <2>3. sess[<<x, n>>].state = "None"
    BY <2>2 DEF Answering, Segment
  <2>4. <<x, n>> = o
    BY <1>1, <2>1, <2>3
  <2>5. o = Fresh(x)
    BY <2>3, <2>4
  <2>6. Fresh(x)[2] = n
    BY <2>4, <2>5
  <2> QED BY <2>2, <2>5, <2>6, FreshIsNext DEF Answering
<1>5. Unborn'
  <2> SUFFICES ASSUME NEW p \in Obj, sess'[p].state = "None"
               PROVE  /\ sess'[p] = None /\ tracked'[p[1]] # p
                      /\ \A j \in BagToSet(jobs') : j.obj # p
    BY DEF Unborn
  <2>1. p # o /\ sess'[p] = sess[p]
    BY <1>1
  <2>2. sess[p] = None /\ tracked[p[1]] # p /\ \A j \in BagToSet(jobs) : j.obj # p
    BY <2>1 DEF Answering, Unborn
  <2> QED BY <1>2, <2>1, <2>2, Objects
<1>6. ASSUME NEW p \in Obj, p[1] = "b", p # o PROVE Answerer(p)'
  <2>1. sess'[p] = sess[p] /\ Answerer(p)
    BY <1>1, <1>6 DEF Answering
  <2>2. \A e : (On(e, p)' <=> On(e, p)) /\ (Single(e, p) => Single(e, p)')
    BY <1>6 DEF Step, Change
  <2>3. tracked'["b"] = p => tracked["b"] = p
    BY <1>6, Objects
  <2>4. \A j \in BagToSet(jobs') : j.obj = p => j \in BagToSet(jobs)
    BY <1>2, <1>6
  <2> QED BY <2>1, <2>2, <2>3, <2>4 DEF Answerer
<1> QED
  BY <1>3, <1>4, <1>5, <1>6 DEF Answering

\* b's object between the steps of its handshake
LEMMA AnswererStays ==
    ASSUME IInv, Answering, NEW o \in Obj, o[1] = "b", NEW D, NEW S, NEW F, Step(o, D, S, F),
           \A do \in Steps : do \notin D /\ do \notin S, "EnterStartSent" \notin S,
           "EnterStartSent" \notin D,
           sess'[o].job = "none",
           tracked'["b"] = o => tracked["b"] = o /\ sess'[o].state # "Freed",
           \/ /\ sess[o].state = "IntroRecv" /\ sess'[o].state = "IntroRecv" /\ S = {}
              /\ sess'[o].working = sess[o].working
           \/ /\ sess[o].state # "IntroRecv"
              /\ sess'[o].state \notin {"Initial", "SessionStartSent", "IntroRecv"}
              /\ sess[o].state \in FrameState \cup {"Freed"} =>
                   sess'[o].state \in FrameState \cup {"Freed"}
              /\ "Decrypt" \in S \/ "Process" \in S => sess'[o].state \in FrameState
    PROVE  Answerer(o)'
<1>1. Answerer(o)
  BY DEF Answering
<1>2. /\ \A e \in Steps : (On(e, o)' <=> On(e, o)) /\ (Single(e, o) => Single(e, o)')
      /\ ~On("EnterStartSent", o)'
  BY <1>1 DEF Step, Change, Answerer
<1>3. \A j \in BagToSet(jobs') : j \in BagToSet(jobs) \/ j.do \in S
  BY DEF Step, Change
<1>4. Chain \subseteq Steps
  BY DEF Steps
<1>5. CASE sess[o].state = "IntroRecv"
  <2>1. \A j \in BagToSet(jobs') : j \in BagToSet(jobs)
    BY <1>3, <1>5
  <2> QED BY <1>1, <1>2, <1>4, <1>5, <2>1 DEF Answerer
<1>6. CASE sess[o].state # "IntroRecv"
  <2>1. \A e \in Steps : ~On(e, o)'
    BY <1>1, <1>2, <1>6 DEF Answerer
  <2>2. \A j \in BagToSet(jobs') : j.obj = o /\ j.do \in {"Decrypt", "Process"} =>
           sess'[o].state \in FrameState \cup {"Freed"}
    BY <1>1, <1>3, <1>6 DEF Answerer
  <2> QED BY <1>1, <1>2, <1>4, <1>6, <2>1, <2>2 DEF Answerer
<1> QED
  BY <1>5, <1>6

\* One step hands over to the next.
LEMMA AnswererGoesOn ==
    ASSUME IInv, Answering, NEW o \in Obj, o[1] = "b", NEW do \in Steps, NEW e \in Steps,
           NEW F, Step(o, {do}, {e}, F), On(do, o), e # do,
           sess'[o].state = sess[o].state, sess'[o].job = "none",
           sess'[o].working, tracked'["b"] = o => e \notin Chain
    PROVE  Answerer(o)'
<1>1. Answerer(o) /\ sess[o].state = "IntroRecv"
  BY DEF Answering, Answerer
<1>2. Single(do, o) /\ \A c \in Steps : On(c, o) => c = do
  BY <1>1 DEF Answerer
<1>3. "EnterStartSent" \notin Steps
  BY DEF Steps, Chain
<1>4. \A c : c # do /\ c # e => (On(c, o)' <=> On(c, o))
  BY DEF Step, Change
<1>5. ~On(do, o)' /\ Single(e, o)'
  BY <1>2 DEF Step, Change
<1>6. (\A c \in Steps : On(c, o)' => c = e) /\ ~On("EnterStartSent", o)'
  BY <1>1, <1>2, <1>3, <1>4, <1>5 DEF Answerer
<1>7. \A j \in BagToSet(jobs') : j \in BagToSet(jobs) \/ j.do = e
  BY DEF Step, Change
<1>8. Chain \subseteq Steps /\ "Decrypt" \notin Steps /\ "Process" \notin Steps
  BY DEF Steps, Chain
<1>9. \A j \in BagToSet(jobs') : j.obj = o => j.do \in Steps
  BY <1>1, <1>7 DEF Answerer
<1> QED
  BY <1>1, <1>5, <1>6, <1>8, <1>9 DEF Answerer

\* The last step ends it.
LEMMA AnswererEnds ==
    ASSUME IInv, Answering, NEW o \in Obj, o[1] = "b", NEW do \in Steps, NEW S,
           NEW F, Step(o, {do}, S, F), On(do, o), S \subseteq {"Encrypt"},
           sess'[o].state \in {"IntroRecv", "Freed", "IntroAckSent"}, sess'[o].job = "none",
           sess'[o].state = "IntroRecv" => S = {},
           tracked'["b"] = o => sess'[o].state # "Freed"
    PROVE  Answerer(o)'
<1>1. Answerer(o) /\ sess[o].state = "IntroRecv"
  BY DEF Answering, Answerer
<1>2. Single(do, o) /\ \A c \in Steps : On(c, o) => c = do
  BY <1>1 DEF Answerer
<1>3. /\ "EnterStartSent" \notin Steps /\ "Encrypt" \notin Steps
      /\ Chain \subseteq Steps /\ "Decrypt" \notin Steps /\ "Process" \notin Steps
  BY DEF Steps, Chain
<1>4. \A c : c # do /\ c \notin S => (On(c, o)' <=> On(c, o))
  BY DEF Step, Change
<1>5. ~On(do, o)'
  BY <1>2, <1>3 DEF Step, Change
<1>6. (\A c \in Steps : ~On(c, o)') /\ ~On("EnterStartSent", o)'
  BY <1>1, <1>2, <1>3, <1>4, <1>5 DEF Answerer
<1>7. \A j \in BagToSet(jobs') : j \in BagToSet(jobs) \/ j.do \in S
  BY DEF Step, Change
<1>8. \A j \in BagToSet(jobs') : j.obj = o =>
         /\ sess'[o].state = "IntroRecv" => j.do \in Steps
         /\ j.do \notin {"Decrypt", "Process"}
  BY <1>1, <1>3, <1>7 DEF Answerer
<1> QED
  BY <1>3, <1>6, <1>8 DEF Answerer

LEMMA Born ==
    ASSUME Answering, NEW o \in Obj
    PROVE  /\ \A do : On(do, o) => sess[o].state # "None"
           /\ \A j \in BagToSet(jobs) : j.obj = o => sess[o].state # "None"
           /\ tracked[o[1]] = o => sess[o].state # "None"
           /\ sess[o].job # "none" \/ sess[o].timer # "off" => sess[o].state # "None"
<1>1. sess[o].state = "None" =>
        /\ sess[o] = None /\ tracked[o[1]] # o /\ \A j \in BagToSet(jobs) : j.obj # o
  BY DEF Answering, Unborn
<1>2. \A do : Job(do, o).obj = o
  BY DEF Job
<1>3. None.job = "none" /\ None.timer = "off"
  BY DEF None, create_session
<1> QED
  BY <1>1, <1>2, <1>3 DEF On

LEMMA EstablishAnswers ==
    ASSUME IInv, Answering, link_try_establish("a")
    PROVE  Answering'
<1>1. PICK o \in Obj :
          /\ o = IF tracked["a"] = NoObj THEN Fresh("a") ELSE tracked["a"]
          /\ sess' = [sess EXCEPT ![o] =
                [IF tracked["a"] = NoObj THEN create_session(o) ELSE sess[o]
                    EXCEPT !.job = "waiting", !.idle = FALSE, !.timer = "armed",
                           !.workbuf = Intro("a"), !.introbuf = TRUE,
                           !.hook = "generated", !.working = TRUE]]
          /\ tracked' = [tracked EXCEPT !["a"] = o]
          /\ jobs' = jobs (+) Queued(Job("GenIntro", o))
  BY DEF link_try_establish
<1>2. o[1] = "a"
  BY <1>1, Objects DEF IInv, TrackedOK, Fresh
<1>3. PICK base : base = IF tracked["a"] = NoObj THEN create_session(o) ELSE sess[o]
  OBVIOUS
<1>4. base \in Session /\ (tracked["a"] = NoObj => base.state = "Initial")
  BY <1>3, NewSession DEF IInv
<1>5. tracked["a"] # NoObj => sess[o].state # "None" /\ base.state = sess[o].state
  BY <1>1, <1>2, <1>3, Born
<1>6. PICK s : s = [base EXCEPT !.job = "waiting", !.idle = FALSE, !.timer = "armed",
                                !.workbuf = Intro("a"), !.introbuf = TRUE,
                                !.hook = "generated", !.working = TRUE]
  OBVIOUS
<1>7. s.state # "None"
  BY <1>4, <1>5, <1>6 DEF Session
<1>8. sess' = [sess EXCEPT ![o] = s] /\ sess \in [Obj -> Session]
  BY <1>1, <1>3, <1>6 DEF IInv
<1>9. sess'[o] = s /\ \A p \in Obj : p # o => sess'[p] = sess[p]
  BY <1>8
<1>10. UNCHANGED net
  BY DEF link_try_establish
<1>11. Step(o, {}, {"GenIntro"}, Field)
  BY <1>1, <1>9, <1>10, Adds DEF Step, But, Answering, Counted
<1>12. \A x \in Server : tracked'[x] \in {NoObj, tracked[x]} \/ (tracked'[x] = o /\ o[1] = x)
  BY <1>1, <1>2 DEF IInv, Tables
<1> QED
  BY <1>1, <1>2, <1>5, <1>7, <1>9, <1>11, <1>12, AnswersOn

LEMMA NoneIsNew ==
    ASSUME NEW o \in Obj
    PROVE  /\ create_session(o).job = "none" /\ create_session(o).timer = "off"
           /\ create_session(o).outq = {} /\ create_session(o).workbuf = Junk
           /\ ~create_session(o).txInv /\ ~create_session(o).rxInv
           /\ create_session(o).key = NoKey
           /\ None.job = "none" /\ None.timer = "off" /\ None.outq = {} /\ None.key = NoKey
           /\ None.workbuf = Junk /\ ~None.txInv /\ ~None.rxInv
BY DEF create_session, None

\* A datagram for a new object
LEMMA NewAnswers ==
    ASSUME IInv, Answering, NEW o \in Obj, NEW d, IsABag(net'),
           o = Fresh(o[1]), sess[o].state = "None", on_intro(o, create_session(o), d)
    PROVE  Answering'
<1>1. PICK s \in Session : s = create_session(o)
  BY NewSession
<1>2. /\ UNCHANGED tracked /\ sess'[o].job = "none"
      /\ \/ Step(o, {}, {}, Field) /\ sess'[o].state = "Freed"
         \/ /\ Step(o, {}, {"VerifyIntro"}, Field) /\ sess'[o].state = "IntroRecv"
            /\ sess'[o].working
  BY <1>1, OnIntroDoes, NoneIsNew DEF Answering
<1>3. tracked[o[1]] # o /\ \A j \in BagToSet(jobs) : j.obj # o
  BY DEF Answering, Unborn
<1>4. ASSUME o[1] = "b" PROVE Answerer(o)'
  <2>1. tracked'["b"] # o
    BY <1>2, <1>3, <1>4
  <2>2. \A e : ~On(e, o)
    BY <1>3 DEF On, Job
  <2>3. CASE Step(o, {}, {}, Field) /\ sess'[o].state = "Freed"
    <3>1. (\A e : ~On(e, o)') /\ \A j \in BagToSet(jobs') : j.obj # o
      BY <1>3, <2>2, <2>3 DEF Step, Change
    <3> QED BY <1>2, <2>1, <2>3, <3>1 DEF Answerer
  <2>4. CASE /\ Step(o, {}, {"VerifyIntro"}, Field) /\ sess'[o].state = "IntroRecv"
             /\ sess'[o].working
    <3>1. /\ \A e : e # "VerifyIntro" => ~On(e, o)'
          /\ Single("VerifyIntro", o)'
          /\ \A j \in BagToSet(jobs') : j.obj = o => j.do = "VerifyIntro"
      BY <1>3, <2>2, <2>4 DEF Step, Change
    <3> QED BY <1>2, <2>1, <2>4, <3>1 DEF Answerer, Steps, Chain
  <2> QED BY <1>2, <2>3, <2>4
<1>5. \A x \in Server : tracked'[x] \in {NoObj, tracked[x]}
  BY <1>2
<1>6. sess'[o].state # "None" /\ \E D, S, F : Step(o, D, S, F)
  BY <1>2
<1> QED
  BY <1>4, <1>5, <1>6, AnswersOn

\* Nothing happens, but to the datagrams.
LEMMA NothingAnswers ==
    ASSUME Answering, UNCHANGED <<sess, jobs, tracked>>, IsABag(net')
    PROVE  Answering'
<1>1. Counted' /\ Segment' /\ Unborn'
  BY DEF Answering, Counted, Segment, Unborn
<1>2. \A o : Answerer(o) => Answerer(o)'
  BY DEF Answerer, On, Single
<1> QED
  BY <1>1, <1>2 DEF Answering

LEMMA RecvAnswers ==
    ASSUME IInv, Answering, NEW x \in Server, NEW d \in BagToSet(net), handle_recvfrom(x, d)
    PROVE  Answering'
<1>1. IsABag(net') /\ Counted
  BY RecvNet DEF Answering
<1>2. PICK o \in Obj :
        /\ o[1] = x
        /\ \/ /\ tracked[x] = NoObj /\ o = Fresh(x) /\ sess[o].state = "None"
              /\ on_intro(o, create_session(o), d)
           \/ /\ tracked[x] = o /\ sess[o].state # "None"
              /\ \/ sess[o].state = "Initial" /\ on_intro(o, sess[o], d)
                 \/ sess[o].state = "IntroSent" /\ on_intro_ack(o, d)
                 \/ sess[o].state = "IntroAckSent" /\ on_session_start(o, d)
                 \/ sess[o].state \in FrameState /\ decrypt_frame(o, d)
                 \/ UNCHANGED <<sess, jobs, tracked, connected>>
  BY RecvCases
<1>3. CASE tracked[x] = NoObj
  BY <1>1, <1>2, <1>3, NewAnswers, Objects
<1>4. sess[o] \in Session /\ (o[1] = "b" => Answerer(o)) /\ ObjOK(o)
  BY <1>2 DEF IInv, Answering
<1>5. CASE tracked[x] = o /\ sess[o].state = "Initial" /\ on_intro(o, sess[o], d)
  <2>1. o[1] # "b"
    BY <1>4, <1>5 DEF Answerer
  <2>2. UNCHANGED tracked /\ sess'[o].state # "None" /\ \E D, S, F : Step(o, D, S, F)
    BY <1>1, <1>4, <1>5, OnIntroDoes
  <2> QED BY <1>5, <2>1, <2>2, AnswersOn
<1>6. CASE tracked[x] = o /\ sess[o].state = "IntroSent" /\ on_intro_ack(o, d)
  <2>1. o[1] # "b"
    BY <1>4, <1>6 DEF ObjOK
  <2>2. \/ /\ Step(o, {}, {}, {"state", "timer"}) /\ sess'[o].state = "Freed"
           /\ tracked' = [tracked EXCEPT ![o[1]] = NoObj]
        \/ Step(o, {}, {"VerifyIntroAck"}, {"workbuf", "working"}) /\ UNCHANGED tracked
    BY <1>1, <1>6, OnAckDoes
  <2>3. sess'[o].state # "None"
    BY <1>6, <2>2 DEF Step, But, Field
  <2>4. \A y \in Server : tracked'[y] \in {NoObj, tracked[y]}
    BY <2>2 DEF IInv, Tables
  <2> QED BY <1>6, <2>1, <2>2, <2>3, <2>4, AnswersOn
<1>7. CASE tracked[x] = o /\ sess[o].state = "IntroAckSent" /\ on_session_start(o, d)
  <2>1. CASE UNCHANGED <<sess, jobs, tracked>>
    BY <1>1, <2>1, NothingAnswers
  <2>2. CASE Step(o, {}, {"VerifyStart"}, {"workbuf", "working"}) /\ UNCHANGED tracked
    <3>1. sess'[o].state = sess[o].state /\ sess'[o].job = sess[o].job
      BY <2>2 DEF Step, But, Field
    <3>2. o[1] = "b" => Answerer(o)'
      BY <1>4, <1>7, <2>2, <3>1, AnswererStays DEF Steps, Chain, Answerer, FrameState
    <3> QED BY <1>7, <2>2, <3>1, <3>2, AnswersOn
  <2> QED BY <1>1, <1>7, <2>1, <2>2, OnStartDoes
<1>8. CASE tracked[x] = o /\ sess[o].state \in FrameState /\ decrypt_frame(o, d)
  <2>1. UNCHANGED <<sess, tracked>> /\ Step(o, {}, {"Decrypt"}, {})
    BY <1>1, <1>8, DecryptFrameDoes
  <2>2. sess[o].state \notin {"Initial", "IntroRecv", "Freed", "None"}
    BY <1>8 DEF FrameState
  <2>3. o[1] = "b" => Answerer(o)'
    BY <1>4, <1>8, <2>1, <2>2, AnswererStays DEF Steps, Chain, Answerer
  <2> QED BY <2>1, <2>2, <2>3, AnswersOn
<1>9. CASE UNCHANGED <<sess, jobs, tracked, connected>>
  BY <1>1, <1>9, NothingAnswers
<1> QED
  BY <1>2, <1>3, <1>5, <1>6, <1>7, <1>8, <1>9, Objects

\* The steps of b's objects, and the others, of which b has no job.
LEMMA WorkerAnswers ==
    ASSUME IInv, Answering, NEW o \in Obj, Worker(o)
    PROVE  Answering'
<1>1. Counted /\ (o[1] = "b" => Answerer(o)) /\ sess[o] \in Session
  BY DEF Answering, IInv
<1>2. ASSUME NEW do \in OpenerJobs, On(do, o) PROVE o[1] = "a"
  <2>1. PICK j : j = Job(do, o)
    OBVIOUS
  <2>2. j.do = do /\ j.obj = o /\ JobOK(j)
    BY <1>2, <2>1 DEF Job, On, IInv
  <2> QED BY <1>2, <2>2, Objects DEF JobOK
<1>3. \A do : On(do, o) => sess[o].state # "None"
  BY Born
<1>4. ASSUME NEW D, NEW S, NEW F, Step(o, D, S, F), UNCHANGED tracked,
             sess[o].state # "None", sess'[o].state # "None", o[1] = "b" => Answerer(o)'
      PROVE  Answering'
  BY <1>4, AnswersOn
<1>5. ASSUME NEW D, NEW S, NEW F, Step(o, D, S, F), "state" \notin F
      PROVE  sess'[o].state = sess[o].state
  BY <1>5 DEF Step, But, Field
<1>6. ASSUME NEW D, NEW S, NEW F, Step(o, D, S, F), "job" \notin F, o[1] = "b"
      PROVE  sess'[o].job = "none"
  BY <1>1, <1>6 DEF Step, But, Field, Answerer
<1>7. ASSUME NEW D, NEW S, NEW F, Step(o, D, S, F), "working" \notin F
      PROVE  sess'[o].working = sess[o].working
  BY <1>7 DEF Step, But, Field
<1>8. CASE gen_intro(o) /\ UNCHANGED tracked
  <2>1. o[1] = "a" /\ sess[o].state # "None"
    BY <1>1, <1>2, <1>3, <1>8, GenIntroDoes DEF OpenerJobs
  <2>2. \/ Step(o, {"GenIntro"}, {"EnterIntroSent"}, {"working"})
        \/ Step(o, {"GenIntro"}, {"GenIntroAck"}, {"workbuf", "working"})
    BY <1>1, <1>8, GenIntroDoes
  <2> QED BY <1>4, <1>5, <1>8, <2>1, <2>2
<1>9. CASE verify_intro(o) /\ UNCHANGED tracked
  <2>1. On("VerifyIntro", o) /\ Step(o, {"VerifyIntro"}, {"InformIntro"}, {"introbuf"})
    BY <1>1, <1>9, VerifyIntroDoes
  <2>2. ASSUME o[1] = "b" PROVE Answerer(o)'
    <3>1. /\ sess'[o].state = sess[o].state /\ sess'[o].job = "none"
          /\ sess'[o].working = sess[o].working
      BY <1>5, <1>6, <1>7, <2>1, <2>2
    <3>2. /\ "VerifyIntro" \in Chain /\ "VerifyIntro" \in Steps /\ "InformIntro" \in Steps
      BY DEF Steps, Chain
    <3>3. sess[o].working /\ tracked'["b"] # o
      BY <1>1, <1>9, <2>1, <2>2, <3>2 DEF Answerer
    <3> QED BY <2>1, <2>2, <3>1, <3>2, <3>3, AnswererGoesOn
  <2> QED BY <1>3, <1>4, <1>5, <1>9, <2>1, <2>2
<1>10. CASE verify_introack(o) /\ UNCHANGED tracked
  <2>1. o[1] = "a" /\ sess[o].state # "None"
    BY <1>1, <1>2, <1>3, <1>10, VerifyAckDoes DEF OpenerJobs
  <2>2. \/ /\ sess'[o].state = "IntroAckRecv"
           /\ Step(o, {"VerifyIntroAck"}, {"GenStart"},
                   {"state", "idle", "token", "workbuf", "working"})
        \/ Step(o, {"VerifyIntroAck"}, {}, {"working"})
    BY <1>1, <1>10, VerifyAckDoes
  <2> QED BY <1>4, <1>5, <1>10, <2>1, <2>2
<1>11. CASE verify_session_start(o) /\ UNCHANGED tracked
  <2>1. PICK S, F : /\ Step(o, {"VerifyStart"}, S, F) /\ S \subseteq {"Encrypt", "EnterLIMSent"}
                    /\ "state" \notin F /\ "job" \notin F /\ On("VerifyStart", o)
    BY <1>1, <1>11, VerifyStartDoes
  <2>2. ASSUME o[1] = "b" PROVE Answerer(o)'
    <3>1. sess'[o].state = sess[o].state /\ sess'[o].job = "none"
      BY <1>5, <1>6, <2>1, <2>2
    <3>2. sess[o].state # "IntroRecv"
      BY <1>1, <2>1, <2>2 DEF Answerer, On, Job, Steps, Chain
    <3>3. /\ \A do \in Steps : do \notin {"VerifyStart"} /\ do \notin S
          /\ "EnterStartSent" \notin S
          /\ "Decrypt" \notin S /\ "Process" \notin S
      BY <2>1 DEF Steps, Chain
    <3> QED BY <1>1, <1>11, <2>1, <2>2, <3>1, <3>2, <3>3, AnswererStays DEF Answerer
  <2> QED BY <1>3, <1>4, <1>5, <1>11, <2>1, <2>2
<1>12. CASE EnterState(o, "EnterIntroSent", "IntroSent") /\ UNCHANGED tracked
  <2>1. o[1] = "a" /\ sess[o].state # "None" /\ sess'[o].state # "None"
        /\ Step(o, {"EnterIntroSent"}, {"Encrypt"}, {"state", "idle"})
    BY <1>1, <1>2, <1>3, <1>12, EnterDoes DEF OpenerJobs
  <2> QED BY <1>4, <1>12, <2>1
<1>13. CASE EnterState(o, "EnterIntroAckSent", "IntroAckSent") /\ UNCHANGED tracked
  <2>1. /\ On("EnterIntroAckSent", o) /\ sess'[o].state = "IntroAckSent"
        /\ Step(o, {"EnterIntroAckSent"}, {"Encrypt"}, {"state", "idle"})
    BY <1>1, <1>13, EnterDoes
  <2>2. ASSUME o[1] = "b" PROVE Answerer(o)'
    <3>1. sess'[o].job = "none"
      BY <1>6, <2>1, <2>2
    <3> QED BY <2>1, <2>2, <3>1, AnswererEnds DEF Steps
  <2> QED BY <1>3, <1>4, <1>13, <2>1, <2>2
<1>14. CASE EnterState(o, "EnterStartSent", "SessionStartSent") /\ UNCHANGED tracked
  <2>1. /\ On("EnterStartSent", o) /\ sess'[o].state = "SessionStartSent"
        /\ Step(o, {"EnterStartSent"}, {"Encrypt"}, {"state", "idle"})
    BY <1>1, <1>14, EnterDoes
  <2>2. o[1] # "b"
    BY <1>1, <2>1 DEF Answerer
  <2> QED BY <1>3, <1>4, <1>14, <2>1, <2>2
<1>15. CASE EnterState(o, "EnterLIMSent", "LIMSent") /\ UNCHANGED tracked
  <2>1. /\ On("EnterLIMSent", o) /\ sess'[o].state = "LIMSent"
        /\ Step(o, {"EnterLIMSent"}, {"Encrypt"}, {"state", "idle"})
    BY <1>1, <1>15, EnterDoes
  <2>2. ASSUME o[1] = "b" PROVE Answerer(o)'
    <3>1. sess'[o].job = "none"
      BY <1>6, <2>1, <2>2
    <3>2. sess[o].state # "IntroRecv"
      BY <1>1, <2>1, <2>2 DEF Answerer, On, Job, Steps, Chain
    <3>3. \A do \in Steps : do \notin {"EnterLIMSent"} /\ do \notin {"Encrypt"}
      BY DEF Steps, Chain
    <3> QED BY <1>1, <1>15, <2>1, <2>2, <3>1, <3>2, <3>3, AnswererStays DEF Answerer, FrameState
  <2> QED BY <1>3, <1>4, <1>15, <2>1, <2>2
<1>16. CASE EncryptOutboundFrames(o) /\ UNCHANGED tracked
  <2>1. Step(o, {"Encrypt"}, {}, {"outq"}) /\ On("Encrypt", o)
    BY <1>1, <1>16, EncryptDoes
  <2>2. ASSUME o[1] = "b" PROVE Answerer(o)'
    <3>1. sess'[o].state = sess[o].state /\ sess'[o].job = "none"
      BY <1>5, <1>6, <2>1, <2>2
    <3>2. sess[o].state # "IntroRecv"
      BY <1>1, <2>1, <2>2 DEF Answerer, On, Job, Steps, Chain
    <3>3. \A do \in Steps : do \notin {"Encrypt"}
      BY DEF Steps, Chain
    <3> QED BY <1>1, <1>16, <2>1, <2>2, <3>1, <3>2, <3>3, AnswererStays DEF Answerer
  <2> QED BY <1>3, <1>4, <1>5, <1>16, <2>1, <2>2
<1>17. CASE hmac_then_decrypt(o) /\ UNCHANGED tracked
  <2>1. Step(o, {"Decrypt"}, {"Process"}, {}) /\ \E j \in BagToSet(jobs) : j.do = "Decrypt" /\ j.obj = o
    BY <1>1, <1>17, DecryptDoes
  <2>2. sess[o].state # "Freed" /\ sess[o].state # "None"
    BY <2>1, Born DEF Step
  <2>3. ASSUME o[1] = "b" PROVE Answerer(o)'
    <3>1. sess'[o].state = sess[o].state /\ sess'[o].job = "none"
      BY <1>5, <1>6, <2>1, <2>3
    <3>2. sess[o].state \in FrameState
      BY <1>1, <2>1, <2>2, <2>3 DEF Answerer
    <3>3. \A do \in Steps : do \notin {"Decrypt"} /\ do \notin {"Process"}
      BY DEF Steps, Chain
    <3>4. sess[o].state # "IntroRecv"
      BY <3>2 DEF FrameState
    <3> QED BY <1>1, <1>17, <2>1, <2>3, <3>1, <3>2, <3>3, <3>4, AnswererStays DEF Answerer
  <2> QED BY <1>4, <1>5, <1>17, <2>1, <2>2, <2>3
<1>18. CASE gen_session_start(o) /\ UNCHANGED tracked
  <2>1. o[1] = "a" /\ sess[o].state # "None"
        /\ Step(o, {"GenStart"}, {"EnterStartSent"}, {"key", "working"})
    BY <1>1, <1>2, <1>3, <1>18, GenStartDoes DEF OpenerJobs
  <2> QED BY <1>4, <1>5, <1>18, <2>1
<1>19. CASE gen_introack(o)
  <2>1. /\ On("GenIntroAck", o) /\ UNCHANGED tracked
        /\ \/ sess'[o].state = "Freed" /\ Step(o, {"GenIntroAck"}, {}, {"state"})
           \/ sess' = sess /\ Step(o, {"GenIntroAck"}, {"PutSession"}, {})
    BY <1>1, <1>19, GenAckDoes
  <2>2. ASSUME o[1] = "b" PROVE Answerer(o)'
    <3>1. "GenIntroAck" \in Chain /\ "GenIntroAck" \in Steps /\ "PutSession" \in Steps
      BY DEF Steps, Chain
    <3>2. tracked'["b"] # o /\ sess[o].working
      BY <1>1, <2>1, <2>2, <3>1 DEF Answerer
    <3>3. sess'[o].job = "none"
      BY <1>6, <2>1, <2>2
    <3> QED BY <2>1, <2>2, <3>1, <3>2, <3>3, AnswererEnds, AnswererGoesOn
  <2> QED BY <1>3, <1>4, <2>1, <2>2
<1>20. CASE put_session(o)
  <2>1. /\ On("PutSession", o) /\ Step(o, {"PutSession"}, {"EnterIntroAckSent"}, {"idle"})
        /\ tracked' = [tracked EXCEPT ![o[1]] = IF tracked[o[1]] = NoObj THEN o ELSE @]
    BY <1>1, <1>20, PutDoes
  <2>2. sess'[o].state = sess[o].state /\ sess[o].state # "None"
    BY <1>3, <1>5, <2>1
  <2>3. ASSUME o[1] = "b" PROVE Answerer(o)'
    <3>1. /\ "PutSession" \in Steps /\ "EnterIntroAckSent" \in Steps
          /\ "EnterIntroAckSent" \notin Chain
      BY DEF Steps, Chain
    <3>2. sess'[o].working /\ sess'[o].job = "none"
      BY <1>1, <1>6, <1>7, <2>1, <2>3, <3>1 DEF Answerer
    <3> QED BY <2>1, <2>2, <2>3, <3>1, <3>2, AnswererGoesOn
  <2>4. \A x \in Server : tracked'[x] \in {NoObj, tracked[x]} \/ (tracked'[x] = o /\ o[1] = x)
    BY <2>1, Objects DEF IInv, Tables
  <2> QED BY <2>1, <2>2, <2>3, <2>4, AnswersOn
<1> QED
  BY <1>8, <1>9, <1>10, <1>11, <1>12, <1>13, <1>14, <1>15, <1>16, <1>17, <1>18, <1>19, <1>20
  DEF Worker

LEMMA LogicAnswers ==
    ASSUME IInv, Answering, NEW o \in Obj, Logic(o)
    PROVE  Answering'
<1>1. Counted /\ (o[1] = "b" => Answerer(o)) /\ sess[o] \in Session
  BY DEF Answering, IInv
<1>2. ASSUME NEW D, NEW S, NEW F, Step(o, D, S, F), UNCHANGED tracked,
             sess[o].state # "None", sess'[o].state # "None", o[1] = "b" => Answerer(o)'
      PROVE  Answering'
  BY <1>2, AnswersOn
<1>3. ASSUME NEW D, NEW S, NEW F, Step(o, D, S, F)
      PROVE  /\ "state" \notin F => sess'[o].state = sess[o].state
             /\ "working" \notin F => sess'[o].working = sess[o].working
             /\ "job" \notin F /\ o[1] = "b" => sess'[o].job = "none"
  BY <1>1, <1>3 DEF Step, But, Field, Answerer
<1>4. /\ \A do \in Steps : do \notin {"Process", "Keepalive", "Encrypt"}
      /\ "EnterStartSent" \notin {"Process", "Keepalive", "Encrypt"}
  BY DEF Steps, Chain
<1>5. CASE handle_verify_intro(o) /\ UNCHANGED tracked
  <2>1. /\ On("InformIntro", o)
        /\ \/ sess'[o].working /\ Step(o, {"InformIntro"}, {"GenIntroAck"}, {"workbuf", "working"})
           \/ Step(o, {"InformIntro"}, {}, {"working"})
    BY <1>1, <1>5, InformIntroDoes
  <2>2. ASSUME o[1] = "b" PROVE Answerer(o)'
    <3>1. "InformIntro" \in Chain /\ "InformIntro" \in Steps /\ "GenIntroAck" \in Steps
      BY DEF Steps, Chain
    <3>2. tracked'["b"] # o /\ sess[o].state = "IntroRecv"
      BY <1>1, <1>5, <2>1, <2>2, <3>1 DEF Answerer
    <3>3. sess'[o].job = "none" /\ sess'[o].state = "IntroRecv"
      BY <1>3, <2>1, <2>2, <3>2
    <3> QED BY <2>1, <2>2, <3>1, <3>2, <3>3, AnswererEnds, AnswererGoesOn
  <2>3. sess[o].state # "None" /\ sess'[o].state # "None"
    BY <1>3, <2>1, Born
  <2> QED BY <1>2, <1>5, <2>1, <2>2, <2>3
<1>6. CASE handle_frame_decrypt(o)
  <2>1. PICK S, F :
          /\ Step(o, {"Process"}, S, F) /\ S \subseteq {"Keepalive", "Encrypt"}
          /\ sess'[o].state \in {sess[o].state, "Established"} /\ "job" \notin F
    BY <1>1, <1>3, <1>6, ProcessDoes
  <2>2. PICK j \in BagToSet(jobs) : j.do = "Process" /\ j.obj = o
    BY <1>1, <1>6, ProcessDoes
  <2>3. UNCHANGED tracked /\ sess[o].state # "None" /\ sess'[o].state # "None" /\ sess[o].state # "Freed"
    BY <1>1, <1>6, <2>1, <2>2, Born, ProcessDoes DEF Step
  <2>4. ASSUME o[1] = "b" PROVE Answerer(o)'
    <3>1. sess'[o].job = "none" /\ sess[o].state \in FrameState
      BY <1>1, <1>3, <2>1, <2>2, <2>3, <2>4 DEF Answerer
    <3>2. sess[o].state # "IntroRecv" /\ sess'[o].state \in FrameState
          /\ sess'[o].state \notin {"Initial", "SessionStartSent", "IntroRecv"}
      BY <1>1, <2>1, <2>4, <3>1 DEF FrameState, Answerer
    <3>3. sess'[o].state # "Freed"
      BY <3>2 DEF FrameState
    <3>4. /\ \A do \in Steps : do \notin {"Process"} /\ do \notin S
          /\ "EnterStartSent" \notin S
      BY <1>4, <2>1
    <3> QED BY <2>1, <2>3, <2>4, <3>1, <3>2, <3>3, <3>4, AnswererStays
  <2> QED BY <1>2, <2>1, <2>3, <2>4
<1>7. CASE close(o)
  <2>1. /\ Step(o, {}, {"Keepalive"}, {"txInv", "job"}) /\ sess[o].job = "answered"
        /\ UNCHANGED tracked
    BY <1>1, <1>7, CloseDoes
  <2>2. o[1] # "b" /\ sess[o].state # "None" /\ sess'[o].state # "None"
    BY <1>1, <1>3, <2>1, Born DEF Answerer
  <2> QED BY <1>2, <2>1, <2>2
<1>8. CASE send_keepalive(o)
  <2>1. /\ Step(o, {"Keepalive"}, {"Encrypt"}, {"outq"}) /\ On("Keepalive", o)
        /\ UNCHANGED tracked
    BY <1>1, <1>8, KeepaliveDoes
  <2>2. ASSUME o[1] = "b" PROVE Answerer(o)'
    <3>1. sess'[o].state = sess[o].state /\ sess'[o].job = "none"
      BY <1>3, <2>1, <2>2
    <3>2. sess[o].state # "IntroRecv"
      BY <1>1, <2>1, <2>2 DEF Answerer, On, Job, Steps, Chain
    <3>3. \A do \in Steps : do \notin {"Keepalive"} /\ do \notin {"Encrypt"}
      BY <1>4
    <3> QED BY <1>1, <2>1, <2>2, <3>1, <3>2, <3>3, AnswererStays DEF Answerer
  <2>3. sess[o].state # "None" /\ sess'[o].state # "None"
    BY <1>3, <2>1, Born
  <2> QED BY <1>2, <2>1, <2>2, <2>3
<1>9. CASE TickRemove(o)
  <2>1. /\ tracked[o[1]] = o /\ ~sess[o].working
        /\ RemoveSessionByAddr(o) /\ UNCHANGED jobs /\ IsABag(net')
    BY <1>1, <1>9 DEF TickRemove, Counted
  <2>2. /\ Step(o, {}, {}, {"state", "timer"}) /\ sess'[o].state = "Freed"
        /\ tracked' = [tracked EXCEPT ![o[1]] = NoObj]
    BY <1>1, <2>1, RemoveDoes
  <2>3. \A x \in Server : tracked'[x] \in {NoObj, tracked[x]}
    BY <2>2 DEF IInv, Tables
  <2>4. ASSUME o[1] = "b" PROVE Answerer(o)'
    <3>1. tracked'["b"] # o /\ sess'[o].job = "none"
      BY <1>3, <2>2, <2>4, Objects DEF IInv, Tables
    <3>2. /\ \A do \in Steps : ~On(do, o)
          /\ ~On("EnterStartSent", o)
      BY <1>1, <2>1, <2>4 DEF Answerer
    <3>3. /\ \A do : On(do, o)' <=> On(do, o)
          /\ \A j \in BagToSet(jobs') : j \in BagToSet(jobs)
      BY <2>2 DEF Step, Change
    <3> QED BY <2>2, <3>1, <3>2, <3>3 DEF Answerer, Steps
  <2>5. sess[o].state # "None"
    BY <2>1, Born
  <2> QED BY <2>2, <2>3, <2>4, <2>5, AnswersOn
<1>10. CASE TickKeep(o)
  <2>1. /\ tracked[o[1]] = o /\ sess[o].state \in {"LIMSent", "Established"}
        /\ Step(o, {}, {"Encrypt"}, {"outq"}) /\ UNCHANGED tracked
    BY <1>1, <1>10, TickKeepDoes
  <2>2. sess'[o].state = sess[o].state /\ (o[1] = "b" => sess'[o].job = "none")
    BY <1>3, <2>1
  <2>3. o[1] = "b" => Answerer(o)'
    BY <1>4, <2>1, <2>2, AnswererStays DEF FrameState
  <2> QED BY <1>2, <2>1, <2>2, <2>3
<1>11. CASE handle_establish_timeout(o)
  <2>1. /\ Step(o, {}, {}, {"timer", "job"}) /\ UNCHANGED tracked /\ sess[o].timer # "off"
        /\ sess[o].job # "waiting" => sess'[o].job = "none"
    BY <1>1, <1>11, TimeoutDoes
  <2>2. /\ sess'[o].state = sess[o].state /\ sess[o].state # "None"
        /\ sess'[o].working = sess[o].working
    BY <1>3, <2>1, Born
  <2>3. o[1] = "b" => Answerer(o)'
    BY <1>1, <2>1, <2>2, AnswererStays DEF Answerer
  <2> QED BY <1>2, <2>1, <2>2, <2>3
<1> QED
  BY <1>5, <1>6, <1>7, <1>8, <1>9, <1>10, <1>11 DEF Logic

LEMMA TimeAnswers ==
    ASSUME IInv, Answering, NEW o \in Obj, TimePasses(o)
    PROVE  Answering'
<1>1. Counted /\ (o[1] = "b" => Answerer(o)) /\ sess[o] \in Session
  BY DEF Answering, IInv
<1>2. tracked[o[1]] = o /\ Step(o, {}, {}, {"timer", "idle"}) /\ UNCHANGED tracked
  BY <1>1, TimePassesDoes
<1>3. /\ sess'[o].state = sess[o].state /\ sess[o].state # "None"
      /\ sess'[o].working = sess[o].working /\ sess'[o].job = sess[o].job
  BY <1>2, Born DEF Step, But, Field
<1>4. o[1] = "b" => Answerer(o)'
  BY <1>1, <1>2, <1>3, AnswererStays DEF Answerer
<1> QED
  BY <1>2, <1>3, <1>4, AnswersOn

LEMMA InitAnswers ==
    ASSUME Init
    PROVE  Answering
<1>1. BagToSet(jobs) = {} /\ BagToSet(net) = {} /\ IsABag(jobs) /\ IsABag(net)
  BY InQueued, BagOfOne DEF Init
<1>2. \A o \in Obj : sess[o] = None /\ tracked[o[1]] = NoObj
  BY Objects DEF Init
<1>3. None.state = "None" /\ None.job = "none"
  BY DEF None, create_session
<1>4. Segment /\ Unborn
  <2>1. \A x \in Server, n \in 1..MaxSessions : <<x, n>> \in Obj
    BY DEF Obj
  <2> QED BY <1>1, <1>2, <1>3, <2>1, Objects DEF Segment, Unborn
<1>5. \A do, o : ~On(do, o)
  BY <1>1 DEF On
<1>6. tracked["b"] = NoObj
  BY Objects DEF Init
<1>7. ASSUME NEW o \in Obj PROVE Answerer(o)
  BY <1>1, <1>2, <1>3, <1>5, <1>6, Objects DEF Answerer
<1> QED
  BY <1>1, <1>4, <1>7 DEF Answering, Counted

LEMMA NextAnswers ==
    ASSUME IInv, Answering, [Next]_vars
    PROVE  Answering'
<1>1. CASE UNCHANGED vars
  BY <1>1, NothingAnswers DEF vars, Answering, Counted
<1>2. CASE try_connect \/ connect_job_retry
  BY <1>2, EstablishAnswers DEF try_connect, connect_job_retry
<1>3. ASSUME NEW d \in BagToSet(net), Lose(d) PROVE Answering'
  BY <1>3, NothingAnswers, NetBag DEF Lose, Answering, Counted
<1> QED
  BY <1>1, <1>2, <1>3, RecvAnswers, WorkerAnswers, LogicAnswers, TimeAnswers DEF Next

-----------------------------------------------------------------------------
(* One key *)

LEMMA KeyFacts ==
    /\ NoKey = <<NoObj, 0>> /\ A1 \in Obj /\ A1[1] = "a"
    /\ \A o \in Obj : o[1] = "b" => o # A1
BY BoundAssumption DEF NoKey, A1, Obj, Server

\* What a step has to show that keeps the keys.
LEMMA KeyStays ==
    ASSUME IInv, OneKey, NEW o \in Obj, NEW D, NEW S, NEW F, Step(o, D, S, F),
           sess'[o].key = sess[o].key,
           o[1] = "b" /\ sess'[o].workbuf.t = "START" =>
             sess'[o].workbuf = sess[o].workbuf \/ StartKey(sess'[o].workbuf),
           \A d \in BagToSet(net') : \/ d \in BagToSet(net)
                                     \/ (d.t = "FRAME" => FrameKey(d)) /\ d.t # "START",
           \A j \in BagToSet(jobs') :
             \/ j \in BagToSet(jobs)
             \/ /\ j.do = "Decrypt" /\ j.frame.t = "FRAME" =>
                     FrameKey(j.frame) /\ j.frame.from = Peer(j.obj[1])
                /\ j.do \in {"Process", "Keepalive", "EnterLIMSent"} => sess[o].key # NoKey
                /\ j.do = "Process" => BHasKey,
           sess'[o].outq # {} => sess[o].outq # {} \/ sess[o].key # NoKey,
           sess'[o].state \in {"LIMSent", "Established"} =>
             \/ sess'[o].state = sess[o].state
             \/ sess[o].key # NoKey /\ BHasKey,
           sess'[o].job = "answered" =>
             \/ sess[o].job = "answered" \/ sess[o].state = "Established"
    PROVE  OneKey' /\ (BHasKey => BHasKey')
<1>1. \A p \in Obj : sess'[p].key = sess[p].key
  BY DEF Step
<1>2. A1 \in Obj
  BY KeyFacts
<1>3. /\ AHasKey' <=> AHasKey
      /\ BHasKey => BHasKey'
  BY <1>1, <1>2 DEF AHasKey, BHasKey
<1>4. \A d : (FrameKey(d) => FrameKey(d)') /\ (StartKey(d) => StartKey(d)')
  BY <1>1, <1>2, <1>3 DEF FrameKey, StartKey
<1>5. ASSUME NEW p \in Obj, p[1] = "b"
      PROVE  /\ sess'[p].key \in {NoKey, sess'[A1].key}
             /\ sess'[p].workbuf.t = "START" => StartKey(sess[p].workbuf)'
  <2>1. sess'[p].key \in {NoKey, sess'[A1].key}
    BY <1>1, <1>2, <1>5 DEF OneKey
  <2>2. PICK w : w = sess'[p].workbuf
    OBVIOUS
  <2>3. w.t = "START" => StartKey(w)
    <3>1. CASE p = o
      BY <1>5, <2>2, <3>1 DEF OneKey
    <3>2. CASE p # o
      BY <1>5, <2>2, <3>2 DEF OneKey, Step
    <3> QED BY <3>1, <3>2
  <2>4. w.t = "START" => StartKey(w)'
    BY <1>4, <2>3
  <2>5. w.t = "START" => AHasKey' /\ <<w.token, w.nonce>> = sess'[A1].key
    BY <2>4 DEF StartKey
  <2> QED BY <2>1, <2>2, <2>5 DEF StartKey
<1>6. \A d \in BagToSet(net') :
         (d.t = "FRAME" => FrameKey(d)') /\ (d.t = "START" => StartKey(d)')
  BY <1>4 DEF OneKey
<1>7. ASSUME NEW j \in BagToSet(jobs')
      PROVE  /\ j.do = "Decrypt" /\ j.frame.t = "FRAME" =>
                  FrameKey(j.frame)' /\ j.frame.from = Peer(j.obj[1])
             /\ j.do \in {"Process", "Keepalive", "EnterLIMSent"} => sess'[j.obj].key # NoKey
             /\ j.do = "Process" => BHasKey'
  <2>1. /\ j.do = "Decrypt" /\ j.frame.t = "FRAME" =>
             FrameKey(j.frame) /\ j.frame.from = Peer(j.obj[1])
        /\ j.do = "Process" => BHasKey
    BY <1>7 DEF OneKey
  <2>2. CASE j \in BagToSet(jobs)
    <3>1. j.obj \in Obj
      BY <2>2 DEF IInv, JobOK, JobType
    <3> QED BY <1>1, <1>3, <1>4, <2>1, <2>2, <3>1 DEF OneKey
  <2>3. CASE j \notin BagToSet(jobs)
    <3>1. j.obj = o
      BY <1>7, <2>3 DEF Step, Change
    <3> QED BY <1>1, <1>3, <1>4, <1>7, <2>1, <2>3, <3>1
  <2> QED BY <2>2, <2>3
<1>8. ASSUME NEW p \in Obj
      PROVE  /\ sess'[p].outq # {} => sess'[p].key # NoKey
             /\ sess'[p].state \in {"LIMSent", "Established"} \/ sess'[p].job = "answered" =>
                  sess'[p].key # NoKey /\ BHasKey'
  <2>1. CASE p = o
    BY <1>1, <1>3, <2>1 DEF OneKey
  <2>2. CASE p # o
    BY <1>3, <2>2 DEF OneKey, Step
  <2> QED BY <2>1, <2>2
<1>9. OneKey'
  BY <1>5, <1>6, <1>7, <1>8 DEF OneKey
<1> QED
  BY <1>3, <1>9

LEMMA KeyQuiet ==
    ASSUME IInv, OneKey, NEW o \in Obj, NEW D, NEW S, NEW F, Step(o, D, S, F), "key" \notin F,
           "workbuf" \in F => sess'[o].workbuf.t # "START",
           "outq" \in F => sess'[o].outq = {} \/ sess[o].key # NoKey,
           "state" \in F => sess'[o].state \notin {"LIMSent", "Established"},
           "job" \in F => sess'[o].job # "answered",
           \A e \in S : e \notin {"Decrypt", "Process"},
           "Keepalive" \in S \/ "EnterLIMSent" \in S => sess[o].key # NoKey,
           \A d \in BagToSet(net') : d \in BagToSet(net) \/ d.t \notin {"FRAME", "START"}
    PROVE  OneKey' /\ (BHasKey => BHasKey')
<1>1. /\ sess'[o].key = sess[o].key
      /\ "workbuf" \notin F => sess'[o].workbuf = sess[o].workbuf
      /\ "outq" \notin F => sess'[o].outq = sess[o].outq
      /\ "state" \notin F => sess'[o].state = sess[o].state
      /\ "job" \notin F => sess'[o].job = sess[o].job
  BY DEF Step, But, Field
<1>2. \A j \in BagToSet(jobs') : j \in BagToSet(jobs) \/ j.do \in S
  BY DEF Step, Change
<1>3. \A j \in BagToSet(jobs') : j \in BagToSet(jobs) \/
         /\ j.do # "Decrypt" /\ j.do # "Process"
         /\ j.do \in {"Process", "Keepalive", "EnterLIMSent"} => sess[o].key # NoKey
  BY <1>2
<1> QED
  BY <1>1, <1>3, KeyStays

LEMMA KeyNothing ==
    ASSUME OneKey, UNCHANGED <<sess, jobs>>, \A d \in BagToSet(net') : d \in BagToSet(net)
    PROVE  OneKey' /\ (BHasKey => BHasKey')
BY DEF OneKey, FrameKey, StartKey, AHasKey, BHasKey

LEMMA RecvOneKey ==
    ASSUME IInv, Answering, Under, NEW x \in Server, NEW d \in BagToSet(net),
           handle_recvfrom(x, d)
    PROVE  OneKey' /\ (BHasKey => BHasKey')
<1>1. Counted /\ OneKey
  BY DEF Answering, Under
<1>2. /\ IsABag(net') /\ \A e \in BagToSet(net') : e \in BagToSet(net)
      /\ d.from = Peer(x)
  BY <1>1, RecvNet
<1>3. PICK o \in Obj :
        /\ o[1] = x
        /\ \/ /\ tracked[x] = NoObj /\ o = Fresh(x) /\ sess[o].state = "None"
              /\ on_intro(o, create_session(o), d)
           \/ /\ tracked[x] = o /\ sess[o].state # "None"
              /\ \/ sess[o].state = "Initial" /\ on_intro(o, sess[o], d)
                 \/ sess[o].state = "IntroSent" /\ on_intro_ack(o, d)
                 \/ sess[o].state = "IntroAckSent" /\ on_session_start(o, d)
                 \/ sess[o].state \in FrameState /\ decrypt_frame(o, d)
                 \/ UNCHANGED <<sess, jobs, tracked, connected>>
  BY RecvCases
<1>4. (d.t = "START" => StartKey(d)) /\ (d.t = "FRAME" => FrameKey(d))
  BY <1>1 DEF OneKey
<1>5. ASSUME NEW s \in Session, on_intro(o, s, d),
             s.key = sess[o].key, s.outq = sess[o].outq, s.job = sess[o].job,
             s.workbuf = sess[o].workbuf
      PROVE  OneKey' /\ (BHasKey => BHasKey')
  <2>1. PICK S \in {{}, {"VerifyIntro"}} :
          /\ Step(o, {}, S, Field) /\ sess'[o].state \in {"Freed", "IntroRecv"}
          /\ sess'[o].workbuf \in {d, sess[o].workbuf}
          /\ sess'[o].key = sess[o].key /\ sess'[o].outq = sess[o].outq
          /\ sess'[o].job = sess[o].job
    BY <1>1, <1>2, <1>5, OnIntroDoes
  <2>2. \A j \in BagToSet(jobs') : j \in BagToSet(jobs) \/ j.do = "VerifyIntro"
    BY <2>1 DEF Step, Change
  <2> QED BY <1>1, <1>2, <1>4, <2>1, <2>2, KeyStays
<1>6. CASE tracked[x] = NoObj
  <2>1. PICK s : s = create_session(o)
    OBVIOUS
  <2>2. sess[o].state = "None" /\ on_intro(o, s, d)
    BY <1>3, <1>6, <2>1, Objects
  <2>3. sess[o] = None
    BY <2>2 DEF Answering, Unborn
  <2>4. /\ s \in Session /\ s.key = None.key /\ s.outq = None.outq /\ s.job = None.job
        /\ s.workbuf = None.workbuf
    BY <2>1, NoneIsNew, NewSession
  <2> QED BY <1>5, <2>2, <2>3, <2>4
<1>7. CASE on_intro(o, sess[o], d)
  BY <1>5, <1>7 DEF IInv
<1>8. CASE on_intro_ack(o, d)
  <2>1. \/ Step(o, {}, {}, {"state", "timer"}) /\ sess'[o].state = "Freed"
        \/ /\ Step(o, {}, {"VerifyIntroAck"}, {"workbuf", "working"})
           /\ sess'[o].workbuf = d
    BY <1>1, <1>2, <1>8, OnAckDoes
  <2>2. CASE Step(o, {}, {}, {"state", "timer"}) /\ sess'[o].state = "Freed"
    BY <1>1, <1>2, <2>2, KeyQuiet
  <2>3. CASE Step(o, {}, {"VerifyIntroAck"}, {"workbuf", "working"}) /\ sess'[o].workbuf = d
    <3>1. /\ sess'[o].key = sess[o].key /\ sess'[o].outq = sess[o].outq
          /\ sess'[o].state = sess[o].state /\ sess'[o].job = sess[o].job
      BY <2>3 DEF Step, But, Field
    <3>2. \A j \in BagToSet(jobs') : j \in BagToSet(jobs) \/ j.do = "VerifyIntroAck"
      BY <2>3 DEF Step, Change
    <3> QED BY <1>1, <1>2, <1>4, <2>3, <3>1, <3>2, KeyStays
  <2> QED BY <2>1, <2>2, <2>3
<1>9. CASE on_session_start(o, d)
  <2>1. CASE UNCHANGED <<sess, jobs>>
    BY <1>1, <1>2, <2>1, KeyNothing
  <2>2. CASE Step(o, {}, {"VerifyStart"}, {"workbuf", "working"}) /\ sess'[o].workbuf = d
    <3>1. /\ sess'[o].key = sess[o].key /\ sess'[o].outq = sess[o].outq
          /\ sess'[o].state = sess[o].state /\ sess'[o].job = sess[o].job
      BY <2>2 DEF Step, But, Field
    <3>2. \A j \in BagToSet(jobs') : j \in BagToSet(jobs) \/ j.do = "VerifyStart"
      BY <2>2 DEF Step, Change
    <3> QED BY <1>1, <1>2, <1>4, <2>2, <3>1, <3>2, KeyStays
  <2> QED BY <1>1, <1>2, <1>9, <2>1, <2>2, OnStartDoes
<1>10. CASE decrypt_frame(o, d)
  <2>1. /\ UNCHANGED sess /\ Step(o, {}, {"Decrypt"}, {})
        /\ \A j \in BagToSet(jobs') : j \in BagToSet(jobs) \/ j = FrameJob("Decrypt", o, d)
    BY <1>1, <1>2, <1>10, DecryptFrameDoes
  <2>2. \A j \in BagToSet(jobs') : j \in BagToSet(jobs) \/
           (j.do = "Decrypt" /\ j.frame = d /\ j.obj = o)
    BY <2>1 DEF FrameJob
  <2>3. \A j \in BagToSet(jobs') : j \in BagToSet(jobs) \/
           /\ j.do = "Decrypt"
           /\ j.frame.t = "FRAME" => FrameKey(j.frame) /\ j.frame.from = Peer(j.obj[1])
    BY <1>2, <1>3, <1>4, <2>2
  <2> QED BY <1>1, <1>2, <2>1, <2>3, KeyStays
<1>11. CASE UNCHANGED <<sess, jobs, tracked, connected>>
  BY <1>1, <1>2, <1>11, KeyNothing
<1> QED
  BY <1>3, <1>6, <1>7, <1>8, <1>9, <1>10, <1>11

\* Whose jobs they are.
LEMMA UnderJobs ==
    ASSUME IInv, Under, NEW o \in Obj, NEW do, On(do, o)
    PROVE  /\ do # "GenIntro"
           /\ o[1] = "a" => do \in OpenJobs
           /\ o[1] = "a" /\ o # A1 => do \in {"VerifyIntro", "InformIntro"}
           /\ do \in OpenerJobs => o[1] = "a"
           /\ do \in OpenerJobs => o = A1
<1>1. PICK j : j = Job(do, o)
  OBVIOUS
<1>2. j \in BagToSet(jobs) /\ j.do = do /\ j.obj = o /\ JobOK(j)
  BY <1>1 DEF On, Job, IInv
<1>3. do \in OpenerJobs => o[1] = "a"
  BY <1>2, Objects DEF JobOK
<1>4. o[1] = "a" /\ o # A1 => do \in {"VerifyIntro", "InformIntro"}
  BY <1>2 DEF Under, Opened, Late
<1>5. (o[1] = "a" => do \in OpenJobs) /\ do # "GenIntro"
  BY <1>2 DEF Under, Opened, AskedNothing
<1>6. "VerifyIntro" \notin OpenerJobs /\ "InformIntro" \notin OpenerJobs
  BY DEF OpenerJobs
<1> QED
  BY <1>3, <1>4, <1>5, <1>6

LEMMA GenStartOneKey ==
    ASSUME IInv, Answering, Under, gen_session_start(A1)
    PROVE  OneKey' /\ (BHasKey => BHasKey') /\ ~BHasKey
<1>1. Counted /\ OneKey /\ A1 \in Obj /\ A1[1] = "a" /\ Progress
  BY KeyFacts DEF Answering, Under
<1>2. /\ On("GenStart", A1) /\ Step(A1, {"GenStart"}, {"EnterStartSent"}, {"key", "working"})
      /\ sess'[A1].key = <<sess[A1].token, nonces["a"] + 1>>
      /\ Sends(Start("a", sess[A1].token, nonces["a"] + 1))
  BY <1>1, GenStartDoes
<1>3. ~AHasKey /\ sess[A1].key = NoKey
  BY <1>1, <1>2 DEF Progress, AHasKey
<1>4. nonces["a"] + 1 # 0 /\ sess'[A1].key # NoKey
  BY <1>2, KeyFacts, Objects DEF IInv, Tables
<1>5. \A p \in Obj : p # A1 => sess'[p] = sess[p]
  BY <1>2 DEF Step
<1>6. \A p \in Obj : p[1] = "b" => sess'[p] = sess[p] /\ sess[p].key = NoKey
  BY <1>1, <1>3, <1>5 DEF OneKey
<1>7. ~BHasKey
  BY <1>6 DEF BHasKey
<1>8. PICK d : d = Start("a", sess[A1].token, nonces["a"] + 1)
  OBVIOUS
<1>9. \A e \in BagToSet(net') : e \in BagToSet(net) \/ e = d
  BY <1>2, <1>8, SendsAdds
<1>10. d.t = "START" /\ <<d.token, d.nonce>> = sess'[A1].key
  BY <1>2, <1>8 DEF Start
<1>11. AHasKey' /\ StartKey(d)'
  BY <1>4, <1>10 DEF AHasKey, StartKey
<1>12. \A e \in BagToSet(net) : e.t # "FRAME" /\ e.t # "START"
  BY <1>1, <1>3 DEF OneKey, FrameKey, StartKey
<1>13. \A p \in Obj : p[1] = "b" =>
         sess'[p].key \in {NoKey, sess'[A1].key} /\ sess'[p].workbuf.t # "START"
  BY <1>1, <1>3, <1>6 DEF OneKey, StartKey
<1>14. ASSUME NEW j \in BagToSet(jobs')
       PROVE  /\ j.do = "Decrypt" => j.frame.t # "FRAME"
              /\ j.do \in {"Process", "Keepalive", "EnterLIMSent"} => sess'[j.obj].key # NoKey
              /\ j.do # "Process"
  <2>1. CASE j \in BagToSet(jobs)
    <3>1. j.obj \in Obj
      BY <2>1 DEF IInv, JobOK, JobType
    <3>2. /\ j.do = "Decrypt" => j.frame.t # "FRAME"
          /\ j.do # "Process"
          /\ j.do \in {"Keepalive", "EnterLIMSent"} => sess[j.obj].key # NoKey
      BY <1>1, <1>3, <1>7, <2>1 DEF OneKey, FrameKey
    <3> QED BY <1>3, <1>5, <3>1, <3>2
  <2>2. CASE j \notin BagToSet(jobs)
    BY <1>2, <1>14, <2>2 DEF Step, Change
  <2> QED BY <2>1, <2>2
<1>15. ASSUME NEW p \in Obj
       PROVE  /\ sess'[p].outq # {} => sess'[p].key # NoKey
              /\ sess'[p].state \notin {"LIMSent", "Established"} /\ sess'[p].job # "answered"
  <2>1. sess'[p].outq = sess[p].outq /\ sess'[p].state = sess[p].state /\ sess'[p].job = sess[p].job
    BY <1>1, <1>2, <1>5 DEF Step, But, Field
  <2> QED BY <1>1, <1>3, <1>4, <1>5, <1>7, <2>1 DEF OneKey
<1>16. OneKey'
  <2>1. \A p \in Obj : p[1] = "b" =>
          /\ sess'[p].key \in {NoKey, sess'[A1].key}
          /\ sess'[p].workbuf.t = "START" => StartKey(sess[p].workbuf)'
    BY <1>13
  <2>2. \A e \in BagToSet(net') :
          (e.t = "FRAME" => FrameKey(e)') /\ (e.t = "START" => StartKey(e)')
    BY <1>9, <1>10, <1>11, <1>12
  <2> QED BY <1>14, <1>15, <2>1, <2>2 DEF OneKey
<1> QED
  BY <1>7, <1>16

\* The key that b derives is the one that a has.
LEMMA VerifyStartOneKey ==
    ASSUME IInv, Answering, Under, NEW o \in Obj, verify_session_start(o)
    PROVE  OneKey' /\ (BHasKey => BHasKey') /\ o[1] = "b"
<1>1. Counted /\ OneKey /\ A1 \in Obj /\ A1[1] = "a"
  BY KeyFacts DEF Answering, Under
<1>2. On("VerifyStart", o) /\ UNCHANGED net
  BY <1>1, VerifyStartDoes
<1>3. o[1] = "b" /\ o # A1
  BY <1>1, <1>2, UnderJobs, Objects DEF OpenJobs
<1>4. CASE /\ sess[o].workbuf.t = "START" /\ sess'[o].workbuf = Junk
           /\ sess'[o].key = <<sess[o].workbuf.token, sess[o].workbuf.nonce>>
           /\ Step(o, {"VerifyStart"}, {"Encrypt", "EnterLIMSent"},
                   {"key", "workbuf", "working", "outq", "limSent"})
  <2>1. AHasKey /\ sess'[o].key = sess[A1].key
    BY <1>1, <1>3, <1>4 DEF OneKey, StartKey
  <2>2. /\ \A p \in Obj : p # o => sess'[p] = sess[p]
        /\ \A p \in Obj : sess[p].key # NoKey => sess'[p].key # NoKey
        /\ sess'[o].key # NoKey /\ sess'[A1].key = sess[A1].key
    BY <1>1, <1>3, <1>4, <2>1 DEF Step, AHasKey
  <2>3. AHasKey' /\ BHasKey'
    BY <1>1, <1>3, <2>1, <2>2 DEF AHasKey, BHasKey
  <2>4. \A d : (FrameKey(d) => FrameKey(d)') /\ (StartKey(d) => StartKey(d)')
    BY <2>2, <2>3 DEF FrameKey, StartKey
  <2>5. ASSUME NEW p \in Obj, p[1] = "b"
        PROVE  /\ sess'[p].key \in {NoKey, sess'[A1].key}
               /\ sess'[p].workbuf.t = "START" => StartKey(sess[p].workbuf)'
    <3>1. CASE p = o
      BY <1>4, <2>1, <2>2, <3>1, Messages
    <3>2. CASE p # o
      <4>1. PICK w : w = sess[p].workbuf
        OBVIOUS
      <4>2. sess'[p].workbuf = w /\ (w.t = "START" => StartKey(w)')
        BY <1>1, <2>2, <2>4, <2>5, <3>2, <4>1 DEF OneKey
      <4>3. sess'[p].key \in {NoKey, sess'[A1].key}
        BY <1>1, <2>2, <2>5, <3>2 DEF OneKey
      <4> QED BY <4>2, <4>3 DEF StartKey
    <3> QED BY <3>1, <3>2
  <2>6. \A d \in BagToSet(net') :
          (d.t = "FRAME" => FrameKey(d)') /\ (d.t = "START" => StartKey(d)')
    BY <1>1, <1>2, <2>4 DEF OneKey
  <2>7. ASSUME NEW j \in BagToSet(jobs')
        PROVE  /\ j.do = "Decrypt" /\ j.frame.t = "FRAME" =>
                    FrameKey(j.frame)' /\ j.frame.from = Peer(j.obj[1])
               /\ j.do \in {"Process", "Keepalive", "EnterLIMSent"} => sess'[j.obj].key # NoKey
    <3>1. CASE j \in BagToSet(jobs)
      <4>1. j.obj \in Obj
        BY <3>1 DEF IInv, JobOK, JobType
      <4> QED BY <1>1, <2>2, <2>4, <3>1, <4>1 DEF OneKey
    <3>2. CASE j \notin BagToSet(jobs)
      BY <1>4, <2>2, <2>7, <3>2 DEF Step, Change
    <3> QED BY <3>1, <3>2
  <2>8. ASSUME NEW p \in Obj
        PROVE  /\ sess'[p].outq # {} => sess'[p].key # NoKey
               /\ sess'[p].state \in {"LIMSent", "Established"} \/ sess'[p].job = "answered" =>
                    sess'[p].key # NoKey
    <3>1. CASE p = o
      BY <2>2, <3>1
    <3>2. CASE p # o
      BY <1>1, <2>2, <3>2 DEF OneKey
    <3> QED BY <3>1, <3>2
  <2>9. OneKey'
    BY <2>3, <2>5, <2>6, <2>7, <2>8 DEF OneKey
  <2> QED BY <1>3, <2>3, <2>9
<1>5. CASE /\ sess'[o].workbuf = IF sess[o].workbuf.t = "START" THEN Junk ELSE sess[o].workbuf
           /\ Step(o, {"VerifyStart"}, {}, {"working", "workbuf"})
  BY <1>1, <1>2, <1>3, <1>5, KeyQuiet, Messages
<1> QED
  BY <1>1, <1>4, <1>5, VerifyStartDoes

LEMMA WorkerOneKey ==
    ASSUME IInv, Answering, Under, NEW o \in Obj, Worker(o)
    PROVE  OneKey' /\ (BHasKey => BHasKey')
<1>1. Counted /\ OneKey
  BY DEF Answering, Under
<1>2. ~gen_intro(o)
  BY <1>1, GenIntroDoes, UnderJobs
<1>3. CASE verify_intro(o)
  <2>1. Step(o, {"VerifyIntro"}, {"InformIntro"}, {"introbuf"}) /\ UNCHANGED net
    BY <1>1, <1>3, VerifyIntroDoes
  <2> QED BY <1>1, <2>1, KeyQuiet
<1>4. CASE verify_introack(o)
  <2>1. CASE /\ Step(o, {"VerifyIntroAck"}, {"GenStart"},
                     {"state", "idle", "token", "workbuf", "working"})
             /\ sess'[o].workbuf = Junk /\ sess'[o].state = "IntroAckRecv" /\ UNCHANGED net
    BY <1>1, <2>1, KeyQuiet, Messages
  <2>2. CASE Step(o, {"VerifyIntroAck"}, {}, {"working"}) /\ UNCHANGED net
    BY <1>1, <2>2, KeyQuiet
  <2> QED BY <1>1, <1>4, <2>1, <2>2, VerifyAckDoes
<1>5. ASSUME NEW do, NEW st, EnterState(o, do, st), st = "LIMSent" => sess[o].key # NoKey /\ BHasKey,
             st # "Established"
      PROVE  OneKey' /\ (BHasKey => BHasKey')
  <2>1. /\ Step(o, {do}, {"Encrypt"}, {"state", "idle"}) /\ sess'[o].state = st /\ UNCHANGED net
    BY <1>1, <1>5, EnterDoes
  <2>2. /\ sess'[o].key = sess[o].key /\ sess'[o].outq = sess[o].outq
        /\ sess'[o].workbuf = sess[o].workbuf /\ sess'[o].job = sess[o].job
    BY <2>1 DEF Step, But, Field
  <2>3. \A j \in BagToSet(jobs') : j \in BagToSet(jobs) \/ j.do = "Encrypt"
    BY <2>1 DEF Step, Change
  <2> QED BY <1>1, <1>5, <2>1, <2>2, <2>3, KeyStays
<1>6. CASE EnterState(o, "EnterLIMSent", "LIMSent")
  <2>1. On("EnterLIMSent", o)
    BY <1>1, <1>6, EnterDoes
  <2>2. o[1] = "b"
    BY <2>1, UnderJobs, Objects DEF OpenJobs
  <2>3. sess[o].key # NoKey
    BY <1>1, <2>1 DEF OneKey, On, Job
  <2> QED BY <1>5, <1>6, <2>2, <2>3 DEF BHasKey
<1>7. CASE EncryptOutboundFrames(o)
  <2>1. /\ Step(o, {"Encrypt"}, {}, {"outq"}) /\ sess'[o].outq = {}
        /\ \A d \in BagToSet(net') : d \in BagToSet(net) \/
             \E p \in sess[o].outq : d = Sealed(o[1], sess[o].key, p)
    BY <1>1, <1>7, EncryptDoes
  <2>2. /\ sess'[o].key = sess[o].key /\ sess'[o].state = sess[o].state
        /\ sess'[o].workbuf = sess[o].workbuf /\ sess'[o].job = sess[o].job
    BY <2>1 DEF Step, But, Field
  <2>3. ASSUME NEW d, NEW p \in sess[o].outq, d = Sealed(o[1], sess[o].key, p)
        PROVE  FrameKey(d) /\ d.t = "FRAME"
    <3>1. d.t = "FRAME" /\ d.key = sess[o].key /\ d.from = o[1]
      BY <2>3 DEF Sealed
    <3>2. sess[o].key # NoKey
      BY <1>1, <2>3 DEF OneKey
    <3>3. CASE o[1] = "a"
      <4>1. o = A1
        BY <2>3, <3>3 DEF Under, Opened, Late
      <4> QED BY <3>1, <3>2, <3>3, <4>1 DEF FrameKey, AHasKey
    <3>4. CASE o[1] = "b"
      <4>1. sess[o].key = sess[A1].key /\ BHasKey
        BY <1>1, <3>2, <3>4 DEF OneKey, BHasKey
      <4> QED BY <3>1, <3>2, <3>4, <4>1 DEF FrameKey, AHasKey
    <3> QED BY <3>3, <3>4, Objects
  <2>4. \A d \in BagToSet(net') : d \in BagToSet(net) \/ (FrameKey(d) /\ d.t = "FRAME")
    BY <2>1, <2>3
  <2>5. \A j \in BagToSet(jobs') : j \in BagToSet(jobs)
    BY <2>1 DEF Step, Change
  <2> QED BY <1>1, <2>1, <2>2, <2>4, <2>5, KeyStays
<1>8. CASE hmac_then_decrypt(o)
  <2>1. UNCHANGED <<sess, net>> /\ Step(o, {"Decrypt"}, {"Process"}, {})
    BY <1>1, <1>8, DecryptDoes
  <2>2. PICK j \in BagToSet(jobs) :
          /\ j.do = "Decrypt" /\ j.obj = o
          /\ \A k \in BagToSet(jobs') : k \in BagToSet(jobs) \/
               /\ k = FrameJob("Process", o, j.frame.body)
               /\ j.frame.t = "FRAME" /\ j.frame.key = sess[o].key
    BY <1>1, <1>8, DecryptDoes
  <2>3. ASSUME j.frame.t = "FRAME", j.frame.key = sess[o].key
        PROVE  sess[o].key # NoKey /\ BHasKey
    <3>1. FrameKey(j.frame) /\ j.frame.from = Peer(o[1])
      BY <1>1, <2>2, <2>3 DEF OneKey
    <3>2. sess[o].key # NoKey
      BY <2>3, <3>1 DEF FrameKey, AHasKey
    <3>3. CASE o[1] = "a"
      BY <3>1, <3>2, <3>3 DEF FrameKey, Peer
    <3>4. CASE o[1] = "b"
      BY <3>2, <3>4 DEF BHasKey
    <3> QED BY <3>2, <3>3, <3>4, Objects
  <2>4. \A k \in BagToSet(jobs') : k \in BagToSet(jobs) \/
           (k.do = "Process" /\ sess[o].key # NoKey /\ BHasKey)
    BY <2>2, <2>3 DEF FrameJob
  <2> QED BY <1>1, <2>1, <2>4, KeyStays
<1>9. CASE gen_session_start(o)
  <2>1. o = A1
    BY <1>1, <1>9, GenStartDoes, UnderJobs DEF OpenerJobs
  <2> QED BY <1>9, <2>1, GenStartOneKey
<1>10. CASE gen_introack(o)
  <2>1. \/ Step(o, {"GenIntroAck"}, {}, {"state"}) /\ sess'[o].state = "Freed" /\ UNCHANGED net
        \/ Step(o, {"GenIntroAck"}, {"PutSession"}, {}) /\ UNCHANGED net
    BY <1>1, <1>10, GenAckDoes
  <2> QED BY <1>1, <2>1, KeyQuiet
<1>11. CASE put_session(o)
  <2>1. /\ Step(o, {"PutSession"}, {"EnterIntroAckSent"}, {"idle"})
        /\ Sends(IntroAck(o[1], o))
    BY <1>1, <1>11, PutDoes
  <2>2. \A d \in BagToSet(net') : d \in BagToSet(net) \/ d = IntroAck(o[1], o)
    BY <2>1, SendsAdds
  <2>3. IntroAck(o[1], o).t = "INTROACK"
    BY DEF IntroAck
  <2> QED BY <1>1, <2>1, <2>2, <2>3, KeyQuiet
<1> QED
  BY <1>2, <1>3, <1>4, <1>5, <1>6, <1>7, <1>8, <1>9, <1>10, <1>11, VerifyStartOneKey DEF Worker

LEMMA LogicOneKey ==
    ASSUME IInv, Answering, Under, NEW o \in Obj, Logic(o)
    PROVE  OneKey' /\ (BHasKey => BHasKey')
<1>1. Counted /\ OneKey
  BY DEF Answering, Under
<1>2. CASE handle_verify_intro(o)
  <2>1. CASE /\ Step(o, {"InformIntro"}, {"GenIntroAck"}, {"workbuf", "working"})
             /\ sess'[o].workbuf = Junk /\ UNCHANGED net
    BY <1>1, <2>1, KeyQuiet, Messages
  <2>2. CASE Step(o, {"InformIntro"}, {}, {"working"}) /\ UNCHANGED net
    BY <1>1, <2>2, KeyQuiet
  <2> QED BY <1>1, <1>2, <2>1, <2>2, InformIntroDoes
<1>3. CASE handle_frame_decrypt(o)
  <2>1. PICK j \in BagToSet(jobs) :
          /\ j.do = "Process" /\ j.obj = o
          /\ \/ /\ Step(o, {"Process"}, {"Keepalive"}, {"rxInv", "txInv"})
             \/ /\ Step(o, {"Process"}, {"Encrypt"},
                        {"rxInv", "idle", "outq", "limSent", "state", "timer"})
                /\ sess'[o].state = "Established"
             \/ /\ Step(o, {"Process"}, {}, {"rxInv", "idle", "txInv"})
    BY <1>1, <1>3, ProcessDoes
  <2>2. sess[o].key # NoKey /\ BHasKey
    BY <1>1, <2>1 DEF OneKey
  <2>3. UNCHANGED net
    BY <1>1, <1>3, ProcessDoes
  <2>4. CASE Step(o, {"Process"}, {"Keepalive"}, {"rxInv", "txInv"})
    BY <1>1, <2>2, <2>3, <2>4, KeyQuiet
  <2>5. CASE /\ Step(o, {"Process"}, {"Encrypt"},
                     {"rxInv", "idle", "outq", "limSent", "state", "timer"})
             /\ sess'[o].state = "Established"
    <3>1. /\ sess'[o].key = sess[o].key
          /\ sess'[o].workbuf = sess[o].workbuf /\ sess'[o].job = sess[o].job
      BY <2>5 DEF Step, But, Field
    <3>2. \A k \in BagToSet(jobs') : k \in BagToSet(jobs) \/ k.do = "Encrypt"
      BY <2>5 DEF Step, Change
    <3> QED BY <1>1, <2>2, <2>3, <2>5, <3>1, <3>2, KeyStays
  <2>6. CASE Step(o, {"Process"}, {}, {"rxInv", "idle", "txInv"})
    BY <1>1, <2>3, <2>6, KeyQuiet
  <2> QED BY <2>1, <2>4, <2>5, <2>6
<1>4. CASE close(o)
  <2>1. /\ Step(o, {}, {"Keepalive"}, {"txInv", "job"}) /\ sess[o].job = "answered"
        /\ sess'[o].job = "none" /\ UNCHANGED net
    BY <1>1, <1>4, CloseDoes
  <2>2. sess[o].key # NoKey
    BY <1>1, <2>1 DEF OneKey
  <2> QED BY <1>1, <2>1, <2>2, KeyQuiet
<1>5. CASE send_keepalive(o)
  <2>1. /\ Step(o, {"Keepalive"}, {"Encrypt"}, {"outq"}) /\ On("Keepalive", o) /\ UNCHANGED net
    BY <1>1, <1>5, KeepaliveDoes
  <2>2. sess[o].key # NoKey
    BY <1>1, <2>1 DEF OneKey, On, Job
  <2> QED BY <1>1, <2>1, <2>2, KeyQuiet
<1>6. CASE TickRemove(o)
  <2>1. Step(o, {}, {}, {"state", "timer"}) /\ sess'[o].state = "Freed" /\ UNCHANGED net
    BY <1>1, <1>6, RemoveDoes DEF TickRemove, Counted
  <2> QED BY <1>1, <2>1, KeyQuiet
<1>7. CASE TickKeep(o)
  <2>1. /\ sess[o].state \in {"LIMSent", "Established"}
        /\ Step(o, {}, {"Encrypt"}, {"outq"}) /\ UNCHANGED net
    BY <1>1, <1>7, TickKeepDoes
  <2>2. sess[o].key # NoKey
    BY <1>1, <2>1 DEF OneKey
  <2> QED BY <1>1, <2>1, <2>2, KeyQuiet
<1>8. CASE handle_establish_timeout(o)
  <2>1. /\ Step(o, {}, {}, {"timer", "job"}) /\ UNCHANGED net
        /\ sess'[o].job = "answered" => sess[o].state = "Established"
    BY <1>1, <1>8, TimeoutDoes
  <2>2. /\ sess'[o].key = sess[o].key /\ sess'[o].state = sess[o].state
        /\ sess'[o].workbuf = sess[o].workbuf /\ sess'[o].outq = sess[o].outq
    BY <2>1 DEF Step, But, Field
  <2>3. \A k \in BagToSet(jobs') : k \in BagToSet(jobs)
    BY <2>1 DEF Step, Change
  <2> QED BY <1>1, <2>1, <2>2, <2>3, KeyStays
<1> QED
  BY <1>2, <1>3, <1>4, <1>5, <1>6, <1>7, <1>8 DEF Logic

-----------------------------------------------------------------------------
(* a is not asked to answer *)

\* Of a's objects, all but the first only see late datagrams.
LEMMA OnlyFirst ==
    ASSUME IInv, Under, NEW o \in Obj, o[1] = "a",
           \/ tracked["a"] = o \/ sess[o].job # "none" \/ sess[o].timer # "off"
           \/ \E do : On(do, o) /\ do \notin {"VerifyIntro", "InformIntro"}
           \/ \E j \in BagToSet(jobs) : j.obj = o /\ j.do \notin {"VerifyIntro", "InformIntro"}
    PROVE  o = A1
<1>1. o # A1 => Late(o)
  BY DEF Under, Opened
<1>2. tracked["a"] = o => o = A1
  BY Objects DEF Under, Progress
<1> QED
  BY <1>1, <1>2, UnderJobs DEF Late

LEMMA AskedStays ==
    ASSUME IInv, Under, NEW o \in Obj, NEW D, NEW S, NEW F, Step(o, D, S, F), tries' = tries,
           "GenIntro" \notin S,
           \A d \in BagToSet(net') : d \in BagToSet(net) \/ d.t # "INTRO",
           o[1] = "a" =>
             /\ \A e \in S : e \in OpenJobs
             /\ sess'[o].workbuf # Intro("b")
             /\ On("InformIntro", o)' => ~sess'[o].introbuf
             /\ On("VerifyIntro", o)' \/ On("InformIntro", o)' => sess'[o].state # "Initial"
             /\ o # A1 => Late(o)'
    PROVE  Opened'
<1>1. \A j \in BagToSet(jobs') : j \in BagToSet(jobs) \/ (j.obj = o /\ j.do \in S)
  BY DEF Step, Change
<1>2. \A p \in Obj : p # o => sess'[p] = sess[p] /\ \A e : On(e, p)' <=> On(e, p)
  BY DEF Step, Change
<1>3. tries'["a"] = 1 /\ \A j \in BagToSet(jobs') : j.do # "GenIntro"
  BY <1>1 DEF Under, Opened
<1>4. ASSUME NEW p \in Obj, p[1] = "a", p # A1 PROVE Late(p)'
  <2>1. CASE p = o
    BY <1>4, <2>1
  <2>2. CASE p # o
    BY <1>1, <1>2, <1>4, <2>2 DEF Under, Opened, Late
  <2> QED BY <2>1, <2>2
<1>5. AskedNothing'
  <2>1. \A j \in BagToSet(jobs') : j.obj[1] = "a" => j.do \in OpenJobs
    BY <1>1 DEF Under, Opened, AskedNothing
  <2>2. ASSUME NEW p \in Obj, p[1] = "a"
        PROVE  /\ sess'[p].workbuf # Intro("b")
               /\ On("InformIntro", p)' => ~sess'[p].introbuf
               /\ On("VerifyIntro", p)' \/ On("InformIntro", p)' => sess'[p].state # "Initial"
    <3>1. CASE p = o
      BY <2>2, <3>1
    <3>2. CASE p # o
      BY <1>2, <2>2, <3>2 DEF Under, Opened, AskedNothing
    <3> QED BY <3>1, <3>2
  <2>3. \A d \in BagToSet(net') : d.from = "b" => d.t # "INTRO"
    BY DEF Under, Opened, AskedNothing
  <2> QED BY <2>1, <2>2, <2>3 DEF AskedNothing
<1> QED
  BY <1>3, <1>4, <1>5 DEF Opened

LEMMA AskedQuiet ==
    ASSUME IInv, Under, NEW o \in Obj, NEW D, NEW S, NEW F, Step(o, D, S, F), tries' = tries,
           o[1] = "a" => o = A1, "introbuf" \notin F,
           "workbuf" \in F => sess'[o].workbuf.t # "INTRO",
           "state" \in F => sess'[o].state # "Initial",
           S \cap {"GenIntro", "VerifyIntro", "InformIntro"} = {},
           o[1] = "a" => S \subseteq OpenJobs,
           \A d \in BagToSet(net') : d \in BagToSet(net) \/ d.t # "INTRO"
    PROVE  Opened'
<1>1. /\ "state" \notin F => sess'[o].state = sess[o].state
      /\ "workbuf" \notin F => sess'[o].workbuf = sess[o].workbuf
      /\ sess'[o].introbuf = sess[o].introbuf
  BY DEF Step, But, Field
<1>2. \A e \in {"VerifyIntro", "InformIntro"} : On(e, o)' => On(e, o)
  <2>1. \A j \in BagToSet(jobs') : j \in BagToSet(jobs) \/ j.do \in S
    BY DEF Step, Change
  <2> QED BY <2>1 DEF On, Job
<1>3. o[1] = "a" =>
        /\ sess[o].workbuf # Intro("b")
        /\ On("InformIntro", o) => ~sess[o].introbuf
        /\ On("VerifyIntro", o) \/ On("InformIntro", o) => sess[o].state # "Initial"
  BY DEF Under, Opened, AskedNothing
<1>4. Intro("b").t = "INTRO"
  BY DEF Intro
<1>5. "GenIntro" \notin S /\ (o[1] = "a" => \A e \in S : e \in OpenJobs)
  OBVIOUS
<1>6. o[1] = "a" =>
        /\ sess'[o].workbuf # Intro("b")
        /\ On("InformIntro", o)' => ~sess'[o].introbuf
        /\ On("VerifyIntro", o)' \/ On("InformIntro", o)' => sess'[o].state # "Initial"
  BY <1>1, <1>2, <1>3, <1>4
<1> QED
  BY <1>5, <1>6, AskedStays

LEMMA AskedNothingHappens ==
    ASSUME Under, UNCHANGED <<sess, jobs, tries>>, \A d \in BagToSet(net') : d \in BagToSet(net)
    PROVE  Opened'
BY DEF Under, Opened, AskedNothing, Late, On

LEMMA RecvOpened ==
    ASSUME IInv, Answering, Under, NEW x \in Server, NEW d \in BagToSet(net),
           handle_recvfrom(x, d)
    PROVE  Opened'
<1>1. Counted /\ A1 \in Obj /\ sess[A1].state \notin {"None", "IntroAckSent"}
  BY KeyFacts DEF Answering, Under, Progress
<1>2. /\ IsABag(net') /\ \A e \in BagToSet(net') : e \in BagToSet(net)
      /\ d.from = Peer(x) /\ UNCHANGED tries
  BY <1>1, RecvNet
<1>3. PICK o \in Obj :
        /\ o[1] = x
        /\ \/ /\ tracked[x] = NoObj /\ o = Fresh(x) /\ sess[o].state = "None"
              /\ on_intro(o, create_session(o), d)
           \/ /\ tracked[x] = o /\ sess[o].state # "None"
              /\ \/ sess[o].state = "Initial" /\ on_intro(o, sess[o], d)
                 \/ sess[o].state = "IntroSent" /\ on_intro_ack(o, d)
                 \/ sess[o].state = "IntroAckSent" /\ on_session_start(o, d)
                 \/ sess[o].state \in FrameState /\ decrypt_frame(o, d)
                 \/ UNCHANGED <<sess, jobs, tracked, connected>>
  BY RecvCases
<1>4. x = "a" => d.t # "INTRO"
  BY <1>2 DEF Peer, Under, Opened, AskedNothing
<1>5. Intro("b").t = "INTRO" /\ Junk.t # "INTRO"
  BY Messages DEF Intro
<1>6. x = "a" /\ tracked[x] = o => o = A1
  BY <1>3, OnlyFirst
<1>7. ASSUME NEW s \in Session, on_intro(o, s, d), s.workbuf # Intro("b"),
             o[1] = "a" =>
               /\ ~On("VerifyIntro", o) /\ ~On("InformIntro", o)
               /\ o # A1 => /\ s = create_session(o)
                            /\ \A j \in BagToSet(jobs) : j.obj # o
      PROVE  Opened'
  <2>1. PICK S \in {{}, {"VerifyIntro"}} :
          /\ Step(o, {}, S, Field) /\ sess'[o].state \in {"Freed", "IntroRecv"}
          /\ sess'[o].workbuf \in {d, s.workbuf}
          /\ sess'[o].key = s.key /\ sess'[o].outq = s.outq
          /\ sess'[o].job = s.job /\ sess'[o].timer = s.timer
    BY <1>1, <1>2, <1>7, OnIntroDoes
  <2>2. \A j \in BagToSet(jobs') : j \in BagToSet(jobs) \/ j.do = "VerifyIntro"
    BY <2>1 DEF Step, Change
  <2>3. On("InformIntro", o)' <=> On("InformIntro", o)
    BY <2>1 DEF Step, Change
  <2>4. ASSUME o[1] = "a", o # A1 PROVE Late(o)'
    <3>1. \A j \in BagToSet(jobs') : j.obj = o => j.do = "VerifyIntro"
      BY <1>7, <2>2, <2>4
    <3> QED BY <1>7, <2>1, <2>4, <3>1, NoneIsNew DEF Late
  <2>5. "GenIntro" \notin S /\ \A e \in S : e \in OpenJobs
    BY <2>1 DEF OpenJobs
  <2>6. o[1] = "a" => sess'[o].workbuf # Intro("b")
    BY <1>3, <1>4, <1>5, <1>7, <2>1
  <2> QED BY <1>2, <1>7, <2>1, <2>3, <2>4, <2>5, <2>6, AskedStays
<1>8. CASE tracked[x] = NoObj
  <2>1. PICK s : s = create_session(o)
    OBVIOUS
  <2>2. sess[o].state = "None" /\ on_intro(o, s, d)
    BY <1>3, <1>8, <2>1, Objects
  <2>3. \A j \in BagToSet(jobs) : j.obj # o
    BY <2>2 DEF Answering, Unborn
  <2>4. \A e : ~On(e, o)
    BY <2>3 DEF On, Job
  <2>5. s \in Session /\ s.workbuf # Intro("b")
    BY <1>5, <2>1, NewSession
  <2> QED BY <1>7, <2>1, <2>2, <2>3, <2>4, <2>5
<1>9. CASE tracked[x] = o /\ sess[o].state = "Initial" /\ on_intro(o, sess[o], d)
  <2>1. sess[o] \in Session /\ (o[1] = "b" => Answerer(o))
    BY DEF IInv, Answering
  <2>2. o[1] = "a" /\ o = A1
    BY <1>3, <1>6, <1>9, <2>1, Objects DEF Answerer
  <2>3. /\ ~On("VerifyIntro", o) /\ ~On("InformIntro", o) /\ sess[o].workbuf # Intro("b")
    BY <1>9, <2>2 DEF Under, Opened, AskedNothing
  <2> QED BY <1>7, <1>9, <2>1, <2>2, <2>3
<1>10. CASE tracked[x] = o /\ sess[o].state = "IntroSent" /\ on_intro_ack(o, d)
  <2>1. ObjOK(o)
    BY DEF IInv
  <2>2. o[1] = "a" /\ o = A1
    BY <1>3, <1>6, <1>10, <2>1, Objects DEF ObjOK
  <2>3. \/ Step(o, {}, {}, {"state", "timer"}) /\ sess'[o].state = "Freed"
        \/ Step(o, {}, {"VerifyIntroAck"}, {"workbuf", "working"}) /\ sess'[o].workbuf = d
    BY <1>1, <1>2, <1>10, OnAckDoes
  <2>4. {"VerifyIntroAck"} \subseteq OpenJobs
    BY DEF OpenJobs
  <2> QED BY <1>2, <1>3, <1>4, <2>2, <2>3, <2>4, AskedQuiet
<1>11. CASE tracked[x] = o /\ sess[o].state = "IntroAckSent" /\ on_session_start(o, d)
  <2>1. o[1] = "b"
    BY <1>1, <1>3, <1>6, <1>11, Objects
  <2>2. CASE UNCHANGED <<sess, jobs>>
    BY <1>2, <2>2, AskedNothingHappens
  <2>3. CASE Step(o, {}, {"VerifyStart"}, {"workbuf", "working"})
    BY <1>2, <2>1, <2>3, AskedStays
  <2> QED BY <1>1, <1>2, <1>11, <2>2, <2>3, OnStartDoes
<1>12. CASE tracked[x] = o /\ decrypt_frame(o, d)
  <2>1. Step(o, {}, {"Decrypt"}, {})
    BY <1>1, <1>2, <1>12, DecryptFrameDoes
  <2>2. {"Decrypt"} \subseteq OpenJobs
    BY DEF OpenJobs
  <2> QED BY <1>2, <1>3, <1>6, <1>12, <2>1, <2>2, AskedQuiet
<1>13. CASE UNCHANGED <<sess, jobs, tracked, connected>>
  BY <1>2, <1>13, AskedNothingHappens
<1> QED
  BY <1>3, <1>8, <1>9, <1>10, <1>11, <1>12, <1>13

\* verify_intro fails at a, since nobody sends it an INTRO.
LEMMA WorkerOpened ==
    ASSUME IInv, Answering, Under, NEW o \in Obj, Worker(o)
    PROVE  Opened'
<1>1. Counted /\ UNCHANGED tries
  BY DEF Answering, Worker
<1>2. ASSUME NEW do, On(do, o), do \notin {"VerifyIntro", "InformIntro"}, o[1] = "a"
      PROVE  o = A1 /\ do \in OpenJobs
  BY <1>2, OnlyFirst, UnderJobs
<1>3. {"GenStart", "EnterStartSent", "Encrypt", "Process"} \subseteq OpenJobs
  BY DEF OpenJobs
<1>4. ~gen_intro(o)
  BY <1>1, GenIntroDoes, UnderJobs
<1>5. CASE verify_intro(o)
  <2>1. /\ Step(o, {"VerifyIntro"}, {"InformIntro"}, {"introbuf"}) /\ On("VerifyIntro", o)
        /\ sess'[o].introbuf <=> sess[o].introbuf /\ sess[o].workbuf = Intro(Peer(o[1]))
        /\ UNCHANGED net
    BY <1>1, <1>5, VerifyIntroDoes
  <2>2. /\ sess'[o].state = sess[o].state /\ sess'[o].workbuf = sess[o].workbuf
        /\ sess'[o].key = sess[o].key /\ sess'[o].outq = sess[o].outq
        /\ sess'[o].job = sess[o].job /\ sess'[o].timer = sess[o].timer
    BY <2>1 DEF Step, But, Field
  <2>3. ASSUME o[1] = "a"
        PROVE  /\ sess'[o].workbuf # Intro("b") /\ ~sess'[o].introbuf
               /\ sess'[o].state # "Initial"
    BY <2>1, <2>2, <2>3 DEF Under, Opened, AskedNothing, Peer
  <2>4. \A j \in BagToSet(jobs') : j \in BagToSet(jobs) \/ j.do = "InformIntro"
    BY <2>1 DEF Step, Change
  <2>5. ASSUME o[1] = "a", o # A1 PROVE Late(o)'
    BY <2>2, <2>4, <2>5 DEF Under, Opened, Late
  <2>6. "InformIntro" \in OpenJobs
    BY DEF OpenJobs
  <2> QED BY <1>1, <2>1, <2>3, <2>5, <2>6, AskedStays
<1>6. CASE verify_introack(o)
  <2>1. On("VerifyIntroAck", o) /\ UNCHANGED net
    BY <1>1, <1>6, VerifyAckDoes
  <2>2. \/ /\ Step(o, {"VerifyIntroAck"}, {"GenStart"},
                   {"state", "idle", "token", "workbuf", "working"})
           /\ sess'[o].state = "IntroAckRecv" /\ sess'[o].workbuf = Junk
        \/ Step(o, {"VerifyIntroAck"}, {}, {"working"})
    BY <1>1, <1>6, VerifyAckDoes
  <2> QED BY <1>1, <1>2, <1>3, <2>1, <2>2, AskedQuiet, Messages
<1>7. CASE verify_session_start(o)
  <2>1. o[1] = "b"
    BY <1>7, VerifyStartOneKey
  <2>2. PICK S, F : Step(o, {"VerifyStart"}, S, F) /\ S \subseteq {"Encrypt", "EnterLIMSent"} /\ UNCHANGED net
    BY <1>1, <1>7, VerifyStartDoes
  <2> QED BY <1>1, <2>1, <2>2, AskedStays
<1>8. ASSUME NEW do, NEW st, EnterState(o, do, st), do \notin {"VerifyIntro", "InformIntro"},
             st # "Initial"
      PROVE  Opened'
  <2>1. /\ On(do, o) /\ Step(o, {do}, {"Encrypt"}, {"state", "idle"})
        /\ sess'[o].state = st /\ UNCHANGED net
    BY <1>1, <1>8, EnterDoes
  <2> QED BY <1>1, <1>2, <1>3, <1>8, <2>1, AskedQuiet
<1>9. CASE EncryptOutboundFrames(o)
  <2>1. /\ Step(o, {"Encrypt"}, {}, {"outq"}) /\ On("Encrypt", o)
        /\ \A d \in BagToSet(net') : d \in BagToSet(net) \/
             \E p \in sess[o].outq : d = Sealed(o[1], sess[o].key, p)
    BY <1>1, <1>9, EncryptDoes
  <2>2. \A d \in BagToSet(net') : d \in BagToSet(net) \/ d.t # "INTRO"
    BY <2>1 DEF Sealed
  <2> QED BY <1>1, <1>2, <2>1, <2>2, AskedQuiet
<1>10. CASE hmac_then_decrypt(o)
  <2>1. /\ Step(o, {"Decrypt"}, {"Process"}, {}) /\ UNCHANGED net
        /\ \E j \in BagToSet(jobs) : j.do = "Decrypt" /\ j.obj = o
    BY <1>1, <1>10, DecryptDoes
  <2>2. o[1] = "a" => o = A1
    BY <2>1, OnlyFirst
  <2> QED BY <1>1, <1>3, <2>1, <2>2, AskedQuiet
<1>11. CASE gen_session_start(o)
  <2>1. /\ Step(o, {"GenStart"}, {"EnterStartSent"}, {"key", "working"}) /\ On("GenStart", o)
        /\ Sends(Start(o[1], sess[o].token, nonces[o[1]] + 1))
    BY <1>1, <1>11, GenStartDoes
  <2>2. \A d \in BagToSet(net') : d \in BagToSet(net) \/ d.t # "INTRO"
    BY <2>1, SendsAdds DEF Start
  <2> QED BY <1>1, <1>2, <1>3, <2>1, <2>2, AskedQuiet
<1>12. CASE gen_introack(o)
  <2>1. On("GenIntroAck", o) /\ \E S \in {{}, {"PutSession"}} : \E F : Step(o, {"GenIntroAck"}, S, F)
    BY <1>1, <1>12, GenAckDoes
  <2>2. o[1] # "a" /\ UNCHANGED net
    BY <1>1, <1>2, <1>12, <2>1, GenAckDoes DEF OpenJobs
  <2> QED BY <1>1, <2>1, <2>2, AskedStays
<1>13. CASE put_session(o)
  <2>1. /\ On("PutSession", o) /\ Step(o, {"PutSession"}, {"EnterIntroAckSent"}, {"idle"})
        /\ Sends(IntroAck(o[1], o))
    BY <1>1, <1>13, PutDoes
  <2>2. o[1] # "a"
    BY <1>2, <2>1 DEF OpenJobs
  <2>3. \A d \in BagToSet(net') : d \in BagToSet(net) \/ d.t # "INTRO"
    BY <2>1, SendsAdds DEF IntroAck
  <2> QED BY <1>1, <2>1, <2>2, <2>3, AskedStays
<1> QED
  BY <1>4, <1>5, <1>6, <1>7, <1>8, <1>9, <1>10, <1>11, <1>12, <1>13 DEF Worker

LEMMA LogicOpened ==
    ASSUME IInv, Answering, Under, NEW o \in Obj, Logic(o)
    PROVE  Opened'
<1>1. Counted /\ UNCHANGED tries
  BY DEF Answering, Logic
<1>2. {"Keepalive", "Encrypt"} \subseteq OpenJobs
  BY DEF OpenJobs
<1>3. CASE handle_verify_intro(o)
  <2>1. /\ On("InformIntro", o) /\ UNCHANGED net
        /\ \/ /\ sess[o].introbuf
              /\ Step(o, {"InformIntro"}, {"GenIntroAck"}, {"workbuf", "working"})
           \/ Step(o, {"InformIntro"}, {}, {"working"})
    BY <1>1, <1>3, InformIntroDoes
  <2>2. CASE o[1] = "a"
    <3>1. Step(o, {"InformIntro"}, {}, {"working"})
      BY <2>1, <2>2 DEF Under, Opened, AskedNothing
    <3>2. /\ sess'[o].state = sess[o].state /\ sess'[o].workbuf = sess[o].workbuf
          /\ sess'[o].key = sess[o].key /\ sess'[o].outq = sess[o].outq
          /\ sess'[o].job = sess[o].job /\ sess'[o].timer = sess[o].timer
          /\ sess'[o].introbuf = sess[o].introbuf
      BY <3>1 DEF Step, But, Field
    <3>3. \A j \in BagToSet(jobs') : j \in BagToSet(jobs)
      BY <3>1 DEF Step, Change
    <3>4. \A e : On(e, o)' => On(e, o)
      BY <3>3 DEF On
    <3>5. o # A1 => Late(o)'
      BY <2>2, <3>2, <3>3 DEF Under, Opened, Late
    <3>6. /\ sess'[o].workbuf # Intro("b")
          /\ On("InformIntro", o)' => ~sess'[o].introbuf
          /\ On("VerifyIntro", o)' \/ On("InformIntro", o)' => sess'[o].state # "Initial"
      BY <2>2, <3>2, <3>4 DEF Under, Opened, AskedNothing
    <3> QED BY <1>1, <2>1, <3>1, <3>5, <3>6, AskedStays
  <2>3. CASE o[1] = "b"
    BY <1>1, <2>1, <2>3, AskedStays
  <2> QED BY <2>2, <2>3, Objects
<1>4. CASE handle_frame_decrypt(o)
  <2>1. PICK S, F :
          /\ Step(o, {"Process"}, S, F) /\ S \subseteq {"Keepalive", "Encrypt"}
          /\ F \cap {"introbuf", "workbuf"} = {}
          /\ "state" \in F => sess'[o].state = "Established"
    BY <1>1, <1>4, ProcessDoes
  <2>2. UNCHANGED net /\ \E j \in BagToSet(jobs) : j.do = "Process" /\ j.obj = o
    BY <1>1, <1>4, ProcessDoes
  <2>3. o[1] = "a" => o = A1
    BY <2>2, OnlyFirst
  <2>4. S \cap {"GenIntro", "VerifyIntro", "InformIntro"} = {} /\ S \subseteq OpenJobs
    BY <1>2, <2>1
  <2> QED BY <1>1, <2>1, <2>2, <2>3, <2>4, AskedQuiet
<1>5. CASE close(o)
  <2>1. /\ Step(o, {}, {"Keepalive"}, {"txInv", "job"}) /\ sess[o].job = "answered"
        /\ UNCHANGED net
    BY <1>1, <1>5, CloseDoes
  <2>2. o[1] = "a" => o = A1
    BY <2>1, OnlyFirst
  <2> QED BY <1>1, <1>2, <2>1, <2>2, AskedQuiet
<1>6. CASE send_keepalive(o)
  <2>1. Step(o, {"Keepalive"}, {"Encrypt"}, {"outq"}) /\ On("Keepalive", o) /\ UNCHANGED net
    BY <1>1, <1>6, KeepaliveDoes
  <2>2. o[1] = "a" => o = A1
    BY <2>1, OnlyFirst
  <2> QED BY <1>1, <1>2, <2>1, <2>2, AskedQuiet
<1>7. CASE TickRemove(o)
  <2>1. /\ Step(o, {}, {}, {"state", "timer"}) /\ sess'[o].state = "Freed" /\ UNCHANGED net
        /\ tracked[o[1]] = o
    BY <1>1, <1>7, RemoveDoes DEF TickRemove, Counted
  <2>2. o[1] = "a" => o = A1
    BY <2>1, OnlyFirst
  <2> QED BY <1>1, <2>1, <2>2, AskedQuiet
<1>8. CASE TickKeep(o)
  <2>1. Step(o, {}, {"Encrypt"}, {"outq"}) /\ UNCHANGED net /\ tracked[o[1]] = o
    BY <1>1, <1>8, TickKeepDoes
  <2>2. o[1] = "a" => o = A1
    BY <2>1, OnlyFirst
  <2> QED BY <1>1, <1>2, <2>1, <2>2, AskedQuiet
<1>9. CASE handle_establish_timeout(o)
  <2>1. Step(o, {}, {}, {"timer", "job"}) /\ UNCHANGED net /\ sess[o].timer # "off"
    BY <1>1, <1>9, TimeoutDoes
  <2>2. o[1] = "a" => o = A1
    BY <2>1, OnlyFirst
  <2> QED BY <1>1, <2>1, <2>2, AskedQuiet
<1> QED
  BY <1>3, <1>4, <1>5, <1>6, <1>7, <1>8, <1>9 DEF Logic

-----------------------------------------------------------------------------
(* How far the attempt has come *)

\* Only steps of a's first object count.
LEMMA ProgressStays ==
    ASSUME Progress, NEW o \in Obj, NEW D, NEW S, NEW F, Step(o, D, S, F), o # A1,
           tracked'["a"] = tracked["a"], nonces'["a"] = nonces["a"]
    PROVE  Progress'
<1>1. sess'[A1] = sess[A1]
  BY KeyFacts DEF Step
<1>2. \A e : (On(e, A1)' <=> On(e, A1)) /\ (Single(e, A1) => Single(e, A1)')
  BY DEF Step, Change
<1>3. \A j \in BagToSet(jobs') : j.obj = A1 => j \in BagToSet(jobs)
  BY DEF Step, Change
<1> QED
  BY <1>1, <1>2, <1>3 DEF Progress, AHasKey

Marks == {"EnterIntroSent", "VerifyIntroAck", "GenStart", "EnterStartSent"}

LEMMA ProgressQuiet ==
    ASSUME Progress, NEW D, NEW S, NEW F, Step(A1, D, S, F), sess[A1] \in Session,
           F \cap {"state", "key", "workbuf"} = {}, D \cap Marks = {}, S \cap Marks = {},
           "Decrypt" \in S \/ "Process" \in S => sess[A1].state \in FrameState \cup {"Freed"},
           On("EnterIntroSent", A1) => ~sess'[A1].idle /\ ~sess'[A1].txInv,
           tracked'["a"] = tracked["a"], nonces'["a"] = nonces["a"]
    PROVE  Progress'
<1>1. /\ sess'[A1].state = sess[A1].state /\ sess'[A1].key = sess[A1].key
      /\ sess'[A1].workbuf = sess[A1].workbuf
  BY DEF Step, But, Field
<1>2. \A e \in Marks : (On(e, A1)' <=> On(e, A1)) /\ (Single(e, A1) => Single(e, A1)')
  BY DEF Step, Change
<1>3. \A j \in BagToSet(jobs') : j \in BagToSet(jobs) \/ (j.obj = A1 /\ j.do \in S)
  BY DEF Step, Change
<1>4. \A j \in BagToSet(jobs') :
        j.obj = A1 /\ j.do \in {"Decrypt", "Process"} => sess'[A1].state \in FrameState \cup {"Freed"}
  BY <1>1, <1>3 DEF Progress
<1>5. AHasKey' <=> AHasKey
  BY <1>1 DEF AHasKey
<1> QED
  BY <1>1, <1>2, <1>4, <1>5 DEF Progress, Marks

LEMMA RecvProgress ==
    ASSUME IInv, Answering, Under, NEW x \in Server, NEW d \in BagToSet(net),
           handle_recvfrom(x, d)
    PROVE  Progress'
<1>1. /\ Counted /\ A1 \in Obj /\ A1[1] = "a" /\ Progress /\ sess[A1] \in Session
      /\ sess[A1].state \notin {"None", "IntroAckSent"}
  BY KeyFacts DEF Answering, Under, Progress, IInv
<1>2. IsABag(net') /\ UNCHANGED nonces /\ (d.t = "FRAME" => AHasKey)
  BY <1>1, RecvNet DEF Under, OneKey, FrameKey
<1>3. PICK o \in Obj :
        /\ o[1] = x
        /\ \/ /\ tracked[x] = NoObj /\ o = Fresh(x) /\ sess[o].state = "None"
              /\ on_intro(o, create_session(o), d)
           \/ /\ tracked[x] = o /\ sess[o].state # "None"
              /\ \/ sess[o].state = "Initial" /\ on_intro(o, sess[o], d)
                 \/ sess[o].state = "IntroSent" /\ on_intro_ack(o, d)
                 \/ sess[o].state = "IntroAckSent" /\ on_session_start(o, d)
                 \/ sess[o].state \in FrameState /\ decrypt_frame(o, d)
                 \/ UNCHANGED <<sess, jobs, tracked, connected>>
  BY RecvCases
<1>4. tracked[x] = o => o = A1 \/ o[1] = "b"
  BY <1>3, OnlyFirst, Objects
<1>5. CASE tracked[x] = NoObj
  <2>1. PICK s : s = create_session(o)
    OBVIOUS
  <2>2. sess[o].state = "None" /\ on_intro(o, s, d) /\ s \in Session
    BY <1>3, <1>5, <2>1, Objects, NewSession
  <2>3. o # A1 /\ UNCHANGED tracked /\ \E S : Step(o, {}, S, Field)
    BY <1>1, <1>2, <2>2, OnIntroDoes
  <2> QED BY <1>1, <1>2, <2>3, ProgressStays
<1>6. CASE tracked[x] = o /\ sess[o].state = "Initial" /\ on_intro(o, sess[o], d)
  <2>1. o = A1
    BY <1>4, <1>6 DEF Answering, Answerer
  <2>2. ~AHasKey /\ \A do \in {"VerifyIntroAck", "GenStart", "EnterStartSent"} : ~On(do, A1)
    BY <1>1, <1>6, <2>1 DEF Progress
  <2>3. /\ UNCHANGED tracked /\ sess'[A1].key = sess[A1].key
        /\ sess'[A1].txInv = sess[A1].txInv
        /\ Step(A1, {}, {"VerifyIntro"}, Field) /\ sess'[A1].state = "IntroRecv"
        /\ ~sess'[A1].idle
    BY <1>1, <1>2, <1>6, <2>1, <2>2, OnIntroDoes
  <2>4. \A e \in Marks : (On(e, A1)' <=> On(e, A1)) /\ (Single(e, A1) => Single(e, A1)')
    BY <2>3 DEF Step, Change, Marks
  <2>5. \A j \in BagToSet(jobs') : ~(j.obj = A1 /\ j.do \in {"Decrypt", "Process"})
    BY <1>1, <1>6, <2>1, <2>3 DEF Step, Change, Progress, FrameState
  <2>6. ~AHasKey'
    BY <2>2, <2>3 DEF AHasKey
  <2> QED BY <1>1, <1>2, <2>2, <2>3, <2>4, <2>5, <2>6 DEF Progress, Marks, FrameState
<1>7. CASE tracked[x] = o /\ sess[o].state = "IntroSent" /\ on_intro_ack(o, d)
  <2>1. o = A1
    BY <1>3, <1>4, <1>7, Objects DEF IInv, ObjOK
  <2>2. /\ ~AHasKey
        /\ \A do \in {"EnterIntroSent", "GenStart", "EnterStartSent"} : ~On(do, A1)
    BY <1>1, <1>7, <2>1 DEF Progress
  <2>3. /\ Step(A1, {}, {"VerifyIntroAck"}, {"workbuf", "working"}) /\ UNCHANGED tracked
    BY <1>1, <1>2, <1>7, <2>1, <2>2, OnAckDoes
  <2>4. sess'[A1].state = "IntroSent" /\ sess'[A1].key = sess[A1].key
    BY <1>7, <2>1, <2>3 DEF Step, But, Field
  <2>5. \A e \in {"EnterIntroSent", "GenStart", "EnterStartSent"} : ~On(e, A1)'
    BY <2>2, <2>3 DEF Step, Change
  <2>6. \A j \in BagToSet(jobs') : ~(j.obj = A1 /\ j.do \in {"Decrypt", "Process"})
    BY <1>1, <1>7, <2>1, <2>3 DEF Step, Change, Progress, FrameState
  <2>7. ~AHasKey'
    BY <2>2, <2>4 DEF AHasKey
  <2> QED BY <1>1, <1>2, <2>2, <2>3, <2>4, <2>5, <2>6, <2>7 DEF Progress, FrameState
<1>8. CASE tracked[x] = o /\ sess[o].state = "IntroAckSent" /\ on_session_start(o, d)
  <2>1. o # A1 /\ UNCHANGED tracked
    BY <1>1, <1>2, <1>8, OnStartDoes
  <2>2. CASE UNCHANGED <<sess, jobs>>
    BY <1>1, <1>2, <2>1, <2>2 DEF Progress, On, Single, AHasKey
  <2>3. CASE Step(o, {}, {"VerifyStart"}, {"workbuf", "working"})
    BY <1>1, <1>2, <2>1, <2>3, ProgressStays
  <2> QED BY <1>1, <1>2, <1>8, <2>2, <2>3, OnStartDoes
<1>9. CASE tracked[x] = o /\ sess[o].state \in FrameState /\ decrypt_frame(o, d)
  <2>1. Step(o, {}, {"Decrypt"}, {}) /\ UNCHANGED <<sess, tracked>>
    BY <1>1, <1>2, <1>9, DecryptFrameDoes
  <2>2. CASE o = A1
    <3>1. On("EnterIntroSent", A1) => ~sess'[A1].idle /\ ~sess'[A1].txInv
      BY <1>1, <2>1 DEF Progress
    <3> QED BY <1>1, <1>2, <1>9, <2>1, <2>2, <3>1, ProgressQuiet DEF Marks
  <2>3. CASE o # A1
    BY <1>1, <1>2, <2>1, <2>3, ProgressStays
  <2> QED BY <2>2, <2>3
<1>10. CASE UNCHANGED <<sess, jobs, tracked, connected>>
  BY <1>1, <1>2, <1>10 DEF Progress, On, Single, AHasKey
<1> QED
  BY <1>3, <1>5, <1>6, <1>7, <1>8, <1>9, <1>10

LEMMA WorkerProgress ==
    ASSUME IInv, Answering, Under, NEW o \in Obj, Worker(o)
    PROVE  Progress'
<1>1. /\ Counted /\ A1 \in Obj /\ A1[1] = "a" /\ Progress /\ sess[A1] \in Session
      /\ On("EnterIntroSent", A1) => ~sess[A1].idle /\ ~sess[A1].txInv
  BY KeyFacts DEF Answering, Under, Progress, IInv
<1>2. ASSUME NEW D, NEW S, NEW F, Step(o, D, S, F), UNCHANGED <<tracked, nonces>>,
             F \cap {"state", "key", "workbuf", "idle", "txInv"} = {} \/ o # A1,
             D \cap Marks = {} \/ o # A1, S \cap Marks = {} \/ o # A1,
             "Decrypt" \in S \/ "Process" \in S => sess[o].state \in FrameState \cup {"Freed"}
      PROVE  Progress'
  <2>1. CASE o # A1
    BY <1>1, <1>2, <2>1, ProgressStays
  <2>2. CASE o = A1
    <3>1. On("EnterIntroSent", A1) => ~sess'[A1].idle /\ ~sess'[A1].txInv
      BY <1>1, <1>2, <2>2 DEF Step, But, Field
    <3> QED BY <1>1, <1>2, <2>2, <3>1, ProgressQuiet
  <2> QED BY <2>1, <2>2
<1>3. ASSUME NEW do, On(do, o), do \notin {"VerifyIntro", "InformIntro"}, o[1] = "a"
      PROVE  o = A1 /\ do \in OpenJobs
  BY <1>3, OnlyFirst, UnderJobs
<1>4. ~gen_intro(o)
  BY <1>1, GenIntroDoes, UnderJobs
<1>5. CASE verify_intro(o) /\ UNCHANGED <<tracked, nonces>>
  <2>1. Step(o, {"VerifyIntro"}, {"InformIntro"}, {"introbuf"})
    BY <1>1, <1>5, VerifyIntroDoes
  <2> QED BY <1>2, <1>5, <2>1 DEF Marks
<1>6. CASE verify_introack(o) /\ UNCHANGED <<tracked, nonces>>
  <2>1. On("VerifyIntroAck", o) /\ o = A1
    BY <1>1, <1>6, VerifyAckDoes, UnderJobs DEF OpenerJobs
  <2>2. CASE /\ sess[A1].workbuf.t = "INTROACK" /\ sess'[A1].workbuf = Junk
             /\ sess'[A1].state = "IntroAckRecv"
             /\ Step(A1, {"VerifyIntroAck"}, {"GenStart"},
                     {"state", "idle", "token", "workbuf", "working"})
    <3>1. /\ ~AHasKey /\ ~On("EnterIntroSent", A1) /\ ~On("GenStart", A1)
          /\ ~On("EnterStartSent", A1)
      BY <1>1, <2>1, <2>2 DEF Progress
    <3>2. sess'[A1].key = sess[A1].key /\ sess[A1].state # "Freed"
      BY <2>2 DEF Step, But, Field
    <3>3. ~On("EnterIntroSent", A1)' /\ ~On("EnterStartSent", A1)' /\ Single("GenStart", A1)'
      BY <2>2, <3>1 DEF Step, Change
    <3>4. \A j \in BagToSet(jobs') : ~(j.obj = A1 /\ j.do \in {"Decrypt", "Process"})
      BY <1>1, <2>2, <3>1, <3>2 DEF Step, Change, Progress
    <3>5. ~AHasKey'
      BY <3>1, <3>2 DEF AHasKey
    <3> QED BY <1>1, <1>6, <2>2, <3>1, <3>2, <3>3, <3>4, <3>5, Messages DEF Progress, FrameState
  <2>3. CASE Step(A1, {"VerifyIntroAck"}, {}, {"working"})
    <3>1. /\ sess'[A1].key = sess[A1].key /\ sess'[A1].state = sess[A1].state
          /\ sess'[A1].idle = sess[A1].idle /\ sess'[A1].txInv = sess[A1].txInv
          /\ sess'[A1].workbuf = sess[A1].workbuf
      BY <2>3 DEF Step, But, Field
    <3>2. \A e : (On(e, A1)' => On(e, A1))
      BY <2>3 DEF Step, Change, On
    <3>3. \A e \in Marks : e # "VerifyIntroAck" /\ Single(e, A1) => Single(e, A1)'
      BY <2>3 DEF Step, Change
    <3>4. \A j \in BagToSet(jobs') : j \in BagToSet(jobs)
      BY <2>3 DEF Step, Change
    <3>5. AHasKey' <=> AHasKey
      BY <3>1 DEF AHasKey
    <3> QED BY <1>1, <1>6, <3>1, <3>2, <3>3, <3>4, <3>5 DEF Progress, Marks
  <2> QED BY <1>1, <1>6, <2>1, <2>2, <2>3, VerifyAckDoes
<1>7. CASE verify_session_start(o) /\ UNCHANGED <<tracked, nonces>>
  <2>1. o[1] = "b" /\ o # A1
    BY <1>1, <1>7, VerifyStartOneKey
  <2>2. \E S, F : Step(o, {"VerifyStart"}, S, F)
    BY <1>1, <1>7, VerifyStartDoes
  <2> QED BY <1>1, <1>7, <2>1, <2>2, ProgressStays
<1>8. CASE EnterState(o, "EnterIntroSent", "IntroSent") /\ UNCHANGED <<tracked, nonces>>
  <2>1. o = A1
    BY <1>1, <1>8, EnterDoes, UnderJobs DEF OpenerJobs
  <2>2. /\ On("EnterIntroSent", A1) /\ sess'[A1].state = "IntroSent"
        /\ Step(A1, {"EnterIntroSent"}, {"Encrypt"}, {"state", "idle"})
    BY <1>1, <1>8, <2>1, EnterDoes
  <2>3. /\ Single("EnterIntroSent", A1) /\ ~AHasKey
        /\ sess[A1].state \in {"Initial", "IntroRecv"}
        /\ \A do \in {"VerifyIntroAck", "GenStart", "EnterStartSent"} : ~On(do, A1)
    BY <1>1, <2>2 DEF Progress
  <2>4. sess'[A1].key = sess[A1].key
    BY <2>2 DEF Step, But, Field
  <2>5. \A e \in Marks : ~On(e, A1)'
    BY <2>2, <2>3 DEF Step, Change, Marks
  <2>6. \A j \in BagToSet(jobs') : ~(j.obj = A1 /\ j.do \in {"Decrypt", "Process"})
    BY <1>1, <2>2, <2>3 DEF Step, Change, Progress, FrameState
  <2>7. ~AHasKey'
    BY <2>3, <2>4 DEF AHasKey
  <2> QED BY <1>1, <1>8, <2>2, <2>3, <2>5, <2>6, <2>7 DEF Progress, Marks, FrameState
<1>9. CASE EnterState(o, "EnterIntroAckSent", "IntroAckSent") /\ UNCHANGED <<tracked, nonces>>
  <2>1. /\ On("EnterIntroAckSent", o) /\ Step(o, {"EnterIntroAckSent"}, {"Encrypt"}, {"state", "idle"})
    BY <1>1, <1>9, EnterDoes
  <2>2. o # A1
    BY <1>1, <1>3, <2>1 DEF OpenJobs
  <2> QED BY <1>1, <1>9, <2>1, <2>2, ProgressStays
<1>10. CASE EnterState(o, "EnterStartSent", "SessionStartSent") /\ UNCHANGED <<tracked, nonces>>
  <2>1. o = A1
    <3>1. On("EnterStartSent", o)
      BY <1>1, <1>10, EnterDoes
    <3>2. o[1] # "b"
      BY <3>1 DEF Answering, Answerer
    <3> QED BY <1>3, <3>1, <3>2, Objects
  <2>2. /\ On("EnterStartSent", A1) /\ sess'[A1].state = "SessionStartSent"
        /\ Step(A1, {"EnterStartSent"}, {"Encrypt"}, {"state", "idle"})
    BY <1>1, <1>10, <2>1, EnterDoes
  <2>3. /\ Single("EnterStartSent", A1) /\ AHasKey
        /\ sess[A1].state = "IntroAckRecv"
        /\ \A do \in {"EnterIntroSent", "GenStart"} : ~On(do, A1)
    BY <1>1, <2>2 DEF Progress, Step
  <2>4. /\ sess'[A1].key = sess[A1].key /\ sess'[A1].workbuf = sess[A1].workbuf
    BY <2>2 DEF Step, But, Field
  <2>5. \A e \in {"EnterIntroSent", "GenStart", "EnterStartSent"} : ~On(e, A1)'
    BY <2>2, <2>3 DEF Step, Change
  <2>6. AHasKey'
    BY <2>3, <2>4 DEF AHasKey
  <2> QED BY <1>1, <1>10, <2>2, <2>3, <2>4, <2>5, <2>6 DEF Progress, FrameState
<1>11. CASE EnterState(o, "EnterLIMSent", "LIMSent") /\ UNCHANGED <<tracked, nonces>>
  <2>1. /\ On("EnterLIMSent", o) /\ Step(o, {"EnterLIMSent"}, {"Encrypt"}, {"state", "idle"})
    BY <1>1, <1>11, EnterDoes
  <2>2. o # A1
    BY <1>1, <1>3, <2>1 DEF OpenJobs
  <2> QED BY <1>1, <1>11, <2>1, <2>2, ProgressStays
<1>12. CASE EncryptOutboundFrames(o) /\ UNCHANGED <<tracked, nonces>>
  <2>1. Step(o, {"Encrypt"}, {}, {"outq"})
    BY <1>1, <1>12, EncryptDoes
  <2> QED BY <1>2, <1>12, <2>1 DEF Marks
<1>13. CASE hmac_then_decrypt(o) /\ UNCHANGED <<tracked, nonces>>
  <2>1. /\ Step(o, {"Decrypt"}, {"Process"}, {})
        /\ \E j \in BagToSet(jobs) : j.do = "Decrypt" /\ j.obj = o
    BY <1>1, <1>13, DecryptDoes
  <2>2. o = A1 => sess[o].state \in FrameState \cup {"Freed"}
    BY <1>1, <2>1 DEF Progress
  <2>3. CASE o # A1
    BY <1>1, <1>13, <2>1, <2>3, ProgressStays
  <2> QED BY <1>2, <1>13, <2>1, <2>2, <2>3 DEF Marks
<1>14. CASE gen_session_start(o) /\ UNCHANGED tracked
  <2>1. On("GenStart", o) /\ o = A1
    BY <1>1, <1>14, GenStartDoes, UnderJobs DEF OpenerJobs
  <2>2. /\ Step(A1, {"GenStart"}, {"EnterStartSent"}, {"key", "working"})
        /\ nonces' = [nonces EXCEPT !["a"] = nonces["a"] + 1]
        /\ sess'[A1].key = <<sess[A1].token, nonces["a"] + 1>>
    BY <1>1, <1>14, <2>1, GenStartDoes
  <2>3. /\ Single("GenStart", A1) /\ ~AHasKey /\ sess[A1].state = "IntroAckRecv"
        /\ sess[A1].workbuf.t # "INTROACK" /\ nonces["a"] = 0
        /\ ~On("EnterIntroSent", A1) /\ ~On("EnterStartSent", A1)
    BY <1>1, <2>1, <2>2 DEF Progress, Step
  <2>4. nonces \in [Server -> Nat]
    BY DEF IInv, Tables
  <2>5. nonces'["a"] = 1 /\ sess'[A1].key = <<sess[A1].token, 1>>
    BY <2>2, <2>3, <2>4 DEF Server
  <2>6. AHasKey'
    BY <2>5, KeyFacts DEF AHasKey
  <2>7. sess'[A1].state = "IntroAckRecv" /\ sess'[A1].workbuf = sess[A1].workbuf
    BY <2>2, <2>3 DEF Step, But, Field
  <2>8. ~On("EnterIntroSent", A1)' /\ ~On("GenStart", A1)' /\ Single("EnterStartSent", A1)'
    BY <2>2, <2>3 DEF Step, Change
  <2>9. \A j \in BagToSet(jobs') : ~(j.obj = A1 /\ j.do \in {"Decrypt", "Process"})
    BY <1>1, <2>2, <2>3 DEF Step, Change, Progress, FrameState
  <2> QED BY <1>1, <1>14, <2>3, <2>5, <2>6, <2>7, <2>8, <2>9 DEF Progress, FrameState
<1>15. CASE gen_introack(o) /\ UNCHANGED nonces
  <2>1. On("GenIntroAck", o) /\ UNCHANGED tracked /\ \E S, F : Step(o, {"GenIntroAck"}, S, F)
    BY <1>1, <1>15, GenAckDoes
  <2>2. o # A1
    BY <1>1, <1>3, <2>1 DEF OpenJobs
  <2> QED BY <1>1, <1>15, <2>1, <2>2, ProgressStays
<1>16. CASE put_session(o) /\ UNCHANGED nonces
  <2>1. /\ On("PutSession", o) /\ Step(o, {"PutSession"}, {"EnterIntroAckSent"}, {"idle"})
        /\ tracked' = [tracked EXCEPT ![o[1]] = IF tracked[o[1]] = NoObj THEN o ELSE @]
    BY <1>1, <1>16, PutDoes
  <2>2. o[1] # "a" /\ o # A1
    BY <1>1, <1>3, <2>1 DEF OpenJobs
  <2>3. tracked'["a"] = tracked["a"]
    BY <2>1, <2>2 DEF IInv, TypeOK
  <2> QED BY <1>1, <1>16, <2>1, <2>2, <2>3, ProgressStays
<1> QED
  BY <1>4, <1>5, <1>6, <1>7, <1>8, <1>9, <1>10, <1>11, <1>12, <1>13, <1>14, <1>15, <1>16
     DEF Worker

LEMMA LogicProgress ==
    ASSUME IInv, Answering, Under, NEW o \in Obj, Logic(o)
    PROVE  Progress'
<1>1. /\ Counted /\ A1 \in Obj /\ A1[1] = "a" /\ Progress /\ OneKey /\ sess[A1] \in Session
      /\ On("EnterIntroSent", A1) =>
           /\ ~sess[A1].idle /\ ~sess[A1].txInv /\ ~AHasKey
           /\ sess[A1].state \in {"Initial", "IntroRecv"}
      /\ UNCHANGED nonces
  BY KeyFacts DEF Answering, Under, Progress, IInv, Logic
<1>2. ASSUME NEW D, NEW S, NEW F, Step(o, D, S, F), UNCHANGED tracked,
             F \cap {"state", "key", "workbuf"} = {} \/ o # A1,
             D \cap Marks = {} \/ o # A1, S \cap Marks = {} \/ o # A1,
             S \cap {"Decrypt", "Process"} = {},
             o = A1 /\ On("EnterIntroSent", A1) => F \cap {"idle", "txInv"} = {}
      PROVE  Progress'
  <2>1. CASE o # A1
    BY <1>1, <1>2, <2>1, ProgressStays
  <2>2. CASE o = A1
    <3>1. On("EnterIntroSent", A1) => ~sess'[A1].idle /\ ~sess'[A1].txInv
      BY <1>1, <1>2, <2>2 DEF Step, But, Field
    <3>2. "Decrypt" \notin S /\ "Process" \notin S
      BY <1>2
    <3> QED BY <1>1, <1>2, <2>2, <3>1, <3>2, ProgressQuiet
  <2> QED BY <2>1, <2>2
<1>3. CASE handle_verify_intro(o) /\ UNCHANGED tracked
  <2>1. /\ On("InformIntro", o)
        /\ \/ /\ sess[o].introbuf
              /\ Step(o, {"InformIntro"}, {"GenIntroAck"}, {"workbuf", "working"})
           \/ Step(o, {"InformIntro"}, {}, {"working"})
    BY <1>1, <1>3, InformIntroDoes
  <2>2. o[1] = "a" => ~sess[o].introbuf
    BY <2>1 DEF Under, Opened, AskedNothing
  <2>3. CASE o # A1
    BY <1>1, <1>3, <2>1, <2>3, ProgressStays
  <2>4. CASE o = A1
    BY <1>1, <1>2, <1>3, <2>1, <2>2, <2>4 DEF Marks
  <2> QED BY <2>3, <2>4
<1>4. CASE handle_frame_decrypt(o)
  <2>1. UNCHANGED tracked /\ \E j \in BagToSet(jobs) : j.do = "Process" /\ j.obj = o
    BY <1>1, <1>4, ProcessDoes
  <2>2. PICK S, F :
          /\ Step(o, {"Process"}, S, F) /\ S \subseteq {"Keepalive", "Encrypt"}
          /\ F \cap {"key", "workbuf"} = {}
          /\ "state" \in F => sess'[o].state = "Established"
    BY <1>1, <1>4, ProcessDoes
  <2>3. o = A1 => sess[A1].state \in FrameState /\ AHasKey /\ ~On("EnterIntroSent", A1)
    BY <1>1, <2>1, <2>2 DEF Progress, Step
  <2>4. S \cap Marks = {} /\ S \cap {"Decrypt", "Process"} = {} /\ {"Process"} \cap Marks = {}
    BY <2>2 DEF Marks
  <2>5. CASE o # A1 \/ "state" \notin F
    BY <1>1, <1>2, <2>1, <2>2, <2>3, <2>4, <2>5
  <2>6. CASE o = A1 /\ "state" \in F
    <3>1. /\ sess'[A1].state = "Established" /\ sess'[A1].key = sess[A1].key
          /\ sess'[A1].workbuf = sess[A1].workbuf
      BY <2>2, <2>6 DEF Step, But, Field
    <3>2. \A e \in Marks : On(e, A1)' <=> On(e, A1)
      BY <2>2, <2>4, <2>6 DEF Step, Change
    <3>3. ~On("GenStart", A1) /\ ~On("EnterStartSent", A1)
      BY <1>1, <2>3, <2>6 DEF Progress, FrameState
    <3>4. AHasKey'
      BY <2>3, <2>6, <3>1 DEF AHasKey
    <3> QED BY <1>1, <2>1, <2>3, <2>6, <3>1, <3>2, <3>3, <3>4 DEF Progress, FrameState, Marks
  <2> QED BY <2>5, <2>6
<1>5. CASE close(o)
  <2>1. /\ Step(o, {}, {"Keepalive"}, {"txInv", "job"}) /\ sess[o].job = "answered"
        /\ UNCHANGED tracked
    BY <1>1, <1>5, CloseDoes
  <2>2. o = A1 => ~On("EnterIntroSent", A1)
    BY <1>1, <2>1 DEF OneKey, AHasKey
  <2> QED BY <1>2, <2>1, <2>2 DEF Marks
<1>6. CASE send_keepalive(o)
  <2>1. Step(o, {"Keepalive"}, {"Encrypt"}, {"outq"}) /\ UNCHANGED tracked
    BY <1>1, <1>6, KeepaliveDoes
  <2> QED BY <1>2, <2>1 DEF Marks
<1>7. CASE TickRemove(o)
  <2>1. /\ Step(o, {}, {}, {"state", "timer"}) /\ sess'[o].state = "Freed"
        /\ tracked' = [tracked EXCEPT ![o[1]] = NoObj] /\ tracked[o[1]] = o
        /\ sess[o].idle \/ sess[o].txInv
    BY <1>1, <1>7, RemoveDoes DEF TickRemove, Counted, is_invalidated
  <2>2. tracked \in [Server -> Obj \cup {NoObj}] /\ o[1] \in Server
    BY Objects DEF IInv, Tables
  <2>3. CASE o # A1
    <3>1. o[1] = "b"
      BY <2>1, <2>3, OnlyFirst, Objects
    <3> QED BY <1>1, <2>1, <2>2, <2>3, <3>1, ProgressStays DEF Server
  <2>4. CASE o = A1
    <3>1. ~On("EnterIntroSent", A1) /\ tracked'["a"] = NoObj
      BY <1>1, <2>1, <2>2, <2>4
    <3>2. /\ sess'[A1].state = "Freed" /\ sess'[A1].key = sess[A1].key
          /\ sess'[A1].workbuf = sess[A1].workbuf
      BY <2>1, <2>4 DEF Step, But, Field
    <3>3. \A e : (On(e, A1)' <=> On(e, A1)) /\ (Single(e, A1) => Single(e, A1)')
      BY <2>1, <2>4 DEF Step, Change
    <3>4. AHasKey' <=> AHasKey
      BY <3>2 DEF AHasKey
    <3> QED BY <1>1, <3>1, <3>2, <3>3, <3>4, Objects DEF Progress, FrameState
  <2> QED BY <2>3, <2>4
<1>8. CASE TickKeep(o)
  <2>1. Step(o, {}, {"Encrypt"}, {"outq"}) /\ UNCHANGED tracked
    BY <1>1, <1>8, TickKeepDoes
  <2> QED BY <1>2, <2>1 DEF Marks
<1>9. CASE handle_establish_timeout(o)
  <2>1. Step(o, {}, {}, {"timer", "job"}) /\ UNCHANGED tracked
    BY <1>1, <1>9, TimeoutDoes
  <2> QED BY <1>2, <2>1 DEF Marks
<1> QED
  BY <1>3, <1>4, <1>5, <1>6, <1>7, <1>8, <1>9 DEF Logic

\* Time passes only when no job of the handshake is left.
LEMMA TimeUnder ==
    ASSUME IInv, Answering, Under, NEW o \in Obj, TimePasses(o)
    PROVE  Under' /\ (BHasKey => BHasKey')
<1>1. Counted /\ A1 \in Obj /\ A1[1] = "a" /\ Progress /\ sess[A1] \in Session /\ OneKey
  BY KeyFacts DEF Answering, Under, IInv
<1>2. /\ tracked[o[1]] = o /\ Step(o, {}, {}, {"timer", "idle"})
      /\ UNCHANGED <<tracked, tries, nonces, net>>
      /\ \A j \in BagToSet(jobs) : j.do \in FrameWork \/ sess[j.obj].state = "Freed"
  BY <1>1, TimePassesDoes
<1>3. o[1] = "a" => o = A1
  BY <1>2, OnlyFirst
<1>4. o = A1 => ~On("EnterIntroSent", A1)
  BY <1>1, <1>2 DEF On, Job, FrameWork, Progress
<1>5. Progress'
  <2>1. CASE o # A1
    BY <1>1, <1>2, <2>1, ProgressStays
  <2>2. CASE o = A1
    BY <1>1, <1>2, <1>4, <2>2, ProgressQuiet DEF Marks
  <2> QED BY <2>1, <2>2
<1>6. Opened'
  BY <1>2, <1>3, AskedQuiet
<1>7. OneKey' /\ (BHasKey => BHasKey')
  BY <1>1, <1>2, KeyQuiet
<1> QED
  BY <1>5, <1>6, <1>7 DEF Under

LEMMA LoseUnder ==
    ASSUME IInv, Answering, Under, NEW d \in BagToSet(net), Lose(d)
    PROVE  Under' /\ (BHasKey => BHasKey')
<1>1. UNCHANGED <<sess, jobs, tracked, tries, nonces>> /\ \A e \in BagToSet(net') : e \in BagToSet(net)
  BY InDifference DEF Lose
<1>2. Progress'
  BY <1>1 DEF Under, Progress, On, Single, AHasKey
<1>3. Opened'
  BY <1>1, AskedNothingHappens
<1>4. OneKey' /\ (BHasKey => BHasKey')
  BY <1>1, KeyNothing DEF Under
<1> QED
  BY <1>2, <1>3, <1>4 DEF Under

-----------------------------------------------------------------------------
(* The attempt as a whole *)

LEMMA UnderWay ==
    ASSUME MaxTries = 1, IInv, Answering, Under, [Next]_vars
    PROVE  Under' /\ (BHasKey => BHasKey')
<1>1. ~link_try_establish("a")
  BY DEF link_try_establish, Under, Opened
<1>2. ASSUME NEW x \in Server, NEW d \in BagToSet(net), handle_recvfrom(x, d)
      PROVE  Under' /\ (BHasKey => BHasKey')
  BY <1>2, RecvProgress, RecvOpened, RecvOneKey DEF Under
<1>3. ASSUME NEW o \in Obj, Worker(o) PROVE Under' /\ (BHasKey => BHasKey')
  BY <1>3, WorkerProgress, WorkerOpened, WorkerOneKey DEF Under
<1>4. ASSUME NEW o \in Obj, Logic(o) PROVE Under' /\ (BHasKey => BHasKey')
  BY <1>4, LogicProgress, LogicOpened, LogicOneKey DEF Under
<1>5. CASE UNCHANGED vars
  <2>1. Progress'
    BY <1>5 DEF Under, Progress, On, Single, AHasKey, vars
  <2>2. Opened'
    BY <1>5, AskedNothingHappens DEF vars
  <2>3. OneKey' /\ (BHasKey => BHasKey')
    BY <1>5, KeyNothing DEF vars, Under
  <2> QED BY <2>1, <2>2, <2>3 DEF Under
<1> QED
  BY <1>1, <1>2, <1>3, <1>4, <1>5, TimeUnder, LoseUnder DEF Next, try_connect, connect_job_retry

\* What a step needs: a job, or an object with a timer, an answer or an entry.
LEMMA WorkerNeeds ==
    ASSUME NEW o \in Obj, Worker(o)
    PROVE  \/ gen_intro(o)
           \/ \E j \in BagToSet(jobs) : j.do # "GenIntro"
<1>1. \A do : Has(Job(do, o)) => \E j \in BagToSet(jobs) : j.do = do
  BY DEF Has, BagIn, Job
<1>2. CASE hmac_then_decrypt(o)
  BY <1>2 DEF hmac_then_decrypt
<1>3. \A do, new : Runs(Job(do, o), new) => Has(Job(do, o))
  BY DEF Runs
<1>4. \A do, st : EnterState(o, do, st) => Has(Job(do, o))
  BY <1>3 DEF EnterState
<1>5. /\ verify_intro(o) => Has(Job("VerifyIntro", o))
      /\ verify_introack(o) => Has(Job("VerifyIntroAck", o))
      /\ gen_introack(o) => Has(Job("GenIntroAck", o))
      /\ put_session(o) => Has(Job("PutSession", o))
  BY <1>3 DEF verify_intro, verify_introack, gen_introack, put_session
<1>6. /\ verify_session_start(o) => Has(Job("VerifyStart", o))
      /\ EncryptOutboundFrames(o) => Has(Job("Encrypt", o))
      /\ gen_session_start(o) => Has(Job("GenStart", o))
  BY <1>3 DEF verify_session_start, EncryptOutboundFrames, gen_session_start
<1> QED
  BY <1>1, <1>2, <1>4, <1>5, <1>6 DEF Worker

LEMMA LogicNeeds ==
    ASSUME NEW o \in Obj, Logic(o)
    PROVE  \/ \E j \in BagToSet(jobs) : j.do # "GenIntro"
           \/ sess[o].timer \in {"due", "cancelled"} \/ sess[o].job = "answered"
           \/ tracked[o[1]] = o /\ (~sess[o].working \/ sess[o].state \in {"LIMSent", "Established"})
<1>1. \A do : Has(Job(do, o)) => \E j \in BagToSet(jobs) : j.do = do
  BY DEF Has, BagIn, Job
<1>2. CASE handle_frame_decrypt(o)
  BY <1>2 DEF handle_frame_decrypt
<1>3. \A do, new : Runs(Job(do, o), new) => Has(Job(do, o))
  BY DEF Runs
<1> QED
  BY <1>1, <1>2, <1>3
     DEF Logic, handle_verify_intro, close, send_keepalive, TickRemove, TickKeep,
         handle_establish_timeout

LEMMA FirstTry ==
    ASSUME IInv, Answering, NotTried, [Next]_vars
    PROVE  NotTried' \/ Introducing'
<1>1. ~connect_job_retry
  BY Objects DEF connect_job_retry, NotTried
<1>2. ASSUME NEW o \in Obj PROVE ~(Worker(o) \/ Logic(o) \/ TimePasses(o))
  <2>1. ~gen_intro(o)
    BY DEF gen_intro, Runs, Has, BagIn, NotTried
  <2>2. /\ sess[o].timer = "off" /\ sess[o].job = "none" /\ tracked[o[1]] # o
    BY NoneIsNew, Objects DEF NotTried
  <2> QED BY <2>1, <2>2, WorkerNeeds, LogicNeeds DEF NotTried, TimePasses
<1>3. CASE UNCHANGED vars
  BY <1>3 DEF vars, NotTried
<1>4. CASE try_connect
  <2>1. tracked["a"] = NoObj /\ A1 \in Obj
    BY Objects, KeyFacts DEF NotTried
  <2>2. PICK o \in Obj :
          /\ o = Fresh("a")
          /\ sess' = [sess EXCEPT ![o] =
                [create_session(o)
                    EXCEPT !.job = "waiting", !.idle = FALSE, !.timer = "armed",
                           !.workbuf = Intro("a"), !.introbuf = TRUE,
                           !.hook = "generated", !.working = TRUE]]
          /\ tracked' = [tracked EXCEPT !["a"] = o]
          /\ jobs' = jobs (+) Queued(Job("GenIntro", o))
    BY <1>4, <2>1 DEF try_connect, link_try_establish
  <2>3. o = A1
    <3>1. /\ Fresh("a")[1] = "a"
          /\ \A m \in 1..MaxSessions : m < Fresh("a")[2] => sess[<<"a", m>>].state # "None"
      BY <2>2, FreshIsNext, Objects DEF Answering
    <3>2. sess[A1].state = "None"
      BY <2>1 DEF NotTried, None, create_session
    <3>3. o[2] \in 1..MaxSessions /\ o = <<o[1], o[2]>> /\ 1 \in 1..MaxSessions /\ ~(1 < o[2])
      BY <2>2, <3>1, <3>2, BoundAssumption DEF Obj, A1
    <3>4. o[2] = 1
      BY <3>3, BoundAssumption
    <3> QED BY <2>2, <3>1, <3>3, <3>4 DEF A1
  <2>4. sess \in [Obj -> Session] /\ Tables
    BY DEF IInv
  <2>5. /\ \A p \in Obj : p # A1 => sess'[p] = None
        /\ sess'[A1] = [create_session(A1) EXCEPT
                     !.job = "waiting", !.idle = FALSE, !.timer = "armed",
                     !.workbuf = Intro("a"), !.introbuf = TRUE,
                     !.hook = "generated", !.working = TRUE]
    <3>1. PICK s : s = create_session(A1)
      OBVIOUS
    <3>2. PICK t :
            t = [s EXCEPT !.job = "waiting", !.idle = FALSE, !.timer = "armed",
                          !.workbuf = Intro("a"), !.introbuf = TRUE,
                          !.hook = "generated", !.working = TRUE]
      OBVIOUS
    <3>3. sess' = [sess EXCEPT ![A1] = t]
      BY <2>2, <2>3, <3>1, <3>2
    <3> QED BY <2>1, <2>4, <3>1, <3>2, <3>3 DEF NotTried
  <2>6. tracked'["a"] = A1 /\ tracked'["b"] = NoObj
    BY <2>2, <2>3, <2>4 DEF Tables, NotTried, Server
  <2>7. /\ router'["a"] = "waiting" /\ router'["b"] = "idle" /\ tries'["a"] = 1
        /\ nonces' = nonces /\ net' = net
    BY <1>4, <2>4 DEF try_connect, link_try_establish, Tables, NotTried, Server
  <2>8. BagToSet(jobs') = {Job("GenIntro", A1)}
    BY <2>2, <2>3, InSum, InQueued DEF NotTried
  <2>9. Single("GenIntro", A1)'
    <3>1. PICK j : j = Job("GenIntro", A1)
      OBVIOUS
    <3>2. j \in BagToSet(Queued(j)) /\ j \notin BagToSet(jobs) /\ IsABag(jobs)
      BY <3>1, InQueued DEF NotTried, Answering, Counted
    <3>3. jobs'[j] = 1
      BY <2>2, <2>3, <3>1, <3>2, SumIsBag, BagOfOne
    <3> QED BY <3>1, <3>3 DEF Single
  <2> QED
    BY <2>5, <2>6, <2>7, <2>8, <2>9 DEF Introducing, NotTried
<1> QED
  BY <1>1, <1>2, <1>3, <1>4 DEF Next, NotTried

LEMMA Introduced ==
    ASSUME MaxTries = 1, IInv, Answering, Introducing, [Next]_vars
    PROVE  \/ Introducing'
           \/ /\ Under' /\ Step(A1, {"GenIntro"}, {"EnterIntroSent"}, {"working"})
              /\ On("EnterIntroSent", A1)'
              /\ Sends(Intro("a")) /\ UNCHANGED <<tracked, router>>
<1>1. /\ Counted /\ A1 \in Obj /\ A1[1] = "a"
      /\ tries["a"] = 1 /\ nonces["a"] = 0 /\ tracked["a"] = A1 /\ tracked["b"] = NoObj
      /\ BagToSet(jobs) = {Job("GenIntro", A1)} /\ BagToSet(net) = {}
  BY KeyFacts, Objects DEF Answering, Introducing
<1>2. /\ sess[A1].state = "Initial" /\ sess[A1].working /\ sess[A1].timer = "armed"
      /\ sess[A1].job = "waiting" /\ sess[A1].hook = "generated" /\ sess[A1].key = NoKey
      /\ sess[A1].outq = {} /\ sess[A1].workbuf = Intro("a")
      /\ ~sess[A1].idle /\ ~sess[A1].txInv
  BY DEF Introducing, create_session
<1>3. ASSUME NEW p \in Obj, p # A1
      PROVE  /\ sess[p].state = "None" /\ sess[p].key = NoKey /\ sess[p].outq = {}
             /\ sess[p].job = "none" /\ sess[p].timer = "off" /\ sess[p].workbuf = Junk
  BY <1>3, NoneIsNew DEF Introducing, None, create_session
<1>4. /\ Job("GenIntro", A1).do = "GenIntro" /\ Job("GenIntro", A1).obj = A1
      /\ \A j \in BagToSet(jobs) : j.do = "GenIntro" /\ j.obj = A1
  BY <1>1 DEF Job
<1>5. ~link_try_establish("a")
  BY <1>1 DEF link_try_establish
<1>6. ASSUME NEW o \in Obj PROVE ~Logic(o) /\ ~TimePasses(o)
  <2>1. tracked[o[1]] = o => o = A1
    BY <1>1, Objects
  <2>2. ~TimePasses(o)
    <3>1. /\ Job("GenIntro", A1) \in BagToSet(jobs)
          /\ "GenIntro" \notin FrameWork /\ sess[A1].state # "Freed"
      BY <1>1, <1>2 DEF FrameWork
    <3> QED BY <1>1, <1>4, <3>1, TimePassesDoes
  <2> QED BY <1>2, <1>3, <1>4, <2>1, <2>2, LogicNeeds
<1>7. CASE UNCHANGED vars
  BY <1>7 DEF vars, Introducing, Single, On
<1>8. ASSUME NEW o \in Obj, Worker(o)
      PROVE  /\ Under' /\ Step(A1, {"GenIntro"}, {"EnterIntroSent"}, {"working"})
             /\ On("EnterIntroSent", A1)'
             /\ Sends(Intro("a")) /\ UNCHANGED <<tracked, router>>
  <2>1. gen_intro(o)
    BY <1>4, <1>8, WorkerNeeds
  <2>2. o = A1
    BY <1>1, <1>4, <2>1, GenIntroDoes DEF On, Job
  <2>3. Sends(Intro("a")) /\ Step(A1, {"GenIntro"}, {"EnterIntroSent"}, {"working"})
    BY <1>1, <1>2, <2>1, <2>2, GenIntroDoes
  <2>4. UNCHANGED <<tracked, router, nonces, tries>>
    <3>1. ~gen_session_start(o) /\ ~gen_introack(o) /\ ~put_session(o)
      BY <1>1, <1>4, GenStartDoes, GenAckDoes, PutDoes DEF On, Job
    <3> QED BY <1>8, <3>1 DEF Worker
  <2>5. /\ \A p \in Obj : p # A1 => sess'[p] = sess[p]
        /\ sess'[A1].state = "Initial" /\ sess'[A1].key = NoKey /\ sess'[A1].outq = {}
        /\ sess'[A1].workbuf = Intro("a") /\ ~sess'[A1].idle /\ ~sess'[A1].txInv
        /\ sess'[A1].job = "waiting"
    BY <1>2, <2>3 DEF Step, But, Field
  <2>6. \A j \in BagToSet(jobs') : j.obj = A1 /\ j.do = "EnterIntroSent"
    <3>1. ~On("GenIntro", A1)'
      BY <2>3 DEF Step, Change, Introducing
    <3>2. \A j \in BagToSet(jobs') : j \in BagToSet(jobs) \/ (j.obj = A1 /\ j.do = "EnterIntroSent")
      BY <2>3 DEF Step, Change
    <3> QED BY <1>1, <3>1, <3>2 DEF On
  <2>7. Single("EnterIntroSent", A1)'
    <3>1. ~On("EnterIntroSent", A1)
      BY <1>4 DEF On, Job
    <3> QED BY <2>3, <3>1 DEF Step, Change
  <2>8. \A e, p : On(e, p)' => e = "EnterIntroSent" /\ p = A1
    BY <2>6 DEF On, Job
  <2>9. \A d \in BagToSet(net') : d = Intro("a")
    BY <1>1, <2>3, SendsAdds
  <2>10. /\ Intro("a").t = "INTRO" /\ Intro("a").from = "a" /\ Intro("b").from = "b"
         /\ Junk.t # "START" /\ Junk # Intro("b") /\ Intro("b").t = "INTRO"
    BY Messages DEF Intro
  <2>11. Opened'
    <3>1. ASSUME NEW p \in Obj, p # A1 PROVE Late(p)'
      BY <1>3, <2>5, <2>6, <3>1 DEF Late
    <3>2. \A p \in Obj : sess'[p].workbuf # Intro("b")
      BY <1>3, <2>5, <2>10
    <3>3. AskedNothing'
      BY <2>6, <2>8, <2>9, <2>10, <3>2 DEF AskedNothing, OpenJobs
    <3> QED BY <1>1, <2>4, <2>6, <3>1, <3>3 DEF Opened
  <2>12. Progress'
    <3>1. ~AHasKey'
      BY <2>5 DEF AHasKey
    <3> QED BY <1>1, <2>4, <2>5, <2>6, <2>7, <2>8, <3>1 DEF Progress, FrameState
  <2>13. OneKey'
    <3>1. \A p \in Obj : sess'[p].key = NoKey /\ sess'[p].outq = {} /\ sess'[p].job # "answered"
                         /\ sess'[p].state \notin {"LIMSent", "Established"}
                         /\ sess'[p].workbuf.t # "START"
      BY <1>3, <2>5, <2>10
    <3> QED BY <1>1, <2>6, <2>9, <2>10, <3>1 DEF OneKey
  <2>14. On("EnterIntroSent", A1)'
    <3>1. Runs(Job("GenIntro", A1), Queued(Job("EnterIntroSent", A1)))
      BY <1>2, <2>1, <2>2 DEF gen_intro
    <3> QED BY <3>1, InSum, InQueued DEF Runs, On
  <2> QED BY <2>3, <2>4, <2>11, <2>12, <2>13, <2>14 DEF Under
<1> QED
  BY <1>1, <1>5, <1>6, <1>7, <1>8 DEF Next, try_connect, connect_job_retry

LEMMA NextAttempt ==
    ASSUME MaxTries = 1, IInv, Answering, Attempt, [Next]_vars
    PROVE  Attempt'
BY FirstTry, Introduced, UnderWay DEF Attempt

LEMMA InitAttempt == Init => NotTried
BY InQueued DEF Init, NotTried, Server

-----------------------------------------------------------------------------
(* What follows *)

(* Whatever is retried, lost, duplicated or late: m_sessions of the answering
   server never names a freed object, since put_session comes after the check for
   a duplicate and nothing frees the object in between (handle_introack_generated,
   put_session, RemoveSessionByAddr); and an object that waits for its INTROACK
   to be made has no other crypto job. *)
THEOREM AnsweringHolds ==
    Spec => [](Answering /\ (tracked["b"] # NoObj => sess[tracked["b"]].state # "Freed"))
<1>1. Init => IInv /\ Answering
  BY InitIInv, InitAnswers
<1>2. IInv /\ Answering /\ [Next]_vars => IInv' /\ Answering'
  BY NextIInv, NextAnswers
<1>3. IInv /\ Answering => (tracked["b"] # NoObj => sess[tracked["b"]].state # "Freed")
  BY Objects DEF Answering, Answerer, IInv, Tables, TrackedOK
<1> QED
  BY <1>1, <1>2, <1>3, PTL DEF Spec

(* For any number of attempts, objects and copies: while the answering server goes
   from an INTRO to its INTROACK, the object of the queued step is alive, marked as
   working, and has this one step.  This is Answerer, the part of the invariant
   that says why: the object is not in m_sessions before put_session, so neither
   recv nor Tick reaches it, and put_session comes right after the check that frees
   duplicates (handle_introack_generated, put_session, on_intro). *)
THEOREM AnswersStayAlive == Spec => []AnswerIsAlive
<1>1. Answering => AnswerIsAlive
  <2> SUFFICES ASSUME Answering, NEW o \in Obj, NEW do \in AnswerJobs, o[1] = "b",
                      Has(Job(do, o))
               PROVE  /\ sess[o].state # "Freed" /\ sess[o].working
                      /\ \A e \in AnswerJobs : Has(Job(e, o)) => e = do
    BY DEF AnswerIsAlive
  <2>1. AnswerJobs = Steps
    BY DEF AnswerJobs, Steps, Chain
  <2>2. \A e : Has(Job(e, o)) <=> On(e, o)
    BY DEF Has, BagIn, On, BagToSet
  <2> QED BY <2>1, <2>2 DEF Answering, Answerer
<1> QED
  BY <1>1, AnsweringHolds, PTL

AttemptInv == IInv /\ Answering /\ Attempt

(* Within one attempt, whatever is lost, delayed, reordered or duplicated, the
   opener goes from its INTRO through the hooks of its first object, derives at
   most one key, and every START and every frame under way is under that key; the
   objects that late datagrams make at the opener never answer anything
   (handle_generated_intro, handle_verify_introack, handle_generated_session_start,
   on_intro). *)
THEOREM AttemptHolds == MaxTries = 1 => (Spec => []AttemptInv)
<1> SUFFICES ASSUME MaxTries = 1 PROVE Spec => []AttemptInv
  OBVIOUS
<1>1. Init => AttemptInv
  BY InitIInv, InitAnswers, InitAttempt DEF AttemptInv, Attempt
<1>2. AttemptInv /\ [Next]_vars => AttemptInv'
  BY NextIInv, NextAnswers, NextAttempt DEF AttemptInv
<1> QED
  BY <1>1, <1>2, PTL DEF Spec

(* Within one attempt m_sessions never names a freed object, at either server:
   on_intro frees only an object that is not in it, and RemoveSessionByAddr takes
   the entry out with the object. *)
THEOREM TrackedStaysAlive == MaxTries = 1 => (Spec => []TrackedIsAlive)
<1> SUFFICES ASSUME MaxTries = 1 PROVE Spec => []TrackedIsAlive
  OBVIOUS
<1>1. AttemptInv => TrackedIsAlive
  <2> SUFFICES ASSUME AttemptInv, NEW x \in Server, tracked[x] # NoObj
               PROVE  sess[tracked[x]].state # "Freed"
    BY DEF TrackedIsAlive
  <2>1. tracked[x] \in Obj /\ tracked[x][1] = x
    BY DEF AttemptInv, IInv, Tables, TrackedOK
  <2>2. CASE x = "b"
    BY <2>1, <2>2 DEF AttemptInv, Answering, Answerer
  <2>3. CASE x = "a"
    <3>1. CASE NotTried
      BY <3>1 DEF NotTried
    <3>2. CASE Introducing
      BY <2>3, <3>2 DEF Introducing, create_session
    <3>3. CASE Under
      BY <2>3, <3>3 DEF Under, Progress
    <3> QED BY <3>1, <3>2, <3>3 DEF AttemptInv, Attempt
  <2> QED BY <2>2, <2>3 DEF Server
<1> QED
  BY <1>1, AttemptHolds, PTL

(* Within one attempt an end is established only with a peer that has derived the
   same session key, whatever INTROACKs and STARTs are reordered or duplicated: a
   derives one key, b accepts a START only for the token that is in it, and no LIM
   goes out under another key (verify_introack, gen_session_start,
   verify_session_start). *)
THEOREM EstablishedKeysAgree == MaxTries = 1 => (Spec => []EstablishedSharesKey)
<1> SUFFICES ASSUME MaxTries = 1 PROVE Spec => []EstablishedSharesKey
  OBVIOUS
<1>1. AttemptInv => EstablishedSharesKey
  <2> SUFFICES ASSUME AttemptInv, NEW o \in Obj, sess[o].state = "Established"
               PROVE  \E p \in Obj : p[1] = Peer(o[1]) /\ sess[p].key = sess[o].key
    BY DEF EstablishedSharesKey
  <2>1. ~NotTried /\ ~Introducing
    <3>1. sess[o] # None
      BY DEF None, create_session
    <3>2. ~Introducing
      <4> SUFFICES ASSUME Introducing PROVE sess[A1].state # "Established"
        BY <3>1 DEF Introducing
      <4> QED BY DEF Introducing, create_session
    <3> QED BY <3>1, <3>2 DEF NotTried
  <2>2. Under
    BY <2>1 DEF AttemptInv, Attempt
  <2>3. sess[o].key # NoKey /\ BHasKey
    BY <2>2 DEF Under, OneKey
  <2>4. A1 \in Obj /\ A1[1] = "a"
    BY KeyFacts
  <2>5. CASE o[1] = "b"
    <3>1. sess[o].key = sess[A1].key
      BY <2>2, <2>3, <2>5 DEF Under, OneKey
    <3> QED BY <2>4, <2>5, <3>1 DEF Peer
  <2>6. CASE o[1] = "a"
    <3>1. o = A1
      BY <2>2, <2>6 DEF Under, Opened, Late
    <3>2. PICK p \in Obj : p[1] = "b" /\ sess[p].key # NoKey
      BY <2>3 DEF BHasKey
    <3>3. sess[p].key = sess[A1].key
      BY <2>2, <3>2 DEF Under, OneKey
    <3> QED BY <2>6, <3>1, <3>2, <3>3 DEF Peer
  <2> QED BY <2>5, <2>6, Objects
<1> QED
  BY <1>1, AttemptHolds, PTL

-----------------------------------------------------------------------------
(* While a's router waits *)

LEMMA PendingStays ==
    ASSUME Pending, NEW o \in Obj, NEW D, NEW S, NEW F, Step(o, D, S, F), router' = router,
           sess'[o].job = sess[o].job,
           router["a"] = "waiting" =>
             /\ tracked'["a"] = tracked["a"]
             /\ o = A1 => sess'[o].timer # "off" /\ ~sess'[o].idle
             /\ ~sess'[o].txInv /\ ~sess'[o].rxInv /\ \A p \in sess'[o].outq : ~p.inv
             /\ \A d \in BagToSet(net') : d \in BagToSet(net) \/ Flagless(d)
             /\ \A j \in BagToSet(jobs') :
                  \/ j \in BagToSet(jobs)
                  \/ (j.do = "Decrypt" => Flagless(j.frame)) /\ (j.do = "Process" => ~j.frame.inv)
    PROVE  Pending'
<1>1. A1 \in Obj /\ \A p \in Obj : p # o => sess'[p] = sess[p]
  BY KeyFacts DEF Step
<1>2. /\ router'["b"] # "waiting" /\ (sess'[A1].job = "answered" => router'["a"] # "waiting")
      /\ \A p \in Obj : p # A1 => sess'[p].job = "none"
  BY <1>1 DEF Pending
<1>3. Waiting'
  <2> SUFFICES ASSUME router["a"] = "waiting" PROVE Waiting'
    BY DEF Waiting
  <2>1. tracked["a"] = A1 /\ sess[A1].job = "waiting" /\ sess[A1].timer # "off" /\ ~sess[A1].idle
    BY DEF Pending, Waiting
  <2>2. tracked'["a"] = A1 /\ sess'[A1].job = "waiting" /\ sess'[A1].timer # "off" /\ ~sess'[A1].idle
    BY <1>1, <2>1
  <2>3. ASSUME NEW p \in Obj
        PROVE  ~sess'[p].txInv /\ ~sess'[p].rxInv /\ \A q \in sess'[p].outq : ~q.inv
    BY <1>1, <2>3 DEF Pending, Waiting
  <2>4. \A d \in BagToSet(net') : Flagless(d)
    BY DEF Pending, Waiting
  <2>5. \A j \in BagToSet(jobs') :
          (j.do = "Decrypt" => Flagless(j.frame)) /\ (j.do = "Process" => ~j.frame.inv)
    BY DEF Pending, Waiting
  <2> QED BY <2>2, <2>3, <2>4, <2>5 DEF Waiting, Flagless
<1> QED
  BY <1>2, <1>3 DEF Pending

LEMMA PendingQuiet ==
    ASSUME Pending, NEW o \in Obj, NEW D, NEW S, NEW F, Step(o, D, S, F), router' = router,
           F \cap {"job", "txInv", "rxInv", "outq"} = {}, "timer" \in F => o # A1,
           "idle" \in F => ~sess'[o].idle \/ o # A1,
           S \cap {"Decrypt", "Process"} = {}, tracked'["a"] = tracked["a"],
           \A d \in BagToSet(net') : d \in BagToSet(net) \/ d.t # "FRAME"
    PROVE  Pending'
<1>1. /\ sess'[o].job = sess[o].job /\ sess'[o].txInv = sess[o].txInv
      /\ sess'[o].rxInv = sess[o].rxInv /\ sess'[o].outq = sess[o].outq
      /\ o = A1 => sess'[o].timer = sess[o].timer /\ (sess'[o].idle = sess[o].idle \/ ~sess'[o].idle)
  BY DEF Step, But, Field
<1>2. \A j \in BagToSet(jobs') : j \in BagToSet(jobs) \/ j.do \notin {"Decrypt", "Process"}
  BY DEF Step, Change
<1>3. router["a"] = "waiting" =>
        /\ ~sess[o].txInv /\ ~sess[o].rxInv /\ \A p \in sess[o].outq : ~p.inv
        /\ sess[A1].timer # "off" /\ ~sess[A1].idle
  BY DEF Pending, Waiting
<1> QED
  BY <1>1, <1>2, <1>3, PendingStays DEF Flagless

LEMMA PendingNothing ==
    ASSUME Pending, UNCHANGED <<sess, jobs, tracked, router>>,
           \A d \in BagToSet(net') : d \in BagToSet(net)
    PROVE  Pending'
BY DEF Pending, Waiting, Flagless

LEMMA RecvPending ==
    ASSUME IInv, Answering, Under, Pending, NEW x \in Server, NEW d \in BagToSet(net),
           handle_recvfrom(x, d)
    PROVE  Pending'
<1>1. /\ Counted /\ A1 \in Obj /\ Progress
      /\ sess[A1].state \notin {"None", "IntroAckSent"}
  BY KeyFacts DEF Answering, Under, Progress
<1>2. /\ IsABag(net') /\ UNCHANGED router /\ (d.t = "FRAME" => AHasKey)
      /\ \A e \in BagToSet(net') : e \in BagToSet(net)
  BY <1>1, RecvNet DEF Under, OneKey, FrameKey
<1>3. PICK o \in Obj :
        /\ o[1] = x
        /\ \/ /\ tracked[x] = NoObj /\ o = Fresh(x) /\ sess[o].state = "None"
              /\ on_intro(o, create_session(o), d)
           \/ /\ tracked[x] = o /\ sess[o].state # "None"
              /\ \/ sess[o].state = "Initial" /\ on_intro(o, sess[o], d)
                 \/ sess[o].state = "IntroSent" /\ on_intro_ack(o, d)
                 \/ sess[o].state = "IntroAckSent" /\ on_session_start(o, d)
                 \/ sess[o].state \in FrameState /\ decrypt_frame(o, d)
                 \/ UNCHANGED <<sess, jobs, tracked, connected>>
  BY RecvCases
<1>4. tracked[x] = o => o = A1 \/ o[1] = "b"
  BY <1>3, OnlyFirst, Objects
<1>5. ASSUME NEW s \in Session, on_intro(o, s, d), s.job = sess[o].job,
             router["a"] = "waiting" => ~s.txInv /\ ~s.rxInv /\ \A p \in s.outq : ~p.inv,
             o = A1 => s = sess[o] /\ d.t # "FRAME"
      PROVE  Pending'
  <2>1. /\ UNCHANGED tracked
        /\ sess'[o].outq = s.outq /\ sess'[o].job = s.job
        /\ sess'[o].timer = s.timer /\ sess'[o].txInv = s.txInv /\ sess'[o].rxInv = s.rxInv
        /\ o = A1 => ~sess'[o].idle
    BY <1>1, <1>2, <1>5, OnIntroDoes
  <2>2. PICK S \in {{}, {"VerifyIntro"}} : Step(o, {}, S, Field)
    BY <1>1, <1>2, <1>5, OnIntroDoes
  <2>3. \A j \in BagToSet(jobs') : j \in BagToSet(jobs) \/ j.do \notin {"Decrypt", "Process"}
    BY <2>2 DEF Step, Change
  <2>4. router["a"] = "waiting" => sess[A1].timer # "off"
    BY DEF Pending, Waiting
  <2> QED BY <1>2, <1>5, <2>1, <2>2, <2>3, <2>4, PendingStays
<1>6. CASE tracked[x] = NoObj
  <2>1. PICK s : s = create_session(o)
    OBVIOUS
  <2>2. /\ sess[o].state = "None" /\ on_intro(o, s, d) /\ s \in Session /\ s.job = "none"
        /\ ~s.txInv /\ ~s.rxInv /\ s.outq = {}
    BY <1>3, <1>6, <2>1, Objects, NewSession, NoneIsNew
  <2>3. o # A1 /\ sess[o].job = "none"
    BY <1>1, <2>2 DEF Pending
  <2> QED BY <1>5, <2>2, <2>3
<1>7. CASE tracked[x] = o /\ sess[o].state = "Initial" /\ on_intro(o, sess[o], d)
  <2>1. o = A1 /\ sess[o] \in Session
    BY <1>4, <1>7 DEF Answering, Answerer, IInv
  <2>2. d.t # "FRAME"
    BY <1>1, <1>2, <1>7, <2>1 DEF Progress
  <2>3. router["a"] = "waiting" =>
          ~sess[o].txInv /\ ~sess[o].rxInv /\ \A p \in sess[o].outq : ~p.inv
    BY DEF Pending, Waiting
  <2> QED BY <1>5, <1>7, <2>1, <2>2, <2>3
<1>8. CASE tracked[x] = o /\ sess[o].state = "IntroSent" /\ on_intro_ack(o, d)
  <2>1. o = A1
    BY <1>3, <1>4, <1>8, Objects DEF IInv, ObjOK
  <2>2. d.t # "FRAME"
    BY <1>1, <1>2, <1>8, <2>1 DEF Progress
  <2>3. Step(o, {}, {"VerifyIntroAck"}, {"workbuf", "working"}) /\ UNCHANGED tracked
    BY <1>1, <1>2, <1>8, <2>2, OnAckDoes
  <2> QED BY <1>2, <2>3, PendingQuiet
<1>9. CASE tracked[x] = o /\ sess[o].state = "IntroAckSent" /\ on_session_start(o, d)
  <2>1. UNCHANGED tracked
    BY <1>1, <1>2, <1>9, OnStartDoes
  <2>2. CASE UNCHANGED <<sess, jobs>>
    BY <1>2, <2>1, <2>2, PendingNothing
  <2>3. CASE Step(o, {}, {"VerifyStart"}, {"workbuf", "working"})
    BY <1>2, <2>1, <2>3, PendingQuiet
  <2> QED BY <1>1, <1>2, <1>9, <2>2, <2>3, OnStartDoes
<1>10. CASE tracked[x] = o /\ decrypt_frame(o, d)
  <2>1. /\ Step(o, {}, {"Decrypt"}, {}) /\ UNCHANGED <<sess, tracked>>
        /\ \A j \in BagToSet(jobs') : j \in BagToSet(jobs) \/ j = FrameJob("Decrypt", o, d)
    BY <1>1, <1>2, <1>10, DecryptFrameDoes
  <2>2. router["a"] = "waiting" =>
          /\ Flagless(d) /\ ~sess[o].txInv /\ ~sess[o].rxInv /\ \A p \in sess[o].outq : ~p.inv
          /\ sess[A1].timer # "off" /\ ~sess[A1].idle
    BY DEF Pending, Waiting
  <2>3. FrameJob("Decrypt", o, d).do = "Decrypt" /\ FrameJob("Decrypt", o, d).frame = d
    BY DEF FrameJob
  <2> QED BY <1>2, <2>1, <2>2, <2>3, PendingStays
<1>11. CASE UNCHANGED <<sess, jobs, tracked, connected>>
  BY <1>2, <1>11, PendingNothing
<1> QED
  BY <1>3, <1>6, <1>7, <1>8, <1>9, <1>10, <1>11

LEMMA WorkerPending ==
    ASSUME IInv, Answering, Under, Pending, NEW o \in Obj, Worker(o)
    PROVE  Pending'
<1>1. Counted /\ A1 \in Obj /\ UNCHANGED router
  BY KeyFacts DEF Answering, Worker
<1>2. ASSUME NEW do, On(do, o), do \notin {"VerifyIntro", "InformIntro"}, o[1] = "a"
      PROVE  o = A1 /\ do \in OpenJobs
  BY <1>2, OnlyFirst, UnderJobs
<1>3. router["a"] = "waiting" =>
        /\ ~sess[o].txInv /\ ~sess[o].rxInv /\ \A p \in sess[o].outq : ~p.inv
        /\ sess[A1].timer # "off" /\ ~sess[A1].idle
  BY DEF Pending, Waiting
<1>4. ~gen_intro(o)
  BY <1>1, GenIntroDoes, UnderJobs
<1>5. CASE verify_intro(o) /\ UNCHANGED tracked
  <2>1. Step(o, {"VerifyIntro"}, {"InformIntro"}, {"introbuf"}) /\ UNCHANGED net
    BY <1>1, <1>5, VerifyIntroDoes
  <2> QED BY <1>1, <1>5, <2>1, PendingQuiet
<1>6. CASE verify_introack(o) /\ UNCHANGED tracked
  <2>1. PICK S, F :
          /\ S \in {{}, {"GenStart"}} /\ Step(o, {"VerifyIntroAck"}, S, F) /\ UNCHANGED net
          /\ F \subseteq {"state", "idle", "token", "workbuf", "working"}
          /\ "idle" \in F => ~sess'[o].idle
    BY <1>1, <1>6, VerifyAckDoes
  <2> QED BY <1>1, <1>6, <2>1, PendingQuiet
<1>7. CASE verify_session_start(o) /\ UNCHANGED tracked
  <2>1. o[1] = "b" /\ o # A1
    BY <1>7, VerifyStartOneKey, KeyFacts
  <2>2. CASE /\ sess'[o].outq = LimQueued(o) /\ UNCHANGED net
             /\ Step(o, {"VerifyStart"}, {"Encrypt", "EnterLIMSent"},
                     {"key", "workbuf", "working", "outq", "limSent"})
    <3>1. \A p \in sess'[o].outq : p \in sess[o].outq \/ p.inv = sess[o].txInv
      BY <2>2 DEF LimQueued, Lim
    <3>2. /\ sess'[o].job = sess[o].job /\ sess'[o].txInv = sess[o].txInv
          /\ sess'[o].rxInv = sess[o].rxInv
      BY <2>2 DEF Step, But, Field
    <3>3. \A j \in BagToSet(jobs') : j \in BagToSet(jobs) \/ j.do \notin {"Decrypt", "Process"}
      BY <2>2 DEF Step, Change
    <3> QED BY <1>1, <1>3, <1>7, <2>1, <2>2, <3>1, <3>2, <3>3, PendingStays
  <2>3. CASE Step(o, {"VerifyStart"}, {}, {"working", "workbuf"}) /\ UNCHANGED net
    BY <1>1, <1>7, <2>3, PendingQuiet
  <2> QED BY <1>1, <1>7, <2>2, <2>3, VerifyStartDoes
<1>8. ASSUME NEW do, NEW st, EnterState(o, do, st), UNCHANGED tracked PROVE Pending'
  <2>1. Step(o, {do}, {"Encrypt"}, {"state", "idle"}) /\ ~sess'[o].idle /\ UNCHANGED net
    BY <1>1, <1>8, EnterDoes
  <2> QED BY <1>1, <1>8, <2>1, PendingQuiet
<1>9. CASE EncryptOutboundFrames(o) /\ UNCHANGED tracked
  <2>1. /\ Step(o, {"Encrypt"}, {}, {"outq"}) /\ sess'[o].outq = {}
        /\ \A d \in BagToSet(net') : d \in BagToSet(net) \/
             \E p \in sess[o].outq : d = Sealed(o[1], sess[o].key, p)
    BY <1>1, <1>9, EncryptDoes
  <2>2. /\ sess'[o].job = sess[o].job /\ sess'[o].txInv = sess[o].txInv
        /\ sess'[o].rxInv = sess[o].rxInv /\ sess'[o].timer = sess[o].timer
        /\ sess'[o].idle = sess[o].idle
    BY <2>1 DEF Step, But, Field
  <2>3. \A j \in BagToSet(jobs') : j \in BagToSet(jobs)
    BY <2>1 DEF Step, Change
  <2>4. router["a"] = "waiting" => \A d \in BagToSet(net') : d \in BagToSet(net) \/ Flagless(d)
    BY <1>3, <2>1 DEF Flagless, Sealed
  <2> QED BY <1>1, <1>3, <1>9, <2>1, <2>2, <2>3, <2>4, PendingStays
<1>10. CASE hmac_then_decrypt(o) /\ UNCHANGED tracked
  <2>1. UNCHANGED <<sess, net>> /\ Step(o, {"Decrypt"}, {"Process"}, {})
    BY <1>1, <1>10, DecryptDoes
  <2>2. PICK j \in BagToSet(jobs) :
          /\ j.do = "Decrypt" /\ j.obj = o
          /\ \A k \in BagToSet(jobs') : k \in BagToSet(jobs) \/
               /\ k = FrameJob("Process", o, j.frame.body)
               /\ j.frame.t = "FRAME" /\ j.frame.key = sess[o].key
    BY <1>1, <1>10, DecryptDoes
  <2>3. router["a"] = "waiting" => Flagless(j.frame)
    BY <2>2 DEF Pending, Waiting
  <2>4. router["a"] = "waiting" =>
          \A k \in BagToSet(jobs') : k \in BagToSet(jobs) \/ (k.do = "Process" /\ ~k.frame.inv)
    BY <2>2, <2>3 DEF Flagless, FrameJob
  <2> QED BY <1>1, <1>3, <1>10, <2>1, <2>4, PendingStays
<1>11. CASE gen_session_start(o) /\ UNCHANGED tracked
  <2>1. /\ Step(o, {"GenStart"}, {"EnterStartSent"}, {"key", "working"})
        /\ Sends(Start(o[1], sess[o].token, nonces[o[1]] + 1))
    BY <1>1, <1>11, GenStartDoes
  <2>2. \A d \in BagToSet(net') : d \in BagToSet(net) \/ d.t # "FRAME"
    BY <2>1, SendsAdds DEF Start
  <2> QED BY <1>1, <1>11, <2>1, <2>2, PendingQuiet
<1>12. CASE gen_introack(o)
  <2>1. UNCHANGED <<tracked, net>>
    BY <1>1, <1>12, GenAckDoes
  <2>2. PICK S \in {{}, {"PutSession"}}, F \in {{}, {"state"}} : Step(o, {"GenIntroAck"}, S, F)
    BY <1>1, <1>12, GenAckDoes
  <2> QED BY <1>1, <2>1, <2>2, PendingQuiet
<1>13. CASE put_session(o)
  <2>1. /\ On("PutSession", o) /\ Step(o, {"PutSession"}, {"EnterIntroAckSent"}, {"idle"})
        /\ tracked' = [tracked EXCEPT ![o[1]] = IF tracked[o[1]] = NoObj THEN o ELSE @]
        /\ Sends(IntroAck(o[1], o)) /\ ~sess'[o].idle
    BY <1>1, <1>13, PutDoes
  <2>2. o[1] # "a"
    BY <1>2, <2>1 DEF OpenJobs
  <2>3. tracked'["a"] = tracked["a"]
    BY <2>1, <2>2 DEF IInv, Tables
  <2>4. \A d \in BagToSet(net') : d \in BagToSet(net) \/ d.t # "FRAME"
    BY <2>1, SendsAdds DEF IntroAck
  <2> QED BY <1>1, <2>1, <2>3, <2>4, PendingQuiet
<1> QED
  BY <1>4, <1>5, <1>6, <1>7, <1>8, <1>9, <1>10, <1>11, <1>12, <1>13 DEF Worker

LEMMA LogicPending ==
    ASSUME BadRC = {}, IInv, Answering, Under, Pending, NEW o \in Obj, Logic(o)
    PROVE  Pending'
<1>1. Counted /\ A1 \in Obj /\ A1[1] = "a"
  BY KeyFacts DEF Answering
<1>2. router["a"] = "waiting" =>
        /\ ~sess[o].txInv /\ ~sess[o].rxInv /\ \A p \in sess[o].outq : ~p.inv
        /\ sess[A1].timer # "off" /\ ~sess[A1].idle
  BY DEF Pending, Waiting
<1>3. ASSUME NEW D, NEW S, Step(o, D, S, {"outq"}), UNCHANGED <<tracked, router, net>>,
             S \cap {"Decrypt", "Process"} = {},
             \A p \in sess'[o].outq : p \in sess[o].outq \/ p.inv = sess[o].txInv
      PROVE  Pending'
  <2>1. /\ sess'[o].job = sess[o].job /\ sess'[o].txInv = sess[o].txInv
        /\ sess'[o].rxInv = sess[o].rxInv /\ sess'[o].timer = sess[o].timer
        /\ sess'[o].idle = sess[o].idle
    BY <1>3 DEF Step, But, Field
  <2>2. \A j \in BagToSet(jobs') : j \in BagToSet(jobs) \/ j.do \notin {"Decrypt", "Process"}
    BY <1>3 DEF Step, Change
  <2> QED BY <1>2, <1>3, <2>1, <2>2, PendingStays
<1>4. CASE handle_verify_intro(o) /\ UNCHANGED <<tracked, router>>
  <2>1. PICK S, F :
          /\ S \in {{}, {"GenIntroAck"}} /\ Step(o, {"InformIntro"}, S, F) /\ F \subseteq {"workbuf", "working"}
          /\ UNCHANGED net
    BY <1>1, <1>4, InformIntroDoes
  <2> QED BY <1>4, <2>1, PendingQuiet
<1>5. CASE handle_frame_decrypt(o)
  <2>1. UNCHANGED <<tracked, router, net>>
    BY <1>1, <1>5, ProcessDoes
  <2>2. PICK j \in BagToSet(jobs) :
          /\ j.do = "Process" /\ j.obj = o
          /\ sess'[o].rxInv = (sess[o].rxInv \/ j.frame.inv)
          /\ \/ /\ Step(o, {"Process"}, {"Encrypt"},
                        {"rxInv", "idle", "outq", "limSent", "state", "timer"})
                /\ ~sess'[o].idle /\ sess'[o].timer = TimerCancelled(o)
                /\ \A p \in sess'[o].outq : p \in sess[o].outq \/ p.inv = sess[o].txInv
             \/ /\ Step(o, {"Process"}, {}, {"rxInv", "idle", "txInv"}) /\ ~sess'[o].idle
                /\ sess'[o].txInv \in {sess[o].txInv, sess[o].txInv \/ sess[o].rxInv \/ j.frame.inv}
    BY <1>1, <1>5, ProcessDoes
  <2>3. router["a"] = "waiting" => ~j.frame.inv
    BY <2>2 DEF Pending, Waiting
  <2>4. PICK S, F : S \in {{}, {"Encrypt"}} /\ Step(o, {"Process"}, S, F)
    BY <2>2
  <2>5. \A k \in BagToSet(jobs') : k \in BagToSet(jobs) \/ k.do \notin {"Decrypt", "Process"}
    BY <2>4 DEF Step, Change
  <2>6. /\ sess'[o].job = sess[o].job
        /\ sess'[o].timer \in {sess[o].timer, TimerCancelled(o)}
        /\ \A p \in sess'[o].outq : p \in sess[o].outq \/ p.inv = sess[o].txInv
        /\ sess'[o].txInv \in {sess[o].txInv, sess[o].txInv \/ sess[o].rxInv \/ j.frame.inv}
    BY <2>2 DEF Step, But, Field
  <2>7. sess[o].timer # "off" => sess'[o].timer # "off"
    BY <2>6 DEF TimerCancelled
  <2>8. router["a"] = "waiting" => ~sess'[o].txInv /\ ~sess'[o].rxInv
    BY <1>2, <2>2, <2>3, <2>6
  <2> QED BY <1>2, <2>1, <2>2, <2>4, <2>5, <2>6, <2>7, <2>8, PendingStays
<1>6. CASE close(o)
  <2>1. /\ Step(o, {}, {"Keepalive"}, {"txInv", "job"}) /\ sess[o].job = "answered"
        /\ UNCHANGED <<tracked, router>> /\ sess'[o].job = "none"
    BY <1>1, <1>6, CloseDoes
  <2>2. o = A1 /\ router["a"] # "waiting"
    BY <2>1 DEF Pending
  <2> QED BY <2>1, <2>2 DEF Pending, Waiting, Step
<1>7. CASE send_keepalive(o)
  <2>1. /\ Step(o, {"Keepalive"}, {"Encrypt"}, {"outq"}) /\ UNCHANGED <<tracked, router, net>>
        /\ \A p \in sess'[o].outq : p \in sess[o].outq \/ p.inv = sess[o].txInv
    BY <1>1, <1>7, KeepaliveDoes
  <2> QED BY <1>3, <2>1
<1>8. CASE TickRemove(o)
  <2>1. /\ Step(o, {}, {}, {"state", "timer"}) /\ UNCHANGED <<router, net>>
        /\ tracked' = [tracked EXCEPT ![o[1]] = NoObj] /\ tracked[o[1]] = o
        /\ sess[o].idle \/ sess[o].txInv
    BY <1>1, <1>8, RemoveDoes DEF TickRemove, Counted, is_invalidated
  <2>2. tracked \in [Server -> Obj \cup {NoObj}] /\ o[1] \in Server
    BY Objects DEF IInv, Tables
  <2>3. CASE o # A1
    <3>1. o[1] = "b"
      BY <2>1, <2>3, OnlyFirst, Objects
    <3>2. tracked'["a"] = tracked["a"]
      BY <2>1, <2>2, <3>1 DEF Server
    <3> QED BY <2>1, <2>3, <3>2, PendingQuiet
  <2>4. CASE o = A1
    <3>1. router["a"] # "waiting"
      BY <1>2, <2>1, <2>4
    <3>2. sess'[o].job = sess[o].job
      BY <2>1 DEF Step, But, Field
    <3> QED BY <2>1, <3>1, <3>2, PendingStays
  <2> QED BY <2>3, <2>4
<1>9. CASE TickKeep(o)
  <2>1. /\ Step(o, {}, {"Encrypt"}, {"outq"}) /\ UNCHANGED <<tracked, router, net>>
        /\ \A p \in sess'[o].outq : p \in sess[o].outq \/ p.inv = sess[o].txInv
    BY <1>1, <1>9, TickKeepDoes
  <2> QED BY <1>3, <2>1
<1>10. CASE handle_establish_timeout(o)
  <2>1. /\ Step(o, {}, {}, {"timer", "job"}) /\ UNCHANGED <<tracked, net>>
        /\ sess'[o].job = IF sess[o].job = "waiting" /\ sess[o].state = "Established"
                          THEN "answered" ELSE "none"
        /\ IF sess[o].job = "waiting"
           THEN router' = [router EXCEPT ![o[1]] =
                   IF sess[o].state = "Established" THEN "idle" ELSE "backoff"]
           ELSE router' = router
    BY <1>1, <1>10, TimeoutDoes
  <2>2. /\ sess'[o].txInv = sess[o].txInv /\ sess'[o].rxInv = sess[o].rxInv
        /\ sess'[o].outq = sess[o].outq /\ sess'[o].idle = sess[o].idle
    BY <2>1 DEF Step, But, Field
  <2>3. \A j \in BagToSet(jobs') : j \in BagToSet(jobs)
    BY <2>1 DEF Step, Change
  <2>4. CASE o # A1
    <3>1. sess[o].job = "none"
      BY <2>4 DEF Pending
    <3> QED BY <1>2, <2>1, <2>2, <2>3, <2>4, <3>1, PendingStays
  <2>5. CASE o = A1
    <3>1. router'["a"] # "waiting" /\ router'["b"] # "waiting"
      <4>1. CASE sess[o].job = "waiting"
        BY <1>1, <2>1, <2>5, <4>1, Objects DEF IInv, Tables, Pending
      <4>2. CASE sess[o].job # "waiting"
        BY <2>1, <2>5, <4>2 DEF Pending, Waiting
      <4> QED BY <4>1, <4>2
    <3>2. \A p \in Obj : p # A1 => sess'[p].job = "none"
      BY <2>1, <2>5 DEF Pending, Step
    <3> QED BY <3>1, <3>2 DEF Pending, Waiting
  <2> QED BY <2>4, <2>5
<1> QED
  BY <1>4, <1>5, <1>6, <1>7, <1>8, <1>9, <1>10 DEF Logic

LEMMA EarlyPending ==
    ASSUME NotTried \/ Introducing
    PROVE  Pending
<1>1. CASE NotTried
  BY <1>1, NoneIsNew, KeyFacts DEF NotTried, Pending, Waiting, Server
<1>2. CASE Introducing
  <2>1. /\ sess[A1].timer = "armed" /\ sess[A1].job = "waiting" /\ sess[A1].outq = {}
        /\ ~sess[A1].idle /\ ~sess[A1].txInv /\ ~sess[A1].rxInv
    BY <1>2 DEF Introducing, create_session
  <2>2. ASSUME NEW p \in Obj, p # A1
        PROVE  /\ sess[p].outq = {} /\ sess[p].job = "none"
               /\ ~sess[p].txInv /\ ~sess[p].rxInv
    BY <1>2, <2>2, NoneIsNew DEF Introducing
  <2>3. \A j \in BagToSet(jobs) : j.do = "GenIntro"
    BY <1>2 DEF Introducing, Job
  <2>4. /\ BagToSet(net) = {} /\ router["b"] = "idle" /\ tracked["a"] = A1
    BY <1>2 DEF Introducing
  <2> QED BY <2>1, <2>2, <2>3, <2>4 DEF Pending, Waiting
<1> QED
  BY <1>1, <1>2

LEMMA NextPending ==
    ASSUME MaxTries = 1, BadRC = {}, AttemptInv, Pending, [Next]_vars
    PROVE  Pending'
<1>1. IInv /\ Answering /\ Counted /\ A1 \in Obj
  BY KeyFacts DEF AttemptInv, Answering
<1>2. CASE NotTried
  <2>1. (NotTried \/ Introducing)'
    BY <1>1, <1>2, FirstTry
  <2> QED BY <2>1, EarlyPending, PTL
<1>3. CASE Introducing
  <2>1. CASE Introducing'
    BY <2>1, EarlyPending, PTL
  <2>2. CASE /\ Step(A1, {"GenIntro"}, {"EnterIntroSent"}, {"working"})
             /\ Sends(Intro("a")) /\ UNCHANGED <<tracked, router>>
    <3>1. \A d \in BagToSet(net') : d \in BagToSet(net) \/ d.t # "FRAME"
      BY <2>2, SendsAdds DEF Intro
    <3> QED BY <1>1, <2>2, <3>1, PendingQuiet
  <2> QED BY <1>1, <1>3, <2>1, <2>2, Introduced
<1>4. CASE Under
  <2>1. ~link_try_establish("a")
    BY <1>4 DEF link_try_establish, Under, Opened
  <2>2. ASSUME NEW o \in Obj, TimePasses(o) PROVE Pending'
    <3>1. /\ Step(o, {}, {}, {"timer", "idle"})
          /\ UNCHANGED <<tracked, router, net>>
          /\ sess[o].timer # "off" =>
               sess'[o].timer # "off" /\ (sess'[o].idle <=> sess[o].idle)
      BY <1>1, <2>2, TimePassesDoes
    <3>2. /\ sess'[o].job = sess[o].job /\ sess'[o].txInv = sess[o].txInv
          /\ sess'[o].rxInv = sess[o].rxInv /\ sess'[o].outq = sess[o].outq
      BY <3>1 DEF Step, But, Field
    <3>3. \A j \in BagToSet(jobs') : j \in BagToSet(jobs)
      BY <3>1 DEF Step, Change
    <3>4. router["a"] = "waiting" =>
            /\ ~sess[o].txInv /\ ~sess[o].rxInv /\ \A p \in sess[o].outq : ~p.inv
            /\ sess[A1].timer # "off" /\ ~sess[A1].idle
      BY DEF Pending, Waiting
    <3> QED BY <3>1, <3>2, <3>3, <3>4, PendingStays
  <2>3. ASSUME NEW d \in BagToSet(net), Lose(d) PROVE Pending'
    BY <2>3, InDifference, PendingNothing DEF Lose
  <2>4. CASE UNCHANGED vars
    BY <2>4, PendingNothing DEF vars
  <2> QED
    BY <1>1, <1>4, <2>1, <2>2, <2>3, <2>4, RecvPending, WorkerPending, LogicPending
       DEF Next, try_connect, connect_job_retry
<1> QED
  BY <1>2, <1>3, <1>4 DEF AttemptInv, Attempt

(* Within one attempt, and if no RC is refused, a router that waits for its
   establish job always has a session that will answer it: nothing frees the
   object with the job, empties m_sessions or stops its timer before the router
   has its answer, since no frame with an invalidation flag is under way by then
   (link_try_establish, handle_establish_timeout, Tick).  When b refuses a's RC, its
   close invalidates the session and Tick may remove it before the job is answered. *)
THEOREM PendingKeepsTimer == MaxTries = 1 /\ BadRC = {} => (Spec => []PendingHasTimer)
<1> SUFFICES ASSUME MaxTries = 1, BadRC = {} PROVE Spec => []PendingHasTimer
  OBVIOUS
<1>1. Init => Pending
  BY InitAttempt, EarlyPending
<1>2. AttemptInv /\ Pending /\ [Next]_vars => Pending'
  BY NextPending
<1>3. Pending => PendingHasTimer
  BY KeyFacts, Objects DEF Pending, Waiting, PendingHasTimer, Server
<1> QED
  BY <1>1, <1>2, <1>3, AttemptHolds, PTL DEF Spec

-----------------------------------------------------------------------------
(* The only START *)

LEMMA SendsCounts ==
    ASSUME NEW d, IsABag(net), Sends(d)
    PROVE  /\ \A e \in BagToSet(net') : e # d => e \in BagToSet(net) /\ net'[e] = net[e]
           /\ Copies = 1 /\ d \notin BagToSet(net) => net'[d] = 1
<1>1. PICK n \in 1..Copies : net' = net (+) [e \in {d} |-> n]
  BY DEF Sends
<1>2. PICK B : B = [e \in {d} |-> n]
  OBVIOUS
<1>3. IsABag(B) /\ BagToSet(B) = {d} /\ B[d] = n
  BY <1>1, <1>2, BoundAssumption DEF IsABag, BagToSet
<1>4. BagToSet(net') = BagToSet(net) \cup {d}
  BY <1>1, <1>2, <1>3, InSum
<1>5. Copies = 1 => n = 1
  BY <1>1
<1> QED
  BY <1>1, <1>2, <1>3, <1>4, <1>5, SumIsBag

LEMMA LoseCounts ==
    ASSUME NEW d, IsABag(net), net' = net (-) Queued(d)
    PROVE  \A e \in BagToSet(net') :
             /\ e \in BagToSet(net) /\ (e # d => net'[e] = net[e])
             /\ e = d => net[d] # 1
BY DifferenceIsBag, InDifference

LEMMA StartStays ==
    ASSUME StartOnce, NEW o \in Obj, NEW D, NEW S, NEW F, Step(o, D, S, F),
           o[1] = "b" =>
             /\ sess'[o].key = sess[o].key
             /\ IsStart(sess'[o].workbuf) => IsStart(sess[o].workbuf),
           \A d \in BagToSet(net') : IsStart(d) => d \in BagToSet(net) /\ net'[d] = net[d],
           On("EnterLIMSent", o)' =>
             "EnterLIMSent" \notin S /\ sess'[o].state \notin FrameState
    PROVE  StartOnce'
<1>1. \A p \in Obj : p # o => sess'[p] = sess[p] /\ (On("EnterLIMSent", p)' <=> On("EnterLIMSent", p))
  BY DEF Step, Change
<1>2. BHasKey' => BHasKey
  BY <1>1 DEF BHasKey
<1>3. \A p \in Obj : p[1] = "b" /\ IsStart(sess'[p].workbuf) => IsStart(sess[p].workbuf)
  BY <1>1
<1>4. ASSUME NEW d \in BagToSet(net'), IsStart(d)
      PROVE  /\ net'[d] = 1 /\ ~BHasKey'
             /\ \A p \in Obj : p[1] = "b" => ~IsStart(sess'[p].workbuf)
  BY <1>2, <1>3, <1>4 DEF StartOnce
<1>5. ASSUME NEW p \in Obj, NEW q \in Obj, p[1] = "b", q[1] = "b", IsStart(sess'[p].workbuf)
      PROVE  ~BHasKey' /\ (IsStart(sess'[q].workbuf) => p = q)
  BY <1>2, <1>3, <1>5 DEF StartOnce
<1>6. ASSUME NEW p \in Obj, On("EnterLIMSent", p)'
      PROVE  Single("EnterLIMSent", p)' /\ sess'[p].state \notin FrameState
  <2>1. CASE p # o
    <3>1. Single("EnterLIMSent", p) => Single("EnterLIMSent", p)'
      BY <2>1 DEF Step, Change
    <3> QED BY <1>1, <1>6, <2>1, <3>1 DEF StartOnce
  <2>2. CASE p = o
    <3>1. On("EnterLIMSent", o)
      BY <1>6, <2>2 DEF Step, Change, On, Job
    <3>2. Single("EnterLIMSent", o)
      BY <3>1 DEF StartOnce
    <3>3. "EnterLIMSent" \notin D
      BY <1>6, <2>2, <3>2 DEF Step, Change
    <3>4. Single("EnterLIMSent", o)'
      BY <1>6, <2>2, <3>2, <3>3 DEF Step, Change
    <3> QED BY <1>6, <2>2, <3>4
  <2> QED BY <2>1, <2>2
<1> QED
  BY <1>4, <1>5, <1>6 DEF StartOnce

LEMMA StartQuiet ==
    ASSUME StartOnce, NEW o \in Obj, NEW D, NEW S, NEW F, Step(o, D, S, F),
           "key" \notin F, "EnterLIMSent" \notin S,
           "workbuf" \in F => o[1] = "a" \/ ~IsStart(sess'[o].workbuf),
           "state" \in F => sess'[o].state \notin FrameState \/ ~On("EnterLIMSent", o)',
           \A d \in BagToSet(net') : IsStart(d) => d \in BagToSet(net) /\ net'[d] = net[d]
    PROVE  StartOnce'
<1>1. /\ sess'[o].key = sess[o].key
      /\ "workbuf" \notin F => sess'[o].workbuf = sess[o].workbuf
      /\ "state" \notin F => sess'[o].state = sess[o].state
  BY DEF Step, But, Field
<1>2. On("EnterLIMSent", o)' => On("EnterLIMSent", o)
  BY DEF Step, Change, On, Job
<1>3. On("EnterLIMSent", o) => sess[o].state \notin FrameState
  BY DEF StartOnce
<1>4. o[1] = "b" => o[1] # "a"
  OBVIOUS
<1> QED
  BY <1>1, <1>2, <1>3, <1>4, StartStays

LEMMA StartNothing ==
    ASSUME StartOnce, UNCHANGED <<sess, jobs>>,
           \A d \in BagToSet(net') : IsStart(d) => d \in BagToSet(net) /\ net'[d] = net[d]
    PROVE  StartOnce'
BY DEF StartOnce, BHasKey, On, Single

\* b takes the START out of the network.
LEMMA StartArrives ==
    ASSUME StartOnce, NEW o \in Obj, o[1] = "b", NEW D, NEW S, NEW F, Step(o, D, S, F),
           NEW d, d \in BagToSet(net), IsStart(d), sess'[o].workbuf = d,
           sess'[o].key = sess[o].key, "EnterLIMSent" \notin S,
           sess'[o].state \notin FrameState,
           \A e \in BagToSet(net') : ~IsStart(e)
    PROVE  StartOnce'
<1>1. \A p \in Obj : p # o => sess'[p] = sess[p] /\ (On("EnterLIMSent", p)' <=> On("EnterLIMSent", p))
  BY DEF Step, Change
<1>2. ~BHasKey'
  BY <1>1 DEF BHasKey, StartOnce
<1>3. \A p \in Obj : p[1] = "b" /\ IsStart(sess'[p].workbuf) => p = o
  BY <1>1 DEF StartOnce
<1>4. ASSUME NEW p \in Obj, On("EnterLIMSent", p)'
      PROVE  Single("EnterLIMSent", p)' /\ sess'[p].state \notin FrameState
  <2>1. On("EnterLIMSent", p)
    BY <1>4 DEF Step, Change, On, Job
  <2>2. Single("EnterLIMSent", p) /\ (p # o => sess'[p].state \notin FrameState)
    BY <1>1, <2>1 DEF StartOnce
  <2>3. p = o => "EnterLIMSent" \notin D
    BY <1>4, <2>2 DEF Step, Change
  <2>4. Single("EnterLIMSent", p)'
    BY <2>2, <2>3 DEF Step, Change
  <2> QED BY <2>2, <2>4
<1> QED
  BY <1>2, <1>3, <1>4 DEF StartOnce

LEMMA OnlyStart ==
    ASSUME IInv, Under, NEW d \in BagToSet(net), NEW e \in BagToSet(net), IsStart(d), IsStart(e)
    PROVE  d = e
<1>1. \A f \in {d, e} : f \in Datagram /\ f.t = "START" /\ f.from # "b" /\ StartKey(f)
  BY DEF IInv, DatagramOK, IsStart, Under, OneKey
<1>2. \A f \in {d, e} : f \in [t : {"START"}, from : Server, token : Obj, nonce : Nat]
  BY <1>1 DEF Datagram
<1>3. \A f \in {d, e} : f = [t |-> "START", from |-> f.from, token |-> f.token, nonce |-> f.nonce]
  BY <1>2
<1>4. d.from = "a" /\ e.from = "a" /\ d.token = e.token /\ d.nonce = e.nonce
  BY <1>1, <1>2 DEF StartKey, Server
<1> QED
  BY <1>3, <1>4

LEMMA RecvStart ==
    ASSUME IInv, Answering, Under, StartOnce, NEW x \in Server, NEW d \in BagToSet(net),
           handle_recvfrom(x, d)
    PROVE  StartOnce'
<1>1. Counted /\ A1 \in Obj
  BY KeyFacts DEF Answering
<1>2. /\ IsABag(net') /\ (x = "a" => ~IsStart(d))
      /\ \A e \in BagToSet(net') : e \in BagToSet(net) /\ (e # d => net'[e] = net[e])
      /\ net[d] = 1 => d \notin BagToSet(net')
  BY <1>1, RecvNet DEF DatagramOK, Peer, IsStart
<1>3. PICK o \in Obj :
        /\ o[1] = x
        /\ \/ /\ tracked[x] = NoObj /\ o = Fresh(x) /\ sess[o].state = "None"
              /\ on_intro(o, create_session(o), d)
           \/ /\ tracked[x] = o /\ sess[o].state # "None"
              /\ \/ sess[o].state = "Initial" /\ on_intro(o, sess[o], d)
                 \/ sess[o].state = "IntroSent" /\ on_intro_ack(o, d)
                 \/ sess[o].state = "IntroAckSent" /\ on_session_start(o, d)
                 \/ sess[o].state \in FrameState /\ decrypt_frame(o, d)
                 \/ UNCHANGED <<sess, jobs, tracked, connected>>
  BY RecvCases
<1>4. \A e \in BagToSet(net') : IsStart(e) => e \in BagToSet(net) /\ net'[e] = net[e] /\ ~IsStart(d)
  <2> SUFFICES ASSUME NEW e \in BagToSet(net'), IsStart(e)
               PROVE  e \in BagToSet(net) /\ net'[e] = net[e] /\ ~IsStart(d)
    OBVIOUS
  <2>1. e \in BagToSet(net) /\ net[e] = 1
    BY <1>2 DEF StartOnce
  <2>2. e # d
    BY <1>2, <2>1
  <2> QED BY <1>2, <2>1, <2>2, OnlyStart
<1>5. o[1] = "a" => ~On("EnterLIMSent", o)
  BY UnderJobs DEF OpenJobs
<1>6. ASSUME NEW D, NEW S, NEW F, Step(o, D, S, F), o[1] = "a", "EnterLIMSent" \notin S
      PROVE  StartOnce'
  <2>1. ~On("EnterLIMSent", o)'
    BY <1>5, <1>6 DEF Step, Change, On, Job
  <2> QED BY <1>4, <1>6, <2>1, StartStays
<1>7. ASSUME NEW S, NEW F, Step(o, {}, S, F), o[1] = "b", "EnterLIMSent" \notin S,
             sess'[o].key = sess[o].key, sess'[o].workbuf = d, sess'[o].state \notin FrameState
      PROVE  StartOnce'
  <2>1. CASE IsStart(d)
    BY <1>4, <1>7, <2>1, StartArrives
  <2>2. CASE ~IsStart(d)
    BY <1>4, <1>7, <2>2, StartStays
  <2> QED BY <2>1, <2>2
<1>8. CASE tracked[x] = NoObj
  <2>1. PICK s : s = create_session(o)
    OBVIOUS
  <2>2. /\ sess[o].state = "None" /\ on_intro(o, s, d) /\ s \in Session
        /\ s.key = NoKey /\ s.workbuf = Junk /\ ~IsStart(Junk)
    BY <1>3, <1>8, <2>1, Objects, NewSession, NoneIsNew, Messages DEF IsStart
  <2>3. sess[o].key = NoKey
    BY <2>2, NoneIsNew DEF Answering, Unborn
  <2>4. sess'[o].key = NoKey
    BY <1>1, <1>2, <2>2, OnIntroDoes
  <2>5. CASE /\ Step(o, {}, {}, Field) /\ d.t = "FRAME" /\ sess'[o].state = "Freed"
             /\ sess'[o].workbuf = Junk
    <3>1. CASE o[1] = "a"
      BY <1>6, <2>5, <3>1
    <3>2. CASE o[1] = "b"
      BY <1>4, <2>2, <2>3, <2>4, <2>5, <3>2, StartStays DEF FrameState
    <3> QED BY <3>1, <3>2, Objects
  <2>6. CASE /\ Step(o, {}, {"VerifyIntro"}, Field) /\ sess'[o].state = "IntroRecv"
             /\ sess'[o].workbuf = d
    <3>1. CASE o[1] = "a"
      BY <1>6, <2>6, <3>1
    <3>2. CASE o[1] = "b"
      BY <1>7, <2>3, <2>4, <2>6, <3>2 DEF FrameState
    <3> QED BY <3>1, <3>2, Objects
  <2> QED BY <1>1, <1>2, <2>2, <2>5, <2>6, OnIntroDoes
<1>9. CASE tracked[x] = o /\ sess[o].state = "Initial" /\ on_intro(o, sess[o], d)
  <2>1. o[1] = "a" /\ sess[o] \in Session
    BY <1>9, Objects DEF Answering, Answerer, IInv
  <2>2. PICK S \in {{}, {"VerifyIntro"}} : Step(o, {}, S, Field)
    BY <1>1, <1>2, <1>9, <2>1, OnIntroDoes
  <2> QED BY <1>6, <2>1, <2>2
<1>10. CASE tracked[x] = o /\ sess[o].state = "IntroSent" /\ on_intro_ack(o, d)
  <2>1. o[1] = "a"
    BY <1>10, Objects DEF IInv, ObjOK
  <2>2. PICK S, F : S \in {{}, {"VerifyIntroAck"}} /\ Step(o, {}, S, F)
    BY <1>1, <1>2, <1>10, OnAckDoes
  <2> QED BY <1>6, <2>1, <2>2
<1>11. CASE tracked[x] = o /\ sess[o].state = "IntroAckSent" /\ on_session_start(o, d)
  <2>1. CASE UNCHANGED <<sess, jobs>>
    BY <1>4, <2>1, StartNothing
  <2>2. CASE Step(o, {}, {"VerifyStart"}, {"workbuf", "working"}) /\ sess'[o].workbuf = d
    <3>1. sess'[o].key = sess[o].key /\ sess'[o].state = "IntroAckSent"
      BY <1>11, <2>2 DEF Step, But, Field
    <3>2. CASE o[1] = "a"
      BY <1>6, <2>2, <3>2
    <3>3. CASE o[1] = "b"
      BY <1>7, <2>2, <3>1, <3>3 DEF FrameState
    <3> QED BY <3>2, <3>3, Objects
  <2> QED BY <1>1, <1>2, <1>11, <2>1, <2>2, OnStartDoes
<1>12. CASE tracked[x] = o /\ decrypt_frame(o, d)
  <2>1. Step(o, {}, {"Decrypt"}, {})
    BY <1>1, <1>2, <1>12, DecryptFrameDoes
  <2> QED BY <1>4, <2>1, StartQuiet
<1>13. CASE UNCHANGED <<sess, jobs, tracked, connected>>
  BY <1>4, <1>13, StartNothing
<1> QED
  BY <1>3, <1>8, <1>9, <1>10, <1>11, <1>12, <1>13

LEMMA GenStartStart ==
    ASSUME Copies = 1, IInv, Answering, Under, StartOnce, gen_session_start(A1)
    PROVE  StartOnce'
<1>1. Counted /\ A1 \in Obj /\ A1[1] = "a" /\ \A p \in Obj : p[1] = "b" => p # A1
  BY KeyFacts DEF Answering
<1>2. PICK d : d = Start(A1[1], sess[A1].token, nonces[A1[1]] + 1)
  OBVIOUS
<1>3. /\ On("GenStart", A1) /\ Step(A1, {"GenStart"}, {"EnterStartSent"}, {"key", "working"})
      /\ Sends(d) /\ IsStart(d)
  BY <1>1, <1>2, GenStartDoes DEF IsStart, Start
<1>4. ~AHasKey
  BY <1>3 DEF Under, Progress
<1>5. \A e \in BagToSet(net) : ~IsStart(e)
  BY <1>4 DEF Under, OneKey, IsStart, StartKey
<1>6. \A p \in Obj : p[1] = "b" => ~IsStart(sess[p].workbuf)
  BY <1>4 DEF Under, OneKey, IsStart, StartKey
<1>7. ~BHasKey
  BY GenStartOneKey
<1>8. \A p \in Obj : p # A1 => sess'[p] = sess[p]
  BY <1>3 DEF Step
<1>9. ~BHasKey' /\ \A p \in Obj : p[1] = "b" => ~IsStart(sess'[p].workbuf)
  BY <1>1, <1>6, <1>7, <1>8 DEF BHasKey
<1>10. \A e \in BagToSet(net') : IsStart(e) => net'[e] = 1
  BY <1>1, <1>3, <1>5, SendsCounts DEF Counted
<1>11. ASSUME NEW p \in Obj, On("EnterLIMSent", p)'
       PROVE  Single("EnterLIMSent", p)' /\ sess'[p].state \notin FrameState
  <2>1. /\ On("EnterLIMSent", p)' <=> On("EnterLIMSent", p)
        /\ Single("EnterLIMSent", p) => Single("EnterLIMSent", p)'
    BY <1>3 DEF Step, Change
  <2>2. p # A1
    BY <1>1, <1>11, <2>1, UnderJobs DEF OpenJobs
  <2> QED BY <1>8, <1>11, <2>1, <2>2 DEF StartOnce
<1> QED
  BY <1>9, <1>10, <1>11 DEF StartOnce

LEMMA VerifyStartStart ==
    ASSUME IInv, Answering, Under, StartOnce, NEW o \in Obj, verify_session_start(o)
    PROVE  StartOnce'
<1>1. Counted /\ o[1] = "b" /\ Answerer(o)
  BY VerifyStartOneKey DEF Answering
<1>2. UNCHANGED net /\ ~IsStart(Junk) /\ (IsStart(sess[o].workbuf) <=> sess[o].workbuf.t = "START")
  BY <1>1, VerifyStartDoes, Messages DEF IsStart
<1>3. CASE /\ sess[o].workbuf.t = "START" /\ sess'[o].workbuf = Junk
           /\ Step(o, {"VerifyStart"}, {"Encrypt", "EnterLIMSent"},
                   {"key", "workbuf", "working", "outq", "limSent"})
  <2>1. /\ ~BHasKey
        /\ \A p \in Obj : p[1] = "b" /\ IsStart(sess[p].workbuf) => p = o
        /\ \A d \in BagToSet(net) : ~IsStart(d)
    BY <1>1, <1>2, <1>3 DEF StartOnce
  <2>2. sess[o].key = NoKey
    BY <1>1, <2>1 DEF BHasKey
  <2>3. sess[o].state \notin FrameState /\ ~On("EnterLIMSent", o)
    <3>1. sess[o].state \notin {"LIMSent", "Established"}
      BY <2>2 DEF Under, OneKey
    <3>2. ~On("EnterLIMSent", o)
      BY <2>2 DEF Under, OneKey, On, Job
    <3> QED BY <1>1, <3>1, <3>2 DEF Answerer, FrameState
  <2>4. \A p \in Obj : p # o => sess'[p] = sess[p]
    BY <1>3 DEF Step
  <2>5. sess'[o].state = sess[o].state /\ Single("EnterLIMSent", o)'
    BY <1>3, <2>3 DEF Step, Change, But, Field
  <2>6. \A p \in Obj : p[1] = "b" => ~IsStart(sess'[p].workbuf)
    BY <1>2, <1>3, <2>1, <2>4
  <2>7. ASSUME NEW p \in Obj, On("EnterLIMSent", p)'
        PROVE  Single("EnterLIMSent", p)' /\ sess'[p].state \notin FrameState
    <3>1. CASE p = o
      BY <2>3, <2>5, <3>1
    <3>2. CASE p # o
      BY <1>3, <2>4, <2>7, <3>2 DEF StartOnce, Step, Change
    <3> QED BY <3>1, <3>2
  <2> QED BY <1>2, <2>1, <2>6, <2>7 DEF StartOnce
<1>4. CASE /\ sess'[o].workbuf = IF sess[o].workbuf.t = "START" THEN Junk ELSE sess[o].workbuf
           /\ Step(o, {"VerifyStart"}, {}, {"working", "workbuf"})
  BY <1>2, <1>4, StartQuiet
<1> QED
  BY <1>1, <1>3, <1>4, VerifyStartDoes

LEMMA WorkerStart ==
    ASSUME Copies = 1, IInv, Answering, Under, StartOnce, NEW o \in Obj, Worker(o)
    PROVE  StartOnce'
<1>1. Counted /\ ~IsStart(Junk)
  BY Messages DEF Answering, IsStart
<1>2. net' = net => \A d \in BagToSet(net') : IsStart(d) => d \in BagToSet(net) /\ net'[d] = net[d]
  OBVIOUS
<1>3. ~gen_intro(o)
  BY <1>1, GenIntroDoes, UnderJobs
<1>4. CASE verify_intro(o)
  <2>1. Step(o, {"VerifyIntro"}, {"InformIntro"}, {"introbuf"}) /\ UNCHANGED net
    BY <1>1, <1>4, VerifyIntroDoes
  <2> QED BY <1>2, <2>1, StartQuiet
<1>5. CASE verify_introack(o)
  <2>1. UNCHANGED net
    BY <1>1, <1>5, VerifyAckDoes
  <2>2. CASE /\ sess'[o].workbuf = Junk /\ sess'[o].state = "IntroAckRecv"
             /\ Step(o, {"VerifyIntroAck"}, {"GenStart"},
                     {"state", "idle", "token", "workbuf", "working"})
    BY <1>1, <1>2, <2>1, <2>2, StartQuiet DEF FrameState
  <2>3. CASE Step(o, {"VerifyIntroAck"}, {}, {"working"})
    BY <1>2, <2>1, <2>3, StartQuiet
  <2> QED BY <1>1, <1>5, <2>2, <2>3, VerifyAckDoes
<1>6. ASSUME NEW do, NEW st, EnterState(o, do, st),
             st \in FrameState => do = "EnterLIMSent" \/ o[1] = "a"
      PROVE  StartOnce'
  <2>1. /\ On(do, o) /\ Step(o, {do}, {"Encrypt"}, {"state", "idle"})
        /\ sess'[o].state = st /\ UNCHANGED net
    BY <1>1, <1>6, EnterDoes
  <2>2. o[1] = "a" => ~On("EnterLIMSent", o)
    BY UnderJobs DEF OpenJobs
  <2>3. On("EnterLIMSent", o) => Single("EnterLIMSent", o)
    BY DEF StartOnce
  <2>4. do = "EnterLIMSent" => ~On("EnterLIMSent", o)'
    BY <2>1, <2>3 DEF Step, Change
  <2>5. o[1] = "a" => ~On("EnterLIMSent", o)'
    BY <2>1, <2>2 DEF Step, Change, On, Job
  <2> QED BY <1>2, <1>6, <2>1, <2>4, <2>5, StartQuiet
<1>7. CASE EnterState(o, "EnterStartSent", "SessionStartSent")
  <2>1. On("EnterStartSent", o)
    BY <1>1, <1>7, EnterDoes
  <2>2. o[1] = "a"
    BY <2>1, Objects DEF Answering, Answerer
  <2> QED BY <1>6, <1>7, <2>2
<1>8. CASE EncryptOutboundFrames(o)
  <2>1. /\ Step(o, {"Encrypt"}, {}, {"outq"})
        /\ \A d \in BagToSet(net') : d \in BagToSet(net) \/
             \E p \in sess[o].outq : d = Sealed(o[1], sess[o].key, p)
        /\ \A d \in BagToSet(net) : d.t # "FRAME" => net'[d] = net[d]
    BY <1>1, <1>8, EncryptDoes
  <2>2. \A d \in BagToSet(net') : IsStart(d) => d \in BagToSet(net) /\ net'[d] = net[d]
    BY <2>1 DEF Sealed, IsStart
  <2> QED BY <2>1, <2>2, StartQuiet
<1>9. CASE hmac_then_decrypt(o)
  <2>1. UNCHANGED net /\ Step(o, {"Decrypt"}, {"Process"}, {})
    BY <1>1, <1>9, DecryptDoes
  <2> QED BY <1>2, <2>1, StartQuiet
<1>10. CASE gen_session_start(o)
  <2>1. o = A1
    BY <1>1, <1>10, GenStartDoes, UnderJobs DEF OpenerJobs
  <2> QED BY <1>10, <2>1, GenStartStart
<1>11. CASE gen_introack(o)
  <2>1. UNCHANGED net
    BY <1>1, <1>11, GenAckDoes
  <2>2. CASE sess'[o].state = "Freed" /\ Step(o, {"GenIntroAck"}, {}, {"state"})
    BY <1>2, <2>1, <2>2, StartQuiet DEF FrameState
  <2>3. CASE Step(o, {"GenIntroAck"}, {"PutSession"}, {})
    BY <1>2, <2>1, <2>3, StartQuiet
  <2> QED BY <1>1, <1>11, <2>2, <2>3, GenAckDoes
<1>12. CASE put_session(o)
  <2>1. /\ Step(o, {"PutSession"}, {"EnterIntroAckSent"}, {"idle"})
        /\ Sends(IntroAck(o[1], o))
    BY <1>1, <1>12, PutDoes
  <2>2. ~IsStart(IntroAck(o[1], o))
    BY DEF IsStart, IntroAck
  <2>3. \A d \in BagToSet(net') : IsStart(d) => d \in BagToSet(net) /\ net'[d] = net[d]
    BY <1>1, <2>1, <2>2, SendsCounts DEF Counted
  <2> QED BY <2>1, <2>3, StartQuiet
<1> QED
  BY <1>3, <1>4, <1>5, <1>6, <1>7, <1>8, <1>9, <1>10, <1>11, <1>12, VerifyStartStart
     DEF Worker, FrameState

LEMMA LogicStart ==
    ASSUME IInv, Answering, Under, StartOnce, NEW o \in Obj, Logic(o)
    PROVE  StartOnce'
<1>1. Counted /\ ~IsStart(Junk)
  BY Messages DEF Answering, IsStart
<1>2. net' = net => \A d \in BagToSet(net') : IsStart(d) => d \in BagToSet(net) /\ net'[d] = net[d]
  OBVIOUS
<1>3. CASE handle_verify_intro(o)
  <2>1. /\ UNCHANGED net
        /\ \/ /\ Step(o, {"InformIntro"}, {"GenIntroAck"}, {"workbuf", "working"})
              /\ sess'[o].workbuf = Junk
           \/ Step(o, {"InformIntro"}, {}, {"working"})
    BY <1>1, <1>3, InformIntroDoes
  <2> QED BY <1>1, <1>2, <2>1, StartQuiet
<1>4. CASE handle_frame_decrypt(o)
  <2>1. PICK S, F :
          /\ Step(o, {"Process"}, S, F) /\ S \subseteq {"Keepalive", "Encrypt"}
          /\ F \cap {"key", "workbuf"} = {}
    BY <1>1, <1>4, ProcessDoes
  <2>2. UNCHANGED net /\ \E j \in BagToSet(jobs) : j.do = "Process" /\ j.obj = o
    BY <1>1, <1>4, ProcessDoes
  <2>3. sess[o].state # "Freed"
    BY <2>1 DEF Step
  <2>4. ~On("EnterLIMSent", o)
    <3>1. CASE o[1] = "a"
      BY <3>1, UnderJobs DEF OpenJobs
    <3>2. CASE o[1] = "b"
      BY <2>2, <2>3, <3>2 DEF Answering, Answerer, StartOnce
    <3> QED BY <3>1, <3>2, Objects
  <2>5. ~On("EnterLIMSent", o)'
    BY <2>1, <2>4 DEF Step, Change, On, Job
  <2>6. "key" \notin F /\ "workbuf" \notin F /\ "EnterLIMSent" \notin S
    BY <2>1
  <2> QED BY <1>2, <2>1, <2>2, <2>5, <2>6, StartQuiet
<1>5. CASE close(o)
  <2>1. Step(o, {}, {"Keepalive"}, {"txInv", "job"}) /\ UNCHANGED net
    BY <1>1, <1>5, CloseDoes
  <2> QED BY <1>2, <2>1, StartQuiet
<1>6. CASE send_keepalive(o)
  <2>1. Step(o, {"Keepalive"}, {"Encrypt"}, {"outq"}) /\ UNCHANGED net
    BY <1>1, <1>6, KeepaliveDoes
  <2> QED BY <1>2, <2>1, StartQuiet
<1>7. CASE TickRemove(o)
  <2>1. Step(o, {}, {}, {"state", "timer"}) /\ sess'[o].state = "Freed" /\ UNCHANGED net
    BY <1>1, <1>7, RemoveDoes DEF TickRemove, Counted
  <2> QED BY <1>2, <2>1, StartQuiet DEF FrameState
<1>8. CASE TickKeep(o)
  <2>1. Step(o, {}, {"Encrypt"}, {"outq"}) /\ UNCHANGED net
    BY <1>1, <1>8, TickKeepDoes
  <2> QED BY <1>2, <2>1, StartQuiet
<1>9. CASE handle_establish_timeout(o)
  <2>1. Step(o, {}, {}, {"timer", "job"}) /\ UNCHANGED net
    BY <1>1, <1>9, TimeoutDoes
  <2> QED BY <1>2, <2>1, StartQuiet
<1> QED
  BY <1>3, <1>4, <1>5, <1>6, <1>7, <1>8, <1>9 DEF Logic

LEMMA EarlyStart ==
    ASSUME NotTried \/ Introducing
    PROVE  StartOnce
<1>1. BagToSet(net) = {} /\ ~IsStart(Junk)
  BY Messages DEF NotTried, Introducing, IsStart
<1>2. \A p \in Obj : p[1] = "b" => ~IsStart(sess[p].workbuf)
  BY <1>1, NoneIsNew, KeyFacts DEF NotTried, Introducing
<1>3. \A p : ~On("EnterLIMSent", p)
  BY DEF NotTried, Introducing, On, Job
<1> QED
  BY <1>1, <1>2, <1>3 DEF StartOnce

LEMMA NextStart ==
    ASSUME MaxTries = 1, Copies = 1, AttemptInv, StartOnce, [Next]_vars
    PROVE  StartOnce'
<1>1. IInv /\ Answering /\ Counted /\ A1 \in Obj
  BY KeyFacts DEF AttemptInv, Answering
<1>2. CASE NotTried
  <2>1. (NotTried \/ Introducing)'
    BY <1>1, <1>2, FirstTry
  <2> QED BY <2>1, EarlyStart, PTL
<1>3. CASE Introducing
  <2>1. CASE Introducing'
    BY <2>1, EarlyStart, PTL
  <2>2. CASE /\ Step(A1, {"GenIntro"}, {"EnterIntroSent"}, {"working"})
             /\ Sends(Intro("a")) /\ UNCHANGED <<tracked, router>>
    <3>1. ~IsStart(Intro("a"))
      BY DEF IsStart, Intro
    <3>2. \A d \in BagToSet(net') : IsStart(d) => d \in BagToSet(net) /\ net'[d] = net[d]
      BY <1>1, <2>2, <3>1, SendsCounts DEF Counted
    <3> QED BY <1>1, <2>2, <3>2, StartQuiet
  <2> QED BY <1>1, <1>3, <2>1, <2>2, Introduced
<1>4. CASE Under
  <2>1. ~link_try_establish("a")
    BY <1>4 DEF link_try_establish, Under, Opened
  <2>2. ASSUME NEW o \in Obj, TimePasses(o) PROVE StartOnce'
    <3>1. Step(o, {}, {}, {"timer", "idle"}) /\ UNCHANGED net
      BY <1>1, <2>2, TimePassesDoes
    <3> QED BY <3>1, StartQuiet
  <2>3. ASSUME NEW d \in BagToSet(net), Lose(d) PROVE StartOnce'
    <3>1. \A e \in BagToSet(net') : IsStart(e) => e \in BagToSet(net) /\ net'[e] = net[e]
      BY <1>1, <2>3, LoseCounts DEF Lose, Counted, StartOnce
    <3> QED BY <2>3, <3>1, StartNothing DEF Lose
  <2>4. CASE UNCHANGED vars
    BY <2>4, StartNothing DEF vars
  <2> QED
    BY <1>1, <1>4, <2>1, <2>2, <2>3, <2>4, RecvStart, WorkerStart, LogicStart
       DEF Next, try_connect, connect_job_retry
<1> QED
  BY <1>2, <1>3, <1>4 DEF AttemptInv, Attempt

-----------------------------------------------------------------------------
(* An established session stays established *)

Lasts(o) == sess[o].state = "Established" => sess'[o].state \in {"Established", "Freed"}

LEMMA OthersLast ==
    ASSUME NEW o \in Obj, NEW D, NEW S, NEW F, Step(o, D, S, F), "state" \in F => Lasts(o)
    PROVE  \A p \in Obj : Lasts(p)
<1>1. "state" \notin F => sess'[o].state = sess[o].state
  BY DEF Step, But, Field
<1> QED
  BY <1>1 DEF Step, Lasts

LEMMA RecvLasts ==
    ASSUME IInv, Answering, NEW x \in Server, NEW d \in BagToSet(net), handle_recvfrom(x, d)
    PROVE  \A p \in Obj : Lasts(p)
<1>1. Counted /\ IsABag(net')
  BY RecvNet DEF Answering
<1>2. PICK o \in Obj :
        /\ o[1] = x
        /\ \/ /\ tracked[x] = NoObj /\ o = Fresh(x) /\ sess[o].state = "None"
              /\ on_intro(o, create_session(o), d)
           \/ /\ tracked[x] = o /\ sess[o].state # "None"
              /\ \/ sess[o].state = "Initial" /\ on_intro(o, sess[o], d)
                 \/ sess[o].state = "IntroSent" /\ on_intro_ack(o, d)
                 \/ sess[o].state = "IntroAckSent" /\ on_session_start(o, d)
                 \/ sess[o].state \in FrameState /\ decrypt_frame(o, d)
                 \/ UNCHANGED <<sess, jobs, tracked, connected>>
  BY RecvCases
<1>3. create_session(o) \in Session /\ sess[o] \in Session
  BY NewSession DEF IInv
<1>4. CASE sess[o].state \in {"None", "Initial"} /\ \E s \in Session : on_intro(o, s, d)
  <2>1. \E S : Step(o, {}, S, Field)
    BY <1>1, <1>4, OnIntroDoes
  <2> QED BY <1>4, <2>1, OthersLast DEF Lasts
<1>5. CASE sess[o].state = "IntroSent" /\ on_intro_ack(o, d)
  <2>1. \E S, F : Step(o, {}, S, F)
    BY <1>1, <1>5, OnAckDoes
  <2> QED BY <1>5, <2>1, OthersLast DEF Lasts
<1>6. CASE sess[o].state = "IntroAckSent" /\ on_session_start(o, d)
  <2>1. UNCHANGED sess \/ \E S, F : Step(o, {}, S, F)
    BY <1>1, <1>6, OnStartDoes
  <2> QED BY <1>6, <2>1, OthersLast DEF Lasts
<1>7. CASE decrypt_frame(o, d) \/ UNCHANGED sess
  BY <1>7 DEF decrypt_frame, Lasts
<1> QED
  BY <1>2, <1>3, <1>4, <1>5, <1>6, <1>7

LEMMA WorkerLasts ==
    ASSUME IInv, Answering, Under, StartOnce, NEW o \in Obj, Worker(o)
    PROVE  \A p \in Obj : Lasts(p)
<1>1. Counted /\ (o[1] = "b" => Answerer(o)) /\ Progress
  BY DEF Answering, Under
<1>2. ASSUME NEW do, On(do, o), do \notin {"VerifyIntro", "InformIntro"}, o[1] = "a"
      PROVE  o = A1 /\ do \in OpenJobs
  BY <1>2, OnlyFirst, UnderJobs
<1>3. ASSUME NEW D, NEW S, NEW F, Step(o, D, S, F), "state" \notin F
      PROVE  \A p \in Obj : Lasts(p)
  BY <1>3, OthersLast
<1>4. ~gen_intro(o)
  BY <1>1, GenIntroDoes, UnderJobs
<1>5. CASE verify_introack(o)
  <2>1. On("VerifyIntroAck", o) /\ o = A1
    BY <1>1, <1>5, VerifyAckDoes, UnderJobs DEF OpenerJobs
  <2>2. CASE /\ sess[o].workbuf.t = "INTROACK"
             /\ Step(o, {"VerifyIntroAck"}, {"GenStart"},
                     {"state", "idle", "token", "workbuf", "working"})
    <3>1. sess[o].state # "Established"
      BY <1>1, <2>1, <2>2 DEF Progress, FrameState
    <3> QED BY <2>2, <3>1, OthersLast DEF Lasts
  <2>3. CASE Step(o, {"VerifyIntroAck"}, {}, {"working"})
    BY <1>3, <2>3
  <2> QED BY <1>1, <1>5, <2>2, <2>3, VerifyAckDoes
<1>6. ASSUME NEW do \in EnterJobs, NEW st, EnterState(o, do, st)
      PROVE  \A p \in Obj : Lasts(p)
  <2>1. On(do, o) /\ Step(o, {do}, {"Encrypt"}, {"state", "idle"})
    BY <1>1, <1>6, EnterDoes
  <2>2. sess[o].state # "Freed"
    BY <2>1 DEF Step
  <2>3. sess[o].state # "Established"
    <3>1. CASE o[1] = "a"
      <4>1. o = A1 /\ do \in {"EnterIntroSent", "EnterStartSent"}
        BY <1>2, <1>6, <2>1, <3>1 DEF EnterJobs, OpenJobs
      <4> QED BY <1>1, <2>1, <2>2, <4>1 DEF Progress
    <3>2. CASE o[1] = "b"
      <4>1. do \in {"EnterIntroAckSent", "EnterLIMSent"}
        BY <1>1, <1>6, <2>1, <3>2, UnderJobs DEF EnterJobs, OpenerJobs, Answerer
      <4>2. CASE do = "EnterIntroAckSent"
        BY <1>1, <2>1, <3>2, <4>2 DEF Answerer, Steps
      <4>3. CASE do = "EnterLIMSent"
        BY <2>1, <4>3 DEF StartOnce, FrameState
      <4> QED BY <4>1, <4>2, <4>3
    <3> QED BY <3>1, <3>2, Objects
  <2> QED BY <2>1, <2>3, OthersLast DEF Lasts
<1>7. CASE gen_introack(o)
  <2>1. \/ /\ sess'[o].state = "Freed" /\ Step(o, {"GenIntroAck"}, {}, {"state"})
        \/ Step(o, {"GenIntroAck"}, {"PutSession"}, {})
    BY <1>1, <1>7, GenAckDoes
  <2> QED BY <2>1, OthersLast DEF Lasts
<1>8. CASE verify_intro(o)
  <2>1. Step(o, {"VerifyIntro"}, {"InformIntro"}, {"introbuf"})
    BY <1>1, <1>8, VerifyIntroDoes
  <2> QED BY <1>3, <2>1
<1>9. CASE verify_session_start(o)
  <2>1. \E S, F : Step(o, {"VerifyStart"}, S, F) /\ "state" \notin F
    BY <1>1, <1>9, VerifyStartDoes
  <2> QED BY <1>3, <2>1
<1>10. CASE EncryptOutboundFrames(o)
  <2>1. Step(o, {"Encrypt"}, {}, {"outq"})
    BY <1>1, <1>10, EncryptDoes
  <2> QED BY <1>3, <2>1
<1>11. CASE hmac_then_decrypt(o)
  BY <1>11 DEF hmac_then_decrypt, Lasts
<1>12. CASE gen_session_start(o)
  <2>1. Step(o, {"GenStart"}, {"EnterStartSent"}, {"key", "working"})
    BY <1>1, <1>12, GenStartDoes
  <2> QED BY <1>3, <2>1
<1>13. CASE put_session(o)
  <2>1. Step(o, {"PutSession"}, {"EnterIntroAckSent"}, {"idle"})
    BY <1>1, <1>13, PutDoes
  <2> QED BY <1>3, <2>1
<1> QED
  BY <1>4, <1>5, <1>6, <1>7, <1>8, <1>9, <1>10, <1>11, <1>12, <1>13 DEF Worker, EnterJobs

LEMMA LogicLasts ==
    ASSUME IInv, Answering, NEW o \in Obj, Logic(o)
    PROVE  \A p \in Obj : Lasts(p)
<1>1. Counted
  BY DEF Answering
<1>2. PICK D, S, F : Step(o, D, S, F) /\ ("state" \in F => sess'[o].state \in {"Established", "Freed"})
  <2>1. CASE handle_verify_intro(o)
    BY <1>1, <2>1, InformIntroDoes
  <2>2. CASE handle_frame_decrypt(o)
    BY <1>1, <2>2, ProcessDoes
  <2>3. CASE close(o)
    BY <1>1, <2>3, CloseDoes
  <2>4. CASE send_keepalive(o)
    BY <1>1, <2>4, KeepaliveDoes
  <2>5. CASE TickRemove(o)
    BY <1>1, <2>5, RemoveDoes DEF TickRemove, Counted
  <2>6. CASE TickKeep(o)
    BY <1>1, <2>6, TickKeepDoes
  <2>7. CASE handle_establish_timeout(o)
    BY <1>1, <2>7, TimeoutDoes
  <2> QED BY <2>1, <2>2, <2>3, <2>4, <2>5, <2>6, <2>7 DEF Logic
<1> QED
  BY <1>2, OthersLast DEF Lasts

(* Within one attempt, and if the network duplicates nothing, a session that is
   established stays established until it is removed: the hook that sends the LIM
   runs once, before the peer's LIM can count, and the opener's hooks have all
   entered their state by the time it derives a key (EnterState, send_LIM,
   handle_verify_session_start).  A second copy of the START breaks this: its
   verification ends with EnterState(eLIMSent) again. *)
THEOREM EstablishedLasts == MaxTries = 1 /\ Copies = 1 => (Spec => EstablishedStays)
<1> SUFFICES ASSUME MaxTries = 1, Copies = 1 PROVE Spec => EstablishedStays
  OBVIOUS
<1>1. Init => StartOnce
  BY InitAttempt, EarlyStart
<1>2. AttemptInv /\ StartOnce /\ [Next]_vars => StartOnce'
  BY NextStart
<1>3. AttemptInv /\ StartOnce /\ [Next]_vars =>
        [\A o \in Obj : sess[o].state = "Established" =>
            sess'[o].state \in {"Established", "Freed"}]_vars
  <2> SUFFICES ASSUME AttemptInv, StartOnce, Next PROVE \A o \in Obj : Lasts(o)
    BY DEF Lasts
  <2>1. IInv /\ Answering /\ Counted
    BY DEF AttemptInv, Answering
  <2>2. CASE NotTried \/ Introducing
    <3>1. \A o \in Obj : sess[o].state \in {"None", "Initial"}
      <4>1. None.state = "None"
        BY DEF None, create_session
      <4>2. Introducing => sess[A1].state = "Initial"
        BY DEF Introducing, create_session
      <4> QED BY <2>2, <4>1, <4>2 DEF NotTried, Introducing
    <3> QED BY <3>1 DEF Lasts
  <2>3. CASE Under
    <3>1. ~link_try_establish("a")
      BY <2>3 DEF link_try_establish, Under, Opened
    <3>2. ASSUME NEW o \in Obj, TimePasses(o) PROVE \A p \in Obj : Lasts(p)
      <4>1. Step(o, {}, {}, {"timer", "idle"})
        BY <2>1, <3>2, TimePassesDoes
      <4> QED BY <4>1, OthersLast
    <3>3. ASSUME NEW d \in BagToSet(net), Lose(d) PROVE \A p \in Obj : Lasts(p)
      BY <3>3 DEF Lose, Lasts
    <3> QED
      BY <2>1, <2>3, <3>1, <3>2, <3>3, RecvLasts, WorkerLasts, LogicLasts
         DEF Next, try_connect, connect_job_retry
  <2> QED BY <2>2, <2>3 DEF AttemptInv, Attempt
<1> QED
  BY <1>1, <1>2, <1>3, AttemptHolds, PTL DEF Spec, EstablishedStays
=============================================================================
