---------------------------- MODULE MCIwpSession ----------------------------
(***************************************************************************)
(* Small instances of IwpSession, its fairness, and what a session's life  *)
(* comes to.                                                               *)
(***************************************************************************)
EXTENDS IwpSession

\* Bounds on what is under way at once.
CONSTANTS MaxInFlight, MaxQueued
Small == BagCardinality(net) <= MaxInFlight /\ BagCardinality(jobs) <= MaxQueued

\* The jobs of the handshake.
HandshakeJobs ==
    {Job(do, o) : do \in {"GenIntro", "VerifyIntro", "InformIntro", "GenIntroAck",
                          "VerifyIntroAck", "GenStart", "VerifyStart", "PutSession"}
                         \cup EnterJobs,
                  o \in Obj}

\* The thread pool and the logic thread run every job that is queued.
JobRuns(j) ==
    /\ Has(j)
    /\ Worker(j.obj) \/ Logic(j.obj)
    /\ CopiesIn(j, jobs') < CopiesIn(j, jobs)

\* The timer fires, and its handler or that of a cancelled timer is called.
TimerFires(o) == TimePasses(o) /\ sess'[o].timer = "due"
TimerRuns(o) == Logic(o) /\ handle_establish_timeout(o)

\* The timers and the jobs of the handshake come about whatever the network does.
TimerSpec ==
    /\ Spec
    /\ \A j \in HandshakeJobs : WF_vars(JobRuns(j))
    /\ \A o \in Obj : WF_vars(TimerFires(o)) /\ WF_vars(TimerRuns(o))

(* An establish job is not kept for ever: whatever is lost, late or overtakes an
   EnterState, the router gets its result, from the timer or when the session is
   established and the timer cancelled, or the session that has the job is removed
   (handle_establish_timeout, session_established, done). *)
EstablishEnds ==
    router["a"] = "waiting" ~> router["a"] # "waiting" \/ tracked["a"] = NoObj

(* Tick's comment: a session is terminated "when all of our frames from the crypto
   workers are done", so none of them has a frame of a session that is freed. *)
FreedHasNoFrames ==
    \A j \in BagToSet(jobs) :
        j.do \in {"Encrypt", "Decrypt"} => sess[j.obj].state # "Freed"
=============================================================================
