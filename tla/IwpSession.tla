----------------------------- MODULE IwpSession -----------------------------
(***************************************************************************)
(* How IWP sessions between two servers come and go                        *)
(* (src/udap/iwp_link.cpp, src/udap/crypto_async.cpp).  a is the outbound  *)
(* link of one router, whose address no other router knows, b an inbound   *)
(* link of another; a opens with the handshake                             *)
(*                                                                         *)
(*   INTRO ->   <- INTROACK(token)   START(token, nonce) ->   <- LIM       *)
(*                                                                         *)
(* run by three kinds of threads at each server: the net thread (recv), the *)
(* crypto workers and the logic thread (timers, frame processing).  jobs is *)
(* what is queued for the workers and the logic thread.  A hook that sends  *)
(* and then calls EnterState is two jobs, since the answer may arrive in    *)
(* between.                                                                *)
(*                                                                         *)
(* A server may hold several session objects for the same address, only    *)
(* one of which is in m_sessions.  Of the frame layer (IwpFrame) there is  *)
(* what the life of a session depends on: LIMs, keepalives and the         *)
(* invalidation flags.  A job or a server that reaches a freed object is   *)
(* not followed further; properties say where that happens.                *)
(***************************************************************************)
EXTENDS Naturals, FiniteSets, Bags

CONSTANTS
    MaxSessions,  \* bound on the session objects of a server
    MaxTries,     \* bound on the calls of try_establish of a server
    Copies,       \* how often the network may deliver a datagram
    MayLose,      \* may it lose one?
    MayTimeout,   \* may 5 s and 10 s pass between any two steps?
    MayClose,     \* may a's router refuse b's RC after the session is established?
    BadRC         \* servers whose LIM does not pass CheckRCValid

Server == {"a", "b"}
Peer(x) == IF x = "a" THEN "b" ELSE "a"

ASSUME BoundAssumption ==
    /\ {MaxSessions, MaxTries, Copies} \subseteq Nat \ {0}
    /\ BadRC \subseteq Server
    /\ {MayLose, MayTimeout, MayClose} \subseteq BOOLEAN

VARIABLES
    sess,       \* sess[o]: the session object o
    tracked,    \* tracked[x]: the object m_sessions has for the peer's address
    connected,  \* connected[x]: m_Connected has the peer's identity
    router,     \* router[x]: the establish job of x's router, if it has one
    tries,      \* calls of try_establish so far
    nonces,     \* nonces drawn by session_start so far
    jobs,       \* bag of the jobs queued or running
    net         \* bag of the datagrams under way

vars == <<sess, tracked, connected, router, tries, nonces, jobs, net>>

Obj == Server \X (1..MaxSessions)
NoObj == <<"none", 0>>
NoKey == <<NoObj, 0>>

HandshakeState ==
    {"Initial", "IntroRecv", "IntroSent", "IntroAckSent", "IntroAckRecv"}
FrameState == {"SessionStartSent", "LIMSent", "Established"}

\* Datagrams.  The session key follows from token and nonce: K = TKE(.., T),
\* T = HS(token + n).
Intro(x) == [t |-> "INTRO", from |-> x]
IntroAck(x, token) == [t |-> "INTROACK", from |-> x, token |-> token]
Start(x, token, nonce) ==
    [t |-> "START", from |-> x, token |-> token, nonce |-> nonce]
Junk == [t |-> "junk"]

\* Frames before encryption, and what goes out under key k.
Lim(id, inv) == [t |-> "LIM", id |-> id, inv |-> inv]
Aliv(inv) == [t |-> "ALIV", inv |-> inv]
Sealed(x, k, p) == [t |-> "FRAME", from |-> x, key |-> k, body |-> p]

\* server::create_session: the token is random, here the object itself.
create_session(o) ==
    [state |-> "Initial", working |-> FALSE, workbuf |-> Junk, hook |-> "none",
     introbuf |-> TRUE, token |-> o, key |-> NoKey, limSent |-> FALSE,
     txInv |-> FALSE, rxInv |-> FALSE, idle |-> FALSE, job |-> "none",
     timer |-> "off", outq |-> {}]

None == [create_session(NoObj) EXCEPT !.state = "None"]

Used(x) == {n \in 1..MaxSessions : sess[<<x, n>>].state # "None"}
Fresh(x) == <<x, Cardinality(Used(x)) + 1>>

Job(do, o) == [do |-> do, obj |-> o]
FrameJob(do, o, f) == [do |-> do, obj |-> o, frame |-> f]

Queued(j) == SetToBag({j})
Has(j) == BagIn(j, jobs)

\* A second job that only repeats a queued one is not counted.
Once(j) == IF Has(j) THEN EmptyBag ELSE Queued(j)

PumpCryptoOutbound(o) == Once(Job("Encrypt", o))

\* Up to Copies copies of a datagram arrive.
Sends(d) == \E n \in 1..Copies : net' = net (+) [e \in {d} |-> n]
-----------------------------------------------------------------------------
Init ==
    /\ sess = [o \in Obj |-> None]
    /\ tracked = [x \in Server |-> NoObj]
    /\ connected = [x \in Server |-> FALSE]
    /\ router = [x \in Server |-> "idle"]
    /\ tries = [x \in Server |-> 0]
    /\ nonces = [x \in Server |-> 0]
    /\ jobs = EmptyBag
    /\ net = EmptyBag

\* Job j is taken; what it queues itself is new.
Runs(j, new) ==
    /\ Has(j)
    /\ sess[j.obj].state # "Freed"
    /\ jobs' = (jobs (-) Queued(j)) (+) new

\* link_try_establish and session::introduce: the object in m_sessions is used
\* again, if there is one.
link_try_establish(x) ==
    /\ tries[x] < MaxTries
    /\ \E o \in Obj :
          /\ o = IF tracked[x] = NoObj THEN Fresh(x) ELSE tracked[x]
          /\ sess[o].state # "Freed"
          /\ sess' = [sess EXCEPT ![o] =
                [IF tracked[x] = NoObj THEN create_session(o) ELSE sess[o]
                    EXCEPT !.job = "waiting", !.idle = FALSE, !.timer = "armed",
                           !.workbuf = Intro(x), !.introbuf = TRUE,
                           !.hook = "generated", !.working = TRUE]]
          /\ tracked' = [tracked EXCEPT ![x] = o]
          /\ jobs' = jobs (+) Queued(Job("GenIntro", o))
    /\ router' = [router EXCEPT ![x] = "waiting"]
    /\ tries' = [tries EXCEPT ![x] = @ + 1]
    /\ UNCHANGED <<connected, nonces, net>>

\* udap_router_try_connect, for a router that has no session
try_connect ==
    /\ router["a"] = "idle" /\ ~connected["a"]
    /\ link_try_establish("a")

\* connect_job_retry, which does not look whether there is a session by now.  The
\* backoff is 15 s: an object that no frame kept alive is gone.
connect_job_retry ==
    /\ MayTimeout
    /\ router["a"] = "backoff" /\ jobs = EmptyBag
    /\ tracked["a"] # NoObj => sess[tracked["a"]].state \in FrameState
    /\ link_try_establish("a")
-----------------------------------------------------------------------------
\* The net thread: session::recv of datagram d by server x.  A datagram from an
\* address without a session makes a new object that m_sessions does not have.

on_intro(o, s, d) ==
    IF d.t = "FRAME" /\ d.body.t = "LIM"
    THEN \* larger than workbuf: delete this
         /\ sess' = [sess EXCEPT ![o] = [s EXCEPT !.state = "Freed"]]
         /\ UNCHANGED <<tracked, connected, jobs>>
    ELSE /\ sess' = [sess EXCEPT ![o] =
               [s EXCEPT !.workbuf = d, !.introbuf = TRUE, !.hook = "verified",
                         !.state = "IntroRecv", !.idle = FALSE, !.working = TRUE]]
         /\ jobs' = jobs (+) Queued(Job("VerifyIntro", o))
         /\ UNCHANGED <<tracked, connected>>

MutRemoveSession(o) ==
    /\ connected' = [connected EXCEPT ![o[1]] = FALSE]
    /\ sess' = [sess EXCEPT ![o].state = "Freed", ![o].timer = "off"]
    /\ UNCHANGED tracked

\* server::RemoveSessionByAddr: done removes the establish timer, and calls
\* handle_establish_timeout with orig = 0, which returns at once.
RemoveSessionByAddr(o) ==
    /\ tracked' = [tracked EXCEPT ![o[1]] = NoObj]
    /\ connected' = [connected EXCEPT ![o[1]] = FALSE]
    /\ sess' = [sess EXCEPT ![o].state = "Freed", ![o].timer = "off"]

on_intro_ack(o, d) ==
    IF d.t = "FRAME" /\ d.body.t = "LIM"
    THEN RemoveSessionByAddr(o) /\ UNCHANGED jobs
    ELSE /\ sess' = [sess EXCEPT ![o].workbuf = d, ![o].working = TRUE]
         /\ jobs' = jobs (+) Queued(Job("VerifyIntroAck", o))
         /\ UNCHANGED <<tracked, connected>>

on_session_start(o, d) ==
    IF d.t = "FRAME" /\ d.body.t = "LIM"
    THEN UNCHANGED <<sess, jobs, tracked, connected>>
    ELSE /\ sess' = [sess EXCEPT ![o].workbuf = d, ![o].working = TRUE]
         /\ jobs' = jobs (+) Queued(Job("VerifyStart", o))
         /\ UNCHANGED <<tracked, connected>>

decrypt_frame(o, d) ==
    /\ jobs' = jobs (+) Once(FrameJob("Decrypt", o, d))
    /\ UNCHANGED <<sess, tracked, connected>>

MutRecv(o, s, d) ==
    \/ s.state = "Initial" /\ on_intro(o, s, d)
    \/ s.state = "IntroSent" /\ on_intro_ack(o, d)
    \/ s.state = "IntroAckSent" /\ on_session_start(o, d)
    \/ s.state \in FrameState \cup {"IntroAckRecv"} /\ decrypt_frame(o, d)
    \/ s.state = "IntroRecv" /\ UNCHANGED <<sess, jobs, tracked, connected>>

\* session::recv in each state
recv(o, s, d) ==
    \/ s.state = "Initial" /\ on_intro(o, s, d)
    \/ s.state = "IntroSent" /\ on_intro_ack(o, d)
    \/ s.state = "IntroAckSent" /\ on_session_start(o, d)
    \/ s.state \in FrameState /\ decrypt_frame(o, d)
    \/ /\ s.state \in {"IntroRecv", "IntroAckRecv"}
       /\ UNCHANGED <<sess, jobs, tracked, connected>>

\* server::handle_recvfrom
handle_recvfrom(x, d) ==
    /\ d.from = Peer(x)
    /\ net' = net (-) Queued(d)
    /\ IF tracked[x] = NoObj
       THEN Fresh(x) \in Obj /\ recv(Fresh(x), create_session(Fresh(x)), d)
       ELSE recv(tracked[x], sess[tracked[x]], d)
    /\ UNCHANGED <<router, tries, nonces>>
-----------------------------------------------------------------------------
\* The crypto workers.

\* session::intro_ack on object o, whose hook has the other changes.
StartIntroAck(o) ==
    sess' = [sess EXCEPT ![o].workbuf = Junk, ![o].working = TRUE]

\* gen_intro, then the hook that intro holds by now: handle_generated_intro up
\* to its sendto, or handle_verify_intro if on_intro has taken the struct over.
gen_intro(o) ==
    /\ sess[o].introbuf
    /\ \/ /\ sess[o].hook = "generated"
          /\ Runs(Job("GenIntro", o), Queued(Job("EnterIntroSent", o)))
          /\ sess' = [sess EXCEPT ![o].working = FALSE]
          /\ Sends(Intro(o[1]))
       \/ /\ sess[o].hook = "verified"
          /\ Runs(Job("GenIntro", o), Queued(Job("GenIntroAck", o)))
          /\ StartIntroAck(o)
          /\ UNCHANGED net

\* verify_intro: hands over to the logic thread.
verify_intro(o) ==
    /\ Runs(Job("VerifyIntro", o), Queued(Job("InformIntro", o)))
    /\ sess' = [sess EXCEPT ![o].introbuf =
                               @ /\ sess[o].workbuf = Intro(Peer(o[1]))]
    /\ UNCHANGED net

\* handle_verify_intro, in the logic thread
handle_verify_intro(o) ==
    /\ IF sess[o].introbuf
       THEN /\ Runs(Job("InformIntro", o), Queued(Job("GenIntroAck", o)))
            /\ StartIntroAck(o)
       ELSE /\ Runs(Job("InformIntro", o), EmptyBag)
            /\ sess' = [sess EXCEPT ![o].working = FALSE]
    /\ UNCHANGED net

MutNoReturn(o) ==
    /\ Runs(Job("GenIntroAck", o), Queued(Job("PutSession", o)))
    /\ sess' = [sess EXCEPT ![o].state = IF tracked[o[1]] # NoObj THEN "Freed" ELSE @]
    /\ UNCHANGED <<net, tracked>>

\* gen_introack and handle_introack_generated: the check for a duplicate
gen_introack(o) ==
    /\ IF tracked[o[1]] # NoObj
       THEN /\ Runs(Job("GenIntroAck", o), EmptyBag)
            /\ sess' = [sess EXCEPT ![o].state = "Freed"]
       ELSE /\ Runs(Job("GenIntroAck", o), Queued(Job("PutSession", o)))
            /\ UNCHANGED sess
    /\ UNCHANGED <<net, tracked>>

\* put_session, whose emplace keeps an entry that is there, and sendto.  working
\* stays set.
put_session(o) ==
    /\ Runs(Job("PutSession", o), Queued(Job("EnterIntroAckSent", o)))
    /\ tracked' = [tracked EXCEPT ![o[1]] = IF @ = NoObj THEN o ELSE @]
    /\ sess' = [sess EXCEPT ![o].idle = FALSE]
    /\ Sends(IntroAck(o[1], o))

MutSkipVerify(o) ==
    LET w == sess[o].workbuf IN
    /\ Runs(Job("VerifyIntroAck", o), Queued(Job("GenStart", o)))
    /\ sess' = [sess EXCEPT ![o].state = "IntroAckRecv", ![o].idle = FALSE,
                            ![o].token = IF w.t = "INTROACK" THEN w.token ELSE NoObj,
                            ![o].workbuf = Junk, ![o].working = TRUE]
    /\ UNCHANGED net

\* verify_introack, which decrypts in workbuf, and handle_verify_introack with
\* session_start
verify_introack(o) ==
    LET w == sess[o].workbuf IN
    /\ IF w.t = "INTROACK"
       THEN /\ Runs(Job("VerifyIntroAck", o), Queued(Job("GenStart", o)))
            /\ sess' = [sess EXCEPT ![o].state = "IntroAckRecv", ![o].idle = FALSE,
                                    ![o].token = w.token, ![o].workbuf = Junk,
                                    ![o].working = TRUE]
       ELSE /\ Runs(Job("VerifyIntroAck", o), EmptyBag)
            /\ sess' = [sess EXCEPT ![o].working = FALSE]
    /\ UNCHANGED net

\* gen_session_start with a new nonce, and handle_generated_session_start up to
\* its sendto
gen_session_start(o) ==
    LET n == nonces[o[1]] + 1 IN
    /\ Runs(Job("GenStart", o), Queued(Job("EnterStartSent", o)))
    /\ nonces' = [nonces EXCEPT ![o[1]] = n]
    /\ sess' = [sess EXCEPT ![o].key = <<sess[o].token, n>>, ![o].working = FALSE]
    /\ Sends(Start(o[1], sess[o].token, n))

\* session::send_LIM up to EnterState
LimQueued(o) ==
    sess[o].outq \cup {Lim(IF sess[o].limSent THEN 1 ELSE 0, sess[o].txInv)}

MutVerifyStart(o) ==
    LET w == sess[o].workbuf IN
    /\ IF w.t = "START"
       THEN /\ Runs(Job("VerifyStart", o),
                    PumpCryptoOutbound(o) (+) Queued(Job("EnterLIMSent", o)))
            /\ sess' = [sess EXCEPT ![o].key = <<w.token, w.nonce>>,
                                    ![o].workbuf = Junk, ![o].working = FALSE,
                                    ![o].outq = LimQueued(o), ![o].limSent = TRUE]
       ELSE /\ Runs(Job("VerifyStart", o), EmptyBag)
            /\ sess' = [sess EXCEPT ![o].working = FALSE]
    /\ UNCHANGED net

\* verify_session_start, which decrypts in workbuf, and
\* handle_verify_session_start
verify_session_start(o) ==
    LET w == sess[o].workbuf IN
    /\ IF w.t = "START" /\ w.token = sess[o].token
       THEN /\ Runs(Job("VerifyStart", o),
                    PumpCryptoOutbound(o) (+) Queued(Job("EnterLIMSent", o)))
            /\ sess' = [sess EXCEPT ![o].key = <<w.token, w.nonce>>,
                                    ![o].workbuf = Junk, ![o].working = FALSE,
                                    ![o].outq = LimQueued(o), ![o].limSent = TRUE]
       ELSE /\ Runs(Job("VerifyStart", o), EmptyBag)
            /\ sess' = [sess EXCEPT ![o].working = FALSE,
                                    ![o].workbuf = IF w.t = "START" THEN Junk ELSE w]
    /\ UNCHANGED net

EnterJobs == {"EnterIntroSent", "EnterIntroAckSent", "EnterStartSent", "EnterLIMSent"}

\* session::EnterState at the end of a hook
EnterState(o, do, st) ==
    /\ Runs(Job(do, o), IF st \in {"SessionStartSent", "IntroAckSent"}
                        THEN PumpCryptoOutbound(o) ELSE EmptyBag)
    /\ sess' = [sess EXCEPT ![o].state = st, ![o].idle = FALSE]
    /\ UNCHANGED net

\* session::EncryptOutboundFrames
EncryptOutboundFrames(o) ==
    /\ Runs(Job("Encrypt", o), EmptyBag)
    /\ sess' = [sess EXCEPT ![o].outq = {}]
    /\ LET out == {Sealed(o[1], sess[o].key, p) : p \in sess[o].outq}
           new == {d \in out : d.body.t = "ALIV" => ~BagIn(d, net)} IN
       \E n \in 1..Copies : net' = net (+) [d \in new |-> n]

\* hmac_then_decrypt: a frame under another key is dropped later.
hmac_then_decrypt(o) ==
    /\ \E j \in BagToSet(jobs) :
          /\ j.do = "Decrypt" /\ j.obj = o
          /\ Runs(j, IF j.frame.t = "FRAME" /\ j.frame.key = sess[o].key
                     THEN Once(FrameJob("Process", o, j.frame.body)) ELSE EmptyBag)
    /\ UNCHANGED <<sess, net>>

Worker(o) ==
    /\ \/ /\ \/ gen_intro(o)
             \/ verify_intro(o)
             \/ verify_introack(o)
             \/ verify_session_start(o)
             \/ EnterState(o, "EnterIntroSent", "IntroSent")
             \/ EnterState(o, "EnterIntroAckSent", "IntroAckSent")
             \/ EnterState(o, "EnterStartSent", "SessionStartSent")
             \/ EnterState(o, "EnterLIMSent", "LIMSent")
             \/ EncryptOutboundFrames(o)
             \/ hmac_then_decrypt(o)
          /\ UNCHANGED <<tracked, nonces>>
       \/ gen_session_start(o) /\ UNCHANGED tracked
       \/ gen_introack(o) /\ UNCHANGED nonces
       \/ put_session(o) /\ UNCHANGED nonces
    /\ UNCHANGED <<connected, router, tries>>
-----------------------------------------------------------------------------
\* The logic thread.

is_invalidated(o) == sess[o].txInv /\ sess[o].rxInv

\* handle_frame_decrypt of a frame p that process accepts.  Its flags count
\* whatever it is.
Alive(o, p) ==
    [sess[o] EXCEPT !.rxInv = sess[o].rxInv \/ p.inv, !.idle = FALSE]

TimerCancelled(o) ==
    IF sess[o].timer \in {"armed", "due"} THEN "cancelled" ELSE sess[o].timer

\* The LIM with id 0 of a peer with a bad RC: close.
SpoofedLIM(o, p) ==
    /\ p.t = "LIM" /\ p.id = 0 /\ Peer(o[1]) \in BadRC
    /\ Runs(FrameJob("Process", o, p), Once(Job("Keepalive", o)))
    /\ sess' = [sess EXCEPT ![o].rxInv = @ \/ p.inv, ![o].txInv = TRUE]
    /\ UNCHANGED connected

\* The LIM with id 0 at an end that is not established: send_LIM and
\* session_established, which cancels the establish timer.
ProcessLIM(o, p) ==
    /\ p.t = "LIM" /\ p.id = 0 /\ sess[o].state # "Established"
    /\ Peer(o[1]) \notin BadRC
    /\ Runs(FrameJob("Process", o, p), PumpCryptoOutbound(o))
    /\ sess' = [sess EXCEPT ![o] =
          [Alive(o, p) EXCEPT !.outq = LimQueued(o), !.limSent = TRUE,
                              !.state = "Established", !.timer = TimerCancelled(o)]]
    /\ connected' = [connected EXCEPT ![o[1]] = TRUE]

\* Any other LIM has no effect here.
ProcessOtherLIM(o, p) ==
    /\ p.t = "LIM"
    /\ p.id = 0 => sess[o].state = "Established" /\ Peer(o[1]) \notin BadRC
    /\ Runs(FrameJob("Process", o, p), EmptyBag)
    /\ sess' = [sess EXCEPT ![o] = Alive(o, p)]
    /\ UNCHANGED connected

ProcessALIV(o, p) ==
    /\ p.t = "ALIV"
    /\ Runs(FrameJob("Process", o, p), EmptyBag)
    /\ sess' = [sess EXCEPT ![o] =
          [Alive(o, p) EXCEPT !.txInv = sess[o].txInv \/ sess[o].rxInv \/ p.inv]]
    /\ UNCHANGED connected

handle_frame_decrypt(o) ==
    /\ \E j \in BagToSet(jobs) :
          /\ j.do = "Process" /\ j.obj = o
          /\ \/ SpoofedLIM(o, j.frame)
             \/ ProcessLIM(o, j.frame)
             \/ ProcessOtherLIM(o, j.frame)
             \/ ProcessALIV(o, j.frame)
    /\ UNCHANGED <<tracked, router, net>>

\* session::close by the router, which has verified the RC of the session that
\* its job was answered with.
close(o) ==
    /\ MayClose
    /\ sess[o].job = "answered" /\ sess[o].state # "Freed"
    /\ sess' = [sess EXCEPT ![o].txInv = TRUE, ![o].job = "none"]
    /\ jobs' = jobs (+) Once(Job("Keepalive", o))
    /\ UNCHANGED <<tracked, connected, router, net>>

\* session::send_keepalive as a job
send_keepalive(o) ==
    /\ IF is_invalidated(o)
       THEN Runs(Job("Keepalive", o), EmptyBag) /\ UNCHANGED sess
       ELSE /\ Runs(Job("Keepalive", o), PumpCryptoOutbound(o))
            /\ sess' = [sess EXCEPT ![o].outq = @ \cup {Aliv(sess[o].txInv)}]
    /\ UNCHANGED <<tracked, connected, router, net>>

\* session::Tick returns true: timed out or invalidated, and not working.
TickRemove(o) ==
    /\ tracked[o[1]] = o /\ sess[o].state # "Freed"
    /\ sess[o].idle \/ is_invalidated(o)
    /\ ~sess[o].working
    /\ RemoveSessionByAddr(o)
    /\ UNCHANGED <<jobs, router, net>>

\* session::Tick of a session that stays.
TickKeep(o) ==
    /\ tracked[o[1]] = o
    /\ ~sess[o].idle /\ ~is_invalidated(o)
    /\ sess[o].state \in {"LIMSent", "Established"}
    /\ sess' = [sess EXCEPT ![o].outq = @ \cup {Aliv(sess[o].txInv)}]
    /\ jobs' = jobs (+) PumpCryptoOutbound(o)
    /\ UNCHANGED <<tracked, connected, router, net>>

MutEstablishTimeout(o) ==
    /\ sess[o].timer \in {"due", "cancelled"} /\ sess[o].state # "Freed"
    /\ sess' = [sess EXCEPT ![o].timer = "off", ![o].job =
                  IF @ = "waiting" /\ sess[o].state = "Established"
                  THEN "answered" ELSE "none"]
    /\ UNCHANGED <<tracked, connected, router, jobs, net>>

\* handle_establish_timeout, by the timer or soon after it was cancelled: the
\* router gets its result.
handle_establish_timeout(o) ==
    /\ sess[o].timer \in {"due", "cancelled"} /\ sess[o].state # "Freed"
    /\ sess' = [sess EXCEPT ![o].timer = "off", ![o].job =
                  IF @ = "waiting" /\ sess[o].state = "Established"
                  THEN "answered" ELSE "none"]
    /\ router' = IF sess[o].job = "waiting"
                 THEN [router EXCEPT ![o[1]] =
                    IF sess[o].state = "Established" THEN "idle" ELSE "backoff"]
                 ELSE router
    /\ UNCHANGED <<tracked, connected, jobs, net>>

Logic(o) ==
    /\ \/ handle_verify_intro(o) /\ UNCHANGED <<tracked, connected, router>>
       \/ handle_frame_decrypt(o)
       \/ close(o)
       \/ send_keepalive(o)
       \/ TickRemove(o)
       \/ TickKeep(o)
       \/ handle_establish_timeout(o)
    /\ UNCHANGED <<tries, nonces>>

\* The jobs that frames bring with them, keepalives among them.
FrameWork == {"Encrypt", "Decrypt", "Process", "Keepalive"}

\* The 5 s of the establish timer, or SESSION_TIMEOUT, 10 s, since lastEvent have
\* passed.  A queued job of the handshake runs sooner, and in 10 s the queues drain.
TimePasses(o) ==
    /\ MayTimeout
    /\ tracked[o[1]] = o
    /\ \/ /\ sess[o].timer = "armed"
          /\ \A j \in BagToSet(jobs) :
                j.do \in FrameWork \/ sess[j.obj].state = "Freed"
          /\ sess' = [sess EXCEPT ![o].timer = "due"]
       \/ /\ sess[o].timer = "off" /\ ~sess[o].idle /\ jobs = EmptyBag
          /\ sess' = [sess EXCEPT ![o].idle = TRUE]
    /\ UNCHANGED <<tracked, connected, router, tries, nonces, jobs, net>>

Lose(d) ==
    /\ MayLose
    /\ net' = net (-) Queued(d)
    /\ UNCHANGED <<sess, tracked, connected, router, tries, nonces, jobs>>

Next ==
    \/ try_connect \/ connect_job_retry
    \/ \E x \in Server : \E d \in BagToSet(net) : handle_recvfrom(x, d)
    \/ \E o \in Obj : Worker(o) \/ Logic(o) \/ TimePasses(o)
    \/ \E d \in BagToSet(net) : Lose(d)

Spec == Init /\ [][Next]_vars
-----------------------------------------------------------------------------
Key == (Obj \cup {NoObj}) \X Nat
Payload ==
    [t : {"LIM"}, id : 0..1, inv : BOOLEAN] \cup [t : {"ALIV"}, inv : BOOLEAN]
Datagram ==
    [t : {"INTRO"}, from : Server]
    \cup [t : {"INTROACK"}, from : Server, token : Obj]
    \cup [t : {"START"}, from : Server, token : Obj, nonce : Nat]
    \cup [t : {"FRAME"}, from : Server, key : Key, body : Payload]

Session ==
    [state : HandshakeState \cup FrameState \cup {"None", "Freed"},
     working : BOOLEAN, workbuf : Datagram \cup {Junk},
     hook : {"none", "generated", "verified"}, introbuf : BOOLEAN,
     token : Obj \cup {NoObj}, key : Key, limSent : BOOLEAN, txInv : BOOLEAN,
     rxInv : BOOLEAN, idle : BOOLEAN, job : {"none", "waiting", "answered"},
     timer : {"off", "armed", "due", "cancelled"}, outq : SUBSET Payload]

(* Type correctness of the session objects, m_sessions and the datagrams. *)
TypeOK ==
    /\ \A o \in Obj : sess[o] \in Session
    /\ tracked \in [Server -> Obj \cup {NoObj}]
    /\ connected \in [Server -> BOOLEAN]
    /\ router \in [Server -> {"idle", "waiting", "backoff"}]
    /\ tries \in [Server -> 0..MaxTries]
    /\ BagToSet(net) \subseteq Datagram
    /\ \A j \in BagToSet(jobs) : j.obj \in Obj

(* An end is established only with a peer that has derived the same session
   key (verify_introack, verify_session_start): within one establish attempt no
   reordering of datagrams and crypto jobs makes a LIM count that was meant for
   another key. *)
EstablishedSharesKey ==
    \A o \in Obj : sess[o].state = "Established" =>
        \E p \in Obj : p[1] = Peer(o[1]) /\ sess[p].key = sess[o].key

(* Whatever is retried, late or duplicated: the key of a session at b comes from
   the token this very session has sent, and no two sessions of a server ever
   have the same key, so a START for an older session opens no newer one
   (verify_session_start). *)
KeyIsFresh ==
    \A o \in Obj : sess[o].key # NoKey =>
        /\ o[1] = "b" => sess[o].key[1] = o
        /\ \A p \in Obj : p[1] = o[1] /\ sess[p].key = sess[o].key => p = o

(* m_sessions never names a freed object: recv, Tick and sendto would use it
   (handle_introack_generated, on_intro, RemoveSessionByAddr). *)
TrackedIsAlive ==
    \A x \in Server : tracked[x] # NoObj => sess[tracked[x]].state # "Freed"

\* What leads from an INTRO to the INTROACK.
AnswerJobs == {"VerifyIntro", "InformIntro", "GenIntroAck", "PutSession",
               "EnterIntroAckSent"}

(* While b answers an INTRO, nothing frees the object that the queued step will
   use, not the check for a duplicate in another object's step, nor Tick, nor a
   datagram that comes meanwhile: it is alive and marked as working, and it has
   this one step (handle_introack_generated, put_session, on_intro). *)
AnswerIsAlive ==
    \A o \in Obj : \A do \in AnswerJobs : o[1] = "b" /\ Has(Job(do, o)) =>
        /\ sess[o].state # "Freed" /\ sess[o].working
        /\ \A e \in AnswerJobs : Has(Job(e, o)) => e = do

(* An established session stays established until it is removed: no hook of the
   handshake that ends late sets its state back (EnterState). *)
EstablishedStays ==
    [][\A o \in Obj : sess[o].state = "Established" =>
          sess'[o].state \in {"Established", "Freed"}]_vars

(* A router that waits for its establish job has a session that will answer it:
   the job is with the object in m_sessions, and its timer is set
   (link_try_establish, done, handle_establish_timeout). *)
PendingHasTimer ==
    \A x \in Server : router[x] = "waiting" =>
        /\ tracked[x] # NoObj
        /\ sess[tracked[x]].job = "waiting"
        /\ sess[tracked[x]].timer # "off"
=============================================================================
