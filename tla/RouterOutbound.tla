--------------------------- MODULE RouterOutbound ---------------------------
(***************************************************************************)
(* What a router does with link messages for routers it has no session     *)
(* with (src/udap/router.cpp, src/udap/nodedb.cpp): it queues them, finds  *)
(* the remote's RC in memory, on disk or in the DHT, establishes a session *)
(* on its outbound link with retries, verifies and stores the RC it was    *)
(* given, and then flushes or discards the queue.                          *)
(*                                                                         *)
(* The router's own steps run in the logic thread, one at a time; loads    *)
(* and stores run in the disk thread, signatures in the crypto workers,    *)
(* and each comes back to the logic thread as a job.  The DHT and what the *)
(* link does with an establish job, answer it or forget it with its        *)
(* session, are environment: IwpSession is the model of the link's part.   *)
(*                                                                         *)
(* A session of the outbound link belongs to an address.  A remote's first *)
(* address may by now be another router's, so a session is named by the    *)
(* router that is at the address.                                          *)
(*                                                                         *)
(* Messages are numbered in the order in which they are sent.              *)
(***************************************************************************)
EXTENDS Naturals, Sequences

CONSTANTS
    Remotes,     \* the routers messages are sent to
    Identity,    \* Identity[r]: the router at r's address, whose RC it presents
    NoAddress,   \* remotes whose RC has no address
    OnDisk,      \* remotes whose RC the disk may have at first
    MaxMsgs,     \* bound on the messages sent
    Retries      \* retries of an establish job

ASSUME RemotesAssumption ==
    /\ Identity \in [Remotes -> Remotes]
    /\ NoAddress \subseteq Remotes
    /\ OnDisk \subseteq Remotes
    /\ MaxMsgs \in Nat
    /\ Retries \in Nat

VARIABLES
    sentUpTo,  \* messages given to SendToOrQueue so far
    queue,     \* queue[r]: outboundMesssageQueue
    fate,      \* history: what became of each message
    entries,   \* remotes in nodedb's entries
    disk,      \* remotes whose RC is on disk
    loads,     \* loads[r]: udap_async_load_rc jobs, by where they are
    lookups,   \* lookups[r]: router lookups the DHT has not answered
    pending,   \* remotes in pendingEstablishJobs
    holder,    \* holder[r]: who has a pointer to r's establish job
    retries,   \* retries[r]: its job->retries
    out,       \* routers the outbound link has an established session with
    inb,       \* routers an inbound link has a session with
    valid      \* validRouters, and with it the DHT's bucket

vars == <<sentUpTo, queue, fate, entries, disk, loads, lookups, pending,
          holder, retries, out, inb, valid>>

Msgs == 1..MaxMsgs

\* The link tries; connect_job_retry waits; the RC is with the crypto workers
\* or the disk thread; on_verify_server_rc is queued; the link has forgotten the
\* job, which nobody will answer.
Holder == {"none", "link", "backoff", "crypto", "disk", "verified", "refused",
           "dropped"}

\* An async load is queued at the disk thread, or back with or without an RC.
LoadStage == {"asked", "loaded", "missing"}

Init ==
    /\ sentUpTo = 0
    /\ queue = [r \in Remotes |-> <<>>]
    /\ fate = [m \in Msgs |-> "none"]
    /\ disk \in SUBSET OnDisk
    /\ entries \in SUBSET disk
    /\ loads = [r \in Remotes |-> [s \in LoadStage |-> 0]]
    /\ lookups = [r \in Remotes |-> 0]
    /\ pending = {}
    /\ holder = [r \in Remotes |-> "none"]
    /\ retries = [r \in Remotes |-> 0]
    /\ out = {}
    /\ inb = {}
    /\ valid = {}
-----------------------------------------------------------------------------
\* Operators named Mut... are wrong on purpose: forms that a plausible bug would
\* give to the definition after them.

\* The remotes whose job is the establish_job of the session with q.
AtLink(q) == {r \in Remotes : holder[r] = "link" /\ Identity[r] = q}

\* link_try_establish: a session has one establish_job, the last it was given.
link_try_establish(r) ==
    holder' = [x \in Remotes |->
                  IF x = r THEN "link"
                  ELSE IF x \in AtLink(Identity[r]) THEN "dropped" ELSE holder[x]]

\* udap_router_try_connect: one job for a remote, for its first address.
try_connect(r) ==
    IF r \in pending \cup NoAddress
    THEN UNCHANGED <<pending, holder, retries>>
    ELSE /\ pending' = pending \cup {r}
         /\ link_try_establish(r)
         /\ retries' = [retries EXCEPT ![r] = Retries]

Fated(r, f) ==
    [m \in Msgs |-> IF \E i \in DOMAIN queue[r] : queue[r][i] = m
                    THEN f ELSE fate[m]]

DiscardOutboundFor(r) ==
    /\ queue' = [queue EXCEPT ![r] = <<>>]
    /\ fate' = Fated(r, "discarded")

MutNoFlush(r) == UNCHANGED <<queue, fate>>
MutFlushKeeps(r) ==
    /\ UNCHANGED queue
    /\ fate' = Fated(r, IF r \in out THEN "sent" ELSE "lost")

\* Each message is popped whether or not the link's sendto succeeds.
FlushOutboundFor(r) ==
    /\ queue' = [queue EXCEPT ![r] = <<>>]
    /\ fate' = Fated(r, IF r \in out THEN "sent" ELSE "lost")

\* SendToOrQueue of the next message
SendToOrQueue(r) ==
    /\ sentUpTo < MaxMsgs
    /\ sentUpTo' = sentUpTo + 1
    /\ IF r \in out \cup inb
       THEN /\ fate' = [fate EXCEPT ![sentUpTo'] = "sent"]
            /\ UNCHANGED <<queue, pending, holder, retries, loads>>
       ELSE /\ fate' = [fate EXCEPT ![sentUpTo'] = "queued"]
            /\ queue' = [queue EXCEPT ![r] = Append(@, sentUpTo')]
            /\ \/ r \in entries /\ try_connect(r) /\ UNCHANGED loads
               \/ /\ r \notin entries
                  /\ loads' = [loads EXCEPT ![r]["asked"] = @ + 1]
                  /\ UNCHANGED <<pending, holder, retries>>
    /\ UNCHANGED <<entries, disk, lookups, out, inb, valid>>

\* udap_nodedb::loadfile: a good file becomes an entry.
loadfile(r) == entries' = entries \cup ({r} \cap disk)

\* nodedb_async_load_rc, in the disk thread
nodedb_async_load_rc(r) ==
    /\ loads[r]["asked"] > 0
    /\ LET stage == IF r \in disk THEN "loaded" ELSE "missing" IN
       loads' = [loads EXCEPT ![r]["asked"] = @ - 1, ![r][stage] = @ + 1]
    /\ loadfile(r)
    /\ UNCHANGED <<sentUpTo, queue, fate, disk, lookups, pending, holder, retries,
                   out, inb, valid>>

HandleAsyncLoadRCForSendTo(r) ==
    /\ \/ /\ loads[r]["loaded"] > 0
          /\ loads' = [loads EXCEPT ![r]["loaded"] = @ - 1]
          /\ try_connect(r)
          /\ UNCHANGED lookups
       \/ /\ loads[r]["missing"] > 0
          /\ loads' = [loads EXCEPT ![r]["missing"] = @ - 1]
          /\ lookups' = [lookups EXCEPT ![r] = @ + 1]
          /\ UNCHANGED <<pending, holder, retries>>
    /\ UNCHANGED <<sentUpTo, queue, fate, entries, disk, out, inb, valid>>

\* The DHT answers, if it ever does.
HandleDHTLookupForSendTo(r) ==
    /\ lookups[r] > 0
    /\ lookups' = [lookups EXCEPT ![r] = @ - 1]
    /\ \/ try_connect(r) /\ UNCHANGED <<queue, fate>>
       \/ DiscardOutboundFor(r) /\ UNCHANGED <<pending, holder, retries>>
    /\ UNCHANGED <<sentUpTo, entries, disk, loads, out, inb, valid>>

\* ConnectAll calls try_connect for the remotes of the configuration, whatever
\* sessions there are.
ConnectAll(r) ==
    /\ try_connect(r)
    /\ UNCHANGED <<sentUpTo, queue, fate, entries, disk, loads, lookups, out, inb,
                   valid>>
-----------------------------------------------------------------------------
\* The link: a session is established with whoever is at r's address.
Establishes(r) ==
    /\ holder[r] = "link"
    /\ out' = out \cup {Identity[r]}
    /\ UNCHANGED <<sentUpTo, queue, fate, entries, disk, loads, lookups, pending,
                   holder, retries, inb, valid>>

MutOneRetryMore(r) ==
    /\ holder[r] = "link"
    /\ \/ /\ Identity[r] \in out
          /\ holder' = [holder EXCEPT ![r] = "crypto"]
          /\ UNCHANGED <<queue, fate, pending, retries>>
       \/ /\ retries[r] >= 0
          /\ retries' = [retries EXCEPT ![r] = @ - 1]
          /\ holder' = [holder EXCEPT ![r] = "backoff"]
          /\ UNCHANGED <<queue, fate, pending>>
       \/ /\ retries[r] = 0
          /\ DiscardOutboundFor(r)
          /\ pending' = pending \ {r}
          /\ holder' = [holder EXCEPT ![r] = "none"]
          /\ UNCHANGED retries
    /\ UNCHANGED <<sentUpTo, entries, disk, loads, lookups, out, inb, valid>>
MutNoCount(r) ==
    /\ holder[r] = "link"
    /\ \/ /\ Identity[r] \in out
          /\ holder' = [holder EXCEPT ![r] = "crypto"]
          /\ UNCHANGED <<queue, fate, pending, retries>>
       \/ /\ retries[r] > 0
          /\ holder' = [holder EXCEPT ![r] = "backoff"]
          /\ UNCHANGED <<queue, fate, pending, retries>>
       \/ /\ retries[r] = 0
          /\ DiscardOutboundFor(r)
          /\ pending' = pending \ {r}
          /\ holder' = [holder EXCEPT ![r] = "none"]
          /\ UNCHANGED retries
    /\ UNCHANGED <<sentUpTo, entries, disk, loads, lookups, out, inb, valid>>
MutNoErase(r) ==
    /\ holder[r] = "link"
    /\ \/ /\ Identity[r] \in out
          /\ holder' = [holder EXCEPT ![r] = "crypto"]
          /\ UNCHANGED <<queue, fate, pending, retries>>
       \/ /\ retries[r] > 0
          /\ retries' = [retries EXCEPT ![r] = @ - 1]
          /\ holder' = [holder EXCEPT ![r] = "backoff"]
          /\ UNCHANGED <<queue, fate, pending>>
       \/ /\ retries[r] = 0
          /\ DiscardOutboundFor(r)
          /\ holder' = [holder EXCEPT ![r] = "none"]
          /\ UNCHANGED <<pending, retries>>
    /\ UNCHANGED <<sentUpTo, entries, disk, loads, lookups, out, inb, valid>>

\* on_try_connect_result.  The link may fail although there is a session:
\* introduce has set its state back.
on_try_connect_result(r) ==
    /\ holder[r] = "link"
    /\ \/ /\ Identity[r] \in out
          /\ holder' = [holder EXCEPT ![r] = "crypto"]
          /\ UNCHANGED <<queue, fate, pending, retries>>
       \/ /\ retries[r] > 0
          /\ retries' = [retries EXCEPT ![r] = @ - 1]
          /\ holder' = [holder EXCEPT ![r] = "backoff"]
          /\ UNCHANGED <<queue, fate, pending>>
       \/ /\ retries[r] = 0
          /\ DiscardOutboundFor(r)
          /\ pending' = pending \ {r}
          /\ holder' = [holder EXCEPT ![r] = "none"]
          /\ UNCHANGED retries
    /\ UNCHANGED <<sentUpTo, entries, disk, loads, lookups, out, inb, valid>>

connect_job_retry(r) ==
    /\ holder[r] = "backoff"
    /\ link_try_establish(r)
    /\ UNCHANGED <<sentUpTo, queue, fate, entries, disk, loads, lookups, pending,
                   retries, out, inb, valid>>

\* crypto_threadworker_verifyrc: a LIM after the first has put an unchecked RC
\* in its place, or it is the one the link has checked.
crypto_threadworker_verifyrc(r) ==
    /\ holder[r] = "crypto"
    /\ \E h \in {"disk", "refused"} : holder' = [holder EXCEPT ![r] = h]
    /\ UNCHANGED <<sentUpTo, queue, fate, entries, disk, loads, lookups, pending,
                   retries, out, inb, valid>>

\* udap_nodedb::setRC: the entry is set before the file is written, which may
\* fail and leave a broken file.
setRC(q, written) ==
    /\ entries' = entries \cup {q}
    /\ disk' = IF written THEN disk \cup {q} ELSE disk \ {q}

disk_threadworker_setRC(r) ==
    /\ holder[r] = "disk"
    /\ \E written \in BOOLEAN :
          /\ setRC(Identity[r], written)
          /\ holder' = [holder EXCEPT ![r] =
                           IF written THEN "verified" ELSE "refused"]
    /\ UNCHANGED <<sentUpTo, queue, fate, loads, lookups, pending, retries, out,
                   inb, valid>>

\* The job of pk is erased, also if it is not the one whose verification ends.
Erased(r, pk) ==
    [holder EXCEPT ![r] = "none", ![pk] = IF @ = "dropped" THEN "none" ELSE @]

\* on_verify_server_rc, which goes by the RC's identity.  The session of a
\* refused RC is closed: RemoveSession follows once both ends agree.
on_verify_server_rc(r) ==
    LET pk == Identity[r] IN
    /\ \/ /\ holder[r] = "refused"
          /\ DiscardOutboundFor(pk)
          /\ UNCHANGED valid
       \/ /\ holder[r] = "verified"
          /\ valid' = valid \cup {pk}
          /\ FlushOutboundFor(pk)
    /\ pending' = pending \ {pk}
    /\ holder' = Erased(r, pk)
    /\ UNCHANGED <<sentUpTo, entries, disk, loads, lookups, retries, out, inb>>

SessionClosed(q) == valid' = valid \ {q}

\* RemoveSessionByAddr of a session that is established, or that has a job: done
\* removes the establish timer, and handle_establish_timeout(this, 0, 0) returns
\* at once, so the job gets no answer.  UnmapAddr tells the router, if the session
\* was established.
RemoveSession(q) ==
    /\ q \in out \/ AtLink(q) # {}
    /\ holder' = [r \in Remotes |-> IF r \in AtLink(q) THEN "dropped" ELSE holder[r]]
    /\ out' = out \ {q}
    /\ IF q \in out THEN SessionClosed(q) ELSE UNCHANGED valid
    /\ UNCHANGED <<sentUpTo, queue, fate, entries, disk, loads, lookups, pending,
                   retries, inb>>

\* The same of a session of an inbound link, which never has a job.
RemoveInboundSession(q) ==
    /\ q \in inb
    /\ inb' = inb \ {q}
    /\ SessionClosed(q)
    /\ UNCHANGED <<sentUpTo, queue, fate, entries, disk, loads, lookups, pending,
                   holder, retries, out>>

\* A remote establishes a session with one of our inbound links.
InboundSession(q) ==
    /\ inb' = inb \cup {q}
    /\ UNCHANGED <<sentUpTo, queue, fate, entries, disk, loads, lookups, pending,
                   holder, retries, out, valid>>

Verify(r) ==
    \/ crypto_threadworker_verifyrc(r)
    \/ disk_threadworker_setRC(r)
    \/ on_verify_server_rc(r)

Load(r) == nodedb_async_load_rc(r) \/ HandleAsyncLoadRCForSendTo(r)

Next ==
    \E r \in Remotes :
        \/ SendToOrQueue(r)
        \/ ConnectAll(r)
        \/ Load(r)
        \/ HandleDHTLookupForSendTo(r)
        \/ Establishes(r)
        \/ on_try_connect_result(r)
        \/ connect_job_retry(r)
        \/ Verify(r)
        \/ RemoveSession(r)
        \/ InboundSession(r)
        \/ RemoveInboundSession(r)

Spec == Init /\ [][Next]_vars

\* The link answers an establish job when its timer fires, unless the session is
\* removed first.
LinkEnds(r) == on_try_connect_result(r) \/ RemoveSession(Identity[r])

\* The thread pools run what is queued, timers fire and the link does not keep an
\* establish job (EstablishEnds of IwpSession).  Nothing makes the DHT answer:
\* CleanupTX is never scheduled.
Fairness ==
    \A r \in Remotes :
        /\ WF_vars(Load(r))
        /\ WF_vars(holder[r] = "link" /\ LinkEnds(r))
        /\ WF_vars(connect_job_retry(r))
        /\ WF_vars(Verify(r))

FairSpec == Spec /\ Fairness
-----------------------------------------------------------------------------
(* Type correctness of the router's queues, jobs and tables. *)
TypeOK ==
    /\ sentUpTo \in 0..MaxMsgs
    /\ queue \in [Remotes -> Seq(Msgs)]
    /\ fate \in [Msgs -> {"none", "queued", "sent", "lost", "discarded"}]
    /\ entries \subseteq Remotes
    /\ disk \subseteq Remotes
    /\ loads \in [Remotes -> [LoadStage -> Nat]]
    /\ lookups \in [Remotes -> Nat]
    /\ pending \subseteq Remotes
    /\ holder \in [Remotes -> Holder]
    /\ retries \in [Remotes -> 0..Retries]
    /\ out \subseteq Remotes
    /\ inb \subseteq Remotes
    /\ valid \subseteq Remotes

\* Remotes that are at their address, and whose RC nobody else presents.
Genuine == {r \in Remotes : \A x \in Remotes : Identity[x] = r <=> x = r}

(* The job of a remote that is who its RC says is in pendingEstablishJobs exactly
   while one of the link, the backoff timer and the verification has a pointer to
   it, or the link has forgotten it with its session: no pointer outlives the job,
   and nothing but such a removal leaves a job behind that blocks try_connect for
   ever (pendingEstablishJobs.erase, HasPendingConnectJob). *)
JobIsHeld == \A r \in Genuine : r \in pending <=> holder[r] # "none"

(* Messages for such a remote, if it has an address, wait in a queue only while
   something is under way that flushes or discards it, a load, a lookup or an
   establish job, or behind a job that the link has forgotten: a message queued
   late never relies on a job that has just ended (SendToOrQueue, which starts
   none if there is one already). *)
QueueHasWork ==
    \A r \in Genuine \ NoAddress : queue[r] # <<>> =>
        \/ holder[r] # "none"
        \/ lookups[r] > 0
        \/ \E s \in LoadStage : loads[r][s] > 0

(* A queued message is in the queue of one remote, once, and a settled one in
   none: nothing is sent twice, or freed and sent (FlushOutboundFor,
   DiscardOutboundFor, which delete what they pop). *)
QueuedOnce ==
    /\ \A m \in Msgs : fate[m] = "queued" =>
          \E r \in Remotes : \E i \in DOMAIN queue[r] : queue[r][i] = m
    /\ \A r \in Remotes : \A i \in DOMAIN queue[r] :
          /\ fate[queue[r][i]] = "queued"
          /\ \A q \in Remotes : \A j \in DOMAIN queue[q] :
                queue[q][j] = queue[r][i] => q = r /\ j = i

IsQueued(m, r) == \E i \in DOMAIN queue[r] : queue[r][i] = m

(* Every queued message is sent, lost with its session or discarded, unless the
   DHT leaves a lookup for its remote without an answer, or the link has forgotten
   the remote's establish job with its session (on_try_connect_result, which
   counts the retries down). *)
MessagesSettle ==
    \A r \in Genuine \ NoAddress : \A m \in Msgs :
        IsQueued(m, r) ~>
            ~IsQueued(m, r) \/ lookups[r] > 0 \/ holder[r] = "dropped"
=============================================================================
