----------------------- MODULE RouterOutbound_proofs -----------------------
(***************************************************************************)
(* Proofs about RouterOutbound, for every set of remotes, every number of  *)
(* messages and retries, and every behaviour of links, disk and DHT.       *)
(***************************************************************************)
EXTENDS RouterOutbound, TLAPS

\* The actions, one remote at a time.
Step(r) ==
    \/ SendToOrQueue(r)
    \/ ConnectAll(r)
    \/ nodedb_async_load_rc(r)
    \/ HandleAsyncLoadRCForSendTo(r)
    \/ HandleDHTLookupForSendTo(r)
    \/ Establishes(r)
    \/ on_try_connect_result(r)
    \/ connect_job_retry(r)
    \/ crypto_threadworker_verifyrc(r)
    \/ disk_threadworker_setRC(r)
    \/ on_verify_server_rc(r)
    \/ RemoveSession(r)
    \/ InboundSession(r)
    \/ RemoveInboundSession(r)

(* Next is a step for some remote. *)
LEMMA NextIsStep == Next => \E r \in Remotes : Step(r)
  BY DEF Next, Step, Load, Verify

(* The link's part keeps the type of holder. *)
LEMMA EstablishTypes ==
    ASSUME TypeOK, NEW r \in Remotes, link_try_establish(r)
    PROVE  holder' \in [Remotes -> Holder]
  BY DEF TypeOK, link_try_establish, Holder

(* try_connect keeps the types of the establish jobs. *)
LEMMA TryConnectTypes ==
    ASSUME TypeOK, NEW r \in Remotes, try_connect(r)
    PROVE  /\ pending' \subseteq Remotes
           /\ holder' \in [Remotes -> Holder]
           /\ retries' \in [Remotes -> 0..Retries]
<1>1. Retries \in 0..Retries
  BY RemotesAssumption
<1>2. CASE r \in pending \cup NoAddress
  BY <1>2 DEF TypeOK, try_connect
<1>3. CASE r \notin pending \cup NoAddress
  <2>1. /\ pending' = pending \cup {r}
        /\ link_try_establish(r)
        /\ retries' = [retries EXCEPT ![r] = Retries]
    BY <1>3 DEF try_connect
  <2>2. holder' \in [Remotes -> Holder]
    BY <2>1, EstablishTypes
  <2>3. QED
    BY <1>1, <2>1, <2>2 DEF TypeOK
<1>4. QED
  BY <1>2, <1>3

(* A count of async loads that changes is still a count. *)
LEMMA LoadTypes ==
    ASSUME NEW r \in Remotes, NEW f \in [Remotes -> [LoadStage -> Nat]],
           NEW s \in LoadStage, NEW n \in Nat
    PROVE  [f EXCEPT ![r] = [f[r] EXCEPT ![s] = n]]
              \in [Remotes -> [LoadStage -> Nat]]
<1>1. [f[r] EXCEPT ![s] = n] \in [LoadStage -> Nat]
  OBVIOUS
<1>2. QED
  BY <1>1

(* So do flush and discard with queues and fates. *)
LEMMA QueueTypes ==
    ASSUME TypeOK, NEW r \in Remotes,
           DiscardOutboundFor(r) \/ FlushOutboundFor(r)
    PROVE  /\ queue' \in [Remotes -> Seq(Msgs)]
           /\ fate' \in [Msgs -> {"none", "queued", "sent", "lost", "discarded"}]
<1>1. << >> \in Seq(Msgs)
  OBVIOUS
<1>2. queue' \in [Remotes -> Seq(Msgs)]
  BY <1>1 DEF TypeOK, DiscardOutboundFor, FlushOutboundFor
<1>3. fate' \in [Msgs -> {"none", "queued", "sent", "lost", "discarded"}]
  BY DEF TypeOK, DiscardOutboundFor, FlushOutboundFor, Fated
<1>4. QED
  BY <1>2, <1>3

(* The type invariant is inductive. *)
LEMMA TypeStep == TypeOK /\ [Next]_vars => TypeOK'
<1>1. SUFFICES ASSUME TypeOK, NEW r \in Remotes, Step(r) PROVE TypeOK'
  <2>1. TypeOK /\ UNCHANGED vars => TypeOK'
    BY DEF TypeOK, vars
  <2>2. QED
    BY <1>1, <2>1, NextIsStep
<1>2. CASE SendToOrQueue(r)
  <2>1. sentUpTo' \in Msgs /\ sentUpTo' \in 0..MaxMsgs
    BY <1>1, <1>2, RemotesAssumption DEF SendToOrQueue, TypeOK, Msgs
  <2>2. fate' \in [Msgs -> {"none", "queued", "sent", "lost", "discarded"}]
    BY <1>1, <1>2, <2>1 DEF SendToOrQueue, TypeOK
  <2>3. queue' \in [Remotes -> Seq(Msgs)]
    <3>1. Append(queue[r], sentUpTo') \in Seq(Msgs)
      BY <1>1, <2>1 DEF TypeOK
    <3>2. \/ queue' = queue
          \/ queue' = [queue EXCEPT ![r] = Append(queue[r], sentUpTo')]
      BY <1>2 DEF SendToOrQueue
    <3>3. QED
      BY <1>1, <3>1, <3>2 DEF TypeOK
  <2>4. loads' \in [Remotes -> [LoadStage -> Nat]]
    <3>1. \/ loads' = loads
          \/ loads' = [loads EXCEPT ![r] =
                          [loads[r] EXCEPT !["asked"] = loads[r]["asked"] + 1]]
      BY <1>2 DEF SendToOrQueue
    <3>2. "asked" \in LoadStage /\ loads[r]["asked"] + 1 \in Nat
      BY <1>1 DEF TypeOK, LoadStage
    <3>3. [loads EXCEPT ![r] =
              [loads[r] EXCEPT !["asked"] = loads[r]["asked"] + 1]]
            \in [Remotes -> [LoadStage -> Nat]]
      BY <1>1, <3>2, LoadTypes DEF TypeOK
    <3>4. QED
      BY <1>1, <3>1, <3>3 DEF TypeOK
  <2>5. /\ pending' \subseteq Remotes
        /\ holder' \in [Remotes -> Holder]
        /\ retries' \in [Remotes -> 0..Retries]
    BY <1>1, <1>2, TryConnectTypes DEF SendToOrQueue, TypeOK
  <2>6. QED
    BY <1>1, <1>2, <2>1, <2>2, <2>3, <2>4, <2>5 DEF SendToOrQueue, TypeOK
<1>3. CASE ConnectAll(r)
  BY <1>1, <1>3, TryConnectTypes DEF ConnectAll, TypeOK
<1>4. CASE nodedb_async_load_rc(r)
  <2>1. PICK stage \in {"loaded", "missing"} :
           loads' = [loads EXCEPT ![r]["asked"] = @ - 1, ![r][stage] = @ + 1]
    BY <1>4 DEF nodedb_async_load_rc
  <2> DEFINE one == [loads EXCEPT ![r] =
                        [loads[r] EXCEPT !["asked"] = loads[r]["asked"] - 1]]
  <2>2. /\ "asked" \in LoadStage /\ stage \in LoadStage
        /\ loads[r]["asked"] - 1 \in Nat
    BY <1>1, <1>4 DEF TypeOK, LoadStage, nodedb_async_load_rc
  <2>3. one \in [Remotes -> [LoadStage -> Nat]]
    BY <1>1, <2>2, LoadTypes DEF TypeOK
  <2>4. one[r][stage] + 1 \in Nat
    BY <2>2, <2>3
  <2>5. loads' = [one EXCEPT ![r] = [one[r] EXCEPT ![stage] = one[r][stage] + 1]]
    BY <2>1
  <2>6. loads' \in [Remotes -> [LoadStage -> Nat]]
    <3> HIDE DEF one
    <3> QED  BY <2>2, <2>3, <2>4, <2>5, LoadTypes
  <2>7. QED
    BY <1>1, <1>4, <2>6 DEF nodedb_async_load_rc, loadfile, TypeOK
<1>5. CASE HandleAsyncLoadRCForSendTo(r)
  <2>1. loads' \in [Remotes -> [LoadStage -> Nat]]
    <3>1. PICK s \in LoadStage :
             /\ loads[r][s] > 0
             /\ loads' = [loads EXCEPT ![r] = [loads[r] EXCEPT ![s] = loads[r][s] - 1]]
      BY <1>5 DEF HandleAsyncLoadRCForSendTo, LoadStage
    <3>2. loads[r][s] - 1 \in Nat
      BY <1>1, <3>1 DEF TypeOK
    <3>3. QED
      BY <1>1, <3>1, <3>2, LoadTypes DEF TypeOK
  <2>2. lookups' \in [Remotes -> Nat]
    BY <1>1, <1>5 DEF HandleAsyncLoadRCForSendTo, TypeOK
  <2>3. QED
    BY <1>1, <1>5, <2>1, <2>2, TryConnectTypes
    DEF HandleAsyncLoadRCForSendTo, TypeOK
<1>6. CASE HandleDHTLookupForSendTo(r)
  <2>1. lookups' \in [Remotes -> Nat]
    BY <1>1, <1>6 DEF HandleDHTLookupForSendTo, TypeOK
  <2>2. QED
    BY <1>1, <1>6, <2>1, TryConnectTypes, QueueTypes
    DEF HandleDHTLookupForSendTo, TypeOK
<1>7. CASE Establishes(r)
  BY <1>1, <1>7, RemotesAssumption DEF Establishes, TypeOK
<1>8. CASE on_try_connect_result(r)
  <2>1. /\ holder' \in [Remotes -> Holder]
        /\ retries' \in [Remotes -> 0..Retries]
    <3>1. PICK h \in Holder : holder' = [holder EXCEPT ![r] = h]
      BY <1>8 DEF on_try_connect_result, Holder
    <3>2. \/ retries' = retries
          \/ retries[r] > 0 /\ retries' = [retries EXCEPT ![r] = retries[r] - 1]
      BY <1>8 DEF on_try_connect_result
    <3>3. retries[r] > 0 => retries[r] - 1 \in 0..Retries
      BY <1>1, RemotesAssumption DEF TypeOK
    <3>4. QED
      BY <1>1, <3>1, <3>2, <3>3 DEF TypeOK
  <2>2. QED
    BY <1>1, <1>8, <2>1, QueueTypes DEF on_try_connect_result, TypeOK
<1>9. CASE connect_job_retry(r)
  BY <1>1, <1>9, EstablishTypes DEF connect_job_retry, TypeOK
<1>10. CASE crypto_threadworker_verifyrc(r)
  BY <1>1, <1>10 DEF crypto_threadworker_verifyrc, TypeOK, Holder
<1>11. CASE disk_threadworker_setRC(r)
  <2>1. PICK h \in Holder : holder' = [holder EXCEPT ![r] = h]
    BY <1>11 DEF disk_threadworker_setRC, Holder
  <2>2. Identity[r] \in Remotes
    BY <1>1, RemotesAssumption
  <2>3. entries' \subseteq Remotes /\ disk' \subseteq Remotes
    BY <1>1, <1>11, <2>2 DEF disk_threadworker_setRC, setRC, TypeOK
  <2>4. QED
    BY <1>1, <1>11, <2>1, <2>3 DEF disk_threadworker_setRC, TypeOK
<1>12. CASE on_verify_server_rc(r)
  <2>1. Identity[r] \in Remotes
    BY <1>1, RemotesAssumption
  <2>2. holder' \in [Remotes -> Holder]
    <3>1. holder' = Erased(r, Identity[r])
      BY <1>12 DEF on_verify_server_rc
    <3>2. QED
      BY <1>1, <2>1, <3>1 DEF Erased, TypeOK, Holder
  <2>3. QED
    BY <1>1, <1>12, <2>1, <2>2, QueueTypes DEF on_verify_server_rc, TypeOK
<1>13. CASE RemoveSession(r)
  <2>1. holder' \in [Remotes -> Holder]
    BY <1>1, <1>13 DEF RemoveSession, TypeOK, Holder
  <2>2. QED
    BY <1>1, <1>13, <2>1 DEF RemoveSession, SessionClosed, TypeOK
<1>14. CASE InboundSession(r)
  BY <1>1, <1>14 DEF InboundSession, TypeOK
<1>15. CASE RemoveInboundSession(r)
  BY <1>1, <1>15 DEF RemoveInboundSession, SessionClosed, TypeOK
<1>16. QED
  BY <1>1, <1>2, <1>3, <1>4, <1>5, <1>6, <1>7, <1>8, <1>9, <1>10, <1>11, <1>12,
     <1>13, <1>14, <1>15 DEF Step

(* The initial state has the right types. *)
LEMMA TypeInit == Init => TypeOK
  BY RemotesAssumption DEF Init, TypeOK, Holder, LoadStage

(* Type correctness of the router's queues, jobs and tables. *)
THEOREM RouterTypeCorrect == Spec => []TypeOK
  BY TypeInit, TypeStep, PTL DEF Spec
-----------------------------------------------------------------------------
\* Jobs and queues, one remote at a time.
Held(g) == g \in pending <=> holder[g] # "none"

Work(g) ==
    \/ holder[g] # "none"
    \/ lookups[g] > 0
    \/ \E s \in LoadStage : loads[g][s] > 0

Waits(g) == g \in NoAddress \/ queue[g] = <<>> \/ Work(g)

(* try_connect of another remote leaves the job of a genuine one alone: they have
   different addresses, so the link has different sessions for them. *)
LEMMA OthersConnect ==
    ASSUME TypeOK, NEW g \in Genuine, NEW r \in Remotes, r # g,
           link_try_establish(r)
    PROVE  holder'[g] = holder[g]
<1>1. g \in Remotes /\ Identity[g] = g /\ Identity[r] # g
  BY DEF Genuine
<1>2. g \notin AtLink(Identity[r])
  BY <1>1 DEF AtLink
<1>3. QED
  BY <1>1, <1>2 DEF link_try_establish

(* A step for another remote leaves a genuine one's job and queue alone. *)
LEMMA OthersStep ==
    ASSUME TypeOK, NEW g \in Genuine, NEW r \in Remotes, r # g, Step(r)
    PROVE  /\ holder'[g] = holder[g] /\ (g \in pending' <=> g \in pending)
           /\ queue'[g] = queue[g] /\ loads'[g] = loads[g] /\ lookups'[g] = lookups[g]
<1>1. g \in Remotes /\ Identity[g] = g /\ Identity[r] # g /\ Identity[r] \in Remotes
  BY RemotesAssumption DEF Genuine
<1>2. try_connect(r) => holder'[g] = holder[g] /\ (g \in pending' <=> g \in pending)
  BY OthersConnect, <1>1 DEF try_connect
<1> USE <1>1 DEF TypeOK
<1>3. CASE SendToOrQueue(r)
  BY <1>2, <1>3 DEF SendToOrQueue
<1>4. CASE ConnectAll(r)
  BY <1>2, <1>4 DEF ConnectAll
<1>5. CASE nodedb_async_load_rc(r)
  BY <1>5 DEF nodedb_async_load_rc
<1>6. CASE HandleAsyncLoadRCForSendTo(r)
  BY <1>2, <1>6 DEF HandleAsyncLoadRCForSendTo
<1>7. CASE HandleDHTLookupForSendTo(r)
  BY <1>2, <1>7 DEF HandleDHTLookupForSendTo, DiscardOutboundFor
<1>8. CASE Establishes(r) \/ InboundSession(r) \/ RemoveInboundSession(r)
  BY <1>8 DEF Establishes, InboundSession, RemoveInboundSession
<1>9. CASE on_try_connect_result(r)
  BY <1>9 DEF on_try_connect_result, DiscardOutboundFor
<1>10. CASE connect_job_retry(r)
  BY <1>10, OthersConnect DEF connect_job_retry
<1>11. CASE crypto_threadworker_verifyrc(r)
  BY <1>11 DEF crypto_threadworker_verifyrc
<1>12. CASE disk_threadworker_setRC(r)
  BY <1>12 DEF disk_threadworker_setRC
<1>13. CASE on_verify_server_rc(r)
  BY <1>13 DEF on_verify_server_rc, DiscardOutboundFor, FlushOutboundFor, Erased
<1>14. CASE RemoveSession(r)
  <2>1. g \notin AtLink(r)
    BY DEF AtLink
  <2>2. QED
    BY <1>14, <2>1 DEF RemoveSession
<1>15. QED
  BY <1>3, <1>4, <1>5, <1>6, <1>7, <1>8, <1>9, <1>10, <1>11, <1>12, <1>13, <1>14
     DEF Step

(* try_connect starts a job, or there is one: in either case the remote has a job
   that is held, if it has an address. *)
LEMMA TryConnectHeld ==
    ASSUME TypeOK, NEW g \in Remotes, Held(g), try_connect(g)
    PROVE  Held(g)' /\ (g \notin NoAddress => Work(g)')
<1>1. CASE g \in pending \cup NoAddress
  BY <1>1 DEF Held, Work, try_connect
<1>2. CASE g \notin pending \cup NoAddress
  <2>1. g \in pending' /\ holder'[g] = "link"
    BY <1>2 DEF try_connect, link_try_establish
  <2>2. QED
    BY <2>1 DEF Held, Work
<1>3. QED
  BY <1>1, <1>2

(* What a remote's own steps do to its job and its queue. *)
LEMMA OwnStep ==
    ASSUME TypeOK, NEW g \in Genuine, Held(g), Waits(g), Step(g)
    PROVE  Held(g)' /\ Waits(g)'
<1>1. g \in Remotes /\ Identity[g] = g
  BY DEF Genuine
<1> USE <1>1
<1>2. ASSUME holder'[g] # "none", g \in pending' PROVE Held(g)' /\ Waits(g)'
  BY <1>2 DEF Held, Waits, Work
<1>3. ASSUME UNCHANGED <<pending, holder, queue, loads, lookups>>
      PROVE  Held(g)' /\ Waits(g)'
  BY <1>3 DEF Held, Waits, Work
<1>4. ASSUME try_connect(g) PROVE Held(g)' /\ Waits(g)'
  BY <1>4, TryConnectHeld DEF Waits
<1>5. CASE SendToOrQueue(g)
  <2>1. CASE g \in out \cup inb
    BY <1>3, <1>5, <2>1 DEF SendToOrQueue
  <2>2. CASE g \notin out \cup inb /\ g \in entries
    BY <1>4, <1>5, <2>2 DEF SendToOrQueue
  <2>3. CASE g \notin out \cup inb /\ g \notin entries
    <3>1. /\ UNCHANGED <<pending, holder>>
          /\ loads' = [loads EXCEPT ![g]["asked"] = @ + 1]
      BY <1>5, <2>3 DEF SendToOrQueue
    <3>2. loads'[g]["asked"] > 0 /\ "asked" \in LoadStage
      BY <3>1 DEF TypeOK, LoadStage
    <3>3. QED
      BY <3>1, <3>2 DEF Held, Waits, Work
  <2>4. QED
    BY <2>1, <2>2, <2>3
<1>6. CASE ConnectAll(g)
  BY <1>4, <1>6 DEF ConnectAll
<1>7. CASE nodedb_async_load_rc(g)
  <2>1. /\ UNCHANGED <<queue, lookups, pending, holder>>
        /\ \E s \in LoadStage : loads'[g][s] > 0
    BY <1>7 DEF nodedb_async_load_rc, TypeOK, LoadStage
  <2>2. QED
    BY <2>1 DEF Held, Waits, Work
<1>8. CASE HandleAsyncLoadRCForSendTo(g)
  <2>1. CASE try_connect(g)
    BY <1>4, <2>1
  <2>2. CASE UNCHANGED <<pending, holder>> /\ lookups'[g] > 0
    BY <2>2 DEF Held, Waits, Work
  <2>3. QED
    BY <1>8, <2>1, <2>2 DEF HandleAsyncLoadRCForSendTo, TypeOK
<1>9. CASE HandleDHTLookupForSendTo(g)
  <2>1. CASE DiscardOutboundFor(g) /\ UNCHANGED <<pending, holder>>
    BY <2>1 DEF Held, Waits, DiscardOutboundFor, TypeOK
  <2>2. QED
    BY <1>4, <1>9, <2>1 DEF HandleDHTLookupForSendTo
<1>10. CASE Establishes(g) \/ InboundSession(g) \/ RemoveInboundSession(g)
  BY <1>3, <1>10 DEF Establishes, InboundSession, RemoveInboundSession
<1>11. CASE on_try_connect_result(g)
  <2>1. g \in pending
    BY <1>11 DEF on_try_connect_result, Held
  <2>2. CASE \E h \in {"crypto", "backoff"} :
                holder' = [holder EXCEPT ![g] = h] /\ UNCHANGED pending
    BY <1>2, <2>1, <2>2 DEF TypeOK
  <2>3. CASE /\ DiscardOutboundFor(g)
             /\ pending' = pending \ {g}
             /\ holder' = [holder EXCEPT ![g] = "none"]
    BY <2>3 DEF DiscardOutboundFor, Held, Waits, TypeOK
  <2>4. QED
    BY <1>11, <2>2, <2>3 DEF on_try_connect_result
<1>12. CASE connect_job_retry(g)
  BY <1>2, <1>12 DEF connect_job_retry, link_try_establish, Held
<1>13. CASE crypto_threadworker_verifyrc(g)
  BY <1>2, <1>13 DEF crypto_threadworker_verifyrc, Held, TypeOK
<1>14. CASE disk_threadworker_setRC(g)
  <2>1. PICK h \in {"verified", "refused"} : holder' = [holder EXCEPT ![g] = h]
    BY <1>14 DEF disk_threadworker_setRC
  <2>2. g \in pending' /\ holder'[g] # "none"
    BY <1>14, <2>1 DEF disk_threadworker_setRC, Held, TypeOK
  <2>3. QED
    BY <1>2, <2>2
<1>15. CASE on_verify_server_rc(g)
  <2>1. /\ queue' = [queue EXCEPT ![g] = <<>>]
        /\ pending' = pending \ {g}
        /\ holder' = Erased(g, g)
    BY <1>15 DEF on_verify_server_rc, DiscardOutboundFor, FlushOutboundFor
  <2>2. queue'[g] = <<>> /\ g \notin pending' /\ holder'[g] = "none"
    BY <2>1 DEF TypeOK, Erased
  <2>3. QED
    BY <2>2 DEF Held, Waits
<1>16. CASE RemoveSession(g)
  <2>1. CASE g \in AtLink(g)
    BY <1>2, <1>16, <2>1 DEF RemoveSession, AtLink, Held
  <2>2. CASE g \notin AtLink(g)
    <3>1. holder'[g] = holder[g] /\ UNCHANGED <<pending, queue, loads, lookups>>
      BY <1>16, <2>2 DEF RemoveSession
    <3>2. QED
      BY <3>1 DEF Held, Waits, Work
  <2>3. QED
    BY <2>1, <2>2
<1>17. QED
  BY <1>5, <1>6, <1>7, <1>8, <1>9, <1>10, <1>11, <1>12, <1>13, <1>14, <1>15, <1>16
     DEF Step

\* Both properties, remote by remote.
WorkInv == \A g \in Genuine : Held(g) /\ Waits(g)

(* Every step keeps the job and the queue of every genuine remote in order. *)
LEMMA WorkStep == TypeOK /\ WorkInv /\ [Next]_vars => WorkInv'
<1>1. SUFFICES ASSUME TypeOK, WorkInv, [Next]_vars, NEW g \in Genuine
               PROVE  Held(g)' /\ Waits(g)'
  BY DEF WorkInv, Genuine
<1>2. Held(g) /\ Waits(g)
  BY <1>1 DEF WorkInv
<1>3. CASE UNCHANGED vars
  BY <1>2, <1>3 DEF vars, Held, Waits, Work
<1>4. CASE Next
  <2>1. PICK r \in Remotes : Step(r)
    BY <1>4, NextIsStep
  <2>2. CASE r = g
    BY <1>1, <1>2, <2>1, <2>2, OwnStep
  <2>3. CASE r # g
    <3>1. /\ holder'[g] = holder[g] /\ (g \in pending' <=> g \in pending)
          /\ queue'[g] = queue[g] /\ loads'[g] = loads[g] /\ lookups'[g] = lookups[g]
      BY <1>1, <2>1, <2>3, OthersStep
    <3>2. QED
      BY <1>2, <3>1 DEF Held, Waits, Work
  <2>4. QED
    BY <2>2, <2>3
<1>5. QED
  BY <1>1, <1>3, <1>4

(* At first there are neither jobs nor messages. *)
LEMMA WorkInit == Init => WorkInv
  BY DEF Init, WorkInv, Held, Waits, Genuine

(* The job of a remote that is who its RC says, whatever the others are, is in
   pendingEstablishJobs exactly while somebody holds it or the link has forgotten
   it with its session: no pointer dangles in the link, the timer or the
   verification, and no other way leads to a job that blocks a remote for ever. *)
THEOREM NoJobDangles == Spec => []JobIsHeld
<1>1. WorkInv => JobIsHeld
  BY DEF WorkInv, Held, JobIsHeld
<1>2. QED
  BY <1>1, WorkInit, WorkStep, TypeInit, TypeStep, PTL DEF Spec

(* No queue of messages for such a remote, if it has an address, is left without
   a load, a lookup or a job that will flush or discard it, unless the link has
   forgotten the job. *)
THEOREM NoQueueForgotten == Spec => []QueueHasWork
<1>1. WorkInv => QueueHasWork
  BY DEF WorkInv, Waits, Work, QueueHasWork
<1>2. QED
  BY <1>1, WorkInit, WorkStep, TypeInit, TypeStep, PTL DEF Spec
-----------------------------------------------------------------------------
\* A message that was not given to SendToOrQueue yet has no fate.
UnsentHasNoFate == \A m \in Msgs : m > sentUpTo => fate[m] = "none"

(* Flush and discard empty one queue and settle exactly what was in it. *)
LEMMA EmptyStep ==
    ASSUME TypeOK, QueuedOnce, UnsentHasNoFate, NEW r \in Remotes,
           DiscardOutboundFor(r) \/ FlushOutboundFor(r), sentUpTo' = sentUpTo
    PROVE  QueuedOnce' /\ UnsentHasNoFate'
<1>1. PICK f \in {"sent", "lost", "discarded"} :
         queue' = [queue EXCEPT ![r] = <<>>] /\ fate' = Fated(r, f)
  BY DEF DiscardOutboundFor, FlushOutboundFor
<1>2. /\ queue'[r] = <<>> /\ DOMAIN queue'[r] = {}
      /\ \A q \in Remotes : q # r => queue'[q] = queue[q]
  BY <1>1 DEF TypeOK
<1>3. \A q \in Remotes : \A i \in DOMAIN queue[q] : queue[q][i] \in Msgs
  BY DEF TypeOK
<1>4. \A m \in Msgs :
         fate'[m] = IF \E i \in DOMAIN queue[r] : queue[r][i] = m
                    THEN f ELSE fate[m]
  BY <1>1 DEF Fated
<1>5. ASSUME NEW m \in Msgs, fate'[m] = "queued"
      PROVE  \E q \in Remotes : \E i \in DOMAIN queue'[q] : queue'[q][i] = m
  <2>1. fate[m] = "queued" /\ ~\E i \in DOMAIN queue[r] : queue[r][i] = m
    BY <1>4, <1>5
  <2>2. PICK q \in Remotes : \E i \in DOMAIN queue[q] : queue[q][i] = m
    BY <2>1 DEF QueuedOnce
  <2>3. q # r
    BY <2>1, <2>2
  <2>4. QED
    BY <1>2, <2>2, <2>3
<1>6. ASSUME NEW q \in Remotes, NEW i \in DOMAIN queue'[q]
      PROVE  /\ fate'[queue'[q][i]] = "queued"
             /\ \A p \in Remotes : \A j \in DOMAIN queue'[p] :
                   queue'[p][j] = queue'[q][i] => p = q /\ j = i
  <2>1. q # r
    BY <1>2, <1>6
  <2>2. queue'[q] = queue[q] /\ i \in DOMAIN queue[q] /\ queue[q][i] \in Msgs
    BY <1>2, <1>3, <1>6, <2>1
  <2>3. ~\E j \in DOMAIN queue[r] : queue[r][j] = queue[q][i]
    BY <2>1, <2>2 DEF QueuedOnce
  <2>4. fate'[queue[q][i]] = fate[queue[q][i]]
    BY <1>4, <2>2, <2>3
  <2>5. fate[queue[q][i]] = "queued"
    BY <2>2 DEF QueuedOnce
  <2>6. ASSUME NEW p \in Remotes, NEW j \in DOMAIN queue'[p],
               queue'[p][j] = queue'[q][i]
        PROVE  p = q /\ j = i
    <3>1. p # r
      BY <1>2, <2>6
    <3>2. queue'[p] = queue[p]
      BY <1>2, <3>1
    <3>3. QED
      BY <2>2, <2>6, <3>2 DEF QueuedOnce
  <2>7. QED
    BY <2>2, <2>4, <2>5, <2>6
<1>7. UnsentHasNoFate'
  <2>1. SUFFICES ASSUME NEW m \in Msgs, m > sentUpTo PROVE fate'[m] = "none"
    BY DEF UnsentHasNoFate
  <2>2. fate[m] = "none"
    BY <2>1 DEF UnsentHasNoFate
  <2>3. ~\E i \in DOMAIN queue[r] : queue[r][i] = m
    BY <2>2 DEF QueuedOnce
  <2>4. QED
    BY <1>4, <2>2, <2>3
<1>8. QED
  BY <1>5, <1>6, <1>7 DEF QueuedOnce

(* SendToOrQueue appends a message no queue has. *)
LEMMA AppendStep ==
    ASSUME TypeOK, QueuedOnce, UnsentHasNoFate, NEW r \in Remotes,
           SendToOrQueue(r)
    PROVE  QueuedOnce' /\ UnsentHasNoFate'
<1> DEFINE n == sentUpTo + 1
<1>1. n \in Msgs /\ sentUpTo' = n /\ fate[n] = "none" /\ sentUpTo \in Nat
  BY RemotesAssumption DEF SendToOrQueue, TypeOK, Msgs, UnsentHasNoFate
<1> HIDE DEF n
<1>2. \A q \in Remotes : \A i \in DOMAIN queue[q] :
         queue[q][i] \in Msgs /\ queue[q][i] # n
  BY <1>1 DEF TypeOK, QueuedOnce
<1>3. \A m \in Msgs : m # n => fate'[m] = fate[m]
  BY <1>1 DEF SendToOrQueue, TypeOK
<1>4. UnsentHasNoFate'
  <2>1. SUFFICES ASSUME NEW m \in Msgs, m > sentUpTo' PROVE fate'[m] = "none"
    BY DEF UnsentHasNoFate
  <2>2. m # n /\ m > sentUpTo
    BY <1>1, <2>1 DEF n, Msgs
  <2>3. QED
    BY <1>3, <2>2 DEF UnsentHasNoFate
<1>5. CASE r \in out \cup inb
  <2>1. queue' = queue /\ fate'[n] = "sent"
    BY <1>1, <1>5 DEF SendToOrQueue, TypeOK
  <2>2. QED
    BY <1>1, <1>2, <1>3, <1>4, <2>1 DEF QueuedOnce
<1>6. CASE r \notin out \cup inb
  <2>1. queue' = [queue EXCEPT ![r] = Append(queue[r], n)] /\ fate'[n] = "queued"
    BY <1>1, <1>6 DEF SendToOrQueue, TypeOK
  <2> DEFINE k == Len(queue[r]) + 1
  <2>2. /\ queue[r] \in Seq(Msgs)
        /\ k \notin DOMAIN queue[r]
        /\ DOMAIN queue'[r] = DOMAIN queue[r] \cup {k}
        /\ queue'[r][k] = n
        /\ \A i \in DOMAIN queue[r] : queue'[r][i] = queue[r][i]
    BY <1>1, <2>1 DEF TypeOK
  <2> HIDE DEF k
  <2>3. \A q \in Remotes : q # r => queue'[q] = queue[q]
    BY <2>1 DEF TypeOK
  <2>4. ASSUME NEW m \in Msgs, fate'[m] = "queued"
        PROVE  \E q \in Remotes : \E i \in DOMAIN queue'[q] : queue'[q][i] = m
    <3>1. CASE m = n
      BY <2>2, <3>1
    <3>2. CASE m # n
      <4>1. PICK q \in Remotes : \E i \in DOMAIN queue[q] : queue[q][i] = m
        BY <1>3, <2>4, <3>2 DEF QueuedOnce
      <4>2. QED
        BY <2>2, <2>3, <4>1
    <3>3. QED
      BY <3>1, <3>2
  <2>5. ASSUME NEW q \in Remotes, NEW i \in DOMAIN queue'[q]
        PROVE  \/ q = r /\ i = k /\ queue'[q][i] = n
               \/ /\ i \in DOMAIN queue[q] /\ queue'[q][i] = queue[q][i]
                  /\ queue[q][i] \in Msgs /\ queue[q][i] # n
                  /\ ~(q = r /\ i = k)
    BY <1>2, <2>2, <2>3, <2>5
  <2>6. ASSUME NEW q \in Remotes, NEW i \in DOMAIN queue'[q]
        PROVE  fate'[queue'[q][i]] = "queued"
    BY <1>3, <2>1, <2>5, <2>6 DEF QueuedOnce
  <2>7. ASSUME NEW q \in Remotes, NEW i \in DOMAIN queue'[q],
               NEW p \in Remotes, NEW j \in DOMAIN queue'[p],
               queue'[p][j] = queue'[q][i]
        PROVE  p = q /\ j = i
    <3>1. CASE q = r /\ i = k /\ queue'[q][i] = n
      BY <2>5, <2>7, <3>1
    <3>2. CASE /\ i \in DOMAIN queue[q] /\ queue'[q][i] = queue[q][i]
               /\ queue[q][i] # n
      <4>1. j \in DOMAIN queue[p] /\ queue'[p][j] = queue[p][j]
        BY <2>5, <2>7, <3>2
      <4>2. QED
        BY <2>7, <3>2, <4>1 DEF QueuedOnce
    <3>3. QED
      BY <2>5, <3>1, <3>2
  <2>8. QED
    BY <1>4, <2>4, <2>6, <2>7 DEF QueuedOnce
<1>7. QED
  BY <1>5, <1>6

(* Both are kept by every step. *)
LEMMA OnceStep ==
    TypeOK /\ QueuedOnce /\ UnsentHasNoFate /\ [Next]_vars
        => QueuedOnce' /\ UnsentHasNoFate'
<1>1. ASSUME QueuedOnce, UnsentHasNoFate, UNCHANGED <<queue, fate, sentUpTo>>
      PROVE  QueuedOnce' /\ UnsentHasNoFate'
  BY <1>1 DEF QueuedOnce, UnsentHasNoFate
<1>2. SUFFICES ASSUME TypeOK, QueuedOnce, UnsentHasNoFate, NEW r \in Remotes, Step(r)
               PROVE  QueuedOnce' /\ UnsentHasNoFate'
  <2>1. UNCHANGED vars => UNCHANGED <<queue, fate, sentUpTo>>
    BY DEF vars
  <2>2. QED
    BY <1>1, <1>2, <2>1, NextIsStep
<1>3. Identity[r] \in Remotes
  BY <1>2, RemotesAssumption
<1>4. \/ SendToOrQueue(r)
      \/ UNCHANGED <<queue, fate, sentUpTo>>
      \/ /\ sentUpTo' = sentUpTo
         /\ \E q \in Remotes : DiscardOutboundFor(q) \/ FlushOutboundFor(q)
  BY <1>2, <1>3
  DEF Step, ConnectAll, nodedb_async_load_rc, HandleAsyncLoadRCForSendTo,
      HandleDHTLookupForSendTo, Establishes, on_try_connect_result,
      connect_job_retry, crypto_threadworker_verifyrc, disk_threadworker_setRC,
      on_verify_server_rc, RemoveSession, InboundSession,
      RemoveInboundSession
<1>5. QED
  BY <1>1, <1>2, <1>4, AppendStep, EmptyStep

(* At first nothing is queued. *)
LEMMA OnceInit == Init => QueuedOnce /\ UnsentHasNoFate
  BY DEF Init, QueuedOnce, UnsentHasNoFate

(* Whatever flushes and discards the queues and in whatever order, a message
   that was queued is in one queue, once, until it is settled, and in none
   afterwards: it is neither sent twice nor forgotten. *)
THEOREM SettledOnce == Spec => []QueuedOnce
  BY OnceInit, OnceStep, TypeInit, TypeStep, PTL DEF Spec
=============================================================================
