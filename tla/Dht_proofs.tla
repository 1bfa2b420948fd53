----------------------------- MODULE Dht_proofs -----------------------------
(***************************************************************************)
(* Proofs about router lookups: they hold for every set of routers, every  *)
(* bucket, every number of lookups and every order in which the messages   *)
(* arrive or are lost.                                                     *)
(***************************************************************************)
EXTENDS Dht, NatLemmas, FiniteSetTheorems, TLAPS

-----------------------------------------------------------------------------
(* The inductive invariant *)

Ids == Keys \X Nat

TX ==
    [peer : Keys \cup {Nobody}, id : Ids, requester : Keys, requesterTX : Ids, target : Targets,
     job : Jobs \cup {NoJob}, exclude : SUBSET Keys]

FindMsg == [type : {"find"}, K : Targets, txid : Ids, iterative : BOOLEAN]

GotMsg == [type : {"got"}, K : Keys \cup Targets, txid : Ids, R : SUBSET Targets]

Msg == [from : Keys, to : Keys, msgs : SUBSET (FindMsg \cup GotMsg)]

Job ==
    [state : {"idle", "queued", "asked"}, target : Targets \cup {None}, calls : Nat,
     result : SUBSET Targets]

NetType ==
    /\ nodes \in [Keys -> SUBSET Keys]
    /\ ids \in [Keys -> Nat]
    /\ pendingTX \in [Keys -> SUBSET TX]
    /\ net \subseteq Msg

\* Nobody is in its own bucket, and nobody writes to itself.
NotSelf ==
    /\ \A n \in Keys : n \notin nodes[n]
    /\ \A m \in net : m.from # m.to

\* An id that somebody has counted to; the ids of n's transactions are n's.
Counted(id) == id[2] \in 1..ids[id[1]]

IdsCounted ==
    /\ \A n \in Keys : \A tx \in pendingTX[n] :
         tx.id[1] = n /\ Counted(tx.id) /\ Counted(tx.requesterTX)
    /\ \A m \in net : \A f \in m.msgs : Counted(f.txid)

\* Something in the system says that transaction id is a search for t.
Names(id, t) ==
    \/ \E n \in Keys : \E tx \in pendingTX[n] :
         (tx.id = id \/ tx.requesterTX = id) /\ tx.target = t
    \/ \E m \in net : \E f \in m.msgs :
         /\ f.txid = id
         /\ \/ f.type = "find" /\ f.K = t
            \/ f.type = "got" /\ t \in f.R

\* All of it agrees.
OneTarget == \A id \in Ids : \A t, u \in Targets : Names(id, t) /\ Names(id, u) => t = u

Held(j) == \E n \in Keys : \E tx \in pendingTX[n] : tx.job = j

\* The transaction of a job is the seeker's, there is one at most, it searches
\* what the job asked for, and there is none before the job runs or after its
\* hook.
JobsHeld ==
    /\ \A n \in Keys : \A tx \in pendingTX[n] :
         tx.job # NoJob => n = Seeker /\ tx.target = job[tx.job].target
    /\ \A n \in Keys : \A tx, ty \in pendingTX[n] : tx.job = ty.job /\ tx.job # NoJob => tx = ty
    /\ \A j \in Jobs :
         /\ job[j].calls <= 1
         /\ job[j].calls = 1 \/ job[j].state # "asked" => ~Held(j)
         /\ job[j].state # "asked" => job[j].calls = 0 /\ job[j].result = {}
         /\ job[j].state = "queued" => job[j].target \in Targets
         /\ job[j].result \subseteq {job[j].target}

\* What holds whatever the jobs are.
NetInv == NetType /\ NotSelf /\ IdsCounted /\ OneTarget /\ LookupCloses

IInv == NetInv /\ job \in [Jobs -> Job] /\ JobsHeld

-----------------------------------------------------------------------------
(* The closest peer *)

\* The zero key is nobody's.
LEMMA NoneIsNoKey == None \notin Keys /\ None \notin Targets
BY DhtAssumption DEF None

\* The closest of some routers is one of them.
LEMMA ClosestIsOne ==
    ASSUME NEW t \in Targets, NEW S \in SUBSET Keys, S # {}
    PROVE  Closest(S, t) \in S
<1> DEFINE D == {Xor(k, t) : k \in S}
<1>1. D \in SUBSET Nat /\ D # {}
  BY XorAssumption
<1>2. PICK d \in D : \A e \in D : d <= e
  BY <1>1, LeastNat
<1>3. \E k \in S : \A o \in S : Xor(k, t) <= Xor(o, t)
  BY <1>2
<1> QED
  BY <1>3 DEF Closest

\* The bucket's searches find nobody, or a peer of the bucket that is not
\* excluded; FindClosest may make up a key, if there are peers.
LEMMA FindsPeer ==
    ASSUME NetType, NotSelf, NEW n \in Keys, NEW t \in Targets, NEW exclude \in SUBSET Keys
    PROVE  /\ FindClosest(n, t) \subseteq (Keys \ {n}) \cup {None, Nobody}
           /\ nodes[n] = {} => FindClosest(n, t) = {None}
           /\ FindCloseExcluding(n, t, exclude) \in (nodes[n] \ exclude) \cup {None}
<1>1. nodes[n] \in SUBSET Keys
  BY DEF NetType
<1>2. ASSUME NEW S \in SUBSET nodes[n], Seen(S, t) # {}
      PROVE  Closest(Seen(S, t), t) \in S
  <2>1. Seen(S, t) \subseteq S
    BY DEF Seen
  <2>2. Seen(S, t) \in SUBSET Keys
    BY <1>1, <2>1, <1>2
  <2> QED
    BY <1>2, <2>1, <2>2, ClosestIsOne
<1>3. /\ FindClosest(n, t) \subseteq (Keys \ {n}) \cup {None, Nobody}
      /\ nodes[n] = {} => FindClosest(n, t) = {None}
  BY <1>1, <1>2 DEF FindClosest, NotSelf
<1>4. FindCloseExcluding(n, t, exclude) \in (nodes[n] \ exclude) \cup {None}
  BY <1>2 DEF FindCloseExcluding
<1> QED
  BY <1>3, <1>4

-----------------------------------------------------------------------------
(* The two shapes of a step: a router asks a peer, or it does not *)

\* No id is named that nobody has counted to.
LEMMA NamedIsCounted ==
    ASSUME NetType, IdsCounted, NEW id, NEW t, Names(id, t)
    PROVE  Counted(id) /\ id \in Ids
<1>1. CASE \E n \in Keys : \E tx \in pendingTX[n] : tx.id = id \/ tx.requesterTX = id
  <2>0. PICK n \in Keys : \E tx \in pendingTX[n] : tx.id = id \/ tx.requesterTX = id
    BY <1>1
  <2>1. PICK tx \in pendingTX[n] : tx.id = id \/ tx.requesterTX = id
    BY <2>0
  <2>2. tx \in TX
    BY DEF NetType
  <2> QED
    BY <2>1, <2>2 DEF IdsCounted, TX
<1>2. CASE \E m \in net : \E f \in m.msgs : f.txid = id
  <2>0. PICK m \in net : \E f \in m.msgs : f.txid = id
    BY <1>2
  <2>1. PICK f \in m.msgs : f.txid = id
    BY <2>0
  <2>2. f \in FindMsg \cup GotMsg
    BY DEF NetType, Msg
  <2> QED
    BY <2>1, <2>2 DEF IdsCounted, FindMsg, GotMsg
<1> QED
  BY <1>1, <1>2 DEF Names

\* A step in which no router asks: transactions are dropped, and the message
\* sent, if any, is empty or answers a transaction with what it searches.
LEMMA QuietStep ==
    ASSUME NetInv, NEW sent \in SUBSET Msg,
           \A r \in sent :
             /\ r.from # r.to
             /\ \A g \in r.msgs : /\ g.type = "got" /\ Counted(g.txid)
                                 /\ \A t \in g.R : Names(g.txid, t),
           ids' = ids,
           nodes' \in [Keys -> SUBSET Keys], \A n \in Keys : n \notin nodes'[n],
           pendingTX' \in [Keys -> SUBSET TX],
           \A n \in Keys : pendingTX'[n] \subseteq pendingTX[n],
           net' \subseteq net \cup sent
    PROVE  NetInv'
<1> USE DEF NetInv
<1>1. NetType'
  BY DEF NetType
<1>2. NotSelf'
  BY DEF NotSelf
<1>3. IdsCounted'
  BY DEF IdsCounted, Counted
<1>4. ASSUME NEW id, NEW t, Names(id, t)'
      PROVE  Names(id, t)
  <2>1. CASE \E n \in Keys : \E tx \in pendingTX'[n] :
               (tx.id = id \/ tx.requesterTX = id) /\ tx.target = t
    BY <2>1 DEF Names
  <2>2. CASE \E m \in net' : \E f \in m.msgs :
               /\ f.txid = id
               /\ \/ f.type = "find" /\ f.K = t
                  \/ f.type = "got" /\ t \in f.R
    <3>0. PICK m \in net' : \E f \in m.msgs :
               /\ f.txid = id
               /\ \/ f.type = "find" /\ f.K = t
                  \/ f.type = "got" /\ t \in f.R
      BY <2>2
    <3>1. PICK f \in m.msgs :
               /\ f.txid = id
               /\ \/ f.type = "find" /\ f.K = t
                  \/ f.type = "got" /\ t \in f.R
      BY <3>0
    <3>2. CASE m \in net
      BY <3>1, <3>2 DEF Names
    <3>3. CASE m \in sent
      BY <3>1, <3>3
    <3> QED
      BY <3>2, <3>3
  <2> QED
    BY <1>4, <2>1, <2>2 DEF Names
<1>5. OneTarget'
  BY <1>4 DEF OneTarget
<1>6. LookupCloses'
  BY DEF LookupCloses
<1> QED
  BY <1>1, <1>2, <1>3, <1>5, <1>6

\* The immediate messages without DHT messages.
Pongs == {m \in Msg : m.from # m.to /\ m.msgs = {}}

\* A step in which router n asks peer for t.
LEMMA AskStep ==
    ASSUME NetInv, NEW n \in Keys, NEW t \in Targets, NEW who \in Keys, NEW txid,
           NEW peer \in Keys \cup {Nobody}, peer # None, peer # Nobody => peer # n,
           NEW j \in Jobs \cup {NoJob}, NEW exclude \in SUBSET Keys, NEW iterative \in BOOLEAN,
           txid # NoTx => Names(txid, t),
           who # n => Xor(n, t) < Xor(who, t),
           nodes' = nodes,
           ids' = [ids EXCEPT ![n] = @ + 1],
           pendingTX' = [pendingTX EXCEPT ![n] = pendingTX'[n]],
           pendingTX'[n] \subseteq
             pendingTX[n] \cup LookupTX(n, t, who, txid, peer, j, exclude),
           net' \subseteq net \cup LookupMsg(n, t, who, peer, iterative) \cup Pongs
    PROVE  NetInv'
<1> USE DEF NetInv
<1>0. PICK new : new = TxId(n, ids[n] + 1)
  OBVIOUS
<1> DEFINE tx0 == SearchJob(peer, new, who, IF txid = NoTx THEN new ELSE txid, t, j, exclude)
           f0  == FindRouter(t, new, iterative)
           m0  == DHTImmediate(n, peer, {f0})
<1>1. LookupTX(n, t, who, txid, peer, j, exclude) = {tx0}
  BY <1>0, NoneIsNoKey DEF LookupTX, Asks
<1>2. LookupMsg(n, t, who, peer, iterative) = IF peer = Nobody THEN {} ELSE {m0}
  BY <1>0, NoneIsNoKey DEF LookupMsg, Asks
<1>3. ids[n] \in Nat /\ ids'[n] = ids[n] + 1 /\ ids' \in [Keys -> Nat]
  BY DEF NetType
<1>4. new \in Ids /\ Counted(new)' /\ new[1] = n /\ ~Counted(new)
  BY <1>0, <1>3 DEF Ids, TxId, Counted
<1>5. ASSUME NEW id \in Ids, Counted(id) PROVE Counted(id)'
  <2>1. id[1] \in Keys /\ id[2] \in Nat
    BY DEF Ids
  <2>2. ids[id[1]] \in Nat /\ ids'[id[1]] \in Nat /\ ids[id[1]] <= ids'[id[1]]
    BY <2>1, <1>3 DEF NetType
  <2> QED
    BY <1>5, <2>1, <2>2 DEF Counted
<1>6. txid # NoTx => txid \in Ids /\ Counted(txid)
  BY NamedIsCounted
<1>7. tx0 \in TX
  BY <1>4, <1>6 DEF SearchJob, TX
<1>8. f0 \in FindMsg /\ (peer # Nobody => m0 \in Msg)
  BY <1>4 DEF FindRouter, FindMsg, DHTImmediate, Msg
<1>9. \A k \in Keys : /\ pendingTX[k] \in SUBSET TX
                      /\ pendingTX'[k] \subseteq pendingTX[k] \cup {tx0}
                      /\ k # n => pendingTX'[k] = pendingTX[k]
  BY <1>1 DEF NetType
<1>10. \A m \in net' : m \in net \/ m \in Pongs \/ (m = m0 /\ peer # Nobody)
  BY <1>2
<1> USE DEF Pongs
<1> HIDE DEF tx0, f0, m0
<1>11. NetType'
  <2>1. pendingTX' \in [Keys -> SUBSET TX]
    BY <1>1, <1>7 DEF NetType
  <2> QED
    BY <1>3, <1>8, <1>10, <2>1 DEF NetType
<1>12. NotSelf'
  BY <1>10 DEF NotSelf, m0, DHTImmediate
<1>13. IdsCounted'
  <2>1. ASSUME NEW k \in Keys, NEW tx \in pendingTX'[k]
        PROVE  tx.id[1] = k /\ Counted(tx.id)' /\ Counted(tx.requesterTX)'
    <3>1. CASE tx \in pendingTX[k]
      BY <3>1, <1>5, <1>9 DEF IdsCounted, TX
    <3>2. CASE tx \notin pendingTX[k]
      <4>1. tx = tx0 /\ k = n
        BY <3>2, <1>9, <2>1
      <4>2. tx.id = new /\ (tx.requesterTX = new \/ (txid # NoTx /\ tx.requesterTX = txid))
        BY <4>1 DEF tx0, SearchJob
      <4> QED
        BY <4>1, <4>2, <1>4, <1>5, <1>6
    <3> QED
      BY <3>1, <3>2
  <2>2. ASSUME NEW m \in net', NEW f \in m.msgs
        PROVE  Counted(f.txid)'
    <3>1. CASE m \in net
      BY <3>1, <1>5 DEF IdsCounted, NetType, Msg, FindMsg, GotMsg
    <3>2. CASE m = m0
      BY <3>2, <1>4 DEF m0, DHTImmediate, f0, FindRouter
    <3> QED
      BY <3>1, <3>2, <1>10
  <2> QED
    BY <2>1, <2>2 DEF IdsCounted
<1>14. ASSUME NEW id, NEW u, Names(id, u)'
       PROVE  Names(id, u) \/ (id = new /\ u = t)
  <2>1. CASE \E k \in Keys : \E tx \in pendingTX'[k] :
               (tx.id = id \/ tx.requesterTX = id) /\ tx.target = u
    <3>0. PICK k \in Keys : \E tx \in pendingTX'[k] :
               (tx.id = id \/ tx.requesterTX = id) /\ tx.target = u
      BY <2>1
    <3>1. PICK tx \in pendingTX'[k] :
               (tx.id = id \/ tx.requesterTX = id) /\ tx.target = u
      BY <3>0
    <3>2. CASE tx \in pendingTX[k]
      BY <3>1, <3>2 DEF Names
    <3>3. CASE tx = tx0
      <4>1. u = t /\ (id = new \/ (txid # NoTx /\ id = txid))
        BY <3>1, <3>3 DEF tx0, SearchJob
      <4> QED
        BY <4>1
    <3> QED
      BY <3>2, <3>3, <1>9
  <2>2. CASE \E m \in net' : \E f \in m.msgs :
               /\ f.txid = id
               /\ \/ f.type = "find" /\ f.K = u
                  \/ f.type = "got" /\ u \in f.R
    <3>0. PICK m \in net' : \E f \in m.msgs :
               /\ f.txid = id
               /\ \/ f.type = "find" /\ f.K = u
                  \/ f.type = "got" /\ u \in f.R
      BY <2>2
    <3>1. PICK f \in m.msgs :
               /\ f.txid = id
               /\ \/ f.type = "find" /\ f.K = u
                  \/ f.type = "got" /\ u \in f.R
      BY <3>0
    <3>2. CASE m \in net
      BY <3>1, <3>2 DEF Names
    <3>3. CASE m = m0
      BY <3>1, <3>3 DEF m0, DHTImmediate, f0, FindRouter
    <3> QED
      BY <3>1, <3>2, <3>3, <1>10
  <2> QED
    BY <1>14, <2>1, <2>2 DEF Names
<1>15. \A u : ~Names(new, u)
  BY <1>4, NamedIsCounted
<1>16. OneTarget'
  BY <1>14, <1>15 DEF OneTarget
<1>17. LookupCloses'
  BY <1>9 DEF LookupCloses, tx0, SearchJob
<1> QED
  BY <1>11, <1>12, <1>13, <1>16, <1>17

\* A step that calls no hook and gives no job to a transaction.
LEMMA JobsKept ==
    ASSUME IInv, job' = job,
           \A n \in Keys : \A tx \in pendingTX'[n] : tx \in pendingTX[n] \/ tx.job = NoJob
    PROVE  job' \in [Jobs -> Job] /\ JobsHeld'
<1> USE DEF IInv
<1>1. ASSUME NEW j \in Jobs, Held(j)'
      PROVE  Held(j)
  BY <1>1, JobAssumption DEF Held
<1>2. \A n \in Keys : \A tx \in pendingTX'[n] :
         tx.job # NoJob => n = Seeker /\ tx.target = job'[tx.job].target
  BY DEF JobsHeld
<1>3. \A n \in Keys : \A tx, ty \in pendingTX'[n] :
         tx.job = ty.job /\ tx.job # NoJob => tx = ty
  BY DEF JobsHeld
<1>4. \A j \in Jobs :
         /\ job'[j].calls <= 1
         /\ job'[j].calls = 1 \/ job'[j].state # "asked" => ~Held(j)'
         /\ job'[j].state # "asked" => job'[j].calls = 0 /\ job'[j].result = {}
         /\ job'[j].state = "queued" => job'[j].target \in Targets
         /\ job'[j].result \subseteq {job'[j].target}
  BY <1>1 DEF JobsHeld
<1> QED
  BY <1>2, <1>3, <1>4 DEF JobsHeld

-----------------------------------------------------------------------------
(* One lemma per action *)

LEMMA InitHolds == Init => IInv
<1> SUFFICES ASSUME Init PROVE IInv
  OBVIOUS
<1> USE DEF Init
<1>1. NetType /\ NotSelf /\ IdsCounted
  BY DEF NetType, NotSelf, IdsCounted
<1>2. OneTarget
  BY DEF OneTarget, Names
<1>3. LookupCloses
  BY DEF LookupCloses
<1>4. job \in [Jobs -> Job]
  BY DEF Job
<1>5. JobsHeld
  BY DEF JobsHeld, Held
<1> QED
  BY <1>1, <1>2, <1>3, <1>4, <1>5 DEF IInv, NetInv

LEMMA PeersHolds ==
    ASSUME IInv, NEW n \in Keys, NEW k \in Keys, put_peer(n, k) \/ remove_peer(n, k)
    PROVE  IInv'
<1> USE DEF IInv
<1>1. /\ ids' = ids /\ pendingTX' = pendingTX /\ net' = net /\ job' = job
      /\ nodes' \in [Keys -> SUBSET Keys]
      /\ \A o \in Keys : o \notin nodes'[o]
  BY DEF put_peer, remove_peer, NetInv, NetType, NotSelf
<1>2. pendingTX' \in [Keys -> SUBSET TX]
  BY <1>1 DEF NetInv, NetType
<1>3. NetInv'
  <2>1. {} \in SUBSET Msg /\ net' \subseteq net \cup {}
    BY <1>1
  <2> QED
    BY <1>1, <1>2, <2>1, QuietStep
<1> QED
  BY <1>1, <1>3, JobsKept

LEMMA lookup_routerHolds ==
    ASSUME IInv, NEW j \in Jobs, NEW t \in Targets, lookup_router(j, t)
    PROVE  IInv'
<1> USE DEF IInv
<1>1. /\ ids' = ids /\ pendingTX' = pendingTX /\ net' = net /\ nodes' = nodes
      /\ job[j] \in Job /\ job[j].state = "idle"
      /\ job' = [job EXCEPT ![j] = [@ EXCEPT !.state = "queued", !.target = t]]
  BY DEF lookup_router
<1>2. NetInv'
  BY <1>1 DEF NetInv, NetType, NotSelf, IdsCounted, Counted, OneTarget, Names, LookupCloses
<1>3. job'[j] = [job[j] EXCEPT !.state = "queued", !.target = t] /\ job'[j] \in Job
  BY <1>1 DEF Job
<1>4. job' \in [Jobs -> Job] /\ \A i \in Jobs : i # j => job'[i] = job[i]
  BY <1>1, <1>3
<1>5. ~Held(j) /\ job[j].calls = 0 /\ job[j].result = {}
  BY <1>1 DEF JobsHeld
<1>6. \A i : Held(i)' <=> Held(i)
  BY <1>1 DEF Held
<1>7. \A n \in Keys : \A tx \in pendingTX'[n] :
         tx.job # NoJob => n = Seeker /\ tx.target = job'[tx.job].target
  <2> SUFFICES ASSUME NEW n \in Keys, NEW tx \in pendingTX[n], tx.job # NoJob
               PROVE  n = Seeker /\ tx.target = job'[tx.job].target
    BY <1>1
  <2>1. tx.job \in Jobs /\ tx.job # j
    BY <1>5 DEF Held, NetInv, NetType, TX
  <2> QED
    BY <2>1, <1>4 DEF JobsHeld
<1>8. JobsHeld'
  <2>1. \A i \in Jobs :
         /\ job'[i].calls <= 1
         /\ job'[i].calls = 1 \/ job'[i].state # "asked" => ~Held(i)'
         /\ job'[i].state # "asked" => job'[i].calls = 0 /\ job'[i].result = {}
         /\ job'[i].state = "queued" => job'[i].target \in Targets
         /\ job'[i].result \subseteq {job'[i].target}
    <3> TAKE i \in Jobs
    <3>1. CASE i = j
      BY <3>1, <1>1, <1>3, <1>5, <1>6 DEF Job
    <3>2. CASE i # j
      BY <3>2, <1>4, <1>6 DEF JobsHeld
    <3> QED
      BY <3>1, <3>2
  <2>2. \A n \in Keys : \A tx, ty \in pendingTX'[n] :
           tx.job = ty.job /\ tx.job # NoJob => tx = ty
    BY <1>1 DEF JobsHeld
  <2> QED
    BY <1>7, <2>1, <2>2 DEF JobsHeld
<1> QED
  BY <1>2, <1>4, <1>8

LEMMA queue_router_lookupHolds ==
    ASSUME IInv, NEW j \in Jobs, queue_router_lookup(j)
    PROVE  IInv'
<1> USE DEF IInv
<1>1. PICK n, t, told :
        /\ n = Seeker /\ t = job[j].target
        /\ told = IF nodes[n] = {} THEN Completed(j, {}) ELSE job
  OBVIOUS
<1>2. PICK peer \in FindClosest(n, t) :
      /\ job[j].state = "queued"
      /\ pendingTX' = [pendingTX EXCEPT ![n] = @ \cup LookupTX(n, t, n, NoTx, peer, j, {})]
      /\ net' = net \cup LookupMsg(n, t, n, peer, FALSE)
      /\ ids' = [ids EXCEPT ![n] = IF peer = None THEN @ ELSE @ + 1]
      /\ job' = [told EXCEPT ![j].state = "asked"]
      /\ nodes' = nodes
  BY <1>1 DEF queue_router_lookup
<1>3. /\ n \in Keys /\ t \in Targets /\ job[j] \in Job /\ job[j].calls = 0
      /\ job[j].result = {} /\ ~Held(j) /\ job[j].target = t
  BY <1>1, <1>2, DhtAssumption DEF JobsHeld
<1>4. /\ peer \in (Keys \ {n}) \cup {None, Nobody}
      /\ peer # None => nodes[n] # {}
  BY <1>2, <1>3, FindsPeer DEF NetInv
<1>5. /\ job' \in [Jobs -> Job]
      /\ \A i \in Jobs : i # j => job'[i] = job[i]
      /\ job'[j].state = "asked" /\ job'[j].target = t /\ job'[j].result = {}
      /\ job'[j].calls = IF nodes[n] = {} THEN 1 ELSE 0
  <2>1. j # NoJob
    BY JobAssumption
  <2>2. /\ told \in [Jobs -> Job] /\ \A i \in Jobs : i # j => told[i] = job[i]
        /\ told[j].target = t /\ told[j].result = {}
        /\ told[j].calls = IF nodes[n] = {} THEN 1 ELSE 0
    <3>1. CASE nodes[n] = {}
      <4>1. told = [job EXCEPT ![j].calls = @ + 1, ![j].result = {}]
        BY <1>1, <2>1, <3>1 DEF Completed
      <4>2. told[j] = [job[j] EXCEPT !.calls = 1, !.result = {}]
        BY <1>3, <4>1 DEF Job
      <4>3. told[j] \in Job /\ told[j].calls = 1
        <5> HIDE DEF IInv
        <5>1. told[j] = [state |-> job[j].state, target |-> job[j].target, calls |-> 1, result |-> {}]
          BY <1>3, <4>2 DEF Job
        <5> QED
          BY <1>3, <5>1 DEF Job
      <4> QED
        BY <1>3, <3>1, <4>1, <4>2, <4>3 DEF Job
    <3>2. CASE nodes[n] # {}
      BY <1>1, <1>3, <3>2
    <3> QED
      BY <3>1, <3>2
  <2> QED
    BY <1>2, <2>2 DEF Job
<1>6. CASE peer = None
  <2>1. pendingTX' = pendingTX /\ net' = net /\ ids' = ids
    BY <1>2, <1>3, <1>6 DEF LookupTX, LookupMsg, Asks, NetInv, NetType
  <2>2. NetInv'
    <3>1. {} \in SUBSET Msg /\ net' \subseteq net \cup {}
      BY <2>1
    <3> QED
      BY <1>2, <2>1, <3>1, QuietStep DEF NetInv, NetType, NotSelf
  <2>3. \A i : Held(i)' <=> Held(i)
    BY <2>1 DEF Held
  <2>4. \A o \in Keys : \A tx \in pendingTX[o] : tx.job # NoJob => tx.job \in Jobs \ {j}
    BY <1>3 DEF Held, NetInv, NetType, TX
  <2>5. JobsHeld'
    BY <1>3, <1>5, <2>1, <2>3, <2>4 DEF JobsHeld
  <2> QED
    BY <1>5, <2>2, <2>5
<1>7. CASE peer # None
  <2>1. /\ peer \in Keys \cup {Nobody} /\ peer # None /\ (peer # Nobody => peer # n)
        /\ nodes[n] # {}
    BY <1>4, <1>7
  <2>2. ids' = [ids EXCEPT ![n] = @ + 1]
    BY <1>2, <1>7
  <2>4. NetInv'
    <3>1. /\ pendingTX' = [pendingTX EXCEPT ![n] = pendingTX'[n]]
          /\ pendingTX'[n] \subseteq pendingTX[n] \cup LookupTX(n, t, n, NoTx, peer, j, {})
      BY <1>2, <1>3 DEF NetInv, NetType
    <3>2. net' \subseteq net \cup LookupMsg(n, t, n, peer, FALSE) \cup Pongs
      BY <1>2
    <3>3. {} \in SUBSET Keys /\ FALSE \in BOOLEAN /\ j \in Jobs \cup {NoJob}
      OBVIOUS
    <3>4. n \in Keys /\ t \in Targets /\ nodes' = nodes
      BY <1>2, <1>3
    <3>5. /\ NoTx # NoTx => Names(NoTx, t)
          /\ n # n => Xor(n, t) < Xor(n, t)
      OBVIOUS
    <3> QED
      BY <2>1, <2>2, <3>1, <3>2, <3>3, <3>4, <3>5, AskStep, ZenonT(30)
  <2>5. PICK tx0 : /\ LookupTX(n, t, n, NoTx, peer, j, {}) = {tx0}
                   /\ tx0.job = j /\ tx0.target = t
    <3>1. Asks(t, n, peer)
      BY <1>3, <2>1, NoneIsNoKey DEF Asks
    <3>2. PICK tx0 : tx0 = SearchJob(peer, TxId(n, ids[n] + 1), n, TxId(n, ids[n] + 1), t, j, {})
      OBVIOUS
    <3>3. LookupTX(n, t, n, NoTx, peer, j, {}) = {tx0}
      BY <3>1, <3>2 DEF LookupTX
    <3>4. tx0.job = j /\ tx0.target = t
      <4> HIDE DEF IInv
      <4> QED BY <3>2 DEF SearchJob
    <3> QED
      BY <3>3, <3>4
  <2>6. \A o \in Keys : /\ o # n => pendingTX'[o] = pendingTX[o]
                       /\ pendingTX'[n] = pendingTX[n] \cup {tx0}
    BY <1>2, <1>3, <2>5 DEF NetInv, NetType
  <2>7. \A o \in Keys : \A tx \in pendingTX[o] : tx.job # NoJob => tx.job \in Jobs \ {j}
    BY <1>3 DEF Held, NetInv, NetType, TX
  <2>8. \A i \in Jobs : i # j => (Held(i)' => Held(i))
    BY <2>5, <2>6 DEF Held
  <2>9. \A o \in Keys : \A tx \in pendingTX'[o] :
           tx.job # NoJob => o = Seeker /\ tx.target = job'[tx.job].target
    BY <1>1, <1>5, <2>5, <2>6, <2>7 DEF JobsHeld
  <2>10. \A o \in Keys : \A tx, ty \in pendingTX'[o] :
            tx.job = ty.job /\ tx.job # NoJob => tx = ty
    BY <2>5, <2>6, <2>7 DEF JobsHeld
  <2>11. \A i \in Jobs :
           /\ job'[i].calls <= 1
           /\ job'[i].calls = 1 \/ job'[i].state # "asked" => ~Held(i)'
           /\ job'[i].state # "asked" => job'[i].calls = 0 /\ job'[i].result = {}
           /\ job'[i].state = "queued" => job'[i].target \in Targets
           /\ job'[i].result \subseteq {job'[i].target}
    BY <1>5, <2>1, <2>8 DEF JobsHeld
  <2> QED
    BY <1>5, <2>4, <2>9, <2>10, <2>11 DEF JobsHeld
<1> QED
  BY <1>6, <1>7

\* What arrives: who it is from, and what it says about a search.
LEMMA Arrives ==
    ASSUME NetInv, NEW m \in net, NEW f \in m.msgs
    PROVE  /\ m.from \in Keys /\ m.to \in Keys /\ m.from # m.to
           /\ f \in FindMsg \cup GotMsg /\ f.txid \in Ids /\ Counted(f.txid)
           /\ f.type = "find" => f.K \in Targets /\ Names(f.txid, f.K)
           /\ f.type = "got" => f.R \subseteq Targets /\ \A t \in f.R : Names(f.txid, t)
<1>1. m \in Msg
  BY DEF NetInv, NetType
<1>2. f \in FindMsg \cup GotMsg
  BY <1>1 DEF Msg
<1>3. f.type = "find" => f \in FindMsg
  BY <1>2 DEF GotMsg
<1>4. f.type = "got" => f \in GotMsg
  BY <1>2 DEF FindMsg
<1>5. f.type = "find" => f.K \in Targets /\ Names(f.txid, f.K)
  BY <1>3 DEF FindMsg, Names
<1>6. f.type = "got" => f.R \subseteq Targets /\ \A t \in f.R : Names(f.txid, t)
  BY <1>4 DEF GotMsg, Names
<1> QED
  BY <1>1, <1>2, <1>5, <1>6 DEF Msg, FindMsg, GotMsg, NetInv, NotSelf, IdsCounted

LEMMA HandleFindRouterHolds ==
    ASSUME IInv, NEW m \in net, HandleFindRouter(m)
    PROVE  IInv'
<1> USE DEF IInv
<1>1. PICK n : n = m.to
  OBVIOUS
<1>2. PICK f \in m.msgs :
        /\ f.type = "find"
        /\ \/ /\ net' = net \ {m}
              /\ UNCHANGED <<pendingTX, ids>>
           \/ /\ Relays(n, m, f)
              /\ LET next == NextPeer(n, m, f)
                 IN /\ pendingTX' = [pendingTX EXCEPT ![n] = @ \cup
                                       LookupTX(n, f.K, m.from, f.txid, next, NoJob, {})]
                    /\ net' = (net \ {m}) \cup LookupMsg(n, f.K, m.from, next, FALSE)
                               \cup {DHTImmediate(n, m.from, {})}
              /\ ids' = [ids EXCEPT ![n] = @ + 1]
           \/ /\ net' = (net \ {m}) \cup
                        {DHTImmediate(n, m.from, {GotRouter(m.from, f.txid, Answer(n, m, f))})}
              /\ UNCHANGED <<pendingTX, ids>>
  BY <1>1 DEF HandleFindRouter
<1>3. nodes' = nodes /\ job' = job
  BY DEF HandleFindRouter
<1>4. /\ m.from \in Keys /\ n \in Keys /\ m.from # n
      /\ f.txid \in Ids /\ Counted(f.txid) /\ f.K \in Targets /\ Names(f.txid, f.K)
  BY <1>1, <1>2, Arrives
<1>5. CASE net' = net \ {m} /\ UNCHANGED <<pendingTX, ids>>
  <2>1. {} \in SUBSET Msg /\ net' \subseteq net \cup {}
    BY <1>5
  <2>2. NetInv'
    BY <1>3, <1>5, <2>1, QuietStep DEF NetInv, NetType, NotSelf
  <2> QED
    BY <1>3, <1>5, <2>2, JobsKept
<1>6. CASE /\ net' = (net \ {m}) \cup
                     {DHTImmediate(n, m.from, {GotRouter(m.from, f.txid, Answer(n, m, f))})}
           /\ UNCHANGED <<pendingTX, ids>>
  <2>1. PICK g, r : /\ g = GotRouter(m.from, f.txid, Answer(n, m, f))
                    /\ r = DHTImmediate(n, m.from, {g})
    OBVIOUS
  <2>2. Answer(n, m, f) \subseteq {f.K}
    BY DEF Answer
  <2>3. g \in GotMsg /\ g.type = "got" /\ g.txid = f.txid /\ g.R \subseteq {f.K}
    BY <1>4, <2>1, <2>2 DEF GotRouter, GotMsg
  <2>4. r \in Msg /\ r.from = n /\ r.to = m.from /\ r.msgs = {g}
    BY <1>4, <2>1, <2>3 DEF DHTImmediate, Msg
  <2>5. {r} \in SUBSET Msg /\ net' \subseteq net \cup {r}
    BY <1>6, <2>1, <2>4
  <2>6. NetInv'
    BY <1>3, <1>4, <1>6, <2>3, <2>4, <2>5, QuietStep DEF NetInv, NetType, NotSelf
  <2> QED
    BY <1>3, <1>6, <2>6, JobsKept
<1>7. CASE /\ Relays(n, m, f)
           /\ LET next == NextPeer(n, m, f)
              IN /\ pendingTX' = [pendingTX EXCEPT ![n] = @ \cup
                                    LookupTX(n, f.K, m.from, f.txid, next, NoJob, {})]
                 /\ net' = (net \ {m}) \cup LookupMsg(n, f.K, m.from, next, FALSE)
                            \cup {DHTImmediate(n, m.from, {})}
           /\ ids' = [ids EXCEPT ![n] = @ + 1]
  <2>1. PICK next : next = NextPeer(n, m, f)
    OBVIOUS
  <2>2. next \in Keys \cup {Nobody} /\ next # n /\ next # None
    BY <1>4, <1>7, <2>1, FindsPeer DEF Relays, NextPeer, NetInv, NetType
  <2>3. Xor(n, f.K) < Xor(m.from, f.K)
    BY <1>4, <1>7, XorAssumption DEF Relays
  <2>4. /\ pendingTX' = [pendingTX EXCEPT ![n] =
                            @ \cup LookupTX(n, f.K, m.from, f.txid, next, NoJob, {})]
        /\ net' = (net \ {m}) \cup LookupMsg(n, f.K, m.from, next, FALSE)
                               \cup {DHTImmediate(n, m.from, {})}
        /\ ids' = [ids EXCEPT ![n] = @ + 1]
    BY <1>7, <2>1
  <2>5. NetInv'
    <3>1. DHTImmediate(n, m.from, {}) \in Pongs
      BY <1>4 DEF DHTImmediate, Msg, Pongs
    <3>2. /\ pendingTX' = [pendingTX EXCEPT ![n] = pendingTX'[n]]
          /\ pendingTX'[n] \subseteq
               pendingTX[n] \cup LookupTX(n, f.K, m.from, f.txid, next, NoJob, {})
          /\ net' \subseteq net \cup LookupMsg(n, f.K, m.from, next, FALSE) \cup Pongs
      BY <1>4, <2>4, <3>1 DEF NetInv, NetType
    <3>3. /\ {} \in SUBSET Keys /\ FALSE \in BOOLEAN /\ NoJob \in Jobs \cup {NoJob}
          /\ f.txid # NoTx => Names(f.txid, f.K)
          /\ m.from # n => Xor(n, f.K) < Xor(m.from, f.K)
      BY <1>4, <2>3
    <3> QED
      BY <1>3, <1>4, <2>2, <2>4, <3>2, <3>3, AskStep
  <2>6. \A tx \in LookupTX(n, f.K, m.from, f.txid, next, NoJob, {}) : tx.job = NoJob
    BY DEF LookupTX, SearchJob
  <2>7. \A o \in Keys : \A tx \in pendingTX'[o] : tx \in pendingTX[o] \/ tx.job = NoJob
    BY <1>4, <2>1, <2>4, <2>6 DEF NetInv, NetType
  <2> QED
    BY <1>3, <2>5, <2>7, JobsKept
<1> QED
  BY <1>2, <1>5, <1>6, <1>7

\* The transaction that a GotRouterMessage ends: the answer is what it
\* searches.
LEMMA EndsSearch ==
    ASSUME NetInv, NEW m \in net, NEW g \in m.msgs, g.type = "got",
           NEW tx \in FindPendingTX(m.to, m.from, g.txid)
    PROVE  /\ tx \in pendingTX[m.to] /\ tx \in TX
           /\ g.R \subseteq {tx.target}
           /\ Names(tx.requesterTX, tx.target) /\ Counted(tx.requesterTX)
<1>1. m.to \in Keys /\ g.txid \in Ids /\ g.R \subseteq Targets /\ \A t \in g.R : Names(g.txid, t)
  BY Arrives
<1>2. tx \in pendingTX[m.to] /\ tx.id = g.txid
  BY DEF FindPendingTX
<1>3. tx \in TX
  BY <1>1, <1>2 DEF NetInv, NetType
<1>4. tx.target \in Targets
  BY <1>3 DEF TX
<1>5. Names(g.txid, tx.target) /\ Names(tx.requesterTX, tx.target)
  BY <1>1, <1>2 DEF Names
<1>6. g.R \subseteq {tx.target}
  BY <1>1, <1>4, <1>5 DEF NetInv, OneTarget
<1> QED
  BY <1>1, <1>2, <1>3, <1>5, <1>6 DEF NetInv, IdsCounted

LEMMA GotLastHolds ==
    ASSUME IInv, NEW m \in net, NEW g \in m.msgs, g.type = "got",
           NEW tx \in FindPendingTX(m.to, m.from, g.txid), GotLast(m, tx, g.R),
           nodes' = nodes
    PROVE  IInv'
<1> USE DEF IInv
<1>1. PICK n, R : n = m.to /\ R = g.R
  OBVIOUS
<1>2. /\ job' = Completed(tx.job, R)
      /\ pendingTX' = [pendingTX EXCEPT ![n] = pendingTX[n] \ {tx}]
      /\ net' = (net \ {m}) \cup {Forwarded(n, m, tx, R)}
      /\ ids' = ids
  BY <1>1 DEF GotLast, RemovePendingLookup
<1>3. /\ n \in Keys /\ m.from \in Keys /\ m.from # n /\ tx \in pendingTX[n] /\ tx \in TX
      /\ R \subseteq {tx.target} /\ Names(tx.requesterTX, tx.target) /\ Counted(tx.requesterTX)
  BY <1>1, EndsSearch, Arrives
<1>4. /\ pendingTX' \in [Keys -> SUBSET TX]
      /\ \A o \in Keys : pendingTX'[o] = pendingTX[o] \ (IF o = n THEN {tx} ELSE {})
  BY <1>2, <1>3 DEF NetInv, NetType
<1>5. NetInv'
  <2>1. PICK r, h : /\ r = Forwarded(n, m, tx, R)
                    /\ h = GotRouter(tx.target, tx.requesterTX, R)
    OBVIOUS
  <2>2. h \in GotMsg /\ h.type = "got" /\ h.txid = tx.requesterTX /\ h.R = R
    BY <1>3, <2>1 DEF GotRouter, GotMsg, TX
  <2>3. r \in Msg /\ r.from = n /\ r.to = m.from /\ r.msgs \subseteq {h}
    BY <1>3, <2>1, <2>2 DEF Forwarded, DHTImmediate, Msg
  <2>4. {r} \in SUBSET Msg /\ net' \subseteq net \cup {r}
    BY <1>2, <2>1, <2>3
  <2>5. \A t \in R : t = tx.target
    BY <1>3
  <2>6. \A q \in {r} : /\ q.from # q.to
                       /\ \A i \in q.msgs : /\ i.type = "got" /\ Counted(i.txid)
                                           /\ \A t \in i.R : Names(i.txid, t)
    BY <1>3, <2>2, <2>3, <2>5
  <2> QED
    BY <1>2, <1>4, <2>4, <2>6, QuietStep DEF NetInv, NetType, NotSelf
<1>6. CASE tx.job = NoJob
  <2>1. job' = job
    BY <1>2, <1>6 DEF Completed
  <2> QED
    BY <1>4, <1>5, <2>1, JobsKept
<1>7. CASE tx.job # NoJob
  <2>1. PICK j \in Jobs : j = tx.job
    BY <1>3, <1>7 DEF TX
  <2>2. n = Seeker /\ tx.target = job[j].target /\ Held(j)
    BY <1>3, <1>7, <2>1 DEF JobsHeld, Held
  <2>3. job[j].calls = 0 /\ job[j].state = "asked" /\ job[j] \in Job
    BY <2>2 DEF JobsHeld, Job
  <2>4. job' = [job EXCEPT ![j].calls = @ + 1, ![j].result = R]
    BY <1>2, <1>7, <2>1 DEF Completed
  <2>5. /\ job' \in [Jobs -> Job] /\ \A i \in Jobs : i # j => job'[i] = job[i]
        /\ job'[j].calls = 1 /\ job'[j].result = R
        /\ job'[j].state = "asked" /\ job'[j].target = tx.target
    <3>1. tx.target \in Targets
      BY <1>3 DEF TX
    <3>2. job'[j] = [state |-> job[j].state, target |-> job[j].target, calls |-> 1, result |-> R]
      <4> HIDE DEF IInv
      <4>2. job'[j] = [job[j] EXCEPT !.calls = 1, !.result = R]
        BY <2>3, <2>4 DEF IInv, Job
      <4> QED
        BY <2>3, <4>2 DEF Job
    <3>3. job'[j] \in Job
      BY <1>3, <2>3, <3>1, <3>2 DEF Job
    <3> QED
      BY <2>2, <2>3, <2>4, <3>2, <3>3
  <2>6. ~Held(j)'
    <3> SUFFICES ASSUME NEW o \in Keys, NEW ty \in pendingTX'[o], ty.job = j
                 PROVE  FALSE
      BY DEF Held
    <3>1. ty \in pendingTX[o]
      BY <1>4
    <3>2. o = n
      BY <1>7, <2>1, <2>2, <3>1 DEF JobsHeld
    <3>3. ty = tx
      BY <1>3, <1>7, <2>1, <3>1, <3>2 DEF JobsHeld
    <3> QED
      BY <1>4, <3>2, <3>3
  <2>7. \A i \in Jobs : Held(i)' => Held(i)
    BY <1>4 DEF Held
  <2>8. \A o \in Keys : \A ty \in pendingTX'[o] :
           ty.job # NoJob => o = Seeker /\ ty.target = job'[ty.job].target
    <3> SUFFICES ASSUME NEW o \in Keys, NEW ty \in pendingTX'[o], ty.job # NoJob
                 PROVE  o = Seeker /\ ty.target = job'[ty.job].target
      OBVIOUS
    <3>1. ty \in pendingTX[o] /\ ty \in TX
      BY <1>4 DEF NetInv, NetType
    <3>2. ty.job \in Jobs /\ ty.job # j
      BY <2>6, <3>1 DEF Held, TX
    <3> QED
      BY <2>5, <3>1, <3>2 DEF JobsHeld
  <2>9. \A o \in Keys : \A ty, tz \in pendingTX'[o] :
           ty.job = tz.job /\ ty.job # NoJob => ty = tz
    BY <1>4 DEF JobsHeld
  <2>10. \A i \in Jobs :
           /\ job'[i].calls <= 1
           /\ job'[i].calls = 1 \/ job'[i].state # "asked" => ~Held(i)'
           /\ job'[i].state # "asked" => job'[i].calls = 0 /\ job'[i].result = {}
           /\ job'[i].state = "queued" => job'[i].target \in Targets
           /\ job'[i].result \subseteq {job'[i].target}
    <3> TAKE i \in Jobs
    <3>1. CASE i = j
      BY <1>3, <2>5, <2>6, <3>1
    <3>2. CASE i # j
      BY <2>5, <2>7, <3>2 DEF JobsHeld
    <3> QED
      BY <3>1, <3>2
  <2> QED
    BY <1>5, <2>5, <2>8, <2>9, <2>10 DEF JobsHeld
<1> QED
  BY <1>6, <1>7

LEMMA GotEmptyHolds ==
    ASSUME IInv, NEW m \in net, NEW g \in m.msgs, g.type = "got",
           NEW tx \in FindPendingTX(m.to, m.from, g.txid), GotEmpty(m, tx, g.R),
           nodes' = nodes
    PROVE  IInv'
<1> USE DEF IInv
<1>1. PICK n, next, old, X :
        /\ n = m.to /\ next = Iterates(n, m, tx) /\ old = pendingTX[n] \ {tx}
        /\ X = Excluded(m, tx)
  OBVIOUS
<1>2. /\ next # None
      /\ pendingTX' = [pendingTX EXCEPT ![n] = old \cup
                          LookupTX(n, tx.target, tx.requester, tx.requesterTX, next, NoJob, X)]
      /\ net' \subseteq net \cup LookupMsg(n, tx.target, tx.requester, next, TRUE)
                     \cup {DHTImmediate(n, m.from, {})}
      /\ ids' = [ids EXCEPT ![n] = @ + 1]
      /\ job' = job
  BY <1>1 DEF GotEmpty, RemovePendingLookup
<1>3. /\ n \in Keys /\ m.from \in Keys /\ m.from # n /\ tx \in pendingTX[n] /\ tx \in TX
      /\ Names(tx.requesterTX, tx.target)
  BY <1>1, EndsSearch, Arrives
<1>4. /\ tx.target \in Targets /\ tx.requester \in Keys /\ X \in SUBSET Keys
  BY <1>1, <1>3 DEF TX, Excluded
<1>5. next \in Keys \cup {Nobody} /\ next # None /\ next # n
  <2>1. next = FindCloseExcluding(n, tx.target, X)
    BY <1>1, <1>2 DEF Iterates
  <2>2. next \in nodes[n] \ X
    BY <1>2, <1>3, <1>4, <2>1, FindsPeer DEF NetInv
  <2> QED
    BY <1>2, <1>3, <2>2 DEF NetInv, NetType, NotSelf
<1>6. tx.requester # n => Xor(n, tx.target) < Xor(tx.requester, tx.target)
  BY <1>3 DEF NetInv, LookupCloses
<1>7. NetInv'
  <2>1. /\ TRUE \in BOOLEAN /\ NoJob \in Jobs \cup {NoJob}
        /\ tx.requesterTX # NoTx => Names(tx.requesterTX, tx.target)
    BY <1>3
  <2>2. DHTImmediate(n, m.from, {}) \in Pongs
    BY <1>3 DEF DHTImmediate, Msg, Pongs
  <2>3. /\ pendingTX' = [pendingTX EXCEPT ![n] = pendingTX'[n]]
        /\ pendingTX'[n] \subseteq pendingTX[n] \cup
             LookupTX(n, tx.target, tx.requester, tx.requesterTX, next, NoJob, X)
        /\ net' \subseteq net \cup LookupMsg(n, tx.target, tx.requester, next, TRUE) \cup Pongs
    BY <1>1, <1>2, <1>3, <2>2 DEF NetInv, NetType
  <2> QED
    BY <1>2, <1>3, <1>4, <1>5, <1>6, <2>1, <2>3, AskStep
<1>8. \A ty \in LookupTX(n, tx.target, tx.requester, tx.requesterTX, next, NoJob, X) :
        ty.job = NoJob
  BY DEF LookupTX, SearchJob
<1>9. \A o \in Keys : \A ty \in pendingTX'[o] : ty \in pendingTX[o] \/ ty.job = NoJob
  BY <1>1, <1>2, <1>3, <1>8 DEF NetInv, NetType
<1> QED
  BY <1>2, <1>7, <1>9, JobsKept

LEMMA HandleGotRouterHolds ==
    ASSUME IInv, NEW m \in net, HandleGotRouter(m)
    PROVE  IInv'
<1>1. nodes' = nodes
  BY DEF HandleGotRouter
<1>2. PICK g \in m.msgs :
        /\ g.type = "got"
        /\ \E tx \in FindPendingTX(m.to, m.from, g.txid) : GotLast(m, tx, g.R) \/ GotEmpty(m, tx, g.R)
  BY DEF HandleGotRouter
<1>3. PICK tx \in FindPendingTX(m.to, m.from, g.txid) : GotLast(m, tx, g.R) \/ GotEmpty(m, tx, g.R)
  BY <1>2
<1>4. CASE GotLast(m, tx, g.R)
  BY <1>1, <1>2, <1>4, GotLastHolds
<1>5. CASE GotEmpty(m, tx, g.R)
  BY <1>1, <1>2, <1>5, GotEmptyHolds
<1> QED
  BY <1>3, <1>4, <1>5

LEMMA DropsHold ==
    ASSUME IInv, NEW m \in net, DropGotRouter(m) \/ HandleEmpty(m) \/ Lose(m)
    PROVE  IInv'
<1> USE DEF IInv
<1>1. nodes' = nodes /\ ids' = ids /\ pendingTX' = pendingTX /\ job' = job
  BY DEF DropGotRouter, HandleEmpty, Lose
<1>2. /\ nodes' \in [Keys -> SUBSET Keys] /\ \A n \in Keys : n \notin nodes'[n]
      /\ pendingTX' \in [Keys -> SUBSET TX]
  BY <1>1 DEF NetInv, NetType, NotSelf
<1>3. CASE net' = net \ {m}
  <2>1. {} \in SUBSET Msg /\ net' \subseteq net \cup {}
    BY <1>3
  <2>2. NetInv'
    BY <1>1, <1>2, <2>1, QuietStep
  <2> QED
    BY <1>1, <2>2, JobsKept
<1>4. CASE HandleEmpty(m)
  <2>1. PICK r : r = DHTImmediate(m.to, m.from, {})
    OBVIOUS
  <2>2. r \in Msg /\ r.from # r.to /\ r.msgs = {}
    BY <2>1 DEF DHTImmediate, NetInv, NetType, NotSelf, Msg
  <2>3. {r} \in SUBSET Msg /\ net' \subseteq net \cup {r}
    BY <1>4, <2>1, <2>2 DEF HandleEmpty
  <2>4. NetInv'
    BY <1>1, <1>2, <2>2, <2>3, QuietStep
  <2> QED
    BY <1>1, <2>4, JobsKept
<1> QED
  BY <1>3, <1>4 DEF DropGotRouter, Lose

-----------------------------------------------------------------------------
(* The theorems *)

LEMMA NextHolds == IInv /\ [Next]_vars => IInv'
<1> SUFFICES ASSUME IInv, [Next]_vars PROVE IInv'
  OBVIOUS
<1>1. CASE Start
  BY <1>1, lookup_routerHolds, queue_router_lookupHolds DEF Start
<1>2. CASE Peers
  BY <1>2, PeersHolds DEF Peers
<1>3. ASSUME NEW m \in net, Handle(m) \/ HandleEmpty(m) \/ Lose(m)
      PROVE  IInv'
  BY <1>3, HandleFindRouterHolds, HandleGotRouterHolds, DropsHold DEF Handle
<1>4. CASE UNCHANGED vars
  BY <1>4 DEF vars, IInv, NetInv, NetType, NotSelf, IdsCounted, Counted, OneTarget, Names,
              LookupCloses, JobsHeld, Held
<1> QED
  BY <1>1, <1>2, <1>3, <1>4 DEF Next

\* The inductive invariant holds: the ids of searches are never confused by
\* pendingTX, and every SearchJob of a job is the one its hook waits for.
THEOREM InvariantHolds == Spec => []IInv
BY InitHolds, NextHolds, PTL DEF Spec

\* SearchJob::Completed calls the hook of a lookup job at most once, no entry
\* of pendingTX refers to the job afterwards, and the contact that the hook is
\* told is the one it looked for.
THEOREM HookIsCalledOnce == Spec => []HookOnce
<1>1. IInv => HookOnce
  <2> SUFFICES ASSUME IInv, NEW j \in Jobs
               PROVE  LET held == {tx \in pendingTX[Seeker] : tx.job = j}
                      IN /\ job[j].calls + Cardinality(held) <= 1
                         /\ job[j].result \subseteq {job[j].target}
    BY DEF HookOnce
  <2> DEFINE held == {tx \in pendingTX[Seeker] : tx.job = j}
  <2>1. job[j] \in Job /\ job[j].calls \in Nat /\ job[j].calls <= 1
    BY DEF IInv, JobsHeld, Job
  <2>2. job[j].result \subseteq {job[j].target}
    BY DEF IInv, JobsHeld
  <2>3. Seeker \in Keys /\ j # NoJob
    BY DhtAssumption, JobAssumption
  <2>4. CASE held = {}
    <3>1. Cardinality(held) = 0
      BY <2>4, FS_EmptySet
    <3> QED
      BY <2>1, <2>2, <3>1
  <2>5. CASE held # {}
    <3>1. PICK tx : tx \in held
      BY <2>5
    <3>2. held = {tx}
      BY <2>3, <3>1 DEF IInv, JobsHeld
    <3>3. Held(j)
      BY <2>3, <3>1 DEF Held
    <3>4. job[j].calls = 0
      BY <2>1, <3>3 DEF IInv, JobsHeld
    <3> QED
      BY <2>2, <3>2, <3>4, FS_Singleton
  <2> QED
    BY <2>4, <2>5
<1> QED
  BY <1>1, InvariantHolds, PTL

\* A router that passes a FindRouterMessage on is closer to the target than
\* the requester (LookupRouterRelayed), so a recursive lookup visits no router
\* twice and ends.
THEOREM LookupsCloseIn == Spec => []LookupCloses
<1>1. IInv => LookupCloses
  BY DEF IInv, NetInv
<1> QED
  BY <1>1, InvariantHolds, PTL


-----------------------------------------------------------------------------
(* Who has been asked *)

QuestionType == [lookup : Ids, peer : Keys \cup {Nobody}, id : Ids]

Finds(m) == {f \in m.msgs : f.type = "find"}

\* The questions of a lookup so far are those to the peers its transaction
\* excludes and to the one it waits for; it has one transaction; and a request
\* that is under way is the only one with its id and has not been seen by the
\* router it goes to.
AskInv ==
    /\ asked \in [Keys -> SUBSET QuestionType]
    /\ \A n \in Keys : \A q \in asked[n] : Counted(q.lookup)
    /\ \A n \in Keys : \A tx \in pendingTX[n] :
         /\ Question(tx) \in asked[n]
         /\ \A q \in asked[n] : q.lookup = tx.requesterTX => q.peer \in tx.exclude \cup {tx.peer}
    /\ \A n \in Keys : \A tx, ty \in pendingTX[n] : tx.requesterTX = ty.requesterTX => tx = ty
    /\ \A m \in net : \A f \in Finds(m) : \A q \in asked[m.to] : q.lookup # f.txid
    /\ \A m, o \in net : \A f \in Finds(m), g \in Finds(o) : f.txid = g.txid => m = o
    /\ AsksOthers

\* A step in which no router asks.
LEMMA NobodyAsked ==
    ASSUME IInv, AskInv, asked' = asked, ids' = ids,
           \A n \in Keys : pendingTX'[n] \subseteq pendingTX[n],
           \A m \in net' : m \in net \/ Finds(m) = {}
    PROVE  AskInv'
<1>1. \A m \in net' : \A f \in Finds(m) : \A q \in asked'[m.to] : q.lookup # f.txid
  BY DEF AskInv
<1>2. \A m, o \in net' : \A f \in Finds(m), g \in Finds(o) : f.txid = g.txid => m = o
  BY DEF AskInv
<1>3. \A n \in Keys : \A tx, ty \in pendingTX'[n] : tx.requesterTX = ty.requesterTX => tx = ty
  BY DEF AskInv
<1>4. \A n \in Keys : \A tx \in pendingTX'[n] :
         /\ Question(tx) \in asked'[n]
         /\ \A q \in asked'[n] : q.lookup = tx.requesterTX => q.peer \in tx.exclude \cup {tx.peer}
  BY DEF AskInv
<1>5. AsksOthers' /\ \A n \in Keys : \A q \in asked'[n] : Counted(q.lookup)'
  BY DEF AskInv, AsksOthers, Counted
<1> QED
  BY <1>1, <1>2, <1>3, <1>4, <1>5 DEF AskInv

\* A step in which router n asks a peer in lookup L: a peer that it has not asked,
\* and no other transaction or request of n has this lookup.
AsksPeer(n, L, tx0, m0) ==
    /\ tx0.requesterTX = L /\ tx0.id = TxId(n, ids[n] + 1) /\ (L = tx0.id \/ Counted(L))
    /\ ids' = [ids EXCEPT ![n] = @ + 1]
    /\ asked' = [asked EXCEPT ![n] = @ \cup {Question(tx0)}]
    /\ \A k \in Keys \ {n} : pendingTX'[k] = pendingTX[k]
    /\ \A ty \in pendingTX'[n] : ty = tx0 \/ (ty \in pendingTX[n] /\ ty.requesterTX # L)
    /\ \A q \in asked[n] : q.lookup = L => q.peer \in tx0.exclude /\ q.peer # tx0.peer
    /\ \A f \in Finds(m0) : f.txid = tx0.id
    /\ \A m \in net' :
         \/ m = m0 /\ m.to \in Keys \ {n}
         \/ Finds(m) = {}
         \/ m \in net /\ (m.to = n => \A f \in Finds(m) : f.txid # L)

LEMMA OneAsked ==
    ASSUME IInv, AskInv, NEW n \in Keys, NEW L \in Ids, NEW tx0 \in TX, NEW m0,
           AsksPeer(n, L, tx0, m0)
    PROVE  AskInv'
<1> USE DEF AsksPeer
<1>1. /\ Question(tx0).lookup = L /\ Question(tx0).peer = tx0.peer
      /\ Question(tx0) \in QuestionType
  BY DEF Question, QuestionType, TX
<1>2. /\ asked' \in [Keys -> SUBSET QuestionType]
      /\ \A k \in Keys : k # n => asked'[k] = asked[k]
      /\ asked'[n] = asked[n] \cup {Question(tx0)}
  BY <1>1 DEF AskInv
<1>3. ids \in [Keys -> Nat] /\ net \subseteq Msg /\ \A m \in net : m.to \in Keys
  BY DEF IInv, NetInv, NetType, Msg
<1>4. ~Counted(tx0.id) /\ Counted(tx0.id)'
  BY <1>3 DEF TxId, Counted
<1>5. \A id \in Ids : Counted(id) => Counted(id)'
  <2> SUFFICES ASSUME NEW id \in Ids, Counted(id) PROVE Counted(id)'
    OBVIOUS
  <2>1. id[1] \in Keys /\ id[2] \in Nat
    BY DEF Ids
  <2>2. ids[id[1]] \in Nat /\ ids'[id[1]] \in Nat /\ ids[id[1]] <= ids'[id[1]]
    BY <1>3, <2>1
  <2> QED BY <2>1, <2>2 DEF Counted
<1>6. \A k \in Keys : \A q \in asked[k] : q.lookup # tx0.id
  BY <1>4 DEF AskInv
<1>7. \A m \in net : \A f \in Finds(m) : f.txid # tx0.id
  BY <1>4 DEF IInv, NetInv, IdsCounted, Finds
<1>8. \A k \in Keys : \A q \in asked'[k] : Counted(q.lookup)'
  <2> SUFFICES ASSUME NEW k \in Keys, NEW q \in asked'[k] PROVE Counted(q.lookup)'
    OBVIOUS
  <2>1. CASE q \in asked[k]
    <3>1. q.lookup \in Ids /\ Counted(q.lookup)
      BY <2>1 DEF AskInv, QuestionType
    <3> QED BY <1>5, <3>1
  <2>2. CASE q = Question(tx0)
    BY <1>1, <1>4, <1>5, <2>2
  <2> QED BY <1>2, <2>1, <2>2
<1>9. \A k \in Keys : \A tx \in pendingTX'[k] :
         /\ Question(tx) \in asked'[k]
         /\ \A q \in asked'[k] : q.lookup = tx.requesterTX => q.peer \in tx.exclude \cup {tx.peer}
  <2> SUFFICES ASSUME NEW k \in Keys, NEW tx \in pendingTX'[k]
               PROVE  /\ Question(tx) \in asked'[k]
                      /\ \A q \in asked'[k] : q.lookup = tx.requesterTX =>
                           q.peer \in tx.exclude \cup {tx.peer}
    OBVIOUS
  <2>1. CASE k # n
    BY <1>2, <2>1 DEF AskInv
  <2>2. CASE k = n /\ tx = tx0
    BY <1>1, <1>2, <2>2
  <2>3. CASE k = n /\ tx # tx0
    BY <1>1, <1>2, <2>3 DEF AskInv
  <2> QED BY <2>1, <2>2, <2>3
<1>10. \A k \in Keys : \A tx, ty \in pendingTX'[k] : tx.requesterTX = ty.requesterTX => tx = ty
  <2> SUFFICES ASSUME NEW k \in Keys, NEW tx \in pendingTX'[k], NEW ty \in pendingTX'[k],
                      tx.requesterTX = ty.requesterTX
               PROVE  tx = ty
    OBVIOUS
  <2>1. CASE k # n
    BY <2>1 DEF AskInv
  <2>2. CASE k = n
    BY <2>2 DEF AskInv
  <2> QED BY <2>1, <2>2
<1>11. \A m \in net' : \A f \in Finds(m) : \A q \in asked'[m.to] : q.lookup # f.txid
  <2> SUFFICES ASSUME NEW m \in net', NEW f \in Finds(m), NEW q \in asked'[m.to]
               PROVE  q.lookup # f.txid
    OBVIOUS
  <2>1. CASE m = m0 /\ m.to \in Keys \ {n}
    BY <1>2, <1>6, <2>1
  <2>2. CASE m \in net /\ m.to # n
    BY <1>2, <1>3, <2>2 DEF AskInv
  <2>3. CASE m \in net /\ m.to = n /\ f.txid # L
    BY <1>1, <1>2, <2>3 DEF AskInv
  <2> QED BY <2>1, <2>2, <2>3
<1>12. \A m, o \in net' : \A f \in Finds(m), g \in Finds(o) : f.txid = g.txid => m = o
  <2> SUFFICES ASSUME NEW m \in net', NEW o \in net', NEW f \in Finds(m), NEW g \in Finds(o),
                      f.txid = g.txid
               PROVE  m = o
    OBVIOUS
  <2>1. (m = m0 \/ m \in net) /\ (o = m0 \/ o \in net)
    OBVIOUS
  <2> QED BY <1>7, <2>1 DEF AskInv
<1>13. AsksOthers'
  <2> SUFFICES ASSUME NEW k \in Keys, NEW q \in asked'[k], NEW r \in asked'[k],
                      q.lookup = r.lookup, q.peer = r.peer
               PROVE  q = r
    BY DEF AsksOthers
  <2>1. CASE k # n
    BY <1>2, <2>1 DEF AskInv, AsksOthers
  <2>2. CASE k = n
    BY <1>1, <1>2, <2>2 DEF AskInv, AsksOthers
  <2> QED BY <2>1, <2>2
<1> QED
  BY <1>2, <1>8, <1>9, <1>10, <1>11, <1>12, <1>13 DEF AskInv

\* What LookupRouter adds and sends.
Adds(n, txid, peer, X, new, sent, tx0, m0) ==
    /\ new = {tx0}
    /\ tx0.id = TxId(n, ids[n] + 1) /\ tx0.peer = peer /\ tx0.exclude = X
    /\ tx0.requesterTX = IF txid = NoTx THEN tx0.id ELSE txid
    /\ sent \subseteq {m0} /\ (peer = Nobody => sent = {})
    /\ m0.to = peer /\ \A f \in Finds(m0) : f.txid = tx0.id

LEMMA LookupAdds ==
    ASSUME IInv, NEW n \in Keys, NEW t \in Targets, NEW who \in Keys, NEW txid,
           txid = NoTx \/ txid \in Ids,
           NEW peer \in Keys \cup {Nobody}, peer # None, NEW j \in Jobs \cup {NoJob},
           NEW X \in SUBSET Keys, NEW iterative \in BOOLEAN
    PROVE  \E tx0 \in TX : \E m0 :
             Adds(n, txid, peer, X, LookupTX(n, t, who, txid, peer, j, X),
                  LookupMsg(n, t, who, peer, iterative), tx0, m0)
<1>1. PICK new : new = TxId(n, ids[n] + 1)
  OBVIOUS
<1>2. new \in Ids
  BY <1>1 DEF TxId, Ids, IInv, NetInv, NetType
<1>3. PICK tx0 : tx0 = SearchJob(peer, new, who, IF txid = NoTx THEN new ELSE txid, t, j, X)
  OBVIOUS
<1>4. /\ tx0 \in TX /\ tx0.id = new /\ tx0.peer = peer /\ tx0.exclude = X
      /\ tx0.requesterTX = IF txid = NoTx THEN new ELSE txid
  BY <1>2, <1>3 DEF SearchJob, TX
<1>5. PICK f0, m0 : f0 = FindRouter(t, new, iterative) /\ m0 = DHTImmediate(n, peer, {f0})
  OBVIOUS
<1>6. m0.to = peer /\ \A f \in Finds(m0) : f.txid = new
  BY <1>5 DEF Finds, FindRouter, DHTImmediate
<1>7. /\ LookupTX(n, t, who, txid, peer, j, X) = {tx0}
      /\ LookupMsg(n, t, who, peer, iterative) \subseteq {m0}
      /\ peer = Nobody => LookupMsg(n, t, who, peer, iterative) = {}
  BY <1>1, <1>3, <1>5, NoneIsNoKey DEF LookupTX, LookupMsg, Asks
<1> QED
  BY <1>1, <1>4, <1>6, <1>7 DEF Adds

\* Messages without a question in them.
LEMMA NoFinds ==
    ASSUME NEW a, NEW b, NEW K, NEW id, NEW R
    PROVE  /\ Finds(DHTImmediate(a, b, {})) = {}
           /\ Finds(DHTImmediate(a, b, {GotRouter(K, id, R)})) = {}
BY DEF Finds, DHTImmediate, GotRouter

LEMMA StartAsks ==
    ASSUME IInv, AskInv, NEW j \in Jobs, queue_router_lookup(j)
    PROVE  AskInv'
<1>1. PICK n, t : n = Seeker /\ t = job[j].target
  OBVIOUS
<1>2. PICK peer \in FindClosest(n, t) :
        /\ job[j].state = "queued"
        /\ pendingTX' = [pendingTX EXCEPT ![n] = @ \cup LookupTX(n, t, n, NoTx, peer, j, {})]
        /\ net' = net \cup LookupMsg(n, t, n, peer, FALSE)
        /\ ids' = [ids EXCEPT ![n] = IF peer = None THEN @ ELSE @ + 1]
        /\ AskedNow(n, LookupTX(n, t, n, NoTx, peer, j, {}))
  BY <1>1 DEF queue_router_lookup
<1>3. n \in Keys /\ t \in Targets /\ pendingTX \in [Keys -> SUBSET TX]
  BY <1>1, <1>2, DhtAssumption DEF IInv, JobsHeld, NetInv, NetType
<1>4. peer \in (Keys \ {n}) \cup {None, Nobody}
  BY <1>2, <1>3, FindsPeer DEF IInv, NetInv
<1>5. CASE peer = None
  <2>1. /\ LookupTX(n, t, n, NoTx, peer, j, {}) = {} /\ LookupMsg(n, t, n, peer, FALSE) = {}
    BY <1>5 DEF LookupTX, LookupMsg, Asks
  <2>2. pendingTX' = pendingTX /\ net' = net /\ ids' = ids
    BY <1>2, <1>3, <1>5, <2>1 DEF IInv, NetInv, NetType
  <2>3. asked' = [asked EXCEPT ![n] = @ \cup {Question(tx) : tx \in {}}]
    BY <1>2, <2>1 DEF AskedNow
  <2>4. asked' = asked
    BY <2>3 DEF AskInv
  <2> QED BY <2>2, <2>4, NobodyAsked
<1>6. CASE peer # None
  <2>1. {} \in SUBSET Keys /\ FALSE \in BOOLEAN /\ j \in Jobs \cup {NoJob}
        /\ peer \in Keys \cup {Nobody}
    BY <1>4, <1>6
  <2>2. PICK tx0 \in TX : \E m0 :
          Adds(n, NoTx, peer, {}, LookupTX(n, t, n, NoTx, peer, j, {}),
               LookupMsg(n, t, n, peer, FALSE), tx0, m0)
    BY <1>3, <1>6, <2>1, LookupAdds
  <2> PICK m0 : Adds(n, NoTx, peer, {}, LookupTX(n, t, n, NoTx, peer, j, {}),
                     LookupMsg(n, t, n, peer, FALSE), tx0, m0)
    BY <2>2
  <2> USE DEF Adds
  <2>3. ids \in [Keys -> Nat] /\ tx0.id \in Ids /\ ~Counted(tx0.id)
    BY <1>3, <2>2 DEF IInv, NetInv, NetType, TX, Counted, TxId
  <2>4. /\ \A q \in asked[n] : q.lookup # tx0.id
        /\ \A m \in net : \A f \in Finds(m) : f.txid # tx0.id
        /\ \A ty \in pendingTX[n] : ty.requesterTX # tx0.id
    BY <1>3, <2>3 DEF AskInv, IInv, NetInv, IdsCounted, Finds
  <2>5. /\ ids' = [ids EXCEPT ![n] = @ + 1]
        /\ asked' = [asked EXCEPT ![n] = @ \cup {Question(tx0)}]
        /\ \A k \in Keys \ {n} : pendingTX'[k] = pendingTX[k]
        /\ \A ty \in pendingTX'[n] : ty = tx0 \/ ty \in pendingTX[n]
    BY <1>2, <1>3, <1>6, <2>2 DEF AskedNow
  <2>7. \A m \in net' : (m = m0 /\ m.to \in Keys \ {n}) \/ m \in net
    BY <1>2, <1>4, <1>6
  <2>8. PICK L : L = tx0.id
    OBVIOUS
  <2>9. /\ L \in Ids /\ tx0.requesterTX = L
        /\ \A ty \in pendingTX'[n] : ty = tx0 \/ (ty \in pendingTX[n] /\ ty.requesterTX # L)
        /\ \A q \in asked[n] : q.lookup = L => q.peer \in tx0.exclude /\ q.peer # tx0.peer
    BY <2>2, <2>3, <2>4, <2>5, <2>8
  <2>10. \A m \in net' :
           \/ m = m0 /\ m.to \in Keys \ {n}
           \/ Finds(m) = {}
           \/ m \in net /\ (m.to = n => \A f \in Finds(m) : f.txid # L)
    BY <2>4, <2>7, <2>8
  <2>11. AsksPeer(n, L, tx0, m0)
    BY <2>5, <2>8, <2>9, <2>10 DEF AsksPeer
  <2> QED BY <1>3, <2>9, <2>11, OneAsked
<1> QED BY <1>5, <1>6

LEMMA FindAsks ==
    ASSUME IInv, AskInv, NEW m \in net, HandleFindRouter(m)
    PROVE  AskInv'
<1>1. PICK n : n = m.to
  OBVIOUS
<1>2. PICK f \in m.msgs :
        /\ f.type = "find"
        /\ \/ /\ net' = net \ {m}
              /\ UNCHANGED <<pendingTX, ids, asked>>
           \/ /\ Relays(n, m, f)
              /\ LET next == NextPeer(n, m, f)
                     new == LookupTX(n, f.K, m.from, f.txid, next, NoJob, {})
                 IN /\ pendingTX' = [pendingTX EXCEPT ![n] = @ \cup new]
                    /\ AskedNow(n, new)
                    /\ net' = (net \ {m}) \cup LookupMsg(n, f.K, m.from, next, FALSE)
                               \cup {DHTImmediate(n, m.from, {})}
              /\ ids' = [ids EXCEPT ![n] = @ + 1]
           \/ /\ net' = (net \ {m}) \cup
                        {DHTImmediate(n, m.from, {GotRouter(m.from, f.txid, Answer(n, m, f))})}
              /\ UNCHANGED <<pendingTX, ids, asked>>
  BY <1>1 DEF HandleFindRouter
<1>3. /\ m.from \in Keys /\ n \in Keys /\ f.txid \in Ids /\ Counted(f.txid) /\ f.K \in Targets
      /\ pendingTX \in [Keys -> SUBSET TX]
  BY <1>1, <1>2, Arrives DEF IInv, NetInv, NetType
<1>4. CASE /\ net' = net \ {m} /\ UNCHANGED <<pendingTX, ids, asked>>
  BY <1>4, NobodyAsked
<1>5. CASE /\ net' = (net \ {m}) \cup
                     {DHTImmediate(n, m.from, {GotRouter(m.from, f.txid, Answer(n, m, f))})}
           /\ UNCHANGED <<pendingTX, ids, asked>>
  <2>1. \A o \in net' : o \in net \/ Finds(o) = {}
    BY <1>5, NoFinds
  <2> QED BY <1>5, <2>1, NobodyAsked
<1>6. CASE /\ Relays(n, m, f)
           /\ LET next == NextPeer(n, m, f)
                  new == LookupTX(n, f.K, m.from, f.txid, next, NoJob, {})
              IN /\ pendingTX' = [pendingTX EXCEPT ![n] = @ \cup new]
                 /\ AskedNow(n, new)
                 /\ net' = (net \ {m}) \cup LookupMsg(n, f.K, m.from, next, FALSE)
                            \cup {DHTImmediate(n, m.from, {})}
           /\ ids' = [ids EXCEPT ![n] = @ + 1]
  <2>1. PICK next, new, sent, L :
          /\ next = NextPeer(n, m, f) /\ L = f.txid
          /\ new = LookupTX(n, f.K, m.from, L, next, NoJob, {})
          /\ sent = LookupMsg(n, f.K, m.from, next, FALSE)
    OBVIOUS
  <2>2. next \in Keys /\ next # n /\ next # None
    BY <1>3, <1>6, <2>1, FindsPeer DEF Relays, NextPeer, IInv, NetInv, NetType
  <2>3. PICK tx0 \in TX : \E m0 : Adds(n, L, next, {}, new, sent, tx0, m0)
    <3>1. /\ {} \in SUBSET Keys /\ FALSE \in BOOLEAN /\ NoJob \in Jobs \cup {NoJob}
          /\ L \in Ids /\ next \in Keys \cup {Nobody}
      BY <1>3, <2>1, <2>2
    <3> QED BY <1>3, <2>1, <2>2, <3>1, LookupAdds
  <2>4. PICK m0 : Adds(n, L, next, {}, new, sent, tx0, m0)
    BY <2>3
  <2> USE <2>4 DEF Adds
  <2>5. L # NoTx /\ L \in Ids /\ Counted(L) /\ tx0.requesterTX = L
    BY <1>3, <2>1, DhtAssumption DEF NoTx, Ids
  <2>6. /\ pendingTX' = [pendingTX EXCEPT ![n] = @ \cup {tx0}]
        /\ asked' = [asked EXCEPT ![n] = @ \cup {Question(tx) : tx \in {tx0}}]
        /\ net' = (net \ {m}) \cup sent \cup {DHTImmediate(n, m.from, {})}
        /\ ids' = [ids EXCEPT ![n] = @ + 1]
    BY <1>6, <2>1 DEF AskedNow
  <2>7. {Question(tx) : tx \in {tx0}} = {Question(tx0)}
    OBVIOUS
  <2>8. f \in Finds(m) /\ \A q \in asked[n] : q.lookup # L
    BY <1>1, <1>2, <2>1 DEF AskInv, Finds
  <2>9. \A ty \in pendingTX[n] : ty.requesterTX # L
    BY <1>3, <2>8 DEF AskInv, Question
  <2>10. \A o \in net' :
           \/ o = m0 /\ o.to \in Keys \ {n}
           \/ Finds(o) = {}
           \/ o \in net /\ (o.to = n => \A g \in Finds(o) : g.txid # L)
    <3>1. \A o \in net : o # m => \A g \in Finds(o) : g.txid # L
      BY <2>1, <2>8 DEF AskInv
    <3>2. Finds(DHTImmediate(n, m.from, {})) = {}
      BY NoFinds
    <3> QED BY <2>2, <2>6, <3>1, <3>2
  <2>11. AsksPeer(n, L, tx0, m0)
    BY <1>3, <2>5, <2>6, <2>7, <2>8, <2>9, <2>10 DEF AsksPeer
  <2> QED BY <1>3, <2>5, <2>11, OneAsked
<1> QED BY <1>2, <1>4, <1>5, <1>6

LEMMA EmptyAsks ==
    ASSUME IInv, AskInv, NEW m \in net, NEW g \in m.msgs, g.type = "got",
           NEW tx \in FindPendingTX(m.to, m.from, g.txid), GotEmpty(m, tx, g.R)
    PROVE  AskInv'
<1>1. PICK n, next, X, new, sent, L :
        /\ n = m.to /\ next = Iterates(n, m, tx) /\ X = Excluded(m, tx) /\ L = tx.requesterTX
        /\ new = LookupTX(n, tx.target, tx.requester, L, next, NoJob, X)
        /\ sent = LookupMsg(n, tx.target, tx.requester, next, TRUE)
  OBVIOUS
<1>2. /\ next # None
      /\ pendingTX' = [pendingTX EXCEPT ![n] = (pendingTX[n] \ {tx}) \cup new]
      /\ asked' = [asked EXCEPT ![n] = @ \cup {Question(ty) : ty \in new}]
      /\ net' = (net \ {m}) \cup sent \cup {DHTImmediate(n, m.from, {})}
      /\ ids' = [ids EXCEPT ![n] = @ + 1]
  BY <1>1 DEF GotEmpty, RemovePendingLookup, AskedNow
<1>3. /\ n \in Keys /\ m.from \in Keys /\ tx \in pendingTX[n] /\ tx \in TX
      /\ Counted(L) /\ tx.peer = m.from /\ pendingTX \in [Keys -> SUBSET TX]
  BY <1>1, EndsSearch, Arrives DEF FindPendingTX, IInv, NetInv, NetType
<1>4. /\ tx.target \in Targets /\ tx.requester \in Keys /\ L \in Ids
      /\ X \in SUBSET Keys /\ X = tx.exclude \cup {tx.peer}
  BY <1>1, <1>3 DEF TX, Excluded
<1>5. next \in Keys /\ next # n /\ next \notin X
  <2>1. next = FindCloseExcluding(n, tx.target, X)
    BY <1>1, <1>2 DEF Iterates
  <2>2. next \in nodes[n] \ X
    BY <1>2, <1>3, <1>4, <2>1, FindsPeer DEF IInv, NetInv
  <2> QED
    BY <1>3, <2>2 DEF IInv, NetInv, NetType, NotSelf
<1>6. PICK tx0 \in TX : \E m0 : Adds(n, L, next, X, new, sent, tx0, m0)
  <2>1. TRUE \in BOOLEAN /\ NoJob \in Jobs \cup {NoJob} /\ next \in Keys \cup {Nobody}
    BY <1>5
  <2> QED BY <1>1, <1>2, <1>3, <1>4, <2>1, LookupAdds
<1>7. PICK m0 : Adds(n, L, next, X, new, sent, tx0, m0)
  BY <1>6
<1> USE <1>7 DEF Adds
<1>8. L # NoTx /\ tx0.requesterTX = L
  BY <1>4, DhtAssumption DEF NoTx, Ids
<1>9. \A ty \in pendingTX[n] : ty.requesterTX = L => ty = tx
  BY <1>1, <1>3 DEF AskInv
<1>10. /\ Question(tx) \in asked[n] /\ Question(tx).lookup = L
       /\ \A q \in asked[n] : q.lookup = L => q.peer \in X
  BY <1>1, <1>3, <1>4 DEF AskInv, Question
<1>11. \A o \in net' :
         \/ o = m0 /\ o.to \in Keys \ {n}
         \/ Finds(o) = {}
         \/ o \in net /\ (o.to = n => \A f \in Finds(o) : f.txid # L)
  <2>1. \A o \in net : o.to = n => \A f \in Finds(o) : f.txid # L
    BY <1>10 DEF AskInv
  <2>2. Finds(DHTImmediate(n, m.from, {})) = {}
    BY NoFinds
  <2> QED BY <1>2, <1>5, <2>1, <2>2
<1>12. {Question(ty) : ty \in {tx0}} = {Question(tx0)}
  OBVIOUS
<1>13. AsksPeer(n, L, tx0, m0)
  BY <1>2, <1>3, <1>5, <1>8, <1>9, <1>10, <1>11, <1>12 DEF AsksPeer
<1> QED BY <1>3, <1>4, <1>13, OneAsked

LEMMA GotAsks ==
    ASSUME IInv, AskInv, NEW m \in net, HandleGotRouter(m)
    PROVE  AskInv'
<1>1. PICK g \in m.msgs :
        /\ g.type = "got"
        /\ \E tx \in FindPendingTX(m.to, m.from, g.txid) : GotLast(m, tx, g.R) \/ GotEmpty(m, tx, g.R)
  BY DEF HandleGotRouter
<1>2. PICK tx \in FindPendingTX(m.to, m.from, g.txid) : GotLast(m, tx, g.R) \/ GotEmpty(m, tx, g.R)
  BY <1>1
<1>3. CASE GotLast(m, tx, g.R)
  <2>1. /\ pendingTX' = [pendingTX EXCEPT ![m.to] = pendingTX[m.to] \ {tx}]
        /\ net' = (net \ {m}) \cup {Forwarded(m.to, m, tx, g.R)}
        /\ ids' = ids /\ asked' = asked
    BY <1>3 DEF GotLast, RemovePendingLookup
  <2>2. Finds(Forwarded(m.to, m, tx, g.R)) = {}
    BY NoFinds DEF Forwarded
  <2>3. \A n \in Keys : pendingTX'[n] \subseteq pendingTX[n]
    BY <2>1 DEF IInv, NetInv, NetType
  <2> QED BY <2>1, <2>2, <2>3, NobodyAsked
<1>4. CASE GotEmpty(m, tx, g.R)
  BY <1>1, <1>4, EmptyAsks
<1> QED BY <1>2, <1>3, <1>4

LEMMA NextAsks == IInv /\ AskInv /\ [Next]_vars => AskInv'
<1> SUFFICES ASSUME IInv, AskInv, [Next]_vars PROVE AskInv'
  OBVIOUS
<1>1. ASSUME NEW j \in Jobs, NEW t \in Targets, lookup_router(j, t) PROVE AskInv'
  BY <1>1, NobodyAsked DEF lookup_router
<1>2. ASSUME NEW n \in Keys, NEW k \in Keys, put_peer(n, k) \/ remove_peer(n, k) PROVE AskInv'
  BY <1>2, NobodyAsked DEF put_peer, remove_peer
<1>3. ASSUME NEW m \in net, DropGotRouter(m) \/ HandleEmpty(m) \/ Lose(m) PROVE AskInv'
  <2>1. /\ asked' = asked /\ ids' = ids /\ pendingTX' = pendingTX
        /\ net' \subseteq net \cup {DHTImmediate(m.to, m.from, {})}
    BY <1>3 DEF DropGotRouter, HandleEmpty, Lose
  <2>2. Finds(DHTImmediate(m.to, m.from, {})) = {}
    BY NoFinds
  <2> QED BY <2>1, <2>2, NobodyAsked
<1>4. CASE UNCHANGED vars
  BY <1>4, NobodyAsked DEF vars
<1> QED
  BY <1>1, <1>2, <1>3, <1>4, StartAsks, FindAsks, GotAsks DEF Next, Start, Peers, Handle

\* Over all the retries of GotRouterMessage::HandleMessage, and however often
\* LookupRouterRelayed is called at the same router, a lookup asks no peer twice:
\* exclude holds every peer asked so far but the one that has not answered, a
\* lookup has one transaction, and a request starts one lookup.
THEOREM OthersAreAsked == Spec => []AsksOthers
<1>1. Init => IInv /\ AskInv
  <2>1. Init => AskInv
    BY DEF Init, AskInv, AsksOthers
  <2> QED BY <2>1, InitHolds
<1>2. IInv /\ AskInv /\ [Next]_vars => IInv' /\ AskInv'
  BY NextHolds, NextAsks
<1>3. AskInv => AsksOthers
  BY DEF AskInv
<1> QED
  BY <1>1, <1>2, <1>3, PTL DEF Spec
=============================================================================
