-------------------------------- MODULE Dht --------------------------------
(***************************************************************************)
(* Router lookups in the DHT (udap/dht.cpp): every router keeps a bucket   *)
(* of peers ordered by XOR distance and a table of pending transactions.   *)
(* A lookup asks the closest peer; that peer answers from its bucket, asks *)
(* on recursively, or says that it does not know; after an empty answer    *)
(* the next closest peer is asked, three in all.                           *)
(*                                                                         *)
(* All of it runs in the logic thread of a router.  DHT messages travel in *)
(* immediate link messages, which are lost, delayed and reordered.         *)
(* Transaction ids start at a random 64 bit number: they are taken to be   *)
(* different from those of every other router.  The cleanup of old         *)
(* transactions is not here: its timer is started by itself only.          *)
(*                                                                         *)
(* Operators named Mut... are wrong on purpose: forms that a plausible bug *)
(* would give the definition after them.  No specification uses them.      *)
(***************************************************************************)
EXTENDS Integers, FiniteSets

CONSTANTS
    Keys,           \* the routers, numbers in the key space
    Bits,           \* the key space is 0..2^Bits - 1
    NoTransit,      \* routers that do not take part in lookups of others
    Seeker,         \* the router whose lookups are followed
    Jobs,           \* its udap_router_lookup_jobs
    Targets,        \* keys looked up, which need not be a router's
    MaxChanges      \* bound: peers put into or removed from buckets

ASSUME DhtAssumption ==
    /\ Bits \in Nat
    /\ Keys \subseteq 1..(2^Bits - 1) /\ Targets \subseteq 1..(2^Bits - 1)
    /\ NoTransit \subseteq Keys /\ Seeker \in Keys
    /\ MaxChanges \in Nat

VARIABLES
    nodes,      \* nodes[n]: the keys in n's bucket
    ids,        \* ids[n]: transactions n has started
    pendingTX,  \* pendingTX[n]: SearchJobs with the peer asked and the id
    job,        \* job[j]: the lookup and what its hook was told
    net,        \* immediate messages on their way
    abandoned,  \* jobs whose hook can no longer be called
    asked,      \* history, asked[n]: the questions n has put to its peers
    changes     \* peers put or removed so far

vars == <<nodes, ids, pendingTX, job, net, abandoned, asked, changes>>

-----------------------------------------------------------------------------
(* The key space *)

None == 0           \* the zero key
Nobody == 2^Bits    \* stands for a key that no other router has

NoJob == "nojob"

ASSUME JobAssumption == NoJob \notin Jobs

Bit(a, k) == (a \div 2^k) % 2

\* Bitwise exclusive or; keys compare as big-endian numbers.
Xor(a, b) ==
    LET d[k \in 0..Bits] ==
          IF k = 0 THEN 0
          ELSE d[k - 1] + (IF Bit(a, k - 1) = Bit(b, k - 1) THEN 0 ELSE 2^(k - 1))
    IN d[Bits]

\* A key is at a given distance from at most one router.
ASSUME XorAssumption ==
    \A t \in Targets :
      /\ \A a \in Keys : Xor(a, t) \in Nat
      /\ \A a, b \in Keys : Xor(a, t) = Xor(b, t) => a = b

Closest(S, target) ==
    CHOOSE k \in S : \A o \in S : Xor(k, target) <= Xor(o, target)

\* The search starts at the greatest distance and takes what is less: a peer
\* at that very distance is not seen.
Seen(S, target) == {k \in S : Xor(k, target) < 2^Bits - 1}

\* The keys that the variable for the result may hold.  It is not initialised, and
\* without a peer there is no result; if there are peers and none was seen,
\* FindClosest says all the same that it has found one.
FindClosest(n, target) ==
    IF nodes[n] = {} THEN {None}
    ELSE IF Seen(nodes[n], target) = {} THEN {None, Nobody} \cup (Keys \ {n})
    ELSE {Closest(Seen(nodes[n], target), target)}

FindCloseExcluding(n, target, exclude) ==
    LET S == Seen(nodes[n] \ exclude, target)
    IN IF S = {} THEN None ELSE Closest(S, target)

-----------------------------------------------------------------------------
(* Messages and transactions *)

FindRouter(K, txid, iterative) ==
    [type |-> "find", K |-> K, txid |-> txid, iterative |-> iterative]

\* R is the list of at most one router contact, named by its key.
GotRouter(K, txid, R) == [type |-> "got", K |-> K, txid |-> txid, R |-> R]

\* Every immediate message the code makes has at most one message in it.
DHTImmediate(from, to, msgs) == [from |-> from, to |-> to, msgs |-> msgs]

SearchJob(peer, id, requester, requesterTX, target, j, exclude) ==
    [peer |-> peer, id |-> id, requester |-> requester, requesterTX |-> requesterTX,
     target |-> target, job |-> j, exclude |-> exclude]

FindPendingTX(n, owner, id) == {tx \in pendingTX[n] : tx.peer = owner /\ tx.id = id}

\* The ids of n's transactions.
TxId(n, k) == <<n, k>>
NoTx == <<0, 0>>

\* LookupRouter: what it adds to pendingTX and what it sends.  A zero key
\* makes it return without a trace.
Asks(target, whoasked, askpeer) == target # None /\ whoasked # None /\ askpeer # None

LookupTX(n, target, whoasked, txid, askpeer, j, exclude) ==
    IF Asks(target, whoasked, askpeer)
    THEN LET id == TxId(n, ids[n] + 1)
         IN {SearchJob(askpeer, id, whoasked, IF txid = NoTx THEN id ELSE txid,
                       target, j, exclude)}
    ELSE {}

\* A message for nobody stays in the router's queue.
LookupMsg(n, target, whoasked, askpeer, iterative) ==
    IF Asks(target, whoasked, askpeer) /\ askpeer # Nobody
    THEN {DHTImmediate(n, askpeer, {FindRouter(target, TxId(n, ids[n] + 1), iterative)})}
    ELSE {}

\* The peer asked in a lookup, which the request that started it names.
Question(tx) == [lookup |-> tx.requesterTX, peer |-> tx.peer, id |-> tx.id]

AskedNow(n, new) == asked' = [asked EXCEPT ![n] = @ \cup {Question(tx) : tx \in new}]

MutNoHook(j, R) == job

\* SearchJob::Completed calls the hook of a job.
Completed(j, R) ==
    IF j = NoJob THEN job
    ELSE [job EXCEPT ![j].calls = @ + 1, ![j].result = R]

-----------------------------------------------------------------------------
Init ==
    /\ nodes \in {b \in [Keys -> SUBSET Keys] : \A n \in Keys : n \notin b[n]}
    /\ ids = [n \in Keys |-> 0]
    /\ pendingTX = [n \in Keys |-> {}]
    /\ job = [j \in Jobs |-> [state |-> "idle", target |-> None, calls |-> 0, result |-> {}]]
    /\ net = {}
    /\ abandoned = {}
    /\ asked = [n \in Keys |-> {}]
    /\ changes = 0

\* udap_dht_put_peer, when a router has been verified.
put_peer(n, k) ==
    /\ changes < MaxChanges /\ k # n /\ k \notin nodes[n]
    /\ nodes' = [nodes EXCEPT ![n] = @ \cup {k}]
    /\ changes' = changes + 1
    /\ UNCHANGED <<ids, pendingTX, job, net, abandoned, asked>>

\* udap_dht_remove_peer, when its session is closed.
remove_peer(n, k) ==
    /\ changes < MaxChanges /\ k \in nodes[n]
    /\ nodes' = [nodes EXCEPT ![n] = @ \ {k}]
    /\ changes' = changes + 1
    /\ UNCHANGED <<ids, pendingTX, job, net, abandoned, asked>>

lookup_router(j, target) ==
    /\ job[j].state = "idle"
    /\ job' = [job EXCEPT ![j] = [@ EXCEPT !.state = "queued", !.target = target]]
    /\ UNCHANGED <<nodes, ids, pendingTX, net, abandoned, asked, changes>>

\* LookupRouterViaJob in the logic thread: ask the closest peer, or tell the
\* hook at once that there is none.
queue_router_lookup(j) ==
    LET n == Seeker
        t == job[j].target
    IN /\ job[j].state = "queued"
       /\ \E peer \in FindClosest(n, t) :
            LET new == LookupTX(n, t, n, NoTx, peer, j, {})
            IN /\ pendingTX' = [pendingTX EXCEPT ![n] = @ \cup new]
               /\ net' = net \cup LookupMsg(n, t, n, peer, FALSE)
               /\ ids' = [ids EXCEPT ![n] = IF peer = None THEN @ ELSE @ + 1]
               /\ AskedNow(n, new)
               /\ abandoned' = IF nodes[n] # {} /\ peer \in {None, Nobody}
                               THEN abandoned \cup {j} ELSE abandoned
       /\ LET told == IF nodes[n] = {} THEN Completed(j, {}) ELSE job
          IN job' = [told EXCEPT ![j].state = "asked"]
       /\ UNCHANGED <<nodes, changes>>

-----------------------------------------------------------------------------
(* LookupRouterRelayed: an answer, or a question to the next peer *)

NextPeer(n, m, f) == FindCloseExcluding(n, f.K, {m.from, n})

MutAsksFarther(n, m, f) ==
    LET next == NextPeer(n, m, f)
    IN f.K # n /\ next # None /\ next # f.K /\ ~f.iterative

\* Recursive, the target unknown, and the one who asked is not closer to it.
Relays(n, m, f) ==
    LET next == NextPeer(n, m, f)
    IN /\ f.K # n /\ next # None /\ next # f.K
       /\ ~f.iterative /\ ~(Xor(m.from, f.K) < Xor(n, f.K))

\* Our own contact, that of the target if it is the closest peer, or nothing.
Answer(n, m, f) ==
    IF f.K = n THEN {n} ELSE IF NextPeer(n, m, f) = f.K THEN {f.K} ELSE {}

\* FindRouterMessage::HandleMessage.  The search for a duplicate looks through
\* the transactions n started itself.
Refused(n, m, f) == n \in NoTransit \/ FindPendingTX(n, m.from, f.txid) # {}

Origin(f) == {tx.job : tx \in {x \in pendingTX[Seeker] : x.id = f.txid}} \ {NoJob}

HandleFindRouter(m) ==
    \E f \in m.msgs :
      LET n == m.to
      IN /\ f.type = "find"
         /\ \/ /\ Refused(n, m, f)
               /\ net' = net \ {m}
               /\ abandoned' = abandoned \cup Origin(f)
               /\ UNCHANGED <<pendingTX, ids, asked>>
            \/ /\ ~Refused(n, m, f) /\ Relays(n, m, f)
               /\ LET next == NextPeer(n, m, f)
                      new == LookupTX(n, f.K, m.from, f.txid, next, NoJob, {})
                  IN /\ pendingTX' = [pendingTX EXCEPT ![n] = @ \cup new]
                     /\ AskedNow(n, new)
                     /\ net' = (net \ {m}) \cup LookupMsg(n, f.K, m.from, next, FALSE)
                                \cup {DHTImmediate(n, m.from, {})}
               /\ ids' = [ids EXCEPT ![n] = @ + 1]
               /\ abandoned' = abandoned \cup Origin(f)
            \/ /\ ~Refused(n, m, f) /\ ~Relays(n, m, f)
               /\ net' = (net \ {m}) \cup
                         {DHTImmediate(n, m.from, {GotRouter(m.from, f.txid, Answer(n, m, f))})}
               /\ UNCHANGED <<pendingTX, ids, abandoned, asked>>
    /\ UNCHANGED <<nodes, job, changes>>

-----------------------------------------------------------------------------
(* GotRouterMessage::HandleMessage *)

\* An answer for another router's request goes out as a reply to the message
\* just received: to the router that answered.
Forwarded(n, m, tx, R) ==
    DHTImmediate(n, m.from,
                 IF tx.requester = n THEN {} ELSE {GotRouter(tx.target, tx.requesterTX, R)})

MutForgets(m, tx) == tx.exclude

Excluded(m, tx) == tx.exclude \cup {m.from}

\* The peer to ask after an empty answer.
Iterates(n, m, tx) ==
    IF Cardinality(Excluded(m, tx)) < 3
    THEN FindCloseExcluding(n, tx.target, Excluded(m, tx)) ELSE None

MutKeepsTX(n, tx) == pendingTX[n]

RemovePendingLookup(n, tx) == pendingTX[n] \ {tx}

\* Found, or nobody left to ask.
GotLast(m, tx, R) ==
    LET n == m.to
    IN /\ R # {} \/ Iterates(n, m, tx) = None
       /\ job' = Completed(tx.job, R)
       /\ pendingTX' = [pendingTX EXCEPT ![n] = RemovePendingLookup(n, tx)]
       /\ net' = (net \ {m}) \cup {Forwarded(n, m, tx, R)}
       /\ UNCHANGED <<ids, abandoned, asked>>

\* The next peer is asked, without the job: its hook is not called any more.
GotEmpty(m, tx, R) ==
    LET n == m.to
        next == Iterates(n, m, tx)
        new == LookupTX(n, tx.target, tx.requester, tx.requesterTX, next, NoJob,
                        Excluded(m, tx))
    IN /\ R = {} /\ next # None
       /\ pendingTX' = [pendingTX EXCEPT ![n] = RemovePendingLookup(n, tx) \cup new]
       /\ AskedNow(n, new)
       /\ net' = (net \ {m}) \cup LookupMsg(n, tx.target, tx.requester, next, TRUE)
                  \cup {DHTImmediate(n, m.from, {})}
       /\ ids' = [ids EXCEPT ![n] = @ + 1]
       /\ abandoned' = abandoned \cup ({tx.job} \ {NoJob})
       /\ UNCHANGED job

HandleGotRouter(m) ==
    /\ \E g \in m.msgs :
         /\ g.type = "got"
         /\ \E tx \in FindPendingTX(m.to, m.from, g.txid) : GotLast(m, tx, g.R) \/ GotEmpty(m, tx, g.R)
    /\ UNCHANGED <<nodes, changes>>

\* A transaction we are not tracking.
DropGotRouter(m) ==
    /\ \E g \in m.msgs : g.type = "got" /\ FindPendingTX(m.to, m.from, g.txid) = {}
    /\ net' = net \ {m}
    /\ UNCHANGED <<nodes, ids, pendingTX, job, abandoned, asked, changes>>

\* An immediate message without DHT messages is answered with another one.
HandleEmpty(m) ==
    /\ m.msgs = {}
    /\ net' = (net \ {m}) \cup {DHTImmediate(m.to, m.from, {})}
    /\ UNCHANGED <<nodes, ids, pendingTX, job, abandoned, asked, changes>>

Lose(m) ==
    /\ net' = net \ {m}
    /\ abandoned' = abandoned \cup UNION {Origin(f) : f \in m.msgs}
    /\ UNCHANGED <<nodes, ids, pendingTX, job, asked, changes>>

-----------------------------------------------------------------------------
Start == \E j \in Jobs : (\E t \in Targets : lookup_router(j, t)) \/ queue_router_lookup(j)

Peers == \E n, k \in Keys : put_peer(n, k) \/ remove_peer(n, k)

Handle(m) == HandleFindRouter(m) \/ HandleGotRouter(m) \/ DropGotRouter(m)

Next ==
    \/ Start
    \/ Peers
    \/ \E m \in net : Handle(m) \/ HandleEmpty(m) \/ Lose(m)

Spec == Init /\ [][Next]_vars

\* The logic thread runs its jobs; a message that is not lost arrives.
Fairness ==
    /\ \A j \in Jobs : WF_vars(queue_router_lookup(j))
    /\ WF_vars(\E m \in net : Handle(m))

FairSpec == Spec /\ Fairness

-----------------------------------------------------------------------------
(* Properties *)

\* A lookup job is freed by its hook: the hook is called at most once, no
\* transaction refers to the job afterwards or twice, and the contact it is
\* told is the one of the router it looked for.
HookOnce ==
    \A j \in Jobs :
      LET held == {tx \in pendingTX[Seeker] : tx.job = j}
      IN /\ job[j].calls + Cardinality(held) <= 1
         /\ job[j].result \subseteq {job[j].target}

\* A router works for another one only if it is closer to the target: a
\* recursive lookup comes closer with every router and ends.
LookupCloses ==
    \A n \in Keys : \A tx \in pendingTX[n] :
      tx.requester # n => Xor(n, tx.target) < Xor(tx.requester, tx.target)

\* Over all its retries a lookup asks no peer twice, whatever was put into the
\* bucket or removed from it meanwhile and however often its router is asked
\* (GotRouterMessage::HandleMessage, LookupRouterRelayed).
AsksOthers ==
    \A n \in Keys : \A q, r \in asked[n] :
      q.lookup = r.lookup /\ q.peer = r.peer => q = r

\* The hook of a lookup is called, unless a message was lost, the first peer
\* refused, passed the question on or did not know and another was asked.
LookupSettles ==
    \A j \in Jobs : job[j].state # "idle" ~> (job[j].calls > 0 \/ j \in abandoned)

\* doc/dht_v0.txt: on a GRCM, "send a GRCM with R to requesters in all linked
\* transactions": an answer is addressed to the router whose transaction it
\* is.
AnswerGoesToRequester ==
    \A m \in net : \A g \in m.msgs : g.type = "got" => m.to = g.txid[1]
=============================================================================
