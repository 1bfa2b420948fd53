------------------------------- MODULE Paths -------------------------------
(***************************************************************************)
(* Onion paths: a client builds paths over relays (udap/pathbuilder.cpp,   *)
(* udap/path.cpp, udap/pathset.cpp), every relay keeps its part of a path  *)
(* as a transit hop (udap/relay_commit.cpp, udap/transit_hop.cpp), and     *)
(* routing messages travel up and down it (udap/relay_up_down.cpp).        *)
(*                                                                         *)
(* A client is a router without inbound links, a relay one that called     *)
(* AllowTransit.  Each router runs its handlers in one logic thread; the   *)
(* keys of a path and the frames of a commit message are worked on in the  *)
(* crypto workers.  Links lose, delay and reorder messages.                *)
(*                                                                         *)
(* Times are kept as ages, the difference the code compares: one unit of   *)
(* age is long against a local job, which always runs within it.           *)
(*                                                                         *)
(* Operators named Mut... are wrong on purpose: forms that a plausible bug *)
(* would give the definition after them.  No specification uses them.      *)
(***************************************************************************)
EXTENDS Integers, Sequences, FiniteSets

CONSTANTS
    Client,         \* the router that builds paths
    Relays,         \* routers that can be hops
    NoTransit,      \* relays that do not allow transit
    MaxPaths,       \* bound: the paths ever built
    NumPaths,       \* m_NumPaths of the path set (4 in the code)
    NumHops,        \* hops of a path (4 in the code)
    MaxHops,        \* MAXHOPS, the frames of a commit message (8 in the code)
    Lifetime,       \* DEFAULT_PATH_LIFETIME
    BuildTimeout,   \* PATH_BUILD_TIMEOUT
    MaxCopies       \* bound: commit messages that reach a relay a second time

ASSUME PathsAssumption ==
    /\ Client \notin Relays /\ NoTransit \subseteq Relays
    /\ NumPaths \in Nat /\ NumHops \in Nat \ {0} /\ MaxHops \in Nat
    /\ NumHops <= MaxHops
    /\ Lifetime \in Nat /\ BuildTimeout \in Nat /\ BuildTimeout <= Lifetime
    /\ MaxCopies \in Nat
    /\ MaxPaths \in Nat

VARIABLES
    known,      \* routers in the client's nodedb
    builds,     \* pathbuilder_start_build jobs queued in the client's logic
    path,       \* path[p]: the client's Path object
    work,       \* commit messages a relay is working on
    transit,    \* transit[r]: the TransitHop objects of relay r
    net,        \* link messages on their way
    garbled,    \* routing messages no parser could read
    copies,     \* duplicates made so far
    late        \* paths that lost a message or had one delayed by a time unit

vars == <<known, builds, path, work, transit, net, garbled, copies, late>>

-----------------------------------------------------------------------------
(* Path ids, keys and records *)

PathIds == 1..MaxPaths
Idx == 0..(NumHops - 1)

\* Every id is drawn at random, then a hop's txID is set to the rxID of the
\* hop after it.  The last hop keeps a txID that no other hop has.
rxID(p, i) == <<p, i>>
txID(p, i) == IF i < NumHops - 1 THEN rxID(p, i + 1) ELSE <<p, NumHops>>

\* The shared secret of hop i: dh_client of its commkey and nonce at the
\* client, dh_server of the same at the relay.
shared(p, i) == <<p, i>>

\* What a record tells the hop: its ids and the next hop, itself if last.
Upstream(hops, i) == IF i = NumHops - 1 THEN hops[i] ELSE hops[i + 1]

LR_CommitRecord(p, hops, i) ==
    [txid |-> txID(p, i), rxid |-> rxID(p, i),
     nextHop |-> Upstream(hops, i), key |-> shared(p, i)]

\* An encrypted frame is read by the router whose key it was made for.
EncryptInPlace(router, record) == [to |-> router, record |-> record]
DecryptInPlace(router, frame) == frame.to = router

\* Random bytes: no router can decrypt them.
Junk == [to |-> "nobody"]

LRCM(p, from, to, frames, n) ==
    [type |-> "LRCM", p |-> p, from |-> from, to |-> to, frames |-> frames, n |-> n]

\* X is the payload under the stream cipher keys in `layers`.
RelayMsg(type, p, from, to, id, layers, body, n) ==
    [type |-> type, p |-> p, from |-> from, to |-> to, id |-> id,
     layers |-> layers, body |-> body, n |-> n]

\* xchacha20 with a key: applying it again takes it off.
xchacha20(layers, keys) == (layers \ keys) \cup (keys \ layers)

AllKeys(p) == {shared(p, i) : i \in Idx}

-----------------------------------------------------------------------------
(* Maps and expiry *)

NoPath == [status |-> "none", hops |-> <<>>, idx |-> 0, age |-> 0, latency |-> "none"]

\* m_Paths of the path set.
m_Paths == {p \in PathIds : path[p].status \in {"building", "established"}}

MutBuildingStays(q) == q.status = "established" /\ q.age > Lifetime

PathExpired(q) ==
    IF q.status = "established" THEN q.age > Lifetime ELSE q.age > BuildTimeout

MutExpiresEarly(h) == h.age >= Lifetime

HopExpired(h) == h.age > Lifetime

\* h.ids are the keys under which the multimap still holds h.
TransitGet(r, id) == {h \in transit[r] : id \in h.ids}

TransitHopInfo(rec, down) ==
    [txID |-> rec.txid, rxID |-> rec.rxid, upstream |-> rec.nextHop, downstream |-> down]

SameInfo(h, info) == \A f \in DOMAIN info : h[f] = info[f]

HasTransitHop(r, info) == \E h \in TransitGet(r, info.txID) : SameInfo(h, info)

AllowingTransit(r) == r \notin NoTransit

HopIsUs(r, k) == k = r

GetByDownstream(r, remote, id) == {h \in TransitGet(r, id) : h.downstream = remote}

GetByUpstream(r, remote, id) == {h \in TransitGet(r, id) : h.upstream = remote}

\* m_OurPaths leads to the only path set, for deleted paths too; the set finds
\* the path by its first hop and RXID.
OwnByUpstream(remote, id) ==
    {p \in m_Paths : path[p].hops[0] = remote /\ rxID(p, 0) = id}

Older(age) == IF age > Lifetime THEN age ELSE age + 1

-----------------------------------------------------------------------------
Init ==
    /\ known = {}
    /\ builds = 0
    /\ path = [p \in PathIds |-> NoPath]
    /\ work = {}
    /\ transit = [r \in Relays |-> {}]
    /\ net = {}
    /\ garbled = {}
    /\ copies = 0
    /\ late = {}

(***************************************************************************)
(* The client                                                              *)
(***************************************************************************)

\* A router contact reaches the nodedb.
PutRC(r) ==
    /\ r \notin known
    /\ known' = known \cup {r}
    /\ UNCHANGED <<builds, path, work, transit, net, garbled, copies, late>>

Unused == {p \in PathIds : path[p].status = "none"}

\* PathSet::ExpirePaths.
ExpireOwnPaths ==
    [p \in PathIds |-> IF p \in m_Paths /\ PathExpired(path[p])
                       THEN [path[p] EXCEPT !.status = "gone", !.age = 0] ELSE path[p]]

ShouldBuildMore(paths) == Cardinality(paths) < NumPaths

\* A job for the logic thread.
BuildOne == builds + 1

\* PathContext::BuildPaths, as long as there are unused paths in the model.
BuildPaths ==
    IF /\ ShouldBuildMore({p \in m_Paths : ~PathExpired(path[p])})
       /\ builds < Cardinality(Unused)
    THEN BuildOne ELSE builds

\* udap_router::Tick of a router without inbound links: expired paths are
\* deleted, then one build job is queued if more than two routers are known
\* and the set holds too few paths.  Jobs and paths not yet in the set do not
\* count.
TickClient ==
    /\ path' = ExpireOwnPaths
    /\ builds' = IF Cardinality(known) > 2 THEN BuildPaths ELSE builds
    /\ UNCHANGED <<known, work, transit, net, garbled, copies, late>>

\* udap_nodedb_select_random_hop draws until the router is not the previous.
SelectRandomHops ==
    {hops \in [Idx -> known] : \A i \in Idx \ {0} : hops[i] # hops[i - 1]}

pathbuilder_start_build ==
    /\ builds > 0 /\ Unused # {}
    /\ \E hops \in SelectRandomHops :
         LET p == CHOOSE q \in Unused : \A o \in Unused : q <= o
         IN path' = [path EXCEPT ![p].status = "keys", ![p].hops = hops]
    /\ builds' = builds - 1
    /\ UNCHANGED <<known, work, transit, net, garbled, copies, late>>

MutNoLastKey(p) ==
    /\ path[p].status = "keys"
    /\ path' = [path EXCEPT ![p].idx = @ + 1]
    /\ UNCHANGED <<known, builds, work, transit, net, garbled, copies, late>>

\* In a crypto worker: the key and the record of one hop.
GenerateNextKey(p) ==
    /\ path[p].status = "keys" /\ path[p].idx < NumHops
    /\ path' = [path EXCEPT ![p].idx = @ + 1]
    /\ UNCHANGED <<known, builds, work, transit, net, garbled, copies, late>>

Frames(p) ==
    [k \in 1..MaxHops |->
       IF k <= path[p].idx
       THEN EncryptInPlace(path[p].hops[k - 1], LR_CommitRecord(p, path[p].hops, k - 1))
       ELSE Junk]

AddOwnPath(p) == [path EXCEPT ![p].status = "building", ![p].age = 0]

\* In the logic thread, after the last key.
pathbuilder_generated_keys(p) ==
    /\ path[p].status = "keys" /\ path[p].idx = NumHops
    /\ net' = net \cup {LRCM(p, Client, path[p].hops[0], Frames(p), 0)}
    /\ path' = AddOwnPath(p)
    /\ UNCHANGED <<known, builds, work, transit, garbled, copies, late>>

\* A routing message sent by the client: a layer for every hop, to the first.
SendUpstream(p, body) ==
    RelayMsg("LRUM", p, Client, path[p].hops[0], txID(p, 0),
             xchacha20({}, AllKeys(p)), body, 0)

ClientReads(m, p) == xchacha20(m.layers, AllKeys(p)) = {}

\* A path confirmation makes a building path established and starts a
\* latency test.
HandlePathConfirm(m) ==
    /\ m.type = "LRDM" /\ m.to = Client
    /\ \E p \in OwnByUpstream(m.from, m.id) :
         /\ ClientReads(m, p)
         /\ m.body = "confirm"
         /\ path[p].status = "building"
         /\ path' = [path EXCEPT ![p].status = "established", ![p].latency = "asked"]
         /\ net' = (net \ {m}) \cup {SendUpstream(p, "test")}
    /\ UNCHANGED <<known, builds, work, transit, garbled, copies, late>>

HandlePathLatency(m) ==
    /\ m.type = "LRDM" /\ m.to = Client
    /\ \E p \in OwnByUpstream(m.from, m.id) :
         /\ ClientReads(m, p)
         /\ m.body = "answer"
         /\ path' = [path EXCEPT ![p].latency = "measured"]
    /\ net' = net \ {m}
    /\ UNCHANGED <<known, builds, work, transit, garbled, copies, late>>

\* No such path, a second confirmation, or a message that cannot be read.
DropDownstream(m) ==
    /\ m.type = "LRDM" /\ m.to = Client
    /\ \A p \in OwnByUpstream(m.from, m.id) :
         ClientReads(m, p) => m.body = "confirm" /\ path[p].status # "building"
    /\ garbled' = garbled \cup {m : p \in {q \in OwnByUpstream(m.from, m.id) :
                                            ~ClientReads(m, q)}}
    /\ net' = net \ {m}
    /\ UNCHANGED <<known, builds, path, work, transit, copies, late>>

(***************************************************************************)
(* A relay                                                                 *)
(***************************************************************************)

AsyncDecrypt(m) == work \cup {[at |-> m.to, msg |-> m, pc |-> "decrypt"]}

\* LR_CommitMessage::HandleMessage: refused, or queued for a crypto worker.
RecvLRCM(m) ==
    /\ m.type = "LRCM"
    /\ net' = net \ {m}
    /\ work' = IF Len(m.frames) = MaxHops /\ AllowingTransit(m.to)
               THEN AsyncDecrypt(m) ELSE work
    /\ UNCHANGED <<known, builds, path, transit, garbled, copies, late>>

Record(j) == j.msg.frames[1].record

Info(j) == TransitHopInfo(Record(j), j.msg.from)

\* HandleDecrypted up to the test for a duplicate, in a crypto worker.
DecryptFrame(j) ==
    /\ j.pc = "decrypt"
    /\ work' = IF DecryptInPlace(j.at, Head(j.msg.frames)) /\ ~HasTransitHop(j.at, Info(j))
               THEN (work \ {j}) \cup {[j EXCEPT !.pc = "accept"]}
               ELSE work \ {j}
    /\ UNCHANGED <<known, builds, path, transit, net, garbled, copies, late>>

\* A TransitHop with the path key of the record, started now.
NewHop(j) ==
    [txID |-> Info(j).txID, rxID |-> Info(j).rxID,
     upstream |-> Info(j).upstream, downstream |-> Info(j).downstream,
     key |-> Record(j).key, age |-> 0, n |-> j.msg.n, p |-> j.msg.p,
     ids |-> {Info(j).txID, Info(j).rxID}]

PutTransitHop(r, h) == [transit EXCEPT ![r] = @ \cup {h}]

\* The rest of HandleDecrypted: PutTransitHop, then a logic job.
AcceptTransitHop(j) ==
    /\ j.pc = "accept"
    /\ transit' = PutTransitHop(j.at, NewHop(j))
    /\ work' = (work \ {j}) \cup {[j EXCEPT !.pc = "send"]}
    /\ UNCHANGED <<known, builds, path, net, garbled, copies, late>>

MutCopyBeforeCipher(r, h, layers, body) ==
    RelayMsg("LRDM", h.p, r, h.downstream, h.rxID, layers, body, h.n)

\* TransitHop::HandleDownstream: one more layer, to the router below.
SendDownstream(r, h, layers, body) ==
    RelayMsg("LRDM", h.p, r, h.downstream, h.rxID, xchacha20(layers, {h.key}), body, h.n)

\* The logic job of the farthest hop.
SendPathConfirm(j) ==
    /\ j.pc = "send" /\ HopIsUs(j.at, Info(j).upstream)
    /\ net' = net \cup {SendDownstream(j.at, NewHop(j), {}, "confirm")}
    /\ work' = work \ {j}
    /\ UNCHANGED <<known, builds, path, transit, garbled, copies, late>>

MutNoJunk(j) ==
    LRCM(j.msg.p, j.at, Info(j).upstream, Tail(j.msg.frames), j.msg.n)

\* Our frame was taken off, junk put at the end.
ForwardLRCM(j) ==
    LRCM(j.msg.p, j.at, Info(j).upstream, Append(Tail(j.msg.frames), Junk), j.msg.n)

\* The logic job of any other hop.
SendLRCM(j) ==
    /\ j.pc = "send" /\ ~HopIsUs(j.at, Info(j).upstream)
    /\ net' = net \cup {ForwardLRCM(j)}
    /\ work' = work \ {j}
    /\ UNCHANGED <<known, builds, path, transit, garbled, copies, late>>

RelayUpstream(m, h, layers) ==
    RelayMsg("LRUM", h.p, m.to, h.upstream, h.txID, layers, m.body, m.n)

\* The end of a path answers the only message a client sends.
AnswerLatency(r, h, layers) ==
    IF layers = {} THEN {SendDownstream(r, h, {}, "answer")} ELSE {}

\* RelayUpstreamMessage::HandleMessage and TransitHop::HandleUpstream: one
\* layer less, and on to the next router or to the parser.  A latency test is
\* answered down the path.
RecvLRUM(m) ==
    /\ m.type = "LRUM"
    /\ \/ /\ GetByDownstream(m.to, m.from, m.id) = {}
          /\ net' = net \ {m} /\ UNCHANGED garbled
       \/ \E h \in GetByDownstream(m.to, m.from, m.id) :
            LET layers == xchacha20(m.layers, {h.key})
            IN \/ /\ h.upstream # m.to
                  /\ net' = (net \ {m}) \cup {RelayUpstream(m, h, layers)}
                  /\ UNCHANGED garbled
               \/ /\ h.upstream = m.to
                  /\ net' = (net \ {m}) \cup AnswerLatency(m.to, h, layers)
                  /\ garbled' = IF layers = {} THEN garbled ELSE garbled \cup {m}
    /\ UNCHANGED <<known, builds, path, work, transit, copies, late>>

\* RelayDownstreamMessage::HandleMessage at a relay.
RecvLRDM(m) ==
    /\ m.type = "LRDM" /\ m.to # Client
    /\ \/ /\ GetByUpstream(m.to, m.from, m.id) = {}
          /\ net' = net \ {m}
       \/ \E h \in GetByUpstream(m.to, m.from, m.id) :
            net' = (net \ {m}) \cup {SendDownstream(m.to, h, m.layers, m.body)}
    /\ UNCHANGED <<known, builds, path, work, transit, garbled, copies, late>>

MutNoDelete(hs) ==
    LET old == {h \in hs : h.ids # {} /\ HopExpired(h)}
        ids == UNION {{h.txID, h.rxID} : h \in old}
    IN {[h EXCEPT !.ids = @ \ ids] : h \in hs}

\* ExpirePaths collects the expired hops and erases by id: whatever else is
\* stored under an id of an expired hop goes with it, but is not deleted.
Expire(hs) ==
    LET old == {h \in hs : h.ids # {} /\ HopExpired(h)}
        ids == UNION {{h.txID, h.rxID} : h \in old}
    IN {[h EXCEPT !.ids = @ \ ids] : h \in hs \ old}

TickRelay(r) ==
    /\ transit' = [transit EXCEPT ![r] = Expire(@)]
    /\ UNCHANGED <<known, builds, path, work, net, garbled, copies, late>>

(***************************************************************************)
(* The links and the clock                                                 *)
(***************************************************************************)

Lose(m) ==
    /\ net' = net \ {m}
    /\ late' = late \cup {m.p}
    /\ UNCHANGED <<known, builds, path, work, transit, garbled, copies>>

\* A commit message reaches a relay once more.
Duplicate(m) ==
    /\ m.type = "LRCM" /\ copies < MaxCopies
    /\ copies' = copies + 1
    /\ net' = net \cup {[m EXCEPT !.n = copies']}
    /\ UNCHANGED <<known, builds, path, work, transit, garbled, late>>

\* Time passes when no local job is waiting.
Advance ==
    /\ work = {} /\ \A p \in PathIds : path[p].status # "keys"
    /\ path' = [p \in PathIds |->
                  IF p \in m_Paths THEN [path[p] EXCEPT !.age = Older(@)] ELSE path[p]]
    /\ transit' = [r \in Relays |->
                     {IF h.ids = {} THEN h ELSE [h EXCEPT !.age = Older(@)] : h \in transit[r]}]
    /\ late' = late \cup {m.p : m \in net}
    /\ UNCHANGED <<known, builds, work, net, garbled, copies>>

-----------------------------------------------------------------------------
ClientStep ==
    \/ \E r \in Relays : PutRC(r)
    \/ TickClient
    \/ pathbuilder_start_build
    \/ \E p \in PathIds : GenerateNextKey(p) \/ pathbuilder_generated_keys(p)

RelayStep ==
    \/ \E j \in work : DecryptFrame(j) \/ AcceptTransitHop(j) \/ SendPathConfirm(j) \/ SendLRCM(j)
    \/ \E r \in Relays : TickRelay(r)

Receive ==
    \E m \in net :
      \/ HandlePathConfirm(m) \/ HandlePathLatency(m) \/ DropDownstream(m)
      \/ RecvLRCM(m) \/ RecvLRUM(m) \/ RecvLRDM(m)

LinkStep == \E m \in net : Lose(m) \/ Duplicate(m)

Next == ClientStep \/ RelayStep \/ Receive \/ LinkStep \/ Advance

Spec == Init /\ [][Next]_vars

\* The workers and the logic threads run their jobs, the tickers fire, time
\* goes on, and a message that stays on a link gets through.
Fairness ==
    /\ WF_vars(TickClient) /\ WF_vars(pathbuilder_start_build)
    /\ \A p \in PathIds : WF_vars(GenerateNextKey(p) \/ pathbuilder_generated_keys(p))
    /\ WF_vars(\E j \in work : DecryptFrame(j) \/ AcceptTransitHop(j)
                               \/ SendPathConfirm(j) \/ SendLRCM(j))
    /\ \A r \in Relays : WF_vars(TickRelay(r))
    /\ WF_vars(Receive) /\ WF_vars(Advance)

FairSpec == Spec /\ Fairness

-----------------------------------------------------------------------------
(* Properties *)

Ids == {<<p, i>> : p \in PathIds, i \in 0..NumHops}

TransitHop ==
    [txID : Ids, rxID : Ids, upstream : Relays, downstream : Relays \cup {Client},
     key : Ids, age : 0..(Lifetime + 1), n : 0..MaxCopies, p : PathIds, ids : SUBSET Ids]

Path ==
    [status : {"none", "keys", "building", "established", "gone"},
     hops : [Idx -> Relays] \cup {<<>>}, idx : 0..NumHops, age : 0..(Lifetime + 1),
     latency : {"none", "asked", "measured"}]

TypeOK ==
    /\ known \subseteq Relays /\ builds \in Nat
    /\ path \in [PathIds -> Path]
    /\ \A r \in Relays : transit[r] \subseteq TransitHop
    /\ late \subseteq PathIds

\* A path the client may use is whole: every router on it still holds the
\* transit hop under both ids, with the routers next to it and the client's
\* key, as long as the client has not let the path expire.
PathIsWhole ==
    \A p \in PathIds :
      (path[p].status = "established" /\ ~PathExpired(path[p])) =>
        \A i \in Idx : \E h \in transit[path[p].hops[i]] :
          /\ h.ids = {txID(p, i), rxID(p, i)} /\ h.key = shared(p, i)
          /\ h.upstream = Upstream(path[p].hops, i)
          /\ h.downstream = IF i = 0 THEN Client ELSE path[p].hops[i - 1]

\* A routing message that reaches the end of its path has lost exactly the
\* layers it was given, also when a router is on the path more than once.
NothingGarbled == garbled = {}

\* ExpirePaths erases by id, yet no hop is taken out of the map before it
\* expires and left behind undeleted, as long as no commit message has come
\* twice: the leak of a doubled message is real and excepted here.
OnlyDuplicatesLeak ==
    \A r \in Relays : \A h \in transit[r] :
      h.ids = {h.txID, h.rxID} \/ (h.ids = {} /\ copies > 0)

\* Without a lost or late message a path over routers that allow transit is
\* built, confirmed and carries a latency test up and down.
BuildSucceeds ==
    \A p \in PathIds :
      (path[p].status = "building" /\ \A i \in Idx : path[p].hops[i] \notin NoTransit)
        ~> (path[p].latency = "measured" \/ p \in late)

\* Nothing of a path stays for ever: the client lets it go, and no router
\* finds it any more.
PathIsForgotten ==
    \A p \in PathIds :
      path[p].status = "building" ~>
        /\ path[p].status = "gone"
        /\ \A r \in Relays : \A h \in transit[r] : h.p = p => h.ids = {}
=============================================================================
