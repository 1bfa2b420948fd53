---------------------------- MODULE Paths_proofs ----------------------------
(***************************************************************************)
(* Proofs about Paths, for any number of relays, hops and paths, and for   *)
(* any number of messages that are lost, late or come twice.               *)
(*                                                                         *)
(* Every message, job and transit hop is tied to a path q and a place i on *)
(* it: Route holds the routers next to it, its ids and the layers it still *)
(* has to lose.  Ids find the right hop because routers next to each other *)
(* on a path differ.  Grown says that a path is there as far as a message  *)
(* of it has come, Once that without duplicates it got there once.         *)
(***************************************************************************)
EXTENDS Paths, NatLemmas, FiniteSetTheorems, SequenceTheorems, TLAPS

-----------------------------------------------------------------------------
(* The inductive invariant *)

Started == {q \in PathIds : path[q].status \in {"building", "established", "gone"}}

Held(q) == path[q].status \in {"building", "established"}

Live(q) == Held(q) /\ path[q].age <= Lifetime

IsRoute(hops) ==
    hops \in [Idx -> Relays] /\ \A i \in Idx \ {0} : hops[i] # hops[i - 1]

Below(hops, i) == IF i = 0 THEN Client ELSE hops[i - 1]

\* The keys of hop i and of the hops behind it.
Keys(q, i) == {shared(q, k) : k \in i..(NumHops - 1)}

CommitFrame(q, hops, k) ==
    IF k <= NumHops
    THEN EncryptInPlace(hops[k - 1], LR_CommitRecord(q, hops, k - 1)) ELSE Junk

\* What hop i gets of the frames: its own comes first.
CommitFrames(q, hops, i) == [k \in 1..MaxHops |-> CommitFrame(q, hops, k + i)]

CommitAt(q, hops, i, n) ==
    LRCM(q, Below(hops, i), hops[i], CommitFrames(q, hops, i), n)

UpAt(q, hops, i) ==
    RelayMsg("LRUM", q, Below(hops, i), hops[i], IF i = 0 THEN <<q, 1>> ELSE <<q, i>>,
             Keys(q, i), "test", 0)

DownAt(q, hops, i, body, n) ==
    RelayMsg("LRDM", q, hops[i], Below(hops, i), <<q, i>>, Keys(q, i), body, n)

\* The place of the hop a commit message is for.
Place(m) == m.frames[1].record.rxid[2]

CommitOK(m) ==
    /\ m.type = "LRCM" /\ m.p \in Started /\ Place(m) \in Idx /\ m.n \in 0..copies
    /\ m = CommitAt(m.p, path[m.p].hops, Place(m), m.n)

UpOK(m) ==
    m.type = "LRUM" /\ m.p \in Started /\ \E i \in Idx : m = UpAt(m.p, path[m.p].hops, i)

DownOK(m) ==
    /\ m.type = "LRDM" /\ m.p \in Started
    /\ \E i \in Idx, b \in {"confirm", "answer"}, n \in 0..MaxCopies :
         m = DownAt(m.p, path[m.p].hops, i, b, n)

JobOK(j) ==
    /\ CommitOK(j.msg)
    /\ \E pc \in {"decrypt", "accept", "send"} :
         j = [at |-> j.msg.to, msg |-> j.msg, pc |-> pc]

HopOK(r, h) ==
    LET i == h.rxID[2]
        hops == path[h.p].hops
    IN /\ h \in TransitHop
       /\ h.p \in Started /\ i \in Idx /\ r = hops[i]
       /\ h.rxID = <<h.p, i>> /\ h.txID = <<h.p, i + 1>> /\ h.key = shared(h.p, i)
       /\ h.upstream = Upstream(hops, i) /\ h.downstream = Below(hops, i)
       /\ h.ids \in {{}, {<<h.p, i>>, <<h.p, i + 1>>}}

\* What the client holds.
Own ==
    /\ known \subseteq Relays /\ IsFiniteSet(known)
    /\ builds \in Nat /\ (builds > 0 => Cardinality(known) > 2)
    /\ path \in [PathIds -> Path] /\ late \subseteq PathIds /\ copies \in 0..MaxCopies
    /\ \A p \in PathIds : path[p].status # "none" => IsRoute(path[p].hops)

\* Everything on its way belongs to a place on a path.
Route ==
    /\ \A m \in net : CommitOK(m) \/ UpOK(m) \/ DownOK(m)
    /\ \A j \in work : JobOK(j)
    /\ \A r \in Relays : \A h \in transit[r] : HopOK(r, h)
    /\ DOMAIN transit = Relays

\* No hop is older than the path of the client.
Age == \A r \in Relays : \A h \in transit[r] : Held(h.p) => h.age <= path[h.p].age

\* The hops before place i hold the path.
Whole(q, i) ==
    \A k \in 0..(i - 1) :
      \E h \in transit[path[q].hops[k]] : h.rxID = <<q, k>> /\ h.ids # {}

\* The place a job has reached.
Reached(j) == IF j.pc = "send" THEN Place(j.msg) + 1 ELSE Place(j.msg)

\* A path that has not expired is whole as far as anything of it has come.
Grown ==
    /\ \A m \in net : Live(m.p) => IF m.type = "LRCM" THEN Whole(m.p, Place(m))
                                                      ELSE Whole(m.p, NumHops)
    /\ \A j \in work : Live(j.msg.p) => Whole(j.msg.p, Reached(j))
    /\ \A q \in PathIds :
         (path[q].status = "established" /\ Live(q)) => Whole(q, NumHops)

\* Without duplicates one commit message or job at most is under way for a
\* path, all hops of the path are behind it, and no hop has a twin.
Once ==
    copies = 0 =>
      /\ \A m1, m2 \in net :
           (m1.type = "LRCM" /\ m2.type = "LRCM" /\ m1.p = m2.p) => m1 = m2
      /\ \A j1, j2 \in work : j1.msg.p = j2.msg.p => j1 = j2
      /\ \A m \in net, j \in work : m.type = "LRCM" => m.p # j.msg.p
      /\ \A r \in Relays : \A h \in transit[r] :
           /\ \A m \in net : (m.type = "LRCM" /\ m.p = h.p) => h.rxID[2] < Place(m)
           /\ \A j \in work : j.msg.p = h.p => h.rxID[2] < Reached(j)
           /\ \A g \in transit[r] : g.rxID = h.rxID => g = h
           /\ h.ids # {}

IInv == Own /\ Route /\ Age /\ Grown /\ Once /\ NothingGarbled

-----------------------------------------------------------------------------
(* Places, frames and layers *)

LEMMA Sizes ==
    /\ NumHops \in Nat /\ NumHops >= 1 /\ MaxHops \in Nat /\ MaxHops >= NumHops
    /\ Lifetime \in Nat /\ BuildTimeout \in Nat /\ BuildTimeout <= Lifetime
    /\ MaxCopies \in Nat /\ MaxPaths \in Nat
    /\ 0 \in Idx /\ NumHops - 1 \in Idx /\ Idx \subseteq Nat /\ PathIds \subseteq Nat
BY PathsAssumption DEF Idx, PathIds

\* Every hop is known by its own number and the next.
LEMMA TxIsNext ==
    ASSUME NEW q, NEW i \in Idx
    PROVE  txID(q, i) = <<q, i + 1>>
BY Sizes DEF txID, rxID, Idx

LEMMA CommitFields ==
    ASSUME NEW q, NEW hops, NEW i, NEW n, NEW m, m = CommitAt(q, hops, i, n)
    PROVE  /\ m.type = "LRCM" /\ m.p = q /\ m.n = n
           /\ m.from = Below(hops, i) /\ m.to = hops[i]
           /\ m.frames = CommitFrames(q, hops, i)
BY DEF CommitAt, LRCM

\* The hop a commit message is for finds its record in the first frame.
LEMMA CommitRecord ==
    ASSUME NEW q, NEW hops, NEW i \in Idx, NEW n, NEW m, m = CommitAt(q, hops, i, n)
    PROVE  m.frames[1] = EncryptInPlace(hops[i], LR_CommitRecord(q, hops, i))
<1>1. m.frames = CommitFrames(q, hops, i)
  BY CommitFields
<1>2. CommitFrames(q, hops, i)[1] = CommitFrame(q, hops, 1 + i)
  BY Sizes DEF CommitFrames
<1>3. 1 + i <= NumHops /\ (1 + i) - 1 = i
  BY Sizes DEF Idx
<1>4. CommitFrame(q, hops, 1 + i) = EncryptInPlace(hops[i], LR_CommitRecord(q, hops, i))
  BY <1>3 DEF CommitFrame
<1> QED
  BY <1>1, <1>2, <1>4

LEMMA CommitPlace ==
    ASSUME NEW q, NEW hops, NEW i \in Idx, NEW n, NEW m, m = CommitAt(q, hops, i, n)
    PROVE  Place(m) = i
<1>1. m.frames[1].record = LR_CommitRecord(q, hops, i)
  <2>1. m.frames[1] = EncryptInPlace(hops[i], LR_CommitRecord(q, hops, i))
    BY CommitRecord
  <2> QED BY <2>1 DEF EncryptInPlace
<1> QED
  BY <1>1 DEF LR_CommitRecord, rxID, Place

\* Taking a frame off and adding junk gives the next hop its frames.
LEMMA FramesShift ==
    ASSUME NEW q, NEW hops, NEW i \in Idx, i < NumHops - 1
    PROVE  Append(Tail(CommitFrames(q, hops, i)), Junk) = CommitFrames(q, hops, i + 1)
<1> DEFINE F == CommitFrames(q, hops, i)
           S == {CommitFrame(q, hops, k) : k \in Nat}
<1>1. F \in [1..MaxHops -> S]
  BY Sizes DEF CommitFrames
<1>2. F \in Seq(S) /\ Len(F) = MaxHops
  BY <1>1, Sizes
<1>3. /\ Tail(F) \in Seq(S) /\ Len(Tail(F)) = MaxHops - 1
      /\ \A k \in 1..(MaxHops - 1) : Tail(F)[k] = F[k + 1]
  <2> HIDE DEF F
  <2> QED BY <1>2, Sizes
<1>4. /\ Append(Tail(F), Junk) \in Seq(S \cup {Junk})
      /\ Len(Append(Tail(F), Junk)) = MaxHops
      /\ \A k \in 1..(MaxHops - 1) : Append(Tail(F), Junk)[k] = F[k + 1]
      /\ Append(Tail(F), Junk)[MaxHops] = Junk
  <2> HIDE DEF F
  <2> QED BY <1>3, Sizes
<1>5. \A k \in 1..(MaxHops - 1) : F[k + 1] = CommitFrame(q, hops, k + (i + 1))
  <2> TAKE k \in 1..(MaxHops - 1)
  <2>1. F[k + 1] = CommitFrame(q, hops, (k + 1) + i)
    BY Sizes DEF CommitFrames
  <2>2. (k + 1) + i = k + (i + 1)
    BY Sizes
  <2> QED BY <2>1, <2>2
<1>6. CommitFrame(q, hops, MaxHops + (i + 1)) = Junk
  BY Sizes DEF CommitFrame
<1>7. Append(Tail(F), Junk) = CommitFrames(q, hops, i + 1)
  <2> HIDE DEF F
  <2>1. \A k \in 1..MaxHops : Append(Tail(F), Junk)[k] = CommitFrame(q, hops, k + (i + 1))
    BY <1>4, <1>5, <1>6, Sizes
  <2>2. CommitFrames(q, hops, i + 1) \in Seq(S \cup {Junk})
        /\ Len(CommitFrames(q, hops, i + 1)) = MaxHops
    BY Sizes DEF CommitFrames
  <2>3. \A k \in 1..MaxHops : CommitFrames(q, hops, i + 1)[k] = Append(Tail(F), Junk)[k]
    BY <2>1 DEF CommitFrames
  <2> HIDE DEF S
  <2> QED BY <1>4, <2>2, <2>3, SeqEqual
<1> QED
  BY <1>7

\* The client puts on or takes off all layers, the last hop the last one.
LEMMA Layers ==
    ASSUME NEW q
    PROVE  /\ xchacha20({}, AllKeys(q)) = Keys(q, 0)
           /\ xchacha20(Keys(q, 0), AllKeys(q)) = {}
           /\ xchacha20({}, {shared(q, NumHops - 1)}) = Keys(q, NumHops - 1)
           /\ xchacha20(Keys(q, NumHops - 1), {shared(q, NumHops - 1)}) = {}
<1>1. AllKeys(q) = Keys(q, 0)
  BY DEF AllKeys, Keys, Idx
<1>2. Keys(q, NumHops - 1) = {shared(q, NumHops - 1)}
  BY Sizes DEF Keys
<1> QED
  BY <1>1, <1>2 DEF xchacha20

\* Each hop before takes off or puts on its own.
LEMMA OneLayer ==
    ASSUME NEW q, NEW i \in Idx, i < NumHops - 1
    PROVE  /\ xchacha20(Keys(q, i), {shared(q, i)}) = Keys(q, i + 1)
           /\ xchacha20(Keys(q, i + 1), {shared(q, i)}) = Keys(q, i)
<1>1. Keys(q, i) = Keys(q, i + 1) \cup {shared(q, i)} /\ shared(q, i) \notin Keys(q, i + 1)
  BY Sizes DEF Keys, shared, Idx
<1> QED
  BY <1>1 DEF xchacha20

-----------------------------------------------------------------------------
(* What stays as it is *)

\* The routers of a path do not change, so what belongs to a place on it goes
\* on doing so.
LEMMA PlacesKept ==
    ASSUME Own, copies' \in Nat, copies <= copies',
           \A q \in Started : q \in Started' /\ path'[q].hops = path[q].hops
    PROVE  /\ \A m : CommitOK(m) => CommitOK(m)'
           /\ \A m : UpOK(m) => UpOK(m)'
           /\ \A m : DownOK(m) => DownOK(m)'
           /\ \A j : JobOK(j) => JobOK(j)'
           /\ \A r, h : HopOK(r, h) => HopOK(r, h)'
<1>1. copies \in Nat
  BY Sizes DEF Own
<1>2. ASSUME NEW m, CommitOK(m) PROVE CommitOK(m)'
  BY <1>1, <1>2 DEF CommitOK
<1>3. ASSUME NEW m, UpOK(m) PROVE UpOK(m)'
  BY <1>3 DEF UpOK
<1>4. ASSUME NEW m, DownOK(m) PROVE DownOK(m)'
  BY <1>4 DEF DownOK
<1>5. ASSUME NEW j, JobOK(j) PROVE JobOK(j)'
  BY <1>2, <1>5 DEF JobOK
<1>6. ASSUME NEW r, NEW h, HopOK(r, h) PROVE HopOK(r, h)'
  BY <1>6 DEF HopOK
<1> QED
  BY <1>2, <1>3, <1>4, <1>5, <1>6

\* A path stays whole if none of its hops is lost.
LEMMA WholeKept ==
    ASSUME Own, NEW q \in Started, NEW i \in 0..NumHops, path'[q].hops = path[q].hops,
           \A k \in Idx : \A h \in transit[path[q].hops[k]] :
             (h.rxID = <<q, k>> /\ h.ids # {}) =>
               \E g \in transit'[path[q].hops[k]] : g.rxID = <<q, k>> /\ g.ids # {},
           Whole(q, i)
    PROVE  Whole(q, i)'
<1>1. \A k \in 0..(i - 1) : k \in Idx
  BY Sizes DEF Idx
<1> QED
  BY <1>1 DEF Whole

\* Where a message of the network stands.
LEMMA MessageKinds ==
    ASSUME Own, Route, NEW m \in net
    PROVE  /\ m.p \in Started /\ m.p \in PathIds
           /\ m.type \in {"LRCM", "LRUM", "LRDM"}
           /\ m.type = "LRCM" => CommitOK(m)
           /\ m.type = "LRUM" => UpOK(m)
           /\ m.type = "LRDM" => DownOK(m)
BY DEF Route, CommitOK, UpOK, DownOK, Started

LEMMA JobFields ==
    ASSUME NEW j, JobOK(j)
    PROVE  /\ j.msg.p \in Started /\ j.msg.p \in PathIds /\ Place(j.msg) \in Idx
           /\ j.at = path[j.msg.p].hops[Place(j.msg)] /\ j.at = j.msg.to
           /\ j.msg.from = Below(path[j.msg.p].hops, Place(j.msg))
           /\ j.msg.n \in 0..copies
           /\ j.pc \in {"decrypt", "accept", "send"}
           /\ Reached(j) \in 0..NumHops
           /\ Record(j) = LR_CommitRecord(j.msg.p, path[j.msg.p].hops, Place(j.msg))
<1> DEFINE q == j.msg.p
           i == Place(j.msg)
<1>1. /\ q \in Started /\ i \in Idx /\ j.msg.n \in 0..copies
      /\ j.msg = CommitAt(q, path[q].hops, i, j.msg.n)
  BY DEF JobOK, CommitOK
<1>2. /\ j.at = j.msg.to /\ j.pc \in {"decrypt", "accept", "send"}
  BY DEF JobOK
<1>3. /\ j.msg.to = path[q].hops[i] /\ j.msg.from = Below(path[q].hops, i)
      /\ j.msg.frames[1] = EncryptInPlace(path[q].hops[i], LR_CommitRecord(q, path[q].hops, i))
  <2> HIDE DEF q, i
  <2> QED BY <1>1, CommitFields, CommitRecord
<1>4. Record(j) = LR_CommitRecord(q, path[q].hops, i)
  BY <1>3 DEF Record, EncryptInPlace
<1>5. Reached(j) \in 0..NumHops
  BY <1>1, Sizes DEF Reached, Idx
<1> QED
  BY <1>1, <1>2, <1>3, <1>4, <1>5 DEF Started

-----------------------------------------------------------------------------
(* Ids find the hop they were made for *)

LEMMA Routes ==
    ASSUME Own, NEW q \in Started
    PROVE  /\ q \in PathIds /\ path[q].hops \in [Idx -> Relays]
           /\ \A i \in Idx \ {0} : path[q].hops[i] # path[q].hops[i - 1]
           /\ \A i \in Idx : path[q].hops[i] \in Relays /\ path[q].hops[i] # Client
BY PathsAssumption DEF Own, Started, IsRoute

\* An id of place k on path q belongs to the hops at k and before k, which
\* are at different routers.
LEMMA HopOfId ==
    ASSUME Own, Route, NEW r \in Relays, NEW q, NEW k, NEW h \in transit[r], <<q, k>> \in h.ids
    PROVE  /\ HopOK(r, h) /\ h.p = q /\ q \in Started /\ h.rxID[2] \in Idx
           /\ h.rxID = <<q, h.rxID[2]>> /\ r = path[q].hops[h.rxID[2]]
           /\ h.rxID[2] = k \/ h.rxID[2] + 1 = k
<1>1. HopOK(r, h)
  BY DEF Route
<1>2. <<q, k>> \in {<<h.p, h.rxID[2]>>, <<h.p, h.rxID[2] + 1>>}
  BY <1>1 DEF HopOK
<1> QED
  BY <1>1, <1>2 DEF HopOK

LEMMA FoundByDownstream ==
    ASSUME Own, Route, NEW m, NEW i \in Idx, m.p \in Started,
           m = UpAt(m.p, path[m.p].hops, i),
           NEW h \in GetByDownstream(m.to, m.from, m.id)
    PROVE  HopOK(m.to, h) /\ h.p = m.p /\ h.rxID[2] = i
<1> DEFINE q == m.p
           hops == path[q].hops
<1>1. /\ m.to = hops[i] /\ m.from = Below(hops, i)
      /\ m.id = IF i = 0 THEN <<q, 1>> ELSE <<q, i>>
  BY DEF UpAt, RelayMsg
<1>2. m.to \in Relays
  BY <1>1, Routes
<1>3. h \in transit[m.to] /\ m.id \in h.ids /\ h.downstream = m.from
  BY DEF GetByDownstream, TransitGet
<1>4. h.rxID[2] \in Idx /\ HopOK(m.to, h) /\ h.p = q /\ m.to = hops[h.rxID[2]]
      /\ h.downstream = Below(hops, h.rxID[2])
  BY <1>1, <1>2, <1>3, HopOfId DEF HopOK
<1>5. CASE i = 0
  <2>1. h.rxID[2] = 1 \/ h.rxID[2] + 1 = 1
    BY <1>1, <1>2, <1>3, <1>5, HopOfId
  <2>2. h.rxID[2] # 1
    <3> SUFFICES ASSUME h.rxID[2] = 1 PROVE FALSE
      OBVIOUS
    <3>1. h.downstream = hops[0] /\ m.from = Client
      BY <1>1, <1>4, <1>5 DEF Below
    <3> QED
      BY <1>3, <3>1, Routes, Sizes
  <2> QED BY <2>1, <2>2, <1>4, <1>5, Sizes DEF Idx
<1>6. CASE i # 0
  <2>1. h.rxID[2] = i \/ h.rxID[2] + 1 = i
    BY <1>1, <1>2, <1>3, <1>6, HopOfId
  <2>2. h.rxID[2] + 1 # i
    <3> SUFFICES ASSUME h.rxID[2] + 1 = i PROVE FALSE
      OBVIOUS
    <3>1. h.rxID[2] = i - 1
      BY <1>4, Sizes DEF Idx
    <3> QED
      BY <1>1, <1>4, <1>6, <3>1, Routes
  <2> QED BY <2>1, <2>2, <1>4
<1> QED
  BY <1>5, <1>6

LEMMA FoundByUpstream ==
    ASSUME Own, Route, NEW m, NEW i \in Idx, NEW b, NEW n, m.p \in Started,
           m = DownAt(m.p, path[m.p].hops, i, b, n), m.to # Client,
           NEW h \in GetByUpstream(m.to, m.from, m.id)
    PROVE  HopOK(m.to, h) /\ h.p = m.p /\ i # 0 /\ h.rxID[2] = i - 1
<1> DEFINE q == m.p
           hops == path[q].hops
<1>1. /\ m.to = Below(hops, i) /\ m.from = hops[i] /\ m.id = <<q, i>>
  BY DEF DownAt, RelayMsg
<1>2. i # 0 /\ m.to = hops[i - 1] /\ i - 1 \in Idx
  BY <1>1, Sizes DEF Below, Idx
<1>3. m.to \in Relays
  BY <1>2, Routes
<1>4. h \in transit[m.to] /\ m.id \in h.ids
  BY DEF GetByUpstream, TransitGet
<1>5. /\ HopOK(m.to, h) /\ h.p = q /\ h.rxID[2] \in Idx /\ m.to = hops[h.rxID[2]]
      /\ h.rxID[2] = i \/ h.rxID[2] + 1 = i
  BY <1>1, <1>3, <1>4, HopOfId
<1>6. h.rxID[2] # i
  BY <1>2, <1>5, Routes
<1> QED
  BY <1>2, <1>5, <1>6, Sizes DEF Idx

\* The message a hop sends down.
LEMMA SentDown ==
    ASSUME NEW r, NEW h, HopOK(r, h), NEW body \in {"confirm", "answer"}, NEW layers,
           xchacha20(layers, {h.key}) = Keys(h.p, h.rxID[2])
    PROVE  /\ SendDownstream(r, h, layers, body).p = h.p
           /\ SendDownstream(r, h, layers, body).type = "LRDM"
           /\ DownOK(SendDownstream(r, h, layers, body))
<1> DEFINE m == SendDownstream(r, h, layers, body)
<1>1. m.p = h.p /\ m.type = "LRDM"
  BY DEF SendDownstream, RelayMsg
<1>2. m = DownAt(h.p, path[h.p].hops, h.rxID[2], body, h.n)
  BY DEF SendDownstream, RelayMsg, DownAt, HopOK
<1>3. h.n \in 0..MaxCopies /\ h.rxID[2] \in Idx /\ h.p \in Started
  BY DEF HopOK, TransitHop
<1> HIDE DEF m
<1>4. DownOK(m)
  BY <1>1, <1>2, <1>3 DEF DownOK
<1> QED
  BY <1>1, <1>4 DEF m

-----------------------------------------------------------------------------
(* Steps that leave the relays alone *)

\* A step of the client or of a message on a path that has been built: relays
\* and jobs keep what they have, no path that has been let go comes back, and
\* a new message belongs to a path that is whole.
LEMMA RelaysRest ==
    ASSUME IInv, Own', NothingGarbled', UNCHANGED <<copies, transit, work>>,
           \A q \in Started :
             /\ q \in Started' /\ path'[q].hops = path[q].hops
             /\ Held(q)' => Held(q) /\ path'[q].age = path[q].age,
           \A q \in PathIds :
             path'[q].status = "established" => q \in Started /\ (Live(q) => Whole(q, NumHops)),
           \A m \in net' :
             \/ m \in net
             \/ /\ m.p \in Started /\ m.type # "LRCM" /\ (UpOK(m)' \/ DownOK(m)')
                /\ Live(m.p) => Whole(m.p, NumHops)
    PROVE  IInv'
<1> USE DEF IInv
<1>1. copies \in Nat
  BY Sizes DEF Own
<1>2. /\ \A m : CommitOK(m) => CommitOK(m)'
      /\ \A m : UpOK(m) => UpOK(m)'
      /\ \A m : DownOK(m) => DownOK(m)'
      /\ \A j : JobOK(j) => JobOK(j)'
      /\ \A r, h : HopOK(r, h) => HopOK(r, h)'
  BY <1>1, PlacesKept
<1>3. Route'
  BY <1>2 DEF Route
<1>4. Age'
  <2> SUFFICES ASSUME NEW r \in Relays, NEW h \in transit[r], Held(h.p)'
               PROVE  h.age <= path'[h.p].age
    BY DEF Age
  <2>1. h.p \in Started
    BY DEF Route, HopOK
  <2> QED
    BY <2>1 DEF Age
<1>5. ASSUME NEW q \in Started, NEW i \in 0..NumHops, Whole(q, i)
      PROVE  Whole(q, i)'
  BY <1>5, WholeKept
<1>6. \A q \in Started : Live(q)' => Live(q)
  BY DEF Live
<1>7. Grown'
  <2>1. ASSUME NEW m \in net', Live(m.p)'
        PROVE  IF m.type = "LRCM" THEN Whole(m.p, Place(m))' ELSE Whole(m.p, NumHops)'
    <3>1. CASE m \in net
      <4>1. m.p \in Started /\ (m.type = "LRCM" => Place(m) \in 0..NumHops)
        BY <3>1, MessageKinds, Sizes DEF CommitOK, Idx
      <4>2. IF m.type = "LRCM" THEN Whole(m.p, Place(m)) ELSE Whole(m.p, NumHops)
        BY <2>1, <3>1, <4>1, <1>6 DEF Grown
      <4> QED BY <4>1, <4>2, <1>5, Sizes
    <3>2. CASE m \notin net
      BY <2>1, <3>2, <1>5, <1>6, Sizes
    <3> QED BY <3>1, <3>2
  <2>2. ASSUME NEW j \in work, Live(j.msg.p)'
        PROVE  Whole(j.msg.p, Reached(j))'
    <3>1. j.msg.p \in Started /\ Reached(j) \in 0..NumHops
      BY JobFields DEF Route
    <3> QED BY <2>2, <3>1, <1>5, <1>6 DEF Grown
  <2>3. ASSUME NEW q \in PathIds, path'[q].status = "established", Live(q)'
        PROVE  Whole(q, NumHops)'
    BY <2>3, <1>5, <1>6, Sizes
  <2> QED
    BY <2>1, <2>2, <2>3 DEF Grown
<1>8. Once'
  BY DEF Once
<1> QED
  BY <1>3, <1>4, <1>7, <1>8

\* What a step that only moves messages has to show.
LEMMA OnlyMessages ==
    ASSUME IInv, UNCHANGED <<known, builds, path, work, transit, copies>>,
           late' \subseteq PathIds, NothingGarbled',
           \A m \in net' :
             \/ m \in net
             \/ /\ m.p \in Started /\ m.type # "LRCM" /\ (UpOK(m) \/ DownOK(m))
                /\ Live(m.p) => Whole(m.p, NumHops)
    PROVE  IInv'
<1>1. Own'
  BY DEF IInv, Own
<1>2. \A q \in PathIds :
        path'[q].status = "established" => q \in Started /\ (Live(q) => Whole(q, NumHops))
  BY DEF IInv, Grown, Started
<1>3. \A m : (UpOK(m) => UpOK(m)') /\ (DownOK(m) => DownOK(m)')
  BY DEF UpOK, DownOK, Started
<1>4. Started' = Started /\ \A q : Held(q)' <=> Held(q)
  BY DEF Started, Held
<1> QED
  BY <1>1, <1>2, <1>3, <1>4, RelaysRest DEF Started

-----------------------------------------------------------------------------
(* The client *)

LEMMA PutRCKeeps ==
    ASSUME IInv, NEW r \in Relays, PutRC(r)
    PROVE  IInv'
<1>1. IsFiniteSet(known) /\ known \subseteq Relays
  BY DEF IInv, Own
<1>2. IsFiniteSet(known') /\ Cardinality(known') = Cardinality(known) + 1
  BY <1>1, FS_AddElement DEF PutRC
<1>3. Cardinality(known) \in Nat
  BY <1>1, FS_CardinalityType
<1>4. Own'
  BY <1>1, <1>2, <1>3 DEF IInv, Own, PutRC
<1>5. \A q \in PathIds :
        path'[q].status = "established" => q \in Started /\ (Live(q) => Whole(q, NumHops))
  BY DEF IInv, Grown, Started, PutRC
<1>6. Started' = Started /\ \A q : Held(q)' <=> Held(q)
  BY DEF Started, Held, PutRC
<1> QED
  BY <1>4, <1>5, <1>6, RelaysRest DEF PutRC, IInv, NothingGarbled

LEMMA TickClientKeeps ==
    ASSUME IInv, TickClient
    PROVE  IInv'
<1>1. path \in [PathIds -> Path]
  BY DEF IInv, Own
<1>2. ASSUME NEW q \in PathIds
      PROVE  /\ path'[q] \in Path /\ path'[q].hops = path[q].hops
             /\ \/ path'[q] = path[q]
                \/ Held(q) /\ path'[q].status = "gone"
  <2>1. path[q] \in Path
    BY <1>1
  <2>2. CASE q \in m_Paths /\ PathExpired(path[q])
    <3>1. path'[q] = [path[q] EXCEPT !.status = "gone", !.age = 0]
      BY <2>2 DEF TickClient, ExpireOwnPaths
    <3>2. Held(q)
      BY <2>2 DEF m_Paths, Held
    <3>3. 0 \in 0..(Lifetime + 1)
      BY Sizes
    <3>4. path'[q] \in Path /\ path'[q].status = "gone" /\ path'[q].hops = path[q].hops
      BY <2>1, <3>1, <3>3 DEF Path
    <3> QED BY <3>2, <3>4
  <2>3. CASE ~(q \in m_Paths /\ PathExpired(path[q]))
    BY <2>1, <2>3 DEF TickClient, ExpireOwnPaths
  <2> QED BY <2>2, <2>3
<1>3. path' \in [PathIds -> Path]
  BY <1>2 DEF TickClient, ExpireOwnPaths
<1>4. builds' \in Nat /\ (builds' > 0 => Cardinality(known) > 2)
  BY DEF IInv, Own, TickClient, BuildPaths, BuildOne
<1>5. Own'
  BY <1>2, <1>3, <1>4 DEF IInv, Own, TickClient, Held
<1>6. \A q \in PathIds :
        path'[q].status = "established" => q \in Started /\ (Live(q) => Whole(q, NumHops))
  BY <1>2 DEF IInv, Grown, Started
<1>7. \A q \in Started :
        /\ q \in Started' /\ path'[q].hops = path[q].hops
        /\ Held(q)' => Held(q) /\ path'[q].age = path[q].age
  BY <1>2 DEF Started, Held
<1> QED
  BY <1>5, <1>6, <1>7, RelaysRest DEF TickClient, IInv, NothingGarbled

LEMMA StartBuildKeeps ==
    ASSUME IInv, pathbuilder_start_build
    PROVE  IInv'
<1>1. PICK hops \in SelectRandomHops :
        LET p == CHOOSE q \in Unused : \A o \in Unused : q <= o
        IN path' = [path EXCEPT ![p].status = "keys", ![p].hops = hops]
  BY DEF pathbuilder_start_build
<1>2. PICK p : p = CHOOSE q \in Unused : \A o \in Unused : q <= o
  OBVIOUS
<1>3. p \in Unused
  <2>1. Unused \in SUBSET Nat /\ Unused # {}
    BY Sizes DEF pathbuilder_start_build, Unused
  <2> QED BY <1>2, <2>1, LeastNat
<1>4. p \in PathIds /\ path[p].status = "none" /\ path \in [PathIds -> Path] /\ path[p] \in Path
  BY <1>3 DEF Unused, IInv, Own
<1>5. IsRoute(hops)
  BY DEF SelectRandomHops, IInv, Own, IsRoute
<1>6. path' = [path EXCEPT ![p].status = "keys", ![p].hops = hops]
  BY <1>1, <1>2
<1>7. /\ path' \in [PathIds -> Path] /\ path'[p].hops = hops /\ path'[p].status = "keys"
      /\ \A q \in PathIds \ {p} : path'[q] = path[q]
  BY <1>4, <1>5, <1>6 DEF IsRoute, Path
<1>8. Own'
  <2>1. builds' \in Nat /\ (builds' > 0 => Cardinality(known) > 2)
    BY DEF IInv, Own, pathbuilder_start_build
  <2> QED BY <1>5, <1>7, <2>1 DEF IInv, Own, pathbuilder_start_build
<1>9. \A q \in PathIds :
        path'[q].status = "established" => q \in Started /\ (Live(q) => Whole(q, NumHops))
  BY <1>7 DEF IInv, Grown, Started
<1>10. \A q \in Started :
        /\ q \in Started' /\ path'[q].hops = path[q].hops
        /\ Held(q)' => Held(q) /\ path'[q].age = path[q].age
  BY <1>4, <1>7 DEF Started, Held
<1> QED
  BY <1>8, <1>9, <1>10, RelaysRest DEF pathbuilder_start_build, IInv, NothingGarbled

LEMMA NextKeyKeeps ==
    ASSUME IInv, NEW p \in PathIds, GenerateNextKey(p)
    PROVE  IInv'
<1>1. path \in [PathIds -> Path] /\ path[p] \in Path /\ path[p].status = "keys"
  BY DEF IInv, Own, GenerateNextKey
<1>2. path[p].idx + 1 \in 0..NumHops
  BY <1>1, Sizes DEF Path, GenerateNextKey
<1>3. /\ path' \in [PathIds -> Path] /\ path'[p].hops = path[p].hops /\ path'[p].status = "keys"
      /\ \A q \in PathIds \ {p} : path'[q] = path[q]
  BY <1>1, <1>2 DEF Path, GenerateNextKey
<1>4. Own'
  BY <1>1, <1>3 DEF IInv, Own, GenerateNextKey
<1>5. \A q \in PathIds :
        path'[q].status = "established" => q \in Started /\ (Live(q) => Whole(q, NumHops))
  BY <1>3 DEF IInv, Grown, Started
<1>6. \A q \in Started :
        /\ q \in Started' /\ path'[q].hops = path[q].hops
        /\ Held(q)' => Held(q) /\ path'[q].age = path[q].age
  BY <1>1, <1>3 DEF Started, Held
<1> QED
  BY <1>4, <1>5, <1>6, RelaysRest DEF GenerateNextKey, IInv, NothingGarbled

\* A message for the client is of the path it is found under, has come down
\* all of it, and can be read.
LEMMA ClientFinds ==
    ASSUME IInv, NEW m \in net, m.type = "LRDM", NEW p \in OwnByUpstream(m.from, m.id)
    PROVE  m.p = p /\ p \in Started /\ ClientReads(m, p) /\ m.body \in {"confirm", "answer"}
<1>1. m.p \in Started /\ DownOK(m)
  BY MessageKinds DEF IInv
<1>2. PICK i \in Idx, b \in {"confirm", "answer"}, n \in 0..MaxCopies :
        m = DownAt(m.p, path[m.p].hops, i, b, n)
  BY <1>1 DEF DownOK
<1>3. m.id = <<m.p, i>> /\ m.layers = Keys(m.p, i) /\ m.body = b
  BY <1>2 DEF DownAt, RelayMsg
<1>4. m.id = <<p, 0>>
  BY DEF OwnByUpstream, rxID
<1>5. m.p = p /\ i = 0
  BY <1>3, <1>4
<1>6. xchacha20(m.layers, AllKeys(p)) = {}
  BY <1>3, <1>5, Layers
<1> QED
  BY <1>1, <1>2, <1>3, <1>5, <1>6 DEF ClientReads

LEMMA ConfirmKeeps ==
    ASSUME IInv, NEW m \in net, HandlePathConfirm(m)
    PROVE  IInv'
<1>1. PICK p \in OwnByUpstream(m.from, m.id) :
        /\ path[p].status = "building"
        /\ path' = [path EXCEPT ![p].status = "established", ![p].latency = "asked"]
        /\ net' = (net \ {m}) \cup {SendUpstream(p, "test")}
  BY DEF HandlePathConfirm
<1>2. m.type = "LRDM"
  BY DEF HandlePathConfirm
<1>3. m.p = p /\ p \in Started /\ p \in PathIds
  BY <1>2, ClientFinds DEF Started
<1>4. Live(p) => Whole(p, NumHops)
  BY <1>2, <1>3 DEF IInv, Grown
<1>5. path \in [PathIds -> Path] /\ path[p] \in Path
  BY <1>3 DEF IInv, Own
<1>6. /\ path' \in [PathIds -> Path] /\ path'[p].hops = path[p].hops
      /\ path'[p].status = "established" /\ path'[p].age = path[p].age
      /\ \A q \in PathIds \ {p} : path'[q] = path[q]
  BY <1>1, <1>3, <1>5 DEF Path
<1>7. Own'
  BY <1>1, <1>6 DEF IInv, Own, HandlePathConfirm
<1>8. \A q \in PathIds :
        path'[q].status = "established" => q \in Started /\ (Live(q) => Whole(q, NumHops))
  BY <1>3, <1>4, <1>6 DEF IInv, Grown, Started
<1>9. \A q \in Started :
        /\ q \in Started' /\ path'[q].hops = path[q].hops
        /\ Held(q)' => Held(q) /\ path'[q].age = path[q].age
  BY <1>1, <1>6 DEF Started, Held
<1>10. PICK up : up = SendUpstream(p, "test")
  OBVIOUS
<1>11. up = UpAt(p, path[p].hops, 0) /\ up.p = p /\ up.type = "LRUM"
  <2>1. txID(p, 0) = <<p, 1>>
    BY TxIsNext, Sizes
  <2> QED
    BY <1>10, <2>1, Layers DEF SendUpstream, UpAt, Below, RelayMsg
<1>12. UpOK(up)'
  BY <1>3, <1>6, <1>9, <1>11, Sizes DEF UpOK
<1>13. \A x \in net' : \/ x \in net
                       \/ /\ x.p \in Started /\ x.type # "LRCM" /\ (UpOK(x)' \/ DownOK(x)')
                          /\ Live(x.p) => Whole(x.p, NumHops)
  BY <1>1, <1>3, <1>4, <1>10, <1>11, <1>12
<1> QED
  BY <1>7, <1>8, <1>9, <1>13, RelaysRest DEF HandlePathConfirm, IInv, NothingGarbled

LEMMA LatencyKeeps ==
    ASSUME IInv, NEW m \in net, HandlePathLatency(m)
    PROVE  IInv'
<1>1. PICK p \in OwnByUpstream(m.from, m.id) : path' = [path EXCEPT ![p].latency = "measured"]
  BY DEF HandlePathLatency
<1>2. p \in PathIds
  BY DEF OwnByUpstream, m_Paths
<1>3. path \in [PathIds -> Path] /\ path[p] \in Path
  BY <1>2 DEF IInv, Own
<1>4. /\ path' \in [PathIds -> Path]
      /\ \A q \in PathIds : /\ path'[q].hops = path[q].hops /\ path'[q].age = path[q].age
                            /\ path'[q].status = path[q].status
  BY <1>1, <1>2, <1>3 DEF Path
<1>5. Own'
  BY <1>4 DEF IInv, Own, HandlePathLatency
<1>6. \A q \in PathIds :
        path'[q].status = "established" => q \in Started /\ (Live(q) => Whole(q, NumHops))
  BY <1>4 DEF IInv, Grown, Started
<1>7. \A q \in Started :
        /\ q \in Started' /\ path'[q].hops = path[q].hops
        /\ Held(q)' => Held(q) /\ path'[q].age = path[q].age
  BY <1>4 DEF Started, Held
<1> QED
  BY <1>5, <1>6, <1>7, RelaysRest DEF HandlePathLatency, IInv, NothingGarbled

LEMMA DropKeeps ==
    ASSUME IInv, NEW m \in net, DropDownstream(m)
    PROVE  IInv'
<1>1. \A p \in OwnByUpstream(m.from, m.id) : ClientReads(m, p)
  BY ClientFinds DEF DropDownstream
<1>2. garbled' = {}
  BY <1>1 DEF DropDownstream, IInv, NothingGarbled
<1>3. late' \subseteq PathIds
  BY DEF DropDownstream, IInv, Own
<1> QED
  BY <1>2, <1>3, OnlyMessages DEF DropDownstream, NothingGarbled

LEMMA LoseKeeps ==
    ASSUME IInv, NEW m \in net, Lose(m)
    PROVE  IInv'
<1>1. late' \subseteq PathIds
  BY MessageKinds DEF Lose, IInv, Own
<1> QED
  BY <1>1, OnlyMessages DEF Lose, IInv, NothingGarbled

-----------------------------------------------------------------------------
(* Relaying *)

LEMMA RecvLRUMKeeps ==
    ASSUME IInv, NEW m \in net, RecvLRUM(m)
    PROVE  IInv'
<1>1. m.type = "LRUM" /\ m.p \in Started /\ UpOK(m)
  BY MessageKinds DEF IInv, RecvLRUM
<1>2. Live(m.p) => Whole(m.p, NumHops)
  BY <1>1 DEF IInv, Grown
<1>3. PICK i \in Idx : m = UpAt(m.p, path[m.p].hops, i)
  BY <1>1 DEF UpOK
<1> DEFINE q == m.p
           hops == path[q].hops
<1>4. m.to = hops[i] /\ m.layers = Keys(q, i) /\ m.body = "test" /\ m.n = 0
  BY <1>3 DEF UpAt, RelayMsg
<1>5. late' \subseteq PathIds
  BY DEF IInv, Own, RecvLRUM
<1>6. CASE net' = net \ {m} /\ UNCHANGED garbled
  BY <1>5, <1>6, OnlyMessages DEF RecvLRUM, IInv, NothingGarbled
<1>7. ASSUME NEW h \in GetByDownstream(m.to, m.from, m.id), h.upstream # m.to,
             net' = (net \ {m}) \cup {RelayUpstream(m, h, xchacha20(m.layers, {h.key}))},
             UNCHANGED garbled
      PROVE  IInv'
  <2>1. HopOK(m.to, h) /\ h.p = q /\ h.rxID[2] = i
    BY <1>1, <1>3, FoundByDownstream DEF IInv
  <2>2. /\ h.key = shared(q, i) /\ h.upstream = Upstream(hops, i) /\ h.txID = <<q, i + 1>>
    BY <2>1 DEF HopOK
  <2>3. i < NumHops - 1 /\ i + 1 \in Idx /\ h.upstream = hops[i + 1]
    BY <1>4, <1>7, <2>2, Sizes DEF Upstream, Idx
  <2>4. xchacha20(m.layers, {h.key}) = Keys(q, i + 1)
    BY <1>4, <2>2, <2>3, OneLayer
  <2>5. PICK up : up = RelayUpstream(m, h, xchacha20(m.layers, {h.key}))
    OBVIOUS
  <2>6. up.p = q /\ up.type = "LRUM" /\ up = UpAt(q, hops, i + 1)
    <3>1. i + 1 # 0 /\ (i + 1) - 1 = i
      BY Sizes DEF Idx
    <3> QED
      BY <1>4, <2>1, <2>2, <2>3, <2>4, <2>5, <3>1 DEF RelayUpstream, RelayMsg, UpAt, Below
  <2>7. UpOK(up)
    BY <1>1, <2>3, <2>6 DEF UpOK
  <2> QED
    BY <1>1, <1>2, <1>5, <1>7, <2>5, <2>6, <2>7, OnlyMessages DEF RecvLRUM, IInv, NothingGarbled
<1>8. ASSUME NEW h \in GetByDownstream(m.to, m.from, m.id), h.upstream = m.to,
             net' = (net \ {m}) \cup AnswerLatency(m.to, h, xchacha20(m.layers, {h.key})),
             garbled' = IF xchacha20(m.layers, {h.key}) = {} THEN garbled ELSE garbled \cup {m}
      PROVE  IInv'
  <2>1. HopOK(m.to, h) /\ h.p = q /\ h.rxID[2] = i
    BY <1>1, <1>3, FoundByDownstream DEF IInv
  <2>2. h.key = shared(q, i) /\ h.upstream = Upstream(hops, i)
    BY <2>1 DEF HopOK
  <2>3. i = NumHops - 1
    <3> SUFFICES ASSUME i # NumHops - 1 PROVE FALSE
      OBVIOUS
    <3>1. i + 1 \in Idx \ {0} /\ (i + 1) - 1 = i
      BY Sizes DEF Idx
    <3> QED
      BY <1>1, <1>4, <1>8, <2>2, <3>1, Routes DEF Upstream, IInv
  <2>4. xchacha20(m.layers, {h.key}) = {}
    BY <1>4, <2>2, <2>3, Layers
  <2>5. garbled' = {}
    BY <1>8, <2>4 DEF IInv, NothingGarbled
  <2>6. PICK down : down = SendDownstream(m.to, h, {}, "answer")
    OBVIOUS
  <2>7. xchacha20({}, {h.key}) = Keys(h.p, h.rxID[2])
    BY <2>1, <2>2, <2>3, Layers
  <2>8. down.p = q /\ down.type = "LRDM" /\ DownOK(down)
    BY <2>1, <2>6, <2>7, SentDown
  <2>9. net' = (net \ {m}) \cup {down}
    BY <1>8, <2>4, <2>6 DEF AnswerLatency
  <2> QED
    BY <1>1, <1>2, <1>5, <2>5, <2>8, <2>9, OnlyMessages DEF RecvLRUM, NothingGarbled
<1> QED
  BY <1>6, <1>7, <1>8 DEF RecvLRUM

LEMMA RecvLRDMKeeps ==
    ASSUME IInv, NEW m \in net, RecvLRDM(m)
    PROVE  IInv'
<1>1. m.type = "LRDM" /\ m.to # Client /\ m.p \in Started /\ DownOK(m)
  BY MessageKinds DEF IInv, RecvLRDM
<1>2. Live(m.p) => Whole(m.p, NumHops)
  BY <1>1 DEF IInv, Grown
<1>3. PICK i \in Idx, b \in {"confirm", "answer"}, n \in 0..MaxCopies :
        m = DownAt(m.p, path[m.p].hops, i, b, n)
  BY <1>1 DEF DownOK
<1>4. m.layers = Keys(m.p, i) /\ m.body = b
  BY <1>3 DEF DownAt, RelayMsg
<1>5. late' \subseteq PathIds
  BY DEF IInv, Own, RecvLRDM
<1>6. CASE net' = net \ {m}
  BY <1>5, <1>6, OnlyMessages DEF RecvLRDM, IInv, NothingGarbled
<1>7. ASSUME NEW h \in GetByUpstream(m.to, m.from, m.id),
             net' = (net \ {m}) \cup {SendDownstream(m.to, h, m.layers, m.body)}
      PROVE  IInv'
  <2>1. HopOK(m.to, h) /\ h.p = m.p /\ i # 0 /\ h.rxID[2] = i - 1
    BY <1>1, <1>3, FoundByUpstream DEF IInv
  <2>2. h.key = shared(m.p, i - 1)
    BY <2>1 DEF HopOK
  <2>3. i - 1 \in Idx /\ i - 1 < NumHops - 1 /\ (i - 1) + 1 = i
    BY <2>1, Sizes DEF Idx
  <2>4. xchacha20(m.layers, {h.key}) = Keys(h.p, h.rxID[2])
    <3>1. xchacha20(Keys(m.p, (i - 1) + 1), {shared(m.p, i - 1)}) = Keys(m.p, i - 1)
      BY <2>3, OneLayer
    <3> QED
      BY <1>4, <2>1, <2>2, <2>3, <3>1
  <2>5. PICK down : down = SendDownstream(m.to, h, m.layers, m.body)
    OBVIOUS
  <2>6. down.p = m.p /\ down.type = "LRDM" /\ DownOK(down)
    BY <1>4, <2>1, <2>4, <2>5, SentDown
  <2> QED
    BY <1>1, <1>2, <1>5, <1>7, <2>5, <2>6, OnlyMessages DEF RecvLRDM, IInv, NothingGarbled
<1> QED
  BY <1>6, <1>7 DEF RecvLRDM

-----------------------------------------------------------------------------
(* Commit messages *)

\* What a step that only moves messages and jobs has to show.
LEMMA OnlyJobs ==
    ASSUME IInv, UNCHANGED <<known, builds, path, transit, garbled, copies, late>>,
           \A m \in net' :
             \/ m \in net
             \/ /\ CommitOK(m) \/ DownOK(m)
                /\ Live(m.p) => IF m.type = "LRCM" THEN Whole(m.p, Place(m))
                                                   ELSE Whole(m.p, NumHops),
           \A j \in work' :
             j \in work \/ (JobOK(j) /\ (Live(j.msg.p) => Whole(j.msg.p, Reached(j)))),
           Once'
    PROVE  IInv'
<1>1. Own' /\ NothingGarbled' /\ Age'
  BY DEF IInv, Own, NothingGarbled, Age, Held
<1>2. /\ \A m : CommitOK(m)' <=> CommitOK(m)
      /\ \A m : UpOK(m)' <=> UpOK(m)
      /\ \A m : DownOK(m)' <=> DownOK(m)
      /\ \A r, h : HopOK(r, h)' <=> HopOK(r, h)
  BY DEF CommitOK, UpOK, DownOK, HopOK, Started
<1>3. \A j : JobOK(j)' <=> JobOK(j)
  BY <1>2 DEF JobOK
<1>4. Route'
  BY <1>2, <1>3 DEF IInv, Route
<1>5. \A q, i : (Whole(q, i)' <=> Whole(q, i)) /\ (Live(q)' <=> Live(q))
  BY DEF Whole, Live, Held
<1>6. Grown'
  BY <1>5 DEF IInv, Grown
<1> QED
  BY <1>1, <1>4, <1>6 DEF IInv

LEMMA RecvLRCMKeeps ==
    ASSUME IInv, NEW m \in net, RecvLRCM(m)
    PROVE  IInv'
<1>1. m.type = "LRCM" /\ CommitOK(m)
  BY MessageKinds DEF IInv, RecvLRCM
<1>2. PICK j : j = [at |-> m.to, msg |-> m, pc |-> "decrypt"]
  OBVIOUS
<1>3. /\ JobOK(j) /\ j.msg = m /\ Reached(j) = Place(m)
  BY <1>1, <1>2 DEF JobOK, Reached
<1>4. net' = net \ {m} /\ work' \subseteq work \cup {j}
  BY <1>2 DEF RecvLRCM, AsyncDecrypt
<1>5. Live(j.msg.p) => Whole(j.msg.p, Reached(j))
  BY <1>1, <1>3 DEF IInv, Grown
<1>6. UNCHANGED <<transit, copies>>
  BY DEF RecvLRCM
<1>7. Once'
  BY <1>1, <1>3, <1>4, <1>6 DEF IInv, Once
<1> QED
  BY <1>3, <1>4, <1>5, <1>7, OnlyJobs DEF RecvLRCM

LEMMA DecryptKeeps ==
    ASSUME IInv, NEW j \in work, DecryptFrame(j)
    PROVE  IInv'
<1>1. JobOK(j)
  BY DEF IInv, Route
<1>2. PICK k : k = [j EXCEPT !.pc = "accept"]
  OBVIOUS
<1>3. JobOK(k) /\ k.msg = j.msg /\ Reached(k) = Reached(j)
  BY <1>1, <1>2 DEF JobOK, Reached, DecryptFrame
<1>4. work' \subseteq (work \ {j}) \cup {k}
  BY <1>2 DEF DecryptFrame
<1>5. Live(k.msg.p) => Whole(k.msg.p, Reached(k))
  BY <1>3 DEF IInv, Grown
<1>6. UNCHANGED <<net, transit, copies>>
  BY DEF DecryptFrame
<1>7. Once'
  BY <1>3, <1>4, <1>6 DEF IInv, Once
<1> QED
  BY <1>3, <1>4, <1>5, <1>7, OnlyJobs DEF DecryptFrame

\* The hop that is put into the map.
LEMMA NewHopFields ==
    ASSUME Own, NEW j, JobOK(j)
    PROVE  /\ HopOK(j.at, NewHop(j)) /\ NewHop(j).p = j.msg.p /\ NewHop(j).age = 0
           /\ NewHop(j).rxID = <<j.msg.p, Place(j.msg)>> /\ NewHop(j).ids # {}
           /\ NewHop(j).rxID[2] = Place(j.msg)
           /\ NewHop(j).key = shared(j.msg.p, Place(j.msg))
           /\ Info(j).upstream = Upstream(path[j.msg.p].hops, Place(j.msg))
<1>1. PICK q, i, hops : q = j.msg.p /\ i = Place(j.msg) /\ hops = path[q].hops
  OBVIOUS
<1>2. /\ q \in Started /\ q \in PathIds /\ i \in Idx /\ j.at = hops[i]
      /\ j.msg.from = Below(hops, i) /\ j.msg.n \in 0..copies
      /\ Record(j) = LR_CommitRecord(q, hops, i)
  BY <1>1, JobFields
<1>3. txID(q, i) = <<q, i + 1>> /\ rxID(q, i) = <<q, i>> /\ shared(q, i) = <<q, i>>
  BY <1>2, TxIsNext DEF rxID, shared
<1>4. Info(j) = [txID |-> <<q, i + 1>>, rxID |-> <<q, i>>,
                 upstream |-> Upstream(hops, i), downstream |-> Below(hops, i)]
  BY <1>2, <1>3 DEF Info, TransitHopInfo, LR_CommitRecord
<1>5. PICK n : n = j.msg.n
  OBVIOUS
<1>6. NewHop(j) = [txID |-> <<q, i + 1>>, rxID |-> <<q, i>>,
                   upstream |-> Upstream(hops, i), downstream |-> Below(hops, i),
                   key |-> <<q, i>>, age |-> 0, n |-> n, p |-> q,
                   ids |-> {<<q, i + 1>>, <<q, i>>}]
  BY <1>1, <1>2, <1>3, <1>4, <1>5 DEF NewHop, LR_CommitRecord
<1>7. Upstream(hops, i) \in Relays /\ Below(hops, i) \in Relays \cup {Client}
  <2>1. hops \in [Idx -> Relays]
    BY <1>1, <1>2, Routes
  <2>2. i # NumHops - 1 => i + 1 \in Idx
    BY <1>2, Sizes DEF Idx
  <2>3. i # 0 => i - 1 \in Idx
    BY <1>2, Sizes DEF Idx
  <2> QED BY <1>2, <2>1, <2>2, <2>3 DEF Upstream, Below
<1>8. n \in 0..MaxCopies /\ 0 \in 0..(Lifetime + 1)
  BY <1>2, <1>5, Sizes DEF Own
<1>9. <<q, i>> \in Ids /\ <<q, i + 1>> \in Ids
  <2>1. i \in 0..NumHops /\ i + 1 \in 0..NumHops
    BY <1>2, Sizes DEF Idx
  <2> QED BY <1>2, <2>1 DEF Ids
<1>10. NewHop(j) \in TransitHop
  BY <1>2, <1>6, <1>7, <1>8, <1>9 DEF TransitHop
<1>11. HopOK(j.at, NewHop(j))
  BY <1>1, <1>2, <1>3, <1>6, <1>10 DEF HopOK
<1> QED
  BY <1>1, <1>3, <1>4, <1>6, <1>11

LEMMA AcceptKeeps ==
    ASSUME IInv, NEW j \in work, AcceptTransitHop(j)
    PROVE  IInv'
<1>1. JobOK(j) /\ Own /\ j.pc = "accept"
  BY DEF IInv, Route, AcceptTransitHop
<1>2. PICK new, r : new = NewHop(j) /\ r = j.at
  OBVIOUS
<1>3. PICK q, i : q = j.msg.p /\ i = Place(j.msg)
  OBVIOUS
<1>4. /\ HopOK(r, new) /\ new.p = q /\ new.age = 0 /\ new.rxID = <<q, i>> /\ new.ids # {}
      /\ new.rxID[2] = i
  BY <1>1, <1>2, <1>3, NewHopFields
<1>5. /\ q \in Started /\ q \in PathIds /\ i \in Idx /\ r = path[q].hops[i] /\ Reached(j) = i
  BY <1>1, <1>2, <1>3, JobFields DEF Reached
<1>6. PICK k : k = [j EXCEPT !.pc = "send"]
  OBVIOUS
<1>7. JobOK(k) /\ k.msg = j.msg /\ Reached(k) = i + 1
  BY <1>1, <1>3, <1>6 DEF JobOK, Reached
<1>8. work' = (work \ {j}) \cup {k}
  BY <1>6 DEF AcceptTransitHop
<1>9. r \in Relays /\ DOMAIN transit = Relays
  BY <1>5, Routes DEF IInv, Route
<1>10. /\ DOMAIN transit' = Relays /\ transit'[r] = transit[r] \cup {new}
       /\ \A s \in Relays \ {r} : transit'[s] = transit[s]
  BY <1>2, <1>9 DEF AcceptTransitHop, PutTransitHop
<1>11. UNCHANGED <<known, builds, path, net, garbled, copies, late>>
  BY DEF AcceptTransitHop
<1>12. Own' /\ NothingGarbled'
  BY <1>11 DEF IInv, Own, NothingGarbled
<1>13. /\ \A m : CommitOK(m)' <=> CommitOK(m)
       /\ \A m : UpOK(m)' <=> UpOK(m)
       /\ \A m : DownOK(m)' <=> DownOK(m)
       /\ \A s, h : HopOK(s, h)' <=> HopOK(s, h)
  BY <1>11 DEF CommitOK, UpOK, DownOK, HopOK, Started
<1>14. \A x : JobOK(x)' <=> JobOK(x)
  BY <1>13 DEF JobOK
<1>15. Route'
  <2>1. \A s \in Relays : \A h \in transit'[s] : HopOK(s, h)'
    BY <1>4, <1>9, <1>10, <1>13 DEF IInv, Route
  <2>2. \A x \in work' : JobOK(x)'
    BY <1>7, <1>8, <1>14 DEF IInv, Route
  <2>3. \A m \in net' : (CommitOK(m) \/ UpOK(m) \/ DownOK(m))'
    BY <1>11, <1>13 DEF IInv, Route
  <2> QED
    BY <1>10, <2>1, <2>2, <2>3 DEF Route
<1>16. Age'
  <2>1. path[q].age >= 0
    BY <1>5 DEF IInv, Own, Path
  <2>2. ASSUME NEW s \in Relays, NEW h \in transit'[s], Held(h.p)' PROVE h.age <= path'[h.p].age
    <3>1. Held(h.p)
      BY <2>2, <1>11 DEF Held
    <3> QED BY <1>4, <1>10, <1>11, <2>1, <3>1 DEF IInv, Age
  <2> QED BY <2>2 DEF Age
<1>17. \A p, l : (Whole(p, l) => Whole(p, l)') /\ (Live(p)' <=> Live(p))
  <2>1. \A s : transit[s] \subseteq transit'[s]
    BY <1>9, <1>2 DEF AcceptTransitHop, PutTransitHop
  <2> QED BY <1>11, <2>1 DEF Whole, Live, Held
<1>18. Live(q) => Whole(q, i + 1)'
  <2> SUFFICES ASSUME Live(q) PROVE Whole(q, i + 1)'
    OBVIOUS
  <2>1. Whole(q, i)'
    BY <1>3, <1>5, <1>17 DEF IInv, Grown
  <2>2. \E h \in transit'[path'[q].hops[i]] : h.rxID = <<q, i>> /\ h.ids # {}
    BY <1>4, <1>5, <1>10, <1>11
  <2>3. \A l \in 0..((i + 1) - 1) : l = i \/ l \in 0..(i - 1)
    BY <1>5, Sizes DEF Idx
  <2> QED BY <2>1, <2>2, <2>3 DEF Whole
<1>19. Grown'
  <2>1. \A m \in net' : Live(m.p)' => IF m.type = "LRCM" THEN Whole(m.p, Place(m))'
                                                         ELSE Whole(m.p, NumHops)'
    BY <1>11, <1>17 DEF IInv, Grown
  <2>2. \A x \in work' : Live(x.msg.p)' => Whole(x.msg.p, Reached(x))'
    BY <1>3, <1>7, <1>8, <1>17, <1>18 DEF IInv, Grown
  <2>3. \A p \in PathIds :
          (path'[p].status = "established" /\ Live(p)') => Whole(p, NumHops)'
    BY <1>11, <1>17 DEF IInv, Grown
  <2> QED BY <2>1, <2>2, <2>3 DEF Grown
<1>20. Once'
  <2> SUFFICES ASSUME copies = 0 PROVE Once'
    BY <1>11 DEF Once
  <2>1. \A h \in transit[r] : h.p = q => h.rxID[2] < i
    BY <1>3, <1>5, <1>9 DEF IInv, Once
  <2>2. \A s \in Relays : \A h \in transit[s] : h.p = q => h.rxID[2] < i
    BY <1>3, <1>5, <1>9 DEF IInv, Once
  <2>3. \A s \in Relays : \A h \in transit[s] : h.rxID = <<h.p, h.rxID[2]>> /\ h.rxID[2] \in Idx
    BY DEF IInv, Route, HopOK
  <2>4. \A h \in transit[r] : h.rxID # new.rxID
    BY <1>4, <1>9, <2>1, <2>3, <1>5, Sizes DEF Idx
  <2>5. /\ \A m1, m2 \in net' :
             (m1.type = "LRCM" /\ m2.type = "LRCM" /\ m1.p = m2.p) => m1 = m2
        /\ \A j1, j2 \in work' : j1.msg.p = j2.msg.p => j1 = j2
        /\ \A m \in net', x \in work' : m.type = "LRCM" => m.p # x.msg.p
    BY <1>7, <1>8, <1>11 DEF IInv, Once
  <2>6. ASSUME NEW s \in Relays, NEW h \in transit'[s]
        PROVE  /\ \A m \in net' : (m.type = "LRCM" /\ m.p = h.p) => h.rxID[2] < Place(m)
               /\ h.ids # {}
               /\ \A g \in transit'[s] : g.rxID = h.rxID => g = h
    <3>1. \A m \in net' : m.type = "LRCM" => m.p # q
      BY <1>3, <1>11 DEF IInv, Once
    <3>2. \A m \in net' : (m.type = "LRCM" /\ m.p = h.p) => h.rxID[2] < Place(m)
      BY <1>4, <1>10, <1>11, <3>1 DEF IInv, Once
    <3>3. h.ids # {}
      BY <1>4, <1>10 DEF IInv, Once
    <3>4. \A g \in transit'[s] : g.rxID = h.rxID => g = h
      BY <1>10, <2>4 DEF IInv, Once
    <3> QED BY <3>2, <3>3, <3>4
  <2>7. ASSUME NEW s \in Relays, NEW h \in transit'[s], NEW x \in work', x.msg.p = h.p
        PROVE  h.rxID[2] < Reached(x)
    <3>1. h = new \/ h \in transit[s]
      BY <1>10
    <3>2. CASE x = k
      BY <1>3, <1>4, <1>5, <1>7, <2>2, <2>3, <2>7, <3>1, <3>2, Sizes DEF Idx
    <3>3. CASE x # k
      <4>1. x \in work /\ x.msg.p # q
        BY <1>3, <1>8, <3>3 DEF IInv, Once
      <4> QED BY <1>4, <2>7, <3>1, <4>1 DEF IInv, Once
    <3> QED BY <3>2, <3>3
  <2> QED
    BY <2>5, <2>6, <2>7 DEF Once
<1> QED
  BY <1>12, <1>15, <1>16, <1>19, <1>20 DEF IInv

LEMMA SendPathConfirmKeeps ==
    ASSUME IInv, NEW j \in work, SendPathConfirm(j)
    PROVE  IInv'
<1>1. JobOK(j) /\ Own /\ j.pc = "send"
  BY DEF IInv, Route, SendPathConfirm
<1>2. PICK q, i, hops : q = j.msg.p /\ i = Place(j.msg) /\ hops = path[q].hops
  OBVIOUS
<1>3. /\ q \in Started /\ i \in Idx /\ j.at = hops[i]
      /\ HopOK(j.at, NewHop(j)) /\ NewHop(j).p = q /\ NewHop(j).rxID[2] = i
      /\ NewHop(j).key = shared(q, i) /\ Info(j).upstream = Upstream(hops, i)
  BY <1>1, <1>2, JobFields, NewHopFields
<1>4. i = NumHops - 1
  <2> SUFFICES ASSUME i # NumHops - 1 PROVE FALSE
    OBVIOUS
  <2>1. i + 1 \in Idx \ {0} /\ (i + 1) - 1 = i
    BY <1>3, Sizes DEF Idx
  <2> QED
    BY <1>1, <1>2, <1>3, <2>1, Routes DEF Upstream, SendPathConfirm, HopIsUs
<1>5. xchacha20({}, {NewHop(j).key}) = Keys(NewHop(j).p, NewHop(j).rxID[2])
  BY <1>3, <1>4, Layers
<1>6. PICK down : down = SendDownstream(j.at, NewHop(j), {}, "confirm")
  OBVIOUS
<1>7. down.p = q /\ down.type = "LRDM" /\ DownOK(down)
  BY <1>3, <1>5, <1>6, SentDown
<1>8. Reached(j) = NumHops
  BY <1>1, <1>2, <1>4, Sizes DEF Reached
<1>9. Live(q) => Whole(q, NumHops)
  BY <1>2, <1>8 DEF IInv, Grown
<1>10. net' = net \cup {down} /\ work' = work \ {j} /\ UNCHANGED <<transit, copies>>
  BY <1>6 DEF SendPathConfirm
<1>11. Once'
  BY <1>7, <1>10 DEF IInv, Once
<1> QED
  BY <1>7, <1>9, <1>10, <1>11, OnlyJobs DEF SendPathConfirm

LEMMA SendLRCMKeeps ==
    ASSUME IInv, NEW j \in work, SendLRCM(j)
    PROVE  IInv'
<1>1. JobOK(j) /\ Own /\ j.pc = "send"
  BY DEF IInv, Route, SendLRCM
<1>2. PICK q, i, hops, n : q = j.msg.p /\ i = Place(j.msg) /\ hops = path[q].hops /\ n = j.msg.n
  OBVIOUS
<1>3. /\ q \in Started /\ i \in Idx /\ j.at = hops[i] /\ n \in 0..copies
      /\ Info(j).upstream = Upstream(hops, i)
      /\ j.msg = CommitAt(q, hops, i, n)
  BY <1>1, <1>2, JobFields, NewHopFields DEF JobOK, CommitOK
<1>4. i < NumHops - 1 /\ i + 1 \in Idx /\ Info(j).upstream = hops[i + 1]
  <2>1. i # NumHops - 1
    BY <1>3 DEF Upstream, SendLRCM, HopIsUs
  <2> QED
    BY <1>3, <2>1, Sizes DEF Idx, Upstream
<1>5. j.msg.frames = CommitFrames(q, hops, i)
  BY <1>3, CommitFields
<1>6. PICK m : m = ForwardLRCM(j)
  OBVIOUS
<1>7. m = CommitAt(q, hops, i + 1, n)
  <2>1. Below(hops, i + 1) = hops[i]
    BY <1>3, Sizes DEF Below, Idx
  <2>2. Append(Tail(j.msg.frames), Junk) = CommitFrames(q, hops, i + 1)
    BY <1>3, <1>4, <1>5, FramesShift
  <2> QED
    BY <1>2, <1>3, <1>4, <1>6, <2>1, <2>2 DEF ForwardLRCM, CommitAt
<1>8. m.type = "LRCM" /\ m.p = q /\ m.n = n /\ Place(m) = i + 1
  BY <1>4, <1>7, CommitFields, CommitPlace
<1>9. CommitOK(m)
  BY <1>2, <1>3, <1>4, <1>7, <1>8 DEF CommitOK
<1>10. Reached(j) = i + 1
  BY <1>1, <1>2 DEF Reached
<1>11. Live(q) => Whole(q, Place(m))
  BY <1>2, <1>8, <1>10 DEF IInv, Grown
<1>12. net' = net \cup {m} /\ work' = work \ {j} /\ UNCHANGED <<transit, copies>>
  BY <1>6 DEF SendLRCM
<1>13. Once'
  BY <1>2, <1>8, <1>10, <1>12 DEF IInv, Once
<1> QED
  BY <1>8, <1>9, <1>11, <1>12, <1>13, OnlyJobs DEF SendLRCM

LEMMA DuplicateKeeps ==
    ASSUME IInv, NEW m \in net, Duplicate(m)
    PROVE  IInv'
<1>1. m.type = "LRCM" /\ CommitOK(m)
  BY MessageKinds DEF IInv, Duplicate
<1>2. copies \in Nat /\ copies' = copies + 1 /\ copies' \in 0..MaxCopies
  BY Sizes DEF Duplicate, IInv, Own
<1>3. UNCHANGED <<known, builds, path, work, transit, garbled, late>>
  BY DEF Duplicate
<1>4. Own' /\ NothingGarbled' /\ Age' /\ Once'
  BY <1>2, <1>3 DEF IInv, Own, NothingGarbled, Age, Once, Held
<1>5. Started' = Started
  BY <1>3 DEF Started
<1>6. /\ \A x : CommitOK(x) => CommitOK(x)'
      /\ \A x : UpOK(x) => UpOK(x)'
      /\ \A x : DownOK(x) => DownOK(x)'
      /\ \A x : JobOK(x) => JobOK(x)'
      /\ \A r, h : HopOK(r, h) => HopOK(r, h)'
  BY <1>2, <1>3, <1>5, PlacesKept DEF IInv
<1>7. PICK q, i, n, c : q = m.p /\ i = Place(m) /\ n = m.n /\ c = copies'
  OBVIOUS
<1>8. PICK hops : hops = path[q].hops
  OBVIOUS
<1>9. m = CommitAt(q, hops, i, n) /\ i \in Idx /\ q \in Started
  BY <1>1, <1>7, <1>8 DEF CommitOK
<1>10. PICK d : d = [m EXCEPT !.n = copies']
  OBVIOUS
<1>11. d = CommitAt(q, hops, i, c)
  BY <1>7, <1>9, <1>10 DEF CommitAt, LRCM
<1>12. d.type = "LRCM" /\ d.p = q /\ d.n = c /\ Place(d) = i
  BY <1>9, <1>11, CommitFields, CommitPlace
<1>13. CommitOK(d)'
  <2>1. c \in 0..copies'
    BY <1>2, <1>7
  <2>2. d = CommitAt(d.p, path'[d.p].hops, Place(d), d.n)
    BY <1>3, <1>8, <1>11, <1>12
  <2> QED BY <1>5, <1>9, <1>12, <2>1, <2>2 DEF CommitOK
<1>14. net' = net \cup {d}
  BY <1>10 DEF Duplicate
<1>15. Route'
  BY <1>3, <1>6, <1>13, <1>14 DEF IInv, Route
<1>16. \A p, l : (Whole(p, l)' <=> Whole(p, l)) /\ (Live(p)' <=> Live(p))
  BY <1>3 DEF Whole, Live, Held
<1>17. Live(q) => Whole(q, Place(d))
  BY <1>1, <1>7, <1>12 DEF IInv, Grown
<1>18. Grown'
  BY <1>3, <1>12, <1>14, <1>16, <1>17 DEF IInv, Grown
<1> QED
  BY <1>4, <1>15, <1>18 DEF IInv

LEMMA GeneratedKeysKeeps ==
    ASSUME IInv, NEW p \in PathIds, pathbuilder_generated_keys(p)
    PROVE  IInv'
<1>1. PICK m, hops : m = LRCM(p, Client, path[p].hops[0], Frames(p), 0) /\ hops = path[p].hops
  OBVIOUS
<1>2. /\ path[p].status = "keys" /\ path[p].idx = NumHops
      /\ net' = net \cup {m} /\ path' = [path EXCEPT ![p].status = "building", ![p].age = 0]
      /\ UNCHANGED <<known, builds, work, transit, garbled, copies, late>>
  BY <1>1 DEF pathbuilder_generated_keys, AddOwnPath
<1>3. path \in [PathIds -> Path] /\ path[p] \in Path /\ 0 \in 0..(Lifetime + 1)
  BY Sizes DEF IInv, Own
<1>4. /\ path' \in [PathIds -> Path] /\ path'[p].hops = hops
      /\ path'[p].status = "building" /\ path'[p].age = 0
      /\ \A q \in PathIds \ {p} : path'[q] = path[q]
  BY <1>1, <1>2, <1>3 DEF Path
<1>5. Own' /\ NothingGarbled'
  BY <1>1, <1>2, <1>4 DEF IInv, Own, NothingGarbled
<1>6. p \notin Started /\ p \in Started'
  BY <1>2, <1>4 DEF Started
<1>7. \A q \in Started :
        /\ q \in Started' /\ path'[q] = path[q] /\ q # p /\ (Held(q)' <=> Held(q))
        /\ (Live(q)' <=> Live(q))
  BY <1>4, <1>6 DEF Started, Held, Live
<1>8. /\ \A x : CommitOK(x) => CommitOK(x)'
      /\ \A x : UpOK(x) => UpOK(x)'
      /\ \A x : DownOK(x) => DownOK(x)'
      /\ \A x : JobOK(x) => JobOK(x)'
      /\ \A r, h : HopOK(r, h) => HopOK(r, h)'
  <2>1. copies' \in Nat /\ copies <= copies'
    BY <1>2, Sizes DEF IInv, Own
  <2>2. \A q \in Started : q \in Started' /\ path'[q].hops = path[q].hops
    BY <1>7
  <2> QED BY <2>1, <2>2, PlacesKept DEF IInv
<1>9. m = CommitAt(p, hops, 0, 0)
  <2>1. Frames(p) = CommitFrames(p, hops, 0)
    <3>1. \A k \in 1..MaxHops : Frames(p)[k] = CommitFrame(p, hops, k + 0)
      BY <1>1, <1>2, Sizes DEF Frames, CommitFrame
    <3> QED BY <3>1 DEF Frames, CommitFrames
  <2> QED BY <1>1, <2>1 DEF CommitAt, Below
<1>10. m.type = "LRCM" /\ m.p = p /\ m.n = 0 /\ Place(m) = 0
  BY <1>9, CommitFields, CommitPlace, Sizes
<1>11. CommitOK(m)'
  <2>1. 0 \in 0..copies'
    BY <1>5, Sizes DEF Own
  <2> QED BY <1>4, <1>6, <1>9, <1>10, <2>1, Sizes DEF CommitOK
<1>12. Route'
  BY <1>2, <1>8, <1>11 DEF IInv, Route
<1>13. \A r \in Relays : \A h \in transit[r] : h.p \in Started
  BY DEF IInv, Route, HopOK
<1>14. Age'
  BY <1>2, <1>7, <1>13 DEF IInv, Age
<1>15. \A q \in Started : \A i : Whole(q, i)' <=> Whole(q, i)
  BY <1>2, <1>7 DEF Whole
<1>16. \A x \in net : x.p \in Started
  BY MessageKinds DEF IInv
<1>17. \A x \in work : x.msg.p \in Started
  BY JobFields DEF IInv, Route
<1>18. Whole(p, 0)'
  BY DEF Whole
<1>19. Grown'
  <2>1. \A x \in net' : Live(x.p)' => IF x.type = "LRCM" THEN Whole(x.p, Place(x))'
                                                         ELSE Whole(x.p, NumHops)'
    BY <1>2, <1>7, <1>10, <1>15, <1>16, <1>18 DEF IInv, Grown
  <2>2. \A x \in work' : Live(x.msg.p)' => Whole(x.msg.p, Reached(x))'
    BY <1>2, <1>7, <1>15, <1>17 DEF IInv, Grown
  <2>3. \A q \in PathIds : (path'[q].status = "established" /\ Live(q)') => Whole(q, NumHops)'
    <3> SUFFICES ASSUME NEW q \in PathIds, path'[q].status = "established", Live(q)'
                 PROVE  Whole(q, NumHops)'
      OBVIOUS
    <3>1. q # p /\ path[q].status = "established" /\ q \in Started
      BY <1>4 DEF Started
    <3> QED BY <1>7, <1>15, <3>1 DEF IInv, Grown
  <2> QED BY <2>1, <2>2, <2>3 DEF Grown
<1>20. Once'
  BY <1>2, <1>6, <1>10, <1>13, <1>16, <1>17 DEF IInv, Once
<1> QED
  BY <1>5, <1>12, <1>14, <1>19, <1>20 DEF IInv

-----------------------------------------------------------------------------
(* Expiry and time *)

OldHops(r) == {h \in transit[r] : h.ids # {} /\ HopExpired(h)}

OldIds(r) == UNION {{h.txID, h.rxID} : h \in OldHops(r)}

\* Erasing by id hits the hop at the same place on the same path, and no other.
LEMMA ErasedTogether ==
    ASSUME Own, Route, NEW r \in Relays, NEW h \in transit[r]
    PROVE  /\ (\E o \in OldHops(r) : o.rxID = h.rxID) => h.ids \ OldIds(r) = {}
           /\ (\A o \in OldHops(r) : o.rxID # h.rxID) => h.ids \ OldIds(r) = h.ids
<1>1. PICK q, i, hops : q = h.p /\ i = h.rxID[2] /\ hops = path[q].hops
  OBVIOUS
<1>2. /\ HopOK(r, h) /\ q \in Started /\ i \in Idx /\ r = hops[i]
      /\ h.rxID = <<q, i>> /\ h.txID = <<q, i + 1>> /\ h.ids \subseteq {<<q, i>>, <<q, i + 1>>}
  BY <1>1 DEF Route, HopOK
<1>3. ASSUME NEW o \in OldHops(r), o.rxID = h.rxID
      PROVE  h.ids \ OldIds(r) = {}
  <2>1. HopOK(r, o)
    BY DEF Route, OldHops
  <2>2. o.rxID = <<o.p, o.rxID[2]>> /\ o.txID = <<o.p, o.rxID[2] + 1>>
    BY <2>1 DEF HopOK
  <2>3. o.txID = <<q, i + 1>> /\ o.rxID = <<q, i>>
    BY <1>2, <1>3, <2>2
  <2>4. {<<q, i>>, <<q, i + 1>>} \subseteq OldIds(r)
    BY <2>3 DEF OldIds
  <2> QED BY <1>2, <2>4
<1>4. ASSUME \A o \in OldHops(r) : o.rxID # h.rxID
      PROVE  h.ids \ OldIds(r) = h.ids
  <2>1. ASSUME NEW o \in OldHops(r), NEW id \in {o.txID, o.rxID}, id \in {<<q, i>>, <<q, i + 1>>}
        PROVE  FALSE
    <3>1. PICK k : k = o.rxID[2]
      OBVIOUS
    <3>2. HopOK(r, o)
      BY DEF Route, OldHops
    <3>3. /\ k \in Idx /\ r = path[o.p].hops[k] /\ o.rxID = <<o.p, k>> /\ o.txID = <<o.p, k + 1>>
      BY <3>1, <3>2 DEF HopOK
    <3>4. o.p = q
      BY <2>1, <3>3
    <3>5. k # i
      BY <1>2, <1>4, <3>3, <3>4
    <3>6. k + 1 = i \/ k = i + 1
      BY <1>2, <2>1, <3>3, <3>5, Sizes DEF Idx
    <3>7. CASE k + 1 = i
      <4>1. i \in Idx \ {0} /\ k = i - 1
        BY <1>2, <3>3, <3>7, Sizes DEF Idx
      <4> QED BY <1>1, <1>2, <3>3, <3>4, <4>1, Routes
    <3>8. CASE k = i + 1
      <4>1. k \in Idx \ {0} /\ i = k - 1
        BY <1>2, <3>3, <3>8, Sizes DEF Idx
      <4> QED BY <1>1, <1>2, <3>3, <3>4, <4>1, Routes
    <3> QED BY <3>6, <3>7, <3>8
  <2>2. \A id \in OldIds(r) : id \notin {<<q, i>>, <<q, i + 1>>}
    BY <2>1 DEF OldIds
  <2> QED BY <1>2, <2>2
<1> QED
  BY <1>3, <1>4

LEMMA TickRelayKeeps ==
    ASSUME IInv, NEW r \in Relays, TickRelay(r)
    PROVE  IInv'
<1>1. UNCHANGED <<known, builds, path, work, net, garbled, copies, late>>
  BY DEF TickRelay
<1>2. /\ DOMAIN transit = Relays /\ DOMAIN transit' = Relays
      /\ transit'[r] = {[h EXCEPT !.ids = @ \ OldIds(r)] : h \in transit[r] \ OldHops(r)}
      /\ \A s \in Relays \ {r} : transit'[s] = transit[s]
  BY DEF IInv, Route, TickRelay, Expire, OldIds, OldHops
<1>3. Own' /\ NothingGarbled'
  BY <1>1 DEF IInv, Own, NothingGarbled
<1>4. /\ \A m : CommitOK(m)' <=> CommitOK(m)
      /\ \A m : UpOK(m)' <=> UpOK(m)
      /\ \A m : DownOK(m)' <=> DownOK(m)
      /\ \A s, h : HopOK(s, h)' <=> HopOK(s, h)
  BY <1>1 DEF CommitOK, UpOK, DownOK, HopOK, Started
<1>5. \A x : JobOK(x)' <=> JobOK(x)
  BY <1>4 DEF JobOK
<1>6. ASSUME NEW h \in transit[r]
      PROVE  LET g == [h EXCEPT !.ids = @ \ OldIds(r)]
             IN /\ HopOK(r, g) /\ g.p = h.p /\ g.rxID = h.rxID /\ g.age = h.age
                /\ (\A o \in OldHops(r) : o.rxID # h.rxID) => g = h
  <2>1. h \in TransitHop /\ HopOK(r, h)
    BY DEF IInv, Route, HopOK
  <2>2. PICK ids : ids = h.ids \ OldIds(r)
    OBVIOUS
  <2>3. ids = {} \/ ids = h.ids
    BY <2>2, ErasedTogether DEF IInv
  <2>4. (\A o \in OldHops(r) : o.rxID # h.rxID) => ids = h.ids
    BY <2>2, ErasedTogether DEF IInv
  <2>5. PICK g : g = [h EXCEPT !.ids = ids]
    OBVIOUS
  <2>6. /\ g \in TransitHop /\ g.ids = ids /\ g.p = h.p /\ g.rxID = h.rxID /\ g.txID = h.txID
        /\ g.key = h.key /\ g.upstream = h.upstream /\ g.downstream = h.downstream /\ g.age = h.age
        /\ ids = h.ids => g = h
    BY <2>1, <2>3, <2>5 DEF TransitHop
  <2>7. HopOK(r, g)
    BY <2>1, <2>3, <2>6 DEF HopOK
  <2> QED
    BY <2>2, <2>4, <2>5, <2>6, <2>7
<1>7. Route'
  <2>1. \A s \in Relays : \A h \in transit'[s] : HopOK(s, h)
    BY <1>2, <1>6 DEF IInv, Route
  <2>2. \A s \in Relays : \A h \in transit'[s] : HopOK(s, h)'
    BY <1>4, <2>1
  <2>3. \A m \in net' : (CommitOK(m) \/ UpOK(m) \/ DownOK(m))'
    BY <1>1, <1>4 DEF IInv, Route
  <2>4. \A x \in work' : JobOK(x)'
    BY <1>1, <1>5 DEF IInv, Route
  <2> QED BY <1>2, <2>2, <2>3, <2>4 DEF Route
<1>8. Age'
  <2>1. ASSUME NEW s \in Relays, NEW g \in transit'[s], Held(g.p) PROVE g.age <= path[g.p].age
    <3>1. PICK h \in transit[s] : g.p = h.p /\ g.age = h.age
      <4>1. CASE s = r
        <5>1. PICK h \in transit[r] \ OldHops(r) : g = [h EXCEPT !.ids = @ \ OldIds(r)]
          BY <1>2, <4>1
        <5> QED BY <1>6, <4>1, <5>1
      <4>2. CASE s # r
        BY <1>2, <4>2
      <4> QED BY <4>1, <4>2
    <3> QED BY <2>1, <3>1 DEF IInv, Age
  <2> QED BY <1>1, <2>1 DEF Age, Held
<1>9. ASSUME NEW q \in Started, Live(q), NEW i \in 0..NumHops, Whole(q, i)
      PROVE  Whole(q, i)'
  <2>1. ASSUME NEW k \in Idx, NEW h \in transit[path[q].hops[k]], h.rxID = <<q, k>>, h.ids # {}
        PROVE  h \in transit'[path[q].hops[k]]
    <3>1. PICK s : s = path[q].hops[k]
      OBVIOUS
    <3>2. s \in Relays
      BY <3>1, Routes DEF IInv
    <3>3. ASSUME NEW o \in transit[s], o.rxID = <<q, k>> PROVE ~HopExpired(o)
      <4>1. HopOK(s, o)
        BY <3>2 DEF IInv, Route
      <4>2. o.p = q /\ o.age \in Nat
        BY <3>3, <4>1, Sizes DEF HopOK, TransitHop
      <4>3. o.age <= path[q].age
        BY <1>9, <3>2, <4>2 DEF IInv, Age, Live
      <4>4. path[q].age <= Lifetime /\ path[q].age \in Nat
        <5>1. path[q] \in Path
          BY DEF IInv, Own, Started
        <5> QED BY <1>9, <5>1, Sizes DEF Live, Path
      <4> QED BY <4>2, <4>3, <4>4, Sizes DEF HopExpired
    <3>4. CASE s = r
      <4>1. h \notin OldHops(r) /\ \A o \in OldHops(r) : o.rxID # h.rxID
        BY <2>1, <3>1, <3>3, <3>4 DEF OldHops
      <4>2. [h EXCEPT !.ids = @ \ OldIds(r)] = h
        BY <1>6, <3>1, <3>4, <4>1
      <4> QED BY <1>2, <3>1, <3>4, <4>1, <4>2
    <3>5. CASE s # r
      BY <1>2, <3>1, <3>2, <3>5
    <3> QED BY <3>4, <3>5
  <2> QED BY <1>1, <1>9, <2>1, WholeKept DEF IInv
<1>10. Grown'
  <2>1. \A q : Live(q)' <=> Live(q)
    BY <1>1 DEF Live, Held
  <2>2. ASSUME NEW m \in net, Live(m.p)
        PROVE  IF m.type = "LRCM" THEN Whole(m.p, Place(m))' ELSE Whole(m.p, NumHops)'
    <3>1. m.p \in Started /\ (m.type = "LRCM" => Place(m) \in 0..NumHops) /\ NumHops \in 0..NumHops
      BY MessageKinds, Sizes DEF CommitOK, Idx, IInv
    <3> QED BY <1>9, <2>2, <3>1 DEF IInv, Grown
  <2>3. ASSUME NEW j \in work, Live(j.msg.p) PROVE Whole(j.msg.p, Reached(j))'
    <3>1. j.msg.p \in Started /\ Reached(j) \in 0..NumHops
      BY JobFields DEF IInv, Route
    <3> QED BY <1>9, <2>3, <3>1 DEF IInv, Grown
  <2>4. ASSUME NEW q \in PathIds, path[q].status = "established", Live(q) PROVE Whole(q, NumHops)'
    <3>1. q \in Started /\ NumHops \in 0..NumHops
      BY <2>4, Sizes DEF Started
    <3> QED BY <1>9, <2>4, <3>1 DEF IInv, Grown
  <2> QED BY <1>1, <2>1, <2>2, <2>3, <2>4 DEF Grown
<1>11. Once'
  <2> SUFFICES ASSUME copies = 0 PROVE Once'
    BY <1>1 DEF Once
  <2>1. \A h \in transit[r] \ OldHops(r) : \A o \in OldHops(r) : o.rxID # h.rxID
    BY DEF IInv, Once, OldHops
  <2>2. ASSUME NEW g \in transit'[r] PROVE g \in transit[r]
    <3>1. PICK h \in transit[r] \ OldHops(r) : g = [h EXCEPT !.ids = @ \ OldIds(r)]
      BY <1>2
    <3> QED BY <1>6, <2>1, <3>1
  <2>3. \A s \in Relays : transit'[s] \subseteq transit[s]
    BY <1>2, <2>2
  <2> QED BY <1>1, <2>3 DEF IInv, Once
<1> QED
  BY <1>3, <1>7, <1>8, <1>10, <1>11 DEF IInv

LEMMA OlderGrows ==
    /\ \A a \in 0..(Lifetime + 1) : Older(a) \in 0..(Lifetime + 1) /\ a <= Older(a)
    /\ \A a, b \in 0..(Lifetime + 1) : a <= b => Older(a) <= Older(b)
BY Sizes DEF Older

LEMMA AdvanceKeeps ==
    ASSUME IInv, Advance
    PROVE  IInv'
<1> DEFINE Aged(h) == IF h.ids = {} THEN h ELSE [h EXCEPT !.age = Older(@)]
<1>1. UNCHANGED <<known, builds, work, net, garbled, copies>> /\ work = {}
  BY DEF Advance
<1>2. \A r \in Relays : transit'[r] = {Aged(h) : h \in transit[r]}
  BY DEF Advance
<1>3. ASSUME NEW q \in PathIds
      PROVE  /\ path[q] \in Path /\ path'[q] \in Path
             /\ path'[q].hops = path[q].hops /\ path'[q].status = path[q].status
             /\ path'[q].age = IF Held(q) THEN Older(path[q].age) ELSE path[q].age
             /\ path[q].age <= path'[q].age
  <2>1. path[q] \in Path /\ path[q].age \in 0..(Lifetime + 1)
    BY DEF IInv, Own, Path
  <2>2. path'[q] = IF Held(q) THEN [path[q] EXCEPT !.age = Older(@)] ELSE path[q]
    BY DEF Advance, m_Paths, Held
  <2>3. Older(path[q].age) \in 0..(Lifetime + 1) /\ path[q].age <= Older(path[q].age)
    BY <2>1, OlderGrows
  <2>4. CASE Held(q)
    BY <2>1, <2>2, <2>3, <2>4 DEF Path
  <2>5. CASE ~Held(q)
    BY <2>1, <2>2, <2>5, Sizes
  <2> QED BY <2>4, <2>5
<1>4. Own' /\ NothingGarbled'
  <2>1. path' \in [PathIds -> Path]
    BY <1>3 DEF Advance
  <2>2. late' \subseteq PathIds
    BY MessageKinds DEF Advance, IInv, Own
  <2> QED BY <1>1, <1>3, <2>1, <2>2 DEF IInv, Own, NothingGarbled
<1>5. Started' = Started /\ \A q \in PathIds : Held(q)' <=> Held(q)
  BY <1>3 DEF Started, Held
<1>6. /\ \A m : CommitOK(m) => CommitOK(m)'
      /\ \A m : UpOK(m) => UpOK(m)'
      /\ \A m : DownOK(m) => DownOK(m)'
      /\ \A r, h : HopOK(r, h) => HopOK(r, h)'
  <2>1. copies' \in Nat /\ copies <= copies'
    BY <1>1, Sizes DEF IInv, Own
  <2>2. \A q \in Started : q \in Started' /\ path'[q].hops = path[q].hops
    BY <1>3, <1>5 DEF Started
  <2> QED BY <2>1, <2>2, PlacesKept DEF IInv
<1>7. ASSUME NEW r \in Relays, NEW h \in transit[r]
      PROVE  /\ HopOK(r, Aged(h)) /\ Aged(h).p = h.p /\ Aged(h).rxID = h.rxID
             /\ Aged(h).ids = h.ids
             /\ Aged(h).age = h.age \/ Aged(h).age = Older(h.age)
             /\ h.age \in 0..(Lifetime + 1) /\ h.p \in PathIds
  <2>1. HopOK(r, h) /\ h \in TransitHop /\ h.age \in 0..(Lifetime + 1) /\ h.p \in PathIds
    BY DEF IInv, Route, HopOK, TransitHop
  <2>2. PICK a : a = Older(h.age)
    OBVIOUS
  <2>3. a \in 0..(Lifetime + 1)
    BY <2>1, <2>2, OlderGrows
  <2>4. PICK g : g = [h EXCEPT !.age = a]
    OBVIOUS
  <2>5. /\ g \in TransitHop /\ g.ids = h.ids /\ g.p = h.p /\ g.rxID = h.rxID /\ g.txID = h.txID
        /\ g.key = h.key /\ g.upstream = h.upstream /\ g.downstream = h.downstream /\ g.age = a
    BY <2>1, <2>3, <2>4 DEF TransitHop
  <2>6. HopOK(r, g)
    BY <2>1, <2>5 DEF HopOK
  <2> QED
    BY <2>1, <2>2, <2>4, <2>5, <2>6
<1> HIDE DEF Aged
<1>8. Route'
  <2>1. \A r \in Relays : \A g \in transit'[r] : HopOK(r, g)'
    BY <1>2, <1>6, <1>7
  <2>2. \A m \in net' : (CommitOK(m) \/ UpOK(m) \/ DownOK(m))'
    BY <1>1, <1>6 DEF IInv, Route
  <2>3. DOMAIN transit' = Relays
    BY DEF Advance
  <2> QED BY <1>1, <2>1, <2>2, <2>3 DEF Route
<1>9. Age'
  <2> SUFFICES ASSUME NEW r \in Relays, NEW g \in transit'[r], Held(g.p)'
               PROVE  g.age <= path'[g.p].age
    BY DEF Age
  <2>1. PICK h \in transit[r] : g = Aged(h)
    BY <1>2
  <2>2. g.p = h.p /\ h.p \in PathIds /\ (g.age = h.age \/ g.age = Older(h.age))
        /\ h.age \in 0..(Lifetime + 1)
    BY <1>7, <2>1
  <2>3. Held(h.p) /\ h.age <= path[h.p].age
    BY <1>5, <2>2 DEF IInv, Age
  <2>4. path[h.p].age \in 0..(Lifetime + 1)
    BY <1>3, <2>2 DEF Path
  <2>5. path'[h.p].age = Older(path[h.p].age)
    BY <1>3, <2>2, <2>3
  <2>6. h.age <= Older(h.age) /\ Older(h.age) <= Older(path[h.p].age) /\ Older(h.age) \in Nat
        /\ Older(path[h.p].age) \in Nat
    BY <2>2, <2>3, <2>4, OlderGrows
  <2> QED BY <2>2, <2>5, <2>6
<1>10. ASSUME NEW q \in Started, NEW i \in 0..NumHops, Whole(q, i)
      PROVE  Whole(q, i)'
  <2>1. ASSUME NEW k \in Idx, NEW h \in transit[path[q].hops[k]], h.rxID = <<q, k>>, h.ids # {}
        PROVE  \E g \in transit'[path[q].hops[k]] : g.rxID = <<q, k>> /\ g.ids # {}
    <3>1. path[q].hops[k] \in Relays
      BY Routes DEF IInv
    <3>2. Aged(h) \in transit'[path[q].hops[k]]
      BY <1>2, <3>1
    <3>3. Aged(h).rxID = <<q, k>> /\ Aged(h).ids # {}
      BY <1>7, <2>1, <3>1
    <3> QED BY <3>2, <3>3
  <2>2. path'[q].hops = path[q].hops
    BY <1>3 DEF Started
  <2> QED BY <1>10, <2>1, <2>2, WholeKept DEF IInv
<1>11. \A q \in PathIds : Live(q)' => Live(q)
  <2> SUFFICES ASSUME NEW q \in PathIds, Live(q)' PROVE Live(q)
    OBVIOUS
  <2>1. path[q].age \in Nat /\ path'[q].age \in Nat
    BY <1>3, Sizes DEF Path
  <2> QED BY <1>3, <1>5, <2>1, Sizes DEF Live
<1>12. Grown'
  <2>1. ASSUME NEW m \in net, Live(m.p)'
        PROVE  IF m.type = "LRCM" THEN Whole(m.p, Place(m))' ELSE Whole(m.p, NumHops)'
    <3>1. /\ m.p \in Started /\ m.p \in PathIds /\ NumHops \in 0..NumHops
          /\ m.type = "LRCM" => Place(m) \in 0..NumHops
      BY MessageKinds, Sizes DEF CommitOK, Idx, IInv
    <3> QED BY <1>10, <1>11, <2>1, <3>1 DEF IInv, Grown
  <2>2. ASSUME NEW q \in PathIds, path'[q].status = "established", Live(q)' PROVE Whole(q, NumHops)'
    <3>1. q \in Started /\ NumHops \in 0..NumHops /\ path[q].status = "established"
      BY <1>3, <2>2, Sizes DEF Started
    <3> QED BY <1>10, <1>11, <2>2, <3>1 DEF IInv, Grown
  <2> QED BY <1>1, <2>1, <2>2 DEF Grown
<1>13. Once'
  <2> SUFFICES ASSUME copies = 0 PROVE Once'
    BY <1>1 DEF Once
  <2>1. ASSUME NEW r \in Relays, NEW g \in transit'[r]
        PROVE  /\ \A m \in net : (m.type = "LRCM" /\ m.p = g.p) => g.rxID[2] < Place(m)
               /\ \A f \in transit'[r] : f.rxID = g.rxID => f = g
               /\ g.ids # {}
    <3>1. PICK h \in transit[r] : g = Aged(h)
      BY <1>2
    <3>2. g.p = h.p /\ g.rxID = h.rxID /\ g.ids = h.ids
      BY <1>7, <3>1
    <3>3. \A m \in net : (m.type = "LRCM" /\ m.p = g.p) => g.rxID[2] < Place(m)
      BY <3>2 DEF IInv, Once
    <3>4. ASSUME NEW f \in transit'[r], f.rxID = g.rxID PROVE f = g
      <4>1. PICK e \in transit[r] : f = Aged(e)
        BY <1>2
      <4>2. e.rxID = h.rxID
        BY <1>7, <3>2, <3>4, <4>1
      <4>3. e = h
        BY <4>2 DEF IInv, Once
      <4> QED BY <3>1, <4>1, <4>3
    <3>5. g.ids # {}
      BY <3>2 DEF IInv, Once
    <3> QED BY <3>3, <3>4, <3>5
  <2>2. \A m1, m2 \in net : (m1.type = "LRCM" /\ m2.type = "LRCM" /\ m1.p = m2.p) => m1 = m2
    BY DEF IInv, Once
  <2> QED BY <1>1, <2>1, <2>2 DEF Once
<1> QED
  BY <1>4, <1>8, <1>9, <1>12, <1>13 DEF IInv

-----------------------------------------------------------------------------
(* The theorems *)

LEMMA InitIInv == Init => IInv
<1> SUFFICES ASSUME Init PROVE IInv
  OBVIOUS
<1>1. NoPath \in Path
  BY Sizes DEF NoPath, Path
<1>2. path \in [PathIds -> Path] /\ \A p \in PathIds : path[p].status = "none"
  BY <1>1 DEF Init, NoPath
<1>3. IsFiniteSet(known)
  BY FS_EmptySet DEF Init
<1>4. Own
  BY <1>2, <1>3, Sizes DEF Init, Own
<1>5. Route /\ Age /\ Once /\ NothingGarbled
  BY DEF Init, Route, Age, Once, NothingGarbled
<1>6. Grown
  BY <1>2 DEF Init, Grown
<1> QED
  BY <1>4, <1>5, <1>6 DEF IInv

LEMMA NextIInv == IInv /\ [Next]_vars => IInv'
<1> SUFFICES ASSUME IInv, [Next]_vars PROVE IInv'
  OBVIOUS
<1>1. CASE UNCHANGED vars
  <2>1. Own'
    BY <1>1 DEF vars, IInv, Own
  <2>2. late' \subseteq PathIds
    BY <1>1 DEF vars, IInv, Own
  <2> QED BY <1>1, <2>2, OnlyMessages DEF vars, IInv, NothingGarbled
<1>2. CASE ClientStep
  BY <1>2, PutRCKeeps, TickClientKeeps, StartBuildKeeps, NextKeyKeeps, GeneratedKeysKeeps
     DEF ClientStep
<1>3. CASE RelayStep
  BY <1>3, DecryptKeeps, AcceptKeeps, SendPathConfirmKeeps, SendLRCMKeeps, TickRelayKeeps
     DEF RelayStep
<1>4. CASE Receive
  BY <1>4, ConfirmKeeps, LatencyKeeps, DropKeeps, RecvLRCMKeeps, RecvLRUMKeeps, RecvLRDMKeeps
     DEF Receive
<1>5. CASE LinkStep
  BY <1>5, LoseKeeps, DuplicateKeeps DEF LinkStep
<1>6. CASE Advance
  BY <1>6, AdvanceKeeps
<1> QED
  BY <1>1, <1>2, <1>3, <1>4, <1>5, <1>6 DEF Next

\* Whatever is lost, late, reordered or sent twice, every message, LRCM job
\* and transit hop belongs to a place on a path that was built.
THEOREM InvariantHolds == Spec => []IInv
BY InitIInv, NextIInv, PTL DEF Spec

\* The path set of the client and the transit maps of the relays hold what
\* pathbuilder_start_build and PutTransitHop put there.
THEOREM TypeCorrect == Spec => []TypeOK
<1>1. IInv => TypeOK
  BY DEF IInv, Own, Route, HopOK, TypeOK
<1> QED
  BY <1>1, InvariantHolds, PTL

\* As long as the client uses a path, every router on it holds its hop: no
\* hop is older than the path, and what ExpirePaths erases by id is expired.
THEOREM PathsAreWhole == Spec => []PathIsWhole
<1>1. ASSUME IInv, NEW p \in PathIds, path[p].status = "established", ~PathExpired(path[p]),
             NEW i \in Idx
      PROVE  \E h \in transit[path[p].hops[i]] :
               /\ h.ids = {txID(p, i), rxID(p, i)} /\ h.key = shared(p, i)
               /\ h.upstream = Upstream(path[p].hops, i)
               /\ h.downstream = IF i = 0 THEN Client ELSE path[p].hops[i - 1]
  <2>1. path[p].age \in Nat /\ p \in Started
    <3>1. path[p] \in Path
      BY <1>1 DEF IInv, Own
    <3> QED BY <1>1, <3>1, Sizes DEF Path, Started
  <2>2. Live(p)
    BY <1>1, <2>1, Sizes DEF PathExpired, Live, Held
  <2>3. Whole(p, NumHops)
    BY <1>1, <2>2 DEF IInv, Grown
  <2>4. PICK h \in transit[path[p].hops[i]] : h.rxID = <<p, i>> /\ h.ids # {}
    BY <2>3 DEF Whole, Idx
  <2>5. path[p].hops[i] \in Relays
    BY <1>1, <2>1, Routes DEF IInv
  <2>6. HopOK(path[p].hops[i], h)
    BY <1>1, <2>5 DEF IInv, Route
  <2>7. h.p = p /\ h.rxID[2] = i
    BY <2>4, <2>6 DEF HopOK
  <2>8. /\ h.ids = {<<p, i>>, <<p, i + 1>>} /\ h.key = shared(p, i)
        /\ h.upstream = Upstream(path[p].hops, i) /\ h.downstream = Below(path[p].hops, i)
    BY <2>4, <2>6, <2>7 DEF HopOK
  <2>9. {txID(p, i), rxID(p, i)} = {<<p, i>>, <<p, i + 1>>}
    BY TxIsNext DEF rxID
  <2> QED
    BY <2>8, <2>9 DEF Below
<1>2. IInv => PathIsWhole
  BY <1>1 DEF PathIsWhole
<1> QED
  BY <1>2, InvariantHolds, PTL

\* The layers a routing message has are those of the hops it still has to
\* pass or has passed, so TransitHop and Path read every message for them.
THEOREM NothingIsGarbled == Spec => []NothingGarbled
<1>1. IInv => NothingGarbled
  BY DEF IInv
<1> QED
  BY <1>1, InvariantHolds, PTL

\* ExpirePaths takes a hop out of the map only to delete it, as long as no
\* commit message comes twice.
THEOREM LeaksNeedDuplicates == Spec => []OnlyDuplicatesLeak
<1>1. ASSUME IInv, NEW r \in Relays, NEW h \in transit[r]
      PROVE  h.ids = {h.txID, h.rxID} \/ (h.ids = {} /\ copies > 0)
  <2>1. HopOK(r, h) /\ copies \in Nat
    BY <1>1, Sizes DEF IInv, Route, Own
  <2>2. h.ids = {} \/ h.ids = {h.txID, h.rxID}
    BY <2>1 DEF HopOK
  <2>3. copies = 0 => h.ids # {}
    BY <1>1 DEF IInv, Once
  <2> QED BY <2>1, <2>2, <2>3
<1>2. IInv => OnlyDuplicatesLeak
  BY <1>1 DEF OnlyDuplicatesLeak
<1> QED
  BY <1>2, InvariantHolds, PTL
=============================================================================
