# TLA+ models of the uPlexa network daemon

This directory is a verification development for the overlay router in `src/udap`:
TLA+ modules translated from its C++, TLC configurations that check them on small
instances, and TLAPS proofs for instances of any size. `PROJECT.json` is the index:
it lists the components, the runs, the source lines each definition stands for, the
hazards the properties are about, and the theorems.

Contents: 1 the system, 2 modules and code, 3 runs, 4 bounds, 5 fairness,
6 proofs, 7 where code and documents disagree, 8 what holds only under conditions,
9 what is not modelled, 10 plan, 11 how to run.

## 1. The system

A router keeps encrypted UDP sessions with other routers (IWP, the "invisible wire
protocol"), finds routers through a DHT, and builds onion paths over them. Work is
spread over threads: the **net thread** reads sockets, the **crypto workers** encrypt,
sign and verify, the **disk thread** loads and stores router contacts (RCs), and the
**logic thread** runs timers and everything else, one job at a time. Most steps cross
two or three of them with a raw pointer and a hook, and that is where the code is hard.

| component | source | state | operations | talks to |
|---|---|---|---|---|
| IWP frame layer | `iwp_link.cpp` (`frame_state`, `transit_message`) | `tx`, `rx`, status bitsets, `txids`, flags, send queue | XMIT, FRAG, ACKS, ALIV, retransmit, close | session below, router above |
| IWP sessions and server | `iwp_link.cpp` (`session`, `server`), `crypto_async.cpp` | state, `working`, `workbuf`, token, key, timers; `m_sessions`, `m_Connected` | introduce, the four handshake messages, Tick, removal | crypto workers (jobs, hooks), timer, router (establish result) |
| Router, outbound part | `router.cpp` | `outboundMesssageQueue`, `pendingEstablishJobs`, `validRouters` | SendToOrQueue, try_connect, retry, verify, flush, discard, SessionClosed | links, nodedb, DHT, timer |
| NodeDB | `nodedb.cpp` | `entries`, files | setRC, load, async load and verify, random hop | disk thread, crypto workers |
| DHT | `dht.cpp` | bucket of nodes, `pendingTX` | find, got router, relayed lookup, cleanup | router (send), nodedb |
| Paths | `path.cpp`, `pathset.cpp`, `pathbuilder.cpp` | own paths with states, path maps by rx and tx id | BuildPaths, LRCM generation, confirm, latency, expiry | router (SendToOrQueue), crypto workers |
| Transit hops | `transit_hop.cpp`, `relay_commit.cpp`, `relay_up_down.cpp` | transit-path multimap | accept and forward an LRCM, relay up and down, expire | paths, crypto workers |
| Timers and logic thread | `timer.cpp`, `logic.cpp` | timer map, due queue | call_later, cancel, remove, tick | everybody |
| Thread pools | `threadpool.cpp` | job queue, stop flag | queue, run, stop, join | everybody |
| CoDel queue | `codel.hpp` | items ordered by time, drop state | Put, Process | sessions, event loop |
| Link and routing messages | `link_message.cpp`, `link_intro.cpp`, `routing/*` | parser state | decode, dispatch | router, paths |
| Router contacts, codecs | `router_contact.cpp`, `address_info.cpp`, `exit_info.cpp`, `bencode.c` | none | encode, decode, sign, verify | messages, nodedb |
| Context and event loop | `context.cpp`, `ev_epoll.hpp` | what is started | run, SIGINT, close | everybody |
| Crypto, buffers, configuration, logging, API | `crypto_libsodium.cpp`, `config.cpp`, ... | little | system calls, text | everybody |

What is hard, and what would make each part correct:

* **Frames.** UDP loses, duplicates and reorders; the CoDel queue hands over newest
  first. A sender may forget a message only after the peer has handled it; no
  combination of late ACKS may claim a fragment that is missing; fragments resent by
  Tick must get through; closing is an exchange of flags in which each end must not
  imagine the other's.
* **Sessions.** Hooks send in a worker and call `EnterState` afterwards, while the net
  thread dispatches by the old state; all handshake datagrams share one `workbuf`;
  `working` protects a session from Tick; the check for a duplicate session and its
  insertion are apart. Both ends must agree on the key, `m_sessions` must not name a
  freed object, and the router that waits must be answered.
* **Router.** One establish job for a remote, kept by value in a map while link, timer,
  crypto and disk hold pointers to it; messages queued while such a job ends; loads and
  lookups that overlap. Jobs must not dangle or be forgotten, queues must not be left
  behind, and no message may be flushed twice.
* **Paths.** A commit message passes every hop, is opened in a worker and put into a
  multimap that the logic thread expires; duplicates race between check and insertion;
  expiry erases by id. A path in use must be whole at every hop, and nothing of it may
  stay for ever.
* **DHT.** Lookups of several routers with their own buckets and transaction tables,
  answers that are lost, and a hook that frees its job. The hook must be called once, a
  recursive lookup must end, and no peer may be asked twice in one lookup.
* **Timers, pools, start and stop.** Timers change hands between callers, the ticking main
  thread and the logic thread; SIGINT runs `Close` on the main thread in the middle of
  whatever it does, while the other threads go on.
* **Messages.** One parser for all sessions, contacts decoded over old ones, integers that
  change their sign on the way.

The hazards of each are listed in `PROJECT.json`, at their lines.

## 2. Modules and code

| module | lines | models |
|---|---|---|
| `IwpFrame` | 536 | both ends' `frame_state` of one session, from the moment the key is agreed |
| `LinkDelivery` | 67 | what a session promises the router (abstract) |
| `IwpFrame_proofs` | 2071 | proofs about `IwpFrame` |
| `IwpSession` | 599 | handshake, session table, establish timer and removal, of two servers |
| `IwpSession_proofs` | 1412 | proofs about `IwpSession`, for any number of attempts |
| `IwpAttempt_proofs` | 4723 | proofs about `IwpSession`, within one attempt to establish a session |
| `RouterOutbound` | 414 | queues, RC search, establish jobs and RC verification of one router |
| `RouterOutbound_proofs` | 634 | proofs about `RouterOutbound` |
| `Paths` | 498 | a client that builds paths, the relays on them, what travels them |
| `Paths_proofs` | 1769 | proofs about `Paths` |
| `Dht` | 363 | router lookups among several routers |
| `Dht_proofs` | 1461 | proofs about `Dht` |
| `Runtime` | 486 | the daemon's threads, pools, timers, its start and its stop |
| `Runtime_proofs` | 1867 | proofs about `Runtime` |
| `NatLemmas` | 22 | a set of naturals has a least element; for the proofs |
| `Messages` | 510 | bencode, the encodings of messages and contacts, the parsers |

Each has an `MC` module with its instances and, for the IWP modules, their fairness.

The modules of links and router are three levels of one stack. `IwpSession` ends where
`IwpFrame` begins: its frame jobs keep of the frame layer only LIMs, keepalives and
flags. `RouterOutbound` has the link as environment (`Establishes`,
`on_try_connect_result`, `RemoveSession`), with outcomes that `IwpSession` has: the
answer may be a failure although a session exists, since `introduce` sets the state of a
live session back; a second `try_establish` for the same address takes the place of the
first; and a session that is removed with its establish job never answers it. Operators called `Mut...` are wrong on purpose; they are the
forms a plausible bug would give to the definition that follows, and every property is
tested against one.

### IwpFrame

State is one function of the two ends per member of `frame_state`: `tx` and `rx` (ids),
the status bitsets as sets of fragment numbers, `txids`, the invalidation bit of
`txflags` and `rxflags`, and the send queue. `net` is the set of frames anywhere between
the two `frame_state`s: codel queues, crypto workers and UDP. It is a set because a
frame that arrives twice is covered by not removing it (`MayDup`). A message's bytes are
reduced to the number of its full fragments. The last fragment travels in the XMIT, so a
message with none is complete when the XMIT arrives.

| action | code |
|---|---|
| `sendto` | `session::sendto`, `add_outbound_message`, `queue_tx` |
| `Recv` | `handle_frame_decrypt` and `frame_state::process`, by the frame's type: `got_xmit`, `got_frag`, `got_acks`, `got_aliv` |
| `inbound_frame_complete` (in the last two) | handing over, with its four outcomes: a spoofed LIM closes, the first LIM is answered and establishes, other messages are accepted or refused |
| `Tick` | `session::Tick`: timed out, invalidated, or keepalive and `retransmit` |
| `close`, `RunKeepalive` | `session::close` and the job it queues |
| `Lose` | UDP (external) |

A handler that returns false skips the pump at the end of `handle_frame_decrypt`; what
it has pushed waits in the send queue (`hold` against `pump`). A session that times out
or is invalidated is deleted, and its destructor clears the frame: `RemoveSession` forgets
all of `tx` and `rx`, handled or not, while the other end goes on. `handled` is a history
variable.

### IwpSession

`a` is the outbound link of one router (only that link opens sessions, from a port
nobody knows), `b` an inbound link of another. A server may own several session objects;
`tracked` is the one in `m_sessions`. `jobs` is a bag: what is queued for or running in
the workers and the logic thread. A hook that sends and then calls `EnterState` is two
jobs, because the answer may arrive in between. `workbuf` and the `intro` struct are
kept as shared buffers, so a second datagram may overwrite what a queued job is going to
read. The token is the object itself and the nonce a counter: the key is the pair, which
is what `TKE` and `HS` make of it if they are collision-free. A job or table entry that
refers to a freed object is a use after free in the code; the model does not follow it
any further, and properties state where it must not happen.

### RouterOutbound

One router and the remotes it sends to. `holder[r]` says who has the pointer to r's
establish job: link, backoff timer, crypto workers, disk thread, a queued
`on_verify_server_rc`, or nobody any more although the job is in the map (`dropped`, when
its session was removed). Loads are counted by stage, since several may be under way for
one remote. `SendToOrQueue` uses a session, or queues the message and goes on with the
RC in memory or with a load from disk; `HandleAsyncLoadRCForSendTo` connects or asks the
DHT; `HandleDHTLookupForSendTo` connects or discards. The RC of the session is verified
by the crypto workers and stored by the disk thread, where the entry is set before the
file is written, so that a failing write leaves an entry for an RC that was refused.
`on_verify_server_rc` goes by the identity in the RC the remote has presented
(`Identity`), which need not be the one looked for. `fate` is a history variable.

### Paths

One client and the relays; each router's handlers run in its logic thread, keys and
frames in its workers (`GenerateNextKey`; `DecryptFrame`, then `AcceptTransitHop`, so that
the check for a duplicate and the insertion are apart). A frame is a record that only the
router it was made for opens, a payload a set of cipher layers: applying a key a second
time takes it off, as xchacha20 does. `transit[r]` holds the hop objects with the ids
under which the multimap still finds them. Times are ages, as the code compares them.

| action | code |
|---|---|
| `TickClient` | `udap_router::Tick`: `ExpirePaths`, then `BuildPaths` |
| `pathbuilder_start_build`, `GenerateNextKey`, `pathbuilder_generated_keys` | `pathbuilder.cpp`, with `select_random_hop` |
| `DecryptFrame`, `AcceptTransitHop`, `SendLRCM`, `SendPathConfirm` | `relay_commit.cpp` |
| receiving | `LR_CommitMessage::HandleMessage`, `relay_up_down.cpp`, `TransitHop` and `Path` handlers |
| `TickRelay` | `PathContext::ExpirePaths` |

### Dht

Every router has a bucket (`nodes`) and transactions (`pendingTX`); `Xor` and the choice of
a closest peer are operators, as in `FindClosest` and `FindCloseExcluding`, whose start
value makes a peer at the largest distance invisible. The seeker starts lookups; any
router answers, relays or refuses. Immediate messages without content are answered with
another one (`HandleEmpty`), as the code does. `CleanupTX` is not there because nothing
starts its timer. The result of `FindClosest` in an empty bucket is uninitialised in the
code, so the model takes any key or none. `abandoned` records the jobs whose hook nothing
can call any more, `asked` whom a router has asked in which lookup.

### Runtime

The main thread starts pools and loops and ticks the timers under `timersMutex`
(`tick_one`, one timer of the map per step); the threads of the pools take jobs, the
logic thread executes timers (`exec`); jobs call `call_later`, `cancel` and `remove`
(`Operate`). `SigINT` interrupts the main thread at any step; `Close` then runs on it,
step by step: router, worker, logic, nodedb, event loop. Stopping the router cancels the
link's timer under `timersMutex` (`CancelTimer`), which the main thread may hold itself.
`touched` records every use of a pool that is not there.

### Messages

A buffer is a tree of dictionaries, lists, strings and integers; a key is its first
letter (the code compares by prefix), a 64-bit and a 16-bit integer have `W` and `P`
bits. Writers give trees, readers fold `DecodeKey` over them and stop at the first
refusal, keeping what they have stored by then. `ProcessFrom` is the parser of links,
whose LIMs are decoded into the contact of the session; `ParseMessageBuffer` the one
of paths, `DecodeRecord` that of commit records. Besides what a peer has written, the
inputs are close to it: a key missing, twice or unknown, another version, type or size,
a missing end.

## 3. Runs

### Frame layer

* **frame_lossy** (133,444 states, complete). From the established session; a message of
  three full fragments; loss, duplication and reordering without bound on the frames
  under way. Three fragments are the least for which `should_send_ack` acknowledges a
  partial mask, without which nothing could go wrong with masks. `TypeOK`;
  `TxDoneMeansHandled`, the sender forgets only what was handled; `AckedIsHeld`, the
  sender's status claims no fragment the receiver lacks; `FragmentsGetThrough`, once
  its XMIT has arrived a message is completed by the ticks' retransmissions, or a
  session is removed.
* **frame_close** (325,000 states). From the exchange of LIMs, fragmented or not,
  an initiator whose RC is refused, timeouts, closes, loss and reordering but no
  duplication. `AtMostOnce`, no message is handled twice; `NoOrphanRx`, a half-received
  message has a sender that keeps it, until the sender's session is removed;
  `InvalidationIsMutual`;
  `EstablishedMeansIdentified`, only an accepted LIM establishes, whatever came before
  it; `ImplementsLinkDelivery`, the refinement: as long as its session lives, a sender
  forgets only what was handled, and a session that ends forgets everything.

`AtMostOnce` and `NoOrphanRx` need the absence of duplication: `rx` forgets a message
when it is handled, and a second copy of its XMIT opens it again.

### Sessions

* **session_open** (161,000 states). One attempt with loss, reordering, answers that
  overtake the sender's `EnterState`, both timeouts, a close by the router and a second
  object at b. `TrackedIsAlive`, `m_sessions` names no freed object; `PendingHasTimer`,
  a router that waits has a session with its job and a timer that will answer;
  `EstablishedStays`, no late hook sets an established session back; `EstablishEnds`, with
  no fairness of the network, the router that waits gets its answer, or the session with
  the job is removed.
* **session_dup** (1.17 million states). Every datagram may arrive twice.
  `EstablishedSharesKey`: no end is established under a key the other never derived,
  although duplicates overwrite the buffer that jobs read. `AnswerIsAlive`: a second INTRO
  makes a second object, whose check for a duplicate frees it; no object is freed that has
  a job of its answer left.
* **session_retry** (1.7 million states). A retry, or a second session at the same
  address, datagrams that outlive the first attempt, and an initiator whose RC is
  refused. `TypeOK`; `KeyIsFresh`, the responder's key comes from its own token and no
  two sessions of a server share one.
* **session_frames**: section 7.

### Router

* **router_queue** (132,694 states, deadlock checked). Three messages for a remote whose RC
  is in memory, on disk, with the DHT or nowhere; establish jobs that succeed, fail, are
  retried or are forgotten with their session; sessions of both kinds that come and go;
  verifications and disk writes that fail. `TypeOK`; `JobIsHeld`, a job is in
  `pendingEstablishJobs` exactly while somebody holds a pointer to it or the link has
  forgotten it; `QueueHasWork`, messages wait only while something is under way that
  flushes or discards them, or behind a forgotten job; `QueuedOnce`, a queued message is in
  one queue, once, and a settled one in none; `MessagesSettle`, every message settles
  unless the DHT leaves a lookup unanswered or the link has forgotten the job.

### Paths

* **paths_build** (174,000 states). One path of three hops over three relays, one of which
  refuses transit, from an empty nodedb, with loss, delay and one duplicated commit
  message. `TypeOK`; `PathIsWhole`, a path in use has its hop with both ids, neighbours and
  key at every router; `NothingGarbled`, what reaches an end has exactly its layers taken
  off, also where a router is on the path twice; `OnlyDuplicatesLeak`, as long as no commit
  message has come twice expiry loses no hop undeleted; `BuildSucceeds` and
  `PathIsForgotten`, liveness.

### DHT

* **dht_lookup** (398,000 states). One lookup among four routers, one of which refuses
  transit, from every content of their buckets that has no unknown router, with one
  peer added or removed meanwhile and loss. `HookOnce`, the job's hook is called at most
  once, no transaction refers to the job afterwards, and it is told the contact it asked
  for; `LookupCloses`, a router works for another only if it is closer to the target, so
  a recursive lookup ends; `AsksOthers`, over all its retries a lookup asks no peer twice;
  `LookupSettles`, the hook is called unless the job was abandoned in one of the ways
  the model names.
* **doc_dht_requester**: section 7.

### Runtime

* **runtime_stop** (180,000 states). Start, three timers, a datagram whose work passes
  worker, disk, logic and worker, a call of the timers, and SIGINT at any step.
  `TimerIsAlive`, a timer is queued once, called once and not deleted while its job refers
  to it; `ZeroMeansDue`; `StopOrder`, accepted jobs are run, and no job of a worker or of
  the logic thread uses a pool that is gone; `TimerLeaves` and `CloseEnds`, liveness.

### Messages

* **messages_codec** (5,760 states, 2,004,481 transitions). Messages, contacts and records as
  written and as altered, in every order. `RoundTrip`: what was written is read as it
  was, whatever was refused before, if and only if its numbers have a form, and a contact
  verifies where it arrives unless the session's old one had lists it lacks.
  `VerifiedIsSigned`: whatever mixture of old and new parts a session's contact is, if it
  verifies then its router signed exactly that. The view hides `out`, which no action
  reads.

## 4. Bounds

* `MaxMsgs = 2` (frames): the responder's two LIMs, the initiator's LIM and one message
  after it. `tx`, `rx` and the masks are indexed by id and nothing relates two ids, so
  more messages add products of the same behaviours; the proofs cover any number.
* `FragCounts`, `LimFrags`: 0 (LIMs complete with their XMIT), 1, 2 and 3; see frame_lossy.
* `MaxInFlight` (3 frames in frame_close, 2 datagrams in the session runs) and
  `MaxQueued` (2 or 3 jobs) are state constraints. The handshake alternates, so two
  datagrams are one of the handshake and one late or duplicated. Where a constraint is
  set, no liveness is checked, except in session_open, which covers the behaviours
  that stay within the constraint: what is queued or under way at once is bounded, what is
  lost, late or repeated in them is not.
* `MaxSessions = 2`, `MaxTries` 1 or 2: one attempt and one more, or one object in
  `m_sessions` and one that is not. `Copies = 2`: one duplicate.
* session_open: one attempt. In a second one a late INTROACK may free the INTRO that is
  still being made, a use after free that is not followed, and `EstablishEnds` with it.
* Router: one remote, since jobs, queues and loads are kept by remote and remotes that are
  at their address do not meet; the proofs cover the others. Three messages: one that
  starts the work, one that meets it under way, one that comes when it ends. `Retries = 1`: both branches, retry and discard.
* Paths: `MaxPaths = 1`, since paths have their own ids and keys and meet only in the
  number of builds; `NumHops = 3` over three routers makes a router appear twice;
  `MaxCopies = 1`, one duplicate makes the race; `Lifetime = 1` and `BuildTimeout = 0` in
  units that are long against a local job.
* DHT: four keys that are powers of two, so that all distances differ; targets a router
  and a key nobody has; `MaxChanges = 1`.
* Runtime: one thread for each pool, which is what `logic` and `disk` have and the
  smallest worker pool; three timers, the link's, the router's and one of a job;
  `MaxTime = 3` against a timeout of 2; one task and one timer call by it.
* Messages: `W = 3`, `P = 2` give every class of integers (zero, positive, negative, all
  bits set, 65536); five contacts that differ in key, addresses, exits and time so that
  parts can be mixed; at most two addresses fit (`MAX_RC_SIZE`).

## 5. Fairness

* `MCIwpFrame!Fairness`: weak on the sender's Tick, which `TickSessions` runs every 100 ms;
  strong on the arrival of a given fragment, since a fragment resent for ever over a
  fair-lossy network arrives in the end. Nothing is assumed of frames that are sent once.
* `MCIwpSession!TimerSpec` (session_open): weak for every job of the handshake, which the
  pools and the logic thread run, for the establish timer, which fires after its timeout,
  and for its handler. Nothing is assumed of datagrams, frames and Tick.
* `RouterOutbound!Fairness`: weak for loads, verification, the backoff timer and for the
  link not keeping an establish job: it answers or removes the session, which is
  `EstablishEnds` of `IwpSession`. None for the DHT: its `CleanupTX` is never scheduled,
  so a lookup may never end.
* `Paths!Fairness`: weak for ticks, worker and logic jobs, time, and the arrival of what
  stays on a link. `BuildSucceeds` excepts paths that lost a message or had one delayed.
* `Dht!Fairness`: weak for the seeker's job and for the handling of messages that are not
  lost.
* `Runtime!Fairness`: weak for the clock, the main thread, each pool's thread and the net
  thread; strong for getting `timersMutex`, which the tick releases again and again. No
  datagram and no signal has to come.

## 6. Proofs

TLAPS 1.4.5 checks every proof: 1826 obligations for `IwpFrame_proofs`, 1387 for
`IwpSession_proofs`, 5569 for `IwpAttempt_proofs`, 613 for `RouterOutbound_proofs`, 1783
for `Paths_proofs`, 1265 for `Dht_proofs`, 1742 for `Runtime_proofs`, 9 for `NatLemmas`. The theorems are about `Spec`,
without fairness, and hold for every value of the constants that the named assumptions
allow; TLC evaluates those assumptions on every run. The inductive invariants of `Paths`
and `IwpSession`, the largest ones, were also checked with TLC before they were proved.
Where a theorem has a condition on the constants, TLC finds a counterexample without it.

### IwpFrame_proofs

Assumptions: `MaxMsgs >= 2` and fragment counts within 0..32, the width of the status
bitset (`FragAssumption`; `MAX_LINK_MSG_SIZE` keeps senders of this code within it), and
that the environment switches are Booleans. Nothing is assumed of the network: every
theorem holds with loss, duplication, timeouts, closes and refused RCs, or without; the
two that need a network without duplicates say so.

`TxDoneMeansHandled` is not inductive: an ACKS under way could complete a mask. `IInv`
adds what frames, masks and ids mean (`FramesSound`, `StatusSound`), that an end which
is not established has sent at most one message (`PhaseSound`), and `UnhandledSound`:
as long as a message has not been handled, its receiver's entry is incomplete and holds
every fragment that any ACKS under way, or the sender's status, claims. An entry can only
be forgotten by being handled, so claims never outlive what they are about. The proof
has one lemma per action; `Recv` is split by frame type, and completion
(`CompleteInv`) is shared by `got_xmit` and `got_frag`.

| theorem | statement |
|---|---|
| `InvariantHolds` | `Spec => []IInv` |
| `TypeCorrect` | `Spec => []TypeOK` |
| `ReleasedIsHandled` | `Spec => []TxDoneMeansHandled` |
| `NoFragmentForgotten` | `Spec => []AckedIsHeld` |
| `CloseIsMutual` | `Spec => []InvalidationIsMutual` |
| `HandledAtMostOnce` | `~MayDup => (Spec => []AtMostOnce)` |
| `RxHasSender` | `~MayDup => (Spec => []NoOrphanRx)` |
| `EstablishedIsIdentified` | `Spec => []EstablishedMeansIdentified` |
| `RefinesLinkDelivery` | `Spec => Delivery!Spec`, with `sent <- txids` and `released` the ids below `txids` that are not in `tx`, `ended` the removed sessions |

With a duplicated XMIT a message that was handled is received again, hence `~MayDup` for
`AtMostOnce` and `NoOrphanRx`. They need an invariant about what is under way: the XMIT
of a message is sent once, so it is either on the network or has been received, never
both, and a message that has been handled has no rx entry left to be completed again.
A removed session has forgotten everything, so what is said of a sender's `tx` and a
receiver's `rx` is said of sessions that live; frames of a removed one may still arrive.

### IwpSession_proofs

Assumption: `BoundAssumption`, which only types the constants. The theorems hold for any
number of attempts, session objects and copies of a datagram, with or without loss,
timeouts, closes and bad RCs.

| theorem | statement |
|---|---|
| `InvariantHolds` | `Spec => []IInv` |
| `TypeCorrect` | `Spec => []TypeOK` |
| `KeysAreFresh` | `Spec => []KeyIsFresh` |

Neither is inductive. What an object has depends on what the handshake handed on: `IInv`
says that a job belongs to an object with a token, that b has no job of an opener
(`OpenerJobs`) and is never in `IntroSent`, that no START comes from b and none lies in a
workbuf of a, that an object of b keeps its own token, and that a's keys have nonces a has
drawn, each used by one object (`NoncesDiffer`). The keys of b then differ by their
tokens and those of a by their nonces. `StepKeeps` says what a step that changes one
object has to show; only `gen_session_start` needs more.

### IwpAttempt_proofs

Most of what one expects of a session table is not true of this code for every sequence of
attempts, duplicates and late answers (section 8). This module proves it where it is true:
for one call of `try_establish` (`MaxTries = 1`), any number of session objects, and any
loss, delay and reordering. What else a theorem needs is in its statement.

| theorem | statement | needed for |
|---|---|---|
| `AnsweringHolds` | `Spec => []Answering`, and `tracked["b"]` is never freed | any number of attempts |
| `AnswersStayAlive` | `Spec => []AnswerIsAlive` | any number of attempts |
| `AttemptHolds` | `MaxTries = 1 => (Spec => []AttemptInv)` | the theorems below |
| `TrackedStaysAlive` | `MaxTries = 1 => (Spec => []TrackedIsAlive)` | a retry reuses an object in `eInitial` |
| `EstablishedKeysAgree` | `MaxTries = 1 => (Spec => []EstablishedSharesKey)` | a retry draws a second key |
| `PendingKeepsTimer` | `MaxTries = 1 /\ BadRC = {} => (Spec => []PendingHasTimer)` | a close by the peer ends the session before the job |
| `EstablishedLasts` | `MaxTries = 1 /\ Copies = 1 => (Spec => EstablishedStays)` | a second START runs `EnterState(eLIMSent)` again |

The last column says what goes wrong without the condition.

Every proof about a step starts from one summary of it: `Step(o, D, S, F)` says that the
step takes a job named in D from object o, queues jobs named in S, changes fields in F and
nothing else (the lemmas `...Does`, one per action). Since jobs are a bag, it also says which
jobs are there at most once (`Single`).

`Answering` is what b does whatever the opener sends: its objects are made one after the
other, each takes the steps from INTRO to INTROACK once and has no other crypto job
meanwhile, and it enters `m_sessions` only after the check for a duplicate. `Attempt` is the
opener's side, in three phases: `NotTried`, `Introducing` (the INTRO is being made) and
`Under`. Under way, `Progress` orders the hooks of the opener's first object, `Opened` says
that objects made for late datagrams come to nothing and that nobody asks a to answer, and
`OneKey` that there is a single key, which every START, frame, frame job and session of b
has, and that frames of b exist only once b has derived it. `TrackedIsAlive` and
`EstablishedSharesKey` follow.

The other two add an invariant each. `Pending`: as long as the router waits, no
invalidation flag is set anywhere, neither at an object nor in a frame, so nothing but the
timer's answer ends the session. `StartOnce`: the START is on the network, or in one workbuf
of b, or b has the key, and only one of these; so its hook runs once and ends before frames
count.

### RouterOutbound_proofs

Assumption of all: `RemotesAssumption`, which fixes the types of the constants.

| theorem | statement |
|---|---|
| `RouterTypeCorrect` | `Spec => []TypeOK` |
| `NoJobDangles` | `Spec => []JobIsHeld` |
| `NoQueueForgotten` | `Spec => []QueueHasWork` |
| `SettledOnce` | `Spec => []QueuedOnce` |

Any assignment of addresses to routers is allowed. `JobIsHeld` and `QueueHasWork` are
about the remotes that are at their address and whose RC nobody else presents (`Genuine`):
no step for another remote touches their job or queue (`OthersStep`). Together with
`TypeOK` the two are inductive: a load that has
found an RC ends its own work and relies on the job of `try_connect`, which is new or
one that is already held. `QueuedOnce` needs `UnsentHasNoFate`, that messages not sent
yet are in no queue.

### Paths_proofs

Assumption: `PathsAssumption`. Paths have at least one hop and at most `MaxHops`, and a
build times out no later than a path expires (`PATH_BUILD_TIMEOUT`,
`DEFAULT_PATH_LIFETIME`). Nothing is assumed of the number of paths, routers, hops and
duplicates.

| theorem | statement |
|---|---|
| `InvariantHolds` | `Spec => []IInv` |
| `TypeCorrect` | `Spec => []TypeOK` |
| `PathsAreWhole` | `Spec => []PathIsWhole` |
| `NothingIsGarbled` | `Spec => []NothingGarbled` |
| `LeaksNeedDuplicates` | `Spec => []OnlyDuplicatesLeak` |

`PathIsWhole` is about hops that were put at different times. `IInv` says that whatever is
under way belongs to a place on a path (`Route`): a commit message at place i is exactly
the client's, with i frames peeled off, a relayed message has exactly the layers of its
place, a transit hop is the one its record asked for. `Grown` says that, as long as the
client's path has not expired, the hops before the place that anything of it has reached
are there, and `Age` that no hop is older than the path, so none expires first. `Once` is
what keeps ids in the map until their hop expires when no commit message was duplicated.

### Dht_proofs

Assumptions: `DhtAssumption`, `JobAssumption` (the value for "no job" is no job) and
`XorAssumption`, that for a given target the XOR distance is a natural number and tells
keys apart. The last is a fact of arithmetic, not of the code: `Xor` is a recursive
function over the bits, and its proof would need induction over data, so it is assumed
and TLC evaluates it for the keys of the runs.

| theorem | statement |
|---|---|
| `InvariantHolds` | `Spec => []IInv` |
| `HookIsCalledOnce` | `Spec => []HookOnce` |
| `LookupsCloseIn` | `Spec => []LookupCloses` |
| `OthersAreAsked` | `Spec => []AsksOthers` |

`HookOnce` needs that no two things in the system disagree about what a transaction id
searches for (`OneTarget`), that ids have been counted to and are not used again
(`IdsCounted`), and that a job is with one transaction of the seeker, or none (`JobsHeld`).
`LookupCloses` rests on the choice of the closest peer: `Closest` picks an element of
least distance, which exists by `LeastNat`. `AsksOthers` needs a second invariant,
`AskInv`: the questions of a lookup so far went to the peers its transaction excludes and
to the one it waits for, a lookup has one transaction, and a request under way is the only
one with its id and new to the router it goes to.

### Runtime_proofs

Assumption: `RuntimeAssumption`. Besides types it says that the net thread is not a pool's
and that every pool has a thread: pools are made only with a positive number of workers
(`iter_config`, `udap_init_threadpool`), and the context makes the net threads itself.

| theorem | statement |
|---|---|
| `InvariantHolds` | `Spec => []IInv` |
| `TimersAreAlive` | `Spec => []TimerIsAlive` |
| `ZeroIsDue` | `Spec => []ZeroMeansDue` |
| `StopsInOrder` | `Spec => []StopOrder` |

`TimerInv` follows one timer through map, queue and threads: at most one of them refers to
it (`OneRef`), and a reference means that `called_at` is set and `done` is not (`Life`),
which is what keeps the tick from queueing or deleting it. `CloseInv` follows `Close`: a
thread leaves its pool only when the pool is stopped and its queue empty (`LeftDone`), so
after a join there is nothing left, and what a Close from the waiting main thread has
already ended cannot be reached by a later job (`CloseOrder`, `Interrupted`).

### Only model-checked

* All liveness properties (`FragmentsGetThrough`, `EstablishEnds`, `MessagesSettle`,
  `LookupSettles`, `BuildSucceeds`, `PathIsForgotten`, `TimerLeaves`, `CloseEnds`): fairness
  and ENABLED are out of the prover's reach.
* `RoundTrip` and `VerifiedIsSigned` of `Messages`, whose encoders and parsers are recursive
  over trees: induction over data would be needed.

The session properties are proved under conditions that the constants of their runs meet.
Outside them they fail (section 8), with one exception that is open: TLC finds
`PendingHasTimer` true also when only b's RC is bad and nothing is duplicated, and the proof
covers `BadRC = {}`.

## 7. Where code and documents disagree

* **doc_dht_requester** (`doc/dht_v0.txt:254`, "send a GRCM with R to requesters in all
  linked transactions"). `GotRouterMessage::HandleMessage` puts the answer into the
  replies of the message it handles, which go to the peer that answered: a recursive
  lookup never reaches the router that asked.

* **session_frames** (`iwp_link.cpp:1842`, "terminate our session when all of our frames
  from the crypto workers are done"). Tick waits for `working`, which only the handshake's
  jobs set, and frees an invalidated session while a worker has frames of it.

Met while reading, and not the subject of a run: `doc/iwp_v0.txt:187` calls the number
of fragments nonzero and line 193 gives the size of a message as `S * (n - 1) + L`; the
code allows zero and computes `S * n + L`. `on_verify_client_rc` is unreachable:
`async_verify_RC` is only called for servers. `doc/proto_beta.txt:381` has an
immediate DHT message carry "one or more dht messages"; the code also sends empty ones,
and answers an empty one with another, for ever.

## 8. What holds only under conditions

The runs state their conditions in their constants and their properties. Outside them the
models show that:

* a sender does not learn that its message was received when the one full ACKS is lost:
  `got_frag` (`iwp_link.cpp:557`) ignores fragments of a handled message, while
  `doc/iwp_v0.txt:221-222` has the ACKS "indicate the link message was recieved".
* a close is not agreed: the peer of a closing end sees both flags, falls silent
  (`iwp_link.cpp:1740`) and removes its session, and the closing end waits for its timeout,
  not for the other side as the comment at `iwp_link.cpp:1036` says.
* an establish job may never be answered: a session that is removed with it, by Tick
  or after a close by the peer, calls `done`, which removes the timer and calls
  `handle_establish_timeout` with `orig = 0`, where it returns at once
  (`iwp_link.cpp:1695`, `2074`). The router's job stays in `pendingEstablishJobs`,
  `try_connect` refuses the remote from then on and its queue waits (`holder = "dropped"` in
  `JobIsHeld`, `QueueHasWork` and `MessagesSettle`).
* a write that fails in `setRC` leaves the RC in `entries` although it was refused
  (`nodedb.cpp:134`): the queue is discarded, the next message connects with it.
* a lookup without an answer discards the queue although another one has found the RC and
  a session is being established (`router.cpp:139`).
* the handshake hangs with no datagram lost when an answer arrives between a hook's
  `sendto` and its `EnterState`: `handle_introack_generated` (`iwp_link.cpp:2113`) sends the
  INTROACK and enters `eIntroAckSent` afterwards, so a START that comes in between is
  dropped and never sent again, while `doc/iwp_v0.txt:98` has the session "now established".
* a timed-out session stays for ever when its INTROACK or START was lost:
  `handle_introack_generated` (`iwp_link.cpp:2098`) does not reset `working`.
* two commit messages with the same ids, raced, are both put; expiry of one erases the
  other's entries and leaves it undeleted (`OnlyDuplicatesLeak`).
* `BuildPaths` may exceed `m_NumPaths`: queued builds and paths without keys do not count.
* the hook of a lookup is never called after a retry (`LookupRouter` is called without the
  job), a refusal, a relayed question or a loss (`abandoned` in `LookupSettles`).
* a timer cancelled in the millisecond it was started is told 0, as if it had fired; one
  removed before it is due stays in the map (`ZeroMeansDue`, `TimerLeaves`).
* a SIGINT inside a tick deadlocks: `link_stop` cancels the link's timer, for which it
  locks `timersMutex`, and the interrupted tick holds it on the same thread; without such
  a timer `Close` may still join a thread that waits for the mutex (`CloseEnds`). The disk
  pool is never stopped and the net thread is stopped last, so both may use what is gone
  (`StopOrder`).
* a number with all bits set, and the ports 0 and 65536, do not survive the encoding; a
  contact without lists, decoded over one with lists, keeps them and does not verify
  (`RoundTrip`).
* `EstablishedStays` fails when a START is duplicated (its hook enters `eLIMSent` again)
  and when `connect_job_retry` introduces itself on a session established meanwhile.
* `EstablishedSharesKey` fails with a retry and datagrams delayed past it: the ends are
  established under different keys and time out.
* `TrackedIsAlive` fails when a late datagram reaches a new outbound session that is
  still `eInitial`: `on_intro` takes it for an introduction.
* `PendingHasTimer` fails when the remote refuses our RC: the session is removed,
  and `done` removes the timer without an answer.
* `working` does not cover every job of the handshake either: with duplicated STARTs, or
  answers that overtake `EnterState`, an object has two jobs and the first to end resets it.
* `JobIsHeld` fails of a remote whose address is another router's (not in `Genuine`):
  `on_verify_server_rc` (`router.cpp:338`, "this frees the job") erases the job of the
  identity in the RC it was given and leaves the one that led to the session, with nobody
  to erase it.
* `QueueHasWork` fails for remotes without an address: `try_connect` returns false and
  its callers ignore it.

## 9. What is not modelled

Cryptography is perfect: a frame that was altered is dropped, keys and tokens do not
collide. Text, base encodings, logging and metrics are left out. Data races on containers
(`entries` between the disk and the logic thread) are outside: accesses are atomic.
What follows a use of freed memory is not modelled, only the step that would be one.
Left out for good: configuration, logging, API and libsodium wrappers, which are parsers of
text, output and system calls; the sockets of the event loop, which are the network of the
other modules; the daemon without threads; `CleanupTX` and `LR_Ack`, which nothing
reaches. Left out so far: the CoDel queue, and in the modelled components
`iter_sessions`, the sessions that stopping a link frees and the jobs that still use them, the router's padding, and the loading of a whole
nodedb directory.

## 10. Plan

The modules of the components that carry the program are there. What is worth adding, in
this order:

1. `CoDel` against a clock that may be set back; `NodeDB`'s directory load.
2. A module that composes `RouterOutbound` with `Dht` and the session's answers, in place
   of the environment actions.
3. How a message is cut into fragments and put together, at the boundaries of the fragment
   size and of 32 fragments.

## 11. How to run

In this directory, with TLC and TLAPS on the path:

    tlc -workers 2 -config MCIwpFrame_lossy.cfg MCIwpFrame
    tlapm IwpFrame_proofs.tla

(and likewise for the other runs and `*_proofs` modules). The slowest run is frame_lossy, about three minutes, for its liveness property; the others
take up to two; the proofs take about twenty minutes together.
