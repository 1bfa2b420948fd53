--------------------------- MODULE Runtime_proofs ---------------------------
(***************************************************************************)
(* Proofs about timers, pools and the stop of the daemon: they hold for    *)
(* every number of threads in the pools, of timers and of datagrams, and   *)
(* wherever the signal interrupts the main thread.                         *)
(***************************************************************************)
EXTENDS Runtime, FiniteSetTheorems, SequenceTheorems, TLAPS

-----------------------------------------------------------------------------
(* Types *)

Timer ==
    [st : {"none", "held", "erased", "cleared"}, func : BOOLEAN, started : Nat, timeout : Nat,
     called_at : Nat, done : BOOLEAN, canceled : BOOLEAN, calls : Nat, left : Int,
     link : BOOLEAN]

TaskJobs == [kind : {"task"}, rest : Seq(Pools)]

TimerJobs == [kind : {"timer"}, id : Ids]

Thread ==
    [pc : {"none", "wait", "exit", "exec", "call", "run", "lock", "ran"},
     job : TaskJobs \cup TimerJobs \cup {NoJob}]

Early == {"config", "pools", "configured"}

Everyone == Threads \cup {"net"}

TypeInv ==
    /\ now \in Nat /\ now >= 1
    /\ timers \in [Ids -> Timer]
    /\ ticker \in [pc : Early \cup {"wait", "tick", "return"}, todo : SUBSET Ids, at : Nat]
    /\ run \in BOOLEAN
    /\ queue \in [Pools -> Seq(TaskJobs \cup TimerJobs)]
    /\ stop \in [Pools -> BOOLEAN]
    /\ pool \in [Pools -> {"none", "live", "freed"}]
    /\ thr \in [Everyone -> Thread]
    /\ close \in [pc : {"no", "stop_router", "cancel_timer", "stop_worker", "join_worker", "stop_logic",
                        "join_logic", "stop_timer", "free_worker", "join_net", "done"},
                  at : Early \cup {"none", "wait", "tick", "return"}, id : SUBSET Ids]

-----------------------------------------------------------------------------
(* Timers *)

\* A thread, or a place in the queue of the logic thread, refers to timer t.
Holds(w, t) == thr[w].job = TimerJob(t)

Queued(i, t) == i \in 1..Len(queue["logic"]) /\ queue["logic"][i] = TimerJob(t)

Ref(t) == (\E w \in Everyone : Holds(w, t)) \/ \E i \in Nat : Queued(i, t)

\* A thread at work has a job, and runs a timer's in exec.
AtWork ==
    \A w \in Everyone :
      /\ thr[w].pc \in {"none", "wait", "exit"} <=> thr[w].job = NoJob
      /\ thr[w].pc \in {"exec", "call"} => thr[w].job \in TimerJobs

\* Only the logic thread is given timers.
TimersInLogic ==
    /\ \A p \in Pools : p # "logic" => \A i \in 1..Len(queue[p]) : queue[p][i] \in TaskJobs
    /\ thr["net"].job \notin TimerJobs

\* Before the router runs there are no timers and no jobs.
NothingYet ==
    ticker.pc \in Early =>
      /\ \A t \in Ids : timers[t].st = "none"
      /\ \A p \in Pools : queue[p] = <<>>
      /\ \A w \in Everyone : thr[w].job = NoJob
      /\ thr["net"].pc = "none"

\* The tick has a time, and visits timers only while it lasts.
TickTime ==
    /\ ticker.pc = "tick" => ticker.at >= 1
    /\ ticker.todo # {} => ticker.pc = "tick"

OneRef ==
    \A t \in Ids :
      /\ \A v, w \in Everyone : Holds(v, t) /\ Holds(w, t) => v = w
      /\ \A i, k \in Nat : Queued(i, t) /\ Queued(k, t) => i = k
      /\ \A w \in Everyone, i \in Nat : ~(Holds(w, t) /\ Queued(i, t))

\* The life of a timer.
Life(t) ==
    /\ timers[t].st = "none" => timers[t] = NoTimer
    /\ timers[t].st = "erased" => timers[t].done
    /\ timers[t].done => timers[t].called_at # 0
    /\ Ref(t) => timers[t].called_at # 0 /\ ~timers[t].done
    /\ timers[t].calls <= 1
    /\ timers[t].called_at = 0 => timers[t].calls = 0
    /\ \A i \in Nat : Queued(i, t) => timers[t].calls = 0
    /\ \A w \in Everyone :
         Holds(w, t) /\ thr[w].pc \in {"exec", "call"} => timers[t].calls = 0
    /\ timers[t].called_at # 0 =>
         \/ timers[t].called_at - timers[t].started >= timers[t].timeout
         \/ timers[t].canceled

TimerInv ==
    /\ AtWork
    /\ TimersInLogic
    /\ NothingYet
    /\ TickTime
    /\ OneRef
    /\ \A t \in Ids : Life(t)
    /\ ZeroMeansDue

-----------------------------------------------------------------------------
(* Pools and Close *)

\* A pool is there, with its threads, from InitPools on.
PoolsStart ==
    /\ \A p \in Pools : pool[p] = "none" <=> ticker.pc = "config"
    /\ \A w \in Threads : thr[w].pc = "none" <=> ticker.pc = "config"

\* A thread that has left left nothing behind.
LeftDone ==
    \A w \in Threads : thr[w].pc = "exit" => stop[PoolOf[w]] /\ queue[PoolOf[w]] = <<>>

AfterWorker == {"stop_logic", "join_logic", "stop_timer", "free_worker", "join_net"}

AfterLogic == {"stop_timer", "free_worker", "join_net"}

\* How far Close has come, and what is gone then.
CloseOrder ==
    /\ close.pc \in AfterWorker \/ (close.pc = "done" /\ close.at = "wait") => Joined("worker")
    /\ close.pc \in AfterLogic \/ (close.pc = "done" /\ close.at = "wait") => Joined("logic")
    /\ pool["logic"] = "freed" => close.pc \in AfterLogic \cup {"done"}
    /\ pool["worker"] = "freed" => close.pc \in {"join_net", "done"}
    /\ pool["disk"] # "freed"
    /\ \A p \in Pools : pool[p] = "freed" => queue[p] = <<>>

\* Where Close interrupted the main thread.
Interrupted ==
    /\ close.pc = "no" => close.at = "none" /\ touched = {}
    /\ ticker.pc \in {"configured", "wait", "tick"} => links # "none"
    /\ close.at = "wait" =>
         /\ links # "none"
         /\ ticker.pc = "wait" \/ (ticker.pc = "return" /\ close.pc = "done")
         /\ close.pc \in {"free_worker", "join_net", "done"} => ~run
         /\ touched \subseteq {"disk", "net"}

CloseInv == PoolsStart /\ LeftDone /\ CloseOrder /\ Interrupted

IInv == TypeInv /\ TimerInv /\ CloseInv

-----------------------------------------------------------------------------
(* Types hold *)

LEMMA JobKinds ==
    /\ \A s \in Seq(Pools) : Task(s) \in TaskJobs
    /\ \A t \in Ids : TimerJob(t) \in TimerJobs
    /\ \A j \in TaskJobs : j.rest \in Seq(Pools) /\ j # NoJob /\ j.kind = "task" /\ j \notin TimerJobs
    /\ \A j \in TimerJobs : j # NoJob /\ j.kind = "timer" /\ j.id \in Ids /\ j = TimerJob(j.id)
    /\ NoJob.kind = "none"
BY DEF Task, TaskJobs, TimerJob, TimerJobs, NoJob

LEMMA IdleIsThread == Idle \in Thread
BY DEF Idle, Thread

LEMMA TimersAre ==
    /\ NoTimer \in Timer
    /\ TypeInv => \A ms \in Timeouts, link \in BOOLEAN : NewTimer(ms, link) \in Timer
<1>1. NoTimer \in Timer
  BY DEF NoTimer, Timer
<1>2. ASSUME NEW ms \in Nat, NEW link \in BOOLEAN, now \in Nat
      PROVE  NewTimer(ms, link) \in Timer
  <2>1. PICK r : r = [NoTimer EXCEPT !.st = "held"]
    OBVIOUS
  <2>2. r \in Timer
    BY <1>1, <2>1 DEF Timer
  <2>3. PICK q : q = [r EXCEPT !.func = TRUE]
    OBVIOUS
  <2>4. q \in Timer
    BY <2>2, <2>3 DEF Timer
  <2>5. PICK o : o = [q EXCEPT !.started = now, !.timeout = ms]
    OBVIOUS
  <2>6. o \in Timer
    BY <1>2, <2>4, <2>5 DEF Timer
  <2>7. [o EXCEPT !.link = link] \in Timer
    BY <1>2, <2>6 DEF Timer
  <2> QED
    BY <2>1, <2>3, <2>5, <2>7 DEF NewTimer
<1> QED
  BY <1>1, <1>2, RuntimeAssumption DEF TypeInv

LEMMA TimerChanges ==
    ASSUME NEW r \in Timer
    PROVE  /\ \A s \in {"erased", "cleared"} : [r EXCEPT !.st = s] \in Timer
           /\ [r EXCEPT !.done = TRUE] \in Timer
           /\ [r EXCEPT !.func = FALSE] \in Timer
           /\ [r EXCEPT !.canceled = TRUE] \in Timer
           /\ [r EXCEPT !.func = FALSE, !.canceled = TRUE] \in Timer
           /\ \A n \in Nat : [r EXCEPT !.called_at = n] \in Timer
           /\ \A n \in Nat, d \in Int : [r EXCEPT !.calls = n, !.left = d] \in Timer
<1>1. \A s \in {"erased", "cleared"} : [r EXCEPT !.st = s] \in Timer
  BY DEF Timer
<1>2. [r EXCEPT !.done = TRUE] \in Timer
  BY DEF Timer
<1>3. [r EXCEPT !.func = FALSE] \in Timer
  BY DEF Timer
<1>4. [r EXCEPT !.canceled = TRUE] \in Timer
  BY DEF Timer
<1>5. [r EXCEPT !.func = FALSE, !.canceled = TRUE] \in Timer
  BY DEF Timer
<1>6. \A n \in Nat : [r EXCEPT !.called_at = n] \in Timer
  BY DEF Timer
<1>7. \A n \in Nat, d \in Int : [r EXCEPT !.calls = n, !.left = d] \in Timer
  BY DEF Timer
<1> QED
  BY <1>1, <1>2, <1>3, <1>4, <1>5, <1>6, <1>7

LEMMA InitType == Init => TypeInv
BY TimersAre DEF Init, TypeInv, Early, Thread, Everyone

LEMMA QueueType ==
    ASSUME TypeInv, NEW p \in Pools, NEW job \in TaskJobs \cup TimerJobs, QueueJob(p, job)
    PROVE  queue' \in [Pools -> Seq(TaskJobs \cup TimerJobs)]
<1>1. queue[p] \in Seq(TaskJobs \cup TimerJobs)
  BY DEF TypeInv
<1>2. Append(queue[p], job) \in Seq(TaskJobs \cup TimerJobs)
  BY <1>1
<1> QED
  BY <1>2 DEF QueueJob, TypeInv

LEMMA StartType == ASSUME TypeInv, Start PROVE TypeInv'
<1>1. CASE InitPools
  BY <1>1, IdleIsThread DEF InitPools, StartPools, TypeInv, Early, Everyone
<1>2. CASE Configure
  BY <1>2 DEF Configure, TypeInv, Early, pvars
<1>3. CASE RunRouter
  <2>1. timers' \in [Ids -> Timer]
    <3>1. CASE timers' = timers
      BY <3>1 DEF TypeInv
    <3>2. ASSUME NEW ms \in Timeouts, NEW us \in Timeouts,
                 timers' = [timers EXCEPT ![1] = NewTimer(ms, TRUE), ![2] = NewTimer(us, FALSE)]
          PROVE  timers' \in [Ids -> Timer]
      <4>1. NewTimer(ms, TRUE) \in Timer /\ NewTimer(us, FALSE) \in Timer
        BY TimersAre
      <4> QED
        BY <3>2, <4>1 DEF TypeInv
    <3> QED
      BY <1>3, <3>1, <3>2 DEF RunRouter
  <2>2. thr' \in [Everyone -> Thread]
    BY <1>3, IdleIsThread DEF RunRouter, TypeInv
  <2>3. ticker' \in [pc : Early \cup {"wait", "tick", "return"}, todo : SUBSET Ids, at : Nat]
    BY <1>3 DEF RunRouter, TypeInv
  <2> QED
    BY <1>3, <2>1, <2>2, <2>3 DEF RunRouter, TypeInv, pvars
<1> QED
  BY <1>1, <1>2, <1>3 DEF Start

LEMMA TickType == ASSUME TypeInv, Tick PROVE TypeInv'
<1>1. CASE Wake
  BY <1>1 DEF Wake, TypeInv, pvars
<1>2. CASE tick_end
  BY <1>2 DEF tick_end, TypeInv, pvars
<1>3. ASSUME NEW t \in Ids, tick_one(t) PROVE TypeInv'
  <2>1. ticker' \in [pc : Early \cup {"wait", "tick", "return"}, todo : SUBSET Ids, at : Nat]
    BY <1>3 DEF tick_one, TypeInv
  <2>2. timers' \in [Ids -> Timer]
    <3>1. timers[t] \in Timer /\ ticker.at \in Nat
      BY DEF TypeInv
    <3>2. timers' \in {timers, [timers EXCEPT ![t].called_at = ticker.at],
                      [timers EXCEPT ![t].st = "erased"]}
      BY <1>3 DEF tick_one
    <3>3. /\ [timers[t] EXCEPT !.called_at = ticker.at] \in Timer
          /\ [timers[t] EXCEPT !.st = "erased"] \in Timer
      BY <3>1, TimerChanges
    <3> QED
      BY <3>2, <3>3 DEF TypeInv
  <2>3. queue' \in [Pools -> Seq(TaskJobs \cup TimerJobs)]
    BY <1>3, JobKinds, QueueType DEF tick_one, TypeInv, Pools
  <2> QED
    BY <1>3, <2>1, <2>2, <2>3 DEF tick_one, TypeInv
<1> QED
  BY <1>1, <1>2, <1>3 DEF Tick

LEMMA CloseType == ASSUME TypeInv, Close \/ SigINT PROVE TypeInv'
<1> USE DEF TypeInv, Goto, tvars, pvars
<1>1. CASE SigINT
  BY <1>1 DEF SigINT
<1>2. CASE StopRouter
  <2>1. timeout_job_id \in SUBSET Ids
    BY DEF timeout_job_id
  <2> QED
    BY <1>2, <2>1 DEF StopRouter
<1>3. CASE StopWorker
  BY <1>3 DEF StopWorker, Stop
<1>4. CASE JoinWorker
  BY <1>4 DEF JoinWorker
<1>5. CASE StopLogic
  BY <1>5 DEF StopLogic, Stop
<1>6. CASE JoinLogic
  BY <1>6 DEF JoinLogic, Free
<1>7. CASE StopTimer
  <2>1. timers' \in [Ids -> Timer]
    BY <1>7, TimerChanges DEF StopTimer
  <2> QED
    BY <1>7, <2>1 DEF StopTimer
<1>8. CASE FreeAll
  BY <1>8 DEF FreeAll, Free
<1>9. CASE JoinNet
  BY <1>9 DEF JoinNet
<1>10. CASE CancelTimer
  <2>1. timers' \in [Ids -> Timer]
    BY <1>10, TimerChanges DEF CancelTimer
  <2> QED
    BY <1>10, <2>1 DEF CancelTimer
<1> QED
  BY <1>1, <1>2, <1>3, <1>4, <1>5, <1>6, <1>7, <1>8, <1>9, <1>10 DEF Close

LEMMA ThreadChanges ==
    ASSUME NEW r \in Thread,
           NEW pc \in {"none", "wait", "exit", "exec", "call", "run", "lock", "ran"}
    PROVE  [r EXCEPT !.pc = pc] \in Thread
BY DEF Thread

\* The jobs of a queue, its head and its tail.
LEMMA TakeFacts ==
    ASSUME TypeInv, NEW w \in Threads, Take(w)
    PROVE  LET p == PoolOf[w]
           IN /\ p \in Pools /\ queue[p] \in Seq(TaskJobs \cup TimerJobs) /\ queue[p] # <<>>
              /\ Len(queue[p]) \in Nat /\ Len(queue[p]) >= 1
              /\ queue[p][1] \in TaskJobs \cup TimerJobs
              /\ thr[w].pc = "wait"
              /\ thr' = [thr EXCEPT ![w] =
                           [pc |-> IF queue[p][1] \in TimerJobs THEN "exec" ELSE "run",
                            job |-> queue[p][1]]]
              /\ queue' = [queue EXCEPT ![p] = Tail(queue[p])]
              /\ Tail(queue[p]) \in Seq(TaskJobs \cup TimerJobs)
              /\ Len(Tail(queue[p])) = Len(queue[p]) - 1
              /\ \A i \in 1..(Len(queue[p]) - 1) : Tail(queue[p])[i] = queue[p][i + 1]
<1> DEFINE p == PoolOf[w]
<1>1. p \in Pools /\ queue[p] \in Seq(TaskJobs \cup TimerJobs)
  BY RuntimeAssumption DEF TypeInv
<1>2. queue[p] # <<>> /\ thr[w].pc = "wait" /\ queue' = [queue EXCEPT ![p] = Tail(queue[p])]
  BY DEF Take
<1> HIDE DEF p
<1>3. PICK q : q = queue[p]
  OBVIOUS
<1>4. /\ Len(q) \in Nat /\ Len(q) >= 1 /\ q[1] \in TaskJobs \cup TimerJobs /\ Head(q) = q[1]
      /\ Tail(q) \in Seq(TaskJobs \cup TimerJobs)
      /\ Len(Tail(q)) = Len(q) - 1
      /\ \A i \in 1..(Len(q) - 1) : Tail(q)[i] = q[i + 1]
  BY <1>1, <1>2, <1>3
<1>5. Head(q).kind = "timer" <=> q[1] \in TimerJobs
  BY <1>4, JobKinds
<1>6. thr' = [thr EXCEPT ![w] = [pc |-> IF q[1] \in TimerJobs THEN "exec" ELSE "run",
                                 job |-> q[1]]]
  BY <1>3, <1>4, <1>5 DEF Take, p
<1> QED
  BY <1>1, <1>2, <1>3, <1>4, <1>6 DEF p

LEMMA WorkType == ASSUME TypeInv, AtWork, NEW w \in Threads, Work(w) PROVE TypeInv'
<1> USE DEF tvars, pvars
<1>1. w \in Everyone /\ thr[w] \in Thread /\ thr \in [Everyone -> Thread]
  BY DEF TypeInv, Everyone
<1>2. CASE Take(w)
  <2>1. thr' \in [Everyone -> Thread] /\ queue' \in [Pools -> Seq(TaskJobs \cup TimerJobs)]
    <3>1. PICK p, r : /\ p = PoolOf[w]
                      /\ r = [pc |-> IF queue[p][1] \in TimerJobs THEN "exec" ELSE "run",
                              job |-> queue[p][1]]
      OBVIOUS
    <3>2. thr' = [thr EXCEPT ![w] = r] /\ r \in Thread
      BY <1>2, <3>1, TakeFacts DEF Thread
    <3>3. queue' = [queue EXCEPT ![p] = Tail(queue[p])] /\ Tail(queue[p]) \in Seq(TaskJobs \cup TimerJobs)
      BY <1>2, <3>1, TakeFacts
    <3> QED
      BY <1>1, <3>2, <3>3 DEF TypeInv
  <2> QED
    BY <1>2, <2>1 DEF Take, TypeInv
<1>3. CASE Exit(w)
  BY <1>1, <1>3, ThreadChanges DEF Exit, TypeInv
<1>4. CASE exec(w)
  <2>1. thr' \in [Everyone -> Thread]
    BY <1>1, <1>4, ThreadChanges, IdleIsThread DEF exec
  <2>2. timers' \in [Ids -> Timer]
    <3>1. PICK t : t = thr[w].job.id
      OBVIOUS
    <3>2. t \in Ids /\ timers[t] \in Timer
      BY <1>1, <1>4, <3>1, JobKinds DEF exec, AtWork, TypeInv
    <3>3. timers' \in {[timers EXCEPT ![t].func = FALSE], [timers EXCEPT ![t].done = TRUE]}
      BY <1>4, <3>1 DEF exec
    <3>4. [timers[t] EXCEPT !.func = FALSE] \in Timer /\ [timers[t] EXCEPT !.done = TRUE] \in Timer
      BY <3>2, TimerChanges
    <3> QED
      BY <3>2, <3>3, <3>4 DEF TypeInv
  <2> QED
    BY <1>4, <2>1, <2>2 DEF exec, TypeInv
<1>5. CASE call(w)
  <2>1. thr' \in [Everyone -> Thread]
    BY <1>1, <1>5, ThreadChanges DEF call
  <2>2. timers' \in [Ids -> Timer]
    <3>1. PICK t : t = thr[w].job.id
      OBVIOUS
    <3>2. timers' = [timers EXCEPT ![t].calls = @ + 1, ![t].left = Left(t)]
      BY <1>5, <3>1 DEF call
    <3>3. t \in Ids
      BY <1>1, <1>5, <3>1, JobKinds DEF call, AtWork
    <3>4. timers[t] \in Timer
      BY <3>3 DEF TypeInv
    <3>5. Left(t) \in Int /\ timers[t].calls + 1 \in Nat
      BY <3>4 DEF Left, Timer
    <3>6. [timers[t] EXCEPT !.calls = timers[t].calls + 1, !.left = Left(t)] \in Timer
      BY <3>4, <3>5, TimerChanges
    <3> QED
      BY <3>2, <3>3, <3>6 DEF TypeInv
  <2> QED
    BY <1>5, <2>1, <2>2 DEF call, TypeInv
<1> QED
  BY <1>2, <1>3, <1>4, <1>5 DEF Work

LEMMA OtherType ==
    ASSUME TypeInv, NEW w \in Everyone,
           \/ Reach(w) \/ Operate(w) \/ Finish(w) \/ NetExit \/ Advance
           \/ \E task \in Tasks : Read(task)
    PROVE  TypeInv'
<1> USE DEF tvars, pvars
<1>1. thr[w] \in Thread /\ thr \in [Everyone -> Thread] /\ thr["net"] \in Thread
  BY DEF TypeInv, Everyone
<1>2. CASE Reach(w)
  BY <1>1, <1>2, ThreadChanges DEF Reach, TypeInv
<1>3. CASE Operate(w)
  <2>1. thr' \in [Everyone -> Thread]
    BY <1>1, <1>3, ThreadChanges DEF Operate
  <2>2. PICK t \in Ids : (\E ms \in Timeouts : call_later(t, ms, Cleanup(w))) \/ cancel(t) \/ remove(t)
    BY <1>3 DEF Operate
  <2>3. timers' \in [Ids -> Timer]
    <3>1. timers[t] \in Timer
      BY DEF TypeInv
    <3>2. CASE \E ms \in Timeouts : call_later(t, ms, Cleanup(w))
      <4>1. Cleanup(w) \in BOOLEAN
        BY DEF Cleanup
      <4> QED
        BY <3>2, <4>1, TimersAre DEF call_later, TypeInv
    <3>3. CASE cancel(t)
      <4>1. [timers[t] EXCEPT !.canceled = TRUE] \in Timer
        BY <3>1, TimerChanges
      <4> QED
        BY <3>3, <4>1 DEF cancel, TypeInv
    <3>4. CASE remove(t)
      <4>1. [timers[t] EXCEPT !.func = FALSE, !.canceled = TRUE] \in Timer
        BY <3>1, TimerChanges
      <4> QED
        BY <3>4, <4>1 DEF remove, TypeInv
    <3> QED
      BY <2>2, <3>2, <3>3, <3>4
  <2> QED
    BY <1>3, <2>1, <2>3 DEF Operate, TypeInv
<1>4. CASE Finish(w)
  <2>1. thr' \in [Everyone -> Thread]
    BY <1>1, <1>4, IdleIsThread DEF Finish
  <2>2. timers' \in [Ids -> Timer]
    <3>1. CASE timers' = timers
      BY <3>1 DEF TypeInv
    <3>2. CASE thr[w].job.kind = "timer" /\ timers' = [timers EXCEPT ![thr[w].job.id].done = TRUE]
      <4>1. PICK t : t = thr[w].job.id
        OBVIOUS
      <4>2. t \in Ids /\ timers[t] \in Timer
        BY <1>1, <3>2, <4>1, JobKinds DEF Thread, TypeInv
      <4>3. [timers[t] EXCEPT !.done = TRUE] \in Timer
        BY <4>2, TimerChanges
      <4> QED
        BY <3>2, <4>1, <4>2, <4>3 DEF TypeInv
    <3> QED
      BY <1>4, <3>1, <3>2 DEF Finish
  <2>3. queue' \in [Pools -> Seq(TaskJobs \cup TimerJobs)]
    <3>1. CASE queue' = queue
      BY <3>1 DEF TypeInv
    <3>2. CASE /\ thr[w].job.kind = "task" /\ thr[w].job.rest # <<>>
               /\ QueueJob(Head(thr[w].job.rest), Task(Tail(thr[w].job.rest)))
      <4>1. thr[w].job.rest \in Seq(Pools)
        BY <1>1, <3>2, JobKinds DEF Thread
      <4>2. Head(thr[w].job.rest) \in Pools /\ Tail(thr[w].job.rest) \in Seq(Pools)
        BY <3>2, <4>1
      <4> QED
        BY <3>2, <4>2, JobKinds, QueueType
    <3> QED
      BY <1>4, <3>1, <3>2 DEF Finish
  <2> QED
    BY <1>4, <2>1, <2>2, <2>3 DEF Finish, TypeInv
<1>5. CASE NetExit
  BY <1>1, <1>5, ThreadChanges DEF NetExit, TypeInv
<1>6. CASE Advance
  BY <1>6 DEF Advance, TypeInv
<1>7. ASSUME NEW task \in Tasks, Read(task) PROVE TypeInv'
  <2>1. Task(task) \in TaskJobs
    BY RuntimeAssumption, JobKinds
  <2>2. [pc |-> "run", job |-> Task(task)] \in Thread
    BY <2>1 DEF Thread
  <2>3. thr' \in [Everyone -> Thread]
    BY <1>1, <1>7, <2>2 DEF Read
  <2> QED
    BY <1>7, <2>3 DEF Read, TypeInv
<1> QED
  BY <1>2, <1>3, <1>4, <1>5, <1>6, <1>7

LEMMA NextType == TypeInv /\ AtWork /\ [Next]_vars => TypeInv'
<1> SUFFICES ASSUME TypeInv, AtWork, [Next]_vars PROVE TypeInv'
  OBVIOUS
<1>1. CASE UNCHANGED vars
  BY <1>1 DEF vars, TypeInv
<1>2. CASE Next
  <2>1. CASE NetExit \/ Advance \/ \E task \in Tasks : Read(task)
    <3>1. "net" \in Everyone
      BY DEF Everyone
    <3> QED
      BY <2>1, <3>1, OtherType
  <2> QED
    BY <1>2, <2>1, StartType, TickType, CloseType, WorkType, OtherType DEF Next, Everyone
<1> QED
  BY <1>1, <1>2

-----------------------------------------------------------------------------
(* The timers' invariant holds *)

\* What happens to a timer that is not executed: nothing its life depends on,
\* or it is started.
Same(t) ==
    /\ timers'[t].st = "none" => timers[t].st = "none"
    /\ timers[t].st = "none" => timers'[t] = timers[t]
    /\ timers'[t].st = "erased" => timers[t].st = "erased"
    /\ timers'[t].done = timers[t].done
    /\ timers'[t].called_at = timers[t].called_at
    /\ timers'[t].started = timers[t].started
    /\ timers'[t].timeout = timers[t].timeout
    /\ timers'[t].calls = timers[t].calls
    /\ timers'[t].left = timers[t].left
    /\ timers[t].canceled => timers'[t].canceled

Born(t) ==
    /\ timers[t].st = "none"
    /\ timers'[t].st = "held" /\ ~timers'[t].done
    /\ timers'[t].called_at = 0 /\ timers'[t].calls = 0

\* The jobs stay where they are.
JobsStay ==
    /\ queue' = queue
    /\ \A w \in Everyone :
         /\ thr'[w].job = thr[w].job
         /\ thr'[w].pc \in {"exec", "call"} => thr[w].pc \in {"exec", "call"}
         /\ thr'[w].pc \in {"none", "wait", "exit"} <=> thr[w].pc \in {"none", "wait", "exit"}

\* The main thread's part: a tick has a time, and the router starts to run
\* once.
MainGoes ==
    /\ ticker'.pc \in Early => ticker.pc \in Early /\ timers' = timers /\ thr'["net"].pc = thr["net"].pc
    /\ ticker'.pc = "tick" => ticker'.at >= 1
    /\ ticker'.todo # {} => ticker'.pc = "tick"

LEMMA NewTimerIsBorn ==
    ASSUME TypeInv, NEW ms \in Timeouts, NEW link \in BOOLEAN
    PROVE  /\ NewTimer(ms, link).st = "held" /\ ~NewTimer(ms, link).done
           /\ NewTimer(ms, link).called_at = 0 /\ NewTimer(ms, link).calls = 0
BY DEF NewTimer, NoTimer

LEMMA CalmStep ==
    ASSUME TypeInv, TimerInv, JobsStay, MainGoes, \A t \in Ids : Same(t) \/ Born(t)
    PROVE  TimerInv'
<1> USE DEF TimerInv
<1>1. /\ \A w, t : w \in Everyone => (Holds(w, t)' <=> Holds(w, t))
      /\ \A i, t : Queued(i, t)' <=> Queued(i, t)
  BY DEF Holds, Queued, JobsStay
<1>2. \A t : Ref(t)' <=> Ref(t)
  BY <1>1 DEF Ref
<1>3. AtWork'
  BY DEF AtWork, JobsStay
<1>4. TimersInLogic'
  BY DEF TimersInLogic, JobsStay, Everyone
<1>5. NothingYet' /\ TickTime'
  BY DEF NothingYet, TickTime, JobsStay, MainGoes
<1>6. OneRef'
  BY <1>1 DEF OneRef
<1>7. ASSUME NEW t \in Ids PROVE Life(t)'
  <2>1. timers[t] \in Timer
    BY DEF TypeInv
  <2>2. CASE Same(t)
    BY <1>1, <1>2, <2>1, <2>2 DEF Life, Same, JobsStay, Timer
  <2>3. CASE Born(t)
    <3>1. ~Ref(t) /\ ~Ref(t)'
      BY <1>2, <2>3 DEF Born, Life, NoTimer
    <3>2. (\A w \in Everyone : ~Holds(w, t)') /\ \A i \in Nat : ~Queued(i, t)'
      BY <3>1 DEF Ref
    <3> QED
      BY <2>3, <3>1, <3>2 DEF Born, Life
  <2> QED
    BY <2>2, <2>3
<1>8. ZeroMeansDue'
  <2> SUFFICES ASSUME NEW t \in Ids, timers'[t].calls > 0, timers'[t].left = 0
               PROVE  \/ timers'[t].called_at - timers'[t].started >= timers'[t].timeout
                      \/ timers'[t].canceled /\ timers'[t].called_at = timers'[t].started
    BY DEF ZeroMeansDue
  <2>1. CASE Same(t)
    BY <2>1 DEF Same, ZeroMeansDue
  <2>2. CASE Born(t)
    BY <2>2 DEF Born
  <2> QED
    BY <2>1, <2>2
<1> QED
  BY <1>3, <1>4, <1>5, <1>6, <1>7, <1>8

LEMMA InitTimer == Init => TimerInv
<1> SUFFICES ASSUME Init PROVE TimerInv
  OBVIOUS
<1>1. \A w \in Everyone, t \in Ids : ~Holds(w, t)
  BY JobKinds DEF Init, Holds, Everyone
<1>2. \A i, t : ~Queued(i, t)
  BY DEF Init, Queued, Pools
<1>3. AtWork /\ TimersInLogic /\ NothingYet /\ TickTime
  BY JobKinds DEF Init, AtWork, TimersInLogic, NothingYet, TickTime, Early, Everyone, NoTimer
<1>4. OneRef
  BY <1>1, <1>2 DEF OneRef
<1>5. ASSUME NEW t \in Ids PROVE Life(t)
  BY <1>1, <1>2 DEF Life, Ref, Init, NoTimer
<1>6. ZeroMeansDue
  BY DEF Init, ZeroMeansDue, NoTimer
<1> QED
  BY <1>3, <1>4, <1>5, <1>6 DEF TimerInv

LEMMA TimersSame == timers' = timers => \A t \in Ids : Same(t)
BY DEF Same

LEMMA StartTimer == ASSUME TypeInv, TimerInv, Start PROVE TimerInv'
<1> USE DEF TimerInv
<1>1. CASE InitPools
  <2>1. timers' = timers /\ queue' = queue /\ ticker' = [ticker EXCEPT !.pc = "pools"] /\ ticker.pc = "config"
    BY <1>1 DEF InitPools
  <2>2. \A w \in Everyone : thr[w].job = NoJob /\ thr[w].pc \in {"none", "wait", "exit"}
    BY <2>1 DEF NothingYet, AtWork, Early
  <2>3. \A w \in Everyone : thr'[w] \in {Idle, thr[w]}
    BY <1>1 DEF InitPools, StartPools, Everyone
  <2>4. thr'["net"] = thr["net"]
    BY <1>1 DEF InitPools, StartPools
  <2>5. JobsStay
    BY <2>1, <2>2, <2>3 DEF JobsStay, Idle
  <2>6. MainGoes
    BY <2>1, <2>4 DEF MainGoes, Early, TickTime, TypeInv
  <2> QED
    BY <2>1, <2>5, <2>6, TimersSame, CalmStep
<1>2. CASE Configure
  <2>1. timers' = timers /\ queue' = queue /\ thr' = thr
    BY <1>2 DEF Configure, pvars
  <2>2. ticker.pc = "pools" /\ ticker' \in {[ticker EXCEPT !.pc = "configured"], [ticker EXCEPT !.pc = "return"]}
    BY <1>2 DEF Configure
  <2>3. JobsStay
    BY <2>1 DEF JobsStay
  <2>4. MainGoes
    BY <2>1, <2>2 DEF MainGoes, Early, TickTime, TypeInv
  <2> QED
    BY <2>1, <2>3, <2>4, TimersSame, CalmStep
<1>3. CASE RunRouter
  <2>1. ticker.pc = "configured" /\ queue' = queue
    BY <1>3 DEF RunRouter, pvars
  <2>2. ticker' \in {[ticker EXCEPT !.pc = "wait"], [ticker EXCEPT !.pc = "return"]}
    BY <1>3 DEF RunRouter
  <2>3. thr' \in {thr, [thr EXCEPT !["net"] = Idle]}
    BY <1>3 DEF RunRouter
  <2>4. /\ \A w \in Everyone : thr[w].job = NoJob /\ thr[w].pc \in {"none", "wait", "exit"}
        /\ \A t \in Ids : timers[t].st = "none"
    BY <2>1 DEF NothingYet, AtWork, Early
  <2>5. JobsStay
    BY <2>1, <2>3, <2>4 DEF JobsStay, Idle, TypeInv, Everyone
  <2>6. MainGoes
    BY <2>1, <2>2 DEF MainGoes, Early, TickTime, TypeInv
  <2>7. CASE timers' = timers
    BY <2>5, <2>6, <2>7, TimersSame, CalmStep
  <2>8. ASSUME NEW ms \in Timeouts, NEW us \in Timeouts,
               timers' = [timers EXCEPT ![1] = NewTimer(ms, TRUE), ![2] = NewTimer(us, FALSE)]
        PROVE  TimerInv'
    <3>1. ASSUME NEW t \in Ids PROVE Same(t) \/ Born(t)
      <4>1. CASE timers'[t] = timers[t]
        BY <4>1 DEF Same
      <4>2. CASE timers'[t] \in {NewTimer(ms, TRUE), NewTimer(us, FALSE)}
        BY <2>4, <4>2, NewTimerIsBorn DEF Born
      <4> QED
        BY <2>8, <4>1, <4>2 DEF TypeInv
    <3> QED
      BY <2>5, <2>6, <3>1, CalmStep
  <2> QED
    BY <1>3, <2>7, <2>8 DEF RunRouter
<1> QED
  BY <1>1, <1>2, <1>3 DEF Start

LEMMA CloseTimer == ASSUME TypeInv, TimerInv, Close \/ SigINT PROVE TimerInv'
<1> USE DEF TimerInv
<1>1. queue' = queue /\ thr' = thr
  BY DEF Close, SigINT, StopRouter, CancelTimer, StopWorker, JoinWorker, StopLogic, JoinLogic, StopTimer,
         FreeAll, JoinNet, pvars
<1>2. ticker' \in {ticker, [ticker EXCEPT !.todo = {}]}
  BY DEF Close, SigINT, StopRouter, CancelTimer, StopWorker, JoinWorker, StopLogic, JoinLogic, StopTimer,
         FreeAll, JoinNet, tvars
<1>3. JobsStay
  BY <1>1 DEF JobsStay
<1>4. \/ timers' = timers
      \/ timers' = [t \in Ids |-> IF timers[t].st = "held" THEN [timers[t] EXCEPT !.st = "cleared"]
                                  ELSE timers[t]]
      \/ timers' = [t \in Ids |-> IF t \in close.id /\ timers[t].st = "held"
                                  THEN [timers[t] EXCEPT !.canceled = TRUE] ELSE timers[t]]
  BY DEF Close, SigINT, StopRouter, CancelTimer, StopWorker, JoinWorker, StopLogic, JoinLogic, StopTimer,
         FreeAll, JoinNet, tvars
<1>5. ASSUME NEW t \in Ids PROVE Same(t)
  <2>1. timers[t] \in Timer
    BY DEF TypeInv
  <2>2. CASE timers'[t] = timers[t]
    BY <2>2 DEF Same
  <2>3. CASE timers[t].st = "held" /\ timers'[t] = [timers[t] EXCEPT !.st = "cleared"]
    BY <2>1, <2>3 DEF Same, Timer
  <2>4. CASE timers[t].st = "held" /\ timers'[t] = [timers[t] EXCEPT !.canceled = TRUE]
    BY <2>1, <2>4 DEF Same, Timer
  <2> QED
    BY <1>4, <2>2, <2>3, <2>4
<1>6. ticker.pc \in Early => timers' = timers
  <2> SUFFICES ASSUME ticker.pc \in Early
               PROVE  timers' = timers
    OBVIOUS
  <2>1. \A t \in Ids : timers[t].st # "held"
    BY DEF NothingYet
  <2> QED
    BY <1>4, <2>1 DEF TypeInv
<1>7. MainGoes
  BY <1>1, <1>2, <1>6 DEF MainGoes, TickTime, TypeInv
<1> QED
  BY <1>3, <1>5, <1>7, CalmStep

LEMMA QuietTimer ==
    ASSUME TypeInv, TimerInv,
           Wake \/ tick_end \/ Advance \/ NetExit \/ (\E w \in Threads : Exit(w))
             \/ \E w \in Everyone : Reach(w)
    PROVE  TimerInv'
<1> USE DEF TimerInv
<1>1. timers' = timers /\ queue' = queue
  BY DEF Wake, tick_end, Advance, NetExit, Exit, Reach, tvars, pvars
<1>2. \/ thr' = thr
      \/ \E w \in Everyone : /\ thr[w].pc = "wait" /\ thr' = [thr EXCEPT ![w].pc = "exit"]
                            /\ ticker' = ticker
      \/ \E w \in Everyone : /\ thr[w].pc = "run" /\ thr' = [thr EXCEPT ![w].pc = "lock"]
                            /\ ticker' = ticker
  BY DEF Wake, tick_end, Advance, NetExit, Exit, Reach, tvars, pvars, Everyone
<1>3. JobsStay
  <2>1. thr \in [Everyone -> Thread]
    BY DEF TypeInv
  <2> QED
    BY <1>1, <1>2, <2>1 DEF JobsStay, Thread
<1>4. CASE ticker' = ticker
  <2>1. ticker.pc \in Early => thr'["net"].pc = thr["net"].pc
    <3> SUFFICES ASSUME ticker.pc \in Early PROVE thr'["net"].pc = thr["net"].pc
      OBVIOUS
    <3>1. thr["net"].pc = "none" /\ \A w \in Everyone : thr[w].pc \in {"none", "wait", "exit"}
      BY DEF NothingYet, AtWork
    <3> QED
      BY <1>2, <3>1 DEF TypeInv, Everyone
  <2>2. MainGoes
    BY <1>1, <1>4, <2>1 DEF MainGoes, TickTime
  <2> QED
    BY <1>1, <1>3, <2>2, TimersSame, CalmStep
<1>5. CASE Wake \/ tick_end
  <2>1. MainGoes
    BY <1>5 DEF Wake, tick_end, MainGoes, TickTime, TypeInv, Early
  <2> QED
    BY <1>1, <1>3, <2>1, TimersSame, CalmStep
<1> QED
  BY <1>4, <1>5 DEF Advance, NetExit, Exit, Reach, tvars

LEMMA OperateTimer ==
    ASSUME TypeInv, TimerInv, NEW w \in Everyone, Operate(w)
    PROVE  TimerInv'
<1> USE DEF TimerInv
<1>1. /\ thr[w].pc = "lock" /\ thr' = [thr EXCEPT ![w].pc = "ran"]
      /\ queue' = queue /\ ticker' = ticker
  BY DEF Operate, pvars
<1>2. JobsStay
  BY <1>1 DEF JobsStay, TypeInv, Thread
<1>3. ticker.pc \notin Early
  BY <1>1 DEF NothingYet, AtWork
<1>4. MainGoes
  BY <1>1, <1>3 DEF MainGoes, TickTime
<1>5. PICK t \in Ids :
        (\E ms \in Timeouts : call_later(t, ms, Cleanup(w))) \/ cancel(t) \/ remove(t)
  BY DEF Operate
<1>6. timers[t] \in Timer /\ timers \in [Ids -> Timer]
  BY DEF TypeInv
<1>7. \A u \in Ids : u # t => timers'[u] = timers[u]
  BY <1>5, <1>6 DEF call_later, cancel, remove
<1>8. Same(t) \/ Born(t)
  <2>1. CASE \E ms \in Timeouts : call_later(t, ms, Cleanup(w))
    <3>1. Cleanup(w) \in BOOLEAN
      BY DEF Cleanup
    <3> QED
      BY <1>6, <2>1, <3>1, NewTimerIsBorn DEF call_later, Fresh, Born
  <2>2. CASE cancel(t)
    <3>1. CASE timers[t].st = "held"
      <4>1. timers'[t] = [timers[t] EXCEPT !.canceled = TRUE]
        BY <1>6, <2>2, <3>1 DEF cancel
      <4> QED
        BY <1>6, <3>1, <4>1 DEF Same, Timer
    <3>2. CASE timers[t].st # "held"
      BY <2>2, <3>2, TimersSame DEF cancel
    <3> QED
      BY <3>1, <3>2
  <2>3. CASE remove(t)
    <3>1. CASE timers[t].st = "held"
      <4>1. timers'[t] = [timers[t] EXCEPT !.func = FALSE, !.canceled = TRUE]
        BY <1>6, <2>3, <3>1 DEF remove
      <4> QED
        BY <1>6, <3>1, <4>1 DEF Same, Timer
    <3>2. CASE timers[t].st # "held"
      BY <2>3, <3>2, TimersSame DEF remove
    <3> QED
      BY <3>1, <3>2
  <2> QED
    BY <1>5, <2>1, <2>2, <2>3
<1>9. ASSUME NEW u \in Ids, u # t PROVE Same(u)
  BY <1>7, <1>9 DEF Same
<1> QED
  BY <1>2, <1>4, <1>8, <1>9, CalmStep

\* QueueJob adds a job at the end or drops it.
LEMMA QueueGrows ==
    ASSUME TypeInv, NEW p \in Pools, NEW job \in TaskJobs \cup TimerJobs, QueueJob(p, job)
    PROVE  /\ \A o \in Pools : o # p => queue'[o] = queue[o]
           /\ Len(queue[p]) \in Nat
           /\ \/ queue'[p] = queue[p]
              \/ /\ pool[p] = "live" /\ ~stop[p]
                 /\ Len(queue'[p]) = Len(queue[p]) + 1
                 /\ queue'[p][Len(queue[p]) + 1] = job
                 /\ \A i \in 1..Len(queue[p]) : queue'[p][i] = queue[p][i]
<1>1. PICK q : q = queue[p]
  OBVIOUS
<1>2. q \in Seq(TaskJobs \cup TimerJobs) /\ queue \in [Pools -> Seq(TaskJobs \cup TimerJobs)]
  BY <1>1 DEF TypeInv
<1>3. /\ Len(q) \in Nat /\ Len(Append(q, job)) = Len(q) + 1
      /\ Append(q, job)[Len(q) + 1] = job
      /\ \A i \in 1..Len(q) : Append(q, job)[i] = q[i]
  BY <1>2
<1>4. queue' = queue \/ (pool[p] = "live" /\ ~stop[p] /\ queue' = [queue EXCEPT ![p] = Append(q, job)])
  BY <1>1 DEF QueueJob
<1> QED
  BY <1>1, <1>2, <1>3, <1>4

\* Which places of the logic queue refer to a timer afterwards.
LEMMA QueuedGrows ==
    ASSUME TypeInv, NEW p \in Pools, NEW job \in TaskJobs \cup TimerJobs, QueueJob(p, job),
           NEW t \in Ids, NEW i \in Nat
    PROVE  /\ Queued(i, t) => Queued(i, t)'
           /\ Queued(i, t)' => \/ Queued(i, t)
                              \/ /\ p = "logic" /\ job = TimerJob(t)
                                 /\ i = Len(queue["logic"]) + 1
<1>1. CASE p = "logic"
  BY <1>1, QueueGrows DEF Queued
<1>2. CASE p # "logic"
  BY <1>2, QueueGrows DEF Queued, Pools
<1> QED
  BY <1>1, <1>2

LEMMA tick_oneTimer ==
    ASSUME TypeInv, TimerInv, NEW t \in Ids, tick_one(t)
    PROVE  TimerInv'
<1> USE DEF TimerInv
<1>1. /\ ticker' = [ticker EXCEPT !.todo = @ \ {t}] /\ thr' = thr
      /\ t \in ticker.todo
  BY DEF tick_one
<1>2. /\ ticker.pc = "tick" /\ ticker.at \in Nat /\ ticker.at >= 1
      /\ ticker'.pc = "tick" /\ ticker'.at = ticker.at
  BY <1>1 DEF TickTime, TypeInv
<1>3. timers \in [Ids -> Timer] /\ timers[t] \in Timer
  BY DEF TypeInv
<1>4. NothingYet' /\ TickTime' /\ AtWork' /\ thr'["net"].job \notin TimerJobs
  BY <1>1, <1>2 DEF NothingYet, TickTime, AtWork, Early, TimersInLogic
<1>5. \A w \in Everyone, u \in Ids : Holds(w, u)' <=> Holds(w, u)
  BY <1>1 DEF Holds
<1>6. CASE timers' = timers /\ queue' = queue
  <2>1. JobsStay /\ MainGoes
    BY <1>1, <1>2, <1>6 DEF JobsStay, MainGoes, Early
  <2> QED
    BY <1>6, <2>1, TimersSame, CalmStep
<1>7. CASE Erases(t) /\ timers' = [timers EXCEPT ![t].st = "erased"] /\ queue' = queue
  <2>1. timers'[t] = [timers[t] EXCEPT !.st = "erased"] /\ \A u \in Ids : u # t => timers'[u] = timers[u]
    BY <1>3, <1>7
  <2>2. /\ timers'[t].st = "erased" /\ timers'[t].done /\ timers[t].done
        /\ timers'[t].called_at = timers[t].called_at /\ timers'[t].started = timers[t].started
        /\ timers'[t].timeout = timers[t].timeout /\ timers'[t].calls = timers[t].calls
        /\ timers'[t].left = timers[t].left /\ (timers'[t].canceled <=> timers[t].canceled)
    BY <1>3, <1>7, <2>1 DEF Timer, Erases
  <2>3. \A i \in Nat, u \in Ids : Queued(i, u)' <=> Queued(i, u)
    BY <1>7 DEF Queued
  <2>4. \A u \in Ids : Ref(u)' <=> Ref(u)
    BY <1>5, <2>3 DEF Ref
  <2>5. TimersInLogic'
    BY <1>4, <1>7 DEF TimersInLogic
  <2>6. OneRef'
    BY <1>5, <2>3 DEF OneRef
  <2>7. ASSUME NEW u \in Ids PROVE Life(u)'
    <3>1. CASE u = t
      <4>1. ~Ref(t) /\ ~Ref(t)' /\ timers[t].called_at # 0 /\ timers[t].calls <= 1
        BY <2>2, <2>4 DEF Life
      <4>2. (\A w \in Everyone : ~Holds(w, t)') /\ \A i \in Nat : ~Queued(i, t)'
        BY <4>1 DEF Ref
      <4>3. \/ timers[t].called_at - timers[t].started >= timers[t].timeout
            \/ timers[t].canceled
        BY <4>1 DEF Life
      <4> QED
        BY <2>2, <3>1, <4>1, <4>2, <4>3 DEF Life
    <3>2. CASE u # t
      BY <1>1, <1>5, <2>1, <2>3, <2>4, <3>2 DEF Life
    <3> QED
      BY <3>1, <3>2
  <2>8. ZeroMeansDue'
    <3> SUFFICES ASSUME NEW u \in Ids, timers'[u].calls > 0, timers'[u].left = 0
                 PROVE  \/ timers'[u].called_at - timers'[u].started >= timers'[u].timeout
                        \/ timers'[u].canceled /\ timers'[u].called_at = timers'[u].started
      BY DEF ZeroMeansDue
    <3> QED
      BY <2>1, <2>2 DEF ZeroMeansDue
  <2> QED
    BY <1>4, <2>5, <2>6, <2>7, <2>8
<1>8. CASE /\ Due(t) /\ Hits(t) /\ timers' = [timers EXCEPT ![t].called_at = ticker.at]
           /\ QueueJob("logic", TimerJob(t))
  <2>1. timers'[t] = [timers[t] EXCEPT !.called_at = ticker.at] /\ \A u \in Ids : u # t => timers'[u] = timers[u]
    BY <1>3, <1>8
  <2>2. /\ timers'[t].st = timers[t].st /\ (timers'[t].done <=> timers[t].done)
        /\ timers'[t].called_at = ticker.at /\ timers'[t].started = timers[t].started
        /\ timers'[t].timeout = timers[t].timeout /\ timers'[t].calls = timers[t].calls
        /\ timers'[t].left = timers[t].left /\ (timers'[t].canceled <=> timers[t].canceled)
        /\ timers[t].called_at = 0 /\ timers[t].func
    BY <1>3, <1>8, <2>1 DEF Timer, Hits
  <2>3. timers[t].st # "none" /\ timers[t].st # "erased" /\ ~timers[t].done /\ ~Ref(t) /\ timers[t].calls = 0
    BY <2>2 DEF Life, NoTimer
  <2>4. "logic" \in Pools /\ TimerJob(t) \in TaskJobs \cup TimerJobs
    BY JobKinds DEF Pools
  <2>5. \A i \in Nat, u \in Ids :
           /\ Queued(i, u) => Queued(i, u)'
           /\ Queued(i, u)' => Queued(i, u) \/ (u = t /\ i = Len(queue["logic"]) + 1)
    BY <1>8, <2>4, QueuedGrows DEF TimerJob
  <2>6. \A u \in Ids : u # t => (Ref(u)' <=> Ref(u))
    BY <1>5, <2>5 DEF Ref
  <2>7. TimersInLogic'
    BY <1>4, <1>8, <2>4, QueueGrows DEF TimersInLogic
  <2>8. OneRef'
    BY <1>5, <2>3, <2>5 DEF OneRef, Ref
  <2>9. ASSUME NEW u \in Ids PROVE Life(u)'
    <3>1. CASE u = t
      <4>1. \/ timers'[t].called_at - timers'[t].started >= timers'[t].timeout
            \/ timers'[t].canceled
        BY <1>8, <2>2 DEF Due
      <4>2. /\ timers'[t].called_at # 0 /\ timers'[t].calls = 0 /\ ~timers'[t].done
            /\ timers'[t].st # "none" /\ timers'[t].st # "erased"
        BY <1>2, <2>2, <2>3
      <4> QED
        BY <3>1, <4>1, <4>2 DEF Life
    <3>2. CASE u # t
      <4>1. \A i \in Nat : Queued(i, u)' <=> Queued(i, u)
        BY <2>5, <3>2
      <4> QED
        BY <1>1, <1>5, <2>1, <2>6, <3>2, <4>1 DEF Life
    <3> QED
      BY <3>1, <3>2
  <2>10. ZeroMeansDue'
    <3> SUFFICES ASSUME NEW u \in Ids, timers'[u].calls > 0, timers'[u].left = 0
                 PROVE  \/ timers'[u].called_at - timers'[u].started >= timers'[u].timeout
                        \/ timers'[u].canceled /\ timers'[u].called_at = timers'[u].started
      BY DEF ZeroMeansDue
    <3>1. u # t
      BY <2>2, <2>3
    <3>2. timers'[u] = timers[u]
      BY <2>1, <3>1
    <3> QED
      BY <3>2 DEF ZeroMeansDue
  <2> QED
    BY <1>4, <2>7, <2>8, <2>9, <2>10
<1> QED
  BY <1>6, <1>7, <1>8 DEF tick_one

LEMMA TakeTimer ==
    ASSUME TypeInv, TimerInv, NEW w \in Threads, Take(w)
    PROVE  TimerInv'
<1> USE DEF TimerInv
<1>1. PICK p, job, pc :
        p = PoolOf[w] /\ job = queue[p][1] /\ pc = IF job \in TimerJobs THEN "exec" ELSE "run"
  OBVIOUS
<1>2. /\ p \in Pools /\ Len(queue[p]) \in Nat /\ Len(queue[p]) >= 1
      /\ job \in TaskJobs \cup TimerJobs /\ thr[w].pc = "wait"
      /\ thr' = [thr EXCEPT ![w] = [pc |-> pc, job |-> job]]
      /\ queue' = [queue EXCEPT ![p] = Tail(queue[p])]
      /\ Len(Tail(queue[p])) = Len(queue[p]) - 1
      /\ \A i \in 1..(Len(queue[p]) - 1) : Tail(queue[p])[i] = queue[p][i + 1]
  BY <1>1, TakeFacts
<1>3. timers' = timers /\ ticker' = ticker
  BY DEF Take, tvars
<1>4. /\ w \in Everyone /\ w # "net"
      /\ thr'[w].pc = pc /\ thr'[w].job = job
      /\ \A v \in Everyone : v # w => thr'[v] = thr[v]
  BY <1>2, RuntimeAssumption DEF Everyone, TypeInv
<1>5. /\ Len(queue'[p]) = Len(queue[p]) - 1
      /\ \A i \in 1..(Len(queue[p]) - 1) : queue'[p][i] = queue[p][i + 1]
      /\ \A o \in Pools : o # p => queue'[o] = queue[o]
  BY <1>2 DEF TypeInv
<1>6. p # "logic" => job \in TaskJobs
  BY <1>1, <1>2 DEF TimersInLogic
<1>7. \A t \in Ids : job = TimerJob(t) => p = "logic" /\ Queued(1, t) /\ pc = "exec"
  <2> SUFFICES ASSUME NEW t \in Ids, job = TimerJob(t)
               PROVE  p = "logic" /\ Queued(1, t) /\ pc = "exec"
    OBVIOUS
  <2>1. job \in TimerJobs /\ job \notin TaskJobs
    BY JobKinds
  <2>2. p = "logic" /\ pc = "exec"
    BY <1>1, <1>6, <2>1
  <2> QED
    BY <1>1, <1>2, <2>2 DEF Queued
<1>8. ASSUME NEW t \in Ids, NEW i \in Nat, Queued(i, t)'
      PROVE  \/ Queued(i, t) /\ p # "logic"
             \/ Queued(i + 1, t) /\ p = "logic" /\ i # 0
  <2>1. CASE p = "logic"
    BY <1>2, <1>5, <1>8, <2>1 DEF Queued
  <2>2. CASE p # "logic"
    BY <1>5, <1>8, <2>2 DEF Queued, Pools
  <2> QED
    BY <2>1, <2>2
<1>9. \A t \in Ids, v \in Everyone :
        Holds(v, t)' => \/ Holds(v, t) /\ v # w
                        \/ v = w /\ job = TimerJob(t)
  BY <1>4 DEF Holds
<1>10. \A t \in Ids : Ref(t)' => Ref(t)
  <2> SUFFICES ASSUME NEW t \in Ids, Ref(t)' PROVE Ref(t)
    OBVIOUS
  <2>1. CASE \E i \in Nat : Queued(i, t)'
    BY <1>8, <2>1 DEF Ref
  <2>2. CASE \E v \in Everyone : Holds(v, t)'
    BY <1>7, <1>9, <2>2 DEF Ref
  <2> QED
    BY <2>1, <2>2 DEF Ref
<1>11. AtWork'
  BY <1>1, <1>2, <1>4, JobKinds DEF AtWork
<1>12. TimersInLogic'
  <2>1. thr'["net"].job \notin TimerJobs
    BY <1>4 DEF TimersInLogic, Everyone
  <2>2. ASSUME NEW o \in Pools, o # "logic", NEW i \in 1..Len(queue'[o])
        PROVE  queue'[o][i] \in TaskJobs
    BY <1>2, <1>5, <2>2 DEF TimersInLogic
  <2> QED
    BY <2>1, <2>2 DEF TimersInLogic
<1>13. NothingYet' /\ TickTime'
  <2>1. ticker.pc \notin Early
    BY <1>2 DEF NothingYet
  <2> QED
    BY <1>3, <2>1 DEF NothingYet, TickTime
<1>14. OneRef'
  <2> SUFFICES ASSUME NEW t \in Ids
               PROVE  /\ \A v, u \in Everyone : Holds(v, t)' /\ Holds(u, t)' => v = u
                      /\ \A i, k \in Nat : Queued(i, t)' /\ Queued(k, t)' => i = k
                      /\ \A v \in Everyone, i \in Nat : ~(Holds(v, t)' /\ Queued(i, t)')
    BY DEF OneRef
  <2>1. ASSUME NEW v \in Everyone, NEW u \in Everyone, Holds(v, t)', Holds(u, t)'
        PROVE  v = u
    <3>1. CASE job = TimerJob(t)
      <4>1. \A x \in Everyone : ~Holds(x, t)
        BY <1>7, <3>1 DEF OneRef
      <4> QED
        BY <1>9, <2>1, <4>1
    <3>2. CASE job # TimerJob(t)
      BY <1>9, <2>1, <3>2 DEF OneRef
    <3> QED
      BY <3>1, <3>2
  <2>2. ASSUME NEW i \in Nat, NEW k \in Nat, Queued(i, t)', Queued(k, t)'
        PROVE  i = k
    <3>1. CASE p = "logic"
      <4>1. i + 1 \in Nat /\ k + 1 \in Nat /\ Queued(i + 1, t) /\ Queued(k + 1, t)
        BY <1>8, <2>2, <3>1
      <4>2. i + 1 = k + 1
        BY <4>1 DEF OneRef
      <4> QED
        BY <4>2
    <3>2. CASE p # "logic"
      BY <1>8, <2>2, <3>2 DEF OneRef
    <3> QED
      BY <3>1, <3>2
  <2>3. ASSUME NEW v \in Everyone, NEW i \in Nat, Holds(v, t)', Queued(i, t)'
        PROVE  FALSE
    <3>1. PICK k \in Nat : Queued(k, t) /\ (p = "logic" => k = i + 1 /\ i # 0)
      BY <1>8, <2>3
    <3>2. v = w /\ job = TimerJob(t)
      BY <1>9, <2>3, <3>1 DEF OneRef
    <3>3. k = 1
      BY <1>7, <3>1, <3>2 DEF OneRef
    <3> QED
      BY <1>7, <3>1, <3>2, <3>3
  <2> QED
    BY <2>1, <2>2, <2>3
<1>15. ASSUME NEW t \in Ids PROVE Life(t)'
  <2>1. \A i \in Nat : Queued(i, t)' => timers[t].calls = 0
    BY <1>8 DEF Life
  <2>2. \A v \in Everyone :
          Holds(v, t)' /\ thr'[v].pc \in {"exec", "call"} => timers[t].calls = 0
    <3> SUFFICES ASSUME NEW v \in Everyone, Holds(v, t)', thr'[v].pc \in {"exec", "call"}
                 PROVE  timers[t].calls = 0
      OBVIOUS
    <3>1. CASE v = w /\ job = TimerJob(t)
      BY <1>7, <3>1 DEF Life
    <3>2. CASE Holds(v, t) /\ v # w
      BY <1>4, <3>2 DEF Life
    <3> QED
      BY <1>9, <3>1, <3>2
  <2> QED
    BY <1>3, <1>10, <2>1, <2>2 DEF Life
<1>16. ZeroMeansDue'
  BY <1>3 DEF ZeroMeansDue
<1> QED
  BY <1>11, <1>12, <1>13, <1>14, <1>15, <1>16

\* The timer a thread runs in exec or call.
LEMMA Executes ==
    ASSUME TypeInv, TimerInv, NEW w \in Everyone, NEW t, t = thr[w].job.id,
           thr[w].job \in TimerJobs
    PROVE  /\ t \in Ids /\ timers[t] \in Timer /\ timers \in [Ids -> Timer]
           /\ thr[w] \in Thread /\ thr \in [Everyone -> Thread]
           /\ Holds(w, t) /\ Ref(t) /\ timers[t].called_at # 0 /\ ~timers[t].done
           /\ timers[t].st # "none" /\ timers[t].st # "erased"
           /\ ticker.pc \notin Early
           /\ \A v \in Everyone : Holds(v, t) => v = w
           /\ \A i \in Nat : ~Queued(i, t)
<1>1. t \in Ids /\ timers[t] \in Timer /\ timers \in [Ids -> Timer] /\ thr[w] \in Thread /\ thr \in [Everyone -> Thread]
  BY JobKinds DEF TypeInv
<1>2. Holds(w, t) /\ Ref(t)
  BY JobKinds DEF Holds, Ref
<1>3. ticker.pc \notin Early
  BY JobKinds DEF TimerInv, NothingYet
<1>4. timers[t].called_at # 0 /\ ~timers[t].done /\ timers[t].st # "none" /\ timers[t].st # "erased"
  BY <1>1, <1>2 DEF TimerInv, Life, NoTimer
<1> QED
  BY <1>1, <1>2, <1>3, <1>4 DEF TimerInv, OneRef

\* A timer is marked done, and its thread is idle again.
LEMMA DoneTimer ==
    ASSUME TypeInv, TimerInv, NEW w \in Everyone, NEW t, t = thr[w].job.id,
           thr[w].job \in TimerJobs,
           thr' = [thr EXCEPT ![w] = Idle], timers' = [timers EXCEPT ![t].done = TRUE],
           queue' = queue, ticker' = ticker
    PROVE  TimerInv'
<1> USE DEF TimerInv
<1>1. /\ t \in Ids /\ timers[t] \in Timer /\ timers \in [Ids -> Timer]
      /\ thr \in [Everyone -> Thread]
      /\ timers[t].called_at # 0 /\ timers[t].st # "none"
      /\ ticker.pc \notin Early
      /\ \A v \in Everyone : Holds(v, t) => v = w
      /\ \A i \in Nat : ~Queued(i, t)
  BY Executes
<1>2. timers'[t] = [timers[t] EXCEPT !.done = TRUE] /\ \A u \in Ids : u # t => timers'[u] = timers[u]
  BY <1>1
<1>3. /\ timers'[t].st = timers[t].st /\ timers'[t].done
      /\ timers'[t].called_at = timers[t].called_at /\ timers'[t].started = timers[t].started
      /\ timers'[t].timeout = timers[t].timeout /\ timers'[t].calls = timers[t].calls
      /\ timers'[t].left = timers[t].left /\ (timers'[t].canceled <=> timers[t].canceled)
  BY <1>1, <1>2 DEF Timer
<1>4. thr'[w] = Idle /\ \A v \in Everyone : v # w => thr'[v] = thr[v]
  BY <1>1
<1>5. \A u \in Ids, v \in Everyone : Holds(v, u)' => Holds(v, u) /\ v # w
  BY <1>4, JobKinds DEF Holds, Idle
<1>6. \A u \in Ids, i \in Nat : Queued(i, u)' <=> Queued(i, u)
  BY DEF Queued
<1>7. /\ \A u \in Ids : Ref(u)' => Ref(u)
      /\ ~Ref(t)'
  BY <1>1, <1>5, <1>6 DEF Ref
<1>8. AtWork' /\ TimersInLogic' /\ NothingYet' /\ TickTime'
  BY <1>1, <1>4, JobKinds DEF AtWork, TimersInLogic, NothingYet, TickTime, Idle, Everyone
<1>9. OneRef'
  BY <1>5, <1>6 DEF OneRef
<1>10. ASSUME NEW u \in Ids PROVE Life(u)'
  <2>1. CASE u = t
    <3>1. (\A v \in Everyone : ~Holds(v, t)') /\ \A i \in Nat : ~Queued(i, t)'
      BY <1>7 DEF Ref
    <3>2. /\ timers[t].calls <= 1
          /\ \/ timers[t].called_at - timers[t].started >= timers[t].timeout
             \/ timers[t].canceled
      BY <1>1 DEF Life
    <3> QED
      BY <1>1, <1>3, <1>7, <2>1, <3>1, <3>2 DEF Life
  <2>2. CASE u # t
    BY <1>2, <1>4, <1>5, <1>6, <1>7, <2>2 DEF Life
  <2> QED
    BY <2>1, <2>2
<1>11. ZeroMeansDue'
  <2> SUFFICES ASSUME NEW u \in Ids, timers'[u].calls > 0, timers'[u].left = 0
               PROVE  \/ timers'[u].called_at - timers'[u].started >= timers'[u].timeout
                      \/ timers'[u].canceled /\ timers'[u].called_at = timers'[u].started
    BY DEF ZeroMeansDue
  <2> QED
    BY <1>2, <1>3 DEF ZeroMeansDue
<1> QED
  BY <1>8, <1>9, <1>10, <1>11

LEMMA execTimer ==
    ASSUME TypeInv, TimerInv, NEW w \in Threads, exec(w)
    PROVE  TimerInv'
<1> USE DEF TimerInv
<1>1. PICK t : t = thr[w].job.id
  OBVIOUS
<1>2. w \in Everyone /\ thr[w].pc = "exec" /\ thr[w].job \in TimerJobs /\ queue' = queue /\ ticker' = ticker
  BY DEF exec, AtWork, Everyone, pvars
<1>3. /\ t \in Ids /\ timers[t] \in Timer /\ timers \in [Ids -> Timer]
      /\ thr[w] \in Thread /\ thr \in [Everyone -> Thread]
      /\ timers[t].st # "none" /\ ticker.pc \notin Early
  BY <1>1, <1>2, Executes
<1>4. CASE thr' = [thr EXCEPT ![w].pc = "call"] /\ timers' = [timers EXCEPT ![t].func = FALSE]
  <2>1. JobsStay
    BY <1>2, <1>3, <1>4 DEF JobsStay, Thread
  <2>2. MainGoes
    BY <1>2, <1>3 DEF MainGoes, TickTime
  <2>3. ASSUME NEW u \in Ids PROVE Same(u)
    <3>1. CASE u # t
      BY <1>3, <1>4, <3>1 DEF Same
    <3>2. CASE u = t
      <4>1. timers'[t] = [timers[t] EXCEPT !.func = FALSE]
        BY <1>3, <1>4
      <4> QED
        BY <1>3, <3>2, <4>1 DEF Same, Timer
    <3> QED
      BY <3>1, <3>2
  <2> QED
    BY <2>1, <2>2, <2>3, CalmStep
<1>5. CASE thr' = [thr EXCEPT ![w] = Idle] /\ timers' = [timers EXCEPT ![t].done = TRUE]
  BY <1>1, <1>2, <1>5, DoneTimer
<1> QED
  BY <1>1, <1>4, <1>5 DEF exec

LEMMA callTimer ==
    ASSUME TypeInv, TimerInv, NEW w \in Threads, call(w)
    PROVE  TimerInv'
<1> USE DEF TimerInv
<1>1. PICK t : t = thr[w].job.id
  OBVIOUS
<1>2. /\ w \in Everyone /\ thr[w].pc = "call" /\ thr[w].job \in TimerJobs
      /\ queue' = queue /\ ticker' = ticker
      /\ thr' = [thr EXCEPT ![w].pc = "run"]
      /\ timers' = [timers EXCEPT ![t].calls = @ + 1, ![t].left = Left(t)]
  BY <1>1 DEF call, AtWork, Everyone, pvars
<1>3. /\ t \in Ids /\ timers[t] \in Timer /\ timers \in [Ids -> Timer]
      /\ thr[w] \in Thread /\ thr \in [Everyone -> Thread]
      /\ Holds(w, t) /\ timers[t].called_at # 0 /\ ~timers[t].done
      /\ timers[t].st # "none" /\ timers[t].st # "erased" /\ ticker.pc \notin Early
      /\ \A v \in Everyone : Holds(v, t) => v = w
      /\ \A i \in Nat : ~Queued(i, t)
  BY <1>1, <1>2, Executes
<1>4. timers[t].calls = 0
  BY <1>2, <1>3 DEF Life
<1>5. timers'[t] = [timers[t] EXCEPT !.calls = 1, !.left = Left(t)] /\ \A u \in Ids : u # t => timers'[u] = timers[u]
  BY <1>2, <1>3, <1>4 DEF Timer
<1>6. /\ timers'[t].st = timers[t].st /\ (timers'[t].done <=> timers[t].done)
      /\ timers'[t].called_at = timers[t].called_at /\ timers'[t].started = timers[t].started
      /\ timers'[t].timeout = timers[t].timeout /\ timers'[t].calls = 1
      /\ timers'[t].left = Left(t) /\ (timers'[t].canceled <=> timers[t].canceled)
  BY <1>3, <1>5 DEF Timer
<1>7. /\ thr'[w].pc = "run" /\ thr'[w].job = thr[w].job
      /\ \A v \in Everyone : v # w => thr'[v] = thr[v]
  BY <1>2, <1>3 DEF Thread
<1>8. \A u \in Ids, v \in Everyone : Holds(v, u)' <=> Holds(v, u)
  BY <1>7 DEF Holds
<1>9. \A u \in Ids, i \in Nat : Queued(i, u)' <=> Queued(i, u)
  BY <1>2 DEF Queued
<1>10. \A u \in Ids : Ref(u)' <=> Ref(u)
  BY <1>8, <1>9 DEF Ref
<1>11. AtWork' /\ TimersInLogic' /\ NothingYet' /\ TickTime'
  BY <1>2, <1>3, <1>7, JobKinds DEF AtWork, TimersInLogic, NothingYet, TickTime, Everyone
<1>12. OneRef'
  BY <1>8, <1>9 DEF OneRef
<1>13. \/ timers[t].called_at - timers[t].started >= timers[t].timeout
       \/ timers[t].canceled
  BY <1>3 DEF Life
<1>14. ASSUME NEW u \in Ids PROVE Life(u)'
  <2>1. CASE u = t
    <3>1. \A v \in Everyone : Holds(v, t)' => thr'[v].pc = "run"
      BY <1>3, <1>7, <1>8
    <3>2. \A i \in Nat : ~Queued(i, t)'
      BY <1>3, <1>9
    <3> QED
      BY <1>3, <1>6, <1>13, <2>1, <3>1, <3>2 DEF Life
  <2>2. CASE u # t
    <3>1. \A v \in Everyone : Holds(v, u)' /\ thr'[v].pc \in {"exec", "call"} => timers[u].calls = 0
      BY <1>7, <1>8 DEF Life
    <3> QED
      BY <1>5, <1>9, <1>10, <2>2, <3>1 DEF Life
  <2> QED
    BY <2>1, <2>2
<1>15. ZeroMeansDue'
  <2> SUFFICES ASSUME NEW u \in Ids, timers'[u].calls > 0, timers'[u].left = 0
               PROVE  \/ timers'[u].called_at - timers'[u].started >= timers'[u].timeout
                      \/ timers'[u].canceled /\ timers'[u].called_at = timers'[u].started
    BY DEF ZeroMeansDue
  <2>1. CASE u # t
    BY <1>5, <2>1 DEF ZeroMeansDue
  <2>2. CASE u = t
    <3>1. \/ timers[t].called_at - timers[t].started >= timers[t].timeout
          \/ timers[t].called_at - timers[t].started = 0
      BY <1>6, <2>2 DEF Left
    <3>2. timers[t].called_at \in Nat /\ timers[t].started \in Nat
      BY <1>3 DEF Timer
    <3> QED
      BY <1>6, <1>13, <2>2, <3>1, <3>2
  <2> QED
    BY <2>1, <2>2
<1> QED
  BY <1>11, <1>12, <1>14, <1>15

\* A step with a task: no thread takes, leaves or goes on with a timer.
LEMMA TaskStep ==
    ASSUME TypeInv, TimerInv, timers' = timers, ticker' = ticker, ticker.pc \notin Early,
           NEW w \in Everyone, thr[w].job \notin TimerJobs, thr'[w].job \notin TimerJobs,
           \A v \in Everyone : v # w => thr'[v] = thr[v],
           AtWork', TimersInLogic',
           \A t \in Ids, i \in Nat : Queued(i, t)' <=> Queued(i, t)
    PROVE  TimerInv'
<1> USE DEF TimerInv
<1>1. \A t \in Ids, v \in Everyone : Holds(v, t)' => Holds(v, t) /\ v # w
  BY JobKinds DEF Holds
<1>2. \A t \in Ids : Ref(t)' => Ref(t)
  BY <1>1 DEF Ref
<1>3. NothingYet' /\ TickTime'
  BY DEF NothingYet, TickTime
<1>4. OneRef'
  BY <1>1 DEF OneRef
<1>5. ASSUME NEW t \in Ids PROVE Life(t)'
  <2>1. \A v \in Everyone : Holds(v, t)' /\ thr'[v].pc \in {"exec", "call"} => timers[t].calls = 0
    BY <1>1 DEF Life
  <2> QED
    BY <1>2, <2>1 DEF Life
<1>6. ZeroMeansDue'
  BY DEF ZeroMeansDue
<1> QED
  BY <1>3, <1>4, <1>5, <1>6

LEMMA FinishTimer ==
    ASSUME TypeInv, TimerInv, NEW w \in Everyone, Finish(w)
    PROVE  TimerInv'
<1> USE DEF TimerInv
<1>1. /\ thr[w].pc \in {"run", "ran"} /\ thr' = [thr EXCEPT ![w] = Idle]
      /\ ticker' = ticker /\ thr[w] \in Thread /\ thr \in [Everyone -> Thread]
  BY DEF Finish, TypeInv
<1>2. thr'[w] = Idle /\ \A v \in Everyone : v # w => thr'[v] = thr[v]
  BY <1>1
<1>3. thr[w].job \in TaskJobs \cup TimerJobs
  BY <1>1 DEF AtWork, Thread
<1>4. ticker.pc \notin Early
  BY <1>3, JobKinds DEF NothingYet
<1>5. AtWork' /\ thr'["net"].job \notin TimerJobs
  BY <1>2, JobKinds DEF AtWork, TimersInLogic, Idle, Everyone
<1>6. CASE thr[w].job.kind = "timer"
  <2>1. thr[w].job \in TimerJobs
    BY <1>3, <1>6, JobKinds
  <2>2. timers' = [timers EXCEPT ![thr[w].job.id].done = TRUE] /\ queue' = queue
    BY <1>6 DEF Finish
  <2> QED
    BY <1>1, <2>1, <2>2, DoneTimer
<1>7. CASE thr[w].job.kind = "task"
  <2>1. thr[w].job \in TaskJobs /\ thr[w].job \notin TimerJobs /\ thr'[w].job \notin TimerJobs
    BY <1>2, <1>3, <1>7, JobKinds DEF Idle
  <2>2. timers' = timers
    BY <1>7 DEF Finish
  <2>3. CASE queue' = queue
    <3>1. TimersInLogic' /\ \A t \in Ids, i \in Nat : Queued(i, t)' <=> Queued(i, t)
      BY <1>5, <2>3 DEF TimersInLogic, Queued
    <3> QED
      BY <1>1, <1>2, <1>4, <1>5, <2>1, <2>2, <3>1, TaskStep
  <2>4. CASE thr[w].job.rest # <<>> /\ QueueJob(Head(thr[w].job.rest), Task(Tail(thr[w].job.rest)))
    <3>1. PICK p, job : p = Head(thr[w].job.rest) /\ job = Task(Tail(thr[w].job.rest))
      OBVIOUS
    <3>2. thr[w].job.rest \in Seq(Pools)
      BY <2>1, JobKinds
    <3>3. p \in Pools /\ job \in TaskJobs
      <4>1. Head(thr[w].job.rest) \in Pools /\ Tail(thr[w].job.rest) \in Seq(Pools)
        BY <2>4, <3>2
      <4> QED
        BY <3>1, <4>1, JobKinds
    <3>4. \A t \in Ids : job # TimerJob(t)
      BY <3>3, JobKinds
    <3>5. \A t \in Ids, i \in Nat : Queued(i, t)' <=> Queued(i, t)
      BY <2>4, <3>1, <3>3, <3>4, QueuedGrows
    <3>6. ASSUME NEW o \in Pools, o # "logic", NEW i \in 1..Len(queue'[o])
          PROVE  queue'[o][i] \in TaskJobs
      BY <2>4, <3>1, <3>3, <3>6, QueueGrows DEF TimersInLogic
    <3>7. TimersInLogic'
      BY <1>5, <3>6 DEF TimersInLogic
    <3> QED
      BY <1>1, <1>2, <1>4, <1>5, <2>1, <2>2, <3>5, <3>7, TaskStep
  <2> QED
    BY <1>7, <2>3, <2>4 DEF Finish
<1> QED
  BY <1>3, <1>6, <1>7, JobKinds

LEMMA ReadTimer ==
    ASSUME TypeInv, TimerInv, NEW task \in Tasks, Read(task)
    PROVE  TimerInv'
<1> USE DEF TimerInv
<1>1. /\ thr["net"].pc = "wait" /\ thr' = [thr EXCEPT !["net"] = [pc |-> "run", job |-> Task(task)]]
      /\ timers' = timers /\ ticker' = ticker /\ queue' = queue /\ thr \in [Everyone -> Thread]
  BY DEF Read, tvars, pvars, TypeInv
<1>2. "net" \in Everyone
  BY DEF Everyone
<1>3. Task(task) \in TaskJobs
  BY RuntimeAssumption, JobKinds
<1>4. /\ thr'["net"].pc = "run" /\ thr'["net"].job = Task(task)
      /\ \A v \in Everyone : v # "net" => thr'[v] = thr[v]
  BY <1>1, <1>2
<1>5. ticker.pc \notin Early
  BY <1>1 DEF NothingYet
<1>6. thr'["net"].job \notin TimerJobs /\ thr["net"].job \notin TimerJobs
  BY <1>3, <1>4, JobKinds DEF TimersInLogic
<1>7. AtWork'
  BY <1>3, <1>4, JobKinds DEF AtWork
<1>8. TimersInLogic' /\ \A t \in Ids, i \in Nat : Queued(i, t)' <=> Queued(i, t)
  BY <1>1, <1>6 DEF TimersInLogic, Queued
<1> QED
  BY <1>1, <1>2, <1>4, <1>5, <1>6, <1>7, <1>8, TaskStep

LEMMA NextTimer == TypeInv /\ TimerInv /\ [Next]_vars => TimerInv'
<1> SUFFICES ASSUME TypeInv, TimerInv, [Next]_vars PROVE TimerInv'
  OBVIOUS
<1>1. CASE UNCHANGED vars
  BY <1>1 DEF vars, TimerInv, AtWork, TimersInLogic, NothingYet, TickTime, OneRef, Life, Ref, Holds,
              Queued, ZeroMeansDue
<1>2. CASE Next
  <2>1. CASE Tick
    BY <2>1, QuietTimer, tick_oneTimer DEF Tick
  <2>2. CASE NetExit \/ Advance
    BY <2>2, QuietTimer
  <2>3. ASSUME NEW w \in Threads, Work(w) PROVE TimerInv'
    BY <2>3, TakeTimer, QuietTimer, execTimer, callTimer DEF Work
  <2>4. ASSUME NEW w \in Everyone, Reach(w) \/ Operate(w) \/ Finish(w) PROVE TimerInv'
    BY <2>4, QuietTimer, OperateTimer, FinishTimer
  <2> QED
    BY <1>2, <2>1, <2>2, <2>3, <2>4, StartTimer, CloseTimer, ReadTimer DEF Next, Everyone
<1> QED
  BY <1>1, <1>2

-----------------------------------------------------------------------------
(* The invariant of pools and of Close holds *)

LEMMA InitClose == Init => CloseInv
BY RuntimeAssumption DEF Init, CloseInv, PoolsStart, LeftDone, CloseOrder, Interrupted, AfterWorker,
   AfterLogic, Everyone, Pools

LEMMA StartClose == ASSUME TypeInv, TimerInv, CloseInv, Start PROVE CloseInv'
<1> USE DEF CloseInv
<1>1. Main /\ ticker.pc \in Early /\ close' = close /\ run' = run /\ queue' = queue /\ stop' = stop
  BY DEF Start, InitPools, Configure, RunRouter, Early, pvars
<1>2. close.at # "wait" /\ close.pc \in {"no", "done"}
  BY <1>1 DEF Interrupted, Main, Early
<1>3. CASE InitPools
  <2>1. ticker.pc = "config" /\ ticker'.pc = "pools" /\ links' = links /\ touched' = touched
    BY <1>3 DEF InitPools, TypeInv
  <2>2. (\A p \in Pools : pool'[p] = "live") /\ \A w \in Threads : thr'[w] = Idle
    BY <1>3, RuntimeAssumption DEF InitPools, StartPools
  <2> QED
    BY <1>1, <1>2, <2>1, <2>2 DEF PoolsStart, LeftDone, CloseOrder, Interrupted, AfterWorker,
                                  AfterLogic, Idle, Pools
<1>4. CASE Configure \/ RunRouter
  <2>1. pool' = pool /\ \A w \in Threads : thr'[w] = thr[w]
    BY <1>4, RuntimeAssumption DEF Configure, RunRouter, pvars, TypeInv, Everyone
  <2>2. /\ ticker.pc # "config" /\ ticker'.pc # "config"
        /\ ticker'.pc \in {"configured", "wait", "tick"} => links' # "none"
        /\ close.pc = "no" => touched' = touched
    BY <1>4 DEF Configure, RunRouter, TypeInv, Interrupted
  <2>3. Interrupted'
    BY <1>1, <1>2, <2>2 DEF Interrupted
  <2>4. \A p \in Pools : Joined(p)' <=> Joined(p)
    BY <2>1 DEF Joined
  <2>5. CloseOrder'
    BY <1>1, <2>1, <2>4 DEF CloseOrder, Pools
  <2> QED
    BY <1>1, <2>1, <2>2, <2>3, <2>5 DEF PoolsStart, LeftDone
<1> QED
  BY <1>3, <1>4 DEF Start

\* A step that neither starts, ends nor frees anything, and gives a job to a
\* pool at most if it is live and not stopped.
LEMMA CalmClose ==
    ASSUME TypeInv, CloseInv, close' = close, pool' = pool, stop' = stop, links' = links, run' = run,
           \A w \in Threads : thr'[w].pc = thr[w].pc
                               \/ {thr[w].pc, thr'[w].pc} \cap {"none", "exit"} = {},
           \A p \in Pools : queue[p] = <<>> =>
                              queue'[p] = <<>> \/ (pool[p] = "live" /\ ~stop[p]),
           ticker'.pc = "config" <=> ticker.pc = "config",
           Interrupted'
    PROVE  CloseInv'
<1> USE DEF CloseInv
<1>1. \A p \in Pools : Joined(p)' <=> Joined(p)
  BY DEF Joined
<1>2. PoolsStart'
  BY DEF PoolsStart
<1>3. LeftDone'
  BY RuntimeAssumption DEF LeftDone
<1>4. CloseOrder'
  BY <1>1 DEF CloseOrder, Pools
<1> QED
  BY <1>2, <1>3, <1>4

LEMMA TickClose == ASSUME TypeInv, TimerInv, CloseInv, Tick PROVE CloseInv'
<1> USE DEF CloseInv
<1>1. /\ close' = close /\ pool' = pool /\ stop' = stop /\ links' = links /\ run' = run /\ thr' = thr
      /\ close.pc \in {"no", "done"}
  BY DEF Tick, Wake, tick_end, tick_one, pvars, Main
<1>2. CASE Wake
  <2>1. /\ ticker.pc = "wait" /\ queue' = queue /\ touched' = touched
        /\ ticker'.pc = IF run THEN "tick" ELSE "return"
    BY <1>2 DEF Wake, pvars, TypeInv
  <2>2. Interrupted'
    BY <1>1, <2>1 DEF Interrupted
  <2> QED
    BY <1>1, <2>1, <2>2, CalmClose
<1>3. CASE tick_end
  <2>1. ticker.pc = "tick" /\ ticker'.pc = "wait" /\ queue' = queue /\ touched' = touched
    BY <1>3 DEF tick_end, pvars
  <2>2. Interrupted'
    BY <1>1, <2>1 DEF Interrupted
  <2> QED
    BY <1>1, <2>1, <2>2, CalmClose
<1>4. ASSUME NEW t \in Ids, tick_one(t) PROVE CloseInv'
  <2>1. ticker.pc = "tick" /\ ticker'.pc = "tick"
    BY <1>4 DEF tick_one, TimerInv, TickTime, TypeInv
  <2>2. \A p \in Pools : queue[p] = <<>> => queue'[p] = <<>> \/ (pool[p] = "live" /\ ~stop[p])
    BY <1>4 DEF tick_one, QueueJob, TypeInv
  <2>3. close.at # "wait"
    BY <2>1 DEF Interrupted
  <2>4. close.pc = "no" => touched' = touched
    <3> SUFFICES ASSUME close.pc = "no" PROVE touched' = touched
      OBVIOUS
    <3>1. pool["logic"] = "live"
      BY <2>1 DEF PoolsStart, CloseOrder, AfterLogic, TypeInv, Pools
    <3> QED
      BY <1>4, <3>1 DEF tick_one, Touches
  <2>5. Interrupted'
    BY <1>1, <2>1, <2>3, <2>4 DEF Interrupted
  <2> QED
    BY <1>1, <2>1, <2>2, <2>5, CalmClose
<1> QED
  BY <1>2, <1>3, <1>4 DEF Tick

LEMMA InterruptedStays ==
    ASSUME CloseInv, close' = close, links' = links, run' = run, ticker' = ticker, touched' = touched
    PROVE  Interrupted'
BY DEF CloseInv, Interrupted

LEMMA WorkClose ==
    ASSUME TypeInv, TimerInv, CloseInv, NEW w \in Threads, Work(w)
    PROVE  CloseInv'
<1> USE DEF CloseInv
<1>1. /\ close' = close /\ pool' = pool /\ stop' = stop /\ links' = links /\ run' = run
      /\ ticker' = ticker /\ touched' = touched
  BY DEF Work, Take, Exit, exec, call, tvars, pvars
<1>2. Interrupted'
  BY <1>1, InterruptedStays
<1>3. w \in Everyone /\ thr[w] \in Thread /\ thr \in [Everyone -> Thread] /\ PoolOf[w] \in Pools
  BY RuntimeAssumption DEF TypeInv, Everyone
<1>4. CASE Take(w)
  <2>1. PICK p : p = PoolOf[w]
    OBVIOUS
  <2>2. /\ queue[p] # <<>> /\ thr[w].pc = "wait" /\ thr'[w].pc \in {"exec", "run"}
        /\ \A v \in Threads : v # w => thr'[v] = thr[v]
        /\ \A o \in Pools : o # p => queue'[o] = queue[o]
    BY <1>3, <1>4, <2>1 DEF Take, TypeInv, Everyone
  <2> QED
    BY <1>1, <1>2, <2>2, CalmClose
<1>5. CASE exec(w) \/ call(w)
  <2>1. /\ queue' = queue /\ thr[w].pc \in {"exec", "call"} /\ thr'[w].pc \in {"call", "wait", "run"}
        /\ \A v \in Threads : v # w => thr'[v] = thr[v]
    BY <1>3, <1>5 DEF exec, call, pvars, Idle, Thread, Everyone
  <2> QED
    BY <1>1, <1>2, <2>1, CalmClose
<1>6. CASE Exit(w)
  <2>1. /\ queue' = queue /\ thr[w].pc = "wait" /\ thr'[w].pc = "exit"
        /\ stop[PoolOf[w]] /\ queue[PoolOf[w]] = <<>>
        /\ \A v \in Threads : v # w => thr'[v] = thr[v]
    BY <1>3, <1>6 DEF Exit, pvars, Thread, Everyone
  <2>2. PoolsStart' /\ LeftDone'
    BY <1>1, <2>1 DEF PoolsStart, LeftDone
  <2>3. \A p \in Pools : Joined(p) => Joined(p)'
    BY <2>1 DEF Joined
  <2>4. CloseOrder'
    BY <1>1, <2>1, <2>3 DEF CloseOrder, Pools
  <2> QED
    BY <1>2, <2>2, <2>4
<1> QED
  BY <1>4, <1>5, <1>6 DEF Work

\* While a thread is at work, the pools are there, unless Close has passed its
\* pool by: it has then waited for the thread.
LEMMA PoolsLive ==
    ASSUME TypeInv, TimerInv, CloseInv, NEW w \in Everyone, thr[w].job # NoJob, NEW p \in Pools
    PROVE  /\ close.pc = "no" => pool[p] = "live"
           /\ close.at = "wait" /\ w \in Threads /\ PoolOf[w] # "disk" => pool[p] = "live"
<1> USE DEF CloseInv
<1>1. pool[p] # "none"
  BY DEF TimerInv, NothingYet, Early, PoolsStart
<1>2. pool[p] # "live" => pool[p] = "freed"
  BY <1>1 DEF TypeInv
<1>3. close.pc = "no" => pool[p] = "live"
  BY <1>2 DEF CloseOrder, AfterLogic, Pools
<1>4. ASSUME close.at = "wait", w \in Threads, PoolOf[w] # "disk"
      PROVE  pool[p] = "live"
  <2>1. thr[w].pc \notin {"none", "exit"}
    BY DEF TimerInv, AtWork
  <2>2. ~Joined(PoolOf[w]) /\ PoolOf[w] \in {"worker", "logic"}
    BY <1>4, <2>1, RuntimeAssumption DEF Joined, Pools
  <2>3. close.pc \notin {"stop_timer", "free_worker", "join_net", "done"}
    BY <1>4, <2>2 DEF CloseOrder, AfterWorker, AfterLogic
  <2> QED
    BY <1>2, <2>3 DEF CloseOrder, AfterLogic, Pools
<1> QED
  BY <1>3, <1>4

LEMMA FinishClose ==
    ASSUME TypeInv, TimerInv, CloseInv, NEW w \in Everyone, Finish(w)
    PROVE  CloseInv'
<1> USE DEF CloseInv
<1>1. /\ close' = close /\ pool' = pool /\ stop' = stop /\ links' = links /\ run' = run
      /\ ticker' = ticker /\ thr[w].pc \in {"run", "ran"} /\ thr' = [thr EXCEPT ![w] = Idle]
  BY DEF Finish
<1>2. /\ thr'[w].pc = "wait"
      /\ \A v \in Threads : v # w => thr'[v] = thr[v]
  BY <1>1 DEF TypeInv, Idle, Everyone
<1>3. thr[w].job # NoJob /\ thr[w].job \in TaskJobs \cup TimerJobs
  BY <1>1 DEF TimerInv, AtWork, TypeInv, Thread
<1>4. \A p \in Pools : queue[p] = <<>> => queue'[p] = <<>> \/ (pool[p] = "live" /\ ~stop[p])
  BY DEF Finish, QueueJob, TypeInv
<1>5. CASE touched' = touched
  BY <1>1, <1>2, <1>4, <1>5, InterruptedStays, CalmClose
<1>6. CASE /\ thr[w].job.kind = "task" /\ thr[w].job.rest # <<>>
           /\ touched' = Touches(IF w = "net" THEN w ELSE PoolOf[w], Head(thr[w].job.rest))
  <2>1. PICK p : p = Head(thr[w].job.rest)
    OBVIOUS
  <2>2. thr[w].job.rest \in Seq(Pools)
    BY <1>3, <1>6, JobKinds
  <2>3. p \in Pools
    BY <1>6, <2>1, <2>2
  <2>4. CASE pool[p] = "live"
    BY <1>5, <1>6, <2>1, <2>4 DEF Touches
  <2>5. CASE pool[p] # "live"
    <3>1. close.pc # "no"
      BY <1>3, <2>3, <2>5, PoolsLive
    <3>2. close.at = "wait" => w = "net" \/ PoolOf[w] = "disk"
      BY <1>3, <2>3, <2>5, PoolsLive DEF Everyone
    <3>3. touched' = touched \cup {IF w = "net" THEN w ELSE PoolOf[w]}
      BY <1>6, <2>1, <2>5 DEF Touches
    <3>4. Interrupted'
      BY <1>1, <3>1, <3>2, <3>3 DEF Interrupted
    <3> QED
      BY <1>1, <1>2, <1>4, <3>4, CalmClose
  <2> QED
    BY <2>4, <2>5
<1> QED
  BY <1>5, <1>6 DEF Finish

LEMMA OtherClose ==
    ASSUME TypeInv, TimerInv, CloseInv,
           \/ NetExit \/ Advance
           \/ \E w \in Everyone : Reach(w) \/ Operate(w)
           \/ \E task \in Tasks : Read(task)
    PROVE  CloseInv'
<1> USE DEF CloseInv
<1>1. /\ close' = close /\ pool' = pool /\ stop' = stop /\ links' = links /\ run' = run
      /\ ticker' = ticker /\ touched' = touched /\ queue' = queue
  BY DEF NetExit, Advance, Reach, Operate, Read, tvars, pvars
<1>2. thr \in [Everyone -> Thread]
  BY DEF TypeInv
<1>3. \A w \in Threads : thr'[w].pc = thr[w].pc
                         \/ {thr[w].pc, thr'[w].pc} \cap {"none", "exit"} = {}
  <2>1. CASE NetExit \/ Advance \/ \E task \in Tasks : Read(task)
    BY <1>2, <2>1, RuntimeAssumption DEF NetExit, Advance, Read, Everyone
  <2>2. ASSUME NEW w \in Everyone, Reach(w) \/ Operate(w)
        PROVE  \A v \in Threads : thr'[v].pc = thr[v].pc
                                  \/ {thr[v].pc, thr'[v].pc} \cap {"none", "exit"} = {}
    <3>1. thr[w].pc \in {"run", "lock"} /\ thr'[w].pc \in {"lock", "ran"} /\ \A v \in Threads : v # w => thr'[v] = thr[v]
      BY <1>2, <2>2 DEF Reach, Operate, Thread, Everyone
    <3> QED
      BY <3>1
  <2> QED
    BY <2>1, <2>2
<1> QED
  BY <1>1, <1>3, InterruptedStays, CalmClose

\* A pool that has its threads and is joined has done its jobs.
LEMMA JoinedIsDone ==
    ASSUME CloseInv, NEW p \in Pools, Joined(p), pool[p] = "live"
    PROVE  queue[p] = <<>>
<1>1. PICK w \in Threads : PoolOf[w] = p
  BY RuntimeAssumption
<1>2. thr[w].pc = "exit"
  BY <1>1 DEF CloseInv, PoolsStart, Joined
<1> QED
  BY <1>1, <1>2 DEF CloseInv, LeftDone

LEMMA CloseClose == ASSUME TypeInv, TimerInv, CloseInv, Close \/ SigINT PROVE CloseInv'
<1> USE DEF CloseInv, AfterWorker, AfterLogic, Goto
<1>1. thr' = thr /\ queue' = queue /\ ticker'.pc = ticker.pc
  BY DEF Close, SigINT, StopRouter, CancelTimer, StopWorker, JoinWorker, StopLogic, JoinLogic, StopTimer,
         FreeAll, JoinNet, pvars, tvars, TypeInv
<1>2. \A p : Joined(p)' <=> Joined(p)
  BY <1>1 DEF Joined
<1>3. CASE SigINT
  <2>1. /\ close.pc = "no" /\ close'.pc = "stop_router" /\ close'.at = ticker.pc
        /\ pool' = pool /\ stop' = stop /\ links' = links /\ run' = run /\ touched' = touched
    BY <1>3 DEF SigINT, pvars, tvars
  <2> QED
    BY <1>1, <1>2, <2>1 DEF PoolsStart, LeftDone, CloseOrder, Interrupted, Pools
<1>4. CASE StopRouter \/ CancelTimer
  <2>1. /\ close.pc \in {"stop_router", "cancel_timer"}
        /\ close'.pc \in {"cancel_timer", "stop_worker"} /\ close'.at = close.at
        /\ pool' = pool /\ stop' = stop /\ run' = run
        /\ links # "none" => links' # "none" /\ touched' = touched
    BY <1>4 DEF StopRouter, CancelTimer, CloseLink, pvars, tvars, TypeInv
  <2> QED
    BY <1>1, <1>2, <2>1 DEF PoolsStart, LeftDone, CloseOrder, Interrupted, Pools
<1>5. CASE StopWorker \/ StopLogic
  <2>1. /\ \/ close.pc = "stop_worker" /\ close'.pc = "join_worker"
           \/ close.pc = "stop_logic" /\ close'.pc = "join_logic"
        /\ close'.at = close.at /\ pool' = pool /\ links' = links /\ run' = run /\ touched' = touched
        /\ \A p \in Pools : stop[p] => stop'[p]
    BY <1>5 DEF StopWorker, StopLogic, Stop, tvars, TypeInv
  <2>2. LeftDone'
    BY <1>1, <2>1, RuntimeAssumption DEF LeftDone
  <2> QED
    BY <1>1, <1>2, <2>1, <2>2 DEF PoolsStart, CloseOrder, Interrupted, Pools
<1>6. CASE JoinWorker
  <2>1. /\ close.pc = "join_worker" /\ close'.pc = "stop_logic" /\ Joined("worker")
        /\ close'.at = close.at /\ pool' = pool /\ stop' = stop /\ links' = links /\ run' = run
        /\ touched' = touched
    BY <1>6 DEF JoinWorker, pvars, tvars, TypeInv
  <2> QED
    BY <1>1, <1>2, <2>1 DEF PoolsStart, LeftDone, CloseOrder, Interrupted, Pools
<1>7. CASE JoinLogic
  <2>1. /\ close.pc = "join_logic" /\ close'.pc = "stop_timer" /\ Joined("logic")
        /\ close'.at = close.at /\ stop' = stop /\ links' = links /\ run' = run
        /\ touched' = touched /\ pool' = [pool EXCEPT !["logic"] = Free("logic")]
    BY <1>7 DEF JoinLogic, tvars, TypeInv
  <2>2. /\ \A p \in Pools : p # "logic" => pool'[p] = pool[p]
        /\ pool'["logic"] = "none" <=> pool["logic"] = "none"
        /\ "logic" \in Pools
        /\ pool'["logic"] = "freed" => queue["logic"] = <<>>
    BY <2>1, JoinedIsDone DEF Free, TypeInv, Pools, CloseOrder
  <2> QED
    BY <1>1, <1>2, <2>1, <2>2 DEF PoolsStart, LeftDone, CloseOrder, Interrupted, Pools
<1>8. CASE StopTimer
  <2>1. /\ close.pc = "stop_timer" /\ close'.pc = "free_worker"
        /\ close'.at = close.at /\ pool' = pool /\ stop' = stop /\ links' = links
        /\ run' = (IF pool["logic"] = "none" THEN run ELSE FALSE)
        /\ touched' = touched
    BY <1>8 DEF StopTimer, pvars, TypeInv
  <2>2. close.at = "wait" => ~run'
    BY <2>1 DEF Interrupted, PoolsStart, Pools
  <2> QED
    BY <1>1, <1>2, <2>1, <2>2 DEF PoolsStart, LeftDone, CloseOrder, Interrupted, Pools
<1>9. CASE FreeAll
  <2>1. /\ close.pc = "free_worker" /\ close'.pc = "join_net"
        /\ close'.at = close.at /\ stop' = stop /\ links' = links /\ run' = run
        /\ touched' = touched /\ pool' = [pool EXCEPT !["worker"] = Free("worker")]
    BY <1>9 DEF FreeAll, tvars, TypeInv
  <2>2. /\ \A p \in Pools : p # "worker" => pool'[p] = pool[p]
        /\ pool'["worker"] = "none" <=> pool["worker"] = "none"
        /\ "worker" \in Pools
        /\ pool'["worker"] = "freed" => queue["worker"] = <<>>
    BY <2>1, JoinedIsDone DEF Free, TypeInv, Pools, CloseOrder
  <2> QED
    BY <1>1, <1>2, <2>1, <2>2 DEF PoolsStart, LeftDone, CloseOrder, Interrupted, Pools
<1>10. CASE JoinNet
  <2>1. /\ close.pc = "join_net" /\ close'.pc = "done"
        /\ close'.at = close.at /\ pool' = pool /\ stop' = stop /\ links' = links /\ run' = run
        /\ ticker.pc # "tick" => touched' = touched
    BY <1>10 DEF JoinNet, pvars, TypeInv, TimerInv, TickTime
  <2> QED
    BY <1>1, <1>2, <2>1 DEF PoolsStart, LeftDone, CloseOrder, Interrupted, Pools
<1> QED
  BY <1>3, <1>4, <1>5, <1>6, <1>7, <1>8, <1>9, <1>10 DEF Close

-----------------------------------------------------------------------------
(* The theorems *)

LEMMA NextHolds == IInv /\ [Next]_vars => IInv'
<1> SUFFICES ASSUME IInv, [Next]_vars PROVE IInv'
  OBVIOUS
<1> USE DEF IInv
<1>1. TypeInv'
  BY NextType DEF TimerInv
<1>2. TimerInv'
  BY NextTimer
<1>3. CASE UNCHANGED vars
  <2>1. CloseInv'
    BY <1>3 DEF vars, CloseInv, PoolsStart, LeftDone, CloseOrder, Joined, Interrupted
  <2> QED
    BY <1>1, <1>2, <2>1
<1>4. CASE Next
  <2>1. CloseInv'
    BY <1>4, StartClose, TickClose, CloseClose, WorkClose, FinishClose, OtherClose
       DEF Next, Everyone
  <2> QED
    BY <1>1, <1>2, <2>1
<1> QED
  BY <1>3, <1>4

\* The inductive invariant of timers, pools and threads holds, wherever the
\* signal interrupted udap_timer_run.
THEOREM InvariantHolds == Spec => []IInv
<1>1. Init => IInv
  BY InitType, InitTimer, InitClose DEF IInv
<1> QED
  BY <1>1, NextHolds, PTL DEF Spec

\* timer::exec is queued once and calls the handler at most once, and
\* udap_timer_tick_all deletes no timer that a thread or a queue refers to.
THEOREM TimersAreAlive == Spec => []TimerIsAlive
<1>1. IInv => TimerIsAlive
  <2> SUFFICES ASSUME IInv, NEW t \in Ids
               PROVE  /\ Refs(t) + (IF timers[t].done THEN 1 ELSE 0) <= 1
                      /\ timers[t].st = "erased" => Refs(t) = 0
                      /\ timers[t].calls <= 1
    BY DEF TimerIsAlive
  <2>1. Life(t) /\ OneRef
    BY DEF IInv, TimerInv
  <2> DEFINE W == {w \in Threads : thr[w].job = TimerJob(t)}
             Q == {i \in 1..Len(queue["logic"]) : queue["logic"][i] = TimerJob(t)}
  <2>2. Len(queue["logic"]) \in Nat
    BY DEF IInv, TypeInv, Pools
  <2>3. (\A w \in W : w \in Everyone /\ Holds(w, t)) /\ \A i \in Q : i \in Nat /\ Queued(i, t)
    BY <2>2 DEF Everyone, Holds, Queued
  <2>4. Refs(t) = Cardinality(W) + Cardinality(Q)
    BY DEF Refs
  <2>5. W # {} \/ Q # {} => Ref(t)
    BY <2>3 DEF Ref
  <2> HIDE DEF W, Q
  <2>6. CASE W = {} /\ Q = {}
    <3>1. Cardinality(W) = 0 /\ Cardinality(Q) = 0
      BY <2>6, FS_EmptySet
    <3> QED
      BY <2>1, <2>4, <3>1 DEF Life
  <2>7. CASE W # {}
    <3>1. PICK w : W = {w}
      BY <2>1, <2>3, <2>7 DEF OneRef
    <3>2. Q = {}
      BY <2>1, <2>3, <3>1 DEF OneRef
    <3>3. Cardinality(W) = 1 /\ Cardinality(Q) = 0
      BY <3>1, <3>2, FS_EmptySet, FS_Singleton
    <3> QED
      BY <2>1, <2>4, <2>5, <2>7, <3>3 DEF Life
  <2>8. CASE W = {} /\ Q # {}
    <3>1. PICK i : Q = {i}
      BY <2>1, <2>3, <2>8 DEF OneRef
    <3>2. Cardinality(W) = 0 /\ Cardinality(Q) = 1
      BY <2>8, <3>1, FS_EmptySet, FS_Singleton
    <3> QED
      BY <2>1, <2>4, <2>5, <2>8, <3>2 DEF Life
  <2> QED
    BY <2>6, <2>7, <2>8
<1> QED
  BY <1>1, InvariantHolds, PTL

\* timer::exec tells a handler 0 only when its time is up, or when the timer
\* was cancelled in the millisecond it was started.
THEOREM ZeroIsDue == Spec => []ZeroMeansDue
<1>1. IInv => ZeroMeansDue
  BY DEF IInv, TimerInv
<1> QED
  BY <1>1, InvariantHolds, PTL

\* Context::Close frees a pool when its queue is empty, and, between two ticks,
\* leaves no job of a worker or of the logic thread that uses a pool that has
\* gone.
THEOREM StopsInOrder == Spec => []StopOrder
<1>1. IInv => StopOrder
  BY DEF IInv, CloseInv, CloseOrder, Interrupted, StopOrder
<1> QED
  BY <1>1, InvariantHolds, PTL
=============================================================================
