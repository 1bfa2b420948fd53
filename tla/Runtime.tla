------------------------------ MODULE Runtime ------------------------------
(***************************************************************************)
(* The threads of the daemon and what runs in them: the pools of workers   *)
(* (udap/threadpool.cpp), the timers that the main thread ticks and the    *)
(* logic thread executes (udap/timer.cpp, udap/logic.cpp), the event loop  *)
(* of the net thread (udap/ev_epoll.hpp), and the start and the stop of    *)
(* the whole by Context::Run and Context::Close (udap/context.cpp).        *)
(*                                                                         *)
(* Modelled is the daemon with threads; the single threaded mode is not.   *)
(* SIGINT interrupts the main thread, which then runs Close from the       *)
(* handler and goes on where it was.  timersMutex is held over several     *)
(* steps only by the tick.  A timer's func is read once by exec: the loads *)
(* of the check and of the call are one in an optimised build.             *)
(*                                                                         *)
(* Operators named Mut... are wrong on purpose: forms that a plausible bug *)
(* would give the definition after them.  No specification uses them.      *)
(***************************************************************************)
EXTENDS Integers, Sequences, FiniteSets

CONSTANTS
    MaxTimers,      \* bound: timers started, one id for each call_later
    Timeouts,       \* their timeouts in ticks of the clock
    Threads,        \* the threads of the pools
    PoolOf,         \* PoolOf[w]: the pool of thread w
    Tasks,          \* what a datagram sets going: the pools it passes through
    MaxTasks,       \* bound: datagrams read
    MaxOps,         \* bound: calls of the timers from jobs
    MaxTime         \* bound: the clock stops here

Pools == {"worker", "logic", "disk"}

Ids == 1..MaxTimers

ASSUME RuntimeAssumption ==
    /\ Timeouts \subseteq Nat \ {0} /\ MaxTimers \in Nat /\ MaxTime \in Nat /\ MaxTasks \in Nat /\ MaxOps \in Nat
    /\ PoolOf \in [Threads -> Pools] /\ Tasks \subseteq Seq(Pools)
    /\ "net" \notin Threads /\ \A p \in Pools : \E w \in Threads : PoolOf[w] = p

VARIABLES
    now,        \* udap_time_now_ms
    timers,     \* the timers and whether the map has them
    ticker,     \* the main thread: pc, and in a tick the timers left to visit and
                \* the time it began
    run,        \* udap_timer_context::_run
    queue,      \* queue[p]: the jobs of a pool
    stop,       \* stop[p]
    pool,       \* pool[p]: "none", "live" or "freed"
    thr,        \* thr[w]: a pool's thread or the net thread
    links,      \* the router's links: "none", "open" or "closed"
    tasks,      \* datagrams read and calls of the timers so far
    close,      \* Context::Close: pc, where it interrupted the main thread and the
                \* timer it cancels
    touched     \* threads that used a pool which is not there

vars == <<now, timers, ticker, run, queue, stop, pool, thr, links, tasks, close, touched>>

tvars == <<timers, ticker, run>>
pvars == <<queue, stop, pool>>

-----------------------------------------------------------------------------
NoTimer == [st |-> "none", func |-> FALSE, started |-> 0, timeout |-> 0, called_at |-> 0,
            done |-> FALSE, canceled |-> FALSE, calls |-> 0, left |-> 0, link |-> FALSE]

\* A new timer in the map, the link's cleanup timer or another; the clock
\* starts at 1.
NewTimer(ms, link) ==
    [NoTimer EXCEPT !.st = "held", !.func = TRUE, !.started = now, !.timeout = ms, !.link = link]

Task(rest) == [kind |-> "task", rest |-> rest]
TimerJob(t) == [kind |-> "timer", id |-> t]
NoJob == [kind |-> "none"]

Idle == [pc |-> "wait", job |-> NoJob]

Init ==
    /\ now = 1
    /\ timers = [t \in Ids |-> NoTimer]
    /\ ticker = [pc |-> "config", todo |-> {}, at |-> 0]
    /\ run = TRUE
    /\ queue = [p \in Pools |-> <<>>]
    /\ stop = [p \in Pools |-> FALSE]
    /\ pool = [p \in Pools |-> "none"]
    /\ thr = [w \in Threads \cup {"net"} |-> [pc |-> "none", job |-> NoJob]]
    /\ links = "none"
    /\ tasks = [read |-> 0, ops |-> 0]
    /\ close = [pc |-> "no", at |-> "none", id |-> {}]
    /\ touched = {}

-----------------------------------------------------------------------------
(* Pools *)

\* Pool::QueueJob drops the job once the pool is stopped.
QueueJob(p, job) ==
    queue' = IF pool[p] = "live" /\ ~stop[p] THEN [queue EXCEPT ![p] = Append(@, job)] ELSE queue

\* The pointer of a pool that is not there.
Touches(who, p) == IF pool[p] = "live" THEN touched ELSE touched \cup {who}

\* A worker takes the first job.
Take(w) ==
    LET p == PoolOf[w]
    IN /\ thr[w].pc = "wait" /\ queue[p] # <<>>
       /\ thr' = [thr EXCEPT ![w] = [pc |-> IF Head(queue[p]).kind = "timer" THEN "exec" ELSE "run",
                                     job |-> Head(queue[p])]]
       /\ queue' = [queue EXCEPT ![p] = Tail(@)]
       /\ UNCHANGED <<now, tvars, stop, pool, links, tasks, close, touched>>

\* It ends when the pool is stopped and the jobs are done.
Exit(w) ==
    /\ thr[w].pc = "wait" /\ stop[PoolOf[w]] /\ queue[PoolOf[w]] = <<>>
    /\ thr' = [thr EXCEPT ![w].pc = "exit"]
    /\ UNCHANGED <<now, tvars, pvars, links, tasks, close, touched>>

MutStopsBusy(p) == stop' = [stop EXCEPT ![p] = queue[p] # <<>>]

Stop(p) == stop' = [stop EXCEPT ![p] = TRUE]

Joined(p) == \A w \in Threads : PoolOf[w] = p => thr[w].pc \in {"none", "exit"}

\* A job is done: a timer is marked, a task goes on in its next pool.
Finish(w) ==
    LET job == thr[w].job
        who == IF w = "net" THEN w ELSE PoolOf[w]
    IN /\ thr[w].pc \in {"run", "ran"}
       /\ thr' = [thr EXCEPT ![w] = Idle]
       /\ \/ /\ job.kind = "timer"
             /\ timers' = [timers EXCEPT ![job.id].done = TRUE]
             /\ UNCHANGED <<queue, touched>>
          \/ /\ job.kind = "task" /\ job.rest = <<>>
             /\ UNCHANGED <<timers, queue, touched>>
          \/ /\ job.kind = "task" /\ job.rest # <<>>
             /\ QueueJob(Head(job.rest), Task(Tail(job.rest)))
             /\ touched' = Touches(who, Head(job.rest))
             /\ UNCHANGED timers
       /\ UNCHANGED <<now, ticker, run, stop, pool, links, tasks, close>>

-----------------------------------------------------------------------------
(* Timers *)

\* timer::exec in the logic thread: the function is taken and cleared.
MutForgetsDone(w) ==
    LET t == thr[w].job.id
    IN /\ thr[w].pc = "exec"
       /\ thr' = [thr EXCEPT ![w] = IF timers[t].func THEN [@ EXCEPT !.pc = "call"] ELSE Idle]
       /\ timers' = [timers EXCEPT ![t].func = FALSE]
       /\ UNCHANGED <<now, ticker, run, pvars, links, tasks, close, touched>>

exec(w) ==
    LET t == thr[w].job.id
    IN /\ thr[w].pc = "exec"
       /\ \/ /\ timers[t].func
             /\ thr' = [thr EXCEPT ![w].pc = "call"]
             /\ timers' = [timers EXCEPT ![t].func = FALSE]
          \/ /\ ~timers[t].func
             /\ thr' = [thr EXCEPT ![w] = Idle]
             /\ timers' = [timers EXCEPT ![t].done = TRUE]
       /\ UNCHANGED <<now, ticker, run, pvars, links, tasks, close, touched>>

MutAlwaysZero(t) == IF timers[t].canceled THEN 0 ELSE timers[t].called_at - timers[t].started

\* What the handler is told: 0, or for a cancelled timer the time that passed.
Left(t) ==
    LET diff == timers[t].called_at - timers[t].started
    IN IF diff >= timers[t].timeout THEN 0 ELSE diff

call(w) ==
    LET t == thr[w].job.id
    IN /\ thr[w].pc = "call"
       /\ thr' = [thr EXCEPT ![w].pc = "run"]
       /\ timers' = [timers EXCEPT ![t].calls = @ + 1, ![t].left = Left(t)]
       /\ UNCHANGED <<now, ticker, run, pvars, links, tasks, close, touched>>

\* The tick of the main thread holds timersMutex.
Unlocked == ticker.pc # "tick"

\* A job, or the net thread, comes to a call of the timers and waits there.
Reach(w) ==
    /\ thr[w].pc = "run" /\ tasks.ops < MaxOps
    /\ tasks' = [tasks EXCEPT !.ops = @ + 1]
    /\ thr' = [thr EXCEPT ![w].pc = "lock"]
    /\ UNCHANGED <<now, tvars, pvars, links, close, touched>>

\* ++ids
Fresh(t) == timers[t].st = "none" /\ \A u \in 1..(t - 1) : timers[u].st # "none"

call_later(t, ms, link) ==
    /\ Fresh(t) /\ now + ms <= MaxTime
    /\ timers' = [timers EXCEPT ![t] = NewTimer(ms, link)]

cancel(t) ==
    timers' = IF timers[t].st = "held" THEN [timers EXCEPT ![t].canceled = TRUE] ELSE timers

remove(t) ==
    timers' = IF timers[t].st = "held"
              THEN [timers EXCEPT ![t].func = FALSE, ![t].canceled = TRUE] ELSE timers

\* handle_cleanup_timer, which starts the link's timer anew.
Cleanup(w) ==
    /\ thr[w].job.kind = "timer"
    /\ timers[thr[w].job.id].link /\ timers[thr[w].job.id].left = 0

\* timeout_job_id of the link: its handler clears it when it is called.
timeout_job_id == {t \in Ids : timers[t].link /\ timers[t].calls = 0}

Operate(w) ==
    /\ thr[w].pc = "lock" /\ Unlocked
    /\ thr' = [thr EXCEPT ![w].pc = "ran"]
    /\ \E t \in Ids : (\E ms \in Timeouts : call_later(t, ms, Cleanup(w))) \/ cancel(t) \/ remove(t)
    /\ UNCHANGED <<now, ticker, run, pvars, links, tasks, close, touched>>

\* The main thread runs its own code only outside of the signal handler.
Main == close.pc \in {"no", "done"}

\* udap_timer_run wakes up after 100 ms, and returns once it is stopped.
Wake ==
    /\ Main /\ ticker.pc = "wait"
    /\ ticker' = IF run THEN [pc |-> "tick", todo |-> {t \in Ids : timers[t].st = "held"}, at |-> now]
                 ELSE [ticker EXCEPT !.pc = "return"]
    /\ UNCHANGED <<now, timers, run, pvars, thr, links, tasks, close, touched>>

Due(t) == ticker.at - timers[t].started >= timers[t].timeout \/ timers[t].canceled

\* The timer has not been queued yet.
Hits(t) == timers[t].func /\ timers[t].called_at = 0

MutDeletesCalled(t) == ~Hits(t) /\ timers[t].called_at # 0

Erases(t) == ~Hits(t) /\ timers[t].done

\* udap_timer_tick_all, one timer of the map.
tick_one(t) ==
    /\ Main /\ t \in ticker.todo
    /\ ticker' = [ticker EXCEPT !.todo = @ \ {t}]
    /\ \/ /\ Due(t) /\ Hits(t)
          /\ timers' = [timers EXCEPT ![t].called_at = ticker.at]
          /\ QueueJob("logic", TimerJob(t))
          /\ touched' = Touches("main", "logic")
       \/ /\ Due(t) /\ Erases(t)
          /\ timers' = [timers EXCEPT ![t].st = "erased"]
          /\ UNCHANGED <<queue, touched>>
       \/ /\ ~(Due(t) /\ (Hits(t) \/ Erases(t)))
          /\ UNCHANGED <<timers, queue, touched>>
    /\ UNCHANGED <<now, run, stop, pool, thr, links, tasks, close>>

tick_end ==
    /\ Main /\ ticker.pc = "tick" /\ ticker.todo = {}
    /\ ticker' = [pc |-> "wait", todo |-> {}, at |-> 0]
    /\ UNCHANGED <<now, timers, run, pvars, thr, links, tasks, close, touched>>

-----------------------------------------------------------------------------
(* The net thread *)

\* udap_epoll_loop::run: a datagram reaches a link that is open.
Read(task) ==
    /\ thr["net"].pc = "wait" /\ links = "open" /\ tasks.read < MaxTasks
    /\ tasks' = [tasks EXCEPT !.read = @ + 1]
    /\ thr' = [thr EXCEPT !["net"] = [pc |-> "run", job |-> Task(task)]]
    /\ UNCHANGED <<now, tvars, pvars, links, close, touched>>

\* The byte in the pipe of ev_loop_stop.
NetExit ==
    /\ thr["net"].pc = "wait" /\ close.pc = "join_net"
    /\ thr' = [thr EXCEPT !["net"].pc = "exit"]
    /\ UNCHANGED <<now, tvars, pvars, links, tasks, close, touched>>

-----------------------------------------------------------------------------
(* Context::Run *)

StartPools(S) ==
    /\ pool' = [p \in Pools |-> IF p \in S THEN "live" ELSE pool[p]]
    /\ thr' = [w \in Threads \cup {"net"} |->
                 IF w # "net" /\ PoolOf[w] \in S THEN Idle ELSE thr[w]]

\* The database and the event loop, the workers, the logic, and the router
\* with the thread for the disk.
InitPools ==
    /\ Main /\ ticker.pc = "config"
    /\ StartPools(Pools)
    /\ ticker' = [ticker EXCEPT !.pc = "pools"]
    /\ UNCHANGED <<now, timers, run, queue, stop, links, tasks, close, touched>>

\* udap_configure_router makes the links, and fails without an outbound one;
\* the config is gone when Close has run.
Configure ==
    /\ Main /\ ticker.pc = "pools"
    /\ \/ /\ close.pc = "no"
          /\ links' = "open" /\ ticker' = [ticker EXCEPT !.pc = "configured"]
          /\ UNCHANGED touched
       \/ /\ close.pc = "no"
          /\ ticker' = [ticker EXCEPT !.pc = "return"]
          /\ UNCHANGED <<links, touched>>
       \/ /\ close.pc = "done"
          /\ ticker' = [ticker EXCEPT !.pc = "return"]
          /\ touched' = touched \cup {"main"} /\ UNCHANGED links
    /\ UNCHANGED <<now, timers, run, pvars, thr, tasks, close>>

\* udap_run_router starts the outbound link with its cleanup timer and the
\* timer of ConnectAll or of the router's tick, then the net thread starts and
\* the main thread turns to the timers.
RunRouter ==
    /\ Main /\ ticker.pc = "configured"
    /\ \/ /\ close.pc = "no"
          /\ \E ms, us \in Timeouts :
               timers' = [timers EXCEPT ![1] = NewTimer(ms, TRUE), ![2] = NewTimer(us, FALSE)]
          /\ ticker' = [ticker EXCEPT !.pc = "wait"]
          /\ thr' = [thr EXCEPT !["net"] = Idle]
          /\ UNCHANGED touched
       \/ /\ close.pc = "done"
          /\ ticker' = [ticker EXCEPT !.pc = "return"]
          /\ touched' = touched \cup {"main"}
          /\ UNCHANGED <<timers, thr>>
    /\ UNCHANGED <<now, run, pvars, links, tasks, close>>

-----------------------------------------------------------------------------
(* Context::Close, in the signal handler *)

SigINT ==
    /\ close.pc = "no" /\ ticker.pc # "return"
    /\ close' = [pc |-> "stop_router", at |-> ticker.pc, id |-> {}]
    /\ UNCHANGED <<now, tvars, pvars, thr, links, tasks, touched>>

Goto(pc) == close' = [close EXCEPT !.pc = pc]

\* udap_router::Close takes for granted that there is an outbound link.
CloseLink ==
    /\ links' = IF links = "open" THEN "closed" ELSE links
    /\ touched' = IF links = "none" /\ pool["disk"] = "live" THEN touched \cup {"main"} ELSE touched

\* link_stop: no timer to cancel, or one for which it needs the mutex.
StopRouter ==
    /\ close.pc = "stop_router"
    /\ \/ timeout_job_id = {} /\ CloseLink /\ Goto("stop_worker")
       \/ /\ timeout_job_id # {}
          /\ close' = [close EXCEPT !.pc = "cancel_timer", !.id = timeout_job_id]
          /\ UNCHANGED <<links, touched>>
    /\ UNCHANGED <<now, tvars, pvars, thr, tasks>>

\* cancel_timer in the main thread, which may hold the mutex itself: then it
\* waits here for ever.
CancelTimer ==
    /\ close.pc = "cancel_timer" /\ Unlocked
    /\ timers' = [t \in Ids |-> IF t \in close.id /\ timers[t].st = "held"
                                THEN [timers[t] EXCEPT !.canceled = TRUE] ELSE timers[t]]
    /\ CloseLink /\ Goto("stop_worker")
    /\ UNCHANGED <<now, ticker, run, pvars, thr, tasks>>

StopWorker ==
    /\ close.pc = "stop_worker"
    /\ Stop("worker") /\ Goto("join_worker")
    /\ UNCHANGED <<now, tvars, queue, pool, thr, links, tasks, touched>>

MutFreesWorker ==
    /\ close.pc = "join_worker"
    /\ Joined("worker") /\ Goto("stop_logic")
    /\ pool' = [pool EXCEPT !["worker"] = "freed"]
    /\ UNCHANGED <<now, tvars, queue, stop, thr, links, tasks, touched>>

JoinWorker ==
    /\ close.pc = "join_worker"
    /\ Joined("worker") /\ Goto("stop_logic")
    /\ UNCHANGED <<now, tvars, pvars, thr, links, tasks, touched>>

\* udap_logic_stop: the pool is stopped, joined and freed, then the timers.
StopLogic ==
    /\ close.pc = "stop_logic"
    /\ Stop("logic") /\ Goto("join_logic")
    /\ UNCHANGED <<now, tvars, queue, pool, thr, links, tasks, touched>>

Free(p) == IF pool[p] = "live" THEN "freed" ELSE pool[p]

JoinLogic ==
    /\ close.pc = "join_logic"
    /\ Joined("logic") /\ Goto("stop_timer")
    /\ pool' = [pool EXCEPT !["logic"] = Free("logic")]
    /\ UNCHANGED <<now, tvars, queue, stop, thr, links, tasks, touched>>

\* udap_timer_stop clears the map, without the mutex.
StopTimer ==
    /\ close.pc = "stop_timer"
    /\ timers' = [t \in Ids |-> IF timers[t].st = "held" THEN [timers[t] EXCEPT !.st = "cleared"]
                                ELSE timers[t]]
    /\ run' = IF pool["logic"] = "none" THEN run ELSE FALSE
    /\ Goto("free_worker")
    /\ UNCHANGED <<now, ticker, pvars, thr, links, tasks, touched>>

\* The workers, the database, the router and the logic are freed, with the
\* event loop told to stop.
FreeAll ==
    /\ close.pc = "free_worker"
    /\ pool' = [pool EXCEPT !["worker"] = Free("worker")]
    /\ Goto("join_net")
    /\ UNCHANGED <<now, tvars, queue, stop, thr, links, tasks, touched>>

\* Back in the code that was interrupted; a tick goes on with an iterator of
\* the map that was cleared.
JoinNet ==
    /\ close.pc = "join_net" /\ thr["net"].pc \in {"none", "exit"}
    /\ Goto("done")
    /\ touched' = IF ticker.todo # {} THEN touched \cup {"main"} ELSE touched
    /\ ticker' = [ticker EXCEPT !.todo = {}]
    /\ UNCHANGED <<now, timers, run, pvars, thr, links, tasks>>

-----------------------------------------------------------------------------
Close ==
    \/ StopRouter \/ CancelTimer \/ StopWorker \/ JoinWorker \/ StopLogic \/ JoinLogic
    \/ StopTimer \/ FreeAll \/ JoinNet

Start == InitPools \/ Configure \/ RunRouter

Tick == Wake \/ tick_end \/ \E t \in Ids : tick_one(t)

Work(w) == Take(w) \/ Exit(w) \/ exec(w) \/ call(w)

\* The clock matters once there are timers.
Advance ==
    /\ now < MaxTime /\ \E t \in Ids : timers[t].st # "none"
    /\ now' = now + 1
    /\ UNCHANGED <<tvars, pvars, thr, links, tasks, close, touched>>

Next ==
    \/ Start
    \/ Tick
    \/ Close
    \/ SigINT
    \/ NetExit
    \/ Advance
    \/ \E w \in Threads : Work(w)
    \/ \E w \in Threads \cup {"net"} : Reach(w) \/ Operate(w) \/ Finish(w)
    \/ \E task \in Tasks : Read(task)

Spec == Init /\ [][Next]_vars

\* Every thread is scheduled, a mutex that is released again and again is got,
\* and every job ends; no datagram and no signal has to come.
Fairness ==
    /\ WF_vars(Advance) /\ WF_vars(Start \/ Tick \/ Close)
    /\ \A w \in Threads : WF_vars(Work(w) \/ Finish(w))
    /\ WF_vars(NetExit \/ Finish("net"))
    /\ SF_vars(\E w \in Threads \cup {"net"} : Operate(w))

FairSpec == Spec /\ Fairness

-----------------------------------------------------------------------------
(* Properties *)

Refs(t) ==
    Cardinality({w \in Threads : thr[w].job = TimerJob(t)}) +
    Cardinality({i \in 1..Len(queue["logic"]) : queue["logic"][i] = TimerJob(t)})

\* A timer is queued for the logic thread once, its handler is called at most
\* once, and the timer is not deleted while the job refers to it.
TimerIsAlive ==
    \A t \in Ids :
      /\ Refs(t) + (IF timers[t].done THEN 1 ELSE 0) <= 1
      /\ timers[t].st = "erased" => Refs(t) = 0
      /\ timers[t].calls <= 1

\* A handler that is told 0 takes it that its time is up: so it is, unless the
\* timer was cancelled in the millisecond it was started.
ZeroMeansDue ==
    \A t \in Ids :
      timers[t].calls > 0 /\ timers[t].left = 0
        => \/ timers[t].called_at - timers[t].started >= timers[t].timeout
           \/ timers[t].canceled /\ timers[t].called_at = timers[t].started

\* What a pool has accepted is run before it is freed.  Close, when it
\* interrupts the main thread between two ticks, stops things in an order in
\* which no job of a worker or of the logic thread uses a pool that has gone;
\* the disk thread, which is never stopped, and the net thread, which is
\* stopped last, may.
StopOrder ==
    /\ \A p \in Pools : pool[p] = "freed" => queue[p] = <<>>
    /\ close.at = "wait" => touched \subseteq {"disk", "net"}

\* A timer leaves the map, unless it is removed before it was due.
TimerLeaves ==
    \A t \in Ids :
      timers[t].st = "held" ~> \/ timers[t].st # "held"
                               \/ ~timers[t].func /\ timers[t].called_at = 0
                               \/ close.pc # "no"

\* Close ends and the main thread returns, when it came between two ticks: in
\* a tick the main thread holds the mutex that link_stop, and any job it waits
\* for, may need.
CloseEnds == close.pc # "no" /\ close.at = "wait" ~> ticker.pc = "return"
=============================================================================
