------------------------------- MODULE EventLoop ------------------------------
(***************************************************************************)
(* One turn after the other of uv_run, as main() calls it, and the life of *)
(* the AsyncContext objects it works on.  FiberScheduler abstracts libuv   *)
(* to "some callback runs"; here the phases of the loop are kept, because  *)
(* two contexts contain a libuv handle: SleepContext a uv_timer_t and      *)
(* PollContext a uv_poll_t.  libuv works on a handle until the closing     *)
(* phase after uv_close, OnFibersToResume deletes the context in the poll  *)
(* phase.  Fibers are abstracted to the operations they wait for.          *)
(***************************************************************************)
EXTENDS Integers, Sequences, Functions

CONSTANTS Sleeps,      \* calls of Fiber.sleep
          Polls,       \* calls of tcp.poll
          Requests,    \* calls that libuv's thread pool executes (fs, dns)
          Durations,   \* arguments of Fiber.sleep, which may also be negative
          Width,       \* bits of libuv's clock, 64 in the code
          MaxTime      \* bound: the clock stops here

Operations == Sleeps \cup Polls \cup Requests

ASSUME EventLoopAssumption ==
  /\ Sleeps \cap Polls = {} /\ Sleeps \cap Requests = {} /\ Polls \cap Requests = {}
  /\ Width \in Nat \ {0}
  /\ Durations \subseteq 0 .. 2^(Width - 1) - 1
  /\ MaxTime \in 0 .. 2^(Width - 1) - 1

VARIABLES at,              \* where main() is
          now,             \* the clock
          loop_time,       \* uv_loop_t::time, what uv_now() returns
          op,              \* the state of each operation and its context
          deadline,        \* uv_timer_t::timeout
          timer_heap,      \* active timers, by start_id
          batch,           \* sockets epoll reported that are not yet handled
          async_in_batch,  \* it reported the descriptor of uv_async_send
          resumable_fibers, resume_handle, local_queue,   \* as in FiberScheduler
          closing_handles  \* contexts whose handle is in loop->closing_handles

queueVars == <<resumable_fibers, resume_handle, local_queue>>
timerVars == <<now, loop_time, deadline, timer_heap>>
vars == <<at, op, batch, async_in_batch, closing_handles, timerVars, queueVars>>

Init ==
  /\ at = "script"
  /\ now = 0 /\ loop_time = 0
  /\ op = [o \in Operations |-> "new"]
  /\ deadline = [o \in Sleeps |-> 0]
  /\ timer_heap = <<>>
  /\ batch = {} /\ async_in_batch = FALSE
  /\ resumable_fibers = <<>> /\ resume_handle = FALSE /\ local_queue = <<>>
  /\ closing_handles = {}

Become(o, state) == op' = [op EXCEPT ![o] = state]

Tick ==
  /\ now < MaxTime
  /\ now' = now + 1
  /\ UNCHANGED <<at, loop_time, op, deadline, timer_heap, batch, async_in_batch,
                 queueVars, closing_handles>>

(* JavaScript runs in the script and while a fiber is being resumed.       *)
JavaScriptRuns == at = "script" \/ \E o \in Operations : op[o] = "running"

ExpiryBackwards(ms) == loop_time - ms

(* uv_timer_start takes the int64_t as a uint64_t, counts from the time of *)
(* the loop and clamps: a negative sleep will not end in any lifetime.     *)
Timeout(ms) == ms % 2^Width

Expiry(ms) ==
  IF loop_time + Timeout(ms) < 2^Width THEN loop_time + Timeout(ms) ELSE 2^Width - 1

Fiber_Sleep(o, ms) ==
  /\ JavaScriptRuns
  /\ op[o] = "new"
  /\ loop_time + ms <= MaxTime
  /\ Become(o, "active")
  /\ deadline' = [deadline EXCEPT ![o] = Expiry(ms)]
  /\ timer_heap' = Append(timer_heap, o)
  /\ UNCHANGED <<at, now, loop_time, batch, async_in_batch, queueVars, closing_handles>>

(* TCP_Poll starts its uv_poll_t; uv_fs_* and uv_getaddrinfo queue work.   *)
StartOther(o) ==
  /\ JavaScriptRuns
  /\ op[o] = "new"
  /\ Become(o, "active")
  /\ UNCHANGED <<at, batch, async_in_batch, timerVars, queueVars, closing_handles>>

(* uv_getaddrinfo refuses, for example a name that is too long: the        *)
(* context is deleted and DNS_Resolve throws.                              *)
DNS_ResolveThrows(o) ==
  /\ JavaScriptRuns
  /\ op[o] = "new"
  /\ Become(o, "freed")
  /\ UNCHANGED <<at, batch, async_in_batch, timerVars, queueVars, closing_handles>>

(* A thread of the pool has done the work of a request.                    *)
ThreadDone(o) ==
  /\ op[o] = "active"
  /\ Become(o, "done")
  /\ UNCHANGED <<at, batch, async_in_batch, timerVars, queueVars, closing_handles>>

(* uv_run begins with uv__update_time.                                     *)
EndScript ==
  /\ at = "script"
  /\ at' = "timers"
  /\ loop_time' = now
  /\ UNCHANGED <<now, op, deadline, timer_heap, batch, async_in_batch, queueVars,
                 closing_handles>>

QueueWithoutSignal(o) ==
  /\ Become(o, "queued")
  /\ resumable_fibers' = Append(resumable_fibers, o)
  /\ UNCHANGED <<local_queue, resume_handle>>

QueueInFront(o) ==
  /\ Become(o, "queued")
  /\ resumable_fibers' = <<o>> \o resumable_fibers
  /\ resume_handle' = TRUE
  /\ UNCHANGED local_queue

QueueFiberToResume(o) ==
  /\ Become(o, "queued")
  /\ resumable_fibers' = Append(resumable_fibers, o)
  /\ resume_handle' = TRUE
  /\ UNCHANGED local_queue

(* Of the timers that are due, the one with the earliest deadline, then    *)
(* the one started first.                                                  *)
Due(o) == deadline[o] <= loop_time

FirstDue(i) ==
  /\ Due(timer_heap[i])
  /\ \A j \in DOMAIN timer_heap :
       \/ deadline[timer_heap[i]] < deadline[timer_heap[j]]
       \/ deadline[timer_heap[i]] = deadline[timer_heap[j]] /\ i <= j

Without(q, i) == SubSeq(q, 1, i - 1) \o SubSeq(q, i + 1, Len(q))

(* uv__run_timers calls OnSleepTimer: queue the context, close the timer.  *)
OnSleepTimer ==
  /\ at = "timers"
  /\ \E i \in DOMAIN timer_heap :
       /\ FirstDue(i)
       /\ timer_heap' = Without(timer_heap, i)
       /\ QueueFiberToResume(timer_heap[i])
       /\ closing_handles' = closing_handles \cup {timer_heap[i]}
  /\ UNCHANGED <<at, now, loop_time, deadline, batch, async_in_batch>>

EndTimers ==
  /\ at = "timers"
  /\ ~ \E o \in Range(timer_heap) : Due(o)
  /\ at' = "wait"
  /\ UNCHANGED <<op, batch, async_in_batch, timerVars, queueVars, closing_handles>>

(* The descriptor of the loop's uv_async_t's is readable after a signal,   *)
(* and also when the thread pool has results.                              *)
AsyncReadable == resume_handle \/ \E o \in Requests : op[o] = "done"

(* uv__io_poll: epoll_wait waits unless a handle is closing, reports the   *)
(* descriptors that are ready, and the time of the loop is updated.        *)
Poll ==
  /\ at = "wait"
  /\ \E ready \in SUBSET {o \in Polls : op[o] = "active"} :
       /\ \/ ready # {} \/ AsyncReadable \/ closing_handles # {}
          \/ \E o \in Range(timer_heap) : deadline[o] <= now
       /\ batch' = ready
  /\ async_in_batch' = AsyncReadable
  /\ at' = "poll"
  /\ loop_time' = now
  /\ UNCHANGED <<now, op, deadline, timer_heap, queueVars, closing_handles>>

OnPoll(o) ==
  /\ at = "poll"
  /\ o \in batch
  /\ batch' = batch \ {o}
  /\ closing_handles' = closing_handles \cup {o}
  /\ QueueFiberToResume(o)
  /\ UNCHANGED <<at, async_in_batch, timerVars>>

(* uv__async_io serves the thread pool's handle first, then resume_handle. *)
AsyncIo ==
  /\ at = "poll"
  /\ async_in_batch
  /\ async_in_batch' = FALSE
  /\ at' = "work"
  /\ UNCHANGED <<op, batch, timerVars, queueVars, closing_handles>>

WorkDone(o) ==
  /\ at = "work"
  /\ op[o] = "done"
  /\ QueueFiberToResume(o)
  /\ UNCHANGED <<at, batch, async_in_batch, timerVars, closing_handles>>

OnFibersToResume ==
  /\ at = "work"
  /\ \A o \in Requests : op[o] # "done"
  /\ at' = "draining"
  /\ local_queue' = IF resume_handle THEN resumable_fibers ELSE <<>>
  /\ resumable_fibers' = IF resume_handle THEN <<>> ELSE resumable_fibers
  /\ resume_handle' = FALSE
  /\ UNCHANGED <<op, batch, async_in_batch, timerVars, closing_handles>>

(* Fiber::resume; the fiber runs until it yields or ends.                  *)
ResumeNext ==
  /\ at = "draining"
  /\ \A o \in Operations : op[o] # "running"
  /\ local_queue # <<>>
  /\ Become(Head(local_queue), "running")
  /\ local_queue' = Tail(local_queue)
  /\ UNCHANGED <<at, batch, async_in_batch, timerVars, resumable_fibers,
                 resume_handle, closing_handles>>

(* delete async_context, whatever libuv still does with it.                *)
DeleteContext(o) ==
  /\ at = "draining"
  /\ op[o] = "running"
  /\ Become(o, "freed")
  /\ UNCHANGED <<at, batch, async_in_batch, timerVars, queueVars, closing_handles>>

EndDrain ==
  /\ at = "draining"
  /\ local_queue = <<>>
  /\ \A o \in Operations : op[o] # "running"
  /\ at' = "poll"
  /\ UNCHANGED <<op, batch, async_in_batch, timerVars, queueVars, closing_handles>>

EndPoll ==
  /\ at = "poll"
  /\ batch = {} /\ ~async_in_batch
  /\ at' = "closing"
  /\ UNCHANGED <<op, batch, async_in_batch, timerVars, queueVars, closing_handles>>

(* uv__run_closing_handles finishes a handle and calls its close callback. *)
CloseHandle(o) ==
  /\ at = "closing"
  /\ o \in closing_handles
  /\ closing_handles' = closing_handles \ {o}
  /\ UNCHANGED <<at, op, batch, async_in_batch, timerVars, queueVars>>

(* main() initialises resume_handle before uv_run, never unreferences it   *)
(* and closes it after uv_run only.                                        *)
ResumeHandleIsActive == at # "exited"

Alive == ResumeHandleIsActive \/ \E o \in Operations : op[o] \in {"active", "done"}

(* uv_run returns when no handle and no request is active.                 *)
EndClosing ==
  /\ at = "closing"
  /\ closing_handles = {}
  /\ at' = IF Alive THEN "timers" ELSE "exited"
  /\ loop_time' = now
  /\ UNCHANGED <<now, op, deadline, timer_heap, batch, async_in_batch, queueVars,
                 closing_handles>>

JavaScript == \/ \E o \in Sleeps, ms \in Durations : Fiber_Sleep(o, ms) \/ Fiber_Sleep(o, -ms)
              \/ \E o \in Polls \cup Requests : StartOther(o)
              \/ \E o \in Requests : DNS_ResolveThrows(o)

Loop == \/ EndScript \/ OnSleepTimer \/ EndTimers \/ Poll \/ AsyncIo
        \/ \E o \in Polls : OnPoll(o)
        \/ \E o \in Requests : WorkDone(o)
        \/ OnFibersToResume \/ ResumeNext \/ EndDrain \/ EndPoll \/ EndClosing
        \/ \E o \in Operations : DeleteContext(o) \/ CloseHandle(o)

Next == Tick \/ JavaScript \/ Loop \/ \E o \in Requests : ThreadDone(o)

Spec == Init /\ [][Next]_vars

(* Time passes and the loop turns; sockets and threads promise nothing.    *)
FairSpec == Spec /\ WF_vars(Tick) /\ WF_vars(Loop)
-------------------------------------------------------------------------------
(* Every variable has its type.                                            *)
TypeOK ==
  /\ at \in {"script", "timers", "wait", "poll", "work", "draining", "closing",
             "exited"}
  /\ now \in 0 .. MaxTime /\ loop_time \in 0 .. MaxTime
  /\ op \in [Operations -> {"new", "active", "done", "queued", "running", "freed"}]
  /\ deadline \in [Sleeps -> 0 .. 2^Width - 1]
  /\ timer_heap \in Seq(Sleeps)
  /\ batch \subseteq Polls /\ async_in_batch \in BOOLEAN
  /\ resumable_fibers \in Seq(Operations) /\ local_queue \in Seq(Operations)
  /\ resume_handle \in BOOLEAN
  /\ closing_handles \subseteq Operations

(* Fibers wake from sleep in the order of their deadlines, through the     *)
(* timer heap and both queues, also when a sleep is started late.          *)
SleepsWakeInOrder ==
  [][\A a, b \in Sleeps :
       op[a] # "running" /\ op'[a] = "running" /\ op[b] \in {"active", "queued"}
         => deadline[a] <= deadline[b]]_vars

(* Each completed operation is in exactly one queue, once, and a signal    *)
(* that will empty the shared queue is never missing.                      *)
QueuedExactlyOnce ==
  /\ \A o \in Operations :
       op[o] = "queued" <=> o \in Range(resumable_fibers \o local_queue)
  /\ IsInjective(resumable_fibers \o local_queue)
  /\ resumable_fibers # <<>> => resume_handle

(* A fiber that sleeps runs again, if the clock ever shows its deadline.   *)
SleepEnds ==
  \A o \in Sleeps : (op[o] = "active" /\ deadline[o] <= MaxTime) ~> (op[o] = "freed")

(* A completed operation is delivered and its context deleted.             *)
CompletedIsDelivered ==
  \A o \in Operations : (op[o] \in {"done", "queued"}) ~> (op[o] = "freed")

(* libuv may use the handle in a context until it has closed it, so the    *)
(* context must not be deleted before.                                     *)
ClosingHandlesAreAllocated == \A o \in closing_handles : op[o] # "freed"
===============================================================================
