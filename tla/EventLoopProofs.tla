---------------------------- MODULE EventLoopProofs ---------------------------
(***************************************************************************)
(* Proofs about EventLoop, for any operations, durations, clock width and  *)
(* end of time.  The queue is exact, and sleeps wake in the order of their *)
(* deadlines although three different structures order them one after the  *)
(* other: libuv's timer heap, resumable_fibers and local_queue.            *)
(***************************************************************************)
EXTENDS EventLoop, QueueLemmas

(* libuv's clock counts modulo 2^Width.  Its first half is not empty and   *)
(* not larger than the whole.                                              *)
LEMMA ClockWidth ==
  2^Width \in Nat /\ 2^(Width - 1) \in Nat /\ 2^(Width - 1) <= 2^Width
<1> DEFINE W == 1 .. Width
           H == 1 .. (Width - 1)
<1>1. Width \in Nat /\ Width - 1 \in Nat
  BY EventLoopAssumption
<1>2. /\ IsFiniteSet(W) /\ Cardinality(W) = Width
      /\ IsFiniteSet(H) /\ Cardinality(H) = Width - 1
  BY <1>1, FS_Interval
<1>3. /\ IsFiniteSet(SUBSET W) /\ Cardinality(SUBSET W) = 2^Width
      /\ IsFiniteSet(SUBSET H) /\ Cardinality(SUBSET H) = 2^(Width - 1)
  BY <1>2, FS_SUBSET
<1>4. SUBSET H \in SUBSET (SUBSET W)
  <2>1. H \subseteq W
    BY <1>1
  <2> QED
    BY <2>1
<1>5. Cardinality(SUBSET H) <= Cardinality(SUBSET W)
  BY <1>3, <1>4, FS_Subset
<1> QED
  BY <1>3, <1>5, FS_CardinalityType

LEMMA ExpiryRange ==
  ASSUME TypeOK, NEW ms \in Int
  PROVE  /\ Expiry(ms) \in 0 .. 2^Width - 1
         /\ loop_time <= Expiry(ms)
<1> DEFINE w == 2^Width
           t == Timeout(ms)
<1>1. w \in Nat /\ loop_time \in Nat /\ loop_time <= w - 1
  BY ClockWidth, EventLoopAssumption DEF TypeOK
<1>2. t \in 0 .. w - 1
  <2> HIDE DEF w
  <2>1. w \in Nat \ {0}
    BY <1>1
  <2>2. ms % w \in 0 .. w - 1
    BY <2>1
  <2> QED
    BY <2>2 DEF Timeout, w
<1>3. Expiry(ms) = IF loop_time + t < w THEN loop_time + t ELSE w - 1
  BY DEF Expiry
<1> HIDE DEF w, t
<1>4. Expiry(ms) \in 0 .. w - 1 /\ loop_time <= Expiry(ms)
  BY <1>1, <1>2, <1>3
<1> QED
  BY <1>4 DEF w
-------------------------------------------------------------------------------
(* A timer is in the heap from uv_timer_start until OnSleepTimer, and a    *)
(* reported socket still waits for its callback.                           *)
HeapInv ==
  /\ IsInjective(timer_heap)
  /\ \A o \in Sleeps : op[o] = "active" <=> o \in Range(timer_heap)
BatchInv == \A o \in batch : op[o] = "active"

(* Only one of the two queues is ever in use.                              *)
PhaseInv == /\ at = "draining" => resumable_fibers = <<>>
            /\ at # "draining" => local_queue = <<>>

TimeInv == /\ loop_time <= now
           /\ \A o \in Sleeps : op[o] = "queued" => deadline[o] <= loop_time

(* No timer that is still in the heap is due before one that was queued,   *)
(* and both queues are sorted.                                             *)
Ordered(q) == \A i, j \in DOMAIN q :
                i < j /\ q[i] \in Sleeps /\ q[j] \in Sleeps
                  => deadline[q[i]] <= deadline[q[j]]
OrderInv ==
  /\ Ordered(resumable_fibers) /\ Ordered(local_queue)
  /\ \A a, b \in Sleeps : op[a] = "queued" /\ op[b] = "active" => deadline[a] <= deadline[b]

LoopInv == /\ TypeOK /\ QueuedExactlyOnce
           /\ HeapInv /\ BatchInv /\ PhaseInv /\ TimeInv /\ OrderInv
-------------------------------------------------------------------------------
(* What an action does to the queues, whatever else it does.               *)

LEMMA InBothQueues ==
  ASSUME TypeOK
  PROVE  QueuedExactlyOnce <=>
           /\ \A o \in Operations :
                op[o] = "queued" <=> o \in Range(resumable_fibers) \cup Range(local_queue)
           /\ IsInjective(resumable_fibers) /\ IsInjective(local_queue)
           /\ Range(resumable_fibers) \cap Range(local_queue) = {}
           /\ resumable_fibers # <<>> => resume_handle
<1>1. resumable_fibers \in Seq(Operations) /\ local_queue \in Seq(Operations)
  BY DEF TypeOK
<1> QED
  BY <1>1, RangeConcat DEF QueuedExactlyOnce

LEMMA SameQueues ==
  ASSUME LoopInv, UNCHANGED <<op, deadline, timer_heap, queueVars>>
  PROVE  QueuedExactlyOnce' /\ HeapInv' /\ OrderInv'
<1> USE DEF LoopInv, queueVars
<1>1. QueuedExactlyOnce'
  BY DEF QueuedExactlyOnce
<1>2. HeapInv'
  BY DEF HeapInv
<1>3. OrderInv'
  BY DEF OrderInv, Ordered
<1> QED
  BY <1>1, <1>2, <1>3

(* An operation that is not queued, before and after.                      *)
LEMMA OtherState ==
  ASSUME LoopInv, NEW o \in Operations, NEW state, Become(o, state), op[o] # "queued",
         state # "queued", UNCHANGED queueVars
  PROVE  QueuedExactlyOnce'
<1>1. \A p \in Operations : op'[p] = "queued" <=> op[p] = "queued"
  BY DEF LoopInv, TypeOK, Become
<1> QED
  BY <1>1 DEF LoopInv, QueuedExactlyOnce, queueVars

(* A request or a poll: no timer is concerned.                             *)
LEMMA NoTimer ==
  ASSUME LoopInv, NEW o \in Operations, NEW state, Become(o, state),
         \/ o \notin Sleeps
         \/ op[o] \notin {"active", "queued"} /\ state \notin {"active", "queued"},
         UNCHANGED <<deadline, timer_heap, resumable_fibers, local_queue>>
  PROVE  HeapInv' /\ OrderInv'
<1> USE DEF LoopInv
<1>1. \A p \in Sleeps : \/ op'[p] = op[p]
                       \/ /\ op[p] \notin {"active", "queued"}
                          /\ op'[p] \notin {"active", "queued"}
  BY DEF TypeOK, Become, Operations
<1>2. HeapInv'
  BY <1>1 DEF HeapInv
<1>3. OrderInv'
  BY <1>1 DEF OrderInv, Ordered
<1> QED
  BY <1>2, <1>3

LEMMA QueueEffect ==
  ASSUME LoopInv, NEW o \in Operations, op[o] # "queued", QueueFiberToResume(o), TypeOK'
  PROVE  QueuedExactlyOnce'
<1> USE DEF LoopInv
<1>1. resumable_fibers \in Seq(Operations) /\ op \in [Operations -> {"new", "active", "done", "queued", "running", "freed"}]
  BY DEF TypeOK
<1>2. /\ resumable_fibers' = Append(resumable_fibers, o) /\ local_queue' = local_queue
      /\ resume_handle' = TRUE
      /\ op' = [op EXCEPT ![o] = "queued"]
  BY DEF QueueFiberToResume, Become
<1>3. o \notin Range(resumable_fibers) \cup Range(local_queue)
  BY InBothQueues
<1>4. /\ Range(resumable_fibers') = Range(resumable_fibers) \cup {o}
      /\ IsInjective(resumable_fibers) => IsInjective(resumable_fibers')
  BY <1>1, <1>2, <1>3, RangeAppend
<1>5. \A p \in Operations : op'[p] = "queued" <=> op[p] = "queued" \/ p = o
  BY <1>1, <1>2
<1>6. /\ \A p \in Operations :
           op'[p] = "queued" <=> p \in Range(resumable_fibers') \cup Range(local_queue')
      /\ IsInjective(resumable_fibers') /\ IsInjective(local_queue')
      /\ Range(resumable_fibers') \cap Range(local_queue') = {}
      /\ resumable_fibers' # <<>> => resume_handle'
  BY <1>2, <1>3, <1>4, <1>5, InBothQueues
<1>7. resumable_fibers' \in Seq(Operations) /\ local_queue' \in Seq(Operations)
  BY DEF TypeOK
<1> QED
  BY <1>6, <1>7, RangeConcat DEF QueuedExactlyOnce
-------------------------------------------------------------------------------
OpState == {"new", "active", "done", "queued", "running", "freed"}

LEMMA BecomeType ==
  ASSUME TypeOK, NEW o \in Operations, NEW state \in OpState, Become(o, state)
  PROVE  op' \in [Operations -> OpState]
  BY DEF TypeOK, Become, OpState

(* QueueFiberToResume keeps the types of what it changes.                  *)
LEMMA QueueType ==
  ASSUME TypeOK, NEW o \in Operations, QueueFiberToResume(o)
  PROVE  /\ op' \in [Operations -> OpState]
         /\ resumable_fibers' \in Seq(Operations) /\ local_queue' \in Seq(Operations)
         /\ resume_handle' \in BOOLEAN
<1>1. op' \in [Operations -> OpState]
  BY BecomeType DEF QueueFiberToResume, OpState
<1> QED
  BY <1>1 DEF QueueFiberToResume, TypeOK

LEMMA TypeStep == LoopInv /\ [Next]_vars => TypeOK'
<1> SUFFICES ASSUME LoopInv, [Next]_vars PROVE TypeOK'
  OBVIOUS
<1>0. TypeOK /\ MaxTime \in Nat
  BY EventLoopAssumption DEF LoopInv
<1>1. CASE Tick
  BY <1>0, <1>1 DEF Tick, TypeOK, queueVars
<1>2. ASSUME NEW o \in Sleeps, NEW ms \in Int, Fiber_Sleep(o, ms) PROVE TypeOK'
  <2>1. op' \in [Operations -> OpState]
    BY <1>0, <1>2, BecomeType DEF Fiber_Sleep, Operations, OpState
  <2>2. deadline' \in [Sleeps -> 0 .. 2^Width - 1]
    BY <1>0, <1>2, ExpiryRange DEF Fiber_Sleep, TypeOK
  <2>3. timer_heap' \in Seq(Sleeps)
    BY <1>0, <1>2 DEF Fiber_Sleep, TypeOK
  <2> QED
    BY <1>0, <1>2, <2>1, <2>2, <2>3 DEF Fiber_Sleep, TypeOK, queueVars, OpState
<1>3. ASSUME NEW o \in Polls \cup Requests, StartOther(o) PROVE TypeOK'
  <2>1. op' \in [Operations -> OpState]
    BY <1>0, <1>3, BecomeType DEF StartOther, Operations, OpState
  <2> QED
    BY <1>0, <1>3, <2>1 DEF StartOther, TypeOK, queueVars, timerVars, OpState
<1>4. ASSUME NEW o \in Requests, DNS_ResolveThrows(o) \/ ThreadDone(o) PROVE TypeOK'
  <2>1. op' \in [Operations -> OpState]
    BY <1>0, <1>4, BecomeType DEF DNS_ResolveThrows, ThreadDone, Operations, OpState
  <2> QED
    BY <1>0, <1>4, <2>1 DEF DNS_ResolveThrows, ThreadDone, TypeOK, queueVars, timerVars, OpState
<1>5. CASE EndScript \/ EndTimers \/ AsyncIo \/ EndDrain \/ EndPoll \/ EndClosing
  BY <1>0, <1>5 DEF EndScript, EndTimers, AsyncIo, EndDrain, EndPoll, EndClosing, TypeOK,
                    queueVars, timerVars
<1>6. CASE OnSleepTimer
  <2>1. PICK i \in DOMAIN timer_heap :
          /\ timer_heap' = Without(timer_heap, i)
          /\ QueueFiberToResume(timer_heap[i])
          /\ closing_handles' = closing_handles \cup {timer_heap[i]}
    BY <1>6 DEF OnSleepTimer
  <2>2. timer_heap \in Seq(Sleeps) /\ timer_heap[i] \in Sleeps
    BY <1>0 DEF TypeOK
  <2>3. timer_heap[i] \in Operations
    BY <2>2 DEF Operations
  <2>4. timer_heap' \in Seq(Sleeps)
    BY <2>1, <2>2, RangeWithout DEF Without, LoopInv, HeapInv
  <2>5. /\ op' \in [Operations -> OpState]
        /\ resumable_fibers' \in Seq(Operations) /\ local_queue' \in Seq(Operations)
        /\ resume_handle' \in BOOLEAN
    BY <1>0, <2>1, <2>3, QueueType
  <2> QED
    BY <1>0, <1>6, <2>1, <2>3, <2>4, <2>5 DEF OnSleepTimer, TypeOK, OpState
<1>7. CASE Poll
  BY <1>0, <1>7 DEF Poll, TypeOK, AsyncReadable, queueVars
<1>8. ASSUME NEW o \in Polls, OnPoll(o) PROVE TypeOK'
  <2>1. o \in Operations
    BY DEF Operations
  <2>2. /\ op' \in [Operations -> OpState]
        /\ resumable_fibers' \in Seq(Operations) /\ local_queue' \in Seq(Operations)
        /\ resume_handle' \in BOOLEAN
    BY <1>0, <1>8, <2>1, QueueType DEF OnPoll
  <2> QED
    BY <1>0, <1>8, <2>1, <2>2 DEF OnPoll, TypeOK, timerVars, OpState
<1>9. ASSUME NEW o \in Requests, WorkDone(o) PROVE TypeOK'
  <2>1. o \in Operations
    BY DEF Operations
  <2>2. /\ op' \in [Operations -> OpState]
        /\ resumable_fibers' \in Seq(Operations) /\ local_queue' \in Seq(Operations)
        /\ resume_handle' \in BOOLEAN
    BY <1>0, <1>9, <2>1, QueueType DEF WorkDone
  <2> QED
    BY <1>0, <1>9, <2>2 DEF WorkDone, TypeOK, timerVars, OpState
<1>10. CASE OnFibersToResume
  <2>1. <<>> \in Seq(Operations)
    OBVIOUS
  <2>2. resumable_fibers' \in Seq(Operations) /\ local_queue' \in Seq(Operations)
    BY <1>0, <1>10, <2>1 DEF OnFibersToResume, TypeOK
  <2> QED
    BY <1>0, <1>10, <2>2 DEF OnFibersToResume, TypeOK, timerVars
<1>11. CASE ResumeNext
  <2>1. Head(local_queue) \in Operations /\ Tail(local_queue) \in Seq(Operations)
    BY <1>0, <1>11 DEF ResumeNext, TypeOK
  <2>2. op' \in [Operations -> OpState]
    BY <1>0, <1>11, <2>1, BecomeType DEF ResumeNext, OpState
  <2> QED
    BY <1>0, <1>11, <2>1, <2>2 DEF ResumeNext, TypeOK, timerVars, OpState
<1>12. ASSUME NEW o \in Operations, DeleteContext(o) PROVE TypeOK'
  <2>1. op' \in [Operations -> OpState]
    BY <1>0, <1>12, BecomeType DEF DeleteContext, OpState
  <2> QED
    BY <1>0, <1>12, <2>1 DEF DeleteContext, TypeOK, queueVars, timerVars, OpState
<1>13. ASSUME NEW o \in Operations, CloseHandle(o) PROVE TypeOK'
  BY <1>0, <1>13 DEF CloseHandle, TypeOK, queueVars, timerVars
<1>14. CASE UNCHANGED vars
  BY <1>0, <1>14 DEF vars, TypeOK, queueVars, timerVars
<1>15. \A ms \in Durations : ms \in Int /\ -ms \in Int
  BY ClockWidth, EventLoopAssumption
<1> QED
  BY <1>1, <1>2, <1>3, <1>4, <1>5, <1>6, <1>7, <1>8, <1>9, <1>10, <1>11, <1>12, <1>13, <1>14,
     <1>15 DEF Next, JavaScript, Loop
-------------------------------------------------------------------------------
(* Operations are only queued when they are not, and queues are emptied    *)
(* from the front.                                                         *)
LEMMA TailOrdered ==
  ASSUME NEW q \in Seq(Operations), q # <<>>, Ordered(q)
  PROVE  /\ Ordered(Tail(q))
         /\ \A o \in Range(Tail(q)) : Head(q) \in Sleeps /\ o \in Sleeps
                                       => deadline[Head(q)] <= deadline[o]
<1> DEFINE r == Tail(q)
           n == Len(q)
<1>1. /\ n \in Nat /\ n > 0 /\ DOMAIN q = 1 .. n /\ DOMAIN r = 1 .. n - 1
      /\ Head(q) = q[1]
      /\ \A i \in 1 .. n - 1 : r[i] = q[i + 1]
  OBVIOUS
<1> HIDE DEF r, n
<1>2. \A i \in 1 .. n - 1 : i + 1 \in 1 .. n /\ 1 \in 1 .. n /\ 1 < i + 1
  BY <1>1
<1>3. \A i, j \in 1 .. n - 1 : i < j => i + 1 < j + 1
  BY <1>1
<1>4. Ordered(r)
  BY <1>1, <1>2, <1>3 DEF Ordered
<1>5. \A o \in Range(r) : Head(q) \in Sleeps /\ o \in Sleeps => deadline[Head(q)] <= deadline[o]
  BY <1>1, <1>2 DEF Ordered, Range
<1> QED
  BY <1>4, <1>5 DEF r

LEMMA AppendOrdered ==
  ASSUME NEW q \in Seq(Operations), NEW o \in Operations, Ordered(q),
         \A p \in Range(q) : p \in Sleeps /\ o \in Sleeps => deadline[p] <= deadline[o]
  PROVE  Ordered(Append(q, o))
<1> DEFINE r == Append(q, o)
           n == Len(q)
<1>1. /\ n \in Nat /\ DOMAIN q = 1 .. n /\ DOMAIN r = 1 .. n + 1
      /\ r[n + 1] = o
      /\ \A i \in 1 .. n : r[i] = q[i]
  OBVIOUS
<1> HIDE DEF r, n
<1> SUFFICES ASSUME NEW i \in 1 .. n + 1, NEW j \in 1 .. n + 1, i < j,
                    r[i] \in Sleeps, r[j] \in Sleeps
             PROVE  deadline[r[i]] <= deadline[r[j]]
  BY <1>1 DEF Ordered, r
<1>2. i \in 1 .. n /\ (j \in 1 .. n \/ j = n + 1)
  BY <1>1
<1>3. CASE j \in 1 .. n
  BY <1>1, <1>2, <1>3 DEF Ordered
<1>4. CASE j = n + 1
  BY <1>1, <1>2, <1>4 DEF Range
<1> QED
  BY <1>2, <1>3, <1>4

LEMMA SleepStep ==
  ASSUME LoopInv, NEW o \in Sleeps, NEW ms \in Int, Fiber_Sleep(o, ms), TypeOK'
  PROVE  LoopInv'
<1> USE DEF LoopInv
<1>1. o \in Operations /\ op[o] = "new"
  BY DEF Operations, Fiber_Sleep
<1>2. /\ op' = [op EXCEPT ![o] = "active"]
      /\ deadline' = [deadline EXCEPT ![o] = Expiry(ms)]
      /\ timer_heap' = Append(timer_heap, o)
      /\ UNCHANGED <<at, now, loop_time, batch, resumable_fibers, resume_handle, local_queue>>
  BY DEF Fiber_Sleep, Become, queueVars
<1>3. /\ \A p \in Operations : p # o => op'[p] = op[p]
      /\ op'[o] = "active"
      /\ \A p \in Sleeps : p # o => deadline'[p] = deadline[p]
      /\ deadline'[o] = Expiry(ms)
  BY <1>1, <1>2 DEF TypeOK
<1>4. QueuedExactlyOnce'
  BY <1>1, OtherState DEF Fiber_Sleep
<1>5. HeapInv'
  <2>1. timer_heap \in Seq(Sleeps) /\ o \notin Range(timer_heap)
    BY <1>1 DEF TypeOK, HeapInv
  <2>2. Range(timer_heap') = Range(timer_heap) \cup {o} /\ IsInjective(timer_heap')
    BY <1>2, <2>1, RangeAppend DEF HeapInv
  <2> QED
    BY <1>3, <2>2 DEF HeapInv, Operations
<1>6. BatchInv' /\ PhaseInv'
  BY <1>1, <1>2, <1>3 DEF BatchInv, PhaseInv, TypeOK, Operations
<1>7. TimeInv'
  BY <1>2, <1>3 DEF TimeInv, Operations
<1>8. OrderInv'
  <2>1. o \notin Range(resumable_fibers) \cup Range(local_queue)
    BY <1>1, InBothQueues
  <2>2. Ordered(resumable_fibers)' /\ Ordered(local_queue)'
    BY <1>2, <1>3, <2>1 DEF OrderInv, Ordered, Range
  <2>3. loop_time <= deadline'[o]
    BY <1>3, ExpiryRange
  <2>4. ASSUME NEW a \in Sleeps, NEW b \in Sleeps, op'[a] = "queued", op'[b] = "active"
        PROVE  deadline'[a] <= deadline'[b]
    <3>1. a # o /\ op[a] = "queued" /\ deadline'[a] = deadline[a]
      BY <1>3, <2>4 DEF Operations
    <3>2. CASE b = o
      <4>1. deadline[a] <= loop_time
        BY <3>1 DEF TimeInv
      <4>2. deadline[a] \in Int /\ loop_time \in Int /\ deadline'[o] \in Int
        BY ClockWidth, EventLoopAssumption DEF TypeOK
      <4> QED
        BY <2>3, <3>1, <3>2, <4>1, <4>2
    <3>3. CASE b # o
      BY <1>3, <2>4, <3>1, <3>3 DEF OrderInv, Operations
    <3> QED
      BY <3>2, <3>3
  <2> QED
    BY <2>2, <2>4 DEF OrderInv
<1> QED
  BY <1>4, <1>5, <1>6, <1>7, <1>8

(* The timer that fires has the earliest deadline of those in the heap.    *)
LEMMA TimerStep ==
  ASSUME LoopInv, OnSleepTimer, TypeOK'
  PROVE  LoopInv'
<1> USE DEF LoopInv
<1>1. PICK i \in DOMAIN timer_heap :
        /\ FirstDue(i)
        /\ timer_heap' = Without(timer_heap, i)
        /\ QueueFiberToResume(timer_heap[i])
  BY DEF OnSleepTimer
<1> DEFINE o == timer_heap[i]
<1>2. timer_heap \in Seq(Sleeps) /\ o \in Sleeps /\ o \in Range(timer_heap)
  BY DEF TypeOK, Range
<1>3. o \in Operations /\ op[o] = "active"
  BY <1>2 DEF HeapInv, Operations
<1>4. /\ deadline[o] <= loop_time
      /\ \A p \in Range(timer_heap) : deadline[o] <= deadline[p]
  <2>1. \A p \in Sleeps : deadline[p] \in Int
    BY ClockWidth DEF TypeOK
  <2>2. \A j \in DOMAIN timer_heap : timer_heap[j] \in Sleeps
    BY <1>2
  <2>3. \A j \in DOMAIN timer_heap : deadline[o] <= deadline[timer_heap[j]]
    BY <1>1, <1>2, <2>1, <2>2 DEF FirstDue
  <2> QED
    BY <1>1, <2>3 DEF FirstDue, Due, Range
<1> HIDE DEF o
<1>5. /\ at = "timers"
      /\ op' = [op EXCEPT ![o] = "queued"]
      /\ resumable_fibers' = Append(resumable_fibers, o)
      /\ UNCHANGED <<at, now, loop_time, deadline, batch, local_queue>>
  BY <1>1 DEF OnSleepTimer, QueueFiberToResume, Become, o
<1>6. op'[o] = "queued" /\ \A p \in Operations : p # o => op'[p] = op[p]
  BY <1>3, <1>5 DEF TypeOK
<1>7. QueuedExactlyOnce'
  BY <1>1, <1>3, QueueEffect DEF o
<1>8. HeapInv'
  <2>1. Range(timer_heap') = Range(timer_heap) \ {o} /\ IsInjective(timer_heap')
    BY <1>1, <1>2, RangeWithout DEF Without, HeapInv, o
  <2> QED
    BY <1>6, <2>1 DEF HeapInv, Operations
<1>9. BatchInv' /\ PhaseInv'
  <2>1. o \notin batch
    BY <1>2, EventLoopAssumption DEF TypeOK
  <2> QED
    BY <1>5, <1>6, <2>1 DEF BatchInv, PhaseInv, TypeOK, Operations
<1>10. TimeInv'
  BY <1>4, <1>5, <1>6 DEF TimeInv, Operations
<1>11. OrderInv'
  <2>1. \A p \in Range(resumable_fibers) : p \in Sleeps => deadline[p] <= deadline[o]
    BY <1>2, <1>3, InBothQueues DEF OrderInv, Operations
  <2>2. Ordered(Append(resumable_fibers, o))
    BY <1>3, <2>1, AppendOrdered DEF OrderInv, TypeOK
  <2>3. Ordered(resumable_fibers)' /\ Ordered(local_queue)'
    BY <1>5, <2>2 DEF OrderInv, Ordered
  <2>4. ASSUME NEW a \in Sleeps, NEW b \in Sleeps, op'[a] = "queued", op'[b] = "active"
        PROVE  deadline'[a] <= deadline'[b]
    <3>1. op[b] = "active" /\ b # o
      BY <1>6, <2>4 DEF Operations
    <3>2. CASE a = o
      BY <1>4, <1>5, <3>1, <3>2 DEF HeapInv
    <3>3. CASE a # o
      BY <1>5, <1>6, <2>4, <3>1, <3>3 DEF OrderInv, Operations
    <3> QED
      BY <3>2, <3>3
  <2> QED
    BY <2>3, <2>4 DEF OrderInv
<1> QED
  BY <1>7, <1>8, <1>9, <1>10, <1>11

(* OnPoll and WorkDone queue an operation that is no timer.                *)
LEMMA OtherQueueStep ==
  ASSUME LoopInv, NEW o \in Polls \cup Requests, op[o] # "queued", QueueFiberToResume(o),
         at \in {"poll", "work"}, batch' \subseteq batch \ {o},
         UNCHANGED <<at, timerVars>>, TypeOK'
  PROVE  LoopInv'
<1> USE DEF LoopInv
<1>1. o \in Operations /\ o \notin Sleeps
  BY EventLoopAssumption DEF Operations
<1>2. /\ op' = [op EXCEPT ![o] = "queued"]
      /\ resumable_fibers' = Append(resumable_fibers, o)
      /\ UNCHANGED <<now, loop_time, deadline, timer_heap, local_queue>>
  BY DEF QueueFiberToResume, Become, timerVars
<1>3. \A p \in Operations : p # o => op'[p] = op[p]
  BY <1>1, <1>2 DEF TypeOK
<1>4. QueuedExactlyOnce'
  BY <1>1, QueueEffect
<1>5. HeapInv' /\ TimeInv'
  BY <1>1, <1>2, <1>3 DEF HeapInv, TimeInv, Operations
<1>6. BatchInv' /\ PhaseInv'
  BY <1>2, <1>3 DEF BatchInv, PhaseInv, TypeOK, Operations
<1>7. OrderInv'
  <2>1. Ordered(Append(resumable_fibers, o))
    BY <1>1, AppendOrdered DEF OrderInv, TypeOK
  <2>2. Ordered(resumable_fibers)' /\ Ordered(local_queue)'
    BY <1>2, <2>1 DEF OrderInv, Ordered
  <2> QED
    BY <1>1, <1>2, <1>3, <2>2 DEF OrderInv, Operations
<1> QED
  BY <1>4, <1>5, <1>6, <1>7

(* OnFibersToResume: the swap finds local_queue empty.                     *)
LEMMA SwapStep ==
  ASSUME LoopInv, OnFibersToResume, TypeOK'
  PROVE  LoopInv'
<1> USE DEF LoopInv
<1>1. local_queue = <<>>
  BY DEF OnFibersToResume, PhaseInv
<1>2. /\ local_queue' = resumable_fibers /\ resumable_fibers' = <<>>
      /\ at' = "draining"
      /\ UNCHANGED <<op, batch, now, loop_time, deadline, timer_heap>>
  BY <1>1 DEF OnFibersToResume, QueuedExactlyOnce, timerVars
<1>3. QueuedExactlyOnce'
  <2>1. resumable_fibers' \in Seq(Operations) /\ local_queue' \in Seq(Operations)
    BY DEF TypeOK
  <2>2. /\ \A o \in Operations :
             op'[o] = "queued" <=> o \in Range(resumable_fibers') \cup Range(local_queue')
        /\ IsInjective(resumable_fibers') /\ IsInjective(local_queue')
        /\ Range(resumable_fibers') \cap Range(local_queue') = {}
        /\ resumable_fibers' # <<>> => resume_handle'
    BY <1>1, <1>2, RangeEmpty, InBothQueues
  <2> QED
    BY <2>1, <2>2, RangeConcat DEF QueuedExactlyOnce
<1>4. HeapInv' /\ BatchInv' /\ PhaseInv' /\ TimeInv'
  BY <1>2 DEF HeapInv, BatchInv, PhaseInv, TimeInv
<1>5. OrderInv'
  <2>1. Ordered(<<>>)'
    BY DEF Ordered
  <2> QED
    BY <1>2, <2>1 DEF OrderInv, Ordered
<1> QED
  BY <1>3, <1>4, <1>5

(* ResumeNext takes the operation that completed first.                    *)
LEMMA ResumeStep ==
  ASSUME LoopInv, ResumeNext, TypeOK'
  PROVE  LoopInv'
<1> USE DEF LoopInv
<1> DEFINE o == Head(local_queue)
<1>1. /\ local_queue \in Seq(Operations) /\ local_queue # <<>>
      /\ o \in Operations
  BY DEF ResumeNext, TypeOK
<1>2. /\ Range(local_queue) = {o} \cup Range(Tail(local_queue))
      /\ o \notin Range(Tail(local_queue)) /\ IsInjective(Tail(local_queue))
  BY <1>1, RangeTail, InBothQueues
<1>3. Ordered(Tail(local_queue))
  BY <1>1, TailOrdered DEF OrderInv
<1>4. /\ op' = [op EXCEPT ![o] = "running"]
      /\ local_queue' = Tail(local_queue)
      /\ UNCHANGED <<at, batch, now, loop_time, deadline, timer_heap, resumable_fibers,
                     resume_handle>>
  BY DEF ResumeNext, Become, timerVars
<1> HIDE DEF o
<1>5. op'[o] = "running" /\ \A p \in Operations : p # o => op'[p] = op[p]
  BY <1>1, <1>4 DEF TypeOK
<1>6. op[o] = "queued"
  BY <1>1, <1>2, InBothQueues
<1>7. QueuedExactlyOnce'
  <2>1. resumable_fibers' \in Seq(Operations) /\ local_queue' \in Seq(Operations)
    BY DEF TypeOK
  <2>2. o \notin Range(resumable_fibers)
    BY <1>2, InBothQueues
  <2>3. /\ \A p \in Operations :
             op'[p] = "queued" <=> p \in Range(resumable_fibers') \cup Range(local_queue')
        /\ IsInjective(resumable_fibers') /\ IsInjective(local_queue')
        /\ Range(resumable_fibers') \cap Range(local_queue') = {}
        /\ resumable_fibers' # <<>> => resume_handle'
    BY <1>2, <1>4, <1>5, <2>2, InBothQueues
  <2> QED
    BY <2>1, <2>3, RangeConcat DEF QueuedExactlyOnce
<1>8. HeapInv' /\ BatchInv' /\ PhaseInv' /\ TimeInv'
  <2>1. at = "draining"
    BY DEF ResumeNext
  <2> QED
    BY <1>4, <1>5, <1>6, <2>1 DEF HeapInv, BatchInv, PhaseInv, TimeInv, TypeOK, Operations
<1>9. OrderInv'
  <2>1. Ordered(resumable_fibers)' /\ Ordered(local_queue)'
    BY <1>3, <1>4 DEF OrderInv, Ordered
  <2>2. \A a, b \in Sleeps : op'[a] = "queued" /\ op'[b] = "active"
                             => op[a] = "queued" /\ op[b] = "active"
    BY <1>5 DEF Operations
  <2> QED
    BY <1>4, <2>1, <2>2 DEF OrderInv
<1> QED
  BY <1>7, <1>8, <1>9
-------------------------------------------------------------------------------
LEMMA InitInv == Init => LoopInv
<1> SUFFICES ASSUME Init PROVE LoopInv
  OBVIOUS
<1>1. TypeOK
  <2>1. deadline \in [Sleeps -> 0 .. 2^Width - 1]
    <3>1. 0 \in 0 .. 2^Width - 1
      BY ClockWidth, EventLoopAssumption
    <3> QED
      BY <3>1 DEF Init
  <2>2. now \in 0 .. MaxTime /\ loop_time \in 0 .. MaxTime
    BY EventLoopAssumption DEF Init
  <2>3. op \in [Operations -> OpState] /\ at = "script"
    BY DEF Init, OpState
  <2>4. timer_heap \in Seq(Sleeps) /\ resumable_fibers \in Seq(Operations)
        /\ local_queue \in Seq(Operations)
    BY EmptySeq DEF Init
  <2>5. batch \subseteq Polls /\ async_in_batch \in BOOLEAN /\ resume_handle \in BOOLEAN
        /\ closing_handles \subseteq Operations
    BY DEF Init
  <2> QED
    BY <2>1, <2>2, <2>3, <2>4, <2>5 DEF TypeOK, OpState
<1>2. QueuedExactlyOnce
  BY <1>1, RangeEmpty, InBothQueues DEF Init
<1> QED
  BY <1>1, <1>2, RangeEmpty
     DEF Init, LoopInv, HeapInv, BatchInv, PhaseInv, TimeInv, OrderInv, Ordered, Operations

LEMMA StepInv == LoopInv /\ [Next]_vars => LoopInv'
<1> SUFFICES ASSUME LoopInv, [Next]_vars PROVE LoopInv'
  OBVIOUS
<1>0. TypeOK'
  BY TypeStep
<1>1. now \in Nat /\ loop_time \in Nat /\ loop_time <= now /\ now <= now + 1
  BY EventLoopAssumption DEF LoopInv, TypeOK, TimeInv
<1>2. \A o \in Sleeps : deadline[o] \in Int
  BY ClockWidth DEF LoopInv, TypeOK
<1>3. CASE Tick
  <2>1. QueuedExactlyOnce' /\ HeapInv' /\ OrderInv'
    BY <1>3, SameQueues DEF Tick
  <2> QED
    BY <1>0, <1>1, <1>3, <2>1 DEF Tick, LoopInv, BatchInv, PhaseInv, TimeInv, queueVars
<1>4. ASSUME NEW o \in Sleeps, NEW ms \in Int, Fiber_Sleep(o, ms) PROVE LoopInv'
  BY <1>0, <1>4, SleepStep
<1>5. ASSUME NEW o \in Polls \cup Requests,
             StartOther(o) \/ DNS_ResolveThrows(o) \/ (o \in Requests /\ ThreadDone(o))
      PROVE  LoopInv'
  <2>1. o \in Operations /\ o \notin Sleeps /\ (o \in Requests => o \notin Polls)
    BY EventLoopAssumption DEF Operations
  <2>2. PICK state \in {"active", "freed", "done"} : Become(o, state)
    BY <1>5 DEF StartOther, DNS_ResolveThrows, ThreadDone
  <2>3. op[o] # "queued" /\ (op[o] = "active" => o \in Requests)
    BY <1>5 DEF StartOther, DNS_ResolveThrows, ThreadDone
  <2>4. UNCHANGED <<at, batch, now, loop_time, deadline, timer_heap, resumable_fibers,
                    local_queue, queueVars>>
    BY <1>5 DEF StartOther, DNS_ResolveThrows, ThreadDone, timerVars, queueVars
  <2>5. QueuedExactlyOnce' /\ HeapInv' /\ OrderInv'
    BY <2>1, <2>2, <2>3, <2>4, OtherState, NoTimer
  <2>6. \A p \in Operations : p # o => op'[p] = op[p]
    BY <2>1, <2>2 DEF Become, LoopInv, TypeOK
  <2>7. BatchInv'
    BY <2>1, <2>3, <2>4, <2>6 DEF BatchInv, LoopInv, TypeOK, Operations
  <2>8. PhaseInv' /\ TimeInv'
    BY <2>1, <2>4, <2>6 DEF PhaseInv, TimeInv, LoopInv, Operations
  <2> QED
    BY <1>0, <2>5, <2>7, <2>8 DEF LoopInv
<1>6. CASE EndScript \/ EndTimers \/ AsyncIo \/ EndDrain \/ EndPoll \/ EndClosing \/ Poll
  <2>1. UNCHANGED <<op, now, deadline, timer_heap, queueVars>>
    BY <1>6 DEF EndScript, EndTimers, AsyncIo, EndDrain, EndPoll, EndClosing, Poll, timerVars
  <2>2. QueuedExactlyOnce' /\ HeapInv' /\ OrderInv'
    BY <2>1, SameQueues
  <2>3. BatchInv'
    BY <1>6, <2>1 DEF EndScript, EndTimers, AsyncIo, EndDrain, EndPoll, EndClosing, Poll,
                      BatchInv, LoopInv
  <2>4. PhaseInv'
    BY <1>6, <2>1 DEF EndScript, EndTimers, AsyncIo, EndDrain, EndPoll, EndClosing, Poll,
                      PhaseInv, LoopInv, queueVars
  <2>5. loop_time' \in {loop_time, now}
    BY <1>6 DEF EndScript, EndTimers, AsyncIo, EndDrain, EndPoll, EndClosing, Poll, timerVars
  <2>6. TimeInv'
    BY <1>1, <1>2, <2>1, <2>5 DEF TimeInv, LoopInv
  <2> QED
    BY <1>0, <2>2, <2>3, <2>4, <2>6 DEF LoopInv
<1>7. CASE OnSleepTimer
  BY <1>0, <1>7, TimerStep
<1>8. ASSUME NEW o \in Polls, OnPoll(o) PROVE LoopInv'
  BY <1>0, <1>8, OtherQueueStep DEF OnPoll, LoopInv, BatchInv
<1>9. ASSUME NEW o \in Requests, WorkDone(o) PROVE LoopInv'
  <2>1. o \notin batch
    BY EventLoopAssumption DEF LoopInv, TypeOK
  <2> QED
    BY <1>0, <1>9, <2>1, OtherQueueStep DEF WorkDone
<1>10. CASE OnFibersToResume
  BY <1>0, <1>10, SwapStep
<1>11. CASE ResumeNext
  BY <1>0, <1>11, ResumeStep
<1>12. ASSUME NEW o \in Operations, DeleteContext(o) PROVE LoopInv'
  <2>1. op[o] = "running" /\ Become(o, "freed")
    BY <1>12 DEF DeleteContext
  <2>2. UNCHANGED <<at, batch, now, loop_time, deadline, timer_heap, resumable_fibers,
                    local_queue, queueVars>>
    BY <1>12 DEF DeleteContext, timerVars, queueVars
  <2>3. QueuedExactlyOnce' /\ HeapInv' /\ OrderInv'
    BY <2>1, <2>2, OtherState, NoTimer
  <2>4. \A p \in Operations : p # o => op'[p] = op[p]
    BY <2>1 DEF Become, LoopInv, TypeOK
  <2>5. op'[o] = "freed"
    BY <2>1 DEF Become, LoopInv, TypeOK
  <2>6. BatchInv' /\ PhaseInv' /\ TimeInv'
    BY <2>1, <2>2, <2>4, <2>5 DEF BatchInv, PhaseInv, TimeInv, LoopInv, TypeOK, Operations
  <2> QED
    BY <1>0, <2>3, <2>6 DEF LoopInv
<1>13. ASSUME NEW o \in Operations, CloseHandle(o) PROVE LoopInv'
  <2>1. QueuedExactlyOnce' /\ HeapInv' /\ OrderInv'
    BY <1>13, SameQueues DEF CloseHandle, timerVars
  <2> QED
    BY <1>0, <1>13, <2>1 DEF CloseHandle, LoopInv, BatchInv, PhaseInv, TimeInv, queueVars, timerVars
<1>14. CASE UNCHANGED vars
  <2>1. QueuedExactlyOnce' /\ HeapInv' /\ OrderInv'
    BY <1>14, SameQueues DEF vars, timerVars
  <2> QED
    BY <1>0, <1>14, <2>1 DEF vars, LoopInv, BatchInv, PhaseInv, TimeInv, queueVars, timerVars
<1>15. \A ms \in Durations : ms \in Int /\ -ms \in Int
  BY ClockWidth, EventLoopAssumption
<1> QED
  BY <1>3, <1>4, <1>5, <1>6, <1>7, <1>8, <1>9, <1>10, <1>11, <1>12, <1>13, <1>14, <1>15
     DEF Next, JavaScript, Loop

LEMMA Invariant == Spec => []LoopInv
  BY InitInv, StepInv, PTL DEF Spec

(* Every variable of the event loop keeps its type: no deadline leaves the *)
(* range of the clock, however long or negative a sleep is.                *)
THEOREM LoopTypeCorrect == Spec => []TypeOK
<1>1. LoopInv => TypeOK
  BY DEF LoopInv
<1> QED
  BY <1>1, Invariant, PTL

(* Every completed operation is in one of the two queues, once, and the    *)
(* loop is signalled.                                                      *)
THEOREM CompletedIsQueuedOnce == Spec => []QueuedExactlyOnce
<1>1. LoopInv => QueuedExactlyOnce
  BY DEF LoopInv
<1> QED
  BY <1>1, Invariant, PTL

(* Fibers wake from sleep in the order of their deadlines.                 *)
THEOREM SleepersWakeInOrder == Spec => SleepsWakeInOrder
<1>1. LoopInv /\ [Next]_vars =>
        [\A a, b \in Sleeps :
           op[a] # "running" /\ op'[a] = "running" /\ op[b] \in {"active", "queued"}
             => deadline[a] <= deadline[b]]_vars
  <2> SUFFICES ASSUME LoopInv, Next, NEW a \in Sleeps, NEW b \in Sleeps,
                      op[a] # "running", op'[a] = "running", op[b] \in {"active", "queued"}
               PROVE  deadline[a] <= deadline[b]
    OBVIOUS
  <2> USE DEF LoopInv
  <2>1. a \in Operations /\ b \in Operations
    BY DEF Operations
  <2>2. ResumeNext
    <3>1. ASSUME NEW o \in Operations, NEW state, Become(o, state), state # "running" PROVE FALSE
      BY <2>1, <3>1 DEF Become, TypeOK
    <3>2. op' # op
      OBVIOUS
    <3>3. /\ ~Tick /\ ~EndScript /\ ~EndTimers /\ ~Poll /\ ~AsyncIo /\ ~OnFibersToResume
          /\ ~EndDrain /\ ~EndPoll /\ ~EndClosing
          /\ \A o \in Operations : ~CloseHandle(o)
      BY <3>2 DEF Tick, EndScript, EndTimers, Poll, AsyncIo, OnFibersToResume, EndDrain,
                  EndPoll, EndClosing, CloseHandle
    <3>4. ~JavaScript
      BY <3>1 DEF JavaScript, Fiber_Sleep, StartOther, DNS_ResolveThrows, Operations
    <3>5. \A o \in Operations : ~QueueFiberToResume(o) /\ ~DeleteContext(o) /\ ~ThreadDone(o)
      BY <3>1 DEF QueueFiberToResume, DeleteContext, ThreadDone
    <3>6. ~OnSleepTimer
      <4>1. \A i \in DOMAIN timer_heap : timer_heap[i] \in Operations
        BY DEF TypeOK, Operations
      <4> QED
        BY <3>5, <4>1 DEF OnSleepTimer
    <3>7. /\ \A o \in Polls : ~OnPoll(o)
          /\ \A o \in Requests : ~WorkDone(o) /\ ~ThreadDone(o)
      BY <3>5 DEF OnPoll, WorkDone, Operations
    <3> QED
      BY <3>3, <3>4, <3>5, <3>6, <3>7 DEF Next, Loop
  <2>3. /\ local_queue \in Seq(Operations) /\ local_queue # <<>>
        /\ at = "draining" /\ Become(Head(local_queue), "running")
    BY <2>2 DEF ResumeNext, TypeOK
  <2>4. a = Head(local_queue)
    BY <2>1, <2>3 DEF Become, TypeOK
  <2>5. Range(local_queue) = {a} \cup Range(Tail(local_queue))
    BY <2>3, <2>4, RangeTail
  <2>6. op[a] = "queued"
    BY <2>1, <2>5, InBothQueues
  <2>7. CASE op[b] = "active"
    BY <2>6, <2>7 DEF OrderInv
  <2>8. CASE op[b] = "queued"
    <3>1. b \in Range(local_queue)
      BY <2>1, <2>3, <2>8, InBothQueues, RangeEmpty DEF PhaseInv
    <3>2. deadline[a] \in Int
      BY ClockWidth DEF TypeOK
    <3> QED
      BY <2>3, <2>4, <2>5, <3>1, <3>2, TailOrdered DEF OrderInv
  <2> QED
    BY <2>7, <2>8
<1> QED
  BY <1>1, Invariant, PTL DEF SleepsWakeInOrder, Spec
===============================================================================
