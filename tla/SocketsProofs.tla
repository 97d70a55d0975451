------------------------------ MODULE SocketsProofs ----------------------------
(***************************************************************************)
(* Proofs about Sockets, for any fibers, sockets and numbers of chunks:    *)
(* a fiber that is blocked on a socket is waited for in exactly one place, *)
(* libuv works for a request only while the handle is allocated, and the   *)
(* chunks that arrive are returned to JavaScript in their order, although  *)
(* fibers read, write and close the same socket between the two.           *)
(***************************************************************************)
EXTENDS Sockets, QueueLemmas

FiberState == [at : {"ready", "js", "read", "write", "connect", "rejected", "ended"},
               on : Sockets]

Blocked(f) == fiber[f].at \in {"read", "write", "connect"}
Queued(f) == \E c \in Range(queue) : c.fiber = f

(* libuv still works for the fiber.                                        *)
Held(f) ==
  \/ fiber[f].at = "read" /\ pending_read[fiber[f].on] = f
  \/ fiber[f].at = "write" /\ f \in Range(writes[fiber[f].on])
  \/ fiber[f].at = "connect" /\ socket[fiber[f].on] = "connecting"

RunningInv == \A f \in Fibers : fiber[f].at = "js" <=> running = f

(* Whom libuv works for is blocked in the operation that it works on.      *)
RequestInv ==
  /\ \A s \in Sockets : pending_read[s] # NoFiber =>
                          fiber[pending_read[s]] = [at |-> "read", on |-> s]
  /\ \A s \in reading : pending_read[s] # NoFiber
  /\ \A s \in Sockets : /\ IsInjective(writes[s])
                         /\ \A f \in Range(writes[s]) : fiber[f] = [at |-> "write", on |-> s]
  /\ \A f \in Fibers : fiber[f].at = "connect" =>
                         /\ socket[fiber[f].on] # "none"
                         /\ \A g \in Fibers : fiber[g] = fiber[f] => g = f

(* Each fiber has one context in the queue at most, and it has none while  *)
(* libuv works for it.                                                     *)
QueueInv ==
  /\ IsInjective(queue)
  /\ \A c, d \in Range(queue) : c.fiber = d.fiber => c = d
  /\ \A f \in Fibers : Queued(f) => Blocked(f) /\ ~Held(f)

BlockedInv == \A f \in Fibers : Blocked(f) => Held(f) \/ Queued(f)

(* Chunks of a socket wait in the order in which they arrived, and all     *)
(* those that have not been returned do.                                   *)
Before(c, d) == c.result = "data" /\ d.result = "data" /\ c.on = d.on => c.chunk < d.chunk
Ordered(q) == \A i, j \in DOMAIN q : i < j => Before(q[i], q[j])

ChunkInv ==
  /\ Ordered(queue)
  /\ \A s \in Sockets : returned[s] <= arrived[s]
  /\ \A c \in Range(queue) :
       c.result = "data" => returned[c.on] < c.chunk /\ c.chunk <= arrived[c.on]
  /\ \A s \in Sockets : \A k \in returned[s] + 1 .. arrived[s] :
       \E c \in Range(queue) : c.result = "data" /\ c.on = s /\ c.chunk = k

(* A socket that JavaScript may use is connected, bound or accepted, so no *)
(* TCP_Connect works on it.                                                *)
StoredInv ==
  /\ \A s \in stored : socket[s] \notin {"none", "connecting"}
  /\ \A c \in Range(queue) :
       c.result = "connected" => socket[c.on] \notin {"none", "connecting"}

SocketsInv == /\ TypeOK /\ RunningInv /\ RequestInv /\ QueueInv /\ BlockedInv
              /\ ChunkInv /\ StoredInv
-------------------------------------------------------------------------------
(* The type invariant, in parts.                                           *)
SocketType == /\ socket \in [Sockets -> {"none", "connecting", "open", "orphan", "closing",
                                         "closed"}]
              /\ stored \subseteq Sockets
              /\ deleted \subseteq Sockets /\ misused \in BOOLEAN
ReadType == /\ reading \subseteq Sockets /\ broken \subseteq Sockets
            /\ pending_read \in [Sockets -> Fibers \cup {NoFiber}]
            /\ arrived \in [Sockets -> 0 .. MaxChunks]
            /\ returned \in [Sockets -> 0 .. MaxChunks]
WriteType == writes \in [Sockets -> Seq(Fibers)]
FiberType == /\ fiber \in [Fibers -> FiberState]
             /\ script \in BOOLEAN /\ running \in Fibers \cup {NoFiber}
QueueType == queue \in Seq(Context)

LEMMA TypeParts == TypeOK <=> SocketType /\ ReadType /\ WriteType /\ FiberType /\ QueueType
  BY Zenon DEF TypeOK, SocketType, ReadType, WriteType, FiberType, QueueType, FiberState

(* The same after a step.                                                  *)
LEMMA TypePartsNext ==
  SocketType' /\ ReadType' /\ WriteType' /\ FiberType' /\ QueueType' <=> TypeOK'
  BY Zenon DEF TypeOK, SocketType, ReadType, WriteType, FiberType, QueueType, FiberState

LEMMA OffType ==
  ASSUME NEW activity \in {"ready", "js", "ended"}
  PROVE  Off(activity) \in FiberState /\ Off(activity).at = activity
<1>1. (CHOOSE s \in Sockets : TRUE) \in Sockets
  BY SocketsAssumption
<1> QED
  BY <1>1 DEF Off, FiberState

LEMMA LinkType ==
  ASSUME LinkHandle PROVE misused' \in BOOLEAN
  BY DEF LinkHandle, Freed

LEMMA YieldType ==
  ASSUME FiberType, NEW f \in Fibers, NEW s \in Sockets,
         NEW activity \in {"read", "write", "connect", "rejected"}, Yield(f, activity, s)
  PROVE  /\ FiberType' /\ running = f /\ running' = NoFiber
         /\ fiber'[f] = [at |-> activity, on |-> s]
         /\ \A g \in Fibers : g # f => fiber'[g] = fiber[g]
         /\ UNCHANGED <<script, queue>>
  BY DEF FiberType, FiberState, Yield

LEMMA InitInv == Init => SocketsInv
<1> SUFFICES ASSUME Init PROVE SocketsInv
  OBVIOUS
<1>1. /\ socket = [s \in Sockets |-> IF s \in Clients \cup Datagrams THEN "none" ELSE "open"]
      /\ stored = Sockets \ (Clients \cup Datagrams)
      /\ pending_read = [s \in Sockets |-> NoFiber]
      /\ reading = {} /\ broken = {}
      /\ writes = [s \in Sockets |-> <<>>]
      /\ arrived = [s \in Sockets |-> 0] /\ returned = [s \in Sockets |-> 0]
      /\ deleted = {} /\ misused = FALSE /\ script = TRUE /\ running = NoFiber /\ queue = <<>>
  BY DEF Init
<1>2. /\ fiber \in [Fibers -> FiberState]
      /\ \A f \in Fibers : fiber[f].at = "ready"
  BY OffType DEF Init
<1>3. TypeOK
  <2>1. writes \in [Sockets -> Seq(Fibers)]
    BY <1>1
  <2>2. SocketType
    BY <1>1 DEF SocketType
  <2>4. ReadType
    <3>1. 0 \in 0 .. MaxChunks
      BY SocketsAssumption
    <3> QED
      BY <1>1, <3>1 DEF ReadType
  <2>3. WriteType /\ FiberType /\ QueueType
    BY <1>1, <1>2, <2>1, EmptySeq DEF WriteType, FiberType, QueueType
  <2> QED
    BY <2>2, <2>3, <2>4, TypeParts
<1>4. RunningInv /\ BlockedInv
  BY <1>1, <1>2, SocketsAssumption DEF RunningInv, BlockedInv, Blocked
<1>5. RequestInv
  BY <1>1, <1>2, RangeEmpty DEF RequestInv
<1>6. QueueInv /\ StoredInv
  BY <1>1, RangeEmpty DEF QueueInv, StoredInv, Queued
<1>7. ChunkInv
  BY <1>1, RangeEmpty DEF ChunkInv, Ordered
<1> QED
  BY <1>3, <1>4, <1>5, <1>6, <1>7 DEF SocketsInv
-------------------------------------------------------------------------------
(* What happens to the queue and to the fibers in it.                      *)
LEMMA OrderedAppend ==
  ASSUME NEW q \in Seq(Context), NEW r \in Seq(Context), Ordered(q), Ordered(r),
         \A c \in Range(q), d \in Range(r) : Before(c, d)
  PROVE  Ordered(q \o r)
<1> DEFINE m == Len(q)
           n == Len(r)
           b == q \o r
<1>1. /\ m \in Nat /\ n \in Nat /\ DOMAIN q = 1 .. m /\ DOMAIN r = 1 .. n
      /\ DOMAIN b = 1 .. m + n
      /\ \A i \in 1 .. m : b[i] = q[i] /\ q[i] \in Range(q)
      /\ \A i \in 1 .. m + n : i \notin 1 .. m =>
            i - m \in 1 .. n /\ b[i] = r[i - m] /\ r[i - m] \in Range(r)
  BY DEF Range
<1> HIDE DEF m, n, b
<1>2. ASSUME NEW i \in 1 .. m + n, NEW j \in 1 .. m + n, i < j PROVE Before(b[i], b[j])
  <2>1. CASE i \in 1 .. m /\ j \in 1 .. m
    BY <1>1, <1>2, <2>1 DEF Ordered
  <2>2. CASE i \in 1 .. m /\ j \notin 1 .. m
    BY <1>1, <1>2, <2>2
  <2>3. CASE i \notin 1 .. m /\ j \notin 1 .. m
    <3>1. i - m < j - m /\ i - m \in 1 .. n /\ j - m \in 1 .. n
      BY <1>1, <1>2, <2>3
    <3>2. Before(r[i - m], r[j - m])
      BY <1>1, <3>1 DEF Ordered
    <3> QED
      BY <1>1, <2>3, <3>2
  <2>4. i \notin 1 .. m => j \notin 1 .. m
    BY <1>1, <1>2
  <2> QED
    BY <2>1, <2>2, <2>3, <2>4
<1> QED
  BY <1>1, <1>2 DEF Ordered, b

LEMMA OrderedTail ==
  ASSUME NEW q \in Seq(Context), q # <<>>, Ordered(q)
  PROVE  /\ Ordered(Tail(q))
         /\ \A d \in Range(Tail(q)) : Before(Head(q), d)
<1> DEFINE r == Tail(q)
           n == Len(q)
<1>1. /\ n \in Nat /\ n > 0 /\ DOMAIN q = 1 .. n /\ DOMAIN r = 1 .. n - 1
      /\ \A i \in 1 .. n - 1 : r[i] = q[i + 1] /\ i + 1 \in 1 .. n /\ 1 < i + 1
      /\ Head(q) = q[1]
  OBVIOUS
<1> HIDE DEF r, n
<1>2. ASSUME NEW i \in 1 .. n - 1, NEW j \in 1 .. n - 1, i < j PROVE Before(r[i], r[j])
  <2>1. i + 1 < j + 1
    BY <1>1, <1>2
  <2> QED
    BY <1>1, <2>1 DEF Ordered
<1>3. ASSUME NEW i \in 1 .. n - 1 PROVE Before(q[1], r[i])
  <2>1. 1 \in DOMAIN q /\ i + 1 \in DOMAIN q /\ 1 < i + 1
    BY <1>1
  <2> QED
    BY <1>1, <2>1 DEF Ordered
<1> QED
  BY <1>1, <1>2, <1>3 DEF Ordered, Range, r

(* libuv has finished the requests of some fibers, and nothing else of     *)
(* what it does for fibers has changed: they enter the queue.              *)
LEMMA EnqueueStep ==
  ASSUME SocketsInv, NEW contexts \in Seq(Context), queue' = queue \o contexts,
         IsInjective(contexts),
         \A c, d \in Range(contexts) : c.fiber = d.fiber => c = d,
         \A c \in Range(contexts) : Held(c.fiber) /\ ~ Held(c.fiber)',
         \A f \in Fibers : Held(f)' => Held(f),
         \A f \in Fibers : Held(f) => Held(f)' \/ \E c \in Range(contexts) : c.fiber = f,
         UNCHANGED <<fiber, running>>
  PROVE  /\ QueueType' /\ QueueInv' /\ BlockedInv' /\ RunningInv'
         /\ Range(queue') = Range(queue) \cup Range(contexts)
<1> USE DEF SocketsInv
<1>1. queue \in Seq(Context) /\ Range(queue) \subseteq Context /\ Range(contexts) \subseteq Context
  BY TypeParts, RangeOfSeq DEF QueueType
<1>2. \A c \in Range(queue) : c.fiber \in Fibers /\ ~Held(c.fiber)
  BY <1>1 DEF QueueInv, Queued, Context
<1>3. Range(queue) \cap Range(contexts) = {}
  BY <1>2
<1>4. Range(queue') = Range(queue) \cup Range(contexts) /\ IsInjective(queue')
  BY <1>1, <1>3, RangeConcat DEF QueueInv
<1>5. QueueType'
  BY <1>1 DEF QueueType
<1>6. \A f \in Fibers : Queued(f)' <=> Queued(f) \/ \E c \in Range(contexts) : c.fiber = f
  BY <1>4 DEF Queued
<1>7. \A f \in Fibers : Blocked(f)' <=> Blocked(f)
  BY DEF Blocked
<1>8. \A f \in Fibers : Held(f) => Blocked(f)
  BY DEF Held, Blocked
<1>9. \A c \in Range(contexts) : c.fiber \in Fibers
  BY <1>1 DEF Context
<1>10. QueueInv'
  <2>1. \A c, d \in Range(queue') : c.fiber = d.fiber => c = d
    BY <1>2, <1>4 DEF QueueInv
  <2>2. \A f \in Fibers : Queued(f)' => Blocked(f)' /\ ~ Held(f)'
    BY <1>6, <1>7, <1>8, <1>9 DEF QueueInv
  <2> QED
    BY <1>4, <2>1, <2>2 DEF QueueInv
<1>11. BlockedInv'
  BY <1>6, <1>7 DEF BlockedInv
<1>12. RunningInv'
  BY DEF RunningInv
<1> QED
  BY <1>4, <1>5, <1>10, <1>11, <1>12
-------------------------------------------------------------------------------
(* Fiber_Run, EndFiber, UDP_Listen, Close, and the primitives that libuv   *)
(* refuses: the fiber is not blocked before, and not afterwards.           *)
LEMMA UnblockedStep ==
  ASSUME SocketsInv, NEW f \in Fibers, ~Blocked(f), ~ Blocked(f)',
         fiber'[f] \in FiberState, fiber' \in [Fibers -> FiberState],
         \A g \in Fibers : g # f => fiber'[g] = fiber[g],
         UNCHANGED <<pending_read, writes, queue>>, reading' \subseteq reading,
         \A s \in Sockets : socket'[s] # socket[s] =>
           socket[s] # "connecting" /\ socket'[s] \notin {"none", "connecting"}
  PROVE  RequestInv' /\ QueueInv' /\ BlockedInv'
<1> USE DEF SocketsInv
<1>1. FiberType /\ ReadType /\ WriteType /\ SocketType
  BY TypeParts
<1>2. ASSUME NEW g \in Fibers, g # f
      PROVE  /\ Queued(g)' => Blocked(g)' /\ ~ Held(g)'
             /\ Blocked(g)' => Held(g)' \/ Queued(g)'
  <2>1. fiber[g].on \in Sockets /\ fiber'[g] = fiber[g]
    BY <1>1, <1>2 DEF FiberType, FiberState
  <2>2. fiber[g].at = "connect" =>
          (socket'[fiber[g].on] = "connecting" <=> socket[fiber[g].on] = "connecting")
    BY <2>1 DEF RequestInv
  <2>3. Held(g)' <=> Held(g)
    BY <2>1, <2>2 DEF Held
  <2>4. (Blocked(g)' <=> Blocked(g)) /\ (Queued(g)' <=> Queued(g))
    BY <2>1 DEF Blocked, Queued
  <2> QED
    BY <2>3, <2>4 DEF QueueInv, BlockedInv
<1>3. ~Queued(f) /\ ~ Queued(f)'
  BY DEF QueueInv, Queued
<1>4. QueueInv' /\ BlockedInv'
  <2>1. IsInjective(queue') /\ \A c, d \in Range(queue') : c.fiber = d.fiber => c = d
    BY DEF QueueInv
  <2>2. ASSUME NEW g \in Fibers
        PROVE  /\ Queued(g)' => Blocked(g)' /\ ~ Held(g)'
               /\ Blocked(g)' => Held(g)' \/ Queued(g)'
    <3>1. CASE g = f
      BY <1>3, <3>1
    <3>2. CASE g # f
      BY <1>2, <3>2
    <3> QED
      BY <3>1, <3>2
  <2> QED
    BY <2>1, <2>2 DEF QueueInv, BlockedInv
<1>5. RequestInv'
  <2>1. ASSUME NEW s \in Sockets, pending_read[s] # NoFiber
        PROVE  fiber'[pending_read[s]] = [at |-> "read", on |-> s]
    <3>1. fiber[pending_read[s]] = [at |-> "read", on |-> s] /\ pending_read[s] \in Fibers
      BY <1>1, <2>1 DEF ReadType, RequestInv
    <3>2. pending_read[s] # f
      BY <3>1 DEF Blocked
    <3> QED
      BY <3>1, <3>2
  <2>2. ASSUME NEW s \in Sockets, NEW g \in Range(writes[s])
        PROVE  fiber'[g] = [at |-> "write", on |-> s]
    <3>1. fiber[g] = [at |-> "write", on |-> s]
      BY DEF RequestInv
    <3>2. g \in Fibers
      <4>1. writes[s] \in Seq(Fibers)
        BY <1>1 DEF WriteType
      <4> QED
        BY <4>1, RangeOfSeq
    <3>3. g # f
      BY <3>1 DEF Blocked
    <3> QED
      BY <3>1, <3>2, <3>3
  <2>3. ASSUME NEW g \in Fibers, fiber'[g].at = "connect"
        PROVE  /\ socket'[fiber'[g].on] # "none"
               /\ \A h \in Fibers : fiber'[h] = fiber'[g] => h = g
    <3>1. g # f /\ \A h \in Fibers : fiber'[h] = fiber'[g] => h # f
      BY <2>3 DEF Blocked
    <3>2. fiber'[g] = fiber[g] /\ fiber[g].on \in Sockets
      BY <1>1, <3>1 DEF FiberType, FiberState
    <3>3. socket[fiber[g].on] # "none" /\ \A h \in Fibers : fiber[h] = fiber[g] => h = g
      BY <2>3, <3>2 DEF RequestInv
    <3> QED
      BY <3>1, <3>2, <3>3
  <2> QED
    BY <2>1, <2>2, <2>3 DEF RequestInv
<1> QED
  BY <1>4, <1>5

(* Read, Write and TCP_Connect: the fiber blocks and libuv works for it.   *)
LEMMA BlockStep ==
  ASSUME SocketsInv, NEW f \in Fibers, running = f, running' = NoFiber,
         Blocked(f)', Held(f)', fiber'[f].at # "js",
         \A g \in Fibers : g # f => fiber'[g] = fiber[g],
         \A g \in Fibers : g # f => (Held(g)' <=> Held(g)),
         UNCHANGED queue
  PROVE  QueueInv' /\ BlockedInv' /\ RunningInv'
<1> USE DEF SocketsInv
<1>1. ~Blocked(f)
  BY DEF RunningInv, Blocked
<1>2. ~Queued(f) /\ ~ Queued(f)'
  BY <1>1 DEF QueueInv, Queued
<1>3. ASSUME NEW g \in Fibers
      PROVE  /\ Queued(g)' => Blocked(g)' /\ ~ Held(g)'
             /\ Blocked(g)' => Held(g)' \/ Queued(g)'
  <2>1. CASE g = f
    BY <1>2, <2>1
  <2>2. CASE g # f
    <3>1. Held(g)' <=> Held(g)
      BY <2>2
    <3>2. (Blocked(g)' <=> Blocked(g)) /\ (Queued(g)' <=> Queued(g))
      BY <2>2 DEF Blocked, Queued
    <3> QED
      BY <3>1, <3>2 DEF QueueInv, BlockedInv
  <2> QED
    BY <2>1, <2>2
<1>4. IsInjective(queue') /\ \A c, d \in Range(queue') : c.fiber = d.fiber => c = d
  BY DEF QueueInv
<1>5. RunningInv'
  BY SocketsAssumption DEF RunningInv
<1> QED
  BY <1>3, <1>4, <1>5 DEF QueueInv, BlockedInv

(* The fiber that runs is waited for nowhere.                              *)
LEMMA RunningFree ==
  ASSUME SocketsInv, NEW f \in Fibers, running = f
  PROVE  /\ fiber[f].at = "js"
         /\ \A s \in Sockets : pending_read[s] # NoFiber => pending_read[s] \in Fibers \ {f}
         /\ \A s \in Sockets : \A g \in Range(writes[s]) : g \in Fibers \ {f}
<1> USE DEF SocketsInv
<1>1. fiber[f].at = "js"
  BY DEF RunningInv
<1>2. ASSUME NEW s \in Sockets, pending_read[s] # NoFiber PROVE pending_read[s] \in Fibers \ {f}
  <2>1. fiber[pending_read[s]] = [at |-> "read", on |-> s]
    BY <1>2 DEF RequestInv
  <2>2. pending_read[s] \in Fibers
    BY <1>2, TypeParts DEF ReadType
  <2> QED
    BY <1>1, <2>1, <2>2
<1>3. ASSUME NEW s \in Sockets, NEW g \in Range(writes[s]) PROVE g \in Fibers \ {f}
  <2>1. fiber[g] = [at |-> "write", on |-> s]
    BY DEF RequestInv
  <2>2. writes[s] \in Seq(Fibers)
    BY TypeParts DEF WriteType
  <2> QED
    BY <1>1, <2>1, <2>2, RangeOfSeq
<1> QED
  BY <1>1, <1>2, <1>3

LEMMA ReadStep ==
  ASSUME SocketsInv, NEW f \in Fibers, NEW s \in Sockets, Read(f, s)
  PROVE  TypeOK' /\ RequestInv' /\ QueueInv' /\ BlockedInv' /\ RunningInv'
<1> USE DEF SocketsInv
<1>1. SocketType /\ ReadType /\ WriteType /\ FiberType /\ QueueType
  BY TypeParts
<1>2. /\ FiberType' /\ running = f /\ running' = NoFiber
      /\ fiber'[f] = [at |-> "read", on |-> s]
      /\ \A g \in Fibers : g # f => fiber'[g] = fiber[g]
      /\ UNCHANGED <<script, queue>>
  BY <1>1, YieldType DEF Read
<1>3. /\ pending_read[s] = NoFiber
      /\ pending_read' = [pending_read EXCEPT ![s] = f]
      /\ reading' \subseteq reading \cup {s}
      /\ UNCHANGED <<socket, stored, broken, writes, arrived, returned, deleted>>
      /\ misused' \in BOOLEAN
  BY <1>1 DEF Read, MayRead, Pending, UseOf, IsCopy, SocketType
<1>4. TypeOK'
  <2>1. ReadType' /\ SocketType'
    BY <1>1, <1>3 DEF ReadType, SocketType
  <2>2. WriteType' /\ QueueType'
    BY <1>1, <1>2, <1>3 DEF WriteType, QueueType
  <2> QED
    BY <1>2, <2>1, <2>2, TypePartsNext
<1>5. /\ pending_read'[s] = f
      /\ \A t \in Sockets : t # s => pending_read'[t] = pending_read[t]
  BY <1>1, <1>3 DEF ReadType
<1>6. /\ fiber[f].at = "js"
      /\ \A t \in Sockets : pending_read[t] # NoFiber => pending_read[t] \in Fibers \ {f}
      /\ \A t \in Sockets : \A g \in Range(writes[t]) : g \in Fibers \ {f}
  BY <1>2, RunningFree
<1>7. Blocked(f)' /\ Held(f)' /\ fiber'[f].at # "js"
  BY <1>2, <1>5 DEF Blocked, Held
<1>8. ASSUME NEW g \in Fibers, g # f PROVE Held(g)' <=> Held(g)
  <2>1. fiber'[g] = fiber[g] /\ fiber[g].on \in Sockets
    BY <1>1, <1>2, <1>8 DEF FiberType, FiberState
  <2>2. pending_read'[fiber[g].on] = g <=> pending_read[fiber[g].on] = g
    BY <1>3, <1>5, <1>8, <2>1, SocketsAssumption
  <2> QED
    BY <1>3, <2>1, <2>2 DEF Held
<1>9. QueueInv' /\ BlockedInv' /\ RunningInv'
  BY <1>2, <1>7, <1>8, BlockStep
<1>10. RequestInv'
  <2>1. \A t \in Sockets : pending_read'[t] # NoFiber =>
                           fiber'[pending_read'[t]] = [at |-> "read", on |-> t]
    <3> SUFFICES ASSUME NEW t \in Sockets, pending_read'[t] # NoFiber
                 PROVE  fiber'[pending_read'[t]] = [at |-> "read", on |-> t]
      OBVIOUS
    <3>1. CASE t = s
      BY <1>2, <1>5, <3>1
    <3>2. CASE t # s
      <4>1. pending_read'[t] = pending_read[t] /\ pending_read[t] \in Fibers /\ pending_read[t] # f
        BY <1>1, <1>5, <1>6, <3>2 DEF ReadType
      <4> QED
        BY <1>2, <4>1 DEF RequestInv
    <3> QED
      BY <3>1, <3>2
  <2>2. \A t \in reading' : pending_read'[t] # NoFiber
    BY <1>1, <1>3, <1>5, SocketsAssumption DEF ReadType, RequestInv
  <2>3. \A t \in Sockets : /\ IsInjective(writes'[t])
                           /\ \A g \in Range(writes'[t]) : fiber'[g] = [at |-> "write", on |-> t]
    BY <1>2, <1>3, <1>6 DEF RequestInv
  <2>4. \A g \in Fibers : fiber'[g].at = "connect" =>
                          /\ socket'[fiber'[g].on] # "none"
                          /\ \A h \in Fibers : fiber'[h] = fiber'[g] => h = g
    BY <1>2, <1>3 DEF RequestInv
  <2> QED
    BY <2>1, <2>2, <2>3, <2>4 DEF RequestInv
<1> QED
  BY <1>4, <1>9, <1>10

LEMMA WriteStep ==
  ASSUME SocketsInv, NEW f \in Fibers, NEW s \in Sockets, Write(f, s)
  PROVE  TypeOK' /\ RequestInv' /\ QueueInv' /\ BlockedInv' /\ RunningInv'
<1> USE DEF SocketsInv
<1>1. SocketType /\ ReadType /\ WriteType /\ FiberType /\ QueueType
  BY TypeParts
<1>2. /\ FiberType' /\ running = f /\ running' = NoFiber
      /\ fiber'[f] = [at |-> "write", on |-> s]
      /\ \A g \in Fibers : g # f => fiber'[g] = fiber[g]
      /\ UNCHANGED <<script, queue>>
  BY <1>1, YieldType DEF Write
<1>3. /\ writes' = [writes EXCEPT ![s] = Append(@, f)]
      /\ UNCHANGED <<socket, stored, pending_read, reading, broken, arrived, returned, deleted>>
      /\ misused' \in BOOLEAN
  BY <1>1 DEF Write, UseOf, IsCopy, SocketType
<1>4. writes[s] \in Seq(Fibers) /\ Append(writes[s], f) \in Seq(Fibers)
  BY <1>1 DEF WriteType
<1>5. TypeOK'
  <2>1. ReadType' /\ SocketType' /\ QueueType'
    BY <1>1, <1>2, <1>3 DEF ReadType, SocketType, QueueType
  <2>2. WriteType'
    BY <1>1, <1>3, <1>4 DEF WriteType
  <2> QED
    BY <1>2, <2>1, <2>2, TypePartsNext
<1>6. /\ fiber[f].at = "js"
      /\ \A t \in Sockets : pending_read[t] # NoFiber => pending_read[t] \in Fibers \ {f}
      /\ \A t \in Sockets : \A g \in Range(writes[t]) : g \in Fibers \ {f}
  BY <1>2, RunningFree
<1>7. /\ Range(writes'[s]) = Range(writes[s]) \cup {f} /\ IsInjective(writes'[s])
      /\ \A t \in Sockets : t # s => writes'[t] = writes[t]
  <2>1. /\ Range(Append(writes[s], f)) = Range(writes[s]) \cup {f}
        /\ IsInjective(Append(writes[s], f))
    <3>1. f \notin Range(writes[s]) /\ IsInjective(writes[s])
      BY <1>6 DEF RequestInv
    <3> QED
      BY <1>4, <3>1, RangeAppend
  <2> QED
    BY <1>1, <1>3, <2>1 DEF WriteType
<1>8. Blocked(f)' /\ Held(f)' /\ fiber'[f].at # "js"
  BY <1>2, <1>7 DEF Blocked, Held
<1>9. ASSUME NEW g \in Fibers, g # f PROVE Held(g)' <=> Held(g)
  <2>1. fiber'[g] = fiber[g] /\ fiber[g].on \in Sockets
    BY <1>1, <1>2, <1>9 DEF FiberType, FiberState
  <2>2. g \in Range(writes'[fiber[g].on]) <=> g \in Range(writes[fiber[g].on])
    BY <1>7, <1>9, <2>1
  <2> QED
    BY <1>3, <2>1, <2>2 DEF Held
<1>10. QueueInv' /\ BlockedInv' /\ RunningInv'
  BY <1>2, <1>8, <1>9, BlockStep
<1>11. RequestInv'
  <2>1. \A t \in Sockets : pending_read'[t] # NoFiber =>
                           fiber'[pending_read'[t]] = [at |-> "read", on |-> t]
    BY <1>2, <1>3, <1>6 DEF RequestInv
  <2>2. \A t \in reading' : pending_read'[t] # NoFiber
    BY <1>3 DEF RequestInv
  <2>3. ASSUME NEW t \in Sockets
        PROVE  /\ IsInjective(writes'[t])
               /\ \A g \in Range(writes'[t]) : fiber'[g] = [at |-> "write", on |-> t]
    <3>1. CASE t = s
      BY <1>2, <1>6, <1>7, <3>1 DEF RequestInv
    <3>2. CASE t # s
      BY <1>2, <1>6, <1>7, <3>2 DEF RequestInv
    <3> QED
      BY <3>1, <3>2
  <2>4. \A g \in Fibers : fiber'[g].at = "connect" =>
                          /\ socket'[fiber'[g].on] # "none"
                          /\ \A h \in Fibers : fiber'[h] = fiber'[g] => h = g
    BY <1>2, <1>3 DEF RequestInv
  <2> QED
    BY <2>1, <2>2, <2>3, <2>4 DEF RequestInv
<1> QED
  BY <1>5, <1>10, <1>11

LEMMA ConnectStep ==
  ASSUME SocketsInv, NEW f \in Fibers, NEW s \in Sockets, TCP_Connect(f, s)
  PROVE  TypeOK' /\ RequestInv' /\ QueueInv' /\ BlockedInv' /\ RunningInv'
<1> USE DEF SocketsInv
<1>1. SocketType /\ ReadType /\ WriteType /\ FiberType /\ QueueType
  BY TypeParts
<1>2. /\ FiberType' /\ running = f /\ running' = NoFiber
      /\ fiber'[f] = [at |-> "connect", on |-> s]
      /\ \A g \in Fibers : g # f => fiber'[g] = fiber[g]
      /\ UNCHANGED <<script, queue>>
  BY <1>1, YieldType DEF TCP_Connect
<1>3. /\ socket[s] = "none" /\ socket' = [socket EXCEPT ![s] = "connecting"]
      /\ UNCHANGED <<stored, pending_read, reading, broken, writes, arrived, returned, deleted>>
      /\ misused' \in BOOLEAN
  BY LinkType DEF TCP_Connect
<1>4. TypeOK'
  <2>1. ReadType' /\ SocketType' /\ QueueType' /\ WriteType'
    BY <1>1, <1>2, <1>3 DEF ReadType, SocketType, QueueType, WriteType
  <2> QED
    BY <1>2, <2>1, TypePartsNext
<1>5. /\ fiber[f].at = "js"
      /\ \A t \in Sockets : pending_read[t] # NoFiber => pending_read[t] \in Fibers \ {f}
      /\ \A t \in Sockets : \A g \in Range(writes[t]) : g \in Fibers \ {f}
  BY <1>2, RunningFree
<1>6. socket'[s] = "connecting" /\ \A t \in Sockets : t # s => socket'[t] = socket[t]
  BY <1>1, <1>3 DEF SocketType
<1>7. Blocked(f)' /\ Held(f)' /\ fiber'[f].at # "js"
  BY <1>2, <1>6 DEF Blocked, Held
<1>8. ASSUME NEW g \in Fibers, fiber[g].at = "connect" PROVE g # f /\ fiber[g].on \in Sockets \ {s}
  <2>1. fiber[g].on \in Sockets
    BY <1>1 DEF FiberType, FiberState
  <2> QED
    BY <1>3, <1>5, <1>8, <2>1 DEF RequestInv
<1>9. ASSUME NEW g \in Fibers, g # f PROVE Held(g)' <=> Held(g)
  <2>1. fiber'[g] = fiber[g]
    BY <1>2, <1>9
  <2>2. fiber[g].at = "connect" => socket'[fiber[g].on] = socket[fiber[g].on]
    BY <1>6, <1>8
  <2> QED
    BY <1>3, <2>1, <2>2 DEF Held
<1>10. QueueInv' /\ BlockedInv' /\ RunningInv'
  BY <1>2, <1>7, <1>9, BlockStep
<1>11. RequestInv'
  <2>1. \A t \in Sockets : pending_read'[t] # NoFiber =>
                           fiber'[pending_read'[t]] = [at |-> "read", on |-> t]
    BY <1>2, <1>3, <1>5 DEF RequestInv
  <2>2. \A t \in reading' : pending_read'[t] # NoFiber
    BY <1>3 DEF RequestInv
  <2>3. \A t \in Sockets : /\ IsInjective(writes'[t])
                           /\ \A g \in Range(writes'[t]) : fiber'[g] = [at |-> "write", on |-> t]
    BY <1>2, <1>3, <1>5 DEF RequestInv
  <2>4. ASSUME NEW g \in Fibers, fiber'[g].at = "connect"
        PROVE  /\ socket'[fiber'[g].on] # "none"
               /\ \A h \in Fibers : fiber'[h] = fiber'[g] => h = g
    <3>1. CASE g = f
      BY <1>2, <1>6, <1>8, <3>1
    <3>2. CASE g # f
      BY <1>2, <1>6, <1>8, <2>4, <3>2 DEF RequestInv
    <3> QED
      BY <3>1, <3>2
  <2> QED
    BY <2>1, <2>2, <2>3, <2>4 DEF RequestInv
<1> QED
  BY <1>4, <1>10, <1>11

(* The actions of a fiber that block on no request of libuv.               *)
LEMMA OtherStep ==
  ASSUME SocketsInv, NEW f \in Fibers, NEW s \in Sockets,
         \/ Fiber_Run(f) \/ EndFiber(f)
         \/ WriteRejected(f, s) \/ ConnectRejected(f, s) \/ UDP_Listen(f, s) \/ Close(f, s)
  PROVE  TypeOK' /\ RequestInv' /\ QueueInv' /\ BlockedInv' /\ RunningInv'
<1> USE DEF SocketsInv
<1>1. SocketType /\ ReadType /\ WriteType /\ FiberType /\ QueueType
  BY TypeParts
<1>2. /\ fiber' \in [Fibers -> FiberState]
      /\ script' \in BOOLEAN /\ running' \in Fibers \cup {NoFiber}
      /\ fiber[f].at \in {"ready", "js"} /\ fiber'[f].at \in {"js", "ended", "rejected"}
      /\ \A g \in Fibers : g # f => fiber'[g] = fiber[g]
      /\ RunningInv'
  <2>1. CASE Fiber_Run(f)
    <3>1. /\ running = NoFiber /\ running' = f /\ fiber[f].at = "ready"
          /\ fiber' = [fiber EXCEPT ![f] = Off("js")] /\ script' = script
      BY <2>1 DEF Fiber_Run
    <3>2. fiber'[f].at = "js" /\ \A g \in Fibers : g # f => fiber'[g] = fiber[g]
      BY <1>1, <3>1, OffType DEF FiberType
    <3>3. fiber' \in [Fibers -> FiberState]
      BY <1>1, <3>1, OffType DEF FiberType
    <3>4. RunningInv'
      BY <3>1, <3>2, SocketsAssumption DEF RunningInv
    <3> QED
      BY <1>1, <3>1, <3>2, <3>3, <3>4 DEF FiberType
  <2>2. CASE EndFiber(f)
    <3>1. /\ running = f /\ running' = NoFiber /\ script' = script
          /\ fiber' = [fiber EXCEPT ![f] = Off("ended")]
      BY <2>2 DEF EndFiber
    <3>2. fiber'[f].at = "ended" /\ \A g \in Fibers : g # f => fiber'[g] = fiber[g]
      BY <1>1, <3>1, OffType DEF FiberType
    <3>3. fiber' \in [Fibers -> FiberState]
      BY <1>1, <3>1, OffType DEF FiberType
    <3>4. RunningInv' /\ fiber[f].at = "js"
      BY <3>1, <3>2, SocketsAssumption DEF RunningInv
    <3> QED
      BY <1>1, <3>1, <3>2, <3>3, <3>4 DEF FiberType
  <2>3. CASE WriteRejected(f, s) \/ ConnectRejected(f, s)
    <3>1. Yield(f, "rejected", s)
      BY <2>3 DEF WriteRejected, ConnectRejected
    <3>2. /\ FiberType' /\ running = f /\ running' = NoFiber
          /\ fiber'[f] = [at |-> "rejected", on |-> s]
          /\ \A g \in Fibers : g # f => fiber'[g] = fiber[g]
      BY <1>1, <3>1, YieldType
    <3>3. /\ FiberType' /\ running = f /\ running' = NoFiber
          /\ fiber'[f].at = "rejected"
          /\ \A g \in Fibers : g # f => fiber'[g] = fiber[g]
      BY <3>2
    <3>4. RunningInv' /\ fiber[f].at = "js"
      BY <3>3, SocketsAssumption DEF RunningInv
    <3> QED
      BY <3>3, <3>4 DEF FiberType
  <2>4. CASE UDP_Listen(f, s) \/ Close(f, s)
    <3>1. running = f /\ UNCHANGED <<fiber, script, running>>
      BY <2>4 DEF UDP_Listen, Close, Usable
    <3>2. RunningInv' /\ fiber[f].at = "js"
      BY <3>1 DEF RunningInv
    <3> QED
      BY <1>1, <3>1, <3>2 DEF FiberType
  <2> QED
    BY <2>1, <2>2, <2>3, <2>4
<1>3. /\ UNCHANGED <<pending_read, writes, queue, broken, arrived, returned>>
      /\ reading' \subseteq reading
  BY DEF Fiber_Run, EndFiber, WriteRejected, ConnectRejected, UDP_Listen, Close, Yield, ioVars
<1>4. /\ socket' \in [Sockets -> {"none", "connecting", "open", "orphan", "closing", "closed"}]
      /\ \A t \in Sockets : socket'[t] # socket[t] =>
           socket[t] # "connecting" /\ socket'[t] \notin {"none", "connecting"}
  <2>1. CASE ConnectRejected(f, s) \/ UDP_Listen(f, s)
    BY <1>1, <2>1 DEF ConnectRejected, UDP_Listen, SocketType
  <2>2. CASE Close(f, s)
    <3>1. socket[s] # "connecting"
      BY <2>2 DEF Close, Usable, StoredInv
    <3> QED
      BY <1>1, <2>2, <3>1 DEF Close, SocketType
  <2>3. CASE UNCHANGED socket
    BY <1>1, <2>3 DEF SocketType
  <2> QED
    BY <2>1, <2>2, <2>3 DEF Fiber_Run, EndFiber, WriteRejected, ioVars
<1>5. stored' \subseteq Sockets /\ deleted' = deleted /\ misused' \in BOOLEAN
  BY <1>1, LinkType DEF Fiber_Run, EndFiber, WriteRejected, ConnectRejected, UDP_Listen, Close, ioVars,
              UseOf, IsCopy, SocketType
<1>6. TypeOK'
  <2>1. SocketType' /\ FiberType'
    BY <1>1, <1>2, <1>4, <1>5 DEF SocketType, FiberType
  <2>2. ReadType' /\ WriteType' /\ QueueType'
    BY <1>1, <1>3 DEF ReadType, WriteType, QueueType
  <2> QED
    BY <2>1, <2>2, TypePartsNext
<1>7. ~Blocked(f) /\ ~ Blocked(f)' /\ fiber'[f] \in FiberState
  BY <1>2 DEF Blocked
<1> QED
  BY <1>2, <1>3, <1>4, <1>6, <1>7, UnblockedStep

LEMMA FiberStep ==
  ASSUME SocketsInv, NEW f \in Fibers, Fiber(f)
  PROVE  SocketsInv'
<1> USE DEF SocketsInv
<1>1. TypeOK' /\ RequestInv' /\ QueueInv' /\ BlockedInv' /\ RunningInv'
  <2>1. \E s \in Sockets : TRUE
    BY SocketsAssumption
  <2> QED
    BY <2>1, ReadStep, WriteStep, ConnectStep, OtherStep DEF Fiber
<1>2. UNCHANGED <<queue, arrived, returned>>
  BY DEF Fiber, Fiber_Run, EndFiber, Read, Write, WriteRejected, Close, TCP_Connect,
         ConnectRejected, UDP_Listen, Yield, ioVars
<1>3. ChunkInv'
  BY <1>2 DEF ChunkInv
<1>4. StoredInv'
  <2>1. SocketType /\ QueueType
    BY TypeParts
  <2>2. PICK s \in Sockets : /\ \A t \in Sockets : t # s => socket'[t] = socket[t]
                            /\ \/ socket'[s] = socket[s] \/ socket[s] = "none"
                               \/ socket'[s] = "closing"
                            /\ \/ stored' \subseteq stored
                               \/ stored' = stored \cup {s} /\ socket'[s] \in {"open", "orphan"}
    <3>1. CASE \E s \in Sockets : UDP_Listen(f, s) \/ Close(f, s)
      BY <2>1, <3>1 DEF UDP_Listen, Close, SocketType
    <3>2. CASE \E s \in Sockets : TCP_Connect(f, s) \/ ConnectRejected(f, s)
      BY <2>1, <3>2 DEF TCP_Connect, ConnectRejected, SocketType
    <3>3. CASE UNCHANGED <<socket, stored>>
      BY <3>3, SocketsAssumption
    <3> QED
      BY <3>1, <3>2, <3>3 DEF Fiber, Fiber_Run, EndFiber, Read, Write, WriteRejected, ioVars
  <2>3. \A c \in Range(queue) : c.on \in Sockets
    <3>1. Range(queue) \subseteq Context
      BY <2>1, RangeOfSeq DEF QueueType
    <3> QED
      BY <3>1 DEF Context
  <2> QED
    BY <1>2, <2>1, <2>2, <2>3 DEF StoredInv, SocketType
<1> QED
  BY <1>1, <1>3, <1>4
-------------------------------------------------------------------------------
(* The steps of the event loop.                                            *)
LEMMA OneContext ==
  ASSUME NEW c \in Context
  PROVE  /\ <<c>> \in Seq(Context) /\ Range(<<c>>) = {c} /\ IsInjective(<<c>>)
         /\ Ordered(<<c>>)
  BY DEF Range, IsInjective, Ordered

(* Contexts that carry no chunk leave the order of the chunks as it is.    *)
LEMMA NoChunkStep ==
  ASSUME SocketsInv, NEW contexts \in Seq(Context), queue' = queue \o contexts,
         \A c \in Range(contexts) : c.result # "data",
         UNCHANGED <<arrived, returned>>
  PROVE  ChunkInv'
<1>1. queue \in Seq(Context)
  BY TypeParts DEF SocketsInv, QueueType
<1>2. Range(queue') = Range(queue) \cup Range(contexts)
  BY <1>1, RangeConcat
<1>3. \A i \in DOMAIN contexts : contexts[i] \in Range(contexts)
  BY DEF Range
<1>4. Ordered(contexts)
  BY <1>3 DEF Ordered, Before
<1>5. Ordered(queue')
  <2>1. \A c \in Range(queue), d \in Range(contexts) : Before(c, d)
    BY DEF Before
  <2> QED
    BY <1>1, <1>4, <2>1, OrderedAppend DEF SocketsInv, ChunkInv
<1>6. \A c \in Range(queue') : c.result = "data" => c \in Range(queue)
  BY <1>2
<1> QED
  BY <1>2, <1>5, <1>6 DEF SocketsInv, ChunkInv

LEMMA OnReadStep ==
  ASSUME SocketsInv, NEW s \in Sockets, NEW result \in Results, OnRead(s, result)
  PROVE  SocketsInv'
<1> USE DEF SocketsInv
<1>1. SocketType /\ ReadType /\ WriteType /\ FiberType /\ QueueType /\ NoFiber \notin Fibers
  BY TypeParts, SocketsAssumption
<1>2. /\ s \in reading
      /\ broken' \subseteq broken \cup {s}
      /\ reading' = reading \ {s}
      /\ pending_read' = [pending_read EXCEPT ![s] = NoFiber]
      /\ UNCHANGED <<socket, stored, writes, returned, deleted, misused, fiber,
                     script, running>>
  BY DEF OnRead
<1>3. PICK f \in Fibers : f = pending_read[s] /\ fiber[f] = [at |-> "read", on |-> s]
  BY <1>1, <1>2 DEF ReadType, RequestInv
<1>4. PICK chunk \in 0 .. MaxChunks :
        /\ chunk = IF result = "data" THEN arrived[s] + 1 ELSE 0
        /\ arrived' = IF result = "data" THEN [arrived EXCEPT ![s] = chunk] ELSE arrived
        /\ queue' = queue \o <<[fiber |-> f, on |-> s, chunk |-> chunk, result |-> result]>>
  <2> DEFINE next == IF result = "data" THEN arrived[s] + 1 ELSE 0
  <2>1. /\ next <= MaxChunks
        /\ arrived' = IF result = "data" THEN [arrived EXCEPT ![s] = next] ELSE arrived
        /\ queue' = queue \o <<[fiber |-> f, on |-> s, chunk |-> next, result |-> result]>>
    BY <1>3 DEF OnRead, QueueFiberToResume
  <2>2. arrived[s] \in Nat /\ MaxChunks \in Nat
    BY <1>1, SocketsAssumption DEF ReadType
  <2>3. next \in 0 .. MaxChunks
    BY <2>1, <2>2
  <2> HIDE DEF next
  <2>4. next = IF result = "data" THEN arrived[s] + 1 ELSE 0
    BY DEF next
  <2> QED
    BY <2>1, <2>3, <2>4
<1>5. PICK c \in Context : /\ queue' = queue \o <<c>>
                          /\ c.fiber = f /\ c.on = s /\ c.chunk = chunk /\ c.result = result
  <2> DEFINE new == [fiber |-> f, on |-> s, chunk |-> chunk, result |-> result]
  <2>1. new \in Context
    BY DEF Context, Results
  <2> QED
    BY <1>4, <2>1
<1>6. pending_read'[s] = NoFiber /\ \A t \in Sockets : t # s => pending_read'[t] = pending_read[t]
  BY <1>1, <1>2 DEF ReadType
<1>7. /\ arrived' \in [Sockets -> 0 .. MaxChunks]
      /\ arrived'[s] = (IF result = "data" THEN chunk ELSE arrived[s])
      /\ \A t \in Sockets : t # s => arrived'[t] = arrived[t]
  BY <1>1, <1>4 DEF ReadType
<1>8. <<c>> \in Seq(Context) /\ Range(<<c>>) = {c} /\ IsInjective(<<c>>) /\ Ordered(<<c>>)
  BY <1>5, OneContext
<1>9. Held(f) /\ ~ Held(f)'
  BY <1>1, <1>2, <1>3, <1>6 DEF Held
<1>10. ASSUME NEW g \in Fibers, g # f PROVE Held(g)' <=> Held(g)
  <2>1. fiber[g].on \in Sockets
    BY <1>1 DEF FiberType, FiberState
  <2>2. pending_read'[fiber[g].on] = g <=> pending_read[fiber[g].on] = g
    BY <1>1, <1>6, <1>10, <1>3, <2>1
  <2> QED
    BY <1>2, <2>2 DEF Held
<1>11. /\ QueueType' /\ QueueInv' /\ BlockedInv' /\ RunningInv'
       /\ Range(queue') = Range(queue) \cup {c}
  <2>1. \A d \in Range(<<c>>) : Held(d.fiber) /\ ~ Held(d.fiber)'
    BY <1>5, <1>8, <1>9
  <2>2. \A g \in Fibers : Held(g)' => Held(g)
    BY <1>9, <1>10
  <2>3. \A g \in Fibers : Held(g) => Held(g)' \/ \E d \in Range(<<c>>) : d.fiber = g
    BY <1>5, <1>8, <1>10
  <2> QED
    BY <1>2, <1>5, <1>8, <2>1, <2>2, <2>3, EnqueueStep
<1>12. TypeOK'
  <2>1. SocketType' /\ WriteType' /\ FiberType'
    BY <1>1, <1>2 DEF SocketType, WriteType, FiberType
  <2>2. ReadType'
    BY <1>1, <1>2, <1>7 DEF ReadType
  <2> QED
    BY <1>11, <2>1, <2>2, TypePartsNext
<1>13. RequestInv'
  <2>1. \A t \in Sockets : pending_read'[t] # NoFiber => t # s
    BY <1>6
  <2>2. \A t \in reading' : pending_read'[t] # NoFiber
    BY <1>1, <1>2, <1>6 DEF RequestInv, ReadType
  <2> QED
    BY <1>2, <1>6, <2>1, <2>2 DEF RequestInv
<1>14. ChunkInv'
  <2>1. CASE result # "data"
    BY <1>2, <1>4, <1>5, <1>8, <2>1, NoChunkStep
  <2>2. CASE result = "data"
    <3>1. /\ chunk = arrived[s] + 1 /\ arrived[s] \in Nat /\ returned[s] \in Nat
          /\ arrived'[s] = chunk /\ returned' = returned
          /\ \A d \in Range(queue) : d.on \in Sockets /\ d.chunk \in Nat
      <4>1. Range(queue) \subseteq Context
        BY <1>1, RangeOfSeq DEF QueueType
      <4> QED
        BY <1>1, <1>2, <1>4, <1>7, <2>2, <4>1 DEF Context, ReadType
    <3>2. /\ returned[s] <= arrived[s]
          /\ \A t \in Sockets : returned'[t] <= arrived'[t]
      <4>1. \A t \in Sockets : returned[t] <= arrived[t]
        BY DEF ChunkInv
      <4> QED
        BY <1>7, <3>1, <4>1
    <3>3. Ordered(queue')
      <4>1. \A d \in Range(queue), e \in Range(<<c>>) : Before(d, e)
        BY <1>5, <1>8, <3>1 DEF Before, ChunkInv
      <4> QED
        BY <1>1, <1>5, <1>8, <4>1, OrderedAppend DEF ChunkInv, QueueType
    <3>4. \A d \in Range(queue') :
            d.result = "data" => returned'[d.on] < d.chunk /\ d.chunk <= arrived'[d.on]
      <4>1. ASSUME NEW d \in Range(queue), d.result = "data"
            PROVE  returned'[d.on] < d.chunk /\ d.chunk <= arrived'[d.on]
        <5>1. /\ d.on \in Sockets /\ d.chunk \in Nat
              /\ returned[d.on] < d.chunk /\ d.chunk <= arrived[d.on]
          BY <3>1, <4>1 DEF ChunkInv
        <5> QED
          BY <1>7, <3>1, <5>1
      <4>2. returned'[c.on] < c.chunk /\ c.chunk <= arrived'[c.on]
        BY <1>5, <3>1, <3>2
      <4> QED
        BY <1>11, <4>1, <4>2
    <3>5. ASSUME NEW t \in Sockets, NEW k \in returned'[t] + 1 .. arrived'[t]
          PROVE  \E d \in Range(queue') : d.result = "data" /\ d.on = t /\ d.chunk = k
      <4>1. CASE t = s /\ k = chunk
        BY <1>5, <1>11, <2>2, <4>1
      <4>2. CASE ~(t = s /\ k = chunk)
        <5>1. k \in returned[t] + 1 .. arrived[t]
          BY <1>7, <3>1, <3>5, <4>2
        <5> QED
          BY <1>11, <5>1 DEF ChunkInv
      <4> QED
        BY <4>1, <4>2
    <3> QED
      BY <3>2, <3>3, <3>4, <3>5 DEF ChunkInv
  <2> QED
    BY <2>1, <2>2
<1>15. StoredInv'
  BY <1>2, <1>5, <1>11 DEF StoredInv, Results
<1> QED
  BY <1>11, <1>12, <1>13, <1>14, <1>15

LEMMA OnWriteStep ==
  ASSUME SocketsInv, NEW s \in Sockets, OnWrite(s)
  PROVE  SocketsInv'
<1> USE DEF SocketsInv
<1>1. SocketType /\ ReadType /\ WriteType /\ FiberType /\ QueueType
  BY TypeParts
<1>2. /\ writes[s] # <<>>
      /\ writes' = [writes EXCEPT ![s] = Tail(@)]
      /\ UNCHANGED <<socket, stored, pending_read, reading, broken, arrived, returned, deleted,
                     misused, fiber, script, running>>
  BY DEF OnWrite
<1>3. writes[s] \in Seq(Fibers) /\ IsInjective(writes[s])
  BY <1>1 DEF WriteType, RequestInv
<1>4. /\ Head(writes[s]) \in Fibers /\ Tail(writes[s]) \in Seq(Fibers)
      /\ Range(writes[s]) = {Head(writes[s])} \cup Range(Tail(writes[s]))
      /\ Head(writes[s]) \notin Range(Tail(writes[s])) /\ IsInjective(Tail(writes[s]))
  BY <1>2, <1>3, RangeTail
<1>5. PICK f \in Fibers : f = Head(writes[s])
  BY <1>4
<1>6. PICK result \in {"ok", "error"} : queue' = queue \o <<NoChunk(f, s, result)>>
  BY <1>5 DEF OnWrite, QueueFiberToResume, Writer
<1>7. PICK c \in Context : /\ queue' = queue \o <<c>>
                          /\ c.fiber = f /\ c.result = result
  <2>1. 0 \in 0 .. MaxChunks
    BY SocketsAssumption
  <2>2. NoChunk(f, s, result) \in Context
    BY <2>1 DEF Context, NoChunk
  <2> QED
    BY <1>6, <2>2 DEF NoChunk
<1>8. /\ writes' \in [Sockets -> Seq(Fibers)]
      /\ IsInjective(writes'[s]) /\ f \notin Range(writes'[s])
      /\ Range(writes[s]) = Range(writes'[s]) \cup {f}
      /\ \A t \in Sockets : t # s => writes'[t] = writes[t]
  BY <1>1, <1>2, <1>4, <1>5 DEF WriteType
<1>9. fiber[f] = [at |-> "write", on |-> s]
  BY <1>8 DEF RequestInv
<1>10. Held(f) /\ ~ Held(f)'
  BY <1>2, <1>8, <1>9 DEF Held
<1>11. ASSUME NEW g \in Fibers, g # f PROVE Held(g)' <=> Held(g)
  <2>1. fiber[g].on \in Sockets
    BY <1>1 DEF FiberType, FiberState
  <2>2. g \in Range(writes'[fiber[g].on]) <=> g \in Range(writes[fiber[g].on])
    BY <1>8, <1>11, <2>1
  <2> QED
    BY <1>2, <2>2 DEF Held
<1>12. <<c>> \in Seq(Context) /\ Range(<<c>>) = {c} /\ IsInjective(<<c>>)
  BY OneContext
<1>13. /\ QueueType' /\ QueueInv' /\ BlockedInv' /\ RunningInv'
       /\ Range(queue') = Range(queue) \cup {c}
  <2>1. \A d \in Range(<<c>>) : Held(d.fiber) /\ ~ Held(d.fiber)'
    BY <1>7, <1>10, <1>12
  <2>2. \A g \in Fibers : Held(g)' => Held(g)
    BY <1>10, <1>11
  <2>3. \A g \in Fibers : Held(g) => Held(g)' \/ \E d \in Range(<<c>>) : d.fiber = g
    BY <1>7, <1>11, <1>12
  <2> QED
    BY <1>2, <1>7, <1>12, <2>1, <2>2, <2>3, EnqueueStep
<1>14. TypeOK'
  <2>1. SocketType' /\ ReadType' /\ FiberType' /\ WriteType'
    BY <1>1, <1>2, <1>8 DEF SocketType, ReadType, FiberType, WriteType
  <2> QED
    BY <1>13, <2>1, TypePartsNext
<1>15. RequestInv'
  <2>1. ASSUME NEW t \in Sockets
        PROVE  /\ IsInjective(writes'[t])
               /\ \A g \in Range(writes'[t]) : fiber'[g] = [at |-> "write", on |-> t]
    <3>1. CASE t = s
      BY <1>2, <1>8, <3>1 DEF RequestInv
    <3>2. CASE t # s
      BY <1>2, <1>8, <3>2 DEF RequestInv
    <3> QED
      BY <3>1, <3>2
  <2> QED
    BY <1>2, <2>1 DEF RequestInv
<1>16. ChunkInv'
  BY <1>2, <1>7, <1>12, NoChunkStep
<1>17. StoredInv'
  BY <1>2, <1>7, <1>13 DEF StoredInv
<1> QED
  BY <1>13, <1>14, <1>15, <1>16, <1>17

LEMMA OnConnectStep ==
  ASSUME SocketsInv, NEW s \in Sockets, OnConnect(s)
  PROVE  SocketsInv'
<1> USE DEF SocketsInv
<1>1. SocketType /\ ReadType /\ WriteType /\ FiberType /\ QueueType
  BY TypeParts
<1>2. PICK f \in Fibers, result \in {"connected", "error"} :
        /\ fiber[f] = [at |-> "connect", on |-> s]
        /\ socket' = [socket EXCEPT ![s] = IF result = "connected" THEN "open" ELSE "closed"]
        /\ queue' = queue \o <<NoChunk(f, s, result)>>
  BY DEF OnConnect, QueueFiberToResume
<1>3. /\ socket[s] = "connecting"
      /\ UNCHANGED <<stored, pending_read, reading, broken, writes, arrived, returned, deleted,
                     misused, fiber, script, running>>
  BY DEF OnConnect
<1>4. PICK c \in Context : /\ queue' = queue \o <<c>>
                          /\ c.fiber = f /\ c.on = s /\ c.result = result
  <2>1. 0 \in 0 .. MaxChunks
    BY SocketsAssumption
  <2>2. NoChunk(f, s, result) \in Context
    BY <2>1 DEF Context, NoChunk
  <2> QED
    BY <1>2, <2>2 DEF NoChunk
<1>5. /\ socket' \in [Sockets -> {"none", "connecting", "open", "orphan", "closing", "closed"}]
      /\ socket'[s] \in {"open", "closed"}
      /\ \A t \in Sockets : t # s => socket'[t] = socket[t]
  BY <1>1, <1>2 DEF SocketType
<1>6. Held(f) /\ ~ Held(f)'
  BY <1>2, <1>3, <1>5 DEF Held
<1>7. ASSUME NEW g \in Fibers, g # f PROVE Held(g)' <=> Held(g)
  <2>1. fiber[g].on \in Sockets /\ fiber[g] \in FiberState
    BY <1>1 DEF FiberType, FiberState
  <2>2. fiber[g].at = "connect" => fiber[g].on # s
    <3>1. SUFFICES ASSUME fiber[g].at = "connect", fiber[g].on = s PROVE FALSE
      OBVIOUS
    <3>2. fiber[g] = fiber[f]
      BY <1>2, <2>1, <3>1 DEF FiberState
    <3> QED
      BY <1>2, <1>7, <3>2 DEF RequestInv
  <2> QED
    BY <1>3, <1>5, <2>1, <2>2 DEF Held
<1>8. <<c>> \in Seq(Context) /\ Range(<<c>>) = {c} /\ IsInjective(<<c>>)
  BY OneContext
<1>9. /\ QueueType' /\ QueueInv' /\ BlockedInv' /\ RunningInv'
      /\ Range(queue') = Range(queue) \cup {c}
  <2>1. \A d \in Range(<<c>>) : Held(d.fiber) /\ ~ Held(d.fiber)'
    BY <1>4, <1>6, <1>8
  <2>2. \A g \in Fibers : Held(g)' => Held(g)
    BY <1>6, <1>7
  <2>3. \A g \in Fibers : Held(g) => Held(g)' \/ \E d \in Range(<<c>>) : d.fiber = g
    BY <1>4, <1>7, <1>8
  <2> QED
    BY <1>3, <1>4, <1>8, <2>1, <2>2, <2>3, EnqueueStep
<1>10. TypeOK'
  <2>1. SocketType' /\ ReadType' /\ FiberType' /\ WriteType'
    BY <1>1, <1>3, <1>5 DEF SocketType, ReadType, FiberType, WriteType
  <2> QED
    BY <1>9, <2>1, TypePartsNext
<1>11. RequestInv'
  <2>1. \A t \in Sockets : socket[t] # "none" => socket'[t] # "none"
    BY <1>5
  <2>2. \A g \in Fibers : fiber[g].on \in Sockets
    BY <1>1 DEF FiberType, FiberState
  <2> QED
    BY <1>3, <2>1, <2>2 DEF RequestInv
<1>12. ChunkInv'
  BY <1>3, <1>4, <1>8, NoChunkStep
<1>13. StoredInv'
  <2>1. \A t \in Sockets : socket[t] \notin {"none", "connecting"} =>
                          socket'[t] \notin {"none", "connecting"}
    BY <1>3, <1>5
  <2>2. \A d \in Range(queue) : d.on \in Sockets
    <3>1. Range(queue) \subseteq Context
      BY <1>1, RangeOfSeq DEF QueueType
    <3> QED
      BY <3>1 DEF Context
  <2> QED
    BY <1>1, <1>3, <1>4, <1>5, <1>9, <2>1, <2>2 DEF StoredInv, SocketType
<1> QED
  BY <1>9, <1>10, <1>11, <1>12, <1>13

(* The cancelled writes of a closed socket all enter the queue.            *)
LEMMA CancelledContexts ==
  ASSUME WriteType, NEW s \in Sockets, NEW sent, IsInjective(writes[s])
  PROVE  /\ Cancelled(s, sent) \in Seq(Context) /\ IsInjective(Cancelled(s, sent))
         /\ \A c \in Range(Cancelled(s, sent)) : c.fiber \in Range(writes[s]) /\ c.result \in {"ok", "error"}
         /\ \A f \in Range(writes[s]) : \E c \in Range(Cancelled(s, sent)) : c.fiber = f
         /\ \A c, d \in Range(Cancelled(s, sent)) : c.fiber = d.fiber => c = d
<1> DEFINE w == writes[s]
           n == Len(w)
           q == Cancelled(s, sent)
           result(i) == IF i \in sent THEN "ok" ELSE "error"
<1>1. /\ w \in Seq(Fibers) /\ n \in Nat /\ DOMAIN w = 1 .. n
      /\ \A i \in 1 .. n : w[i] \in Fibers
  BY DEF WriteType
<1>2. DOMAIN q = 1 .. n /\ \A i \in 1 .. n : q[i] = NoChunk(w[i], s, result(i))
  BY <1>1 DEF Cancelled
<1>3. ASSUME NEW i \in 1 .. n
      PROVE  q[i] \in Context /\ q[i].fiber = w[i] /\ q[i].result \in {"ok", "error"}
  <2>1. 0 \in 0 .. MaxChunks
    BY SocketsAssumption
  <2>2. w[i] \in Fibers /\ q[i] = NoChunk(w[i], s, result(i))
    BY <1>1, <1>2
  <2> HIDE DEF w, q
  <2> QED
    BY <2>1, <2>2 DEF Context, NoChunk
<1>4. q \in Seq(Context)
  <2>1. q = [i \in 1 .. n |-> NoChunk(w[i], s, result(i))]
    BY <1>1 DEF Cancelled
  <2>2. \A i \in 1 .. n : NoChunk(w[i], s, result(i)) \in Context
    BY <1>2, <1>3
  <2> QED
    BY <1>1, <2>1, <2>2
<1> HIDE DEF n, q
<1>5. \A i, j \in 1 .. n : q[i].fiber = q[j].fiber => i = j
  BY <1>1, <1>3 DEF IsInjective
<1>6. IsInjective(q)
  BY <1>2, <1>5 DEF IsInjective
<1>7. /\ \A c \in Range(q) : c.fiber \in Range(w) /\ c.result \in {"ok", "error"}
      /\ \A f \in Range(w) : \E c \in Range(q) : c.fiber = f
      /\ \A c, d \in Range(q) : c.fiber = d.fiber => c = d
  BY <1>1, <1>2, <1>3, <1>5 DEF Range
<1> QED
  BY <1>4, <1>6, <1>7 DEF q

LEMMA FinishCloseStep ==
  ASSUME SocketsInv, NEW s \in Sockets, FinishClose(s)
  PROVE  SocketsInv'
<1> USE DEF SocketsInv
<1>1. SocketType /\ ReadType /\ WriteType /\ FiberType /\ QueueType
  BY TypeParts
<1>2. /\ socket[s] = "closing" /\ socket' = [socket EXCEPT ![s] = "closed"]
      /\ writes' = [writes EXCEPT ![s] = <<>>]
      /\ misused' \in BOOLEAN
      /\ UNCHANGED <<stored, pending_read, reading, broken, arrived, returned, deleted, fiber,
                     script, running>>
  BY LinkType DEF FinishClose
<1>3. IsInjective(writes[s])
  BY DEF RequestInv
<1>4. PICK contexts \in Seq(Context) :
        /\ queue' = queue \o contexts /\ IsInjective(contexts)
        /\ \A c \in Range(contexts) : c.fiber \in Range(writes[s]) /\ c.result \in {"ok", "error"}
        /\ \A f \in Range(writes[s]) : \E c \in Range(contexts) : c.fiber = f
        /\ \A c, d \in Range(contexts) : c.fiber = d.fiber => c = d
  <2>1. PICK sent : queue' = queue \o Cancelled(s, sent)
    BY DEF FinishClose, QueueFiberToResume
  <2> DEFINE contexts == Cancelled(s, sent)
  <2>2. /\ contexts \in Seq(Context) /\ IsInjective(contexts)
        /\ \A c \in Range(contexts) : c.fiber \in Range(writes[s]) /\ c.result \in {"ok", "error"}
        /\ \A f \in Range(writes[s]) : \E c \in Range(contexts) : c.fiber = f
        /\ \A c, d \in Range(contexts) : c.fiber = d.fiber => c = d
    BY <1>1, <1>3, CancelledContexts
  <2>3. queue' = queue \o contexts
    BY <2>1
  <2> HIDE DEF contexts
  <2> QED
    BY <2>2, <2>3
<1>5. /\ writes' \in [Sockets -> Seq(Fibers)] /\ writes'[s] = <<>>
      /\ \A t \in Sockets : t # s => writes'[t] = writes[t]
      /\ socket' \in [Sockets -> {"none", "connecting", "open", "orphan", "closing", "closed"}]
      /\ socket'[s] = "closed"
      /\ \A t \in Sockets : t # s => socket'[t] = socket[t]
  BY <1>1, <1>2, EmptySeq DEF WriteType, SocketType
<1>6. ASSUME NEW g \in Range(writes[s]) PROVE Held(g) /\ ~ Held(g)'
  <2>1. fiber[g] = [at |-> "write", on |-> s]
    BY DEF RequestInv
  <2> QED
    BY <1>2, <1>5, <2>1, RangeEmpty DEF Held
<1>7. ASSUME NEW g \in Fibers, g \notin Range(writes[s]) PROVE Held(g)' <=> Held(g)
  <2>1. fiber[g].on \in Sockets
    BY <1>1 DEF FiberType, FiberState
  <2>2. g \in Range(writes'[fiber[g].on]) <=> g \in Range(writes[fiber[g].on])
    BY <1>5, <1>7, <2>1, RangeEmpty
  <2>3. socket'[fiber[g].on] = "connecting" <=> socket[fiber[g].on] = "connecting"
    BY <1>2, <1>5, <2>1
  <2> QED
    BY <1>2, <2>2, <2>3 DEF Held
<1>8. /\ QueueType' /\ QueueInv' /\ BlockedInv' /\ RunningInv'
      /\ Range(queue') = Range(queue) \cup Range(contexts)
  <2>1. \A d \in Range(contexts) : Held(d.fiber) /\ ~ Held(d.fiber)'
    BY <1>4, <1>6
  <2>2. \A g \in Fibers : Held(g)' => Held(g)
    BY <1>6, <1>7
  <2>3. \A g \in Fibers : Held(g) => Held(g)' \/ \E d \in Range(contexts) : d.fiber = g
    BY <1>4, <1>7
  <2> QED
    BY <1>2, <1>4, <2>1, <2>2, <2>3, EnqueueStep
<1>9. TypeOK'
  <2>1. SocketType' /\ ReadType' /\ FiberType' /\ WriteType'
    BY <1>1, <1>2, <1>5 DEF SocketType, ReadType, FiberType, WriteType
  <2> QED
    BY <1>8, <2>1, TypePartsNext
<1>10. RequestInv'
  <2>1. \A t \in Sockets : socket[t] # "none" => socket'[t] # "none"
    BY <1>5
  <2>2. \A g \in Fibers : fiber[g].on \in Sockets
    BY <1>1 DEF FiberType, FiberState
  <2>3. ASSUME NEW t \in Sockets
        PROVE  /\ IsInjective(writes'[t])
               /\ \A g \in Range(writes'[t]) : fiber'[g] = [at |-> "write", on |-> t]
    <3>1. CASE t = s
      BY <1>5, <3>1, RangeEmpty
    <3>2. CASE t # s
      BY <1>2, <1>5, <3>2 DEF RequestInv
    <3> QED
      BY <3>1, <3>2
  <2> QED
    BY <1>2, <2>1, <2>2, <2>3 DEF RequestInv
<1>11. ChunkInv'
  BY <1>2, <1>4, NoChunkStep
<1>12. StoredInv'
  <2>1. \A t \in Sockets : socket[t] \notin {"none", "connecting"} =>
                          socket'[t] \notin {"none", "connecting"}
    BY <1>5
  <2>2. \A d \in Range(queue) : d.on \in Sockets
    <3>1. Range(queue) \subseteq Context
      BY <1>1, RangeOfSeq DEF QueueType
    <3> QED
      BY <3>1 DEF Context
  <2> QED
    BY <1>1, <1>2, <1>4, <1>8, <2>1, <2>2 DEF StoredInv, SocketType
<1> QED
  BY <1>8, <1>9, <1>10, <1>11, <1>12

(* ResumeNext takes the context of a fiber from the queue.  If it carries  *)
(* a chunk, that is the next one of its socket.                            *)
LEMMA ResumeStep ==
  ASSUME SocketsInv, ResumeNext
  PROVE  /\ SocketsInv'
         /\ \A s \in Sockets : returned'[s] \in {returned[s], returned[s] + 1}
<1> USE DEF SocketsInv
<1>1. /\ SocketType /\ ReadType /\ WriteType /\ FiberType /\ QueueType
      /\ NoFiber \notin Fibers
  BY TypeParts, SocketsAssumption
<1>2. PICK c \in Context, f \in Fibers, s \in Sockets :
        /\ c = Head(queue) /\ f = c.fiber /\ s = c.on
  <2>1. Head(queue) \in Context
    BY <1>1 DEF ResumeNext, QueueType
  <2> QED
    BY <2>1 DEF Context
<1>3. /\ running = NoFiber /\ running' = f
      /\ fiber' = [fiber EXCEPT ![f] = Off("js")]
      /\ stored' = (IF c.result = "connected" THEN stored \cup {s} ELSE stored)
      /\ returned' = (IF c.result = "data" THEN [returned EXCEPT ![s] = c.chunk] ELSE returned)
      /\ queue # <<>> /\ queue' = Tail(queue)
      /\ UNCHANGED <<socket, pending_read, reading, broken, writes, arrived, script>>
  BY <1>2 DEF ResumeNext, CreateResultValue, LoopRuns
<1>0. deleted' \subseteq Sockets /\ misused' \in BOOLEAN
  BY <1>1, <1>2, LinkType DEF ResumeNext, CreateResultValue, Deleted, SocketType
<1>4. /\ queue \in Seq(Context) /\ queue' \in Seq(Context)
      /\ Range(queue) = {c} \cup Range(queue')
      /\ c \notin Range(queue') /\ IsInjective(queue')
      /\ Range(queue) \subseteq Context
  BY <1>1, <1>2, <1>3, RangeTail, RangeOfSeq DEF QueueType, QueueInv
<1>5. \A d \in Range(queue') : d.fiber # f /\ d.fiber \in Fibers /\ d.on \in Sockets
  BY <1>2, <1>4 DEF QueueInv, Context
<1>6. Queued(f) /\ Blocked(f) /\ ~Held(f)
  BY <1>2, <1>4 DEF QueueInv, Queued
<1>7. /\ fiber' \in [Fibers -> FiberState] /\ fiber'[f].at = "js"
      /\ \A g \in Fibers : g # f => fiber'[g] = fiber[g]
  BY <1>1, <1>3, OffType DEF FiberType
<1>8. /\ \A t \in Sockets : pending_read[t] # NoFiber =>
                             pending_read[t] \in Fibers \ {f}
      /\ \A t \in Sockets : \A g \in Range(writes[t]) : g \in Fibers \ {f}
  <2>1. ASSUME NEW t \in Sockets PROVE pending_read[t] # f \/ f = NoFiber
    <3>1. SUFFICES ASSUME pending_read[t] = f, f # NoFiber PROVE FALSE
      OBVIOUS
    <3>2. fiber[f] = [at |-> "read", on |-> t]
      BY <3>1 DEF RequestInv
    <3> QED
      BY <1>6, <3>1, <3>2 DEF Held
  <2>2. ASSUME NEW t \in Sockets PROVE f \notin Range(writes[t])
    <3>1. SUFFICES ASSUME f \in Range(writes[t]) PROVE FALSE
      OBVIOUS
    <3>2. fiber[f] = [at |-> "write", on |-> t]
      BY <3>1 DEF RequestInv
    <3> QED
      BY <1>6, <3>1, <3>2 DEF Held
  <2>3. ASSUME NEW t \in Sockets PROVE Range(writes[t]) \subseteq Fibers
    <3>1. writes[t] \in Seq(Fibers)
      BY <1>1 DEF WriteType
    <3> QED
      BY <3>1, RangeOfSeq
  <2> QED
    BY <1>1, <2>1, <2>2, <2>3 DEF ReadType
<1>9. RequestInv'
  <2>1. \A t \in Sockets : pending_read'[t] # NoFiber =>
                           fiber'[pending_read'[t]] = [at |-> "read", on |-> t]
    BY <1>3, <1>7, <1>8 DEF RequestInv
  <2>2. \A t \in reading' : pending_read'[t] # NoFiber
    BY <1>3 DEF RequestInv
  <2>3. \A t \in Sockets : /\ IsInjective(writes'[t])
                           /\ \A g \in Range(writes'[t]) : fiber'[g] = [at |-> "write", on |-> t]
    BY <1>3, <1>7, <1>8 DEF RequestInv
  <2>4. \A g \in Fibers : fiber'[g].at = "connect" =>
                          /\ socket'[fiber'[g].on] # "none"
                          /\ \A h \in Fibers : fiber'[h] = fiber'[g] => h = g
    BY <1>3, <1>7 DEF RequestInv
  <2> QED
    BY <2>1, <2>2, <2>3, <2>4 DEF RequestInv
<1>10. ASSUME NEW g \in Fibers, g # f
       PROVE  /\ Queued(g)' => Blocked(g)' /\ ~ Held(g)'
              /\ Blocked(g)' => Held(g)' \/ Queued(g)'
  <2>1. Held(g)' <=> Held(g)
    BY <1>3, <1>7, <1>10 DEF Held
  <2>2. Blocked(g)' <=> Blocked(g)
    BY <1>7, <1>10 DEF Blocked
  <2>3. Queued(g)' <=> Queued(g)
    BY <1>2, <1>4, <1>10 DEF Queued
  <2> QED
    BY <2>1, <2>2, <2>3 DEF QueueInv, BlockedInv
<1>11. ~ Queued(f)' /\ ~ Blocked(f)'
  BY <1>5, <1>7 DEF Queued, Blocked
<1>12. QueueInv'
  <2>1. \A d, e \in Range(queue') : d.fiber = e.fiber => d = e
    BY <1>4 DEF QueueInv
  <2>2. \A g \in Fibers : Queued(g)' => Blocked(g)' /\ ~ Held(g)'
    BY <1>10, <1>11
  <2> QED
    BY <1>4, <2>1, <2>2 DEF QueueInv
<1>13. BlockedInv'
  <2>1. \A g \in Fibers : Blocked(g)' => Held(g)' \/ Queued(g)'
    BY <1>10, <1>11
  <2> QED
    BY <2>1 DEF BlockedInv
<1>14. RunningInv'
  BY <1>1, <1>3, <1>7 DEF RunningInv
<1>15. StoredInv'
  BY <1>2, <1>3, <1>4 DEF StoredInv
<1>16. /\ Ordered(queue') /\ \A d \in Range(queue') : Before(c, d)
  BY <1>2, <1>3, <1>4, OrderedTail DEF ChunkInv
<1>17. c.result = "data" => c.chunk = returned[s] + 1 /\ c.chunk <= arrived[s]
  <2> SUFFICES ASSUME c.result = "data"
               PROVE  c.chunk = returned[s] + 1 /\ c.chunk <= arrived[s]
    OBVIOUS
  <2>1. /\ returned[s] < c.chunk /\ c.chunk <= arrived[s]
        /\ returned[s] \in Nat /\ arrived[s] \in Nat /\ c.chunk \in Nat
    BY <1>1, <1>2, <1>4 DEF ChunkInv, ReadType, Context
  <2>2. returned[s] + 1 \in returned[s] + 1 .. arrived[s]
    BY <2>1
  <2>3. PICK d \in Range(queue) : d.result = "data" /\ d.on = s /\ d.chunk = returned[s] + 1
    BY <2>2 DEF ChunkInv
  <2>4. d = c \/ c.chunk < d.chunk
    BY <1>2, <1>4, <1>16, <2>3 DEF Before
  <2> QED
    BY <2>1, <2>3, <2>4
<1>18. /\ returned' \in [Sockets -> 0 .. MaxChunks]
       /\ returned'[s] = (IF c.result = "data" THEN returned[s] + 1 ELSE returned[s])
       /\ \A t \in Sockets : t # s => returned'[t] = returned[t]
  <2>1. c.chunk \in 0 .. MaxChunks
    BY DEF Context
  <2> QED
    BY <1>1, <1>3, <1>17, <2>1 DEF ReadType
<1>19. \A t \in Sockets : returned[t] \in Nat /\ arrived[t] \in Nat /\ returned[t] <= arrived[t]
  BY <1>1 DEF ReadType, ChunkInv
<1>20. ChunkInv'
  <2>1. \A t \in Sockets : returned'[t] <= arrived'[t]
    BY <1>3, <1>17, <1>18, <1>19
  <2>2. ASSUME NEW d \in Range(queue'), d.result = "data"
        PROVE  returned'[d.on] < d.chunk /\ d.chunk <= arrived'[d.on]
    <3>1. /\ returned[d.on] < d.chunk /\ d.chunk <= arrived[d.on]
          /\ d.on \in Sockets /\ d.chunk \in Nat
      BY <1>4, <1>5, <2>2 DEF ChunkInv, Context
    <3>2. c.result = "data" /\ d.on = s => c.chunk < d.chunk
      BY <1>2, <1>16, <2>2 DEF Before
    <3> QED
      BY <1>3, <1>17, <1>18, <1>19, <3>1, <3>2
  <2>3. ASSUME NEW t \in Sockets, NEW k \in returned'[t] + 1 .. arrived'[t]
        PROVE  \E d \in Range(queue') : d.result = "data" /\ d.on = t /\ d.chunk = k
    <3>1. k \in returned[t] + 1 .. arrived[t] /\ k > returned'[t]
      BY <1>3, <1>18, <1>19, <2>3
    <3>2. PICK d \in Range(queue) : d.result = "data" /\ d.on = t /\ d.chunk = k
      BY <3>1 DEF ChunkInv
    <3>3. d # c
      BY <1>2, <1>17, <1>18, <1>19, <3>1, <3>2
    <3> QED
      BY <1>4, <3>2, <3>3
  <2> QED
    BY <1>16, <2>1, <2>2, <2>3 DEF ChunkInv
<1>21. TypeOK'
  <2>1. SocketType' /\ WriteType' /\ QueueType'
    BY <1>0, <1>1, <1>3, <1>4 DEF SocketType, WriteType, QueueType
  <2>2. ReadType' /\ FiberType'
    BY <1>1, <1>3, <1>7, <1>18 DEF ReadType, FiberType
  <2> QED
    BY <2>1, <2>2, TypePartsNext
<1> QED
  BY <1>9, <1>12, <1>13, <1>14, <1>15, <1>18, <1>20, <1>21
-------------------------------------------------------------------------------
LEMMA StepInv == SocketsInv /\ [Next]_vars => SocketsInv'
<1> SUFFICES ASSUME SocketsInv, [Next]_vars PROVE SocketsInv'
  OBVIOUS
<1>1. CASE EndScript \/ UNCHANGED vars
  <2>1. /\ UNCHANGED <<ioVars, fiber, running, queue>>
        /\ script' \in BOOLEAN
    BY <1>1, TypeParts DEF EndScript, vars, SocketsInv, FiberType
  <2>2. /\ UNCHANGED <<socket, stored, pending_read, reading, broken, writes, arrived, returned,
                       deleted, misused>>
    BY <2>1 DEF ioVars
  <2>3. TypeOK'
    BY <2>1, <2>2 DEF SocketsInv, TypeOK
  <2>4. RunningInv' /\ RequestInv' /\ ChunkInv' /\ StoredInv'
    BY <2>1, <2>2 DEF SocketsInv, RunningInv, RequestInv, ChunkInv, StoredInv
  <2>5. QueueInv' /\ BlockedInv'
    BY <2>1, <2>2 DEF SocketsInv, QueueInv, BlockedInv, Queued, Blocked, Held
  <2> QED
    BY <2>3, <2>4, <2>5 DEF SocketsInv
<1> QED
  BY <1>1, FiberStep, OnReadStep, OnWriteStep, OnConnectStep, FinishCloseStep, ResumeStep
     DEF Next, Loop, Network

LEMMA Invariant == Spec => []SocketsInv
  BY InitInv, StepInv, PTL DEF Spec

(* Every variable of the sockets keeps its type.                           *)
THEOREM SocketsTypeCorrect == Spec => []TypeOK
<1>1. SocketsInv => TypeOK
  BY DEF SocketsInv
<1> QED
  BY <1>1, Invariant, PTL

(* While libuv reads from a socket, the buffer of a fiber that is blocked  *)
(* in this read is there for OnAlloc.                                      *)
THEOREM OnAllocHasBuffer == Spec => []ReadersHaveBuffers
<1>1. SocketsInv => ReadersHaveBuffers
  BY TypeParts DEF SocketsInv, RequestInv, ReadType, ReadersHaveBuffers
<1> QED
  BY <1>1, Invariant, PTL

(* While libuv works for a request the wrapper of its handle is allocated, *)
(* also after TCP_Close or UDP_Close.                                      *)
THEOREM HandlesOutliveRequests == Spec => []RequestsHaveHandles
<1>1. SocketsInv => RequestsHaveHandles
  <2> SUFFICES ASSUME SocketsInv, NEW s \in Sockets, s \in reading \/ writes[s] # <<>>
               PROVE  \E f \in Fibers : fiber[f].on = s /\ fiber[f].at \in {"read", "write"}
    BY DEF RequestsHaveHandles, Allocated, Holders
  <2>1. CASE s \in reading
    <3>1. /\ pending_read[s] \in Fibers
          /\ fiber[pending_read[s]] = [at |-> "read", on |-> s]
      BY <2>1, TypeParts DEF SocketsInv, RequestInv, ReadType
    <3> QED
      BY <3>1
  <2>2. CASE writes[s] # <<>>
    <3>1. writes[s] \in Seq(Fibers)
      BY TypeParts DEF SocketsInv, WriteType
    <3>2. Head(writes[s]) \in Fibers /\ Head(writes[s]) \in Range(writes[s])
      BY <2>2, <3>1, RangeTail
    <3>3. fiber[Head(writes[s])] = [at |-> "write", on |-> s]
      BY <3>2 DEF SocketsInv, RequestInv
    <3> QED
      BY <3>2, <3>3
  <2> QED
    BY <2>1, <2>2
<1> QED
  BY <1>1, Invariant, PTL

(* A blocked fiber is waited for in one place.                             *)
LEMMA OnePlace == SocketsInv => BlockedInOnePlace
<1> SUFFICES ASSUME SocketsInv, NEW f \in Fibers
             PROVE  IF Blocked(f) THEN \E place \in Places(f) : Places(f) = {place}
                                  ELSE Places(f) = {}
  BY DEF BlockedInOnePlace, Blocked
<1> USE DEF SocketsInv
<1> DEFINE on == fiber[f].on
<1>1. Places(f) = Reads(f) \cup Writes(f) \cup Connects(f) \cup Resumptions(f)
  BY DEF Places
<1>2. fiber[f] \in FiberState /\ on \in Sockets /\ f # NoFiber
  BY TypeParts, SocketsAssumption DEF FiberType, FiberState
<1>3. \A s \in Sockets : pending_read[s] = f <=> fiber[f].at = "read" /\ on = s /\ Held(f)
  <2> SUFFICES ASSUME NEW s \in Sockets
               PROVE  pending_read[s] = f <=> fiber[f].at = "read" /\ on = s /\ Held(f)
    OBVIOUS
  <2>1. pending_read[s] = f => fiber[f] = [at |-> "read", on |-> s]
    BY <1>2 DEF RequestInv
  <2> QED
    BY <2>1 DEF Held
<1>4. \A s \in Sockets : Turns(f, s) # {} <=> fiber[f].at = "write" /\ on = s /\ Held(f)
  <2> SUFFICES ASSUME NEW s \in Sockets
               PROVE  Turns(f, s) # {} <=> fiber[f].at = "write" /\ on = s /\ Held(f)
    OBVIOUS
  <2>1. Turns(f, s) # {} <=> f \in Range(writes[s])
    BY DEF Range, Turns
  <2>2. f \in Range(writes[s]) => fiber[f] = [at |-> "write", on |-> s]
    BY DEF RequestInv
  <2> QED
    BY <2>1, <2>2 DEF Held
<1>5. ASSUME NEW s \in Sockets, NEW i \in Turns(f, s), NEW j \in Turns(f, s) PROVE i = j
  <2>1. IsInjective(writes[s])
    BY DEF RequestInv
  <2>2. i \in DOMAIN writes[s] /\ j \in DOMAIN writes[s] /\ writes[s][i] = writes[s][j]
    BY DEF Turns
  <2> QED
    BY <2>1, <2>2 DEF IsInjective
<1>6. \A s \in Sockets : socket[s] = "connecting" /\ fiber[f] = [at |-> "connect", on |-> s]
                         <=> fiber[f].at = "connect" /\ on = s /\ Held(f)
  BY <1>2 DEF Held, FiberState
<1>7. /\ Queued(f) <=> \E i \in DOMAIN queue : queue[i].fiber = f
      /\ \A i, j \in DOMAIN queue : queue[i].fiber = f /\ queue[j].fiber = f => i = j
  BY DEF Queued, QueueInv, IsInjective, Range
<1>8. /\ Queued(f) => Blocked(f) /\ ~Held(f)
      /\ Blocked(f) => Held(f) \/ Queued(f)
      /\ Held(f) => Blocked(f)
  BY DEF QueueInv, BlockedInv, Held, Blocked
<1>9. /\ ~(fiber[f].at = "read" /\ Held(f)) => Reads(f) = {}
      /\ ~(fiber[f].at = "write" /\ Held(f)) => Writes(f) = {}
      /\ ~(fiber[f].at = "connect" /\ Held(f)) => Connects(f) = {}
      /\ ~Queued(f) => Resumptions(f) = {}
  <2>1. ~(fiber[f].at = "read" /\ Held(f)) => Reads(f) = {}
    BY <1>3 DEF Reads
  <2>2. ~(fiber[f].at = "write" /\ Held(f)) => Writes(f) = {}
    <3>1. ~(fiber[f].at = "write" /\ Held(f)) => \A s \in Sockets : Turns(f, s) = {}
      BY <1>4
    <3> QED
      BY <3>1 DEF Writes
  <2>3. ~(fiber[f].at = "connect" /\ Held(f)) => Connects(f) = {}
    BY <1>6 DEF Connects
  <2>4. ~Queued(f) => Resumptions(f) = {}
    BY <1>7 DEF Resumptions
  <2> QED
    BY <2>1, <2>2, <2>3, <2>4
<1>10. CASE ~Blocked(f)
  BY <1>1, <1>8, <1>9, <1>10
<1>11. CASE Queued(f)
  <2>1. PICK i \in DOMAIN queue : queue[i].fiber = f
    BY <1>7, <1>11
  <2>2. Resumptions(f) = {<<"queue", i>>}
    BY <1>7, <2>1 DEF Resumptions
  <2>3. Places(f) = {<<"queue", i>>}
    BY <1>1, <1>8, <1>9, <1>11, <2>2
  <2> QED
    BY <1>8, <1>11, <2>3
<1>12. CASE Held(f) /\ fiber[f].at = "read"
  <2>1. Reads(f) = {<<"read", on>>}
    BY <1>2, <1>3, <1>12 DEF Reads
  <2>2. Places(f) = {<<"read", on>>}
    BY <1>1, <1>8, <1>9, <1>12, <2>1
  <2> QED
    BY <1>8, <1>12, <2>2
<1>13. CASE Held(f) /\ fiber[f].at = "write"
  <2>1. PICK i \in Turns(f, on) : TRUE
    BY <1>2, <1>4, <1>13
  <2>2. Writes(f) = {<<"write", on, i>>}
    BY <1>2, <1>4, <1>5, <1>13, <2>1 DEF Writes
  <2>3. Places(f) = {<<"write", on, i>>}
    BY <1>1, <1>8, <1>9, <1>13, <2>2
  <2> QED
    BY <1>8, <1>13, <2>3
<1>14. CASE Held(f) /\ fiber[f].at = "connect"
  <2>1. Connects(f) = {<<"connect", on>>}
    BY <1>2, <1>6, <1>14 DEF Connects
  <2>2. Places(f) = {<<"connect", on>>}
    BY <1>1, <1>8, <1>9, <1>14, <2>1
  <2> QED
    BY <1>8, <1>14, <2>2
<1> QED
  BY <1>8, <1>10, <1>11, <1>12, <1>13, <1>14 DEF Blocked

(* A fiber blocked in read, write or connect is waited for in exactly one  *)
(* place, so it is resumed for its own call and never twice.               *)
THEOREM WaitedForOnce == Spec => []BlockedInOnePlace
  BY OnePlace, Invariant, PTL

(* The chunks that arrive on a socket are returned in their order, none    *)
(* twice and none left out, whichever fibers read.                         *)
THEOREM ChunksInOrder == Spec => ChunksAreReturnedInOrder
<1>1. SocketsInv /\ [Next]_vars =>
        [\A s \in Sockets : returned'[s] \in {returned[s], returned[s] + 1}]_vars
  <2> SUFFICES ASSUME SocketsInv, Next
               PROVE  \A s \in Sockets : returned'[s] \in {returned[s], returned[s] + 1}
    OBVIOUS
  <2>1. CASE ResumeNext
    BY <2>1, ResumeStep
  <2>2. CASE UNCHANGED returned
    BY <2>2
  <2> QED
    BY <2>1, <2>2 DEF Next, Loop, Network, Fiber, EndScript, FinishClose, OnWrite, OnConnect, OnRead,
         Fiber_Run, EndFiber, Read, Write, WriteRejected, Close, TCP_Connect, ConnectRejected,
         UDP_Listen, ioVars
<1> QED
  BY <1>1, Invariant, PTL DEF Spec, ChunksAreReturnedInOrder
===============================================================================
