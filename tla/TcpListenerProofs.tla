--------------------------- MODULE TcpListenerProofs --------------------------
(***************************************************************************)
(* Proofs about TcpListener, for any fibers, connections and limits of     *)
(* what libuv holds: a fiber inside accept() is waited for in one place,   *)
(* and while the listener is open uv_accept finds the connection that      *)
(* OnUvConnection has promised, although other fibers ran in between.      *)
(***************************************************************************)
EXTENDS TcpListener, QueueLemmas

Contexts == Range(queue) \cup Range(local_queue)

(* The three queues hold nothing twice and have no fiber in common.        *)
QueuesInv ==
  /\ IsInjective(accept_queue) /\ IsInjective(queue) /\ IsInjective(local_queue)
  /\ Range(queue) \cap Range(local_queue) = {}
  /\ \A c, d \in Contexts : c.fiber = d.fiber => c = d
  /\ \A f \in Range(accept_queue), c \in Contexts : c.fiber # f

(* A fiber is in a queue exactly while it is blocked, and in which one it  *)
(* is depends on what it is blocked in.                                    *)
BlockedInv ==
  /\ \A f \in Range(accept_queue) : fiber[f] = "accept"
  /\ \A c \in Contexts : fiber[c.fiber] = IF c.result = "other" THEN "handling" ELSE "accept"
  /\ \A f \in Fibers : fiber[f] = "accept" =>
                         f \in Range(accept_queue) \/ \E c \in Contexts : c.fiber = f

RunningInv == \A f \in Fibers : fiber[f] = "js" <=> running = f

PromiseInv == /\ stored => server = "listening"
              /\ PromisedConnectionIsThere

ListenerInv == TypeOK /\ QueuesInv /\ BlockedInv /\ RunningInv /\ PromiseInv
-------------------------------------------------------------------------------
(* The functions of fibers in AcceptersAreInOnePlace, without positions.   *)
LEMMA DistinctFibers ==
  ASSUME NEW q \in Seq(Context)
  PROVE  IsInjective([i \in DOMAIN q |-> q[i].fiber])
           <=> IsInjective(q) /\ \A c, d \in Range(q) : c.fiber = d.fiber => c = d
  BY DEF IsInjective, Range

LEMMA ContextsAreQueued ==
  ASSUME TypeOK
  PROVE  /\ Range(queue \o local_queue) = Contexts
         /\ queue \o local_queue \in Seq(Context)
         /\ Contexts \subseteq Context
         /\ Promised = {c \in Contexts : c.result = "connection"}
<1>1. queue \in Seq(Context) /\ local_queue \in Seq(Context)
  BY DEF TypeOK
<1>2. Range(queue \o local_queue) = Contexts /\ queue \o local_queue \in Seq(Context)
  BY <1>1, RangeConcat DEF Contexts
<1>3. Range(queue) \subseteq Context /\ Range(local_queue) \subseteq Context
  BY <1>1, RangeOfSeq
<1> QED
  BY <1>2, <1>3 DEF Contexts, Promised

LEMMA InvImpliesOnePlace == ListenerInv => AcceptersAreInOnePlace
<1> SUFFICES ASSUME ListenerInv PROVE AcceptersAreInOnePlace
  OBVIOUS
<1> USE DEF ListenerInv
<1>1. IsInjective(queue \o local_queue)
  BY RangeConcat DEF TypeOK, QueuesInv
<1>2. IsInjective([i \in DOMAIN (queue \o local_queue) |-> (queue \o local_queue)[i].fiber])
  BY <1>1, ContextsAreQueued, DistinctFibers DEF QueuesInv
<1>3. ASSUME NEW f \in Fibers
      PROVE  fiber[f] = "accept" <=> (f \in Range(accept_queue)) # Granted(f)
  <2>1. Granted(f) <=> \E c \in Contexts : c.fiber = f /\ c.result # "other"
    BY ContextsAreQueued DEF Granted
  <2>2. CASE f \in Range(accept_queue)
    <3>1. fiber[f] = "accept" /\ ~Granted(f)
      BY <2>1, <2>2 DEF QueuesInv, BlockedInv
    <3> QED
      BY <2>2, <3>1
  <2>3. CASE f \notin Range(accept_queue)
    <3>1. fiber[f] = "accept" <=> Granted(f)
      BY <2>1, <2>3 DEF BlockedInv
    <3>2. CASE Granted(f)
      BY <2>3, <3>1, <3>2
    <3>3. CASE ~Granted(f)
      <4>1. (f \in Range(accept_queue)) = FALSE
        BY <2>3
      <4>2. Granted(f) = FALSE
        BY <3>3 DEF Granted
      <4>3. ~ ((f \in Range(accept_queue)) # Granted(f))
        BY <4>1, <4>2
      <4> QED
        BY <3>1, <3>3, <4>3
    <3> QED
      BY <3>2, <3>3
  <2> QED
    BY <2>2, <2>3
<1> QED
  BY <1>2, <1>3 DEF AcceptersAreInOnePlace, QueuesInv
-------------------------------------------------------------------------------
(* The type invariant.                                                     *)
Activity == {"ready", "js", "accept", "handling", "ended"}

LEMMA LeaveType ==
  ASSUME TypeOK, NEW f \in Fibers, NEW activity \in Activity, Leave(f, activity)
  PROVE  /\ fiber' \in [Fibers -> Activity] /\ running' \in Fibers \cup {NoFiber}
         /\ running = f /\ running' = NoFiber
         /\ fiber'[f] = activity
         /\ \A g \in Fibers : g # f => fiber'[g] = fiber[g]
  BY DEF TypeOK, Leave, Activity

LEMMA ConnectionType ==
  ASSUME TypeOK, NEW status \in {"connection", "error"}, OnUvConnection(status)
  PROVE  accept_queue' \in Seq(Fibers) /\ queue' \in Seq(Context)
<1>1. accept_queue \in Seq(Fibers) /\ queue \in Seq(Context)
  BY DEF TypeOK
<1>2. CASE accept_queue = <<>>
  BY <1>1, <1>2 DEF OnUvConnection
<1>3. CASE accept_queue # <<>>
  <2>1. Head(accept_queue) \in Fibers /\ Tail(accept_queue) \in Seq(Fibers)
    BY <1>1, <1>3
  <2>2. [fiber |-> Head(accept_queue), result |-> status] \in Context
    BY <2>1 DEF Context
  <2>3. Append(queue, [fiber |-> Head(accept_queue), result |-> status]) \in Seq(Context)
    BY <1>1, <2>2
  <2> QED
    BY <1>3, <2>1, <2>3 DEF OnUvConnection
<1> QED
  BY <1>2, <1>3

LEMMA TypeStep ==
  ASSUME TypeOK, [Next]_vars
  PROVE  TypeOK'
<1> USE DEF Activity
<1>1. ASSUME NEW f \in Fibers, Start(f), UNCHANGED hold_limit PROVE TypeOK'
  BY <1>1 DEF Start, TypeOK
<1>2. ASSUME NEW f \in Fibers, TCP_Accept(f), UNCHANGED hold_limit PROVE TypeOK'
  <2>1. accept_queue' \in Seq(Fibers)
    BY <1>2 DEF TCP_Accept, TypeOK
  <2> QED
    BY <1>2, <2>1, LeaveType DEF TCP_Accept, TypeOK
<1>3. ASSUME NEW f \in Fibers, Handle(f) \/ End(f), UNCHANGED hold_limit PROVE TypeOK'
  BY <1>3, LeaveType DEF Handle, End, TypeOK
<1>4. ASSUME NEW f \in Fibers, TCP_Close(f), UNCHANGED hold_limit PROVE TypeOK'
  <2>1. conn' \in [Connections -> {"none", "backlog", "held", "accepted", "reset"}]
    BY <1>4 DEF TCP_Close, TypeOK
  <2>2. backlog' \in Seq(Connections) /\ held' \in Seq(Connections)
    BY <1>4, EmptySeq DEF TCP_Close
  <2> QED
    BY <1>4, <2>1, <2>2 DEF TCP_Close, TypeOK, loopVars
<1>5. ASSUME NEW f \in Fibers, HandlingDone(f), UNCHANGED hold_limit PROVE TypeOK'
  <2>1. queue' \in Seq(Context)
    BY <1>5 DEF HandlingDone, TypeOK, Context
  <2> QED
    BY <1>5, <2>1 DEF HandlingDone, TypeOK
<1>6. ASSUME NEW c \in Connections, Connect(c), UNCHANGED hold_limit PROVE TypeOK'
  <2>1. conn' \in [Connections -> {"none", "backlog", "held", "accepted", "reset"}]
    BY <1>6 DEF Connect, TypeOK
  <2>2. backlog' \in Seq(Connections)
    BY <1>6 DEF Connect, TypeOK
  <2> QED
    BY <1>6, <2>1, <2>2 DEF Connect, TypeOK, loopVars
<1>7. ASSUME EndScript, UNCHANGED hold_limit PROVE TypeOK'
  BY <1>7 DEF EndScript, TypeOK
<1>8. ASSUME TakeConnection \/ TakeFails, UNCHANGED hold_limit PROVE TypeOK'
  <2>1. Head(backlog) \in Connections /\ Tail(backlog) \in Seq(Connections)
    BY <1>8 DEF TakeConnection, TakeFails, TypeOK
  <2>2. accept_queue' \in Seq(Fibers) /\ queue' \in Seq(Context)
    BY <1>8, ConnectionType DEF TakeConnection, TakeFails
  <2>3. <<Head(backlog)>> \in Seq(Connections)
    BY <2>1
  <2>4. held' \in Seq(Connections)
    <3>1. <<Head(backlog)>> \o held \in Seq(Connections)
      BY <2>3, ConcatProperties DEF TypeOK
    <3> QED
      BY <1>8, <3>1 DEF TakeConnection, TakeFails, TypeOK
  <2>5. conn' \in [Connections -> {"none", "backlog", "held", "accepted", "reset"}]
    BY <1>8, <2>1 DEF TakeConnection, TakeFails, TypeOK
  <2> QED
    BY <1>8, <2>1, <2>2, <2>4, <2>5 DEF TakeConnection, TakeFails, TypeOK
<1>9. ASSUME OnFibersToResume, UNCHANGED hold_limit PROVE TypeOK'
  <2>1. queue' \in Seq(Context) /\ local_queue' \in Seq(Context)
    BY <1>9, EmptySeq DEF OnFibersToResume, TypeOK
  <2> QED
    BY <1>9, <2>1 DEF OnFibersToResume, TypeOK
<1>10. ASSUME ResumeNext, UNCHANGED hold_limit PROVE TypeOK'
  <2>1. Head(local_queue) \in Context /\ Tail(local_queue) \in Seq(Context)
    BY <1>10 DEF ResumeNext, TypeOK
  <2>2. Head(local_queue).fiber \in Fibers
    BY <2>1 DEF Context
  <2>3. held' \in Seq(Connections) /\ failed' \subseteq Fibers /\ misused' \in BOOLEAN
        /\ conn' \in [Connections -> {"none", "backlog", "held", "accepted", "reset"}]
    <3>1. CreateResultValue(Head(local_queue))
      BY <1>10 DEF ResumeNext
    <3>0. misused' \in BOOLEAN
      BY <3>1 DEF CreateResultValue, TypeOK, Freed
    <3>2. CASE held = <<>>
      BY <2>2, <3>0, <3>1, <3>2 DEF CreateResultValue, TypeOK
    <3>3. CASE held # <<>>
      <4>1. Head(held) \in Connections /\ Tail(held) \in Seq(Connections)
        BY <3>3 DEF TypeOK
      <4> QED
        BY <3>0, <3>1, <3>3, <4>1 DEF CreateResultValue, TypeOK
    <3> QED
      BY <3>2, <3>3
  <2> QED
    BY <1>10, <2>1, <2>2, <2>3 DEF ResumeNext, TypeOK
<1>11. ASSUME RunClosingHandles, UNCHANGED hold_limit PROVE TypeOK'
  <2>1. misused' \in BOOLEAN
    BY <1>11 DEF RunClosingHandles, Freed
  <2> QED
    BY <1>11, <2>1 DEF RunClosingHandles, TypeOK, loopVars
<1>12. CASE UNCHANGED vars
  BY <1>12 DEF vars, TypeOK, loopVars
<1> QED
  BY <1>1, <1>2, <1>3, <1>4, <1>5, <1>6, <1>7, <1>8, <1>9, <1>10, <1>11, <1>12
     DEF Next, Fiber, Loop
-------------------------------------------------------------------------------
(* The queues.                                                             *)

(* A running fiber f is in no queue, and only its activity changes.        *)
LEMMA FiberStep ==
  ASSUME ListenerInv, NEW f \in Fibers, fiber[f] \in {"ready", "js"},
         fiber' \in [Fibers -> Activity], fiber'[f] # "accept",
         \A g \in Fibers : g # f => fiber'[g] = fiber[g],
         UNCHANGED <<accept_queue, queue, local_queue>>
  PROVE  QueuesInv' /\ BlockedInv'
<1> USE DEF ListenerInv
<1>1. QueuesInv' /\ Contexts' = Contexts
  BY DEF QueuesInv, Contexts
<1>2. Contexts \subseteq Context /\ Range(accept_queue) \subseteq Fibers
  BY ContextsAreQueued, RangeOfSeq DEF TypeOK
<1>3. /\ \A g \in Range(accept_queue) : g # f
      /\ \A c \in Contexts : c.fiber \in Fibers /\ c.fiber # f
  BY <1>2 DEF BlockedInv, Context
<1> QED
  BY <1>1, <1>2, <1>3 DEF BlockedInv

(* A context is added for a fiber that is in no queue.                     *)
LEMMA QueueStep ==
  ASSUME ListenerInv, NEW c \in Context, \A d \in Contexts : d.fiber # c.fiber,
         c.fiber \notin Range(accept_queue'), IsInjective(accept_queue'),
         Range(accept_queue') \subseteq Range(accept_queue),
         queue' = Append(queue, c), UNCHANGED local_queue
  PROVE  QueuesInv' /\ Contexts' = Contexts \cup {c}
<1> USE DEF ListenerInv
<1>1. queue \in Seq(Context)
  BY DEF TypeOK
<1>2. c \notin Range(queue) /\ c \notin Range(local_queue)
  BY DEF Contexts
<1>3. Range(queue') = Range(queue) \cup {c} /\ IsInjective(queue')
  BY <1>1, <1>2, RangeAppend DEF QueuesInv
<1>4. Contexts' = Contexts \cup {c}
  BY <1>3 DEF Contexts
<1> QED
  BY <1>2, <1>3, <1>4 DEF QueuesInv

LEMMA ConnectionStep ==
  ASSUME ListenerInv, NEW status \in {"connection", "error"}, OnUvConnection(status),
         UNCHANGED <<fiber, local_queue>>
  PROVE  /\ QueuesInv' /\ BlockedInv'
         /\ \/ Contexts' = Contexts
            \/ \E c \in Context : c.result = status /\ Contexts' = Contexts \cup {c}
<1> USE DEF ListenerInv
<1>1. CASE accept_queue = <<>>
  BY <1>1 DEF OnUvConnection, QueuesInv, BlockedInv, Contexts
<1>2. CASE accept_queue # <<>>
  <2> DEFINE f == Head(accept_queue)
             c == [fiber |-> f, result |-> status]
  <2>1. /\ accept_queue \in Seq(Fibers) /\ f \in Fibers
        /\ Range(accept_queue) = {f} \cup Range(Tail(accept_queue))
        /\ f \notin Range(Tail(accept_queue)) /\ IsInjective(Tail(accept_queue))
    BY <1>2, RangeTail DEF TypeOK, QueuesInv
  <2>2. accept_queue' = Tail(accept_queue) /\ queue' = Append(queue, c)
    BY <1>2 DEF OnUvConnection
  <2>3. c \in Context /\ c.fiber = f /\ c.result = status
    BY <2>1 DEF Context
  <2> HIDE DEF f, c
  <2>4. QueuesInv' /\ Contexts' = Contexts \cup {c}
    BY <2>1, <2>2, <2>3, QueueStep DEF QueuesInv
  <2>5. BlockedInv'
    BY <2>1, <2>2, <2>3, <2>4 DEF BlockedInv
  <2> QED
    BY <2>3, <2>4, <2>5
<1> QED
  BY <1>1, <1>2

(* ResumeNext removes the context of the fiber that runs next.             *)
LEMMA ResumeStep ==
  ASSUME ListenerInv, ResumeNext, TypeOK'
  PROVE  /\ QueuesInv' /\ BlockedInv' /\ RunningInv'
         /\ Head(local_queue) \in Contexts
         /\ Contexts' = Contexts \ {Head(local_queue)}
<1> USE DEF ListenerInv
<1> DEFINE c == Head(local_queue)
<1>1. /\ local_queue \in Seq(Context) /\ local_queue # <<>> /\ c \in Context
      /\ Range(local_queue) = {c} \cup Range(Tail(local_queue))
      /\ c \notin Range(Tail(local_queue)) /\ IsInjective(Tail(local_queue))
  BY RangeTail DEF ResumeNext, TypeOK, QueuesInv
<1>2. /\ local_queue' = Tail(local_queue) /\ running = NoFiber /\ running' = c.fiber
      /\ fiber' = [fiber EXCEPT ![c.fiber] = "js"]
      /\ UNCHANGED <<accept_queue, queue>>
  BY DEF ResumeNext
<1> HIDE DEF c
<1>3. c.fiber \in Fibers /\ c \in Contexts /\ Contexts \subseteq Context
  BY <1>1, ContextsAreQueued DEF Context, Contexts
<1>4. fiber'[c.fiber] = "js" /\ \A g \in Fibers : g # c.fiber => fiber'[g] = fiber[g]
  BY <1>2, <1>3 DEF TypeOK
<1>5. Contexts' = Contexts \ {c}
  BY <1>1, <1>2 DEF Contexts, QueuesInv
<1>6. QueuesInv'
  BY <1>1, <1>2, <1>5 DEF QueuesInv
<1>7. \A d \in Contexts' : d.fiber \in Fibers /\ d.fiber # c.fiber
  BY <1>3, <1>5 DEF QueuesInv, Context
<1>8. BlockedInv'
  <2>1. \A f \in Range(accept_queue) : f \in Fibers /\ f # c.fiber
    BY <1>3, RangeOfSeq DEF QueuesInv, TypeOK
  <2>2. \A f \in Fibers : fiber'[f] = "accept" => f # c.fiber /\ fiber[f] = "accept"
    BY <1>4
  <2>3. \A f \in Fibers : fiber'[f] = "accept" =>
          f \in Range(accept_queue) \/ \E d \in Contexts' : d.fiber = f
    BY <1>5, <2>2 DEF BlockedInv
  <2> QED
    BY <1>2, <1>4, <1>5, <1>7, <2>1, <2>3 DEF BlockedInv
<1>9. RunningInv'
  BY <1>2, <1>3, <1>4, ListenerAssumption DEF RunningInv
<1> QED
  BY <1>3, <1>5, <1>6, <1>8, <1>9 DEF c
-------------------------------------------------------------------------------
(* The promise.                                                            *)

LEMMA ContextsAreFinite ==
  ASSUME TypeOK
  PROVE  /\ IsFiniteSet(Promised) /\ Cardinality(Promised) \in Nat
         /\ Len(held) \in Nat
<1>1. IsFiniteSet(Range(queue \o local_queue))
  BY ContextsAreQueued, RangeFinite
<1>2. Promised \in SUBSET Range(queue \o local_queue)
  BY DEF Promised
<1> QED
  BY <1>1, <1>2, FS_Subset, FS_CardinalityType DEF TypeOK

LEMMA PromisedNext ==
  ASSUME TypeOK'
  PROVE  /\ Promised' = {c \in Contexts' : c.result = "connection"}
         /\ IsFiniteSet(Promised') /\ Cardinality(Promised') \in Nat
         /\ Len(held') \in Nat
<1>1. queue' \in Seq(Context) /\ local_queue' \in Seq(Context) /\ held' \in Seq(Connections)
  BY DEF TypeOK
<1>2. Range(queue' \o local_queue') = Contexts'
  BY <1>1, RangeConcat DEF Contexts
<1>3. queue' \o local_queue' \in Seq(Context)
  BY <1>1
<1>4. IsFiniteSet(Range(queue' \o local_queue'))
  BY <1>3, RangeFinite
<1>5. /\ Promised' = {c \in Contexts' : c.result = "connection"}
      /\ Promised' \in SUBSET Range(queue' \o local_queue')
  BY <1>2 DEF Promised
<1> QED
  BY <1>1, <1>4, <1>5, FS_Subset, FS_CardinalityType

(* libuv holds one more connection, and at most one more is promised.      *)
LEMMA TakeStep ==
  ASSUME ListenerInv, TakeConnection, TypeOK'
  PROVE  PromiseInv'
<1> USE DEF ListenerInv
<1>1. /\ OnUvConnection("connection") /\ UNCHANGED <<fiber, local_queue, server, stored>>
      /\ held' = <<Head(backlog)>> \o held
  BY DEF TakeConnection
<1>2. Len(held') = Len(held) + 1
  <2>1. Head(backlog) \in Connections /\ held \in Seq(Connections)
    BY DEF TakeConnection, TypeOK
  <2> QED
    BY <1>1, <2>1
<1>3. \/ Promised' = Promised
      \/ \E c : Promised' = Promised \cup {c}
  BY <1>1, ConnectionStep, ContextsAreQueued, PromisedNext
<1>4. /\ Cardinality(Promised) \in Nat /\ Cardinality(Promised') \in Nat /\ Len(held) \in Nat
      /\ IsFiniteSet(Promised)
  BY ContextsAreFinite, PromisedNext
<1>5. Cardinality(Promised') <= Cardinality(Promised) + 1
  <2>1. CASE Promised' = Promised
    BY <1>4, <2>1
  <2>2. ASSUME NEW c, Promised' = Promised \cup {c}
        PROVE  Cardinality(Promised') <= Cardinality(Promised) + 1
    <3>1. Cardinality(Promised \cup {c}) = IF c \in Promised THEN Cardinality(Promised)
                                                            ELSE Cardinality(Promised) + 1
      BY <1>4, FS_AddElement
    <3>2. Cardinality(Promised') = Cardinality(Promised \cup {c})
      BY <2>2
    <3> QED
      BY <1>4, <3>1, <3>2
  <2> QED
    BY <1>3, <2>1, <2>2
<1> QED
  BY <1>1, <1>2, <1>4, <1>5 DEF PromiseInv, PromisedConnectionIsThere

(* The fiber that was promised a connection takes one that libuv holds.    *)
LEMMA AcceptStep ==
  ASSUME ListenerInv, ResumeNext, TypeOK'
  PROVE  PromiseInv'
<1> USE DEF ListenerInv
<1> DEFINE c == Head(local_queue)
<1>1. c \in Contexts /\ Contexts' = Contexts \ {c}
  BY ResumeStep
<1>2. Promised' = Promised \ {c} /\ (c \in Promised <=> c.result = "connection")
  BY <1>1, ContextsAreQueued, PromisedNext
<1>3. CreateResultValue(c) /\ UNCHANGED <<server, stored>>
  BY DEF ResumeNext
<1> HIDE DEF c
<1>4. /\ IsFiniteSet(Promised) /\ Cardinality(Promised) \in Nat /\ Len(held) \in Nat
      /\ Cardinality(Promised') = IF c \in Promised THEN Cardinality(Promised) - 1
                                                    ELSE Cardinality(Promised)
  BY <1>2, ContextsAreFinite, FS_RemoveElement
<1>5. CASE c.result # "connection"
  BY <1>2, <1>3, <1>4, <1>5 DEF CreateResultValue, PromiseInv, PromisedConnectionIsThere
<1>6. CASE c.result = "connection" /\ held # <<>>
  <2>1. Len(held') = Len(held) - 1
    BY <1>3, <1>6 DEF CreateResultValue, TypeOK
  <2> QED
    BY <1>2, <1>3, <1>4, <1>6, <2>1 DEF PromiseInv, PromisedConnectionIsThere
<1>7. CASE c.result = "connection" /\ held = <<>>
  <2>1. Cardinality(Promised) # 0 /\ Len(held) = 0
    BY <1>2, <1>4, <1>7, FS_EmptySet
  <2> QED
    BY <1>3, <1>4, <2>1 DEF PromiseInv, PromisedConnectionIsThere
<1> QED
  BY <1>5, <1>6, <1>7
-------------------------------------------------------------------------------
LEMMA InitInv == Init => ListenerInv
<1> SUFFICES ASSUME Init PROVE ListenerInv
  OBVIOUS
<1>1. TypeOK
  BY EmptySeq DEF Init, TypeOK
<1>2. Contexts = {} /\ Promised = {}
  BY <1>1, RangeEmpty, ContextsAreQueued DEF Init, Contexts
<1>3. QueuesInv /\ BlockedInv /\ RunningInv
  BY <1>2, RangeEmpty, ListenerAssumption DEF Init, QueuesInv, BlockedInv, RunningInv
<1>4. PromiseInv
  BY <1>2, FS_EmptySet DEF Init, PromiseInv, PromisedConnectionIsThere
<1> QED
  BY <1>1, <1>3, <1>4 DEF ListenerInv

LEMMA StepInv == ListenerInv /\ [Next]_vars => ListenerInv'
<1> SUFFICES ASSUME ListenerInv, [Next]_vars PROVE ListenerInv'
  OBVIOUS
<1> USE DEF ListenerInv
<1>0. TypeOK'
  BY TypeStep
<1>1. ASSUME NEW f \in Fibers, Start(f) \/ Handle(f) \/ End(f) PROVE ListenerInv'
  <2>1. /\ fiber[f] \in {"ready", "js"} /\ fiber'[f] # "accept"
        /\ fiber' \in [Fibers -> Activity]
        /\ \A g \in Fibers : g # f => fiber'[g] = fiber[g]
        /\ RunningInv'
    <3>1. CASE Start(f)
      <4>1. /\ fiber[f] = "ready" /\ fiber'[f] = "js" /\ running = NoFiber /\ running' = f
            /\ \A g \in Fibers : g # f => fiber'[g] = fiber[g]
        BY <3>1 DEF Start, TypeOK
      <4> QED
        BY <1>0, <4>1, ListenerAssumption DEF RunningInv, TypeOK, Activity
    <3>2. CASE Handle(f) \/ End(f)
      <4>1. PICK activity \in {"handling", "ended"} : Leave(f, activity)
        BY <3>2 DEF Handle, End
      <4>2. /\ running = f /\ running' = NoFiber /\ fiber'[f] = activity
            /\ fiber' \in [Fibers -> Activity]
            /\ \A g \in Fibers : g # f => fiber'[g] = fiber[g]
        BY <4>1, LeaveType DEF Activity
      <4> QED
        BY <4>2, ListenerAssumption DEF RunningInv
    <3> QED
      BY <1>1, <3>1, <3>2
  <2>2. UNCHANGED <<accept_queue, queue, local_queue, server, stored, held>>
    BY <1>1 DEF Start, Handle, End
  <2>3. QueuesInv' /\ BlockedInv'
    BY <2>1, <2>2, FiberStep
  <2>4. PromiseInv'
    BY <2>2 DEF PromiseInv, PromisedConnectionIsThere, Promised
  <2> QED
    BY <1>0, <2>1, <2>3, <2>4
<1>2. ASSUME NEW f \in Fibers, TCP_Accept(f) PROVE ListenerInv'
  <2>1. /\ running = f /\ running' = NoFiber /\ fiber'[f] = "accept"
        /\ \A g \in Fibers : g # f => fiber'[g] = fiber[g]
    BY <1>2, LeaveType DEF TCP_Accept, Activity
  <2>2. /\ accept_queue' = Append(accept_queue, f)
        /\ UNCHANGED <<queue, local_queue, server, stored, held>>
    BY <1>2 DEF TCP_Accept
  <2>3. /\ f \notin Range(accept_queue)
        /\ \A c \in Contexts : c.fiber # f /\ c.fiber \in Fibers
    <3>1. fiber[f] = "js"
      BY <2>1 DEF RunningInv
    <3> QED
      BY <3>1, ContextsAreQueued DEF BlockedInv, Context
  <2>4. Range(accept_queue') = Range(accept_queue) \cup {f} /\ IsInjective(accept_queue')
    BY <2>2, <2>3, RangeAppend DEF TypeOK, QueuesInv
  <2>5. Contexts' = Contexts
    BY <2>2 DEF Contexts
  <2>6. QueuesInv'
    BY <2>2, <2>3, <2>4, <2>5 DEF QueuesInv
  <2>7. BlockedInv'
    <3>1. Range(accept_queue) \subseteq Fibers
      BY RangeOfSeq DEF TypeOK
    <3> QED
      BY <2>1, <2>3, <2>4, <2>5, <3>1 DEF BlockedInv
  <2>8. RunningInv' /\ PromiseInv'
    BY <2>1, <2>2, ListenerAssumption DEF RunningInv, PromiseInv, PromisedConnectionIsThere, Promised
  <2> QED
    BY <1>0, <2>6, <2>7, <2>8
<1>3. ASSUME NEW f \in Fibers, TCP_Close(f) PROVE ListenerInv'
  <2>1. /\ UNCHANGED <<accept_queue, fiber, running, queue, local_queue>>
        /\ server' = "closing" /\ stored' = FALSE
    BY <1>3 DEF TCP_Close, loopVars
  <2> QED
    BY <1>0, <2>1 DEF QueuesInv, BlockedInv, RunningInv, PromiseInv, PromisedConnectionIsThere,
                      Contexts
<1>4. ASSUME NEW f \in Fibers, HandlingDone(f) PROVE ListenerInv'
  <2> DEFINE c == [fiber |-> f, result |-> "other"]
  <2>1. /\ fiber[f] = "handling" /\ queue' = Append(queue, c)
        /\ local_queue = <<>>
        /\ \A i \in DOMAIN queue : queue[i].fiber # f
        /\ UNCHANGED <<accept_queue, fiber, running, local_queue, server, stored, held>>
    BY <1>4 DEF HandlingDone, LoopRuns
  <2>2. c \in Context /\ c.fiber = f /\ c.result = "other"
    BY DEF Context
  <2> HIDE DEF c
  <2>3. /\ \A d \in Contexts : d.fiber # f
        /\ f \notin Range(accept_queue)
    BY <2>1, RangeEmpty DEF Contexts, Range, BlockedInv
  <2>4. QueuesInv' /\ Contexts' = Contexts \cup {c}
    BY <2>1, <2>2, <2>3, QueueStep DEF QueuesInv
  <2>5. BlockedInv' /\ RunningInv'
    BY <2>1, <2>2, <2>4 DEF BlockedInv, RunningInv
  <2>6. Promised' = Promised
    BY <1>0, <2>2, <2>4, ContextsAreQueued, PromisedNext
  <2>7. PromiseInv'
    BY <2>1, <2>6 DEF PromiseInv, PromisedConnectionIsThere
  <2> QED
    BY <1>0, <2>4, <2>5, <2>7
<1>5. ASSUME \/ \E c \in Connections : Connect(c)
             \/ EndScript \/ RunClosingHandles \/ UNCHANGED vars
      PROVE  ListenerInv'
  <2>1. /\ UNCHANGED <<accept_queue, fiber, running, queue, local_queue, stored, held>>
        /\ server' = "listening" <=> server = "listening"
    BY <1>5 DEF Connect, EndScript, RunClosingHandles, vars, loopVars
  <2> QED
    BY <1>0, <2>1 DEF QueuesInv, BlockedInv, RunningInv, PromiseInv, PromisedConnectionIsThere,
                      Contexts, Promised
<1>6. CASE TakeConnection
  <2>1. OnUvConnection("connection") /\ UNCHANGED <<fiber, local_queue, running>>
    BY <1>6 DEF TakeConnection
  <2>2. QueuesInv' /\ BlockedInv'
    BY <2>1, ConnectionStep
  <2>3. PromiseInv'
    BY <1>0, <1>6, TakeStep
  <2> QED
    BY <1>0, <2>1, <2>2, <2>3 DEF RunningInv
<1>7. CASE TakeFails
  <2>1. OnUvConnection("error") /\ UNCHANGED <<fiber, local_queue, running, server, stored, held>>
    BY <1>7 DEF TakeFails
  <2>2. /\ QueuesInv' /\ BlockedInv'
        /\ \/ Contexts' = Contexts
           \/ \E c \in Context : c.result = "error" /\ Contexts' = Contexts \cup {c}
    BY <2>1, ConnectionStep
  <2>3. Promised' = Promised
    BY <1>0, <2>2, ContextsAreQueued, PromisedNext
  <2>4. PromiseInv'
    BY <2>1, <2>3 DEF PromiseInv, PromisedConnectionIsThere
  <2> QED
    BY <1>0, <2>1, <2>2, <2>4 DEF RunningInv
<1>8. CASE OnFibersToResume
  <2>1. /\ local_queue = <<>> /\ local_queue' = queue /\ queue' = <<>>
        /\ UNCHANGED <<accept_queue, fiber, running, server, stored, held>>
    BY <1>8 DEF OnFibersToResume, LoopRuns
  <2>2. Contexts' = Contexts
    BY <2>1, RangeEmpty DEF Contexts
  <2>3. QueuesInv' /\ BlockedInv' /\ RunningInv'
    BY <2>1, <2>2, RangeEmpty DEF QueuesInv, BlockedInv, RunningInv
  <2>4. Promised' = Promised
    BY <1>0, <2>2, ContextsAreQueued, PromisedNext
  <2>5. PromiseInv'
    BY <2>1, <2>4 DEF PromiseInv, PromisedConnectionIsThere
  <2> QED
    BY <1>0, <2>3, <2>5
<1>9. CASE ResumeNext
  BY <1>0, <1>9, ResumeStep, AcceptStep
<1> QED
  BY <1>1, <1>2, <1>3, <1>4, <1>5, <1>6, <1>7, <1>8, <1>9 DEF Next, Fiber, Loop

LEMMA Invariant == Spec => []ListenerInv
  BY InitInv, StepInv, PTL DEF Spec

(* Every variable of the listener keeps its type.                          *)
THEOREM ListenerTypeCorrect == Spec => []TypeOK
<1>1. ListenerInv => TypeOK
  BY DEF ListenerInv
<1> QED
  BY <1>1, Invariant, PTL

(* A fiber inside accept() is in accept_queue or has been granted, never   *)
(* both, never twice; no other fiber is.  So it takes one connection for   *)
(* each accept(), and is never resumed while it waits for something else;  *)
(* that it is resumed at all is not said, and fails once the listener is   *)
(* closed (CloseEndsAccept).                                               *)
THEOREM AcceptersInOnePlace == Spec => []AcceptersAreInOnePlace
  BY InvImpliesOnePlace, Invariant, PTL

(* While the listener is open libuv holds a connection for every promise.  *)
THEOREM PromisesAreKept == Spec => []PromisedConnectionIsThere
<1>1. ListenerInv => PromisedConnectionIsThere
  BY DEF ListenerInv, PromiseInv
<1> QED
  BY <1>1, Invariant, PTL
===============================================================================
