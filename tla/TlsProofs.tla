------------------------------- MODULE TlsProofs ------------------------------
(***************************************************************************)
(* Proofs about Tls, for any fibers, connections and peers, when each      *)
(* fiber has a connection of its own: the resolver's context outlives      *)
(* every handshake that may call it, and a fiber suspended in an operation *)
(* is waited for in exactly one place.                                     *)
(***************************************************************************)
EXTENDS Tls, QueueLemmas

Resolving == {"resolving", "waiting", "resolved"}

OwnConnections == \A f, g \in Fibers : On(f) = On(g) => f = g

(* A fiber in a handshake that may call the resolver holds the context.    *)
HandshakeHolds ==
  \A f \in Fibers :
    \/ fiber[f].at = "accept" /\ Phase(On(f)) = "hello"
    \/ fiber[f].at \in Resolving
    => f \in ctx_owners

(* A fiber inside an operation has an SSL.                                 *)
OperationHasSsl ==
  \A f \in Fibers : fiber[f].at \in Activity \cup Resolving => Phase(On(f)) \notin {"none", "closed"}

(* A fiber that is queued is suspended in an operation or in the resolver, *)
(* and it is queued once.                                                  *)
QueuedInv ==
  /\ IsInjective(queue)
  /\ \A c, d \in Range(queue) : c.fiber = d.fiber => c = d
  /\ \A c \in Range(queue) : /\ fiber[c.fiber].at \in Activity \cup {"resolved"}
                             /\ running # c.fiber

(* A fiber that polls is suspended in an operation, has one poll, of its   *)
(* own open connection, and is not queued.                                 *)
PollsInv ==
  \A p \in polls :
    /\ \A other \in polls : other.fiber = p.fiber => other = p
    /\ fiber[p.fiber].at \in Activity /\ On(p.fiber) = p.on /\ running # p.fiber
    /\ Phase(p.on) \notin {"none", "closed"}
    /\ \A c \in Range(queue) : c.fiber # p.fiber

(* A fiber suspended in an operation has a poll or is queued.              *)
AwaitedInv ==
  \A f \in Fibers :
    Suspended(f) => \/ \E p \in polls : p.fiber = f
                    \/ \E c \in Range(queue) : c.fiber = f

RunningInv == running # NoFiber => fiber[running].at \notin {"ready", "waiting", "ended"}

IInv == /\ TypeOK /\ OwnConnections /\ HandshakeHolds /\ OperationHasSsl
        /\ QueuedInv /\ PollsInv /\ AwaitedInv /\ RunningInv
-------------------------------------------------------------------------------
FiberState == [at : Activity \cup {"ready", "js", "resolving", "waiting", "resolved", "ended"},
               on : Connections]
Ssl == [phase : {"none", "hello", "finish", "closed"} \cup Established,
        sent_close : BOOLEAN, got_close : BOOLEAN]

NetType == /\ peer \in [Connections -> {"open", "closed", "gone"}]
           /\ sent \in [Connections -> 0 .. MaxRecords]
           /\ inbox \in [Connections -> Seq(Record)]
           /\ writable \subseteq Connections
SslType == /\ ssl \in [Connections -> Ssl]
           /\ calls \in [Connections -> 0 .. MaxCalls]
           /\ errors \in BOOLEAN
           /\ ctx_owners \subseteq Fibers \cup {Store}
FiberType == /\ fiber \in [Fibers -> FiberState]
             /\ running \in Fibers \cup {NoFiber}
Polling == [fiber : Fibers, on : Connections, events : {"read", "write"}]
Queued == [fiber : Fibers, error : BOOLEAN]
LoopType == /\ polls \subseteq Polling
            /\ queue \in Seq(Queued)
            /\ stopped \in BOOLEAN

LEMMA TypeParts == TypeOK <=> NetType /\ SslType /\ FiberType /\ LoopType
  BY Zenon DEF TypeOK, NetType, SslType, FiberType, LoopType, FiberState, Ssl, Polling, Queued

(* The same after a step.                                                  *)
LEMMA TypePartsNext == NetType' /\ SslType' /\ FiberType' /\ LoopType' <=> TypeOK'
  BY Zenon DEF TypeOK, NetType, SslType, FiberType, LoopType, FiberState, Ssl, Polling, Queued

LEMMA InitInv == Init => IInv
<1> SUFFICES ASSUME Init PROVE IInv
  OBVIOUS
<1> DEFINE own == CHOOSE on \in [Fibers -> Connections] : IsInjective(on)
<1>1. own \in [Fibers -> Connections] /\ IsInjective(own)
  BY TlsAssumption
<1>2. fiber = [f \in Fibers |-> [at |-> "ready", on |-> own[f]]]
  BY DEF Init
<1> HIDE DEF own
<1>3. /\ writable = Connections /\ ctx_owners = {Store} /\ polls = {} /\ queue = <<>>
      /\ running = NoFiber /\ stopped = FALSE /\ errors = FALSE
  BY DEF Init
<1>4. NetType
  <2>1. /\ peer \in [Connections -> {"open", "closed", "gone"}]
        /\ sent \in [Connections -> 0 .. MaxRecords]
    BY TlsAssumption DEF Init
  <2>2. inbox \in [Connections -> Seq(Record)]
    BY DEF Init
  <2> QED
    BY <1>3, <2>1, <2>2 DEF NetType
<1>5. SslType
  <2>1. ssl \in [Connections -> Ssl] /\ calls \in [Connections -> 0 .. MaxCalls]
    BY TlsAssumption DEF Init, Ssl
  <2> QED
    BY <1>3, <2>1 DEF SslType
<1>6. FiberType
  BY <1>1, <1>2, <1>3 DEF FiberType, FiberState
<1>7. LoopType
  BY <1>3, EmptySeq DEF LoopType
<1>8. OwnConnections
  BY <1>1, <1>2 DEF OwnConnections, On, IsInjective
<1>9. HandshakeHolds /\ OperationHasSsl /\ QueuedInv /\ PollsInv /\ AwaitedInv /\ RunningInv
  BY <1>2, <1>3, RangeEmpty DEF HandshakeHolds, OperationHasSsl, QueuedInv, RunningInv,
                    PollsInv, AwaitedInv, Suspended, Resolving, Activity
<1> QED
  BY <1>4, <1>5, <1>6, <1>7, <1>8, <1>9, TypeParts DEF IInv

(* Now(f, at) changes the activity of one fiber.                           *)
LEMMA NowStep ==
  ASSUME fiber \in [Fibers -> FiberState], NEW f \in Fibers, NEW at, Now(f, at),
         at \in Activity \cup {"ready", "js", "resolving", "waiting", "resolved", "ended"}
  PROVE  /\ fiber' \in [Fibers -> FiberState]
         /\ fiber'[f].at = at
         /\ \A g \in Fibers : fiber'[g].on = fiber[g].on
         /\ \A g \in Fibers : g # f => fiber'[g] = fiber[g]
  BY DEF Now, FiberState

(* Become(c, phase) changes the phase of one SSL.                          *)
LEMMA BecomeStep ==
  ASSUME ssl \in [Connections -> Ssl], NEW c \in Connections, NEW phase, Become(c, phase),
         phase \in {"none", "hello", "finish", "closed"} \cup Established
  PROVE  /\ ssl' \in [Connections -> Ssl]
         /\ ssl'[c].phase = phase
         /\ \A d \in Connections : d # c => ssl'[d].phase = ssl[d].phase
  BY DEF Become, Ssl

(* What an action of the running fiber f has to keep, given its types.     *)
Effect(f) ==
  /\ NetType' /\ SslType' /\ FiberType' /\ stopped' \in BOOLEAN
  /\ \A g \in Fibers : fiber'[g].on = fiber[g].on
  /\ \A g \in Fibers : g # f => fiber'[g] = fiber[g]
  /\ \A c \in Connections : c # On(f) => ssl'[c].phase = ssl[c].phase
  /\ \A g \in Fibers : g # f /\ g \in ctx_owners => g \in ctx_owners'
  /\ \/ fiber'[f].at = "accept" /\ ssl'[On(f)].phase = "hello"
     \/ fiber'[f].at \in Resolving
     => f \in ctx_owners'
  /\ fiber'[f].at \in Activity \cup Resolving => ssl'[On(f)].phase \notin {"none", "closed"}
  /\ running = f
  /\ \/ running' = f /\ fiber'[f].at \notin {"ready", "waiting", "ended"}
     \/ running' = NoFiber /\ fiber'[f].at \notin Activity
  /\ UNCHANGED <<polls, queue>>

LEMMA FiberStep ==
  ASSUME IInv, NEW f \in Fibers, Effect(f)
  PROVE  IInv'
<1> USE DEF IInv, Effect, On, Phase
<1>1. SslType /\ FiberType /\ LoopType /\ NoFiber \notin Fibers
  BY TypeParts, TlsAssumption
<1>2. TypeOK'
  <2>1. LoopType'
    BY <1>1 DEF LoopType
  <2> QED
    BY <2>1, TypePartsNext
<1>3. \A g \in Fibers : g # f => /\ fiber[g].on # fiber[f].on /\ fiber[g].on \in Connections
                                /\ ssl'[fiber[g].on].phase = ssl[fiber[g].on].phase
  BY <1>1 DEF OwnConnections, FiberType, FiberState
<1>4. OwnConnections'
  BY DEF OwnConnections
<1>5. HandshakeHolds'
  BY <1>3 DEF HandshakeHolds
<1>6. OperationHasSsl'
  BY <1>3 DEF OperationHasSsl
<1>7. \A c \in Range(queue) : c.fiber \in Fibers \ {f}
  <2>1. Range(queue) \subseteq Queued
    BY <1>1, RangeOfSeq DEF LoopType
  <2> QED
    BY <2>1 DEF Queued, QueuedInv
<1>8. QueuedInv'
  BY <1>1, <1>7 DEF QueuedInv
<1>9. RunningInv'
  BY <1>1 DEF RunningInv
<1>10. \A p \in polls : p.fiber \in Fibers \ {f} /\ p.on = fiber[p.fiber].on
  BY <1>1 DEF LoopType, Polling, PollsInv
<1>11. PollsInv'
  BY <1>1, <1>3, <1>10 DEF PollsInv
<1>12. AwaitedInv'
  BY <1>1 DEF AwaitedInv, Suspended
<1> QED
  BY <1>2, <1>4, <1>5, <1>6, <1>8, <1>9, <1>11, <1>12
-------------------------------------------------------------------------------
(* One step per action of the running fiber.                               *)
LEMMA FiberEffect ==
  ASSUME IInv, NEW f \in Fibers,
         \/ JavaScript(f)
         \/ Primitive(f) /\ ~PerformSSLOperation(f)
  PROVE  Effect(f)
<1> USE DEF IInv, On, Phase, In, Proceeds
<1> DEFINE c == fiber[f].on
<1>1. NetType /\ SslType /\ FiberType /\ LoopType /\ Store \notin Fibers
  BY TypeParts, TlsAssumption
<1>2. /\ fiber \in [Fibers -> FiberState] /\ ssl \in [Connections -> Ssl]
      /\ c \in Connections /\ running \in Fibers \cup {NoFiber}
  BY <1>1 DEF FiberType, FiberState, SslType
<1>3. running = f
  BY DEF JavaScript, Primitive, EndFiber, CloseServer, TLS_Accept, TLS_AcceptThrows, TLS_Connect,
         Open, Use, ClientHello, ResolverBlocks, OnCertCallback, Finish, HandshakeFails,
         ReadEnd, TLS_Read, TLS_Write, SendCloseNotify, TLS_Close, BrokenPipe, ErrorOfAnother,
         Misled
<1>4. /\ fiber[f].at \in Resolving \/ (fiber[f].at = "accept" /\ ssl[c].phase = "hello")
           => f \in ctx_owners
      /\ fiber[f].at \in Activity \cup Resolving => ssl[c].phase \notin {"none", "closed"}
  BY DEF HandshakeHolds, OperationHasSsl
<1> DEFINE NewPhase(phase) == /\ ssl' \in [Connections -> Ssl]
                              /\ ssl'[c].phase = phase
                              /\ \A d \in Connections : d # c => ssl'[d].phase = ssl[d].phase
           NewActivity(at) == /\ fiber' \in [Fibers -> FiberState]
                              /\ fiber'[f].at = at
                              /\ \A g \in Fibers : fiber'[g].on = fiber[g].on
                              /\ \A g \in Fibers : g # f => fiber'[g] = fiber[g]
           Activities == Activity \cup {"ready", "js", "resolving", "waiting", "resolved", "ended"}
           Phases == {"none", "hello", "finish", "closed"} \cup Established
<1>5. ASSUME NEW at \in Activities, Now(f, at) PROVE NewActivity(at)
  BY <1>2, <1>5, NowStep
<1>6. ASSUME NEW phase \in Phases, Become(c, phase) PROVE NewPhase(phase)
  BY <1>2, <1>6, BecomeStep
<1>7. ASSUME NEW record, inbox[c] # <<>>, Consume(c) PROVE NetType'
  <2>1. inbox' \in [Connections -> Seq(Record)]
    <3>1. Tail(inbox[c]) \in Seq(Record)
      BY <1>1, <1>2, <1>7 DEF NetType
    <3> QED
      BY <1>1, <1>2, <1>7, <3>1 DEF NetType, Consume
  <2> QED
    BY <1>1, <1>7, <2>1 DEF NetType, Consume
<1>8. ASSUME SendOn(c) PROVE NetType'
  BY <1>1, <1>8 DEF NetType, SendOn
<1> HIDE DEF NewPhase, NewActivity, Activities, Phases
<1> USE <1>3, <1>4, <1>2
<1>10. CASE EndFiber(f)
  <2>1. NewActivity("ended")
    BY <1>5, <1>10 DEF EndFiber, Activities
  <2> QED
    BY <1>1, <1>10, <2>1 DEF EndFiber, Effect, NewActivity, netVars, NetType, SslType, FiberType,
                             LoopType, Resolving, Activity
<1>11. CASE CloseServer(f)
  BY <1>1, <1>11 DEF CloseServer, Effect, netVars, loopVars, NetType, SslType, FiberType, LoopType,
                     Resolving, Activity
<1>12. CASE TLS_Accept(f)
  <2>1. NewActivity("accept") /\ NewPhase("hello")
    BY <1>5, <1>6, <1>12 DEF TLS_Accept, Open, Activities, Activity, Phases, Become
  <2> QED
    BY <1>1, <1>12, <2>1 DEF TLS_Accept, Open, ContextKept, Effect, NewActivity, NewPhase, netVars,
                             loopVars, NetType, SslType, FiberType, LoopType, Resolving
<1>13. CASE TLS_AcceptThrows(f)
  <2>1. NewActivity("js") /\ NewPhase("closed")
    BY <1>5, <1>6, <1>13 DEF TLS_AcceptThrows, Open, Activities, Phases, Become
  <2> QED
    BY <1>1, <1>13, <2>1 DEF TLS_AcceptThrows, Open, Effect, NewActivity, NewPhase, netVars,
                             loopVars, NetType, SslType, FiberType, LoopType, Resolving, Activity
<1>14. CASE TLS_Connect(f)
  <2>1. NewActivity("connect") /\ NewPhase("finish")
    BY <1>5, <1>6, <1>14 DEF TLS_Connect, Open, Activities, Activity, Phases, Become
  <2> QED
    BY <1>1, <1>14, <2>1 DEF TLS_Connect, Open, Effect, NewActivity, NewPhase, netVars,
                             loopVars, NetType, SslType, FiberType, LoopType, Resolving, Activity
<1>15. ASSUME NEW activity \in {"read", "write", "close"}, Use(f, activity) PROVE Effect(f)
  <2>1. NewActivity(activity) /\ ssl[c].phase \in Established
    BY <1>5, <1>15 DEF Use, Activities, Activity
  <2>2. calls' \in [Connections -> 0 .. MaxCalls]
    BY <1>1, <1>15, TlsAssumption DEF Use, SslType
  <2> QED
    BY <1>1, <1>15, <2>1, <2>2 DEF Use, Effect, NewActivity, Established, netVars,
                             loopVars, NetType, SslType, FiberType, LoopType, Resolving, Activity
<1>16. CASE ClientHello(f)
  <2>1. NewActivity("resolving") /\ NetType'
    BY <1>5, <1>7, <1>16 DEF ClientHello, Arrived, Activities
  <2> QED
    BY <1>1, <1>16, <2>1 DEF ClientHello, Effect, NewActivity, loopVars, SslType, FiberType,
                             LoopType, Resolving, Activity
<1>17. CASE ResolverBlocks(f)
  <2>1. NewActivity("waiting")
    BY <1>5, <1>17 DEF ResolverBlocks, Activities
  <2> QED
    BY <1>1, <1>17, <2>1 DEF ResolverBlocks, Effect, NewActivity, netVars, NetType, SslType,
                             FiberType, LoopType, Resolving, Activity
<1>18. CASE OnCertCallback(f)
  <2>1. NewActivity("accept") /\ NewPhase("finish")
    BY <1>5, <1>6, <1>18 DEF OnCertCallback, Activities, Activity, Phases
  <2> QED
    BY <1>1, <1>18, <2>1 DEF OnCertCallback, Effect, NewActivity, NewPhase, netVars, loopVars,
                             NetType, SslType, FiberType, LoopType, Resolving, Activity
<1>19. CASE Finish(f)
  <2>1. NewActivity("js") /\ NewPhase("open") /\ NetType'
    BY <1>5, <1>6, <1>7, <1>19 DEF Finish, Arrived, Activities, Phases, Established
  <2> QED
    BY <1>1, <1>19, <2>1 DEF Finish, Effect, NewActivity, NewPhase, loopVars,
                             SslType, FiberType, LoopType, Resolving, Activity
<1>20. CASE HandshakeFails(f)
  <2>1. NewActivity("js") /\ NewPhase("closed")
    BY <1>5, <1>6, <1>20 DEF HandshakeFails, Activities, Phases
  <2> QED
    BY <1>1, <1>20, <2>1 DEF HandshakeFails, Effect, NewActivity, NewPhase, netVars,
                             NetType, SslType, FiberType, LoopType, Resolving, Activity
<1>21. CASE ReadEnd(f)
  <2>1. /\ NetType'
        /\ UNCHANGED <<calls, ctx_owners, fiber, polls, running, queue, stopped>>
        /\ fiber[f].at = "read"
    BY <1>7, <1>21 DEF ReadEnd, Arrived, loopVars
  <2>2. /\ ssl' \in [Connections -> Ssl]
        /\ ssl'[c].phase \in {ssl[c].phase} \cup Established
        /\ \A d \in Connections : d # c => ssl'[d].phase = ssl[d].phase
    BY <1>21 DEF ReadEnd, Ssl, Established, AfterEnd
  <2>3. errors' \in BOOLEAN
    BY <1>1, <1>21 DEF ReadEnd, MayLeaveErrors, SslType
  <2> QED
    BY <1>1, <2>1, <2>2, <2>3 DEF Effect, SslType, FiberType, LoopType, Resolving, Activity,
                                    Established
<1>22. CASE TLS_Read(f)
  <2>1. NewActivity("js")
    BY <1>5, <1>22 DEF TLS_Read, Activities
  <2>2. NetType'
    BY <1>1, <1>7, <1>22 DEF TLS_Read, Arrived, netVars, NetType
  <2>3. errors' \in BOOLEAN
    BY <1>1, <1>22 DEF TLS_Read, MayLeaveErrors, SslType
  <2> QED
    BY <1>1, <1>22, <2>1, <2>2, <2>3 DEF TLS_Read, Effect, NewActivity, loopVars, SslType, FiberType,
                                   LoopType, Resolving, Activity
<1>23. CASE TLS_Write(f)
  <2>1. NewActivity("js")
    BY <1>5, <1>23 DEF TLS_Write, Activities
  <2>2. NetType'
    BY <1>1, <1>8, <1>23 DEF TLS_Write, netVars, NetType
  <2>3. NewPhase("reset") \/ UNCHANGED ssl
    BY <1>6, <1>23 DEF TLS_Write, Phases, Established
  <2>4. errors' \in BOOLEAN
    BY <1>1, <1>23 DEF TLS_Write, MayLeaveErrors, SslType
  <2> QED
    BY <1>1, <1>23, <2>1, <2>2, <2>3, <2>4 DEF TLS_Write, Effect, NewActivity, NewPhase, loopVars,
                                         SslType, FiberType, LoopType, Resolving, Activity
<1>24. CASE SendCloseNotify(f)
  <2>1. /\ NetType'
        /\ UNCHANGED <<calls, errors, ctx_owners, fiber, polls, running, queue, stopped>>
        /\ fiber[f].at = "close"
    BY <1>8, <1>24 DEF SendCloseNotify, loopVars
  <2>2. /\ ssl' \in [Connections -> Ssl]
        /\ \A d \in Connections : ssl'[d].phase = ssl[d].phase
    BY <1>24 DEF SendCloseNotify, Ssl
  <2> QED
    BY <1>1, <2>1, <2>2 DEF Effect, SslType, FiberType, LoopType, Resolving, Activity
<1>25. CASE TLS_Close(f)
  <2>1. NewActivity("js") /\ NewPhase("closed")
    BY <1>5, <1>6, <1>25 DEF TLS_Close, Activities, Phases
  <2>2. errors' \in BOOLEAN
    BY <1>1, <1>25 DEF TLS_Close, MayLeaveErrors, SslType
  <2> QED
    BY <1>1, <1>25, <2>1, <2>2 DEF TLS_Close, Effect, NewActivity, NewPhase, netVars, loopVars,
                             NetType, SslType, FiberType, LoopType, Resolving, Activity
<1>26. CASE BrokenPipe(f)
  BY <1>1, <1>26 DEF BrokenPipe, Effect, netVars, NetType, SslType, FiberType, LoopType,
                     Resolving, Activity
<1>27. CASE ErrorOfAnother(f)
  <2>1. NewActivity("js")
    BY <1>5, <1>27 DEF ErrorOfAnother, Activities
  <2>2. NewPhase("closed") \/ UNCHANGED ssl
    BY <1>6, <1>27 DEF ErrorOfAnother, Phases
  <2> QED
    BY <1>1, <1>27, <2>1, <2>2 DEF ErrorOfAnother, Effect, NewActivity, NewPhase, netVars,
                                   loopVars, NetType, SslType, FiberType, LoopType, Resolving,
                                   Activity
<1> QED
  BY <1>10, <1>11, <1>12, <1>13, <1>14, <1>15, <1>16, <1>17, <1>18, <1>19, <1>20, <1>21, <1>22,
     <1>23, <1>24, <1>25, <1>26, <1>27 DEF JavaScript, Primitive

(* What waits in the queue, by its type.                                   *)
LEMMA QueueType ==
  ASSUME TypeOK
  PROVE  \A c \in Range(queue) : c \in Queued /\ c.fiber \in Fibers
<1>1. queue \in Seq(Queued)
  BY TypeParts DEF LoopType
<1>2. Range(queue) \subseteq Queued
  BY <1>1, RangeOfSeq
<1> QED
  BY <1>2 DEF Queued

(* The running fiber begins to wait for its descriptor.                    *)
LEMMA PollStep ==
  ASSUME IInv, NEW f \in Fibers, PerformSSLOperation(f)
  PROVE  IInv'
<1> USE DEF IInv, On, Phase
<1> DEFINE p == [fiber |-> f, on |-> fiber[f].on, events |-> Wants(f)]
<1>1. /\ NetType /\ SslType /\ FiberType /\ LoopType
      /\ NoFiber \notin Fibers
  BY TypeParts, TlsAssumption
<1>2. /\ polls' = polls \cup {p} /\ running = f /\ running' = NoFiber
      /\ fiber[f].at \in Activity /\ Wants(f) # "nothing"
      /\ errors' = FALSE
      /\ UNCHANGED <<peer, sent, inbox, writable, ssl, calls, ctx_owners, fiber, queue, stopped>>
  BY DEF PerformSSLOperation, Events, In, netVars
<1>3. Wants(f) \in {"nothing", "read", "write"}
  BY DEF Wants
<1>4. p \in Polling /\ p.fiber = f /\ p.on = fiber[f].on
  BY <1>1, <1>2, <1>3 DEF Polling, FiberType, FiberState
<1> HIDE DEF p
<1>5. TypeOK'
  <2>1. NetType' /\ SslType' /\ FiberType' /\ LoopType'
    BY <1>1, <1>2, <1>4 DEF NetType, SslType, FiberType, LoopType
  <2> QED
    BY <2>1, TypePartsNext
<1>6. OwnConnections' /\ HandshakeHolds' /\ OperationHasSsl' /\ RunningInv'
  BY <1>2 DEF OwnConnections, HandshakeHolds, OperationHasSsl, RunningInv
<1>7. QueuedInv'
  BY <1>1, <1>2, QueueType DEF QueuedInv
<1>8. PollsInv'
  <2>1. \A q \in polls : q.fiber \in Fibers \ {f}
    BY <1>1, <1>2 DEF PollsInv, LoopType, Polling
  <2>2. ssl[p.on].phase \notin {"none", "closed"}
    BY <1>2, <1>4 DEF OperationHasSsl
  <2>3. \A c \in Range(queue) : c.fiber # f
    BY <1>2 DEF QueuedInv
  <2> QED
    BY <1>1, <1>2, <1>4, <2>1, <2>2, <2>3 DEF PollsInv
<1>9. AwaitedInv'
  BY <1>2, <1>4 DEF AwaitedInv, Suspended
<1> QED
  BY <1>5, <1>6, <1>7, <1>8, <1>9

(* A fiber enters the queue: OnPoll, ResolverReady.                        *)
LEMMA EnqueueStep ==
  ASSUME IInv, NEW f \in Fibers, \A c \in Range(queue) : c.fiber # f,
         fiber'[f].at \in Activity \cup {"resolved"}, running # f,
         NEW error \in BOOLEAN, queue' = Append(queue, [fiber |-> f, error |-> error]),
         \A g \in Fibers : g # f => fiber'[g] = fiber[g], UNCHANGED running
  PROVE  /\ queue' \in Seq(Queued) /\ QueuedInv'
         /\ \A c \in Range(queue') : c.fiber = f \/ c \in Range(queue)
         /\ Range(queue) \subseteq Range(queue') /\ \E c \in Range(queue') : c.fiber = f
<1> USE DEF IInv
<1> DEFINE new == [fiber |-> f, error |-> error]
<1>1. queue \in Seq(Queued) /\ new \in Queued /\ new.fiber = f
  BY TypeParts DEF LoopType, Queued
<1>2. queue' = Append(queue, new)
  OBVIOUS
<1> HIDE DEF new
<1>3. queue' \in Seq(Queued)
  BY <1>1, <1>2
<1>4. Range(queue') = Range(queue) \cup {new} /\ IsInjective(queue')
  <2>1. new \notin Range(queue)
    BY <1>1
  <2> QED
    BY <1>1, <1>2, <2>1, RangeAppend DEF QueuedInv
<1>5. QueuedInv'
  BY <1>1, <1>4, QueueType DEF QueuedInv
<1> QED
  BY <1>1, <1>3, <1>4, <1>5

LEMMA OnPollStep ==
  ASSUME IInv, NEW f \in Fibers, OnPoll(f)
  PROVE  IInv'
<1> USE DEF IInv, On, Phase
<1>1. /\ NetType /\ SslType /\ FiberType /\ LoopType
      /\ NoFiber \notin Fibers
  BY TypeParts, TlsAssumption
<1>2. /\ running = NoFiber
      /\ UNCHANGED <<peer, sent, inbox, writable, ssl, calls, errors, ctx_owners, fiber, running, stopped>>
  BY DEF OnPoll, LoopRuns, netVars
<1>3. PICK p \in polls :
        /\ p.fiber = f /\ polls' = polls \ {p}
        /\ queue' = Append(queue, [fiber |-> f, error |-> WasReset(p.on)])
  BY DEF OnPoll, Stop, ContextOf
<1>4. /\ fiber[f].at \in Activity /\ fiber[f].on = p.on
      /\ \A c \in Range(queue) : c.fiber # f
  BY <1>3 DEF PollsInv
<1>5. WasReset(p.on) \in BOOLEAN
  BY DEF WasReset
<1>6. /\ queue' \in Seq(Queued) /\ QueuedInv'
      /\ \A c \in Range(queue') : c.fiber = f \/ c \in Range(queue)
      /\ Range(queue) \subseteq Range(queue') /\ \E c \in Range(queue') : c.fiber = f
  BY <1>1, <1>2, <1>3, <1>4, <1>5, EnqueueStep
<1>7. TypeOK'
  <2>1. NetType' /\ SslType' /\ FiberType' /\ LoopType'
    BY <1>1, <1>2, <1>3, <1>6 DEF NetType, SslType, FiberType, LoopType
  <2> QED
    BY <2>1, TypePartsNext
<1>8. OwnConnections' /\ HandshakeHolds' /\ OperationHasSsl' /\ RunningInv'
  BY <1>2 DEF OwnConnections, HandshakeHolds, OperationHasSsl, RunningInv
<1>9. PollsInv'
  <2>1. \A q \in polls' : q \in polls /\ q.fiber # f
    BY <1>3 DEF PollsInv
  <2> QED
    BY <1>2, <1>6, <2>1 DEF PollsInv
<1>10. AwaitedInv'
  BY <1>2, <1>3, <1>6 DEF AwaitedInv, Suspended
<1> QED
  BY <1>6, <1>7, <1>8, <1>9, <1>10

LEMMA ResolverStep ==
  ASSUME IInv, NEW f \in Fibers, ResolverReady(f)
  PROVE  IInv'
<1> USE DEF IInv, On, Phase
<1>1. /\ NetType /\ SslType /\ FiberType /\ LoopType
      /\ NoFiber \notin Fibers
  BY TypeParts, TlsAssumption
<1>2. /\ running = NoFiber /\ fiber[f].at = "waiting" /\ Now(f, "resolved")
      /\ queue' = Append(queue, [fiber |-> f, error |-> FALSE])
      /\ UNCHANGED <<peer, sent, inbox, writable, ssl, calls, errors, ctx_owners, polls, running, stopped>>
  BY DEF ResolverReady, LoopRuns, netVars
<1>3. /\ fiber' \in [Fibers -> FiberState] /\ fiber'[f].at = "resolved"
      /\ \A g \in Fibers : fiber'[g].on = fiber[g].on
      /\ \A g \in Fibers : g # f => fiber'[g] = fiber[g]
  BY <1>1, <1>2, NowStep DEF FiberType
<1>4. /\ \A c \in Range(queue) : c.fiber # f
      /\ \A p \in polls : p.fiber # f /\ p.fiber \in Fibers
  BY <1>1, <1>2 DEF QueuedInv, PollsInv, Activity, LoopType, Polling
<1>5. /\ queue' \in Seq(Queued) /\ QueuedInv'
      /\ \A c \in Range(queue') : c.fiber = f \/ c \in Range(queue)
      /\ Range(queue) \subseteq Range(queue') /\ \E c \in Range(queue') : c.fiber = f
  BY <1>1, <1>2, <1>3, <1>4, EnqueueStep
<1>6. TypeOK'
  <2>1. NetType' /\ SslType' /\ FiberType' /\ LoopType'
    BY <1>1, <1>2, <1>3, <1>5 DEF NetType, SslType, FiberType, LoopType
  <2> QED
    BY <2>1, TypePartsNext
<1>7. OwnConnections' /\ HandshakeHolds' /\ OperationHasSsl' /\ RunningInv'
  BY <1>1, <1>2, <1>3 DEF OwnConnections, HandshakeHolds, OperationHasSsl, RunningInv, Resolving,
                          Activity
<1>8. PollsInv'
  BY <1>2, <1>3, <1>4, <1>5 DEF PollsInv
<1>9. AwaitedInv'
  BY <1>2, <1>3, <1>5 DEF AwaitedInv, Suspended, Activity
<1> QED
  BY <1>5, <1>6, <1>7, <1>8, <1>9

(* A fiber starts, or the next fiber of the queue goes on.                 *)
LEMMA RunStep ==
  ASSUME IInv, NEW f \in Fibers, Fiber_Run(f)
  PROVE  IInv'
<1> USE DEF IInv, On, Phase
<1>1. /\ NetType /\ SslType /\ FiberType /\ LoopType
      /\ NoFiber \notin Fibers
  BY TypeParts, TlsAssumption
<1>2. /\ running = NoFiber /\ running' = f /\ fiber[f].at = "ready" /\ Now(f, "js")
      /\ UNCHANGED <<peer, sent, inbox, writable, ssl, calls, errors, ctx_owners, polls, queue, stopped>>
  BY DEF Fiber_Run, netVars
<1>3. /\ fiber' \in [Fibers -> FiberState] /\ fiber'[f].at = "js"
      /\ \A g \in Fibers : fiber'[g].on = fiber[g].on
      /\ \A g \in Fibers : g # f => fiber'[g] = fiber[g]
  BY <1>1, <1>2, NowStep DEF FiberType
<1>4. /\ \A c \in Range(queue) : c.fiber # f /\ c.fiber \in Fibers
      /\ \A p \in polls : p.fiber # f /\ p.fiber \in Fibers
  BY <1>1, <1>2, QueueType DEF QueuedInv, PollsInv, Activity, LoopType, Polling
<1>5. TypeOK'
  <2>1. NetType' /\ SslType' /\ FiberType' /\ LoopType'
    BY <1>1, <1>2, <1>3 DEF NetType, SslType, FiberType, LoopType
  <2> QED
    BY <2>1, TypePartsNext
<1>6. OwnConnections' /\ HandshakeHolds' /\ OperationHasSsl' /\ RunningInv'
  BY <1>1, <1>2, <1>3 DEF OwnConnections, HandshakeHolds, OperationHasSsl, RunningInv, Resolving,
                          Activity
<1>7. QueuedInv' /\ PollsInv'
  BY <1>2, <1>3, <1>4 DEF QueuedInv, PollsInv
<1>8. AwaitedInv'
  BY <1>1, <1>2, <1>3 DEF AwaitedInv, Suspended, Activity
<1> QED
  BY <1>5, <1>6, <1>7, <1>8

LEMMA ResumeStep ==
  ASSUME IInv, ResumeNext
  PROVE  IInv'
<1> USE DEF IInv, On, Phase
<1> DEFINE h == Head(queue)
<1>1. /\ NetType /\ SslType /\ FiberType /\ LoopType
      /\ NoFiber \notin Fibers
  BY TypeParts, TlsAssumption
<1>2. /\ running = NoFiber /\ queue # <<>> /\ running' = h.fiber /\ stopped' = h.error /\ queue' = Tail(queue)
      /\ UNCHANGED <<peer, sent, inbox, writable, ssl, calls, errors, ctx_owners, fiber, polls>>
  BY DEF ResumeNext, LoopRuns, netVars
<1>3. /\ queue \in Seq(Queued) /\ queue' \in Seq(Queued) /\ h \in Queued
      /\ Range(queue) = {h} \cup Range(queue')
      /\ h \notin Range(queue') /\ IsInjective(queue')
  BY <1>1, <1>2, RangeTail DEF LoopType, QueuedInv
<1> HIDE DEF h
<1>4. h.fiber \in Fibers /\ h.error \in BOOLEAN
  BY <1>3 DEF Queued
<1>5. TypeOK'
  <2>1. NetType' /\ SslType' /\ FiberType' /\ LoopType'
    BY <1>1, <1>2, <1>3, <1>4 DEF NetType, SslType, FiberType, LoopType
  <2> QED
    BY <2>1, TypePartsNext
<1>6. OwnConnections' /\ HandshakeHolds' /\ OperationHasSsl'
  BY <1>2 DEF OwnConnections, HandshakeHolds, OperationHasSsl
<1>7. QueuedInv' /\ PollsInv'
  BY <1>2, <1>3 DEF QueuedInv, PollsInv
<1>8. RunningInv'
  BY <1>2, <1>3 DEF RunningInv, QueuedInv, Activity
<1>9. AwaitedInv'
  BY <1>1, <1>2, <1>3 DEF AwaitedInv, Suspended
<1> QED
  BY <1>5, <1>6, <1>7, <1>8, <1>9

(* The peer sends a record, or acknowledges what it has received.          *)
LEMMA NetworkStep ==
  ASSUME IInv, NEW c \in Connections, Network(c)
  PROVE  IInv'
<1> USE DEF IInv, On, Phase
<1>1. /\ NetType /\ SslType /\ FiberType /\ LoopType
  BY TypeParts
<1>2. UNCHANGED <<ssl, calls, errors, ctx_owners, fiber, polls, running, queue, stopped>>
  BY DEF Network, Peer, Drain, loopVars
<1>3. NetType'
  <2>1. CASE Drain(c)
    BY <1>1, <2>1 DEF Drain, NetType
  <2>2. ASSUME NEW record \in Record, Peer(c, record) PROVE NetType'
    <3>1. inbox' \in [Connections -> Seq(Record)]
      BY <1>1, <2>2 DEF Peer, NetType
    <3>2. sent' \in [Connections -> 0 .. MaxRecords]
      <4>1. sent[c] \in 0 .. MaxRecords
        BY <1>1 DEF NetType
      <4>2. sent[c] < MaxRecords => sent[c] + 1 \in 0 .. MaxRecords
        BY <4>1, TlsAssumption
      <4> QED
        BY <1>1, <2>2, <4>2 DEF Peer, NetType
    <3>3. peer' \in [Connections -> {"open", "closed", "gone"}] /\ UNCHANGED writable
      BY <1>1, <2>2 DEF Peer, NetType
    <3> QED
      BY <1>1, <3>1, <3>2, <3>3 DEF NetType
  <2> QED
    BY <2>1, <2>2 DEF Network
<1>4. TypeOK'
  <2>1. SslType' /\ FiberType' /\ LoopType'
    BY <1>1, <1>2 DEF SslType, FiberType, LoopType
  <2> QED
    BY <1>3, <2>1, TypePartsNext
<1> QED
  BY <1>2, <1>4 DEF OwnConnections, HandshakeHolds, OperationHasSsl, QueuedInv, PollsInv,
                      AwaitedInv, Suspended, RunningInv

LEMMA StepInv == IInv /\ [Next]_vars => IInv'
<1> SUFFICES ASSUME IInv, [Next]_vars PROVE IInv'
  OBVIOUS
<1>1. CASE UNCHANGED vars
  BY <1>1, Zenon DEF vars, netVars, loopVars, IInv, TypeOK, OwnConnections, HandshakeHolds,
              OperationHasSsl, QueuedInv, PollsInv, AwaitedInv, Suspended, RunningInv, On, Phase
<1>2. ASSUME NEW f \in Fibers, Fiber(f) PROVE IInv'
  <2>1. CASE JavaScript(f) \/ (Primitive(f) /\ ~PerformSSLOperation(f))
    BY <2>1, FiberEffect, FiberStep
  <2> QED
    BY <1>2, <2>1, RunStep, PollStep DEF Fiber
<1>3. ASSUME NEW f \in Fibers, OnPoll(f) \/ ResolverReady(f) PROVE IInv'
  BY <1>3, OnPollStep, ResolverStep
<1>4. ASSUME NEW c \in Connections, Network(c) PROVE IInv'
  BY <1>4, NetworkStep
<1> QED
  BY <1>1, <1>2, <1>3, <1>4, ResumeStep DEF Next

LEMMA Invariant == Spec => []IInv
  BY InitInv, StepInv, PTL DEF Spec
-------------------------------------------------------------------------------
(* Every variable of the TLS model keeps its type.                         *)
THEOREM TlsTypeCorrect == Spec => []TypeOK
<1>1. IInv => TypeOK
  BY DEF IInv
<1> QED
  BY <1>1, Invariant, PTL

(* Whenever OnCertCallback may be called, or its resolver runs, the        *)
(* TLSContextHandle of the server exists, also after TLSServer.close.      *)
THEOREM ResolverHasContext == Spec => []CallbackHasContext
<1>1. IInv => CallbackHasContext
  BY DEF IInv, HandshakeHolds, CallbackHasContext, Resolving
<1> QED
  BY <1>1, Invariant, PTL

(* A fiber suspended in an operation on its own connection is waited for   *)
(* in exactly one place, by a poll of that connection, which is open, or   *)
(* by an entry of the queue: something will resume it, and once.           *)
THEOREM SuspendedFiberIsAwaited == Spec => []SuspendedInOnePlace
<1>1. ASSUME IInv PROVE SuspendedInOnePlace
  <2>1. queue \in Seq(Queued) /\ LoopType
    BY <1>1, TypeParts DEF IInv, LoopType
  <2>2. ASSUME NEW f \in Fibers
        PROVE  /\ \A p, q \in PollsOf(f) : p = q /\ p.on = On(f)
               /\ PollsOf(f) # {} => Suspended(f) /\ Phase(On(f)) \notin {"none", "closed"}
    BY <1>1 DEF IInv, PollsInv, PollsOf, Suspended
  <2>3. ASSUME NEW f \in Fibers PROVE \A i, j \in EntriesOf(f) : i = j
    BY <1>1, <2>1 DEF IInv, QueuedInv, EntriesOf, Range, IsInjective
  <2>4. ASSUME NEW f \in Fibers, Suspended(f) PROVE (PollsOf(f) = {}) # (EntriesOf(f) = {})
    BY <1>1, <2>1, <2>4 DEF IInv, AwaitedInv, PollsInv, PollsOf, EntriesOf, Range
  <2> QED
    BY <2>2, <2>3, <2>4 DEF SuspendedInOnePlace
<1> QED
  BY <1>1, Invariant, PTL
===============================================================================
