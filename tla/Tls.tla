---------------------------------- MODULE Tls ---------------------------------
(***************************************************************************)
(* TLS connections: primitives_tls.cpp, TLSSocket and TLSServer of         *)
(* stdlib.js.  OpenSSL works on the descriptor of a connected TCP socket.  *)
(* When it has to wait, PerformSSLOperation calls TCP_Poll, which yields   *)
(* until the descriptor is ready, and the operation is tried again; a      *)
(* result of 0 is tried again at once.  Each fiber has a connection of its *)
(* own.  Fibers run one at a time, see FiberScheduler, whose two queues    *)
(* are one here; the script starts every fiber before uv_run begins.  All  *)
(* fibers are one thread to OpenSSL and share its error queue.  What       *)
(* SSL_read makes of a FIN is that of OpenSSL 3.                           *)
(***************************************************************************)
EXTENDS Naturals, Sequences, Functions, FiniteSets

CONSTANTS Fibers, NoFiber,
          Connections,   \* connected TCP sockets
          Clients,       \* those of TLSSocket.connect; TLSServer has the others
          PeerSends,     \* how peers may end a connection on their own
          MaxRecords,    \* bound: handshake flights and data records of a peer
          MaxCalls       \* bound: reads and writes of a connection

Record == {"flight", "data", "close_notify", "fin", "reset"}

Store == "store"

ASSUME TlsAssumption ==
  /\ NoFiber \notin Fibers /\ Store \notin Fibers
  /\ Clients \subseteq Connections
  /\ \E on \in [Fibers -> Connections] : IsInjective(on)
  /\ PeerSends \subseteq {"close_notify", "fin", "reset"}
  /\ MaxRecords \in Nat /\ MaxCalls \in Nat

VARIABLES peer,        \* "open", "closed" after close_notify, "gone" after the end
          sent,        \* flights and data records the peer has sent
          inbox,       \* what arrived and OpenSSL has not read
          writable,    \* connections whose send buffer has room
          ssl,         \* the SSL of each connection: [phase, sent_close, got_close]
          calls,       \* reads and writes so far
          errors,      \* the thread's queue of OpenSSL errors is not empty
          ctx_owners,  \* who holds a shared_ptr to the server's TLSContextHandle
          fiber,       \* what each fiber does: [at, on]
          polls,       \* active uv_poll_t: [fiber, on, events]
          running, queue,
          stopped      \* the process has been aborted or killed, or may do anything

netVars == <<peer, sent, inbox, writable>>
loopVars == <<polls, running, queue, stopped>>
vars == <<netVars, ssl, calls, errors, ctx_owners, fiber, loopVars>>

Activity == {"accept", "connect", "read", "write", "close"}
Established == {"open", "broken", "reset"}   \* the TLSHandle is in the store

(* The script has called TLSServer.listen: TLS_CreateContext has stored    *)
(* the context with the resolver.                                          *)
Init ==
  /\ peer = [c \in Connections |-> "open"] /\ sent = [c \in Connections |-> 0]
  /\ inbox = [c \in Connections |-> <<>>] /\ writable = Connections
  /\ ssl = [c \in Connections |->
              [phase |-> "none", sent_close |-> FALSE, got_close |-> FALSE]]
  /\ calls = [c \in Connections |-> 0] /\ errors = FALSE
  /\ ctx_owners = {Store}
  /\ LET own == CHOOSE on \in [Fibers -> Connections] : IsInjective(on)
     IN  fiber = [f \in Fibers |-> [at |-> "ready", on |-> own[f]]]
  /\ polls = {} /\ running = NoFiber /\ queue = <<>> /\ stopped = FALSE

Phase(c) == ssl[c].phase
On(f) == fiber[f].on
Now(f, at) == fiber' = [fiber EXCEPT ![f].at = at]
In(f, activities) == running = f /\ ~stopped /\ fiber[f].at \in activities
LoopRuns == running = NoFiber /\ \A f \in Fibers : fiber[f].at # "ready"

Fiber_Run(f) ==
  /\ running = NoFiber
  /\ fiber[f].at = "ready"
  /\ Now(f, "js")
  /\ running' = f
  /\ UNCHANGED <<netVars, ssl, calls, errors, ctx_owners, polls, queue, stopped>>

EndFiber(f) ==
  /\ In(f, {"js"})
  /\ Now(f, "ended")
  /\ running' = NoFiber
  /\ UNCHANGED <<netVars, ssl, calls, errors, ctx_owners, polls, queue, stopped>>

NoContextKept(f) == ctx_owners

(* `auto tls_ctx' stays on the stack of TLS_Accept.                        *)
ContextKept(f) == ctx_owners \cup {f}

(* TLS_Accept and TLS_Connect make the SSL and its TLSHandle `sock'.       *)
Open(f, activity, phase) ==
  /\ In(f, {"js"})
  /\ Phase(On(f)) = "none"
  /\ ssl' = [ssl EXCEPT ![On(f)].phase = phase]
  /\ Now(f, activity)
  /\ UNCHANGED <<netVars, calls, errors, loopVars>>

TLS_Accept(f) ==
  /\ On(f) \notin Clients
  /\ Store \in ctx_owners
  /\ Open(f, "accept", "hello")
  /\ ctx_owners' = ContextKept(f)

(* The id of a closed TLSServer is invalid; the server's iterator catches  *)
(* the error and closes the TCP socket.                                    *)
TLS_AcceptThrows(f) ==
  /\ On(f) \notin Clients
  /\ Store \notin ctx_owners
  /\ Open(f, "js", "closed")
  /\ UNCHANGED ctx_owners

TLS_Connect(f) ==
  /\ On(f) \in Clients
  /\ Open(f, "connect", "finish")
  /\ UNCHANGED ctx_owners

(* TLS_Read, TLS_Write and TLS_Close.                                      *)
Use(f, activity) ==
  /\ In(f, {"js"})
  /\ Phase(On(f)) \in Established
  /\ activity # "close" => calls[On(f)] < MaxCalls
  /\ calls' = [calls EXCEPT ![On(f)] = IF activity = "close" THEN @ ELSE @ + 1]
  /\ Now(f, activity)
  /\ UNCHANGED <<netVars, ssl, errors, ctx_owners, loopVars>>

(* TLSServer.close: handles.free of the context, also by the resolver.     *)
CloseServer(f) ==
  /\ In(f, {"js", "resolving", "resolved"})
  /\ Store \in ctx_owners
  /\ ctx_owners' = ctx_owners \ {Store}
  /\ UNCHANGED <<netVars, ssl, calls, errors, fiber, loopVars>>
-------------------------------------------------------------------------------
(* What OpenSSL has to wait for before it can go on.  The flights of a     *)
(* handshake always find room in the send buffer.                          *)
Sends(f) == fiber[f].at = "write" \/ (fiber[f].at = "close" /\ ~ssl[On(f)].sent_close)
Receives(f) == fiber[f].at \in {"accept", "connect", "read"}
                 \/ (fiber[f].at = "close" /\ ssl[On(f)].sent_close)
Fails(c) == Phase(c) \in {"broken", "reset"}
Arrived(c, records) == inbox[c] # <<>> /\ Head(inbox[c]) \in records
WasReset(c) == "reset" \in Range(inbox[c])

Wants(f) ==
  LET c == On(f) IN
  CASE Fails(c) -> "nothing"
    [] Sends(f) /\ c \notin writable /\ ~WasReset(c) -> "write"
    [] Receives(f) /\ inbox[c] = <<>> /\ ~ssl[c].got_close -> "read"
    [] OTHER -> "nothing"

EventsSwapped(want) == IF want = "read" THEN "write" ELSE "read"

(* SSL_ERROR_WANT_READ is UV_READABLE, SSL_ERROR_WANT_WRITE UV_WRITABLE.   *)
Events(want) == want

(* SSL_connect clears the queue of errors, and so does SSL_accept, which   *)
(* does not when it goes on after the resolver; the others never do.       *)
ClearsErrors(f) == \/ fiber[f].at = "connect"
                   \/ fiber[f].at = "accept" /\ Phase(On(f)) = "hello"

(* SSL_get_error says SSL_ERROR_SSL, and not that OpenSSL wants to wait,   *)
(* when an operation on another connection has left an error in the queue. *)
Misled(f) == In(f, Activity) /\ Wants(f) # "nothing" /\ errors /\ ~ClearsErrors(f)
MayLeaveErrors == errors' \in {errors, TRUE}

(* PerformSSLOperation calls TCP_Poll, which starts a uv_poll_t and yields.*)
PerformSSLOperation(f) ==
  /\ In(f, Activity)
  /\ Wants(f) # "nothing" /\ ~Misled(f)
  /\ errors' = FALSE
  /\ polls' = polls \cup {[fiber |-> f, on |-> On(f), events |-> Events(Wants(f))]}
  /\ running' = NoFiber
  /\ UNCHANGED <<netVars, ssl, calls, ctx_owners, fiber, queue, stopped>>

Proceeds(f, activities) == In(f, activities) /\ Wants(f) = "nothing"
Consume(c) == inbox' = [inbox EXCEPT ![c] = Tail(@)] /\ UNCHANGED <<peer, sent, writable>>
Become(c, phase) == ssl' = [ssl EXCEPT ![c].phase = phase]

(* The operation fails for the error of another connection: TLS_Read       *)
(* returns -1, TLS_Write throws, TLS_Close removes the handle.             *)
ErrorOfAnother(f) ==
  /\ Misled(f)
  /\ \/ fiber[f].at \in {"read", "write"} /\ UNCHANGED ssl
     \/ fiber[f].at = "close" /\ Become(On(f), "closed")
  /\ Now(f, "js")
  /\ UNCHANGED <<netVars, calls, errors, ctx_owners, loopVars>>

(* SSL_accept reads a ClientHello and calls OnCertCallback, which calls    *)
(* the resolver.                                                           *)
ClientHello(f) ==
  /\ Proceeds(f, {"accept"})
  /\ Phase(On(f)) = "hello" /\ Arrived(On(f), {"flight"})
  /\ Consume(On(f))
  /\ Now(f, "resolving")
  /\ errors' = FALSE
  /\ UNCHANGED <<ssl, calls, ctx_owners, loopVars>>

(* The resolver is JavaScript and may call a primitive that blocks.        *)
ResolverBlocks(f) ==
  /\ In(f, {"resolving"})
  /\ Now(f, "waiting")
  /\ running' = NoFiber
  /\ UNCHANGED <<netVars, ssl, calls, errors, ctx_owners, polls, queue, stopped>>

(* It has returned a key and a certificate.                                *)
OnCertCallback(f) ==
  /\ In(f, {"resolving", "resolved"})
  /\ Become(On(f), "finish")
  /\ Now(f, "accept")
  /\ UNCHANGED <<netVars, calls, errors, ctx_owners, loopVars>>

(* The last flight: HandleStore::Add(sock).                                *)
Finish(f) ==
  /\ Proceeds(f, {"accept", "connect"})
  /\ Phase(On(f)) = "finish" /\ Arrived(On(f), {"flight"})
  /\ Consume(On(f))
  /\ Become(On(f), "open")
  /\ ctx_owners' = ctx_owners \ {f}
  /\ Now(f, "js")
  /\ errors' = FALSE \/ (fiber[f].at = "accept" /\ UNCHANGED errors)
  /\ UNCHANGED <<calls, loopVars>>

(* The handshake fails, or the resolver has thrown, or found no            *)
(* certificate (SSL_TLSEXT_ERR_NOACK).  SSL_free and then ~TLSHandle       *)
(* release the same reference, which is undefined; when the process        *)
(* survives it, JavaScript catches the error and closes the TCP socket.    *)
HandshakeFails(f) ==
  /\ \/ Proceeds(f, {"accept", "connect"}) /\ Arrived(On(f), Record \ {"flight"})
     \/ In(f, {"resolving", "resolved"})
     \/ Misled(f) /\ fiber[f].at = "accept"
  /\ Become(On(f), "closed")
  /\ ctx_owners' = ctx_owners \ {f}
  /\ Now(f, "js")
  /\ stopped' \in BOOLEAN /\ errors' \in BOOLEAN
  /\ UNCHANGED <<netVars, calls, polls, running, queue>>

EndWithoutError(record) == "open"

(* What ends a connection.  At a FIN SSL_read returns 0 at first, which is *)
(* tried again and then fails.                                             *)
AfterEnd(record) == IF record = "reset" THEN "reset" ELSE "broken"

(* SSL_read meets the end of the connection; after a close_notify it       *)
(* returns 0 for ever, and PerformSSLOperation takes that for "retry".     *)
ReadEnd(f) ==
  LET c == On(f) IN
  /\ Proceeds(f, {"read"})
  /\ Arrived(c, {"close_notify", "fin", "reset"})
  /\ Consume(c)
  /\ ssl' = IF Head(inbox[c]) = "close_notify"
              THEN [ssl EXCEPT ![c].got_close = TRUE]
              ELSE [ssl EXCEPT ![c].phase = AfterEnd(Head(inbox[c]))]
  /\ UNCHANGED errors \/ (Head(inbox[c]) = "fin" /\ MayLeaveErrors)
  /\ UNCHANGED <<calls, ctx_owners, fiber, loopVars>>

(* TLS_Read returns data, or -1 for every error.                           *)
TLS_Read(f) ==
  /\ Proceeds(f, {"read"})
  /\ \/ Fails(On(f)) /\ MayLeaveErrors /\ UNCHANGED netVars
     \/ Arrived(On(f), {"data"}) /\ Consume(On(f)) /\ UNCHANGED errors
  /\ Now(f, "js")
  /\ UNCHANGED <<ssl, calls, ctx_owners, loopVars>>

(* What is sent may fill the send buffer.                                  *)
SendOn(c) == writable' \in {writable, writable \ {c}} /\ UNCHANGED <<peer, sent, inbox>>

(* TLS_Write returns, or throws.                                           *)
TLS_Write(f) ==
  LET c == On(f) IN
  /\ Proceeds(f, {"write"})
  /\ Phase(c) # "reset"
  /\ \/ Fails(c) /\ MayLeaveErrors /\ UNCHANGED <<netVars, ssl>>
     \/ ~Fails(c) /\ WasReset(c) /\ Become(c, "reset") /\ MayLeaveErrors /\ UNCHANGED netVars
     \/ ~Fails(c) /\ ~WasReset(c) /\ SendOn(c) /\ UNCHANGED <<ssl, errors>>
  /\ Now(f, "js")
  /\ UNCHANGED <<calls, ctx_owners, loopVars>>

(* The first SSL_shutdown sends close_notify and returns 0.                *)
SendCloseNotify(f) ==
  LET c == On(f) IN
  /\ Proceeds(f, {"close"})
  /\ Phase(c) = "open" /\ ~ssl[c].sent_close /\ ~WasReset(c)
  /\ SendOn(c)
  /\ ssl' = [ssl EXCEPT ![c].sent_close = TRUE]
  /\ UNCHANGED <<calls, errors, ctx_owners, fiber, loopVars>>

(* SSL_shutdown returns 1 when both have sent close_notify, and fails on   *)
(* anything else that arrives.  Then TLS_Close removes the handle, which   *)
(* frees the SSL, and TLSSocket.close closes the TCP socket.               *)
BothSentClose(c) ==
  ssl[c].sent_close /\ (ssl[c].got_close \/ Arrived(c, {"close_notify"}))

TLS_Close(f) ==
  LET c == On(f) IN
  /\ Proceeds(f, {"close"})
  /\ \/ Phase(c) = "broken"
     \/ Phase(c) = "open" /\ WasReset(c) /\ ~ssl[c].sent_close
     \/ Phase(c) = "open" /\ ssl[c].sent_close
  /\ UNCHANGED errors \/ (~BothSentClose(c) /\ MayLeaveErrors)
  /\ Become(c, "closed")
  /\ Now(f, "js")
  /\ UNCHANGED <<netVars, calls, ctx_owners, loopVars>>

(* OpenSSL writes to a connection that has reported its reset.  Nobody     *)
(* ignores SIGPIPE: the process is killed.                                 *)
BrokenPipe(f) ==
  /\ In(f, {"write", "close"})
  /\ Phase(On(f)) = "reset"
  /\ stopped' = TRUE
  /\ UNCHANGED <<netVars, ssl, calls, errors, ctx_owners, fiber, polls, running, queue>>
-------------------------------------------------------------------------------
StopForgotten(p) == polls' = polls

(* uv_poll_stop and uv_close.                                              *)
Stop(p) == polls' = polls \ {p}

ContextOfCurrent(p) == running

(* The PollContext was made for the fiber that called TCP_Poll.            *)
ContextOf(p) == p.fiber

Ready(p) == IF p.events = "read" THEN inbox[p.on] # <<>> ELSE p.on \in writable

(* libuv reports a reset as an error, whatever the poll waits for.         *)
OnPoll(f) ==
  /\ LoopRuns
  /\ \E p \in polls :
       /\ p.fiber = f
       /\ Ready(p) \/ WasReset(p.on)
       /\ Stop(p)
       /\ queue' = Append(queue, [fiber |-> ContextOf(p), error |-> WasReset(p.on)])
  /\ UNCHANGED <<netVars, ssl, calls, errors, ctx_owners, fiber, running, stopped>>

(* What the resolver waited for completes.                                 *)
ResolverReady(f) ==
  /\ LoopRuns
  /\ fiber[f].at = "waiting"
  /\ Now(f, "resolved")
  /\ queue' = Append(queue, [fiber |-> f, error |-> FALSE])
  /\ UNCHANGED <<netVars, ssl, calls, errors, ctx_owners, polls, running, stopped>>

(* The fiber returns to TCP_Poll.  When that throws, Call(...) is empty    *)
(* and ToLocalChecked aborts the process.                                  *)
ResumeNext ==
  /\ LoopRuns
  /\ queue # <<>>
  /\ running' = Head(queue).fiber
  /\ stopped' = Head(queue).error
  /\ queue' = Tail(queue)
  /\ UNCHANGED <<netVars, ssl, calls, errors, ctx_owners, fiber, polls>>

(* A peer sends the flights of its handshake, each in answer to ours, then *)
(* data; it answers our close_notify; and it may end the connection at     *)
(* any time, with a close_notify, a FIN or a reset.  What it sends before  *)
(* the SSL exists is not read before either.                               *)
Flights(c) == IF c \in Clients THEN 1 ELSE 2
FlightIsDue(c) == Phase(c) = "finish" \/ sent[c] = 0

Peer(c, record) ==
  /\ Phase(c) \notin {"none", "closed"}
  /\ CASE record = "flight" -> sent[c] < Flights(c) /\ FlightIsDue(c)
       [] record = "data" -> sent[c] >= Flights(c)
       [] record = "close_notify" -> record \in PeerSends \/ ssl[c].sent_close
       [] OTHER -> record \in PeerSends
  /\ \/ /\ record \in {"flight", "data"}
        /\ peer[c] = "open" /\ sent[c] < MaxRecords
        /\ sent' = [sent EXCEPT ![c] = @ + 1]
        /\ UNCHANGED peer
     \/ /\ record = "close_notify" /\ peer[c] = "open"
        /\ peer' = [peer EXCEPT ![c] = "closed"]
        /\ UNCHANGED sent
     \/ /\ record \in {"fin", "reset"} /\ peer[c] # "gone"
        /\ peer' = [peer EXCEPT ![c] = "gone"]
        /\ UNCHANGED sent
  /\ inbox' = [inbox EXCEPT ![c] = Append(@, record)]
  /\ UNCHANGED <<writable, ssl, calls, errors, ctx_owners, fiber, loopVars>>

(* The peer acknowledges what was sent to it.                              *)
Drain(c) ==
  /\ Phase(c) # "closed"
  /\ c \notin writable
  /\ writable' = writable \cup {c}
  /\ UNCHANGED <<peer, sent, inbox, ssl, calls, errors, ctx_owners, fiber, loopVars>>

JavaScript(f) ==
  \/ EndFiber(f) \/ CloseServer(f)
  \/ TLS_Accept(f) \/ TLS_AcceptThrows(f) \/ TLS_Connect(f)
  \/ \E activity \in {"read", "write", "close"} : Use(f, activity)

Primitive(f) ==
  \/ PerformSSLOperation(f) \/ ErrorOfAnother(f)
  \/ ClientHello(f) \/ ResolverBlocks(f) \/ OnCertCallback(f) \/ Finish(f) \/ HandshakeFails(f)
  \/ ReadEnd(f) \/ TLS_Read(f) \/ TLS_Write(f)
  \/ SendCloseNotify(f) \/ TLS_Close(f) \/ BrokenPipe(f)

Fiber(f) == Fiber_Run(f) \/ JavaScript(f) \/ Primitive(f)
Network(c) == ~stopped /\ (Drain(c) \/ \E record \in Record : Peer(c, record))

Next == \/ \E f \in Fibers : Fiber(f) \/ OnPoll(f) \/ ResolverReady(f)
        \/ ResumeNext
        \/ \E c \in Connections : Network(c)

Spec == Init /\ [][Next]_vars

(* The loop turns, the primitives and the JavaScript between them go on,   *)
(* what the resolver waits for completes.  Peers promise nothing.          *)
FairSpec == Spec /\ WF_vars(ResumeNext)
                 /\ \A f \in Fibers :
                      WF_vars(Fiber(f)) /\ WF_vars(OnPoll(f)) /\ WF_vars(ResolverReady(f))
-------------------------------------------------------------------------------
(* Every variable has its type.                                            *)
TypeOK ==
  /\ peer \in [Connections -> {"open", "closed", "gone"}]
  /\ sent \in [Connections -> 0 .. MaxRecords]
  /\ inbox \in [Connections -> Seq(Record)]
  /\ writable \subseteq Connections
  /\ ssl \in [Connections -> [phase : {"none", "hello", "finish", "closed"} \cup Established,
                              sent_close : BOOLEAN, got_close : BOOLEAN]]
  /\ calls \in [Connections -> 0 .. MaxCalls] /\ errors \in BOOLEAN
  /\ ctx_owners \subseteq Fibers \cup {Store}
  /\ fiber \in [Fibers -> [at : Activity \cup {"ready", "js", "resolving", "waiting",
                                               "resolved", "ended"},
                           on : Connections]]
  /\ polls \subseteq [fiber : Fibers, on : Connections, events : {"read", "write"}]
  /\ running \in Fibers \cup {NoFiber}
  /\ queue \in Seq([fiber : Fibers, error : BOOLEAN])
  /\ stopped \in BOOLEAN

(* Whenever OpenSSL may call OnCertCallback, or its resolver runs, the     *)
(* TLSContextHandle that the SSL_CTX points to is alive, also when the     *)
(* server has been closed during the handshake.                            *)
CallbackHasContext ==
  \A f \in Fibers :
    \/ fiber[f].at = "accept" /\ Phase(On(f)) = "hello"
    \/ fiber[f].at \in {"resolving", "waiting", "resolved"}
    => ctx_owners # {}

(* A fiber suspended in an operation is waited for in one place: by one    *)
(* poll, of its own connection while that is open, or by one entry of the  *)
(* queue; and no other fiber has a poll.  So an operation is never left    *)
(* with nothing to resume it, nor resumed twice.                           *)
Suspended(f) == fiber[f].at \in Activity /\ running # f
PollsOf(f) == {p \in polls : p.fiber = f}
EntriesOf(f) == {i \in DOMAIN queue : queue[i].fiber = f}

SuspendedInOnePlace ==
  \A f \in Fibers :
    /\ \A p, q \in PollsOf(f) : p = q
    /\ \A i, j \in EntriesOf(f) : i = j
    /\ Suspended(f) => (PollsOf(f) = {}) # (EntriesOf(f) = {})
    /\ PollsOf(f) # {} => Suspended(f) /\ Phase(On(f)) \notin {"none", "closed"}
    /\ \A p \in PollsOf(f) : p.on = On(f)

(* A fiber that polls runs again when OpenSSL can go on: there are data to *)
(* read or there is room to write, whichever it waits for.                 *)
CanContinue(f) == \/ Receives(f) /\ inbox[On(f)] # <<>>
                  \/ Sends(f) /\ On(f) \in writable

ReadyOperationContinues ==
  \A f \in Fibers :
    ((\E p \in polls : p.fiber = f) /\ CanContinue(f)) ~> (running = f \/ stopped)

(* When the peer has gone, a handshake, a read or a close that waits for   *)
(* it ends.                                                                *)
PeerEndsOperation ==
  \A f \in Fibers :
    (Receives(f) /\ peer[On(f)] # "open") ~> (fiber[f].at = "js" \/ stopped)

(* TLSSocket.read "returns BigInt bytes read or -1n on EOF/Error": it does *)
(* not return without data on a connection that has neither ended nor      *)
(* failed.                                                                 *)
ReadFailsOnlyAtEnd ==
  [][\A f \in Fibers :
       fiber[f].at = "read" /\ fiber'[f].at = "js"
         => inbox'[On(f)] # inbox[On(f)] \/ Fails(On(f))]_vars

(* TLSSocket.read "returns BigInt bytes read or -1n on EOF/Error": a read  *)
(* returns also when the peer has sent close_notify.                       *)
ReadEndsAtCloseNotify ==
  \A f \in Fibers :
    (fiber[f].at = "read" /\ peer[On(f)] = "closed") ~> (fiber[f].at = "js" \/ stopped)
===============================================================================
