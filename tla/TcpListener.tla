------------------------------ MODULE TcpListener -----------------------------
(***************************************************************************)
(* One listening socket (primitives_tcp.cpp) and the fibers that accept    *)
(* from it.  OnUvConnection only hands a connection over when a fiber      *)
(* already waits, and uv_accept is called later, when the main loop        *)
(* resumes that fiber.  Meanwhile libuv holds the connection, and while it *)
(* holds hold_limit of them it takes no further one from the kernel.       *)
(***************************************************************************)
EXTENDS Naturals, Sequences, Functions, FiniteSets

CONSTANTS Fibers,        \* fibers that use the listener
          Connections,   \* connections that clients open
          NoFiber,       \* the event loop runs, no fiber does
          HoldLimits     \* 1 on POSIX (accepted_fd), the AcceptEx requests on Windows

ASSUME ListenerAssumption ==
  /\ NoFiber \notin Fibers
  /\ HoldLimits \subseteq Nat \ {0}

VARIABLES hold_limit,    \* how many connections libuv holds; it never changes
          server,        \* the uv_tcp_t: "listening", "closing", "closed"
          stored,        \* is the NetHandle in the HandleStore?
          accept_queue,  \* NetHandle::accept_queue
          conn,          \* where each connection is
          backlog,       \* connections the kernel has completed, oldest first
          held,          \* connections libuv has taken, the next to accept first
          fiber,         \* what each fiber does
          script,        \* does the main script still run?
          running,       \* the fiber that executes
          queue,         \* resumable_fibers: [fiber, result]
          local_queue,   \* OnFibersToResume: what it has taken over
          failed,        \* wrappers closed by CreateResultValue, then dropped
          misused        \* libuv has touched a handle that is no longer allocated

loopVars == <<script, running, queue, local_queue>>
vars == <<hold_limit, server, stored, accept_queue, conn, backlog, held, fiber, failed,
          misused, loopVars>>

(* An AcceptContext carries the status of OnUvConnection; "other" stands   *)
(* for the context of any other primitive.                                 *)
Context == [fiber : Fibers, result : {"connection", "error", "other"}]

Init ==
  /\ hold_limit \in HoldLimits
  /\ server = "listening" /\ stored = TRUE
  /\ accept_queue = <<>>
  /\ conn = [c \in Connections |-> "none"]
  /\ backlog = <<>> /\ held = <<>>
  /\ fiber = [f \in Fibers |-> "ready"]
  /\ script = TRUE /\ running = NoFiber /\ queue = <<>> /\ local_queue = <<>>
  /\ failed = {} /\ misused = FALSE

(* The NetHandle is held by the store and by `wrap` of each blocked        *)
(* TCP_Accept.                                                             *)
Owned == stored \/ \E f \in Fibers : fiber[f] = "accept"

(* Memory that was freed and is still in libuv's list of handles.          *)
Freed == failed # {} \/ (server = "closing" /\ ~Owned)

LoopRuns == ~script /\ running = NoFiber /\ local_queue = <<>>

(* The script starts fibers with Fiber.run, then uv_run begins.            *)
Start(f) ==
  /\ script /\ running = NoFiber
  /\ fiber[f] = "ready"
  /\ fiber' = [fiber EXCEPT ![f] = "js"]
  /\ running' = f
  /\ UNCHANGED <<server, stored, accept_queue, conn, backlog, held, queue,
                 local_queue, failed, misused, script>>

EndScript ==
  /\ script /\ running = NoFiber
  /\ script' = FALSE
  /\ UNCHANGED <<server, stored, accept_queue, conn, backlog, held, fiber, running,
                 queue, local_queue, failed, misused>>

Leave(f, activity) ==
  /\ running = f
  /\ running' = NoFiber
  /\ fiber' = [fiber EXCEPT ![f] = activity]

AcceptAfterYield(f) ==
  /\ stored
  /\ Leave(f, "accept")
  /\ accept_queue' = Append(accept_queue, NoFiber)
  /\ UNCHANGED <<server, stored, conn, backlog, held, queue, local_queue, failed, misused,
                 script>>

(* TCP_Accept; on an id that is gone it throws, see End.                   *)
TCP_Accept(f) ==
  /\ stored
  /\ Leave(f, "accept")
  /\ accept_queue' = Append(accept_queue, f)
  /\ UNCHANGED <<server, stored, conn, backlog, held, queue, local_queue, failed, misused,
                 script>>

(* The fiber blocks in another primitive, such as a TLS handshake.         *)
Handle(f) ==
  /\ Leave(f, "handling")
  /\ UNCHANGED <<server, stored, accept_queue, conn, backlog, held, queue,
                 local_queue, failed, misused, script>>

End(f) ==
  /\ Leave(f, "ended")
  /\ UNCHANGED <<server, stored, accept_queue, conn, backlog, held, queue,
                 local_queue, failed, misused, script>>

(* TCP_Close: uv_close closes the sockets, the store forgets the handle;   *)
(* accept_queue is left as it is.                                          *)
TCP_Close(f) ==
  /\ running = f
  /\ stored
  /\ server' = "closing"
  /\ stored' = FALSE
  /\ conn' = [c \in Connections |->
                IF conn[c] \in {"backlog", "held"} THEN "reset" ELSE conn[c]]
  /\ backlog' = <<>> /\ held' = <<>>
  /\ UNCHANGED <<accept_queue, fiber, loopVars, failed, misused>>

(* A client connects.                                                      *)
Connect(c) ==
  /\ conn[c] = "none"
  /\ conn' = [conn EXCEPT ![c] = IF server = "listening" THEN "backlog" ELSE "reset"]
  /\ backlog' = IF server = "listening" THEN Append(backlog, c) ELSE backlog
  /\ UNCHANGED <<server, stored, accept_queue, held, fiber, failed, misused, loopVars>>

ConnectionWithoutPop(status) ==
  IF accept_queue = <<>>
    THEN UNCHANGED <<accept_queue, queue>>
    ELSE /\ queue' = Append(queue, [fiber |-> Head(accept_queue), result |-> status])
         /\ UNCHANGED accept_queue

ConnectionWithoutStatus(status) ==
  IF accept_queue = <<>>
    THEN UNCHANGED <<accept_queue, queue>>
    ELSE /\ accept_queue' = Tail(accept_queue)
         /\ queue' = Append(queue, [fiber |-> Head(accept_queue), result |-> "connection"])

ConnectionWithoutContext(status) ==
  /\ accept_queue' = IF accept_queue = <<>> THEN <<>> ELSE Tail(accept_queue)
  /\ UNCHANGED queue

(* OnUvConnection: the callback of uv_listen, with the status of accept(). *)
OnUvConnection(status) ==
  IF accept_queue = <<>>
    THEN UNCHANGED <<accept_queue, queue>>
    ELSE /\ accept_queue' = Tail(accept_queue)
         /\ queue' = Append(queue, [fiber |-> Head(accept_queue), result |-> status])

(* libuv watches the socket while it holds fewer than hold_limit.  POSIX   *)
(* holds one; Windows pushes completed AcceptEx requests on a stack.       *)
TakeConnection ==
  /\ LoopRuns
  /\ backlog # <<>>
  /\ Len(held) < hold_limit
  /\ backlog' = Tail(backlog)
  /\ held' = <<Head(backlog)>> \o held
  /\ conn' = [conn EXCEPT ![Head(backlog)] = "held"]
  /\ OnUvConnection("connection")
  /\ UNCHANGED <<server, stored, fiber, script, running, local_queue, failed, misused>>

(* accept() fails, for example for want of file descriptors.               *)
TakeFails ==
  /\ LoopRuns
  /\ backlog # <<>>
  /\ Len(held) < hold_limit
  /\ backlog' = Tail(backlog)
  /\ conn' = [conn EXCEPT ![Head(backlog)] = "reset"]
  /\ OnUvConnection("error")
  /\ UNCHANGED <<server, stored, held, fiber, script, running, local_queue, failed,
                 misused>>

(* What a fiber waits for elsewhere completes.                             *)
HandlingDone(f) ==
  /\ LoopRuns
  /\ fiber[f] = "handling"
  /\ ~ \E i \in DOMAIN queue : queue[i].fiber = f
  /\ queue' = Append(queue, [fiber |-> f, result |-> "other"])
  /\ UNCHANGED <<server, stored, accept_queue, conn, backlog, held, fiber, script,
                 running, local_queue, failed, misused>>

OnFibersToResume ==
  /\ LoopRuns
  /\ queue # <<>>
  /\ local_queue' = queue
  /\ queue' = <<>>
  /\ UNCHANGED <<server, stored, accept_queue, conn, backlog, held, fiber, script,
                 running, failed, misused>>

(* AcceptContext::CreateResultValue: uv_accept takes the next connection   *)
(* that libuv holds.  When there is none the new wrapper is closed and     *)
(* dropped, and the primitive throws.  uv_tcp_init links the new handle    *)
(* into libuv's list, perhaps next to a freed one.                         *)
CreateResultValue(context) ==
  IF context.result # "connection"
    THEN UNCHANGED <<held, conn, failed, misused>>
    ELSE /\ misused' \in {FALSE, Freed}
         /\ IF held # <<>>
              THEN /\ held' = Tail(held)
                   /\ conn' = [conn EXCEPT ![Head(held)] = "accepted"]
                   /\ UNCHANGED failed
              ELSE /\ failed' = failed \cup {context.fiber}
                   /\ UNCHANGED <<held, conn>>

ResumeNext ==
  /\ running = NoFiber
  /\ local_queue # <<>>
  /\ CreateResultValue(Head(local_queue))
  /\ running' = Head(local_queue).fiber
  /\ fiber' = [fiber EXCEPT ![Head(local_queue).fiber] = "js"]
  /\ local_queue' = Tail(local_queue)
  /\ UNCHANGED <<server, stored, accept_queue, backlog, script, queue>>

(* The closing phase of the loop finishes what uv_close has begun, on      *)
(* wrappers that may be freed: TCP_Close and CreateResultValue drop theirs *)
(* without waiting for it.                                                 *)
RunClosingHandles ==
  /\ LoopRuns
  /\ server = "closing" \/ failed # {}
  /\ server' = IF server = "closing" THEN "closed" ELSE server
  /\ failed' = {}
  /\ misused' = Freed
  /\ UNCHANGED <<stored, accept_queue, conn, backlog, held, fiber, loopVars>>

Fiber(f) == TCP_Accept(f) \/ Handle(f) \/ End(f) \/ TCP_Close(f)
Loop == \/ EndScript \/ TakeConnection \/ TakeFails \/ OnFibersToResume \/ ResumeNext
        \/ RunClosingHandles

(* After a misuse anything may happen: the model stops there.              *)
Next == /\ ~misused
        /\ \/ \E f \in Fibers : Start(f) \/ Fiber(f) \/ HandlingDone(f)
           \/ \E c \in Connections : Connect(c)
           \/ Loop
        /\ UNCHANGED hold_limit

Spec == Init /\ [][Next]_vars

(* The loop turns, fibers come to their next primitive and what they wait  *)
(* for elsewhere completes.  Other work of the loop cannot keep it for     *)
(* ever from a connection in the backlog: every poll reports the socket.   *)
FairSpec == Spec /\ WF_vars(~misused /\ Loop /\ UNCHANGED hold_limit)
                 /\ SF_vars(/\ ~misused
                            /\ TakeConnection \/ TakeFails
                            /\ UNCHANGED hold_limit)
                 /\ \A f \in Fibers :
                      WF_vars(/\ ~misused
                              /\ Start(f) \/ Fiber(f) \/ HandlingDone(f)
                              /\ UNCHANGED hold_limit)
-------------------------------------------------------------------------------
(* Every variable has its type.                                            *)
TypeOK ==
  /\ hold_limit \in HoldLimits
  /\ server \in {"listening", "closing", "closed"} /\ stored \in BOOLEAN
  /\ accept_queue \in Seq(Fibers)
  /\ conn \in [Connections -> {"none", "backlog", "held", "accepted", "reset"}]
  /\ backlog \in Seq(Connections) /\ held \in Seq(Connections)
  /\ fiber \in [Fibers -> {"ready", "js", "accept", "handling", "ended"}]
  /\ script \in BOOLEAN /\ running \in Fibers \cup {NoFiber}
  /\ queue \in Seq(Context) /\ local_queue \in Seq(Context)
  /\ failed \subseteq Fibers /\ misused \in BOOLEAN

Granted(f) == \E context \in Range(queue \o local_queue) :
                context.fiber = f /\ context.result # "other"

(* A fiber inside accept() is in the listener's queue or has been granted  *)
(* a connection (or an error), never both, never twice, and no other fiber *)
(* is: one accept() takes at most one connection, and nothing resumes a    *)
(* fiber that does not wait for it.  It does not say that the fiber is     *)
(* resumed: nobody serves the queue of a closed listener.                  *)
AcceptersAreInOnePlace ==
  /\ IsInjective(accept_queue)
  /\ IsInjective([i \in DOMAIN (queue \o local_queue) |-> (queue \o local_queue)[i].fiber])
  /\ \A f \in Fibers :
       fiber[f] = "accept" <=> (f \in Range(accept_queue)) # Granted(f)

(* The fibers that were promised a connection; none has two contexts (see  *)
(* AcceptersAreInOnePlace), so the set counts them.                        *)
Promised == {context \in Range(queue \o local_queue) : context.result = "connection"}

(* As long as the listener is open, libuv holds a connection for every     *)
(* fiber that was promised one, so uv_accept cannot fail.                  *)
PromisedConnectionIsThere ==
  server = "listening" => Cardinality(Promised) <= Len(held)

(* A connection that reaches the listener is accepted, unless no fiber is  *)
(* left to accept.                                                         *)
EveryConnectionIsAccepted ==
  \A c \in Connections :
    conn[c] \in {"backlog", "held"} ~>
      conn[c] = "accepted" \/ \A f \in Fibers : fiber[f] \in {"ready", "ended"}

(* The listener stays open and accept() never fails.                       *)
NeverReset == server = "listening" /\ \A c \in Connections : conn[c] # "reset"

(* On POSIX every connection is accepted while the listener is open and    *)
(* accept() does not fail, if the accepting fibers do nothing else.        *)
ConnectionsAreAccepted ==
  [](hold_limit = 1 /\ NeverReset /\ \A f \in Fibers : fiber[f] # "handling")
    => EveryConnectionIsAccepted

(* "This function blocks the current fiber and runs the accept loop        *)
(* indefinitely": also when that fiber handles a connection in between, as *)
(* long as a fiber comes back to accept() again and again.                 *)
BusyServerAccepts ==
  []NeverReset /\ []<>(\E f \in Fibers : fiber[f] = "accept") => EveryConnectionIsAccepted

(* "This loop will block this fiber forever (or until server.close() or    *)
(* error)": closing the listener ends accept(), as TCP_Close should.       *)
CloseEndsAccept ==
  \A f \in Fibers :
    (fiber[f] = "accept" /\ server # "listening") ~> (fiber[f] # "accept" \/ misused)
===============================================================================
