-------------------------------- MODULE Sockets -------------------------------
(***************************************************************************)
(* TCP connections (primitives_tcp.cpp) and UDP sockets                    *)
(* (primitives_udp.cpp): connect or listen, read, write and close.  A      *)
(* NetHandle or UDPHandle has one slot for a pending read; writes wait in  *)
(* a queue of libuv.  Between a callback and the moment its fiber runs     *)
(* again, other fibers may read, write or close the same socket.  Fibers   *)
(* run one at a time, see FiberScheduler, whose two queues are one here.   *)
(***************************************************************************)
EXTENDS Naturals, Sequences, Functions

CONSTANTS Fibers, NoFiber,
          Sockets,     \* TCP connections that were accepted, and
          Clients,     \* those that a fiber opens with TCP_Connect,
          Datagrams,   \* and UDP sockets
          MaxChunks    \* bound: chunks that arrive on one socket

ASSUME SocketsAssumption ==
  /\ NoFiber \notin Fibers
  /\ Sockets # {}
  /\ Clients \subseteq Sockets /\ Datagrams \subseteq Sockets \ Clients
  /\ MaxChunks \in Nat

VARIABLES socket,        \* the libuv handle of each socket
          stored,        \* sockets whose handle is in the HandleStore
          pending_read,  \* the fiber whose ReadContext the handle points to
          reading,       \* sockets between uv_read_start and uv_read_stop
          broken,        \* connections neither readable nor writable for libuv
          writes,        \* fibers whose uv_write_t or uv_udp_send_t libuv has queued
          arrived,       \* chunks that OnRead has got so far
          returned,      \* the last chunk that a read() has returned
          deleted,       \* sockets whose uv_tcp_t TCP_Connect has deleted, unclosed
          misused,       \* libuv was given a copy of a handle, or uses a freed one
          fiber,         \* what each fiber does: [at, on]
          script, running, queue

ioVars == <<socket, stored, pending_read, reading, broken, writes, arrived, returned,
            deleted, misused>>
vars == <<ioVars, fiber, script, running, queue>>

Context == [fiber : Fibers, on : Sockets, chunk : 0 .. MaxChunks,
            result : {"data", "eof", "nothing", "error", "connected", "ok"}]

(* A fiber that is not blocked on a socket.                                *)
Off(activity) == [at |-> activity, on |-> CHOOSE s \in Sockets : TRUE]

NoChunk(f, s, result) == [fiber |-> f, on |-> s, chunk |-> 0, result |-> result]

Init ==
  /\ socket = [s \in Sockets |-> IF s \in Clients \cup Datagrams THEN "none" ELSE "open"]
  /\ stored = Sockets \ (Clients \cup Datagrams)
  /\ pending_read = [s \in Sockets |-> NoFiber]
  /\ reading = {} /\ broken = {}
  /\ writes = [s \in Sockets |-> <<>>]
  /\ arrived = [s \in Sockets |-> 0] /\ returned = [s \in Sockets |-> 0]
  /\ deleted = {} /\ misused = FALSE
  /\ fiber = [f \in Fibers |-> Off("ready")]
  /\ script = TRUE /\ running = NoFiber /\ queue = <<>>

LoopRuns == ~script /\ running = NoFiber

Fiber_Run(f) ==
  /\ script /\ running = NoFiber
  /\ fiber[f].at = "ready"
  /\ fiber' = [fiber EXCEPT ![f] = Off("js")]
  /\ running' = f
  /\ UNCHANGED <<ioVars, script, queue>>

EndScript ==
  /\ script /\ running = NoFiber
  /\ script' = FALSE
  /\ UNCHANGED <<ioVars, fiber, running, queue>>

EndFiber(f) ==
  /\ running = f
  /\ fiber' = [fiber EXCEPT ![f] = Off("ended")]
  /\ running' = NoFiber
  /\ UNCHANGED <<ioVars, script, queue>>

Yield(f, activity, s) ==
  /\ running = f
  /\ fiber' = [fiber EXCEPT ![f] = [at |-> activity, on |-> s]]
  /\ running' = NoFiber
  /\ UNCHANGED <<script, queue>>

(* A NetHandle that TCP_Connect made holds a bitwise copy of the connected *)
(* uv_tcp_t: its links lead to the original, which is deleted, and its     *)
(* data pointer is null where OnRead expects the NetHandle.                *)
IsCopy(s) == s \in Clients
UseOf(s) == misused' = (misused \/ IsCopy(s))

NoHolders(s) == {}

(* A fiber blocked in a read or a write has a shared_ptr on its stack.     *)
Holders(s) == {f \in Fibers : fiber[f].on = s /\ fiber[f].at \in {"read", "write", "rejected"}}
Allocated(s) == s \in stored \/ Holders(s) # {}

(* Some object has the id: HandleStore::Get finds the handle.              *)
Usable(f, s) == running = f /\ s \in stored /\ socket[s] # "orphan"

ReadAlways(s) == TRUE

(* A second read of the same socket throws "Read already pending".         *)
MayRead(s) == pending_read[s] = NoFiber

NotPending(f, s) == pending_read

Pending(f, s) == [pending_read EXCEPT ![s] = f]

(* TCP_Read and UDP_Read.  libuv refuses to read a broken connection; the  *)
(* code does not look, and no callback will ever come.                     *)
Read(f, s) ==
  /\ Usable(f, s) /\ MayRead(s)
  /\ pending_read' = Pending(f, s)
  /\ reading' = IF s \in broken THEN reading ELSE reading \cup {s}
  /\ UseOf(s)
  /\ Yield(f, "read", s)
  /\ UNCHANGED <<socket, stored, broken, writes, arrived, returned, deleted>>

(* TCP_Write and UDP_Write; uv_write refuses a broken connection.          *)
Write(f, s) ==
  /\ Usable(f, s) /\ s \notin broken
  /\ writes' = [writes EXCEPT ![s] = Append(@, f)]
  /\ UseOf(s)
  /\ Yield(f, "write", s)
  /\ UNCHANGED <<socket, stored, pending_read, reading, broken, arrived, returned, deleted>>

(* libuv returns an error at once: the connection is broken, or WSASendTo  *)
(* refuses the datagram on Windows.  The fiber stays in the primitive for  *)
(* ever.                                                                   *)
WriteRejected(f, s) ==
  /\ Usable(f, s) /\ s \in broken \cup Datagrams
  /\ UseOf(s)
  /\ Yield(f, "rejected", s)
  /\ UNCHANGED <<socket, stored, pending_read, reading, broken, writes, arrived, returned,
                 deleted>>

(* Memory that was freed and is still in libuv's list of handles.  When    *)
(* uv_tcp_init, uv_udp_init or the closing phase changes that list, libuv  *)
(* may follow a link into it.                                              *)
Freed == deleted # {} \/ \E s \in Sockets : socket[s] = "closing" /\ ~Allocated(s)
LinkHandle == misused' \in {FALSE, Freed}

TCP_Connect(f, s) ==
  /\ s \in Clients
  /\ socket[s] = "none"
  /\ socket' = [socket EXCEPT ![s] = "connecting"]
  /\ LinkHandle
  /\ Yield(f, "connect", s)
  /\ UNCHANGED <<stored, pending_read, reading, broken, writes, arrived, returned, deleted>>

(* uv_tcp_connect fails at once, for want of a descriptor or of a route:   *)
(* the fiber stays in the primitive, and its uv_tcp_t is never deleted.    *)
ConnectRejected(f, s) ==
  /\ s \in Clients
  /\ socket[s] = "none"
  /\ socket' = [socket EXCEPT ![s] = "closed"]
  /\ LinkHandle
  /\ Yield(f, "rejected", s)
  /\ UNCHANGED <<stored, pending_read, reading, broken, writes, arrived, returned, deleted>>

(* UDPSocket.listen: UDP_Create stores the handle, UDP_Listen binds it.    *)
(* When that throws there is no object, and nobody knows the id.           *)
UDP_Listen(f, s) ==
  /\ running = f
  /\ s \in Datagrams
  /\ socket[s] = "none"
  /\ \E bound \in {"open", "orphan"} : socket' = [socket EXCEPT ![s] = bound]
  /\ stored' = stored \cup {s}
  /\ LinkHandle
  /\ UNCHANGED <<pending_read, reading, broken, writes, arrived, returned, deleted, fiber,
                 script, running, queue>>

(* uv_close and HandleStore::Remove.  uv_close stops reading; nothing is   *)
(* done about the pending read.                                            *)
Close(f, s) ==
  /\ Usable(f, s)
  /\ socket' = [socket EXCEPT ![s] = "closing"]
  /\ stored' = stored \ {s}
  /\ reading' = reading \ {s}
  /\ UseOf(s)
  /\ UNCHANGED <<pending_read, broken, writes, arrived, returned, deleted, fiber, script,
                 running, queue>>

QueueInFront(contexts) == queue' = contexts \o queue

QueueFiberToResume(contexts) == queue' = queue \o contexts

(* OnRead and OnRecv.  A chunk, end of file, an error, or nothing at all:  *)
(* libuv calls back when a descriptor that was reported is not readable.   *)
(* An error makes a connection neither readable nor writable.              *)
OnRead(s, result) ==
  /\ LoopRuns
  /\ s \in reading
  /\ result = "eof" => s \notin Datagrams
  /\ broken' = IF result = "error" THEN broken \cup ({s} \ Datagrams) ELSE broken
  /\ LET chunk == IF result = "data" THEN arrived[s] + 1 ELSE 0 IN
       /\ chunk <= MaxChunks
       /\ arrived' = IF result = "data" THEN [arrived EXCEPT ![s] = chunk] ELSE arrived
       /\ reading' = reading \ {s}
       /\ pending_read' = [pending_read EXCEPT ![s] = NoFiber]
       /\ QueueFiberToResume(<<[fiber |-> pending_read[s], on |-> s, chunk |-> chunk,
                                result |-> result]>>)
  /\ UNCHANGED <<socket, stored, writes, returned, deleted, misused, fiber, script, running>>

WriterIsCurrent(s) == running

Writer(s) == Head(writes[s])

(* OnWrite and OnSend, in the order of the calls.                          *)
OnWrite(s) ==
  /\ LoopRuns
  /\ socket[s] = "open"
  /\ writes[s] # <<>>
  /\ writes' = [writes EXCEPT ![s] = Tail(@)]
  /\ \E result \in {"ok", "error"} : QueueFiberToResume(<<NoChunk(Writer(s), s, result)>>)
  /\ UNCHANGED <<socket, stored, pending_read, reading, broken, arrived, returned, deleted,
                 misused, fiber, script, running>>

OnConnect(s) ==
  /\ LoopRuns
  /\ socket[s] = "connecting"
  /\ \E f \in Fibers, result \in {"connected", "error"} :
       /\ fiber[f] = [at |-> "connect", on |-> s]
       /\ socket' = [socket EXCEPT ![s] = IF result = "connected" THEN "open" ELSE "closed"]
       /\ QueueFiberToResume(<<NoChunk(f, s, result)>>)
  /\ UNCHANGED <<stored, pending_read, reading, broken, writes, arrived, returned, deleted,
                 misused, fiber, script, running>>

CancelledIgnored(s, sent) == <<>>

(* The fibers of the writes that are left: those that were sent already    *)
(* get their status, the others UV_ECANCELED.                              *)
Cancelled(s, sent) ==
  [i \in DOMAIN writes[s] |-> NoChunk(writes[s][i], s, IF i \in sent THEN "ok" ELSE "error")]

(* The closing phase of the loop calls OnWrite for them.  libuv works on a *)
(* NetHandle then that TCP_Close has freed, if no fiber was blocked in it. *)
FinishClose(s) ==
  /\ LoopRuns
  /\ socket[s] = "closing"
  /\ socket' = [socket EXCEPT ![s] = "closed"]
  /\ writes' = [writes EXCEPT ![s] = <<>>]
  /\ \E sent \in SUBSET DOMAIN writes[s] : QueueFiberToResume(Cancelled(s, sent))
  /\ LinkHandle /\ (~Allocated(s) => misused')
  /\ UNCHANGED <<stored, pending_read, reading, broken, arrived, returned, deleted, fiber,
                 script, running>>

(* ConnectContext::CreateResultValue links a handle, makes it the copy and *)
(* stores it; for a read the result is the chunk that is in the caller's   *)
(* buffer already.                                                         *)
CreateResultValue(context) ==
  /\ stored' = IF context.result = "connected" THEN stored \cup {context.on} ELSE stored
  /\ returned' = IF context.result = "data"
                   THEN [returned EXCEPT ![context.on] = context.chunk]
                   ELSE returned
  /\ IF context.result = "connected" THEN LinkHandle ELSE UNCHANGED misused

(* TCP_Connect deletes its uv_tcp_t first, connected or not, without       *)
(* uv_close.                                                               *)
Deleted(context) ==
  IF fiber[context.fiber].at = "connect" THEN deleted \cup {context.on} ELSE deleted

ResumeNext ==
  /\ LoopRuns
  /\ queue # <<>>
  /\ LET context == Head(queue) IN
       /\ CreateResultValue(context)
       /\ deleted' = Deleted(context)
       /\ running' = context.fiber
       /\ fiber' = [fiber EXCEPT ![context.fiber] = Off("js")]
  /\ queue' = Tail(queue)
  /\ UNCHANGED <<socket, pending_read, reading, broken, writes, arrived, script>>

Results == {"data", "eof", "nothing", "error"}

Loop == EndScript \/ ResumeNext
Network(s) == OnWrite(s) \/ OnConnect(s) \/ \E result \in Results : OnRead(s, result)
Fiber(f) == \/ Fiber_Run(f) \/ EndFiber(f)
            \/ \E s \in Sockets :
                 \/ Read(f, s) \/ Write(f, s) \/ WriteRejected(f, s) \/ Close(f, s)
                 \/ TCP_Connect(f, s) \/ ConnectRejected(f, s) \/ UDP_Listen(f, s)

(* After a misuse anything may happen: the model stops there.              *)
Next == /\ ~misused
        /\ Loop \/ (\E s \in Sockets : FinishClose(s) \/ Network(s)) \/ (\E f \in Fibers : Fiber(f))

Spec == Init /\ [][Next]_vars

(* Fibers and the loop go on; every turn of uv_run ends with the closing   *)
(* phase, whatever the fibers it has resumed do; the network promises      *)
(* nothing.                                                                *)
FairSpec == /\ Spec
            /\ WF_vars(~misused /\ Loop)
            /\ \A s \in Sockets : SF_vars(~misused /\ FinishClose(s))
            /\ \A f \in Fibers : WF_vars(~misused /\ Fiber(f))
-------------------------------------------------------------------------------
(* Every variable has its type.                                            *)
TypeOK ==
  /\ socket \in [Sockets -> {"none", "connecting", "open", "orphan", "closing", "closed"}]
  /\ stored \subseteq Sockets /\ reading \subseteq Sockets /\ broken \subseteq Sockets
  /\ pending_read \in [Sockets -> Fibers \cup {NoFiber}]
  /\ writes \in [Sockets -> Seq(Fibers)]
  /\ arrived \in [Sockets -> 0 .. MaxChunks]
  /\ returned \in [Sockets -> 0 .. MaxChunks]
  /\ deleted \subseteq Sockets /\ misused \in BOOLEAN
  /\ fiber \in [Fibers -> [at : {"ready", "js", "read", "write", "connect", "rejected",
                                 "ended"}, on : Sockets]]
  /\ script \in BOOLEAN /\ running \in Fibers \cup {NoFiber}
  /\ queue \in Seq(Context)

(* libuv only calls OnAlloc while there is a ReadContext whose buffer it   *)
(* can return, and that context belongs to a fiber blocked in this read.   *)
ReadersHaveBuffers ==
  \A s \in reading : \E f \in Fibers :
    pending_read[s] = f /\ fiber[f] = [at |-> "read", on |-> s]

(* libuv works for a request only while the wrapper around its handle is   *)
(* allocated, whoever closes the socket meanwhile.                         *)
RequestsHaveHandles ==
  \A s \in Sockets : s \in reading \/ writes[s] # <<>> => Allocated(s)

(* Where a fiber is waited for.                                            *)
Reads(f) == {<<"read", s>> : s \in {t \in Sockets : pending_read[t] = f}}
Turns(f, s) == {i \in DOMAIN writes[s] : writes[s][i] = f}
Writes(f) == UNION {{<<"write", s, i>> : i \in Turns(f, s)} : s \in Sockets}
Connects(f) == {<<"connect", s>> : s \in {t \in Sockets : socket[t] = "connecting"
                                            /\ fiber[f] = [at |-> "connect", on |-> t]}}
Resumptions(f) == {<<"queue", i>> : i \in {j \in DOMAIN queue : queue[j].fiber = f}}
Places(f) == Reads(f) \cup Writes(f) \cup Connects(f) \cup Resumptions(f)

(* A fiber blocked in read, write or connect is waited for in exactly one  *)
(* place: the handle, libuv's write queue, the connect request, the queue. *)
BlockedInOnePlace ==
  \A f \in Fibers :
    IF fiber[f].at \in {"read", "write", "connect"}
      THEN \E place \in Places(f) : Places(f) = {place}
      ELSE Places(f) = {}

(* The chunks of a socket are returned to JavaScript in the order in which *)
(* they arrived, none twice and none left out, whoever reads.              *)
ChunksAreReturnedInOrder ==
  [][\A s \in Sockets : returned'[s] \in {returned[s], returned[s] + 1}]_vars

(* Closing a socket ends the writes that wait on it, unless libuv has used *)
(* a copy of a handle or a freed one, after which nothing is known.        *)
CloseEndsWrite ==
  \A f \in Fibers, s \in Sockets :
    (socket[s] = "closing" /\ fiber[f] = [at |-> "write", on |-> s])
      ~> (running = f \/ misused)

(* "if (result === null) break; // Socket closed": closing a socket ends   *)
(* the read() of the fiber that waits on it, as TCP_Close and UDP_Close    *)
(* should.                                                                 *)
CloseEndsRead ==
  \A f \in Fibers, s \in Sockets :
    (socket[s] = "closing" /\ fiber[f] = [at |-> "read", on |-> s])
      ~> (running = f \/ misused)

(* HandleStore::Remove allows "for safe destruction": the handle that      *)
(* uv_close was called for is allocated until the closing phase has        *)
(* finished it.                                                            *)
ClosingSocketsAreAllocated == \A s \in Sockets : socket[s] = "closing" => Allocated(s)

(* "The handle is already connected, just need to init our wrapper": what  *)
(* TCP_Connect returns can be read, written and closed, and other sockets  *)
(* be opened, without libuv touching a copy or freed memory.               *)
NeverMisused == ~misused
===============================================================================
