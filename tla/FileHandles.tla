------------------------------ MODULE FileHandles -----------------------------
(***************************************************************************)
(* Open files and directories: primitives_fs.cpp, the classes FileHandle   *)
(* and DirectoryHandle of stdlib.js and the HandleStore between them.  A   *)
(* file descriptor is a small number that the operating system hands out   *)
(* again after close(); libuv's threads execute the requests of different  *)
(* fibers in any order; and a file's handle leaves the store only when the *)
(* fiber that closed it runs again.  A directory is read at once when it   *)
(* is opened; its handle keeps a copy of each name that nobody has asked   *)
(* for yet.  Fibers run one at a time, see FiberScheduler, whose two       *)
(* queues are one here.                                                    *)
(***************************************************************************)
EXTENDS HandleStore, Sequences, FiniteSets

CONSTANTS Fibers, NoFiber,
          Fds,             \* the file descriptors of the process
          MaxOpens,        \* bound: calls of open, for files and directories
          MaxEntries,      \* bound: entries of a directory
          SharedHandles    \* may fibers use each other's objects?

ASSUME FileHandlesAssumption ==
  /\ NoFiber \notin Fibers
  /\ Fds \subseteq Nat \ {0}
  /\ MaxOpens \in Nat /\ MaxEntries \in Nat
  /\ SharedHandles \in BOOLEAN

VARIABLES os,        \* which open file each descriptor stands for, 0 for none
          opens,     \* calls of open so far; they number the files and directories
          names,     \* how many names of each directory are allocated
          objects,   \* the JavaScript object of each of them: [id, owner, state]
          call,      \* the FSContext each fiber waits for, if any
          fiber,     \* "new", "alive", "ended"
          script, running, queue

vars == <<os, opens, names, objects, call, fiber, script, running, queue, storeVars>>

(* An FSContext; "file" is the file the request is meant for.              *)
Context == [op : {"none", "open", "scandir", "use", "close"},
            at : {"pool", "done", "queued"}, id : 0 .. MaxOpens, fd : Fds \cup {0},
            file : 0 .. MaxOpens, result : {"none", "ok", "error"}]

NewContext(op, id, fd, file) ==
  [op |-> op, at |-> "pool", id |-> id, fd |-> fd, file |-> file, result |-> "none"]

NoCall == NewContext("none", 0, 0, 0)

Init ==
  /\ StoreInit
  /\ os = [fd \in Fds |-> 0] /\ opens = 0
  /\ names = [file \in 1 .. MaxOpens |-> 0] /\ objects = <<>>
  /\ call = [f \in Fibers |-> NoCall]
  /\ fiber = [f \in Fibers |-> "new"]
  /\ script = TRUE /\ running = NoFiber /\ queue = <<>>

Fiber_Run(f) ==
  /\ script /\ running = NoFiber
  /\ fiber[f] = "new"
  /\ fiber' = [fiber EXCEPT ![f] = "alive"]
  /\ running' = f
  /\ UNCHANGED <<os, opens, names, objects, call, script, queue, storeVars>>

EndScript ==
  /\ script /\ running = NoFiber
  /\ script' = FALSE
  /\ UNCHANGED <<os, opens, names, objects, call, fiber, running, queue, storeVars>>

EndFiber(f) ==
  /\ running = f
  /\ fiber' = [fiber EXCEPT ![f] = "ended"]
  /\ running' = NoFiber
  /\ UNCHANGED <<os, opens, names, objects, call, script, queue, storeVars>>

(* Hand a request to the thread pool and yield.                            *)
Request(f, request) ==
  /\ running = f
  /\ call' = [call EXCEPT ![f] = request]
  /\ running' = NoFiber
  /\ UNCHANGED <<os, names, objects, fiber, script, queue, storeVars>>

FS_Open(f) ==
  /\ opens < MaxOpens
  /\ opens' = opens + 1
  /\ Request(f, NewContext("open", 0, 0, opens + 1))

FS_DirOpen(f) ==
  /\ opens < MaxOpens
  /\ opens' = opens + 1
  /\ Request(f, NewContext("scandir", 0, 0, opens + 1))

(* The objects whose methods fiber f can call; a call with an id that is   *)
(* not in the store throws "Invalid file handle" and changes nothing.  A   *)
(* DirectoryHandle has no descriptor.                                      *)
Usable(f, file) ==
  /\ SharedHandles \/ objects[file].owner = f
  /\ objects[file].state # "collected"
  /\ Stored(objects[file].id)

IsDirectory(file) == store[objects[file].id].fd = 0

OnHandle(op, file) ==
  NewContext(op, objects[file].id, store[objects[file].id].fd, file)

(* FS_Read, FS_Write, FS_Status, FS_Sync, FS_DataSync: the descriptor is   *)
(* read from the handle before the fiber yields.                           *)
FS_Use(f, file) ==
  /\ Usable(f, file) /\ ~IsDirectory(file)
  /\ Request(f, OnHandle("use", file))
  /\ UNCHANGED opens

FS_Close(f, file) ==
  /\ Usable(f, file) /\ ~IsDirectory(file)
  /\ Request(f, OnHandle("close", file))
  /\ UNCHANGED opens

OneTooMany(file) == TRUE

(* index is less than entries.size().                                      *)
EntryIsLeft(file) == names[file] > 0

(* FS_DirRead hands out the next name and frees it; it never yields.       *)
FS_DirRead(f, file) ==
  /\ running = f
  /\ Usable(f, file) /\ IsDirectory(file)
  /\ EntryIsLeft(file)
  /\ names' = [names EXCEPT ![file] = @ - 1]
  /\ UNCHANGED <<os, opens, objects, call, fiber, script, running, queue, storeVars>>

NamesAfterErase(file) == names

(* DirectoryHandle::Close frees the names that are left.                   *)
NamesAfterClose(file) == [names EXCEPT ![file] = 0]

(* FS_DirClose never yields either.                                        *)
FS_DirClose(f, file) ==
  /\ running = f
  /\ Usable(f, file) /\ IsDirectory(file)
  /\ names' = NamesAfterClose(file)
  /\ Remove(objects[file].id)
  /\ objects' = [objects EXCEPT ![file].state = "closed"]
  /\ UNCHANGED <<os, opens, call, fiber, script, running, queue>>

(* open() returns the lowest free descriptor.                              *)
Free == {fd \in Fds : os[fd] = 0}
Lowest(S) == CHOOSE fd \in S : \A other \in S : fd <= other

(* A thread executes one request of the pool.  Every request may fail;     *)
(* close() releases the descriptor also when it reports an error.          *)
Execute(f) ==
  LET request == call[f]
      Done(result) ==
        call' = [call EXCEPT ![f] = [@ EXCEPT !.at = "done", !.result = result]]
  IN /\ request.op # "none"
     /\ request.at = "pool"
     /\ \/ /\ request.op = "open"
           /\ Free # {}
           /\ os' = [os EXCEPT ![Lowest(Free)] = request.file]
           /\ call' = [call EXCEPT ![f] = [@ EXCEPT !.at = "done", !.result = "ok",
                                                    !.fd = Lowest(Free)]]
        \/ /\ request.op \in {"open", "scandir", "use"}
           /\ Done("error")
           /\ UNCHANGED os
        \/ /\ request.op \in {"scandir", "use"}
           /\ Done("ok")
           /\ UNCHANGED os
        \/ /\ request.op = "close"
           /\ os' = [os EXCEPT ![request.fd] = 0]
           /\ \E result \in {"ok", "error"} : Done(result)
     /\ UNCHANGED <<opens, names, objects, fiber, script, running, queue, storeVars>>

(* The callback copies the result, and all names of a directory, into the  *)
(* context and queues it.                                                  *)
OnFSCallback(f) ==
  /\ ~script /\ running = NoFiber
  /\ call[f].op # "none"
  /\ call[f].at = "done"
  /\ call' = [call EXCEPT ![f].at = "queued"]
  /\ queue' = Append(queue, f)
  /\ IF call[f].op = "scandir" /\ call[f].result = "ok"
       THEN \E n \in 0 .. MaxEntries : names' = [names EXCEPT ![call[f].file] = n]
       ELSE UNCHANGED names
  /\ UNCHANGED <<os, opens, objects, fiber, script, running, storeVars>>

Opened(f) == call[f].op \in {"open", "scandir"} /\ call[f].result = "ok"

(* FSContext::CreateResultValue adds a handle for what was opened, and the *)
(* constructor of the JavaScript object registers it for finalization.     *)
CreateResultValue(f) ==
  IF Opened(f)
    THEN /\ Add([fd |-> call[f].fd, file |-> call[f].file])
         /\ objects' = [file \in DOMAIN objects \cup {call[f].file} |->
                          IF file = call[f].file
                            THEN [id |-> NewId, owner |-> f, state |-> "live"]
                            ELSE objects[file]]
    ELSE UNCHANGED <<storeVars, objects>>

ClosedWithoutError(f) == call[f].op = "close" /\ call[f].result = "ok"

ClosedOrFailed(f) == call[f].op = "close" \/ (call[f].op = "use" /\ call[f].result = "error")

(* The end of FS_Close: the id is removed whatever the result is.          *)
AfterClose(f) == call[f].op = "close"

ResumeNext ==
  /\ ~script /\ running = NoFiber
  /\ queue # <<>>
  /\ LET f == Head(queue) IN
       /\ IF AfterClose(f)
            THEN /\ Remove(call[f].id)
                 /\ objects' = [objects EXCEPT ![call[f].file].state = "closed"]
            ELSE CreateResultValue(f)
       /\ call' = [call EXCEPT ![f] = NoCall]
       /\ running' = f
  /\ queue' = Tail(queue)
  /\ UNCHANGED <<os, opens, names, fiber, script>>

(* handles.free, called by the FinalizationRegistry for an object nobody   *)
(* can reach any more: fibers may drop an object at any time, except that  *)
(* it is on the stack of a call that is in progress.  register() got no    *)
(* token, so close() does not unregister and closed objects are finalized  *)
(* too.  ~FileHandle does not close the descriptor, ~DirectoryHandle does  *)
(* not free the names.                                                     *)
HANDLES_Free(file) ==
  /\ ~script /\ running = NoFiber
  /\ objects[file].state # "collected"
  /\ \A f \in Fibers : ~(call[f].op \in {"use", "close"} /\ call[f].file = file)
  /\ objects' = [objects EXCEPT ![file].state = "collected"]
  /\ Remove(objects[file].id)
  /\ UNCHANGED <<os, opens, names, call, fiber, script, running, queue>>

JavaScript(f) ==
  \/ FS_Open(f) \/ FS_DirOpen(f) \/ EndFiber(f)
  \/ \E file \in DOMAIN objects : FS_Use(f, file) \/ FS_Close(f, file)
                                   \/ FS_DirRead(f, file) \/ FS_DirClose(f, file)

Next == \/ \E f \in Fibers :
             Fiber_Run(f) \/ JavaScript(f) \/ Execute(f) \/ OnFSCallback(f)
        \/ EndScript
        \/ ResumeNext
        \/ \E file \in DOMAIN objects : HANDLES_Free(file)

Spec == Init /\ [][Next]_vars
-------------------------------------------------------------------------------
InFlight(f, op) == call[f].op = op

(* Every variable has its type.                                            *)
TypeOK ==
  /\ os \in [Fds -> 0 .. MaxOpens] /\ opens \in 0 .. MaxOpens
  /\ next_id \in 1 .. MaxOpens + 1
  /\ DOMAIN store \subseteq 1 .. next_id - 1
  /\ Range(store) \subseteq [fd : Fds \cup {0}, file : 1 .. MaxOpens]
  /\ names \in [1 .. MaxOpens -> 0 .. MaxEntries]
  /\ DOMAIN objects \subseteq 1 .. opens
  /\ Range(objects) \subseteq [id : 1 .. next_id - 1, owner : Fibers,
                                state : {"live", "closed", "collected"}]
  /\ call \in [Fibers -> Context]
  /\ fiber \in [Fibers -> {"new", "alive", "ended"}]
  /\ script \in BOOLEAN /\ running \in Fibers \cup {NoFiber}
  /\ queue \in Seq(Fibers)

(* When a thread executes a request, the descriptor it was given still     *)
(* stands for the file that the handle was opened for.                     *)
ActsOnOwnFile ==
  \A f \in Fibers :
    (InFlight(f, "use") \/ InFlight(f, "close")) /\ call[f].at = "pool"
      => os[call[f].fd] = call[f].file

(* The id of an object that was not closed leads to the handle of its own  *)
(* file: no finalizer, however late, removes the handle of another object. *)
UnclosedObjectsAreStored ==
  \A file \in DOMAIN objects :
    objects[file].state = "live" =>
      Stored(objects[file].id) /\ store[objects[file].id].file = file

(* As long as JavaScript has the object of an open file, the handle of its *)
(* descriptor is in the store, so that the file can still be closed.       *)
OpenFilesAreKnown ==
  \A fd \in Fds : os[fd] \in DOMAIN objects /\ objects[os[fd]].state # "collected" =>
    \E id \in DOMAIN store : store[id] = [fd |-> fd, file |-> os[fd]]

(* Every name that is allocated is in the handle of a directory or in the  *)
(* context of the call that opens it, where it will be freed, unless the   *)
(* finalizer has dropped an object that was never closed.                  *)
NamesAreOwned ==
  \A file \in 1 .. MaxOpens : names[file] > 0 =>
    \/ \E id \in DOMAIN store : store[id] = [fd |-> 0, file |-> file]
    \/ \E f \in Fibers : InFlight(f, "scandir") /\ call[f].file = file
    \/ file \in DOMAIN objects /\ objects[file].state = "collected"
===============================================================================
