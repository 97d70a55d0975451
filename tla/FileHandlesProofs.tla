---------------------------- MODULE FileHandlesProofs --------------------------
(***************************************************************************)
(* Proofs about FileHandles, for any fibers, descriptors and numbers of    *)
(* files and names.  The store and the objects of JavaScript agree, an     *)
(* open file can be closed as long as it has an object, no name is lost by *)
(* the code, and when fibers keep their objects to themselves every        *)
(* request acts on the file it was meant for, although descriptors are     *)
(* used again and handles are removed late.                                *)
(***************************************************************************)
EXTENDS FileHandles, QueueLemmas, WellFoundedInduction

Handle == [fd : Fds \cup {0}, file : 1 .. MaxOpens]
Object == [id : Nat \ {0}, owner : Fibers, state : {"live", "closed", "collected"}]

Opens(f) == call[f].op \in {"open", "scandir"}
Uses(f) == call[f].op \in {"use", "close"}
HasOpened(f) == call[f].op = "open" /\ call[f].at # "pool" /\ call[f].result = "ok"
HasClosed(f) == call[f].op = "close" /\ call[f].at # "pool"

(* TypeOK, with the domains of the functions.                              *)
TypeInv ==
  /\ os \in [Fds -> 0 .. MaxOpens] /\ opens \in 0 .. MaxOpens
  /\ store \in [DOMAIN store -> Handle]
  /\ objects \in [DOMAIN objects -> Object] /\ DOMAIN objects \subseteq 1 .. opens
  /\ names \in [1 .. MaxOpens -> 0 .. MaxEntries]
  /\ call \in [Fibers -> Context]
  /\ fiber \in [Fibers -> {"new", "alive", "ended"}]
  /\ script \in BOOLEAN /\ running \in Fibers \cup {NoFiber}
  /\ queue \in Seq(Fibers)

(* Each object has an id of its own, and exactly the live ones are stored. *)
StoreInv ==
  /\ next_id = Cardinality(DOMAIN objects) + 1
  /\ \A file \in DOMAIN objects : objects[file].id < next_id
  /\ \A file, other \in DOMAIN objects : objects[file].id = objects[other].id => file = other
  /\ \A id \in DOMAIN store : /\ store[id].file \in DOMAIN objects
                              /\ objects[store[id].file].id = id
                              /\ objects[store[id].file].state = "live"
  /\ \A file \in DOMAIN objects : objects[file].state = "live" =>
       objects[file].id \in DOMAIN store /\ store[objects[file].id].file = file

(* Every fiber that waits is alive, and queued once it is told so.         *)
QueueInv ==
  /\ IsInjective(queue)
  /\ \A f \in Range(queue) : call[f].op # "none" /\ call[f].at = "queued"
  /\ \A f \in Fibers : call[f].op # "none" => fiber[f] = "alive" /\ running # f
  /\ running # NoFiber => fiber[running] = "alive"

(* What is known of the file that a request is meant for.                  *)
CallInv ==
  /\ \A f \in Fibers : Opens(f) =>
       /\ call[f].file \in (1 .. opens) \ DOMAIN objects
       /\ \A g \in Fibers : Opens(g) /\ call[g].file = call[f].file => g = f
       /\ call[f].op = "scandir" => call[f].fd = 0
       /\ HasOpened(f) => call[f].fd \in Fds
  /\ \A f \in Fibers : Uses(f) =>
       /\ call[f].file \in DOMAIN objects /\ call[f].id = objects[call[f].file].id
       /\ call[f].fd \in Fds
       /\ call[f].id \in DOMAIN store => store[call[f].id].fd = call[f].fd
       /\ SharedHandles \/ objects[call[f].file].owner = f
       /\ objects[call[f].file].state # "collected"

(* A file is open under one descriptor, the one that those know who opened *)
(* it or may use it, and not after it was closed.                          *)
OsInv ==
  /\ \A fd \in Fds : os[fd] # 0 =>
       \/ /\ os[fd] \in DOMAIN objects /\ objects[os[fd]].state # "closed"
       \/ \E f \in Fibers : HasOpened(f) /\ call[f].file = os[fd] /\ call[f].fd = fd
  /\ \A id \in DOMAIN store, fd \in Fds : os[fd] = store[id].file => store[id].fd = fd
  /\ \A f \in Fibers, fd \in Fds : Uses(f) /\ os[fd] = call[f].file =>
       call[f].fd = fd /\ ~HasClosed(f)

(* Names are allocated for a directory only.                               *)
NamesInv ==
  \A file \in 1 .. MaxOpens : names[file] > 0 =>
    \/ \E id \in DOMAIN store : store[id] = [fd |-> 0, file |-> file]
    \/ \E f \in Fibers : /\ call[f].op = "scandir" /\ call[f].file = file
                         /\ call[f].at = "queued" /\ call[f].result = "ok"
    \/ file \in DOMAIN objects /\ objects[file].state = "collected"

(* When every object is used by its owner only, descriptors stand for the  *)
(* files of their handles until the owner has closed them.                 *)
OwnInv ==
  ~SharedHandles =>
    /\ \A f \in Fibers : Uses(f) /\ call[f].at = "pool" => os[call[f].fd] = call[f].file
    /\ \A f \in Fibers : HasOpened(f) => os[call[f].fd] = call[f].file
    /\ \A id \in DOMAIN store :
         \/ store[id].fd = 0
         \/ os[store[id].fd] = store[id].file
         \/ LET f == objects[store[id].file].owner
            IN  HasClosed(f) /\ call[f].file = store[id].file

FilesInv == TypeInv /\ StoreInv /\ QueueInv /\ CallInv /\ OsInv /\ NamesInv /\ OwnInv
-------------------------------------------------------------------------------
(* A set of numbers has a least one, so the lowest free descriptor is one. *)
LEMMA LowestIsFree ==
  ASSUME NEW S \in SUBSET Nat, S # {}
  PROVE  Lowest(S) \in S
<1> DEFINE R == {pair \in Nat \X Nat : pair[1] < pair[2]}
<1>1. IsWellFoundedOn(R, Nat)
  BY NatLessThanWellFounded DEF OpToRel
<1> HIDE DEF R
<1>2. PICK m \in S : \A n \in S : <<n, m>> \notin R
  BY <1>1, WFMin
<1>3. \A n \in S : ~(n < m)
  BY <1>2 DEF R
<1>4. \A n \in S : m <= n
  BY <1>3
<1> QED
  BY <1>4 DEF Lowest

(* Ids count the objects, and so do the calls of open.                     *)
LEMMA IdsAreBounded ==
  ASSUME TypeInv, StoreInv
  PROVE  /\ IsFiniteSet(DOMAIN objects)
         /\ next_id \in 1 .. MaxOpens + 1
         /\ DOMAIN store \subseteq 1 .. next_id - 1
         /\ \A file \in DOMAIN objects : objects[file].id \in 1 .. next_id - 1
<1>1. /\ opens \in Nat /\ opens <= MaxOpens /\ MaxOpens \in Nat
      /\ DOMAIN objects \in SUBSET (1 .. opens)
      /\ \A file \in DOMAIN objects : objects[file].id \in Nat \ {0}
  BY FileHandlesAssumption DEF TypeInv, Object
<1>2. IsFiniteSet(1 .. opens) /\ Cardinality(1 .. opens) = opens
  BY <1>1, FS_Interval
<1>3. IsFiniteSet(DOMAIN objects) /\ Cardinality(DOMAIN objects) <= opens
  BY <1>1, <1>2, FS_Subset
<1>4. Cardinality(DOMAIN objects) \in Nat
  BY <1>3, FS_CardinalityType
<1>5. next_id \in 1 .. MaxOpens + 1
  BY <1>1, <1>3, <1>4 DEF StoreInv
<1>6. \A file \in DOMAIN objects : objects[file].id \in 1 .. next_id - 1
  BY <1>1, <1>5 DEF StoreInv
<1>7. DOMAIN store \subseteq 1 .. next_id - 1
  BY <1>6 DEF StoreInv
<1> QED
  BY <1>3, <1>5, <1>6, <1>7

LEMMA TypesFollow == TypeInv /\ StoreInv => TypeOK
<1> SUFFICES ASSUME TypeInv, StoreInv PROVE TypeOK
  OBVIOUS
<1>1. Range(store) \subseteq Handle
  BY DEF TypeInv, Range
<1>2. Range(objects) \subseteq [id : 1 .. next_id - 1, owner : Fibers,
                                state : {"live", "closed", "collected"}]
  <2> SUFFICES ASSUME NEW file \in DOMAIN objects
               PROVE  objects[file] \in [id : 1 .. next_id - 1, owner : Fibers,
                                         state : {"live", "closed", "collected"}]
    BY DEF Range
  <2>1. objects[file] \in Object /\ objects[file].id \in 1 .. next_id - 1
    BY IdsAreBounded DEF TypeInv
  <2> QED
    BY <2>1 DEF Object
<1> QED
  BY <1>1, <1>2, IdsAreBounded DEF TypeInv, TypeOK, Handle

LEMMA InitInv == Init => FilesInv
<1> SUFFICES ASSUME Init PROVE FilesInv
  OBVIOUS
<1>1. /\ store = <<>> /\ next_id = 1 /\ objects = <<>> /\ opens = 0 /\ queue = <<>>
      /\ DOMAIN store = {} /\ DOMAIN objects = {}
      /\ os = [fd \in Fds |-> 0] /\ names = [file \in 1 .. MaxOpens |-> 0]
      /\ fiber = [f \in Fibers |-> "new"]
      /\ script = TRUE /\ running = NoFiber
      /\ \A f \in Fibers : call[f].op = "none"
  BY DEF Init, StoreInit, NoCall, NewContext
<1>2. TypeInv
  <2>1. call \in [Fibers -> Context]
    BY FileHandlesAssumption DEF Init, NoCall, NewContext, Context
  <2>2. 0 \in 0 .. MaxOpens /\ 0 \in 0 .. MaxEntries
    BY FileHandlesAssumption
  <2>3. store \in [DOMAIN store -> Handle] /\ objects \in [DOMAIN objects -> Object]
    BY <1>1
  <2> QED
    BY <1>1, <2>1, <2>2, <2>3, EmptySeq DEF TypeInv
<1>3. StoreInv
  BY <1>1, FS_EmptySet DEF StoreInv
<1>4. QueueInv
  BY <1>1, RangeEmpty DEF QueueInv
<1>5. CallInv /\ OsInv /\ NamesInv /\ OwnInv
  BY <1>1 DEF CallInv, OsInv, NamesInv, OwnInv, Opens, Uses, HasOpened
<1> QED
  BY <1>2, <1>3, <1>4, <1>5 DEF FilesInv
-------------------------------------------------------------------------------
LEMMA SameFiles ==
  ASSUME FilesInv, UNCHANGED <<os, opens, names, objects, call, storeVars>>
  PROVE  StoreInv' /\ CallInv' /\ OsInv' /\ NamesInv' /\ OwnInv'
<1> USE DEF FilesInv, storeVars
<1>1. StoreInv'
  BY DEF StoreInv
<1>2. CallInv'
  BY DEF CallInv, Opens, Uses, HasOpened
<1>3. OsInv'
  BY DEF OsInv, Uses, HasOpened, HasClosed
<1>4. NamesInv'
  BY DEF NamesInv
<1>5. OwnInv'
  BY DEF OwnInv, Uses, HasOpened, HasClosed
<1> QED
  BY <1>1, <1>2, <1>3, <1>4, <1>5

(* Starting and ending fibers, and the end of the script.                  *)
LEMMA ScheduleKeeps ==
  ASSUME FilesInv, NEW f \in Fibers,
         Fiber_Run(f) \/ EndFiber(f) \/ EndScript \/ UNCHANGED vars
  PROVE  FilesInv'
<1>1. UNCHANGED <<os, opens, names, objects, call, storeVars, queue>>
  BY DEF Fiber_Run, EndFiber, EndScript, vars
<1>2. StoreInv' /\ CallInv' /\ OsInv' /\ NamesInv' /\ OwnInv'
  BY <1>1, SameFiles
<1>3. TypeInv'
  <2>1. /\ fiber' \in [Fibers -> {"new", "alive", "ended"}]
        /\ script' \in BOOLEAN /\ running' \in Fibers \cup {NoFiber}
    BY DEF FilesInv, TypeInv, Fiber_Run, EndFiber, EndScript, vars
  <2> QED
    BY <1>1, <2>1 DEF FilesInv, TypeInv, storeVars
<1>4. QueueInv'
  <2>1. ASSUME NEW g \in Fibers, call'[g].op # "none"
        PROVE  fiber'[g] = "alive" /\ running' # g
    <3>1. fiber[g] = "alive" /\ running # g
      BY <1>1, <2>1 DEF FilesInv, QueueInv
    <3> QED
      BY <3>1, FileHandlesAssumption
      DEF FilesInv, TypeInv, Fiber_Run, EndFiber, EndScript, vars
  <2>2. running' # NoFiber => fiber'[running'] = "alive"
    BY DEF FilesInv, TypeInv, QueueInv, Fiber_Run, EndFiber, EndScript, vars
  <2> QED
    BY <1>1, <2>1, <2>2 DEF FilesInv, QueueInv
<1> QED
  BY <1>2, <1>3, <1>4 DEF FilesInv

(* What a fiber that hands over a request leaves as it was.                *)
LEMMA RequestFrame ==
  ASSUME FilesInv, NEW f \in Fibers, NEW request \in Context, request.at = "pool",
         request.op # "none", opens' \in 0 .. MaxOpens, opens <= opens', Request(f, request)
  PROVE  /\ TypeInv' /\ StoreInv' /\ QueueInv'
         /\ call[f].op = "none" /\ call'[f] = request
         /\ \A g \in Fibers : g # f => call'[g] = call[g]
<1>1. running = f /\ call[f].op = "none" /\ fiber[f] = "alive"
  BY FileHandlesAssumption DEF FilesInv, QueueInv, Request
<1>2. /\ call' \in [Fibers -> Context] /\ call'[f] = request
      /\ \A g \in Fibers : g # f => call'[g] = call[g]
  BY DEF FilesInv, TypeInv, Request
<1>3. TypeInv'
  <2>1. DOMAIN objects \subseteq 1 .. opens'
    BY FileHandlesAssumption DEF FilesInv, TypeInv
  <2> QED
    BY <1>2, <2>1 DEF FilesInv, TypeInv, Request, storeVars
<1>4. StoreInv'
  BY DEF FilesInv, StoreInv, Request, storeVars
<1>5. QueueInv'
  <2>1. Range(queue) \subseteq Fibers
    BY DEF FilesInv, TypeInv, Range
  <2>2. \A g \in Range(queue) : g # f
    BY <1>1 DEF FilesInv, QueueInv
  <2> QED
    BY <1>1, <1>2, <2>1, <2>2, FileHandlesAssumption DEF FilesInv, QueueInv, Request
<1> QED
  BY <1>1, <1>2, <1>3, <1>4, <1>5

(* A call of open numbers a new file.                                      *)
LEMMA OpenKeeps ==
  ASSUME FilesInv, NEW f \in Fibers, FS_Open(f) \/ FS_DirOpen(f)
  PROVE  FilesInv'
<1>1. PICK op \in {"open", "scandir"} : Request(f, NewContext(op, 0, 0, opens + 1))
  BY DEF FS_Open, FS_DirOpen
<1> DEFINE request == NewContext(op, 0, 0, opens + 1)
<1>2. opens' = opens + 1 /\ opens \in 0 .. MaxOpens /\ opens < MaxOpens
  BY DEF FS_Open, FS_DirOpen, FilesInv, TypeInv
<1>3. /\ request \in Context /\ request.at = "pool" /\ request.op = op
      /\ request.fd = 0 /\ request.file = opens + 1
  BY <1>2, FileHandlesAssumption DEF NewContext, Context
<1>4. /\ opens' \in 0 .. MaxOpens /\ opens <= opens'
      /\ 1 .. opens \subseteq 1 .. opens' /\ opens + 1 \in 1 .. opens'
      /\ opens + 1 \notin 1 .. opens
  BY <1>2, FileHandlesAssumption
<1> HIDE DEF request
<1>5. /\ TypeInv' /\ StoreInv' /\ QueueInv'
      /\ call[f].op = "none" /\ call'[f] = request
      /\ \A g \in Fibers : g # f => call'[g] = call[g]
  BY <1>1, <1>3, <1>4, RequestFrame DEF request
<1>6. UNCHANGED <<os, names, objects, store>>
  BY <1>1 DEF Request, storeVars
<1>7. CallInv'
  <2>1. ASSUME NEW g \in Fibers, Opens(g)'
        PROVE  /\ call'[g].file \in (1 .. opens') \ DOMAIN objects'
               /\ \A h \in Fibers : Opens(h)' /\ call'[h].file = call'[g].file => h = g
               /\ call'[g].op = "scandir" => call'[g].fd = 0
               /\ HasOpened(g)' => call'[g].fd \in Fds
    <3>1. DOMAIN objects \subseteq 1 .. opens
      BY DEF FilesInv, TypeInv
    <3>2. \A h \in Fibers : h # f /\ Opens(h)' => call'[h].file \in (1 .. opens) \ DOMAIN objects
      BY <1>5 DEF FilesInv, CallInv, Opens
    <3>3. CASE g = f
      BY <1>3, <1>4, <1>5, <1>6, <3>1, <3>2, <3>3 DEF HasOpened
    <3>4. CASE g # f
      <4>1. Opens(g) /\ call'[g] = call[g]
        BY <1>5, <2>1, <3>4 DEF Opens
      <4>2. \A h \in Fibers : Opens(h)' /\ call'[h].file = call'[g].file => h = g
        <5> SUFFICES ASSUME NEW h \in Fibers, Opens(h)', call'[h].file = call'[g].file
                     PROVE  h = g
          OBVIOUS
        <5>1. h # f
          BY <1>3, <1>4, <1>5, <2>1, <3>2, <3>4
        <5> QED
          BY <1>5, <4>1, <5>1 DEF FilesInv, CallInv, Opens
      <4> QED
        BY <1>4, <1>6, <4>1, <4>2 DEF FilesInv, CallInv, HasOpened
    <3> QED
      BY <3>3, <3>4
  <2>2. ASSUME NEW g \in Fibers, Uses(g)'
        PROVE  Uses(g) /\ call'[g] = call[g]
    BY <1>3, <1>5, <2>2 DEF Uses
  <2> QED
    BY <1>6, <2>1, <2>2 DEF FilesInv, CallInv
<1>8. ASSUME NEW g \in Fibers
      PROVE  /\ Uses(g)' => Uses(g) /\ call'[g] = call[g]
             /\ HasOpened(g)' <=> HasOpened(g)
             /\ HasClosed(g)' <=> HasClosed(g)
             /\ HasOpened(g) \/ HasClosed(g) => call'[g] = call[g]
  BY <1>3, <1>5 DEF Uses, HasOpened, HasClosed
<1>9. OsInv'
  BY <1>6, <1>8 DEF FilesInv, OsInv
<1>10. NamesInv'
  BY <1>3, <1>5, <1>6 DEF FilesInv, NamesInv
<1>11. OwnInv'
  <2> SUFFICES ASSUME ~SharedHandles
               PROVE  OwnInv'
    BY DEF OwnInv
  <2>1. ASSUME NEW id \in DOMAIN store, store[id].fd # 0, os[store[id].fd] # store[id].file
        PROVE  \E g \in Fibers : /\ g = objects[store[id].file].owner
                                  /\ HasClosed(g)' /\ call'[g].file = store[id].file
    <3>1. PICK g : /\ g = objects[store[id].file].owner
                   /\ HasClosed(g) /\ call[g].file = store[id].file
      BY <2>1 DEF FilesInv, OwnInv
    <3>2. g \in Fibers
      BY <3>1 DEF FilesInv, StoreInv, TypeInv, Object
    <3> QED
      BY <1>8, <3>1, <3>2
  <2> QED
    BY <1>6, <1>8, <2>1 DEF FilesInv, OwnInv
<1> QED
  BY <1>5, <1>7, <1>9, <1>10, <1>11 DEF FilesInv
-------------------------------------------------------------------------------
(* An id that is in the store leads to the file of its object.             *)
LEMMA StoredHandle ==
  ASSUME TypeInv, StoreInv, NEW file \in DOMAIN objects, Stored(objects[file].id)
  PROVE  /\ store[objects[file].id] \in Handle /\ store[objects[file].id].file = file
         /\ objects[file].state = "live" /\ file \in 1 .. MaxOpens
<1> DEFINE id == objects[file].id
<1>1. id \in DOMAIN store /\ store[id] \in Handle
  BY DEF Stored, TypeInv
<1>2. store[id].file \in DOMAIN objects /\ objects[store[id].file].id = id
      /\ objects[store[id].file].state = "live"
  BY <1>1 DEF StoreInv
<1>3. store[id].file = file
  BY <1>2 DEF StoreInv
<1> QED
  BY <1>1, <1>2, <1>3 DEF Handle

(* A request takes the descriptor and the id from the handle of its file.  *)
LEMMA UseKeeps ==
  ASSUME FilesInv, NEW f \in Fibers, NEW file \in DOMAIN objects,
         FS_Use(f, file) \/ FS_Close(f, file)
  PROVE  FilesInv'
<1>1. PICK op \in {"use", "close"} : Request(f, OnHandle(op, file))
  BY DEF FS_Use, FS_Close
<1>2. /\ SharedHandles \/ objects[file].owner = f
      /\ objects[file].state # "collected"
      /\ Stored(objects[file].id) /\ ~IsDirectory(file) /\ opens' = opens
  BY DEF FS_Use, FS_Close, Usable
<1>3. PICK id \in Nat, fd \in Fds :
        /\ id = objects[file].id /\ id \in DOMAIN store
        /\ store[id].fd = fd /\ store[id].file = file
        /\ id \in 0 .. MaxOpens /\ file \in 1 .. MaxOpens
  <2>1. store[objects[file].id] \in Handle /\ store[objects[file].id].file = file
    BY <1>2, StoredHandle DEF FilesInv
  <2>2. store[objects[file].id].fd \in Fds
    BY <1>2, <2>1 DEF Handle, IsDirectory
  <2>3. objects[file].id \in 0 .. MaxOpens /\ file \in 1 .. MaxOpens
    <3>1. next_id \in 1 .. MaxOpens + 1 /\ objects[file].id \in 1 .. next_id - 1
      BY IdsAreBounded DEF FilesInv
    <3> QED
      BY <1>2, <3>1, StoredHandle, FileHandlesAssumption DEF FilesInv
  <2>4. objects[file].id \in Nat
    BY <2>3, FileHandlesAssumption
  <2>5. objects[file].id \in DOMAIN store
    BY <1>2 DEF Stored
  <2> QED
    BY <2>1, <2>2, <2>3, <2>4, <2>5
<1> DEFINE request == NewContext(op, id, fd, file)
<1>4. /\ request \in Context /\ request.at = "pool" /\ request.op = op
      /\ request.fd = fd /\ request.file = file /\ request.id = id
  BY <1>3 DEF NewContext, Context
<1>5. Request(f, request)
  BY <1>1, <1>3 DEF OnHandle
<1> HIDE DEF request
<1>6. /\ TypeInv' /\ StoreInv' /\ QueueInv'
      /\ call[f].op = "none" /\ call'[f] = request
      /\ \A g \in Fibers : g # f => call'[g] = call[g]
  <2>1. opens' \in 0 .. MaxOpens /\ opens <= opens'
    BY <1>2, FileHandlesAssumption DEF FilesInv, TypeInv
  <2> QED
    BY <1>4, <1>5, <2>1, RequestFrame
<1>7. UNCHANGED <<os, opens, names, objects, store>>
  BY <1>2, <1>5 DEF Request, storeVars
<1>8. ASSUME NEW g \in Fibers
      PROVE  /\ Opens(g)' => Opens(g) /\ call'[g] = call[g]
             /\ Opens(g) => Opens(g)' /\ call'[g] = call[g]
             /\ HasOpened(g)' <=> HasOpened(g)
             /\ HasClosed(g)' <=> HasClosed(g)
             /\ HasOpened(g) \/ HasClosed(g) => call'[g] = call[g]
             /\ Uses(g)' => g = f \/ (Uses(g) /\ call'[g] = call[g])
  BY <1>4, <1>6 DEF Uses, Opens, HasOpened, HasClosed
<1>9. CallInv'
  <2>1. ASSUME NEW g \in Fibers, Opens(g)'
        PROVE  /\ call'[g].file \in (1 .. opens') \ DOMAIN objects'
               /\ \A h \in Fibers : Opens(h)' /\ call'[h].file = call'[g].file => h = g
               /\ call'[g].op = "scandir" => call'[g].fd = 0
               /\ HasOpened(g)' => call'[g].fd \in Fds
    BY <1>7, <1>8, <2>1 DEF FilesInv, CallInv
  <2>2. ASSUME NEW g \in Fibers, Uses(g)'
        PROVE  /\ call'[g].file \in DOMAIN objects /\ call'[g].id = objects[call'[g].file].id
               /\ call'[g].fd \in Fds
               /\ call'[g].id \in DOMAIN store => store[call'[g].id].fd = call'[g].fd
               /\ SharedHandles \/ objects[call'[g].file].owner = g
               /\ objects[call'[g].file].state # "collected"
    BY <1>2, <1>3, <1>4, <1>6, <1>8, <2>2 DEF FilesInv, CallInv
  <2> QED
    BY <1>7, <2>1, <2>2 DEF CallInv
<1>10. OsInv'
  <2>1. ASSUME NEW g \in Fibers, NEW d \in Fds, Uses(g)', os[d] = call'[g].file
        PROVE  call'[g].fd = d /\ ~HasClosed(g)'
    BY <1>3, <1>4, <1>6, <1>8, <2>1 DEF FilesInv, OsInv, HasClosed
  <2>2. \A d \in Fds : os[d] # 0 =>
          \/ /\ os[d] \in DOMAIN objects /\ objects[os[d]].state # "closed"
          \/ \E g \in Fibers : HasOpened(g)' /\ call'[g].file = os[d] /\ call'[g].fd = d
    BY <1>8 DEF FilesInv, OsInv
  <2>3. \A i \in DOMAIN store, d \in Fds : os[d] = store[i].file => store[i].fd = d
    BY DEF FilesInv, OsInv
  <2> QED
    BY <1>7, <2>1, <2>2, <2>3 DEF OsInv
<1>11. NamesInv'
  BY <1>4, <1>6, <1>7 DEF FilesInv, NamesInv
<1>12. OwnInv'
  <2> SUFFICES ASSUME ~SharedHandles
               PROVE  OwnInv'
    BY DEF OwnInv
  <2>1. ASSUME NEW i \in DOMAIN store, store[i].fd # 0, os[store[i].fd] # store[i].file
        PROVE  \E g \in Fibers : /\ g = objects[store[i].file].owner
                                  /\ HasClosed(g)' /\ call'[g].file = store[i].file
    <3>1. PICK g : /\ g = objects[store[i].file].owner
                   /\ HasClosed(g) /\ call[g].file = store[i].file
      BY <2>1 DEF FilesInv, OwnInv
    <3>2. g \in Fibers
      BY <3>1 DEF FilesInv, StoreInv, TypeInv, Object
    <3> QED
      BY <1>8, <3>1, <3>2
  <2>2. os[fd] = file
    <3>1. ~HasClosed(objects[file].owner)
      BY <1>2, <1>6 DEF HasClosed
    <3> QED
      BY <1>3, <3>1, FileHandlesAssumption DEF FilesInv, OwnInv
  <2>3. ASSUME NEW g \in Fibers, Uses(g)', call'[g].at = "pool"
        PROVE  os[call'[g].fd] = call'[g].file
    BY <1>4, <1>6, <1>8, <2>2, <2>3 DEF FilesInv, OwnInv
  <2>4. ASSUME NEW g \in Fibers, HasOpened(g)' PROVE os[call'[g].fd] = call'[g].file
    BY <1>8, <2>4 DEF FilesInv, OwnInv
  <2> QED
    BY <1>7, <2>1, <2>3, <2>4 DEF OwnInv
<1> QED
  BY <1>6, <1>9, <1>10, <1>11, <1>12 DEF FilesInv

(* Handing out a name leaves a directory with one less.                    *)
LEMMA DirReadKeeps ==
  ASSUME FilesInv, NEW f \in Fibers, NEW file \in DOMAIN objects, FS_DirRead(f, file)
  PROVE  FilesInv'
<1>1. /\ UNCHANGED <<os, opens, objects, call, fiber, script, running, queue, store, next_id>>
      /\ names[file] > 0 /\ names' = [names EXCEPT ![file] = @ - 1]
  BY DEF FS_DirRead, storeVars, EntryIsLeft
<1>2. /\ names' \in [1 .. MaxOpens -> 0 .. MaxEntries]
      /\ \A other \in 1 .. MaxOpens : names'[other] > 0 => names[other] > 0
  <2>1. file \in 1 .. MaxOpens
    BY FileHandlesAssumption DEF FilesInv, TypeInv
  <2>2. names \in [1 .. MaxOpens -> 0 .. MaxEntries]
    BY DEF FilesInv, TypeInv
  <2> QED
    BY <1>1, <2>1, <2>2, FileHandlesAssumption
<1>3. TypeInv'
  BY <1>1, <1>2 DEF FilesInv, TypeInv
<1>4. StoreInv' /\ QueueInv'
  BY <1>1 DEF FilesInv, StoreInv, QueueInv
<1>5. CallInv'
  BY <1>1 DEF FilesInv, CallInv, Opens, Uses, HasOpened
<1>6. OsInv' /\ OwnInv'
  BY <1>1 DEF FilesInv, OsInv, OwnInv, Uses, HasOpened, HasClosed
<1>7. NamesInv'
  BY <1>1, <1>2 DEF FilesInv, NamesInv
<1> QED
  BY <1>3, <1>4, <1>5, <1>6, <1>7 DEF FilesInv
-------------------------------------------------------------------------------
(* An object loses its handle.                                             *)
Loses(file, state) ==
  /\ Remove(objects[file].id)
  /\ objects' = [objects EXCEPT ![file].state = state]

LEMMA HandleRemoved ==
  ASSUME TypeInv, StoreInv, NEW file \in DOMAIN objects,
         NEW state \in {"closed", "collected"}, Loses(file, state)
  PROVE  /\ DOMAIN objects' = DOMAIN objects
         /\ objects' \in [DOMAIN objects' -> Object]
         /\ objects'[file].state = state
         /\ \A other \in DOMAIN objects :
              /\ objects'[other].id = objects[other].id
              /\ objects'[other].owner = objects[other].owner
              /\ other # file => objects'[other] = objects[other]
         /\ store' \in [DOMAIN store' -> Handle]
         /\ \A id \in DOMAIN store' :
              id \in DOMAIN store /\ store'[id] = store[id] /\ store[id].file # file
         /\ \A id \in DOMAIN store :
              id \in DOMAIN store' \/ (id = objects[file].id /\ store[id].file = file)
         /\ StoreInv'
<1>1. /\ DOMAIN objects' = DOMAIN objects
      /\ objects' \in [DOMAIN objects' -> Object]
      /\ objects'[file].state = state
      /\ \A other \in DOMAIN objects :
           /\ objects'[other].id = objects[other].id
           /\ objects'[other].owner = objects[other].owner
           /\ other # file => objects'[other] = objects[other]
  BY DEF Loses, TypeInv, Object
<1>2. /\ DOMAIN store' = DOMAIN store \ {objects[file].id}
      /\ \A id \in DOMAIN store' : store'[id] = store[id]
      /\ store' = [id \in DOMAIN store' |-> store[id]]
      /\ next_id' = next_id
  BY DEF Loses, Remove, Restrict
<1>3. store' \in [DOMAIN store' -> Handle]
  BY <1>2 DEF TypeInv
<1>4. \A id \in DOMAIN store : store[id].file = file <=> id = objects[file].id
  BY DEF StoreInv
<1>5. StoreInv'
  BY <1>1, <1>2, <1>4 DEF StoreInv
<1> QED
  BY <1>1, <1>2, <1>3, <1>4, <1>5

(* An object is closed when its file is not open any more and its names    *)
(* are freed, and collected when no call needs it any more.                *)
LEMMA RemovalKeeps ==
  ASSUME FilesInv, NEW file \in DOMAIN objects, NEW state \in {"closed", "collected"},
         Loses(file, state), UNCHANGED <<os, opens>>,
         \A g \in Fibers : \/ call'[g] = call[g]
                           \/ /\ call[g].op = "close" /\ call[g].file = file
                              /\ call'[g] = NoCall,
         objects[file].state # "collected",
         state = "closed" => \A fd \in Fds : os[fd] # file,
         state = "collected" => \A g \in Fibers : ~(Uses(g) /\ call[g].file = file),
         \A other \in 1 .. MaxOpens : names'[other] > 0 => names[other] > 0,
         \/ state = "collected"
         \/ file \in 1 .. MaxOpens => ~(names'[file] > 0)
         \/ \A id \in DOMAIN store : store[id].file = file => store[id].fd # 0
  PROVE  StoreInv' /\ CallInv' /\ OsInv' /\ NamesInv' /\ OwnInv'
<1>1. /\ DOMAIN objects' = DOMAIN objects
      /\ objects'[file].state = state
      /\ \A other \in DOMAIN objects :
           /\ objects'[other].id = objects[other].id
           /\ objects'[other].owner = objects[other].owner
           /\ other # file => objects'[other] = objects[other]
      /\ \A id \in DOMAIN store' :
           id \in DOMAIN store /\ store'[id] = store[id] /\ store[id].file # file
      /\ \A id \in DOMAIN store :
           id \in DOMAIN store' \/ (id = objects[file].id /\ store[id].file = file)
      /\ StoreInv'
  BY HandleRemoved DEF FilesInv
<1>2. ASSUME NEW g \in Fibers
      PROVE  /\ Opens(g)' <=> Opens(g)
             /\ Opens(g) => call'[g] = call[g]
             /\ HasOpened(g)' <=> HasOpened(g)
             /\ Uses(g)' => Uses(g) /\ call'[g] = call[g]
             /\ HasClosed(g)' => HasClosed(g)
             /\ HasClosed(g) => call[g].file = file \/ (HasClosed(g)' /\ call'[g] = call[g])
  BY DEF Opens, Uses, HasOpened, HasClosed, NoCall, NewContext
<1>3. CallInv'
  <2>1. ASSUME NEW g \in Fibers, Opens(g)'
        PROVE  /\ call'[g].file \in (1 .. opens') \ DOMAIN objects'
               /\ \A h \in Fibers : Opens(h)' /\ call'[h].file = call'[g].file => h = g
               /\ call'[g].op = "scandir" => call'[g].fd = 0
               /\ HasOpened(g)' => call'[g].fd \in Fds
    BY <1>1, <1>2, <2>1 DEF FilesInv, CallInv
  <2>2. ASSUME NEW g \in Fibers, Uses(g)'
        PROVE  /\ call'[g].file \in DOMAIN objects'
               /\ call'[g].id = objects'[call'[g].file].id
               /\ call'[g].fd \in Fds
               /\ call'[g].id \in DOMAIN store' => store'[call'[g].id].fd = call'[g].fd
               /\ SharedHandles \/ objects'[call'[g].file].owner = g
               /\ objects'[call'[g].file].state # "collected"
    <3>1. Uses(g) /\ call'[g] = call[g] /\ call[g].file \in DOMAIN objects
      BY <1>2, <2>2 DEF FilesInv, CallInv
    <3>2. objects'[call[g].file].state # "collected"
      BY <1>1, <3>1 DEF FilesInv, CallInv
    <3> QED
      BY <1>1, <3>1, <3>2 DEF FilesInv, CallInv
  <2> QED
    BY <2>1, <2>2 DEF CallInv
<1>4. OsInv'
  <2>1. ASSUME NEW d \in Fds, os[d] # 0
        PROVE  \/ /\ os[d] \in DOMAIN objects' /\ objects'[os[d]].state # "closed"
               \/ \E g \in Fibers : HasOpened(g)' /\ call'[g].file = os[d] /\ call'[g].fd = d
    <3>1. CASE os[d] \in DOMAIN objects /\ objects[os[d]].state # "closed"
      <4>1. CASE os[d] = file
        BY <1>1, <3>1, <4>1
      <4>2. CASE os[d] # file
        BY <1>1, <3>1, <4>2
      <4> QED
        BY <4>1, <4>2
    <3>2. ASSUME NEW g \in Fibers, HasOpened(g), call[g].file = os[d], call[g].fd = d
          PROVE  HasOpened(g)' /\ call'[g].file = os[d] /\ call'[g].fd = d
      BY <1>2, <3>2 DEF HasOpened, Opens
    <3> QED
      BY <2>1, <3>1, <3>2 DEF FilesInv, OsInv
  <2>2. \A id \in DOMAIN store', d \in Fds : os[d] = store'[id].file => store'[id].fd = d
    BY <1>1 DEF FilesInv, OsInv
  <2>3. ASSUME NEW g \in Fibers, NEW d \in Fds, Uses(g)', os[d] = call'[g].file
        PROVE  call'[g].fd = d /\ ~HasClosed(g)'
    BY <1>2, <2>3 DEF FilesInv, OsInv
  <2> QED
    BY <2>1, <2>2, <2>3 DEF OsInv
<1>5. NamesInv'
  <2> SUFFICES ASSUME NEW other \in 1 .. MaxOpens, names'[other] > 0
               PROVE  \/ \E id \in DOMAIN store' : store'[id] = [fd |-> 0, file |-> other]
                      \/ \E g \in Fibers : /\ call'[g].op = "scandir" /\ call'[g].file = other
                                            /\ call'[g].at = "queued" /\ call'[g].result = "ok"
                      \/ other \in DOMAIN objects' /\ objects'[other].state = "collected"
    BY DEF NamesInv
  <2>1. CASE \E id \in DOMAIN store : store[id] = [fd |-> 0, file |-> other]
    <3>1. PICK id \in DOMAIN store : store[id] = [fd |-> 0, file |-> other]
      BY <2>1
    <3>2. store[id].fd = 0 /\ store[id].file = other
      BY <3>1
    <3>3. CASE id \in DOMAIN store'
      BY <1>1, <3>1, <3>3
    <3>4. CASE id \notin DOMAIN store'
      <4>1. other = file
        BY <1>1, <3>2, <3>4
      <4>2. state = "collected"
        BY <3>2, <4>1
      <4> QED
        BY <1>1, <4>1, <4>2
    <3> QED
      BY <3>3, <3>4
  <2>2. CASE \E g \in Fibers : /\ call[g].op = "scandir" /\ call[g].file = other
                               /\ call[g].at = "queued" /\ call[g].result = "ok"
    BY <1>2, <2>2 DEF Opens
  <2>3. CASE other \in DOMAIN objects /\ objects[other].state = "collected"
    BY <1>1, <2>3
  <2> QED
    BY <2>1, <2>2, <2>3 DEF FilesInv, NamesInv
<1>6. OwnInv'
  <2> SUFFICES ASSUME ~SharedHandles
               PROVE  OwnInv'
    BY DEF OwnInv
  <2>1. ASSUME NEW i \in DOMAIN store', store'[i].fd # 0, os[store'[i].fd] # store'[i].file
        PROVE  \E g \in Fibers : /\ g = objects'[store'[i].file].owner
                                  /\ HasClosed(g)' /\ call'[g].file = store'[i].file
    <3>1. i \in DOMAIN store /\ store'[i] = store[i] /\ store[i].file # file
      BY <1>1
    <3>2. PICK g : /\ g = objects[store[i].file].owner
                   /\ HasClosed(g) /\ call[g].file = store[i].file
      BY <2>1, <3>1 DEF FilesInv, OwnInv
    <3>3. store[i].file \in DOMAIN objects /\ g \in Fibers
      BY <3>1, <3>2 DEF FilesInv, StoreInv, TypeInv, Object
    <3> QED
      BY <1>1, <1>2, <3>1, <3>2, <3>3
  <2>2. ASSUME NEW g \in Fibers, Uses(g)', call'[g].at = "pool"
        PROVE  os[call'[g].fd] = call'[g].file
    BY <1>2, <2>2 DEF FilesInv, OwnInv
  <2>3. ASSUME NEW g \in Fibers, HasOpened(g)' PROVE os[call'[g].fd] = call'[g].file
    BY <1>2, <2>3 DEF FilesInv, OwnInv, HasOpened, Opens
  <2> QED
    BY <2>1, <2>2, <2>3 DEF OwnInv
<1> QED
  BY <1>1, <1>3, <1>4, <1>5, <1>6

(* A directory is closed at once; it has no descriptor.                    *)
LEMMA DirCloseKeeps ==
  ASSUME FilesInv, NEW f \in Fibers, NEW file \in DOMAIN objects, FS_DirClose(f, file)
  PROVE  FilesInv'
<1>1. /\ UNCHANGED <<os, opens, call, fiber, script, running, queue>>
      /\ names' = [names EXCEPT ![file] = 0]
      /\ Loses(file, "closed")
      /\ Stored(objects[file].id) /\ store[objects[file].id].fd = 0
  BY DEF FS_DirClose, NamesAfterClose, Loses, Usable, IsDirectory
<1>2. /\ objects[file].id \in DOMAIN store /\ store[objects[file].id].file = file
      /\ objects[file].state = "live" /\ file \in 1 .. MaxOpens
  BY <1>1, StoredHandle DEF FilesInv, Stored
<1>3. \A d \in Fds : os[d] # file
  <2> SUFFICES ASSUME NEW d \in Fds, os[d] = file PROVE FALSE
    OBVIOUS
  <2>1. d # 0
    BY FileHandlesAssumption
  <2> QED
    BY <1>1, <1>2, <2>1 DEF FilesInv, OsInv
<1>4. /\ names' \in [1 .. MaxOpens -> 0 .. MaxEntries] /\ names'[file] = 0
      /\ \A other \in 1 .. MaxOpens : names'[other] > 0 => names[other] > 0
  BY <1>1, <1>2, FileHandlesAssumption DEF FilesInv, TypeInv
<1>5. ~(names'[file] > 0)
  BY <1>4
<1>6. StoreInv' /\ CallInv' /\ OsInv' /\ NamesInv' /\ OwnInv'
  BY <1>1, <1>2, <1>3, <1>4, <1>5, RemovalKeeps
<1>7. TypeInv'
  <2>1. /\ DOMAIN objects' = DOMAIN objects /\ objects' \in [DOMAIN objects' -> Object]
        /\ store' \in [DOMAIN store' -> Handle]
    BY <1>1, HandleRemoved DEF FilesInv
  <2> QED
    BY <1>1, <1>4, <2>1 DEF FilesInv, TypeInv
<1>8. QueueInv'
  BY <1>1 DEF FilesInv, QueueInv
<1> QED
  BY <1>6, <1>7, <1>8 DEF FilesInv

(* An object that a call in progress uses is not finalized.                *)
LEMMA FreeKeeps ==
  ASSUME FilesInv, NEW file \in DOMAIN objects, HANDLES_Free(file)
  PROVE  FilesInv'
<1>1. /\ UNCHANGED <<os, opens, names, call, fiber, script, running, queue>>
      /\ Loses(file, "collected") /\ objects[file].state # "collected"
  BY DEF HANDLES_Free, Loses
<1>2. \A g \in Fibers : ~(Uses(g) /\ call[g].file = file)
  BY DEF HANDLES_Free, Uses
<1>3. StoreInv' /\ CallInv' /\ OsInv' /\ NamesInv' /\ OwnInv'
  BY <1>1, <1>2, RemovalKeeps
<1>4. TypeInv'
  <2>1. /\ DOMAIN objects' = DOMAIN objects /\ objects' \in [DOMAIN objects' -> Object]
        /\ store' \in [DOMAIN store' -> Handle]
    BY <1>1, HandleRemoved DEF FilesInv
  <2> QED
    BY <1>1, <2>1 DEF FilesInv, TypeInv
<1>5. QueueInv'
  BY <1>1 DEF FilesInv, QueueInv
<1> QED
  BY <1>3, <1>4, <1>5 DEF FilesInv
-------------------------------------------------------------------------------
(* The three things that executing a request can do.                       *)
OpensAt(f, d) ==
  /\ call[f].op = "open" /\ call'[f].result = "ok" /\ call'[f].fd = d
  /\ os[d] = 0 /\ os' = [os EXCEPT ![d] = call[f].file]

OnlyAnswers(f) ==
  /\ call[f].op # "close" /\ call'[f].fd = call[f].fd
  /\ call[f].op = "open" => call'[f].result = "error"
  /\ os' = os

ClosesFile(f) ==
  /\ call[f].op = "close" /\ call'[f].fd = call[f].fd
  /\ os' = [os EXCEPT ![call[f].fd] = 0]

LEMMA ExecuteFrame ==
  ASSUME FilesInv, NEW f \in Fibers, Execute(f)
  PROVE  /\ UNCHANGED <<opens, names, objects, fiber, script, running, queue, store, next_id>>
         /\ call[f].op # "none" /\ call[f].at = "pool"
         /\ call'[f].op = call[f].op /\ call'[f].id = call[f].id
         /\ call'[f].file = call[f].file /\ call'[f].at = "done"
         /\ \A g \in Fibers : g # f => call'[g] = call[g]
         /\ call' \in [Fibers -> Context]
         /\ (\E d \in Fds : OpensAt(f, d)) \/ OnlyAnswers(f) \/ ClosesFile(f)
<1>1. /\ UNCHANGED <<opens, names, objects, fiber, script, running, queue, store, next_id>>
      /\ call[f].op # "none" /\ call[f].at = "pool" /\ call[f] \in Context
      /\ call \in [Fibers -> Context]
  BY DEF Execute, storeVars, FilesInv, TypeInv
<1>2. ASSUME NEW result \in {"ok", "error"},
             call' = [call EXCEPT ![f] = [@ EXCEPT !.at = "done", !.result = result]]
      PROVE  /\ call'[f].op = call[f].op /\ call'[f].id = call[f].id
             /\ call'[f].file = call[f].file /\ call'[f].at = "done"
             /\ call'[f].fd = call[f].fd /\ call'[f].result = result
             /\ \A g \in Fibers : g # f => call'[g] = call[g]
             /\ call' \in [Fibers -> Context]
  BY <1>1, <1>2 DEF Context
<1>3. CASE /\ call[f].op = "open" /\ Free # {}
           /\ os' = [os EXCEPT ![Lowest(Free)] = call[f].file]
           /\ call' = [call EXCEPT ![f] = [@ EXCEPT !.at = "done", !.result = "ok",
                                                    !.fd = Lowest(Free)]]
  <2>1. Free \in SUBSET Nat
    BY FileHandlesAssumption DEF Free
  <2>2. PICK d \in Fds : d = Lowest(Free) /\ os[d] = 0
    BY <1>3, <2>1, LowestIsFree DEF Free
  <2>3. call' = [call EXCEPT ![f] = [@ EXCEPT !.at = "done", !.result = "ok", !.fd = d]]
    BY <1>3, <2>2
  <2>4. /\ call'[f].op = call[f].op /\ call'[f].id = call[f].id
        /\ call'[f].file = call[f].file /\ call'[f].at = "done"
        /\ call'[f].fd = d /\ call'[f].result = "ok"
        /\ \A g \in Fibers : g # f => call'[g] = call[g]
        /\ call' \in [Fibers -> Context]
    BY <1>1, <2>3 DEF Context
  <2> QED
    BY <1>1, <1>3, <2>2, <2>4 DEF OpensAt
<1>4. CASE /\ call[f].op \in {"open", "scandir", "use"} /\ UNCHANGED os
           /\ call' = [call EXCEPT ![f] = [@ EXCEPT !.at = "done", !.result = "error"]]
  BY <1>1, <1>2, <1>4 DEF OnlyAnswers
<1>5. CASE /\ call[f].op \in {"scandir", "use"} /\ UNCHANGED os
           /\ call' = [call EXCEPT ![f] = [@ EXCEPT !.at = "done", !.result = "ok"]]
  BY <1>1, <1>2, <1>5 DEF OnlyAnswers
<1>6. CASE /\ call[f].op = "close" /\ os' = [os EXCEPT ![call[f].fd] = 0]
           /\ \E result \in {"ok", "error"} :
                call' = [call EXCEPT ![f] = [@ EXCEPT !.at = "done", !.result = result]]
  BY <1>1, <1>2, <1>6 DEF ClosesFile
<1> QED
  BY <1>3, <1>4, <1>5, <1>6 DEF Execute

(* A descriptor changes hands only when it is free, or when it stands for  *)
(* the file that is to be closed.                                          *)
LEMMA ExecuteKeeps ==
  ASSUME FilesInv, NEW f \in Fibers, Execute(f)
  PROVE  FilesInv'
<1>1. /\ UNCHANGED <<opens, names, objects, fiber, script, running, queue, store, next_id>>
      /\ call[f].op # "none" /\ call[f].at = "pool"
      /\ call'[f].op = call[f].op /\ call'[f].id = call[f].id
      /\ call'[f].file = call[f].file /\ call'[f].at = "done"
      /\ \A g \in Fibers : g # f => call'[g] = call[g]
      /\ call' \in [Fibers -> Context]
      /\ (\E d \in Fds : OpensAt(f, d)) \/ OnlyAnswers(f) \/ ClosesFile(f)
  BY ExecuteFrame
<1>2. ASSUME NEW g \in Fibers
      PROVE  /\ Opens(g)' <=> Opens(g)
             /\ Uses(g)' <=> Uses(g)
             /\ call'[g].op = call[g].op /\ call'[g].file = call[g].file
             /\ call'[g].id = call[g].id
             /\ Uses(g) => call'[g].fd = call[g].fd
             /\ g # f => /\ HasOpened(g)' <=> HasOpened(g)
                         /\ HasClosed(g)' <=> HasClosed(g)
             /\ HasOpened(g) \/ HasClosed(g) => g # f
  BY <1>1 DEF Opens, Uses, HasOpened, HasClosed, OpensAt, OnlyAnswers, ClosesFile
<1>3. os' \in [Fds -> 0 .. MaxOpens]
  <2>1. call[f].file \in 0 .. MaxOpens /\ 0 \in 0 .. MaxOpens
    BY FileHandlesAssumption DEF FilesInv, TypeInv, Context
  <2> QED
    BY <1>1, <2>1 DEF FilesInv, TypeInv, OpensAt, OnlyAnswers, ClosesFile
<1>4. TypeInv'
  BY <1>1, <1>3 DEF FilesInv, TypeInv
<1>5. StoreInv'
  BY <1>1 DEF FilesInv, StoreInv
<1>6. QueueInv'
  <2>1. Range(queue) \subseteq Fibers
    BY DEF FilesInv, TypeInv, Range
  <2>2. \A g \in Range(queue) : g # f
    BY <1>1 DEF FilesInv, QueueInv
  <2> QED
    BY <1>1, <2>1, <2>2 DEF FilesInv, QueueInv
<1>7. CallInv'
  <2>1. ASSUME NEW g \in Fibers, Opens(g)'
        PROVE  /\ call'[g].file \in (1 .. opens') \ DOMAIN objects'
               /\ \A h \in Fibers : Opens(h)' /\ call'[h].file = call'[g].file => h = g
               /\ call'[g].op = "scandir" => call'[g].fd = 0
               /\ HasOpened(g)' => call'[g].fd \in Fds
    <3>1. /\ call[g].file \in (1 .. opens) \ DOMAIN objects
          /\ \A h \in Fibers : Opens(h) /\ call[h].file = call[g].file => h = g
      BY <1>2, <2>1 DEF FilesInv, CallInv
    <3>2. call'[g].op = "scandir" => call'[g].fd = 0
      BY <1>1, <1>2, <2>1 DEF FilesInv, CallInv, OpensAt, OnlyAnswers, ClosesFile
    <3>3. HasOpened(g)' => call'[g].fd \in Fds
      BY <1>1, <1>2, <2>1 DEF FilesInv, CallInv, HasOpened, OpensAt, OnlyAnswers, ClosesFile
    <3> QED
      BY <1>1, <1>2, <3>1, <3>2, <3>3
  <2>2. ASSUME NEW g \in Fibers, Uses(g)'
        PROVE  /\ call'[g].file \in DOMAIN objects' /\ call'[g].id = objects'[call'[g].file].id
               /\ call'[g].fd \in Fds
               /\ call'[g].id \in DOMAIN store' => store'[call'[g].id].fd = call'[g].fd
               /\ SharedHandles \/ objects'[call'[g].file].owner = g
               /\ objects'[call'[g].file].state # "collected"
    BY <1>1, <1>2, <2>2 DEF FilesInv, CallInv
  <2> QED
    BY <2>1, <2>2 DEF CallInv
<1>8. NamesInv'
  <2>1. ASSUME NEW g \in Fibers, call[g].at = "queued" PROVE call'[g] = call[g]
    BY <1>1, <2>1
  <2> QED
    BY <1>1, <2>1 DEF FilesInv, NamesInv
<1>9. \A file \in DOMAIN objects : file # 0
  BY FileHandlesAssumption DEF FilesInv, TypeInv
<1>10. CASE \E d \in Fds : OpensAt(f, d)
  <2>1. PICK d \in Fds : OpensAt(f, d)
    BY <1>10
  <2>2. /\ os'[d] = call[f].file /\ os[d] = 0 /\ call'[f].fd = d
        /\ \A e \in Fds : e # d => os'[e] = os[e]
        /\ call[f].file \notin DOMAIN objects
        /\ HasOpened(f)' /\ ~Uses(f) /\ ~HasClosed(f)'
    BY <1>1, <2>1 DEF OpensAt, FilesInv, TypeInv, CallInv, Opens, Uses, HasOpened, HasClosed
  <2>3. \A file \in DOMAIN objects, e \in Fds : os'[e] = file <=> os[e] = file
    BY <1>9, <2>2
  <2>4. OsInv'
    <3>1. ASSUME NEW e \in Fds, os'[e] # 0
          PROVE  \/ /\ os'[e] \in DOMAIN objects /\ objects[os'[e]].state # "closed"
                 \/ \E g \in Fibers : HasOpened(g)' /\ call'[g].file = os'[e] /\ call'[g].fd = e
      <4>1. CASE e = d
        BY <1>1, <2>2, <4>1
      <4>2. CASE e # d
        BY <1>1, <1>2, <2>2, <3>1, <4>2 DEF FilesInv, OsInv
      <4> QED
        BY <4>1, <4>2
    <3>2. ASSUME NEW i \in DOMAIN store, NEW e \in Fds, os'[e] = store[i].file
          PROVE  store[i].fd = e
      BY <2>3, <3>2 DEF FilesInv, StoreInv, OsInv
    <3>3. ASSUME NEW g \in Fibers, NEW e \in Fds, Uses(g)', os'[e] = call'[g].file
          PROVE  call'[g].fd = e /\ ~HasClosed(g)'
      BY <1>2, <2>2, <2>3, <3>3 DEF FilesInv, CallInv, OsInv
    <3> QED
      BY <1>1, <3>1, <3>2, <3>3 DEF OsInv
  <2>5. OwnInv'
    <3> SUFFICES ASSUME ~SharedHandles
                 PROVE  OwnInv'
      BY DEF OwnInv
    <3>1. ASSUME NEW g \in Fibers, Uses(g)', call'[g].at = "pool"
          PROVE  os'[call'[g].fd] = call'[g].file
      BY <1>1, <1>2, <2>3, <3>1 DEF FilesInv, CallInv, OwnInv
    <3>2. ASSUME NEW g \in Fibers, HasOpened(g)' PROVE os'[call'[g].fd] = call'[g].file
      <4>1. CASE g = f
        BY <1>1, <2>2, <4>1
      <4>2. CASE g # f
        <5>1. HasOpened(g) /\ call'[g] = call[g]
          BY <1>1, <1>2, <3>2, <4>2
        <5>2. call[g].fd \in Fds /\ os[call[g].fd] = call[g].file /\ call[g].file # 0
          BY <5>1, FileHandlesAssumption
          DEF FilesInv, TypeInv, CallInv, OwnInv, HasOpened, Opens
        <5> QED
          BY <2>2, <5>1, <5>2
      <4> QED
        BY <4>1, <4>2
    <3>3. ASSUME NEW i \in DOMAIN store, store[i].fd # 0, os'[store[i].fd] # store[i].file
          PROVE  \E g \in Fibers : /\ g = objects[store[i].file].owner
                                    /\ HasClosed(g)' /\ call'[g].file = store[i].file
      <4>1. store[i].file \in DOMAIN objects /\ store[i].fd \in Fds
        BY <3>3 DEF FilesInv, StoreInv, TypeInv, Handle
      <4>2. PICK g : /\ g = objects[store[i].file].owner
                     /\ HasClosed(g) /\ call[g].file = store[i].file
        BY <2>3, <3>3, <4>1 DEF FilesInv, OwnInv
      <4>3. g \in Fibers
        BY <4>1, <4>2 DEF FilesInv, TypeInv, Object
      <4> QED
        BY <1>1, <1>2, <4>2, <4>3
    <3> QED
      BY <1>1, <3>1, <3>2, <3>3 DEF OwnInv
  <2> QED
    BY <1>4, <1>5, <1>6, <1>7, <1>8, <2>4, <2>5 DEF FilesInv
<1>11. CASE OnlyAnswers(f)
  <2>1. os' = os /\ call'[f].fd = call[f].fd
    BY <1>11 DEF OnlyAnswers
  <2>2. ASSUME NEW g \in Fibers
        PROVE  /\ HasOpened(g)' <=> HasOpened(g)
               /\ HasClosed(g)' <=> HasClosed(g)
               /\ call'[g].fd = call[g].fd
    BY <1>1, <1>11 DEF OnlyAnswers, HasOpened, HasClosed
  <2>3. OsInv'
    BY <1>1, <1>2, <2>1, <2>2 DEF FilesInv, OsInv
  <2>4. OwnInv'
    <3> SUFFICES ASSUME ~SharedHandles
                 PROVE  OwnInv'
      BY DEF OwnInv
    <3>1. ASSUME NEW g \in Fibers, Uses(g)', call'[g].at = "pool"
          PROVE  os[call'[g].fd] = call'[g].file
      BY <1>1, <1>2, <2>2, <3>1 DEF FilesInv, OwnInv
    <3>2. ASSUME NEW g \in Fibers, HasOpened(g)' PROVE os[call'[g].fd] = call'[g].file
      BY <1>2, <2>2, <3>2 DEF FilesInv, OwnInv
    <3>3. ASSUME NEW i \in DOMAIN store, store[i].fd # 0, os[store[i].fd] # store[i].file
          PROVE  \E g \in Fibers : /\ g = objects[store[i].file].owner
                                    /\ HasClosed(g)' /\ call'[g].file = store[i].file
      <4>1. PICK g : /\ g = objects[store[i].file].owner
                     /\ HasClosed(g) /\ call[g].file = store[i].file
        BY <3>3 DEF FilesInv, OwnInv
      <4>2. g \in Fibers
        BY <4>1 DEF FilesInv, StoreInv, TypeInv, Object
      <4> QED
        BY <1>2, <2>2, <4>1, <4>2
    <3> QED
      BY <1>1, <2>1, <3>1, <3>2, <3>3 DEF OwnInv
  <2> QED
    BY <1>4, <1>5, <1>6, <1>7, <1>8, <2>3, <2>4 DEF FilesInv
<1>12. CASE ClosesFile(f)
  <2>1. PICK d \in Fds : /\ d = call[f].fd /\ os'[d] = 0 /\ call'[f].fd = d
                         /\ \A e \in Fds : e # d => os'[e] = os[e]
    BY <1>12 DEF ClosesFile, FilesInv, TypeInv, CallInv, Uses
  <2>2. /\ Uses(f) /\ ~HasOpened(f)' /\ HasClosed(f)' /\ call[f].file \in DOMAIN objects
    BY <1>1, <1>12 DEF ClosesFile, FilesInv, CallInv, Uses, HasOpened, HasClosed
  <2>3. \A file, e : file # 0 /\ e \in Fds /\ os'[e] = file => e # d /\ os[e] = file
    BY <2>1
  <2>4. OsInv'
    <3>1. ASSUME NEW e \in Fds, os'[e] # 0
          PROVE  \/ /\ os'[e] \in DOMAIN objects /\ objects[os'[e]].state # "closed"
                 \/ \E g \in Fibers : HasOpened(g)' /\ call'[g].file = os'[e] /\ call'[g].fd = e
      <4>1. os'[e] = os[e]
        BY <2>1, <3>1
      <4>2. CASE \E g \in Fibers : HasOpened(g) /\ call[g].file = os[e] /\ call[g].fd = e
        BY <1>1, <1>2, <4>1, <4>2
      <4> QED
        BY <3>1, <4>1, <4>2 DEF FilesInv, OsInv
    <3>2. ASSUME NEW i \in DOMAIN store, NEW e \in Fds, os'[e] = store[i].file
          PROVE  store[i].fd = e
      BY <1>9, <2>3, <3>2 DEF FilesInv, StoreInv, OsInv
    <3>3. ASSUME NEW g \in Fibers, NEW e \in Fds, Uses(g)', os'[e] = call'[g].file
          PROVE  call'[g].fd = e /\ ~HasClosed(g)'
      <4>1. /\ Uses(g) /\ call[g].file = call'[g].file /\ call[g].file \in DOMAIN objects
            /\ call'[g].fd = call[g].fd
        BY <1>2, <3>3 DEF FilesInv, CallInv
      <4>2. e # d /\ os[e] = call[g].file
        BY <1>9, <2>3, <3>3, <4>1
      <4>3. call[g].fd = e /\ ~HasClosed(g)
        BY <4>1, <4>2 DEF FilesInv, OsInv
      <4>4. g # f
        BY <2>1, <4>2, <4>3
      <4> QED
        BY <1>2, <4>1, <4>3, <4>4
    <3> QED
      BY <1>1, <3>1, <3>2, <3>3 DEF OsInv
  <2>5. OwnInv'
    <3> SUFFICES ASSUME ~SharedHandles
                 PROVE  OwnInv'
      BY DEF OwnInv
    <3>1. os[d] = call[f].file /\ objects[call[f].file].owner = f
      BY <1>1, <2>1, <2>2 DEF FilesInv, CallInv, OwnInv
    <3>2. ASSUME NEW g \in Fibers, Uses(g)', call'[g].at = "pool"
          PROVE  os'[call'[g].fd] = call'[g].file
      <4>1. g # f /\ Uses(g) /\ call'[g] = call[g]
        BY <1>1, <1>2, <3>2
      <4>2. /\ os[call[g].fd] = call[g].file /\ call[g].fd \in Fds
            /\ objects[call[g].file].owner = g
        BY <3>2, <4>1 DEF FilesInv, CallInv, OwnInv
      <4> QED
        BY <2>1, <3>1, <4>1, <4>2
    <3>3. ASSUME NEW g \in Fibers, HasOpened(g)' PROVE os'[call'[g].fd] = call'[g].file
      <4>1. HasOpened(g) /\ call'[g] = call[g]
        BY <1>1, <1>2, <2>2, <3>3
      <4>2. /\ os[call[g].fd] = call[g].file /\ call[g].fd \in Fds
            /\ call[g].file \notin DOMAIN objects
        BY <4>1 DEF FilesInv, CallInv, OwnInv, HasOpened, Opens
      <4> QED
        BY <2>1, <2>2, <3>1, <4>1, <4>2
    <3>4. ASSUME NEW i \in DOMAIN store, store[i].fd # 0, os'[store[i].fd] # store[i].file
          PROVE  \E g \in Fibers : /\ g = objects[store[i].file].owner
                                    /\ HasClosed(g)' /\ call'[g].file = store[i].file
      <4>1. store[i].file \in DOMAIN objects /\ store[i].fd \in Fds
        BY <3>4 DEF FilesInv, StoreInv, TypeInv, Handle
      <4>2. CASE os[store[i].fd] = store[i].file
        <5>1. store[i].fd = d /\ store[i].file = call[f].file
          BY <2>1, <3>1, <3>4, <4>1, <4>2
        <5> QED
          BY <1>1, <2>2, <3>1, <5>1
      <4>3. CASE os[store[i].fd] # store[i].file
        <5>1. PICK g : /\ g = objects[store[i].file].owner
                       /\ HasClosed(g) /\ call[g].file = store[i].file
          BY <3>4, <4>3 DEF FilesInv, OwnInv
        <5>2. g \in Fibers
          BY <4>1, <5>1 DEF FilesInv, TypeInv, Object
        <5> QED
          BY <1>1, <1>2, <5>1, <5>2
      <4> QED
        BY <4>2, <4>3
    <3> QED
      BY <1>1, <3>2, <3>3, <3>4 DEF OwnInv
  <2> QED
    BY <1>4, <1>5, <1>6, <1>7, <1>8, <2>4, <2>5 DEF FilesInv
<1> QED
  BY <1>1, <1>10, <1>11, <1>12
-------------------------------------------------------------------------------
(* The names that the callback copies belong to the context it queues.     *)
LEMMA CallbackKeeps ==
  ASSUME FilesInv, NEW f \in Fibers, OnFSCallback(f)
  PROVE  FilesInv'
<1>1. /\ UNCHANGED <<os, opens, objects, fiber, script, running, store, next_id>>
      /\ call[f].op # "none" /\ call[f].at = "done" /\ queue' = Append(queue, f)
      /\ IF call[f].op = "scandir" /\ call[f].result = "ok"
           THEN \E n \in 0 .. MaxEntries : names' = [names EXCEPT ![call[f].file] = n]
           ELSE UNCHANGED names
  BY DEF OnFSCallback, storeVars
<1>2. /\ call'[f].op = call[f].op /\ call'[f].id = call[f].id /\ call'[f].fd = call[f].fd
      /\ call'[f].file = call[f].file /\ call'[f].result = call[f].result
      /\ call'[f].at = "queued"
      /\ \A g \in Fibers : g # f => call'[g] = call[g]
      /\ call' \in [Fibers -> Context]
  BY DEF OnFSCallback, FilesInv, TypeInv, Context
<1>3. ASSUME NEW g \in Fibers
      PROVE  /\ Opens(g)' <=> Opens(g)
             /\ Uses(g)' <=> Uses(g)
             /\ HasOpened(g)' <=> HasOpened(g)
             /\ HasClosed(g)' <=> HasClosed(g)
             /\ call'[g].op = call[g].op /\ call'[g].id = call[g].id
             /\ call'[g].fd = call[g].fd /\ call'[g].file = call[g].file
             /\ call'[g].at = "pool" => call[g].at = "pool"
  BY <1>1, <1>2 DEF Opens, Uses, HasOpened, HasClosed
<1>4. /\ names' \in [1 .. MaxOpens -> 0 .. MaxEntries]
      /\ \A file \in 1 .. MaxOpens : names'[file] # names[file] =>
           call[f].op = "scandir" /\ call[f].result = "ok" /\ call[f].file = file
  BY <1>1 DEF FilesInv, TypeInv
<1>5. f \notin Range(queue) /\ queue \in Seq(Fibers) /\ IsInjective(queue)
  BY <1>1 DEF FilesInv, TypeInv, QueueInv
<1>6. Range(queue') = Range(queue) \cup {f} /\ IsInjective(queue')
  BY <1>1, <1>5, RangeAppend
<1>7. TypeInv'
  <2>1. queue' \in Seq(Fibers)
    BY <1>1, <1>5
  <2> QED
    BY <1>1, <1>2, <1>4, <2>1 DEF FilesInv, TypeInv
<1>8. StoreInv'
  BY <1>1 DEF FilesInv, StoreInv
<1>9. QueueInv'
  <2>1. Range(queue) \subseteq Fibers
    BY <1>5 DEF Range
  <2> QED
    BY <1>1, <1>2, <1>6, <2>1 DEF FilesInv, QueueInv
<1>10. CallInv'
  <2>1. ASSUME NEW g \in Fibers, Opens(g)'
        PROVE  /\ call'[g].file \in (1 .. opens') \ DOMAIN objects'
               /\ \A h \in Fibers : Opens(h)' /\ call'[h].file = call'[g].file => h = g
               /\ call'[g].op = "scandir" => call'[g].fd = 0
               /\ HasOpened(g)' => call'[g].fd \in Fds
    BY <1>1, <1>3, <2>1 DEF FilesInv, CallInv
  <2>2. ASSUME NEW g \in Fibers, Uses(g)'
        PROVE  /\ call'[g].file \in DOMAIN objects' /\ call'[g].id = objects'[call'[g].file].id
               /\ call'[g].fd \in Fds
               /\ call'[g].id \in DOMAIN store' => store'[call'[g].id].fd = call'[g].fd
               /\ SharedHandles \/ objects'[call'[g].file].owner = g
               /\ objects'[call'[g].file].state # "collected"
    BY <1>1, <1>3, <2>2 DEF FilesInv, CallInv
  <2> QED
    BY <2>1, <2>2 DEF CallInv
<1>11. OsInv'
  BY <1>1, <1>3 DEF FilesInv, OsInv
<1>12. NamesInv'
  <2> SUFFICES ASSUME NEW file \in 1 .. MaxOpens, names'[file] > 0
               PROVE  \/ \E id \in DOMAIN store : store[id] = [fd |-> 0, file |-> file]
                      \/ \E g \in Fibers : /\ call'[g].op = "scandir" /\ call'[g].file = file
                                            /\ call'[g].at = "queued" /\ call'[g].result = "ok"
                      \/ file \in DOMAIN objects /\ objects[file].state = "collected"
    BY <1>1 DEF NamesInv
  <2>1. CASE names'[file] # names[file]
    BY <1>2, <1>4, <2>1
  <2>2. CASE names'[file] = names[file]
    <3>1. ASSUME NEW g \in Fibers, call[g].at = "queued" PROVE call'[g] = call[g]
      BY <1>1, <1>2, <3>1
    <3> QED
      BY <2>2, <3>1 DEF FilesInv, NamesInv
  <2> QED
    BY <2>1, <2>2
<1>13. OwnInv'
  <2> SUFFICES ASSUME ~SharedHandles
               PROVE  OwnInv'
    BY DEF OwnInv
  <2>1. ASSUME NEW i \in DOMAIN store, store[i].fd # 0, os[store[i].fd] # store[i].file
        PROVE  \E g \in Fibers : /\ g = objects[store[i].file].owner
                                  /\ HasClosed(g)' /\ call'[g].file = store[i].file
    <3>1. PICK g : /\ g = objects[store[i].file].owner
                   /\ HasClosed(g) /\ call[g].file = store[i].file
      BY <2>1 DEF FilesInv, OwnInv
    <3>2. g \in Fibers
      BY <3>1 DEF FilesInv, StoreInv, TypeInv, Object
    <3> QED
      BY <1>3, <3>1, <3>2
  <2>2. ASSUME NEW g \in Fibers, Uses(g)', call'[g].at = "pool"
        PROVE  os[call'[g].fd] = call'[g].file
    BY <1>3, <2>2 DEF FilesInv, OwnInv
  <2>3. ASSUME NEW g \in Fibers, HasOpened(g)' PROVE os[call'[g].fd] = call'[g].file
    BY <1>3, <2>3 DEF FilesInv, OwnInv
  <2> QED
    BY <1>1, <2>1, <2>2, <2>3 DEF OwnInv
<1> QED
  BY <1>7, <1>8, <1>9, <1>10, <1>11, <1>12, <1>13 DEF FilesInv
-------------------------------------------------------------------------------
(* The fiber that goes on has waited, and nothing else waits for it.       *)
LEMMA ResumeFrame ==
  ASSUME FilesInv, ResumeNext
  PROVE  \E f \in Fibers :
           /\ f = Head(queue)
           /\ call[f].op # "none" /\ call[f].at = "queued"
           /\ call'[f] = NoCall /\ \A g \in Fibers : g # f => call'[g] = call[g]
           /\ call' \in [Fibers -> Context]
           /\ queue' \in Seq(Fibers) /\ running' \in Fibers
           /\ UNCHANGED <<os, opens, names, fiber, script>>
           /\ QueueInv'
<1>1. /\ queue # <<>> /\ queue \in Seq(Fibers) /\ queue' = Tail(queue)
      /\ IsInjective(queue) /\ running' = Head(queue)
      /\ call' = [call EXCEPT ![Head(queue)] = NoCall]
      /\ UNCHANGED <<os, opens, names, fiber, script>>
  BY DEF ResumeNext, FilesInv, TypeInv, QueueInv
<1>2. PICK f \in Fibers : f = Head(queue)
  BY <1>1
<1>3. /\ Range(queue) = {f} \cup Range(queue')
      /\ f \notin Range(queue') /\ IsInjective(queue')
  BY <1>1, <1>2, RangeTail
<1>4. call[f].op # "none" /\ call[f].at = "queued" /\ fiber[f] = "alive"
  BY <1>2, <1>3 DEF FilesInv, QueueInv
<1>5. NoCall \in Context /\ NoCall.op = "none"
  BY FileHandlesAssumption DEF NoCall, NewContext, Context
<1>6. /\ call'[f] = NoCall /\ \A g \in Fibers : g # f => call'[g] = call[g]
      /\ call' \in [Fibers -> Context]
  BY <1>1, <1>2, <1>5 DEF FilesInv, TypeInv
<1>7. queue' \in Seq(Fibers)
  BY <1>1
<1>8. Range(queue) \subseteq Fibers
  BY <1>1 DEF Range
<1>9. QueueInv'
  BY <1>1, <1>2, <1>3, <1>4, <1>5, <1>6, <1>8 DEF FilesInv, QueueInv
<1> QED
  BY <1>1, <1>2, <1>4, <1>6, <1>7, <1>9

(* The fiber has closed its file: the handle goes, whatever the result.    *)
LEMMA ResumeAfterClose ==
  ASSUME FilesInv, ResumeNext, AfterClose(Head(queue))
  PROVE  FilesInv'
<1>1. PICK f \in Fibers :
           /\ f = Head(queue)
           /\ call[f].op # "none" /\ call[f].at = "queued"
           /\ call'[f] = NoCall /\ \A g \in Fibers : g # f => call'[g] = call[g]
           /\ call' \in [Fibers -> Context]
           /\ queue' \in Seq(Fibers) /\ running' \in Fibers
           /\ UNCHANGED <<os, opens, names, fiber, script>>
           /\ QueueInv'
  BY ResumeFrame
<1>2. call[f].op = "close" /\ Uses(f) /\ HasClosed(f)
  BY <1>1 DEF AfterClose, Uses, HasClosed
<1>3. PICK file \in DOMAIN objects :
        /\ file = call[f].file /\ call[f].id = objects[file].id
        /\ objects[file].state # "collected"
  BY <1>2 DEF FilesInv, CallInv
<1>4. Loses(file, "closed")
  BY <1>1, <1>3 DEF ResumeNext, Loses
<1>5. \A d \in Fds : os[d] # file
  BY <1>2, <1>3 DEF FilesInv, OsInv
<1>6. \A id \in DOMAIN store : store[id].file = file => store[id].fd # 0
  <2> SUFFICES ASSUME NEW id \in DOMAIN store, store[id].file = file
               PROVE  store[id].fd # 0
    OBVIOUS
  <2>1. id = call[f].id
    BY <1>3 DEF FilesInv, StoreInv
  <2>2. store[id].fd \in Fds
    BY <1>2, <2>1 DEF FilesInv, CallInv
  <2> QED
    BY <2>2, FileHandlesAssumption
<1>7. StoreInv' /\ CallInv' /\ OsInv' /\ NamesInv' /\ OwnInv'
  <2>1. \A g \in Fibers : \/ call'[g] = call[g]
                          \/ call[g].op = "close" /\ call[g].file = file /\ call'[g] = NoCall
    BY <1>1, <1>2, <1>3
  <2>2. UNCHANGED <<os, opens, names>>
    BY <1>1
  <2> QED
    BY <1>3, <1>4, <1>5, <1>6, <2>1, <2>2, RemovalKeeps
<1>8. TypeInv'
  <2>1. /\ DOMAIN objects' = DOMAIN objects /\ objects' \in [DOMAIN objects' -> Object]
        /\ store' \in [DOMAIN store' -> Handle]
    BY <1>4, HandleRemoved DEF FilesInv
  <2> QED
    BY <1>1, <2>1 DEF FilesInv, TypeInv
<1> QED
  BY <1>1, <1>7, <1>8 DEF FilesInv

(* A call that neither opened nor closed anything changes no handle.       *)
LEMMA ResumeAfterOther ==
  ASSUME FilesInv, ResumeNext, ~AfterClose(Head(queue)), ~Opened(Head(queue))
  PROVE  FilesInv'
<1>1. PICK f \in Fibers :
           /\ f = Head(queue)
           /\ call[f].op # "none" /\ call[f].at = "queued"
           /\ call'[f] = NoCall /\ \A g \in Fibers : g # f => call'[g] = call[g]
           /\ call' \in [Fibers -> Context]
           /\ queue' \in Seq(Fibers) /\ running' \in Fibers
           /\ UNCHANGED <<os, opens, names, fiber, script>>
           /\ QueueInv'
  BY ResumeFrame
<1>2. UNCHANGED <<store, next_id, objects>> /\ call[f].op # "close" /\ ~Opened(f)
  BY <1>1 DEF ResumeNext, AfterClose, CreateResultValue, storeVars
<1>3. ASSUME NEW g \in Fibers
      PROVE  /\ Opens(g)' => Opens(g) /\ call'[g] = call[g]
             /\ Uses(g)' => Uses(g) /\ call'[g] = call[g]
             /\ HasOpened(g) => HasOpened(g)' /\ call'[g] = call[g]
             /\ HasOpened(g)' => HasOpened(g) /\ call'[g] = call[g]
             /\ HasClosed(g) => HasClosed(g)' /\ call'[g] = call[g]
             /\ HasClosed(g)' => HasClosed(g)
             /\ call[g].op = "scandir" /\ call[g].result = "ok" => call'[g] = call[g]
  BY <1>1, <1>2 DEF Opens, Opened, Uses, HasOpened, HasClosed, NoCall, NewContext
<1>4. TypeInv'
  BY <1>1, <1>2 DEF FilesInv, TypeInv
<1>5. StoreInv'
  BY <1>2 DEF FilesInv, StoreInv
<1>6. CallInv'
  <2>1. ASSUME NEW g \in Fibers, Opens(g)'
        PROVE  /\ call'[g].file \in (1 .. opens') \ DOMAIN objects'
               /\ \A h \in Fibers : Opens(h)' /\ call'[h].file = call'[g].file => h = g
               /\ call'[g].op = "scandir" => call'[g].fd = 0
               /\ HasOpened(g)' => call'[g].fd \in Fds
    BY <1>1, <1>2, <1>3, <2>1 DEF FilesInv, CallInv
  <2>2. ASSUME NEW g \in Fibers, Uses(g)'
        PROVE  /\ call'[g].file \in DOMAIN objects' /\ call'[g].id = objects'[call'[g].file].id
               /\ call'[g].fd \in Fds
               /\ call'[g].id \in DOMAIN store' => store'[call'[g].id].fd = call'[g].fd
               /\ SharedHandles \/ objects'[call'[g].file].owner = g
               /\ objects'[call'[g].file].state # "collected"
    BY <1>2, <1>3, <2>2 DEF FilesInv, CallInv
  <2> QED
    BY <2>1, <2>2 DEF CallInv
<1>7. OsInv'
  BY <1>1, <1>2, <1>3 DEF FilesInv, OsInv
<1>8. NamesInv'
  BY <1>1, <1>2, <1>3 DEF FilesInv, NamesInv
<1>9. OwnInv'
  <2> SUFFICES ASSUME ~SharedHandles
               PROVE  OwnInv'
    BY DEF OwnInv
  <2>1. ASSUME NEW i \in DOMAIN store, store[i].fd # 0, os[store[i].fd] # store[i].file
        PROVE  \E g \in Fibers : /\ g = objects[store[i].file].owner
                                  /\ HasClosed(g)' /\ call'[g].file = store[i].file
    <3>1. PICK g : /\ g = objects[store[i].file].owner
                   /\ HasClosed(g) /\ call[g].file = store[i].file
      BY <2>1 DEF FilesInv, OwnInv
    <3>2. g \in Fibers
      BY <3>1 DEF FilesInv, StoreInv, TypeInv, Object
    <3> QED
      BY <1>3, <3>1, <3>2
  <2>2. ASSUME NEW g \in Fibers, Uses(g)', call'[g].at = "pool"
        PROVE  os[call'[g].fd] = call'[g].file
    BY <1>3, <2>2 DEF FilesInv, OwnInv
  <2>3. ASSUME NEW g \in Fibers, HasOpened(g)' PROVE os[call'[g].fd] = call'[g].file
    BY <1>3, <2>3 DEF FilesInv, OwnInv
  <2> QED
    BY <1>1, <1>2, <2>1, <2>2, <2>3 DEF OwnInv
<1> QED
  BY <1>1, <1>4, <1>5, <1>6, <1>7, <1>8, <1>9 DEF FilesInv

(* What was opened gets a new id and a new object.                         *)
LEMMA ResumeAfterOpen ==
  ASSUME FilesInv, ResumeNext, ~AfterClose(Head(queue)), Opened(Head(queue))
  PROVE  FilesInv'
<1>1. PICK f \in Fibers :
           /\ f = Head(queue)
           /\ call[f].op # "none" /\ call[f].at = "queued"
           /\ call'[f] = NoCall /\ \A g \in Fibers : g # f => call'[g] = call[g]
           /\ call' \in [Fibers -> Context]
           /\ queue' \in Seq(Fibers) /\ running' \in Fibers
           /\ UNCHANGED <<os, opens, names, fiber, script>>
           /\ QueueInv'
  BY ResumeFrame
<1>2. Opens(f) /\ call[f].op # "close" /\ call[f].result = "ok"
  BY <1>1 DEF Opened, Opens
<1>3. PICK file \in (1 .. opens) \ DOMAIN objects, fd \in Fds \cup {0}, new \in Nat \ {0} :
        /\ file = call[f].file /\ fd = call[f].fd /\ new = next_id
        /\ call[f].op = "scandir" => fd = 0
        /\ call[f].op = "open" => fd \in Fds /\ HasOpened(f)
  <2>1. call[f].file \in (1 .. opens) \ DOMAIN objects
    BY <1>2 DEF FilesInv, CallInv
  <2>2. /\ call[f].op = "scandir" => call[f].fd = 0
        /\ call[f].op = "open" => call[f].fd \in Fds /\ HasOpened(f)
    BY <1>1, <1>2 DEF FilesInv, CallInv, HasOpened
  <2>3. call[f].fd \in Fds \cup {0}
    BY DEF FilesInv, TypeInv, Context
  <2>4. next_id \in Nat \ {0}
    <3>1. next_id \in 1 .. MaxOpens + 1
      BY IdsAreBounded DEF FilesInv
    <3> QED
      BY <3>1, FileHandlesAssumption
  <2> QED
    BY <2>1, <2>2, <2>3, <2>4
<1>4. /\ store' = [id \in DOMAIN store \cup {new} |->
                    IF id = new THEN [fd |-> fd, file |-> file] ELSE store[id]]
      /\ next_id' = new + 1
      /\ objects' = [other \in DOMAIN objects \cup {file} |->
                       IF other = file THEN [id |-> new, owner |-> f, state |-> "live"]
                                       ELSE objects[other]]
  BY <1>1, <1>3 DEF ResumeNext, CreateResultValue, Add, NewId
<1>5. new \notin DOMAIN store /\ \A other \in DOMAIN objects : objects[other].id < new
                                                          /\ objects[other].id # new
  <2>1. /\ DOMAIN store \subseteq 1 .. new - 1
        /\ \A other \in DOMAIN objects : objects[other].id \in 1 .. new - 1
    BY <1>3, IdsAreBounded DEF FilesInv
  <2> QED
    BY <2>1
<1>6. /\ DOMAIN objects' = DOMAIN objects \cup {file}
      /\ objects'[file].id = new /\ objects'[file].owner = f /\ objects'[file].state = "live"
      /\ \A other \in DOMAIN objects : other # file /\ objects'[other] = objects[other]
      /\ DOMAIN store' = DOMAIN store \cup {new}
      /\ store'[new] = [fd |-> fd, file |-> file]
      /\ store'[new].fd = fd /\ store'[new].file = file
      /\ \A id \in DOMAIN store : id # new /\ store'[id] = store[id]
  BY <1>3, <1>4, <1>5
<1>7. /\ store' \in [DOMAIN store' -> Handle] /\ objects' \in [DOMAIN objects' -> Object]
      /\ DOMAIN objects' \subseteq 1 .. opens
  <2>1. [fd |-> fd, file |-> file] \in Handle
    BY <1>3, FileHandlesAssumption DEF FilesInv, TypeInv, Handle
  <2>2. [id |-> new, owner |-> f, state |-> "live"] \in Object
    BY <1>3 DEF Object
  <2>3. store' \in [DOMAIN store' -> Handle]
    BY <1>4, <1>6, <2>1 DEF FilesInv, TypeInv
  <2>4. objects' \in [DOMAIN objects' -> Object]
    BY <1>4, <1>6, <2>2 DEF FilesInv, TypeInv
  <2> QED
    BY <1>3, <1>6, <2>3, <2>4 DEF FilesInv, TypeInv
<1>8. ASSUME NEW g \in Fibers
      PROVE  /\ Opens(g)' => Opens(g) /\ call'[g] = call[g] /\ g # f
             /\ Uses(g)' => Uses(g) /\ call'[g] = call[g]
             /\ HasOpened(g)' => HasOpened(g) /\ call'[g] = call[g]
             /\ HasOpened(g) /\ g # f => HasOpened(g)' /\ call'[g] = call[g]
             /\ HasClosed(g) => HasClosed(g)' /\ call'[g] = call[g]
             /\ HasClosed(g)' => HasClosed(g)
  BY <1>1, <1>2 DEF Opens, Uses, HasOpened, HasClosed, NoCall, NewContext
<1>9. \A g \in Fibers : Opens(g) /\ call[g].file = file => g = f
  BY <1>2, <1>3 DEF FilesInv, CallInv
<1>10. \A d \in Fds : os[d] = file => call[f].op = "open" /\ fd = d
  <2> SUFFICES ASSUME NEW d \in Fds, os[d] = file
               PROVE  call[f].op = "open" /\ fd = d
    OBVIOUS
  <2>1. file # 0 /\ file \notin DOMAIN objects
    BY <1>3, FileHandlesAssumption DEF FilesInv, TypeInv
  <2>2. PICK g \in Fibers : HasOpened(g) /\ call[g].file = os[d] /\ call[g].fd = d
    BY <2>1 DEF FilesInv, OsInv
  <2>3. g = f
    BY <1>9, <2>2 DEF HasOpened, Opens
  <2> QED
    BY <1>3, <2>2, <2>3 DEF HasOpened
<1>11. TypeInv'
  BY <1>1, <1>7 DEF FilesInv, TypeInv
<1>12. StoreInv'
  <2>1. next_id' = Cardinality(DOMAIN objects') + 1
    <3>1. IsFiniteSet(DOMAIN objects)
      BY IdsAreBounded DEF FilesInv
    <3>2. Cardinality(DOMAIN objects') = Cardinality(DOMAIN objects) + 1
      BY <1>3, <1>6, <3>1, FS_AddElement
    <3> QED
      BY <1>3, <1>4, <3>2 DEF FilesInv, StoreInv
  <2>2. \A other \in DOMAIN objects' : objects'[other].id < next_id'
    <3>1. \A other \in DOMAIN objects : objects[other].id \in Nat
      BY DEF FilesInv, TypeInv, Object
    <3> QED
      BY <1>3, <1>4, <1>5, <1>6, <3>1
  <2>3. \A one, other \in DOMAIN objects' : objects'[one].id = objects'[other].id => one = other
    BY <1>5, <1>6 DEF FilesInv, StoreInv
  <2>4. \A id \in DOMAIN store' : /\ store'[id].file \in DOMAIN objects'
                                  /\ objects'[store'[id].file].id = id
                                  /\ objects'[store'[id].file].state = "live"
    BY <1>6 DEF FilesInv, StoreInv
  <2>5. \A other \in DOMAIN objects' : objects'[other].state = "live" =>
          objects'[other].id \in DOMAIN store' /\ store'[objects'[other].id].file = other
    BY <1>6 DEF FilesInv, StoreInv
  <2> QED
    BY <2>1, <2>2, <2>3, <2>4, <2>5 DEF StoreInv
<1>13. CallInv'
  <2>1. ASSUME NEW g \in Fibers, Opens(g)'
        PROVE  /\ call'[g].file \in (1 .. opens') \ DOMAIN objects'
               /\ \A h \in Fibers : Opens(h)' /\ call'[h].file = call'[g].file => h = g
               /\ call'[g].op = "scandir" => call'[g].fd = 0
               /\ HasOpened(g)' => call'[g].fd \in Fds
    <3>1. /\ Opens(g) /\ call'[g] = call[g] /\ g # f /\ call[g].file # file
          /\ call[g].file \in (1 .. opens) \ DOMAIN objects
      BY <1>8, <1>9, <2>1 DEF FilesInv, CallInv
    <3>2. \A h \in Fibers : Opens(h)' /\ call'[h].file = call'[g].file => h = g
      BY <1>8, <3>1 DEF FilesInv, CallInv
    <3>3. /\ call'[g].op = "scandir" => call'[g].fd = 0
          /\ HasOpened(g)' => call'[g].fd \in Fds
      BY <1>8, <3>1 DEF FilesInv, CallInv
    <3> QED
      BY <1>1, <1>6, <3>1, <3>2, <3>3
  <2>2. ASSUME NEW g \in Fibers, Uses(g)'
        PROVE  /\ call'[g].file \in DOMAIN objects' /\ call'[g].id = objects'[call'[g].file].id
               /\ call'[g].fd \in Fds
               /\ call'[g].id \in DOMAIN store' => store'[call'[g].id].fd = call'[g].fd
               /\ SharedHandles \/ objects'[call'[g].file].owner = g
               /\ objects'[call'[g].file].state # "collected"
    <3>1. /\ Uses(g) /\ call'[g] = call[g] /\ call[g].file \in DOMAIN objects
          /\ call[g].id = objects[call[g].file].id
      BY <1>8, <2>2 DEF FilesInv, CallInv
    <3>2. call[g].id # new
      BY <1>5, <3>1
    <3> QED
      BY <1>6, <3>1, <3>2 DEF FilesInv, CallInv
  <2> QED
    BY <2>1, <2>2 DEF CallInv
<1>14. OsInv'
  <2>1. ASSUME NEW d \in Fds, os[d] # 0
        PROVE  \/ /\ os[d] \in DOMAIN objects' /\ objects'[os[d]].state # "closed"
               \/ \E g \in Fibers : HasOpened(g)' /\ call'[g].file = os[d] /\ call'[g].fd = d
    <3>1. CASE os[d] = file
      BY <1>6, <3>1
    <3>2. CASE os[d] \in DOMAIN objects /\ objects[os[d]].state # "closed"
      BY <1>6, <3>2
    <3>3. CASE os[d] # file /\ \E g \in Fibers : HasOpened(g) /\ call[g].file = os[d] /\ call[g].fd = d
      BY <1>3, <1>8, <3>3
    <3> QED
      BY <2>1, <3>1, <3>2, <3>3 DEF FilesInv, OsInv
  <2>2. ASSUME NEW id \in DOMAIN store', NEW d \in Fds, os[d] = store'[id].file
        PROVE  store'[id].fd = d
    <3>1. CASE id = new
      BY <1>6, <1>10, <2>2, <3>1
    <3>2. CASE id \in DOMAIN store
      BY <1>6, <2>2, <3>2 DEF FilesInv, OsInv
    <3> QED
      BY <1>6, <3>1, <3>2
  <2>3. ASSUME NEW g \in Fibers, NEW d \in Fds, Uses(g)', os[d] = call'[g].file
        PROVE  call'[g].fd = d /\ ~HasClosed(g)'
    BY <1>8, <2>3 DEF FilesInv, OsInv
  <2> QED
    BY <1>1, <2>1, <2>2, <2>3 DEF OsInv
<1>15. NamesInv'
  <2> SUFFICES ASSUME NEW other \in 1 .. MaxOpens, names[other] > 0
               PROVE  \/ \E id \in DOMAIN store' : store'[id] = [fd |-> 0, file |-> other]
                      \/ \E g \in Fibers : /\ call'[g].op = "scandir" /\ call'[g].file = other
                                            /\ call'[g].at = "queued" /\ call'[g].result = "ok"
                      \/ other \in DOMAIN objects' /\ objects'[other].state = "collected"
    BY <1>1 DEF NamesInv
  <2>1. CASE \E id \in DOMAIN store : store[id] = [fd |-> 0, file |-> other]
    BY <1>6, <2>1
  <2>2. ASSUME NEW g \in Fibers, call[g].op = "scandir", call[g].file = other,
               call[g].at = "queued", call[g].result = "ok"
        PROVE  \/ \E id \in DOMAIN store' : store'[id] = [fd |-> 0, file |-> other]
               \/ \E h \in Fibers : /\ call'[h].op = "scandir" /\ call'[h].file = other
                                     /\ call'[h].at = "queued" /\ call'[h].result = "ok"
    <3>1. CASE g = f
      BY <1>3, <1>6, <2>2, <3>1
    <3>2. CASE g # f
      BY <1>1, <2>2, <3>2
    <3> QED
      BY <3>1, <3>2
  <2>3. CASE other \in DOMAIN objects /\ objects[other].state = "collected"
    BY <1>6, <2>3
  <2> QED
    BY <2>1, <2>2, <2>3 DEF FilesInv, NamesInv
<1>16. OwnInv'
  <2> SUFFICES ASSUME ~SharedHandles
               PROVE  OwnInv'
    BY DEF OwnInv
  <2>1. ASSUME NEW i \in DOMAIN store', store'[i].fd # 0, os[store'[i].fd] # store'[i].file
        PROVE  \E g \in Fibers : /\ g = objects'[store'[i].file].owner
                                  /\ HasClosed(g)' /\ call'[g].file = store'[i].file
    <3>1. i # new
      <4> SUFFICES ASSUME i = new PROVE FALSE
        OBVIOUS
      <4>1. call[f].op = "open"
        BY <1>2, <1>3, <1>6, <2>1 DEF Opens
      <4>2. os[fd] = file
        BY <1>3, <4>1 DEF FilesInv, OwnInv
      <4> QED
        BY <1>6, <2>1, <4>2
    <3>2. i \in DOMAIN store /\ store'[i] = store[i] /\ store[i].file \in DOMAIN objects
      BY <1>6, <3>1 DEF FilesInv, StoreInv
    <3>3. PICK g : /\ g = objects[store[i].file].owner
                   /\ HasClosed(g) /\ call[g].file = store[i].file
      BY <2>1, <3>2 DEF FilesInv, OwnInv
    <3>4. g \in Fibers
      BY <3>2, <3>3 DEF FilesInv, TypeInv, Object
    <3> QED
      BY <1>6, <1>8, <3>2, <3>3, <3>4
  <2>2. ASSUME NEW g \in Fibers, Uses(g)', call'[g].at = "pool"
        PROVE  os[call'[g].fd] = call'[g].file
    BY <1>8, <2>2 DEF FilesInv, OwnInv
  <2>3. ASSUME NEW g \in Fibers, HasOpened(g)' PROVE os[call'[g].fd] = call'[g].file
    BY <1>8, <2>3 DEF FilesInv, OwnInv
  <2> QED
    BY <1>1, <2>1, <2>2, <2>3 DEF OwnInv
<1> QED
  BY <1>1, <1>11, <1>12, <1>13, <1>14, <1>15, <1>16 DEF FilesInv
-------------------------------------------------------------------------------
LEMMA StepInv == FilesInv /\ [Next]_vars => FilesInv'
<1> SUFFICES ASSUME FilesInv, [Next]_vars PROVE FilesInv'
  OBVIOUS
<1>1. ASSUME NEW f \in Fibers, Fiber_Run(f) PROVE FilesInv'
  BY <1>1, ScheduleKeeps
<1>2. ASSUME NEW f \in Fibers, JavaScript(f) PROVE FilesInv'
  BY <1>2, ScheduleKeeps, OpenKeeps, UseKeeps, DirReadKeeps, DirCloseKeeps DEF JavaScript
<1>3. ASSUME NEW f \in Fibers, Execute(f) PROVE FilesInv'
  BY <1>3, ExecuteKeeps
<1>4. ASSUME NEW f \in Fibers, OnFSCallback(f) PROVE FilesInv'
  BY <1>4, CallbackKeeps
<1>5. CASE ResumeNext
  BY <1>5, ResumeAfterClose, ResumeAfterOpen, ResumeAfterOther
<1>6. ASSUME NEW file \in DOMAIN objects, HANDLES_Free(file) PROVE FilesInv'
  BY <1>6, FreeKeeps
<1>7. CASE EndScript \/ UNCHANGED vars
  <2>1. UNCHANGED <<os, opens, names, objects, call, storeVars, queue, fiber>>
        /\ script' \in BOOLEAN /\ running' = running
    BY <1>7 DEF EndScript, vars, FilesInv, TypeInv
  <2>2. StoreInv' /\ CallInv' /\ OsInv' /\ NamesInv' /\ OwnInv'
    BY <2>1, SameFiles
  <2> QED
    BY <2>1, <2>2 DEF FilesInv, TypeInv, QueueInv, storeVars
<1> QED
  BY <1>1, <1>2, <1>3, <1>4, <1>5, <1>6, <1>7 DEF Next

LEMMA Invariance == Spec => []FilesInv
  BY InitInv, StepInv, PTL DEF Spec

(* Every variable has its type; ids never run ahead of the calls of open.  *)
THEOREM FilesTypeCorrect == Spec => []TypeOK
<1>1. FilesInv => TypeOK
  BY TypesFollow DEF FilesInv
<1> QED
  BY <1>1, Invariance, PTL

(* The id of an object that is neither closed nor collected leads to the   *)
(* handle of its own file, so no finalizer removes the handle of another   *)
(* object, however late it runs.                                           *)
THEOREM UnclosedAreStored == Spec => []UnclosedObjectsAreStored
<1>1. FilesInv => UnclosedObjectsAreStored
  BY DEF FilesInv, StoreInv, UnclosedObjectsAreStored, Stored
<1> QED
  BY <1>1, Invariance, PTL

(* While JavaScript has the object of an open file, the store has the      *)
(* handle with the descriptor that stands for the file.                    *)
THEOREM OpenFilesCanBeClosed == Spec => []OpenFilesAreKnown
<1>1. FilesInv => OpenFilesAreKnown
  <2> SUFFICES ASSUME FilesInv, NEW d \in Fds, os[d] \in DOMAIN objects,
                      objects[os[d]].state # "collected"
               PROVE  \E id \in DOMAIN store : store[id] = [fd |-> d, file |-> os[d]]
    BY DEF OpenFilesAreKnown
  <2>1. os[d] # 0
    BY FileHandlesAssumption DEF FilesInv, TypeInv
  <2>2. objects[os[d]].state # "closed"
    <3>1. \A f \in Fibers : HasOpened(f) => call[f].file # os[d]
      BY DEF FilesInv, CallInv, HasOpened, Opens
    <3> QED
      BY <2>1, <3>1 DEF FilesInv, OsInv
  <2>3. objects[os[d]].state = "live"
    BY <2>2 DEF FilesInv, TypeInv, Object
  <2>4. PICK id \in DOMAIN store : store[id].file = os[d]
    BY <2>3 DEF FilesInv, StoreInv
  <2>5. store[id].fd = d /\ store[id] \in Handle
    BY <2>4 DEF FilesInv, OsInv, TypeInv
  <2>6. store[id] = [fd |-> d, file |-> os[d]]
    BY <2>4, <2>5 DEF Handle
  <2> QED
    BY <2>6
<1> QED
  BY <1>1, Invariance, PTL

(* No allocated name of a directory is lost by an operation of the code,   *)
(* in whatever order directories are opened, read and closed.              *)
THEOREM NamesAreKept == Spec => []NamesAreOwned
<1>1. FilesInv => NamesAreOwned
  BY DEF FilesInv, NamesInv, NamesAreOwned, InFlight
<1> QED
  BY <1>1, Invariance, PTL

(* When fibers do not use each other's objects, a request is executed on   *)
(* the file that its handle was opened for, although the system uses       *)
(* descriptors again before the handle of a closed file is removed.        *)
THEOREM RequestsActOnOwnFile ==
  ASSUME ~SharedHandles
  PROVE  Spec => []ActsOnOwnFile
<1>1. FilesInv => ActsOnOwnFile
  BY DEF FilesInv, OwnInv, ActsOnOwnFile, InFlight, Uses
<1> QED
  BY <1>1, Invariance, PTL
===============================================================================
