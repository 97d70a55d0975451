------------------------------ MODULE Coroutines ------------------------------
(***************************************************************************)
(* What the coroutine subsystem promises to JavaScript, without stacks,    *)
(* saved contexts or queues of C++ objects (Technical Specification.md     *)
(* section 2.2).  `running' is the chain of callers, the executing one     *)
(* first; the script and, after it, the event loop are the runner Main at  *)
(* its end.  A fiber that calls a primitive leaves the chain until the     *)
(* operation it started has completed; completed operations are answered   *)
(* in the order of their completion, each to the fiber that started it.    *)
(***************************************************************************)
EXTENDS Naturals, Sequences

CONSTANTS Fibers,     \* the fibers Fiber.run may create
          Main        \* the main script and the event loop, not a fiber

VARIABLES running,    \* the chain of callers, the executing one first
          created,    \* fibers that were started
          finished,   \* fibers whose function returned
          calls,      \* calls[f]: how many primitives f has called
          blocked,    \* calls <<f, n>> whose operation has not completed
          ready,      \* calls whose operation completed, oldest first
          answered    \* answered[f]: the call of f that was last answered

vars == <<running, created, finished, calls, blocked, ready, answered>>

Init == /\ running = <<Main>>
        /\ created = {} /\ finished = {}
        /\ calls = [f \in Fibers |-> 0]
        /\ blocked = {} /\ ready = <<>>
        /\ answered = [f \in Fibers |-> 0]

(* Fiber.run(f): the new fiber executes at once, its creator waits.        *)
Start(f) ==
  /\ f \notin created
  /\ created' = created \cup {f}
  /\ running' = <<f>> \o running
  /\ UNCHANGED <<finished, calls, blocked, ready, answered>>

(* The executing fiber calls a primitive and gives way to its caller.      *)
Block ==
  LET f == Head(running) IN
  /\ f # Main
  /\ calls' = [calls EXCEPT ![f] = @ + 1]
  /\ blocked' = blocked \cup {<<f, calls[f] + 1>>}
  /\ running' = Tail(running)
  /\ UNCHANGED <<created, finished, ready, answered>>

(* The function of the executing fiber returns.                            *)
Finish ==
  LET f == Head(running) IN
  /\ f # Main
  /\ finished' = finished \cup {f}
  /\ running' = Tail(running)
  /\ UNCHANGED <<created, calls, blocked, ready, answered>>

(* An operation completes while the event loop runs.                       *)
Complete(c) ==
  /\ running = <<Main>>
  /\ c \in blocked
  /\ blocked' = blocked \ {c}
  /\ ready' = Append(ready, c)
  /\ UNCHANGED <<running, created, finished, calls, answered>>

(* The fiber whose operation completed first continues with its result.    *)
Wake ==
  /\ running = <<Main>>
  /\ ready # <<>>
  /\ LET c == Head(ready) IN
       /\ answered' = [answered EXCEPT ![c[1]] = c[2]]
       /\ running' = <<c[1], Main>>
  /\ ready' = Tail(ready)
  /\ UNCHANGED <<created, finished, calls, blocked>>

Next == \/ \E f \in Fibers : Start(f)
        \/ Block
        \/ Finish
        \/ \E c \in blocked : Complete(c)
        \/ Wake

Spec == Init /\ [][Next]_vars
===============================================================================
