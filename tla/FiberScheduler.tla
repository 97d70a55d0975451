---------------------------- MODULE FiberScheduler ----------------------------
(***************************************************************************)
(* The fibers of fiber.cpp and the queue of main.cpp that resumes them.    *)
(*                                                                         *)
(* A Fiber object and the C stack its function executes on have the same   *)
(* name here, but they are kept apart: `current_fiber_' is what the code   *)
(* believes to run, `stack' is the stack the processor really executes.    *)
(* Every Fiber has one slot for a saved context: `slot[f]' is the stack    *)
(* that switching to f's context continues on, or NoFiber when it holds    *)
(* none that is still valid.  `stack = NoFiber' stands for undefined       *)
(* behaviour: a jump to a dead context, or the use of an empty V8 value.   *)
(***************************************************************************)
EXTENDS Naturals, Sequences, Functions

CONSTANTS Fibers,         \* the fibers Fiber.run may create
          Main,           \* main_fiber_: the thread of main() and its stack
          NoFiber,        \* no fiber, no stack
          Platform,       \* "windows": SwitchToFiber, "posix": swapcontext
          NestedRun,      \* may a fiber call Fiber.run?
          BlockInScript,  \* may the script call a primitive outside a fiber?
          MaxCalls        \* bound: the primitives one stack calls

AllFibers == Fibers \cup {Main}

ASSUME SchedulerAssumption ==
  /\ Main \notin Fibers
  /\ NoFiber \notin AllFibers
  /\ Platform \in {"windows", "posix"}
  /\ NestedRun \in BOOLEAN
  /\ BlockInScript \in BOOLEAN
  /\ MaxCalls \in Nat

VARIABLES
  state_,            \* Fiber::state_, "NEW" before creation, "FREED" after delete
  current_fiber_,    \* Fiber::current_fiber_
  resume_value,      \* Fiber::resume_value: the call whose result it holds
  stack,             \* the stack that executes
  slot,              \* the stack that the context saved in a Fiber lies on
  pc,                \* where each stack is
  child,             \* the argument of the resume() that a stack is inside
  call,              \* how many primitives the code on a stack has called
  returned,          \* the result that the last primitive of a stack returned
  pending,           \* contexts of operations that libuv still performs
  resumable_fibers,  \* contexts of completed operations, oldest first
  resume_handle,     \* is the uv_async_t signalled?
  local_queue        \* OnFibersToResume: the contexts it has taken over

libuvVars == <<pending, resumable_fibers, resume_handle, local_queue>>
vars == <<state_, current_fiber_, resume_value, stack, slot, pc, child, call,
          returned, libuvVars>>

State == {"NEW", "RUNNING", "SUSPENDED", "DONE", "FREED"}
Inside == {"Primitive", "Fiber_Sleep"}     \* suspended inside Fiber::yield
Location == Inside \cup {"unborn", "js", "Fiber_Run", "ended",
                         "uv_run", "draining", "resuming"}

(* A result names the call it answers; an empty Persistent names none.     *)
Result == [caller : AllFibers, n : Nat]
Empty == [caller |-> NoFiber, n |-> 0]

(* struct AsyncContext: the call it serves (history) and the fiber that    *)
(* will be resumed, which is what get_current() returned at the call.      *)
AsyncContext == [of : Result, fiber : AllFibers]

(* Mutant: the constructor of the main fiber does not set current_fiber_.  *)
InitWithoutCurrent ==
  /\ state_ = [f \in AllFibers |-> IF f = Main THEN "RUNNING" ELSE "NEW"]
  /\ current_fiber_ = NoFiber
  /\ resume_value = [f \in AllFibers |-> Empty]
  /\ stack = Main
  /\ slot = [f \in AllFibers |-> IF f = Main THEN NoFiber ELSE f]
  /\ pc = [f \in AllFibers |-> IF f = Main THEN "js" ELSE "unborn"]
  /\ child = [f \in AllFibers |-> NoFiber]
  /\ call = [f \in AllFibers |-> 0]
  /\ returned = [f \in AllFibers |-> Empty]
  /\ pending = {} /\ resumable_fibers = <<>>
  /\ resume_handle = FALSE /\ local_queue = <<>>

Init ==
  /\ state_ = [f \in AllFibers |-> IF f = Main THEN "RUNNING" ELSE "NEW"]
  /\ current_fiber_ = Main
  /\ resume_value = [f \in AllFibers |-> Empty]
  /\ stack = Main
  /\ slot = [f \in AllFibers |-> IF f = Main THEN NoFiber ELSE f]
  /\ pc = [f \in AllFibers |-> IF f = Main THEN "js" ELSE "unborn"]
  /\ child = [f \in AllFibers |-> NoFiber]
  /\ call = [f \in AllFibers |-> 0]
  /\ returned = [f \in AllFibers |-> Empty]
  /\ pending = {}
  /\ resumable_fibers = <<>>
  /\ resume_handle = FALSE
  /\ local_queue = <<>>

(* SwitchToFiber saves the executing stack in the system fiber it runs as; *)
(* swapcontext saves it in the context that the code names.                *)
SavedIn(named) == IF Platform = "windows" THEN stack ELSE named

(* Mutant: setcontext in place of swapcontext, nothing is saved.           *)
SetContext(named, target) ==
  /\ stack' = slot[target]
  /\ slot' = [slot EXCEPT ![target] = NoFiber]

SwitchContext(named, target) ==
  LET saved == [slot EXCEPT ![SavedIn(named)] = stack]
  IN  /\ stack' = saved[target]
      /\ slot' = [saved EXCEPT ![target] = NoFiber]

(* Mutant: yield leaves current_fiber_ at the fiber that has yielded.      *)
YieldAsCurrent ==
  /\ state_' = [state_ EXCEPT ![current_fiber_] = "SUSPENDED"]
  /\ UNCHANGED current_fiber_
  /\ SwitchContext(current_fiber_, Main)

(* Fiber::yield on the executing stack.                                    *)
yield ==
  /\ state_' = [state_ EXCEPT ![current_fiber_] = "SUSPENDED"]
  /\ current_fiber_' = Main
  /\ SwitchContext(current_fiber_, Main)

(* Fiber::resume(f), up to the switch; ReturnFromResume is the rest.       *)
resume(f) ==
  /\ current_fiber_' = f
  /\ state_' = [state_ EXCEPT ![f] = "RUNNING"]
  /\ child' = [child EXCEPT ![stack] = f]
  /\ SwitchContext(Main, f)

Goto(location) == pc' = [pc EXCEPT ![stack] = location]

(* The code on a stack calls a primitive: it makes a context for the       *)
(* current fiber, hands it to libuv and yields.  Fiber_Sleep differs from  *)
(* the others in that it reads no result.                                  *)
Call(primitive) ==
  /\ stack # NoFiber
  /\ pc[stack] = "js"
  /\ stack = Main => BlockInScript
  /\ call[stack] < MaxCalls
  /\ call' = [call EXCEPT ![stack] = @ + 1]
  /\ pending' = pending \cup
       {[of |-> [caller |-> stack, n |-> call[stack] + 1],
         fiber |-> current_fiber_]}
  /\ Goto(primitive)
  /\ yield
  /\ UNCHANGED <<resume_value, child, returned, resumable_fibers,
                 resume_handle, local_queue>>

(* yield() returns.  `returned' keeps what resume_value of the current     *)
(* fiber holds; for every primitive but sleep an empty one is dereferenced *)
(* (result->IsNativeError()), which is undefined.                          *)
ReturnFromYield ==
  /\ stack # NoFiber
  /\ pc[stack] \in Inside
  /\ LET result == resume_value[current_fiber_] IN
       /\ returned' = [returned EXCEPT ![stack] = result]
       /\ stack' = IF pc[stack] = "Primitive" /\ result = Empty
                     THEN NoFiber ELSE stack
  /\ Goto("js")
  /\ UNCHANGED <<state_, current_fiber_, resume_value, slot, child, call,
                 libuvVars>>

(* Fiber.run: a new Fiber is made and resumed at once, from this stack.    *)
Fiber_Run(f) ==
  /\ stack # NoFiber
  /\ pc[stack] = "js"
  /\ stack # Main => NestedRun
  /\ pc[f] = "unborn"
  /\ pc' = [pc EXCEPT ![stack] = "Fiber_Run", ![f] = "js"]
  /\ resume(f)
  /\ UNCHANGED <<resume_value, call, returned, libuvVars>>

(* The switch in resume() returns: a DONE fiber is deleted.                *)
ReturnFromResume ==
  /\ stack # NoFiber
  /\ pc[stack] \in {"Fiber_Run", "resuming"}
  /\ IF state_[child[stack]] = "DONE"
       THEN /\ state_' = [state_ EXCEPT ![child[stack]] = "FREED"]
            /\ current_fiber_' = Main
       ELSE UNCHANGED <<state_, current_fiber_>>
  /\ child' = [child EXCEPT ![stack] = NoFiber]
  /\ Goto(IF pc[stack] = "Fiber_Run" THEN "js" ELSE "draining")
  /\ UNCHANGED <<resume_value, stack, slot, call, returned, libuvVars>>

(* Mutant: a POSIX fiber ends with yield(), as a Windows fiber does.       *)
FinishWithYield ==
  /\ stack \in Fibers
  /\ pc[stack] = "js"
  /\ Goto("ended")
  /\ yield
  /\ UNCHANGED <<resume_value, child, call, returned, libuvVars>>

(* Mutant: no uc_link, no yield() in fiber_entry: the thread ends.         *)
FinishWithoutSuccessor ==
  /\ stack \in Fibers
  /\ pc[stack] = "js"
  /\ Goto("ended")
  /\ state_' = [state_ EXCEPT ![stack] = "DONE"]
  /\ stack' = NoFiber
  /\ UNCHANGED <<current_fiber_, slot, resume_value, child, call, returned,
                 libuvVars>>

(* The function of a fiber returns or throws.  On Windows fiber_entry      *)
(* yields, which turns DONE into SUSPENDED; on POSIX uc_link continues the *)
(* context saved in main_fiber_ and saves nothing.                         *)
Finish ==
  /\ stack \in Fibers
  /\ pc[stack] = "js"
  /\ Goto("ended")
  /\ IF Platform = "windows"
       THEN yield
       ELSE /\ state_' = [state_ EXCEPT ![stack] = "DONE"]
            /\ stack' = slot[Main]
            /\ slot' = [slot EXCEPT ![Main] = NoFiber]
            /\ UNCHANGED current_fiber_
  /\ UNCHANGED <<resume_value, child, call, returned, libuvVars>>

(* LoadAndRunModules returns and main() enters uv_run.                     *)
EndScript ==
  /\ stack = Main
  /\ pc[Main] = "js"
  /\ Goto("uv_run")
  /\ UNCHANGED <<state_, current_fiber_, resume_value, stack, slot, child,
                 call, returned, libuvVars>>

(* Mutant: no uv_async_send.                                               *)
QueueWithoutSignal(context) ==
  /\ stack = Main
  /\ pc[Main] = "uv_run"
  /\ pending' = pending \ {context}
  /\ resumable_fibers' = Append(resumable_fibers, context)
  /\ UNCHANGED <<state_, current_fiber_, resume_value, stack, slot, pc, child,
                 call, returned, resume_handle, local_queue>>

(* Mutant: a stack in place of a queue.                                    *)
QueueInFront(context) ==
  /\ stack = Main
  /\ pc[Main] = "uv_run"
  /\ pending' = pending \ {context}
  /\ resumable_fibers' = <<context>> \o resumable_fibers
  /\ resume_handle' = TRUE
  /\ UNCHANGED <<state_, current_fiber_, resume_value, stack, slot, pc, child,
                 call, returned, local_queue>>

(* libuv calls the callback of an operation: QueueFiberToResume.           *)
QueueFiberToResume(context) ==
  /\ stack = Main
  /\ pc[Main] = "uv_run"
  /\ pending' = pending \ {context}
  /\ resumable_fibers' = Append(resumable_fibers, context)
  /\ resume_handle' = TRUE
  /\ UNCHANGED <<state_, current_fiber_, resume_value, stack, slot, pc, child,
                 call, returned, local_queue>>

(* Mutant: one context is taken per signal, although signals coalesce.     *)
ResumeFirstOnly ==
  /\ stack = Main
  /\ pc[Main] = "uv_run"
  /\ resume_handle
  /\ resume_handle' = FALSE
  /\ local_queue' = <<Head(resumable_fibers)>>
  /\ resumable_fibers' = <<>>
  /\ Goto("draining")
  /\ UNCHANGED <<state_, current_fiber_, resume_value, stack, slot, child,
                 call, returned, pending>>

(* libuv sees the signal: the queue is swapped with an empty one.          *)
OnFibersToResume ==
  /\ stack = Main
  /\ pc[Main] = "uv_run"
  /\ resume_handle
  /\ resume_handle' = FALSE
  /\ local_queue' = resumable_fibers
  /\ resumable_fibers' = <<>>
  /\ Goto("draining")
  /\ UNCHANGED <<state_, current_fiber_, resume_value, stack, slot, child,
                 call, returned, pending>>

(* Mutant: the fiber is resumed before resume_value is set.                *)
ResumeBeforeResult ==
  /\ stack = Main
  /\ pc[Main] = "draining"
  /\ local_queue # <<>>
  /\ resume(Head(local_queue).fiber)
  /\ local_queue' = Tail(local_queue)
  /\ Goto("resuming")
  /\ UNCHANGED <<resume_value, call, returned, pending, resumable_fibers,
                 resume_handle>>

(* One round of its loop: pop, set the result, resume the fiber.           *)
ResumeNext ==
  /\ stack = Main
  /\ pc[Main] = "draining"
  /\ local_queue # <<>>
  /\ LET context == Head(local_queue) IN
       /\ resume_value' = [resume_value EXCEPT ![context.fiber] = context.of]
       /\ resume(context.fiber)
  /\ local_queue' = Tail(local_queue)
  /\ Goto("resuming")
  /\ UNCHANGED <<call, returned, pending, resumable_fibers, resume_handle>>

EndDrain ==
  /\ stack = Main
  /\ pc[Main] = "draining"
  /\ local_queue = <<>>
  /\ Goto("uv_run")
  /\ UNCHANGED <<state_, current_fiber_, resume_value, stack, slot, child,
                 call, returned, libuvVars>>

JavaScript == \/ Call("Primitive") \/ Call("Fiber_Sleep")
              \/ \E f \in Fibers : Fiber_Run(f)
              \/ Finish \/ EndScript

Runtime == \/ ReturnFromYield \/ ReturnFromResume
           \/ OnFibersToResume \/ ResumeNext \/ EndDrain

Next == \/ JavaScript
        \/ Runtime
        \/ \E context \in pending : QueueFiberToResume(context)

Spec == Init /\ [][Next]_vars

(* The runtime's own code always continues, and the JavaScript between two *)
(* primitives terminates.  Nothing is assumed of libuv: an operation need  *)
(* not ever complete.                                                      *)
FairSpec == Spec /\ WF_vars(Runtime) /\ WF_vars(JavaScript)
-------------------------------------------------------------------------------
(* Every variable has its type.                                            *)
TypeOK ==
  /\ state_ \in [AllFibers -> State]
  /\ current_fiber_ \in AllFibers
  /\ resume_value \in [AllFibers -> Result \cup {Empty}]
  /\ stack \in AllFibers \cup {NoFiber}
  /\ slot \in [AllFibers -> AllFibers \cup {NoFiber}]
  /\ pc \in [AllFibers -> Location]
  /\ child \in [AllFibers -> AllFibers \cup {NoFiber}]
  /\ call \in [AllFibers -> Nat]
  /\ returned \in [AllFibers -> Result \cup {Empty}]
  /\ pending \in SUBSET AsyncContext
  /\ resumable_fibers \in Seq(AsyncContext)
  /\ resume_handle \in BOOLEAN
  /\ local_queue \in Seq(AsyncContext)

(* The code never continues a context that is gone and never uses the      *)
(* result of a primitive that has none.                                    *)
NoUndefinedBehaviour == stack # NoFiber

(* Whenever JavaScript runs, Fiber.current() is the fiber it runs in: the  *)
(* next primitive registers, suspends and saves the right one.             *)
CurrentIsExecuting ==
  stack # NoFiber /\ pc[stack] = "js" => current_fiber_ = stack

(* A primitive that has returned in a fiber returned the result of that    *)
(* very call, after its completion: execution continues "exactly where it  *)
(* left off", never early and never with another operation's answer.       *)
OwnResult ==
  \A f \in AllFibers :
    pc[f] = "js" /\ call[f] > 0 =>
      returned[f] = [caller |-> f, n |-> call[f]]

InFlight == pending \cup Range(resumable_fibers) \cup Range(local_queue)

(* What fiber f waits for while it is suspended inside a primitive.        *)
ContextOf(f) == [of |-> [caller |-> f, n |-> call[f]], fiber |-> f]
Waiting(f) == pc[f] \in Inside /\ stack # f

(* No wake-up is lost and none is left over: the contexts on their way     *)
(* from libuv through both queues are those of the suspended calls.        *)
ContextsMatchWaitingFibers ==
  InFlight = {ContextOf(f) : f \in {g \in Fibers : Waiting(g)}}

(* A completed operation is in one place only, and is queued once.         *)
QueuedOnce ==
  /\ pending \cap (Range(resumable_fibers) \cup Range(local_queue)) = {}
  /\ Range(resumable_fibers) \cap Range(local_queue) = {}
  /\ \A q \in {resumable_fibers, local_queue} : IsInjective(q)

(* While something is queued the uv_async_t is signalled, so that uv_run   *)
(* will come to OnFibersToResume.                                          *)
SignalledWhileQueued == resumable_fibers # <<>> => resume_handle

(* Back in uv_run, no fiber that has ended is still allocated.             *)
DoneFibersAreFreed ==
  stack = Main /\ pc[Main] = "uv_run" =>
    \A f \in Fibers : pc[f] = "ended" => state_[f] = "FREED"

(* Fiber.run returns to the code that called it, once the new fiber blocks *)
(* or ends.                                                                *)
RunReturns ==
  \A f \in AllFibers : (pc[f] = "Fiber_Run") ~> (pc[f] = "js")

(* A fiber whose operation has completed runs again.                       *)
CompletedCallReturns ==
  \A f \in Fibers :
    (\E context \in Range(resumable_fibers) : context.fiber = f)
      ~> (pc[f] = "js")

(* The scheduler implements Coroutines, as long as fibers are run from the *)
(* script only.                                                            *)
Calls(contexts) == {<<c.fiber, c.of.n>> : c \in contexts}
CallSequence(q) == [i \in DOMAIN q |-> <<q[i].fiber, q[i].of.n>>]

Abstract == INSTANCE Coroutines WITH
  running <- IF stack = Main THEN <<Main>> ELSE <<stack, Main>>,
  created <- {f \in Fibers : pc[f] # "unborn"},
  finished <- {f \in Fibers : pc[f] = "ended"},
  calls <- [f \in Fibers |-> call[f]],
  blocked <- Calls(pending),
  ready <- CallSequence(local_queue \o resumable_fibers),
  answered <- [f \in Fibers |-> resume_value[f].n]

ImplementsCoroutines == Abstract!Spec
===============================================================================
