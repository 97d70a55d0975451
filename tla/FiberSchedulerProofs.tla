------------------------- MODULE FiberSchedulerProofs -------------------------
(***************************************************************************)
(* Proofs about FiberScheduler, for any set of fibers and any MaxCalls.    *)
(* TypeOK holds on both platforms, with nested runs and blocking scripts.  *)
(***************************************************************************)
EXTENDS FiberScheduler, QueueLemmas

LEMMA Names == /\ Main \in AllFibers
               /\ \A f \in Fibers : f \in AllFibers /\ f # Main
               /\ NoFiber \notin AllFibers
  BY SchedulerAssumption DEF AllFibers

-------------------------------------------------------------------------------
(* TypeOK is inductive.                                                    *)

LEMMA InitType == Init => TypeOK
<1> SUFFICES ASSUME Init PROVE TypeOK
  OBVIOUS
<1> USE Names DEF Init
<1>1. state_ \in [AllFibers -> State]
  BY DEF State
<1>2. resume_value \in [AllFibers -> Result \cup {Empty}]
  OBVIOUS
<1>3. slot \in [AllFibers -> AllFibers \cup {NoFiber}]
  OBVIOUS
<1>4. pc \in [AllFibers -> Location]
  BY DEF Location
<1>5. child \in [AllFibers -> AllFibers \cup {NoFiber}]
  OBVIOUS
<1>6. returned \in [AllFibers -> Result \cup {Empty}]
  OBVIOUS
<1>7. resumable_fibers \in Seq(AsyncContext) /\ local_queue \in Seq(AsyncContext)
  OBVIOUS
<1>8. call \in [AllFibers -> Nat]
  OBVIOUS
<1> QED
  BY <1>1, <1>2, <1>3, <1>4, <1>5, <1>6, <1>7, <1>8 DEF TypeOK

(* Switching between two existing fibers keeps the types of the contexts.  *)
LEMMA SwitchType ==
  ASSUME TypeOK, stack # NoFiber,
         NEW named \in AllFibers, NEW target \in AllFibers,
         SwitchContext(named, target)
  PROVE  /\ stack' \in AllFibers \cup {NoFiber}
         /\ slot' \in [AllFibers -> AllFibers \cup {NoFiber}]
  BY DEF TypeOK, SwitchContext, SavedIn

LEMMA YieldType ==
  ASSUME TypeOK, stack # NoFiber, yield
  PROVE  /\ state_' \in [AllFibers -> State]
         /\ current_fiber_' \in AllFibers
         /\ stack' \in AllFibers \cup {NoFiber}
         /\ slot' \in [AllFibers -> AllFibers \cup {NoFiber}]
<1>1. current_fiber_ \in AllFibers /\ state_ \in [AllFibers -> State]
  BY DEF TypeOK
<1>2. SwitchContext(current_fiber_, Main)
  BY DEF yield
<1>3. stack' \in AllFibers \cup {NoFiber}
      /\ slot' \in [AllFibers -> AllFibers \cup {NoFiber}]
  BY <1>1, <1>2, Names, SwitchType
<1> QED
  BY <1>1, <1>3, Names DEF yield, State

LEMMA ResumeType ==
  ASSUME TypeOK, stack # NoFiber, NEW f \in AllFibers, resume(f)
  PROVE  /\ state_' \in [AllFibers -> State]
         /\ current_fiber_' \in AllFibers
         /\ child' \in [AllFibers -> AllFibers \cup {NoFiber}]
         /\ stack' \in AllFibers \cup {NoFiber}
         /\ slot' \in [AllFibers -> AllFibers \cup {NoFiber}]
<1>1. SwitchContext(Main, f)
  BY DEF resume
<1>2. stack' \in AllFibers \cup {NoFiber}
      /\ slot' \in [AllFibers -> AllFibers \cup {NoFiber}]
  BY <1>1, Names, SwitchType
<1> QED
  BY <1>2, Names DEF resume, TypeOK, State

LEMMA StepType == TypeOK /\ [Next]_vars => TypeOK'
<1> SUFFICES ASSUME TypeOK, [Next]_vars PROVE TypeOK'
  OBVIOUS
<1> USE Names
<1>1. ASSUME NEW primitive \in Inside, Call(primitive) PROVE TypeOK'
  <2>1. stack \in AllFibers /\ stack # NoFiber /\ yield
    BY <1>1 DEF Call, TypeOK
  <2>2. pc' \in [AllFibers -> Location]
    BY <1>1 DEF Call, Goto, Location, TypeOK
  <2>3. call[stack] + 1 \in Nat /\ call' \in [AllFibers -> Nat]
    BY <1>1, <2>1 DEF Call, TypeOK
  <2>4. [of |-> [caller |-> stack, n |-> call[stack] + 1],
         fiber |-> current_fiber_] \in AsyncContext
    BY <2>1, <2>3 DEF TypeOK, AsyncContext, Result
  <2>5. pending' \in SUBSET AsyncContext
    BY <1>1, <2>4 DEF Call, TypeOK
  <2>6. UNCHANGED <<resume_value, child, returned, resumable_fibers,
                    resume_handle, local_queue>>
    BY <1>1 DEF Call
  <2> QED
    BY <2>1, <2>2, <2>3, <2>5, <2>6, YieldType DEF TypeOK
<1>2. CASE ReturnFromYield
  <2>1. stack \in AllFibers /\ stack # NoFiber
    BY <1>2 DEF ReturnFromYield, TypeOK
  <2>2. pc' \in [AllFibers -> Location]
    BY <1>2 DEF ReturnFromYield, Goto, Location, TypeOK
  <2>3. resume_value[current_fiber_] \in Result \cup {Empty}
    BY DEF TypeOK
  <2>4. returned' \in [AllFibers -> Result \cup {Empty}]
    BY <1>2, <2>3 DEF ReturnFromYield, TypeOK
  <2>5. stack' \in AllFibers \cup {NoFiber}
    BY <1>2, <2>1 DEF ReturnFromYield
  <2> QED
    BY <1>2, <2>2, <2>4, <2>5 DEF ReturnFromYield, TypeOK, libuvVars
<1>3. ASSUME NEW f \in Fibers, Fiber_Run(f) PROVE TypeOK'
  <2>1. stack \in AllFibers /\ stack # NoFiber /\ resume(f)
    BY <1>3 DEF Fiber_Run, TypeOK
  <2>2. pc' \in [AllFibers -> Location]
    BY <1>3 DEF Fiber_Run, Location, TypeOK
  <2> QED
    BY <1>3, <2>1, <2>2, ResumeType DEF Fiber_Run, TypeOK, libuvVars
<1>4. CASE ReturnFromResume
  <2>1. pc' \in [AllFibers -> Location]
    BY <1>4 DEF ReturnFromResume, Goto, Location, TypeOK
  <2>2. state_' \in [AllFibers -> State] /\ current_fiber_' \in AllFibers
    BY <1>4 DEF ReturnFromResume, State, TypeOK
  <2>3. child' \in [AllFibers -> AllFibers \cup {NoFiber}]
    BY <1>4 DEF ReturnFromResume, TypeOK
  <2> QED
    BY <1>4, <2>1, <2>2, <2>3 DEF ReturnFromResume, TypeOK, libuvVars
<1>5. CASE Finish
  <2>1. stack # NoFiber
    BY <1>5 DEF Finish
  <2>2. pc' \in [AllFibers -> Location]
    BY <1>5 DEF Finish, Goto, Location, TypeOK
  <2>3. /\ state_' \in [AllFibers -> State]
        /\ current_fiber_' \in AllFibers
        /\ stack' \in AllFibers \cup {NoFiber}
        /\ slot' \in [AllFibers -> AllFibers \cup {NoFiber}]
    <3>1. CASE Platform = "windows"
      BY <1>5, <2>1, <3>1, YieldType DEF Finish
    <3>2. CASE Platform # "windows"
      BY <1>5, <3>2 DEF Finish, State, TypeOK
    <3> QED
      BY <3>1, <3>2
  <2> QED
    BY <1>5, <2>2, <2>3 DEF Finish, TypeOK, libuvVars
<1>6. CASE EndScript
  <2>1. pc' \in [AllFibers -> Location]
    BY <1>6 DEF EndScript, Goto, Location, TypeOK
  <2> QED
    BY <1>6, <2>1 DEF EndScript, TypeOK, libuvVars
<1>7. ASSUME NEW context \in pending, QueueFiberToResume(context)
      PROVE  TypeOK'
  <2>1. context \in AsyncContext
    BY DEF TypeOK
  <2>2. resumable_fibers' \in Seq(AsyncContext) /\ resume_handle' \in BOOLEAN
        /\ pending' \in SUBSET AsyncContext
    BY <1>7, <2>1 DEF QueueFiberToResume, TypeOK
  <2> QED
    BY <1>7, <2>2 DEF QueueFiberToResume, TypeOK
<1>8. CASE OnFibersToResume
  <2>1. pc' \in [AllFibers -> Location]
    BY <1>8 DEF OnFibersToResume, Goto, Location, TypeOK
  <2>2. resumable_fibers' = <<>> /\ local_queue' = resumable_fibers
        /\ resume_handle' = FALSE
    BY <1>8 DEF OnFibersToResume
  <2>3. local_queue' \in Seq(AsyncContext)
    BY <2>2 DEF TypeOK
  <2>4. <<>> \in Seq(AsyncContext)
    OBVIOUS
  <2>5. resumable_fibers' \in Seq(AsyncContext)
    BY <2>2, <2>4
  <2> QED
    BY <1>8, <2>1, <2>2, <2>3, <2>5 DEF OnFibersToResume, TypeOK
<1>9. CASE ResumeNext
  <2> DEFINE context == Head(local_queue)
  <2>1. context \in AsyncContext /\ local_queue' \in Seq(AsyncContext)
    BY <1>9 DEF ResumeNext, TypeOK
  <2>2. context.of \in Result /\ context.fiber \in AllFibers
    BY <2>1 DEF AsyncContext
  <2>3. pc' \in [AllFibers -> Location]
    BY <1>9 DEF ResumeNext, Goto, Location, TypeOK
  <2>4. resume_value' \in [AllFibers -> Result \cup {Empty}]
    BY <1>9, <2>2 DEF ResumeNext, TypeOK
  <2>5. stack # NoFiber /\ resume(context.fiber)
    BY <1>9 DEF ResumeNext
  <2>6. /\ state_' \in [AllFibers -> State]
        /\ current_fiber_' \in AllFibers
        /\ child' \in [AllFibers -> AllFibers \cup {NoFiber}]
        /\ stack' \in AllFibers \cup {NoFiber}
        /\ slot' \in [AllFibers -> AllFibers \cup {NoFiber}]
    BY <2>2, <2>5, ResumeType
  <2> QED
    BY <1>9, <2>1, <2>3, <2>4, <2>6 DEF ResumeNext, TypeOK
<1>10. CASE EndDrain
  <2>1. pc' \in [AllFibers -> Location]
    BY <1>10 DEF EndDrain, Goto, Location, TypeOK
  <2> QED
    BY <1>10, <2>1 DEF EndDrain, TypeOK, libuvVars
<1>11. CASE UNCHANGED vars
  BY <1>11 DEF vars, libuvVars, TypeOK
<1> QED
  BY <1>1, <1>2, <1>3, <1>4, <1>5, <1>6, <1>7, <1>8, <1>9, <1>10, <1>11
     DEF Next, JavaScript, Runtime, Inside

(* Every variable of the scheduler keeps its type, on both platforms, with *)
(* nested runs and with scripts that block.                                *)
THEOREM TypeCorrect == Spec => []TypeOK
<1>1. Init => TypeOK
  BY InitType
<1>2. TypeOK /\ [Next]_vars => TypeOK'
  BY StepType
<1> QED
  BY <1>1, <1>2, PTL DEF Spec

-------------------------------------------------------------------------------
(***************************************************************************)
(* The inductive invariant.  It holds when the script never blocks and,    *)
(* on POSIX, fibers are run from the script only.                          *)
(***************************************************************************)
Disciplined == ~BlockInScript /\ (NestedRun => Platform = "windows")

InsideResume == pc[Main] \in {"Fiber_Run", "resuming"}

(* Where each stack is, and that its saved context is valid when it waits. *)
StackInv ==
  /\ stack \in AllFibers
  /\ pc[Main] \in {"js", "Fiber_Run", "uv_run", "draining", "resuming"}
  /\ stack # Main => InsideResume /\ slot[Main] = Main
  /\ \A f \in Fibers :
       /\ pc[f] \in Inside \cup {"unborn", "js", "Fiber_Run", "ended"}
       /\ pc[f] = "js" => stack = f
       /\ stack = f => pc[f] \in Inside \cup {"js"}
       /\ stack # f /\ pc[f] \in Inside \cup {"unborn"} => slot[f] = f

(* current_fiber_ names the stack, but for the moment between the end of a *)
(* POSIX fiber and its deletion.                                           *)
CurrentInv ==
  /\ stack # Main => current_fiber_ = stack
  /\ stack = Main => \/ current_fiber_ = Main
                     \/ InsideResume /\ state_[child[Main]] = "DONE"
  /\ stack # Main /\ Platform = "posix" => child[Main] = stack

(* The answer is in resume_value from the switch to the return.            *)
AnswerInv ==
  /\ call[Main] = 0
  /\ \A f \in Fibers :
       /\ pc[f] = "unborn" => call[f] = 0
       /\ stack = f /\ pc[f] \in Inside => resume_value[f] = ContextOf(f).of
       /\ pc[f] = "js" /\ call[f] > 0 => returned[f] = ContextOf(f).of

QueueInv ==
  /\ ContextsMatchWaitingFibers
  /\ QueuedOnce
  /\ SignalledWhileQueued
  /\ pc[Main] \notin {"draining", "resuming"} => local_queue = <<>>

FreedInv ==
  Platform = "posix" =>
    \A f \in Fibers :
      pc[f] = "ended" =>
        \/ state_[f] = "FREED"
        \/ state_[f] = "DONE" /\ stack = Main /\ InsideResume /\ child[Main] = f

SchedulerInv == /\ TypeOK /\ StackInv /\ CurrentInv
                /\ AnswerInv /\ QueueInv /\ FreedInv

-------------------------------------------------------------------------------
(* The two switches, in a state where the invariant holds.                 *)

LEMMA YieldStep ==
  ASSUME TypeOK, StackInv, CurrentInv, stack \in Fibers, yield
  PROVE  /\ stack' = Main
         /\ slot' = [slot EXCEPT ![stack] = stack, ![Main] = NoFiber]
         /\ current_fiber_' = Main
         /\ state_' = [state_ EXCEPT ![stack] = "SUSPENDED"]
<1>1. stack # Main /\ current_fiber_ = stack /\ slot[Main] = Main
  BY Names DEF StackInv, CurrentInv
<1>2. SavedIn(current_fiber_) = stack
  BY <1>1 DEF SavedIn
<1>3. slot \in [AllFibers -> AllFibers \cup {NoFiber}] /\ stack \in AllFibers
  BY Names DEF TypeOK
<1> QED
  BY <1>1, <1>2, <1>3, Names DEF yield, SwitchContext

LEMMA ResumeStep ==
  ASSUME TypeOK, StackInv, stack = Main \/ Platform = "windows",
         NEW f \in Fibers, f # stack, slot[f] = f, resume(f)
  PROVE  /\ stack' = f
         /\ slot' = [slot EXCEPT ![stack] = stack, ![f] = NoFiber]
         /\ slot'[Main] = Main
<1>1. SavedIn(Main) = stack
  BY DEF SavedIn
<1>2. slot \in [AllFibers -> AllFibers \cup {NoFiber}] /\ stack \in AllFibers
  BY DEF TypeOK, StackInv
<1>3. stack' = f /\ slot' = [slot EXCEPT ![stack] = stack, ![f] = NoFiber]
  BY <1>1, <1>2, Names DEF resume, SwitchContext
<1>4. slot'[Main] = Main
  <2>1. CASE stack = Main
    BY <1>2, <1>3, <2>1, Names
  <2>2. CASE stack # Main
    BY <1>2, <1>3, <2>2, Names DEF StackInv
  <2> QED
    BY <2>1, <2>2
<1> QED
  BY <1>3, <1>4

(* The context at the head of the queue names a fiber that can be resumed. *)
LEMMA HeadWaits ==
  ASSUME TypeOK, StackInv, QueueInv, stack = Main, local_queue # <<>>
  PROVE  /\ Head(local_queue).fiber \in Fibers
         /\ Waiting(Head(local_queue).fiber)
         /\ Head(local_queue) = ContextOf(Head(local_queue).fiber)
         /\ slot[Head(local_queue).fiber] = Head(local_queue).fiber
<1> DEFINE c == Head(local_queue)
<1>1. c \in Range(local_queue)
  BY RangeTail DEF TypeOK
<1>2. c \in InFlight
  BY <1>1 DEF InFlight
<1>3. PICK f \in Fibers : Waiting(f) /\ c = ContextOf(f)
  BY <1>2 DEF QueueInv, ContextsMatchWaitingFibers
<1>4. c.fiber = f
  BY <1>3 DEF ContextOf
<1>5. slot[f] = f
  BY <1>3, Names DEF Waiting, StackInv
<1> QED
  BY <1>3, <1>4, <1>5

-------------------------------------------------------------------------------
(* Each part of the invariant is kept by each action.                      *)

LEMMA StackStep ==
  ASSUME Disciplined, SchedulerInv, [Next]_vars
  PROVE  StackInv'
<1> USE Names DEF SchedulerInv
<1> DEFINE At == {"js", "Fiber_Run", "uv_run", "draining", "resuming"}
           AtFiber == Inside \cup {"unborn", "js", "Fiber_Run", "ended"}
<1>0. /\ pc \in [AllFibers -> Location]
      /\ slot \in [AllFibers -> AllFibers \cup {NoFiber}]
      /\ stack \in AllFibers /\ stack # NoFiber
  BY DEF TypeOK, StackInv
<1>1. ASSUME NEW primitive \in Inside, Call(primitive) PROVE StackInv'
  <2>1. stack \in Fibers
    BY <1>0, <1>1 DEF Call, Disciplined, AllFibers
  <2>2. /\ stack' = Main
        /\ slot' = [slot EXCEPT ![stack] = stack, ![Main] = NoFiber]
    BY <1>1, <2>1, YieldStep DEF Call
  <2>3. pc' = [pc EXCEPT ![stack] = primitive]
    BY <1>1 DEF Call, Goto
  <2> QED
    BY <1>0, <2>1, <2>2, <2>3 DEF StackInv, InsideResume, Inside
<1>2. CASE ReturnFromYield
  <2>1. stack \in Fibers /\ pc[stack] \in Inside
    BY <1>0, <1>2 DEF ReturnFromYield, StackInv, Inside, AllFibers
  <2>2. resume_value[current_fiber_] = ContextOf(stack).of
    BY <2>1 DEF CurrentInv, AnswerInv
  <2>3. ContextOf(stack).of # Empty
    BY <1>0 DEF ContextOf, Empty
  <2>4. stack' = stack /\ slot' = slot /\ pc' = [pc EXCEPT ![stack] = "js"]
    BY <1>2, <2>2, <2>3 DEF ReturnFromYield, Goto
  <2> QED
    BY <1>0, <2>1, <2>4 DEF StackInv, InsideResume, Inside
<1>3. ASSUME NEW f \in Fibers, Fiber_Run(f) PROVE StackInv'
  <2>1. f # stack /\ slot[f] = f /\ (stack = Main \/ Platform = "windows")
    BY <1>3 DEF Fiber_Run, StackInv, Disciplined
  <2>2. /\ stack' = f
        /\ slot' = [slot EXCEPT ![stack] = stack, ![f] = NoFiber]
        /\ slot'[Main] = Main
    BY <1>3, <2>1, ResumeStep DEF Fiber_Run
  <2>3. pc' = [pc EXCEPT ![stack] = "Fiber_Run", ![f] = "js"]
    BY <1>3 DEF Fiber_Run
  <2>4. pc[stack] = "js"
    BY <1>3 DEF Fiber_Run
  <2>5. pc'[Main] \in At /\ InsideResume'
    BY <1>0, <2>1, <2>3, <2>4 DEF StackInv, InsideResume
  <2> QED
    BY <1>0, <2>1, <2>2, <2>3, <2>4, <2>5 DEF StackInv, InsideResume, Inside
<1>4. CASE ReturnFromResume
  <2>1. stack = Main
    BY <1>0, <1>4 DEF ReturnFromResume, StackInv, Inside, AllFibers
  <2>2. stack' = stack /\ slot' = slot
    BY <1>4 DEF ReturnFromResume
  <2>3. \E location \in {"js", "draining"} : pc' = [pc EXCEPT ![Main] = location]
    BY <1>4, <2>1 DEF ReturnFromResume, Goto
  <2> QED
    BY <1>0, <2>1, <2>2, <2>3 DEF StackInv, InsideResume, Inside
<1>5. CASE Finish
  <2>1. stack \in Fibers /\ pc' = [pc EXCEPT ![stack] = "ended"]
    BY <1>5 DEF Finish, Goto
  <2>2. stack' = Main /\ \A f \in Fibers : f # stack => slot'[f] = slot[f]
    <3>1. CASE Platform = "windows"
      BY <1>0, <1>5, <2>1, <3>1, YieldStep DEF Finish
    <3>2. CASE Platform # "windows"
      BY <1>0, <1>5, <2>1, <3>2 DEF Finish, StackInv
    <3> QED
      BY <3>1, <3>2
  <2> QED
    BY <1>0, <2>1, <2>2 DEF StackInv, InsideResume, Inside
<1>6. CASE EndScript
  BY <1>0, <1>6 DEF EndScript, Goto, StackInv, InsideResume, Inside
<1>7. ASSUME NEW context \in pending, QueueFiberToResume(context)
      PROVE  StackInv'
  BY <1>0, <1>7 DEF QueueFiberToResume, StackInv, InsideResume
<1>8. CASE OnFibersToResume
  BY <1>0, <1>8 DEF OnFibersToResume, Goto, StackInv, InsideResume, Inside
<1>9. CASE ResumeNext
  <2> DEFINE f == Head(local_queue).fiber
  <2>1. stack = Main /\ local_queue # <<>> /\ resume(f)
    BY <1>9 DEF ResumeNext
  <2>2. f \in Fibers /\ Waiting(f) /\ slot[f] = f
    BY <2>1, HeadWaits
  <2>3. /\ stack' = f
        /\ slot' = [slot EXCEPT ![stack] = stack, ![f] = NoFiber]
        /\ slot'[Main] = Main
    BY <2>1, <2>2, ResumeStep DEF Waiting
  <2>4. pc' = [pc EXCEPT ![Main] = "resuming"]
    BY <1>9, <2>1 DEF ResumeNext, Goto
  <2> QED
    BY <1>0, <2>1, <2>2, <2>3, <2>4 DEF StackInv, InsideResume, Inside, Waiting
<1>10. CASE EndDrain
  BY <1>0, <1>10 DEF EndDrain, Goto, StackInv, InsideResume, Inside
<1>11. CASE UNCHANGED vars
  BY <1>11 DEF vars, StackInv, InsideResume
<1> QED
  BY <1>1, <1>2, <1>3, <1>4, <1>5, <1>6, <1>7, <1>8, <1>9, <1>10, <1>11
     DEF Next, JavaScript, Runtime, Inside

LEMMA CurrentStep ==
  ASSUME Disciplined, SchedulerInv, [Next]_vars
  PROVE  CurrentInv'
<1> USE Names DEF SchedulerInv
<1>0. /\ pc \in [AllFibers -> Location]
      /\ state_ \in [AllFibers -> State]
      /\ child \in [AllFibers -> AllFibers \cup {NoFiber}]
      /\ stack \in AllFibers /\ stack # NoFiber
  BY DEF TypeOK, StackInv
<1>1. ASSUME NEW primitive \in Inside, Call(primitive) PROVE CurrentInv'
  <2>1. stack \in Fibers
    BY <1>0, <1>1 DEF Call, Disciplined, AllFibers
  <2>2. stack' = Main /\ current_fiber_' = Main
    BY <1>1, <2>1, YieldStep DEF Call
  <2> QED
    BY <2>2 DEF CurrentInv
<1>2. CASE ReturnFromYield
  <2>1. stack \in Fibers /\ pc[stack] \in Inside
    BY <1>0, <1>2 DEF ReturnFromYield, StackInv, Inside, AllFibers
  <2>2. resume_value[current_fiber_] = ContextOf(stack).of
    BY <2>1 DEF CurrentInv, AnswerInv
  <2>3. ContextOf(stack).of # Empty
    BY <1>0 DEF ContextOf, Empty
  <2>4. stack' = stack /\ UNCHANGED <<current_fiber_, child>>
    BY <1>2, <2>2, <2>3 DEF ReturnFromYield
  <2> QED
    BY <2>1, <2>4 DEF CurrentInv
<1>3. ASSUME NEW f \in Fibers, Fiber_Run(f) PROVE CurrentInv'
  <2>1. f # stack /\ slot[f] = f /\ (stack = Main \/ Platform = "windows")
    BY <1>3 DEF Fiber_Run, StackInv, Disciplined
  <2>2. stack' = f
    BY <1>3, <2>1, ResumeStep DEF Fiber_Run
  <2>3. current_fiber_' = f /\ child' = [child EXCEPT ![stack] = f]
    BY <1>3 DEF Fiber_Run, resume
  <2> QED
    BY <1>0, <2>1, <2>2, <2>3, SchedulerAssumption DEF CurrentInv
<1>4. CASE ReturnFromResume
  <2>1. stack = Main /\ stack' = Main
    BY <1>0, <1>4 DEF ReturnFromResume, StackInv, Inside, AllFibers
  <2>2. current_fiber_' = Main
    BY <1>4, <2>1 DEF ReturnFromResume, CurrentInv
  <2> QED
    BY <2>1, <2>2 DEF CurrentInv
<1>5. CASE Finish
  <2>1. stack \in Fibers /\ pc' = [pc EXCEPT ![stack] = "ended"] /\ child' = child
    BY <1>5 DEF Finish, Goto
  <2>2. CASE Platform = "windows"
    BY <1>5, <2>2, <2>1, YieldStep DEF Finish, CurrentInv
  <2>3. CASE Platform # "windows"
    <3>1. child[Main] = stack /\ slot[Main] = Main /\ InsideResume
      BY <2>1, <2>3, SchedulerAssumption DEF CurrentInv, StackInv
    <3>2. stack' = Main /\ state_' = [state_ EXCEPT ![stack] = "DONE"]
      BY <1>5, <2>3, <3>1 DEF Finish
    <3>3. state_'[child'[Main]] = "DONE" /\ InsideResume'
      BY <1>0, <2>1, <3>1, <3>2 DEF InsideResume
    <3> QED
      BY <3>2, <3>3 DEF CurrentInv
  <2> QED
    BY <2>2, <2>3
<1>6. CASE EndScript
  BY <1>0, <1>6 DEF EndScript, Goto, CurrentInv, InsideResume
<1>7. ASSUME NEW context \in pending, QueueFiberToResume(context)
      PROVE  CurrentInv'
  BY <1>0, <1>7 DEF QueueFiberToResume, CurrentInv, InsideResume
<1>8. CASE OnFibersToResume
  BY <1>0, <1>8 DEF OnFibersToResume, Goto, CurrentInv, InsideResume
<1>9. CASE ResumeNext
  <2> DEFINE f == Head(local_queue).fiber
  <2>1. stack = Main /\ local_queue # <<>> /\ resume(f)
    BY <1>9 DEF ResumeNext
  <2>2. f \in Fibers /\ Waiting(f) /\ slot[f] = f
    BY <2>1, HeadWaits
  <2>3. stack' = f
    BY <2>1, <2>2, ResumeStep DEF Waiting
  <2>4. current_fiber_' = f /\ child' = [child EXCEPT ![stack] = f]
    BY <2>1 DEF resume
  <2> QED
    BY <1>0, <2>1, <2>2, <2>3, <2>4 DEF CurrentInv
<1>10. CASE EndDrain
  BY <1>0, <1>10 DEF EndDrain, Goto, CurrentInv, InsideResume
<1>11. CASE UNCHANGED vars
  BY <1>11 DEF vars, CurrentInv, InsideResume
<1> QED
  BY <1>1, <1>2, <1>3, <1>4, <1>5, <1>6, <1>7, <1>8, <1>9, <1>10, <1>11
     DEF Next, JavaScript, Runtime, Inside

LEMMA AnswerStep ==
  ASSUME Disciplined, SchedulerInv, [Next]_vars
  PROVE  AnswerInv'
<1> USE Names DEF SchedulerInv
<1>0. /\ pc \in [AllFibers -> Location]
      /\ call \in [AllFibers -> Nat]
      /\ returned \in [AllFibers -> Result \cup {Empty}]
      /\ resume_value \in [AllFibers -> Result \cup {Empty}]
      /\ stack \in AllFibers /\ stack # NoFiber
  BY DEF TypeOK, StackInv
<1>1. ASSUME NEW primitive \in Inside, Call(primitive) PROVE AnswerInv'
  <2>1. stack \in Fibers
    BY <1>0, <1>1 DEF Call, Disciplined, AllFibers
  <2>2. stack' = Main
    BY <1>1, <2>1, YieldStep DEF Call
  <2>3. /\ pc' = [pc EXCEPT ![stack] = primitive]
        /\ call' = [call EXCEPT ![stack] = @ + 1]
        /\ UNCHANGED <<resume_value, returned>>
    BY <1>1 DEF Call, Goto
  <2>4. \A f \in Fibers : f # stack => call'[f] = call[f] /\ pc'[f] = pc[f]
    BY <1>0, <2>3
  <2>5. pc'[stack] = primitive /\ call'[Main] = call[Main]
    BY <1>0, <2>1, <2>3
  <2> QED
    BY <1>0, <2>1, <2>2, <2>3, <2>4, <2>5 DEF AnswerInv, ContextOf, Inside
<1>2. CASE ReturnFromYield
  <2>1. stack \in Fibers /\ pc[stack] \in Inside
    BY <1>0, <1>2 DEF ReturnFromYield, StackInv, Inside, AllFibers
  <2>2. resume_value[current_fiber_] = ContextOf(stack).of
    BY <2>1 DEF CurrentInv, AnswerInv
  <2>3. ContextOf(stack).of # Empty
    BY <1>0 DEF ContextOf, Empty
  <2>4. /\ stack' = stack
        /\ pc' = [pc EXCEPT ![stack] = "js"]
        /\ returned' = [returned EXCEPT ![stack] = ContextOf(stack).of]
        /\ UNCHANGED <<call, resume_value>>
    BY <1>2, <2>2, <2>3 DEF ReturnFromYield, Goto
  <2> QED
    BY <1>0, <2>1, <2>4 DEF AnswerInv, ContextOf, Inside
<1>3. ASSUME NEW f \in Fibers, Fiber_Run(f) PROVE AnswerInv'
  <2>1. f # stack /\ slot[f] = f /\ (stack = Main \/ Platform = "windows")
    BY <1>3 DEF Fiber_Run, StackInv, Disciplined
  <2>2. stack' = f
    BY <1>3, <2>1, ResumeStep DEF Fiber_Run
  <2>3. /\ pc' = [pc EXCEPT ![stack] = "Fiber_Run", ![f] = "js"]
        /\ UNCHANGED <<call, returned, resume_value>>
        /\ pc[f] = "unborn"
    BY <1>3 DEF Fiber_Run
  <2> QED
    BY <1>0, <2>1, <2>2, <2>3 DEF AnswerInv, ContextOf, Inside
<1>4. CASE ReturnFromResume
  <2>1. stack = Main /\ stack' = Main
    BY <1>0, <1>4 DEF ReturnFromResume, StackInv, Inside, AllFibers
  <2>2. UNCHANGED <<call, returned, resume_value>>
        /\ \A f \in Fibers : pc'[f] = pc[f]
    BY <1>0, <1>4, <2>1 DEF ReturnFromResume, Goto
  <2> QED
    BY <2>1, <2>2 DEF AnswerInv, ContextOf
<1>5. CASE Finish
  <2>1. stack \in Fibers /\ pc' = [pc EXCEPT ![stack] = "ended"]
        /\ UNCHANGED <<call, returned, resume_value>>
    BY <1>5 DEF Finish, Goto
  <2>2. stack' = Main
    <3>1. CASE Platform = "windows"
      BY <1>5, <2>1, <3>1, YieldStep DEF Finish
    <3>2. CASE Platform # "windows"
      BY <1>5, <2>1, <3>2 DEF Finish, StackInv
    <3> QED
      BY <3>1, <3>2
  <2> QED
    BY <1>0, <2>1, <2>2 DEF AnswerInv, ContextOf, Inside
<1>6. CASE EndScript
  <2>1. stack' = stack /\ UNCHANGED <<call, returned, resume_value>>
        /\ \A f \in Fibers : pc'[f] = pc[f]
    BY <1>0, <1>6 DEF EndScript, Goto
  <2> QED
    BY <2>1 DEF AnswerInv, ContextOf
<1>7. ASSUME NEW context \in pending, QueueFiberToResume(context)
      PROVE  AnswerInv'
  BY <1>7 DEF QueueFiberToResume, AnswerInv, ContextOf
<1>8. CASE OnFibersToResume
  <2>1. stack' = stack /\ UNCHANGED <<call, returned, resume_value>>
        /\ \A f \in Fibers : pc'[f] = pc[f]
    BY <1>0, <1>8 DEF OnFibersToResume, Goto
  <2> QED
    BY <2>1 DEF AnswerInv, ContextOf
<1>9. CASE ResumeNext
  <2> DEFINE c == Head(local_queue)
             f == c.fiber
  <2>1. stack = Main /\ local_queue # <<>> /\ resume(f)
    BY <1>9 DEF ResumeNext
  <2>2. f \in Fibers /\ Waiting(f) /\ slot[f] = f /\ c = ContextOf(f)
    BY <2>1, HeadWaits
  <2>3. stack' = f
    BY <2>1, <2>2, ResumeStep DEF Waiting
  <2>4. resume_value' = [resume_value EXCEPT ![f] = c.of]
        /\ UNCHANGED <<call, returned>>
        /\ \A g \in Fibers : pc'[g] = pc[g]
    BY <1>0, <1>9, <2>1 DEF ResumeNext, Goto
  <2>5. c.of = ContextOf(f).of
    BY <2>2
  <2>6. resume_value'[f] = ContextOf(f).of
    BY <1>0, <2>2, <2>4, <2>5
  <2> HIDE DEF f, c
  <2> QED
    BY <2>2, <2>3, <2>4, <2>6 DEF AnswerInv, ContextOf, Waiting, Inside
<1>10. CASE EndDrain
  <2>1. stack' = stack /\ UNCHANGED <<call, returned, resume_value>>
        /\ \A f \in Fibers : pc'[f] = pc[f]
    BY <1>0, <1>10 DEF EndDrain, Goto
  <2> QED
    BY <2>1 DEF AnswerInv, ContextOf
<1>11. CASE UNCHANGED vars
  BY <1>11 DEF vars, AnswerInv, ContextOf
<1> QED
  BY <1>1, <1>2, <1>3, <1>4, <1>5, <1>6, <1>7, <1>8, <1>9, <1>10, <1>11
     DEF Next, JavaScript, Runtime, Inside

LEMMA FreedStep ==
  ASSUME Disciplined, SchedulerInv, [Next]_vars
  PROVE  FreedInv'
<1> SUFFICES ASSUME Platform = "posix" PROVE FreedInv'
  BY DEF FreedInv
<1> USE Names DEF SchedulerInv
<1>0. /\ pc \in [AllFibers -> Location]
      /\ state_ \in [AllFibers -> State]
      /\ child \in [AllFibers -> AllFibers \cup {NoFiber}]
      /\ stack \in AllFibers /\ stack # NoFiber
      /\ ~NestedRun
  BY SchedulerAssumption DEF TypeOK, StackInv, Disciplined
<1>1. ASSUME NEW primitive \in Inside, Call(primitive) PROVE FreedInv'
  <2>1. stack \in Fibers
    BY <1>0, <1>1 DEF Call, Disciplined, AllFibers
  <2>2. state_' = [state_ EXCEPT ![stack] = "SUSPENDED"]
    BY <1>1, <2>1, YieldStep DEF Call
  <2>3. pc' = [pc EXCEPT ![stack] = primitive] /\ pc[stack] = "js"
    BY <1>1 DEF Call, Goto
  <2> QED
    BY <1>0, <2>1, <2>2, <2>3 DEF FreedInv, Inside
<1>2. CASE ReturnFromYield
  <2>1. stack \in Fibers
    BY <1>0, <1>2 DEF ReturnFromYield, StackInv, Inside, AllFibers
  <2>2. pc' = [pc EXCEPT ![stack] = "js"] /\ UNCHANGED state_
    BY <1>2 DEF ReturnFromYield, Goto
  <2> QED
    BY <1>0, <2>1, <2>2 DEF FreedInv
<1>3. ASSUME NEW f \in Fibers, Fiber_Run(f) PROVE FreedInv'
  <2>1. stack = Main /\ pc[Main] = "js"
    BY <1>0, <1>3 DEF Fiber_Run
  <2>2. /\ pc' = [pc EXCEPT ![Main] = "Fiber_Run", ![f] = "js"]
        /\ state_' = [state_ EXCEPT ![f] = "RUNNING"]
    BY <1>3, <2>1 DEF Fiber_Run, resume
  <2>3. \A g \in Fibers : pc[g] = "ended" => state_[g] = "FREED"
    BY <2>1 DEF FreedInv, InsideResume
  <2> QED
    BY <1>0, <2>2, <2>3 DEF FreedInv
<1>4. CASE ReturnFromResume
  <2>1. stack = Main
    BY <1>0, <1>4 DEF ReturnFromResume, StackInv, Inside, AllFibers
  <2>2. \A f \in Fibers : pc'[f] = pc[f]
    BY <1>0, <1>4, <2>1 DEF ReturnFromResume, Goto
  <2>3. state_' = IF state_[child[Main]] = "DONE"
                    THEN [state_ EXCEPT ![child[Main]] = "FREED"] ELSE state_
    BY <1>4, <2>1 DEF ReturnFromResume
  <2>4. ASSUME NEW f \in Fibers, pc[f] = "ended" PROVE state_'[f] = "FREED"
    <3>1. CASE state_[f] = "FREED"
      BY <1>0, <2>3, <3>1
    <3>2. CASE state_[f] = "DONE" /\ child[Main] = f
      BY <1>0, <2>3, <3>2
    <3> QED
      BY <2>4, <3>1, <3>2 DEF FreedInv
  <2> QED
    BY <2>2, <2>4 DEF FreedInv
<1>5. CASE Finish
  <2>1. stack \in Fibers /\ pc' = [pc EXCEPT ![stack] = "ended"] /\ child' = child
    BY <1>5 DEF Finish, Goto
  <2>2. slot[Main] = Main /\ InsideResume /\ child[Main] = stack
    BY <2>1 DEF StackInv, CurrentInv
  <2>3. stack' = Main /\ state_' = [state_ EXCEPT ![stack] = "DONE"]
    BY <1>5, <2>2 DEF Finish
  <2>4. InsideResume'
    BY <1>0, <2>1, <2>2 DEF InsideResume
  <2>5. \A f \in Fibers : pc[f] = "ended" => state_[f] = "FREED"
    BY <2>1 DEF FreedInv
  <2> QED
    BY <1>0, <2>1, <2>2, <2>3, <2>4, <2>5 DEF FreedInv
<1>6. CASE EndScript
  BY <1>0, <1>6 DEF EndScript, Goto, FreedInv, InsideResume
<1>7. ASSUME NEW context \in pending, QueueFiberToResume(context)
      PROVE  FreedInv'
  BY <1>0, <1>7 DEF QueueFiberToResume, FreedInv, InsideResume
<1>8. CASE OnFibersToResume
  BY <1>0, <1>8 DEF OnFibersToResume, Goto, FreedInv, InsideResume
<1>9. CASE ResumeNext
  <2> DEFINE f == Head(local_queue).fiber
  <2>1. stack = Main /\ local_queue # <<>> /\ resume(f) /\ pc[Main] = "draining"
    BY <1>9 DEF ResumeNext
  <2>2. f \in Fibers /\ Waiting(f)
    BY <2>1, HeadWaits
  <2>3. state_' = [state_ EXCEPT ![f] = "RUNNING"] /\ pc[f] \in Inside
    BY <2>1, <2>2 DEF resume, Waiting
  <2>4. \A g \in Fibers : pc'[g] = pc[g]
    BY <1>0, <1>9, <2>1 DEF ResumeNext, Goto
  <2>5. \A g \in Fibers : pc[g] = "ended" => state_[g] = "FREED"
    BY <2>1 DEF FreedInv, InsideResume
  <2> QED
    BY <1>0, <2>2, <2>3, <2>4, <2>5 DEF FreedInv, Inside
<1>10. CASE EndDrain
  BY <1>0, <1>10 DEF EndDrain, Goto, FreedInv, InsideResume
<1>11. CASE UNCHANGED vars
  BY <1>11 DEF vars, FreedInv, InsideResume
<1> QED
  BY <1>1, <1>2, <1>3, <1>4, <1>5, <1>6, <1>7, <1>8, <1>9, <1>10, <1>11
     DEF Next, JavaScript, Runtime, Inside

(* A step that moves no context and suspends or wakes no fiber.            *)
LEMMA SameContexts ==
  ASSUME ContextsMatchWaitingFibers, InFlight' = InFlight,
         \A f \in Fibers : Waiting(f)' <=> Waiting(f),
         \A f \in Fibers : Waiting(f) => call'[f] = call[f]
  PROVE  ContextsMatchWaitingFibers'
<1>1. \A f \in Fibers : Waiting(f) => ContextOf(f)' = ContextOf(f)
  BY DEF ContextOf
<1>2. {ContextOf(f) : f \in {g \in Fibers : Waiting(g)}}'
        = {ContextOf(f) : f \in {g \in Fibers : Waiting(g)}}
  BY <1>1
<1> QED
  BY <1>2 DEF ContextsMatchWaitingFibers

LEMMA QueueStep ==
  ASSUME Disciplined, SchedulerInv, [Next]_vars
  PROVE  QueueInv'
<1> USE Names DEF SchedulerInv
<1>0. /\ pc \in [AllFibers -> Location]
      /\ call \in [AllFibers -> Nat]
      /\ stack \in AllFibers /\ stack # NoFiber
      /\ pending \in SUBSET AsyncContext
      /\ resumable_fibers \in Seq(AsyncContext)
      /\ local_queue \in Seq(AsyncContext)
  BY DEF TypeOK, StackInv
<1>1. ASSUME NEW primitive \in Inside, Call(primitive) PROVE QueueInv'
  <2>1. stack \in Fibers /\ current_fiber_ = stack
    BY <1>0, <1>1 DEF Call, Disciplined, AllFibers, CurrentInv
  <2>2. stack' = Main
    BY <1>1, <2>1, YieldStep DEF Call
  <2>3. /\ pc' = [pc EXCEPT ![stack] = primitive] /\ pc[stack] = "js"
        /\ call' = [call EXCEPT ![stack] = @ + 1]
        /\ UNCHANGED <<resumable_fibers, resume_handle, local_queue>>
    BY <1>1 DEF Call, Goto
  <2> DEFINE f == stack
             c == [of |-> [caller |-> f, n |-> call[f] + 1], fiber |-> f]
  <2>4. pending' = pending \cup {c}
    BY <1>1, <2>1 DEF Call
  <2>5. \A g \in Fibers : Waiting(g)' <=> Waiting(g) \/ g = f
    BY <1>0, <2>1, <2>2, <2>3 DEF Waiting, Inside, StackInv
  <2>6. \A g \in Fibers : (ContextOf(g))' =
          IF g = f THEN c ELSE ContextOf(g)
    BY <1>0, <2>1, <2>3 DEF ContextOf
  <2>7. ~Waiting(f)
    BY DEF Waiting
  <2>8. c \notin InFlight
    <3> SUFFICES ASSUME c \in InFlight PROVE FALSE
      OBVIOUS
    <3>1. PICK g \in Fibers : Waiting(g) /\ c = ContextOf(g)
      BY DEF QueueInv, ContextsMatchWaitingFibers
    <3> QED
      BY <2>7, <3>1 DEF ContextOf
  <2>9. ContextsMatchWaitingFibers'
    <3>1. InFlight' = InFlight \cup {c}
      BY <2>3, <2>4 DEF InFlight
    <3>2. InFlight = {ContextOf(g) : g \in {h \in Fibers : Waiting(h)}}
      BY DEF QueueInv, ContextsMatchWaitingFibers
    <3> HIDE DEF c, f
    <3>3. {ContextOf(g) : g \in {h \in Fibers : Waiting(h)}}'
            = {ContextOf(g) : g \in {h \in Fibers : Waiting(h)}} \cup {c}
      BY <2>1, <2>5, <2>6, <2>7 DEF f
    <3> QED
      BY <3>1, <3>2, <3>3 DEF ContextsMatchWaitingFibers
  <2>10. QueuedOnce'
    <3> HIDE DEF c
    <3> QED
      BY <2>3, <2>4, <2>8 DEF QueueInv, QueuedOnce, InFlight
  <2>11. pc'[Main] = pc[Main]
    BY <1>0, <2>1, <2>3
  <2> QED
    BY <2>3, <2>9, <2>10, <2>11 DEF QueueInv, SignalledWhileQueued
<1>2. CASE ReturnFromYield
  <2>1. stack \in Fibers /\ pc[stack] \in Inside
    BY <1>0, <1>2 DEF ReturnFromYield, StackInv, Inside, AllFibers
  <2>2. resume_value[current_fiber_] = ContextOf(stack).of
    BY <2>1 DEF CurrentInv, AnswerInv
  <2>3. ContextOf(stack).of # Empty
    BY <1>0 DEF ContextOf, Empty
  <2>4. /\ stack' = stack
        /\ pc' = [pc EXCEPT ![stack] = "js"]
        /\ UNCHANGED <<call, libuvVars>>
    BY <1>2, <2>2, <2>3 DEF ReturnFromYield, Goto
  <2>5. \A g \in Fibers : Waiting(g)' <=> Waiting(g)
    BY <1>0, <2>4 DEF Waiting
  <2>6. ContextsMatchWaitingFibers'
    BY <2>4, <2>5, SameContexts DEF QueueInv, InFlight, libuvVars
  <2>7. pc'[Main] = pc[Main]
    BY <1>0, <2>1, <2>4
  <2> QED
    BY <2>4, <2>6, <2>7 DEF QueueInv, QueuedOnce, SignalledWhileQueued, libuvVars
<1>3. ASSUME NEW f \in Fibers, Fiber_Run(f) PROVE QueueInv'
  <2>1. f # stack /\ slot[f] = f /\ (stack = Main \/ Platform = "windows")
    BY <1>3 DEF Fiber_Run, StackInv, Disciplined
  <2>2. stack' = f
    BY <1>3, <2>1, ResumeStep DEF Fiber_Run
  <2>3. /\ pc' = [pc EXCEPT ![stack] = "Fiber_Run", ![f] = "js"]
        /\ UNCHANGED <<call, libuvVars>>
        /\ pc[f] = "unborn" /\ pc[stack] = "js"
    BY <1>3 DEF Fiber_Run
  <2>4. \A g \in Fibers : Waiting(g)' <=> Waiting(g)
    BY <1>0, <2>1, <2>2, <2>3 DEF Waiting, Inside
  <2>5. ContextsMatchWaitingFibers'
    BY <2>3, <2>4, SameContexts DEF QueueInv, InFlight, libuvVars
  <2>6. pc[Main] \notin {"draining", "resuming"} \/ pc'[Main] = pc[Main]
    BY <1>0, <2>3
  <2>7. pc'[Main] \notin {"draining", "resuming"} => local_queue' = <<>>
    BY <2>3, <2>6 DEF QueueInv, libuvVars
  <2> QED
    BY <2>3, <2>5, <2>7 DEF QueueInv, QueuedOnce, SignalledWhileQueued, libuvVars
<1>4. CASE ReturnFromResume
  <2>1. stack = Main /\ stack' = Main
    BY <1>0, <1>4 DEF ReturnFromResume, StackInv, Inside, AllFibers
  <2>2. UNCHANGED <<call, libuvVars>> /\ \A g \in Fibers : pc'[g] = pc[g]
    BY <1>0, <1>4, <2>1 DEF ReturnFromResume, Goto
  <2>3. ContextsMatchWaitingFibers'
    BY <2>1, <2>2, SameContexts DEF QueueInv, InFlight, libuvVars, Waiting
  <2>4. pc'[Main] \notin {"draining", "resuming"} => pc[Main] = "Fiber_Run"
    BY <1>0, <1>4, <2>1 DEF ReturnFromResume, Goto
  <2> QED
    BY <2>2, <2>3, <2>4 DEF QueueInv, QueuedOnce, SignalledWhileQueued, libuvVars
<1>5. CASE Finish
  <2>1. stack \in Fibers /\ pc' = [pc EXCEPT ![stack] = "ended"]
        /\ UNCHANGED <<call, libuvVars>>
    BY <1>5 DEF Finish, Goto
  <2>2. stack' = Main
    <3>1. CASE Platform = "windows"
      BY <1>5, <2>1, <3>1, YieldStep DEF Finish
    <3>2. CASE Platform # "windows"
      BY <1>5, <2>1, <3>2 DEF Finish, StackInv
    <3> QED
      BY <3>1, <3>2
  <2>3. \A g \in Fibers : Waiting(g)' <=> Waiting(g)
    BY <1>0, <2>1, <2>2 DEF Waiting, Inside
  <2>4. ContextsMatchWaitingFibers'
    BY <2>1, <2>3, SameContexts DEF QueueInv, InFlight, libuvVars
  <2>5. pc'[Main] = pc[Main]
    BY <1>0, <2>1
  <2> QED
    BY <2>1, <2>4, <2>5 DEF QueueInv, QueuedOnce, SignalledWhileQueued, libuvVars
<1>6. CASE EndScript
  <2>1. stack' = stack /\ UNCHANGED <<call, libuvVars>>
        /\ pc[Main] = "js" /\ \A g \in Fibers : pc'[g] = pc[g]
    BY <1>0, <1>6 DEF EndScript, Goto
  <2>2. ContextsMatchWaitingFibers'
    BY <2>1, SameContexts DEF QueueInv, InFlight, libuvVars, Waiting
  <2> QED
    BY <2>1, <2>2 DEF QueueInv, QueuedOnce, SignalledWhileQueued, libuvVars
<1>7. ASSUME NEW context \in pending, QueueFiberToResume(context)
      PROVE  QueueInv'
  <2>1. /\ pending' = pending \ {context}
        /\ resumable_fibers' = Append(resumable_fibers, context)
        /\ resume_handle' = TRUE
        /\ UNCHANGED <<stack, pc, call, local_queue>>
    BY <1>7 DEF QueueFiberToResume
  <2>2. context \in AsyncContext /\ context \notin Range(resumable_fibers)
        /\ context \notin Range(local_queue)
    BY <1>0 DEF QueueInv, QueuedOnce
  <2>3. /\ Range(resumable_fibers') = Range(resumable_fibers) \cup {context}
        /\ IsInjective(resumable_fibers')
    BY <1>0, <2>1, <2>2, RangeAppend DEF QueueInv, QueuedOnce
  <2>4. InFlight' = InFlight
    BY <2>1, <2>3 DEF InFlight
  <2>5. ContextsMatchWaitingFibers'
    BY <2>1, <2>4, SameContexts DEF QueueInv, Waiting
  <2>6. QueuedOnce'
    BY <2>1, <2>2, <2>3 DEF QueueInv, QueuedOnce
  <2> QED
    BY <2>1, <2>5, <2>6 DEF QueueInv, SignalledWhileQueued
<1>8. CASE OnFibersToResume
  <2>1. /\ stack = Main /\ pc[Main] = "uv_run"
        /\ local_queue' = resumable_fibers /\ resumable_fibers' = <<>>
        /\ pc' = [pc EXCEPT ![stack] = "draining"]
        /\ UNCHANGED <<stack, call, pending>>
    BY <1>8 DEF OnFibersToResume, Goto
  <2>2. local_queue = <<>> /\ Range(local_queue) = {} /\ Range(resumable_fibers') = {}
        /\ IsInjective(resumable_fibers')
    BY <2>1, RangeEmpty DEF QueueInv
  <2>3. InFlight' = InFlight
    BY <2>1, <2>2 DEF InFlight
  <2>4. \A g \in Fibers : pc'[g] = pc[g]
    BY <1>0, <2>1
  <2>5. ContextsMatchWaitingFibers'
    BY <2>1, <2>3, <2>4, SameContexts DEF QueueInv, Waiting
  <2>6. QueuedOnce'
    BY <2>1, <2>2 DEF QueueInv, QueuedOnce
  <2>7. pc'[Main] = "draining"
    BY <1>0, <2>1
  <2> QED
    BY <2>1, <2>5, <2>6, <2>7 DEF QueueInv, SignalledWhileQueued
<1>9. CASE ResumeNext
  <2>1. stack = Main /\ local_queue # <<>>
    BY <1>9 DEF ResumeNext
  <2> DEFINE q == Tail(local_queue)
  <2>2. PICK c : c = Head(local_queue)
    OBVIOUS
  <2>3. PICK f : f = c.fiber
    OBVIOUS
  <2>4. f \in Fibers /\ Waiting(f) /\ slot[f] = f /\ c = ContextOf(f)
    BY <2>1, <2>2, <2>3, HeadWaits
  <2>5. stack' = f
    BY <1>9, <2>1, <2>2, <2>3, <2>4, ResumeStep DEF ResumeNext, Waiting
  <2>6. /\ local_queue' = q
        /\ UNCHANGED <<call, pending, resumable_fibers, resume_handle>>
        /\ pc' = [pc EXCEPT ![Main] = "resuming"]
    BY <1>9, <2>1 DEF ResumeNext, Goto
  <2>7. /\ Range(local_queue) = {c} \cup Range(local_queue')
        /\ c \notin Range(local_queue') /\ IsInjective(local_queue')
    BY <1>0, <2>1, <2>2, <2>6, RangeTail DEF QueueInv, QueuedOnce
  <2>8. c \notin pending /\ c \notin Range(resumable_fibers)
    BY <2>7 DEF QueueInv, QueuedOnce
  <2>9. InFlight' = InFlight \ {c}
    BY <2>6, <2>7, <2>8 DEF InFlight
  <2>10. \A g \in Fibers : Waiting(g)' <=> Waiting(g) /\ g # f
    BY <1>0, <2>1, <2>4, <2>5, <2>6 DEF Waiting
  <2>11. ContextsMatchWaitingFibers'
    <3>1. InFlight = {ContextOf(g) : g \in {h \in Fibers : Waiting(h)}}
      BY DEF QueueInv, ContextsMatchWaitingFibers
    <3>2. \A g \in Fibers : (ContextOf(g))' = ContextOf(g)
      BY <2>6 DEF ContextOf
    <3>3. \A g \in Fibers : g # f => ContextOf(g) # c
      BY <2>4 DEF ContextOf
    <3>4. {ContextOf(g) : g \in {h \in Fibers : Waiting(h)}}'
            = {ContextOf(g) : g \in {h \in Fibers : Waiting(h)}} \ {c}
      BY <2>4, <2>10, <3>2, <3>3
    <3> QED
      BY <2>9, <3>1, <3>4 DEF ContextsMatchWaitingFibers
  <2>12. QueuedOnce'
    BY <2>6, <2>7 DEF QueueInv, QueuedOnce
  <2>13. pc'[Main] = "resuming"
    BY <1>0, <2>6
  <2> QED
    BY <2>6, <2>11, <2>12, <2>13 DEF QueueInv, SignalledWhileQueued
<1>10. CASE EndDrain
  <2>1. stack' = stack /\ UNCHANGED <<call, libuvVars>>
        /\ local_queue = <<>> /\ \A g \in Fibers : pc'[g] = pc[g]
    BY <1>0, <1>10 DEF EndDrain, Goto
  <2>2. ContextsMatchWaitingFibers'
    BY <2>1, SameContexts DEF QueueInv, InFlight, libuvVars, Waiting
  <2> QED
    BY <2>1, <2>2 DEF QueueInv, QueuedOnce, SignalledWhileQueued, libuvVars
<1>11. CASE UNCHANGED vars
  <2>1. ContextsMatchWaitingFibers'
    BY <1>11, SameContexts DEF vars, QueueInv, InFlight, libuvVars, Waiting
  <2> QED
    BY <1>11, <2>1 DEF vars, QueueInv, QueuedOnce, SignalledWhileQueued, libuvVars
<1> QED
  BY <1>1, <1>2, <1>3, <1>4, <1>5, <1>6, <1>7, <1>8, <1>9, <1>10, <1>11
     DEF Next, JavaScript, Runtime, Inside

LEMMA InitInv == Init => SchedulerInv
<1> SUFFICES ASSUME Init PROVE SchedulerInv
  OBVIOUS
<1> USE Names DEF Init
<1>1. TypeOK
  BY InitType
<1>2. StackInv /\ CurrentInv /\ FreedInv
  BY DEF StackInv, CurrentInv, FreedInv, Inside
<1>3. AnswerInv
  BY DEF AnswerInv, Inside
<1>4. \A f \in Fibers : ~Waiting(f)
  BY DEF Waiting, Inside
<1>5. QueueInv
  BY <1>4, RangeEmpty
     DEF QueueInv, ContextsMatchWaitingFibers, QueuedOnce, SignalledWhileQueued, InFlight
<1> QED
  BY <1>1, <1>2, <1>3, <1>5 DEF SchedulerInv

LEMMA SchedulerInvariant ==
  ASSUME Disciplined
  PROVE  Spec => []SchedulerInv
<1>1. Init => SchedulerInv
  BY InitInv
<1>2. SchedulerInv /\ [Next]_vars => SchedulerInv'
  BY StackStep, CurrentStep, AnswerStep, QueueStep, FreedStep, StepType DEF SchedulerInv
<1> QED
  BY <1>1, <1>2, PTL DEF Spec

-------------------------------------------------------------------------------
(* Every context that is continued is valid, and every result that a       *)
(* primitive reads is there.                                               *)
THEOREM NeverUndefined ==
  ASSUME Disciplined
  PROVE  Spec => []NoUndefinedBehaviour
<1>1. SchedulerInv => NoUndefinedBehaviour
  BY Names DEF SchedulerInv, StackInv, NoUndefinedBehaviour
<1> QED
  BY <1>1, SchedulerInvariant, PTL

(* JavaScript always runs as the fiber that current_fiber_ names.          *)
THEOREM RunsAsCurrent ==
  ASSUME Disciplined
  PROVE  Spec => []CurrentIsExecuting
<1>1. SchedulerInv => CurrentIsExecuting
  BY Names DEF SchedulerInv, StackInv, CurrentInv, CurrentIsExecuting,
               InsideResume, AllFibers
<1> QED
  BY <1>1, SchedulerInvariant, PTL

(* A primitive returns in its fiber only what answers that call.           *)
THEOREM ReturnsOwnResult ==
  ASSUME Disciplined
  PROVE  Spec => []OwnResult
<1>1. SchedulerInv => OwnResult
  BY DEF SchedulerInv, TypeOK, AnswerInv, OwnResult, ContextOf, AllFibers
<1> QED
  BY <1>1, SchedulerInvariant, PTL

(* No wake-up is lost and none is left over, whatever the number of fibers *)
(* and of their calls.                                                     *)
THEOREM NoLostWakeup ==
  ASSUME Disciplined
  PROVE  Spec => [](ContextsMatchWaitingFibers /\ QueuedOnce)
<1>1. SchedulerInv => ContextsMatchWaitingFibers /\ QueuedOnce
  BY DEF SchedulerInv, QueueInv
<1> QED
  BY <1>1, SchedulerInvariant, PTL

(* The loop is always signalled while something is queued.                 *)
THEOREM QueueIsSignalled ==
  ASSUME Disciplined
  PROVE  Spec => []SignalledWhileQueued
<1>1. SchedulerInv => SignalledWhileQueued
  BY DEF SchedulerInv, QueueInv
<1> QED
  BY <1>1, SchedulerInvariant, PTL

(* On POSIX the event loop never runs while a fiber that has ended is      *)
(* still allocated.                                                        *)
THEOREM EndedFibersAreFreed ==
  ASSUME Disciplined, Platform = "posix"
  PROVE  Spec => []DoneFibersAreFreed
<1>1. SchedulerInv => DoneFibersAreFreed
  BY DEF SchedulerInv, FreedInv, DoneFibersAreFreed, InsideResume
<1> QED
  BY <1>1, SchedulerInvariant, PTL

-------------------------------------------------------------------------------
(***************************************************************************)
(* The scheduler implements Coroutines when fibers are run from the script *)
(* only: each step of its Next is a step of Coroutines or changes nothing  *)
(* there.                                                                  *)
(***************************************************************************)
CallOf(c) == <<c.fiber, c.of.n>>
ReadyCalls == CallSequence(local_queue \o resumable_fibers)

(* The sequence of the calls has the shape of the queue.                   *)
LEMMA CallSequenceShape ==
  ASSUME NEW q \in Seq(AsyncContext)
  PROVE  /\ CallSequence(q) \in Seq(AllFibers \X Nat)
         /\ Len(CallSequence(q)) = Len(q)
         /\ \A i \in 1 .. Len(q) : CallSequence(q)[i] = CallOf(q[i])
<1>1. /\ Len(q) \in Nat /\ DOMAIN q = 1 .. Len(q)
      /\ \A i \in 1 .. Len(q) : q[i] \in AsyncContext
  BY LenProperties, ElementOfSeq
<1>2. \A i \in 1 .. Len(q) : <<q[i].fiber, q[i].of.n>> \in AllFibers \X Nat
  BY <1>1 DEF AsyncContext, Result
<1>3. CallSequence(q) = [i \in 1 .. Len(q) |-> <<q[i].fiber, q[i].of.n>>]
  BY <1>1 DEF CallSequence
<1> QED
  BY <1>1, <1>2, <1>3 DEF CallOf

LEMMA CallSequenceAppend ==
  ASSUME NEW q \in Seq(AsyncContext), NEW r \in Seq(AsyncContext), NEW c \in AsyncContext
  PROVE  CallSequence(q \o Append(r, c)) = Append(CallSequence(q \o r), CallOf(c))
<1> DEFINE s == CallSequence(q \o Append(r, c))
           t == Append(CallSequence(q \o r), CallOf(c))
           T == AllFibers \X Nat
           n == Len(q \o r)
<1>1. /\ Append(r, c) \in Seq(AsyncContext) /\ Len(Append(r, c)) = Len(r) + 1
      /\ Len(q) \in Nat /\ Len(r) \in Nat
      /\ \A i \in 1 .. Len(r) : Append(r, c)[i] = r[i]
      /\ Append(r, c)[Len(r) + 1] = c
  OBVIOUS
<1>2. /\ q \o r \in Seq(AsyncContext) /\ n = Len(q) + Len(r) /\ n \in Nat
      /\ \A i \in 1 .. n : (q \o r)[i] = IF i <= Len(q) THEN q[i] ELSE r[i - Len(q)]
  BY <1>1, ConcatProperties
<1>3. /\ q \o Append(r, c) \in Seq(AsyncContext) /\ Len(q \o Append(r, c)) = n + 1
      /\ \A i \in 1 .. n + 1 : (q \o Append(r, c))[i]
                                = IF i <= Len(q) THEN q[i] ELSE Append(r, c)[i - Len(q)]
  <2> DEFINE a == Append(r, c)
  <2> HIDE DEF a
  <2>1. a \in Seq(AsyncContext) /\ Len(a) = Len(r) + 1
    BY <1>1 DEF a
  <2>2. /\ q \o a \in Seq(AsyncContext) /\ Len(q \o a) = Len(q) + Len(a)
        /\ \A i \in 1 .. Len(q) + Len(a) :
             (q \o a)[i] = IF i <= Len(q) THEN q[i] ELSE a[i - Len(q)]
    BY <2>1, ConcatProperties
  <2>3. Len(q) + Len(a) = n + 1
    BY <1>1, <1>2, <2>1
  <2> QED
    BY <2>2, <2>3 DEF a
<1>4. \A i \in 1 .. n : (q \o Append(r, c))[i] = (q \o r)[i]
  BY <1>1, <1>2, <1>3
<1>5. (q \o Append(r, c))[n + 1] = c
  BY <1>1, <1>2, <1>3
<1>6. /\ s \in Seq(T) /\ Len(s) = n + 1
      /\ \A i \in 1 .. n + 1 : s[i] = CallOf((q \o Append(r, c))[i])
  BY <1>3, CallSequenceShape
<1>7. /\ CallSequence(q \o r) \in Seq(T) /\ Len(CallSequence(q \o r)) = n
      /\ \A i \in 1 .. n : CallSequence(q \o r)[i] = CallOf((q \o r)[i])
  BY <1>2, CallSequenceShape
<1>8. CallOf(c) \in T
  BY DEF CallOf, AsyncContext, Result
<1>9. /\ t \in Seq(T) /\ Len(t) = n + 1
      /\ \A i \in 1 .. n : t[i] = CallOf((q \o r)[i])
      /\ t[n + 1] = CallOf(c)
  <2> DEFINE u == CallSequence(q \o r)
             d == CallOf(c)
  <2> HIDE DEF u, d, n, T
  <2>1. u \in Seq(T) /\ Len(u) = n /\ n \in Nat /\ d \in T
    BY <1>2, <1>7, <1>8 DEF u, d
  <2>2. /\ Append(u, d) \in Seq(T) /\ Len(Append(u, d)) = n + 1
        /\ \A i \in 1 .. n : Append(u, d)[i] = u[i]
        /\ Append(u, d)[n + 1] = d
    BY <2>1
  <2> QED
    BY <1>7, <2>2 DEF u, d
<1> HIDE DEF s, t, n, T
<1>10. \A i \in 1 .. n + 1 : s[i] = t[i]
  <2> SUFFICES ASSUME NEW i \in 1 .. n + 1 PROVE s[i] = t[i]
    OBVIOUS
  <2>1. i \in 1 .. n \/ i = n + 1
    BY <1>2
  <2> QED
    BY <1>4, <1>5, <1>6, <1>9, <2>1
<1>11. s = t
  BY <1>6, <1>9, <1>10, SeqEqual
<1> QED
  BY <1>11 DEF s, t

LEMMA CallSequenceTail ==
  ASSUME NEW q \in Seq(AsyncContext), NEW r \in Seq(AsyncContext), q # <<>>
  PROVE  /\ CallSequence(q \o r) # <<>>
         /\ Head(CallSequence(q \o r)) = CallOf(Head(q))
         /\ Tail(CallSequence(q \o r)) = CallSequence(Tail(q) \o r)
<1> DEFINE s == CallSequence(q \o r)
           t == CallSequence(Tail(q) \o r)
           T == AllFibers \X Nat
           n == Len(q \o r)
<1>1. /\ Len(q) \in Nat /\ Len(q) > 0 /\ Len(r) \in Nat /\ Head(q) = q[1]
      /\ Tail(q) \in Seq(AsyncContext) /\ Len(Tail(q)) = Len(q) - 1
      /\ \A i \in 1 .. Len(q) - 1 : Tail(q)[i] = q[i + 1]
  OBVIOUS
<1>2. /\ q \o r \in Seq(AsyncContext) /\ n = Len(q) + Len(r) /\ n \in Nat
      /\ \A i \in 1 .. n : (q \o r)[i] = IF i <= Len(q) THEN q[i] ELSE r[i - Len(q)]
  BY <1>1, ConcatProperties
<1>3. /\ Tail(q) \o r \in Seq(AsyncContext) /\ Len(Tail(q) \o r) = n - 1
      /\ \A i \in 1 .. n - 1 : (Tail(q) \o r)[i]
                               = IF i <= Len(q) - 1 THEN Tail(q)[i] ELSE r[i - (Len(q) - 1)]
  <2>1. /\ Tail(q) \o r \in Seq(AsyncContext)
        /\ Len(Tail(q) \o r) = Len(Tail(q)) + Len(r)
        /\ \A i \in 1 .. Len(Tail(q)) + Len(r) :
             (Tail(q) \o r)[i] = IF i <= Len(Tail(q)) THEN Tail(q)[i] ELSE r[i - Len(Tail(q))]
    BY <1>1, ConcatProperties
  <2>2. Len(Tail(q)) + Len(r) = n - 1
    BY <1>1, <1>2
  <2> QED
    BY <1>1, <2>1, <2>2
<1>4. \A i \in 1 .. n - 1 : (Tail(q) \o r)[i] = (q \o r)[i + 1]
  <2> SUFFICES ASSUME NEW i \in 1 .. n - 1 PROVE (Tail(q) \o r)[i] = (q \o r)[i + 1]
    OBVIOUS
  <2>1. i + 1 \in 1 .. n /\ (i <= Len(q) - 1 <=> i + 1 <= Len(q))
        /\ i - (Len(q) - 1) = i + 1 - Len(q)
    BY <1>1, <1>2
  <2> QED
    BY <1>1, <1>2, <1>3, <2>1
<1>5. n > 0 /\ (q \o r)[1] = Head(q)
  BY <1>1, <1>2
<1>6. /\ s \in Seq(T) /\ Len(s) = n
      /\ \A i \in 1 .. n : s[i] = CallOf((q \o r)[i])
  BY <1>2, CallSequenceShape
<1>7. /\ t \in Seq(T) /\ Len(t) = n - 1
      /\ \A i \in 1 .. n - 1 : t[i] = CallOf((Tail(q) \o r)[i])
  BY <1>3, CallSequenceShape
<1> HIDE DEF s, t, n, T
<1>8. s # <<>> /\ Head(s) = CallOf(Head(q))
  BY <1>2, <1>5, <1>6
<1>9. /\ Tail(s) \in Seq(T) /\ Len(Tail(s)) = n - 1
      /\ \A i \in 1 .. n - 1 : Tail(s)[i] = s[i + 1]
  BY <1>2, <1>5, <1>6, <1>8
<1>10. \A i \in 1 .. n - 1 : Tail(s)[i] = t[i]
  <2> SUFFICES ASSUME NEW i \in 1 .. n - 1 PROVE Tail(s)[i] = t[i]
    OBVIOUS
  <2>1. i + 1 \in 1 .. n
    BY <1>2
  <2> QED
    BY <1>4, <1>6, <1>7, <1>9, <2>1
<1>11. Tail(s) = t
  BY <1>7, <1>9, <1>10, SeqEqual
<1> QED
  BY <1>8, <1>11 DEF s, t

LEMMA Chains == \A f : /\ Head(<<f, Main>>) = f /\ Tail(<<f, Main>>) = <<Main>>
                      /\ <<f>> \o <<Main>> = <<f, Main>>
<1> SUFFICES ASSUME NEW f
             PROVE  /\ Head(<<f, Main>>) = f /\ Tail(<<f, Main>>) = <<Main>>
                    /\ <<f>> \o <<Main>> = <<f, Main>>
  OBVIOUS
<1>1. Head(<<f, Main>>) = f
  OBVIOUS
<1>2. Tail(<<f, Main>>) = <<Main>>
  OBVIOUS
<1>3. <<f>> \o <<Main>> = <<f, Main>>
  <2> DEFINE s == <<f>> \o <<Main>>
             S == {f, Main}
  <2>1. <<f>> \in Seq(S) /\ <<Main>> \in Seq(S) /\ <<f, Main>> \in Seq(S)
        /\ Len(<<f>>) = 1 /\ Len(<<Main>>) = 1 /\ Len(<<f, Main>>) = 2
    OBVIOUS
  <2>2. s \in Seq(S) /\ Len(s) = 2 /\ s[1] = f /\ s[2] = Main
    BY <2>1, ConcatProperties
  <2>3. \A i \in 1 .. 2 : i = 1 \/ i = 2
    OBVIOUS
  <2> HIDE DEF s
  <2>4. \A i \in 1 .. Len(s) : s[i] = <<f, Main>>[i]
    BY <2>2, <2>3
  <2> HIDE DEF S
  <2>5. s = <<f, Main>>
    BY <2>1, <2>2, <2>4, SeqEqual
  <2> QED
    BY <2>5 DEF s
<1> QED
  BY <1>1, <1>2, <1>3

LEMMA AbstractInit == Init => Abstract!Init
<1> SUFFICES ASSUME Init PROVE Abstract!Init
  OBVIOUS
<1>1. ReadyCalls = <<>>
  <2>1. <<>> \o <<>> = <<>>
    OBVIOUS
  <2> QED
    BY <2>1 DEF Init, ReadyCalls, CallSequence
<1>2. \A f \in Fibers : /\ pc[f] = "unborn" /\ call[f] = 0
                        /\ resume_value[f].n = 0
  BY Names DEF Init, Empty
<1> QED
  BY <1>1, <1>2 DEF Init, Abstract!Init, ReadyCalls, Calls

(* A step inside the runtime that Coroutines does not see.                 *)
LEMMA InnerStep ==
  ASSUME UNCHANGED <<stack, call, resume_value, pending>>,
         \A f \in Fibers : /\ pc'[f] = "unborn" <=> pc[f] = "unborn"
                           /\ pc'[f] = "ended" <=> pc[f] = "ended",
         ReadyCalls' = ReadyCalls
  PROVE  UNCHANGED Abstract!vars
  BY DEF Abstract!vars, ReadyCalls

(* A primitive blocks the fiber that calls it.                             *)
LEMMA CallBlocks ==
  ASSUME Disciplined, SchedulerInv, NEW primitive \in Inside, Call(primitive)
  PROVE  Abstract!Block
<1> USE Names DEF SchedulerInv
<1>1. /\ stack \in Fibers /\ stack # Main /\ pc[stack] = "js"
      /\ current_fiber_ = stack
  BY DEF Call, Disciplined, StackInv, CurrentInv, AllFibers
<1>2. stack' = Main
  BY <1>1, YieldStep DEF Call
<1> DEFINE c == [of |-> [caller |-> stack, n |-> call[stack] + 1], fiber |-> stack]
<1>3. /\ pending' = pending \cup {c}
      /\ call' = [call EXCEPT ![stack] = @ + 1]
      /\ pc' = [pc EXCEPT ![stack] = primitive]
      /\ UNCHANGED <<resume_value, resumable_fibers, local_queue>>
  BY <1>1 DEF Call, Goto
<1>4. Calls(pending') = Calls(pending) \cup {<<stack, call[stack] + 1>>}
  <2>1. c.fiber = stack /\ c.of.n = call[stack] + 1
    OBVIOUS
  <2> HIDE DEF c
  <2> QED
    BY <1>3, <2>1 DEF Calls
<1>5. [f \in Fibers |-> call'[f]] = [[f \in Fibers |-> call[f]] EXCEPT ![stack] = @ + 1]
  BY <1>1, <1>3 DEF TypeOK
<1>6. /\ {f \in Fibers : pc'[f] # "unborn"} = {f \in Fibers : pc[f] # "unborn"}
      /\ {f \in Fibers : pc'[f] = "ended"} = {f \in Fibers : pc[f] = "ended"}
  BY <1>1, <1>3 DEF TypeOK, Inside
<1> QED
  BY <1>1, <1>2, <1>3, <1>4, <1>5, <1>6, Chains DEF Abstract!Block

(* A fiber that ends gives way to its caller.                              *)
LEMMA FinishFinishes ==
  ASSUME Disciplined, SchedulerInv, Finish
  PROVE  Abstract!Finish
<1> USE Names DEF SchedulerInv
<1>1. stack \in Fibers /\ stack # Main /\ pc[stack] = "js" /\ slot[Main] = Main
  BY DEF Finish, StackInv
<1>2. stack' = Main
  <2>1. CASE Platform = "windows"
    BY <1>1, <2>1, YieldStep DEF Finish
  <2>2. CASE Platform # "windows"
    BY <1>1, <2>2 DEF Finish
  <2> QED
    BY <2>1, <2>2
<1>3. /\ pc' = [pc EXCEPT ![stack] = "ended"]
      /\ UNCHANGED <<call, resume_value, pending, resumable_fibers, local_queue>>
  BY DEF Finish, Goto, libuvVars
<1>4. /\ {f \in Fibers : pc'[f] # "unborn"} = {f \in Fibers : pc[f] # "unborn"}
      /\ {f \in Fibers : pc'[f] = "ended"} = {f \in Fibers : pc[f] = "ended"} \cup {stack}
  BY <1>1, <1>3 DEF TypeOK
<1> QED
  BY <1>1, <1>2, <1>3, <1>4, Chains DEF Abstract!Finish

(* Fiber.run starts a fiber on top of the script.                          *)
LEMMA RunStarts ==
  ASSUME ~NestedRun, SchedulerInv, NEW f \in Fibers, Fiber_Run(f)
  PROVE  Abstract!Start(f)
<1> USE Names DEF SchedulerInv
<1>1. stack = Main /\ pc[Main] = "js" /\ pc[f] = "unborn" /\ slot[f] = f
  BY DEF Fiber_Run, StackInv
<1>2. stack' = f
  BY <1>1, ResumeStep DEF Fiber_Run
<1>3. /\ pc' = [pc EXCEPT ![Main] = "Fiber_Run", ![f] = "js"]
      /\ UNCHANGED <<call, resume_value, pending, resumable_fibers, local_queue>>
  BY <1>1 DEF Fiber_Run, libuvVars
<1>4. /\ {g \in Fibers : pc'[g] # "unborn"} = {g \in Fibers : pc[g] # "unborn"} \cup {f}
      /\ {g \in Fibers : pc'[g] = "ended"} = {g \in Fibers : pc[g] = "ended"}
  BY <1>1, <1>3 DEF TypeOK
<1>5. <<f>> \o <<Main>> = <<f, Main>>
  BY Chains
<1> QED
  BY <1>1, <1>2, <1>3, <1>4, <1>5 DEF Abstract!Start

(* A callback of libuv completes the operation of one call.                *)
LEMMA CallbackCompletes ==
  ASSUME SchedulerInv, NEW c \in pending, QueueFiberToResume(c)
  PROVE  CallOf(c) \in Calls(pending) /\ Abstract!Complete(CallOf(c))
<1> USE DEF SchedulerInv
<1>1. /\ stack = Main /\ stack' = Main /\ pending' = pending \ {c}
      /\ resumable_fibers' = Append(resumable_fibers, c)
      /\ UNCHANGED <<pc, call, resume_value, local_queue>>
  BY DEF QueueFiberToResume
<1>2. /\ c \in AsyncContext /\ local_queue \in Seq(AsyncContext)
      /\ resumable_fibers \in Seq(AsyncContext)
  BY DEF TypeOK
<1>3. ReadyCalls' = Append(ReadyCalls, CallOf(c))
  BY <1>1, <1>2, CallSequenceAppend DEF ReadyCalls
<1>4. Calls(pending') = Calls(pending) \ {CallOf(c)}
  <2>1. ASSUME NEW d \in pending, CallOf(d) = CallOf(c) PROVE d = c
    <3>1. c \in InFlight /\ d \in InFlight
      BY DEF InFlight
    <3>2. PICK f \in Fibers : c = ContextOf(f)
      BY <3>1 DEF QueueInv, ContextsMatchWaitingFibers
    <3>3. PICK g \in Fibers : d = ContextOf(g)
      BY <3>1 DEF QueueInv, ContextsMatchWaitingFibers
    <3>4. f = g
      BY <2>1, <3>2, <3>3 DEF CallOf, ContextOf
    <3> QED
      BY <3>2, <3>3, <3>4
  <2> QED
    BY <1>1, <2>1 DEF Calls, CallOf
<1>5. CallOf(c) \in Calls(pending)
  BY DEF Calls, CallOf
<1> QED
  BY <1>1, <1>3, <1>4, <1>5 DEF Abstract!Complete, ReadyCalls

(* The oldest context is answered, and its fiber goes on.                  *)
LEMMA ResumeWakes ==
  ASSUME SchedulerInv, ResumeNext
  PROVE  Abstract!Wake
<1> USE Names DEF SchedulerInv
<1>1. /\ stack = Main /\ pc[Main] = "draining" /\ local_queue # <<>>
      /\ local_queue' = Tail(local_queue)
      /\ UNCHANGED <<call, pending, resumable_fibers>>
  BY DEF ResumeNext
<1>2. PICK f \in Fibers : /\ Head(local_queue) = ContextOf(f) /\ Waiting(f)
                         /\ Head(local_queue).fiber = f /\ slot[f] = f
  BY <1>1, HeadWaits
<1>3. /\ resume(f) /\ pc' = [pc EXCEPT ![Main] = "resuming"]
      /\ resume_value' = [resume_value EXCEPT ![f] = [caller |-> f, n |-> call[f]]]
  <2>1. ContextOf(f).of = [caller |-> f, n |-> call[f]]
    BY DEF ContextOf
  <2>2. /\ resume(Head(local_queue).fiber) /\ pc' = [pc EXCEPT ![stack] = "resuming"]
        /\ resume_value' = [resume_value EXCEPT ![Head(local_queue).fiber]
                                                = Head(local_queue).of]
    BY DEF ResumeNext, Goto
  <2> QED
    BY <1>1, <1>2, <2>1, <2>2
<1>4. stack' = f
  BY <1>1, <1>2, <1>3, ResumeStep
<1>5. /\ ReadyCalls # <<>> /\ Head(ReadyCalls) = <<f, call[f]>>
      /\ Tail(ReadyCalls) = ReadyCalls'
  <2>1. local_queue \in Seq(AsyncContext) /\ resumable_fibers \in Seq(AsyncContext)
    BY DEF TypeOK
  <2>2. CallOf(Head(local_queue)) = <<f, call[f]>>
    BY <1>2 DEF CallOf, ContextOf
  <2> QED
    BY <1>1, <2>1, <2>2, CallSequenceTail DEF ReadyCalls
<1>6. [g \in Fibers |-> resume_value'[g].n]
        = [[g \in Fibers |-> resume_value[g].n] EXCEPT ![f] = call[f]]
  BY <1>3 DEF TypeOK
<1>7. /\ {g \in Fibers : pc'[g] # "unborn"} = {g \in Fibers : pc[g] # "unborn"}
      /\ {g \in Fibers : pc'[g] = "ended"} = {g \in Fibers : pc[g] = "ended"}
  BY <1>3 DEF TypeOK
<1>8. <<f, call[f]>>[1] = f /\ <<f, call[f]>>[2] = call[f]
  OBVIOUS
<1> QED
  BY <1>1, <1>4, <1>5, <1>6, <1>7, <1>8 DEF Abstract!Wake, ReadyCalls

LEMMA AbstractStep ==
  ASSUME Disciplined, ~NestedRun, SchedulerInv, [Next]_vars
  PROVE  Abstract!Next \/ UNCHANGED Abstract!vars
<1> USE Names DEF SchedulerInv
<1>1. CASE Call("Primitive") \/ Call("Fiber_Sleep")
  BY <1>1, CallBlocks DEF Abstract!Next, Inside
<1>2. ASSUME NEW f \in Fibers, Fiber_Run(f) PROVE Abstract!Next
  BY <1>2, RunStarts DEF Abstract!Next
<1>3. CASE Finish
  BY <1>3, FinishFinishes DEF Abstract!Next
<1>4. CASE EndScript \/ EndDrain
  <2>1. /\ UNCHANGED <<stack, call, resume_value, pending, local_queue, resumable_fibers>>
        /\ stack = Main /\ pc' = [pc EXCEPT ![Main] = "uv_run"]
    BY <1>4 DEF EndScript, EndDrain, Goto, libuvVars
  <2>2. \A f \in Fibers : pc'[f] = pc[f]
    BY <2>1 DEF TypeOK
  <2> QED
    BY <2>1, <2>2, InnerStep DEF ReadyCalls
<1>5. CASE ReturnFromYield
  <2>1. stack \in Fibers /\ pc[stack] \in Inside /\ current_fiber_ = stack
    BY <1>5 DEF ReturnFromYield, StackInv, CurrentInv, AllFibers, Inside
  <2>2. resume_value[stack] # Empty
    <3>1. resume_value[stack].caller = stack
      <4>1. resume_value[stack] = ContextOf(stack).of
        BY <2>1 DEF AnswerInv
      <4> QED
        BY <4>1 DEF ContextOf
    <3> QED
      BY <2>1, <3>1 DEF Empty
  <2>3. /\ UNCHANGED <<stack, call, resume_value, pending, local_queue, resumable_fibers>>
        /\ pc' = [pc EXCEPT ![stack] = "js"]
    BY <1>5, <2>1, <2>2 DEF ReturnFromYield, Goto, libuvVars
  <2>4. \A f \in Fibers : /\ pc'[f] = "unborn" <=> pc[f] = "unborn"
                          /\ pc'[f] = "ended" <=> pc[f] = "ended"
    BY <2>1, <2>3 DEF TypeOK, Inside
  <2> QED
    BY <2>3, <2>4, InnerStep DEF ReadyCalls
<1>6. CASE ReturnFromResume
  <2>1. /\ UNCHANGED <<stack, call, resume_value, pending, local_queue, resumable_fibers>>
        /\ \E location \in {"js", "draining"} : pc' = [pc EXCEPT ![stack] = location]
        /\ pc[stack] \in {"Fiber_Run", "resuming"}
    BY <1>6 DEF ReturnFromResume, Goto, libuvVars
  <2>2. \A f \in Fibers : /\ pc'[f] = "unborn" <=> pc[f] = "unborn"
                          /\ pc'[f] = "ended" <=> pc[f] = "ended"
    BY <2>1 DEF TypeOK
  <2> QED
    BY <2>1, <2>2, InnerStep DEF ReadyCalls
<1>7. CASE OnFibersToResume
  <2>1. /\ UNCHANGED <<stack, call, resume_value, pending>>
        /\ stack = Main /\ pc[Main] = "uv_run" /\ pc' = [pc EXCEPT ![Main] = "draining"]
        /\ local_queue' = resumable_fibers /\ resumable_fibers' = <<>>
    BY <1>7 DEF OnFibersToResume, Goto
  <2>2. local_queue = <<>> /\ resumable_fibers \in Seq(AsyncContext)
    BY <2>1 DEF QueueInv, TypeOK
  <2>3. ReadyCalls' = ReadyCalls
    BY <2>1, <2>2, ConcatEmptySeq DEF ReadyCalls
  <2>4. \A f \in Fibers : pc'[f] = pc[f]
    BY <2>1 DEF TypeOK
  <2> QED
    BY <2>1, <2>3, <2>4, InnerStep
<1>8. CASE ResumeNext
  BY <1>8, ResumeWakes DEF Abstract!Next
<1>9. ASSUME NEW c \in pending, QueueFiberToResume(c) PROVE Abstract!Next
  BY <1>9, CallbackCompletes DEF Abstract!Next
<1>10. CASE UNCHANGED vars
  BY <1>10, InnerStep DEF vars, libuvVars, ReadyCalls
<1> QED
  BY <1>1, <1>2, <1>3, <1>4, <1>5, <1>6, <1>7, <1>8, <1>9, <1>10
     DEF Next, JavaScript, Runtime

(* What JavaScript sees of the scheduler is what Coroutines promises, for  *)
(* any number of fibers and calls, as long as fibers are run from the      *)
(* script: contexts, both queues and the two switches hide behind it.      *)
THEOREM SchedulerImplementsCoroutines ==
  ASSUME ~BlockInScript, ~NestedRun
  PROVE  Spec => ImplementsCoroutines
<1> Disciplined
  BY DEF Disciplined
<1>1. Init => Abstract!Init
  BY AbstractInit
<1>2. SchedulerInv /\ [Next]_vars => [Abstract!Next]_(Abstract!vars)
  BY AbstractStep
<1> QED
  BY <1>1, <1>2, SchedulerInvariant, PTL DEF Spec, ImplementsCoroutines, Abstract!Spec
===============================================================================
