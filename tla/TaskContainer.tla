---------------------------- MODULE TaskContainer ----------------------------
(***************************************************************************)
(* The task wrapper of src/include/taskwrapper.h: operator() starts a      *)
(* FreeRTOS task that runs a stored function once with copied arguments,   *)
(* stop() kills it.  The launching task and the launched one write the     *)
(* same four fields with no lock, one statement per step here; with one    *)
(* parameter block per launch, the n-th block and the n-th task are both   *)
(* called n.                                                               *)
(*                                                                         *)
(* client says who launches, and when:                                     *)
(*   "greeter"   the USB task starts the Shell Greeter on every change of  *)
(*               the line state, unless isRunning (main.cpp:353-356)       *)
(*   "dimmer"    the backlight test toggles the Display Dimmer             *)
(*               (main.cpp:339-344)                                        *)
(*   "prompted"  parseCmd starts the Shell Evaluator unconditionally       *)
(*               (state.cpp:146), for a host that waits for the prompt     *)
(*   "patient"   the same, for a host that waits until the task is gone    *)
(***************************************************************************)
EXTENDS Naturals

CONSTANTS
    Clients,     \* the clients above that are looked at, one per behaviour
    MaxLaunches, \* bound on the launches TLC explores
    Null         \* nullptr

ASSUME ClientAssumption ==
    /\ Clients \subseteq {"greeter", "dimmer", "prompted", "patient"}
    /\ MaxLaunches \in Nat \ {0} /\ Null \notin 1..MaxLaunches

Launches == 1..MaxLaunches

VARIABLES
    client,    \* who launches this task
    params,    \* TaskContainer::params
    heap,      \* the parameter blocks that are allocated
    isRunning, \* TaskContainer::isRunning
    handle,    \* TaskContainer::handle
    task,      \* task[n]: where the n-th task is in ApplyWrapper::apply
    arg,       \* arg[n]: the block its function was called with
    launcher,  \* where the client is in operator() or stop()
    count,     \* launches so far
    broken     \* ghost: a freed or null block was used, or freed again

vars == <<client, params, heap, isRunning, handle, task, arg, launcher, count, broken>>

Init ==
    /\ client \in Clients
    /\ params = Null /\ heap = {} /\ isRunning = FALSE /\ handle = Null
    /\ task = [n \in Launches |-> "none"] /\ arg = [n \in Launches |-> Null]
    /\ launcher = "idle" /\ count = 0 /\ broken = FALSE

Alive(n) == task[n] \notin {"none", "dead"}
InBody(n) == task[n] \in {"ready", "body"}

-----------------------------------------------------------------------------
(* operator(), in the client's task                                        *)

BadMayLaunch == TRUE

MayLaunch ==
    CASE client \in {"greeter", "dimmer"} -> ~isRunning
      [] client = "prompted"              -> \A n \in Launches : ~InBody(n)
      [] client = "patient"               -> \A n \in Launches : ~Alive(n)

Launch ==
    /\ launcher = "idle"
    /\ count < MaxLaunches
    /\ MayLaunch
    /\ launcher' = "free"
    /\ count' = count + 1
    /\ UNCHANGED <<params, heap, isRunning, handle, task, arg, broken>>

(* delete params                                                           *)
Deletes ==
    /\ heap' = heap \ {params}
    /\ broken' = (broken \/ (params # Null /\ params \notin heap))

BadLaunchFree ==
    /\ launcher = "free"
    /\ launcher' = "alloc"
    /\ UNCHANGED <<params, heap, isRunning, handle, task, arg, count, broken>>

LaunchFree ==
    /\ launcher = "free"
    /\ Deletes
    /\ launcher' = "alloc"
    /\ UNCHANGED <<params, isRunning, handle, task, arg, count>>

BadLaunchAlloc ==
    /\ launcher = "alloc"
    /\ params' = IF params = Null THEN count ELSE params
    /\ heap' = heap \cup {count}
    /\ launcher' = "create"
    /\ UNCHANGED <<isRunning, handle, task, arg, count, broken>>

LaunchAlloc ==
    /\ launcher = "alloc"
    /\ params' = count
    /\ heap' = heap \cup {count}
    /\ launcher' = "create"
    /\ UNCHANGED <<isRunning, handle, task, arg, count, broken>>

(* xTaskCreatePinnedToCore sets the handle before the task can run.        *)
LaunchCreate ==
    /\ launcher = "create"
    /\ \/ /\ task' = [task EXCEPT ![count] = "ready"]
          /\ handle' = count
          /\ launcher' = "created"
       \/ /\ launcher' = "failed"
          /\ UNCHANGED <<task, handle>>
    /\ UNCHANGED <<params, heap, isRunning, arg, count, broken>>

BadLaunchReturn ==
    /\ launcher \in {"created", "failed"}
    /\ launcher' = "idle"
    /\ UNCHANGED <<params, heap, isRunning, handle, task, arg, count, broken>>

(* isRunning is assigned when the new task may long have been running.     *)
LaunchReturn ==
    /\ launcher \in {"created", "failed"}
    /\ isRunning' = (launcher = "created")
    /\ launcher' = "idle"
    /\ UNCHANGED <<params, heap, handle, task, arg, count, broken>>

-----------------------------------------------------------------------------
(* stop(), in the client's task                                            *)

Stop ==
    /\ client = "dimmer"
    /\ launcher = "idle"
    /\ isRunning
    /\ handle # Null
    /\ task' = [task EXCEPT ![handle] = "dead"]
    /\ launcher' = "stopHandle"
    /\ broken' = (broken \/ ~Alive(handle))
    /\ UNCHANGED <<params, heap, isRunning, handle, arg, count>>

StopHandle ==
    /\ launcher = "stopHandle"
    /\ handle' = Null
    /\ launcher' = "stopFlag"
    /\ UNCHANGED <<params, heap, isRunning, task, arg, count, broken>>

StopFlag ==
    /\ launcher = "stopFlag"
    /\ isRunning' = FALSE
    /\ launcher' = "stopFree"
    /\ UNCHANGED <<params, heap, handle, task, arg, count, broken>>

StopFree ==
    /\ launcher = "stopFree"
    /\ Deletes
    /\ launcher' = "stopNull"
    /\ UNCHANGED <<params, isRunning, handle, task, arg, count>>

BadStopNull ==
    /\ launcher = "stopNull"
    /\ launcher' = "idle"
    /\ UNCHANGED <<params, heap, isRunning, handle, task, arg, count, broken>>

StopNull ==
    /\ launcher = "stopNull"
    /\ params' = Null
    /\ launcher' = "idle"
    /\ UNCHANGED <<heap, isRunning, handle, task, arg, count, broken>>

-----------------------------------------------------------------------------
(* ApplyWrapper::apply, in the launched task                               *)

Goes(n, from, to) == task[n] = from /\ task' = [task EXCEPT ![n] = to]

(* The function is called with a copy of what params points to now.        *)
Call(n) ==
    /\ Goes(n, "ready", "body")
    /\ arg' = [arg EXCEPT ![n] = params]
    /\ broken' = (broken \/ params \notin heap)
    /\ UNCHANGED <<params, heap, isRunning, handle, launcher, count>>

(* The function returns.  The dimmer never does.  The greeting is longer   *)
(* than the USB FIFO, which the USB task empties, so it cannot end before  *)
(* the USB task has left operator().                                       *)
MayReturn ==
    CASE client = "dimmer"  -> FALSE
      [] client = "greeter" -> launcher = "idle"
      [] OTHER              -> TRUE

Return(n) ==
    /\ MayReturn
    /\ Goes(n, "body", "returned")
    /\ UNCHANGED <<params, heap, isRunning, handle, arg, launcher, count, broken>>

Free(n) ==
    /\ Goes(n, "returned", "freed")
    /\ Deletes
    /\ UNCHANGED <<params, isRunning, handle, arg, launcher, count>>

ClearParams(n) ==
    /\ Goes(n, "freed", "cleared")
    /\ params' = Null
    /\ UNCHANGED <<heap, isRunning, handle, arg, launcher, count, broken>>

BadClearFlag(n) ==
    /\ Goes(n, "cleared", "flagged")
    /\ UNCHANGED <<params, heap, isRunning, handle, arg, launcher, count, broken>>

ClearFlag(n) ==
    /\ Goes(n, "cleared", "flagged")
    /\ isRunning' = FALSE
    /\ UNCHANGED <<params, heap, handle, arg, launcher, count, broken>>

ClearHandle(n) ==
    /\ Goes(n, "flagged", "unhandled")
    /\ handle' = Null
    /\ UNCHANGED <<params, heap, isRunning, arg, launcher, count, broken>>

Delete(n) ==
    /\ Goes(n, "unhandled", "dead")
    /\ UNCHANGED <<params, heap, isRunning, handle, arg, launcher, count, broken>>

TaskStep(n) ==
    /\ \/ Call(n) \/ Return(n) \/ Free(n) \/ ClearParams(n)
       \/ ClearFlag(n) \/ ClearHandle(n) \/ Delete(n)
    /\ UNCHANGED client

(* What the client does once it has begun to launch or stop a task.        *)
ClientStep ==
    /\ \/ LaunchFree \/ LaunchAlloc \/ LaunchCreate \/ LaunchReturn
       \/ StopHandle \/ StopFlag \/ StopFree \/ StopNull
    /\ UNCHANGED client

Begin == (Launch \/ Stop) /\ UNCHANGED client

Next == Begin \/ ClientStep \/ \E n \in Launches : TaskStep(n)

Spec == Init /\ [][Next]_vars

(* Both tasks keep running; nobody has to launch or stop anything.         *)
FairSpec == Spec /\ WF_vars(ClientStep) /\ \A n \in Launches : WF_vars(TaskStep(n))

-----------------------------------------------------------------------------
(* Every variable holds values of its type.                                *)
TypeOK ==
    /\ client \in Clients
    /\ params \in Launches \cup {Null} /\ heap \subseteq Launches
    /\ isRunning \in BOOLEAN /\ handle \in Launches \cup {Null}
    /\ task \in [Launches -> {"none", "ready", "body", "returned", "freed",
                              "cleared", "flagged", "unhandled", "dead"}]
    /\ arg \in [Launches -> Launches \cup {Null}]
    /\ launcher \in {"idle", "free", "alloc", "create", "created", "failed",
                     "stopHandle", "stopFlag", "stopFree", "stopNull"}
    /\ count \in 0..MaxLaunches /\ broken \in BOOLEAN

(* No parameter block is used after it was freed, or freed twice, and no   *)
(* dead task is deleted (taskwrapper.h:53-58, 70-71, 85-90).               *)
MemorySafe == ~broken

(* No launch leaks the arguments of an earlier one, one whose task could   *)
(* not be created included (taskwrapper.h:70-71).                          *)
NoLeak == heap \subseteq {params}

(* A launch runs its own arguments: the function of the n-th task is       *)
(* called with the n-th parameter block (taskwrapper.h:53, 71).            *)
OwnArguments == \A n \in Launches : arg[n] \in {n, Null}

(* The function never runs in two tasks at once.                           *)
OneBody == \A m, n \in Launches : InBody(m) /\ InBody(n) => m = n

(* While the dimmer runs and nobody is launching, the flag says so and the *)
(* handle names its task, so the next "backlight" test stops it            *)
(* (main.cpp:339-344).                                                     *)
FlagTruthful ==
    client = "dimmer" =>
      \A n \in Launches : InBody(n) /\ launcher = "idle" => isRunning /\ handle = n

(* The flag that guards the next greeting does not stay set                *)
(* (main.cpp:353-356).                                                     *)
FlagClears == client = "greeter" /\ isRunning ~> ~isRunning

(* state.cpp:143: "Lookup and execute the command": each evaluator gets    *)
(* the command it was started for, intact.                                 *)
RunsItsCommand ==
    ~broken /\ \A n \in Launches : task[n] = "body" => arg[n] = n
=============================================================================
