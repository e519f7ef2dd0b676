----------------------------- MODULE TaskProofs -----------------------------
(***************************************************************************)
(* Proofs about TaskContainer for any number of launches, as long as no    *)
(* client launches before the previous task has freed its arguments: the   *)
(* greeter, the dimmer, and a shell whose host is patient.                 *)
(*                                                                         *)
(* The argument: such a client only starts to launch when no task is       *)
(* between its call and the clearing of its flag (Active), so at most one  *)
(* task is, the newest, and only it or the client owns params and the      *)
(* block it points to.  Older tasks may still be there, but they have only *)
(* the handle left to clear.                                               *)
(***************************************************************************)
EXTENDS TaskContainer, TLAPS

(* Task n may still use params or clear the flag.                          *)
Active(n) == task[n] \in {"ready", "body", "returned", "freed", "cleared"}

(* The newest task is the only active one, and not while it is being       *)
(* launched or stopped.                                                    *)
Newest ==
    /\ \A n \in Launches : n > count => task[n] = "none"
    /\ launcher \in {"free", "alloc", "create", "failed"} =>
           \A n \in Launches : n = count => task[n] = "none"
    /\ \A n \in Launches : Active(n) => n = count /\ launcher \in {"idle", "created"}
    /\ launcher # "idle" => count \in Launches

(* What the client finds in isRunning and handle when it looks.            *)
Guarded ==
    /\ client \in {"greeter", "dimmer"} /\ launcher = "idle" =>
           \A n \in Launches : Active(n) => isRunning
    /\ client = "greeter" /\ launcher = "created" =>
           \A n \in Launches : Active(n) => InBody(n)
    /\ client = "dimmer" =>
           /\ \A n \in Launches : task[n] \in {"none", "ready", "body", "dead"}
           /\ launcher = "created" => InBody(count) /\ handle = count
           /\ launcher \in {"stopFree", "stopNull"} => ~isRunning
           /\ launcher = "idle" /\ isRunning => count \in Launches /\ InBody(count) /\ handle = count

(* Who owns the block of params.                                           *)
Owned ==
    /\ launcher = "free" => heap = {params} \ {Null}
    /\ launcher \in {"alloc", "stopNull"} => heap = {}
    /\ launcher \in {"create", "failed", "stopHandle", "stopFlag", "stopFree"} =>
           params = count /\ heap = {count}
    /\ launcher \in {"idle", "created"} =>
           /\ \A n \in Launches :
                  /\ task[n] \in {"ready", "body", "returned"} => params = n /\ heap = {n}
                  /\ task[n] = "freed" => heap = {}
                  /\ task[n] = "cleared" => params = Null /\ heap = {}
           /\ (\A n \in Launches : ~Active(n)) => heap = {params} \ {Null}

IInv ==
    /\ TypeOK /\ client # "prompted"
    /\ Newest /\ Guarded /\ Owned
    /\ MemorySafe /\ OwnArguments

-----------------------------------------------------------------------------
LEMMA InitInv ==
    ASSUME "prompted" \notin Clients
    PROVE  Init => IInv
<1> SUFFICES ASSUME Init PROVE IInv
  OBVIOUS
<1>1. client \in Clients /\ client # "prompted" /\ count \in 0..MaxLaunches
  BY ClientAssumption DEF Init
<1>2. TypeOK
  <2>1. isRunning \in BOOLEAN /\ broken \in BOOLEAN
    BY Zenon DEF Init
  <2>2. task \in [Launches -> {"none"}] /\ arg \in [Launches -> {Null}]
    BY Zenon DEF Init
  <2> QED
    BY <1>1, <2>1, <2>2 DEF Init, TypeOK
<1>3. Newest /\ Guarded /\ Owned
  BY DEF Init, Newest, Guarded, Owned, Active, InBody, Launches
<1>4. MemorySafe /\ OwnArguments
  BY DEF Init, MemorySafe, OwnArguments
<1> QED
  BY <1>1, <1>2, <1>3, <1>4 DEF IInv

(* operator(): nobody else is active while it runs, so the block it frees  *)
(* is its own or nobody's.                                                 *)
LEMMA LaunchStep ==
    ASSUME IInv, UNCHANGED client,
           Launch \/ LaunchFree \/ LaunchAlloc \/ LaunchCreate \/ LaunchReturn
    PROVE  IInv'
<1>0. TypeOK /\ client # "prompted" /\ Newest /\ Guarded /\ Owned /\ MemorySafe /\ OwnArguments
  BY DEF IInv
<1>1. CASE Launch
  <2>1. \A n \in Launches : ~Active(n)
    BY <1>0, <1>1, ClientAssumption DEF TypeOK, Launch, MayLaunch, Active, Alive, Guarded
  <2>2. TypeOK' /\ client' # "prompted" /\ MemorySafe' /\ OwnArguments'
    BY <1>0, <1>1, ClientAssumption DEF Launch, TypeOK, Launches, MemorySafe, OwnArguments
  <2>3. count' \in Launches
    BY <1>0, <1>1, ClientAssumption DEF Launch, TypeOK, Launches
  <2>4. Newest'
    BY <1>0, <1>1, <2>1, <2>3 DEF Launch, Newest, Active, TypeOK, Launches
  <2>5. Guarded'
    BY <1>0, <1>1, <2>1 DEF Launch, Guarded, Active, InBody
  <2>6. Owned'
    BY <1>0, <1>1, <2>1 DEF Launch, Owned, Active
  <2> QED
    BY <2>2, <2>4, <2>5, <2>6 DEF IInv
<1>2. CASE LaunchFree
  <2>1. TypeOK' /\ client' # "prompted" /\ MemorySafe' /\ OwnArguments'
    BY <1>0, <1>2 DEF LaunchFree, Deletes, TypeOK, MemorySafe, OwnArguments, Owned
  <2>2. Newest' /\ Guarded' /\ Owned'
    BY <1>0, <1>2 DEF LaunchFree, Deletes, Newest, Guarded, Owned, Active, InBody
  <2> QED
    BY <2>1, <2>2 DEF IInv
<1>3. CASE LaunchAlloc
  <2>1. TypeOK' /\ client' # "prompted" /\ MemorySafe' /\ OwnArguments'
    BY <1>0, <1>3 DEF LaunchAlloc, TypeOK, MemorySafe, OwnArguments, Newest
  <2>2. Newest' /\ Guarded' /\ Owned'
    BY <1>0, <1>3 DEF LaunchAlloc, Newest, Guarded, Owned, Active, InBody
  <2> QED
    BY <2>1, <2>2 DEF IInv
<1>4. CASE LaunchCreate
  <2>1. TypeOK' /\ client' # "prompted" /\ MemorySafe' /\ OwnArguments'
    BY <1>0, <1>4 DEF LaunchCreate, TypeOK, MemorySafe, OwnArguments, Newest
  <2>2. Newest'
    BY <1>0, <1>4 DEF LaunchCreate, Newest, Active, TypeOK
  <2>3. Guarded'
    BY <1>0, <1>4 DEF LaunchCreate, Guarded, Newest, Active, InBody, TypeOK
  <2>4. Owned'
    BY <1>0, <1>4 DEF LaunchCreate, Owned, Newest, Active, TypeOK
  <2> QED
    BY <2>1, <2>2, <2>3, <2>4 DEF IInv
<1>5. CASE LaunchReturn
  <2>1. TypeOK' /\ client' # "prompted" /\ MemorySafe' /\ OwnArguments'
    BY <1>0, <1>5 DEF LaunchReturn, TypeOK, MemorySafe, OwnArguments
  <2>2. Newest' /\ Guarded'
    BY <1>0, <1>5 DEF LaunchReturn, Newest, Guarded, Active, InBody
  <2>3. Owned'
    BY <1>0, <1>5, ClientAssumption DEF LaunchReturn, Owned, Newest, Active, Launches
  <2> QED
    BY <2>1, <2>2, <2>3 DEF IInv
<1> QED
  BY <1>1, <1>2, <1>3, <1>4, <1>5

(* stop(): the handle is of the one task that is in its function, so what  *)
(* stop() frees is that task's block and nobody frees it again.            *)
LEMMA StopStep ==
    ASSUME IInv, UNCHANGED client, Stop \/ StopHandle \/ StopFlag \/ StopFree \/ StopNull
    PROVE  IInv'
<1>0. TypeOK /\ client # "prompted" /\ Newest /\ Guarded /\ Owned /\ MemorySafe /\ OwnArguments
  BY DEF IInv
<1>1. CASE Stop
  <2>1. count \in Launches /\ InBody(count) /\ handle = count
    BY <1>0, <1>1 DEF Stop, Guarded
  <2>2. params = count /\ heap = {count}
    BY <1>0, <1>1, <2>1 DEF Stop, Owned, InBody
  <2>3. TypeOK' /\ client' # "prompted" /\ MemorySafe' /\ OwnArguments'
    BY <1>0, <1>1, <2>1 DEF Stop, TypeOK, MemorySafe, OwnArguments, Alive, InBody
  <2>4. Newest'
    BY <1>0, <1>1, <2>1 DEF Stop, Newest, Active, TypeOK, Launches
  <2>5. Guarded'
    BY <1>0, <1>1, <2>1 DEF Stop, Guarded, Active, InBody, TypeOK
  <2>6. Owned'
    BY <1>0, <1>1, <2>2 DEF Stop, Owned
  <2> QED
    BY <2>3, <2>4, <2>5, <2>6 DEF IInv
<1>2. CASE StopHandle \/ StopFlag
  <2>1. client' # "prompted" /\ MemorySafe' /\ OwnArguments'
    BY <1>0, <1>2 DEF StopHandle, StopFlag, MemorySafe, OwnArguments
  <2>2. TypeOK'
    <3>1. CASE StopHandle
      BY <1>0, <3>1 DEF StopHandle, TypeOK
    <3>2. CASE StopFlag
      BY <1>0, <3>2 DEF StopFlag, TypeOK
    <3> QED
      BY <1>2, <3>1, <3>2
  <2>3. Newest' /\ Guarded' /\ Owned'
    BY <1>0, <1>2 DEF StopHandle, StopFlag, Newest, Guarded, Owned, Active, InBody
  <2> QED
    BY <2>1, <2>2, <2>3 DEF IInv
<1>3. CASE StopFree
  <2>1. TypeOK' /\ client' # "prompted" /\ MemorySafe' /\ OwnArguments'
    BY <1>0, <1>3 DEF StopFree, Deletes, TypeOK, MemorySafe, OwnArguments, Owned
  <2>2. Newest' /\ Guarded' /\ Owned'
    BY <1>0, <1>3 DEF StopFree, Deletes, Newest, Guarded, Owned, Active, InBody
  <2> QED
    BY <2>1, <2>2 DEF IInv
<1>4. CASE StopNull
  <2>1. TypeOK' /\ client' # "prompted" /\ MemorySafe' /\ OwnArguments'
    BY <1>0, <1>4 DEF StopNull, TypeOK, MemorySafe, OwnArguments
  <2>2. \A n \in Launches : ~Active(n)
    BY <1>0, <1>4 DEF StopNull, Newest
  <2>3. Newest' /\ Owned'
    BY <1>0, <1>4, <2>2 DEF StopNull, Newest, Owned, Active
  <2>4. Guarded'
    BY <1>0, <1>4, <2>2 DEF StopNull, Guarded, Active, InBody
  <2> QED
    BY <2>1, <2>3, <2>4 DEF IInv
<1> QED
  BY <1>1, <1>2, <1>3, <1>4

(* apply(): an active task is the newest and the launcher is not at work,  *)
(* so params is the task's own until it clears it.                         *)
LEMMA ApplyStep ==
    ASSUME IInv, NEW n \in Launches, TaskStep(n)
    PROVE  IInv'
<1>0. TypeOK /\ client # "prompted" /\ Newest /\ Guarded /\ Owned /\ MemorySafe /\ OwnArguments
  BY DEF IInv
<1>1. client' = client /\ launcher' = launcher /\ count' = count
  BY DEF TaskStep, Call, Return, Free, ClearParams, ClearFlag, ClearHandle, Delete
<1>2. CASE Call(n)
  <2>1. n = count /\ params = n /\ heap = {n} /\ launcher \in {"idle", "created"}
    BY <1>0, <1>2 DEF Call, Goes, Newest, Owned, Active
  <2>2. TypeOK' /\ MemorySafe' /\ OwnArguments'
    BY <1>0, <1>1, <1>2, <2>1 DEF Call, Goes, TypeOK, MemorySafe, OwnArguments
  <2>3. Newest'
    BY <1>0, <1>1, <1>2, <2>1 DEF Call, Goes, Newest, Active, TypeOK
  <2>4. Guarded'
    BY <1>0, <1>1, <1>2, <2>1 DEF Call, Goes, Guarded, Active, InBody, TypeOK
  <2>5. Owned'
    BY <1>0, <1>1, <1>2, <2>1 DEF Call, Goes, Owned, Active, TypeOK
  <2> QED
    BY <1>0, <1>1, <2>2, <2>3, <2>4, <2>5 DEF IInv
<1>3. CASE Return(n)
  <2>1. n = count /\ launcher \in {"idle", "created"}
    BY <1>0, <1>3 DEF Return, Goes, Newest, Active
  <2>2. client # "dimmer" /\ (client = "greeter" => launcher = "idle")
    BY <1>3 DEF Return, MayReturn
  <2>3. TypeOK' /\ MemorySafe' /\ OwnArguments'
    BY <1>0, <1>1, <1>3 DEF Return, Goes, TypeOK, MemorySafe, OwnArguments
  <2>4. Newest'
    BY <1>0, <1>1, <1>3, <2>1 DEF Return, Goes, Newest, Active, TypeOK
  <2>5. Guarded'
    BY <1>0, <1>1, <1>3, <2>1, <2>2 DEF Return, Goes, Guarded, Active, InBody, TypeOK
  <2>6. Owned'
    BY <1>0, <1>1, <1>3, <2>1 DEF Return, Goes, Owned, Active, TypeOK
  <2> QED
    BY <1>0, <1>1, <2>3, <2>4, <2>5, <2>6 DEF IInv
<1>4. CASE Free(n)
  <2>1. n = count /\ params = n /\ heap = {n} /\ launcher \in {"idle", "created"}
    BY <1>0, <1>4 DEF Free, Goes, Newest, Owned, Active
  <2>2. TypeOK' /\ MemorySafe' /\ OwnArguments'
    BY <1>0, <1>1, <1>4, <2>1 DEF Free, Goes, Deletes, TypeOK, MemorySafe, OwnArguments
  <2>3. Newest'
    BY <1>0, <1>1, <1>4, <2>1 DEF Free, Goes, Newest, Active, TypeOK
  <2>4. Guarded'
    BY <1>0, <1>1, <1>4, <2>1 DEF Free, Goes, Guarded, Active, InBody, TypeOK
  <2>5. Owned'
    BY <1>0, <1>1, <1>4, <2>1 DEF Free, Goes, Deletes, Newest, Owned, Active, TypeOK
  <2> QED
    BY <1>0, <1>1, <2>2, <2>3, <2>4, <2>5 DEF IInv
<1>5. CASE ClearParams(n)
  <2>1. n = count /\ heap = {} /\ launcher \in {"idle", "created"}
    BY <1>0, <1>5 DEF ClearParams, Goes, Newest, Owned, Active
  <2>2. TypeOK' /\ MemorySafe' /\ OwnArguments'
    BY <1>0, <1>1, <1>5, <2>1 DEF ClearParams, Goes, TypeOK, MemorySafe, OwnArguments
  <2>3. Newest'
    BY <1>0, <1>1, <1>5, <2>1 DEF ClearParams, Goes, Newest, Active, TypeOK
  <2>4. Guarded'
    BY <1>0, <1>1, <1>5, <2>1 DEF ClearParams, Goes, Guarded, Active, InBody, TypeOK
  <2>5. Owned'
    BY <1>0, <1>1, <1>5, <2>1 DEF ClearParams, Goes, Newest, Owned, Active, TypeOK
  <2> QED
    BY <1>0, <1>1, <2>2, <2>3, <2>4, <2>5 DEF IInv
<1>6. CASE ClearFlag(n)
  <2>1. n = count /\ params = Null /\ heap = {} /\ launcher \in {"idle", "created"}
    BY <1>0, <1>6 DEF ClearFlag, Goes, Newest, Owned, Active
  <2>2. TypeOK' /\ MemorySafe' /\ OwnArguments'
    BY <1>0, <1>1, <1>6, <2>1 DEF ClearFlag, Goes, TypeOK, MemorySafe, OwnArguments
  <2>3. \A m \in Launches : ~Active(m)'
    BY <1>0, <1>6, <2>1 DEF ClearFlag, Goes, Newest, Active, TypeOK
  <2>4. Newest'
    BY <1>0, <1>1, <1>6, <2>1, <2>3 DEF ClearFlag, Goes, Newest, TypeOK
  <2>5. Guarded'
    BY <1>0, <1>1, <1>6, <2>1, <2>3 DEF ClearFlag, Goes, Guarded, TypeOK
  <2>6. Owned'
    BY <1>0, <1>1, <1>6, <2>1, <2>3 DEF ClearFlag, Goes, Owned, Active
  <2> QED
    BY <1>0, <1>1, <2>2, <2>4, <2>5, <2>6 DEF IInv
<1>7. CASE ClearHandle(n) \/ Delete(n)
  <2>1. \A m \in Launches : Active(m)' = Active(m) /\ (Active(m) => task'[m] = task[m])
    BY <1>0, <1>7 DEF ClearHandle, Delete, Goes, Active, TypeOK
  <2>2. client # "dimmer" /\ task[n] # "none"
    BY <1>0, <1>7 DEF ClearHandle, Delete, Goes, Guarded
  <2>3. TypeOK'
    <3>1. CASE ClearHandle(n)
      BY <1>0, <1>1, <3>1 DEF ClearHandle, Goes, TypeOK
    <3>2. CASE Delete(n)
      BY <1>0, <1>1, <3>2 DEF Delete, Goes, TypeOK
    <3> QED
      BY <1>7, <3>1, <3>2
  <2>4. MemorySafe' /\ OwnArguments'
    BY <1>0, <1>7 DEF ClearHandle, Delete, MemorySafe, OwnArguments
  <2>5. Newest'
    BY <1>0, <1>1, <1>7, <2>1, <2>2 DEF ClearHandle, Delete, Goes, Newest, TypeOK
  <2>6. Guarded'
    BY <1>0, <1>1, <1>7, <2>1, <2>2 DEF ClearHandle, Delete, Guarded, InBody, Active
  <2>7. Owned'
    BY <1>0, <1>1, <1>7, <2>1 DEF ClearHandle, Delete, Goes, Owned, Active, TypeOK
  <2> QED
    BY <1>0, <1>1, <2>3, <2>4, <2>5, <2>6, <2>7 DEF IInv
<1> QED
  BY <1>2, <1>3, <1>4, <1>5, <1>6, <1>7 DEF TaskStep

LEMMA StepInv == IInv /\ [Next]_vars => IInv'
<1> SUFFICES ASSUME IInv, [Next]_vars PROVE IInv'
  OBVIOUS
<1>1. CASE Begin
  BY <1>1, LaunchStep, StopStep DEF Begin
<1>2. CASE ClientStep
  BY <1>2, LaunchStep, StopStep DEF ClientStep
<1>3. ASSUME NEW n \in Launches, TaskStep(n) PROVE IInv'
  BY <1>3, ApplyStep
<1>4. CASE UNCHANGED vars
  BY <1>4 DEF vars, IInv, TypeOK, Newest, Guarded, Owned, MemorySafe, OwnArguments, Active, InBody
<1> QED
  BY <1>1, <1>2, <1>3, <1>4 DEF Next

(* The strengthened invariant holds in every reachable state.              *)
THEOREM InductiveInvariant ==
    ASSUME "prompted" \notin Clients
    PROVE  Spec => []IInv
<1>1. Init => IInv
  BY InitInv
<1> QED
  BY <1>1, StepInv, PTL DEF Spec

-----------------------------------------------------------------------------
(* The results                                                             *)

(* TaskContainer: every variable keeps its type.                           *)
THEOREM TypeCorrect ==
    ASSUME "prompted" \notin Clients
    PROVE  Spec => []TypeOK
<1>1. IInv => TypeOK
  BY DEF IInv
<1> QED
  BY <1>1, InductiveInvariant, PTL

(* Neither operator() nor stop() nor apply() uses a parameter block that   *)
(* was freed or frees one twice, and stop() never deletes a dead task      *)
(* (taskwrapper.h:47-59, 68-92).                                           *)
THEOREM NothingUsedAfterFree ==
    ASSUME "prompted" \notin Clients
    PROVE  Spec => []MemorySafe
<1>1. IInv => MemorySafe
  BY DEF IInv
<1> QED
  BY <1>1, InductiveInvariant, PTL

(* Every block but the one of params has been freed, also when a task      *)
(* could not be created or was stopped (taskwrapper.h:70-71, 89).          *)
THEOREM NothingLeaks ==
    ASSUME "prompted" \notin Clients
    PROVE  Spec => []NoLeak
<1>1. ASSUME IInv PROVE NoLeak
  <2>1. TypeOK /\ Newest /\ Owned
    BY <1>1 DEF IInv
  <2>2. CASE launcher \notin {"idle", "created"}
    BY <2>1, <2>2 DEF TypeOK, Owned, NoLeak
  <2>3. CASE launcher \in {"idle", "created"}
    BY <2>1, <2>3 DEF Owned, NoLeak, Active
  <2> QED
    BY <2>2, <2>3
<1> QED
  BY <1>1, InductiveInvariant, PTL

(* The n-th launch calls its function with the n-th arguments              *)
(* (taskwrapper.h:53, 71).                                                 *)
THEOREM ArgumentsOwn ==
    ASSUME "prompted" \notin Clients
    PROVE  Spec => []OwnArguments
<1>1. IInv => OwnArguments
  BY DEF IInv
<1> QED
  BY <1>1, InductiveInvariant, PTL

(* The launched function never runs twice at once (taskwrapper.h:53, 72;   *)
(* main.cpp:339-356).                                                      *)
THEOREM BodyAlone ==
    ASSUME "prompted" \notin Clients
    PROVE  Spec => []OneBody
<1>1. IInv => OneBody
  BY DEF IInv, Newest, Active, OneBody, InBody
<1> QED
  BY <1>1, InductiveInvariant, PTL

(* While the dimmer runs, isRunning and handle lead stop() to its task     *)
(* (main.cpp:339-344; taskwrapper.h:84-92).                                *)
THEOREM FlagTells ==
    ASSUME "prompted" \notin Clients
    PROVE  Spec => []FlagTruthful
<1>1. ASSUME IInv PROVE FlagTruthful
  BY <1>1 DEF IInv, Newest, Guarded, FlagTruthful, Active, InBody
<1> QED
  BY <1>1, InductiveInvariant, PTL
=============================================================================
