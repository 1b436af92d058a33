------------------------ MODULE TrayLifecycleProofs ------------------------
(***************************************************************************)
(* Proofs about TrayLifecycle, for any number of trays, handlers and       *)
(* replicas and any number of faults.                                      *)
(***************************************************************************)
EXTENDS TrayLifecycle, TLAPS

----------------------------------------------------------------------------
(* Lemmas: what the updates the actions are built from return.             *)

\* Every repository call returns a collection of whole rows.
LEMMA RowUpdates ==
    ASSUME row \in Rows, NEW t \in Trays, NEW s \in RowStatus, NEW d \in BOOLEAN
    PROVE  /\ Save(t) \in Rows
           /\ UpdateStatus(t, s) \in Rows
           /\ SetProviderData(t, d) \in Rows
           /\ Delete(t) \in Rows
           /\ Exists(t) => Aged(t) \in Rows
           /\ Exists(t) => row[t].status \in RowStatus /\ row[t].handle \in BOOLEAN
<1>1. \A st \in RowStatus, h, o \in BOOLEAN : ARow(st, h, o) \in Row
  BY DEF ARow, Row
<1>2. Exists(t) => row[t] \in Row
  BY DEF Exists, Rows
<1>3. Exists(t) => /\ row[t].status \in RowStatus
                   /\ row[t].handle \in BOOLEAN
                   /\ row[t].old \in BOOLEAN
  BY <1>2 DEF Row
<1>4. Save(t) \in Rows
  BY <1>1 DEF Save, Rows, RowStatus
<1>5. UpdateStatus(t, s) \in Rows
  BY <1>1, <1>3 DEF UpdateStatus, Rows
<1>6. SetProviderData(t, d) \in Rows
  <2>1. row[t].handle \/ d \in BOOLEAN
    OBVIOUS
  <2> QED
    BY <1>1, <1>3, <2>1 DEF SetProviderData, Rows
<1>7. Delete(t) \in Rows
  BY DEF Delete, Rows
<1>8. Exists(t) => Aged(t) \in Rows
  BY <1>1, <1>3 DEF Aged, Rows
<1> QED
  BY <1>3, <1>4, <1>5, <1>6, <1>7, <1>8

\* Entering, advancing or leaving DeleteTray keeps frame well-formed, and an
\* actor inside DeleteTray works on a tray.
LEMMA CallUpdates ==
    ASSUME frame \in Calls, NEW a \in Actors
    PROVE  /\ \A pc \in {"mark", "clean", "remove"}, t \in Trays, h \in BOOLEAN :
                 Enter(a, pc, t, h) => frame' \in Calls
           /\ Return(a) => frame' \in Calls
           /\ frame[a].pc # "idle" =>
                 frame[a].tray \in Trays /\ frame[a].handle \in BOOLEAN
<1>1. \A pc \in {"mark", "clean", "remove"}, t \in Trays, h \in BOOLEAN :
         ACall(pc, t, h) \in Call
  BY DEF ACall, Call
<1>2. \A pc \in {"mark", "clean", "remove"}, t \in Trays, h \in BOOLEAN :
         Enter(a, pc, t, h) => frame' \in Calls
  BY <1>1 DEF Enter, Calls
<1>3. Return(a) => frame' \in Calls
  BY DEF Return, Calls
<1>4. frame[a].pc # "idle" => frame[a] \in Call
  BY DEF Calls, NoCall, ACall
<1>5. frame[a] \in Call => frame[a].tray \in Trays /\ frame[a].handle \in BOOLEAN
  BY DEF Call
<1> QED
  BY <1>2, <1>3, <1>4, <1>5

\* A step of CreateTray keeps create well-formed.
LEMMA CreationUpdates ==
    ASSUME create \in Creations, NEW t \in Trays,
           NEW pc \in {"idle", "start", "persist", "wait", "merge", "done"}
    PROVE  /\ \A d, f \in BOOLEAN : Becomes(t, pc, d, f) => create' \in Creations
           /\ Goto(t, pc) => create' \in Creations
           /\ create[t].data \in BOOLEAN /\ create[t].failed \in BOOLEAN
<1>1. \A d, f \in BOOLEAN : ACreation(pc, d, f) \in Creation
  BY DEF ACreation, Creation
<1>2. \A d, f \in BOOLEAN : Becomes(t, pc, d, f) => create' \in Creations
  BY <1>1 DEF Becomes, Creations
<1>3. create[t].data \in BOOLEAN /\ create[t].failed \in BOOLEAN
  BY DEF Creations, Creation
<1> QED
  BY <1>2, <1>3 DEF Goto

\* A step of AgentRegister keeps request well-formed.
LEMMA RequestUpdates ==
    ASSUME request \in Requests, NEW h \in Handlers
    PROVE  /\ \A t \in Trays :
                 request' = [request EXCEPT ![h] = ARequest("registering", t)]
                   => request' \in Requests
           /\ request[h].pc # "idle" => request[h].tray \in Trays
           /\ \A pc \in {"registering", "jit", "registered"} :
                 request[h].pc # "idle" /\ Proceed(h, pc) => request' \in Requests
           /\ Reply(h) => request' \in Requests
<1>1. \A pc \in {"registering", "jit", "registered"}, t \in Trays :
         ARequest(pc, t) \in Request
  BY DEF ARequest, Request
<1>2. request[h].pc # "idle" => request[h].tray \in Trays
  <2>1. request[h].pc # "idle" => request[h] \in Request
    BY DEF Requests, NoRequest, ARequest
  <2> QED
    BY <2>1 DEF Request
<1>3. \A pc \in {"registering", "jit", "registered"} :
         request[h].pc # "idle" /\ Proceed(h, pc) => request' \in Requests
  BY <1>1, <1>2 DEF Proceed, Requests
<1>4. Reply(h) => request' \in Requests
  BY DEF Reply, Requests
<1> QED
  BY <1>1, <1>2, <1>3, <1>4 DEF Requests

----------------------------------------------------------------------------
(* Type correctness.                                                       *)

\* CreateTray, with every way it can fail.
LEMMA CreateTrayTyped ==
    ASSUME TypeOK, NEW t \in Trays, CreateTray(t) \/ CreateTrayFails(t)
    PROVE  TypeOK'
<1> USE ConstantsAssumption
<1> DEFINE PCs == {"idle", "start", "persist", "wait", "merge", "done"}
<1>1. t \in Actors /\ row \in Rows /\ create \in Creations /\ frame \in Calls
  BY DEF TypeOK, Actors
<1>2. create[t].data \in BOOLEAN /\ create[t].failed \in BOOLEAN
  BY <1>1, CreationUpdates
<1>3. \A pc \in PCs : Goto(t, pc) => create' \in Creations
  BY <1>1, CreationUpdates
<1>4. \A pc \in PCs, d, f \in BOOLEAN : Becomes(t, pc, d, f) => create' \in Creations
  BY <1>1, CreationUpdates
<1>5. CallDelete(t, t) => frame' \in Calls
  BY <1>1, CallUpdates DEF CallDelete
<1>6. \A d \in BOOLEAN : Finish(t, d) => create' \in Creations /\ frame' \in Calls
  BY <1>1, <1>3, <1>5 DEF Finish
<1>7. AfterPersist(t) => create' \in Creations /\ frame' \in Calls
  BY <1>1, <1>3, <1>6 DEF AfterPersist
<1>8. Spend => faults' \in 0..MaxFaults
  BY DEF TypeOK, Spend
<1>9. Save(t) \in Rows /\ SetProviderData(t, create[t].data) \in Rows
  BY <1>1, <1>2, RowUpdates DEF RowStatus
<1>10. CASE SaveTray(t)
  BY <1>3, <1>9, <1>10 DEF TypeOK, SaveTray
<1>11. CASE SaveFails(t)
  BY <1>3, <1>8, <1>11 DEF TypeOK, SaveFails
<1>12. CASE StartDeploy(t)
  <2>1. create' \in Creations
    BY <1>4, <1>12 DEF StartDeploy
  <2> QED
    BY <2>1, <1>12 DEF TypeOK, StartDeploy
<1>13. CASE StartDeployFails(t)
  <2>1. create' \in Creations
    BY <1>4, <1>13 DEF StartDeployFails
  <2>2. vm' \in [Trays -> {"none", "up", "gone"}]
    BY <1>13 DEF TypeOK, StartDeployFails
  <2> QED
    BY <2>1, <2>2, <1>8, <1>13 DEF TypeOK, StartDeployFails
<1>14. CASE PersistData(t)
  BY <1>7, <1>9, <1>14 DEF TypeOK, PersistData
<1>15. CASE PersistFails(t)
  BY <1>7, <1>8, <1>15 DEF TypeOK, PersistFails
<1>16. CASE WaitDeploy(t)
  BY <1>3, <1>16 DEF TypeOK, WaitDeploy
<1>17. CASE WaitDeployFails(t)
  BY <1>2, <1>4, <1>8, <1>17 DEF TypeOK, WaitDeployFails
<1>18. CASE MergeData(t)
  <2>1. Finish(t, TRUE) \/ Finish(t, FALSE)
    BY <1>18 DEF MergeData, Finish
  <2> QED
    BY <2>1, <1>6, <1>9, <1>18 DEF TypeOK, MergeData
<1>19. CASE MergeFails(t)
  BY <1>2, <1>6, <1>8, <1>19 DEF TypeOK, MergeFails
<1>20. CASE CreatorDies(t)
  BY <1>3, <1>8, <1>20 DEF TypeOK, CreatorDies
<1> QED
  BY <1>10, <1>11, <1>12, <1>13, <1>14, <1>15, <1>16, <1>17, <1>18, <1>19, <1>20
     DEF CreateTray, CreateTrayFails

\* DeleteTray, run by any actor, with every way it can fail.
LEMMA DeleteTrayTyped ==
    ASSUME TypeOK, NEW a \in Actors,
           DeleteTray(a) \/ RepositoryFails(a) \/ CleanFails(a)
    PROVE  TypeOK'
<1> USE ConstantsAssumption
<1>1. row \in Rows /\ frame \in Calls
  BY DEF TypeOK
<1> DEFINE t == frame[a].tray
<1>2. frame[a].pc # "idle" /\ t \in Trays /\ frame[a].handle \in BOOLEAN
  <2>1. frame[a].pc # "idle"
    BY DEF DeleteTray, MarkDeleting, CleanTray, RemoveRow, RepositoryFails,
       CleanFails, Calling
  <2> QED
    BY <1>1, <2>1, CallUpdates
<1>3. Return(a) => frame' \in Calls
  BY <1>1, CallUpdates
<1>4. \A pc \in {"mark", "clean", "remove"}, h \in BOOLEAN :
         Enter(a, pc, t, h) => frame' \in Calls
  BY <1>1, <1>2, CallUpdates
<1>5. MayFail(a, t) => faults' \in 0..MaxFaults
  BY DEF TypeOK, MayFail, Spend
<1>6. Kill(t) => /\ vm' \in [Trays -> {"none", "up", "gone"}]
                 /\ agent' \in [Trays -> AgentStates]
  BY <1>2 DEF TypeOK, Kill, AgentStates
<1>7. CASE MarkDeleting(a)
  <2>1. row' \in Rows
    <3>1. UpdateStatus(t, "deleting") \in Rows
      BY <1>1, <1>2, RowUpdates DEF RowStatus
    <3> QED
      BY <3>1, <1>7 DEF MarkDeleting
  <2>2. frame' \in Calls
    <3>1. Exists(t) => row[t].handle \in BOOLEAN
      BY <1>1, <1>2, RowUpdates DEF RowStatus
    <3> QED
      BY <3>1, <1>3, <1>4, <1>7 DEF MarkDeleting
  <2> QED
    BY <2>1, <2>2, <1>7 DEF TypeOK, MarkDeleting
<1>8. CASE CleanTray(a)
  <2>1. frame' \in Calls
    BY <1>2, <1>4, <1>8 DEF CleanTray
  <2> QED
    BY <2>1, <1>6, <1>8 DEF TypeOK, CleanTray
<1>9. CASE RemoveRow(a)
  <2>1. Delete(t) \in Rows
    BY <1>1, <1>2, RowUpdates DEF RowStatus
  <2> QED
    BY <2>1, <1>3, <1>9 DEF TypeOK, RemoveRow
<1>10. CASE RepositoryFails(a)
  BY <1>3, <1>5, <1>10 DEF TypeOK, RepositoryFails
<1>11. CASE CleanFails(a)
  BY <1>3, <1>5, <1>6, <1>11 DEF TypeOK, CleanFails
<1> QED
  BY <1>7, <1>8, <1>9, <1>10, <1>11 DEF DeleteTray

\* The handlers of the agent plane.
LEMMA HandlerTyped ==
    ASSUME TypeOK, NEW h \in Handlers, HandlerStep(h)
    PROVE  TypeOK'
<1> USE ConstantsAssumption
<1>1. row \in Rows /\ frame \in Calls /\ request \in Requests /\ h \in Actors
  BY DEF TypeOK, Actors
<1>2. \A t \in Trays, from, to \in AgentStates :
         Sends(t, from, to) => /\ agent' \in [Trays -> AgentStates]
                               /\ faults' \in 0..MaxFaults
  BY DEF TypeOK, Sends, Spend
<1>3. request[h].pc # "idle" => request[h].tray \in Trays
  BY <1>1, RequestUpdates
<1>4. Reply(h) => request' \in Requests
  BY <1>1, RequestUpdates
<1>5. ASSUME NEW t \in Trays, ReceiveRegister(h, t) PROVE TypeOK'
  <2>1. request' \in Requests
    BY <1>1, <1>5, RequestUpdates DEF ReceiveRegister
  <2>2. agent' \in [Trays -> AgentStates] /\ faults' \in 0..MaxFaults
    BY <1>2, <1>5 DEF ReceiveRegister, AgentStates
  <2> QED
    BY <2>1, <2>2, <1>5 DEF TypeOK, ReceiveRegister
<1>6. ASSUME NEW t \in Trays, ReceiveUnregister(h, t) PROVE TypeOK'
  <2>1. frame' \in Calls
    BY <1>1, <1>6, CallUpdates DEF ReceiveUnregister, CallDelete
  <2>2. agent' \in [Trays -> AgentStates] /\ faults' \in 0..MaxFaults
    BY <1>2, <1>6 DEF ReceiveUnregister, AgentStates
  <2> QED
    BY <2>1, <2>2, <1>6 DEF TypeOK, ReceiveUnregister
<1>7. CASE Registering(h)
  <2>1. request[h].tray \in Trays
    BY <1>3, <1>7 DEF Registering, Serving
  <2>2. row' \in Rows
    <3>1. UpdateStatus(request[h].tray, "registering") \in Rows
      BY <1>1, <2>1, RowUpdates DEF RowStatus
    <3> QED
      BY <3>1, <1>7 DEF Registering
  <2>3. request' \in Requests
    BY <1>1, <1>4, <1>7, RequestUpdates DEF Registering, Serving
  <2> QED
    BY <2>2, <2>3, <1>7 DEF TypeOK, Registering
<1>8. CASE GenerateJit(h)
  <2>1. request' \in Requests
    BY <1>1, <1>8, RequestUpdates DEF GenerateJit, Serving
  <2> QED
    BY <2>1, <1>8 DEF TypeOK, GenerateJit
<1>9. CASE Registered(h)
  <2>1. request[h].tray \in Trays
    BY <1>3, <1>9 DEF Registered, Serving
  <2>2. row' \in Rows
    <3>1. UpdateStatus(request[h].tray, "registered") \in Rows
      BY <1>1, <2>1, RowUpdates DEF RowStatus
    <3> QED
      BY <3>1, <1>9 DEF Registered
  <2>3. agent' \in [Trays -> AgentStates]
    BY <2>1, <1>9 DEF TypeOK, Registered, Answer, AgentStates
  <2> QED
    BY <2>2, <2>3, <1>4, <1>9 DEF TypeOK, Registered
<1>10. CASE RegisterFails(h)
  <2>1. faults' \in 0..MaxFaults
    BY <1>10 DEF TypeOK, RegisterFails, MayFail, Spend
  <2>2. agent' \in [Trays -> AgentStates]
    BY <1>3, <1>10 DEF TypeOK, RegisterFails, Answer, Serving, AgentStates
  <2> QED
    BY <2>1, <2>2, <1>4, <1>10 DEF TypeOK, RegisterFails
<1> QED
  BY <1>5, <1>6, <1>7, <1>8, <1>9, <1>10 DEF HandlerStep

\* Machines, agents, time and the scale set messages.
LEMMA TrayTyped ==
    ASSUME TypeOK, NEW t \in Trays,
           \/ Age(t) \/ Boot(t) \/ VmDies(t) \/ AssignJob(t) \/ EndJob(t)
           \/ HandleJobStarted(t) \/ HandleJobCompleted(t) \/ MessageLost(t)
    PROVE  TypeOK'
<1> USE ConstantsAssumption
<1>1. row \in Rows /\ frame \in Calls /\ Poller \in Actors
  BY DEF TypeOK, Actors
<1>2. CASE Age(t)
  <2>1. Exists(t)
    BY <1>2 DEF Age, Exists, NoRow, ARow, RowStatus
  <2>2. Aged(t) \in Rows
    BY <1>1, <2>1, RowUpdates DEF RowStatus
  <2> QED
    BY <2>2, <1>2 DEF TypeOK, Age
<1>3. CASE Boot(t)
  BY <1>3 DEF TypeOK, Boot, AgentStates
<1>4. CASE VmDies(t)
  BY <1>4 DEF TypeOK, VmDies, Kill, AgentStates
<1>5. CASE AssignJob(t)
  BY <1>5 DEF TypeOK, AssignJob
<1>6. CASE EndJob(t)
  BY <1>6 DEF TypeOK, EndJob
<1>7. CASE HandleJobStarted(t)
  <2>1. UpdateStatus(t, "running") \in Rows
    BY <1>1, RowUpdates DEF RowStatus
  <2> QED
    BY <2>1, <1>7 DEF TypeOK, HandleJobStarted, Take
<1>8. CASE HandleJobCompleted(t)
  <2>1. frame' \in Calls
    BY <1>1, <1>8, CallUpdates DEF HandleJobCompleted, CallDelete
  <2> QED
    BY <2>1, <1>8 DEF TypeOK, HandleJobCompleted, Take
<1>9. CASE MessageLost(t)
  <2>1. seen' \in [Trays -> 0..2]
    BY <1>9 DEF TypeOK, MessageLost, Take
  <2> QED
    BY <2>1, <1>9 DEF TypeOK, MessageLost, Spend
<1> QED
  BY <1>2, <1>3, <1>4, <1>5, <1>6, <1>7, <1>8, <1>9

\* The stale loop.
LEMMA StaleTyped ==
    ASSUME TypeOK, NEW r \in Replicas, GetStale(r) \/ DeleteStale(r) \/ ReplicaDies(r)
    PROVE  TypeOK'
<1>1. frame \in Calls /\ r \in Actors
  BY DEF TypeOK, Actors
<1>2. CASE GetStale(r)
  BY <1>2 DEF TypeOK, GetStale, StaleRows
<1>3. CASE DeleteStale(r)
  <2>1. PICK t \in stale[r] : /\ CallDelete(r, t)
                              /\ stale' = [stale EXCEPT ![r] = stale[r] \ {t}]
    BY <1>3 DEF DeleteStale
  <2>2. t \in Trays
    BY DEF TypeOK
  <2>3. frame' \in Calls
    BY <1>1, <2>1, <2>2, CallUpdates DEF CallDelete
  <2> QED
    BY <2>1, <2>3, <1>3 DEF TypeOK, DeleteStale
<1>4. CASE ReplicaDies(r)
  <2>1. frame' \in Calls
    BY <1>1, <1>4, CallUpdates DEF ReplicaDies
  <2> QED
    BY <2>1, <1>4, ConstantsAssumption DEF TypeOK, ReplicaDies, Spend
<1> QED
  BY <1>2, <1>3, <1>4

LEMMA InitTyped == Init => TypeOK
<1> SUFFICES ASSUME Init PROVE TypeOK
  OBVIOUS
<1>1. create \in Creations
  BY DEF Init, Creations, Creation, ACreation
<1>2. row \in Rows /\ frame \in Calls /\ request \in Requests
  BY DEF Init, Rows, Calls, Requests
<1> QED
  BY <1>1, <1>2, ConstantsAssumption DEF Init, TypeOK, AgentStates

LEMMA StepTyped == TypeOK /\ [Next]_vars => TypeOK'
<1> SUFFICES ASSUME TypeOK, [Next]_vars PROVE TypeOK'
  OBVIOUS
<1>1. CASE UNCHANGED vars
  BY <1>1 DEF vars, TypeOK
<1> QED
  BY <1>1, CreateTrayTyped, DeleteTrayTyped, HandlerTyped, TrayTyped, StaleTyped
     DEF Next

\* Every action keeps every variable in its type, whatever the constants are:
\* no interleaving of handlers, messages, stale loops and faults leaves half a
\* row, or a call or a request that works on no tray.
THEOREM TypeCorrect == Spec => []TypeOK
  BY InitTyped, StepTyped, PTL DEF Spec

----------------------------------------------------------------------------
(***************************************************************************)
(* That no step of the tray lifecycle loses a machine, and that a removed  *)
(* row never comes back.                                                   *)
(*                                                                         *)
(* NoOrphanVM is not inductive.  DeletionsAreSafe adds what makes it so:   *)
(* until the machine is recorded only CreateTray works on a tray, and a    *)
(* DeleteTray call holds the machine's handle, or the machine is gone.     *)
(***************************************************************************)

\* The tray has no row yet, or a row that does not name its machine yet.
Early(u) == At(u, "idle") \/ InWindow(u)

\* A step neither adds nor removes the row of u, nor what finds its machine.
KeepsRow(u) ==
    /\ row'[u] = NoRow <=> row[u] = NoRow
    /\ row'[u].handle = row[u].handle

\* A step outside CreateTray(u) that keeps the row of u, and at most kills its
\* machine, keeps the tray's part of the invariant.
LEMMA Undisturbed ==
    ASSUME NEW u \in Trays, CreatorInv(u), Covered(u), KeepsRow(u),
           create'[u] = create[u],
           vm'[u] = vm[u] \/ (vm[u] = "up" /\ vm'[u] = "gone"),
           Early(u) => Untouched(u)'
    PROVE  CreatorInv(u)' /\ Covered(u)'
BY DEF CreatorInv, Covered, KeepsRow, Early, At, InWindow, Exists, Finds

\* A DeleteTray call that does not move keeps its part of the invariant as long
\* as nothing starts the machine it works on.
LEMMA CallKept ==
    ASSUME NEW b \in Actors, CallInv(b), frame'[b] = frame[b],
           frame[b].pc = "idle" \/ vm'[frame[b].tray] = vm[frame[b].tray] \/ vm'[frame[b].tray] # "up"
    PROVE  CallInv(b)'
BY DEF CallInv, Calling, Finds

\* UpdateStatus changes no row but in its status, and makes none stale.
LEMMA StatusKeepsRow ==
    ASSUME row \in Rows, NEW t \in Trays, NEW s \in RowStatus, row' = UpdateStatus(t, s), NEW u \in Trays
    PROVE  KeepsRow(u) /\ (row'[u].old => row[u].old)
<1>1. CASE ~Exists(t) \/ u # t
  <2>1. row'[u] = row[u]
    BY <1>1 DEF UpdateStatus, Rows
  <2> QED BY <2>1 DEF KeepsRow
<1>2. CASE Exists(t) /\ u = t
  <2>1. row'[u] = ARow(s, row[u].handle, FALSE)
    BY <1>2 DEF UpdateStatus, Rows
  <2>2. s # "absent"
    BY DEF RowStatus
  <2>3. row'[u].handle = row[u].handle /\ ~row'[u].old /\ row'[u].status # "absent"
    BY <2>1, <2>2 DEF ARow
  <2>4. row'[u] # NoRow
    BY <2>3 DEF NoRow, ARow
  <2> QED BY <1>2, <2>3, <2>4 DEF KeepsRow, Exists
<1> QED BY <1>1, <1>2

\* DeleteTray takes the handle from a row outside the deploy window.
LEMMA SafeMark ==
    ASSUME TypeOK, DeletionsAreSafe, NEW a \in Actors, MarkDeleting(a), ~WindowRaces PROVE DeletionsAreSafe'
<1> USE ConstantsAssumption
<1> DEFINE t == frame[a].tray
<1>0. t \in Trays /\ row \in Rows /\ frame \in Calls
  BY CallUpdates DEF MarkDeleting, Calling, TypeOK
<1>a. frame'[a].tray \in {t, NoTray} /\ \A b \in Actors : b # a => frame'[b] = frame[b]
  BY <1>0 DEF MarkDeleting, Enter, ACall, Return, NoCall, Calls
<1>1. ASSUME NEW u \in Trays PROVE CreatorInv(u)' /\ Covered(u)'
  <2>1. CreatorInv(u) /\ Covered(u)
    BY DEF DeletionsAreSafe, NoOrphanVM
  <2>2. KeepsRow(u) /\ (row'[u].old => row[u].old)
    BY <1>0, StatusKeepsRow DEF MarkDeleting, RowStatus
  <2>3. Early(u) => Untouched(u)
    BY <2>1 DEF Early, CreatorInv
  <2>4. Untouched(u) => Untouched(u)'
    BY <1>a, <2>2 DEF Untouched, MarkDeleting
  <2> QED
    BY <2>1, <2>2, <2>3, <2>4, Undisturbed DEF MarkDeleting
<1>2. ASSUME NEW b \in Actors PROVE CallInv(b)'
  <2>1. CallInv(b) /\ Covered(t) /\ CreatorInv(t)
    BY <1>0 DEF DeletionsAreSafe, NoOrphanVM
  <2>2. CASE b # a
    BY <2>1, <2>2, <1>a, CallKept DEF MarkDeleting
  <2>3. CASE b = a /\ Exists(t)
    <3>1. frame'[b] = ACall("clean", t, row[t].handle)
      BY <2>3, <1>0 DEF MarkDeleting, Enter, Calls
    <3>2. ~InWindow(t)
      BY <2>1, <1>0 DEF CreatorInv, Untouched
    <3>3. frame'[b].pc = "clean" /\ frame'[b].tray = t /\ frame'[b].handle = row[t].handle
      BY <3>1 DEF ACall
    <3> QED
      BY <3>2, <3>3, <2>1 DEF CallInv, Covered, Calling, Finds, MarkDeleting
  <2>4. CASE b = a /\ ~Exists(t)
    BY <2>4, <1>0 DEF MarkDeleting, Return, NoCall, ACall, CallInv, Calling, Calls
  <2> QED
    BY <2>2, <2>3, <2>4
<1> QED BY <1>1, <1>2 DEF DeletionsAreSafe, NoOrphanVM

\* DeleteTray reaches the removal only once the machine is gone.
LEMMA SafeClean ==
    ASSUME TypeOK, DeletionsAreSafe, NEW a \in Actors,
           CleanTray(a) \/ RepositoryFails(a) \/ CleanFails(a)
    PROVE  DeletionsAreSafe'
<1> DEFINE t == frame[a].tray
<1>1. t \in Trays /\ frame \in Calls /\ frame[a].pc # "idle"
  BY CallUpdates DEF CleanTray, RepositoryFails, CleanFails, Calling, TypeOK
<1>2. /\ frame'[a].tray \in {t, NoTray}
      /\ \A b \in Actors : b # a => frame'[b] = frame[b]
  BY <1>1 DEF CleanTray, RepositoryFails, CleanFails, Enter, ACall, Return,
     NoCall, Calls
<1>3. /\ UNCHANGED row /\ UNCHANGED create /\ UNCHANGED sent /\ UNCHANGED stale
      /\ (UNCHANGED <<vm, agent>>) \/ (vm[t] = "up" /\ Kill(t))
  BY DEF CleanTray, RepositoryFails, CleanFails
<1>4. ASSUME NEW u \in Trays
      PROVE  /\ vm'[u] = vm[u] \/ (vm[u] = "up" /\ vm'[u] = "gone")
             /\ agent'[u] \in {agent[u], "off"}
  BY <1>1, <1>3 DEF TypeOK, Kill
<1>5. ASSUME NEW u \in Trays PROVE CreatorInv(u)' /\ Covered(u)'
  <2>1. CreatorInv(u) /\ Covered(u)
    BY DEF DeletionsAreSafe, NoOrphanVM
  <2>2. KeepsRow(u)
    BY <1>3 DEF KeepsRow
  <2>3. Early(u) => Untouched(u)'
    <3>1. Early(u) => Untouched(u)
      BY <2>1 DEF Early, CreatorInv
    <3> QED
      BY <3>1, <1>2, <1>3, <1>4, ConstantsAssumption DEF Untouched
  <2> QED
    BY <2>1, <2>2, <2>3, <1>3, <1>4, Undisturbed
<1>6. ASSUME NEW b \in Actors PROVE CallInv(b)'
  <2>1. CallInv(b) /\ (frame[b].pc # "idle" => frame[b].tray \in Trays)
    BY <1>1, CallUpdates DEF DeletionsAreSafe
  <2>2. CASE b # a
    <3>1. frame[b].pc = "idle" \/ vm'[frame[b].tray] \in {vm[frame[b].tray], "gone"}
      BY <2>1, <1>4
    <3> QED
      BY <2>1, <2>2, <3>1, <1>2, CallKept
  <2>3. CASE b = a /\ CleanTray(a)
    <3>1. frame'[a].pc = "remove" /\ frame'[a].tray = t
      BY <2>3, <1>1 DEF CleanTray, Enter, ACall, Calls
    <3>2. vm'[t] # "up"
      BY <2>1, <2>3, <1>1 DEF CleanTray, CallInv, Calling, Kill, TypeOK
    <3> QED
      BY <2>3, <3>1, <3>2 DEF CallInv, Calling
  <2>4. CASE b = a /\ ~CleanTray(a)
    <3>1. frame'[a].pc = "idle"
      BY <2>4, <1>1 DEF RepositoryFails, CleanFails, Return, NoCall, ACall, Calls
    <3> QED
      BY <2>4, <3>1 DEF CallInv, Calling
  <2> QED
    BY <2>2, <2>3, <2>4
<1> QED
  BY <1>5, <1>6 DEF DeletionsAreSafe, NoOrphanVM

\* The row that goes away is that of a machine that is gone.
LEMMA SafeRemove ==
    ASSUME TypeOK, DeletionsAreSafe, NEW a \in Actors, RemoveRow(a)
    PROVE  DeletionsAreSafe'
<1> DEFINE t == frame[a].tray
<1>1. t \in Trays /\ frame \in Calls /\ vm[t] # "up"
  BY CallUpdates DEF RemoveRow, Calling, TypeOK, DeletionsAreSafe, CallInv
<1>2. /\ frame'[a] = NoCall
      /\ \A b \in Actors : b # a => frame'[b] = frame[b]
  BY <1>1 DEF RemoveRow, Return, Calls
<1>3. \A u \in Trays : u # t => row'[u] = row[u]
  BY <1>1 DEF RemoveRow, Delete, TypeOK, Rows
<1>4. ASSUME NEW u \in Trays PROVE CreatorInv(u)' /\ Covered(u)'
  <2>1. CreatorInv(u) /\ Covered(u)
    BY DEF DeletionsAreSafe, NoOrphanVM
  <2>2. CASE u # t
    <3>1. KeepsRow(u)
      BY <1>3, <2>2 DEF KeepsRow
    <3>2. Early(u) => Untouched(u)
      BY <2>1 DEF Early, CreatorInv
    <3>3. Untouched(u) => Untouched(u)'
      BY <1>2, <1>3, <2>2, ConstantsAssumption
         DEF Untouched, RemoveRow, NoCall, ACall
    <3> QED
      BY <2>1, <3>1, <3>2, <3>3, Undisturbed DEF RemoveRow
  <2>3. CASE u = t
    <3>1. ~At(u, "idle") /\ ~InWindow(u)
      BY <2>1, <2>3 DEF CreatorInv, Untouched
    <3>2. UNCHANGED create /\ UNCHANGED vm
      BY DEF RemoveRow
    <3> QED
      BY <3>1, <3>2, <1>1, <2>3 DEF CreatorInv, Covered, At, InWindow
  <2> QED
    BY <2>2, <2>3
<1>5. ASSUME NEW b \in Actors PROVE CallInv(b)'
  <2>1. CallInv(b)
    BY DEF DeletionsAreSafe
  <2>2. CASE b = a
    BY <2>2, <1>2 DEF CallInv, Calling, NoCall, ACall
  <2>3. CASE b # a
    BY <2>1, <2>3, <1>2, CallKept DEF RemoveRow
  <2> QED
    BY <2>2, <2>3
<1> QED
  BY <1>4, <1>5 DEF DeletionsAreSafe, NoOrphanVM

\* What the steps of everyone but CreateTray and DeleteTray have in common.
LEMMA SafeOutside ==
    ASSUME TypeOK, DeletionsAreSafe,
           UNCHANGED create, frame \in Calls, frame' \in Calls,
           \A u \in Trays : KeepsRow(u),
           \A u \in Trays : vm'[u] = vm[u] \/ (vm[u] = "up" /\ vm'[u] = "gone"),
           \A u \in Trays : Early(u) /\ Untouched(u) => Untouched(u)',
           \A a \in Actors : frame'[a] = frame[a] \/ frame'[a].pc \in {"idle", "mark"}
    PROVE  DeletionsAreSafe'
<1>1. ASSUME NEW u \in Trays PROVE CreatorInv(u)' /\ Covered(u)'
  <2>1. CreatorInv(u) /\ Covered(u)
    BY DEF DeletionsAreSafe, NoOrphanVM
  <2>2. Early(u) => Untouched(u)'
    BY <2>1 DEF Early, CreatorInv
  <2> QED
    BY <2>1, <2>2, Undisturbed
<1>2. ASSUME NEW b \in Actors PROVE CallInv(b)'
  <2>1. CallInv(b) /\ (frame[b].pc # "idle" => frame[b].tray \in Trays)
    BY CallUpdates DEF DeletionsAreSafe
  <2>2. CASE frame'[b] = frame[b]
    BY <2>1, <2>2, CallKept
  <2>3. CASE frame'[b].pc \in {"idle", "mark"}
    BY <2>3 DEF CallInv, Calling
  <2> QED
    BY <2>2, <2>3
<1> QED
  BY <1>1, <1>2 DEF DeletionsAreSafe, NoOrphanVM

\* Time, machines and scale set messages are harmless.
LEMMA SafeTray ==
    ASSUME TypeOK, DeletionsAreSafe, ~WindowRaces, NEW t \in Trays,
           \/ Age(t) \/ Boot(t) \/ VmDies(t) \/ AssignJob(t) \/ EndJob(t)
           \/ HandleJobStarted(t) \/ HandleJobCompleted(t) \/ MessageLost(t)
    PROVE  DeletionsAreSafe'
<1> USE ConstantsAssumption
<1>1. TypeOK' /\ frame \in Calls /\ frame' \in Calls /\ UNCHANGED create
  BY TrayTyped DEF TypeOK, Age, Boot, VmDies, AssignJob, EndJob,
     HandleJobStarted, HandleJobCompleted, MessageLost
<1>2. CreatorInv(t)
  BY DEF DeletionsAreSafe
<1>3. CASE Age(t)
  <2>1. ~Early(t)
    BY <1>2, <1>3 DEF Age, Prompt, Early, CreatorInv, At, NoRow, ARow, RowStatus
  <2>2. \A u \in Trays : KeepsRow(u) /\ (u # t => row'[u] = row[u])
    <3>1. row'[t] = ARow(row[t].status, row[t].handle, TRUE)
      BY <1>3 DEF Age, Aged, TypeOK, Rows
    <3>2. KeepsRow(t)
      BY <3>1, <1>3 DEF KeepsRow, NoRow, ARow, Age, RowStatus
    <3>3. \A u \in Trays : u # t => row'[u] = row[u]
      BY <1>3 DEF Age, Aged, TypeOK, Rows
    <3> QED
      BY <3>2, <3>3 DEF KeepsRow
  <2>3. \A u \in Trays : Early(u) /\ Untouched(u) => Untouched(u)'
    BY <2>1, <2>2, <1>3 DEF Untouched, Age
  <2>4. UNCHANGED vm /\ UNCHANGED frame
    BY <1>3 DEF Age
  <2> QED
    BY <2>2, <2>3, <2>4, <1>1, SafeOutside
<1>4. CASE Boot(t)
  <2>1. ~Early(t)
    BY <1>2, <1>4 DEF Boot, Prompt, Early, CreatorInv, At
  <2>2. \A u \in Trays : Early(u) /\ Untouched(u) => Untouched(u)'
    BY <2>1, <1>4 DEF Untouched, Boot, TypeOK
  <2>3. UNCHANGED <<row, vm, frame>>
    BY <1>4 DEF Boot
  <2> QED
    BY <2>2, <2>3, <1>1, SafeOutside DEF KeepsRow
<1>5. CASE VmDies(t)
  <2>1. \A u \in Trays : Untouched(u) => Untouched(u)'
    BY <1>5 DEF Untouched, VmDies, Kill, TypeOK
  <2>2. \A u \in Trays : vm'[u] = vm[u] \/ (vm[u] = "up" /\ vm'[u] = "gone")
    BY <1>5 DEF VmDies, Kill, TypeOK
  <2>3. UNCHANGED <<row, frame>>
    BY <1>5 DEF VmDies
  <2> QED
    BY <2>1, <2>2, <2>3, <1>1, SafeOutside DEF KeepsRow
<1>6. CASE AssignJob(t) \/ EndJob(t) \/ MessageLost(t)
  <2>1. \A u \in Trays : Untouched(u) => Untouched(u)'
    BY <1>6 DEF Untouched, AssignJob, EndJob, MessageLost, TypeOK
  <2>2. UNCHANGED <<row, vm, frame>>
    BY <1>6 DEF AssignJob, EndJob, MessageLost
  <2> QED
    BY <2>1, <2>2, <1>1, SafeOutside DEF KeepsRow
<1>7. CASE HandleJobStarted(t)
  <2>1. \A u \in Trays : KeepsRow(u) /\ (row'[u].old => row[u].old)
    BY <1>7, StatusKeepsRow DEF HandleJobStarted, RowStatus, TypeOK
  <2>2. \A u \in Trays : Untouched(u) => Untouched(u)'
    BY <2>1, <1>7 DEF Untouched, HandleJobStarted
  <2>3. UNCHANGED <<vm, frame>>
    BY <1>7 DEF HandleJobStarted
  <2> QED
    BY <2>1, <2>2, <2>3, <1>1, SafeOutside
<1>8. CASE HandleJobCompleted(t)
  <2>1. /\ frame'[Poller].pc = "mark" /\ frame'[Poller].tray = t
        /\ \A b \in Actors : b # Poller => frame'[b] = frame[b]
    BY <1>1, <1>8 DEF HandleJobCompleted, CallDelete, Enter, ACall, Calls, Actors
  <2>2. ~Untouched(t)
    BY <1>8 DEF HandleJobCompleted, Untouched
  <2>3. \A u \in Trays : Untouched(u) => Untouched(u)'
    BY <2>1, <2>2, <1>8 DEF Untouched, HandleJobCompleted
  <2>4. UNCHANGED <<row, vm>>
    BY <1>8 DEF HandleJobCompleted
  <2> QED
    BY <2>1, <2>3, <2>4, <1>1, SafeOutside DEF KeepsRow
<1> QED
  BY <1>3, <1>4, <1>5, <1>6, <1>7, <1>8

\* The stale loops only list and call.
LEMMA SafeStale ==
    ASSUME TypeOK, DeletionsAreSafe, NEW r \in Replicas,
           GetStale(r) \/ DeleteStale(r) \/ ReplicaDies(r)
    PROVE  DeletionsAreSafe'
<1> USE ConstantsAssumption
<1>1. /\ frame \in Calls /\ frame' \in Calls /\ r \in Actors
      /\ UNCHANGED <<create, row, vm, agent, sent>>
  <2>1. TypeOK'
    BY StaleTyped
  <2> QED
    BY <2>1 DEF TypeOK, GetStale, DeleteStale, ReplicaDies, Actors
<1>2. CASE GetStale(r)
  <2>1. \A u \in Trays : Untouched(u) => Untouched(u)'
    BY <1>1, <1>2 DEF Untouched, GetStale, StaleRows, TypeOK
  <2> QED
    BY <2>1, <1>1, <1>2, SafeOutside DEF KeepsRow, GetStale
<1>3. CASE DeleteStale(r)
  <2>1. PICK t \in stale[r] : /\ CallDelete(r, t)
                              /\ stale' = [stale EXCEPT ![r] = stale[r] \ {t}]
    BY <1>3 DEF DeleteStale
  <2>2. /\ frame'[r].pc = "mark" /\ frame'[r].tray = t
        /\ \A b \in Actors : b # r => frame'[b] = frame[b]
    BY <1>1, <2>1 DEF CallDelete, Enter, ACall, Calls
  <2>3. \A q \in Replicas : stale'[q] \subseteq stale[q]
    BY <2>1 DEF TypeOK
  <2>4. \A u \in Trays : Untouched(u) => Untouched(u)'
    BY <1>1, <2>1, <2>2, <2>3 DEF Untouched
  <2> QED
    BY <2>2, <2>4, <1>1, SafeOutside DEF KeepsRow
<1>4. CASE ReplicaDies(r)
  <2>1. /\ frame'[r] = NoCall
        /\ \A b \in Actors : b # r => frame'[b] = frame[b]
    BY <1>1, <1>4 DEF ReplicaDies, Return, Calls
  <2>2. \A q \in Replicas : stale'[q] \subseteq stale[q]
    BY <1>4 DEF TypeOK, ReplicaDies
  <2>3. \A u \in Trays : Untouched(u) => Untouched(u)'
    BY <1>1, <2>1, <2>2 DEF Untouched, NoCall, ACall
  <2>4. frame'[r].pc = "idle"
    BY <2>1 DEF NoCall, ACall
  <2> QED
    BY <2>1, <2>3, <2>4, <1>1, SafeOutside DEF KeepsRow
<1> QED
  BY <1>2, <1>3, <1>4

\* Register and unregister requests are harmless.
LEMMA SafeHandler ==
    ASSUME TypeOK, DeletionsAreSafe, NEW h \in Handlers, HandlerStep(h)
    PROVE  DeletionsAreSafe'
<1> USE ConstantsAssumption
<1>1. /\ frame \in Calls /\ frame' \in Calls /\ h \in Actors
      /\ UNCHANGED <<create, vm, sent, stale>>
  <2>1. TypeOK'
    BY HandlerTyped
  <2> QED
    BY <2>1 DEF TypeOK, HandlerStep, ReceiveRegister, ReceiveUnregister,
       Registering, GenerateJit, Registered, RegisterFails, Actors
<1>2. ASSUME NEW t \in Trays, ReceiveRegister(h, t) PROVE DeletionsAreSafe'
  <2>1. \A u \in Trays : Untouched(u) => Untouched(u)'
    BY <1>1, <1>2 DEF Untouched, ReceiveRegister, Sends, TypeOK
  <2> QED
    BY <2>1, <1>1, <1>2, SafeOutside DEF KeepsRow, ReceiveRegister
<1>3. ASSUME NEW t \in Trays, ReceiveUnregister(h, t) PROVE DeletionsAreSafe'
  <2>1. ~Untouched(t)
    BY <1>3 DEF ReceiveUnregister, Sends, Untouched
  <2>2. \/ UNCHANGED frame
        \/ /\ frame'[h].pc = "mark" /\ frame'[h].tray = t
           /\ \A b \in Actors : b # h => frame'[b] = frame[b]
    BY <1>1, <1>3 DEF ReceiveUnregister, CallDelete, Enter, ACall, Calls
  <2>3. \A u \in Trays : Untouched(u) => Untouched(u)'
    BY <2>1, <2>2, <1>1, <1>3 DEF Untouched, ReceiveUnregister, Sends, TypeOK
  <2> QED
    BY <2>2, <2>3, <1>1, <1>3, SafeOutside DEF KeepsRow, ReceiveUnregister
<1>4. CASE Registering(h) \/ Registered(h)
  <2>1. request[h].tray \in Trays
    BY <1>4, RequestUpdates DEF Registering, Registered, Serving, TypeOK
  <2>2. \A u \in Trays : KeepsRow(u) /\ (row'[u].old => row[u].old)
    BY <2>1, <1>4, StatusKeepsRow DEF Registering, Registered, RowStatus, TypeOK
  <2>3. \A u \in Trays : Untouched(u) => Untouched(u)'
    BY <2>1, <2>2, <1>1, <1>4 DEF Untouched, Registering, Registered, Answer, TypeOK
  <2> QED
    BY <2>2, <2>3, <1>1, <1>4, SafeOutside DEF Registering, Registered
<1>5. CASE GenerateJit(h) \/ RegisterFails(h)
  <2>1. UNCHANGED <<row, frame>>
    BY <1>5 DEF GenerateJit, RegisterFails
  <2>2. \A u \in Trays : agent[u] = "off" => agent'[u] = "off"
    BY <1>5 DEF GenerateJit, RegisterFails, Answer, TypeOK
  <2>3. \A u \in Trays : Untouched(u) => Untouched(u)'
    BY <2>1, <2>2, <1>1 DEF Untouched
  <2> QED
    BY <2>1, <2>3, <1>1, SafeOutside DEF KeepsRow
<1> QED
  BY <1>2, <1>3, <1>4, <1>5 DEF HandlerStep

\* A step of CreateTray(t) need only be checked on t.
LEMMA SafeCreation ==
    ASSUME TypeOK, TypeOK', DeletionsAreSafe, NEW t \in Trays,
           \A u \in Trays : u # t => /\ create'[u] = create[u]
                                     /\ row'[u] = row[u] /\ vm'[u] = vm[u],
           UNCHANGED <<agent, sent, stale>>,
           Untouched(t) => vm'[t] \in {vm[t], "up"},
           ~Untouched(t) => vm'[t] = vm[t],
           CreatorInv(t)', Covered(t)',
           UNCHANGED frame \/ CallDelete(t, t)
    PROVE  DeletionsAreSafe'
<1>1. frame \in Calls /\ t \in Actors
  BY DEF TypeOK, Actors
<1>2. \/ UNCHANGED frame
      \/ /\ frame'[t].pc = "mark" /\ frame'[t].tray = t
         /\ \A b \in Actors : b # t => frame'[b] = frame[b]
  BY <1>1 DEF CallDelete, Enter, ACall, Calls
<1>3. ASSUME NEW u \in Trays PROVE CreatorInv(u)' /\ Covered(u)'
  <2>1. CASE u # t
    <3>1. CreatorInv(u) /\ Covered(u) /\ KeepsRow(u)
      BY <2>1 DEF DeletionsAreSafe, NoOrphanVM, KeepsRow
    <3>2. Early(u) => Untouched(u)
      BY <3>1 DEF Early, CreatorInv
    <3>3. Untouched(u) => Untouched(u)'
      BY <2>1, <1>2 DEF Untouched
    <3> QED
      BY <2>1, <3>1, <3>2, <3>3, Undisturbed
  <2> QED
    BY <2>1
<1>4. ASSUME NEW b \in Actors PROVE CallInv(b)'
  <2>1. CallInv(b) /\ (frame[b].pc # "idle" => frame[b].tray \in Trays)
    BY <1>1, CallUpdates DEF DeletionsAreSafe
  <2>2. CASE frame'[b] = frame[b]
    <3>1. frame[b].pc = "idle" \/ vm'[frame[b].tray] = vm[frame[b].tray]
      BY <2>1 DEF Untouched
    <3> QED
      BY <2>1, <2>2, <3>1, CallKept
  <2>3. CASE frame'[b] # frame[b]
    BY <2>3, <1>2 DEF CallInv, Calling
  <2> QED
    BY <2>2, <2>3
<1> QED
  BY <1>3, <1>4 DEF DeletionsAreSafe, NoOrphanVM

\* SetProviderData loses nothing, and stores what it is given in a row there is.
LEMMA StoringKeepsRow ==
    ASSUME row \in Rows, NEW t \in Trays, NEW d \in BOOLEAN,
           row' = SetProviderData(t, d)
    PROVE  /\ \A u \in Trays : u # t => row'[u] = row[u]
           /\ row'[t] = NoRow <=> row[t] = NoRow
           /\ row[t].handle => row'[t].handle
           /\ d /\ row[t] # NoRow => row'[t].handle
<1>1. CASE ~Exists(t)
  BY <1>1 DEF SetProviderData, Exists
<1>2. CASE Exists(t)
  <2>1. /\ \A u \in Trays : u # t => row'[u] = row[u]
        /\ row'[t] = ARow(row[t].status, row[t].handle \/ d, row[t].old)
    BY <1>2 DEF SetProviderData, Rows
  <2>2. row[t].status # "absent"
    BY <1>2 DEF Rows, Row, RowStatus, Exists
  <2>3. row'[t].handle = (row[t].handle \/ d) /\ row'[t].status # "absent"
    BY <2>1, <2>2 DEF ARow
  <2>4. row'[t] # NoRow
    BY <2>3 DEF NoRow, ARow
  <2> QED
    BY <1>2, <2>1, <2>3, <2>4 DEF Exists
<1> QED
  BY <1>1, <1>2

\* CreateTray leaves the deploy window with the machine recorded or absent.
LEMMA SafeCreateTray ==
    ASSUME TypeOK, DeletionsAreSafe, ~WindowRaces, NEW t \in Trays,
           CreateTray(t) \/ CreateTrayFails(t)
    PROVE  DeletionsAreSafe'
<1> USE ConstantsAssumption
<1>1. TypeOK'
  BY CreateTrayTyped
<1>2. CreatorInv(t) /\ Covered(t) /\ create[t].data \in BOOLEAN /\ row \in Rows
  BY DEF DeletionsAreSafe, NoOrphanVM, TypeOK, Creations, Creation
<1>3. \A pc, d, f : Becomes(t, pc, d, f) =>
         /\ create'[t].pc = pc /\ create'[t].data = d
         /\ \A u \in Trays : u # t => create'[u] = create[u]
  BY DEF TypeOK, Creations, Becomes, ACreation
<1>4. \A pc : Goto(t, pc) => Becomes(t, pc, create[t].data, create[t].failed)
  BY DEF Goto
<1>5. UNCHANGED <<agent, sent, stale>>
  BY DEF CreateTray, CreateTrayFails, SaveTray, SaveFails, StartDeploy,
     StartDeployFails, PersistData, PersistFails, WaitDeploy, WaitDeployFails,
     MergeData, MergeFails, CreatorDies
<1>6. \A d : Finish(t, d) =>
         /\ create'[t].pc = "done"
         /\ \A u \in Trays : u # t => create'[u] = create[u]
         /\ UNCHANGED frame \/ CallDelete(t, t)
  BY <1>3, <1>4 DEF Finish
<1>7. CASE SaveTray(t)
  <2>1. /\ create'[t].pc = "start" /\ UNCHANGED <<vm, frame>>
        /\ \A u \in Trays : u # t => create'[u] = create[u]
    BY <1>3, <1>4, <1>7 DEF SaveTray
  <2>2. /\ row'[t] = ARow("creating", FALSE, FALSE)
        /\ \A u \in Trays : u # t => row'[u] = row[u]
    BY <1>7 DEF SaveTray, Save, TypeOK, Rows
  <2>3. row'[t] # NoRow /\ ~row'[t].old
    BY <2>2 DEF NoRow, ARow
  <2>4. CreatorInv(t)' /\ Covered(t)'
    BY <1>2, <1>5, <1>7, <2>1, <2>3
       DEF SaveTray, CreatorInv, Covered, Untouched, At, InWindow, Exists
  <2> QED
    BY <1>1, <1>5, <2>1, <2>2, <2>4, SafeCreation
<1>8. CASE StartDeploy(t) \/ StartDeployFails(t)
  <2>1. /\ create'[t].pc = "persist" /\ UNCHANGED <<row, frame>>
        /\ \A u \in Trays : u # t => create'[u] = create[u]
        /\ vm'[t] = "up" => create'[t].data \/ NamedByTray
    <3>1. CASE StartDeploy(t)
      BY <1>3, <3>1 DEF StartDeploy
    <3>2. CASE StartDeployFails(t)
      <4>1. PICK accepted, staged \in BOOLEAN :
               /\ accepted => staged \/ NamedByTray
               /\ vm' = [vm EXCEPT ![t] = IF accepted THEN "up" ELSE vm[t]]
               /\ Becomes(t, "persist", staged, TRUE)
        BY <3>2 DEF StartDeployFails
      <4>2. vm[t] = "none"
        BY <1>2, <3>2 DEF CreatorInv, StartDeployFails, At
      <4>3. /\ create'[t].pc = "persist" /\ create'[t].data = staged
            /\ \A u \in Trays : u # t => create'[u] = create[u]
        BY <1>3, <4>1
      <4>4. vm'[t] = "up" => staged \/ NamedByTray
        BY <4>1, <4>2 DEF TypeOK
      <4> QED
        BY <3>2, <4>3, <4>4 DEF StartDeployFails
    <3> QED
      BY <1>8, <3>1, <3>2
  <2>2. /\ vm'[t] \in {vm[t], "up"}
        /\ \A u \in Trays : u # t => vm'[u] = vm[u]
    BY <1>8 DEF StartDeploy, StartDeployFails, TypeOK
  <2>3. Untouched(t) /\ Exists(t)
    BY <1>2, <1>8 DEF StartDeploy, StartDeployFails, CreatorInv, At, InWindow
  <2>4. CreatorInv(t)' /\ Covered(t)'
    BY <1>5, <2>1, <2>3 DEF CreatorInv, Covered, Untouched, At, InWindow,
       Exists, Finds
  <2> QED
    BY <1>1, <1>5, <2>1, <2>2, <2>3, <2>4, SafeCreation
<1>9. ASSUME ~Early(t)', UNCHANGED vm, \A u \in Trays : u # t => create'[u] = create[u],
             UNCHANGED frame \/ CallDelete(t, t),
             UNCHANGED row \/ row' = SetProviderData(t, create[t].data),
             ~Early(t) \/ (Finds(row'[t].handle) /\ Exists(t)') \/ vm[t] # "up"
      PROVE  DeletionsAreSafe'
  <2>1. /\ \A u \in Trays : u # t => row'[u] = row[u]
        /\ Exists(t)' <=> Exists(t)
        /\ row[t].handle => row'[t].handle
    <3>1. CASE UNCHANGED row
      BY <3>1 DEF Exists
    <3>2. CASE row' = SetProviderData(t, create[t].data)
      BY <1>2, <3>2, StoringKeepsRow DEF Exists
    <3> QED
      BY <1>9, <3>1, <3>2
  <2>2. Early(t) \/ (vm[t] = "up" => Exists(t) /\ Finds(row[t].handle))
    BY <1>2 DEF Covered, Early
  <2>3. CreatorInv(t)' /\ Covered(t)'
    BY <1>9, <2>1, <2>2 DEF CreatorInv, Covered, Early, Finds, At, InWindow
  <2> QED
    BY <1>1, <1>5, <1>9, <2>1, <2>3, SafeCreation
<1>10. CASE SaveFails(t)
  <2>1. /\ UNCHANGED <<row, vm, frame>> /\ create'[t].pc = "done"
        /\ \A u \in Trays : u # t => create'[u] = create[u]
    BY <1>3, <1>4, <1>10 DEF SaveFails
  <2>2. vm[t] # "up"
    BY <1>2, <1>10 DEF SaveFails, CreatorInv, At
  <2> QED
    BY <1>9, <2>1, <2>2 DEF Early, At, InWindow
<1>11. CASE PersistData(t)
  <2>1. /\ create'[t].pc \in {"wait", "done"}
        /\ \A u \in Trays : u # t => create'[u] = create[u]
        /\ UNCHANGED frame \/ CallDelete(t, t)
    BY <1>3, <1>4, <1>6, <1>11 DEF PersistData, AfterPersist
  <2>2. Exists(t) /\ (vm[t] = "up" => Finds(create[t].data))
    BY <1>2, <1>11 DEF PersistData, CreatorInv, At, InWindow
  <2>3. Exists(t)' /\ (create[t].data => row'[t].handle)
    BY <1>2, <2>2, <1>11, StoringKeepsRow DEF PersistData, Exists
  <2> QED
    BY <1>9, <1>11, <2>1, <2>2, <2>3 DEF PersistData, Early, At, InWindow, Finds
<1>12. CASE PersistFails(t)
  <2>1. /\ create'[t].pc \in {"wait", "done"} /\ UNCHANGED <<row, vm>>
        /\ \A u \in Trays : u # t => create'[u] = create[u]
        /\ UNCHANGED frame \/ CallDelete(t, t)
    BY <1>3, <1>4, <1>6, <1>12 DEF PersistFails, AfterPersist
  <2>2. vm[t] # "up" \/ (Finds(row'[t].handle) /\ Exists(t)')
    BY <1>2, <2>1, <1>12
       DEF PersistFails, Tolerable, CreatorInv, At, InWindow, Finds, Exists
  <2> QED
    BY <1>9, <2>1, <2>2 DEF Early, At, InWindow
<1>13. CASE WaitDeploy(t) \/ WaitDeployFails(t)
  <2>1. /\ UNCHANGED <<row, vm, frame>> /\ create'[t].pc = "merge"
        /\ \A u \in Trays : u # t => create'[u] = create[u]
    BY <1>3, <1>4, <1>13 DEF WaitDeploy, WaitDeployFails
  <2>2. ~Early(t)
    BY <1>13 DEF WaitDeploy, WaitDeployFails, Early, At, InWindow
  <2> QED
    BY <1>9, <2>1, <2>2 DEF Early, At, InWindow
<1>14. CASE MergeData(t) \/ MergeFails(t)
  <2>1. /\ create'[t].pc = "done" /\ UNCHANGED vm
        /\ \A u \in Trays : u # t => create'[u] = create[u]
        /\ UNCHANGED frame \/ CallDelete(t, t)
        /\ UNCHANGED row \/ row' = SetProviderData(t, create[t].data)
    BY <1>6, <1>14 DEF MergeData, MergeFails
  <2>2. ~Early(t)
    BY <1>14 DEF MergeData, MergeFails, Early, At, InWindow
  <2> QED
    BY <1>9, <2>1, <2>2 DEF Early, At, InWindow
<1>15. CASE CreatorDies(t)
  <2>1. /\ UNCHANGED <<row, vm, frame>> /\ create'[t].pc = "done"
        /\ \A u \in Trays : u # t => create'[u] = create[u]
    BY <1>3, <1>4, <1>15 DEF CreatorDies
  <2>2. ~Early(t) \/ vm[t] # "up" \/ (Finds(row'[t].handle) /\ Exists(t)')
    BY <1>2, <2>1, <1>15
       DEF CreatorDies, Tolerable, CreatorInv, Early, At, InWindow, Finds, Exists
  <2> QED
    BY <1>9, <2>1, <2>2 DEF Early, At, InWindow
<1> QED
  BY <1>7, <1>8, <1>10, <1>11, <1>12, <1>13, <1>14, <1>15
     DEF CreateTray, CreateTrayFails

\* Nothing exists at first.
LEMMA SafeInit ==
    Init => DeletionsAreSafe
<1> SUFFICES ASSUME Init PROVE DeletionsAreSafe
  OBVIOUS
<1>1. \A a \in Actors : frame[a] = NoCall
  BY DEF Init
<1>2. NoCall.pc = "idle" /\ NoCall.tray = NoTray
  BY DEF NoCall, ACall
<1>3. ASSUME NEW t \in Trays PROVE CreatorInv(t) /\ Covered(t)
  <2>1. /\ row[t] = NoRow /\ vm[t] = "none" /\ agent[t] = "off"
        /\ create[t].pc = "idle" /\ sent[t] = 0
    BY DEF Init, ACreation
  <2>2. ~row[t].old
    BY <2>1 DEF NoRow, ARow
  <2>3. Untouched(t)
    BY <1>1, <1>2, <2>1, <2>2, ConstantsAssumption DEF Init, Untouched
  <2> QED
    BY <2>1, <2>3 DEF CreatorInv, Covered, At, InWindow
<1>4. \A a \in Actors : CallInv(a)
  BY <1>1, <1>2 DEF CallInv, Calling
<1> QED
  BY <1>3, <1>4 DEF DeletionsAreSafe, NoOrphanVM

\* DeletionsAreSafe is inductive, given the types.
LEMMA SafeStep ==
    ASSUME TypeOK, DeletionsAreSafe, ~WindowRaces, [Next]_vars
    PROVE  DeletionsAreSafe'
<1>1. CASE Next
  BY <1>1, SafeCreateTray, SafeTray, SafeHandler, SafeStale, SafeMark, SafeClean,
     SafeRemove DEF Next, DeleteTray
<1>2. CASE UNCHANGED vars
  BY <1>2 DEF vars, DeletionsAreSafe, NoOrphanVM, CreatorInv, CallInv, Covered,
     Untouched, At, InWindow, Exists, Finds, Calling
<1> QED
  BY <1>1, <1>2

\* When nothing strikes inside the deploy window, every interleaving of
\* CreateTray, the handlers, the poller and the stale loops, with any number of
\* crashes and failed calls, keeps every deletion harmless.
THEOREM SafeDeletions ==
    ASSUME ~WindowRaces
    PROVE  Spec => []DeletionsAreSafe
<1>1. Init => DeletionsAreSafe
  BY SafeInit
<1>2. TypeOK /\ DeletionsAreSafe /\ [Next]_vars => DeletionsAreSafe'
  BY SafeStep
<1> QED
  BY <1>1, <1>2, TypeCorrect, PTL DEF Spec

\* Hence no running machine outside its deploy window lacks a row that finds it:
\* DeleteTray, by whomever it is called, will find it too.
THEOREM NoOrphan ==
    ASSUME ~WindowRaces
    PROVE  Spec => []NoOrphanVM
<1>1. DeletionsAreSafe => NoOrphanVM
  BY DEF DeletionsAreSafe
<1> QED
  BY <1>1, SafeDeletions, PTL

\* No repository call but Save brings a row into being.
LEMMA AbsentStays ==
    ASSUME row \in Rows, NEW t \in Trays, ~Exists(t), NEW u \in Trays,
           \/ \E s \in RowStatus : row' = UpdateStatus(u, s)
           \/ \E d \in BOOLEAN : row' = SetProviderData(u, d)
           \/ row' = Delete(u)
           \/ u # t /\ (row' = Save(u) \/ row' = Aged(u))
    PROVE  ~Exists(t)'
<1>1. row[t] = NoRow
  BY DEF Exists
<1>2. row'[t] = NoRow
  BY <1>1 DEF UpdateStatus, SetProviderData, Delete, Save, Aged, Exists, Rows
<1> QED
  BY <1>2 DEF Exists

\* A removed row never comes back: UpdateStatus and SetProviderData are not
\* upserts, and no tray id is saved twice.
THEOREM RemovedRowsStayRemoved == Spec => RemovedForGood
<1>1. TypeOK /\ [Next]_vars =>
        [\A t \in Trays : ~Exists(t) /\ ~At(t, "idle") => ~Exists(t)']_vars
  <2> SUFFICES ASSUME TypeOK, Next, NEW t \in Trays, ~Exists(t), ~At(t, "idle")
               PROVE  ~Exists(t)'
    OBVIOUS
  <2> USE ConstantsAssumption
  <2>0. row \in Rows
    BY DEF TypeOK
  <2>1. CASE UNCHANGED row
    BY <2>1 DEF Exists
  <2>2. ASSUME NEW u \in Trays, CreateTray(u) \/ CreateTrayFails(u)
        PROVE  ~Exists(t)'
    <3>1. create[u].data \in BOOLEAN
      BY DEF TypeOK, Creations, Creation
    <3>2. \/ UNCHANGED row
          \/ row' = SetProviderData(u, create[u].data)
          \/ u # t /\ row' = Save(u)
      BY <2>2 DEF CreateTray, CreateTrayFails, SaveTray, SaveFails, StartDeploy,
         StartDeployFails, PersistData, PersistFails, WaitDeploy,
         WaitDeployFails, MergeData, MergeFails, CreatorDies
    <3> QED
      BY <2>0, <2>1, <3>1, <3>2, AbsentStays
  <2>3. ASSUME NEW u \in Trays, Age(u)
        PROVE  ~Exists(t)'
    <3>1. u # t
      BY <2>3 DEF Age, Exists, NoRow, ARow, RowStatus
    <3> QED
      BY <2>0, <2>3, <3>1, AbsentStays DEF Age
  <2>4. ASSUME NEW u \in Trays,
               \/ Boot(u) \/ VmDies(u) \/ AssignJob(u) \/ EndJob(u)
               \/ HandleJobStarted(u) \/ HandleJobCompleted(u) \/ MessageLost(u)
        PROVE  ~Exists(t)'
    <3>1. UNCHANGED row \/ row' = UpdateStatus(u, "running")
      BY <2>4 DEF Boot, VmDies, AssignJob, EndJob, HandleJobStarted,
         HandleJobCompleted, MessageLost
    <3> QED
      BY <2>0, <2>1, <3>1, AbsentStays DEF RowStatus
  <2>5. ASSUME NEW h \in Handlers, HandlerStep(h)
        PROVE  ~Exists(t)'
    <3>1. CASE Registering(h) \/ Registered(h)
      <4>1. request[h].tray \in Trays
        BY <3>1, RequestUpdates DEF Registering, Registered, Serving, TypeOK
      <4> QED
        BY <2>0, <3>1, <4>1, AbsentStays DEF Registering, Registered, RowStatus
    <3>2. CASE ~(Registering(h) \/ Registered(h))
      BY <2>1, <2>5, <3>2 DEF HandlerStep, ReceiveRegister, ReceiveUnregister,
         GenerateJit, RegisterFails
    <3> QED
      BY <3>1, <3>2
  <2>6. ASSUME NEW r \in Replicas, GetStale(r) \/ DeleteStale(r) \/ ReplicaDies(r)
        PROVE  ~Exists(t)'
    BY <2>1, <2>6 DEF GetStale, DeleteStale, ReplicaDies
  <2>7. ASSUME NEW a \in Actors,
               DeleteTray(a) \/ RepositoryFails(a) \/ CleanFails(a)
        PROVE  ~Exists(t)'
    <3>1. CASE MarkDeleting(a) \/ RemoveRow(a)
      <4>1. frame[a].tray \in Trays
        BY <3>1, CallUpdates DEF MarkDeleting, RemoveRow, Calling, TypeOK
      <4> QED
        BY <2>0, <3>1, <4>1, AbsentStays DEF MarkDeleting, RemoveRow, RowStatus
    <3>2. CASE ~(MarkDeleting(a) \/ RemoveRow(a))
      BY <2>1, <2>7, <3>2 DEF DeleteTray, CleanTray, RepositoryFails, CleanFails
    <3> QED
      BY <3>1, <3>2
  <2> QED
    BY <2>2, <2>3, <2>4, <2>5, <2>6, <2>7 DEF Next
<1> QED
  BY <1>1, TypeCorrect, PTL DEF Spec, RemovedForGood

=============================================================================
