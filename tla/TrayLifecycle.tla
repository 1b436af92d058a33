--------------------------- MODULE TrayLifecycle ---------------------------
(***************************************************************************)
(* The life of a tray: a row of the "trays" collection and the machine a   *)
(* provider runs for it, from CreateTray to DeleteTray.                    *)
(*                                                                         *)
(* Five kinds of actors work on one row with no lock between them, only    *)
(* MongoDB's single-document atomicity: CreateTray (a goroutine per tray,  *)
(* named here by its tray), the HTTP handlers of the agent plane, the      *)
(* leader's scale set poller, and the stale loop each replica runs.  Every *)
(* repository or provider call is one atomic step; an actor may be         *)
(* preempted, or lost, between any two of them.                            *)
(***************************************************************************)
EXTENDS Naturals

CONSTANTS
    Trays,          \* tray ids; NewTray never repeats one
    Handlers,       \* goroutines serving agent requests, over all replicas
    Replicas,       \* server processes, each with its stale loop
    Poller,         \* the goroutine that handles scale set messages (the leader's)
    NoTray,         \* what an idle actor works on
    StaleStatuses,  \* statuses that have a stale threshold
    NamedByTray,    \* TRUE: the provider finds the machine by tray id (docker);
                    \* FALSE: it needs the row's provider data (gce, nomad)
    WindowRaces,    \* TRUE: deletions may strike in the deploy window, before
                    \* the row names the machine, and so may crashes and write
                    \* errors when there is a machine it does not name
    MaxFaults       \* bound on crashes, failed calls and client retries

RowStatus == {"creating", "registering", "registered", "running", "deleting"}

ASSUME ConstantsAssumption ==
    /\ Trays \cap Handlers = {} /\ Trays \cap Replicas = {}
    /\ Handlers \cap Replicas = {}
    /\ Poller \notin Trays \cup Handlers \cup Replicas
    /\ NoTray \notin Trays
    /\ StaleStatuses \subseteq RowStatus \ {"running"}
    /\ NamedByTray \in BOOLEAN /\ WindowRaces \in BOOLEAN
    /\ MaxFaults \in Nat

VARIABLES
    row,      \* the repository: the row of each tray, or NoRow
    vm,       \* the provider's machine of each tray
    agent,    \* how far the agent on that machine has got
    create,   \* the CreateTray call that owns the tray
    frame,    \* per actor, the DeleteTray call it is in
    request,  \* per handler, the register request it serves
    stale,    \* per replica, the rows its stale loop has listed
    sent,     \* scale set messages about the tray: 1 JobStarted, 2 JobCompleted too
    seen,     \* how many of them the poller has taken
    faults    \* faults spent, of MaxFaults

vars == <<row, vm, agent, create, frame, request, stale, sent, seen, faults>>

Actors == Trays \cup Handlers \cup Replicas \cup {Poller}

ARow(status, handle, old) == [status |-> status, handle |-> handle, old |-> old]
ACreation(pc, data, failed) == [pc |-> pc, data |-> data, failed |-> failed]
ACall(pc, t, handle) == [pc |-> pc, tray |-> t, handle |-> handle]
ARequest(pc, t) == [pc |-> pc, tray |-> t]

NoRow == ARow("absent", FALSE, FALSE)
NoCall == ACall("idle", NoTray, FALSE)
NoRequest == ARequest("idle", NoTray)

\* A row: its status, whether its provider data names the machine, and whether
\* statusChanged lies further back than its status's threshold.
Row == [status: RowStatus, handle: BOOLEAN, old: BOOLEAN]
Creation == [pc: {"idle", "start", "persist", "wait", "merge", "done"},
             data: BOOLEAN, failed: BOOLEAN]
Call == [pc: {"mark", "clean", "remove"}, tray: Trays, handle: BOOLEAN]
Request == [pc: {"registering", "jit", "registered"}, tray: Trays]

Rows == [Trays -> Row \cup {NoRow}]
Creations == [Trays -> Creation]
Calls == [Actors -> Call \cup {NoCall}]
Requests == [Handlers -> Request \cup {NoRequest}]
AgentStates == {"off", "booted", "registering", "serving", "leaving"}

Init ==
    /\ row = [t \in Trays |-> NoRow]
    /\ vm = [t \in Trays |-> "none"]
    /\ agent = [t \in Trays |-> "off"]
    /\ create = [t \in Trays |-> ACreation("idle", FALSE, FALSE)]
    /\ frame = [a \in Actors |-> NoCall]
    /\ request = [h \in Handlers |-> NoRequest]
    /\ stale = [r \in Replicas |-> {}]
    /\ sent = [t \in Trays |-> 0]
    /\ seen = [t \in Trays |-> 0]
    /\ faults = 0

----------------------------------------------------------------------------
(* The repository.  Each operator is the collection after one call.        *)

Exists(t) == row[t] # NoRow

Save(t) == [row EXCEPT ![t] = ARow("creating", FALSE, FALSE)]

\* Mutation: the update is an upsert.
UpsertStatus(t, s) ==
    [row EXCEPT ![t] = ARow(s, row[t].handle, FALSE)]

\* FindOneAndUpdate by id alone: no status is refused, a missing row is not
\* created, statusChanged starts again.
UpdateStatus(t, s) ==
    IF Exists(t) THEN [row EXCEPT ![t] = ARow(s, row[t].handle, FALSE)] ELSE row

\* Mutation: the write is an upsert.
UpsertProviderData(t, data) ==
    [row EXCEPT ![t] = ARow(row[t].status, row[t].handle \/ data, row[t].old)]

SetProviderData(t, data) ==
    IF Exists(t)
      THEN [row EXCEPT ![t] = ARow(row[t].status, row[t].handle \/ data, row[t].old)]
      ELSE row

Delete(t) == [row EXCEPT ![t] = NoRow]

\* Mutations: a status GetStale forgets.
StaleRowsButDeleting ==
    {t \in Trays : row[t].status \in StaleStatuses \ {"deleting"} /\ row[t].old}
StaleRowsButRegistered ==
    {t \in Trays : row[t].status \in StaleStatuses \ {"registered"} /\ row[t].old}

StaleRows == {t \in Trays : row[t].status \in StaleStatuses /\ row[t].old}

Aged(t) == [row EXCEPT ![t] = ARow(row[t].status, row[t].handle, TRUE)]

----------------------------------------------------------------------------
(* Faults and timing.                                                      *)

Spend == faults < MaxFaults /\ faults' = faults + 1

\* A handler's calls run under the request's context: they also fail, at no
\* cost, once the machine that holds the connection is gone.
MayFail(a, t) ==
    \/ Spend
    \/ a \in Handlers /\ vm[t] = "gone" /\ UNCHANGED faults

At(t, pc) == create[t].pc = pc

\* From the row's insertion until SetProviderData has recorded the machine.
InWindow(t) == create[t].pc \in {"start", "persist"}

\* The agent cannot boot, and no threshold can pass, before the window closes.
Prompt(t) == WindowRaces \/ ~InWindow(t)

\* The creator's memory alone finds the machine, and may be lost with it.
Tolerable(t) == WindowRaces \/ ~(At(t, "persist") /\ vm[t] = "up" /\ ~NamedByTray)

\* Time passes: the row has kept its status for that status's threshold.
Age(t) ==
    /\ row[t].status \in StaleStatuses /\ ~row[t].old
    /\ Prompt(t)
    /\ row' = Aged(t)
    /\ UNCHANGED <<vm, agent, create, frame, request, stale, sent, seen, faults>>

----------------------------------------------------------------------------
(* DeleteTray, run by any actor as a call of its own.                      *)

Free(a) == frame[a].pc = "idle"
Calling(a, pc) == frame[a].pc = pc
Enter(a, pc, t, handle) == frame' = [frame EXCEPT ![a] = ACall(pc, t, handle)]
CallDelete(a, t) == Enter(a, "mark", t, FALSE)
Return(a) == frame' = [frame EXCEPT ![a] = NoCall]

Finds(handle) == handle \/ NamedByTray
Kill(t) == /\ vm' = [vm EXCEPT ![t] = "gone"]
           /\ agent' = [agent EXCEPT ![t] = "off"]

\* Mutation: a row that is deleting already is somebody else's to clean.
MarkDeletingOnce(a) ==
    LET t == frame[a].tray IN
    /\ Calling(a, "mark")
    /\ row' = UpdateStatus(t, "deleting")
    /\ IF Exists(t) /\ row[t].status # "deleting"
         THEN Enter(a, "clean", t, row[t].handle)
         ELSE Return(a)
    /\ UNCHANGED <<vm, agent, create, request, stale, sent, seen, faults>>

\* Mutation: the row DeleteTray goes on with lacks its provider data.
MarkDeletingBlind(a) ==
    LET t == frame[a].tray IN
    /\ Calling(a, "mark")
    /\ row' = UpdateStatus(t, "deleting")
    /\ IF Exists(t) THEN Enter(a, "clean", t, FALSE) ELSE Return(a)
    /\ UNCHANGED <<vm, agent, create, request, stale, sent, seen, faults>>

\* UpdateStatus(Deleting) returns the row as it is after the update: that
\* snapshot, not a later row, is what CleanTray is given.
MarkDeleting(a) ==
    LET t == frame[a].tray IN
    /\ Calling(a, "mark")
    /\ row' = UpdateStatus(t, "deleting")
    /\ IF Exists(t)
         THEN Enter(a, "clean", t, row[t].handle)
         ELSE Return(a)
    /\ UNCHANGED <<vm, agent, create, request, stale, sent, seen, faults>>

\* CleanTray: without a handle there is nothing to delete and that is success;
\* so is a machine the provider no longer knows.
CleanTray(a) ==
    LET t == frame[a].tray IN
    /\ Calling(a, "clean")
    /\ IF Finds(frame[a].handle) /\ vm[t] = "up"
         THEN Kill(t) ELSE UNCHANGED <<vm, agent>>
    /\ Enter(a, "remove", t, frame[a].handle)
    /\ UNCHANGED <<row, create, request, stale, sent, seen, faults>>

RemoveRow(a) ==
    /\ Calling(a, "remove")
    /\ row' = Delete(frame[a].tray)
    /\ Return(a)
    /\ UNCHANGED <<vm, agent, create, request, stale, sent, seen, faults>>

\* A repository call fails, and DeleteTray returns the error; or the actor is
\* lost (crash, leadership lost, cancelled context) before the call.
RepositoryFails(a) ==
    /\ Calling(a, "mark") \/ Calling(a, "remove")
    /\ MayFail(a, frame[a].tray)
    /\ Return(a)
    /\ UNCHANGED <<row, vm, agent, create, request, stale, sent, seen>>

\* Mutation: the row is removed although the cleanup failed.
CleanFailsAndRemoves(a) ==
    LET t == frame[a].tray IN
    /\ Calling(a, "clean")
    /\ MayFail(a, t)
    /\ Enter(a, "remove", t, frame[a].handle)
    /\ UNCHANGED <<row, vm, agent, create, request, stale, sent, seen>>

\* GetProviderForTray or CleanTray fails, or the actor is lost, before or after
\* the provider has deleted the machine; the row is left as it is.
CleanFails(a) ==
    LET t == frame[a].tray IN
    /\ Calling(a, "clean")
    /\ MayFail(a, t)
    /\ \/ UNCHANGED <<vm, agent>>
       \/ Finds(frame[a].handle) /\ vm[t] = "up" /\ Kill(t)
    /\ Return(a)
    /\ UNCHANGED <<row, create, request, stale, sent, seen>>

DeleteTray(a) == MarkDeleting(a) \/ CleanTray(a) \/ RemoveRow(a)

----------------------------------------------------------------------------
(* CreateTray.                                                             *)

Becomes(t, pc, data, failed) ==
    create' = [create EXCEPT ![t] = ACreation(pc, data, failed)]
Goto(t, pc) == Becomes(t, pc, create[t].data, create[t].failed)

\* How a CreateTray call ends: with DeleteTray of its own tray, or not.
Finish(t, mustDelete) ==
    /\ Goto(t, "done")
    /\ IF mustDelete THEN CallDelete(t, t) ELSE UNCHANGED frame

SaveTray(t) ==
    /\ At(t, "idle")
    /\ row' = Save(t)
    /\ Goto(t, "start")
    /\ UNCHANGED <<vm, agent, frame, request, stale, sent, seen, faults>>

SaveFails(t) ==
    /\ At(t, "idle") /\ Spend
    /\ Goto(t, "done")
    /\ UNCHANGED <<row, vm, agent, frame, request, stale, sent, seen>>

\* The provider accepts the request; tray.ProviderData holds what finds the
\* machine again, unless the tray id does.
StartDeploy(t) ==
    /\ At(t, "start")
    /\ vm' = [vm EXCEPT ![t] = "up"]
    /\ Becomes(t, "persist", ~NamedByTray, FALSE)
    /\ UNCHANGED <<row, agent, frame, request, stale, sent, seen, faults>>

\* StartDeploy errs: before it staged anything, after staging but before the
\* provider accepted, or after it accepted (the response was lost).
StartDeployFails(t) ==
    /\ At(t, "start") /\ Spend
    /\ \E accepted, staged \in BOOLEAN :
         /\ accepted => staged \/ NamedByTray
         /\ staged => ~NamedByTray
         /\ vm' = [vm EXCEPT ![t] = IF accepted THEN "up" ELSE vm[t]]
         /\ Becomes(t, "persist", staged, TRUE)
    /\ UNCHANGED <<row, agent, frame, request, stale, sent, seen>>

\* The first SetProviderData; after a failed StartDeploy the tray is deleted,
\* whether or not the write succeeded.
AfterPersist(t) ==
    IF create[t].failed THEN Finish(t, TRUE) ELSE Goto(t, "wait") /\ UNCHANGED frame

PersistData(t) ==
    /\ At(t, "persist")
    /\ row' = SetProviderData(t, create[t].data)
    /\ AfterPersist(t)
    /\ UNCHANGED <<vm, agent, request, stale, sent, seen, faults>>

\* The error of that write is logged and nothing more.
PersistFails(t) ==
    /\ At(t, "persist") /\ Tolerable(t) /\ Spend
    /\ AfterPersist(t)
    /\ UNCHANGED <<row, vm, agent, request, stale, sent, seen>>

WaitDeploy(t) ==
    /\ At(t, "wait")
    /\ Goto(t, "merge")
    /\ UNCHANGED <<row, vm, agent, frame, request, stale, sent, seen, faults>>

WaitDeployFails(t) ==
    /\ At(t, "wait") /\ Spend
    /\ Becomes(t, "merge", create[t].data, TRUE)
    /\ UNCHANGED <<row, vm, agent, frame, request, stale, sent, seen>>

\* The second SetProviderData returns the row: a row found deleting, or a
\* failed wait, ends in DeleteTray; a row already gone does not.
MergeData(t) ==
    /\ At(t, "merge")
    /\ row' = SetProviderData(t, create[t].data)
    /\ Finish(t, create[t].failed \/ row[t].status = "deleting")
    /\ UNCHANGED <<vm, agent, request, stale, sent, seen, faults>>

MergeFails(t) ==
    /\ At(t, "merge") /\ Spend
    /\ Finish(t, create[t].failed)
    /\ UNCHANGED <<row, vm, agent, request, stale, sent, seen>>

\* The replica running CreateTray crashes, or its context is cancelled.
CreatorDies(t) ==
    /\ create[t].pc \in {"start", "persist", "wait", "merge"}
    /\ Tolerable(t) /\ Spend
    /\ Goto(t, "done")
    /\ UNCHANGED <<row, vm, agent, frame, request, stale, sent, seen>>

CreateTray(t) ==
    \/ SaveTray(t) \/ StartDeploy(t) \/ PersistData(t)
    \/ WaitDeploy(t) \/ MergeData(t)

CreateTrayFails(t) ==
    \/ SaveFails(t) \/ StartDeployFails(t) \/ PersistFails(t)
    \/ WaitDeployFails(t) \/ MergeFails(t) \/ CreatorDies(t)

----------------------------------------------------------------------------
(* The machine and its agent, and the handlers they call.                  *)

Boot(t) ==
    /\ vm[t] = "up" /\ agent[t] = "off" /\ Prompt(t)
    /\ agent' = [agent EXCEPT ![t] = "booted"]
    /\ UNCHANGED <<row, vm, create, frame, request, stale, sent, seen, faults>>

\* Preempted, crashed or shut down by its agent.
VmDies(t) ==
    /\ vm[t] = "up"
    /\ Kill(t)
    /\ UNCHANGED <<row, create, frame, request, stale, sent, seen, faults>>

HandlerFree(h) == request[h].pc = "idle" /\ Free(h)

\* The agent sends a request in state `from`; sending it again, after a lost
\* response or a 5xx, is a retry and spends a fault.
Sends(t, from, to) ==
    /\ \/ agent[t] = from /\ UNCHANGED faults
       \/ agent[t] = to /\ Spend
    /\ agent' = [agent EXCEPT ![t] = to]

Serving(h, pc) == request[h].pc = pc
Proceed(h, pc) ==
    request' = [request EXCEPT ![h] = ARequest(pc, request[h].tray)]
Reply(h) == request' = [request EXCEPT ![h] = NoRequest]

\* AgentRegister up to authenticateAgent: an unknown tray is answered 404.
ReceiveRegister(h, t) ==
    /\ HandlerFree(h)
    /\ Sends(t, "booted", "registering")
    /\ request' = IF Exists(t)
                    THEN [request EXCEPT ![h] = ARequest("registering", t)]
                    ELSE request
    /\ UNCHANGED <<row, vm, create, frame, stale, sent, seen>>

Registering(h) ==
    LET t == request[h].tray IN
    /\ Serving(h, "registering")
    /\ row' = UpdateStatus(t, "registering")
    /\ IF Exists(t) THEN Proceed(h, "jit") ELSE Reply(h)
    /\ UNCHANGED <<vm, agent, create, frame, stale, sent, seen, faults>>

GenerateJit(h) ==
    /\ Serving(h, "jit")
    /\ Proceed(h, "registered")
    /\ UNCHANGED <<row, vm, agent, create, frame, stale, sent, seen, faults>>

\* The response ends when the handler returns, after the last update; it reaches
\* the agent, which reads all of it, or is lost.
Answer(t) ==
    \/ UNCHANGED agent
    \/ agent[t] = "registering" /\ agent' = [agent EXCEPT ![t] = "serving"]

\* A missing row is only logged.
Registered(h) ==
    LET t == request[h].tray IN
    /\ Serving(h, "registered")
    /\ row' = UpdateStatus(t, "registered")
    /\ Reply(h) /\ Answer(t)
    /\ UNCHANGED <<vm, create, frame, stale, sent, seen, faults>>

\* A 500 (repository, missing type, JIT) or a cancelled request context; once
\* the response is written a failed update is only logged.
RegisterFails(h) ==
    LET t == request[h].tray IN
    /\ ~Serving(h, "idle") /\ MayFail(h, t)
    /\ Reply(h)
    /\ IF Serving(h, "registered") THEN Answer(t) ELSE UNCHANGED agent
    /\ UNCHANGED <<row, vm, create, frame, stale, sent, seen>>

\* AgentUnregister: authenticate, then DeleteTray under the request's context.
ReceiveUnregister(h, t) ==
    /\ HandlerFree(h)
    /\ Sends(t, "serving", "leaving")
    /\ IF Exists(t) THEN CallDelete(h, t) ELSE UNCHANGED frame
    /\ UNCHANGED <<row, vm, create, request, stale, sent, seen>>

HandlerStep(h) ==
    \/ \E t \in Trays : ReceiveRegister(h, t) \/ ReceiveUnregister(h, t)
    \/ Registering(h) \/ GenerateJit(h) \/ Registered(h)
    \/ RegisterFails(h)

----------------------------------------------------------------------------
(* Scale set messages, taken in order by the poller.                       *)

AssignJob(t) ==
    /\ agent[t] = "serving" /\ sent[t] = 0
    /\ sent' = [sent EXCEPT ![t] = 1]
    /\ UNCHANGED <<row, vm, agent, create, frame, request, stale, seen, faults>>

EndJob(t) ==
    /\ sent[t] = 1
    /\ sent' = [sent EXCEPT ![t] = 2]
    /\ UNCHANGED <<row, vm, agent, create, frame, request, stale, seen, faults>>

Take(t) == seen' = [seen EXCEPT ![t] = seen[t] + 1]

HandleJobStarted(t) ==
    /\ Free(Poller) /\ seen[t] = 0 /\ sent[t] > 0
    /\ Take(t)
    /\ row' = UpdateStatus(t, "running")
    /\ UNCHANGED <<vm, agent, create, frame, request, stale, sent, faults>>

HandleJobCompleted(t) ==
    /\ Free(Poller) /\ seen[t] = 1 /\ sent[t] = 2
    /\ Take(t)
    /\ CallDelete(Poller, t)
    /\ UNCHANGED <<row, vm, agent, create, request, stale, sent, faults>>

\* The handler errs or the session is lost after the message was taken.
MessageLost(t) ==
    /\ seen[t] < sent[t] /\ Spend
    /\ Take(t)
    /\ UNCHANGED <<row, vm, agent, create, frame, request, stale, sent>>

----------------------------------------------------------------------------
(* HandleStale, on every replica.                                          *)

GetStale(r) ==
    /\ Free(r) /\ stale[r] = {}
    /\ StaleRows # {}
    /\ stale' = [stale EXCEPT ![r] = StaleRows]
    /\ UNCHANGED <<row, vm, agent, create, frame, request, sent, seen, faults>>

\* The next listed row, deleted by id whatever has become of it.
DeleteStale(r) ==
    /\ Free(r)
    /\ \E t \in stale[r] :
         /\ CallDelete(r, t)
         /\ stale' = [stale EXCEPT ![r] = stale[r] \ {t}]
    /\ UNCHANGED <<row, vm, agent, create, request, sent, seen, faults>>

\* The replica crashes and is restarted: its loop starts again with no list.
ReplicaDies(r) ==
    /\ stale[r] # {} /\ Spend
    /\ Return(r)
    /\ stale' = [stale EXCEPT ![r] = {}]
    /\ UNCHANGED <<row, vm, agent, create, request, sent, seen>>

StaleLoop(r) == GetStale(r) \/ DeleteStale(r) \/ DeleteTray(r)

----------------------------------------------------------------------------
Next ==
    \/ \E t \in Trays : \/ CreateTray(t) \/ CreateTrayFails(t)
                        \/ Age(t) \/ Boot(t) \/ VmDies(t)
                        \/ AssignJob(t) \/ EndJob(t)
                        \/ HandleJobStarted(t) \/ HandleJobCompleted(t)
                        \/ MessageLost(t)
    \/ \E h \in Handlers : HandlerStep(h)
    \/ \E r \in Replicas : GetStale(r) \/ DeleteStale(r) \/ ReplicaDies(r)
    \/ \E a \in Actors : DeleteTray(a) \/ RepositoryFails(a) \/ CleanFails(a)

\* Time passes, a goroutine is scheduled, and a crashed replica's stale loop
\* is started again.  Nothing is assumed of agents, machines or messages.
Fairness ==
    /\ \A t \in Trays : /\ WF_vars(Age(t))
                        /\ WF_vars(CreateTray(t) /\ ~At(t, "idle"))
    /\ \A r \in Replicas : WF_vars(StaleLoop(r))

Spec == Init /\ [][Next]_vars

FairSpec == Spec /\ Fairness

----------------------------------------------------------------------------
(* Properties.                                                             *)

\* Every variable has its type: in particular a row is whole or absent, so no
\* update of a missing row creates half of one.
TypeOK ==
    /\ row \in Rows
    /\ vm \in [Trays -> {"none", "up", "gone"}]
    /\ agent \in [Trays -> AgentStates]
    /\ create \in Creations
    /\ frame \in Calls
    /\ request \in Requests
    /\ stale \in [Replicas -> SUBSET Trays]
    /\ sent \in [Trays -> 0..2]
    /\ seen \in [Trays -> 0..2]
    /\ faults \in 0..MaxFaults

\* Outside the deploy window a running machine has a row that finds it: what
\* CreateTray persists "immediately so a crash during WaitDeploy still leaves
\* enough info for cleanup", and what no deletion, crash, retry or late update
\* may lose.
Covered(t) == vm[t] = "up" /\ ~InWindow(t) => Exists(t) /\ Finds(row[t].handle)

NoOrphanVM == \A t \in Trays : Covered(t)

\* Until its machine is recorded nobody but CreateTray works on a tray.
Untouched(t) ==
    /\ agent[t] = "off" /\ sent[t] = 0 /\ ~row[t].old
    /\ \A a \in Actors : frame[a].tray # t
    /\ \A r \in Replicas : t \notin stale[r]

CreatorInv(t) ==
    /\ At(t, "idle") => row[t] = NoRow
    /\ create[t].pc \in {"idle", "start"} => vm[t] = "none"
    /\ InWindow(t) => Exists(t)
    /\ At(t, "persist") /\ vm[t] = "up" => Finds(create[t].data)
    /\ At(t, "idle") \/ InWindow(t) => Untouched(t)

\* A DeleteTray call knows where its machine is, and gets to the row's removal
\* only once the machine is gone.
CallInv(a) ==
    /\ Calling(a, "clean") /\ vm[frame[a].tray] = "up" => Finds(frame[a].handle)
    /\ Calling(a, "remove") => vm[frame[a].tray] # "up"

\* The inductive strengthening of NoOrphanVM, when nothing strikes inside the
\* deploy window: it also says why each deletion in progress is harmless.
DeletionsAreSafe ==
    /\ \A t \in Trays : CreatorInv(t)
    /\ \A a \in Actors : CallInv(a)
    /\ NoOrphanVM

\* A row that was removed never comes back: a register request or a message that
\* is late finds nothing to update.
RemovedForGood ==
    [][\A t \in Trays : ~Exists(t) /\ ~At(t, "idle") => ~Exists(t)']_vars

\* Once a machine is deployed it is some day gone or its tray runs a job: no
\* crash, failed cleanup or lost message leaves a machine that nothing will
\* ever delete.
EveryVMReclaimed ==
    \A t \in Trays :
        (vm[t] = "up" /\ ~InWindow(t))
            ~> (vm[t] = "gone" \/ row[t].status = "running")

\* A tray whose last message the poller has taken, and which is no longer
\* marked running, loses its row for good, whatever late register requests
\* and failed cleanups do to its status meanwhile.
CompletedTrayRemoved ==
    \A t \in Trays :
        (seen[t] = 2 /\ row[t].status # "running") ~> ~Exists(t)

\* A row in any state but running is some day gone or running: none is stuck.
EveryRowSettles ==
    \A t \in Trays : Exists(t) ~> (~Exists(t) \/ row[t].status = "running")

\* trayManager.go and config.go say "running trays are never stale": a stale
\* loop never takes a running row for deletion.
RunningNeverStale ==
    [][\A r \in Replicas :
          MarkDeleting(r) => row[frame[r].tray].status # "running"]_vars

============================================================================
