--------------------------- MODULE ScaleSetPoller ---------------------------
(***************************************************************************)
(* The scale set poller of one tray type, on every replica that may lead   *)
(* it: runPoller, Poller.Run and the scaling a message sets off, from      *)
(* CountTrays through createTraysParallel to the CreateTray goroutines.    *)
(*                                                                         *)
(* Leadership is left open: terms of two replicas may overlap, as they do  *)
(* when a lease is lost while its poller still runs.  What then keeps two  *)
(* pollers apart is GitHub's message session, one per scale set.           *)
(* TrayLifecycle has what becomes of one tray; here a tray is counted.     *)
(***************************************************************************)
EXTENDS Integers, FiniteSets

CONSTANTS
    Trays,          \* rows the collection has room for; an id that is gone is
                    \* used again here, for a fresh one
    Pollers,        \* replicas, each with the poller of the tray type
    Nobody,         \* the owner of no session, the creator of no tray
    MaxTrays,       \* TrayType.MaxTrays
    MaxParallel,    \* TrayType.MaxParallelCreation
    MaxDemand,      \* bound on the runners GitHub asks for
    MaxTries,       \* CreateSession's attempts on a conflict
    MaxFaults       \* bound on failures, lost terms and rows taken away

ASSUME ScaleAssumption ==
    /\ IsFiniteSet(Trays) /\ Nobody \notin Pollers
    /\ MaxTrays \in Nat /\ MaxParallel \in Nat \ {0} /\ MaxTries \in Nat \ {0}
    /\ MaxDemand \in Nat /\ MaxFaults \in Nat

VARIABLES
    row,        \* the trays collection, of this tray type
    job,        \* per row, the CreateTray goroutine that works on it
    poller,     \* per replica, where its poller is
    cancelled,  \* per replica, whether leaderCtx is cancelled
    scaleSet,   \* whether GitHub has the scale set
    cached,     \* per replica, whether its client has resolved it
    session,    \* the owner of GitHub's message session
    demand,     \* TotalAssignedJobs, what the next message asks for
    revived,    \* deleting rows that a late status update has made active
    faults      \* faults spent, of MaxFaults

vars == <<row, job, poller, cancelled, scaleSet, cached, session, demand,
          revived, faults>>

AJob(owner, step) == [owner |-> owner, step |-> step]
APoller(pc, tries, want, left, made) ==
    [pc |-> pc, tries |-> tries, want |-> want, left |-> left, made |-> made]

NoJob == AJob(Nobody, "none")
Idle(pc) == APoller(pc, 0, 0, 0, FALSE)

\* tries: CreateSession attempts; want: the desired count being handled; left:
\* trays not yet started; made: whether one creation of the batch succeeded.
Poller == [pc: {"down", "ensure", "create", "session", "listening", "counting",
                "creating", "recount", "closing", "backoff"},
           tries: 0..MaxTries, want: 0..MaxDemand, left: 0..MaxTrays,
           made: BOOLEAN]

Job == [owner: Pollers \cup {Nobody},
        step: {"none", "saving", "deploying", "deleting"}]

Init ==
    /\ row = [t \in Trays |-> "none"]
    /\ job = [t \in Trays |-> NoJob]
    /\ poller = [p \in Pollers |-> Idle("down")]
    /\ cancelled = [p \in Pollers |-> FALSE]
    /\ scaleSet = FALSE
    /\ cached = [p \in Pollers |-> FALSE]
    /\ session = Nobody
    /\ demand = 0
    /\ revived = 0 /\ faults = 0

world == <<scaleSet, session, demand, revived>>

Least(m, n) == IF m < n THEN m ELSE n

At(p, pc) == poller[p].pc = pc
Goto(p, pc) == poller' = [poller EXCEPT ![p] = Idle(pc)]
Spend == faults < MaxFaults /\ faults' = faults + 1

\* A call of p fails: a fault, or at no cost once leaderCtx is cancelled.
Fails(p) == Spend \/ (cancelled[p] /\ UNCHANGED faults)

----------------------------------------------------------------------------
(* The repository, as CountActive sees it.                                 *)

\* CountActive: every status but deleting.
ActiveRows == {t \in Trays : row[t] = "active"}
CountTrays == Cardinality(ActiveRows)

\* A tray is marked deleting: unregistered, completed or stale, or by the
\* CreateTray that could not deploy it.
MarkDeleting(t) ==
    /\ row[t] = "active" /\ Spend
    /\ row' = [row EXCEPT ![t] = "deleting"]
    /\ UNCHANGED <<job, poller, cancelled, cached, world>>

RemoveRow(t) ==
    /\ row[t] = "deleting"
    /\ row' = [row EXCEPT ![t] = "none"]
    /\ UNCHANGED <<job, poller, cancelled, cached, world, faults>>

\* A register request or job message that is late: UpdateStatus refuses nothing.
Revive(t) ==
    /\ row[t] = "deleting" /\ Spend
    /\ row' = [row EXCEPT ![t] = "active"]
    /\ revived' = revived + 1
    /\ UNCHANGED <<job, poller, cancelled, cached, scaleSet, session, demand>>

----------------------------------------------------------------------------
(* CreateTray, a goroutine of createTraysParallel.                         *)

Owner(t) == job[t].owner
Running(p) == {t \in Trays : Owner(t) = p}
Doing(t, step) == job[t].step = step
Goes(t, step) == job' = [job EXCEPT ![t] = AJob(Owner(t), step)]
Ends(t) == job' = [job EXCEPT ![t] = NoJob]
Succeeds(t) == poller' = [poller EXCEPT ![Owner(t)].made = TRUE]

Save(t) ==
    /\ Doing(t, "saving") /\ ~cancelled[Owner(t)]
    /\ row' = [row EXCEPT ![t] = "active"]
    /\ Goes(t, "deploying")
    /\ UNCHANGED <<poller, cancelled, cached, world, faults>>

SaveFails(t) ==
    /\ Doing(t, "saving") /\ Fails(Owner(t))
    /\ Ends(t)
    /\ UNCHANGED <<row, poller, cancelled, cached, world>>

\* Success, even if the row has been marked deleting meanwhile: then DeleteTray
\* cleans up after its own deployment.
Deployed(t) ==
    /\ Doing(t, "deploying")
    /\ Succeeds(t)
    /\ IF row[t] = "deleting" THEN Goes(t, "deleting") ELSE Ends(t)
    /\ UNCHANGED <<row, cancelled, cached, world, faults>>

\* DeleteTray follows, unless the row is gone or the context is cancelled.
DeployFails(t) ==
    /\ Doing(t, "deploying") /\ Fails(Owner(t))
    /\ IF row[t] = "none" \/ cancelled[Owner(t)]
         THEN Ends(t) /\ UNCHANGED row
         ELSE Goes(t, "deleting") /\ row' = [row EXCEPT ![t] = "deleting"]
    /\ UNCHANGED <<poller, cancelled, cached, world>>

\* The rest of that DeleteTray, which removes the row whatever its status.
Deleted(t) ==
    /\ Doing(t, "deleting") /\ ~cancelled[Owner(t)]
    /\ row' = [row EXCEPT ![t] = "none"]
    /\ Ends(t)
    /\ UNCHANGED <<poller, cancelled, cached, world, faults>>

DeletionFails(t) ==
    /\ Doing(t, "deleting") /\ Fails(Owner(t))
    /\ Ends(t)
    /\ UNCHANGED <<row, poller, cancelled, cached, world>>

CreateTray(t) ==
    \/ Save(t) \/ SaveFails(t) \/ Deployed(t)
    \/ Deleted(t) \/ DeletionFails(t)

----------------------------------------------------------------------------
(* runPoller and Poller.Run.                                               *)

Elect(p) ==
    /\ At(p, "down")
    /\ Goto(p, "ensure")
    /\ cancelled' = [cancelled EXCEPT ![p] = FALSE]
    /\ UNCHANGED <<row, job, cached, world, faults>>

\* leaderCtx is cancelled: leadership is lost, or the process shuts down.
Cancel(p) ==
    /\ ~At(p, "down") /\ ~cancelled[p] /\ Spend
    /\ cancelled' = [cancelled EXCEPT ![p] = TRUE]
    /\ UNCHANGED <<row, job, poller, cached, world>>

\* Poller.Run returns an error: runPoller returns, or starts it again in 30s.
Exits(p) == Goto(p, IF cancelled[p] THEN "down" ELSE "backoff")

Backoff(p) ==
    /\ At(p, "backoff")
    /\ Goto(p, IF cancelled[p] THEN "down" ELSE "ensure")
    /\ UNCHANGED <<row, job, cancelled, cached, world, faults>>

\* EnsureScaleSet: resolved once per process; else found, or to be created.
EnsureScaleSet(p) ==
    /\ At(p, "ensure")
    /\ Goto(p, IF cached[p] \/ scaleSet THEN "session" ELSE "create")
    /\ cached' = [cached EXCEPT ![p] = cached[p] \/ scaleSet]
    /\ UNCHANGED <<row, job, cancelled, world, faults>>

\* GitHub refuses a second scale set of the same name.
CreateScaleSet(p) ==
    /\ At(p, "create")
    /\ IF scaleSet
         THEN Exits(p) /\ UNCHANGED <<scaleSet, cached>>
         ELSE /\ scaleSet' = TRUE
              /\ cached' = [cached EXCEPT ![p] = TRUE]
              /\ Goto(p, "session")
    /\ UNCHANGED <<row, job, cancelled, session, demand, revived, faults>>

\* CreateSession, with GitHub's answer to it.
CreateSession(p) ==
    /\ At(p, "session") /\ session = Nobody /\ ~cancelled[p]
    /\ session' = p
    /\ Goto(p, "listening")
    /\ UNCHANGED <<row, job, cancelled, cached, scaleSet, demand, revived, faults>>

\* "409 Conflict": again in 30s, or, after MaxTries, an error.
SessionConflict(p) ==
    /\ At(p, "session") /\ session # Nobody
    /\ IF poller[p].tries + 1 < MaxTries /\ ~cancelled[p]
         THEN poller' = [poller EXCEPT ![p].tries = @ + 1]
         ELSE Exits(p)
    /\ UNCHANGED <<row, job, cancelled, cached, world, faults>>

\* Any call of Run before there is a session fails.
StartFails(p) ==
    /\ poller[p].pc \in {"ensure", "create", "session"} /\ Fails(p)
    /\ Exits(p)
    /\ UNCHANGED <<row, job, cancelled, cached, world>>

\* The deferred Close has a context of its own; its failure is only logged.
Close(p) ==
    /\ At(p, "closing")
    /\ \/ session' = (IF session = p THEN Nobody ELSE session) /\ UNCHANGED faults
       \/ UNCHANGED session /\ Spend
    /\ Exits(p)
    /\ UNCHANGED <<row, job, cancelled, cached, scaleSet, demand, revived>>

\* The process dies, its goroutines with it; rows and session stay.
Crash(p) ==
    /\ ~At(p, "down") /\ Spend
    /\ Goto(p, "down")
    /\ job' = [t \in Trays |-> IF Owner(t) = p THEN NoJob ELSE job[t]]
    /\ cached' = [cached EXCEPT ![p] = FALSE]
    /\ UNCHANGED <<row, cancelled, world>>

----------------------------------------------------------------------------
(* The listener loop: one message at a time.                               *)

\* A message, or none for a while: either way the listener goes on with the
\* latest statistics.
GetMessage(p) ==
    /\ At(p, "listening") /\ ~cancelled[p]
    /\ poller' = [poller EXCEPT ![p] = APoller("counting", 0, demand, 0, FALSE)]
    /\ UNCHANGED <<row, job, cancelled, cached, world, faults>>

\* Mutation: MaxTrays bounds the batch, not what is there already.
ToCreateBlind(p) == Least(poller[p].want - CountTrays, MaxTrays)

\* Mutation: the last tray MaxTrays allows is never made.
ToCreateShort(p) == Least(poller[p].want - CountTrays, MaxTrays - 1 - CountTrays)

\* min(desiredCount - activeCount, MaxTrays - activeCount), negative if over.
ToCreate(p) == Least(poller[p].want - CountTrays, MaxTrays - CountTrays)

\* Mutation: a surplus of trays is taken for a batch to create.
ScaleForAnyDemand(p) ==
    /\ At(p, "counting") /\ ~cancelled[p]
    /\ IF ToCreate(p) # 0
         THEN poller' = [poller EXCEPT ![p] =
                           APoller("creating", 0, @.want, ToCreate(p), FALSE)]
         ELSE Goto(p, "recount")
    /\ UNCHANGED <<row, job, cancelled, cached, world, faults>>

\* ScaleForDemand, up to createTrays: counted once, in one query.
ScaleForDemand(p) ==
    /\ At(p, "counting") /\ ~cancelled[p]
    /\ IF ToCreate(p) > 0
         THEN poller' = [poller EXCEPT ![p] =
                           APoller("creating", 0, @.want, ToCreate(p), FALSE)]
         ELSE Goto(p, "recount")
    /\ UNCHANGED <<row, job, cancelled, cached, world, faults>>

\* The loop of createTraysParallel: blocked while the semaphore is taken.
Spawn(p) ==
    /\ At(p, "creating") /\ poller[p].left > 0
    /\ Cardinality(Running(p)) < MaxParallel
    /\ \E t \in Trays :
         /\ row[t] = "none" /\ job[t] = NoJob
         /\ job' = [job EXCEPT ![t] = AJob(p, "saving")]
    /\ poller' = [poller EXCEPT ![p].left = @ - 1]
    /\ UNCHANGED <<row, cancelled, cached, world, faults>>

\* Mutation: the batch ends with the loop, not with its goroutines.
AwaitNobody(p) ==
    /\ At(p, "creating") /\ poller[p].left = 0
    /\ Goto(p, "recount")
    /\ UNCHANGED <<row, job, cancelled, cached, world, faults>>

\* Mutation: a cancelled batch is left to its goroutines.
AwaitUnlessCancelled(p) ==
    /\ At(p, "creating") /\ poller[p].left = 0
    /\ Running(p) = {} \/ cancelled[p]
    /\ Goto(p, IF poller[p].made THEN "recount" ELSE "closing")
    /\ UNCHANGED <<row, job, cancelled, cached, world, faults>>

\* wg.Wait and logCreationResults: an error if every creation failed.
Await(p) ==
    /\ At(p, "creating") /\ poller[p].left = 0 /\ Running(p) = {}
    /\ Goto(p, IF poller[p].made THEN "recount" ELSE "closing")
    /\ UNCHANGED <<row, job, cancelled, cached, world, faults>>

\* CountTrays, the handler's result.
Recount(p) ==
    /\ At(p, "recount") /\ ~cancelled[p]
    /\ Goto(p, "listening")
    /\ UNCHANGED <<row, job, cancelled, cached, world, faults>>

\* Any call of the loop fails, and ends it: the session is closed.
ListenerFails(p) ==
    /\ poller[p].pc \in {"listening", "counting", "recount"} /\ Fails(p)
    /\ Goto(p, "closing")
    /\ UNCHANGED <<row, job, cancelled, cached, world>>

----------------------------------------------------------------------------
(* GitHub.                                                                 *)

\* Jobs are queued and finish.
Demand(d) ==
    /\ demand # d /\ demand' = d
    /\ UNCHANGED <<row, job, poller, cancelled, cached, scaleSet, session,
                   revived, faults>>

InSession(p) ==
    poller[p].pc \in {"listening", "counting", "creating", "recount", "closing"}

\* A session nobody polls any more is dropped after a while.
SessionExpires ==
    /\ session # Nobody /\ ~InSession(session)
    /\ session' = Nobody
    /\ UNCHANGED <<row, job, poller, cancelled, cached, scaleSet, demand,
                   revived, faults>>

----------------------------------------------------------------------------
Run(p) ==
    \/ Elect(p) \/ Backoff(p) \/ EnsureScaleSet(p) \/ CreateScaleSet(p)
    \/ CreateSession(p) \/ SessionConflict(p) \/ StartFails(p) \/ Close(p)
    \/ GetMessage(p) \/ ScaleForDemand(p) \/ Spawn(p) \/ Await(p) \/ Recount(p)
    \/ ListenerFails(p)

Next ==
    \/ \E p \in Pollers : Run(p) \/ Cancel(p) \/ Crash(p)
    \/ \E t \in Trays : \/ CreateTray(t) \/ DeployFails(t)
                        \/ MarkDeleting(t) \/ RemoveRow(t) \/ Revive(t)
    \/ \E d \in 0..MaxDemand : Demand(d)
    \/ SessionExpires

Spec == Init /\ [][Next]_vars

\* Goroutines run, deletions end, a dead session expires, and some replica is
\* elected again.  Demand is not fair, nor is any fault.
Fairness ==
    /\ \A p \in Pollers : WF_vars(Run(p))
    /\ \A t \in Trays : WF_vars(CreateTray(t)) /\ WF_vars(RemoveRow(t))
    /\ WF_vars(SessionExpires)

FairSpec == Spec /\ Fairness

----------------------------------------------------------------------------
(* Properties.                                                             *)

\* Every variable has its type.
TypeOK ==
    /\ row \in [Trays -> {"none", "active", "deleting"}]
    /\ job \in [Trays -> Job]
    /\ poller \in [Pollers -> Poller]
    /\ cancelled \in [Pollers -> BOOLEAN]
    /\ scaleSet \in BOOLEAN
    /\ cached \in [Pollers -> BOOLEAN]
    /\ session \in Pollers \cup {Nobody}
    /\ demand \in 0..MaxDemand
    /\ revived \in 0..MaxFaults /\ faults \in 0..MaxFaults

\* Rows a poller has decided to insert and has not inserted yet.
Planned(p) == poller[p].left + Cardinality({t \in Running(p) : Doing(t, "saving")})

\* MaxTrays bounds the active rows together with those still to be inserted by
\* whoever is scaling, across overlapping terms, crashes and stale sessions;
\* only a late update that revives a deleting row exceeds it, by that row.
CapHolds ==
    \A p \in Pollers : CountTrays + Planned(p) <= MaxTrays + revived

\* Nobody but the owner of the session scales, and no goroutine of createTrays
\* outlives the message it works for.
OneScaler ==
    \A p \in Pollers :
        /\ InSession(p) => session = p
        /\ Running(p) # {} \/ poller[p].left > 0 => At(p, "creating")

\* Demand is met again and again: failed creations, lost terms, conflicts and
\* crashes delay the trays that are missing, and never lose them.
DemandServed == []<>(CountTrays >= Least(demand, MaxTrays))

\* The promise of Fleet is that of the session's owner.
Scaling == INSTANCE Fleet WITH
    promised <- IF session = Nobody THEN 0 ELSE Planned(session)

\* However terms overlap, sessions linger, goroutines fail and rows come and go,
\* the pollers together behave as one Fleet: a batch is decided on one count, by
\* one poller at a time, after the last batch is over.
ScalesAsFleet == Scaling!Spec

\* "maxTrays: max number of VMs of this type": rows, and so machines, of any
\* status.
MachinesWithinMax == Cardinality({t \in Trays : row[t] # "none"}) <= MaxTrays
=============================================================================
