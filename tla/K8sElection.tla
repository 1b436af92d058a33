----------------------------- MODULE K8sElection -----------------------------
(***************************************************************************)
(* K8sElector on the leader election of client-go, inside the server       *)
(* process that runs it: one Lease object, one tray type, several          *)
(* replicas, from Start to the disconnect from the database.               *)
(*                                                                         *)
(* client-go is not in the repository; its part (contend, renew, give up,  *)
(* release) is what the options in k8sElector.go ask of it.  It trusts no  *)
(* clock but its own: a lease is taken over once it has not been seen to   *)
(* change for LeaseDuration.  Tick lets one unit of time pass, and a call  *)
(* takes less than one, except the release, which may take MaxRelease.     *)
(***************************************************************************)
EXTENDS Cadence

CONSTANTS
    Replicas,       \* server processes
    Nobody,         \* the holder of a Lease that is free
    Gone,           \* the identity of a process that is no more
    Cadences,       \* the lease configurations to look at
    MaxStart,       \* bound on the start of the callback's goroutine
    MaxStop,        \* bound on the poller's return after it is cancelled
    MaxRelease,     \* bound on the call that hands the lease back
    MaxFaults       \* bound on lost calls, partitions, shutdowns and crashes

ASSUME K8sAssumption ==
    /\ Nobody # Gone /\ Nobody \notin Replicas /\ Gone \notin Replicas
    /\ Cadences \subseteq [ttl: Nat, renew: Nat]
    /\ MaxStart \in Nat /\ MaxStop \in Nat /\ MaxRelease \in Nat
    /\ MaxFaults \in Nat

VARIABLES
    windows,    \* the windows every replica's elector is built with
    holder,     \* HolderIdentity of the Lease
    seen,       \* per replica, the record it has observed, and for how long
    pc,         \* per replica, where Run and runOnce are
    clock,      \* per replica, time in the present step of its term
    work,       \* per replica, the goroutine of onElected
    handed,     \* replicas that gave the lease back with their poller still up
    main,       \* per replica, where Start is
    cut,        \* replicas that do not reach the API server
    faults      \* faults spent, of MaxFaults

vars == <<windows, holder, seen, pc, clock, work, handed, main, cut, faults>>

\* fresh: the Lease has not been written by another since.
ARecord(by, age, fresh) == [holder |-> by, age |-> age, fresh |-> fresh]
\* live: leaderCtx is not cancelled; since: the time since it was spawned, and,
\* once it runs, since leaderCtx was cancelled.
AWork(stage, live, since) == [stage |-> stage, live |-> live, since |-> since]

Unseen == ARecord(Nobody, 0, FALSE)
NoWork == AWork("none", FALSE, 0)

LeaseDuration == windows.lease
RenewDeadline == windows.deadline
RetryPeriod == windows.retry

Init ==
    /\ windows \in {K8sWindows(c) : c \in Cadences}
    /\ holder = Nobody
    /\ seen = [r \in Replicas |-> Unseen]
    /\ pc = [r \in Replicas |-> "idle"]
    /\ clock = [r \in Replicas |-> 0]
    /\ work = [r \in Replicas |-> NoWork]
    /\ handed = {} /\ cut = {}
    /\ main = [r \in Replicas |-> "serving"]
    /\ faults = 0

At(r, step) == pc[r] = step
Goto(r, step) == pc' = [pc EXCEPT ![r] = step]
Move(r, from, to) == At(r, from) /\ Goto(r, to)
Serving(r) == main[r] = "serving"
Closing(r) == main[r] \in {"draining", "waiting", "disconnecting"}
Spend == faults < MaxFaults /\ faults' = faults + 1
Restarts(r) == clock' = [clock EXCEPT ![r] = 0]

Cancelled(w) ==
    IF w.live THEN AWork(w.stage, FALSE, IF w.stage = "spawned" THEN w.since ELSE 0)
              ELSE w
Cancel(r) == work' = [work EXCEPT ![r] = Cancelled(@)]

----------------------------------------------------------------------------
(* client-go: one attempt to take or renew the Lease.                      *)

\* What r knows once it has read the Lease.
Observed(r) == IF seen[r].fresh THEN seen[r] ELSE ARecord(holder, 0, TRUE)

\* Mutation: another's lease is taken for stale one unit early.
TakeableEarly(r) ==
    \/ Observed(r).holder \in {r, Nobody}
    \/ Observed(r).age >= RenewDeadline

\* The Lease is free, mine, or has not changed for LeaseDuration.
Takeable(r) ==
    \/ Observed(r).holder \in {r, Nobody}
    \/ Observed(r).age >= LeaseDuration

\* Everybody else's record is out of date.
Outdated(q) == ARecord(seen[q].holder, seen[q].age, FALSE)
WrittenBy(r) ==
    seen' = [q \in Replicas |-> IF q = r THEN ARecord(r, 0, TRUE) ELSE Outdated(q)]
Observes(r) == seen' = [seen EXCEPT ![r] = Observed(r)]

\* The record is written and the answer is lost.
UpdateUnanswered(r) ==
    /\ At(r, "contending") \/ (At(r, "leading") /\ clock[r] >= RetryPeriod)
    /\ Takeable(r) /\ r \notin cut /\ Spend
    /\ holder' = r
    /\ seen' = [q \in Replicas |-> Outdated(q)]
    /\ UNCHANGED <<windows, pc, clock, work, handed, main, cut>>

----------------------------------------------------------------------------
(* Run and runOnce.                                                        *)

\* NewLeaderElector refuses its windows: Run returns, and nobody calls it again.
NewElector(r) ==
    /\ At(r, "idle") /\ Serving(r)
    /\ Goto(r, IF Accepted(windows) THEN "contending" ELSE "returned")
    /\ seen' = [seen EXCEPT ![r] = Unseen]
    /\ UNCHANGED <<windows, holder, clock, work, handed, main, cut, faults>>

\* OnStartedLeading is started, in a goroutine of its own.
Acquire(r) ==
    /\ At(r, "contending") /\ Serving(r) /\ r \notin cut
    /\ IF Takeable(r)
         THEN /\ holder' = r /\ WrittenBy(r)
              /\ Goto(r, "leading") /\ Restarts(r)
              /\ work' = [work EXCEPT ![r] = AWork("spawned", TRUE, 0)]
         ELSE Observes(r) /\ UNCHANGED <<holder, pc, clock, work>>
    /\ UNCHANGED <<windows, handed, main, cut, faults>>

\* A leader whose lease was taken meanwhile goes on trying.
Renew(r) ==
    /\ At(r, "leading") /\ Serving(r) /\ r \notin cut
    /\ clock[r] >= RetryPeriod
    /\ IF Takeable(r)
         THEN holder' = r /\ WrittenBy(r) /\ Restarts(r)
         ELSE Observes(r) /\ UNCHANGED <<holder, clock>>
    /\ UNCHANGED <<windows, pc, work, handed, main, cut, faults>>

GiveUp(r) ==
    /\ clock[r] = GivesUpAfter(windows)
    /\ Move(r, "leading", "releasing") /\ Restarts(r)
    /\ UNCHANGED <<windows, holder, seen, work, handed, main, cut, faults>>

\* The parent context is done, and leaderCtx with it.
StepDown(r) ==
    /\ Closing(r)
    /\ Move(r, "leading", "releasing") /\ Restarts(r)
    /\ UNCHANGED <<windows, holder, seen, work, handed, main, cut, faults>>

\* ReleaseOnCancel: before leaderCtx is cancelled, if it is not already.
Release(r) ==
    /\ Move(r, "releasing", "stopping")
    /\ IF holder = r /\ r \notin cut
         THEN /\ holder' = Nobody /\ seen' = [q \in Replicas |-> Outdated(q)]
              /\ handed' = IF work[r].stage = "none" THEN handed ELSE handed \cup {r}
         ELSE UNCHANGED <<holder, seen, handed>>
    /\ UNCHANGED <<windows, clock, work, main, cut, faults>>

ReleaseFails(r) ==
    /\ Move(r, "releasing", "stopping") /\ Spend
    /\ UNCHANGED <<windows, holder, seen, clock, work, handed, main, cut>>

\* Mutation: losing the lease does not cancel leaderCtx.
StopUncancelled(r) ==
    /\ Move(r, "stopping", "awaiting")
    /\ UNCHANGED <<windows, holder, seen, clock, work, handed, main, cut, faults>>

\* le.Run returns.
Stop(r) ==
    /\ Move(r, "stopping", "awaiting")
    /\ Cancel(r)
    /\ UNCHANGED <<windows, holder, seen, clock, handed, main, cut, faults>>

\* Mutation: runOnce does not wait for the callback.
LeaveAtOnce(r) ==
    /\ Move(r, "awaiting", "idle")
    /\ UNCHANGED <<windows, holder, seen, clock, work, handed, main, cut, faults>>

\* Mutation: Run does not loop.
LeaveForGood(r) ==
    /\ work[r].stage # "running"
    /\ Move(r, "awaiting", "returned")
    /\ UNCHANGED <<windows, holder, seen, clock, work, handed, main, cut, faults>>

\* runOnce returns: at once if `started` is not closed yet, else after finished.
Leave(r) ==
    /\ work[r].stage # "running"
    /\ Move(r, "awaiting", "idle")
    /\ UNCHANGED <<windows, holder, seen, clock, work, handed, main, cut, faults>>

\* ctx is done: Run returns and the goroutine reports it to the manager.
RunReturns(r) ==
    /\ Closing(r) /\ pc[r] \in {"idle", "contending"}
    /\ Goto(r, "returned")
    /\ UNCHANGED <<windows, holder, seen, clock, work, handed, main, cut, faults>>

\* The goroutine of OnStartedLeading gets to run.  With leaderCtx cancelled the
\* poller fails in its first calls, before it has a session.
PollerStarts(r) ==
    /\ work[r].stage = "spawned"
    /\ work' = [work EXCEPT ![r] = IF @.live THEN AWork("running", TRUE, 0) ELSE NoWork]
    /\ handed' = IF work[r].live THEN handed ELSE handed \ {r}
    /\ UNCHANGED <<windows, holder, seen, pc, clock, main, cut, faults>>

\* Mutation: the poller may return by itself.
PollerReturnsAlone(r) ==
    /\ work[r].stage = "running"
    /\ work' = [work EXCEPT ![r].stage = "none"]
    /\ handed' = handed \ {r}
    /\ UNCHANGED <<windows, holder, seen, pc, clock, main, cut, faults>>

\* runPoller returns once leaderCtx is cancelled; `finished` is closed.
PollerReturns(r) ==
    /\ work[r].stage = "running" /\ ~work[r].live
    /\ work' = [work EXCEPT ![r] = NoWork]
    /\ handed' = handed \ {r}
    /\ UNCHANGED <<windows, holder, seen, pc, clock, main, cut, faults>>

----------------------------------------------------------------------------
(* Start, from the signal to the end of the process.                       *)

GotoMain(r, from, to) == main[r] = from /\ main' = [main EXCEPT ![r] = to]

\* A signal, or an HTTP server that fails: the process context is cancelled.
Shutdown(r) ==
    /\ GotoMain(r, "serving", "draining") /\ Spend
    /\ Cancel(r)
    /\ UNCHANGED <<windows, holder, seen, pc, clock, handed, cut>>

ServersClosed(r) ==
    /\ GotoMain(r, "draining", "waiting")
    /\ UNCHANGED <<windows, holder, seen, pc, clock, work, handed, cut, faults>>

\* Mutation: the process does not wait for its pollers.
PollersIgnored(r) ==
    /\ GotoMain(r, "waiting", "disconnecting")
    /\ UNCHANGED <<windows, holder, seen, pc, clock, work, handed, cut, faults>>

\* Manager.Wait: every elector goroutine has called Done.
PollersStopped(r) ==
    /\ GotoMain(r, "waiting", "disconnecting") /\ At(r, "returned")
    /\ UNCHANGED <<windows, holder, seen, pc, clock, work, handed, cut, faults>>

\* The process ends, and its identity with it; a Lease it holds stays.
Dies(r) ==
    /\ holder' = (IF holder = r THEN Gone ELSE holder)
    /\ Goto(r, "idle")
    /\ work' = [work EXCEPT ![r] = NoWork]
    /\ handed' = handed \ {r}
    /\ UNCHANGED <<windows, seen, clock, cut>>

Disconnect(r) == GotoMain(r, "disconnecting", "down") /\ Dies(r) /\ UNCHANGED faults

Crash(r) ==
    /\ main[r] # "down" /\ main' = [main EXCEPT ![r] = "down"]
    /\ Dies(r) /\ Spend

Start(r) ==
    /\ GotoMain(r, "down", "serving")
    /\ UNCHANGED <<windows, holder, seen, pc, clock, work, handed, cut, faults>>

----------------------------------------------------------------------------
(* The network and time.                                                   *)

Cut(r) ==
    /\ r \notin cut /\ cut' = cut \cup {r} /\ Spend
    /\ UNCHANGED <<windows, holder, seen, pc, clock, work, handed, main>>

Heal(r) ==
    /\ r \in cut /\ cut' = cut \ {r}
    /\ UNCHANGED <<windows, holder, seen, pc, clock, work, handed, main, faults>>

\* What may not be kept waiting for longer.
Punctual(r) ==
    /\ At(r, "leading") => /\ clock[r] < GivesUpAfter(windows) /\ ~Closing(r)
                           /\ ~(r \notin cut /\ clock[r] >= RetryPeriod /\ Takeable(r))
    /\ At(r, "releasing") => clock[r] < MaxRelease
    /\ ~At(r, "stopping")
    /\ work[r].stage = "spawned" => work[r].since < MaxStart
    /\ work[r].stage = "running" /\ ~work[r].live => work[r].since < MaxStop

\* Ages are counted up to the ones that matter.
Older(r) ==
    IF seen[r].age < LeaseDuration /\ seen[r].fresh
      THEN ARecord(seen[r].holder, seen[r].age + 1, TRUE) ELSE seen[r]
Longer(w) ==
    IF w.stage = "spawned" \/ (w.stage = "running" /\ ~w.live)
      THEN AWork(w.stage, w.live, w.since + 1) ELSE w

Tick ==
    /\ \A r \in Replicas : Punctual(r)
    /\ seen' = [r \in Replicas |-> Older(r)]
    /\ clock' = [r \in Replicas |-> IF pc[r] \in {"leading", "releasing"}
                                      THEN clock[r] + 1 ELSE clock[r]]
    /\ work' = [r \in Replicas |-> Longer(work[r])]
    /\ UNCHANGED <<windows, holder, pc, handed, main, cut, faults>>

----------------------------------------------------------------------------
runOnce(r) ==
    \/ NewElector(r) \/ Acquire(r) \/ Renew(r) \/ GiveUp(r) \/ StepDown(r)
    \/ Release(r) \/ Stop(r) \/ Leave(r) \/ PollerStarts(r) \/ PollerReturns(r)

Process(r) ==
    \/ RunReturns(r) \/ ServersClosed(r) \/ PollersStopped(r) \/ Disconnect(r)
    \/ Start(r)

Next ==
    \/ Tick
    \/ \E r \in Replicas :
         \/ runOnce(r) \/ Process(r) \/ Heal(r)
         \/ UpdateUnanswered(r) \/ ReleaseFails(r)
         \/ Shutdown(r) \/ Crash(r) \/ Cut(r)

Spec == Init /\ [][Next]_vars

\* Time passes, goroutines run, partitions heal, a process is restarted.
Fairness ==
    /\ WF_vars(Tick)
    /\ \A r \in Replicas : WF_vars(runOnce(r)) /\ WF_vars(Process(r)) /\ WF_vars(Heal(r))

FairSpec == Spec /\ Fairness

----------------------------------------------------------------------------
(* Properties.                                                             *)

Records == [holder: Replicas \cup {Nobody, Gone}, age: Nat, fresh: BOOLEAN]
Goroutines == [stage: {"none", "spawned", "running"}, live: BOOLEAN, since: Nat]

\* No age, no term and no goroutine is counted beyond its bound.
Bounded(r) ==
    /\ seen[r].age <= LeaseDuration
    /\ At(r, "leading") => clock[r] <= GivesUpAfter(windows)
    /\ At(r, "releasing") => clock[r] <= MaxRelease
    /\ work[r].stage = "none" => ~work[r].live
    /\ work[r].stage = "spawned" => work[r].since <= MaxStart
    /\ work[r].stage = "running" => work[r].since <= MaxStop
    /\ work[r].stage = "running" /\ work[r].live => work[r].since = 0

\* Every variable has its type, and no clock runs beyond its bound.
TypeOK ==
    /\ windows \in {K8sWindows(c) : c \in Cadences}
    /\ holder \in Replicas \cup {Nobody, Gone}
    /\ seen \in [Replicas -> Records]
    /\ pc \in [Replicas -> {"idle", "contending", "leading", "releasing", "stopping",
                            "awaiting", "returned"}]
    /\ clock \in [Replicas -> Nat]
    /\ work \in [Replicas -> Goroutines]
    /\ main \in [Replicas -> {"serving", "draining", "waiting", "disconnecting", "down"}]
    /\ handed \subseteq Replicas /\ cut \subseteq Replicas
    /\ faults \in 0..MaxFaults
    /\ \A r \in Replicas : Bounded(r)

Polls(r) == work[r].stage # "none"

\* The lease outlasts a leader that cannot renew it, until its poller is gone:
\* what "leaseDuration > renewDeadline" is meant to give.
CadenceFits == GivesUpAfter(windows) + MaxRelease + MaxStop < LeaseDuration

\* The callback's goroutine gets to run before a leader can lose its lease by
\* itself: without it, runOnce can be left, and another term begun, with the
\* goroutine of the last one still to come.
StartsInTime == MaxStart < GivesUpAfter(windows)

\* While a replica leads, the Lease names it: nobody takes over from a leader
\* that has neither given up nor been told to stop.
LeaderHoldsLease ==
    CadenceFits => \A r \in Replicas : At(r, "leading") => holder = r

\* "Only the leader for a key runs that tray type's scale set poller", as far
\* as ReleaseOnCancel leaves it true: two pollers overlap only while the earlier
\* one unwinds, after its replica has handed the lease back.
OverlapOnlyAfterHandback ==
    CadenceFits /\ StartsInTime =>
      \A r, q \in Replicas :
         Polls(r) /\ Polls(q) /\ r # q => r \in handed \/ q \in handed

\* "So the same replica never runs two leadership terms for a key
\* concurrently": a replica that contends has no poller left of an earlier term.
OneTermPerReplica ==
    StartsInTime => \A r \in Replicas : At(r, "contending") => ~Polls(r)

\* The replica whose poller runs under a lease it has not handed back.
Authority ==
    IF \E r \in Replicas : Polls(r) /\ r \notin handed
      THEN CHOOSE r \in Replicas : Polls(r) /\ r \notin handed
      ELSE Nobody

Promise == INSTANCE Leadership WITH leader <- Authority

\* Under those two conditions the Kubernetes elector keeps the promise that the
\* MongoDB one keeps, but for pollers that unwind after a handback: authority
\* passes from one replica to another only by way of nobody.
LeadsAsPromised ==
    [][CadenceFits /\ StartsInTime => Promise!Next \/ UNCHANGED Authority]_vars

\* The database is disconnected only after the poller has stopped, although
\* runOnce does not wait for a callback that has not started yet.
DatabaseOutlivesPoller ==
    \A r \in Replicas : main[r] = "disconnecting" => work[r].stage # "running"

Led == \E r \in Replicas : work[r].stage = "running" /\ work[r].live

\* With windows client-go accepts, the tray type is polled again and again,
\* after partitions, crashes, shutdowns and lost answers.
AlwaysLedAgain == Accepted(windows) => []<>Led
=============================================================================
