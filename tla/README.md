# Cattery: models, checks and proofs

Cattery keeps a fleet of ephemeral GitHub Actions runners. A server process (several replicas of
it, sharing one MongoDB) follows GitHub runner scale sets, creates a *tray* (a database row and a
machine at a provider) per wanted runner, serves the agents that run on those machines, and deletes
trays that have finished or gone stale. This directory holds TLA+ models of that system, the TLC
configurations that check them, and TLAPS proofs about them. Paths below are relative to the
repository's `src/`.

    tlc -workers 2 -config lifecycle_safety.cfg MCTrayLifecycle.tla    # one run
    tlapm TrayLifecycleProofs.tla                                      # one proof module

`PROJECT.json` lists components, runs, mutants, hazards, findings, theorems, and for every
definition that models code the lines it models.

## 1. The system

| component | state it keeps | operations | what makes it hard |
|---|---|---|---|
| `lib/trayManager` | none of its own | `CreateTray`, `Registering`, `Registered`, `SetJob`, `DeleteTray`, `HandleStale`, `ScaleForDemand`, `CountTrays` | called by five kinds of actors, no lock; calls of repository and provider interleave, each may fail |
| `lib/trays/repositories` | the `trays` collection | `Save`, `UpdateStatus`, `SetProviderData`, `Delete`, `GetById`, `GetStale`, `CountActive` | each call atomic, nothing across calls; updates match by id only |
| `server/handlers` (agent plane, every replica) | none | register, unregister, ping, interrupt | retried by agents; run under the request's context |
| `lib/scaleSetPoller`, `server.go: runPoller` (leader only) | the listener's position, a message history | `Run`, `HandleDesiredRunnerCount`, `HandleJobStarted`, `HandleJobCompleted` | one message at a time; blocks while trays are created; restarted after errors, cancelled with leadership |
| `lib/scaleSetClient` | resolved scale set, message session | `EnsureScaleSet`, `CreateSession`, `Poll`, `GenerateJitRunnerConfig`, `Close` | one session per scale set at GitHub, stale after a crash |
| `lib/election` | the `leases` collection; per replica one term | `LeaseElector.Run`, `lead`; `MongoLeaseStore.Acquire`, `Release`; `K8sElector.Run`, `runOnce` on client-go | clocks, slow calls, crashes, a callback that takes time to return, a lease handed back before it has |
| `lib/restarter` (every replica) | the `restarters` collection | `RequestRestart`, the 30 s poll loop | no lock between replicas; rerun and deletion are two calls |
| `lib/githubClient` | a client cache | `RestartFailedJobs`, `GetWorkflowRunInfo`, `HasClosedPullRequestForBranch` | addressed by organization and repository name |
| `lib/trays/providers` | gce: pending operations | `StartDeploy`, `WaitDeploy`, `CleanTray` | a request may be accepted although the call failed |
| `agent/` | the process on the machine, the listener it runs | `Start`, `watchSignal`, `watchFile`, `watchPing`, `GithubListener.Start`/`Stop`, `doRequest` | retries; four goroutines race for one shutdown cause; killed before it listens for signals |
| `server.go: Start` | the process context, a wait group | start of the pollers, HTTP shutdown, `ssm.Wait`, disconnect | order of the shutdown against goroutines that still run |
| message history | a ring buffer per poller | `Add`, `Recent` | index arithmetic |
| config, metrics, status page, cmd | settings, views | `WithDefaults` | read only; the lease timings have to fit client-go |

How they interact: GitHub's messages reach the poller of the replica that leads the tray type
(`elector.Run` in `server.go:102-117`); the poller calls `TrayManager`, which writes the repository
and calls a provider; the machine boots an agent, which calls the agent plane of any replica, which
calls `TrayManager` again; every replica runs a stale loop and a restart loop over the shared
collections. What makes each part correct:

* tray life: no machine without a row that finds it; no row or machine that stays for ever; no
  removed row that comes back;
* election: at most one poller per tray type, and always one again; never two terms of one replica at
  once;
* scaling: MaxTrays is a bound, demand is met, two pollers do not scale at once;
* agent: whichever watcher is first, the listener is told to stop, the server is told, and the
  machine ends;
* shutdown: the database outlives the pollers;
* restart: a failed run is rerun, a bounded number of times; no request stays.

`PROJECT.json` "hazards" lists, line by line, what in this code a test would hardly reach.

## 2. The modules

| module | what it models | companion modules |
|---|---|---|
| `TrayLifecycle` | a tray from `CreateTray` to `DeleteTray`, with every actor that touches its row | `MCTrayLifecycle`; `TrayLifecycleProofs` |
| `Leadership` | abstract: what election promises | |
| `LeaseElection` | `LeaseElector` on `MongoLeaseStore`, with time | `MCLeaseElection`; `LeaseElectionProofs` |
| `Cadence` | pure: the defaults of the lease timings, the windows `newK8sElector` makes of them, what client-go accepts | in `K8sElectionProofs` |
| `K8sElection` | `K8sElector` inside the server process, on client-go's leader election, from `Start` to the disconnect | extends `Cadence`; `MCK8sElection`; `K8sElectionProofs` |
| `Agent` | the agent's process: main goroutine, watchers, listener, requests; and the row and handlers it reaches | `MCAgent`; `AgentProofs` |
| `Fleet` | abstract: what scaling promises of the trays of one type | `FleetProofs` |
| `ScaleSetPoller` | `runPoller`, `Poller.Run`, `ScaleForDemand`, `createTraysParallel`; implements `Fleet` | `MCScaleSetPoller`; `ScaleSetPollerProofs` |
| `MessageHistory` | pure: the ring buffer of `history.go` and the log it should show | checked from `MCScaleSetPoller`; `MessageHistoryProofs` |
| `Restarter` | `AgentInterrupt` and the restart loops | `MCRestarter`; `RestarterProofs` |

`TrayLifecycle` and `ScaleSetPoller` look at the same code from two sides: the first follows one
row through every step of every actor, the second counts rows and follows the poller.
`ScaleSetPoller` takes leadership as given by nobody (terms of two replicas may overlap at will),
so what it shows does not rest on an elector, and covers the memory elector, under which every
replica leads; `LeaseElection` and `K8sElection` show when terms do not overlap. `Agent` and
`TrayLifecycle` meet at the agent's requests: there the server is taken apart, and the agent is a
machine that boots, registers and unregisters as often as faults allow; here the process is taken
apart, and a handler is a step or two.

Variables and the code:

* `TrayLifecycle`: `row` is the document of a tray (`trays/tray.go:11-27`) reduced to its status,
  whether its provider data finds the machine, and whether `statusChanged` has passed the status's
  threshold. `create` is the goroutine in `CreateTray` with its local `tray.ProviderData`; `frame`
  is an actor's stack frame in `DeleteTray`, with the row as `UpdateStatus` returned it; `request`
  the same for `AgentRegister`; `stale` the slice `HandleStale` loops over. `sent`/`seen` are the
  scale set messages about a tray. One action is one repository or provider call, up to the next.
* `LeaseElection`: `lease` is the document, `call` the Acquire in flight with the age of its clock
  reading, `work` the callback, `timer` the ticker. Time is relative: `Tick` makes calls older and
  leases shorter, so no clock value grows without bound.
* `K8sElection`: `holder` is the Lease's HolderIdentity; `seen` a replica's observed record with the
  time since it last changed (client-go compares no clocks); `pc` where `Run`, `runOnce` and
  `le.Run` are; `work` the goroutine of `OnStartedLeading` with its `leaderCtx`; `main` where
  `Start` is; `windows` what `newK8sElector` computed, the same in every replica. `handed` is a
  history variable: replicas that released while their poller was up.
* `Agent`: `main` is where `Start` is, `cause` is `context.Cause(ctx)`, `armed` the watchers that
  have come to listen, `ping` the ping loop, `listener` the child process and the goroutine that
  waits for it, `late` the register handlers that have answered and not yet recorded `Registered`.
* `ScaleSetPoller`: `poller` is a replica's position in `runPoller`/`Run`, `job` the creation
  goroutine working on a row, `session` GitHub's one message session.
* `Restarter`: `request` is the collection, `loop` each replica's loop with the list it read.

A fault (crash, failed call, lost response, retry) spends one of `MaxFaults`; it is the bound that
keeps state spaces finite and liveness meaningful (faults end). A call that fails *after* taking
effect is a state the models reach by the call followed by a fault of the next step, unless it makes
a difference of its own, as for `RestartUnanswered` and `StartDeployFails`.

## 3. The runs

| run | shows | bounds and why |
|---|---|---|
| `lifecycle_safety` | `NoOrphanVM`, `DeletionsAreSafe`, `RemovedForGood` | one tray (trays share no state), two handlers (a late retry of register beside unregister), two stale loops, the poller, two faults; about 324,000 states under symmetry |
| `lifecycle_liveness` | `EveryVMReclaimed`, `CompletedTrayRemoved`, `EveryRowSettles` | one stale loop, one fault, all four thresholds; no symmetry |
| `lifecycle_window` | finding: an orphan when a deletion strikes inside the deploy window | expected violation |
| `lifecycle_stale_running` | finding: a running row deleted as stale | expected violation |
| `election` | `LeaseOutlivesWork`, `AtMostOnePoller`, `KeepsPromise` (implements `Leadership` with its fairness) | TTL 6, renew 2, latency, stop and skew 1: the tightest cadence that fits has slack 0 or more; two replicas, two faults |
| `election_overrun` | `OneTermAtATime`, `StrayWorkEnds` | TTL 2, latency 2: leases are really lost |
| `k8s` | `LeaderHoldsLease`, `OverlapOnlyAfterHandback`, `OneTermPerReplica`, `DatabaseOutlivesPoller`, `LeadsAsPromised` (implements `Leadership`, step by step), `AlwaysLedAgain` | two replicas, two faults; three cadences (TTL 10/renewal 1, TTL 3/default, TTL 9/renewal 5): one that leaves room for the poller to stop, the default, which leaves none, one client-go refuses; start, stop and release take up to 1; about 230,000 states |
| `agent` | `ListenerStopped`, `CancelledEnds`, `MachineEnds`, `RowGoes` | one agent (agents share nothing), two attempts a request (the first and the last), three faults: enough for a request that fails for good beside another failure; about 199,000 states |
| `scaling` | `CapHolds`, `OneScaler`, `DemandServed`, `ScalesAsFleet` (implements `Fleet`); the assumption `HistoryNewestFirst` | two pollers, MaxTrays 2 of three ids, demand up to 3, parallelism 1, two faults |
| `scaling_machines` | finding: more machines than MaxTrays | parallelism 2, one fault |
| `restart` | `RerunsBounded`, `RequestSettles`, `BareRunsRerun` | one run of any event (requests share only the order in which a loop takes them), two replicas, two interrupts, one fault; `RequestSettles` if time passes, `BareRunsRerun` without |
| `restart_names` | finding: no run is ever rerun | no fault |

Every property of a passing run has a mutant: a plausible bug in one definition (defined just
before it, with a comment that starts with "Mutation") under which TLC finds the property violated.

`CHECK_DEADLOCK FALSE` in the lifecycle, agent and restart runs: there the system may stop, once
every tray has gone, the agent and its row have, or every run has passed and interrupts are used up.

`OverlapOnlyAfterHandback` is the form "only the leader runs the poller" takes with
`ReleaseOnCancel`: on a shutdown the lease is handed back while the poller unwinds, and on a lost
term even before `leaderCtx` is cancelled, so two pollers may overlap; GitHub's one session per
scale set (`OneScaler`) is what keeps them apart then. What is excluded is an overlap of two replicas
neither of which has handed back; `LeadsAsPromised` says the same of steps: authority (a poller whose
lease is not handed back) passes from one replica to another only by way of nobody, as `Leadership`
has it. Three conditions appear in these properties, each on a configuration and never on what
happens: `CadenceFits` (the lease outlasts a leader that cannot renew, its release and its poller)
in all that is said of the lease; `StartsInTime` (a goroutine is scheduled before a leader can lose
its lease for want of renewal) in `OneTermPerReplica`, `OverlapOnlyAfterHandback` and
`LeadsAsPromised`; `Accepted` in `AlwaysLedAgain`. `StartsInTime` came out of the proof attempt: with
`MaxStart` as long as a term may last, a replica leaves `runOnce` and begins another term while the
goroutine of the last is still to come, and TLC finds it contending so. The run's cadences that
client-go accepts satisfy `StartsInTime`; the first, `CadenceFits` too. `DatabaseOutlivesPoller` needs
no condition. It and `OneTermPerReplica` hold although `runOnce` does not wait
for a callback that has not been scheduled yet: when `le.Run` has returned, `leaderCtx` is cancelled,
so that callback fails in its first call, before it has a session.

### Fairness

* `TrayLifecycle`: rows age (time passes), a creation that has begun goes on, stale loops run
  (a goroutine per replica, restarted with the process). Nothing is assumed of agents, machines or
  messages: they may stop for ever, and the stale loop must cope.
* `LeaseElection`: time passes, goroutines run, calls return, a process is restarted (a Deployment
  restarts its pods). Punctuality (`MaxLatency`, `MaxStop`) is a bound on `Tick`, named in the
  constants: the code sets no deadline for `Acquire`, so `AtMostOnePoller` is stated under
  `CadenceFits`, and `election_overrun` shows what is left without it.
* `K8sElection`: time passes, goroutines run, a partition heals, a process is restarted.
  `Punctual` bounds what may keep a `Tick` waiting: an attempt that is due, the release
  (`MaxRelease`), the start of a goroutine and the return of a cancelled poller. client-go gives
  each renewal the deadline as its timeout, so the first is the code's; the others are assumed.
* `Agent`: its goroutines run, time passes, the server's loops and the poller work, GitHub notices a
  runner that is gone. Nothing is assumed of signals, of the shutdown file, of jobs, or of a
  listener that was told to end: it may run for ever. The server answers unless a fault is spent.
* `ScaleSetPoller`: pollers and creation goroutines run, deletions end (the stale loop), GitHub
  drops a session nobody polls, replicas are elected again. Demand may change or not.
* `Restarter`: loops poll (`PollSpec`). Runs need not complete. That requests grow old is not assumed
  of the specification but is a premise, `TimePasses`, of `RequestSettles` alone: `BareRunsRerun` must
  hold without it, or a loop that reruns nothing would satisfy it by waiting for `requestTTL`.

### Findings

1. `lifecycle_window`: `CreateTray`'s comment (92-94) says a concurrent unregister is observed
   after `WaitDeploy`. If the deletion *completes* before the first `SetProviderData`, there is no
   row left to observe, and the machine is orphaned.
2. `lifecycle_stale_running`: "running trays are never stale", but the stale loop deletes by id
   from an old list.
3. `scaling_machines`: `maxTrays` is documented as a bound on machines; deleting rows, whose
   machines still run, are not counted.
4. `restart_names`: the tray stores `owner/repo`, the restarter passes it as the bare repository
   name next to the owner; GitHub finds no such run. The tests use a bare name.

Observed while modelling, without a run of their own:

* `LeaseStore` demands the store's clock (`leaseElector.go:20-23`); `MongoLeaseStore.Acquire` compares
  with the caller's (37, 43). With clocks further apart than a lease has left, a live lease is taken
  over. `MaxSkew` in `CadenceFits` is the price.
* `RenewInterval` is said to tolerate a couple of missed renewals (`leaseElector.go:36-37`); in `lead`
  the first one that returns an error ends the term (133-143).
* With the default renewal interval the Kubernetes elector's windows leave no margin: a leader that
  is cut off gives up exactly when its lease may be taken (theorem `DefaultHasNoMargin`), and
  then releases before it cancels `leaderCtx`. Its poller may still run, uncancelled, when the next one
  starts. `server.go:108-109` says "leaderCtx is cancelled the moment leadership is lost".
* "client-go requires leaseDuration > renewDeadline > retryPeriod; clamp defensively"
  (`k8sElector.go:65-66`): client-go asks for `renewDeadline > 1.2 * retryPeriod`. TTL 9 with renewal
  5 is not clamped and is refused (`SomeRefused`); `Run` then returns and the tray type has no poller
  on any replica.
* Lease names are lowercased and sanitised (`k8sElector.go:163-174`): tray types whose names differ only
  in case or punctuation share one Lease. The model has one tray type.
* `resolveShutdownCause`'s branch `cause == nil` (`agent.go:112`) is not reached: `cancel(nil)` sets the
  cause to `context.Canceled`, so a listener that ends cleanly is reported as "Listener exited:
  context canceled", with the same reason.
* `docs/configuration.md:91` says agents send the secret; `CatteryClient.try` sets no `Authorization`
  header. The models leave the token out, as if no secret were configured.

## 4. The proofs

All proofs are of the specifications TLC checks, for every value of the constants that satisfies the
modules' named assumptions (`ConstantsAssumption`, `LeaseAssumption`, `ScaleAssumption`,
`RestarterAssumption`, `K8sAssumption`, `AgentAssumption`: the kinds of actors are disjoint, trays
and replicas are finite sets where they are counted, numbers are naturals, `LeaseElection`'s TTL and
renewal interval are positive, and so are the agent's attempts).

**`TrayLifecycleProofs`: `TypeCorrect`** (`Spec => []TypeOK`), without any assumption about the
deploy window. Its content is that rows are whole or absent: no update of a missing row makes one.

The same module has `SafeDeletions` (`Spec => []DeletionsAreSafe`), `NoOrphan`, and
`RemovedRowsStayRemoved`. `NoOrphanVM` alone is not inductive: when `RemoveRow` runs, nothing in it
says the machine is gone. The strengthening adds what each actor in between knows: `CallInv` (a
`DeleteTray` frame about to clean has a handle if the machine is up; one about to remove the row
comes after the machine's end) and `CreatorInv` with `Untouched` (until the first
`SetProviderData` nobody else works on the tray; the creator has the handle it is about to
persist). `SafeDeletions` and `NoOrphan` assume `~WindowRaces`: it excludes the deletion inside
the deploy window (finding 1) and the loss of the first write while a machine is up that the row
does not name. In both the property is false.
`RemovedRowsStayRemoved` assumes nothing about the window: it follows from `TypeOK` and the
actions, since a row is inserted only by its creator, once, and no other write is an upsert.

**`LeaseElectionProofs`**: `ElectionTyped`, `TermsDoNotOverlap` (`OneTermAtATime`, any cadence),
`LeaseCoversWork` (`LeaseOutlivesWork`), `PollersNeverOverlap` (`AtMostOnePoller`), and
`ImplementsLeadership` (if `CadenceFits`, `Spec => Promise!Spec`). The inductive invariant is
`TypeOK`, `OneTermAtATime` and `LeaseOutlivesWork` together: the last says that whoever works
holds the lease for longer than `Need`, the time its poller may yet run if its next renewal
fails, plus the skew; and that a grant still on its way is good for the TTL less its age. With it a
takeover needs a lease that has run out by the fastest clock, which no worker's lease has. The
refinement follows: a poller starts only when none runs.

**`K8sElectionProofs`**, first over every configuration: the lease outlasts the deadline and the
deadline the retry period (`WindowsOrdered`, from a renewal interval of 2 units on; below that the
halves that the clamps add round to nothing), the default interval is accepted whatever the TTL
(`DefaultAccepted`), leaves no margin (`DefaultHasNoMargin`), and some configurations are refused
(`SomeRefused`). `CadenceFits` holds exactly if the renewal interval, a release and the poller's return
fit in the last third of the TTL (`FitsIff`), so never with the default interval (`DefaultNeverFits`):
what is proved of the lease below is for deployments that configure a shorter one. Integer arithmetic only; no temporal reasoning.

Then about `K8sElection`, for any replicas, any set of cadences (each behaviour has its own), any
bounds and any faults: `ElectorTyped`, `DatabaseIsThere`, `OneTerm`, `LeadersHold`,
`OverlapsOnlyAfterHandback`, `AuthorityPasses` (`LeadsAsPromised`) and from it
`ElectorImplementsLeadership` (`Spec /\ CadenceFits /\ StartsInTime => Promise!Spec`), and
`RefusedNeverLeads`. The invariant has four layers, each inductive with those before it:

* `WorkTidy`: where the callback's goroutine can be at each step of `runOnce` and of `Start`. It gives
  `DatabaseOutlivesPoller`, for every cadence and every bound.
* `TermsPrompt`: while the process serves, a goroutine still to come belongs to the present term, and
  the term's clock is no older than it. So a leader that gives up has had its goroutine started.
* `LeadersCovered`: nobody knows a leader's record for longer than the leader's own clock counts. Since
  that clock stops at `GivesUpAfter`, nobody may take the lease from a leader; that is
  `LeaderHoldsLease`.
* `PollersSheltered`: the same for a poller on its way out, with `Unrenewed`, the longest its lease may
  have been left alone at each step: the giving up, then the release, then the poller's return.

One lemma carries the last two: while a lease is fresh to everybody, no step of another replica takes
it or makes it look older (`NobodyElse`); a step of its own writes it, leaves it or gives it up
(`OwnStep`). The proof also corrected the model: `since` is not reset when a goroutine that has not
started is cancelled, and a leader's clock and a release's have bounds of their own.

**`AgentProofs`**: `AgentTyped` and `ListenerIsStopped` (`ListenerStopped`), for any number of attempts
and faults. The types need that no more register handlers are late than attempts were made
(`LateBounded`); the listener, what `Stop` may rely on (`StopKnows`): nothing strikes before the watchers
are spawned, which is when the listener is, and a listener that cancelled the context has ended.

**`FleetProofs`: `FleetWithinMax`** (`Spec => []WithinMax`), for any finite set of trays. `WithinMax`
is inductive with the types; the proof's content is how cardinalities follow one row. With
`ScalesAsFleet` it says of the pollers what `CapHolds` says.

**`ScaleSetPollerProofs`**: `PollersTyped`, `ScalersAreOne` (`OneScaler`), `CapIsKept` (`CapHolds`)
and `ImplementsFleet` (`Spec => ScalesAsFleet`), for any finite set of trays and any number of
pollers. The types are inductive together with two facts: every revival costs a fault, and a
goroutine that works on a row belongs to a poller (`Typed`). `OneScaler` is inductive with them: a
poller enters its listener loop only by getting the session, leaves it only through `Close` or a
crash, and leaves `creating` only when its goroutines have ended (`Await`) or died with the process
(`Crash`); GitHub drops a session only if its owner is not in the loop. `CapHolds` rests on it: only
the session's owner has a plan (`OthersPlanNothing`), so what `CountTrays` returned stays an upper
bound while the batch runs, and an insertion moves one tray from planned to active (`SavePlans`). The
step simulation of `Fleet` rests on it too, and on `Vacant`: the id a goroutine is about to save has
no row. A decided batch maps to `Promise`, an insertion to `Insert`; what moves no row and plans no tray
maps to `Break`, of no promise or of some (`BreakMaps`).

**`RestarterProofs`**: `RestarterTyped` and `RerunsArePaid` (`RerunsBounded`), for any number of runs
and replicas. The bound alone is not inductive. What is (`Paid`) counts, next to the reruns made, the
replicas that may still make one of the same request without a fault: those that have it in their
list, and, while it is stored, those that may list it. Who has rerun and is about to delete the request
owes none; a fault adds one at most; an interrupt adds as many as there are replicas. It needs `ListedOnce`:
a run is in a list once, and no more while it is worked on.

**`MessageHistoryProofs`**: `EmptyRepresents` and `AddRepresents` say that a history of any size
represents, slot by slot, the log of what was added; `RecentIsLatest` that `Recent` then returns
the latest messages, newest first. That the log is reached by repeated additions would be an
induction over data, which is TLC's part (`HistoryNewestFirst`, size 4, up to 9 messages: empty,
full, wrapped twice).

Only model-checked: all liveness (`EveryVMReclaimed`, `CompletedTrayRemoved`, `EveryRowSettles`,
`StrayWorkEnds`, `AlwaysLedAgain`, `CancelledEnds`, `MachineEnds`, `RowGoes`, `DemandServed`,
`RequestSettles`, `BareRunsRerun`) and the fairness part of `KeepsPromise`, which the prover cannot
do. Every invariant and every action property that a passing run checks is a theorem.

## 5. What the models leave out

* Inside the deploy window (`WindowRaces = FALSE`, `lifecycle_safety` and its proofs) no agent
  boots and no threshold passes, and a crash or a failed write does not strike at the first
  `SetProviderData` while a machine is up that the row does not name (`Tolerable`). With no machine,
  or one named by the tray, they may. The code has no answer to the excluded cases;
  `lifecycle_window` shows one of them.
* Providers: a successful `CleanTray` ends the machine. gce starts a deletion without awaiting
  it. Nomad's dispatch and its prefix scan are "the row finds the machine".
* A store call is served before its caller moves on, or never. The sleep between attempts to
  acquire is any time at all.
* A message session whose owner is alive is kept, even while its listener is blocked in
  `createTrays`.
* Row ids are used again in `ScaleSetPoller` (they are random in the code), and machines are counted
  by rows.
* In `Restarter` a request that is saved again while an older one is handled is deleted with it, as in
  the code: the second interrupt's rerun is lost, and no property claims it. A request may also
  expire before its run has ended; that it is given up then is what the code means to do.
* In `Restarter` a listed request grows old together with the stored one; `HasClosedPullRequest...`
  is one yes-or-no answer per run.
* client-go's leader election is modelled from the options `k8sElector.go` sets and what the callbacks
  rely on. A call to the API server takes less than one unit, jitter is left out, all replicas have the
  same configuration, and HTTP shutdown ends by itself (the code gives it 10 s).
* In `Agent` a deletion is one step that succeeds or spends a fault, the machine is not preempted, the
  creator of the row is done, and one age stands for both the 15 minutes of `AgentPing` and the stale
  thresholds (either may act first). The listener is a process that may ignore its interrupt.
  `Shutdown` powers the machine off, as on Linux; elsewhere it does nothing. A machine whose row is
  gone when its agent is killed has nobody to end it: `MachineEnds` exempts it. A message about the
  job is not lost here, as it may be in `TrayLifecycle`.
* The agent obeys `Terminate` even if its row has become running since; the job is cut short. No
  document promises otherwise.
* The order of messages about different trays, `AcquireJobs`, the lazy `EnsureScaleSet` of the JIT
  path, tokens, metrics, status page, parsing and validation of the configuration, the registry of
  pollers and the sort of their messages: they change no state the properties see, or are plain data.

## 6. Plan

Done, in this order: `TrayLifecycle` (core) and its proofs; `Leadership`, `LeaseElection` and
their proofs; `ScaleSetPoller` and `Restarter`; `Cadence` with its proofs, `K8sElection`; `Agent`;
`Fleet` with its proofs and the refinement; `MessageHistory` with its proofs; the proofs of
`ScaleSetPoller` (types, safety, the step simulation of `Fleet`) and of `Restarter`; the proofs of
`K8sElection` (with the refinement of `Leadership`) and of `Agent`.

Next:

1. `NomadProvider`/`GceProvider`: staged data, leaked dispatches, operations not awaited, as a
   refinement of the provider steps of `TrayLifecycle`.
2. The JIT path's lazy `EnsureScaleSet` under the client's mutex, beside the poller's.
3. Two tray types that share a Lease name; a composition of `LeaseElection` with `ScaleSetPoller`.
