-------------------------------- MODULE Agent --------------------------------
(***************************************************************************)
(* The agent's process on its machine: CatteryAgent.Start with its three   *)
(* watchers and the GitHub listener, and the row and the handlers it       *)
(* reaches over HTTP.                                                      *)
(*                                                                         *)
(* The main goroutine, the watchers and the listener's goroutine share one *)
(* context: the first to cancel it sets the cause.  A request is one       *)
(* attempt at a time, each served or not, answered or not.  DeleteTray is  *)
(* one step here; TrayLifecycle takes it apart.                            *)
(***************************************************************************)
EXTENDS Naturals

CONSTANTS
    MaxAttempts,    \* attempts of a request (maxAttempts of the client)
    MaxFaults       \* bound on failed calls, lost answers and fatal errors

ASSUME AgentAssumption == MaxAttempts \in Nat \ {0} /\ MaxFaults \in Nat

VARIABLES
    main,       \* where Start is
    attempts,   \* failed attempts of its request
    cause,      \* who cancelled the context first
    armed,      \* the watchers that listen: for a signal, for the file
    ping,       \* the ping loop
    listener,   \* the listener and the goroutine that runs it
    shutdown,   \* agent.Shutdown: the tray type's, learnt by registering
    machine,    \* the machine the agent runs on
    row,        \* the tray's row: its status, and whether it is old
    late,       \* register handlers yet to record Registered
    job,        \* the job GitHub gives the runner
    seen,       \* messages about it the poller has handled
    faults      \* faults spent, of MaxFaults

process == <<main, attempts, cause, armed, ping, listener, shutdown>>
world == <<row, late, job, seen>>
vars == <<process, machine, world, faults>>

ARow(status, old) == [status |-> status, old |-> old]
NoRow == ARow("absent", FALSE)

\* The machine boots with a row, or without: its tray was deleted meanwhile.
Init ==
    /\ main = "registering" /\ attempts = 0
    /\ cause = "none" /\ armed = {} /\ ping = "off" /\ listener = "none"
    /\ shutdown \in BOOLEAN
    /\ machine = "up"
    /\ row \in {ARow("creating", FALSE), NoRow}
    /\ late = 0 /\ job = "none" /\ seen = 0
    /\ faults = 0

Up == machine = "up"
Running == Up /\ main \notin {"exited", "killed"}
At(step) == Running /\ main = step
Goto(step) == main' = step /\ attempts' = 0
Spend == faults < MaxFaults /\ faults' = faults + 1

Exists == row # NoRow
UpdateStatus(s) == IF Exists THEN ARow(s, FALSE) ELSE row

\* CleanTray destroys the machine and the row goes; or it fails, and does not.
DeleteTray ==
    \/ /\ Exists
       /\ row' = NoRow /\ machine' = "gone" /\ UNCHANGED faults
    \/ Exists /\ row' = UpdateStatus("deleting") /\ UNCHANGED machine /\ Spend

\* context.Cause is the first error the context was cancelled with.
Cancel(by) == cause' = IF cause = "none" THEN by ELSE cause

----------------------------------------------------------------------------
(* Requests, and what they find.                                           *)

\* Mutation: one attempt too many.
RetryOnceMore(after) ==
    IF attempts < MaxAttempts THEN attempts' = attempts + 1 /\ UNCHANGED main
                              ELSE Goto(after)

\* doRequest: a network error, a 5xx or a 404 is tried again.
Retry(after) ==
    IF attempts + 1 < MaxAttempts THEN attempts' = attempts + 1 /\ UNCHANGED main
                                  ELSE Goto(after)

\* AgentRegister, but for its last update, which follows the response.
Register ==
    /\ At("registering")
    /\ row' = UpdateStatus("registering")
    /\ IF Exists THEN Goto("registered") /\ late' = late + 1
                 ELSE Retry("refused") /\ UNCHANGED late
    /\ UNCHANGED <<cause, armed, ping, listener, shutdown, machine, job, seen, faults>>

\* The JIT configuration cannot be had, or the answer is lost.
RegisterFails ==
    /\ At("registering") /\ Spend
    /\ row' = UpdateStatus("registering")
    /\ late' \in IF Exists THEN {late, late + 1} ELSE {late}
    /\ Retry("refused")
    /\ UNCHANGED <<cause, armed, ping, listener, shutdown, machine, job, seen>>

\* AgentUnregister: an answer is worth something while the machine lasts.
Unregister ==
    /\ At("unregistering")
    /\ \/ DeleteTray /\ Goto("leaving")
       \/ ~Exists /\ Retry("leaving") /\ UNCHANGED <<row, machine, faults>>
    /\ UNCHANGED <<cause, armed, ping, listener, shutdown, late, job, seen>>

\* The server is not reached.
Unreached ==
    /\ Spend
    /\ \/ At("registering") /\ Retry("refused")
       \/ At("unregistering") /\ Retry("leaving")
    /\ UNCHANGED <<cause, armed, ping, listener, shutdown, machine, world>>

\* A 4xx other than 404, or an answer that cannot be read.
Rejected ==
    /\ Spend
    /\ \/ At("registering") /\ Goto("refused")
       \/ At("unregistering") /\ Goto("leaving")
    /\ UNCHANGED <<cause, armed, ping, listener, shutdown, machine, world>>

----------------------------------------------------------------------------
(* The main goroutine.                                                     *)

\* Mutation: power off only where the tray type says so.
StrandedReturns ==
    /\ At("refused")
    /\ Goto("exited")
    /\ machine' = IF shutdown THEN "off" ELSE machine
    /\ UNCHANGED <<cause, armed, ping, listener, shutdown, world, faults>>

\* "Power off so we don't keep a spot VM running", whatever the tray type says.
Stranded ==
    /\ At("refused")
    /\ Goto("exited") /\ machine' = "off"
    /\ UNCHANGED <<cause, armed, ping, listener, shutdown, world, faults>>

\* The watchers' goroutines and the listener's are spawned.
Watch ==
    /\ At("registered")
    /\ Goto("listening") /\ ping' = "asking" /\ listener' = "launching"
    /\ UNCHANGED <<cause, armed, shutdown, machine, world, faults>>

\* resolveShutdownCause: a listener that ended need not be stopped.
Resolve ==
    /\ At("listening") /\ cause # "none"
    /\ Goto(IF cause = "listener" THEN "unregistering" ELSE "stopping")
    /\ UNCHANGED <<cause, armed, ping, listener, shutdown, machine, world, faults>>

Interrupted == IF listener = "running" THEN "interrupted" ELSE listener

\* Mutation: Stop does not wait for the process to be there.
StopAtOnce ==
    /\ At("stopping")
    /\ Goto("unregistering") /\ listener' = Interrupted
    /\ UNCHANGED <<cause, armed, ping, shutdown, machine, world, faults>>

\* Mutation: Stop also waits for the process to end.
StopAndWait ==
    /\ At("stopping") /\ listener \notin {"none", "launching", "interrupted"}
    /\ listener' = Interrupted
    /\ IF listener = "running" THEN UNCHANGED <<main, attempts>> ELSE Goto("unregistering")
    /\ UNCHANGED <<cause, armed, ping, shutdown, machine, world, faults>>

\* Stop waits for `started`, and interrupts the listener without awaiting its end.
Stop ==
    /\ At("stopping") /\ listener \notin {"none", "launching"}
    /\ Goto("unregistering") /\ listener' = Interrupted
    /\ UNCHANGED <<cause, armed, ping, shutdown, machine, world, faults>>

\* pkill fails, which is logged.
StopFails ==
    /\ At("stopping") /\ listener = "running" /\ Spend
    /\ Goto("unregistering") /\ listener' = "escaped"
    /\ UNCHANGED <<cause, armed, ping, shutdown, machine, world>>

Leave ==
    /\ At("leaving")
    /\ Goto("exited")
    /\ machine' = IF shutdown THEN "off" ELSE machine
    /\ UNCHANGED <<cause, armed, ping, listener, shutdown, world, faults>>

----------------------------------------------------------------------------
(* The watchers.                                                           *)

Spawned == Running /\ main \notin {"registering", "refused", "registered"}
\* A goroutine that has not been scheduled yet starts to watch all the same.
Arm(w) ==
    /\ Spawned /\ w \notin armed
    /\ armed' = armed \cup {w}
    /\ UNCHANGED <<main, attempts, cause, ping, listener, shutdown, machine, world, faults>>

\* A signal, or a change of the shutdown file, or an error of its watcher.
Strikes(w) ==
    /\ Running /\ w \in armed /\ cause = "none"
    /\ Cancel(w)
    /\ UNCHANGED <<main, attempts, armed, ping, listener, shutdown, machine, world, faults>>

\* A goroutine of a process that is no more does not launch anything.
Orphaned == IF listener = "launching" THEN "none" ELSE listener
Dies == main' = "killed" /\ attempts' = 0 /\ listener' = Orphaned

\* A signal ends a process that does not listen for it yet; its child goes on.
SignalKills ==
    /\ Running /\ "signal" \notin armed
    /\ Dies
    /\ UNCHANGED <<cause, armed, ping, shutdown, machine, world, faults>>

\* Fatalf, when the shutdown file cannot be created or watched.
FileFails ==
    /\ Spawned /\ "file" \notin armed /\ Spend
    /\ Dies
    /\ UNCHANGED <<cause, armed, ping, shutdown, machine, world>>

\* AgentPing: nothing else asks about the age of the row.
Ping ==
    /\ Running /\ ping = "asking"
    /\ ping' = IF cause # "none" THEN "ended"
               ELSE IF Exists /\ row.status # "running" /\ row.old THEN "told"
               ELSE "asleep"
    /\ UNCHANGED <<main, attempts, cause, armed, listener, shutdown, machine, world, faults>>

\* doRequest gave up.
PingFails ==
    /\ Running /\ ping = "asking" /\ Spend
    /\ ping' = "asleep"
    /\ UNCHANGED <<main, attempts, cause, armed, listener, shutdown, machine, world>>

\* Terminate is obeyed whatever has become of the tray since it was said.
Terminate ==
    /\ Running /\ ping = "told"
    /\ ping' = "ended" /\ Cancel("ping")
    /\ UNCHANGED <<main, attempts, armed, listener, shutdown, machine, world, faults>>

Wake ==
    /\ Running /\ ping = "asleep"
    /\ ping' = "asking"
    /\ UNCHANGED <<main, attempts, cause, armed, listener, shutdown, machine, world, faults>>

watchPing == Ping \/ Terminate \/ Wake

----------------------------------------------------------------------------
(* The listener, and GitHub behind it.                                     *)

Launch ==
    /\ Running /\ listener = "launching"
    /\ listener' = "running"
    /\ UNCHANGED <<main, attempts, cause, armed, ping, shutdown, machine, world, faults>>

\* The context is cancelled with the error, and Stop finds no process.
LaunchFails ==
    /\ Running /\ listener = "launching" /\ Spend
    /\ Cancel("listener")
    /\ listener' = "ended"
    /\ UNCHANGED <<main, attempts, armed, ping, shutdown, machine, world>>

Takes == listener \in {"running", "escaped"}

\* Wait returns: the job is done, cut short, or there was none.
Exits ==
    /\ Up /\ listener \in {"running", "escaped", "interrupted"}
    /\ listener' = IF listener = "interrupted" THEN "killed" ELSE "ended"
    /\ IF Running THEN Cancel("listener") ELSE UNCHANGED cause
    /\ job' = IF job = "running" THEN "over" ELSE job
    /\ UNCHANGED <<main, attempts, armed, ping, shutdown, machine, row, late, seen, faults>>

AssignJob ==
    /\ Up /\ Takes /\ job = "none"
    /\ job' = "running"
    /\ UNCHANGED <<process, machine, row, late, seen, faults>>

\* GitHub finds that the runner is gone.
JobAborted ==
    /\ ~Up /\ job = "running"
    /\ job' = "over"
    /\ UNCHANGED <<process, machine, row, late, seen, faults>>

----------------------------------------------------------------------------
(* The rest of the server.                                                 *)

\* The register handler's last update, on a row in any state.
Registered ==
    /\ late > 0 /\ late' = late - 1
    /\ row' = UpdateStatus("registered")
    /\ UNCHANGED <<process, machine, job, seen, faults>>

RegisteredFails ==
    /\ late > 0 /\ late' = late - 1
    /\ Spend
    /\ UNCHANGED <<process, machine, row, job, seen>>

HandleJobStarted ==
    /\ job # "none" /\ seen = 0
    /\ seen' = 1 /\ row' = UpdateStatus("running")
    /\ UNCHANGED <<process, machine, late, job, faults>>

\* Mutation: the message's runner is not found.
HandleJobCompletedBlind ==
    /\ job = "over" /\ seen = 1
    /\ seen' = 2
    /\ UNCHANGED <<process, machine, row, late, job, faults>>

HandleJobCompleted ==
    /\ job = "over" /\ seen = 1
    /\ seen' = 2
    /\ DeleteTray \/ (~Exists /\ UNCHANGED <<row, machine, faults>>)
    /\ UNCHANGED <<process, late, job>>

\* Past the threshold of its status; a running row has none.
Age ==
    /\ Exists /\ row.status # "running" /\ ~row.old
    /\ row' = ARow(row.status, TRUE)
    /\ UNCHANGED <<process, machine, late, job, seen, faults>>

HandleStale ==
    /\ row.old /\ DeleteTray
    /\ UNCHANGED <<process, late, job, seen>>

----------------------------------------------------------------------------
Main ==
    \/ Register \/ Unregister \/ Stranded \/ Watch \/ Resolve \/ Stop \/ Leave

MainFails == RegisterFails \/ Unreached \/ Rejected \/ StopFails

Server ==
    \/ Registered \/ HandleJobStarted \/ HandleJobCompleted \/ HandleStale

Next ==
    \/ Main \/ MainFails \/ Server \/ RegisteredFails \/ Age
    \/ \E w \in {"signal", "file"} : Arm(w) \/ Strikes(w)
    \/ SignalKills \/ FileFails
    \/ watchPing \/ PingFails
    \/ Launch \/ LaunchFails \/ Exits \/ AssignJob \/ JobAborted

Spec == Init /\ [][Next]_vars

\* Goroutines run, time passes and the server works.  Nothing is assumed of
\* signals, of jobs, or of a listener that is told to end.
Fairness ==
    /\ WF_vars(Main) /\ WF_vars(Launch) /\ WF_vars(watchPing)
    /\ WF_vars(Age) /\ WF_vars(JobAborted)
    /\ WF_vars(Registered) /\ WF_vars(HandleStale)
    /\ WF_vars(HandleJobStarted) /\ WF_vars(HandleJobCompleted)

FairSpec == Spec /\ Fairness

----------------------------------------------------------------------------
(* Properties.                                                             *)

\* Every variable has its type, and no request is tried more often than allowed.
TypeOK ==
    /\ main \in {"registering", "refused", "registered", "listening", "stopping",
                 "unregistering", "leaving", "exited", "killed"}
    /\ attempts \in 0..(MaxAttempts - 1)
    /\ cause \in {"none", "listener", "signal", "file", "ping"}
    /\ armed \subseteq {"signal", "file"}
    /\ ping \in {"off", "asking", "asleep", "told", "ended"}
    /\ listener \in {"none", "launching", "running", "escaped", "interrupted",
                     "killed", "ended"}
    /\ shutdown \in BOOLEAN
    /\ machine \in {"up", "off", "gone"}
    /\ row \in [status: {"creating", "registering", "registered", "running", "deleting"},
                old: BOOLEAN] \cup {NoRow}
    /\ (row.old => row.status # "running")
    /\ late \in Nat /\ late <= MaxAttempts
    /\ job \in {"none", "running", "over"}
    /\ seen \in 0..2
    /\ faults \in 0..MaxFaults

\* "Kill listener if it wasn't the one that finished": when the agent tells the
\* server that it goes, no listener of its own is running that was not told to
\* end, whichever watcher was first and however late the listener came up.
ListenerStopped ==
    main \in {"unregistering", "leaving", "exited"}
        => listener \notin {"launching", "running"}

\* An agent whose context is cancelled ends, or its machine does: it waits for no
\* listener that ignores its interrupt, nor for a server that does not answer.
CancelledEnds == cause # "none" ~> (main \in {"exited", "killed"} \/ ~Up)

\* "Power off so we don't keep a spot VM running indefinitely": a machine ends
\* or runs a job, whether its agent could register, was killed before it caught
\* a signal, or had its requests fail.  Only a machine whose row was gone when
\* its agent was killed has nobody left to end it.
MachineEnds == Up ~> (~Up \/ job = "running" \/ (main = "killed" /\ ~Exists))

\* However its agent or its machine ended, a tray does not keep its row, unless
\* a listener left behind has a job.
RowGoes == (main \in {"exited", "killed"} \/ ~Up) ~> (~Exists \/ job = "running")
=============================================================================
