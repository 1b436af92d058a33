----------------------------- MODULE Restarter -----------------------------
(***************************************************************************)
(* WorkflowRestarter: an agent whose machine is being taken away asks for  *)
(* the failed jobs of its workflow run to be rerun; the request waits in   *)
(* the "restarters" collection until the run has completed.  The loop that *)
(* handles requests runs on every replica, with no lock and no election.   *)
(***************************************************************************)
EXTENDS Naturals, FiniteSets

CONSTANTS
    Runs,           \* workflow run ids
    NoRun,          \* what a loop that handles no request works on
    Replicas,       \* server processes, each with its restart loop
    Bare,           \* runs whose trays hold the repository's bare name; the
                    \* others hold owner/repo, as fullRepoName makes it (and
                    \* run id 0, which a tray holds until JobStarted, none)
    MaxSaves,       \* bound on interrupts per run
    MaxFaults       \* bound on failed calls and crashes

ASSUME RestarterAssumption ==
    /\ NoRun \notin Runs /\ IsFiniteSet(Replicas)
    /\ Bare \subseteq Runs
    /\ MaxSaves \in Nat /\ MaxFaults \in Nat

VARIABLES
    request,    \* the collection: per run id no request, or one, fresh or
                \* older than requestTTL
    run,        \* GitHub: the status of each run's last attempt
    event,      \* GitHub: what has triggered each run
    reruns,     \* GitHub: how often a run has been rerun
    pull,       \* GitHub: whether a run's pull request is open
    loop,       \* per replica, where its restart loop is
    saves,      \* interrupts taken, per run id, of MaxSaves
    expired,    \* run ids of which a request has outlived requestTTL
    faults      \* faults spent, of MaxFaults

vars == <<request, run, event, reruns, pull, loop, saves, expired, faults>>

ALoop(pc, todo, w) == [pc |-> pc, todo |-> todo, run |-> w]
Asleep == ALoop("asleep", {}, NoRun)

\* A request as it was listed.
AListing(w, old) == [run |-> w, old |-> old]
Listings == [run: Runs, old: BOOLEAN]

Events == {"push", "pull_request", "merge_group"}

Init ==
    /\ request = [w \in Runs |-> "none"]
    /\ run = [w \in Runs |-> "running"]
    /\ event \in [Runs -> Events]
    /\ reruns = [w \in Runs |-> 0]
    /\ pull = [w \in Runs |-> "open"]
    /\ loop = [r \in Replicas |-> Asleep]
    /\ saves = [w \in Runs |-> 0]
    /\ expired = {}
    /\ faults = 0

github == <<run, event, reruns, pull>>
Spend == faults < MaxFaults /\ faults' = faults + 1

----------------------------------------------------------------------------
(* The repository, by run id, and the handler that fills it.               *)

Pending == {w \in Runs : request[w] # "none"}

\* AgentInterrupt, whatever has become of the run meanwhile: SaveRestartRequest
\* upserts, createdAt starts again.
AgentInterrupt(w) ==
    /\ saves[w] < MaxSaves
    /\ request' = [request EXCEPT ![w] = "fresh"]
    /\ saves' = [saves EXCEPT ![w] = @ + 1]
    /\ UNCHANGED <<github, loop, expired, faults>>

\* Mutation: what has been handled is marked, not deleted.
Marked(w) == request' = [request EXCEPT ![w] = "handled"]

\* Delete, by run id.
Removed(w) == request' = [request EXCEPT ![w] = "none"]

\* requestTTL passes, for the request and for what has been listed of it.
GetsOld(w) ==
    /\ request[w] = "fresh"
    /\ request' = [request EXCEPT ![w] = "old"]
    /\ loop' = [r \in Replicas |->
         [loop[r] EXCEPT !.todo =
            {IF l.run = w THEN AListing(w, TRUE) ELSE l : l \in loop[r].todo}]]
    /\ expired' = expired \cup {w}
    /\ UNCHANGED <<github, saves, faults>>

----------------------------------------------------------------------------
(* pollPendingRestarts and handleRestartRequest.                           *)

At(r, pc) == loop[r].pc = pc
Goto(r, pc) == loop' = [loop EXCEPT ![r].pc = pc]
Current(r) == loop[r].run

List(r) ==
    /\ At(r, "asleep") /\ Pending # {}
    /\ loop' = [loop EXCEPT ![r] =
         ALoop("next", {AListing(w, request[w] = "old") : w \in Pending}, NoRun)]
    /\ UNCHANGED <<request, github, saves, expired, faults>>

Sleep(r) ==
    /\ At(r, "next") /\ loop[r].todo = {}
    /\ loop' = [loop EXCEPT ![r] = Asleep]
    /\ UNCHANGED <<request, github, saves, expired, faults>>

Take(r) ==
    /\ At(r, "next")
    /\ \E l \in loop[r].todo :
         loop' = [loop EXCEPT ![r] =
           ALoop(IF l.old THEN "expire" ELSE "info", @.todo \ {l}, l.run)]
    /\ UNCHANGED <<request, github, saves, expired, faults>>

\* Mutation: an expired request is skipped and stays.
SkipExpired(r) ==
    /\ At(r, "expire")
    /\ Goto(r, "next")
    /\ UNCHANGED <<request, github, saves, expired, faults>>

DeleteExpired(r) ==
    /\ At(r, "expire")
    /\ Removed(Current(r))
    /\ Goto(r, "next")
    /\ UNCHANGED <<github, saves, expired, faults>>

\* Mutation: the client is given owner/repo and asks for the name as it is.
FoundByFullName(w) == w \notin Bare

\* GitHub serves runs of repos/<org>/<bare name> and knows no other.
Found(w) == w \in Bare

\* What the run's status, conclusion and event call for.
AfterInfo(w) ==
    IF ~Found(w) \/ run[w] = "running" THEN "next"
    ELSE IF run[w] = "passed" \/ event[w] = "merge_group" THEN "delete"
    ELSE IF event[w] = "pull_request" THEN "pulls" ELSE "rerun"

GetWorkflowRunInfo(r) ==
    /\ At(r, "info")
    /\ Goto(r, AfterInfo(Current(r)))
    /\ UNCHANGED <<request, github, saves, expired, faults>>

branchPRClosed(r) ==
    /\ At(r, "pulls")
    /\ Goto(r, IF pull[Current(r)] = "closed" THEN "delete" ELSE "rerun")
    /\ UNCHANGED <<request, github, saves, expired, faults>>

\* 403: the App may not read pull requests; the restart goes ahead.
Forbidden(r) ==
    /\ At(r, "pulls") /\ Spend
    /\ Goto(r, "rerun")
    /\ UNCHANGED <<request, github, saves, expired>>

Rerun(w) ==
    /\ run' = [run EXCEPT ![w] = "running"]
    /\ reruns' = [reruns EXCEPT ![w] = @ + 1]
    /\ UNCHANGED <<event, pull>>

\* Mutation: the request is left for the next poll to clean up.
RestartAndKeep(r) ==
    LET w == Current(r) IN
    /\ At(r, "rerun")
    /\ IF run[w] = "failed" THEN Rerun(w) ELSE UNCHANGED github
    /\ Goto(r, "next")
    /\ UNCHANGED <<request, saves, expired, faults>>

\* GitHub refuses to rerun a run that another replica has set running: that
\* is an error, and the request stays.
RestartFailedJobs(r) ==
    LET w == Current(r) IN
    /\ At(r, "rerun")
    /\ IF run[w] = "failed" THEN Rerun(w) /\ Goto(r, "delete")
                            ELSE UNCHANGED github /\ Goto(r, "next")
    /\ UNCHANGED <<request, saves, expired, faults>>

\* The call's response is lost: it took effect, and the request stays.
RestartUnanswered(r) ==
    LET w == Current(r) IN
    /\ At(r, "rerun") /\ run[w] = "failed" /\ Spend
    /\ Rerun(w)
    /\ Goto(r, "next")
    /\ UNCHANGED <<request, saves, expired>>

\* By id: whatever has been saved for the run since it was listed goes too.
DeleteRequest(r) ==
    /\ At(r, "delete")
    /\ Removed(Current(r))
    /\ Goto(r, "next")
    /\ UNCHANGED <<github, saves, expired, faults>>

\* Any call fails: logged, and the request is left for the next poll.
CallFails(r) ==
    /\ loop[r].pc \in {"expire", "info", "pulls", "rerun", "delete"} /\ Spend
    /\ Goto(r, "next")
    /\ UNCHANGED <<request, github, saves, expired>>

\* The process dies, and is started again.
Crash(r) ==
    /\ ~At(r, "asleep") /\ Spend
    /\ loop' = [loop EXCEPT ![r] = Asleep]
    /\ UNCHANGED <<request, github, saves, expired>>

----------------------------------------------------------------------------
(* GitHub.                                                                 *)

Completes(w) ==
    /\ run[w] = "running"
    /\ \E conclusion \in {"failed", "passed"} :
         run' = [run EXCEPT ![w] = conclusion]
    /\ UNCHANGED <<request, event, reruns, pull, loop, saves, expired, faults>>

PullRequestCloses(w) ==
    /\ event[w] = "pull_request" /\ pull[w] = "open"
    /\ pull' = [pull EXCEPT ![w] = "closed"]
    /\ UNCHANGED <<request, run, event, reruns, loop, saves, expired, faults>>

----------------------------------------------------------------------------
Poll(r) ==
    \/ List(r) \/ Sleep(r) \/ Take(r) \/ DeleteExpired(r)
    \/ GetWorkflowRunInfo(r) \/ branchPRClosed(r) \/ RestartFailedJobs(r)
    \/ DeleteRequest(r)

PollFails(r) == Forbidden(r) \/ RestartUnanswered(r) \/ CallFails(r) \/ Crash(r)

Next ==
    \/ \E r \in Replicas : Poll(r) \/ PollFails(r)
    \/ \E w \in Runs : AgentInterrupt(w) \/ GetsOld(w)
    \/ \E w \in Runs : Completes(w) \/ PullRequestCloses(w)

Spec == Init /\ [][Next]_vars

\* The loops run: each sleeps 30s and polls again.  How soon a request grows
\* old beside that is left open.
PollSpec == Spec /\ \A r \in Replicas : WF_vars(Poll(r))

\* Time passes, however little becomes of a request meanwhile.
TimePasses == \A w \in Runs : WF_vars(GetsOld(w))

----------------------------------------------------------------------------
(* Properties.                                                             *)

\* Every variable has its type.
TypeOK ==
    /\ request \in [Runs -> {"none", "fresh", "old"}]
    /\ run \in [Runs -> {"running", "failed", "passed"}]
    /\ event \in [Runs -> Events]
    /\ reruns \in [Runs -> Nat]
    /\ pull \in [Runs -> {"open", "closed"}]
    /\ loop \in [Replicas ->
         [pc: {"asleep", "next", "expire", "info", "pulls", "rerun", "delete"},
          todo: SUBSET Listings, run: Runs \cup {NoRun}]]
    /\ saves \in [Runs -> 0..MaxSaves]
    /\ expired \subseteq Runs
    /\ faults \in 0..MaxFaults

\* One interrupt reruns its run at most once on each replica; only a crash, a
\* lost response or a failed deletion between rerun and deletion adds one.
RerunsBounded ==
    \A w \in Runs : reruns[w] <= Cardinality(Replicas) * saves[w] + faults

\* No request stays for ever, whatever GitHub answers: it is served, found
\* pointless, or given up after requestTTL.
RequestSettles ==
    TimePasses => \A w \in Runs : w \in Pending ~> w \notin Pending

Wanted(w) == w \in Pending /\ run[w] = "failed" /\ reruns[w] = 0
                /\ event[w] # "merge_group" /\ pull[w] = "open"

Rerunning(w) == reruns[w] > 0 \/ w \in expired \/ pull[w] = "closed"

\* A run that failed with a request pending is rerun, through failed calls and
\* crashes, unless the request expires or the pull request closes first; given
\* that its tray holds the name GitHub knows.  Requests need not expire
\* (PollSpec): a loop that waits for requestTTL instead does not do.
BareRunsRerun == \A w \in Bare : Wanted(w) ~> Rerunning(w)

\* README: "Automatic failed job restart - agents can request reruns of failed
\* workflow jobs": the same of every run, named as the poller names it.
FailedRunsRerun == \A w \in Runs : Wanted(w) ~> Rerunning(w)
=============================================================================
