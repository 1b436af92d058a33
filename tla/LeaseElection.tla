--------------------------- MODULE LeaseElection ---------------------------
(***************************************************************************)
(* LeaseElector on MongoLeaseStore: the replicas contend for the lease of  *)
(* one key, a document {_id, holder, expiresAt}, and the holder runs the   *)
(* tray type's poller.                                                     *)
(*                                                                         *)
(* Time is counted, not read: the lease records how long it has left, a    *)
(* call how long ago it read its caller's clock, a ticker how long until   *)
(* its next tick.  Tick lets one unit pass on all of them; it waits for    *)
(* what is assumed punctual, the network (MaxLatency), the poller's return *)
(* once cancelled (MaxStop) and the goroutine a tick wakes.                *)
(***************************************************************************)
EXTENDS Integers

CONSTANTS
    Replicas,       \* server processes, present and future
    Nobody,         \* the holder when there is no document
    Gone,           \* the holder id of a process that is no more
    TTL,            \* LeaseConfig: how long an acquired lease is valid
    RenewInterval,  \* LeaseConfig: the leader's ticker
    MaxLatency,     \* bound on a call to the store, from reading the clock
    MaxStop,        \* bound on the poller's return after it is cancelled
    MaxSkew,        \* how far the clocks of two replicas may be apart
    MaxFaults       \* bound on failed calls, crashes, shutdowns

ASSUME LeaseAssumption ==
    /\ Nobody # Gone /\ Nobody \notin Replicas /\ Gone \notin Replicas
    /\ TTL \in Nat \ {0} /\ RenewInterval \in Nat \ {0}
    /\ MaxLatency \in Nat /\ MaxStop \in Nat /\ MaxSkew \in Nat
    /\ MaxFaults \in Nat

VARIABLES
    lease,      \* the document: its holder, and the time left to expiresAt
    pc,         \* where each replica is in Run and lead
    call,       \* its Acquire call: age of the clock reading, error, reply
    work,       \* its onElected callback, the poller
    timer,      \* its ticker, and how long ago leaderCtx was cancelled
    closing,    \* whether its process context is cancelled
    faults      \* faults spent, of MaxFaults

vars == <<lease, pc, call, work, timer, closing, faults>>

ALease(holder, left) == [holder |-> holder, left |-> left]
ACall(age, ahead, reply) == [age |-> age, ahead |-> ahead, reply |-> reply]
ATimer(wait, due, stop) == [wait |-> wait, due |-> due, stop |-> stop]

NoCall == ACall(0, 0, "none")
NoTimer == ATimer(RenewInterval, FALSE, 0)

\* No clock reading is old enough to tell leases apart that expired earlier.
Expired == -MaxLatency - 1

Lease == [holder: Replicas \cup {Nobody, Gone}, left: Expired..(TTL + MaxSkew)]
Steps == {"down", "trying", "acquiring", "leading", "renewing",
          "stopping", "yielding", "releasing"}
Call == [age: 0..MaxLatency, ahead: 0..MaxSkew, reply: {"none", "yes", "no"}]
Timer == [wait: 1..RenewInterval, due: BOOLEAN, stop: 0..MaxStop]

Init ==
    /\ lease = ALease(Nobody, Expired)
    /\ pc = [r \in Replicas |-> "trying"]
    /\ call = [r \in Replicas |-> NoCall]
    /\ work = [r \in Replicas |-> "none"]
    /\ timer = [r \in Replicas |-> NoTimer]
    /\ closing = [r \in Replicas |-> FALSE]
    /\ faults = 0

At(r, step) == pc[r] = step
Goto(r, step) == pc' = [pc EXCEPT ![r] = step]
Calling(r) == pc[r] \in {"acquiring", "renewing"}
Spend == faults < MaxFaults /\ faults' = faults + 1

----------------------------------------------------------------------------
(* MongoLeaseStore.                                                        *)

\* now := time.Now() on the caller: up to MaxSkew ahead of the slowest clock.
Send(r) == \E ahead \in 0..MaxSkew : call' = [call EXCEPT ![r] = ACall(0, ahead, "none")]

\* Mutation: a live lease is taken over too.
MatchesAnyone(r) == TRUE
\* Mutation: only a released lease is taken over.
MatchesFree(r) == lease.holder \in {r, Nobody}

\* The filter {_id, holder = me or expiresAt < now}; an absent document is
\* inserted.  No match with a document there is a duplicate key: refused.
Matches(r) ==
    \/ lease.holder \in {r, Nobody}
    \/ lease.left < call[r].ahead - call[r].age

\* Mutation: the lease is extended instead of restarted.
Extended(r) == ALease(r, lease.left + TTL)

Granted(r) == ALease(r, TTL + call[r].ahead - call[r].age)

Serve(r) ==
    /\ Calling(r) /\ call[r].reply = "none"
    /\ lease' = IF Matches(r) THEN Granted(r) ELSE lease
    /\ call' = [call EXCEPT ![r] =
                  ACall(@.age, @.ahead, IF Matches(r) THEN "yes" ELSE "no")]
    /\ UNCHANGED <<pc, work, timer, closing, faults>>

\* Mutation: whoever holds it.
DeletesAny(r) == TRUE
Deletes(r) == lease.holder = r

\* release runs under a context of its own; its failure is only logged.
Release(r) ==
    /\ At(r, "releasing")
    /\ \/ /\ lease' = IF Deletes(r) THEN ALease(Nobody, Expired) ELSE lease
          /\ UNCHANGED faults
       \/ UNCHANGED lease /\ Spend
    /\ Goto(r, "trying")
    /\ UNCHANGED <<call, work, timer, closing>>

----------------------------------------------------------------------------
(* Run: contend for the lease until the process context is done.           *)

Return(r) == call' = [call EXCEPT ![r] = NoCall]

Acquire(r) ==
    /\ At(r, "trying") /\ ~closing[r]
    /\ Send(r)
    /\ Goto(r, "acquiring")
    /\ UNCHANGED <<lease, work, timer, closing, faults>>

Refused(r) ==
    /\ At(r, "acquiring") /\ call[r].reply = "no"
    /\ Return(r)
    /\ Goto(r, "trying")
    /\ UNCHANGED <<lease, work, timer, closing, faults>>

\* lead: leaderCtx is a child of the process context, the callback starts and
\* then the ticker.
Elected(r) ==
    /\ At(r, "acquiring") /\ call[r].reply = "yes"
    /\ Return(r)
    /\ Goto(r, "leading")
    /\ work' = [work EXCEPT ![r] = IF closing[r] THEN "cancelled" ELSE "running"]
    /\ timer' = [timer EXCEPT ![r] = NoTimer]
    /\ UNCHANGED <<lease, closing, faults>>

\* The identity of a process dies with it: HolderID is a fresh uuid.
Forget(r) ==
    lease' = IF lease.holder = r THEN ALease(Gone, lease.left) ELSE lease

Quit(r) ==
    /\ At(r, "trying") /\ closing[r]
    /\ Forget(r)
    /\ Goto(r, "down")
    /\ UNCHANGED <<call, work, timer, closing, faults>>

----------------------------------------------------------------------------
(* lead: one leadership term.                                              *)

Cancelled(r) == IF work[r] = "running" THEN "cancelled" ELSE work[r]
Cancel(r) == work' = [work EXCEPT ![r] = Cancelled(r)]

Renew(r) ==
    /\ At(r, "leading") /\ timer[r].due
    /\ Send(r)
    /\ timer' = [timer EXCEPT ![r] = ATimer(@.wait, FALSE, @.stop)]
    /\ Goto(r, "renewing")
    /\ UNCHANGED <<lease, work, closing, faults>>

Renewed(r) ==
    /\ At(r, "renewing") /\ call[r].reply = "yes"
    /\ Return(r)
    /\ Goto(r, "leading")
    /\ UNCHANGED <<lease, work, timer, closing, faults>>

\* Mutation: the term ends before the callback has returned.
LostAtOnce(r) ==
    /\ At(r, "renewing") /\ call[r].reply = "no"
    /\ Return(r)
    /\ Cancel(r)
    /\ Goto(r, "trying")
    /\ UNCHANGED <<lease, timer, closing, faults>>

\* Mutation: the refusal is taken for a call that may be tried again.
LostIgnored(r) ==
    /\ At(r, "renewing") /\ call[r].reply = "no"
    /\ Return(r)
    /\ Goto(r, "leading")
    /\ UNCHANGED <<lease, work, timer, closing, faults>>

\* Lost: cancel, wait for the callback, do not release.
Lost(r) ==
    /\ At(r, "renewing") /\ call[r].reply = "no"
    /\ Return(r)
    /\ Cancel(r)
    /\ Goto(r, "stopping")
    /\ UNCHANGED <<lease, timer, closing, faults>>

\* Acquire returns an error, whether the store has served it or not; at no cost
\* once the process context, which it runs under, is cancelled.
AcquireErrs(r) ==
    /\ Calling(r)
    /\ Spend \/ (closing[r] /\ UNCHANGED faults)
    /\ Return(r)
    /\ IF At(r, "acquiring")
         THEN Goto(r, "trying") /\ UNCHANGED work
         ELSE Goto(r, "stopping") /\ Cancel(r)
    /\ UNCHANGED <<lease, timer, closing>>

\* ctx.Done: the callback's context is cancelled with it.
StepDown(r) ==
    /\ At(r, "leading") /\ closing[r]
    /\ Goto(r, "yielding")
    /\ UNCHANGED <<lease, call, work, timer, closing, faults>>

\* done: the callback has returned while leading, or while being waited for.
Finished(r) ==
    /\ pc[r] \in {"leading", "stopping", "yielding"} /\ work[r] = "none"
    /\ Goto(r, IF At(r, "stopping") THEN "trying" ELSE "releasing")
    /\ UNCHANGED <<lease, call, work, timer, closing, faults>>

\* The callback returns, once cancelled or, rarely, by itself.
WorkEnds(r) ==
    /\ \/ work[r] = "cancelled" /\ UNCHANGED faults
       \/ work[r] = "running" /\ Spend
    /\ work' = [work EXCEPT ![r] = "none"]
    /\ UNCHANGED <<lease, pc, call, timer, closing>>

----------------------------------------------------------------------------
(* Processes and time.                                                     *)

Shutdown(r) ==
    /\ ~At(r, "down") /\ ~closing[r] /\ Spend
    /\ closing' = [closing EXCEPT ![r] = TRUE]
    /\ Cancel(r)
    /\ UNCHANGED <<lease, pc, call, timer>>

\* A call in flight is served before the crash or never.
Crash(r) ==
    /\ ~At(r, "down") /\ Spend
    /\ Forget(r)
    /\ Goto(r, "down") /\ Return(r)
    /\ work' = [work EXCEPT ![r] = "none"]
    /\ UNCHANGED <<timer, closing>>

Restart(r) ==
    /\ At(r, "down")
    /\ Goto(r, "trying")
    /\ closing' = [closing EXCEPT ![r] = FALSE]
    /\ UNCHANGED <<lease, call, work, timer, faults>>

\* What one unit of time does to a replica.
Older(r) ==
    IF Calling(r) THEN ACall(call[r].age + 1, call[r].ahead, call[r].reply)
                  ELSE call[r]
Later(r) ==
    LET rings == pc[r] \in {"leading", "renewing"} /\ timer[r].wait = 1
    IN  ATimer(IF rings THEN RenewInterval
               ELSE IF pc[r] \in {"leading", "renewing"} THEN timer[r].wait - 1
               ELSE timer[r].wait,
               timer[r].due \/ rings,
               IF work[r] = "cancelled" THEN timer[r].stop + 1 ELSE timer[r].stop)

\* lead's select has a case that is ready.
Ready(r) ==
    At(r, "leading") /\ (timer[r].due \/ work[r] = "none" \/ closing[r])

Punctual(r) ==
    /\ Calling(r) => call[r].age < MaxLatency
    /\ work[r] = "cancelled" => timer[r].stop < MaxStop
    /\ ~Ready(r)

Tick ==
    /\ \A r \in Replicas : Punctual(r)
    /\ lease' = ALease(lease.holder,
                       IF lease.left > Expired THEN lease.left - 1 ELSE Expired)
    /\ call' = [r \in Replicas |-> Older(r)]
    /\ timer' = [r \in Replicas |-> Later(r)]
    /\ UNCHANGED <<pc, work, closing, faults>>

----------------------------------------------------------------------------
Run(r) == Acquire(r) \/ Refused(r) \/ Elected(r) \/ Quit(r)

lead(r) ==
    \/ Renew(r) \/ Renewed(r) \/ Lost(r) \/ StepDown(r) \/ Finished(r)
    \/ Release(r)

Step(r) == Run(r) \/ lead(r) \/ Serve(r) \/ WorkEnds(r) \/ Restart(r)

Next ==
    \/ Tick
    \/ \E r \in Replicas : Step(r) \/ AcquireErrs(r) \/ Shutdown(r) \/ Crash(r)

\* Time passes, the goroutines run, the store answers, a process is restarted.
Fairness == WF_vars(Tick) /\ \A r \in Replicas : WF_vars(Step(r))

Spec == Init /\ [][Next]_vars
FairSpec == Spec /\ Fairness

----------------------------------------------------------------------------
(* Properties.                                                             *)

\* Every variable has its type; no lease outlives TTL by more than the skew.
TypeOK ==
    /\ lease \in Lease
    /\ pc \in [Replicas -> Steps]
    /\ call \in [Replicas -> Call]
    /\ work \in [Replicas -> {"none", "running", "cancelled"}]
    /\ timer \in [Replicas -> Timer]
    /\ closing \in [Replicas -> BOOLEAN]
    /\ faults \in 0..MaxFaults

Works(r) == work[r] # "none"

\* One term at a time: a replica contends again, or hands the lease back, only
\* once the callback of its last term has returned; a callback whose process is
\* closing, or whose term is ending, has been cancelled.
OneTermAtATime ==
    \A r \in Replicas :
        /\ pc[r] \in {"down", "trying", "acquiring", "releasing"} => ~Works(r)
        /\ closing[r] \/ pc[r] \in {"stopping", "yielding"} => work[r] # "running"

\* When the cadence fits into the lease ("renew interval comfortably below TTL"
\* made precise): a term starts up to MaxLatency after the lease, its renewal
\* is sent RenewInterval later and may take MaxLatency to fail, the poller then
\* takes MaxStop to return.
CadenceFits == RenewInterval + 2 * MaxLatency + MaxStop + MaxSkew <= TTL

\* How long the poller of r may yet run if its next renewal fails.
Need(r) ==
    IF work[r] = "cancelled" THEN MaxStop - timer[r].stop
    ELSE IF At(r, "renewing") THEN MaxLatency - call[r].age + MaxStop
    ELSE IF timer[r].due THEN MaxLatency + MaxStop
    ELSE timer[r].wait + MaxLatency + MaxStop

\* The lease outlives the work: whoever runs the poller holds the lease, for
\* longer than it may yet run, even by the clock of the fastest other replica;
\* a grant on its way to its replica is still good for what is left of TTL.
LeaseOutlivesWork ==
    CadenceFits => \A r \in Replicas :
        /\ Works(r) => lease.holder = r /\ lease.left >= Need(r) + MaxSkew
        /\ Calling(r) /\ call[r].reply = "yes"
             => lease.holder = r /\ lease.left >= TTL - call[r].age

\* Hence pollers of two replicas never overlap, through slow and failed
\* renewals, shutdowns, crashes, restarts and skewed clocks.
AtMostOnePoller ==
    CadenceFits => \A r, q \in Replicas : Works(r) /\ Works(q) => r = q

\* The refinement: the leader is the replica whose poller runs.
Leader == IF \E r \in Replicas : Works(r)
            THEN CHOOSE r \in Replicas : Works(r) ELSE Nobody

Promise == INSTANCE Leadership WITH leader <- Leader

\* Election keeps its promise: one leader at a time, with a gap in between,
\* and always one again once replicas stop failing.
KeepsPromise == Promise!FairSpec

\* However slow the store and whatever the cadence, a poller that runs without
\* the lease is found out: it returns, or its replica gets the lease back.
StrayWorkEnds ==
    \A r \in Replicas :
        (Works(r) /\ lease.holder # r) ~> (~Works(r) \/ lease.holder = r)
============================================================================
