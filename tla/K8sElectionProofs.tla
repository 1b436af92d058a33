-------------------------- MODULE K8sElectionProofs --------------------------
(***************************************************************************)
(* The windows of the Kubernetes elector for every configured cadence:     *)
(* what newK8sElector's clamps give, and what they do not.  Then           *)
(* K8sElection, for any number of replicas, any cadences, any bounds and   *)
(* any faults: how a lease covers the poller that works under it.          *)
(***************************************************************************)
EXTENDS K8sElection, TLAPS

----------------------------------------------------------------------------
(* The windows.                                                            *)

Configured == [ttl: Nat, renew: Nat]

LEMMA DefaultsTyped ==
    ASSUME NEW config \in Configured
    PROVE  /\ WithDefaults(config) \in [ttl: Nat \ {0}, renew: Nat]
           /\ config.renew > 0 => WithDefaults(config).renew = config.renew
PROOF
  <1>1. config.ttl \in Nat /\ config.renew \in Nat
    BY DEF Configured
  <1>2. \A t \in Nat \ {0} : t \div 3 \in Nat
    OBVIOUS
  <1>. QED
    BY <1>1, <1>2 DEF WithDefaults, ACadence, DefaultTTL

\* "client-go requires leaseDuration > renewDeadline > retryPeriod; clamp
\* defensively": the clamps give that order for every cadence whose renewal
\* interval is more than one unit, a nanosecond in the code.
THEOREM WindowsOrdered ==
    ASSUME NEW config \in Configured, K8sWindows(config).retry >= 2
    PROVE  /\ K8sWindows(config).lease > K8sWindows(config).deadline
           /\ K8sWindows(config).deadline > K8sWindows(config).retry
PROOF
  <1>. DEFINE c == WithDefaults(config)
  <1>1. c.ttl \in Nat /\ c.renew \in Nat /\ c.renew >= 2
    BY DefaultsTyped DEF K8sWindows, AWindows
  <1>. HIDE DEF c
  <1>2. DeadlineOf(c) \in Nat /\ DeadlineOf(c) > c.renew
    BY <1>1 DEF DeadlineOf
  <1>3. LeaseOf(c) > DeadlineOf(c)
    BY <1>1, <1>2 DEF LeaseOf
  <1>. QED
    BY <1>2, <1>3 DEF K8sWindows, AWindows, c

LEMMA DefaultWindows ==
    ASSUME NEW t \in Nat, t >= 3
    PROVE  LET w == K8sWindows(ACadence(t, 0)) IN
           w.lease = t /\ w.deadline = (t * 2) \div 3 /\ w.retry = t \div 3
PROOF
  <1>. DEFINE c == ACadence(t, t \div 3)
  <1>1. WithDefaults(ACadence(t, 0)) = c
    BY DEF WithDefaults, ACadence
  <1>2. c.ttl = t /\ c.renew = t \div 3
    BY DEF ACadence
  <1>3. (t * 2) \div 3 > t \div 3 /\ t > (t * 2) \div 3
    OBVIOUS
  <1>4. DeadlineOf(c) = (t * 2) \div 3
    BY <1>2, <1>3 DEF DeadlineOf
  <1>5. LeaseOf(c) = t
    BY <1>2, <1>3, <1>4 DEF LeaseOf
  <1>. QED
    BY <1>1, <1>2, <1>4, <1>5 DEF K8sWindows, AWindows

\* With the renewal interval left to its default client-go accepts the windows,
\* whatever the TTL.
THEOREM DefaultAccepted ==
    ASSUME NEW t \in Nat, t >= 3
    PROVE  Accepted(K8sWindows(ACadence(t, 0)))
PROOF
  <1>1. /\ t > (t * 2) \div 3 /\ 5 * ((t * 2) \div 3) > 6 * (t \div 3)
        /\ (t * 2) \div 3 > 0 /\ t \div 3 > 0
    OBVIOUS
  <1>. QED
    BY <1>1, DefaultWindows DEF Accepted

\* And they leave no margin: a leader that cannot renew gives up when its lease
\* has run out, not before, so that its poller still runs when another replica
\* may take over.
THEOREM DefaultHasNoMargin ==
    ASSUME NEW t \in Nat, t >= 3
    PROVE  LET w == K8sWindows(ACadence(t, 0)) IN
           GivesUpAfter(w) + 1 >= w.lease /\ (t % 3 = 0 => GivesUpAfter(w) = w.lease)
PROOF
  <1>1. /\ t \div 3 + (t * 2) \div 3 + 1 >= t
        /\ t % 3 = 0 => t \div 3 + (t * 2) \div 3 = t
    OBVIOUS
  <1>. QED
    BY <1>1, DefaultWindows DEF GivesUpAfter

\* The clamps compare with the renewal interval, client-go with 1.2 times it: a
\* renewal interval of five ninths of the TTL is refused, at any scale, and no
\* replica leads.
THEOREM SomeRefused ==
    ASSUME NEW n \in Nat \ {0}
    PROVE  ~Accepted(K8sWindows(ACadence(9 * n, 5 * n)))
PROOF
  <1>. DEFINE c == ACadence(9 * n, 5 * n)
  <1>1. WithDefaults(c) = c /\ c.ttl = 9 * n /\ c.renew = 5 * n
    BY DEF WithDefaults, ACadence
  <1>2. (9 * n * 2) \div 3 = 6 * n
    OBVIOUS
  <1>3. DeadlineOf(c) = 6 * n
    BY <1>1, <1>2 DEF DeadlineOf
  <1>. QED
    BY <1>1, <1>3 DEF K8sWindows, AWindows, Accepted

\* Which cadences fit: where the renewal interval is below the deadline, those
\* whose last third of the TTL holds one renewal interval, the release and the
\* poller's return.
THEOREM FitsIff ==
    ASSUME NEW ttl \in Nat \ {0}, NEW renew \in Nat \ {0}, renew < (ttl * 2) \div 3,
           windows = K8sWindows(ACadence(ttl, renew))
    PROVE  CadenceFits <=> renew + MaxRelease + MaxStop < ttl - (ttl * 2) \div 3
PROOF
  <1>. DEFINE c == ACadence(ttl, renew)
              deadline == (ttl * 2) \div 3
  <1>1. WithDefaults(c) = c /\ c.ttl = ttl /\ c.renew = renew
    BY DEF WithDefaults, ACadence
  <1>2. deadline \in Nat /\ deadline < ttl
    OBVIOUS
  <1>3. DeadlineOf(c) = deadline
    BY <1>1, <1>2 DEF DeadlineOf
  <1>4. LeaseOf(c) = ttl
    BY <1>1, <1>2, <1>3 DEF LeaseOf
  <1>5. windows.lease = ttl /\ windows.deadline = deadline /\ windows.retry = renew
    BY <1>1, <1>3, <1>4 DEF K8sWindows, AWindows
  <1>. HIDE DEF deadline
  <1>6. CadenceFits <=> (renew + deadline) + MaxRelease + MaxStop < ttl
    BY <1>5 DEF CadenceFits, GivesUpAfter, LeaseDuration
  <1>7. CadenceFits <=> renew + MaxRelease + MaxStop < ttl - deadline
    BY <1>2, <1>6, K8sAssumption
  <1>. QED
    BY <1>7 DEF deadline

\* The default renewal interval never fits once a release and a poller's return
\* take any time at all: what is proved below of the lease needs a shorter one.
THEOREM DefaultNeverFits ==
    ASSUME NEW ttl \in Nat, ttl >= 3, MaxRelease + MaxStop >= 1,
           windows = K8sWindows(ACadence(ttl, 0))
    PROVE  ~CadenceFits
PROOF
  <1>1. GivesUpAfter(windows) + 1 >= windows.lease
    BY DefaultHasNoMargin
  <1>2. /\ windows.lease = ttl /\ windows.deadline = (ttl * 2) \div 3
        /\ windows.retry = ttl \div 3
    BY DefaultWindows
  <1>3. GivesUpAfter(windows) \in Nat /\ windows.lease \in Nat
    BY <1>2 DEF GivesUpAfter
  <1>. QED
    BY <1>1, <1>3, K8sAssumption DEF CadenceFits, LeaseDuration

----------------------------------------------------------------------------
(* Type correctness.                                                       *)

\* What one replica, or time's passing for it, may do.
Step(r) ==
    \/ runOnce(r) \/ Process(r) \/ Heal(r)
    \/ UpdateUnanswered(r) \/ ReleaseFails(r)
    \/ Shutdown(r) \/ Crash(r) \/ Cut(r)

LEMMA WindowsTyped ==
    ASSUME windows \in {K8sWindows(c) : c \in Cadences}
    PROVE  /\ LeaseDuration \in Nat /\ RenewDeadline \in Nat /\ RetryPeriod \in Nat
           /\ GivesUpAfter(windows) \in Nat
PROOF
  <1>1. PICK config \in Cadences : windows = K8sWindows(config)
    OBVIOUS
  <1>. DEFINE c == WithDefaults(config)
  <1>2. config \in Configured
    BY K8sAssumption DEF Configured
  <1>3. c.ttl \in Nat /\ c.renew \in Nat
    BY <1>2, DefaultsTyped
  <1>. HIDE DEF c
  <1>4. DeadlineOf(c) \in Nat
    BY <1>3 DEF DeadlineOf
  <1>5. LeaseOf(c) \in Nat
    BY <1>3, <1>4 DEF LeaseOf
  <1>. QED
    BY <1>1, <1>3, <1>4, <1>5
       DEF K8sWindows, AWindows, c, LeaseDuration, RenewDeadline, RetryPeriod, GivesUpAfter

\* What a replica knows, and what the others are left with, are whole records.
LEMMA KnowledgeTyped ==
    ASSUME TypeOK, NEW r \in Replicas
    PROVE  /\ seen[r] \in Records /\ seen[r].age <= LeaseDuration
           /\ Observed(r) \in Records /\ Observed(r).age <= LeaseDuration
           /\ Observed(r).fresh
           /\ Outdated(r) \in Records /\ Outdated(r).age <= LeaseDuration
           /\ ~Outdated(r).fresh
           /\ Older(r) \in Records /\ Older(r).age <= LeaseDuration
           /\ Unseen \in Records /\ Unseen.age = 0 /\ ~Unseen.fresh
PROOF
  <1>1. /\ seen[r] \in Records /\ seen[r].age <= LeaseDuration
        /\ holder \in Replicas \cup {Nobody, Gone}
    BY DEF TypeOK, Bounded
  <1>2. /\ seen[r].holder \in Replicas \cup {Nobody, Gone}
        /\ seen[r].age \in Nat /\ seen[r].fresh \in BOOLEAN
    BY <1>1 DEF Records
  <1>3. LeaseDuration \in Nat
    BY WindowsTyped DEF TypeOK
  <1>4. /\ Observed(r) \in Records /\ Observed(r).age <= LeaseDuration
        /\ Observed(r).fresh
    <2>1. CASE seen[r].fresh
      <3>1. Observed(r) = seen[r]
        BY <2>1 DEF Observed
      <3>. QED
        BY <1>1, <2>1, <3>1
    <2>2. CASE ~seen[r].fresh
      <3>1. Observed(r) = ARecord(holder, 0, TRUE)
        BY <2>2 DEF Observed
      <3>. QED
        BY <1>1, <1>3, <3>1 DEF ARecord, Records
    <2>. QED
      BY <2>1, <2>2
  <1>5. /\ Outdated(r) \in Records /\ Outdated(r).age <= LeaseDuration
        /\ ~Outdated(r).fresh
    <2>1. Outdated(r) = ARecord(seen[r].holder, seen[r].age, FALSE)
      BY DEF Outdated
    <2>. QED
      BY <1>1, <1>2, <2>1 DEF ARecord, Records
  <1>6. Older(r) \in Records /\ Older(r).age <= LeaseDuration
    <2>1. CASE seen[r].age < LeaseDuration /\ seen[r].fresh
      <3>1. Older(r) = ARecord(seen[r].holder, seen[r].age + 1, TRUE)
        BY <2>1 DEF Older
      <3>. QED
        BY <1>2, <1>3, <2>1, <3>1 DEF ARecord, Records
    <2>2. CASE ~(seen[r].age < LeaseDuration /\ seen[r].fresh)
      BY <1>1, <2>2 DEF Older
    <2>. QED
      BY <2>1, <2>2
  <1>7. Unseen \in Records /\ Unseen.age = 0 /\ ~Unseen.fresh
    BY DEF Unseen, ARecord, Records
  <1>. QED
    BY <1>1, <1>4, <1>5, <1>6, <1>7

\* The goroutine of a replica, before and after what can happen to it.
LEMMA WorkTyped ==
    ASSUME TypeOK, NEW r \in Replicas
    PROVE  /\ work[r] \in Goroutines
           /\ work[r].stage \in {"none", "spawned", "running"}
           /\ work[r].live \in BOOLEAN /\ work[r].since \in Nat
           /\ Cancelled(work[r]) \in Goroutines /\ ~Cancelled(work[r]).live
           /\ Cancelled(work[r]).stage = work[r].stage
           /\ Cancelled(work[r]).since \in {0, work[r].since}
           /\ Longer(work[r]) \in Goroutines
           /\ Longer(work[r]).stage = work[r].stage
           /\ Longer(work[r]).live = work[r].live
           /\ NoWork \in Goroutines /\ NoWork.stage = "none" /\ ~NoWork.live
PROOF
  <1>1. /\ work[r] \in Goroutines
        /\ work[r].stage \in {"none", "spawned", "running"}
        /\ work[r].live \in BOOLEAN /\ work[r].since \in Nat
    BY DEF TypeOK, Goroutines
  <1>2. /\ Cancelled(work[r]) \in Goroutines /\ ~Cancelled(work[r]).live
        /\ Cancelled(work[r]).stage = work[r].stage
        /\ Cancelled(work[r]).since \in {0, work[r].since}
    BY <1>1 DEF Cancelled, AWork, Goroutines
  <1>3. /\ Longer(work[r]) \in Goroutines
        /\ Longer(work[r]).stage = work[r].stage
        /\ Longer(work[r]).live = work[r].live
    <2>1. CASE Longer(work[r]) = work[r]
      BY <1>1, <2>1
    <2>2. CASE Longer(work[r]) = AWork(work[r].stage, work[r].live, work[r].since + 1)
      BY <1>1, <2>2 DEF AWork, Goroutines
    <2>. QED
      BY <2>1, <2>2 DEF Longer
  <1>4. NoWork \in Goroutines /\ NoWork.stage = "none" /\ ~NoWork.live
    BY DEF NoWork, AWork, Goroutines
  <1>. QED
    BY <1>1, <1>2, <1>3, <1>4

LEMMA InitTyped == Init => TypeOK
PROOF
  <1>. SUFFICES ASSUME Init PROVE TypeOK
    OBVIOUS
  <1>1. /\ windows \in {K8sWindows(c) : c \in Cadences} /\ holder \in Replicas \cup {Nobody, Gone}
        /\ clock \in [Replicas -> Nat] /\ faults \in 0..MaxFaults
        /\ handed \subseteq Replicas /\ cut \subseteq Replicas
    BY K8sAssumption DEF Init
  <1>2. /\ pc \in [Replicas -> {"idle", "contending", "leading", "releasing", "stopping",
                                "awaiting", "returned"}]
        /\ main \in [Replicas -> {"serving", "draining", "waiting", "disconnecting", "down"}]
    BY DEF Init
  <1>3. Unseen \in Records /\ Unseen.age = 0
    BY DEF Unseen, ARecord, Records
  <1>4. NoWork \in Goroutines /\ NoWork.stage = "none" /\ ~NoWork.live
    BY DEF NoWork, AWork, Goroutines
  <1>5. seen \in [Replicas -> Records] /\ work \in [Replicas -> Goroutines]
    BY <1>3, <1>4 DEF Init
  <1>6. ASSUME NEW r \in Replicas PROVE Bounded(r)
    <2>1. At(r, "idle") /\ seen[r] = Unseen /\ work[r] = NoWork
      BY DEF Init, At
    <2>2. windows \in {K8sWindows(c) : c \in Cadences}
      BY <1>1
    <2>3. 0 <= LeaseDuration
      BY <2>2, WindowsTyped
    <2>. QED
      BY <1>3, <1>4, <2>1, <2>3 DEF Bounded, At
  <1>. QED
    BY <1>1, <1>2, <1>5, <1>6 DEF TypeOK

\* A step of one replica leaves the term of every other alone.
LEMMA Elsewhere ==
    ASSUME TypeOK, NEW r \in Replicas, Step(r), NEW p \in Replicas \ {r}
    PROVE  /\ pc'[p] = pc[p] /\ clock'[p] = clock[p] /\ work'[p] = work[p]
           /\ main'[p] = main[p] /\ (p \in handed' <=> p \in handed)
PROOF
  <1>1. CASE NewElector(r)
    BY <1>1 DEF NewElector, TypeOK, Goto, At
  <1>2. CASE Acquire(r)
    BY <1>2 DEF Acquire, TypeOK, Goto, At, Restarts
  <1>3. CASE Renew(r)
    BY <1>3 DEF Renew, TypeOK, Restarts, At
  <1>4. CASE GiveUp(r)
    BY <1>4 DEF GiveUp, TypeOK, Move, Goto, At, Restarts
  <1>5. CASE StepDown(r)
    BY <1>5 DEF StepDown, TypeOK, Move, Goto, At, Restarts
  <1>6. CASE Release(r)
    BY <1>6 DEF Release, TypeOK, Move, Goto, At
  <1>7. CASE Stop(r)
    BY <1>7 DEF Stop, TypeOK, Move, Goto, At, Cancel
  <1>8. CASE Leave(r)
    BY <1>8 DEF Leave, TypeOK, Move, Goto, At
  <1>9. CASE PollerStarts(r)
    BY <1>9 DEF PollerStarts, TypeOK
  <1>10. CASE PollerReturns(r)
    BY <1>10 DEF PollerReturns, TypeOK
  <1>11. CASE RunReturns(r)
    BY <1>11 DEF RunReturns, TypeOK, Goto
  <1>12. CASE ServersClosed(r)
    BY <1>12 DEF ServersClosed, TypeOK, GotoMain
  <1>13. CASE PollersStopped(r)
    BY <1>13 DEF PollersStopped, TypeOK, GotoMain
  <1>14. CASE Disconnect(r)
    BY <1>14 DEF Disconnect, TypeOK, GotoMain, Dies, Goto
  <1>15. CASE Start(r)
    BY <1>15 DEF Start, TypeOK, GotoMain
  <1>16. CASE Heal(r)
    BY <1>16 DEF Heal, TypeOK
  <1>17. CASE UpdateUnanswered(r)
    BY <1>17 DEF UpdateUnanswered, TypeOK, Spend
  <1>18. CASE ReleaseFails(r)
    BY <1>18 DEF ReleaseFails, TypeOK, Move, Goto, At, Spend
  <1>19. CASE Shutdown(r)
    BY <1>19 DEF Shutdown, TypeOK, GotoMain, Cancel, Spend
  <1>20. CASE Crash(r)
    BY <1>20 DEF Crash, TypeOK, Dies, Goto, Spend
  <1>21. CASE Cut(r)
    BY <1>21 DEF Cut, TypeOK, Spend
  <1>. QED
    BY <1>1, <1>2, <1>3, <1>4, <1>5, <1>6, <1>7, <1>8, <1>9, <1>10, <1>11, <1>12,
       <1>13, <1>14, <1>15, <1>16, <1>17, <1>18, <1>19, <1>20, <1>21
       DEF Step, runOnce, Process

\* Every step leaves whole records, none of them older than counted.
LEMMA SeenTyped ==
    ASSUME TypeOK, NEW r \in Replicas, Step(r)
    PROVE  /\ windows' = windows
           /\ seen' \in [Replicas -> Records]
           /\ \A p \in Replicas : seen'[p].age <= LeaseDuration
PROOF
  <1>. DEFINE Kept == /\ seen' \in [Replicas -> Records]
                      /\ \A p \in Replicas : seen'[p].age <= LeaseDuration
  <1>0. windows' = windows
    BY DEF Step, runOnce, Process, NewElector, Acquire, Renew, GiveUp, StepDown, Release, Stop, Leave,
           PollerStarts, PollerReturns, RunReturns, ServersClosed, PollersStopped,
           Disconnect, Start, Heal, UpdateUnanswered, ReleaseFails, Shutdown,
           Crash, Cut, Dies
  <1>. SUFFICES Kept
    BY <1>0
  <1>1. CASE UNCHANGED seen
    BY <1>1 DEF TypeOK, Bounded
  <1>2. CASE WrittenBy(r)
    <2>1. ARecord(r, 0, TRUE) \in Records /\ ARecord(r, 0, TRUE).age <= LeaseDuration
      BY WindowsTyped DEF ARecord, Records, TypeOK
    <2>2. ASSUME NEW q \in Replicas
          PROVE  seen'[q] \in Records /\ seen'[q].age <= LeaseDuration
      <3>1. CASE q = r
        BY <1>2, <2>1, <3>1 DEF WrittenBy
      <3>2. CASE q # r
        <4>1. seen'[q] = Outdated(q)
          BY <1>2, <3>2 DEF WrittenBy
        <4>. QED
          BY <4>1, KnowledgeTyped
      <3>. QED
        BY <3>1, <3>2
    <2>3. seen' = [q \in Replicas |-> seen'[q]]
      BY <1>2 DEF WrittenBy
    <2>. QED
      BY <2>2, <2>3
  <1>3. CASE Observes(r)
    BY <1>3, KnowledgeTyped DEF Observes, TypeOK
  <1>4. CASE seen' = [q \in Replicas |-> Outdated(q)]
    BY <1>4, KnowledgeTyped
  <1>5. CASE seen' = [seen EXCEPT ![r] = Unseen]
    <2>1. LeaseDuration \in Nat
      BY WindowsTyped DEF TypeOK
    <2>. QED
      BY <1>5, <2>1, KnowledgeTyped DEF TypeOK
  <1>6. \/ UNCHANGED seen \/ WrittenBy(r) \/ Observes(r)
        \/ seen' = [q \in Replicas |-> Outdated(q)]
        \/ seen' = [seen EXCEPT ![r] = Unseen]
    BY DEF Step, runOnce, Process, NewElector, Acquire, Renew, GiveUp, StepDown, Release, Stop, Leave,
           PollerStarts, PollerReturns, RunReturns, ServersClosed, PollersStopped,
           Disconnect, Start, Heal, UpdateUnanswered, ReleaseFails, Shutdown,
           Crash, Cut, Dies
  <1>. QED
    BY <1>1, <1>2, <1>3, <1>4, <1>5, <1>6

\* The rest of the type, but for the bounds.
LEMMA RestTyped ==
    ASSUME TypeOK, NEW r \in Replicas, Step(r)
    PROVE  /\ holder' \in Replicas \cup {Nobody, Gone}
           /\ pc' \in [Replicas -> {"idle", "contending", "leading", "releasing",
                                    "stopping", "awaiting", "returned"}]
           /\ clock' \in [Replicas -> Nat]
           /\ work' \in [Replicas -> Goroutines]
           /\ main' \in [Replicas -> {"serving", "draining", "waiting",
                                      "disconnecting", "down"}]
           /\ handed' \subseteq Replicas /\ cut' \subseteq Replicas
           /\ faults' \in 0..MaxFaults
PROOF
  <1>. USE K8sAssumption DEF TypeOK
  <1>0. AWork("spawned", TRUE, 0) \in Goroutines /\ AWork("running", TRUE, 0) \in Goroutines
    BY DEF AWork, Goroutines
  <1>1. CASE NewElector(r)
    BY <1>1 DEF NewElector, Goto, At
  <1>2. CASE Acquire(r)
    <2>1. CASE Takeable(r)
      <3>1. work' = [work EXCEPT ![r] = AWork("spawned", TRUE, 0)]
        BY <1>2, <2>1 DEF Acquire
      <3>2. work' \in [Replicas -> Goroutines]
        BY <1>0, <3>1
      <3>. QED
        BY <1>2, <2>1, <3>2 DEF Acquire, Goto, Restarts
    <2>2. CASE ~Takeable(r)
      BY <1>2, <2>2 DEF Acquire
    <2>. QED
      BY <2>1, <2>2
  <1>3. CASE Renew(r)
    BY <1>3 DEF Renew, Restarts, At
  <1>4. CASE GiveUp(r)
    BY <1>4 DEF GiveUp, Move, Goto, At, Restarts
  <1>5. CASE StepDown(r)
    BY <1>5 DEF StepDown, Move, Goto, At, Restarts
  <1>6. CASE Release(r)
    BY <1>6 DEF Release, Move, Goto, At
  <1>7. CASE Stop(r)
    BY <1>7, WorkTyped DEF Stop, Move, Goto, At, Cancel
  <1>8. CASE Leave(r)
    BY <1>8 DEF Leave, Move, Goto, At
  <1>9. CASE PollerStarts(r)
    BY <1>9, <1>0, WorkTyped DEF PollerStarts
  <1>10. CASE PollerReturns(r)
    BY <1>10, WorkTyped DEF PollerReturns
  <1>11. CASE RunReturns(r)
    BY <1>11 DEF RunReturns, Goto
  <1>12. CASE ServersClosed(r)
    BY <1>12 DEF ServersClosed, GotoMain
  <1>13. CASE PollersStopped(r)
    BY <1>13 DEF PollersStopped, GotoMain
  <1>14. CASE Disconnect(r)
    BY <1>14, WorkTyped DEF Disconnect, GotoMain, Dies, Goto
  <1>15. CASE Start(r)
    BY <1>15 DEF Start, GotoMain
  <1>16. CASE Heal(r)
    BY <1>16 DEF Heal
  <1>17. CASE UpdateUnanswered(r)
    BY <1>17 DEF UpdateUnanswered, Spend
  <1>18. CASE ReleaseFails(r)
    BY <1>18 DEF ReleaseFails, Move, Goto, At, Spend
  <1>19. CASE Shutdown(r)
    BY <1>19, WorkTyped DEF Shutdown, GotoMain, Cancel, Spend
  <1>20. CASE Crash(r)
    BY <1>20, WorkTyped DEF Crash, Dies, Goto, Spend
  <1>21. CASE Cut(r)
    BY <1>21 DEF Cut, Spend
  <1>. QED
    BY <1>1, <1>2, <1>3, <1>4, <1>5, <1>6, <1>7, <1>8, <1>9, <1>10, <1>11, <1>12,
       <1>13, <1>14, <1>15, <1>16, <1>17, <1>18, <1>19, <1>20, <1>21
       DEF Step, runOnce, Process

LEMMA StepTyped ==
    ASSUME TypeOK, NEW r \in Replicas, Step(r)
    PROVE  TypeOK'
PROOF
  <1>1. ASSUME NEW p \in Replicas \ {r} PROVE Bounded(p)'
    BY Elsewhere, SeenTyped DEF TypeOK, Bounded, At, LeaseDuration
  <1>2. Bounded(r)'
    <2>. USE SeenTyped, WorkTyped, WindowsTyped, K8sAssumption
         DEF TypeOK, Bounded, At, LeaseDuration
    <2>1. CASE NewElector(r)
      BY <2>1 DEF NewElector, Goto
    <2>2. CASE Acquire(r)
      BY <2>2 DEF Acquire, Goto, Restarts, AWork
    <2>3. CASE Renew(r)
      BY <2>3 DEF Renew, Restarts
    <2>4. CASE GiveUp(r)
      BY <2>4 DEF GiveUp, Move, Goto, Restarts
    <2>5. CASE StepDown(r)
      BY <2>5 DEF StepDown, Move, Goto, Restarts
    <2>6. CASE Release(r)
      BY <2>6 DEF Release, Move, Goto
    <2>7. CASE Stop(r)
      BY <2>7 DEF Stop, Move, Goto, Cancel
    <2>8. CASE Leave(r)
      BY <2>8 DEF Leave, Move, Goto
    <2>9. CASE PollerStarts(r)
      BY <2>9 DEF PollerStarts, AWork
    <2>10. CASE PollerReturns(r)
      BY <2>10 DEF PollerReturns
    <2>11. CASE RunReturns(r)
      BY <2>11 DEF RunReturns, Goto
    <2>12. CASE ServersClosed(r)
      BY <2>12 DEF ServersClosed, GotoMain
    <2>13. CASE PollersStopped(r)
      BY <2>13 DEF PollersStopped, GotoMain
    <2>14. CASE Disconnect(r)
      BY <2>14 DEF Disconnect, GotoMain, Dies, Goto
    <2>15. CASE Start(r)
      BY <2>15 DEF Start, GotoMain
    <2>16. CASE Heal(r)
      BY <2>16 DEF Heal
    <2>17. CASE UpdateUnanswered(r)
      BY <2>17 DEF UpdateUnanswered, Spend
    <2>18. CASE ReleaseFails(r)
      BY <2>18 DEF ReleaseFails, Move, Goto, Spend
    <2>19. CASE Shutdown(r)
      BY <2>19 DEF Shutdown, GotoMain, Cancel, Spend
    <2>20. CASE Crash(r)
      BY <2>20 DEF Crash, Dies, Goto, Spend
    <2>21. CASE Cut(r)
      BY <2>21 DEF Cut, Spend
    <2>. QED
      BY <2>1, <2>2, <2>3, <2>4, <2>5, <2>6, <2>7, <2>8, <2>9, <2>10, <2>11, <2>12,
         <2>13, <2>14, <2>15, <2>16, <2>17, <2>18, <2>19, <2>20, <2>21
         DEF Step, runOnce, Process
  <1>. QED
    BY <1>1, <1>2, SeenTyped, RestTyped DEF TypeOK

\* Time passes only where it may, so that no count passes its bound.
LEMMA TickTyped ==
    ASSUME TypeOK, Tick
    PROVE  TypeOK'
PROOF
  <1>1. /\ windows' = windows /\ holder' = holder /\ pc' = pc /\ handed' = handed
        /\ main' = main /\ cut' = cut /\ faults' = faults
    BY DEF Tick
  <1>2. \A r \in Replicas : seen'[r] = Older(r) /\ work'[r] = Longer(work[r])
    BY DEF Tick
  <1>3. seen' \in [Replicas -> Records] /\ work' \in [Replicas -> Goroutines]
    BY KnowledgeTyped, WorkTyped DEF Tick
  <1>4. clock' \in [Replicas -> Nat]
    BY DEF Tick, TypeOK
  <1>5. ASSUME NEW r \in Replicas PROVE Bounded(r)'
    <2>1. /\ seen'[r].age <= LeaseDuration /\ GivesUpAfter(windows) \in Nat
          /\ clock[r] \in Nat /\ Bounded(r) /\ work[r] \in Goroutines
      BY <1>2, KnowledgeTyped, WorkTyped, WindowsTyped DEF TypeOK
    <2>2. Punctual(r)
      BY DEF Tick
    <2>3. /\ At(r, "leading") => clock'[r] = clock[r] + 1 /\ clock[r] < GivesUpAfter(windows)
          /\ At(r, "releasing") => clock'[r] = clock[r] + 1 /\ clock[r] < MaxRelease
      BY <2>2 DEF Tick, Punctual, At
    <2>4. /\ At(r, "leading") => clock'[r] <= GivesUpAfter(windows)
          /\ At(r, "releasing") => clock'[r] <= MaxRelease
      BY <2>1, <2>3, K8sAssumption
    <2>. DEFINE counted == \/ work[r].stage = "spawned"
                           \/ work[r].stage = "running" /\ ~work[r].live
    <2>5. /\ work'[r].stage = work[r].stage /\ work'[r].live = work[r].live
          /\ counted => work'[r].since = work[r].since + 1
          /\ ~counted => work'[r].since = work[r].since
      <3>1. CASE counted
        <4>1. work'[r] = AWork(work[r].stage, work[r].live, work[r].since + 1)
          BY <1>2, <3>1 DEF Longer
        <4>. QED
          BY <3>1, <4>1 DEF AWork
      <3>2. CASE ~counted
        BY <1>2, <3>2 DEF Longer
      <3>. QED
        BY <3>1, <3>2
    <2>6. /\ work[r].stage = "spawned" => work[r].since < MaxStart
          /\ work[r].stage = "running" /\ ~work[r].live => work[r].since < MaxStop
      BY <2>2 DEF Punctual
    <2>7. /\ work'[r].stage = "none" => ~work'[r].live
          /\ work'[r].stage = "spawned" => work'[r].since <= MaxStart
          /\ work'[r].stage = "running" => work'[r].since <= MaxStop
          /\ work'[r].stage = "running" /\ work'[r].live => work'[r].since = 0
      BY <2>1, <2>5, <2>6, WorkTyped, K8sAssumption DEF Bounded
    <2>. QED
      BY <1>1, <2>1, <2>4, <2>7 DEF Bounded, At, LeaseDuration
  <1>. QED
    BY <1>1, <1>3, <1>4, <1>5 DEF TypeOK

\* A step is one replica's, or time passes.
LEMMA StepIsLocal ==
    ASSUME Next
    PROVE  Tick \/ \E r \in Replicas : Step(r)
PROOF
  BY DEF Next, Step

LEMMA NextTyped == TypeOK /\ [Next]_vars => TypeOK'
PROOF
  <1>1. ASSUME TypeOK, Next PROVE TypeOK'
    BY <1>1, StepIsLocal, StepTyped, TickTyped
  <1>2. ASSUME TypeOK, UNCHANGED vars PROVE TypeOK'
    BY <1>2 DEF TypeOK, Bounded, At, LeaseDuration, vars
  <1>. QED
    BY <1>1, <1>2

\* Every variable keeps its type, and time never passes a leader that has to give
\* up, a release that has to end, or a goroutine that has to start or to return.
THEOREM ElectorTyped == Spec => []TypeOK
PROOF
  BY InitTyped, NextTyped, PTL DEF Spec

----------------------------------------------------------------------------
(* Where the callback's goroutine is.                                    *)

\* Where a goroutine of the callback can be, whatever the cadence.
Tidy(r) ==
    /\ work[r].stage = "running" => pc[r] \in {"leading", "releasing", "stopping", "awaiting"}
    /\ work[r].live => pc[r] \in {"leading", "releasing", "stopping"}
    /\ r \in handed => Polls(r)
    /\ main[r] = "disconnecting" => At(r, "returned")
    /\ main[r] = "down" => At(r, "idle") /\ ~Polls(r)

WorkTidy == \A r \in Replicas : Tidy(r)

LEMMA TidyKept ==
    ASSUME TypeOK, WorkTidy, NEW r \in Replicas, Step(r)
    PROVE  WorkTidy'
PROOF
  <1>1. ASSUME NEW p \in Replicas \ {r} PROVE Tidy(p)'
    BY Elsewhere DEF WorkTidy, Tidy, At, Polls
  <1>2. Tidy(r)'
    <2>. USE WorkTyped DEF TypeOK, WorkTidy, Tidy, At, Polls
    <2>1. CASE NewElector(r)
      BY <2>1 DEF NewElector, Goto, Serving
    <2>2. CASE Acquire(r)
      BY <2>2 DEF Acquire, Goto, Restarts, AWork
    <2>3. CASE Renew(r)
      BY <2>3 DEF Renew, Restarts
    <2>4. CASE GiveUp(r)
      BY <2>4 DEF GiveUp, Move, Goto, Restarts
    <2>5. CASE StepDown(r)
      BY <2>5 DEF StepDown, Move, Goto, Restarts
    <2>6. CASE Release(r)
      BY <2>6 DEF Release, Move, Goto
    <2>7. CASE Stop(r)
      BY <2>7 DEF Stop, Move, Goto, Cancel
    <2>8. CASE Leave(r)
      BY <2>8 DEF Leave, Move, Goto
    <2>9. CASE PollerStarts(r)
      BY <2>9 DEF PollerStarts, AWork
    <2>10. CASE PollerReturns(r)
      BY <2>10 DEF PollerReturns
    <2>11. CASE RunReturns(r)
      BY <2>11 DEF RunReturns, Goto, Closing
    <2>12. CASE ServersClosed(r)
      BY <2>12 DEF ServersClosed, GotoMain
    <2>13. CASE PollersStopped(r)
      BY <2>13 DEF PollersStopped, GotoMain
    <2>14. CASE Disconnect(r)
      BY <2>14 DEF Disconnect, GotoMain, Dies, Goto
    <2>15. CASE Start(r)
      BY <2>15 DEF Start, GotoMain
    <2>16. CASE Heal(r)
      BY <2>16 DEF Heal
    <2>17. CASE UpdateUnanswered(r)
      BY <2>17 DEF UpdateUnanswered, Spend
    <2>18. CASE ReleaseFails(r)
      BY <2>18 DEF ReleaseFails, Move, Goto, Spend
    <2>19. CASE Shutdown(r)
      BY <2>19 DEF Shutdown, GotoMain, Cancel, Spend
    <2>20. CASE Crash(r)
      BY <2>20 DEF Crash, Dies, Goto, Spend
    <2>21. CASE Cut(r)
      BY <2>21 DEF Cut, Spend
    <2>. QED
      BY <2>1, <2>2, <2>3, <2>4, <2>5, <2>6, <2>7, <2>8, <2>9, <2>10, <2>11,
         <2>12, <2>13, <2>14, <2>15, <2>16, <2>17, <2>18, <2>19, <2>20, <2>21
         DEF Step, runOnce, Process
  <1>. QED
    BY <1>1, <1>2 DEF WorkTidy

LEMMA TidyOverTime ==
    ASSUME TypeOK, WorkTidy, Tick
    PROVE  WorkTidy'
PROOF
  <1>1. /\ pc' = pc /\ main' = main /\ handed' = handed
        /\ \A p \in Replicas : /\ work'[p].stage = work[p].stage
                              /\ work'[p].live = work[p].live
    BY WorkTyped DEF Tick
  <1>. QED
    BY <1>1 DEF WorkTidy, Tidy, At, Polls

\* The database is disconnected only after the poller has stopped, although
\* runOnce does not wait for a callback that has not started yet: by then the
\* context is cancelled and a late callback gets no further than its first call.
THEOREM DatabaseIsThere == Spec => []DatabaseOutlivesPoller
PROOF
  <1>1. Init => WorkTidy
    <2>1. NoWork.stage = "none" /\ NoWork.live = FALSE
      BY DEF NoWork, AWork
    <2>. QED
      BY <2>1 DEF Init, WorkTidy, Tidy, At, Polls
  <1>2. TypeOK /\ WorkTidy /\ [Next]_vars => WorkTidy'
    <2>1. ASSUME TypeOK, WorkTidy, Next PROVE WorkTidy'
      BY <2>1, StepIsLocal, TidyKept, TidyOverTime
    <2>2. ASSUME WorkTidy, UNCHANGED vars PROVE WorkTidy'
      BY <2>2 DEF WorkTidy, Tidy, At, Polls, vars
    <2>. QED
      BY <2>1, <2>2
  <1>3. WorkTidy => DatabaseOutlivesPoller
    BY DEF WorkTidy, Tidy, DatabaseOutlivesPoller, At
  <1>. QED
    BY <1>1, <1>2, <1>3, ElectorTyped, PTL DEF Spec

----------------------------------------------------------------------------
(* One term at a time.                                                     *)

\* A goroutine still to come belongs to the present term of a leader, or to a
\* process that is shutting down.
Prompt(r) ==
    /\ Serving(r) /\ work[r].stage = "spawned"
         => At(r, "leading") /\ clock[r] <= work[r].since
    /\ At(r, "contending") => ~Polls(r)

TermsPrompt == StartsInTime => \A r \in Replicas : Prompt(r)

LEMMA PromptKept ==
    ASSUME TypeOK, WorkTidy, TermsPrompt, NEW r \in Replicas, Step(r)
    PROVE  TermsPrompt'
PROOF
  <1>. SUFFICES ASSUME StartsInTime PROVE \A p \in Replicas : Prompt(p)'
    BY SeenTyped DEF TermsPrompt, StartsInTime
  <1>. USE DEF TermsPrompt
  <1>1. ASSUME NEW p \in Replicas \ {r} PROVE Prompt(p)'
    BY Elsewhere DEF Prompt, At, Polls, Serving
  <1>2. Prompt(r)'
    <2>. USE WorkTyped, WindowsTyped, K8sAssumption
         DEF TypeOK, Bounded, WorkTidy, Tidy, Prompt, At, Polls, Serving, Closing, StartsInTime
    <2>1. CASE NewElector(r)
      BY <2>1 DEF NewElector, Goto
    <2>2. CASE Acquire(r)
      BY <2>2 DEF Acquire, Goto, Restarts, AWork
    <2>3. CASE Renew(r)
      BY <2>3 DEF Renew, Restarts
    <2>4. CASE GiveUp(r)
      BY <2>4 DEF GiveUp, Move, Goto, Restarts
    <2>5. CASE StepDown(r)
      BY <2>5 DEF StepDown, Move, Goto, Restarts
    <2>6. CASE Release(r)
      BY <2>6 DEF Release, Move, Goto
    <2>7. CASE Stop(r)
      BY <2>7 DEF Stop, Move, Goto, Cancel
    <2>8. CASE Leave(r)
      BY <2>8 DEF Leave, Move, Goto
    <2>9. CASE PollerStarts(r)
      BY <2>9 DEF PollerStarts, AWork
    <2>10. CASE PollerReturns(r)
      BY <2>10 DEF PollerReturns
    <2>11. CASE RunReturns(r)
      BY <2>11 DEF RunReturns, Goto
    <2>12. CASE ServersClosed(r)
      BY <2>12 DEF ServersClosed, GotoMain
    <2>13. CASE PollersStopped(r)
      BY <2>13 DEF PollersStopped, GotoMain
    <2>14. CASE Disconnect(r)
      BY <2>14 DEF Disconnect, GotoMain, Dies, Goto
    <2>15. CASE Start(r)
      BY <2>15 DEF Start, GotoMain
    <2>16. CASE Heal(r)
      BY <2>16 DEF Heal
    <2>17. CASE UpdateUnanswered(r)
      BY <2>17 DEF UpdateUnanswered, Spend
    <2>18. CASE ReleaseFails(r)
      BY <2>18 DEF ReleaseFails, Move, Goto, Spend
    <2>19. CASE Shutdown(r)
      BY <2>19 DEF Shutdown, GotoMain, Cancel, Spend, Cancelled, AWork
    <2>20. CASE Crash(r)
      BY <2>20 DEF Crash, Dies, Goto, Spend
    <2>21. CASE Cut(r)
      BY <2>21 DEF Cut, Spend
    <2>. QED
      BY <2>1, <2>2, <2>3, <2>4, <2>5, <2>6, <2>7, <2>8, <2>9, <2>10, <2>11,
         <2>12, <2>13, <2>14, <2>15, <2>16, <2>17, <2>18, <2>19, <2>20, <2>21
         DEF Step, runOnce, Process
  <1>. QED
    BY <1>1, <1>2

LEMMA PromptOverTime ==
    ASSUME TypeOK, TermsPrompt, Tick
    PROVE  TermsPrompt'
PROOF
  <1>. SUFFICES ASSUME StartsInTime, NEW p \in Replicas PROVE Prompt(p)'
    BY DEF TermsPrompt, StartsInTime, Tick
  <1>1. /\ pc'[p] = pc[p] /\ main'[p] = main[p]
        /\ work'[p].stage = work[p].stage /\ work'[p].live = work[p].live
    BY WorkTyped DEF Tick
  <1>2. Prompt(p) /\ clock[p] \in Nat /\ work[p].since \in Nat
    BY WorkTyped DEF TermsPrompt, TypeOK
  <1>3. At(p, "leading") => clock'[p] = clock[p] + 1
    BY DEF Tick, At
  <1>4. work[p].stage = "spawned" => work'[p].since = work[p].since + 1
    BY DEF Tick, Longer, AWork
  <1>. QED
    BY <1>1, <1>2, <1>3, <1>4 DEF Prompt, At, Polls, Serving

LEMMA TermsKept == Spec => [](TypeOK /\ WorkTidy /\ TermsPrompt)
PROOF
  <1>1. Init => WorkTidy /\ TermsPrompt
    <2>1. NoWork.stage = "none" /\ NoWork.live = FALSE
      BY DEF NoWork, AWork
    <2>. QED
      BY <2>1 DEF Init, WorkTidy, Tidy, TermsPrompt, Prompt, At, Polls, Serving
  <1>2. TypeOK /\ WorkTidy /\ TermsPrompt /\ [Next]_vars => WorkTidy' /\ TermsPrompt'
    <2>1. ASSUME TypeOK, WorkTidy, TermsPrompt, Next PROVE WorkTidy' /\ TermsPrompt'
      BY <2>1, StepIsLocal, TidyKept, TidyOverTime, PromptKept, PromptOverTime
    <2>2. ASSUME WorkTidy, TermsPrompt, UNCHANGED vars PROVE WorkTidy' /\ TermsPrompt'
      BY <2>2 DEF WorkTidy, Tidy, TermsPrompt, Prompt, At, Polls, Serving, StartsInTime, vars
    <2>. QED
      BY <2>1, <2>2
  <1>. QED
    BY <1>1, <1>2, ElectorTyped, PTL DEF Spec

\* "So the same replica never runs two leadership terms for a key concurrently":
\* if a goroutine is scheduled before a lease can be lost for want of renewal, a
\* replica contends only when the goroutine of its last term has come and gone.
THEOREM OneTerm == Spec => []OneTermPerReplica
PROOF
  <1>1. TermsPrompt => OneTermPerReplica
    BY DEF TermsPrompt, Prompt, OneTermPerReplica
  <1>. QED
    BY <1>1, TermsKept, PTL

----------------------------------------------------------------------------
(* The lease and the poller.                                               *)

\* Nobody else takes r's lease for older than n.
Fresh(r, n) ==
    /\ holder = r
    /\ \A q \in Replicas \ {r} :
         seen[q].fresh => seen[q].holder = r /\ seen[q].age <= n

\* While the lease of a replica is fresh to all that look, no step of another
\* takes it, or makes it look older.
LEMMA NobodyElse ==
    ASSUME TypeOK, NEW p \in Replicas, NEW r \in Replicas \ {p}, Step(r),
           NEW n \in Nat, n < LeaseDuration, Fresh(p, n)
    PROVE  /\ holder' = p
           /\ \A q \in Replicas \ {p} :
                seen'[q].fresh => seen'[q].holder = p /\ seen'[q].age <= n
PROOF
  <1>1. /\ holder = p /\ p # r /\ p # Nobody /\ LeaseDuration \in Nat
        /\ seen[r].fresh => seen[r].holder = p /\ seen[r].age <= n
    BY WindowsTyped, K8sAssumption DEF Fresh, TypeOK
  <1>2. Observed(r).holder = p /\ Observed(r).age <= n
    BY <1>1 DEF Observed, ARecord
  <1>3. Observed(r).age \in Nat
    BY KnowledgeTyped DEF Records
  <1>4. ~Takeable(r)
    BY <1>1, <1>2, <1>3 DEF Takeable
  <1>5. holder' = holder
    <2>. USE <1>1, <1>4
    <2>1. CASE NewElector(r)
      BY <2>1 DEF NewElector, Goto, At
    <2>2. CASE Acquire(r)
      BY <2>2 DEF Acquire, Goto, At, Restarts
    <2>3. CASE Renew(r)
      BY <2>3 DEF Renew, Restarts, At
    <2>4. CASE GiveUp(r)
      BY <2>4 DEF GiveUp, Move, Goto, At, Restarts
    <2>5. CASE StepDown(r)
      BY <2>5 DEF StepDown, Move, Goto, At, Restarts
    <2>6. CASE Release(r)
      BY <2>6 DEF Release, Move, Goto, At
    <2>7. CASE Stop(r)
      BY <2>7 DEF Stop, Move, Goto, At, Cancel
    <2>8. CASE Leave(r)
      BY <2>8 DEF Leave, Move, Goto, At
    <2>9. CASE PollerStarts(r)
      BY <2>9 DEF PollerStarts
    <2>10. CASE PollerReturns(r)
      BY <2>10 DEF PollerReturns
    <2>11. CASE RunReturns(r)
      BY <2>11 DEF RunReturns, Goto
    <2>12. CASE ServersClosed(r)
      BY <2>12 DEF ServersClosed, GotoMain
    <2>13. CASE PollersStopped(r)
      BY <2>13 DEF PollersStopped, GotoMain
    <2>14. CASE Disconnect(r)
      BY <2>14 DEF Disconnect, GotoMain, Dies, Goto
    <2>15. CASE Start(r)
      BY <2>15 DEF Start, GotoMain
    <2>16. CASE Heal(r)
      BY <2>16 DEF Heal
    <2>17. CASE UpdateUnanswered(r)
      BY <2>17 DEF UpdateUnanswered, Spend
    <2>18. CASE ReleaseFails(r)
      BY <2>18 DEF ReleaseFails, Move, Goto, At, Spend
    <2>19. CASE Shutdown(r)
      BY <2>19 DEF Shutdown, GotoMain, Cancel, Spend
    <2>20. CASE Crash(r)
      BY <2>20 DEF Crash, Dies, Goto, Spend
    <2>21. CASE Cut(r)
      BY <2>21 DEF Cut, Spend
    <2>. QED
      BY <2>1, <2>2, <2>3, <2>4, <2>5, <2>6, <2>7, <2>8, <2>9, <2>10, <2>11,
         <2>12, <2>13, <2>14, <2>15, <2>16, <2>17, <2>18, <2>19, <2>20, <2>21
         DEF Step, runOnce, Process
  <1>6. CASE UNCHANGED seen
    BY <1>1, <1>5, <1>6 DEF Fresh
  <1>7. CASE Observes(r)
    BY <1>1, <1>2, <1>5, <1>7 DEF Fresh, Observes, TypeOK
  <1>8. CASE seen' = [seen EXCEPT ![r] = Unseen]
    BY <1>1, <1>5, <1>8, KnowledgeTyped DEF Fresh, TypeOK
  <1>9. UNCHANGED seen \/ Observes(r) \/ seen' = [seen EXCEPT ![r] = Unseen]
    BY <1>1, <1>4
       DEF Step, runOnce, Process, NewElector, Acquire, Renew, GiveUp, StepDown, Release, Stop, Leave,
           PollerStarts, PollerReturns, RunReturns, ServersClosed,
           PollersStopped, Disconnect, Start, Heal, UpdateUnanswered,
           ReleaseFails, Shutdown, Crash, Cut, Dies
  <1>. QED
    BY <1>6, <1>7, <1>8, <1>9

\* A step of its own either writes the lease, or leaves it and what the others
\* know, or gives it up.
LEMMA OwnStep ==
    ASSUME TypeOK, NEW p \in Replicas, Step(p)
    PROVE  \/ holder' = p /\ \A q \in Replicas \ {p} : ~seen'[q].fresh
           \/ holder' = holder /\ \A q \in Replicas \ {p} : seen'[q] = seen[q]
           \/ ~At(p, "leading")' /\ (Polls(p)' => p \in handed')
PROOF
  <1>. DEFINE Writes == holder' = p /\ \A q \in Replicas \ {p} : ~seen'[q].fresh
              Keeps == holder' = holder /\ \A q \in Replicas \ {p} : seen'[q] = seen[q]
              Yields == ~At(p, "leading")' /\ (Polls(p)' => p \in handed')
  <1>1. ASSUME WrittenBy(p), holder' = p PROVE Writes
    <2>1. \A q \in Replicas \ {p} : seen'[q] = Outdated(q)
      BY <1>1 DEF WrittenBy
    <2>. QED
      BY <1>1, <2>1, KnowledgeTyped
  <1>2. ASSUME seen' = [q \in Replicas |-> Outdated(q)], holder' = p PROVE Writes
    BY <1>2, KnowledgeTyped
  <1>3. ASSUME Observes(p) \/ seen' = [seen EXCEPT ![p] = Unseen], holder' = holder
        PROVE  Keeps
    BY <1>3 DEF Observes, TypeOK
  <1>4. CASE Acquire(p) \/ Renew(p) \/ UpdateUnanswered(p) \/ NewElector(p)
    BY <1>1, <1>2, <1>3, <1>4 DEF Acquire, Renew, UpdateUnanswered, NewElector
  <1>5. CASE Release(p)
    <2>1. CASE holder = p /\ p \notin cut
      BY <1>5, <2>1 DEF Release, Move, Goto, At, Polls, TypeOK
    <2>2. CASE ~(holder = p /\ p \notin cut)
      BY <1>5, <2>2 DEF Release
    <2>. QED
      BY <2>1, <2>2
  <1>6. CASE Disconnect(p) \/ Crash(p)
    <2>1. ~At(p, "leading")' /\ work'[p] = NoWork
      BY <1>6 DEF Disconnect, Crash, Dies, Goto, At, TypeOK
    <2>. QED
      BY <2>1, WorkTyped DEF Polls
  <1>. HIDE DEF Writes, Yields
  <1>7. Writes \/ Keeps \/ Yields
    BY <1>4, <1>5, <1>6
       DEF Step, runOnce, Process, GiveUp, StepDown, Stop, Leave, PollerStarts,
           PollerReturns, RunReturns, ServersClosed, PollersStopped, Start, Heal,
           ReleaseFails, Shutdown, Cut, Writes, Yields
  <1>. QED
    BY <1>7 DEF Writes, Yields

\* A leader is covered by its lease as long as its term lasts.
Covered(r) == At(r, "leading") => Fresh(r, clock[r])

LeadersCovered == CadenceFits => \A r \in Replicas : Covered(r)

LEMMA CoveredKept ==
    ASSUME TypeOK, LeadersCovered, NEW r \in Replicas, Step(r)
    PROVE  LeadersCovered'
PROOF
  <1>. SUFFICES ASSUME CadenceFits, NEW p \in Replicas, At(p, "leading")'
                PROVE  Fresh(p, clock[p])'
    BY SeenTyped DEF LeadersCovered, Covered, CadenceFits, LeaseDuration
  <1>1. Covered(p) /\ TypeOK
    BY DEF LeadersCovered
  <1>2. CASE p # r
    <2>1. pc'[p] = pc[p] /\ clock'[p] = clock[p]
      BY <1>2, Elsewhere
    <2>2. At(p, "leading") /\ Fresh(p, clock[p])
      BY <1>1, <2>1 DEF Covered, At
    <2>3. clock[p] \in Nat /\ clock[p] < LeaseDuration
      BY <2>2, WindowsTyped, K8sAssumption DEF TypeOK, Bounded, CadenceFits
    <2>4. /\ holder' = p
          /\ \A q \in Replicas \ {p} :
               seen'[q].fresh => seen'[q].holder = p /\ seen'[q].age <= clock[p]
      BY <1>2, <2>2, <2>3, NobodyElse
    <2>. QED
      BY <2>1, <2>4 DEF Fresh
  <1>3. CASE p = r
    <2>1. CASE holder' = p /\ \A q \in Replicas \ {p} : ~seen'[q].fresh
      BY <2>1 DEF Fresh
    <2>2. CASE /\ ~(holder' = p /\ \A q \in Replicas \ {p} : ~seen'[q].fresh)
               /\ holder' = holder /\ \A q \in Replicas \ {p} : seen'[q] = seen[q]
      <3>1. Step(p)
        BY <1>3
      <3>2. At(p, "leading") /\ clock'[p] = clock[p]
        <4>1. ASSUME Takeable(p), Acquire(p) \/ Renew(p) PROVE FALSE
          <5>1. holder' = p /\ WrittenBy(p)
            BY <4>1 DEF Acquire, Renew
          <5>2. \A q \in Replicas \ {p} : seen'[q] = Outdated(q)
            BY <5>1 DEF WrittenBy
          <5>. QED
            BY <2>2, <5>1, <5>2, KnowledgeTyped
        <4>2. CASE Acquire(p) \/ Renew(p)
          BY <4>1, <4>2 DEF Acquire, Renew, At
        <4>3. CASE ~(Acquire(p) \/ Renew(p))
          BY <3>1, <4>3
             DEF TypeOK, Step, runOnce, Process, NewElector, GiveUp, StepDown, Release,
                 Stop, Leave, PollerStarts, PollerReturns, RunReturns, ServersClosed,
                 PollersStopped, Disconnect, Start, Heal, UpdateUnanswered, ReleaseFails,
                 Shutdown, Crash, Cut, Dies, Move, Goto, At
        <4>. QED
          BY <4>2, <4>3
      <3>. QED
        BY <1>1, <2>2, <3>2 DEF Covered, Fresh
    <2>. QED
      BY <1>3, <2>1, <2>2, OwnStep
  <1>. QED
    BY <1>2, <1>3

\* One unit of time, for those who look at the lease.
LEMMA AgesByOne ==
    ASSUME TypeOK, Tick, NEW p \in Replicas, NEW n \in Nat, Fresh(p, n)
    PROVE  /\ holder' = p
           /\ \A q \in Replicas \ {p} :
                seen'[q].fresh => seen'[q].holder = p /\ seen'[q].age <= n + 1
PROOF
  <1>1. holder' = p
    BY DEF Tick, Fresh
  <1>2. ASSUME NEW q \in Replicas \ {p}, seen'[q].fresh
        PROVE  seen'[q].holder = p /\ seen'[q].age <= n + 1
    <2>1. seen'[q] = Older(q) /\ seen[q].age \in Nat
      BY KnowledgeTyped DEF Tick, Records
    <2>2. CASE Older(q) = seen[q]
      BY <1>2, <2>1, <2>2 DEF Fresh
    <2>3. CASE /\ seen[q].fresh
               /\ Older(q) = ARecord(seen[q].holder, seen[q].age + 1, TRUE)
      BY <2>1, <2>3 DEF Fresh, ARecord
    <2>. QED
      BY <2>2, <2>3 DEF Older
  <1>. QED
    BY <1>1, <1>2

LEMMA CoveredOverTime ==
    ASSUME TypeOK, LeadersCovered, Tick
    PROVE  LeadersCovered'
PROOF
  <1>. SUFFICES ASSUME CadenceFits, NEW p \in Replicas, At(p, "leading")'
                PROVE  Fresh(p, clock[p])'
    BY DEF LeadersCovered, Covered, CadenceFits, LeaseDuration, Tick
  <1>1. At(p, "leading") /\ clock'[p] = clock[p] + 1 /\ clock[p] \in Nat
    BY DEF Tick, At, TypeOK
  <1>2. Fresh(p, clock[p])
    BY <1>1 DEF LeadersCovered, Covered
  <1>. QED
    BY <1>1, <1>2, AgesByOne DEF Fresh

LEMMA AlwaysCovered == Spec => []LeadersCovered
PROOF
  <1>1. Init => LeadersCovered
    BY DEF Init, LeadersCovered, Covered, At
  <1>2. TypeOK /\ LeadersCovered /\ [Next]_vars => LeadersCovered'
    <2>1. ASSUME TypeOK, LeadersCovered, Next PROVE LeadersCovered'
      BY <2>1, StepIsLocal, CoveredKept, CoveredOverTime
    <2>2. ASSUME LeadersCovered, UNCHANGED vars PROVE LeadersCovered'
      BY <2>2 DEF LeadersCovered, Covered, Fresh, CadenceFits, LeaseDuration, At, vars
    <2>. QED
      BY <2>1, <2>2
  <1>. QED
    BY <1>1, <1>2, ElectorTyped, PTL DEF Spec

\* While a replica leads, the Lease names it, however many replicas contend, and
\* whatever calls, answers and partitions cost it: its lease outlasts its patience.
THEOREM LeadersHold == Spec => []LeaderHoldsLease
PROOF
  <1>1. LeadersCovered => LeaderHoldsLease
    BY DEF LeadersCovered, Covered, Fresh, LeaderHoldsLease
  <1>. QED
    BY <1>1, AlwaysCovered, PTL

\* How long the lease may have been left alone at each step of the way out.
Unrenewed(r) ==
    IF work[r].stage = "spawned" THEN work[r].since
    ELSE GivesUpAfter(windows) +
           (CASE At(r, "leading") -> 0
              [] At(r, "releasing") -> clock[r]
              [] At(r, "stopping") -> MaxRelease
              [] OTHER -> MaxRelease + work[r].since)

Sheltered(r) == Polls(r) /\ r \notin handed => Fresh(r, Unrenewed(r))

PollersSheltered ==
    CadenceFits /\ StartsInTime => \A r \in Replicas : Sheltered(r)

\* The cadence fits: no lease is left alone long enough to be taken.
LEMMA UnrenewedFits ==
    ASSUME TypeOK, WorkTidy, CadenceFits, StartsInTime, NEW p \in Replicas, Polls(p)
    PROVE  Unrenewed(p) \in Nat /\ Unrenewed(p) < LeaseDuration
PROOF
  <1>. DEFINE u == GivesUpAfter(windows)
  <1>1. /\ u \in Nat /\ LeaseDuration \in Nat /\ clock[p] \in Nat
        /\ work[p].since \in Nat /\ work[p].stage \in {"spawned", "running"}
        /\ MaxStart \in Nat /\ MaxStop \in Nat /\ MaxRelease \in Nat
    BY WindowsTyped, WorkTyped, K8sAssumption DEF TypeOK, Polls
  <1>2. u + MaxRelease + MaxStop < LeaseDuration /\ MaxStart < u
    BY DEF CadenceFits, StartsInTime
  <1>3. /\ At(p, "releasing") => clock[p] <= MaxRelease
        /\ work[p].stage = "spawned" => work[p].since <= MaxStart
        /\ work[p].stage = "running" => work[p].since <= MaxStop
    BY DEF TypeOK, Bounded
  <1>. HIDE DEF u
  <1>4. Unrenewed(p) \in {work[p].since, u + 0, u + clock[p], u + MaxRelease,
                          u + (MaxRelease + work[p].since)}
    BY DEF Unrenewed, u
  <1>5. CASE work[p].stage = "spawned"
    <2>1. Unrenewed(p) = work[p].since
      BY <1>5 DEF Unrenewed
    <2>. QED
      BY <1>1, <1>2, <1>3, <1>5, <2>1
  <1>6. CASE work[p].stage = "running" /\ At(p, "releasing")
    <2>1. Unrenewed(p) = u + clock[p]
      BY <1>6 DEF Unrenewed, At, u
    <2>. QED
      BY <1>1, <1>2, <1>3, <1>6, <2>1
  <1>7. CASE work[p].stage = "running" /\ ~At(p, "releasing")
    <2>1. Unrenewed(p) \in {u + 0, u + MaxRelease, u + (MaxRelease + work[p].since)}
      BY <1>7 DEF Unrenewed, At, u
    <2>. QED
      BY <1>1, <1>2, <1>3, <1>7, <2>1
  <1>. QED
    BY <1>1, <1>5, <1>6, <1>7

\* Taking the lease, or renewing it, writes it.
LEMMA TakingWrites ==
    ASSUME TypeOK, NEW p \in Replicas, Acquire(p) \/ Renew(p), Takeable(p)
    PROVE  holder' = p /\ \A q \in Replicas \ {p} : ~seen'[q].fresh
PROOF
  <1>1. holder' = p /\ WrittenBy(p)
    BY DEF Acquire, Renew
  <1>2. \A q \in Replicas \ {p} : seen'[q] = Outdated(q)
    BY <1>1 DEF WrittenBy
  <1>. QED
    BY <1>1, <1>2, KnowledgeTyped

\* A poller that stays on under a lease nobody writes has been there before, and
\* may leave the lease alone for as long as before, or for as long as its term.
LEMMA PatienceGrows ==
    ASSUME TypeOK, WorkTidy, StartsInTime, NEW p \in Replicas, Prompt(p), Step(p),
           Polls(p)', p \notin handed',
           ~(holder' = p /\ \A q \in Replicas \ {p} : ~seen'[q].fresh)
    PROVE  /\ Polls(p) /\ p \notin handed
           /\ \/ Unrenewed(p) <= Unrenewed(p)'
              \/ At(p, "leading") /\ clock[p] <= Unrenewed(p)'
PROOF
  <1>1. /\ GivesUpAfter(windows) \in Nat /\ windows' = windows
        /\ clock[p] \in Nat /\ work[p].since \in Nat
        /\ work[p].stage \in {"none", "spawned", "running"}
        /\ MaxStart \in Nat /\ MaxStop \in Nat /\ MaxRelease \in Nat
        /\ MaxStart < GivesUpAfter(windows)
    BY WindowsTyped, WorkTyped, SeenTyped, K8sAssumption DEF TypeOK, StartsInTime
  <1>2. ASSUME ~Takeable(p), Acquire(p) \/ Renew(p)
        PROVE  pc' = pc /\ clock' = clock /\ work' = work /\ handed' = handed
    BY <1>2 DEF Acquire, Renew
  <1>. USE <1>1 DEF TypeOK, Bounded, WorkTidy, Tidy, Prompt, At, Polls, Unrenewed
  <1>3. CASE Acquire(p) \/ Renew(p)
    BY <1>2, <1>3, TakingWrites
  <1>4. CASE NewElector(p)
    BY <1>4 DEF NewElector, Goto, Serving
  <1>5. CASE GiveUp(p)
    BY <1>5 DEF GiveUp, Move, Goto, Restarts
  <1>6. CASE StepDown(p)
    BY <1>6 DEF StepDown, Move, Goto, Restarts
  <1>7. CASE Release(p)
    BY <1>7 DEF Release, Move, Goto
  <1>8. CASE Stop(p)
    BY <1>8 DEF Stop, Move, Goto, Cancel, Cancelled, AWork
  <1>9. CASE Leave(p)
    BY <1>9 DEF Leave, Move, Goto
  <1>10. CASE PollerStarts(p)
    BY <1>10 DEF PollerStarts, AWork, NoWork
  <1>11. CASE PollerReturns(p)
    BY <1>11 DEF PollerReturns, NoWork, AWork
  <1>12. CASE RunReturns(p)
    BY <1>12 DEF RunReturns, Goto
  <1>13. CASE ServersClosed(p)
    BY <1>13 DEF ServersClosed, GotoMain
  <1>14. CASE PollersStopped(p)
    BY <1>14 DEF PollersStopped, GotoMain
  <1>15. CASE Disconnect(p)
    BY <1>15 DEF Disconnect, GotoMain, Dies, Goto, NoWork, AWork
  <1>16. CASE Start(p)
    BY <1>16 DEF Start, GotoMain
  <1>17. CASE Heal(p)
    BY <1>17 DEF Heal
  <1>18. CASE UpdateUnanswered(p)
    BY <1>18 DEF UpdateUnanswered, Spend
  <1>19. CASE ReleaseFails(p)
    BY <1>19 DEF ReleaseFails, Move, Goto, Spend
  <1>20. CASE Shutdown(p)
    BY <1>20 DEF Shutdown, GotoMain, Cancel, Spend, Cancelled, AWork
  <1>21. CASE Crash(p)
    BY <1>21 DEF Crash, Dies, Goto, Spend, NoWork, AWork
  <1>22. CASE Cut(p)
    BY <1>22 DEF Cut, Spend
  <1>. QED
    BY <1>3, <1>4, <1>5, <1>6, <1>7, <1>8, <1>9, <1>10, <1>11, <1>12, <1>13,
       <1>14, <1>15, <1>16, <1>17, <1>18, <1>19, <1>20, <1>21, <1>22
       DEF Step, runOnce, Process

LEMMA ShelteredKept ==
    ASSUME TypeOK, WorkTidy, TermsPrompt, LeadersCovered, PollersSheltered,
           NEW r \in Replicas, Step(r)
    PROVE  PollersSheltered'
PROOF
  <1>. SUFFICES ASSUME CadenceFits, StartsInTime, NEW p \in Replicas,
                       Polls(p)', p \notin handed'
                PROVE  Fresh(p, Unrenewed(p))'
    BY SeenTyped
       DEF PollersSheltered, Sheltered, CadenceFits, StartsInTime, LeaseDuration
  <1>1. /\ Sheltered(p) /\ Prompt(p) /\ Covered(p)
    BY DEF PollersSheltered, TermsPrompt, LeadersCovered
  <1>2. CASE p # r
    <2>1. /\ pc'[p] = pc[p] /\ clock'[p] = clock[p] /\ work'[p] = work[p]
          /\ windows' = windows /\ Polls(p) /\ p \notin handed
      BY <1>2, Elsewhere, SeenTyped DEF Polls
    <2>2. Unrenewed(p)' = Unrenewed(p)
      BY <2>1 DEF Unrenewed, At
    <2>3. /\ Fresh(p, Unrenewed(p)) /\ Unrenewed(p) \in Nat
          /\ Unrenewed(p) < LeaseDuration
      BY <1>1, <2>1, UnrenewedFits DEF Sheltered
    <2>4. /\ holder' = p
          /\ \A q \in Replicas \ {p} :
               seen'[q].fresh => seen'[q].holder = p /\ seen'[q].age <= Unrenewed(p)
      BY <1>2, <2>3, NobodyElse
    <2>. QED
      BY <2>2, <2>4 DEF Fresh
  <1>3. CASE p = r
    <2>1. CASE holder' = p /\ \A q \in Replicas \ {p} : ~seen'[q].fresh
      BY <2>1 DEF Fresh
    <2>2. CASE /\ ~(holder' = p /\ \A q \in Replicas \ {p} : ~seen'[q].fresh)
               /\ holder' = holder /\ \A q \in Replicas \ {p} : seen'[q] = seen[q]
      <3>1. /\ Polls(p) /\ p \notin handed
            /\ \/ Unrenewed(p) <= Unrenewed(p)'
               \/ At(p, "leading") /\ clock[p] <= Unrenewed(p)'
        BY <1>1, <1>3, <2>2, PatienceGrows
      <3>2. /\ Fresh(p, Unrenewed(p)) /\ Unrenewed(p) \in Nat /\ clock[p] \in Nat
            /\ At(p, "leading") => Fresh(p, clock[p])
        BY <1>1, <3>1, UnrenewedFits DEF Sheltered, Covered, TypeOK
      <3>3. Unrenewed(p)' \in Nat
        <4>1. TypeOK' /\ WorkTidy'
          BY StepTyped, TidyKept
        <4>2. /\ GivesUpAfter(windows') \in Nat /\ clock'[p] \in Nat
              /\ work'[p].since \in Nat
          BY <4>1, SeenTyped, WindowsTyped DEF TypeOK, Goroutines
        <4>. QED
          BY <4>2, K8sAssumption DEF Unrenewed
      <3>4. ASSUME NEW n \in Nat, Fresh(p, n), NEW m \in Nat, n <= m
            PROVE  \A q \in Replicas \ {p} :
                     seen[q].fresh => seen[q].holder = p /\ seen[q].age <= m
        BY <3>4, KnowledgeTyped DEF Fresh, Records
      <3>5. \A q \in Replicas \ {p} :
              seen[q].fresh => seen[q].holder = p /\ seen[q].age <= Unrenewed(p)'
        BY <3>1, <3>2, <3>3, <3>4
      <3>. QED
        BY <2>2, <3>2, <3>5 DEF Fresh
    <2>3. ~(~At(p, "leading")' /\ (Polls(p)' => p \in handed'))
      OBVIOUS
    <2>. QED
      BY <1>3, <2>1, <2>2, <2>3, OwnStep
  <1>. QED
    BY <1>2, <1>3

LEMMA ShelteredOverTime ==
    ASSUME TypeOK, WorkTidy, LeadersCovered, PollersSheltered, Tick
    PROVE  PollersSheltered'
PROOF
  <1>. SUFFICES ASSUME CadenceFits, StartsInTime, NEW p \in Replicas,
                       Polls(p)', p \notin handed'
                PROVE  Fresh(p, Unrenewed(p))'
    BY DEF PollersSheltered, Sheltered, CadenceFits, StartsInTime, LeaseDuration, Tick
  <1>1. /\ work'[p].stage = work[p].stage /\ work'[p].live = work[p].live
        /\ pc'[p] = pc[p] /\ handed' = handed /\ windows' = windows
    BY WorkTyped DEF Tick
  <1>2. Polls(p) /\ p \notin handed
    BY <1>1 DEF Polls
  <1>3. /\ Fresh(p, Unrenewed(p)) /\ Unrenewed(p) \in Nat
        /\ Tidy(p) /\ Covered(p) /\ Bounded(p) /\ Punctual(p)
    BY <1>2, UnrenewedFits
       DEF PollersSheltered, Sheltered, WorkTidy, LeadersCovered, TypeOK, Tick
  <1>4. /\ GivesUpAfter(windows) \in Nat /\ clock[p] \in Nat /\ work[p].since \in Nat
        /\ work[p].stage \in {"spawned", "running"} /\ MaxRelease \in Nat
    BY <1>2, WindowsTyped, WorkTyped, K8sAssumption DEF TypeOK, Polls
  <1>5. CASE work[p].stage = "running" /\ At(p, "leading")
    <2>1. /\ Fresh(p, clock[p]) /\ clock[p] + 1 <= GivesUpAfter(windows)
          /\ Unrenewed(p)' = GivesUpAfter(windows)
      BY <1>1, <1>3, <1>4, <1>5 DEF Covered, Punctual, Unrenewed, At
    <2>2. /\ holder' = p
          /\ \A q \in Replicas \ {p} :
               seen'[q].fresh => seen'[q].holder = p /\ seen'[q].age <= clock[p] + 1
      BY <1>4, <2>1, AgesByOne
    <2>3. \A q \in Replicas : seen'[q].age \in Nat
      BY KnowledgeTyped DEF Tick, Records
    <2>. QED
      BY <1>4, <2>1, <2>2, <2>3 DEF Fresh
  <1>6. CASE ~(work[p].stage = "running" /\ At(p, "leading"))
    <2>1. Unrenewed(p)' = Unrenewed(p) + 1
      <3>1. CASE work[p].stage = "spawned"
        <4>1. work'[p].since = work[p].since + 1
          BY <3>1 DEF Tick, Longer, AWork
        <4>. QED
          BY <1>1, <3>1, <4>1 DEF Unrenewed
      <3>2. CASE work[p].stage = "running" /\ At(p, "releasing")
        <4>1. clock'[p] = clock[p] + 1
          BY <3>2 DEF Tick, At
        <4>2. /\ Unrenewed(p)' = GivesUpAfter(windows) + clock'[p]
              /\ Unrenewed(p) = GivesUpAfter(windows) + clock[p]
          BY <1>1, <3>2 DEF Unrenewed, At
        <4>. QED
          BY <1>4, <4>1, <4>2
      <3>3. CASE work[p].stage = "running" /\ ~At(p, "releasing")
        <4>1. At(p, "awaiting") /\ ~work[p].live
          BY <1>3, <1>6, <3>3 DEF Punctual, Tidy, At
        <4>2. work'[p].since = work[p].since + 1
          BY <3>3, <4>1 DEF Tick, Longer, AWork
        <4>3. /\ Unrenewed(p)' = GivesUpAfter(windows) + (MaxRelease + work'[p].since)
              /\ Unrenewed(p) = GivesUpAfter(windows) + (MaxRelease + work[p].since)
          BY <1>1, <3>3, <4>1 DEF Unrenewed, At
        <4>. QED
          BY <1>4, <4>2, <4>3
      <3>. QED
        BY <1>4, <3>1, <3>2, <3>3
    <2>2. /\ holder' = p
          /\ \A q \in Replicas \ {p} :
               seen'[q].fresh => seen'[q].holder = p /\ seen'[q].age <= Unrenewed(p) + 1
      BY <1>3, AgesByOne
    <2>. QED
      BY <2>1, <2>2 DEF Fresh
  <1>. QED
    BY <1>5, <1>6

LEMMA AlwaysSheltered ==
    Spec => [](TypeOK /\ WorkTidy /\ TermsPrompt /\ LeadersCovered /\ PollersSheltered)
PROOF
  <1>1. Init => PollersSheltered
    <2>1. NoWork.stage = "none"
      BY DEF NoWork, AWork
    <2>. QED
      BY <2>1 DEF Init, PollersSheltered, Sheltered, Polls
  <1>2. TypeOK /\ WorkTidy /\ TermsPrompt /\ LeadersCovered /\ PollersSheltered
          /\ [Next]_vars => PollersSheltered'
    <2>1. ASSUME TypeOK, WorkTidy, TermsPrompt, LeadersCovered, PollersSheltered, Next
          PROVE  PollersSheltered'
      BY <2>1, StepIsLocal, ShelteredKept, ShelteredOverTime
    <2>2. ASSUME PollersSheltered, UNCHANGED vars PROVE PollersSheltered'
      BY <2>2
         DEF PollersSheltered, Sheltered, Fresh, Unrenewed, CadenceFits, StartsInTime,
             LeaseDuration, At, Polls, vars
    <2>. QED
      BY <2>1, <2>2
  <1>. QED
    BY <1>1, <1>2, TermsKept, AlwaysCovered, PTL DEF Spec

LEMMA OneSheltered ==
    ASSUME CadenceFits, StartsInTime, PollersSheltered, NEW p \in Replicas, NEW q \in Replicas,
           Polls(p), p \notin handed, Polls(q), q \notin handed
    PROVE  p = q
PROOF
  BY DEF PollersSheltered, Sheltered, Fresh

\* Two pollers overlap only while the earlier one unwinds, after its replica has
\* handed the lease back: at every other step of its way out a poller has the
\* lease to itself, since nobody has seen it unchanged for long enough to take it.
THEOREM OverlapsOnlyAfterHandback == Spec => []OverlapOnlyAfterHandback
PROOF
  <1>1. PollersSheltered => OverlapOnlyAfterHandback
    BY OneSheltered DEF OverlapOnlyAfterHandback
  <1>. QED
    BY <1>1, AlwaysSheltered, PTL

----------------------------------------------------------------------------
(* The promise of leadership.                                              *)

Holds(r) == Polls(r) /\ r \notin handed

LEMMA AuthorityIs ==
    ASSUME NEW p \in Replicas, Holds(p), \A q \in Replicas : Holds(q) => q = p
    PROVE  Authority = p
PROOF
  BY DEF Authority, Holds

LEMMA NoAuthority ==
    ASSUME \A q \in Replicas : ~Holds(q)
    PROVE  Authority = Nobody
PROOF
  BY DEF Authority, Holds

\* A step gives authority to a poller when there was none, ends the only one's, or
\* changes nothing.
LEMMA AuthorityMoves ==
    ASSUME TypeOK, PollersSheltered, PollersSheltered', CadenceFits, StartsInTime, Next
    PROVE  Promise!Next \/ UNCHANGED Authority
PROOF
  <1>1. windows' = windows
    BY StepIsLocal, SeenTyped DEF Tick
  <1>2. CadenceFits' /\ StartsInTime'
    BY <1>1 DEF CadenceFits, StartsInTime, LeaseDuration
  <1>3. /\ \A p \in Replicas : Holds(p) => holder = p
        /\ \A p \in Replicas : Holds(p)' => holder' = p
    BY <1>2 DEF PollersSheltered, Sheltered, Fresh, Holds
  <1>4. ASSUME NEW p \in Replicas, Holds(p), NEW q \in Replicas, Holds(q)'
        PROVE  p = q
    <2>1. CASE Tick
      <3>1. Holds(q)
        BY <1>4, <2>1, WorkTyped DEF Tick, Holds, Polls
      <3>. QED
        BY <1>3, <1>4, <3>1
    <2>2. ASSUME NEW r \in Replicas, Step(r), p # q PROVE FALSE
      <3>1. CASE r # q
        <4>1. Holds(q)
          BY <1>4, <2>2, <3>1, Elsewhere DEF Holds, Polls
        <4>. QED
          BY <1>3, <1>4, <2>2, <4>1
      <3>2. CASE r # p
        <4>1. Holds(p)'
          BY <1>4, <2>2, <3>2, Elsewhere DEF Holds, Polls
        <4>. QED
          BY <1>3, <1>4, <2>2, <4>1
      <3>. QED
        BY <2>2, <3>1, <3>2
    <2>. QED
      BY <2>1, <2>2, StepIsLocal
  <1>5. /\ \A p \in Replicas : Holds(p) => Authority = p
        /\ (\A q \in Replicas : ~Holds(q)) => Authority = Nobody
    BY <1>3, AuthorityIs, NoAuthority
  <1>6. /\ \A p \in Replicas : Holds(p)' => Authority' = p
        /\ (\A q \in Replicas : ~Holds(q)') => Authority' = Nobody
    BY <1>3 DEF Authority, Holds
  <1>7. CASE \E p \in Replicas : Holds(p)
    <2>1. PICK p \in Replicas : Holds(p)
      BY <1>7
    <2>2. Authority = p /\ p # Nobody
      BY <1>5, <2>1, K8sAssumption
    <2>3. CASE \E q \in Replicas : Holds(q)'
      BY <1>4, <1>6, <2>1, <2>2, <2>3
    <2>4. CASE \A q \in Replicas : ~Holds(q)'
      BY <1>6, <2>2, <2>4 DEF Promise!Next, Promise!Resign
    <2>. QED
      BY <2>3, <2>4
  <1>8. CASE \A p \in Replicas : ~Holds(p)
    <2>1. CASE \E q \in Replicas : Holds(q)'
      <3>1. PICK q \in Replicas : Holds(q)'
        BY <2>1
      <3>. QED
        BY <1>5, <1>6, <1>8, <3>1 DEF Promise!Next, Promise!Elect
    <2>2. CASE \A q \in Replicas : ~Holds(q)'
      BY <1>5, <1>6, <1>8, <2>2
    <2>. QED
      BY <2>1, <2>2
  <1>. QED
    BY <1>7, <1>8

\* Where the cadence fits and goroutines start in time, authority over a key passes
\* from one replica to another only by way of nobody.
THEOREM AuthorityPasses == Spec => LeadsAsPromised
PROOF
  <1>1. TypeOK /\ PollersSheltered /\ PollersSheltered' /\ [Next]_vars
          => [CadenceFits /\ StartsInTime => Promise!Next \/ UNCHANGED Authority]_vars
    BY AuthorityMoves
  <1>. QED
    BY <1>1, AlwaysSheltered, PTL DEF Spec, LeadsAsPromised

\* Hence the Kubernetes elector implements the abstract election, as the MongoDB
\* one does, up to the pollers that unwind after a handback (safety).
THEOREM ElectorImplementsLeadership ==
    Spec /\ CadenceFits /\ StartsInTime => Promise!Spec
PROOF
  <1>1. Init => Promise!Init
    <2>1. NoWork.stage = "none"
      BY DEF NoWork, AWork
    <2>2. Init => \A q \in Replicas : ~Holds(q)
      BY <2>1 DEF Init, Holds, Polls
    <2>. QED
      BY <2>2, NoAuthority DEF Promise!Init
  <1>2. TypeOK /\ CadenceFits /\ StartsInTime /\ [Next]_vars => CadenceFits' /\ StartsInTime'
    <2>1. TypeOK /\ [Next]_vars => windows' = windows
      BY StepIsLocal, SeenTyped DEF Tick, vars
    <2>. QED
      BY <2>1 DEF CadenceFits, StartsInTime, LeaseDuration
  <1>3. TypeOK /\ PollersSheltered /\ PollersSheltered' /\ CadenceFits /\ StartsInTime
          /\ [Next]_vars => [Promise!Next]_Authority
    <2>1. UNCHANGED vars => UNCHANGED Authority
      BY DEF vars, Authority, Polls
    <2>. QED
      BY <2>1, AuthorityMoves
  <1>. QED
    BY <1>1, <1>2, <1>3, AlwaysSheltered, PTL DEF Spec, Promise!Spec

----------------------------------------------------------------------------
(* Windows that client-go refuses.                                         *)

Unelected ==
    ~Accepted(windows) =>
      \A r \in Replicas : pc[r] \in {"idle", "returned"} /\ ~Polls(r)

\* Refused windows, such as those of SomeRefused, leave the
\* tray type without a poller for good: the elector returns and nobody calls it
\* again but the next process, in vain.
THEOREM RefusedNeverLeads == Spec => []Unelected
PROOF
  <1>1. Init => Unelected
    <2>1. NoWork.stage = "none"
      BY DEF NoWork, AWork
    <2>. QED
      BY <2>1 DEF Init, Unelected, Polls
  <1>2. TypeOK /\ Unelected /\ [Next]_vars => Unelected'
    <2>1. ASSUME TypeOK, Unelected, NEW r \in Replicas, Step(r) PROVE Unelected'
      <3>. SUFFICES ASSUME ~Accepted(windows), NEW p \in Replicas
                    PROVE  pc'[p] \in {"idle", "returned"} /\ ~Polls(p)'
        BY <2>1, SeenTyped DEF Unelected
      <3>1. \A q \in Replicas : pc[q] \in {"idle", "returned"} /\ work[q].stage = "none"
        BY <2>1 DEF Unelected, Polls
      <3>2. CASE p # r
        BY <2>1, <3>1, <3>2, Elsewhere DEF Polls
      <3>3. CASE p = r
        <4>1. \/ NewElector(r) \/ RunReturns(r) \/ ServersClosed(r) \/ PollersStopped(r)
              \/ Disconnect(r) \/ Start(r) \/ Heal(r) \/ Shutdown(r) \/ Crash(r) \/ Cut(r)
          BY <2>1, <3>1
             DEF Step, runOnce, Process, Acquire, Renew, GiveUp, StepDown, Release, Stop,
                 Leave, PollerStarts, PollerReturns, UpdateUnanswered, ReleaseFails, Move, At
        <4>. QED
          BY <2>1, <3>1, <3>3, <4>1, WorkTyped
             DEF NewElector, RunReturns, ServersClosed, PollersStopped, Disconnect, Start,
                 Heal, Shutdown, Crash, Cut, Dies, Cancel, Goto, Polls, TypeOK
      <3>. QED
        BY <3>2, <3>3
    <2>2. ASSUME TypeOK, Unelected, Tick PROVE Unelected'
      BY <2>2, WorkTyped DEF Tick, Unelected, Polls
    <2>3. ASSUME Unelected, UNCHANGED vars PROVE Unelected'
      BY <2>3 DEF Unelected, Polls, vars
    <2>. QED
      BY <2>1, <2>2, <2>3, StepIsLocal
  <1>. QED
    BY <1>1, <1>2, ElectorTyped, PTL DEF Spec
=============================================================================
