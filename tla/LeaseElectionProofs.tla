------------------------ MODULE LeaseElectionProofs ------------------------
(***************************************************************************)
(* Proofs about LeaseElection, for any number of replicas and faults and   *)
(* every setting of the cadence, the latencies and the skew.               *)
(***************************************************************************)
EXTENDS LeaseElection, TLAPS

----------------------------------------------------------------------------
(* Lemmas: what the updates the actions are built from return.             *)

\* The records that actions put into the variables are well-formed.
LEMMA Constructors ==
    /\ \A h \in Replicas \cup {Nobody, Gone}, n \in Expired..(TTL + MaxSkew) :
          /\ ALease(h, n) \in Lease
          /\ ALease(h, n).holder = h /\ ALease(h, n).left = n
    /\ \A n \in 0..MaxLatency, m \in 0..MaxSkew, y \in {"none", "yes", "no"} :
          ACall(n, m, y) \in Call
    /\ \A n \in 1..RenewInterval, b \in BOOLEAN, m \in 0..MaxStop :
          ATimer(n, b, m) \in Timer
    /\ Expired \in Expired..(TTL + MaxSkew)
    /\ NoCall \in Call /\ NoTimer \in Timer
BY LeaseAssumption
   DEF ALease, ACall, ATimer, Lease, Call, Timer, Expired, NoCall, NoTimer

\* What the types of the variables say about the parts of one replica.
LEMMA Typing ==
    ASSUME TypeOK, NEW r \in Replicas
    PROVE  /\ lease.holder \in Replicas \cup {Nobody, Gone}
           /\ lease.left \in Expired..(TTL + MaxSkew)
           /\ lease = ALease(lease.holder, lease.left)
           /\ pc[r] \in Steps
           /\ call[r] \in Call
           /\ call[r].age \in 0..MaxLatency /\ call[r].ahead \in 0..MaxSkew
           /\ call[r].reply \in {"none", "yes", "no"}
           /\ work[r] \in {"none", "running", "cancelled"}
           /\ timer[r] \in Timer
           /\ timer[r].wait \in 1..RenewInterval /\ timer[r].due \in BOOLEAN
           /\ timer[r].stop \in 0..MaxStop
           /\ closing[r] \in BOOLEAN
BY DEF TypeOK, Lease, Call, Timer, ALease

----------------------------------------------------------------------------
\* Initially every variable has its type.
LEMMA InitTyped == Init => TypeOK
<1> SUFFICES ASSUME Init PROVE TypeOK
  OBVIOUS
<1>1. lease \in Lease
  BY Constructors DEF Init
<1>2. /\ pc \in [Replicas -> Steps]
      /\ work \in [Replicas -> {"none", "running", "cancelled"}]
      /\ closing \in [Replicas -> BOOLEAN]
  BY DEF Init, Steps
<1>3. call \in [Replicas -> Call] /\ timer \in [Replicas -> Timer]
  BY Constructors DEF Init
<1>4. faults \in 0..MaxFaults
  BY LeaseAssumption DEF Init
<1> QED
  BY <1>1, <1>2, <1>3, <1>4 DEF TypeOK

\* What every action but Tick does to the parts it changes.
LEMMA Updates ==
    ASSUME TypeOK, NEW r \in Replicas
    PROVE  /\ \A s \in Steps : Goto(r, s) => pc' \in [Replicas -> Steps]
           /\ Send(r) => call' \in [Replicas -> Call]
           /\ Return(r) => call' \in [Replicas -> Call]
           /\ Cancel(r) => work' \in [Replicas -> {"none", "running", "cancelled"}]
           /\ Forget(r) => lease' \in Lease
           /\ Spend => faults' \in 0..MaxFaults
           /\ Granted(r) \in Lease
<1>1. /\ lease.holder \in Replicas \cup {Nobody, Gone}
      /\ lease.left \in Expired..(TTL + MaxSkew)
      /\ call[r].age \in 0..MaxLatency /\ call[r].ahead \in 0..MaxSkew
  BY Typing
<1>2. \A s \in Steps : Goto(r, s) => pc' \in [Replicas -> Steps]
  BY DEF Goto, TypeOK
<1>3. Send(r) => call' \in [Replicas -> Call]
  <2>1. \A m \in 0..MaxSkew : ACall(0, m, "none") \in Call
    BY Constructors, LeaseAssumption
  <2> QED
    BY <2>1 DEF Send, TypeOK
<1>4. Return(r) => call' \in [Replicas -> Call]
  BY Constructors DEF Return, TypeOK
<1>5. Cancel(r) => work' \in [Replicas -> {"none", "running", "cancelled"}]
  BY DEF Cancel, Cancelled, TypeOK
<1>6. Forget(r) => lease' \in Lease
  <2>1. ALease(Gone, lease.left) \in Lease
    BY <1>1, Constructors
  <2> QED
    BY <2>1 DEF Forget, TypeOK
<1>7. Spend => faults' \in 0..MaxFaults
  BY LeaseAssumption DEF Spend, TypeOK
<1>8. Granted(r) \in Lease
  <2>1. TTL + call[r].ahead - call[r].age \in Expired..(TTL + MaxSkew)
    BY <1>1, LeaseAssumption DEF Expired
  <2> QED
    BY <2>1, Constructors DEF Granted
<1> QED
  BY <1>2, <1>3, <1>4, <1>5, <1>6, <1>7, <1>8

\* Time keeps the types: whatever is assumed punctual is not yet at its bound.
LEMMA TickTyped == TypeOK /\ Tick => TypeOK'
<1> SUFFICES ASSUME TypeOK, Tick PROVE TypeOK'
  OBVIOUS
<1>1. lease' \in Lease
  <2>1. /\ lease.holder \in Replicas \cup {Nobody, Gone}
        /\ lease.left \in Expired..(TTL + MaxSkew)
    BY DEF TypeOK, Lease
  <2>2. (IF lease.left > Expired THEN lease.left - 1 ELSE Expired)
          \in Expired..(TTL + MaxSkew)
    BY <2>1, LeaseAssumption DEF Expired
  <2> QED
    BY <2>1, <2>2, Constructors DEF Tick
<1>2. \A r \in Replicas : Older(r) \in Call
  <2> SUFFICES ASSUME NEW r \in Replicas PROVE Older(r) \in Call
    OBVIOUS
  <2>1. /\ call[r] \in Call
        /\ call[r].age \in 0..MaxLatency /\ call[r].ahead \in 0..MaxSkew
        /\ call[r].reply \in {"none", "yes", "no"}
    BY Typing
  <2>2. Calling(r) => call[r].age + 1 \in 0..MaxLatency
    BY <2>1, LeaseAssumption DEF Tick, Punctual
  <2> QED
    BY <2>1, <2>2, Constructors DEF Older
<1>3. \A r \in Replicas : Later(r) \in Timer
  <2> SUFFICES ASSUME NEW r \in Replicas PROVE Later(r) \in Timer
    OBVIOUS
  <2> DEFINE on == pc[r] \in {"leading", "renewing"}
             rings == on /\ timer[r].wait = 1
             wait == IF rings THEN RenewInterval
                     ELSE IF on THEN timer[r].wait - 1 ELSE timer[r].wait
             stop == IF work[r] = "cancelled" THEN timer[r].stop + 1
                     ELSE timer[r].stop
  <2>1. /\ timer[r].wait \in 1..RenewInterval /\ timer[r].due \in BOOLEAN
        /\ timer[r].stop \in 0..MaxStop
    BY Typing
  <2>2. wait \in 1..RenewInterval
    BY <2>1, LeaseAssumption
  <2>3. stop \in 0..MaxStop
    BY <2>1, LeaseAssumption DEF Tick, Punctual
  <2>4. timer[r].due \/ rings \in BOOLEAN
    BY <2>1
  <2>5. ATimer(wait, timer[r].due \/ rings, stop) \in Timer
    <3> HIDE DEF rings, wait, stop
    <3> QED
      BY <2>2, <2>3, <2>4, Constructors
  <2> QED
    BY <2>5 DEF Later
<1>4. call' \in [Replicas -> Call] /\ timer' \in [Replicas -> Timer]
  BY <1>2, <1>3 DEF Tick
<1> QED
  BY <1>1, <1>4 DEF Tick, TypeOK

\* Every step of a replica keeps the types.
LEMMA StepTyped ==
    ASSUME TypeOK, NEW r \in Replicas,
           Step(r) \/ AcquireErrs(r) \/ Shutdown(r) \/ Crash(r)
    PROVE  TypeOK'
<1> DEFINE Works3 == {"none", "running", "cancelled"}
<1>0. /\ call[r].age \in 0..MaxLatency /\ call[r].ahead \in 0..MaxSkew
      /\ timer[r].wait \in 1..RenewInterval /\ timer[r].stop \in 0..MaxStop
  BY Typing
<1>1. CASE Acquire(r)
  BY <1>1, Updates DEF Acquire, TypeOK, Steps
<1>2. CASE Refused(r)
  BY <1>2, Updates DEF Refused, TypeOK, Steps
<1>3. CASE Elected(r)
  <2>1. work' \in [Replicas -> Works3] /\ timer' \in [Replicas -> Timer]
    BY <1>3, Constructors DEF Elected, TypeOK
  <2> QED
    BY <1>3, <2>1, Updates DEF Elected, TypeOK, Steps
<1>4. CASE Quit(r)
  BY <1>4, Updates DEF Quit, TypeOK, Steps
<1>5. CASE Renew(r)
  <2>1. ATimer(timer[r].wait, FALSE, timer[r].stop) \in Timer
    BY <1>0, Constructors
  <2>2. timer' \in [Replicas -> Timer]
    BY <1>5, <2>1 DEF Renew, TypeOK
  <2> QED
    BY <1>5, <2>2, Updates DEF Renew, TypeOK, Steps
<1>6. CASE Renewed(r)
  BY <1>6, Updates DEF Renewed, TypeOK, Steps
<1>7. CASE Lost(r)
  BY <1>7, Updates DEF Lost, TypeOK, Steps
<1>8. CASE StepDown(r)
  BY <1>8, Updates DEF StepDown, TypeOK, Steps
<1>9. CASE Finished(r)
  <2>1. (IF At(r, "stopping") THEN "trying" ELSE "releasing") \in Steps
    BY DEF Steps
  <2> QED
    BY <1>9, <2>1, Updates DEF Finished, TypeOK
<1>10. CASE Release(r)
  <2>1. ALease(Nobody, Expired) \in Lease /\ lease \in Lease
    BY Constructors DEF TypeOK
  <2>2. lease' \in {ALease(Nobody, Expired), lease}
    BY <1>10 DEF Release
  <2>3. lease' \in Lease
    BY <2>1, <2>2
  <2> QED
    BY <1>10, <2>3, Updates DEF Release, TypeOK, Steps
<1>11. CASE Serve(r)
  <2>1. lease' \in Lease
    BY <1>11, Updates DEF Serve, TypeOK
  <2>2. \A y \in {"yes", "no"} : ACall(call[r].age, call[r].ahead, y) \in Call
    BY <1>0, Constructors
  <2>3. call' \in [Replicas -> Call]
    BY <1>11, <2>2 DEF Serve, TypeOK
  <2> QED
    BY <1>11, <2>1, <2>3 DEF Serve, TypeOK
<1>12. CASE WorkEnds(r)
  BY <1>12, Updates DEF WorkEnds, TypeOK
<1>13. CASE Restart(r)
  BY <1>13, Updates DEF Restart, TypeOK, Steps
<1>14. CASE AcquireErrs(r)
  BY <1>14, Updates DEF AcquireErrs, TypeOK, Steps
<1>15. CASE Shutdown(r)
  BY <1>15, Updates DEF Shutdown, TypeOK
<1>16. CASE Crash(r)
  BY <1>16, Updates DEF Crash, TypeOK, Steps
<1> QED
  BY <1>1, <1>2, <1>3, <1>4, <1>5, <1>6, <1>7, <1>8, <1>9, <1>10, <1>11, <1>12,
     <1>13, <1>14, <1>15, <1>16
     DEF Step, Run, lead

\* Stuttering keeps the types.
LEMMA StutterTyped == TypeOK /\ UNCHANGED vars => TypeOK'
BY DEF TypeOK, vars

\* Type correctness, with its content: no clock skew, latency or fault makes a
\* lease outlive TTL by more than the skew, and no deadline is overshot.
THEOREM ElectionTyped == Spec => []TypeOK
<1>1. TypeOK /\ [Next]_vars => TypeOK'
  BY TickTyped, StepTyped, StutterTyped DEF Next
<1> QED
  BY InitTyped, <1>1, PTL DEF Spec

----------------------------------------------------------------------------
(* One term at a time.                                                     *)

\* One step of a replica keeps its own terms apart and leaves those of the
\* others alone.
LEMMA StepOneTerm ==
    ASSUME TypeOK, OneTermAtATime, NEW r \in Replicas,
           Step(r) \/ AcquireErrs(r) \/ Shutdown(r) \/ Crash(r)
    PROVE  OneTermAtATime'
<1> DEFINE Term(q) ==
        /\ pc[q] \in {"down", "trying", "acquiring", "releasing"} => ~Works(q)
        /\ closing[q] \/ pc[q] \in {"stopping", "yielding"} => work[q] # "running"
<1> USE DEF At, Goto, Cancel, Cancelled, Works
<1>0. /\ Term(r)
      /\ pc[r] \in Steps /\ work[r] \in {"none", "running", "cancelled"}
      /\ r \in DOMAIN pc /\ r \in DOMAIN work /\ r \in DOMAIN closing
  BY Typing DEF OneTermAtATime, TypeOK
<1>1. \A q \in Replicas \ {r} :
         pc'[q] = pc[q] /\ work'[q] = work[q] /\ closing'[q] = closing[q]
  BY DEF Step, Run, lead, Acquire, Refused, Elected, Quit, Renew, Renewed, Lost,
         StepDown, Finished, Release, Serve, WorkEnds, Restart, AcquireErrs,
         Shutdown, Crash, TypeOK
<1>2. Term(r)'
  <2>1. CASE Acquire(r) \/ Refused(r) \/ Quit(r)
    BY <1>0, <2>1 DEF Acquire, Refused, Quit, TypeOK
  <2>2. CASE Elected(r)
    BY <1>0, <2>2 DEF Elected, TypeOK
  <2>3. CASE Renew(r) \/ Renewed(r)
    BY <1>0, <2>3 DEF Renew, Renewed, TypeOK
  <2>4. CASE Lost(r) \/ AcquireErrs(r)
    BY <1>0, <2>4 DEF Lost, AcquireErrs, Calling, TypeOK
  <2>5. CASE StepDown(r) \/ Finished(r) \/ Release(r)
    BY <1>0, <2>5 DEF StepDown, Finished, Release, TypeOK
  <2>6. CASE Serve(r) \/ WorkEnds(r)
    BY <1>0, <2>6 DEF Serve, WorkEnds, TypeOK
  <2>7. CASE Restart(r) \/ Shutdown(r) \/ Crash(r)
    BY <1>0, <2>7 DEF Restart, Shutdown, Crash, TypeOK
  <2> QED
    BY <2>1, <2>2, <2>3, <2>4, <2>5, <2>6, <2>7 DEF Step, Run, lead
<1>3. \A q \in Replicas \ {r} : Term(q)'
  BY <1>1 DEF OneTermAtATime
<1> QED
  BY <1>2, <1>3 DEF OneTermAtATime

\* "Run waits for onElected to return before attempting to (re)acquire": no
\* replica ever starts a term over a poller of its last one, or hands its lease
\* back under a poller that still runs.
THEOREM TermsDoNotOverlap == Spec => []OneTermAtATime
<1>1. Init => OneTermAtATime
  BY DEF Init, OneTermAtATime, Works
<1>2. TypeOK /\ OneTermAtATime /\ [Next]_vars => OneTermAtATime'
  <2>1. ASSUME OneTermAtATime, Tick PROVE OneTermAtATime'
    BY <2>1 DEF OneTermAtATime, Works, Tick
  <2>2. ASSUME OneTermAtATime, UNCHANGED vars PROVE OneTermAtATime'
    BY <2>2 DEF OneTermAtATime, Works, vars
  <2> QED
    BY <2>1, <2>2, StepOneTerm DEF Next
<1> QED
  BY <1>1, <1>2, ElectionTyped, PTL DEF Spec

----------------------------------------------------------------------------
(* The lease outlives the work, and so pollers never overlap.              *)

\* What LeaseOutlivesWork says of one replica: Worker(r) while its poller runs,
\* Grantee(r) while the store's yes is on its way.
Worker(r) == Works(r) => lease.holder = r /\ lease.left >= Need(r) + MaxSkew
Grantee(r) ==
    Calling(r) /\ call[r].reply = "yes"
        => lease.holder = r /\ lease.left >= TTL - call[r].age

LEMMA Parts ==
    LeaseOutlivesWork <=> (CadenceFits => \A r \in Replicas : Worker(r) /\ Grantee(r))
BY DEF LeaseOutlivesWork, Worker, Grantee

\* A poller may always need some time, and never more than a fresh grant has.
LEMMA NeedBounds ==
    ASSUME TypeOK, CadenceFits, NEW r \in Replicas
    PROVE  /\ Need(r) \in Nat
           /\ Need(r) + MaxSkew <= TTL - MaxLatency
           /\ work[r] = "cancelled" => Need(r) <= MaxStop
<1>1. /\ call[r].age \in 0..MaxLatency
      /\ timer[r].wait \in 1..RenewInterval /\ timer[r].stop \in 0..MaxStop
  BY Typing
<1> QED
  BY <1>1, LeaseAssumption DEF Need, CadenceFits

\* A replica that works or has been granted the lease is its holder: nobody
\* else's call matches, whichever clock it read and however late it arrives.
LEMMA HolderIsSafe ==
    ASSUME TypeOK, CadenceFits, NEW r \in Replicas, NEW q \in Replicas \ {r},
           Worker(q), Grantee(q),
           Works(q) \/ (Calling(q) /\ call[q].reply = "yes")
    PROVE  lease.holder = q /\ lease.holder # r /\ ~Matches(r)
<1>1. lease.holder = q /\ lease.left >= MaxSkew
  <2>1. CASE Works(q)
    BY <2>1, NeedBounds, LeaseAssumption, Typing DEF Worker
  <2>2. CASE Calling(q) /\ call[q].reply = "yes"
    <3>1. call[q].age \in 0..MaxLatency /\ lease.left \in Int
      BY Typing, LeaseAssumption DEF Expired
    <3> QED
      BY <2>2, <3>1, LeaseAssumption DEF Grantee, CadenceFits
  <2> QED
    BY <2>1, <2>2
<1>2. /\ call[r].age \in 0..MaxLatency /\ call[r].ahead \in 0..MaxSkew
      /\ lease.left \in Int
  BY Typing, LeaseAssumption DEF Expired
<1> QED
  BY <1>1, <1>2, LeaseAssumption DEF Matches
\* What a step of r does to another replica q is at most to the lease, and then
\* q is not its holder.
LEMMA OthersKept ==
    ASSUME TypeOK, CadenceFits, NEW r \in Replicas, NEW q \in Replicas \ {r},
           OneTermAtATime, Worker(q), Grantee(q),
           Step(r) \/ AcquireErrs(r) \/ Shutdown(r) \/ Crash(r)
    PROVE  Worker(q)' /\ Grantee(q)'
<1>1. /\ pc'[q] = pc[q] /\ work'[q] = work[q]
      /\ call'[q] = call[q] /\ timer'[q] = timer[q]
  BY DEF Step, Run, lead, Acquire, Refused, Elected, Quit, Renew, Renewed, Lost,
         StepDown, Finished, Release, Serve, WorkEnds, Restart, AcquireErrs,
         Shutdown, Crash, TypeOK, Goto, Return, Send, Cancel
<1>2. ASSUME lease.holder = q, ~Matches(r) PROVE lease' = lease
  <2>1. lease.holder # r
    BY <1>2
  <2> QED
    BY <1>2, <2>1
       DEF Step, Run, lead, Acquire, Refused, Elected, Quit, Renew, Renewed, Lost,
           StepDown, Finished, Release, Deletes, Serve, WorkEnds, Restart,
           AcquireErrs, Shutdown, Crash, Forget
<1>3. Works(q) \/ (Calling(q) /\ call[q].reply = "yes") => lease' = lease
  BY <1>2, HolderIsSafe
<1>4. Worker(q)'
  BY <1>1, <1>3 DEF Worker, Works, Need, At
<1>5. Grantee(q)'
  BY <1>1, <1>3 DEF Grantee, Calling
<1> QED
  BY <1>4, <1>5

\* What r's own step does to its term: a grant pays for the work it starts, and
\* every later step of the term needs no more time than the one before.
LEMMA OwnKept ==
    ASSUME TypeOK, CadenceFits, NEW r \in Replicas,
           OneTermAtATime, Worker(r), Grantee(r),
           Step(r) \/ AcquireErrs(r) \/ Shutdown(r) \/ Crash(r)
    PROVE  Worker(r)' /\ Grantee(r)'
<1> USE DEF At
<1>0. /\ lease.left \in Int
      /\ call[r].age \in 0..MaxLatency /\ call[r].ahead \in 0..MaxSkew
      /\ timer[r].wait \in 1..RenewInterval /\ timer[r].due \in BOOLEAN
      /\ timer[r].stop \in 0..MaxStop
      /\ pc[r] \in Steps /\ work[r] \in {"none", "running", "cancelled"}
  BY Typing, LeaseAssumption DEF Expired
<1>1. /\ pc[r] \in {"down", "trying", "acquiring", "releasing"} => ~Works(r)
      /\ closing[r] \/ pc[r] \in {"stopping", "yielding"} => work[r] # "running"
  BY DEF OneTermAtATime
<1>2. Need(r) \in Nat /\ Need(r) + MaxSkew <= TTL - MaxLatency
  BY NeedBounds
<1>3. CASE Acquire(r) \/ Refused(r) \/ Quit(r)
  BY <1>1, <1>3
     DEF Acquire, Refused, Quit, Worker, Grantee, Works, Calling, Goto, Return,
         Send, NoCall, ACall, TypeOK
<1>4. CASE Elected(r)
  <2>1. lease.holder = r /\ lease.left >= TTL - MaxLatency
    BY <1>0, <1>4, LeaseAssumption DEF Elected, Grantee, Calling
  <2>2. timer'[r] = NoTimer /\ work'[r] \in {"running", "cancelled"}
        /\ pc'[r] = "leading" /\ lease' = lease /\ call'[r] = NoCall
    BY <1>4 DEF Elected, Goto, Return, TypeOK
  <2>3. Need(r)' + MaxSkew <= TTL - MaxLatency
    BY <2>2, LeaseAssumption DEF Need, NoTimer, ATimer, CadenceFits
  <2>4. Need(r)' \in Int
    BY <2>2, LeaseAssumption DEF Need, NoTimer, ATimer
  <2> QED
    BY <2>1, <2>2, <2>3, <2>4, <1>0, LeaseAssumption
       DEF Worker, Grantee, Calling
<1>5. CASE Renew(r)
  <2>1. /\ pc[r] = "leading" /\ pc'[r] = "renewing" /\ timer[r].due
        /\ work' = work /\ lease' = lease
        /\ timer'[r] = ATimer(timer[r].wait, FALSE, timer[r].stop)
        /\ call'[r].age = 0 /\ call'[r].reply = "none"
    BY <1>5 DEF Renew, Goto, Send, ACall, TypeOK
  <2>2. Need(r)' = Need(r)
    BY <1>0, <2>1, LeaseAssumption DEF Need, ATimer
  <2> QED
    BY <2>1, <2>2 DEF Worker, Works, Grantee
<1>6. CASE Renewed(r)
  <2>1. /\ pc'[r] = "leading" /\ work' = work /\ lease' = lease
        /\ timer' = timer /\ call' = [call EXCEPT ![r] = NoCall]
    BY <1>6 DEF Renewed, Goto, Return, TypeOK
  <2>2. lease.holder = r /\ lease.left >= TTL - MaxLatency
    BY <1>0, <1>6, LeaseAssumption DEF Renewed, Grantee, Calling
  <2>3. Need(r)' + MaxSkew <= TTL - MaxLatency /\ Need(r)' \in Int
    BY <1>0, <2>1, LeaseAssumption DEF Need, CadenceFits
  <2> QED
    BY <1>0, <2>1, <2>2, <2>3, LeaseAssumption DEF Worker, Grantee, Calling
<1>7. CASE Lost(r) \/ AcquireErrs(r)
  <2>1. /\ lease' = lease /\ timer' = timer
        /\ pc'[r] \in {"trying", "stopping"}
        /\ work'[r] \in {work[r], "cancelled"}
        /\ work[r] = "none" => work'[r] = "none"
    BY <1>0, <1>7 DEF Lost, AcquireErrs, Goto, Return, Cancel, Cancelled, TypeOK
  <2>2. work'[r] = "cancelled" => Need(r)' <= Need(r) /\ Need(r)' \in Int
    BY <1>0, <2>1, LeaseAssumption DEF Need
  <2>3. work'[r] # "running"
    BY <1>0, <1>1, <1>7
       DEF Lost, AcquireErrs, Calling, Cancel, Cancelled, TypeOK, Works
  <2>4. work'[r] \in {"none", "cancelled"}
    BY <1>0, <2>1, <2>3
  <2> QED
    BY <1>0, <1>2, <2>1, <2>2, <2>4, LeaseAssumption
       DEF Worker, Works, Grantee, Calling
<1>8. CASE StepDown(r) \/ Finished(r) \/ Restart(r) \/ Release(r)
  <2>1. /\ work' = work /\ timer' = timer
        /\ pc'[r] \notin {"acquiring", "renewing"}
        /\ work[r] # "running"
    BY <1>0, <1>1, <1>8
       DEF StepDown, Finished, Restart, Release, Goto, Works, TypeOK
  <2>2. Works(r) => lease' = lease
    BY <1>1, <1>8 DEF StepDown, Finished, Restart, Release
  <2>3. Works(r) => Need(r)' = Need(r)
    BY <1>0, <2>1 DEF Need, Works
  <2> QED
    BY <2>1, <2>2, <2>3 DEF Worker, Works, Grantee, Calling
<1>9. CASE Serve(r)
  <2>1. /\ pc' = pc /\ work' = work /\ timer' = timer
        /\ call'[r].age = call[r].age
        /\ call'[r].reply = IF Matches(r) THEN "yes" ELSE "no"
        /\ lease' = IF Matches(r) THEN Granted(r) ELSE lease
    BY <1>9 DEF Serve, ACall, TypeOK
  <2>2. Need(r)' = Need(r)
    BY <2>1 DEF Need
  <2>3. Works(r) => Matches(r)
    BY DEF Worker, Matches
  <2>4. /\ Granted(r).holder = r
        /\ Granted(r).left = TTL + call[r].ahead - call[r].age
    BY DEF Granted, ALease
  <2>5. Granted(r).left >= TTL - call[r].age /\ Granted(r).left >= TTL - MaxLatency
    BY <1>0, <2>4, LeaseAssumption
  <2>6. Granted(r).left >= Need(r) + MaxSkew
    BY <1>0, <1>2, <2>4, <2>5, LeaseAssumption
  <2> QED
    BY <2>1, <2>2, <2>3, <2>4, <2>5, <2>6 DEF Worker, Works, Grantee
<1>10. CASE WorkEnds(r) \/ Crash(r)
  <2>1. work'[r] = "none"
    BY <1>10 DEF WorkEnds, Crash, TypeOK
  <2>2. CASE WorkEnds(r)
    BY <2>1, <2>2 DEF WorkEnds, Worker, Works, Grantee, Calling
  <2>3. CASE Crash(r)
    BY <2>1, <2>3 DEF Crash, Goto, Worker, Works, Grantee, Calling, TypeOK
  <2> QED
    BY <1>10, <2>2, <2>3
<1>11. CASE Shutdown(r)
  <2>1. /\ lease' = lease /\ timer' = timer /\ pc' = pc /\ call' = call
        /\ work'[r] = IF work[r] = "running" THEN "cancelled" ELSE work[r]
    BY <1>11 DEF Shutdown, Cancel, Cancelled, TypeOK
  <2>2. Works(r) => Need(r)' <= Need(r) /\ Need(r)' \in Int
    BY <1>0, <2>1, LeaseAssumption DEF Need, Works
  <2> QED
    BY <1>0, <1>2, <2>1, <2>2, LeaseAssumption DEF Worker, Works, Grantee, Calling
<1> QED
  BY <1>3, <1>4, <1>5, <1>6, <1>7, <1>8, <1>9, <1>10, <1>11
     DEF Step, Run, lead

\* Time passes as fast on the lease as on the work and on a call in flight.
LEMMA TickKept ==
    ASSUME TypeOK, CadenceFits, NEW r \in Replicas,
           OneTermAtATime, Worker(r), Grantee(r), Tick
    PROVE  Worker(r)' /\ Grantee(r)'
<1>0. /\ lease.left \in Int
      /\ call[r].age \in 0..MaxLatency
      /\ timer[r].wait \in 1..RenewInterval /\ timer[r].due \in BOOLEAN
      /\ timer[r].stop \in 0..MaxStop
      /\ pc[r] \in Steps /\ work[r] \in {"none", "running", "cancelled"}
      /\ Expired = -MaxLatency - 1
  BY Typing, LeaseAssumption DEF Expired
<1>1. /\ pc' = pc /\ work' = work
      /\ lease'.holder = lease.holder
      /\ lease'.left = IF lease.left > Expired THEN lease.left - 1 ELSE Expired
      /\ call'[r] = Older(r) /\ timer'[r] = Later(r)
      /\ Punctual(r)
  BY DEF Tick, ALease
<1>2. /\ Calling(r) => call'[r].age = call[r].age + 1
      /\ call'[r].reply = call[r].reply
  BY <1>1 DEF Older, ACall
<1>3. Grantee(r)'
  BY <1>0, <1>1, <1>2, LeaseAssumption DEF Grantee, Calling
<1>4. ASSUME Works(r) PROVE Need(r)' = Need(r) - 1 /\ Need(r) \in Nat
  <2>1. Need(r) \in Nat
    BY NeedBounds
  <2>2. CASE work[r] = "cancelled"
    BY <1>0, <1>1, <2>2, LeaseAssumption DEF Later, ATimer, Need
  <2>3. CASE work[r] = "running" /\ pc[r] = "renewing"
    BY <1>0, <1>1, <1>2, <2>3, LeaseAssumption DEF Need, At, Calling
  <2>4. CASE work[r] = "running" /\ pc[r] = "leading"
    <3>1. ~timer[r].due
      BY <1>1, <2>4 DEF Punctual, Ready, At
    <3> DEFINE rings == pc[r] \in {"leading", "renewing"} /\ timer[r].wait = 1
    <3>2. timer'[r].due = (timer[r].due \/ rings)
      <4>1. \A w, d, e : ATimer(w, d, e).due = d
        BY DEF ATimer
      <4>2. PICK w, e : Later(r) = ATimer(w, timer[r].due \/ rings, e)
        BY Zenon DEF Later
      <4>3. timer'[r] = ATimer(w, timer[r].due \/ rings, e)
        BY <1>1, <4>2, Zenon
      <4>4. ATimer(w, timer[r].due \/ rings, e).due = (timer[r].due \/ rings)
        BY <4>1, Zenon
      <4> QED
        BY <4>3, <4>4, Zenon
    <3>3. timer[r].wait = 1 => timer'[r].due
      BY <3>2, <2>4, Zenon
    <3>4. timer[r].wait # 1
            => ~timer'[r].due /\ timer'[r].wait = timer[r].wait - 1
      <4>1. timer[r].wait # 1 => ~timer'[r].due
        BY <3>1, <3>2, Zenon
      <4>2. timer[r].wait # 1 => timer'[r].wait = timer[r].wait - 1
        BY <1>1, <2>4 DEF Later, ATimer
      <4> QED
        BY <4>1, <4>2
    <3> QED
      BY <1>0, <1>1, <2>4, <3>1, <3>3, <3>4, LeaseAssumption DEF Need, At
  <2>5. work[r] = "running" => pc[r] \in {"leading", "renewing"}
    BY <1>0 DEF OneTermAtATime, Works, Steps
  <2> QED
    BY <1>0, <1>4, <2>1, <2>2, <2>3, <2>4, <2>5 DEF Works
<1>5. Worker(r)'
  BY <1>0, <1>1, <1>4, LeaseAssumption DEF Worker, Works
<1> QED
  BY <1>3, <1>5

\* Whoever runs the poller holds the lease for longer than it may yet run, and
\* no store call, clock or fault of another replica takes it away.
THEOREM LeaseCoversWork == Spec => []LeaseOutlivesWork
<1>1. Init => LeaseOutlivesWork
  BY DEF Init, LeaseOutlivesWork, Works, Calling
<1>2. ASSUME TypeOK, OneTermAtATime, LeaseOutlivesWork, [Next]_vars
      PROVE  LeaseOutlivesWork'
  <2> SUFFICES ASSUME CadenceFits PROVE \A q \in Replicas : Worker(q)' /\ Grantee(q)'
    BY DEF LeaseOutlivesWork, Worker, Grantee, CadenceFits
  <2> TAKE q \in Replicas
  <2>1. Worker(q) /\ Grantee(q)
    BY <1>2, Parts
  <2>2. CASE Tick
    BY <1>2, <2>1, <2>2, TickKept
  <2>3. ASSUME NEW r \in Replicas,
               Step(r) \/ AcquireErrs(r) \/ Shutdown(r) \/ Crash(r)
        PROVE  Worker(q)' /\ Grantee(q)'
    <3>1. CASE r = q
      BY <1>2, <2>1, <2>3, <3>1, OwnKept
    <3>2. CASE r # q
      <4>1. q \in Replicas \ {r}
        BY <3>2
      <4> QED
        BY <1>2, <2>1, <2>3, <4>1, OthersKept
    <3> QED
      BY <3>1, <3>2
  <2>4. CASE UNCHANGED vars
    BY <2>1, <2>4 DEF vars, Worker, Grantee, Works, Calling, Need, At
  <2> QED
    BY <1>2, <2>2, <2>3, <2>4 DEF Next
<1> QED
  BY <1>1, <1>2, ElectionTyped, TermsDoNotOverlap, PTL DEF Spec

\* Two replicas cannot both hold the lease, so they cannot both work.
LEMMA HoldersAreOne == LeaseOutlivesWork => AtMostOnePoller
BY DEF LeaseOutlivesWork, AtMostOnePoller

\* "Only the leader for a key runs that tray type's scale set poller": while the
\* cadence fits, pollers of two replicas never overlap.
THEOREM PollersNeverOverlap == Spec => []AtMostOnePoller
BY LeaseCoversWork, HoldersAreOne, PTL

----------------------------------------------------------------------------
(* LeaseElection implements Leadership.                                    *)

\* What the refinement mapping takes for the leader.
LEMMA LeaderIs ==
    ASSUME CadenceFits, AtMostOnePoller
    PROVE  /\ \A r \in Replicas : Works(r) => Leader = r
           /\ (\A r \in Replicas : ~Works(r)) => Leader = Nobody
BY DEF AtMostOnePoller, Leader

\* A step of r that does not change whether r works leaves the leader as it is.
LEMMA LeaderKept ==
    ASSUME \A q \in Replicas : (work[q] # "none") = (work'[q] # "none")
    PROVE  Leader' = Leader
<1>1. \A q \in Replicas : Works(q)' <=> Works(q)
  BY DEF Works
<1>2. (\E q \in Replicas : Works(q))' <=> \E q \in Replicas : Works(q)
  BY <1>1
<1>3. (CHOOSE q \in Replicas : Works(q)') = (CHOOSE q \in Replicas : Works(q))
  BY <1>1
<1> QED
  BY <1>2, <1>3 DEF Leader

\* Each step of the election is a step of Leadership or changes nothing there:
\* Elected elects, the poller's return and a crash resign.
LEMMA StepRefines ==
    ASSUME TypeOK, OneTermAtATime, LeaseOutlivesWork, LeaseOutlivesWork',
           CadenceFits, [Next]_vars
    PROVE  Promise!Next \/ UNCHANGED Leader
<1>0. /\ AtMostOnePoller /\ AtMostOnePoller'
      /\ CadenceFits'
  BY HoldersAreOne DEF CadenceFits, LeaseOutlivesWork, AtMostOnePoller, Works
<1>1. CASE Tick \/ UNCHANGED vars
  BY <1>1, LeaderKept DEF Tick, vars
<1>2. ASSUME NEW r \in Replicas,
             Step(r) \/ AcquireErrs(r) \/ Shutdown(r) \/ Crash(r)
      PROVE  Promise!Next \/ UNCHANGED Leader
  <2>0. /\ \A q \in Replicas \ {r} : work'[q] = work[q]
        /\ work[r] \in {"none", "running", "cancelled"}
    BY <1>2, Typing
       DEF Step, Run, lead, Acquire, Refused, Elected, Quit, Renew, Renewed, Lost,
           StepDown, Finished, Release, Serve, WorkEnds, Restart, AcquireErrs,
           Shutdown, Crash, TypeOK, Cancel
  <2>1. CASE Elected(r)
    <3>1. ~Works(r) /\ lease.holder = r /\ work'[r] # "none"
      BY <2>1
         DEF Elected, At, Calling, OneTermAtATime, LeaseOutlivesWork, TypeOK
    <3>2. \A q \in Replicas : ~Works(q)
      BY <3>1 DEF LeaseOutlivesWork
    <3>3. Leader = Nobody
      BY <1>0, <3>2, LeaderIs
    <3>4. Leader' = r
      BY <1>0, <3>1 DEF AtMostOnePoller, Leader, Works
    <3> QED
      BY <3>3, <3>4 DEF Promise!Next, Promise!Elect
  <2>2. CASE (WorkEnds(r) \/ Crash(r)) /\ Works(r)
    <3>1. work'[r] = "none"
      BY <2>2 DEF WorkEnds, Crash, TypeOK
    <3>2. Leader = r /\ r # Nobody
      BY <1>0, <2>2, LeaderIs, LeaseAssumption
    <3>3. \A q \in Replicas : work'[q] = "none"
      BY <1>0, <2>0, <2>2, <3>1 DEF AtMostOnePoller, Works
    <3>4. Leader' = Nobody
      BY <3>3 DEF Leader, Works
    <3> QED
      BY <3>2, <3>4 DEF Promise!Next, Promise!Resign
  <2>3. CASE ~Elected(r) /\ ~((WorkEnds(r) \/ Crash(r)) /\ Works(r))
    <3>1. (work[r] # "none") = (work'[r] # "none")
      BY <1>2, <2>0, <2>3
         DEF Step, Run, lead, Acquire, Refused, Quit, Renew, Renewed, Lost,
             StepDown, Finished, Release, Serve, WorkEnds, Restart, AcquireErrs,
             Shutdown, Crash, TypeOK, Cancel, Cancelled, Works
    <3> QED
      BY <2>0, <3>1, LeaderKept
  <2> QED
    BY <2>1, <2>2, <2>3
<1> QED
  BY <1>1, <1>2 DEF Next

\* While the cadence fits, the lease protocol on MongoDB implements the abstract
\* election: one leader at a time, nobody in between (safety; that somebody leads
\* again is checked by TLC as KeepsPromise).
THEOREM ImplementsLeadership ==
    ASSUME CadenceFits
    PROVE  Spec => Promise!Spec
<1>1. Init => Promise!Init
  BY DEF Init, Promise!Init, Leader, Works
<1>2. TypeOK /\ OneTermAtATime /\ LeaseOutlivesWork /\ LeaseOutlivesWork'
        /\ [Next]_vars => [Promise!Next]_Leader
  BY StepRefines
<1> QED
  BY <1>1, <1>2, ElectionTyped, TermsDoNotOverlap, LeaseCoversWork, PTL
     DEF Spec, Promise!Spec
=============================================================================
