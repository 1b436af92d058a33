------------------------------- MODULE Cadence -------------------------------
(***************************************************************************)
(* The cadence of leader election: how the configured lease timings become *)
(* the three windows of the Kubernetes elector, and what those windows     *)
(* have to satisfy.  A duration is a number of some unit; 0 stands for a   *)
(* value that is not set.                                                  *)
(***************************************************************************)
EXTENDS Integers

ACadence(ttl, renew) == [ttl |-> ttl, renew |-> renew]

\* DefaultLeaseTTL, in seconds.
DefaultTTL == 30

\* CoordinationConfig.WithDefaults and LeaseConfig.withDefaults: the second
\* finds nothing left to do.
WithDefaults(c) ==
    LET ttl == IF c.ttl <= 0 THEN DefaultTTL ELSE c.ttl
    IN  ACadence(ttl, IF c.renew <= 0 THEN ttl \div 3 ELSE c.renew)

AWindows(lease, deadline, retry) ==
    [lease |-> lease, deadline |-> deadline, retry |-> retry]

\* newK8sElector: two thirds of TTL to renew in, clamped from below by the
\* renewal interval; the lease is clamped from below by that.
DeadlineOf(c) ==
    LET deadline == (c.ttl * 2) \div 3
    IN  IF deadline <= c.renew THEN c.renew + c.renew \div 2 ELSE deadline

LeaseOf(c) ==
    IF c.ttl <= DeadlineOf(c) THEN DeadlineOf(c) + DeadlineOf(c) \div 2 ELSE c.ttl

K8sWindows(config) ==
    LET c == WithDefaults(config)
    IN  AWindows(LeaseOf(c), DeadlineOf(c), c.renew)

\* NewLeaderElector (client-go): "leaseDuration must be greater than
\* renewDeadline", and that greater than retryPeriod * JitterFactor, 1.2.
Accepted(w) ==
    /\ w.lease > w.deadline /\ 5 * w.deadline > 6 * w.retry
    /\ w.deadline > 0 /\ w.retry > 0

\* A leader's first attempt to renew comes a retry period after its last
\* success; only then does the deadline start.
GivesUpAfter(w) == w.retry + w.deadline
=============================================================================
