--------------------------- MODULE RestarterProofs ---------------------------
(***************************************************************************)
(* RerunsBounded of Restarter, for any number of runs and replicas.  What  *)
(* makes it inductive is the count, next to the reruns made, of the        *)
(* replicas that may still make one of the same request: those that have   *)
(* it in their list, and, while it is stored, those that may list it.      *)
(* Who has rerun and is about to delete owes none, until a fault.          *)
(***************************************************************************)
EXTENDS Restarter, FiniteSetTheorems, TLAPS

\* The list of r names w.
Mentions(r, w) == \E l \in loop[r].todo : l.run = w

\* r has listed the request of w, and has not decided about it.
Holds(r, w) ==
    \/ Mentions(r, w)
    \/ loop[r].pc \in {"info", "pulls", "rerun"} /\ Current(r) = w

Deletes(r, w) == At(r, "delete") /\ Current(r) = w

\* r may rerun w, without a fault and without a new interrupt.
Owes(r, w) == Holds(r, w) \/ (w \in Pending /\ ~Deletes(r, w))
Owing(w) == {r \in Replicas : Owes(r, w)}

Budget(w) == Cardinality(Replicas) * saves[w] + faults

\* Reruns made and reruns to come are paid for by interrupts and faults.
Paid == \A w \in Runs : reruns[w] + Cardinality(Owing(w)) <= Budget(w)

\* A run is listed once, and no more while it is worked on.
ListedOnce ==
    \A r \in Replicas :
        /\ \A l, m \in loop[r].todo : l.run = m.run => l = m
        /\ loop[r].pc \in {"expire", "info", "pulls", "rerun", "delete"} =>
             Current(r) \in Runs /\ \A l \in loop[r].todo : l.run # Current(r)

RInv == TypeOK /\ ListedOnce /\ Paid

Steps == {"expire", "info", "pulls", "rerun", "delete"}

LEMMA LoopFields ==
    ASSUME TypeOK, NEW r \in Replicas
    PROVE  /\ loop[r].pc \in {"asleep", "next"} \cup Steps
           /\ loop[r].todo \subseteq Listings
           /\ loop[r].run \in Runs \cup {NoRun}
           /\ loop[r] = ALoop(loop[r].pc, loop[r].todo, loop[r].run)
PROOF
  BY DEF TypeOK, Steps, ALoop

LEMMA GotoMoves ==
    ASSUME TypeOK, NEW r \in Replicas, NEW pc, Goto(r, pc)
    PROVE  loop' = [loop EXCEPT ![r] = ALoop(pc, loop[r].todo, Current(r))]
PROOF
  <1>1. loop[r] = [pc |-> loop[r].pc, todo |-> loop[r].todo, run |-> loop[r].run]
    BY LoopFields DEF ALoop
  <1>2. [loop[r] EXCEPT !.pc = pc] = [pc |-> pc, todo |-> loop[r].todo, run |-> loop[r].run]
    BY <1>1
  <1>. QED
    BY <1>2 DEF Goto, ALoop, Current

LEMMA Listed == \A w \in Runs, old \in BOOLEAN : AListing(w, old) \in Listings
PROOF
  BY DEF AListing, Listings
-------------------------------------------------------------------------------
(* Types.                                                                  *)

LEMMA LoopTyped ==
    ASSUME TypeOK, NEW r \in Replicas,
           NEW pc \in {"asleep", "next"} \cup Steps,
           NEW todo \in SUBSET Listings, NEW w \in Runs \cup {NoRun},
           loop' = [loop EXCEPT ![r] = ALoop(pc, todo, w)]
    PROVE  loop' \in [Replicas ->
             [pc: {"asleep", "next", "expire", "info", "pulls", "rerun", "delete"},
              todo: SUBSET Listings, run: Runs \cup {NoRun}]]
PROOF
  BY DEF TypeOK, ALoop, Steps

\* Where a step takes the loop of r.
LEMMA PollMoves ==
    ASSUME TypeOK, NEW r \in Replicas, Poll(r) \/ PollFails(r)
    PROVE  \E pc \in {"asleep", "next"} \cup Steps, todo \in SUBSET Listings,
              w \in Runs \cup {NoRun} :
              loop' = [loop EXCEPT ![r] = ALoop(pc, todo, w)]
PROOF
  <1>1. /\ loop[r].todo \in SUBSET Listings /\ Current(r) \in Runs \cup {NoRun}
        /\ Asleep = ALoop("asleep", {}, NoRun)
    BY LoopFields DEF Current, Asleep
  <1>2. CASE List(r)
    <2>1. {AListing(w, request[w] = "old") : w \in Pending} \in SUBSET Listings
      <3>1. ASSUME NEW w \in Pending
            PROVE  AListing(w, request[w] = "old") \in Listings
        <4>1. w \in Runs /\ (request[w] = "old") \in BOOLEAN
          BY DEF Pending
        <4>. QED
          BY <4>1, Listed
      <3>. QED
        BY <3>1
    <2>. QED
      BY <1>2, <2>1 DEF List
  <1>3. CASE Take(r)
    <2>1. PICK l \in loop[r].todo :
            loop' = [loop EXCEPT ![r] =
              ALoop(IF l.old THEN "expire" ELSE "info", loop[r].todo \ {l}, l.run)]
      BY <1>3, LoopFields DEF Take
    <2>2. l.run \in Runs
      BY <1>1 DEF Listings
    <2>. QED
      BY <1>1, <2>1, <2>2 DEF Steps
  <1>4. CASE Sleep(r) \/ Crash(r)
    BY <1>1, <1>4 DEF Sleep, Crash
  <1>5. CASE \/ DeleteExpired(r) \/ GetWorkflowRunInfo(r) \/ branchPRClosed(r)
             \/ RestartFailedJobs(r) \/ DeleteRequest(r) \/ Forbidden(r)
             \/ RestartUnanswered(r) \/ CallFails(r)
    <2>1. \E pc \in {"next"} \cup Steps : Goto(r, pc)
      BY <1>5 DEF DeleteExpired, GetWorkflowRunInfo, AfterInfo, branchPRClosed,
                  RestartFailedJobs, DeleteRequest, Forbidden, RestartUnanswered,
                  CallFails, Steps
    <2>. QED
      BY <1>1, <2>1, GotoMoves
  <1>. QED
    BY <1>2, <1>3, <1>4, <1>5 DEF Poll, PollFails

LEMMA PollTyped ==
    ASSUME TypeOK, NEW r \in Replicas, Poll(r) \/ PollFails(r)
    PROVE  TypeOK'
PROOF
  <1>1. loop' \in [Replicas ->
          [pc: {"asleep", "next", "expire", "info", "pulls", "rerun", "delete"},
           todo: SUBSET Listings, run: Runs \cup {NoRun}]]
    BY PollMoves, LoopTyped
  <1>2. request' \in [Runs -> {"none", "fresh", "old"}]
    <2>1. request' = request \/ request' = [request EXCEPT ![Current(r)] = "none"]
      BY DEF Poll, PollFails, List, Sleep, Take, DeleteExpired, GetWorkflowRunInfo,
             branchPRClosed, RestartFailedJobs, DeleteRequest, Forbidden,
             RestartUnanswered, CallFails, Crash, Removed
    <2>. QED
      BY <2>1 DEF TypeOK
  <1>3. /\ run' \in [Runs -> {"running", "failed", "passed"}]
        /\ reruns' \in [Runs -> Nat]
        /\ UNCHANGED <<event, pull>>
    <2>1. UNCHANGED github \/ Rerun(Current(r))
      BY DEF Poll, PollFails, List, Sleep, Take, DeleteExpired, GetWorkflowRunInfo,
             branchPRClosed, RestartFailedJobs, DeleteRequest, Forbidden,
             RestartUnanswered, CallFails, Crash
    <2>. QED
      BY <2>1 DEF Rerun, github, TypeOK
  <1>4. /\ UNCHANGED <<saves, expired>>
        /\ faults' = faults \/ Spend
    BY DEF Poll, PollFails, List, Sleep, Take, DeleteExpired, GetWorkflowRunInfo,
           branchPRClosed, RestartFailedJobs, DeleteRequest, Forbidden,
           RestartUnanswered, CallFails, Crash
  <1>5. faults' \in 0..MaxFaults
    BY <1>4, RestarterAssumption DEF TypeOK, Spend
  <1>. QED
    BY <1>1, <1>2, <1>3, <1>4, <1>5 DEF TypeOK

LEMMA RunTyped ==
    ASSUME TypeOK, NEW w \in Runs,
           \/ AgentInterrupt(w) \/ GetsOld(w)
           \/ Completes(w) \/ PullRequestCloses(w)
    PROVE  TypeOK'
PROOF
  <1>1. CASE AgentInterrupt(w)
    <2>1. saves' \in [Runs -> 0..MaxSaves]
      BY <1>1, RestarterAssumption DEF AgentInterrupt, TypeOK
    <2>. QED
      BY <1>1, <2>1 DEF AgentInterrupt, TypeOK, github
  <1>2. CASE GetsOld(w)
    <2>1. ASSUME NEW r \in Replicas
          PROVE  {IF l.run = w THEN AListing(w, TRUE) ELSE l : l \in loop[r].todo}
                   \subseteq Listings
      <3>1. AListing(w, TRUE) \in Listings /\ loop[r].todo \subseteq Listings
        BY LoopFields, Listed
      <3>. QED
        BY <3>1
    <2>2. loop' \in [Replicas ->
            [pc: {"asleep", "next", "expire", "info", "pulls", "rerun", "delete"},
             todo: SUBSET Listings, run: Runs \cup {NoRun}]]
      <3>1. ASSUME NEW r \in Replicas, NEW todo \in SUBSET Listings
            PROVE  [loop[r] EXCEPT !.todo = todo] \in
                     [pc: {"asleep", "next", "expire", "info", "pulls", "rerun", "delete"},
                      todo: SUBSET Listings, run: Runs \cup {NoRun}]
        BY DEF TypeOK
      <3>. QED
        BY <1>2, <2>1, <3>1 DEF GetsOld
    <2>. QED
      BY <1>2, <2>2 DEF GetsOld, TypeOK, github
  <1>3. CASE Completes(w) \/ PullRequestCloses(w)
    BY <1>3 DEF Completes, PullRequestCloses, TypeOK
  <1>. QED
    BY <1>1, <1>2, <1>3

LEMMA InitTyped ==
    ASSUME Init
    PROVE  TypeOK
PROOF
  <1>1. Asleep \in [pc: {"asleep", "next", "expire", "info", "pulls", "rerun", "delete"},
                    todo: SUBSET Listings, run: Runs \cup {NoRun}]
    BY DEF Asleep, ALoop
  <1>. QED
    BY <1>1, RestarterAssumption DEF Init, TypeOK

LEMMA StepTyped ==
    ASSUME TypeOK, [Next]_vars
    PROVE  TypeOK'
PROOF
  <1>1. CASE UNCHANGED vars
    BY <1>1 DEF vars, TypeOK
  <1>. QED
    BY <1>1, PollTyped, RunTyped DEF Next

\* Every variable keeps its type, for any runs, replicas, interrupts and faults.
THEOREM RestarterTyped == Spec => []TypeOK
PROOF
  <1>1. Init => TypeOK
    BY InitTyped
  <1>2. TypeOK /\ [Next]_vars => TypeOK'
    BY StepTyped
  <1>. QED
    BY <1>1, <1>2, PTL DEF Spec
-------------------------------------------------------------------------------
(* What a loop has listed.                                                 *)

LEMMA PollListsOnce ==
    ASSUME TypeOK, ListedOnce, NEW r \in Replicas, Poll(r) \/ PollFails(r)
    PROVE  ListedOnce'
PROOF
  <1>0. loop \in [Replicas -> [pc: {"asleep", "next"} \cup Steps,
                               todo: SUBSET Listings, run: Runs \cup {NoRun}]]
    BY DEF TypeOK, Steps
  <1>1. CASE List(r)
    <2>1. loop' = [loop EXCEPT ![r] =
            ALoop("next", {AListing(w, request[w] = "old") : w \in Pending}, NoRun)]
      BY <1>1 DEF List
    <2>2. \A l, m \in {AListing(w, request[w] = "old") : w \in Pending} :
            l.run = m.run => l = m
      BY DEF AListing
    <2>. QED
      BY <1>0, <2>1, <2>2 DEF ListedOnce, ALoop, Current
  <1>2. CASE Take(r)
    <2>1. PICK l \in loop[r].todo :
            loop' = [loop EXCEPT ![r] =
              ALoop(IF l.old THEN "expire" ELSE "info", loop[r].todo \ {l}, l.run)]
      BY <1>0, <1>2 DEF Take
    <2>2. l.run \in Runs /\ \A m \in loop[r].todo \ {l} : m.run # l.run
      BY <1>0 DEF Listings, ListedOnce
    <2>. QED
      BY <1>0, <2>1, <2>2 DEF ListedOnce, ALoop, Current
  <1>3. CASE Sleep(r) \/ Crash(r)
    <2>1. loop' = [loop EXCEPT ![r] = ALoop("asleep", {}, NoRun)]
      BY <1>3 DEF Sleep, Crash, Asleep
    <2>. QED
      BY <1>0, <2>1 DEF ListedOnce, ALoop, Current
  <1>4. CASE \/ DeleteExpired(r) \/ GetWorkflowRunInfo(r) \/ branchPRClosed(r)
             \/ RestartFailedJobs(r) \/ DeleteRequest(r) \/ Forbidden(r)
             \/ RestartUnanswered(r) \/ CallFails(r)
    <2>1. loop[r].pc \in Steps /\ \E pc \in {"next"} \cup Steps : Goto(r, pc)
      BY <1>4 DEF DeleteExpired, GetWorkflowRunInfo, AfterInfo, branchPRClosed,
                  RestartFailedJobs, DeleteRequest, Forbidden, RestartUnanswered,
                  CallFails, Steps, At
    <2>2. PICK pc \in {"next"} \cup Steps :
            loop' = [loop EXCEPT ![r] = ALoop(pc, loop[r].todo, Current(r))]
      BY <2>1, GotoMoves
    <2>. QED
      BY <1>0, <2>1, <2>2 DEF ListedOnce, ALoop, Current, Steps
  <1>. QED
    BY <1>1, <1>2, <1>3, <1>4 DEF Poll, PollFails

LEMMA GetsOldListed ==
    ASSUME TypeOK, ListedOnce, NEW w \in Runs, GetsOld(w)
    PROVE  /\ Pending' = Pending
           /\ \A r \in Replicas : /\ loop'[r].pc = loop[r].pc
                                  /\ loop'[r].run = loop[r].run
                                  /\ \A u : Mentions(r, u)' <=> Mentions(r, u)
           /\ ListedOnce'
PROOF
  <1>. DEFINE Old(r) == {IF l.run = w THEN AListing(w, TRUE) ELSE l : l \in loop[r].todo}
  <1>1. Pending' = Pending
    BY DEF GetsOld, Pending, TypeOK
  <1>2. \A r \in Replicas : /\ loop'[r].pc = loop[r].pc /\ loop'[r].run = loop[r].run
                            /\ loop'[r].todo = Old(r)
    BY DEF GetsOld, TypeOK
  <1>3. ASSUME NEW r \in Replicas
        PROVE  /\ \A u : (\E l \in Old(r) : l.run = u) <=> (\E l \in loop[r].todo : l.run = u)
               /\ \A l, m \in Old(r) : l.run = m.run => l = m
    <2>1. AListing(w, TRUE).run = w
      BY DEF AListing
    <2>2. \A l, m \in loop[r].todo : l.run = m.run => l = m
      BY DEF ListedOnce
    <2>. QED
      BY <2>1, <2>2
  <1>. HIDE DEF Old
  <1>4. ASSUME NEW r \in Replicas, NEW u
        PROVE  Mentions(r, u)' <=> Mentions(r, u)
    <2>1. loop'[r].todo = Old(r)
      BY <1>2
    <2>2. (\E l \in Old(r) : l.run = u) <=> (\E l \in loop[r].todo : l.run = u)
      BY <1>3
    <2>. QED
      BY <2>1, <2>2 DEF Mentions
  <1>5. ListedOnce'
    <2>1. ASSUME NEW r \in Replicas
          PROVE  /\ \A l, m \in loop'[r].todo : l.run = m.run => l = m
                 /\ loop'[r].pc \in {"expire", "info", "pulls", "rerun", "delete"} =>
                      /\ loop'[r].run \in Runs
                      /\ \A l \in loop'[r].todo : l.run # loop'[r].run
      <3>1. \A l, m \in loop'[r].todo : l.run = m.run => l = m
        BY <1>2, <1>3
      <3>2. loop'[r].pc \in {"expire", "info", "pulls", "rerun", "delete"} =>
              loop'[r].run \in Runs /\ ~Mentions(r, loop'[r].run)
        BY <1>2 DEF ListedOnce, Current, Mentions
      <3>3. ~Mentions(r, loop[r].run) => \A l \in loop'[r].todo : l.run # loop[r].run
        BY <1>4 DEF Mentions
      <3>. QED
        BY <1>2, <3>1, <3>2, <3>3
    <2>. QED
      BY <2>1 DEF ListedOnce, Current
  <1>. QED
    BY <1>1, <1>2, <1>4, <1>5
-------------------------------------------------------------------------------
(* Who may still rerun.                                                    *)

LEMMA OwingCounted ==
    /\ \A w : IsFiniteSet(Owing(w)) /\ Cardinality(Owing(w)) \in Nat
    /\ Cardinality(Replicas) \in Nat
PROOF
  <1>1. \A w : Owing(w) \in SUBSET Replicas
    BY DEF Owing
  <1>. QED
    BY <1>1, RestarterAssumption, FS_Subset, FS_CardinalityType

\* A step without an interrupt, whose price faults pay.
LEMMA StillPaid ==
    ASSUME TypeOK, Paid, NEW w \in Runs, UNCHANGED saves,
           NEW d \in Nat, NEW e \in Nat, NEW k \in Nat,
           reruns'[w] = reruns[w] + d, faults' = faults + k,
           Cardinality(Owing(w)') \in Nat,
           Cardinality(Owing(w)') + d <= Cardinality(Owing(w)) + k
    PROVE  reruns'[w] + Cardinality(Owing(w)') <= Budget(w)'
PROOF
  <1>1. reruns[w] \in Nat /\ faults \in Nat /\ saves[w] \in Nat
    BY RestarterAssumption DEF TypeOK
  <1>2. Cardinality(Replicas) * saves[w] \in Nat
    BY <1>1, OwingCounted
  <1>3. Budget(w)' = Cardinality(Replicas) * saves[w] + faults'
    BY DEF Budget
  <1>4. reruns[w] + Cardinality(Owing(w)) <= Cardinality(Replicas) * saves[w] + faults
    BY DEF Paid, Budget
  <1>. QED
    BY <1>1, <1>2, <1>3, <1>4, OwingCounted

\* The loops of the other replicas owe no more when requests only go.
LEMMA OthersOwe ==
    ASSUME NEW r \in Replicas, NEW q \in Replicas \ {r}, NEW w \in Runs,
           loop'[q] = loop[q], Pending' \subseteq Pending, Owes(q, w)'
    PROVE  Owes(q, w)
PROOF
  BY DEF Owes, Holds, Mentions, Deletes, At, Current

LEMMA OwingShrinks ==
    ASSUME NEW r \in Replicas, NEW w \in Runs,
           \A q \in Replicas \ {r} : loop'[q] = loop[q],
           Pending' \subseteq Pending
    PROVE  /\ Owing(w)' \subseteq Owing(w) \cup {r}
           /\ (Owes(r, w)' => Owes(r, w)) => Owing(w)' \subseteq Owing(w)
           /\ ~Owes(r, w)' => Owing(w)' \subseteq Owing(w) \ {r}
PROOF
  <1>1. \A q \in Replicas \ {r} : Owes(q, w)' => Owes(q, w)
    BY OthersOwe
  <1>2. Owing(w)' = {q \in Replicas : Owes(q, w)'}
    BY DEF Owing
  <1>. QED
    BY <1>1, <1>2 DEF Owing

\* How the number of those that owe follows.
LEMMA OwingCounts ==
    ASSUME NEW r \in Replicas, NEW w \in Runs
    PROVE  /\ Owing(w)' \subseteq Owing(w) =>
                /\ Cardinality(Owing(w)') \in Nat
                /\ Cardinality(Owing(w)') <= Cardinality(Owing(w))
           /\ Owing(w)' \subseteq Owing(w) \cup {r} =>
                /\ Cardinality(Owing(w)') \in Nat
                /\ Cardinality(Owing(w)') <= Cardinality(Owing(w)) + 1
           /\ (Owes(r, w) /\ Owing(w)' \subseteq Owing(w) \ {r}) =>
                /\ Cardinality(Owing(w)') \in Nat
                /\ Cardinality(Owing(w)') + 1 <= Cardinality(Owing(w))
PROOF
  <1>1. IsFiniteSet(Owing(w)) /\ Cardinality(Owing(w)) \in Nat
    BY OwingCounted
  <1>2. ASSUME NEW S, IsFiniteSet(S), Owing(w)' \subseteq S
        PROVE  /\ Cardinality(Owing(w)') \in Nat
               /\ Cardinality(Owing(w)') <= Cardinality(S)
    BY <1>2, FS_Subset, FS_CardinalityType
  <1>3. /\ IsFiniteSet(Owing(w) \cup {r})
        /\ Cardinality(Owing(w) \cup {r}) <= Cardinality(Owing(w)) + 1
        /\ Cardinality(Owing(w) \cup {r}) \in Nat
    <2>1. /\ IsFiniteSet(Owing(w) \cup {r})
          /\ Cardinality(Owing(w) \cup {r}) \in
               {Cardinality(Owing(w)), Cardinality(Owing(w)) + 1}
      BY <1>1, FS_AddElement
    <2>. QED
      BY <1>1, <2>1
  <1>4. /\ IsFiniteSet(Owing(w) \ {r})
        /\ Cardinality(Owing(w) \ {r}) \in Nat
        /\ Owes(r, w) => Cardinality(Owing(w) \ {r}) = Cardinality(Owing(w)) - 1
    BY <1>1, FS_RemoveElement, FS_CardinalityType DEF Owing
  <1>. QED
    BY <1>1, <1>2, <1>3, <1>4

LEMMA RequestsOnlyGo ==
    ASSUME TypeOK, NEW r \in Replicas, Poll(r) \/ PollFails(r)
    PROVE  /\ Pending' \subseteq Pending
           /\ \A q \in Replicas \ {r} : loop'[q] = loop[q]
           /\ saves' = saves
PROOF
  <1>1. \A q \in Replicas \ {r} : loop'[q] = loop[q]
    BY PollMoves DEF TypeOK
  <1>2. /\ request' = request \/ request' = [request EXCEPT ![Current(r)] = "none"]
        /\ saves' = saves
    BY DEF Poll, PollFails, List, Sleep, Take, DeleteExpired, GetWorkflowRunInfo,
           branchPRClosed, RestartFailedJobs, DeleteRequest, Forbidden,
           RestartUnanswered, CallFails, Crash, Removed
  <1>. QED
    BY <1>1, <1>2 DEF Pending, TypeOK

\* A poll that fails no call and reruns nothing adds nobody to those that owe.
LEMMA QuietPollOwes ==
    ASSUME TypeOK, ListedOnce, NEW r \in Replicas, NEW w \in Runs, Owes(r, w)',
           \/ List(r) \/ Sleep(r) \/ Take(r) \/ DeleteExpired(r)
           \/ GetWorkflowRunInfo(r) \/ branchPRClosed(r) \/ DeleteRequest(r)
           \/ Forbidden(r) \/ RestartUnanswered(r)
           \/ RestartFailedJobs(r) /\ run[Current(r)] # "failed"
    PROVE  Owes(r, w)
PROOF
  <1>0. loop \in [Replicas -> [pc: {"asleep", "next"} \cup Steps,
                               todo: SUBSET Listings, run: Runs \cup {NoRun}]]
    BY DEF TypeOK, Steps
  <1>. USE DEF Owes, Holds, Mentions, Deletes, At, Current
  <1>1. CASE List(r)
    <2>1. /\ loop'[r] = ALoop("next", {AListing(u, request[u] = "old") : u \in Pending}, NoRun)
          /\ loop[r].pc = "asleep" /\ Pending' = Pending
      BY <1>0, <1>1 DEF List, Pending
    <2>. QED
      BY <2>1 DEF ALoop, AListing
  <1>2. CASE Sleep(r)
    <2>1. /\ loop'[r] = ALoop("asleep", {}, NoRun)
          /\ loop[r].pc = "next" /\ Pending' = Pending
      BY <1>0, <1>2 DEF Sleep, Asleep, Pending
    <2>. QED
      BY <2>1 DEF ALoop
  <1>3. CASE Take(r)
    <2>1. PICK l \in loop[r].todo :
            loop'[r] = ALoop(IF l.old THEN "expire" ELSE "info", loop[r].todo \ {l}, l.run)
      BY <1>0, <1>3 DEF Take
    <2>2. loop[r].pc = "next" /\ Pending' = Pending
      BY <1>3 DEF Take, Pending
    <2>. QED
      BY <2>1, <2>2 DEF ALoop
  <1>4. CASE DeleteExpired(r)
    <2>1. /\ loop'[r] = ALoop("next", loop[r].todo, loop[r].run)
          /\ loop[r].pc = "expire"
      BY <1>0, <1>4, GotoMoves DEF DeleteExpired
    <2>2. Pending' \subseteq Pending
      BY <1>4, RequestsOnlyGo DEF Poll
    <2>. QED
      BY <2>1, <2>2 DEF ALoop
  <1>5. CASE GetWorkflowRunInfo(r)
    <2>1. loop'[r] = ALoop(AfterInfo(loop[r].run), loop[r].todo, loop[r].run)
      BY <1>0, <1>5, GotoMoves DEF GetWorkflowRunInfo
    <2>2. loop[r].pc = "info" /\ Pending' = Pending
      BY <1>5 DEF GetWorkflowRunInfo, Pending
    <2>. QED
      BY <2>1, <2>2 DEF ALoop
  <1>6. CASE branchPRClosed(r) \/ Forbidden(r)
    <2>1. \E pc \in Steps : Goto(r, pc)
      BY <1>6 DEF branchPRClosed, Forbidden, Steps
    <2>2. PICK pc \in Steps : loop'[r] = ALoop(pc, loop[r].todo, loop[r].run)
      BY <1>0, <2>1, GotoMoves
    <2>3. loop[r].pc = "pulls" /\ Pending' = Pending
      BY <1>6 DEF branchPRClosed, Forbidden, Pending
    <2>. QED
      BY <2>2, <2>3 DEF ALoop
  <1>7. CASE \/ RestartUnanswered(r)
             \/ RestartFailedJobs(r) /\ run[Current(r)] # "failed"
    <2>1. Goto(r, "next")
      BY <1>7 DEF RestartUnanswered, RestartFailedJobs
    <2>2. loop'[r] = ALoop("next", loop[r].todo, loop[r].run)
      BY <1>0, <2>1, GotoMoves
    <2>3. loop[r].pc = "rerun" /\ Pending' = Pending
      BY <1>7 DEF RestartUnanswered, RestartFailedJobs, Pending
    <2>. QED
      BY <2>2, <2>3 DEF ALoop
  <1>8. CASE DeleteRequest(r)
    <2>1. /\ loop'[r] = ALoop("next", loop[r].todo, loop[r].run)
          /\ loop[r].pc = "delete"
      BY <1>0, <1>8, GotoMoves DEF DeleteRequest
    <2>2. Pending' = Pending \ {loop[r].run}
      BY <1>8 DEF DeleteRequest, Removed, Pending, TypeOK
    <2>. QED
      BY <2>1, <2>2 DEF ALoop
  <1>. QED
    BY <1>1, <1>2, <1>3, <1>4, <1>5, <1>6, <1>7, <1>8

LEMMA PollPays ==
    ASSUME RInv, NEW r \in Replicas, Poll(r) \/ PollFails(r)
    PROVE  Paid'
PROOF
  <1>. USE DEF RInv
  <1>0. /\ Pending' \subseteq Pending /\ saves' = saves
        /\ \A q \in Replicas \ {r} : loop'[q] = loop[q]
    BY RequestsOnlyGo
  <1>1. ASSUME NEW w \in Runs,
               \/ List(r) \/ Sleep(r) \/ Take(r) \/ DeleteExpired(r)
               \/ GetWorkflowRunInfo(r) \/ branchPRClosed(r) \/ DeleteRequest(r)
               \/ RestartFailedJobs(r) /\ run[Current(r)] # "failed"
        PROVE  reruns'[w] + Cardinality(Owing(w)') <= Budget(w)'
    <2>1. reruns' = reruns /\ faults' = faults
      BY <1>1 DEF List, Sleep, Take, DeleteExpired, GetWorkflowRunInfo,
                  branchPRClosed, DeleteRequest, RestartFailedJobs, github
    <2>2. Owing(w)' \subseteq Owing(w)
      BY <1>0, <1>1, QuietPollOwes, OwingShrinks
    <2>3. Cardinality(Owing(w)') \in Nat /\ Cardinality(Owing(w)') <= Cardinality(Owing(w))
      BY <2>2, OwingCounts
    <2>4. reruns'[w] = reruns[w] + 0 /\ faults' = faults + 0
      BY <2>1 DEF TypeOK
    <2>5. Cardinality(Owing(w)') + 0 <= Cardinality(Owing(w)) + 0
      BY <2>3, OwingCounted
    <2>. QED
      BY <1>0, <2>3, <2>4, <2>5, StillPaid
  <1>2. ASSUME NEW w \in Runs, Forbidden(r) \/ CallFails(r) \/ Crash(r)
        PROVE  reruns'[w] + Cardinality(Owing(w)') <= Budget(w)'
    <2>1. reruns' = reruns /\ faults' = faults + 1
      BY <1>2 DEF Forbidden, CallFails, Crash, Spend, github
    <2>2. Owing(w)' \subseteq Owing(w) \cup {r}
      BY <1>0, OwingShrinks
    <2>3. Cardinality(Owing(w)') \in Nat /\ Cardinality(Owing(w)') <= Cardinality(Owing(w)) + 1
      BY <2>2, OwingCounts
    <2>4. reruns'[w] = reruns[w] + 0
      BY <2>1 DEF TypeOK
    <2>5. Cardinality(Owing(w)') + 0 <= Cardinality(Owing(w)) + 1
      BY <2>3, OwingCounted
    <2>. QED
      BY <1>0, <2>1, <2>3, <2>4, <2>5, StillPaid
  <1>3. ASSUME NEW w \in Runs, RestartUnanswered(r)
        PROVE  reruns'[w] + Cardinality(Owing(w)') <= Budget(w)'
    <2>1. /\ reruns' = [reruns EXCEPT ![Current(r)] = @ + 1]
          /\ faults' = faults + 1
      BY <1>3 DEF RestartUnanswered, Rerun, Spend
    <2>2. Owing(w)' \subseteq Owing(w)
      BY <1>0, <1>3, QuietPollOwes, OwingShrinks
    <2>3. Cardinality(Owing(w)') \in Nat /\ Cardinality(Owing(w)') <= Cardinality(Owing(w))
      BY <2>2, OwingCounts
    <2>4. PICK d \in {0, 1} : reruns'[w] = reruns[w] + d
      BY <2>1 DEF TypeOK
    <2>5. Cardinality(Owing(w)') + d <= Cardinality(Owing(w)) + 1 /\ d \in Nat
      BY <2>3, <2>4, OwingCounted
    <2>. QED
      BY <1>0, <2>1, <2>3, <2>4, <2>5, StillPaid
  <1>4. ASSUME NEW w \in Runs, RestartFailedJobs(r), run[Current(r)] = "failed"
        PROVE  reruns'[w] + Cardinality(Owing(w)') <= Budget(w)'
    <2>1. /\ reruns' = [reruns EXCEPT ![Current(r)] = @ + 1]
          /\ faults' = faults /\ request' = request
          /\ loop[r].pc = "rerun"
          /\ loop' = [loop EXCEPT ![r] = ALoop("delete", loop[r].todo, Current(r))]
      BY <1>4, GotoMoves DEF RestartFailedJobs, Rerun, At
    <2>2. /\ loop'[r].pc = "delete" /\ loop'[r].todo = loop[r].todo
          /\ loop'[r].run = loop[r].run
      BY <2>1 DEF TypeOK, ALoop, Current
    <2>3. CASE w = Current(r)
      <3>1. Owes(r, w)
        BY <2>1, <2>3 DEF Owes, Holds
      <3>2. ~Mentions(r, w)
        BY <2>1, <2>3 DEF ListedOnce, Mentions
      <3>3. ~Owes(r, w)'
        BY <2>2, <2>3, <3>2 DEF Owes, Holds, Deletes, Mentions, At, Current
      <3>4. /\ Cardinality(Owing(w)') \in Nat
            /\ Cardinality(Owing(w)') + 1 <= Cardinality(Owing(w))
        BY <1>0, <3>1, <3>3, OwingShrinks, OwingCounts
      <3>5. reruns'[w] = reruns[w] + 1 /\ faults' = faults + 0
        BY <2>1, <2>3 DEF TypeOK
      <3>6. Cardinality(Owing(w)') + 1 <= Cardinality(Owing(w)) + 0
        BY <3>4, OwingCounted
      <3>. QED
        BY <1>0, <3>4, <3>5, <3>6, StillPaid
    <2>4. CASE w # Current(r)
      <3>1. Owes(r, w)' => Owes(r, w)
        BY <2>1, <2>2, <2>4 DEF Owes, Holds, Deletes, Mentions, At, Current, Pending
      <3>2. /\ Cardinality(Owing(w)') \in Nat
            /\ Cardinality(Owing(w)') <= Cardinality(Owing(w))
        BY <1>0, <3>1, OwingShrinks, OwingCounts
      <3>3. reruns'[w] = reruns[w] + 0 /\ faults' = faults + 0
        BY <2>1, <2>4 DEF TypeOK
      <3>4. Cardinality(Owing(w)') + 0 <= Cardinality(Owing(w)) + 0
        BY <3>2, OwingCounted
      <3>. QED
        BY <1>0, <3>2, <3>3, <3>4, StillPaid
    <2>. QED
      BY <2>3, <2>4
  <1>5. \A w \in Runs : reruns'[w] + Cardinality(Owing(w)') <= Budget(w)'
    BY <1>1, <1>2, <1>3, <1>4 DEF Poll, PollFails
  <1>. QED
    BY <1>5 DEF Paid

LEMMA InterruptPays ==
    ASSUME RInv, NEW u \in Runs, AgentInterrupt(u)
    PROVE  Paid'
PROOF
  <1>. USE DEF RInv
  <1>1. /\ reruns' = reruns /\ faults' = faults /\ loop' = loop
        /\ saves'[u] = saves[u] + 1
        /\ \A w \in Runs \ {u} : saves'[w] = saves[w] /\ (w \in Pending' <=> w \in Pending)
    BY DEF AgentInterrupt, github, Pending, TypeOK
  <1>2. \A w \in Runs : reruns[w] \in Nat /\ saves[w] \in Nat /\ faults \in Nat
    BY RestarterAssumption DEF TypeOK
  <1>3. ASSUME NEW w \in Runs
        PROVE  reruns'[w] + Cardinality(Owing(w)') <= Budget(w)'
    <2>1. reruns[w] + Cardinality(Owing(w)) <= Cardinality(Replicas) * saves[w] + faults
      BY DEF Paid, Budget
    <2>2. Budget(w)' = Cardinality(Replicas) * saves'[w] + faults
      BY <1>1 DEF Budget
    <2>3. CASE w = u
      <3>1. Owing(w)' \subseteq Replicas
        BY DEF Owing
      <3>2. /\ Cardinality(Owing(w)') \in Nat
            /\ Cardinality(Owing(w)') <= Cardinality(Replicas)
        BY <3>1, RestarterAssumption, FS_Subset, FS_CardinalityType
      <3>3. \A k, n \in Nat : k * (n + 1) = k * n + k /\ k * n \in Nat
        OBVIOUS
      <3>4. /\ Cardinality(Replicas) * saves'[w] = Cardinality(Replicas) * saves[w] + Cardinality(Replicas)
            /\ Cardinality(Replicas) * saves[w] \in Nat
        BY <1>1, <1>2, <2>3, <3>3, OwingCounted
      <3>. QED
        BY <1>1, <1>2, <2>1, <2>2, <3>2, <3>4, OwingCounted
    <2>4. CASE w # u
      <3>1. \A r \in Replicas : Owes(r, w)' <=> Owes(r, w)
        BY <1>1, <2>4 DEF Owes, Holds, Mentions, Deletes, At, Current
      <3>2. Owing(w)' = Owing(w)
        BY <3>1 DEF Owing
      <3>. QED
        BY <1>1, <2>1, <2>2, <2>4, <3>2
    <2>. QED
      BY <2>3, <2>4
  <1>. QED
    BY <1>3 DEF Paid

\* Steps that leave the requests, what is listed of them and GitHub's count.
LEMMA NobodyOwesMore ==
    ASSUME RInv, UNCHANGED <<reruns, saves, faults>>, Pending' = Pending,
           \A r \in Replicas : /\ loop'[r].pc = loop[r].pc
                               /\ loop'[r].run = loop[r].run
                               /\ \A w \in Runs : Mentions(r, w)' <=> Mentions(r, w)
    PROVE  Paid'
PROOF
  <1>1. ASSUME NEW w \in Runs
        PROVE  Owing(w)' = Owing(w)
    <2>1. ASSUME NEW r \in Replicas
          PROVE  Owes(r, w)' <=> Owes(r, w)
      <3>1. Mentions(r, w)' <=> Mentions(r, w)
        OBVIOUS
      <3>. QED
        BY <3>1 DEF Owes, Holds, Deletes, At, Current
    <2>. QED
      BY <2>1 DEF Owing
  <1>. QED
    BY <1>1 DEF RInv, Paid, Budget

LEMMA StepPays ==
    ASSUME RInv, [Next]_vars
    PROVE  RInv'
PROOF
  <1>. USE DEF RInv
  <1>0. TypeOK'
    BY StepTyped
  <1>1. ASSUME NEW r \in Replicas, Poll(r) \/ PollFails(r)
        PROVE  ListedOnce' /\ Paid'
    BY <1>1, PollListsOnce, PollPays
  <1>2. ASSUME NEW w \in Runs, AgentInterrupt(w)
        PROVE  ListedOnce' /\ Paid'
    <2>1. loop' = loop
      BY <1>2 DEF AgentInterrupt
    <2>. QED
      BY <1>2, <2>1, InterruptPays DEF ListedOnce, Current
  <1>3. ASSUME NEW w \in Runs, GetsOld(w)
        PROVE  ListedOnce' /\ Paid'
    <2>1. UNCHANGED <<reruns, saves, faults>>
      BY <1>3 DEF GetsOld, github
    <2>. QED
      BY <1>3, <2>1, GetsOldListed, NobodyOwesMore
  <1>4. ASSUME \/ \E w \in Runs : Completes(w) \/ PullRequestCloses(w)
               \/ UNCHANGED vars
        PROVE  ListedOnce' /\ Paid'
    <2>1. UNCHANGED <<request, loop, reruns, saves, faults>>
      BY <1>4 DEF Completes, PullRequestCloses, vars
    <2>2. Pending' = Pending
      BY <2>1 DEF Pending
    <2>3. \A r \in Replicas, w \in Runs : Mentions(r, w)' <=> Mentions(r, w)
      BY <2>1 DEF Mentions
    <2>. QED
      BY <2>1, <2>2, <2>3, NobodyOwesMore DEF ListedOnce, Current
  <1>. QED
    BY <1>0, <1>1, <1>2, <1>3, <1>4 DEF Next

LEMMA InitPaid ==
    ASSUME Init
    PROVE  RInv
PROOF
  <1>1. ASSUME NEW w \in Runs
        PROVE  reruns[w] + Cardinality(Owing(w)) <= Budget(w)
    <2>1. Owing(w) = {}
      BY DEF Init, Owing, Owes, Holds, Mentions, Deletes, Pending, Asleep, ALoop,
             At, Current
    <2>2. Cardinality(Owing(w)) = 0
      BY <2>1, FS_EmptySet
    <2>3. Cardinality(Replicas) * 0 = 0
      BY OwingCounted
    <2>. QED
      BY <2>2, <2>3 DEF Init, Budget
  <1>2. ListedOnce
    BY DEF Init, ListedOnce, Asleep, ALoop
  <1>. QED
    BY <1>1, <1>2, InitTyped DEF RInv, Paid

\* One interrupt reruns its run once on each replica at most, whatever the
\* replicas do at the same time; a fault adds one.
THEOREM RerunsArePaid == Spec => []RerunsBounded
PROOF
  <1>1. Init => RInv
    BY InitPaid
  <1>2. RInv /\ [Next]_vars => RInv'
    BY StepPays
  <1>3. RInv => RerunsBounded
    <2>1. ASSUME RInv, NEW w \in Runs
          PROVE  reruns[w] <= Budget(w)
      <3>1. reruns[w] \in Nat /\ faults \in Nat /\ saves[w] \in Nat
        BY <2>1, RestarterAssumption DEF RInv, TypeOK
      <3>2. Budget(w) \in Nat
        BY <3>1, OwingCounted DEF Budget
      <3>. QED
        BY <2>1, <3>1, <3>2, OwingCounted DEF RInv, Paid
    <2>. QED
      BY <2>1 DEF RerunsBounded, Budget
  <1>. QED
    BY <1>1, <1>2, <1>3, PTL DEF Spec
=============================================================================
