------------------------- MODULE ScaleSetPollerProofs -------------------------
(***************************************************************************)
(* OneScaler and CapHolds of ScaleSetPoller, for any finite set of trays   *)
(* and any number of pollers.  OneScaler is inductive with the types: who  *)
(* scales owns the session, so that a batch is decided by one poller, on   *)
(* a count that only its own goroutines can raise.  CapHolds rests on it,  *)
(* and so does ScalesAsFleet: every step of the pollers is one of Fleet's, *)
(* or a stutter.                                                           *)
(***************************************************************************)
EXTENDS ScaleSetPoller, FiniteSetTheorems, TLAPS

PCs == {"down", "ensure", "create", "session", "listening", "counting",
        "creating", "recount", "closing", "backoff"}

\* A goroutine that works on a row belongs to a poller.
Owned == \A t \in Trays : ~Doing(t, "none") => Owner(t) \in Pollers

\* Every revival costs a fault.
Typed == TypeOK /\ revived <= faults /\ Owned

Saving(p) == {t \in Running(p) : Doing(t, "saving")}

LEMMA IdleTyped ==
    \A pc \in PCs : Idle(pc) \in Poller /\ Idle(pc).pc = pc /\ Idle(pc).left = 0
PROOF
  BY ScaleAssumption DEF Idle, APoller, Poller, PCs

LEMMA Counted ==
    /\ IsFiniteSet(ActiveRows) /\ CountTrays \in Nat
    /\ \A p : IsFiniteSet(Saving(p)) /\ Cardinality(Saving(p)) \in Nat
    /\ \A p : Planned(p) = poller[p].left + Cardinality(Saving(p))
PROOF
  <1>1. /\ ActiveRows \in SUBSET Trays
        /\ \A p : Saving(p) \in SUBSET Trays
    BY DEF ActiveRows, Saving, Running
  <1>2. IsFiniteSet(ActiveRows) /\ \A p : IsFiniteSet(Saving(p))
    BY <1>1, FS_Subset, ScaleAssumption
  <1>. QED
    BY <1>2, FS_CardinalityType DEF CountTrays, Planned, Saving

\* What a batch may come to.
LEMMA BatchFits ==
    ASSUME TypeOK, NEW p \in Pollers, ToCreate(p) > 0
    PROVE  /\ ToCreate(p) \in 0..MaxTrays
           /\ CountTrays + ToCreate(p) <= MaxTrays
PROOF
  <1>1. poller[p].want \in 0..MaxDemand
    BY DEF TypeOK, Poller
  <1>. QED
    BY <1>1, Counted, ScaleAssumption DEF ToCreate, Least

LEMMA InitTyped ==
    ASSUME Init
    PROVE  Typed
PROOF
  <1>1. poller \in [Pollers -> Poller]
    BY IdleTyped DEF Init, PCs
  <1>2. job \in [Trays -> Job] /\ Owned
    BY DEF Init, NoJob, AJob, Job, Owned, Doing
  <1>3. /\ scaleSet \in BOOLEAN /\ cancelled \in [Pollers -> BOOLEAN]
        /\ cached \in [Pollers -> BOOLEAN]
    BY DEF Init
  <1>4. /\ row \in [Trays -> {"none", "active", "deleting"}]
        /\ session \in Pollers \cup {Nobody}
    BY DEF Init
  <1>5. /\ demand \in 0..MaxDemand /\ revived \in 0..MaxFaults
        /\ faults \in 0..MaxFaults /\ revived <= faults
    BY ScaleAssumption DEF Init
  <1>. QED
    BY <1>1, <1>2, <1>3, <1>4, <1>5 DEF Typed, TypeOK
-------------------------------------------------------------------------------
(* The types.                                                              *)

LEMMA GotoTyped ==
    ASSUME TypeOK, NEW p \in Pollers, NEW pc \in PCs, Goto(p, pc)
    PROVE  poller' \in [Pollers -> Poller]
PROOF
  BY IdleTyped DEF TypeOK, Goto

LEMMA ExitsTyped ==
    ASSUME TypeOK, NEW p \in Pollers, Exits(p)
    PROVE  poller' \in [Pollers -> Poller]
PROOF
  BY GotoTyped DEF Exits, PCs

LEMMA FaultTyped ==
    ASSUME Typed
    PROVE  /\ Spend => faults' \in 0..MaxFaults /\ faults' = faults + 1
           /\ \A p : Fails(p) => faults' \in 0..MaxFaults /\ faults' >= faults
PROOF
  BY ScaleAssumption DEF Typed, TypeOK, Spend, Fails

\* Every step of a poller keeps the types.
LEMMA RunTyped ==
    ASSUME Typed, NEW p \in Pollers, Run(p)
    PROVE  Typed'
PROOF
  <1>1. poller' \in [Pollers -> Poller]
    <2>0. poller[p] \in Poller /\ poller \in [Pollers -> Poller]
      BY DEF Typed, TypeOK
    <2>1. CASE Elect(p) \/ Backoff(p) \/ EnsureScaleSet(p) \/ CreateSession(p)
               \/ Await(p) \/ Recount(p) \/ ListenerFails(p)
      BY <2>1, GotoTyped
         DEF Elect, Backoff, EnsureScaleSet, CreateSession, Await, Recount,
             ListenerFails, Typed, PCs
    <2>2. CASE CreateScaleSet(p) \/ StartFails(p) \/ Close(p)
      BY <2>2, GotoTyped, ExitsTyped DEF CreateScaleSet, StartFails, Close, Typed, PCs
    <2>3. CASE SessionConflict(p)
      <3>1. CASE Exits(p)
        BY <3>1, ExitsTyped DEF Typed
      <3>2. CASE /\ poller[p].tries + 1 < MaxTries
                 /\ poller' = [poller EXCEPT ![p].tries = @ + 1]
        BY <2>0, <3>2, ScaleAssumption DEF Poller
      <3>. QED
        BY <2>3, <3>1, <3>2 DEF SessionConflict
    <2>4. CASE GetMessage(p)
      <3>1. APoller("counting", 0, demand, 0, FALSE) \in Poller
        BY ScaleAssumption DEF Typed, TypeOK, APoller, Poller
      <3>. QED
        BY <2>0, <2>4, <3>1 DEF GetMessage
    <2>5. CASE ScaleForDemand(p)
      <3>1. CASE ToCreate(p) > 0
        <4>1. APoller("creating", 0, poller[p].want, ToCreate(p), FALSE) \in Poller
          BY <2>0, <3>1, BatchFits, ScaleAssumption DEF Typed, APoller, Poller
        <4>. QED
          BY <2>0, <2>5, <3>1, <4>1 DEF ScaleForDemand
      <3>2. CASE ~(ToCreate(p) > 0)
        BY <2>5, <3>2, GotoTyped DEF ScaleForDemand, Typed, PCs
      <3>. QED
        BY <3>1, <3>2
    <2>6. CASE Spawn(p)
      BY <2>0, <2>6, ScaleAssumption DEF Spawn, Poller
    <2>. QED
      BY <2>1, <2>2, <2>3, <2>4, <2>5, <2>6 DEF Run
  <1>2. row' = row /\ revived' = revived /\ demand' = demand
    BY DEF Run, Elect, Backoff, EnsureScaleSet, CreateScaleSet, CreateSession,
           SessionConflict, StartFails, Close, GetMessage, ScaleForDemand, Spawn,
           Await, Recount, ListenerFails, world
  <1>3. faults' \in 0..MaxFaults /\ faults' >= faults
    <2>1. UNCHANGED faults \/ Spend \/ Fails(p)
      BY DEF Run, Elect, Backoff, EnsureScaleSet, CreateScaleSet, CreateSession,
             SessionConflict, StartFails, Close, GetMessage, ScaleForDemand, Spawn,
             Await, Recount, ListenerFails
    <2>2. faults \in 0..MaxFaults
      BY DEF Typed, TypeOK
    <2>. QED
      BY <2>1, <2>2, FaultTyped, ScaleAssumption
  <1>4. job' \in [Trays -> Job] /\ Owned'
    <2>1. CASE Spawn(p)
      <3>1. PICK t \in Trays : job' = [job EXCEPT ![t] = AJob(p, "saving")]
        BY <2>1 DEF Spawn
      <3>. QED
        BY <3>1 DEF Typed, TypeOK, Owned, Owner, Doing, Job, AJob
    <2>2. CASE job' = job
      BY <2>2 DEF Typed, TypeOK, Owned, Owner, Doing
    <2>. QED
      BY <2>1, <2>2
         DEF Run, Elect, Backoff, EnsureScaleSet, CreateScaleSet, CreateSession,
             SessionConflict, StartFails, Close, GetMessage, ScaleForDemand,
             Await, Recount, ListenerFails
  <1>5. /\ cancelled' \in [Pollers -> BOOLEAN] /\ scaleSet' \in BOOLEAN
        /\ cached' \in [Pollers -> BOOLEAN] /\ session' \in Pollers \cup {Nobody}
    BY DEF Run, Elect, Backoff, EnsureScaleSet, CreateScaleSet, CreateSession,
           SessionConflict, StartFails, Close, GetMessage, ScaleForDemand, Spawn,
           Await, Recount, ListenerFails, world, Typed, TypeOK
  <1>. QED
    BY <1>1, <1>2, <1>3, <1>4, <1>5 DEF Typed, TypeOK

\* Every step on a row keeps the types.
LEMMA TrayTyped ==
    ASSUME Typed, NEW t \in Trays,
           \/ CreateTray(t) \/ DeployFails(t)
           \/ MarkDeleting(t) \/ RemoveRow(t) \/ Revive(t)
    PROVE  Typed'
PROOF
  <1>. USE DEF CreateTray, Save, SaveFails, Deployed, DeployFails, Deleted, DeletionFails,
              MarkDeleting, RemoveRow, Revive
  <1>1. row' \in [Trays -> {"none", "active", "deleting"}]
    BY DEF Typed, TypeOK
  <1>2. job' \in [Trays -> Job] /\ Owned'
    <2>1. CASE job' = job
      BY <2>1 DEF Typed, TypeOK, Owned, Owner, Doing
    <2>2. CASE Ends(t)
      BY <2>2 DEF Ends, NoJob, AJob, Job, Typed, TypeOK, Owned, Owner, Doing
    <2>3. ASSUME NEW s \in {"deploying", "deleting"}, ~Doing(t, "none"), Goes(t, s)
          PROVE  job' \in [Trays -> Job] /\ Owned'
      BY <2>3 DEF Goes, AJob, Job, Typed, TypeOK, Owned, Owner, Doing
    <2>4. \/ job' = job \/ Ends(t)
          \/ ~Doing(t, "none") /\ (Goes(t, "deploying") \/ Goes(t, "deleting"))
      BY DEF Doing
    <2>. QED
      BY <2>1, <2>2, <2>3, <2>4
  <1>3. poller' \in [Pollers -> Poller]
    <2>1. poller' = poller \/ Succeeds(t)
      OBVIOUS
    <2>2. poller \in [Pollers -> Poller]
      BY DEF Typed, TypeOK
    <2>3. CASE Succeeds(t)
      BY <2>2, <2>3 DEF Succeeds, Poller
    <2>. QED
      BY <2>1, <2>2, <2>3
  <1>4. /\ faults' \in 0..MaxFaults /\ revived' \in 0..MaxFaults
        /\ revived' <= faults'
    <2>1. \/ UNCHANGED <<faults, revived>>
          \/ (Spend \/ Fails(Owner(t))) /\ UNCHANGED revived
          \/ Spend /\ revived' = revived + 1
      BY DEF world
    <2>2. revived \in 0..MaxFaults /\ faults \in 0..MaxFaults /\ revived <= faults
      BY DEF Typed, TypeOK
    <2>. QED
      BY <2>1, <2>2, FaultTyped, ScaleAssumption
  <1>5. UNCHANGED <<cancelled, scaleSet, cached, session, demand>>
    BY DEF world
  <1>. QED
    BY <1>1, <1>2, <1>3, <1>4, <1>5 DEF Typed, TypeOK

\* Every other step keeps them too.
LEMMA OtherTyped ==
    ASSUME Typed,
           \/ \E p \in Pollers : Cancel(p) \/ Crash(p)
           \/ \E d \in 0..MaxDemand : Demand(d)
           \/ SessionExpires \/ UNCHANGED vars
    PROVE  Typed'
PROOF
  <1>1. ASSUME NEW p \in Pollers, Cancel(p)
        PROVE  Typed'
    BY <1>1, FaultTyped, ScaleAssumption
       DEF Cancel, world, Typed, TypeOK, Owned, Owner, Doing
  <1>2. ASSUME NEW p \in Pollers, Crash(p)
        PROVE  Typed'
    <2>1. poller' \in [Pollers -> Poller]
      BY <1>2, GotoTyped DEF Crash, Typed, PCs
    <2>2. job' \in [Trays -> Job] /\ Owned'
      BY <1>2 DEF Crash, NoJob, AJob, Job, Typed, TypeOK, Owned, Owner, Doing
    <2>3. faults' \in 0..MaxFaults /\ revived' <= faults'
      BY <1>2, FaultTyped, ScaleAssumption DEF Crash, world, Typed, TypeOK
    <2>. QED
      BY <1>2, <2>1, <2>2, <2>3 DEF Crash, world, Typed, TypeOK
  <1>3. ASSUME NEW d \in 0..MaxDemand, Demand(d)
        PROVE  Typed'
    BY <1>3 DEF Demand, Typed, TypeOK, Owned, Owner, Doing
  <1>4. CASE SessionExpires
    BY <1>4 DEF SessionExpires, Typed, TypeOK, Owned, Owner, Doing
  <1>5. CASE UNCHANGED vars
    BY <1>5 DEF vars, Typed, TypeOK, Owned, Owner, Doing
  <1>. QED
    BY <1>1, <1>2, <1>3, <1>4, <1>5

LEMMA StepTyped ==
    ASSUME Typed, [Next]_vars
    PROVE  Typed'
PROOF
  BY RunTyped, TrayTyped, OtherTyped DEF Next

\* Every variable keeps its type, for any number of trays, pollers and faults.
THEOREM PollersTyped == Spec => []TypeOK
PROOF
  <1>1. Init => Typed
    BY InitTyped
  <1>2. Typed /\ [Next]_vars => Typed'
    BY StepTyped
  <1>3. Typed => TypeOK
    BY DEF Typed
  <1>. QED
    BY <1>1, <1>2, <1>3, PTL DEF Spec
-------------------------------------------------------------------------------
(* One poller scales.                                                      *)

\* A step that gives nobody the session, a goroutine or a batch, and takes no
\* poller out of its batch.
LEMMA ScalerKept ==
    ASSUME Typed, Typed', OneScaler, UNCHANGED session,
           \A q \in Pollers :
              /\ Running(q)' \subseteq Running(q)
              /\ poller'[q].left <= poller[q].left
              /\ InSession(q)' => InSession(q)
              /\ At(q, "creating") => At(q, "creating")'
    PROVE  OneScaler'
PROOF
  <1>1. \A q \in Pollers : poller[q].left \in Nat /\ poller'[q].left \in Nat
    BY ScaleAssumption DEF Typed, TypeOK, Poller
  <1>2. ASSUME NEW q \in Pollers
        PROVE  /\ InSession(q)' => session' = q
               /\ Running(q)' # {} \/ poller'[q].left > 0 => At(q, "creating")'
    <2>1. poller'[q].left > 0 => poller[q].left > 0
      BY <1>1
    <2>2. Running(q)' # {} => Running(q) # {}
      OBVIOUS
    <2>. QED
      BY <2>1, <2>2 DEF OneScaler
  <1>. QED
    BY <1>2 DEF OneScaler

\* A step of one poller that is in no batch, before and after.
LEMMA ScalerMoves ==
    ASSUME Typed, Typed', OneScaler, UNCHANGED <<session, job>>,
           NEW p \in Pollers, ~At(p, "creating"),
           \A q \in Pollers \ {p} : poller'[q] = poller[q],
           poller'[p].left = 0,
           InSession(p)' => InSession(p)
    PROVE  OneScaler'
PROOF
  <1>1. \A q \in Pollers : poller[q].left \in Nat
    BY ScaleAssumption DEF Typed, TypeOK, Poller
  <1>2. \A q \in Pollers : Running(q)' = Running(q)
    BY DEF Running, Owner
  <1>3. ASSUME NEW q \in Pollers
        PROVE  /\ poller'[q].left <= poller[q].left
               /\ InSession(q)' => InSession(q)
               /\ At(q, "creating") => At(q, "creating")'
    <2>1. CASE q = p
      BY <1>1, <2>1
    <2>2. CASE q # p
      BY <1>1, <2>2 DEF InSession, At
    <2>. QED
      BY <2>1, <2>2
  <1>. QED
    BY <1>2, <1>3, ScalerKept

LEMMA RunKeepsScaler ==
    ASSUME Typed, Typed', OneScaler, NEW p \in Pollers, Run(p)
    PROVE  OneScaler'
PROOF
  <1>0. /\ poller \in [Pollers -> Poller]
        /\ \A q \in Pollers : poller[q].left \in Nat
    BY ScaleAssumption DEF Typed, TypeOK, Poller
  <1>1. ASSUME NEW pc \in PCs, Goto(p, pc)
        PROVE  /\ \A q \in Pollers \ {p} : poller'[q] = poller[q]
               /\ poller'[p].left = 0 /\ poller'[p].pc = pc
    BY <1>0, <1>1, IdleTyped DEF Goto
  <1>2. CASE Elect(p) \/ Backoff(p) \/ EnsureScaleSet(p)
    <2>1. PICK pc \in {"ensure", "down", "session", "create"} : Goto(p, pc)
      BY <1>2 DEF Elect, Backoff, EnsureScaleSet
    <2>2. UNCHANGED <<session, job>> /\ ~At(p, "creating")
      BY <1>2 DEF Elect, Backoff, EnsureScaleSet, world, At
    <2>3. /\ \A q \in Pollers \ {p} : poller'[q] = poller[q]
          /\ poller'[p].left = 0 /\ ~InSession(p)'
      BY <1>1, <2>1 DEF PCs, InSession
    <2>. QED
      BY <2>2, <2>3, ScalerMoves
  <1>3. CASE CreateScaleSet(p) \/ StartFails(p)
    <2>1. PICK pc \in {"session", "down", "backoff"} : Goto(p, pc)
      BY <1>3 DEF CreateScaleSet, StartFails, Exits
    <2>2. UNCHANGED <<session, job>> /\ ~At(p, "creating")
      BY <1>3 DEF CreateScaleSet, StartFails, world, At
    <2>3. /\ \A q \in Pollers \ {p} : poller'[q] = poller[q]
          /\ poller'[p].left = 0 /\ ~InSession(p)'
      BY <1>1, <2>1 DEF PCs, InSession
    <2>. QED
      BY <2>2, <2>3, ScalerMoves
  <1>4. CASE CreateSession(p)
    <2>1. /\ session = Nobody /\ session' = p /\ job' = job /\ Goto(p, "listening")
          /\ ~At(p, "creating")
      BY <1>4 DEF CreateSession, At
    <2>2. /\ \A q \in Pollers \ {p} : poller'[q] = poller[q]
          /\ poller'[p].left = 0
      BY <1>1, <2>1 DEF PCs
    <2>3. \A q \in Pollers : Running(q)' = Running(q)
      BY <2>1 DEF Running, Owner
    <2>4. \A q \in Pollers : ~InSession(q)
      BY <2>1, ScaleAssumption DEF OneScaler
    <2>5. ASSUME NEW q \in Pollers
          PROVE  /\ InSession(q)' => session' = q
                 /\ Running(q)' # {} \/ poller'[q].left > 0 => At(q, "creating")'
      <3>1. CASE q = p
        BY <2>1, <2>2, <2>3, <3>1 DEF OneScaler
      <3>2. CASE q # p
        BY <2>2, <2>3, <2>4, <3>2 DEF OneScaler, InSession, At
      <3>. QED
        BY <3>1, <3>2
    <2>. QED
      BY <2>5 DEF OneScaler
  <1>5. CASE SessionConflict(p)
    <2>1. UNCHANGED <<session, job>> /\ At(p, "session")
      BY <1>5 DEF SessionConflict, world
    <2>2. CASE Exits(p)
      <3>1. PICK pc \in {"down", "backoff"} : Goto(p, pc)
        BY <2>2 DEF Exits
      <3>2. /\ \A q \in Pollers \ {p} : poller'[q] = poller[q]
            /\ poller'[p].left = 0 /\ ~InSession(p)'
        BY <1>1, <3>1 DEF PCs, InSession
      <3>. QED
        BY <2>1, <3>2, ScalerMoves DEF At
    <2>3. CASE poller' = [poller EXCEPT ![p].tries = @ + 1]
      <3>1. \A q \in Pollers :
               poller'[q].left = poller[q].left /\ poller'[q].pc = poller[q].pc
        BY <1>0, <2>3 DEF Poller
      <3>2. \A q \in Pollers : Running(q)' = Running(q)
        BY <2>1 DEF Running, Owner
      <3>. QED
        BY <1>0, <2>1, <3>1, <3>2, ScalerKept DEF InSession, At
    <2>. QED
      BY <1>5, <2>2, <2>3 DEF SessionConflict
  <1>6. CASE Close(p)
    <2>1. PICK pc \in {"down", "backoff"} : Goto(p, pc)
      BY <1>6 DEF Close, Exits
    <2>2. /\ session' = session \/ (session = p /\ session' = Nobody)
          /\ job' = job /\ ~At(p, "creating")
      BY <1>6 DEF Close, At
    <2>3. /\ \A q \in Pollers \ {p} : poller'[q] = poller[q]
          /\ poller'[p].left = 0 /\ ~InSession(p)'
      BY <1>1, <2>1 DEF PCs, InSession
    <2>4. \A q \in Pollers : Running(q)' = Running(q)
      BY <2>2 DEF Running, Owner
    <2>5. ASSUME NEW q \in Pollers
          PROVE  /\ InSession(q)' => session' = q
                 /\ Running(q)' # {} \/ poller'[q].left > 0 => At(q, "creating")'
      <3>1. CASE q = p
        BY <2>2, <2>3, <2>4, <3>1 DEF OneScaler
      <3>2. CASE q # p
        BY <2>2, <2>3, <2>4, <3>2 DEF OneScaler, InSession, At
      <3>. QED
        BY <3>1, <3>2
    <2>. QED
      BY <2>5 DEF OneScaler
  <1>7. CASE GetMessage(p) \/ Recount(p) \/ ListenerFails(p)
    <2>1. UNCHANGED <<session, job>> /\ ~At(p, "creating") /\ InSession(p)
      BY <1>7 DEF GetMessage, Recount, ListenerFails, world, At, InSession
    <2>2. /\ \A q \in Pollers \ {p} : poller'[q] = poller[q]
          /\ poller'[p].left = 0
      <3>1. CASE GetMessage(p)
        BY <1>0, <3>1 DEF GetMessage, APoller
      <3>2. CASE Recount(p) \/ ListenerFails(p)
        BY <1>1, <3>2 DEF Recount, ListenerFails, PCs
      <3>. QED
        BY <1>7, <3>1, <3>2
    <2>. QED
      BY <2>1, <2>2, ScalerMoves
  <1>8. CASE ScaleForDemand(p)
    <2>1. UNCHANGED <<session, job>> /\ At(p, "counting") /\ InSession(p)
      BY <1>8 DEF ScaleForDemand, world, At, InSession
    <2>2. CASE Goto(p, "recount")
      BY <1>1, <2>1, <2>2, ScalerMoves DEF PCs, At
    <2>3. CASE poller' = [poller EXCEPT ![p] =
                            APoller("creating", 0, @.want, ToCreate(p), FALSE)]
      <3>1. /\ \A q \in Pollers \ {p} : poller'[q] = poller[q]
            /\ poller'[p].pc = "creating"
        BY <1>0, <2>3 DEF APoller
      <3>2. \A q \in Pollers : Running(q)' = Running(q)
        BY <2>1 DEF Running, Owner
      <3>3. ASSUME NEW q \in Pollers
            PROVE  /\ InSession(q)' => session' = q
                   /\ Running(q)' # {} \/ poller'[q].left > 0 => At(q, "creating")'
        <4>1. CASE q = p
          BY <2>1, <3>1, <4>1 DEF OneScaler, At
        <4>2. CASE q # p
          BY <2>1, <3>1, <3>2, <4>2 DEF OneScaler, InSession, At
        <4>. QED
          BY <4>1, <4>2
      <3>. QED
        BY <3>3 DEF OneScaler
    <2>. QED
      BY <1>8, <2>2, <2>3 DEF ScaleForDemand
  <1>9. CASE Spawn(p)
    <2>1. PICK t \in Trays : job' = [job EXCEPT ![t] = AJob(p, "saving")]
      BY <1>9 DEF Spawn
    <2>2. /\ session' = session /\ At(p, "creating")
          /\ \A q \in Pollers : poller'[q].pc = poller[q].pc
          /\ \A q \in Pollers \ {p} : poller'[q] = poller[q]
      BY <1>0, <1>9 DEF Spawn, world, Poller
    <2>3. \A q \in Pollers \ {p} : Running(q)' \subseteq Running(q)
      BY <2>1 DEF Running, Owner, AJob, Typed, TypeOK
    <2>4. ASSUME NEW q \in Pollers
          PROVE  /\ InSession(q)' => session' = q
                 /\ Running(q)' # {} \/ poller'[q].left > 0 => At(q, "creating")'
      <3>1. CASE q = p
        BY <2>2, <3>1 DEF OneScaler, At, InSession
      <3>2. CASE q # p
        BY <2>2, <2>3, <3>2 DEF OneScaler, InSession, At
      <3>. QED
        BY <3>1, <3>2
    <2>. QED
      BY <2>4 DEF OneScaler
  <1>10. CASE Await(p)
    <2>1. /\ UNCHANGED <<session, job>> /\ At(p, "creating") /\ Running(p) = {}
          /\ \E pc \in {"recount", "closing"} : Goto(p, pc)
      BY <1>10 DEF Await, world
    <2>2. /\ \A q \in Pollers \ {p} : poller'[q] = poller[q]
          /\ poller'[p].left = 0
      BY <1>1, <2>1 DEF PCs
    <2>3. \A q \in Pollers : Running(q)' = Running(q)
      BY <2>1 DEF Running, Owner
    <2>4. ASSUME NEW q \in Pollers
          PROVE  /\ InSession(q)' => session' = q
                 /\ Running(q)' # {} \/ poller'[q].left > 0 => At(q, "creating")'
      <3>1. CASE q = p
        BY <2>1, <2>2, <2>3, <3>1 DEF OneScaler, At, InSession
      <3>2. CASE q # p
        BY <2>1, <2>2, <2>3, <3>2 DEF OneScaler, InSession, At
      <3>. QED
        BY <3>1, <3>2
    <2>. QED
      BY <2>4 DEF OneScaler
  <1>. QED
    BY <1>2, <1>3, <1>4, <1>5, <1>6, <1>7, <1>8, <1>9, <1>10 DEF Run

\* What a step on one row does to the goroutines and the pollers.
LEMMA TrayMoves ==
    ASSUME Typed, NEW t \in Trays,
           \/ CreateTray(t) \/ DeployFails(t)
           \/ MarkDeleting(t) \/ RemoveRow(t) \/ Revive(t)
    PROVE  /\ session' = session
           /\ \A q \in Pollers : /\ Running(q)' \subseteq Running(q)
                                /\ Saving(q)' \subseteq Saving(q)
           /\ \A q \in Pollers : /\ poller'[q].left = poller[q].left
                                /\ poller'[q].pc = poller[q].pc
PROOF
  <1>. USE DEF CreateTray, Save, SaveFails, Deployed, DeployFails, Deleted, DeletionFails,
              MarkDeleting, RemoveRow, Revive
  <1>1. session' = session
    BY DEF world
  <1>2. \A q \in Pollers : /\ Running(q)' \subseteq Running(q)
                          /\ Saving(q)' \subseteq Saving(q)
    <2>1. \/ job' = job \/ Ends(t)
          \/ Goes(t, "deploying") \/ Goes(t, "deleting")
      OBVIOUS
    <2>2. job \in [Trays -> Job]
      BY DEF Typed, TypeOK
    <2>3. CASE job' = job
      BY <2>3 DEF Running, Saving, Owner, Doing
    <2>4. CASE Ends(t)
      BY <2>2, <2>4, ScaleAssumption DEF Ends, NoJob, AJob, Running, Saving, Owner, Doing
    <2>5. CASE Goes(t, "deploying") \/ Goes(t, "deleting")
      BY <2>2, <2>5 DEF Goes, AJob, Running, Saving, Owner, Doing
    <2>. QED
      BY <2>1, <2>3, <2>4, <2>5
  <1>3. \A q \in Pollers : /\ poller'[q].left = poller[q].left
                          /\ poller'[q].pc = poller[q].pc
    <2>1. poller' = poller \/ Succeeds(t)
      OBVIOUS
    <2>2. poller \in [Pollers -> Poller]
      BY DEF Typed, TypeOK
    <2>. QED
      BY <2>1, <2>2 DEF Succeeds, Poller
  <1>. QED
    BY <1>1, <1>2, <1>3

LEMMA TrayKeepsScaler ==
    ASSUME Typed, Typed', OneScaler, NEW t \in Trays,
           \/ CreateTray(t) \/ DeployFails(t)
           \/ MarkDeleting(t) \/ RemoveRow(t) \/ Revive(t)
    PROVE  OneScaler'
PROOF
  <1>1. \A q \in Pollers : poller[q].left \in Nat
    BY ScaleAssumption DEF Typed, TypeOK, Poller
  <1>. QED
    BY <1>1, TrayMoves, ScalerKept DEF InSession, At

LEMMA OtherKeepsScaler ==
    ASSUME Typed, Typed', OneScaler,
           \/ \E p \in Pollers : Cancel(p) \/ Crash(p)
           \/ \E d \in 0..MaxDemand : Demand(d)
           \/ SessionExpires \/ UNCHANGED vars
    PROVE  OneScaler'
PROOF
  <1>0. /\ poller \in [Pollers -> Poller]
        /\ \A q \in Pollers : poller[q].left \in Nat
    BY ScaleAssumption DEF Typed, TypeOK, Poller
  <1>1. CASE UNCHANGED <<job, poller, session>>
    <2>1. \A q \in Pollers : Running(q)' = Running(q)
      BY <1>1 DEF Running, Owner
    <2>. QED
      BY <1>1, <2>1 DEF OneScaler, InSession, At
  <1>2. ASSUME NEW p \in Pollers, Crash(p)
        PROVE  OneScaler'
    <2>1. /\ \A q \in Pollers \ {p} : poller'[q] = poller[q]
          /\ poller'[p].left = 0 /\ ~InSession(p)' /\ session' = session
      BY <1>0, <1>2, IdleTyped DEF Crash, Goto, PCs, InSession, world
    <2>2. Running(p)' = {} /\ \A q \in Pollers : Running(q)' \subseteq Running(q)
      BY <1>2, ScaleAssumption DEF Crash, Running, Owner, NoJob, AJob
    <2>3. ASSUME NEW q \in Pollers
          PROVE  /\ InSession(q)' => session' = q
                 /\ Running(q)' # {} \/ poller'[q].left > 0 => At(q, "creating")'
      <3>1. CASE q = p
        BY <2>1, <2>2, <3>1
      <3>2. CASE q # p
        BY <2>1, <2>2, <3>2 DEF OneScaler, InSession, At
      <3>. QED
        BY <3>1, <3>2
    <2>. QED
      BY <2>3 DEF OneScaler
  <1>3. CASE SessionExpires
    <2>1. \A q \in Pollers : Running(q)' = Running(q)
      BY <1>3 DEF SessionExpires, Running, Owner
    <2>2. poller' = poller /\ \A q \in Pollers : ~InSession(q)
      BY <1>3 DEF SessionExpires, OneScaler
    <2>. QED
      BY <2>1, <2>2 DEF OneScaler, InSession, At
  <1>. QED
    BY <1>1, <1>2, <1>3 DEF Cancel, Demand, world, vars

LEMMA InitScaler ==
    ASSUME Init
    PROVE  OneScaler
PROOF
  <1>1. \A p \in Pollers : ~InSession(p) /\ poller[p].left = 0
    BY IdleTyped DEF Init, InSession, PCs
  <1>2. \A p \in Pollers : Running(p) = {}
    BY ScaleAssumption DEF Init, Running, Owner, NoJob, AJob
  <1>. QED
    BY <1>1, <1>2 DEF OneScaler

LEMMA StepKeepsScaler ==
    ASSUME Typed, OneScaler, [Next]_vars
    PROVE  Typed' /\ OneScaler'
PROOF
  <1>1. Typed'
    BY StepTyped
  <1>. QED
    BY <1>1, RunKeepsScaler, TrayKeepsScaler, OtherKeepsScaler DEF Next

\* Nobody but the owner of the session scales, and no goroutine outlives the
\* message it works for, however the terms of any number of replicas overlap.
THEOREM ScalersAreOne == Spec => []OneScaler
PROOF
  <1>1. Init => Typed /\ OneScaler
    BY InitTyped, InitScaler
  <1>2. Typed /\ OneScaler /\ [Next]_vars => (Typed /\ OneScaler)'
    BY StepKeepsScaler
  <1>. QED
    BY <1>1, <1>2, PTL DEF Spec
-------------------------------------------------------------------------------
(* MaxTrays.                                                               *)

\* A step that adds no active row and no plan.
LEMMA CapShrinks ==
    ASSUME Typed, Typed', CapHolds,
           ActiveRows' \subseteq ActiveRows, revived' >= revived,
           \A q \in Pollers : /\ poller'[q].left <= poller[q].left
                              /\ Saving(q)' \subseteq Saving(q)
    PROVE  CapHolds'
PROOF
  <1>1. CountTrays' \in Nat /\ CountTrays' <= CountTrays
    BY Counted, FS_Subset, FS_CardinalityType DEF CountTrays
  <1>2. ASSUME NEW q \in Pollers
        PROVE  Planned(q)' <= Planned(q) /\ Planned(q) \in Nat /\ Planned(q)' \in Nat
    <2>1. poller[q].left \in Nat /\ poller'[q].left \in Nat
      BY ScaleAssumption DEF Typed, TypeOK, Poller
    <2>2. /\ Cardinality(Saving(q)') \in Nat
          /\ Cardinality(Saving(q)') <= Cardinality(Saving(q))
      BY Counted, FS_Subset, FS_CardinalityType
    <2>3. Planned(q)' = poller'[q].left + Cardinality(Saving(q)')
      BY DEF Planned, Saving
    <2>. QED
      BY <2>1, <2>2, <2>3, Counted
  <1>3. revived \in Nat /\ revived' \in Nat
    BY ScaleAssumption DEF Typed, TypeOK
  <1>4. ASSUME NEW q \in Pollers
        PROVE  CountTrays' + Planned(q)' <= MaxTrays + revived'
    <2>1. CountTrays + Planned(q) <= MaxTrays + revived
      BY DEF CapHolds
    <2>. QED
      BY <1>1, <1>2, <1>3, <2>1, Counted, ScaleAssumption
  <1>. QED
    BY <1>4 DEF CapHolds

\* Who is in no batch plans nothing.
LEMMA NoPlan ==
    ASSUME Typed, OneScaler, NEW q \in Pollers, ~At(q, "creating")
    PROVE  Planned(q) = 0 /\ Saving(q) = {} /\ poller[q].left = 0
PROOF
  <1>1. poller[q].left \in Nat
    BY ScaleAssumption DEF Typed, TypeOK, Poller
  <1>2. poller[q].left = 0 /\ Saving(q) = {}
    BY <1>1 DEF OneScaler, Saving
  <1>3. Cardinality(Saving(q)) = 0
    BY <1>2, FS_EmptySet
  <1>4. Planned(q) = poller[q].left + Cardinality(Saving(q))
    BY Counted
  <1>. QED
    BY <1>2, <1>3, <1>4

\* Nobody else plans beside a batch.
LEMMA OthersPlanNothing ==
    ASSUME Typed, OneScaler, NEW p \in Pollers, At(p, "creating"),
           NEW q \in Pollers \ {p}
    PROVE  Planned(q) = 0 /\ Saving(q) = {} /\ poller[q].left = 0
PROOF
  <1>1. session = p /\ ~At(q, "creating")
    BY DEF OneScaler, InSession, At
  <1>. QED
    BY <1>1, NoPlan

\* A tray that is started was planned, and still is.
LEMMA SpawnPlans ==
    ASSUME Typed, NEW p \in Pollers, Spawn(p)
    PROVE  /\ row' = row /\ session' = session /\ revived' = revived
           /\ \A q \in Pollers : Planned(q)' = Planned(q)
PROOF
  <1>1. PICK t \in Trays : job[t] = NoJob /\ job' = [job EXCEPT ![t] = AJob(p, "saving")]
    BY DEF Spawn
  <1>2. /\ job \in [Trays -> Job] /\ poller \in [Pollers -> Poller]
        /\ poller[p].left \in Nat /\ poller[p].left > 0
    BY ScaleAssumption DEF Spawn, Typed, TypeOK, Poller
  <1>3. /\ row' = row /\ session' = session /\ revived' = revived
        /\ poller'[p].left = poller[p].left - 1
        /\ \A q \in Pollers \ {p} : poller'[q] = poller[q]
    BY <1>2 DEF Spawn, world, Poller
  <1>4. Saving(p)' = Saving(p) \cup {t} /\ t \notin Saving(p)
    BY <1>1, <1>2, ScaleAssumption DEF Saving, Running, Owner, Doing, AJob, NoJob
  <1>5. \A q \in Pollers \ {p} : Saving(q)' = Saving(q)
    BY <1>1, <1>2, ScaleAssumption DEF Saving, Running, Owner, Doing, AJob, NoJob
  <1>6. Cardinality(Saving(p)') = Cardinality(Saving(p)) + 1
    BY <1>4, Counted, FS_AddElement
  <1>7. \A q \in Pollers : Planned(q)' = poller'[q].left + Cardinality(Saving(q)')
    BY DEF Planned, Saving
  <1>8. \A q \in Pollers : Planned(q)' = Planned(q)
    <2>1. Planned(p)' = Planned(p)
      BY <1>2, <1>3, <1>6, <1>7, Counted
    <2>2. \A q \in Pollers \ {p} : Planned(q)' = Planned(q)
      BY <1>3, <1>5, <1>7, Counted
    <2>. QED
      BY <2>1, <2>2
  <1>. QED
    BY <1>3, <1>8

LEMMA SpawnKeepsCap ==
    ASSUME Typed, CapHolds, NEW p \in Pollers, Spawn(p)
    PROVE  CapHolds'
PROOF
  <1>1. CountTrays' = CountTrays
    BY SpawnPlans DEF CountTrays, ActiveRows
  <1>. QED
    BY <1>1, SpawnPlans DEF CapHolds

LEMMA ScaleKeepsCap ==
    ASSUME Typed, OneScaler, CapHolds, NEW p \in Pollers, ScaleForDemand(p),
           ToCreate(p) > 0
    PROVE  CapHolds'
PROOF
  <1>1. /\ At(p, "counting") /\ CountTrays' = CountTrays /\ revived' = revived
        /\ job' = job
        /\ poller' = [poller EXCEPT ![p] =
                        APoller("creating", 0, @.want, ToCreate(p), FALSE)]
    BY DEF ScaleForDemand, world, CountTrays, ActiveRows
  <1>2. poller \in [Pollers -> Poller]
    BY DEF Typed, TypeOK
  <1>3. /\ poller'[p].left = ToCreate(p)
        /\ \A q \in Pollers \ {p} : poller'[q] = poller[q]
    BY <1>1, <1>2 DEF APoller
  <1>4. \A q \in Pollers : Saving(q)' = Saving(q)
    BY <1>1 DEF Saving, Running, Owner, Doing
  <1>5. \A q \in Pollers : Planned(q)' = poller'[q].left + Cardinality(Saving(q)')
    BY DEF Planned, Saving
  <1>6. Saving(p) = {}
    BY <1>1, NoPlan DEF At
  <1>7. Planned(p)' = ToCreate(p)
    <2>1. Cardinality(Saving(p)') = 0
      BY <1>4, <1>6, FS_EmptySet
    <2>2. ToCreate(p) \in Nat
      BY BatchFits, ScaleAssumption DEF Typed
    <2>. QED
      BY <1>3, <1>5, <2>1, <2>2
  <1>8. CountTrays' + Planned(p)' <= MaxTrays + revived'
    <2>1. revived \in Nat
      BY ScaleAssumption DEF Typed, TypeOK
    <2>. QED
      BY <1>1, <1>7, <2>1, BatchFits, Counted, ScaleAssumption DEF Typed
  <1>9. \A q \in Pollers \ {p} : Planned(q)' = Planned(q)
    BY <1>3, <1>4, <1>5, Counted
  <1>. QED
    BY <1>1, <1>8, <1>9 DEF CapHolds

\* No other step of a poller plans a tray.
LEMMA RunPlansNoMore ==
    ASSUME Typed, NEW p \in Pollers, Run(p),
           ~Spawn(p), ~(ScaleForDemand(p) /\ ToCreate(p) > 0)
    PROVE  /\ row' = row /\ revived' = revived
           /\ \A q \in Pollers : /\ poller'[q].left <= poller[q].left
                                /\ Saving(q)' \subseteq Saving(q)
PROOF
  <1>0. /\ poller \in [Pollers -> Poller]
        /\ \A q \in Pollers : poller[q].left \in Nat
    BY ScaleAssumption DEF Typed, TypeOK, Poller
  <1>1. row' = row /\ job' = job /\ revived' = revived
    BY DEF Run, Elect, Backoff, EnsureScaleSet, CreateScaleSet, CreateSession,
           SessionConflict, StartFails, Close, GetMessage, ScaleForDemand,
           Await, Recount, ListenerFails, world
  <1>2. \/ \E pc \in PCs : Goto(p, pc)
        \/ poller' = [poller EXCEPT ![p].tries = @ + 1]
        \/ poller' = [poller EXCEPT ![p] = APoller("counting", 0, demand, 0, FALSE)]
    BY DEF Run, Elect, Backoff, EnsureScaleSet, CreateScaleSet, CreateSession,
           SessionConflict, StartFails, Close, GetMessage, ScaleForDemand,
           Await, Recount, ListenerFails, Exits, PCs
  <1>3. \A q \in Pollers : poller'[q].left <= poller[q].left
    <2>1. ASSUME NEW pc \in PCs, Goto(p, pc)
          PROVE  \A q \in Pollers : poller'[q].left <= poller[q].left
      BY <1>0, <2>1, IdleTyped DEF Goto
    <2>2. CASE poller' = [poller EXCEPT ![p].tries = @ + 1]
      BY <1>0, <2>2 DEF Poller
    <2>3. CASE poller' = [poller EXCEPT ![p] = APoller("counting", 0, demand, 0, FALSE)]
      BY <1>0, <2>3 DEF APoller
    <2>. QED
      BY <1>2, <2>1, <2>2, <2>3
  <1>4. \A q \in Pollers : Saving(q)' = Saving(q)
    BY <1>1 DEF Saving, Running, Owner, Doing
  <1>. QED
    BY <1>1, <1>3, <1>4

LEMMA RunKeepsCap ==
    ASSUME Typed, Typed', OneScaler, CapHolds, NEW p \in Pollers, Run(p)
    PROVE  CapHolds'
PROOF
  <1>1. CASE Spawn(p)
    BY <1>1, SpawnKeepsCap
  <1>2. CASE ScaleForDemand(p) /\ ToCreate(p) > 0
    BY <1>2, ScaleKeepsCap
  <1>3. CASE ~Spawn(p) /\ ~(ScaleForDemand(p) /\ ToCreate(p) > 0)
    <2>1. /\ row' = row /\ revived' = revived
          /\ \A q \in Pollers : /\ poller'[q].left <= poller[q].left
                                /\ Saving(q)' \subseteq Saving(q)
      BY <1>3, RunPlansNoMore
    <2>2. ActiveRows' = ActiveRows /\ revived' >= revived
      BY <2>1, ScaleAssumption DEF ActiveRows, Typed, TypeOK
    <2>. QED
      BY <2>1, <2>2, CapShrinks
  <1>. QED
    BY <1>1, <1>2, <1>3

\* A row that becomes active adds one at most.
LEMMA RowAdded ==
    ASSUME NEW t, ActiveRows' = ActiveRows \cup {t}
    PROVE  CountTrays' \in Nat /\ CountTrays' <= CountTrays + 1
PROOF
  <1>1. IsFiniteSet(ActiveRows) /\ CountTrays = Cardinality(ActiveRows) /\ CountTrays \in Nat
    BY Counted DEF CountTrays
  <1>2. Cardinality(ActiveRows \cup {t}) \in {CountTrays, CountTrays + 1}
    BY <1>1, FS_AddElement
  <1>3. CountTrays' = Cardinality(ActiveRows \cup {t})
    BY DEF CountTrays
  <1>. QED
    BY <1>1, <1>2, <1>3

\* An insertion takes one tray from its batch.
LEMMA SavePlans ==
    ASSUME Typed, OneScaler, NEW t \in Trays, Save(t),
           NEW p \in Pollers, p = Owner(t)
    PROVE  /\ At(p, "creating") /\ Planned(p) \in Nat \ {0}
           /\ session' = session /\ revived' = revived
           /\ Planned(p)' = Planned(p) - 1
           /\ \A q \in Pollers \ {p} : Planned(q)' = 0
PROOF
  <1>1. job \in [Trays -> Job]
    BY DEF Typed, TypeOK
  <1>2. t \in Saving(p) /\ At(p, "creating")
    <2>1. t \in Saving(p) /\ Running(p) # {}
      BY DEF Save, Saving, Running
    <2>. QED
      BY <2>1 DEF OneScaler
  <1>3. /\ poller' = poller /\ session' = session /\ revived' = revived
        /\ job' = [job EXCEPT ![t] = AJob(p, "deploying")]
    BY DEF Save, Goes, world
  <1>4. Saving(p)' = Saving(p) \ {t}
    BY <1>1, <1>3 DEF AJob, Saving, Running, Owner, Doing
  <1>5. \A q \in Pollers \ {p} : Saving(q)' \subseteq Saving(q)
    BY <1>1, <1>3 DEF AJob, Saving, Running, Owner, Doing
  <1>6. \A q \in Pollers : Planned(q)' = poller[q].left + Cardinality(Saving(q)')
    BY <1>3 DEF Planned, Saving
  <1>7. /\ Cardinality(Saving(p)') = Cardinality(Saving(p)) - 1
        /\ Cardinality(Saving(p)') \in Nat
    <2>1. IsFiniteSet(Saving(p)) /\ IsFiniteSet(Saving(p)')
      BY <1>4, Counted, FS_RemoveElement
    <2>. QED
      BY <1>2, <1>4, <2>1, FS_RemoveElement, FS_CardinalityType
  <1>8. Planned(p)' = Planned(p) - 1 /\ Planned(p) \in Nat \ {0}
    <2>1. poller[p].left \in Nat
      BY ScaleAssumption DEF Typed, TypeOK, Poller
    <2>2. /\ Planned(p) = poller[p].left + Cardinality(Saving(p))
          /\ Cardinality(Saving(p)) \in Nat
      BY Counted
    <2>3. Planned(p)' = poller[p].left + Cardinality(Saving(p)')
      BY <1>6
    <2>. QED
      BY <1>7, <2>1, <2>2, <2>3
  <1>9. ASSUME NEW q \in Pollers \ {p}
         PROVE  Planned(q)' = 0
    <2>1. Saving(q) = {} /\ poller[q].left = 0
      BY <1>2, OthersPlanNothing
    <2>2. Saving(q)' = {}
      BY <1>5, <2>1
    <2>3. Cardinality(Saving(q)') = 0
      BY <2>2, FS_EmptySet
    <2>. QED
      BY <1>6, <2>1, <2>3
  <1>. QED
    BY <1>2, <1>3, <1>8, <1>9

LEMMA SaveKeepsCap ==
    ASSUME Typed, OneScaler, CapHolds, NEW t \in Trays, Save(t)
    PROVE  CapHolds'
PROOF
  <1>0. PICK p \in Pollers : p = Owner(t)
    BY DEF Save, Typed, Owned, Doing
  <1>1. /\ row \in [Trays -> {"none", "active", "deleting"}] /\ revived \in Nat
    BY ScaleAssumption DEF Typed, TypeOK
  <1>2. ActiveRows' = ActiveRows \cup {t}
    BY <1>1 DEF Save, ActiveRows
  <1>3. CountTrays' \in Nat /\ CountTrays' <= CountTrays + 1 /\ CountTrays \in Nat
    BY <1>2, RowAdded, Counted
  <1>4. /\ Planned(p) \in Nat \ {0} /\ Planned(p)' = Planned(p) - 1
        /\ \A q \in Pollers \ {p} : Planned(q)' = 0
        /\ revived' = revived
    BY <1>0, SavePlans
  <1>5. CountTrays' + Planned(p)' <= MaxTrays + revived'
    <2>1. CountTrays + Planned(p) <= MaxTrays + revived
      BY DEF CapHolds
    <2>. QED
      BY <1>1, <1>3, <1>4, <2>1, ScaleAssumption
  <1>6. ASSUME NEW q \in Pollers
        PROVE  CountTrays' + Planned(q)' <= MaxTrays + revived'
    <2>1. CASE q = p
      BY <1>5, <2>1
    <2>2. CASE q # p
      <3>1. Planned(q)' = 0
        BY <1>4, <2>2
      <3>2. CountTrays' + Planned(p)' <= MaxTrays + revived'
        BY <1>5
      <3>3. Planned(p)' \in Nat
        BY <1>4
      <3>4. CountTrays' <= MaxTrays + revived'
        BY <1>1, <1>3, <1>4, <3>2, <3>3, ScaleAssumption
      <3>. QED
        BY <1>3, <3>1, <3>4
    <2>. QED
      BY <2>1, <2>2
  <1>. QED
    BY <1>6 DEF CapHolds

LEMMA ReviveKeepsCap ==
    ASSUME Typed, CapHolds, NEW t \in Trays, Revive(t)
    PROVE  CapHolds'
PROOF
  <1>1. row \in [Trays -> {"none", "active", "deleting"}] /\ revived \in Nat
    BY ScaleAssumption DEF Typed, TypeOK
  <1>2. /\ poller' = poller /\ job' = job /\ revived' = revived + 1
        /\ ActiveRows' = ActiveRows \cup {t}
    BY <1>1 DEF Revive, ActiveRows
  <1>3. CountTrays' \in Nat /\ CountTrays' <= CountTrays + 1
    BY <1>2, RowAdded
  <1>4. ASSUME NEW q \in Pollers
        PROVE  CountTrays' + Planned(q)' <= MaxTrays + revived'
    <2>1. Planned(q)' = Planned(q)
      BY <1>2 DEF Planned, Running, Owner, Doing
    <2>2. Planned(q) \in Nat /\ CountTrays \in Nat
      <3>1. poller[q].left \in Nat
        BY ScaleAssumption DEF Typed, TypeOK, Poller
      <3>. QED
        BY <3>1, Counted
    <2>3. CountTrays + Planned(q) <= MaxTrays + revived
      BY DEF CapHolds
    <2>. QED
      BY <1>1, <1>2, <1>3, <2>1, <2>2, <2>3, ScaleAssumption
  <1>. QED
    BY <1>4 DEF CapHolds

LEMMA TrayKeepsCap ==
    ASSUME Typed, Typed', OneScaler, CapHolds, NEW t \in Trays,
           \/ CreateTray(t) \/ DeployFails(t)
           \/ MarkDeleting(t) \/ RemoveRow(t) \/ Revive(t)
    PROVE  CapHolds'
PROOF
  <1>1. CASE Save(t)
    BY <1>1, SaveKeepsCap
  <1>2. CASE Revive(t)
    BY <1>2, ReviveKeepsCap
  <1>3. CASE \/ SaveFails(t) \/ Deployed(t) \/ DeployFails(t) \/ Deleted(t)
             \/ DeletionFails(t) \/ MarkDeleting(t) \/ RemoveRow(t)
    <2>1. row \in [Trays -> {"none", "active", "deleting"}] /\ revived \in Nat
      BY ScaleAssumption DEF Typed, TypeOK
    <2>2. /\ \/ row' = row
             \/ \E s \in {"none", "deleting"} : row' = [row EXCEPT ![t] = s]
          /\ revived' = revived
      BY <1>3 DEF SaveFails, Deployed, DeployFails, Deleted, DeletionFails,
                  MarkDeleting, RemoveRow, world
    <2>3. ActiveRows' \subseteq ActiveRows
      BY <2>1, <2>2 DEF ActiveRows
    <2>4. \A q \in Pollers : poller[q].left \in Nat
      BY ScaleAssumption DEF Typed, TypeOK, Poller
    <2>. QED
      BY <2>1, <2>2, <2>3, <2>4, TrayMoves, CapShrinks
  <1>. QED
    BY <1>1, <1>2, <1>3 DEF CreateTray

LEMMA OthersPlanNoMore ==
    ASSUME Typed,
           \/ \E p \in Pollers : Cancel(p) \/ Crash(p)
           \/ \E d \in 0..MaxDemand : Demand(d)
           \/ SessionExpires \/ UNCHANGED vars
    PROVE  /\ row' = row /\ revived' = revived
           /\ \A q \in Pollers : /\ poller'[q].left <= poller[q].left
                                /\ Saving(q)' \subseteq Saving(q)
PROOF
  <1>0. /\ poller \in [Pollers -> Poller] /\ revived \in Nat
        /\ \A q \in Pollers : poller[q].left \in Nat
    BY ScaleAssumption DEF Typed, TypeOK, Poller
  <1>1. row' = row /\ revived' = revived
    BY DEF Cancel, Crash, Demand, SessionExpires, vars, world
  <1>2. ASSUME NEW p \in Pollers, Crash(p)
        PROVE  \A q \in Pollers : /\ poller'[q].left <= poller[q].left
                                  /\ Saving(q)' \subseteq Saving(q)
    <2>1. \A q \in Pollers : poller'[q].left <= poller[q].left
      BY <1>0, <1>2, IdleTyped DEF Crash, Goto, PCs
    <2>2. \A q \in Pollers : Saving(q)' \subseteq Saving(q)
      BY <1>2, ScaleAssumption DEF Crash, Saving, Running, Owner, Doing, NoJob, AJob
    <2>. QED
      BY <2>1, <2>2
  <1>3. \A q \in Pollers : /\ poller'[q].left <= poller[q].left
                          /\ Saving(q)' \subseteq Saving(q)
    <2>1. CASE UNCHANGED <<job, poller>>
      BY <1>0, <2>1 DEF Saving, Running, Owner, Doing
    <2>. QED
      BY <1>2, <2>1 DEF Cancel, Demand, SessionExpires, vars
  <1>. QED
    BY <1>1, <1>3

LEMMA OtherKeepsCap ==
    ASSUME Typed, Typed', CapHolds,
           \/ \E p \in Pollers : Cancel(p) \/ Crash(p)
           \/ \E d \in 0..MaxDemand : Demand(d)
           \/ SessionExpires \/ UNCHANGED vars
    PROVE  CapHolds'
PROOF
  <1>1. /\ row' = row /\ revived' = revived
        /\ \A q \in Pollers : /\ poller'[q].left <= poller[q].left
                              /\ Saving(q)' \subseteq Saving(q)
    BY OthersPlanNoMore
  <1>2. ActiveRows' = ActiveRows /\ revived' >= revived
    BY <1>1, ScaleAssumption DEF ActiveRows, Typed, TypeOK
  <1>. QED
    BY <1>1, <1>2, CapShrinks

LEMMA InitCap ==
    ASSUME Init
    PROVE  CapHolds
PROOF
  <1>1. ActiveRows = {}
    BY DEF Init, ActiveRows
  <1>2. CountTrays = 0
    BY <1>1, FS_EmptySet DEF CountTrays
  <1>3. \A p \in Pollers : ~At(p, "creating")
    BY IdleTyped DEF Init, At, PCs
  <1>4. \A p \in Pollers : Planned(p) = 0
    BY <1>3, InitTyped, InitScaler, NoPlan
  <1>. QED
    BY <1>2, <1>4, ScaleAssumption DEF CapHolds, Init

LEMMA StepKeepsCap ==
    ASSUME Typed, OneScaler, CapHolds, [Next]_vars
    PROVE  Typed' /\ OneScaler' /\ CapHolds'
PROOF
  <1>1. Typed' /\ OneScaler'
    BY StepKeepsScaler
  <1>. QED
    BY <1>1, RunKeepsCap, TrayKeepsCap, OtherKeepsCap DEF Next

\* MaxTrays bounds the active rows and the planned ones, but for the revived,
\* across overlapping terms, crashes, failures and stale sessions.
THEOREM CapIsKept == Spec => []CapHolds
PROOF
  <1>1. Init => Typed /\ OneScaler /\ CapHolds
    BY InitTyped, InitScaler, InitCap
  <1>2. Typed /\ OneScaler /\ CapHolds /\ [Next]_vars => (Typed /\ OneScaler /\ CapHolds)'
    BY StepKeepsCap
  <1>. QED
    BY <1>1, <1>2, PTL DEF Spec
-------------------------------------------------------------------------------
(* Fleet.                                                                  *)

\* A goroutine that is about to save its tray finds no row of its id.
Vacant == \A t \in Trays : Doing(t, "saving") => row[t] = "none"

\* What Fleet calls promised.
Due == IF session = Nobody THEN 0 ELSE Planned(session)

Consistent == Typed /\ OneScaler /\ Vacant

LEMMA DueTyped ==
    ASSUME Typed
    PROVE  /\ Due \in Nat
           /\ \A q \in Pollers : Planned(q) \in Nat
PROOF
  <1>1. ASSUME NEW q \in Pollers
        PROVE  Planned(q) \in Nat
    <2>1. poller[q].left \in Nat
      BY ScaleAssumption DEF Typed, TypeOK, Poller
    <2>2. /\ Planned(q) = poller[q].left + Cardinality(Saving(q))
          /\ Cardinality(Saving(q)) \in Nat
      BY Counted
    <2>. QED
      BY <2>1, <2>2
  <1>2. session \in Pollers \cup {Nobody}
    BY DEF Typed, TypeOK
  <1>. QED
    BY <1>1, <1>2 DEF Due

LEMMA RunVacates ==
    ASSUME Typed, Vacant, NEW p \in Pollers, Run(p)
    PROVE  Vacant'
PROOF
  <1>1. job \in [Trays -> Job]
    BY DEF Typed, TypeOK
  <1>2. CASE Spawn(p)
    BY <1>1, <1>2 DEF Spawn, Vacant, Doing, AJob
  <1>3. CASE ~Spawn(p)
    <2>1. row' = row /\ job' = job
      BY <1>3 DEF Run, Elect, Backoff, EnsureScaleSet, CreateScaleSet,
                  CreateSession, SessionConflict, StartFails, Close, GetMessage,
                  ScaleForDemand, Await, Recount, ListenerFails
    <2>. QED
      BY <2>1 DEF Vacant, Doing
  <1>. QED
    BY <1>2, <1>3

LEMMA TrayVacates ==
    ASSUME Typed, Vacant, NEW t \in Trays,
           \/ CreateTray(t) \/ DeployFails(t)
           \/ MarkDeleting(t) \/ RemoveRow(t) \/ Revive(t)
    PROVE  Vacant'
PROOF
  <1>1. /\ job \in [Trays -> Job]
        /\ row \in [Trays -> {"none", "active", "deleting"}]
    BY DEF Typed, TypeOK
  <1>2. \A u \in Trays \ {t} : row'[u] = row[u] /\ job'[u] = job[u]
    BY <1>1 DEF CreateTray, Save, SaveFails, Deployed, DeployFails, Deleted,
                DeletionFails, MarkDeleting, RemoveRow, Revive, Goes, Ends
  <1>3. Doing(t, "saving")' => row'[t] = "none"
    <2>1. CASE Save(t) \/ SaveFails(t) \/ Deployed(t) \/ DeployFails(t)
               \/ Deleted(t) \/ DeletionFails(t)
      <3>1. job'[t].step # "saving"
        BY <1>1, <2>1 DEF Save, SaveFails, Deployed, DeployFails, Deleted,
                          DeletionFails, Goes, Ends, AJob, NoJob
      <3>. QED
        BY <3>1 DEF Doing
    <2>2. CASE MarkDeleting(t) \/ Revive(t)
      BY <1>1, <2>2 DEF MarkDeleting, Revive, Vacant, Doing
    <2>3. CASE RemoveRow(t)
      BY <1>1, <2>3 DEF RemoveRow
    <2>. QED
      BY <2>1, <2>2, <2>3 DEF CreateTray
  <1>. QED
    BY <1>2, <1>3 DEF Vacant, Doing

LEMMA OthersVacate ==
    ASSUME Typed, Vacant,
           \/ \E p \in Pollers : Cancel(p) \/ Crash(p)
           \/ \E d \in 0..MaxDemand : Demand(d)
           \/ SessionExpires \/ UNCHANGED vars
    PROVE  Vacant'
PROOF
  <1>1. row' = row
    BY DEF Cancel, Crash, Demand, SessionExpires, vars
  <1>2. \A t \in Trays : Doing(t, "saving")' => Doing(t, "saving")
    <2>1. ASSUME NEW p \in Pollers, Crash(p)
          PROVE  \A t \in Trays : Doing(t, "saving")' => Doing(t, "saving")
      BY <2>1 DEF Crash, Doing, NoJob, AJob
    <2>2. CASE job' = job
      BY <2>2 DEF Doing
    <2>. QED
      BY <2>1, <2>2 DEF Cancel, Demand, SessionExpires, vars
  <1>. QED
    BY <1>1, <1>2 DEF Vacant

LEMMA StepConsistent ==
    ASSUME Consistent, [Next]_vars
    PROVE  Consistent'
PROOF
  <1>1. Typed' /\ OneScaler'
    BY StepKeepsScaler DEF Consistent
  <1>2. Vacant'
    BY RunVacates, TrayVacates, OthersVacate DEF Next, Consistent
  <1>. QED
    BY <1>1, <1>2 DEF Consistent

\* A step that moves no row and plans no tray breaks promises, or none.
LEMMA BreakMaps ==
    ASSUME Consistent, Typed', row' = row, revived' = revived,
           \A q \in Pollers : /\ poller'[q].left <= poller[q].left
                              /\ Saving(q)' \subseteq Saving(q)
    PROVE  Scaling!Break
PROOF
  <1>1. ASSUME NEW q \in Pollers
        PROVE  Planned(q)' \in 0..Planned(q)
    <2>1. poller[q].left \in Nat /\ poller'[q].left \in Nat
      BY ScaleAssumption DEF Consistent, Typed, TypeOK, Poller
    <2>2. /\ Cardinality(Saving(q)') \in Nat
          /\ Cardinality(Saving(q)') <= Cardinality(Saving(q))
      BY Counted, FS_Subset, FS_CardinalityType
    <2>3. Planned(q)' = poller'[q].left + Cardinality(Saving(q)')
      BY DEF Planned, Saving
    <2>4. /\ Planned(q) = poller[q].left + Cardinality(Saving(q))
          /\ Cardinality(Saving(q)) \in Nat
      BY Counted
    <2>. QED
      BY <2>1, <2>2, <2>3, <2>4
  <1>2. Due' \in 0..Due
    <2>1. CASE session' = Nobody
      BY <2>1, DueTyped DEF Due, Consistent
    <2>2. ASSUME NEW q \in Pollers, session' = q
          PROVE  Due' \in 0..Due
      <3>1. Due' = Planned(q)'
        BY <2>2, ScaleAssumption DEF Due
      <3>2. CASE session = q
        BY <1>1, <3>1, <3>2, ScaleAssumption DEF Due
      <3>3. CASE session # q
        <4>1. ~At(q, "creating")
          BY <3>3 DEF Consistent, OneScaler, InSession, At
        <4>2. Planned(q) = 0
          BY <4>1, NoPlan DEF Consistent
        <4>3. Planned(q)' = 0
          BY <1>1, <4>2
        <4>. QED
          BY <3>1, <4>3, DueTyped DEF Consistent
      <3>. QED
        BY <3>2, <3>3
    <2>3. session' \in Pollers \cup {Nobody}
      BY DEF Typed, TypeOK
    <2>. QED
      BY <2>1, <2>2, <2>3
  <1>. QED
    BY <1>2 DEF Scaling!Break, Due

\* Fleet counts as ScaleSetPoller does.
LEMMA SameCount == \A S : Scaling!Cardinality(S) = Cardinality(S)
PROOF
  BY DEF Scaling!Cardinality, Cardinality

LEMMA RunMaps ==
    ASSUME Consistent, Typed', NEW p \in Pollers, Run(p)
    PROVE  [Scaling!Next]_Scaling!vars
PROOF
  <1>1. CASE Spawn(p)
    <2>1. session \in Pollers \cup {Nobody}
      BY DEF Consistent, Typed, TypeOK
    <2>2. row' = row /\ session' = session /\ revived' = revived
      BY <1>1, SpawnPlans DEF Consistent
    <2>3. ASSUME NEW q \in Pollers, session = q
          PROVE  Due' = Due
      <3>1. Planned(q)' = Planned(q)
        BY <1>1, SpawnPlans DEF Consistent
      <3>. QED
        BY <2>2, <2>3, <3>1 DEF Due
    <2>4. Due' = Due
      BY <2>1, <2>2, <2>3 DEF Due
    <2>. QED
      BY <2>2, <2>4 DEF Scaling!vars, Due
  <1>2. CASE ScaleForDemand(p) /\ ToCreate(p) > 0
    <2>1. /\ At(p, "counting") /\ row' = row /\ revived' = revived
          /\ job' = job /\ session' = session
          /\ poller' = [poller EXCEPT ![p] =
                          APoller("creating", 0, @.want, ToCreate(p), FALSE)]
      BY <1>2 DEF ScaleForDemand, world
    <2>2. session = p
      BY <2>1 DEF Consistent, OneScaler, InSession, At
    <2>3. Planned(p) = 0 /\ Saving(p) = {}
      BY <2>1, NoPlan DEF At, Consistent
    <2>4. Planned(p)' = ToCreate(p)
      <3>1. poller'[p].left = ToCreate(p)
        BY <2>1 DEF Consistent, Typed, TypeOK, APoller
      <3>2. Saving(p)' = {}
        BY <2>1, <2>3 DEF Saving, Running, Owner, Doing
      <3>3. Cardinality(Saving(p)') = 0
        BY <3>2, FS_EmptySet
      <3>4. Planned(p)' = poller'[p].left + Cardinality(Saving(p)')
        BY DEF Planned, Saving
      <3>5. ToCreate(p) \in Nat
        BY <1>2, BatchFits, ScaleAssumption DEF Consistent, Typed
      <3>. QED
        BY <3>1, <3>3, <3>4, <3>5
    <2>5. Due = 0 /\ Due' = ToCreate(p)
      BY <2>1, <2>2, <2>3, <2>4, ScaleAssumption DEF Due
    <2>6. ToCreate(p) \in 1..(MaxTrays - Scaling!Cardinality(Scaling!Active))
      <3>1. Scaling!Cardinality(Scaling!Active) = CountTrays
        BY SameCount DEF Scaling!Active, CountTrays, ActiveRows
      <3>2. ToCreate(p) \in 0..MaxTrays /\ CountTrays + ToCreate(p) <= MaxTrays
        BY <1>2, BatchFits DEF Consistent, Typed
      <3>3. CountTrays \in Nat
        BY Counted
      <3>. QED
        BY <1>2, <3>1, <3>2, <3>3, ScaleAssumption
    <2>7. Scaling!Promise
      BY <2>1, <2>5, <2>6 DEF Scaling!Promise, Due
    <2>. QED
      BY <2>7 DEF Scaling!Next
  <1>3. CASE ~Spawn(p) /\ ~(ScaleForDemand(p) /\ ToCreate(p) > 0)
    <2>1. Scaling!Break
      BY <1>3, RunPlansNoMore, BreakMaps DEF Consistent
    <2>. QED
      BY <2>1 DEF Scaling!Next
  <1>. QED
    BY <1>1, <1>2, <1>3

\* What keeps its goroutine from saving or out of the batch keeps the promise.
LEMMA DueKept ==
    ASSUME Consistent, UNCHANGED <<poller, session>>,
           \A q \in Pollers : Saving(q)' = Saving(q)
    PROVE  Due' = Due
PROOF
  <1>1. session \in Pollers \cup {Nobody}
    BY DEF Consistent, Typed, TypeOK
  <1>2. ASSUME NEW q \in Pollers, session = q
        PROVE  Due' = Due
    <2>1. Planned(q)' = poller[q].left + Cardinality(Saving(q)')
      BY DEF Planned, Saving
    <2>2. Planned(q)' = Planned(q)
      BY <2>1, Counted
    <2>. QED
      BY <1>2, <2>2 DEF Due
  <1>. QED
    BY <1>1, <1>2 DEF Due

LEMMA SaveMaps ==
    ASSUME Consistent, NEW t \in Trays, Save(t)
    PROVE  Scaling!Insert(t)
PROOF
  <1>1. PICK p \in Pollers : p = Owner(t)
    BY DEF Save, Consistent, Typed, Owned, Doing
  <1>2. /\ At(p, "creating") /\ Planned(p) \in Nat \ {0}
        /\ session' = session /\ revived' = revived
        /\ Planned(p)' = Planned(p) - 1
    BY <1>1, SavePlans DEF Consistent
  <1>3. session = p
    BY <1>2 DEF Consistent, OneScaler, InSession, At
  <1>4. Due > 0 /\ Due' = Due - 1
    BY <1>2, <1>3, ScaleAssumption DEF Due
  <1>5. row[t] = "none" /\ row' = [row EXCEPT ![t] = "active"]
    BY DEF Save, Consistent, Vacant
  <1>. QED
    BY <1>2, <1>4, <1>5 DEF Scaling!Insert, Due

LEMMA TrayMaps ==
    ASSUME Consistent, Typed', NEW t \in Trays,
           \/ CreateTray(t) \/ DeployFails(t)
           \/ MarkDeleting(t) \/ RemoveRow(t) \/ Revive(t)
    PROVE  [Scaling!Next]_Scaling!vars
PROOF
  <1>. USE DEF Consistent
  <1>1. /\ job \in [Trays -> Job]
        /\ row \in [Trays -> {"none", "active", "deleting"}]
    BY DEF Typed, TypeOK
  <1>2. CASE Save(t)
    BY <1>2, SaveMaps DEF Scaling!Next
  <1>3. CASE SaveFails(t) \/ Deployed(t) \/ DeletionFails(t)
    <2>1. row' = row /\ revived' = revived
      BY <1>3 DEF SaveFails, Deployed, DeletionFails, world
    <2>2. \A q \in Pollers : /\ poller'[q].left <= poller[q].left
                            /\ Saving(q)' \subseteq Saving(q)
      <3>1. \A q \in Pollers : poller[q].left \in Nat
        BY ScaleAssumption DEF Typed, TypeOK, Poller
      <3>. QED
        BY <3>1, <1>3, TrayMoves DEF CreateTray
    <2>3. Scaling!Break
      BY <2>1, <2>2, BreakMaps
    <2>. QED
      BY <2>3 DEF Scaling!Next
  <1>4. CASE MarkDeleting(t) \/ RemoveRow(t) \/ Revive(t)
    <2>1. poller' = poller /\ session' = session /\ job' = job
      BY <1>4 DEF MarkDeleting, RemoveRow, Revive, world
    <2>2. \A q \in Pollers : Saving(q)' = Saving(q)
      BY <2>1 DEF Saving, Running, Owner, Doing
    <2>3. Due' = Due
      BY <2>1, <2>2, DueKept
    <2>4. Scaling!Mark(t) \/ Scaling!Remove(t) \/ Scaling!Revive(t)
      BY <1>4, <2>3 DEF MarkDeleting, RemoveRow, Revive, world, Due,
                        Scaling!Mark, Scaling!Remove, Scaling!Revive
    <2>. QED
      BY <2>4 DEF Scaling!Next
  <1>5. CASE DeployFails(t) \/ Deleted(t)
    <2>1. /\ poller' = poller /\ session' = session /\ revived' = revived
          /\ ~Doing(t, "saving")
          /\ Goes(t, "deleting") \/ Ends(t)
      BY <1>5 DEF DeployFails, Deleted, world, Doing
    <2>2. \A q \in Pollers : Saving(q)' = Saving(q)
      BY <1>1, <2>1, ScaleAssumption
         DEF Goes, Ends, AJob, NoJob, Saving, Running, Owner, Doing
    <2>3. Due' = Due
      BY <2>1, <2>2, DueKept
    <2>4. \/ row' = row
          \/ row[t] = "active" /\ row' = [row EXCEPT ![t] = "deleting"]
          \/ row[t] # "none" /\ row' = [row EXCEPT ![t] = "none"]
      BY <1>1, <1>5 DEF DeployFails, Deleted
    <2>5. UNCHANGED Scaling!vars \/ Scaling!Mark(t) \/ Scaling!Remove(t)
      BY <2>1, <2>3, <2>4 DEF Scaling!vars, Scaling!Mark, Scaling!Remove, Due
    <2>. QED
      BY <2>5 DEF Scaling!Next
  <1>. QED
    BY <1>2, <1>3, <1>4, <1>5 DEF CreateTray

LEMMA OthersMap ==
    ASSUME Consistent, Typed',
           \/ \E p \in Pollers : Cancel(p) \/ Crash(p)
           \/ \E d \in 0..MaxDemand : Demand(d)
           \/ SessionExpires \/ UNCHANGED vars
    PROVE  [Scaling!Next]_Scaling!vars
PROOF
  <1>1. Scaling!Break
    BY OthersPlanNoMore, BreakMaps DEF Consistent
  <1>. QED
    BY <1>1 DEF Scaling!Next

\* The pollers of any number of replicas together do what one Fleet may do:
\* every step of theirs is a step of Fleet, or none.
THEOREM ImplementsFleet == Spec => ScalesAsFleet
PROOF
  <1>1. Init => Consistent
    <2>1. ASSUME Init
          PROVE  Vacant
      BY <2>1 DEF Init, Vacant, Doing, NoJob, AJob
    <2>. QED
      BY <2>1, InitTyped, InitScaler DEF Consistent
  <1>2. Consistent /\ [Next]_vars => Consistent'
    BY StepConsistent
  <1>3. Init => Scaling!Init
    BY DEF Init, Scaling!Init
  <1>4. Consistent /\ Consistent' /\ [Next]_vars => [Scaling!Next]_Scaling!vars
    BY RunMaps, TrayMaps, OthersMap DEF Next, Consistent
  <1>. QED
    BY <1>1, <1>2, <1>3, <1>4, PTL DEF Spec, ScalesAsFleet, Scaling!Spec
=============================================================================
