----------------------------- MODULE AgentProofs -----------------------------
(***************************************************************************)
(* Proofs about Agent, for any number of attempts and of faults.           *)
(***************************************************************************)
EXTENDS Agent, TLAPS

\* Every attempt to register leaves at most one late handler behind.
LateBounded == main = "registering" => late <= attempts

Typed == TypeOK /\ LateBounded

Rows == [status: {"creating", "registering", "registered", "running", "deleting"},
         old: BOOLEAN] \cup {NoRow}

\* What a row can become.
LEMMA RowsTyped ==
    ASSUME TypeOK
    PROVE  /\ row \in Rows /\ (row.old => row.status # "running")
           /\ \A s \in {"creating", "registering", "registered", "running", "deleting"} :
                UpdateStatus(s) \in Rows /\ ~UpdateStatus(s).old
           /\ NoRow \in Rows /\ ~NoRow.old
           /\ Exists => ARow(row.status, TRUE) \in Rows
           /\ ARow(row.status, TRUE).status = row.status
PROOF
  <1>1. row \in Rows /\ (row.old => row.status # "running")
    BY DEF TypeOK, Rows
  <1>2. NoRow \in Rows /\ ~NoRow.old
    BY DEF NoRow, ARow, Rows
  <1>3. ASSUME NEW s \in {"creating", "registering", "registered", "running", "deleting"}
        PROVE  UpdateStatus(s) \in Rows /\ ~UpdateStatus(s).old
    <2>1. ARow(s, FALSE) \in Rows /\ ~ARow(s, FALSE).old
      BY DEF ARow, Rows
    <2>. QED
      BY <1>2, <2>1 DEF UpdateStatus, Exists
  <1>4. Exists => ARow(row.status, TRUE) \in Rows
    BY <1>1 DEF Exists, ARow, Rows
  <1>5. ARow(row.status, TRUE).status = row.status
    BY DEF ARow
  <1>. QED
    BY <1>1, <1>2, <1>3, <1>4, <1>5

\* A row is left alone, removed, given a status, or found to be old.
LEMMA RowMoves ==
    ASSUME Next
    PROVE  \/ row' = row \/ row' = NoRow
           \/ \E s \in {"creating", "registering", "registered", "running", "deleting"} :
                row' = UpdateStatus(s)
           \/ Exists /\ row.status # "running" /\ row' = ARow(row.status, TRUE)
PROOF
  <1>1. CASE UNCHANGED row
    BY <1>1
  <1>2. CASE DeleteTray
    BY <1>2 DEF DeleteTray
  <1>3. CASE Register \/ RegisterFails \/ Registered \/ HandleJobStarted
    BY <1>3 DEF Register, RegisterFails, Registered, HandleJobStarted
  <1>4. CASE Age
    BY <1>4 DEF Age
  <1>. QED
    BY <1>1, <1>2, <1>3, <1>4
       DEF Next, Main, MainFails, Server, watchPing, Unregister, Stranded, Watch, Resolve,
           Stop, Leave, Unreached, Rejected, StopFails, HandleJobCompleted, HandleStale,
           RegisteredFails, Arm, Strikes, SignalKills, FileFails, Ping, Terminate, Wake,
           PingFails, Launch, LaunchFails, Exits, AssignJob, JobAborted, world

LEMMA RowStaysTyped ==
    ASSUME TypeOK, Next
    PROVE  row' \in Rows /\ (row'.old => row'.status # "running")
PROOF
  <1>1. CASE row' = row
    BY <1>1, RowsTyped
  <1>2. CASE row' = NoRow
    BY <1>2, RowsTyped
  <1>3. CASE \E s \in {"creating", "registering", "registered", "running", "deleting"} :
               row' = UpdateStatus(s)
    BY <1>3, RowsTyped
  <1>4. CASE Exists /\ row.status # "running" /\ row' = ARow(row.status, TRUE)
    BY <1>4, RowsTyped
  <1>. QED
    BY <1>1, <1>2, <1>3, <1>4, RowMoves

\* The type, but for the row's.
Rest ==
    /\ main \in {"registering", "refused", "registered", "listening", "stopping",
                 "unregistering", "leaving", "exited", "killed"}
    /\ attempts \in 0..(MaxAttempts - 1)
    /\ cause \in {"none", "listener", "signal", "file", "ping"}
    /\ armed \subseteq {"signal", "file"}
    /\ ping \in {"off", "asking", "asleep", "told", "ended"}
    /\ listener \in {"none", "launching", "running", "escaped", "interrupted",
                     "killed", "ended"}
    /\ shutdown \in BOOLEAN
    /\ machine \in {"up", "off", "gone"}
    /\ late \in Nat /\ late <= MaxAttempts /\ LateBounded
    /\ job \in {"none", "running", "over"}
    /\ seen \in 0..2
    /\ faults \in 0..MaxFaults

LEMMA InitTyped == Init => Typed
PROOF
  <1>1. ARow("creating", FALSE) \in Rows /\ ~ARow("creating", FALSE).old
    BY DEF ARow, Rows
  <1>2. NoRow \in Rows /\ ~NoRow.old
    BY DEF NoRow, ARow, Rows
  <1>3. Init => row \in Rows /\ (row.old => row.status # "running")
    BY <1>1, <1>2 DEF Init
  <1>4. /\ 0 \in 0..(MaxAttempts - 1) /\ 0 \in 0..MaxFaults /\ 0 \in 0..2
        /\ 0 \in Nat /\ 0 <= MaxAttempts
    BY AgentAssumption
  <1>5. Init => Rest
    BY <1>4 DEF Init, Rest, LateBounded
  <1>. QED
    BY <1>3, <1>5 DEF Typed, TypeOK, Rest, Rows

LEMMA RestTyped ==
    ASSUME Typed, Next
    PROVE  Rest'
PROOF
  <1>. DEFINE Goal == Rest'
  <1>. SUFFICES Goal
    OBVIOUS
  <1>0. TypeOK /\ LateBounded
    BY DEF Typed
  <1>. USE <1>0, AgentAssumption DEF TypeOK, LateBounded, Rest
  <1>1. CASE Register
    BY <1>1 DEF Register, At, Running, Goto, Retry
  <1>2. CASE RegisterFails
    BY <1>2 DEF RegisterFails, At, Running, Goto, Retry, Spend
  <1>3. CASE Unregister
    BY <1>3 DEF Unregister, At, Running, Goto, Retry, DeleteTray, Spend
  <1>4. CASE Unreached
    BY <1>4 DEF Unreached, At, Running, Goto, Retry, Spend, world
  <1>5. CASE Rejected
    BY <1>5 DEF Rejected, At, Running, Goto, Spend, world
  <1>6. CASE Stranded
    BY <1>6 DEF Stranded, At, Running, Goto, world
  <1>7. CASE Watch
    BY <1>7 DEF Watch, At, Running, Goto, world
  <1>8. CASE Resolve
    BY <1>8 DEF Resolve, At, Running, Goto, world
  <1>9. CASE Stop
    BY <1>9 DEF Stop, At, Running, Goto, Interrupted, world
  <1>10. CASE StopFails
    BY <1>10 DEF StopFails, At, Running, Goto, Spend, world
  <1>11. CASE Leave
    BY <1>11 DEF Leave, At, Running, Goto, world
  <1>12. CASE SignalKills
    BY <1>12 DEF SignalKills, Running, Dies, Orphaned, world
  <1>13. CASE FileFails
    BY <1>13 DEF FileFails, Spawned, Running, Dies, Orphaned, Spend, world
  <1>14. CASE Ping
    BY <1>14 DEF Ping, Running, world
  <1>15. CASE PingFails
    BY <1>15 DEF PingFails, Running, Spend, world
  <1>16. CASE Terminate
    BY <1>16 DEF Terminate, Running, Cancel, world
  <1>17. CASE Wake
    BY <1>17 DEF Wake, Running, world
  <1>18. CASE Launch
    BY <1>18 DEF Launch, Running, world
  <1>19. CASE LaunchFails
    BY <1>19 DEF LaunchFails, Running, Spend, Cancel, world
  <1>20. CASE Exits
    BY <1>20 DEF Exits, Running, Cancel
  <1>21. CASE AssignJob
    BY <1>21 DEF AssignJob, process
  <1>22. CASE JobAborted
    BY <1>22 DEF JobAborted, process
  <1>23. CASE Registered
    BY <1>23 DEF Registered, process
  <1>24. CASE RegisteredFails
    BY <1>24 DEF RegisteredFails, process, Spend
  <1>25. CASE HandleJobStarted
    BY <1>25 DEF HandleJobStarted, process
  <1>26. CASE HandleJobCompleted
    BY <1>26 DEF HandleJobCompleted, process, DeleteTray, Spend
  <1>27. CASE Age
    BY <1>27 DEF Age, process
  <1>28. CASE HandleStale
    BY <1>28 DEF HandleStale, process, DeleteTray, Spend
  <1>29. ASSUME NEW w \in {"signal", "file"}, Arm(w) PROVE Goal
    BY <1>29 DEF Arm, Spawned, Running, world
  <1>30. ASSUME NEW w \in {"signal", "file"}, Strikes(w) PROVE Goal
    BY <1>30 DEF Strikes, Running, Cancel, world
  <1>. QED
    BY <1>1, <1>2, <1>3, <1>4, <1>5, <1>6, <1>7, <1>8, <1>9, <1>10, <1>11,
       <1>12, <1>13, <1>14, <1>15, <1>16, <1>17, <1>18, <1>19, <1>20, <1>21,
       <1>22, <1>23, <1>24, <1>25, <1>26, <1>27, <1>28, <1>29, <1>30
       DEF Next, Main, MainFails, Server, watchPing

LEMMA StepTyped ==
    ASSUME Typed, Next
    PROVE  Typed'
PROOF
  BY RestTyped, RowStaysTyped DEF Typed, TypeOK, Rest, Rows

\* Every variable keeps its type: no request is tried more often than allowed, and
\* no more register handlers are late than attempts were made.
THEOREM AgentTyped == Spec => []TypeOK
PROOF
  <1>1. Typed /\ [Next]_vars => Typed'
    <2>1. ASSUME Typed, UNCHANGED vars PROVE Typed'
      BY <2>1 DEF Typed, TypeOK, LateBounded, vars, process, world
    <2>. QED
      BY <2>1, StepTyped
  <1>2. Typed => TypeOK
    BY DEF Typed
  <1>. QED
    BY <1>1, <1>2, InitTyped, PTL DEF Spec

----------------------------------------------------------------------------
(* The listener.                                                           *)

\* Before the watchers are spawned there is nothing to stop; and a listener that
\* cancelled the context has ended, or was never there.
StopKnows ==
    /\ main \in {"registering", "refused", "registered"}
         => listener = "none" /\ cause = "none" /\ armed = {} /\ ping = "off"
    /\ cause = "listener" => listener \notin {"launching", "running"}

ListenerSettled == StopKnows /\ ListenerStopped

LEMMA StepSettled ==
    ASSUME TypeOK, ListenerSettled, Next
    PROVE  ListenerSettled'
PROOF
  <1>. DEFINE Goal == ListenerSettled'
  <1>. SUFFICES Goal
    OBVIOUS
  <1>. USE DEF TypeOK, ListenerSettled, StopKnows, ListenerStopped
  <1>1. CASE Register
    BY <1>1 DEF Register, At, Running, Goto, Retry
  <1>2. CASE RegisterFails
    BY <1>2 DEF RegisterFails, At, Running, Goto, Retry, Spend
  <1>3. CASE Unregister
    BY <1>3 DEF Unregister, At, Running, Goto, Retry, DeleteTray, Spend
  <1>4. CASE Unreached
    BY <1>4 DEF Unreached, At, Running, Goto, Retry, Spend, world
  <1>5. CASE Rejected
    BY <1>5 DEF Rejected, At, Running, Goto, Spend, world
  <1>6. CASE Stranded
    BY <1>6 DEF Stranded, At, Running, Goto, world
  <1>7. CASE Watch
    BY <1>7 DEF Watch, At, Running, Goto, world
  <1>8. CASE Resolve
    BY <1>8 DEF Resolve, At, Running, Goto, world
  <1>9. CASE Stop
    BY <1>9 DEF Stop, At, Running, Goto, Interrupted, world
  <1>10. CASE StopFails
    BY <1>10 DEF StopFails, At, Running, Goto, Spend, world
  <1>11. CASE Leave
    BY <1>11 DEF Leave, At, Running, Goto, world
  <1>12. CASE SignalKills
    BY <1>12 DEF SignalKills, Running, Dies, Orphaned, world
  <1>13. CASE FileFails
    BY <1>13 DEF FileFails, Spawned, Running, Dies, Orphaned, Spend, world
  <1>14. CASE Ping
    BY <1>14 DEF Ping, Running, world
  <1>15. CASE PingFails
    BY <1>15 DEF PingFails, Running, Spend, world
  <1>16. CASE Terminate
    BY <1>16 DEF Terminate, Running, Cancel, world
  <1>17. CASE Wake
    BY <1>17 DEF Wake, Running, world
  <1>18. CASE Launch
    BY <1>18 DEF Launch, Running, world
  <1>19. CASE LaunchFails
    BY <1>19 DEF LaunchFails, Running, Spend, Cancel, world
  <1>20. CASE Exits
    BY <1>20 DEF Exits, Running, Cancel
  <1>21. CASE AssignJob
    BY <1>21 DEF AssignJob, process
  <1>22. CASE JobAborted
    BY <1>22 DEF JobAborted, process
  <1>23. CASE Registered
    BY <1>23 DEF Registered, process
  <1>24. CASE RegisteredFails
    BY <1>24 DEF RegisteredFails, process, Spend
  <1>25. CASE HandleJobStarted
    BY <1>25 DEF HandleJobStarted, process
  <1>26. CASE HandleJobCompleted
    BY <1>26 DEF HandleJobCompleted, process, DeleteTray, Spend
  <1>27. CASE Age
    BY <1>27 DEF Age, process
  <1>28. CASE HandleStale
    BY <1>28 DEF HandleStale, process, DeleteTray, Spend
  <1>29. ASSUME NEW w \in {"signal", "file"}, Arm(w) PROVE Goal
    BY <1>29 DEF Arm, Spawned, Running, world
  <1>30. ASSUME NEW w \in {"signal", "file"}, Strikes(w) PROVE Goal
    BY <1>30 DEF Strikes, Running, Cancel, world
  <1>. QED
    BY <1>1, <1>2, <1>3, <1>4, <1>5, <1>6, <1>7, <1>8, <1>9, <1>10, <1>11,
       <1>12, <1>13, <1>14, <1>15, <1>16, <1>17, <1>18, <1>19, <1>20, <1>21,
       <1>22, <1>23, <1>24, <1>25, <1>26, <1>27, <1>28, <1>29, <1>30
       DEF Next, Main, MainFails, Server, watchPing

\* "Kill listener if it wasn't the one that finished": whichever watcher strikes
\* first and however late the listener comes up, an agent that tells the server
\* that it goes leaves no listener behind that was not told to end.
THEOREM ListenerIsStopped == Spec => []ListenerStopped
PROOF
  <1>1. Init => ListenerSettled
    BY DEF Init, ListenerSettled, StopKnows, ListenerStopped
  <1>2. TypeOK /\ ListenerSettled /\ [Next]_vars => ListenerSettled'
    <2>1. ASSUME ListenerSettled, UNCHANGED vars PROVE ListenerSettled'
      BY <2>1 DEF ListenerSettled, StopKnows, ListenerStopped, vars, process, world
    <2>. QED
      BY <2>1, StepSettled
  <1>3. ListenerSettled => ListenerStopped
    BY DEF ListenerSettled
  <1>. QED
    BY <1>1, <1>2, <1>3, AgentTyped, PTL DEF Spec
=============================================================================
