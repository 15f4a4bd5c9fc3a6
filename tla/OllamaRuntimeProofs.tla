-------------------------- MODULE OllamaRuntimeProofs --------------------------
(***************************************************************************)
(* Proofs about OllamaRuntime, for any number of servers, status requests  *)
(* and hosts, whether stops fail or not: types, ServerIsCovered, StopWins. *)
(***************************************************************************)
EXTENDS OllamaRuntime, TLAPS

\* Whoever may reserve the device, or has it, is told apart from all others.
LeaseIsExact ==
    /\ \A c \in Child : child[c] \in Unreaped => lease = c
    /\ ext # NoHost <=> lease = "ext"
    /\ \A a \in Asker : at[a] = "commits" => lease = a
    /\ pc = "spawns" => lease = Worker
    /\ at[Worker] # "idle" => pc = "admits"

\* Every server that lives has one record, in one place, and no other has one.
RecordsAreExact ==
    /\ \A c \in Child : child[c] \in Unreaped <=>
           (process = c \/ c \in unreaped \/ \E t \in Thread : c \in hand[t])
    /\ process \notin unreaped
    /\ \A t \in Thread : process \notin hand[t] /\ unreaped \cap hand[t] = {}
    /\ \A t, u \in Thread : t # u => hand[t] \cap hand[u] = {}

\* The version of a recorded server is marked as in use.
RecordedIsActive == process # NoChild \/ unreaped # {} => active

\* What a thread has in hand, by where it stands.
HandsFitSteps ==
    /\ pc \in {"registers", "rejects", "stops"} => hand["worker"] = {watched}
    /\ pc \notin {"registers", "rejects", "stops", "stopsAll"} => hand["worker"] = {}
    /\ pc \in {"registers", "rejects", "watches", "rewatches", "fails", "stops"}
           => watched \in Child
    /\ pc = "removes" => \A c \in Child : child[c] \notin Unreaped
    /\ closing # "stops" => hand["shutdown"] = {}

\* Until the shutdown, whoever works holds the guard.
GuardIsHeld ==
    /\ closing = "no" <=> ~shutdown
    /\ ~shutdown => /\ hand["monitor"] # {} <=> op = "reap"
                    /\ pc # "idle" => op \in {"start", "stop", "remove"}

\* A withdrawn attempt has no entry, and after the shutdown none is honoured.
WithdrawnIsOut ==
    /\ pending \notin outdated
    /\ \A a \in outdated : at[a] \in {"reserves", "commits"}
    /\ closing \in {"stops", "over"} => ext = NoHost

Inv ==
    /\ TypeOK /\ LeaseIsExact /\ RecordsAreExact /\ RecordedIsActive
    /\ HandsFitSteps /\ GuardIsHeld /\ WithdrawnIsOut

\* What StopWins says of one step.
StopWinsStep ==
    /\ \A a \in outdated : at[a] = "commits" /\ at'[a] = "idle" => ext' = ext
    /\ closing \in {"stops", "over"} => ext' = NoHost

-----------------------------------------------------------------------------
\* The thread t has stopped what it had in hand, but for `failed`.
StopsBut(t, failed) ==
    /\ child' = [c \in Child |-> IF c \in hand[t] \ failed THEN "reaped" ELSE child[c]]
    /\ lease' = IF lease \in hand[t] \ failed THEN "free" ELSE lease
    /\ active' = IF failed # {} THEN TRUE ELSE active /\ hand[t] = {}
    /\ unreaped' = IF failed # {} THEN failed ELSE unreaped
    /\ hand' = [hand EXCEPT ![t] = {}]

\* What StopsAll does.
LEMMA StopsAllEffect ==
    ASSUME NEW t \in Thread, StopsAll(t)
    PROVE  \E failed \in SUBSET hand[t] : StopsBut(t, failed)
BY DEF StopsAll, Stopped, Dropped, StopsBut

LEMMA InitInv == Init => Inv
BY OllamaAssumption DEF Init, Inv, LeaseIsExact, RecordsAreExact, RecordedIsActive,
   HandsFitSteps,
   GuardIsHeld, WithdrawnIsOut, TypeOK, Asker, Thread, NoLease, ChildStates, Steps, Unreaped

\* No step leaves the types.
LEMMA NextTypes == Inv /\ [Next]_vars => TypeOK'
<1> SUFFICES ASSUME Inv, [Next]_vars PROVE TypeOK' OBVIOUS
<1> USE OllamaAssumption DEF Inv, TypeOK, Asker, Thread, NoLease, ChildStates,
       Steps, Unreaped, LeaseIsExact, HandsFitSteps,
       manager, attempts, worker, threads
<1>1. CASE UNCHANGED vars
  BY <1>1 DEF vars
<1>2. CASE StartBegins
  BY <1>2 DEF StartBegins, Begin
<1>3. CASE StopBegins
  BY <1>3 DEF StopBegins, Begin
<1>4. CASE RemoveBegins
  BY <1>4 DEF RemoveBegins, Begin
<1>5. CASE ShutdownBegins
  BY <1>5 DEF ShutdownBegins
<1>6. CASE StartLooks
  BY <1>6 DEF StartLooks
<1>7. CASE FindsExternal
  BY <1>7 DEF FindsExternal
<1>8. CASE AdmissionEnds
  BY <1>8 DEF AdmissionEnds, Finish
<1>9. CASE FindsNobody
  BY <1>9 DEF FindsNobody
<1>10. CASE Prepares
  BY <1>10 DEF Prepares
<1>11. CASE FailsEarly
  BY <1>11 DEF FailsEarly, Finish
<1>12. CASE StartQuits
  BY <1>12 DEF StartQuits
<1>13. CASE StartReserves
  BY <1>13 DEF StartReserves
<1>14. CASE Spawns
  BY <1>14 DEF Spawns
<1>15. CASE SpawnFails
  BY <1>15 DEF SpawnFails, Finish
<1>16. CASE Registers
  <2>3. child' \in [Child -> ChildStates] /\ hand' \in [Thread -> SUBSET Child]
    BY <1>16 DEF Registers
  <2>4. pending' # NoOne /\ ~shutdown' => at'[pending'] \in {"reserves", "commits"}
    BY <1>16 DEF Registers
  <2>5. /\ op' \in {"none", "start", "stop", "reap", "remove"}
        /\ shutdown' \in BOOLEAN /\ active' \in BOOLEAN
        /\ process' \in Child \cup {NoChild} /\ unreaped' \subseteq Child
        /\ ext' \in Host \cup {NoHost} /\ pending' \in Asker \cup {NoOne}
        /\ lease' \in NoLease \cup {"ext"} \cup Asker \cup Child
    BY <1>16 DEF Registers
  <2>6. /\ pc' \in Steps /\ watched' \in Child \cup {NoChild}
        /\ monitors' \subseteq Child /\ starters' \subseteq Child
        /\ closing' \in {"no", "asked", "stops", "over"}
        /\ at' \in [Asker -> {"idle", "asks", "reserves", "commits"}]
        /\ host' \in [Asker -> Host] /\ outdated' \subseteq Asker
    BY <1>16 DEF Registers
  <2> QED BY <2>3, <2>4, <2>5, <2>6
<1>17. CASE RejectStops
  BY <1>17 DEF RejectStops, Stopped, Dropped, Finish
<1>18. CASE RejectFails
  BY <1>18 DEF RejectFails, Fails, Finish
<1>19. CASE Ready
  BY <1>19 DEF Ready, Finish
<1>20. CASE NotReady
  BY <1>20 DEF NotReady
<1>21. CASE TakesFailed
  BY <1>21 DEF TakesFailed, Finish
<1>22. CASE FailedStops
  BY <1>22 DEF FailedStops, Stopped, Finish
<1>23. CASE FailedStays
  BY <1>23 DEF FailedStays, Fails, Finish
<1>24. CASE StopTakes
  BY <1>24 DEF StopTakes, TakesAll
<1>25. CASE StopEnds
  <2>1. PICK failed \in SUBSET hand["worker"] : StopsBut("worker", failed)
    BY <1>25, StopsAllEffect DEF StopEnds
  <2>3. child' \in [Child -> ChildStates] /\ hand' \in [Thread -> SUBSET Child]
    BY <1>25, <2>1 DEF StopEnds, StopsBut, Finish
  <2>4. pending' # NoOne /\ ~shutdown' => at'[pending'] \in {"reserves", "commits"}
    BY <1>25, <2>1 DEF StopEnds, StopsBut, Finish
  <2>5. /\ op' \in {"none", "start", "stop", "reap", "remove"}
        /\ shutdown' \in BOOLEAN /\ active' \in BOOLEAN
        /\ process' \in Child \cup {NoChild} /\ unreaped' \subseteq Child
        /\ ext' \in Host \cup {NoHost} /\ pending' \in Asker \cup {NoOne}
        /\ lease' \in NoLease \cup {"ext"} \cup Asker \cup Child
    BY <1>25, <2>1 DEF StopEnds, StopsBut, Finish
  <2>6. /\ pc' \in Steps /\ watched' \in Child \cup {NoChild}
        /\ monitors' \subseteq Child /\ starters' \subseteq Child
        /\ closing' \in {"no", "asked", "stops", "over"}
        /\ at' \in [Asker -> {"idle", "asks", "reserves", "commits"}]
        /\ host' \in [Asker -> Host] /\ outdated' \subseteq Asker
    BY <1>25, <2>1 DEF StopEnds, StopsBut, Finish
  <2> QED BY <2>3, <2>4, <2>5, <2>6
<1>26. CASE RemoveEnds
  BY <1>26 DEF RemoveEnds, Finish
<1>27. CASE ShutdownTakes
  BY <1>27 DEF ShutdownTakes, TakesAll
<1>28. CASE ShutdownEnds
  <2>1. PICK failed \in SUBSET hand["shutdown"] : StopsBut("shutdown", failed)
    BY <1>28, StopsAllEffect DEF ShutdownEnds
  <2>3. child' \in [Child -> ChildStates] /\ hand' \in [Thread -> SUBSET Child]
    BY <1>28, <2>1 DEF ShutdownEnds, StopsBut
  <2>4. pending' # NoOne /\ ~shutdown' => at'[pending'] \in {"reserves", "commits"}
    BY <1>28, <2>1 DEF ShutdownEnds, StopsBut
  <2>5. /\ op' \in {"none", "start", "stop", "reap", "remove"}
        /\ shutdown' \in BOOLEAN /\ active' \in BOOLEAN
        /\ process' \in Child \cup {NoChild} /\ unreaped' \subseteq Child
        /\ ext' \in Host \cup {NoHost} /\ pending' \in Asker \cup {NoOne}
        /\ lease' \in NoLease \cup {"ext"} \cup Asker \cup Child
    BY <1>28, <2>1 DEF ShutdownEnds, StopsBut
  <2>6. /\ pc' \in Steps /\ watched' \in Child \cup {NoChild}
        /\ monitors' \subseteq Child /\ starters' \subseteq Child
        /\ closing' \in {"no", "asked", "stops", "over"}
        /\ at' \in [Asker -> {"idle", "asks", "reserves", "commits"}]
        /\ host' \in [Asker -> Host] /\ outdated' \subseteq Asker
    BY <1>28, <2>1 DEF ShutdownEnds, StopsBut
  <2> QED BY <2>3, <2>4, <2>5, <2>6
<1>29. CASE VoiceTakes
  BY <1>29 DEF VoiceTakes
<1>30. CASE VoiceFrees
  BY <1>30 DEF VoiceFrees
<1>31. ASSUME NEW a \in Caller, NEW h \in Host, StatusBegins(a, h) PROVE TypeOK'
  BY <1>31 DEF StatusBegins
<1>32. ASSUME NEW a \in Asker, AttemptBegins(a) PROVE TypeOK'
  BY <1>32 DEF AttemptBegins
<1>33. ASSUME NEW a \in Asker, AttemptReserves(a) PROVE TypeOK'
  BY <1>33 DEF AttemptReserves
<1>34. ASSUME NEW a \in Asker, AttemptDenied(a) PROVE TypeOK'
  BY <1>34 DEF AttemptDenied, Forget
<1>35. ASSUME NEW a \in Asker, AttemptCommits(a) PROVE TypeOK'
  BY <1>35 DEF AttemptCommits, Current
<1>36. ASSUME NEW c \in Child, MonitorLeaves(c) PROVE TypeOK'
  BY <1>36 DEF MonitorLeaves
<1>37. ASSUME NEW c \in Child, MonitorTakes(c) PROVE TypeOK'
  BY <1>37 DEF MonitorTakes
<1>38. ASSUME NEW c \in Child, MonitorEnds(c) PROVE TypeOK'
  <2>3. child' \in [Child -> ChildStates] /\ hand' \in [Thread -> SUBSET Child]
    BY <1>38 DEF MonitorEnds, Stopped
  <2>4. pending' # NoOne /\ ~shutdown' => at'[pending'] \in {"reserves", "commits"}
    BY <1>38 DEF MonitorEnds, Stopped
  <2>5. /\ op' \in {"none", "start", "stop", "reap", "remove"}
        /\ shutdown' \in BOOLEAN /\ active' \in BOOLEAN
        /\ process' \in Child \cup {NoChild} /\ unreaped' \subseteq Child
        /\ ext' \in Host \cup {NoHost} /\ pending' \in Asker \cup {NoOne}
        /\ lease' \in NoLease \cup {"ext"} \cup Asker \cup Child
    BY <1>38 DEF MonitorEnds, Stopped
  <2>6. /\ pc' \in Steps /\ watched' \in Child \cup {NoChild}
        /\ monitors' \subseteq Child /\ starters' \subseteq Child
        /\ closing' \in {"no", "asked", "stops", "over"}
        /\ at' \in [Asker -> {"idle", "asks", "reserves", "commits"}]
        /\ host' \in [Asker -> Host] /\ outdated' \subseteq Asker
    BY <1>38 DEF MonitorEnds, Stopped
  <2> QED BY <2>3, <2>4, <2>5, <2>6
<1>39. ASSUME NEW c \in Child, RecordIsDropped(c) PROVE TypeOK'
  BY <1>39 DEF RecordIsDropped
<1>40. ASSUME NEW c \in Child, ChildExits(c) PROVE TypeOK'
  BY <1>40 DEF ChildExits
<1>41. ASSUME NEW c \in Child, StarterEnds(c) PROVE TypeOK'
  BY <1>41 DEF StarterEnds
<1> QED
  BY <1>1, <1>2, <1>3, <1>4, <1>5, <1>6, <1>7, <1>8, <1>9, <1>10, <1>11, <1>12,
     <1>13, <1>14, <1>15, <1>16, <1>17, <1>18, <1>19, <1>20, <1>21, <1>22, <1>23,
     <1>24, <1>25, <1>26, <1>27, <1>28, <1>29, <1>30, <1>31, <1>32, <1>33, <1>34,
     <1>35, <1>36, <1>37, <1>38, <1>39, <1>40, <1>41
     DEF Next, WorkerSteps, StartSteps, ShutdownSteps, AttemptSteps

\* No step hands the lease to one who does not hold it alone.
LEMMA NextLease == Inv /\ [Next]_vars => LeaseIsExact'
<1> SUFFICES ASSUME Inv, [Next]_vars PROVE LeaseIsExact' OBVIOUS
<1> USE OllamaAssumption DEF Inv, TypeOK, Asker, Thread, NoLease, ChildStates,
       Steps, Unreaped, RecordsAreExact, HandsFitSteps, GuardIsHeld, LeaseIsExact,
       manager, attempts, worker, threads
<1>1. CASE UNCHANGED vars
  BY <1>1 DEF vars
<1>2. CASE StartBegins
  BY <1>2 DEF StartBegins, Begin
<1>3. CASE StopBegins
  BY <1>3 DEF StopBegins, Begin
<1>4. CASE RemoveBegins
  BY <1>4 DEF RemoveBegins, Begin
<1>5. CASE ShutdownBegins
  BY <1>5 DEF ShutdownBegins
<1>6. CASE StartLooks
  BY <1>6 DEF StartLooks
<1>7. CASE FindsExternal
  BY <1>7 DEF FindsExternal
<1>8. CASE AdmissionEnds
  BY <1>8 DEF AdmissionEnds, Finish
<1>9. CASE FindsNobody
  BY <1>9 DEF FindsNobody
<1>10. CASE Prepares
  BY <1>10 DEF Prepares
<1>11. CASE FailsEarly
  BY <1>11 DEF FailsEarly, Finish
<1>12. CASE StartQuits
  BY <1>12 DEF StartQuits
<1>13. CASE StartReserves
  BY <1>13 DEF StartReserves
<1>14. CASE Spawns
  BY <1>14 DEF Spawns
<1>15. CASE SpawnFails
  BY <1>15 DEF SpawnFails, Finish
<1>16. CASE Registers
  <2>1. CASE pc' = "rejects"
    BY <1>16, <2>1 DEF Registers
  <2>2. CASE pc' = "watches"
    BY <1>16, <2>2 DEF Registers
  <2> QED BY <1>16, <2>1, <2>2 DEF Registers
<1>17. CASE RejectStops
  BY <1>17 DEF RejectStops, Stopped, Dropped, Finish
<1>18. CASE RejectFails
  BY <1>18 DEF RejectFails, Fails, Finish
<1>19. CASE Ready
  BY <1>19 DEF Ready, Finish
<1>20. CASE NotReady
  BY <1>20 DEF NotReady
<1>21. CASE TakesFailed
  BY <1>21 DEF TakesFailed, Finish
<1>22. CASE FailedStops
  BY <1>22 DEF FailedStops, Stopped, Finish
<1>23. CASE FailedStays
  BY <1>23 DEF FailedStays, Fails, Finish
<1>24. CASE StopTakes
  BY <1>24 DEF StopTakes, TakesAll
<1>25. CASE StopEnds
  <2>1. PICK failed \in SUBSET hand["worker"] : StopsBut("worker", failed)
    BY <1>25, StopsAllEffect DEF StopEnds
  <2> QED BY <1>25, <2>1 DEF StopEnds, StopsBut, Finish
<1>26. CASE RemoveEnds
  BY <1>26 DEF RemoveEnds, Finish
<1>27. CASE ShutdownTakes
  BY <1>27 DEF ShutdownTakes, TakesAll
<1>28. CASE ShutdownEnds
  <2>1. PICK failed \in SUBSET hand["shutdown"] : StopsBut("shutdown", failed)
    BY <1>28, StopsAllEffect DEF ShutdownEnds
  <2> QED BY <1>28, <2>1 DEF ShutdownEnds, StopsBut
<1>29. CASE VoiceTakes
  BY <1>29 DEF VoiceTakes
<1>30. CASE VoiceFrees
  BY <1>30 DEF VoiceFrees
<1>31. ASSUME NEW a \in Caller, NEW h \in Host, StatusBegins(a, h) PROVE LeaseIsExact'
  BY <1>31 DEF StatusBegins
<1>32. ASSUME NEW a \in Asker, AttemptBegins(a) PROVE LeaseIsExact'
  BY <1>32 DEF AttemptBegins
<1>33. ASSUME NEW a \in Asker, AttemptReserves(a) PROVE LeaseIsExact'
  BY <1>33 DEF AttemptReserves
<1>34. ASSUME NEW a \in Asker, AttemptDenied(a) PROVE LeaseIsExact'
  BY <1>34 DEF AttemptDenied, Forget
<1>35. ASSUME NEW a \in Asker, AttemptCommits(a) PROVE LeaseIsExact'
  BY <1>35 DEF AttemptCommits, Current
<1>36. ASSUME NEW c \in Child, MonitorLeaves(c) PROVE LeaseIsExact'
  BY <1>36 DEF MonitorLeaves
<1>37. ASSUME NEW c \in Child, MonitorTakes(c) PROVE LeaseIsExact'
  BY <1>37 DEF MonitorTakes
<1>38. ASSUME NEW c \in Child, MonitorEnds(c) PROVE LeaseIsExact'
  <2>1. CASE Stopped({c}) /\ active' = FALSE /\ UNCHANGED process
    BY <1>38, <2>1 DEF MonitorEnds, Stopped
  <2>2. CASE Fails({c}) /\ active' = TRUE /\ process' = c /\ UNCHANGED child
    BY <1>38, <2>2 DEF MonitorEnds
  <2> QED BY <1>38, <2>1, <2>2 DEF MonitorEnds
<1>39. ASSUME NEW c \in Child, RecordIsDropped(c) PROVE LeaseIsExact'
  BY <1>39 DEF RecordIsDropped
<1>40. ASSUME NEW c \in Child, ChildExits(c) PROVE LeaseIsExact'
  BY <1>40 DEF ChildExits
<1>41. ASSUME NEW c \in Child, StarterEnds(c) PROVE LeaseIsExact'
  BY <1>41 DEF StarterEnds
<1> QED
  BY <1>1, <1>2, <1>3, <1>4, <1>5, <1>6, <1>7, <1>8, <1>9, <1>10, <1>11, <1>12,
     <1>13, <1>14, <1>15, <1>16, <1>17, <1>18, <1>19, <1>20, <1>21, <1>22, <1>23,
     <1>24, <1>25, <1>26, <1>27, <1>28, <1>29, <1>30, <1>31, <1>32, <1>33, <1>34,
     <1>35, <1>36, <1>37, <1>38, <1>39, <1>40, <1>41
     DEF Next, WorkerSteps, StartSteps, ShutdownSteps, AttemptSteps

\* No step loses the record of a living server, or keeps two of it.
LEMMA NextRecords == Inv /\ [Next]_vars => RecordsAreExact'
<1> SUFFICES ASSUME Inv, [Next]_vars PROVE RecordsAreExact' OBVIOUS
<1> USE OllamaAssumption DEF Inv, TypeOK, Asker, Thread, NoLease, ChildStates,
       Steps, Unreaped, LeaseIsExact, HandsFitSteps, GuardIsHeld, RecordsAreExact,
       manager, attempts, worker, threads
<1>1. CASE UNCHANGED vars
  BY <1>1 DEF vars
<1>2. CASE StartBegins
  BY <1>2 DEF StartBegins, Begin
<1>3. CASE StopBegins
  BY <1>3 DEF StopBegins, Begin
<1>4. CASE RemoveBegins
  BY <1>4 DEF RemoveBegins, Begin
<1>5. CASE ShutdownBegins
  BY <1>5 DEF ShutdownBegins
<1>6. CASE StartLooks
  BY <1>6 DEF StartLooks
<1>7. CASE FindsExternal
  BY <1>7 DEF FindsExternal
<1>8. CASE AdmissionEnds
  BY <1>8 DEF AdmissionEnds, Finish
<1>9. CASE FindsNobody
  BY <1>9 DEF FindsNobody
<1>10. CASE Prepares
  BY <1>10 DEF Prepares
<1>11. CASE FailsEarly
  BY <1>11 DEF FailsEarly, Finish
<1>12. CASE StartQuits
  BY <1>12 DEF StartQuits
<1>13. CASE StartReserves
  BY <1>13 DEF StartReserves
<1>14. CASE Spawns
  BY <1>14 DEF Spawns
<1>15. CASE SpawnFails
  BY <1>15 DEF SpawnFails, Finish
<1>16. CASE Registers
  <2>1. CASE pc' = "rejects"
    BY <1>16, <2>1 DEF Registers
  <2>2. CASE pc' = "watches"
    BY <1>16, <2>2 DEF Registers
  <2> QED BY <1>16, <2>1, <2>2 DEF Registers
<1>17. CASE RejectStops
  BY <1>17 DEF RejectStops, Stopped, Dropped, Finish
<1>18. CASE RejectFails
  BY <1>18 DEF RejectFails, Fails, Finish
<1>19. CASE Ready
  BY <1>19 DEF Ready, Finish
<1>20. CASE NotReady
  BY <1>20 DEF NotReady
<1>21. CASE TakesFailed
  BY <1>21 DEF TakesFailed, Finish
<1>22. CASE FailedStops
  BY <1>22 DEF FailedStops, Stopped, Finish
<1>23. CASE FailedStays
  BY <1>23 DEF FailedStays, Fails, Finish
<1>24. CASE StopTakes
  BY <1>24 DEF StopTakes, TakesAll
<1>25. CASE StopEnds
  <2>1. PICK failed \in SUBSET hand["worker"] : StopsBut("worker", failed)
    BY <1>25, StopsAllEffect DEF StopEnds
  <2> QED BY <1>25, <2>1 DEF StopEnds, StopsBut, Finish
<1>26. CASE RemoveEnds
  BY <1>26 DEF RemoveEnds, Finish
<1>27. CASE ShutdownTakes
  BY <1>27 DEF ShutdownTakes, TakesAll
<1>28. CASE ShutdownEnds
  <2>1. PICK failed \in SUBSET hand["shutdown"] : StopsBut("shutdown", failed)
    BY <1>28, StopsAllEffect DEF ShutdownEnds
  <2> QED BY <1>28, <2>1 DEF ShutdownEnds, StopsBut
<1>29. CASE VoiceTakes
  BY <1>29 DEF VoiceTakes
<1>30. CASE VoiceFrees
  BY <1>30 DEF VoiceFrees
<1>31. ASSUME NEW a \in Caller, NEW h \in Host, StatusBegins(a, h)
      PROVE RecordsAreExact'
  BY <1>31 DEF StatusBegins
<1>32. ASSUME NEW a \in Asker, AttemptBegins(a) PROVE RecordsAreExact'
  BY <1>32 DEF AttemptBegins
<1>33. ASSUME NEW a \in Asker, AttemptReserves(a) PROVE RecordsAreExact'
  BY <1>33 DEF AttemptReserves
<1>34. ASSUME NEW a \in Asker, AttemptDenied(a) PROVE RecordsAreExact'
  BY <1>34 DEF AttemptDenied, Forget
<1>35. ASSUME NEW a \in Asker, AttemptCommits(a) PROVE RecordsAreExact'
  BY <1>35 DEF AttemptCommits, Current
<1>36. ASSUME NEW c \in Child, MonitorLeaves(c) PROVE RecordsAreExact'
  BY <1>36 DEF MonitorLeaves
<1>37. ASSUME NEW c \in Child, MonitorTakes(c) PROVE RecordsAreExact'
  BY <1>37 DEF MonitorTakes
<1>38. ASSUME NEW c \in Child, MonitorEnds(c) PROVE RecordsAreExact'
  <2>1. CASE Stopped({c}) /\ active' = FALSE /\ UNCHANGED process
    BY <1>38, <2>1 DEF MonitorEnds, Stopped
  <2>2. CASE Fails({c}) /\ active' = TRUE /\ process' = c /\ UNCHANGED child
    BY <1>38, <2>2 DEF MonitorEnds
  <2> QED BY <1>38, <2>1, <2>2 DEF MonitorEnds
<1>39. ASSUME NEW c \in Child, RecordIsDropped(c) PROVE RecordsAreExact'
  BY <1>39 DEF RecordIsDropped
<1>40. ASSUME NEW c \in Child, ChildExits(c) PROVE RecordsAreExact'
  BY <1>40 DEF ChildExits
<1>41. ASSUME NEW c \in Child, StarterEnds(c) PROVE RecordsAreExact'
  BY <1>41 DEF StarterEnds
<1> QED
  BY <1>1, <1>2, <1>3, <1>4, <1>5, <1>6, <1>7, <1>8, <1>9, <1>10, <1>11, <1>12,
     <1>13, <1>14, <1>15, <1>16, <1>17, <1>18, <1>19, <1>20, <1>21, <1>22, <1>23,
     <1>24, <1>25, <1>26, <1>27, <1>28, <1>29, <1>30, <1>31, <1>32, <1>33, <1>34,
     <1>35, <1>36, <1>37, <1>38, <1>39, <1>40, <1>41
     DEF Next, WorkerSteps, StartSteps, ShutdownSteps, AttemptSteps

\* No step frees the version of a recorded server.
LEMMA NextActive == Inv /\ [Next]_vars => RecordedIsActive'
<1> SUFFICES ASSUME Inv, [Next]_vars PROVE RecordedIsActive' OBVIOUS
<1> USE OllamaAssumption DEF Inv, TypeOK, Asker, Thread, NoLease, ChildStates,
       Steps, Unreaped, LeaseIsExact, RecordsAreExact, HandsFitSteps,
       RecordedIsActive,
       manager, attempts, worker, threads
<1>1. CASE UNCHANGED vars
  BY <1>1 DEF vars
<1>2. CASE StartBegins
  BY <1>2 DEF StartBegins, Begin
<1>3. CASE StopBegins
  BY <1>3 DEF StopBegins, Begin
<1>4. CASE RemoveBegins
  BY <1>4 DEF RemoveBegins, Begin
<1>5. CASE ShutdownBegins
  BY <1>5 DEF ShutdownBegins
<1>6. CASE StartLooks
  BY <1>6 DEF StartLooks
<1>7. CASE FindsExternal
  BY <1>7 DEF FindsExternal
<1>8. CASE AdmissionEnds
  BY <1>8 DEF AdmissionEnds, Finish
<1>9. CASE FindsNobody
  BY <1>9 DEF FindsNobody
<1>10. CASE Prepares
  BY <1>10 DEF Prepares
<1>11. CASE FailsEarly
  BY <1>11 DEF FailsEarly, Finish
<1>12. CASE StartQuits
  BY <1>12 DEF StartQuits
<1>13. CASE StartReserves
  BY <1>13 DEF StartReserves
<1>14. CASE Spawns
  BY <1>14 DEF Spawns
<1>15. CASE SpawnFails
  BY <1>15 DEF SpawnFails, Finish
<1>16. CASE Registers
  <2>1. CASE pc' = "rejects"
    BY <1>16, <2>1 DEF Registers
  <2>2. CASE pc' = "watches"
    BY <1>16, <2>2 DEF Registers
  <2> QED BY <1>16, <2>1, <2>2 DEF Registers
<1>17. CASE RejectStops
  BY <1>17 DEF RejectStops, Stopped, Dropped, Finish
<1>18. CASE RejectFails
  BY <1>18 DEF RejectFails, Fails, Finish
<1>19. CASE Ready
  BY <1>19 DEF Ready, Finish
<1>20. CASE NotReady
  BY <1>20 DEF NotReady
<1>21. CASE TakesFailed
  BY <1>21 DEF TakesFailed, Finish
<1>22. CASE FailedStops
  BY <1>22 DEF FailedStops, Stopped, Finish
<1>23. CASE FailedStays
  BY <1>23 DEF FailedStays, Fails, Finish
<1>24. CASE StopTakes
  BY <1>24 DEF StopTakes, TakesAll
<1>25. CASE StopEnds
  <2>1. PICK failed \in SUBSET hand["worker"] : StopsBut("worker", failed)
    BY <1>25, StopsAllEffect DEF StopEnds
  <2> QED BY <1>25, <2>1 DEF StopEnds, StopsBut, Finish
<1>26. CASE RemoveEnds
  BY <1>26 DEF RemoveEnds, Finish
<1>27. CASE ShutdownTakes
  BY <1>27 DEF ShutdownTakes, TakesAll
<1>28. CASE ShutdownEnds
  <2>1. PICK failed \in SUBSET hand["shutdown"] : StopsBut("shutdown", failed)
    BY <1>28, StopsAllEffect DEF ShutdownEnds
  <2> QED BY <1>28, <2>1 DEF ShutdownEnds, StopsBut
<1>29. CASE VoiceTakes
  BY <1>29 DEF VoiceTakes
<1>30. CASE VoiceFrees
  BY <1>30 DEF VoiceFrees
<1>31. ASSUME NEW a \in Caller, NEW h \in Host, StatusBegins(a, h)
      PROVE RecordedIsActive'
  BY <1>31 DEF StatusBegins
<1>32. ASSUME NEW a \in Asker, AttemptBegins(a) PROVE RecordedIsActive'
  BY <1>32 DEF AttemptBegins
<1>33. ASSUME NEW a \in Asker, AttemptReserves(a) PROVE RecordedIsActive'
  BY <1>33 DEF AttemptReserves
<1>34. ASSUME NEW a \in Asker, AttemptDenied(a) PROVE RecordedIsActive'
  BY <1>34 DEF AttemptDenied, Forget
<1>35. ASSUME NEW a \in Asker, AttemptCommits(a) PROVE RecordedIsActive'
  BY <1>35 DEF AttemptCommits, Current
<1>36. ASSUME NEW c \in Child, MonitorLeaves(c) PROVE RecordedIsActive'
  BY <1>36 DEF MonitorLeaves
<1>37. ASSUME NEW c \in Child, MonitorTakes(c) PROVE RecordedIsActive'
  BY <1>37 DEF MonitorTakes
<1>38. ASSUME NEW c \in Child, MonitorEnds(c) PROVE RecordedIsActive'
  <2>1. CASE Stopped({c}) /\ active' = FALSE /\ UNCHANGED process
    BY <1>38, <2>1 DEF MonitorEnds, Stopped
  <2>2. CASE Fails({c}) /\ active' = TRUE /\ process' = c /\ UNCHANGED child
    BY <1>38, <2>2 DEF MonitorEnds
  <2> QED BY <1>38, <2>1, <2>2 DEF MonitorEnds
<1>39. ASSUME NEW c \in Child, RecordIsDropped(c) PROVE RecordedIsActive'
  BY <1>39 DEF RecordIsDropped
<1>40. ASSUME NEW c \in Child, ChildExits(c) PROVE RecordedIsActive'
  BY <1>40 DEF ChildExits
<1>41. ASSUME NEW c \in Child, StarterEnds(c) PROVE RecordedIsActive'
  BY <1>41 DEF StarterEnds
<1> QED
  BY <1>1, <1>2, <1>3, <1>4, <1>5, <1>6, <1>7, <1>8, <1>9, <1>10, <1>11, <1>12,
     <1>13, <1>14, <1>15, <1>16, <1>17, <1>18, <1>19, <1>20, <1>21, <1>22, <1>23,
     <1>24, <1>25, <1>26, <1>27, <1>28, <1>29, <1>30, <1>31, <1>32, <1>33, <1>34,
     <1>35, <1>36, <1>37, <1>38, <1>39, <1>40, <1>41
     DEF Next, WorkerSteps, StartSteps, ShutdownSteps, AttemptSteps

\* No step forgets what its thread has in hand.
LEMMA NextHands == Inv /\ [Next]_vars => HandsFitSteps'
<1> SUFFICES ASSUME Inv, [Next]_vars PROVE HandsFitSteps' OBVIOUS
<1> USE OllamaAssumption DEF Inv, TypeOK, Asker, Thread, NoLease, ChildStates,
       Steps, Unreaped, LeaseIsExact, RecordsAreExact, RecordedIsActive,
       GuardIsHeld, HandsFitSteps,
       manager, attempts, worker, threads
<1>1. CASE UNCHANGED vars
  BY <1>1 DEF vars
<1>2. CASE StartBegins
  BY <1>2 DEF StartBegins, Begin
<1>3. CASE StopBegins
  BY <1>3 DEF StopBegins, Begin
<1>4. CASE RemoveBegins
  BY <1>4 DEF RemoveBegins, Begin
<1>5. CASE ShutdownBegins
  BY <1>5 DEF ShutdownBegins
<1>6. CASE StartLooks
  BY <1>6 DEF StartLooks
<1>7. CASE FindsExternal
  BY <1>7 DEF FindsExternal
<1>8. CASE AdmissionEnds
  BY <1>8 DEF AdmissionEnds, Finish
<1>9. CASE FindsNobody
  BY <1>9 DEF FindsNobody
<1>10. CASE Prepares
  BY <1>10 DEF Prepares
<1>11. CASE FailsEarly
  BY <1>11 DEF FailsEarly, Finish
<1>12. CASE StartQuits
  BY <1>12 DEF StartQuits
<1>13. CASE StartReserves
  BY <1>13 DEF StartReserves
<1>14. CASE Spawns
  BY <1>14 DEF Spawns
<1>15. CASE SpawnFails
  BY <1>15 DEF SpawnFails, Finish
<1>16. CASE Registers
  <2>1. CASE pc' = "rejects"
    BY <1>16, <2>1 DEF Registers
  <2>2. CASE pc' = "watches"
    BY <1>16, <2>2 DEF Registers
  <2> QED BY <1>16, <2>1, <2>2 DEF Registers
<1>17. CASE RejectStops
  BY <1>17 DEF RejectStops, Stopped, Dropped, Finish
<1>18. CASE RejectFails
  BY <1>18 DEF RejectFails, Fails, Finish
<1>19. CASE Ready
  BY <1>19 DEF Ready, Finish
<1>20. CASE NotReady
  BY <1>20 DEF NotReady
<1>21. CASE TakesFailed
  BY <1>21 DEF TakesFailed, Finish
<1>22. CASE FailedStops
  BY <1>22 DEF FailedStops, Stopped, Finish
<1>23. CASE FailedStays
  BY <1>23 DEF FailedStays, Fails, Finish
<1>24. CASE StopTakes
  BY <1>24 DEF StopTakes, TakesAll
<1>25. CASE StopEnds
  <2>1. PICK failed \in SUBSET hand["worker"] : StopsBut("worker", failed)
    BY <1>25, StopsAllEffect DEF StopEnds
  <2> QED BY <1>25, <2>1 DEF StopEnds, StopsBut, Finish
<1>26. CASE RemoveEnds
  BY <1>26 DEF RemoveEnds, Finish
<1>27. CASE ShutdownTakes
  BY <1>27 DEF ShutdownTakes, TakesAll
<1>28. CASE ShutdownEnds
  <2>1. PICK failed \in SUBSET hand["shutdown"] : StopsBut("shutdown", failed)
    BY <1>28, StopsAllEffect DEF ShutdownEnds
  <2> QED BY <1>28, <2>1 DEF ShutdownEnds, StopsBut
<1>29. CASE VoiceTakes
  BY <1>29 DEF VoiceTakes
<1>30. CASE VoiceFrees
  BY <1>30 DEF VoiceFrees
<1>31. ASSUME NEW a \in Caller, NEW h \in Host, StatusBegins(a, h) PROVE HandsFitSteps'
  BY <1>31 DEF StatusBegins
<1>32. ASSUME NEW a \in Asker, AttemptBegins(a) PROVE HandsFitSteps'
  BY <1>32 DEF AttemptBegins
<1>33. ASSUME NEW a \in Asker, AttemptReserves(a) PROVE HandsFitSteps'
  BY <1>33 DEF AttemptReserves
<1>34. ASSUME NEW a \in Asker, AttemptDenied(a) PROVE HandsFitSteps'
  BY <1>34 DEF AttemptDenied, Forget
<1>35. ASSUME NEW a \in Asker, AttemptCommits(a) PROVE HandsFitSteps'
  BY <1>35 DEF AttemptCommits, Current
<1>36. ASSUME NEW c \in Child, MonitorLeaves(c) PROVE HandsFitSteps'
  BY <1>36 DEF MonitorLeaves
<1>37. ASSUME NEW c \in Child, MonitorTakes(c) PROVE HandsFitSteps'
  BY <1>37 DEF MonitorTakes
<1>38. ASSUME NEW c \in Child, MonitorEnds(c) PROVE HandsFitSteps'
  <2>1. CASE Stopped({c}) /\ active' = FALSE /\ UNCHANGED process
    BY <1>38, <2>1 DEF MonitorEnds, Stopped
  <2>2. CASE Fails({c}) /\ active' = TRUE /\ process' = c /\ UNCHANGED child
    BY <1>38, <2>2 DEF MonitorEnds
  <2> QED BY <1>38, <2>1, <2>2 DEF MonitorEnds
<1>39. ASSUME NEW c \in Child, RecordIsDropped(c) PROVE HandsFitSteps'
  BY <1>39 DEF RecordIsDropped
<1>40. ASSUME NEW c \in Child, ChildExits(c) PROVE HandsFitSteps'
  BY <1>40 DEF ChildExits
<1>41. ASSUME NEW c \in Child, StarterEnds(c) PROVE HandsFitSteps'
  BY <1>41 DEF StarterEnds
<1> QED
  BY <1>1, <1>2, <1>3, <1>4, <1>5, <1>6, <1>7, <1>8, <1>9, <1>10, <1>11, <1>12,
     <1>13, <1>14, <1>15, <1>16, <1>17, <1>18, <1>19, <1>20, <1>21, <1>22, <1>23,
     <1>24, <1>25, <1>26, <1>27, <1>28, <1>29, <1>30, <1>31, <1>32, <1>33, <1>34,
     <1>35, <1>36, <1>37, <1>38, <1>39, <1>40, <1>41
     DEF Next, WorkerSteps, StartSteps, ShutdownSteps, AttemptSteps

\* Before the shutdown no step works without the guard.
LEMMA NextGuard == Inv /\ [Next]_vars => GuardIsHeld'
<1> SUFFICES ASSUME Inv, [Next]_vars PROVE GuardIsHeld' OBVIOUS
<1> USE OllamaAssumption DEF Inv, TypeOK, Asker, Thread, NoLease, ChildStates,
       Steps, Unreaped, HandsFitSteps, GuardIsHeld,
       manager, attempts, worker, threads
<1>1. CASE UNCHANGED vars
  BY <1>1 DEF vars
<1>2. CASE StartBegins
  BY <1>2 DEF StartBegins, Begin
<1>3. CASE StopBegins
  BY <1>3 DEF StopBegins, Begin
<1>4. CASE RemoveBegins
  BY <1>4 DEF RemoveBegins, Begin
<1>5. CASE ShutdownBegins
  BY <1>5 DEF ShutdownBegins
<1>6. CASE StartLooks
  BY <1>6 DEF StartLooks
<1>7. CASE FindsExternal
  BY <1>7 DEF FindsExternal
<1>8. CASE AdmissionEnds
  BY <1>8 DEF AdmissionEnds, Finish
<1>9. CASE FindsNobody
  BY <1>9 DEF FindsNobody
<1>10. CASE Prepares
  BY <1>10 DEF Prepares
<1>11. CASE FailsEarly
  BY <1>11 DEF FailsEarly, Finish
<1>12. CASE StartQuits
  BY <1>12 DEF StartQuits
<1>13. CASE StartReserves
  BY <1>13 DEF StartReserves
<1>14. CASE Spawns
  BY <1>14 DEF Spawns
<1>15. CASE SpawnFails
  BY <1>15 DEF SpawnFails, Finish
<1>16. CASE Registers
  <2>1. CASE pc' = "rejects"
    BY <1>16, <2>1 DEF Registers
  <2>2. CASE pc' = "watches"
    BY <1>16, <2>2 DEF Registers
  <2> QED BY <1>16, <2>1, <2>2 DEF Registers
<1>17. CASE RejectStops
  BY <1>17 DEF RejectStops, Stopped, Dropped, Finish
<1>18. CASE RejectFails
  BY <1>18 DEF RejectFails, Fails, Finish
<1>19. CASE Ready
  BY <1>19 DEF Ready, Finish
<1>20. CASE NotReady
  BY <1>20 DEF NotReady
<1>21. CASE TakesFailed
  BY <1>21 DEF TakesFailed, Finish
<1>22. CASE FailedStops
  BY <1>22 DEF FailedStops, Stopped, Finish
<1>23. CASE FailedStays
  BY <1>23 DEF FailedStays, Fails, Finish
<1>24. CASE StopTakes
  BY <1>24 DEF StopTakes, TakesAll
<1>25. CASE StopEnds
  <2>1. PICK failed \in SUBSET hand["worker"] : StopsBut("worker", failed)
    BY <1>25, StopsAllEffect DEF StopEnds
  <2> QED BY <1>25, <2>1 DEF StopEnds, StopsBut, Finish
<1>26. CASE RemoveEnds
  BY <1>26 DEF RemoveEnds, Finish
<1>27. CASE ShutdownTakes
  BY <1>27 DEF ShutdownTakes, TakesAll
<1>28. CASE ShutdownEnds
  <2>1. PICK failed \in SUBSET hand["shutdown"] : StopsBut("shutdown", failed)
    BY <1>28, StopsAllEffect DEF ShutdownEnds
  <2> QED BY <1>28, <2>1 DEF ShutdownEnds, StopsBut
<1>29. CASE VoiceTakes
  BY <1>29 DEF VoiceTakes
<1>30. CASE VoiceFrees
  BY <1>30 DEF VoiceFrees
<1>31. ASSUME NEW a \in Caller, NEW h \in Host, StatusBegins(a, h) PROVE GuardIsHeld'
  BY <1>31 DEF StatusBegins
<1>32. ASSUME NEW a \in Asker, AttemptBegins(a) PROVE GuardIsHeld'
  BY <1>32 DEF AttemptBegins
<1>33. ASSUME NEW a \in Asker, AttemptReserves(a) PROVE GuardIsHeld'
  BY <1>33 DEF AttemptReserves
<1>34. ASSUME NEW a \in Asker, AttemptDenied(a) PROVE GuardIsHeld'
  BY <1>34 DEF AttemptDenied, Forget
<1>35. ASSUME NEW a \in Asker, AttemptCommits(a) PROVE GuardIsHeld'
  BY <1>35 DEF AttemptCommits, Current
<1>36. ASSUME NEW c \in Child, MonitorLeaves(c) PROVE GuardIsHeld'
  BY <1>36 DEF MonitorLeaves
<1>37. ASSUME NEW c \in Child, MonitorTakes(c) PROVE GuardIsHeld'
  BY <1>37 DEF MonitorTakes
<1>38. ASSUME NEW c \in Child, MonitorEnds(c) PROVE GuardIsHeld'
  <2>1. CASE Stopped({c}) /\ active' = FALSE /\ UNCHANGED process
    BY <1>38, <2>1 DEF MonitorEnds, Stopped
  <2>2. CASE Fails({c}) /\ active' = TRUE /\ process' = c /\ UNCHANGED child
    BY <1>38, <2>2 DEF MonitorEnds
  <2> QED BY <1>38, <2>1, <2>2 DEF MonitorEnds
<1>39. ASSUME NEW c \in Child, RecordIsDropped(c) PROVE GuardIsHeld'
  BY <1>39 DEF RecordIsDropped
<1>40. ASSUME NEW c \in Child, ChildExits(c) PROVE GuardIsHeld'
  BY <1>40 DEF ChildExits
<1>41. ASSUME NEW c \in Child, StarterEnds(c) PROVE GuardIsHeld'
  BY <1>41 DEF StarterEnds
<1> QED
  BY <1>1, <1>2, <1>3, <1>4, <1>5, <1>6, <1>7, <1>8, <1>9, <1>10, <1>11, <1>12,
     <1>13, <1>14, <1>15, <1>16, <1>17, <1>18, <1>19, <1>20, <1>21, <1>22, <1>23,
     <1>24, <1>25, <1>26, <1>27, <1>28, <1>29, <1>30, <1>31, <1>32, <1>33, <1>34,
     <1>35, <1>36, <1>37, <1>38, <1>39, <1>40, <1>41
     DEF Next, WorkerSteps, StartSteps, ShutdownSteps, AttemptSteps

\* No step revives an attempt that was withdrawn.
LEMMA NextWithdrawn == Inv /\ [Next]_vars => WithdrawnIsOut'
<1> SUFFICES ASSUME Inv, [Next]_vars PROVE WithdrawnIsOut' OBVIOUS
<1> USE OllamaAssumption DEF Inv, TypeOK, Asker, Thread, NoLease, ChildStates,
       Steps, Unreaped, LeaseIsExact, GuardIsHeld, WithdrawnIsOut,
       manager, attempts, worker, threads
<1>1. CASE UNCHANGED vars
  BY <1>1 DEF vars
<1>2. CASE StartBegins
  BY <1>2 DEF StartBegins, Begin
<1>3. CASE StopBegins
  BY <1>3 DEF StopBegins, Begin
<1>4. CASE RemoveBegins
  BY <1>4 DEF RemoveBegins, Begin
<1>5. CASE ShutdownBegins
  BY <1>5 DEF ShutdownBegins
<1>6. CASE StartLooks
  BY <1>6 DEF StartLooks
<1>7. CASE FindsExternal
  BY <1>7 DEF FindsExternal
<1>8. CASE AdmissionEnds
  BY <1>8 DEF AdmissionEnds, Finish
<1>9. CASE FindsNobody
  BY <1>9 DEF FindsNobody
<1>10. CASE Prepares
  BY <1>10 DEF Prepares
<1>11. CASE FailsEarly
  BY <1>11 DEF FailsEarly, Finish
<1>12. CASE StartQuits
  BY <1>12 DEF StartQuits
<1>13. CASE StartReserves
  BY <1>13 DEF StartReserves
<1>14. CASE Spawns
  BY <1>14 DEF Spawns
<1>15. CASE SpawnFails
  BY <1>15 DEF SpawnFails, Finish
<1>16. CASE Registers
  <2>1. CASE pc' = "rejects"
    BY <1>16, <2>1 DEF Registers
  <2>2. CASE pc' = "watches"
    BY <1>16, <2>2 DEF Registers
  <2> QED BY <1>16, <2>1, <2>2 DEF Registers
<1>17. CASE RejectStops
  BY <1>17 DEF RejectStops, Stopped, Dropped, Finish
<1>18. CASE RejectFails
  BY <1>18 DEF RejectFails, Fails, Finish
<1>19. CASE Ready
  BY <1>19 DEF Ready, Finish
<1>20. CASE NotReady
  BY <1>20 DEF NotReady
<1>21. CASE TakesFailed
  BY <1>21 DEF TakesFailed, Finish
<1>22. CASE FailedStops
  BY <1>22 DEF FailedStops, Stopped, Finish
<1>23. CASE FailedStays
  BY <1>23 DEF FailedStays, Fails, Finish
<1>24. CASE StopTakes
  BY <1>24 DEF StopTakes, TakesAll
<1>25. CASE StopEnds
  <2>1. PICK failed \in SUBSET hand["worker"] : StopsBut("worker", failed)
    BY <1>25, StopsAllEffect DEF StopEnds
  <2> QED BY <1>25, <2>1 DEF StopEnds, StopsBut, Finish
<1>26. CASE RemoveEnds
  BY <1>26 DEF RemoveEnds, Finish
<1>27. CASE ShutdownTakes
  BY <1>27 DEF ShutdownTakes, TakesAll
<1>28. CASE ShutdownEnds
  <2>1. PICK failed \in SUBSET hand["shutdown"] : StopsBut("shutdown", failed)
    BY <1>28, StopsAllEffect DEF ShutdownEnds
  <2> QED BY <1>28, <2>1 DEF ShutdownEnds, StopsBut
<1>29. CASE VoiceTakes
  BY <1>29 DEF VoiceTakes
<1>30. CASE VoiceFrees
  BY <1>30 DEF VoiceFrees
<1>31. ASSUME NEW a \in Caller, NEW h \in Host, StatusBegins(a, h) PROVE WithdrawnIsOut'
  BY <1>31 DEF StatusBegins
<1>32. ASSUME NEW a \in Asker, AttemptBegins(a) PROVE WithdrawnIsOut'
  BY <1>32 DEF AttemptBegins
<1>33. ASSUME NEW a \in Asker, AttemptReserves(a) PROVE WithdrawnIsOut'
  BY <1>33 DEF AttemptReserves
<1>34. ASSUME NEW a \in Asker, AttemptDenied(a) PROVE WithdrawnIsOut'
  BY <1>34 DEF AttemptDenied, Forget
<1>35. ASSUME NEW a \in Asker, AttemptCommits(a) PROVE WithdrawnIsOut'
  BY <1>35 DEF AttemptCommits, Current
<1>36. ASSUME NEW c \in Child, MonitorLeaves(c) PROVE WithdrawnIsOut'
  BY <1>36 DEF MonitorLeaves
<1>37. ASSUME NEW c \in Child, MonitorTakes(c) PROVE WithdrawnIsOut'
  BY <1>37 DEF MonitorTakes
<1>38. ASSUME NEW c \in Child, MonitorEnds(c) PROVE WithdrawnIsOut'
  <2>1. CASE Stopped({c}) /\ active' = FALSE /\ UNCHANGED process
    BY <1>38, <2>1 DEF MonitorEnds, Stopped
  <2>2. CASE Fails({c}) /\ active' = TRUE /\ process' = c /\ UNCHANGED child
    BY <1>38, <2>2 DEF MonitorEnds
  <2> QED BY <1>38, <2>1, <2>2 DEF MonitorEnds
<1>39. ASSUME NEW c \in Child, RecordIsDropped(c) PROVE WithdrawnIsOut'
  BY <1>39 DEF RecordIsDropped
<1>40. ASSUME NEW c \in Child, ChildExits(c) PROVE WithdrawnIsOut'
  BY <1>40 DEF ChildExits
<1>41. ASSUME NEW c \in Child, StarterEnds(c) PROVE WithdrawnIsOut'
  BY <1>41 DEF StarterEnds
<1> QED
  BY <1>1, <1>2, <1>3, <1>4, <1>5, <1>6, <1>7, <1>8, <1>9, <1>10, <1>11, <1>12,
     <1>13, <1>14, <1>15, <1>16, <1>17, <1>18, <1>19, <1>20, <1>21, <1>22, <1>23,
     <1>24, <1>25, <1>26, <1>27, <1>28, <1>29, <1>30, <1>31, <1>32, <1>33, <1>34,
     <1>35, <1>36, <1>37, <1>38, <1>39, <1>40, <1>41
     DEF Next, WorkerSteps, StartSteps, ShutdownSteps, AttemptSteps

\* No step lets such an attempt through.
LEMMA NextStopWins == Inv /\ [Next]_vars => StopWinsStep
<1> SUFFICES ASSUME Inv, [Next]_vars PROVE StopWinsStep OBVIOUS
<1> USE OllamaAssumption DEF Inv, TypeOK, Asker, Thread, NoLease, ChildStates,
       Steps, Unreaped, LeaseIsExact, GuardIsHeld, WithdrawnIsOut, StopWinsStep,
       manager, attempts, worker, threads
<1>1. CASE UNCHANGED vars
  BY <1>1 DEF vars
<1>2. CASE StartBegins
  BY <1>2 DEF StartBegins, Begin
<1>3. CASE StopBegins
  BY <1>3 DEF StopBegins, Begin
<1>4. CASE RemoveBegins
  BY <1>4 DEF RemoveBegins, Begin
<1>5. CASE ShutdownBegins
  BY <1>5 DEF ShutdownBegins
<1>6. CASE StartLooks
  BY <1>6 DEF StartLooks
<1>7. CASE FindsExternal
  BY <1>7 DEF FindsExternal
<1>8. CASE AdmissionEnds
  BY <1>8 DEF AdmissionEnds, Finish
<1>9. CASE FindsNobody
  BY <1>9 DEF FindsNobody
<1>10. CASE Prepares
  BY <1>10 DEF Prepares
<1>11. CASE FailsEarly
  BY <1>11 DEF FailsEarly, Finish
<1>12. CASE StartQuits
  BY <1>12 DEF StartQuits
<1>13. CASE StartReserves
  BY <1>13 DEF StartReserves
<1>14. CASE Spawns
  BY <1>14 DEF Spawns
<1>15. CASE SpawnFails
  BY <1>15 DEF SpawnFails, Finish
<1>16. CASE Registers
  BY <1>16 DEF Registers
<1>17. CASE RejectStops
  BY <1>17 DEF RejectStops, Stopped, Dropped, Finish
<1>18. CASE RejectFails
  BY <1>18 DEF RejectFails, Fails, Finish
<1>19. CASE Ready
  BY <1>19 DEF Ready, Finish
<1>20. CASE NotReady
  BY <1>20 DEF NotReady
<1>21. CASE TakesFailed
  BY <1>21 DEF TakesFailed, Finish
<1>22. CASE FailedStops
  BY <1>22 DEF FailedStops, Stopped, Finish
<1>23. CASE FailedStays
  BY <1>23 DEF FailedStays, Fails, Finish
<1>24. CASE StopTakes
  BY <1>24 DEF StopTakes, TakesAll
<1>25. CASE StopEnds
  BY <1>25 DEF StopEnds, StopsAll, Stopped, Fails, Dropped, Finish
<1>26. CASE RemoveEnds
  BY <1>26 DEF RemoveEnds, Finish
<1>27. CASE ShutdownTakes
  BY <1>27 DEF ShutdownTakes, TakesAll
<1>28. CASE ShutdownEnds
  BY <1>28 DEF ShutdownEnds, StopsAll, Stopped, Fails, Dropped
<1>29. CASE VoiceTakes
  BY <1>29 DEF VoiceTakes
<1>30. CASE VoiceFrees
  BY <1>30 DEF VoiceFrees
<1>31. ASSUME NEW a \in Caller, NEW h \in Host, StatusBegins(a, h) PROVE StopWinsStep
  BY <1>31 DEF StatusBegins
<1>32. ASSUME NEW a \in Asker, AttemptBegins(a) PROVE StopWinsStep
  BY <1>32 DEF AttemptBegins
<1>33. ASSUME NEW a \in Asker, AttemptReserves(a) PROVE StopWinsStep
  BY <1>33 DEF AttemptReserves
<1>34. ASSUME NEW a \in Asker, AttemptDenied(a) PROVE StopWinsStep
  BY <1>34 DEF AttemptDenied, Forget
<1>35. ASSUME NEW a \in Asker, AttemptCommits(a) PROVE StopWinsStep
  BY <1>35 DEF AttemptCommits, Current
<1>36. ASSUME NEW c \in Child, MonitorLeaves(c) PROVE StopWinsStep
  BY <1>36 DEF MonitorLeaves
<1>37. ASSUME NEW c \in Child, MonitorTakes(c) PROVE StopWinsStep
  BY <1>37 DEF MonitorTakes
<1>38. ASSUME NEW c \in Child, MonitorEnds(c) PROVE StopWinsStep
  BY <1>38 DEF MonitorEnds, Stopped, Fails
<1>39. ASSUME NEW c \in Child, RecordIsDropped(c) PROVE StopWinsStep
  BY <1>39 DEF RecordIsDropped
<1>40. ASSUME NEW c \in Child, ChildExits(c) PROVE StopWinsStep
  BY <1>40 DEF ChildExits
<1>41. ASSUME NEW c \in Child, StarterEnds(c) PROVE StopWinsStep
  BY <1>41 DEF StarterEnds
<1> QED
  BY <1>1, <1>2, <1>3, <1>4, <1>5, <1>6, <1>7, <1>8, <1>9, <1>10, <1>11, <1>12,
     <1>13, <1>14, <1>15, <1>16, <1>17, <1>18, <1>19, <1>20, <1>21, <1>22, <1>23,
     <1>24, <1>25, <1>26, <1>27, <1>28, <1>29, <1>30, <1>31, <1>32, <1>33, <1>34,
     <1>35, <1>36, <1>37, <1>38, <1>39, <1>40, <1>41
     DEF Next, WorkerSteps, StartSteps, ShutdownSteps, AttemptSteps

LEMMA NextInv == Inv /\ [Next]_vars => Inv'
BY NextTypes, NextLease, NextRecords, NextActive, NextHands, NextGuard,
   NextWithdrawn DEF Inv

-----------------------------------------------------------------------------
\* The inductive invariant: lease, records, hands, guard and attempts together.
THEOREM InvariantHolds == Spec => []Inv
BY InitInv, NextInv, PTL DEF Spec

\* The state of the manager, the servers and the attempts keep their types, and
\* an entry of the pending table always has an attempt behind it.
THEOREM TypeCorrect == Spec => []TypeOK
<1>1. Inv => TypeOK BY DEF Inv
<1> QED BY <1>1, InvariantHolds, PTL

LEMMA InvCovered == Inv => ServerIsCovered
<1> SUFFICES ASSUME Inv PROVE ServerIsCovered OBVIOUS
<1> USE OllamaAssumption DEF Inv, TypeOK, LeaseIsExact, RecordsAreExact,
       RecordedIsActive, HandsFitSteps
<1>1. ASSUME NEW c \in Child, child[c] \in Unreaped
      PROVE  /\ lease = c /\ pc # "removes"
             /\ c \in {process} \cup unreaped \cup UNION {hand[t] : t \in Thread}
             /\ c \in {process} \cup unreaped => active
  <2>1. lease = c /\ pc # "removes" BY <1>1
  <2>2. c \in {process} \cup unreaped => active BY <1>1
  <2>3. process = c \/ c \in unreaped \/ \E t \in Thread : c \in hand[t] BY <1>1
  <2> QED BY <2>1, <2>2, <2>3
<1> QED BY <1>1 DEF ServerIsCovered

\* For any number of servers: whoever fails, stops or shuts down, a server that
\* lives has the lease, so there is one at most, and it has its record.
THEOREM ServersAreCovered == Spec => []ServerIsCovered
<1>1. Inv => ServerIsCovered BY InvCovered
<1> QED BY <1>1, InvariantHolds, PTL

\* No attempt to reserve for an external server that a stop or the shutdown
\* withdrew (its generation in the pending table) comes through afterwards.
THEOREM StopWinsHolds == Spec => StopWins
<1>1. Inv /\ [Next]_vars => [StopWinsStep]_vars BY NextStopWins
<1>2. [][StopWinsStep]_vars => StopWins BY PTL DEF StopWinsStep, StopWins
<1> QED BY <1>1, <1>2, InvariantHolds, PTL DEF Spec
==============================================================================
