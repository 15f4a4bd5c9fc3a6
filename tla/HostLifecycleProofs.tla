------------------------ MODULE HostLifecycleProofs ------------------------
(***************************************************************************)
(* Proofs about HostLifecycle: no browser without a lease, no SIGTERM to   *)
(* another program, and one browser at a time, for every set of ADKs and   *)
(* pids, any number of launches and crashes.                               *)
(***************************************************************************)
EXTENDS HostLifecycle, TLAPS

\* Browsers that count, of an ADK.
Unlost(p, a) == proc[p].nonce # 0 /\ proc[p].adk = a /\ proc[p].nonce \notin lost

\* No browser that counts but the supervisor's own has its ADK.
Sole(n) == \A p \in Pid : Unlost(p, sup[n].adk) => proc[p].nonce = n

Handle(n) == sup[n].pid # NoPid

\* The part of a thread's life in which it starts, or will start, a browser.
Launching(t) ==
    \/ thread[t].pc \in {"launch", "listen", "wait"}
    \/ thread[t].pc \in {"judge", "termed", "killed"} /\ thread[t].do # "reconcile"

Busy(t) == thread[t].pc \in {"judge", "termed", "killed", "launch", "listen"}

DownIsClean ==
    ~up => /\ ~closing /\ current = 0
           /\ \A n \in Nonce : sup[n] = NoSup
           /\ \A t \in Thread : thread[t] = Idle

NoncesIssued ==
    /\ \A p \in Pid : proc[p].nonce <= launches /\ (proc[p].foreign => proc[p].nonce = 0)
    /\ \A n \in Nonce : Handle(n) => n <= launches
    /\ \A n \in lost : n <= launches

\* Every nonce a thread or the daemon refers to is one of a handle.
HandlesExist ==
    /\ \A n \in Nonce : sup[n].open => Handle(n)
    /\ current # 0 => Handle(current)

\* A handle is of the one process that has its nonce, until that exits.
HandleKnows ==
    \A n \in Nonce, p \in Pid : Handle(n) /\ proc[p].nonce = n =>
        sup[n].pid = p /\ sup[n].adk = proc[p].adk /\ ~sup[n].exited

\* The daemon's start has it for itself; only a shutdown stops on Main.
MainAlone ==
    /\ Busy(Main) => /\ ~closing
                     /\ \A n \in Nonce : ~sup[n].open
                     /\ \A t \in Call : thread[t] = Idle
    /\ thread[Main].pc \in {"stop", "stopped"} => closing /\ thread[Main].do = "exit"
    /\ thread[Main].pc # "wait"

\* Who is about to launch has given up the last supervisor.
LaunchingWithoutCurrent ==
    \A t \in Thread : Launching(t) /\ ~closing => current = 0

\* No browser that counts has the ADK.
Cleared(a) == \A p \in Pid : ~Unlost(p, a)

\* A reclaim is about the process the lease names, and SIGKILL has gone to it.
ReclaimIsCurrent(t) ==
    LET l == lease[thread[t].adk]
        p == thread[t].pid
    IN  /\ l.kind = "lease" => l.pid = p
        /\ thread[t].pc = "killed" /\ Unlost(p, thread[t].adk) => p \in doomed

\* What each point of a thread can rely on.
ThreadInv(t) ==
    /\ thread[t].pc \in {"listen", "stop"} => Handle(thread[t].nonce) /\ Sole(thread[t].nonce)
    /\ thread[t].pc = "launch" => Cleared(thread[t].adk)
    /\ thread[t].pc \in {"termed", "killed"} => ReclaimIsCurrent(t)

SoleOnes ==
    /\ current # 0 => Sole(current)
    /\ \A n \in lost : Handle(n) => closing /\ Sole(n)

IInv ==
    /\ TypeOK /\ DownIsClean /\ NoncesIssued /\ HandlesExist /\ HandleKnows /\ MainAlone
    /\ LaunchingWithoutCurrent /\ SoleOnes
    /\ \A t \in Thread : ThreadInv(t)
    /\ EveryBrowserIsLeased /\ NoForeignTerm
-----------------------------------------------------------------------------
(* Types *)

LEMMA NullsTyped ==
  /\ NoProc \in Processes /\ Foreign \in Processes
  /\ NoLease \in Leases /\ Garbled \in Leases
  /\ NoSup \in Supervisors /\ Idle \in Threads
  /\ NoProc.nonce = 0 /\ Foreign.nonce = 0 /\ ~NoProc.foreign
  /\ NoLease.kind = "none" /\ Garbled.kind = "garbled"
  /\ NoSup.pid = NoPid /\ ~NoSup.open
  /\ Idle.pc = "idle" /\ Idle.do = "none"
  BY HostAssumption DEF Processes, Leases, Supervisors, Threads, NoProc, Foreign, NoLease,
     Garbled, NoSup, Idle, Job

LEMMA ThreadFields ==
  ASSUME NEW k \in Threads
  PROVE  /\ k.adk \in Adk \cup {NoAdk} /\ k.nonce \in {0} \cup Nonce
         /\ k.pid \in Pid \cup {NoPid} /\ k.level \in 0..2
         /\ k.pc \in {"judge", "termed", "killed", "launch", "listen", "wait"} => k.adk \in Adk
         /\ k.do \in {"switch", "start"} => k.adk \in Adk
         /\ k.pc \in {"termed", "killed"} => k.pid \in Pid
         /\ k.pc \in {"listen", "stop"} => k.nonce # 0
  BY DEF Threads

LEMMA LeaseFields ==
  ASSUME NEW l \in Leases
  PROVE  /\ l.kind \in {"none", "garbled", "lease"}
         /\ l.kind = "lease" => l.pid \in Pid /\ l.nonce \in Nonce
  BY DEF Leases, NoLease, Garbled, LeaseOf

LEMMA MatchMeans ==
  ASSUME NEW l \in Leases, Verdict(l) = "match"
  PROVE  l.kind = "lease" /\ Alive(l.pid) /\ CanVerify /\ HasMarker(l.pid, l.nonce)
  <1>1. CASE l.kind = "none"
    BY <1>1 DEF Verdict
  <1>2. CASE l.kind = "garbled"
    BY <1>2 DEF Verdict
  <1>3. CASE l.kind = "lease"
    BY <1>3 DEF Verdict
  <1> QED BY <1>1, <1>2, <1>3, LeaseFields

LEMMA ThreadMoves ==
  ASSUME NEW k \in Threads
  PROVE  /\ \A pc \in {"judge", "launch", "wait"} :
               k.adk \in Adk => [k EXCEPT !.pc = pc] \in Threads
         /\ \A pc \in {"termed", "killed"} :
               k.adk \in Adk /\ k.pid \in Pid => [k EXCEPT !.pc = pc] \in Threads
         /\ \A p \in Pid : [k EXCEPT !.pid = p] \in Threads
         /\ \A n \in Nonce : [k EXCEPT !.nonce = n] \in Threads
         /\ \A i \in 0..2 : [k EXCEPT !.level = i] \in Threads
         /\ [k EXCEPT !.pc = "stopped"] \in Threads
         /\ k.adk \in Adk /\ k.nonce # 0 => [k EXCEPT !.pc = "listen"] \in Threads
         /\ k.nonce # 0 => [k EXCEPT !.pc = "stop"] \in Threads
  BY HostAssumption DEF Threads, Nonce

LEMMA InitTypeOK ==
  ASSUME Init
  PROVE  TypeOK
  <1>1. proc \in [Pid -> Processes]
    BY NullsTyped DEF Init
  <1>2. lease \in [Adk -> Leases]
    <2>1. {NoLease, Garbled} \subseteq Leases
      BY NullsTyped
    <2> QED BY <2>1 DEF Init
  <1>3. sup \in [Nonce -> Supervisors]
    BY NullsTyped DEF Init
  <1>4. thread \in [Thread -> Threads]
    BY NullsTyped DEF Init
  <1>5. launches \in 0..MaxLaunch
    BY HostAssumption DEF Init
  <1>6. /\ doomed \subseteq Pid /\ lost \subseteq Nonce /\ harmed \subseteq {"TERM", "KILL"}
        /\ up \in BOOLEAN /\ closing \in BOOLEAN
        /\ current \in {0} \cup Nonce /\ currentAdk \in Adk \cup {NoAdk}
    BY DEF Init
  <1> QED BY <1>1, <1>2, <1>3, <1>4, <1>5, <1>6 DEF TypeOK

\* The cleared threads and supervisors of a dead daemon are typed.
LEMMA DieTyped ==
  ASSUME TypeOK, Die
  PROVE  /\ up' \in BOOLEAN /\ closing' \in BOOLEAN
         /\ current' \in {0} \cup Nonce /\ currentAdk' \in Adk \cup {NoAdk}
         /\ sup' \in [Nonce -> Supervisors]
         /\ thread' \in [Thread -> Threads]
  <1>1. sup' \in [Nonce -> Supervisors]
    BY NullsTyped DEF Die
  <1>2. thread' \in [Thread -> Threads]
    BY NullsTyped DEF Die
  <1> QED BY <1>1, <1>2 DEF Die

\* A thread that goes on as r.
LEMMA OneThread ==
  ASSUME TypeOK, NEW t \in Thread, NEW r \in Threads, thread' = [thread EXCEPT ![t] = r]
  PROVE  thread' \in [Thread -> Threads]
  BY DEF TypeOK

LEMMA FailTyped ==
  ASSUME TypeOK, NEW t \in Thread, Fail(t), UNCHANGED worldVars
  PROVE  TypeOK'
  <1>1. CASE t = Main
    BY <1>1, DieTyped DEF Fail, worldVars, TypeOK
  <1>2. CASE t # Main
    <2>1. thread' = [thread EXCEPT ![t] = Idle] /\ UNCHANGED <<worldVars, daemonVars>>
      BY <1>2 DEF Fail
    <2>2. thread' \in [Thread -> Threads]
      BY <2>1, OneThread, NullsTyped
    <2> QED BY <2>1, <2>2 DEF TypeOK, worldVars, daemonVars
  <1> QED BY <1>1, <1>2

\* What becomes of a thread after its reconciliation.
Continued(k) ==
    CASE k.do = "switch" -> [k EXCEPT !.pc = "judge", !.do = "start"]
      [] k.do = "start"  -> [k EXCEPT !.pc = "launch"]
      [] OTHER           -> Idle

LEMMA ContinueTyped ==
  ASSUME TypeOK, NEW t \in Thread, Continue(t)
  PROVE  /\ thread' = [thread EXCEPT ![t] = Continued(thread[t])]
         /\ thread' \in [Thread -> Threads]
  <1>1. thread' = [thread EXCEPT ![t] = Continued(thread[t])]
    BY DEF Continue, Continued, TypeOK
  <1>2. Continued(thread[t]) \in Threads
    <2> DEFINE k == thread[t]
    <2>1. k \in Threads
      BY DEF TypeOK
    <2> HIDE DEF k
    <2>2. k.do = "switch" => [k EXCEPT !.pc = "judge", !.do = "start"] \in Threads
      BY <2>1 DEF Threads
    <2>3. k.do = "start" => [k EXCEPT !.pc = "launch"] \in Threads
      BY <2>1, ThreadMoves, ThreadFields
    <2>4. Continued(k) \in Threads
      BY <2>2, <2>3, NullsTyped DEF Continued
    <2> QED BY <2>4 DEF k
  <1> QED BY <1>1, <1>2, OneThread

LEMMA RemoveLeaseTyped ==
  ASSUME TypeOK, NEW a, RemoveLease(a)
  PROVE  lease' \in [Adk -> Leases]
  BY NullsTyped DEF TypeOK, RemoveLease

LEMMA OneSup ==
  ASSUME TypeOK, NEW n \in Nonce, NEW s \in Supervisors, sup' = [sup EXCEPT ![n] = s]
  PROVE  sup' \in [Nonce -> Supervisors]
  BY DEF TypeOK

LEMMA SupMoves ==
  ASSUME NEW s \in Supervisors, NEW b \in BOOLEAN
  PROVE  /\ [s EXCEPT !.open = b] \in Supervisors
         /\ [s EXCEPT !.stopped = b] \in Supervisors
         /\ [s EXCEPT !.exited = b] \in Supervisors
  BY DEF Supervisors

\* Names for the two outcomes of a launch.
LeasedAs(t, p, n) ==
    /\ lease' = [lease EXCEPT ![thread[t].adk] = LeaseOf(p, n)]
    /\ sup' = [sup EXCEPT ![n] = [NoSup EXCEPT !.adk = thread[t].adk, !.pid = p]]
    /\ thread' = [thread EXCEPT ![t].pc = "listen", ![t].nonce = n]
    /\ lost' = lost \cup (IF closing THEN {n} ELSE {})
    /\ UNCHANGED <<up, closing, current, currentAdk>>

SpawnedAs(t, p, n) ==
    /\ ~Alive(p)
    /\ proc' = [proc EXCEPT ![p] = Browser(thread[t].adk, n)]
    /\ \/ LeasedAs(t, p, n)
       \/ Die /\ lost' = lost \cup {n} /\ UNCHANGED lease

LEMMA ThreadStepTyped ==
  ASSUME TypeOK, NEW t \in Thread, ThreadStep(t)
  PROVE  TypeOK'
  <1> DEFINE k == thread[t]
  <1>k. k \in Threads
    BY DEF TypeOK
  <1> HIDE DEF k
  <1>1. CASE JudgeOnly(t)
    <2>1. thread' \in [Thread -> Threads] /\ lease' \in [Adk -> Leases]
      BY <1>1, ContinueTyped, RemoveLeaseTyped DEF JudgeOnly, TypeOK
    <2> QED BY <1>1, <2>1 DEF JudgeOnly, TypeOK, daemonVars
  <1>2. CASE Terminate(t)
    <2> DEFINE p == lease[k.adk].pid
    <2>1. k.adk \in Adk /\ p \in Pid
      <3>1. k.adk \in Adk
        BY <1>2, <1>k, ThreadFields DEF Terminate, At, k
      <3>2. lease[k.adk] \in Leases
        BY <3>1 DEF TypeOK
      <3>3. lease[k.adk].kind = "lease"
        <4>1. Verdict(lease[k.adk]) = "match"
          BY <1>2 DEF Terminate, k
        <4> QED BY <4>1, <3>2, MatchMeans
      <3> QED BY <3>1, <3>2, <3>3, LeaseFields
    <2> HIDE DEF p
    <2>2. thread' = [thread EXCEPT ![t] = [[k EXCEPT !.pid = p] EXCEPT !.pc = "termed"]]
      BY <1>2, <1>k DEF Terminate, k, p, TypeOK, Threads
    <2>3. [[k EXCEPT !.pid = p] EXCEPT !.pc = "termed"] \in Threads
      <3> DEFINE r == [k EXCEPT !.pid = p]
      <3>1. r \in Threads
        BY <1>k, <2>1, ThreadMoves
      <3>2. r.adk = k.adk /\ r.pid = p
        BY <1>k DEF Threads
      <3> HIDE DEF r
      <3>3. [r EXCEPT !.pc = "termed"] \in Threads
        BY <2>1, <3>1, <3>2, ThreadMoves
      <3> QED BY <3>3 DEF r
    <2>4. thread' \in [Thread -> Threads]
      BY <2>2, <2>3, OneThread
    <2>5. harmed' \subseteq {"TERM", "KILL"}
      BY <1>2 DEF Terminate, TypeOK
    <2> QED BY <1>2, <2>4, <2>5 DEF Terminate, TypeOK, daemonVars
  <1>3. CASE KillAfterGrace(t)
    <2>1. k.adk \in Adk /\ k.pid \in Pid
      BY <1>3, <1>k, ThreadFields DEF KillAfterGrace, At, k
    <2>2. [k EXCEPT !.pc = "killed"] \in Threads
      BY <1>k, <2>1, ThreadMoves
    <2>3. thread' = [thread EXCEPT ![t] = [k EXCEPT !.pc = "killed"]]
      BY <1>3 DEF KillAfterGrace, GoTo, k
    <2>4. thread' \in [Thread -> Threads]
      BY <2>2, <2>3, OneThread
    <2>5. harmed' \subseteq {"TERM", "KILL"} /\ doomed' \subseteq Pid
      BY <1>3, <2>1 DEF KillAfterGrace, TypeOK, k
    <2> QED BY <1>3, <2>4, <2>5 DEF KillAfterGrace, TypeOK, daemonVars
  <1>4. CASE Reclaim(t)
    <2>1. thread' \in [Thread -> Threads] /\ lease' \in [Adk -> Leases]
      BY <1>4, ContinueTyped, RemoveLeaseTyped DEF Reclaim
    <2> QED BY <1>4, <2>1 DEF Reclaim, TypeOK, daemonVars
  <1>6. CASE LaunchFails(t) \/ ListenFails(t)
    BY <1>6, FailTyped DEF LaunchFails, ListenFails
  <1>5. CASE Launch(t)
    <2> DEFINE n == launches + 1
    <2>n. n \in Nonce /\ n \in 0..MaxLaunch
      BY <1>5, HostAssumption DEF Launch, TypeOK, Nonce
    <2>a. k.adk \in Adk
      BY <1>5, <1>k, ThreadFields DEF Launch, At, k
    <2>p. PICK p \in Pid : SpawnedAs(t, p, n)
      BY <1>5 DEF Launch, SpawnedAs, LeasedAs
    <2> HIDE DEF n
    <2>1. proc' \in [Pid -> Processes]
      <3>1. Browser(k.adk, n) \in Processes
        BY <2>n, <2>a DEF Processes
      <3> QED BY <2>p, <3>1 DEF SpawnedAs, TypeOK, k
    <2>2. CASE LeasedAs(t, p, n)
      <3>1. lease' \in [Adk -> Leases]
        <4>1. LeaseOf(p, n) \in Leases
          BY <2>n DEF Leases
        <4> QED BY <2>2, <4>1 DEF LeasedAs, TypeOK, k
      <3>2. sup' \in [Nonce -> Supervisors]
        <4>1. [NoSup EXCEPT !.adk = k.adk, !.pid = p] \in Supervisors
          BY <2>a DEF NoSup, Supervisors
        <4> QED BY <2>2, <2>n, <4>1, OneSup DEF LeasedAs, k
      <3>3. thread' \in [Thread -> Threads]
        <4> DEFINE q == [k EXCEPT !.nonce = n]
        <4> DEFINE r == [q EXCEPT !.pc = "listen"]
        <4>1. q \in Threads /\ q.adk = k.adk /\ q.nonce = n
          <5>1. q \in Threads
            BY <1>k, <2>n, ThreadMoves
          <5>2. q.adk = k.adk /\ q.nonce = n
            BY <1>k DEF Threads
          <5> QED BY <5>1, <5>2
        <4>3. n # 0
          BY <2>n, HostAssumption DEF Nonce
        <4>5. r \in Threads
          <5> HIDE DEF q
          <5> QED BY <4>1, <4>3, <2>a, ThreadMoves
        <4>2. thread' = [thread EXCEPT ![t] = r]
          BY <2>2, <1>k DEF LeasedAs, k, TypeOK, Threads
        <4> HIDE DEF r
        <4> QED BY <4>5, <4>2, OneThread
      <3>4. lost' \subseteq Nonce
        BY <2>2, <2>n DEF LeasedAs, TypeOK
      <3>5. launches' = n /\ UNCHANGED <<doomed, harmed>>
        BY <1>5 DEF Launch, n
      <3> QED BY <2>1, <2>2, <2>n, <3>1, <3>2, <3>3, <3>4, <3>5 DEF LeasedAs, TypeOK
    <2>3. CASE Die /\ lost' = lost \cup {n} /\ UNCHANGED lease
      <3>1. launches' = n /\ UNCHANGED <<doomed, harmed>>
        BY <1>5 DEF Launch, n
      <3>2. lost' \subseteq Nonce
        BY <2>3, <2>n DEF TypeOK
      <3> QED BY <2>1, <2>3, <2>n, <3>1, <3>2, DieTyped DEF TypeOK
    <2> QED BY <2>p, <2>2, <2>3 DEF SpawnedAs
  <1>7. CASE Listen(t)
    <2>1. k.nonce \in Nonce /\ k.adk \in Adk
      BY <1>7, <1>k, ThreadFields DEF Listen, At, k
    <2>2. sup' \in [Nonce -> Supervisors]
      <3>1. sup[k.nonce] \in Supervisors
        BY <2>1 DEF TypeOK
      <3>2. [sup[k.nonce] EXCEPT !.open = TRUE] \in Supervisors
        BY <3>1, SupMoves
      <3>3. sup' = [sup EXCEPT ![k.nonce] = [sup[k.nonce] EXCEPT !.open = TRUE]]
        BY <1>7 DEF Listen, k
      <3> QED BY <2>1, <3>2, <3>3, OneSup
    <2>3. thread' \in [Thread -> Threads]
      BY <1>7, OneThread, NullsTyped DEF Listen
    <2> QED BY <1>7, <2>1, <2>2, <2>3 DEF Listen, TypeOK, worldVars, k
  <1>8. CASE Escalate(t)
    <2>1. k.level + 1 \in 0..2 /\ k.nonce \in Nonce
      BY <1>8, <1>k, ThreadFields DEF Escalate, At, k
    <2>2. [k EXCEPT !.level = k.level + 1] \in Threads
      BY <1>k, <2>1, ThreadMoves
    <2>3. thread' = [thread EXCEPT ![t] = [k EXCEPT !.level = k.level + 1]]
      BY <1>8 DEF Escalate, k, TypeOK
    <2>4. thread' \in [Thread -> Threads]
      BY <2>2, <2>3, OneThread
    <2>5. doomed' \subseteq Pid
      <3>1. sup[k.nonce] \in Supervisors /\ sup[k.nonce].pid # NoPid
        BY <1>8, <2>1 DEF Escalate, Child, k, TypeOK
      <3>2. sup[k.nonce].pid \in Pid
        BY <3>1 DEF Supervisors
      <3> QED BY <1>8, <3>2 DEF Escalate, TypeOK, k
    <2> QED BY <1>8, <2>4, <2>5 DEF Escalate, TypeOK, daemonVars
  <1>9. CASE FinishStop(t)
    <2>1. k.nonce \in Nonce
      BY <1>9, <1>k, ThreadFields DEF FinishStop, StopEnds, At, k
    <2>2. sup' \in [Nonce -> Supervisors]
      <3>1. sup[k.nonce] \in Supervisors
        BY <2>1 DEF TypeOK
      <3>2. [sup[k.nonce] EXCEPT !.open = FALSE] \in Supervisors
        BY <3>1, SupMoves
      <3>3. sup' = [sup EXCEPT ![k.nonce] = [sup[k.nonce] EXCEPT !.open = FALSE]]
        BY <1>9 DEF FinishStop, k
      <3> QED BY <2>1, <3>2, <3>3, OneSup
    <2>3. thread' \in [Thread -> Threads]
      <3>1. [k EXCEPT !.pc = "stopped"] \in Threads
        BY <1>k, ThreadMoves
      <3>2. thread' = [thread EXCEPT ![t] = [k EXCEPT !.pc = "stopped"]]
        BY <1>9 DEF FinishStop, GoTo, k
      <3> QED BY <3>1, <3>2, OneThread
    <2>4. lease' \in [Adk -> Leases]
      BY <1>9, RemoveLeaseTyped DEF FinishStop
    <2> QED BY <1>9, <2>2, <2>3, <2>4 DEF FinishStop, TypeOK
  <1>10. CASE Stopped(t)
    <2>1. CASE k.do = "exit"
      BY <1>10, <2>1, DieTyped DEF Stopped, TypeOK, worldVars, k
    <2>2. CASE k.do # "exit"
      <3> DEFINE r == IF k.do = "switch" THEN [k EXCEPT !.pc = "wait"] ELSE Idle
      <3>1. r \in Threads
        BY <1>k, ThreadFields, ThreadMoves, NullsTyped
      <3>2. thread' = [thread EXCEPT ![t] = r]
        BY <1>10, <2>2 DEF Stopped, TypeOK, k
      <3> HIDE DEF r
      <3>3. thread' \in [Thread -> Threads]
        BY <3>1, <3>2, OneThread
      <3> QED BY <1>10, <2>2, <3>3 DEF Stopped, TypeOK, worldVars, k
    <2> QED BY <2>1, <2>2
  <1>11. CASE WaitEnds(t)
    <2>1. CASE Fail(t)
      BY <1>11, <2>1, FailTyped DEF WaitEnds
    <2>2. CASE GoTo(t, "judge") /\ UNCHANGED daemonVars
      <3>1. k.adk \in Adk
        BY <1>11, <1>k, ThreadFields DEF WaitEnds, At, k
      <3>2. [k EXCEPT !.pc = "judge"] \in Threads
        BY <1>k, <3>1, ThreadMoves
      <3>3. thread' = [thread EXCEPT ![t] = [k EXCEPT !.pc = "judge"]]
        BY <2>2 DEF GoTo, k
      <3>4. thread' \in [Thread -> Threads]
        BY <3>2, <3>3, OneThread
      <3> QED BY <1>11, <2>2, <3>4 DEF WaitEnds, TypeOK, worldVars, daemonVars
    <2> QED BY <1>11, <2>1, <2>2 DEF WaitEnds
  <1> QED BY <1>1, <1>2, <1>3, <1>4, <1>5, <1>6, <1>7, <1>8, <1>9, <1>10, <1>11 DEF ThreadStep

LEMMA BeginStopTyped ==
  ASSUME TypeOK, NEW t \in Thread, NEW n \in Nonce,
         NEW do \in {"switch", "stop", "exit"}, NEW a \in Adk \cup {NoAdk},
         do = "switch" => a \in Adk,
         BeginStop(t, n, do, a)
  PROVE  sup' \in [Nonce -> Supervisors] /\ thread' \in [Thread -> Threads]
  <1>1. sup[n] \in Supervisors
    BY DEF TypeOK
  <1>2. sup' \in [Nonce -> Supervisors]
    <2>1. [sup[n] EXCEPT !.stopped = TRUE] \in Supervisors
      BY <1>1, SupMoves
    <2>2. sup' = [sup EXCEPT ![n] = [sup[n] EXCEPT !.stopped = TRUE]]
      BY DEF BeginStop
    <2> QED BY <2>1, <2>2, OneSup
  <1>3. thread' \in [Thread -> Threads]
    <2> DEFINE r == [pc |-> IF sup[n].stopped THEN "stopped" ELSE "stop", do |-> do, adk |-> a,
                     nonce |-> n, pid |-> sup[n].pid, level |-> 0]
    <2>1. sup[n].pid \in Pid \cup {NoPid} /\ n # 0
      BY <1>1, HostAssumption DEF Supervisors, Nonce
    <2>2. r \in Threads
      BY <2>1 DEF Threads
    <2>3. thread' = [thread EXCEPT ![t] = r]
      BY DEF BeginStop
    <2> HIDE DEF r
    <2> QED BY <2>2, <2>3, OneThread
  <1> QED BY <1>2, <1>3

LEMMA JobTyped ==
  ASSUME NEW a \in Adk, NEW pc \in {"idle", "judge"},
         NEW do \in {"none", "start", "switch", "reconcile", "stop", "exit"}
  PROVE  /\ Job(pc, do, a) \in Threads
         /\ do \in {"none", "stop", "exit"} => Job("idle", do, NoAdk) \in Threads
  BY DEF Threads, Job

LEMMA RequestTyped ==
  ASSUME TypeOK, NEW t \in Thread, Request(t)
  PROVE  TypeOK'
  <1>1. ASSUME NEW a \in Adk, Switch(t, a) PROVE TypeOK'
    <2>1. CASE current # 0
      <3>1. sup' \in [Nonce -> Supervisors] /\ thread' \in [Thread -> Threads]
        BY <1>1, <2>1, BeginStopTyped DEF Switch, TypeOK
      <3> QED BY <1>1, <3>1 DEF Switch, TypeOK, worldVars
    <2>2. CASE current = 0
      <3>1. thread' \in [Thread -> Threads]
        BY <1>1, <2>2, OneThread, JobTyped DEF Switch
      <3> QED BY <1>1, <2>2, <3>1 DEF Switch, TypeOK, worldVars
    <2> QED BY <2>1, <2>2
  <1>2. ASSUME NEW a \in Adk, Reconcile(t, a) PROVE TypeOK'
    <2>1. thread' \in [Thread -> Threads]
      BY <1>2, OneThread, JobTyped DEF Reconcile
    <2> QED BY <1>2, <2>1 DEF Reconcile, TypeOK, worldVars, daemonVars
  <1>3. CASE Stop(t)
    <2>1. sup' \in [Nonce -> Supervisors] /\ thread' \in [Thread -> Threads]
      BY <1>3, BeginStopTyped DEF Stop, TypeOK
    <2> QED BY <1>3, <2>1 DEF Stop, TypeOK, worldVars
  <1> QED BY <1>1, <1>2, <1>3 DEF Request

LEMMA DaemonTyped ==
  ASSUME TypeOK, (\E a \in Adk : Boot(a)) \/ Crash \/ Shutdown
  PROVE  TypeOK'
  <1> USE DEF Thread
  <1>1. ASSUME NEW a \in Adk, Boot(a) PROVE TypeOK'
    <2>1. thread' \in [Thread -> Threads]
      BY <1>1, OneThread, JobTyped DEF Boot
    <2> QED BY <1>1, <2>1 DEF Boot, TypeOK, worldVars
  <1>2. CASE Crash
    BY <1>2, DieTyped DEF Crash, TypeOK, worldVars
  <1>3. CASE Shutdown
    <2>1. CASE current = 0
      BY <1>3, <2>1, DieTyped DEF Shutdown, TypeOK, worldVars
    <2>2. CASE current # 0
      <3>1. sup' \in [Nonce -> Supervisors] /\ thread' \in [Thread -> Threads]
        BY <1>3, <2>2, BeginStopTyped DEF Shutdown, TypeOK
      <3> QED BY <1>3, <2>2, <3>1 DEF Shutdown, TypeOK, worldVars
    <2> QED BY <2>1, <2>2
  <1> QED BY <1>1, <1>2, <1>3

\* A process that is a browser has a launch's number.
LEMMA ProcFields ==
  ASSUME NEW b \in Processes
  PROVE  /\ b.nonce # 0 => b.nonce \in Nonce /\ b.adk \in Adk /\ b = Browser(b.adk, b.nonce)
         /\ b.foreign => b.nonce = 0
         /\ b.nonce \in {0} \cup Nonce
         /\ b # NoProc /\ ~b.foreign => b.nonce # 0
  BY HostAssumption DEF Processes, NoProc, Foreign, Browser, Nonce

LEMMA ProcessTyped ==
  ASSUME TypeOK, NEW p \in Pid, BrowserExits(p) \/ ForeignStarts(p) \/ ForeignExits(p)
  PROVE  TypeOK'
  <1>1. CASE BrowserExits(p)
    <2> DEFINE n == proc[p].nonce
    <2>1. proc' \in [Pid -> Processes]
      BY <1>1, NullsTyped DEF BrowserExits, TypeOK
    <2>2. CASE sup[n].pid = p
      <3>1. n \in Nonce
        BY <1>1, ProcFields DEF BrowserExits, TypeOK
      <3>2. [sup[n] EXCEPT !.exited = TRUE] \in Supervisors
        BY <3>1, SupMoves DEF TypeOK
      <3>3. sup' = [sup EXCEPT ![n] = [sup[n] EXCEPT !.exited = TRUE]] /\ RemoveLease(sup[n].adk)
        BY <1>1, <2>2 DEF BrowserExits
      <3> HIDE DEF n
      <3>4. sup' \in [Nonce -> Supervisors] /\ lease' \in [Adk -> Leases]
        BY <3>1, <3>2, <3>3, OneSup, RemoveLeaseTyped
      <3> QED BY <1>1, <2>1, <3>4 DEF BrowserExits, TypeOK
    <2>3. CASE sup[n].pid # p
      BY <1>1, <2>1, <2>3 DEF BrowserExits, TypeOK
    <2> QED BY <2>2, <2>3
  <1>2. CASE ForeignStarts(p)
    <2>1. proc' \in [Pid -> Processes]
      BY <1>2, NullsTyped DEF ForeignStarts, TypeOK
    <2> QED BY <1>2, <2>1 DEF ForeignStarts, TypeOK, daemonVars
  <1>3. CASE ForeignExits(p)
    <2>1. proc' \in [Pid -> Processes]
      BY <1>3, NullsTyped DEF ForeignExits, TypeOK
    <2> QED BY <1>3, <2>1 DEF ForeignExits, TypeOK, daemonVars
  <1> QED BY <1>1, <1>2, <1>3

LEMMA StepTyped ==
  ASSUME TypeOK, [Next]_vars
  PROVE  TypeOK'
  <1>1. CASE UNCHANGED vars
    BY <1>1 DEF vars, worldVars, daemonVars, TypeOK
  <1> QED BY <1>1, ThreadStepTyped, RequestTyped, DaemonTyped, ProcessTyped DEF Next

\* Every record of the model keeps its shape (TypeOK), for any number of ADKs,
\* pids, administrator calls and launches.
THEOREM TypeCorrect == Spec => []TypeOK
BY InitTypeOK, StepTyped, PTL DEF Spec
-----------------------------------------------------------------------------
(* What each step does to the threads and the supervisors *)

\* No thread but t moves.
Frame(t) == \A s \in Thread : s # t => thread'[s] = thread[s]

\* No supervisor gets or loses a process.
SupsStay ==
    \A n \in Nonce : sup'[n].pid = sup[n].pid /\ sup'[n].adk = sup[n].adk
                      /\ sup'[n].exited = sup[n].exited

LEMMA ContinueEffect ==
  ASSUME TypeOK, NEW t \in Thread, Continue(t)
  PROVE  /\ Frame(t)
         /\ \/ thread'[t] = Idle
            \/ /\ thread'[t].pc = "judge" /\ thread'[t].do = "start"
               /\ thread[t].do = "switch" /\ thread'[t].adk = thread[t].adk
            \/ /\ thread'[t].pc = "launch" /\ thread'[t].do = "start"
               /\ thread[t].do = "start" /\ thread'[t].adk = thread[t].adk
  <1>1. thread' = [thread EXCEPT ![t] = Continued(thread[t])] /\ thread[t] \in Threads
    BY ContinueTyped DEF TypeOK
  <1>2. Frame(t) /\ thread'[t] = Continued(thread[t])
    BY <1>1 DEF Frame, TypeOK
  <1> DEFINE k == thread[t]
  <1> HIDE DEF k
  <1>3. k \in Threads /\ thread'[t] = Continued(k)
    BY <1>1, <1>2 DEF k
  <1>4. CASE k.do = "switch"
    <2>1. thread'[t] = [k EXCEPT !.pc = "judge", !.do = "start"]
      BY <1>3, <1>4 DEF Continued
    <2>2. thread'[t].pc = "judge" /\ thread'[t].do = "start" /\ thread'[t].adk = k.adk
      BY <1>3, <2>1 DEF Threads
    <2> QED BY <1>2, <1>4, <2>2 DEF k
  <1>5. CASE k.do = "start"
    <2>1. thread'[t] = [k EXCEPT !.pc = "launch"]
      BY <1>3, <1>5 DEF Continued
    <2>2. thread'[t].pc = "launch" /\ thread'[t].do = "start" /\ thread'[t].adk = k.adk
      BY <1>3, <1>5, <2>1 DEF Threads
    <2> QED BY <1>2, <1>5, <2>2 DEF k
  <1>6. CASE k.do \notin {"switch", "start"}
    BY <1>2, <1>3, <1>6 DEF Continued
  <1> QED BY <1>4, <1>5, <1>6

LEMMA TerminateEffect ==
  ASSUME TypeOK, NEW t \in Thread, Terminate(t)
  PROVE  /\ Frame(t)
         /\ thread'[t].pc = "termed" /\ thread'[t].do = thread[t].do
         /\ thread'[t].adk = thread[t].adk
         /\ thread'[t].pid = lease[thread[t].adk].pid
         /\ thread[t].pc = "judge"
  BY DEF Terminate, Frame, TypeOK, Threads, At

LEMMA GoToEffect ==
  ASSUME TypeOK, NEW t \in Thread, NEW pc, GoTo(t, pc)
  PROVE  /\ Frame(t)
         /\ thread'[t].pc = pc /\ thread'[t].do = thread[t].do
         /\ thread'[t].adk = thread[t].adk /\ thread'[t].pid = thread[t].pid
         /\ thread'[t].nonce = thread[t].nonce
  BY DEF GoTo, Frame, TypeOK, Threads

LEMMA LaunchEffect ==
  ASSUME TypeOK, NEW t \in Thread, NEW p, NEW n \in Nonce, LeasedAs(t, p, n)
  PROVE  /\ Frame(t)
         /\ thread'[t].pc = "listen" /\ thread'[t].do = thread[t].do
         /\ thread'[t].adk = thread[t].adk /\ thread'[t].nonce = n
         /\ \A m \in Nonce : m # n => sup'[m] = sup[m]
         /\ sup'[n].adk = thread[t].adk /\ sup'[n].pid = p
         /\ ~sup'[n].open /\ ~sup'[n].exited
  <1>1. Frame(t) /\ thread'[t].do = thread[t].do /\ thread'[t].adk = thread[t].adk
    BY DEF LeasedAs, Frame, TypeOK, Threads
  <1>2. thread'[t].pc = "listen" /\ thread'[t].nonce = n
    BY DEF LeasedAs, TypeOK, Threads
  <1>3. /\ \A m \in Nonce : m # n => sup'[m] = sup[m]
        /\ sup'[n] = [NoSup EXCEPT !.adk = thread[t].adk, !.pid = p]
    BY DEF LeasedAs, TypeOK
  <1>4. sup'[n].adk = thread[t].adk /\ sup'[n].pid = p /\ ~sup'[n].open /\ ~sup'[n].exited
    BY <1>3 DEF NoSup
  <1> QED BY <1>1, <1>2, <1>3, <1>4

LEMMA EscalateEffect ==
  ASSUME TypeOK, NEW t \in Thread, Escalate(t)
  PROVE  /\ Frame(t)
         /\ thread[t].pc = "stop" /\ thread'[t].pc = "stop" /\ thread'[t].do = thread[t].do
         /\ thread'[t].nonce = thread[t].nonce
  BY DEF Escalate, Frame, TypeOK, Threads, At

LEMMA IdleEffect ==
  ASSUME TypeOK, NEW t \in Thread, NEW r, thread' = [thread EXCEPT ![t] = r]
  PROVE  Frame(t) /\ thread'[t] = r
  BY DEF Frame, TypeOK

LEMMA OpenEffect ==
  ASSUME TypeOK, NEW n \in Nonce, NEW b \in BOOLEAN, sup' = [sup EXCEPT ![n].open = b]
  PROVE  SupsStay /\ \A m \in Nonce : sup'[m].open => sup[m].open \/ (b /\ m = n)
  BY DEF SupsStay, TypeOK, Supervisors

LEMMA BeginStopEffect ==
  ASSUME TypeOK, NEW t \in Thread, NEW n \in Nonce, NEW do, NEW a, BeginStop(t, n, do, a)
  PROVE  /\ Frame(t)
         /\ thread'[t].pc \in {"stop", "stopped"} /\ thread'[t].do = do
         /\ thread'[t].nonce = n
         /\ SupsStay /\ \A m \in Nonce : sup'[m].open = sup[m].open
  <1>1. Frame(t) /\ thread'[t].pc \in {"stop", "stopped"} /\ thread'[t].do = do
        /\ thread'[t].nonce = n
    BY DEF BeginStop, Frame, TypeOK
  <1>2. SupsStay /\ \A m \in Nonce : sup'[m].open = sup[m].open
    BY DEF BeginStop, SupsStay, TypeOK, Supervisors
  <1> QED BY <1>1, <1>2

LEMMA ExitEffect ==
  ASSUME TypeOK, NEW p \in Pid, BrowserExits(p)
  PROVE  /\ proc[p].nonce \in Nonce /\ proc[p].adk \in Adk
         /\ proc'[p] = NoProc /\ \A q \in Pid : q # p => proc'[q] = proc[q]
         /\ \A m \in Nonce : /\ sup'[m].pid = sup[m].pid /\ sup'[m].adk = sup[m].adk
                             /\ sup'[m].open = sup[m].open
                             /\ sup'[m].exited # sup[m].exited => 
                                   m = proc[p].nonce /\ sup[m].pid = p
         /\ \A a \in Adk : lease'[a] = lease[a]
               \/ (lease'[a] = NoLease /\ sup[proc[p].nonce].pid = p
                    /\ a = sup[proc[p].nonce].adk)
  <1> DEFINE n == proc[p].nonce
  <1>1. n \in Nonce /\ proc[p].adk \in Adk
    BY ProcFields DEF BrowserExits, TypeOK
  <1>2. proc'[p] = NoProc /\ \A q \in Pid : q # p => proc'[q] = proc[q]
    BY DEF BrowserExits, TypeOK
  <1>3. CASE sup[n].pid = p
    <2>1. sup' = [sup EXCEPT ![n].exited = TRUE] /\ RemoveLease(sup[n].adk)
      BY <1>3 DEF BrowserExits
    <2> HIDE DEF n
    <2>2. \A m \in Nonce : /\ sup'[m].pid = sup[m].pid /\ sup'[m].adk = sup[m].adk
                           /\ sup'[m].open = sup[m].open
                           /\ sup'[m].exited # sup[m].exited => m = n
      BY <1>1, <2>1 DEF TypeOK, Supervisors
    <2>3. \A a \in Adk : lease'[a] = lease[a] \/ (lease'[a] = NoLease /\ a = sup[n].adk)
      BY <2>1 DEF RemoveLease, TypeOK
    <2> QED BY <1>1, <1>2, <1>3, <2>2, <2>3 DEF n
  <1>4. CASE sup[n].pid # p
    BY <1>1, <1>2, <1>4 DEF BrowserExits
  <1> QED BY <1>3, <1>4

LEMMA ForeignEffect ==
  ASSUME TypeOK, NEW p \in Pid, ForeignStarts(p) \/ ForeignExits(p)
  PROVE  /\ proc[p].nonce = 0 /\ proc'[p].nonce = 0
         /\ \A q \in Pid : q # p => proc'[q] = proc[q]
         /\ doomed \ {p} \subseteq doomed'
         /\ UNCHANGED <<lease, launches, lost, harmed, daemonVars, thread>>
  <1>1. CASE ForeignStarts(p)
    BY <1>1, NullsTyped DEF ForeignStarts, TypeOK, Alive
  <1>2. CASE ForeignExits(p)
    BY <1>2, NullsTyped, ProcFields DEF ForeignExits, TypeOK
  <1> QED BY <1>1, <1>2

-----------------------------------------------------------------------------
(* The invariant *)

\* What the platform and the administrator must grant: SIGKILL works before its
\* grace ends, a process shows its marker, and calls come one at a time.
Platform == KillIsPrompt /\ CanVerify /\ \A j, k \in Call : j = k

LEMMA InitIInv ==
  ASSUME Init
  PROVE  IInv
  <1>1. TypeOK
    BY InitTypeOK
  <1>2. /\ \A p \in Pid : proc[p].nonce = 0 /\ ~proc[p].foreign
        /\ \A t \in Thread : thread[t] = Idle /\ thread[t].pc = "idle"
        /\ \A n \in Nonce : sup[n] = NoSup /\ sup[n].pid = NoPid /\ ~sup[n].open
    BY NullsTyped DEF Init
  <1>3. launches = 0 /\ lost = {} /\ harmed = {} /\ current = 0 /\ ~up /\ ~closing
    BY DEF Init
  <1>4. DownIsClean /\ NoncesIssued /\ HandlesExist /\ HandleKnows
    BY <1>2, <1>3 DEF DownIsClean, NoncesIssued, HandlesExist, HandleKnows, Handle
  <1>5. MainAlone /\ LaunchingWithoutCurrent /\ SoleOnes /\ \A t \in Thread : ThreadInv(t)
    BY <1>2, <1>3 DEF MainAlone, LaunchingWithoutCurrent, SoleOnes, ThreadInv, Launching, Busy,
       Thread
  <1>6. EveryBrowserIsLeased /\ NoForeignTerm
    BY <1>2, <1>3 DEF EveryBrowserIsLeased, NoForeignTerm
  <1> QED BY <1>1, <1>4, <1>5, <1>6 DEF IInv

\* A step that moves one thread, and may remove leases and open or close sockets,
\* but starts and ends no process.
LEMMA ThreadMove ==
  ASSUME IInv, TypeOK', NEW t \in Thread, up', Frame(t), SupsStay,
         \A m \in Nonce : sup'[m].open => Handle(m),
         UNCHANGED <<proc, launches, lost>>, doomed \subseteq doomed', closing => closing',
         \A a \in Adk : lease'[a] = lease[a] \/ lease'[a] = NoLease,
         current' # 0 => Handle(current') /\ Sole(current'),
         MainAlone', LaunchingWithoutCurrent', ThreadInv(t)',
         EveryBrowserIsLeased', NoForeignTerm'
  PROVE  IInv'
  <1>1. DownIsClean'
    BY DEF DownIsClean
  <1>2. NoncesIssued' /\ HandlesExist' /\ HandleKnows'
    <2>1. current' \in {0} \cup Nonce
      BY DEF TypeOK
    <2> QED BY <2>1 DEF IInv, NoncesIssued, HandlesExist, HandleKnows, Handle, SupsStay
  <1>3. /\ \A p \in Pid : \A a : Unlost(p, a)' <=> Unlost(p, a)
        /\ \A n \in Nonce : Handle(n)' <=> Handle(n)
        /\ \A n \in Nonce : Sole(n)' <=> Sole(n)
    BY DEF Unlost, Sole, Handle, SupsStay
  <1>4. SoleOnes'
    BY <1>3 DEF IInv, SoleOnes, TypeOK
  <1>5. ASSUME NEW s \in Thread, s # t PROVE ThreadInv(s)'
    <2>1. thread'[s] = thread[s] /\ ThreadInv(s) /\ thread[s] \in Threads
      BY <1>5 DEF Frame, IInv, TypeOK
    <2>2. thread[s].pc \in {"listen", "stop"} =>
             Handle(thread[s].nonce)' /\ Sole(thread[s].nonce)'
      BY <2>1, <1>3, ThreadFields DEF ThreadInv
    <2>3. thread[s].pc = "launch" => Cleared(thread[s].adk)'
      BY <2>1, <1>3 DEF ThreadInv, Cleared
    <2>4. thread[s].pc \in {"termed", "killed"} => ReclaimIsCurrent(s)'
      BY <2>1, <1>3, ThreadFields, NullsTyped DEF ThreadInv, ReclaimIsCurrent
    <2> QED BY <2>1, <2>2, <2>3, <2>4 DEF ThreadInv
  <1> QED BY <1>1, <1>2, <1>4, <1>5 DEF IInv

\* The end of the daemon's process.
LEMMA DieIInv ==
  ASSUME IInv, TypeOK', Die, NoncesIssued', EveryBrowserIsLeased', NoForeignTerm'
  PROVE  IInv'
  <1>1. /\ \A t \in Thread : thread'[t] = Idle /\ thread'[t].pc = "idle"
        /\ \A n \in Nonce : sup'[n] = NoSup /\ sup'[n].pid = NoPid /\ ~sup'[n].open
        /\ current' = 0 /\ ~up' /\ ~closing' /\ lost' \subseteq Nonce
    BY NullsTyped DEF Die, TypeOK
  <1>2. DownIsClean' /\ HandlesExist' /\ HandleKnows'
    BY <1>1 DEF DownIsClean, HandlesExist, HandleKnows, Handle
  <1>3. MainAlone' /\ LaunchingWithoutCurrent' /\ SoleOnes' /\ \A t \in Thread : ThreadInv(t)'
    BY <1>1 DEF MainAlone, LaunchingWithoutCurrent, SoleOnes, ThreadInv, Launching, Busy,
       Thread, Handle
  <1> QED BY <1>2, <1>3 DEF IInv

LEMMA DaemonEnds ==
  ASSUME IInv, TypeOK', Die, UNCHANGED worldVars
  PROVE  IInv'
  <1>1. NoncesIssued'
    <2>1. \A n \in Nonce : sup'[n].pid = NoPid
      BY NullsTyped DEF Die
    <2> QED BY <2>1 DEF worldVars, IInv, NoncesIssued, Handle
  <1>2. EveryBrowserIsLeased' /\ NoForeignTerm'
    BY DEF worldVars, IInv, EveryBrowserIsLeased, NoForeignTerm
  <1> QED BY <1>1, <1>2, DieIInv

\* While a thread reclaims or launches, no other does, and only a shutdown stops.
LEMMA Exclusive ==
  ASSUME IInv, Platform, NEW s \in Thread, NEW t \in Thread, s # t, Busy(t) \/ Launching(t)
  PROVE  /\ ~Busy(s) /\ ~Launching(s)
         /\ thread[s].pc \in {"stop", "stopped"} => closing
  <1>1. CASE t = Main
    <2>1. Busy(Main)
      BY <1>1 DEF IInv, MainAlone, Launching, Busy
    <2>2. thread[s] = Idle
      BY <1>1, <2>1 DEF IInv, MainAlone, Thread
    <2> QED BY <2>2, NullsTyped DEF Busy, Launching
  <1>2. CASE s = Main
    <2>1. ~Busy(Main)
      <3>1. thread[t] # Idle
        BY NullsTyped DEF Busy, Launching
      <3> QED BY <1>2, <3>1 DEF IInv, MainAlone, Thread
    <2>2. ~Launching(Main)
      BY <2>1 DEF IInv, MainAlone, Launching, Busy
    <2> QED BY <1>2, <2>1, <2>2 DEF IInv, MainAlone
  <1> QED BY <1>1, <1>2 DEF Platform, Thread

\* A lease that is not judged a match names no browser.
LEMMA JudgedCleared ==
  ASSUME IInv, Platform, NEW a \in Adk, Verdict(lease[a]) # "match"
  PROVE  Cleared(a)
  <1> SUFFICES ASSUME NEW p \in Pid, Unlost(p, a)
               PROVE  FALSE
    BY DEF Cleared
  <1>1. lease[a] = LeaseOf(p, proc[p].nonce) /\ proc[p].nonce # 0
    BY DEF IInv, EveryBrowserIsLeased, Unlost
  <1>2. Alive(p)
    BY <1>1, NullsTyped DEF Alive
  <1> QED BY <1>1, <1>2 DEF Verdict, LeaseOf, HasMarker, Platform

\* A reclaim that ends leaves no browser of its ADK.
LEMMA ReclaimedCleared ==
  ASSUME IInv, Platform, NEW t \in Thread, Reclaimed(t)
  PROVE  Cleared(thread[t].adk)
  <1> DEFINE a == thread[t].adk
  <1>1. a \in Adk /\ thread[t].pid \in Pid
    BY ThreadFields DEF Reclaimed, At, IInv, TypeOK
  <1>2. ReclaimIsCurrent(t)
    BY DEF Reclaimed, At, IInv, ThreadInv
  <1> SUFFICES ASSUME NEW p \in Pid, Unlost(p, a)
               PROVE  FALSE
    BY DEF Cleared
  <1>3. lease[a] = LeaseOf(p, proc[p].nonce) /\ proc[p].nonce # 0
    BY <1>1 DEF IInv, EveryBrowserIsLeased, Unlost
  <1>4. thread[t].pid = p /\ Alive(p)
    BY <1>2, <1>3, NullsTyped DEF ReclaimIsCurrent, LeaseOf, Alive
  <1> QED BY <1>2, <1>4 DEF Reclaimed, ReclaimIsCurrent, At, Platform

LEMMA LeaseRemoved ==
  ASSUME IInv, NEW a \in Adk, Cleared(a), RemoveLease(a) \/ UNCHANGED lease, UNCHANGED <<proc, lost>>
  PROVE  /\ EveryBrowserIsLeased'
         /\ \A b \in Adk : lease'[b] = lease[b] \/ lease'[b] = NoLease
  <1>1. \A b \in Adk : lease'[b] = lease[b] \/ (b = a /\ lease'[b] = NoLease)
    BY DEF RemoveLease, IInv, TypeOK
  <1>2. ASSUME NEW p \in Pid, proc[p].nonce # 0, proc[p].nonce \notin lost
        PROVE  lease'[proc[p].adk] = LeaseOf(p, proc[p].nonce)
    <2>1. proc[p].adk \in Adk
      BY <1>2, ProcFields DEF IInv, TypeOK
    <2>2. proc[p].adk # a
      BY <1>2 DEF Cleared, Unlost
    <2> QED BY <1>1, <1>2, <2>1, <2>2 DEF IInv, EveryBrowserIsLeased
  <1> QED BY <1>1, <1>2 DEF EveryBrowserIsLeased

\* The start of the daemon goes on, or ends.
LEMMA MainMoves ==
  ASSUME IInv, Frame(Main), Busy(Main), Busy(Main)' \/ thread'[Main] = Idle, UNCHANGED closing,
         thread'[Main] # Idle => \A n \in Nonce : sup'[n].open => sup[n].open
  PROVE  MainAlone'
  <1>1. CASE thread'[Main] = Idle
    BY <1>1, NullsTyped DEF MainAlone, Busy
  <1>2. CASE thread'[Main] # Idle
    <2>1. Busy(Main)'
      BY <1>2
    <2>2. \A t \in Call : t \in Thread /\ t # Main
      BY HostAssumption DEF Thread
    <2>3. \A t \in Call : thread'[t] = Idle
      BY <2>2 DEF Frame, IInv, MainAlone
    <2> QED BY <1>2, <2>1, <2>3 DEF IInv, MainAlone, Busy
  <1> QED BY <1>1, <1>2

\* A call cannot run beside the start of the daemon.
LEMMA CallMoves ==
  ASSUME IInv, NEW t \in Thread, t # Main, Frame(t), closing => closing',
         thread[t].pc # "idle" \/ Reachable
  PROVE  MainAlone'
  <1>1. thread'[Main] = thread[Main]
    BY DEF Frame, Thread
  <1>2. ~Busy(Main)
    BY NullsTyped DEF IInv, MainAlone, Reachable, Thread
  <1> QED BY <1>1, <1>2 DEF IInv, MainAlone, Busy

LEMMA StillWithoutCurrent ==
  ASSUME IInv, NEW t \in Thread, Frame(t), closing => closing', current' \in {0, current},
         Launching(t)' => Launching(t) \/ current' = 0
  PROVE  LaunchingWithoutCurrent'
  <1>1. ASSUME NEW s \in Thread, Launching(s)', ~closing'
        PROVE  current' = 0
    <2>1. CASE s = t
      BY <1>1, <2>1 DEF IInv, LaunchingWithoutCurrent
    <2>2. CASE s # t
      BY <1>1, <2>2 DEF IInv, LaunchingWithoutCurrent, Frame, Launching
    <2> QED BY <2>1, <2>2
  <1> QED BY <1>1 DEF LaunchingWithoutCurrent

LEMMA BusyMoves ==
  ASSUME IInv, NEW t \in Thread, Frame(t), Busy(t), Busy(t)' \/ thread'[t] = Idle,
         UNCHANGED <<closing, sup>>
  PROVE  MainAlone'
  <1>1. CASE t = Main
    BY <1>1, MainMoves
  <1>2. CASE t # Main
    BY <1>2, CallMoves DEF Busy
  <1> QED BY <1>1, <1>2

LEMMA WorldSame ==
  ASSUME IInv, UNCHANGED <<proc, lost, lease>>
  PROVE  EveryBrowserIsLeased' /\ \A a \in Adk : lease'[a] = lease[a] \/ lease'[a] = NoLease
  BY DEF IInv, EveryBrowserIsLeased

LEMMA DaemonSame ==
  ASSUME IInv, UNCHANGED <<sup, current>>
  PROVE  /\ SupsStay /\ \A m \in Nonce : sup'[m].open => Handle(m)
         /\ current' # 0 => Handle(current') /\ Sole(current')
  BY DEF IInv, SupsStay, HandlesExist, SoleOnes

\* A reconciliation that ends: by judgement, or after a reclaim.
LEMMA ReconciledIInv ==
  ASSUME IInv, TypeOK', NEW t \in Thread, At(t, "judge") \/ At(t, "termed") \/ At(t, "killed"),
         Cleared(thread[t].adk), Continue(t),
         RemoveLease(thread[t].adk) \/ UNCHANGED lease,
         UNCHANGED <<proc, doomed, launches, lost, harmed, daemonVars>>
  PROVE  IInv'
  <1> DEFINE a == thread[t].adk
  <1>1. a \in Adk /\ TypeOK
    BY ThreadFields DEF At, IInv, TypeOK
  <1>2. /\ Frame(t)
        /\ \/ thread'[t] = Idle
           \/ /\ thread'[t].pc = "judge" /\ thread'[t].do = "start"
              /\ thread[t].do = "switch" /\ thread'[t].adk = thread[t].adk
           \/ /\ thread'[t].pc = "launch" /\ thread'[t].do = "start"
              /\ thread[t].do = "start" /\ thread'[t].adk = thread[t].adk
    BY <1>1, ContinueEffect
  <1>3. EveryBrowserIsLeased' /\ \A b \in Adk : lease'[b] = lease[b] \/ lease'[b] = NoLease
    BY <1>1, LeaseRemoved
  <1>4. UNCHANGED <<up, closing, sup, current>> /\ up'
    BY DEF daemonVars, At
  <1>5. MainAlone'
    BY <1>2, <1>4, BusyMoves DEF At, Busy
  <1>6. LaunchingWithoutCurrent'
    BY <1>2, <1>4, StillWithoutCurrent, NullsTyped DEF At, Launching
  <1>7. ThreadInv(t)'
    <2>1. \A b : Cleared(b) => Cleared(b)'
      BY DEF Cleared, Unlost
    <2> QED BY <1>2, <2>1, NullsTyped DEF ThreadInv
  <1>8. NoForeignTerm'
    BY DEF IInv, NoForeignTerm
  <1> QED BY <1>2, <1>3, <1>4, <1>5, <1>6, <1>7, <1>8, DaemonSame, ThreadMove

LEMMA TerminateIInv ==
  ASSUME IInv, TypeOK', Platform, NEW t \in Thread, Terminate(t)
  PROVE  IInv'
  <1> DEFINE l == lease[thread[t].adk]
  <1>0. TypeOK /\ thread[t].adk \in Adk
    BY ThreadFields DEF Terminate, At, IInv, TypeOK
  <1>1. l \in Leases /\ Verdict(l) = "match"
    BY <1>0 DEF TypeOK, Terminate
  <1>2. l.kind = "lease" /\ l.pid \in Pid /\ l.nonce \in Nonce /\ proc[l.pid].nonce = l.nonce
    BY <1>1, MatchMeans, LeaseFields DEF HasMarker
  <1>3. /\ Frame(t)
        /\ thread'[t].pc = "termed" /\ thread'[t].do = thread[t].do
        /\ thread'[t].adk = thread[t].adk /\ thread'[t].pid = l.pid
        /\ thread[t].pc = "judge"
    BY <1>0, TerminateEffect
  <1>4. UNCHANGED <<up, closing, sup, current, proc, lost, lease, launches, doomed>> /\ up'
    BY DEF Terminate, daemonVars, At
  <1>5. MainAlone'
    BY <1>3, <1>4, BusyMoves DEF Busy
  <1>6. LaunchingWithoutCurrent'
    BY <1>3, <1>4, StillWithoutCurrent DEF Launching
  <1>7. ThreadInv(t)'
    BY <1>3, <1>4 DEF ThreadInv, ReclaimIsCurrent
  <1>8. NoForeignTerm'
    <2>1. ~proc[l.pid].foreign
      BY <1>2, ProcFields, HostAssumption DEF IInv, TypeOK, Nonce
    <2> QED BY <2>1 DEF Terminate, IInv, NoForeignTerm
  <1> QED BY <1>3, <1>4, <1>5, <1>6, <1>7, <1>8, DaemonSame, WorldSame, ThreadMove

LEMMA KillIInv ==
  ASSUME IInv, TypeOK', NEW t \in Thread, KillAfterGrace(t)
  PROVE  IInv'
  <1>0. TypeOK /\ thread[t].pc = "termed"
    BY DEF KillAfterGrace, At, IInv
  <1>3. /\ Frame(t)
        /\ thread'[t].pc = "killed" /\ thread'[t].do = thread[t].do
        /\ thread'[t].adk = thread[t].adk /\ thread'[t].pid = thread[t].pid
    BY <1>0, GoToEffect DEF KillAfterGrace
  <1>4. /\ UNCHANGED <<up, closing, sup, current, proc, lost, lease, launches>> /\ up'
        /\ doomed' = doomed \cup {thread[t].pid}
    BY DEF KillAfterGrace, daemonVars, At
  <1>5. MainAlone'
    BY <1>0, <1>3, <1>4, BusyMoves DEF Busy
  <1>6. LaunchingWithoutCurrent'
    BY <1>0, <1>3, <1>4, StillWithoutCurrent DEF Launching
  <1>7. ThreadInv(t)'
    <2>1. ReclaimIsCurrent(t)
      BY <1>0 DEF IInv, ThreadInv
    <2> QED BY <2>1, <1>3, <1>4 DEF ThreadInv, ReclaimIsCurrent
  <1>8. NoForeignTerm'
    BY DEF KillAfterGrace, IInv, NoForeignTerm
  <1> QED BY <1>3, <1>4, <1>5, <1>6, <1>7, <1>8, DaemonSame, WorldSame, ThreadMove

LEMMA FailIInv ==
  ASSUME IInv, TypeOK', NEW t \in Thread, Fail(t), UNCHANGED worldVars, thread[t].pc # "idle", up
  PROVE  IInv'
  <1>1. CASE t = Main
    BY <1>1, DaemonEnds DEF Fail
  <1>2. CASE t # Main
    <2>1. Frame(t) /\ thread'[t] = Idle
      BY <1>2, IdleEffect DEF Fail, IInv
    <2>2. UNCHANGED <<up, closing, sup, current, proc, lost, lease, launches, doomed, harmed>> /\ up'
      BY <1>2 DEF Fail, worldVars, daemonVars
    <2>3. MainAlone'
      BY <1>2, <2>1, <2>2, CallMoves
    <2>4. LaunchingWithoutCurrent' /\ ThreadInv(t)'
      BY <2>1, <2>2, StillWithoutCurrent, NullsTyped DEF Launching, ThreadInv
    <2>5. NoForeignTerm'
      BY <2>2 DEF IInv, NoForeignTerm
    <2> QED BY <2>1, <2>2, <2>3, <2>4, <2>5, DaemonSame, WorldSame, ThreadMove
  <1> QED BY <1>1, <1>2

LEMMA LaunchIInv ==
  ASSUME IInv, TypeOK', Platform, NEW t \in Thread, Launch(t)
  PROVE  IInv'
  <1> DEFINE a == thread[t].adk
  <1>0. TypeOK /\ a \in Adk /\ up /\ thread[t].pc = "launch" /\ Busy(t)
    <2>1. TypeOK /\ up /\ thread[t].pc = "launch"
      BY DEF Launch, At, IInv
    <2> QED BY <2>1, ThreadFields DEF TypeOK, Busy
  <1>m. PICK n \in Nonce : n = launches + 1
    BY <1>0, HostAssumption DEF Launch, TypeOK, Nonce
  <1>p. PICK p \in Pid : SpawnedAs(t, p, n)
    BY <1>m DEF Launch, SpawnedAs, LeasedAs
  <1>l. launches' = n /\ UNCHANGED <<doomed, harmed>>
    BY <1>m DEF Launch
  <1>n. /\ \A m \in Nonce : m <= launches => m # n /\ m <= n
        /\ n # 0
        /\ launches \in Nat
    BY HostAssumption, <1>0, <1>m DEF TypeOK, Nonce
  <1>1. /\ proc'[p] = Browser(a, n) /\ proc'[p].nonce = n /\ proc'[p].adk = a /\ ~proc'[p].foreign
        /\ \A q \in Pid : q # p => proc'[q] = proc[q]
    BY <1>p, <1>0 DEF SpawnedAs, TypeOK, Browser
  <1>2. \A q \in Pid : proc[q].nonce # n
    BY <1>n, <1>0, ProcFields DEF IInv, NoncesIssued, TypeOK
  <1>c. Cleared(a) /\ \A m \in Nonce : Handle(m) => m # n
    BY <1>0, <1>n DEF IInv, ThreadInv, NoncesIssued
  <1>3. CASE Die /\ lost' = lost \cup {n} /\ UNCHANGED lease
    <2>1. NoncesIssued'
      <3>1. \A m \in Nonce : sup'[m].pid = NoPid
        BY <1>3, NullsTyped DEF Die
      <3>2. \A q \in Pid : proc'[q].nonce <= n /\ (proc'[q].foreign => proc'[q].nonce = 0)
        BY <1>0, <1>n, <1>1, ProcFields DEF IInv, NoncesIssued, TypeOK, Nonce
      <3>3. \A m \in lost' : m <= n
        BY <1>0, <1>3, <1>n DEF IInv, NoncesIssued, TypeOK, Nonce
      <3> QED BY <3>1, <3>2, <3>3, <1>l DEF NoncesIssued, Handle
    <2>2. EveryBrowserIsLeased'
      BY <1>3, <1>1 DEF IInv, EveryBrowserIsLeased
    <2>3. NoForeignTerm'
      BY <1>l DEF IInv, NoForeignTerm
    <2> QED BY <1>3, <2>1, <2>2, <2>3, DieIInv
  <1>4. CASE LeasedAs(t, p, n)
    <2>1. /\ Frame(t)
          /\ thread'[t].pc = "listen" /\ thread'[t].do = thread[t].do
          /\ thread'[t].adk = a /\ thread'[t].nonce = n
          /\ \A m \in Nonce : m # n => sup'[m] = sup[m]
          /\ sup'[n].adk = a /\ sup'[n].pid = p
          /\ ~sup'[n].open /\ ~sup'[n].exited
      BY <1>4, <1>0, LaunchEffect
    <2>2. /\ UNCHANGED <<up, closing, current, currentAdk>>
          /\ lease' = [lease EXCEPT ![a] = LeaseOf(p, n)]
          /\ lost' = lost \cup (IF closing THEN {n} ELSE {})
      BY <1>4 DEF LeasedAs
    <2>3. DownIsClean'
      BY <1>0, <2>2 DEF DownIsClean
    <2>4. NoncesIssued'
      <3>1. \A q \in Pid : proc'[q].nonce <= n /\ (proc'[q].foreign => proc'[q].nonce = 0)
        BY <1>0, <1>n, <1>1, ProcFields DEF IInv, NoncesIssued, TypeOK, Nonce
      <3>2. \A m \in Nonce : Handle(m)' => m <= n
        BY <1>0, <1>n, <2>1 DEF IInv, NoncesIssued, Handle, Nonce
      <3>3. \A m \in lost' : m <= n
        BY <1>0, <2>2, <1>n DEF IInv, NoncesIssued, TypeOK, Nonce
      <3> QED BY <3>1, <3>2, <3>3, <1>l DEF NoncesIssued
    <2>h. \A m \in Nonce : Handle(m) => Handle(m)' /\ m # n
      BY <1>c, <2>1 DEF Handle
    <2>5. HandlesExist'
      BY <2>1, <2>2, <2>h DEF IInv, HandlesExist, TypeOK
    <2>6. HandleKnows'
      BY <1>0, <1>1, <1>2, <2>1 DEF IInv, HandleKnows, Handle
    <2>7. MainAlone'
      <3>1. CASE t = Main
        BY <1>0, <2>1, <2>2, <3>1, MainMoves DEF Busy
      <3>2. CASE t # Main
        BY <1>0, <2>1, <2>2, <3>2, CallMoves
      <3> QED BY <3>1, <3>2
    <2>8. LaunchingWithoutCurrent'
      BY <1>0, <2>1, <2>2, StillWithoutCurrent DEF Launching
    <2>9. \A q \in Pid : \A b : Unlost(q, b)' =>
             \/ q # p /\ Unlost(q, b) /\ proc'[q] = proc[q]
             \/ q = p /\ b = a /\ ~closing
      BY <1>1, <2>2 DEF Unlost
    <2>10. \A m \in Nonce : Handle(m) /\ Sole(m) /\ closing => Sole(m)'
      <3> SUFFICES ASSUME NEW m \in Nonce, Handle(m), Sole(m), closing,
                          NEW q \in Pid, Unlost(q, sup[m].adk)'
                   PROVE  proc'[q].nonce = m
        BY DEF Sole
      <3>1. sup'[m] = sup[m]
        BY <2>h, <2>1
      <3>2. Unlost(q, sup[m].adk) /\ proc'[q] = proc[q]
        BY <2>9, <3>1 DEF Unlost
      <3> QED BY <3>1, <3>2 DEF Sole
    <2>11. Sole(n)'
      <3> SUFFICES ASSUME NEW q \in Pid, Unlost(q, sup[n].adk)'
                   PROVE  proc'[q].nonce = n
        BY DEF Sole
      <3>1. Unlost(q, a) \/ q = p
        BY <2>1, <2>9 DEF Unlost
      <3> QED BY <3>1, <1>1, <1>c DEF Cleared
    <2>12. SoleOnes'
      <3>1. current' # 0 => Sole(current)'
        <4>1. CASE closing
          <5>1. current # 0 => current \in Nonce /\ Handle(current) /\ Sole(current)
            BY <1>0 DEF IInv, HandlesExist, SoleOnes, TypeOK
          <5> QED BY <4>1, <5>1, <2>2, <2>10 DEF Sole
        <4>2. CASE ~closing
          BY <4>2, <1>0, <2>2 DEF IInv, LaunchingWithoutCurrent, Launching
        <4> QED BY <4>1, <4>2
      <3>2. ASSUME NEW m \in lost', Handle(m)' PROVE closing' /\ Sole(m)'
        <4>1. CASE m = n
          <5>1. closing
            BY <1>0, <1>n, <2>2, <4>1 DEF IInv, NoncesIssued, TypeOK
          <5> QED BY <4>1, <5>1, <2>2, <2>11
        <4>2. CASE m # n
          <5>1. m \in lost /\ m \in Nonce
            BY <1>0, <2>2, <4>2 DEF TypeOK
          <5>2. Handle(m)
            BY <2>1, <3>2, <4>2, <5>1 DEF Handle
          <5> QED BY <5>1, <5>2, <2>2, <2>10 DEF IInv, SoleOnes
        <4> QED BY <4>1, <4>2
      <3> QED BY <3>1, <3>2 DEF SoleOnes
    <2>13. ASSUME NEW s \in Thread PROVE ThreadInv(s)'
      <3>1. CASE s = t
        <4>1. thread'[t].nonce = n /\ thread'[t].pc = "listen" /\ sup'[n].pid # NoPid
          BY <2>1, HostAssumption
        <4>2. Handle(thread[t].nonce)' /\ Sole(thread[t].nonce)'
          BY <4>1, <2>11 DEF Handle, Sole
        <4> QED BY <3>1, <4>1, <4>2 DEF ThreadInv
      <3>2. CASE s # t
        <4>1. thread'[s] = thread[s] /\ ~Busy(s) /\ (thread[s].pc = "stop" => closing)
          BY <3>2, <1>0, <2>1, Exclusive DEF Frame
        <4>2. thread[s].pc = "stop" => Handle(thread[s].nonce)' /\ Sole(thread[s].nonce)'
          <5>1. thread[s].pc = "stop" =>
                  /\ thread[s].nonce \in Nonce
                  /\ Handle(thread[s].nonce) /\ Sole(thread[s].nonce)
            BY <1>0, ThreadFields DEF IInv, ThreadInv, TypeOK
          <5> DEFINE m == thread[s].nonce
          <5>2. thread'[s].nonce = m
            BY <4>1
          <5> HIDE DEF m
          <5>3. thread[s].pc = "stop" => m \in Nonce /\ Handle(m) /\ Sole(m) /\ closing
            BY <4>1, <5>1 DEF m
          <5>4. \A o \in Nonce : o = m /\ thread[s].pc = "stop" => Handle(o)' /\ Sole(o)'
            BY <5>3, <2>h, <2>10
          <5> QED BY <5>2, <5>3, <5>4 DEF Handle, Sole
        <4> QED BY <4>1, <4>2 DEF ThreadInv, Busy
      <3> QED BY <3>1, <3>2
    <2>14. EveryBrowserIsLeased'
      <3> SUFFICES ASSUME NEW q \in Pid, proc'[q].nonce # 0, proc'[q].nonce \notin lost'
                   PROVE  lease'[proc'[q].adk] = LeaseOf(q, proc'[q].nonce)
        BY DEF EveryBrowserIsLeased
      <3>1. CASE q = p
        BY <3>1, <1>0, <1>1, <2>2 DEF TypeOK
      <3>2. CASE q # p
        <4>1. proc'[q] = proc[q] /\ proc[q].nonce # 0 /\ proc[q].nonce \notin lost
          BY <3>2, <1>1, <2>2
        <4>2. proc[q].adk \in Adk /\ proc[q].adk # a
          BY <4>1, <1>c, <1>0, ProcFields DEF Cleared, Unlost, TypeOK
        <4>3. lease'[proc[q].adk] = lease[proc[q].adk]
          BY <4>2, <2>2, <1>0 DEF TypeOK
        <4> QED BY <4>1, <4>3 DEF IInv, EveryBrowserIsLeased
      <3> QED BY <3>1, <3>2
    <2>15. NoForeignTerm'
      BY <1>l DEF IInv, NoForeignTerm
    <2> QED BY <2>3, <2>4, <2>5, <2>6, <2>7, <2>8, <2>12, <2>13, <2>14, <2>15 DEF IInv
  <1> QED BY <1>p, <1>3, <1>4 DEF SpawnedAs

LEMMA ListenIInv ==
  ASSUME IInv, TypeOK', Platform, NEW t \in Thread, Listen(t)
  PROVE  IInv'
  <1>1. PICK n \in Nonce : n = thread[t].nonce /\ Handle(n) /\ Sole(n)
    BY ThreadFields DEF Listen, At, IInv, ThreadInv, TypeOK
  <1>2. TypeOK /\ up /\ thread[t].pc = "listen"
    BY DEF Listen, At, IInv
  <1>3. Frame(t) /\ thread'[t] = Idle
    BY <1>2, IdleEffect DEF Listen
  <1>4. SupsStay /\ \A m \in Nonce : sup'[m].open => sup[m].open \/ m = n
    BY <1>1, <1>2, OpenEffect DEF Listen
  <1>5. UNCHANGED <<worldVars, up, closing>> /\ current' = n
    BY <1>1 DEF Listen
  <1>6. MainAlone'
    <2>1. CASE t = Main
      BY <1>2, <1>3, <1>5, <2>1, MainMoves DEF Busy
    <2>2. CASE t # Main
      BY <1>2, <1>3, <1>5, <2>2, CallMoves
    <2> QED BY <2>1, <2>2
  <1>7. LaunchingWithoutCurrent'
    <2>1. ASSUME NEW s \in Thread PROVE ~Launching(s)'
      <3>1. CASE s = t
        BY <3>1, <1>3, NullsTyped DEF Launching
      <3>2. CASE s # t
        BY <3>2, <1>2, <1>3, Exclusive DEF Busy, Frame, Launching
      <3> QED BY <3>1, <3>2
    <2> QED BY <2>1 DEF LaunchingWithoutCurrent
  <1>8. ThreadInv(t)' /\ NoForeignTerm'
    BY <1>3, <1>5, NullsTyped DEF ThreadInv, worldVars, IInv, NoForeignTerm
  <1>9. \A m \in Nonce : sup'[m].open => Handle(m)
    BY <1>1, <1>4 DEF IInv, HandlesExist
  <1> QED BY <1>1, <1>2, <1>3, <1>4, <1>5, <1>6, <1>7, <1>8, <1>9, WorldSame, ThreadMove DEF worldVars

LEMMA EscalateIInv ==
  ASSUME IInv, TypeOK', NEW t \in Thread, Escalate(t)
  PROVE  IInv'
  <1>1. TypeOK /\ up
    BY DEF Escalate, At, IInv
  <1>2. /\ Frame(t)
        /\ thread[t].pc = "stop" /\ thread'[t].pc = "stop" /\ thread'[t].do = thread[t].do
        /\ thread'[t].nonce = thread[t].nonce
    BY <1>1, EscalateEffect
  <1>3. UNCHANGED <<proc, lease, launches, lost, harmed, daemonVars>> /\ doomed \subseteq doomed'
    BY DEF Escalate
  <1>4. MainAlone'
    <2>1. CASE t = Main
      BY <1>2, <1>3, <2>1 DEF IInv, MainAlone, Busy, daemonVars
    <2>2. CASE t # Main
      BY <1>2, <1>3, <2>2, CallMoves DEF daemonVars
    <2> QED BY <2>1, <2>2
  <1>5. LaunchingWithoutCurrent'
    BY <1>2, <1>3, StillWithoutCurrent DEF Launching, daemonVars
  <1>6. ThreadInv(t)' /\ NoForeignTerm'
    BY <1>2, <1>3 DEF IInv, ThreadInv, Handle, Sole, Unlost, daemonVars, NoForeignTerm
  <1> QED BY <1>1, <1>2, <1>3, <1>4, <1>5, <1>6, WorldSame, DaemonSame, ThreadMove DEF daemonVars

\* A stop that ends has no browser left to hide.
LEMMA FinishStopIInv ==
  ASSUME IInv, TypeOK', Platform, NEW t \in Thread, FinishStop(t)
  PROVE  IInv'
  <1>1. TypeOK /\ up /\ thread[t].pc = "stop"
    BY DEF FinishStop, StopEnds, At, IInv
  <1>2. PICK n \in Nonce : n = thread[t].nonce /\ Handle(n) /\ Sole(n)
    BY <1>1, ThreadFields DEF IInv, ThreadInv, TypeOK
  <1>3. sup[n].adk \in Adk /\ sup[n].exited
    <2>1. sup[n] \in Supervisors
      BY <1>1 DEF TypeOK
    <2> QED BY <2>1, <1>2 DEF Supervisors, Handle, FinishStop, StopEnds, Child, Platform
  <1>4. Cleared(sup[n].adk)
    <2> SUFFICES ASSUME NEW p \in Pid, Unlost(p, sup[n].adk)
                 PROVE  FALSE
      BY DEF Cleared
    <2>1. proc[p].nonce = n
      BY <1>2 DEF Sole
    <2> QED BY <2>1, <1>2, <1>3 DEF IInv, HandleKnows
  <1>5. /\ RemoveLease(sup[n].adk)
        /\ UNCHANGED <<proc, doomed, launches, lost, harmed, up, closing, current, currentAdk>>
    BY <1>2 DEF FinishStop
  <1>6. EveryBrowserIsLeased' /\ \A b \in Adk : lease'[b] = lease[b] \/ lease'[b] = NoLease
    BY <1>3, <1>4, <1>5, LeaseRemoved
  <1>7. SupsStay /\ \A m \in Nonce : sup'[m].open => sup[m].open
    BY <1>1, <1>2, OpenEffect DEF FinishStop
  <1>8. /\ Frame(t) /\ thread'[t].pc = "stopped" /\ thread'[t].do = thread[t].do
    BY <1>1, GoToEffect DEF FinishStop
  <1>9. MainAlone'
    <2>1. CASE t = Main
      BY <1>1, <1>5, <1>8, <2>1 DEF IInv, MainAlone, Busy
    <2>2. CASE t # Main
      BY <1>1, <1>5, <1>8, <2>2, CallMoves
    <2> QED BY <2>1, <2>2
  <1>10. LaunchingWithoutCurrent'
    BY <1>5, <1>8, StillWithoutCurrent DEF Launching
  <1>11. ThreadInv(t)' /\ NoForeignTerm'
    BY <1>5, <1>8 DEF IInv, ThreadInv, NoForeignTerm
  <1>12. /\ \A m \in Nonce : sup'[m].open => Handle(m)
         /\ current' # 0 => Handle(current') /\ Sole(current')
    BY <1>5, <1>7 DEF IInv, HandlesExist, SoleOnes
  <1> QED BY <1>1, <1>5, <1>6, <1>7, <1>8, <1>9, <1>10, <1>11, <1>12, ThreadMove

LEMMA StoppedIInv ==
  ASSUME IInv, TypeOK', NEW t \in Thread, Stopped(t)
  PROVE  IInv'
  <1>1. TypeOK /\ up /\ thread[t].pc = "stopped"
    BY DEF Stopped, At, IInv
  <1>2. CASE thread[t].do = "exit"
    BY <1>2, DaemonEnds DEF Stopped
  <1>3. CASE thread[t].do # "exit"
    <2>1. /\ thread' = [thread EXCEPT ![t] =
                 IF thread[t].do = "switch" THEN [thread[t] EXCEPT !.pc = "wait"] ELSE Idle]
          /\ current' = 0 /\ UNCHANGED <<up, closing, currentAdk, sup, worldVars>>
      BY <1>1, <1>3 DEF Stopped, TypeOK
    <2>2. Frame(t) /\ (thread'[t] = Idle \/ thread'[t].pc = "wait")
      <3>1. thread[t] \in Threads
        BY <1>1 DEF TypeOK
      <3>2. [thread[t] EXCEPT !.pc = "wait"].pc = "wait"
        BY <3>1 DEF Threads
      <3> QED BY <1>1, <2>1, <3>2, IdleEffect
    <2>3. t # Main
      BY <1>1, <1>3 DEF IInv, MainAlone
    <2>4. MainAlone'
      BY <1>1, <2>1, <2>2, <2>3, CallMoves
    <2>5. LaunchingWithoutCurrent'
      BY <2>1 DEF LaunchingWithoutCurrent
    <2>6. ThreadInv(t)' /\ NoForeignTerm'
      BY <2>1, <2>2, NullsTyped DEF IInv, ThreadInv, NoForeignTerm, worldVars
    <2>7. SupsStay /\ \A m \in Nonce : sup'[m].open => Handle(m)
      BY <2>1 DEF IInv, HandlesExist, SupsStay
    <2> QED BY <1>1, <2>1, <2>2, <2>4, <2>5, <2>6, <2>7, WorldSame, ThreadMove DEF worldVars
  <1> QED BY <1>2, <1>3

LEMMA WaitIInv ==
  ASSUME IInv, TypeOK', NEW t \in Thread, WaitEnds(t)
  PROVE  IInv'
  <1>1. TypeOK /\ up /\ thread[t].pc = "wait" /\ t # Main /\ UNCHANGED worldVars
    BY DEF WaitEnds, At, IInv, MainAlone
  <1>2. CASE Fail(t)
    BY <1>1, <1>2, FailIInv
  <1>3. CASE GoTo(t, "judge") /\ UNCHANGED daemonVars
    <2>1. Frame(t) /\ thread'[t].pc = "judge"
      BY <1>1, <1>3, GoToEffect
    <2>2. MainAlone' /\ LaunchingWithoutCurrent'
      BY <1>1, <1>3, <2>1, CallMoves, StillWithoutCurrent DEF Launching, daemonVars
    <2>3. ThreadInv(t)' /\ NoForeignTerm'
      BY <1>1, <2>1 DEF IInv, ThreadInv, NoForeignTerm, worldVars
    <2> QED BY <1>1, <1>3, <2>1, <2>2, <2>3, WorldSame, DaemonSame, ThreadMove DEF worldVars, daemonVars
  <1> QED BY <1>1, <1>2, <1>3 DEF WaitEnds

\* A stop begins, of the current supervisor.
LEMMA BeginStopIInv ==
  ASSUME IInv, TypeOK', NEW t \in Thread, NEW do, NEW a, current # 0, BeginStop(t, current, do, a),
         up', UNCHANGED worldVars, closing => closing', current' \in {0, current}, MainAlone'
  PROVE  IInv'
  <1>1. PICK n \in Nonce : n = current /\ Handle(n) /\ Sole(n)
    BY DEF IInv, TypeOK, HandlesExist, SoleOnes
  <1>2. /\ Frame(t)
        /\ thread'[t].pc \in {"stop", "stopped"} /\ thread'[t].nonce = n
        /\ SupsStay /\ \A m \in Nonce : sup'[m].open = sup[m].open
    BY <1>1, BeginStopEffect DEF IInv
  <1>3. LaunchingWithoutCurrent'
    BY <1>2, StillWithoutCurrent DEF Launching
  <1>4. ThreadInv(t)' /\ NoForeignTerm'
    <2>1. Handle(n)' /\ Sole(n)'
      BY <1>1, <1>2 DEF Handle, Sole, SupsStay, Unlost, worldVars
    <2>2. Handle(thread[t].nonce)' /\ Sole(thread[t].nonce)'
      BY <2>1, <1>2 DEF Handle, Sole
    <2> QED BY <1>2, <2>2 DEF ThreadInv, IInv, NoForeignTerm, worldVars
  <1>5. \A m \in Nonce : sup'[m].open => Handle(m)
    BY <1>2 DEF IInv, HandlesExist
  <1> QED BY <1>1, <1>2, <1>3, <1>4, <1>5, WorldSame, ThreadMove DEF worldVars

LEMMA JobFields ==
  ASSUME NEW pc, NEW do, NEW a
  PROVE  Job(pc, do, a).pc = pc /\ Job(pc, do, a).do = do /\ Job(pc, do, a).adk = a
  BY DEF Job

LEMMA JobEffect ==
  ASSUME TypeOK, NEW t \in Thread, NEW pc, NEW do, NEW a,
         thread' = [thread EXCEPT ![t] = Job(pc, do, a)]
  PROVE  Frame(t) /\ thread'[t].pc = pc /\ thread'[t].do = do /\ thread'[t].adk = a
  <1>1. Frame(t) /\ thread'[t] = Job(pc, do, a)
    BY IdleEffect
  <1> QED BY <1>1, JobFields

LEMMA RequestIInv ==
  ASSUME IInv, TypeOK', NEW t \in Thread, Request(t)
  PROVE  IInv'
  <1>1. ASSUME NEW a \in Adk, NEW do \in {"switch", "reconcile"},
               thread' = [thread EXCEPT ![t] = Job("judge", do, a)],
               Reachable, t # Main, UNCHANGED <<worldVars, daemonVars>>,
               do = "switch" => current = 0
        PROVE  IInv'
    <2>1. /\ Frame(t) /\ thread'[t].pc = "judge" /\ thread'[t].do = do
          /\ up /\ UNCHANGED <<proc, doomed, lease, launches, lost, harmed, up, closing, current, sup>>
      <3>1. Frame(t) /\ thread'[t].pc = "judge" /\ thread'[t].do = do
        BY <1>1, JobEffect DEF IInv
      <3> QED BY <1>1, <3>1 DEF Reachable, worldVars, daemonVars
    <2>2. MainAlone'
      BY <1>1, <2>1, CallMoves
    <2>3. LaunchingWithoutCurrent'
      BY <1>1, <2>1, StillWithoutCurrent DEF Launching
    <2>4. ThreadInv(t)' /\ NoForeignTerm'
      BY <2>1 DEF IInv, ThreadInv, NoForeignTerm
    <2> QED BY <2>1, <2>2, <2>3, <2>4, WorldSame, DaemonSame, ThreadMove
  <1>2. ASSUME NEW do, NEW a, Reachable, t # Main, current # 0, BeginStop(t, current, do, a),
               UNCHANGED <<worldVars, up, closing, current, currentAdk>>
        PROVE  IInv'
    <2>1. current \in Nonce /\ TypeOK
      BY <1>2 DEF IInv, TypeOK
    <2>2. Frame(t)
      BY <1>2, <2>1, BeginStopEffect
    <2>3. MainAlone'
      BY <1>2, <2>2, CallMoves
    <2> QED BY <1>2, <2>3, BeginStopIInv DEF Reachable
  <1>3. ASSUME NEW a \in Adk, Switch(t, a) PROVE IInv'
    <2>1. CASE current # 0
      BY <1>2, <1>3, <2>1 DEF Switch
    <2>2. CASE current = 0
      BY <1>1, <1>3, <2>2 DEF Switch, daemonVars
    <2> QED BY <2>1, <2>2
  <1>4. ASSUME NEW a \in Adk, Reconcile(t, a) PROVE IInv'
    BY <1>1, <1>4 DEF Reconcile
  <1>5. CASE Stop(t)
    BY <1>2, <1>5 DEF Stop
  <1> QED BY <1>3, <1>4, <1>5 DEF Request

LEMMA BootIInv ==
  ASSUME IInv, TypeOK', NEW a \in Adk, Boot(a)
  PROVE  IInv'
  <1>1. /\ Frame(Main) /\ thread'[Main].pc = "judge" /\ Main \in Thread
        /\ up' /\ UNCHANGED <<proc, doomed, lease, launches, lost, harmed, closing, current, sup>>
    <2>1. Main \in Thread /\ TypeOK
      BY DEF IInv, Thread
    <2>2. Frame(Main) /\ thread'[Main].pc = "judge"
      BY <2>1, JobEffect DEF Boot
    <2> QED BY <2>1, <2>2 DEF Boot, worldVars
  <1>2. ~closing /\ current = 0 /\ (\A n \in Nonce : ~sup[n].open) /\ \A t \in Call : thread[t] = Idle
    BY NullsTyped DEF IInv, DownIsClean, Boot, Thread
  <1>3. MainAlone'
    <2>1. \A t \in Call : t \in Thread /\ t # Main
      BY HostAssumption DEF Thread
    <2> QED BY <1>1, <1>2, <2>1 DEF MainAlone, Frame
  <1>4. LaunchingWithoutCurrent' /\ ThreadInv(Main)' /\ NoForeignTerm'
    BY <1>1, <1>2 DEF LaunchingWithoutCurrent, ThreadInv, IInv, NoForeignTerm
  <1> QED BY <1>1, <1>3, <1>4, WorldSame, DaemonSame, ThreadMove

LEMMA ShutdownIInv ==
  ASSUME IInv, TypeOK', Shutdown
  PROVE  IInv'
  <1>1. CASE current = 0
    BY <1>1, DaemonEnds DEF Shutdown
  <1>2. CASE current # 0
    <2>1. BeginStop(Main, current, "exit", NoAdk) /\ closing' /\ current' = 0 /\ up'
          /\ UNCHANGED worldVars
      BY <1>2 DEF Shutdown
    <2>2. current \in Nonce /\ TypeOK /\ Main \in Thread
      BY <1>2 DEF IInv, TypeOK, Thread
    <2>3. Frame(Main) /\ thread'[Main].pc \in {"stop", "stopped"} /\ thread'[Main].do = "exit"
      BY <2>1, <2>2, BeginStopEffect
    <2>4. MainAlone'
      BY <2>1, <2>3 DEF MainAlone, Busy
    <2> QED BY <1>2, <2>1, <2>2, <2>4, BeginStopIInv
  <1> QED BY <1>1, <1>2

\* A step of processes other than browsers.
LEMMA ForeignIInv ==
  ASSUME IInv, TypeOK', NEW p \in Pid, ForeignStarts(p) \/ ForeignExits(p)
  PROVE  IInv'
  <1>1. /\ proc[p].nonce = 0 /\ proc'[p].nonce = 0
        /\ \A q \in Pid : q # p => proc'[q] = proc[q]
        /\ doomed \ {p} \subseteq doomed'
        /\ UNCHANGED <<lease, launches, lost, harmed, daemonVars, thread>>
    BY ForeignEffect DEF IInv
  <1>2. \A q \in Pid : \A a : Unlost(q, a)' <=> Unlost(q, a) /\ q # p
    BY <1>1 DEF Unlost
  <1>3. DownIsClean' /\ HandlesExist' /\ MainAlone' /\ LaunchingWithoutCurrent' /\ NoForeignTerm'
    BY <1>1 DEF IInv, DownIsClean, HandlesExist, Handle, MainAlone, LaunchingWithoutCurrent,
       NoForeignTerm, Launching, Busy, daemonVars
  <1>4. NoncesIssued'
    BY <1>1, HostAssumption DEF IInv, NoncesIssued, Handle, daemonVars, TypeOK
  <1>5. HandleKnows'
    BY <1>1, HostAssumption DEF IInv, HandleKnows, Handle, daemonVars, Nonce
  <1>6. \A n : Sole(n) => Sole(n)'
    BY <1>1, <1>2 DEF Sole, daemonVars
  <1>7. SoleOnes'
    BY <1>1, <1>6 DEF IInv, SoleOnes, Handle, daemonVars
  <1>8. ASSUME NEW t \in Thread PROVE ThreadInv(t)'
    <2>1. ThreadInv(t) /\ thread'[t] = thread[t] /\ thread[t] \in Threads
      BY <1>1 DEF IInv, TypeOK
    <2>2. thread[t].pc \in {"listen", "stop"} =>
             Handle(thread[t].nonce)' /\ Sole(thread[t].nonce)'
      BY <2>1, <1>1, <1>6 DEF ThreadInv, Handle, daemonVars
    <2>3. thread[t].pc = "launch" => Cleared(thread[t].adk)'
      BY <2>1, <1>1, <1>2 DEF ThreadInv, Cleared
    <2>4. thread[t].pc \in {"termed", "killed"} => ReclaimIsCurrent(t)'
      BY <2>1, <1>1, <1>2, ThreadFields DEF ThreadInv, ReclaimIsCurrent
    <2> QED BY <2>1, <2>2, <2>3, <2>4 DEF ThreadInv
  <1>9. EveryBrowserIsLeased'
    BY <1>1 DEF IInv, EveryBrowserIsLeased
  <1> QED BY <1>3, <1>4, <1>5, <1>7, <1>8, <1>9 DEF IInv

\* The exit handler removes the lease of the very browser that ended.
LEMMA ExitIInv ==
  ASSUME IInv, TypeOK', NEW p \in Pid, BrowserExits(p)
  PROVE  IInv'
  <1> DEFINE n == proc[p].nonce
  <1>1. /\ n \in Nonce /\ proc[p].adk \in Adk
        /\ proc'[p] = NoProc /\ \A q \in Pid : q # p => proc'[q] = proc[q]
        /\ \A m \in Nonce : /\ sup'[m].pid = sup[m].pid /\ sup'[m].adk = sup[m].adk
                            /\ sup'[m].open = sup[m].open
                            /\ sup'[m].exited # sup[m].exited => m = n /\ sup[m].pid = p
        /\ \A a \in Adk : lease'[a] = lease[a]
              \/ (lease'[a] = NoLease /\ sup[n].pid = p /\ a = sup[n].adk)
    BY ExitEffect DEF IInv
  <1>2. /\ UNCHANGED <<launches, lost, harmed, up, closing, current, currentAdk, thread>>
        /\ doomed' = doomed \ {p} /\ n # 0 /\ TypeOK
    BY DEF BrowserExits, IInv
  <1>3. proc'[p].nonce = 0 /\ ~proc'[p].foreign
    BY <1>1, NullsTyped
  <1>4. \A q \in Pid : \A a : Unlost(q, a)' <=> Unlost(q, a) /\ q # p
    BY <1>1, <1>2, <1>3 DEF Unlost
  <1>5. DownIsClean'
    <2>1. ~up => UNCHANGED sup
      <3>1. ~up => sup[n].pid = NoPid
        BY <1>1, NullsTyped DEF IInv, DownIsClean
      <3> QED BY <3>1, HostAssumption DEF BrowserExits
    <2> QED BY <1>2, <2>1 DEF IInv, DownIsClean
  <1>6. NoncesIssued' /\ HandlesExist' /\ HandleKnows'
    <2>1. NoncesIssued'
      BY <1>1, <1>2, <1>3, HostAssumption DEF IInv, NoncesIssued, Handle, TypeOK
    <2>2. HandlesExist'
      BY <1>1, <1>2 DEF IInv, HandlesExist, Handle, TypeOK
    <2>3. HandleKnows'
      <3> SUFFICES ASSUME NEW m \in Nonce, NEW q \in Pid, Handle(m)', proc'[q].nonce = m
                   PROVE  sup'[m].pid = q /\ sup'[m].adk = proc'[q].adk /\ ~sup'[m].exited
        BY DEF HandleKnows
      <3>1. q # p
        BY <1>3, HostAssumption DEF Nonce
      <3>2. sup[m].pid = q /\ sup[m].adk = proc[q].adk /\ ~sup[m].exited
        BY <3>1, <1>1 DEF IInv, HandleKnows, Handle
      <3> QED BY <3>1, <3>2, <1>1
    <2> QED BY <2>1, <2>2, <2>3
  <1>7. MainAlone' /\ LaunchingWithoutCurrent' /\ NoForeignTerm'
    BY <1>1, <1>2 DEF IInv, MainAlone, LaunchingWithoutCurrent, NoForeignTerm, Launching, Busy
  <1>8. \A m \in Nonce : (Sole(m) => Sole(m)') /\ (Handle(m)' <=> Handle(m))
    BY <1>1, <1>4 DEF Sole, Handle
  <1>9. SoleOnes'
    BY <1>2, <1>8 DEF IInv, SoleOnes, TypeOK
  <1>10. ASSUME NEW t \in Thread PROVE ThreadInv(t)'
    <2>1. ThreadInv(t) /\ thread'[t] = thread[t] /\ thread[t] \in Threads
      BY <1>2 DEF IInv, TypeOK
    <2>2. thread[t].pc \in {"listen", "stop"} => thread[t].nonce \in Nonce
      BY <2>1, ThreadFields
    <2>3. thread[t].pc \in {"listen", "stop"} =>
             Handle(thread[t].nonce)' /\ Sole(thread[t].nonce)'
      BY <2>1, <2>2, <1>2, <1>8 DEF ThreadInv
    <2>4. thread[t].pc = "launch" => Cleared(thread[t].adk)'
      BY <2>1, <1>2, <1>4 DEF ThreadInv, Cleared
    <2>5. thread[t].pc \in {"termed", "killed"} => ReclaimIsCurrent(t)'
      BY <2>1, <1>1, <1>2, <1>4, ThreadFields, NullsTyped DEF ThreadInv, ReclaimIsCurrent
    <2> QED BY <2>1, <2>3, <2>4, <2>5 DEF ThreadInv
  <1>11. EveryBrowserIsLeased'
    <2> SUFFICES ASSUME NEW q \in Pid, proc'[q].nonce # 0, proc'[q].nonce \notin lost
                 PROVE  lease'[proc'[q].adk] = LeaseOf(q, proc'[q].nonce)
      BY <1>2 DEF EveryBrowserIsLeased
    <2>1. q # p /\ proc'[q] = proc[q] /\ proc[q].adk \in Adk
      BY <1>1, <1>2, <1>3, ProcFields DEF TypeOK
    <2>2. lease[proc[q].adk] = LeaseOf(q, proc[q].nonce)
      BY <2>1 DEF IInv, EveryBrowserIsLeased
    <2>3. ~(sup[n].pid = p /\ proc[q].adk = sup[n].adk)
      <3> SUFFICES ASSUME sup[n].pid = p, proc[q].adk = sup[n].adk
                   PROVE  FALSE
        OBVIOUS
      <3>1. Handle(n) /\ sup[n].adk = proc[p].adk
        BY <1>1, HostAssumption DEF Handle, IInv, HandleKnows
      <3>2. CASE n \in lost
        <4>1. proc[q].nonce = n
          BY <2>1, <3>1, <3>2 DEF IInv, SoleOnes, Sole, Unlost
        <4> QED BY <4>1, <1>1, <2>1, <3>1 DEF IInv, HandleKnows
      <3>3. CASE n \notin lost
        <4>1. lease[proc[p].adk] = LeaseOf(p, n)
          BY <1>2, <3>3 DEF IInv, EveryBrowserIsLeased
        <4> QED BY <4>1, <2>1, <2>2, <3>1 DEF LeaseOf
      <3> QED BY <3>2, <3>3
    <2> QED BY <1>1, <2>1, <2>2, <2>3
  <1> QED BY <1>2, <1>5, <1>6, <1>7, <1>9, <1>10, <1>11 DEF IInv

LEMMA StepIInv ==
  ASSUME IInv, Platform, [Next]_vars
  PROVE  IInv'
  <1>1. TypeOK'
    BY StepTyped DEF IInv
  <1>2. ASSUME NEW t \in Thread, ThreadStep(t) PROVE IInv'
    <2>1. CASE JudgeOnly(t)
      <3>1. thread[t].adk \in Adk
        BY <2>1, ThreadFields DEF JudgeOnly, At, IInv, TypeOK
      <3>2. Cleared(thread[t].adk)
        BY <2>1, <3>1, JudgedCleared DEF JudgeOnly
      <3> QED BY <1>1, <2>1, <3>2, ReconciledIInv DEF JudgeOnly
    <2>2. CASE Reclaim(t)
      BY <1>1, <2>2, ReclaimedCleared, ReconciledIInv DEF Reclaim, Reclaimed
    <2>3. CASE LaunchFails(t) \/ ListenFails(t)
      BY <1>1, <2>3, FailIInv DEF LaunchFails, ListenFails, At
    <2> QED BY <1>1, <1>2, <2>1, <2>2, <2>3, TerminateIInv, KillIInv, LaunchIInv, ListenIInv,
               EscalateIInv, FinishStopIInv, StoppedIInv, WaitIInv DEF ThreadStep
  <1>3. CASE UNCHANGED vars
    BY <1>1, <1>3 DEF vars, worldVars, daemonVars, IInv, DownIsClean, NoncesIssued, HandlesExist,
       HandleKnows, Handle, MainAlone, Busy, LaunchingWithoutCurrent, Launching, SoleOnes, Sole,
       Unlost, ThreadInv, Cleared, ReclaimIsCurrent, EveryBrowserIsLeased, NoForeignTerm
  <1>4. CASE Crash
    BY <1>1, <1>4, DaemonEnds DEF Crash
  <1> QED BY <1>1, <1>2, <1>3, <1>4, RequestIInv, BootIInv, ShutdownIInv, ExitIInv, ForeignIInv DEF Next

LEMMA IInvAlways ==
  ASSUME Platform
  PROVE  Spec => []IInv
  <1>1. Init => IInv
    BY InitIInv
  <1>2. IInv /\ [Next]_vars => IInv'
    BY StepIInv
  <1> QED BY <1>1, <1>2, PTL DEF Spec

\* Wherever the daemon dies, the lease file of its ADK names every browser it left
\* behind that a lease could still be written for (EveryBrowserIsLeased), so that no
\* two browsers ever share a profile: for any number of ADKs, pids, launches and
\* crashes, if SIGKILL works in time, markers can be read and administrator calls
\* come one at a time.
THEOREM BrowsersAreLeased ==
  ASSUME Platform
  PROVE  Spec => []EveryBrowserIsLeased
  <1>1. IInv => EveryBrowserIsLeased
    BY DEF IInv
  <1> QED BY <1>1, IInvAlways, PTL

\* No two browsers with a lease to their name share a profile: what the leases
\* are for.
THEOREM OneBrowserPerProfile ==
  ASSUME Platform
  PROVE  Spec => [](\A p, q \in Pid : \A a : Unlost(p, a) /\ Unlost(q, a) => p = q)
  <1>1. EveryBrowserIsLeased => \A p, q \in Pid : \A a : Unlost(p, a) /\ Unlost(q, a) => p = q
    <2> SUFFICES ASSUME EveryBrowserIsLeased, NEW p \in Pid, NEW q \in Pid, NEW a,
                        Unlost(p, a), Unlost(q, a)
                 PROVE  p = q
      OBVIOUS
    <2>1. lease[a] = LeaseOf(p, proc[p].nonce) /\ lease[a] = LeaseOf(q, proc[q].nonce)
      BY DEF EveryBrowserIsLeased, Unlost
    <2>2. lease[a].pid = p /\ lease[a].pid = q
      BY <2>1 DEF LeaseOf
    <2> QED BY <2>2
  <1> QED BY <1>1, BrowsersAreLeased, PTL

\* The SIGTERM of a reconciliation hits none but a browser of this program
\* (NoForeignTerm), although pids are reused, and on every platform: where markers
\* cannot be read nothing is reclaimed.
THEOREM TermHitsOurs == Spec => []NoForeignTerm
<1>1. Init => NoForeignTerm
  BY DEF Init, NoForeignTerm
<1>2. TypeOK /\ NoForeignTerm /\ [Next]_vars => NoForeignTerm'
  <2> SUFFICES ASSUME TypeOK, NoForeignTerm, [Next]_vars
               PROVE  NoForeignTerm'
    OBVIOUS
  <2>1. ASSUME NEW t \in Thread, Terminate(t) PROVE NoForeignTerm'
    <3> DEFINE l == lease[thread[t].adk]
    <3>1. thread[t].adk \in Adk
      BY <2>1, ThreadFields DEF Terminate, At, TypeOK
    <3>2. l \in Leases /\ Verdict(l) = "match"
      BY <2>1, <3>1 DEF TypeOK, Terminate
    <3>3. l.pid \in Pid /\ l.nonce \in Nonce /\ proc[l.pid].nonce = l.nonce
      BY <3>2, MatchMeans, LeaseFields DEF HasMarker
    <3>4. ~proc[l.pid].foreign
      BY <3>3, ProcFields, HostAssumption DEF TypeOK, Nonce
    <3> QED BY <2>1, <3>4 DEF Terminate, NoForeignTerm
  <2>2. ASSUME NEW t \in Thread, KillAfterGrace(t) PROVE NoForeignTerm'
    BY <2>2 DEF KillAfterGrace, NoForeignTerm
  <2>3. UNCHANGED harmed => NoForeignTerm'
    BY DEF NoForeignTerm
  <2>4. ASSUME NEW t \in Thread, ThreadStep(t) PROVE NoForeignTerm'
    BY <2>1, <2>2, <2>3, <2>4 DEF ThreadStep, JudgeOnly, Reclaim, Launch, LaunchFails, Listen,
       ListenFails, Escalate, FinishStop, Stopped, WaitEnds, worldVars
  <2>5. ASSUME NEW t \in Thread, Request(t) PROVE NoForeignTerm'
    BY <2>3, <2>5 DEF Request, Switch, Reconcile, Stop, worldVars
  <2>6. ASSUME NEW p \in Pid, BrowserExits(p) \/ ForeignStarts(p) \/ ForeignExits(p)
        PROVE  NoForeignTerm'
    BY <2>3, <2>6 DEF BrowserExits, ForeignStarts, ForeignExits
  <2>7. ASSUME NEW a \in Adk, Boot(a) PROVE NoForeignTerm'
    BY <2>3, <2>7 DEF Boot, worldVars
  <2> QED BY <2>3, <2>4, <2>5, <2>6, <2>7 DEF Next, Crash, Shutdown, vars, worldVars
<1> QED BY <1>1, <1>2, TypeCorrect, PTL DEF Spec
-----------------------------------------------------------------------------
(* One browser at a time *)

\* The browsers have lost their supervisors' sockets: nobody can call the daemon.
Stranded ==
    /\ current = 0
    /\ \A n \in Nonce : ~sup[n].open
    /\ \A t \in Thread : thread[t].pc = "idle"

Stopping(t) == thread[t].pc \in {"stop", "stopped"}

\* Every browser of the daemon is the current supervisor's, or is being started,
\* or was lost to a failed start after which no call can come.
ChildrenKnown ==
    \A n \in Nonce : Child(n) =>
        \/ n = current
        \/ \E t \in Thread : thread[t].pc = "listen" /\ thread[t].nonce = n
        \/ Stranded

\* Calls come to the current supervisor alone.
OpenIsCurrent == \A n \in Nonce : sup[n].open => n = current

\* The current supervisor alone is being stopped, and by one thread.
StopsCurrent ==
    /\ \A t \in Thread : Stopping(t) => thread[t].nonce = current
    /\ current # 0 /\ sup[current].stopped => \E t \in Thread : Stopping(t)
    /\ \A t \in Thread : thread[t].pc = "listen" => ~sup[thread[t].nonce].stopped

\* When stop returns, the browser is gone and the socket closed.
StoppedIsGone ==
    \A t \in Thread : thread[t].pc = "stopped" =>
        thread[t].nonce # 0 /\ ~Child(thread[t].nonce) /\ ~sup[thread[t].nonce].open

AloneInv ==
    closing \/ (ChildrenAlone /\ ChildrenKnown /\ OpenIsCurrent /\ StopsCurrent /\ StoppedIsGone)

\* The supervisor's side of a thread's life.
Supervises(t) == thread[t].pc \in {"listen", "stop", "stopped"}

\* A daemon that does not shut down does one thing at a time.
LEMMA OneAtWork ==
  ASSUME IInv, Platform, ~closing,
         NEW s \in Thread, thread[s].pc # "idle", NEW t \in Thread, thread[t].pc # "idle"
  PROVE  s = t
  <1>1. ASSUME NEW u \in Thread, thread[u].pc # "idle"
        PROVE  u = Main => Busy(Main)
    <2>1. thread[u].pc \in {"judge", "termed", "killed", "launch", "listen", "stop", "stopped", "wait"}
      BY <1>1 DEF IInv, TypeOK, Threads
    <2> QED BY <2>1 DEF IInv, MainAlone, Busy
  <1>2. Busy(Main) => \A u \in Call : thread[u].pc = "idle"
    BY NullsTyped DEF IInv, MainAlone
  <1> QED BY <1>1, <1>2 DEF Platform, Thread

LEMMA DeadAlone ==
  ASSUME Die
  PROVE  AloneInv'
  <1>1. /\ current' = 0 /\ \A n \in Nonce : sup'[n].pid = NoPid /\ ~sup'[n].open
        /\ \A t \in Thread : thread'[t].pc = "idle"
    BY NullsTyped DEF Die
  <1>2. \A n \in Nonce : ~Child(n)'
    BY <1>1 DEF Child
  <1> QED BY <1>1, <1>2 DEF AloneInv, ChildrenAlone, ChildrenKnown, OpenIsCurrent, StopsCurrent,
                 Stopping, StoppedIsGone

LEMMA InitAlone ==
  ASSUME Init
  PROVE  AloneInv
  <1>1. /\ current = 0 /\ \A n \in Nonce : sup[n].pid = NoPid /\ ~sup[n].open
        /\ \A t \in Thread : thread[t].pc = "idle"
    BY NullsTyped DEF Init
  <1>2. \A n \in Nonce : ~Child(n)
    BY <1>1 DEF Child
  <1> QED BY <1>1, <1>2 DEF AloneInv, ChildrenAlone, ChildrenKnown, OpenIsCurrent, StopsCurrent,
                 Stopping, StoppedIsGone

\* A turn that has to do with no supervisor.
LEMMA QuietAlone ==
  ASSUME AloneInv, NEW t \in Thread, Frame(t), ~Supervises(t), ~Supervises(t)',
         UNCHANGED <<closing, current, sup>>,
         Stranded => thread'[t].pc = "idle" \/ \A n \in Nonce : ~Child(n)
  PROVE  AloneInv'
  <1> SUFFICES ASSUME ~closing PROVE AloneInv'
    BY DEF AloneInv
  <1>1. \A n \in Nonce : Child(n)' <=> Child(n)
    BY DEF Child
  <1>2. \A s \in Thread : Supervises(s) \/ Supervises(s)' => thread'[s] = thread[s]
    BY DEF Frame
  <1>3. \A s \in Thread : (Stopping(s)' <=> Stopping(s)) /\ (Stopping(s) => Supervises(s))
    BY <1>2 DEF Stopping, Supervises
  <1>4. ChildrenAlone'
    BY <1>1 DEF AloneInv, ChildrenAlone
  <1>5. ChildrenKnown'
    <2> SUFFICES ASSUME NEW n \in Nonce, Child(n)', n # current,
                        ~\E s \in Thread : thread'[s].pc = "listen" /\ thread'[s].nonce = n
                 PROVE  Stranded'
      BY DEF ChildrenKnown
    <2>1. Stranded
      BY <1>1, <1>2 DEF AloneInv, ChildrenKnown, Supervises
    <2>2. \A s \in Thread : thread'[s].pc = "idle"
      BY <2>1, <1>1 DEF Frame, Stranded
    <2> QED BY <2>1, <2>2 DEF Stranded
  <1>6. OpenIsCurrent'
    BY DEF AloneInv, OpenIsCurrent
  <1>7. StopsCurrent'
    BY <1>2, <1>3 DEF AloneInv, StopsCurrent, Supervises
  <1>8. StoppedIsGone'
    <2> SUFFICES ASSUME NEW s \in Thread, thread'[s].pc = "stopped"
                 PROVE  (thread[s].nonce # 0 /\ ~Child(thread[s].nonce) /\ ~sup[thread[s].nonce].open)'
      BY DEF StoppedIsGone
    <2>1. thread'[s] = thread[s]
      BY <1>2 DEF Supervises
    <2> QED BY <2>1 DEF AloneInv, StoppedIsGone, Child
  <1> QED BY <1>4, <1>5, <1>6, <1>7, <1>8 DEF AloneInv

\* A step of other processes, or none.
LEMMA SameAlone ==
  ASSUME AloneInv, UNCHANGED <<closing, current, sup, thread>>
  PROVE  AloneInv'
  BY DEF AloneInv, ChildrenAlone, ChildrenKnown, Child, Stranded, OpenIsCurrent, StopsCurrent,
     Stopping, StoppedIsGone

\* An exit takes a child away.
LEMMA ExitAlone ==
  ASSUME AloneInv, TypeOK, NEW p \in Pid, BrowserExits(p)
  PROVE  AloneInv'
  <1>1. UNCHANGED <<closing, current, thread>>
    BY DEF BrowserExits
  <1>2. \A n \in Nonce : /\ Child(n)' => Child(n)
                         /\ sup'[n].open = sup[n].open /\ sup'[n].stopped = sup[n].stopped
    <2>1. CASE UNCHANGED sup
      BY <2>1 DEF Child
    <2>2. CASE sup' = [sup EXCEPT ![proc[p].nonce].exited = TRUE]
      BY <2>2 DEF Child, TypeOK, Supervisors
    <2> QED BY <2>1, <2>2 DEF BrowserExits
  <1>3. \A t \in Thread : thread[t].nonce \in {0} \cup Nonce
    BY ThreadFields DEF TypeOK
  <1>4. \A t \in Thread : thread[t].pc = "listen" => thread[t].nonce # 0
    BY ThreadFields DEF TypeOK
  <1>5. current \in {0} \cup Nonce
    BY DEF TypeOK
  <1> SUFFICES ASSUME ~closing PROVE AloneInv'
    BY <1>1 DEF AloneInv
  <1>6. ChildrenAlone' /\ ChildrenKnown' /\ OpenIsCurrent'
    BY <1>1, <1>2 DEF AloneInv, ChildrenAlone, ChildrenKnown, OpenIsCurrent, Stranded
  <1>7. StopsCurrent'
    BY <1>1, <1>2, <1>3, <1>4, <1>5 DEF AloneInv, StopsCurrent, Stopping
  <1>8. StoppedIsGone'
    BY <1>1, <1>2, <1>3 DEF AloneInv, StoppedIsGone
  <1> QED BY <1>6, <1>7, <1>8 DEF AloneInv

\* A browser is launched when the last one is gone.
LEMMA LaunchAlone ==
  ASSUME IInv, Platform, AloneInv, NEW t \in Thread, Launch(t)
  PROVE  AloneInv'
  <1>1. TypeOK /\ thread[t].pc = "launch" /\ Busy(t)
    BY DEF Launch, At, IInv, Busy
  <1>m. PICK n \in Nonce : n = launches + 1
    BY <1>1, HostAssumption DEF Launch, TypeOK, Nonce
  <1>p. PICK p \in Pid : SpawnedAs(t, p, n)
    BY <1>m DEF Launch, SpawnedAs, LeasedAs
  <1> SUFFICES ASSUME LeasedAs(t, p, n), ~closing
               PROVE  AloneInv'
    BY <1>p, DeadAlone DEF SpawnedAs, LeasedAs, AloneInv
  <1>2. UNCHANGED <<closing, current>> /\ current = 0 /\ n # 0
    BY <1>1, HostAssumption DEF LeasedAs, IInv, LaunchingWithoutCurrent, Launching, Nonce
  <1>3. /\ Frame(t) /\ thread'[t].pc = "listen" /\ thread'[t].nonce = n
        /\ \A m \in Nonce : m # n => sup'[m] = sup[m]
        /\ ~sup'[n].open /\ ~sup'[n].stopped
    <2>1. sup'[n] = [NoSup EXCEPT !.adk = thread[t].adk, !.pid = p]
      BY <1>1 DEF LeasedAs, TypeOK
    <2> QED BY <2>1, <1>1, LaunchEffect DEF NoSup
  <1>4. \A s \in Thread : s # t => thread[s].pc = "idle" /\ thread'[s].pc = "idle"
    BY <1>1, <1>3, OneAtWork DEF Frame
  <1>5. \A m \in Nonce : m # n => ~Child(m) /\ ~Child(m)'
    <2>1. \A m \in Nonce : ~Child(m)
      <3>1. ~Stranded /\ \A s \in Thread : thread[s].pc # "listen"
        BY <1>1, <1>4 DEF Stranded
      <3> QED BY <3>1, <1>2, HostAssumption DEF AloneInv, ChildrenKnown, Nonce
    <2> QED BY <2>1, <1>3 DEF Child
  <1>6. ChildrenAlone' /\ ChildrenKnown'
    BY <1>3, <1>5 DEF ChildrenAlone, ChildrenKnown
  <1>7. OpenIsCurrent'
    BY <1>2, <1>3 DEF AloneInv, OpenIsCurrent
  <1>8. StopsCurrent' /\ StoppedIsGone'
    BY <1>2, <1>3, <1>4 DEF StopsCurrent, Stopping, StoppedIsGone
  <1> QED BY <1>6, <1>7, <1>8 DEF AloneInv

\* The browser that was being started is the current supervisor's now.
LEMMA ListenAlone ==
  ASSUME IInv, Platform, AloneInv, NEW t \in Thread, Listen(t)
  PROVE  AloneInv'
  <1>1. TypeOK /\ thread[t].pc = "listen" /\ UNCHANGED closing
    BY DEF Listen, At, IInv
  <1> SUFFICES ASSUME ~closing PROVE AloneInv'
    BY <1>1 DEF AloneInv
  <1>2. PICK n \in Nonce : n = thread[t].nonce
    BY <1>1, ThreadFields DEF TypeOK
  <1>3. current = 0 /\ current' = n /\ n # 0
    BY <1>1, <1>2, HostAssumption DEF Listen, IInv, LaunchingWithoutCurrent, Launching, Nonce
  <1>4. \A s \in Thread : thread'[s].pc = "idle" /\ (s # t => thread[s].pc = "idle")
    <2>1. Frame(t) /\ thread'[t] = Idle
      BY <1>1, IdleEffect DEF Listen
    <2> QED BY <2>1, <1>1, OneAtWork, NullsTyped DEF Frame
  <1>5. \A m \in Nonce : /\ Child(m)' <=> Child(m)
                         /\ sup'[m].stopped = sup[m].stopped
                         /\ sup'[m].open => sup[m].open \/ m = n
    <2>1. sup' = [sup EXCEPT ![n].open = TRUE]
      BY <1>2 DEF Listen
    <2> QED BY <2>1, <1>1 DEF Child, TypeOK, Supervisors
  <1>6. ChildrenAlone' /\ ChildrenKnown'
    <2>1. \A m \in Nonce : Child(m) => m = n
      <3>1. ~Stranded
        BY <1>1 DEF Stranded
      <3> QED BY <3>1, <1>1, <1>2, <1>3, <1>4, HostAssumption DEF AloneInv, ChildrenKnown, Nonce
    <2> QED BY <2>1, <1>3, <1>5 DEF ChildrenAlone, ChildrenKnown
  <1>7. OpenIsCurrent'
    BY <1>3, <1>5, HostAssumption DEF AloneInv, OpenIsCurrent, Nonce
  <1>8. StopsCurrent' /\ StoppedIsGone'
    BY <1>1, <1>2, <1>3, <1>4, <1>5 DEF AloneInv, StopsCurrent, Stopping, StoppedIsGone
  <1> QED BY <1>6, <1>7, <1>8 DEF AloneInv

\* A call whose browser cannot be reached leaves it behind, and no socket.
LEMMA ListenFailsAlone ==
  ASSUME IInv, Platform, AloneInv, NEW t \in Thread, ListenFails(t)
  PROVE  AloneInv'
  <1>1. TypeOK /\ thread[t].pc = "listen"
    BY DEF ListenFails, At, IInv
  <1> SUFFICES ASSUME t # Main, ~closing PROVE AloneInv'
    BY DeadAlone DEF ListenFails, Fail, AloneInv, daemonVars
  <1>2. /\ thread' = [thread EXCEPT ![t] = Idle] /\ current = 0
        /\ UNCHANGED <<sup, closing, current>>
    BY <1>1 DEF ListenFails, Fail, daemonVars, IInv, LaunchingWithoutCurrent, Launching
  <1>3. \A s \in Thread : thread'[s].pc = "idle"
    <2>1. Frame(t) /\ thread'[t] = Idle
      BY <1>1, <1>2, IdleEffect
    <2> QED BY <2>1, <1>1, OneAtWork, NullsTyped DEF Frame
  <1>4. \A m \in Nonce : (Child(m)' <=> Child(m)) /\ ~sup[m].open
    BY <1>2, HostAssumption DEF Child, AloneInv, OpenIsCurrent, Nonce
  <1>5. ChildrenAlone' /\ ChildrenKnown'
    BY <1>2, <1>3, <1>4 DEF AloneInv, ChildrenAlone, ChildrenKnown, Stranded
  <1>6. OpenIsCurrent' /\ StopsCurrent' /\ StoppedIsGone'
    BY <1>2, <1>3, <1>4 DEF OpenIsCurrent, StopsCurrent, Stopping, StoppedIsGone
  <1> QED BY <1>5, <1>6 DEF AloneInv

\* The last turn of stop comes after the browser.
LEMMA FinishStopAlone ==
  ASSUME IInv, Platform, AloneInv, NEW t \in Thread, FinishStop(t)
  PROVE  AloneInv'
  <1>1. TypeOK /\ thread[t].pc = "stop" /\ UNCHANGED <<closing, current>>
    BY DEF FinishStop, StopEnds, At, IInv
  <1> SUFFICES ASSUME ~closing PROVE AloneInv'
    BY <1>1 DEF AloneInv
  <1>2. PICK n \in Nonce : n = thread[t].nonce /\ ~Child(n) /\ n = current /\ n # 0
    <2>1. thread[t].nonce \in Nonce /\ thread[t].nonce # 0
      BY <1>1, ThreadFields DEF TypeOK
    <2>2. thread[t].nonce = current
      BY <1>1 DEF AloneInv, StopsCurrent, Stopping
    <2> QED BY <2>1, <2>2 DEF FinishStop, StopEnds, Platform
  <1>3. Frame(t) /\ thread'[t].pc = "stopped" /\ thread'[t].nonce = n
    BY <1>1, <1>2, GoToEffect DEF FinishStop
  <1>4. \A s \in Thread : s # t => thread[s].pc = "idle" /\ thread'[s].pc = "idle"
    BY <1>1, <1>3, OneAtWork DEF Frame
  <1>5. /\ \A m \in Nonce : (Child(m)' <=> Child(m)) /\ (sup'[m].open => sup[m].open)
        /\ ~sup'[n].open
    <2>1. sup' = [sup EXCEPT ![n].open = FALSE]
      BY <1>2 DEF FinishStop
    <2> QED BY <2>1, <1>1 DEF Child, TypeOK, Supervisors
  <1>6. \A m \in Nonce : ~Child(m)
    <2>1. ~Stranded
      BY <1>1 DEF Stranded
    <2> QED BY <2>1, <1>1, <1>2, <1>4 DEF AloneInv, ChildrenKnown
  <1>7. ChildrenAlone' /\ ChildrenKnown' /\ OpenIsCurrent'
    BY <1>1, <1>5, <1>6 DEF AloneInv, ChildrenAlone, ChildrenKnown, OpenIsCurrent
  <1>8. StopsCurrent' /\ StoppedIsGone'
    BY <1>1, <1>2, <1>3, <1>4, <1>5, <1>6 DEF StopsCurrent, Stopping, StoppedIsGone
  <1> QED BY <1>7, <1>8 DEF AloneInv

\* The caller of stop gives up a supervisor that has no browser.
LEMMA StoppedAlone ==
  ASSUME IInv, Platform, AloneInv, NEW t \in Thread, Stopped(t)
  PROVE  AloneInv'
  <1>1. TypeOK /\ thread[t].pc = "stopped"
    BY DEF Stopped, At, IInv
  <1> SUFFICES ASSUME thread[t].do # "exit", ~closing PROVE AloneInv'
    BY DeadAlone DEF Stopped, AloneInv
  <1>2. /\ current' = 0 /\ UNCHANGED <<closing, sup>>
        /\ Frame(t) /\ thread'[t].pc \in {"idle", "wait"}
    <2>1. /\ thread' = [thread EXCEPT ![t] =
                 IF thread[t].do = "switch" THEN [thread[t] EXCEPT !.pc = "wait"] ELSE Idle]
          /\ current' = 0 /\ UNCHANGED <<closing, sup>>
      BY <1>1 DEF Stopped, TypeOK
    <2>2. [thread[t] EXCEPT !.pc = "wait"].pc = "wait"
      BY <1>1 DEF TypeOK, Threads
    <2> QED BY <1>1, <2>1, <2>2, IdleEffect, NullsTyped
  <1>3. \A s \in Thread : s # t => thread[s].pc = "idle" /\ thread'[s].pc = "idle"
    BY <1>1, <1>2, OneAtWork DEF Frame
  <1>4. \A m \in Nonce : ~Child(m) /\ ~Child(m)' /\ ~sup'[m].open
    <2>1. thread[t].nonce = current /\ ~Child(current) /\ ~sup[current].open
      BY <1>1 DEF AloneInv, StopsCurrent, Stopping, StoppedIsGone
    <2>2. ~Stranded
      BY <1>1 DEF Stranded
    <2>3. \A m \in Nonce : ~Child(m) /\ ~sup[m].open
      BY <2>1, <2>2, <1>1, <1>3 DEF AloneInv, ChildrenKnown, OpenIsCurrent
    <2> QED BY <2>3, <1>2 DEF Child
  <1> QED BY <1>2, <1>3, <1>4 DEF AloneInv, ChildrenAlone, ChildrenKnown, OpenIsCurrent,
                 StopsCurrent, Stopping, StoppedIsGone

\* A stop begins once for a supervisor: the thread that began it is still at it.
LEMMA BeginStopAlone ==
  ASSUME IInv, Platform, AloneInv, NEW t \in Thread, thread[t] = Idle, t # Main,
         NEW do, NEW a, current # 0, Reachable,
         BeginStop(t, current, do, a), UNCHANGED <<closing, current>>
  PROVE  AloneInv'
  <1> SUFFICES ASSUME ~closing PROVE AloneInv'
    BY DEF AloneInv
  <1>1. TypeOK /\ current \in Nonce
    BY DEF IInv, TypeOK
  <1>2. \A s \in Thread : thread[s].pc = "idle"
    <2>1. t \in Call /\ thread[t].pc = "idle" /\ \A s \in Call : s = t
      BY NullsTyped DEF Platform, Thread
    <2>2. ~Busy(Main)
      BY DEF IInv, MainAlone, Reachable
    <2>3. thread[Main].pc \in {"idle", "judge", "termed", "killed", "launch", "listen", "stop", "stopped", "wait"}
      BY <1>1 DEF TypeOK, Thread, Threads
    <2>4. thread[Main].pc = "idle"
      BY <2>2, <2>3 DEF IInv, MainAlone, Busy
    <2> QED BY <2>1, <2>4 DEF Thread
  <1>3. ~sup[current].stopped
    BY <1>2 DEF AloneInv, StopsCurrent, Stopping
  <1>4. Frame(t) /\ thread'[t].pc = "stop" /\ thread'[t].nonce = current
    BY <1>1, <1>3 DEF BeginStop, Frame, TypeOK
  <1>5. \A m \in Nonce : /\ Child(m)' <=> Child(m)
                         /\ sup'[m].open = sup[m].open
    BY <1>1 DEF BeginStop, Child, TypeOK, Supervisors
  <1>6. \A s \in Thread : s # t => thread'[s].pc = "idle"
    BY <1>2, <1>4 DEF Frame
  <1>7. ChildrenAlone' /\ ChildrenKnown' /\ OpenIsCurrent'
    <2>1. \A s \in Thread : thread[s].pc # "listen"
      BY <1>2
    <2> QED BY <1>5, <2>1 DEF AloneInv, ChildrenAlone, ChildrenKnown, OpenIsCurrent, Stranded
  <1>8. StopsCurrent' /\ StoppedIsGone'
    BY <1>4, <1>6 DEF StopsCurrent, Stopping, StoppedIsGone
  <1> QED BY <1>7, <1>8 DEF AloneInv

\* Escalation ends no browser and starts none.
LEMMA EscalateAlone ==
  ASSUME IInv, AloneInv, NEW t \in Thread, Escalate(t)
  PROVE  AloneInv'
  <1>1. /\ TypeOK /\ UNCHANGED <<closing, current, sup>>
        /\ thread[t].pc = "stop" /\ thread'[t].pc = "stop" /\ Frame(t)
        /\ thread'[t].nonce = thread[t].nonce
    BY EscalateEffect DEF Escalate, daemonVars, IInv
  <1>2. \A s \in Thread : thread'[s].pc = thread[s].pc /\ thread'[s].nonce = thread[s].nonce
    BY <1>1 DEF Frame
  <1> QED BY <1>1, <1>2 DEF AloneInv, ChildrenAlone, ChildrenKnown, Child, Stranded, OpenIsCurrent,
                 StopsCurrent, Stopping, StoppedIsGone

LEMMA BootAlone ==
  ASSUME IInv, AloneInv, NEW a \in Adk, Boot(a)
  PROVE  AloneInv'
  <1>1. TypeOK /\ Main \in Thread
    BY DEF IInv, Thread
  <1>2. ~up /\ UNCHANGED <<closing, current, sup>>
    BY DEF Boot
  <1>3. thread[Main] = Idle /\ \A n \in Nonce : ~Child(n)
    BY <1>1, <1>2, NullsTyped DEF IInv, DownIsClean, Child
  <1>4. Frame(Main) /\ thread'[Main].pc = "judge"
    BY <1>1, JobEffect DEF Boot
  <1> QED BY <1>1, <1>2, <1>3, <1>4, NullsTyped, QuietAlone DEF Supervises

LEMMA RequestAlone ==
  ASSUME IInv, Platform, AloneInv, NEW t \in Thread, Request(t)
  PROVE  AloneInv'
  <1>1. TypeOK /\ Reachable /\ t # Main /\ thread[t] = Idle /\ ~Stranded /\ UNCHANGED <<closing, current>>
    BY DEF IInv, Request, Switch, Reconcile, Stop, Reachable, Stranded, daemonVars
  <1>2. ASSUME NEW a \in Adk, NEW do, thread' = [thread EXCEPT ![t] = Job("judge", do, a)],
               UNCHANGED sup
        PROVE  AloneInv'
    <2>1. Frame(t) /\ thread'[t].pc = "judge"
      BY <1>1, <1>2, JobEffect
    <2> QED BY <1>1, <1>2, <2>1, NullsTyped, QuietAlone DEF Supervises
  <1>3. ASSUME NEW a \in Adk, Switch(t, a) PROVE AloneInv'
    <2>1. CASE current # 0
      BY <1>1, <1>3, <2>1, BeginStopAlone DEF Switch
    <2>2. CASE current = 0
      BY <1>2, <1>3, <2>2 DEF Switch
    <2> QED BY <2>1, <2>2
  <1>4. ASSUME NEW a \in Adk, Reconcile(t, a) PROVE AloneInv'
    BY <1>2, <1>4 DEF Reconcile, daemonVars
  <1>5. CASE Stop(t)
    BY <1>1, <1>5, BeginStopAlone DEF Stop
  <1> QED BY <1>3, <1>4, <1>5 DEF Request

\* The turns of a reconciliation and of a wait, and a launch that fails.
LEMMA OtherTurnsAlone ==
  ASSUME IInv, AloneInv, NEW t \in Thread,
         \/ JudgeOnly(t) \/ Terminate(t) \/ KillAfterGrace(t) \/ Reclaim(t)
         \/ LaunchFails(t) \/ WaitEnds(t)
  PROVE  AloneInv'
  <1>1. TypeOK /\ thread[t].pc \in {"judge", "termed", "killed", "launch", "wait"}
    BY DEF IInv, JudgeOnly, Terminate, KillAfterGrace, Reclaim, Reclaimed, LaunchFails, WaitEnds, At
  <1> SUFFICES ASSUME ~(t = Main /\ Fail(t)) PROVE AloneInv'
    BY DeadAlone DEF Fail
  <1>2. ~Stranded /\ ~Supervises(t)
    BY <1>1 DEF Stranded, Supervises
  <1>3. UNCHANGED daemonVars
    BY DEF JudgeOnly, Terminate, KillAfterGrace, Reclaim, LaunchFails, WaitEnds, Fail
  <1>4. Frame(t) /\ thread'[t].pc \in {"idle", "judge", "launch", "termed", "killed"}
    <2>1. CASE JudgeOnly(t) \/ Reclaim(t)
      BY <2>1, <1>1, ContinueEffect, NullsTyped DEF JudgeOnly, Reclaim
    <2>2. CASE Terminate(t)
      BY <2>2, <1>1, TerminateEffect
    <2>3. CASE KillAfterGrace(t) \/ GoTo(t, "judge")
      BY <2>3, <1>1, GoToEffect DEF KillAfterGrace
    <2>4. CASE Fail(t)
      BY <2>4, <1>1, IdleEffect, NullsTyped DEF Fail
    <2> QED BY <2>1, <2>2, <2>3, <2>4 DEF LaunchFails, WaitEnds
  <1> QED BY <1>2, <1>3, <1>4, QuietAlone DEF Supervises, daemonVars

LEMMA StepAlone ==
  ASSUME IInv, Platform, AloneInv, [Next]_vars
  PROVE  AloneInv'
  <1>1. ASSUME NEW t \in Thread, ThreadStep(t) PROVE AloneInv'
    BY <1>1, LaunchAlone, ListenAlone, ListenFailsAlone, EscalateAlone, FinishStopAlone,
       StoppedAlone, OtherTurnsAlone DEF ThreadStep
  <1>2. ASSUME NEW t \in Thread, Request(t) PROVE AloneInv'
    BY <1>2, RequestAlone
  <1>3. ASSUME NEW a \in Adk, Boot(a) PROVE AloneInv'
    BY <1>3, BootAlone
  <1>4. CASE Crash
    BY <1>4, DeadAlone DEF Crash
  <1>5. CASE Shutdown
    BY <1>5, DeadAlone DEF Shutdown, AloneInv
  <1>6. ASSUME NEW p \in Pid, BrowserExits(p) \/ ForeignStarts(p) \/ ForeignExits(p)
        PROVE  AloneInv'
    <2>1. CASE BrowserExits(p)
      BY <2>1, ExitAlone DEF IInv
    <2>2. CASE ForeignStarts(p) \/ ForeignExits(p)
      BY <2>2, SameAlone DEF ForeignStarts, ForeignExits, daemonVars
    <2> QED BY <1>6, <2>1, <2>2
  <1>7. CASE UNCHANGED vars
    BY <1>7, SameAlone DEF vars, daemonVars
  <1> QED BY <1>1, <1>2, <1>3, <1>4, <1>5, <1>6, <1>7 DEF Next

\* A daemon has one browser at a time until it shuts down (ChildrenAlone): switchAdk
\* and start launch the next one when the last one is gone, wherever starts fail and
\* browsers exit by themselves, for any number of ADKs, pids and launches, if SIGKILL
\* works in time, markers can be read and administrator calls come one at a time.
THEOREM OneBrowserAtATime ==
  ASSUME Platform
  PROVE  Spec => []ChildrenAlone
  <1>1. Init => AloneInv
    BY InitAlone
  <1>2. IInv /\ AloneInv /\ [Next]_vars => AloneInv'
    BY StepAlone
  <1>3. AloneInv => ChildrenAlone
    BY DEF AloneInv, ChildrenAlone
  <1> QED BY <1>1, <1>2, <1>3, IInvAlways, PTL DEF Spec
=============================================================================
