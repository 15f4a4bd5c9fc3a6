--------------------------- MODULE HostLifecycle ---------------------------
(***************************************************************************)
(* The life of the browser host: a daemon that the shell starts, its       *)
(* supervisors, their Chromium processes, and the lease file of each ADK   *)
(* (workspace) that lets the next start reclaim what a dead daemon left.   *)
(*                                                                         *)
(* Source: bin/supervisord.mjs and, under src/supervisor, supervisor.mjs,  *)
(* reconcile.mjs, lease.mjs and chrome-launcher.mjs of packages/ego-host.  *)
(*                                                                         *)
(* A thread is one asynchronous function of the daemon: its start and      *)
(* shutdown (Main) or an administrator's call.  One step of a thread is    *)
(* one JavaScript turn.  A deadline may pass at any time.  reconcileLease  *)
(* is never asked to adopt by this code, so adoption is left out.          *)
(***************************************************************************)
EXTENDS Naturals, FiniteSets

CONSTANTS
    Adk, Pid,
    Call,           \* administrator calls that may run at the same time
    Main, NoAdk, NoPid,
    MaxLaunch,      \* bound: browsers launched in one behaviour
    CanVerify,      \* can the platform read the marker of a process (not win32)?
    KillIsPrompt,   \* is a process gone before the grace after SIGKILL ends?
    StartsFail,     \* may launching or listening fail?
    PidReuse        \* do other programs' processes come, and take freed pids?

ASSUME HostAssumption ==
    /\ Main \notin Call /\ NoAdk \notin Adk /\ NoPid \notin Pid
    /\ MaxLaunch \in Nat
    /\ {CanVerify, KillIsPrompt, StartsFail, PidReuse} \subseteq BOOLEAN

VARIABLES
    proc,       \* what runs under a pid
    doomed,     \* pids that got SIGKILL and are not gone yet
    lease,      \* the lease file of each ADK
    up,         \* does the daemon run?
    closing,    \* has it begun to shut down?
    current, currentAdk,  \* its variables of these names; 0 is null
    sup,        \* its supervisors, by the nonce of their browser
    thread,     \* its asynchronous functions
    launches,   \* number of browsers launched so far, the last nonce
    lost,       \* history: browsers whose daemon died before it wrote the lease, or
                \* was already shutting down when it launched them
    harmed      \* signals that hit a process of another program

worldVars == <<proc, doomed, lease, launches, lost, harmed>>
daemonVars == <<up, closing, current, currentAdk, sup>>
vars == <<worldVars, daemonVars, thread>>

Nonce == 1..MaxLaunch
Thread == Call \cup {Main}

NoProc == [nonce |-> 0, adk |-> NoAdk, foreign |-> FALSE]
Foreign == [nonce |-> 0, adk |-> NoAdk, foreign |-> TRUE]
Browser(a, n) == [nonce |-> n, adk |-> a, foreign |-> FALSE]

NoLease == [kind |-> "none", pid |-> NoPid, nonce |-> 0]
Garbled == [kind |-> "garbled", pid |-> NoPid, nonce |-> 0]
LeaseOf(p, n) == [kind |-> "lease", pid |-> p, nonce |-> n]

NoSup == [adk |-> NoAdk, pid |-> NoPid, open |-> FALSE, stopped |-> FALSE, exited |-> FALSE]

Job(pc, do, a) == [pc |-> pc, do |-> do, adk |-> a, nonce |-> 0, pid |-> NoPid, level |-> 0]
Idle == Job("idle", "none", NoAdk)

Alive(p) == proc[p] # NoProc
HasMarker(p, n) == proc[p].nonce = n

\* Trusts the pid alone.
VerdictByPid(l) ==
    IF l.kind # "lease" THEN l.kind
    ELSE IF ~Alive(l.pid) THEN "stale"
    ELSE IF CanVerify THEN "match" ELSE "unverified"

\* The judgement of reconcileLease and inspectLease on a lease: "none" stands for
\* no-lease and "garbled" for unreadable.
Verdict(l) ==
    IF l.kind # "lease" THEN l.kind
    ELSE IF ~Alive(l.pid) THEN "stale"
    ELSE IF ~CanVerify THEN "unverified"
    ELSE IF HasMarker(l.pid, l.nonce) THEN "match" ELSE "foreign"

Init ==
    /\ proc = [p \in Pid |-> NoProc]
    /\ doomed = {} /\ harmed = {} /\ lost = {} /\ launches = 0
    /\ lease \in [Adk -> {NoLease, Garbled}]
    /\ up = FALSE /\ closing = FALSE /\ current = 0 /\ currentAdk = NoAdk
    /\ sup = [n \in Nonce |-> NoSup]
    /\ thread = [t \in Thread |-> Idle]

\* The bound: nothing sets out to launch a browser it could not launch.
LaunchLeft ==
    launches + Cardinality({t \in Thread : thread[t].do \in {"start", "switch"}}) < MaxLaunch

-----------------------------------------------------------------------------
(* The daemon's process *)

\* The shell spawns a daemon for an ADK: main, createDaemon, start.
Boot(a) ==
    /\ ~up /\ LaunchLeft
    /\ up' = TRUE
    /\ currentAdk' = a
    /\ thread' = [thread EXCEPT ![Main] = Job("judge", "start", a)]
    /\ UNCHANGED <<worldVars, closing, current, sup>>

\* The process ends; its browsers stay behind with their pipes at EOF.
Die ==
    /\ up' = FALSE /\ closing' = FALSE /\ current' = 0 /\ currentAdk' = NoAdk
    /\ sup' = [n \in Nonce |-> NoSup]
    /\ thread' = [t \in Thread |-> Idle]

\* Killed between two turns, by a fault or by the shell (stop_blocking).
Crash ==
    /\ up
    /\ Die
    /\ UNCHANGED worldVars

\* Thread t fails: a call is answered with an error, a daemon that cannot
\* start exits.
Fail(t) ==
    IF t = Main THEN Die
    ELSE /\ thread' = [thread EXCEPT ![t] = Idle]
         /\ UNCHANGED daemonVars

At(t, pc) == up /\ thread[t].pc = pc
GoTo(t, pc) == thread' = [thread EXCEPT ![t].pc = pc]

-----------------------------------------------------------------------------
(* reconcileLease *)

\* After a reconciliation switchAdk calls start, which reconciles again, and
\* start launches the browser; a mere reconciliation is answered.
Continue(t) ==
    thread' = [thread EXCEPT ![t] =
        CASE @.do = "switch" -> [@ EXCEPT !.pc = "judge", !.do = "start"]
          [] @.do = "start"  -> [@ EXCEPT !.pc = "launch"]
          [] OTHER           -> Idle]

RemoveLease(a) == lease' = [lease EXCEPT ![a] = NoLease]

\* No process is touched.
JudgeOnly(t) ==
    LET a == thread[t].adk
    IN  /\ At(t, "judge")
        /\ Verdict(lease[a]) # "match"
        /\ IF Verdict(lease[a]) \in {"garbled", "stale"}
           THEN RemoveLease(a) ELSE UNCHANGED lease
        /\ Continue(t)
        /\ UNCHANGED <<proc, doomed, launches, lost, harmed, daemonVars>>

\* The marker matches: SIGTERM in the same turn.
Terminate(t) ==
    LET l == lease[thread[t].adk]
    IN  /\ At(t, "judge")
        /\ Verdict(l) = "match"
        /\ harmed' = harmed \cup (IF proc[l.pid].foreign THEN {"TERM"} ELSE {})
        /\ thread' = [thread EXCEPT ![t].pc = "termed", ![t].pid = l.pid]
        /\ UNCHANGED <<proc, doomed, lease, launches, lost, daemonVars>>

\* The grace ends and the pid is still in use: SIGKILL.
KillAfterGrace(t) ==
    LET p == thread[t].pid
    IN  /\ At(t, "termed")
        /\ Alive(p)
        /\ doomed' = doomed \cup {p}
        /\ harmed' = harmed \cup (IF proc[p].foreign THEN {"KILL"} ELSE {})
        /\ GoTo(t, "killed")
        /\ UNCHANGED <<proc, lease, launches, lost, daemonVars>>

\* The process is gone (its pid may be in use again), or even SIGKILL did not
\* end it in time.
Reclaimed(t) ==
    \/ At(t, "termed") /\ ~Alive(thread[t].pid)
    \/ At(t, "killed") /\ (thread[t].pid \notin doomed \/ ~KillIsPrompt)

\* The lease is removed either way.
Reclaim(t) ==
    /\ Reclaimed(t)
    /\ RemoveLease(thread[t].adk)
    /\ Continue(t)
    /\ UNCHANGED <<proc, doomed, launches, lost, harmed, daemonVars>>

-----------------------------------------------------------------------------
(* startSupervisor, after its reconciliation *)

\* Spawn, lease and exit handler are one turn.
Launch(t) ==
    LET n == launches + 1
    IN  /\ At(t, "launch")
        /\ launches < MaxLaunch
        /\ launches' = n
        /\ \E p \in Pid :
              /\ ~Alive(p)
              /\ proc' = [proc EXCEPT ![p] = Browser(thread[t].adk, n)]
              /\ \/ /\ lease' = [lease EXCEPT ![thread[t].adk] = LeaseOf(p, n)]
                    /\ sup' = [sup EXCEPT ![n] =
                                 [NoSup EXCEPT !.adk = thread[t].adk, !.pid = p]]
                    /\ thread' = [thread EXCEPT ![t].pc = "listen", ![t].nonce = n]
                    /\ lost' = lost \cup (IF closing THEN {n} ELSE {})
                    /\ UNCHANGED <<up, closing, current, currentAdk>>
                 \/ \* killed inside the turn, before writeLease
                    /\ Die
                    /\ lost' = lost \cup {n}
                    /\ UNCHANGED lease
        /\ UNCHANGED <<doomed, harmed>>

LaunchFails(t) ==
    /\ StartsFail
    /\ At(t, "launch")
    /\ Fail(t)
    /\ UNCHANGED worldVars

\* The socket is open: the supervisor is the daemon's current one.
Listen(t) ==
    LET n == thread[t].nonce
    IN  /\ At(t, "listen")
        /\ sup' = [sup EXCEPT ![n].open = TRUE]
        /\ current' = n
        /\ currentAdk' = thread[t].adk
        /\ thread' = [thread EXCEPT ![t] = Idle]
        /\ UNCHANGED <<worldVars, up, closing>>

ListenFails(t) ==
    /\ StartsFail
    /\ At(t, "listen")
    /\ Fail(t)
    /\ UNCHANGED worldVars

-----------------------------------------------------------------------------
(* Calls and shutdown *)

\* Calls arrive on the socket of any supervisor that still listens.
Reachable == up /\ \E n \in Nonce : sup[n].open

\* The first turn of stop; a supervisor that is being stopped returns at once.
BeginStop(t, n, do, a) ==
    /\ sup' = [sup EXCEPT ![n].stopped = TRUE]
    /\ thread' = [thread EXCEPT ![t] =
          [pc |-> IF sup[n].stopped THEN "stopped" ELSE "stop", do |-> do, adk |-> a,
           nonce |-> n, pid |-> sup[n].pid, level |-> 0]]

\* Starts the next supervisor and leaves the last one running.
SwitchWithoutStop(t, to) ==
    /\ Reachable /\ t # Main /\ thread[t] = Idle
    /\ to # currentAdk /\ LaunchLeft
    /\ thread' = [thread EXCEPT ![t] = Job("judge", "switch", to)]
    /\ UNCHANGED <<worldVars, daemonVars>>

\* switchAdk(from, to); without a current supervisor it goes on to reconcile.
Switch(t, to) ==
    /\ Reachable /\ t # Main /\ thread[t] = Idle
    /\ to # currentAdk /\ LaunchLeft
    /\ IF current # 0 THEN BeginStop(t, current, "switch", to)
       ELSE thread' = [thread EXCEPT ![t] = Job("judge", "switch", to)] /\ UNCHANGED sup
    /\ UNCHANGED <<worldVars, up, closing, current, currentAdk>>

\* The call stop of the administrator.
Stop(t) ==
    /\ Reachable /\ t # Main /\ thread[t] = Idle
    /\ current # 0
    /\ BeginStop(t, current, "stop", NoAdk)
    /\ UNCHANGED <<worldVars, up, closing, current, currentAdk>>

\* The call reconcileLease, for any ADK.
Reconcile(t, a) ==
    /\ Reachable /\ t # Main /\ thread[t] = Idle
    /\ thread' = [thread EXCEPT ![t] = Job("judge", "reconcile", a)]
    /\ UNCHANGED <<worldVars, daemonVars>>

\* SIGTERM or EOF on stdin, once the daemon is ready: it gives up its current
\* supervisor first and stops it then; without one it exits.
Shutdown ==
    /\ up /\ ~closing /\ thread[Main] = Idle
    /\ IF current = 0 THEN Die
       ELSE /\ closing' = TRUE
            /\ current' = 0
            /\ BeginStop(Main, current, "exit", NoAdk)
            /\ UNCHANGED <<up, currentAdk>>
    /\ UNCHANGED worldVars

Child(n) == sup[n].pid # NoPid /\ ~sup[n].exited

\* Goes on for ever.
EscalateAgain(t) ==
    /\ At(t, "stop") /\ Child(thread[t].nonce)
    /\ thread' = [thread EXCEPT ![t].level = @ + 1]
    /\ UNCHANGED <<worldVars, daemonVars>>

\* Gives the browser no signal.
EscalateGently(t) ==
    /\ At(t, "stop") /\ Child(thread[t].nonce)
    /\ thread[t].level < 2
    /\ thread' = [thread EXCEPT ![t].level = @ + 1]
    /\ UNCHANGED <<proc, doomed, lease, launches, lost, harmed, daemonVars>>

\* A deadline of stop passes while the browser lives: first its pipe is
\* closed, then it gets SIGKILL through its process handle.
Escalate(t) ==
    /\ At(t, "stop") /\ Child(thread[t].nonce)
    /\ thread[t].level < 2
    /\ thread' = [thread EXCEPT ![t].level = @ + 1]
    /\ doomed' = IF thread[t].level = 1 THEN doomed \cup {sup[thread[t].nonce].pid} ELSE doomed
    /\ UNCHANGED <<proc, lease, launches, lost, harmed, daemonVars>>

\* Closes the server and removes the lease without waiting.
StopEndsEarly(t) == At(t, "stop")

\* The browser is gone, or not even SIGKILL ended it in time.
StopEnds(t) ==
    /\ At(t, "stop")
    /\ ~Child(thread[t].nonce) \/ (thread[t].level = 2 /\ ~KillIsPrompt)

\* The last turn of stop: the server is closed, the lease removed.
FinishStop(t) ==
    LET n == thread[t].nonce
    IN  /\ StopEnds(t)
        /\ sup' = [sup EXCEPT ![n].open = FALSE]
        /\ RemoveLease(sup[n].adk)
        /\ GoTo(t, "stopped")
        /\ UNCHANGED <<proc, doomed, launches, lost, harmed, up, closing, current, currentAdk>>

\* What follows a stop: the caller's current = null, or the process's end.
Stopped(t) ==
    /\ At(t, "stopped")
    /\ IF thread[t].do = "exit" THEN Die
       ELSE /\ current' = 0
            /\ thread' = [thread EXCEPT ![t] =
                   IF @.do = "switch" THEN [@ EXCEPT !.pc = "wait"] ELSE Idle]
            /\ UNCHANGED <<up, closing, currentAdk, sup>>
    /\ UNCHANGED worldVars

\* waitForPidExit of switchAdk: ten seconds for the pid to be free.
WaitEnds(t) ==
    /\ At(t, "wait")
    /\ \/ ~Alive(thread[t].pid) /\ GoTo(t, "judge") /\ UNCHANGED daemonVars
       \/ Alive(thread[t].pid) /\ Fail(t)
    /\ UNCHANGED worldVars

-----------------------------------------------------------------------------
(* Processes *)

\* A browser may end at any time.  The daemon's exit handler for it runs, and
\* removes the lease of its ADK.
BrowserExits(p) ==
    LET n == proc[p].nonce
    IN  /\ n # 0
        /\ proc' = [proc EXCEPT ![p] = NoProc]
        /\ doomed' = doomed \ {p}
        /\ IF sup[n].pid = p
           THEN /\ sup' = [sup EXCEPT ![n].exited = TRUE]
                /\ RemoveLease(sup[n].adk)
           ELSE UNCHANGED <<sup, lease>>
        /\ UNCHANGED <<launches, lost, harmed, up, closing, current, currentAdk, thread>>

ForeignStarts(p) ==
    /\ PidReuse
    /\ ~Alive(p)
    /\ proc' = [proc EXCEPT ![p] = Foreign]
    /\ UNCHANGED <<doomed, lease, launches, lost, harmed, daemonVars, thread>>

ForeignExits(p) ==
    /\ proc[p].foreign
    /\ proc' = [proc EXCEPT ![p] = NoProc]
    /\ doomed' = doomed \ {p}
    /\ UNCHANGED <<lease, launches, lost, harmed, daemonVars, thread>>

-----------------------------------------------------------------------------

ThreadStep(t) ==
    \/ JudgeOnly(t) \/ Terminate(t) \/ KillAfterGrace(t) \/ Reclaim(t)
    \/ Launch(t) \/ LaunchFails(t) \/ Listen(t) \/ ListenFails(t)
    \/ Escalate(t) \/ FinishStop(t) \/ Stopped(t) \/ WaitEnds(t)

Request(t) ==
    \/ \E a \in Adk : Switch(t, a) \/ Reconcile(t, a)
    \/ Stop(t)

Next ==
    \/ \E a \in Adk : Boot(a)
    \/ Crash \/ Shutdown
    \/ \E t \in Thread : ThreadStep(t) \/ Request(t)
    \/ \E p \in Pid : BrowserExits(p) \/ ForeignStarts(p) \/ ForeignExits(p)

Spec == Init /\ [][Next]_vars

\* A browser without a daemon sees EOF on its pipe.
Orphan(p) == proc[p].nonce # 0 /\ sup[proc[p].nonce].pid # p

\* Node runs its turns and timers; SIGKILL and EOF end a browser in the end.
\* No browser need obey Browser.close or SIGTERM.
Fairness ==
    /\ \A t \in Thread : WF_vars(ThreadStep(t))
    /\ \A p \in Pid : WF_vars((p \in doomed \/ Orphan(p)) /\ BrowserExits(p))
    /\ \A p \in Pid : WF_vars(p \in doomed /\ ForeignExits(p))

FairSpec == Spec /\ Fairness

-----------------------------------------------------------------------------
(* Safety *)

Processes == {NoProc, Foreign} \cup {Browser(a, n) : a \in Adk, n \in Nonce}

Leases == {NoLease, Garbled} \cup {LeaseOf(p, n) : p \in Pid, n \in Nonce}

Supervisors ==
    {s \in [adk: Adk \cup {NoAdk}, pid: Pid \cup {NoPid},
            open: BOOLEAN, stopped: BOOLEAN, exited: BOOLEAN] :
        s.pid # NoPid => s.adk \in Adk}

Threads ==
    {k \in [pc: {"idle", "judge", "termed", "killed", "launch", "listen", "stop", "stopped", "wait"},
            do: {"none", "start", "switch", "reconcile", "stop", "exit"},
            adk: Adk \cup {NoAdk}, nonce: {0} \cup Nonce, pid: Pid \cup {NoPid}, level: 0..2] :
        /\ k.pc \in {"judge", "termed", "killed", "launch", "listen", "wait"} => k.adk \in Adk
        /\ k.do \in {"switch", "start"} => k.adk \in Adk
        /\ k.pc \in {"termed", "killed"} => k.pid \in Pid
        /\ k.pc \in {"listen", "stop"} => k.nonce # 0}

TypeOK ==
    /\ proc \in [Pid -> Processes]
    /\ doomed \subseteq Pid /\ lost \subseteq Nonce /\ harmed \subseteq {"TERM", "KILL"}
    /\ lease \in [Adk -> Leases]
    /\ up \in BOOLEAN /\ closing \in BOOLEAN
    /\ current \in {0} \cup Nonce /\ currentAdk \in Adk \cup {NoAdk}
    /\ launches \in 0..MaxLaunch
    /\ sup \in [Nonce -> Supervisors]
    /\ thread \in [Thread -> Threads]

\* Every browser is named by the lease file of its ADK, so that the next start
\* can reclaim it, wherever the daemon dies; the exceptions are browsers whose
\* daemon died inside the turn that launched them or was already shutting down
\* (contract 4.8, the header of supervisor.mjs).  So no two browsers share a
\* profile.
EveryBrowserIsLeased ==
    \A p \in Pid : LET b == proc[p] IN
        b.nonce # 0 /\ b.nonce \notin lost => lease[b.adk] = LeaseOf(p, b.nonce)

\* A daemon has one browser at a time: switchAdk launches the next one when
\* the last one is gone (contract 4.8; a daemon that shuts down may be late).
ChildrenAlone ==
    closing \/ \A n, m \in Nonce : Child(n) /\ Child(m) => n = m

\* The first signal of a reconciliation hits no other program's process,
\* although pids are reused (reconcile.mjs, case b).
NoForeignTerm == "TERM" \notin harmed

\* No signal of a reconciliation hits another program's process.
KillsOnlyOurs == harmed = {}

-----------------------------------------------------------------------------
(* Liveness *)

\* Every call of the daemon ends, and a browser whose supervisor is stopped is
\* gone in the end, even if it ignores Browser.close and the end of its pipe.
CallsAndBrowsersEnd ==
    /\ \A t \in Thread : thread[t] # Idle ~> thread[t] = Idle
    /\ \A n \in Nonce : sup[n].stopped ~> \A p \in Pid : proc[p].nonce # n
=============================================================================
