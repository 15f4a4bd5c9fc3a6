--------------------------- MODULE AgentLifecycle ---------------------------
(***************************************************************************)
(* How the shell starts, replaces and stops its agent process              *)
(* (packages/shell/src-tauri/src/lib.rs).  The agent is a child process    *)
(* with a nonce on its command line; a lease file names the nonce, so that *)
(* a shell that crashed can be cleaned up after, and no second agent is    *)
(* started beside a living one.  Inside a shell three mutexes meet: the    *)
(* lifecycle lock around every replacement, the slot with the process, and *)
(* the cache of messages that every new agent is told.                     *)
(*                                                                         *)
(* One action is what a thread does between two waits: for a lock, for a   *)
(* process to end, for the handshake.  A shell may be killed between any   *)
(* two.  Discord's own files, the gateway and the sidecars are left out.   *)
(***************************************************************************)
EXTENDS Naturals, FiniteSets

CONSTANTS
    Shell, Caller,   \* shells, and the commands each may serve at a time
    Agent,           \* agent processes: the nonces the shells may draw
    Adk,             \* workspaces
    NoShell, NoAgent, NoAdk, NoThread,
    MaxCalls,        \* bound on the commands of a behaviour, setups included
    Hangs,           \* a process may outlive SIGKILL for the reap timeout
    Faults,          \* lease files, spawning and connecting to an agent may fail
    Reaps,           \* the platform can reap an orphan (not macOS)
    DevReset         \* a development build forgets its workspace and goes on

Thread == Shell \X Caller
Home(t) == t[1]

ASSUME AgentAssumption ==
    /\ NoShell \notin Shell /\ NoAgent \notin Agent /\ NoAdk \notin Adk
    /\ NoThread \notin Thread /\ MaxCalls \in Nat
    /\ {Hangs, Faults, Reaps, DevReset} \subseteq BOOLEAN

VARIABLES
    path,        \* the file adk-path
    lease,       \* the lease file: whose nonce, and whether it has the pid
    leaseLock,   \* the thread that holds the lock file
    agent,       \* the processes: life, parent, workspace
    foreign,     \* history: messages of another workspace an agent was sent
    up,
    slot,        \* state.agent
    slotLock,    \* the thread that holds state.agent across a wait
    lifecycle,   \* the thread that holds state.discord_lifecycle
    pending,     \* state.agent_relaunch_pending
    prepared,    \* history: prepare_app_relaunch succeeded, nobody cancelled
    hot,         \* state.last_agent_restart is less than 5 s ago
    startup,     \* state.startup_messages: scope, whose messages are cached
    reaping,     \* children of background reapers
    web,         \* the page: stored workspace, those its callbacks may name,
                 \* and whether a binding was confirmed since it was loaded
    call,        \* the commands being served
    calls

disk == <<path, lease, leaseLock>>
locks == <<slot, slotLock, lifecycle>>
flags == <<pending, prepared, hot>>
vars == <<disk, agent, foreign, up, locks, flags, startup, reaping, web, call, calls>>

Job == {"none", "setup", "send", "resend", "startup", "write", "forget",
        "prepare", "config", "withdraw", "delete", "teardown"}
Pc == {"idle", "send", "reserve", "wait", "check", "take", "drain", "spawn",
       "judge", "launch", "record", "handshake", "abort", "publish", "replay",
       "deliver", "mark", "tell", "back", "fail", "seize", "drop", "exit"}
Startup == [scope : Adk \cup {NoAdk}, cache : SUBSET Adk]
Unbound == [scope |-> NoAdk, cache |-> {}]
NoCall == [pc |-> "idle", job |-> "none", arg |-> NoAdk, hand |-> NoAgent,
           path |-> NoAdk, startup |-> Unbound]
Calls == [pc : Pc, job : Job, arg : Adk \cup {NoAdk}, hand : Agent \cup {NoAgent},
          path : Adk \cup {NoAdk}, startup : Startup]
Processes == [life : {"unborn", "alive", "dead"}, parent : Shell \cup {NoShell},
              adk : Adk \cup {NoAdk}]
Pages == [local : Adk \cup {NoAdk}, seen : SUBSET Adk, bound : BOOLEAN]

TypeOK ==
    /\ path \in Adk \cup {NoAdk}
    /\ lease \in [of : Agent \cup {NoAgent}, pid : BOOLEAN]
    /\ leaseLock \in Thread \cup {NoThread}
    /\ agent \in [Agent -> Processes]
    /\ foreign \subseteq Agent \X Adk
    /\ up \in [Shell -> BOOLEAN]
    /\ slot \in [Shell -> Agent \cup {NoAgent}]
    /\ slotLock \in [Shell -> Thread \cup {NoThread}]
    /\ lifecycle \in [Shell -> Thread \cup {NoThread}]
    /\ pending \in [Shell -> BOOLEAN] /\ prepared \in [Shell -> BOOLEAN]
    /\ hot \in [Shell -> BOOLEAN]
    /\ startup \in [Shell -> Startup]
    /\ reaping \in [Shell -> SUBSET Agent]
    /\ web \in [Shell -> Pages]
    /\ call \in [Thread -> Calls]
    /\ calls \in 0..MaxCalls

Init ==
    /\ path \in Adk \cup {NoAdk}
    /\ lease = [of |-> NoAgent, pid |-> FALSE] /\ leaseLock = NoThread
    /\ agent = [a \in Agent |-> [life |-> "unborn", parent |-> NoShell,
                                 adk |-> NoAdk]]
    /\ foreign = {}
    /\ up = [s \in Shell |-> FALSE]
    /\ slot = [s \in Shell |-> NoAgent]
    /\ slotLock = [s \in Shell |-> NoThread] /\ lifecycle = slotLock
    /\ pending = up /\ prepared = up /\ hot = up
    /\ startup = [s \in Shell |-> Unbound]
    /\ reaping = [s \in Shell |-> {}]
    /\ web = [s \in Shell |-> [local |-> path, seen |-> {}, bound |-> FALSE]]
    /\ call = [t \in Thread |-> NoCall] /\ calls = 0

Alive(a) == a # NoAgent /\ agent[a].life = "alive"
At(t, p) == call[t].pc = p
Go(t, p) == call' = [call EXCEPT ![t].pc = p]
Hold(t, p, a) == call' = [call EXCEPT ![t] = [@ EXCEPT !.pc = p, !.hand = a]]
Turn(t, p, j) == call' = [call EXCEPT ![t] = [@ EXCEPT !.pc = p, !.job = j]]
Remember(t, p) == call' = [call EXCEPT ![t] =
                     [@ EXCEPT !.pc = p, !.path = path, !.startup = startup[Home(t)]]]
Done(t) == call' = [call EXCEPT ![t] = NoCall]
SlotFree(t) == slotLock[Home(t)] = NoThread
LeaseFree == leaseLock = NoThread
Leave(t) == lifecycle' = [lifecycle EXCEPT ![Home(t)] = NoThread]

\* cleanup_owned_agent_child_with.  A lease of somebody else means that ours
\* was superseded; one that has gone is written again first.
Superseded(a) == lease.of \notin {a, NoAgent}
Cleaned(a) == IF Superseded(a) THEN lease
              ELSE IF Alive(a) THEN [of |-> a, pid |-> TRUE]
              ELSE [of |-> NoAgent, pid |-> FALSE]

-----------------------------------------------------------------------------
(* The shell and its page.                                                 *)

\* The page is loaded anew and setup starts the first agent on a thread.
Boot(s) ==
    /\ ~up[s] /\ calls < MaxCalls /\ calls' = calls + 1
    /\ up' = [up EXCEPT ![s] = TRUE]
    /\ web' = [web EXCEPT ![s] = [local |-> @.local, seen |-> {@.local} \ {NoAdk},
                                  bound |-> FALSE]]
    /\ \E c \in Caller :
         call' = [call EXCEPT ![<<s, c>>] = [NoCall EXCEPT !.pc = "wait", !.job = "setup"]]
    /\ UNCHANGED <<disk, agent, foreign, locks, flags, startup, reaping>>

\* The shell is gone, with its threads and what they held; its agents live on.
Down(s) ==
    /\ up' = [up EXCEPT ![s] = FALSE]
    /\ call' = [t \in Thread |-> IF Home(t) = s THEN NoCall ELSE call[t]]
    /\ leaseLock' = IF leaseLock \in Thread /\ Home(leaseLock) = s THEN NoThread ELSE leaseLock
    /\ agent' = [a \in Agent |-> IF agent[a].parent = s
                                 THEN [agent[a] EXCEPT !.parent = NoShell] ELSE agent[a]]
    /\ slot' = [slot EXCEPT ![s] = NoAgent]
    /\ slotLock' = [slotLock EXCEPT ![s] = NoThread]
    /\ lifecycle' = [lifecycle EXCEPT ![s] = NoThread]
    /\ pending' = [pending EXCEPT ![s] = FALSE]
    /\ prepared' = [prepared EXCEPT ![s] = FALSE]
    /\ hot' = [hot EXCEPT ![s] = FALSE]
    /\ startup' = [startup EXCEPT ![s] = Unbound]
    /\ reaping' = [reaping EXCEPT ![s] = {}]
    /\ UNCHANGED <<path, lease, foreign, web, calls>>

Crash(s) == up[s] /\ Down(s)

\* A command of the page.  Most are refused at once while a relaunch is
\* pending; prepare_app_relaunch claims the flag.
PageJob == Job \ {"none", "setup", "resend"}
Refused(j) == j \notin {"forget", "withdraw", "delete", "teardown"}
FirstPc(j) == CASE j = "send" -> "send"
                [] j \in {"delete", "teardown"} -> "seize"
                [] OTHER -> "wait"
Call(t, j, x) ==
    LET s == Home(t) IN
    /\ up[s] /\ At(t, "idle") /\ calls < MaxCalls
    /\ \A c \in Caller : call[<<s, c>>].job # "teardown"
    /\ Refused(j) => ~pending[s]
    /\ CASE j = "write" -> x \in Adk
         [] j = "startup" -> x \in web[s].seen
         [] j = "forget" -> x = NoAdk /\ (prepared[s] \/ DevReset)
         [] OTHER -> x = NoAdk
    /\ pending' = [pending EXCEPT ![s] = @ \/ j = "prepare"]
    /\ call' = [call EXCEPT ![t] = [NoCall EXCEPT !.pc = FirstPc(j), !.job = j, !.arg = x]]
    /\ calls' = calls + 1
    /\ UNCHANGED <<disk, agent, foreign, up, locks, prepared, hot, startup, reaping, web>>

\* store_startup_message: bound to the cached scope, or binding an unbound one.
Store(s, x) ==
    /\ up[s] /\ ~pending[s] /\ x \in web[s].seen
    /\ startup[s].scope \in {x, NoAdk}
    /\ startup' = [startup EXCEPT ![s] = [scope |-> x, cache |-> @.cache \cup {x}]]
    /\ UNCHANGED <<disk, agent, foreign, up, locks, flags, reaping, web, call, calls>>

\* The page calls it when what it prepared for failed; it has awaited the answer
\* to forget by then (resetAdkPathWithRelaunch).
CancelRelaunch(s) ==
    /\ up[s] /\ prepared[s]
    /\ \A c \in Caller : call[<<s, c>>].job # "forget"
    /\ pending' = [pending EXCEPT ![s] = FALSE]
    /\ prepared' = [prepared EXCEPT ![s] = FALSE]
    /\ UNCHANGED <<disk, agent, foreign, up, locks, hot, startup, reaping, web, call, calls>>

\* Mutant of Tell: callbacks may name the workspace that was forgotten.
TellOfNone(t) ==
    LET s == Home(t)  x == call[t].arg IN
    /\ At(t, "tell")
    /\ web' = [web EXCEPT ![s] = [local |-> x, seen |-> @.seen \cup {x},
                                  bound |-> @.bound \/ x # NoAdk]]
    /\ Done(t)
    /\ UNCHANGED <<disk, agent, foreign, up, locks, flags, startup, reaping, calls>>

\* The answer of write_naia_path_cache or clear_naia_path_cache reaches the page.
Tell(t) ==
    LET s == Home(t)  x == call[t].arg IN
    /\ At(t, "tell")
    /\ web' = [web EXCEPT ![s] = [local |-> x, seen |-> @.seen \cup ({x} \ {NoAdk}),
                                  bound |-> @.bound \/ x # NoAdk]]
    /\ Done(t)
    /\ UNCHANGED <<disk, agent, foreign, up, locks, flags, startup, reaping, calls>>

CoolDown(s) ==
    /\ hot[s] /\ hot' = [hot EXCEPT ![s] = FALSE]
    /\ UNCHANGED <<disk, agent, foreign, up, locks, pending, prepared, startup, reaping,
                   web, call, calls>>

\* An agent ends: by itself, asked to, or killed.
AgentEnds(a) ==
    /\ Alive(a) /\ agent' = [agent EXCEPT ![a].life = "dead"]
    /\ UNCHANGED <<disk, foreign, up, locks, flags, startup, reaping, web, call, calls>>

-----------------------------------------------------------------------------
(* Sending, with crash recovery.                                           *)

\* send_to_agent; after a restart it is tried once more, without recovery.
SendStops(t) ==
    LET s == Home(t) IN
    /\ At(t, "send") /\ SlotFree(t)
    /\ \/ pending[s]
       \/ slot[s] = NoAgent /\ call[t].job = "resend"
       \/ Alive(slot[s])   \* delivered
    /\ Done(t)
    /\ UNCHANGED <<disk, agent, foreign, up, locks, flags, startup, reaping, web, calls>>

SendFindsNone(t) ==
    LET s == Home(t) IN
    /\ At(t, "send") /\ SlotFree(t) /\ ~pending[s]
    /\ slot[s] = NoAgent /\ call[t].job = "send"
    /\ Go(t, "reserve")
    /\ UNCHANGED <<disk, agent, foreign, up, locks, flags, startup, reaping, web, calls>>

\* The record is dropped under the lock of the slot, which ends the process.
Seizes(t) ==
    LET s == Home(t) IN
    /\ slotLock' = [slotLock EXCEPT ![s] = t]
    /\ slot' = [slot EXCEPT ![s] = NoAgent]
    /\ Hold(t, "drop", slot[s])
    /\ UNCHANGED <<disk, agent, foreign, up, lifecycle, flags, startup, reaping, web, calls>>

\* It ended, or its dispatcher did because it could not connect.
SendFindsLost(t) ==
    LET a == slot[Home(t)] IN
    /\ At(t, "send") /\ SlotFree(t) /\ ~pending[Home(t)]
    /\ a # NoAgent /\ (Alive(a) => Faults)
    /\ Seizes(t)

\* The agent part of delete_naia_adk, and the window's end.
SeizeForGood(t) == At(t, "seize") /\ SlotFree(t) /\ slot[Home(t)] # NoAgent /\ Seizes(t)

SeizeNothing(t) ==
    /\ At(t, "seize") /\ SlotFree(t) /\ slot[Home(t)] = NoAgent
    /\ IF call[t].job = "teardown" THEN Go(t, "exit") ELSE Done(t)
    /\ UNCHANGED <<disk, agent, foreign, up, locks, flags, startup, reaping, web, calls>>

AfterDrop(j) == CASE j = "send" -> "reserve" [] j = "startup" -> "take"
                  [] j = "teardown" -> "exit" [] OTHER -> "idle"

\* Mutant of DropEnds: it asks for the lifecycle lock with the slot in its hand.
DropAsksForLifecycle(t) ==
    LET s == Home(t)  a == call[t].hand  j == call[t].job
        cold == j = "startup" /\ hot[s] IN
    /\ lifecycle[s] \in {NoThread, t} /\ At(t, "drop") /\ LeaseFree /\ (Alive(a) => Hangs)
    /\ lease' = Cleaned(a) \/ (Faults /\ lease' = lease)
    /\ slotLock' = [slotLock EXCEPT ![s] = NoThread]
    /\ hot' = [hot EXCEPT ![s] = @ \/ j = "startup"]
    /\ lifecycle' = [lifecycle EXCEPT ![s] = IF cold THEN NoThread ELSE @]
    /\ IF cold \/ AfterDrop(j) = "idle" THEN Done(t) ELSE Hold(t, AfterDrop(j), NoAgent)
    /\ UNCHANGED <<path, leaseLock, agent, foreign, up, slot, pending, prepared, startup,
                   reaping, web, calls>>

\* Drop for AgentProcess: the process has ended, or would not; either way the
\* lease is looked after.  Startup messages reserve their restart only now.
DropEnds(t) ==
    LET s == Home(t)  a == call[t].hand  j == call[t].job
        cold == j = "startup" /\ hot[s] IN
    /\ At(t, "drop") /\ LeaseFree /\ (Alive(a) => Hangs)
    /\ lease' = Cleaned(a) \/ (Faults /\ lease' = lease)
    /\ slotLock' = [slotLock EXCEPT ![s] = NoThread]
    /\ hot' = [hot EXCEPT ![s] = @ \/ j = "startup"]
    /\ lifecycle' = [lifecycle EXCEPT ![s] = IF cold THEN NoThread ELSE @]
    /\ IF cold \/ AfterDrop(j) = "idle" THEN Done(t) ELSE Hold(t, AfterDrop(j), NoAgent)
    /\ UNCHANGED <<path, leaseLock, agent, foreign, up, slot, pending, prepared, startup,
                   reaping, web, calls>>

Exit(t) == At(t, "exit") /\ Down(Home(t))

\* reserve_agent_restart, before the lifecycle lock is asked for.
Reserve(t) ==
    LET s == Home(t)  refused == pending[s] \/ hot[s] IN
    /\ At(t, "reserve")
    /\ hot' = [hot EXCEPT ![s] = @ \/ ~refused]
    /\ IF refused THEN Done(t) ELSE Go(t, "wait")
    /\ UNCHANGED <<disk, agent, foreign, up, locks, pending, prepared, startup, reaping,
                   web, calls>>

-----------------------------------------------------------------------------
(* Under the lifecycle lock.                                               *)

\* Refused at the door: a relaunch is pending, or startup IPC of another scope.
TurnedAway(t) ==
    LET s == Home(t)  c == call[t] IN
    /\ At(t, "wait") /\ lifecycle[s] = NoThread
    /\ \/ pending[s] /\ c.job \notin {"prepare", "forget", "withdraw"}
       \/ c.job = "startup" /\ startup[s].scope # c.arg
       \/ c.job = "write" /\ path # c.arg /\ hot[s]
    /\ Done(t)
    /\ UNCHANGED <<disk, agent, foreign, up, locks, flags, startup, reaping, web, calls>>

FirstInside(j) == CASE j = "setup" -> "spawn" [] j = "startup" -> "check" [] OTHER -> "take"

\* Mutant of Enter: the flag was looked at before the lock was waited for.
EnterUnasked(t) ==
    LET s == Home(t)  j == call[t].job IN
    /\ At(t, "wait") /\ lifecycle[s] = NoThread
    /\ j \in {"setup", "send", "config", "withdraw", "prepare", "startup"}
    /\ j = "startup" => startup[s].scope = call[t].arg
    /\ lifecycle' = [lifecycle EXCEPT ![s] = t]
    /\ Go(t, FirstInside(j))
    /\ UNCHANGED <<disk, agent, foreign, up, slot, slotLock, flags, startup, reaping, web, calls>>

Enter(t) ==
    LET s == Home(t)  j == call[t].job IN
    /\ At(t, "wait") /\ lifecycle[s] = NoThread
    /\ j \in {"setup", "send", "config", "withdraw", "prepare", "startup"}
    /\ pending[s] => j \in {"prepare", "withdraw"}
    /\ j = "startup" => startup[s].scope = call[t].arg
    /\ lifecycle' = [lifecycle EXCEPT ![s] = t]
    /\ Go(t, FirstInside(j))
    /\ UNCHANGED <<disk, agent, foreign, up, slot, slotLock, flags, startup, reaping, web, calls>>

\* Mutant of Scoped: the messages stay when the scope changes.
ScopedWithAll(m, x) == [m EXCEPT !.scope = x]

\* StartupMessageCache::set_scope
Scoped(m, x) == IF m.scope = x THEN m ELSE [scope |-> x, cache |-> {}]

\* write_naia_path_cache: file, then scope; only a change replaces the agent.
EnterWrite(t) ==
    LET s == Home(t)  x == call[t].arg IN
    /\ At(t, "wait") /\ call[t].job = "write" /\ lifecycle[s] = NoThread /\ ~pending[s]
    /\ startup' = [startup EXCEPT ![s] = Scoped(@, x)]
    /\ path' = x
    /\ \/ /\ path = x /\ Go(t, "tell")
          /\ UNCHANGED <<hot, lifecycle>>
       \/ /\ path # x /\ ~hot[s]
          /\ hot' = [hot EXCEPT ![s] = TRUE]
          /\ lifecycle' = [lifecycle EXCEPT ![s] = t]
          /\ Remember(t, "take")
    /\ UNCHANGED <<lease, leaseLock, agent, foreign, up, slot, slotLock, pending, prepared,
                   reaping, web, calls>>

\* clear_naia_path_cache
Forget(t) ==
    LET s == Home(t) IN
    /\ At(t, "wait") /\ call[t].job = "forget" /\ lifecycle[s] = NoThread
    /\ path' = NoAdk /\ startup' = [startup EXCEPT ![s] = Unbound]
    /\ Go(t, "tell")
    /\ UNCHANGED <<lease, leaseLock, agent, foreign, up, locks, flags, reaping, web, calls>>

\* send_startup_message_to_agent: is there an agent to send to?
CheckFinds(t) ==
    LET s == Home(t)  a == slot[s] IN
    /\ At(t, "check") /\ SlotFree(t)
    /\ \/ /\ Alive(a) /\ Go(t, "deliver") /\ UNCHANGED <<hot, lifecycle>>
       \/ /\ a = NoAgent /\ hot[s] /\ Done(t) /\ Leave(t) /\ UNCHANGED hot
       \/ /\ a = NoAgent /\ ~hot[s] /\ Go(t, "take")
          /\ hot' = [hot EXCEPT ![s] = TRUE] /\ UNCHANGED lifecycle
    /\ UNCHANGED <<disk, agent, foreign, up, slot, slotLock, pending, prepared, startup,
                   reaping, web, calls>>

CheckFindsLost(t) ==
    LET a == slot[Home(t)] IN
    /\ At(t, "check") /\ SlotFree(t) /\ a # NoAgent /\ ~Alive(a)
    /\ Seizes(t)

\* restart_agent_process_unlocked and its like take the process out of the
\* slot, and all but a relaunch and a quarantine look at the flag once more.
Take(t) ==
    LET s == Home(t)  j == call[t].job  a == slot[s] IN
    /\ At(t, "take") /\ SlotFree(t) /\ (pending[s] => j \in {"prepare", "withdraw"})
    /\ slot' = [slot EXCEPT ![s] = NoAgent]
    /\ IF a = NoAgent /\ j = "withdraw"
       THEN Done(t) /\ Leave(t)
       ELSE /\ Hold(t, IF a = NoAgent THEN "spawn" ELSE "drain", a)
            /\ UNCHANGED lifecycle
    /\ UNCHANGED <<disk, agent, foreign, up, slotLock, flags, startup, reaping, web, calls>>

TakeStops(t) ==
    /\ At(t, "take") /\ pending[Home(t)] /\ call[t].job \notin {"prepare", "withdraw"}
    /\ Go(t, "fail")
    /\ UNCHANGED <<disk, agent, foreign, up, locks, flags, startup, reaping, web, calls>>

\* graceful_shutdown_and_reap_agent, then finish_owned_cleanup. A relaunch keeps
\* the record until the lease is reconciled.
Drained(t) ==
    LET j == call[t].job  a == call[t].hand IN
    /\ At(t, "drain") /\ ~Alive(a) /\ LeaseFree
    /\ lease' = Cleaned(a)
    /\ IF j = "withdraw" THEN Done(t) /\ Leave(t)
       ELSE /\ Hold(t, "spawn", IF j = "prepare" THEN a ELSE NoAgent)
            /\ UNCHANGED lifecycle
    /\ UNCHANGED <<path, leaseLock, agent, foreign, up, slot, slotLock, flags, startup,
                   reaping, web, calls>>

\* It outlived the reap timeout, or its lease could not be removed.
DrainFails(t) ==
    /\ At(t, "drain")
    /\ \/ Hangs /\ Alive(call[t].hand)
       \/ Faults /\ ~Alive(call[t].hand) /\ LeaseFree /\ ~Superseded(call[t].hand)
    /\ Go(t, "back")
    /\ UNCHANGED <<disk, agent, foreign, up, locks, flags, startup, reaping, web, calls>>

PutBack(t) ==
    /\ At(t, "back") /\ SlotFree(t)
    /\ slot' = [slot EXCEPT ![Home(t)] = call[t].hand]
    /\ Hold(t, "fail", NoAgent)
    /\ UNCHANGED <<disk, agent, foreign, up, slotLock, lifecycle, flags, startup, reaping,
                   web, calls>>

-----------------------------------------------------------------------------
(* spawn_agent_core.                                                       *)

LockLease(t) ==
    LET s == Home(t)  j == call[t].job IN
    /\ At(t, "spawn") /\ LeaseFree
    /\ pending[s] => j \in {"prepare", "setup"}
    /\ j = "prepare" \/ reaping[s] = {}
    /\ leaseLock' = t /\ Go(t, "judge")
    /\ UNCHANGED <<path, lease, agent, foreign, up, locks, flags, startup, reaping, web, calls>>

SpawnRefused(t) ==
    LET s == Home(t)  j == call[t].job IN
    /\ At(t, "spawn") /\ j # "prepare"
    /\ (pending[s] /\ j # "setup") \/ reaping[s] # {}
    /\ Go(t, "fail")
    /\ UNCHANGED <<disk, agent, foreign, up, locks, flags, startup, reaping, web, calls>>

\* reap_orphaned_agent_process: no shell supervises it, and its pid is known.
Orphan(a) == Reaps /\ lease.pid /\ Alive(a) /\ agent[a].parent = NoShell
ReapOrphan(t) ==
    /\ At(t, "judge") /\ Orphan(lease.of)
    /\ agent' = [agent EXCEPT ![lease.of].life = "dead"]
    /\ UNCHANGED <<disk, foreign, up, locks, flags, startup, reaping, web, call, calls>>

\* agent_lease_live_blocked, an orphan that would not end, a fault, or no nonce
\* left to this model.
Blocked(t) ==
    LET c == call[t] IN
    /\ At(t, "judge")
    /\ \/ Alive(lease.of) /\ (Orphan(lease.of) => Hangs)
       \/ Faults
       \/ c.job # "prepare" /\ \A a \in Agent : agent[a].life # "unborn"
    /\ leaseLock' = NoThread
    /\ Go(t, IF c.job = "prepare" /\ c.hand # NoAgent THEN "back" ELSE "fail")
    /\ UNCHANGED <<path, lease, agent, foreign, up, locks, flags, startup, reaping, web, calls>>

\* Mutant of Clear: the lease is taken over whoever it names.
ClearUnasked(t) ==
    /\ At(t, "judge") /\ call[t].job # "prepare"
    /\ \E a \in Agent :
         /\ agent[a].life = "unborn" /\ \A u \in Thread : call[u].hand # a
         /\ lease' = [of |-> a, pid |-> FALSE]
         /\ Hold(t, "launch", a)
    /\ UNCHANGED <<path, leaseLock, agent, foreign, up, locks, flags, startup, reaping, web, calls>>

\* The lease is nobody's any more; the new one is written before the process is.
Clear(t) ==
    /\ At(t, "judge") /\ ~Alive(lease.of) /\ call[t].job # "prepare"
    /\ \E a \in Agent :
         /\ agent[a].life = "unborn" /\ \A u \in Thread : call[u].hand # a
         /\ lease' = [of |-> a, pid |-> FALSE]
         /\ Hold(t, "launch", a)
    /\ UNCHANGED <<path, leaseLock, agent, foreign, up, locks, flags, startup, reaping, web, calls>>

\* prepare_app_relaunch succeeds; the flag stays.
Prepare(t) ==
    LET s == Home(t) IN
    /\ At(t, "judge") /\ ~Alive(lease.of) /\ call[t].job = "prepare"
    /\ lease' = [of |-> NoAgent, pid |-> FALSE] /\ leaseLock' = NoThread
    /\ prepared' = [prepared EXCEPT ![s] = TRUE]
    /\ Done(t) /\ Leave(t)
    /\ UNCHANGED <<path, agent, foreign, up, slot, slotLock, pending, hot, startup, reaping,
                   web, calls>>

\* The workspace is read from the file once, here.
Launch(t) ==
    /\ At(t, "launch")
    /\ agent' = [agent EXCEPT ![call[t].hand] =
                   [life |-> "alive", parent |-> Home(t), adk |-> path]]
    /\ Go(t, "record")
    /\ UNCHANGED <<disk, foreign, up, locks, flags, startup, reaping, web, calls>>

LaunchFails(t) ==
    /\ At(t, "launch") /\ Faults
    /\ lease' \in {lease, Cleaned(call[t].hand)} /\ leaseLock' = NoThread
    /\ Hold(t, "fail", NoAgent)
    /\ UNCHANGED <<path, agent, foreign, up, locks, flags, startup, reaping, web, calls>>

Record(t) ==
    /\ At(t, "record")
    /\ \/ lease' = [lease EXCEPT !.pid = TRUE] /\ Go(t, "handshake")
       \/ Faults /\ lease' = lease /\ Go(t, "abort")
    /\ leaseLock' = NoThread
    /\ UNCHANGED <<path, agent, foreign, up, locks, flags, startup, reaping, web, calls>>

Handshake(t) ==
    /\ At(t, "handshake")
    /\ \/ Alive(call[t].hand) /\ Go(t, "publish")
       \/ Go(t, "abort")   \* it ended, or 20 s passed
    /\ UNCHANGED <<disk, agent, foreign, up, locks, flags, startup, reaping, web, calls>>

\* fail_spawned_discord_agent_startup: what it cannot end and clean up here
\* goes to a background reaper.
Abort(t) ==
    LET s == Home(t)  a == call[t].hand IN
    /\ At(t, "abort") /\ LeaseFree /\ (Alive(a) => Hangs)
    /\ \/ lease' = Cleaned(a)
          /\ reaping' = [reaping EXCEPT ![s] = @ \cup (IF Alive(a) THEN {a} ELSE {})]
       \/ Faults /\ ~Superseded(a) /\ lease' = lease
          /\ reaping' = [reaping EXCEPT ![s] = @ \cup {a}]
    /\ Hold(t, "fail", NoAgent)
    /\ UNCHANGED <<path, leaseLock, agent, foreign, up, locks, flags, startup, web, calls>>

\* A reaper that fails keeps its child for good: no step.
Reaper(s, a) ==
    /\ a \in reaping[s] /\ ~Alive(a) /\ LeaseFree
    /\ lease' = Cleaned(a)
    /\ reaping' = [reaping EXCEPT ![s] = @ \ {a}]
    /\ UNCHANGED <<path, leaseLock, agent, foreign, up, locks, flags, startup, web, call, calls>>

Publish(t) ==
    LET s == Home(t) IN
    /\ At(t, "publish") /\ SlotFree(t)
    /\ slot' = [slot EXCEPT ![s] = call[t].hand]
    /\ IF call[t].job = "setup" THEN Done(t) /\ Leave(t)
       ELSE /\ Hold(t, "replay", NoAgent)
            /\ UNCHANGED lifecycle
    /\ UNCHANGED <<disk, agent, foreign, up, slotLock, flags, startup, reaping, web, calls>>

Sent(a, X) == foreign' = foreign \cup
    {m \in {a} \X X : a # NoAgent /\ agent[a].adk # m[2]}

\* replay_startup_messages_to_agent, under the locks of cache and slot; then
\* each command goes on in its own way.
Replay(t) ==
    LET s == Home(t)  c == call[t] IN
    /\ At(t, "replay") /\ SlotFree(t)
    /\ Sent(slot[s], startup[s].cache)
    /\ \/ c.job = "send" /\ Leave(t) /\ Turn(t, "send", "resend")
       \/ c.job = "config" /\ Done(t) /\ Leave(t)
       \/ /\ c.job = "config" /\ UNCHANGED lifecycle   \* Discord did not get ready
          /\ Turn(t, "take", "withdraw")
       \/ /\ c.job = "startup" /\ startup[s].scope = c.arg
          /\ Go(t, "deliver") /\ UNCHANGED lifecycle
       \/ c.job = "startup" /\ startup[s].scope # c.arg /\ Done(t) /\ Leave(t)
       \/ c.job = "write" /\ Go(t, "mark") /\ UNCHANGED lifecycle
    /\ UNCHANGED <<disk, agent, up, slot, slotLock, flags, startup, reaping, web, calls>>

\* send_to_agent_without_restart: startup IPC, and the marker of a new workspace.
Reached(s) == ~pending[s] /\ slot[s] # NoAgent
Deliver(t) ==
    LET s == Home(t) IN
    /\ At(t, "deliver") /\ SlotFree(t)
    /\ \/ Reached(s) /\ Sent(slot[s], {call[t].arg})
       \/ (Reached(s) => Faults) /\ foreign' = foreign
    /\ Done(t) /\ Leave(t)
    /\ UNCHANGED <<disk, agent, up, slot, slotLock, flags, startup, reaping, web, calls>>

Mark(t) ==
    /\ At(t, "mark") /\ SlotFree(t)
    /\ \/ Reached(Home(t)) /\ Go(t, "tell")
       \/ (Reached(Home(t)) => Faults) /\ Done(t)
    /\ Leave(t)
    /\ UNCHANGED <<disk, agent, foreign, up, slot, slotLock, flags, startup, reaping, web, calls>>

\* An error return: a workspace change is rolled back, a relaunch gives the flag up.
Fail(t) ==
    LET s == Home(t)  c == call[t] IN
    /\ At(t, "fail")
    /\ IF c.job = "write"
       THEN path' = c.path /\ startup' = [startup EXCEPT ![s] = c.startup]
       ELSE UNCHANGED <<path, startup>>
    /\ pending' = [pending EXCEPT ![s] = @ /\ c.job # "prepare"]
    /\ Done(t) /\ Leave(t)
    /\ UNCHANGED <<lease, leaseLock, agent, foreign, up, slot, slotLock, prepared, hot,
                   reaping, web, calls>>

-----------------------------------------------------------------------------
Step(t) ==
    \/ Tell(t) \/ SendStops(t) \/ SendFindsNone(t) \/ SendFindsLost(t)
    \/ SeizeForGood(t) \/ SeizeNothing(t) \/ DropEnds(t) \/ Exit(t) \/ Reserve(t)
    \/ TurnedAway(t) \/ Enter(t) \/ EnterWrite(t) \/ Forget(t)
    \/ CheckFinds(t) \/ CheckFindsLost(t) \/ Take(t) \/ TakeStops(t)
    \/ Drained(t) \/ DrainFails(t) \/ PutBack(t)
    \/ LockLease(t) \/ SpawnRefused(t) \/ ReapOrphan(t) \/ Blocked(t) \/ Clear(t)
    \/ Prepare(t) \/ Launch(t) \/ LaunchFails(t) \/ Record(t) \/ Handshake(t)
    \/ Abort(t) \/ Publish(t) \/ Replay(t) \/ Deliver(t) \/ Mark(t) \/ Fail(t)

Next ==
    \/ \E t \in Thread : Step(t) \/ \E j \in PageJob, x \in Adk \cup {NoAdk} : Call(t, j, x)
    \/ \E s \in Shell : Boot(s) \/ Crash(s) \/ CancelRelaunch(s) \/ CoolDown(s)
                        \/ (\E x \in Adk : Store(s, x)) \/ \E a \in Agent : Reaper(s, a)
    \/ \E a \in Agent : AgentEnds(a)

Spec == Init /\ [][Next]_vars

\* Threads run; a process that is being drained or killed ends.
Doomed(a) == \/ \E t \in Thread : call[t].hand = a /\ call[t].pc \in {"drain", "drop", "abort"}
             \/ \E s \in Shell : a \in reaping[s]
Fairness == /\ \A t \in Thread : WF_vars(Step(t))
            /\ \A a \in Agent : WF_vars(Doomed(a) /\ AgentEnds(a))
FairSpec == Spec /\ Fairness

-----------------------------------------------------------------------------
\* A living agent of a running shell is in its slot, in somebody's hands on the
\* way there or out, or with a reaper.
Held(a, s) == \/ slot[s] = a \/ a \in reaping[s]
              \/ \E t \in Thread : Home(t) = s /\ call[t].hand = a

\* No stray agent: every living one is named by the lease file, so that there is
\* never a second and the next start can find it after a crash, and a running
\* shell has lost none of its own, however restarts, failed drains and starts,
\* crash recovery and the window's end cross (reconcile_agent_child_lease: a lease
\* whose process lives blocks the start, agent_lease_live_blocked).
NoStrayAgent == \A a \in Agent : Alive(a) =>
    /\ lease.of = a
    /\ agent[a].parent # NoShell => Held(a, agent[a].parent)

\* From prepare_app_relaunch's success until it is cancelled or the shell ends,
\* none of the shell's agents lives: neither a restart that was under way nor a
\* setup or crash recovery that waited starts one.
RelaunchIsQuiet == \A s \in Shell :
    prepared[s] => \A a \in Agent : Alive(a) => agent[a].parent # s

\* Once the page has bound its workspace, an agent is sent startup messages of
\* its own only, however late a callback of the old workspace comes and
\* whichever restart replays them (StartupMessageCache; send_startup_message).
ScopedMessages == [][\A a \in Agent, x \in Adk : \A s \in Shell :
    <<a, x>> \in foreign' \ foreign /\ agent[a].parent = s /\ web[s].bound
        => agent[a].adk = NoAdk]_vars

\* Every command is answered: nobody waits forever for the lifecycle lock, the
\* slot, the lease file or the end of a process.
CallsEnd == \A t \in Thread : ~At(t, "idle") ~> At(t, "idle")
=============================================================================
