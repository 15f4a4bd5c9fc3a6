--------------------------- MODULE OllamaRuntime ---------------------------
(***************************************************************************)
(* The local LLM server of the Rust back end                               *)
(* (packages/shell/src-tauri/src/ollama_runtime.rs) and the lease of the   *)
(* device it shares with the local voice engine (vram_reservation.rs).     *)
(* The shell starts a server of its own or uses one that is there already; *)
(* either way it must hold the lease.  Starting, stopping and removing are *)
(* threads behind one operation guard; beside them run status requests, a  *)
(* monitor per server, and the shutdown of the application, which respects *)
(* no guard.                                                               *)
(*                                                                         *)
(* One action is what a thread does under one lock, with what it does to   *)
(* things only it can reach. One device and one installed version; model   *)
(* pulls, the snapshot for the user interface and leases lost from under   *)
(* their owner are left out.                                               *)
(***************************************************************************)
EXTENDS Naturals, FiniteSets

CONSTANTS
    Child,        \* servers the shell may spawn
    Caller,       \* status requests
    Host,         \* servers a status request may ask for,
    Managed,      \* among them the address of our own
    Worker,       \* the thread of a start, a stop or a removal
    NoChild, NoHost, NoOne,
    StopsFail,    \* a process tree may outlive its stop
    DeathSignal   \* Linux: PR_SET_PDEATHSIG is set (line 1535)

ASSUME OllamaAssumption ==
    /\ Managed \in Host /\ Worker \notin Caller
    /\ Child \cap (Caller \cup {Worker}) = {}
    /\ {"free", "voice", "ext"} \cap (Child \cup Caller \cup {Worker}) = {}
    /\ NoChild \notin Child /\ NoHost \notin Host /\ NoOne \notin Caller \cup {Worker}
    /\ StopsFail \in BOOLEAN /\ DeathSignal \in BOOLEAN

VARIABLES
    op,         \* state.operation
    shutdown,   \* shutdown_requested
    process,    \* state.process
    unreaped,   \* unreaped_processes
    active,     \* the version is in active_versions
    ext,        \* external_reservation
    pending,    \* external_reservation_pending: whose generation it has
    lease,      \* who owns the lease of the device
    child,      \* the servers
    hand,       \* records a thread has taken out of the state
    pc,         \* the worker, and the server it waits for
    watched,
    monitors,   \* monitor threads
    starters,   \* servers whose starting thread has not ended
    closing,    \* the thread that shuts down
    at, host,   \* attempts to reserve for an external server
    outdated    \* history: attempts a stop or a shutdown withdrew

manager == <<op, shutdown, process, unreaped, active, ext, pending>>
attempts == <<at, host, outdated>>
worker == <<pc, watched>>
threads == <<monitors, starters, closing>>
vars == <<manager, lease, child, hand, worker, threads, attempts>>

Asker == Caller \cup {Worker}
Thread == {"worker", "monitor", "shutdown"}
NoLease == {"free", "voice"}
\* signalled: got SIGTERM though nobody is stopping it. exited: not yet reaped.
ChildStates == {"new", "alive", "signalled", "exited", "reaped"}
Unreaped == {"alive", "signalled", "exited"}
Steps == {"idle", "looks", "probes", "admits", "prepares", "reserves", "spawns",
          "registers", "rejects", "watches", "rewatches", "fails", "stops",
          "takes", "stopsAll", "removes"}

\* An entry of the pending table has an attempt behind it.
TypeOK ==
    /\ op \in {"none", "start", "stop", "reap", "remove"}
    /\ shutdown \in BOOLEAN /\ active \in BOOLEAN
    /\ process \in Child \cup {NoChild} /\ unreaped \subseteq Child
    /\ ext \in Host \cup {NoHost}
    /\ pending \in Asker \cup {NoOne}
    /\ pending # NoOne /\ ~shutdown => at[pending] \in {"reserves", "commits"}
    /\ lease \in NoLease \cup {"ext"} \cup Asker \cup Child
    /\ child \in [Child -> ChildStates]
    /\ hand \in [Thread -> SUBSET Child]
    /\ pc \in Steps /\ watched \in Child \cup {NoChild}
    /\ monitors \subseteq Child /\ starters \subseteq Child
    /\ closing \in {"no", "asked", "stops", "over"}
    /\ at \in [Asker -> {"idle", "asks", "reserves", "commits"}]
    /\ host \in [Asker -> Host]
    /\ outdated \subseteq Asker

Init ==
    /\ op = "none" /\ shutdown = FALSE /\ active = FALSE
    /\ process = NoChild /\ unreaped = {}
    /\ ext = NoHost /\ pending = NoOne /\ lease = "free"
    /\ child = [c \in Child |-> "new"]
    /\ hand = [t \in Thread |-> {}]
    /\ pc = "idle" /\ watched = NoChild
    /\ monitors = {} /\ starters = {} /\ closing = "no"
    /\ at = [a \in Asker |-> "idle"] /\ host = [a \in Asker |-> Managed]
    /\ outdated = {}

-----------------------------------------------------------------------------
(* Attempts to reserve the device for a server that is not ours            *)

\* status_snapshot, up to its probe, which says that somebody answers.
StatusBegins(a, h) ==
    /\ at[a] = "idle"
    /\ op = "none"
    /\ h = Managed => process = NoChild
    /\ at' = [at EXCEPT ![a] = "asks"] /\ host' = [host EXCEPT ![a] = h]
    /\ UNCHANGED <<manager, lease, child, hand, worker, threads, outdated>>

\* reserve_external_local, first lock: shutdown, the same host, or another attempt
\* settles it; else a reservation for another host is taken out,
AttemptBegins(a) ==
    /\ at[a] = "asks"
    /\ IF shutdown \/ ext = host[a] \/ pending # NoOne
       THEN /\ at' = [at EXCEPT ![a] = "idle"]
            /\ UNCHANGED <<ext, pending, lease>>
       ELSE /\ at' = [at EXCEPT ![a] = "reserves"]
            /\ pending' = a
            /\ ext' = NoHost
            /\ lease' = IF ext # NoHost THEN a ELSE lease
    /\ UNCHANGED <<op, shutdown, process, unreaped, active, child, hand, worker, threads, host,
                   outdated>>

\* Mutant of Forget: an attempt that fails leaves its entry.
ForgetNothing(a) == pending
Forget(a) == IF pending = a THEN NoOne ELSE pending

\* and dropped; try_reserve_kind_only grants the lease if nobody has it,
AttemptReserves(a) ==
    /\ at[a] = "reserves" /\ lease \in {"free", a}
    /\ lease' = a
    /\ at' = [at EXCEPT ![a] = "commits"]
    /\ UNCHANGED <<manager, child, hand, worker, threads, host, outdated>>

\* or refuses it, also for want of an inventory;
AttemptDenied(a) ==
    /\ at[a] = "reserves"
    /\ lease' = IF lease = a THEN "free" ELSE lease
    /\ pending' = Forget(a)
    /\ at' = [at EXCEPT ![a] = "idle"]
    /\ outdated' = outdated \ {a}
    /\ UNCHANGED <<op, shutdown, process, unreaped, active, ext, child, hand, worker, threads, host>>

\* Mutant of Current: the host is compared and the generation is not.
CurrentHost(a) == pending # NoOne /\ host[pending] = host[a] /\ ~shutdown
Current(a) == pending = a /\ ~shutdown

\* last lock: it counts only if its entry is still there.
AttemptCommits(a) ==
    /\ at[a] = "commits"
    /\ IF Current(a)
       THEN ext' = host[a] /\ lease' = "ext" /\ pending' = NoOne
       ELSE lease' = "free" /\ UNCHANGED <<ext, pending>>
    /\ at' = [at EXCEPT ![a] = "idle"]
    /\ outdated' = outdated \ {a}
    /\ UNCHANGED <<op, shutdown, process, unreaped, active, child, hand, worker, threads, host>>

\* The voice engine, external to this file, has the device instead.
VoiceTakes ==
    /\ lease = "free" /\ lease' = "voice"
    /\ UNCHANGED <<manager, child, hand, worker, threads, attempts>>
VoiceFrees ==
    /\ lease = "voice" /\ lease' = "free"
    /\ UNCHANGED <<manager, child, hand, worker, threads, attempts>>

-----------------------------------------------------------------------------
(* Start                                                                   *)

\* begin: refused while another operation runs or the application ends.
Begin(kind, step) ==
    /\ op = "none" /\ ~shutdown
    /\ op' = kind /\ pc' = step
    /\ UNCHANGED <<shutdown, process, unreaped, active, ext, pending, lease, child, hand, watched,
                   threads, attempts>>

StartBegins == Begin("start", "looks")

\* finish_*: the operation is over and the thread returns. The guard is released
\* for whoever holds it, since only shutdown takes it away from its owner.
Finish == op' = "none" /\ pc' = "idle" /\ watched' = NoChild

\* perform_start_operation looks whether a server of ours is recorded.
StartLooks ==
    /\ pc = "looks"
    /\ watched' = process
    /\ pc' = CASE process = NoChild -> "probes"
               [] process # NoChild /\ child[process] = "exited" -> "fails"
               [] OTHER -> "rewatches"
    /\ UNCHANGED <<manager, lease, child, hand, threads, attempts>>

\* No: somebody else's server answers,
FindsExternal ==
    /\ pc = "probes"
    /\ pc' = "admits"
    /\ at' = [at EXCEPT ![Worker] = "asks"] /\ host' = [host EXCEPT ![Worker] = Managed]
    /\ UNCHANGED <<manager, lease, child, hand, watched, threads, outdated>>

AdmissionEnds ==
    /\ pc = "admits" /\ at[Worker] = "idle"
    /\ Finish
    /\ UNCHANGED <<shutdown, process, unreaped, active, ext, pending, lease, child, hand, threads,
                   attempts>>

\* or nobody listens: release_external_reservation_for_host.
FindsNobody ==
    /\ pc = "probes"
    /\ pc' = "prepares"
    /\ ext' = IF ext = Managed THEN NoHost ELSE ext
    /\ lease' = IF ext = Managed THEN "free" ELSE lease
    /\ UNCHANGED <<op, shutdown, process, unreaped, active, pending, child, hand, watched, threads,
                   attempts>>

\* The version is installed if need be.
Prepares ==
    /\ pc = "prepares" /\ ~shutdown
    /\ pc' = "reserves"
    /\ UNCHANGED <<manager, lease, child, hand, watched, threads, attempts>>

\* Mutant of FailsEarly: the thread ends and the guard stays.
FailsSilently ==
    /\ pc \in {"looks", "probes", "prepares", "reserves", "takes"}
    /\ pc' = "idle" /\ watched' = NoChild
    /\ UNCHANGED <<manager, lease, child, hand, threads, attempts>>
\* finish_start_error and its like: the thread or the installation fails, the
\* answer to the probe is unintelligible, the reservation is refused.
FailsEarly ==
    /\ pc \in {"looks", "probes", "prepares", "reserves", "takes"}
    /\ Finish
    /\ UNCHANGED <<shutdown, process, unreaped, active, ext, pending, lease, child, hand, threads,
                   attempts>>

\* The thread returns and leaves the guard to shutdown.
StartQuits ==
    /\ shutdown
    /\ pc \in {"prepares", "watches"}
    /\ pc' = "idle" /\ watched' = NoChild
    /\ UNCHANGED <<manager, lease, child, hand, threads, attempts>>

StartReserves ==
    /\ pc = "reserves" /\ lease = "free"
    /\ lease' = Worker
    /\ pc' = "spawns"
    /\ UNCHANGED <<manager, child, hand, watched, threads, attempts>>

Spawns ==
    /\ pc = "spawns"
    /\ \E c \in Child :
          /\ child[c] = "new"
          /\ child' = [child EXCEPT ![c] = "alive"]
          /\ lease' = c /\ watched' = c
          /\ hand' = [hand EXCEPT !["worker"] = {c}]
          /\ starters' = starters \cup {c}
    /\ pc' = "registers"
    /\ UNCHANGED <<manager, monitors, closing, attempts>>

SpawnFails ==
    /\ pc = "spawns"
    /\ lease' = "free"
    /\ Finish
    /\ UNCHANGED <<shutdown, process, unreaped, active, ext, pending, child, hand, threads, attempts>>

Registers ==
    /\ pc = "registers"
    /\ IF shutdown \/ op # "start" \/ process # NoChild \/ unreaped # {}
       THEN pc' = "rejects" /\ UNCHANGED <<process, active, hand>>
       ELSE /\ pc' = "watches"
            /\ process' = watched /\ active' = TRUE
            /\ hand' = [hand EXCEPT !["worker"] = {}]
    /\ UNCHANGED <<op, shutdown, unreaped, ext, pending, lease, child, watched, threads, attempts>>

-----------------------------------------------------------------------------
(* Ending a server                                                         *)

\* stop_managed_child: the tree is gone and its leader reaped, or it is not.
Stopped(S) == child' = [c \in Child |-> IF c \in S THEN "reaped" ELSE child[c]]
Fails(S) == StopsFail /\ S # {}

\* A record whose child is reaped is dropped, and its lease with it.
Dropped(S) == IF lease \in S THEN "free" ELSE lease

RejectStops ==
    /\ pc = "rejects"
    /\ Stopped(hand["worker"])
    /\ lease' = Dropped(hand["worker"])
    /\ hand' = [hand EXCEPT !["worker"] = {}]
    /\ Finish
    /\ UNCHANGED <<shutdown, process, unreaped, active, ext, pending, threads, attempts>>

RejectFails ==
    /\ pc = "rejects" /\ Fails(hand["worker"])
    /\ unreaped' = unreaped \cup hand["worker"]
    /\ active' = TRUE
    /\ hand' = [hand EXCEPT !["worker"] = {}]
    /\ Finish
    /\ UNCHANGED <<shutdown, process, ext, pending, lease, child, threads, attempts>>

\* The server is ready. A new one gets its monitor; only then is the guard
\* released, so that the monitor sees nothing before.
Ready ==
    /\ pc \in {"watches", "rewatches"}
    /\ process = watched /\ child[watched] # "exited"
    /\ monitors' = IF pc = "watches" THEN monitors \cup {watched} ELSE monitors
    /\ Finish
    /\ UNCHANGED <<shutdown, process, unreaped, active, ext, pending, lease, child, hand, starters,
                   closing, attempts>>

\* It exited, was taken away, is not ready in time, or has no monitor.
NotReady ==
    /\ pc \in {"watches", "rewatches"}
    /\ pc' = IF pc = "watches" /\ process # watched THEN "idle" ELSE "fails"
    /\ watched' = IF pc' = "idle" THEN NoChild ELSE watched
    /\ UNCHANGED <<manager, lease, child, hand, threads, attempts>>

\* finish_start_with_process_error: takes the record if it is still there,
TakesFailed ==
    /\ pc = "fails"
    /\ IF process = watched
       THEN /\ process' = NoChild
            /\ hand' = [hand EXCEPT !["worker"] = {watched}]
            /\ pc' = "stops"
            /\ UNCHANGED <<op, watched>>
       ELSE Finish /\ UNCHANGED <<process, hand>>
    /\ UNCHANGED <<shutdown, unreaped, active, ext, pending, lease, child, threads, attempts>>

\* and stops the child. The lease is dropped with the record, after the guard.
FailedStops ==
    /\ pc = "stops"
    /\ Stopped({watched})
    /\ active' = FALSE
    /\ hand' = [hand EXCEPT !["worker"] = {}]
    /\ Finish
    /\ UNCHANGED <<shutdown, process, unreaped, ext, pending, lease, threads, attempts>>

\* Mutant of FailedStays: the record is not put back.
FailedForgotten ==
    /\ pc = "stops" /\ Fails({watched})
    /\ active' = TRUE
    /\ hand' = [hand EXCEPT !["worker"] = {}]
    /\ Finish
    /\ UNCHANGED <<shutdown, process, unreaped, ext, pending, lease, child, threads, attempts>>
FailedStays ==
    /\ pc = "stops" /\ Fails({watched})
    /\ active' = TRUE
    /\ process' = watched
    /\ hand' = [hand EXCEPT !["worker"] = {}]
    /\ Finish
    /\ UNCHANGED <<shutdown, unreaped, ext, pending, lease, child, threads, attempts>>

RecordIsDropped(c) ==
    /\ lease = c /\ child[c] = "reaped" /\ \A t \in Thread : c \notin hand[t]
    /\ lease' = "free"
    /\ UNCHANGED <<manager, child, hand, worker, threads, attempts>>

\* dispatch_stop is refused when there is nothing to stop.
StopBegins ==
    /\ process # NoChild \/ unreaped # {} \/ ext # NoHost \/ pending # NoOne
    /\ Begin("stop", "takes")

\* Stop and shutdown take everything and withdraw the attempts in flight.
TakesAll(t) ==
    /\ hand' = [hand EXCEPT ![t] = unreaped \cup ({process} \cap Child)]
    /\ process' = NoChild /\ unreaped' = {}
    /\ pending' = NoOne /\ ext' = NoHost
    /\ lease' = IF ext # NoHost THEN "free" ELSE lease
    /\ outdated' = {a \in Asker : at[a] \in {"reserves", "commits"}}

StopTakes ==
    /\ pc = "takes"
    /\ TakesAll("worker")
    /\ pc' = "stopsAll"
    /\ UNCHANGED <<op, shutdown, active, child, watched, threads, at, host>>

\* What cannot be stopped goes back to unreaped_processes.
StopsAll(t) ==
    \E failed \in SUBSET hand[t] :
        /\ failed # {} => Fails(failed)
        /\ Stopped(hand[t] \ failed)
        /\ lease' = Dropped(hand[t] \ failed)
        /\ active' = IF failed # {} THEN TRUE ELSE active /\ hand[t] = {}
        /\ unreaped' = IF failed # {} THEN failed ELSE unreaped
        /\ hand' = [hand EXCEPT ![t] = {}]

StopEnds ==
    /\ pc = "stopsAll"
    /\ StopsAll("worker")
    /\ Finish
    /\ UNCHANGED <<shutdown, process, ext, pending, threads, attempts>>

\* ollama_runtime_remove of a version in use is refused.
RemoveBegins == ~active /\ Begin("remove", "removes")

RemoveEnds ==
    /\ pc = "removes"
    /\ Finish
    /\ UNCHANGED <<shutdown, process, unreaped, active, ext, pending, lease, child, hand, threads,
                   attempts>>

-----------------------------------------------------------------------------
(* Monitor, shutdown, and the processes                                    *)

MonitorLeaves(c) ==
    /\ c \in monitors
    /\ shutdown \/ (op = "none" /\ process # c)
    /\ monitors' = monitors \ {c}
    /\ UNCHANGED <<manager, lease, child, hand, worker, starters, closing, attempts>>

\* spawn_process_monitor: an exit nobody asked for is cleaned up under the guard.
MonitorTakes(c) ==
    /\ c \in monitors /\ ~shutdown /\ op = "none"
    /\ process = c /\ child[c] = "exited"
    /\ op' = "reap"
    /\ process' = NoChild
    /\ hand' = [hand EXCEPT !["monitor"] = {c}]
    /\ monitors' = monitors \ {c}
    /\ UNCHANGED <<shutdown, unreaped, active, ext, pending, lease, child, worker, starters, closing,
                   attempts>>

MonitorEnds(c) ==
    /\ hand["monitor"] = {c}
    /\ op' = "none"
    /\ hand' = [hand EXCEPT !["monitor"] = {}]
    /\ \/ Stopped({c}) /\ active' = FALSE /\ UNCHANGED process
       \/ Fails({c}) /\ active' = TRUE /\ process' = c /\ UNCHANGED child
    /\ UNCHANGED <<shutdown, unreaped, ext, pending, lease, worker, threads, attempts>>

\* shutdown_manager refuses new operations,
ShutdownBegins ==
    /\ closing = "no"
    /\ shutdown' = TRUE /\ closing' = "asked"
    /\ UNCHANGED <<op, process, unreaped, active, ext, pending, lease, child, hand, worker, monitors,
                   starters, attempts>>

\* takes the guard from the one that runs, and everything else,
ShutdownTakes ==
    /\ closing = "asked"
    /\ TakesAll("shutdown")
    /\ op' = "none" /\ closing' = "stops"
    /\ UNCHANGED <<shutdown, active, child, worker, monitors, starters, at, host>>

\* and stops the children.
ShutdownEnds ==
    /\ closing = "stops"
    /\ StopsAll("shutdown")
    /\ closing' = "over"
    /\ UNCHANGED <<op, shutdown, process, ext, pending, worker, monitors, starters, attempts>>

\* A server ends by itself, or by the signal.
ChildExits(c) ==
    /\ child[c] \in {"alive", "signalled"}
    /\ child' = [child EXCEPT ![c] = "exited"]
    /\ UNCHANGED <<manager, lease, hand, worker, threads, attempts>>

\* The thread that spawned it returns; Linux signals the thread's children.
StarterEnds(c) ==
    /\ c \in starters /\ watched # c
    /\ starters' = starters \ {c}
    /\ child' = IF DeathSignal /\ child[c] = "alive" THEN [child EXCEPT ![c] = "signalled"] ELSE child
    /\ UNCHANGED <<manager, lease, hand, worker, monitors, closing, attempts>>

-----------------------------------------------------------------------------
AttemptSteps(a) ==
    AttemptBegins(a) \/ AttemptReserves(a) \/ AttemptDenied(a) \/ AttemptCommits(a)

StartSteps ==
    \/ StartLooks \/ FindsExternal \/ AdmissionEnds \/ FindsNobody \/ Prepares
    \/ FailsEarly \/ StartQuits \/ StartReserves \/ Spawns \/ SpawnFails \/ Registers
    \/ RejectStops \/ RejectFails \/ Ready \/ NotReady
    \/ TakesFailed \/ FailedStops \/ FailedStays

WorkerSteps == StartSteps \/ StopTakes \/ StopEnds \/ RemoveEnds
ShutdownSteps == ShutdownTakes \/ ShutdownEnds

Next ==
    \/ StartBegins \/ StopBegins \/ RemoveBegins \/ ShutdownBegins
    \/ WorkerSteps \/ ShutdownSteps
    \/ \E a \in Caller, h \in Host : StatusBegins(a, h)
    \/ \E a \in Asker : AttemptSteps(a)
    \/ \E c \in Child :
          \/ MonitorLeaves(c) \/ MonitorTakes(c) \/ MonitorEnds(c)
          \/ RecordIsDropped(c) \/ ChildExits(c) \/ StarterEnds(c)
    \/ VoiceTakes \/ VoiceFrees

Spec == Init /\ [][Next]_vars

\* Threads run, and every wait of theirs has a deadline. Nobody need ask for
\* anything, no server need end, the voice engine need not give way.
FairSpec ==
    /\ Spec
    /\ WF_vars(WorkerSteps) /\ WF_vars(ShutdownSteps)
    /\ \A a \in Asker : WF_vars(AttemptSteps(a))
    /\ \A c \in Child : WF_vars(MonitorEnds(c)) /\ WF_vars(RecordIsDropped(c))

-----------------------------------------------------------------------------
\* A server of ours that has been spawned and not reaped owns the lease of the
\* device, so there is one at most and voice and LLM never share it, and its
\* record is in the state or in the hand of the thread that stops it, whatever
\* fails and whoever shuts down meanwhile; its files are not removed under it.
ServerIsCovered ==
    /\ \A c \in Child : child[c] \in Unreaped =>
          /\ lease = c /\ pc # "removes"
          /\ c \in {process} \cup unreaped \cup UNION {hand[t] : t \in Thread}
          /\ c \in {process} \cup unreaped => active
    /\ ext # NoHost <=> lease = "ext"

\* A stop or the shutdown wins against every attempt under way: none that was
\* on its way reserves the device afterwards, not even when another attempt for
\* the same host has begun, and after shutdown nothing is reserved again.
StopWins ==
    [][/\ \A a \in outdated : at[a] = "commits" /\ at'[a] = "idle" => ext' = ext
       /\ closing \in {"stops", "over"} => ext' = NoHost]_vars

\* Every operation ends, whatever fails in it; and once the application shuts
\* down, the device is free for good unless a server that could not be stopped
\* is on record with its lease.
GuardAndDeviceAreGivenBack ==
    /\ op # "none" ~> op = "none"
    /\ shutdown ~> [](lease \in NoLease \/ lease \in {process} \cup unreaped)

\* A server in service is signalled by nobody: after a start became ready, the
\* next start and status find it ready (ollama_runtime.rs:7981-7993).
ServerOutlivesItsStarter ==
    [][\A c \in Child : child[c] = "alive" /\ child'[c] = "signalled" => process # c]_vars
=============================================================================
