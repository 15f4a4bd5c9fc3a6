------------------------------- MODULE EnvTool -------------------------------
(***************************************************************************)
(* Operations of the environment tools (src/main/app/control/env-tool.ts): *)
(* an operation runs a body at a port (browser, terminal), under a         *)
(* deadline, and may be cancelled; calls with one idempotency key share    *)
(* one body and, once it is completed, its result.  When the deadline      *)
(* answers first the body is still unwinding, and the next operation waits *)
(* for it, a bounded time.                                                 *)
(*                                                                         *)
(* One action is one turn: a call, a timer, a cancel, a promise that       *)
(* settles with the continuations that hang on it.  A call that is not     *)
(* admitted changes nothing and is left out.                               *)
(***************************************************************************)
EXTENDS Naturals, FiniteSets

CONSTANTS
    Op,     \* calls; each has an operation id of its own
    Key,    \* idempotency keys
    NoKey,  \* resource operations (workspaces, close) have none
    NoOp

ASSUME EnvAssumption == NoOp \notin Op /\ NoKey \notin Key

VARIABLES
    state,      \* record.state
    phase,      \* how far run, execute or runResource has come
    key,        \* request.idempotencyKey
    told,       \* the answer the caller has got
    shares,     \* whose outcome a deduplicated call awaits
    inflight,   \* key -> operation
    byKey,      \* byIdempotencyKey
    unwinding,  \* bodies whose caller has been answered
    waits       \* the bodies an operation found unwinding

vars == <<state, phase, key, told, shares, inflight, byKey, unwinding, waits>>

States == {"none", "running", "completed", "failed", "cancelled"}
Terminal == {"completed", "failed", "cancelled"}
\* unwinds: awaits the bodies before it. runs: its body races the deadline.
\* loser: the deadline won and the body goes on.
Phases == {"none", "unwinds", "runs", "loser", "over"}
Answers == {"none", "awaited", "completed", "deduplicated", "rejected"}

TypeOK ==
    /\ state \in [Op -> States] /\ phase \in [Op -> Phases]
    /\ key \in [Op -> Key \cup {NoKey}]
    /\ told \in [Op -> Answers]
    /\ shares \in [Op -> Op \cup {NoOp}]
    /\ inflight \in [Key -> Op \cup {NoOp}] /\ byKey \in [Key -> Op \cup {NoOp}]
    /\ unwinding \subseteq {o \in Op : phase[o] = "loser"}
    /\ waits \in [Op -> SUBSET Op]

Init ==
    /\ state = [o \in Op |-> "none"] /\ phase = [o \in Op |-> "none"]
    /\ key = [o \in Op |-> NoKey] /\ told = [o \in Op |-> "none"]
    /\ shares = [o \in Op |-> NoOp]
    /\ inflight = [k \in Key |-> NoOp] /\ byKey = [k \in Key |-> NoOp]
    /\ unwinding = {} /\ waits = [o \in Op |-> {}]

-----------------------------------------------------------------------------
\* settle: only a running operation changes its state.
Settled(o, s) == [state EXCEPT ![o] = IF @ = "running" THEN s ELSE @]

\* The promise of run or runResource settles: its caller is answered, and those
\* who share it; the key is no longer in flight.
Return(o, answer) ==
    /\ told' = [p \in Op |-> IF p = o THEN answer
                             ELSE IF shares[p] # o THEN told[p]
                             ELSE IF answer = "completed" THEN "deduplicated"
                             ELSE "rejected"]
    /\ inflight' = [k \in Key |-> IF inflight[k] = o THEN NoOp ELSE inflight[k]]

\* Mutant of InFlight: only completed calls are looked up.
InFlightNever(k) == NoOp
InFlight(k) == inflight[k]

\* run: the completed result of this key is returned,
FromCache(o, k) ==
    /\ told[o] = "none" /\ byKey[k] # NoOp
    /\ key' = [key EXCEPT ![o] = k]
    /\ told' = [told EXCEPT ![o] = "deduplicated"]
    /\ UNCHANGED <<state, phase, shares, inflight, byKey, unwinding, waits>>

\* or the call waits for the one in flight; it has no record of its own,
Share(o, k) ==
    /\ told[o] = "none" /\ byKey[k] = NoOp /\ InFlight(k) # NoOp
    /\ key' = [key EXCEPT ![o] = k]
    /\ told' = [told EXCEPT ![o] = "awaited"]
    /\ shares' = [shares EXCEPT ![o] = InFlight(k)]
    /\ UNCHANGED <<state, phase, inflight, byKey, unwinding, waits>>

\* begin, armDeadline: the body starts at once if no other is unwinding.
Begin(o, k) ==
    /\ told[o] = "none"
    /\ k # NoKey => byKey[k] = NoOp /\ InFlight(k) = NoOp
    /\ key' = [key EXCEPT ![o] = k]
    /\ told' = [told EXCEPT ![o] = "awaited"]
    /\ state' = [state EXCEPT ![o] = "running"]
    /\ inflight' = IF k = NoKey THEN inflight ELSE [inflight EXCEPT ![k] = o]
    /\ phase' = [phase EXCEPT ![o] = IF unwinding = {} THEN "runs" ELSE "unwinds"]
    /\ waits' = [waits EXCEPT ![o] = unwinding]
    /\ UNCHANGED <<shares, byKey, unwinding>>

\* afterUnwinding: every body it waited for has settled. It looks again.
Wake(o) ==
    /\ phase[o] = "unwinds"
    /\ \A p \in waits[o] : phase[p] = "over"
    /\ phase' = [phase EXCEPT ![o] = IF unwinding = {} THEN "runs" ELSE "unwinds"]
    /\ waits' = [waits EXCEPT ![o] = unwinding]
    /\ UNCHANGED <<state, key, told, shares, inflight, byKey, unwinding>>

\* UNWIND_GRACE_MS is over: nobody waits for those bodies any longer.
GraceFires(o) ==
    /\ phase[o] = "unwinds"
    /\ phase' = [phase EXCEPT ![o] = "runs"]
    /\ unwinding' = {}
    /\ waits' = [waits EXCEPT ![o] = {}]
    /\ UNCHANGED <<state, key, told, shares, inflight, byKey>>

\* Mutant of BodySucceeds: the answer is made without asking settle.
BodySucceedsAnyway(o) ==
    /\ phase[o] = "runs"
    /\ phase' = [phase EXCEPT ![o] = "over"]
    /\ state' = Settled(o, "completed")
    /\ Return(o, "completed")
    /\ byKey' = IF key[o] # NoKey THEN [byKey EXCEPT ![key[o]] = o] ELSE byKey
    /\ UNCHANGED <<key, shares, unwinding, waits>>

\* The body returns a result with evidence, or a resource.
BodySucceeds(o) ==
    /\ phase[o] = "runs"
    /\ phase' = [phase EXCEPT ![o] = "over"]
    /\ state' = Settled(o, "completed")
    /\ Return(o, IF state'[o] = "completed" THEN "completed" ELSE "rejected")
    /\ byKey' = IF state'[o] = "completed" /\ key[o] # NoKey
                THEN [byKey EXCEPT ![key[o]] = o] ELSE byKey
    /\ UNCHANGED <<key, shares, unwinding, waits>>

\* It throws, for whatever reason, or has no evidence.
BodyFails(o) ==
    /\ phase[o] = "runs"
    /\ phase' = [phase EXCEPT ![o] = "over"]
    /\ \E s \in {"failed", "cancelled"} : state' = Settled(o, s)
    /\ Return(o, "rejected")
    /\ UNCHANGED <<key, shares, byKey, unwinding, waits>>

\* Mutant of Armed: a cancelled operation has no deadline.
ArmedUnlessCancelled(o) == phase[o] \in {"unwinds", "runs"} /\ state[o] = "running"
\* The deadline is disarmed when the caller is answered.
Armed(o) == phase[o] \in {"unwinds", "runs"}

\* Mutant of Aborted: nobody listens to the signal.
AbortedUnheard(o) == phase[o]
\* The signal ends the wait for other bodies; a body may heed it or not.
Aborted(o) == IF phase[o] = "unwinds" THEN "over" ELSE phase[o]

\* armDeadline's timer: the race is lost, the body is left to unwind.
Deadline(o) ==
    /\ Armed(o)
    /\ state' = Settled(o, "failed")
    /\ phase' = [phase EXCEPT ![o] = IF @ = "runs" THEN "loser" ELSE Aborted(o)]
    /\ unwinding' = IF phase[o] = "runs" THEN unwinding \cup {o} ELSE unwinding
    /\ Return(o, "rejected")
    /\ UNCHANGED <<key, shares, byKey, waits>>

\* Mutant of UnwindingWithout: a body that has unwound stays in the set.
UnwindingAlways(o) == unwinding
UnwindingWithout(o) == unwinding \ {o}

\* trackUnwinding: a body that lost the race settles at last.
LoserEnds(o) ==
    /\ phase[o] = "loser"
    /\ phase' = [phase EXCEPT ![o] = "over"]
    /\ unwinding' = UnwindingWithout(o)
    /\ UNCHANGED <<state, key, told, shares, inflight, byKey, waits>>

\* cancel of a running operation (others only note it). The caller of a body
\* that has started is answered when the body settles.
Cancel(o) ==
    /\ state[o] = "running"
    /\ state' = Settled(o, "cancelled")
    /\ phase' = [phase EXCEPT ![o] = Aborted(o)]
    /\ IF phase'[o] = "over" THEN Return(o, "rejected") ELSE UNCHANGED <<told, inflight>>
    /\ UNCHANGED <<key, shares, byKey, unwinding, waits>>

-----------------------------------------------------------------------------
Next ==
    \E o \in Op :
        \/ \E k \in Key : FromCache(o, k) \/ Share(o, k)
        \/ \E k \in Key \cup {NoKey} : Begin(o, k)
        \/ Wake(o) \/ GraceFires(o)
        \/ BodySucceeds(o) \/ BodyFails(o)
        \/ Deadline(o) \/ LoserEnds(o) \/ Cancel(o)

Spec == Init /\ [][Next]_vars

\* Timers fire. A port need never answer.
FairSpec == Spec /\ \A o \in Op : WF_vars(Deadline(o))

-----------------------------------------------------------------------------
\* What callers are told is what the record says, for good: completed if and
\* only if it completed first, and a key yields only a completed result. Cancel,
\* deadline, failure and success race for the record (settle), and the answer
\* is made from it one step later.
CallerAgrees ==
    /\ \A o \in Op : /\ told[o] = "completed" <=> state[o] = "completed"
                     /\ told[o] = "rejected" /\ shares[o] = NoOp => state[o] \in {"failed", "cancelled"}
                     /\ told[o] = "deduplicated" => /\ key[o] \in Key /\ byKey[key[o]] # NoOp
                                                    /\ state[byKey[key[o]]] = "completed"
    /\ \A k \in Key : byKey[k] # NoOp => state[byKey[k]] = "completed" /\ key[byKey[k]] = k

\* One body per key: never two operations of a key alive, nor one alive after
\* the key was completed. A repeated effect needs an earlier end.
OneBodyPerKey ==
    \A o, p \in Op : (o # p /\ key[o] = key[p] /\ key[o] # NoKey /\ state[o] = "running")
                         => state[p] \notin {"running", "completed"}

\* An end is final, and an operation that was cancelled or timed out while it
\* waited for others never reaches the port. What a caller was told, and what a
\* key yields, is final too.
EndedStaysEnded ==
    [][/\ \A o \in Op :
             /\ state[o] \in Terminal => /\ state'[o] = state[o]
                                         /\ phase'[o] = "runs" => phase[o] = "runs"
             /\ told[o] \notin {"none", "awaited"} => told'[o] = told[o]
       /\ \A k \in Key : byKey[k] # NoOp => byKey'[k] = byKey[k]]_vars

\* Every caller gets an answer, whatever the port does.
EveryCallReturns == \A o \in Op : told[o] = "awaited" ~> told[o] # "awaited"
==============================================================================
