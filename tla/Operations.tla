----------------------------- MODULE Operations -----------------------------
(***************************************************************************)
(* The operation ledger of one client connection: what an operation owns,  *)
(* how it ends, and the asynchronous cleanup that must take everything it  *)
(* opened out of the browser without disturbing the other operations of    *)
(* the same session.                                                       *)
(*                                                                         *)
(* Source: src/packages/ego-host/src/supervisor/operations.mjs, with the   *)
(* callers in cdp-mux.mjs and rpc-server.mjs.  Sessions are never shared   *)
(* between connections (CdpMux), so one connection is enough.  An attach   *)
(* is one step here, its races are the subject of CdpMux.                  *)
(*                                                                         *)
(* The code keeps five maps of resources and cleans each in a loop of its  *)
(* own; requestIds stands for them, and the Fetch domain for Network.      *)
(* Page.stopLoading changes no state of the model, its await is part of    *)
(* the time the next command takes.                                        *)
(***************************************************************************)
EXTENDS Naturals, Sequences, FiniteSets, SequencesExt

CONSTANTS
    Op,          \* operation ids
    Session,     \* CDP session ids, never reused
    Req,         \* requests of the pages that Fetch may pause
    NoOp, NoSession, NoReq,
    MaxCall,     \* bound: commands the clients send in one behaviour
    ClientKinds, \* the commands they send
    Outcomes,    \* how operations end while the connection is there
    CallsExpire,    \* may the browser miss the deadline of a client's command?
    CleanupsExpire, \* may it miss the deadline of a cleanup command?
    SocketCloses,   \* may the connection's socket close?
    SessionsVanish  \* may the browser end a session by itself?

ASSUME OperationsAssumption ==
    /\ NoOp \notin Op /\ NoSession \notin Session /\ NoReq \notin Req
    /\ MaxCall \in Nat
    /\ ClientKinds \subseteq {"evaluate", "terminate", "enable", "disable", "release"}
    /\ Outcomes \subseteq {"completed", "failed", "cancelled"}
    /\ {CallsExpire, CleanupsExpire, SocketCloses, SessionsVanish} \subseteq BOOLEAN

VARIABLES
    status,     \* of each operation
    used, created,  \* sessions an operation touched, and those it attached
    reqs,       \* paused requests recorded for an operation (op.requestIds)
    users,      \* operations of a session, the most recent one last
    fetch,      \* operations that hold Fetch on a session, in order
    slots,      \* the exclusive slot of a session
    tombs,      \* sessions the ledger has buried
    pending,    \* exclusive calls (evaluate, navigate) waiting for an answer
    sent,       \* number of client commands sent so far
    cleaning,   \* "no", "busy" or "done", by operation
    awaited,    \* the command a busy cleanup waits for
    toStop,     \* sessions whose execution a busy cleanup has not stopped yet
    closed,     \* the socket is gone
    closing,    \* the operation detachConnection is finishing
    pipe, inbox,     \* commands to the browser and messages from it (FIFO)
    opened, attached,  \* browser: sessions that ever were, that are
    fetchOn,           \* browser: sessions with Fetch enabled
    reqAt, held,       \* browser: session of a request, requests held now
    running, stopped   \* browser: calls executing; calls cut off, and by whom

opVars == <<status, used, created, reqs, toStop, cleaning, awaited>>
sessVars == <<users, fetch, slots>>
connVars == <<closed, closing>>
browserVars == <<opened, attached, fetchOn, reqAt, held, running, stopped>>
vars == <<opVars, sessVars, connVars, tombs, pending, sent, pipe, inbox, browserVars>>

Terminal == {"completed", "failed", "cancelled"}

Calls == [id: 1..MaxCall, op: Op, session: Session]

\* A command on the pipe.  A cleanup's commands are answered to its await.
Commands ==
    [kind: {"evaluate", "terminate", "enable", "disable", "release", "detach"},
     cleanup: BOOLEAN, op: Op, session: Session, req: Req \cup {NoReq}, id: 0..MaxCall]

NoCommand == [kind |-> "none", cleanup |-> TRUE, op |-> NoOp, session |-> NoSession,
              req |-> NoReq, id |-> 0]

\* Numbers the first command zero.
CommandNumberedLate(kind, o, s, r) ==
    [kind |-> kind, cleanup |-> FALSE, op |-> o, session |-> s, req |-> r, id |-> sent]

ClientCommand(kind, o, s, r) ==
    [kind |-> kind, cleanup |-> FALSE, op |-> o, session |-> s, req |-> r, id |-> sent + 1]

CleanupCommand(kind, o, s, r) ==
    [kind |-> kind, cleanup |-> TRUE, op |-> o, session |-> s, req |-> r, id |-> 0]

Messages ==
    [type: {"answer"}, command: Commands] \cup [type: {"result"}, call: Calls]
    \cup [type: {"paused"}, req: Req] \cup [type: {"detached"}, session: Session]

FreeSlot == [op |-> NoOp, depth |-> 0]

CallOf(c) == [id |-> c.id, op |-> c.op, session |-> c.session]

InSeq(q, x) == \E i \in DOMAIN q : q[i] = x
Without(q, x) == RemoveFirst(q, x)

Running(o) == status[o] = "running"

Init ==
    /\ status = [o \in Op |-> "none"]
    /\ used = [o \in Op |-> {}] /\ created = [o \in Op |-> {}]
    /\ reqs = [o \in Op |-> {}] /\ toStop = [o \in Op |-> {}]
    /\ cleaning = [o \in Op |-> "no"] /\ awaited = [o \in Op |-> NoCommand]
    /\ users = [s \in Session |-> <<>>] /\ fetch = [s \in Session |-> <<>>]
    /\ slots = [s \in Session |-> FreeSlot]
    /\ tombs = {} /\ pending = {} /\ sent = 0
    /\ closed = FALSE /\ closing = NoOp
    /\ pipe = <<>> /\ inbox = <<>>
    /\ opened = {} /\ attached = {} /\ fetchOn = {}
    /\ reqAt = [r \in Req |-> NoSession] /\ held = {}
    /\ running = {} /\ stopped = {}

-----------------------------------------------------------------------------
(* What clients do: begin, attach, and commands the hook lets through *)

Begin(o) ==
    /\ status[o] = "none" /\ ~closed
    /\ status' = [status EXCEPT ![o] = "running"]
    /\ UNCHANGED <<used, created, reqs, toStop, cleaning, awaited, sessVars, connVars,
                   tombs, pending, sent, pipe, inbox, browserVars>>

UseSession(o, s) ==
    /\ used' = [used EXCEPT ![o] = @ \cup {s}]
    /\ users' = [users EXCEPT ![s] = Append(Without(@, o), o)]

\* An attach of o is answered.
Attach(o, s) ==
    /\ Running(o) /\ ~closed
    /\ s \notin opened
    /\ opened' = opened \cup {s}
    /\ attached' = attached \cup {s}
    /\ created' = [created EXCEPT ![o] = @ \cup {s}]
    /\ UseSession(o, s)
    /\ UNCHANGED <<status, reqs, toStop, cleaning, awaited, fetch, slots, connVars, tombs,
                   pending, sent, pipe, inbox, fetchOn, reqAt, held, running, stopped>>

\* Every command passes the mux's session check and the hook, is noted as a
\* use of the session, and leaves on the pipe.
ClientSends(o, s, c) ==
    /\ Running(o) /\ ~closed
    /\ s \in opened \ tombs
    /\ c.kind \in ClientKinds
    /\ sent < MaxCall
    /\ sent' = sent + 1
    /\ UseSession(o, s)
    /\ pipe' = Append(pipe, c)
    /\ UNCHANGED <<status, created, reqs, toStop, cleaning, awaited, connVars, tombs,
                   inbox, browserVars>>

\* Everybody may enter.
SlotFreeAlways(o, s) == TRUE

SlotFreeFor(o, s) == slots[s].op \in {o, NoOp}

TakenSlot(o, s) == [slots EXCEPT ![s] = [op |-> o, depth |-> @.depth + 1]]

\* An answer takes the slot away from its operation whatever the depth.
ReleasedSlotWhole(f, e) ==
    IF f[e.session].op = e.op THEN [f EXCEPT ![e.session] = FreeSlot] ELSE f

ReleasedSlot(f, e) ==
    IF f[e.session].op # e.op THEN f
    ELSE IF f[e.session].depth <= 1 THEN [f EXCEPT ![e.session] = FreeSlot]
    ELSE [f EXCEPT ![e.session].depth = @ - 1]

Evaluate(o, s) ==
    LET c == ClientCommand("evaluate", o, s, NoReq)
    IN  /\ SlotFreeFor(o, s)
        /\ slots' = TakenSlot(o, s)
        /\ pending' = pending \cup {CallOf(c)}
        /\ ClientSends(o, s, c)
        /\ UNCHANGED fetch

\* backend.send throws: mux calls settled and the slot is given back.
EvaluateSendFails(o, s) ==
    /\ Running(o) /\ ~closed
    /\ s \in opened \ tombs
    /\ "evaluate" \in ClientKinds
    /\ SlotFreeFor(o, s)
    /\ slots' = ReleasedSlot(TakenSlot(o, s), [op |-> o, session |-> s])
    /\ UseSession(o, s)
    /\ UNCHANGED <<status, created, reqs, toStop, cleaning, awaited, fetch, connVars, tombs,
                   pending, sent, pipe, inbox, browserVars>>

Terminate(o, s) ==
    /\ SlotFreeFor(o, s)
    /\ ClientSends(o, s, ClientCommand("terminate", o, s, NoReq))
    /\ UNCHANGED <<fetch, slots, pending>>

EnableFetch(o, s) ==
    /\ fetch' = [fetch EXCEPT ![s] = IF InSeq(@, o) THEN @ ELSE Append(@, o)]
    /\ ClientSends(o, s, ClientCommand("enable", o, s, NoReq))
    /\ UNCHANGED <<slots, pending>>

\* Denied while another operation holds the domain.
DisableFetch(o, s) ==
    /\ Without(fetch[s], o) = <<>>
    /\ fetch' = [fetch EXCEPT ![s] = <<>>]
    /\ ClientSends(o, s, ClientCommand("disable", o, s, NoReq))
    /\ UNCHANGED <<slots, pending>>

\* Fetch.continueRequest, fulfillRequest or failRequest: only for a request
\* recorded for o, and on its session.  The record stays.
ReleaseRequest(o, r) ==
    /\ r \in reqs[o]
    /\ ClientSends(o, reqAt[r], ClientCommand("release", o, reqAt[r], r))
    /\ UNCHANGED <<fetch, slots, pending>>

\* The mux's deadline timer answers the client; settled gives the slot back.
CallExpires(e) ==
    /\ CallsExpire
    /\ e \in pending
    /\ pending' = pending \ {e}
    /\ slots' = ReleasedSlot(slots, e)
    /\ UNCHANGED <<opVars, users, fetch, connVars, tombs, sent, pipe, inbox, browserVars>>

-----------------------------------------------------------------------------
(* cleanupOperation, from one await to the next *)

\* Counts the ending operation itself.
AnyUserLeft(o, s) == users[s] # <<>>

OtherUsersRun(o, s) == \E p \in Op \ {o} : Running(p) /\ InSeq(users[s], p)

\* What each loop still has to deal with, given the sessions that are dead.
Failable(o, dead) == {r \in reqs[o] : reqAt[r] \notin dead}

\* Stops whatever executes in the session.
StoppableAnySlot(o, left, dead) == left \ dead
Stoppable(o, left, dead) == {s \in left \ dead : SlotFreeFor(o, s)}

HeldBy(o) == {s \in Session : InSeq(fetch[s], o)}

Disableable(o, dead) == {s \in HeldBy(o) \ dead : fetch[s] = <<o>>}
Detachable(o, dead) == {s \in created[o] \ dead : ~OtherUsersRun(o, s)}

\* The cleanup of o sends c and waits.
Await(o, c) ==
    /\ awaited' = [awaited EXCEPT ![o] = c]
    /\ pipe' = Append(pipe, c)
    /\ cleaning' = [cleaning EXCEPT ![o] = "busy"]
    /\ UNCHANGED <<used, users, slots>>

FailOne(o, left, dead) ==
    \E r \in Failable(o, dead) :
        /\ Await(o, CleanupCommand("release", o, reqAt[r], r))
        /\ reqs' = [reqs EXCEPT ![o] = @ \ {r}]
        /\ toStop' = [toStop EXCEPT ![o] = left]
        /\ UNCHANGED <<created, fetch>>

\* K are the sessions the loop passes over before it comes to s.
StopOne(o, left, dead) ==
    /\ Failable(o, dead) = {}
    /\ \E s \in Stoppable(o, left, dead), K \in SUBSET (left \ Stoppable(o, left, dead)) :
        /\ Await(o, CleanupCommand("terminate", o, s, NoReq))
        /\ toStop' = [toStop EXCEPT ![o] = left \ (K \cup {s})]
    /\ reqs' = [reqs EXCEPT ![o] = {}]
    /\ UNCHANGED <<created, fetch>>

DisableOne(o, left, dead) ==
    /\ Failable(o, dead) = {} /\ Stoppable(o, left, dead) = {}
    /\ \E s \in Disableable(o, dead), K \in SUBSET (HeldBy(o) \ Disableable(o, dead)) :
        /\ Await(o, CleanupCommand("disable", o, s, NoReq))
        /\ fetch' = [x \in Session |->
                        IF x \in K \cup {s} THEN Without(fetch[x], o) ELSE fetch[x]]
    /\ reqs' = [reqs EXCEPT ![o] = {}]
    /\ toStop' = [toStop EXCEPT ![o] = {}]
    /\ UNCHANGED created

DropFetchOf(o) == fetch' = [s \in Session |-> Without(fetch[s], o)]

DetachOne(o, left, dead) ==
    /\ Failable(o, dead) = {} /\ Stoppable(o, left, dead) = {} /\ Disableable(o, dead) = {}
    /\ \E s \in Detachable(o, dead), K \in SUBSET (created[o] \ Detachable(o, dead)) :
        /\ Await(o, CleanupCommand("detach", o, s, NoReq))
        /\ created' = [created EXCEPT ![o] = @ \ (K \cup {s})]
    /\ reqs' = [reqs EXCEPT ![o] = {}]
    /\ toStop' = [toStop EXCEPT ![o] = {}]
    /\ DropFetchOf(o)

\* Forgets releaseSlotsOf.
SlotsKept(o) == slots

FreedSlots(o) == [s \in Session |-> IF slots[s].op = o THEN FreeSlot ELSE slots[s]]

RemainingUsers(o) ==
    [s \in Session |-> IF s \in used[o] THEN Without(users[s], o) ELSE users[s]]

CleanupEnds(o, left, dead) ==
    /\ Failable(o, dead) = {} /\ Stoppable(o, left, dead) = {}
    /\ Disableable(o, dead) = {} /\ Detachable(o, dead) = {}
    /\ cleaning' = [cleaning EXCEPT ![o] = "done"]
    /\ awaited' = [awaited EXCEPT ![o] = NoCommand]
    /\ DropFetchOf(o)
    /\ users' = RemainingUsers(o)
    /\ slots' = FreedSlots(o)
    /\ used' = [used EXCEPT ![o] = {}] /\ created' = [created EXCEPT ![o] = {}]
    /\ reqs' = [reqs EXCEPT ![o] = {}] /\ toStop' = [toStop EXCEPT ![o] = {}]
    /\ UNCHANGED pipe

CleanupTurn(o, left, dead) ==
    \/ FailOne(o, left, dead)
    \/ StopOne(o, left, dead)
    \/ DisableOne(o, left, dead)
    \/ DetachOne(o, left, dead)
    \/ CleanupEnds(o, left, dead)

\* The await of o is over, with an answer or an error; a detached session is
\* buried before anything else.
Resume(o) ==
    LET dead == IF awaited[o].kind = "detach" THEN tombs \cup {awaited[o].session} ELSE tombs
    IN  /\ tombs' = dead
        /\ CleanupTurn(o, toStop[o], dead)
        /\ UNCHANGED <<status, connVars, pending, sent, browserVars>>

CleanupExpires(o) ==
    /\ CleanupsExpire
    /\ cleaning[o] = "busy"
    /\ Resume(o)
    /\ UNCHANGED inbox

-----------------------------------------------------------------------------
(* The ways an operation ends *)

MayEnd(o) == Running(o)

\* settle, rejectPending, and the cleanup up to its first await.  The slots of
\* rejected calls stay with o.  A later finish of o finds it terminal.
Finish(o, outcome) ==
    /\ MayEnd(o)
    /\ status' = [status EXCEPT ![o] = outcome]
    /\ CleanupTurn(o, used[o], tombs)

\* complete, cancel, or the deadline of begin.
End(o, outcome) ==
    /\ Finish(o, outcome)
    /\ pending' = {e \in pending : e.op # o}
    /\ UNCHANGED <<connVars, tombs, sent, inbox, browserVars>>

\* The close handler: detachConnection ends the first operation, and before
\* its cleanup is answered mux.detach buries the sessions of the connection.
SocketClose ==
    /\ SocketCloses /\ ~closed
    /\ closed' = TRUE
    /\ pending' = {}
    /\ tombs' = opened
    /\ \/ \E o \in Op : Finish(o, "failed") /\ closing' = o
       \/ /\ \A o \in Op : ~Running(o)
          /\ UNCHANGED <<opVars, sessVars, closing, pipe>>
    /\ UNCHANGED <<sent, inbox, browserVars>>

\* detachConnection goes on to the next operation after the first is clean.
FinishNext(o) ==
    /\ closed /\ closing # NoOp /\ cleaning[closing] = "done"
    /\ Finish(o, "failed")
    /\ closing' = o
    /\ UNCHANGED <<closed, tombs, pending, sent, inbox, browserVars>>

-----------------------------------------------------------------------------
(* Messages from the browser: backend.onMessage *)

Receive(type) ==
    /\ inbox # <<>>
    /\ Head(inbox).type = type
    /\ inbox' = Tail(inbox)

ResultArrives ==
    /\ Receive("result")
    /\ LET e == Head(inbox).call
       IN  IF e \in pending
           THEN pending' = pending \ {e} /\ slots' = ReleasedSlot(slots, e)
           ELSE UNCHANGED <<pending, slots>>
    /\ UNCHANGED <<opVars, users, fetch, connVars, tombs, sent, pipe, browserVars>>

Waits(c) == awaited[c.op] = c

AnswerArrives ==
    /\ Receive("answer")
    /\ LET c == Head(inbox).command
       IN  IF Waits(c)
           THEN Resume(c.op)
           ELSE UNCHANGED <<opVars, sessVars, connVars, tombs, pending, sent, pipe, browserVars>>

\* The operation a paused request belongs to, as a set of at most one: the
\* first running holder of Fetch, or else the last user of the session.
LastUser(s) == IF users[s] = <<>> THEN {} ELSE {users[s][Len(users[s])]}

PauseOwner(s) ==
    LET holders == {i \in DOMAIN fetch[s] : Running(fetch[s][i])}
    IN  IF holders = {} THEN LastUser(s)
        ELSE {fetch[s][i] : i \in {j \in holders : \A k \in holders : j <= k}}

\* The barrier comes first: with a last user that has ended the event is
\* dropped, whoever holds Fetch.
PausedArrives ==
    /\ Receive("paused")
    /\ LET r == Head(inbox).req
           s == reqAt[r]
           dropped == \E o \in LastUser(s) : ~Running(o)
       IN  reqs' = [o \in Op |-> IF ~dropped /\ o \in PauseOwner(s)
                                 THEN reqs[o] \cup {r} ELSE reqs[o]]
    /\ UNCHANGED <<status, used, created, toStop, cleaning, awaited, sessVars, connVars,
                   tombs, pending, sent, pipe, browserVars>>

DetachedArrives ==
    /\ Receive("detached")
    /\ tombs' = tombs \cup {Head(inbox).session}
    /\ UNCHANGED <<opVars, sessVars, connVars, pending, sent, pipe, browserVars>>

-----------------------------------------------------------------------------
(* The browser (external): one FIFO of commands, calls take their time *)

ReqsOf(s) == {r \in Req : reqAt[r] = s}

Answered(c, msgs) ==
    inbox' = inbox \o (IF c.cleanup THEN Append(msgs, [type |-> "answer", command |-> c])
                       ELSE msgs)

ExecuteEvaluate(c) ==
    /\ c.kind = "evaluate"
    /\ IF c.session \in attached
       THEN running' = running \cup {CallOf(c)} /\ UNCHANGED inbox
       ELSE inbox' = Append(inbox, [type |-> "result", call |-> CallOf(c)])
            /\ UNCHANGED running
    /\ UNCHANGED <<opened, attached, fetchOn, reqAt, held, stopped>>

ExecuteTerminate(c) ==
    /\ c.kind = "terminate"
    /\ LET cut == {e \in running : e.session = c.session}
       IN  /\ running' = running \ cut
           /\ stopped' = stopped \cup {[call |-> e, by |-> c.op] : e \in cut}
    /\ Answered(c, <<>>)
    /\ UNCHANGED <<opened, attached, fetchOn, reqAt, held>>

ExecuteFetch(c) ==
    /\ c.kind \in {"enable", "disable"}
    /\ IF c.kind = "enable"
       THEN fetchOn' = fetchOn \cup ({c.session} \cap attached) /\ UNCHANGED held
       ELSE fetchOn' = fetchOn \ {c.session} /\ held' = held \ ReqsOf(c.session)
    /\ Answered(c, <<>>)
    /\ UNCHANGED <<opened, attached, reqAt, running, stopped>>

ExecuteRelease(c) ==
    /\ c.kind = "release"
    /\ held' = held \ {c.req}
    /\ Answered(c, <<>>)
    /\ UNCHANGED <<opened, attached, fetchOn, reqAt, running, stopped>>

\* Calls of a session that goes are never answered.
Gone(s, c, told) ==
    /\ attached' = attached \ {s}
    /\ fetchOn' = fetchOn \ {s}
    /\ held' = held \ ReqsOf(s)
    /\ running' = {e \in running : e.session # s}
    /\ Answered(c, IF told THEN <<[type |-> "detached", session |-> s]>> ELSE <<>>)
    /\ UNCHANGED <<opened, reqAt, stopped>>

ExecuteDetach(c) ==
    /\ c.kind = "detach"
    /\ Gone(c.session, c, c.session \in attached)

Execute ==
    /\ pipe # <<>>
    /\ pipe' = Tail(pipe)
    /\ LET c == Head(pipe)
       IN  \/ ExecuteEvaluate(c) \/ ExecuteTerminate(c) \/ ExecuteFetch(c)
           \/ ExecuteRelease(c) \/ ExecuteDetach(c)
    /\ UNCHANGED <<opVars, sessVars, connVars, tombs, pending, sent>>

Pause(s, r) ==
    /\ s \in fetchOn
    /\ reqAt[r] = NoSession
    /\ reqAt' = [reqAt EXCEPT ![r] = s]
    /\ held' = held \cup {r}
    /\ inbox' = Append(inbox, [type |-> "paused", req |-> r])
    /\ UNCHANGED <<opVars, sessVars, connVars, tombs, pending, sent, pipe,
                   opened, attached, fetchOn, running, stopped>>

CallEnds(e) ==
    /\ \/ e \in running /\ running' = running \ {e} /\ UNCHANGED stopped
       \/ \E x \in stopped : x.call = e /\ stopped' = stopped \ {x} /\ UNCHANGED running
    /\ inbox' = Append(inbox, [type |-> "result", call |-> e])
    /\ UNCHANGED <<opVars, sessVars, connVars, tombs, pending, sent, pipe,
                   opened, attached, fetchOn, reqAt, held>>

SessionVanishes(s) ==
    /\ SessionsVanish
    /\ s \in attached
    /\ Gone(s, [cleanup |-> FALSE], TRUE)
    /\ UNCHANGED <<opVars, sessVars, connVars, tombs, pending, sent, pipe>>

-----------------------------------------------------------------------------
ClientStep ==
    \/ \E o \in Op :
         \/ Begin(o)
         \/ \E s \in Session :
              \/ Attach(o, s) \/ Evaluate(o, s) \/ EvaluateSendFails(o, s)
              \/ Terminate(o, s) \/ EnableFetch(o, s) \/ DisableFetch(o, s)
         \/ \E r \in Req : ReleaseRequest(o, r)
         \/ \E outcome \in Outcomes : End(o, outcome)
    \/ SocketClose

OnMessage == ResultArrives \/ AnswerArrives \/ PausedArrives \/ DetachedArrives

SupervisorStep ==
    \/ OnMessage
    \/ \E e \in pending : CallExpires(e)
    \/ \E o \in Op : CleanupExpires(o) \/ FinishNext(o)

BrowserStep ==
    \/ Execute
    \/ \E s \in Session : SessionVanishes(s) \/ \E r \in Req : Pause(s, r)
    \/ \E e \in running \cup {x.call : x \in stopped} : CallEnds(e)

Next == ClientStep \/ SupervisorStep \/ BrowserStep

Spec == Init /\ [][Next]_vars

\* The browser executes what it is sent and Node handles what it receives.
\* No call need ever end, and no client need end an operation.
Fairness ==
    /\ WF_vars(Execute)
    /\ WF_vars(OnMessage)
    /\ WF_vars(\E o \in Op : FinishNext(o))

FairSpec == Spec /\ Fairness

-----------------------------------------------------------------------------
(* Safety *)

TypeOK ==
    /\ status \in [Op -> Terminal \cup {"none", "running"}]
    /\ used \in [Op -> SUBSET Session] /\ created \in [Op -> SUBSET Session]
    /\ reqs \in [Op -> SUBSET Req] /\ toStop \in [Op -> SUBSET Session]
    /\ cleaning \in [Op -> {"no", "busy", "done"}]
    /\ awaited \in [Op -> Commands \cup {NoCommand}]
    /\ users \in [Session -> Seq(Op)] /\ fetch \in [Session -> Seq(Op)]
    /\ slots \in [Session -> [op: Op \cup {NoOp}, depth: Nat]]
    /\ tombs \subseteq opened /\ opened \subseteq Session
    /\ attached \subseteq opened /\ fetchOn \subseteq attached
    /\ pending \subseteq Calls /\ running \subseteq Calls
    /\ sent \in 0..MaxCall
    /\ closed \in BOOLEAN /\ closing \in Op \cup {NoOp}
    /\ pipe \in Seq(Commands) /\ inbox \in Seq(Messages)
    /\ reqAt \in [Req -> Session \cup {NoSession}] /\ held \subseteq Req
    /\ stopped \subseteq [call: Calls, by: Op]

CallsOn(s) == {e \in pending : e.session = s}

\* Nobody's pending call is cut off by another operation: neither by a client's
\* Runtime.terminateExecution nor by a cleanup (contract 4.7).
CallsNotCutByOthers ==
    \A x \in stopped : x.call \in pending => x.by = x.call.op

\* Is Fetch on in session s once everything on the pipe has been executed?
FetchAfterPipe(s) ==
    LET switches == {i \in DOMAIN pipe :
                        pipe[i].session = s /\ pipe[i].kind \in {"enable", "disable"}}
    IN  IF switches = {} THEN s \in fetchOn
        ELSE \E i \in switches : pipe[i].kind = "enable" /\ \A j \in switches : j <= i

Leaving(s) == \E i \in DOMAIN pipe : pipe[i].kind = "detach" /\ pipe[i].session = s

\* The books agree with what they are about.  The slot of a session is the
\* account of its pending calls: all are of the operation that has the slot, and
\* as many as its depth while it runs (hook, settled and rejectOperation change
\* the two at different moments; a closed connection drops its calls and has
\* nobody left to take a slot).  The browser intercepts exactly as long as some
\* operation holds Fetch: a cleanup takes it from nobody and leaves none on.
BooksAreExact ==
    /\ \A s \in Session :
        /\ \A e \in CallsOn(s) : slots[s].op = e.op
        /\ \A o \in Op : slots[s].op = o /\ Running(o) /\ ~closed
                             => slots[s].depth = Cardinality(CallsOn(s))
    /\ \A s \in attached \ tombs :
        ~Leaving(s) => (FetchAfterPipe(s) <=> fetch[s] # <<>>)

\* After its cleanup nothing is booked on an operation, however late the events
\* and answers are that it caused (the barrier of event, settled).
CleanedOwnsNothing ==
    \A o \in Op : cleaning[o] = "done" =>
        /\ reqs[o] = {} /\ used[o] = {} /\ created[o] = {}
        /\ \A s \in Session : slots[s].op # o /\ ~InSeq(fetch[s], o) /\ ~InSeq(users[s], o)
        /\ \A e \in pending : e.op # o

\* In a session one operation at a time navigates or evaluates in the browser.
OneOperationEvaluates ==
    \A e, f \in running : e.session = f.session => e.op = f.op

-----------------------------------------------------------------------------
(* Liveness *)

NobodyRuns == \A o \in Op : ~Running(o)
OneUsed == \E o \in Op : \A p \in Op \ {o} : status[p] = "none"

\* Every ended operation is cleaned up, awaits and all, and when the socket is
\* gone no operation of the connection goes on.  While the connection is there
\* no page waits for an interception once nobody runs, and an operation that
\* shared its sessions with nobody leaves none behind.
EndedLeavesNothing ==
    /\ \A o \in Op : status[o] \in Terminal ~> cleaning[o] = "done"
    /\ closed ~> NobodyRuns
    /\ \A r \in Req : []<>(NobodyRuns /\ ~closed => r \notin held)
    /\ \A s \in Session : []<>(NobodyRuns /\ OneUsed /\ ~closed => s \notin attached)
=============================================================================
