------------------------------- MODULE CdpMux -------------------------------
(***************************************************************************)
(* The CDP multiplexer: client connections share one browser pipe.  The    *)
(* module composes the attach ledger (Ledger.tla) with the pending-request *)
(* table of src/packages/ego-host/src/supervisor/cdp-mux.mjs, with the two *)
(* entry points the operation ledger uses (operations.mjs: reject the      *)
(* requests of an ended operation, detach the sessions it created) and     *)
(* with the browser, which is external: it executes commands in any order  *)
(* and answers on one FIFO pipe.                                           *)
(*                                                                         *)
(* A request that is refused before it touches the ledger (shutdown,       *)
(* tombstoned or foreign session, policy, busy target) changes no state    *)
(* here and is not an action; neither are the CDP methods whose answers    *)
(* the ledger does not read.                                               *)
(***************************************************************************)
EXTENDS Ledger, Sequences

CONSTANTS
    Op,           \* operation names of a connection
    InitialTabs,  \* tabs of the task space when the model starts
    MaxReq,       \* bound: requests sent to the browser in one behaviour
    EventFirst,   \* may the browser emit attachedToTarget before the response?
    ReuseIds,     \* may the browser give a dead session's id to a new one?
    Captures,     \* does the supervisor attach for itself (snapshot, capture)?
    Kinds,        \* the requests clients send: "attach", "create", "close"
    TabsVanish    \* may a page close itself?

ASSUME MuxAssumption ==
    /\ InitialTabs \subseteq Target
    /\ MaxReq \in Nat
    /\ EventFirst \in BOOLEAN
    /\ ReuseIds \in BOOLEAN
    /\ Captures \in BOOLEAN
    /\ Kinds \subseteq {"attach", "create", "close"}
    /\ TabsVanish \in BOOLEAN

VARIABLES
    led,       \* the ledger
    pending,   \* requests waiting for an answer
    nextId,    \* the next upstream id
    closed,    \* connections whose socket is gone
    ended,     \* operations that reached a terminal status, as <<c, o>>
    created,   \* sessions an operation attached, by <<c, o>>
    cleaning,  \* sessions a cleanup is detaching, awaiting the answer
    captures,  \* sessions handed to a supervisor capture in progress
    answers,   \* how often each client request was answered (history)
    tabs, born,           \* browser: tabs that live, tabs that ever lived
    home, open,           \* browser: the tab of a session, sessions attached now
    source,               \* browser: who asked for a session (history)
    requests, detaches,   \* commands on their way to the browser
    inbox                 \* responses and events on their way back (FIFO)

muxVars == <<led, pending, nextId, closed, ended, created, cleaning, captures, answers>>
browserVars == <<tabs, born, home, open, source>>
wireVars == <<requests, detaches, inbox>>
vars == <<muxVars, browserVars, wireVars>>

Owners == Conn \X Op
Ids == 1..MaxReq
NoId == 0

\* conn and op are those of the client; a supervisor request has conn NoConn.
Request ==
    {r \in [id: Ids, conn: Conn \cup {NoConn}, op: Op,
            kind: {"attach", "create", "close"},
            target: Target \cup {NoTarget}, gen: Nat] :
        r.kind # "create" => r.target \in Target}

Message ==
    {m \in [type: {"reply", "error", "attached", "detached", "destroyed"},
            id: Ids \cup {NoId}, target: Target \cup {NoTarget},
            session: Session \cup {NoSession}] :
        /\ m.type \in {"attached", "detached"} => m.session \in Session
        /\ m.type \in {"attached", "destroyed"} => m.target \in Target}

Reply(id, t, s) == [type |-> "reply", id |-> id, target |-> t, session |-> s]
Failure(id) == [type |-> "error", id |-> id, target |-> NoTarget, session |-> NoSession]
Event(type, t, s) == [type |-> type, id |-> NoId, target |-> t, session |-> s]

Init ==
    /\ led = EmptyLedger(InitialTabs)
    /\ pending = {} /\ requests = {} /\ detaches = {} /\ inbox = <<>>
    /\ nextId = 1
    /\ closed = {} /\ ended = {} /\ cleaning = {} /\ captures = {}
    /\ created = [w \in Owners |-> {}]
    /\ answers = [i \in Ids |-> 0]
    /\ tabs = InitialTabs /\ born = InitialTabs
    /\ open = {}
    /\ home = [s \in Session |-> NoTarget]
    /\ source = [s \in Session |-> NoConn]

-----------------------------------------------------------------------------
(* Client requests: fromClient *)

Running(c, o) == c \notin closed /\ <<c, o>> \notin ended

\* The request enters the pending table and leaves on the pipe.
Send(r) ==
    /\ nextId <= MaxReq
    /\ nextId' = nextId + 1
    /\ pending' = pending \cup {r}
    /\ requests' = requests \cup {r}

RequestNumberedLate(c, o, kind, t, g) ==
    [id |-> nextId - 1, conn |-> c, op |-> o, kind |-> kind, target |-> t, gen |-> g]

MkRequest(c, o, kind, t, g) ==
    [id |-> nextId, conn |-> c, op |-> o, kind |-> kind, target |-> t, gen |-> g]

ClientAttach(c, o, t) ==
    /\ "attach" \in Kinds
    /\ Running(c, o)
    /\ t \in led.known
    /\ MayReserve(led, c, t)
    /\ led' = ReserveAttach(led, c, t)
    /\ Send(MkRequest(c, o, "attach", t, led.gens[t] + 1))
    /\ UNCHANGED <<closed, ended, created, cleaning, captures, answers,
                   browserVars, detaches, inbox>>

\* backend.send throws: the reservation is withdrawn and the client told.
ClientAttachSendFails(c, o, t) ==
    /\ "attach" \in Kinds
    /\ Running(c, o)
    /\ t \in led.known
    /\ MayReserve(led, c, t)
    /\ nextId <= MaxReq
    /\ nextId' = nextId + 1
    /\ led' = FailAttach(ReserveAttach(led, c, t), c, t, led.gens[t] + 1)
    /\ answers' = [answers EXCEPT ![nextId] = @ + 1]
    /\ UNCHANGED <<pending, closed, ended, created, cleaning, captures,
                   browserVars, wireVars>>

ClientCreateTarget(c, o) ==
    /\ "create" \in Kinds
    /\ Running(c, o)
    /\ Send(MkRequest(c, o, "create", NoTarget, 0))
    /\ UNCHANGED <<led, closed, ended, created, cleaning, captures, answers,
                   browserVars, detaches, inbox>>

ClientCloseTarget(c, o, t) ==
    /\ "close" \in Kinds
    /\ Running(c, o)
    /\ t \in led.known
    /\ Send(MkRequest(c, o, "close", t, 0))
    /\ UNCHANGED <<led, closed, ended, created, cleaning, captures, answers,
                   browserVars, detaches, inbox>>

DeadlineKeepsEntry(e) ==
    /\ e \in pending /\ e.conn \in Conn
    /\ led' = IF e.kind = "attach" THEN FailAttach(led, e.conn, e.target, e.gen) ELSE led
    /\ answers' = [answers EXCEPT ![e.id] = @ + 1]
    /\ UNCHANGED <<pending, nextId, closed, ended, created, cleaning, captures,
                   browserVars, wireVars>>

\* The supervisor's timer: settled by an error, the reservation withdrawn.
ClientDeadline(e) ==
    /\ e \in pending /\ e.conn \in Conn
    /\ pending' = pending \ {e}
    /\ led' = IF e.kind = "attach" THEN FailAttach(led, e.conn, e.target, e.gen) ELSE led
    /\ answers' = [answers EXCEPT ![e.id] = @ + 1]
    /\ UNCHANGED <<nextId, closed, ended, created, cleaning, captures,
                   browserVars, wireVars>>

-----------------------------------------------------------------------------
(* Supervisor requests: hostRequest("Target.attachToTarget") of a capture *)

HostAttach(t) ==
    /\ Captures
    /\ t \in led.known
    /\ led' = BeginHostAttach(led, t, nextId)
    /\ \E o \in Op : Send(MkRequest(NoConn, o, "attach", t, 0))
    /\ UNCHANGED <<closed, ended, created, cleaning, captures, answers,
                   browserVars, detaches, inbox>>

HostDeadline(e) ==
    /\ e \in pending /\ e.conn = NoConn
    /\ pending' = pending \ {e}
    /\ led' = CancelHostAttach(led, e.id)
    /\ UNCHANGED <<nextId, closed, ended, created, cleaning, captures, answers,
                   browserVars, wireVars>>

\* The capture is over: its `finally' detaches the supervisor's session.
HostDetach(s) ==
    /\ s \in captures
    /\ captures' = captures \ {s}
    /\ led' = EndHostSession(led, s)
    /\ detaches' = detaches \cup {s}
    /\ UNCHANGED <<pending, nextId, closed, ended, created, cleaning, answers,
                   browserVars, requests, inbox>>

-----------------------------------------------------------------------------
(* Ends: operations, connections, tabs *)

PendingOf(c, o) == {e \in pending : e.conn = c /\ e.op = o}

\* The operation is settled, then rejectOperation answers its requests.
EndOperation(c, o) ==
    /\ Running(c, o)
    /\ ended' = ended \cup {<<c, o>>}
    /\ pending' = pending \ PendingOf(c, o)
    /\ answers' = [i \in Ids |->
                     IF \E e \in PendingOf(c, o) : e.id = i THEN answers[i] + 1 ELSE answers[i]]
    /\ UNCHANGED <<led, nextId, closed, created, cleaning, captures,
                   browserVars, wireVars>>

\* Another running operation of the connection may be using any session.
Shareable(c, o) == \E p \in Op \ {o} : Running(c, p)

\* Cleanup, session by session: detach what the operation created, unless the
\* ledger already has it dead or another running operation uses it.
CleanupDetach(c, o, s) ==
    /\ <<c, o>> \in ended
    /\ s \in created[<<c, o>>]
    /\ created' = [created EXCEPT ![<<c, o>>] = @ \ {s}]
    /\ \/ /\ Shareable(c, o)
          /\ UNCHANGED <<led, cleaning, detaches>>
       \/ /\ s \in led.tombs
          /\ led' = DropSession(led, s)
          /\ UNCHANGED <<cleaning, detaches>>
       \/ /\ s \notin led.tombs
          /\ led' = EndHostSession(led, s)
          /\ cleaning' = cleaning \cup {s}
          /\ detaches' = detaches \cup {s}
    /\ UNCHANGED <<pending, nextId, closed, ended, captures, answers,
                   browserVars, requests, inbox>>

\* The awaited detach came back (or failed): the session is dropped.
CleanupDrop(s) ==
    /\ s \in cleaning
    /\ cleaning' = cleaning \ {s}
    /\ led' = DropSession(led, s)
    /\ UNCHANGED <<pending, nextId, closed, ended, created, captures, answers,
                   browserVars, wireVars>>

\* The socket's close handler: all operations end, then mux.detach runs in
\* the same turn, before any cleanup command has been answered.
CloseConnection(c) ==
    /\ c \notin closed
    /\ closed' = closed \cup {c}
    /\ ended' = ended \cup ({c} \X Op)
    /\ pending' = {e \in pending : e.conn # c}
    /\ led' = DetachConnection(led, c)
    /\ UNCHANGED <<nextId, created, cleaning, captures, answers,
                   browserVars, wireVars>>

\* refreshTabs finds a listed tab gone from the browser (syncTabs).
SyncDropsTab(t) ==
    /\ t \in led.known \ tabs
    /\ led' = ForgetTarget(led, t)
    /\ UNCHANGED <<pending, nextId, closed, ended, created, cleaning, captures, answers,
                   browserVars, wireVars>>

-----------------------------------------------------------------------------
(* The browser (external) *)

Answered(r, msgs) ==
    /\ requests' = requests \ {r}
    /\ inbox' = inbox \o msgs
    /\ UNCHANGED <<muxVars, detaches>>

BrowserAttaches(r, s) ==
    /\ r \in requests /\ r.kind = "attach" /\ r.target \in tabs
    /\ s \notin open
    /\ home[s] = NoTarget \/ ReuseIds
    /\ home' = [home EXCEPT ![s] = r.target]
    /\ source' = [source EXCEPT ![s] = r.conn]
    /\ open' = open \cup {s}
    /\ LET reply == Reply(r.id, r.target, s)
           event == Event("attached", r.target, s)
       IN  \/ Answered(r, <<reply, event>>)
           \/ EventFirst /\ Answered(r, <<event, reply>>)
    /\ UNCHANGED <<tabs, born>>

BrowserCreates(r, t) ==
    /\ r \in requests /\ r.kind = "create"
    /\ t \notin born
    /\ born' = born \cup {t}
    /\ tabs' = tabs \cup {t}
    /\ Answered(r, <<Reply(r.id, t, NoSession)>>)
    /\ UNCHANGED <<home, open, source>>

BrowserCloses(r) ==
    /\ r \in requests /\ r.kind = "close" /\ r.target \in tabs
    /\ tabs' = tabs \ {r.target}
    /\ Answered(r, <<Reply(r.id, r.target, NoSession)>>)
    /\ UNCHANGED <<born, home, open, source>>

BrowserRefuses(r) ==
    /\ r \in requests /\ r.target \notin tabs /\ r.kind # "create"
    /\ Answered(r, <<Failure(r.id)>>)
    /\ UNCHANGED browserVars

\* A page closes itself.  targetDestroyed is only sent to who discovers targets.
TabGone(t) ==
    /\ TabsVanish
    /\ t \in tabs
    /\ tabs' = tabs \ {t}
    /\ \/ inbox' = inbox
       \/ inbox' = Append(inbox, Event("destroyed", t, NoSession))
    /\ UNCHANGED <<muxVars, born, home, open, source, requests, detaches>>

\* A session ends because it was detached or because its tab is gone.
SessionEnds(s) ==
    /\ s \in open
    /\ s \in detaches \/ home[s] \notin tabs
    /\ open' = open \ {s}
    /\ detaches' = detaches \ {s}
    /\ inbox' = Append(inbox, Event("detached", home[s], s))
    /\ UNCHANGED <<muxVars, tabs, born, home, source, requests>>

DetachMisses(s) ==
    /\ s \in detaches \ open
    /\ detaches' = detaches \ {s}
    /\ UNCHANGED <<muxVars, browserVars, requests, inbox>>

-----------------------------------------------------------------------------
(* backend.onMessage *)

Receive(m) ==
    /\ inbox # <<>>
    /\ m = Head(inbox)
    /\ inbox' = Tail(inbox)

Asked(m) == {e \in pending : e.id = m.id}

Deliver(e) == answers' = [answers EXCEPT ![e.id] = @ + 1]

RejectOnlyInLedger(s) ==
    /\ led' = RejectSession(led, s)
    /\ UNCHANGED detaches

Reject(s) ==
    /\ led' = RejectSession(led, s)
    /\ detaches' = detaches \cup {s}

\* Nobody waits for this answer.  A session it made is not left without owner.
OrphanReply(m) ==
    /\ Receive(m)
    /\ m.type \in {"reply", "error"}
    /\ Asked(m) = {}
    /\ IF m.session # NoSession /\ m.session \notin Live(led)
       THEN Reject(m.session)
       ELSE UNCHANGED <<led, detaches>>
    /\ UNCHANGED <<pending, nextId, closed, ended, created, cleaning, captures, answers,
                   browserVars, requests>>

\* settled() notes the session first; recordFromResponse may then refuse it.
AttachReply(m, e) ==
    /\ Receive(m)
    /\ m.type = "reply"
    /\ e \in Asked(m) /\ e.conn \in Conn /\ e.kind = "attach"
    /\ m.session \in Session
    /\ pending' = pending \ {e}
    /\ created' = [created EXCEPT ![<<e.conn, e.op>>] = @ \cup {m.session}]
    /\ \/ /\ SettleOk(led, e.conn, e.target, e.gen, m.session)
          /\ led' = SettleAttach(led, e.conn, e.target, e.gen, m.session)
          /\ Deliver(e)
          /\ UNCHANGED detaches
       \/ /\ ~SettleOk(led, e.conn, e.target, e.gen, m.session)
          /\ Reject(m.session)
          /\ UNCHANGED answers
    /\ UNCHANGED <<nextId, closed, ended, cleaning, captures, browserVars, requests>>

ClientError(m, e) ==
    /\ Receive(m)
    /\ m.type = "error"
    /\ e \in Asked(m) /\ e.conn \in Conn
    /\ pending' = pending \ {e}
    /\ led' = IF e.kind = "attach" THEN FailAttach(led, e.conn, e.target, e.gen) ELSE led
    /\ Deliver(e)
    /\ UNCHANGED <<nextId, closed, ended, created, cleaning, captures,
                   browserVars, requests, detaches>>

CreateReply(m, e) ==
    /\ Receive(m)
    /\ m.type = "reply"
    /\ e \in Asked(m) /\ e.conn \in Conn /\ e.kind = "create"
    /\ m.target \in Target
    /\ pending' = pending \ {e}
    /\ led' = ClaimTarget(led, e.conn, m.target)
    /\ Deliver(e)
    /\ UNCHANGED <<nextId, closed, ended, created, cleaning, captures,
                   browserVars, requests, detaches>>

CloseReply(m, e) ==
    /\ Receive(m)
    /\ m.type = "reply"
    /\ e \in Asked(m) /\ e.conn \in Conn /\ e.kind = "close"
    /\ pending' = pending \ {e}
    /\ led' = ForgetTarget(led, e.target)
    /\ Deliver(e)
    /\ UNCHANGED <<nextId, closed, ended, created, cleaning, captures,
                   browserVars, requests, detaches>>

HostReply(m, e) ==
    /\ Receive(m)
    /\ m.type = "reply"
    /\ e \in Asked(m) /\ e.conn = NoConn
    /\ m.session \in Session
    /\ pending' = pending \ {e}
    /\ \/ /\ SettleHostOk(led, e.id, m.session)
          /\ led' = SettleHostAttach(led, e.id, m.session)
          /\ captures' = captures \cup {m.session}
          /\ UNCHANGED detaches
       \/ /\ ~SettleHostOk(led, e.id, m.session)
          /\ Reject(m.session)
          /\ UNCHANGED captures
    /\ UNCHANGED <<nextId, closed, ended, created, cleaning, answers, browserVars, requests>>

HostError(m, e) ==
    /\ Receive(m)
    /\ m.type = "error"
    /\ e \in Asked(m) /\ e.conn = NoConn
    /\ pending' = pending \ {e}
    /\ led' = CancelHostAttach(led, e.id)
    /\ UNCHANGED <<nextId, closed, ended, created, cleaning, captures, answers,
                   browserVars, requests, detaches>>

AttachedEvent(m) ==
    /\ Receive(m)
    /\ m.type = "attached"
    /\ IF AttachEventOk(led, m.target, m.session)
       THEN /\ led' = ResolveAttachedEvent(led, m.target, m.session)
            /\ UNCHANGED detaches
       ELSE Reject(m.session)
    /\ UNCHANGED <<pending, nextId, closed, ended, created, cleaning, captures, answers,
                   browserVars, requests>>

DetachedEvent(m) ==
    /\ Receive(m)
    /\ m.type = "detached"
    /\ led' = DropSession(led, m.session)
    /\ UNCHANGED <<pending, nextId, closed, ended, created, cleaning, captures, answers,
                   browserVars, requests, detaches>>

DestroyedEvent(m) ==
    /\ Receive(m)
    /\ m.type = "destroyed"
    /\ led' = ForgetTarget(led, m.target)
    /\ UNCHANGED <<pending, nextId, closed, ended, created, cleaning, captures, answers,
                   browserVars, requests, detaches>>

-----------------------------------------------------------------------------
ClientStep ==
    \/ \E c \in Conn, o \in Op :
         \/ \E t \in Target : \/ ClientAttach(c, o, t)
                              \/ ClientAttachSendFails(c, o, t)
                              \/ ClientCloseTarget(c, o, t)
         \/ ClientCreateTarget(c, o)
         \/ EndOperation(c, o)
    \/ \E c \in Conn : CloseConnection(c)

SupervisorStep ==
    \/ \E e \in pending : ClientDeadline(e) \/ HostDeadline(e)
    \/ \E t \in Target : HostAttach(t) \/ SyncDropsTab(t)
    \/ \E s \in Session : HostDetach(s) \/ CleanupDrop(s)
    \/ \E c \in Conn, o \in Op, s \in Session : CleanupDetach(c, o, s)

MessageOf(m) ==
    \/ OrphanReply(m)
    \/ AttachedEvent(m)
    \/ DetachedEvent(m)
    \/ DestroyedEvent(m)
    \/ \E e \in pending :
         \/ AttachReply(m, e) \/ CreateReply(m, e) \/ CloseReply(m, e)
         \/ ClientError(m, e) \/ HostReply(m, e) \/ HostError(m, e)

OnMessage == \E m \in {Head(inbox) : i \in DOMAIN inbox} : MessageOf(m)

BrowserStep ==
    \/ \E r \in requests :
         \/ \E s \in Session : BrowserAttaches(r, s)
         \/ \E t \in Target : BrowserCreates(r, t)
         \/ BrowserCloses(r)
         \/ BrowserRefuses(r)
    \/ \E t \in Target : TabGone(t)
    \/ \E s \in Session : SessionEnds(s) \/ DetachMisses(s)

Next == ClientStep \/ SupervisorStep \/ OnMessage \/ BrowserStep

Spec == Init /\ [][Next]_vars

\* Node keeps running handlers, timers and cleanups; the browser executes the
\* commands it was sent.  Nothing obliges a client to act or a page to close.
Fairness ==
    /\ WF_vars(OnMessage)
    /\ WF_vars(\E e \in pending : ClientDeadline(e) \/ HostDeadline(e))
    /\ WF_vars(\E r \in requests : BrowserRefuses(r) \/ \E s \in Session : BrowserAttaches(r, s))
    /\ \A s \in Session :
         /\ WF_vars(SessionEnds(s))
         /\ WF_vars(HostDetach(s))
         /\ WF_vars(CleanupDrop(s))
         /\ \A w \in Owners : WF_vars(CleanupDetach(w[1], w[2], s))

FairSpec == Spec /\ Fairness

-----------------------------------------------------------------------------
(* Safety *)

TypeOK ==
    /\ led \in LedgerType
    /\ pending \subseteq Request
    /\ requests \subseteq Request
    /\ detaches \subseteq Session
    /\ inbox \in Seq(Message)
    /\ nextId \in 1..MaxReq + 1
    /\ closed \subseteq Conn
    /\ ended \subseteq Owners
    /\ created \in [Owners -> SUBSET Session]
    /\ cleaning \subseteq Session
    /\ captures \subseteq Session
    /\ answers \in [Ids -> Nat]
    /\ tabs \subseteq Target
    /\ born \subseteq Target
    /\ home \in [Session -> Target \cup {NoTarget}]
    /\ open \subseteq Session
    /\ source \in [Session -> Conn \cup {NoConn}]

\* A held lease is backed by the session it names, registered for the same
\* connection, tab and generation (ledger.mjs settleAttach and dropSession
\* keep the two maps together through every release path).
LeaseBacked ==
    \A t \in Target : led.leases[t].session # NoSession =>
        led.sessions[led.leases[t].session] =
            [conn |-> led.leases[t].conn, target |-> t, gen |-> led.leases[t].gen]

\* Nothing in the ledger or the pending table names a connection whose socket
\* is gone, however late its answers arrive (mux.detach, detachConnection).
ClosedOwnsNothing ==
    \A c \in closed :
        /\ \A t \in Target : led.leases[t].conn # c /\ led.routing[t] # c
        /\ \A s \in Session : led.sessions[s].conn # c
        /\ \A e \in pending : e.conn # c

\* A tab that left the task space owes nothing to anyone: no lease, no route,
\* whatever was in flight for it (ledger.mjs forgetTarget, settleAttach).
UnlistedIsFree ==
    \A t \in Target \ led.known : led.leases[t] = NoLease /\ led.routing[t] = NoConn

\* A client id is answered at most once, and not while its request is still
\* pending: response, deadline, cancellation and send failure race for it.
AnsweredAtMostOnce ==
    /\ \A i \in Ids : answers[i] <= 1
    /\ \A e \in pending : answers[e.id] = 0

\* A tombstoned session is never registered again, whatever late response or
\* event names it (ledger.mjs settleAttach, resolveAttachedEvent).
DeadStaysDead ==
    [][\A s \in Session : s \in led.tombs /\ s \notin Live(led)
                            => s \in led'.tombs /\ s \notin Live(led')]_vars

\* The tab's lease passes to another connection only through being free.
LeaseNeverStolen ==
    [][\A t \in Target : led.leases[t].conn # NoConn
                            => led'.leases[t].conn \in {NoConn, led.leases[t].conn}]_vars

\* Every live session is the one its tab's lease names, is not dead, and belongs
\* to the connection whose request made it: the attach of a withdrawn reservation
\* is never adopted by the next holder of the tab.
LiveIsOwned ==
    \A s \in Live(led) :
        /\ led.leases[led.sessions[s].target].session = s
        /\ s \notin led.tombs
        /\ source[s] = led.sessions[s].conn

-----------------------------------------------------------------------------
(* Liveness *)

\* A session the supervisor rejected does not stay attached in the browser
\* (ledger.mjs rejectChildSession, fail-closed).
RejectedIsDetached ==
    \A s \in Session : s \in led.rejected ~> s \notin open

-----------------------------------------------------------------------------
(* Refinement *)

Promise == INSTANCE AttachPromise WITH
    holder <- [t \in Target |-> led.leases[t].conn],
    owner  <- [s \in Session |-> led.sessions[s].conn],
    at     <- [s \in Session |-> led.sessions[s].target],
    dead   <- led.tombs

\* The multiplexer, ledger and cleanup together keep the attach promise.
KeepsPromise == Promise!Spec
=============================================================================
