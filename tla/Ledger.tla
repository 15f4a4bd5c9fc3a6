------------------------------- MODULE Ledger -------------------------------
(***************************************************************************)
(* The attach ledger of the browser host: who may attach to a tab, which   *)
(* CDP session belongs to whom, and which sessions are dead for good.      *)
(*                                                                         *)
(* Source: src/packages/ego-host/src/supervisor/ledger.mjs.  The ledger is *)
(* one record L; every operator below is one method of the ledger as a     *)
(* function from the ledger before the call to the ledger after it, so     *)
(* that a handler calling several methods composes them in the order of    *)
(* the code.  Node runs each method without preemption.                    *)
(*                                                                         *)
(* A map entry that is absent in the code is a null record here.  A lease  *)
(* is "held" in the code exactly when its sessionId is set, so the field   *)
(* `state' is session # NoSession.                                         *)
(***************************************************************************)
EXTENDS Naturals, FiniteSets

CONSTANTS
    Conn,       \* client connections of the supervisor
    Target,     \* tabs (CDP target ids)
    Session,    \* CDP session ids
    NoConn, NoTarget, NoSession

ASSUME NullsAreOutside ==
    /\ NoConn \notin Conn
    /\ NoTarget \notin Target
    /\ NoSession \notin Session

NoLease  == [conn |-> NoConn, gen |-> 0, session |-> NoSession]
NoRecord == [conn |-> NoConn, target |-> NoTarget, gen |-> 0]

Leases == [conn: Conn \cup {NoConn}, gen: Nat, session: Session \cup {NoSession}]
Records == [conn: Conn \cup {NoConn}, target: Target \cup {NoTarget}, gen: Nat]

\* An attach the supervisor itself has in flight, bound to its request id.
Reservations == [id: Nat, target: Target, session: Session \cup {NoSession}]

LedgerType ==
    [known    : SUBSET Target,              \* tabs listed in the task space
     routing  : [Target -> Conn \cup {NoConn}],
     leases   : [Target -> Leases],
     gens     : [Target -> Nat],
     sessions : [Session -> Records],
     tombs    : SUBSET Session,
     rejected : SUBSET Session,
     hostRes  : SUBSET Reservations,
     hostSess : SUBSET Session]

EmptyLedger(tabs) ==
    [known    |-> tabs,
     routing  |-> [t \in Target |-> NoConn],
     leases   |-> [t \in Target |-> NoLease],
     gens     |-> [t \in Target |-> 0],
     sessions |-> [s \in Session |-> NoRecord],
     tombs    |-> {},
     rejected |-> {},
     hostRes  |-> {},
     hostSess |-> {}]

Live(L) == {s \in Session : L.sessions[s] # NoRecord}

\* f with the null value at every point of S.
Cleared(f, S, null) == [x \in DOMAIN f |-> IF x \in S THEN null ELSE f[x]]

-----------------------------------------------------------------------------
(* Sessions and leases *)

\* Forgets that the lease of the session's tab must go with it.
DropSessionKeepsLease(L, s) ==
    IF s \in L.hostSess
    THEN [L EXCEPT !.hostSess = @ \ {s}]
    ELSE [L EXCEPT !.sessions[s] = NoRecord, !.tombs = @ \cup {s}]

\* A session the supervisor holds for itself leaves no tombstone.
DropSession(L, s) ==
    IF s \in L.hostSess
    THEN [L EXCEPT !.hostSess = @ \ {s}]
    ELSE [L EXCEPT
            !.sessions[s] = NoRecord,
            !.tombs = @ \cup {s},
            !.leases = Cleared(@, {t \in Target : /\ t = L.sessions[s].target
                                                  /\ L.leases[t].session = s}, NoLease)]

\* DropSession of a lease's session, which may be null.
DropLeased(L, t) ==
    IF L.leases[t].session = NoSession THEN L ELSE DropSession(L, L.leases[t].session)

Unleased(L, t) == L.leases[t].conn = NoConn

ReleaseTarget(L, t) ==
    [DropLeased(L, t) EXCEPT !.leases[t] = NoLease, !.routing[t] = NoConn]

\* Takes the tab off the list and nothing else.
ForgetTargetKeepsLease(L, t) == [L EXCEPT !.known = @ \ {t}]

ForgetTarget(L, t) == ReleaseTarget([L EXCEPT !.known = @ \ {t}], t)

ClaimTarget(L, c, t) == [L EXCEPT !.routing[t] = c, !.known = @ \cup {t}]

\* Looks at held leases only, not at reservations.
MayReserveUnlessHeld(L, c, t) ==
    L.leases[t].conn \in {c, NoConn} \/ L.leases[t].session = NoSession

MayReserve(L, c, t) == Unleased(L, t) \/ L.leases[t].conn = c

\* Replaces the lease and leaves the old session registered.
ReserveOverSession(L, c, t) ==
    [L EXCEPT
        !.gens[t] = @ + 1,
        !.leases[t] = [conn |-> c, gen |-> L.gens[t] + 1, session |-> NoSession]]

ReserveAttach(L, c, t) ==
    [DropLeased(L, t) EXCEPT
        !.gens[t] = @ + 1,
        !.leases[t] = [conn |-> c, gen |-> L.gens[t] + 1, session |-> NoSession]]

AlreadySettled(L, c, t, s) == L.sessions[s].conn = c /\ L.sessions[s].target = t

\* A tombstoned id may be registered for a new generation.
SettleOkOverTomb(L, c, t, g, s) ==
    AlreadySettled(L, c, t, s) \/ (L.leases[t].conn = c /\ L.leases[t].gen = g)

SettleOk(L, c, t, g, s) ==
    \/ AlreadySettled(L, c, t, s)
    \/ /\ s \notin L.tombs
       /\ L.leases[t].conn = c
       /\ L.leases[t].gen = g

SettleAttach(L, c, t, g, s) ==
    IF AlreadySettled(L, c, t, s) \/ ~SettleOk(L, c, t, g, s)
    THEN L
    ELSE [L EXCEPT
            !.sessions[s] = [conn |-> c, target |-> t, gen |-> g],
            !.leases[t] = [conn |-> c, gen |-> g, session |-> s]]

FailAttach(L, c, t, g) ==
    IF L.leases[t] = [conn |-> c, gen |-> g, session |-> NoSession]
    THEN [L EXCEPT !.leases[t] = NoLease]
    ELSE L

\* Sets no tombstone.
RejectSessionNoTomb(L, s) ==
    [L EXCEPT !.rejected = @ \cup {s}, !.hostSess = @ \ {s}]

\* The ledger side of rejectChildSession, with the endHostSession that its
\* hostRequest("Target.detachFromTarget") performs.
RejectSession(L, s) ==
    [L EXCEPT !.tombs = @ \cup {s}, !.rejected = @ \cup {s}, !.hostSess = @ \ {s}]

\* Ends the sessions and overlooks the reservations.
DetachConnectionKeepsReserved(L, c) ==
    LET gone == {s \in Session : L.sessions[s].conn = c}
    IN  [L EXCEPT
            !.leases = Cleared(@, {t \in Target : L.leases[t].session \in gone}, NoLease),
            !.routing = Cleared(@, {t \in Target : L.routing[t] = c}, NoConn),
            !.sessions = Cleared(@, gone, NoRecord),
            !.tombs = @ \cup gone]

DetachConnection(L, c) ==
    LET gone == {s \in Session : L.sessions[s].conn = c}
    IN  [L EXCEPT
            !.leases = Cleared(@, {t \in Target : L.leases[t].conn = c}, NoLease),
            !.routing = Cleared(@, {t \in Target : L.routing[t] = c}, NoConn),
            !.sessions = Cleared(@, gone, NoRecord),
            !.tombs = @ \cup gone]

-----------------------------------------------------------------------------
(* The supervisor's own attaches *)

BeginHostAttach(L, t, id) ==
    [L EXCEPT !.hostRes = @ \cup {[id |-> id, target |-> t, session |-> NoSession]}]

ReservationsOf(L, id) == {r \in L.hostRes : r.id = id}

CancelHostAttach(L, id) == [L EXCEPT !.hostRes = @ \ ReservationsOf(L, id)]

EndHostSession(L, s) == [L EXCEPT !.hostSess = @ \ {s}]

\* The oldest reservation of target t that no session has consumed yet, as a
\* set of at most one element.
Unconsumed(L, t) ==
    LET waiting == {r \in L.hostRes : r.target = t /\ r.session = NoSession}
    IN  {r \in waiting : \A q \in waiting : r.id <= q.id}

ConsumeReservation(L, r, s) ==
    [L EXCEPT !.hostRes = (@ \ {r}) \cup {[r EXCEPT !.session = s]},
              !.hostSess = @ \cup {s}]

SettleHostOk(L, id, s) == \E r \in ReservationsOf(L, id) : r.session \in {NoSession, s}

\* A mismatching session leaves the consumed reservation where it is.
SettleHostAttach(L, id, s) ==
    IF ~SettleHostOk(L, id, s)
    THEN L
    ELSE [L EXCEPT !.hostRes = @ \ ReservationsOf(L, id),
                   !.hostSess = IF \E r \in ReservationsOf(L, id) : r.session = NoSession
                                THEN @ \cup {s} ELSE @]

-----------------------------------------------------------------------------
(* Target.attachedToTarget: whose session is it? *)

\* A registered session passes for its own target, unless the target has been
\* leased again since.
KnownOk(L, t, s) ==
    /\ L.sessions[s].target = t
    /\ Unleased(L, t) \/ L.leases[t].gen = L.sessions[s].gen

AttachEventOk(L, t, s) ==
    \/ s \in L.hostSess
    \/ /\ s \notin L.tombs
       /\ \/ Unconsumed(L, t) # {}
          \/ s \in Live(L) /\ KnownOk(L, t, s)
          \/ s \notin Live(L) /\ ~Unleased(L, t)

ResolveAttachedEvent(L, t, s) ==
    IF s \in L.hostSess \cup L.tombs THEN L
    ELSE IF Unconsumed(L, t) # {}
    THEN ConsumeReservation(L, CHOOSE r \in Unconsumed(L, t) : TRUE, s)
    ELSE IF s \in Live(L) \/ Unleased(L, t) THEN L
    ELSE SettleAttach(L, L.leases[t].conn, t, L.leases[t].gen, s)
=============================================================================
