---------------------------- MODULE LedgerProofs ----------------------------
(***************************************************************************)
(* What each ledger operation preserves, for every ledger and every value  *)
(* of the constants.  The theorems about the multiplexer (CdpMuxProofs)    *)
(* are built from these lemmas, one or two per operation.                  *)
(***************************************************************************)
EXTENDS Ledger, TLAPS

\* No entry of L names a connection of D.
Clean(L, D) ==
    \A c \in D :
        /\ \A t \in Target : L.leases[t].conn # c /\ L.routing[t] # c
        /\ \A s \in Session : L.sessions[s].conn # c

\* A tab off the list is leased and routed to nobody.
Listed(L) == \A t \in Target \ L.known : L.leases[t] = NoLease /\ L.routing[t] = NoConn

\* A held lease names a session registered for it.
Backed(L) ==
    \A t \in Target : L.leases[t].session # NoSession =>
        L.sessions[L.leases[t].session] =
            [conn |-> L.leases[t].conn, target |-> t, gen |-> L.leases[t].gen]

\* From L to K no dead session is revived.
KeepsDead(L, K) ==
    /\ L.tombs \subseteq K.tombs
    /\ \A s \in Session :
         s \in L.tombs /\ L.sessions[s] = NoRecord => K.sessions[s] = NoRecord

\* From L to K no lease passes from one connection to another.
KeepsLease(L, K) ==
    \A t \in Target :
        L.leases[t].conn # NoConn => K.leases[t].conn \in {NoConn, L.leases[t].conn}

\* K has lost some of the entries of L and gained none.
Shrinks(L, K) ==
    /\ K \in LedgerType
    /\ K.known = L.known
    /\ L.tombs \subseteq K.tombs
    /\ \A t \in Target : K.leases[t] \in {L.leases[t], NoLease}
    /\ \A t \in Target : K.routing[t] \in {L.routing[t], NoConn}
    /\ \A s \in Session : K.sessions[s] \in {L.sessions[s], NoRecord}

-----------------------------------------------------------------------------
(* Types, and what shrinking preserves *)

LEMMA NullTypes == NoLease \in Leases /\ NoRecord \in Records
  BY DEF NoLease, Leases, NoRecord, Records

\* The fields of a ledger, one by one.
LEMMA Fields ==
  ASSUME NEW L \in LedgerType
  PROVE  /\ L.known \in SUBSET Target
         /\ L.routing \in [Target -> Conn \cup {NoConn}]
         /\ L.leases \in [Target -> Leases]
         /\ L.gens \in [Target -> Nat]
         /\ L.sessions \in [Session -> Records]
         /\ L.tombs \in SUBSET Session
         /\ L.rejected \in SUBSET Session
         /\ L.hostRes \in SUBSET Reservations
         /\ L.hostSess \in SUBSET Session
  BY DEF LedgerType

LEMMA ClearedLeases ==
  ASSUME NEW f \in [Target -> Leases], NEW S
  PROVE  /\ Cleared(f, S, NoLease) \in [Target -> Leases]
         /\ \A t \in Target : Cleared(f, S, NoLease)[t] = IF t \in S THEN NoLease ELSE f[t]
  BY NullTypes DEF Cleared

LEMMA ClearedRouting ==
  ASSUME NEW f \in [Target -> Conn \cup {NoConn}], NEW S
  PROVE  /\ Cleared(f, S, NoConn) \in [Target -> Conn \cup {NoConn}]
         /\ \A t \in Target : Cleared(f, S, NoConn)[t] = IF t \in S THEN NoConn ELSE f[t]
  BY DEF Cleared

LEMMA ClearedSessions ==
  ASSUME NEW f \in [Session -> Records], NEW S
  PROVE  /\ Cleared(f, S, NoRecord) \in [Session -> Records]
         /\ \A s \in Session :
              Cleared(f, S, NoRecord)[s] = IF s \in S THEN NoRecord ELSE f[s]
  BY NullTypes DEF Cleared

LEMMA ShrinksKeeps ==
  ASSUME NEW L \in LedgerType, NEW K, Shrinks(L, K), NEW D \in SUBSET Conn
  PROVE  /\ KeepsDead(L, K)
         /\ KeepsLease(L, K)
         /\ Clean(L, D) => Clean(K, D)
         /\ Listed(L) => Listed(K)
  <1>1. NoLease.conn = NoConn /\ NoRecord.conn = NoConn
    BY DEF NoLease, NoRecord
  <1> QED
    BY <1>1, NullsAreOutside DEF Shrinks, KeepsDead, KeepsLease, Clean, Listed

LEMMA ShrinksTransitive ==
  ASSUME NEW L, NEW K, NEW M, Shrinks(L, K), Shrinks(K, M)
  PROVE  Shrinks(L, M)
  BY DEF Shrinks

-----------------------------------------------------------------------------
(* Operations that only take away *)

\* The ledger without session s, its lease and its life.
LEMMA DropSessionIs ==
  ASSUME NEW L \in LedgerType, NEW s \in Session, s \notin L.hostSess
  PROVE  LET K == DropSession(L, s)
         IN  /\ K \in LedgerType
             /\ K.known = L.known /\ K.routing = L.routing /\ K.gens = L.gens
             /\ K.hostSess = L.hostSess
             /\ K.tombs = L.tombs \cup {s}
             /\ K.sessions = [L.sessions EXCEPT ![s] = NoRecord]
             /\ \A t \in Target : K.leases[t] =
                  IF t = L.sessions[s].target /\ L.leases[t].session = s
                  THEN NoLease ELSE L.leases[t]
  <1> DEFINE T == {t \in Target : t = L.sessions[s].target /\ L.leases[t].session = s}
             f == Cleared(L.leases, T, NoLease)
             g == [L.sessions EXCEPT ![s] = NoRecord]
             K == DropSession(L, s)
  <1>1. /\ f \in [Target -> Leases]
        /\ \A t \in Target : f[t] = IF t \in T THEN NoLease ELSE L.leases[t]
    BY Fields, ClearedLeases
  <1>2. g \in [Session -> Records]
    BY Fields, NullTypes
  <1>3. K = [L EXCEPT !.sessions = g, !.tombs = L.tombs \cup {s}, !.leases = f]
    BY Fields DEF DropSession, LedgerType
  <1> HIDE DEF f, g, K
  <1>4. K \in LedgerType
    BY <1>1, <1>2, <1>3 DEF LedgerType
  <1>5. /\ K.leases = f /\ K.sessions = g /\ K.tombs = L.tombs \cup {s}
        /\ K.known = L.known /\ K.routing = L.routing /\ K.gens = L.gens
        /\ K.hostSess = L.hostSess
    BY <1>3 DEF LedgerType
  <1> QED BY <1>1, <1>4, <1>5 DEF K, g

LEMMA DropSessionSpares ==
  ASSUME NEW L \in LedgerType, NEW s \in Session,
         NEW u \in Target, u # L.sessions[s].target
  PROVE  DropSession(L, s).leases[u] = L.leases[u]
  <1>1. CASE s \in L.hostSess
    BY <1>1 DEF DropSession, LedgerType
  <1>2. CASE s \notin L.hostSess
    <2>1. \A t \in Target : DropSession(L, s).leases[t] =
            IF t = L.sessions[s].target /\ L.leases[t].session = s
            THEN NoLease ELSE L.leases[t]
      BY <1>2, DropSessionIs
    <2> QED BY <2>1
  <1> QED BY <1>1, <1>2

LEMMA DropSessionShrinks ==
  ASSUME NEW L \in LedgerType, NEW s \in Session
  PROVE  /\ Shrinks(L, DropSession(L, s))
         /\ Backed(L) => Backed(DropSession(L, s))
  <1> DEFINE K == DropSession(L, s)
  <1>1. CASE s \in L.hostSess
    BY <1>1 DEF DropSession, LedgerType, Shrinks, Backed
  <1>2. CASE s \notin L.hostSess
    <2>1. /\ K \in LedgerType
          /\ K.known = L.known /\ K.routing = L.routing
          /\ K.tombs = L.tombs \cup {s}
          /\ K.sessions = [L.sessions EXCEPT ![s] = NoRecord]
          /\ \A t \in Target : K.leases[t] =
               IF t = L.sessions[s].target /\ L.leases[t].session = s
               THEN NoLease ELSE L.leases[t]
      BY <1>2, DropSessionIs
    <2> HIDE DEF K
    <2>2. Shrinks(L, K)
      BY <2>1, Fields DEF Shrinks
    <2>3. ASSUME Backed(L) PROVE Backed(K)
      <3> SUFFICES ASSUME NEW t \in Target, K.leases[t].session # NoSession
                   PROVE  K.sessions[K.leases[t].session] =
                            [conn |-> K.leases[t].conn, target |-> t, gen |-> K.leases[t].gen]
        BY DEF Backed
      <3>1. K.leases[t] = L.leases[t]
        BY <2>1 DEF NoLease
      <3>2. L.sessions[L.leases[t].session] =
              [conn |-> L.leases[t].conn, target |-> t, gen |-> L.leases[t].gen]
        BY <2>3, <3>1 DEF Backed
      <3>3. L.leases[t].session # s
        BY <2>1, <3>1, <3>2 DEF NoLease
      <3>4. L.leases[t].session \in Session
        BY <3>1, Fields DEF Leases
      <3> QED BY <2>1, <3>1, <3>2, <3>3, <3>4, Fields
    <2> QED BY <2>2, <2>3 DEF K
  <1> QED BY <1>1, <1>2

LEMMA DropLeasedShrinks ==
  ASSUME NEW L \in LedgerType, NEW t \in Target
  PROVE  /\ Shrinks(L, DropLeased(L, t))
         /\ Backed(L) => /\ Backed(DropLeased(L, t))
                         /\ \A u \in Target \ {t} :
                              DropLeased(L, t).leases[u] = L.leases[u]
         /\ DropLeased(L, t).gens = L.gens
  <1>1. CASE L.leases[t].session = NoSession
    BY <1>1 DEF DropLeased, Shrinks
  <1>2. CASE L.leases[t].session # NoSession
    <2> DEFINE s == L.leases[t].session
               K == DropSession(L, s)
    <2>1. s \in Session /\ DropLeased(L, t) = K
      BY <1>2, Fields DEF DropLeased, Leases
    <2>2. K.gens = L.gens
      BY <2>1, DropSessionIs DEF DropSession, LedgerType
    <2>3. ASSUME Backed(L) PROVE L.sessions[s].target = t
      <3>1. L.sessions[s] = [conn |-> L.leases[t].conn, target |-> t, gen |-> L.leases[t].gen]
        BY <2>3, <1>2 DEF Backed
      <3> QED BY <3>1
    <2>4. ASSUME L.sessions[s].target = t, NEW u \in Target \ {t}
          PROVE  K.leases[u] = L.leases[u]
      <3> HIDE DEF s
      <3> QED BY <2>1, <2>4, DropSessionSpares
    <2> HIDE DEF s
    <2> QED
      BY <2>1, <2>2, <2>3, <2>4, DropSessionShrinks
  <1> QED BY <1>1, <1>2

LEMMA ReleaseTargetShrinks ==
  ASSUME NEW L \in LedgerType, NEW t \in Target
  PROVE  /\ Shrinks(L, ReleaseTarget(L, t))
         /\ Backed(L) => Backed(ReleaseTarget(L, t))
         /\ ReleaseTarget(L, t).leases[t] = NoLease
         /\ ReleaseTarget(L, t).routing[t] = NoConn
  <1> DEFINE K == DropLeased(L, t)
             f == [K.leases EXCEPT ![t] = NoLease]
             r == [K.routing EXCEPT ![t] = NoConn]
             M == ReleaseTarget(L, t)
  <1>1. Shrinks(L, K) /\ K \in LedgerType
    BY DropLeasedShrinks DEF Shrinks
  <1>2. M = [K EXCEPT !.leases = f, !.routing = r]
    BY <1>1 DEF ReleaseTarget, LedgerType
  <1>3. f \in [Target -> Leases] /\ r \in [Target -> Conn \cup {NoConn}]
    BY <1>1, Fields, NullTypes
  <1>4. Backed(L) => Backed(K)
    BY DropLeasedShrinks
  <1> HIDE DEF K
  <1>5. /\ f[t] = NoLease /\ \A u \in Target \ {t} : f[u] = K.leases[u]
        /\ r[t] = NoConn /\ \A u \in Target \ {t} : r[u] = K.routing[u]
    BY <1>1, Fields
  <1> HIDE DEF f, r, M
  <1>6. M \in LedgerType
    BY <1>1, <1>2, <1>3 DEF LedgerType
  <1>7. /\ M.leases = f /\ M.routing = r /\ M.known = K.known
        /\ M.tombs = K.tombs /\ M.sessions = K.sessions
    BY <1>1, <1>2 DEF LedgerType
  <1>8. Shrinks(L, M)
    BY <1>1, <1>5, <1>6, <1>7 DEF Shrinks
  <1>9. Backed(L) => Backed(M)
    BY <1>4, <1>5, <1>7 DEF Backed, NoLease
  <1> QED BY <1>5, <1>7, <1>8, <1>9 DEF M

\* Operations that leave the books of tabs and sessions alone.
LEMMA SameBooks ==
  ASSUME NEW L \in LedgerType, NEW K \in LedgerType,
         K.known = L.known, K.routing = L.routing, K.leases = L.leases,
         K.sessions = L.sessions, L.tombs \subseteq K.tombs
  PROVE  Shrinks(L, K) /\ (Backed(L) => Backed(K))
  BY DEF Shrinks, Backed

LEMMA RejectSessionShrinks ==
  ASSUME NEW L \in LedgerType, NEW s \in Session
  PROVE  /\ Shrinks(L, RejectSession(L, s))
         /\ Backed(L) => Backed(RejectSession(L, s))
  <1> DEFINE K == RejectSession(L, s)
  <1>1. /\ K \in LedgerType
        /\ K.known = L.known /\ K.routing = L.routing /\ K.leases = L.leases
        /\ K.sessions = L.sessions /\ K.tombs = L.tombs \cup {s}
    BY DEF RejectSession, LedgerType
  <1> HIDE DEF K
  <1> QED BY <1>1, SameBooks DEF K

LEMMA EndHostSessionShrinks ==
  ASSUME NEW L \in LedgerType, NEW s \in Session
  PROVE  /\ Shrinks(L, EndHostSession(L, s))
         /\ Backed(L) => Backed(EndHostSession(L, s))
  <1> DEFINE K == EndHostSession(L, s)
  <1>1. /\ K \in LedgerType
        /\ K.known = L.known /\ K.routing = L.routing /\ K.leases = L.leases
        /\ K.sessions = L.sessions /\ K.tombs = L.tombs
    BY DEF EndHostSession, LedgerType
  <1> HIDE DEF K
  <1> QED BY <1>1, SameBooks DEF K

LEMMA BeginHostAttachShrinks ==
  ASSUME NEW L \in LedgerType, NEW t \in Target, NEW id \in Nat
  PROVE  /\ Shrinks(L, BeginHostAttach(L, t, id))
         /\ Backed(L) => Backed(BeginHostAttach(L, t, id))
  <1> DEFINE K == BeginHostAttach(L, t, id)
  <1>1. /\ K \in LedgerType
        /\ K.known = L.known /\ K.routing = L.routing /\ K.leases = L.leases
        /\ K.sessions = L.sessions /\ K.tombs = L.tombs
    BY DEF BeginHostAttach, LedgerType, Reservations
  <1> HIDE DEF K
  <1> QED BY <1>1, SameBooks DEF K

LEMMA CancelHostAttachShrinks ==
  ASSUME NEW L \in LedgerType, NEW id
  PROVE  /\ Shrinks(L, CancelHostAttach(L, id))
         /\ Backed(L) => Backed(CancelHostAttach(L, id))
  <1> DEFINE K == CancelHostAttach(L, id)
  <1>1. /\ K \in LedgerType
        /\ K.known = L.known /\ K.routing = L.routing /\ K.leases = L.leases
        /\ K.sessions = L.sessions /\ K.tombs = L.tombs
    BY DEF CancelHostAttach, LedgerType
  <1> HIDE DEF K
  <1> QED BY <1>1, SameBooks DEF K

LEMMA SettleHostAttachShrinks ==
  ASSUME NEW L \in LedgerType, NEW id, NEW s \in Session
  PROVE  /\ Shrinks(L, SettleHostAttach(L, id, s))
         /\ Backed(L) => Backed(SettleHostAttach(L, id, s))
  <1> DEFINE K == SettleHostAttach(L, id, s)
             h == IF \E r \in ReservationsOf(L, id) : r.session = NoSession
                  THEN L.hostSess \cup {s} ELSE L.hostSess
  <1>1. CASE ~SettleHostOk(L, id, s)
    BY <1>1, SameBooks DEF SettleHostAttach
  <1>2. CASE SettleHostOk(L, id, s)
    <2>1. K = [L EXCEPT !.hostRes = L.hostRes \ ReservationsOf(L, id), !.hostSess = h]
      BY <1>2 DEF SettleHostAttach, LedgerType
    <2>2. h \in SUBSET Session
      BY Fields
    <2> HIDE DEF h, K
    <2>3. /\ K \in LedgerType
          /\ K.known = L.known /\ K.routing = L.routing /\ K.leases = L.leases
          /\ K.sessions = L.sessions /\ K.tombs = L.tombs
      BY <2>1, <2>2 DEF LedgerType
    <2> QED BY <2>3, SameBooks DEF K
  <1> QED BY <1>1, <1>2

LEMMA ConsumeReservationShrinks ==
  ASSUME NEW L \in LedgerType, NEW r \in L.hostRes, NEW s \in Session
  PROVE  /\ Shrinks(L, ConsumeReservation(L, r, s))
         /\ Backed(L) => Backed(ConsumeReservation(L, r, s))
  <1> DEFINE K == ConsumeReservation(L, r, s)
             q == [r EXCEPT !.session = s]
             h == (L.hostRes \ {r}) \cup {q}
  <1>1. q \in Reservations
    BY Fields DEF Reservations
  <1>2. K = [L EXCEPT !.hostRes = h, !.hostSess = L.hostSess \cup {s}]
    BY DEF ConsumeReservation, LedgerType
  <1>3. h \in SUBSET Reservations
    BY <1>1, Fields
  <1> HIDE DEF h, K
  <1>4. /\ K \in LedgerType
        /\ K.known = L.known /\ K.routing = L.routing /\ K.leases = L.leases
        /\ K.sessions = L.sessions /\ K.tombs = L.tombs
    BY <1>2, <1>3 DEF LedgerType
  <1> QED BY <1>4, SameBooks DEF K

LEMMA FailAttachShrinks ==
  ASSUME NEW L \in LedgerType, NEW c, NEW t \in Target, NEW g
  PROVE  /\ Shrinks(L, FailAttach(L, c, t, g))
         /\ Backed(L) => Backed(FailAttach(L, c, t, g))
  <1> DEFINE K == FailAttach(L, c, t, g)
             f == [L.leases EXCEPT ![t] = NoLease]
  <1>1. CASE K = L
    BY <1>1, SameBooks
  <1>2. CASE K = [L EXCEPT !.leases[t] = NoLease]
    <2>1. K = [L EXCEPT !.leases = f]
      BY <1>2 DEF LedgerType
    <2>2. f \in [Target -> Leases] /\ f[t] = NoLease /\ \A u \in Target \ {t} : f[u] = L.leases[u]
      BY Fields, NullTypes
    <2> HIDE DEF f, K
    <2>3. K \in LedgerType
      BY <2>1, <2>2 DEF LedgerType
    <2>4. /\ K.known = L.known /\ K.routing = L.routing /\ K.leases = f
          /\ K.sessions = L.sessions /\ K.tombs = L.tombs
      BY <2>1 DEF LedgerType
    <2>5. Shrinks(L, K)
      BY <2>2, <2>3, <2>4 DEF Shrinks
    <2>6. Backed(L) => Backed(K)
      BY <2>2, <2>4 DEF Backed, NoLease
    <2> QED BY <2>5, <2>6 DEF K
  <1> QED BY <1>1, <1>2 DEF FailAttach

LEMMA DetachConnectionShrinks ==
  ASSUME NEW L \in LedgerType, NEW c \in Conn
  PROVE  /\ Shrinks(L, DetachConnection(L, c))
         /\ Clean(DetachConnection(L, c), {c})
         /\ Backed(L) => Backed(DetachConnection(L, c))
  <1> DEFINE K == DetachConnection(L, c)
             gone == {s \in Session : L.sessions[s].conn = c}
             T == {t \in Target : L.leases[t].conn = c}
             R == {t \in Target : L.routing[t] = c}
             f == Cleared(L.leases, T, NoLease)
             r == Cleared(L.routing, R, NoConn)
             g == Cleared(L.sessions, gone, NoRecord)
  <1>1. K = [L EXCEPT !.leases = f, !.routing = r, !.sessions = g,
                      !.tombs = L.tombs \cup gone]
    BY DEF DetachConnection, LedgerType
  <1>2. /\ f \in [Target -> Leases]
        /\ \A t \in Target : f[t] = IF L.leases[t].conn = c THEN NoLease ELSE L.leases[t]
    <2> HIDE DEF T
    <2>1. /\ f \in [Target -> Leases]
          /\ \A t \in Target : f[t] = IF t \in T THEN NoLease ELSE L.leases[t]
      BY Fields, ClearedLeases
    <2> QED BY <2>1 DEF T
  <1>3. /\ r \in [Target -> Conn \cup {NoConn}]
        /\ \A t \in Target : r[t] = IF L.routing[t] = c THEN NoConn ELSE L.routing[t]
    <2> HIDE DEF R
    <2>1. /\ r \in [Target -> Conn \cup {NoConn}]
          /\ \A t \in Target : r[t] = IF t \in R THEN NoConn ELSE L.routing[t]
      BY Fields, ClearedRouting
    <2> QED BY <2>1 DEF R
  <1>4. /\ g \in [Session -> Records]
        /\ \A s \in Session : g[s] = IF L.sessions[s].conn = c THEN NoRecord ELSE L.sessions[s]
    <2> HIDE DEF gone
    <2>1. /\ g \in [Session -> Records]
          /\ \A s \in Session : g[s] = IF s \in gone THEN NoRecord ELSE L.sessions[s]
      BY Fields, ClearedSessions
    <2> QED BY <2>1 DEF gone
  <1>5. L.tombs \cup gone \in SUBSET Session
    BY Fields
  <1> HIDE DEF f, r, g, gone, K
  <1>6. /\ K \in LedgerType
        /\ K.known = L.known /\ K.routing = r /\ K.leases = f /\ K.sessions = g
        /\ K.tombs = L.tombs \cup gone
    BY <1>1, <1>2, <1>3, <1>4, <1>5 DEF LedgerType
  <1>7. Shrinks(L, K)
    BY <1>2, <1>3, <1>4, <1>6 DEF Shrinks
  <1>8. Clean(K, {c})
    BY <1>2, <1>3, <1>4, <1>6, NullsAreOutside DEF Clean, NoLease, NoRecord
  <1>9. ASSUME Backed(L) PROVE Backed(K)
    <2> SUFFICES ASSUME NEW t \in Target, K.leases[t].session # NoSession
                 PROVE  K.sessions[K.leases[t].session] =
                          [conn |-> K.leases[t].conn, target |-> t, gen |-> K.leases[t].gen]
      BY DEF Backed
    <2>1. K.leases[t] = L.leases[t] /\ L.leases[t].conn # c
      BY <1>2, <1>6 DEF NoLease
    <2>2. L.sessions[L.leases[t].session] =
            [conn |-> L.leases[t].conn, target |-> t, gen |-> L.leases[t].gen]
      BY <1>9, <2>1 DEF Backed
    <2>3. L.leases[t].session \in Session
      BY <2>1, Fields DEF Leases
    <2> QED BY <1>4, <1>6, <2>1, <2>2, <2>3
  <1> QED BY <1>7, <1>8, <1>9 DEF K

-----------------------------------------------------------------------------
(* Operations that also give *)

\* K is a ledger that L may turn into while the connections D stay out of it.
Keeps(L, K, D) ==
    /\ K \in LedgerType
    /\ KeepsDead(L, K)
    /\ KeepsLease(L, K)
    /\ Clean(L, D) => Clean(K, D)
    /\ Listed(L) => Listed(K)

LEMMA ShrinksIsKeeps ==
  ASSUME NEW L \in LedgerType, NEW K, Shrinks(L, K), NEW D \in SUBSET Conn
  PROVE  Keeps(L, K, D)
  BY ShrinksKeeps DEF Keeps, Shrinks

LEMMA ForgetTargetKeeps ==
  ASSUME NEW L \in LedgerType, NEW t \in Target, NEW D \in SUBSET Conn
  PROVE  /\ Keeps(L, ForgetTarget(L, t), D)
         /\ Backed(L) => Backed(ForgetTarget(L, t))
  <1> DEFINE K == [L EXCEPT !.known = @ \ {t}]
             M == ReleaseTarget(K, t)
  <1>1. /\ K \in LedgerType
        /\ K.known = L.known \ {t} /\ K.routing = L.routing /\ K.leases = L.leases
        /\ K.sessions = L.sessions /\ K.tombs = L.tombs
    BY DEF LedgerType
  <1> HIDE DEF K
  <1>2. /\ Shrinks(K, M) /\ (Backed(K) => Backed(M))
        /\ M.leases[t] = NoLease /\ M.routing[t] = NoConn
    BY <1>1, ReleaseTargetShrinks
  <1> HIDE DEF M
  <1>3. KeepsDead(L, M) /\ KeepsLease(L, M) /\ M \in LedgerType
    BY <1>1, <1>2 DEF Shrinks, KeepsDead, KeepsLease, NoLease
  <1>4. Clean(L, D) => Clean(M, D)
    BY <1>1, <1>2, ShrinksKeeps DEF Clean
  <1>5. Listed(L) => Listed(M)
    BY <1>1, <1>2 DEF Listed, Shrinks
  <1>6. Backed(L) => Backed(M)
    BY <1>1, <1>2 DEF Backed
  <1> QED BY <1>3, <1>4, <1>5, <1>6 DEF Keeps, ForgetTarget, K, M

LEMMA ClaimTargetKeeps ==
  ASSUME NEW L \in LedgerType, NEW c \in Conn, NEW t \in Target,
         NEW D \in SUBSET Conn, c \notin D
  PROVE  /\ Keeps(L, ClaimTarget(L, c, t), D)
         /\ Backed(L) => Backed(ClaimTarget(L, c, t))
  <1> DEFINE K == ClaimTarget(L, c, t)
  <1>1. /\ K \in LedgerType
        /\ K.known = L.known \cup {t} /\ K.routing = [L.routing EXCEPT ![t] = c]
        /\ K.leases = L.leases /\ K.sessions = L.sessions /\ K.tombs = L.tombs
    BY DEF ClaimTarget, LedgerType
  <1> HIDE DEF K
  <1>2. KeepsDead(L, K) /\ KeepsLease(L, K)
    BY <1>1 DEF KeepsDead, KeepsLease
  <1>3. Clean(L, D) => Clean(K, D)
    BY <1>1, Fields DEF Clean
  <1>4. Listed(L) => Listed(K)
    BY <1>1, Fields DEF Listed
  <1>5. Backed(L) => Backed(K)
    BY <1>1 DEF Backed
  <1> QED BY <1>1, <1>2, <1>3, <1>4, <1>5 DEF Keeps, K

LEMMA ReserveAttachKeeps ==
  ASSUME NEW L \in LedgerType, NEW c \in Conn, NEW t \in Target, MayReserve(L, c, t),
         NEW D \in SUBSET Conn, c \notin D
  PROVE  /\ KeepsDead(L, ReserveAttach(L, c, t))
         /\ KeepsLease(L, ReserveAttach(L, c, t))
         /\ ReserveAttach(L, c, t) \in LedgerType
         /\ Clean(L, D) => Clean(ReserveAttach(L, c, t), D)
         /\ t \in L.known /\ Listed(L) => Listed(ReserveAttach(L, c, t))
         /\ Backed(L) => Backed(ReserveAttach(L, c, t))
  <1> DEFINE K == DropLeased(L, t)
             lease == [conn |-> c, gen |-> L.gens[t] + 1, session |-> NoSession]
             f == [K.leases EXCEPT ![t] = lease]
             n == [K.gens EXCEPT ![t] = K.gens[t] + 1]
             M == ReserveAttach(L, c, t)
  <1>1. /\ Shrinks(L, K) /\ K \in LedgerType
        /\ Backed(L) => Backed(K)
    BY DropLeasedShrinks DEF Shrinks
  <1>2. M = [K EXCEPT !.gens = n, !.leases = f]
    BY <1>1 DEF ReserveAttach, LedgerType
  <1>3. lease \in Leases
    BY Fields DEF Leases
  <1> HIDE DEF K
  <1>4. /\ n \in [Target -> Nat]
        /\ f \in [Target -> Leases] /\ f[t] = lease
        /\ \A u \in Target \ {t} : f[u] = K.leases[u]
    <2> HIDE DEF lease
    <2> QED BY <1>1, <1>3, Fields
  <1>5. lease.conn = c /\ lease.session = NoSession
    OBVIOUS
  <1> HIDE DEF f, n, lease, M
  <1>6. /\ M \in LedgerType
        /\ M.known = K.known /\ M.routing = K.routing /\ M.leases = f
        /\ M.sessions = K.sessions /\ M.tombs = K.tombs
    BY <1>1, <1>2, <1>4 DEF LedgerType
  <1>7. KeepsDead(L, M)
    BY <1>1, <1>6 DEF Shrinks, KeepsDead
  <1>8. KeepsLease(L, M)
    BY <1>1, <1>4, <1>5, <1>6 DEF Shrinks, KeepsLease, MayReserve, Unleased, NoLease
  <1>9. Clean(L, D) => Clean(M, D)
    <2>1. Clean(L, D) => Clean(K, D)
      BY <1>1, ShrinksKeeps
    <2> QED BY <2>1, <1>4, <1>5, <1>6 DEF Clean
  <1>10. t \in L.known /\ Listed(L) => Listed(M)
    BY <1>1, <1>4, <1>6 DEF Listed, Shrinks
  <1>11. Backed(L) => Backed(M)
    BY <1>1, <1>4, <1>5, <1>6 DEF Backed
  <1> QED BY <1>6, <1>7, <1>8, <1>9, <1>10, <1>11 DEF M

LEMMA SettleAttachKeeps ==
  ASSUME NEW L \in LedgerType, NEW c \in Conn, NEW t \in Target, NEW g \in Nat,
         NEW s \in Session, NEW D \in SUBSET Conn, c \notin D
  PROVE  /\ Keeps(L, SettleAttach(L, c, t, g, s), D)
         /\ Backed(L) /\ (s \notin Live(L) \/ L.sessions[s].target = t)
              => Backed(SettleAttach(L, c, t, g, s))
  <1> DEFINE rec == [conn |-> c, target |-> t, gen |-> g]
             lease == [conn |-> c, gen |-> g, session |-> s]
             f == [L.leases EXCEPT ![t] = lease]
             r == [L.sessions EXCEPT ![s] = rec]
             K == SettleAttach(L, c, t, g, s)
  <1>1. CASE AlreadySettled(L, c, t, s) \/ ~SettleOk(L, c, t, g, s)
    <2>1. K = L
      BY <1>1 DEF SettleAttach
    <2> QED BY <2>1, SameBooks, ShrinksIsKeeps
  <1>2. CASE ~AlreadySettled(L, c, t, s) /\ SettleOk(L, c, t, g, s)
    <2>1. K = [L EXCEPT !.sessions = r, !.leases = f]
      BY <1>2 DEF SettleAttach, LedgerType
    <2>2. s \notin L.tombs /\ L.leases[t].conn = c
      BY <1>2 DEF SettleOk
    <2>3. /\ rec \in Records /\ rec.conn = c /\ rec.target = t /\ rec.gen = g
          /\ lease \in Leases /\ lease.conn = c /\ lease.gen = g /\ lease.session = s
      BY DEF Records, Leases
    <2>4. [conn |-> lease.conn, target |-> t, gen |-> lease.gen] = rec
      OBVIOUS
    <2> HIDE DEF rec, lease, K
    <2>5. /\ f \in [Target -> Leases] /\ f[t] = lease
          /\ \A u \in Target \ {t} : f[u] = L.leases[u]
          /\ r \in [Session -> Records] /\ r[s] = rec
          /\ \A x \in Session \ {s} : r[x] = L.sessions[x]
      BY <2>3, Fields
    <2> HIDE DEF f, r
    <2>6. /\ K \in LedgerType
          /\ K.known = L.known /\ K.routing = L.routing /\ K.leases = f
          /\ K.sessions = r /\ K.tombs = L.tombs
      BY <2>1, <2>5 DEF LedgerType
    <2>7. KeepsDead(L, K) /\ KeepsLease(L, K)
      BY <2>2, <2>3, <2>5, <2>6 DEF KeepsDead, KeepsLease
    <2>8. Clean(L, D) => Clean(K, D)
      BY <2>3, <2>5, <2>6 DEF Clean
    <2>9. Listed(L) => Listed(K)
      BY <2>2, <2>5, <2>6, NullsAreOutside DEF Listed, NoLease
    <2>10. ASSUME Backed(L), s \notin Live(L) \/ L.sessions[s].target = t
           PROVE  Backed(K)
      <3> SUFFICES ASSUME NEW u \in Target, K.leases[u].session # NoSession
                   PROVE  K.sessions[K.leases[u].session] =
                            [conn |-> K.leases[u].conn, target |-> u, gen |-> K.leases[u].gen]
        BY DEF Backed
      <3>1. CASE u = t
        BY <3>1, <2>3, <2>4, <2>5, <2>6
      <3>2. CASE u # t
        <4>1. K.leases[u] = L.leases[u] /\ L.leases[u].session \in Session
          BY <3>2, <2>5, <2>6, Fields DEF Leases
        <4>2. L.sessions[L.leases[u].session] =
                [conn |-> L.leases[u].conn, target |-> u, gen |-> L.leases[u].gen]
          BY <2>10, <4>1 DEF Backed
        <4>3. L.sessions[L.leases[u].session].target = u
          BY <4>2
        <4>4. L.leases[u].session # s
          BY <2>10, <3>2, <4>1, <4>3, NullsAreOutside DEF Live, NoRecord
        <4> QED BY <2>5, <2>6, <4>1, <4>2, <4>4
      <3> QED BY <3>1, <3>2
    <2> QED BY <2>6, <2>7, <2>8, <2>9, <2>10 DEF Keeps, K
  <1> QED BY <1>1, <1>2

LEMMA ResolveAttachedEventKeeps ==
  ASSUME NEW L \in LedgerType, NEW t \in Target, NEW s \in Session,
         NEW D \in SUBSET Conn, Clean(L, D)
  PROVE  /\ Keeps(L, ResolveAttachedEvent(L, t, s), D)
         /\ Backed(L) => Backed(ResolveAttachedEvent(L, t, s))
  <1> DEFINE K == ResolveAttachedEvent(L, t, s)
             r == CHOOSE x \in Unconsumed(L, t) : TRUE
  <1>1. CASE K = L
    BY <1>1, SameBooks, ShrinksIsKeeps
  <1>2. CASE K = ConsumeReservation(L, r, s) /\ Unconsumed(L, t) # {}
    <2>1. r \in L.hostRes
      BY <1>2 DEF Unconsumed
    <2> HIDE DEF r
    <2> QED BY <1>2, <2>1, ConsumeReservationShrinks, ShrinksIsKeeps
  <1>3. CASE /\ s \notin Live(L)
             /\ ~Unleased(L, t)
             /\ K = SettleAttach(L, L.leases[t].conn, t, L.leases[t].gen, s)
    <2>1. L.leases[t].gen \in Nat /\ L.leases[t].conn \in Conn
      BY <1>3, Fields DEF Leases, Unleased
    <2>2. L.leases[t].conn \notin D
      BY <2>1 DEF Clean
    <2> QED BY <1>3, <2>1, <2>2, SettleAttachKeeps
  <1> QED BY <1>1, <1>2, <1>3 DEF ResolveAttachedEvent

-----------------------------------------------------------------------------
(* What each operation does to a ledger without captures *)

\* Every live session is the one its tab's lease names, and the supervisor has
\* nothing of its own in flight.
Exclusive(L) ==
    /\ Backed(L)
    /\ \A s \in Live(L) :
          /\ L.sessions[s].target \in Target
          /\ L.leases[L.sessions[s].target].session = s
          /\ s \notin L.tombs
    /\ \A t \in Target : L.leases[t].gen <= L.gens[t]
    /\ L.hostRes = {} /\ L.hostSess = {}

\* K is L with the leases of the tabs T gone and their sessions dead.
Revokes(L, K, T) ==
    /\ K \in LedgerType
    /\ \A t \in Target : K.leases[t] = IF t \in T THEN NoLease ELSE L.leases[t]
    /\ \A s \in Session :
          K.sessions[s] = IF L.sessions[s].target \in T THEN NoRecord ELSE L.sessions[s]
    /\ K.tombs = L.tombs \cup {s \in Session : L.sessions[s].target \in T}
    /\ \A t \in Target : L.gens[t] <= K.gens[t]
    /\ K.hostRes = L.hostRes /\ K.hostSess = L.hostSess

\* K is L with a tombstone for a session nobody has.
Refuses(L, K, s) ==
    /\ K \in LedgerType
    /\ K.leases = L.leases /\ K.sessions = L.sessions /\ K.gens = L.gens
    /\ K.tombs = L.tombs \cup {s} /\ s \notin Live(L)
    /\ K.hostRes = L.hostRes /\ K.hostSess = L.hostSess

\* K is L with the tab t reserved for c, and the sessions on it dead.
Grants(L, K, c, t) ==
    /\ K \in LedgerType
    /\ L.leases[t].conn \in {c, NoConn}
    /\ K.leases[t] = [conn |-> c, gen |-> L.gens[t] + 1, session |-> NoSession]
    /\ \A u \in Target : u # t => K.leases[u] = L.leases[u]
    /\ \A s \in Session :
          K.sessions[s] = IF L.sessions[s].target = t THEN NoRecord ELSE L.sessions[s]
    /\ K.tombs = L.tombs \cup {s \in Session : L.sessions[s].target = t}
    /\ K.gens[t] = L.gens[t] + 1
    /\ \A u \in Target : u # t => K.gens[u] = L.gens[u]
    /\ K.hostRes = L.hostRes /\ K.hostSess = L.hostSess

\* K is L with session s registered for the reservation c has on the tab t.
Settles(L, K, c, t, s) ==
    /\ K \in LedgerType
    /\ c # NoConn /\ L.leases[t].conn = c /\ L.leases[t].session = NoSession
    /\ s \notin L.tombs /\ s \notin Live(L)
    /\ K.leases[t] = [conn |-> c, gen |-> L.leases[t].gen, session |-> s]
    /\ \A u \in Target : u # t => K.leases[u] = L.leases[u]
    /\ K.sessions[s] = [conn |-> c, target |-> t, gen |-> L.leases[t].gen]
    /\ \A r \in Session : r # s => K.sessions[r] = L.sessions[r]
    /\ K.tombs = L.tombs /\ K.gens = L.gens
    /\ K.hostRes = L.hostRes /\ K.hostSess = L.hostSess

\* A session on a tab is live, and the one the lease of the tab names.
LEMMA OneOnATab ==
  ASSUME NEW L \in LedgerType, Exclusive(L), NEW s \in Session, NEW t \in Target
  PROVE  /\ L.sessions[s].target = t => s \in Live(L) /\ L.leases[t].session = s
         /\ L.leases[t].session = s => /\ L.sessions[s].target = t
                                       /\ L.sessions[s].conn = L.leases[t].conn
                                       /\ L.sessions[s].gen = L.leases[t].gen
  <1>1. L.sessions[s].target = t => s \in Live(L)
    BY NullsAreOutside DEF Live, NoRecord
  <1>2. ASSUME L.leases[t].session = s
        PROVE  L.sessions[s] = [conn |-> L.leases[t].conn, target |-> t, gen |-> L.leases[t].gen]
    BY <1>2, NullsAreOutside DEF Exclusive, Backed
  <1>3. s \in Live(L) => /\ L.sessions[s].target \in Target
                         /\ L.leases[L.sessions[s].target].session = s
    BY DEF Exclusive
  <1>4. L.leases[t].session = s => /\ L.sessions[s].target = t
                                   /\ L.sessions[s].conn = L.leases[t].conn
                                   /\ L.sessions[s].gen = L.leases[t].gen
    BY <1>2
  <1> QED BY <1>1, <1>3, <1>4

\* Nothing changes that the promise of the ledger is about.
LEMMA SameIsRevoked ==
  ASSUME NEW L \in LedgerType, NEW K \in LedgerType,
         K.leases = L.leases, K.sessions = L.sessions, K.tombs = L.tombs,
         K.gens = L.gens, K.hostRes = L.hostRes, K.hostSess = L.hostSess
  PROVE  Revokes(L, K, {})
  BY Fields DEF Revokes

LEMMA DropSessionRevokes ==
  ASSUME NEW L \in LedgerType, Exclusive(L), NEW s \in Session
  PROVE  /\ s \in Live(L) => Revokes(L, DropSession(L, s), {L.sessions[s].target})
         /\ s \notin Live(L) => Refuses(L, DropSession(L, s), s)
         /\ DropSession(L, s).gens = L.gens
  <1>1. PICK K : K = DropSession(L, s)
    OBVIOUS
  <1>2. /\ K \in LedgerType /\ K.gens = L.gens /\ K.hostSess = L.hostSess
        /\ K.tombs = L.tombs \cup {s}
        /\ K.sessions = [L.sessions EXCEPT ![s] = NoRecord]
        /\ \A t \in Target : K.leases[t] =
             IF t = L.sessions[s].target /\ L.leases[t].session = s
             THEN NoLease ELSE L.leases[t]
    BY <1>1, DropSessionIs DEF Exclusive
  <1>3. K.hostRes = L.hostRes
    BY <1>1 DEF DropSession, LedgerType, Exclusive
  <1>4. /\ K.sessions[s] = NoRecord
        /\ \A r \in Session : r # s => K.sessions[r] = L.sessions[r]
    BY <1>2, Fields
  <1>5. ASSUME s \in Live(L)
        PROVE  Revokes(L, K, {L.sessions[s].target})
    <2>1. PICK t \in Target : t = L.sessions[s].target
      BY <1>5 DEF Exclusive
    <2>2. L.leases[t].session = s
      BY <2>1, OneOnATab
    <2>3. \A r \in Session : L.sessions[r].target = t <=> r = s
      BY <2>1, <2>2, OneOnATab
    <2>4. \A u \in Target : K.leases[u] = IF u \in {t} THEN NoLease ELSE L.leases[u]
      BY <1>2, <2>1, <2>2
    <2>5. \A r \in Session :
            K.sessions[r] = IF L.sessions[r].target \in {t} THEN NoRecord ELSE L.sessions[r]
      BY <1>4, <2>3
    <2>6. K.tombs = L.tombs \cup {r \in Session : L.sessions[r].target \in {t}}
      BY <1>2, <2>3
    <2>7. \A u \in Target : L.gens[u] <= K.gens[u]
      BY <1>2, Fields
    <2> QED BY <1>2, <1>3, <2>1, <2>4, <2>5, <2>6, <2>7 DEF Revokes
  <1>6. ASSUME s \notin Live(L)
        PROVE  Refuses(L, K, s)
    <2>1. L.sessions[s] = NoRecord /\ L.sessions[s].target = NoTarget
      BY <1>6 DEF Live, NoRecord
    <2>2. \A t \in Target : K.leases[t] = L.leases[t]
      BY <1>2, <2>1, NullsAreOutside
    <2>3. K.leases = L.leases
      BY <1>2, <2>2, Fields
    <2>4. K.sessions = L.sessions
      BY <1>2, <2>1, Fields
    <2> QED BY <1>2, <1>3, <1>6, <2>3, <2>4 DEF Refuses
  <1> QED BY <1>1, <1>2, <1>5, <1>6

\* What is left of the lease of t once its session is dropped does not matter.
LEMMA DropLeasedRevokes ==
  ASSUME NEW L \in LedgerType, Exclusive(L), NEW t \in Target
  PROVE  LET K == DropLeased(L, t)
         IN  /\ K \in LedgerType
             /\ \A u \in Target : u # t => K.leases[u] = L.leases[u]
             /\ \A s \in Session :
                   K.sessions[s] = IF L.sessions[s].target = t THEN NoRecord ELSE L.sessions[s]
             /\ K.tombs = L.tombs \cup {s \in Session : L.sessions[s].target = t}
             /\ K.gens = L.gens
             /\ K.hostRes = L.hostRes /\ K.hostSess = L.hostSess
  <1>1. PICK K : K = DropLeased(L, t)
    OBVIOUS
  <1>2. CASE L.leases[t].session = NoSession
    <2>1. K = L
      BY <1>1, <1>2 DEF DropLeased
    <2>2. \A s \in Session : L.sessions[s].target # t
      BY <1>2, OneOnATab, NullsAreOutside
    <2> QED BY <1>1, <2>1, <2>2
  <1>3. CASE L.leases[t].session # NoSession
    <2>1. PICK s \in Session : s = L.leases[t].session
      BY <1>3, Fields DEF Leases
    <2>2. L.sessions[s].target = t /\ s \in Live(L)
      BY <2>1, OneOnATab
    <2>3. K = DropSession(L, s)
      BY <1>1, <1>3, <2>1 DEF DropLeased
    <2>4. Revokes(L, K, {t}) /\ K.gens = L.gens
      BY <2>2, <2>3, DropSessionRevokes
    <2> QED BY <1>1, <2>4 DEF Revokes
  <1> QED BY <1>2, <1>3

LEMMA ReleaseTargetRevokes ==
  ASSUME NEW L \in LedgerType, Exclusive(L), NEW t \in Target
  PROVE  Revokes(L, ReleaseTarget(L, t), {t})
  <1>1. PICK K : K = DropLeased(L, t)
    OBVIOUS
  <1>2. /\ K \in LedgerType
        /\ \A u \in Target : u # t => K.leases[u] = L.leases[u]
        /\ \A s \in Session :
              K.sessions[s] = IF L.sessions[s].target = t THEN NoRecord ELSE L.sessions[s]
        /\ K.tombs = L.tombs \cup {s \in Session : L.sessions[s].target = t}
        /\ K.gens = L.gens
        /\ K.hostRes = L.hostRes /\ K.hostSess = L.hostSess
    BY <1>1, DropLeasedRevokes
  <1>3. PICK M : M = ReleaseTarget(L, t)
    OBVIOUS
  <1>4. M \in LedgerType
    BY <1>3, ReleaseTargetShrinks DEF Shrinks
  <1>5. PICK f, r : /\ f = [K.leases EXCEPT ![t] = NoLease]
                    /\ r = [K.routing EXCEPT ![t] = NoConn]
    OBVIOUS
  <1>6. M = [K EXCEPT !.leases = f, !.routing = r]
    BY <1>1, <1>2, <1>3, <1>5 DEF ReleaseTarget, LedgerType
  <1>7. f[t] = NoLease /\ \A u \in Target : u # t => f[u] = K.leases[u]
    BY <1>2, <1>5, Fields
  <1>8. /\ M.leases = f /\ M.sessions = K.sessions /\ M.tombs = K.tombs /\ M.gens = K.gens
        /\ M.hostRes = K.hostRes /\ M.hostSess = K.hostSess
    BY <1>2, <1>6 DEF LedgerType
  <1>9. \A u \in Target : L.gens[u] <= M.gens[u]
    BY <1>2, <1>8, Fields
  <1> QED BY <1>2, <1>3, <1>4, <1>7, <1>8, <1>9 DEF Revokes

LEMMA ForgetTargetRevokes ==
  ASSUME NEW L \in LedgerType, Exclusive(L), NEW t \in Target
  PROVE  Revokes(L, ForgetTarget(L, t), {t})
  <1>1. PICK K : K = [L EXCEPT !.known = @ \ {t}]
    OBVIOUS
  <1>2. /\ K \in LedgerType /\ K.leases = L.leases /\ K.sessions = L.sessions
        /\ K.tombs = L.tombs /\ K.gens = L.gens
        /\ K.hostRes = L.hostRes /\ K.hostSess = L.hostSess
    BY <1>1 DEF LedgerType
  <1>3. Exclusive(K)
    BY <1>2 DEF Exclusive, Backed, Live
  <1>4. Revokes(K, ForgetTarget(L, t), {t})
    BY <1>1, <1>2, <1>3, ReleaseTargetRevokes DEF ForgetTarget
  <1> QED BY <1>2, <1>4 DEF Revokes

LEMMA FailAttachRevokes ==
  ASSUME NEW L \in LedgerType, Exclusive(L), NEW c, NEW t \in Target, NEW g
  PROVE  \E T \in SUBSET Target : Revokes(L, FailAttach(L, c, t, g), T)
  <1>1. PICK K : K = FailAttach(L, c, t, g)
    OBVIOUS
  <1>2. CASE L.leases[t] = [conn |-> c, gen |-> g, session |-> NoSession]
    <2>1. PICK f : f = [L.leases EXCEPT ![t] = NoLease]
      OBVIOUS
    <2>2. K = [L EXCEPT !.leases = f]
      BY <1>1, <1>2, <2>1 DEF FailAttach, LedgerType
    <2>3. f[t] = NoLease /\ \A u \in Target : u # t => f[u] = L.leases[u]
      BY <2>1, Fields
    <2>4. K \in LedgerType
      BY <1>1, FailAttachShrinks DEF Shrinks
    <2>5. /\ K.leases = f /\ K.sessions = L.sessions /\ K.tombs = L.tombs /\ K.gens = L.gens
          /\ K.hostRes = L.hostRes /\ K.hostSess = L.hostSess
      BY <2>2 DEF LedgerType
    <2>6. \A s \in Session : L.sessions[s].target # t
      BY <1>2, OneOnATab, NullsAreOutside
    <2>7. \A u \in Target : L.gens[u] <= K.gens[u]
      BY <2>5, Fields
    <2>8. Revokes(L, K, {t})
      BY <2>3, <2>4, <2>5, <2>6, <2>7 DEF Revokes
    <2> QED BY <1>1, <2>8
  <1>3. CASE L.leases[t] # [conn |-> c, gen |-> g, session |-> NoSession]
    <2>1. K = L
      BY <1>1, <1>3 DEF FailAttach
    <2>2. Revokes(L, K, {})
      BY <2>1, SameIsRevoked
    <2> QED BY <1>1, <2>2
  <1> QED BY <1>2, <1>3

LEMMA DetachConnectionRevokes ==
  ASSUME NEW L \in LedgerType, Exclusive(L), NEW c \in Conn
  PROVE  \E T \in SUBSET Target : Revokes(L, DetachConnection(L, c), T)
  <1>1. PICK gone \in SUBSET Session : gone = {s \in Session : L.sessions[s].conn = c}
    OBVIOUS
  <1>2. PICK T \in SUBSET Target : T = {t \in Target : L.leases[t].conn = c}
    OBVIOUS
  <1>3. PICK f, r, g : /\ f = Cleared(L.leases, T, NoLease)
                       /\ r = Cleared(L.routing, {t \in Target : L.routing[t] = c}, NoConn)
                       /\ g = Cleared(L.sessions, gone, NoRecord)
    OBVIOUS
  <1>4. PICK K : K = DetachConnection(L, c)
    OBVIOUS
  <1>5. K = [L EXCEPT !.leases = f, !.routing = r, !.sessions = g, !.tombs = L.tombs \cup gone]
    BY <1>1, <1>2, <1>3, <1>4 DEF DetachConnection, LedgerType
  <1>6. K \in LedgerType
    BY <1>4, DetachConnectionShrinks DEF Shrinks
  <1>7. /\ K.leases = f /\ K.sessions = g /\ K.tombs = L.tombs \cup gone
        /\ K.gens = L.gens /\ K.hostRes = L.hostRes /\ K.hostSess = L.hostSess
    BY <1>5 DEF LedgerType
  <1>8. \A t \in Target : f[t] = IF t \in T THEN NoLease ELSE L.leases[t]
    BY <1>3, Fields, ClearedLeases
  <1>9. \A s \in Session : g[s] = IF s \in gone THEN NoRecord ELSE L.sessions[s]
    BY <1>3, Fields, ClearedSessions
  <1>10. \A s \in Session : s \in gone <=> L.sessions[s].target \in T
    <2> SUFFICES ASSUME NEW s \in Session
                 PROVE  L.sessions[s].conn = c <=> L.sessions[s].target \in T
      BY <1>1
    <2>1. ASSUME L.sessions[s].conn = c
          PROVE  L.sessions[s].target \in T
      <3>1. s \in Live(L)
        BY <2>1, NullsAreOutside DEF Live, NoRecord
      <3>2. PICK t \in Target : t = L.sessions[s].target
        BY <3>1 DEF Exclusive
      <3>3. L.leases[t].session = s
        BY <3>2, OneOnATab
      <3>4. L.leases[t].conn = c
        BY <2>1, <3>3, OneOnATab
      <3> QED BY <1>2, <3>2, <3>4
    <2>2. ASSUME L.sessions[s].target \in T
          PROVE  L.sessions[s].conn = c
      <3>1. PICK t \in Target : t = L.sessions[s].target /\ L.leases[t].conn = c
        BY <1>2, <2>2
      <3>2. L.leases[t].session = s
        BY <3>1, OneOnATab
      <3> QED BY <3>1, <3>2, OneOnATab
    <2> QED BY <2>1, <2>2
  <1>11. \A t \in Target : L.gens[t] <= K.gens[t]
    BY <1>7, Fields
  <1>12. L.tombs \cup gone = L.tombs \cup {s \in Session : L.sessions[s].target \in T}
    BY <1>10
  <1>13. Revokes(L, K, T)
    BY <1>6, <1>7, <1>8, <1>9, <1>10, <1>11, <1>12 DEF Revokes
  <1> QED BY <1>4, <1>13

LEMMA RejectSessionRefuses ==
  ASSUME NEW L \in LedgerType, Exclusive(L), NEW s \in Session, s \notin Live(L)
  PROVE  Refuses(L, RejectSession(L, s), s)
  <1>1. PICK K : K = RejectSession(L, s)
    OBVIOUS
  <1>2. K \in LedgerType
    BY <1>1, RejectSessionShrinks DEF Shrinks
  <1>3. /\ K.leases = L.leases /\ K.sessions = L.sessions /\ K.gens = L.gens
        /\ K.tombs = L.tombs \cup {s} /\ K.hostRes = L.hostRes /\ K.hostSess = L.hostSess
    BY <1>1 DEF RejectSession, LedgerType, Exclusive
  <1> QED BY <1>1, <1>2, <1>3 DEF Refuses

LEMMA ReserveAttachGrants ==
  ASSUME NEW L \in LedgerType, Exclusive(L), NEW c \in Conn, NEW t \in Target,
         MayReserve(L, c, t)
  PROVE  Grants(L, ReserveAttach(L, c, t), c, t)
  <1>1. PICK K : K = DropLeased(L, t)
    OBVIOUS
  <1>2. /\ K \in LedgerType
        /\ \A u \in Target : u # t => K.leases[u] = L.leases[u]
        /\ \A s \in Session :
              K.sessions[s] = IF L.sessions[s].target = t THEN NoRecord ELSE L.sessions[s]
        /\ K.tombs = L.tombs \cup {s \in Session : L.sessions[s].target = t}
        /\ K.gens = L.gens
        /\ K.hostRes = L.hostRes /\ K.hostSess = L.hostSess
    BY <1>1, DropLeasedRevokes
  <1>3. PICK M : M = ReserveAttach(L, c, t)
    OBVIOUS
  <1>4. M \in LedgerType
    <2>1. PICK D \in SUBSET Conn : D = {}
      OBVIOUS
    <2> QED BY <1>3, <2>1, ReserveAttachKeeps
  <1>5. PICK lease : lease = [conn |-> c, gen |-> L.gens[t] + 1, session |-> NoSession]
    OBVIOUS
  <1>6. PICK f, n : /\ f = [K.leases EXCEPT ![t] = lease]
                    /\ n = [K.gens EXCEPT ![t] = K.gens[t] + 1]
    OBVIOUS
  <1>7. M = [K EXCEPT !.gens = n, !.leases = f]
    BY <1>1, <1>2, <1>3, <1>5, <1>6 DEF ReserveAttach, LedgerType
  <1>8. /\ f[t] = lease /\ \A u \in Target : u # t => f[u] = K.leases[u]
        /\ n[t] = L.gens[t] + 1 /\ \A u \in Target : u # t => n[u] = L.gens[u]
    BY <1>2, <1>6, Fields
  <1>9. /\ M.leases = f /\ M.sessions = K.sessions /\ M.tombs = K.tombs /\ M.gens = n
        /\ M.hostRes = K.hostRes /\ M.hostSess = K.hostSess
    BY <1>2, <1>7 DEF LedgerType
  <1>10. L.leases[t].conn \in {c, NoConn}
    BY DEF MayReserve, Unleased
  <1> QED BY <1>2, <1>3, <1>4, <1>5, <1>8, <1>9, <1>10 DEF Grants

\* An attach that could not be sent ends what was on the tab and grants nothing.
LEMMA FailedReserveRevokes ==
  ASSUME NEW L \in LedgerType, Exclusive(L), NEW c \in Conn, NEW t \in Target,
         MayReserve(L, c, t)
  PROVE  Revokes(L, FailAttach(ReserveAttach(L, c, t), c, t, L.gens[t] + 1), {t})
  <1>1. PICK M : M = ReserveAttach(L, c, t)
    OBVIOUS
  <1>2. Grants(L, M, c, t)
    BY <1>1, ReserveAttachGrants
  <1>3. M \in LedgerType
    BY <1>2 DEF Grants
  <1>4. PICK K : K = FailAttach(M, c, t, L.gens[t] + 1)
    OBVIOUS
  <1>5. PICK f : f = [M.leases EXCEPT ![t] = NoLease]
    OBVIOUS
  <1>6. K = [M EXCEPT !.leases = f]
    BY <1>2, <1>3, <1>4, <1>5 DEF FailAttach, Grants, LedgerType
  <1>7. f[t] = NoLease /\ \A u \in Target : u # t => f[u] = M.leases[u]
    BY <1>3, <1>5, Fields
  <1>8. /\ K.leases = f /\ K.sessions = M.sessions /\ K.tombs = M.tombs /\ K.gens = M.gens
        /\ K.hostRes = M.hostRes /\ K.hostSess = M.hostSess
    BY <1>3, <1>6 DEF LedgerType
  <1>9. K \in LedgerType
    BY <1>3, <1>4, FailAttachShrinks DEF Shrinks
  <1>10. \A u \in Target : L.gens[u] <= K.gens[u]
    BY <1>2, <1>8, Fields DEF Grants
  <1>11. Revokes(L, K, {t})
    BY <1>2, <1>7, <1>8, <1>9, <1>10 DEF Revokes, Grants
  <1> QED BY <1>1, <1>4, <1>11

LEMMA SettleAttachSettles ==
  ASSUME NEW L \in LedgerType, Exclusive(L), NEW c \in Conn, NEW t \in Target,
         NEW s \in Session, s \notin L.tombs, s \notin Live(L),
         L.leases[t].conn = c, L.leases[t].session = NoSession
  PROVE  Settles(L, SettleAttach(L, c, t, L.leases[t].gen, s), c, t, s)
  <1>1. PICK g \in Nat : g = L.leases[t].gen
    BY Fields DEF Leases
  <1>2. PICK K : K = SettleAttach(L, c, t, g, s)
    OBVIOUS
  <1>3. K \in LedgerType
    <2>1. Keeps(L, K, {})
      BY <1>2, SettleAttachKeeps
    <2> QED BY <2>1 DEF Keeps
  <1>4. ~AlreadySettled(L, c, t, s) /\ SettleOk(L, c, t, g, s)
    BY <1>1, NullsAreOutside DEF AlreadySettled, SettleOk, Live, NoRecord
  <1>5. PICK lease, rec : /\ lease = [conn |-> c, gen |-> g, session |-> s]
                          /\ rec = [conn |-> c, target |-> t, gen |-> g]
    OBVIOUS
  <1>6. PICK f, r : f = [L.leases EXCEPT ![t] = lease] /\ r = [L.sessions EXCEPT ![s] = rec]
    OBVIOUS
  <1>7. K = [L EXCEPT !.sessions = r, !.leases = f]
    BY <1>2, <1>4, <1>5, <1>6 DEF SettleAttach, LedgerType
  <1>8. /\ f[t] = lease /\ \A u \in Target : u # t => f[u] = L.leases[u]
        /\ r[s] = rec /\ \A x \in Session : x # s => r[x] = L.sessions[x]
    BY <1>6, Fields
  <1>9. /\ K.leases = f /\ K.sessions = r /\ K.tombs = L.tombs /\ K.gens = L.gens
        /\ K.hostRes = L.hostRes /\ K.hostSess = L.hostSess
    BY <1>7 DEF LedgerType
  <1>10. c # NoConn
    BY NullsAreOutside
  <1> QED BY <1>1, <1>2, <1>3, <1>5, <1>8, <1>9, <1>10 DEF Settles

\* The four ways a ledger may move, and what they keep.
Moves(L, K) ==
    \/ \E T \in SUBSET Target : Revokes(L, K, T)
    \/ \E s \in Session : Refuses(L, K, s)
    \/ \E c \in Conn, t \in Target : Grants(L, K, c, t)
    \/ \E c \in Conn, t \in Target, s \in Session : Settles(L, K, c, t, s)

LEMMA RevokesKeeps ==
  ASSUME NEW L \in LedgerType, Exclusive(L), NEW K, NEW T \in SUBSET Target, Revokes(L, K, T)
  PROVE  /\ Exclusive(K) /\ Live(K) \subseteq Live(L)
         /\ Live(L) \cup L.tombs \subseteq Live(K) \cup K.tombs
  <1>1. K \in LedgerType
    BY DEF Revokes
  <1>2. \A s \in Session : s \in Live(K) =>
           /\ s \in Live(L) /\ K.sessions[s] = L.sessions[s] /\ L.sessions[s].target \notin T
    BY DEF Revokes, Live
  <1>3. \A s \in Session : s \in Live(L) => s \in Live(K) \/ s \in K.tombs
    BY DEF Revokes, Live
  <1>4. ASSUME NEW s \in Session, s \in Live(K)
        PROVE  /\ K.sessions[s].target \in Target
               /\ K.leases[K.sessions[s].target].session = s
               /\ s \notin K.tombs
    <2>1. PICK t \in Target : t = L.sessions[s].target
      BY <1>2, <1>4 DEF Exclusive
    <2>2. /\ L.leases[t].session = s /\ s \notin L.tombs
          /\ t \notin T /\ K.sessions[s].target = t
      BY <1>2, <1>4, <2>1 DEF Exclusive
    <2>3. K.leases[t] = L.leases[t] /\ s \notin K.tombs
      BY <2>1, <2>2 DEF Revokes
    <2> QED BY <2>2, <2>3
  <1>5. Backed(K)
    <2> SUFFICES ASSUME NEW t \in Target, K.leases[t].session # NoSession
                 PROVE  K.sessions[K.leases[t].session] =
                          [conn |-> K.leases[t].conn, target |-> t, gen |-> K.leases[t].gen]
      BY DEF Backed
    <2>1. t \notin T /\ K.leases[t] = L.leases[t]
      BY DEF Revokes, NoLease
    <2>2. PICK s \in Session : s = L.leases[t].session
      BY <2>1, Fields DEF Leases
    <2>3. L.sessions[s] = [conn |-> L.leases[t].conn, target |-> t, gen |-> L.leases[t].gen]
      BY <2>1, <2>2 DEF Exclusive, Backed
    <2>4. L.sessions[s].target = t
      BY <2>3
    <2>5. K.sessions[s] = L.sessions[s]
      BY <2>1, <2>4 DEF Revokes
    <2> QED BY <2>1, <2>2, <2>3, <2>5
  <1>6. ASSUME NEW t \in Target PROVE K.leases[t].gen <= K.gens[t]
    <2>1. L.leases[t].gen <= L.gens[t] /\ L.gens[t] <= K.gens[t]
      BY DEF Exclusive, Revokes
    <2>2. K.leases[t] = L.leases[t] \/ K.leases[t].gen = 0
      BY DEF Revokes, NoLease
    <2>3. L.leases[t].gen \in Nat /\ L.gens[t] \in Nat /\ K.gens[t] \in Nat
      BY <1>1, Fields DEF Leases
    <2> QED BY <2>1, <2>2, <2>3
  <1>7. Live(K) \subseteq Session /\ Live(L) \subseteq Session
    BY DEF Live
  <1>8. K.hostRes = {} /\ K.hostSess = {} /\ L.tombs \subseteq K.tombs
    BY DEF Revokes, Exclusive
  <1> QED BY <1>2, <1>3, <1>4, <1>5, <1>6, <1>7, <1>8 DEF Exclusive

LEMMA RefusesKeeps ==
  ASSUME NEW L \in LedgerType, Exclusive(L), NEW K, NEW s \in Session, Refuses(L, K, s)
  PROVE  /\ Exclusive(K) /\ Live(K) = Live(L)
         /\ Live(L) \cup L.tombs \subseteq Live(K) \cup K.tombs
  BY DEF Refuses, Exclusive, Live, Backed

LEMMA GrantsKeeps ==
  ASSUME NEW L \in LedgerType, Exclusive(L), NEW K, NEW c \in Conn, NEW t \in Target,
         Grants(L, K, c, t)
  PROVE  /\ Exclusive(K) /\ Live(K) \subseteq Live(L)
         /\ Live(L) \cup L.tombs \subseteq Live(K) \cup K.tombs
  <1>1. K \in LedgerType
    BY DEF Grants
  <1>2. \A s \in Session : s \in Live(K) =>
           /\ s \in Live(L) /\ K.sessions[s] = L.sessions[s] /\ L.sessions[s].target # t
    BY DEF Grants, Live
  <1>3. \A s \in Session : s \in Live(L) => s \in Live(K) \/ s \in K.tombs
    BY DEF Grants, Live
  <1>4. ASSUME NEW s \in Session, s \in Live(K)
        PROVE  /\ K.sessions[s].target \in Target
               /\ K.leases[K.sessions[s].target].session = s
               /\ s \notin K.tombs
    <2>1. PICK u \in Target : u = L.sessions[s].target
      BY <1>2, <1>4 DEF Exclusive
    <2>2. /\ L.leases[u].session = s /\ s \notin L.tombs
          /\ u # t /\ K.sessions[s].target = u
      BY <1>2, <1>4, <2>1 DEF Exclusive
    <2>3. K.leases[u] = L.leases[u] /\ s \notin K.tombs
      BY <2>1, <2>2 DEF Grants
    <2> QED BY <2>2, <2>3
  <1>5. Backed(K)
    <2> SUFFICES ASSUME NEW u \in Target, K.leases[u].session # NoSession
                 PROVE  K.sessions[K.leases[u].session] =
                          [conn |-> K.leases[u].conn, target |-> u, gen |-> K.leases[u].gen]
      BY DEF Backed
    <2>1. u # t /\ K.leases[u] = L.leases[u]
      BY DEF Grants
    <2>2. PICK s \in Session : s = L.leases[u].session
      BY <2>1, Fields DEF Leases
    <2>3. L.sessions[s] = [conn |-> L.leases[u].conn, target |-> u, gen |-> L.leases[u].gen]
      BY <2>1, <2>2 DEF Exclusive, Backed
    <2>4. L.sessions[s].target = u
      BY <2>3
    <2>5. K.sessions[s] = L.sessions[s]
      BY <2>1, <2>4 DEF Grants
    <2> QED BY <2>1, <2>2, <2>3, <2>5
  <1>6. ASSUME NEW u \in Target PROVE K.leases[u].gen <= K.gens[u]
    <2>1. L.leases[u].gen <= L.gens[u] /\ L.gens[u] \in Nat
      BY Fields DEF Exclusive
    <2>2. CASE u = t
      <3>1. K.leases[u].gen = L.gens[t] + 1 /\ K.gens[u] = L.gens[t] + 1
        BY <2>2 DEF Grants
      <3> QED BY <2>1, <2>2, <3>1
    <2>3. CASE u # t
      BY <2>1, <2>3 DEF Grants
    <2> QED BY <2>2, <2>3
  <1>7. Live(K) \subseteq Session /\ Live(L) \subseteq Session
    BY DEF Live
  <1>8. K.hostRes = {} /\ K.hostSess = {} /\ L.tombs \subseteq K.tombs
    BY DEF Grants, Exclusive
  <1> QED BY <1>2, <1>3, <1>4, <1>5, <1>6, <1>7, <1>8 DEF Exclusive

LEMMA SettlesKeeps ==
  ASSUME NEW L \in LedgerType, Exclusive(L), NEW K, NEW c \in Conn, NEW t \in Target,
         NEW s \in Session, Settles(L, K, c, t, s)
  PROVE  /\ Exclusive(K) /\ Live(K) = Live(L) \cup {s}
         /\ Live(L) \cup L.tombs \subseteq Live(K) \cup K.tombs
  <1>1. K \in LedgerType
    BY DEF Settles
  <1>2. K.sessions[s].target = t /\ K.sessions[s] # NoRecord
    BY NullsAreOutside DEF Settles, NoRecord
  <1>3. \A r \in Session : r # s => K.sessions[r] = L.sessions[r]
    BY DEF Settles
  <1>4. Live(K) = Live(L) \cup {s}
    BY <1>2, <1>3 DEF Live
  <1>5. ASSUME NEW r \in Session, r \in Live(K)
        PROVE  /\ K.sessions[r].target \in Target
               /\ K.leases[K.sessions[r].target].session = r
               /\ r \notin K.tombs
    <2>1. CASE r = s
      <3>1. K.leases[t].session = s /\ s \notin K.tombs
        BY DEF Settles
      <3> QED BY <1>2, <2>1, <3>1
    <2>2. CASE r # s
      <3>1. PICK u \in Target : u = L.sessions[r].target
        BY <1>4, <1>5, <2>2 DEF Exclusive
      <3>2. /\ L.leases[u].session = r /\ r \notin L.tombs /\ K.sessions[r].target = u
        BY <1>3, <1>4, <1>5, <2>2, <3>1 DEF Exclusive
      <3>3. u # t
        BY <3>2, NullsAreOutside DEF Settles
      <3>4. K.leases[u] = L.leases[u] /\ r \notin K.tombs
        BY <3>2, <3>3 DEF Settles
      <3> QED BY <3>2, <3>4
    <2> QED BY <2>1, <2>2
  <1>6. Backed(K)
    <2> SUFFICES ASSUME NEW u \in Target, K.leases[u].session # NoSession
                 PROVE  K.sessions[K.leases[u].session] =
                          [conn |-> K.leases[u].conn, target |-> u, gen |-> K.leases[u].gen]
      BY DEF Backed
    <2>1. CASE u = t
      <3>1. /\ K.leases[t].session = s /\ K.leases[t].conn = c
            /\ K.leases[t].gen = L.leases[t].gen
            /\ K.sessions[s] = [conn |-> c, target |-> t, gen |-> L.leases[t].gen]
        BY DEF Settles
      <3> QED BY <2>1, <3>1
    <2>2. CASE u # t
      <3>1. K.leases[u] = L.leases[u]
        BY <2>2 DEF Settles
      <3>2. PICK r \in Session : r = L.leases[u].session
        BY <3>1, Fields DEF Leases
      <3>3. L.sessions[r] = [conn |-> L.leases[u].conn, target |-> u, gen |-> L.leases[u].gen]
        BY <3>1, <3>2 DEF Exclusive, Backed
      <3>4. L.sessions[r].target = u
        BY <3>3
      <3>5. r # s
        BY <3>4, NullsAreOutside DEF Settles, Live, NoRecord
      <3> QED BY <1>3, <3>1, <3>2, <3>3, <3>5
    <2> QED BY <2>1, <2>2
  <1>7. ASSUME NEW u \in Target PROVE K.leases[u].gen <= K.gens[u]
    <2>1. L.leases[u].gen <= L.gens[u] /\ K.gens = L.gens
      BY DEF Exclusive, Settles
    <2>2. K.leases[u].gen = L.leases[u].gen
      BY DEF Settles
    <2> QED BY <2>1, <2>2
  <1>8. K.hostRes = {} /\ K.hostSess = {} /\ K.tombs = L.tombs
    BY DEF Settles, Exclusive
  <1> QED BY <1>4, <1>5, <1>6, <1>7, <1>8 DEF Exclusive, Live
=============================================================================
