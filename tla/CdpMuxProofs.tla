---------------------------- MODULE CdpMuxProofs ----------------------------
(***************************************************************************)
(* Theorems about the multiplexer for every set of connections, operations,*)
(* tabs and sessions and every bound.  The first part holds for every      *)
(* behaviour of the browser that CdpMux allows, session ids reused         *)
(* included; LeaseBacked takes fresh ids (~ReuseIds); LiveIsOwned and the  *)
(* promise take also that the answer of an attach is read before its event *)
(* (~EventFirst) and that the supervisor attaches nothing for itself       *)
(* (~Captures).  The code promises no more: README, "Disagreements seen".  *)
(***************************************************************************)
EXTENDS CdpMux, LedgerProofs, SequenceTheorems

\* Upstream ids are issued once: a pending request has an id of the past and
\* shares it with no other, and an id of the future was never answered.
IdsIssuedOnce ==
    /\ \A e \in pending : e.id < nextId
    /\ \A e, f \in pending : e.id = f.id => e = f
    /\ \A i \in Ids : i >= nextId => answers[i] = 0

\* The inductive invariant.
IInv ==
    /\ TypeOK
    /\ ClosedOwnsNothing
    /\ UnlistedIsFree
    /\ IdsIssuedOnce
    /\ AnsweredAtMostOnce

\* What every step does to the ledger.
LedgerLaw == KeepsDead(led, led') /\ KeepsLease(led, led')

\* ClosedOwnsNothing and UnlistedIsFree in the vocabulary of LedgerProofs.
LEMMA InvLedger ==
  ASSUME TypeOK
  PROVE  /\ ClosedOwnsNothing <=> Clean(led, closed) /\ \A e \in pending : e.conn \notin closed
         /\ UnlistedIsFree <=> Listed(led)
  BY DEF TypeOK, ClosedOwnsNothing, UnlistedIsFree, Clean, Listed

LEMMA InvLedgerPrime ==
  ASSUME TypeOK'
  PROVE  /\ ClosedOwnsNothing' <=> Clean(led', closed') /\ \A e \in pending' : e.conn \notin closed'
         /\ UnlistedIsFree' <=> Listed(led')
  BY DEF TypeOK, ClosedOwnsNothing, UnlistedIsFree, Clean, Listed

\* A step that only takes requests out of the pending table, answering some
\* of them once, and leaves the closed connections alone.
LEMMA SettlingStep ==
  ASSUME IInv, TypeOK', Keeps(led, led', closed),
         pending' \subseteq pending, closed' = closed, nextId' = nextId,
         \A i \in Ids : \/ answers'[i] = answers[i]
                        \/ /\ answers'[i] = answers[i] + 1
                           /\ \E e \in pending \ pending' : e.id = i
  PROVE  IInv' /\ LedgerLaw
  <1>1. Clean(led', closed') /\ Listed(led') /\ LedgerLaw
    BY InvLedger DEF IInv, Keeps, LedgerLaw
  <1>2. ClosedOwnsNothing' /\ UnlistedIsFree'
    BY <1>1, InvLedger, InvLedgerPrime DEF IInv
  <1>3. IdsIssuedOnce'
    <2>1. ASSUME NEW i \in Ids, i >= nextId
          PROVE  answers'[i] = 0
      <3>1. answers[i] = 0
        BY <2>1 DEF IInv, IdsIssuedOnce
      <3>2. \A e \in pending : e.id # i
        BY <2>1 DEF IInv, IdsIssuedOnce, TypeOK, Request, Ids
      <3> QED BY <3>1, <3>2
    <2> QED BY <2>1 DEF IInv, IdsIssuedOnce
  <1>4. AnsweredAtMostOnce'
    <2>1. ASSUME NEW i \in Ids
          PROVE  answers'[i] <= 1
      <3>1. \A e \in pending : e.id = i => answers[i] = 0
        BY DEF IInv, AnsweredAtMostOnce
      <3>2. answers[i] <= 1 /\ answers[i] \in Nat
        BY <2>1 DEF IInv, AnsweredAtMostOnce, TypeOK
      <3> QED BY <2>1, <3>1, <3>2
    <2>2. ASSUME NEW e \in pending'
          PROVE  answers'[e.id] = 0
      <3>1. e \in pending /\ e.id \in Ids /\ answers[e.id] = 0
        BY <2>2 DEF IInv, AnsweredAtMostOnce, TypeOK, Request
      <3>2. \A f \in pending \ pending' : f.id # e.id
        BY <2>2, <3>1 DEF IInv, IdsIssuedOnce
      <3> QED BY <3>1, <3>2
    <2> QED BY <2>1, <2>2 DEF AnsweredAtMostOnce
  <1> QED BY <1>1, <1>2, <1>3, <1>4 DEF IInv

\* A step that neither answers nor asks.
LEMMA QuietStep ==
  ASSUME IInv, TypeOK', Keeps(led, led', closed),
         pending' = pending, closed' = closed, nextId' = nextId, answers' = answers
  PROVE  IInv' /\ LedgerLaw
  BY SettlingStep DEF IInv, TypeOK

\* A step that sends one request upstream for a connection that is open.
LEMMA SendingStep ==
  ASSUME IInv, TypeOK', KeepsDead(led, led'), KeepsLease(led, led'),
         Clean(led', closed), Listed(led'),
         closed' = closed, answers' = answers,
         NEW r, Send(r), r.id = nextId, r.conn \notin closed
  PROVE  IInv' /\ LedgerLaw
  <1>1. ClosedOwnsNothing' /\ UnlistedIsFree'
    BY InvLedger, InvLedgerPrime DEF IInv, Send
  <1>2. nextId \in Ids /\ answers[nextId] = 0
    BY DEF IInv, IdsIssuedOnce, Send, TypeOK, Ids
  <1>3. \A e \in pending : e.id \in Ids /\ e.id < nextId
    BY DEF IInv, IdsIssuedOnce, TypeOK, Request
  <1>4. IdsIssuedOnce'
    <2>1. \A e \in pending' : e.id < nextId'
      BY <1>2, <1>3 DEF Send, Ids
    <2>2. ASSUME NEW e \in pending', NEW f \in pending', e.id = f.id PROVE e = f
      BY <1>2, <1>3, <2>2 DEF IInv, IdsIssuedOnce, Send, Ids
    <2>3. \A i \in Ids : i >= nextId' => answers'[i] = 0
      BY <1>2 DEF IInv, IdsIssuedOnce, Send, Ids
    <2> QED BY <2>1, <2>2, <2>3 DEF IdsIssuedOnce
  <1>5. AnsweredAtMostOnce'
    BY <1>2 DEF IInv, AnsweredAtMostOnce, Send
  <1> QED BY <1>1, <1>4, <1>5 DEF IInv, LedgerLaw

-----------------------------------------------------------------------------
(* Client steps *)

LEMMA ClientAttachStep ==
  ASSUME IInv, NEW c \in Conn, NEW o \in Op, NEW t \in Target, ClientAttach(c, o, t)
  PROVE  IInv' /\ LedgerLaw
  <1> DEFINE r == MkRequest(c, o, "attach", t, led.gens[t] + 1)
  <1>1. led \in LedgerType /\ closed \in SUBSET Conn /\ c \notin closed
    BY DEF IInv, TypeOK, ClientAttach, Running
  <1>2. Clean(led, closed) /\ Listed(led)
    BY InvLedger DEF IInv
  <1>3. /\ KeepsDead(led, led') /\ KeepsLease(led, led') /\ led' \in LedgerType
        /\ Clean(led', closed) /\ Listed(led')
    BY <1>1, <1>2, ReserveAttachKeeps DEF ClientAttach
  <1>4. r \in Request
    BY <1>1, Fields DEF MkRequest, Request, ClientAttach, Send, IInv, TypeOK, Ids
  <1>5. r.id = nextId /\ r.conn = c /\ Send(r)
    BY DEF MkRequest, ClientAttach
  <1> HIDE DEF r
  <1>6. TypeOK'
    BY <1>3, <1>4, <1>5, MuxAssumption
      DEF IInv, TypeOK, ClientAttach, Send, browserVars
  <1> QED BY <1>1, <1>3, <1>5, <1>6, SendingStep DEF ClientAttach

LEMMA ClientAttachSendFailsStep ==
  ASSUME IInv, NEW c \in Conn, NEW o \in Op, NEW t \in Target, ClientAttachSendFails(c, o, t)
  PROVE  IInv' /\ LedgerLaw
  <1> DEFINE K == ReserveAttach(led, c, t)
  <1>1. led \in LedgerType /\ closed \in SUBSET Conn /\ c \notin closed
    BY DEF IInv, TypeOK, ClientAttachSendFails, Running
  <1>2. Clean(led, closed) /\ Listed(led)
    BY InvLedger DEF IInv
  <1>3. /\ KeepsDead(led, K) /\ KeepsLease(led, K) /\ K \in LedgerType
        /\ Clean(K, closed) /\ Listed(K)
    BY <1>1, <1>2, ReserveAttachKeeps DEF ClientAttachSendFails
  <1>4. led' = FailAttach(K, c, t, led.gens[t] + 1)
    BY DEF ClientAttachSendFails
  <1> HIDE DEF K
  <1>5. Shrinks(K, led')
    BY <1>3, <1>4, FailAttachShrinks
  <1>6. Clean(led', closed) /\ Listed(led')
    BY <1>1, <1>3, <1>5, ShrinksKeeps
  <1>7. KeepsDead(led, led') /\ KeepsLease(led, led') /\ led' \in LedgerType
    BY <1>3, <1>5 DEF KeepsDead, KeepsLease, Shrinks, NoLease
  <1>8. TypeOK'
    BY <1>7, MuxAssumption
      DEF IInv, TypeOK, ClientAttachSendFails, browserVars, wireVars, Ids
  <1>9. ClosedOwnsNothing' /\ UnlistedIsFree'
    BY <1>6, <1>8, InvLedger, InvLedgerPrime DEF IInv, ClientAttachSendFails
  <1>10. nextId \in Ids /\ answers[nextId] = 0
    BY DEF IInv, IdsIssuedOnce, ClientAttachSendFails, TypeOK, Ids
  <1>11. /\ \A e \in pending : e.id \in Ids /\ e.id < nextId
         /\ answers' = [answers EXCEPT ![nextId] = @ + 1]
         /\ nextId' = nextId + 1 /\ pending' = pending
    BY DEF IInv, IdsIssuedOnce, TypeOK, Request, ClientAttachSendFails
  <1>12. IdsIssuedOnce'
    BY <1>10, <1>11 DEF IInv, IdsIssuedOnce, TypeOK, Ids
  <1>13. AnsweredAtMostOnce'
    BY <1>10, <1>11 DEF IInv, AnsweredAtMostOnce, TypeOK, Ids
  <1> QED BY <1>7, <1>8, <1>9, <1>12, <1>13 DEF IInv, LedgerLaw

\* A request that leaves the ledger as it is.
LEMMA PlainRequestStep ==
  ASSUME IInv, NEW c \in Conn, NEW o \in Op,
         ClientCreateTarget(c, o) \/ \E t \in Target : ClientCloseTarget(c, o, t)
  PROVE  IInv' /\ LedgerLaw
  <1>1. PICK r \in Request : Send(r) /\ r.id = nextId /\ r.conn = c
    <2>1. CASE ClientCreateTarget(c, o)
      <3>1. MkRequest(c, o, "create", NoTarget, 0) \in Request
        BY <2>1 DEF MkRequest, Request, ClientCreateTarget, Send, IInv, TypeOK, Ids
      <3> QED BY <2>1, <3>1 DEF ClientCreateTarget, MkRequest
    <2>2. ASSUME NEW t \in Target, ClientCloseTarget(c, o, t)
          PROVE  \E r \in Request : Send(r) /\ r.id = nextId /\ r.conn = c
      <3>1. MkRequest(c, o, "close", t, 0) \in Request
        BY <2>2 DEF MkRequest, Request, ClientCloseTarget, Send, IInv, TypeOK, Ids
      <3> QED BY <2>2, <3>1 DEF ClientCloseTarget, MkRequest
    <2> QED BY <2>1, <2>2
  <1>2. /\ c \notin closed
        /\ UNCHANGED <<led, closed, ended, created, cleaning, captures, answers>>
        /\ UNCHANGED browserVars /\ UNCHANGED <<detaches, inbox>>
    BY DEF ClientCreateTarget, ClientCloseTarget, Running
  <1>3. TypeOK'
    BY <1>1, <1>2, MuxAssumption DEF IInv, TypeOK, Send, browserVars
  <1>4. /\ KeepsDead(led, led') /\ KeepsLease(led, led')
        /\ Clean(led', closed) /\ Listed(led')
    BY <1>2, InvLedger DEF IInv, KeepsDead, KeepsLease
  <1> QED BY <1>1, <1>2, <1>3, <1>4, SendingStep

LEMMA EndOperationStep ==
  ASSUME IInv, NEW c \in Conn, NEW o \in Op, EndOperation(c, o)
  PROVE  IInv' /\ LedgerLaw
  <1>1. \A i \in Ids : answers'[i] \in Nat
    BY DEF IInv, TypeOK, EndOperation
  <1>2. TypeOK'
    BY <1>1 DEF IInv, TypeOK, EndOperation, Owners, browserVars, wireVars
  <1>3. led' = led /\ Keeps(led, led', closed)
    BY DEF IInv, TypeOK, EndOperation, Keeps, KeepsDead, KeepsLease
  <1>4. \A i \in Ids : \/ answers'[i] = answers[i]
                       \/ /\ answers'[i] = answers[i] + 1
                          /\ \E e \in pending \ pending' : e.id = i
    BY DEF EndOperation, PendingOf
  <1> QED
    BY <1>2, <1>3, <1>4, SettlingStep DEF EndOperation

LEMMA CloseConnectionStep ==
  ASSUME IInv, NEW c \in Conn, CloseConnection(c)
  PROVE  IInv' /\ LedgerLaw
  <1>1. led \in LedgerType /\ closed \in SUBSET Conn
    BY DEF IInv, TypeOK
  <1>2. led' = DetachConnection(led, c)
    BY DEF CloseConnection
  <1>3. Shrinks(led, led') /\ Clean(led', {c})
    BY <1>1, <1>2, DetachConnectionShrinks
  <1>4. Keeps(led, led', closed)
    BY <1>1, <1>3, ShrinksIsKeeps
  <1>5. Clean(led', closed') /\ Listed(led') /\ LedgerLaw
    BY <1>3, <1>4, InvLedger DEF IInv, Keeps, LedgerLaw, Clean, CloseConnection
  <1>6. TypeOK'
    BY <1>4 DEF IInv, TypeOK, CloseConnection, Owners, Keeps, browserVars, wireVars
  <1>7. ClosedOwnsNothing' /\ UnlistedIsFree'
    BY <1>5, <1>6, InvLedger, InvLedgerPrime DEF IInv, CloseConnection
  <1>8. IdsIssuedOnce' /\ AnsweredAtMostOnce'
    BY DEF IInv, IdsIssuedOnce, AnsweredAtMostOnce, CloseConnection
  <1> QED BY <1>5, <1>6, <1>7, <1>8 DEF IInv

-----------------------------------------------------------------------------
(* Supervisor steps *)

LEMMA KeepsItself ==
  ASSUME IInv, led' = led
  PROVE  Keeps(led, led', closed)
  BY DEF IInv, TypeOK, Keeps, KeepsDead, KeepsLease

LEMMA ClientDeadlineStep ==
  ASSUME IInv, NEW e \in pending, ClientDeadline(e)
  PROVE  IInv' /\ LedgerLaw
  <1>1. /\ led \in LedgerType /\ closed \in SUBSET Conn /\ e.id \in Ids
        /\ e.kind = "attach" => e.target \in Target
    BY DEF IInv, TypeOK, Request
  <1>2. Keeps(led, led', closed)
    <2>1. CASE e.kind = "attach"
      BY <1>1, <2>1, FailAttachShrinks, ShrinksIsKeeps DEF ClientDeadline
    <2>2. CASE e.kind # "attach"
      BY <2>2, KeepsItself DEF ClientDeadline
    <2> QED BY <2>1, <2>2
  <1>3. TypeOK'
    BY <1>1, <1>2 DEF IInv, TypeOK, ClientDeadline, Keeps, browserVars, wireVars
  <1>4. \A i \in Ids : \/ answers'[i] = answers[i]
                       \/ /\ answers'[i] = answers[i] + 1
                          /\ \E f \in pending \ pending' : f.id = i
    BY <1>1 DEF ClientDeadline, IInv, TypeOK
  <1> QED BY <1>2, <1>3, <1>4, SettlingStep DEF ClientDeadline

LEMMA HostDeadlineStep ==
  ASSUME IInv, NEW e \in pending, HostDeadline(e)
  PROVE  IInv' /\ LedgerLaw
  <1>1. led \in LedgerType /\ closed \in SUBSET Conn
    BY DEF IInv, TypeOK
  <1>2. Keeps(led, led', closed)
    BY <1>1, CancelHostAttachShrinks, ShrinksIsKeeps DEF HostDeadline
  <1>3. TypeOK'
    BY <1>2 DEF IInv, TypeOK, HostDeadline, Keeps, browserVars, wireVars
  <1> QED BY <1>2, <1>3, SettlingStep DEF HostDeadline

LEMMA HostAttachStep ==
  ASSUME IInv, NEW t \in Target, HostAttach(t)
  PROVE  IInv' /\ LedgerLaw
  <1>1. /\ led \in LedgerType /\ closed \in SUBSET Conn /\ NoConn \notin closed
        /\ nextId \in Nat
    BY NullsAreOutside DEF IInv, TypeOK
  <1>2. Shrinks(led, led')
    BY <1>1, BeginHostAttachShrinks DEF HostAttach
  <1>3. /\ KeepsDead(led, led') /\ KeepsLease(led, led') /\ led' \in LedgerType
        /\ Clean(led', closed) /\ Listed(led')
    BY <1>1, <1>2, InvLedger, ShrinksKeeps DEF IInv, Shrinks
  <1>4. PICK o \in Op : Send(MkRequest(NoConn, o, "attach", t, 0))
    BY DEF HostAttach
  <1> DEFINE r == MkRequest(NoConn, o, "attach", t, 0)
  <1>5. r \in Request /\ r.id = nextId /\ r.conn = NoConn
    BY <1>4 DEF MkRequest, Request, Send, IInv, TypeOK, Ids
  <1> HIDE DEF r
  <1>6. Send(r)
    BY <1>4 DEF r
  <1>7. TypeOK'
    BY <1>3, <1>5, <1>6, MuxAssumption DEF IInv, TypeOK, HostAttach, Send, browserVars
  <1> QED BY <1>1, <1>3, <1>5, <1>6, <1>7, SendingStep DEF HostAttach

\* The remaining supervisor steps take something out of the ledger and touch
\* neither the pending table nor the answers.
LEMMA SupervisorLedgerStep ==
  ASSUME IInv,
         \/ \E t \in Target : SyncDropsTab(t)
         \/ \E s \in Session : HostDetach(s) \/ CleanupDrop(s)
         \/ \E c \in Conn, o \in Op, s \in Session : CleanupDetach(c, o, s)
  PROVE  IInv' /\ LedgerLaw
  <1>1. led \in LedgerType /\ closed \in SUBSET Conn
    BY DEF IInv, TypeOK
  <1>2. CASE \E t \in Target : SyncDropsTab(t)
    <2>1. Keeps(led, led', closed)
      BY <1>1, <1>2, ForgetTargetKeeps DEF SyncDropsTab
    <2>2. TypeOK'
      BY <1>2, <2>1 DEF IInv, TypeOK, SyncDropsTab, Keeps, browserVars, wireVars
    <2> QED BY <1>2, <2>1, <2>2, QuietStep DEF SyncDropsTab
  <1>3. ASSUME NEW s \in Session, HostDetach(s)
        PROVE  IInv' /\ LedgerLaw
    <2>1. Keeps(led, led', closed)
      BY <1>1, <1>3, EndHostSessionShrinks, ShrinksIsKeeps DEF HostDetach
    <2>2. TypeOK'
      BY <1>3, <2>1 DEF IInv, TypeOK, HostDetach, Keeps, browserVars
    <2> QED BY <1>3, <2>1, <2>2, QuietStep DEF HostDetach
  <1>4. ASSUME NEW s \in Session, CleanupDrop(s)
        PROVE  IInv' /\ LedgerLaw
    <2>1. Keeps(led, led', closed)
      BY <1>1, <1>4, DropSessionShrinks, ShrinksIsKeeps DEF CleanupDrop
    <2>2. TypeOK'
      BY <1>4, <2>1 DEF IInv, TypeOK, CleanupDrop, Keeps, browserVars, wireVars
    <2> QED BY <1>4, <2>1, <2>2, QuietStep DEF CleanupDrop
  <1>5. ASSUME NEW c \in Conn, NEW o \in Op, NEW s \in Session, CleanupDetach(c, o, s)
        PROVE  IInv' /\ LedgerLaw
    <2>1. led' \in {led, DropSession(led, s), EndHostSession(led, s)}
      BY <1>5 DEF CleanupDetach
    <2>2. Keeps(led, led', closed)
      BY <1>1, <2>1, DropSessionShrinks, EndHostSessionShrinks, ShrinksIsKeeps, KeepsItself
    <2>3. /\ cleaning' \subseteq Session /\ detaches' \subseteq Session
          /\ created' \in [Owners -> SUBSET Session]
      BY <1>5 DEF CleanupDetach, IInv, TypeOK, Owners
    <2>4. TypeOK'
      BY <1>5, <2>2, <2>3 DEF IInv, TypeOK, CleanupDetach, Keeps, browserVars
    <2> QED BY <1>5, <2>2, <2>4, QuietStep DEF CleanupDetach
  <1> QED BY <1>2, <1>3, <1>4, <1>5

-----------------------------------------------------------------------------
(* Messages from the browser *)

LEMMA ReceiveType ==
  ASSUME IInv, NEW m, Receive(m)
  PROVE  m \in Message /\ inbox' \in Seq(Message)
  BY DEF IInv, TypeOK, Receive

LEMMA RejectKeeps ==
  ASSUME IInv, NEW s \in Session, Reject(s)
  PROVE  Keeps(led, led', closed) /\ detaches' \subseteq Session
  <1>1. led \in LedgerType /\ closed \in SUBSET Conn /\ detaches \subseteq Session
    BY DEF IInv, TypeOK
  <1> QED BY <1>1, RejectSessionShrinks, ShrinksIsKeeps DEF Reject

LEMMA OrphanReplyStep ==
  ASSUME IInv, NEW m, OrphanReply(m)
  PROVE  IInv' /\ LedgerLaw
  <1>1. m \in Message /\ inbox' \in Seq(Message)
    BY ReceiveType DEF OrphanReply
  <1>2. Keeps(led, led', closed) /\ detaches' \subseteq Session
    <2>1. CASE m.session # NoSession /\ Reject(m.session)
      <3>1. m.session \in Session
        BY <1>1, <2>1 DEF Message
      <3> QED BY <2>1, <3>1, RejectKeeps
    <2>2. CASE UNCHANGED <<led, detaches>>
      BY <2>2, KeepsItself DEF IInv, TypeOK
    <2> QED BY <2>1, <2>2 DEF OrphanReply
  <1>3. TypeOK'
    BY <1>1, <1>2 DEF IInv, TypeOK, OrphanReply, Keeps, browserVars
  <1> QED BY <1>2, <1>3, QuietStep DEF OrphanReply

\* An answered request leaves the table, and its client counts one answer.
LEMMA Delivered ==
  ASSUME IInv, NEW e \in pending, pending' = pending \ {e},
         Deliver(e) \/ answers' = answers
  PROVE  /\ answers' \in [Ids -> Nat]
         /\ \A i \in Ids : \/ answers'[i] = answers[i]
                           \/ /\ answers'[i] = answers[i] + 1
                              /\ \E f \in pending \ pending' : f.id = i
  BY DEF Deliver, IInv, TypeOK, Request

LEMMA AttachReplyStep ==
  ASSUME IInv, NEW m, NEW e \in pending, AttachReply(m, e)
  PROVE  IInv' /\ LedgerLaw
  <1>1. m \in Message /\ inbox' \in Seq(Message)
    BY ReceiveType DEF AttachReply
  <1>2. /\ led \in LedgerType /\ closed \in SUBSET Conn /\ detaches \subseteq Session
        /\ e.target \in Target /\ e.conn \in Conn /\ e.gen \in Nat /\ e.conn \notin closed
        /\ <<e.conn, e.op>> \in Owners /\ m.session \in Session
    BY DEF IInv, TypeOK, Request, AttachReply, ClosedOwnsNothing, Owners
  <1>3. Keeps(led, led', closed) /\ detaches' \subseteq Session
    <2>1. CASE led' = SettleAttach(led, e.conn, e.target, e.gen, m.session) /\ UNCHANGED detaches
      BY <1>2, <2>1, SettleAttachKeeps
    <2>2. CASE Reject(m.session)
      BY <1>2, <2>2, RejectKeeps
    <2> QED BY <2>1, <2>2 DEF AttachReply
  <1>4. /\ answers' \in [Ids -> Nat]
        /\ \A i \in Ids : \/ answers'[i] = answers[i]
                          \/ /\ answers'[i] = answers[i] + 1
                             /\ \E f \in pending \ pending' : f.id = i
    BY Delivered DEF AttachReply
  <1>5. created' \in [Owners -> SUBSET Session]
    BY <1>2 DEF AttachReply, IInv, TypeOK
  <1>6. TypeOK'
    BY <1>1, <1>3, <1>4, <1>5 DEF IInv, TypeOK, AttachReply, Keeps, browserVars
  <1> QED BY <1>3, <1>4, <1>6, SettlingStep DEF AttachReply

LEMMA ClientErrorStep ==
  ASSUME IInv, NEW m, NEW e \in pending, ClientError(m, e)
  PROVE  IInv' /\ LedgerLaw
  <1>1. m \in Message /\ inbox' \in Seq(Message)
    BY ReceiveType DEF ClientError
  <1>2. /\ led \in LedgerType /\ closed \in SUBSET Conn
        /\ e.kind = "attach" => e.target \in Target
    BY DEF IInv, TypeOK, Request
  <1>3. Keeps(led, led', closed)
    <2>1. CASE e.kind = "attach"
      BY <1>2, <2>1, FailAttachShrinks, ShrinksIsKeeps DEF ClientError
    <2>2. CASE e.kind # "attach"
      BY <2>2, KeepsItself DEF ClientError
    <2> QED BY <2>1, <2>2
  <1>4. /\ answers' \in [Ids -> Nat]
        /\ \A i \in Ids : \/ answers'[i] = answers[i]
                          \/ /\ answers'[i] = answers[i] + 1
                             /\ \E f \in pending \ pending' : f.id = i
    BY Delivered DEF ClientError
  <1>5. TypeOK'
    BY <1>1, <1>3, <1>4 DEF IInv, TypeOK, ClientError, Keeps, browserVars
  <1> QED BY <1>3, <1>4, <1>5, SettlingStep DEF ClientError

LEMMA TabReplyStep ==
  ASSUME IInv, NEW m, NEW e \in pending, CreateReply(m, e) \/ CloseReply(m, e)
  PROVE  IInv' /\ LedgerLaw
  <1>1. m \in Message /\ inbox' \in Seq(Message)
    BY ReceiveType DEF CreateReply, CloseReply
  <1>2. /\ led \in LedgerType /\ closed \in SUBSET Conn
        /\ e.conn \in Conn /\ e.conn \notin closed
    BY DEF IInv, TypeOK, ClosedOwnsNothing, CreateReply, CloseReply
  <1>3. Keeps(led, led', closed)
    <2>1. CASE CreateReply(m, e)
      BY <1>2, <2>1, ClaimTargetKeeps DEF CreateReply
    <2>2. CASE CloseReply(m, e)
      <3>1. e.target \in Target
        BY <2>2 DEF CloseReply, IInv, TypeOK, Request
      <3> QED BY <1>2, <2>2, <3>1, ForgetTargetKeeps DEF CloseReply
    <2> QED BY <2>1, <2>2
  <1>4. /\ answers' \in [Ids -> Nat]
        /\ \A i \in Ids : \/ answers'[i] = answers[i]
                          \/ /\ answers'[i] = answers[i] + 1
                             /\ \E f \in pending \ pending' : f.id = i
    BY Delivered DEF CreateReply, CloseReply
  <1>5. TypeOK'
    BY <1>1, <1>3, <1>4 DEF IInv, TypeOK, CreateReply, CloseReply, Keeps, browserVars
  <1> QED BY <1>3, <1>4, <1>5, SettlingStep DEF CreateReply, CloseReply

LEMMA HostAnswerStep ==
  ASSUME IInv, NEW m, NEW e \in pending, HostReply(m, e) \/ HostError(m, e)
  PROVE  IInv' /\ LedgerLaw
  <1>1. m \in Message /\ inbox' \in Seq(Message)
    BY ReceiveType DEF HostReply, HostError
  <1>2. led \in LedgerType /\ closed \in SUBSET Conn /\ detaches \subseteq Session
    BY DEF IInv, TypeOK
  <1>3. Keeps(led, led', closed) /\ detaches' \subseteq Session /\ captures' \subseteq Session
    <2>1. CASE HostReply(m, e)
      <3>1. m.session \in Session
        BY <2>1 DEF HostReply
      <3>2. captures' \subseteq Session
        BY <2>1, <3>1 DEF HostReply, IInv, TypeOK
      <3>3. CASE led' = SettleHostAttach(led, e.id, m.session) /\ UNCHANGED detaches
        BY <1>2, <3>1, <3>2, <3>3, SettleHostAttachShrinks, ShrinksIsKeeps
      <3>4. CASE Reject(m.session)
        BY <3>1, <3>2, <3>4, RejectKeeps
      <3> QED BY <2>1, <3>3, <3>4 DEF HostReply
    <2>2. CASE HostError(m, e)
      BY <1>2, <2>2, CancelHostAttachShrinks, ShrinksIsKeeps DEF HostError, IInv, TypeOK
    <2> QED BY <2>1, <2>2
  <1>4. TypeOK'
    BY <1>1, <1>3 DEF IInv, TypeOK, HostReply, HostError, Keeps, browserVars
  <1> QED BY <1>3, <1>4, SettlingStep DEF HostReply, HostError

LEMMA EventStep ==
  ASSUME IInv, NEW m, AttachedEvent(m) \/ DetachedEvent(m) \/ DestroyedEvent(m)
  PROVE  IInv' /\ LedgerLaw
  <1>1. m \in Message /\ inbox' \in Seq(Message)
    BY ReceiveType DEF AttachedEvent, DetachedEvent, DestroyedEvent
  <1>2. /\ led \in LedgerType /\ closed \in SUBSET Conn /\ detaches \subseteq Session
        /\ Clean(led, closed)
    BY InvLedger DEF IInv, TypeOK
  <1>3. Keeps(led, led', closed) /\ detaches' \subseteq Session
    <2>1. CASE AttachedEvent(m)
      <3>1. m.session \in Session /\ m.target \in Target
        BY <1>1, <2>1 DEF AttachedEvent, Message
      <3>2. CASE led' = ResolveAttachedEvent(led, m.target, m.session) /\ UNCHANGED detaches
        BY <1>2, <3>1, <3>2, ResolveAttachedEventKeeps
      <3>3. CASE Reject(m.session)
        BY <3>1, <3>3, RejectKeeps
      <3> QED BY <2>1, <3>2, <3>3 DEF AttachedEvent
    <2>2. CASE DetachedEvent(m)
      <3>1. m.session \in Session
        BY <1>1, <2>2 DEF DetachedEvent, Message
      <3> QED BY <1>2, <2>2, <3>1, DropSessionShrinks, ShrinksIsKeeps DEF DetachedEvent
    <2>3. CASE DestroyedEvent(m)
      <3>1. m.target \in Target
        BY <1>1, <2>3 DEF DestroyedEvent, Message
      <3> QED BY <1>2, <2>3, <3>1, ForgetTargetKeeps DEF DestroyedEvent
    <2> QED BY <2>1, <2>2, <2>3
  <1>4. TypeOK'
    BY <1>1, <1>3
      DEF IInv, TypeOK, AttachedEvent, DetachedEvent, DestroyedEvent, Keeps, browserVars
  <1> QED
    BY <1>3, <1>4, QuietStep DEF AttachedEvent, DetachedEvent, DestroyedEvent

-----------------------------------------------------------------------------
(* The browser, and all steps *)

LEMMA AnsweredType ==
  ASSUME IInv, NEW r, NEW msgs \in Seq(Message), Answered(r, msgs)
  PROVE  /\ requests' \subseteq Request /\ inbox' \in Seq(Message)
         /\ UNCHANGED <<muxVars, detaches>>
  BY DEF IInv, TypeOK, Answered

LEMMA MessageSequences ==
  ASSUME NEW a \in Message, NEW b \in Message
  PROVE  <<a>> \in Seq(Message) /\ <<a, b>> \in Seq(Message)
  OBVIOUS

LEMMA BrowserStepStep ==
  ASSUME IInv, BrowserStep
  PROVE  IInv' /\ LedgerLaw
  <1> SUFFICES TypeOK' /\ UNCHANGED muxVars
    BY KeepsItself, QuietStep DEF muxVars
  <1>1. ASSUME NEW r \in requests, NEW s \in Session, BrowserAttaches(r, s)
        PROVE  TypeOK' /\ UNCHANGED muxVars
    <2> DEFINE reply == Reply(r.id, r.target, s)
               ev == Event("attached", r.target, s)
    <2>1. r.id \in Ids /\ r.target \in Target
      BY <1>1 DEF IInv, TypeOK, Request, BrowserAttaches
    <2>2. reply \in Message /\ ev \in Message
      BY <2>1 DEF Reply, Event, Message
    <2>3. Answered(r, <<reply, ev>>) \/ Answered(r, <<ev, reply>>)
      BY <1>1 DEF BrowserAttaches
    <2> HIDE DEF reply, ev
    <2>6. <<reply, ev>> \in Seq(Message) /\ <<ev, reply>> \in Seq(Message)
      BY <2>2, MessageSequences
    <2>4. /\ requests' \subseteq Request /\ inbox' \in Seq(Message)
          /\ UNCHANGED <<muxVars, detaches>>
      BY <2>3, <2>6, AnsweredType
    <2>5. /\ home' \in [Session -> Target \cup {NoTarget}]
          /\ source' \in [Session -> Conn \cup {NoConn}]
          /\ open' \subseteq Session
      BY <1>1, <2>1 DEF IInv, TypeOK, BrowserAttaches, Request
    <2> QED BY <1>1, <2>4, <2>5 DEF IInv, TypeOK, BrowserAttaches, muxVars
  <1>2. ASSUME NEW r \in requests, NEW t \in Target, BrowserCreates(r, t)
        PROVE  TypeOK' /\ UNCHANGED muxVars
    <2>1. Reply(r.id, t, NoSession) \in Message
      BY <1>2 DEF IInv, TypeOK, Request, Reply, Message
    <2> DEFINE msgs == <<Reply(r.id, t, NoSession)>>
    <2>3. msgs \in Seq(Message) /\ Answered(r, msgs)
      BY <1>2, <2>1, MessageSequences DEF BrowserCreates
    <2> HIDE DEF msgs
    <2>2. /\ requests' \subseteq Request /\ inbox' \in Seq(Message)
          /\ UNCHANGED <<muxVars, detaches>>
      BY <2>3, AnsweredType
    <2> QED BY <1>2, <2>2 DEF IInv, TypeOK, BrowserCreates, muxVars
  <1>3. ASSUME NEW r \in requests, BrowserCloses(r) \/ BrowserRefuses(r)
        PROVE  TypeOK' /\ UNCHANGED muxVars
    <2>1. Reply(r.id, r.target, NoSession) \in Message /\ Failure(r.id) \in Message
      BY <1>3 DEF IInv, TypeOK, Request, Reply, Failure, Message
    <2>3. PICK msgs \in Seq(Message) : Answered(r, msgs)
      BY <1>3, <2>1, MessageSequences DEF BrowserCloses, BrowserRefuses
    <2>2. /\ requests' \subseteq Request /\ inbox' \in Seq(Message)
          /\ UNCHANGED <<muxVars, detaches>>
      BY <2>3, AnsweredType
    <2> QED
      BY <1>3, <2>2 DEF IInv, TypeOK, BrowserCloses, BrowserRefuses, muxVars, browserVars
  <1>4. ASSUME NEW t \in Target, TabGone(t)
        PROVE  TypeOK' /\ UNCHANGED muxVars
    <2>1. Event("destroyed", t, NoSession) \in Message
      BY DEF Event, Message
    <2>2. /\ tabs' = tabs \ {t}
          /\ inbox' = inbox \/ inbox' = Append(inbox, Event("destroyed", t, NoSession))
          /\ UNCHANGED <<muxVars, born, home, open, source, requests, detaches>>
      BY <1>4 DEF TabGone
    <2>3. inbox' \in Seq(Message)
      BY <2>1, <2>2 DEF IInv, TypeOK
    <2> QED BY <2>2, <2>3 DEF IInv, TypeOK, muxVars
  <1>5. ASSUME NEW s \in Session, SessionEnds(s)
        PROVE  TypeOK' /\ UNCHANGED muxVars
    <2>1. Event("detached", home[s], s) \in Message
      BY <1>5 DEF IInv, TypeOK, Event, Message
    <2> QED BY <1>5, <2>1 DEF IInv, TypeOK, SessionEnds, muxVars
  <1>6. ASSUME NEW s \in Session, DetachMisses(s)
        PROVE  TypeOK' /\ UNCHANGED muxVars
    BY <1>6 DEF IInv, TypeOK, DetachMisses, muxVars, browserVars
  <1> QED BY <1>1, <1>2, <1>3, <1>4, <1>5, <1>6 DEF BrowserStep

LEMMA InitIInv == Init => IInv
  <1> SUFFICES ASSUME Init PROVE IInv
    OBVIOUS
  <1>1. led \in LedgerType
    BY MuxAssumption, NullTypes DEF Init, EmptyLedger, LedgerType
  <1>2. TypeOK
    BY <1>1, MuxAssumption DEF Init, TypeOK, Owners
  <1>3. /\ led.leases = [t \in Target |-> NoLease]
        /\ led.routing = [t \in Target |-> NoConn]
    BY DEF Init, EmptyLedger
  <1>4. UnlistedIsFree /\ ClosedOwnsNothing
    BY <1>3 DEF UnlistedIsFree, ClosedOwnsNothing, Init
  <1>5. IdsIssuedOnce /\ AnsweredAtMostOnce
    BY DEF IdsIssuedOnce, AnsweredAtMostOnce, Init
  <1> QED BY <1>2, <1>4, <1>5 DEF IInv

\* Every step preserves the invariant and moves the ledger lawfully.
LEMMA NextIInv ==
  ASSUME IInv, Next
  PROVE  IInv' /\ LedgerLaw
  <1>1. CASE ClientStep
    BY <1>1, ClientAttachStep, ClientAttachSendFailsStep, PlainRequestStep,
       EndOperationStep, CloseConnectionStep
       DEF ClientStep
  <1>2. CASE SupervisorStep
    BY <1>2, ClientDeadlineStep, HostDeadlineStep, HostAttachStep, SupervisorLedgerStep
       DEF SupervisorStep
  <1>3. CASE OnMessage
    <2>1. PICK m : MessageOf(m)
      BY <1>3 DEF OnMessage
    <2> QED
      BY <2>1, OrphanReplyStep, EventStep, AttachReplyStep, TabReplyStep, ClientErrorStep,
         HostAnswerStep
         DEF MessageOf
  <1>4. CASE BrowserStep
    BY <1>4, BrowserStepStep
  <1> QED BY <1>1, <1>2, <1>3, <1>4 DEF Next

LEMMA StutterIInv ==
  ASSUME IInv, UNCHANGED vars
  PROVE  IInv' /\ LedgerLaw
  <1>1. UNCHANGED muxVars /\ TypeOK'
    BY DEF vars, muxVars, browserVars, wireVars, IInv, TypeOK
  <1> QED BY <1>1, KeepsItself, QuietStep DEF muxVars

\* The inductive invariant holds throughout.
THEOREM InvariantHolds == Spec => []IInv
  <1>1. IInv /\ [Next]_vars => IInv'
    BY NextIInv, StutterIInv
  <1> QED BY <1>1, InitIInv, PTL DEF Spec

\* The ledger, the pending table and the queues keep their shape.
THEOREM TypeCorrect == Spec => []TypeOK
  <1>1. IInv => TypeOK
    BY DEF IInv
  <1> QED BY <1>1, InvariantHolds, PTL

\* Nothing in the supervisor names a connection whose socket is gone.
THEOREM ClosedOwnsNothingHolds == Spec => []ClosedOwnsNothing
  <1>1. IInv => ClosedOwnsNothing
    BY DEF IInv
  <1> QED BY <1>1, InvariantHolds, PTL

\* A tab off the list is leased and routed to nobody.
THEOREM UnlistedIsFreeHolds == Spec => []UnlistedIsFree
  <1>1. IInv => UnlistedIsFree
    BY DEF IInv
  <1> QED BY <1>1, InvariantHolds, PTL

\* No client id is answered twice, or answered while it is pending.
THEOREM AnsweredAtMostOnceHolds == Spec => []AnsweredAtMostOnce
  <1>1. IInv => AnsweredAtMostOnce
    BY DEF IInv
  <1> QED BY <1>1, InvariantHolds, PTL

\* A tombstoned session is never registered again, its id reused or not.
THEOREM DeadStaysDeadHolds == Spec => DeadStaysDead
  <1>1. ASSUME IInv, [Next]_vars
        PROVE  [\A s \in Session : s \in led.tombs /\ s \notin Live(led)
                  => s \in led'.tombs /\ s \notin Live(led')]_vars
    BY <1>1, NextIInv DEF LedgerLaw, KeepsDead, Live
  <1> QED BY <1>1, InvariantHolds, PTL DEF Spec, DeadStaysDead

\* A lease passes from one connection to another only through being free.
THEOREM LeaseNeverStolenHolds == Spec => LeaseNeverStolen
  <1>1. ASSUME IInv, [Next]_vars
        PROVE  [\A t \in Target : led.leases[t].conn # NoConn
                  => led'.leases[t].conn \in {NoConn, led.leases[t].conn}]_vars
    BY <1>1, NextIInv DEF LedgerLaw, KeepsLease
  <1> QED BY <1>1, InvariantHolds, PTL DEF Spec, LeaseNeverStolen

-----------------------------------------------------------------------------
(* LeaseBacked: the browser names each session once, and on one tab *)

\* Each live session is registered on the tab the browser gave it.
Homed(L, h) == \A s \in Live(L) : L.sessions[s].target = h[s] /\ h[s] \in Target

\* What m says of a session is what the browser did.
Told(m, h) == m.type \in {"reply", "attached"} /\ m.session \in Session
                 => m.target = h[m.session] /\ m.target \in Target

\* An answer that carries a session answers an attach, from the connection and
\* for the tab the browser made the session for.
Matches(m, P, from) ==
    m.type = "reply" /\ m.session \in Session =>
        \A e \in P : e.id = m.id => /\ e.kind = "attach" /\ e.target = m.target
                                    /\ e.conn = from[m.session]

\* Requests and answers on the wire belong to what was asked.
WireInv ==
    /\ \A r \in requests : r.id < nextId /\ \A e \in pending : e.id = r.id => e = r
    /\ \A i \in DOMAIN inbox : /\ inbox[i].id < nextId
                               /\ Matches(inbox[i], pending, source)
                               /\ Told(inbox[i], home)

\* The inductive invariant behind LeaseBacked.
BInv == IInv /\ WireInv /\ Homed(led, home) /\ Backed(led)

LEMMA LosesHomes ==
  ASSUME NEW L, NEW K, NEW h, Homed(L, h),
         \A s \in Session : K.sessions[s] \in {L.sessions[s], NoRecord}
  PROVE  Homed(K, h)
  BY DEF Homed, Live

LEMMA ReserveAttachHomes ==
  ASSUME NEW L \in LedgerType, NEW c \in Conn, NEW t \in Target, NEW h, Homed(L, h)
  PROVE  Homed(ReserveAttach(L, c, t), h)
  <1>1. PICK K : K = DropLeased(L, t)
    OBVIOUS
  <1>2. K \in LedgerType /\ \A s \in Session : K.sessions[s] \in {L.sessions[s], NoRecord}
    BY <1>1, DropLeasedShrinks DEF Shrinks
  <1>3. ReserveAttach(L, c, t).sessions = K.sessions
    BY <1>1, <1>2 DEF ReserveAttach, LedgerType
  <1> QED BY <1>2, <1>3, LosesHomes

LEMMA ForgetTargetHomes ==
  ASSUME NEW L \in LedgerType, NEW t \in Target, NEW h, Homed(L, h)
  PROVE  Homed(ForgetTarget(L, t), h)
  <1>1. PICK K : K = [L EXCEPT !.known = @ \ {t}]
    OBVIOUS
  <1>2. K \in LedgerType /\ K.sessions = L.sessions
    BY <1>1 DEF LedgerType
  <1>3. Shrinks(K, ForgetTarget(L, t))
    BY <1>1, <1>2, ReleaseTargetShrinks DEF ForgetTarget
  <1> QED BY <1>2, <1>3, LosesHomes DEF Shrinks

LEMMA ClaimTargetHomes ==
  ASSUME NEW L \in LedgerType, NEW c, NEW t, NEW h, Homed(L, h)
  PROVE  Homed(ClaimTarget(L, c, t), h)
  <1>1. ClaimTarget(L, c, t).sessions = L.sessions
    BY DEF ClaimTarget, LedgerType
  <1> QED BY <1>1, LosesHomes

LEMMA SettleAttachHomes ==
  ASSUME NEW L \in LedgerType, NEW c, NEW t \in Target, NEW g, NEW s \in Session,
         NEW h, Homed(L, h), t = h[s]
  PROVE  Homed(SettleAttach(L, c, t, g, s), h)
  <1>1. CASE AlreadySettled(L, c, t, s) \/ ~SettleOk(L, c, t, g, s)
    BY <1>1 DEF SettleAttach
  <1>2. CASE ~(AlreadySettled(L, c, t, s) \/ ~SettleOk(L, c, t, g, s))
    <2>1. PICK K, rec : /\ K = SettleAttach(L, c, t, g, s)
                        /\ rec = [conn |-> c, target |-> t, gen |-> g]
      OBVIOUS
    <2>2. rec.target = t
      BY <2>1
    <2>3. K.sessions = [L.sessions EXCEPT ![s] = rec]
      BY <1>2, <2>1 DEF SettleAttach, LedgerType
    <2>4. K.sessions[s] = rec /\ \A r \in Session : r # s => K.sessions[r] = L.sessions[r]
      BY <2>3, Fields
    <2>5. Homed(K, h)
      BY <2>2, <2>4 DEF Homed, Live
    <2> QED BY <2>1, <2>5
  <1> QED BY <1>1, <1>2

LEMMA ResolveHomes ==
  ASSUME NEW L \in LedgerType, NEW t \in Target, NEW s \in Session,
         NEW h, Homed(L, h), t = h[s]
  PROVE  Homed(ResolveAttachedEvent(L, t, s), h)
  <1>1. PICK K : K = ResolveAttachedEvent(L, t, s)
    OBVIOUS
  <1>2. PICK r : r = CHOOSE x \in Unconsumed(L, t) : TRUE
    OBVIOUS
  <1>3. \/ K = L \/ K = ConsumeReservation(L, r, s)
        \/ K = SettleAttach(L, L.leases[t].conn, t, L.leases[t].gen, s)
    BY <1>1, <1>2 DEF ResolveAttachedEvent
  <1>4. ConsumeReservation(L, r, s).sessions = L.sessions
    BY DEF ConsumeReservation, LedgerType
  <1>5. Homed(ConsumeReservation(L, r, s), h)
    BY <1>4, LosesHomes
  <1>6. Homed(SettleAttach(L, L.leases[t].conn, t, L.leases[t].gen, s), h)
    BY SettleAttachHomes
  <1> QED BY <1>1, <1>3, <1>5, <1>6

-----------------------------------------------------------------------------
\* What is left of the inbox.
LEMMA InboxTail ==
  ASSUME inbox \in Seq(Message), inbox # <<>>
  PROVE  /\ Tail(inbox) \in Seq(Message) /\ Head(inbox) = inbox[1] /\ 1 \in DOMAIN inbox
         /\ \A i \in DOMAIN Tail(inbox) :
               i \in Nat /\ i > 0 /\ i + 1 \in DOMAIN inbox /\ Tail(inbox)[i] = inbox[i + 1]
         /\ \A i \in DOMAIN inbox : i = 1 \/ i - 1 \in DOMAIN Tail(inbox)
  OBVIOUS

\* What a queue holds once a message joined it.
LEMMA OneJoins ==
  ASSUME NEW S, NEW q \in Seq(S), NEW m \in S, NEW z, z = Append(q, m)
  PROVE  /\ \A i \in DOMAIN q : i \in DOMAIN z /\ z[i] = q[i]
         /\ \A i \in DOMAIN z : i \in DOMAIN q \/ z[i] = m
  <1>1. z \in Seq(S) /\ Len(z) = Len(q) + 1 /\ Len(q) \in Nat
    BY AppendProperties
  <1>2. DOMAIN q = 1..Len(q) /\ DOMAIN z = 1..(Len(q) + 1)
    BY <1>1
  <1>3. (\A i \in 1..Len(q) : z[i] = q[i]) /\ z[Len(q) + 1] = m
    BY AppendProperties
  <1> QED BY <1>1, <1>2, <1>3

\* A step of the supervisor that sends nothing.
LEMMA WireRests ==
  ASSUME TypeOK, WireInv, pending' \subseteq pending, requests' \subseteq requests,
         nextId \in Nat, nextId' \in Nat, nextId <= nextId',
         inbox' = inbox \/ \E m : Receive(m), home' = home, source' = source
  PROVE  WireInv'
  <1>1. \A r \in requests : r.id \in Nat
    BY DEF TypeOK, Request, Ids
  <1>2. inbox \in Seq(Message)
    BY DEF TypeOK
  <1>3. \A i \in DOMAIN inbox : inbox[i] \in Message /\ inbox[i].id \in Nat
    BY <1>2 DEF Message, Ids, NoId
  <1>4. \A r \in requests' : r.id < nextId' /\ \A e \in pending' : e.id = r.id => e = r
    BY <1>1 DEF WireInv
  <1>5. \A i \in DOMAIN inbox' : \E j \in DOMAIN inbox : inbox'[i] = inbox[j]
    BY <1>2, InboxTail DEF Receive
  <1>6. ASSUME NEW i \in DOMAIN inbox'
        PROVE  /\ inbox'[i].id < nextId'
               /\ Matches(inbox'[i], pending', source')
               /\ Told(inbox'[i], home')
    <2>1. PICK j \in DOMAIN inbox : inbox'[i] = inbox[j]
      BY <1>5
    <2>2. PICK m \in Message : m = inbox[j] /\ m.id \in Nat
      BY <1>3
    <2>3. m.id < nextId /\ Matches(m, pending, source) /\ Told(m, home)
      BY <2>2 DEF WireInv
    <2>4. Matches(m, pending', source)
      BY <2>3 DEF Matches
    <2>5. m.id < nextId'
      BY <2>2, <2>3
    <2> QED BY <2>1, <2>2, <2>3, <2>4, <2>5
  <1> QED BY <1>4, <1>6 DEF WireInv

\* A step that sends one request.
LEMMA WireSends ==
  ASSUME IInv, WireInv, NEW r, Send(r), r.id = nextId,
         inbox' = inbox, home' = home, source' = source
  PROVE  WireInv'
  <1>1. nextId \in Nat /\ nextId' = nextId + 1
    BY DEF IInv, TypeOK, Send
  <1>2. /\ pending' = pending \cup {r} /\ requests' = requests \cup {r}
        /\ \A e \in pending : e.id \in Nat /\ e.id < nextId
        /\ \A e \in requests : e.id \in Nat /\ e.id < nextId
    BY DEF IInv, TypeOK, Send, Request, Ids, IdsIssuedOnce, WireInv
  <1>3. \A p \in requests' : p.id < nextId' /\ \A e \in pending' : e.id = p.id => e = p
    BY <1>1, <1>2 DEF WireInv
  <1>4. \A i \in DOMAIN inbox : inbox[i] \in Message /\ inbox[i].id \in Nat
    BY DEF IInv, TypeOK, Message, Ids, NoId
  <1>5. ASSUME NEW i \in DOMAIN inbox
        PROVE  /\ inbox[i].id < nextId'
               /\ Matches(inbox[i], pending', source)
    <2>1. PICK m \in Message : m = inbox[i] /\ m.id \in Nat
      BY <1>4
    <2>2. m.id < nextId /\ Matches(m, pending, source)
      BY <2>1 DEF WireInv
    <2>3. Matches(m, pending', source)
      BY <1>1, <1>2, <2>1, <2>2 DEF Matches
    <2> QED BY <1>1, <2>1, <2>2, <2>3
  <1> QED BY <1>3, <1>5 DEF WireInv

\* A step of the browser that makes no session: what it says carries none.
LEMMA WireTold ==
  ASSUME IInv, WireInv, requests' \subseteq requests, UNCHANGED <<pending, nextId, home, source>>,
         NEW m \in Message, m.id < nextId,
         ~(m.type \in {"reply", "attached"} /\ m.session \in Session),
         inbox' = inbox \/ inbox' = Append(inbox, m)
  PROVE  WireInv'
  <1>1. \A i \in DOMAIN inbox' : inbox'[i] = m \/ \E j \in DOMAIN inbox : inbox'[i] = inbox[j]
    <2>1. PICK q, z : q \in Seq(Message) /\ q = inbox /\ z = inbox'
      BY DEF IInv, TypeOK
    <2>2. z = q \/ z = Append(q, m)
      BY <2>1
    <2>3. \A i \in DOMAIN z : z[i] = m \/ \E j \in DOMAIN q : z[i] = q[j]
      BY <2>2, OneJoins
    <2> QED BY <2>1, <2>3
  <1>2. Matches(m, pending, source) /\ Told(m, home)
    BY DEF Matches, Told
  <1>3. ASSUME NEW i \in DOMAIN inbox'
        PROVE  /\ inbox'[i].id < nextId
               /\ Matches(inbox'[i], pending, source)
               /\ Told(inbox'[i], home)
    <2>1. CASE inbox'[i] = m
      BY <1>2, <2>1
    <2>2. CASE \E j \in DOMAIN inbox : inbox'[i] = inbox[j]
      <3>1. PICK j \in DOMAIN inbox : inbox'[i] = inbox[j]
        BY <2>2
      <3>2. inbox[j].id < nextId /\ Matches(inbox[j], pending, source) /\ Told(inbox[j], home)
        BY DEF WireInv
      <3> QED BY <3>1, <3>2
    <2> QED BY <1>1, <2>1, <2>2
  <1>4. \A r \in requests' : r.id < nextId /\ \A e \in pending : e.id = r.id => e = r
    BY DEF WireInv
  <1> QED BY <1>3, <1>4 DEF WireInv

\* What a queue holds once two messages joined it.
LEMMA PairJoins ==
  ASSUME NEW S, NEW q \in Seq(S), NEW a \in S, NEW b \in S, NEW z, z = q \o <<a, b>>
  PROVE  /\ z \in Seq(S) /\ Len(z) = Len(q) + 2 /\ Len(q) \in Nat
         /\ DOMAIN q = 1..Len(q) /\ DOMAIN z = 1..(Len(q) + 2)
         /\ \A i \in DOMAIN q : z[i] = q[i]
         /\ z[Len(q) + 1] = a /\ z[Len(q) + 2] = b
         /\ \A i \in DOMAIN z : i \in DOMAIN q \/ i = Len(q) + 1 \/ i = Len(q) + 2
  <1>1. PICK w \in Seq(S) : w = <<a, b>> /\ Len(w) = 2 /\ w[1] = a /\ w[2] = b
    <2>1. <<a, b>> \in Seq(S)
      OBVIOUS
    <2>2. Len(<<a, b>>) = 2 /\ <<a, b>>[1] = a /\ <<a, b>>[2] = b
      OBVIOUS
    <2> QED BY <2>1, <2>2
  <1>2. z \in Seq(S) /\ Len(z) = Len(q) + 2 /\ Len(q) \in Nat
    BY <1>1, ConcatProperties
  <1>3. DOMAIN q = 1..Len(q) /\ DOMAIN z = 1..(Len(q) + 2)
    BY <1>2
  <1>4. /\ \A i \in 1..Len(q) : z[i] = q[i]
        /\ \A i \in 1..2 : z[i + Len(q)] = w[i]
    BY <1>1, ConcatProperties
  <1>5. z[Len(q) + 1] = a /\ z[Len(q) + 2] = b
    <2>1. z[1 + Len(q)] = a /\ z[2 + Len(q)] = b
      BY <1>1, <1>4
    <2>2. 1 + Len(q) = Len(q) + 1 /\ 2 + Len(q) = Len(q) + 2
      BY <1>2
    <2> QED BY <2>1, <2>2
  <1>6. \A i \in 1..(Len(q) + 2) : i \in 1..Len(q) \/ i = Len(q) + 1 \/ i = Len(q) + 2
    BY <1>2
  <1> QED BY <1>2, <1>3, <1>4, <1>5, <1>6

\* The browser makes a session that no message has named.
LEMMA WireAttaches ==
  ASSUME ~ReuseIds, IInv, WireInv, NEW r \in requests, NEW s \in Session, BrowserAttaches(r, s)
  PROVE  WireInv'
  <1>1. r \in Request /\ r.kind = "attach" /\ r.target \in Target /\ r.id < nextId
    BY DEF BrowserAttaches, IInv, TypeOK, Request, WireInv
  <1>2. /\ home[s] = NoTarget /\ home' = [home EXCEPT ![s] = r.target]
        /\ source' = [source EXCEPT ![s] = r.conn]
        /\ requests' \subseteq requests /\ UNCHANGED <<pending, nextId>>
    BY DEF BrowserAttaches, Answered, muxVars
  <1>3. /\ home'[s] = r.target /\ source'[s] = r.conn
        /\ \A p \in Session : p # s => home'[p] = home[p] /\ source'[p] = source[p]
    BY <1>2 DEF IInv, TypeOK
  <1>4. PICK reply, ev : reply = Reply(r.id, r.target, s) /\ ev = Event("attached", r.target, s)
    OBVIOUS
  <1>5. /\ reply.type = "reply" /\ reply.id = r.id /\ reply.target = r.target /\ reply.session = s
        /\ ev.type = "attached" /\ ev.id = NoId /\ ev.target = r.target /\ ev.session = s
        /\ reply \in Message /\ ev \in Message
    BY <1>1, <1>4 DEF Reply, Event, Message, Request
  <1>6. inbox' = inbox \o <<reply, ev>> \/ inbox' = inbox \o <<ev, reply>>
    BY <1>4 DEF BrowserAttaches, Answered
  <1>7. \A i \in DOMAIN inbox' : \/ inbox'[i] = reply \/ inbox'[i] = ev
                                 \/ \E j \in DOMAIN inbox : inbox'[i] = inbox[j]
    <2>1. inbox \in Seq(Message)
      BY DEF IInv, TypeOK
    <2>2. CASE inbox' = inbox \o <<reply, ev>>
      BY <1>5, <2>1, <2>2, PairJoins
    <2>3. CASE inbox' = inbox \o <<ev, reply>>
      BY <1>5, <2>1, <2>3, PairJoins
    <2> QED BY <1>6, <2>2, <2>3
  <1>8. Told(reply, home') /\ Told(ev, home')
    BY <1>1, <1>3, <1>5 DEF Told
  <1>9. Matches(reply, pending, source') /\ Matches(ev, pending, source')
    <2>1. \A e \in pending : e.id = r.id => e = r
      BY DEF WireInv
    <2> QED BY <1>1, <1>3, <1>5, <2>1 DEF Matches
  <1>10. reply.id < nextId /\ ev.id < nextId
    BY <1>1, <1>5 DEF NoId, IInv, TypeOK
  <1>11. ASSUME NEW i \in DOMAIN inbox'
        PROVE  /\ inbox'[i].id < nextId
               /\ Matches(inbox'[i], pending, source')
               /\ Told(inbox'[i], home')
    <2>1. CASE inbox'[i] = reply \/ inbox'[i] = ev
      BY <1>8, <1>9, <1>10, <2>1
    <2>2. CASE \E j \in DOMAIN inbox : inbox'[i] = inbox[j]
      <3>1. PICK j \in DOMAIN inbox : inbox'[i] = inbox[j]
        BY <2>2
      <3>2. PICK m : m = inbox[j]
        OBVIOUS
      <3>3. m.id < nextId /\ Matches(m, pending, source) /\ Told(m, home)
        BY <3>2 DEF WireInv
      <3>4. m.type \in {"reply", "attached"} => m.session # s
        BY <1>2, <3>3, NullsAreOutside DEF Told
      <3>5. Matches(m, pending, source') /\ Told(m, home')
        BY <1>3, <3>3, <3>4 DEF Matches, Told
      <3> QED BY <3>1, <3>2, <3>3, <3>5
    <2> QED BY <1>7, <2>1, <2>2
  <1>12. \A p \in requests' : p.id < nextId /\ \A e \in pending : e.id = p.id => e = p
    BY <1>2 DEF WireInv
  <1> QED BY <1>2, <1>11, <1>12 DEF WireInv

-----------------------------------------------------------------------------
(* LeaseBacked: what a step does to the ledger, and every step *)

\* The sessions of K stay on the tabs h, and its leases backed, if those of L were.
Bears(L, K, h) == Homed(L, h) /\ Backed(L) => Homed(K, h) /\ Backed(K)

LEMMA ShrinkingBears ==
  ASSUME NEW L, NEW K, NEW h, Shrinks(L, K), Backed(L) => Backed(K)
  PROVE  Bears(L, K, h)
  BY LosesHomes DEF Shrinks, Bears

LEMMA FailAttachBears ==
  ASSUME NEW L \in LedgerType, NEW c, NEW t \in Target, NEW g, NEW h
  PROVE  Bears(L, FailAttach(L, c, t, g), h)
  BY FailAttachShrinks, ShrinkingBears

LEMMA DropSessionBears ==
  ASSUME NEW L \in LedgerType, NEW s \in Session, NEW h
  PROVE  /\ Bears(L, DropSession(L, s), h)
         /\ Bears(L, EndHostSession(L, s), h)
         /\ Bears(L, RejectSession(L, s), h)
  BY DropSessionShrinks, EndHostSessionShrinks, RejectSessionShrinks, ShrinkingBears

LEMMA HostAttachBears ==
  ASSUME NEW L \in LedgerType, NEW id \in Nat, NEW h
  PROVE  /\ \A t \in Target : Bears(L, BeginHostAttach(L, t, id), h)
         /\ \A s \in Session : Bears(L, SettleHostAttach(L, id, s), h)
         /\ Bears(L, CancelHostAttach(L, id), h)
  BY BeginHostAttachShrinks, SettleHostAttachShrinks, CancelHostAttachShrinks, ShrinkingBears

LEMMA TabBears ==
  ASSUME NEW L \in LedgerType, NEW c \in Conn, NEW t \in Target, NEW h
  PROVE  /\ Bears(L, ForgetTarget(L, t), h)
         /\ Bears(L, ClaimTarget(L, c, t), h)
         /\ Bears(L, DetachConnection(L, c), h)
         /\ MayReserve(L, c, t) => Bears(L, ReserveAttach(L, c, t), h)
  <1>1. PICK D \in SUBSET Conn : D = {}
    OBVIOUS
  <1>2. c \notin D
    BY <1>1
  <1>3. Bears(L, ForgetTarget(L, t), h)
    BY <1>1, ForgetTargetKeeps, ForgetTargetHomes DEF Bears
  <1>4. Bears(L, ClaimTarget(L, c, t), h)
    BY <1>2, ClaimTargetKeeps, ClaimTargetHomes DEF Bears
  <1>5. Bears(L, DetachConnection(L, c), h)
    BY DetachConnectionShrinks, ShrinkingBears
  <1>6. MayReserve(L, c, t) => Bears(L, ReserveAttach(L, c, t), h)
    BY <1>2, ReserveAttachKeeps, ReserveAttachHomes DEF Bears
  <1> QED BY <1>3, <1>4, <1>5, <1>6

LEMMA FailedReserveBears ==
  ASSUME NEW L \in LedgerType, NEW c \in Conn, NEW t \in Target, NEW g, NEW h,
         MayReserve(L, c, t)
  PROVE  Bears(L, FailAttach(ReserveAttach(L, c, t), c, t, g), h)
  <1>1. PICK D \in SUBSET Conn : D = {}
    OBVIOUS
  <1>2. PICK K : K = ReserveAttach(L, c, t)
    OBVIOUS
  <1>3. K \in LedgerType
    BY <1>1, <1>2, ReserveAttachKeeps
  <1>4. Bears(L, K, h) /\ Bears(K, FailAttach(K, c, t, g), h)
    BY <1>2, <1>3, TabBears, FailAttachBears
  <1> QED BY <1>2, <1>4 DEF Bears

\* A session is registered on the tab the browser made it for.
LEMMA SettlingBears ==
  ASSUME NEW L \in LedgerType, NEW t \in Target, NEW s \in Session, NEW h, t = h[s]
  PROVE  /\ \A c \in Conn, g \in Nat : Bears(L, SettleAttach(L, c, t, g, s), h)
         /\ Bears(L, ResolveAttachedEvent(L, t, s), h)
  <1>1. PICK D \in SUBSET Conn : D = {}
    OBVIOUS
  <1>2. Clean(L, D)
    BY <1>1 DEF Clean
  <1>3. ASSUME NEW c \in Conn, NEW g \in Nat
        PROVE  Bears(L, SettleAttach(L, c, t, g, s), h)
    <2> SUFFICES ASSUME Homed(L, h), Backed(L)
                 PROVE  /\ Homed(SettleAttach(L, c, t, g, s), h)
                        /\ Backed(SettleAttach(L, c, t, g, s))
      BY DEF Bears
    <2>1. s \notin Live(L) \/ L.sessions[s].target = t
      BY DEF Homed
    <2>2. c \notin D
      BY <1>1
    <2> QED BY <2>1, <2>2, SettleAttachKeeps, SettleAttachHomes
  <1>4. Bears(L, ResolveAttachedEvent(L, t, s), h)
    BY <1>2, ResolveAttachedEventKeeps, ResolveHomes DEF Bears
  <1> QED BY <1>3, <1>4

\* A step of the supervisor that sends nothing.
LEMMA QuietBInv ==
  ASSUME BInv, IInv', Bears(led, led', home),
         pending' \subseteq pending, requests' \subseteq requests, nextId <= nextId',
         inbox' = inbox \/ \E m : Receive(m), UNCHANGED <<home, source>>
  PROVE  BInv'
  <1>1. nextId \in Nat /\ nextId' \in Nat /\ TypeOK
    BY DEF BInv, IInv, TypeOK
  <1>2. WireInv'
    BY <1>1, WireRests DEF BInv
  <1> QED BY <1>2 DEF BInv, Bears

\* A step of the supervisor that sends one request.
LEMMA SendingBInv ==
  ASSUME BInv, IInv', Bears(led, led', home), NEW r, Send(r), r.id = nextId,
         UNCHANGED <<inbox, home, source>>
  PROVE  BInv'
  BY WireSends DEF BInv, Bears

\* A step that leaves the ledger alone does it no harm.
LEMMA SameBears ==
  ASSUME NEW L, NEW h
  PROVE  Bears(L, L, h)
  BY DEF Bears

LEMMA ClientBInv ==
  ASSUME BInv, IInv', ClientStep
  PROVE  BInv'
  <1>1. led \in LedgerType /\ nextId \in Nat /\ nextId <= nextId + 1 /\ nextId <= nextId
    BY DEF BInv, IInv, TypeOK
  <1>2. ASSUME NEW c \in Conn, NEW o \in Op, NEW t \in Target, ClientAttach(c, o, t)
        PROVE  BInv'
    <2>1. Bears(led, led', home)
      BY <1>1, <1>2, TabBears DEF ClientAttach
    <2>2. PICK r : r = MkRequest(c, o, "attach", t, led.gens[t] + 1)
      OBVIOUS
    <2>3. Send(r) /\ r.id = nextId
      BY <1>2, <2>2 DEF ClientAttach, MkRequest
    <2> QED BY <1>2, <2>1, <2>3, SendingBInv DEF ClientAttach, browserVars
  <1>3. ASSUME NEW c \in Conn, NEW o \in Op, NEW t \in Target, ClientAttachSendFails(c, o, t)
        PROVE  BInv'
    <2>1. Bears(led, led', home)
      BY <1>1, <1>3, FailedReserveBears DEF ClientAttachSendFails
    <2> QED BY <1>1, <1>3, <2>1, QuietBInv DEF ClientAttachSendFails, browserVars, wireVars
  <1>4. ASSUME NEW c \in Conn, NEW o \in Op, NEW t \in Target, ClientCloseTarget(c, o, t)
        PROVE  BInv'
    <2>1. PICK r : r = MkRequest(c, o, "close", t, 0)
      OBVIOUS
    <2>2. Send(r) /\ r.id = nextId /\ led' = led
      BY <1>4, <2>1 DEF ClientCloseTarget, MkRequest
    <2> QED BY <1>4, <2>2, SameBears, SendingBInv DEF ClientCloseTarget, browserVars
  <1>5. ASSUME NEW c \in Conn, NEW o \in Op, ClientCreateTarget(c, o)
        PROVE  BInv'
    <2>1. PICK r : r = MkRequest(c, o, "create", NoTarget, 0)
      OBVIOUS
    <2>2. Send(r) /\ r.id = nextId /\ led' = led
      BY <1>5, <2>1 DEF ClientCreateTarget, MkRequest
    <2> QED BY <1>5, <2>2, SameBears, SendingBInv DEF ClientCreateTarget, browserVars
  <1>6. ASSUME NEW c \in Conn, NEW o \in Op, EndOperation(c, o)
        PROVE  BInv'
    <2>1. led' = led /\ pending' \subseteq pending
      BY <1>6 DEF EndOperation
    <2> QED BY <1>1, <1>6, <2>1, SameBears, QuietBInv DEF EndOperation, browserVars, wireVars
  <1>7. ASSUME NEW c \in Conn, CloseConnection(c)
        PROVE  BInv'
    <2>1. Bears(led, led', home)
      BY <1>1, <1>7, DetachConnectionShrinks, ShrinkingBears DEF CloseConnection
    <2>2. pending' \subseteq pending
      BY <1>7 DEF CloseConnection
    <2> QED BY <1>1, <1>7, <2>1, <2>2, QuietBInv DEF CloseConnection, browserVars, wireVars
  <1> QED BY <1>2, <1>3, <1>4, <1>5, <1>6, <1>7 DEF ClientStep

LEMMA SupervisorBInv ==
  ASSUME BInv, IInv', SupervisorStep
  PROVE  BInv'
  <1>1. led \in LedgerType /\ nextId \in Nat /\ nextId <= nextId
    BY DEF BInv, IInv, TypeOK
  <1>2. ASSUME NEW e \in pending, ClientDeadline(e)
        PROVE  BInv'
    <2>1. e.kind = "attach" => e.target \in Target
      BY DEF BInv, IInv, TypeOK, Request
    <2>2. Bears(led, led', home)
      BY <1>1, <1>2, <2>1, FailAttachBears, SameBears DEF ClientDeadline
    <2>3. pending' \subseteq pending
      BY <1>2 DEF ClientDeadline
    <2> QED BY <1>1, <1>2, <2>2, <2>3, QuietBInv DEF ClientDeadline, browserVars, wireVars
  <1>3. ASSUME NEW e \in pending, HostDeadline(e)
        PROVE  BInv'
    <2>1. e.id \in Nat
      BY DEF BInv, IInv, TypeOK, Request, Ids
    <2>2. Bears(led, led', home)
      BY <1>1, <1>3, <2>1, HostAttachBears DEF HostDeadline
    <2>3. pending' \subseteq pending
      BY <1>3 DEF HostDeadline
    <2> QED BY <1>1, <1>3, <2>2, <2>3, QuietBInv DEF HostDeadline, browserVars, wireVars
  <1>4. ASSUME NEW t \in Target, HostAttach(t)
        PROVE  BInv'
    <2>1. Bears(led, led', home)
      BY <1>1, <1>4, HostAttachBears DEF HostAttach
    <2>2. PICK r : Send(r) /\ r.id = nextId
      BY <1>4 DEF HostAttach, MkRequest
    <2> QED BY <1>4, <2>1, <2>2, SendingBInv DEF HostAttach, browserVars
  <1>5. ASSUME NEW t \in Target, SyncDropsTab(t)
        PROVE  BInv'
    <2>1. Bears(led, led', home)
      BY <1>1, <1>5, ForgetTargetHomes, ForgetTargetKeeps DEF SyncDropsTab, Bears
    <2> QED BY <1>1, <1>5, <2>1, QuietBInv DEF SyncDropsTab, browserVars, wireVars
  <1>6. ASSUME NEW s \in Session, HostDetach(s)
        PROVE  BInv'
    <2>1. Bears(led, led', home)
      BY <1>1, <1>6, DropSessionBears DEF HostDetach
    <2> QED BY <1>1, <1>6, <2>1, QuietBInv DEF HostDetach, browserVars
  <1>7. ASSUME NEW s \in Session, CleanupDrop(s)
        PROVE  BInv'
    <2>1. Bears(led, led', home)
      BY <1>1, <1>7, DropSessionBears DEF CleanupDrop
    <2> QED BY <1>1, <1>7, <2>1, QuietBInv DEF CleanupDrop, browserVars, wireVars
  <1>8. ASSUME NEW c \in Conn, NEW o \in Op, NEW s \in Session, CleanupDetach(c, o, s)
        PROVE  BInv'
    <2>1. led' \in {led, DropSession(led, s), EndHostSession(led, s)}
      BY <1>8 DEF CleanupDetach
    <2>2. Bears(led, led', home)
      BY <1>1, <2>1, DropSessionBears, SameBears
    <2>3. UNCHANGED <<pending, nextId, home, source, requests, inbox>>
      BY <1>8 DEF CleanupDetach, browserVars
    <2> QED BY <1>1, <2>2, <2>3, QuietBInv
  <1> QED BY <1>2, <1>3, <1>4, <1>5, <1>6, <1>7, <1>8 DEF SupervisorStep

LEMMA MessageBInv ==
  ASSUME BInv, IInv', OnMessage
  PROVE  BInv'
  <1>1. led \in LedgerType /\ nextId \in Nat /\ nextId <= nextId
    BY DEF BInv, IInv, TypeOK
  <1>2. PICK m : MessageOf(m)
    BY DEF OnMessage
  <1>3. Receive(m)
    BY <1>2 DEF MessageOf, OrphanReply, AttachedEvent, DetachedEvent, DestroyedEvent,
                AttachReply, CreateReply, CloseReply, ClientError, HostReply, HostError
  <1>4. m \in Message /\ \E i \in DOMAIN inbox : m = inbox[i]
    BY <1>3, InboxTail DEF Receive, BInv, IInv, TypeOK
  <1>5. Matches(m, pending, source) /\ Told(m, home)
    BY <1>4 DEF BInv, WireInv
  <1>6. UNCHANGED <<nextId, home, source, requests>>
    BY <1>2 DEF MessageOf, OrphanReply, AttachedEvent, DetachedEvent, DestroyedEvent,
                AttachReply, CreateReply, CloseReply, ClientError, HostReply, HostError,
                browserVars
  <1>7. pending' \subseteq pending
    BY <1>2 DEF MessageOf, OrphanReply, AttachedEvent, DetachedEvent, DestroyedEvent,
                AttachReply, CreateReply, CloseReply, ClientError, HostReply, HostError
  <1>8. Bears(led, led', home)
    <2>1. CASE OrphanReply(m)
      <3>1. led' = led \/ (m.session \in Session /\ led' = RejectSession(led, m.session))
        BY <1>4, <2>1 DEF OrphanReply, Reject, Message
      <3> QED BY <1>1, <3>1, SameBears, DropSessionBears
    <2>2. CASE AttachedEvent(m)
      <3>1. m.session \in Session /\ m.target = home[m.session] /\ m.target \in Target
        BY <1>4, <1>5, <2>2 DEF AttachedEvent, Message, Told
      <3>2. \/ led' = ResolveAttachedEvent(led, m.target, m.session)
            \/ led' = RejectSession(led, m.session)
        BY <2>2 DEF AttachedEvent, Reject
      <3> QED BY <1>1, <3>1, <3>2, SettlingBears, DropSessionBears
    <2>3. CASE DetachedEvent(m)
      <3>1. m.session \in Session /\ led' = DropSession(led, m.session)
        BY <1>4, <2>3 DEF DetachedEvent, Message
      <3> QED BY <1>1, <3>1, DropSessionBears
    <2>4. CASE DestroyedEvent(m)
      <3>1. m.target \in Target /\ led' = ForgetTarget(led, m.target)
        BY <1>4, <2>4 DEF DestroyedEvent, Message
      <3> QED BY <1>1, <3>1, ForgetTargetHomes, ForgetTargetKeeps DEF Bears
    <2>5. ASSUME NEW e \in pending, AttachReply(m, e)
          PROVE  Bears(led, led', home)
      <3>1. /\ m.session \in Session /\ m.type = "reply" /\ e.id = m.id
            /\ e.conn \in Conn /\ e.gen \in Nat
        BY <2>5 DEF AttachReply, Asked, BInv, IInv, TypeOK, Request
      <3>2. e.target = home[m.session] /\ e.target \in Target
        BY <1>5, <3>1 DEF Matches, Told
      <3>3. \/ led' = SettleAttach(led, e.conn, e.target, e.gen, m.session)
            \/ led' = RejectSession(led, m.session)
        BY <2>5 DEF AttachReply, Reject
      <3> QED BY <1>1, <3>1, <3>2, <3>3, SettlingBears, DropSessionBears
    <2>6. ASSUME NEW e \in pending, CreateReply(m, e)
          PROVE  Bears(led, led', home)
      <3>1. e.conn \in Conn /\ m.target \in Target /\ led' = ClaimTarget(led, e.conn, m.target)
        BY <2>6 DEF CreateReply
      <3> QED BY <1>1, <3>1, TabBears
    <2>7. ASSUME NEW e \in pending, CloseReply(m, e)
          PROVE  Bears(led, led', home)
      <3>1. e.conn \in Conn /\ e.target \in Target /\ led' = ForgetTarget(led, e.target)
        BY <2>7 DEF CloseReply, BInv, IInv, TypeOK, Request
      <3> QED BY <1>1, <3>1, TabBears
    <2>8. ASSUME NEW e \in pending, ClientError(m, e)
          PROVE  Bears(led, led', home)
      <3>1. e.kind = "attach" => e.target \in Target
        BY DEF BInv, IInv, TypeOK, Request
      <3> QED BY <1>1, <2>8, <3>1, FailAttachBears, SameBears DEF ClientError
    <2>9. ASSUME NEW e \in pending, HostReply(m, e)
          PROVE  Bears(led, led', home)
      <3>1. e.id \in Nat /\ m.session \in Session
        BY <2>9 DEF HostReply, BInv, IInv, TypeOK, Request, Ids
      <3>2. \/ led' = SettleHostAttach(led, e.id, m.session)
            \/ led' = RejectSession(led, m.session)
        BY <2>9 DEF HostReply, Reject
      <3> QED BY <1>1, <3>1, <3>2, HostAttachBears, DropSessionBears
    <2>10. ASSUME NEW e \in pending, HostError(m, e)
           PROVE  Bears(led, led', home)
      <3>1. e.id \in Nat /\ led' = CancelHostAttach(led, e.id)
        BY <2>10 DEF HostError, BInv, IInv, TypeOK, Request, Ids
      <3> QED BY <1>1, <3>1, HostAttachBears
    <2> QED
      BY <1>2, <2>1, <2>2, <2>3, <2>4, <2>5, <2>6, <2>7, <2>8, <2>9, <2>10 DEF MessageOf
  <1> QED BY <1>1, <1>3, <1>6, <1>7, <1>8, QuietBInv

\* A step of the browser that makes no session.
LEMMA BrowserSpeaks ==
  ASSUME BInv, IInv', UNCHANGED <<led, pending, nextId, home, source>>,
         requests' \subseteq requests, NEW m \in Message, m.id < nextId,
         ~(m.type \in {"reply", "attached"} /\ m.session \in Session),
         inbox' = inbox \/ inbox' = Append(inbox, m)
  PROVE  BInv'
  <1>1. WireInv'
    BY WireTold DEF BInv
  <1> QED BY <1>1 DEF BInv

LEMMA BrowserBInv ==
  ASSUME ~ReuseIds, BInv, IInv', BrowserStep
  PROVE  BInv'
  <1>1. nextId \in Nat /\ NoId < nextId /\ inbox \in Seq(Message)
    BY MuxAssumption DEF BInv, IInv, TypeOK, NoId
  <1>2. ASSUME NEW r \in requests, NEW s \in Session, BrowserAttaches(r, s)
        PROVE  BInv'
    <2>1. WireInv'
      BY <1>2, WireAttaches DEF BInv
    <2>2. led' = led /\ home[s] = NoTarget /\ home' = [home EXCEPT ![s] = r.target]
      BY <1>2 DEF BrowserAttaches, Answered, muxVars
    <2>3. \A p \in Session : p # s => home'[p] = home[p]
      BY <2>2 DEF BInv, IInv, TypeOK
    <2>4. s \notin Live(led)
      BY <2>2, NullsAreOutside DEF BInv, Homed
    <2>5. Homed(led', home')
      BY <2>2, <2>3, <2>4 DEF BInv, Homed, Live
    <2> QED BY <2>1, <2>2, <2>5 DEF BInv
  <1>3. ASSUME NEW r \in requests,
               \/ BrowserCloses(r) \/ BrowserRefuses(r)
               \/ \E t \in Target : BrowserCreates(r, t)
        PROVE  BInv'
    <2>1. r \in Request /\ r.id \in Nat /\ r.id < nextId
      BY DEF BInv, IInv, TypeOK, WireInv, Request, Ids
    <2>2. PICK m \in Message : /\ Answered(r, <<m>>) /\ m.id = r.id
                               /\ ~(m.type \in {"reply", "attached"} /\ m.session \in Session)
      <3>1. ASSUME NEW t \in Target \cup {NoTarget}
            PROVE  /\ Reply(r.id, t, NoSession) \in Message
                   /\ Reply(r.id, t, NoSession).id = r.id
                   /\ Reply(r.id, t, NoSession).session \notin Session
        BY <2>1, NullsAreOutside DEF Reply, Message, Request
      <3>2. /\ Failure(r.id) \in Message /\ Failure(r.id).id = r.id
            /\ Failure(r.id).session \notin Session
        BY <2>1, NullsAreOutside DEF Failure, Message, Request
      <3>3. r.target \in Target \cup {NoTarget}
        BY <2>1 DEF Request
      <3>4. \/ Answered(r, <<Failure(r.id)>>)
            \/ \E t \in Target \cup {NoTarget} : Answered(r, <<Reply(r.id, t, NoSession)>>)
        BY <1>3, <3>3 DEF BrowserCloses, BrowserRefuses, BrowserCreates
      <3> QED BY <3>1, <3>2, <3>4
    <2>3. inbox' = Append(inbox, m)
      BY <1>1, <2>2 DEF Answered
    <2>4. UNCHANGED <<led, pending, nextId, home, source>> /\ requests' \subseteq requests
      BY <1>3, <2>2
        DEF BrowserCloses, BrowserRefuses, BrowserCreates, Answered, muxVars, browserVars
    <2>5. m.id < nextId
      BY <2>1, <2>2
    <2> QED BY <2>2, <2>3, <2>4, <2>5, BrowserSpeaks
  <1>4. ASSUME NEW t \in Target, TabGone(t)
        PROVE  BInv'
    <2>1. PICK m : m = Event("destroyed", t, NoSession)
      OBVIOUS
    <2>2. /\ m \in Message /\ m.id = NoId
          /\ ~(m.type \in {"reply", "attached"} /\ m.session \in Session)
      BY <2>1 DEF Event, Message, NoId
    <2>3. /\ inbox' = inbox \/ inbox' = Append(inbox, m)
          /\ UNCHANGED <<led, pending, nextId, home, source, requests>>
      BY <1>4, <2>1 DEF TabGone, muxVars
    <2> QED BY <1>1, <2>2, <2>3, BrowserSpeaks
  <1>5. ASSUME NEW s \in Session, SessionEnds(s)
        PROVE  BInv'
    <2>1. PICK m : m = Event("detached", home[s], s)
      OBVIOUS
    <2>2. /\ m \in Message /\ m.id = NoId
          /\ ~(m.type \in {"reply", "attached"} /\ m.session \in Session)
      BY <2>1 DEF Event, Message, NoId, BInv, IInv, TypeOK
    <2>3. /\ inbox' = Append(inbox, m)
          /\ UNCHANGED <<led, pending, nextId, home, source, requests>>
      BY <1>5, <2>1 DEF SessionEnds, muxVars
    <2> QED BY <1>1, <2>2, <2>3, BrowserSpeaks
  <1>6. ASSUME NEW s \in Session, DetachMisses(s)
        PROVE  BInv'
    <2>1. UNCHANGED <<led, pending, nextId, home, source, requests, inbox>>
      BY <1>6 DEF DetachMisses, muxVars, browserVars
    <2> QED BY <1>1, <2>1, SameBears, QuietBInv
  <1> QED BY <1>2, <1>3, <1>4, <1>5, <1>6 DEF BrowserStep

LEMMA InitBInv == Init => BInv
  <1> SUFFICES ASSUME Init PROVE BInv
    OBVIOUS
  <1>1. /\ led.leases = [t \in Target |-> NoLease]
        /\ led.sessions = [s \in Session |-> NoRecord]
    BY DEF Init, EmptyLedger
  <1>2. Homed(led, home) /\ Backed(led)
    BY <1>1 DEF Homed, Backed, Live, NoLease
  <1>3. WireInv
    BY DEF Init, WireInv
  <1> QED BY <1>2, <1>3, InitIInv DEF BInv

LEMMA NextBInv ==
  ASSUME ~ReuseIds, BInv, Next
  PROVE  BInv'
  <1>1. IInv'
    BY NextIInv DEF BInv
  <1> QED BY <1>1, ClientBInv, SupervisorBInv, MessageBInv, BrowserBInv DEF Next

LEMMA StutterBInv ==
  ASSUME BInv, UNCHANGED vars
  PROVE  BInv'
  <1>1. IInv' /\ UNCHANGED <<led, pending, nextId, home, source, requests, inbox>>
    BY StutterIInv DEF BInv, vars, muxVars, browserVars, wireVars
  <1>2. nextId \in Nat /\ nextId <= nextId
    BY DEF BInv, IInv, TypeOK
  <1> QED BY <1>1, <1>2, SameBears, QuietBInv

\* With session ids the browser never gives twice, every held lease is backed by
\* the session it names.
THEOREM LeaseBackedHolds ==
  ASSUME ~ReuseIds
  PROVE  Spec => []LeaseBacked
  <1>1. BInv /\ [Next]_vars => BInv'
    BY NextBInv, StutterBInv
  <1>2. BInv => LeaseBacked
    BY DEF BInv, Backed, LeaseBacked
  <1> QED BY <1>1, <1>2, InitBInv, PTL DEF Spec

-----------------------------------------------------------------------------
(* LiveIsOwned and the promise: what is in flight, and the four ways to move *)

\* The supervisor attaches nothing for itself.
NoHost == (\A e \in pending \cup requests : e.conn \in Conn) /\ captures = {}

\* The sessions the ledger has heard of.
Known(L) == Live(L) \cup L.tombs

\* The answer that made a session is read before its attachedToTarget.
ReplyFirst ==
    \A i \in DOMAIN inbox : inbox[i].type = "attached" =>
        \/ inbox[i].session \in Known(led)
        \/ \E j \in DOMAIN inbox : /\ j < i
                                   /\ inbox[j].type = "reply"
                                   /\ inbox[j].session = inbox[i].session

\* A pending attach has a reservation of its own: one generation, not settled.
Reserves(L, P) ==
    /\ \A e \in P : e.kind = "attach" =>
          /\ e.gen <= L.gens[e.target]
          /\ L.leases[e.target].gen = e.gen => L.leases[e.target].session = NoSession
    /\ \A e, f \in P :
          (e.kind = "attach" /\ f.kind = "attach" /\ e.target = f.target /\ e.gen = f.gen)
             => e = f

\* A live session belongs to the connection whose request made it.
Sourced(L, from) == \A s \in Live(L) : from[s] = L.sessions[s].conn

\* The inductive invariant behind LiveIsOwned and KeepsPromise.
OInv ==
    /\ BInv
    /\ Exclusive(led)
    /\ NoHost
    /\ ReplyFirst
    /\ Reserves(led, pending)
    /\ Sourced(led, source)

\* K is L with nothing granted and nothing settled.
Ends(L, K) ==
    \/ \E T \in SUBSET Target : Revokes(L, K, T)
    \/ \E s \in Session : Refuses(L, K, s)

LEMMA EndsKeeps ==
  ASSUME NEW L \in LedgerType, Exclusive(L), NEW K, Ends(L, K)
  PROVE  /\ K \in LedgerType /\ Exclusive(K) /\ Known(L) \subseteq Known(K) /\ Moves(L, K)
         /\ \A t \in Target : K.leases[t] \in {L.leases[t], NoLease} /\ L.gens[t] <= K.gens[t]
         /\ \A s \in Session : s \in Live(K) => s \in Live(L) /\ K.sessions[s] = L.sessions[s]
  <1>1. ASSUME NEW T \in SUBSET Target, Revokes(L, K, T)
        PROVE  /\ K \in LedgerType /\ Exclusive(K) /\ Known(L) \subseteq Known(K) /\ Moves(L, K)
               /\ \A t \in Target :
                     K.leases[t] \in {L.leases[t], NoLease} /\ L.gens[t] <= K.gens[t]
               /\ \A s \in Session :
                     s \in Live(K) => s \in Live(L) /\ K.sessions[s] = L.sessions[s]
    BY <1>1, RevokesKeeps DEF Revokes, Moves, Known, Live
  <1>2. ASSUME NEW s \in Session, Refuses(L, K, s)
        PROVE  /\ K \in LedgerType /\ Exclusive(K) /\ Known(L) \subseteq Known(K) /\ Moves(L, K)
               /\ \A t \in Target :
                     K.leases[t] \in {L.leases[t], NoLease} /\ L.gens[t] <= K.gens[t]
               /\ \A r \in Session :
                     r \in Live(K) => r \in Live(L) /\ K.sessions[r] = L.sessions[r]
    <2>1. \A t \in Target : L.gens[t] \in Nat
      BY Fields
    <2> QED BY <1>2, <2>1, RefusesKeeps DEF Refuses, Moves, Known, Live
  <1> QED BY <1>1, <1>2 DEF Ends

LEMMA SameEnds ==
  ASSUME NEW L \in LedgerType
  PROVE  Ends(L, L)
  BY SameIsRevoked DEF Ends

LEMMA DropSessionEnds ==
  ASSUME NEW L \in LedgerType, Exclusive(L), NEW s \in Session
  PROVE  Ends(L, DropSession(L, s)) /\ Ends(L, EndHostSession(L, s))
  <1>1. Ends(L, DropSession(L, s))
    <2>1. s \in Live(L) => {L.sessions[s].target} \in SUBSET Target
      BY DEF Exclusive
    <2> QED BY <2>1, DropSessionRevokes DEF Ends
  <1>2. PICK K : K = EndHostSession(L, s)
    OBVIOUS
  <1>3. K \in LedgerType
    BY <1>2, EndHostSessionShrinks DEF Shrinks
  <1>4. /\ K.leases = L.leases /\ K.sessions = L.sessions /\ K.tombs = L.tombs
        /\ K.gens = L.gens /\ K.hostRes = L.hostRes /\ K.hostSess = L.hostSess
    BY <1>2 DEF EndHostSession, LedgerType, Exclusive
  <1>5. Ends(L, K)
    BY <1>3, <1>4, SameIsRevoked DEF Ends
  <1> QED BY <1>1, <1>2, <1>5

LEMMA TabEnds ==
  ASSUME NEW L \in LedgerType, Exclusive(L), NEW c \in Conn, NEW t \in Target
  PROVE  /\ Ends(L, ForgetTarget(L, t))
         /\ Ends(L, ClaimTarget(L, c, t))
         /\ Ends(L, DetachConnection(L, c))
         /\ MayReserve(L, c, t) =>
              Ends(L, FailAttach(ReserveAttach(L, c, t), c, t, L.gens[t] + 1))
  <1>1. Ends(L, ForgetTarget(L, t))
    BY ForgetTargetRevokes DEF Ends
  <1>2. PICK K : K = ClaimTarget(L, c, t)
    OBVIOUS
  <1>3. K \in LedgerType
    <2>1. PICK D \in SUBSET Conn : D = {}
      OBVIOUS
    <2> QED BY <1>2, <2>1, ClaimTargetKeeps DEF Keeps
  <1>4. /\ K.leases = L.leases /\ K.sessions = L.sessions /\ K.tombs = L.tombs
        /\ K.gens = L.gens /\ K.hostRes = L.hostRes /\ K.hostSess = L.hostSess
    BY <1>2 DEF ClaimTarget, LedgerType
  <1>5. Ends(L, K)
    BY <1>3, <1>4, SameIsRevoked DEF Ends
  <1>6. Ends(L, DetachConnection(L, c))
    BY DetachConnectionRevokes DEF Ends
  <1>7. MayReserve(L, c, t) => Ends(L, FailAttach(ReserveAttach(L, c, t), c, t, L.gens[t] + 1))
    BY FailedReserveRevokes DEF Ends
  <1> QED BY <1>1, <1>2, <1>5, <1>6, <1>7

-----------------------------------------------------------------------------
(* The parts of the invariant, one at a time *)

LEMMA ReservesLess ==
  ASSUME NEW L \in LedgerType, Exclusive(L), NEW K, Ends(L, K),
         NEW P \in SUBSET Request, NEW Q \in SUBSET P, Reserves(L, P)
  PROVE  Reserves(K, Q)
  <1>1. ASSUME NEW e \in Q, e.kind = "attach"
        PROVE  /\ e.gen <= K.gens[e.target]
               /\ K.leases[e.target].gen = e.gen => K.leases[e.target].session = NoSession
    <2>1. PICK t \in Target, g \in Nat : t = e.target /\ g = e.gen
      BY <1>1 DEF Request
    <2>2. g <= L.gens[t] /\ (L.leases[t].gen = g => L.leases[t].session = NoSession)
      BY <1>1, <2>1 DEF Reserves
    <2>3. K.leases[t] \in {L.leases[t], NoLease} /\ L.gens[t] <= K.gens[t] /\ K \in LedgerType
      BY EndsKeeps
    <2>4. L.gens[t] \in Nat /\ K.gens[t] \in Nat
      BY <2>3, Fields
    <2> QED BY <2>1, <2>2, <2>3, <2>4 DEF NoLease
  <1>2. \A e, f \in Q :
          (e.kind = "attach" /\ f.kind = "attach" /\ e.target = f.target /\ e.gen = f.gen)
             => e = f
    BY DEF Reserves
  <1> QED BY <1>1, <1>2 DEF Reserves

LEMMA ReservesMore ==
  ASSUME NEW L \in LedgerType, NEW K, NEW c, NEW t \in Target, Grants(L, K, c, t),
         NEW P \in SUBSET Request, Reserves(L, P),
         NEW r, r.kind = "attach", r.target = t, r.gen = L.gens[t] + 1
  PROVE  Reserves(K, P \cup {r})
  <1>1. K \in LedgerType /\ L.gens[t] \in Nat /\ K.gens[t] = L.gens[t] + 1
    BY Fields DEF Grants
  <1>2. K.leases[t].session = NoSession
    BY DEF Grants
  <1>3. ASSUME NEW e \in P, e.kind = "attach"
        PROVE  /\ e.gen <= K.gens[e.target]
               /\ K.leases[e.target].gen = e.gen => K.leases[e.target].session = NoSession
               /\ ~(e.target = t /\ e.gen = L.gens[t] + 1)
    <2>1. PICK u \in Target, g \in Nat : u = e.target /\ g = e.gen
      BY <1>3 DEF Request
    <2>2. g <= L.gens[u] /\ (L.leases[u].gen = g => L.leases[u].session = NoSession)
      BY <1>3, <2>1 DEF Reserves
    <2>3. CASE u = t
      BY <1>1, <1>2, <2>1, <2>2, <2>3
    <2>4. CASE u # t
      <3>1. K.leases[u] = L.leases[u] /\ K.gens[u] = L.gens[u]
        BY <2>4 DEF Grants
      <3> QED BY <2>1, <2>2, <2>4, <3>1
    <2> QED BY <2>3, <2>4
  <1>4. r.gen <= K.gens[r.target] /\ K.leases[r.target].session = NoSession
    BY <1>1, <1>2
  <1>5. ASSUME NEW e \in P \cup {r}, NEW f \in P \cup {r},
               e.kind = "attach", f.kind = "attach", e.target = f.target, e.gen = f.gen
        PROVE  e = f
    BY <1>3, <1>5 DEF Reserves
  <1> QED BY <1>3, <1>4, <1>5 DEF Reserves

\* A request that is no attach needs no reservation.
LEMMA ReservesPlain ==
  ASSUME NEW L \in LedgerType, NEW P \in SUBSET Request, Reserves(L, P),
         NEW r \in Request, r.kind # "attach"
  PROVE  Reserves(L, P \cup {r})
  <1> PICK Q \in SUBSET Request : Q = P \cup {r}
    OBVIOUS
  <1>1. \A e \in Q : e.kind = "attach" => e \in P
    OBVIOUS
  <1>2. ASSUME NEW e \in Q, e.kind = "attach"
        PROVE  /\ e.gen <= L.gens[e.target]
               /\ L.leases[e.target].gen = e.gen => L.leases[e.target].session = NoSession
    <2>1. e \in P
      BY <1>1, <1>2
    <2> QED BY <1>2, <2>1, Zenon DEF Reserves
  <1>3. ASSUME NEW e \in Q, NEW f \in Q, e.kind = "attach",
               f.kind = "attach", e.target = f.target, e.gen = f.gen
        PROVE  e = f
    <2>1. e \in P /\ f \in P
      BY <1>1, <1>3
    <2> QED BY <1>3, <2>1, Zenon DEF Reserves
  <1>4. Reserves(L, Q)
    BY <1>2, <1>3, Zenon DEF Reserves
  <1> QED BY <1>4

\* The one attach that holds the reservation leaves the table as it is settled.
LEMMA ReservesSettled ==
  ASSUME NEW L \in LedgerType, NEW K, NEW c, NEW t \in Target, NEW s, Settles(L, K, c, t, s),
         NEW P \in SUBSET Request, Reserves(L, P),
         NEW e \in P, e.kind = "attach", e.target = t, e.gen = L.leases[t].gen
  PROVE  Reserves(K, P \ {e})
  <1>1. ASSUME NEW f \in P \ {e}, f.kind = "attach"
        PROVE  /\ f.gen <= K.gens[f.target]
               /\ K.leases[f.target].gen = f.gen => K.leases[f.target].session = NoSession
    <2>1. PICK u \in Target, g \in Nat : u = f.target /\ g = f.gen
      BY <1>1 DEF Request
    <2>2. g <= L.gens[u] /\ (L.leases[u].gen = g => L.leases[u].session = NoSession)
      BY <1>1, <2>1 DEF Reserves
    <2>3. K.gens = L.gens
      BY DEF Settles
    <2>4. CASE u = t
      <3>1. g # L.leases[t].gen
        <4>1. f \in P /\ f # e
          BY <1>1
        <4>2. f.target = e.target
          BY <2>1, <2>4
        <4>3. f.gen # e.gen
          BY <1>1, <4>1, <4>2, Zenon DEF Reserves
        <4> QED BY <2>1, <4>3
      <3>2. K.leases[t].gen = L.leases[t].gen
        BY DEF Settles
      <3> QED BY <2>1, <2>2, <2>3, <2>4, <3>1, <3>2
    <2>5. CASE u # t
      <3>1. K.leases[u] = L.leases[u]
        BY <2>5 DEF Settles
      <3> QED BY <2>1, <2>2, <2>3, <3>1
    <2> QED BY <2>4, <2>5
  <1> QED BY <1>1 DEF Reserves

LEMMA SourcedLess ==
  ASSUME NEW L \in LedgerType, Exclusive(L), NEW K, Ends(L, K), NEW from, Sourced(L, from)
  PROVE  Sourced(K, from)
  <1>1. \A s \in Session : s \in Live(K) => s \in Live(L) /\ K.sessions[s] = L.sessions[s]
    BY EndsKeeps
  <1> QED BY <1>1 DEF Sourced, Live

\* The inbox after a step of the supervisor: what it read and knew it still knows.
LEMMA ReplyFirstRests ==
  ASSUME TypeOK, ReplyFirst, Known(led) \subseteq Known(led'),
         \/ inbox' = inbox
         \/ \E m : Receive(m) /\ (m.type = "reply" /\ m.session \in Session
                                    => m.session \in Known(led'))
  PROVE  ReplyFirst'
  <1>1. inbox \in Seq(Message)
    BY DEF TypeOK
  <1>2. CASE inbox' = inbox
    BY <1>2 DEF ReplyFirst
  <1>3. ASSUME NEW m, Receive(m),
               m.type = "reply" /\ m.session \in Session => m.session \in Known(led')
        PROVE  ReplyFirst'
    <2>1. /\ m = inbox[1] /\ 1 \in DOMAIN inbox
          /\ \A i \in DOMAIN inbox' : /\ i \in Nat /\ i > 0 /\ i + 1 \in DOMAIN inbox
                                      /\ inbox'[i] = inbox[i + 1]
          /\ \A i \in DOMAIN inbox : i = 1 \/ i - 1 \in DOMAIN inbox'
      BY <1>1, <1>3, InboxTail DEF Receive
    <2>2. ASSUME NEW i \in DOMAIN inbox', inbox'[i].type = "attached"
          PROVE  \/ inbox'[i].session \in Known(led')
                 \/ \E j \in DOMAIN inbox' : /\ j < i
                                             /\ inbox'[j].type = "reply"
                                             /\ inbox'[j].session = inbox'[i].session
      <3>1. PICK k \in DOMAIN inbox : k = i + 1 /\ inbox'[i] = inbox[k] /\ i \in Nat
        BY <2>1
      <3>2. inbox[k] \in Message /\ inbox[k].type = "attached"
        BY <1>1, <2>2, <3>1
      <3>3. inbox[k].session \in Session
        BY <3>2 DEF Message
      <3>4. CASE inbox[k].session \in Known(led)
        BY <3>1, <3>4
      <3>5. ASSUME NEW j \in DOMAIN inbox, j < k, inbox[j].type = "reply",
                   inbox[j].session = inbox[k].session
            PROVE  \/ inbox'[i].session \in Known(led')
                   \/ \E n \in DOMAIN inbox' : /\ n < i
                                               /\ inbox'[n].type = "reply"
                                               /\ inbox'[n].session = inbox'[i].session
        <4>1. j \in Nat
          BY <1>1
        <4>2. CASE j = 1
          BY <1>3, <2>1, <3>1, <3>3, <3>5, <4>2
        <4>3. CASE j # 1
          <5>1. PICK n \in DOMAIN inbox' : n = j - 1
            BY <2>1, <4>3
          <5>2. n + 1 = j /\ n \in Nat
            BY <2>1, <4>1, <5>1
          <5>3. inbox'[n] = inbox[j]
            BY <2>1, <5>2
          <5>4. n < i
            BY <3>1, <3>5, <4>1, <5>1
          <5> QED BY <3>1, <3>5, <5>3, <5>4
        <4> QED BY <4>2, <4>3
      <3> QED BY <3>2, <3>4, <3>5 DEF ReplyFirst
    <2> QED BY <2>2 DEF ReplyFirst
  <1> QED BY <1>2, <1>3

\* The browser says something that is not an attach.
LEMMA ReplyFirstTold ==
  ASSUME TypeOK, ReplyFirst, led' = led, NEW m \in Message, m.type # "attached",
         inbox' = inbox \/ inbox' = Append(inbox, m)
  PROVE  ReplyFirst'
  <1>1. inbox \in Seq(Message)
    BY DEF TypeOK
  <1>2. /\ \A i \in DOMAIN inbox : i \in DOMAIN inbox' /\ inbox'[i] = inbox[i]
        /\ \A i \in DOMAIN inbox' : i \in DOMAIN inbox \/ inbox'[i] = m
    <2>1. PICK q, z : q \in Seq(Message) /\ q = inbox /\ z = inbox'
      BY <1>1
    <2>2. z = q \/ z = Append(q, m)
      BY <2>1
    <2>3. /\ \A i \in DOMAIN q : i \in DOMAIN z /\ z[i] = q[i]
          /\ \A i \in DOMAIN z : i \in DOMAIN q \/ z[i] = m
      BY <2>2, OneJoins
    <2> QED BY <2>1, <2>3
  <1>3. ASSUME NEW i \in DOMAIN inbox', inbox'[i].type = "attached"
        PROVE  \/ inbox'[i].session \in Known(led)
               \/ \E j \in DOMAIN inbox' : /\ j < i
                                           /\ inbox'[j].type = "reply"
                                           /\ inbox'[j].session = inbox'[i].session
    <2>1. i \in DOMAIN inbox /\ inbox'[i] = inbox[i]
      BY <1>2, <1>3
    <2> QED BY <1>2, <1>3, <2>1 DEF ReplyFirst
  <1> QED BY <1>3 DEF ReplyFirst

\* The browser answers an attach, then announces the session.
LEMMA ReplyFirstAttaches ==
  ASSUME TypeOK, ReplyFirst, led' = led, NEW a \in Message, NEW b \in Message,
         a.type = "reply", b.session = a.session, inbox' = inbox \o <<a, b>>
  PROVE  ReplyFirst'
  <1>1. inbox \in Seq(Message)
    BY DEF TypeOK
  <1>2. PICK n \in Nat : n = Len(inbox)
    BY <1>1
  <1>3. /\ DOMAIN inbox = 1..n /\ DOMAIN inbox' = 1..(n + 2)
        /\ \A i \in DOMAIN inbox : inbox'[i] = inbox[i]
        /\ inbox'[n + 1] = a /\ inbox'[n + 2] = b
        /\ \A i \in DOMAIN inbox' : i \in DOMAIN inbox \/ i = n + 1 \/ i = n + 2
    <2>1. PICK q, z : q \in Seq(Message) /\ q = inbox /\ z = inbox'
      BY <1>1
    <2>2. z = q \o <<a, b>>
      BY <2>1
    <2>3. /\ DOMAIN q = 1..Len(q) /\ DOMAIN z = 1..(Len(q) + 2)
          /\ \A i \in DOMAIN q : z[i] = q[i]
          /\ z[Len(q) + 1] = a /\ z[Len(q) + 2] = b
          /\ \A i \in DOMAIN z : i \in DOMAIN q \/ i = Len(q) + 1 \/ i = Len(q) + 2
      BY <2>2, PairJoins, SMTT(30)
    <2>4. n = Len(q)
      BY <1>2, <2>1
    <2> QED BY <2>1, <2>3, <2>4, Zenon
  <1>4. n + 1 \in DOMAIN inbox' /\ \A i \in DOMAIN inbox : i \in DOMAIN inbox'
    BY <1>3
  <1>5. ASSUME NEW i \in DOMAIN inbox', inbox'[i].type = "attached"
        PROVE  \/ inbox'[i].session \in Known(led)
               \/ \E j \in DOMAIN inbox' : /\ j < i
                                           /\ inbox'[j].type = "reply"
                                           /\ inbox'[j].session = inbox'[i].session
    <2>1. CASE i \in DOMAIN inbox
      BY <1>3, <1>4, <1>5, <2>1 DEF ReplyFirst
    <2>2. CASE i = n + 1
      BY <1>3, <1>5, <2>2
    <2>3. CASE i = n + 2
      <3>1. n + 1 < i
        BY <2>3
      <3> QED BY <1>3, <1>4, <2>3, <3>1
    <2> QED BY <1>3, <2>1, <2>2, <2>3
  <1> QED BY <1>5 DEF ReplyFirst

-----------------------------------------------------------------------------
(* Steps *)

\* A step of the supervisor that neither grants, settles nor sends.
LEMMA QuietOInv ==
  ASSUME OInv, BInv', Ends(led, led'), pending' \subseteq pending, requests' \subseteq requests,
         UNCHANGED <<captures, source>>,
         \/ inbox' = inbox
         \/ \E m : Receive(m) /\ (m.type = "reply" /\ m.session \in Session
                                    => m.session \in Known(led'))
  PROVE  OInv' /\ Moves(led, led')
  <1>1. /\ led \in LedgerType /\ TypeOK /\ pending \in SUBSET Request
        /\ pending' \in SUBSET pending
    BY DEF OInv, BInv, IInv, TypeOK
  <1>2. Exclusive(led') /\ Known(led) \subseteq Known(led') /\ Moves(led, led')
    BY <1>1, EndsKeeps DEF OInv
  <1>3. ReplyFirst'
    BY <1>1, <1>2, ReplyFirstRests DEF OInv
  <1>4. Reserves(led', pending')
    BY <1>1, ReservesLess DEF OInv
  <1>5. Sourced(led', source')
    BY <1>1, SourcedLess DEF OInv
  <1>6. NoHost'
    BY DEF OInv, NoHost
  <1> QED BY <1>2, <1>3, <1>4, <1>5, <1>6 DEF OInv

\* A step of the browser that makes no session.
LEMMA BrowserQuiet ==
  ASSUME OInv, BInv', UNCHANGED <<led, pending, captures, source>>, requests' \subseteq requests,
         NEW m \in Message, m.type # "attached", inbox' = inbox \/ inbox' = Append(inbox, m)
  PROVE  OInv' /\ Moves(led, led')
  <1>1. led \in LedgerType /\ TypeOK
    BY DEF OInv, BInv, IInv, TypeOK
  <1>2. ReplyFirst'
    BY <1>1, ReplyFirstTold DEF OInv
  <1>3. NoHost'
    BY DEF OInv, NoHost
  <1>4. Moves(led, led')
    BY <1>1, SameEnds, EndsKeeps DEF OInv
  <1> QED BY <1>2, <1>3, <1>4 DEF OInv

\* A client request that is no attach.
LEMMA PlainOInv ==
  ASSUME OInv, BInv', UNCHANGED <<led, captures, source, inbox>>,
         NEW r \in Request, Send(r), r.kind # "attach", r.conn \in Conn
  PROVE  OInv' /\ Moves(led, led')
  <1>1. led \in LedgerType /\ pending \in SUBSET Request
    BY DEF OInv, BInv, IInv, TypeOK
  <1>2. pending' = pending \cup {r} /\ requests' = requests \cup {r}
    BY DEF Send
  <1>3. Reserves(led', pending')
    BY <1>1, <1>2, ReservesPlain DEF OInv
  <1>4. NoHost' /\ ReplyFirst'
    BY <1>2 DEF OInv, NoHost, ReplyFirst
  <1>5. Moves(led, led')
    BY <1>1, SameEnds, EndsKeeps DEF OInv
  <1> QED BY <1>3, <1>4, <1>5 DEF OInv

LEMMA ClientAttachOInv ==
  ASSUME OInv, BInv', NEW c \in Conn, NEW o \in Op, NEW t \in Target, ClientAttach(c, o, t)
  PROVE  OInv' /\ Moves(led, led')
  <1>1. led \in LedgerType /\ TypeOK /\ pending \in SUBSET Request
    BY DEF OInv, BInv, IInv, TypeOK
  <1>2. PICK r : r = MkRequest(c, o, "attach", t, led.gens[t] + 1)
    OBVIOUS
  <1>3. /\ r.kind = "attach" /\ r.target = t /\ r.gen = led.gens[t] + 1 /\ r.conn = c
        /\ pending' = pending \cup {r} /\ requests' = requests \cup {r}
        /\ UNCHANGED <<captures, source, inbox>>
    BY <1>2 DEF ClientAttach, MkRequest, Send, browserVars
  <1>4. Grants(led, led', c, t)
    BY <1>1, ReserveAttachGrants DEF OInv, ClientAttach
  <1>5. Exclusive(led') /\ Live(led') \subseteq Live(led) /\ Known(led) \subseteq Known(led')
    BY <1>1, <1>4, GrantsKeeps DEF OInv, Known
  <1>6. ReplyFirst'
    BY <1>1, <1>3, <1>5, ReplyFirstRests DEF OInv
  <1>7. Reserves(led', pending')
    BY <1>1, <1>3, <1>4, ReservesMore DEF OInv
  <1>8. Sourced(led', source')
    <2>1. \A s \in Session :
            s \in Live(led') => s \in Live(led) /\ led'.sessions[s] = led.sessions[s]
      BY <1>4 DEF Grants, Live
    <2> QED BY <1>3, <2>1 DEF OInv, Sourced, Live
  <1>9. NoHost'
    BY <1>3 DEF OInv, NoHost
  <1> QED BY <1>4, <1>5, <1>6, <1>7, <1>8, <1>9 DEF OInv, Moves

LEMMA ClientOInv ==
  ASSUME OInv, BInv', ClientStep
  PROVE  OInv' /\ Moves(led, led')
  <1>1. led \in LedgerType /\ Exclusive(led)
    BY DEF OInv, BInv, IInv, TypeOK
  <1>2. ASSUME NEW c \in Conn, NEW o \in Op, NEW t \in Target, ClientAttachSendFails(c, o, t)
        PROVE  OInv' /\ Moves(led, led')
    <2>1. Ends(led, led')
      BY <1>1, <1>2, TabEnds DEF ClientAttachSendFails
    <2>2. UNCHANGED <<pending, requests, captures, source, inbox>>
      BY <1>2 DEF ClientAttachSendFails, browserVars, wireVars
    <2> QED BY <2>1, <2>2, QuietOInv
  <1>3. ASSUME NEW c \in Conn, NEW o \in Op, NEW t \in Target, ClientCloseTarget(c, o, t)
        PROVE  OInv' /\ Moves(led, led')
    <2>1. PICK r : r = MkRequest(c, o, "close", t, 0)
      OBVIOUS
    <2>2. r \in Request /\ Send(r) /\ r.kind # "attach" /\ r.conn \in Conn
      BY <1>3, <2>1 DEF ClientCloseTarget, MkRequest, Request, Send, OInv, BInv, IInv, TypeOK, Ids
    <2>3. UNCHANGED <<led, captures, source, inbox>>
      BY <1>3 DEF ClientCloseTarget, browserVars
    <2> QED BY <2>2, <2>3, PlainOInv
  <1>4. ASSUME NEW c \in Conn, NEW o \in Op, ClientCreateTarget(c, o)
        PROVE  OInv' /\ Moves(led, led')
    <2>1. PICK r : r = MkRequest(c, o, "create", NoTarget, 0)
      OBVIOUS
    <2>2. r \in Request /\ Send(r) /\ r.kind # "attach" /\ r.conn \in Conn
      BY <1>4, <2>1 DEF ClientCreateTarget, MkRequest, Request, Send, OInv, BInv, IInv, TypeOK, Ids
    <2>3. UNCHANGED <<led, captures, source, inbox>>
      BY <1>4 DEF ClientCreateTarget, browserVars
    <2> QED BY <2>2, <2>3, PlainOInv
  <1>5. ASSUME NEW c \in Conn, NEW o \in Op, EndOperation(c, o)
        PROVE  OInv' /\ Moves(led, led')
    <2>1. /\ led' = led /\ pending' \subseteq pending
          /\ UNCHANGED <<requests, captures, source, inbox>>
      BY <1>5 DEF EndOperation, browserVars, wireVars
    <2> QED BY <1>1, <2>1, SameEnds, QuietOInv
  <1>6. ASSUME NEW c \in Conn, CloseConnection(c)
        PROVE  OInv' /\ Moves(led, led')
    <2>1. Ends(led, led')
      BY <1>1, <1>6, DetachConnectionRevokes DEF CloseConnection, Ends
    <2>2. pending' \subseteq pending /\ UNCHANGED <<requests, captures, source, inbox>>
      BY <1>6 DEF CloseConnection, browserVars, wireVars
    <2> QED BY <2>1, <2>2, QuietOInv
  <1> QED BY ClientAttachOInv, <1>2, <1>3, <1>4, <1>5, <1>6 DEF ClientStep

LEMMA SupervisorOInv ==
  ASSUME ~Captures, OInv, BInv', SupervisorStep
  PROVE  OInv' /\ Moves(led, led')
  <1>1. led \in LedgerType /\ Exclusive(led) /\ captures = {}
    BY DEF OInv, BInv, IInv, TypeOK, NoHost
  <1>2. \A e \in pending : e.conn \in Conn /\ e.conn # NoConn
    BY NullsAreOutside DEF OInv, NoHost
  <1>3. ASSUME NEW e \in pending, ClientDeadline(e)
        PROVE  OInv' /\ Moves(led, led')
    <2>1. e.kind = "attach" => e.target \in Target
      BY DEF OInv, BInv, IInv, TypeOK, Request
    <2>2. Ends(led, led')
      BY <1>1, <1>3, <2>1, FailAttachRevokes, SameEnds DEF ClientDeadline, Ends
    <2>3. pending' \subseteq pending /\ UNCHANGED <<requests, captures, source, inbox>>
      BY <1>3 DEF ClientDeadline, browserVars, wireVars
    <2> QED BY <2>2, <2>3, QuietOInv
  <1>4. ASSUME NEW t \in Target, SyncDropsTab(t)
        PROVE  OInv' /\ Moves(led, led')
    <2>1. Ends(led, led')
      BY <1>1, <1>4, ForgetTargetRevokes DEF SyncDropsTab, Ends
    <2>2. UNCHANGED <<pending, requests, captures, source, inbox>>
      BY <1>4 DEF SyncDropsTab, browserVars, wireVars
    <2> QED BY <2>1, <2>2, QuietOInv
  <1>5. ASSUME NEW s \in Session, CleanupDrop(s)
        PROVE  OInv' /\ Moves(led, led')
    <2>1. Ends(led, led')
      BY <1>1, <1>5, DropSessionEnds DEF CleanupDrop
    <2>2. UNCHANGED <<pending, requests, captures, source, inbox>>
      BY <1>5 DEF CleanupDrop, browserVars, wireVars
    <2> QED BY <2>1, <2>2, QuietOInv
  <1>6. ASSUME NEW c \in Conn, NEW o \in Op, NEW s \in Session, CleanupDetach(c, o, s)
        PROVE  OInv' /\ Moves(led, led')
    <2>1. led' \in {led, DropSession(led, s), EndHostSession(led, s)}
      BY <1>6 DEF CleanupDetach
    <2>2. Ends(led, led')
      BY <1>1, <2>1, SameEnds, DropSessionEnds
    <2>3. UNCHANGED <<pending, requests, captures, source, inbox>>
      BY <1>6 DEF CleanupDetach, browserVars
    <2> QED BY <2>2, <2>3, QuietOInv
  <1> QED
    BY <1>1, <1>2, <1>3, <1>4, <1>5, <1>6
      DEF SupervisorStep, HostDeadline, HostAttach, HostDetach

\* Refusing a session that is not live ends nothing that is.
LEMMA RejectEnds ==
  ASSUME NEW L \in LedgerType, Exclusive(L), NEW s \in Session, s \notin Live(L)
  PROVE  Ends(L, RejectSession(L, s)) /\ s \in Known(RejectSession(L, s))
  BY RejectSessionRefuses DEF Ends, Refuses, Known

LEMMA AttachReplyOInv ==
  ASSUME OInv, BInv', NEW m, NEW e \in pending, AttachReply(m, e),
         Matches(m, pending, source), Told(m, home)
  PROVE  OInv' /\ Moves(led, led')
  <1>1. PICK L \in LedgerType : L = led /\ Exclusive(L)
    BY DEF OInv, BInv, IInv, TypeOK
  <1>2. PICK s \in Session, c \in Conn, t \in Target :
          /\ s = m.session /\ c = e.conn /\ t = e.target
          /\ c = source[s] /\ t = home[s] /\ e.kind = "attach"
    BY DEF AttachReply, Asked, Matches, Told
  <1>3. e.gen \in Nat /\ e \in Request /\ pending \in SUBSET Request /\ TypeOK
    BY DEF OInv, BInv, IInv, TypeOK, Request
  <1>4. /\ Receive(m) /\ pending' = pending \ {e}
        /\ UNCHANGED <<requests, captures, source>>
    BY DEF AttachReply, browserVars
  <1>5. s \in Live(L) => AlreadySettled(L, c, t, s)
    BY <1>1, <1>2 DEF OInv, BInv, Homed, Sourced, AlreadySettled
  <1>6. AlreadySettled(L, c, t, s) => s \in Live(L)
    BY NullsAreOutside DEF AlreadySettled, Live, NoRecord
  <1>7. CASE AlreadySettled(L, c, t, s)
    <2>1. led' = L
      BY <1>1, <1>2, <1>7 DEF AttachReply, SettleOk, SettleAttach
    <2>2. Ends(led, led') /\ s \in Known(led')
      BY <1>1, <1>6, <1>7, <2>1, SameEnds DEF Known
    <2> QED BY <1>2, <1>4, <2>2, QuietOInv
  <1>8. CASE ~AlreadySettled(L, c, t, s) /\ SettleOk(L, c, t, e.gen, s)
    <2>1. /\ s \notin L.tombs /\ s \notin Live(L)
          /\ L.leases[t].conn = c /\ L.leases[t].gen = e.gen
      BY <1>5, <1>8 DEF SettleOk
    <2>2. L.leases[t].session = NoSession
      BY <1>1, <1>2, <2>1 DEF OInv, Reserves
    <2>3. led' = SettleAttach(L, c, t, L.leases[t].gen, s)
      BY <1>1, <1>2, <1>8, <2>1 DEF AttachReply
    <2>4. Settles(led, led', c, t, s)
      BY <1>1, <2>1, <2>2, <2>3, SettleAttachSettles
    <2>5. /\ Exclusive(led') /\ Live(led') = Live(led) \cup {s}
          /\ Known(led) \subseteq Known(led')
      BY <1>1, <2>4, SettlesKeeps DEF Known
    <2>6. s \in Known(led')
      BY <2>5 DEF Known
    <2>7. ReplyFirst'
      BY <1>2, <1>3, <1>4, <2>5, <2>6, ReplyFirstRests DEF OInv
    <2>8. Reserves(led', pending')
      BY <1>1, <1>2, <1>3, <1>4, <2>1, <2>4, ReservesSettled DEF OInv
    <2>9. Sourced(led', source')
      <3>1. led'.sessions[s].conn = c
        BY <2>4 DEF Settles
      <3>2. \A r \in Session : r # s => led'.sessions[r] = led.sessions[r]
        BY <2>4 DEF Settles
      <3> QED BY <1>2, <1>4, <2>5, <3>1, <3>2 DEF OInv, Sourced, Live
    <2>10. NoHost'
      BY <1>4 DEF OInv, NoHost
    <2> QED BY <2>4, <2>5, <2>7, <2>8, <2>9, <2>10 DEF OInv, Moves
  <1>9. CASE ~SettleOk(L, c, t, e.gen, s)
    <2>1. led' = RejectSession(L, s) /\ s \notin Live(L)
      BY <1>1, <1>2, <1>5, <1>9 DEF AttachReply, SettleOk, Reject
    <2>2. Ends(led, led') /\ s \in Known(led')
      BY <1>1, <2>1, RejectEnds
    <2> QED BY <1>2, <1>4, <2>2, QuietOInv
  <1> QED BY <1>7, <1>8, <1>9

LEMMA OrphanReplyOInv ==
  ASSUME OInv, BInv', NEW m, OrphanReply(m)
  PROVE  OInv' /\ Moves(led, led')
  <1>1. led \in LedgerType /\ Exclusive(led)
    BY DEF OInv, BInv, IInv, TypeOK
  <1>2. Receive(m) /\ m \in Message /\ UNCHANGED <<pending, requests, captures, source>>
    BY ReceiveType DEF OrphanReply, OInv, BInv, browserVars
  <1>3. CASE m.session # NoSession /\ m.session \notin Live(led)
    <2>1. m.session \in Session /\ led' = RejectSession(led, m.session)
      BY <1>2, <1>3 DEF OrphanReply, Reject, Message
    <2>2. Ends(led, led') /\ m.session \in Known(led')
      BY <1>1, <1>3, <2>1, RejectEnds
    <2> QED BY <1>2, <2>2, QuietOInv
  <1>4. CASE ~(m.session # NoSession /\ m.session \notin Live(led))
    <2>1. led' = led
      BY <1>4 DEF OrphanReply
    <2>2. m.session \in Session => m.session \in Known(led')
      BY <1>4, <2>1, NullsAreOutside DEF Known
    <2> QED BY <1>1, <1>2, <2>1, <2>2, SameEnds, QuietOInv
  <1> QED BY <1>3, <1>4

\* The session was answered for before it is announced, so nothing is adopted.
LEMMA AttachedEventOInv ==
  ASSUME OInv, BInv', NEW m, AttachedEvent(m), Told(m, home)
  PROVE  OInv' /\ Moves(led, led')
  <1>1. PICK L \in LedgerType : L = led /\ Exclusive(L)
    BY DEF OInv, BInv, IInv, TypeOK
  <1>2. /\ Receive(m) /\ m \in Message /\ m.type = "attached"
        /\ UNCHANGED <<pending, requests, captures, source>>
    BY ReceiveType DEF AttachedEvent, OInv, BInv, browserVars
  <1>3. PICK s \in Session, t \in Target : s = m.session /\ t = m.target /\ t = home[s]
    BY <1>2 DEF Message, Told
  <1>4. s \in Known(L)
    <2>1. inbox \in Seq(Message)
      BY DEF OInv, BInv, IInv, TypeOK
    <2>2. 1 \in DOMAIN inbox /\ m = inbox[1]
      BY <1>2, <2>1, InboxTail DEF Receive
    <2>3. \A j \in DOMAIN inbox : ~(j < 1)
      BY <2>1
    <2> QED BY <1>1, <1>2, <1>3, <2>2, <2>3 DEF OInv, ReplyFirst
  <1>5. Unconsumed(L, t) = {} /\ L.hostSess = {}
    BY <1>1 DEF Exclusive, Unconsumed
  <1>6. CASE s \in Live(L)
    <2>1. s \notin L.tombs /\ L.sessions[s].target = t
      BY <1>1, <1>3, <1>6 DEF Exclusive, OInv, BInv, Homed
    <2>2. L.leases[t].gen = L.sessions[s].gen
      BY <1>1, <2>1, OneOnATab
    <2>3. AttachEventOk(L, t, s)
      BY <1>6, <2>1, <2>2 DEF AttachEventOk, KnownOk
    <2>4. ResolveAttachedEvent(L, t, s) = L
      BY <1>5, <1>6, <2>1 DEF ResolveAttachedEvent
    <2>5. led' = led
      BY <1>1, <1>3, <2>3, <2>4 DEF AttachedEvent
    <2> QED BY <1>1, <1>2, <2>5, SameEnds, QuietOInv
  <1>7. CASE s \notin Live(L)
    <2>1. s \in L.tombs
      BY <1>4, <1>7 DEF Known
    <2>2. ~AttachEventOk(L, t, s)
      BY <1>5, <2>1 DEF AttachEventOk
    <2>3. led' = RejectSession(led, s)
      BY <1>1, <1>3, <2>2 DEF AttachedEvent, Reject
    <2>4. Ends(led, led')
      BY <1>1, <1>7, <2>3, RejectEnds
    <2> QED BY <1>2, <2>4, QuietOInv
  <1> QED BY <1>6, <1>7

LEMMA MessageOInv ==
  ASSUME OInv, BInv', OnMessage
  PROVE  OInv' /\ Moves(led, led')
  <1>1. led \in LedgerType /\ Exclusive(led)
    BY DEF OInv, BInv, IInv, TypeOK
  <1>2. PICK m : MessageOf(m)
    BY DEF OnMessage
  <1>3. Receive(m)
    BY <1>2 DEF MessageOf, OrphanReply, AttachedEvent, DetachedEvent, DestroyedEvent,
                AttachReply, CreateReply, CloseReply, ClientError, HostReply, HostError
  <1>4. m \in Message /\ \E i \in DOMAIN inbox : m = inbox[i]
    BY <1>3, InboxTail DEF Receive, OInv, BInv, IInv, TypeOK
  <1>5. Matches(m, pending, source) /\ Told(m, home)
    BY <1>4 DEF OInv, BInv, WireInv
  <1>6. \A e \in pending : e.conn \in Conn /\ e.conn # NoConn /\ e \in Request
    BY NullsAreOutside DEF OInv, NoHost, BInv, IInv, TypeOK
  <1>7. CASE DetachedEvent(m)
    <2>1. m.session \in Session /\ m.type # "reply" /\ led' = DropSession(led, m.session)
      BY <1>4, <1>7 DEF DetachedEvent, Message
    <2>2. Ends(led, led')
      BY <1>1, <2>1, DropSessionEnds
    <2>3. UNCHANGED <<pending, requests, captures, source>>
      BY <1>7 DEF DetachedEvent, browserVars
    <2> QED BY <1>3, <2>1, <2>2, <2>3, QuietOInv
  <1>8. CASE DestroyedEvent(m)
    <2>1. m.target \in Target /\ m.type # "reply" /\ led' = ForgetTarget(led, m.target)
      BY <1>4, <1>8 DEF DestroyedEvent, Message
    <2>2. Ends(led, led')
      BY <1>1, <2>1, ForgetTargetRevokes DEF Ends
    <2>3. UNCHANGED <<pending, requests, captures, source>>
      BY <1>8 DEF DestroyedEvent, browserVars
    <2> QED BY <1>3, <2>1, <2>2, <2>3, QuietOInv
  <1>9. ASSUME NEW e \in pending, CreateReply(m, e) \/ CloseReply(m, e)
        PROVE  OInv' /\ Moves(led, led')
    <2>1. m.session \notin Session
      BY <1>5, <1>9 DEF CreateReply, CloseReply, Asked, Matches
    <2>2. Ends(led, led')
      <3>1. CASE CreateReply(m, e)
        BY <1>1, <1>6, <3>1, TabEnds DEF CreateReply
      <3>2. CASE CloseReply(m, e)
        <4>1. e.target \in Target
          BY <1>6, <3>2 DEF CloseReply, Request
        <4> QED BY <1>1, <3>2, <4>1, ForgetTargetRevokes DEF CloseReply, Ends
      <3> QED BY <1>9, <3>1, <3>2
    <2>3. pending' \subseteq pending /\ UNCHANGED <<requests, captures, source>>
      BY <1>9 DEF CreateReply, CloseReply, browserVars
    <2> QED BY <1>3, <2>1, <2>2, <2>3, QuietOInv
  <1>10. ASSUME NEW e \in pending, ClientError(m, e)
         PROVE  OInv' /\ Moves(led, led')
    <2>1. m.type # "reply"
      BY <1>10 DEF ClientError
    <2>2. e.kind = "attach" => e.target \in Target
      BY <1>6 DEF Request
    <2>3. Ends(led, led')
      BY <1>1, <1>10, <2>2, FailAttachRevokes, SameEnds DEF ClientError, Ends
    <2>4. pending' \subseteq pending /\ UNCHANGED <<requests, captures, source>>
      BY <1>10 DEF ClientError, browserVars
    <2> QED BY <1>3, <2>1, <2>3, <2>4, QuietOInv
  <1>11. \A e \in pending : ~HostReply(m, e) /\ ~HostError(m, e)
    BY <1>6 DEF HostReply, HostError
  <1> QED
    BY <1>2, <1>5, <1>7, <1>8, <1>9, <1>10, <1>11,
       AttachReplyOInv, OrphanReplyOInv, AttachedEventOInv
       DEF MessageOf

LEMMA BrowserOInv ==
  ASSUME ~EventFirst, ~ReuseIds, OInv, BInv', BrowserStep
  PROVE  OInv' /\ Moves(led, led')
  <1>1. led \in LedgerType /\ Exclusive(led) /\ inbox \in Seq(Message) /\ TypeOK
    BY DEF OInv, BInv, IInv, TypeOK
  <1>2. ASSUME NEW r \in requests, NEW s \in Session, BrowserAttaches(r, s)
        PROVE  OInv' /\ Moves(led, led')
    <2>1. r \in Request /\ r.target \in Target
      BY <1>2 DEF BrowserAttaches, OInv, BInv, IInv, TypeOK, Request
    <2>2. PICK a, b : a = Reply(r.id, r.target, s) /\ b = Event("attached", r.target, s)
      OBVIOUS
    <2>3. /\ a \in Message /\ b \in Message /\ a.type = "reply" /\ b.session = a.session
      BY <2>1, <2>2 DEF Reply, Event, Message, Request
    <2>4. /\ inbox' = inbox \o <<a, b>> /\ requests' \subseteq requests
          /\ UNCHANGED <<led, pending, captures>>
      BY <1>2, <2>2 DEF BrowserAttaches, Answered, muxVars
    <2>5. home[s] = NoTarget /\ source' = [source EXCEPT ![s] = r.conn]
      BY <1>2 DEF BrowserAttaches
    <2>6. s \notin Live(led)
      BY <2>5, NullsAreOutside DEF OInv, BInv, Homed
    <2>7. \A p \in Session : p # s => source'[p] = source[p]
      BY <2>5 DEF OInv, BInv, IInv, TypeOK
    <2>8. Sourced(led', source')
      BY <2>4, <2>6, <2>7 DEF OInv, Sourced, Live
    <2>9. ReplyFirst'
      BY <1>1, <2>3, <2>4, ReplyFirstAttaches DEF OInv
    <2>10. NoHost'
      BY <2>4 DEF OInv, NoHost
    <2>11. Moves(led, led')
      BY <1>1, <2>4, SameEnds, EndsKeeps
    <2> QED BY <2>4, <2>8, <2>9, <2>10, <2>11 DEF OInv
  <1>3. ASSUME NEW r \in requests,
               \/ BrowserCloses(r) \/ BrowserRefuses(r)
               \/ \E t \in Target : BrowserCreates(r, t)
        PROVE  OInv' /\ Moves(led, led')
    <2>1. r \in Request
      BY DEF OInv, BInv, IInv, TypeOK
    <2>2. PICK m \in Message : Answered(r, <<m>>) /\ m.type # "attached"
      <3>1. ASSUME NEW t \in Target \cup {NoTarget}
            PROVE  /\ Reply(r.id, t, NoSession) \in Message
                   /\ Reply(r.id, t, NoSession).type # "attached"
        BY <2>1 DEF Reply, Message, Request
      <3>2. Failure(r.id) \in Message /\ Failure(r.id).type # "attached"
        BY <2>1 DEF Failure, Message, Request
      <3>3. r.target \in Target \cup {NoTarget}
        BY <2>1 DEF Request
      <3>4. \/ Answered(r, <<Failure(r.id)>>)
            \/ \E t \in Target \cup {NoTarget} : Answered(r, <<Reply(r.id, t, NoSession)>>)
        BY <1>3, <3>3 DEF BrowserCloses, BrowserRefuses, BrowserCreates
      <3> QED BY <3>1, <3>2, <3>4
    <2>3. inbox' = Append(inbox, m)
      BY <1>1, <2>2 DEF Answered
    <2>4. UNCHANGED <<led, pending, captures, source>> /\ requests' \subseteq requests
      BY <1>3, <2>2
        DEF BrowserCloses, BrowserRefuses, BrowserCreates, Answered, muxVars, browserVars
    <2> QED BY <2>2, <2>3, <2>4, BrowserQuiet
  <1>4. ASSUME NEW t \in Target, TabGone(t)
        PROVE  OInv' /\ Moves(led, led')
    <2>1. PICK m : m = Event("destroyed", t, NoSession)
      OBVIOUS
    <2>2. m \in Message /\ m.type # "attached"
      BY <2>1 DEF Event, Message
    <2>3. /\ inbox' = inbox \/ inbox' = Append(inbox, m)
          /\ UNCHANGED <<led, pending, captures, source, requests>>
      BY <1>4, <2>1 DEF TabGone, muxVars
    <2> QED BY <2>2, <2>3, BrowserQuiet
  <1>5. ASSUME NEW s \in Session, SessionEnds(s)
        PROVE  OInv' /\ Moves(led, led')
    <2>1. PICK m : m = Event("detached", home[s], s)
      OBVIOUS
    <2>2. m \in Message /\ m.type # "attached"
      BY <2>1 DEF Event, Message, OInv, BInv, IInv, TypeOK
    <2>3. /\ inbox' = Append(inbox, m)
          /\ UNCHANGED <<led, pending, captures, source, requests>>
      BY <1>5, <2>1 DEF SessionEnds, muxVars
    <2> QED BY <2>2, <2>3, BrowserQuiet
  <1>6. ASSUME NEW s \in Session, DetachMisses(s)
        PROVE  OInv' /\ Moves(led, led')
    <2>1. UNCHANGED <<led, pending, captures, source, requests, inbox>>
      BY <1>6 DEF DetachMisses, muxVars, browserVars
    <2> QED BY <1>1, <2>1, SameEnds, QuietOInv
  <1> QED BY <1>2, <1>3, <1>4, <1>5, <1>6 DEF BrowserStep

LEMMA InitOInv == Init => OInv
  <1> SUFFICES ASSUME Init PROVE OInv
    OBVIOUS
  <1>1. /\ led.leases = [t \in Target |-> NoLease]
        /\ led.sessions = [s \in Session |-> NoRecord]
        /\ led.gens = [t \in Target |-> 0]
        /\ led.hostRes = {} /\ led.hostSess = {}
    BY DEF Init, EmptyLedger
  <1>2. Exclusive(led) /\ Sourced(led, source)
    BY <1>1 DEF Exclusive, Backed, Live, NoLease, Sourced
  <1>3. NoHost /\ ReplyFirst /\ Reserves(led, pending)
    BY DEF Init, NoHost, ReplyFirst, Reserves
  <1> QED BY <1>2, <1>3, InitBInv DEF OInv

LEMMA NextOInv ==
  ASSUME ~ReuseIds, ~EventFirst, ~Captures, OInv, [Next]_vars
  PROVE  OInv' /\ Moves(led, led')
  <1>1. BInv'
    BY NextBInv, StutterBInv DEF OInv
  <1>2. CASE UNCHANGED vars
    <2>1. led \in LedgerType /\ Exclusive(led)
      BY DEF OInv, BInv, IInv, TypeOK
    <2>2. UNCHANGED <<led, pending, captures, source, requests, inbox>>
      BY <1>2 DEF vars, muxVars, browserVars, wireVars
    <2> QED BY <1>1, <2>1, <2>2, SameEnds, QuietOInv
  <1> QED BY <1>1, <1>2, ClientOInv, SupervisorOInv, MessageOInv, BrowserOInv DEF Next

\* Without captures, with fresh session ids and the answer ahead of the event, no
\* connection ever uses a session that another one asked for.
THEOREM LiveIsOwnedHolds ==
  ASSUME ~ReuseIds, ~EventFirst, ~Captures
  PROVE  Spec => []LiveIsOwned
  <1>1. OInv /\ [Next]_vars => OInv'
    BY NextOInv
  <1>2. OInv => LiveIsOwned
    BY DEF OInv, Exclusive, Sourced, LiveIsOwned
  <1> QED BY <1>1, <1>2, InitOInv, PTL DEF Spec

-----------------------------------------------------------------------------
(* The refinement *)

\* A session nobody owns is owned by no connection and on no tab.
LEMMA NotLive ==
  ASSUME NEW L, NEW s \in Session
  PROVE  s \notin Live(L) => L.sessions[s].conn = NoConn /\ L.sessions[s].target = NoTarget
  BY DEF Live, NoRecord

LEMMA InitPromises == Init => Promise!Init
  <1> SUFFICES ASSUME Init PROVE Promise!Init
    OBVIOUS
  <1>1. /\ led.leases = [t \in Target |-> NoLease]
        /\ led.sessions = [s \in Session |-> NoRecord]
        /\ led.tombs = {}
    BY DEF Init, EmptyLedger
  <1> QED BY <1>1 DEF Promise!Init, NoLease, NoRecord

LEMMA RevokePromises ==
  ASSUME NEW T \in SUBSET Target, Revokes(led, led', T)
  PROVE  Promise!Revoke(T)
  <1>1. /\ \A t \in Target : led'.leases[t].conn = IF t \in T THEN NoConn ELSE led.leases[t].conn
        /\ \A s \in Session :
              /\ led'.sessions[s].conn =
                   IF led.sessions[s].target \in T THEN NoConn ELSE led.sessions[s].conn
              /\ led'.sessions[s].target =
                   IF led.sessions[s].target \in T THEN NoTarget ELSE led.sessions[s].target
        /\ led'.tombs = led.tombs \cup {s \in Session : led.sessions[s].target \in T}
    BY DEF Revokes, NoLease, NoRecord
  <1> QED BY <1>1 DEF Promise!Revoke, Promise!EndSessionsOn

LEMMA GrantPromises ==
  ASSUME NEW c \in Conn, NEW t \in Target, Grants(led, led', c, t)
  PROVE  Promise!Grant(c, t)
  <1>1. /\ led.leases[t].conn \in {NoConn, c}
        /\ \A u \in Target : led'.leases[u].conn = IF u = t THEN c ELSE led.leases[u].conn
        /\ \A s \in Session :
              /\ led'.sessions[s].conn =
                   IF led.sessions[s].target \in {t} THEN NoConn ELSE led.sessions[s].conn
              /\ led'.sessions[s].target =
                   IF led.sessions[s].target \in {t} THEN NoTarget ELSE led.sessions[s].target
        /\ led'.tombs = led.tombs \cup {s \in Session : led.sessions[s].target \in {t}}
    BY DEF Grants, NoRecord
  <1> QED BY <1>1 DEF Promise!Grant, Promise!EndSessionsOn

LEMMA AttachPromises ==
  ASSUME led \in LedgerType, Exclusive(led),
         NEW c \in Conn, NEW t \in Target, NEW s \in Session, Settles(led, led', c, t, s)
  PROVE  Promise!Attach(t, s)
  <1>1. \A r \in Session : led.sessions[r].target # t
    BY OneOnATab, NullsAreOutside DEF Settles
  <1>2. led.sessions[s].conn = NoConn /\ s \notin led.tombs /\ led.leases[t].conn # NoConn
    BY NotLive DEF Settles
  <1>3. /\ \A u \in Target : led'.leases[u].conn = led.leases[u].conn
        /\ \A r \in Session :
              /\ led'.sessions[r].conn = IF r = s THEN led.leases[t].conn ELSE led.sessions[r].conn
              /\ led'.sessions[r].target = IF r = s THEN t ELSE led.sessions[r].target
        /\ led'.tombs = led.tombs
    BY DEF Settles
  <1> QED BY <1>1, <1>2, <1>3 DEF Promise!Attach

LEMMA RefusePromises ==
  ASSUME NEW s \in Session, Refuses(led, led', s)
  PROVE  Promise!Refuse(s)
  <1>1. led.sessions[s].conn = NoConn
    BY NotLive DEF Refuses
  <1> QED BY <1>1 DEF Promise!Refuse, Refuses

\* The multiplexer, ledger and cleanup together implement the attach promise.
THEOREM KeepsPromiseHolds ==
  ASSUME ~ReuseIds, ~EventFirst, ~Captures
  PROVE  Spec => KeepsPromise
  <1>1. OInv /\ [Next]_vars => OInv'
    BY NextOInv
  <1>2. OInv /\ [Next]_vars => [Promise!Next]_(Promise!promiseVars)
    <2> SUFFICES ASSUME OInv, [Next]_vars
                 PROVE  Promise!Next
      OBVIOUS
    <2>1. led \in LedgerType /\ Exclusive(led) /\ Moves(led, led')
      BY NextOInv DEF OInv, BInv, IInv, TypeOK
    <2> QED
      BY <2>1, RevokePromises, GrantPromises, AttachPromises, RefusePromises
        DEF Moves, Promise!Next
  <1> QED BY <1>1, <1>2, InitOInv, InitPromises, PTL DEF Spec, KeepsPromise, Promise!Spec
=============================================================================
