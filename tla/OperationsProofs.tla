------------------------- MODULE OperationsProofs -------------------------
(***************************************************************************)
(* Proofs about Operations: the books of the ledger agree with the calls   *)
(* and with the browser, a clean operation owns nothing, no termination    *)
(* cuts off another operation's pending call, and one operation at a time  *)
(* evaluates in a session; for every set of operations, sessions and       *)
(* requests, and any number of commands.                                   *)
(***************************************************************************)
EXTENDS Operations, SequenceTheorems, FiniteSetTheorems, TLAPS

\* No operation is twice in a list.
NoDup(q) == \A i, j \in DOMAIN q : q[i] = q[j] => i = j

-----------------------------------------------------------------------------
(* Sequences, messages and commands *)

\* Taking out the only occurrence closes the gap.
LEMMA WithoutIs ==
    ASSUME NEW S, NEW q \in Seq(S), NEW x, NoDup(q), NEW i \in 1..Len(q), q[i] = x
    PROVE  Without(q, x) = SubSeq(q, 1, i-1) \o SubSeq(q, i+1, Len(q))
<1> DEFINE I == {n \in 1..Len(q) : q[n] = x}
<1>1. I = {i}
  BY DEF NoDup
<1>3. Min(I) = i
  BY <1>1 DEF Min
<1>5. Without(q, x) = RemoveAt(q, Min(I))
  BY <1>1 DEF Without, RemoveFirst, SelectInSeq
<1> QED
  BY <1>5, <1>3 DEF RemoveAt

\* Without takes out x and nothing else.
LEMMA WithoutFacts ==
    ASSUME NEW S, NEW q \in Seq(S), NEW x, NoDup(q)
    PROVE  /\ Without(q, x) \in Seq(S)
           /\ NoDup(Without(q, x))
           /\ \A y : InSeq(Without(q, x), y) <=> InSeq(q, y) /\ y # x
<1>1. CASE ~InSeq(q, x)
  <2>1. Without(q, x) = q
     BY <1>1 DEF Without, RemoveFirst, InSeq
  <2> QED BY <2>1, <1>1 DEF InSeq
<1>2. CASE InSeq(q, x)
  <2>1. PICK i \in 1..Len(q) : q[i] = x 
    BY <1>2 DEF InSeq
  <2> DEFINE w == Without(q, x)
             a == SubSeq(q, 1, i-1)
             b == SubSeq(q, i+1, Len(q))
  <2>10. w = a \o b
    BY <2>1, WithoutIs
  <2>11. a \in Seq(S) /\ Len(a) = i-1 /\ \A j \in 1..i-1 : a[j] = q[j]
    BY SubSeqProperties
  <2>12. b \in Seq(S) /\ Len(b) = Len(q) - i /\ \A j \in 1..Len(q) - i : b[j] = q[j+i]
    BY SubSeqProperties
  <2> HIDE DEF a, b, w
  <2>2. w \in Seq(S) /\ Len(w) = Len(q) - 1 /\ \A j \in 1..Len(q)-1 : w[j] = IF j < i THEN q[j] ELSE q[j+1]
    <3>1. w \in Seq(S) /\ Len(w) = Len(a) + Len(b)
          /\ \A j \in 1..Len(a) + Len(b) : w[j] = IF j <= Len(a) THEN a[j] ELSE b[j - Len(a)]
      BY <2>10, <2>11, <2>12, ConcatProperties
    <3>2. ASSUME NEW j \in 1..Len(q)-1 PROVE w[j] = IF j < i THEN q[j] ELSE q[j+1]
      <4>1. CASE j < i
        <5>1. j \in 1..i-1 /\ j \in 1..Len(a) + Len(b) /\ j <= Len(a)
          BY <4>1, <2>11, <2>12
        <5>2. w[j] = a[j] /\ a[j] = q[j]
          BY <5>1, <3>1, <2>11
        <5> QED BY <5>2, <4>1
      <4>2. CASE j >= i
        <5>0. j - (i-1) \in 1..Len(q)-i /\ j \in 1..Len(a) + Len(b) /\ ~(j <= Len(a))
          BY <4>2, <2>11, <2>12
        <5>1. w[j] = b[j - (i-1)] /\ j - (i-1) \in 1..Len(q)-i
          BY <5>0, <3>1, <2>11
        <5>2. b[j - (i-1)] = q[j - (i-1) + i]
          BY <5>1, <2>12
        <5> QED BY <5>1, <5>2, <4>2
      <4> QED BY <4>1, <4>2
    <3> QED BY <3>1, <3>2, <2>11, <2>12
  <2>3. NoDup(w)
    <3> DEFINE old(j) == IF j < i THEN j ELSE j + 1
    <3>1. \A j \in 1..Len(q)-1 : old(j) \in 1..Len(q) /\ w[j] = q[old(j)]
      BY <2>2
    <3>2. \A j, k \in 1..Len(q)-1 : old(j) = old(k) => j = k
      OBVIOUS
    <3>3. DOMAIN w = 1..Len(q)-1 /\ DOMAIN q = 1..Len(q)
      BY <2>2
    <3> HIDE DEF old
    <3> QED BY <3>1, <3>2, <3>3 DEF NoDup
  <2>4. ASSUME NEW y PROVE InSeq(w, y) => InSeq(q, y) /\ y # x
    BY <2>4, <2>2, <2>1 DEF NoDup, InSeq
  <2>5. ASSUME NEW y, InSeq(q, y), y # x PROVE InSeq(w, y)
    <3>1. PICK j \in 1..Len(q) : q[j] = y
      BY <2>5 DEF InSeq
    <3>2. CASE j < i
      BY <3>1, <3>2, <2>2, <2>1 DEF InSeq
    <3>3. CASE j > i
      <4>1. j-1 \in 1..Len(q)-1 /\ w[j-1] = y
        BY <3>1, <3>3, <2>2
      <4> QED BY <4>1, <2>2 DEF InSeq
    <3> QED BY <3>1, <3>2, <3>3, <2>1, <2>5
  <2> QED BY <2>2, <2>3, <2>4, <2>5 DEF w
<1> QED BY <1>1, <1>2

\* What is in a sequence to which x is appended.
LEMMA AppendFacts ==
    ASSUME NEW S, NEW q \in Seq(S), NEW x \in S
    PROVE  /\ Append(q, x) \in Seq(S)
           /\ NoDup(q) /\ ~InSeq(q, x) => NoDup(Append(q, x))
           /\ \A y : InSeq(Append(q, x), y) <=> InSeq(q, y) \/ y = x
<1> DEFINE w == Append(q, x)
<1>1. w \in Seq(S) /\ Len(w) = Len(q) + 1 /\ w[Len(q)+1] = x /\ \A i \in 1..Len(q) : w[i] = q[i]
  BY AppendProperties
<1> HIDE DEF w
<1>2. ASSUME NoDup(q), ~InSeq(q, x) PROVE NoDup(w)
  BY <1>1, <1>2 DEF NoDup, InSeq
<1>3. \A y : InSeq(w, y) <=> InSeq(q, y) \/ y = x
  BY <1>1 DEF InSeq
<1> QED BY <1>1, <1>2, <1>3 DEF w

\* Emptiness, and being one element, said without positions.
LEMMA EmptyFacts ==
    ASSUME NEW S, NEW q \in Seq(S), NoDup(q)
    PROVE  /\ q = <<>> <=> \A y \in S : ~InSeq(q, y)
           /\ \A x : q = <<x>> <=> InSeq(q, x) /\ \A y \in S : InSeq(q, y) => y = x
<1>1. q # <<>> => Len(q) \in Nat \ {0} /\ q[1] \in S /\ InSeq(q, q[1])
  BY EmptySeq DEF InSeq
<1>2. q = <<>> => \A y : ~InSeq(q, y)
  BY DEF InSeq
<1>3. ASSUME NEW x, InSeq(q, x), \A y \in S : InSeq(q, y) => y = x
      PROVE  q = <<x>>
  <2>1. \A i \in 1..Len(q) : q[i] \in S /\ InSeq(q, q[i])
    BY DEF InSeq
  <2>2. \A i \in 1..Len(q) : q[i] = x
    BY <2>1, <1>3
  <2>3. Len(q) = 1
    <3>1. PICK i \in 1..Len(q) : q[i] = x
      BY <1>3 DEF InSeq
    <3>2. \A j \in 1..Len(q) : j = i
      BY <3>1, <2>2 DEF NoDup
    <3>3. 1 \in 1..Len(q) /\ Len(q) \in 1..Len(q)
      BY <3>1
    <3> QED BY <3>2, <3>3
  <2>4. <<x>> \in Seq(S) /\ Len(<<x>>) = 1 /\ <<x>>[1] = x
    BY <2>2, <2>1, <2>3
  <2> QED BY <2>2, <2>3, <2>4, SeqEqual
<1>4. ASSUME NEW x, q = <<x>> PROVE InSeq(q, x) /\ \A y \in S : InSeq(q, y) => y = x
  BY <1>4 DEF InSeq
<1> QED BY <1>1, <1>2, <1>3, <1>4

\* What is handled comes from the queue, and so does the rest.
LEMMA TailFacts ==
    ASSUME NEW S, NEW q \in Seq(S), q # <<>>
    PROVE  /\ Head(q) \in S /\ InSeq(q, Head(q)) /\ Tail(q) \in Seq(S)
           /\ \A x : InSeq(Tail(q), x) => InSeq(q, x)
<1>1. Head(q) \in S /\ Head(q) = q[1] /\ Len(q) \in Nat \ {0}
  BY EmptySeq
<1>2. Tail(q) \in Seq(S) /\ Len(Tail(q)) = Len(q)-1 /\ \A i \in 1..Len(Tail(q)) : Tail(q)[i] = q[i+1]
  BY HeadTailProperties
<1>3. ASSUME NEW x, InSeq(Tail(q), x) PROVE InSeq(q, x)
  <2>1. PICK i \in 1..Len(q)-1 : q[i+1] = x
    BY <1>2, <1>3 DEF InSeq
  <2> QED BY <2>1, <1>1 DEF InSeq
<1> QED BY <1>1, <1>2, <1>3 DEF InSeq

\* What is in two sequences, one after the other.
LEMMA ConcatFacts ==
    ASSUME NEW S, NEW q \in Seq(S), NEW p \in Seq(S)
    PROVE  q \o p \in Seq(S) /\ \A x : InSeq(q \o p, x) => InSeq(q, x) \/ InSeq(p, x)
<1>1. q \o p \in Seq(S) /\ Len(q \o p) = Len(q) + Len(p)
      /\ \A i \in 1..Len(q) + Len(p) : (q \o p)[i] = IF i <= Len(q) THEN q[i] ELSE p[i - Len(q)]
  BY ConcatProperties
<1>2. ASSUME NEW x, InSeq(q \o p, x) PROVE InSeq(q, x) \/ InSeq(p, x)
  <2>1. PICK i \in 1..Len(q) + Len(p) : (q \o p)[i] = x
    BY <1>1, <1>2 DEF InSeq
  <2>2. CASE i <= Len(q)
    BY <2>1, <2>2, <1>1 DEF InSeq
  <2>3. CASE ~(i <= Len(q))
    <3>1. i - Len(q) \in 1..Len(p) /\ p[i - Len(q)] = x
      BY <2>1, <2>3, <1>1
    <3> QED BY <3>1 DEF InSeq
  <2> QED BY <2>2, <2>3
<1> QED BY <1>1, <1>2

\* Nothing is in the empty sequence.
LEMMA NoneIn == \A x : ~InSeq(<<>>, x)
  BY DEF InSeq

\* One thing is in a sequence of one.
LEMMA OneIn == ASSUME NEW S, NEW x \in S
               PROVE  <<x>> \in Seq(S) /\ \A y : InSeq(<<x>>, y) => y = x
<1>1. <<x>> \in Seq(S) /\ Len(<<x>>) = 1 /\ <<x>>[1] = x
  OBVIOUS
<1> QED BY <1>1 DEF InSeq

\* The inbox after the answer to a command.
LEMMA AnsweredFacts ==
    ASSUME inbox \in Seq(Messages), NEW c, NEW msgs \in Seq(Messages), Answered(c, msgs),
           c.cleanup => c \in Commands
    PROVE  /\ inbox' \in Seq(Messages)
           /\ \A m : InSeq(inbox', m) =>
                 \/ InSeq(inbox, m) \/ InSeq(msgs, m)
                 \/ (c.cleanup /\ m = [type |-> "answer", command |-> c])
<1> DEFINE a == [type |-> "answer", command |-> c]
           b == IF c.cleanup THEN Append(msgs, a) ELSE msgs
<1>1. inbox' = inbox \o b
  BY DEF Answered
<1>2. c.cleanup => a \in Messages
  BY DEF Messages
<1>3. b \in Seq(Messages) /\ \A m : InSeq(b, m) => InSeq(msgs, m) \/ (c.cleanup /\ m = a)
  BY <1>2, AppendFacts
<1> HIDE DEF b
<1> QED BY <1>1, <1>3, ConcatFacts

\* The fields of a message.
LEMMA MessageParts ==
    ASSUME NEW m \in Messages
    PROVE  /\ m.type \in {"answer", "result", "paused", "detached"}
           /\ m.type = "answer" => m.command \in Commands
           /\ m.type = "result" => m.call \in Calls
           /\ m.type = "paused" => m.req \in Req
           /\ m.type = "detached" => m.session \in Session
  BY DEF Messages

\* The fields of a command.
LEMMA CommandParts ==
    ASSUME NEW c \in Commands
    PROVE  /\ c.kind \in {"evaluate", "terminate", "enable", "disable", "release", "detach"}
           /\ c.cleanup \in BOOLEAN /\ c.op \in Op /\ c.session \in Session
           /\ c.req \in Req \cup {NoReq} /\ c.id \in 0..MaxCall
           /\ c # NoCommand
  BY OperationsAssumption DEF Commands, NoCommand

\* Nothing is booked on a session that the browser never opened.
Known ==
    /\ \A o \in Op : used[o] \cup created[o] \cup toStop[o] \subseteq opened
    /\ \A o \in Op : awaited[o] # NoCommand => awaited[o].session \in opened
    /\ \A o \in Op : \A r \in reqs[o] : reqAt[r] \in opened
    /\ \A r \in Req : reqAt[r] # NoSession => reqAt[r] \in opened
    /\ \A s \in Session, o \in Op : InSeq(fetch[s], o) => s \in opened
    /\ \A c \in Commands : InSeq(pipe, c) => c.session \in opened
    /\ \A m \in Messages : InSeq(inbox, m) =>
         /\ m.type = "answer" => m.command.session \in opened
         /\ m.type = "paused" => reqAt[m.req] \in opened
         /\ m.type = "detached" => m.session \in opened

\* An operation is once at most among the users and the holders of a session.
Distinct == \A s \in Session : NoDup(users[s]) /\ NoDup(fetch[s])

\* The calls on the pipe are numbered commands of clients.
Numbered ==
    \A c \in Commands : InSeq(pipe, c) /\ c.kind = "evaluate" => c.id \in 1..sent /\ ~c.cleanup

\* Types, and what they do not say of sessions, lists and numbers.
TypeInv == TypeOK /\ Distinct /\ Known /\ Numbered

\* Nothing is booked on o.
OwnsNothing(o) ==
    /\ reqs[o] = {} /\ used[o] = {} /\ created[o] = {} /\ toStop[o] = {}
    /\ \A s \in Session : slots[s].op # o /\ ~InSeq(fetch[s], o) /\ ~InSeq(users[s], o)
    /\ \A e \in pending : e.op # o

\* Only an operation that has begun and is not clean owns anything, only a
\* running one has calls pending, and a cleanup waits as long as it is busy.
Owned ==
    /\ \A o \in Op : cleaning[o] = "no" <=> status[o] \in {"none", "running"}
    /\ \A o \in Op : cleaning[o] = "busy" <=> awaited[o] # NoCommand
    /\ \A o \in Op : status[o] = "none" \/ cleaning[o] = "done" => OwnsNothing(o)
    /\ \A e \in pending : Running(e.op) /\ ~closed /\ e.session \in used[e.op]
    /\ \A s \in Session, o \in Op : InSeq(users[s], o) => s \in used[o]

\* The slot of a session is the account of its pending calls.
SlotBooks ==
    /\ IsFiniteSet(pending)
    /\ \A e \in pending : e.id <= sent /\ slots[e.session].op = e.op
    /\ \A s \in Session : slots[s].op = NoOp => slots[s].depth = 0
    /\ \A s \in Session, o \in Op : slots[s].op = o /\ Running(o) /\ ~closed
            => slots[s].depth = Cardinality(CallsOn(s))

\* The browser intercepts a session, once the pipe is drained, exactly while
\* somebody holds Fetch there.
FetchBooks ==
    \A s \in attached \ tombs : ~Leaving(s) => (FetchAfterPipe(s) <=> fetch[s] # <<>>)

\* The browser is at work on e: e is under way at the i-th place of the pipe,
\* or, at place zero, it is executing.
LiveAt(e, i) ==
    \/ i = 0 /\ e \in running
    \/ i \in DOMAIN pipe /\ pipe[i].kind = "evaluate" /\ CallOf(pipe[i]) = e

\* A termination of what executes in s is at the k-th place of the pipe.
StopsAt(k, s) == k \in DOMAIN pipe /\ pipe[k].kind = "terminate" /\ pipe[k].session = s

\* The calls the browser is through with.
Over == {x.call : x \in stopped}
        \cup {e \in Calls : InSeq(inbox, [type |-> "result", call |-> e])}

\* The browser takes the calls in the order of their numbers, each once.
Ordered ==
    /\ \A e, f \in Calls, i, j \in Nat : LiveAt(e, i) /\ LiveAt(f, j) /\ i < j => e.id < f.id
    /\ \A e \in Calls, i \in Nat : LiveAt(e, i) => e.id <= sent /\ e \notin Over
    /\ \A e \in Over : e.id <= sent

\* A termination that is under way can only meet pending calls of the operation
\* that sent it: the others are behind it.
CutsOwn ==
    \A e \in pending, k \in Nat : StopsAt(k, e.session) =>
        \/ pipe[k].op = e.op
        \/ \E j \in Nat : k < j /\ LiveAt(e, j)

\* What cuts off a call, and which calls there are to be cut off.
CutBooks == Ordered /\ CutsOwn /\ CallsNotCutByOthers

\* Between calls of two operations in one session there is a termination.
Separated ==
    \A e, f \in Calls, i, j \in Nat :
        LiveAt(e, i) /\ LiveAt(f, j) /\ i <= j /\ e.session = f.session /\ e.op # f.op
            => \E k \in Nat : i < k /\ k < j /\ StopsAt(k, e.session)

\* A call the browser is at work on is pending while its operation runs, and
\* afterwards the session is either still to be stopped by the cleanup, or
\* buried, or the termination is on its way.
WatchedAt(e, i) ==
    /\ status[e.op] # "none"
    /\ Running(e.op) => e \in pending
    /\ ~Running(e.op) =>
         \/ slots[e.session].op = e.op /\ e.session \in toStop[e.op]
         \/ e.session \in tombs
         \/ \E k \in Nat : i < k /\ StopsAt(k, e.session)

\* While the connection is there, every call the browser works on is watched.
Watched == ~closed => \A e \in Calls, i \in Nat : LiveAt(e, i) => WatchedAt(e, i)

-----------------------------------------------------------------------------
(* Types *)

\* Initially the types hold and nothing is known.
LEMMA TypeInit == Init => TypeInv
<1> SUFFICES ASSUME Init PROVE TypeInv
  OBVIOUS
<1>1. <<>> \in Seq(Op) /\ <<>> \in Seq(Commands) /\ <<>> \in Seq(Messages) /\ NoDup(<<>>)
  BY EmptySeq DEF NoDup
<1>2. TypeOK
  <2>1. FreeSlot \in [op: Op \cup {NoOp}, depth: Nat] /\ 0 \in 0..MaxCall
    BY OperationsAssumption DEF FreeSlot
  <2> QED BY <1>1, <2>1 DEF Init, TypeOK
<1>3. Distinct /\ Known /\ Numbered
  BY <1>1, NoneIn DEF Init, Distinct, Known, Numbered
<1> QED BY <1>2, <1>3 DEF TypeInv

\* A use of a session notes it on both sides.
LEMMA UseTypes ==
    ASSUME TypeInv, NEW o \in Op, NEW s \in opened, UseSession(o, s)
    PROVE  /\ used' \in [Op -> SUBSET Session] /\ \A p \in Op : used'[p] \subseteq opened
           /\ users' \in [Session -> Seq(Op)]
           /\ \A x \in Session : NoDup(users'[x])
<1>1. /\ s \in Session /\ users \in [Session -> Seq(Op)] /\ NoDup(users[s])
      /\ used \in [Op -> SUBSET Session] /\ \A p \in Op : used[p] \subseteq opened
      /\ \A x \in Session : NoDup(users[x])
  BY DEF TypeInv, TypeOK, Distinct, Known
<1>2. /\ Append(Without(users[s], o), o) \in Seq(Op)
      /\ NoDup(Append(Without(users[s], o), o))
  BY <1>1, WithoutFacts, AppendFacts
<1> QED BY <1>1, <1>2 DEF UseSession

\* What clients and cleanups send are commands.
LEMMA CommandType ==
    ASSUME TypeInv, NEW o \in Op, NEW s \in Session, NEW r \in Req \cup {NoReq},
           NEW kind \in {"evaluate", "terminate", "enable", "disable", "release", "detach"}
    PROVE  /\ sent < MaxCall => ClientCommand(kind, o, s, r) \in Commands
           /\ CleanupCommand(kind, o, s, r) \in Commands
  BY OperationsAssumption DEF TypeInv, TypeOK, Commands, ClientCommand, CleanupCommand

\* Any command of a client keeps the types.
LEMMA SendTypes ==
    ASSUME TypeInv, NEW o \in Op, NEW s \in Session, NEW r \in Req \cup {NoReq},
           NEW kind \in {"evaluate", "terminate", "enable", "disable", "release"},
           ClientSends(o, s, ClientCommand(kind, o, s, r)),
           fetch' \in [Session -> Seq(Op)], \A x \in Session : NoDup(fetch'[x]),
           \A x \in Session, p \in Op : InSeq(fetch'[x], p) => InSeq(fetch[x], p) \/ x = s,
           slots' \in [Session -> [op: Op \cup {NoOp}, depth: Nat]],
           pending' \subseteq Calls
    PROVE  TypeInv'
<1> DEFINE c == ClientCommand(kind, o, s, r)
<1>1. /\ s \in opened /\ sent < MaxCall /\ sent' = sent + 1 /\ UseSession(o, s)
      /\ pipe' = Append(pipe, c)
      /\ UNCHANGED <<status, created, reqs, toStop, cleaning, awaited, connVars, tombs,
                     inbox, browserVars>>
  BY DEF ClientSends
<1>2. c \in Commands /\ c.session = s /\ (c.kind = "evaluate" => c.id = sent + 1 /\ ~c.cleanup)
  BY <1>1, CommandType DEF ClientCommand
<1> HIDE DEF c
<1>3. pipe' \in Seq(Commands) /\ \A x : InSeq(pipe', x) => InSeq(pipe, x) \/ x = c
  BY <1>1, <1>2, AppendFacts DEF TypeInv, TypeOK
<1>4. /\ used' \in [Op -> SUBSET Session] /\ \A p \in Op : used'[p] \subseteq opened
      /\ users' \in [Session -> Seq(Op)]
      /\ \A x \in Session : NoDup(users'[x])
  BY <1>1, UseTypes
<1>5. TypeOK'
  BY <1>1, <1>3, <1>4, OperationsAssumption DEF TypeInv, TypeOK, connVars, browserVars
<1>6. Distinct'
  BY <1>4 DEF Distinct
<1>7. Known'
  BY <1>1, <1>2, <1>3, <1>4 DEF TypeInv, Known, browserVars
<1>8. Numbered'
  <2>1. sent \in Nat
    BY OperationsAssumption DEF TypeInv, TypeOK
  <2> QED BY <2>1, <1>1, <1>2, <1>3 DEF TypeInv, Numbered
<1> QED BY <1>5, <1>6, <1>7, <1>8 DEF TypeInv

\* Taking and giving back slots keeps their type.
LEMMA SlotTypes ==
    ASSUME TypeInv
    PROVE  /\ \A o \in Op, s \in Session :
                TakenSlot(o, s) \in [Session -> [op: Op \cup {NoOp}, depth: Nat]]
           /\ \A f \in [Session -> [op: Op \cup {NoOp}, depth: Nat]] : \A e :
                e.session \in Session =>
                   ReleasedSlot(f, e) \in [Session -> [op: Op \cup {NoOp}, depth: Nat]]
<1> DEFINE Slot == [op: Op \cup {NoOp}, depth: Nat]
<1>1. slots \in [Session -> Slot]
  BY DEF TypeInv, TypeOK
<1>2. FreeSlot \in Slot
  BY DEF FreeSlot
<1>3. ASSUME NEW o \in Op, NEW s \in Session PROVE TakenSlot(o, s) \in [Session -> Slot]
  <2>1. [op |-> o, depth |-> slots[s].depth + 1] \in Slot
    BY <1>1
  <2> HIDE DEF Slot
  <2> QED BY <1>1, <2>1 DEF TakenSlot
<1>4. ASSUME NEW f \in [Session -> Slot], NEW e, e.session \in Session
      PROVE  ReleasedSlot(f, e) \in [Session -> Slot]
  <2>1. f[e.session].depth > 1 => [f[e.session] EXCEPT !.depth = @ - 1] \in Slot
    <3>1. f[e.session] \in Slot
      BY <1>4
    <3> QED BY <3>1
  <2>2. f[e.session].depth \in Nat
    BY <1>4
  <2> HIDE DEF Slot
  <2> QED BY <1>2, <1>4, <2>1, <2>2 DEF ReleasedSlot
<1> QED BY <1>3, <1>4

\* What clients do in a session keeps the types.
LEMMA ClientTypes ==
    ASSUME TypeInv, NEW o \in Op, NEW s \in Session
    PROVE  /\ Attach(o, s) => TypeInv'
           /\ Evaluate(o, s) => TypeInv'
           /\ EvaluateSendFails(o, s) => TypeInv'
           /\ Terminate(o, s) => TypeInv'
           /\ EnableFetch(o, s) => TypeInv'
           /\ DisableFetch(o, s) => TypeInv'
<1> USE DEF TypeInv
<1>0. /\ fetch \in [Session -> Seq(Op)] /\ \A x \in Session : NoDup(fetch[x])
      /\ slots \in [Session -> [op: Op \cup {NoOp}, depth: Nat]]
      /\ pending \subseteq Calls /\ sent \in 0..MaxCall /\ MaxCall \in Nat
  BY OperationsAssumption DEF TypeOK, Distinct
<1>2. ASSUME Attach(o, s) PROVE TypeInv'
  <2>1. /\ UNCHANGED <<status, reqs, toStop, cleaning, awaited, fetch, slots, closed, closing,
                       tombs, pending, sent, pipe, inbox, fetchOn, reqAt, held, running, stopped>>
        /\ opened' = opened \cup {s} /\ attached' = attached \cup {s}
        /\ created' = [created EXCEPT ![o] = @ \cup {s}]
        /\ UseSession(o, s)
    BY <1>2 DEF Attach, connVars
  <2>2. /\ used' \in [Op -> SUBSET Session] /\ \A p \in Op : used'[p] \subseteq used[p] \cup {s}
        /\ users' \in [Session -> Seq(Op)] /\ \A x \in Session : NoDup(users'[x])
    <3>1. /\ Append(Without(users[s], o), o) \in Seq(Op)
          /\ NoDup(Append(Without(users[s], o), o))
      BY WithoutFacts, AppendFacts DEF TypeOK, Distinct
    <3> QED BY <3>1, <2>1 DEF UseSession, TypeOK, Distinct
  <2>3. TypeOK'
    BY <2>1, <2>2 DEF TypeOK
  <2>4. Distinct'
    BY <2>1, <2>2 DEF Distinct
  <2>5. Known'
    BY <2>1, <2>2 DEF Known, TypeOK
  <2> QED BY <2>1, <2>3, <2>4, <2>5 DEF Numbered
<1>3. ASSUME Evaluate(o, s) PROVE TypeInv'
  <2> DEFINE c == ClientCommand("evaluate", o, s, NoReq)
  <2>1. sent < MaxCall => CallOf(c) \in Calls
    BY <1>0 DEF CallOf, ClientCommand, Calls
  <2> QED BY <1>0, <1>3, <2>1, SendTypes, SlotTypes DEF Evaluate, ClientSends
<1>4. ASSUME EvaluateSendFails(o, s) PROVE TypeInv'
  <2>1. /\ UNCHANGED <<status, created, reqs, toStop, cleaning, awaited, fetch, closed, closing,
                       tombs, pending, sent, pipe, inbox, opened, attached, fetchOn, reqAt, held,
                       running, stopped>>
        /\ s \in opened /\ UseSession(o, s)
        /\ slots' = ReleasedSlot(TakenSlot(o, s), [op |-> o, session |-> s])
    BY <1>4 DEF EvaluateSendFails, connVars, browserVars
  <2>2. slots' \in [Session -> [op: Op \cup {NoOp}, depth: Nat]]
    BY <2>1, SlotTypes
  <2>3. /\ used' \in [Op -> SUBSET Session] /\ \A p \in Op : used'[p] \subseteq opened
        /\ users' \in [Session -> Seq(Op)] /\ \A x \in Session : NoDup(users'[x])
    BY <2>1, UseTypes
  <2>4. TypeOK'
    BY <2>1, <2>2, <2>3 DEF TypeOK
  <2> QED BY <2>1, <2>3, <2>4 DEF Distinct, Known, Numbered
<1>5. ASSUME Terminate(o, s) PROVE TypeInv'
  BY <1>0, <1>5, SendTypes DEF Terminate
<1>6. ASSUME EnableFetch(o, s) PROVE TypeInv'
  <2>1. ~InSeq(fetch[s], o) => /\ Append(fetch[s], o) \in Seq(Op)
                              /\ NoDup(Append(fetch[s], o))
    BY <1>0, AppendFacts
  <2>2. /\ fetch' \in [Session -> Seq(Op)] /\ \A x \in Session : NoDup(fetch'[x])
        /\ \A x \in Session, p \in Op : InSeq(fetch'[x], p) => InSeq(fetch[x], p) \/ x = s
        /\ UNCHANGED <<slots, pending>>
        /\ ClientSends(o, s, ClientCommand("enable", o, s, NoReq))
    BY <1>0, <1>6, <2>1 DEF EnableFetch
  <2> QED BY <1>0, <2>2, SendTypes
<1>7. ASSUME DisableFetch(o, s) PROVE TypeInv'
  <2>1. <<>> \in Seq(Op) /\ NoDup(<<>>)
    BY EmptySeq DEF NoDup
  <2>2. /\ fetch' \in [Session -> Seq(Op)] /\ \A x \in Session : NoDup(fetch'[x])
        /\ \A x \in Session, p \in Op : InSeq(fetch'[x], p) => InSeq(fetch[x], p) \/ x = s
        /\ UNCHANGED <<slots, pending>>
        /\ ClientSends(o, s, ClientCommand("disable", o, s, NoReq))
    BY <1>0, <1>7, <2>1 DEF DisableFetch
  <2> QED BY <1>0, <2>2, SendTypes
<1> QED BY <1>2, <1>3, <1>4, <1>5, <1>6, <1>7

\* So does the release of a request.
LEMMA ReleaseTypes ==
    ASSUME TypeInv, NEW o \in Op, NEW r \in Req, ReleaseRequest(o, r)
    PROVE  TypeInv'
<1>1. /\ fetch \in [Session -> Seq(Op)] /\ \A x \in Session : NoDup(fetch[x])
      /\ slots \in [Session -> [op: Op \cup {NoOp}, depth: Nat]]
      /\ pending \subseteq Calls /\ reqAt[r] \in Session
  BY DEF ReleaseRequest, TypeInv, Known, TypeOK, Distinct
<1> QED BY <1>1, SendTypes DEF ReleaseRequest

\* What every turn of a cleanup does to the books.
LEMMA TurnTypes ==
    ASSUME TypeInv, NEW o \in Op, NEW left \in SUBSET opened, NEW dead \in SUBSET Session,
           CleanupTurn(o, left, dead)
    PROVE  /\ used' \in [Op -> SUBSET Session] /\ created' \in [Op -> SUBSET Session]
           /\ reqs' \in [Op -> SUBSET Req] /\ toStop' \in [Op -> SUBSET Session]
           /\ \A p \in Op : used'[p] \cup created'[p] \cup toStop'[p] \subseteq opened
           /\ \A p \in Op : reqs'[p] \subseteq reqs[p]
           /\ cleaning' \in [Op -> {"no", "busy", "done"}]
           /\ awaited' \in [Op -> Commands \cup {NoCommand}]
           /\ \A p \in Op : awaited'[p] # NoCommand => awaited'[p].session \in opened
           /\ users' \in [Session -> Seq(Op)] /\ fetch' \in [Session -> Seq(Op)]
           /\ \A s \in Session : NoDup(users'[s]) /\ NoDup(fetch'[s])
           /\ \A s \in Session, p \in Op : InSeq(fetch'[s], p) => InSeq(fetch[s], p)
           /\ slots' \in [Session -> [op: Op \cup {NoOp}, depth: Nat]]
           /\ pipe' \in Seq(Commands)
           /\ \A c : InSeq(pipe', c) =>
                 InSeq(pipe, c) \/ (c.session \in opened /\ c.kind # "evaluate")
<1> USE DEF TypeInv
<1> DEFINE Goal ==
      /\ used' \in [Op -> SUBSET Session] /\ created' \in [Op -> SUBSET Session]
      /\ reqs' \in [Op -> SUBSET Req] /\ toStop' \in [Op -> SUBSET Session]
      /\ \A p \in Op : used'[p] \cup created'[p] \cup toStop'[p] \subseteq opened
      /\ \A p \in Op : reqs'[p] \subseteq reqs[p]
      /\ users' \in [Session -> Seq(Op)] /\ fetch' \in [Session -> Seq(Op)]
      /\ \A s \in Session : NoDup(users'[s]) /\ NoDup(fetch'[s])
      /\ \A s \in Session, p \in Op : InSeq(fetch'[s], p) => InSeq(fetch[s], p)
      /\ slots' \in [Session -> [op: Op \cup {NoOp}, depth: Nat]]
    Sends ==
      /\ cleaning' \in [Op -> {"no", "busy", "done"}]
      /\ awaited' \in [Op -> Commands \cup {NoCommand}]
      /\ \A p \in Op : awaited'[p] # NoCommand => awaited'[p].session \in opened
      /\ pipe' \in Seq(Commands)
      /\ \A c : InSeq(pipe', c) =>
            InSeq(pipe, c) \/ (c.session \in opened /\ c.kind # "evaluate")
<1>0. /\ used \in [Op -> SUBSET Session] /\ created \in [Op -> SUBSET Session]
      /\ reqs \in [Op -> SUBSET Req] /\ toStop \in [Op -> SUBSET Session]
      /\ \A p \in Op : used[p] \cup created[p] \cup toStop[p] \subseteq opened
      /\ users \in [Session -> Seq(Op)] /\ fetch \in [Session -> Seq(Op)]
      /\ \A s \in Session : NoDup(users[s]) /\ NoDup(fetch[s])
      /\ slots \in [Session -> [op: Op \cup {NoOp}, depth: Nat]]
      /\ opened \subseteq Session
  BY DEF TypeOK, Known, Distinct
<1>a. ASSUME NEW c \in Commands, c.session \in opened, c.kind # "evaluate", Await(o, c)
      PROVE  Sends
  <2>1. /\ awaited' = [awaited EXCEPT ![o] = c] /\ pipe' = Append(pipe, c)
        /\ cleaning' = [cleaning EXCEPT ![o] = "busy"]
    BY <1>a DEF Await
  <2>2. pipe' \in Seq(Commands) /\ \A x : InSeq(pipe', x) => InSeq(pipe, x) \/ x = c
    BY <2>1, AppendFacts DEF TypeOK
  <2> QED BY <2>1, <2>2, <1>a DEF TypeOK, Known
<1>b. \A q \in Seq(Op) : NoDup(q) => /\ Without(q, o) \in Seq(Op) /\ NoDup(Without(q, o))
                                     /\ \A y : InSeq(Without(q, o), y) => InSeq(q, y)
  BY WithoutFacts
<1>c. ASSUME DropFetchOf(o)
      PROVE  /\ fetch' \in [Session -> Seq(Op)] /\ \A s \in Session : NoDup(fetch'[s])
             /\ \A s \in Session, p \in Op : InSeq(fetch'[s], p) => InSeq(fetch[s], p)
  BY <1>c, <1>b, <1>0 DEF DropFetchOf
<1>d. \A kind \in {"terminate", "disable", "release", "detach"}, s \in Session, r \in Req \cup {NoReq} :
        LET c == CleanupCommand(kind, o, s, r)
        IN  c \in Commands /\ c.session = s /\ c.kind # "evaluate"
  BY CommandType DEF CleanupCommand
<1> HIDE DEF Sends
<1>e. ASSUME NEW kind \in {"terminate", "disable", "release", "detach"}, NEW s \in opened,
             NEW r \in Req \cup {NoReq}, Await(o, CleanupCommand(kind, o, s, r))
      PROVE  Sends
  <2> DEFINE c == CleanupCommand(kind, o, s, r)
  <2>1. c \in Commands /\ c.session = s /\ c.kind # "evaluate"
    BY <1>d, <1>0
  <2>2. Await(o, c) /\ c.session \in opened
    BY <2>1, <1>e
  <2> HIDE DEF c
  <2> QED BY <1>a, <2>1, <2>2
<1> SUFFICES Goal /\ Sends
  BY DEF Sends
<1>1. CASE FailOne(o, left, dead)
  <2>1. PICK r \in Failable(o, dead) :
          /\ Await(o, CleanupCommand("release", o, reqAt[r], r))
          /\ reqs' = [reqs EXCEPT ![o] = @ \ {r}]
          /\ toStop' = [toStop EXCEPT ![o] = left]
          /\ UNCHANGED <<created, fetch>>
    BY <1>1 DEF FailOne
  <2>2. r \in Req /\ reqAt[r] \in opened
    BY <1>0 DEF Failable, Known
  <2>3. Sends
    BY <2>1, <2>2, <1>e
  <2>4. Goal
    BY <2>1, <1>0 DEF Await
  <2> QED BY <2>3, <2>4
<1>2. CASE StopOne(o, left, dead)
  <2>1. PICK s \in Stoppable(o, left, dead), K \in SUBSET (left \ Stoppable(o, left, dead)) :
          /\ Await(o, CleanupCommand("terminate", o, s, NoReq))
          /\ toStop' = [toStop EXCEPT ![o] = left \ (K \cup {s})]
    BY <1>2 DEF StopOne
  <2>2. s \in opened
    BY DEF Stoppable
  <2>3. Sends
    BY <2>1, <2>2, <1>e
  <2>4. Goal
    BY <1>2, <2>1, <1>0 DEF Await, StopOne
  <2> QED BY <2>3, <2>4
<1>3. CASE DisableOne(o, left, dead)
  <2>1. PICK s \in Disableable(o, dead), K \in SUBSET (HeldBy(o) \ Disableable(o, dead)) :
          /\ Await(o, CleanupCommand("disable", o, s, NoReq))
          /\ fetch' = [x \in Session |->
                          IF x \in K \cup {s} THEN Without(fetch[x], o) ELSE fetch[x]]
    BY <1>3 DEF DisableOne
  <2>2. s \in opened
    BY DEF Disableable, HeldBy, Known
  <2>3. Sends
    BY <2>1, <2>2, <1>e
  <2>5. /\ fetch' \in [Session -> Seq(Op)] /\ \A x \in Session : NoDup(fetch'[x])
        /\ \A x \in Session, p \in Op : InSeq(fetch'[x], p) => InSeq(fetch[x], p)
    BY <2>1, <1>b, <1>0
  <2>4. Goal
    BY <1>3, <2>1, <2>5, <1>0 DEF Await, DisableOne
  <2> QED BY <2>3, <2>4
<1>4. CASE DetachOne(o, left, dead)
  <2>1. PICK s \in Detachable(o, dead), K \in SUBSET (created[o] \ Detachable(o, dead)) :
          /\ Await(o, CleanupCommand("detach", o, s, NoReq))
          /\ created' = [created EXCEPT ![o] = @ \ (K \cup {s})]
    BY <1>4 DEF DetachOne
  <2>2. s \in opened
    BY <1>0 DEF Detachable
  <2>3. Sends
    BY <2>1, <2>2, <1>e
  <2>4. Goal
    BY <1>4, <2>1, <1>c, <1>0 DEF Await, DetachOne
  <2> QED BY <2>3, <2>4
<1>5. CASE CleanupEnds(o, left, dead)
  <2>1. /\ users' \in [Session -> Seq(Op)] /\ \A s \in Session : NoDup(users'[s])
    BY <1>5, <1>b, <1>0 DEF CleanupEnds, RemainingUsers
  <2>2. slots' \in [Session -> [op: Op \cup {NoOp}, depth: Nat]]
    BY <1>5, <1>0 DEF CleanupEnds, FreedSlots, FreeSlot
  <2>3. Sends
    BY <1>5 DEF CleanupEnds, TypeOK, Known, Sends
  <2>4. Goal
    BY <1>5, <1>c, <1>0, <2>1, <2>2 DEF CleanupEnds
  <2> QED BY <2>3, <2>4
<1> QED BY <1>1, <1>2, <1>3, <1>4, <1>5 DEF CleanupTurn

\* The books after a turn of a cleanup, when everything else is kept but tombs.
LEMMA TurnInv ==
    ASSUME TypeInv, NEW o \in Op, NEW left \in SUBSET opened, NEW dead \in SUBSET Session,
           CleanupTurn(o, left, dead),
           status' \in [Op -> Terminal \cup {"none", "running"}],
           tombs' \subseteq opened, pending' \subseteq Calls,
           closed' \in BOOLEAN, closing' \in Op \cup {NoOp},
           inbox' \in Seq(Messages), \A m : InSeq(inbox', m) => InSeq(inbox, m),
           UNCHANGED <<sent, browserVars>>
    PROVE  TypeInv'
<1> DEFINE Turn ==
           /\ used' \in [Op -> SUBSET Session] /\ created' \in [Op -> SUBSET Session]
           /\ reqs' \in [Op -> SUBSET Req] /\ toStop' \in [Op -> SUBSET Session]
           /\ \A p \in Op : used'[p] \cup created'[p] \cup toStop'[p] \subseteq opened
           /\ \A p \in Op : reqs'[p] \subseteq reqs[p]
           /\ cleaning' \in [Op -> {"no", "busy", "done"}]
           /\ awaited' \in [Op -> Commands \cup {NoCommand}]
           /\ \A p \in Op : awaited'[p] # NoCommand => awaited'[p].session \in opened
           /\ users' \in [Session -> Seq(Op)] /\ fetch' \in [Session -> Seq(Op)]
           /\ \A s \in Session : NoDup(users'[s]) /\ NoDup(fetch'[s])
           /\ \A s \in Session, p \in Op : InSeq(fetch'[s], p) => InSeq(fetch[s], p)
           /\ slots' \in [Session -> [op: Op \cup {NoOp}, depth: Nat]]
           /\ pipe' \in Seq(Commands)
           /\ \A c : InSeq(pipe', c) =>
                 InSeq(pipe, c) \/ (c.session \in opened /\ c.kind # "evaluate")
<1>1. Turn
  BY TurnTypes
<1>2. UNCHANGED <<sent, opened, attached, fetchOn, reqAt, held, running, stopped>>
  BY DEF browserVars
<1>3. TypeOK'
  BY <1>1, <1>2 DEF TypeInv, TypeOK
<1>4. Distinct'
  BY <1>1 DEF Distinct
<1>5. Known'
  BY <1>1, <1>2 DEF TypeInv, TypeOK, Known
<1>6. Numbered'
  BY <1>1, <1>2 DEF TypeInv, Numbered
<1> QED BY <1>3, <1>4, <1>5, <1>6 DEF TypeInv

\* A cleanup that goes on after its await keeps the types.
LEMMA ResumeTypes ==
    ASSUME TypeInv, NEW o \in Op, Resume(o),
           inbox' \in Seq(Messages), \A m : InSeq(inbox', m) => InSeq(inbox, m)
    PROVE  TypeInv'
<1> DEFINE dead == IF awaited[o].kind = "detach" THEN tombs \cup {awaited[o].session} ELSE tombs
<1>1. tombs' = dead /\ CleanupTurn(o, toStop[o], dead)
      /\ UNCHANGED <<status, closed, closing, pending, sent, browserVars>>
  BY DEF Resume, connVars
<1>2. awaited[o].kind = "detach" => awaited[o].session \in opened
  BY DEF TypeInv, Known, NoCommand
<1>3. dead \subseteq opened /\ toStop[o] \in SUBSET opened /\ dead \subseteq Session
  BY <1>2 DEF TypeInv, TypeOK, Known
<1> HIDE DEF dead
<1>4. /\ status' \in [Op -> Terminal \cup {"none", "running"}]
      /\ tombs' \subseteq opened /\ pending' \subseteq Calls
      /\ closed' \in BOOLEAN /\ closing' \in Op \cup {NoOp}
  BY <1>1, <1>3 DEF TypeInv, TypeOK
<1> QED BY <1>1, <1>3, <1>4, TurnInv

\* The end of an operation keeps them.
LEMMA FinishTypes ==
    ASSUME TypeInv, NEW o \in Op, NEW outcome \in Terminal, Finish(o, outcome),
           tombs' \subseteq opened, pending' \subseteq Calls,
           closed' \in BOOLEAN, closing' \in Op \cup {NoOp}, UNCHANGED <<sent, inbox, browserVars>>
    PROVE  TypeInv'
<1>1. status' = [status EXCEPT ![o] = outcome] /\ CleanupTurn(o, used[o], tombs)
  BY DEF Finish
<1>2. used[o] \in SUBSET opened /\ tombs \in SUBSET Session
      /\ status' \in [Op -> Terminal \cup {"none", "running"}]
      /\ inbox' \in Seq(Messages) /\ \A m : InSeq(inbox', m) => InSeq(inbox, m)
  BY <1>1 DEF TypeInv, TypeOK, Known
<1> QED BY <1>1, <1>2, TurnInv

\* Each way to end an operation keeps them.
LEMMA EndTypes ==
    ASSUME TypeInv
    PROVE  /\ \A o \in Op, outcome \in Outcomes : End(o, outcome) => TypeInv'
           /\ SocketClose => TypeInv'
           /\ \A o \in Op : FinishNext(o) => TypeInv'
<1>0. tombs \subseteq opened /\ pending \subseteq Calls /\ closed \in BOOLEAN
      /\ closing \in Op \cup {NoOp} /\ "failed" \in Terminal /\ Outcomes \subseteq Terminal
  BY OperationsAssumption DEF TypeInv, TypeOK, Terminal
<1>1. ASSUME NEW o \in Op, NEW outcome \in Outcomes, End(o, outcome) PROVE TypeInv'
  <2>1. Finish(o, outcome) /\ pending' \subseteq Calls
        /\ UNCHANGED <<closed, closing, tombs, sent, inbox, browserVars>>
    BY <1>0, <1>1 DEF End, connVars
  <2> QED BY <1>0, <2>1, FinishTypes
<1>2. ASSUME SocketClose PROVE TypeInv'
  <2>1. closed' = TRUE /\ pending' = {} /\ tombs' = opened /\ UNCHANGED <<sent, inbox, browserVars>>
    BY <1>2 DEF SocketClose
  <2>2. ASSUME NEW o \in Op, Finish(o, "failed") /\ closing' = o PROVE TypeInv'
    BY <1>0, <2>1, <2>2, FinishTypes
  <2>3. CASE UNCHANGED <<opVars, sessVars, closing, pipe>>
    <3>1. TypeOK'
      BY <2>1, <2>3 DEF TypeInv, TypeOK, opVars, sessVars, browserVars
    <3> QED BY <3>1, <2>1, <2>3
            DEF TypeInv, Distinct, Known, Numbered, opVars, sessVars, browserVars
  <2> QED BY <1>2, <2>2, <2>3 DEF SocketClose
<1>3. ASSUME NEW o \in Op, FinishNext(o) PROVE TypeInv'
  <2>1. Finish(o, "failed") /\ closing' = o
        /\ UNCHANGED <<closed, tombs, pending, sent, inbox, browserVars>>
    BY <1>3 DEF FinishNext
  <2> QED BY <1>0, <2>1, FinishTypes
<1> QED BY <1>1, <1>2, <1>3

\* A message that is handled is one of the inbox and leaves it.
LEMMA ReceiveFacts ==
    ASSUME TypeInv, NEW type, Receive(type)
    PROVE  /\ Head(inbox) \in Messages /\ InSeq(inbox, Head(inbox)) /\ Head(inbox).type = type
           /\ inbox' \in Seq(Messages) /\ \A m : InSeq(inbox', m) => InSeq(inbox, m)
  BY TailFacts DEF Receive, TypeInv, TypeOK

\* Messages and expiries keep the types.
LEMMA SupervisorTypes ==
    ASSUME TypeInv
    PROVE  /\ OnMessage => TypeInv'
           /\ \A e \in pending : CallExpires(e) => TypeInv'
           /\ \A o \in Op : CleanupExpires(o) => TypeInv'
<1> USE DEF TypeInv
<1>1. ASSUME ResultArrives PROVE TypeInv'
  <2> DEFINE e == Head(inbox).call
  <2>1. /\ inbox' \in Seq(Messages) /\ \A m : InSeq(inbox', m) => InSeq(inbox, m)
        /\ e \in Calls
    BY <1>1, ReceiveFacts, MessageParts DEF ResultArrives
  <2>2. /\ pending' \subseteq pending
        /\ slots' = slots \/ slots' = ReleasedSlot(slots, e)
        /\ UNCHANGED <<opVars, users, fetch, closed, closing, tombs, sent, pipe, browserVars>>
    BY <1>1 DEF ResultArrives, connVars
  <2>3. slots' \in [Session -> [op: Op \cup {NoOp}, depth: Nat]]
    <3>1. e.session \in Session
      BY <2>1 DEF Calls
    <3>2. slots \in [Session -> [op: Op \cup {NoOp}, depth: Nat]]
      BY DEF TypeOK
    <3> HIDE DEF e
    <3>3. ReleasedSlot(slots, e) \in [Session -> [op: Op \cup {NoOp}, depth: Nat]]
      BY <3>1, <3>2, SlotTypes
    <3> QED BY <3>2, <3>3, <2>2
  <2>4. TypeOK'
    BY <2>1, <2>2, <2>3 DEF TypeOK, opVars, browserVars
  <2> QED BY <2>1, <2>2, <2>4 DEF Distinct, Known, Numbered, opVars, browserVars
<1>2. ASSUME AnswerArrives PROVE TypeInv'
  <2> DEFINE c == Head(inbox).command
  <2>1. /\ inbox' \in Seq(Messages) /\ \A m : InSeq(inbox', m) => InSeq(inbox, m)
        /\ c \in Commands
    BY <1>2, ReceiveFacts, MessageParts DEF AnswerArrives
  <2>2. CASE Waits(c)
    <3>1. Resume(c.op) /\ c.op \in Op
      BY <1>2, <2>1, <2>2, CommandParts DEF AnswerArrives
    <3> QED BY <3>1, <2>1, ResumeTypes
  <2>3. CASE ~Waits(c)
    <3>1. UNCHANGED <<opVars, sessVars, connVars, tombs, pending, sent, pipe, browserVars>>
      BY <1>2, <2>3 DEF AnswerArrives
    <3>2. TypeOK'
      BY <2>1, <3>1 DEF TypeOK, opVars, sessVars, connVars, browserVars
    <3> QED BY <2>1, <3>1, <3>2 DEF Distinct, Known, Numbered, opVars, sessVars, browserVars
  <2> QED BY <2>2, <2>3
<1>3. ASSUME PausedArrives PROVE TypeInv'
  <2> DEFINE r == Head(inbox).req
  <2>1. /\ inbox' \in Seq(Messages) /\ \A m : InSeq(inbox', m) => InSeq(inbox, m)
        /\ r \in Req /\ reqAt[r] \in opened
    BY <1>3, ReceiveFacts, MessageParts DEF PausedArrives, Known
  <2>2. reqs' \in [Op -> SUBSET Req] /\ \A o \in Op : reqs'[o] \subseteq reqs[o] \cup {r}
    BY <1>3, <2>1 DEF PausedArrives, TypeOK
  <2>3. UNCHANGED <<status, used, created, toStop, cleaning, awaited, sessVars, connVars,
                   tombs, pending, sent, pipe, browserVars>>
    BY <1>3 DEF PausedArrives
  <2>4. TypeOK'
    BY <2>1, <2>2, <2>3 DEF TypeOK, sessVars, connVars, browserVars
  <2> QED BY <2>1, <2>2, <2>3, <2>4 DEF Distinct, Known, Numbered, sessVars, browserVars
<1>4. ASSUME DetachedArrives PROVE TypeInv'
  <2>1. /\ inbox' \in Seq(Messages) /\ \A m : InSeq(inbox', m) => InSeq(inbox, m)
        /\ Head(inbox).session \in opened
    BY <1>4, ReceiveFacts DEF DetachedArrives, Known
  <2>2. tombs' = tombs \cup {Head(inbox).session}
        /\ UNCHANGED <<opVars, sessVars, connVars, pending, sent, pipe, browserVars>>
    BY <1>4 DEF DetachedArrives
  <2>3. TypeOK'
    BY <2>1, <2>2 DEF TypeOK, opVars, sessVars, connVars, browserVars
  <2> QED BY <2>1, <2>2, <2>3 DEF Distinct, Known, Numbered, opVars, sessVars, browserVars
<1>5. ASSUME NEW e \in pending, CallExpires(e) PROVE TypeInv'
  <2>1. e \in Calls /\ e.session \in Session
    BY DEF TypeOK, Calls
  <2>2. pending' \subseteq pending /\ slots' = ReleasedSlot(slots, e)
        /\ UNCHANGED <<opVars, users, fetch, connVars, tombs, sent, pipe, inbox, browserVars>>
    BY <1>5 DEF CallExpires
  <2>3. slots' \in [Session -> [op: Op \cup {NoOp}, depth: Nat]]
    BY <2>1, <2>2, SlotTypes DEF TypeOK
  <2>4. TypeOK'
    BY <2>2, <2>3 DEF TypeOK, opVars, connVars, browserVars
  <2> QED BY <2>2, <2>4 DEF Distinct, Known, Numbered, opVars, browserVars
<1>6. ASSUME NEW o \in Op, CleanupExpires(o) PROVE TypeInv'
  <2>1. Resume(o) /\ inbox' \in Seq(Messages) /\ \A m : InSeq(inbox', m) => InSeq(inbox, m)
    BY <1>6 DEF CleanupExpires, TypeOK
  <2> QED BY <2>1, ResumeTypes
<1> QED BY <1>1, <1>2, <1>3, <1>4, <1>5, <1>6 DEF OnMessage

\* The messages the browser adds to the inbox are about sessions it opened.
LEMMA InboxKnown ==
    ASSUME TypeInv, NEW c, NEW msgs \in Seq(Messages), Answered(c, msgs),
           c.cleanup => c \in Commands /\ c.session \in opened,
           \A m : InSeq(msgs, m) =>
             \/ m.type = "result"
             \/ m.type = "detached" /\ m.session \in opened
    PROVE  /\ inbox' \in Seq(Messages)
           /\ \A m \in Messages : InSeq(inbox', m) =>
                /\ m.type = "answer" => m.command.session \in opened
                /\ m.type = "paused" => reqAt[m.req] \in opened
                /\ m.type = "detached" => m.session \in opened
<1>1. inbox' \in Seq(Messages)
      /\ \A m : InSeq(inbox', m) =>
            \/ InSeq(inbox, m) \/ InSeq(msgs, m)
            \/ (c.cleanup /\ m = [type |-> "answer", command |-> c])
  BY AnsweredFacts DEF TypeInv, TypeOK
<1> QED BY <1>1 DEF TypeInv, Known

\* The end of a session keeps them.
LEMMA GoneTypes ==
    ASSUME TypeInv, NEW s \in Session, NEW c, NEW told \in BOOLEAN, Gone(s, c, told),
           told => s \in opened,
           c.cleanup => c \in Commands /\ c.session \in opened
    PROVE  /\ attached' \subseteq opened /\ fetchOn' \subseteq attached' /\ held' \subseteq Req
           /\ running' \subseteq Calls /\ inbox' \in Seq(Messages)
           /\ \A m \in Messages : InSeq(inbox', m) =>
                /\ m.type = "answer" => m.command.session \in opened
                /\ m.type = "paused" => reqAt[m.req] \in opened
                /\ m.type = "detached" => m.session \in opened
           /\ UNCHANGED <<opened, reqAt, stopped>>
<1> DEFINE d == [type |-> "detached", session |-> s]
           msgs == IF told THEN <<d>> ELSE <<>>
<1>1. d \in Messages /\ d.type = "detached" /\ d.session = s
  BY DEF Messages
<1>2. msgs \in Seq(Messages) /\ \A m : InSeq(msgs, m) => told /\ m = d
  <2> HIDE DEF d
  <2>1. CASE told
    BY <2>1, <1>1, OneIn
  <2>2. CASE ~told
    BY <2>2, EmptySeq, NoneIn
  <2> QED BY <2>1, <2>2
<1>3. Answered(c, msgs)
  BY DEF Gone
<1> HIDE DEF d, msgs
<1>4. /\ inbox' \in Seq(Messages)
      /\ \A m \in Messages : InSeq(inbox', m) =>
                /\ m.type = "answer" => m.command.session \in opened
                /\ m.type = "paused" => reqAt[m.req] \in opened
                /\ m.type = "detached" => m.session \in opened
  BY <1>1, <1>2, <1>3, InboxKnown
<1> QED BY <1>4 DEF Gone, TypeInv, TypeOK

\* What the browser does keeps them.
LEMMA BrowserTypes ==
    ASSUME TypeInv
    PROVE  /\ Execute => TypeInv'
           /\ \A s \in Session : SessionVanishes(s) => TypeInv'
           /\ \A s \in Session, r \in Req : Pause(s, r) => TypeInv'
           /\ \A e : CallEnds(e) => TypeInv'
<1> DEFINE MsgsOk(q) ==
             \A m \in Messages : InSeq(q, m) =>
                /\ m.type = "answer" => m.command.session \in opened
                /\ m.type = "paused" => reqAt[m.req] \in opened
                /\ m.type = "detached" => m.session \in opened
<1>0. <<>> \in Seq(Messages) /\ \A m : ~InSeq(<<>>, m)
  BY EmptySeq, NoneIn
<1>1. ASSUME Execute PROVE TypeInv'
  <2> DEFINE c == Head(pipe)
  <2>1. /\ c \in Commands /\ InSeq(pipe, c) /\ pipe' \in Seq(Commands)
        /\ \A x : InSeq(pipe', x) => InSeq(pipe, x)
    BY <1>1, TailFacts DEF Execute, TypeInv, TypeOK
  <2>2. c.session \in opened /\ (c.kind = "evaluate" => CallOf(c) \in Calls /\ ~c.cleanup)
    <3>1. c.kind = "evaluate" => c.id \in 1..MaxCall /\ ~c.cleanup
      BY <2>1, CommandParts, OperationsAssumption DEF TypeInv, TypeOK, Numbered
    <3> QED BY <2>1, <3>1, CommandParts DEF TypeInv, Known, CallOf, Calls
  <2>3. UNCHANGED <<opVars, sessVars, connVars, tombs, pending, sent>>
    BY <1>1 DEF Execute
  <2>4. \/ ExecuteEvaluate(c) \/ ExecuteTerminate(c) \/ ExecuteFetch(c)
        \/ ExecuteRelease(c) \/ ExecuteDetach(c)
    BY <1>1 DEF Execute
  <2>c. c.session \in Session /\ c.op \in Op
    BY <2>1, CommandParts
  <2> HIDE DEF c
  <2> DEFINE Browser ==
        /\ attached' \subseteq opened /\ fetchOn' \subseteq attached' /\ held' \subseteq Req
        /\ running' \subseteq Calls /\ stopped' \subseteq [call: Calls, by: Op]
        /\ inbox' \in Seq(Messages) /\ MsgsOk(inbox')
        /\ UNCHANGED <<opened, reqAt>>
  <2>a. Answered(c, <<>>) => inbox' \in Seq(Messages) /\ MsgsOk(inbox')
    BY <1>0, <2>1, <2>2, InboxKnown
  <2>10. Browser
    <3>1. CASE ExecuteEvaluate(c)
      <4> DEFINE m == [type |-> "result", call |-> CallOf(c)]
      <4>1. m \in Messages /\ m.type = "result"
        BY <2>2, <3>1 DEF ExecuteEvaluate, Messages
      <4>2. inbox' = inbox \/ inbox' = Append(inbox, m)
        BY <3>1 DEF ExecuteEvaluate
      <4> HIDE DEF m
      <4>3. inbox' \in Seq(Messages) /\ \A x : InSeq(inbox', x) => InSeq(inbox, x) \/ x = m
        <5>1. inbox \in Seq(Messages)
          BY DEF TypeInv, TypeOK
        <5>2. /\ Append(inbox, m) \in Seq(Messages)
              /\ \A x : InSeq(Append(inbox, m), x) => InSeq(inbox, x) \/ x = m
          BY <4>1, <5>1, AppendFacts
        <5> QED BY <4>2, <5>1, <5>2
      <4>4. MsgsOk(inbox')
        BY <4>1, <4>3 DEF TypeInv, Known
      <4>5. running' \subseteq Calls
        BY <2>2, <3>1 DEF ExecuteEvaluate, TypeInv, TypeOK
      <4> QED BY <4>3, <4>4, <4>5, <3>1 DEF ExecuteEvaluate, TypeInv, TypeOK
    <3>2. CASE ExecuteTerminate(c)
      BY <3>2, <2>a, <2>c DEF ExecuteTerminate, TypeInv, TypeOK
    <3>3. CASE ExecuteFetch(c)
      BY <3>3, <2>a DEF ExecuteFetch, TypeInv, TypeOK
    <3>4. CASE ExecuteRelease(c)
      BY <3>4, <2>a DEF ExecuteRelease, TypeInv, TypeOK
    <3>5. CASE ExecuteDetach(c)
      <4>1. Gone(c.session, c, c.session \in attached)
        BY <3>5 DEF ExecuteDetach
      <4>2. c.session \in attached => c.session \in opened
        BY DEF TypeInv, TypeOK
      <4>3. /\ attached' \subseteq opened /\ fetchOn' \subseteq attached' /\ held' \subseteq Req
            /\ running' \subseteq Calls /\ inbox' \in Seq(Messages)
            /\ MsgsOk(inbox')
            /\ UNCHANGED <<opened, reqAt, stopped>>
        <5>1. CASE c.session \in attached
          <6>1. Gone(c.session, c, TRUE)
            BY <4>1, <5>1 DEF Gone
          <6> QED BY <6>1, <4>2, <5>1, <2>1, <2>2, <2>c, GoneTypes
        <5>2. CASE c.session \notin attached
          <6>1. Gone(c.session, c, FALSE)
            BY <4>1, <5>2 DEF Gone
          <6> QED BY <6>1, <2>1, <2>2, <2>c, GoneTypes
        <5> QED BY <5>1, <5>2
      <4> QED BY <4>3 DEF TypeInv, TypeOK
    <3> QED BY <2>4, <3>1, <3>2, <3>3, <3>4, <3>5
  <2>11. TypeOK'
    BY <2>1, <2>3, <2>10 DEF TypeInv, TypeOK, opVars, sessVars, connVars
  <2>12. Known'
    BY <2>1, <2>3, <2>10 DEF TypeInv, Known, opVars, sessVars
  <2> QED BY <2>1, <2>3, <2>11, <2>12 DEF TypeInv, Distinct, Numbered, sessVars
<1>2. ASSUME NEW s \in Session, SessionVanishes(s) PROVE TypeInv'
  <2> DEFINE c == [cleanup |-> FALSE]
  <2>1. Gone(s, c, TRUE) /\ s \in opened /\ ~c.cleanup
        /\ UNCHANGED <<opVars, sessVars, connVars, tombs, pending, sent, pipe>>
    BY <1>2 DEF SessionVanishes, TypeInv, TypeOK
  <2> HIDE DEF c
  <2>2. /\ attached' \subseteq opened /\ fetchOn' \subseteq attached' /\ held' \subseteq Req
        /\ running' \subseteq Calls /\ inbox' \in Seq(Messages) /\ MsgsOk(inbox')
        /\ UNCHANGED <<opened, reqAt, stopped>>
    BY <2>1, GoneTypes
  <2>3. TypeOK'
    BY <2>1, <2>2 DEF TypeInv, TypeOK, opVars, sessVars, connVars
  <2>4. Known'
    BY <2>1, <2>2 DEF TypeInv, Known, opVars, sessVars
  <2> QED BY <2>1, <2>3, <2>4 DEF TypeInv, Distinct, Numbered, sessVars
<1>3. ASSUME NEW s \in Session, NEW r \in Req, Pause(s, r) PROVE TypeInv'
  <2> DEFINE m == [type |-> "paused", req |-> r]
  <2>1. m \in Messages /\ m.type = "paused" /\ m.req = r
    BY DEF Messages
  <2> HIDE DEF m
  <2>2. /\ reqAt' = [reqAt EXCEPT ![r] = s] /\ held' = held \cup {r} /\ inbox' = Append(inbox, m)
        /\ UNCHANGED <<opVars, sessVars, connVars, tombs, pending, sent, pipe,
                   opened, attached, fetchOn, running, stopped>>
        /\ reqAt[r] = NoSession /\ s \in opened
    BY <1>3 DEF Pause, m, TypeInv, TypeOK
  <2>3. inbox' \in Seq(Messages) /\ \A x : InSeq(inbox', x) => InSeq(inbox, x) \/ x = m
    BY <2>1, <2>2, AppendFacts DEF TypeInv, TypeOK
  <2>4. TypeOK'
    BY <2>2, <2>3 DEF TypeInv, TypeOK, opVars, sessVars, connVars
  <2>5. \A q \in Req : reqAt'[q] = reqAt[q] \/ (q = r /\ reqAt'[q] = s)
    BY <2>2 DEF TypeInv, TypeOK
  <2>5a. reqAt'[r] = s
    BY <2>2 DEF TypeInv, TypeOK
  <2>6. \A x \in Messages : x.type = "paused" => x.req \in Req
    BY MessageParts
  <2>7. \A o \in Op : reqs[o] \subseteq Req
    BY DEF TypeInv, TypeOK
  <2>8. reqs' = reqs /\ \A o \in Op : \A q \in reqs[o] : reqAt[q] \in opened
    BY <2>2 DEF TypeInv, Known, opVars
  <2>9. \A o \in Op : \A q \in reqs'[o] : reqAt'[q] \in opened
    BY <2>2, <2>5, <2>7, <2>8
  <2>10. \A q \in Req : reqAt'[q] # NoSession => reqAt'[q] \in opened
    BY <2>2, <2>5 DEF TypeInv, Known
  <2>11. \A x \in Messages : InSeq(inbox', x) =>
            /\ x.type = "answer" => x.command.session \in opened
            /\ x.type = "paused" => reqAt'[x.req] \in opened
            /\ x.type = "detached" => x.session \in opened
    BY <2>1, <2>2, <2>3, <2>5, <2>6, <2>5a DEF TypeInv, Known
  <2>12. Known'
    BY <2>2, <2>9, <2>10, <2>11 DEF TypeInv, Known, opVars, sessVars
  <2> QED BY <2>2, <2>4, <2>12 DEF TypeInv, Distinct, Numbered, sessVars
<1>4. ASSUME NEW e, CallEnds(e) PROVE TypeInv'
  <2> DEFINE m == [type |-> "result", call |-> e]
  <2>1. m \in Messages /\ m.type = "result"
    BY <1>4 DEF CallEnds, Messages, TypeInv, TypeOK
  <2> HIDE DEF m
  <2>2. /\ running' \subseteq running /\ stopped' \subseteq stopped
        /\ inbox' = Append(inbox, m)
        /\ UNCHANGED <<opVars, sessVars, connVars, tombs, pending, sent, pipe,
                       opened, attached, fetchOn, reqAt, held>>
    BY <1>4 DEF CallEnds, m
  <2>3. inbox' \in Seq(Messages) /\ \A x : InSeq(inbox', x) => InSeq(inbox, x) \/ x = m
    BY <2>1, <2>2, AppendFacts DEF TypeInv, TypeOK
  <2>4. TypeOK'
    BY <2>2, <2>3 DEF TypeInv, TypeOK, opVars, sessVars, connVars
  <2>5. Known'
    BY <2>1, <2>2, <2>3 DEF TypeInv, Known, opVars, sessVars
  <2> QED BY <2>2, <2>4, <2>5 DEF TypeInv, Distinct, Numbered, sessVars
<1> QED BY <1>1, <1>2, <1>3, <1>4

\* Every step keeps the types.
LEMMA TypeStep == TypeInv /\ [Next]_vars => TypeInv'
<1> SUFFICES ASSUME TypeInv, [Next]_vars PROVE TypeInv'
  OBVIOUS
<1>1. CASE ClientStep
  <2>1. CASE SocketClose
    BY <2>1, EndTypes
  <2>2. ASSUME NEW o \in Op, Begin(o) PROVE TypeInv'
    <3>1. UNCHANGED <<used, created, reqs, toStop, cleaning, awaited, users, fetch, slots,
                    closed, closing, tombs, pending, sent, pipe, inbox, opened, attached,
                    fetchOn, reqAt, held, running, stopped>>
      BY <2>2 DEF Begin, sessVars, connVars, browserVars
    <3>2. TypeOK'
      BY <2>2, <3>1 DEF Begin, TypeInv, TypeOK
    <3> QED BY <3>1, <3>2 DEF TypeInv, Distinct, Known, Numbered
  <2>3. ASSUME NEW o \in Op, NEW s \in Session,
               \/ Attach(o, s) \/ Evaluate(o, s) \/ EvaluateSendFails(o, s)
               \/ Terminate(o, s) \/ EnableFetch(o, s) \/ DisableFetch(o, s)
        PROVE  TypeInv'
    BY <2>3, ClientTypes
  <2>4. ASSUME NEW o \in Op, NEW r \in Req, ReleaseRequest(o, r) PROVE TypeInv'
    BY <2>4, ReleaseTypes
  <2>5. ASSUME NEW o \in Op, NEW outcome \in Outcomes, End(o, outcome) PROVE TypeInv'
    BY <2>5, EndTypes
  <2> QED BY <1>1, <2>1, <2>2, <2>3, <2>4, <2>5 DEF ClientStep
<1>2. CASE SupervisorStep
  BY <1>2, SupervisorTypes, EndTypes DEF SupervisorStep
<1>3. CASE BrowserStep
  BY <1>3, BrowserTypes DEF BrowserStep
<1>4. CASE UNCHANGED vars
  <2>1. TypeOK'
    BY <1>4 DEF TypeInv, TypeOK, vars, opVars, sessVars, connVars, browserVars
  <2> QED BY <1>4, <2>1 DEF TypeInv, Distinct, Known, Numbered, vars, opVars, sessVars, browserVars
<1> QED BY <1>1, <1>2, <1>3, <1>4 DEF Next

-----------------------------------------------------------------------------
(* Who owns what *)

\* Initially nobody owns anything.
LEMMA OwnedInit == Init => Owned
  BY NoneIn, OperationsAssumption DEF Init, Owned, OwnsNothing, Running, FreeSlot

\* The users of a session and the sessions of an operation stay in step.
LEMMA UseOwned ==
    ASSUME TypeInv, Owned, NEW o \in Op, NEW s \in Session, UseSession(o, s)
    PROVE  /\ \A p \in Op : used[p] \subseteq used'[p] /\ (p # o => used'[p] = used[p])
           /\ s \in used'[o]
           /\ \A x \in Session, p \in Op : InSeq(users'[x], p) => InSeq(users[x], p) \/ p = o
           /\ \A x \in Session, p \in Op : InSeq(users'[x], p) => x \in used'[p]
<1>1. /\ users \in [Session -> Seq(Op)] /\ used \in [Op -> SUBSET Session] /\ NoDup(users[s])
      /\ \A x \in Session, p \in Op : InSeq(users[x], p) => x \in used[p]
  BY DEF TypeInv, TypeOK, Distinct, Owned
<1>2. used' = [used EXCEPT ![o] = @ \cup {s}] /\ users' = [users EXCEPT ![s] = Append(Without(@, o), o)]
  BY DEF UseSession
<1> DEFINE q == Append(Without(users[s], o), o)
<1>3. \A p : InSeq(q, p) => InSeq(users[s], p) \/ p = o
  BY <1>1, WithoutFacts, AppendFacts
<1> HIDE DEF q
<1>4. \A x \in Session : users'[x] = IF x = s THEN q ELSE users[x]
  BY <1>1, <1>2 DEF q
<1> QED BY <1>1, <1>2, <1>3, <1>4

\* Who has a slot after it is taken or given back.
LEMMA SlotOwners ==
    ASSUME TypeInv
    PROVE  /\ \A o \in Op, s, x \in Session :
                TakenSlot(o, s)[x].op = IF x = s THEN o ELSE slots[x].op
           /\ \A f \in [Session -> [op: Op \cup {NoOp}, depth: Nat]], x \in Session : \A e :
                e.session \in Session =>
                   \/ ReleasedSlot(f, e)[x].op = f[x].op
                   \/ (ReleasedSlot(f, e)[x].op = NoOp /\ x = e.session)
<1>1. slots \in [Session -> [op: Op \cup {NoOp}, depth: Nat]]
  BY DEF TypeInv, TypeOK
<1>2. ASSUME NEW o \in Op, NEW s \in Session, NEW x \in Session
      PROVE TakenSlot(o, s)[x].op = IF x = s THEN o ELSE slots[x].op
  BY <1>1 DEF TakenSlot
<1>3. ASSUME NEW f \in [Session -> [op: Op \cup {NoOp}, depth: Nat]], NEW x \in Session,
             NEW e, e.session \in Session
      PROVE  \/ ReleasedSlot(f, e)[x].op = f[x].op
             \/ (ReleasedSlot(f, e)[x].op = NoOp /\ x = e.session)
  <2>1. [f[e.session] EXCEPT !.depth = @ - 1].op = f[e.session].op
    <3>1. f[e.session] \in [op: Op \cup {NoOp}, depth: Nat]
      BY <1>3
    <3> QED BY <3>1
  <2> QED BY <1>3, <2>1 DEF ReleasedSlot, FreeSlot
<1> QED BY <1>2, <1>3

\* What a turn of the cleanup of o does to the books: nothing is added to
\* them, and after the last turn o owns nothing.
LEMMA TurnOwned ==
    ASSUME TypeInv, Owned, NEW o \in Op, NEW left \in SUBSET opened,
           NEW dead \in SUBSET Session,
           CleanupTurn(o, left, dead)
    PROVE  /\ \A p \in Op \ {o} :
                /\ cleaning'[p] = cleaning[p] /\ awaited'[p] = awaited[p] /\ reqs'[p] = reqs[p]
                /\ used'[p] = used[p] /\ created'[p] = created[p] /\ toStop'[p] = toStop[p]
           /\ \/ cleaning'[o] = "busy" /\ awaited'[o] # NoCommand /\ used'[o] = used[o]
              \/ cleaning'[o] = "done" /\ awaited'[o] = NoCommand
           /\ \A s \in Session : slots'[s].op = slots[s].op \/ (slots[s].op = o /\ slots'[s].op = NoOp)
           /\ \A s \in Session, p \in Op : InSeq(fetch'[s], p) => InSeq(fetch[s], p)
           /\ \A s \in Session, p \in Op :
                 InSeq(users'[s], p) => InSeq(users[s], p) /\ s \in used'[p]
           /\ cleaning'[o] = "done" =>
                /\ reqs'[o] = {} /\ used'[o] = {} /\ created'[o] = {} /\ toStop'[o] = {}
                /\ \A s \in Session :
                      slots'[s].op # o /\ ~InSeq(fetch'[s], o) /\ ~InSeq(users'[s], o)
<1> DEFINE Others == \A p \in Op \ {o} :
                /\ cleaning'[p] = cleaning[p] /\ awaited'[p] = awaited[p] /\ reqs'[p] = reqs[p]
                /\ used'[p] = used[p] /\ created'[p] = created[p] /\ toStop'[p] = toStop[p]
           Fetches == \A s \in Session, p \in Op : InSeq(fetch'[s], p) => InSeq(fetch[s], p)
<1>0. /\ used \in [Op -> SUBSET Session] /\ created \in [Op -> SUBSET Session]
      /\ reqs \in [Op -> SUBSET Req] /\ toStop \in [Op -> SUBSET Session]
      /\ cleaning \in [Op -> {"no", "busy", "done"}]
      /\ awaited \in [Op -> Commands \cup {NoCommand}]
      /\ users \in [Session -> Seq(Op)] /\ fetch \in [Session -> Seq(Op)]
      /\ slots \in [Session -> [op: Op \cup {NoOp}, depth: Nat]]
      /\ \A s \in Session : NoDup(users[s]) /\ NoDup(fetch[s])
      /\ opened \subseteq Session /\ used[o] \subseteq opened /\ created[o] \subseteq opened
      /\ \A s \in Session, p \in Op : InSeq(users[s], p) => s \in used[p]
  BY DEF TypeInv, TypeOK, Known, Distinct, Owned
<1>1. Fetches
  BY TurnTypes
<1>2. \A s \in Session : /\ \A y : InSeq(Without(users[s], o), y) <=> InSeq(users[s], y) /\ y # o
                         /\ \A y : InSeq(Without(fetch[s], o), y) <=> InSeq(fetch[s], y) /\ y # o
  BY <1>0, WithoutFacts
<1> HIDE DEF Fetches
<1>3. ASSUME NEW kind \in {"terminate", "disable", "release", "detach"}, NEW s \in Session,
             NEW r \in Req \cup {NoReq}, Await(o, CleanupCommand(kind, o, s, r))
      PROVE  /\ \A p \in Op \ {o} : cleaning'[p] = cleaning[p] /\ awaited'[p] = awaited[p]
             /\ cleaning'[o] = "busy" /\ awaited'[o] # NoCommand
             /\ used' = used /\ users' = users /\ slots' = slots
  <2> DEFINE c == CleanupCommand(kind, o, s, r)
  <2>1. c # NoCommand
    BY CommandType, CommandParts
  <2>2. Await(o, c)
    BY <1>3
  <2> HIDE DEF c
  <2> QED BY <2>1, <2>2, <1>0 DEF Await
<1>4. ASSUME \/ FailOne(o, left, dead) \/ StopOne(o, left, dead)
             \/ DisableOne(o, left, dead) \/ DetachOne(o, left, dead)
      PROVE  /\ Others /\ cleaning'[o] = "busy" /\ awaited'[o] # NoCommand
             /\ used' = used /\ users' = users /\ slots' = slots
  <2>1. CASE FailOne(o, left, dead)
    <3>1. PICK r \in Failable(o, dead) :
            /\ Await(o, CleanupCommand("release", o, reqAt[r], r))
            /\ reqs' = [reqs EXCEPT ![o] = @ \ {r}]
            /\ toStop' = [toStop EXCEPT ![o] = left]
            /\ UNCHANGED <<created, fetch>>
      BY <2>1 DEF FailOne
    <3>2. r \in Req /\ reqAt[r] \in Session
      BY <1>0 DEF Failable, Known, TypeInv
    <3>3. /\ \A p \in Op \ {o} : cleaning'[p] = cleaning[p] /\ awaited'[p] = awaited[p]
          /\ cleaning'[o] = "busy" /\ awaited'[o] # NoCommand
          /\ used' = used /\ users' = users /\ slots' = slots
      BY <3>1, <3>2, <1>3
    <3> QED BY <3>1, <3>3, <1>0
  <2>2. CASE StopOne(o, left, dead)
    <3>1. PICK s \in Stoppable(o, left, dead), K \in SUBSET (left \ Stoppable(o, left, dead)) :
            /\ Await(o, CleanupCommand("terminate", o, s, NoReq))
            /\ toStop' = [toStop EXCEPT ![o] = left \ (K \cup {s})]
      BY <2>2 DEF StopOne
    <3>2. s \in Session
      BY <1>0 DEF Stoppable
    <3>3. /\ \A p \in Op \ {o} : cleaning'[p] = cleaning[p] /\ awaited'[p] = awaited[p]
          /\ cleaning'[o] = "busy" /\ awaited'[o] # NoCommand
          /\ used' = used /\ users' = users /\ slots' = slots
      BY <3>1, <3>2, <1>3
    <3> QED BY <2>2, <3>1, <3>3, <1>0 DEF StopOne
  <2>3. CASE DisableOne(o, left, dead)
    <3>1. PICK s \in Disableable(o, dead) : Await(o, CleanupCommand("disable", o, s, NoReq))
      BY <2>3 DEF DisableOne
    <3>2. s \in Session
      BY DEF Disableable, HeldBy
    <3>3. /\ \A p \in Op \ {o} : cleaning'[p] = cleaning[p] /\ awaited'[p] = awaited[p]
          /\ cleaning'[o] = "busy" /\ awaited'[o] # NoCommand
          /\ used' = used /\ users' = users /\ slots' = slots
      BY <3>1, <3>2, <1>3
    <3> QED BY <2>3, <3>3, <1>0 DEF DisableOne
  <2>4. CASE DetachOne(o, left, dead)
    <3>1. PICK s \in Detachable(o, dead), K \in SUBSET (created[o] \ Detachable(o, dead)) :
            /\ Await(o, CleanupCommand("detach", o, s, NoReq))
            /\ created' = [created EXCEPT ![o] = @ \ (K \cup {s})]
      BY <2>4 DEF DetachOne
    <3>2. s \in Session
      BY <1>0 DEF Detachable
    <3>3. /\ \A p \in Op \ {o} : cleaning'[p] = cleaning[p] /\ awaited'[p] = awaited[p]
          /\ cleaning'[o] = "busy" /\ awaited'[o] # NoCommand
          /\ used' = used /\ users' = users /\ slots' = slots
      BY <3>1, <3>2, <1>3
    <3> QED BY <2>4, <3>1, <3>3, <1>0 DEF DetachOne
  <2> QED BY <1>4, <2>1, <2>2, <2>3, <2>4
<1>5. ASSUME CleanupEnds(o, left, dead)
      PROVE  /\ Others /\ cleaning'[o] = "done" /\ awaited'[o] = NoCommand
             /\ reqs'[o] = {} /\ used'[o] = {} /\ created'[o] = {} /\ toStop'[o] = {}
             /\ \A s \in Session : /\ slots'[s].op = IF slots[s].op = o THEN NoOp ELSE slots[s].op
                                   /\ ~InSeq(fetch'[s], o) /\ ~InSeq(users'[s], o)
                                   /\ \A p \in Op : InSeq(users'[s], p) => InSeq(users[s], p)
  <2>1. /\ Others /\ cleaning'[o] = "done" /\ awaited'[o] = NoCommand
        /\ reqs'[o] = {} /\ used'[o] = {} /\ created'[o] = {} /\ toStop'[o] = {}
    BY <1>5, <1>0 DEF CleanupEnds
  <2>2. \A s \in Session : slots'[s].op = IF slots[s].op = o THEN NoOp ELSE slots[s].op
    BY <1>5 DEF CleanupEnds, FreedSlots, FreeSlot
  <2>3. \A s \in Session : ~InSeq(fetch'[s], o)
    BY <1>5, <1>2 DEF CleanupEnds, DropFetchOf
  <2>4. \A s \in Session : users'[s] = IF s \in used[o] THEN Without(users[s], o) ELSE users[s]
    BY <1>5 DEF CleanupEnds, RemainingUsers
  <2>5. \A s \in Session : /\ ~InSeq(users'[s], o)
                           /\ \A p \in Op : InSeq(users'[s], p) => InSeq(users[s], p)
    BY <2>4, <1>2, <1>0
  <2> QED BY <2>1, <2>2, <2>3, <2>5
<1>6. CASE \/ FailOne(o, left, dead) \/ StopOne(o, left, dead)
           \/ DisableOne(o, left, dead) \/ DetachOne(o, left, dead)
  BY <1>4, <1>6, <1>1, <1>0 DEF Fetches
<1>7. CASE CleanupEnds(o, left, dead)
  <2> HIDE DEF Others
  <2>1. /\ Others /\ cleaning'[o] = "done" /\ awaited'[o] = NoCommand
        /\ reqs'[o] = {} /\ used'[o] = {} /\ created'[o] = {} /\ toStop'[o] = {}
        /\ \A s \in Session : /\ slots'[s].op = IF slots[s].op = o THEN NoOp ELSE slots[s].op
                              /\ ~InSeq(fetch'[s], o) /\ ~InSeq(users'[s], o)
                              /\ \A p \in Op : InSeq(users'[s], p) => InSeq(users[s], p)
    BY <1>5, <1>7
  <2>2. \A s \in Session, p \in Op : InSeq(users'[s], p) => s \in used'[p]
    BY <2>1, <1>0 DEF Others
  <2>3. \A s \in Session : slots'[s].op # o
    BY <2>1, OperationsAssumption
  <2> QED BY <2>1, <2>2, <2>3, <1>1 DEF Others, Fetches
<1> QED BY <1>6, <1>7 DEF CleanupTurn

\* The end of a turn of o, by finish or by an answer: its calls are rejected.
LEMMA TurnKeepsOwned ==
    ASSUME TypeInv, Owned, NEW o \in Op, NEW left \in SUBSET opened,
           NEW dead \in SUBSET Session,
           CleanupTurn(o, left, dead), status[o] # "none", cleaning[o] # "done",
           \A p \in Op \ {o} : status'[p] = status[p],
           status'[o] \in Terminal,
           pending' \subseteq pending, \A e \in pending' : e.op # o /\ ~closed'
    PROVE  Owned'
<1> DEFINE Turn ==
      /\ \A p \in Op \ {o} :
           /\ cleaning'[p] = cleaning[p] /\ awaited'[p] = awaited[p] /\ reqs'[p] = reqs[p]
           /\ used'[p] = used[p] /\ created'[p] = created[p] /\ toStop'[p] = toStop[p]
      /\ \/ cleaning'[o] = "busy" /\ awaited'[o] # NoCommand /\ used'[o] = used[o]
         \/ cleaning'[o] = "done" /\ awaited'[o] = NoCommand
      /\ \A s \in Session : slots'[s].op = slots[s].op \/ (slots[s].op = o /\ slots'[s].op = NoOp)
      /\ \A s \in Session, p \in Op : InSeq(fetch'[s], p) => InSeq(fetch[s], p)
      /\ \A s \in Session, p \in Op :
            InSeq(users'[s], p) => InSeq(users[s], p) /\ s \in used'[p]
      /\ cleaning'[o] = "done" =>
           /\ reqs'[o] = {} /\ used'[o] = {} /\ created'[o] = {} /\ toStop'[o] = {}
           /\ \A s \in Session :
                 slots'[s].op # o /\ ~InSeq(fetch'[s], o) /\ ~InSeq(users'[s], o)
<1>1. Turn
  BY TurnOwned
<1>2. \A e \in pending : e.op \in Op /\ e.session \in Session
  BY DEF TypeInv, TypeOK, Calls
<1>3. \A p \in Op : status'[p] = "none" \/ cleaning'[p] = "done" => OwnsNothing(p)'
  <2> SUFFICES ASSUME NEW p \in Op, status'[p] = "none" \/ cleaning'[p] = "done"
               PROVE  OwnsNothing(p)'
    OBVIOUS
  <2>1. CASE p = o
    BY <2>1, <1>1 DEF OwnsNothing, Terminal
  <2>2. CASE p # o
    <3>1. OwnsNothing(p)
      BY <2>2, <1>1 DEF Owned
    <3> QED BY <3>1, <2>2, <1>1, OperationsAssumption DEF OwnsNothing
  <2> QED BY <2>1, <2>2
<1>4. \A e \in pending' : Running(e.op)' /\ ~closed' /\ e.session \in used'[e.op]
  BY <1>1, <1>2 DEF Owned, Running
<1>5. \A p \in Op : /\ cleaning'[p] = "no" <=> status'[p] \in {"none", "running"}
                    /\ cleaning'[p] = "busy" <=> awaited'[p] # NoCommand
  BY <1>1 DEF Owned, Terminal
<1> QED BY <1>1, <1>3, <1>4, <1>5 DEF Owned

\* A client's command on s is the business of a running operation.
LEMMA UseKeepsOwned ==
    ASSUME TypeInv, Owned, NEW o \in Op, NEW s \in Session, UseSession(o, s),
           Running(o), ~closed,
           UNCHANGED <<status, reqs, toStop, cleaning, awaited, closed>>,
           \A p \in Op \ {o} : created'[p] = created[p],
           \A x \in Session : slots'[x].op \in {slots[x].op, o, NoOp},
           \A x \in Session, p \in Op : InSeq(fetch'[x], p) => InSeq(fetch[x], p) \/ p = o,
           \A e \in pending' : e \in pending \/ (e.op = o /\ e.session = s)
    PROVE  Owned'
<1>1. /\ \A p \in Op : used[p] \subseteq used'[p] /\ (p # o => used'[p] = used[p])
      /\ s \in used'[o]
      /\ \A x \in Session, p \in Op : InSeq(users'[x], p) => InSeq(users[x], p) \/ p = o
      /\ \A x \in Session, p \in Op : InSeq(users'[x], p) => x \in used'[p]
  BY UseOwned
<1>2. \A e \in pending : e.op \in Op
  BY DEF TypeInv, TypeOK, Calls
<1>3. status[o] = "running" /\ cleaning[o] = "no"
  BY DEF Running, Owned
<1>4. ASSUME NEW p \in Op, status[p] = "none" \/ cleaning[p] = "done" PROVE OwnsNothing(p)'
  <2>1. p # o /\ OwnsNothing(p) /\ p # NoOp
    BY <1>3, <1>4, OperationsAssumption DEF Owned
  <2> QED BY <2>1, <1>1, <1>4 DEF OwnsNothing
<1>5. \A e \in pending' : Running(e.op)' /\ ~closed' /\ e.session \in used'[e.op]
  BY <1>1, <1>2 DEF Owned, Running
<1> QED BY <1>1, <1>4, <1>5 DEF Owned

\* What clients do keeps track of who owns what.
LEMMA ClientOwned ==
    ASSUME TypeInv, Owned
    PROVE  /\ \A o \in Op : Begin(o) => Owned'
           /\ \A o \in Op, s \in Session :
                (\/ Attach(o, s) \/ Evaluate(o, s) \/ EvaluateSendFails(o, s)
                 \/ Terminate(o, s) \/ EnableFetch(o, s) \/ DisableFetch(o, s)) => Owned'
           /\ \A o \in Op, r \in Req : ReleaseRequest(o, r) => Owned'
<1>0. /\ opened \subseteq Session /\ created \in [Op -> SUBSET Session]
      /\ slots \in [Session -> [op: Op \cup {NoOp}, depth: Nat]]
      /\ fetch \in [Session -> Seq(Op)]
      /\ status \in [Op -> Terminal \cup {"none", "running"}]
  BY DEF TypeInv, TypeOK
<1>1. ASSUME NEW o \in Op, Begin(o) PROVE Owned'
  <2>1. /\ status[o] = "none" /\ status' = [status EXCEPT ![o] = "running"]
        /\ UNCHANGED <<used, created, reqs, toStop, cleaning, awaited, users, fetch, slots,
                       closed, pending>>
    BY <1>1 DEF Begin, sessVars, connVars
  <2>2. \A p \in Op : status'[p] = IF p = o THEN "running" ELSE status[p]
    BY <2>1, <1>0
  <2>3. \A p \in Op : OwnsNothing(p) => OwnsNothing(p)'
    BY <2>1 DEF OwnsNothing
  <2>4. \A e \in pending : e.op \in Op /\ (Running(e.op) => Running(e.op)')
    BY <2>2 DEF Running, TypeInv, TypeOK, Calls
  <2> QED BY <2>1, <2>2, <2>3, <2>4 DEF Owned
<1>2. ASSUME NEW o \in Op, NEW s \in Session, Attach(o, s) PROVE Owned'
  <2>1. /\ Running(o) /\ ~closed /\ opened' = opened \cup {s}
        /\ created' = [created EXCEPT ![o] = @ \cup {s}] /\ UseSession(o, s)
        /\ UNCHANGED <<status, reqs, toStop, cleaning, awaited, fetch, slots, closed, pending>>
    BY <1>2 DEF Attach, connVars
  <2>2. \A p \in Op \ {o} : created'[p] = created[p]
    BY <2>1, <1>0
  <2> QED BY <2>1, <2>2, <1>0, UseKeepsOwned
<1>3. ASSUME NEW o \in Op, NEW s \in Session, NEW c, ClientSends(o, s, c)
      PROVE  /\ UseSession(o, s) /\ Running(o) /\ ~closed
             /\ UNCHANGED <<status, reqs, created, toStop, cleaning, awaited, closed>>
  BY <1>3 DEF ClientSends, connVars
<1>4. ASSUME NEW o \in Op, NEW s \in Session, Evaluate(o, s) PROVE Owned'
  <2> DEFINE c == ClientCommand("evaluate", o, s, NoReq)
  <2>1. /\ slots' = TakenSlot(o, s) /\ pending' = pending \cup {CallOf(c)} /\ fetch' = fetch
        /\ ClientSends(o, s, c)
    BY <1>4 DEF Evaluate
  <2>2. CallOf(c).op = o /\ CallOf(c).session = s
    BY DEF CallOf, ClientCommand
  <2> HIDE DEF c
  <2>3. \A x \in Session : slots'[x].op \in {slots[x].op, o, NoOp}
    BY <2>1, SlotOwners
  <2>4. \A e \in pending' : e \in pending \/ (e.op = o /\ e.session = s)
    BY <2>1, <2>2
  <2>5. /\ UseSession(o, s) /\ Running(o) /\ ~closed
        /\ UNCHANGED <<status, reqs, created, toStop, cleaning, awaited, closed>>
    BY <2>1, <1>3
  <2> QED BY <2>1, <2>3, <2>4, <2>5, UseKeepsOwned
<1>5. ASSUME NEW o \in Op, NEW s \in Session, EvaluateSendFails(o, s) PROVE Owned'
  <2> DEFINE e == [op |-> o, session |-> s]
  <2>1. /\ UseSession(o, s) /\ Running(o) /\ ~closed /\ slots' = ReleasedSlot(TakenSlot(o, s), e)
        /\ UNCHANGED <<status, reqs, created, toStop, cleaning, awaited, closed, fetch, pending>>
    BY <1>5 DEF EvaluateSendFails, connVars
  <2>2. \A x \in Session : TakenSlot(o, s)[x].op \in {slots[x].op, o}
    BY SlotOwners
  <2>3. TakenSlot(o, s) \in [Session -> [op: Op \cup {NoOp}, depth: Nat]] /\ e.session \in Session
    BY SlotTypes
  <2> HIDE DEF e
  <2>4. \A x \in Session : slots'[x].op \in {TakenSlot(o, s)[x].op, NoOp}
    BY <2>1, <2>3, SlotOwners
  <2> QED BY <2>1, <2>2, <2>4, UseKeepsOwned
<1>6. ASSUME NEW o \in Op, NEW s \in Session, Terminate(o, s) PROVE Owned'
  <2>1. /\ UseSession(o, s) /\ Running(o) /\ ~closed
        /\ UNCHANGED <<status, reqs, created, toStop, cleaning, awaited, closed>>
    BY <1>3, <1>6 DEF Terminate
  <2> QED BY <1>6, <2>1, UseKeepsOwned DEF Terminate
<1>7. ASSUME NEW o \in Op, NEW s \in Session, EnableFetch(o, s) PROVE Owned'
  <2>1. /\ UseSession(o, s) /\ Running(o) /\ ~closed
        /\ UNCHANGED <<status, reqs, created, toStop, cleaning, awaited, closed>>
    BY <1>3, <1>7 DEF EnableFetch
  <2>2. \A p : InSeq(Append(fetch[s], o), p) => InSeq(fetch[s], p) \/ p = o
    BY <1>0, AppendFacts
  <2>3. \A x \in Session, p \in Op : InSeq(fetch'[x], p) => InSeq(fetch[x], p) \/ p = o
    BY <1>0, <1>7, <2>2 DEF EnableFetch
  <2> QED BY <1>7, <2>1, <2>3, UseKeepsOwned DEF EnableFetch
<1>8. ASSUME NEW o \in Op, NEW s \in Session, DisableFetch(o, s) PROVE Owned'
  <2>1. /\ UseSession(o, s) /\ Running(o) /\ ~closed
        /\ UNCHANGED <<status, reqs, created, toStop, cleaning, awaited, closed>>
    BY <1>3, <1>8 DEF DisableFetch
  <2>3. \A x \in Session, p \in Op : InSeq(fetch'[x], p) => InSeq(fetch[x], p) \/ p = o
    BY <1>0, <1>8, NoneIn DEF DisableFetch
  <2> QED BY <1>8, <2>1, <2>3, UseKeepsOwned DEF DisableFetch
<1>9. ASSUME NEW o \in Op, NEW r \in Req, ReleaseRequest(o, r) PROVE Owned'
  <2>0. reqAt[r] \in Session
    BY <1>0, <1>9 DEF ReleaseRequest, TypeInv, Known
  <2>1. /\ UseSession(o, reqAt[r]) /\ Running(o) /\ ~closed
        /\ UNCHANGED <<status, reqs, created, toStop, cleaning, awaited, closed>>
    BY <2>0, <1>3, <1>9 DEF ReleaseRequest
  <2> QED BY <1>9, <2>0, <2>1, UseKeepsOwned DEF ReleaseRequest
<1> QED BY <1>1, <1>2, <1>4, <1>5, <1>6, <1>7, <1>8, <1>9

\* An end leaves nothing pending, and nothing owned if its cleanup needs no await.
LEMMA EndOwned ==
    ASSUME TypeInv, Owned
    PROVE  /\ \A o \in Op, outcome \in Outcomes : End(o, outcome) => Owned'
           /\ SocketClose => Owned'
           /\ \A o \in Op : FinishNext(o) => Owned'
<1>0. /\ Outcomes \subseteq Terminal /\ "failed" \in Terminal
      /\ status \in [Op -> Terminal \cup {"none", "running"}]
      /\ tombs \in SUBSET Session /\ \A o \in Op : used[o] \in SUBSET opened
  BY OperationsAssumption DEF TypeInv, TypeOK, Known, Terminal
<1>1. ASSUME NEW o \in Op, NEW outcome \in Terminal, Finish(o, outcome),
             pending' \subseteq pending, \A e \in pending' : e.op # o /\ ~closed'
      PROVE  Owned'
  <2>1. /\ Running(o) /\ status' = [status EXCEPT ![o] = outcome]
        /\ CleanupTurn(o, used[o], tombs)
    BY <1>1 DEF Finish, MayEnd
  <2>2. status[o] # "none" /\ cleaning[o] # "done" /\ status'[o] \in Terminal
        /\ \A p \in Op \ {o} : status'[p] = status[p]
    BY <2>1, <1>0 DEF Running, Owned
  <2> QED BY <2>1, <2>2, <1>0, <1>1, TurnKeepsOwned
<1>2. ASSUME NEW o \in Op, NEW outcome \in Outcomes, End(o, outcome) PROVE Owned'
  <2>1. /\ Finish(o, outcome) /\ pending' = {e \in pending : e.op # o} /\ closed' = closed
    BY <1>2 DEF End, connVars
  <2> QED BY <2>1, <1>0, <1>1 DEF Owned
<1>3. ASSUME SocketClose PROVE Owned'
  <2>1. pending' = {}
    BY <1>3 DEF SocketClose
  <2>2. ASSUME NEW o \in Op, Finish(o, "failed") PROVE Owned'
    BY <2>1, <2>2, <1>0, <1>1
  <2>3. CASE UNCHANGED <<opVars, sessVars, closing, pipe>>
    BY <2>1, <2>3 DEF Owned, OwnsNothing, opVars, sessVars
  <2> QED BY <1>3, <2>2, <2>3 DEF SocketClose
<1>4. ASSUME NEW o \in Op, FinishNext(o) PROVE Owned'
  <2>1. closed /\ Finish(o, "failed") /\ pending' = pending
    BY <1>4 DEF FinishNext
  <2>2. pending = {}
    BY <2>1 DEF Owned
  <2> QED BY <2>1, <2>2, <1>0, <1>1
<1> QED BY <1>2, <1>3, <1>4

\* A cleanup that goes on owns less, and nothing when it is done.
LEMMA ResumeOwned ==
    ASSUME TypeInv, Owned, NEW o \in Op, cleaning[o] = "busy", Resume(o)
    PROVE  Owned'
<1> DEFINE dead == IF awaited[o].kind = "detach" THEN tombs \cup {awaited[o].session} ELSE tombs
<1>1. CleanupTurn(o, toStop[o], dead) /\ UNCHANGED <<status, closed, pending>>
  BY DEF Resume, connVars
<1>2. dead \in SUBSET Session /\ toStop[o] \in SUBSET opened
  BY DEF TypeInv, TypeOK, Known, NoCommand
<1>3. status[o] \in Terminal /\ \A e \in pending : e.op # o /\ ~closed
  <2>1. status[o] \in Terminal \cup {"none", "running"}
    BY DEF TypeInv, TypeOK
  <2> QED BY <2>1 DEF Owned, Running
<1> HIDE DEF dead
<1> QED BY <1>1, <1>2, <1>3, TurnKeepsOwned DEF Terminal

\* A paused request goes to a running operation or to the last user.
LEMMA PauseOwners ==
    ASSUME TypeInv, Owned, NEW s \in Session, NEW o \in PauseOwner(s)
    PROVE  o \in LastUser(s) \/ Running(o)
  BY DEF PauseOwner

\* No late event or answer books anything on an operation that is clean.
LEMMA SupervisorOwned ==
    ASSUME TypeInv, Owned
    PROVE  /\ OnMessage => Owned'
           /\ \A e \in pending : CallExpires(e) => Owned'
           /\ \A o \in Op : CleanupExpires(o) => Owned'
<1>0. /\ opened \subseteq Session /\ reqs \in [Op -> SUBSET Req]
      /\ slots \in [Session -> [op: Op \cup {NoOp}, depth: Nat]]
  BY DEF TypeInv, TypeOK
<1>1. ASSUME NEW e \in pending, pending' = pending \ {e}, slots' = ReleasedSlot(slots, e),
             UNCHANGED <<opVars, users, fetch, closed>>
      PROVE  Owned'
  <2>1. e.session \in Session
    BY DEF TypeInv, TypeOK, Calls
  <2>2. \A x \in Session : slots'[x].op \in {slots[x].op, NoOp}
    BY <2>1, <1>0, <1>1, SlotOwners
  <2>3. \A p \in Op : OwnsNothing(p) => OwnsNothing(p)'
    BY <2>2, <1>1, OperationsAssumption DEF OwnsNothing, opVars
  <2> QED BY <2>3, <1>1 DEF Owned, opVars, Running
<1>2. ASSUME ResultArrives PROVE Owned'
  <2>1. CASE Head(inbox).call \in pending
    BY <2>1, <1>1, <1>2 DEF ResultArrives, connVars
  <2>2. CASE Head(inbox).call \notin pending
    BY <2>2, <1>2 DEF ResultArrives, connVars, Owned, OwnsNothing, opVars, Running
  <2> QED BY <2>1, <2>2
<1>3. ASSUME AnswerArrives PROVE Owned'
  <2> DEFINE c == Head(inbox).command
  <2>1. c \in Commands /\ c.op \in Op /\ c # NoCommand
    BY <1>3, ReceiveFacts, MessageParts, CommandParts DEF AnswerArrives
  <2>2. CASE Waits(c)
    <3>1. Resume(c.op) /\ awaited[c.op] # NoCommand
      BY <1>3, <2>1, <2>2 DEF AnswerArrives, Waits
    <3> QED BY <3>1, <2>1, ResumeOwned DEF Owned
  <2>3. CASE ~Waits(c)
    BY <1>3, <2>3 DEF AnswerArrives, connVars, sessVars, Owned, OwnsNothing, opVars, Running
  <2> QED BY <2>2, <2>3
<1>4. ASSUME PausedArrives PROVE Owned'
  <2> DEFINE r == Head(inbox).req
             s == reqAt[r]
             dropped == \E o \in LastUser(s) : ~Running(o)
  <2>1. s \in Session
    BY <1>0, <1>4, ReceiveFacts, MessageParts DEF PausedArrives, TypeInv, Known
  <2>2. /\ reqs' = [o \in Op |-> IF ~dropped /\ o \in PauseOwner(s)
                                 THEN reqs[o] \cup {r} ELSE reqs[o]]
        /\ UNCHANGED <<status, used, created, toStop, cleaning, awaited, users, fetch, slots,
                       closed, pending>>
    BY <1>4 DEF PausedArrives, sessVars, connVars
  <2> HIDE DEF r, s
  <2>3. \A o \in Op : ~Running(o) => reqs'[o] = reqs[o]
    BY <2>1, <2>2, PauseOwners
  <2> HIDE DEF dropped
  <2>4. \A o \in Op : OwnsNothing(o) /\ ~Running(o) => OwnsNothing(o)'
    BY <2>2, <2>3 DEF OwnsNothing
  <2>5. \A o \in Op : status[o] = "none" \/ cleaning[o] = "done" => ~Running(o)
    BY DEF Owned, Running
  <2> QED BY <2>2, <2>4, <2>5 DEF Owned, Running
<1>5. ASSUME DetachedArrives PROVE Owned'
  BY <1>5 DEF DetachedArrives, Owned, OwnsNothing, opVars, sessVars, connVars, Running
<1>6. ASSUME NEW e \in pending, CallExpires(e) PROVE Owned'
  BY <1>1, <1>6 DEF CallExpires, connVars
<1>7. ASSUME NEW o \in Op, CleanupExpires(o) PROVE Owned'
  BY <1>7, ResumeOwned DEF CleanupExpires
<1> QED BY <1>2, <1>3, <1>4, <1>5, <1>6, <1>7 DEF OnMessage

\* Every step keeps track of who owns what.
LEMMA OwnedStep == TypeInv /\ Owned /\ [Next]_vars => Owned'
<1> SUFFICES ASSUME TypeInv, Owned, [Next]_vars PROVE Owned'
  OBVIOUS
<1>1. CASE ClientStep
  <2>1. CASE SocketClose
    BY <2>1, EndOwned
  <2>2. ASSUME NEW o \in Op, Begin(o) PROVE Owned'
    BY <2>2, ClientOwned
  <2>3. ASSUME NEW o \in Op, NEW s \in Session,
               \/ Attach(o, s) \/ Evaluate(o, s) \/ EvaluateSendFails(o, s)
               \/ Terminate(o, s) \/ EnableFetch(o, s) \/ DisableFetch(o, s)
        PROVE  Owned'
    BY <2>3, ClientOwned
  <2>4. ASSUME NEW o \in Op, NEW r \in Req, ReleaseRequest(o, r) PROVE Owned'
    BY <2>4, ClientOwned
  <2>5. ASSUME NEW o \in Op, NEW outcome \in Outcomes, End(o, outcome) PROVE Owned'
    BY <2>5, EndOwned
  <2> QED BY <1>1, <2>1, <2>2, <2>3, <2>4, <2>5 DEF ClientStep
<1>2. CASE SupervisorStep
  BY <1>2, SupervisorOwned, EndOwned DEF SupervisorStep
<1>3. CASE UNCHANGED <<opVars, sessVars, connVars, pending>>
  BY <1>3 DEF Owned, OwnsNothing, opVars, sessVars, connVars, Running
<1>4. CASE BrowserStep
  <2>1. UNCHANGED <<opVars, sessVars, connVars, pending>>
    BY <1>4 DEF BrowserStep, Execute, SessionVanishes, Pause, CallEnds
  <2> QED BY <2>1, <1>3
<1>5. CASE UNCHANGED vars
  BY <1>5, <1>3 DEF vars
<1> QED BY <1>1, <1>2, <1>4, <1>5 DEF Next

-----------------------------------------------------------------------------
(* The slots and the pending calls *)

\* Initially all slots are free and no calls pending.
LEMMA SlotInit == Init => SlotBooks
<1> SUFFICES ASSUME Init PROVE SlotBooks
  OBVIOUS
<1>1. pending = {} /\ IsFiniteSet(pending)
  BY FS_EmptySet DEF Init
<1>2. \A s \in Session : slots[s].op = NoOp /\ slots[s].depth = 0
  BY DEF Init, FreeSlot
<1> QED BY <1>1, <1>2, OperationsAssumption DEF SlotBooks

\* The slot and the calls of a session: free without calls, or held by one
\* operation, all of whose calls there are counted.
LEMMA SlotCounts ==
    ASSUME TypeInv, Owned, SlotBooks, NEW s \in Session
    PROVE  /\ IsFiniteSet(CallsOn(s)) /\ Cardinality(CallsOn(s)) \in Nat
           /\ \A e \in CallsOn(s) : e.op = slots[s].op /\ e.op \in Op
           /\ slots[s].op = NoOp => CallsOn(s) = {}
           /\ CallsOn(s) # {} => slots[s].depth = Cardinality(CallsOn(s))
<1>1. IsFiniteSet(CallsOn(s))
  BY FS_Subset DEF CallsOn, SlotBooks
<1>2. Cardinality(CallsOn(s)) \in Nat
  BY <1>1, FS_CardinalityType
<1>3. \A e \in CallsOn(s) : /\ e.op = slots[s].op /\ e.op \in Op /\ Running(e.op) /\ ~closed
  BY DEF CallsOn, SlotBooks, Owned, TypeInv, TypeOK, Calls
<1> QED BY <1>1, <1>2, <1>3, OperationsAssumption DEF SlotBooks

\* The fields of a slot.
LEMMA SlotShape ==
    ASSUME TypeInv, NEW s \in Session
    PROVE  slots[s] \in [op: Op \cup {NoOp}, depth: Nat] /\ slots[s].depth \in Nat
  BY DEF TypeInv, TypeOK

\* A call takes the slot, or goes deeper in it, and is counted.
LEMMA EvaluateSlots ==
    ASSUME TypeInv, Owned, SlotBooks, NEW o \in Op, NEW s \in Session, Evaluate(o, s)
    PROVE  SlotBooks'
<1> DEFINE c == ClientCommand("evaluate", o, s, NoReq)
           e == CallOf(c)
<1>1. /\ SlotFreeFor(o, s) /\ slots' = TakenSlot(o, s) /\ pending' = pending \cup {e}
      /\ sent' = sent + 1 /\ UNCHANGED <<status, closed>>
  BY DEF Evaluate, ClientSends, connVars
<1>2. e.op = o /\ e.session = s /\ e.id = sent + 1
  BY DEF CallOf, ClientCommand
<1> HIDE DEF e, c
<1>0. sent \in Nat /\ slots \in [Session -> [op: Op \cup {NoOp}, depth: Nat]]
      /\ \A f \in pending : f.id \in Nat
  BY OperationsAssumption DEF TypeInv, TypeOK, Calls
<1>3. e \notin pending /\ CallsOn(s)' = CallsOn(s) \cup {e}
      /\ \A x \in Session \ {s} : CallsOn(x)' = CallsOn(x)
  BY <1>0, <1>1, <1>2 DEF CallsOn, SlotBooks
<1>4. IsFiniteSet(pending')
  BY <1>1, FS_AddElement DEF SlotBooks
<1>5. Cardinality(CallsOn(s)') = Cardinality(CallsOn(s)) + 1
  <2>1. e \notin CallsOn(s)
    BY <1>3 DEF CallsOn
  <2> QED BY <1>3, <2>1, SlotCounts, FS_AddElement
<1>6. slots'[s].op = o /\ slots'[s].depth = slots[s].depth + 1
      /\ \A x \in Session \ {s} : slots'[x] = slots[x]
  BY <1>0, <1>1 DEF TakenSlot
<1>7. slots[s].op \in {o, NoOp} /\ (slots[s].op = o => slots[s].depth = Cardinality(CallsOn(s)))
  BY <1>1 DEF SlotFreeFor, SlotBooks, Evaluate, ClientSends
<1>8. slots[s].op = NoOp => slots[s].depth = 0 /\ Cardinality(CallsOn(s)) = 0
  BY SlotCounts, FS_EmptySet DEF SlotBooks
<1>9. slots'[s].depth = Cardinality(CallsOn(s)')
  BY <1>5, <1>6, <1>7, <1>8
<1>10. \A f \in pending' : f.id <= sent' /\ slots'[f.session].op = f.op
  <2>1. \A f \in pending : f.session \in Session /\ f.op \in Op
    BY DEF TypeInv, TypeOK, Calls
  <2> QED BY <2>1, <1>0, <1>1, <1>2, <1>6, <1>7, OperationsAssumption DEF SlotBooks
<1>11. \A x \in Session : slots'[x].op = NoOp => slots'[x].depth = 0
  BY <1>6, OperationsAssumption DEF SlotBooks
<1>12. \A x \in Session, p \in Op : slots'[x].op = p /\ Running(p)' /\ ~closed'
            => slots'[x].depth = Cardinality(CallsOn(x)')
  BY <1>1, <1>3, <1>6, <1>9 DEF SlotBooks, Running
<1> QED BY <1>4, <1>10, <1>11, <1>12 DEF SlotBooks

\* A call that could not be sent leaves slot and depth as they were.
LEMMA SendFailsSlots ==
    ASSUME TypeInv, Owned, SlotBooks, NEW o \in Op, NEW s \in Session, EvaluateSendFails(o, s)
    PROVE  SlotBooks'
<1> DEFINE e == [op |-> o, session |-> s]
           t == TakenSlot(o, s)
<1>1. /\ Running(o) /\ ~closed /\ SlotFreeFor(o, s) /\ slots' = ReleasedSlot(t, e)
      /\ UNCHANGED <<status, closed, pending, sent>>
  BY DEF EvaluateSendFails, connVars
<1>2. e.op = o /\ e.session = s
  OBVIOUS
<1>0. slots \in [Session -> [op: Op \cup {NoOp}, depth: Nat]]
  BY DEF TypeInv, TypeOK
<1>3. t[s].op = o /\ t[s].depth = slots[s].depth + 1 /\ t \in [Session -> [op: Op \cup {NoOp}, depth: Nat]]
      /\ \A x \in Session \ {s} : t[x] = slots[x]
  <2>1. t \in [Session -> [op: Op \cup {NoOp}, depth: Nat]]
    BY SlotTypes
  <2> QED BY <2>1, <1>0 DEF TakenSlot
<1> HIDE DEF e, t
<1>4. \A x \in Session \ {s} : slots'[x] = slots[x]
  BY <1>1, <1>2, <1>3 DEF ReleasedSlot
<1>5. CASE slots[s].depth = 0
  <2>1. slots'[s] = FreeSlot
    BY <1>1, <1>2, <1>3, <1>5 DEF ReleasedSlot
  <2>2. CallsOn(s) = {}
    <3>1. slots[s].op = o => Cardinality(CallsOn(s)) = 0
      BY <1>1, <1>5 DEF SlotBooks
    <3>2. Cardinality(CallsOn(s)) = 0 => CallsOn(s) = {}
      BY SlotCounts, FS_EmptySet
    <3> QED BY <3>1, <3>2, <1>1, SlotCounts DEF SlotFreeFor
  <2>3. \A f \in pending : f.session # s /\ f.session \in Session
    BY <2>2 DEF CallsOn, TypeInv, TypeOK, Calls
  <2> QED BY <1>1, <1>4, <2>1, <2>3, OperationsAssumption DEF SlotBooks, FreeSlot, CallsOn, Running
<1>6. CASE slots[s].depth # 0
  <2>1. slots[s].op = o
    BY <1>1, <1>6 DEF SlotFreeFor, SlotBooks
  <2>2. slots[s].depth \in Nat /\ t[s] \in [op: Op \cup {NoOp}, depth: Nat]
    BY SlotShape, <1>3
  <2>3. slots'[s] = [t[s] EXCEPT !.depth = @ - 1]
    BY <1>1, <1>2, <1>3, <1>6, <2>2 DEF ReleasedSlot
  <2>4. slots'[s].op = o /\ slots'[s].depth = slots[s].depth
    BY <2>2, <2>3, <1>3
  <2>5. \A x \in Session : slots'[x].op = slots[x].op /\ slots'[x].depth = slots[x].depth
    BY <1>4, <2>1, <2>4
  <2>6. \A f \in pending : f.session \in Session
    BY DEF TypeInv, TypeOK, Calls
  <2> QED BY <1>1, <2>5, <2>6 DEF SlotBooks, CallsOn, Running
<1> QED BY <1>5, <1>6

\* An answered or expired call goes one level up, the last one frees the slot.
LEMMA ReleaseSlots ==
    ASSUME TypeInv, Owned, SlotBooks, NEW e \in pending, pending' = pending \ {e},
           slots' = ReleasedSlot(slots, e), UNCHANGED <<status, closed, sent>>
    PROVE  SlotBooks'
<1> DEFINE s == e.session
<1>1. s \in Session /\ e.op \in Op /\ Running(e.op) /\ ~closed /\ slots[s].op = e.op
      /\ \A f \in pending : f.session \in Session /\ f.op \in Op
      /\ slots \in [Session -> [op: Op \cup {NoOp}, depth: Nat]]
  BY DEF TypeInv, TypeOK, Calls, Owned, SlotBooks
<1>2. e \in CallsOn(s) /\ CallsOn(s)' = CallsOn(s) \ {e}
      /\ \A x \in Session \ {s} : CallsOn(x)' = CallsOn(x)
  BY DEF CallsOn
<1>3. IsFiniteSet(pending')
  BY FS_RemoveElement DEF SlotBooks
<1>4. /\ IsFiniteSet(CallsOn(s)) /\ Cardinality(CallsOn(s)) \in Nat
      /\ slots[s].depth = Cardinality(CallsOn(s))
  BY <1>1, <1>2, SlotCounts
<1>5. IsFiniteSet(CallsOn(s)') /\ Cardinality(CallsOn(s)') = slots[s].depth - 1
  BY <1>2, <1>4, FS_RemoveElement
<1>6. \A x \in Session \ {s} : slots'[x] = slots[x]
  BY <1>1 DEF ReleasedSlot
<1> HIDE DEF s
<1>7. CASE slots[s].depth <= 1
  <2>1. slots'[s] = FreeSlot
    BY <1>1, <1>7 DEF ReleasedSlot, s
  <2>2. CallsOn(s)' = {}
    <3>1. Cardinality(CallsOn(s)') = 0
      BY <1>4, <1>5, <1>7, FS_CardinalityType
    <3> QED BY <3>1, <1>5, FS_EmptySet
  <2>3. \A f \in pending' : f.session # s
    BY <2>2 DEF CallsOn
  <2>4. \A f \in pending' : f.id <= sent' /\ slots'[f.session].op = f.op
    BY <2>3, <1>1, <1>6 DEF SlotBooks
  <2>5. \A x \in Session : slots'[x].op = NoOp => slots'[x].depth = 0
    BY <2>1, <1>6 DEF SlotBooks, FreeSlot
  <2>6. \A x \in Session, p \in Op : slots'[x].op = p /\ Running(p)' /\ ~closed'
            => slots'[x].depth = Cardinality(CallsOn(x)')
    BY <2>1, <1>2, <1>6, OperationsAssumption DEF SlotBooks, FreeSlot, Running
  <2> QED BY <1>3, <2>4, <2>5, <2>6 DEF SlotBooks
<1>8. CASE ~(slots[s].depth <= 1)
  <2>0. slots[s] \in [op: Op \cup {NoOp}, depth: Nat]
    BY <1>1
  <2>1. slots'[s] = [slots[s] EXCEPT !.depth = @ - 1]
    BY <1>1, <1>8 DEF ReleasedSlot, s
  <2>2. slots'[s].op = slots[s].op /\ slots'[s].depth = slots[s].depth - 1
    BY <2>0, <2>1
  <2>4. \A f \in pending' : f.id <= sent' /\ slots'[f.session].op = f.op
    BY <2>2, <1>1, <1>6 DEF SlotBooks
  <2>5. \A x \in Session : slots'[x].op = NoOp => slots'[x].depth = 0
    BY <2>2, <1>1, <1>6, OperationsAssumption DEF SlotBooks
  <2>6. \A x \in Session, p \in Op : slots'[x].op = p /\ Running(p)' /\ ~closed'
            => slots'[x].depth = Cardinality(CallsOn(x)')
    BY <2>2, <1>2, <1>5, <1>6 DEF SlotBooks, Running
  <2> QED BY <1>3, <2>4, <2>5, <2>6 DEF SlotBooks
<1> QED BY <1>7, <1>8

\* A cleanup frees all slots of its operation, at its end.
LEMMA TurnSlots ==
    ASSUME NEW o \in Op, NEW left, NEW dead, CleanupTurn(o, left, dead)
    PROVE  slots' = slots \/ slots' = FreedSlots(o)
<1>1. CASE FailOne(o, left, dead)
  BY <1>1 DEF FailOne, Await
<1>2. CASE StopOne(o, left, dead)
  BY <1>2 DEF StopOne, Await
<1>3. CASE DisableOne(o, left, dead)
  BY <1>3 DEF DisableOne, Await
<1>4. CASE DetachOne(o, left, dead)
  BY <1>4 DEF DetachOne, Await
<1>5. CASE CleanupEnds(o, left, dead)
  BY <1>5 DEF CleanupEnds
<1> QED BY <1>1, <1>2, <1>3, <1>4, <1>5 DEF CleanupTurn

\* A turn of the cleanup of o, whose calls are rejected by then.
LEMMA TurnKeepsSlots ==
    ASSUME TypeInv, Owned, SlotBooks, NEW o \in Op, slots' = slots \/ slots' = FreedSlots(o),
           \A p \in Op \ {o} : status'[p] = status[p], ~Running(o)',
           pending' \subseteq pending, \A e \in pending' : e.op # o,
           closed' \/ (~closed /\ pending' = {e \in pending : e.op # o}), sent' = sent
    PROVE  SlotBooks'
<1>1. /\ slots \in [Session -> [op: Op \cup {NoOp}, depth: Nat]]
      /\ \A f \in pending : f.session \in Session /\ f.op \in Op
  BY DEF TypeInv, TypeOK, Calls
<1>2. \A s \in Session : slots'[s] = slots[s] \/ (slots[s].op = o /\ slots'[s] = FreeSlot)
  BY DEF FreedSlots
<1>3. IsFiniteSet(pending')
  BY FS_Subset DEF SlotBooks
<1>4. \A e \in pending' : e.id <= sent' /\ slots'[e.session].op = e.op
  BY <1>1, <1>2 DEF SlotBooks
<1>5. \A s \in Session : slots'[s].op = NoOp => slots'[s].depth = 0
  BY <1>2 DEF SlotBooks, FreeSlot
<1>6. ASSUME NEW s \in Session, NEW p \in Op, slots'[s].op = p /\ Running(p)' /\ ~closed'
      PROVE  slots'[s].depth = Cardinality(CallsOn(s)')
  <2>1. p # o /\ Running(p) /\ slots'[s] = slots[s]
    BY <1>2, <1>6, OperationsAssumption DEF Running, FreeSlot
  <2>2. CallsOn(s)' = CallsOn(s)
    BY <2>1, <1>6 DEF CallsOn, SlotBooks
  <2> QED BY <2>1, <2>2, <1>6 DEF SlotBooks
<1> QED BY <1>3, <1>4, <1>5, <1>6 DEF SlotBooks

\* The end of an operation keeps the account of the slots.
LEMMA FinishSlots ==
    ASSUME TypeInv, Owned, SlotBooks, NEW o \in Op, NEW outcome \in Terminal, Finish(o, outcome),
           pending' \subseteq pending, \A e \in pending' : e.op # o,
           closed' \/ (~closed /\ pending' = {e \in pending : e.op # o}), sent' = sent
    PROVE  SlotBooks'
<1>1. status' = [status EXCEPT ![o] = outcome] /\ CleanupTurn(o, used[o], tombs)
  BY DEF Finish
<1>2. \A p \in Op \ {o} : status'[p] = status[p]
  BY <1>1 DEF TypeInv, TypeOK
<1>3. ~Running(o)'
  BY <1>1 DEF Running, Terminal, TypeInv, TypeOK
<1>4. slots' = slots \/ slots' = FreedSlots(o)
  BY <1>1, TurnSlots
<1> QED BY <1>2, <1>3, <1>4, TurnKeepsSlots

\* So does its cleanup.
LEMMA ResumeSlots ==
    ASSUME TypeInv, Owned, SlotBooks, NEW o \in Op, cleaning[o] = "busy", Resume(o)
    PROVE  SlotBooks'
<1>1. UNCHANGED <<status, closed, pending, sent>> /\ (slots' = slots \/ slots' = FreedSlots(o))
  BY TurnSlots DEF Resume, connVars
<1>2. ~Running(o)
  BY DEF Owned, Running
<1>3. \A e \in pending : e.op # o /\ ~closed
  BY <1>2 DEF Owned
<1>4. ~Running(o)'
  BY <1>1, <1>2 DEF Running
<1>5. CASE closed
  BY <1>1, <1>3, <1>4, <1>5, TurnKeepsSlots
<1>6. CASE ~closed
  BY <1>1, <1>3, <1>4, <1>6, TurnKeepsSlots
<1> QED BY <1>5, <1>6

\* Every step keeps the account of the slots.
LEMMA SlotStep == TypeInv /\ Owned /\ SlotBooks /\ [Next]_vars => SlotBooks'
<1> SUFFICES ASSUME TypeInv, Owned, SlotBooks, [Next]_vars PROVE SlotBooks'
  OBVIOUS
<1>0. Outcomes \subseteq Terminal /\ "failed" \in Terminal
  BY OperationsAssumption DEF Terminal
<1>1. ASSUME UNCHANGED <<status, slots, closed, pending>>, sent' = sent \/ (sent' = sent + 1)
      PROVE  SlotBooks'
  <2>1. \A e \in pending : e.id <= sent'
    BY <1>1, OperationsAssumption DEF SlotBooks, TypeInv, TypeOK, Calls
  <2> QED BY <1>1, <2>1 DEF SlotBooks, Running, CallsOn
<1>2. ASSUME NEW o \in Op, Begin(o) PROVE SlotBooks'
  <2>1. /\ status[o] = "none" /\ status' = [status EXCEPT ![o] = "running"]
        /\ UNCHANGED <<slots, closed, pending, sent>>
    BY <1>2 DEF Begin, sessVars, connVars
  <2>2. \A s \in Session : slots[s].op # o
    BY <2>1 DEF Owned, OwnsNothing
  <2>3. \A p \in Op \ {o} : Running(p)' = Running(p)
    BY <2>1 DEF Running, TypeInv, TypeOK
  <2> QED BY <2>1, <2>2, <2>3 DEF SlotBooks, CallsOn
<1>3. ASSUME NEW o \in Op, NEW s \in Session,
             \/ Attach(o, s) \/ Evaluate(o, s) \/ EvaluateSendFails(o, s)
             \/ Terminate(o, s) \/ EnableFetch(o, s) \/ DisableFetch(o, s)
      PROVE  SlotBooks'
  <2>1. CASE Attach(o, s)
    BY <2>1, <1>1 DEF Attach, connVars
  <2>2. CASE Terminate(o, s) \/ EnableFetch(o, s) \/ DisableFetch(o, s)
    BY <2>2, <1>1 DEF Terminate, EnableFetch, DisableFetch, ClientSends, connVars
  <2> QED BY <1>3, <2>1, <2>2, EvaluateSlots, SendFailsSlots
<1>4. ASSUME NEW o \in Op, NEW r \in Req, ReleaseRequest(o, r) PROVE SlotBooks'
  BY <1>1, <1>4 DEF ReleaseRequest, ClientSends, connVars
<1>5. ASSUME NEW o \in Op, NEW outcome \in Outcomes, End(o, outcome) PROVE SlotBooks'
  <2>1. /\ Finish(o, outcome) /\ pending' = {e \in pending : e.op # o} /\ UNCHANGED <<closed, sent>>
    BY <1>5 DEF End, connVars
  <2> QED BY <2>1, <1>0, FinishSlots DEF Owned
<1>6. ASSUME SocketClose PROVE SlotBooks'
  <2>1. pending' = {} /\ closed' /\ sent' = sent
    BY <1>6 DEF SocketClose
  <2>2. ASSUME NEW o \in Op, Finish(o, "failed") PROVE SlotBooks'
    BY <2>1, <2>2, <1>0, FinishSlots
  <2>3. CASE UNCHANGED <<opVars, sessVars, closing, pipe>>
    BY <2>1, <2>3, FS_EmptySet DEF SlotBooks, sessVars
  <2> QED BY <1>6, <2>2, <2>3 DEF SocketClose
<1>7. ASSUME NEW o \in Op, FinishNext(o) PROVE SlotBooks'
  <2>1. closed /\ Finish(o, "failed") /\ UNCHANGED <<closed, pending, sent>>
    BY <1>7 DEF FinishNext
  <2>2. pending = {}
    BY <2>1 DEF Owned
  <2> QED BY <2>1, <2>2, <1>0, FinishSlots
<1>8. ASSUME OnMessage PROVE SlotBooks'
  <2>1. CASE ResultArrives
    <3>1. CASE Head(inbox).call \in pending
      BY <2>1, <3>1, ReleaseSlots DEF ResultArrives, opVars, connVars
    <3>2. CASE Head(inbox).call \notin pending
      BY <2>1, <3>2, <1>1 DEF ResultArrives, opVars, connVars
    <3> QED BY <3>1, <3>2
  <2>2. CASE AnswerArrives
    <3> DEFINE c == Head(inbox).command
    <3>1. c \in Commands /\ c.op \in Op /\ c # NoCommand
      BY <2>2, ReceiveFacts, MessageParts, CommandParts DEF AnswerArrives
    <3>2. CASE Waits(c)
      <4>1. Resume(c.op) /\ awaited[c.op] # NoCommand
        BY <2>2, <3>1, <3>2 DEF AnswerArrives, Waits
      <4> QED BY <4>1, <3>1, ResumeSlots DEF Owned
    <3>3. CASE ~Waits(c)
      BY <2>2, <3>3, <1>1 DEF AnswerArrives, connVars, sessVars, opVars
    <3> QED BY <3>2, <3>3
  <2>3. CASE PausedArrives \/ DetachedArrives
    BY <2>3, <1>1 DEF PausedArrives, DetachedArrives, sessVars, connVars, opVars
  <2> QED BY <1>8, <2>1, <2>2, <2>3 DEF OnMessage
<1>9. ASSUME NEW e \in pending, CallExpires(e) PROVE SlotBooks'
  BY <1>9, ReleaseSlots DEF CallExpires, opVars, connVars
<1>10. ASSUME NEW o \in Op, CleanupExpires(o) PROVE SlotBooks'
  BY <1>10, ResumeSlots DEF CleanupExpires
<1>11. CASE BrowserStep
  <2>1. UNCHANGED <<opVars, sessVars, connVars, pending, sent>>
    BY <1>11 DEF BrowserStep, Execute, SessionVanishes, Pause, CallEnds
  <2> QED BY <2>1, <1>1 DEF opVars, sessVars, connVars
<1>12. CASE UNCHANGED vars
  BY <1>12, <1>1 DEF vars, opVars, sessVars, connVars
<1>13. CASE ClientStep
  BY <1>13, <1>2, <1>3, <1>4, <1>5, <1>6 DEF ClientStep
<1>14. CASE SupervisorStep
  BY <1>14, <1>7, <1>8, <1>9, <1>10 DEF SupervisorStep
<1> QED BY <1>11, <1>12, <1>13, <1>14 DEF Next

-----------------------------------------------------------------------------
(* The holders of Fetch and the browser *)

\* Initially nothing is intercepted.
LEMMA FetchInit == Init => FetchBooks
  BY DEF Init, FetchBooks

\* The last switch of Fetch on the pipe, when a command is sent.
LEMMA AfterSend ==
    ASSUME pipe \in Seq(Commands), NEW c \in Commands, pipe' = Append(pipe, c), NEW s,
           s \in fetchOn' <=> s \in fetchOn
    PROVE  /\ Leaving(s)' <=> Leaving(s) \/ (c.kind = "detach" /\ c.session = s)
           /\ ~(c.session = s /\ c.kind \in {"enable", "disable"})
                 => (FetchAfterPipe(s)' <=> FetchAfterPipe(s))
           /\ c.session = s /\ c.kind \in {"enable", "disable"}
                 => (FetchAfterPipe(s)' <=> c.kind = "enable")
<1> DEFINE n == Len(pipe)
           W == {i \in DOMAIN pipe : pipe[i].session = s /\ pipe[i].kind \in {"enable", "disable"}}
           V == {i \in DOMAIN pipe' : pipe'[i].session = s /\ pipe'[i].kind \in {"enable", "disable"}}
<1>1. /\ n \in Nat /\ DOMAIN pipe = 1..n /\ DOMAIN pipe' = 1..n+1
      /\ pipe'[n+1] = c /\ \A i \in 1..n : pipe'[i] = pipe[i]
  BY AppendProperties
<1> HIDE DEF n
<1>2. Leaving(s)' <=> Leaving(s) \/ (c.kind = "detach" /\ c.session = s)
  BY <1>1 DEF Leaving
<1>3. ASSUME ~(c.session = s /\ c.kind \in {"enable", "disable"})
      PROVE  FetchAfterPipe(s)' <=> FetchAfterPipe(s)
  <2>1. V = W
    BY <1>1, <1>3
  <2>2. \A i \in W : pipe'[i] = pipe[i]
    BY <1>1
  <2> HIDE DEF V, W
  <2> QED BY <2>1, <2>2 DEF FetchAfterPipe, V, W
<1>4. ASSUME c.session = s, c.kind \in {"enable", "disable"}
      PROVE  FetchAfterPipe(s)' <=> c.kind = "enable"
  <2>1. n+1 \in V /\ \A j \in V : j <= n+1 /\ j \in Nat
    BY <1>1, <1>4
  <2>2. FetchAfterPipe(s)' <=> \E i \in V : pipe'[i].kind = "enable" /\ \A j \in V : j <= i
    BY <2>1 DEF FetchAfterPipe
  <2>3. \A i \in V : (\A j \in V : j <= i) => i = n+1
    BY <2>1, <1>1
  <2> HIDE DEF V
  <2> QED BY <2>1, <2>2, <2>3, <1>1
<1> QED BY <1>2, <1>3, <1>4

\* The same when the browser executes the command at the head.
LEMMA AfterExecute ==
    ASSUME pipe \in Seq(Commands), pipe # <<>>, pipe' = Tail(pipe), NEW s, NEW c, c = Head(pipe),
           c.session = s /\ c.kind \in {"enable", "disable"} => (s \in fetchOn' <=> c.kind = "enable"),
           ~(c.session = s /\ c.kind \in {"enable", "disable"}) => (s \in fetchOn' <=> s \in fetchOn)
    PROVE  /\ FetchAfterPipe(s)' <=> FetchAfterPipe(s)
           /\ Leaving(s) <=> Leaving(s)' \/ (c.kind = "detach" /\ c.session = s)
<1> DEFINE n == Len(pipe)
           W == {i \in DOMAIN pipe : pipe[i].session = s /\ pipe[i].kind \in {"enable", "disable"}}
           V == {i \in DOMAIN pipe' : pipe'[i].session = s /\ pipe'[i].kind \in {"enable", "disable"}}
<1>1. /\ n \in Nat \ {0} /\ DOMAIN pipe = 1..n /\ DOMAIN pipe' = 1..n-1 /\ c = pipe[1]
      /\ \A i \in 1..n-1 : pipe'[i] = pipe[i+1]
  BY EmptySeq, HeadTailProperties
<1> HIDE DEF n
<1>2. Leaving(s) <=> Leaving(s)' \/ (c.kind = "detach" /\ c.session = s)
  <2>1. ASSUME NEW i \in 1..n, i # 1, pipe[i].kind = "detach", pipe[i].session = s PROVE Leaving(s)'
    <3>1. i-1 \in 1..n-1 /\ pipe'[i-1] = pipe[i]
      BY <1>1, <2>1
    <3> QED BY <3>1, <1>1, <2>1 DEF Leaving
  <2>2. Leaving(s)' => Leaving(s)
    <3>1. ASSUME NEW i \in 1..n-1, pipe'[i].kind = "detach", pipe'[i].session = s PROVE Leaving(s)
      <4>1. i+1 \in 1..n /\ pipe[i+1] = pipe'[i]
        BY <1>1
      <4> QED BY <4>1, <1>1, <3>1 DEF Leaving
    <3> QED BY <3>1, <1>1 DEF Leaving
  <2>3. c.kind = "detach" /\ c.session = s => Leaving(s)
    BY <1>1 DEF Leaving
  <2> QED BY <2>1, <2>2, <2>3, <1>1 DEF Leaving
<1>3. \A i \in V : i \in 1..n-1 /\ i+1 \in W /\ pipe'[i] = pipe[i+1]
  BY <1>1
<1>4. \A i \in W : i \in 1..n /\ (i = 1 \/ (i-1 \in V /\ pipe'[i-1] = pipe[i]))
  <2> TAKE i \in W
  <2>1. i \in 1..n
    BY <1>1
  <2>2. CASE i # 1
    <3>1. i-1 \in 1..n-1 /\ pipe'[i-1] = pipe[i]
      BY <1>1, <2>1, <2>2
    <3> QED BY <3>1, <2>1, <1>1
  <2> QED BY <2>1, <2>2
<1>5. 1 \in W <=> c.session = s /\ c.kind \in {"enable", "disable"}
  BY <1>1
<1>6. /\ FetchAfterPipe(s) <=> IF W = {} THEN s \in fetchOn
                               ELSE \E i \in W : pipe[i].kind = "enable" /\ \A j \in W : j <= i
      /\ FetchAfterPipe(s)' <=> IF V = {} THEN s \in fetchOn'
                               ELSE \E i \in V : pipe'[i].kind = "enable" /\ \A j \in V : j <= i
  BY DEF FetchAfterPipe
<1> HIDE DEF V, W
<1>7. CASE V = {} /\ W = {}
  BY <1>2, <1>5, <1>6, <1>7
<1>8. CASE V = {} /\ W # {}
  <2>1. W = {1}
    BY <1>4, <1>8
  <2> QED BY <2>1, <1>2, <1>5, <1>6, <1>8, <1>1
<1>9. CASE V # {}
  <2>0. W # {}
    BY <1>3, <1>9
  <2>1. ASSUME NEW i \in V, pipe'[i].kind = "enable", \A j \in V : j <= i PROVE FetchAfterPipe(s)
    <3>1. i+1 \in W /\ pipe[i+1].kind = "enable" /\ i \in 1..n-1
      BY <1>3, <2>1
    <3>2. ASSUME NEW j \in W PROVE j <= i+1
      BY <1>1, <1>4, <2>1, <3>1
    <3> QED BY <3>1, <3>2, <2>0, <1>6
  <2>2. ASSUME NEW i \in W, pipe[i].kind = "enable", \A j \in W : j <= i PROVE FetchAfterPipe(s)'
    <3>1. i # 1
      <4>1. PICK k \in V : TRUE
        BY <1>9
      <4>2. k+1 <= i /\ k \in 1..n-1
        BY <4>1, <1>3, <2>2
      <4> QED BY <4>2, <1>1
    <3>2. i-1 \in V /\ pipe'[i-1].kind = "enable" /\ i \in 1..n
      BY <1>4, <2>2, <3>1
    <3>3. ASSUME NEW j \in V PROVE j <= i-1
      <4>1. j+1 <= i /\ j \in 1..n-1
        BY <1>3, <2>2
      <4> QED BY <4>1, <3>2, <1>1
    <3> QED BY <3>2, <3>3, <1>6, <1>9
  <2>3. FetchAfterPipe(s)' <=> FetchAfterPipe(s)
    BY <2>0, <2>1, <2>2, <1>6, <1>9
  <2> QED BY <2>3, <1>2
<1> QED BY <1>2, <1>7, <1>8, <1>9

\* Taking o off the holders of a session that it does not hold alone.
LEMMA SharedFetch ==
    ASSUME TypeInv, NEW o \in Op, NEW x \in Session, fetch[x] # <<o>>
    PROVE  Without(fetch[x], o) # <<>> <=> fetch[x] # <<>>
<1>1. fetch[x] \in Seq(Op) /\ NoDup(fetch[x])
  BY DEF TypeInv, TypeOK, Distinct
<1> DEFINE q == fetch[x]
           w == Without(q, o)
<1>2. w \in Seq(Op) /\ NoDup(w) /\ \A y : InSeq(w, y) <=> InSeq(q, y) /\ y # o
  BY <1>1, WithoutFacts
<1>3. /\ q = <<>> <=> \A y \in Op : ~InSeq(q, y)
      /\ q = <<o>> <=> InSeq(q, o) /\ \A y \in Op : InSeq(q, y) => y = o
  BY <1>1, EmptyFacts
<1> HIDE DEF q, w
<1>4. w = <<>> <=> \A y \in Op : ~InSeq(w, y)
  BY <1>2, EmptyFacts
<1>5. q # <<o>>
  BY DEF q
<1>6. w # <<>> <=> q # <<>>
  BY <1>2, <1>3, <1>4, <1>5
<1> QED BY <1>6 DEF q, w

\* A cleanup switches Fetch off where its operation holds it alone, and nowhere else.
LEMMA TurnFetch ==
    ASSUME TypeInv, FetchBooks, NEW o \in Op, NEW left \in SUBSET opened,
           NEW dead \in SUBSET Session, CleanupTurn(o, left, dead),
           tombs \subseteq dead, dead \subseteq tombs', UNCHANGED <<attached, fetchOn>>
    PROVE  FetchBooks'
<1> SUFFICES ASSUME NEW x \in attached \ tombs', ~Leaving(x)'
             PROVE  FetchAfterPipe(x)' <=> fetch'[x] # <<>>
  BY DEF FetchBooks
<1>0. /\ x \in Session /\ x \in attached \ tombs /\ x \notin dead
      /\ pipe \in Seq(Commands) /\ fetch \in [Session -> Seq(Op)] /\ NoDup(fetch[x])
      /\ opened \subseteq Session /\ created[o] \subseteq Session
  BY DEF TypeInv, TypeOK, Distinct
<1>1. ~Leaving(x) => (FetchAfterPipe(x) <=> fetch[x] # <<>>)
  BY <1>0 DEF FetchBooks
<1>2. ASSUME NEW kind \in {"terminate", "disable", "release", "detach"}, NEW s \in Session,
             NEW r \in Req \cup {NoReq}, Await(o, CleanupCommand(kind, o, s, r))
      PROVE  /\ ~Leaving(x)
             /\ ~(kind = "disable" /\ s = x) => (FetchAfterPipe(x)' <=> FetchAfterPipe(x))
             /\ kind = "disable" /\ s = x => ~FetchAfterPipe(x)'
  <2> DEFINE c == CleanupCommand(kind, o, s, r)
  <2>1. c \in Commands /\ c.session = s /\ c.kind = kind
    BY CommandType DEF CleanupCommand
  <2>2. pipe' = Append(pipe, c)
    BY <1>2 DEF Await
  <2> HIDE DEF c
  <2> QED BY <1>0, <2>1, <2>2, AfterSend
<1>3. fetch[x] # <<o>> => (Without(fetch[x], o) # <<>> <=> fetch[x] # <<>>)
  BY <1>0, SharedFetch
<1>4. CASE FailOne(o, left, dead)
  <2>1. PICK r \in Failable(o, dead) : Await(o, CleanupCommand("release", o, reqAt[r], r))
    BY <1>4 DEF FailOne
  <2>2. r \in Req /\ reqAt[r] \in Session
    BY <1>0 DEF Failable, TypeInv, TypeOK, Known
  <2> QED BY <1>1, <1>2, <1>4, <2>1, <2>2 DEF FailOne
<1>5. CASE StopOne(o, left, dead)
  <2>1. PICK s \in Stoppable(o, left, dead) : Await(o, CleanupCommand("terminate", o, s, NoReq))
    BY <1>5 DEF StopOne
  <2>2. s \in Session
    BY <1>0 DEF Stoppable
  <2> QED BY <1>1, <1>2, <1>5, <2>1, <2>2 DEF StopOne
<1>6. CASE DisableOne(o, left, dead)
  <2>1. PICK s \in Disableable(o, dead), K \in SUBSET (HeldBy(o) \ Disableable(o, dead)) :
          /\ Await(o, CleanupCommand("disable", o, s, NoReq))
          /\ fetch' = [y \in Session |-> IF y \in K \cup {s} THEN Without(fetch[y], o) ELSE fetch[y]]
    BY <1>6 DEF DisableOne
  <2>2. s \in Session /\ fetch[s] = <<o>>
    BY DEF Disableable, HeldBy
  <2>3. /\ ~Leaving(x)
        /\ s # x => (FetchAfterPipe(x)' <=> FetchAfterPipe(x))
        /\ s = x => ~FetchAfterPipe(x)'
    BY <1>2, <2>1, <2>2
  <2>4. CASE x = s
    <3>1. Without(fetch[x], o) = <<>>
      <4> DEFINE w == Without(fetch[x], o)
      <4>1. w \in Seq(Op) /\ NoDup(w) /\ \A y : InSeq(w, y) <=> InSeq(fetch[x], y) /\ y # o
        BY <1>0, WithoutFacts
      <4>2. \A y \in Op : InSeq(fetch[x], y) => y = o
        BY <2>2, <2>4, OneIn
      <4> HIDE DEF w
      <4>3. w = <<>>
        BY <4>1, <4>2, EmptyFacts
      <4> QED BY <4>3 DEF w
    <3> QED BY <3>1, <2>1, <2>3, <2>4, <1>0
  <2>5. CASE x # s /\ x \in K
    <3>1. fetch[x] # <<o>>
      BY <1>0, <2>5 DEF Disableable
    <3> QED BY <3>1, <2>1, <2>3, <2>5, <1>0, <1>1, <1>3
  <2>6. CASE x # s /\ x \notin K
    BY <2>1, <2>3, <2>6, <1>0, <1>1
  <2> QED BY <2>4, <2>5, <2>6
<1>7. CASE DetachOne(o, left, dead) \/ CleanupEnds(o, left, dead)
  <2>1. Disableable(o, dead) = {} /\ fetch'[x] = Without(fetch[x], o)
    BY <1>0, <1>7 DEF DetachOne, CleanupEnds, DropFetchOf
  <2>2. fetch[x] # <<o>>
    <3>1. fetch[x] = <<o>> => InSeq(fetch[x], o)
      BY <1>0, EmptyFacts
    <3> QED BY <3>1, <2>1, <1>0 DEF Disableable, HeldBy
  <2>3. ~Leaving(x) /\ (FetchAfterPipe(x)' <=> FetchAfterPipe(x))
    <3>1. CASE DetachOne(o, left, dead)
      <4>1. PICK s \in Detachable(o, dead) : Await(o, CleanupCommand("detach", o, s, NoReq))
        BY <3>1 DEF DetachOne
      <4>2. s \in Session
        BY <1>0 DEF Detachable
      <4> QED BY <1>2, <4>1, <4>2
    <3>2. CASE CleanupEnds(o, left, dead)
      <4>1. pipe' = pipe
        BY <3>2 DEF CleanupEnds
      <4> QED BY <4>1 DEF Leaving, FetchAfterPipe
    <3> QED BY <1>7, <3>1, <3>2
  <2> QED BY <1>1, <1>3, <2>1, <2>2, <2>3
<1> QED BY <1>4, <1>5, <1>6, <1>7 DEF CleanupTurn

\* Sessions may die without a trace.
LEMMA SameFetch ==
    ASSUME FetchBooks, UNCHANGED <<pipe, fetch, fetchOn, attached>>, tombs \subseteq tombs'
    PROVE  FetchBooks'
  BY DEF FetchBooks, FetchAfterPipe, Leaving

\* A command of a client changes the holders as it will change the browser.
LEMMA SendFetch ==
    ASSUME TypeInv, FetchBooks, NEW o \in Op, NEW s \in Session, NEW r \in Req \cup {NoReq},
           NEW kind \in {"evaluate", "terminate", "enable", "disable", "release"},
           ClientSends(o, s, ClientCommand(kind, o, s, r)),
           kind \notin {"enable", "disable"} => fetch'[s] = fetch[s],
           kind = "enable" => fetch'[s] # <<>>,
           kind = "disable" => fetch'[s] = <<>>,
           \A x \in Session \ {s} : fetch'[x] = fetch[x]
    PROVE  FetchBooks'
<1> DEFINE c == ClientCommand(kind, o, s, r)
<1>1. /\ pipe' = Append(pipe, c) /\ UNCHANGED <<tombs, attached, fetchOn>> /\ sent < MaxCall
  BY DEF ClientSends, browserVars
<1>2. c \in Commands /\ c.session = s /\ c.kind = kind
  BY <1>1, CommandType DEF ClientCommand
<1> HIDE DEF c
<1> SUFFICES ASSUME NEW x \in attached \ tombs, ~Leaving(x)'
             PROVE  FetchAfterPipe(x)' <=> fetch'[x] # <<>>
  BY <1>1 DEF FetchBooks
<1>3. pipe \in Seq(Commands) /\ x \in Session
  BY DEF TypeInv, TypeOK
<1>4. /\ ~Leaving(x)
      /\ ~(s = x /\ kind \in {"enable", "disable"}) => (FetchAfterPipe(x)' <=> FetchAfterPipe(x))
      /\ s = x /\ kind \in {"enable", "disable"} => (FetchAfterPipe(x)' <=> kind = "enable")
  BY <1>1, <1>2, <1>3, AfterSend
<1> QED BY <1>3, <1>4 DEF FetchBooks

\* What clients do keeps the holders and the browser in step.
LEMMA ClientFetch ==
    ASSUME TypeInv, FetchBooks
    PROVE  /\ \A o \in Op : Begin(o) => FetchBooks'
           /\ \A o \in Op, s \in Session :
                (\/ Attach(o, s) \/ Evaluate(o, s) \/ EvaluateSendFails(o, s)
                 \/ Terminate(o, s) \/ EnableFetch(o, s) \/ DisableFetch(o, s)) => FetchBooks'
           /\ \A o \in Op, r \in Req : ReleaseRequest(o, r) => FetchBooks'
<1>0. /\ fetch \in [Session -> Seq(Op)] /\ \A x \in Session : NoDup(fetch[x])
      /\ attached \subseteq Session /\ fetchOn \subseteq opened /\ pipe \in Seq(Commands)
      /\ opened \subseteq Session
  BY DEF TypeInv, TypeOK, Distinct
<1>1. ASSUME NEW o \in Op, Begin(o) PROVE FetchBooks'
  BY <1>1, SameFetch DEF Begin, sessVars, browserVars
<1>2. ASSUME NEW o \in Op, NEW s \in Session, Attach(o, s) PROVE FetchBooks'
  <2>1. /\ s \notin opened /\ attached' = attached \cup {s}
        /\ UNCHANGED <<pipe, fetch, fetchOn, tombs>>
    BY <1>2 DEF Attach
  <2>2. fetch[s] = <<>>
    BY <1>0, <2>1, EmptyFacts DEF TypeInv, Known
  <2>3. \A i \in DOMAIN pipe : pipe[i].session # s
    <3>1. \A i \in DOMAIN pipe : InSeq(pipe, pipe[i]) /\ pipe[i] \in Commands
      BY <1>0 DEF InSeq
    <3> QED BY <3>1, <2>1 DEF TypeInv, Known
  <2>4. ~FetchAfterPipe(s)
    BY <2>1, <2>3, <1>0 DEF FetchAfterPipe
  <2> QED BY <2>1, <2>2, <2>4 DEF FetchBooks, FetchAfterPipe, Leaving
<1>3. ASSUME NEW o \in Op, NEW s \in Session, Evaluate(o, s) PROVE FetchBooks'
  BY <1>3, SendFetch DEF Evaluate
<1>4. ASSUME NEW o \in Op, NEW s \in Session, EvaluateSendFails(o, s) PROVE FetchBooks'
  BY <1>4, SameFetch DEF EvaluateSendFails, browserVars
<1>5. ASSUME NEW o \in Op, NEW s \in Session, Terminate(o, s) PROVE FetchBooks'
  BY <1>5, SendFetch DEF Terminate
<1>6. ASSUME NEW o \in Op, NEW s \in Session, EnableFetch(o, s) PROVE FetchBooks'
  <2>1. fetch'[s] = (IF InSeq(fetch[s], o) THEN fetch[s] ELSE Append(fetch[s], o))
        /\ \A x \in Session \ {s} : fetch'[x] = fetch[x]
    BY <1>0, <1>6 DEF EnableFetch
  <2>2. InSeq(fetch'[s], o)
    BY <1>0, <2>1, AppendFacts
  <2>3. fetch'[s] # <<>>
    BY <2>2, NoneIn
  <2> QED BY <1>6, <2>1, <2>3, SendFetch DEF EnableFetch
<1>7. ASSUME NEW o \in Op, NEW s \in Session, DisableFetch(o, s) PROVE FetchBooks'
  <2>1. fetch'[s] = <<>> /\ \A x \in Session \ {s} : fetch'[x] = fetch[x]
    BY <1>0, <1>7 DEF DisableFetch
  <2> QED BY <1>7, <2>1, SendFetch DEF DisableFetch
<1>8. ASSUME NEW o \in Op, NEW r \in Req, ReleaseRequest(o, r) PROVE FetchBooks'
  <2>1. reqAt[r] \in Session
    BY <1>0, <1>8 DEF ReleaseRequest, TypeInv, Known
  <2> QED BY <1>8, <2>1, SendFetch DEF ReleaseRequest
<1> QED BY <1>1, <1>2, <1>3, <1>4, <1>5, <1>6, <1>7, <1>8

\* So does the end of an operation.
LEMMA FinishFetch ==
    ASSUME TypeInv, FetchBooks, NEW o \in Op, NEW outcome, Finish(o, outcome),
           tombs \subseteq tombs', UNCHANGED browserVars
    PROVE  FetchBooks'
<1>1. CleanupTurn(o, used[o], tombs) /\ UNCHANGED <<attached, fetchOn>>
  BY DEF Finish, browserVars
<1>2. used[o] \in SUBSET opened /\ tombs \in SUBSET Session
  BY DEF TypeInv, TypeOK, Known
<1> QED BY <1>1, <1>2, TurnFetch

\* So does a cleanup that goes on.
LEMMA ResumeFetch ==
    ASSUME TypeInv, FetchBooks, NEW o \in Op, Resume(o)
    PROVE  FetchBooks'
<1> DEFINE dead == IF awaited[o].kind = "detach" THEN tombs \cup {awaited[o].session} ELSE tombs
<1>1. CleanupTurn(o, toStop[o], dead) /\ tombs' = dead /\ UNCHANGED <<attached, fetchOn>>
  BY DEF Resume, browserVars
<1>2. dead \in SUBSET Session /\ toStop[o] \in SUBSET opened /\ tombs \subseteq dead
  BY DEF TypeInv, TypeOK, Known, NoCommand
<1> HIDE DEF dead
<1> QED BY <1>1, <1>2, TurnFetch

\* The browser does what the pipe said.
LEMMA ExecuteFetchBooks ==
    ASSUME TypeInv, FetchBooks, Execute
    PROVE  FetchBooks'
<1> DEFINE c == Head(pipe)
<1>1. /\ pipe # <<>> /\ pipe' = Tail(pipe) /\ UNCHANGED <<fetch, tombs>>
      /\ \/ ExecuteEvaluate(c) \/ ExecuteTerminate(c) \/ ExecuteFetch(c)
         \/ ExecuteRelease(c) \/ ExecuteDetach(c)
  BY DEF Execute, sessVars
<1>2. pipe \in Seq(Commands) /\ fetchOn \subseteq attached
  BY DEF TypeInv, TypeOK
<1>3. c = Head(pipe)
  OBVIOUS
<1> HIDE DEF c
<1>4. /\ attached' \subseteq attached
      /\ c.kind = "detach" => c.session \notin attached'
      /\ \A x \in attached' :
           /\ c.session = x /\ c.kind \in {"enable", "disable"} => (x \in fetchOn' <=> c.kind = "enable")
           /\ ~(c.session = x /\ c.kind \in {"enable", "disable"}) => (x \in fetchOn' <=> x \in fetchOn)
  <2>1. CASE ExecuteEvaluate(c)
    BY <2>1 DEF ExecuteEvaluate
  <2>2. CASE ExecuteTerminate(c)
    BY <2>2 DEF ExecuteTerminate
  <2>3. CASE ExecuteFetch(c)
    BY <2>3 DEF ExecuteFetch
  <2>4. CASE ExecuteRelease(c)
    BY <2>4 DEF ExecuteRelease
  <2>5. CASE ExecuteDetach(c)
    BY <2>5 DEF ExecuteDetach, Gone
  <2> QED BY <1>1, <2>1, <2>2, <2>3, <2>4, <2>5
<1> SUFFICES ASSUME NEW x \in attached' \ tombs', ~Leaving(x)'
             PROVE  FetchAfterPipe(x)' <=> fetch'[x] # <<>>
  BY DEF FetchBooks
<1>5. /\ FetchAfterPipe(x)' <=> FetchAfterPipe(x)
      /\ Leaving(x) <=> Leaving(x)' \/ (c.kind = "detach" /\ c.session = x)
  BY <1>1, <1>2, <1>3, <1>4, AfterExecute
<1> QED BY <1>1, <1>4, <1>5 DEF FetchBooks

\* Every step keeps the holders and the browser in step.
LEMMA FetchStep == TypeInv /\ FetchBooks /\ [Next]_vars => FetchBooks'
<1> SUFFICES ASSUME TypeInv, FetchBooks, [Next]_vars PROVE FetchBooks'
  OBVIOUS
<1>1. ASSUME NEW o \in Op, NEW s \in Session,
             \/ Attach(o, s) \/ Evaluate(o, s) \/ EvaluateSendFails(o, s)
             \/ Terminate(o, s) \/ EnableFetch(o, s) \/ DisableFetch(o, s)
      PROVE  FetchBooks'
  BY <1>1, ClientFetch
<1>2. ASSUME NEW o \in Op, NEW outcome \in Outcomes, End(o, outcome) PROVE FetchBooks'
  BY <1>2, FinishFetch DEF End
<1>3. ASSUME SocketClose PROVE FetchBooks'
  <2>1. tombs \subseteq tombs' /\ UNCHANGED browserVars
    BY <1>3 DEF SocketClose, TypeInv, TypeOK
  <2>2. ASSUME NEW o \in Op, Finish(o, "failed") PROVE FetchBooks'
    BY <2>1, <2>2, FinishFetch
  <2>3. CASE UNCHANGED <<opVars, sessVars, closing, pipe>>
    BY <2>1, <2>3, SameFetch DEF sessVars, browserVars
  <2> QED BY <1>3, <2>2, <2>3 DEF SocketClose
<1>4. ASSUME NEW o \in Op, FinishNext(o) PROVE FetchBooks'
  BY <1>4, FinishFetch DEF FinishNext
<1>5. CASE ClientStep
  <2>1. ASSUME NEW o \in Op, Begin(o) PROVE FetchBooks'
    BY <2>1, ClientFetch
  <2>2. ASSUME NEW o \in Op, NEW r \in Req, ReleaseRequest(o, r) PROVE FetchBooks'
    BY <2>2, ClientFetch
  <2> QED BY <1>1, <1>2, <1>3, <1>5, <2>1, <2>2 DEF ClientStep
<1>6. CASE OnMessage
  <2>1. CASE ResultArrives \/ PausedArrives \/ DetachedArrives
    BY <2>1, SameFetch DEF ResultArrives, PausedArrives, DetachedArrives, sessVars, browserVars
  <2>2. CASE AnswerArrives
    <3> DEFINE c == Head(inbox).command
    <3>1. c.op \in Op
      BY <2>2, ReceiveFacts, MessageParts, CommandParts DEF AnswerArrives
    <3>2. Resume(c.op) \/ UNCHANGED <<opVars, sessVars, connVars, tombs, pending, sent, pipe, browserVars>>
      BY <2>2 DEF AnswerArrives
    <3> HIDE DEF c
    <3> QED BY <3>1, <3>2, ResumeFetch, SameFetch DEF sessVars, browserVars
  <2> QED BY <1>6, <2>1, <2>2 DEF OnMessage
<1>7. CASE SupervisorStep
  <2>1. ASSUME NEW e \in pending, CallExpires(e) PROVE FetchBooks'
    BY <2>1, SameFetch DEF CallExpires, browserVars
  <2>2. ASSUME NEW o \in Op, CleanupExpires(o) PROVE FetchBooks'
    BY <2>2, ResumeFetch DEF CleanupExpires
  <2> QED BY <1>4, <1>6, <1>7, <2>1, <2>2 DEF SupervisorStep
<1>8. CASE BrowserStep
  <2>1. ASSUME NEW s \in Session, SessionVanishes(s) PROVE FetchBooks'
    BY <2>1 DEF SessionVanishes, Gone, FetchBooks, FetchAfterPipe, Leaving, sessVars
  <2>2. ASSUME NEW s \in Session, NEW r \in Req, Pause(s, r) PROVE FetchBooks'
    BY <2>2, SameFetch DEF Pause, sessVars
  <2>3. ASSUME NEW e, CallEnds(e) PROVE FetchBooks'
    BY <2>3, SameFetch DEF CallEnds, sessVars
  <2> QED BY <1>8, <2>1, <2>2, <2>3, ExecuteFetchBooks DEF BrowserStep
<1>9. CASE UNCHANGED vars
  BY <1>9, SameFetch DEF vars, sessVars, browserVars
<1> QED BY <1>5, <1>7, <1>8, <1>9 DEF Next

-----------------------------------------------------------------------------
(* Which calls a termination meets *)

\* Places count from one, zero is the browser itself.
LEMMA Behind == ASSUME pipe \in Seq(Commands)
                PROVE  /\ \A e : LiveAt(e, 0) <=> e \in running
                       /\ \A e, i : LiveAt(e, i) => i \in Nat /\ i <= Len(pipe)
                       /\ \A k, s : StopsAt(k, s) => k \in Nat \ {0} /\ k <= Len(pipe) /\ pipe[k] \in Commands
                       /\ \A i \in DOMAIN pipe : i # 0
<1>1. DOMAIN pipe = 1..Len(pipe) /\ Len(pipe) \in Nat /\ \A i \in 1..Len(pipe) : pipe[i] \in Commands
  OBVIOUS
<1> QED BY <1>1 DEF LiveAt, StopsAt

\* Places when nothing is sent or executed.
LEMMA SamePlaces ==
    ASSUME pipe' = pipe, running' \subseteq running
    PROVE  /\ \A e, i : LiveAt(e, i)' => LiveAt(e, i)
           /\ \A e, i : i # 0 => (LiveAt(e, i)' <=> LiveAt(e, i))
           /\ \A k, s : StopsAt(k, s)' <=> StopsAt(k, s)
  BY DEF LiveAt, StopsAt

\* Places when a command is sent.
LEMMA AppendPlaces ==
    ASSUME pipe \in Seq(Commands), NEW c \in Commands, pipe' = Append(pipe, c), running' = running
    PROVE  /\ \A e, i : LiveAt(e, i)' <=>
                LiveAt(e, i) \/ (c.kind = "evaluate" /\ e = CallOf(c) /\ i = Len(pipe) + 1)
           /\ \A k, s : StopsAt(k, s)' <=>
                StopsAt(k, s) \/ (c.kind = "terminate" /\ s = c.session /\ k = Len(pipe) + 1)
           /\ \A k, s : StopsAt(k, s) => pipe'[k] = pipe[k]
           /\ pipe'[Len(pipe) + 1] = c
<1> DEFINE n == Len(pipe)
<1>1. /\ n \in Nat /\ DOMAIN pipe = 1..n /\ DOMAIN pipe' = 1..n+1
      /\ pipe'[n+1] = c /\ \A i \in 1..n : pipe'[i] = pipe[i]
  BY AppendProperties
<1> HIDE DEF n
<1>2. \A i : i \in 1..n+1 <=> i \in 1..n \/ i = n+1
  BY <1>1
<1>3. n+1 \notin 1..n
  BY <1>1
<1>4. \A e, i : LiveAt(e, i)' <=>
                LiveAt(e, i) \/ (c.kind = "evaluate" /\ e = CallOf(c) /\ i = n + 1)
  BY <1>1, <1>2, <1>3 DEF LiveAt
<1>5. \A k, s : StopsAt(k, s)' <=>
                StopsAt(k, s) \/ (c.kind = "terminate" /\ s = c.session /\ k = n + 1)
  BY <1>1, <1>2, <1>3 DEF StopsAt
<1>6. \A k, s : StopsAt(k, s) => pipe'[k] = pipe[k]
  BY <1>1 DEF StopsAt
<1> QED BY <1>1, <1>4, <1>5, <1>6 DEF n

\* Places when the command at the head is executed: all move up.
LEMMA ExecutePlaces ==
    ASSUME pipe \in Seq(Commands), pipe # <<>>, pipe' = Tail(pipe), NEW c, c = Head(pipe)
    PROVE  /\ \A e, i : i # 0 => (LiveAt(e, i)' <=> i \in Nat /\ LiveAt(e, i + 1))
           /\ \A e : LiveAt(e, 0)' <=> e \in running'
           /\ \A e : LiveAt(e, 1) <=> c.kind = "evaluate" /\ e = CallOf(c)
           /\ \A k, s : StopsAt(k, s)' => StopsAt(k + 1, s) /\ pipe'[k] = pipe[k + 1]
           /\ \A k, s : k \in Nat \ {0, 1} /\ StopsAt(k, s) => StopsAt(k - 1, s)'
           /\ \A s : StopsAt(1, s) <=> c.kind = "terminate" /\ s = c.session
           /\ pipe[1] = c
<1> DEFINE n == Len(pipe)
<1>1. /\ n \in Nat \ {0} /\ DOMAIN pipe = 1..n /\ DOMAIN pipe' = 1..n-1 /\ c = pipe[1]
      /\ \A i \in 1..n-1 : pipe'[i] = pipe[i+1]
  BY EmptySeq, HeadTailProperties
<1> HIDE DEF n
<1>2. \A i \in 1..n-1 : i \in Nat /\ i # 0 /\ i + 1 \in 1..n /\ i + 1 # 0
  BY <1>1
<1>3. \A i \in Nat : i # 0 /\ i + 1 \in 1..n => i \in 1..n-1
  BY <1>1
<1>4. 1 \in 1..n /\ 0 \notin 1..n /\ 0 \notin 1..n-1 /\ \A i \in Nat : i + 1 # 0
  BY <1>1
<1>5. \A k \in Nat \ {0, 1} : k \in 1..n => k-1 \in 1..n-1 /\ (k-1)+1 = k
  BY <1>1
<1>6. \A e, i : i # 0 => (LiveAt(e, i)' <=> i \in Nat /\ LiveAt(e, i + 1))
  BY <1>1, <1>2, <1>3, <1>4 DEF LiveAt
<1>7. \A e : LiveAt(e, 0)' <=> e \in running'
  BY <1>1, <1>4 DEF LiveAt
<1>8. \A e : LiveAt(e, 1) <=> c.kind = "evaluate" /\ e = CallOf(c)
  BY <1>1, <1>4 DEF LiveAt
<1>9. \A k, s : StopsAt(k, s)' => StopsAt(k + 1, s) /\ pipe'[k] = pipe[k + 1]
  BY <1>1, <1>2 DEF StopsAt
<1>10. \A k, s : k \in Nat \ {0, 1} /\ StopsAt(k, s) => StopsAt(k - 1, s)'
  <2> TAKE k, s
  <2> HAVE k \in Nat \ {0, 1} /\ StopsAt(k, s)
  <2>1. k \in 1..n /\ pipe[k].kind = "terminate" /\ pipe[k].session = s
    BY <1>1 DEF StopsAt
  <2>2. k-1 \in 1..n-1 /\ pipe'[k-1] = pipe[k]
    BY <2>1, <1>1, <1>5
  <2> QED BY <2>1, <2>2, <1>1 DEF StopsAt
<1>11. \A s : StopsAt(1, s) <=> c.kind = "terminate" /\ s = c.session
  BY <1>1, <1>4 DEF StopsAt
<1> QED BY <1>1, <1>6, <1>7, <1>8, <1>9, <1>10, <1>11

\* Messages other than results end no call.
LEMMA SameOver ==
    ASSUME UNCHANGED stopped, \A m : InSeq(inbox', m) /\ m.type = "result" => InSeq(inbox, m)
    PROVE  Over' \subseteq Over
<1>1. \A e \in Calls : [type |-> "result", call |-> e].type = "result"
  OBVIOUS
<1> QED BY <1>1 DEF Over

\* An answer to a cleanup is no result.
LEMMA AnsweredOver ==
    ASSUME inbox \in Seq(Messages), NEW c, NEW msgs \in Seq(Messages), Answered(c, msgs),
           c.cleanup => c \in Commands, \A m : InSeq(msgs, m) => m.type # "result"
    PROVE  \A m : InSeq(inbox', m) /\ m.type = "result" => InSeq(inbox, m)
<1>1. \A m : InSeq(inbox', m) =>
                 \/ InSeq(inbox, m) \/ InSeq(msgs, m)
                 \/ (c.cleanup /\ m = [type |-> "answer", command |-> c])
  BY AnsweredFacts
<1>2. [type |-> "answer", command |-> c].type # "result"
  OBVIOUS
<1> QED BY <1>1, <1>2

\* A result ends its call.
LEMMA ResultOver ==
    ASSUME inbox \in Seq(Messages), NEW e \in Calls,
           inbox' = Append(inbox, [type |-> "result", call |-> e]), stopped' \subseteq stopped
    PROVE  Over' \subseteq Over \cup {e}
<1> DEFINE m(f) == [type |-> "result", call |-> f]
<1>1. m(e) \in Messages
  BY DEF Messages
<1>2. \A x : InSeq(inbox', x) <=> InSeq(inbox, x) \/ x = m(e)
  BY <1>1, AppendFacts
<1>3. \A f : m(f) = m(e) => f = e
  <2> TAKE f
  <2>1. m(f).call = f /\ m(e).call = e
    OBVIOUS
  <2> QED BY <2>1
<1> QED BY <1>2, <1>3 DEF Over

\* What the execution of a command does to the calls.
LEMMA ExecuteCalls ==
    ASSUME TypeInv, Execute, NEW c, c = Head(pipe)
    PROVE  /\ c \in Commands
           /\ \/ /\ c.kind = "evaluate" /\ running' = running \cup {CallOf(c)}
                 /\ Over' \subseteq Over /\ UNCHANGED stopped
              \/ /\ c.kind = "evaluate" /\ running' = running
                 /\ Over' \subseteq Over \cup {CallOf(c)} /\ UNCHANGED stopped
              \/ /\ c.kind = "terminate"
                 /\ running' = {e \in running : e.session # c.session}
                 /\ Over' \subseteq Over \cup {e \in running : e.session = c.session}
                 /\ \A x \in stopped' : x \in stopped
                      \/ (x.call \in running /\ x.call.session = c.session /\ x.by = c.op)
              \/ /\ c.kind \notin {"evaluate", "terminate"} /\ running' \subseteq running
                 /\ Over' \subseteq Over /\ UNCHANGED stopped
<1>0. /\ pipe \in Seq(Commands) /\ pipe # <<>> /\ inbox \in Seq(Messages) /\ running \subseteq Calls
      /\ attached \subseteq opened /\ opened \subseteq Session
  BY DEF TypeInv, TypeOK, Execute
<1>1. /\ \/ ExecuteEvaluate(c) \/ ExecuteTerminate(c) \/ ExecuteFetch(c)
         \/ ExecuteRelease(c) \/ ExecuteDetach(c)
      /\ c \in Commands /\ InSeq(pipe, c)
  BY <1>0, TailFacts DEF Execute
<1>2. <<>> \in Seq(Messages) /\ \A m : ~InSeq(<<>>, m)
  BY NoneIn
<1>3. Answered(c, <<>>) => \A m : InSeq(inbox', m) /\ m.type = "result" => InSeq(inbox, m)
  BY <1>0, <1>1, <1>2, AnsweredOver
<1>4. CASE ExecuteEvaluate(c)
  <2>1. c.kind = "evaluate" /\ UNCHANGED stopped
    BY <1>4 DEF ExecuteEvaluate
  <2>2. CallOf(c) \in Calls
    <3>1. c.id \in 1..sent /\ sent \in 0..MaxCall /\ c.op \in Op /\ c.session \in Session
      BY <1>1, <2>1, CommandParts DEF TypeInv, TypeOK, Numbered
    <3> QED BY <3>1, OperationsAssumption DEF CallOf, Calls
  <2>3. CASE c.session \in attached
    <3>1. running' = running \cup {CallOf(c)} /\ UNCHANGED inbox
      BY <1>4, <2>3 DEF ExecuteEvaluate
    <3>2. Over' \subseteq Over
      BY <2>1, <3>1 DEF Over
    <3> QED BY <1>1, <2>1, <3>1, <3>2
  <2>4. CASE c.session \notin attached
    <3>1. running' = running /\ inbox' = Append(inbox, [type |-> "result", call |-> CallOf(c)])
      BY <1>4, <2>4 DEF ExecuteEvaluate
    <3>2. Over' \subseteq Over \cup {CallOf(c)}
      BY <1>0, <2>1, <2>2, <3>1, ResultOver
    <3> QED BY <1>1, <2>1, <3>1, <3>2
  <2> QED BY <2>3, <2>4
<1>5. CASE ExecuteTerminate(c)
  <2>1. /\ c.kind = "terminate" /\ Answered(c, <<>>)
        /\ running' = {e \in running : e.session # c.session}
        /\ stopped' = stopped \cup {[call |-> e, by |-> c.op] : e \in {f \in running : f.session = c.session}}
    BY <1>5 DEF ExecuteTerminate
  <2>2. \A x \in stopped' : x \in stopped
                      \/ (x.call \in running /\ x.call.session = c.session /\ x.by = c.op)
    BY <2>1
  <2>3. Over' \subseteq Over \cup {e \in running : e.session = c.session}
    <3>1. \A e \in Calls : [type |-> "result", call |-> e].type = "result"
      OBVIOUS
    <3>2. \A e \in Calls : InSeq(inbox', [type |-> "result", call |-> e]) => InSeq(inbox, [type |-> "result", call |-> e])
      BY <3>1, <2>1, <1>3
    <3> QED BY <3>2, <2>2 DEF Over
  <2> QED BY <1>1, <2>1, <2>2, <2>3
<1>6. CASE ExecuteFetch(c) \/ ExecuteRelease(c)
  <2>1. c.kind \notin {"evaluate", "terminate"} /\ Answered(c, <<>>) /\ UNCHANGED <<running, stopped>>
    BY <1>6 DEF ExecuteFetch, ExecuteRelease
  <2>2. Over' \subseteq Over
    BY <2>1, <1>3, SameOver
  <2> QED BY <1>1, <2>1, <2>2
<1>7. CASE ExecuteDetach(c)
  <2> DEFINE msgs == IF c.session \in attached THEN <<[type |-> "detached", session |-> c.session]>> ELSE <<>>
  <2>1. c.kind = "detach" /\ running' \subseteq running /\ UNCHANGED stopped /\ Answered(c, msgs)
    BY <1>7 DEF ExecuteDetach, Gone
  <2>2. msgs \in Seq(Messages) /\ \A m : InSeq(msgs, m) => m.type # "result"
    <3>1. CASE c.session \in attached
      <4> DEFINE d == [type |-> "detached", session |-> c.session]
      <4>1. d \in Messages /\ d.type # "result"
        BY <3>1, <1>0 DEF Messages
      <4> HIDE DEF d
      <4>2. <<d>> \in Seq(Messages) /\ \A m : InSeq(<<d>>, m) => m = d
        BY <4>1, OneIn
      <4> QED BY <4>1, <4>2, <3>1 DEF d
    <3>2. CASE c.session \notin attached
      BY <3>2, <1>2
    <3> QED BY <3>1, <3>2
  <2> HIDE DEF msgs
  <2>3. Over' \subseteq Over
    BY <1>0, <1>1, <2>1, <2>2, AnsweredOver, SameOver
  <2> QED BY <1>1, <2>1, <2>3
<1> QED BY <1>1, <1>4, <1>5, <1>6, <1>7

\* Initially there are no calls.
LEMMA CutInit == Init => CutBooks
<1> SUFFICES ASSUME Init PROVE CutBooks
  OBVIOUS
<1>1. pipe = <<>> /\ inbox = <<>> /\ running = {} /\ stopped = {} /\ pending = {}
  BY DEF Init
<1>2. Over = {} /\ \A e, i : ~LiveAt(e, i)
  BY <1>1, NoneIn DEF Over, LiveAt
<1> QED BY <1>1, <1>2 DEF CutBooks, Ordered, CutsOwn, CallsNotCutByOthers

\* A step that leaves the pipe alone.
LEMMA QuietCuts ==
    ASSUME TypeInv, CutBooks, UNCHANGED pipe, running' \subseteq running,
           \A e \in Over' : e \in Over \/ (e \in running /\ e \notin running'),
           stopped' \subseteq stopped, pending' \subseteq pending, sent' = sent
    PROVE  CutBooks'
<1>0. pipe \in Seq(Commands) /\ running \subseteq Calls
  BY DEF TypeInv, TypeOK
<1>1. /\ \A e, i : LiveAt(e, i)' => LiveAt(e, i)
      /\ \A e, i : i # 0 => (LiveAt(e, i)' <=> LiveAt(e, i))
      /\ \A k, s : StopsAt(k, s)' <=> StopsAt(k, s)
      /\ \A k, s : StopsAt(k, s) => k \in Nat \ {0}
      /\ \A e : LiveAt(e, 0) <=> e \in running
      /\ \A e : LiveAt(e, 0)' <=> e \in running'
      /\ \A e, i : LiveAt(e, i) => i \in Nat
  <2>1. \A e : LiveAt(e, 0)' <=> e \in running'
    BY <1>0 DEF LiveAt
  <2> QED BY <1>0, <2>1, SamePlaces, Behind
<1>2. \A e, f \in Calls, i, j \in Nat : LiveAt(e, i) /\ LiveAt(f, j) /\ i < j => e.id < f.id
  BY DEF CutBooks, Ordered
<1>3. \A e \in Calls, i \in Nat : LiveAt(e, i) => e.id <= sent /\ e \notin Over
  BY DEF CutBooks, Ordered
<1>4. ASSUME NEW e \in Calls, NEW i \in Nat, LiveAt(e, i)' PROVE e.id <= sent' /\ e \notin Over'
  <2>1. LiveAt(e, i) /\ e.id <= sent /\ e \notin Over
    BY <1>1, <1>3, <1>4
  <2>2. CASE i = 0
    BY <2>1, <2>2, <1>1, <1>4
  <2>3. CASE i # 0
    <3>1. e \notin running
      <4>1. e \in running => LiveAt(e, 0) /\ 0 < i /\ e.id \in Nat
        BY <1>1, <2>3, OperationsAssumption DEF Calls
      <4> QED BY <4>1, <2>1, <1>2
    <3> QED BY <3>1, <2>1
  <2> QED BY <2>2, <2>3
<1>5. \A e \in Over' : e.id <= sent'
  <2>1. \A e \in Over : e.id <= sent
    BY DEF CutBooks, Ordered
  <2>2. \A e \in running : e.id <= sent
    BY <1>0, <1>1, <1>3
  <2> QED BY <2>1, <2>2
<1>6. Ordered'
  BY <1>1, <1>2, <1>4, <1>5 DEF Ordered
<1>7. CutsOwn'
  <2> SUFFICES ASSUME NEW e \in pending', NEW k \in Nat, StopsAt(k, e.session)',
                      pipe'[k].op # e.op
               PROVE  \E j \in Nat : k < j /\ LiveAt(e, j)'
    BY DEF CutsOwn
  <2>1. e \in pending /\ StopsAt(k, e.session) /\ pipe[k].op # e.op
    BY <1>1
  <2>2. PICK j \in Nat : k < j /\ LiveAt(e, j)
    BY <2>1 DEF CutBooks, CutsOwn
  <2> QED BY <2>2, <1>1
<1>8. CallsNotCutByOthers'
  BY DEF CutBooks, CallsNotCutByOthers
<1> QED BY <1>6, <1>7, <1>8 DEF CutBooks

\* A command other than a call is sent; a termination by the operation that
\* has the calls.
LEMMA SendCuts ==
    ASSUME TypeInv, CutBooks, NEW c \in Commands, pipe' = Append(pipe, c), c.kind # "evaluate",
           c.kind = "terminate" => \A e \in pending' : e.session = c.session => e.op = c.op,
           UNCHANGED <<running, stopped>>, Over' \subseteq Over, pending' \subseteq pending,
           sent' = sent \/ sent' = sent + 1
    PROVE  CutBooks'
<1>0. /\ pipe \in Seq(Commands) /\ sent \in Nat
      /\ \A e \in Calls : e.id \in Nat
      /\ Over \subseteq Calls /\ pending \subseteq Calls
  BY OperationsAssumption DEF TypeInv, TypeOK, Calls, Over
<1>1. /\ \A e, i : LiveAt(e, i)' <=> LiveAt(e, i)
      /\ \A k, s : StopsAt(k, s)' <=>
            StopsAt(k, s) \/ (c.kind = "terminate" /\ s = c.session /\ k = Len(pipe) + 1)
      /\ \A k, s : StopsAt(k, s) => pipe'[k] = pipe[k]
      /\ pipe'[Len(pipe) + 1] = c
  BY <1>0, AppendPlaces
<1>2. Ordered'
  <2>1. \A e \in Calls, i \in Nat : LiveAt(e, i)' => e.id <= sent' /\ e \notin Over'
    BY <1>0, <1>1 DEF CutBooks, Ordered
  <2>2. \A e \in Over' : e.id <= sent'
    <3>0. \A e \in Over : e.id <= sent
      BY DEF CutBooks, Ordered
    <3>1. \A e \in Over : e.id \in Nat
      BY <1>0
    <3>2. \A m \in Nat : m <= sent => m <= sent'
      BY <1>0
    <3> QED BY <3>0, <3>1, <3>2
  <2> QED BY <1>1, <2>1, <2>2 DEF CutBooks, Ordered
<1>3. CutsOwn'
  <2> SUFFICES ASSUME NEW e \in pending', NEW k \in Nat, StopsAt(k, e.session)',
                      pipe'[k].op # e.op
               PROVE  \E j \in Nat : k < j /\ LiveAt(e, j)'
    BY DEF CutsOwn
  <2>1. StopsAt(k, e.session) /\ pipe[k].op # e.op
    BY <1>1
  <2> QED BY <1>1, <2>1 DEF CutBooks, CutsOwn
<1>4. CallsNotCutByOthers'
  BY DEF CutBooks, CallsNotCutByOthers
<1> QED BY <1>2, <1>3, <1>4 DEF CutBooks

\* A new call goes behind all terminations, with a number of its own.
LEMMA EvaluateCuts ==
    ASSUME TypeInv, SlotBooks, CutBooks, NEW o \in Op, NEW s \in Session, Evaluate(o, s)
    PROVE  CutBooks'
<1> DEFINE c == ClientCommand("evaluate", o, s, NoReq)
           g == CallOf(c)
           n == Len(pipe)
<1>1. /\ pipe' = Append(pipe, c) /\ pending' = pending \cup {g} /\ sent' = sent + 1 /\ sent < MaxCall
      /\ UNCHANGED <<running, stopped, inbox>>
  BY DEF Evaluate, ClientSends, browserVars
<1>2. c \in Commands /\ c.kind = "evaluate" /\ c.session = s
  BY <1>1, CommandType DEF ClientCommand
<1>3. g.id = sent + 1 /\ g.session = s /\ g.op = o /\ g \in Calls
  BY <1>1, OperationsAssumption DEF CallOf, ClientCommand, Calls, TypeInv, TypeOK
<1> HIDE DEF c, g
<1>0. /\ pipe \in Seq(Commands) /\ sent \in Nat
      /\ \A e \in Calls : e.id \in Nat
      /\ Over \subseteq Calls /\ pending \subseteq Calls /\ stopped \subseteq [call: Calls, by: Op]
  BY OperationsAssumption DEF TypeInv, TypeOK, Calls, Over
<1>4. /\ \A e, i : LiveAt(e, i)' <=> LiveAt(e, i) \/ (e = CallOf(c) /\ i = n + 1)
      /\ \A k, x : StopsAt(k, x)' <=> StopsAt(k, x)
      /\ \A k, x : StopsAt(k, x) => pipe'[k] = pipe[k]
      /\ \A e, i : LiveAt(e, i) => i \in Nat /\ i <= n
      /\ \A k, x : StopsAt(k, x) => k \in Nat /\ k <= n
      /\ n \in Nat
  BY <1>0, <1>1, <1>2, AppendPlaces, Behind
<1>5. CallOf(c) = g
  BY DEF g
<1> HIDE DEF n
<1>6. Over' \subseteq Over
  BY <1>1 DEF Over
<1>7. Ordered'
  <2>1. ASSUME NEW e \in Calls, NEW f \in Calls, NEW i \in Nat, NEW j \in Nat,
               LiveAt(e, i)', LiveAt(f, j)', i < j
        PROVE  e.id < f.id
    <3>1. CASE LiveAt(e, i) /\ LiveAt(f, j)
      BY <2>1, <3>1 DEF CutBooks, Ordered
    <3>2. CASE LiveAt(e, i) /\ f = g
      <4>1. e.id <= sent
        BY <3>2 DEF CutBooks, Ordered
      <4> QED BY <4>1, <3>2, <1>0, <1>3
    <3>3. CASE e = g /\ i = n+1
      BY <2>1, <3>3, <1>4
    <3> QED BY <2>1, <3>1, <3>2, <3>3, <1>4, <1>5
  <2>2. ASSUME NEW e \in Calls, NEW i \in Nat, LiveAt(e, i)' PROVE e.id <= sent' /\ e \notin Over'
    <3>1. CASE LiveAt(e, i)
      <4>1. e.id <= sent /\ e \notin Over
        BY <3>1 DEF CutBooks, Ordered
      <4> QED BY <4>1, <1>0, <1>1, <1>6
    <3>2. CASE e = g
      <4>1. g \notin Over
        <5>1. g \in Over => g.id <= sent
          BY DEF CutBooks, Ordered
        <5> QED BY <5>1, <1>0, <1>3
      <4> QED BY <4>1, <3>2, <1>0, <1>1, <1>3, <1>6
    <3> QED BY <2>2, <3>1, <3>2, <1>4, <1>5
  <2>3. \A e \in Over' : e.id <= sent'
    <3>0. \A e \in Over : e.id <= sent
      BY DEF CutBooks, Ordered
    <3>1. \A e \in Over : e.id \in Nat
      BY <1>0
    <3>2. \A m \in Nat : m <= sent => m <= sent'
      BY <1>0, <1>1
    <3> QED BY <3>0, <3>1, <3>2, <1>6
  <2> QED BY <2>1, <2>2, <2>3 DEF Ordered
<1>8. CutsOwn'
  <2> SUFFICES ASSUME NEW e \in pending', NEW k \in Nat, StopsAt(k, e.session)',
                      pipe'[k].op # e.op
               PROVE  \E j \in Nat : k < j /\ LiveAt(e, j)'
    BY DEF CutsOwn
  <2>1. StopsAt(k, e.session) /\ pipe[k].op # e.op /\ k <= n
    BY <1>4
  <2>2. CASE e \in pending
    <3>1. PICK j \in Nat : k < j /\ LiveAt(e, j)
      BY <2>1, <2>2 DEF CutBooks, CutsOwn
    <3> QED BY <3>1, <1>4
  <2>3. CASE e = g
    <3>1. PICK m \in Nat : m = n+1
      BY <1>4
    <3>2. k < m
      BY <3>1, <2>1, <1>4
    <3>3. LiveAt(e, m)'
      BY <3>1, <2>3, <1>4, <1>5
    <3> QED BY <3>2, <3>3
  <2> QED BY <2>2, <2>3, <1>1
<1>9. CallsNotCutByOthers'
  <2> SUFFICES ASSUME NEW x \in stopped, x.call \in pending' PROVE x.by = x.call.op
    BY <1>1 DEF CallsNotCutByOthers
  <2>1. x.call \in Over
    BY DEF Over
  <2>2. x.call.id <= sent
    BY <2>1 DEF CutBooks, Ordered
  <2>3. x.call # g
    BY <2>2, <1>0, <1>3
  <2> QED BY <2>3, <1>1 DEF CutBooks, CallsNotCutByOthers
<1> QED BY <1>7, <1>8, <1>9 DEF CutBooks

\* A termination meets executing calls only, and they have come before it.
LEMMA ExecuteCuts ==
    ASSUME TypeInv, CutBooks, Execute
    PROVE  CutBooks'
<1> DEFINE c == Head(pipe)
           g == CallOf(c)
<1>0. /\ pipe \in Seq(Commands) /\ pipe # <<>> /\ pipe' = Tail(pipe) /\ UNCHANGED <<pending, sent>>
      /\ running \subseteq Calls /\ \A e \in Calls : e.id \in Nat
      /\ stopped \subseteq [call: Calls, by: Op] /\ Over \subseteq Calls
  BY OperationsAssumption DEF TypeInv, TypeOK, Execute, Calls, Over
<1>1. c = Head(pipe)
  OBVIOUS
<1> HIDE DEF c
<1>2. /\ \A e, i : i # 0 => (LiveAt(e, i)' <=> i \in Nat /\ LiveAt(e, i + 1))
      /\ \A e : LiveAt(e, 0)' <=> e \in running'
      /\ \A e : LiveAt(e, 1) <=> c.kind = "evaluate" /\ e = g
      /\ \A k, s : StopsAt(k, s)' => StopsAt(k + 1, s) /\ pipe'[k] = pipe[k + 1]
      /\ \A k, s : k \in Nat \ {0, 1} /\ StopsAt(k, s) => StopsAt(k - 1, s)'
      /\ \A s : StopsAt(1, s) <=> c.kind = "terminate" /\ s = c.session
      /\ pipe[1] = c
  BY <1>0, <1>1, ExecutePlaces
<1>3. /\ c \in Commands
      /\ \/ /\ c.kind = "evaluate" /\ running' = running \cup {g}
            /\ Over' \subseteq Over /\ UNCHANGED stopped
         \/ /\ c.kind = "evaluate" /\ running' = running
            /\ Over' \subseteq Over \cup {g} /\ UNCHANGED stopped
         \/ /\ c.kind = "terminate"
            /\ running' = {e \in running : e.session # c.session}
            /\ Over' \subseteq Over \cup {e \in running : e.session = c.session}
            /\ \A x \in stopped' : x \in stopped
                 \/ (x.call \in running /\ x.call.session = c.session /\ x.by = c.op)
         \/ /\ c.kind \notin {"evaluate", "terminate"} /\ running' \subseteq running
            /\ Over' \subseteq Over /\ UNCHANGED stopped
  BY <1>1, ExecuteCalls
<1> HIDE DEF g
<1>4. \A e : LiveAt(e, 0) <=> e \in running
  BY <1>0, Behind
<1>5. /\ \A e, f \in Calls, i, j \in Nat : LiveAt(e, i) /\ LiveAt(f, j) /\ i < j => e.id < f.id
      /\ \A e \in Calls, i \in Nat : LiveAt(e, i) => e.id <= sent /\ e \notin Over
      /\ \A e \in Over : e.id <= sent
  BY DEF CutBooks, Ordered
\* A call is at its old place, one further on, or executing as it was.
<1>6. ASSUME NEW e \in Calls, NEW i \in Nat, LiveAt(e, i)'
      PROVE  \/ LiveAt(e, i + 1)
             \/ (i = 0 /\ LiveAt(e, 0) /\ ~(c.kind = "terminate" /\ e.session = c.session))
  <2>1. CASE i # 0
    BY <1>2, <1>6, <2>1
  <2>2. CASE i = 0
    BY <1>2, <1>3, <1>4, <1>6, <2>2
  <2> QED BY <2>1, <2>2
<1>7. c.kind = "evaluate" => g \in Calls
  <2>1. c.kind = "evaluate" => c.id \in 1..sent /\ sent \in 0..MaxCall
    <3>1. InSeq(pipe, c)
      BY <1>0, <1>1, TailFacts
    <3> QED BY <3>1, <1>3 DEF TypeInv, TypeOK, Numbered
  <2>2. c.op \in Op /\ c.session \in Session
    BY <1>3, CommandParts
  <2> QED BY <2>1, <2>2, OperationsAssumption DEF g, CallOf, Calls
<1>8. ASSUME NEW e \in Calls, NEW f \in Calls, NEW i \in Nat, NEW j \in Nat,
             LiveAt(e, i)', LiveAt(f, j)', i < j
      PROVE  e.id < f.id
  <2>1. LiveAt(f, j + 1) /\ j + 1 \in Nat /\ i + 1 \in Nat /\ 0 < j + 1 /\ i + 1 < j + 1
    BY <1>6, <1>8
  <2>2. LiveAt(e, i + 1) \/ LiveAt(e, 0)
    BY <1>6, <1>8
  <2> QED BY <2>1, <2>2, <1>5
<1>9. ASSUME NEW e \in Calls, NEW i \in Nat, LiveAt(e, i)' PROVE e.id <= sent' /\ e \notin Over'
  <2>1. e.id <= sent /\ e \notin Over
    BY <1>0, <1>5, <1>6, <1>9
  <2>2. CASE i # 0
    <3>1. LiveAt(e, i+1) /\ i+1 \in Nat /\ 1 < i+1 /\ 0 < i+1
      BY <1>6, <1>9, <2>2
    <3>2. e \notin running
      <4>1. e \in running => e.id < e.id
        BY <3>1, <1>4, <1>5
      <4> QED BY <4>1, <1>0
    <3>3. c.kind = "evaluate" => e # g
      <4>1. c.kind = "evaluate" /\ e = g => e.id < e.id
        BY <3>1, <1>2, <1>5
      <4> QED BY <4>1, <1>0
    <3> QED BY <2>1, <3>2, <3>3, <1>0, <1>3
  <2>3. CASE i = 0
    <3>1. e \in running'
      BY <1>2, <1>9, <2>3
    <3>2. c.kind = "evaluate" /\ e = g => e \notin running
      <4>1. c.kind = "evaluate" /\ e = g /\ e \in running => e.id < e.id
        BY <1>2, <1>4, <1>5
      <4> QED BY <4>1, <1>0
    <3> QED BY <2>1, <3>1, <3>2, <1>0, <1>3
  <2> QED BY <2>2, <2>3
<1>10. \A e \in Over' : e.id <= sent'
  <2>1. c.kind = "evaluate" => g.id <= sent
    BY <1>2, <1>5, <1>7
  <2>2. \A e \in running : e.id <= sent
    BY <1>0, <1>4, <1>5
  <2> QED BY <2>1, <2>2, <1>0, <1>3, <1>5
<1>11. Ordered'
  BY <1>8, <1>9, <1>10 DEF Ordered
<1>12. CutsOwn'
  <2> SUFFICES ASSUME NEW e \in pending', NEW k \in Nat, StopsAt(k, e.session)',
                      pipe'[k].op # e.op
               PROVE  \E j \in Nat : k < j /\ LiveAt(e, j)'
    BY DEF CutsOwn
  <2>0. e \in pending /\ StopsAt(k+1, e.session) /\ pipe'[k] = pipe[k+1]
    BY <1>0, <1>2
  <2>1. StopsAt(k+1, e.session) /\ pipe[k+1].op # e.op /\ e \in pending /\ k+1 \in Nat
    BY <2>0
  <2>2. PICK j \in Nat : k+1 < j /\ LiveAt(e, j)
    BY <2>1 DEF CutBooks, CutsOwn
  <2>3. j-1 \in Nat /\ j-1 # 0 /\ k < j-1 /\ (j-1)+1 = j
    BY <2>2
  <2> QED BY <2>2, <2>3, <1>2
<1>13. CallsNotCutByOthers'
  <2> SUFFICES ASSUME NEW x \in stopped', x.call \in pending PROVE x.by = x.call.op
    BY <1>0 DEF CallsNotCutByOthers
  <2>1. CASE x \in stopped
    BY <2>1 DEF CutBooks, CallsNotCutByOthers
  <2>2. CASE c.kind = "terminate" /\ x.call \in running /\ x.call.session = c.session /\ x.by = c.op
    <3>1. StopsAt(1, x.call.session)
      BY <1>2, <2>2
    <3>2. pipe[1].op = x.call.op \/ \E j \in Nat : 1 < j /\ LiveAt(x.call, j)
      BY <3>1 DEF CutBooks, CutsOwn
    <3>3. ASSUME NEW j \in Nat, 1 < j, LiveAt(x.call, j) PROVE FALSE
      <4>1. LiveAt(x.call, 0) /\ x.call \in Calls /\ 0 < j
        BY <1>0, <1>4, <2>2, <3>3
      <4>2. x.call.id < x.call.id
        BY <3>3, <4>1, <1>5
      <4> QED BY <4>1, <4>2, <1>0
    <3> QED BY <3>2, <3>3, <2>2, <1>2
  <2> QED BY <2>1, <2>2, <1>3
<1> QED BY <1>11, <1>12, <1>13 DEF CutBooks

\* A turn of the cleanup of o sends nothing or one command, and stops a
\* session only if the slot lets o.
LEMMA TurnSends ==
    ASSUME TypeInv, NEW o \in Op, NEW left \in SUBSET opened, NEW dead \in SUBSET Session,
           CleanupTurn(o, left, dead)
    PROVE  \/ pipe' = pipe
           \/ \E c \in Commands :
                 /\ pipe' = Append(pipe, c) /\ c.kind # "evaluate" /\ c.op = o
                 /\ c.kind = "terminate" => SlotFreeFor(o, c.session)
<1>0. opened \subseteq Session /\ \A p \in Op : created[p] \subseteq Session
  BY DEF TypeInv, TypeOK
<1>1. ASSUME NEW kind \in {"terminate", "disable", "release", "detach"}, NEW s \in Session,
             NEW r \in Req \cup {NoReq}, Await(o, CleanupCommand(kind, o, s, r)),
             kind = "terminate" => SlotFreeFor(o, s)
      PROVE  \E c \in Commands :
                 /\ pipe' = Append(pipe, c) /\ c.kind # "evaluate" /\ c.op = o
                 /\ c.kind = "terminate" => SlotFreeFor(o, c.session)
  <2> DEFINE c == CleanupCommand(kind, o, s, r)
  <2>1. c \in Commands /\ c.session = s /\ c.kind = kind /\ c.op = o
    BY CommandType DEF CleanupCommand
  <2>2. pipe' = Append(pipe, c)
    BY <1>1 DEF Await
  <2> HIDE DEF c
  <2> QED BY <1>1, <2>1, <2>2
<1>2. CASE FailOne(o, left, dead)
  <2>1. PICK r \in Failable(o, dead) : Await(o, CleanupCommand("release", o, reqAt[r], r))
    BY <1>2 DEF FailOne
  <2>2. r \in Req /\ reqAt[r] \in Session
    BY <1>0 DEF Failable, TypeInv, TypeOK, Known
  <2> QED BY <1>1, <2>1, <2>2
<1>3. CASE StopOne(o, left, dead)
  <2>1. PICK s \in Stoppable(o, left, dead) : Await(o, CleanupCommand("terminate", o, s, NoReq))
    BY <1>3 DEF StopOne
  <2>2. s \in Session /\ SlotFreeFor(o, s)
    BY <1>0 DEF Stoppable
  <2> QED BY <1>1, <2>1, <2>2
<1>4. CASE DisableOne(o, left, dead)
  <2>1. PICK s \in Disableable(o, dead) : Await(o, CleanupCommand("disable", o, s, NoReq))
    BY <1>4 DEF DisableOne
  <2> QED BY <1>1, <2>1 DEF Disableable, HeldBy
<1>5. CASE DetachOne(o, left, dead)
  <2>1. PICK s \in Detachable(o, dead) : Await(o, CleanupCommand("detach", o, s, NoReq))
    BY <1>5 DEF DetachOne
  <2> QED BY <1>0, <1>1, <2>1 DEF Detachable
<1>6. CASE CleanupEnds(o, left, dead)
  BY <1>6 DEF CleanupEnds
<1> QED BY <1>2, <1>3, <1>4, <1>5, <1>6 DEF CleanupTurn

\* The pending calls of a session are of the operation that may enter it.
LEMMA FreeForOwn ==
    ASSUME SlotBooks, NEW o \in Op, NEW s, SlotFreeFor(o, s), pending \subseteq Calls
    PROVE  \A e \in pending : e.session = s => e.op = o
  BY OperationsAssumption DEF SlotBooks, SlotFreeFor, Calls

\* A cleanup stops a session only where the slot is free for its operation.
LEMMA TurnCuts ==
    ASSUME TypeInv, SlotBooks, CutBooks, NEW o \in Op, NEW left \in SUBSET opened,
           NEW dead \in SUBSET Session, CleanupTurn(o, left, dead),
           pending' \subseteq pending, UNCHANGED <<sent, browserVars>>, 
           \A m : InSeq(inbox', m) => InSeq(inbox, m)
    PROVE  CutBooks'
<1>1. UNCHANGED <<running, stopped>> /\ Over' \subseteq Over /\ sent' = sent
  BY SameOver DEF browserVars
<1>2. pending \subseteq Calls
  BY DEF TypeInv, TypeOK
<1>3. CASE pipe' = pipe
  BY <1>1, <1>3, QuietCuts
<1>4. ASSUME NEW c \in Commands, pipe' = Append(pipe, c), c.kind # "evaluate", c.op = o,
             c.kind = "terminate" => SlotFreeFor(o, c.session)
      PROVE  CutBooks'
  <2>1. c.kind = "terminate" => \A e \in pending' : e.session = c.session => e.op = c.op
    BY <1>2, <1>4, FreeForOwn
  <2> QED BY <1>1, <1>4, <2>1, SendCuts
<1> QED BY <1>3, <1>4, TurnSends

\* The end of an operation cuts off none of the others' calls.
LEMMA FinishCuts ==
    ASSUME TypeInv, SlotBooks, CutBooks, NEW o \in Op, NEW outcome, Finish(o, outcome),
           pending' \subseteq pending, UNCHANGED <<sent, inbox, browserVars>>
    PROVE  CutBooks'
<1>1. CleanupTurn(o, used[o], tombs)
  BY DEF Finish
<1>2. used[o] \in SUBSET opened /\ tombs \in SUBSET Session
  BY DEF TypeInv, TypeOK, Known
<1> QED BY <1>1, <1>2, TurnCuts

\* Nor does its cleanup.
LEMMA ResumeCuts ==
    ASSUME TypeInv, SlotBooks, CutBooks, NEW o \in Op, Resume(o),
           \A m : InSeq(inbox', m) => InSeq(inbox, m)
    PROVE  CutBooks'
<1> DEFINE dead == IF awaited[o].kind = "detach" THEN tombs \cup {awaited[o].session} ELSE tombs
<1>1. CleanupTurn(o, toStop[o], dead) /\ UNCHANGED <<pending, sent, browserVars>>
  BY DEF Resume
<1>2. dead \in SUBSET Session /\ toStop[o] \in SUBSET opened
  BY DEF TypeInv, TypeOK, Known, NoCommand
<1> HIDE DEF dead
<1> QED BY <1>1, <1>2, TurnCuts

\* Nor does what clients send.
LEMMA ClientCuts ==
    ASSUME TypeInv, SlotBooks, CutBooks, NEW o \in Op, NEW s \in Session, NEW r \in Req \cup {NoReq},
           NEW kind \in {"terminate", "enable", "disable", "release"},
           ClientSends(o, s, ClientCommand(kind, o, s, r)), UNCHANGED pending,
           kind = "terminate" => SlotFreeFor(o, s)
    PROVE  CutBooks'
<1> DEFINE c == ClientCommand(kind, o, s, r)
<1>1. /\ pipe' = Append(pipe, c) /\ sent' = sent + 1 /\ sent < MaxCall
      /\ UNCHANGED <<running, stopped, inbox>>
  BY DEF ClientSends, browserVars
<1>2. c \in Commands /\ c.kind = kind /\ c.session = s /\ c.op = o
  BY <1>1, CommandType DEF ClientCommand
<1> HIDE DEF c
<1>3. c.kind = "terminate" => \A e \in pending' : e.session = c.session => e.op = c.op
  <2>1. pending \subseteq Calls
    BY DEF TypeInv, TypeOK
  <2> QED BY <2>1, <1>2, FreeForOwn
<1>4. Over' \subseteq Over
  BY <1>1, SameOver
<1> QED BY <1>1, <1>2, <1>3, <1>4, SendCuts

\* Every step keeps the order of the calls and the terminations.
LEMMA CutStep == TypeInv /\ SlotBooks /\ CutBooks /\ [Next]_vars => CutBooks'
<1> SUFFICES ASSUME TypeInv, SlotBooks, CutBooks, [Next]_vars PROVE CutBooks'
  OBVIOUS
<1>1. ASSUME UNCHANGED <<pipe, running, stopped, sent>>, pending' \subseteq pending,
             \A m : InSeq(inbox', m) /\ m.type = "result" => InSeq(inbox, m)
      PROVE  CutBooks'
  BY <1>1, SameOver, QuietCuts
<1>2. CASE ClientStep
  <2>1. ASSUME NEW o \in Op, Begin(o) PROVE CutBooks'
    BY <2>1, <1>1 DEF Begin, browserVars
  <2>2. ASSUME NEW o \in Op, NEW s \in Session, Attach(o, s) \/ EvaluateSendFails(o, s)
        PROVE CutBooks'
    BY <2>2, <1>1 DEF Attach, EvaluateSendFails, browserVars
  <2>3. ASSUME NEW o \in Op, NEW s \in Session,
               Terminate(o, s) \/ EnableFetch(o, s) \/ DisableFetch(o, s)
        PROVE CutBooks'
    BY <2>3, ClientCuts DEF Terminate, EnableFetch, DisableFetch
  <2>4. ASSUME NEW o \in Op, NEW r \in Req, ReleaseRequest(o, r) PROVE CutBooks'
    <3>1. reqAt[r] \in Session
      BY <2>4 DEF ReleaseRequest, TypeInv, TypeOK, Known
    <3> QED BY <2>4, <3>1, ClientCuts DEF ReleaseRequest
  <2>5. ASSUME NEW o \in Op, NEW outcome \in Outcomes, End(o, outcome) PROVE CutBooks'
    BY <2>5, FinishCuts DEF End
  <2>6. ASSUME SocketClose PROVE CutBooks'
    <3>1. pending' \subseteq pending /\ UNCHANGED <<sent, inbox, browserVars>>
      BY <2>6 DEF SocketClose
    <3>2. ASSUME NEW o \in Op, Finish(o, "failed") PROVE CutBooks'
      BY <3>1, <3>2, FinishCuts
    <3>3. CASE UNCHANGED <<opVars, sessVars, closing, pipe>>
      BY <3>1, <3>3, <1>1 DEF browserVars
    <3> QED BY <2>6, <3>2, <3>3 DEF SocketClose
  <2> QED BY <1>2, <2>1, <2>2, <2>3, <2>4, <2>5, <2>6, EvaluateCuts DEF ClientStep
<1>3. CASE OnMessage
  <2>0. \A type : Receive(type) => \A m : InSeq(inbox', m) => InSeq(inbox, m)
    BY ReceiveFacts
  <2>1. CASE ResultArrives
    <3>1. pending' \subseteq pending
      BY <2>1 DEF ResultArrives
    <3> QED BY <2>0, <2>1, <3>1, <1>1 DEF ResultArrives, browserVars
  <2>2. CASE PausedArrives \/ DetachedArrives
    BY <2>0, <2>2, <1>1 DEF PausedArrives, DetachedArrives, browserVars
  <2>3. CASE AnswerArrives
    <3> DEFINE c == Head(inbox).command
    <3>1. c.op \in Op
      BY <2>3, ReceiveFacts, MessageParts, CommandParts DEF AnswerArrives
    <3>2. Resume(c.op) \/ UNCHANGED <<opVars, sessVars, connVars, tombs, pending, sent, pipe, browserVars>>
      BY <2>3 DEF AnswerArrives
    <3>3. \A m : InSeq(inbox', m) => InSeq(inbox, m)
      BY <2>0, <2>3 DEF AnswerArrives
    <3> HIDE DEF c
    <3> QED BY <3>1, <3>2, <3>3, <1>1, ResumeCuts DEF browserVars
  <2> QED BY <1>3, <2>1, <2>2, <2>3 DEF OnMessage
<1>4. CASE SupervisorStep
  <2>1. ASSUME NEW e \in pending, CallExpires(e) PROVE CutBooks'
    <3>1. pending' \subseteq pending /\ UNCHANGED <<pipe, sent, inbox, browserVars>>
      BY <2>1 DEF CallExpires
    <3> QED BY <3>1, <1>1 DEF browserVars
  <2>2. ASSUME NEW o \in Op, CleanupExpires(o) PROVE CutBooks'
    BY <2>2, ResumeCuts DEF CleanupExpires
  <2>3. ASSUME NEW o \in Op, FinishNext(o) PROVE CutBooks'
    BY <2>3, FinishCuts DEF FinishNext
  <2> QED BY <1>3, <1>4, <2>1, <2>2, <2>3 DEF SupervisorStep
<1>5. CASE BrowserStep
  <2>0. inbox \in Seq(Messages) /\ running \subseteq Calls /\ stopped \subseteq [call: Calls, by: Op]
        /\ attached \subseteq Session
    BY DEF TypeInv, TypeOK
  <2>1. ASSUME NEW s \in Session, SessionVanishes(s) PROVE CutBooks'
    <3> DEFINE c == [cleanup |-> FALSE]
               d == [type |-> "detached", session |-> s]
    <3>1. /\ UNCHANGED <<pipe, stopped, sent, pending>> /\ running' \subseteq running
          /\ Answered(c, <<d>>) /\ ~c.cleanup
      BY <2>1 DEF SessionVanishes, Gone
    <3>2. d \in Messages /\ d.type # "result"
      BY DEF Messages
    <3> HIDE DEF d, c
    <3>3. <<d>> \in Seq(Messages) /\ \A m : InSeq(<<d>>, m) => m = d
      BY <3>2, OneIn
    <3>4. Over' \subseteq Over
      BY <2>0, <3>1, <3>2, <3>3, AnsweredOver, SameOver
    <3> QED BY <3>1, <3>4, QuietCuts
  <2>2. ASSUME NEW s \in Session, NEW r \in Req, Pause(s, r) PROVE CutBooks'
    <3> DEFINE d == [type |-> "paused", req |-> r]
    <3>1. UNCHANGED <<pipe, running, stopped, sent, pending>> /\ inbox' = Append(inbox, d)
      BY <2>2 DEF Pause
    <3>2. d \in Messages /\ d.type # "result"
      BY DEF Messages
    <3> HIDE DEF d
    <3>3. \A m : InSeq(inbox', m) /\ m.type = "result" => InSeq(inbox, m)
      BY <2>0, <3>1, <3>2, AppendFacts
    <3> QED BY <3>1, <3>3, <1>1
  <2>3. ASSUME NEW e \in running \cup {x.call : x \in stopped}, CallEnds(e) PROVE CutBooks'
    <3>1. /\ UNCHANGED <<pipe, sent, pending>> /\ stopped' \subseteq stopped /\ running' \subseteq running
          /\ inbox' = Append(inbox, [type |-> "result", call |-> e])
      BY <2>3 DEF CallEnds
    <3>2. e \in Calls
      BY <2>0
    <3>3. Over' \subseteq Over \cup {e}
      BY <2>0, <3>1, <3>2, ResultOver
    <3>4. e \in Over \/ (e \in running /\ e \notin running')
      BY <2>3 DEF CallEnds, Over
    <3> QED BY <3>1, <3>3, <3>4, QuietCuts
  <2> QED BY <1>5, <2>1, <2>2, <2>3, ExecuteCuts DEF BrowserStep
<1>6. CASE UNCHANGED vars
  BY <1>6, <1>1 DEF vars, browserVars
<1> QED BY <1>2, <1>4, <1>5, <1>6 DEF Next

-----------------------------------------------------------------------------
(* Whose calls the browser executes *)

\* Initially there are no calls.
LEMMA WatchInit == Init => Separated /\ Watched
<1> SUFFICES ASSUME Init PROVE Separated /\ Watched
  OBVIOUS
<1>1. \A e, i : ~LiveAt(e, i)
  BY DEF Init, LiveAt
<1> QED BY <1>1 DEF Separated, Watched

\* Fewer calls and more terminations stay separated.
LEMMA SeparatedKept ==
    ASSUME Separated, \A e \in Calls, i \in Nat : LiveAt(e, i)' => LiveAt(e, i),
           \A k \in Nat, s \in Session : StopsAt(k, s) => StopsAt(k, s)'
    PROVE  Separated'
<1>1. \A e \in Calls : e.session \in Session
  BY DEF Calls
<1> QED BY <1>1 DEF Separated

\* Who is watched stays watched, and a running operation watches its calls.
LEMMA WatchedKept ==
    ASSUME TypeInv, Watched, UNCHANGED <<status, closed>>, tombs \subseteq tombs',
           \A e \in Calls, i \in Nat : LiveAt(e, i)' =>
              \/ LiveAt(e, i) /\ (e \in pending => e \in pending')
              \/ Running(e.op) /\ e \in pending',
           \A k \in Nat, s \in Session : StopsAt(k, s) => StopsAt(k, s)',
           \A o \in Op, s \in Session : slots[s].op = o /\ s \in toStop[o] /\ ~Running(o)
              => slots'[s].op = o /\ s \in toStop'[o]
    PROVE  Watched'
<1> SUFFICES ASSUME ~closed, NEW e \in Calls, NEW i \in Nat, LiveAt(e, i)' PROVE WatchedAt(e, i)'
  BY DEF Watched
<1>1. e.op \in Op /\ e.session \in Session
  BY DEF Calls
<1>2. CASE LiveAt(e, i) /\ (e \in pending => e \in pending')
  <2>1. WatchedAt(e, i)
    BY <1>2 DEF Watched
  <2>2. status'[e.op] # "none" /\ (Running(e.op)' => e \in pending')
    BY <1>2, <2>1 DEF WatchedAt, Running
  <2>3. ASSUME ~Running(e.op)'
        PROVE  \/ slots'[e.session].op = e.op /\ e.session \in toStop'[e.op]
               \/ e.session \in tombs'
               \/ \E k \in Nat : i < k /\ StopsAt(k, e.session)'
    <3>1. ~Running(e.op)
      BY <2>3 DEF Running
    <3>2. \/ slots[e.session].op = e.op /\ e.session \in toStop[e.op]
          \/ e.session \in tombs
          \/ \E k \in Nat : i < k /\ StopsAt(k, e.session)
      BY <2>1, <3>1 DEF WatchedAt
    <3> QED BY <1>1, <3>1, <3>2
  <2> QED BY <2>2, <2>3 DEF WatchedAt
<1>3. CASE Running(e.op) /\ e \in pending'
  BY <1>3 DEF WatchedAt, Running
<1> QED BY <1>2, <1>3

\* A call that enters finds the calls of others about to be stopped.
LEMMA EvaluateWatch ==
    ASSUME TypeInv, SlotBooks, Separated, Watched, NEW o \in Op, NEW s \in Session, Evaluate(o, s)
    PROVE  Separated' /\ Watched'
<1> DEFINE c == ClientCommand("evaluate", o, s, NoReq)
           g == CallOf(c)
           n == Len(pipe)
<1>1. /\ pipe' = Append(pipe, c) /\ pending' = pending \cup {g} /\ sent' = sent + 1 /\ sent < MaxCall
      /\ UNCHANGED <<running, status, closed, tombs, toStop>>
      /\ Running(o) /\ ~closed /\ s \notin tombs /\ SlotFreeFor(o, s) /\ slots' = TakenSlot(o, s)
  BY DEF Evaluate, ClientSends, browserVars, connVars
<1>2. c \in Commands /\ c.kind = "evaluate"
  BY <1>1, CommandType DEF ClientCommand
<1>3. g.session = s /\ g.op = o /\ CallOf(c) = g
  BY DEF CallOf, ClientCommand
<1> HIDE DEF c, g
<1>4. pipe \in Seq(Commands) /\ slots \in [Session -> [op: Op \cup {NoOp}, depth: Nat]]
  BY DEF TypeInv, TypeOK
<1>5. /\ \A e, i : LiveAt(e, i)' <=> LiveAt(e, i) \/ (e = CallOf(c) /\ i = n + 1)
      /\ \A k, x : StopsAt(k, x)' <=> StopsAt(k, x)
      /\ \A e, i : LiveAt(e, i) => i \in Nat /\ i <= n
      /\ \A k, x : StopsAt(k, x) => k \in Nat /\ k <= n
      /\ n \in Nat
  BY <1>1, <1>2, <1>4, AppendPlaces, Behind
<1> HIDE DEF n
\* The calls of others in the session are being stopped.
<1>6. ASSUME NEW e \in Calls, NEW i \in Nat, LiveAt(e, i), e.session = s, e.op # o
      PROVE  \E k \in Nat : i < k /\ StopsAt(k, s)
  <2>1. WatchedAt(e, i) /\ e.op \in Op
    BY <1>1, <1>6 DEF Watched, Calls
  <2>2. slots[s].op # e.op
    BY <1>1, <1>6, <2>1, OperationsAssumption DEF SlotFreeFor
  <2>3. ~Running(e.op)
    BY <1>6, <2>1, <2>2 DEF WatchedAt, SlotBooks
  <2> QED BY <2>1, <2>2, <2>3, <1>1, <1>6 DEF WatchedAt
<1>7. Separated'
  <2> SUFFICES ASSUME NEW e \in Calls, NEW f \in Calls, NEW i \in Nat, NEW j \in Nat,
                      LiveAt(e, i)', LiveAt(f, j)', i <= j, e.session = f.session, e.op # f.op
               PROVE  \E k \in Nat : i < k /\ k < j /\ StopsAt(k, e.session)
    BY <1>5 DEF Separated
  <2>1. CASE LiveAt(e, i) /\ LiveAt(f, j)
    BY <2>1 DEF Separated
  <2>2. CASE LiveAt(e, i) /\ f = g /\ j = n+1
    <3>1. PICK k \in Nat : i < k /\ StopsAt(k, e.session)
      BY <2>2, <1>3, <1>6
    <3>2. k < j
      BY <3>1, <2>2, <1>5
    <3> QED BY <3>1, <3>2
  <2>3. CASE e = g /\ i = n+1
    <3>1. f = g
      BY <2>3, <1>3, <1>5
    <3> QED BY <3>1, <2>3
  <2> QED BY <2>1, <2>2, <2>3, <1>3, <1>5
<1>8. Watched'
  <2>1. \A e \in Calls, i \in Nat : LiveAt(e, i)' =>
              \/ LiveAt(e, i) /\ (e \in pending => e \in pending')
              \/ Running(e.op) /\ e \in pending'
    BY <1>1, <1>3, <1>5
  <2>2. \A p \in Op, x \in Session : slots[x].op = p /\ x \in toStop[p] /\ ~Running(p)
              => slots'[x].op = p /\ x \in toStop'[p]
    <3> TAKE p \in Op, x \in Session
    <3> HAVE slots[x].op = p /\ x \in toStop[p] /\ ~Running(p)
    <3>1. p # o
      BY <1>1
    <3>2. x # s
      BY <3>1, <1>1, OperationsAssumption DEF SlotFreeFor
    <3> QED BY <3>2, <1>1, <1>4 DEF TakenSlot
  <2> QED BY <2>1, <2>2, <1>1, <1>5, WatchedKept
<1> QED BY <1>7, <1>8

\* Execution keeps calls and terminations in their order.
LEMMA ExecuteWatch ==
    ASSUME TypeInv, Separated, Watched, Execute
    PROVE  Separated' /\ Watched'
<1> DEFINE c == Head(pipe)
<1>0. /\ pipe \in Seq(Commands) /\ pipe # <<>> /\ pipe' = Tail(pipe)
      /\ UNCHANGED <<pending, status, closed, tombs, slots, toStop>>
  BY DEF TypeInv, TypeOK, Execute, opVars, sessVars, connVars
<1>1. c = Head(pipe)
  OBVIOUS
<1> HIDE DEF c
<1>2. /\ \A e, i : i # 0 => (LiveAt(e, i)' <=> i \in Nat /\ LiveAt(e, i + 1))
      /\ \A e : LiveAt(e, 0)' <=> e \in running'
      /\ \A e : LiveAt(e, 1) <=> c.kind = "evaluate" /\ e = CallOf(c)
      /\ \A k, s : k \in Nat \ {0, 1} /\ StopsAt(k, s) => StopsAt(k - 1, s)'
      /\ \A s : StopsAt(1, s) <=> c.kind = "terminate" /\ s = c.session
      /\ \A e : LiveAt(e, 0) <=> e \in running
  BY <1>0, <1>1, ExecutePlaces, Behind
<1>3. \A e \in running' : \/ e \in running /\ ~(c.kind = "terminate" /\ e.session = c.session)
                          \/ c.kind = "evaluate" /\ e = CallOf(c)
  BY <1>1, ExecuteCalls
\* A call is at its old place, one further on, or executing as it was.
<1>4. ASSUME NEW e \in Calls, NEW i \in Nat, LiveAt(e, i)'
      PROVE  \/ LiveAt(e, i + 1)
             \/ (i = 0 /\ LiveAt(e, 0) /\ ~StopsAt(1, e.session))
  <2>1. CASE i # 0
    BY <1>2, <1>4, <2>1
  <2>2. CASE i = 0
    BY <1>2, <1>3, <1>4, <2>2
  <2> QED BY <2>1, <2>2
<1>5. Separated'
  <2> SUFFICES ASSUME NEW e \in Calls, NEW f \in Calls, NEW i \in Nat, NEW j \in Nat,
                      LiveAt(e, i)', LiveAt(f, j)', i <= j, e.session = f.session, e.op # f.op
               PROVE  \E k \in Nat : i < k /\ k < j /\ StopsAt(k, e.session)'
    BY DEF Separated
  <2>0. \A a, b \in Calls, x, y \in Nat :
          LiveAt(a, x) /\ LiveAt(b, y) /\ x <= y /\ a.session = b.session /\ a.op # b.op
            => \E k \in Nat : x < k /\ k < y /\ StopsAt(k, a.session)
    BY DEF Separated
  <2>1. CASE LiveAt(e, i + 1) /\ LiveAt(f, j + 1)
    <3>1. PICK k \in Nat : i + 1 < k /\ k < j + 1 /\ StopsAt(k, e.session)
      <4>1. i + 1 \in Nat /\ j + 1 \in Nat /\ i + 1 <= j + 1
        OBVIOUS
      <4> QED BY <2>0, <2>1, <4>1
    <3>2. k - 1 \in Nat /\ i < k - 1 /\ k - 1 < j /\ k \in Nat \ {0, 1}
      BY <3>1
    <3> QED BY <3>1, <3>2, <1>2
  <2>2. CASE i = 0 /\ LiveAt(e, 0) /\ ~StopsAt(1, e.session) /\ LiveAt(f, j + 1)
    <3>1. PICK k \in Nat : 0 < k /\ k < j + 1 /\ StopsAt(k, e.session)
      <4>1. 0 \in Nat /\ j + 1 \in Nat /\ 0 <= j + 1
        OBVIOUS
      <4> QED BY <2>0, <2>2, <4>1
    <3>2. k # 1
      BY <3>1, <2>2
    <3>3. k - 1 \in Nat /\ 0 < k - 1 /\ k - 1 < j /\ k \in Nat \ {0, 1}
      BY <3>1, <3>2
    <3> QED BY <3>1, <3>3, <2>2, <1>2
  <2>3. CASE j = 0 /\ LiveAt(f, 0)
    <3>1. i = 0
      BY <2>3
    <3>2. LiveAt(e, 1) \/ LiveAt(e, 0)
      BY <3>1, <1>4
    <3>3. \A k \in Nat : ~(0 < k /\ k < 1) /\ ~(0 < k /\ k < 0)
      OBVIOUS
    <3>4. 0 \in Nat /\ 1 \in Nat /\ 0 <= 0 /\ 0 <= 1
      OBVIOUS
    <3> QED BY <2>0, <2>3, <3>2, <3>3, <3>4
  <2>4. /\ LiveAt(e, i + 1) \/ (i = 0 /\ LiveAt(e, 0) /\ ~StopsAt(1, e.session))
        /\ LiveAt(f, j + 1) \/ (j = 0 /\ LiveAt(f, 0))
    BY <1>4
  <2> QED BY <2>1, <2>2, <2>3, <2>4
<1>6. Watched'
  <2> SUFFICES ASSUME ~closed, NEW e \in Calls, NEW i \in Nat, LiveAt(e, i)' PROVE WatchedAt(e, i)'
    BY <1>0 DEF Watched
  <2>1. PICK x \in Nat : LiveAt(e, x) /\ i <= x /\ (x = i + 1 \/ (x = 0 /\ ~StopsAt(1, e.session)))
    <3>1. i + 1 \in Nat /\ i <= i + 1 /\ i <= i
      OBVIOUS
    <3> QED BY <1>4, <3>1
  <2>2. WatchedAt(e, x)
    BY <2>1 DEF Watched
  <2>3. ASSUME NEW k \in Nat, x < k, StopsAt(k, e.session)
        PROVE  \E l \in Nat : i < l /\ StopsAt(l, e.session)'
    <3>1. k - 1 \in Nat /\ i < k - 1 /\ k \in Nat \ {0, 1}
      BY <2>1, <2>3
    <3> QED BY <3>1, <2>3, <1>2
  <2> QED BY <2>2, <2>3, <1>0 DEF WatchedAt, Running
<1> QED BY <1>5, <1>6

\* A turn of a cleanup takes no call from the browser and no termination back.
LEMMA TurnPlaces ==
    ASSUME TypeInv, NEW o \in Op, NEW left \in SUBSET opened, NEW dead \in SUBSET Session,
           CleanupTurn(o, left, dead), running' = running
    PROVE  /\ \A e, i : LiveAt(e, i)' => LiveAt(e, i)
           /\ \A k, s : StopsAt(k, s) => StopsAt(k, s)'
<1>0. pipe \in Seq(Commands)
  BY DEF TypeInv, TypeOK
<1>1. CASE pipe' = pipe
  BY <1>1, SamePlaces
<1>2. ASSUME NEW c \in Commands, pipe' = Append(pipe, c), c.kind # "evaluate"
      PROVE  /\ \A e, i : LiveAt(e, i)' => LiveAt(e, i)
             /\ \A k, s : StopsAt(k, s) => StopsAt(k, s)'
  BY <1>0, <1>2, AppendPlaces
<1> QED BY <1>1, <1>2, TurnSends

\* A session of o that was still to be stopped is still, or its termination is
\* sent now, or it is dead.
LEMMA TurnStops ==
    ASSUME TypeInv, NEW o \in Op, NEW left \in SUBSET opened, NEW dead \in SUBSET Session,
           CleanupTurn(o, left, dead), running' = running,
           NEW s \in left, slots[s].op = o, NEW i \in Nat, i <= Len(pipe)
    PROVE  \/ slots'[s].op = o /\ s \in toStop'[o]
           \/ s \in dead
           \/ \E k \in Nat : i < k /\ StopsAt(k, s)'
<1>0. pipe \in Seq(Commands) /\ toStop \in [Op -> SUBSET Session] /\ s \in Session
  BY DEF TypeInv, TypeOK
<1>1. SlotFreeFor(o, s)
  BY DEF SlotFreeFor
<1>2. CASE FailOne(o, left, dead)
  BY <1>0, <1>2 DEF FailOne, Await
<1>3. CASE StopOne(o, left, dead)
  <2>1. PICK x \in Stoppable(o, left, dead), K \in SUBSET (left \ Stoppable(o, left, dead)) :
          /\ Await(o, CleanupCommand("terminate", o, x, NoReq))
          /\ toStop' = [toStop EXCEPT ![o] = left \ (K \cup {x})]
    BY <1>3 DEF StopOne
  <2>2. slots' = slots /\ toStop'[o] = left \ (K \cup {x})
    BY <1>0, <2>1 DEF Await
  <2>3. CASE s = x
    <3> DEFINE c == CleanupCommand("terminate", o, s, NoReq)
    <3>1. c \in Commands /\ c.session = s /\ c.kind = "terminate"
      BY <1>0, CommandType DEF CleanupCommand
    <3>2. pipe' = Append(pipe, c)
      BY <2>1, <2>3 DEF Await
    <3> HIDE DEF c
    <3>3. PICK m \in Nat : m = Len(pipe) + 1
      BY <1>0
    <3>4. StopsAt(m, s)' /\ i < m
      BY <1>0, <3>1, <3>2, <3>3, AppendPlaces
    <3> QED BY <3>4
  <2>4. CASE s # x /\ s \notin K
    BY <2>2, <2>4
  <2>5. CASE s \in K
    BY <1>1, <2>5 DEF Stoppable
  <2> QED BY <2>3, <2>4, <2>5
<1>4. CASE DisableOne(o, left, dead) \/ DetachOne(o, left, dead) \/ CleanupEnds(o, left, dead)
  <2>1. Stoppable(o, left, dead) = {}
    BY <1>4 DEF DisableOne, DetachOne, CleanupEnds
  <2> QED BY <1>1, <2>1 DEF Stoppable
<1> QED BY <1>2, <1>3, <1>4 DEF CleanupTurn

\* What a turn of the cleanup of o leaves to the other operations.
LEMMA TurnLeaves ==
    ASSUME TypeInv, Owned, NEW o \in Op, NEW left \in SUBSET opened, NEW dead \in SUBSET Session,
           CleanupTurn(o, left, dead)
    PROVE  \A p \in Op \ {o}, s \in Session : slots[s].op = p /\ s \in toStop[p]
               => slots'[s].op = p /\ s \in toStop'[p]
<1>1. \A p \in Op \ {o} : toStop'[p] = toStop[p]
  BY TurnOwned
<1>2. slots' = slots \/ slots' = FreedSlots(o)
  BY TurnSlots
<1> QED BY <1>1, <1>2 DEF FreedSlots

\* The operation that ends has the slots of its calls, and its cleanup all those sessions to stop.
LEMMA EndWatch ==
    ASSUME TypeInv, Owned, SlotBooks, Separated, Watched, NEW o \in Op, NEW outcome \in Terminal,
           Finish(o, outcome), pending' = {e \in pending : e.op # o},
           UNCHANGED <<closed, tombs, browserVars>>
    PROVE  Separated' /\ Watched'
<1>1. /\ status' = [status EXCEPT ![o] = outcome] /\ Running(o) /\ CleanupTurn(o, used[o], tombs)
      /\ used[o] \in SUBSET opened /\ tombs \in SUBSET Session /\ running' = running
      /\ status \in [Op -> Terminal \cup {"none", "running"}] /\ pipe \in Seq(Commands)
  BY DEF Finish, MayEnd, TypeInv, TypeOK, Known, browserVars
<1>2. /\ \A e, i : LiveAt(e, i)' => LiveAt(e, i)
      /\ \A k, s : StopsAt(k, s) => StopsAt(k, s)'
  BY <1>1, TurnPlaces
<1>3. Watched'
  <2> SUFFICES ASSUME ~closed, NEW e \in Calls, NEW i \in Nat, LiveAt(e, i)' PROVE WatchedAt(e, i)'
    BY DEF Watched
  <2>0. e.op \in Op /\ e.session \in Session
    BY DEF Calls
  <2>1. LiveAt(e, i) /\ WatchedAt(e, i) /\ i <= Len(pipe)
    BY <1>1, <1>2, Behind DEF Watched
  <2>2. CASE e.op = o
    <3>1. e \in pending /\ slots[e.session].op = o /\ e.session \in used[o]
      BY <1>1, <2>1, <2>2 DEF WatchedAt, SlotBooks, Owned
    <3>2. \/ slots'[e.session].op = o /\ e.session \in toStop'[o]
          \/ e.session \in tombs
          \/ \E k \in Nat : i < k /\ StopsAt(k, e.session)'
      BY <1>1, <2>1, <3>1, TurnStops
    <3>3. status'[o] \in Terminal
      BY <1>1
    <3> QED BY <2>2, <3>2, <3>3 DEF WatchedAt, Running, Terminal
  <2>3. CASE e.op # o
    <3>1. status'[e.op] = status[e.op] /\ (e \in pending' <=> e \in pending)
      BY <1>1, <2>0, <2>3
    <3>2. slots[e.session].op = e.op /\ e.session \in toStop[e.op]
             => slots'[e.session].op = e.op /\ e.session \in toStop'[e.op]
      BY <1>1, <2>0, <2>3, TurnLeaves
    <3> QED BY <1>2, <2>1, <3>1, <3>2 DEF WatchedAt, Running
  <2> QED BY <2>2, <2>3
<1> QED BY <1>2, <1>3, SeparatedKept

\* The cleanup passes over dead sessions only, and sends a termination to the others.
LEMMA ResumeWatch ==
    ASSUME TypeInv, Owned, Separated, Watched, NEW o \in Op, cleaning[o] = "busy", Resume(o)
    PROVE  Separated' /\ Watched'
<1> DEFINE dead == IF awaited[o].kind = "detach" THEN tombs \cup {awaited[o].session} ELSE tombs
<1>1. /\ CleanupTurn(o, toStop[o], dead) /\ tombs' = dead
      /\ UNCHANGED <<status, closed, pending, running>> /\ pipe \in Seq(Commands)
  BY DEF Resume, connVars, browserVars, TypeInv, TypeOK
<1>2. dead \in SUBSET Session /\ toStop[o] \in SUBSET opened /\ tombs \subseteq dead
  BY DEF TypeInv, TypeOK, Known, NoCommand
<1> HIDE DEF dead
<1>3. /\ \A e, i : LiveAt(e, i)' => LiveAt(e, i)
      /\ \A k, s : StopsAt(k, s) => StopsAt(k, s)'
  BY <1>1, <1>2, TurnPlaces
<1>4. ~Running(o)
  BY DEF Owned, Running
<1>5. Watched'
  <2> SUFFICES ASSUME ~closed, NEW e \in Calls, NEW i \in Nat, LiveAt(e, i)' PROVE WatchedAt(e, i)'
    BY <1>1 DEF Watched
  <2>0. e.op \in Op /\ e.session \in Session
    BY DEF Calls
  <2>1. LiveAt(e, i) /\ WatchedAt(e, i) /\ i <= Len(pipe)
    BY <1>1, <1>3, Behind DEF Watched
  <2>2. slots[e.session].op = e.op /\ e.session \in toStop[e.op]
             => \/ slots'[e.session].op = e.op /\ e.session \in toStop'[e.op]
                \/ e.session \in tombs'
                \/ \E k \in Nat : i < k /\ StopsAt(k, e.session)'
    <3>1. CASE e.op = o
      BY <1>1, <1>2, <2>1, <3>1, TurnStops
    <3>2. CASE e.op # o
      BY <1>1, <1>2, <2>0, <3>2, TurnLeaves
    <3> QED BY <3>1, <3>2
  <2>3. status'[e.op] = status[e.op] /\ (Running(e.op)' <=> Running(e.op)) /\ pending' = pending
        /\ tombs \subseteq tombs'
    BY <1>1, <1>2 DEF Running
  <2> QED BY <1>3, <2>1, <2>2, <2>3 DEF WatchedAt
<1> QED BY <1>3, <1>5, SeparatedKept

\* A step that sends and executes nothing and takes no call away from a
\* running operation.
LEMMA QuietWatch ==
    ASSUME TypeInv, Separated, Watched, UNCHANGED <<pipe, status, closed, toStop>>,
           running' \subseteq running, tombs \subseteq tombs',
           \A e \in Calls, i \in Nat : LiveAt(e, i) /\ e \in pending => e \in pending',
           \A o \in Op, s \in Session : slots[s].op = o /\ ~Running(o) => slots'[s].op = o
    PROVE  Separated' /\ Watched'
<1>1. /\ \A e, i : LiveAt(e, i)' => LiveAt(e, i)
      /\ \A k, s : StopsAt(k, s)' <=> StopsAt(k, s)
  BY SamePlaces
<1>2. Separated'
  BY <1>1, SeparatedKept
<1>3. Watched'
  BY <1>1, WatchedKept
<1> QED BY <1>2, <1>3

\* A command that is no call neither adds nor removes one.
LEMMA ClientWatch ==
    ASSUME TypeInv, Separated, Watched, NEW o \in Op, NEW s \in Session, NEW r \in Req \cup {NoReq},
           NEW kind \in {"terminate", "enable", "disable", "release"},
           ClientSends(o, s, ClientCommand(kind, o, s, r)), UNCHANGED <<pending, slots>>
    PROVE  Separated' /\ Watched'
<1> DEFINE c == ClientCommand(kind, o, s, r)
<1>1. /\ pipe' = Append(pipe, c) /\ sent < MaxCall
      /\ UNCHANGED <<running, status, closed, toStop, tombs>>
  BY DEF ClientSends, browserVars, connVars
<1>2. c \in Commands /\ c.kind # "evaluate"
  BY <1>1, CommandType DEF ClientCommand
<1> HIDE DEF c
<1>3. pipe \in Seq(Commands)
  BY DEF TypeInv, TypeOK
<1>4. /\ \A e, i : LiveAt(e, i)' => LiveAt(e, i)
      /\ \A k, x : StopsAt(k, x) => StopsAt(k, x)'
  BY <1>1, <1>2, <1>3, AppendPlaces
<1>5. Separated'
  BY <1>4, SeparatedKept
<1>6. Watched'
  BY <1>1, <1>4, WatchedKept
<1> QED BY <1>5, <1>6

\* Nothing is watched once the socket is closed.
LEMMA ClosedWatch ==
    ASSUME TypeInv, Separated, NEW o \in Op, NEW outcome, Finish(o, outcome), closed',
           UNCHANGED browserVars
    PROVE  Separated' /\ Watched'
<1>1. CleanupTurn(o, used[o], tombs) /\ running' = running
      /\ used[o] \in SUBSET opened /\ tombs \in SUBSET Session
  BY DEF Finish, browserVars, TypeInv, TypeOK, Known
<1>2. /\ \A e, i : LiveAt(e, i)' => LiveAt(e, i)
      /\ \A k, s : StopsAt(k, s) => StopsAt(k, s)'
  BY <1>1, TurnPlaces
<1>3. Separated'
  BY <1>2, SeparatedKept
<1> QED BY <1>3 DEF Watched

\* What clients do leaves no call unwatched.
LEMMA WatchClient ==
    ASSUME TypeInv, Owned, SlotBooks, Separated, Watched, ClientStep
    PROVE  Separated' /\ Watched'
<1>0. Outcomes \subseteq Terminal
  BY OperationsAssumption DEF Terminal
<1>1. ASSUME NEW o \in Op, Begin(o) PROVE Separated' /\ Watched'
  <2>1. /\ status[o] = "none" /\ status' = [status EXCEPT ![o] = "running"]
        /\ UNCHANGED <<pipe, running, closed, toStop, tombs, slots, pending>>
    BY <1>1 DEF Begin, sessVars, browserVars, connVars
  <2>2. /\ \A e, i : LiveAt(e, i)' => LiveAt(e, i)
        /\ \A k, s : StopsAt(k, s)' <=> StopsAt(k, s)
    BY <2>1, SamePlaces
  <2>3. Separated'
    BY <2>2, SeparatedKept
  <2>4. Watched'
    <3> SUFFICES ASSUME ~closed, NEW e \in Calls, NEW i \in Nat, LiveAt(e, i)' PROVE WatchedAt(e, i)'
      BY <2>1 DEF Watched
    <3>1. WatchedAt(e, i) /\ e.op \in Op
      BY <2>2 DEF Watched, Calls
    <3>2. e.op # o
      BY <2>1, <3>1 DEF WatchedAt
    <3>3. status'[e.op] = status[e.op]
      BY <2>1, <3>1, <3>2 DEF TypeInv, TypeOK
    <3> QED BY <2>1, <2>2, <3>1, <3>3 DEF WatchedAt, Running
  <2> QED BY <2>3, <2>4
<1>2. ASSUME NEW o \in Op, NEW s \in Session, Attach(o, s) PROVE Separated' /\ Watched'
  BY <1>2, QuietWatch DEF Attach, connVars
<1>3. ASSUME NEW o \in Op, NEW s \in Session, EvaluateSendFails(o, s) PROVE Separated' /\ Watched'
  <2>1. /\ Running(o) /\ SlotFreeFor(o, s)
        /\ slots' = ReleasedSlot(TakenSlot(o, s), [op |-> o, session |-> s])
        /\ UNCHANGED <<pipe, status, closed, toStop, running, tombs, pending>>
    BY <1>3 DEF EvaluateSendFails, browserVars, connVars
  <2>2. slots \in [Session -> [op: Op \cup {NoOp}, depth: Nat]]
    BY DEF TypeInv, TypeOK
  <2>3. \A x \in Session \ {s} : slots'[x] = slots[x]
    BY <2>1, <2>2 DEF ReleasedSlot, TakenSlot
  <2>4. \A p \in Op : slots[s].op = p => Running(p)
    BY <2>1, OperationsAssumption DEF SlotFreeFor
  <2>5. \A p \in Op, x \in Session : slots[x].op = p /\ ~Running(p) => slots'[x].op = p
    BY <2>3, <2>4
  <2> QED BY <2>1, <2>5, QuietWatch
<1>4. ASSUME NEW o \in Op, NEW s \in Session,
             Terminate(o, s) \/ EnableFetch(o, s) \/ DisableFetch(o, s)
      PROVE Separated' /\ Watched'
  BY <1>4, ClientWatch DEF Terminate, EnableFetch, DisableFetch
<1>5. ASSUME NEW o \in Op, NEW r \in Req, ReleaseRequest(o, r) PROVE Separated' /\ Watched'
  <2>1. reqAt[r] \in Session
    BY <1>5 DEF ReleaseRequest, TypeInv, TypeOK, Known
  <2> QED BY <1>5, <2>1, ClientWatch DEF ReleaseRequest
<1>6. ASSUME NEW o \in Op, NEW outcome \in Outcomes, End(o, outcome) PROVE Separated' /\ Watched'
  BY <1>0, <1>6, EndWatch DEF End, connVars
<1>7. ASSUME SocketClose PROVE Separated' /\ Watched'
  <2>1. closed' /\ UNCHANGED browserVars
    BY <1>7 DEF SocketClose
  <2>2. ASSUME NEW o \in Op, Finish(o, "failed") PROVE Separated' /\ Watched'
    BY <2>1, <2>2, ClosedWatch
  <2>3. CASE UNCHANGED <<opVars, sessVars, closing, pipe>>
    <3>1. /\ \A e, i : LiveAt(e, i)' => LiveAt(e, i)
          /\ \A k, s : StopsAt(k, s)' <=> StopsAt(k, s)
      BY <2>1, <2>3, SamePlaces DEF browserVars
    <3>2. Separated'
      BY <3>1, SeparatedKept
    <3> QED BY <2>1, <3>2 DEF Watched
  <2> QED BY <1>7, <2>2, <2>3 DEF SocketClose
<1> QED BY <1>1, <1>2, <1>3, <1>4, <1>5, <1>6, <1>7, EvaluateWatch DEF ClientStep

\* Nor do messages, as none is the result of a call the browser still works on.
LEMMA WatchSupervisor ==
    ASSUME TypeInv, Owned, SlotBooks, CutBooks, Separated, Watched, ~CallsExpire, SupervisorStep
    PROVE  Separated' /\ Watched'
<1>1. CASE ResultArrives
  <2> DEFINE e == Head(inbox).call
  <2>1. /\ UNCHANGED <<pipe, status, closed, toStop, running, tombs>>
        /\ \/ e \in pending /\ pending' = pending \ {e} /\ slots' = ReleasedSlot(slots, e)
           \/ UNCHANGED <<pending, slots>>
    BY <1>1 DEF ResultArrives, opVars, connVars, browserVars
  <2>2. e \in Over
    <3>1. Head(inbox) \in Messages /\ InSeq(inbox, Head(inbox)) /\ Head(inbox).type = "result"
      BY <1>1, ReceiveFacts DEF ResultArrives
    <3>2. e \in Calls /\ Head(inbox) = [type |-> "result", call |-> e]
      BY <3>1 DEF Messages
    <3> QED BY <3>1, <3>2 DEF Over
  <2> HIDE DEF e
  <2>3. \A f \in Calls, i \in Nat : LiveAt(f, i) => f # e
    BY <2>2 DEF CutBooks, Ordered
  <2>4. CASE UNCHANGED <<pending, slots>>
    BY <2>1, <2>4, QuietWatch
  <2>5. CASE e \in pending /\ pending' = pending \ {e} /\ slots' = ReleasedSlot(slots, e)
    <3>1. e.session \in Session /\ Running(e.op)
          /\ slots \in [Session -> [op: Op \cup {NoOp}, depth: Nat]]
      BY <2>5 DEF Owned, TypeInv, TypeOK, Calls
    <3>2. \A p \in Op, x \in Session : slots[x].op = p /\ ~Running(p) => slots'[x].op = p
      BY <2>5, <3>1 DEF ReleasedSlot
    <3> QED BY <2>1, <2>3, <2>5, <3>2, QuietWatch
  <2> QED BY <2>1, <2>4, <2>5
<1>2. CASE PausedArrives \/ DetachedArrives
  <2>1. UNCHANGED <<pipe, status, closed, toStop, running, pending, slots>> /\ tombs \subseteq tombs'
    BY <1>2 DEF PausedArrives, DetachedArrives, opVars, sessVars, connVars, browserVars
  <2> QED BY <2>1, QuietWatch
<1>3. CASE AnswerArrives
  <2> DEFINE c == Head(inbox).command
  <2>1. c.op \in Op /\ c # NoCommand
    BY <1>3, ReceiveFacts, MessageParts, CommandParts DEF AnswerArrives
  <2>2. CASE Waits(c)
    <3>1. Resume(c.op) /\ awaited[c.op] # NoCommand
      BY <1>3, <2>1, <2>2 DEF AnswerArrives, Waits
    <3>2. cleaning[c.op] = "busy"
      BY <2>1, <3>1 DEF Owned
    <3> HIDE DEF c
    <3> QED BY <2>1, <3>1, <3>2, ResumeWatch
  <2>3. CASE ~Waits(c)
    <3>1. UNCHANGED <<pipe, status, closed, toStop, running, pending, slots, tombs>>
      BY <1>3, <2>3 DEF AnswerArrives, opVars, sessVars, connVars, browserVars
    <3> QED BY <3>1, QuietWatch
  <2> QED BY <2>2, <2>3
<1>4. ASSUME NEW e \in pending, CallExpires(e) PROVE FALSE
  BY <1>4 DEF CallExpires
<1>5. ASSUME NEW o \in Op, CleanupExpires(o) PROVE Separated' /\ Watched'
  BY <1>5, ResumeWatch DEF CleanupExpires
<1>6. ASSUME NEW o \in Op, FinishNext(o) PROVE Separated' /\ Watched'
  BY <1>6, ClosedWatch DEF FinishNext
<1> QED BY <1>1, <1>2, <1>3, <1>4, <1>5, <1>6 DEF SupervisorStep, OnMessage

\* Every step keeps calls separated and watched, if no call expires.
LEMMA WatchStep ==
    ASSUME TypeInv, Owned, SlotBooks, CutBooks, Separated, Watched, ~CallsExpire, [Next]_vars
    PROVE  Separated' /\ Watched'
<1>1. CASE BrowserStep
  <2>1. ASSUME UNCHANGED <<opVars, sessVars, connVars, tombs, pending, pipe>>, running' \subseteq running
        PROVE  Separated' /\ Watched'
    BY <2>1, QuietWatch DEF opVars, sessVars, connVars
  <2>2. ASSUME NEW s \in Session, SessionVanishes(s) PROVE Separated' /\ Watched'
    BY <2>1, <2>2 DEF SessionVanishes, Gone
  <2>3. ASSUME NEW s \in Session, NEW r \in Req, Pause(s, r) PROVE Separated' /\ Watched'
    BY <2>1, <2>3 DEF Pause
  <2>4. ASSUME NEW e, CallEnds(e) PROVE Separated' /\ Watched'
    BY <2>1, <2>4 DEF CallEnds
  <2> QED BY <1>1, <2>2, <2>3, <2>4, ExecuteWatch DEF BrowserStep
<1>2. CASE UNCHANGED vars
  BY <1>2, QuietWatch DEF vars, opVars, sessVars, connVars, browserVars
<1> QED BY <1>1, <1>2, WatchClient, WatchSupervisor DEF Next

-----------------------------------------------------------------------------
(* The theorems *)

\* Operations, slots, books, queues and the browser keep their types, and no
\* session is known that was never attached.
THEOREM TypeCorrect == Spec => []TypeOK
<1>1. TypeInv /\ [Next]_vars => TypeInv'
  BY TypeStep
<1>2. TypeInv => TypeOK
  BY DEF TypeInv
<1> QED BY <1>1, <1>2, TypeInit, PTL DEF Spec

\* The inductive invariant: the types, who owns what, the account of the slots,
\* the holders of Fetch, and the order of calls and terminations.
THEOREM InvariantHolds == Spec => [](TypeInv /\ Owned /\ SlotBooks /\ FetchBooks /\ CutBooks)
<1> DEFINE IInv == TypeInv /\ Owned /\ SlotBooks /\ FetchBooks /\ CutBooks
<1>1. Init => IInv
  BY TypeInit, OwnedInit, SlotInit, FetchInit, CutInit
<1>2. IInv /\ [Next]_vars => IInv'
  BY TypeStep, OwnedStep, SlotStep, FetchStep, CutStep
<1> QED BY <1>1, <1>2, PTL DEF Spec

\* settled and rejectOperation keep the slot of a session the exact account of
\* the calls pending there, and cleanupOperation switches Fetch off exactly
\* where its operation was the last holder: for any number of operations,
\* sessions and calls, whatever expires, vanishes or closes.
THEOREM BooksExact == Spec => []BooksAreExact
<1>1. TypeInv /\ Owned /\ SlotBooks /\ FetchBooks => BooksAreExact
  BY DEF TypeInv, TypeOK, Calls, SlotBooks, FetchBooks, BooksAreExact, CallsOn
<1> QED BY <1>1, InvariantHolds, PTL

\* Nothing is ever booked on an operation whose cleanup is done: event's barrier
\* stops the late pauses, settled the late answers.
THEOREM CleanedNothing == Spec => []CleanedOwnsNothing
<1>1. Owned => CleanedOwnsNothing
  BY DEF Owned, OwnsNothing, CleanedOwnsNothing
<1> QED BY <1>1, InvariantHolds, PTL

\* The slot a termination needs (hook, and the loop of cleanupOperation) spares
\* every pending call of the others, also those already on the pipe.
THEOREM NotCutByOthers == Spec => []CallsNotCutByOthers
<1>1. CutBooks => CallsNotCutByOthers
  BY DEF CutBooks
<1> QED BY <1>1, InvariantHolds, PTL

\* While the browser answers client commands in time, no operation evaluates in
\* a session where a call of another still executes: a cleanup stops what its
\* operation has left there before it gives the slot back.
THEOREM OneEvaluates == ASSUME ~CallsExpire PROVE Spec => []OneOperationEvaluates
<1> DEFINE IInv == TypeInv /\ Owned /\ SlotBooks /\ CutBooks /\ Separated /\ Watched
<1>1. Init => IInv
  BY TypeInit, OwnedInit, SlotInit, CutInit, WatchInit
<1>2. IInv /\ [Next]_vars => IInv'
  BY TypeStep, OwnedStep, SlotStep, CutStep, WatchStep
<1>3. IInv => OneOperationEvaluates
  <2> SUFFICES ASSUME IInv, NEW e \in running, NEW f \in running, e.session = f.session
               PROVE  e.op = f.op
    BY DEF OneOperationEvaluates
  <2>1. LiveAt(e, 0) /\ LiveAt(f, 0) /\ e \in Calls /\ f \in Calls
    BY DEF LiveAt, TypeInv, TypeOK
  <2>2. \A k \in Nat : ~(0 < k /\ k < 0)
    OBVIOUS
  <2> QED BY <2>1, <2>2 DEF Separated
<1> QED BY <1>1, <1>2, <1>3, PTL DEF Spec
=============================================================================
