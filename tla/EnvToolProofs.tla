---------------------------- MODULE EnvToolProofs ----------------------------
(***************************************************************************)
(* What EnvTool promises for any number of operations and keys.            *)
(***************************************************************************)
EXTENDS EnvTool, TLAPS

\* The caller of o itself is still waiting for its body, or for its turn.
Live(o) == phase[o] \in {"unwinds", "runs"}

\* A record, its phase and its caller's answer move together.
Records ==
    \A o \in Op :
        /\ state[o] = "running" => Live(o)
        /\ Live(o) => state[o] \in {"running", "cancelled"}
        /\ phase[o] = "unwinds" => state[o] = "running"
        /\ phase[o] = "none" <=> state[o] = "none"
        /\ Live(o) <=> told[o] = "awaited" /\ shares[o] = NoOp
        /\ told[o] = "none" => phase[o] = "none" /\ key[o] = NoKey /\ shares[o] = NoOp
        /\ told[o] = "completed" <=> state[o] = "completed"
        /\ told[o] = "rejected" /\ shares[o] = NoOp => state[o] \in {"failed", "cancelled"}

\* A call that shares has no record, but the key of the one it waits for, and
\* waits exactly as long.
Sharing ==
    \A o \in Op :
        /\ shares[o] # NoOp => /\ phase[o] = "none" /\ key[o] \in Key
                               /\ key[shares[o]] = key[o]
                               /\ told[o] = "awaited" <=> Live(shares[o])
        /\ told[o] = "deduplicated" => /\ phase[o] = "none" /\ key[o] \in Key
                                       /\ byKey[key[o]] # NoOp

\* What a key maps to: the live operation, or the completed one.
Keys ==
    \A k \in Key :
        /\ \A o \in Op : inflight[k] = o <=> Live(o) /\ key[o] = k
        /\ byKey[k] # NoOp => state[byKey[k]] = "completed" /\ key[byKey[k]] = k
        /\ \A o \in Op : state[o] = "completed" /\ key[o] = k => byKey[k] # NoOp
        /\ inflight[k] # NoOp => byKey[k] = NoOp

Inv == TypeOK /\ Records /\ Sharing /\ Keys

-----------------------------------------------------------------------------
LEMMA InitInv == Init => Inv
<1> SUFFICES ASSUME Init PROVE Inv OBVIOUS
<1>1. TypeOK BY DEF Init, TypeOK, States, Phases, Answers
<1>2. Records BY EnvAssumption DEF Init, Records, Live
<1>3. Sharing BY DEF Init, Sharing
<1>4. Keys BY EnvAssumption DEF Init, Keys, Live
<1> QED BY <1>1, <1>2, <1>3, <1>4 DEF Inv

LEMMA FromCacheInv ==
    ASSUME Inv, NEW o \in Op, NEW k \in Key, FromCache(o, k)
    PROVE  Inv'
<1> USE EnvAssumption
<1>1. TypeOK' BY DEF Inv, TypeOK, Records, Live, States, Phases, Answers, FromCache
<1>2. Records' BY DEF Inv, TypeOK, Records, Sharing, Keys, Live, FromCache
<1>3. Sharing' BY DEF Inv, TypeOK, Records, Sharing, Keys, Live, FromCache
<1>4. Keys' BY DEF Inv, TypeOK, Records, Sharing, Keys, Live, FromCache
<1> QED BY <1>1, <1>2, <1>3, <1>4 DEF Inv

LEMMA ShareInv ==
    ASSUME Inv, NEW o \in Op, NEW k \in Key, Share(o, k)
    PROVE  Inv'
<1> USE EnvAssumption
<1>1. TypeOK' BY DEF Inv, TypeOK, Records, Live, States, Phases, Answers, Share, InFlight
<1>2. Records' BY DEF Inv, TypeOK, Records, Sharing, Keys, Live, Share, InFlight
<1>3. Sharing' BY DEF Inv, TypeOK, Records, Sharing, Keys, Live, Share, InFlight
<1>4. Keys' BY DEF Inv, TypeOK, Records, Sharing, Keys, Live, Share, InFlight
<1> QED BY <1>1, <1>2, <1>3, <1>4 DEF Inv

LEMMA BeginInv ==
    ASSUME Inv, NEW o \in Op, NEW k \in Key \cup {NoKey}, Begin(o, k)
    PROVE  Inv'
<1> USE EnvAssumption
<1>1. TypeOK' BY DEF Inv, TypeOK, Records, Live, States, Phases, Answers, Begin, InFlight
<1>2. Records' BY DEF Inv, TypeOK, Records, Sharing, Keys, Live, Begin, InFlight
<1>3. Sharing' BY DEF Inv, TypeOK, Records, Sharing, Keys, Live, Begin, InFlight
<1>4. Keys' BY DEF Inv, TypeOK, Records, Sharing, Keys, Live, Begin, InFlight
<1> QED BY <1>1, <1>2, <1>3, <1>4 DEF Inv

LEMMA WakeInv ==
    ASSUME Inv, NEW o \in Op, Wake(o)
    PROVE  Inv'
<1> USE EnvAssumption
<1>1. TypeOK' BY DEF Inv, TypeOK, Records, Live, States, Phases, Answers, Wake
<1>2. Records' BY DEF Inv, TypeOK, Records, Sharing, Keys, Live, Wake
<1>3. Sharing' BY DEF Inv, TypeOK, Records, Sharing, Keys, Live, Wake
<1>4. Keys' BY DEF Inv, TypeOK, Records, Sharing, Keys, Live, Wake
<1> QED BY <1>1, <1>2, <1>3, <1>4 DEF Inv

LEMMA GraceFiresInv ==
    ASSUME Inv, NEW o \in Op, GraceFires(o)
    PROVE  Inv'
<1> USE EnvAssumption
<1>1. TypeOK' BY DEF Inv, TypeOK, Records, Live, States, Phases, Answers, GraceFires
<1>2. Records' BY DEF Inv, TypeOK, Records, Sharing, Keys, Live, GraceFires
<1>3. Sharing' BY DEF Inv, TypeOK, Records, Sharing, Keys, Live, GraceFires
<1>4. Keys' BY DEF Inv, TypeOK, Records, Sharing, Keys, Live, GraceFires
<1> QED BY <1>1, <1>2, <1>3, <1>4 DEF Inv

LEMMA BodySucceedsInv ==
    ASSUME Inv, NEW o \in Op, BodySucceeds(o)
    PROVE  Inv'
<1> USE EnvAssumption
<1>1. TypeOK' BY DEF Inv, TypeOK, Records, Live, States, Phases, Answers, BodySucceeds, Return, Settled
<1>2. Records' BY DEF Inv, TypeOK, Records, Sharing, Keys, Live, BodySucceeds, Return, Settled
<1>3. Sharing' BY DEF Inv, TypeOK, Records, Sharing, Keys, Live, BodySucceeds, Return, Settled
<1>4. Keys' BY DEF Inv, TypeOK, Records, Sharing, Keys, Live, BodySucceeds, Return, Settled
<1> QED BY <1>1, <1>2, <1>3, <1>4 DEF Inv

LEMMA BodyFailsInv ==
    ASSUME Inv, NEW o \in Op, BodyFails(o)
    PROVE  Inv'
<1> USE EnvAssumption
<1>1. TypeOK' BY DEF Inv, TypeOK, Records, Live, States, Phases, Answers, BodyFails, Return, Settled
<1>2. Records' BY DEF Inv, TypeOK, Records, Sharing, Keys, Live, BodyFails, Return, Settled
<1>3. Sharing' BY DEF Inv, TypeOK, Records, Sharing, Keys, Live, BodyFails, Return, Settled
<1>4. Keys' BY DEF Inv, TypeOK, Records, Sharing, Keys, Live, BodyFails, Return, Settled
<1> QED BY <1>1, <1>2, <1>3, <1>4 DEF Inv

LEMMA DeadlineInv ==
    ASSUME Inv, NEW o \in Op, Deadline(o)
    PROVE  Inv'
<1> USE EnvAssumption
<1>1. TypeOK' BY DEF Inv, TypeOK, Records, Live, States, Phases, Answers, Deadline, Return, Settled, Armed, Aborted
<1>2. Records' BY DEF Inv, TypeOK, Records, Sharing, Keys, Live, Deadline, Return, Settled, Armed, Aborted
<1>3. Sharing' BY DEF Inv, TypeOK, Records, Sharing, Keys, Live, Deadline, Return, Settled, Armed, Aborted
<1>4. Keys' BY DEF Inv, TypeOK, Records, Sharing, Keys, Live, Deadline, Return, Settled, Armed, Aborted
<1> QED BY <1>1, <1>2, <1>3, <1>4 DEF Inv

LEMMA LoserEndsInv ==
    ASSUME Inv, NEW o \in Op, LoserEnds(o)
    PROVE  Inv'
<1> USE EnvAssumption
<1>1. TypeOK' BY DEF Inv, TypeOK, Records, Live, States, Phases, Answers, LoserEnds, UnwindingWithout
<1>2. Records' BY DEF Inv, TypeOK, Records, Sharing, Keys, Live, LoserEnds, UnwindingWithout
<1>3. Sharing' BY DEF Inv, TypeOK, Records, Sharing, Keys, Live, LoserEnds, UnwindingWithout
<1>4. Keys' BY DEF Inv, TypeOK, Records, Sharing, Keys, Live, LoserEnds, UnwindingWithout
<1> QED BY <1>1, <1>2, <1>3, <1>4 DEF Inv

LEMMA CancelInv ==
    ASSUME Inv, NEW o \in Op, Cancel(o)
    PROVE  Inv'
<1> USE EnvAssumption
<1>1. TypeOK' BY DEF Inv, TypeOK, Records, Live, States, Phases, Answers, Cancel, Return, Settled, Aborted
<1>2. Records' BY DEF Inv, TypeOK, Records, Sharing, Keys, Live, Cancel, Return, Settled, Aborted
<1>3. Sharing' BY DEF Inv, TypeOK, Records, Sharing, Keys, Live, Cancel, Return, Settled, Aborted
<1>4. Keys' BY DEF Inv, TypeOK, Records, Sharing, Keys, Live, Cancel, Return, Settled, Aborted
<1> QED BY <1>1, <1>2, <1>3, <1>4 DEF Inv

LEMMA StutterInv == Inv /\ UNCHANGED vars => Inv'
BY DEF vars, Inv, TypeOK, Records, Sharing, Keys, Live

LEMMA NextInv == Inv /\ [Next]_vars => Inv'
<1> SUFFICES ASSUME Inv, [Next]_vars PROVE Inv' OBVIOUS
<1>1. CASE UNCHANGED vars BY <1>1, StutterInv
<1>2. CASE Next
  <2>1. PICK o \in Op : \/ \E k \in Key : FromCache(o, k) \/ Share(o, k)
                        \/ \E k \in Key \cup {NoKey} : Begin(o, k)
                        \/ Wake(o) \/ GraceFires(o)
                        \/ BodySucceeds(o) \/ BodyFails(o)
                        \/ Deadline(o) \/ LoserEnds(o) \/ Cancel(o)
    BY <1>2 DEF Next
  <2>2. CASE \E k \in Key : FromCache(o, k) \/ Share(o, k)
    BY <2>2, FromCacheInv, ShareInv
  <2>3. CASE \E k \in Key \cup {NoKey} : Begin(o, k)
    BY <2>3, BeginInv
  <2>4. CASE Wake(o) \/ GraceFires(o)
    BY <2>4, WakeInv, GraceFiresInv
  <2>5. CASE BodySucceeds(o) \/ BodyFails(o)
    BY <2>5, BodySucceedsInv, BodyFailsInv
  <2>6. CASE Deadline(o) \/ LoserEnds(o) \/ Cancel(o)
    BY <2>6, DeadlineInv, LoserEndsInv, CancelInv
  <2> QED BY <2>1, <2>2, <2>3, <2>4, <2>5, <2>6
<1> QED BY <1>1, <1>2

\* The record, its phase, the answer of its caller and the two maps of keys of
\* the service (env-tool.ts:147-157) move together in every behaviour.
THEOREM InvariantHolds == Spec => []Inv
<1>1. Init => Inv BY InitInv
<1>2. Inv /\ [Next]_vars => Inv' BY NextInv
<1> QED BY <1>1, <1>2, PTL DEF Spec

-----------------------------------------------------------------------------
\* The types, and that only bodies that lost their race are waited for
\* (trackUnwinding).
THEOREM TypeCorrect == Spec => []TypeOK
<1>1. Inv => TypeOK BY DEF Inv
<1> QED BY <1>1, InvariantHolds, PTL

LEMMA InvCallerAgrees == Inv => CallerAgrees
BY EnvAssumption DEF Inv, TypeOK, Records, Sharing, Keys, CallerAgrees

\* Every answer of run and runResource is what the record says, and a key yields
\* only a completed result, however settle, cancel and the timers interleave.
THEOREM CallersAgree == Spec => []CallerAgrees
BY InvCallerAgrees, InvariantHolds, PTL

LEMMA InvOneBody == Inv => OneBodyPerKey
<1> SUFFICES ASSUME Inv, NEW o \in Op, NEW p \in Op, o # p, key[o] = key[p],
                    key[o] # NoKey, state[o] = "running"
             PROVE  state[p] \notin {"running", "completed"}
    BY DEF OneBodyPerKey
<1>1. key[o] \in Key BY DEF Inv, TypeOK
<1>2. inflight[key[o]] = o BY <1>1 DEF Inv, Records, Keys
<1>3. byKey[key[o]] = NoOp BY <1>1, <1>2, EnvAssumption DEF Inv, Keys
<1>4. state[p] # "running" BY <1>1, <1>2 DEF Inv, Records, Keys
<1>5. state[p] # "completed" BY <1>1, <1>3 DEF Inv, Keys
<1> QED BY <1>4, <1>5

\* Calls with one idempotency key (run) never have two bodies alive, nor one
\* alive beside a completed result.
THEOREM OneBodyHolds == Spec => []OneBodyPerKey
BY InvOneBody, InvariantHolds, PTL

\* What EndedStaysEnded says of one step.
StaysEnded ==
    /\ \A o \in Op :
          /\ state[o] \in Terminal => /\ state'[o] = state[o]
                                      /\ phase'[o] = "runs" => phase[o] = "runs"
          /\ told[o] \notin {"none", "awaited"} => told'[o] = told[o]
    /\ \A k \in Key : byKey[k] # NoOp => byKey'[k] = byKey[k]

LEMMA CallsStayEnded ==
    ASSUME Inv, NEW o \in Op, NEW k \in Key \cup {NoKey},
           (k \in Key /\ (FromCache(o, k) \/ Share(o, k))) \/ Begin(o, k)
    PROVE  StaysEnded
<1>1. CASE FromCache(o, k)
    BY <1>1 DEF Inv, TypeOK, Records, StaysEnded, Terminal, FromCache
<1>2. CASE Share(o, k)
    BY <1>2 DEF Inv, TypeOK, Records, StaysEnded, Terminal, Share
<1>3. CASE Begin(o, k)
    BY <1>3 DEF Inv, TypeOK, Records, StaysEnded, Terminal, Begin
<1> QED BY <1>1, <1>2, <1>3

LEMMA WaitsStayEnded ==
    ASSUME Inv, NEW o \in Op, Wake(o) \/ GraceFires(o) \/ LoserEnds(o)
    PROVE  StaysEnded
<1>1. CASE Wake(o)
    BY <1>1 DEF Inv, TypeOK, Records, StaysEnded, Terminal, Wake
<1>2. CASE GraceFires(o)
    BY <1>2 DEF Inv, TypeOK, Records, StaysEnded, Terminal, GraceFires
<1>3. CASE LoserEnds(o)
    BY <1>3 DEF Inv, TypeOK, StaysEnded, LoserEnds
<1> QED BY <1>1, <1>2, <1>3

LEMMA EndsStayEnded ==
    ASSUME Inv, NEW o \in Op, BodySucceeds(o) \/ BodyFails(o) \/ Deadline(o) \/ Cancel(o)
    PROVE  StaysEnded
<1> USE EnvAssumption
<1>1. CASE BodySucceeds(o)
    BY <1>1 DEF Inv, TypeOK, Records, Sharing, Keys, Live, StaysEnded, Terminal,
                BodySucceeds, Return, Settled
<1>2. CASE BodyFails(o)
    BY <1>2 DEF Inv, TypeOK, Records, Sharing, Live, StaysEnded, Terminal,
                BodyFails, Return, Settled
<1>3. CASE Deadline(o)
    BY <1>3 DEF Inv, TypeOK, Records, Sharing, Live, StaysEnded, Terminal,
                Deadline, Return, Settled, Armed, Aborted
<1>4. CASE Cancel(o)
    BY <1>4 DEF Inv, TypeOK, Records, Sharing, Live, StaysEnded, Terminal,
                Cancel, Return, Settled, Aborted
<1> QED BY <1>1, <1>2, <1>3, <1>4

LEMMA NextStaysEnded == Inv /\ Next => StaysEnded
<1> SUFFICES ASSUME Inv, Next PROVE StaysEnded OBVIOUS
<1>1. PICK o \in Op : \/ \E k \in Key : FromCache(o, k) \/ Share(o, k)
                      \/ \E k \in Key \cup {NoKey} : Begin(o, k)
                      \/ Wake(o) \/ GraceFires(o)
                      \/ BodySucceeds(o) \/ BodyFails(o)
                      \/ Deadline(o) \/ LoserEnds(o) \/ Cancel(o)
    BY DEF Next
<1> QED BY <1>1, CallsStayEnded, WaitsStayEnded, EndsStayEnded

\* The first end of an operation is its last one (settle's compare-and-set), it
\* does not reach the port after it (afterUnwinding's throw), and neither an
\* answer nor the result of a key is ever replaced.
THEOREM EndedStaysEndedHolds == Spec => EndedStaysEnded
<1>1. Inv /\ [Next]_vars => [StaysEnded]_vars BY NextStaysEnded
<1>2. [][StaysEnded]_vars => EndedStaysEnded BY PTL DEF StaysEnded, EndedStaysEnded
<1> QED BY <1>1, <1>2, InvariantHolds, PTL DEF Spec

-----------------------------------------------------------------------------
\* The operation whose deadline answers a call: its own, or the one it shares.
Answerer(o) == IF shares[o] = NoOp THEN o ELSE shares[o]

\* Every call that waits has a deadline that is armed.
WaitsAreTimed == \A o \in Op :
    told[o] = "awaited" => Answerer(o) \in Op /\ Armed(Answerer(o))

\* That deadline answers it.
DeadlineAnswers == \A o \in Op :
    told[o] = "awaited" /\ Deadline(Answerer(o)) => told'[o] = "rejected"

LEMMA DeadlinesAnswer == Inv => DeadlineAnswers
<1> SUFFICES ASSUME Inv, NEW o \in Op, told[o] = "awaited", Deadline(Answerer(o))
             PROVE  told'[o] = "rejected"
  BY DEF DeadlineAnswers
<1>1. shares[o] = NoOp \/ shares[o] \in Op
  BY DEF Inv, TypeOK
<1> QED BY <1>1, EnvAssumption DEF Deadline, Return, Answerer

\* The safety half of EveryCallReturns: whoever waits, for its own body or for one it
\* shares, waits for a deadline that is armed and that answers it (armDeadline in run
\* and runResource, also of an operation that waits for other bodies or was cancelled).
\* That the timer fires is left to the fairness of the run.
THEOREM EveryWaitIsTimed == Spec => []WaitsAreTimed /\ [][DeadlineAnswers]_vars
<1>1. Inv => WaitsAreTimed
  BY EnvAssumption DEF Inv, TypeOK, Records, Sharing, Live, WaitsAreTimed, Answerer, Armed
<1>2. Inv /\ [Next]_vars => [DeadlineAnswers]_vars
  BY DeadlinesAnswer
<1> QED BY <1>1, <1>2, InvariantHolds, PTL DEF Spec

==============================================================================
