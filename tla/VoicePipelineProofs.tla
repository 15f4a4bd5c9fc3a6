------------------------ MODULE VoicePipelineProofs ------------------------
(***************************************************************************)
(* Proofs about VoicePipeline: sentences are heard in their order, one     *)
(* local request at a time is at the engine, and nobody waits for nothing; *)
(* for any number of sentences, turns and providers.                       *)
(***************************************************************************)
EXTENDS VoicePipeline, SequenceTheorems, FiniteSetTheorems, WellFoundedInduction, TLAPS

-----------------------------------------------------------------------------
(* Numbers in order *)

\* A set of numbers has a least one.
LEMMA Least ==
    ASSUME NEW S \in SUBSET Nat, S # {}
    PROVE  \E m \in S : \A k \in S : m <= k
<1>1. \E R : IsWellFoundedOn(R, Nat) /\ \A x, y \in Nat : <<x, y>> \in R <=> x < y
  <2> DEFINE R == OpToRel(<, Nat)
  <2>1. IsWellFoundedOn(R, Nat)
    BY NatLessThanWellFounded
  <2>2. \A x, y \in Nat : <<x, y>> \in R <=> x < y
    BY DEF OpToRel
  <2> HIDE DEF R
  <2> QED BY <2>1, <2>2
<1>2. PICK R : IsWellFoundedOn(R, Nat) /\ \A x, y \in Nat : <<x, y>> \in R <=> x < y
  BY <1>1
<1>3. IsWellFoundedOn(R, Nat) /\ S \subseteq Nat
  BY <1>2
<1>4. PICK m \in S : \A k \in S : ~ (<<k, m>> \in R)
  BY <1>3, WFMin
<1>5. \A k \in S : m <= k
  <2> TAKE k \in S
  <2>1. k \in Nat /\ m \in Nat
    OBVIOUS
  <2>2. ~ (k < m)
    BY <1>2, <1>4, <2>1
  <2> QED BY <2>1, <2>2
<1> QED BY <1>5

\* How many of K are not above i.
Rank(K, i) == Cardinality({h \in K : h <= i})

\* The numbers of a finite set have the ranks from one to its size.
LEMMA Ranks ==
    ASSUME NEW K \in SUBSET Nat, IsFiniteSet(K)
    PROVE  /\ \A i \in K : Rank(K, i) \in 1..Cardinality(K)
           /\ \A i, l \in K : i < l => Rank(K, i) < Rank(K, l)
           /\ \A j \in 1..Cardinality(K) : \E i \in K : Rank(K, i) = j
<1> DEFINE B(i) == {h \in K : h <= i}
<1>0. \A i \in K : IsFiniteSet(B(i)) /\ Cardinality(B(i)) \in Nat
                   /\ Cardinality(B(i)) <= Cardinality(K)
  BY FS_Subset, FS_CardinalityType
<1>1. Cardinality(K) \in Nat
  BY FS_CardinalityType
<1>2. \A i \in K : Cardinality(B(i)) \in 1..Cardinality(K)
  <2>1. \A i \in K : B(i) # {}
    OBVIOUS
  <2> HIDE DEF B
  <2> QED BY <1>0, <1>1, <2>1, FS_EmptySet
<1>3. \A i, l \in K : i < l => Cardinality(B(i)) < Cardinality(B(l))
  <2> SUFFICES ASSUME NEW i \in K, NEW l \in K, i < l
               PROVE  Cardinality(B(i)) < Cardinality(B(l))
    OBVIOUS
  <2>0. \A h \in K : h \in Nat
    OBVIOUS
  <2>1. \A h \in K : h <= i => h <= l
    BY <2>0
  <2>2. B(i) \in SUBSET B(l)
    BY <2>1
  <2>3. l \in B(l) /\ l \notin B(i)
    BY <2>0
  <2> HIDE DEF B
  <2> QED BY <1>0, <2>2, <2>3, FS_Subset
<1> DEFINE f == [i \in K |-> Cardinality(B(i))]
<1>4. f \in Injection(K, 1..Cardinality(K))
  <2>1. f \in [K -> 1..Cardinality(K)]
    BY <1>2
  <2>2. \A i, l \in K : f[i] = f[l] => i = l
    <3> HIDE DEF B
    <3>1. \A i \in K : f[i] \in Nat /\ i \in Nat
      BY <1>0
    <3> QED BY <1>3, <3>1
  <2> HIDE DEF f
  <2> QED BY <2>1, <2>2 DEF Injection, IsInjective
<1>5. f \in Surjection(K, 1..Cardinality(K))
  <2> HIDE DEF f
  <2> QED BY <1>1, <1>4, FS_Injection, FS_Interval
<1>6. \A j \in 1..Cardinality(K) : \E i \in K : f[i] = j
  <2> HIDE DEF f
  <2> QED BY <1>5 DEF Surjection
<1> HIDE DEF B
<1>7. \A i \in K : Rank(K, i) = Cardinality(B(i)) /\ f[i] = Cardinality(B(i))
  BY DEF Rank, B
<1> HIDE DEF f
<1> QED BY <1>2, <1>3, <1>6, <1>7

\* The numbers of a finite set, listed in their order.
LEMMA Listed ==
    ASSUME NEW K \in SUBSET Nat, IsFiniteSet(K)
    PROVE  /\ Cardinality(K) \in Nat
           /\ \A j \in 1..Cardinality(K) : Nth(K, j) \in K
           /\ \A i, j \in 1..Cardinality(K) : i < j => Nth(K, i) < Nth(K, j)
           /\ \A k \in K : \E j \in 1..Cardinality(K) : Nth(K, j) = k
<1>1. Cardinality(K) \in Nat
  BY FS_CardinalityType
<1>2. \A j \in 1..Cardinality(K) : Nth(K, j) \in K /\ Rank(K, Nth(K, j)) = j
  BY Ranks DEF Nth, Rank
<1>3. \A i, j \in 1..Cardinality(K) : i < j => Nth(K, i) < Nth(K, j)
  <2> SUFFICES ASSUME NEW i \in 1..Cardinality(K), NEW j \in 1..Cardinality(K),
                      i < j, ~(Nth(K, i) < Nth(K, j))
               PROVE  FALSE
    OBVIOUS
  <2>1. PICK x \in K : x = Nth(K, i) /\ Rank(K, x) = i
    BY <1>2
  <2>2. PICK y \in K : y = Nth(K, j) /\ Rank(K, y) = j
    BY <1>2
  <2>3. y = x \/ y < x
    BY <2>1, <2>2
  <2> QED BY <2>1, <2>2, <2>3, <1>1, Ranks
<1>4. \A k \in K : \E j \in 1..Cardinality(K) : Nth(K, j) = k
  <2> SUFFICES ASSUME NEW k \in K
               PROVE  \E j \in 1..Cardinality(K) : Nth(K, j) = k
    OBVIOUS
  <2>1. PICK j \in 1..Cardinality(K) : Rank(K, k) = j
    BY Ranks
  <2>2. PICK x \in K : x = Nth(K, j) /\ Rank(K, x) = j
    BY <1>2
  <2>3. \A i, l \in K : i < l => Rank(K, i) < Rank(K, l)
    BY Ranks
  <2>4. x = k
    BY <2>1, <2>2, <2>3
  <2> QED BY <2>2, <2>4
<1> QED BY <1>1, <1>2, <1>3, <1>4

\* In more places than there are pairs, one place is in no pair; and the first
\* such place is where the run of filled places ends.
LEMMA RunEnds ==
    ASSUME NEW c \in Nat, NEW P, IsFiniteSet(P), NEW S, P \subseteq Nat \X S
    PROVE  \E m \in c..(c + Cardinality(P)) :
               m \notin {e[1] : e \in P} /\ c..(m - 1) \subseteq {e[1] : e \in P}
<1> DEFINE seqs == {e[1] : e \in P}
           f == [e \in P |-> e[1]]
<1>1. Cardinality(P) \in Nat
  BY FS_CardinalityType
<1>2. seqs \subseteq Nat /\ f \in Surjection(P, seqs)
  BY DEF Surjection
<1>3. IsFiniteSet(seqs) /\ Cardinality(seqs) <= Cardinality(P)
  <2> HIDE DEF f, seqs
  <2> QED BY <1>2, FS_Surjection
<1> DEFINE I == c..(c + Cardinality(P))
<1>4. Cardinality(I) = Cardinality(P) + 1 /\ IsFiniteSet(I)
  BY <1>1, FS_Interval
<1>5. Cardinality(seqs) \in Nat
  <2> HIDE DEF seqs
  <2> QED BY <1>3, FS_CardinalityType
<1>6. ~(I \subseteq seqs)
  <2> HIDE DEF I, seqs
  <2>1. I \subseteq seqs => Cardinality(I) <= Cardinality(seqs)
    BY <1>3, FS_Subset
  <2> QED BY <2>1, <1>1, <1>3, <1>4, <1>5
<1>7. PICK m \in I \ seqs : \A k \in I \ seqs : m <= k
  <2>1. I \ seqs \in SUBSET Nat /\ I \ seqs # {}
    BY <1>1, <1>6
  <2> HIDE DEF I, seqs
  <2> QED BY <2>1, Least
<1>8. c..(m - 1) \subseteq seqs
  <2> SUFFICES ASSUME NEW k \in c..(m - 1), k \notin seqs PROVE FALSE
    OBVIOUS
  <2> HIDE DEF seqs
  <2>1. k \in I \ seqs /\ k < m /\ m \in Nat /\ k \in Nat
    BY <1>1, <1>7
  <2> HIDE DEF I
  <2> QED BY <1>7, <2>1
<1> QED BY <1>7, <1>8

-----------------------------------------------------------------------------
(* The invariant *)

\* What the field of a queue that names a request may hold.
Slots == Req \cup {NoReq}

\* The states of an AudioQueue, in order or not.
Queue ==
    [items : Seq(Req), current : Slots, fresh : BOOLEAN, started : BOOLEAN,
     playing : BOOLEAN, paused : BOOLEAN, cursor : Nat, next : Nat,
     pend : SUBSET (Nat \X Slots), over : SUBSET Req,
     mic : {"open", "paused", "off"}, cooldown : BOOLEAN, activity : BOOLEAN]

\* The states of the scheduler,
Sched == [gen : 0..MaxGen, count : Nat, released : BOOLEAN, timer : BOOLEAN]
\* What requests captured,
Infos == [Req -> [epoch : Nat, gen : Nat, seq : Nat, local : BOOLEAN]]
\* their audio,
Sources == [Req -> {"silent", "sounding", "complete", "whole", "empty"}]
\* and their promises.
States == [Req -> {"idle", "waiting", "synth", "utter", "done"}]

\* The types of the variables, and the generation of the scheduler counts no
\* further than the lives of the queue.
Types ==
    /\ q \in Queue
    /\ sched \in Sched
    /\ tail \in Seq(Req)
    /\ status \in States
    /\ active \subseteq Req
    /\ info \in Infos
    /\ src \in Sources
    /\ nextReq \in 1..(MaxReq + 1)
    /\ epoch \in 0..MaxGen
    /\ sched.gen <= epoch
    /\ session \in [up : BOOLEAN, provider : Providers]

\* What is active was sent in this turn, and nothing was sent in a later one.
Sent ==
    /\ \A r \in Req : r >= nextReq => status[r] = "idle"
    /\ \A r \in active : r < nextReq /\ info[r].epoch = epoch
    /\ \A r \in Req : r < nextReq => info[r].epoch <= epoch

\* The chain holds each local request that has not settled, once, and only its
\* head is at the engine.
Chain ==
    /\ \A i \in DOMAIN tail :
          /\ tail[i] < nextReq /\ info[tail[i]].local
          /\ status[tail[i]] = "waiting" \/ (i = 1 /\ status[tail[i]] = "synth")
    /\ \A i, j \in DOMAIN tail : tail[i] = tail[j] => i = j
    /\ \A r \in Req : info[r].local /\ status[r] = "synth" => tail # <<>> /\ tail[1] = r

\* The queue plays exactly while it has an item, and a paused microphone waits
\* for its end or for the end of the cooldown.
Audible(a) ==
    /\ a.playing <=> a.current # NoReq
    /\ a.mic = "paused" => a.playing \/ a.cooldown

\* Playback is held for somebody who will open the window.
Held ==
    q.paused =>
        /\ ~sched.released
        /\ \/ sched.timer
           \/ \E r \in active : /\ info[r].local /\ info[r].gen = sched.gen
                                /\ status[r] \in {"waiting", "synth"}

\* The requests of this turn, and their places in the order of play.
Turn == {r \in Req : r < nextReq /\ info[r].epoch = epoch}
Place == [r \in Req |-> info[r].seq]

\* Each request of the turn T has a place of its own, below the next one.
OwnPlaces(T, n, next) ==
    \A r, p \in T : n[r] < next /\ (n[r] = n[p] => r = p)

\* What waits to be played, and what plays, stands in the order of the places,
\* and before the cursor.
Lined(a, T, n) ==
    /\ \A i \in DOMAIN a.items : a.items[i] \in T /\ n[a.items[i]] < a.cursor
    /\ \A i, j \in DOMAIN a.items : i < j => n[a.items[i]] < n[a.items[j]]
    /\ a.current # NoReq =>
          /\ a.current \in T /\ n[a.current] < a.cursor
          /\ \A i \in DOMAIN a.items : n[a.current] < n[a.items[i]]

\* Nothing before the cursor is lost: it is over, plays or will be played.
Accounted(a, T, n) ==
    \A r \in T : n[r] < a.cursor =>
        r \in a.over \/ r = a.current \/ \E i \in DOMAIN a.items : a.items[i] = r

\* What has come too early has its place at or behind the cursor, the right
\* one; a place that was skipped is that of a request that is over.
Waiting(a, T, n) ==
    /\ IsFiniteSet(a.pend)
    /\ \A e \in a.pend :
          /\ a.cursor <= e[1] /\ e[1] < a.next
          /\ e[2] # NoReq => e[2] \in T /\ n[e[2]] = e[1]
          /\ e[2] = NoReq => \A r \in T : n[r] = e[1] => r \in a.over
    /\ \A e, f \in a.pend : e[1] = f[1] => e = f

\* The order of play of the turn T with the places n.
InOrder(a, T, n) ==
    a.cursor <= a.next /\ Lined(a, T, n) /\ Accounted(a, T, n) /\ Waiting(a, T, n)

\* The place m is not yet filled.
Free(a, m) == m >= a.cursor /\ \A e \in a.pend : e[1] # m

\* The place of a cloud request that is to be answered is not filled by another.
Owed == \A r \in active : status[r] = "synth" /\ ~info[r].local => Free(q, info[r].seq)

\* The places of this turn are its own, in order, and those of what is owed are free.
Places == OwnPlaces(Turn, Place, q.next) /\ InOrder(q, Turn, Place) /\ Owed

\* The inductive invariant.
IInv == Types /\ Sent /\ Chain /\ Audible(q) /\ Held /\ Places

-----------------------------------------------------------------------------
(* The audio queue: playing *)

\* What starting an item leaves alone.
LEMMA StartType ==
    ASSUME NEW a \in Queue
    PROVE  /\ ItemStarts(a) \in Queue
           /\ ItemStarts(a).items = a.items /\ ItemStarts(a).current = a.current
           /\ ItemStarts(a).cursor = a.cursor /\ ItemStarts(a).next = a.next
           /\ ItemStarts(a).pend = a.pend /\ ItemStarts(a).over = a.over
           /\ ItemStarts(a).paused = a.paused /\ ItemStarts(a).playing = a.playing
  BY DEF ItemStarts, Queue

\* What the end of playback leaves alone.
LEMMA EndType ==
    ASSUME NEW a \in Queue
    PROVE  /\ PlaybackEnd(a) \in Queue
           /\ PlaybackEnd(a).items = a.items /\ PlaybackEnd(a).current = a.current
           /\ PlaybackEnd(a).cursor = a.cursor /\ PlaybackEnd(a).next = a.next
           /\ PlaybackEnd(a).pend = a.pend /\ PlaybackEnd(a).over = a.over
           /\ PlaybackEnd(a).paused = a.paused /\ ~PlaybackEnd(a).playing
           /\ PlaybackEnd(a).cooldown
  BY DEF PlaybackEnd, Queue

\* b is a with its k-th item playing, the ones before it over; or with all over.
Plays1(a, b, k) ==
    /\ b.items = SubSeq(a.items, k + 1, Len(a.items))
    /\ b.current = a.items[k]
    /\ b.over = a.over \cup {a.items[j] : j \in 1..(k - 1)}

\* b is a with every item over.
RunsDry(a, b) ==
    b.items = <<>> /\ b.current = NoReq /\ b.over = a.over \cup ToSet(a.items)

\* What playNext may do to the items.
PlaysOn(a, b) == RunsDry(a, b) \/ \E k \in DOMAIN a.items : Plays1(a, b, k)

\* What playNext never touches.
Same(a, b) ==
    b.cursor = a.cursor /\ b.next = a.next /\ b.pend = a.pend /\ b.paused = a.paused

\* playNext either plays an item, and the ones before it are over, or runs dry.
LEMMA PlayNextFacts ==
    ASSUME NEW a \in Queue, NEW s, NEW b, a.current = NoReq, b = PlayNext(a, s)
    PROVE  b \in Queue /\ Same(a, b) /\ Audible(b) /\ PlaysOn(a, b)
<1> DEFINE sound == {k \in DOMAIN a.items : s[a.items[k]] # "empty"}
           dry == [a EXCEPT !.items = <<>>, !.over = @ \cup ToSet(a.items)]
<1>1. CASE sound = {}
  <2>1. b = PlaybackEnd(dry)
    BY <1>1 DEF PlayNext
  <2>2. a.items \in Seq(Req) /\ ToSet(a.items) \subseteq Req /\ <<>> \in Seq(Req)
    BY DEF Queue, ToSet
  <2>3. /\ dry \in Queue /\ dry.items = <<>> /\ dry.current = NoReq
        /\ dry.over = a.over \cup ToSet(a.items)
        /\ dry.cursor = a.cursor /\ dry.next = a.next /\ dry.pend = a.pend
        /\ dry.paused = a.paused
    <3> HIDE DEF sound
    <3> QED BY <2>2 DEF Queue
  <2> HIDE DEF dry
  <2> QED BY <2>1, <2>3, EndType DEF Same, Audible, PlaysOn, RunsDry
<1>2. CASE sound # {}
  <2> DEFINE k0 == CHOOSE i \in sound : \A j \in sound : i <= j
  <2>1. sound \in SUBSET Nat
    BY DEF Queue
  <2>2. k0 \in sound
    <3>1. \E i \in sound : \A j \in sound : i <= j
      <4> HIDE DEF sound
      <4> QED BY <1>2, <2>1, Least
    <3> HIDE DEF sound
    <3> QED BY <3>1
  <2> DEFINE p0 == [a EXCEPT !.items = SubSeq(@, k0 + 1, Len(@)),
                       !.over = @ \cup {a.items[j] : j \in 1..(k0 - 1)},
                       !.current = a.items[k0], !.started = FALSE, !.playing = TRUE,
                       !.fresh = ~a.playing /\ k0 = 1]
  <2>3. b = IF s[a.items[k0]] \in {"sounding", "complete"} THEN ItemStarts(p0) ELSE p0
    BY <1>2 DEF PlayNext
  <2>4. PICK k \in DOMAIN a.items : k = k0
    BY <2>2
  <2>5. PICK p : p = p0
    OBVIOUS
  <2>6. b = ItemStarts(p) \/ b = p
    <3> HIDE DEF p0, k0
    <3> QED BY <2>3, <2>5
  <2>7. p = [a EXCEPT !.items = SubSeq(@, k + 1, Len(@)),
                       !.over = @ \cup {a.items[j] : j \in 1..(k - 1)},
                       !.current = a.items[k], !.started = FALSE, !.playing = TRUE,
                       !.fresh = ~a.playing /\ k = 1]
    <3> HIDE DEF k0
    <3> QED BY <2>4, <2>5
  <2> HIDE DEF p0, k0, sound
  <2>8. /\ a.items \in Seq(Req) /\ k \in 1..Len(a.items) /\ a.items[k] \in Req
        /\ SubSeq(a.items, k + 1, Len(a.items)) \in Seq(Req)
        /\ {a.items[j] : j \in 1..(k - 1)} \subseteq Req
    BY DEF Queue
  <2>9. /\ p \in Queue /\ Plays1(a, p, k) /\ Same(a, p) /\ p.playing
    BY <2>7, <2>8 DEF Queue, Plays1, Same, Slots
  <2>10. p.current # NoReq
    BY <2>8, <2>9, VoiceAssumption DEF Plays1, Req, NoReq
  <2>11. Audible(p) /\ Audible(ItemStarts(p))
    BY <2>9, <2>10, StartType DEF Audible
  <2>12. /\ ItemStarts(p) \in Queue /\ Same(a, ItemStarts(p)) /\ Plays1(a, ItemStarts(p), k)
    BY <2>9, StartType DEF Same, Plays1
  <2> QED BY <2>6, <2>9, <2>11, <2>12 DEF PlaysOn
<1> QED BY <1>1, <1>2

\* A step of the queue that keeps the order, whatever the turn and its places.
Keeps(a, b) ==
    \A T \in SUBSET Req, n \in [Req -> Nat] : InOrder(a, T, n) => InOrder(b, T, n)

\* What b may assume if it comes from a by a step of the queue.
Moves(a, b) ==
    /\ b \in Queue /\ Audible(b) /\ Keeps(a, b)
    /\ b.next = a.next
    /\ \A m \in Nat : Free(a, m) => Free(b, m)
    /\ b.paused => a.paused

\* What is left of a sequence behind its k-th element.
LEMMA Rest ==
    ASSUME NEW S, NEW w \in Seq(S), NEW k \in 1..Len(w), NEW v, v = SubSeq(w, k + 1, Len(w))
    PROVE  /\ DOMAIN v = 1..(Len(w) - k)
           /\ \A i \in DOMAIN v : i + k \in DOMAIN w /\ v[i] = w[i + k]
<1>1. Len(w) \in Nat /\ DOMAIN w = 1..Len(w)
  OBVIOUS
<1>2. v = [i \in 1..(Len(w) - k) |-> w[i + k]]
  BY <1>1, SubSeqProperties
<1> QED BY <1>1, <1>2

\* Passing over items and playing the next one keeps the order.
LEMMA PlayInOrder ==
    ASSUME NEW T \in SUBSET Req, NEW n \in [Req -> Nat], NEW a \in Queue, NEW b \in Queue,
           a.current = NoReq, InOrder(a, T, n), Same(a, b), PlaysOn(a, b)
    PROVE  InOrder(b, T, n)
<1>0. a.items \in Seq(Req)
  BY DEF Queue
<1>1. CASE RunsDry(a, b)
  <2>1. Lined(b, T, n)
    BY <1>1 DEF RunsDry, Lined
  <2>2. Accounted(b, T, n)
    <3> SUFFICES ASSUME NEW r \in T, n[r] < b.cursor PROVE r \in b.over
      BY DEF Accounted
    <3>1. r # NoReq
      BY VoiceAssumption DEF Req, NoReq
    <3>2. r \in a.over \/ \E i \in DOMAIN a.items : a.items[i] = r
      BY <3>1 DEF InOrder, Accounted, Same
    <3> QED BY <1>1, <3>2 DEF RunsDry, ToSet
  <2>3. Waiting(b, T, n)
    BY <1>1 DEF InOrder, Waiting, RunsDry, Same
  <2> QED BY <2>1, <2>2, <2>3 DEF InOrder, Same
<1>2. ASSUME NEW k \in DOMAIN a.items, Plays1(a, b, k)
      PROVE  InOrder(b, T, n)
  <2>0. k \in 1..Len(a.items) /\ a.items[k] \in T /\ n[a.items[k]] \in Nat
    BY <1>0 DEF InOrder, Lined
  <2>1. /\ DOMAIN b.items = 1..(Len(a.items) - k)
        /\ \A i \in DOMAIN b.items : i + k \in DOMAIN a.items /\ b.items[i] = a.items[i + k]
    <3>1. PICK v : v = SubSeq(a.items, k + 1, Len(a.items))
      OBVIOUS
    <3>2. b.items = v /\ k \in 1..Len(a.items)
      BY <1>2, <2>0, <3>1 DEF Plays1
    <3>3. PICK w \in Seq(Req) : w = a.items
      BY <1>0
    <3>4. /\ DOMAIN v = 1..(Len(w) - k)
          /\ \A i \in DOMAIN v : i + k \in DOMAIN w /\ v[i] = w[i + k]
      BY <3>1, <3>2, <3>3, Rest
    <3> QED BY <3>2, <3>3, <3>4
  <2>2. Lined(b, T, n)
    <3>1. \A i \in DOMAIN b.items : b.items[i] \in T /\ n[b.items[i]] < b.cursor
      BY <2>1 DEF InOrder, Lined, Same
    <3>2. \A i, j \in DOMAIN b.items : i < j => n[b.items[i]] < n[b.items[j]]
      <4> SUFFICES ASSUME NEW i \in DOMAIN b.items, NEW j \in DOMAIN b.items, i < j
                   PROVE  n[b.items[i]] < n[b.items[j]]
        OBVIOUS
      <4>1. i + k < j + k /\ i + k \in DOMAIN a.items /\ j + k \in DOMAIN a.items
        BY <2>1, <2>0
      <4> QED BY <2>1, <4>1 DEF InOrder, Lined
    <3>3. b.current \in T /\ n[b.current] < b.cursor
      BY <1>2, <2>0 DEF Plays1, InOrder, Lined, Same
    <3>4. \A i \in DOMAIN b.items : n[b.current] < n[b.items[i]]
      <4> SUFFICES ASSUME NEW i \in DOMAIN b.items
                   PROVE  n[b.current] < n[b.items[i]]
        OBVIOUS
      <4>1. k < i + k /\ i + k \in DOMAIN a.items
        BY <2>1, <2>0
      <4> QED BY <1>2, <2>1, <4>1 DEF InOrder, Lined, Plays1
    <3> QED BY <3>1, <3>2, <3>3, <3>4 DEF Lined
  <2>3. Accounted(b, T, n)
    <3> SUFFICES ASSUME NEW r \in T, n[r] < b.cursor
                 PROVE  r \in b.over \/ r = b.current \/ \E i \in DOMAIN b.items : b.items[i] = r
      BY DEF Accounted
    <3>1. r # NoReq
      BY VoiceAssumption DEF Req, NoReq
    <3>2. r \in a.over \/ \E i \in DOMAIN a.items : a.items[i] = r
      BY <3>1 DEF InOrder, Accounted, Same
    <3>3. ASSUME NEW i \in DOMAIN a.items, a.items[i] = r
          PROVE  r \in b.over \/ r = b.current \/ \E h \in DOMAIN b.items : b.items[h] = r
      <4>0. i \in 1..Len(a.items)
        BY <1>0
      <4>1. CASE i < k
        <5>1. i \in 1..(k - 1)
          BY <4>0, <4>1, <2>0
        <5> QED BY <5>1, <3>3, <1>2 DEF Plays1
      <4>2. CASE i = k
        BY <4>2, <3>3, <1>2 DEF Plays1
      <4>3. CASE i > k
        <5>1. i - k \in DOMAIN b.items /\ (i - k) + k = i
          BY <4>0, <4>3, <2>0, <2>1
        <5>2. b.items[i - k] = a.items[i]
          BY <5>1, <2>1
        <5> QED BY <5>1, <5>2, <3>3
      <4> QED BY <4>0, <4>1, <4>2, <4>3, <2>0
    <3> QED BY <3>2, <3>3, <1>2 DEF Plays1
  <2>4. Waiting(b, T, n)
    BY <1>2 DEF InOrder, Waiting, Plays1, Same
  <2> QED BY <2>2, <2>3, <2>4 DEF InOrder, Same
<1> QED BY <1>1, <1>2 DEF PlaysOn

\* playNext is a step of the queue.
LEMMA PlayMoves ==
    ASSUME NEW a \in Queue, NEW s, NEW b, a.current = NoReq, b = PlayNext(a, s)
    PROVE  Moves(a, b) /\ Same(a, b)
<1>1. b \in Queue /\ Same(a, b) /\ Audible(b) /\ PlaysOn(a, b)
  BY PlayNextFacts
<1>2. Keeps(a, b)
  BY <1>1, PlayInOrder DEF Keeps
<1> QED BY <1>1, <1>2 DEF Moves, Same, Free

\* So is the start of the item's sound,
LEMMA StartMoves ==
    ASSUME NEW a \in Queue, Audible(a), a.current # NoReq
    PROVE  Moves(a, ItemStarts(a))
<1>1. Keeps(a, ItemStarts(a))
  BY StartType DEF Keeps, InOrder, Lined, Accounted, Waiting
<1>2. Audible(ItemStarts(a))
  BY StartType DEF Audible
<1> QED BY <1>1, <1>2, StartType DEF Moves, Free

\* and the end of the current item: it is over, and the next one plays,
LEMMA AdvanceMoves ==
    ASSUME NEW a \in Queue, NEW s, a.current # NoReq
    PROVE  Moves(a, Advance(a, s))
<1> DEFINE c0 == [a EXCEPT !.over = @ \cup {a.current}, !.current = NoReq]
<1>1. PICK c : c = c0
  OBVIOUS
<1>2. /\ c \in Queue /\ c.current = NoReq /\ c.over = a.over \cup {a.current}
      /\ c.items = a.items /\ Same(a, c)
  BY <1>1 DEF Queue, Same, Slots
<1>3. Advance(a, s) = PlayNext(c, s)
  BY <1>1 DEF Advance
<1> HIDE DEF c0
<1>4. Keeps(a, c)
  BY <1>2 DEF Keeps, InOrder, Lined, Accounted, Waiting, Same
<1>5. PICK b : b = Advance(a, s)
  OBVIOUS
<1>6. Moves(c, b) /\ Same(c, b)
  BY <1>2, <1>3, <1>5, PlayMoves
<1>7. Moves(a, b)
  BY <1>2, <1>4, <1>6 DEF Moves, Keeps, Same, Free
<1> QED BY <1>5, <1>7

\* and doing nothing.
LEMMA StaysMoves ==
    ASSUME NEW a \in Queue, Audible(a)
    PROVE  Moves(a, a)
  BY DEF Moves, Keeps

\* Resuming playback is a step of the queue, after which nothing is held.
LEMMA ResumeMoves ==
    ASSUME NEW a \in Queue, NEW s, Audible(a)
    PROVE  Moves(a, ResumePlayback(a, s)) /\ ~ResumePlayback(a, s).paused
<1> DEFINE c0 == [a EXCEPT !.paused = FALSE]
<1>1. PICK c : c = c0
  OBVIOUS
<1>2. /\ c \in Queue /\ ~c.paused /\ c.items = a.items /\ c.current = a.current
      /\ c.over = a.over /\ c.cursor = a.cursor /\ c.next = a.next /\ c.pend = a.pend
      /\ c.playing = a.playing /\ c.mic = a.mic /\ c.cooldown = a.cooldown
  BY <1>1 DEF Queue
<1>3. ResumePlayback(a, s) = IF a.playing \/ a.items = <<>> THEN c ELSE PlayNext(c, s)
  BY <1>1 DEF ResumePlayback
<1> HIDE DEF c0
<1>4. Keeps(a, c) /\ Audible(c)
  BY <1>2 DEF Keeps, InOrder, Lined, Accounted, Waiting, Audible
<1>5. CASE a.playing \/ a.items = <<>>
  BY <1>2, <1>3, <1>4, <1>5 DEF Moves, Free
<1>6. CASE ~(a.playing \/ a.items = <<>>)
  <2>1. PICK b : b = ResumePlayback(a, s)
    OBVIOUS
  <2>2. c.current = NoReq
    BY <1>2, <1>6 DEF Audible
  <2>3. Moves(c, b) /\ Same(c, b)
    BY <1>2, <1>3, <1>6, <2>1, <2>2, PlayMoves
  <2>4. Moves(a, b) /\ ~b.paused
    BY <1>2, <1>4, <2>3 DEF Moves, Keeps, Same, Free
  <2> QED BY <2>1, <2>4
<1> QED BY <1>5, <1>6

\* The elements of two sequences, joined.
LEMMA Joined ==
    ASSUME NEW S, NEW v \in Seq(S), NEW w \in Seq(S), NEW z, z = v \o w
    PROVE  /\ z \in Seq(S)
           /\ \A i \in DOMAIN v : i \in DOMAIN z /\ z[i] = v[i]
           /\ \A i \in DOMAIN w : i + Len(v) \in DOMAIN z /\ z[i + Len(v)] = w[i]
           /\ \A i \in DOMAIN z : i \in DOMAIN v \/ i - Len(v) \in DOMAIN w
<1>1. z \in Seq(S) /\ Len(z) = Len(v) + Len(w) /\ Len(v) \in Nat /\ Len(w) \in Nat
  BY ConcatProperties
<1>2. DOMAIN z = 1..(Len(v) + Len(w)) /\ DOMAIN v = 1..Len(v) /\ DOMAIN w = 1..Len(w)
  BY <1>1
<1>3. \A i \in DOMAIN v : z[i] = v[i]
  BY <1>1, <1>2
<1>4. \A i \in DOMAIN w : z[i + Len(v)] = w[i]
  BY <1>1, <1>2
<1> QED BY <1>1, <1>2, <1>3, <1>4

\* c is a with the run of filled places from the cursor to m moved into the
\* queue: `run' lists what fills them, `at' their places.
Moved(a, c, m, run, at) ==
    /\ a.cursor <= m /\ a.cursor..(m - 1) \subseteq {e[1] : e \in a.pend}
    /\ \A e \in a.pend : e[1] # m
    /\ c.cursor = m /\ c.pend = {e \in a.pend : e[1] >= m} /\ c.items = a.items \o run
    /\ DOMAIN at = DOMAIN run
    /\ \A j \in DOMAIN run : at[j] < m /\ run[j] # NoReq /\ <<at[j], run[j]>> \in a.pend
    /\ \A i, j \in DOMAIN run : i < j => at[i] < at[j]
    /\ \A e \in a.pend : e[1] < m /\ e[2] # NoReq => \E j \in DOMAIN run : run[j] = e[2]
    /\ c.next = a.next /\ c.current = a.current /\ c.over = a.over

\* flushOrdered moves the run at the cursor, then plays if nothing plays yet.
LEMMA FlushMoves ==
    ASSUME NEW a \in Queue, NEW s, Audible(a), IsFiniteSet(a.pend),
           \A e, f \in a.pend : e[1] = f[1] => e = f,
           \A e \in a.pend : a.cursor <= e[1]
    PROVE  \E c \in Queue, m \in Nat, run \in Seq(Req), at \in Seq(Nat) :
               /\ Moved(a, c, m, run, at) /\ Audible(c) /\ c.paused = a.paused
               /\ \/ FlushOrdered(a, s) = c
                  \/ FlushOrdered(a, s) = PlayNext(c, s) /\ c.current = NoReq
<1> DEFINE seqs == {e[1] : e \in a.pend}
           stop == CHOOSE m \in a.cursor..(a.cursor + Cardinality(a.pend)) :
                    m \notin seqs /\ a.cursor..(m - 1) \subseteq seqs
           at(i) == (CHOOSE e \in a.pend : e[1] = i)[2]
           filled == {i \in a.cursor..(stop - 1) : at(i) # NoReq}
           run == [j \in 1..Cardinality(filled) |-> at(Nth(filled, j))]
           c == [a EXCEPT !.items = @ \o run, !.cursor = stop,
                       !.pend = {e \in @ : e[1] >= stop}]
           where == [j \in 1..Cardinality(filled) |-> Nth(filled, j)]
<1>1. FlushOrdered(a, s) = IF filled = {} \/ c.playing \/ c.paused THEN c ELSE PlayNext(c, s)
  BY DEF FlushOrdered
<1>2. a.cursor \in Nat /\ a.pend \subseteq Nat \X Slots
  BY DEF Queue
<1>3. Cardinality(a.pend) \in Nat
  BY FS_CardinalityType
<1>4. \E m \in a.cursor..(a.cursor + Cardinality(a.pend)) :
                    m \notin seqs /\ a.cursor..(m - 1) \subseteq seqs
  BY <1>2, RunEnds
<1>5. PICK m \in Nat : /\ m = stop /\ a.cursor <= m
                       /\ m \notin seqs /\ a.cursor..(m - 1) \subseteq seqs
  <2>1. stop \in a.cursor..(a.cursor + Cardinality(a.pend))
         /\ stop \notin seqs /\ a.cursor..(stop - 1) \subseteq seqs
    BY <1>4
  <2> HIDE DEF stop, seqs
  <2> QED BY <2>1, <1>2, <1>3
<1>6. \A i \in a.cursor..(m - 1) : <<i, at(i)>> \in a.pend
  <2> SUFFICES ASSUME NEW i \in a.cursor..(m - 1) PROVE <<i, at(i)>> \in a.pend
    OBVIOUS
  <2>1. \E e \in a.pend : e[1] = i
    BY <1>5
  <2>2. PICK e \in a.pend : e = CHOOSE x \in a.pend : x[1] = i
    BY <2>1
  <2>3. e[1] = i /\ e[2] = at(i)
    BY <2>1, <2>2
  <2>4. e = <<e[1], e[2]>>
    BY <1>2
  <2> HIDE DEF at
  <2> QED BY <2>3, <2>4
<1>7. \A e \in a.pend : e[1] < m /\ a.cursor <= e[1] => e[2] = at(e[1])
  <2> SUFFICES ASSUME NEW e \in a.pend, e[1] < m, a.cursor <= e[1] PROVE e[2] = at(e[1])
    OBVIOUS
  <2>1. PICK f \in a.pend : f = CHOOSE x \in a.pend : x[1] = e[1]
    OBVIOUS
  <2>2. f[1] = e[1] /\ f[2] = at(e[1])
    BY <2>1
  <2> HIDE DEF at
  <2> QED BY <2>2
<1>8. PICK K : K = filled
  OBVIOUS
<1>9. K = {i \in a.cursor..(m - 1) : at(i) # NoReq}
  BY <1>5, <1>8
<1> HIDE DEF filled, stop, seqs, at
<1>10. K \in SUBSET Nat /\ IsFiniteSet(K)
  <2>1. a.cursor..(m - 1) \subseteq Nat /\ IsFiniteSet(a.cursor..(m - 1))
    <3>1. PICK x \in Nat : x = a.cursor
      BY <1>2
    <3>2. IsFiniteSet(x..(m - 1))
      BY FS_Interval
    <3> QED BY <3>1, <3>2
  <2> QED BY <2>1, <1>9, FS_Subset
<1>11. PICK l \in Nat : l = Cardinality(K)
  BY <1>10, FS_CardinalityType
<1>12. /\ run = [j \in 1..l |-> at(Nth(K, j))] /\ where = [j \in 1..l |-> Nth(K, j)]
  BY <1>8, <1>11
<1>13. /\ \A j \in 1..l : Nth(K, j) \in K
       /\ \A i, j \in 1..l : i < j => Nth(K, i) < Nth(K, j)
       /\ \A k \in K : \E j \in 1..l : Nth(K, j) = k
  BY <1>10, <1>11, Listed
<1>14. PICK w : w = where
  OBVIOUS
<1>15. PICK v : v = run
  OBVIOUS
<1>16. PICK d : d = c
  OBVIOUS
<1>17. /\ \A k \in K : k \in Nat /\ a.cursor <= k /\ k < m /\ at(k) \in Req /\ at(k) # NoReq
                       /\ <<k, at(k)>> \in a.pend
  <2> SUFFICES ASSUME NEW k \in K
               PROVE  /\ k \in Nat /\ a.cursor <= k /\ k < m /\ at(k) \in Req /\ at(k) # NoReq
                      /\ <<k, at(k)>> \in a.pend
    OBVIOUS
  <2>1. k \in a.cursor..(m - 1) /\ at(k) # NoReq
    BY <1>9
  <2>2. <<k, at(k)>> \in a.pend
    BY <2>1, <1>6
  <2>3. at(k) \in Slots
    BY <2>2, <1>2
  <2> QED BY <2>1, <2>2, <2>3, <1>2 DEF Slots
<1>18. /\ w \in Seq(Nat) /\ DOMAIN w = 1..l /\ \A j \in 1..l : w[j] \in K
       /\ v \in Seq(Req) /\ DOMAIN v = 1..l /\ \A j \in 1..l : v[j] = at(w[j])
  <2>1. w = [j \in 1..l |-> Nth(K, j)] /\ v = [j \in 1..l |-> at(Nth(K, j))]
    BY <1>12, <1>14, <1>15
  <2> HIDE DEF run, where, c
  <2>2. \A j \in 1..l : w[j] = Nth(K, j) /\ v[j] = at(Nth(K, j))
    BY <2>1
  <2>3. \A j \in 1..l : w[j] \in K /\ v[j] = at(w[j]) /\ w[j] \in Nat /\ v[j] \in Req
    <3> TAKE j \in 1..l
    <3>1. PICK k \in K : k = Nth(K, j)
      BY <1>13
    <3>2. w[j] = k /\ v[j] = at(k)
      BY <2>2, <3>1
    <3> QED BY <3>1, <3>2, <1>17
  <2>4. w \in [1..l -> Nat] /\ v \in [1..l -> Req]
    BY <2>1, <2>3
  <2> QED BY <2>3, <2>4
<1>19. /\ \A i, j \in 1..l : i < j => w[i] < w[j]
       /\ \A k \in K : \E j \in 1..l : w[j] = k
  BY <1>12, <1>13, <1>14
<1>20. d = [a EXCEPT !.items = @ \o v, !.cursor = m, !.pend = {e \in @ : e[1] >= m}]
  BY <1>5, <1>15, <1>16
<1>21. FlushOrdered(a, s) = d \/ (FlushOrdered(a, s) = PlayNext(d, s) /\ ~d.playing)
  BY <1>1, <1>16
<1> HIDE DEF run, where, c
<1>22. a.items \in Seq(Req) /\ a.items \o v \in Seq(Req)
  BY <1>18 DEF Queue
<1>23. /\ d \in Queue /\ d.cursor = m /\ d.pend = {e \in a.pend : e[1] >= m}
       /\ d.items = a.items \o v /\ d.next = a.next /\ d.current = a.current
       /\ d.over = a.over /\ d.paused = a.paused /\ d.playing = a.playing
       /\ d.mic = a.mic /\ d.cooldown = a.cooldown
  BY <1>20, <1>22 DEF Queue
<1>24. Audible(d)
  BY <1>23 DEF Audible
<1>25. \A e \in a.pend : e[1] < m /\ e[2] # NoReq => \E j \in DOMAIN v : v[j] = e[2]
  <2> SUFFICES ASSUME NEW e \in a.pend, e[1] < m, e[2] # NoReq
               PROVE  \E j \in DOMAIN v : v[j] = e[2]
    OBVIOUS
  <2>1. e[1] \in a.cursor..(m - 1) /\ e[2] = at(e[1])
    BY <1>2, <1>7
  <2>2. PICK k \in K : k = e[1]
    BY <2>1, <1>9
  <2>3. PICK j \in 1..l : w[j] = k
    BY <1>19
  <2>4. j \in DOMAIN v /\ v[j] = at(k)
    BY <2>3, <1>18
  <2> QED BY <2>1, <2>2, <2>4
<1>26. \A e \in a.pend : e[1] # m
  BY <1>5 DEF seqs
<1>27. a.cursor..(m - 1) \subseteq {e[1] : e \in a.pend}
  BY <1>5 DEF seqs
<1>28. \A j \in DOMAIN v : w[j] < m /\ v[j] # NoReq /\ <<w[j], v[j]>> \in a.pend
  BY <1>17, <1>18
<1>29. Moved(a, d, m, v, w)
  BY <1>5, <1>18, <1>19, <1>23, <1>25, <1>26, <1>27, <1>28 DEF Moved
<1> QED BY <1>18, <1>21, <1>23, <1>24, <1>29 DEF Audible

\* Moving the run at the cursor into the queue keeps the order: what is in the
\* run has places behind what was queued before, in their order, and nothing in
\* between is left out.
LEMMA MovedInOrder ==
    ASSUME NEW T \in SUBSET Req, NEW n \in [Req -> Nat], NEW a \in Queue, NEW c \in Queue,
           NEW m \in Nat, NEW run \in Seq(Req), NEW at \in Seq(Nat), Moved(a, c, m, run, at),
           OwnPlaces(T, n, a.next), InOrder(a, T, n)
    PROVE  InOrder(c, T, n)
<1>0. /\ a.items \in Seq(Req) /\ a.cursor \in Nat /\ a.next \in Nat
      /\ a.pend \subseteq Nat \X Slots
  BY DEF Queue
<1>1. PICK k \in Nat : k = Len(a.items)
  BY <1>0
<1>2. /\ \A i \in DOMAIN a.items : i \in DOMAIN c.items /\ c.items[i] = a.items[i]
      /\ \A i \in DOMAIN run : i + k \in DOMAIN c.items /\ c.items[i + k] = run[i]
      /\ \A i \in DOMAIN c.items : i \in DOMAIN a.items \/ i - k \in DOMAIN run
  <2>1. c.items = a.items \o run
    BY DEF Moved
  <2>2. PICK v \in Seq(Req) : v = a.items
    BY <1>0
  <2>3. PICK z : z = c.items
    OBVIOUS
  <2>4. z = v \o run
    BY <2>1, <2>2, <2>3
  <2>5. /\ \A i \in DOMAIN v : i \in DOMAIN z /\ z[i] = v[i]
        /\ \A i \in DOMAIN run : i + Len(v) \in DOMAIN z /\ z[i + Len(v)] = run[i]
        /\ \A i \in DOMAIN z : i \in DOMAIN v \/ i - Len(v) \in DOMAIN run
    <3>1. PICK w \in Seq(Req) : w = run
      OBVIOUS
    <3>2. z = v \o w
      BY <2>4, <3>1
    <3> QED BY <3>1, <3>2, Joined
  <2> QED BY <1>1, <2>2, <2>3, <2>5
<1>3. /\ DOMAIN a.items = 1..k
      /\ \A i \in DOMAIN run : i \in Nat
      /\ \A i \in DOMAIN c.items : i \in Nat /\ i > 0
      /\ \A j \in DOMAIN a.items, i \in DOMAIN c.items : i < j => i \in DOMAIN a.items
  <2>1. c.items \in Seq(Req)
    BY DEF Queue
  <2>2. DOMAIN a.items = 1..k /\ k \in Nat
    BY <1>0, <1>1
  <2>3. \A i \in DOMAIN c.items : i \in Nat /\ i > 0
    BY <2>1
  <2>4. \A i \in DOMAIN run : i \in Nat
    OBVIOUS
  <2> QED BY <2>2, <2>3, <2>4
<1>4. \A j \in DOMAIN run : /\ run[j] \in T /\ n[run[j]] = at[j]
                            /\ a.cursor <= at[j] /\ at[j] < m
  <2> TAKE j \in DOMAIN run
  <2>1. at[j] < m /\ run[j] # NoReq /\ <<at[j], run[j]>> \in a.pend
    BY DEF Moved
  <2>2. PICK e \in a.pend : e[1] = at[j] /\ e[2] = run[j]
    BY <2>1
  <2> QED BY <2>1, <2>2 DEF InOrder, Waiting
<1>5. \A i \in DOMAIN a.items : a.items[i] \in T /\ n[a.items[i]] < a.cursor
  BY DEF InOrder, Lined
<1>6. c.cursor = m /\ a.cursor <= m
  BY DEF Moved
<1>7. \A r \in T : n[r] \in Nat
  OBVIOUS
<1>8. Lined(c, T, n)
  <2>1. ASSUME NEW i \in DOMAIN c.items
        PROVE  /\ c.items[i] \in T /\ n[c.items[i]] < c.cursor
               /\ i \in DOMAIN a.items => n[c.items[i]] < a.cursor
               /\ i \notin DOMAIN a.items => a.cursor <= n[c.items[i]]
    <3>1. CASE i \in DOMAIN a.items
      BY <3>1, <1>0, <1>2, <1>5, <1>6, <1>7
    <3>2. CASE i \notin DOMAIN a.items
      <4>1. PICK j \in DOMAIN run : j = i - k
        BY <3>2, <1>2
      <4>2. j + k = i
        BY <4>1, <1>3
      <4>3. c.items[i] = run[j]
        BY <4>2, <1>2
      <4> QED BY <3>2, <4>3, <1>4, <1>6
    <3> QED BY <3>1, <3>2
  <2>2. \A i, j \in DOMAIN c.items : i < j => n[c.items[i]] < n[c.items[j]]
    <3> SUFFICES ASSUME NEW i \in DOMAIN c.items, NEW j \in DOMAIN c.items, i < j
                 PROVE  n[c.items[i]] < n[c.items[j]]
      OBVIOUS
    <3>1. CASE j \in DOMAIN a.items
      <4>1. i \in DOMAIN a.items
        BY <1>3, <3>1
      <4> QED BY <3>1, <4>1, <1>2 DEF InOrder, Lined
    <3>2. CASE j \notin DOMAIN a.items /\ i \in DOMAIN a.items
      <4>1. n[c.items[i]] < a.cursor /\ a.cursor <= n[c.items[j]]
        BY <2>1, <3>2
      <4>2. n[c.items[i]] \in Nat /\ n[c.items[j]] \in Nat
        BY <2>1, <1>7
      <4> QED BY <4>1, <4>2, <1>0
    <3>3. CASE j \notin DOMAIN a.items /\ i \notin DOMAIN a.items
      <4>1. PICK x \in DOMAIN run : x = i - k
        BY <3>3, <1>2
      <4>2. PICK y \in DOMAIN run : y = j - k
        BY <3>3, <1>2
      <4>3. x < y /\ x + k = i /\ y + k = j
        BY <1>3, <4>1, <4>2
      <4>4. c.items[i] = run[x] /\ c.items[j] = run[y] /\ at[x] < at[y]
        BY <4>3, <1>2 DEF Moved
      <4> QED BY <4>4, <1>4
    <3> QED BY <3>1, <3>2, <3>3
  <2>3. ASSUME c.current # NoReq
        PROVE  /\ c.current \in T /\ n[c.current] < c.cursor
               /\ \A i \in DOMAIN c.items : n[c.current] < n[c.items[i]]
    <3>1. c.current = a.current
      BY DEF Moved
    <3>2. /\ c.current \in T /\ n[c.current] < a.cursor
          /\ \A i \in DOMAIN a.items : n[c.current] < n[a.items[i]]
      BY <2>3, <3>1 DEF InOrder, Lined
    <3>3. n[c.current] \in Nat
      BY <3>2
    <3>4. \A i \in DOMAIN c.items : n[c.current] < n[c.items[i]]
      <4> TAKE i \in DOMAIN c.items
      <4>1. n[c.items[i]] \in Nat
        BY <2>1, <1>7
      <4>2. CASE i \in DOMAIN a.items
        BY <4>2, <3>2, <1>2
      <4>3. CASE i \notin DOMAIN a.items
        BY <4>1, <4>3, <2>1, <3>2, <3>3, <1>0
      <4> QED BY <4>2, <4>3
    <3> QED BY <3>2, <3>3, <3>4, <1>0, <1>6
  <2> QED BY <2>1, <2>2, <2>3 DEF Lined
<1>9. Accounted(c, T, n)
  <2> SUFFICES ASSUME NEW r \in T, n[r] < m
               PROVE  r \in c.over \/ r = c.current \/ \E i \in DOMAIN c.items : c.items[i] = r
    BY <1>6 DEF Accounted
  <2>1. c.over = a.over /\ c.current = a.current
    BY DEF Moved
  <2>2. CASE n[r] < a.cursor
    <3>1. r \in a.over \/ r = a.current \/ \E i \in DOMAIN a.items : a.items[i] = r
      BY <2>2 DEF InOrder, Accounted
    <3> QED BY <2>1, <3>1, <1>2
  <2>3. CASE a.cursor <= n[r]
    <3>1. n[r] \in a.cursor..(m - 1)
      BY <2>3, <1>0, <1>7
    <3>2. PICK e \in a.pend : e[1] = n[r]
      BY <3>1 DEF Moved
    <3>3. CASE e[2] = NoReq
      BY <2>1, <3>2, <3>3 DEF InOrder, Waiting
    <3>4. CASE e[2] # NoReq
      <4>1. e[2] \in T /\ n[e[2]] = n[r]
        BY <3>2, <3>4 DEF InOrder, Waiting
      <4>2. e[2] = r
        BY <4>1 DEF OwnPlaces
      <4>3. PICK j \in DOMAIN run : run[j] = r
        BY <3>2, <3>4, <4>2 DEF Moved
      <4> QED BY <4>3, <1>2
    <3> QED BY <3>3, <3>4
  <2> QED BY <2>2, <2>3, <1>0, <1>7
<1>10. Waiting(c, T, n)
  <2>1. c.pend = {e \in a.pend : e[1] >= m} /\ c.next = a.next /\ c.over = a.over
    BY DEF Moved
  <2>2. IsFiniteSet(c.pend)
    BY <2>1, FS_Subset DEF InOrder, Waiting
  <2>3. \A e \in c.pend :
          /\ m <= e[1] /\ e[1] < c.next
          /\ e[2] # NoReq => e[2] \in T /\ n[e[2]] = e[1]
          /\ e[2] = NoReq => \A r \in T : n[r] = e[1] => r \in c.over
    BY <2>1, <1>0 DEF InOrder, Waiting
  <2> QED BY <2>1, <2>2, <2>3, <1>6 DEF InOrder, Waiting
<1>11. c.cursor <= c.next
  <2>1. c.next = a.next
    BY DEF Moved
  <2>2. CASE m = a.cursor
    BY <2>1, <2>2, <1>6 DEF InOrder
  <2>3. CASE m # a.cursor
    <3>1. m - 1 \in a.cursor..(m - 1)
      BY <2>3, <1>0, <1>6
    <3>2. PICK e \in a.pend : e[1] = m - 1
      BY <3>1 DEF Moved
    <3>3. m - 1 < a.next
      BY <3>2 DEF InOrder, Waiting
    <3> QED BY <2>1, <3>3, <1>0, <1>6
  <2> QED BY <2>2, <2>3
<1> QED BY <1>8, <1>9, <1>10, <1>11 DEF InOrder

\* What was free and is not the place just filled stays free.
LEMMA MovedFree ==
    ASSUME NEW a \in Queue, NEW c, NEW m \in Nat, NEW run, NEW at, Moved(a, c, m, run, at),
           NEW k \in Nat, Free(a, k)
    PROVE  Free(c, k)
<1>0. a.cursor \in Nat
  BY DEF Queue
<1>1. k \notin a.cursor..(m - 1)
  BY DEF Moved, Free
<1>2. k >= m
  BY <1>0, <1>1 DEF Free
<1> QED BY <1>2 DEF Moved, Free

\* Filling a free place with its own request, or skipping it when that one is
\* over, keeps the order.
LEMMA EnqueueMoves ==
    ASSUME NEW T \in SUBSET Req, NEW n \in [Req -> Nat], NEW a \in Queue, NEW s,
           Audible(a), OwnPlaces(T, n, a.next), InOrder(a, T, n),
           NEW m \in Nat, a.cursor <= m, m < a.next, NEW x \in Slots,
           x # NoReq => x \in T /\ n[x] = m,
           x = NoReq => \A r \in T : n[r] = m => r \in a.over,
           NEW b, b = EnqueueOrdered(a, s, m, x)
    PROVE  /\ b \in Queue /\ Audible(b) /\ InOrder(b, T, n)
           /\ b.next = a.next /\ b.paused = a.paused
           /\ \A k \in Nat : k # m /\ Free(a, k) => Free(b, k)
<1> DEFINE d0 == [a EXCEPT !.pend = {e \in @ : e[1] # m} \cup {<<m, x>>}]
<1>0. a.cursor \in Nat /\ a.pend \subseteq Nat \X Slots
  BY DEF Queue
<1>1. PICK d : d = d0
  OBVIOUS
<1>2. b = FlushOrdered(d, s)
  BY <1>1 DEF EnqueueOrdered
<1>3. {e \in a.pend : e[1] # m} \cup {<<m, x>>} \subseteq Nat \X Slots
  BY <1>0
<1>4. /\ d \in Queue /\ d.pend = {e \in a.pend : e[1] # m} \cup {<<m, x>>}
      /\ d.items = a.items /\ d.current = a.current /\ d.over = a.over
      /\ d.cursor = a.cursor /\ d.next = a.next /\ d.paused = a.paused
      /\ d.playing = a.playing /\ d.mic = a.mic /\ d.cooldown = a.cooldown
  BY <1>1, <1>3 DEF Queue
<1> HIDE DEF d0
<1>5. Audible(d) /\ Lined(d, T, n) /\ Accounted(d, T, n) /\ d.cursor <= d.next
  BY <1>4 DEF Audible, InOrder, Lined, Accounted
<1>6. Waiting(d, T, n)
  <2>1. PICK P : P = {e \in a.pend : e[1] # m}
    OBVIOUS
  <2>2. P \in SUBSET a.pend /\ IsFiniteSet(a.pend)
    BY <2>1 DEF InOrder, Waiting
  <2>3. IsFiniteSet(P \cup {<<m, x>>})
    BY <2>2, FS_Subset, FS_AddElement
  <2>4. IsFiniteSet(d.pend)
    BY <2>1, <2>3, <1>4
  <2>5. ASSUME NEW e \in d.pend
        PROVE  /\ d.cursor <= e[1] /\ e[1] < d.next
               /\ e[2] # NoReq => e[2] \in T /\ n[e[2]] = e[1]
               /\ e[2] = NoReq => \A r \in T : n[r] = e[1] => r \in d.over
    <3>1. CASE e \in a.pend
      BY <3>1, <1>4 DEF InOrder, Waiting
    <3>2. CASE e = <<m, x>>
      BY <3>2, <1>4
    <3> QED BY <3>1, <3>2, <1>4
  <2>6. ASSUME NEW e \in d.pend, NEW f \in d.pend, e[1] = f[1]
        PROVE  e = f
    <3>1. CASE e[1] = m
      <4>1. \A g \in d.pend : g[1] = m => g = <<m, x>>
        BY <1>4
      <4> QED BY <2>6, <3>1, <4>1
    <3>2. CASE e[1] # m
      <4>1. e \in a.pend /\ f \in a.pend
        BY <2>6, <3>2, <1>4
      <4> QED BY <2>6, <4>1 DEF InOrder, Waiting
    <3> QED BY <3>1, <3>2
  <2> QED BY <2>4, <2>5, <2>6 DEF Waiting
<1>7. InOrder(d, T, n)
  BY <1>5, <1>6 DEF InOrder
<1>8. \A k \in Nat : k # m /\ Free(a, k) => Free(d, k)
  BY <1>4 DEF Free
<1>9. PICK c \in Queue, l \in Nat, run \in Seq(Req), at \in Seq(Nat) :
         /\ Moved(d, c, l, run, at) /\ Audible(c) /\ c.paused = d.paused
         /\ \/ FlushOrdered(d, s) = c
            \/ FlushOrdered(d, s) = PlayNext(c, s) /\ c.current = NoReq
  BY <1>4, <1>5, <1>6, FlushMoves DEF Waiting
<1>10. InOrder(c, T, n)
  BY <1>4, <1>7, <1>9, MovedInOrder
<1>11. \A k \in Nat : Free(d, k) => Free(c, k)
  BY <1>4, <1>9, MovedFree
<1>12. c.next = a.next /\ c.paused = a.paused
  BY <1>4, <1>9 DEF Moved
<1>13. CASE b = c
  BY <1>8, <1>9, <1>10, <1>11, <1>12, <1>13
<1>14. CASE b = PlayNext(c, s) /\ c.current = NoReq
  <2>1. Moves(c, b) /\ Same(c, b)
    BY <1>14, PlayMoves
  <2>2. InOrder(b, T, n)
    BY <2>1, <1>10 DEF Moves, Keeps
  <2> QED BY <2>1, <2>2, <1>8, <1>11, <1>12 DEF Moves, Same
<1> QED BY <1>2, <1>9, <1>13, <1>14

\* A cleared queue holds nobody, and a paused microphone gets its cooldown.
LEMMA ClearFacts ==
    ASSUME NEW a \in Queue, Audible(a)
    PROVE  /\ ClearQueue(a) \in Queue /\ Audible(ClearQueue(a))
           /\ ~ClearQueue(a).paused
           /\ \A n : InOrder(ClearQueue(a), {}, n)
<1> DEFINE c0 == [a EXCEPT !.items = <<>>, !.current = NoReq, !.started = FALSE,
                       !.paused = FALSE, !.pend = {}, !.cursor = 0, !.next = 0, !.over = {}]
<1>1. PICK c : c = c0
  OBVIOUS
<1>2. <<>> \in Seq(Req)
  OBVIOUS
<1>3. /\ c \in Queue /\ c.items = <<>> /\ c.current = NoReq /\ ~c.paused /\ c.pend = {}
      /\ c.cursor = 0 /\ c.next = 0 /\ c.playing = a.playing /\ c.mic = a.mic
      /\ c.cooldown = a.cooldown
  BY <1>1, <1>2 DEF Queue, Slots
<1>4. ClearQueue(a) = IF a.playing THEN PlaybackEnd(c) ELSE c
  BY <1>1 DEF ClearQueue
<1> HIDE DEF c0
<1>5. \A d \in Queue : \A n : /\ d.items = <<>> /\ d.current = NoReq /\ d.pend = {}
                              /\ d.cursor = 0 /\ d.next = 0
                              => InOrder(d, {}, n)
  BY FS_EmptySet DEF InOrder, Lined, Accounted, Waiting
<1>6. CASE a.playing
  BY <1>3, <1>4, <1>5, <1>6, EndType DEF Audible
<1>7. CASE ~a.playing
  BY <1>3, <1>4, <1>5, <1>7 DEF Audible
<1> QED BY <1>6, <1>7

-----------------------------------------------------------------------------
(* Windows, and what a step of one turn keeps *)

\* The end of a stream is a step of the queue.
LEMMA EndsMoves ==
    ASSUME q \in Queue, NEW s, NEW r \in Req, NEW drained, Audible(q)
    PROVE  Moves(q, StreamEnds(r, s, drained))
<1>1. r # NoReq
  BY VoiceAssumption DEF Req, NoReq
<1> QED BY <1>1, AdvanceMoves, StaysMoves DEF StreamEnds

\* What opening the window, or releasing the hold, does: who is still held has
\* a timer now, if it was the window of gen.
Windows(gen, a) ==
    /\ sched' \in Sched /\ sched'.gen = sched.gen
    /\ Moves(a, q')
    /\ q'.paused => /\ ~sched.released => ~sched'.released
                    /\ sched.timer => sched'.timer
                    /\ gen = sched.gen /\ ~sched.released => sched'.timer

\* Opening the window resumes playback or arms the timer.
LEMMA OpenWindows ==
    ASSUME sched \in Sched, NEW a \in Queue, Audible(a), NEW s, NEW gen, NEW slow \in BOOLEAN,
           OpenWindow(gen, slow, a, s)
    PROVE  Windows(gen, a)
<1>1. CASE gen = sched.gen /\ ~sched.released /\ ~sched.timer /\ slow
  <2>1. sched' = [sched EXCEPT !.timer = TRUE, !.released = FALSE] /\ q' = a
    BY <1>1 DEF OpenWindow, Sched
  <2> QED BY <2>1, <1>1, StaysMoves DEF Windows, Sched
<1>2. CASE gen = sched.gen /\ ~sched.released /\ ~sched.timer /\ ~slow
  <2>1. sched' = [sched EXCEPT !.timer = FALSE, !.released = TRUE] /\ q' = ResumePlayback(a, s)
    BY <1>2 DEF OpenWindow, Sched
  <2> QED BY <2>1, ResumeMoves DEF Windows, Sched
<1>3. CASE ~(gen = sched.gen /\ ~sched.released /\ ~sched.timer)
  <2>1. sched' = sched /\ q' = a
    BY <1>3 DEF OpenWindow, Sched
  <2> QED BY <2>1, <1>3, StaysMoves DEF Windows, Sched
<1> QED BY <1>1, <1>2, <1>3

\* A release resumes playback.
LEMMA Releases ==
    ASSUME sched \in Sched, NEW a \in Queue, Audible(a), NEW s, NEW gen, Release(gen, a, s)
    PROVE  Windows(gen, a)
<1>1. CASE gen = sched.gen /\ ~sched.released
  <2>1. sched' = [sched EXCEPT !.timer = FALSE, !.released = TRUE] /\ q' = ResumePlayback(a, s)
    BY <1>1 DEF Release
  <2> QED BY <2>1, ResumeMoves DEF Windows, Sched
<1>2. CASE ~(gen = sched.gen /\ ~sched.released)
  <2>1. sched' = sched /\ q' = a
    BY <1>2 DEF Release
  <2> QED BY <2>1, <1>2, StaysMoves DEF Windows
<1> QED BY <1>1, <1>2

\* Steps of the queue follow each other.
LEMMA MovesOn ==
    ASSUME NEW a \in Queue, NEW b, NEW c, Moves(a, b), Moves(b, c)
    PROVE  Moves(a, c)
  BY DEF Moves, Keeps

\* A window after a step of the queue is one for the state before it.
LEMMA WindowsOn ==
    ASSUME NEW gen, NEW a, NEW b, NEW c \in Queue, Moves(c, a), Windows(gen, a)
    PROVE  Windows(gen, c)
  BY MovesOn DEF Windows

\* Who is held stays so for a reason.
LEMMA HeldKept ==
    ASSUME Held, sched'.gen = sched.gen, info' = info,
           q'.paused => /\ q.paused
                        /\ ~sched.released => ~sched'.released
                        /\ sched.timer => sched'.timer,
           \A p \in active : /\ q'.paused /\ ~sched.released
                             /\ info[p].local /\ info[p].gen = sched.gen
                             /\ status[p] \in {"waiting", "synth"}
                             => \/ sched'.timer
                                \/ p \in active' /\ status'[p] \in {"waiting", "synth"}
    PROVE  Held'
  BY DEF Held

\* The chain as long as no job of it starts or settles.
LEMMA ChainKept ==
    ASSUME Types, Chain, UNCHANGED <<tail, info, nextReq>>,
           \A r \in Req : \/ status'[r] = status[r]
                          \/ status'[r] # "synth" /\ status[r] \notin {"waiting", "synth"}
                          \/ status'[r] # "synth" /\ ~info[r].local
    PROVE  Chain'
<1>1. tail \in Seq(Req) /\ \A i \in DOMAIN tail : tail[i] \in Req
  BY DEF Types
<1>2. \A i \in DOMAIN tail : status'[tail[i]] = status[tail[i]]
  BY <1>1 DEF Chain
<1>3. \A r \in Req : info[r].local /\ status'[r] = "synth" => status[r] = "synth"
  OBVIOUS
<1> QED BY <1>2, <1>3 DEF Chain

\* The queue as long as its turn lasts and nothing is sent.
LEMMA TurnKept ==
    ASSUME UNCHANGED <<info, nextReq, epoch>>
    PROVE  Turn' = Turn /\ Place' = Place
  BY DEF Turn, Place

\* The types of the turn and its places.
LEMMA PlaceType ==
    ASSUME Types
    PROVE  /\ Turn \in SUBSET Req /\ Place \in [Req -> Nat]
           /\ \A r \in Req : Place[r] = info[r].seq
  BY DEF Types, Turn, Place, Infos

\* A step of the queue in the same turn keeps the places, and what is owed.
LEMMA PlacesKept ==
    ASSUME Types, Places, UNCHANGED <<info, nextReq, epoch>>, Moves(q, q'),
           \A r \in active' : status'[r] = "synth" /\ ~info[r].local =>
                                  r \in active /\ status[r] = "synth"
    PROVE  Places'
<1>1. Turn' = Turn /\ Place' = Place
  BY TurnKept
<1>2. OwnPlaces(Turn, Place, q'.next) /\ InOrder(q', Turn, Place)
  BY PlaceType DEF Places, Moves, Keeps
<1>3. \A r \in active : info[r].seq \in Nat
  BY DEF Types, Infos
<1>4. Owed'
  BY <1>3 DEF Places, Owed, Moves
<1> QED BY <1>1, <1>2, <1>4 DEF Places

\* What a step that sends nothing and begins no turn must show.
LEMMA SameTurn ==
    ASSUME Types, Sent, UNCHANGED <<info, nextReq, epoch>>,
           q' \in Queue, sched' \in Sched, sched'.gen = sched.gen, tail' \in Seq(Req),
           status' \in States, src' \in Sources, active' \subseteq active,
           session' \in [up : BOOLEAN, provider : Providers],
           \A r \in Req : r >= nextReq => status'[r] = "idle",
           Audible(q'), Chain', Held', Places'
    PROVE  IInv'
<1>1. Types'
  BY DEF Types
<1>2. Sent'
  BY DEF Sent, Types
<1> QED BY <1>1, <1>2 DEF IInv

-----------------------------------------------------------------------------
(* Actions that send nothing and begin no turn *)

\* The elements of the tail of a sequence.
LEMMA TailPlaces ==
    ASSUME NEW S, NEW w \in Seq(S), w # <<>>
    PROVE  /\ Tail(w) \in Seq(S)
           /\ \A i \in DOMAIN Tail(w) :
                 i \in Nat /\ i > 0 /\ i + 1 \in DOMAIN w /\ Tail(w)[i] = w[i + 1]
           /\ Head(w) = w[1] /\ 1 \in DOMAIN w
<1>1. Len(w) \in Nat /\ Len(w) > 0 /\ DOMAIN w = 1..Len(w)
  OBVIOUS
<1>2. Tail(w) \in Seq(S) /\ Len(Tail(w)) = Len(w) - 1
  OBVIOUS
<1>3. DOMAIN Tail(w) = 1..(Len(w) - 1)
  BY <1>1, <1>2
<1>4. \A i \in 1..(Len(w) - 1) : Tail(w)[i] = w[i + 1]
  BY <1>1
<1> QED BY <1>1, <1>2, <1>3, <1>4

\* Requests are numbers, and not the null one.
LEMMA Numbers ==
    ASSUME Types
    PROVE  nextReq \in Nat /\ nextReq > 0 /\ \A r \in Req : r \in Nat /\ r # NoReq
  BY VoiceAssumption DEF Types, Req, NoReq

\* A local job that settles is the head of the chain, and nothing else is local
\* and in the engine.
LEMMA Settles ==
    ASSUME Types, Sent, Chain, NEW r \in Req, status[r] = "synth", Settle(r),
           UNCHANGED <<info, nextReq>>
    PROVE  /\ Chain' /\ tail' \in Seq(Req) /\ status' \in States
           /\ \A p \in Req : p # r => status'[p] = status[p]
           /\ status'[r] = "done" /\ r < nextReq
<1>1. tail \in Seq(Req) /\ \A i \in DOMAIN tail : tail[i] \in Req
  BY DEF Types
<1>2. status \in States /\ status' = [status EXCEPT ![r] = "done"]
  BY DEF Types, Settle
<1>3. /\ status' \in States /\ status'[r] = "done" /\ \A p \in Req : p # r => status'[p] = status[p]
  BY <1>2 DEF States
<1>4. r < nextReq
  BY Numbers DEF Sent
<1>5. CASE info[r].local
  <2>1. tail # <<>> /\ tail[1] = r
    BY <1>5 DEF Chain
  <2>2. /\ Head(tail) = tail[1] /\ 1 \in DOMAIN tail
        /\ Tail(tail) \in Seq(Req)
        /\ \A i \in DOMAIN Tail(tail) :
              i \in Nat /\ i > 0 /\ i + 1 \in DOMAIN tail /\ Tail(tail)[i] = tail[i + 1]
    BY <1>1, <2>1, TailPlaces
  <2>3. tail' = Tail(tail)
    BY <2>1, <2>2 DEF Settle
  <2>4. PICK v \in Seq(Req) : v = Tail(tail)
    BY <2>2
  <2>5. ASSUME NEW i \in DOMAIN v
        PROVE  /\ v[i] < nextReq /\ info[v[i]].local /\ status'[v[i]] = "waiting"
    <3>1. PICK j \in DOMAIN tail : j = i + 1 /\ v[i] = tail[j] /\ j # 1
      BY <2>2, <2>4
    <3>2. tail[j] # r
      BY <2>1, <2>2, <3>1 DEF Chain
    <3>3. tail[j] < nextReq /\ info[tail[j]].local /\ status[tail[j]] = "waiting"
      BY <3>1 DEF Chain
    <3> QED BY <3>1, <3>2, <3>3, <1>1, <1>3
  <2>6. \A i, j \in DOMAIN v : v[i] = v[j] => i = j
    <3> SUFFICES ASSUME NEW i \in DOMAIN v, NEW j \in DOMAIN v, v[i] = v[j] PROVE i = j
      OBVIOUS
    <3>1. i + 1 = j + 1
      BY <2>2, <2>4 DEF Chain
    <3> QED BY <3>1, <2>2, <2>4
  <2>7. \A p \in Req : info[p].local /\ status'[p] = "synth" => FALSE
    BY <1>3, <2>1 DEF Chain
  <2>8. Chain'
    BY <2>3, <2>4, <2>5, <2>6, <2>7 DEF Chain
  <2> QED BY <1>3, <1>4, <2>2, <2>3, <2>8
<1>6. CASE ~info[r].local
  <2>1. \A i \in DOMAIN tail : tail[i] # r
    BY <1>6 DEF Chain
  <2>2. tail' = tail
    <3>1. CASE tail = <<>>
      BY <3>1 DEF Settle
    <3>2. CASE tail # <<>>
      BY <1>1, <3>2, <2>1, TailPlaces DEF Settle
    <3> QED BY <3>1, <3>2
  <2>3. Chain'
    BY <1>3, <1>6, <2>2, ChainKept
  <2> QED BY <1>1, <1>3, <1>4, <2>2, <2>3
<1> QED BY <1>5, <1>6

\* A step of the queue alone keeps the invariant.
LEMMA QueueStep ==
    ASSUME IInv, Moves(q, q'), UNCHANGED <<sched, tail, status, active, info, nextReq, epoch>>,
           src' \in Sources, session' \in [up : BOOLEAN, provider : Providers]
    PROVE  IInv'
<1>1. /\ Types /\ Sent /\ Chain /\ Audible(q) /\ Held /\ Places
  BY DEF IInv
<1>2. Chain'
  BY <1>1, ChainKept
<1>3. Held'
  BY <1>1, HeldKept DEF Moves
<1>4. Places'
  BY <1>1, PlacesKept
<1>5. q' \in Queue /\ Audible(q')
  BY DEF Moves
<1>6. \A r \in Req : r >= nextReq => status'[r] = "idle"
  BY <1>1 DEF Sent
<1>7. sched' \in Sched /\ tail' \in Seq(Req) /\ status' \in States
  BY <1>1 DEF Types
<1> QED BY <1>1, <1>2, <1>3, <1>4, <1>5, <1>6, <1>7, SameTurn

\* The element, the sound and the microphone.
LEMMA Sounds ==
    ASSUME IInv, \/ ElementPlays \/ ElementEnds \/ StreamDrains \/ MicReopens
                 \/ \E r \in Req : ElementFails(r)
    PROVE  IInv'
<1>0. /\ q \in Queue /\ Audible(q) /\ src \in Sources
      /\ session \in [up : BOOLEAN, provider : Providers]
  BY DEF IInv, Types
<1>1. QueueOnly /\ Moves(q, q')
  <2>1. CASE ElementPlays
    BY <1>0, <2>1, StartMoves DEF ElementPlays, Plays
  <2>2. CASE ElementEnds \/ StreamDrains
    BY <1>0, <2>2, AdvanceMoves DEF ElementEnds, StreamDrains, Plays
  <2>3. CASE MicReopens
    <3>1. q' = [q EXCEPT !.cooldown = FALSE, !.mic = "open"]
      BY <2>3 DEF MicReopens
    <3>2. /\ q' \in Queue /\ q'.items = q.items /\ q'.current = q.current /\ q'.over = q.over
          /\ q'.cursor = q.cursor /\ q'.next = q.next /\ q'.pend = q.pend
          /\ q'.paused = q.paused /\ q'.playing = q.playing /\ q'.mic = "open"
      BY <1>0, <3>1 DEF Queue
    <3>3. Keeps(q, q') /\ Audible(q')
      BY <1>0, <3>2 DEF Keeps, InOrder, Lined, Accounted, Waiting, Audible
    <3> QED BY <2>3, <3>2, <3>3 DEF Moves, Free, MicReopens
  <2>4. ASSUME NEW r \in Req, ElementFails(r) PROVE QueueOnly /\ Moves(q, q')
    <3>1. r # NoReq
      BY VoiceAssumption DEF Req, NoReq
    <3> QED BY <1>0, <2>4, <3>1, AdvanceMoves, StaysMoves DEF ElementFails
  <2> QED BY <2>1, <2>2, <2>3, <2>4
<1> QED BY <1>0, <1>1, QueueStep DEF QueueOnly

\* A new session finds the queue cleared.
LEMMA Starts ==
    ASSUME IInv, StartSession
    PROVE  IInv'
<1>0. /\ q \in Queue /\ Audible(q) /\ src \in Sources
  BY DEF IInv, Types
<1>1. q' = [q EXCEPT !.mic = "open"]
  BY DEF StartSession
<1>2. /\ q' \in Queue /\ q'.items = q.items /\ q'.current = q.current /\ q'.over = q.over
      /\ q'.cursor = q.cursor /\ q'.next = q.next /\ q'.pend = q.pend
      /\ q'.paused = q.paused /\ q'.playing = q.playing /\ q'.mic = "open"
  BY <1>0, <1>1 DEF Queue
<1>3. Keeps(q, q') /\ Audible(q')
  BY <1>0, <1>2 DEF Keeps, InOrder, Lined, Accounted, Waiting, Audible
<1>4. Moves(q, q')
  BY <1>2, <1>3 DEF Moves, Free
<1>5. src' \in Sources /\ session' \in [up : BOOLEAN, provider : Providers]
  BY <1>0 DEF StartSession
<1> QED BY <1>4, <1>5, QueueStep DEF StartSession

\* The head of the chain goes to the engine, or is dropped.
LEMMA JobStep ==
    ASSUME IInv, JobStarts
    PROVE  IInv'
<1>0. /\ Types /\ Sent /\ Chain /\ Audible(q) /\ Held /\ Places
  BY DEF IInv
<1>1. tail \in Seq(Req) /\ tail # <<>> /\ \A i \in DOMAIN tail : tail[i] \in Req
  BY <1>0 DEF Types, JobStarts
<1>2. PICK r \in Req : r = tail[1] /\ r = Head(tail) /\ 1 \in DOMAIN tail
  BY <1>1, TailPlaces
<1>3. info[r].local /\ r < nextReq /\ status[r] = "waiting"
  BY <1>0, <1>2 DEF Chain, JobStarts
<1>4. /\ UNCHANGED <<q, sched, active, info, src, nextReq, epoch, session>>
  BY DEF JobStarts
<1>5. Moves(q, q')
  BY <1>0, <1>4, StaysMoves DEF Types
<1>6. \A p \in Req : info[p].local /\ status[p] = "synth" => FALSE
  BY <1>0, <1>2, <1>3 DEF Chain
<1>7. CASE r \in active
  <2>1. status' = [status EXCEPT ![r] = "synth"] /\ tail' = tail
    BY <1>2, <1>7 DEF JobStarts
  <2>2. status' \in States /\ status'[r] = "synth" /\ \A p \in Req : p # r => status'[p] = status[p]
    BY <1>0, <2>1 DEF Types, States
  <2>3. Chain'
    <3>1. \A i \in DOMAIN tail : i # 1 => tail[i] # r
      BY <1>0, <1>2 DEF Chain
    <3>2. \A i \in DOMAIN tail : \/ status'[tail[i]] = "waiting"
                                 \/ i = 1 /\ status'[tail[i]] = "synth"
      <4> SUFFICES ASSUME NEW i \in DOMAIN tail
                   PROVE  \/ status'[tail[i]] = "waiting"
                          \/ i = 1 /\ status'[tail[i]] = "synth"
        OBVIOUS
      <4>1. CASE i = 1
        BY <4>1, <1>2, <2>2
      <4>2. CASE i # 1
        <5>1. status'[tail[i]] = status[tail[i]]
          BY <4>2, <1>1, <2>2, <3>1
        <5> QED BY <4>2, <5>1, <1>0 DEF Chain
      <4> QED BY <4>1, <4>2
    <3>3. \A p \in Req : info[p].local /\ status'[p] = "synth" => p = r
      BY <1>6, <2>2
    <3> QED BY <1>0, <1>1, <1>2, <1>4, <2>1, <3>2, <3>3 DEF Chain
  <2>4. Held'
    BY <1>0, <1>4, <2>2, HeldKept DEF Types
  <2>5. Places'
    BY <1>0, <1>3, <1>4, <1>5, <2>2, PlacesKept DEF Types
  <2>6. \A p \in Req : p >= nextReq => status'[p] = "idle"
    BY <1>0, <1>3, <2>2, Numbers DEF Sent
  <2> QED BY <1>0, <1>4, <2>1, <2>2, <2>3, <2>4, <2>5, <2>6, SameTurn DEF Types
<1>8. CASE r \notin active
  <2>1. status' = [status EXCEPT ![r] = "done"] /\ tail' = Tail(tail)
    BY <1>2, <1>8 DEF JobStarts
  <2>2. status' \in States /\ status'[r] = "done" /\ \A p \in Req : p # r => status'[p] = status[p]
    BY <1>0, <2>1 DEF Types, States
  <2>3. /\ Tail(tail) \in Seq(Req)
        /\ \A i \in DOMAIN Tail(tail) :
              i \in Nat /\ i > 0 /\ i + 1 \in DOMAIN tail /\ Tail(tail)[i] = tail[i + 1]
    BY <1>1, TailPlaces
  <2>4. PICK v \in Seq(Req) : v = Tail(tail)
    BY <2>3
  <2>5. ASSUME NEW i \in DOMAIN v
        PROVE  /\ v[i] < nextReq /\ info[v[i]].local /\ status'[v[i]] = "waiting"
    <3>1. PICK j \in DOMAIN tail : j = i + 1 /\ v[i] = tail[j] /\ j # 1
      BY <2>3, <2>4
    <3>2. tail[j] # r
      BY <1>0, <1>2, <3>1 DEF Chain
    <3>3. tail[j] < nextReq /\ info[tail[j]].local /\ status[tail[j]] = "waiting"
      BY <1>0, <3>1 DEF Chain
    <3> QED BY <3>1, <3>2, <3>3, <1>1, <2>2
  <2>6. \A i, j \in DOMAIN v : v[i] = v[j] => i = j
    <3> SUFFICES ASSUME NEW i \in DOMAIN v, NEW j \in DOMAIN v, v[i] = v[j] PROVE i = j
      OBVIOUS
    <3>1. i + 1 = j + 1
      BY <1>0, <2>3, <2>4 DEF Chain
    <3> QED BY <3>1, <2>3, <2>4
  <2>7. \A p \in Req : info[p].local /\ status'[p] = "synth" => FALSE
    BY <1>6, <2>2
  <2>8. Chain'
    BY <1>4, <2>1, <2>4, <2>5, <2>6, <2>7 DEF Chain
  <2>9. Held'
    BY <1>0, <1>4, <1>8, <2>2, HeldKept DEF Types
  <2>10. Places'
    BY <1>0, <1>3, <1>4, <1>5, <2>2, PlacesKept DEF Types
  <2>11. \A p \in Req : p >= nextReq => status'[p] = "idle"
    BY <1>0, <1>3, <2>2, Numbers DEF Sent
  <2> QED BY <1>0, <1>4, <2>1, <2>2, <2>3, <2>8, <2>9, <2>10, <2>11, SameTurn DEF Types
<1> QED BY <1>7, <1>8

\* A window, or the end of a hold, and no request that moves on.
LEMMA WindowStep ==
    ASSUME IInv, NEW gen, Windows(gen, q), src' \in Sources,
           UNCHANGED <<tail, status, active, info, nextReq, epoch, session>>
    PROVE  IInv'
<1>0. /\ Types /\ Sent /\ Chain /\ Audible(q) /\ Held /\ Places
  BY DEF IInv
<1>1. sched' \in Sched /\ sched'.gen = sched.gen /\ Moves(q, q')
  BY DEF Windows
<1>2. Chain'
  BY <1>0, ChainKept
<1>3. Held'
  BY <1>0, <1>1, HeldKept DEF Windows, Moves
<1>4. Places'
  BY <1>0, <1>1, PlacesKept
<1>5. \A r \in Req : r >= nextReq => status'[r] = "idle"
  BY <1>0 DEF Sent
<1> QED BY <1>0, <1>1, <1>2, <1>3, <1>4, <1>5, SameTurn DEF Types, Moves

\* The grace timer fires, or the reply ends without a local sentence.
LEMMA Timers ==
    ASSUME IInv, GraceFires \/ FinishStream
    PROVE  IInv'
<1>1. sched \in Sched /\ q \in Queue /\ Audible(q) /\ src \in Sources
  BY DEF IInv, Types
<1>2. Windows(sched.gen, q)
  BY <1>1, Releases DEF GraceFires, FinishStream
<1> QED BY <1>1, <1>2, WindowStep DEF GraceFires, FinishStream

\* The first chunk of a local stream is heard, and may open the window.
LEMMA ChunkStep ==
    ASSUME IInv, NEW r \in Req, FirstChunk(r)
    PROVE  IInv'
<1>1. sched \in Sched /\ q \in Queue /\ Audible(q) /\ src \in Sources
  BY DEF IInv, Types
<1>2. PICK a : a = IF q.current = r THEN ItemStarts(q) ELSE q
  OBVIOUS
<1>3. r # NoReq
  BY Numbers DEF IInv
<1>4. Moves(q, a)
  BY <1>1, <1>2, <1>3, StartMoves, StaysMoves
<1>5. a \in Queue /\ Audible(a)
  BY <1>4 DEF Moves
<1>6. PICK slow \in BOOLEAN : OpenWindow(info[r].gen, slow, a, src')
  BY <1>2 DEF FirstChunk
<1>7. Windows(info[r].gen, q)
  BY <1>1, <1>4, <1>5, <1>6, OpenWindows, WindowsOn
<1>8. src' \in Sources
  BY <1>1 DEF FirstChunk, Sources
<1> QED BY <1>7, <1>8, WindowStep DEF FirstChunk

\* A request that has come to its end, whatever it does to the window.
LEMMA SettleStep ==
    ASSUME IInv, NEW r \in Req, status[r] = "synth", Settle(r), active' = active \ {r},
           src' \in Sources, UNCHANGED <<info, nextReq, epoch, session>>,
           \/ q' = q /\ sched' = sched /\ (r \notin active \/ ~info[r].local)
           \/ Windows(info[r].gen, q)
    PROVE  IInv'
<1>0. /\ Types /\ Sent /\ Chain /\ Audible(q) /\ Held /\ Places
  BY DEF IInv
<1>1. /\ Chain' /\ tail' \in Seq(Req) /\ status' \in States
      /\ \A p \in Req : p # r => status'[p] = status[p]
      /\ status'[r] = "done" /\ r < nextReq
  BY <1>0, Settles
<1>2. sched' \in Sched /\ sched'.gen = sched.gen /\ Moves(q, q')
  BY <1>0, StaysMoves DEF Windows, Types
<1>3. Held'
  <2>1. ASSUME NEW p \in active, q'.paused, ~sched.released, info[p].local, info[p].gen = sched.gen,
               status[p] \in {"waiting", "synth"}
        PROVE  sched'.timer \/ (p \in active' /\ status'[p] \in {"waiting", "synth"})
    <3>0. p \in Req
      BY <1>0 DEF Types
    <3>1. CASE p = r
      BY <2>1, <3>1 DEF Windows
    <3>2. CASE p # r
      BY <2>1, <3>0, <3>2, <1>1
    <3> QED BY <3>1, <3>2
  <2>2. q'.paused => /\ q.paused
                     /\ ~sched.released => ~sched'.released
                     /\ sched.timer => sched'.timer
    BY <1>2 DEF Windows, Moves
  <2> QED BY <1>0, <1>2, <2>1, <2>2, HeldKept
<1>4. Places'
  BY <1>0, <1>1, <1>2, PlacesKept DEF Types
<1>5. \A p \in Req : p >= nextReq => status'[p] = "idle"
  BY <1>0, <1>1, Numbers DEF Sent
<1>6. q' \in Queue /\ Audible(q')
  BY <1>2 DEF Moves
<1>7. active' \subseteq active /\ session' \in [up : BOOLEAN, provider : Providers]
  BY <1>0 DEF Types
<1> QED BY <1>0, <1>1, <1>2, <1>3, <1>4, <1>5, <1>6, <1>7, SameTurn

\* The answer to a cloud request, or its failure, fills the place it reserved.
LEMMA AnswerPlaces ==
    ASSUME Types, Sent, Places, NEW r \in active, status[r] = "synth", ~info[r].local,
           UNCHANGED <<info, nextReq, epoch>>,
           NEW a \in Queue, Audible(a), InOrder(a, Turn, Place), a.next = q.next,
           a.cursor = q.cursor, a.pend = q.pend,
           NEW s, NEW x \in {r, NoReq}, x = NoReq => r \in a.over,
           q' = EnqueueOrdered(a, s, info[r].seq, x),
           active' \subseteq active, status'[r] # "synth",
           \A p \in Req : p # r => status'[p] = status[p]
    PROVE  Places' /\ q' \in Queue /\ Audible(q') /\ q'.paused = a.paused
<1>1. r \in Req /\ r # NoReq /\ r \in Turn /\ info[r].seq \in Nat /\ Place[r] = info[r].seq
  BY Numbers, PlaceType DEF Sent, Turn, Types, Infos
<1>2. PICK m \in Nat : m = info[r].seq
  BY <1>1
<1>3. Turn \in SUBSET Req /\ Place \in [Req -> Nat] /\ \A p \in Req : Place[p] = info[p].seq
  BY PlaceType
<1>4. OwnPlaces(Turn, Place, a.next) /\ m < a.next
  BY <1>1, <1>2 DEF Places, OwnPlaces
<1>5. Free(q, m)
  BY <1>2 DEF Places, Owed
<1>6. a.cursor <= m
  <2>1. a.cursor \in Nat
    BY DEF Queue
  <2> QED BY <1>5, <2>1 DEF Free
<1>7. x \in Slots /\ (x # NoReq => x \in Turn /\ Place[x] = m)
  BY <1>1, <1>2 DEF Slots
<1>8. x = NoReq => \A p \in Turn : Place[p] = m => p \in a.over
  BY <1>1, <1>2, <1>4 DEF OwnPlaces
<1>9. PICK T \in SUBSET Req : T = Turn
  BY <1>3
<1>10. PICK n \in [Req -> Nat] : n = Place
  BY <1>3
<1>11. PICK b : b = EnqueueOrdered(a, s, m, x)
  OBVIOUS
<1>12. /\ b \in Queue /\ Audible(b) /\ InOrder(b, T, n)
       /\ b.next = a.next /\ b.paused = a.paused
       /\ \A k \in Nat : k # m /\ Free(a, k) => Free(b, k)
  BY <1>4, <1>6, <1>7, <1>8, <1>9, <1>10, <1>11, EnqueueMoves
<1>13. q' = b
  BY <1>2, <1>11
<1>14. Turn' = Turn /\ Place' = Place
  BY TurnKept
<1>15. Owed'
  <2> SUFFICES ASSUME NEW p \in active', status'[p] = "synth", ~info[p].local
               PROVE  Free(b, info[p].seq)
    BY <1>13 DEF Owed
  <2>1. p \in active /\ p # r /\ p \in Req
    BY DEF Types
  <2>2. status[p] = "synth" /\ p \in Turn
    BY <2>1 DEF Turn, Sent
  <2>3. Free(q, info[p].seq)
    BY <2>1, <2>2 DEF Places, Owed
  <2>4. info[p].seq # m /\ info[p].seq \in Nat
    BY <1>1, <1>2, <1>3, <1>4, <2>1, <2>2 DEF OwnPlaces, Types, Infos
  <2>5. Free(a, info[p].seq)
    BY <2>3 DEF Free
  <2> QED BY <1>12, <2>4, <2>5
<1>16. Places'
  BY <1>4, <1>9, <1>10, <1>12, <1>13, <1>14, <1>15 DEF Places
<1> QED BY <1>12, <1>13, <1>16

\* A synthesis that succeeds keeps the invariant,
LEMMA DoneStep ==
    ASSUME IInv, NEW r \in Req, SynthesisDone(r)
    PROVE  IInv'
<1>0. /\ Types /\ Sent /\ Chain /\ Audible(q) /\ Held /\ Places
  BY DEF IInv
<1>1. /\ status[r] = "synth" /\ Settle(r) /\ active' = active \ {r}
      /\ UNCHANGED <<info, nextReq, epoch, session>>
  BY DEF SynthesisDone
<1>2. src' \in Sources
  BY <1>0 DEF SynthesisDone, Sources, Types
<1>3. CASE r \notin active
  BY <1>1, <1>2, <1>3, SettleStep DEF SynthesisDone
<1>4. CASE r \in active /\ info[r].local
  <2>1. PICK slow \in BOOLEAN, drained \in BOOLEAN :
             OpenWindow(info[r].gen, slow, StreamEnds(r, src', drained), src')
    BY <1>4 DEF SynthesisDone
  <2>2. Moves(q, StreamEnds(r, src', drained))
    BY <1>0, EndsMoves DEF Types
  <2>3. StreamEnds(r, src', drained) \in Queue /\ Audible(StreamEnds(r, src', drained))
    BY <2>2 DEF Moves
  <2>4. Windows(info[r].gen, StreamEnds(r, src', drained))
    BY <1>0, <2>1, <2>3, OpenWindows DEF Types
  <2>5. Windows(info[r].gen, q)
    BY <1>0, <2>2, <2>4, WindowsOn DEF Types
  <2> QED BY <1>1, <1>2, <2>5, SettleStep
<1>5. CASE r \in active /\ ~info[r].local
  <2>1. q' = EnqueueOrdered(q, src', info[r].seq, r) /\ sched' = sched
    BY <1>5 DEF SynthesisDone
  <2>2. /\ Chain' /\ tail' \in Seq(Req) /\ status' \in States
        /\ \A p \in Req : p # r => status'[p] = status[p]
        /\ status'[r] = "done" /\ r < nextReq
    BY <1>0, <1>1, Settles
  <2>3. InOrder(q, Turn, Place) /\ q \in Queue /\ r # NoReq
    BY <1>0, Numbers DEF Places, Types
  <2>4. Places' /\ q' \in Queue /\ Audible(q') /\ q'.paused = q.paused
    BY <1>0, <1>1, <1>5, <2>1, <2>2, <2>3, AnswerPlaces
  <2>5. Held'
    BY <1>0, <1>1, <1>5, <2>1, <2>2, <2>4, HeldKept DEF Types
  <2>6. \A p \in Req : p >= nextReq => status'[p] = "idle"
    BY <1>0, <2>2, Numbers DEF Sent
  <2> QED BY <1>0, <1>1, <1>2, <2>1, <2>2, <2>4, <2>5, <2>6, SameTurn DEF Types
<1> QED BY <1>3, <1>4, <1>5

\* and so does one that fails,
LEMMA FailStep ==
    ASSUME IInv, NEW r \in Req, SynthesisFails(r)
    PROVE  IInv'
<1>0. /\ Types /\ Sent /\ Chain /\ Audible(q) /\ Held /\ Places
  BY DEF IInv
<1>1. status[r] = "synth" /\ UNCHANGED <<info, nextReq, epoch, session>>
  BY DEF SynthesisFails
<1>2. src' \in Sources
  BY <1>0 DEF SynthesisFails, Sources, Types
<1>3. CASE r \notin active
  BY <1>1, <1>2, <1>3, SettleStep DEF SynthesisFails
<1>4. CASE r \in active /\ info[r].local
  <2>0. Settle(r) /\ active' = active \ {r}
    BY <1>4 DEF SynthesisFails
  <2>1. PICK drained \in BOOLEAN : Release(info[r].gen, StreamEnds(r, src', drained), src')
    BY <1>4 DEF SynthesisFails
  <2>2. Moves(q, StreamEnds(r, src', drained))
    BY <1>0, EndsMoves DEF Types
  <2>3. StreamEnds(r, src', drained) \in Queue /\ Audible(StreamEnds(r, src', drained))
    BY <2>2 DEF Moves
  <2>4. Windows(info[r].gen, StreamEnds(r, src', drained))
    BY <1>0, <2>1, <2>3, Releases DEF Types
  <2>5. Windows(info[r].gen, q)
    BY <1>0, <2>2, <2>4, WindowsOn DEF Types
  <2> QED BY <1>1, <1>2, <2>0, <2>5, SettleStep
<1>5. CASE r \in active /\ ~info[r].local
  <2>0. PICK a : a = [q EXCEPT !.over = @ \cup {r}]
    OBVIOUS
  <2>1. /\ q' = EnqueueOrdered(a, src', info[r].seq, NoReq) /\ UNCHANGED <<sched, tail, active>>
        /\ status' = [status EXCEPT ![r] = "utter"]
    BY <1>5, <2>0 DEF SynthesisFails
  <2>2. /\ status' \in States /\ status'[r] = "utter"
        /\ \A p \in Req : p # r => status'[p] = status[p]
    BY <1>0, <2>1 DEF Types, States
  <2>3. /\ a \in Queue /\ a.items = q.items /\ a.current = q.current /\ a.over = q.over \cup {r}
        /\ a.cursor = q.cursor /\ a.next = q.next /\ a.pend = q.pend
        /\ a.paused = q.paused /\ a.playing = q.playing /\ a.mic = q.mic
        /\ a.cooldown = q.cooldown
    BY <1>0, <2>0 DEF Types, Queue
  <2>4. InOrder(a, Turn, Place) /\ Audible(a)
    BY <1>0, <2>3 DEF Places, InOrder, Lined, Accounted, Waiting, Audible
  <2>5. Places' /\ q' \in Queue /\ Audible(q') /\ q'.paused = a.paused
    BY <1>0, <1>1, <1>5, <2>1, <2>2, <2>3, <2>4, AnswerPlaces
  <2>6. Chain'
    BY <1>0, <1>1, <1>5, <2>1, <2>2, ChainKept
  <2>7. Held'
    BY <1>0, <1>1, <1>5, <2>1, <2>2, <2>3, <2>5, HeldKept DEF Types
  <2>8. \A p \in Req : p >= nextReq => status'[p] = "idle"
    BY <1>0, <1>1, <2>2 DEF Sent
  <2> QED BY <1>0, <1>1, <1>2, <2>1, <2>2, <2>5, <2>6, <2>7, <2>8, SameTurn DEF Types
<1> QED BY <1>3, <1>4, <1>5

\* and the end of a browser's utterance.
LEMMA UtterStep ==
    ASSUME IInv, NEW r \in Req, UtteranceEnds(r)
    PROVE  IInv'
<1>0. /\ Types /\ Sent /\ Chain /\ Audible(q) /\ Held /\ Places
  BY DEF IInv
<1>1. /\ status[r] = "utter" /\ status' = [status EXCEPT ![r] = "done"] /\ active' = active \ {r}
      /\ UNCHANGED <<q, sched, tail, info, src, nextReq, epoch, session>>
  BY DEF UtteranceEnds
<1>2. /\ status' \in States /\ status'[r] = "done"
      /\ \A p \in Req : p # r => status'[p] = status[p]
  BY <1>0, <1>1 DEF Types, States
<1>3. Moves(q, q')
  BY <1>0, <1>1, StaysMoves DEF Types
<1>4. Chain'
  BY <1>0, <1>1, <1>2, ChainKept
<1>5. Held'
  BY <1>0, <1>1, <1>2, HeldKept DEF Types
<1>6. Places'
  BY <1>0, <1>1, <1>2, <1>3, PlacesKept DEF Types
<1>7. \A p \in Req : p >= nextReq => status'[p] = "idle"
  BY <1>0, <1>1, <1>2 DEF Sent
<1> QED BY <1>0, <1>1, <1>2, <1>4, <1>5, <1>6, <1>7, SameTurn DEF Types

-----------------------------------------------------------------------------
(* Turns and sentences *)

\* The queue is cleared and a new turn begins.
LEMMA ClearStep ==
    ASSUME IInv, epoch < MaxGen, epoch' = epoch + 1, active' = {},
           UNCHANGED <<tail, info, src, nextReq>>,
           sched' = sched \/ sched' = NewTurn(sched.gen + 1),
           q' \in Queue, Audible(q'), ~q'.paused, \A n : InOrder(q', {}, n),
           session' \in [up : BOOLEAN, provider : Providers],
           \/ status' = status
           \/ status' = [r \in Req |-> IF status[r] = "utter" THEN "done" ELSE status[r]]
    PROVE  IInv'
<1>0. /\ Types /\ Sent /\ Chain
  BY DEF IInv
<1>1. status' \in States /\ \A r \in Req : \/ status'[r] = status[r]
                                           \/ status'[r] = "done" /\ status[r] = "utter"
  BY <1>0 DEF Types, States
<1>2. epoch \in Nat /\ MaxGen \in Nat /\ epoch' \in 0..MaxGen
  BY <1>0, VoiceAssumption DEF Types
<1>3. sched' \in Sched /\ sched'.gen <= epoch'
  <2>1. sched \in Sched /\ sched.gen \in 0..MaxGen /\ sched.gen <= epoch
    BY <1>0 DEF Types, Sched
  <2>2. sched.gen + 1 \in 0..MaxGen /\ sched.gen + 1 <= epoch'
    BY <1>2, <2>1
  <2>3. NewTurn(sched.gen + 1) \in Sched /\ NewTurn(sched.gen + 1).gen = sched.gen + 1
    BY <2>2 DEF Sched, NewTurn
  <2> QED BY <1>2, <2>1, <2>2, <2>3
<1>4. Types'
  BY <1>0, <1>1, <1>2, <1>3 DEF Types
<1>5. Sent'
  <2>1. \A r \in Req : r >= nextReq' => status'[r] = "idle"
    BY <1>0, <1>1 DEF Sent
  <2>2. \A r \in Req : r < nextReq' => info'[r].epoch <= epoch'
    <3> SUFFICES ASSUME NEW r \in Req, r < nextReq PROVE info[r].epoch <= epoch + 1
      OBVIOUS
    <3>1. info[r].epoch <= epoch /\ info[r].epoch \in Nat
      BY <1>0 DEF Sent, Types, Infos
    <3> QED BY <3>1, <1>2
  <2> QED BY <2>1, <2>2 DEF Sent
<1>6. Chain'
  BY <1>0, <1>1, ChainKept
<1>7. Turn' = {}
  <2> SUFFICES ASSUME NEW r \in Req, r < nextReq, info[r].epoch = epoch + 1 PROVE FALSE
    BY DEF Turn
  <2>1. info[r].epoch <= epoch
    BY <1>0 DEF Sent
  <2> QED BY <2>1, <1>2
<1>8. Places'
  <2>1. OwnPlaces({}, Place', q'.next)
    BY DEF OwnPlaces
  <2> QED BY <1>7, <2>1 DEF Places, Owed
<1> QED BY <1>4, <1>5, <1>6, <1>8 DEF IInv, Held

\* A cleared queue stays so with another microphone or activity.
LEMMA Cleared ==
    ASSUME NEW a \in Queue, Audible(a), NEW keep \in BOOLEAN, NEW b, NEW c,
           b = [ClearQueue(a) EXCEPT !.activity = @ /\ keep],
           c = [ClearQueue(a) EXCEPT !.mic = "off", !.cooldown = FALSE]
    PROVE  /\ b \in Queue /\ Audible(b) /\ ~b.paused /\ \A n : InOrder(b, {}, n)
           /\ c \in Queue /\ Audible(c) /\ ~c.paused /\ \A n : InOrder(c, {}, n)
<1>1. PICK d \in Queue : d = ClearQueue(a)
  BY ClearFacts
<1>2. Audible(d) /\ ~d.paused /\ \A n : InOrder(d, {}, n)
  BY <1>1, ClearFacts
<1>3. b = [d EXCEPT !.activity = @ /\ keep] /\ c = [d EXCEPT !.mic = "off", !.cooldown = FALSE]
  BY <1>1
<1>4. PICK act \in BOOLEAN : act = (d.activity /\ keep)
  OBVIOUS
<1>5. b = [d EXCEPT !.activity = act]
  BY <1>3, <1>4
<1>6. /\ b \in Queue /\ b.items = d.items /\ b.current = d.current /\ b.over = d.over
      /\ b.cursor = d.cursor /\ b.next = d.next /\ b.pend = d.pend
      /\ b.paused = d.paused /\ b.playing = d.playing /\ b.mic = d.mic /\ b.cooldown = d.cooldown
  BY <1>5 DEF Queue
<1>7. /\ c \in Queue /\ c.items = d.items /\ c.current = d.current /\ c.over = d.over
      /\ c.cursor = d.cursor /\ c.next = d.next /\ c.pend = d.pend
      /\ c.paused = d.paused /\ c.playing = d.playing /\ c.mic = "off"
  BY <1>3 DEF Queue
<1> QED BY <1>2, <1>6, <1>7 DEF InOrder, Lined, Accounted, Waiting, Audible

\* Barge-ins, the button and the end of a session keep the invariant.
LEMMA Interrupts ==
    ASSUME IInv, Interrupt \/ QuietByButton \/ EndSession
    PROVE  IInv'
<1>0. q \in Queue /\ Audible(q) /\ session \in [up : BOOLEAN, provider : Providers]
  BY DEF IInv, Types
<1>1. CASE Interrupt
  <2>1. PICK keep \in BOOLEAN : q' = [ClearQueue(q) EXCEPT !.activity = @ /\ keep]
    BY <1>1 DEF Interrupt
  <2>2. q' \in Queue /\ Audible(q') /\ ~q'.paused /\ \A n : InOrder(q', {}, n)
    BY <1>0, <2>1, Cleared
  <2> QED BY <1>0, <1>1, <2>2, ClearStep DEF Interrupt
<1>2. CASE QuietByButton
  <2>1. q' \in Queue /\ Audible(q') /\ ~q'.paused /\ \A n : InOrder(q', {}, n)
    BY <1>0, <1>2, ClearFacts DEF QuietByButton
  <2> QED BY <1>0, <1>2, <2>1, ClearStep DEF QuietByButton
<1>3. CASE EndSession
  <2>1. q' \in Queue /\ Audible(q') /\ ~q'.paused /\ \A n : InOrder(q', {}, n)
    BY <1>0, <1>3, Cleared DEF EndSession
  <2>2. session' \in [up : BOOLEAN, provider : Providers]
    BY <1>0, <1>3 DEF EndSession
  <2> QED BY <1>3, <2>1, <2>2, ClearStep DEF EndSession
<1> QED BY <1>1, <1>2, <1>3

\* The next place is reserved for r.
LEMMA ReserveInOrder ==
    ASSUME NEW T \in SUBSET Req, NEW n \in [Req -> Nat], NEW a \in Queue, NEW r \in Req \ T,
           InOrder(a, T, n), OwnPlaces(T, n, a.next),
           NEW b \in Queue, b.items = a.items, b.current = a.current, b.cursor = a.cursor,
           b.pend = a.pend, b.next = a.next + 1, a.over \subseteq b.over,
           NEW k, k = [n EXCEPT ![r] = a.next]
    PROVE  InOrder(b, T \cup {r}, k) /\ OwnPlaces(T \cup {r}, k, b.next)
<1>1. a.next \in Nat /\ a.cursor \in Nat /\ a.cursor <= a.next
  BY DEF Queue, InOrder
<1>2. k[r] = a.next /\ \A p \in T : k[p] = n[p] /\ n[p] \in Nat /\ n[p] < a.next /\ p # r
  BY DEF OwnPlaces
<1>3. OwnPlaces(T \cup {r}, k, b.next)
  BY <1>1, <1>2 DEF OwnPlaces
<1>4. Lined(b, T \cup {r}, k)
  BY <1>2 DEF InOrder, Lined
<1>5. Accounted(b, T \cup {r}, k)
  BY <1>1, <1>2 DEF InOrder, Accounted
<1>6. Waiting(b, T \cup {r}, k)
  <2>1. \A e \in a.pend : e[1] \in Nat /\ e[1] < a.next
    BY DEF InOrder, Waiting, Queue
  <2>2. \A e \in b.pend : b.cursor <= e[1] /\ e[1] < b.next
    BY <1>1, <2>1 DEF InOrder, Waiting
  <2>3. \A e \in b.pend : e[2] # NoReq => e[2] \in T \cup {r} /\ k[e[2]] = e[1]
    BY <1>2 DEF InOrder, Waiting
  <2>4. \A e \in b.pend : e[2] = NoReq => \A p \in T \cup {r} : k[p] = e[1] => p \in b.over
    BY <1>1, <1>2, <2>1 DEF InOrder, Waiting
  <2> QED BY <2>2, <2>3, <2>4 DEF InOrder, Waiting
<1> QED BY <1>1, <1>3, <1>4, <1>5, <1>6 DEF InOrder

\* The elements of a sequence with one more.
LEMMA Appended ==
    ASSUME NEW S, NEW w \in Seq(S), NEW x \in S, NEW v, v = Append(w, x)
    PROVE  /\ v \in Seq(S) /\ v # <<>>
           /\ \A i \in DOMAIN w : i \in DOMAIN v /\ v[i] = w[i]
           /\ \A i \in DOMAIN v : i \in DOMAIN w \/ (i = Len(w) + 1 /\ v[i] = x)
<1>1. Len(w) \in Nat /\ DOMAIN w = 1..Len(w)
  OBVIOUS
<1>2. /\ v \in Seq(S) /\ Len(v) = Len(w) + 1 /\ v[Len(w) + 1] = x
      /\ \A i \in 1..Len(w) : v[i] = w[i]
  BY AppendProperties
<1>3. DOMAIN v = 1..(Len(w) + 1)
  BY <1>2
<1> QED BY <1>1, <1>2, <1>3

\* What reserving a place does to the queue.
LEMMA ReserveType ==
    ASSUME NEW a \in Queue, NEW act \in BOOLEAN,
           NEW b, b = [a EXCEPT !.next = @ + 1, !.activity = act]
    PROVE  /\ b \in Queue /\ b.items = a.items /\ b.current = a.current /\ b.over = a.over
           /\ b.cursor = a.cursor /\ b.next = a.next + 1 /\ b.pend = a.pend
           /\ b.paused = a.paused /\ b.playing = a.playing /\ b.mic = a.mic
           /\ b.cooldown = a.cooldown
<1>1. a.next + 1 \in Nat
  BY DEF Queue
<1>2. PICK m \in Nat : m = a.next + 1
  BY <1>1
<1>3. b = [a EXCEPT !.next = m, !.activity = act]
  BY <1>2
<1>4. b \in Queue
  BY <1>3 DEF Queue
<1> QED BY <1>2, <1>3, <1>4 DEF Queue

\* A sentence takes the next place in the order of play.
LEMMA SendStep ==
    ASSUME IInv, NEW provider \in Providers, NEW activity \in BOOLEAN,
           SendSentence(provider, activity)
    PROVE  IInv'
<1>0. /\ Types /\ Sent /\ Chain /\ Audible(q) /\ Held /\ Places
  BY DEF IInv
<1>1. PICK r \in Req : r = nextReq /\ nextReq' = r + 1 /\ r <= MaxReq /\ r \in Nat /\ r # NoReq
  BY <1>0, VoiceAssumption DEF SendSentence, Types, Req, NoReq
<1>2. PICK seq \in Nat : seq = q.next
  BY <1>0 DEF Types, Queue
<1>3. PICK i : /\ i \in [epoch : Nat, gen : Nat, seq : Nat, local : BOOLEAN]
               /\ i.epoch = epoch /\ i.gen = sched.gen /\ i.seq = seq
               /\ i.local <=> provider = "local"
               /\ info' = [info EXCEPT ![r] = i]
  <2>1. PICK local \in BOOLEAN : local = (provider = "local")
    OBVIOUS
  <2>2. PICK i : i = [epoch |-> epoch, gen |-> sched.gen, seq |-> seq, local |-> local]
    OBVIOUS
  <2>3. info' = [info EXCEPT ![r] = i]
    BY <1>1, <1>2, <2>1, <2>2 DEF SendSentence
  <2>4. i \in [epoch : Nat, gen : Nat, seq : Nat, local : BOOLEAN]
    BY <1>0, <2>2, VoiceAssumption DEF Types, Sched
  <2>5. local <=> provider = "local"
    BY <2>1
  <2> QED BY <2>2, <2>3, <2>4, <2>5
<1>4. info' \in Infos /\ info'[r] = i /\ \A p \in Req : p # r => info'[p] = info[p]
  BY <1>0, <1>3 DEF Types, Infos
<1>5. /\ active' = active \cup {r} /\ session' \in [up : BOOLEAN, provider : Providers]
      /\ UNCHANGED <<src, epoch>>
  BY <1>0, <1>1 DEF SendSentence, Types
<1>6. r \notin active /\ r \notin Turn /\ status[r] = "idle"
  BY <1>0, <1>1 DEF Sent, Turn
<1>7. \A p \in Req : p < r <=> p < nextReq
  BY <1>1
<1>8. \A p \in Req : p < nextReq' <=> p < nextReq \/ p = r
  BY <1>1, <1>0, Numbers
<1>9. Turn' = Turn \cup {r}
  BY <1>1, <1>3, <1>4, <1>5, <1>8 DEF Turn
<1>10. Place' = [Place EXCEPT ![r] = seq]
  <2>1. \A p \in Req : info'[p].seq = IF p = r THEN seq ELSE info[p].seq
    BY <1>3, <1>4
  <2>2. Place' = [p \in Req |-> info'[p].seq] /\ Place = [p \in Req |-> info[p].seq]
    BY DEF Place
  <2> QED BY <2>1, <2>2
<1>11. PICK n \in [Req -> Nat] : n = Place
  BY <1>0, PlaceType
<1>12. PICK T \in SUBSET Req : T = Turn
  BY <1>0, PlaceType
<1>13. PICK k : k = [n EXCEPT ![r] = seq]
  OBVIOUS
<1>14. k \in [Req -> Nat] /\ k[r] = seq
  BY <1>13
<1>15. ASSUME NEW b \in Queue, b.items = q.items, b.current = q.current, b.cursor = q.cursor,
              b.pend = q.pend, b.next = seq + 1, q.over \subseteq b.over
       PROVE  InOrder(b, T \cup {r}, k) /\ OwnPlaces(T \cup {r}, k, b.next)
  BY <1>0, <1>2, <1>6, <1>11, <1>12, <1>13, <1>15, ReserveInOrder DEF Places, Types
<1>16. \A p \in active :
          p \in Req /\ p # r /\ p \in Turn /\ info[p].seq \in Nat /\ info[p].seq < seq
  <2> SUFFICES ASSUME NEW p \in active
               PROVE  p \in Req /\ p # r /\ p \in Turn /\ info[p].seq \in Nat /\ info[p].seq < seq
    OBVIOUS
  <2>1. p \in Req /\ p # r /\ p \in Turn
    BY <1>0, <1>6 DEF Sent, Turn, Types
  <2>2. Place[p] = info[p].seq /\ Place[p] \in Nat
    BY <1>0, <2>1, PlaceType
  <2> QED BY <1>0, <1>2, <2>1, <2>2 DEF Places, OwnPlaces
<1>17. Free(q, seq) /\ q.cursor <= seq
  <2>1. q.cursor \in Nat /\ q.pend \subseteq Nat \X Slots
    BY <1>0 DEF Types, Queue
  <2> QED BY <1>0, <1>2, <2>1 DEF Free, Places, InOrder, Waiting
<1>18. ASSUME sched' \in Sched, sched'.gen = sched.gen, q' \in Queue, Audible(q'),
              tail' \in Seq(Req), Chain', Held',
              NEW state \in {"waiting", "synth", "utter"}, status' = [status EXCEPT ![r] = state],
              InOrder(q', T \cup {r}, k), OwnPlaces(T \cup {r}, k, q'.next),
              \A m \in Nat : m # seq /\ Free(q, m) => Free(q', m),
              state = "synth" => provider = "local" \/ Free(q', seq)
       PROVE  IInv'
  <2>1. /\ status' \in States /\ status'[r] = state
        /\ \A p \in Req : p # r => status'[p] = status[p]
    BY <1>0, <1>18 DEF Types, States
  <2>2. Types'
    <3>1. nextReq' \in 1..(MaxReq + 1)
      BY <1>1, VoiceAssumption
    <3>2. active' \subseteq Req
      BY <1>0, <1>5 DEF Types
    <3> QED BY <1>0, <1>4, <1>5, <1>18, <2>1, <3>1, <3>2 DEF Types
  <2>3. Sent'
    <3>1. \A p \in Req : p >= nextReq' => status'[p] = "idle"
      <4> SUFFICES ASSUME NEW p \in Req, p >= r + 1 PROVE status'[p] = "idle"
        BY <1>1
      <4>1. p >= r /\ p # r
        BY <1>1, <1>0, Numbers
      <4> QED BY <1>0, <1>1, <2>1, <4>1 DEF Sent
    <3>2. \A p \in active' : p < nextReq' /\ info'[p].epoch = epoch'
      <4> TAKE p \in active'
      <4>1. CASE p = r
        BY <4>1, <1>1, <1>3, <1>4, <1>5
      <4>2. CASE p # r
        BY <4>2, <1>0, <1>4, <1>5, <1>8, <1>16 DEF Sent
      <4> QED BY <4>1, <4>2
    <3>3. \A p \in Req : p < nextReq' => info'[p].epoch <= epoch'
      <4> SUFFICES ASSUME NEW p \in Req, p < nextReq' PROVE info'[p].epoch <= epoch'
        OBVIOUS
      <4>1. CASE p = r
        BY <4>1, <1>0, <1>3, <1>4, <1>5, VoiceAssumption DEF Types
      <4>2. CASE p # r
        BY <4>2, <1>0, <1>4, <1>5, <1>8 DEF Sent
      <4> QED BY <4>1, <4>2
    <3> QED BY <3>1, <3>2, <3>3 DEF Sent
  <2>4. Owed'
    <3> SUFFICES ASSUME NEW p \in active', status'[p] = "synth", ~info'[p].local
                 PROVE  Free(q', info'[p].seq)
      BY DEF Owed
    <3>1. CASE p = r
      BY <3>1, <1>3, <1>4, <1>18, <2>1
    <3>2. CASE p # r
      <4>1. /\ p \in active /\ p \in Req /\ info'[p] = info[p]
            /\ info[p].seq \in Nat /\ info[p].seq # seq
        BY <3>2, <1>2, <1>4, <1>5, <1>16
      <4>2. Free(q, info[p].seq)
        BY <4>1, <3>2, <1>0, <2>1 DEF Places, Owed
      <4> QED BY <4>1, <4>2, <1>18
    <3> QED BY <3>1, <3>2
  <2>5. Turn' = T \cup {r} /\ Place' = k
    BY <1>9, <1>10, <1>11, <1>12, <1>13
  <2>6. Places'
    BY <1>18, <2>4, <2>5 DEF Places
  <2> QED BY <1>18, <2>2, <2>3, <2>6 DEF IInv
<1>19. PICK act \in BOOLEAN : act = (q.activity \/ activity)
  OBVIOUS
<1>20. PICK a : a = [q EXCEPT !.next = @ + 1, !.activity = act]
  OBVIOUS
<1>21. a = [q EXCEPT !.next = @ + 1, !.activity = @ \/ activity]
  BY <1>19, <1>20
<1>22. /\ a \in Queue /\ a.items = q.items /\ a.current = q.current /\ a.over = q.over
       /\ a.cursor = q.cursor /\ a.next = seq + 1 /\ a.pend = q.pend
       /\ a.paused = q.paused /\ a.playing = q.playing /\ a.mic = q.mic
       /\ a.cooldown = q.cooldown
  <2>1. q \in Queue
    BY <1>0 DEF Types
  <2>2. PICK z \in Queue : z = q
    BY <2>1
  <2>3. a = [z EXCEPT !.next = @ + 1, !.activity = act]
    BY <1>20, <2>2
  <2>4. /\ a \in Queue /\ a.items = z.items /\ a.current = z.current /\ a.over = z.over
        /\ a.cursor = z.cursor /\ a.next = z.next + 1 /\ a.pend = z.pend
        /\ a.paused = z.paused /\ a.playing = z.playing /\ a.mic = z.mic
        /\ a.cooldown = z.cooldown
    BY <2>3, ReserveType, Zenon
  <2> QED BY <1>2, <2>2, <2>4
<1>23. CASE provider = "local"
  <2>1. /\ sched' = NoteSentence(seq)
        /\ q' = EnqueueOrdered([a EXCEPT !.paused = @ \/ seq = 0], src, seq, r)
        /\ tail' = Append(tail, r) /\ status' = [status EXCEPT ![r] = "waiting"]
    BY <1>1, <1>2, <1>21, <1>23 DEF SendSentence
  <2>2. PICK d : d = [a EXCEPT !.paused = @ \/ seq = 0]
    OBVIOUS
  <2>3. /\ d \in Queue /\ d.items = q.items /\ d.current = q.current /\ d.over = q.over
        /\ d.cursor = q.cursor /\ d.next = seq + 1 /\ d.pend = q.pend
        /\ d.paused = (q.paused \/ seq = 0) /\ d.playing = q.playing /\ d.mic = q.mic
        /\ d.cooldown = q.cooldown
    BY <1>22, <2>2 DEF Queue
  <2>4. Audible(d)
    BY <1>0, <2>3 DEF Audible
  <2>5. InOrder(d, T \cup {r}, k) /\ OwnPlaces(T \cup {r}, k, d.next)
    BY <1>15, <2>3
  <2>6. PICK b : b = EnqueueOrdered(d, src, seq, r)
    OBVIOUS
  <2>7. T \cup {r} \in SUBSET Req /\ r \in Slots /\ seq < d.next /\ d.cursor <= seq
    BY <1>17, <2>3 DEF Slots
  <2>8. /\ b \in Queue /\ Audible(b) /\ InOrder(b, T \cup {r}, k)
        /\ b.next = d.next /\ b.paused = d.paused
        /\ \A m \in Nat : m # seq /\ Free(d, m) => Free(b, m)
    <3>1. r # NoReq => r \in T \cup {r} /\ k[r] = seq
      BY <1>14
    <3> QED BY <1>1, <1>14, <2>3, <2>4, <2>5, <2>6, <2>7, <3>1, EnqueueMoves
  <2>9. q' = b
    BY <2>1, <2>2, <2>6
  <2>10. \A m \in Nat : m # seq /\ Free(q, m) => Free(q', m)
    BY <2>3, <2>8, <2>9 DEF Free
  <2>11. /\ status' \in States /\ status'[r] = "waiting"
         /\ \A p \in Req : p # r => status'[p] = status[p]
    BY <1>0, <2>1 DEF Types, States
  <2>12. /\ sched' \in Sched /\ sched'.gen = sched.gen
         /\ seq = 0 => ~sched'.released
         /\ seq # 0 => sched'.released = sched.released /\ sched'.timer = sched.timer
    <3>1. CASE seq = 0
      <4>1. sched' = [gen |-> sched.gen, count |-> 1, released |-> FALSE, timer |-> FALSE]
        BY <2>1, <3>1 DEF NoteSentence, NewTurn
      <4> QED BY <1>0, <3>1, <4>1 DEF Types, Sched
    <3>2. CASE seq # 0
      <4>1. sched' = [sched EXCEPT !.count = @ + 1]
        BY <2>1, <3>2 DEF NoteSentence
      <4>2. sched \in Sched
        BY <1>0 DEF Types
      <4>3. sched' \in Sched
        BY <4>1, <4>2 DEF Sched
      <4>4. /\ sched'.gen = sched.gen /\ sched'.released = sched.released
            /\ sched'.timer = sched.timer
        BY <4>1, <4>2 DEF Sched
      <4> QED BY <3>2, <4>3, <4>4
    <3> QED BY <3>1, <3>2
  <2>13. tail \in Seq(Req) /\ \A j \in DOMAIN tail : tail[j] \in Req /\ tail[j] # r
    BY <1>0, <1>6 DEF Types, Chain
  <2>14. PICK v \in Seq(Req) : v = tail' /\ v = Append(tail, r)
    BY <2>1, <2>13, AppendProperties
  <2>15. /\ v # <<>>
         /\ \A j \in DOMAIN tail : j \in DOMAIN v /\ v[j] = tail[j]
         /\ \A j \in DOMAIN v : j \in DOMAIN tail \/ (j = Len(tail) + 1 /\ v[j] = r)
    BY <2>13, <2>14, Appended
  <2>16. Chain'
    <3>1. ASSUME NEW j \in DOMAIN v
          PROVE  /\ v[j] < nextReq' /\ info'[v[j]].local
                 /\ status'[v[j]] = "waiting" \/ (j = 1 /\ status'[v[j]] = "synth")
      <4>1. CASE j \in DOMAIN tail
        <5>1. PICK p \in Req : p = tail[j] /\ p = v[j] /\ p # r
          BY <4>1, <2>13, <2>15
        <5>2. /\ p < nextReq /\ info[p].local
              /\ status[p] = "waiting" \/ (j = 1 /\ status[p] = "synth")
          BY <4>1, <5>1, <1>0 DEF Chain
        <5>3. info'[p] = info[p] /\ status'[p] = status[p] /\ p < nextReq'
          BY <5>1, <5>2, <1>4, <1>8, <2>11
        <5> QED BY <5>1, <5>2, <5>3
      <4>2. CASE v[j] = r
        BY <4>2, <1>1, <1>3, <1>4, <1>23, <2>11
      <4> QED BY <4>1, <4>2, <2>15
    <3>2. \A h, j \in DOMAIN v : v[h] = v[j] => h = j
      BY <1>0, <2>13, <2>15 DEF Chain
    <3>3. ASSUME NEW p \in Req, info'[p].local, status'[p] = "synth"
          PROVE  v[1] = p
      <4>1. p # r /\ info[p].local /\ status[p] = "synth"
        BY <3>3, <1>4, <2>11
      <4>2. tail # <<>> /\ tail[1] = p
        BY <4>1, <1>0 DEF Chain
      <4>3. 1 \in DOMAIN tail
        BY <4>2, <2>13, TailPlaces
      <4> QED BY <4>2, <4>3, <2>15
    <3> QED BY <3>1, <3>2, <3>3, <2>14, <2>15 DEF Chain
  <2>17. Held'
    <3>0. q'.paused => q.paused \/ seq = 0
      BY <2>3, <2>8, <2>9
    <3>1. CASE seq = 0
      <4>1. r \in active' /\ info'[r].local /\ info'[r].gen = sched'.gen
        BY <1>3, <1>4, <1>5, <1>23, <2>12
      <4> QED BY <3>1, <4>1, <2>11, <2>12 DEF Held
    <3>2. CASE seq # 0
      <4>1. \A p \in active : /\ p \in active' /\ info'[p] = info[p] /\ status'[p] = status[p]
        BY <1>4, <1>5, <1>16, <2>11
      <4> QED BY <3>0, <3>2, <4>1, <1>0, <2>12 DEF Held
    <3> QED BY <3>1, <3>2
  <2>18. OwnPlaces(T \cup {r}, k, q'.next)
    BY <2>5, <2>8, <2>9
  <2> QED BY <1>18, <2>1, <2>8, <2>9, <2>10, <2>12, <2>14, <2>16, <2>17, <2>18
<1>24. CASE provider # "local"
  <2>1. PICK state \in {"synth", "utter"} : /\ status' = [status EXCEPT ![r] = state]
                                            /\ state = "synth" <=> provider = "cloud"
    BY <1>1, <1>24 DEF SendSentence
  <2>2. /\ q' = IF provider = "cloud" THEN a ELSE [a EXCEPT !.over = @ \cup {r}]
        /\ UNCHANGED <<sched, tail>>
    BY <1>1, <1>21, <1>24 DEF SendSentence
  <2>3. /\ q' \in Queue /\ q'.items = q.items /\ q'.current = q.current /\ q.over \subseteq q'.over
        /\ q'.cursor = q.cursor /\ q'.next = seq + 1 /\ q'.pend = q.pend
        /\ q'.paused = q.paused /\ q'.playing = q.playing /\ q'.mic = q.mic
        /\ q'.cooldown = q.cooldown
    BY <1>22, <2>2 DEF Queue
  <2>4. Audible(q')
    BY <1>0, <2>3 DEF Audible
  <2>5. InOrder(q', T \cup {r}, k) /\ OwnPlaces(T \cup {r}, k, q'.next)
    BY <1>15, <2>3
  <2>6. \A m \in Nat : Free(q, m) => Free(q', m)
    BY <2>3 DEF Free
  <2>7. Free(q', seq)
    BY <1>17, <2>6
  <2>8. /\ status' \in States /\ status'[r] = state
        /\ \A p \in Req : p # r => status'[p] = status[p]
    BY <1>0, <2>1 DEF Types, States
  <2>9. ~info'[r].local
    BY <1>3, <1>4, <1>24
  <2>10. \A p \in active : /\ p \in active' /\ info'[p] = info[p] /\ status'[p] = status[p]
    BY <1>4, <1>5, <1>16, <2>8
  <2>11. Held'
    BY <1>0, <2>2, <2>3, <2>10 DEF Held
  <2>12. Chain'
    <3>1. tail \in Seq(Req) /\ \A j \in DOMAIN tail : tail[j] \in Req /\ tail[j] # r
      BY <1>0, <1>6 DEF Types, Chain
    <3>2. \A p \in Req : info'[p].local /\ status'[p] = "synth" =>
                             info[p].local /\ status[p] = "synth"
      BY <1>4, <2>8, <2>9
    <3>3. \A j \in DOMAIN tail : /\ tail[j] < nextReq' /\ info'[tail[j]].local
                                 /\ \/ status'[tail[j]] = "waiting"
                                    \/ j = 1 /\ status'[tail[j]] = "synth"
      BY <1>0, <1>4, <1>8, <2>8, <3>1 DEF Chain
    <3> QED BY <1>0, <2>2, <3>2, <3>3 DEF Chain
  <2> QED BY <1>0, <1>18, <2>1, <2>2, <2>3, <2>4, <2>5, <2>6, <2>7, <2>11, <2>12 DEF Types
<1> QED BY <1>23, <1>24

-----------------------------------------------------------------------------
(* The theorems *)

\* The invariant holds initially.
LEMMA InvInit == Init => IInv
<1> SUFFICES ASSUME Init PROVE IInv
  OBVIOUS
<1>1. <<>> \in Seq(Req)
  OBVIOUS
<1>2. q = NewQueue /\ q \in Queue /\ Audible(q)
  BY <1>1 DEF Init, NewQueue, Queue, Slots, Audible
<1>3. sched = NewTurn(0) /\ sched \in Sched /\ sched.gen = 0
  BY VoiceAssumption DEF Init, NewTurn, Sched
<1>4. info \in Infos /\ \A r \in Req : info[r].epoch = 0 /\ ~info[r].local
  BY DEF Init, Infos
<1>5. status \in States /\ src \in Sources /\ \A r \in Req : status[r] = "idle"
  BY DEF Init, States, Sources
<1>6. tail = <<>> /\ active = {} /\ nextReq = 1 /\ epoch = 0
  BY DEF Init
<1>7. session \in [up : BOOLEAN, provider : Providers]
  BY DEF Init
<1>8. Types
  BY <1>1, <1>2, <1>3, <1>4, <1>5, <1>6, <1>7, VoiceAssumption DEF Types
<1>9. Sent /\ Chain /\ Held
  BY <1>1, <1>2, <1>4, <1>5, <1>6 DEF Sent, Chain, Held, NewQueue
<1>10. Turn = {}
  <2>1. \A r \in Req : ~(r < nextReq)
    BY <1>6, <1>8, Numbers DEF Req
  <2> QED BY <2>1 DEF Turn
<1>11. InOrder(q, {}, Place)
  BY <1>2, FS_EmptySet DEF InOrder, Lined, Accounted, Waiting, NewQueue
<1>12. Places
  BY <1>6, <1>10, <1>11 DEF Places, OwnPlaces, Owed
<1> QED BY <1>2, <1>8, <1>9, <1>12 DEF IInv

\* Every step keeps it.
LEMMA InvStep == IInv /\ [Next]_vars => IInv'
<1> SUFFICES ASSUME IInv, [Next]_vars PROVE IInv'
  OBVIOUS
<1>0. session \in [up : BOOLEAN, provider : Providers]
  BY DEF IInv, Types
<1>1. CASE Sentence
  <2>1. session.up /\ session.provider \in Providers
    BY <1>0, <1>1 DEF Sentence, SendSentence
  <2> QED BY <1>1, <2>1, SendStep DEF Sentence
<1>2. CASE ProactiveSends
  BY <1>2, SendStep DEF ProactiveSends
<1>3. CASE JobStarts
  BY <1>3, JobStep
<1>4. ASSUME NEW r \in Req, FirstChunk(r) \/ SynthesisDone(r) \/ SynthesisFails(r)
                   \/ UtteranceEnds(r) \/ ElementFails(r)
      PROVE  IInv'
  BY <1>4, ChunkStep, DoneStep, FailStep, UtterStep, Sounds
<1>5. CASE ElementPlays \/ ElementEnds \/ StreamDrains \/ MicReopens
  BY <1>5, Sounds
<1>6. CASE GraceFires \/ FinishStream
  BY <1>6, Timers
<1>7. CASE BargeIn \/ QuietByButton \/ EndSession \/ SlideSpeak
  BY <1>7, Interrupts DEF BargeIn, SlideSpeak
<1>8. CASE StartSession
  BY <1>8, Starts
<1>9. ASSUME NEW n \in loading, SlideSends(n)
      PROVE  IInv'
  BY <1>9, SendStep DEF SlideSends
<1>10. CASE UNCHANGED vars
  <2>1. q \in Queue /\ Audible(q) /\ src \in Sources
    BY DEF IInv, Types
  <2>2. Moves(q, q')
    BY <1>10, <2>1, StaysMoves DEF vars
  <2> QED BY <1>0, <1>10, <2>1, <2>2, QueueStep DEF vars
<1> QED BY <1>1, <1>2, <1>3, <1>4, <1>5, <1>6, <1>7, <1>8, <1>9, <1>10 DEF Next

\* It implies the properties of VoicePipeline.
LEMMA InvProperties == IInv => TypeOK /\ SpeaksInOrder /\ SingleFlight /\ EveryWaitHasAnEnd
<1> SUFFICES ASSUME IInv PROVE TypeOK /\ SpeaksInOrder /\ SingleFlight /\ EveryWaitHasAnEnd
  OBVIOUS
<1>0. /\ Types /\ Sent /\ Chain /\ Audible(q) /\ Held /\ Places
  BY DEF IInv
<1>1. TypeOK
  <2>1. q.cursor <= q.next
    BY <1>0 DEF Places, InOrder
  <2>2. /\ q.current \in Req \cup {NoReq} /\ q.items \in Seq(Req)
        /\ q.cursor \in Nat /\ q.next \in Nat
        /\ q.pend \subseteq Nat \X (Req \cup {NoReq})
        /\ q.over \subseteq Req
        /\ q.mic \in {"open", "paused", "off"}
        /\ {q.fresh, q.started, q.playing, q.paused, q.cooldown, q.activity} \subseteq BOOLEAN
    BY <1>0 DEF Types, Queue, Slots
  <2> QED BY <1>0, <2>1, <2>2 DEF TypeOK, Types, Sched, States, Sources
<1>2. SpeaksInOrder
  <2> SUFFICES ASSUME q.current # NoReq
               PROVE  /\ info[q.current].epoch = epoch
                      /\ \A r \in 1..(nextReq - 1) :
                            info[r].epoch = epoch /\ info[r].seq < info[q.current].seq
                               => r \in q.over
    BY DEF SpeaksInOrder
  <2>1. q.current \in Turn /\ Place[q.current] < q.cursor
    BY <1>0 DEF Places, InOrder, Lined
  <2>2. q.current \in Req /\ info[q.current].epoch = epoch
    BY <2>1 DEF Turn
  <2>3. ASSUME NEW r \in 1..(nextReq - 1), info[r].epoch = epoch, info[r].seq < info[q.current].seq
        PROVE  r \in q.over
    <3>1. r \in Req /\ r < nextReq
      BY <1>0, VoiceAssumption DEF Types, Req
    <3>2. r \in Turn
      BY <2>3, <3>1 DEF Turn
    <3>3. /\ Place[r] = info[r].seq /\ Place[q.current] = info[q.current].seq
          /\ Place[r] \in Nat /\ Place[q.current] \in Nat
      BY <1>0, <2>2, <3>1, PlaceType
    <3>4. Place[r] < Place[q.current]
      BY <2>3, <3>3
    <3>5. Place[r] < q.cursor
      BY <2>1, <3>3, <3>4, <1>0 DEF Types, Queue
    <3>6. r # q.current
      BY <3>3, <3>4
    <3>7. ~ \E i \in DOMAIN q.items : q.items[i] = r
      BY <1>0, <3>3, <3>4 DEF Places, InOrder, Lined
    <3> QED BY <1>0, <3>2, <3>5, <3>6, <3>7 DEF Places, InOrder, Accounted
  <2> QED BY <2>2, <2>3
<1>3. SingleFlight
  BY <1>0 DEF Chain, SingleFlight
<1>4. EveryWaitHasAnEnd
  BY <1>0 DEF Audible, Held, EveryWaitHasAnEnd
<1> QED BY <1>1, <1>2, <1>3, <1>4

\* The inductive invariant: for any number of requests and turns, any providers.
THEOREM InvariantHolds == Spec => []IInv
  BY InvInit, InvStep, PTL DEF Spec

\* The types of VoicePipeline hold.
THEOREM TypeCorrect == Spec => []TypeOK
  BY InvariantHolds, InvProperties, PTL

\* What plays is of this turn and every earlier sentence of it is over, in
\* whatever order synthesis answers, fails or is interrupted.
THEOREM InOrderAlways == Spec => []SpeaksInOrder
  BY InvariantHolds, InvProperties, PTL

\* One local request at a time is at the engine, across barge-ins and sessions.
THEOREM OneAtTheEngine == Spec => []SingleFlight
  BY InvariantHolds, InvProperties, PTL

\* Playback is held, and the microphone paused, only while something is on its
\* way that ends it.
THEOREM WaitsEnd == Spec => []EveryWaitHasAnEnd
  BY InvariantHolds, InvProperties, PTL
=============================================================================
