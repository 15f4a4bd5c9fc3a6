---------------------------- MODULE VoicePipeline ----------------------------
(***************************************************************************)
(* How the shell speaks during a voice session: each sentence of a reply   *)
(* reserves a place in the order of play, is synthesized (by the local GPU *)
(* one at a time, by a cloud provider in parallel), and is played in its   *)
(* place.  lib/tts/sentence-pipeline.ts, lib/tts/local-voice-scheduler.ts, *)
(* lib/voice/audio-queue.ts, and their caller components/ChatArea.tsx.     *)
(*                                                                         *)
(* One action is one JavaScript turn: a sentence, a promise that settles,  *)
(* a media event, a timer, a barge-in.                                     *)
(***************************************************************************)
EXTENDS Naturals, Sequences, FiniteSets, SequencesExt

CONSTANTS
    MaxReq,     \* sentences sent in a behaviour
    MaxGen,     \* barge-ins and new turns in a behaviour
    Providers,  \* providers the configuration may name
    Activities  \* whether proactive speech (Radio DJ) occurs

ASSUME VoiceAssumption ==
    /\ MaxReq \in Nat /\ MaxGen \in Nat /\ Activities \in BOOLEAN
    /\ Providers \subseteq {"local", "cloud", "browser"}

VARIABLES
    q,        \* the AudioQueue, the microphone its callbacks pause and resume
    sched,    \* state of the LocalVoiceScheduler
    tail,     \* its chain of local jobs: the head runs, the others wait
    status,   \* the promise of each request
    active,   \* activeRequests
    info,     \* what each request captured when it was sent
    src,      \* the audio of each request's slot: PcmStreamSource or whole
    nextReq,  \* generateRequestId
    epoch,    \* history: lives of the queue (AudioQueue.generation)
    session,  \* is a voice session up, pipelineVoiceConfigRef's provider
    loading   \* narrations (by their generation) waiting for loadConfigWithSecrets

vars == <<q, sched, tail, status, active, info, src, nextReq, epoch, session, loading>>

Req == 1..MaxReq
NoReq == 0          \* also a skipped slot: null in pendingOrdered

-----------------------------------------------------------------------------
(* The audio queue. *)

NewQueue ==
    [items |-> <<>>, current |-> NoReq, fresh |-> FALSE, started |-> FALSE,
     playing |-> FALSE, paused |-> FALSE, cursor |-> 0, next |-> 0, pend |-> {},
     over |-> {}, mic |-> "open", cooldown |-> FALSE, activity |-> FALSE]

\* onPlaybackEnd: the queue has run dry, the microphone returns after a while.
PlaybackEnd(a) == [a EXCEPT !.playing = FALSE, !.cooldown = TRUE]

\* The item's sound begins. Only the first of a run tells the microphone, which
\* stays open for a proactive activity.
ItemStarts(a) ==
    [a EXCEPT !.started = TRUE,
              !.mic = IF a.fresh /\ ~a.activity THEN "paused" ELSE @,
              !.cooldown = IF a.fresh THEN FALSE ELSE @]

\* playNext: streams that ended with nothing are passed over one after the
\* other, each with `playing` already set.
PlayNext(a, s) ==
    LET sound == {k \in DOMAIN a.items : s[a.items[k]] # "empty"}
        k == CHOOSE i \in sound : \A j \in sound : i <= j
        r == a.items[k]
        p == [a EXCEPT !.items = SubSeq(@, k + 1, Len(@)),
                       !.over = @ \cup {a.items[j] : j \in 1..(k - 1)},
                       !.current = r, !.started = FALSE, !.playing = TRUE,
                       !.fresh = ~a.playing /\ k = 1]
    IN  IF sound = {}
        THEN PlaybackEnd([a EXCEPT !.items = <<>>, !.over = @ \cup ToSet(a.items)])
        ELSE IF s[r] \in {"sounding", "complete"} THEN ItemStarts(p) ELSE p

\* advance: the current item is over.
Advance(a, s) ==
    PlayNext([a EXCEPT !.over = @ \cup {a.current}, !.current = NoReq], s)

\* The j-th smallest of a set of numbers.
Nth(K, j) == CHOOSE i \in K : Cardinality({h \in K : h <= i}) = j

\* flushOrdered: move the contiguous run at the cursor into the queue.
FlushOrdered(a, s) ==
    LET seqs == {e[1] : e \in a.pend}
        stop == CHOOSE m \in a.cursor..(a.cursor + Cardinality(a.pend)) :
                    m \notin seqs /\ a.cursor..(m - 1) \subseteq seqs
        at(i) == (CHOOSE e \in a.pend : e[1] = i)[2]
        filled == {i \in a.cursor..(stop - 1) : at(i) # NoReq}
        run == [j \in 1..Cardinality(filled) |-> at(Nth(filled, j))]
        p == [a EXCEPT !.items = @ \o run, !.cursor = stop,
                       !.pend = {e \in @ : e[1] >= stop}]
    IN  IF filled = {} \/ p.playing \/ p.paused THEN p ELSE PlayNext(p, s)

\* enqueueOrdered, enqueueOrderedStream and, with NoReq, skipOrdered.
EnqueueOrdered(a, s, seq, r) ==
    FlushOrdered([a EXCEPT !.pend = {e \in @ : e[1] # seq} \cup {<<seq, r>>}], s)

ResumePlayback(a, s) ==
    IF a.playing \/ a.items = <<>>
    THEN [a EXCEPT !.paused = FALSE] ELSE PlayNext([a EXCEPT !.paused = FALSE], s)

\* Mutants of ClearQueue: the cursor, or the end of playback, is forgotten.
ClearKeepsCursor(a) ==
    LET p == [a EXCEPT !.items = <<>>, !.current = NoReq, !.started = FALSE,
                       !.paused = FALSE, !.pend = {}, !.next = 0, !.over = {}]
    IN  IF a.playing THEN PlaybackEnd(p) ELSE p

ClearEndsSilently(a) ==
    [a EXCEPT !.items = <<>>, !.current = NoReq, !.started = FALSE, !.paused = FALSE,
              !.pend = {}, !.cursor = 0, !.next = 0, !.over = {}, !.playing = FALSE]

\* clear: events of the element it stops may still come.
ClearQueue(a) ==
    LET p == [a EXCEPT !.items = <<>>, !.current = NoReq, !.started = FALSE,
                       !.paused = FALSE, !.pend = {}, !.cursor = 0, !.next = 0, !.over = {}]
    IN  IF a.playing THEN PlaybackEnd(p) ELSE p

-----------------------------------------------------------------------------
(* The scheduler of local synthesis. *)

NewTurn(gen) == [gen |-> gen, count |-> 0, released |-> FALSE, timer |-> FALSE]

\* noteSentence: the first sentence of a queue holds playback.
NoteSentence(seq) ==
    IF seq = 0 THEN [NewTurn(sched.gen) EXCEPT !.count = 1]
    ELSE [sched EXCEPT !.count = @ + 1]

\* The window is closed at once, or after the grace when the engine is slower
\* than speech (onFirstChunk, onEnqueued; release, armGrace).
OpenWindow(gen, slow, a, s) ==
    LET held == gen = sched.gen /\ ~sched.released /\ ~sched.timer
    IN  /\ sched' = [sched EXCEPT !.timer = @ \/ (held /\ slow),
                                  !.released = @ \/ (held /\ ~slow)]
        /\ q' = IF held /\ ~slow THEN ResumePlayback(a, s) ELSE a

\* release, which releaseOnFailure calls.
Release(gen, a, s) ==
    IF gen = sched.gen /\ ~sched.released
    THEN /\ sched' = [sched EXCEPT !.timer = FALSE, !.released = TRUE]
         /\ q' = ResumePlayback(a, s)
    ELSE sched' = sched /\ q' = a

-----------------------------------------------------------------------------
Init ==
    /\ q = NewQueue
    /\ sched = NewTurn(0)
    /\ tail = <<>>
    /\ status = [r \in Req |-> "idle"]
    /\ active = {}
    /\ info = [r \in Req |-> [epoch |-> 0, gen |-> 0, seq |-> 0, local |-> FALSE]]
    /\ src = [r \in Req |-> "silent"]
    /\ nextReq = 1
    /\ epoch = 0
    /\ \E p \in Providers : session = [up |-> TRUE, provider |-> p]
    /\ loading = {}

\* sendSentence: reserve the place in the order first. A local request also
\* fills it, with a stream, before its job is scheduled. The browser speaks at
\* once and leaves its place as it is.
SendSentence(provider, activity) ==
    LET r == nextReq
        seq == q.next
        local == provider = "local"
        reserved == [q EXCEPT !.next = @ + 1, !.activity = @ \/ activity]
    IN  /\ session.up /\ nextReq <= MaxReq
        /\ session' = [session EXCEPT !.provider = provider]
        /\ nextReq' = nextReq + 1
        /\ active' = active \cup {r}
        /\ info' = [info EXCEPT ![r] = [epoch |-> epoch, gen |-> sched.gen, seq |-> seq,
                                        local |-> local]]
        /\ IF local
           THEN /\ sched' = NoteSentence(seq)
                /\ q' = EnqueueOrdered([reserved EXCEPT !.paused = @ \/ seq = 0], src, seq, r)
                /\ tail' = Append(tail, r)
                /\ status' = [status EXCEPT ![r] = "waiting"]
           ELSE /\ q' = IF provider = "cloud" THEN reserved
                        ELSE [reserved EXCEPT !.over = @ \cup {r}]
                /\ status' = [status EXCEPT ![r] = IF provider = "cloud" THEN "synth" ELSE "utter"]
                /\ UNCHANGED <<sched, tail>>
        /\ UNCHANGED <<src, epoch>>

\* A sentence of a reply.
Sentence == SendSentence(session.provider, FALSE) /\ UNCHANGED loading

\* A chunk of a proactive activity. It reads the configuration anew, and is
\* dropped if speech was interrupted meanwhile.
ProactiveSends ==
    /\ Activities
    /\ \E p \in Providers : SendSentence(p, TRUE)
    /\ UNCHANGED loading

\* The job's turn has come: the previous one has settled. A superseded one
\* rejects instead of starting.
JobStarts ==
    /\ tail # <<>> /\ status[Head(tail)] = "waiting"
    /\ IF Head(tail) \in active
       THEN /\ status' = [status EXCEPT ![Head(tail)] = "synth"]
            /\ UNCHANGED tail
       ELSE /\ status' = [status EXCEPT ![Head(tail)] = "done"]
            /\ tail' = Tail(tail)
    /\ UNCHANGED <<q, sched, active, info, src, nextReq, epoch, session, loading>>

\* The first chunk of a local stream (later ones change nothing here).
FirstChunk(r) ==
    /\ status[r] = "synth" /\ info[r].local /\ r \in active /\ src[r] = "silent"
    /\ src' = [src EXCEPT ![r] = "sounding"]
    /\ \E slow \in BOOLEAN :
          OpenWindow(info[r].gen, slow, IF q.current = r THEN ItemStarts(q) ELSE q, src')
    /\ UNCHANGED <<tail, status, active, info, nextReq, epoch, session, loading>>

\* Mutant of StreamEnds: a stream that brought nothing keeps its place.
EmptyStreamStays(r, s, drained) ==
    IF q.current = r /\ s[r] = "complete" /\ drained THEN Advance(q, s) ELSE q

\* The queue after the stream of r has ended as s says. `drained`: every chunk
\* that was scheduled has been heard.
StreamEnds(r, s, drained) ==
    IF q.current = r /\ (s[r] = "empty" \/ (s[r] = "complete" /\ drained))
    THEN Advance(q, s) ELSE q

Settle(r) == /\ status' = [status EXCEPT ![r] = "done"]
             /\ tail' = IF tail # <<>> /\ Head(tail) = r THEN Tail(tail) ELSE tail

\* Mutant of SynthesisDone: late answers are not dropped.
LateAnswerCounts(r) ==
    /\ status[r] = "synth"
    /\ Settle(r)
    /\ active' = active \ {r}
    /\ src' = [src EXCEPT ![r] = IF @ = "silent" THEN "whole" ELSE "complete"]
    /\ IF ~info[r].local
       THEN q' = EnqueueOrdered(q, src', info[r].seq, r) /\ UNCHANGED sched
       ELSE \E slow, drained \in BOOLEAN :
                OpenWindow(info[r].gen, slow, StreamEnds(r, src', drained), src')
    /\ UNCHANGED <<info, nextReq, epoch, session, loading>>

\* The promise of a request fulfils. A superseded one is dropped.
SynthesisDone(r) ==
    /\ status[r] = "synth"
    /\ Settle(r)
    /\ active' = active \ {r}
    /\ src' = [src EXCEPT ![r] = IF r \notin active THEN @
                                 ELSE IF @ = "silent" THEN "whole" ELSE "complete"]
    /\ IF r \notin active THEN UNCHANGED <<q, sched>>
       ELSE IF ~info[r].local
       THEN q' = EnqueueOrdered(q, src', info[r].seq, r) /\ UNCHANGED sched
       ELSE \E slow, drained \in BOOLEAN :
                OpenWindow(info[r].gen, slow, StreamEnds(r, src', drained), src')
    /\ UNCHANGED <<info, nextReq, epoch, session, loading>>

\* It rejects. The slot is released; a cloud sentence is spoken by the browser
\* instead, and stays active until that ends.
SynthesisFails(r) ==
    /\ status[r] = "synth"
    /\ src' = [src EXCEPT ![r] = IF r \notin active \/ ~info[r].local THEN @
                                 ELSE IF @ = "silent" THEN "empty" ELSE "complete"]
    /\ IF r \in active /\ ~info[r].local
       THEN /\ status' = [status EXCEPT ![r] = "utter"]
            /\ UNCHANGED <<active, tail, sched>>
            /\ q' = EnqueueOrdered([q EXCEPT !.over = @ \cup {r}], src', info[r].seq, NoReq)
       ELSE /\ Settle(r)
            /\ active' = active \ {r}
            /\ IF r \in active
               THEN \E drained \in BOOLEAN :
                        Release(info[r].gen, StreamEnds(r, src', drained), src')
               ELSE UNCHANGED <<q, sched>>
    /\ UNCHANGED <<info, nextReq, epoch, session, loading>>

\* The browser's utterance ends or errs.
UtteranceEnds(r) ==
    /\ status[r] = "utter"
    /\ status' = [status EXCEPT ![r] = "done"]
    /\ active' = active \ {r}
    /\ UNCHANGED <<q, sched, tail, info, src, nextReq, epoch, session, loading>>

Plays(kinds) == q.current # NoReq /\ src[q.current] \in kinds

QueueOnly == UNCHANGED <<sched, tail, status, active, info, src, nextReq, epoch, session, loading>>

\* onplay, and onended, of the current audio element.
ElementPlays == Plays({"whole"}) /\ ~q.started /\ q' = ItemStarts(q) /\ QueueOnly

ElementEnds ==
    /\ Plays({"whole"}) /\ q.started
    /\ q' = Advance(q, src)
    /\ QueueOnly

\* onerror, or the rejection of play(), of an element: often both, and the
\* second when another item plays or the queue was cleared.
ElementFails(r) ==
    /\ src[r] = "whole" /\ (r = q.current \/ r \in q.over \/ info[r].epoch # epoch)
    /\ q' = IF r = q.current THEN Advance(q, src) ELSE q
    /\ QueueOnly

\* The last scheduled chunk of an ended stream has been heard.
StreamDrains == Plays({"complete"}) /\ q' = Advance(q, src) /\ QueueOnly

GraceFires ==
    /\ sched.timer
    /\ Release(sched.gen, q, src)
    /\ UNCHANGED <<tail, status, active, info, src, nextReq, epoch, session, loading>>

\* finishStream: the reply has ended without a local sentence.
FinishStream ==
    /\ session.up /\ sched.count = 0 /\ ~sched.released
    /\ Release(sched.gen, q, src)
    /\ UNCHANGED <<tail, status, active, info, src, nextReq, epoch, session, loading>>

\* The end of the cooldown gives the microphone back.
MicReopens ==
    /\ q.cooldown
    /\ q' = [q EXCEPT !.cooldown = FALSE, !.mic = "open"]
    /\ QueueOnly

\* Mutant of Interrupt: the chain of local jobs starts afresh.
InterruptResetsTail ==
    /\ epoch < MaxGen
    /\ \E keep \in BOOLEAN : q' = [ClearQueue(q) EXCEPT !.activity = @ /\ keep]
    /\ epoch' = epoch + 1
    /\ sched' = NewTurn(sched.gen + 1)
    /\ active' = {} /\ tail' = <<>>
    /\ status' = [r \in Req |-> IF status[r] = "utter" THEN "done" ELSE status[r]]
    /\ UNCHANGED <<info, src, nextReq, session>>

\* interruptTts: barge-in, new turn, or the end of a proactive activity.
\* Utterances are cancelled, the chain of local jobs is kept.
Interrupt ==
    /\ epoch < MaxGen
    /\ \E keep \in BOOLEAN : q' = [ClearQueue(q) EXCEPT !.activity = @ /\ keep]
    /\ epoch' = epoch + 1
    /\ sched' = NewTurn(sched.gen + 1)
    /\ active' = {}
    /\ status' = [r \in Req |-> IF status[r] = "utter" THEN "done" ELSE status[r]]
    /\ UNCHANGED <<tail, info, src, nextReq, session>>

BargeIn == Interrupt /\ UNCHANGED loading

\* handleVoiceToggle while speech is heard and nothing more is on its way: only
\* the queue is told (handleCancelStreaming returns early).
QuietByButton ==
    /\ session.up /\ q.playing /\ q.mic = "paused" /\ active = {} /\ epoch < MaxGen
    /\ q' = ClearQueue(q)
    /\ epoch' = epoch + 1
    /\ UNCHANGED <<sched, tail, status, active, info, src, nextReq, session, loading>>

\* cleanupPipeline: the session ends. The scheduler is not told.
EndSession ==
    /\ session.up /\ epoch < MaxGen
    /\ session' = [session EXCEPT !.up = FALSE]
    /\ q' = [ClearQueue(q) EXCEPT !.mic = "off", !.cooldown = FALSE]
    /\ epoch' = epoch + 1
    /\ active' = {}
    /\ UNCHANGED <<sched, tail, status, info, src, nextReq, loading>>

\* handleVoiceToggle: a new session with a queue of its own.
StartSession ==
    /\ ~session.up
    /\ \E p \in Providers : session' = [up |-> TRUE, provider |-> p]
    /\ q' = [q EXCEPT !.mic = "open"]
    /\ UNCHANGED <<sched, tail, status, active, info, src, nextReq, epoch, loading>>

\* The slides ask for a narration: everything else is cut off, then the
\* configuration is awaited.
SlideSpeak ==
    /\ Interrupt
    /\ loading' = loading \cup {sched.gen + 1}

\* It has arrived, and the provider with it: the narration (one piece) is sent.
SlideSends(n) ==
    /\ n \in loading
    /\ loading' = loading \ {n}
    /\ \E p \in Providers : SendSentence(p, FALSE)

-----------------------------------------------------------------------------
Next ==
    \/ Sentence \/ ProactiveSends \/ JobStarts
    \/ \E r \in Req : FirstChunk(r) \/ SynthesisDone(r) \/ SynthesisFails(r)
                   \/ UtteranceEnds(r) \/ ElementFails(r)
    \/ ElementPlays \/ ElementEnds \/ StreamDrains
    \/ GraceFires \/ FinishStream \/ MicReopens
    \/ BargeIn \/ QuietByButton \/ EndSession \/ StartSession
    \/ SlideSpeak \/ \E n \in loading : SlideSends(n)

Spec == Init /\ [][Next]_vars

\* Requests time out, media elements play or fail, scheduled sound ends, timers
\* fire. Nobody need speak, interrupt or end a session.
Fairness ==
    /\ WF_vars(JobStarts)
    /\ \A r \in Req : WF_vars(SynthesisDone(r) \/ SynthesisFails(r))
    /\ WF_vars(ElementPlays \/ ElementEnds)
    /\ WF_vars(StreamDrains)
    /\ WF_vars(GraceFires)

FairSpec == Spec /\ Fairness

-----------------------------------------------------------------------------
TypeOK ==
    /\ q.current \in Req \cup {NoReq} /\ q.items \in Seq(Req)
    /\ q.cursor \in Nat /\ q.next \in Nat /\ q.cursor <= q.next
    /\ q.pend \subseteq Nat \X (Req \cup {NoReq})
    /\ q.over \subseteq Req
    /\ q.mic \in {"open", "paused", "off"}
    /\ {q.fresh, q.started, q.playing, q.paused, q.cooldown, q.activity} \subseteq BOOLEAN
    /\ sched \in [gen : 0..MaxGen, count : Nat, released : BOOLEAN, timer : BOOLEAN]
    /\ tail \in Seq(Req)
    /\ status \in [Req -> {"idle", "waiting", "synth", "utter", "done"}]
    /\ src \in [Req -> {"silent", "sounding", "complete", "whole", "empty"}]
    /\ active \subseteq Req /\ nextReq \in 1..(MaxReq + 1)

\* What plays is of this turn, and every earlier sentence of the turn is over:
\* heard, failed or spoken by the browser. Answers come in any order, late
\* ones of an old turn too, and slots are released by failures.
SpeaksInOrder ==
    q.current # NoReq =>
        /\ info[q.current].epoch = epoch
        /\ \A r \in 1..(nextReq - 1) :
               info[r].epoch = epoch /\ info[r].seq < info[q.current].seq => r \in q.over

\* The engine has one execution context: no local request is sent before the
\* answer, or the abort, of the one before, across barge-ins and sessions too
\* (local-voice-scheduler.ts:6).
SingleFlight ==
    \A r, p \in Req : /\ status[r] = "synth" /\ info[r].local
                      /\ status[p] = "synth" /\ info[p].local
                      => r = p

\* Who waits has somebody to wait for. Playback is held only while the grace
\* timer runs, or a sentence of this turn is on its way to the engine or in it;
\* the microphone is paused only while something plays, whose end arms the
\* cooldown, or while the cooldown runs.
EveryWaitHasAnEnd ==
    /\ q.paused =>
        /\ ~sched.released
        /\ \/ sched.timer
           \/ \E r \in active : /\ info[r].local /\ info[r].gen = sched.gen
                                /\ status[r] \in {"waiting", "synth"}
    /\ q.mic = "paused" => q.playing \/ q.cooldown

\* Every sentence is heard, fails, or is cut off by a barge-in: no slot stalls
\* the ones behind it and no hold lasts.
SentencesSettle ==
    \A r \in Req : (status[r] # "idle" /\ info[r].epoch = epoch)
                       ~> (r \in q.over \/ info[r].epoch # epoch)
==============================================================================
