-------------------------- MODULE AgentLifecycleProofs --------------------------
(***************************************************************************)
(* Proofs about AgentLifecycle, for any number of shells, commands, agents *)
(* and workspaces: types, one living agent that the lease names, a quiet   *)
(* relaunch, locks asked for in one order; where every killed process      *)
(* ends, that no agent is lost; and, of one shell, that startup messages   *)
(* stay in their workspace.                                                *)
(***************************************************************************)
EXTENDS AgentLifecycle, TLAPS

\* Where a thread acts under the lifecycle lock.
Acting == {"check", "take", "drain", "spawn", "judge", "launch", "record", "handshake",
           "abort", "publish", "replay", "deliver", "mark", "back", "fail"}
Inside(t) == \/ call[t].pc \in Acting
             \/ call[t].pc = "drop" /\ call[t].job = "startup"

\* From the new lease until the new process is in the slot or given up.
Birth == {"launch", "record", "handshake", "abort", "publish"}

LocksAreHeld == \A t \in Thread :
    /\ Inside(t) => lifecycle[Home(t)] = t
    /\ call[t].pc \in {"judge", "launch", "record"} => leaseLock = t
    /\ call[t].pc # "idle" => up[Home(t)]
    /\ call[t].pc \in {"send", "seize"} => call[t].job # "startup"

\* Every living agent has the lease, so there is one at most.
Leased == \A a \in Agent : Alive(a) => lease.of = a
ParentsAreUp == \A a \in Agent :
    Alive(a) /\ agent[a].parent # NoShell => up[agent[a].parent]

\* What a thread has in hand, by where it stands.
Fit(t) ==
    LET c == call[t] IN
    /\ c.hand # NoAgent => c.pc \in Birth \cup {"drop", "drain", "back", "spawn", "judge"}
    /\ c.pc \in Birth \cup {"drop", "drain", "back"} => c.hand \in Agent
    /\ c.pc = "launch" => lease.of = c.hand /\ agent[c.hand].life = "unborn"
    /\ c.pc # "launch" /\ c.hand # NoAgent => agent[c.hand].life # "unborn"
    /\ c.pc \in {"spawn", "judge"} /\ c.hand # NoAgent
         => c.job = "prepare" /\ agent[c.hand].life = "dead"
    /\ c.pc \in {"check", "deliver"} => c.job = "startup"
    /\ c.job = "startup" => c.arg \in Adk
HandsFit == \A t \in Thread : Fit(t)

\* Nobody fills the slot behind the back of him who emptied it, and nobody else
\* of a shell starts an agent during a start.
SlotsWait ==
    /\ \A s \in Shell : slot[s] # NoAgent => agent[slot[s]].life # "unborn"
    /\ \A t \in Thread :
         /\ call[t].pc \in {"drain", "back"} => slot[Home(t)] = NoAgent
         /\ call[t].pc \in {"spawn", "judge"} /\ call[t].job = "prepare"
              => slot[Home(t)] = NoAgent
         /\ call[t].pc \in Birth => \A a \in Agent :
              Alive(a) /\ agent[a].parent = Home(t) => a = call[t].hand

\* One relaunch at a time is prepared; afterwards only a quarantine still acts.
Relaunches ==
    /\ \A s \in Shell : prepared[s] => pending[s]
    /\ \A t \in Thread :
         /\ call[t].job = "prepare" => pending[Home(t)] /\ ~prepared[Home(t)]
         /\ \A u \in Thread : call[t].job = "prepare" /\ call[u].job = "prepare"
              /\ Home(t) = Home(u) => t = u
         /\ prepared[Home(t)] /\ Inside(t)
              => call[t].job = "withdraw" /\ call[t].pc \in {"take", "drain", "back", "fail"}

Inv == /\ TypeOK /\ LocksAreHeld /\ Leased /\ ParentsAreUp /\ HandsFit /\ SlotsWait
       /\ Relaunches /\ RelaunchIsQuiet

\* A living agent of a running shell is not lost.
NoneIsLost == \A a \in Agent :
    Alive(a) /\ agent[a].parent # NoShell => Held(a, agent[a].parent)

-----------------------------------------------------------------------------
\* What is used of threads.
LEMMA Threads ==
    /\ \A t \in Thread : Home(t) \in Shell
    /\ \A s \in Shell, c \in Caller : <<s, c>> \in Thread /\ Home(<<s, c>>) = s
BY DEF Thread, Home

\* The fields of a command, of a process and of a page.
LEMMA Fields ==
    ASSUME TypeOK
    PROVE  /\ \A t \in Thread :
                /\ call[t].pc \in Pc /\ call[t].job \in Job
                /\ call[t].arg \in Adk \cup {NoAdk} /\ call[t].path \in Adk \cup {NoAdk}
                /\ call[t].hand \in Agent \cup {NoAgent} /\ call[t].startup \in Startup
           /\ \A a \in Agent :
                /\ agent[a].life \in {"unborn", "alive", "dead"}
                /\ agent[a].parent \in Shell \cup {NoShell}
                /\ agent[a].adk \in Adk \cup {NoAdk}
           /\ \A s \in Shell :
                /\ web[s].local \in Adk \cup {NoAdk} /\ web[s].seen \subseteq Adk
                /\ web[s].bound \in BOOLEAN
                /\ slot[s] \in Agent \cup {NoAgent} /\ startup[s] \in Startup
                /\ startup[s].cache \subseteq Adk
           /\ path \in Adk \cup {NoAdk} /\ lease.of \in Agent \cup {NoAgent}
BY DEF TypeOK, Calls, Processes, Pages, Startup

\* A lease that is cleaned up after names whoever lives.
LEMMA CleanedNamesTheLiving ==
    ASSUME TypeOK, Leased, NEW a \in Agent
    PROVE  /\ Cleaned(a) \in [of : Agent \cup {NoAgent}, pid : BOOLEAN]
           /\ \A b \in Agent : Alive(b) => Cleaned(a).of = b
BY AgentAssumption, Fields DEF TypeOK, Leased, Cleaned, Superseded, Alive

\* Commands keep their type when they go on, end or take something in hand.
LEMMA DoneTypes ==
    ASSUME TypeOK, NEW t \in Thread, Done(t) PROVE call' \in [Thread -> Calls]
<1>1. NoCall \in Calls
  BY AgentAssumption DEF Calls, NoCall, Unbound, Startup, Pc, Job
<1> QED BY <1>1 DEF TypeOK, Done

LEMMA FreshTypes ==
    ASSUME NEW p \in Pc, NEW j \in Job, NEW x \in Adk \cup {NoAdk}
    PROVE  /\ [NoCall EXCEPT !.pc = p, !.job = j] \in Calls
           /\ [NoCall EXCEPT !.pc = p, !.job = j, !.arg = x] \in Calls
<1>1. NoCall \in Calls
  BY AgentAssumption DEF Calls, NoCall, Unbound, Startup, Pc, Job
<1>2. [NoCall EXCEPT !.pc = p, !.job = j] \in Calls BY <1>1 DEF Calls
<1>3. [NoCall EXCEPT !.pc = p, !.job = j, !.arg = x] \in Calls BY <1>1 DEF Calls
<1> QED BY <1>2, <1>3

LEMMA DownTypes ==
    ASSUME TypeOK, NEW s \in Shell, Down(s) PROVE call' \in [Thread -> Calls]
<1>1. NoCall \in Calls
  BY AgentAssumption DEF Calls, NoCall, Unbound, Startup, Pc, Job
<1> QED BY <1>1 DEF TypeOK, Down

LEMMA SentTypes ==
    ASSUME TypeOK, NEW a \in Agent \cup {NoAgent}, NEW X \in SUBSET Adk, Sent(a, X)
    PROVE  foreign' \subseteq Agent \X Adk
BY DEF TypeOK, Sent

LEMMA GoTypes ==
    ASSUME TypeOK, NEW t \in Thread, NEW p \in Pc, Go(t, p)
    PROVE  call' \in [Thread -> Calls]
<1>1. [call[t] EXCEPT !.pc = p] \in Calls
  BY call[t] \in Calls DEF TypeOK, Calls
<1> QED BY <1>1 DEF TypeOK, Go

LEMMA HoldTypes ==
    ASSUME TypeOK, NEW t \in Thread, NEW p \in Pc, NEW a \in Agent \cup {NoAgent}, Hold(t, p, a)
    PROVE  call' \in [Thread -> Calls]
<1>1. [call[t] EXCEPT !.pc = p, !.hand = a] \in Calls
  BY call[t] \in Calls DEF TypeOK, Calls
<1> QED BY <1>1 DEF TypeOK, Hold

LEMMA TurnTypes ==
    ASSUME TypeOK, NEW t \in Thread, NEW p \in Pc, NEW j \in Job, Turn(t, p, j)
    PROVE  call' \in [Thread -> Calls]
<1>1. [call[t] EXCEPT !.pc = p, !.job = j] \in Calls
  BY call[t] \in Calls DEF TypeOK, Calls
<1> QED BY <1>1 DEF TypeOK, Turn

LEMMA RememberTypes ==
    ASSUME TypeOK, NEW t \in Thread, NEW p \in Pc, Remember(t, p)
    PROVE  call' \in [Thread -> Calls]
<1>1. startup[Home(t)] \in Startup /\ path \in Adk \cup {NoAdk}
  BY Threads DEF TypeOK
<1>2. [call[t] EXCEPT !.pc = p, !.path = path, !.startup = startup[Home(t)]] \in Calls
  BY <1>1, call[t] \in Calls DEF TypeOK, Calls
<1> QED BY <1>2 DEF TypeOK, Remember

LEMMA CleanedTypes ==
    ASSUME TypeOK, NEW a \in Agent \cup {NoAgent}
    PROVE  Cleaned(a) \in [of : Agent \cup {NoAgent}, pid : BOOLEAN]
BY DEF TypeOK, Cleaned

LEMMA EndTypes ==
    ASSUME TypeOK, NEW a \in Agent
    PROVE  [agent EXCEPT ![a].life = "dead"] \in [Agent -> Processes]
BY DEF TypeOK, Processes

\* None but agents live.
LEMMA LivingAreAgents ==
    ASSUME NEW a \in Agent \cup {NoAgent}, Alive(a) PROVE a \in Agent
BY DEF Alive

\* What going on, taking in hand, turning to another job and ending do.
LEMMA Moves ==
    ASSUME TypeOK, NEW t \in Thread
    PROVE  /\ \A p : Go(t, p) =>
                /\ \A u \in Thread : u # t => call'[u] = call[u]
                /\ call'[t].pc = p /\ call'[t].job = call[t].job
                /\ call'[t].hand = call[t].hand /\ call'[t].arg = call[t].arg
           /\ \A p, a : Hold(t, p, a) =>
                /\ \A u \in Thread : u # t => call'[u] = call[u]
                /\ call'[t].pc = p /\ call'[t].job = call[t].job
                /\ call'[t].hand = a /\ call'[t].arg = call[t].arg
           /\ \A p, j : Turn(t, p, j) =>
                /\ \A u \in Thread : u # t => call'[u] = call[u]
                /\ call'[t].pc = p /\ call'[t].job = j
                /\ call'[t].hand = call[t].hand /\ call'[t].arg = call[t].arg
           /\ \A p : Remember(t, p) =>
                /\ \A u \in Thread : u # t => call'[u] = call[u]
                /\ call'[t].pc = p /\ call'[t].job = call[t].job
                /\ call'[t].hand = call[t].hand /\ call'[t].arg = call[t].arg
           /\ Done(t) =>
                /\ \A u \in Thread : u # t => call'[u] = call[u]
                /\ call'[t].pc = "idle" /\ call'[t].job = "none"
                /\ call'[t].hand = NoAgent /\ call'[t].arg = NoAdk
<1>1. \A p : Go(t, p) =>
        /\ \A u \in Thread : u # t => call'[u] = call[u]
        /\ call'[t].pc = p /\ call'[t].job = call[t].job
        /\ call'[t].hand = call[t].hand /\ call'[t].arg = call[t].arg
  BY DEF TypeOK, Calls, Go
<1>2. \A p, a : Hold(t, p, a) =>
        /\ \A u \in Thread : u # t => call'[u] = call[u]
        /\ call'[t].pc = p /\ call'[t].job = call[t].job
        /\ call'[t].hand = a /\ call'[t].arg = call[t].arg
  BY DEF TypeOK, Calls, Hold
<1>3. \A p, j : Turn(t, p, j) =>
        /\ \A u \in Thread : u # t => call'[u] = call[u]
        /\ call'[t].pc = p /\ call'[t].job = j
        /\ call'[t].hand = call[t].hand /\ call'[t].arg = call[t].arg
  BY DEF TypeOK, Calls, Turn
<1>4. \A p : Remember(t, p) =>
        /\ \A u \in Thread : u # t => call'[u] = call[u]
        /\ call'[t].pc = p /\ call'[t].job = call[t].job
        /\ call'[t].hand = call[t].hand /\ call'[t].arg = call[t].arg
  BY DEF TypeOK, Calls, Remember
<1>5. Done(t) =>
        /\ \A u \in Thread : u # t => call'[u] = call[u]
        /\ call'[t].pc = "idle" /\ call'[t].job = "none"
        /\ call'[t].hand = NoAgent /\ call'[t].arg = NoAdk
  BY DEF TypeOK, Calls, Done, NoCall
<1> QED BY <1>1, <1>2, <1>3, <1>4, <1>5

LEMMA InitInv == Init => Inv /\ NoneIsLost
BY AgentAssumption, Threads DEF Init, Inv, TypeOK, Pc, Job, Startup, Unbound, NoCall, Calls, Processes, Pages, Alive,
   LocksAreHeld, Leased, ParentsAreUp, HandsFit, Fit, SlotsWait, Relaunches, RelaunchIsQuiet,
   Inside, Acting, Birth, NoneIsLost, Held

\* No step leaves the types.
LEMMA NextTypes == TypeOK /\ HandsFit /\ [Next]_vars => TypeOK'
<1> SUFFICES ASSUME TypeOK, HandsFit, [Next]_vars PROVE TypeOK' OBVIOUS
<1> USE AgentAssumption, Threads DEF At, Alive
<1>1. CASE UNCHANGED vars
  BY <1>1 DEF vars, disk, locks, flags, TypeOK
<1>2. ASSUME NEW t \in Thread, Tell(t) PROVE TypeOK'
  <2>1. UNCHANGED <<disk, agent, foreign, up, locks, flags, startup, reaping, calls>>
    BY <1>2 DEF Tell, Done
  <2>2. web' \in [Shell -> Pages]
    BY <1>2, Fields DEF Tell, TypeOK, Pages
  <2>3. call' \in [Thread -> Calls]
    BY <1>2, Fields, DoneTypes, GoTypes, HoldTypes, TurnTypes DEF Tell, Pc
  <2> QED BY <2>1, <2>2, <2>3 DEF TypeOK, disk, locks, flags
<1>3. ASSUME NEW t \in Thread, SendStops(t) PROVE TypeOK'
  <2>1. UNCHANGED <<disk, agent, foreign, up, locks, flags, startup, reaping, web, calls>>
    BY <1>3 DEF SendStops, Done
  <2>2. call' \in [Thread -> Calls]
    BY <1>3, Fields, DoneTypes, GoTypes, HoldTypes, TurnTypes DEF SendStops, Pc
  <2> QED BY <2>1, <2>2 DEF TypeOK, disk, locks, flags
<1>4. ASSUME NEW t \in Thread, SendFindsNone(t) PROVE TypeOK'
  <2>1. UNCHANGED <<disk, agent, foreign, up, locks, flags, startup, reaping, web, calls>>
    BY <1>4 DEF SendFindsNone, Go
  <2>2. call' \in [Thread -> Calls]
    BY <1>4, Fields, DoneTypes, GoTypes, HoldTypes, TurnTypes DEF SendFindsNone, Pc
  <2> QED BY <2>1, <2>2 DEF TypeOK, disk, locks, flags
<1>5. ASSUME NEW t \in Thread, SendFindsLost(t) PROVE TypeOK'
  <2>1. UNCHANGED <<disk, agent, foreign, up, lifecycle, flags, startup, reaping, web, calls>>
    BY <1>5 DEF SendFindsLost, Seizes, Hold
  <2>2. slot' \in [Shell -> Agent \cup {NoAgent}]
    BY <1>5, Fields DEF SendFindsLost, Seizes, Hold, TypeOK
  <2>3. slotLock' \in [Shell -> Thread \cup {NoThread}]
    BY <1>5, Fields DEF SendFindsLost, Seizes, Hold, TypeOK
  <2>4. call' \in [Thread -> Calls]
    BY <1>5, Fields, DoneTypes, GoTypes, HoldTypes, TurnTypes DEF SendFindsLost, Seizes, Pc
  <2> QED BY <2>1, <2>2, <2>3, <2>4 DEF TypeOK, disk, flags
<1>6. ASSUME NEW t \in Thread, SeizeForGood(t) PROVE TypeOK'
  <2>1. UNCHANGED <<disk, agent, foreign, up, lifecycle, flags, startup, reaping, web, calls>>
    BY <1>6 DEF SeizeForGood, Seizes, Hold
  <2>2. slot' \in [Shell -> Agent \cup {NoAgent}]
    BY <1>6, Fields DEF SeizeForGood, Seizes, Hold, TypeOK
  <2>3. slotLock' \in [Shell -> Thread \cup {NoThread}]
    BY <1>6, Fields DEF SeizeForGood, Seizes, Hold, TypeOK
  <2>4. call' \in [Thread -> Calls]
    BY <1>6, Fields, DoneTypes, GoTypes, HoldTypes, TurnTypes DEF SeizeForGood, Seizes, Pc
  <2> QED BY <2>1, <2>2, <2>3, <2>4 DEF TypeOK, disk, flags
<1>7. ASSUME NEW t \in Thread, SeizeNothing(t) PROVE TypeOK'
  <2>1. UNCHANGED <<disk, agent, foreign, up, locks, flags, startup, reaping, web, calls>>
    BY <1>7 DEF SeizeNothing, Go, Done
  <2>2. call' \in [Thread -> Calls]
    BY <1>7, Fields, DoneTypes, GoTypes, HoldTypes, TurnTypes DEF SeizeNothing, Pc
  <2> QED BY <2>1, <2>2 DEF TypeOK, disk, locks, flags
<1>8. ASSUME NEW t \in Thread, DropEnds(t) PROVE TypeOK'
  <2>1. UNCHANGED <<path, leaseLock, agent, foreign, up, slot, pending, prepared, startup, reaping, web, calls>>
    BY <1>8 DEF DropEnds, AfterDrop, Hold, Done
  <2>2. lease' \in [of : Agent \cup {NoAgent}, pid : BOOLEAN]
    BY <1>8, Fields, CleanedTypes DEF DropEnds, AfterDrop, Hold, Done, TypeOK
  <2>3. slotLock' \in [Shell -> Thread \cup {NoThread}]
    BY <1>8, Fields DEF DropEnds, AfterDrop, Hold, Done, TypeOK
  <2>4. lifecycle' \in [Shell -> Thread \cup {NoThread}]
    BY <1>8, Fields DEF DropEnds, AfterDrop, Hold, Done, TypeOK
  <2>5. hot' \in [Shell -> BOOLEAN]
    BY <1>8, Fields DEF DropEnds, AfterDrop, Hold, Done, TypeOK
  <2>6. call' \in [Thread -> Calls]
    BY <1>8, Fields, DoneTypes, GoTypes, HoldTypes, TurnTypes DEF DropEnds, AfterDrop, Pc
  <2> QED BY <2>1, <2>2, <2>3, <2>4, <2>5, <2>6 DEF TypeOK
<1>9. ASSUME NEW t \in Thread, Exit(t) PROVE TypeOK'
  <2>1. UNCHANGED <<path, lease, foreign, web, calls>>
    BY <1>9 DEF Exit, Down
  <2>2. leaseLock' \in Thread \cup {NoThread}
    BY <1>9, Fields DEF Exit, Down, TypeOK
  <2>3. agent' \in [Agent -> Processes]
    BY <1>9, Fields DEF Exit, Down, TypeOK, Processes, Pages, Startup, Unbound
  <2>4. up' \in [Shell -> BOOLEAN]
    BY <1>9, Fields DEF Exit, Down, TypeOK
  <2>5. slot' \in [Shell -> Agent \cup {NoAgent}]
    BY <1>9, Fields DEF Exit, Down, TypeOK
  <2>6. slotLock' \in [Shell -> Thread \cup {NoThread}]
    BY <1>9, Fields DEF Exit, Down, TypeOK
  <2>7. lifecycle' \in [Shell -> Thread \cup {NoThread}]
    BY <1>9, Fields DEF Exit, Down, TypeOK
  <2>8. pending' \in [Shell -> BOOLEAN]
    BY <1>9, Fields DEF Exit, Down, TypeOK
  <2>9. prepared' \in [Shell -> BOOLEAN]
    BY <1>9, Fields DEF Exit, Down, TypeOK
  <2>10. hot' \in [Shell -> BOOLEAN]
    BY <1>9, Fields DEF Exit, Down, TypeOK
  <2>11. startup' \in [Shell -> Startup]
    BY <1>9, Fields DEF Exit, Down, TypeOK, Processes, Pages, Startup, Unbound
  <2>12. reaping' \in [Shell -> SUBSET Agent]
    BY <1>9, Fields DEF Exit, Down, TypeOK
  <2>13. call' \in [Thread -> Calls]
    BY <1>9, DownTypes DEF Exit
  <2> QED BY <2>1, <2>2, <2>3, <2>4, <2>5, <2>6, <2>7, <2>8, <2>9, <2>10, <2>11,
       <2>12, <2>13 DEF TypeOK
<1>10. ASSUME NEW t \in Thread, Reserve(t) PROVE TypeOK'
  <2>1. UNCHANGED <<disk, agent, foreign, up, locks, pending, prepared, startup, reaping, web, calls>>
    BY <1>10 DEF Reserve, Go, Done
  <2>2. hot' \in [Shell -> BOOLEAN]
    BY <1>10, Fields DEF Reserve, Go, Done, TypeOK
  <2>3. call' \in [Thread -> Calls]
    BY <1>10, Fields, DoneTypes, GoTypes, HoldTypes, TurnTypes DEF Reserve, Pc
  <2> QED BY <2>1, <2>2, <2>3 DEF TypeOK, disk, locks
<1>11. ASSUME NEW t \in Thread, TurnedAway(t) PROVE TypeOK'
  <2>1. UNCHANGED <<disk, agent, foreign, up, locks, flags, startup, reaping, web, calls>>
    BY <1>11 DEF TurnedAway, Done
  <2>2. call' \in [Thread -> Calls]
    BY <1>11, Fields, DoneTypes, GoTypes, HoldTypes, TurnTypes DEF TurnedAway, Pc
  <2> QED BY <2>1, <2>2 DEF TypeOK, disk, locks, flags
<1>12. ASSUME NEW t \in Thread, Enter(t) PROVE TypeOK'
  <2>1. UNCHANGED <<disk, agent, foreign, up, slot, slotLock, flags, startup, reaping, web, calls>>
    BY <1>12 DEF Enter, FirstInside, Go
  <2>2. lifecycle' \in [Shell -> Thread \cup {NoThread}]
    BY <1>12, Fields DEF Enter, FirstInside, Go, TypeOK
  <2>3. call' \in [Thread -> Calls]
    BY <1>12, Fields, DoneTypes, GoTypes, HoldTypes, TurnTypes DEF Enter, FirstInside, Pc
  <2> QED BY <2>1, <2>2, <2>3 DEF TypeOK, disk, flags
<1>13. ASSUME NEW t \in Thread, EnterWrite(t) PROVE TypeOK'
  <2>1. UNCHANGED <<lease, leaseLock, agent, foreign, up, slot, slotLock, pending, prepared, reaping, web, calls>>
    BY <1>13 DEF EnterWrite, Go, Scoped, Remember
  <2>2. path' \in Adk \cup {NoAdk}
    BY <1>13, Fields DEF EnterWrite, Go, Scoped, Remember, TypeOK
  <2>3. lifecycle' \in [Shell -> Thread \cup {NoThread}]
    BY <1>13, Fields DEF EnterWrite, Go, Scoped, Remember, TypeOK
  <2>4. hot' \in [Shell -> BOOLEAN]
    BY <1>13, Fields DEF EnterWrite, Go, Scoped, Remember, TypeOK
  <2>5. startup' \in [Shell -> Startup]
    BY <1>13, Fields DEF EnterWrite, Go, Scoped, Remember, TypeOK, Processes, Pages, Startup, Unbound
  <2>6. call' \in [Thread -> Calls]
    BY <1>13, GoTypes, RememberTypes DEF EnterWrite, Pc
  <2> QED BY <2>1, <2>2, <2>3, <2>4, <2>5, <2>6 DEF TypeOK
<1>14. ASSUME NEW t \in Thread, Forget(t) PROVE TypeOK'
  <2>1. UNCHANGED <<lease, leaseLock, agent, foreign, up, locks, flags, reaping, web, calls>>
    BY <1>14 DEF Forget, Go
  <2>2. path' \in Adk \cup {NoAdk}
    BY <1>14, Fields DEF Forget, Go, TypeOK
  <2>3. startup' \in [Shell -> Startup]
    BY <1>14, Fields DEF Forget, Go, TypeOK, Processes, Pages, Startup, Unbound
  <2>4. call' \in [Thread -> Calls]
    BY <1>14, Fields, DoneTypes, GoTypes, HoldTypes, TurnTypes DEF Forget, Pc
  <2> QED BY <2>1, <2>2, <2>3, <2>4 DEF TypeOK, locks, flags
<1>15. ASSUME NEW t \in Thread, CheckFinds(t) PROVE TypeOK'
  <2>1. UNCHANGED <<disk, agent, foreign, up, slot, slotLock, pending, prepared, startup, reaping, web, calls>>
    BY <1>15 DEF CheckFinds, Go, Done, Leave
  <2>2. lifecycle' \in [Shell -> Thread \cup {NoThread}]
    BY <1>15, Fields DEF CheckFinds, Go, Done, Leave, TypeOK
  <2>3. hot' \in [Shell -> BOOLEAN]
    BY <1>15, Fields DEF CheckFinds, Go, Done, Leave, TypeOK
  <2>4. call' \in [Thread -> Calls]
    BY <1>15, Fields, DoneTypes, GoTypes, HoldTypes, TurnTypes DEF CheckFinds, Pc
  <2> QED BY <2>1, <2>2, <2>3, <2>4 DEF TypeOK, disk
<1>16. ASSUME NEW t \in Thread, CheckFindsLost(t) PROVE TypeOK'
  <2>1. UNCHANGED <<disk, agent, foreign, up, lifecycle, flags, startup, reaping, web, calls>>
    BY <1>16 DEF CheckFindsLost, Seizes, Hold
  <2>2. slot' \in [Shell -> Agent \cup {NoAgent}]
    BY <1>16, Fields DEF CheckFindsLost, Seizes, Hold, TypeOK
  <2>3. slotLock' \in [Shell -> Thread \cup {NoThread}]
    BY <1>16, Fields DEF CheckFindsLost, Seizes, Hold, TypeOK
  <2>4. call' \in [Thread -> Calls]
    BY <1>16, Fields, DoneTypes, GoTypes, HoldTypes, TurnTypes DEF CheckFindsLost, Seizes, Pc
  <2> QED BY <2>1, <2>2, <2>3, <2>4 DEF TypeOK, disk, flags
<1>17. ASSUME NEW t \in Thread, Take(t) PROVE TypeOK'
  <2>1. UNCHANGED <<disk, agent, foreign, up, slotLock, flags, startup, reaping, web, calls>>
    BY <1>17 DEF Take, Done, Leave, Hold
  <2>2. slot' \in [Shell -> Agent \cup {NoAgent}]
    BY <1>17, Fields DEF Take, Done, Leave, Hold, TypeOK
  <2>3. lifecycle' \in [Shell -> Thread \cup {NoThread}]
    BY <1>17, Fields DEF Take, Done, Leave, Hold, TypeOK
  <2>4. call' \in [Thread -> Calls]
    BY <1>17, Fields, DoneTypes, GoTypes, HoldTypes, TurnTypes DEF Take, Pc
  <2> QED BY <2>1, <2>2, <2>3, <2>4 DEF TypeOK, disk, flags
<1>18. ASSUME NEW t \in Thread, TakeStops(t) PROVE TypeOK'
  <2>1. UNCHANGED <<disk, agent, foreign, up, locks, flags, startup, reaping, web, calls>>
    BY <1>18 DEF TakeStops, Go
  <2>2. call' \in [Thread -> Calls]
    BY <1>18, Fields, DoneTypes, GoTypes, HoldTypes, TurnTypes DEF TakeStops, Pc
  <2> QED BY <2>1, <2>2 DEF TypeOK, disk, locks, flags
<1>19. ASSUME NEW t \in Thread, Drained(t) PROVE TypeOK'
  <2>1. UNCHANGED <<path, leaseLock, agent, foreign, up, slot, slotLock, flags, startup, reaping, web, calls>>
    BY <1>19 DEF Drained, Done, Leave, Hold
  <2>2. lease' \in [of : Agent \cup {NoAgent}, pid : BOOLEAN]
    BY <1>19, Fields, CleanedTypes DEF Drained, Done, Leave, Hold, TypeOK
  <2>3. lifecycle' \in [Shell -> Thread \cup {NoThread}]
    BY <1>19, Fields DEF Drained, Done, Leave, Hold, TypeOK
  <2>4. call' \in [Thread -> Calls]
    BY <1>19, Fields, DoneTypes, GoTypes, HoldTypes, TurnTypes DEF Drained, Pc
  <2> QED BY <2>1, <2>2, <2>3, <2>4 DEF TypeOK, flags
<1>20. ASSUME NEW t \in Thread, DrainFails(t) PROVE TypeOK'
  <2>1. UNCHANGED <<disk, agent, foreign, up, locks, flags, startup, reaping, web, calls>>
    BY <1>20 DEF DrainFails, Go
  <2>2. call' \in [Thread -> Calls]
    BY <1>20, Fields, DoneTypes, GoTypes, HoldTypes, TurnTypes DEF DrainFails, Pc
  <2> QED BY <2>1, <2>2 DEF TypeOK, disk, locks, flags
<1>21. ASSUME NEW t \in Thread, PutBack(t) PROVE TypeOK'
  <2>1. UNCHANGED <<disk, agent, foreign, up, slotLock, lifecycle, flags, startup, reaping, web, calls>>
    BY <1>21 DEF PutBack, Hold
  <2>2. slot' \in [Shell -> Agent \cup {NoAgent}]
    BY <1>21, Fields DEF PutBack, Hold, TypeOK
  <2>3. call' \in [Thread -> Calls]
    BY <1>21, Fields, DoneTypes, GoTypes, HoldTypes, TurnTypes DEF PutBack, Pc
  <2> QED BY <2>1, <2>2, <2>3 DEF TypeOK, disk, flags
<1>22. ASSUME NEW t \in Thread, LockLease(t) PROVE TypeOK'
  <2>1. UNCHANGED <<path, lease, agent, foreign, up, locks, flags, startup, reaping, web, calls>>
    BY <1>22 DEF LockLease, Go
  <2>2. leaseLock' \in Thread \cup {NoThread}
    BY <1>22, Fields DEF LockLease, Go, TypeOK
  <2>3. call' \in [Thread -> Calls]
    BY <1>22, Fields, DoneTypes, GoTypes, HoldTypes, TurnTypes DEF LockLease, Pc
  <2> QED BY <2>1, <2>2, <2>3 DEF TypeOK, locks, flags
<1>23. ASSUME NEW t \in Thread, SpawnRefused(t) PROVE TypeOK'
  <2>1. UNCHANGED <<disk, agent, foreign, up, locks, flags, startup, reaping, web, calls>>
    BY <1>23 DEF SpawnRefused, Go
  <2>2. call' \in [Thread -> Calls]
    BY <1>23, Fields, DoneTypes, GoTypes, HoldTypes, TurnTypes DEF SpawnRefused, Pc
  <2> QED BY <2>1, <2>2 DEF TypeOK, disk, locks, flags
<1>24. ASSUME NEW t \in Thread, ReapOrphan(t) PROVE TypeOK'
  <2>1. UNCHANGED <<disk, foreign, up, locks, flags, startup, reaping, web, call, calls>>
    BY <1>24 DEF ReapOrphan, Orphan
  <2>2. agent' \in [Agent -> Processes]
    BY <1>24, Fields, LivingAreAgents, EndTypes DEF Orphan, ReapOrphan
  <2> QED BY <2>1, <2>2 DEF TypeOK, disk, locks, flags
<1>25. ASSUME NEW t \in Thread, Blocked(t) PROVE TypeOK'
  <2>1. UNCHANGED <<path, lease, agent, foreign, up, locks, flags, startup, reaping, web, calls>>
    BY <1>25 DEF Blocked, Go, Orphan
  <2>2. leaseLock' \in Thread \cup {NoThread}
    BY <1>25, Fields DEF Blocked, Go, Orphan, TypeOK
  <2>3. call' \in [Thread -> Calls]
    BY <1>25, Fields, DoneTypes, GoTypes, HoldTypes, TurnTypes DEF Blocked, Orphan, Pc
  <2> QED BY <2>1, <2>2, <2>3 DEF TypeOK, locks, flags
<1>26. ASSUME NEW t \in Thread, Clear(t) PROVE TypeOK'
  <2>1. UNCHANGED <<path, leaseLock, agent, foreign, up, locks, flags, startup, reaping, web, calls>>
    BY <1>26 DEF Clear, Hold
  <2>2. lease' \in [of : Agent \cup {NoAgent}, pid : BOOLEAN]
    BY <1>26, Fields, CleanedTypes DEF Clear, Hold, TypeOK
  <2>3. call' \in [Thread -> Calls]
    BY <1>26, Fields, DoneTypes, GoTypes, HoldTypes, TurnTypes DEF Clear, Pc
  <2> QED BY <2>1, <2>2, <2>3 DEF TypeOK, locks, flags
<1>27. ASSUME NEW t \in Thread, Prepare(t) PROVE TypeOK'
  <2>1. UNCHANGED <<path, agent, foreign, up, slot, slotLock, pending, hot, startup, reaping, web, calls>>
    BY <1>27 DEF Prepare, Done, Leave
  <2>2. lease' \in [of : Agent \cup {NoAgent}, pid : BOOLEAN]
    BY <1>27, Fields, CleanedTypes DEF Prepare, Done, Leave, TypeOK
  <2>3. leaseLock' \in Thread \cup {NoThread}
    BY <1>27, Fields DEF Prepare, Done, Leave, TypeOK
  <2>4. lifecycle' \in [Shell -> Thread \cup {NoThread}]
    BY <1>27, Fields DEF Prepare, Done, Leave, TypeOK
  <2>5. prepared' \in [Shell -> BOOLEAN]
    BY <1>27, Fields DEF Prepare, Done, Leave, TypeOK
  <2>6. call' \in [Thread -> Calls]
    BY <1>27, Fields, DoneTypes, GoTypes, HoldTypes, TurnTypes DEF Prepare, Pc
  <2> QED BY <2>1, <2>2, <2>3, <2>4, <2>5, <2>6 DEF TypeOK
<1>28. ASSUME NEW t \in Thread, Launch(t) PROVE TypeOK'
  <2>1. UNCHANGED <<disk, foreign, up, locks, flags, startup, reaping, web, calls>>
    BY <1>28 DEF Launch, Go
  <2>2. agent' \in [Agent -> Processes]
    BY <1>28, Fields DEF Launch, Go, TypeOK, Processes, Pages, Startup, Unbound
  <2>3. call' \in [Thread -> Calls]
    BY <1>28, Fields, DoneTypes, GoTypes, HoldTypes, TurnTypes DEF Launch, Pc
  <2> QED BY <2>1, <2>2, <2>3 DEF TypeOK, disk, locks, flags
<1>29. ASSUME NEW t \in Thread, LaunchFails(t) PROVE TypeOK'
  <2>1. UNCHANGED <<path, agent, foreign, up, locks, flags, startup, reaping, web, calls>>
    BY <1>29 DEF LaunchFails, Hold
  <2>2. lease' \in [of : Agent \cup {NoAgent}, pid : BOOLEAN]
    BY <1>29, Fields, CleanedTypes DEF LaunchFails, Hold, TypeOK
  <2>3. leaseLock' \in Thread \cup {NoThread}
    BY <1>29, Fields DEF LaunchFails, Hold, TypeOK
  <2>4. call' \in [Thread -> Calls]
    BY <1>29, Fields, DoneTypes, GoTypes, HoldTypes, TurnTypes DEF LaunchFails, Pc
  <2> QED BY <2>1, <2>2, <2>3, <2>4 DEF TypeOK, locks, flags
<1>30. ASSUME NEW t \in Thread, Record(t) PROVE TypeOK'
  <2>1. UNCHANGED <<path, agent, foreign, up, locks, flags, startup, reaping, web, calls>>
    BY <1>30 DEF Record, Go
  <2>2. lease' \in [of : Agent \cup {NoAgent}, pid : BOOLEAN]
    BY <1>30, Fields, CleanedTypes DEF Record, Go, TypeOK
  <2>3. leaseLock' \in Thread \cup {NoThread}
    BY <1>30, Fields DEF Record, Go, TypeOK
  <2>4. call' \in [Thread -> Calls]
    BY <1>30, Fields, DoneTypes, GoTypes, HoldTypes, TurnTypes DEF Record, Pc
  <2> QED BY <2>1, <2>2, <2>3, <2>4 DEF TypeOK, locks, flags
<1>31. ASSUME NEW t \in Thread, Handshake(t) PROVE TypeOK'
  <2>1. UNCHANGED <<disk, agent, foreign, up, locks, flags, startup, reaping, web, calls>>
    BY <1>31 DEF Handshake, Go
  <2>2. call' \in [Thread -> Calls]
    BY <1>31, Fields, DoneTypes, GoTypes, HoldTypes, TurnTypes DEF Handshake, Pc
  <2> QED BY <2>1, <2>2 DEF TypeOK, disk, locks, flags
<1>32. ASSUME NEW t \in Thread, Abort(t) PROVE TypeOK'
  <2>1. UNCHANGED <<path, leaseLock, agent, foreign, up, locks, flags, startup, web, calls>>
    BY <1>32 DEF Abort, Hold
  <2>2. lease' \in [of : Agent \cup {NoAgent}, pid : BOOLEAN]
    BY <1>32, Fields, CleanedTypes DEF Abort, Hold, TypeOK
  <2>3. reaping' \in [Shell -> SUBSET Agent]
    BY <1>32 DEF Abort, HandsFit, Fit, Birth, TypeOK
  <2>4. call' \in [Thread -> Calls]
    BY <1>32, Fields, DoneTypes, GoTypes, HoldTypes, TurnTypes DEF Abort, Pc
  <2> QED BY <2>1, <2>2, <2>3, <2>4 DEF TypeOK, locks, flags
<1>33. ASSUME NEW t \in Thread, Publish(t) PROVE TypeOK'
  <2>1. UNCHANGED <<disk, agent, foreign, up, slotLock, flags, startup, reaping, web, calls>>
    BY <1>33 DEF Publish, Done, Leave, Hold
  <2>2. slot' \in [Shell -> Agent \cup {NoAgent}]
    BY <1>33, Fields DEF Publish, Done, Leave, Hold, TypeOK
  <2>3. lifecycle' \in [Shell -> Thread \cup {NoThread}]
    BY <1>33, Fields DEF Publish, Done, Leave, Hold, TypeOK
  <2>4. call' \in [Thread -> Calls]
    BY <1>33, Fields, DoneTypes, GoTypes, HoldTypes, TurnTypes DEF Publish, Pc
  <2> QED BY <2>1, <2>2, <2>3, <2>4 DEF TypeOK, disk, flags
<1>34. ASSUME NEW t \in Thread, Replay(t) PROVE TypeOK'
  <2>1. UNCHANGED <<disk, agent, up, slot, slotLock, flags, startup, reaping, web, calls>>
    BY <1>34 DEF Replay, Sent, Leave, Done, Go, Turn
  <2>2. foreign' \subseteq Agent \X Adk
    BY <1>34, Fields, SentTypes DEF Replay
  <2>3. lifecycle' \in [Shell -> Thread \cup {NoThread}]
    BY <1>34, Fields DEF Replay, Sent, Leave, Done, Go, Turn, TypeOK
  <2>4. call' \in [Thread -> Calls]
    BY <1>34, Fields, DoneTypes, GoTypes, TurnTypes DEF Replay, Pc, Job
  <2> QED BY <2>1, <2>2, <2>3, <2>4 DEF TypeOK, disk, flags
<1>35. ASSUME NEW t \in Thread, Deliver(t) PROVE TypeOK'
  <2>1. UNCHANGED <<disk, agent, up, slot, slotLock, flags, startup, reaping, web, calls>>
    BY <1>35 DEF Deliver, Reached, Sent, Done, Leave
  <2>2. foreign' \subseteq Agent \X Adk
    <3>1. call[t].arg \in Adk BY <1>35 DEF Deliver, HandsFit, Fit
    <3>2. {call[t].arg} \in SUBSET Adk BY <3>1
    <3> QED BY <1>35, <3>2, Fields, SentTypes DEF Deliver, TypeOK
  <2>3. lifecycle' \in [Shell -> Thread \cup {NoThread}]
    BY <1>35, Fields DEF Deliver, Reached, Sent, Done, Leave, TypeOK
  <2>4. call' \in [Thread -> Calls]
    BY <1>35, Fields, DoneTypes, GoTypes, HoldTypes, TurnTypes DEF Deliver, Reached, Pc
  <2> QED BY <2>1, <2>2, <2>3, <2>4 DEF TypeOK, disk, flags
<1>36. ASSUME NEW t \in Thread, Mark(t) PROVE TypeOK'
  <2>1. UNCHANGED <<disk, agent, foreign, up, slot, slotLock, flags, startup, reaping, web, calls>>
    BY <1>36 DEF Mark, Reached, Go, Done, Leave
  <2>2. lifecycle' \in [Shell -> Thread \cup {NoThread}]
    BY <1>36, Fields DEF Mark, Reached, Go, Done, Leave, TypeOK
  <2>3. call' \in [Thread -> Calls]
    BY <1>36, Fields, DoneTypes, GoTypes, HoldTypes, TurnTypes DEF Mark, Reached, Pc
  <2> QED BY <2>1, <2>2, <2>3 DEF TypeOK, disk, flags
<1>37. ASSUME NEW t \in Thread, Fail(t) PROVE TypeOK'
  <2>1. UNCHANGED <<lease, leaseLock, agent, foreign, up, slot, slotLock, prepared, hot, reaping, web, calls>>
    BY <1>37 DEF Fail, Done, Leave
  <2>2. path' \in Adk \cup {NoAdk}
    BY <1>37, Fields DEF Fail, Done, Leave, TypeOK
  <2>3. lifecycle' \in [Shell -> Thread \cup {NoThread}]
    BY <1>37, Fields DEF Fail, Done, Leave, TypeOK
  <2>4. pending' \in [Shell -> BOOLEAN]
    BY <1>37, Fields DEF Fail, Done, Leave, TypeOK
  <2>5. startup' \in [Shell -> Startup]
    BY <1>37, Fields DEF Fail, Done, Leave, TypeOK, Processes, Pages, Startup, Unbound
  <2>6. call' \in [Thread -> Calls]
    BY <1>37, Fields, DoneTypes, GoTypes, HoldTypes, TurnTypes DEF Fail, Pc
  <2> QED BY <2>1, <2>2, <2>3, <2>4, <2>5, <2>6 DEF TypeOK
<1>38. ASSUME NEW t \in Thread, NEW j \in PageJob, NEW x \in Adk \cup {NoAdk}, Call(t, j, x)
      PROVE TypeOK'
  <2>1. UNCHANGED <<disk, agent, foreign, up, locks, prepared, hot, startup, reaping, web>>
    BY <1>38 DEF Call, PageJob, FirstPc, Refused
  <2>2. pending' \in [Shell -> BOOLEAN]
    BY <1>38, Fields DEF Call, PageJob, FirstPc, Refused, TypeOK
  <2>3. call' \in [Thread -> Calls]
    <3>1. FirstPc(j) \in Pc /\ j \in Job BY DEF FirstPc, PageJob, Pc, Job
    <3>2. [NoCall EXCEPT !.pc = FirstPc(j), !.job = j, !.arg = x] \in Calls BY <3>1, FreshTypes
    <3> QED BY <1>38, <3>2 DEF Call, TypeOK
  <2>4. calls' \in 0..MaxCalls
    BY <1>38, Fields DEF Call, PageJob, FirstPc, Refused, TypeOK
  <2> QED BY <2>1, <2>2, <2>3, <2>4 DEF TypeOK, disk, locks
<1>39. ASSUME NEW s \in Shell, Boot(s) PROVE TypeOK'
  <2>1. UNCHANGED <<disk, agent, foreign, locks, flags, startup, reaping>>
    BY <1>39 DEF Boot
  <2>2. up' \in [Shell -> BOOLEAN]
    BY <1>39, Fields DEF Boot, TypeOK
  <2>3. web' \in [Shell -> Pages]
    BY <1>39, Fields DEF Boot, TypeOK, Pages
  <2>4. call' \in [Thread -> Calls]
    BY <1>39, FreshTypes DEF Boot, TypeOK, Pc, Job
  <2>5. calls' \in 0..MaxCalls
    BY <1>39, Fields DEF Boot, TypeOK
  <2> QED BY <2>1, <2>2, <2>3, <2>4, <2>5 DEF TypeOK, disk, locks, flags
<1>40. ASSUME NEW s \in Shell, Crash(s) PROVE TypeOK'
  <2>1. UNCHANGED <<path, lease, foreign, web, calls>>
    BY <1>40 DEF Crash, Down
  <2>2. leaseLock' \in Thread \cup {NoThread}
    BY <1>40, Fields DEF Crash, Down, TypeOK
  <2>3. agent' \in [Agent -> Processes]
    BY <1>40, Fields DEF Crash, Down, TypeOK, Processes, Pages, Startup, Unbound
  <2>4. up' \in [Shell -> BOOLEAN]
    BY <1>40, Fields DEF Crash, Down, TypeOK
  <2>5. slot' \in [Shell -> Agent \cup {NoAgent}]
    BY <1>40, Fields DEF Crash, Down, TypeOK
  <2>6. slotLock' \in [Shell -> Thread \cup {NoThread}]
    BY <1>40, Fields DEF Crash, Down, TypeOK
  <2>7. lifecycle' \in [Shell -> Thread \cup {NoThread}]
    BY <1>40, Fields DEF Crash, Down, TypeOK
  <2>8. pending' \in [Shell -> BOOLEAN]
    BY <1>40, Fields DEF Crash, Down, TypeOK
  <2>9. prepared' \in [Shell -> BOOLEAN]
    BY <1>40, Fields DEF Crash, Down, TypeOK
  <2>10. hot' \in [Shell -> BOOLEAN]
    BY <1>40, Fields DEF Crash, Down, TypeOK
  <2>11. startup' \in [Shell -> Startup]
    BY <1>40, Fields DEF Crash, Down, TypeOK, Processes, Pages, Startup, Unbound
  <2>12. reaping' \in [Shell -> SUBSET Agent]
    BY <1>40, Fields DEF Crash, Down, TypeOK
  <2>13. call' \in [Thread -> Calls]
    BY <1>40, DownTypes DEF Crash
  <2> QED BY <2>1, <2>2, <2>3, <2>4, <2>5, <2>6, <2>7, <2>8, <2>9, <2>10, <2>11,
       <2>12, <2>13 DEF TypeOK
<1>41. ASSUME NEW s \in Shell, CancelRelaunch(s) PROVE TypeOK'
  <2>1. UNCHANGED <<disk, agent, foreign, up, locks, hot, startup, reaping, web, call, calls>>
    BY <1>41 DEF CancelRelaunch
  <2>2. pending' \in [Shell -> BOOLEAN]
    BY <1>41, Fields DEF CancelRelaunch, TypeOK
  <2>3. prepared' \in [Shell -> BOOLEAN]
    BY <1>41, Fields DEF CancelRelaunch, TypeOK
  <2> QED BY <2>1, <2>2, <2>3 DEF TypeOK, disk, locks
<1>42. ASSUME NEW s \in Shell, CoolDown(s) PROVE TypeOK'
  <2>1. UNCHANGED <<disk, agent, foreign, up, locks, pending, prepared, startup, reaping, web, call, calls>>
    BY <1>42 DEF CoolDown
  <2>2. hot' \in [Shell -> BOOLEAN]
    BY <1>42, Fields DEF CoolDown, TypeOK
  <2> QED BY <2>1, <2>2 DEF TypeOK, disk, locks
<1>43. ASSUME NEW s \in Shell, NEW x \in Adk, Store(s, x) PROVE TypeOK'
  <2>1. UNCHANGED <<disk, agent, foreign, up, locks, flags, reaping, web, call, calls>>
    BY <1>43 DEF Store
  <2>2. startup' \in [Shell -> Startup]
    BY <1>43, Fields DEF Store, TypeOK, Processes, Pages, Startup, Unbound
  <2> QED BY <2>1, <2>2 DEF TypeOK, disk, locks, flags
<1>44. ASSUME NEW s \in Shell, NEW a \in Agent, Reaper(s, a) PROVE TypeOK'
  <2>1. UNCHANGED <<path, leaseLock, agent, foreign, up, locks, flags, startup, web, call, calls>>
    BY <1>44 DEF Reaper
  <2>2. lease' \in [of : Agent \cup {NoAgent}, pid : BOOLEAN]
    BY <1>44, Fields, CleanedTypes DEF Reaper, TypeOK
  <2>3. reaping' \in [Shell -> SUBSET Agent]
    BY <1>44, Fields DEF Reaper, TypeOK
  <2> QED BY <2>1, <2>2, <2>3 DEF TypeOK, locks, flags
<1>45. ASSUME NEW a \in Agent, AgentEnds(a) PROVE TypeOK'
  <2>1. UNCHANGED <<disk, foreign, up, locks, flags, startup, reaping, web, call, calls>>
    BY <1>45 DEF AgentEnds
  <2>2. agent' \in [Agent -> Processes]
    BY <1>45, EndTypes DEF AgentEnds
  <2> QED BY <2>1, <2>2 DEF TypeOK, disk, locks, flags
<1> HIDE DEF At, Alive
<1> QED
  BY <1>1, <1>2, <1>3, <1>4, <1>5, <1>6, <1>7, <1>8, <1>9, <1>10, <1>11, <1>12,
     <1>13, <1>14, <1>15, <1>16, <1>17, <1>18, <1>19, <1>20, <1>21, <1>22, <1>23,
     <1>24, <1>25, <1>26, <1>27, <1>28, <1>29, <1>30, <1>31, <1>32, <1>33, <1>34,
     <1>35, <1>36, <1>37, <1>38, <1>39, <1>40, <1>41, <1>42, <1>43, <1>44, <1>45
     DEF Next, Step

\* Who acts has the locks for it.
LEMMA NextLocks == Inv /\ [Next]_vars => LocksAreHeld'
<1> SUFFICES ASSUME Inv, [Next]_vars PROVE LocksAreHeld' OBVIOUS
<1> USE AgentAssumption, Threads, Moves DEF Inv, TypeOK, At, SlotFree, LeaseFree, disk, locks, flags, NoCall,
       LocksAreHeld, Inside, Acting
<1>1. CASE UNCHANGED vars
  BY <1>1 DEF vars
<1>2. ASSUME NEW t \in Thread, Tell(t) PROVE LocksAreHeld'
  BY <1>2 DEF Tell
<1>3. ASSUME NEW t \in Thread, SendStops(t) PROVE LocksAreHeld'
  BY <1>3 DEF SendStops
<1>4. ASSUME NEW t \in Thread, SendFindsNone(t) PROVE LocksAreHeld'
  BY <1>4 DEF SendFindsNone
<1>5. ASSUME NEW t \in Thread, SendFindsLost(t) PROVE LocksAreHeld'
  BY <1>5 DEF SendFindsLost, Seizes
<1>6. ASSUME NEW t \in Thread, SeizeForGood(t) PROVE LocksAreHeld'
  BY <1>6 DEF SeizeForGood, Seizes
<1>7. ASSUME NEW t \in Thread, SeizeNothing(t) PROVE LocksAreHeld'
  BY <1>7 DEF SeizeNothing
<1>8. ASSUME NEW t \in Thread, DropEnds(t) PROVE LocksAreHeld'
  BY <1>8 DEF DropEnds, AfterDrop
<1>9. ASSUME NEW t \in Thread, Exit(t) PROVE LocksAreHeld'
  BY <1>9 DEF Exit, Down
<1>10. ASSUME NEW t \in Thread, Reserve(t) PROVE LocksAreHeld'
  BY <1>10 DEF Reserve
<1>11. ASSUME NEW t \in Thread, TurnedAway(t) PROVE LocksAreHeld'
  BY <1>11 DEF TurnedAway
<1>12. ASSUME NEW t \in Thread, Enter(t) PROVE LocksAreHeld'
  BY <1>12 DEF Enter, FirstInside
<1>13. ASSUME NEW t \in Thread, EnterWrite(t) PROVE LocksAreHeld'
  BY <1>13 DEF EnterWrite, Scoped
<1>14. ASSUME NEW t \in Thread, Forget(t) PROVE LocksAreHeld'
  BY <1>14 DEF Forget
<1>15. ASSUME NEW t \in Thread, CheckFinds(t) PROVE LocksAreHeld'
  BY <1>15 DEF CheckFinds, Leave
<1>16. ASSUME NEW t \in Thread, CheckFindsLost(t) PROVE LocksAreHeld'
  BY <1>16 DEF CheckFindsLost, Seizes
<1>17. ASSUME NEW t \in Thread, Take(t) PROVE LocksAreHeld'
  BY <1>17 DEF Take, Leave
<1>18. ASSUME NEW t \in Thread, TakeStops(t) PROVE LocksAreHeld'
  BY <1>18 DEF TakeStops
<1>19. ASSUME NEW t \in Thread, Drained(t) PROVE LocksAreHeld'
  BY <1>19 DEF Drained, Leave
<1>20. ASSUME NEW t \in Thread, DrainFails(t) PROVE LocksAreHeld'
  BY <1>20 DEF DrainFails
<1>21. ASSUME NEW t \in Thread, PutBack(t) PROVE LocksAreHeld'
  BY <1>21 DEF PutBack
<1>22. ASSUME NEW t \in Thread, LockLease(t) PROVE LocksAreHeld'
  BY <1>22 DEF LockLease
<1>23. ASSUME NEW t \in Thread, SpawnRefused(t) PROVE LocksAreHeld'
  BY <1>23 DEF SpawnRefused
<1>24. ASSUME NEW t \in Thread, ReapOrphan(t) PROVE LocksAreHeld'
  BY <1>24 DEF ReapOrphan, Orphan
<1>25. ASSUME NEW t \in Thread, Blocked(t) PROVE LocksAreHeld'
  BY <1>25 DEF Blocked, Orphan
<1>26. ASSUME NEW t \in Thread, Clear(t) PROVE LocksAreHeld'
  BY <1>26 DEF Clear
<1>27. ASSUME NEW t \in Thread, Prepare(t) PROVE LocksAreHeld'
  BY <1>27 DEF Prepare, Leave
<1>28. ASSUME NEW t \in Thread, Launch(t) PROVE LocksAreHeld'
  BY <1>28 DEF Launch
<1>29. ASSUME NEW t \in Thread, LaunchFails(t) PROVE LocksAreHeld'
  BY <1>29 DEF LaunchFails
<1>30. ASSUME NEW t \in Thread, Record(t) PROVE LocksAreHeld'
  BY <1>30 DEF Record
<1>31. ASSUME NEW t \in Thread, Handshake(t) PROVE LocksAreHeld'
  BY <1>31 DEF Handshake
<1>32. ASSUME NEW t \in Thread, Abort(t) PROVE LocksAreHeld'
  BY <1>32 DEF Abort
<1>33. ASSUME NEW t \in Thread, Publish(t) PROVE LocksAreHeld'
  BY <1>33 DEF Publish, Leave
<1>34. ASSUME NEW t \in Thread, Replay(t) PROVE LocksAreHeld'
  BY <1>34 DEF Replay, Sent, Leave
<1>35. ASSUME NEW t \in Thread, Deliver(t) PROVE LocksAreHeld'
  <2>1. /\ \A u \in Thread : u # t => call'[u] = call[u]
        /\ call'[t].pc = "idle" /\ call[t].pc = "deliver"
        /\ lifecycle' = [lifecycle EXCEPT ![Home(t)] = NoThread]
        /\ UNCHANGED <<leaseLock, up>>
    BY <1>35 DEF Deliver, Leave
  <2> QED BY <2>1
<1>36. ASSUME NEW t \in Thread, Mark(t) PROVE LocksAreHeld'
  <2>1. /\ \A u \in Thread : u # t => call'[u] = call[u]
        /\ call'[t].pc \in {"tell", "idle"} /\ call[t].pc = "mark"
        /\ lifecycle' = [lifecycle EXCEPT ![Home(t)] = NoThread]
        /\ UNCHANGED <<leaseLock, up>>
    BY <1>36 DEF Mark, Leave
  <2> QED BY <2>1
<1>37. ASSUME NEW t \in Thread, Fail(t) PROVE LocksAreHeld'
  BY <1>37 DEF Fail, Leave
<1>38. ASSUME NEW t \in Thread, NEW j \in PageJob, NEW x \in Adk \cup {NoAdk}, Call(t, j, x)
      PROVE LocksAreHeld'
  BY <1>38 DEF Call, PageJob, FirstPc, Refused
<1>39. ASSUME NEW s \in Shell, Boot(s) PROVE LocksAreHeld'
  BY <1>39 DEF Boot
<1>40. ASSUME NEW s \in Shell, Crash(s) PROVE LocksAreHeld'
  BY <1>40 DEF Crash, Down
<1>41. ASSUME NEW s \in Shell, CancelRelaunch(s) PROVE LocksAreHeld'
  BY <1>41 DEF CancelRelaunch
<1>42. ASSUME NEW s \in Shell, CoolDown(s) PROVE LocksAreHeld'
  BY <1>42 DEF CoolDown
<1>43. ASSUME NEW s \in Shell, NEW x \in Adk, Store(s, x) PROVE LocksAreHeld'
  BY <1>43 DEF Store
<1>44. ASSUME NEW s \in Shell, NEW a \in Agent, Reaper(s, a) PROVE LocksAreHeld'
  BY <1>44 DEF Reaper
<1>45. ASSUME NEW a \in Agent, AgentEnds(a) PROVE LocksAreHeld'
  BY <1>45 DEF AgentEnds
<1> HIDE DEF Inv, TypeOK, At, SlotFree, LeaseFree, disk, locks, flags, NoCall,
       LocksAreHeld, Inside, Acting
<1> QED
  BY <1>1, <1>2, <1>3, <1>4, <1>5, <1>6, <1>7, <1>8, <1>9, <1>10, <1>11, <1>12,
     <1>13, <1>14, <1>15, <1>16, <1>17, <1>18, <1>19, <1>20, <1>21, <1>22, <1>23,
     <1>24, <1>25, <1>26, <1>27, <1>28, <1>29, <1>30, <1>31, <1>32, <1>33, <1>34,
     <1>35, <1>36, <1>37, <1>38, <1>39, <1>40, <1>41, <1>42, <1>43, <1>44, <1>45
     DEF Next, Step

\* No step starts an agent beside a living one, or takes its lease away.
LEMMA NextLeased == Inv /\ [Next]_vars => Leased'
<1> SUFFICES ASSUME Inv, [Next]_vars PROVE Leased' OBVIOUS
<1> USE AgentAssumption, Threads, Moves, CleanedNamesTheLiving DEF Inv, TypeOK, Alive, At, LeaseFree, disk, locks, flags,
       LocksAreHeld, Leased, HandsFit, Fit, Birth
<1>1. CASE UNCHANGED vars
  BY <1>1 DEF vars
<1>2. ASSUME NEW t \in Thread, Tell(t) PROVE Leased'
  BY <1>2 DEF Tell
<1>3. ASSUME NEW t \in Thread, SendStops(t) PROVE Leased'
  BY <1>3 DEF SendStops
<1>4. ASSUME NEW t \in Thread, SendFindsNone(t) PROVE Leased'
  BY <1>4 DEF SendFindsNone
<1>5. ASSUME NEW t \in Thread, SendFindsLost(t) PROVE Leased'
  BY <1>5 DEF SendFindsLost, Seizes
<1>6. ASSUME NEW t \in Thread, SeizeForGood(t) PROVE Leased'
  BY <1>6 DEF SeizeForGood, Seizes
<1>7. ASSUME NEW t \in Thread, SeizeNothing(t) PROVE Leased'
  BY <1>7 DEF SeizeNothing
<1>8. ASSUME NEW t \in Thread, DropEnds(t) PROVE Leased'
  BY <1>8 DEF DropEnds, AfterDrop
<1>9. ASSUME NEW t \in Thread, Exit(t) PROVE Leased'
  BY <1>9 DEF Exit, Down
<1>10. ASSUME NEW t \in Thread, Reserve(t) PROVE Leased'
  BY <1>10 DEF Reserve
<1>11. ASSUME NEW t \in Thread, TurnedAway(t) PROVE Leased'
  BY <1>11 DEF TurnedAway
<1>12. ASSUME NEW t \in Thread, Enter(t) PROVE Leased'
  BY <1>12 DEF Enter, FirstInside
<1>13. ASSUME NEW t \in Thread, EnterWrite(t) PROVE Leased'
  BY <1>13 DEF EnterWrite, Scoped
<1>14. ASSUME NEW t \in Thread, Forget(t) PROVE Leased'
  BY <1>14 DEF Forget
<1>15. ASSUME NEW t \in Thread, CheckFinds(t) PROVE Leased'
  BY <1>15 DEF CheckFinds, Leave
<1>16. ASSUME NEW t \in Thread, CheckFindsLost(t) PROVE Leased'
  BY <1>16 DEF CheckFindsLost, Seizes
<1>17. ASSUME NEW t \in Thread, Take(t) PROVE Leased'
  BY <1>17 DEF Take, Leave
<1>18. ASSUME NEW t \in Thread, TakeStops(t) PROVE Leased'
  BY <1>18 DEF TakeStops
<1>19. ASSUME NEW t \in Thread, Drained(t) PROVE Leased'
  BY <1>19 DEF Drained, Leave
<1>20. ASSUME NEW t \in Thread, DrainFails(t) PROVE Leased'
  BY <1>20 DEF DrainFails
<1>21. ASSUME NEW t \in Thread, PutBack(t) PROVE Leased'
  BY <1>21 DEF PutBack
<1>22. ASSUME NEW t \in Thread, LockLease(t) PROVE Leased'
  BY <1>22 DEF LockLease
<1>23. ASSUME NEW t \in Thread, SpawnRefused(t) PROVE Leased'
  BY <1>23 DEF SpawnRefused
<1>24. ASSUME NEW t \in Thread, ReapOrphan(t) PROVE Leased'
  BY <1>24 DEF ReapOrphan, Orphan
<1>25. ASSUME NEW t \in Thread, Blocked(t) PROVE Leased'
  BY <1>25 DEF Blocked, Orphan
<1>26. ASSUME NEW t \in Thread, Clear(t) PROVE Leased'
  BY <1>26 DEF Clear
<1>27. ASSUME NEW t \in Thread, Prepare(t) PROVE Leased'
  BY <1>27 DEF Prepare, Leave
<1>28. ASSUME NEW t \in Thread, Launch(t) PROVE Leased'
  BY <1>28 DEF Launch
<1>29. ASSUME NEW t \in Thread, LaunchFails(t) PROVE Leased'
  BY <1>29 DEF LaunchFails
<1>30. ASSUME NEW t \in Thread, Record(t) PROVE Leased'
  BY <1>30 DEF Record
<1>31. ASSUME NEW t \in Thread, Handshake(t) PROVE Leased'
  BY <1>31 DEF Handshake
<1>32. ASSUME NEW t \in Thread, Abort(t) PROVE Leased'
  BY <1>32 DEF Abort
<1>33. ASSUME NEW t \in Thread, Publish(t) PROVE Leased'
  BY <1>33 DEF Publish, Leave
<1>34. ASSUME NEW t \in Thread, Replay(t) PROVE Leased'
  BY <1>34 DEF Replay, Sent, Leave
<1>35. ASSUME NEW t \in Thread, Deliver(t) PROVE Leased'
  BY <1>35 DEF Deliver, Reached, Sent, Leave
<1>36. ASSUME NEW t \in Thread, Mark(t) PROVE Leased'
  BY <1>36 DEF Mark, Reached, Leave
<1>37. ASSUME NEW t \in Thread, Fail(t) PROVE Leased'
  BY <1>37 DEF Fail, Leave
<1>38. ASSUME NEW t \in Thread, NEW j \in PageJob, NEW x \in Adk \cup {NoAdk}, Call(t, j, x)
      PROVE Leased'
  BY <1>38 DEF Call, PageJob, FirstPc, Refused
<1>39. ASSUME NEW s \in Shell, Boot(s) PROVE Leased'
  BY <1>39 DEF Boot
<1>40. ASSUME NEW s \in Shell, Crash(s) PROVE Leased'
  BY <1>40 DEF Crash, Down
<1>41. ASSUME NEW s \in Shell, CancelRelaunch(s) PROVE Leased'
  BY <1>41 DEF CancelRelaunch
<1>42. ASSUME NEW s \in Shell, CoolDown(s) PROVE Leased'
  BY <1>42 DEF CoolDown
<1>43. ASSUME NEW s \in Shell, NEW x \in Adk, Store(s, x) PROVE Leased'
  BY <1>43 DEF Store
<1>44. ASSUME NEW s \in Shell, NEW a \in Agent, Reaper(s, a) PROVE Leased'
  BY <1>44 DEF Reaper
<1>45. ASSUME NEW a \in Agent, AgentEnds(a) PROVE Leased'
  BY <1>45 DEF AgentEnds
<1> HIDE DEF Inv, TypeOK, Alive, At, LeaseFree, disk, locks, flags,
       LocksAreHeld, Leased, HandsFit, Fit, Birth
<1> QED
  BY <1>1, <1>2, <1>3, <1>4, <1>5, <1>6, <1>7, <1>8, <1>9, <1>10, <1>11, <1>12,
     <1>13, <1>14, <1>15, <1>16, <1>17, <1>18, <1>19, <1>20, <1>21, <1>22, <1>23,
     <1>24, <1>25, <1>26, <1>27, <1>28, <1>29, <1>30, <1>31, <1>32, <1>33, <1>34,
     <1>35, <1>36, <1>37, <1>38, <1>39, <1>40, <1>41, <1>42, <1>43, <1>44, <1>45
     DEF Next, Step

\* No shell ends and leaves a living agent under its name.
LEMMA NextParents == Inv /\ [Next]_vars => ParentsAreUp'
<1> SUFFICES ASSUME Inv, [Next]_vars PROVE ParentsAreUp' OBVIOUS
<1> USE AgentAssumption, Threads, Moves DEF Inv, TypeOK, Alive, At, disk, locks, flags, LocksAreHeld, ParentsAreUp
<1>1. CASE UNCHANGED vars
  BY <1>1 DEF vars
<1>2. ASSUME NEW t \in Thread, Tell(t) PROVE ParentsAreUp'
  BY <1>2 DEF Tell
<1>3. ASSUME NEW t \in Thread, SendStops(t) PROVE ParentsAreUp'
  BY <1>3 DEF SendStops
<1>4. ASSUME NEW t \in Thread, SendFindsNone(t) PROVE ParentsAreUp'
  BY <1>4 DEF SendFindsNone
<1>5. ASSUME NEW t \in Thread, SendFindsLost(t) PROVE ParentsAreUp'
  BY <1>5 DEF SendFindsLost, Seizes
<1>6. ASSUME NEW t \in Thread, SeizeForGood(t) PROVE ParentsAreUp'
  BY <1>6 DEF SeizeForGood, Seizes
<1>7. ASSUME NEW t \in Thread, SeizeNothing(t) PROVE ParentsAreUp'
  BY <1>7 DEF SeizeNothing
<1>8. ASSUME NEW t \in Thread, DropEnds(t) PROVE ParentsAreUp'
  BY <1>8 DEF DropEnds, AfterDrop
<1>9. ASSUME NEW t \in Thread, Exit(t) PROVE ParentsAreUp'
  BY <1>9 DEF Exit, Down
<1>10. ASSUME NEW t \in Thread, Reserve(t) PROVE ParentsAreUp'
  BY <1>10 DEF Reserve
<1>11. ASSUME NEW t \in Thread, TurnedAway(t) PROVE ParentsAreUp'
  BY <1>11 DEF TurnedAway
<1>12. ASSUME NEW t \in Thread, Enter(t) PROVE ParentsAreUp'
  BY <1>12 DEF Enter, FirstInside
<1>13. ASSUME NEW t \in Thread, EnterWrite(t) PROVE ParentsAreUp'
  BY <1>13 DEF EnterWrite, Scoped
<1>14. ASSUME NEW t \in Thread, Forget(t) PROVE ParentsAreUp'
  BY <1>14 DEF Forget
<1>15. ASSUME NEW t \in Thread, CheckFinds(t) PROVE ParentsAreUp'
  BY <1>15 DEF CheckFinds, Leave
<1>16. ASSUME NEW t \in Thread, CheckFindsLost(t) PROVE ParentsAreUp'
  BY <1>16 DEF CheckFindsLost, Seizes
<1>17. ASSUME NEW t \in Thread, Take(t) PROVE ParentsAreUp'
  BY <1>17 DEF Take, Leave
<1>18. ASSUME NEW t \in Thread, TakeStops(t) PROVE ParentsAreUp'
  BY <1>18 DEF TakeStops
<1>19. ASSUME NEW t \in Thread, Drained(t) PROVE ParentsAreUp'
  BY <1>19 DEF Drained, Leave
<1>20. ASSUME NEW t \in Thread, DrainFails(t) PROVE ParentsAreUp'
  BY <1>20 DEF DrainFails
<1>21. ASSUME NEW t \in Thread, PutBack(t) PROVE ParentsAreUp'
  BY <1>21 DEF PutBack
<1>22. ASSUME NEW t \in Thread, LockLease(t) PROVE ParentsAreUp'
  BY <1>22 DEF LockLease
<1>23. ASSUME NEW t \in Thread, SpawnRefused(t) PROVE ParentsAreUp'
  BY <1>23 DEF SpawnRefused
<1>24. ASSUME NEW t \in Thread, ReapOrphan(t) PROVE ParentsAreUp'
  BY <1>24 DEF ReapOrphan, Orphan
<1>25. ASSUME NEW t \in Thread, Blocked(t) PROVE ParentsAreUp'
  BY <1>25 DEF Blocked, Orphan
<1>26. ASSUME NEW t \in Thread, Clear(t) PROVE ParentsAreUp'
  BY <1>26 DEF Clear
<1>27. ASSUME NEW t \in Thread, Prepare(t) PROVE ParentsAreUp'
  BY <1>27 DEF Prepare, Leave
<1>28. ASSUME NEW t \in Thread, Launch(t) PROVE ParentsAreUp'
  BY <1>28 DEF Launch
<1>29. ASSUME NEW t \in Thread, LaunchFails(t) PROVE ParentsAreUp'
  BY <1>29 DEF LaunchFails
<1>30. ASSUME NEW t \in Thread, Record(t) PROVE ParentsAreUp'
  BY <1>30 DEF Record
<1>31. ASSUME NEW t \in Thread, Handshake(t) PROVE ParentsAreUp'
  BY <1>31 DEF Handshake
<1>32. ASSUME NEW t \in Thread, Abort(t) PROVE ParentsAreUp'
  BY <1>32 DEF Abort
<1>33. ASSUME NEW t \in Thread, Publish(t) PROVE ParentsAreUp'
  BY <1>33 DEF Publish, Leave
<1>34. ASSUME NEW t \in Thread, Replay(t) PROVE ParentsAreUp'
  BY <1>34 DEF Replay, Sent, Leave
<1>35. ASSUME NEW t \in Thread, Deliver(t) PROVE ParentsAreUp'
  BY <1>35 DEF Deliver, Reached, Sent, Leave
<1>36. ASSUME NEW t \in Thread, Mark(t) PROVE ParentsAreUp'
  BY <1>36 DEF Mark, Reached, Leave
<1>37. ASSUME NEW t \in Thread, Fail(t) PROVE ParentsAreUp'
  BY <1>37 DEF Fail, Leave
<1>38. ASSUME NEW t \in Thread, NEW j \in PageJob, NEW x \in Adk \cup {NoAdk}, Call(t, j, x)
      PROVE ParentsAreUp'
  BY <1>38 DEF Call, PageJob, FirstPc, Refused
<1>39. ASSUME NEW s \in Shell, Boot(s) PROVE ParentsAreUp'
  BY <1>39 DEF Boot
<1>40. ASSUME NEW s \in Shell, Crash(s) PROVE ParentsAreUp'
  BY <1>40 DEF Crash, Down
<1>41. ASSUME NEW s \in Shell, CancelRelaunch(s) PROVE ParentsAreUp'
  BY <1>41 DEF CancelRelaunch
<1>42. ASSUME NEW s \in Shell, CoolDown(s) PROVE ParentsAreUp'
  BY <1>42 DEF CoolDown
<1>43. ASSUME NEW s \in Shell, NEW x \in Adk, Store(s, x) PROVE ParentsAreUp'
  BY <1>43 DEF Store
<1>44. ASSUME NEW s \in Shell, NEW a \in Agent, Reaper(s, a) PROVE ParentsAreUp'
  BY <1>44 DEF Reaper
<1>45. ASSUME NEW a \in Agent, AgentEnds(a) PROVE ParentsAreUp'
  BY <1>45 DEF AgentEnds
<1> HIDE DEF Inv, TypeOK, Alive, At, disk, locks, flags, LocksAreHeld, ParentsAreUp
<1> QED
  BY <1>1, <1>2, <1>3, <1>4, <1>5, <1>6, <1>7, <1>8, <1>9, <1>10, <1>11, <1>12,
     <1>13, <1>14, <1>15, <1>16, <1>17, <1>18, <1>19, <1>20, <1>21, <1>22, <1>23,
     <1>24, <1>25, <1>26, <1>27, <1>28, <1>29, <1>30, <1>31, <1>32, <1>33, <1>34,
     <1>35, <1>36, <1>37, <1>38, <1>39, <1>40, <1>41, <1>42, <1>43, <1>44, <1>45
     DEF Next, Step

\* Nobody else's step disturbs what a thread has in hand.
LEMMA NextHands == Inv /\ [Next]_vars => HandsFit'
<1> SUFFICES ASSUME Inv, [Next]_vars PROVE HandsFit' OBVIOUS
<1> USE AgentAssumption, Threads, Moves, CleanedNamesTheLiving DEF Inv, TypeOK, Alive, At, LeaseFree, disk, locks, flags, NoCall,
       LocksAreHeld, Leased, HandsFit, Fit, SlotsWait, Birth
<1>1. CASE UNCHANGED vars
  BY <1>1 DEF vars
<1>2. ASSUME NEW t \in Thread, Tell(t) PROVE HandsFit'
  BY <1>2 DEF Tell
<1>3. ASSUME NEW t \in Thread, SendStops(t) PROVE HandsFit'
  BY <1>3 DEF SendStops
<1>4. ASSUME NEW t \in Thread, SendFindsNone(t) PROVE HandsFit'
  BY <1>4 DEF SendFindsNone
<1>5. ASSUME NEW t \in Thread, SendFindsLost(t) PROVE HandsFit'
  BY <1>5 DEF SendFindsLost, Seizes
<1>6. ASSUME NEW t \in Thread, SeizeForGood(t) PROVE HandsFit'
  BY <1>6 DEF SeizeForGood, Seizes
<1>7. ASSUME NEW t \in Thread, SeizeNothing(t) PROVE HandsFit'
  <2>1. /\ \A u \in Thread : u # t => call'[u] = call[u]
        /\ UNCHANGED <<agent, lease>> /\ call[t].pc = "seize"
    BY <1>7 DEF SeizeNothing
  <2>2. CASE Done(t)
    <3>1. call'[t].pc = "idle" /\ call'[t].hand = NoAgent /\ call'[t].job = "none"
      BY <2>2
    <3> QED BY <2>1, <3>1
  <2>3. CASE Go(t, "exit") BY <2>1, <2>3
  <2> QED BY <1>7, <2>2, <2>3 DEF SeizeNothing
<1>8. ASSUME NEW t \in Thread, DropEnds(t) PROVE HandsFit'
  BY <1>8 DEF DropEnds, AfterDrop
<1>9. ASSUME NEW t \in Thread, Exit(t) PROVE HandsFit'
  <2>1. /\ \A u \in Thread : \/ call'[u] = call[u]
                               \/ /\ call'[u].pc = "idle" /\ call'[u].hand = NoAgent
                                  /\ call'[u].job = "none"
        /\ \A a \in Agent : agent'[a].life = agent[a].life
        /\ lease' = lease
    BY <1>9 DEF Exit, Down, Processes
  <2> SUFFICES ASSUME NEW u \in Thread PROVE Fit(u)' OBVIOUS
  <2>2. CASE call'[u] = call[u] BY <2>1, <2>2, Fields, Fit(u)
  <2>3. CASE call'[u] # call[u] BY <2>1, <2>3
  <2> QED BY <2>2, <2>3
<1>10. ASSUME NEW t \in Thread, Reserve(t) PROVE HandsFit'
  <2>1. /\ \A u \in Thread : u # t => call'[u] = call[u]
        /\ call[t].pc = "reserve"
        /\ \/ call'[t].pc = "wait" /\ call'[t].job = call[t].job
              /\ call'[t].arg = call[t].arg /\ call'[t].hand = call[t].hand
           \/ call'[t].pc = "idle" /\ call'[t].hand = NoAgent /\ call'[t].job = "none"
        /\ UNCHANGED <<agent, lease>>
    BY <1>10 DEF Reserve
  <2> QED BY <2>1
<1>11. ASSUME NEW t \in Thread, TurnedAway(t) PROVE HandsFit'
  BY <1>11 DEF TurnedAway
<1>12. ASSUME NEW t \in Thread, Enter(t) PROVE HandsFit'
  <2>1. /\ \A u \in Thread : u # t => call'[u] = call[u]
        /\ call[t].pc = "wait"
        /\ call'[t].pc \in {"spawn", "check", "take"}
        /\ call'[t].pc = "check" => call[t].job = "startup"
        /\ call'[t].job = call[t].job /\ call'[t].arg = call[t].arg
        /\ call'[t].hand = call[t].hand
        /\ UNCHANGED <<agent, lease>>
    BY <1>12 DEF Enter, FirstInside
  <2> QED BY <2>1
<1>13. ASSUME NEW t \in Thread, EnterWrite(t) PROVE HandsFit'
  BY <1>13 DEF EnterWrite, Scoped
<1>14. ASSUME NEW t \in Thread, Forget(t) PROVE HandsFit'
  <2>1. /\ \A u \in Thread : u # t => call'[u] = call[u]
        /\ call[t].pc = "wait" /\ call'[t].pc = "tell"
        /\ call'[t].job = call[t].job /\ call'[t].arg = call[t].arg
        /\ call'[t].hand = call[t].hand
        /\ UNCHANGED <<agent, lease>>
    BY <1>14 DEF Forget
  <2> QED BY <2>1
<1>15. ASSUME NEW t \in Thread, CheckFinds(t) PROVE HandsFit'
  <2>1. /\ \A u \in Thread : u # t => call'[u] = call[u]
        /\ call[t].pc = "check"
        /\ \/ call'[t].pc \in {"deliver", "take"} /\ call'[t].job = call[t].job
              /\ call'[t].arg = call[t].arg /\ call'[t].hand = call[t].hand
           \/ call'[t].pc = "idle" /\ call'[t].hand = NoAgent /\ call'[t].job = "none"
        /\ UNCHANGED <<agent, lease>>
    BY <1>15 DEF CheckFinds, Leave
  <2> QED BY <2>1
<1>16. ASSUME NEW t \in Thread, CheckFindsLost(t) PROVE HandsFit'
  BY <1>16 DEF CheckFindsLost, Seizes
<1>17. ASSUME NEW t \in Thread, Take(t) PROVE HandsFit'
  <2>1. /\ \A u \in Thread : u # t => call'[u] = call[u]
        /\ UNCHANGED <<agent, lease>> /\ slot[Home(t)] \in Agent \cup {NoAgent}
    BY <1>17, Fields DEF Take
  <2>2. CASE Done(t) BY <2>1, <2>2
  <2>3. CASE Hold(t, IF slot[Home(t)] = NoAgent THEN "spawn" ELSE "drain", slot[Home(t)])
    BY <2>1, <2>3
  <2> QED BY <1>17, <2>2, <2>3 DEF Take
<1>18. ASSUME NEW t \in Thread, TakeStops(t) PROVE HandsFit'
  BY <1>18 DEF TakeStops
<1>19. ASSUME NEW t \in Thread, Drained(t) PROVE HandsFit'
  <2>1. \A u \in Thread : call[u].pc # "launch"
    BY <1>19 DEF Drained
  <2>2. agent' = agent /\ call[t].pc = "drain" /\ agent[call[t].hand].life = "dead"
    BY <1>19, Fields DEF Drained
  <2>3. CASE Done(t) BY <2>1, <2>2, <2>3
  <2>4. CASE Hold(t, "spawn", IF call[t].job = "prepare" THEN call[t].hand ELSE NoAgent)
    BY <2>1, <2>2, <2>4
  <2> QED BY <1>19, <2>3, <2>4 DEF Drained
<1>20. ASSUME NEW t \in Thread, DrainFails(t) PROVE HandsFit'
  BY <1>20 DEF DrainFails
<1>21. ASSUME NEW t \in Thread, PutBack(t) PROVE HandsFit'
  BY <1>21 DEF PutBack
<1>22. ASSUME NEW t \in Thread, LockLease(t) PROVE HandsFit'
  <2>1. /\ \A u \in Thread : u # t => call'[u] = call[u]
        /\ call[t].pc = "spawn" /\ call'[t].pc = "judge"
        /\ call'[t].job = call[t].job /\ call'[t].arg = call[t].arg
        /\ call'[t].hand = call[t].hand
        /\ UNCHANGED <<agent, lease>>
    BY <1>22 DEF LockLease
  <2> QED BY <2>1
<1>23. ASSUME NEW t \in Thread, SpawnRefused(t) PROVE HandsFit'
  BY <1>23 DEF SpawnRefused
<1>24. ASSUME NEW t \in Thread, ReapOrphan(t) PROVE HandsFit'
  BY <1>24 DEF ReapOrphan, Orphan
<1>25. ASSUME NEW t \in Thread, Blocked(t) PROVE HandsFit'
  <2>1. /\ \A u \in Thread : u # t => call'[u] = call[u]
        /\ call[t].pc = "judge" /\ call'[t].pc \in {"back", "fail"}
        /\ call'[t].pc = "back" <=> call[t].job = "prepare" /\ call[t].hand # NoAgent
        /\ call'[t].job = call[t].job /\ call'[t].arg = call[t].arg
        /\ call'[t].hand = call[t].hand
        /\ UNCHANGED <<agent, lease>>
    BY <1>25 DEF Blocked
  <2> QED BY <2>1, Fields
<1>26. ASSUME NEW t \in Thread, Clear(t) PROVE HandsFit'
  BY <1>26 DEF Clear
<1>27. ASSUME NEW t \in Thread, Prepare(t) PROVE HandsFit'
  BY <1>27 DEF Prepare, Leave
<1>28. ASSUME NEW t \in Thread, Launch(t) PROVE HandsFit'
  BY <1>28 DEF Launch
<1>29. ASSUME NEW t \in Thread, LaunchFails(t) PROVE HandsFit'
  BY <1>29 DEF LaunchFails
<1>30. ASSUME NEW t \in Thread, Record(t) PROVE HandsFit'
  BY <1>30 DEF Record
<1>31. ASSUME NEW t \in Thread, Handshake(t) PROVE HandsFit'
  BY <1>31 DEF Handshake
<1>32. ASSUME NEW t \in Thread, Abort(t) PROVE HandsFit'
  BY <1>32 DEF Abort
<1>33. ASSUME NEW t \in Thread, Publish(t) PROVE HandsFit'
  BY <1>33 DEF Publish, Leave
<1>34. ASSUME NEW t \in Thread, Replay(t) PROVE HandsFit'
  <2>1. /\ \A u \in Thread : u # t => call'[u] = call[u]
        /\ UNCHANGED <<agent, slot, lease>> /\ call[t].pc = "replay"
        /\ \/ /\ call'[t].pc \in {"send", "take", "deliver", "mark"}
              /\ call'[t].hand = call[t].hand /\ call'[t].arg = call[t].arg
              /\ call'[t].job \in {call[t].job, "resend", "withdraw"}
              /\ call'[t].pc = "deliver" => call'[t].job = "startup"
           \/ call'[t].pc = "idle" /\ call'[t].hand = NoAgent /\ call'[t].job = "none"
    BY <1>34 DEF Replay
  <2> QED BY <2>1
<1>35. ASSUME NEW t \in Thread, Deliver(t) PROVE HandsFit'
  BY <1>35 DEF Deliver, Reached, Sent, Leave
<1>36. ASSUME NEW t \in Thread, Mark(t) PROVE HandsFit'
  BY <1>36 DEF Mark, Reached, Leave
<1>37. ASSUME NEW t \in Thread, Fail(t) PROVE HandsFit'
  BY <1>37 DEF Fail, Leave
<1>38. ASSUME NEW t \in Thread, NEW j \in PageJob, NEW x \in Adk \cup {NoAdk}, Call(t, j, x)
      PROVE HandsFit'
  <2>1. /\ \A u \in Thread : u # t => call'[u] = call[u]
        /\ call'[t].pc \in {"send", "seize", "wait"} /\ call'[t].hand = NoAgent
        /\ call'[t].job = "startup" => call'[t].arg \in Adk
        /\ UNCHANGED <<agent, lease>>
    BY <1>38, Fields DEF Call, FirstPc, PageJob, Calls
  <2> QED BY <2>1
<1>39. ASSUME NEW s \in Shell, Boot(s) PROVE HandsFit'
  BY <1>39 DEF Boot
<1>40. ASSUME NEW s \in Shell, Crash(s) PROVE HandsFit'
  <2>1. /\ \A u \in Thread : \/ call'[u] = call[u]
                               \/ /\ call'[u].pc = "idle" /\ call'[u].hand = NoAgent
                                  /\ call'[u].job = "none"
        /\ \A a \in Agent : agent'[a].life = agent[a].life
        /\ lease' = lease
    BY <1>40 DEF Crash, Down, Processes
  <2> SUFFICES ASSUME NEW u \in Thread PROVE Fit(u)' OBVIOUS
  <2>2. CASE call'[u] = call[u] BY <2>1, <2>2, Fields, Fit(u)
  <2>3. CASE call'[u] # call[u] BY <2>1, <2>3
  <2> QED BY <2>2, <2>3
<1>41. ASSUME NEW s \in Shell, CancelRelaunch(s) PROVE HandsFit'
  BY <1>41 DEF CancelRelaunch
<1>42. ASSUME NEW s \in Shell, CoolDown(s) PROVE HandsFit'
  BY <1>42 DEF CoolDown
<1>43. ASSUME NEW s \in Shell, NEW x \in Adk, Store(s, x) PROVE HandsFit'
  BY <1>43 DEF Store
<1>44. ASSUME NEW s \in Shell, NEW a \in Agent, Reaper(s, a) PROVE HandsFit'
  BY <1>44 DEF Reaper
<1>45. ASSUME NEW a \in Agent, AgentEnds(a) PROVE HandsFit'
  BY <1>45 DEF AgentEnds
<1> HIDE DEF Inv, TypeOK, Alive, At, LeaseFree, disk, locks, flags, NoCall,
       LocksAreHeld, Leased, HandsFit, Fit, SlotsWait, Birth
<1> QED
  BY <1>1, <1>2, <1>3, <1>4, <1>5, <1>6, <1>7, <1>8, <1>9, <1>10, <1>11, <1>12,
     <1>13, <1>14, <1>15, <1>16, <1>17, <1>18, <1>19, <1>20, <1>21, <1>22, <1>23,
     <1>24, <1>25, <1>26, <1>27, <1>28, <1>29, <1>30, <1>31, <1>32, <1>33, <1>34,
     <1>35, <1>36, <1>37, <1>38, <1>39, <1>40, <1>41, <1>42, <1>43, <1>44, <1>45
     DEF Next, Step

\* No step fills a slot that somebody emptied under the lifecycle lock.
LEMMA NextSlots == Inv /\ [Next]_vars => SlotsWait'
<1> SUFFICES ASSUME Inv, [Next]_vars PROVE SlotsWait' OBVIOUS
<1> USE AgentAssumption, Threads, Moves DEF Inv, TypeOK, Alive, At, SlotFree, disk, locks, flags, NoCall,
       LocksAreHeld, Inside, Acting, Leased, HandsFit, Fit, SlotsWait, Birth
<1>1. CASE UNCHANGED vars
  BY <1>1 DEF vars
<1>2. ASSUME NEW t \in Thread, Tell(t) PROVE SlotsWait'
  BY <1>2 DEF Tell
<1>3. ASSUME NEW t \in Thread, SendStops(t) PROVE SlotsWait'
  BY <1>3 DEF SendStops
<1>4. ASSUME NEW t \in Thread, SendFindsNone(t) PROVE SlotsWait'
  BY <1>4 DEF SendFindsNone
<1>5. ASSUME NEW t \in Thread, SendFindsLost(t) PROVE SlotsWait'
  BY <1>5 DEF SendFindsLost, Seizes
<1>6. ASSUME NEW t \in Thread, SeizeForGood(t) PROVE SlotsWait'
  BY <1>6 DEF SeizeForGood, Seizes
<1>7. ASSUME NEW t \in Thread, SeizeNothing(t) PROVE SlotsWait'
  <2>1. /\ \A u \in Thread : u # t => call'[u] = call[u]
        /\ UNCHANGED <<agent, slot>> /\ call'[t].pc \in {"exit", "idle"}
    BY <1>7 DEF SeizeNothing
  <2> QED BY <2>1
<1>8. ASSUME NEW t \in Thread, DropEnds(t) PROVE SlotsWait'
  BY <1>8 DEF DropEnds, AfterDrop
<1>9. ASSUME NEW t \in Thread, Exit(t) PROVE SlotsWait'
  BY <1>9 DEF Exit, Down
<1>10. ASSUME NEW t \in Thread, Reserve(t) PROVE SlotsWait'
  BY <1>10 DEF Reserve
<1>11. ASSUME NEW t \in Thread, TurnedAway(t) PROVE SlotsWait'
  BY <1>11 DEF TurnedAway
<1>12. ASSUME NEW t \in Thread, Enter(t) PROVE SlotsWait'
  BY <1>12 DEF Enter, FirstInside
<1>13. ASSUME NEW t \in Thread, EnterWrite(t) PROVE SlotsWait'
  BY <1>13 DEF EnterWrite, Scoped
<1>14. ASSUME NEW t \in Thread, Forget(t) PROVE SlotsWait'
  BY <1>14 DEF Forget
<1>15. ASSUME NEW t \in Thread, CheckFinds(t) PROVE SlotsWait'
  BY <1>15 DEF CheckFinds, Leave
<1>16. ASSUME NEW t \in Thread, CheckFindsLost(t) PROVE SlotsWait'
  BY <1>16 DEF CheckFindsLost, Seizes
<1>17. ASSUME NEW t \in Thread, Take(t) PROVE SlotsWait'
  BY <1>17 DEF Take, Leave
<1>18. ASSUME NEW t \in Thread, TakeStops(t) PROVE SlotsWait'
  BY <1>18 DEF TakeStops
<1>19. ASSUME NEW t \in Thread, Drained(t) PROVE SlotsWait'
  BY <1>19 DEF Drained, Leave
<1>20. ASSUME NEW t \in Thread, DrainFails(t) PROVE SlotsWait'
  BY <1>20 DEF DrainFails
<1>21. ASSUME NEW t \in Thread, PutBack(t) PROVE SlotsWait'
  BY <1>21 DEF PutBack
<1>22. ASSUME NEW t \in Thread, LockLease(t) PROVE SlotsWait'
  BY <1>22 DEF LockLease
<1>23. ASSUME NEW t \in Thread, SpawnRefused(t) PROVE SlotsWait'
  BY <1>23 DEF SpawnRefused
<1>24. ASSUME NEW t \in Thread, ReapOrphan(t) PROVE SlotsWait'
  BY <1>24 DEF ReapOrphan, Orphan
<1>25. ASSUME NEW t \in Thread, Blocked(t) PROVE SlotsWait'
  BY <1>25 DEF Blocked, Orphan
<1>26. ASSUME NEW t \in Thread, Clear(t) PROVE SlotsWait'
  BY <1>26 DEF Clear
<1>27. ASSUME NEW t \in Thread, Prepare(t) PROVE SlotsWait'
  BY <1>27 DEF Prepare, Leave
<1>28. ASSUME NEW t \in Thread, Launch(t) PROVE SlotsWait'
  BY <1>28 DEF Launch
<1>29. ASSUME NEW t \in Thread, LaunchFails(t) PROVE SlotsWait'
  BY <1>29 DEF LaunchFails
<1>30. ASSUME NEW t \in Thread, Record(t) PROVE SlotsWait'
  BY <1>30 DEF Record
<1>31. ASSUME NEW t \in Thread, Handshake(t) PROVE SlotsWait'
  BY <1>31 DEF Handshake
<1>32. ASSUME NEW t \in Thread, Abort(t) PROVE SlotsWait'
  BY <1>32 DEF Abort
<1>33. ASSUME NEW t \in Thread, Publish(t) PROVE SlotsWait'
  BY <1>33 DEF Publish, Leave
<1>34. ASSUME NEW t \in Thread, Replay(t) PROVE SlotsWait'
  <2>1. /\ \A u \in Thread : u # t => call'[u] = call[u]
        /\ UNCHANGED <<agent, slot, lease>> /\ call[t].pc = "replay"
        /\ \/ /\ call'[t].pc \in {"send", "take", "deliver", "mark"}
              /\ call'[t].hand = call[t].hand /\ call'[t].arg = call[t].arg
              /\ call'[t].job \in {call[t].job, "resend", "withdraw"}
              /\ call'[t].pc = "deliver" => call'[t].job = "startup"
           \/ call'[t].pc = "idle" /\ call'[t].hand = NoAgent /\ call'[t].job = "none"
    BY <1>34 DEF Replay
  <2> QED BY <2>1
<1>35. ASSUME NEW t \in Thread, Deliver(t) PROVE SlotsWait'
  BY <1>35 DEF Deliver, Reached, Sent, Leave
<1>36. ASSUME NEW t \in Thread, Mark(t) PROVE SlotsWait'
  BY <1>36 DEF Mark, Reached, Leave
<1>37. ASSUME NEW t \in Thread, Fail(t) PROVE SlotsWait'
  BY <1>37 DEF Fail, Leave
<1>38. ASSUME NEW t \in Thread, NEW j \in PageJob, NEW x \in Adk \cup {NoAdk}, Call(t, j, x)
      PROVE SlotsWait'
  BY <1>38 DEF Call, PageJob, FirstPc, Refused
<1>39. ASSUME NEW s \in Shell, Boot(s) PROVE SlotsWait'
  BY <1>39 DEF Boot
<1>40. ASSUME NEW s \in Shell, Crash(s) PROVE SlotsWait'
  BY <1>40 DEF Crash, Down
<1>41. ASSUME NEW s \in Shell, CancelRelaunch(s) PROVE SlotsWait'
  BY <1>41 DEF CancelRelaunch
<1>42. ASSUME NEW s \in Shell, CoolDown(s) PROVE SlotsWait'
  BY <1>42 DEF CoolDown
<1>43. ASSUME NEW s \in Shell, NEW x \in Adk, Store(s, x) PROVE SlotsWait'
  BY <1>43 DEF Store
<1>44. ASSUME NEW s \in Shell, NEW a \in Agent, Reaper(s, a) PROVE SlotsWait'
  BY <1>44 DEF Reaper
<1>45. ASSUME NEW a \in Agent, AgentEnds(a) PROVE SlotsWait'
  BY <1>45 DEF AgentEnds
<1> HIDE DEF Inv, TypeOK, Alive, At, SlotFree, disk, locks, flags, NoCall,
       LocksAreHeld, Inside, Acting, Leased, HandsFit, Fit, SlotsWait, Birth
<1> QED
  BY <1>1, <1>2, <1>3, <1>4, <1>5, <1>6, <1>7, <1>8, <1>9, <1>10, <1>11, <1>12,
     <1>13, <1>14, <1>15, <1>16, <1>17, <1>18, <1>19, <1>20, <1>21, <1>22, <1>23,
     <1>24, <1>25, <1>26, <1>27, <1>28, <1>29, <1>30, <1>31, <1>32, <1>33, <1>34,
     <1>35, <1>36, <1>37, <1>38, <1>39, <1>40, <1>41, <1>42, <1>43, <1>44, <1>45
     DEF Next, Step

\* One relaunch at a time, and nobody goes in behind it.
LEMMA NextRelaunches == Inv /\ [Next]_vars => Relaunches'
<1> SUFFICES ASSUME Inv, [Next]_vars PROVE Relaunches' OBVIOUS
<1> USE AgentAssumption, Threads, Moves DEF Inv, TypeOK, At, disk, locks, flags, NoCall,
       LocksAreHeld, Inside, Acting, Relaunches
<1>1. CASE UNCHANGED vars
  BY <1>1 DEF vars
<1>2. ASSUME NEW t \in Thread, Tell(t) PROVE Relaunches'
  BY <1>2 DEF Tell
<1>3. ASSUME NEW t \in Thread, SendStops(t) PROVE Relaunches'
  BY <1>3 DEF SendStops
<1>4. ASSUME NEW t \in Thread, SendFindsNone(t) PROVE Relaunches'
  BY <1>4 DEF SendFindsNone
<1>5. ASSUME NEW t \in Thread, SendFindsLost(t) PROVE Relaunches'
  BY <1>5 DEF SendFindsLost, Seizes
<1>6. ASSUME NEW t \in Thread, SeizeForGood(t) PROVE Relaunches'
  BY <1>6 DEF SeizeForGood, Seizes
<1>7. ASSUME NEW t \in Thread, SeizeNothing(t) PROVE Relaunches'
  BY <1>7 DEF SeizeNothing
<1>8. ASSUME NEW t \in Thread, DropEnds(t) PROVE Relaunches'
  BY <1>8 DEF DropEnds, AfterDrop
<1>9. ASSUME NEW t \in Thread, Exit(t) PROVE Relaunches'
  BY <1>9 DEF Exit, Down
<1>10. ASSUME NEW t \in Thread, Reserve(t) PROVE Relaunches'
  BY <1>10 DEF Reserve
<1>11. ASSUME NEW t \in Thread, TurnedAway(t) PROVE Relaunches'
  <2>1. /\ \A u \in Thread : u # t => call'[u] = call[u]
        /\ UNCHANGED <<pending, prepared, lifecycle>>
        /\ call[t].pc \in {"wait"} /\ call'[t].pc = "idle" /\ call'[t].job = "none"
    BY <1>11 DEF TurnedAway
  <2> QED BY <2>1
<1>12. ASSUME NEW t \in Thread, Enter(t) PROVE Relaunches'
  <2>1. /\ \A u \in Thread : u # t => call'[u] = call[u]
        /\ UNCHANGED <<pending, prepared>> /\ call'[t].job = call[t].job
        /\ call'[t].pc \in {"spawn", "check", "take"}
        /\ pending[Home(t)] => call[t].job \in {"prepare", "withdraw"} /\ call'[t].pc = "take"
    BY <1>12 DEF Enter, FirstInside
  <2> QED BY <2>1
<1>13. ASSUME NEW t \in Thread, EnterWrite(t) PROVE Relaunches'
  BY <1>13 DEF EnterWrite, Scoped
<1>14. ASSUME NEW t \in Thread, Forget(t) PROVE Relaunches'
  BY <1>14 DEF Forget
<1>15. ASSUME NEW t \in Thread, CheckFinds(t) PROVE Relaunches'
  BY <1>15 DEF CheckFinds, Leave
<1>16. ASSUME NEW t \in Thread, CheckFindsLost(t) PROVE Relaunches'
  BY <1>16 DEF CheckFindsLost, Seizes
<1>17. ASSUME NEW t \in Thread, Take(t) PROVE Relaunches'
  BY <1>17 DEF Take, Leave
<1>18. ASSUME NEW t \in Thread, TakeStops(t) PROVE Relaunches'
  BY <1>18 DEF TakeStops
<1>19. ASSUME NEW t \in Thread, Drained(t) PROVE Relaunches'
  BY <1>19 DEF Drained, Leave
<1>20. ASSUME NEW t \in Thread, DrainFails(t) PROVE Relaunches'
  BY <1>20 DEF DrainFails
<1>21. ASSUME NEW t \in Thread, PutBack(t) PROVE Relaunches'
  BY <1>21 DEF PutBack
<1>22. ASSUME NEW t \in Thread, LockLease(t) PROVE Relaunches'
  BY <1>22 DEF LockLease
<1>23. ASSUME NEW t \in Thread, SpawnRefused(t) PROVE Relaunches'
  <2>1. /\ \A u \in Thread : u # t => call'[u] = call[u]
        /\ UNCHANGED <<pending, prepared, lifecycle>>
        /\ call[t].pc \in {"spawn"} /\ call'[t].pc = "fail" /\ call'[t].job = call[t].job /\ call[t].job # "prepare"
    BY <1>23 DEF SpawnRefused
  <2> QED BY <2>1
<1>24. ASSUME NEW t \in Thread, ReapOrphan(t) PROVE Relaunches'
  BY <1>24 DEF ReapOrphan, Orphan
<1>25. ASSUME NEW t \in Thread, Blocked(t) PROVE Relaunches'
  BY <1>25 DEF Blocked, Orphan
<1>26. ASSUME NEW t \in Thread, Clear(t) PROVE Relaunches'
  BY <1>26 DEF Clear
<1>27. ASSUME NEW t \in Thread, Prepare(t) PROVE Relaunches'
  BY <1>27 DEF Prepare, Leave
<1>28. ASSUME NEW t \in Thread, Launch(t) PROVE Relaunches'
  BY <1>28 DEF Launch
<1>29. ASSUME NEW t \in Thread, LaunchFails(t) PROVE Relaunches'
  BY <1>29 DEF LaunchFails
<1>30. ASSUME NEW t \in Thread, Record(t) PROVE Relaunches'
  BY <1>30 DEF Record
<1>31. ASSUME NEW t \in Thread, Handshake(t) PROVE Relaunches'
  BY <1>31 DEF Handshake
<1>32. ASSUME NEW t \in Thread, Abort(t) PROVE Relaunches'
  BY <1>32 DEF Abort
<1>33. ASSUME NEW t \in Thread, Publish(t) PROVE Relaunches'
  BY <1>33 DEF Publish, Leave
<1>34. ASSUME NEW t \in Thread, Replay(t) PROVE Relaunches'
  BY <1>34 DEF Replay, Sent, Leave
<1>35. ASSUME NEW t \in Thread, Deliver(t) PROVE Relaunches'
  BY <1>35 DEF Deliver, Reached, Sent, Leave
<1>36. ASSUME NEW t \in Thread, Mark(t) PROVE Relaunches'
  BY <1>36 DEF Mark, Reached, Leave
<1>37. ASSUME NEW t \in Thread, Fail(t) PROVE Relaunches'
  <2>1. /\ \A u \in Thread : u # t => call'[u] = call[u]
        /\ prepared' = prepared /\ call[t].pc = "fail"
        /\ call'[t].pc = "idle" /\ call'[t].job = "none"
        /\ pending' = [pending EXCEPT ![Home(t)] = @ /\ call[t].job # "prepare"]
    BY <1>37 DEF Fail
  <2> QED BY <2>1
<1>38. ASSUME NEW t \in Thread, NEW j \in PageJob, NEW x \in Adk \cup {NoAdk}, Call(t, j, x)
      PROVE Relaunches'
  BY <1>38 DEF Call, PageJob, FirstPc, Refused
<1>39. ASSUME NEW s \in Shell, Boot(s) PROVE Relaunches'
  BY <1>39 DEF Boot
<1>40. ASSUME NEW s \in Shell, Crash(s) PROVE Relaunches'
  BY <1>40 DEF Crash, Down
<1>41. ASSUME NEW s \in Shell, CancelRelaunch(s) PROVE Relaunches'
  BY <1>41 DEF CancelRelaunch
<1>42. ASSUME NEW s \in Shell, CoolDown(s) PROVE Relaunches'
  BY <1>42 DEF CoolDown
<1>43. ASSUME NEW s \in Shell, NEW x \in Adk, Store(s, x) PROVE Relaunches'
  BY <1>43 DEF Store
<1>44. ASSUME NEW s \in Shell, NEW a \in Agent, Reaper(s, a) PROVE Relaunches'
  BY <1>44 DEF Reaper
<1>45. ASSUME NEW a \in Agent, AgentEnds(a) PROVE Relaunches'
  BY <1>45 DEF AgentEnds
<1> HIDE DEF Inv, TypeOK, At, disk, locks, flags, NoCall,
       LocksAreHeld, Inside, Acting, Relaunches
<1> QED
  BY <1>1, <1>2, <1>3, <1>4, <1>5, <1>6, <1>7, <1>8, <1>9, <1>10, <1>11, <1>12,
     <1>13, <1>14, <1>15, <1>16, <1>17, <1>18, <1>19, <1>20, <1>21, <1>22, <1>23,
     <1>24, <1>25, <1>26, <1>27, <1>28, <1>29, <1>30, <1>31, <1>32, <1>33, <1>34,
     <1>35, <1>36, <1>37, <1>38, <1>39, <1>40, <1>41, <1>42, <1>43, <1>44, <1>45
     DEF Next, Step

\* No step starts an agent after the relaunch was prepared.
LEMMA NextQuiet == Inv /\ [Next]_vars => RelaunchIsQuiet'
<1> SUFFICES ASSUME Inv, [Next]_vars PROVE RelaunchIsQuiet' OBVIOUS
<1> USE AgentAssumption, Threads, Moves DEF Inv, TypeOK, Alive, At, disk, locks, flags,
       Inside, Acting, Leased, Relaunches, RelaunchIsQuiet
<1>1. CASE UNCHANGED vars
  BY <1>1 DEF vars
<1>2. ASSUME NEW t \in Thread, Tell(t) PROVE RelaunchIsQuiet'
  BY <1>2 DEF Tell
<1>3. ASSUME NEW t \in Thread, SendStops(t) PROVE RelaunchIsQuiet'
  BY <1>3 DEF SendStops
<1>4. ASSUME NEW t \in Thread, SendFindsNone(t) PROVE RelaunchIsQuiet'
  BY <1>4 DEF SendFindsNone
<1>5. ASSUME NEW t \in Thread, SendFindsLost(t) PROVE RelaunchIsQuiet'
  BY <1>5 DEF SendFindsLost, Seizes
<1>6. ASSUME NEW t \in Thread, SeizeForGood(t) PROVE RelaunchIsQuiet'
  BY <1>6 DEF SeizeForGood, Seizes
<1>7. ASSUME NEW t \in Thread, SeizeNothing(t) PROVE RelaunchIsQuiet'
  BY <1>7 DEF SeizeNothing
<1>8. ASSUME NEW t \in Thread, DropEnds(t) PROVE RelaunchIsQuiet'
  BY <1>8 DEF DropEnds, AfterDrop
<1>9. ASSUME NEW t \in Thread, Exit(t) PROVE RelaunchIsQuiet'
  BY <1>9 DEF Exit, Down
<1>10. ASSUME NEW t \in Thread, Reserve(t) PROVE RelaunchIsQuiet'
  BY <1>10 DEF Reserve
<1>11. ASSUME NEW t \in Thread, TurnedAway(t) PROVE RelaunchIsQuiet'
  BY <1>11 DEF TurnedAway
<1>12. ASSUME NEW t \in Thread, Enter(t) PROVE RelaunchIsQuiet'
  BY <1>12 DEF Enter, FirstInside
<1>13. ASSUME NEW t \in Thread, EnterWrite(t) PROVE RelaunchIsQuiet'
  BY <1>13 DEF EnterWrite, Scoped
<1>14. ASSUME NEW t \in Thread, Forget(t) PROVE RelaunchIsQuiet'
  BY <1>14 DEF Forget
<1>15. ASSUME NEW t \in Thread, CheckFinds(t) PROVE RelaunchIsQuiet'
  BY <1>15 DEF CheckFinds, Leave
<1>16. ASSUME NEW t \in Thread, CheckFindsLost(t) PROVE RelaunchIsQuiet'
  BY <1>16 DEF CheckFindsLost, Seizes
<1>17. ASSUME NEW t \in Thread, Take(t) PROVE RelaunchIsQuiet'
  BY <1>17 DEF Take, Leave
<1>18. ASSUME NEW t \in Thread, TakeStops(t) PROVE RelaunchIsQuiet'
  BY <1>18 DEF TakeStops
<1>19. ASSUME NEW t \in Thread, Drained(t) PROVE RelaunchIsQuiet'
  BY <1>19 DEF Drained, Leave
<1>20. ASSUME NEW t \in Thread, DrainFails(t) PROVE RelaunchIsQuiet'
  BY <1>20 DEF DrainFails
<1>21. ASSUME NEW t \in Thread, PutBack(t) PROVE RelaunchIsQuiet'
  BY <1>21 DEF PutBack
<1>22. ASSUME NEW t \in Thread, LockLease(t) PROVE RelaunchIsQuiet'
  BY <1>22 DEF LockLease
<1>23. ASSUME NEW t \in Thread, SpawnRefused(t) PROVE RelaunchIsQuiet'
  BY <1>23 DEF SpawnRefused
<1>24. ASSUME NEW t \in Thread, ReapOrphan(t) PROVE RelaunchIsQuiet'
  BY <1>24 DEF ReapOrphan, Orphan
<1>25. ASSUME NEW t \in Thread, Blocked(t) PROVE RelaunchIsQuiet'
  BY <1>25 DEF Blocked, Orphan
<1>26. ASSUME NEW t \in Thread, Clear(t) PROVE RelaunchIsQuiet'
  BY <1>26 DEF Clear
<1>27. ASSUME NEW t \in Thread, Prepare(t) PROVE RelaunchIsQuiet'
  BY <1>27 DEF Prepare, Leave
<1>28. ASSUME NEW t \in Thread, Launch(t) PROVE RelaunchIsQuiet'
  BY <1>28 DEF Launch
<1>29. ASSUME NEW t \in Thread, LaunchFails(t) PROVE RelaunchIsQuiet'
  BY <1>29 DEF LaunchFails
<1>30. ASSUME NEW t \in Thread, Record(t) PROVE RelaunchIsQuiet'
  BY <1>30 DEF Record
<1>31. ASSUME NEW t \in Thread, Handshake(t) PROVE RelaunchIsQuiet'
  BY <1>31 DEF Handshake
<1>32. ASSUME NEW t \in Thread, Abort(t) PROVE RelaunchIsQuiet'
  BY <1>32 DEF Abort
<1>33. ASSUME NEW t \in Thread, Publish(t) PROVE RelaunchIsQuiet'
  BY <1>33 DEF Publish, Leave
<1>34. ASSUME NEW t \in Thread, Replay(t) PROVE RelaunchIsQuiet'
  BY <1>34 DEF Replay, Sent, Leave
<1>35. ASSUME NEW t \in Thread, Deliver(t) PROVE RelaunchIsQuiet'
  BY <1>35 DEF Deliver, Reached, Sent, Leave
<1>36. ASSUME NEW t \in Thread, Mark(t) PROVE RelaunchIsQuiet'
  BY <1>36 DEF Mark, Reached, Leave
<1>37. ASSUME NEW t \in Thread, Fail(t) PROVE RelaunchIsQuiet'
  BY <1>37 DEF Fail, Leave
<1>38. ASSUME NEW t \in Thread, NEW j \in PageJob, NEW x \in Adk \cup {NoAdk}, Call(t, j, x)
      PROVE RelaunchIsQuiet'
  BY <1>38 DEF Call, PageJob, FirstPc, Refused
<1>39. ASSUME NEW s \in Shell, Boot(s) PROVE RelaunchIsQuiet'
  BY <1>39 DEF Boot
<1>40. ASSUME NEW s \in Shell, Crash(s) PROVE RelaunchIsQuiet'
  BY <1>40 DEF Crash, Down
<1>41. ASSUME NEW s \in Shell, CancelRelaunch(s) PROVE RelaunchIsQuiet'
  BY <1>41 DEF CancelRelaunch
<1>42. ASSUME NEW s \in Shell, CoolDown(s) PROVE RelaunchIsQuiet'
  BY <1>42 DEF CoolDown
<1>43. ASSUME NEW s \in Shell, NEW x \in Adk, Store(s, x) PROVE RelaunchIsQuiet'
  BY <1>43 DEF Store
<1>44. ASSUME NEW s \in Shell, NEW a \in Agent, Reaper(s, a) PROVE RelaunchIsQuiet'
  BY <1>44 DEF Reaper
<1>45. ASSUME NEW a \in Agent, AgentEnds(a) PROVE RelaunchIsQuiet'
  BY <1>45 DEF AgentEnds
<1> HIDE DEF Inv, TypeOK, Alive, At, disk, locks, flags,
       Inside, Acting, Leased, Relaunches, RelaunchIsQuiet
<1> QED
  BY <1>1, <1>2, <1>3, <1>4, <1>5, <1>6, <1>7, <1>8, <1>9, <1>10, <1>11, <1>12,
     <1>13, <1>14, <1>15, <1>16, <1>17, <1>18, <1>19, <1>20, <1>21, <1>22, <1>23,
     <1>24, <1>25, <1>26, <1>27, <1>28, <1>29, <1>30, <1>31, <1>32, <1>33, <1>34,
     <1>35, <1>36, <1>37, <1>38, <1>39, <1>40, <1>41, <1>42, <1>43, <1>44, <1>45
     DEF Next, Step

\* A step that changes neither hands, slots and reapers nor a process loses none.
LEMMA NoneLostHere ==
    ASSUME NoneIsLost, \A u \in Thread : call'[u].hand = call[u].hand,
           UNCHANGED <<agent, slot, reaping>>
    PROVE  NoneIsLost'
BY DEF NoneIsLost, Held, Alive

\* Where killed processes end, no step loses the last hold on a living agent.
LEMMA NextNoneLost == ~Hangs /\ Inv /\ NoneIsLost /\ [Next]_vars => NoneIsLost'
<1> SUFFICES ASSUME ~Hangs, Inv, NoneIsLost, [Next]_vars PROVE NoneIsLost' OBVIOUS
<1> USE AgentAssumption, Threads, Moves DEF Inv, TypeOK, Alive, At, SlotFree, disk, locks, flags, NoCall,
       LocksAreHeld, HandsFit, Fit, SlotsWait, Leased, Birth, NoneIsLost, Held
<1>1. CASE UNCHANGED vars
  BY <1>1 DEF vars
<1>2. ASSUME NEW t \in Thread, Tell(t) PROVE NoneIsLost'
  <2>1. /\ \A u \in Thread : call'[u].hand = call[u].hand
        /\ UNCHANGED <<agent, slot, reaping>>
    BY <1>2 DEF Tell
  <2> QED BY ONLY NoneIsLost, <2>1, NoneLostHere
<1>3. ASSUME NEW t \in Thread, SendStops(t) PROVE NoneIsLost'
  <2>1. /\ \A u \in Thread : call'[u].hand = call[u].hand
        /\ UNCHANGED <<agent, slot, reaping>>
    BY <1>3 DEF SendStops
  <2> QED BY ONLY NoneIsLost, <2>1, NoneLostHere
<1>4. ASSUME NEW t \in Thread, SendFindsNone(t) PROVE NoneIsLost'
  <2>1. /\ \A u \in Thread : call'[u].hand = call[u].hand
        /\ UNCHANGED <<agent, slot, reaping>>
    BY <1>4 DEF SendFindsNone
  <2> QED BY ONLY NoneIsLost, <2>1, NoneLostHere
<1>5. ASSUME NEW t \in Thread, SendFindsLost(t) PROVE NoneIsLost'
  <2>1. /\ \A u \in Thread : u # t => call'[u] = call[u]
        /\ UNCHANGED <<agent, reaping>>
        /\ slot' = [slot EXCEPT ![Home(t)] = NoAgent] /\ call'[t].hand = slot[Home(t)]
        /\ call[t].hand = NoAgent
    BY <1>5 DEF SendFindsLost, Seizes
  <2> SUFFICES ASSUME NEW a \in Agent, Alive(a)', (agent[a].parent # NoShell)'
                PROVE  Held(a, agent[a].parent)'
    OBVIOUS
  <2>6. /\ Alive(a) /\ agent[a].parent \in Shell /\ agent' = agent
        /\ Held(a, agent[a].parent)
    BY <2>1, Fields
  <2>7. CASE slot[agent[a].parent] = a BY <2>1, <2>6, <2>7
  <2>8. CASE a \in reaping[agent[a].parent] BY <2>1, <2>6, <2>8
  <2>9. ASSUME NEW u \in Thread, Home(u) = agent[a].parent, call[u].hand = a PROVE Held(a, agent[a].parent)'
    BY <2>1, <2>6, <2>9
  <2> QED BY <2>6, <2>7, <2>8, <2>9
<1>6. ASSUME NEW t \in Thread, SeizeForGood(t) PROVE NoneIsLost'
  <2>1. /\ \A u \in Thread : u # t => call'[u] = call[u]
        /\ UNCHANGED <<agent, reaping>>
        /\ slot' = [slot EXCEPT ![Home(t)] = NoAgent] /\ call'[t].hand = slot[Home(t)]
        /\ call[t].hand = NoAgent
    BY <1>6 DEF SeizeForGood, Seizes
  <2> SUFFICES ASSUME NEW a \in Agent, Alive(a)', (agent[a].parent # NoShell)'
                PROVE  Held(a, agent[a].parent)'
    OBVIOUS
  <2>6. /\ Alive(a) /\ agent[a].parent \in Shell /\ agent' = agent
        /\ Held(a, agent[a].parent)
    BY <2>1, Fields
  <2>7. CASE slot[agent[a].parent] = a BY <2>1, <2>6, <2>7
  <2>8. CASE a \in reaping[agent[a].parent] BY <2>1, <2>6, <2>8
  <2>9. ASSUME NEW u \in Thread, Home(u) = agent[a].parent, call[u].hand = a PROVE Held(a, agent[a].parent)'
    BY <2>1, <2>6, <2>9
  <2> QED BY <2>6, <2>7, <2>8, <2>9
<1>7. ASSUME NEW t \in Thread, SeizeNothing(t) PROVE NoneIsLost'
  BY <1>7 DEF SeizeNothing
<1>8. ASSUME NEW t \in Thread, DropEnds(t) PROVE NoneIsLost'
  BY <1>8 DEF DropEnds, AfterDrop
<1>9. ASSUME NEW t \in Thread, Exit(t) PROVE NoneIsLost'
  BY <1>9 DEF Exit, Down
<1>10. ASSUME NEW t \in Thread, Reserve(t) PROVE NoneIsLost'
  <2>1. /\ \A u \in Thread : u # t => call'[u] = call[u]
        /\ UNCHANGED <<agent, slot, reaping>> /\ call[t].hand = NoAgent
    BY <1>10 DEF Reserve
  <2>2. call'[t].hand = NoAgent
    BY <1>10, <2>1 DEF Reserve
  <2> SUFFICES ASSUME NEW a \in Agent, Alive(a)', (agent[a].parent # NoShell)'
                PROVE  Held(a, agent[a].parent)'
    OBVIOUS
  <2>6. /\ Alive(a) /\ agent[a].parent \in Shell /\ agent' = agent
        /\ Held(a, agent[a].parent)
    BY <2>1, Fields
  <2>7. CASE slot[agent[a].parent] = a BY <2>1, <2>2, <2>6, <2>7
  <2>8. CASE a \in reaping[agent[a].parent] BY <2>1, <2>2, <2>6, <2>8
  <2>9. ASSUME NEW u \in Thread, Home(u) = agent[a].parent, call[u].hand = a PROVE Held(a, agent[a].parent)'
    BY <2>1, <2>2, <2>6, <2>9
  <2> QED BY <2>6, <2>7, <2>8, <2>9
<1>11. ASSUME NEW t \in Thread, TurnedAway(t) PROVE NoneIsLost'
  <2>1. /\ \A u \in Thread : call'[u].hand = call[u].hand
        /\ UNCHANGED <<agent, slot, reaping>>
    BY <1>11 DEF TurnedAway
  <2> QED BY ONLY NoneIsLost, <2>1, NoneLostHere
<1>12. ASSUME NEW t \in Thread, Enter(t) PROVE NoneIsLost'
  <2>1. /\ \A u \in Thread : call'[u].hand = call[u].hand
        /\ UNCHANGED <<agent, slot, reaping>>
    BY <1>12 DEF Enter
  <2> QED BY ONLY NoneIsLost, <2>1, NoneLostHere
<1>13. ASSUME NEW t \in Thread, EnterWrite(t) PROVE NoneIsLost'
  BY <1>13 DEF EnterWrite, Scoped
<1>14. ASSUME NEW t \in Thread, Forget(t) PROVE NoneIsLost'
  <2>1. /\ \A u \in Thread : call'[u].hand = call[u].hand
        /\ UNCHANGED <<agent, slot, reaping>>
    BY <1>14 DEF Forget
  <2> QED BY ONLY NoneIsLost, <2>1, NoneLostHere
<1>15. ASSUME NEW t \in Thread, CheckFinds(t) PROVE NoneIsLost'
  <2>1. /\ \A u \in Thread : call'[u].hand = call[u].hand
        /\ UNCHANGED <<agent, slot, reaping>>
    BY <1>15 DEF CheckFinds, Leave
  <2> QED BY ONLY NoneIsLost, <2>1, NoneLostHere
<1>16. ASSUME NEW t \in Thread, CheckFindsLost(t) PROVE NoneIsLost'
  <2>1. /\ \A u \in Thread : u # t => call'[u] = call[u]
        /\ UNCHANGED <<agent, reaping>>
        /\ slot' = [slot EXCEPT ![Home(t)] = NoAgent] /\ call'[t].hand = slot[Home(t)]
        /\ call[t].hand = NoAgent
    BY <1>16 DEF CheckFindsLost, Seizes
  <2> SUFFICES ASSUME NEW a \in Agent, Alive(a)', (agent[a].parent # NoShell)'
                PROVE  Held(a, agent[a].parent)'
    OBVIOUS
  <2>6. /\ Alive(a) /\ agent[a].parent \in Shell /\ agent' = agent
        /\ Held(a, agent[a].parent)
    BY <2>1, Fields
  <2>7. CASE slot[agent[a].parent] = a BY <2>1, <2>6, <2>7
  <2>8. CASE a \in reaping[agent[a].parent] BY <2>1, <2>6, <2>8
  <2>9. ASSUME NEW u \in Thread, Home(u) = agent[a].parent, call[u].hand = a PROVE Held(a, agent[a].parent)'
    BY <2>1, <2>6, <2>9
  <2> QED BY <2>6, <2>7, <2>8, <2>9
<1>17. ASSUME NEW t \in Thread, Take(t) PROVE NoneIsLost'
  <2>1. /\ \A u \in Thread : u # t => call'[u] = call[u]
        /\ UNCHANGED <<agent, reaping>> /\ call[t].hand = NoAgent
        /\ slot' = [slot EXCEPT ![Home(t)] = NoAgent]
    BY <1>17 DEF Take
  <2>2. slot[Home(t)] # NoAgent => call'[t].hand = slot[Home(t)]
    BY <1>17 DEF Take
  <2> SUFFICES ASSUME NEW a \in Agent, Alive(a)', (agent[a].parent # NoShell)'
                PROVE  Held(a, agent[a].parent)'
    OBVIOUS
  <2>6. /\ Alive(a) /\ agent[a].parent \in Shell /\ agent' = agent
        /\ Held(a, agent[a].parent)
    BY <2>1, Fields
  <2>7. CASE slot[agent[a].parent] = a BY <2>1, <2>2, <2>6, <2>7
  <2>8. CASE a \in reaping[agent[a].parent] BY <2>1, <2>2, <2>6, <2>8
  <2>9. ASSUME NEW u \in Thread, Home(u) = agent[a].parent, call[u].hand = a PROVE Held(a, agent[a].parent)'
    BY <2>1, <2>2, <2>6, <2>9
  <2> QED BY <2>6, <2>7, <2>8, <2>9
<1>18. ASSUME NEW t \in Thread, TakeStops(t) PROVE NoneIsLost'
  <2>1. /\ \A u \in Thread : call'[u].hand = call[u].hand
        /\ UNCHANGED <<agent, slot, reaping>>
    BY <1>18 DEF TakeStops
  <2> QED BY ONLY NoneIsLost, <2>1, NoneLostHere
<1>19. ASSUME NEW t \in Thread, Drained(t) PROVE NoneIsLost'
  BY <1>19 DEF Drained, Leave
<1>20. ASSUME NEW t \in Thread, DrainFails(t) PROVE NoneIsLost'
  <2>1. /\ \A u \in Thread : call'[u].hand = call[u].hand
        /\ UNCHANGED <<agent, slot, reaping>>
    BY <1>20 DEF DrainFails
  <2> QED BY ONLY NoneIsLost, <2>1, NoneLostHere
<1>21. ASSUME NEW t \in Thread, PutBack(t) PROVE NoneIsLost'
  <2>1. /\ \A u \in Thread : u # t => call'[u] = call[u]
        /\ UNCHANGED <<agent, reaping>>
        /\ slot' = [slot EXCEPT ![Home(t)] = call[t].hand] /\ slot[Home(t)] = NoAgent
    BY <1>21 DEF PutBack
  <2> SUFFICES ASSUME NEW a \in Agent, Alive(a)', (agent[a].parent # NoShell)'
                PROVE  Held(a, agent[a].parent)'
    OBVIOUS
  <2>6. /\ Alive(a) /\ agent[a].parent \in Shell /\ agent' = agent
        /\ Held(a, agent[a].parent)
    BY <2>1, Fields
  <2>7. CASE slot[agent[a].parent] = a BY <2>1, <2>6, <2>7
  <2>8. CASE a \in reaping[agent[a].parent] BY <2>1, <2>6, <2>8
  <2>9. ASSUME NEW u \in Thread, Home(u) = agent[a].parent, call[u].hand = a PROVE Held(a, agent[a].parent)'
    BY <2>1, <2>6, <2>9
  <2> QED BY <2>6, <2>7, <2>8, <2>9
<1>22. ASSUME NEW t \in Thread, LockLease(t) PROVE NoneIsLost'
  <2>1. /\ \A u \in Thread : call'[u].hand = call[u].hand
        /\ UNCHANGED <<agent, slot, reaping>>
    BY <1>22 DEF LockLease
  <2> QED BY ONLY NoneIsLost, <2>1, NoneLostHere
<1>23. ASSUME NEW t \in Thread, SpawnRefused(t) PROVE NoneIsLost'
  <2>1. /\ \A u \in Thread : call'[u].hand = call[u].hand
        /\ UNCHANGED <<agent, slot, reaping>>
    BY <1>23 DEF SpawnRefused
  <2> QED BY ONLY NoneIsLost, <2>1, NoneLostHere
<1>24. ASSUME NEW t \in Thread, ReapOrphan(t) PROVE NoneIsLost'
  BY <1>24 DEF ReapOrphan, Orphan
<1>25. ASSUME NEW t \in Thread, Blocked(t) PROVE NoneIsLost'
  <2>1. /\ \A u \in Thread : call'[u].hand = call[u].hand
        /\ UNCHANGED <<agent, slot, reaping>>
    BY <1>25 DEF Blocked
  <2> QED BY ONLY NoneIsLost, <2>1, NoneLostHere
<1>26. ASSUME NEW t \in Thread, Clear(t) PROVE NoneIsLost'
  BY <1>26 DEF Clear
<1>27. ASSUME NEW t \in Thread, Prepare(t) PROVE NoneIsLost'
  BY <1>27 DEF Prepare, Leave
<1>28. ASSUME NEW t \in Thread, Launch(t) PROVE NoneIsLost'
  BY <1>28 DEF Launch
<1>29. ASSUME NEW t \in Thread, LaunchFails(t) PROVE NoneIsLost'
  BY <1>29 DEF LaunchFails
<1>30. ASSUME NEW t \in Thread, Record(t) PROVE NoneIsLost'
  <2>1. /\ \A u \in Thread : call'[u].hand = call[u].hand
        /\ UNCHANGED <<agent, slot, reaping>>
    BY <1>30 DEF Record
  <2> QED BY ONLY NoneIsLost, <2>1, NoneLostHere
<1>31. ASSUME NEW t \in Thread, Handshake(t) PROVE NoneIsLost'
  <2>1. /\ \A u \in Thread : call'[u].hand = call[u].hand
        /\ UNCHANGED <<agent, slot, reaping>>
    BY <1>31 DEF Handshake
  <2> QED BY ONLY NoneIsLost, <2>1, NoneLostHere
<1>32. ASSUME NEW t \in Thread, Abort(t) PROVE NoneIsLost'
  <2>1. /\ \A u \in Thread : u # t => call'[u] = call[u]
        /\ UNCHANGED <<agent, slot>> /\ ~Alive(call[t].hand)
        /\ \A s \in Shell : reaping[s] \subseteq reaping'[s]
    BY <1>32 DEF Abort
  <2> SUFFICES ASSUME NEW a \in Agent, Alive(a)', (agent[a].parent # NoShell)'
                PROVE  Held(a, agent[a].parent)'
    OBVIOUS
  <2>6. /\ Alive(a) /\ agent[a].parent \in Shell /\ agent' = agent
        /\ Held(a, agent[a].parent)
    BY <2>1, Fields
  <2>7. CASE slot[agent[a].parent] = a BY <2>1, <2>6, <2>7
  <2>8. CASE a \in reaping[agent[a].parent] BY <2>1, <2>6, <2>8
  <2>9. ASSUME NEW u \in Thread, Home(u) = agent[a].parent, call[u].hand = a PROVE Held(a, agent[a].parent)'
    BY <2>1, <2>6, <2>9
  <2> QED BY <2>6, <2>7, <2>8, <2>9
<1>33. ASSUME NEW t \in Thread, Publish(t) PROVE NoneIsLost'
  <2>1. /\ \A u \in Thread : u # t => call'[u] = call[u]
        /\ UNCHANGED <<agent, reaping>>
        /\ slot' = [slot EXCEPT ![Home(t)] = call[t].hand]
    BY <1>33 DEF Publish
  <2>2. \A a \in Agent : Alive(a) /\ agent[a].parent = Home(t) => a = call[t].hand
    BY <1>33 DEF Publish
  <2> SUFFICES ASSUME NEW a \in Agent, Alive(a)', (agent[a].parent # NoShell)'
                PROVE  Held(a, agent[a].parent)'
    OBVIOUS
  <2>6. /\ Alive(a) /\ agent[a].parent \in Shell /\ agent' = agent
        /\ Held(a, agent[a].parent)
    BY <2>1, Fields
  <2>7. CASE slot[agent[a].parent] = a BY <2>1, <2>2, <2>6, <2>7
  <2>8. CASE a \in reaping[agent[a].parent] BY <2>1, <2>2, <2>6, <2>8
  <2>9. ASSUME NEW u \in Thread, Home(u) = agent[a].parent, call[u].hand = a PROVE Held(a, agent[a].parent)'
    BY <2>1, <2>2, <2>6, <2>9
  <2> QED BY <2>6, <2>7, <2>8, <2>9
<1>34. ASSUME NEW t \in Thread, Replay(t) PROVE NoneIsLost'
  <2>1. /\ \A u \in Thread : call'[u].hand = call[u].hand
        /\ UNCHANGED <<agent, slot, reaping>>
    BY <1>34 DEF Replay, Leave
  <2> QED BY ONLY NoneIsLost, <2>1, NoneLostHere
<1>35. ASSUME NEW t \in Thread, Deliver(t) PROVE NoneIsLost'
  <2>1. /\ \A u \in Thread : call'[u].hand = call[u].hand
        /\ UNCHANGED <<agent, slot, reaping>>
    BY <1>35 DEF Deliver, Leave
  <2> QED BY ONLY NoneIsLost, <2>1, NoneLostHere
<1>36. ASSUME NEW t \in Thread, Mark(t) PROVE NoneIsLost'
  <2>1. /\ \A u \in Thread : call'[u].hand = call[u].hand
        /\ UNCHANGED <<agent, slot, reaping>>
    BY <1>36 DEF Mark, Leave
  <2> QED BY ONLY NoneIsLost, <2>1, NoneLostHere
<1>37. ASSUME NEW t \in Thread, Fail(t) PROVE NoneIsLost'
  <2>1. /\ \A u \in Thread : call'[u].hand = call[u].hand
        /\ UNCHANGED <<agent, slot, reaping>>
    BY <1>37 DEF Fail, Leave
  <2> QED BY ONLY NoneIsLost, <2>1, NoneLostHere
<1>38. ASSUME NEW t \in Thread, NEW j \in PageJob, NEW x \in Adk \cup {NoAdk}, Call(t, j, x)
      PROVE NoneIsLost'
  BY <1>38 DEF Call, PageJob, FirstPc, Refused
<1>39. ASSUME NEW s \in Shell, Boot(s) PROVE NoneIsLost'
  <2>1. \A u \in Thread : Home(u) = s => call[u].hand = NoAgent
    <3>1. \A u \in Thread : Home(u) = s => call[u].pc = "idle" BY <1>39 DEF Boot
    <3> QED BY <3>1
  <2>2. PICK c \in Caller : call' = [call EXCEPT ![<<s, c>>] =
                                     [NoCall EXCEPT !.pc = "wait", !.job = "setup"]]
    BY <1>39 DEF Boot
  <2>3. \A u \in Thread : call'[u].hand = call[u].hand
    BY <2>1, <2>2, <<s, c>> \in Thread /\ Home(<<s, c>>) = s
  <2>4. UNCHANGED <<agent, slot, reaping>> BY <1>39 DEF Boot
  <2> SUFFICES ASSUME NEW a \in Agent, Alive(a)', (agent[a].parent # NoShell)'
                PROVE  Held(a, agent[a].parent)'
    OBVIOUS
  <2>6. /\ Alive(a) /\ agent[a].parent \in Shell /\ agent' = agent
        /\ Held(a, agent[a].parent)
    BY <2>4, Fields
  <2>7. CASE slot[agent[a].parent] = a BY <2>3, <2>4, <2>6, <2>7
  <2>8. CASE a \in reaping[agent[a].parent] BY <2>3, <2>4, <2>6, <2>8
  <2>9. ASSUME NEW u \in Thread, Home(u) = agent[a].parent, call[u].hand = a PROVE Held(a, agent[a].parent)'
    BY <2>3, <2>4, <2>6, <2>9
  <2> QED BY <2>6, <2>7, <2>8, <2>9
<1>40. ASSUME NEW s \in Shell, Crash(s) PROVE NoneIsLost'
  BY <1>40 DEF Crash, Down
<1>41. ASSUME NEW s \in Shell, CancelRelaunch(s) PROVE NoneIsLost'
  BY <1>41 DEF CancelRelaunch
<1>42. ASSUME NEW s \in Shell, CoolDown(s) PROVE NoneIsLost'
  BY <1>42 DEF CoolDown
<1>43. ASSUME NEW s \in Shell, NEW x \in Adk, Store(s, x) PROVE NoneIsLost'
  BY <1>43 DEF Store
<1>44. ASSUME NEW s \in Shell, NEW a \in Agent, Reaper(s, a) PROVE NoneIsLost'
  BY <1>44 DEF Reaper
<1>45. ASSUME NEW a \in Agent, AgentEnds(a) PROVE NoneIsLost'
  BY <1>45 DEF AgentEnds
<1> HIDE DEF Inv, TypeOK, Alive, At, SlotFree, disk, locks, flags, NoCall,
       LocksAreHeld, HandsFit, Fit, SlotsWait, Leased, Birth, NoneIsLost, Held
<1> QED
  BY <1>1, <1>2, <1>3, <1>4, <1>5, <1>6, <1>7, <1>8, <1>9, <1>10, <1>11, <1>12,
     <1>13, <1>14, <1>15, <1>16, <1>17, <1>18, <1>19, <1>20, <1>21, <1>22, <1>23,
     <1>24, <1>25, <1>26, <1>27, <1>28, <1>29, <1>30, <1>31, <1>32, <1>33, <1>34,
     <1>35, <1>36, <1>37, <1>38, <1>39, <1>40, <1>41, <1>42, <1>43, <1>44, <1>45
     DEF Next, Step

LEMMA NextInv == Inv /\ [Next]_vars => Inv'
BY NextTypes, NextLocks, NextLeased, NextParents, NextHands, NextSlots, NextRelaunches,
   NextQuiet DEF Inv

-----------------------------------------------------------------------------
\* The inductive invariant: locks, lease, hands, slots and relaunches together.
THEOREM InvariantHolds == Spec => []Inv
<1>1. Init => Inv BY InitInv
<1> QED BY <1>1, NextInv, PTL DEF Spec

\* Files, processes, slots and commands keep their types.
THEOREM TypeCorrect == Spec => []TypeOK
<1>1. Inv => TypeOK BY DEF Inv
<1> QED BY <1>1, InvariantHolds, PTL

\* However many shells share the lease file, and however they crash, at most one
\* agent lives, and the lease names it, so that the next start finds it.
THEOREM LivingIsLeased == Spec => []Leased
<1>1. Inv => Leased BY DEF Inv
<1> QED BY <1>1, InvariantHolds, PTL

\* None of a shell's agents lives after prepare_app_relaunch succeeded, for any
\* number of commands under way.
THEOREM RelaunchHolds == Spec => []RelaunchIsQuiet
<1>1. Inv => RelaunchIsQuiet BY DEF Inv
<1> QED BY <1>1, InvariantHolds, PTL

\* Where every killed process ends within the reap timeout, no living agent is
\* without its lease, and none of a running shell is lost.
THEOREM NoStrays ==
    ASSUME ~Hangs PROVE Spec => []NoStrayAgent
<1>1. Init => Inv /\ NoneIsLost BY InitInv
<1>2. Inv /\ NoneIsLost /\ [Next]_vars => (Inv /\ NoneIsLost)'
  BY NextInv, NextNoneLost
<1>3. Inv /\ NoneIsLost => NoStrayAgent
  BY DEF Inv, Leased, NoneIsLost, NoStrayAgent
<1> QED BY <1>1, <1>2, <1>3, PTL DEF Spec

-----------------------------------------------------------------------------
(* Who holds a lock.                                                       *)

\* No threads wait for each other in a circle, whatever fails or crashes: who holds
\* the lifecycle lock is at work and does not ask for it again, who holds a slot
\* waits at most for the lease file, who holds that waits for no lock
\* (send_to_agent drops the slot's guard before restart_agent; Drop for
\* AgentProcess takes the lease with the slot in its hand).
LocksAreOrdered ==
    /\ \A s \in Shell : lifecycle[s] # NoThread => call[lifecycle[s]].pc \notin {"idle", "wait"}
    /\ \A s \in Shell : slotLock[s] # NoThread => At(slotLock[s], "drop")
    /\ leaseLock # NoThread => call[leaseLock].pc \in {"judge", "launch", "record"}

\* Whoever holds a lock is at work where it is needed, in its own shell.
Holders ==
    /\ \A s \in Shell : lifecycle[s] # NoThread =>
         Inside(lifecycle[s]) /\ Home(lifecycle[s]) = s
    /\ \A s \in Shell : slotLock[s] # NoThread =>
         call[slotLock[s]].pc = "drop" /\ Home(slotLock[s]) = s
    /\ leaseLock # NoThread => call[leaseLock].pc \in {"judge", "launch", "record"}

\* A turn of t that takes and keeps no lock but where it needs it.
Locking(t) ==
    /\ \A u \in Thread : u # t => call'[u] = call[u]
    /\ \A s \in Shell : /\ lifecycle'[s] \in {lifecycle[s], t, NoThread}
                        /\ slotLock'[s] \in {slotLock[s], t, NoThread}
                        /\ lifecycle'[s] = t => Inside(t)' /\ Home(t) = s
                        /\ slotLock'[s] = t => call'[t].pc = "drop" /\ Home(t) = s
    /\ leaseLock' \in {leaseLock, t, NoThread}
    /\ leaseLock' = t => call'[t].pc \in {"judge", "launch", "record"}

\* Such a turn leaves every lock with somebody at work.
LEMMA LockingHolds ==
    ASSUME TypeOK, Holders, NEW t \in Thread, Locking(t)
    PROVE  Holders'
<1>1. \A u \in Thread : u # t => (Inside(u)' <=> Inside(u)) /\ call'[u] = call[u]
  BY DEF Locking, Inside
<1>2. /\ \A s \in Shell : lifecycle[s] \in Thread \cup {NoThread}
                        /\ slotLock[s] \in Thread \cup {NoThread}
      /\ leaseLock \in Thread \cup {NoThread}
  BY DEF TypeOK
<1>3. ASSUME NEW s \in Shell, lifecycle'[s] # NoThread
      PROVE  Inside(lifecycle[s])' /\ Home(lifecycle[s])' = s
  <2>1. CASE lifecycle'[s] = t
    BY <2>1 DEF Locking, Inside, Home
  <2>2. CASE lifecycle'[s] # t
    <3>1. lifecycle'[s] = lifecycle[s] /\ lifecycle[s] \in Thread
      BY <1>2, <1>3, <2>2 DEF Locking
    <3> QED BY <3>1, <1>1, <2>2, <1>3 DEF Holders, Inside, Home
  <2> QED BY <2>1, <2>2
<1>4. ASSUME NEW s \in Shell, slotLock'[s] # NoThread
      PROVE  call'[slotLock'[s]].pc = "drop" /\ Home(slotLock[s])' = s
  BY <1>1, <1>2, <1>4 DEF Locking, Holders, Home
<1>5. leaseLock' # NoThread => call'[leaseLock'].pc \in {"judge", "launch", "record"}
  BY <1>1, <1>2 DEF Locking, Holders
<1> QED BY <1>3, <1>4, <1>5 DEF Holders

\* A shell that ends takes its locks along, and no other shell's.
LEMMA DownHolds ==
    ASSUME TypeOK, Holders, NEW s \in Shell, Down(s)
    PROVE  Holders'
<1>1. \A u \in Thread : Home(u) # s => call'[u] = call[u] /\ (Inside(u)' <=> Inside(u))
  BY DEF Down, Inside
<1>2. ASSUME NEW r \in Shell, lifecycle'[r] # NoThread
      PROVE  Inside(lifecycle[r])' /\ Home(lifecycle[r])' = r
  <2>1. r # s /\ lifecycle'[r] = lifecycle[r] /\ lifecycle[r] \in Thread /\ lifecycle[r] # NoThread
    BY <1>2 DEF Down, TypeOK
  <2> QED BY <2>1, <1>1 DEF Holders, Home, Inside
<1>3. ASSUME NEW r \in Shell, slotLock'[r] # NoThread
      PROVE  call'[slotLock'[r]].pc = "drop" /\ Home(slotLock[r])' = r
  <2>1. r # s /\ slotLock'[r] = slotLock[r] /\ slotLock[r] \in Thread /\ slotLock[r] # NoThread
    BY <1>3 DEF Down, TypeOK
  <2> QED BY <2>1, <1>1 DEF Holders, Home
<1>4. ASSUME leaseLock' # NoThread
      PROVE  call'[leaseLock'].pc \in {"judge", "launch", "record"}
  <2>1. leaseLock' = leaseLock /\ leaseLock \in Thread /\ leaseLock # NoThread /\ Home(leaseLock) # s
    BY <1>4 DEF Down, TypeOK
  <2> QED BY <2>1, <1>1 DEF Holders
<1> QED BY <1>2, <1>3, <1>4 DEF Holders

\* No path through a command leaves a lock behind.
LEMMA NextHolders ==
    ASSUME Inv, Holders, [Next]_vars
    PROVE  Holders'
<1> USE DEF At
<1>a. TypeOK /\ HandsFit
  BY DEF Inv
<1>b. \A t \in Thread : t # NoThread /\ Home(t) \in Shell
  BY Threads, AgentAssumption
<1>c. \A t \in Thread, s \in Shell :
        /\ lifecycle[s] = t => Inside(t) /\ Home(t) = s
        /\ slotLock[s] = t => call[t].pc = "drop" /\ Home(t) = s
        /\ leaseLock = t => call[t].pc \in {"judge", "launch", "record"}
  BY <1>b DEF Holders
<1> HIDE DEF Inv
<1>1. ASSUME NEW t \in Thread, Tell(t) PROVE Holders'
  <2>1. /\ UNCHANGED <<lifecycle, slotLock, leaseLock>> /\ call[t].pc = "tell"
        /\ \A u \in Thread : u # t => call'[u] = call[u]
    BY <1>a, <1>1, Moves DEF Tell, disk, locks
  <2>2. Locking(t)
    BY <2>1, <1>c, <1>b DEF Locking, Inside, Acting
  <2> QED BY <2>2, <1>a, LockingHolds
<1>2. ASSUME NEW t \in Thread, SendStops(t) PROVE Holders'
  <2>1. Locking(t)
    BY <1>a, <1>b, <1>c, <1>2, Moves DEF SendStops, Locking, TypeOK, disk, locks, Leave,
       Inside, Acting, HandsFit, Fit
  <2> QED BY <2>1, <1>a, LockingHolds
<1>3. ASSUME NEW t \in Thread, SendFindsNone(t) PROVE Holders'
  <2>1. Locking(t)
    BY <1>a, <1>b, <1>c, <1>3, Moves DEF SendFindsNone, Locking, TypeOK, disk, locks,
       Leave, Inside, Acting, HandsFit, Fit
  <2> QED BY <2>1, <1>a, LockingHolds
<1>4. ASSUME NEW t \in Thread, SendFindsLost(t) PROVE Holders'
  <2>1. /\ UNCHANGED <<lifecycle, leaseLock>> /\ call[t].pc = "send" /\ call'[t].pc = "drop"
        /\ \A u \in Thread : u # t => call'[u] = call[u]
    BY <1>a, <1>4, Moves DEF SendFindsLost, Seizes, disk
  <2>2. \A s \in Shell : slotLock'[s] = IF s = Home(t) THEN t ELSE slotLock[s]
    BY <1>a, <1>4 DEF SendFindsLost, Seizes, TypeOK
  <2>3. Locking(t)
    BY <2>1, <2>2, <1>c, <1>b DEF Locking, Inside, Acting
  <2> QED BY <2>3, <1>a, LockingHolds
<1>5. ASSUME NEW t \in Thread, SeizeForGood(t) PROVE Holders'
  <2>1. Locking(t)
    BY <1>a, <1>b, <1>c, <1>5, Moves DEF SeizeForGood, Seizes, Locking, TypeOK, disk,
       locks, Leave, Inside, Acting, HandsFit, Fit
  <2> QED BY <2>1, <1>a, LockingHolds
<1>6. ASSUME NEW t \in Thread, SeizeNothing(t) PROVE Holders'
  <2>1. Locking(t)
    BY <1>a, <1>b, <1>c, <1>6, Moves DEF SeizeNothing, Locking, TypeOK, disk, locks,
       Leave, Inside, Acting, HandsFit, Fit
  <2> QED BY <2>1, <1>a, LockingHolds
<1>7. ASSUME NEW t \in Thread, DropEnds(t) PROVE Holders'
  <2>1. Locking(t)
    BY <1>a, <1>b, <1>c, <1>7, Moves DEF DropEnds, AfterDrop, Locking, TypeOK, disk,
       locks, Leave, Inside, Acting, HandsFit, Fit
  <2> QED BY <2>1, <1>a, LockingHolds
<1>8. ASSUME NEW t \in Thread, Exit(t) PROVE Holders'
  <2>1. PICK r \in Shell : Down(r)
    BY <1>8, <1>b DEF Exit
  <2> QED BY <2>1, <1>a, DownHolds
<1>9. ASSUME NEW t \in Thread, Reserve(t) PROVE Holders'
  <2>1. Locking(t)
    BY <1>a, <1>b, <1>c, <1>9, Moves DEF Reserve, Locking, TypeOK, disk, locks, Leave,
       Inside, Acting, HandsFit, Fit
  <2> QED BY <2>1, <1>a, LockingHolds
<1>10. ASSUME NEW t \in Thread, TurnedAway(t) PROVE Holders'
  <2>1. Locking(t)
    BY <1>a, <1>b, <1>c, <1>10, Moves DEF TurnedAway, Locking, TypeOK, disk, locks,
       Leave, Inside, Acting, HandsFit, Fit
  <2> QED BY <2>1, <1>a, LockingHolds
<1>11. ASSUME NEW t \in Thread, Enter(t) PROVE Holders'
  <2>1. Locking(t)
    BY <1>a, <1>b, <1>c, <1>11, Moves DEF Enter, FirstInside, Locking, TypeOK, disk,
       locks, Leave, Inside, Acting, HandsFit, Fit
  <2> QED BY <2>1, <1>a, LockingHolds
<1>12. ASSUME NEW t \in Thread, EnterWrite(t) PROVE Holders'
  <2>1. Locking(t)
    BY <1>a, <1>b, <1>c, <1>12, Moves DEF EnterWrite, Locking, TypeOK, disk, locks,
       Leave, Inside, Acting, HandsFit, Fit
  <2> QED BY <2>1, <1>a, LockingHolds
<1>13. ASSUME NEW t \in Thread, Forget(t) PROVE Holders'
  <2>1. Locking(t)
    BY <1>a, <1>b, <1>c, <1>13, Moves DEF Forget, Locking, TypeOK, disk, locks, Leave,
       Inside, Acting, HandsFit, Fit
  <2> QED BY <2>1, <1>a, LockingHolds
<1>14. ASSUME NEW t \in Thread, CheckFinds(t) PROVE Holders'
  <2>1. Locking(t)
    BY <1>a, <1>b, <1>c, <1>14, Moves DEF CheckFinds, Locking, TypeOK, disk, locks,
       Leave, Inside, Acting, HandsFit, Fit
  <2> QED BY <2>1, <1>a, LockingHolds
<1>15. ASSUME NEW t \in Thread, CheckFindsLost(t) PROVE Holders'
  <2>1. Locking(t)
    BY <1>a, <1>b, <1>c, <1>15, Moves DEF CheckFindsLost, Seizes, Locking, TypeOK, disk,
       locks, Leave, Inside, Acting, HandsFit, Fit
  <2> QED BY <2>1, <1>a, LockingHolds
<1>16. ASSUME NEW t \in Thread, Take(t) PROVE Holders'
  <2>1. Locking(t)
    BY <1>a, <1>b, <1>c, <1>16, Moves DEF Take, Locking, TypeOK, disk, locks, Leave,
       Inside, Acting, HandsFit, Fit
  <2> QED BY <2>1, <1>a, LockingHolds
<1>17. ASSUME NEW t \in Thread, TakeStops(t) PROVE Holders'
  <2>1. Locking(t)
    BY <1>a, <1>b, <1>c, <1>17, Moves DEF TakeStops, Locking, TypeOK, disk, locks,
       Leave, Inside, Acting, HandsFit, Fit
  <2> QED BY <2>1, <1>a, LockingHolds
<1>18. ASSUME NEW t \in Thread, Drained(t) PROVE Holders'
  <2>1. Locking(t)
    BY <1>a, <1>b, <1>c, <1>18, Moves DEF Drained, Locking, TypeOK, disk, locks, Leave,
       Inside, Acting, HandsFit, Fit
  <2> QED BY <2>1, <1>a, LockingHolds
<1>19. ASSUME NEW t \in Thread, DrainFails(t) PROVE Holders'
  <2>1. Locking(t)
    BY <1>a, <1>b, <1>c, <1>19, Moves DEF DrainFails, Locking, TypeOK, disk, locks,
       Leave, Inside, Acting, HandsFit, Fit
  <2> QED BY <2>1, <1>a, LockingHolds
<1>20. ASSUME NEW t \in Thread, PutBack(t) PROVE Holders'
  <2>1. Locking(t)
    BY <1>a, <1>b, <1>c, <1>20, Moves DEF PutBack, Locking, TypeOK, disk, locks, Leave,
       Inside, Acting, HandsFit, Fit
  <2> QED BY <2>1, <1>a, LockingHolds
<1>21. ASSUME NEW t \in Thread, LockLease(t) PROVE Holders'
  <2>1. Locking(t)
    BY <1>a, <1>b, <1>c, <1>21, Moves DEF LockLease, Locking, TypeOK, disk, locks,
       Leave, Inside, Acting, HandsFit, Fit
  <2> QED BY <2>1, <1>a, LockingHolds
<1>22. ASSUME NEW t \in Thread, SpawnRefused(t) PROVE Holders'
  <2>1. Locking(t)
    BY <1>a, <1>b, <1>c, <1>22, Moves DEF SpawnRefused, Locking, TypeOK, disk, locks,
       Leave, Inside, Acting, HandsFit, Fit
  <2> QED BY <2>1, <1>a, LockingHolds
<1>23. ASSUME NEW t \in Thread, ReapOrphan(t) PROVE Holders'
  <2>1. UNCHANGED <<lifecycle, slotLock, leaseLock, call>>
    BY <1>23 DEF ReapOrphan, disk, locks
  <2> QED BY <2>1, <1>a DEF Holders, Inside
<1>24. ASSUME NEW t \in Thread, Blocked(t) PROVE Holders'
  <2>1. Locking(t)
    BY <1>a, <1>b, <1>c, <1>24, Moves DEF Blocked, Locking, TypeOK, disk, locks, Leave,
       Inside, Acting, HandsFit, Fit
  <2> QED BY <2>1, <1>a, LockingHolds
<1>25. ASSUME NEW t \in Thread, Clear(t) PROVE Holders'
  <2>1. Locking(t)
    BY <1>a, <1>b, <1>c, <1>25, Moves DEF Clear, Locking, TypeOK, disk, locks, Leave,
       Inside, Acting, HandsFit, Fit
  <2> QED BY <2>1, <1>a, LockingHolds
<1>26. ASSUME NEW t \in Thread, Prepare(t) PROVE Holders'
  <2>1. Locking(t)
    BY <1>a, <1>b, <1>c, <1>26, Moves DEF Prepare, Locking, TypeOK, disk, locks, Leave,
       Inside, Acting, HandsFit, Fit
  <2> QED BY <2>1, <1>a, LockingHolds
<1>27. ASSUME NEW t \in Thread, Launch(t) PROVE Holders'
  <2>1. Locking(t)
    BY <1>a, <1>b, <1>c, <1>27, Moves DEF Launch, Locking, TypeOK, disk, locks, Leave,
       Inside, Acting, HandsFit, Fit
  <2> QED BY <2>1, <1>a, LockingHolds
<1>28. ASSUME NEW t \in Thread, LaunchFails(t) PROVE Holders'
  <2>1. Locking(t)
    BY <1>a, <1>b, <1>c, <1>28, Moves DEF LaunchFails, Locking, TypeOK, disk, locks,
       Leave, Inside, Acting, HandsFit, Fit
  <2> QED BY <2>1, <1>a, LockingHolds
<1>29. ASSUME NEW t \in Thread, Record(t) PROVE Holders'
  <2>1. Locking(t)
    BY <1>a, <1>b, <1>c, <1>29, Moves DEF Record, Locking, TypeOK, disk, locks, Leave,
       Inside, Acting, HandsFit, Fit
  <2> QED BY <2>1, <1>a, LockingHolds
<1>30. ASSUME NEW t \in Thread, Handshake(t) PROVE Holders'
  <2>1. Locking(t)
    BY <1>a, <1>b, <1>c, <1>30, Moves DEF Handshake, Locking, TypeOK, disk, locks,
       Leave, Inside, Acting, HandsFit, Fit
  <2> QED BY <2>1, <1>a, LockingHolds
<1>31. ASSUME NEW t \in Thread, Abort(t) PROVE Holders'
  <2>1. Locking(t)
    BY <1>a, <1>b, <1>c, <1>31, Moves DEF Abort, Locking, TypeOK, disk, locks, Leave,
       Inside, Acting, HandsFit, Fit
  <2> QED BY <2>1, <1>a, LockingHolds
<1>32. ASSUME NEW t \in Thread, Publish(t) PROVE Holders'
  <2>1. Locking(t)
    BY <1>a, <1>b, <1>c, <1>32, Moves DEF Publish, Locking, TypeOK, disk, locks, Leave,
       Inside, Acting, HandsFit, Fit
  <2> QED BY <2>1, <1>a, LockingHolds
<1>33. ASSUME NEW t \in Thread, Replay(t) PROVE Holders'
  <2>1. /\ UNCHANGED <<slotLock, leaseLock>> /\ call[t].pc = "replay"
        /\ \A u \in Thread : u # t => call'[u] = call[u]
    BY <1>a, <1>33, Moves DEF Replay, disk
  <2>2. \/ UNCHANGED lifecycle /\ call'[t].pc \in {"take", "deliver", "mark"}
        \/ Leave(t)
    BY <1>a, <1>33, Moves DEF Replay
  <2>3. \A s \in Shell : \/ lifecycle'[s] = lifecycle[s] /\ call'[t].pc \in Acting
                         \/ lifecycle'[s] = lifecycle[s] /\ s # Home(t)
                         \/ lifecycle'[s] = NoThread
    BY <2>2, <1>a DEF Leave, TypeOK, Acting
  <2>4. Locking(t)
    BY <2>1, <2>3, <1>c, <1>b DEF Locking, Inside
  <2> QED BY <2>4, <1>a, LockingHolds
<1>34. ASSUME NEW t \in Thread, Deliver(t) PROVE Holders'
  <2>1. Locking(t)
    BY <1>a, <1>b, <1>c, <1>34, Moves DEF Deliver, Locking, TypeOK, disk, locks, Leave,
       Inside, Acting, HandsFit, Fit
  <2> QED BY <2>1, <1>a, LockingHolds
<1>35. ASSUME NEW t \in Thread, Mark(t) PROVE Holders'
  <2>1. Locking(t)
    BY <1>a, <1>b, <1>c, <1>35, Moves DEF Mark, Locking, TypeOK, disk, locks, Leave,
       Inside, Acting, HandsFit, Fit
  <2> QED BY <2>1, <1>a, LockingHolds
<1>36. ASSUME NEW t \in Thread, Fail(t) PROVE Holders'
  <2>1. Locking(t)
    BY <1>a, <1>b, <1>c, <1>36, Moves DEF Fail, Locking, TypeOK, disk, locks, Leave,
       Inside, Acting, HandsFit, Fit
  <2> QED BY <2>1, <1>a, LockingHolds
<1>37. ASSUME NEW t \in Thread, NEW j \in PageJob, NEW x \in Adk \cup {NoAdk}, Call(t, j, x) PROVE Holders'
  <2>1. /\ UNCHANGED <<lifecycle, slotLock, leaseLock>> /\ call[t].pc = "idle"
        /\ \A u \in Thread : u # t => call'[u] = call[u]
    BY <1>a, <1>37 DEF Call, TypeOK, disk, locks
  <2>2. Locking(t)
    BY <2>1, <1>c, <1>b DEF Locking, Inside, Acting
  <2> QED BY <2>2, <1>a, LockingHolds
<1>38. ASSUME NEW s \in Shell, Boot(s) PROVE Holders'
  <2>1. PICK c \in Caller :
          call' = [call EXCEPT ![<<s, c>>] = [NoCall EXCEPT !.pc = "wait", !.job = "setup"]]
    BY <1>38 DEF Boot
  <2>2. /\ <<s, c>> \in Thread /\ UNCHANGED <<lifecycle, slotLock, leaseLock>>
        /\ call[<<s, c>>].pc = "idle"
    BY <1>38, Threads DEF Boot, disk, locks, Inv, LocksAreHeld
  <2>3. \A u \in Thread : u # <<s, c>> => call'[u] = call[u]
    BY <2>1, <2>2, <1>a DEF TypeOK
  <2>4. Locking(<<s, c>>)
    BY <2>2, <2>3, <1>c, <1>b DEF Locking, Inside, Acting
  <2> QED BY <2>2, <2>4, <1>a, LockingHolds
<1>39. ASSUME NEW s \in Shell, Crash(s) PROVE Holders'
  <2>1. PICK r \in Shell : Down(r)
    BY <1>39, <1>b DEF Crash
  <2> QED BY <2>1, <1>a, DownHolds
<1>40. ASSUME NEW s \in Shell, CancelRelaunch(s) PROVE Holders'
  <2>1. UNCHANGED <<lifecycle, slotLock, leaseLock, call>>
    BY <1>40 DEF CancelRelaunch, disk, locks
  <2> QED BY <2>1, <1>a DEF Holders, Inside
<1>41. ASSUME NEW s \in Shell, CoolDown(s) PROVE Holders'
  <2>1. UNCHANGED <<lifecycle, slotLock, leaseLock, call>>
    BY <1>41 DEF CoolDown, disk, locks
  <2> QED BY <2>1, <1>a DEF Holders, Inside
<1>42. ASSUME NEW s \in Shell, NEW x \in Adk, Store(s, x) PROVE Holders'
  <2>1. UNCHANGED <<lifecycle, slotLock, leaseLock, call>>
    BY <1>42 DEF Store, disk, locks
  <2> QED BY <2>1, <1>a DEF Holders, Inside
<1>43. ASSUME NEW s \in Shell, NEW a \in Agent, Reaper(s, a) PROVE Holders'
  <2>1. UNCHANGED <<lifecycle, slotLock, leaseLock, call>>
    BY <1>43 DEF Reaper, disk, locks
  <2> QED BY <2>1, <1>a DEF Holders, Inside
<1>44. ASSUME NEW a \in Agent, AgentEnds(a) PROVE Holders'
  <2>1. UNCHANGED <<lifecycle, slotLock, leaseLock, call>>
    BY <1>44 DEF AgentEnds, disk, locks
  <2> QED BY <2>1, <1>a DEF Holders, Inside
<1>45. CASE UNCHANGED vars
  <2>1. UNCHANGED <<lifecycle, slotLock, leaseLock, call>>
    BY <1>45 DEF vars, disk, locks
  <2> QED BY <2>1, <1>a DEF Holders, Inside
<1> QED
  BY <1>1, <1>2, <1>3, <1>4, <1>5, <1>6, <1>7, <1>8, <1>9, <1>10, <1>11, <1>12, <1>13,
     <1>14, <1>15, <1>16, <1>17, <1>18, <1>19, <1>20, <1>21, <1>22, <1>23, <1>24, <1>25,
     <1>26, <1>27, <1>28, <1>29, <1>30, <1>31, <1>32, <1>33, <1>34, <1>35, <1>36, <1>37,
     <1>38, <1>39, <1>40, <1>41, <1>42, <1>43, <1>44, <1>45 DEF Next, Step


\* Locks are asked for in one order and none is left behind (LocksAreOrdered), so that
\* no threads wait for each other in a circle: for any number of shells and
\* commands, with every fault and crash.
THEOREM LocksOrdered == Spec => []LocksAreOrdered
<1>1. Init => Holders
  BY DEF Init, Holders
<1>2. Inv /\ Holders /\ [Next]_vars => Holders'
  BY NextHolders
<1>3. Holders => LocksAreOrdered
  BY DEF Holders, LocksAreOrdered, Inside, Acting, At
<1> QED BY <1>1, <1>2, <1>3, InvariantHolds, PTL DEF Spec

-----------------------------------------------------------------------------
(* Startup messages of one workspace.                                      *)

\* A write that has not yet put a new agent in the place of the old.
Rebinding(t) ==
    call[t].job = "write" /\ call[t].pc \in Acting \ {"check", "replay", "deliver", "mark"}

\* A slot, and whoever empties or fills it, has the shell's own agents.
OwnAgents ==
    /\ \A s \in Shell : slot[s] # NoAgent => agent[slot[s]].parent = s
    /\ \A t \in Thread : call[t].hand # NoAgent /\ call[t].pc # "launch"
         => agent[call[t].hand].parent = Home(t)

\* The agents a shell works with run in the workspace of the path, or in the
\* former one as long as it is being left.
AgentsFit ==
    /\ \A s \in Shell : Alive(slot[s]) /\ (\A t \in Thread : ~Rebinding(t))
         => agent[slot[s]].adk = path
    /\ \A t \in Thread :
         /\ Rebinding(t) /\ Alive(slot[Home(t)]) => agent[slot[Home(t)]].adk = call[t].path
         /\ call[t].pc \in {"drain", "back"} /\ Alive(call[t].hand)
              => agent[call[t].hand].adk = IF call[t].job = "write" THEN call[t].path ELSE path
         /\ call[t].pc \in Birth \ {"launch"} => agent[call[t].hand].adk = path
         /\ call[t].pc \in {"replay", "deliver", "mark"} /\ slot[Home(t)] # NoAgent
              => agent[slot[Home(t)]].adk = path

\* What is cached is of the scope.
Pure(m) == \A x \in m.cache : x = m.scope

\* The page has bound its workspace, or is about to be told so.
Committed(s) == up[s] /\ (web[s].bound \/ \E t \in Thread :
    Home(t) = s /\ call[t].job = "write" /\ call[t].pc = "tell")

\* The scope is the workspace of the path, unless that was forgotten.
Agree(p, m) == p = NoAdk \/ m.scope = p

ScopesFit ==
    /\ \A s \in Shell : Pure(startup[s]) /\ (Committed(s) => Agree(path, startup[s]))
    /\ \A t \in Thread :
         /\ call[t].job = "write" /\ Inside(t) =>
              /\ path = call[t].arg /\ startup[Home(t)].scope = call[t].arg
         /\ Rebinding(t) =>
              /\ Pure(call[t].startup)
              /\ Committed(Home(t)) => Agree(call[t].path, call[t].startup)
         /\ call[t].job = "startup" /\ Inside(t) => startup[Home(t)].scope = call[t].arg
         /\ call[t].job = "forget" =>
              call[t].pc \in {"wait", "tell"} /\ call[t].arg = NoAdk /\ prepared[Home(t)]
         /\ call[t].job = "write" => call[t].arg \in Adk
         /\ call[t].pc \in {"mark", "tell"} /\ call[t].arg # NoAdk => call[t].job = "write"

ScopeInv == OwnAgents /\ AgentsFit /\ ScopesFit

\* One shell runs: a second one hands over to the first and ends (the
\* single-instance plugin of lib.rs), and the file with the path is shared.
OneShell == \A r, s \in Shell : r = s

\* What a command remembers of the former workspace.
LEMMA Memories ==
    ASSUME TypeOK, NEW t \in Thread
    PROVE  /\ \A p : Go(t, p) => call'[t].path = call[t].path /\ call'[t].startup = call[t].startup
           /\ \A p, a : Hold(t, p, a) =>
                call'[t].path = call[t].path /\ call'[t].startup = call[t].startup
           /\ \A p, j : Turn(t, p, j) =>
                call'[t].path = call[t].path /\ call'[t].startup = call[t].startup
           /\ \A p : Remember(t, p) =>
                call'[t].path = path /\ call'[t].startup = startup[Home(t)]
<1>1. \A p : Go(t, p) => call'[t].path = call[t].path /\ call'[t].startup = call[t].startup
  BY DEF TypeOK, Calls, Go
<1>2. \A p, a : Hold(t, p, a) =>
         call'[t].path = call[t].path /\ call'[t].startup = call[t].startup
  BY DEF TypeOK, Calls, Hold
<1>3. \A p, j : Turn(t, p, j) =>
         call'[t].path = call[t].path /\ call'[t].startup = call[t].startup
  BY DEF TypeOK, Calls, Turn
<1>4. \A p : Remember(t, p) => call'[t].path = path /\ call'[t].startup = startup[Home(t)]
  BY DEF TypeOK, Calls, Remember
<1> QED BY <1>1, <1>2, <1>3, <1>4

\* One thread acts under the lifecycle lock.
LEMMA OneActs ==
    ASSUME OneShell, LocksAreHeld, NEW t \in Thread, NEW u \in Thread, Inside(t),
           Inside(u) \/ lifecycle[Home(u)] = NoThread
    PROVE  t = u
<1>1. Home(t) \in Shell /\ Home(t) = Home(u)
  BY Threads DEF OneShell
<1>2. lifecycle[Home(t)] = t /\ t # NoThread
  BY AgentAssumption DEF LocksAreHeld
<1> QED BY <1>1, <1>2 DEF LocksAreHeld

\* When the shell is gone, nothing of it is left but what is on disk.
LEMMA DownFits ==
    ASSUME OneShell, TypeOK, NEW s \in Shell, Down(s)
    PROVE  ScopeInv'
<1>1. /\ \A t \in Thread : Home(t) \in Shell /\ Home(t) = s
      /\ \A r \in Shell : r = s
  BY Threads DEF OneShell
<1>2. \A t \in Thread : call'[t] = NoCall
  BY <1>1 DEF Down
<1>3. slot'[s] = NoAgent /\ ~up'[s] /\ startup'[s] = Unbound
  BY DEF Down, TypeOK
<1>4. OwnAgents'
  BY <1>1, <1>2, <1>3 DEF OwnAgents, NoCall
<1>5. \A t \in Thread : ~Rebinding(t)' /\ ~Inside(t)'
  BY <1>2 DEF Rebinding, Inside, Acting, NoCall
<1>6. AgentsFit'
  BY <1>1, <1>2, <1>3, <1>5 DEF AgentsFit, Alive, NoCall, Birth
<1>7. ScopesFit'
  BY <1>1, <1>2, <1>3, <1>5 DEF ScopesFit, Committed, Pure, Unbound, NoCall
<1> QED BY <1>4, <1>6, <1>7 DEF ScopeInv

\* Slots and hands have the shell's own agents.
LEMMA NextOwnAgents ==
    ASSUME OneShell, Inv, OwnAgents, [Next]_vars
    PROVE  OwnAgents'
<1> USE DEF At
<1>a. TypeOK /\ HandsFit /\ SlotsWait
  BY DEF Inv
<1>d. \A t \in Thread : Home(t) \in Shell
  BY Threads
<1> HIDE DEF Inv
<1>1. ASSUME NEW t \in Thread, Tell(t) PROVE OwnAgents'
  BY <1>a, <1>d, <1>1, Moves DEF Tell, OwnAgents, TypeOK, locks, NoCall
<1>2. ASSUME NEW t \in Thread, SendStops(t) PROVE OwnAgents'
  BY <1>a, <1>d, <1>2, Moves DEF SendStops, OwnAgents, TypeOK, locks, NoCall
<1>3. ASSUME NEW t \in Thread, SendFindsNone(t) PROVE OwnAgents'
  BY <1>a, <1>d, <1>3, Moves DEF SendFindsNone, OwnAgents, TypeOK, locks, NoCall
<1>4. ASSUME NEW t \in Thread, SendFindsLost(t) PROVE OwnAgents'
  BY <1>a, <1>d, <1>4, Moves DEF SendFindsLost, Seizes, OwnAgents, TypeOK, locks, NoCall
<1>5. ASSUME NEW t \in Thread, SeizeForGood(t) PROVE OwnAgents'
  BY <1>a, <1>d, <1>5, Moves DEF SeizeForGood, Seizes, OwnAgents, TypeOK, locks, NoCall
<1>6. ASSUME NEW t \in Thread, SeizeNothing(t) PROVE OwnAgents'
  BY <1>a, <1>d, <1>6, Moves DEF SeizeNothing, OwnAgents, TypeOK, locks, NoCall
<1>7. ASSUME NEW t \in Thread, DropEnds(t) PROVE OwnAgents'
  BY <1>a, <1>d, <1>7, Moves DEF DropEnds, AfterDrop, OwnAgents, TypeOK, locks, NoCall
<1>8. ASSUME NEW t \in Thread, Exit(t) PROVE OwnAgents'
  <2>1. PICK r \in Shell : Down(r)
    BY <1>8, <1>d DEF Exit
  <2> QED BY <2>1, <1>a, DownFits DEF ScopeInv
<1>9. ASSUME NEW t \in Thread, Reserve(t) PROVE OwnAgents'
  BY <1>a, <1>d, <1>9, Moves DEF Reserve, OwnAgents, TypeOK, locks, NoCall
<1>10. ASSUME NEW t \in Thread, TurnedAway(t) PROVE OwnAgents'
  BY <1>a, <1>d, <1>10, Moves DEF TurnedAway, OwnAgents, TypeOK, locks, NoCall
<1>11. ASSUME NEW t \in Thread, Enter(t) PROVE OwnAgents'
  BY <1>a, <1>d, <1>11, Moves DEF Enter, FirstInside, OwnAgents, TypeOK, locks, NoCall
<1>12. ASSUME NEW t \in Thread, EnterWrite(t) PROVE OwnAgents'
  BY <1>a, <1>d, <1>12, Moves DEF EnterWrite, OwnAgents, TypeOK, locks, NoCall
<1>13. ASSUME NEW t \in Thread, Forget(t) PROVE OwnAgents'
  BY <1>a, <1>d, <1>13, Moves DEF Forget, OwnAgents, TypeOK, locks, NoCall
<1>14. ASSUME NEW t \in Thread, CheckFinds(t) PROVE OwnAgents'
  BY <1>a, <1>d, <1>14, Moves DEF CheckFinds, OwnAgents, TypeOK, locks, NoCall
<1>15. ASSUME NEW t \in Thread, CheckFindsLost(t) PROVE OwnAgents'
  BY <1>a, <1>d, <1>15, Moves DEF CheckFindsLost, Seizes, OwnAgents, TypeOK, locks, NoCall
<1>16. ASSUME NEW t \in Thread, Take(t) PROVE OwnAgents'
  <2>1. /\ \A u \in Thread : u # t => call'[u] = call[u]
        /\ call'[t].hand \in {slot[Home(t)], NoAgent}
        /\ slot' = [slot EXCEPT ![Home(t)] = NoAgent] /\ UNCHANGED agent
    BY <1>a, <1>16, Moves DEF Take
  <2> QED BY <2>1, <1>a, <1>d DEF OwnAgents, TypeOK
<1>17. ASSUME NEW t \in Thread, TakeStops(t) PROVE OwnAgents'
  BY <1>a, <1>d, <1>17, Moves DEF TakeStops, OwnAgents, TypeOK, locks, NoCall
<1>18. ASSUME NEW t \in Thread, Drained(t) PROVE OwnAgents'
  BY <1>a, <1>d, <1>18, Moves DEF Drained, OwnAgents, TypeOK, locks, NoCall
<1>19. ASSUME NEW t \in Thread, DrainFails(t) PROVE OwnAgents'
  BY <1>a, <1>d, <1>19, Moves DEF DrainFails, OwnAgents, TypeOK, locks, NoCall
<1>20. ASSUME NEW t \in Thread, PutBack(t) PROVE OwnAgents'
  <2>1. /\ \A u \in Thread : u # t => call'[u] = call[u]
        /\ call'[t].hand = NoAgent /\ call[t].pc = "back"
        /\ slot' = [slot EXCEPT ![Home(t)] = call[t].hand] /\ UNCHANGED agent
    BY <1>a, <1>20, Moves DEF PutBack
  <2> QED BY <2>1, <1>a, <1>d DEF OwnAgents, TypeOK
<1>21. ASSUME NEW t \in Thread, LockLease(t) PROVE OwnAgents'
  BY <1>a, <1>d, <1>21, Moves DEF LockLease, OwnAgents, TypeOK, locks, NoCall
<1>22. ASSUME NEW t \in Thread, SpawnRefused(t) PROVE OwnAgents'
  BY <1>a, <1>d, <1>22, Moves DEF SpawnRefused, OwnAgents, TypeOK, locks, NoCall
<1>23. ASSUME NEW t \in Thread, ReapOrphan(t) PROVE OwnAgents'
  <2>1. PICK b \in Agent : agent' = [agent EXCEPT ![b].life = "dead"]
    BY <1>23, <1>a, LivingAreAgents, Fields DEF ReapOrphan, Orphan
  <2>2. \A c \in Agent : agent'[c].parent = agent[c].parent
    BY <2>1, <1>a DEF TypeOK, Processes
  <2> QED BY <2>2, <1>a, <1>23, Fields DEF ReapOrphan, OwnAgents, locks
<1>24. ASSUME NEW t \in Thread, Blocked(t) PROVE OwnAgents'
  BY <1>a, <1>d, <1>24, Moves DEF Blocked, OwnAgents, TypeOK, locks, NoCall
<1>25. ASSUME NEW t \in Thread, Clear(t) PROVE OwnAgents'
  <2>1. /\ \A u \in Thread : u # t => call'[u] = call[u]
        /\ call'[t].pc = "launch" /\ UNCHANGED <<agent, slot>>
    BY <1>a, <1>25, Moves DEF Clear, locks
  <2> QED BY <2>1 DEF OwnAgents
<1>26. ASSUME NEW t \in Thread, Prepare(t) PROVE OwnAgents'
  BY <1>a, <1>d, <1>26, Moves DEF Prepare, OwnAgents, TypeOK, locks, NoCall
<1>27. ASSUME NEW t \in Thread, Launch(t) PROVE OwnAgents'
  <2>1. /\ call[t].pc = "launch" /\ call'[t].hand = call[t].hand /\ UNCHANGED slot
        /\ \A u \in Thread : u # t => call'[u] = call[u]
    BY <1>a, <1>27, Moves DEF Launch, locks
  <2>2. /\ agent'[call[t].hand].parent = Home(t) /\ agent[call[t].hand].life = "unborn"
        /\ \A a : a # call[t].hand => agent'[a] = agent[a]
    BY <2>1, <1>a, <1>27 DEF Launch, HandsFit, Fit, Birth, TypeOK
  <2>3. \A r \in Shell : slot[r] # NoAgent => slot[r] # call[t].hand
    BY <2>2, <1>a DEF SlotsWait
  <2>4. \A u \in Thread : call[u].hand # NoAgent /\ call[u].pc # "launch"
          => call[u].hand # call[t].hand
    BY <2>2, <1>a DEF HandsFit, Fit
  <2> QED BY <2>1, <2>2, <2>3, <2>4 DEF OwnAgents
<1>28. ASSUME NEW t \in Thread, LaunchFails(t) PROVE OwnAgents'
  BY <1>a, <1>d, <1>28, Moves DEF LaunchFails, OwnAgents, TypeOK, locks, NoCall
<1>29. ASSUME NEW t \in Thread, Record(t) PROVE OwnAgents'
  BY <1>a, <1>d, <1>29, Moves DEF Record, OwnAgents, TypeOK, locks, NoCall
<1>30. ASSUME NEW t \in Thread, Handshake(t) PROVE OwnAgents'
  BY <1>a, <1>d, <1>30, Moves DEF Handshake, OwnAgents, TypeOK, locks, NoCall
<1>31. ASSUME NEW t \in Thread, Abort(t) PROVE OwnAgents'
  BY <1>a, <1>d, <1>31, Moves DEF Abort, OwnAgents, TypeOK, locks, NoCall
<1>32. ASSUME NEW t \in Thread, Publish(t) PROVE OwnAgents'
  <2>1. /\ \A u \in Thread : u # t => call'[u] = call[u]
        /\ call'[t].hand = NoAgent /\ call[t].pc = "publish"
        /\ slot' = [slot EXCEPT ![Home(t)] = call[t].hand] /\ UNCHANGED agent
    BY <1>a, <1>32, Moves DEF Publish
  <2> QED BY <2>1, <1>a, <1>d DEF OwnAgents, TypeOK
<1>33. ASSUME NEW t \in Thread, Replay(t) PROVE OwnAgents'
  BY <1>a, <1>d, <1>33, Moves DEF Replay, OwnAgents, TypeOK, locks, NoCall
<1>34. ASSUME NEW t \in Thread, Deliver(t) PROVE OwnAgents'
  BY <1>a, <1>d, <1>34, Moves DEF Deliver, OwnAgents, TypeOK, locks, NoCall
<1>35. ASSUME NEW t \in Thread, Mark(t) PROVE OwnAgents'
  BY <1>a, <1>d, <1>35, Moves DEF Mark, OwnAgents, TypeOK, locks, NoCall
<1>36. ASSUME NEW t \in Thread, Fail(t) PROVE OwnAgents'
  BY <1>a, <1>d, <1>36, Moves DEF Fail, OwnAgents, TypeOK, locks, NoCall
<1>37. ASSUME NEW t \in Thread, NEW j \in PageJob, NEW x \in Adk \cup {NoAdk}, Call(t, j, x) PROVE OwnAgents'
  BY <1>a, <1>d, <1>37, Moves DEF Call, PageJob, FirstPc, OwnAgents, TypeOK, locks, NoCall
<1>38. ASSUME NEW s \in Shell, Boot(s) PROVE OwnAgents'
  <2>1. PICK c \in Caller :
          call' = [call EXCEPT ![<<s, c>>] = [NoCall EXCEPT !.pc = "wait", !.job = "setup"]]
    BY <1>38 DEF Boot
  <2>2. call'[<<s, c>>].hand = NoAgent /\ \A u \in Thread : u # <<s, c>> => call'[u] = call[u]
    BY <2>1, <1>a, Threads DEF TypeOK, NoCall, Calls
  <2> QED BY <2>2, <1>38 DEF Boot, OwnAgents, locks
<1>39. ASSUME NEW s \in Shell, Crash(s) PROVE OwnAgents'
  <2>1. PICK r \in Shell : Down(r)
    BY <1>39, <1>d DEF Crash
  <2> QED BY <2>1, <1>a, DownFits DEF ScopeInv
<1>40. ASSUME NEW s \in Shell, CancelRelaunch(s) PROVE OwnAgents'
  BY <1>a, <1>40 DEF CancelRelaunch, OwnAgents, locks
<1>41. ASSUME NEW s \in Shell, CoolDown(s) PROVE OwnAgents'
  BY <1>a, <1>41 DEF CoolDown, OwnAgents, locks
<1>42. ASSUME NEW s \in Shell, NEW x \in Adk, Store(s, x) PROVE OwnAgents'
  BY <1>a, <1>42 DEF Store, OwnAgents, locks
<1>43. ASSUME NEW s \in Shell, NEW a \in Agent, Reaper(s, a) PROVE OwnAgents'
  BY <1>a, <1>43 DEF Reaper, OwnAgents, locks
<1>44. ASSUME NEW a \in Agent, AgentEnds(a) PROVE OwnAgents'
  <2>1. PICK b \in Agent : agent' = [agent EXCEPT ![b].life = "dead"]
    BY <1>44, <1>a, LivingAreAgents, Fields DEF AgentEnds, Orphan
  <2>2. \A c \in Agent : agent'[c].parent = agent[c].parent
    BY <2>1, <1>a DEF TypeOK, Processes
  <2> QED BY <2>2, <1>a, <1>44, Fields DEF AgentEnds, OwnAgents, locks
<1>45. CASE UNCHANGED vars
  BY <1>45 DEF vars, locks, OwnAgents
<1> QED
  BY <1>1, <1>2, <1>3, <1>4, <1>5, <1>6, <1>7, <1>8, <1>9, <1>10, <1>11, <1>12, <1>13,
     <1>14, <1>15, <1>16, <1>17, <1>18, <1>19, <1>20, <1>21, <1>22, <1>23, <1>24, <1>25,
     <1>26, <1>27, <1>28, <1>29, <1>30, <1>31, <1>32, <1>33, <1>34, <1>35, <1>36, <1>37,
     <1>38, <1>39, <1>40, <1>41, <1>42, <1>43, <1>44, <1>45 DEF Next, Step

\* A turn of t that fills no slot, starts no agent and leaves the path alone.
Passing(t) ==
    /\ \A u \in Thread : u # t => call'[u] = call[u]
    /\ UNCHANGED <<path, agent>>
    /\ \A s \in Shell : slot'[s] \in {slot[s], NoAgent}
    /\ Rebinding(t)' <=> Rebinding(t)
    /\ Rebinding(t) => call'[t].path = call[t].path
    /\ call'[t].pc \in {"drain", "back"} /\ Alive(call'[t].hand) =>
         /\ call[t].pc \in {"drain", "back"} /\ call'[t].hand = call[t].hand
         /\ call'[t].job = call[t].job
    /\ call'[t].pc \in Birth \ {"launch"} =>
         call[t].pc \in Birth \ {"launch"} /\ call'[t].hand = call[t].hand
    /\ call'[t].pc \in {"replay", "deliver", "mark"} => call[t].pc \in {"replay", "deliver", "mark"}

\* Such a turn leaves every agent the workspace it should have.
LEMMA PassingFits ==
    ASSUME TypeOK, AgentsFit, NEW t \in Thread, Passing(t)
    PROVE  AgentsFit'
<1>1. \A s \in Shell : slot'[s] # NoAgent => slot'[s] = slot[s]
  BY DEF Passing
<1>2. \A u \in Thread : Home(u) \in Shell /\ (Rebinding(u)' <=> Rebinding(u))
  BY Threads DEF Passing, Rebinding
<1>3. \A a : Alive(a)' <=> Alive(a)
  BY DEF Passing, Alive
<1>4. ASSUME NEW s \in Shell, Alive(slot[s])', \A u \in Thread : ~Rebinding(u)'
      PROVE  agent'[slot'[s]].adk = path'
  BY <1>1, <1>2, <1>3, <1>4 DEF AgentsFit, Passing, Alive
<1>5. ASSUME NEW u \in Thread, Rebinding(u)', Alive(slot[Home(u)])'
      PROVE  agent'[slot'[Home(u)]].adk = call'[u].path
  BY <1>1, <1>2, <1>3, <1>5 DEF AgentsFit, Passing, Alive
<1>6. ASSUME NEW u \in Thread, call'[u].pc \in {"drain", "back"}, Alive(call[u].hand)'
      PROVE  agent'[call'[u].hand].adk = IF call'[u].job = "write" THEN call'[u].path ELSE path'
  <2>1. CASE u # t
    BY <1>6, <2>1 DEF AgentsFit, Passing, Alive
  <2>2. CASE u = t
    <3>1. /\ call[t].pc \in {"drain", "back"} /\ call'[t].hand = call[t].hand
          /\ call'[t].job = call[t].job /\ Alive(call[t].hand)
      BY <1>6, <2>2 DEF Passing, Alive
    <3>2. call[t].job = "write" => call'[t].path = call[t].path
      BY <3>1 DEF Passing, Rebinding, Acting
    <3> QED BY <2>2, <3>1, <3>2 DEF AgentsFit, Passing
  <2> QED BY <2>1, <2>2
<1>7. ASSUME NEW u \in Thread, call'[u].pc \in Birth \ {"launch"}
      PROVE  agent'[call'[u].hand].adk = path'
  BY <1>7 DEF AgentsFit, Passing
<1>8. ASSUME NEW u \in Thread, call'[u].pc \in {"replay", "deliver", "mark"},
             slot'[Home(u)] # NoAgent
      PROVE  agent'[slot'[Home(u)]].adk = path'
  BY <1>1, <1>2, <1>8 DEF AgentsFit, Passing
<1> QED BY <1>4, <1>5, <1>6, <1>7, <1>8 DEF AgentsFit

\* A step that only ends an agent.
LEMMA EndingFits ==
    ASSUME AgentsFit, UNCHANGED <<path, slot, call>>,
           NEW b \in Agent, agent' = [agent EXCEPT ![b].life = "dead"], TypeOK
    PROVE  AgentsFit'
<1>1. \A a : Alive(a)' /\ a \in Agent \cup {NoAgent} => a \in Agent /\ Alive(a)
  BY DEF Alive, TypeOK, Processes
<1>2. \A a \in Agent : agent'[a].adk = agent[a].adk
  BY DEF TypeOK, Processes
<1>3. \A a : a \notin Agent => agent'[a] = agent[a]
  BY DEF TypeOK
<1> QED BY <1>1, <1>2, Threads, Fields DEF AgentsFit, Rebinding

\* Agents run in the workspace of the path.
LEMMA NextAgentsFit ==
    ASSUME OneShell, Inv, ScopeInv, [Next]_vars
    PROVE  AgentsFit'
<1> USE DEF At
<1>a. TypeOK /\ LocksAreHeld /\ HandsFit /\ SlotsWait /\ AgentsFit
  BY DEF Inv, ScopeInv
<1>b. \A t, u \in Thread : Inside(t) /\ (Inside(u) \/ lifecycle[Home(u)] = NoThread) => t = u
  BY <1>a, OneActs
<1>c. \A t, u \in Thread : Rebinding(t) /\ Inside(u) => t = u /\ call[u].job = "write"
  BY <1>b DEF Rebinding, Inside, Acting
<1>d. \A t \in Thread : Home(t) \in Shell
  BY Threads
<1>e. \A t, u \in Thread : lifecycle[Home(t)] = NoThread /\ call[t].pc = "wait"
        => ~Inside(u) /\ ~Rebinding(u)
  BY <1>b DEF Inside, Rebinding, Acting
<1>f. RelaunchIsQuiet /\ OwnAgents /\ ScopesFit
  BY DEF Inv, ScopeInv
<1> HIDE DEF Inv, ScopeInv
<1>1. ASSUME NEW t \in Thread, Tell(t) PROVE AgentsFit'
  <2>1. Passing(t)
    BY <1>a, <1>d, <1>1, Moves, Memories, Fields DEF Tell, Passing, TypeOK, disk, locks,
       Rebinding, Acting, Birth, Fit, HandsFit, Alive
  <2> QED BY <2>1, <1>a, PassingFits
<1>2. ASSUME NEW t \in Thread, SendStops(t) PROVE AgentsFit'
  <2>1. Passing(t)
    BY <1>a, <1>d, <1>2, Moves, Memories, Fields DEF SendStops, Passing, TypeOK, disk,
       locks, Rebinding, Acting, Birth, Fit, HandsFit, Alive
  <2> QED BY <2>1, <1>a, PassingFits
<1>3. ASSUME NEW t \in Thread, SendFindsNone(t) PROVE AgentsFit'
  <2>1. Passing(t)
    BY <1>a, <1>d, <1>3, Moves, Memories, Fields DEF SendFindsNone, Passing, TypeOK,
       disk, locks, Rebinding, Acting, Birth, Fit, HandsFit, Alive
  <2> QED BY <2>1, <1>a, PassingFits
<1>4. ASSUME NEW t \in Thread, SendFindsLost(t) PROVE AgentsFit'
  <2>1. Passing(t)
    BY <1>a, <1>d, <1>4, Moves, Memories, Fields DEF SendFindsLost, Seizes, Passing,
       TypeOK, disk, locks, Rebinding, Acting, Birth, Fit, HandsFit, Alive
  <2> QED BY <2>1, <1>a, PassingFits
<1>5. ASSUME NEW t \in Thread, SeizeForGood(t) PROVE AgentsFit'
  <2>1. Passing(t)
    BY <1>a, <1>d, <1>5, Moves, Memories, Fields DEF SeizeForGood, Seizes, Passing,
       TypeOK, disk, locks, Rebinding, Acting, Birth, Fit, HandsFit, Alive
  <2> QED BY <2>1, <1>a, PassingFits
<1>6. ASSUME NEW t \in Thread, SeizeNothing(t) PROVE AgentsFit'
  <2>1. Passing(t)
    BY <1>a, <1>d, <1>6, Moves, Memories, Fields DEF SeizeNothing, Passing, TypeOK,
       disk, locks, Rebinding, Acting, Birth, Fit, HandsFit, Alive
  <2> QED BY <2>1, <1>a, PassingFits
<1>7. ASSUME NEW t \in Thread, DropEnds(t) PROVE AgentsFit'
  <2>1. Passing(t)
    BY <1>a, <1>d, <1>7, Moves, Memories, Fields DEF DropEnds, AfterDrop, Passing,
       TypeOK, disk, locks, Rebinding, Acting, Birth, Fit, HandsFit, Alive
  <2> QED BY <2>1, <1>a, PassingFits
<1>8. ASSUME NEW t \in Thread, Exit(t) PROVE AgentsFit'
  <2>1. PICK r \in Shell : Down(r)
    BY <1>8, <1>d DEF Exit
  <2> QED BY <2>1, <1>a, DownFits DEF ScopeInv
<1>9. ASSUME NEW t \in Thread, Reserve(t) PROVE AgentsFit'
  <2>1. Passing(t)
    BY <1>a, <1>d, <1>9, Moves, Memories, Fields DEF Reserve, Passing, TypeOK, disk,
       locks, Rebinding, Acting, Birth, Fit, HandsFit, Alive
  <2> QED BY <2>1, <1>a, PassingFits
<1>10. ASSUME NEW t \in Thread, TurnedAway(t) PROVE AgentsFit'
  <2>1. Passing(t)
    BY <1>a, <1>d, <1>10, Moves, Memories, Fields DEF TurnedAway, Passing, TypeOK, disk,
       locks, Rebinding, Acting, Birth, Fit, HandsFit, Alive
  <2> QED BY <2>1, <1>a, PassingFits
<1>11. ASSUME NEW t \in Thread, Enter(t) PROVE AgentsFit'
  <2>1. Passing(t)
    BY <1>a, <1>d, <1>11, Moves, Memories, Fields DEF Enter, FirstInside, Passing,
       TypeOK, disk, locks, Rebinding, Acting, Birth, Fit, HandsFit, Alive
  <2> QED BY <2>1, <1>a, PassingFits
<1>12. ASSUME NEW t \in Thread, EnterWrite(t) PROVE AgentsFit'
  <2>1. \A u \in Thread : ~Inside(u) /\ ~Rebinding(u)
    BY <1>e, <1>12 DEF EnterWrite
  <2>2. CASE path = call[t].arg /\ Go(t, "tell")
    <3>1. Passing(t)
      BY <2>1, <2>2, <1>a, <1>12, Moves
         DEF EnterWrite, Passing, disk, locks, Rebinding, Inside, Acting, Birth
    <3> QED BY <3>1, <1>a, PassingFits
  <2>3. CASE Remember(t, "take")
    <3>1. /\ call'[t].pc = "take" /\ call'[t].path = path
          /\ \A u \in Thread : u # t => call'[u] = call[u]
          /\ UNCHANGED <<slot, agent>>
      BY <2>3, <1>a, <1>12, Moves, Memories DEF EnterWrite
    <3>2. Rebinding(t)' /\ \A u \in Thread : u # t => ~Rebinding(u)' /\ call'[u].pc \notin Acting
      BY <3>1, <2>1, <2>3, <1>a, <1>12, Moves DEF EnterWrite, Rebinding, Inside, Acting
    <3>3. Alive(slot[Home(t)])' => agent'[slot'[Home(t)]].adk = call'[t].path
      BY <3>1, <2>1, <1>a, <1>d DEF AgentsFit, Alive
    <3> QED BY <3>1, <3>2, <3>3 DEF AgentsFit, Acting, Birth
  <2> QED BY <2>2, <2>3, <1>12 DEF EnterWrite
<1>13. ASSUME NEW t \in Thread, Forget(t) PROVE AgentsFit'
  <2>1. \A u \in Thread : ~Inside(u) /\ ~Rebinding(u)
    BY <1>e, <1>13 DEF Forget
  <2>2. /\ call'[t].pc = "tell" /\ UNCHANGED <<slot, agent>>
        /\ \A u \in Thread : u # t => call'[u] = call[u]
    BY <1>a, <1>13, Moves DEF Forget, locks
  <2>3. \A u \in Thread : ~Rebinding(u)' /\ call'[u].pc \notin Acting
    BY <2>1, <2>2 DEF Rebinding, Inside, Acting
  <2>4. \A r \in Shell : prepared[r] /\ slot[r] \in Agent \cup {NoAgent}
    BY <1>f, <1>a, <1>d, <1>13, Fields DEF Forget, OneShell, ScopesFit
  <2>5. \A r \in Shell : ~Alive(slot[r])
    BY <1>f, <2>4 DEF RelaunchIsQuiet, OwnAgents, Alive
  <2> QED BY <2>2, <2>3, <2>5 DEF AgentsFit, Acting, Birth, Alive
<1>14. ASSUME NEW t \in Thread, CheckFinds(t) PROVE AgentsFit'
  <2>1. CASE Go(t, "deliver") /\ Alive(slot[Home(t)])
    <3>1. \A u \in Thread : ~Rebinding(u)
      BY <1>a, <1>c, <1>14 DEF CheckFinds, HandsFit, Fit, Inside, Acting
    <3>2. /\ call'[t].pc = "deliver" /\ UNCHANGED <<path, agent, slot>>
          /\ \A u \in Thread : u # t => call'[u] = call[u]
      BY <2>1, <1>a, <1>14, Moves DEF CheckFinds, disk
    <3>3. \A r \in Shell : Alive(slot[r]) => agent[slot[r]].adk = path
      BY <3>1, <1>a DEF AgentsFit
    <3>4. \A u \in Thread : Home(u) = Home(t)
      BY <1>d DEF OneShell
    <3>5. \A u \in Thread : ~Rebinding(u)'
      BY <3>1, <3>2 DEF Rebinding
    <3>6. agent'[slot'[Home(t)]].adk = path'
      BY <2>1, <3>2, <3>3, <1>d
    <3> QED BY <3>2, <3>3, <3>4, <3>5, <3>6, <1>a DEF AgentsFit, Alive, Birth
  <2>2. CASE Done(t) \/ Go(t, "take")
    <3>1. /\ call[t].pc = "check" /\ call[t].job = "startup" /\ UNCHANGED <<path, agent, slot>>
      BY <1>a, <1>14 DEF CheckFinds, disk, HandsFit, Fit
    <3>2. /\ call'[t].pc \in {"idle", "take"} /\ call'[t].job # "write"
          /\ \A u \in Thread : u # t => call'[u] = call[u]
      BY <2>2, <3>1, <1>a, Moves
    <3>3. Passing(t)
      BY <3>1, <3>2 DEF Passing, Rebinding, Acting, Birth
    <3> QED BY <3>3, <1>a, PassingFits
  <2> QED BY <2>1, <2>2, <1>14 DEF CheckFinds
<1>15. ASSUME NEW t \in Thread, CheckFindsLost(t) PROVE AgentsFit'
  <2>1. Passing(t)
    BY <1>a, <1>d, <1>15, Moves, Memories, Fields DEF CheckFindsLost, Seizes, Passing,
       TypeOK, disk, locks, Rebinding, Acting, Birth, Fit, HandsFit, Alive
  <2> QED BY <2>1, <1>a, PassingFits
<1>16. ASSUME NEW t \in Thread, Take(t) PROVE AgentsFit'
  <2>1. /\ call[t].pc = "take" /\ UNCHANGED <<path, agent>> /\ slot'[Home(t)] = NoAgent
        /\ \A u \in Thread : u # t => call'[u] = call[u]
        /\ call'[t].pc = "idle" \/ (call'[t].pc \in {"spawn", "drain"}
             /\ call'[t].hand = slot[Home(t)]
             /\ call'[t].job = call[t].job /\ call'[t].path = call[t].path)
    BY <1>a, <1>d, <1>16, Moves, Memories DEF Take, disk, TypeOK
  <2>2. Inside(t) /\ \A r \in Shell : slot'[r] = NoAgent
    BY <2>1, <1>d DEF Inside, Acting, OneShell
  <2>3. \A u \in Thread : u # t => call'[u].pc \notin Acting
    BY <2>1, <2>2, <1>b DEF Inside
  <2>4. CASE call'[t].pc = "drain" /\ Alive(slot[Home(t)])
    <3>1. call[t].job = "write" => Rebinding(t)
      BY <2>1 DEF Rebinding, Acting
    <3>2. call[t].job # "write" => \A u \in Thread : ~Rebinding(u)
      BY <2>2, <1>c
    <3>3. agent[slot[Home(t)]].adk = IF call[t].job = "write" THEN call[t].path ELSE path
      BY <2>4, <3>1, <3>2, <1>a, <1>d DEF AgentsFit
    <3> QED BY <2>1, <2>2, <2>3, <2>4, <3>3, <1>d DEF AgentsFit, Alive, Acting, Birth
  <2>5. CASE call'[t].pc # "drain" \/ ~Alive(slot[Home(t)])
    BY <2>1, <2>2, <2>3, <2>5, <1>d DEF AgentsFit, Alive, Acting, Birth
  <2> QED BY <2>4, <2>5
<1>17. ASSUME NEW t \in Thread, TakeStops(t) PROVE AgentsFit'
  <2>1. Passing(t)
    BY <1>a, <1>d, <1>17, Moves, Memories, Fields DEF TakeStops, Passing, TypeOK, disk,
       locks, Rebinding, Acting, Birth, Fit, HandsFit, Alive
  <2> QED BY <2>1, <1>a, PassingFits
<1>18. ASSUME NEW t \in Thread, Drained(t) PROVE AgentsFit'
  <2>1. Passing(t)
    BY <1>a, <1>d, <1>18, Moves, Memories, Fields DEF Drained, Passing, TypeOK, disk,
       locks, Rebinding, Acting, Birth, Fit, HandsFit, Alive
  <2> QED BY <2>1, <1>a, PassingFits
<1>19. ASSUME NEW t \in Thread, DrainFails(t) PROVE AgentsFit'
  <2>1. Passing(t)
    BY <1>a, <1>d, <1>19, Moves, Memories, Fields DEF DrainFails, Passing, TypeOK, disk,
       locks, Rebinding, Acting, Birth, Fit, HandsFit, Alive
  <2> QED BY <2>1, <1>a, PassingFits
<1>20. ASSUME NEW t \in Thread, PutBack(t) PROVE AgentsFit'
  <2>1. /\ call[t].pc = "back" /\ call'[t].pc = "fail" /\ UNCHANGED <<path, agent>>
        /\ slot'[Home(t)] = call[t].hand
        /\ \A u \in Thread : u # t => call'[u] = call[u]
        /\ call'[t].job = call[t].job /\ call'[t].path = call[t].path
    BY <1>a, <1>d, <1>20, Moves, Memories DEF PutBack, disk, TypeOK
  <2>2. Inside(t) /\ \A u \in Thread : Home(u) = Home(t)
    BY <2>1, <1>d DEF Inside, Acting, OneShell
  <2>3. \A u \in Thread : u # t => call'[u].pc \notin Acting
    BY <2>1, <2>2, <1>b DEF Inside
  <2>4. Alive(call[t].hand) => agent[call[t].hand].adk
          = IF call[t].job = "write" THEN call[t].path ELSE path
    BY <2>1, <1>a DEF AgentsFit
  <2>5. Rebinding(t)' <=> call[t].job = "write"
    BY <2>1 DEF Rebinding, Acting
  <2>6. \A r \in Shell : slot'[r] = call[t].hand
    BY <2>1, <1>d DEF OneShell
  <2>7. \A u \in Thread : Rebinding(u)' => u = t
    BY <2>3 DEF Rebinding
  <2> QED BY <2>1, <2>2, <2>3, <2>4, <2>5, <2>6, <2>7, <1>d DEF AgentsFit, Alive,
     Acting, Birth
<1>21. ASSUME NEW t \in Thread, LockLease(t) PROVE AgentsFit'
  <2>1. Passing(t)
    BY <1>a, <1>d, <1>21, Moves, Memories, Fields DEF LockLease, Passing, TypeOK, disk,
       locks, Rebinding, Acting, Birth, Fit, HandsFit, Alive
  <2> QED BY <2>1, <1>a, PassingFits
<1>22. ASSUME NEW t \in Thread, SpawnRefused(t) PROVE AgentsFit'
  <2>1. Passing(t)
    BY <1>a, <1>d, <1>22, Moves, Memories, Fields DEF SpawnRefused, Passing, TypeOK,
       disk, locks, Rebinding, Acting, Birth, Fit, HandsFit, Alive
  <2> QED BY <2>1, <1>a, PassingFits
<1>23. ASSUME NEW t \in Thread, ReapOrphan(t) PROVE AgentsFit'
  <2>1. UNCHANGED <<path, slot, call>>
    BY <1>23 DEF ReapOrphan, disk, locks
  <2>2. PICK b \in Agent : agent' = [agent EXCEPT ![b].life = "dead"]
    BY <1>23, <1>a, LivingAreAgents, Fields DEF ReapOrphan, Orphan
  <2> QED BY <2>1, <2>2, <1>a, EndingFits
<1>24. ASSUME NEW t \in Thread, Blocked(t) PROVE AgentsFit'
  <2>1. Passing(t)
    BY <1>a, <1>d, <1>24, Moves, Memories, Fields DEF Blocked, Passing, TypeOK, disk,
       locks, Rebinding, Acting, Birth, Fit, HandsFit, Alive
  <2> QED BY <2>1, <1>a, PassingFits
<1>25. ASSUME NEW t \in Thread, Clear(t) PROVE AgentsFit'
  <2>1. Passing(t)
    BY <1>a, <1>d, <1>25, Moves, Memories, Fields DEF Clear, Passing, TypeOK, disk,
       locks, Rebinding, Acting, Birth, Fit, HandsFit, Alive
  <2> QED BY <2>1, <1>a, PassingFits
<1>26. ASSUME NEW t \in Thread, Prepare(t) PROVE AgentsFit'
  <2>1. Passing(t)
    BY <1>a, <1>d, <1>26, Moves, Memories, Fields DEF Prepare, Passing, TypeOK, disk,
       locks, Rebinding, Acting, Birth, Fit, HandsFit, Alive
  <2> QED BY <2>1, <1>a, PassingFits
<1>27. ASSUME NEW t \in Thread, Launch(t) PROVE AgentsFit'
  <2>1. /\ call[t].pc = "launch" /\ call'[t].pc = "record" /\ UNCHANGED <<path, slot>>
        /\ \A u \in Thread : u # t => call'[u] = call[u]
        /\ call'[t].job = call[t].job /\ call'[t].path = call[t].path
        /\ call'[t].hand = call[t].hand
    BY <1>a, <1>27, Moves, Memories DEF Launch, disk, locks
  <2>2. /\ agent'[call[t].hand].adk = path /\ agent[call[t].hand].life = "unborn"
        /\ \A a : a # call[t].hand => agent'[a] = agent[a]
    BY <2>1, <1>a, <1>27 DEF Launch, HandsFit, Fit, Birth, TypeOK
  <2>3. Inside(t)
    BY <2>1 DEF Inside, Acting
  <2>4. \A u \in Thread : u # t => call'[u].pc \notin Acting /\ ~Rebinding(u)'
    BY <2>1, <2>3, <1>b DEF Inside, Rebinding
  <2>5. \A r \in Shell : slot[r] # NoAgent => slot[r] # call[t].hand
    BY <2>2, <1>a DEF SlotsWait
  <2>6. (Rebinding(t)' <=> Rebinding(t)) /\ \A u \in Thread : u # t => ~Rebinding(u)
    BY <2>1, <2>3, <2>4 DEF Rebinding, Acting
  <2>7. \A r \in Shell : Alive(slot[r])' => Alive(slot[r]) /\ agent'[slot'[r]] = agent[slot[r]]
    BY <2>1, <2>2, <2>5 DEF Alive
  <2> QED BY <2>1, <2>2, <2>4, <2>6, <2>7, <1>a, <1>d DEF AgentsFit, Acting, Birth
<1>28. ASSUME NEW t \in Thread, LaunchFails(t) PROVE AgentsFit'
  <2>1. Passing(t)
    BY <1>a, <1>d, <1>28, Moves, Memories, Fields DEF LaunchFails, Passing, TypeOK,
       disk, locks, Rebinding, Acting, Birth, Fit, HandsFit, Alive
  <2> QED BY <2>1, <1>a, PassingFits
<1>29. ASSUME NEW t \in Thread, Record(t) PROVE AgentsFit'
  <2>1. Passing(t)
    BY <1>a, <1>d, <1>29, Moves, Memories, Fields DEF Record, Passing, TypeOK, disk,
       locks, Rebinding, Acting, Birth, Fit, HandsFit, Alive
  <2> QED BY <2>1, <1>a, PassingFits
<1>30. ASSUME NEW t \in Thread, Handshake(t) PROVE AgentsFit'
  <2>1. Passing(t)
    BY <1>a, <1>d, <1>30, Moves, Memories, Fields DEF Handshake, Passing, TypeOK, disk,
       locks, Rebinding, Acting, Birth, Fit, HandsFit, Alive
  <2> QED BY <2>1, <1>a, PassingFits
<1>31. ASSUME NEW t \in Thread, Abort(t) PROVE AgentsFit'
  <2>1. Passing(t)
    BY <1>a, <1>d, <1>31, Moves, Memories, Fields DEF Abort, Passing, TypeOK, disk,
       locks, Rebinding, Acting, Birth, Fit, HandsFit, Alive
  <2> QED BY <2>1, <1>a, PassingFits
<1>32. ASSUME NEW t \in Thread, Publish(t) PROVE AgentsFit'
  <2>1. /\ call[t].pc = "publish" /\ call'[t].pc \in {"idle", "replay"}
        /\ UNCHANGED <<path, agent>> /\ slot'[Home(t)] = call[t].hand
        /\ \A u \in Thread : u # t => call'[u] = call[u]
    BY <1>a, <1>d, <1>32, Moves DEF Publish, disk, TypeOK
  <2>2. Inside(t) /\ \A r \in Shell : slot'[r] = call[t].hand
    BY <2>1, <1>d DEF Inside, Acting, OneShell
  <2>3. \A u \in Thread : u # t => call'[u].pc \notin Acting
    BY <2>1, <2>2, <1>b DEF Inside
  <2>4. agent[call[t].hand].adk = path
    BY <2>1, <1>a DEF AgentsFit, Birth
  <2>5. \A u \in Thread : ~Rebinding(u)'
    BY <2>1, <2>3 DEF Rebinding, Acting
  <2> QED BY <2>1, <2>2, <2>3, <2>4, <2>5, <1>d DEF AgentsFit, Acting, Birth
<1>33. ASSUME NEW t \in Thread, Replay(t) PROVE AgentsFit'
  <2>1. Passing(t)
    BY <1>a, <1>d, <1>33, Moves, Memories, Fields DEF Replay, Passing, TypeOK, disk,
       locks, Rebinding, Acting, Birth, Fit, HandsFit, Alive
  <2> QED BY <2>1, <1>a, PassingFits
<1>34. ASSUME NEW t \in Thread, Deliver(t) PROVE AgentsFit'
  <2>1. Passing(t)
    BY <1>a, <1>d, <1>34, Moves, Memories, Fields DEF Deliver, Passing, TypeOK, disk,
       locks, Rebinding, Acting, Birth, Fit, HandsFit, Alive
  <2> QED BY <2>1, <1>a, PassingFits
<1>35. ASSUME NEW t \in Thread, Mark(t) PROVE AgentsFit'
  <2>1. Passing(t)
    BY <1>a, <1>d, <1>35, Moves, Memories, Fields DEF Mark, Passing, TypeOK, disk,
       locks, Rebinding, Acting, Birth, Fit, HandsFit, Alive
  <2> QED BY <2>1, <1>a, PassingFits
<1>36. ASSUME NEW t \in Thread, Fail(t) PROVE AgentsFit'
  <2>1. CASE call[t].job = "write"
    <3>1. /\ call[t].pc = "fail" /\ call'[t].pc = "idle" /\ UNCHANGED <<agent, slot>>
          /\ path' = call[t].path /\ \A u \in Thread : u # t => call'[u] = call[u]
      BY <2>1, <1>a, <1>36, Moves DEF Fail
    <3>2. Inside(t) /\ Rebinding(t)
      BY <2>1, <3>1 DEF Inside, Rebinding, Acting
    <3>3. \A u \in Thread : call'[u].pc \notin Acting
      BY <3>1, <3>2, <1>b DEF Inside, Acting
    <3>4. \A r \in Shell : Alive(slot[r]) => agent[slot[r]].adk = call[t].path
      BY <3>2, <1>a, <1>d DEF AgentsFit, OneShell
    <3>5. \A u \in Thread : ~Rebinding(u)'
      BY <3>3 DEF Rebinding
    <3> QED BY <3>1, <3>3, <3>4, <3>5 DEF AgentsFit, Acting, Birth, Alive
  <2>2. CASE call[t].job # "write"
    <3>1. Passing(t)
      BY <2>2, <1>a, <1>36, Moves DEF Fail, Passing, Rebinding, Acting, Birth
    <3> QED BY <3>1, <1>a, PassingFits
  <2> QED BY <2>1, <2>2
<1>37. ASSUME NEW t \in Thread, NEW j \in PageJob, NEW x \in Adk \cup {NoAdk}, Call(t, j, x) PROVE AgentsFit'
  <2>1. call[t].pc = "idle" /\ call'[t].pc \in {"send", "seize", "wait"}
        /\ \A u \in Thread : u # t => call'[u] = call[u]
    BY <1>a, <1>37 DEF Call, FirstPc, TypeOK, NoCall, Calls
  <2>2. Passing(t)
    BY <2>1, <1>37 DEF Call, Passing, disk, locks, Rebinding, Acting, Birth
  <2> QED BY <2>2, <1>a, PassingFits
<1>38. ASSUME NEW s \in Shell, Boot(s) PROVE AgentsFit'
  <2>1. PICK c \in Caller :
          call' = [call EXCEPT ![<<s, c>>] = [NoCall EXCEPT !.pc = "wait", !.job = "setup"]]
    BY <1>38 DEF Boot
  <2>2. <<s, c>> \in Thread /\ call[<<s, c>>].pc = "idle"
    BY <1>a, <1>38, Threads DEF Boot, LocksAreHeld
  <2>3. call'[<<s, c>>].pc = "wait" /\ \A u \in Thread : u # <<s, c>> => call'[u] = call[u]
    BY <2>1, <2>2, <1>a DEF TypeOK, NoCall, Calls
  <2>4. Passing(<<s, c>>)
    BY <2>2, <2>3, <1>38 DEF Boot, Passing, disk, locks, Rebinding, Acting, Birth
  <2> QED BY <2>2, <2>4, <1>a, PassingFits
<1>39. ASSUME NEW s \in Shell, Crash(s) PROVE AgentsFit'
  <2>1. PICK r \in Shell : Down(r)
    BY <1>39, <1>d DEF Crash
  <2> QED BY <2>1, <1>a, DownFits DEF ScopeInv
<1>40. ASSUME NEW s \in Shell, CancelRelaunch(s) PROVE AgentsFit'
  <2>1. UNCHANGED <<path, agent, slot, call>>
    BY <1>40 DEF CancelRelaunch, disk, locks
  <2> QED BY <2>1, <1>a DEF AgentsFit, Rebinding, Alive
<1>41. ASSUME NEW s \in Shell, CoolDown(s) PROVE AgentsFit'
  <2>1. UNCHANGED <<path, agent, slot, call>>
    BY <1>41 DEF CoolDown, disk, locks
  <2> QED BY <2>1, <1>a DEF AgentsFit, Rebinding, Alive
<1>42. ASSUME NEW s \in Shell, NEW x \in Adk, Store(s, x) PROVE AgentsFit'
  <2>1. UNCHANGED <<path, agent, slot, call>>
    BY <1>42 DEF Store, disk, locks
  <2> QED BY <2>1, <1>a DEF AgentsFit, Rebinding, Alive
<1>43. ASSUME NEW s \in Shell, NEW a \in Agent, Reaper(s, a) PROVE AgentsFit'
  <2>1. UNCHANGED <<path, agent, slot, call>>
    BY <1>43 DEF Reaper, disk, locks
  <2> QED BY <2>1, <1>a DEF AgentsFit, Rebinding, Alive
<1>44. ASSUME NEW a \in Agent, AgentEnds(a) PROVE AgentsFit'
  <2>1. UNCHANGED <<path, slot, call>>
    BY <1>44 DEF AgentEnds, disk, locks
  <2>2. PICK b \in Agent : agent' = [agent EXCEPT ![b].life = "dead"]
    BY <1>44, <1>a, LivingAreAgents, Fields DEF AgentEnds, Orphan
  <2> QED BY <2>1, <2>2, <1>a, EndingFits
<1>45. CASE UNCHANGED vars
  BY <1>45, <1>a DEF vars, disk, locks, AgentsFit, Rebinding, Alive
<1> QED
  BY <1>1, <1>2, <1>3, <1>4, <1>5, <1>6, <1>7, <1>8, <1>9, <1>10, <1>11, <1>12, <1>13,
     <1>14, <1>15, <1>16, <1>17, <1>18, <1>19, <1>20, <1>21, <1>22, <1>23, <1>24, <1>25,
     <1>26, <1>27, <1>28, <1>29, <1>30, <1>31, <1>32, <1>33, <1>34, <1>35, <1>36, <1>37,
     <1>38, <1>39, <1>40, <1>41, <1>42, <1>43, <1>44, <1>45 DEF Next, Step

\* A turn of t that leaves path, scopes and the page alone, and binds nothing.
Keeping(t) ==
    /\ \A u \in Thread : u # t => call'[u] = call[u]
    /\ UNCHANGED <<path, startup, up, web>>
    /\ \A s \in Shell : prepared[s] => prepared'[s]
    /\ call'[t].job # "forget" /\ call'[t].pc # "tell"
    /\ call'[t].pc = "mark" => call'[t].job = "write"
    /\ call'[t].job \in {"write", "startup"} =>
         /\ call'[t].job = call[t].job /\ call'[t].arg = call[t].arg
         /\ call'[t].path = call[t].path /\ call'[t].startup = call[t].startup
         /\ Inside(t)' => Inside(t)
         /\ Rebinding(t)' => Rebinding(t)

\* Such a turn keeps scope and path in agreement.
LEMMA KeepingFits ==
    ASSUME ScopesFit, NEW t \in Thread, Keeping(t)
    PROVE  ScopesFit'
<1>1. \A u \in Thread : Home(u) \in Shell
  BY Threads
<1>2. \A s \in Shell : Committed(s)' => Committed(s)
  BY DEF Keeping, Committed
<1>3. \A u \in Thread : u # t => (Inside(u)' <=> Inside(u)) /\ (Rebinding(u)' <=> Rebinding(u))
  BY DEF Keeping, Inside, Rebinding
<1>4. \A s \in Shell : Pure(startup[s])' /\ (Committed(s)' => Agree(path, startup[s])')
  BY <1>2 DEF ScopesFit, Keeping, Pure, Agree
<1>5. ASSUME NEW u \in Thread, call'[u].job = "write", Inside(u)'
      PROVE  path' = call'[u].arg /\ startup'[Home(u)].scope = call'[u].arg
  BY <1>3, <1>5 DEF ScopesFit, Keeping
<1>6. ASSUME NEW u \in Thread, Rebinding(u)'
      PROVE  Pure(call'[u].startup) /\ (Committed(Home(u))' => Agree(call'[u].path, call'[u].startup))
  <2>1. Rebinding(u) /\ call'[u].startup = call[u].startup /\ call'[u].path = call[u].path
    BY <1>3, <1>6 DEF Keeping, Rebinding
  <2> QED BY <2>1, <1>1, <1>2 DEF ScopesFit
<1>7. ASSUME NEW u \in Thread, call'[u].job = "startup", Inside(u)'
      PROVE  startup'[Home(u)].scope = call'[u].arg
  BY <1>3, <1>7 DEF ScopesFit, Keeping
<1>8. ASSUME NEW u \in Thread, call'[u].job = "forget"
      PROVE  call'[u].pc \in {"wait", "tell"} /\ call'[u].arg = NoAdk /\ prepared'[Home(u)]
  BY <1>1, <1>8 DEF ScopesFit, Keeping
<1>9. ASSUME NEW u \in Thread, call'[u].job = "write"
      PROVE  call'[u].arg \in Adk
  BY <1>9 DEF ScopesFit, Keeping
<1>10. ASSUME NEW u \in Thread, call'[u].pc \in {"mark", "tell"}, call'[u].arg # NoAdk
       PROVE  call'[u].job = "write"
  BY <1>10 DEF ScopesFit, Keeping
<1> QED BY <1>4, <1>5, <1>6, <1>7, <1>8, <1>9, <1>10 DEF ScopesFit, Pure, Agree

\* Messages and agents are of one workspace once the page has bound it.
LEMMA NextScopesFit ==
    ASSUME OneShell, ~DevReset, Inv, ScopeInv, [Next]_vars
    PROVE  ScopesFit'
<1> USE DEF At
<1>a. TypeOK /\ LocksAreHeld /\ HandsFit /\ ScopesFit
  BY DEF Inv, ScopeInv
<1>b. \A t, u \in Thread : Inside(t) /\ (Inside(u) \/ lifecycle[Home(u)] = NoThread) => t = u
  BY <1>a, OneActs
<1>d. \A t \in Thread : Home(t) \in Shell
  BY Threads
<1>e. \A t, u \in Thread : lifecycle[Home(t)] = NoThread /\ call[t].pc = "wait"
        => ~Inside(u) /\ ~Rebinding(u)
  BY <1>b DEF Inside, Rebinding, Acting
<1>f. \A t \in Thread : call[t].pc \notin {"wait", "tell"} => call[t].job # "forget"
  BY <1>a DEF ScopesFit
<1> HIDE DEF Inv, ScopeInv
<1>1. ASSUME NEW t \in Thread, Tell(t) PROVE ScopesFit'
  <2>1. /\ UNCHANGED <<path, startup, up, prepared>> /\ call'[t].job = "none" /\ call'[t].pc = "idle"
        /\ \A u \in Thread : u # t => call'[u] = call[u]
    BY <1>a, <1>1, Moves DEF Tell, disk, flags
  <2>2. call[t].pc = "tell" /\ call'[t].arg = NoAdk
    BY <1>a, <1>1, Moves DEF Tell
  <2>3. \A r \in Shell : web'[r].bound => web[r].bound \/ (r = Home(t) /\ call[t].arg # NoAdk)
    BY <1>a, <1>d, <1>1, Fields DEF Tell, TypeOK, Pages
  <2>4. call[t].arg # NoAdk => call[t].job = "write"
    BY <2>2, <1>a DEF ScopesFit
  <2>5. \A r \in Shell : Committed(r)' => Committed(r)
    BY <2>1, <2>2, <2>3, <2>4 DEF Committed
  <2>6. \A u \in Thread : Rebinding(u)' => u # t /\ Rebinding(u)
    BY <2>1 DEF Rebinding, Acting
  <2>7. \A u \in Thread : Inside(u)' => u # t /\ Inside(u)
    BY <2>1 DEF Inside, Acting
  <2> QED BY <2>1, <2>5, <2>6, <2>7, <1>a, <1>d DEF ScopesFit, Pure, Agree
<1>2. ASSUME NEW t \in Thread, SendStops(t) PROVE ScopesFit'
  <2>1. Keeping(t)
    BY <1>a, <1>d, <1>f, <1>2, Moves, Memories
       DEF SendStops, Keeping, TypeOK, disk, flags, Rebinding, Inside, Acting, LocksAreHeld, HandsFit, Fit
  <2> QED BY <2>1, <1>a, KeepingFits
<1>3. ASSUME NEW t \in Thread, SendFindsNone(t) PROVE ScopesFit'
  <2>1. Keeping(t)
    BY <1>a, <1>d, <1>f, <1>3, Moves, Memories
       DEF SendFindsNone, Keeping, TypeOK, disk, flags, Rebinding, Inside, Acting, LocksAreHeld, HandsFit, Fit
  <2> QED BY <2>1, <1>a, KeepingFits
<1>4. ASSUME NEW t \in Thread, SendFindsLost(t) PROVE ScopesFit'
  <2>1. Keeping(t)
    BY <1>a, <1>d, <1>f, <1>4, Moves, Memories
       DEF SendFindsLost, Seizes, Keeping, TypeOK, disk, flags, Rebinding, Inside, Acting, LocksAreHeld, HandsFit, Fit
  <2> QED BY <2>1, <1>a, KeepingFits
<1>5. ASSUME NEW t \in Thread, SeizeForGood(t) PROVE ScopesFit'
  <2>1. Keeping(t)
    BY <1>a, <1>d, <1>f, <1>5, Moves, Memories
       DEF SeizeForGood, Seizes, Keeping, TypeOK, disk, flags, Rebinding, Inside, Acting, LocksAreHeld, HandsFit, Fit
  <2> QED BY <2>1, <1>a, KeepingFits
<1>6. ASSUME NEW t \in Thread, SeizeNothing(t) PROVE ScopesFit'
  <2>1. Keeping(t)
    BY <1>a, <1>d, <1>f, <1>6, Moves, Memories
       DEF SeizeNothing, Keeping, TypeOK, disk, flags, Rebinding, Inside, Acting, LocksAreHeld, HandsFit, Fit
  <2> QED BY <2>1, <1>a, KeepingFits
<1>7. ASSUME NEW t \in Thread, DropEnds(t) PROVE ScopesFit'
  <2>1. Keeping(t)
    BY <1>a, <1>d, <1>f, <1>7, Moves, Memories
       DEF DropEnds, AfterDrop, Keeping, TypeOK, disk, flags, Rebinding, Inside, Acting, LocksAreHeld, HandsFit, Fit
  <2> QED BY <2>1, <1>a, KeepingFits
<1>8. ASSUME NEW t \in Thread, Exit(t) PROVE ScopesFit'
  <2>1. PICK r \in Shell : Down(r)
    BY <1>8, <1>d DEF Exit
  <2> QED BY <2>1, <1>a, DownFits DEF ScopeInv
<1>9. ASSUME NEW t \in Thread, Reserve(t) PROVE ScopesFit'
  <2>1. Keeping(t)
    BY <1>a, <1>d, <1>f, <1>9, Moves, Memories
       DEF Reserve, Keeping, TypeOK, disk, flags, Rebinding, Inside, Acting, LocksAreHeld, HandsFit, Fit
  <2> QED BY <2>1, <1>a, KeepingFits
<1>10. ASSUME NEW t \in Thread, TurnedAway(t) PROVE ScopesFit'
  <2>1. Keeping(t)
    BY <1>a, <1>d, <1>f, <1>10, Moves, Memories
       DEF TurnedAway, Keeping, TypeOK, disk, flags, Rebinding, Inside, Acting, LocksAreHeld, HandsFit, Fit
  <2> QED BY <2>1, <1>a, KeepingFits
<1>11. ASSUME NEW t \in Thread, Enter(t) PROVE ScopesFit'
  <2>1. /\ UNCHANGED <<path, startup, up, web, prepared>>
        /\ \A u \in Thread : u # t => call'[u] = call[u]
    BY <1>a, <1>11, Moves DEF Enter, FirstInside, disk, flags
  <2>2. /\ call[t].pc = "wait" /\ call'[t].pc \in {"take", "spawn", "check"}
        /\ call'[t].job = call[t].job /\ call'[t].arg = call[t].arg
        /\ call[t].job \notin {"write", "forget"}
        /\ call[t].job = "startup" => startup[Home(t)].scope = call[t].arg
    BY <1>a, <1>11, Moves DEF Enter, FirstInside
  <2>3. \A r \in Shell : Committed(r)' => Committed(r)
    BY <2>1, <2>2 DEF Committed
  <2>4. \A u \in Thread : Rebinding(u)' => u # t /\ Rebinding(u)
    BY <2>1, <2>2 DEF Rebinding
  <2>5. \A u \in Thread : Inside(u)' => u = t \/ Inside(u)
    BY <2>1 DEF Inside
  <2> QED BY <2>1, <2>2, <2>3, <2>4, <2>5, <1>a, <1>d DEF ScopesFit, Pure, Agree
<1>12. ASSUME NEW t \in Thread, EnterWrite(t) PROVE ScopesFit'
  <2>1. /\ UNCHANGED <<up, web, prepared>> /\ path' = call[t].arg /\ call[t].job = "write"
        /\ \A u \in Thread : u # t => call'[u] = call[u]
        /\ call[t].pc = "wait" /\ call'[t].pc \in {"tell", "take"}
        /\ call'[t].job = "write" /\ call'[t].arg = call[t].arg
    BY <1>a, <1>12, Moves DEF EnterWrite
  <2>2. call'[t].pc = "take" => call'[t].path = path /\ call'[t].startup = startup[Home(t)]
    BY <1>a, <1>12, Moves, Memories DEF EnterWrite
  <2>3. \A r \in Shell : startup'[r] = Scoped(startup[r], call[t].arg)
    BY <1>a, <1>d, <1>12 DEF EnterWrite, OneShell, TypeOK
  <2>4. \A r \in Shell : Pure(startup[r])' /\ startup'[r].scope = path'
    BY <2>1, <2>3, <1>a DEF Scoped, Pure, ScopesFit
  <2>5. \A u \in Thread : u # t => ~Inside(u)' /\ ~Rebinding(u)'
    BY <2>1, <1>e, <1>12 DEF EnterWrite, Inside, Rebinding
  <2>6. call'[t].pc = "take" => \A r \in Shell : Committed(r)' => Committed(r)
    BY <2>1 DEF Committed
  <2>7. Rebinding(t)' => call'[t].pc = "take"
    BY <2>1 DEF Rebinding, Acting
  <2>8. \A u \in Thread :
          /\ call'[u].job = "forget" => call'[u].pc \in {"wait", "tell"} /\ call'[u].arg = NoAdk
                                       /\ prepared'[Home(u)]
          /\ call'[u].job = "write" => call'[u].arg \in Adk
          /\ call'[u].pc \in {"mark", "tell"} /\ call'[u].arg # NoAdk => call'[u].job = "write"
    BY <2>1, <1>a DEF ScopesFit
  <2>9. ASSUME Rebinding(t)'
        PROVE  Pure(call'[t].startup)
               /\ (Committed(Home(t))' => Agree(call'[t].path, call'[t].startup))
    BY <2>2, <2>6, <2>7, <2>9, <1>a, <1>d DEF ScopesFit
  <2> QED BY <2>1, <2>4, <2>5, <2>8, <2>9, <1>d DEF ScopesFit, Agree
<1>13. ASSUME NEW t \in Thread, Forget(t) PROVE ScopesFit'
  <2>1. /\ UNCHANGED <<up, web, prepared>> /\ path' = NoAdk /\ call[t].job = "forget"
        /\ \A u \in Thread : u # t => call'[u] = call[u]
        /\ call'[t].pc = "tell" /\ call'[t].job = "forget" /\ call'[t].arg = call[t].arg
    BY <1>a, <1>13, Moves DEF Forget, flags
  <2>2. \A r \in Shell : startup'[r] = Unbound
    BY <1>a, <1>d, <1>13 DEF Forget, OneShell, TypeOK
  <2>3. \A r \in Shell : Pure(startup[r])'
    BY <2>2 DEF Pure, Unbound
  <2>4. \A u \in Thread : ~Inside(u)' /\ ~Rebinding(u)'
    BY <2>1, <1>e, <1>13 DEF Forget, Inside, Rebinding, Acting
  <2>5. \A u \in Thread :
          /\ call'[u].job = "forget" => call'[u].pc \in {"wait", "tell"} /\ call'[u].arg = NoAdk
                                       /\ prepared'[Home(u)]
          /\ call'[u].job = "write" => call'[u].arg \in Adk
          /\ call'[u].pc \in {"mark", "tell"} /\ call'[u].arg # NoAdk => call'[u].job = "write"
    BY <2>1, <1>a DEF ScopesFit
  <2> QED BY <2>1, <2>3, <2>4, <2>5 DEF ScopesFit, Agree
<1>14. ASSUME NEW t \in Thread, CheckFinds(t) PROVE ScopesFit'
  <2>1. Keeping(t)
    BY <1>a, <1>d, <1>f, <1>14, Moves, Memories
       DEF CheckFinds, Keeping, TypeOK, disk, flags, Rebinding, Inside, Acting, LocksAreHeld, HandsFit, Fit
  <2> QED BY <2>1, <1>a, KeepingFits
<1>15. ASSUME NEW t \in Thread, CheckFindsLost(t) PROVE ScopesFit'
  <2>1. Keeping(t)
    BY <1>a, <1>d, <1>f, <1>15, Moves, Memories
       DEF CheckFindsLost, Seizes, Keeping, TypeOK, disk, flags, Rebinding, Inside, Acting, LocksAreHeld, HandsFit, Fit
  <2> QED BY <2>1, <1>a, KeepingFits
<1>16. ASSUME NEW t \in Thread, Take(t) PROVE ScopesFit'
  <2>1. /\ UNCHANGED <<path, startup, up, web, prepared>> /\ call[t].pc = "take"
        /\ \A u \in Thread : u # t => call'[u] = call[u]
    BY <1>a, <1>16, Moves DEF Take, disk, flags
  <2>2. call'[t].job = "none" \/ (call'[t].job = call[t].job /\ call'[t].arg = call[t].arg
          /\ call'[t].path = call[t].path /\ call'[t].startup = call[t].startup)
    BY <1>a, <1>16, Moves, Memories DEF Take
  <2>3. call'[t].pc \in {"idle", "spawn", "drain"}
    BY <1>a, <1>16, Moves DEF Take
  <2>4. Keeping(t)
    BY <2>1, <2>2, <2>3, <1>f DEF Keeping, Rebinding, Inside, Acting
  <2> QED BY <2>4, <1>a, KeepingFits
<1>17. ASSUME NEW t \in Thread, TakeStops(t) PROVE ScopesFit'
  <2>1. Keeping(t)
    BY <1>a, <1>d, <1>f, <1>17, Moves, Memories
       DEF TakeStops, Keeping, TypeOK, disk, flags, Rebinding, Inside, Acting, LocksAreHeld, HandsFit, Fit
  <2> QED BY <2>1, <1>a, KeepingFits
<1>18. ASSUME NEW t \in Thread, Drained(t) PROVE ScopesFit'
  <2>1. Keeping(t)
    BY <1>a, <1>d, <1>f, <1>18, Moves, Memories
       DEF Drained, Keeping, TypeOK, disk, flags, Rebinding, Inside, Acting, LocksAreHeld, HandsFit, Fit
  <2> QED BY <2>1, <1>a, KeepingFits
<1>19. ASSUME NEW t \in Thread, DrainFails(t) PROVE ScopesFit'
  <2>1. Keeping(t)
    BY <1>a, <1>d, <1>f, <1>19, Moves, Memories
       DEF DrainFails, Keeping, TypeOK, disk, flags, Rebinding, Inside, Acting, LocksAreHeld, HandsFit, Fit
  <2> QED BY <2>1, <1>a, KeepingFits
<1>20. ASSUME NEW t \in Thread, PutBack(t) PROVE ScopesFit'
  <2>1. Keeping(t)
    BY <1>a, <1>d, <1>f, <1>20, Moves, Memories
       DEF PutBack, Keeping, TypeOK, disk, flags, Rebinding, Inside, Acting, LocksAreHeld, HandsFit, Fit
  <2> QED BY <2>1, <1>a, KeepingFits
<1>21. ASSUME NEW t \in Thread, LockLease(t) PROVE ScopesFit'
  <2>1. /\ UNCHANGED <<path, startup, up, web, prepared>> /\ call[t].pc = "spawn"
        /\ \A u \in Thread : u # t => call'[u] = call[u]
    BY <1>a, <1>21, Moves DEF LockLease, disk, flags
  <2>2. call'[t].job = "none" \/ (call'[t].job = call[t].job /\ call'[t].arg = call[t].arg
          /\ call'[t].path = call[t].path /\ call'[t].startup = call[t].startup)
    BY <1>a, <1>21, Moves, Memories DEF LockLease
  <2>3. call'[t].pc \in {"idle", "judge"}
    BY <1>a, <1>21, Moves DEF LockLease
  <2>4. Keeping(t)
    BY <2>1, <2>2, <2>3, <1>f DEF Keeping, Rebinding, Inside, Acting
  <2> QED BY <2>4, <1>a, KeepingFits
<1>22. ASSUME NEW t \in Thread, SpawnRefused(t) PROVE ScopesFit'
  <2>1. Keeping(t)
    BY <1>a, <1>d, <1>f, <1>22, Moves, Memories
       DEF SpawnRefused, Keeping, TypeOK, disk, flags, Rebinding, Inside, Acting, LocksAreHeld, HandsFit, Fit
  <2> QED BY <2>1, <1>a, KeepingFits
<1>23. ASSUME NEW t \in Thread, ReapOrphan(t) PROVE ScopesFit'
  <2>1. UNCHANGED <<path, startup, web, up, call, prepared>>
    BY <1>23 DEF ReapOrphan, disk, flags
  <2> QED BY <2>1, <1>a DEF ScopesFit, Committed, Rebinding, Inside, Pure, Agree
<1>24. ASSUME NEW t \in Thread, Blocked(t) PROVE ScopesFit'
  <2>1. Keeping(t)
    BY <1>a, <1>d, <1>f, <1>24, Moves, Memories
       DEF Blocked, Keeping, TypeOK, disk, flags, Rebinding, Inside, Acting, LocksAreHeld, HandsFit, Fit
  <2> QED BY <2>1, <1>a, KeepingFits
<1>25. ASSUME NEW t \in Thread, Clear(t) PROVE ScopesFit'
  <2>1. Keeping(t)
    BY <1>a, <1>d, <1>f, <1>25, Moves, Memories
       DEF Clear, Keeping, TypeOK, disk, flags, Rebinding, Inside, Acting, LocksAreHeld, HandsFit, Fit
  <2> QED BY <2>1, <1>a, KeepingFits
<1>26. ASSUME NEW t \in Thread, Prepare(t) PROVE ScopesFit'
  <2>1. Keeping(t)
    BY <1>a, <1>d, <1>f, <1>26, Moves, Memories
       DEF Prepare, Keeping, TypeOK, disk, flags, Rebinding, Inside, Acting, LocksAreHeld, HandsFit, Fit
  <2> QED BY <2>1, <1>a, KeepingFits
<1>27. ASSUME NEW t \in Thread, Launch(t) PROVE ScopesFit'
  <2>1. Keeping(t)
    BY <1>a, <1>d, <1>f, <1>27, Moves, Memories
       DEF Launch, Keeping, TypeOK, disk, flags, Rebinding, Inside, Acting, LocksAreHeld, HandsFit, Fit
  <2> QED BY <2>1, <1>a, KeepingFits
<1>28. ASSUME NEW t \in Thread, LaunchFails(t) PROVE ScopesFit'
  <2>1. Keeping(t)
    BY <1>a, <1>d, <1>f, <1>28, Moves, Memories
       DEF LaunchFails, Keeping, TypeOK, disk, flags, Rebinding, Inside, Acting, LocksAreHeld, HandsFit, Fit
  <2> QED BY <2>1, <1>a, KeepingFits
<1>29. ASSUME NEW t \in Thread, Record(t) PROVE ScopesFit'
  <2>1. Keeping(t)
    BY <1>a, <1>d, <1>f, <1>29, Moves, Memories
       DEF Record, Keeping, TypeOK, disk, flags, Rebinding, Inside, Acting, LocksAreHeld, HandsFit, Fit
  <2> QED BY <2>1, <1>a, KeepingFits
<1>30. ASSUME NEW t \in Thread, Handshake(t) PROVE ScopesFit'
  <2>1. Keeping(t)
    BY <1>a, <1>d, <1>f, <1>30, Moves, Memories
       DEF Handshake, Keeping, TypeOK, disk, flags, Rebinding, Inside, Acting, LocksAreHeld, HandsFit, Fit
  <2> QED BY <2>1, <1>a, KeepingFits
<1>31. ASSUME NEW t \in Thread, Abort(t) PROVE ScopesFit'
  <2>1. Keeping(t)
    BY <1>a, <1>d, <1>f, <1>31, Moves, Memories
       DEF Abort, Keeping, TypeOK, disk, flags, Rebinding, Inside, Acting, LocksAreHeld, HandsFit, Fit
  <2> QED BY <2>1, <1>a, KeepingFits
<1>32. ASSUME NEW t \in Thread, Publish(t) PROVE ScopesFit'
  <2>1. Keeping(t)
    BY <1>a, <1>d, <1>f, <1>32, Moves, Memories
       DEF Publish, Keeping, TypeOK, disk, flags, Rebinding, Inside, Acting, LocksAreHeld, HandsFit, Fit
  <2> QED BY <2>1, <1>a, KeepingFits
<1>33. ASSUME NEW t \in Thread, Replay(t) PROVE ScopesFit'
  <2>1. Keeping(t)
    BY <1>a, <1>d, <1>f, <1>33, Moves, Memories
       DEF Replay, Keeping, TypeOK, disk, flags, Rebinding, Inside, Acting, LocksAreHeld, HandsFit, Fit
  <2> QED BY <2>1, <1>a, KeepingFits
<1>34. ASSUME NEW t \in Thread, Deliver(t) PROVE ScopesFit'
  <2>1. Keeping(t)
    BY <1>a, <1>d, <1>f, <1>34, Moves, Memories
       DEF Deliver, Keeping, TypeOK, disk, flags, Rebinding, Inside, Acting, LocksAreHeld, HandsFit, Fit
  <2> QED BY <2>1, <1>a, KeepingFits
<1>35. ASSUME NEW t \in Thread, Mark(t) PROVE ScopesFit'
  <2>1. /\ UNCHANGED <<path, startup, up, web, prepared>>
        /\ \A u \in Thread : u # t => call'[u] = call[u]
    BY <1>a, <1>35, Moves DEF Mark, disk, flags
  <2>2. /\ call[t].pc = "mark" /\ call'[t].pc \in {"idle", "tell"}
        /\ call'[t].pc = "tell" => call'[t].job = call[t].job /\ call'[t].arg = call[t].arg
        /\ call'[t].pc = "idle" => call'[t].job = "none"
    BY <1>a, <1>35, Moves DEF Mark
  <2>3. Inside(t) /\ call[t].job # "forget"
    BY <2>2, <1>f DEF Inside, Acting
  <2>4. \A u \in Thread : ~Inside(u)' /\ ~Rebinding(u)'
    BY <2>1, <2>2, <2>3, <1>b DEF Inside, Rebinding, Acting
  <2>5. \A r \in Shell : Committed(r)' => Committed(r) \/ (r = Home(t) /\ call[t].job = "write")
    BY <2>1, <2>2 DEF Committed
  <2>6. call[t].job = "write" => startup[Home(t)].scope = path
    BY <2>3, <1>a DEF ScopesFit
  <2>7. \A r \in Shell : Pure(startup[r])' /\ (Committed(r)' => Agree(path, startup[r])')
    BY <2>1, <2>5, <2>6, <1>a DEF ScopesFit, Pure, Agree
  <2>8. \A u \in Thread :
          /\ call'[u].job = "forget" => call'[u].pc \in {"wait", "tell"} /\ call'[u].arg = NoAdk
                                       /\ prepared'[Home(u)]
          /\ call'[u].job = "write" => call'[u].arg \in Adk
          /\ call'[u].pc \in {"mark", "tell"} /\ call'[u].arg # NoAdk => call'[u].job = "write"
    BY <2>1, <2>2, <2>3, <1>a DEF ScopesFit
  <2> QED BY <2>4, <2>7, <2>8 DEF ScopesFit
<1>36. ASSUME NEW t \in Thread, Fail(t) PROVE ScopesFit'
  <2>1. CASE call[t].job = "write"
    <3>1. /\ UNCHANGED <<up, web, prepared>> /\ path' = call[t].path /\ call[t].pc = "fail"
          /\ \A u \in Thread : u # t => call'[u] = call[u]
          /\ call'[t].pc = "idle" /\ call'[t].job = "none"
      BY <2>1, <1>a, <1>36, Moves DEF Fail
    <3>2. \A r \in Shell : startup'[r] = call[t].startup
      BY <2>1, <1>a, <1>d, <1>36 DEF Fail, OneShell, TypeOK
    <3>3. Inside(t) /\ Rebinding(t)
      BY <2>1, <3>1 DEF Inside, Rebinding, Acting
    <3>4. \A u \in Thread : ~Inside(u)' /\ ~Rebinding(u)'
      BY <3>1, <3>3, <1>b DEF Inside, Rebinding, Acting
    <3>5. \A r \in Shell : Committed(r)' => Committed(r)
      BY <3>1 DEF Committed
    <3>6. \A r \in Shell : Pure(startup[r])' /\ (Committed(r)' => Agree(path, startup[r])')
      BY <3>1, <3>2, <3>3, <3>5, <1>a, <1>d DEF ScopesFit, OneShell, Pure, Agree
    <3>7. \A u \in Thread :
            /\ call'[u].job = "forget" => call'[u].pc \in {"wait", "tell"} /\ call'[u].arg = NoAdk
                                         /\ prepared'[Home(u)]
            /\ call'[u].job = "write" => call'[u].arg \in Adk
            /\ call'[u].pc \in {"mark", "tell"} /\ call'[u].arg # NoAdk => call'[u].job = "write"
      BY <3>1, <1>a DEF ScopesFit
    <3> QED BY <3>4, <3>6, <3>7 DEF ScopesFit
  <2>2. CASE call[t].job # "write"
    <3>1. /\ UNCHANGED <<path, startup, up, web, prepared>>
          /\ \A u \in Thread : u # t => call'[u] = call[u]
          /\ call'[t].pc = "idle" /\ call'[t].job = "none"
      BY <2>2, <1>a, <1>36, Moves DEF Fail
    <3>2. Keeping(t)
      BY <3>1 DEF Keeping
    <3> QED BY <3>2, <1>a, KeepingFits
  <2> QED BY <2>1, <2>2
<1>37. ASSUME NEW t \in Thread, NEW j \in PageJob, NEW x \in Adk \cup {NoAdk}, Call(t, j, x) PROVE ScopesFit'
  <2>1. /\ UNCHANGED <<path, startup, up, web, prepared>>
        /\ \A u \in Thread : u # t => call'[u] = call[u]
        /\ call'[t].pc \in {"send", "seize", "wait"} /\ call'[t].job = j /\ call'[t].arg = x
    BY <1>a, <1>37 DEF Call, FirstPc, TypeOK, NoCall, Calls, disk
  <2>2. /\ j = "forget" => x = NoAdk /\ prepared[Home(t)] /\ call'[t].pc = "wait"
        /\ j = "write" => x \in Adk
    BY <1>a, <1>37 DEF Call, FirstPc, TypeOK, NoCall, Calls
  <2>3. \A r \in Shell : Committed(r)' => Committed(r)
    BY <2>1 DEF Committed
  <2>4. \A u \in Thread : Rebinding(u)' => u # t /\ Rebinding(u)
    BY <2>1 DEF Rebinding, Acting
  <2>5. \A u \in Thread : Inside(u)' => u # t /\ Inside(u)
    BY <2>1 DEF Inside, Acting
  <2>6. \A r \in Shell : Pure(startup[r])' /\ (Committed(r)' => Agree(path, startup[r])')
    BY <2>1, <2>3, <1>a DEF ScopesFit, Pure, Agree
  <2>7. \A u \in Thread :
          /\ call'[u].job = "forget" => call'[u].pc \in {"wait", "tell"} /\ call'[u].arg = NoAdk
                                       /\ prepared'[Home(u)]
          /\ call'[u].job = "write" => call'[u].arg \in Adk
          /\ call'[u].pc \in {"mark", "tell"} /\ call'[u].arg # NoAdk => call'[u].job = "write"
    BY <2>1, <2>2, <1>a DEF ScopesFit
  <2>8. \A u \in Thread :
          /\ call'[u].job = "write" /\ Inside(u)' =>
               path' = call'[u].arg /\ startup'[Home(u)].scope = call'[u].arg
          /\ call'[u].job = "startup" /\ Inside(u)' => startup'[Home(u)].scope = call'[u].arg
    BY <2>1, <2>5, <1>a DEF ScopesFit
  <2>9. ASSUME NEW u \in Thread, Rebinding(u)'
        PROVE  Pure(call'[u].startup)
               /\ (Committed(Home(u))' => Agree(call'[u].path, call'[u].startup))
    BY <2>1, <2>3, <2>4, <2>9, <1>a, <1>d DEF ScopesFit
  <2> QED BY <2>6, <2>7, <2>8, <2>9 DEF ScopesFit
<1>38. ASSUME NEW s \in Shell, Boot(s) PROVE ScopesFit'
  <2>1. PICK c \in Caller :
          call' = [call EXCEPT ![<<s, c>>] = [NoCall EXCEPT !.pc = "wait", !.job = "setup"]]
    BY <1>38 DEF Boot
  <2>2. <<s, c>> \in Thread /\ ~up[s] /\ UNCHANGED <<path, startup, prepared>>
    BY <1>38, Threads DEF Boot, disk, flags
  <2>3. /\ call'[<<s, c>>].pc = "wait" /\ call'[<<s, c>>].job = "setup"
        /\ \A u \in Thread : u # <<s, c>> => call'[u] = call[u]
    BY <2>1, <2>2, <1>a DEF TypeOK, NoCall, Calls
  <2>4. \A u \in Thread : call[u].pc = "idle"
    BY <2>2, <1>a, <1>d DEF LocksAreHeld, OneShell
  <2>5. \A r \in Shell : r = s /\ ~web'[r].bound
    BY <1>38, <1>a DEF Boot, OneShell, TypeOK
  <2>6. \A u \in Thread : ~Inside(u)' /\ ~Rebinding(u)' /\ call'[u].pc \notin {"mark", "tell"}
    BY <2>3, <2>4 DEF Inside, Rebinding, Acting
  <2>7. \A r \in Shell : ~Committed(r)'
    BY <2>5, <2>6 DEF Committed
  <2>8. \A u \in Thread :
          /\ call'[u].job # "forget"
          /\ call'[u].job = "write" => call'[u].arg \in Adk
    BY <2>3, <2>4, <1>a DEF ScopesFit
  <2> QED BY <2>2, <2>6, <2>7, <2>8, <1>a DEF ScopesFit, Pure
<1>39. ASSUME NEW s \in Shell, Crash(s) PROVE ScopesFit'
  <2>1. PICK r \in Shell : Down(r)
    BY <1>39, <1>d DEF Crash
  <2> QED BY <2>1, <1>a, DownFits DEF ScopeInv
<1>40. ASSUME NEW s \in Shell, CancelRelaunch(s) PROVE ScopesFit'
  <2>1. UNCHANGED <<path, startup, up, web, call>>
    BY <1>40 DEF CancelRelaunch, disk
  <2>2. \A u \in Thread : call[u].job # "forget"
    <3>1. \A u \in Thread : \E c \in Caller : u = <<s, c>>
      BY DEF Thread, OneShell
    <3> QED BY <3>1, <1>40 DEF CancelRelaunch
  <2> QED BY <2>1, <2>2, <1>a DEF ScopesFit, Committed, Rebinding, Inside, Pure, Agree
<1>41. ASSUME NEW s \in Shell, CoolDown(s) PROVE ScopesFit'
  <2>1. UNCHANGED <<path, startup, web, up, call, prepared>>
    BY <1>41 DEF CoolDown, disk, flags
  <2> QED BY <2>1, <1>a DEF ScopesFit, Committed, Rebinding, Inside, Pure, Agree
<1>42. ASSUME NEW s \in Shell, NEW x \in Adk, Store(s, x) PROVE ScopesFit'
  <2>1. UNCHANGED <<path, up, web, call, prepared>>
    BY <1>42 DEF Store, disk, flags
  <2>2. \A r \in Shell : /\ startup'[r].scope = x /\ startup'[r].cache = startup[r].cache \cup {x}
                        /\ startup[r].scope \in {x, NoAdk}
    BY <1>42, <1>a DEF Store, OneShell, TypeOK, Startup
  <2>3. x # NoAdk /\ \A r \in Shell : startup[r].cache \subseteq Adk /\ NoAdk \notin Adk
    BY <1>a, Fields, AgentAssumption
  <2>4. \A r \in Shell : Pure(startup[r])'
    BY <2>2, <2>3, <1>a DEF ScopesFit, Pure
  <2>5. \A r \in Shell : Committed(r)' => Agree(path, startup[r])'
    BY <2>1, <2>2, <2>3, <1>a DEF ScopesFit, Agree, Committed
  <2>6. \A u \in Thread : /\ call[u].job = "write" => call[u].arg # NoAdk
                          /\ call[u].job = "startup" => call[u].arg # NoAdk
    BY <2>3, <1>a DEF ScopesFit, HandsFit, Fit
  <2>7. \A u \in Thread : Inside(u) /\ call[u].job \in {"write", "startup"}
          => startup'[Home(u)].scope = startup[Home(u)].scope
    BY <2>2, <2>6, <1>a, <1>d DEF ScopesFit
  <2>8. \A u \in Thread : (Inside(u)' <=> Inside(u)) /\ (Rebinding(u)' <=> Rebinding(u))
    BY <2>1 DEF Inside, Rebinding
  <2>9. \A r \in Shell : Committed(r)' <=> Committed(r)
    BY <2>1 DEF Committed
  <2> QED BY <2>1, <2>4, <2>5, <2>7, <2>8, <2>9, <1>a, <1>d DEF ScopesFit
<1>43. ASSUME NEW s \in Shell, NEW a \in Agent, Reaper(s, a) PROVE ScopesFit'
  <2>1. UNCHANGED <<path, startup, web, up, call, prepared>>
    BY <1>43 DEF Reaper, disk, flags
  <2> QED BY <2>1, <1>a DEF ScopesFit, Committed, Rebinding, Inside, Pure, Agree
<1>44. ASSUME NEW a \in Agent, AgentEnds(a) PROVE ScopesFit'
  <2>1. UNCHANGED <<path, startup, web, up, call, prepared>>
    BY <1>44 DEF AgentEnds, disk, flags
  <2> QED BY <2>1, <1>a DEF ScopesFit, Committed, Rebinding, Inside, Pure, Agree
<1>45. CASE UNCHANGED vars
  <2>1. UNCHANGED <<path, startup, web, up, call, prepared>>
    BY <1>45 DEF vars, disk, flags
  <2> QED BY <2>1, <1>a DEF ScopesFit, Committed, Rebinding, Inside, Pure, Agree
<1> QED
  BY <1>1, <1>2, <1>3, <1>4, <1>5, <1>6, <1>7, <1>8, <1>9, <1>10, <1>11, <1>12, <1>13,
     <1>14, <1>15, <1>16, <1>17, <1>18, <1>19, <1>20, <1>21, <1>22, <1>23, <1>24, <1>25,
     <1>26, <1>27, <1>28, <1>29, <1>30, <1>31, <1>32, <1>33, <1>34, <1>35, <1>36, <1>37,
     <1>38, <1>39, <1>40, <1>41, <1>42, <1>43, <1>44, <1>45 DEF Next, Step

\* At first there is no agent, no scope and no command.
LEMMA InitScopeInv == Init => ScopeInv
BY Threads DEF Init, ScopeInv, OwnAgents, AgentsFit, ScopesFit, Pure, Committed, Rebinding, Alive,
   Unbound, NoCall, Inside, Acting, Birth

\* No step of a shell that has bound its workspace sends an agent of one
\* workspace messages of another.
LEMMA NextScoped ==
    ASSUME OneShell, Inv, ScopeInv, [Next]_vars, NEW a \in Agent, NEW x \in Adk, NEW s \in Shell,
           <<a, x>> \in foreign' \ foreign, web[s].bound
    PROVE  agent[a].adk = NoAdk
<1>a. TypeOK /\ LocksAreHeld /\ HandsFit /\ AgentsFit /\ ScopesFit
  BY DEF Inv, ScopeInv
<1>1. PICK t \in Thread : Replay(t) \/ Deliver(t)
  <2>1. foreign' # foreign
    OBVIOUS
  <2>2. \A t \in Thread : Step(t) => Replay(t) \/ Deliver(t) \/ Exit(t)
    BY <2>1 DEF Step, Tell, SendStops, SendFindsNone, SendFindsLost, Seizes, SeizeForGood,
       SeizeNothing, DropEnds, Reserve, TurnedAway, Enter, EnterWrite, Forget, CheckFinds,
       CheckFindsLost, Take, TakeStops, Drained, DrainFails, PutBack, LockLease,
       SpawnRefused, ReapOrphan, Blocked, Clear, Prepare, Launch, LaunchFails, Record,
       Handshake, Abort, Publish, Mark, Fail
  <2>3. \A t \in Thread : ~Exit(t)
    BY <2>1 DEF Exit, Down
  <2>4. \A t \in Thread, j \in PageJob, y \in Adk \cup {NoAdk} : ~Call(t, j, y)
    BY <2>1 DEF Call
  <2>5. \A r \in Shell : /\ ~Boot(r) /\ ~Crash(r) /\ ~CancelRelaunch(r) /\ ~CoolDown(r)
                         /\ \A y \in Adk : ~Store(r, y)
                         /\ \A b \in Agent : ~Reaper(r, b)
    BY <2>1 DEF Boot, Crash, Down, CancelRelaunch, CoolDown, Store, Reaper
  <2>6. \A b \in Agent : ~AgentEnds(b)
    BY <2>1 DEF AgentEnds
  <2>7. Next
    BY <2>1 DEF vars
  <2> QED BY <2>2, <2>3, <2>4, <2>5, <2>6, <2>7 DEF Next
<1>2. Home(t) \in Shell /\ s = Home(t)
  BY Threads DEF OneShell
<1>3. call[t].pc \in {"replay", "deliver"}
  BY <1>1 DEF Replay, Deliver, At
<1>4. PICK X : (X = startup[s].cache \/ X = {call[t].arg}) /\ Sent(slot[s], X)
          /\ (X = {call[t].arg} => call[t].pc = "deliver" \/ X = startup[s].cache)
  <2>1. CASE Replay(t)
    BY <2>1, <1>2 DEF Replay
  <2>2. CASE Deliver(t)
    BY <2>2, <1>2 DEF Deliver, At
  <2> QED BY <1>1, <2>1, <2>2
<1>5. a = slot[s] /\ x \in X /\ agent[a].adk # x
  BY <1>4 DEF Sent
<1>6. up[s] /\ Committed(s)
  BY <1>a, <1>2, <1>3 DEF LocksAreHeld, Committed
<1>7. agent[a].adk = path
  BY <1>a, <1>2, <1>3, <1>5, AgentAssumption DEF AgentsFit
<1>8. x = startup[s].scope
  <2>1. CASE X = startup[s].cache
    BY <2>1, <1>5, <1>a DEF ScopesFit, Pure
  <2>2. CASE X = {call[t].arg} /\ call[t].pc = "deliver"
    BY <2>2, <1>2, <1>5, <1>a DEF ScopesFit, HandsFit, Fit, Inside, Acting
  <2> QED BY <1>4, <2>1, <2>2
<1>9. path = NoAdk \/ startup[s].scope = path
  BY <1>6, <1>a DEF ScopesFit, Agree
<1> QED BY <1>5, <1>7, <1>8, <1>9

\* Once the page has bound its workspace, an agent is sent startup messages of its own
\* only (ScopedMessages), for any number of commands, agents and workspaces and with every
\* fault, in a released build: a development build goes on after it forgot the workspace.
THEOREM MessagesAreScoped ==
    ASSUME OneShell, ~DevReset
    PROVE  Spec => ScopedMessages
<1>1. Init => ScopeInv
  BY InitScopeInv
<1>2. Inv /\ ScopeInv /\ [Next]_vars => ScopeInv'
  BY NextOwnAgents, NextAgentsFit, NextScopesFit DEF ScopeInv
<1>3. Inv /\ ScopeInv /\ [Next]_vars =>
        [\A a \in Agent, x \in Adk : \A s \in Shell :
           <<a, x>> \in foreign' \ foreign /\ agent[a].parent = s /\ web[s].bound
             => agent[a].adk = NoAdk]_vars
  BY NextScoped
<1> QED BY <1>1, <1>2, <1>3, InvariantHolds, PTL DEF Spec, ScopedMessages
=============================================================================
