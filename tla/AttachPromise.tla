--------------------------- MODULE AttachPromise ---------------------------
(***************************************************************************)
(* What the attach ledger promises its clients, without requests, answers, *)
(* events or generations: a tab has at most one holder, a session lives on *)
(* one held tab and belongs to its holder, and a session that ended never  *)
(* returns (docs/progress/issue-582-ego-browser-host.md, section 4.3.1).   *)
(***************************************************************************)
CONSTANTS Conn, Target, Session, NoConn, NoTarget

VARIABLES
    holder,   \* the connection a tab is granted to
    owner,    \* the connection a live session belongs to
    at,       \* the tab a live session is on
    dead      \* sessions that can never be used again

promiseVars == <<holder, owner, at, dead>>

Init ==
    /\ holder = [t \in Target |-> NoConn]
    /\ owner = [s \in Session |-> NoConn]
    /\ at = [s \in Session |-> NoTarget]
    /\ dead = {}

\* The sessions on the tabs T end, for good.
EndSessionsOn(T) ==
    LET gone == {s \in Session : at[s] \in T}
    IN  /\ owner' = [s \in Session |-> IF s \in gone THEN NoConn ELSE owner[s]]
        /\ at' = [s \in Session |-> IF s \in gone THEN NoTarget ELSE at[s]]
        /\ dead' = dead \cup gone

\* A free tab is granted; its holder may ask again and starts over.
Grant(c, t) ==
    /\ holder[t] \in {NoConn, c}
    /\ holder' = [holder EXCEPT ![t] = c]
    /\ EndSessionsOn({t})

\* The holder's one session on the tab begins.
Attach(t, s) ==
    /\ holder[t] # NoConn
    /\ s \notin dead
    /\ owner[s] = NoConn
    /\ \A r \in Session : at[r] # t
    /\ owner' = [owner EXCEPT ![s] = holder[t]]
    /\ at' = [at EXCEPT ![s] = t]
    /\ UNCHANGED <<holder, dead>>

Revoke(T) ==
    /\ holder' = [t \in Target |-> IF t \in T THEN NoConn ELSE holder[t]]
    /\ EndSessionsOn(T)

\* A session nobody owns is refused.
Refuse(s) ==
    /\ owner[s] = NoConn
    /\ dead' = dead \cup {s}
    /\ UNCHANGED <<holder, owner, at>>

Next ==
    \/ \E c \in Conn, t \in Target : Grant(c, t)
    \/ \E t \in Target, s \in Session : Attach(t, s)
    \/ \E T \in SUBSET Target : Revoke(T)
    \/ \E s \in Session : Refuse(s)

Spec == Init /\ [][Next]_promiseVars
=============================================================================
