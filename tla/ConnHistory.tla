------------------------------ MODULE ConnHistory ------------------------------
(***************************************************************************)
(* The history of connections, LOG:MPT:* and LOG:USR:* in Redis            *)
(* (caster_internal.cpp): a record is written when a session registers,    *)
(* renewed by the timer, and closed when the session leaves.  What a crash *)
(* left open is closed by the next node that starts: cleanup_stale_history *)
(* goes through the records of all nodes while these go on writing theirs. *)
(*                                                                         *)
(* Times are of the clocks of the nodes; a command reaches Redis in the    *)
(* unit of time in which it is sent, or is lost with the connection.       *)
(***************************************************************************)
EXTENDS Integers, Sequences

CONSTANTS
    Node,
    Session,    \* connections, each with a record of its own
    Expire,     \* _key_expire_time: a record older than this is stale
    Beat,       \* _update_intv
    MaxDelay,   \* how late the timer of a node may be
    Ahead,      \* by how much the clock of each node is ahead
    MaxSkew,    \* bound of Ahead
    MaxLost,    \* bound: times that what was sent is lost with a connection
    MaxTime,    \* bound: the time
    None        \* no record, no node

Open == 0       \* disconnect_time of a session that is online

ASSUME TimesAssumption ==
    /\ {Expire, Beat, MaxDelay, MaxSkew, MaxLost, MaxTime} \subseteq Nat
    /\ Ahead \in [Node -> 0..MaxSkew] /\ None \notin Node

\* Between two renewals that reach Redis.
Renewal == (MaxLost + 1) * (Beat + MaxDelay)
\* No session that is online is taken for one that is not.
Timely == Renewal + MaxSkew <= Expire

VARIABLES
    now,
    proc,       \* of each node: "down", "cleaning" or "up"
    timer,      \* of each node: time until upload_record_item
    owner,      \* the node of each session that has been there
    entry,      \* the session's record in _base_history_map or _rover_history_map
    sent,       \* the HSETs of the session's record that are under way
    log,        \* the session's record in Redis
    began,      \* of each node: the time at which its cleanup began
    todo,       \* of each node: records its cleanup has still to look at
    found,      \* of each node: a stale record that it has read, to be closed
    lost,       \* losses so far
    left        \* history: when the session left, by the clock of its node

histVars == <<now, proc, timer, owner, entry, sent, log, began, todo, found, lost, left>>

Record == [last_update : Nat, disconnect_time : Nat]

ASSUME NoneAssumption ==
    None \notin Record /\ None \notin [session : Session, record : Record]

Clock(n) == now + Ahead[n]
Sessions(n) == {s \in Session : owner[s] = n /\ entry[s] # None}
IsOpen(r) == r # None /\ r.disconnect_time = Open

HistInit ==
    /\ now = 1 /\ lost = 0
    /\ proc = [n \in Node |-> "down"] /\ timer = [n \in Node |-> 0]
    /\ owner = [s \in Session |-> None] /\ entry = [s \in Session |-> None]
    /\ sent = [s \in Session |-> <<>>] /\ log = [s \in Session |-> None]
    /\ began = [n \in Node |-> 0] /\ todo = [n \in Node |-> {}] /\ found = [n \in Node |-> None]
    /\ left = [s \in Session |-> 0]

-----------------------------------------------------------------------------
(* The sessions of a node that is up.                                      *)

\* register_base_channel and register_rover_channel, as far as they write the
\* record.
Register(n, s) ==
    LET r == [last_update |-> Clock(n), disconnect_time |-> Open]
    IN /\ proc[n] = "up" /\ owner[s] = None
       /\ owner' = [owner EXCEPT ![s] = n] /\ entry' = [entry EXCEPT ![s] = r]
       /\ sent' = [sent EXCEPT ![s] = Append(@, r)]
       /\ UNCHANGED <<now, proc, timer, log, began, todo, found, lost, left>>

\* The period of the timer, from start().
Period == Beat

\* upload_record_item: each entry is renewed and sent.
upload_record_item(n) ==
    LET r(s) == [entry[s] EXCEPT !.last_update = Clock(n)]
    IN /\ proc[n] = "up" /\ timer[n] <= 0
       /\ timer' = [timer EXCEPT ![n] = Period]
       /\ entry' = [s \in Session |-> IF s \in Sessions(n) THEN r(s) ELSE entry[s]]
       /\ sent' = [s \in Session |-> IF s \in Sessions(n) THEN Append(sent[s], r(s)) ELSE sent[s]]
       /\ UNCHANGED <<now, proc, owner, log, began, todo, found, lost, left>>

\* Mistake: the entry stays in the map.
CloseOnly(n, S) ==
    LET r == [last_update |-> Clock(n), disconnect_time |-> Clock(n)]
    IN /\ left' = [s \in Session |-> IF s \in S THEN Clock(n) ELSE left[s]]
       /\ sent' = [s \in Session |-> IF s \in S THEN Append(sent[s], r) ELSE sent[s]]
       /\ entry' = [s \in Session |-> IF s \in S THEN r ELSE entry[s]]
\* The sessions S of node n leave: their records are closed and sent.
Close(n, S) ==
    LET r == [last_update |-> Clock(n), disconnect_time |-> Clock(n)]
    IN /\ left' = [s \in Session |-> IF s \in S THEN Clock(n) ELSE left[s]]
       /\ sent' = [s \in Session |-> IF s \in S THEN Append(sent[s], r) ELSE sent[s]]
       /\ entry' = [s \in Session |-> IF s \in S THEN None ELSE entry[s]]

\* withdraw_base_channel and withdraw_rover_channel.
Withdraw(s) ==
    /\ entry[s] # None /\ Close(owner[s], {s})
    /\ UNCHANGED <<now, proc, timer, owner, log, began, todo, found, lost>>

\* stop() with flush_online_history; the process ends, what it has just sent
\* may be written or not.
stop(n) ==
    /\ proc[n] = "up" /\ proc' = [proc EXCEPT ![n] = "down"]
    /\ timer' = [timer EXCEPT ![n] = 0]
    /\ Close(n, Sessions(n))
    /\ UNCHANGED <<now, owner, log, began, todo, found, lost>>

Crash(n) ==
    /\ proc[n] # "down" /\ proc' = [proc EXCEPT ![n] = "down"]
    /\ left' = [s \in Session |-> IF s \in Sessions(n) THEN Clock(n) ELSE left[s]]
    /\ entry' = [s \in Session |-> IF s \in Sessions(n) THEN None ELSE entry[s]]
    /\ timer' = [timer EXCEPT ![n] = 0] /\ found' = [found EXCEPT ![n] = None]
    /\ began' = [began EXCEPT ![n] = 0] /\ todo' = [todo EXCEPT ![n] = {}]
    /\ UNCHANGED <<now, owner, sent, log, lost>>

\* Redis executes the next HSET of the record.
Execute(s) ==
    /\ sent[s] # <<>>
    /\ log' = [log EXCEPT ![s] = Head(sent[s])] /\ sent' = [sent EXCEPT ![s] = Tail(@)]
    /\ UNCHANGED <<now, proc, timer, owner, entry, began, todo, found, lost, left>>

\* The pub connection of a node is lost with what is under way, or the node was
\* stopped or has crashed before it was written.
Lose(n) ==
    /\ \E s \in Session : owner[s] = n /\ sent[s] # <<>>
    /\ sent' = [s \in Session |-> IF owner[s] = n THEN <<>> ELSE sent[s]]
    /\ \/ proc[n] = "up" /\ lost < MaxLost /\ lost' = lost + 1
       \/ proc[n] = "down" /\ lost' = lost
    /\ UNCHANGED <<now, proc, timer, owner, entry, log, began, todo, found, left>>

-----------------------------------------------------------------------------
(* cleanup_stale_history, before start() returns, over a connection of its *)
(* own: SCAN, then HGETALL and HSET for each key, nothing of it atomic.    *)

Start(n) ==
    /\ proc[n] = "down" /\ \A s \in Session : owner[s] = n => sent[s] = <<>>
    /\ proc' = [proc EXCEPT ![n] = "cleaning"]
    /\ began' = [began EXCEPT ![n] = Clock(n)]
    /\ todo' = [todo EXCEPT ![n] = {s \in Session : log[s] # None}]
    /\ UNCHANGED <<now, timer, owner, entry, sent, log, found, lost, left>>

\* Mistake: a record may be as old as the expiry.
StaleAtOnce(n, r) == IsOpen(r) /\ began[n] - r.last_update >= Expire
\* Mistake: a record is stale when it is one renewal older.
StaleLate(n, r) == IsOpen(r) /\ began[n] - r.last_update > Expire + Beat
\* Nobody has renewed the record for longer than the expiry.
Stale(n, r) == IsOpen(r) /\ began[n] - r.last_update > Expire

HGETALL(n, s) ==
    /\ proc[n] = "cleaning" /\ found[n] = None /\ s \in todo[n]
    /\ todo' = [todo EXCEPT ![n] = @ \ {s}]
    /\ found' = [found EXCEPT ![n] = IF Stale(n, log[s]) THEN [session |-> s, record |-> log[s]]
                                     ELSE None]
    /\ UNCHANGED <<now, proc, timer, owner, entry, sent, log, began, lost, left>>

\* Mistake: the session is said to have left when the record is cleaned up.
ClosedNow(n, r) == [r EXCEPT !.disconnect_time = began[n]]
\* The session is taken to have left when it was last renewed.
Closed(n, r) == [r EXCEPT !.disconnect_time = r.last_update]

HSET(n) ==
    /\ proc[n] = "cleaning" /\ found[n] # None
    /\ log' = [log EXCEPT ![found[n].session] = Closed(n, found[n].record)]
    /\ found' = [found EXCEPT ![n] = None]
    /\ UNCHANGED <<now, proc, timer, owner, entry, sent, began, todo, lost, left>>

\* The cleanup is done, or its connection fails and the rest is left.
Started(n) ==
    /\ proc[n] = "cleaning" /\ found[n] = None
    /\ proc' = [proc EXCEPT ![n] = "up"] /\ timer' = [timer EXCEPT ![n] = Period]
    /\ began' = [began EXCEPT ![n] = 0] /\ todo' = [todo EXCEPT ![n] = {}]
    /\ UNCHANGED <<now, owner, entry, sent, log, found, lost, left>>

-----------------------------------------------------------------------------

\* Time passes as long as no timer is later than MaxDelay and nothing is under way.
Tick ==
    /\ now < MaxTime
    /\ \A n \in Node : proc[n] = "up" => timer[n] > -MaxDelay
    /\ \A s \in Session : sent[s] = <<>>
    /\ now' = now + 1
    /\ timer' = [n \in Node |-> IF proc[n] = "up" THEN timer[n] - 1 ELSE timer[n]]
    /\ UNCHANGED <<proc, owner, entry, sent, log, began, todo, found, lost, left>>

HistNext ==
    \/ Tick
    \/ \E s \in Session : Withdraw(s) \/ Execute(s)
    \/ \E n \in Node : \/ upload_record_item(n) \/ stop(n) \/ Crash(n) \/ Lose(n)
                       \/ Start(n) \/ HSET(n) \/ Started(n)
                       \/ \E s \in Session : Register(n, s) \/ HGETALL(n, s)

HistSpec == HistInit /\ [][HistNext]_histVars

-----------------------------------------------------------------------------

HistTypeOK ==
    /\ now \in Nat /\ lost \in 0..MaxLost
    /\ proc \in [Node -> {"down", "cleaning", "up"}]
    /\ timer \in [Node -> -MaxDelay..Beat]
    /\ owner \in [Session -> Node \cup {None}]
    /\ entry \in [Session -> Record \cup {None}] /\ log \in [Session -> Record \cup {None}]
    /\ sent \in [Session -> Seq(Record)]
    /\ began \in [Node -> Nat] /\ todo \in [Node -> SUBSET Session]
    /\ found \in [Node -> [session : Session, record : Record] \cup {None}]
    /\ left \in [Session -> Nat]

\* No cleanup closes the record of a session that is online, whoever reads and
\* writes in between.
LiveNotClosed ==
    \A s \in Session : entry[s] # None /\ log[s] # None => IsOpen(log[s])

\* A record says that its session has left only if it has, and the time it
\* gives is the true one or short of it by less than what separates two renewals:
\* also after a crash, or if the last command of the session was lost.
EndAccurate ==
    \A s \in Session : log[s] # None /\ ~IsOpen(log[s]) =>
        /\ entry[s] = None
        /\ left[s] - log[s].disconnect_time \in 0..Renewal

\* A record that says when its session left is not changed again.
FinalKept ==
    [][\A s \in Session : log[s] # None /\ ~IsOpen(log[s]) => log'[s] = log[s]]_histVars

\* A cleanup that was not cut short leaves no record open that was stale when it
\* began.
CleanupComplete ==
    [][\A n \in Node : proc[n] = "cleaning" /\ proc'[n] = "up" /\ todo[n] = {} =>
         \A s \in Session : IsOpen(log[s]) => began[n] - log[s].last_update <= Expire]_histVars
=============================================================================
