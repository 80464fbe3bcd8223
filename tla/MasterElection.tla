--------------------------- MODULE MasterElection ---------------------------
(***************************************************************************)
(* Master election of a NavCaster cluster (caster_internal.cpp).           *)
(*                                                                         *)
(* The lock is the Redis string CASTER:MASTER with an expiry.  Each node   *)
(* runs one event loop; its timer callback pipelines SET..NX and GET on    *)
(* the asynchronous "pub" connection, the GET callback sends SET..IFEQ,    *)
(* and the IFEQ callback decides whether the node believes it is master.   *)
(* Between sending, executing and answering anything may interleave: other *)
(* nodes, expiry of the key, loss of the connection, a crash.              *)
(*                                                                         *)
(* Time is discrete.  MaxLag bounds how long an event that is due (a timer,*)
(* a command in flight, a reply in flight) may stay unprocessed; a large   *)
(* MaxLag models a stalled event loop or network.                          *)
(*                                                                         *)
(* Definitions under "Mistake:" are wrong variants of the one that follows *)
(* them.  The specification does not use them; the mutants of PROJECT.json *)
(* do, to show that the properties notice.                                 *)
(***************************************************************************)
EXTENDS Integers, Sequences

CONSTANTS
    Node,         \* the nodes of the cluster (their stable _node_ID)
    NoNode,       \* CASTER:MASTER does not exist; also the empty _current_master_id
    UpdateIntv,   \* _update_intv, period of TimeoutCallback
    MasterTTL,    \* _master_expire_time, expiry of CASTER:MASTER
    MaxLag,       \* bound: longest time a due event waits
    MaxInFlight,  \* bound: commands and replies of one node on the wire
    MaxLost,      \* bound: election rounds lost in a row with the connection
    MaxCrash      \* bound: crashes in a behaviour

ASSUME ConstantsOK ==
    /\ NoNode \notin Node
    /\ UpdateIntv \in Nat \ {0}
    /\ MasterTTL \in Nat \ {0}
    /\ MaxLag \in Nat
    /\ MaxInFlight \in Nat
    /\ MaxLost \in Nat
    /\ MaxCrash \in Nat

VARIABLES
    lock,               \* value of CASTER:MASTER
    ttl,                \* its remaining time to live
    up,                 \* the process runs
    is_master,          \* _is_master
    current_master_id,  \* _current_master_id
    cmds,               \* commands sent on _pub_context, not yet executed by Redis
    replies,            \* replies sent by Redis, callback not yet run
    timer,              \* time until _timeout_ev is due, negative when overdue
    lag,                \* time since the node's pipeline last moved
    lost,               \* rounds lost since an IFEQ was executed (bounds Disconnect)
    crashes,            \* crashes so far (bounds Crash)
    headless            \* history: time since the last fault without a live master

redisVars == <<lock, ttl>>
nodeVars == <<up, is_master, current_master_id>>
wireVars == <<cmds, replies, lag>>
vars == <<lock, ttl, up, is_master, current_master_id, cmds, replies, timer,
          lag, lost, crashes, headless>>

Command == {"SETNX", "GET", "IFEQ"}
GetReply == [cmd : {"GET"}, val : Node \cup {NoNode}]
IfeqReply == [cmd : {"IFEQ"}, ok : BOOLEAN]
Reply == GetReply \cup IfeqReply

\* What the cluster takes for its master: the live nodes that believe they are.
Masters == {n \in Node : up[n] /\ is_master[n]}

Pending(n) == cmds[n] # <<>> \/ replies[n] # <<>>

\* The hop in which a dead master's last command may still renew the key, the
\* expiry, one timer period and the six hops of the round that takes the key;
\* headless saturates just above it.
FailoverLimit == MasterTTL + UpdateIntv + 7 * MaxLag

Init ==
    /\ lock = NoNode /\ ttl = 0
    /\ up = [n \in Node |-> TRUE]
    /\ is_master = [n \in Node |-> FALSE]
    /\ current_master_id = [n \in Node |-> NoNode]
    /\ cmds = [n \in Node |-> <<>>]
    /\ replies = [n \in Node |-> <<>>]
    /\ timer \in [Node -> 0 .. UpdateIntv]
    /\ lag = [n \in Node |-> 0]
    /\ lost = [n \in Node |-> 0]
    /\ crashes = 0
    /\ headless = 0

-----------------------------------------------------------------------------
(* The event loop of node n.                                               *)

\* Mistake: only the master itself, which has the key, sends SET.
RoundWithoutSet == <<"GET">>
\* try_set_master_node: SET NX (its answer has no callback), then GET.
Round == <<"SETNX", "GET">>

TimeoutCallback(n) ==
    /\ up[n] /\ timer[n] =< 0
    /\ Len(cmds[n]) + Len(replies[n]) + 2 =< MaxInFlight
    /\ timer' = [timer EXCEPT ![n] = UpdateIntv]
    /\ cmds' = [cmds EXCEPT ![n] = @ \o Round]
    /\ lag' = [lag EXCEPT ![n] = 0]
    /\ UNCHANGED <<redisVars, nodeVars, replies, lost, crashes, headless>>

\* Mistake: the name is only taken over while there is none.
KeepFirstName(n, id) ==
    IF current_master_id[n] # NoNode THEN current_master_id
    ELSE [current_master_id EXCEPT ![n] = id]
\* An empty answer leaves the name alone.
NameMaster(n, id) ==
    IF id = NoNode THEN current_master_id ELSE [current_master_id EXCEPT ![n] = id]

\* The GET reply only updates the name shown to users; whatever it says, the
\* conditional renewal follows.
Redis_SetMaster_Callback(n) ==
    /\ up[n] /\ replies[n] # <<>> /\ Head(replies[n]).cmd = "GET"
    /\ current_master_id' = NameMaster(n, Head(replies[n]).val)
    /\ replies' = [replies EXCEPT ![n] = Tail(@)]
    /\ cmds' = [cmds EXCEPT ![n] = Append(@, "IFEQ")]
    /\ lag' = [lag EXCEPT ![n] = 0]
    /\ UNCHANGED <<redisVars, up, is_master, timer, lost, crashes, headless>>

\* Mistake: a refused renewal is ignored.
NeverStepDown(n, ok) == [is_master EXCEPT ![n] = @ \/ ok]
\* Renewed or not decides.
Believe(n, ok) == [is_master EXCEPT ![n] = ok]

\* The only place where _is_master changes.
Redis_KeepMaster_Callback(n) ==
    /\ up[n] /\ replies[n] # <<>> /\ Head(replies[n]).cmd = "IFEQ"
    /\ is_master' = Believe(n, Head(replies[n]).ok)
    /\ replies' = [replies EXCEPT ![n] = Tail(@)]
    /\ lag' = [lag EXCEPT ![n] = 0]
    /\ headless' = IF Head(replies[n]).ok THEN 0 ELSE headless
    /\ UNCHANGED <<redisVars, up, current_master_id, cmds, timer, lost, crashes>>

-----------------------------------------------------------------------------
(* Redis executes the head of a node's pipeline.                           *)

\* A reply for a process that has died goes nowhere.
Answer(n, r) ==
    replies' = IF up[n] THEN [replies EXCEPT ![n] = Append(@, r)] ELSE replies

Executes(n, c) ==
    /\ cmds[n] # <<>> /\ Head(cmds[n]) = c
    /\ cmds' = [cmds EXCEPT ![n] = Tail(@)]
    /\ lag' = [lag EXCEPT ![n] = 0]
    /\ UNCHANGED <<nodeVars, timer, crashes, headless>>

\* Mistake: SET without NX.
SetAlways(n) == lock' = n /\ ttl' = MasterTTL
\* SET CASTER:MASTER n NX EX MasterTTL.
SetNx(n) ==
    IF lock = NoNode THEN lock' = n /\ ttl' = MasterTTL ELSE UNCHANGED redisVars

ExecSetNx(n) ==
    /\ Executes(n, "SETNX")
    /\ SetNx(n)
    /\ UNCHANGED <<replies, lost>>

ExecGet(n) ==
    /\ Executes(n, "GET")
    /\ Answer(n, [cmd |-> "GET", val |-> lock])
    /\ UNCHANGED <<redisVars, lost>>

\* Mistake: SET XX, whoever holds the key.
AnyHolder(n) == lock # NoNode
\* SET CASTER:MASTER n IFEQ n EX MasterTTL renews a key that is still n's.
Holds(n) == lock = n

ExecIfeq(n) ==
    /\ Executes(n, "IFEQ")
    /\ IF Holds(n) THEN ttl' = MasterTTL ELSE ttl' = ttl
    /\ Answer(n, [cmd |-> "IFEQ", ok |-> Holds(n)])
    /\ lost' = [lost EXCEPT ![n] = 0]
    /\ lock' = lock

-----------------------------------------------------------------------------
(* Time and faults.                                                        *)

\* Everything that is due is handled within MaxLag.
OnTime(n) ==
    /\ up[n] => timer[n] > -MaxLag
    /\ Pending(n) => lag[n] < MaxLag

Tick ==
    /\ \A n \in Node : OnTime(n)
    /\ lock' = IF ttl > 1 THEN lock ELSE NoNode
    /\ ttl' = IF ttl > 1 THEN ttl - 1 ELSE 0
    /\ timer' = [n \in Node |-> IF up[n] THEN timer[n] - 1 ELSE timer[n]]
    /\ lag' = [n \in Node |-> IF Pending(n) THEN lag[n] + 1 ELSE 0]
    /\ headless' = IF Masters = {} /\ \E n \in Node : up[n]
                   THEN IF headless > FailoverLimit THEN headless ELSE headless + 1
                   ELSE 0
    /\ UNCHANGED <<nodeVars, cmds, replies, lost, crashes>>

\* The connection drops with a round under way.  hiredis runs the callbacks
\* that are still waiting with a null reply: SetMaster can send nothing on the
\* dying context, KeepMaster takes it for "not renewed".  The disconnect
\* callback then reconnects with an empty pipeline.
Disconnect(n) ==
    /\ up[n] /\ Pending(n) /\ lost[n] < MaxLost
    /\ lost' = [lost EXCEPT ![n] = @ + 1]
    /\ LET renewing == \/ \E i \in 1 .. Len(cmds[n]) : cmds[n][i] = "IFEQ"
                       \/ \E i \in 1 .. Len(replies[n]) : replies[n][i].cmd = "IFEQ"
       IN is_master' = IF renewing THEN [is_master EXCEPT ![n] = FALSE] ELSE is_master
    /\ cmds' = [cmds EXCEPT ![n] = <<>>]
    /\ replies' = [replies EXCEPT ![n] = <<>>]
    /\ lag' = [lag EXCEPT ![n] = 0]
    /\ headless' = 0
    /\ UNCHANGED <<redisVars, up, current_master_id, timer, crashes>>

\* The process ends (exit(1) on a failed reconnect, kill, power).  What it has
\* already written to the socket may still reach Redis.
Crash(n) ==
    /\ up[n] /\ crashes < MaxCrash
    /\ crashes' = crashes + 1
    /\ up' = [up EXCEPT ![n] = FALSE]
    /\ is_master' = [is_master EXCEPT ![n] = FALSE]
    /\ current_master_id' = [current_master_id EXCEPT ![n] = NoNode]
    /\ replies' = [replies EXCEPT ![n] = <<>>]
    /\ timer' = [timer EXCEPT ![n] = 0]
    /\ headless' = 0
    /\ UNCHANGED <<redisVars, cmds, lag, lost>>

\* ... or be lost with the socket.
ConnReset(n) ==
    /\ ~up[n] /\ cmds[n] # <<>>
    /\ cmds' = [cmds EXCEPT ![n] = <<>>]
    /\ lag' = [lag EXCEPT ![n] = 0]
    /\ UNCHANGED <<redisVars, nodeVars, replies, timer, lost, crashes, headless>>

\* start(): the same _node_ID (set_node_identity), a fresh connection and timer.
Restart(n) ==
    /\ ~up[n] /\ cmds[n] = <<>>
    /\ up' = [up EXCEPT ![n] = TRUE]
    /\ timer' = [timer EXCEPT ![n] = UpdateIntv]
    /\ lag' = [lag EXCEPT ![n] = 0]
    /\ lost' = [lost EXCEPT ![n] = 0]
    /\ headless' = 0
    /\ UNCHANGED <<redisVars, is_master, current_master_id, cmds, replies, crashes>>

-----------------------------------------------------------------------------
Loop(n) == TimeoutCallback(n) \/ Redis_SetMaster_Callback(n) \/ Redis_KeepMaster_Callback(n)
Server(n) == ExecSetNx(n) \/ ExecGet(n) \/ ExecIfeq(n)
Fault(n) == Disconnect(n) \/ Crash(n) \/ ConnReset(n) \/ Restart(n)

Next == Tick \/ \E n \in Node : Loop(n) \/ Server(n) \/ Fault(n)

Spec == Init /\ [][Next]_vars

\* libevent runs what is ready, Redis executes what it receives and time passes.
\* Crashes, disconnects and restarts are never forced.
Fairness ==
    /\ WF_vars(Tick)
    /\ \A n \in Node : WF_vars(Loop(n)) /\ WF_vars(Server(n)) /\ WF_vars(ConnReset(n))

FairSpec == Spec /\ Fairness

-----------------------------------------------------------------------------
(* Properties.                                                             *)

\* The time left to run of every event a renewal waits for, MaxLost lost rounds
\* included, is covered by the expiry; and a round ends before the next begins.
Timely ==
    /\ 5 * MaxLag < UpdateIntv
    /\ UpdateIntv + 5 * MaxLag + MaxLost * (UpdateIntv + MaxLag) < MasterTTL
    /\ MaxInFlight >= 2

TypeOK ==
    /\ lock \in Node \cup {NoNode}
    /\ ttl \in 0 .. MasterTTL
    /\ lock = NoNode <=> ttl = 0
    /\ up \in [Node -> BOOLEAN]
    /\ is_master \in [Node -> BOOLEAN]
    /\ current_master_id \in [Node -> Node \cup {NoNode}]
    /\ cmds \in [Node -> Seq(Command)]
    /\ replies \in [Node -> Seq(Reply)]
    /\ timer \in [Node -> -MaxLag .. UpdateIntv]
    /\ lag \in [Node -> 0 .. MaxLag]
    /\ lost \in [Node -> 0 .. MaxLost]
    /\ crashes \in 0 .. MaxCrash
    /\ headless \in 0 .. FailoverLimit + 1

\* A live node that believes it is master holds CASTER:MASTER: the flag that
\* Redis_KeepMaster_Callback leaves standing between two renewals never
\* outlives the key.
MasterHoldsLock == \A n \in Masters : lock = n

\* Never two live nodes that both believe they are master, whatever crashes,
\* restarts and lost rounds there are: only one distributes relay tasks.
SingleMaster == \A m, n \in Masters : m = n

\* The node that acts as master also names itself as master in its status
\* (_current_master_id, set by the other callback of the round).
MasterNamesItself == \A n \in Masters : current_master_id[n] = n

\* Within one expiry, one period and seven hops of the last fault, the cluster
\* has a master again as long as some node is up.
FailoverBound == headless < FailoverLimit

\* The election implements the role it promises (refinement of ClusterMaster):
\* the role goes from vacant to one node and back, never from node to node.
CM == INSTANCE ClusterMaster WITH
        master <- IF Masters = {} THEN NoNode ELSE CHOOSE n \in Masters : TRUE
ClusterMasterSpec == CM!Spec

\* A node that lost the key without noticing steps down or wins it back.
StaleMasterStepsDown ==
    \A n \in Node : (is_master[n] /\ lock # n) ~> (~is_master[n] \/ lock = n)

\* As long as some node stays up the cluster always gets a master (again).
EventuallyMaster == (<>[](\E n \in Node : up[n])) => []<>(Masters # {})
=============================================================================
