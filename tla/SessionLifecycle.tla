--------------------------- MODULE SessionLifecycle ---------------------------
(***************************************************************************)
(* The life of NTRIP connections, from accept to the freed socket          *)
(* (ntrip_listener, connect_bev, process_queue, Carrier, server_ntrip,     *)
(* client_ntrip, verify_internal, registration in caster_internal).        *)
(*                                                                         *)
(* All connections log in with one account and one mount point.  Each node *)
(* is one event loop with two pipelines to Redis, one of AUTH and one of   *)
(* CASTER, and a subscription to the broadcast channel of each.  A login   *)
(* goes back and forth between them: verify, create request through the    *)
(* queue, login record, registration, running.  A kick may arrive, or the  *)
(* peer may leave, at any point of it.  Callbacks hold plain pointers to   *)
(* the session.                                                            *)
(*                                                                         *)
(* Definitions under "Mistake:" are wrong variants of the one that follows *)
(* them, for the mutants of PROJECT.json.                                  *)
(***************************************************************************)
EXTENDS Naturals, Sequences, FiniteSets, SequencesExt

CONSTANTS
    Conn,         \* the connections
    Node,         \* the nodes of the cluster
    At,           \* the node that accepts a connection
    Kind,         \* "server" (base station) or "client" (rover)
    Limit,        \* _connect_limit of the account
    Protected,    \* kinds with Online_Protection
    EnableMult,   \* kinds with Enable_Mult
    KeepEarly,    \* kinds with Keep_Early
    SameSecond,   \* TRUE: two logins may carry the same timestamp
    Leaving,      \* bound: connections whose peer may leave
    MaxKicks,     \* bound: requests to kick a connection
    MaxLost,      \* bound: broadcasts lost with a subscription
    MaxStall,     \* bound: records that expire although their node holds them
    MaxCrash      \* bound: crashes

Kinds == {"server", "client"}

ASSUME ConstantsOK ==
    /\ IsFiniteSet(Conn) /\ At \in [Conn -> Node] /\ Kind \in [Conn -> Kinds]
    /\ {Limit, MaxKicks, MaxLost, MaxStall, MaxCrash} \subseteq Nat /\ Limit > 0
    /\ Protected \subseteq Kinds /\ EnableMult \subseteq Kinds /\ KeepEarly \subseteq Kinds
    /\ SameSecond \in BOOLEAN /\ Leaving \subseteq Conn

VARIABLES
    peer,       \* the other end of the socket
    bev,        \* _connect_map: the sockets this side holds
    listening,  \* sockets whose callbacks are those of ntrip_listener
    session,    \* state of the session object, "none" when there is none
    logins,     \* _register_map of AUTH (callback and pointer to the session)
    registered, \* _base_register_map and _rover_register_map of CASTER
    queue,      \* process_queue of a node
    woken,      \* its event is active
    up,
    pipe,       \* commands sent, not executed, per node and context
    answers,    \* answers whose callback has not run
    bcast,      \* broadcasts not delivered
    rec,        \* ACT:REC ("auth") and MPT:REC, USR:REC ("core"): 0 or a timestamp
    clock,
    interrupted, \* history: logins kicked while CASTER or an answer refers to them
    kicks, lost, stalls, crashes

socketVars == <<peer, bev, listening>>
objectVars == <<session, logins, registered, queue, woken>>
wireVars == <<pipe, answers, bcast>>
faultVars == <<lost, stalls, crashes>>
vars == <<socketVars, objectVars, up, wireVars, rec, clock, kicks, interrupted, faultVars>>

Context == {"auth", "core"}
MaxTime == Cardinality(Conn) + 1
Stamp == 1 .. MaxTime
Records == [Conn -> 0 .. MaxTime]
Command == [cmd : {"VERIFY", "LIST", "DEL", "KICK"}, conn : Conn]
           \cup [cmd : {"ADD"}, conn : Conn, stamp : Stamp]
Answer == [cmd : {"VERIFY"}, conn : Conn, ok : BOOLEAN]
          \cup [cmd : {"LIST"}, conn : Conn, recs : Records]
Request == [op : {"CREATE", "DESTROY"}, conn : Conn]

Init ==
    /\ peer = [c \in Conn |-> "new"] /\ bev = {} /\ listening = {}
    /\ session = [c \in Conn |-> "none"] /\ logins = {} /\ registered = {}
    /\ queue = [n \in Node |-> <<>>] /\ woken = [n \in Node |-> FALSE]
    /\ up = [n \in Node |-> TRUE]
    /\ pipe = [n \in Node |-> [k \in Context |-> <<>>]]
    /\ answers = [n \in Node |-> [k \in Context |-> <<>>]]
    /\ bcast = [n \in Node |-> [k \in Context |-> <<>>]]
    /\ rec = [k \in Context |-> [c \in Conn |-> 0]]
    /\ clock = 1 /\ interrupted = {}
    /\ kicks = 0 /\ lost = 0 /\ stalls = 0 /\ crashes = 0

Cmd(c, x) == [cmd |-> x, conn |-> c]
With(p, n, k, cs) == [p EXCEPT ![n][k] = @ \o cs]

\* Mistake: the event of the queue is not activated.
PushSilently(op, c) ==
    /\ queue' = [queue EXCEPT ![At[c]] = Append(@, [op |-> op, conn |-> c])]
    /\ woken' = woken
\* Carrier and the sessions push a request and activate the event.
Push(op, c) ==
    /\ queue' = [queue EXCEPT ![At[c]] = Append(@, [op |-> op, conn |-> c])]
    /\ woken' = [woken EXCEPT ![At[c]] = TRUE]

-----------------------------------------------------------------------------
(* ntrip_listener: before there is a session.                              *)

\* process_accept_request: bufferevent, read timer and callbacks.
Accept(c) ==
    /\ peer[c] = "new" /\ up[At[c]]
    /\ peer' = [peer EXCEPT ![c] = "up"]
    /\ bev' = bev \cup {c} /\ listening' = listening \cup {c}
    /\ UNCHANGED <<objectVars, up, wireVars, rec, clock, kicks, interrupted, faultVars>>

\* process_bev_event: the read timer, or the peer left without a request.
BevEventCallback(c) ==
    /\ c \in listening
    /\ listening' = listening \ {c} /\ bev' = bev \ {c}
    /\ UNCHANGED <<peer, objectVars, up, wireVars, rec, clock, kicks, interrupted, faultVars>>

\* process_bev_request: from here the socket is neither read nor watched.
\* Unsupported requests are closed, the others wait for AUTH::Verify.
BevReadCallback(c) ==
    /\ c \in listening
    /\ listening' = listening \ {c}
    /\ \/ bev' = bev \ {c} /\ pipe' = pipe
       \/ bev' = bev /\ pipe' = With(pipe, At[c], "auth", <<Cmd(c, "VERIFY")>>)
    /\ UNCHANGED <<peer, objectVars, up, answers, bcast, rec, clock, kicks, interrupted, faultVars>>

Handles(n, k, x) ==
    /\ answers[n][k] # <<>> /\ Head(answers[n][k]).cmd = x
    /\ answers' = [answers EXCEPT ![n][k] = Tail(@)]

\* Mistake: the refusal is sent, the socket not released.
VerifiedOrDeaf(c, ok) ==
    IF ok THEN Push("CREATE", c) /\ bev' = bev ELSE UNCHANGED <<bev, queue, woken>>
\* Auth_Verify_Cb: create_request, or the socket is closed.
Verified(c, ok) ==
    IF ok THEN Push("CREATE", c) /\ bev' = bev
          ELSE bev' = bev \ {c} /\ UNCHANGED <<queue, woken>>

Redis_Verify_Callback(n) ==
    /\ Handles(n, "auth", "VERIFY")
    /\ LET a == Head(answers[n]["auth"]) IN Verified(a.conn, a.ok)
    /\ UNCHANGED <<peer, listening, session, logins, registered, up, pipe, bcast, rec,
                   clock, kicks, interrupted, faultVars>>

-----------------------------------------------------------------------------
(* The session object.                                                     *)

\* HDEL of the login record, and of the registration.
add_logout_record(c) == <<Cmd(c, "DEL")>>
withdraw_channel(c) == <<Cmd(c, "DEL")>>

\* The body of stop(), with the pipeline p and the value of _registered found:
\* add_logout_record, withdraw if registered, and the request to be destroyed.
Stopping(c, p, isRegistered) ==
    /\ session' = [session EXCEPT ![c] = "stopped"]
    /\ logins' = logins \ {c}
    /\ registered' = IF isRegistered THEN registered \ {c} ELSE registered
    /\ LET q == With(p, At[c], "auth", add_logout_record(c)) IN
       pipe' = IF isRegistered THEN With(q, At[c], "core", withdraw_channel(c)) ELSE q
    /\ Push("DESTROY", c)

\* Mistakes: the withdrawal is forgotten; nothing says that stop() has run.
StopWithoutWithdraw(c, p, isRegistered) ==
    IF session[c] = "stopped" THEN pipe' = p /\ UNCHANGED objectVars
    ELSE Stopping(c, p, FALSE)
StopAgain(c, p, isRegistered) == Stopping(c, p, isRegistered)
\* stop() runs once.
Stop(c, p, isRegistered) ==
    IF session[c] = "stopped" THEN pipe' = p /\ UNCHANGED objectVars
    ELSE Stopping(c, p, isRegistered)

\* The record is added before the records are listed, so that of two logins at
\* the same time at least one sees both.
add_login_record(c) == <<[cmd |-> "ADD", conn |-> c, stamp |-> clock], Cmd(c, "LIST")>>

\* Request_Process_Cb: one request, then again while there are more.
\* createObject starts the session, which adds its login record;
\* destroyObject frees it, and the destructor frees the socket.
Request_Process_Cb(n) ==
    /\ woken[n] /\ queue[n] # <<>>
    /\ queue' = [queue EXCEPT ![n] = Tail(@)]
    /\ woken' = [woken EXCEPT ![n] = Tail(queue[n]) # <<>>]
    /\ LET c == Head(queue[n]).conn IN
       \/ /\ Head(queue[n]).op = "CREATE"
          /\ session' = [session EXCEPT ![c] = "starting"]
          /\ logins' = logins \cup {c}
          /\ pipe' = With(pipe, n, "auth", add_login_record(c))
          /\ clock' \in IF SameSecond THEN {clock, clock + 1} ELSE {clock + 1}
          /\ bev' = bev
       \/ /\ Head(queue[n]).op = "DESTROY"
          /\ session' = [session EXCEPT ![c] = "none"]
          /\ bev' = bev \ {c}
          /\ UNCHANGED <<logins, pipe, clock>>
    /\ UNCHANGED <<peer, listening, registered, up, answers, bcast, rec, kicks, interrupted, faultVars>>

-----------------------------------------------------------------------------
(* The limit of the account: Redis_Add_Login_Callback.                     *)

Present(r) == {c \in Conn : r[c] # 0}
UpTo(r, t) == {c \in Present(r) : r[c] =< t}
From(r, t) == {c \in Present(r) : r[c] >= t}
After(r, t) == {c \in Present(r) : r[c] > t /\ \A d \in Present(r) : r[d] > t => r[c] =< r[d]}

\* Mistake: the login just added is not counted.
ErasedLate(r, protect) ==
    {t \in {r[c] : c \in Present(r)} :
        Cardinality(IF protect THEN UpTo(r, t) ELSE From(r, t)) > Limit + 1}
\* The timestamps taken off the multimap until at most Limit records are left:
\* erase(key) removes every record of that second.
Erased(r, protect) ==
    {t \in {r[c] : c \in Present(r)} :
        Cardinality(IF protect THEN UpTo(r, t) ELSE From(r, t)) > Limit}

\* Mistake: protection is taken for its opposite when it comes to the kick.
ReportedNext(r, protect, t) == After(r, t)
\* Which of the records is reported for each: with protection one of the
\* group, before it is erased; without, the first that is left afterwards.
Reported(r, protect, t) ==
    IF protect THEN {c \in Present(r) : r[c] = t} ELSE After(r, t)

\* The sets of connections to be kicked; begin() of the emptied multimap names
\* nobody or kills the process (EmptyBegin).
Victims(r, protect) ==
    LET T == {t \in Erased(r, protect) : Reported(r, protect, t) # {}} IN
    {{f[t] : t \in T} : f \in {g \in [T -> Conn] : \A t \in T : g[t] \in Reported(r, protect, t)}}
EmptyBegin(r, protect) == \E t \in Erased(r, protect) : Reported(r, protect, t) = {}

\* register_base_channel, register_rover_channel; time does not matter here.
register_channel(c) == <<[cmd |-> "ADD", conn |-> c, stamp |-> 1], Cmd(c, "LIST")>>

\* AuthLoginCallback with OK: Register_Record checks access to the mount, keeps
\* callback and pointer, and adds the record in Redis before it lists them.
\* Called for a freed session and not fatal, it does nothing.
AuthLoginOk(c, p) ==
    \/ session[c] = "none" /\ pipe' = p /\ UNCHANGED objectVars
    \/ session[c] # "none" /\ Stop(c, p, FALSE)
    \/ /\ session[c] # "none"
       /\ registered' = registered \cup {c}
       /\ pipe' = With(p, At[c], "core", register_channel(c))
       /\ UNCHANGED <<session, logins, queue, woken>>

\* Whoever is too much is kicked through AUTH:BROADCAST, the newcomer too.
Redis_Add_Login_Callback(n) ==
    /\ Handles(n, "auth", "LIST")
    /\ LET c == Head(answers[n]["auth"]).conn
           r == Head(answers[n]["auth"]).recs
           Kicks(V) == With(pipe, n, "auth", SetToSeq({Cmd(v, "KICK") : v \in V}))
       IN IF r[c] = 0
          THEN pipe' = Kicks({c}) /\ UNCHANGED objectVars
          ELSE \E V \in Victims(r, Kind[c] \in Protected) :
                 IF c \in V THEN pipe' = Kicks(V) /\ UNCHANGED objectVars
                            ELSE AuthLoginOk(c, Kicks(V))
    /\ UNCHANGED <<socketVars, up, bcast, rec, clock, kicks, interrupted, faultVars>>

\* The logins of whose records a listing is under way, or not answered.
Listing(k) == {c \in Conn :
    \/ \E i \in DOMAIN pipe[At[c]][k] : pipe[At[c]][k][i] = Cmd(c, "LIST")
    \/ \E i \in DOMAIN answers[At[c]][k] :
         LET a == answers[At[c]][k][i] IN a.cmd = "LIST" /\ a.conn = c}
\* A kick stops the session: one that does not run yet, while CASTER keeps its
\* pointer or an answer is to come back to it.
Interrupt(c) == interrupted' =
    IF session[c] = "starting" /\ c \in registered \cup Listing("auth") \cup Listing("core")
    THEN interrupted \cup {c} ELSE interrupted

\* AUTH:BROADCAST -> broadcast_response: AuthLoginCallback with ERR.
Redis_Auth_Broadcast_Callback(n) ==
    /\ bcast[n]["auth"] # <<>>
    /\ bcast' = [bcast EXCEPT ![n]["auth"] = Tail(@)]
    /\ LET c == Head(bcast[n]["auth"]) IN
       IF c \in logins /\ At[c] = n
       THEN Stop(c, pipe, session[c] = "running") /\ Interrupt(c)
       ELSE UNCHANGED <<objectVars, pipe, interrupted>>
    /\ UNCHANGED <<socketVars, up, answers, rec, clock, kicks, faultVars>>

-----------------------------------------------------------------------------
(* Registration with CASTER.                                               *)

\* Redis_Register_Base_Callback, Redis_Register_Rover_Callback: a connection
\* whose record is missing, or that comes second where the first is kept, is
\* sent ERR over CASTER:BROADCAST; so are the others where the last is kept.
\* broadcast_response delivers none of these: ReplyToOperate turns ERR into
\* UNSPECIFIED, and the maps of servers and clients are exchanged.
Admitted(c, r) ==
    LET same == {d \in Present(r) : Kind[d] = Kind[c]} IN
    c \in same /\ (same = {c} \/ Kind[c] \in EnableMult \/ Kind[c] \notin KeepEarly)

\* CasterRegisterCallback with OK; a client goes on to Sub_Raw_Data, which
\* answers at once and fails when the mount point is not online.
Redis_Register_Callback(n) ==
    /\ Handles(n, "core", "LIST")
    /\ LET c == Head(answers[n]["core"]).conn IN
       IF Admitted(c, Head(answers[n]["core"]).recs) /\ session[c] = "starting"
       THEN \/ /\ session' = [session EXCEPT ![c] = "running"]
               /\ UNCHANGED <<logins, registered, queue, woken, pipe>>
            \/ Kind[c] = "client" /\ Stop(c, pipe, TRUE)
       ELSE UNCHANGED <<objectVars, pipe>>
    /\ UNCHANGED <<socketVars, up, bcast, rec, clock, kicks, interrupted, faultVars>>

\* CASTER:BROADCAST with DELETE: _kick_map, which only clients are put into.
KickMap == {c \in registered : Kind[c] = "client"}

Redis_Broadcast_Callback(n) ==
    /\ bcast[n]["core"] # <<>>
    /\ bcast' = [bcast EXCEPT ![n]["core"] = Tail(@)]
    /\ LET c == Head(bcast[n]["core"]) IN
       IF c \in KickMap /\ At[c] = n /\ session[c] # "none"
       THEN Stop(c, pipe, session[c] = "running") /\ Interrupt(c)
       ELSE UNCHANGED <<objectVars, pipe, interrupted>>
    /\ UNCHANGED <<socketVars, up, answers, rec, clock, kicks, faultVars>>

\* Mistake: start() already enables reading.
WatchedEarly(c) == session[c] \in {"starting", "running"}
\* start() sets EventCallback, but only running() enables reading again, and
\* without it no end of file, error or timeout is noticed.
Watched(c) == session[c] = "running"

\* The socket of a running session: end of file, error, read timeout, a heart
\* beat or data that cannot be sent, a chunk that cannot be parsed.
EventCallback(c) ==
    /\ Watched(c)
    /\ Stop(c, pipe, TRUE)
    /\ UNCHANGED <<socketVars, up, answers, bcast, rec, clock, kicks, interrupted, faultVars>>

-----------------------------------------------------------------------------
(* Redis, the HTTP API and the peers.                                      *)

Executes(n, k, x) ==
    /\ pipe[n][k] # <<>> /\ Head(pipe[n][k]).cmd \in x
    /\ pipe' = [pipe EXCEPT ![n][k] = Tail(@)]
    /\ UNCHANGED <<socketVars, objectVars, up, clock, kicks, interrupted, faultVars>>

Answers(n, k, as) ==
    answers' = IF up[n] THEN [answers EXCEPT ![n][k] = @ \o as] ELSE answers

Broadcast(k, c) ==
    bcast' = [n \in Node |-> IF up[n] THEN [bcast[n] EXCEPT ![k] = Append(@, c)] ELSE bcast[n]]

\* HGET ACT:ACTIVE: the password is right or wrong.
ExecVerify(n) ==
    /\ Executes(n, "auth", {"VERIFY"})
    /\ \E ok \in BOOLEAN :
         Answers(n, "auth", <<[cmd |-> "VERIFY", conn |-> Head(pipe[n]["auth"]).conn, ok |-> ok]>>)
    /\ UNCHANGED <<rec, bcast>>

ExecRecord(n, k) ==
    /\ Executes(n, k, {"ADD", "DEL"})
    /\ LET m == Head(pipe[n][k]) IN
       rec' = [rec EXCEPT ![k][m.conn] = IF m.cmd = "ADD" THEN m.stamp ELSE 0]
    /\ UNCHANGED <<answers, bcast>>

ExecList(n, k) ==
    /\ Executes(n, k, {"LIST"})
    /\ Answers(n, k, <<[cmd |-> "LIST", conn |-> Head(pipe[n][k]).conn, recs |-> rec[k]]>>)
    /\ UNCHANGED <<rec, bcast>>

ExecKick(n) ==
    /\ Executes(n, "auth", {"KICK"})
    /\ Broadcast("auth", Head(pipe[n]["auth"]).conn)
    /\ UNCHANGED <<rec, answers>>

\* handle_kick_server, handle_kick_client: for a connection with a status.
HandleKick(c) ==
    /\ c \in registered /\ kicks < MaxKicks
    /\ kicks' = kicks + 1
    /\ Broadcast("core", c)
    /\ UNCHANGED <<socketVars, objectVars, up, pipe, answers, rec, clock, interrupted, faultVars>>

PeerCloses(c) ==
    /\ peer[c] = "up" /\ c \in Leaving
    /\ peer' = [peer EXCEPT ![c] = "gone"]
    /\ UNCHANGED <<bev, listening, objectVars, up, wireVars, rec, clock, kicks, interrupted, faultVars>>

Renewed(k, c) == c \in IF k = "auth" THEN logins ELSE registered

\* HEXPIRE keeps the records of local connections; those of a dead node
\* expire, and those of a stalled one, for good.
Expire(k, c) ==
    /\ rec[k][c] # 0 /\ pipe[At[c]][k] = <<>>
    /\ \/ ~up[At[c]] /\ stalls' = stalls
       \/ Renewed(k, c) /\ stalls < MaxStall /\ stalls' = stalls + 1
    /\ rec' = [rec EXCEPT ![k][c] = 0]
    /\ UNCHANGED <<socketVars, objectVars, up, wireVars, clock, kicks, interrupted, lost, crashes>>

LoseBroadcast(n, k) ==
    /\ bcast[n][k] # <<>> /\ lost < MaxLost
    /\ lost' = lost + 1
    /\ bcast' = [bcast EXCEPT ![n][k] = <<>>]
    /\ UNCHANGED <<socketVars, objectVars, up, pipe, answers, rec, clock, kicks, interrupted,
                   stalls, crashes>>

\* A process that ends takes its sockets and objects with it.
Die(n) ==
    LET here == {c \in Conn : At[c] = n} IN
    /\ up' = [up EXCEPT ![n] = FALSE]
    /\ peer' = [c \in Conn |-> IF c \in here /\ peer[c] = "up" THEN "gone" ELSE peer[c]]
    /\ bev' = bev \ here /\ listening' = listening \ here
    /\ session' = [c \in Conn |-> IF c \in here THEN "none" ELSE session[c]]
    /\ logins' = logins \ here /\ registered' = registered \ here
    /\ queue' = [queue EXCEPT ![n] = <<>>] /\ woken' = [woken EXCEPT ![n] = FALSE]
    /\ answers' = [answers EXCEPT ![n] = [k \in Context |-> <<>>]]
    /\ bcast' = [bcast EXCEPT ![n] = [k \in Context |-> <<>>]]
    /\ UNCHANGED <<pipe, rec, clock, kicks, interrupted, lost, stalls>>

Crash(n) == up[n] /\ crashes < MaxCrash /\ crashes' = crashes + 1 /\ Die(n)

\* The next callback uses a session that was freed, or the first element of a
\* multimap without any.
Undefined(n) ==
    \/ /\ answers[n]["auth"] # <<>> /\ Head(answers[n]["auth"]).cmd = "LIST"
       /\ LET c == Head(answers[n]["auth"]).conn
              r == Head(answers[n]["auth"]).recs
              protect == Kind[c] \in Protected
          IN r[c] # 0 /\ \/ EmptyBegin(r, protect)
                         \/ session[c] = "none" /\ \E V \in Victims(r, protect) : c \notin V
    \/ /\ answers[n]["core"] # <<>>
       /\ LET a == Head(answers[n]["core"]) IN
          session[a.conn] = "none" /\ Admitted(a.conn, a.recs)
    \/ /\ bcast[n]["core"] # <<>>
       /\ LET c == Head(bcast[n]["core"]) IN
          c \in KickMap /\ At[c] = n /\ session[c] = "none"

DieOfUndefined(n) == Undefined(n) /\ Die(n) /\ crashes' = crashes

-----------------------------------------------------------------------------
Loop(n) == \/ Redis_Verify_Callback(n) \/ Redis_Add_Login_Callback(n)
           \/ Redis_Register_Callback(n)
           \/ Redis_Auth_Broadcast_Callback(n) \/ Redis_Broadcast_Callback(n)
           \/ Request_Process_Cb(n)
Server(n) == \/ ExecVerify(n) \/ ExecKick(n)
             \/ \E k \in Context : ExecRecord(n, k) \/ ExecList(n, k)

Next ==
    \/ \E c \in Conn : \/ Accept(c) \/ BevEventCallback(c) \/ BevReadCallback(c)
                       \/ EventCallback(c) \/ HandleKick(c) \/ PeerCloses(c)
                       \/ \E k \in Context : Expire(k, c)
    \/ \E n \in Node : \/ Loop(n) \/ Server(n) \/ Crash(n) \/ DieOfUndefined(n)
                       \/ \E k \in Context : LoseBroadcast(n, k)

Spec == Init /\ [][Next]_vars

\* libevent runs every callback that is ready (none of them is starved: each
\* needs its own), Redis serves every connection, and the end of a socket that
\* is watched is noticed.  Nothing else is forced.
Fairness ==
    /\ \A n \in Node :
         /\ WF_vars(Redis_Verify_Callback(n) \/ Redis_Add_Login_Callback(n))
         /\ WF_vars(Redis_Register_Callback(n)) /\ WF_vars(Request_Process_Cb(n))
         /\ WF_vars(Redis_Auth_Broadcast_Callback(n)) /\ WF_vars(Redis_Broadcast_Callback(n))
         /\ WF_vars(ExecVerify(n) \/ ExecKick(n) \/ ExecRecord(n, "auth") \/ ExecList(n, "auth"))
         /\ WF_vars(ExecRecord(n, "core") \/ ExecList(n, "core"))
    /\ \A c \in Conn : /\ WF_vars(BevEventCallback(c))
                       /\ WF_vars(EventCallback(c) /\ peer[c] = "gone")

FairSpec == Spec /\ Fairness

-----------------------------------------------------------------------------
(* Properties.                                                             *)

TypeOK ==
    /\ peer \in [Conn -> {"new", "up", "gone"}]
    /\ bev \subseteq Conn /\ listening \subseteq Conn
    /\ session \in [Conn -> {"none", "starting", "running", "stopped"}]
    /\ logins \subseteq Conn /\ registered \subseteq Conn
    /\ queue \in [Node -> Seq(Request)] /\ woken \in [Node -> BOOLEAN]
    /\ up \in [Node -> BOOLEAN]
    /\ pipe \in [Node -> [Context -> Seq(Command)]]
    /\ answers \in [Node -> [Context -> Seq(Answer)]]
    /\ bcast \in [Node -> [Context -> Seq(Conn)]]
    /\ rec \in [Context -> Records] /\ clock \in Stamp
    /\ interrupted \subseteq Conn
    /\ kicks \in 0 .. MaxKicks /\ lost \in 0 .. MaxLost
    /\ stalls \in 0 .. MaxStall /\ crashes \in 0 .. MaxCrash

\* Every command, answer and request that is still on its way.
Verifying == {c \in Conn :
    \/ \E i \in DOMAIN pipe[At[c]]["auth"] : pipe[At[c]]["auth"][i] = Cmd(c, "VERIFY")
    \/ \E i \in DOMAIN answers[At[c]]["auth"] :
         LET a == answers[At[c]]["auth"][i] IN a.cmd = "VERIFY" /\ a.conn = c}
Queued(op) == {c \in Conn :
    \E i \in DOMAIN queue[At[c]] : queue[At[c]][i] = [op |-> op, conn |-> c]}
Online == {c \in Conn : session[c] \in {"starting", "running"}}
Quiet == \A n \in Node : /\ queue[n] = <<>>
                         /\ \A k \in Context : /\ pipe[n][k] = <<>> /\ answers[n][k] = <<>>
                                               /\ bcast[n][k] = <<>>

\* Every socket in _connect_map has exactly one owner that will free it: the
\* listener, a pending verification, a create request or a session; and no
\* owner is left with a socket that was freed already.
SocketOwned == \A c \in Conn : up[At[c]] =>
    LET owners == {o \in {"listener", "verify", "queue", "session"} :
                     \/ o = "listener" /\ c \in listening
                     \/ o = "verify" /\ c \in Verifying
                     \/ o = "queue" /\ c \in Queued("CREATE")
                     \/ o = "session" /\ session[c] # "none"}
    IN Cardinality(owners) = IF c \in bev THEN 1 ELSE 0

\* The pointers AUTH keeps for broadcasts are those of sessions that have not
\* stopped, and a stopped session is about to be destroyed, once.
LoginsAreOnline ==
    /\ logins = Online
    /\ {c \in Conn : session[c] = "stopped"} = Queued("DESTROY")

\* CASTER too keeps pointers of such sessions only, and the answers of Redis
\* come back to sessions that have not been freed, whatever ends a session and
\* whenever: the peer, a refusal, a kick by an administrator or by the limit of
\* the account, an expired record.  The exception the code does make is a kick
\* that finds the login unanswered (interrupted): stop() withdraws nothing then.
RegisteredAreOnline == registered \ interrupted \subseteq Online
CallbackObjectsLive == \A k \in Context : \A c \in Listing(k) \ interrupted :
    up[At[c]] => session[c] # "none"

\* When every message has been dealt with, the account has no more sessions
\* than it is allowed, whatever nodes they are on.
WithinLimit == Quiet => Cardinality(Online) =< Limit

\* A socket whose peer has left is freed, in whatever phase it was.
ClosedIsFreed == \A c \in Conn : (peer[c] = "gone") ~> (c \notin bev)

\* A connection an administrator kicks goes offline.
KickedGoesOffline == \A c \in Conn :
    (bcast[At[c]]["core"] # <<>> /\ Head(bcast[At[c]]["core"]) = c) ~> (c \notin Online)
=============================================================================
