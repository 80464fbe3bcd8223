----------------------------- MODULE Subscription -----------------------------
(***************************************************************************)
(* How the rovers of one node get the data of base stations                *)
(* (caster_internal.cpp: sub_base_channel, sub_near_channel,               *)
(* sub_alias_channel and their counterparts; client_ntrip, client_near).   *)
(*                                                                         *)
(* A rover asks for a mount point, which may be an alias, or for the       *)
(* nearest base.  The node keeps the rovers of each base in _base_sub_map  *)
(* and subscribes to the channel of a base once for all of them, over the  *)
(* sub connection.  What it knows of the cluster (which bases are online,  *)
(* and which are near) are answers to commands on the pub connection, old  *)
(* when they arrive.                                                       *)
(*                                                                         *)
(* node is what the process keeps, the output buffers of both connections  *)
(* included; the methods are functions from such a record to the next.     *)
(* Callbacks into sessions are synchronous, so stop() of a session happens *)
(* inside the method that called it.                                       *)
(***************************************************************************)
EXTENDS Naturals, Sequences, FiniteSets, SequencesExt

CONSTANTS
    Base,          \* mount points of base stations
    Sources,       \* [alias -> sequence of bases]: _alias_rule_map, which changes seldom
    Client, Near,  \* rovers that ask for a mount point, for the nearest base
    NearMount,     \* nearest_mpt_source_name, the mount point of the latter
    Closest,       \* [place -> sequence of bases]: within 100 km, nearest first
    None,          \* no position, no mount point, no entry
    MaxPipe,       \* bound: commands and answers under way on the pub connection
    MaxChanges,    \* bound: bases coming and going
    MaxDrops       \* bound: losses of a connection

Alias == DOMAIN Sources
Place == DOMAIN Closest
Rover == Client \cup Near

ASSUME NamesDiffer ==
    /\ Base \cap Alias = {} /\ Client \cap Near = {}
    /\ NearMount \notin Base \cup Alias \cup {None} /\ None \notin Base \cup Alias \cup Place
ASSUME ConstantsOK ==
    /\ IsFiniteSet(Base) /\ Sources \in [Alias -> Seq(Base)] /\ Closest \in [Place -> Seq(Base)]
    /\ {MaxPipe, MaxChanges, MaxDrops} \subseteq Nat

VARIABLES
    online, geo,               \* Redis: MPT:ONLINE, MPT:GEO
    node,
    replies,                   \* answers on the pub connection, not read yet
    sub_up, listening,         \* the sub connection, and its channels at Redis
    changes, pub_drops, sub_drops

vars == <<online, geo, node, replies, sub_up, listening, changes, pub_drops, sub_drops>>

PubCommand == [op : {"online"}] \cup [op : {"radius"}, key : Near, place : Place]
              \cup [op : {"remove"}, base : Base]
\* The bases that have a position, of those close to the place.
Reply == [op : {"online"}, set : SUBSET Base]
         \cup [op : {"radius"}, key : Near, place : Place, known : SUBSET Base]
SubCommand == [op : {"SUBSCRIBE", "UNSUBSCRIBE"}, base : Base]
Session == [state : {"registering", "running", "stopped"},
            mount_point : Base \cup Alias \cup {NearMount, None},
            alias_mpt : Base \cup {NearMount, None},  \* the mount point really subscribed to
            fed : BOOLEAN]                            \* data of it has arrived

\* A session without a mount point.
Fresh(state) == [state |-> state, mount_point |-> None, alias_mpt |-> None, fed |-> FALSE]

Init ==
    /\ online \in SUBSET Base /\ geo = online
    /\ node = [active |-> online, subs |-> [b \in {} |-> {}],
               near |-> [r \in Near |-> None], cache |-> [r \in Near |-> None],
               session |-> [r \in Rover |-> Fresh("registering")],
               to_pub |-> <<>>, to_sub |-> <<>>]
    /\ replies = <<>> /\ sub_up = TRUE /\ listening = {}
    /\ changes = 0 /\ pub_drops = 0 /\ sub_drops = 0

\* The rovers subscribed to b.
SubsOf(n, b) == IF b \in DOMAIN n.subs THEN n.subs[b] ELSE {}
Running(n, r) == n.session[r].state = "running"

-----------------------------------------------------------------------------
(* Methods.                                                                *)

\* Mistake: a client is looked for under the mount point it asked for.
ChannelAsked(n, r) == IF r \in Near THEN n.near[r] ELSE n.session[r].mount_point
\* Where the rover is unsubscribed: a client from what it was told it got, if
\* anything; the node knows the channel of a nearest-base rover.
Channel(n, r) ==
    LET s == n.session[r] IN
    IF r \in Near THEN n.near[r]
    ELSE IF s.alias_mpt = None THEN s.mount_point ELSE s.alias_mpt

\* stop() of the sessions of rs, whose fields are not used any more.
\* Unsub_Raw_Data and unsub_near_channel erase the rover from its channel, which
\* stays in the map when it is empty.
stop(n, rs) ==
    [n EXCEPT !.subs = [b \in DOMAIN @ |-> @[b] \ {r \in rs : Channel(n, r) = b}],
              !.near = [r \in Near |-> IF r \in rs THEN None ELSE @[r]],
              !.cache = [r \in Near |-> IF r \in rs THEN None ELSE @[r]],
              !.session = [r \in Rover |->
                              IF r \in rs THEN Fresh("stopped") ELSE @[r]]]

\* CasterSubscribeCallback with OK: the session notes the channel.
Ok(n, r, channel) == [n EXCEPT !.session[r].alias_mpt = channel, !.session[r].fed = FALSE]

\* The first rover of a channel subscribes to it, unless the base is not active.
sub_base_channel(n, r, b) ==
    IF b \notin n.active THEN stop(n, {r})
    ELSE IF b \in DOMAIN n.subs THEN Ok([n EXCEPT !.subs[b] = @ \cup {r}], r, b)
    ELSE Ok([n EXCEPT !.subs = [c \in DOMAIN @ \cup {b} |-> IF c = b THEN {r} ELSE @[c]],
                      !.to_sub = Append(@, [op |-> "SUBSCRIBE", base |-> b])], r, b)

\* Where in a sequence the first of some active bases is, 0 if there is none.
FirstActive(active, list) ==
    LET at == {i \in DOMAIN list : list[i] \in active} IN
    IF at = {} THEN 0 ELSE CHOOSE i \in at : \A j \in at : i <= j

\* The first source that is active.
sub_alias_channel(n, r, a) ==
    LET i == FirstActive(n.active, Sources[a]) IN
    IF i = 0 THEN stop(n, {r}) ELSE sub_base_channel(n, r, Sources[a][i])

\* An alias, or else the name of a base.
Sub_Raw_Data(n, r, m) ==
    IF m \in Alias THEN sub_alias_channel(n, r, m) ELSE sub_base_channel(n, r, m)

\* check_nearest_mount_login refuses any channel but the group's; without a
\* position the rover waits for one; with it, Redis is asked.
sub_near_channel(n, r, channel, p) ==
    IF channel # NearMount THEN stop(n, {r})
    ELSE LET m == [n EXCEPT !.near[r] = IF @ = None THEN channel ELSE @] IN
         IF p = None THEN Ok(m, r, channel)
         ELSE [m EXCEPT !.to_pub = Append(@, [op |-> "radius", key |-> r, place |-> p])]

\* Mistake: the rover stays in the channel of its former base.
MoveOnly(n, r, b) == sub_base_channel([n EXCEPT !.near[r] = b], r, b)
\* A rover leaves the channel of its former base for that of a nearer one.
Move(n, r, b) ==
    LET left == [c \in DOMAIN n.subs |-> n.subs[c] \ (IF c = n.near[r] THEN {r} ELSE {})]
    IN sub_base_channel([n EXCEPT !.subs = left, !.near[r] = b], r, b)

-----------------------------------------------------------------------------
(* Sessions.                                                               *)

UnchangedCluster == UNCHANGED <<online, geo, changes>>
UnchangedConnections == UNCHANGED <<replies, sub_up, listening, pub_drops, sub_drops>>
Room == Len(node.to_pub) + Len(replies) < MaxPipe

\* The registration is answered: a client subscribes, unless the access policy
\* (left open here) refuses; a nearest-base rover gives its position, if known.
CasterRegisterCallback(r) ==
    /\ node.session[r].state = "registering"
    /\ \E m \in IF r \in Near THEN {NearMount} ELSE Base \cup Alias :
         LET n == [node EXCEPT !.session[r] =
                       [@ EXCEPT !.state = "running", !.mount_point = m]] IN
         \/ r \in Client /\ node' = Sub_Raw_Data(n, r, m)
         \/ node' = stop(n, {r})
         \/ /\ r \in Near /\ Room
            /\ \E p \in Place \cup {None} : node' = sub_near_channel(n, r, m, p)
    /\ UnchangedCluster /\ UnchangedConnections

\* A rover sends its position: a new query when it has moved far enough.
pub_rover_channel(r) ==
    /\ r \in Near /\ Running(node, r) /\ Room
    /\ \E p \in Place :
         /\ p # node.cache[r]
         /\ node' = sub_near_channel([node EXCEPT !.cache[r] = p], r, node.near[r], p)
    /\ UnchangedCluster /\ UnchangedConnections

\* The rover leaves, is kicked, or is too slow.
EventCallback(r) ==
    /\ Running(node, r) /\ node' = stop(node, {r})
    /\ UnchangedCluster /\ UnchangedConnections

\* Data of a base that publishes, for every rover in the map.
Redis_SUB_Base_Callback(b) ==
    /\ sub_up /\ b \in online /\ b \in listening
    /\ node' = [node EXCEPT !.session = [r \in Rover |->
                   IF r \in SubsOf(node, b) THEN [@[r] EXCEPT !.fed = TRUE] ELSE @[r]]]
    /\ UnchangedCluster /\ UnchangedConnections

-----------------------------------------------------------------------------
(* The pub connection: what the node asks and what it makes of the answers. *)

\* download_active_item, with a period longer than the commands and answers take.
Refresh == <<[op |-> "online"]>>
TimeoutCallback ==
    /\ node.to_pub = <<>> /\ replies = <<>>
    /\ node' = [node EXCEPT !.to_pub = Refresh]
    /\ UnchangedCluster /\ UnchangedConnections

\* Redis executes the next command.
Execute ==
    /\ node.to_pub # <<>>
    /\ node' = [node EXCEPT !.to_pub = Tail(@)]
    /\ LET c == Head(node.to_pub)
           Answer(a) == replies' = Append(replies, a) /\ UNCHANGED geo IN
       \/ c.op = "online" /\ Answer([op |-> "online", set |-> online])
       \/ /\ c.op = "radius"
          /\ Answer([op |-> "radius", key |-> c.key, place |-> c.place,
                     known |-> geo \cap ToSet(Closest[c.place])])
       \/ c.op = "remove" /\ geo' = geo \ {c.base} /\ UNCHANGED replies
    /\ UNCHANGED <<online, changes, sub_up, listening, pub_drops, sub_drops>>

\* Takes the next answer if it is to such a command, and leaves the rest alone.
Answered(op) ==
    /\ replies # <<>> /\ Head(replies).op = op /\ replies' = Tail(replies)
    /\ UnchangedCluster /\ UNCHANGED <<sub_up, listening, pub_drops, sub_drops>>

\* Mistake: what is no longer listed is not forgotten.
Merged(n, set) == [n EXCEPT !.active = @ \cup set]
\* _active_mount_map is filled anew.
Refilled(n, set) == [n EXCEPT !.active = set]

\* Mistake: a channel without rovers is forgotten, but the subscription kept.
ForgetOnly(n, released) ==
    [n EXCEPT !.subs = [b \in DOMAIN @ \ released |-> @[b]]]
\* A channel without rovers is given up.
Release(n, released) ==
    [n EXCEPT !.subs = [b \in DOMAIN @ \ released |-> @[b]],
              !.to_sub = @ \o SetToSeq([op : {"UNSUBSCRIBE"}, base : released])]

\* The rovers of a base that is not active are told, which stops them
\* (Notify_Base_Inactive, on by default); channels that were empty before are
\* released.
check_active_base_channel(n) ==
    LET gone == UNION {SubsOf(n, b) : b \in DOMAIN n.subs \ n.active}
    IN Release(stop(n, gone), {b \in DOMAIN n.subs : n.subs[b] = {}})

Redis_Update_Active_Base_Callback ==
    /\ Answered("online")
    /\ node' = check_active_base_channel(Refilled(node, Head(replies).set))

\* Mistake: nothing is answered.
NoneSilent(n, r) == n
\* The rover is told that there is no base near it, which stops it.
NoneFound(n, r) == stop(n, {r})

\* Nearest base for a rover that still waits for one: the rover is moved, left
\* where it is, or stopped when there is none.  Bases found not active on the
\* way are removed from the positions.
Redis_Geo_Radius_Callback ==
    /\ Answered("radius")
    /\ LET r == Head(replies).key
           list == Closest[Head(replies).place]
           known == Head(replies).known
           i == FirstActive(node.active \cap known, list)
           passed == {list[j] : j \in {j \in DOMAIN list : i = 0 \/ j < i}} \cap known
           n == [node EXCEPT !.to_pub = @ \o SetToSeq([op : {"remove"}, base : passed])] IN
       node' = IF node.near[r] = None THEN node
               ELSE IF i = 0 THEN NoneFound(n, r)
               ELSE IF list[i] = node.near[r] THEN n
               ELSE Move(n, r, list[i])

\* The connection is lost with everything on it; its successor starts with a
\* refresh (init_pub_context).
Redis_Pub_Disconnect_Cb ==
    /\ pub_drops + sub_drops < MaxDrops /\ pub_drops' = pub_drops + 1
    /\ node' = [node EXCEPT !.to_pub = Refresh] /\ replies' = <<>>
    /\ UnchangedCluster /\ UNCHANGED <<sub_up, listening, sub_drops>>

-----------------------------------------------------------------------------
(* The sub connection.                                                     *)

\* Redis executes the next command.
ExecuteSub ==
    /\ sub_up /\ node.to_sub # <<>>
    /\ LET c == Head(node.to_sub) IN
       listening' = IF c.op = "SUBSCRIBE" THEN listening \cup {c.base}
                    ELSE listening \ {c.base}
    /\ node' = [node EXCEPT !.to_sub = Tail(@)]
    /\ UnchangedCluster /\ UNCHANGED <<replies, sub_up, pub_drops, sub_drops>>

\* Lost; what is sent before its successor is connected is kept for it.
Redis_Sub_Disconnect_Cb ==
    /\ sub_up /\ pub_drops + sub_drops < MaxDrops /\ sub_drops' = sub_drops + 1
    /\ sub_up' = FALSE /\ listening' = {} /\ node' = [node EXCEPT !.to_sub = <<>>]
    /\ UnchangedCluster /\ UNCHANGED <<replies, pub_drops>>

\* Mistake: only the channels of the node itself are subscribed to again.
InitNothing(n) == n
\* Every channel in the map is subscribed to again.
init_sub_context(n) ==
    [n EXCEPT !.to_sub = @ \o SetToSeq([op : {"SUBSCRIBE"}, base : DOMAIN n.subs])]
Redis_Sub_Connect_Cb ==
    /\ ~sub_up /\ sub_up' = TRUE /\ node' = init_sub_context(node)
    /\ UnchangedCluster /\ UNCHANGED <<replies, listening, pub_drops, sub_drops>>

-----------------------------------------------------------------------------
(* The rest of the cluster.                                                *)

UnchangedNode == UNCHANGED node /\ UnchangedConnections

\* A base registers, or its entry expires.
BaseChanges(b) ==
    /\ changes < MaxChanges /\ changes' = changes + 1
    /\ online' \in {online \cup {b}, online \ {b}} \ {online}
    /\ UNCHANGED geo /\ UnchangedNode
\* Data of a base tell where it is.
set_base_coord_info(b) ==
    /\ b \in online \ geo /\ geo' = geo \cup {b}
    /\ UNCHANGED <<online, changes>> /\ UnchangedNode

Next ==
    \/ \E r \in Rover : CasterRegisterCallback(r) \/ pub_rover_channel(r) \/ EventCallback(r)
    \/ \E b \in Base : Redis_SUB_Base_Callback(b) \/ BaseChanges(b) \/ set_base_coord_info(b)
    \/ TimeoutCallback \/ Execute
    \/ Redis_Update_Active_Base_Callback \/ Redis_Geo_Radius_Callback \/ Redis_Pub_Disconnect_Cb
    \/ ExecuteSub \/ Redis_Sub_Disconnect_Cb \/ Redis_Sub_Connect_Cb

Spec == Init /\ [][Next]_vars

\* The timer and the callbacks run, Redis executes, an online base publishes,
\* and a lost connection is made again.
FairSpec ==
    /\ Spec
    /\ WF_vars(TimeoutCallback) /\ WF_vars(Execute) /\ WF_vars(ExecuteSub)
    /\ WF_vars(Redis_Update_Active_Base_Callback) /\ WF_vars(Redis_Geo_Radius_Callback)
    /\ WF_vars(Redis_Sub_Connect_Cb)
    /\ \A b \in Base : WF_vars(Redis_SUB_Base_Callback(b))

-----------------------------------------------------------------------------
(* Properties.                                                             *)

\* Types of what the process keeps and of what is under way.
TypeOK ==
    /\ online \in SUBSET Base /\ geo \in SUBSET Base
    /\ node.active \in SUBSET Base
    /\ DOMAIN node.subs \subseteq Base /\ \A b \in DOMAIN node.subs : node.subs[b] \subseteq Rover
    /\ node.near \in [Near -> Base \cup {NearMount, None}]
    /\ node.cache \in [Near -> Place \cup {None}]
    /\ node.session \in [Rover -> Session]
    /\ node.to_pub \in Seq(PubCommand) /\ node.to_sub \in Seq(SubCommand)
    /\ replies \in Seq(Reply) /\ sub_up \in BOOLEAN /\ listening \in SUBSET Base
    /\ changes \in 0 .. MaxChanges /\ {pub_drops, sub_drops} \subseteq 0 .. MaxDrops

\* The maps hold the pointers of sessions that run, and no others: stop() finds
\* every entry the session has, whatever name it asked for and however often it
\* has been moved.
SubscribersRun ==
    /\ \A b \in Base : \A r \in SubsOf(node, b) : Running(node, r)
    /\ \A r \in Near : node.near[r] # None => Running(node, r)

\* A session is in the channel of the base it was told it has, and in no other:
\* data of two bases are never mixed.
OneBase == \A r \in Rover : Running(node, r) =>
    {b \in Base : r \in SubsOf(node, b)} = {node.session[r].alias_mpt} \cap Base

\* What the last command about b on its way makes of its subscription.
WillListen(b) ==
    LET about == {i \in DOMAIN node.to_sub : node.to_sub[i].base = b} IN
    IF about = {} THEN b \in listening
    ELSE \E i \in about : /\ \A j \in about : j <= i
                          /\ node.to_sub[i].op = "SUBSCRIBE"
\* The subscriptions at Redis are those of the map, as soon as the commands under
\* way are executed, whatever was lost before.
ListensToMap == sub_up => \A b \in Base : b \in DOMAIN node.subs <=> WillListen(b)

\* A rover in the channel of a base that publishes gets its data, or leaves: it is
\* not left without for ever.
DataArrive == \A r \in Rover, b \in Base :
    []<>(r \in SubsOf(node, b) /\ b \in online => node.session[r].fed)

\* A rover learns that its base is gone, unless the base comes back: it does not
\* stay in the channel of a silent base for ever.
ToldOfEnd == \A r \in Rover, b \in Base : []<>(r \in SubsOf(node, b) => b \in online)

\* While the pub connection holds, a rover that told where it is, in its request
\* (it is then not told to wait) or in a report, gets a base or an end.  (A query
\* lost with the connection is not repeated.)
Located(r) == node.cache[r] # None \/ node.session[r].alias_mpt = None
NearestFound == \A r \in Near : [](pub_drops = 0) =>
    ((node.near[r] = NearMount /\ Located(r)) ~> (node.near[r] \in Base \/ ~Running(node, r)))

\* A position report does not end the session.
ReportsKeepSession == [][\A r \in Near :
    pub_rover_channel(r) => node'.session[r].state = "running"]_vars
=============================================================================
