----------------------------- MODULE AccessPolicy -----------------------------
(***************************************************************************)
(* Who may use which mount point: groups, items of a group, and aliases,   *)
(* edited by the HTTP API in Redis and kept in maps by each node           *)
(* (caster_internal.cpp: check_mount_access and its siblings, the          *)
(* callbacks that refill the maps; http_handler.cpp: the requests).        *)
(*                                                                         *)
(* A refill takes two round trips: the answer for the groups replaces the  *)
(* groups, clears the items, and asks for the items of each group.  Checks *)
(* happen at any time in between.  Refills are started by the timer, by a  *)
(* notification on CASTER:CONF, which may be lost, and by a new connection *)
(* to Redis (RedisConn, which this module extends).                        *)
(***************************************************************************)
EXTENDS RedisConn, Sequences, FiniteSets, SequencesExt

CONSTANTS
    Group,        \* groups, the built-in ones included
    Edited,       \* bound: groups that requests are about
    Mount,        \* mount points
    Policy,       \* contents of a group that requests send, see PolicyType
    ItemContent,  \* contents of an item that requests send
    OpenPolicy,   \* contents of the built-in groups when they are created
    Aliases,      \* contents of ALIAS:RULE, each as a whole
    None,         \* no entry, no group
    MaxPipe,      \* bound: commands and answers under way on a connection
    MaxEdits,     \* bound: requests to the API
    MaxLateEdits  \* bound: those of a run in which a context is given up

Aspect == {"visible", "access", "nearby"}
State == {"default", "enable", "disable"}
Item == [Aspect -> State]
PolicyType == [inside : [Aspect -> BOOLEAN], outside : [Aspect -> BOOLEAN],
               nearest : Mount \cup {"unnamed", None}]  \* the mount point, if enabled
Builtin == {"default", "SYSTEM"}

ASSUME PolicyAssumption ==
    /\ IsFiniteSet(Group) /\ Builtin \subseteq Group /\ Edited \subseteq Group
    /\ Policy \subseteq PolicyType /\ OpenPolicy \in PolicyType /\ ItemContent \subseteq Item
    /\ None \notin Group \cup Mount \cup PolicyType \cup Item \cup [Mount -> Item \cup {None}]
    /\ {MaxPipe, MaxEdits, MaxLateEdits} \subseteq Nat

VARIABLES
    groups, items, aliases,     \* Redis: ACCESS:GROUP, ACCESS:ITEM:<group>, ALIAS:RULE
    maps,                       \* _access_group_map, _access_item_map, _alias_rule_map
    cmds, answers,              \* the pipeline of each context, both directions
    api,                        \* what the HTTP thread does next
    notes,                      \* notifications on their way to the node
    edits,
    dirty,     \* history: what was edited since the node last asked for it
    loaded     \* history: the process has once got groups

storeVars == <<groups, items, aliases>>
policyVars == <<maps, cmds, answers, api, notes, edits, dirty, loaded>>
vars == <<connVars, storeVars, policyVars>>

NoItems == [m \in Mount |-> None]
NoMaps == [groups |-> [g \in Group |-> None], items |-> [g \in Group |-> None], aliases |-> None]

-----------------------------------------------------------------------------
(* The checks, on maps p of a node.                                        *)

Groups(p) == {g \in Group : p.groups[g] # None}
Empty(p) == Groups(p) = {} /\ \A g \in Group : p.items[g] = None
ItemOf(p, g, m) == IF p.items[g] = None THEN None ELSE p.items[g][m]

\* The groups that hold m as an item, or else as their nearest-base mount point.
Holding(p, m) == {g \in Group : ItemOf(p, g, m) # None}
Nearest(p, m) == {g \in Groups(p) : p.groups[g].nearest = m}
\* resolve_mount_group: the first of an unordered map, so any of them; sources
\* that name a group of their own are left out.
resolve_mount_group(p, m) ==
    IF Holding(p, m) # {} THEN Holding(p, m)
    ELSE IF Nearest(p, m) # {} THEN Nearest(p, m) ELSE {"default"}

\* is_mount_inside_group, as the set of possible answers.
is_mount_inside_group(p, g, m) ==
    IF g \in Holding(p, m) \cup Nearest(p, m) THEN {TRUE}
    ELSE {g = r : r \in resolve_mount_group(p, m)}

\* check_mount_visible, check_mount_access and check_mount_nearby: what they
\* may answer to a user of group g for mount point m.
check_mount(p, a, g, m) ==
    IF Empty(p) \/ g = "SYSTEM" THEN {TRUE}
    ELSE IF p.groups[g] = None THEN {FALSE}
    ELSE IF a = "nearby" /\ p.groups[g].nearest = None THEN {FALSE}
    ELSE LET i == ItemOf(p, g, m) IN
         IF i # None /\ i[a] # "default" THEN {i[a] = "enable"}
         ELSE {IF inside THEN p.groups[g].inside[a] ELSE p.groups[g].outside[a] :
                  inside \in is_mount_inside_group(p, g, m)}

-----------------------------------------------------------------------------
(* Refills.                                                                *)

Ask(op, g) == [op |-> op, group |-> g]
AskAlias == <<Ask("alias", None)>>
AskPolicy == <<Ask("group", None)>>
\* download_alias_rule and download_access_policy, of the timer and of
\* init_pub_context; the timer sends a ping first.
Downloads == AskAlias \o AskPolicy
PingAndDownloads == <<Ask("ping", None)>> \o Downloads
\* Mistake: only groups that the node did not have are asked for.
AskItemsOfNew(old, new) ==
    LET gs == {g \in Group : new[g] # None /\ old[g] = None}
    IN [i \in 1..Cardinality(gs) |-> Ask("item", SetToSeq(gs)[i])]
\* A command for the items of each group.
AskItems(old, new) ==
    LET gs == {g \in Group : new[g] # None}
    IN [i \in 1..Cardinality(gs) |-> Ask("item", SetToSeq(gs)[i])]

\* Commands go to the present context, if there is one.
Sent(s) == IF link'.context = Null THEN cmds
           ELSE [cmds EXCEPT ![link'.context] = @ \o s]
UnderWay(c) == Len(cmds[c]) + Len(answers[c])
\* More is sent, within the bounds.
Room == \A c \in Ctx : UnderWay(c) < MaxPipe
TimerRoom == IF Unanswered THEN edits <= MaxLateEdits ELSE Room

\* TimeoutCallback.
TimeoutCallback ==
    /\ check_redis_connection /\ TimerRoom
    /\ cmds' = Sent(PingAndDownloads) /\ dirty' = {}
    /\ UNCHANGED <<storeVars, maps, answers, api, notes, edits, loaded>>

\* Mistake: a new connection asks for nothing.
ConnectedOnly(c) ==
    /\ Redis_Pub_Connect_Cb(c)
    /\ UNCHANGED <<storeVars, policyVars>>
\* Redis_Pub_Connect_Cb with init_pub_context.
Connected(c) ==
    /\ Redis_Pub_Connect_Cb(c)
    /\ cmds' = Sent(Downloads) /\ dirty' = {}
    /\ UNCHANGED <<storeVars, maps, answers, api, notes, edits, loaded>>

\* A context given up has nothing left to answer.
Drained(c) ==
    /\ cmds[c] = <<>> /\ answers[c] = <<>>
    /\ Drain(c) /\ UNCHANGED <<storeVars, policyVars>>

\* The connection fails: every callback that waits gets a null answer and
\* leaves its map alone.
Lose(c) ==
    /\ Break(c)
    /\ cmds' = [cmds EXCEPT ![c] = <<>>] /\ answers' = [answers EXCEPT ![c] = <<>>]
    /\ UNCHANGED <<storeVars, maps, api, notes, edits, dirty, loaded>>

Refused(c) == ConnectFailed(c) /\ UNCHANGED <<storeVars, policyVars>>

Restart ==
    /\ RestartConn
    /\ maps' = NoMaps /\ loaded' = FALSE /\ notes' = <<>>
    /\ cmds' = [c \in Ctx |-> <<>>] /\ answers' = [c \in Ctx |-> <<>>]
    /\ UNCHANGED <<storeVars, api, edits, dirty>>

\* Redis executes the commands of a connection in order.
Value(cmd) == CASE cmd.op = "alias" -> aliases
                [] cmd.op = "group" -> groups
                [] cmd.op = "item" -> items[cmd.group]
                [] cmd.op = "ping" -> None
Execute(c) ==
    /\ link.ctx[c].phase = "open" /\ cmds[c] # <<>>
    /\ answers' = [answers EXCEPT ![c] = Append(@, [cmd |-> Head(cmds[c]), value |-> Value(Head(cmds[c]))])]
    /\ cmds' = [cmds EXCEPT ![c] = Tail(@)]
    /\ UNCHANGED <<connVars, storeVars, maps, api, notes, edits, dirty, loaded>>

Answered(c, op) == /\ running = "up" /\ answers[c] # <<>> /\ Head(answers[c]).cmd.op = op
                   /\ answers' = [answers EXCEPT ![c] = Tail(@)]

Pong(c) ==
    /\ Answered(c, "ping") /\ Redis_Pub_Ping_Callback(c)
    /\ UNCHANGED <<storeVars, maps, cmds, api, notes, edits, dirty, loaded>>

Redis_Update_Alias_Rule_Callback(c) ==
    /\ Answered(c, "alias")
    /\ maps' = [maps EXCEPT !.aliases = Head(answers[c]).value]
    /\ UNCHANGED <<connVars, storeVars, cmds, api, notes, edits, dirty, loaded>>

\* The groups are replaced, the items cleared and asked for.
Redis_Update_Access_Group_Callback(c) ==
    LET new == Head(answers[c]).value
        ask == AskItems(maps.groups, new)
    IN /\ Answered(c, "group")
       /\ maps' = [maps EXCEPT !.groups = new, !.items = [g \in Group |-> None]]
       /\ loaded' = (loaded \/ ask # <<>>)
       /\ IF ask # <<>> THEN UseContext ELSE UNCHANGED connVars
       /\ cmds' = Sent(ask)
       /\ UNCHANGED <<storeVars, api, notes, edits, dirty>>

Redis_Update_Access_Item_Callback(c) ==
    LET a == Head(answers[c])
    IN /\ Answered(c, "item")
       /\ maps' = [maps EXCEPT !.items[a.cmd.group] = a.value]
       /\ UNCHANGED <<connVars, storeVars, cmds, api, notes, edits, dirty, loaded>>

\* A notification starts a refill at once.
Redis_ConfChange_Callback ==
    /\ UseContext /\ Room /\ notes # <<>>
    /\ notes' = Tail(notes) /\ dirty' = dirty \ {Head(notes)}
    /\ cmds' = Sent(IF Head(notes) = "ALIAS" THEN AskAlias ELSE AskPolicy)
    /\ UNCHANGED <<storeVars, maps, answers, api, edits, loaded>>

-----------------------------------------------------------------------------
(* The HTTP API, on one thread: a write, then a notification.              *)

Write(gs, is, as, topic) ==
    /\ api = "ready" /\ edits < IF late THEN MaxLateEdits ELSE MaxEdits
    /\ groups' = gs /\ items' = is /\ aliases' = as
    /\ api' = topic /\ dirty' = dirty \cup {topic} /\ edits' = edits + 1
    /\ UNCHANGED <<connVars, maps, cmds, answers, notes, loaded>>

\* http_handler::init makes sure of the built-in groups, without a notification.
EnsureBuiltin(g) ==
    /\ api = g /\ g \in Builtin
    /\ groups' = [groups EXCEPT ![g] = IF @ = None THEN OpenPolicy ELSE @]
    /\ api' = IF g = "default" THEN "SYSTEM" ELSE "ready"
    /\ dirty' = dirty \cup {"ACCESS"}
    /\ UNCHANGED <<connVars, items, aliases, maps, cmds, answers, notes, edits, loaded>>

handle_create_access_group(g, p) ==
    groups[g] = None /\ Write([groups EXCEPT ![g] = p], items, aliases, "ACCESS")
handle_update_access_group(g, p) ==
    Write([groups EXCEPT ![g] = p], items, aliases, "ACCESS")

\* The items of the group stay.
handle_delete_access_group(g) ==
    /\ g \notin Builtin /\ groups[g] # None
    /\ Write([groups EXCEPT ![g] = None], items, aliases, "ACCESS")

handle_create_access_item(g, m, i) ==
    items[g][m] = None /\ Write(groups, [items EXCEPT ![g][m] = i], aliases, "ACCESS")
handle_update_access_item(g, m, i) ==
    Write(groups, [items EXCEPT ![g][m] = i], aliases, "ACCESS")
handle_delete_access_item(g, m) ==
    items[g][m] # None /\ Write(groups, [items EXCEPT ![g][m] = None], aliases, "ACCESS")

\* Creation, change or deletion of a rule.
EditAliases(as) == as # aliases /\ Write(groups, items, as, "ALIAS")

\* The notification reaches the node, if it listens, or is lost.
Publish ==
    /\ api \in {"ACCESS", "ALIAS"} /\ api' = "ready"
    /\ \/ UNCHANGED notes
       \/ running = "up" /\ notes' = Append(notes, api)
    /\ UNCHANGED <<connVars, storeVars, maps, cmds, answers, edits, dirty, loaded>>

-----------------------------------------------------------------------------

\* A store that was never used, or one that the API has prepared and filled.
Init ==
    /\ ConnInit
    /\ \E old \in SUBSET Edited, p \in Policy, i \in ItemContent :
         /\ groups = [g \in Group |-> IF old # {} /\ g \in Builtin THEN OpenPolicy
                                      ELSE IF g \in old THEN p ELSE None]
         /\ items = [g \in Group |-> IF g \in old THEN [m \in Mount |-> i] ELSE NoItems]
    /\ aliases \in Aliases
    /\ maps = NoMaps
    /\ cmds = [c \in Ctx |-> <<>>] /\ answers = [c \in Ctx |-> <<>>]
    /\ api = "default" /\ notes = <<>> /\ edits = 0
    /\ dirty = {"ACCESS", "ALIAS"} /\ loaded = FALSE

Requests ==
    \/ \E g \in Edited, p \in Policy : handle_create_access_group(g, p) \/ handle_update_access_group(g, p)
    \/ \E g \in Edited : handle_delete_access_group(g)
    \/ \E g \in Edited, m \in Mount : handle_delete_access_item(g, m)
    \/ \E g \in Edited, m \in Mount, i \in ItemContent :
          handle_create_access_item(g, m, i) \/ handle_update_access_item(g, m, i)
    \/ \E as \in Aliases : EditAliases(as)

Callbacks(c) ==
    \/ Pong(c) \/ Drained(c) \/ Execute(c)
    \/ Redis_Update_Alias_Rule_Callback(c)
    \/ Redis_Update_Access_Group_Callback(c) \/ Redis_Update_Access_Item_Callback(c)

Next ==
    \/ TimeoutCallback \/ Restart \/ Redis_ConfChange_Callback \/ Publish \/ Requests
    \/ \E g \in Builtin : EnsureBuiltin(g)
    \/ \E c \in Ctx : Connected(c) \/ Lose(c) \/ Refused(c) \/ Callbacks(c)

Spec == Init /\ [][Next]_vars

\* The timer is periodic, Redis executes, callbacks run, connections are
\* accepted or refused, the process is started again, the API proceeds.
FairSpec ==
    /\ Spec
    /\ WF_vars(TimeoutCallback) /\ WF_vars(Restart) /\ WF_vars(Redis_ConfChange_Callback)
    /\ WF_vars(Publish) /\ WF_vars(\E g \in Builtin : EnsureBuiltin(g))
    /\ \A c \in Ctx : WF_vars(Connected(c)) /\ WF_vars(Callbacks(c))

-----------------------------------------------------------------------------

TypeOK ==
    /\ ConnTypeOK
    /\ groups \in [Group -> PolicyType \cup {None}]
    /\ items \in [Group -> [Mount -> Item \cup {None}]]
    /\ aliases \in Aliases
    /\ maps \in [groups : [Group -> PolicyType \cup {None}],
                 items : [Group -> [Mount -> Item \cup {None}] \cup {None}],
                 aliases : Aliases \cup {None}]
    /\ api \in Builtin \cup {"ready", "ACCESS", "ALIAS"}
    /\ notes \in Seq({"ACCESS", "ALIAS"}) /\ dirty \subseteq {"ACCESS", "ALIAS"}
    /\ loaded \in BOOLEAN

\* Answers under way that will replace or complete what the node has of g.
Waits(c) == {cmds[c][i] : i \in DOMAIN cmds[c]}
            \cup {answers[c][i].cmd : i \in DOMAIN answers[c]}
Refilling(g) == \E c \in Ctx : Waits(c) \cap {Ask("group", None), Ask("item", g)} # {}

\* A refill opens what is closed for no longer than it lasts.  A node that has once
\* loaded the groups never takes emptied maps for "no policy", which allows all.
\* An item that denies a mount point is forgotten when the groups arrive and the
\* items are cleared (README, findings); but with a connection, and nothing
\* edited since the node last asked, every user of the group is denied again as
\* soon as no answer about that group is under way: however refills overlapped,
\* whatever else is asked for, and whatever a lost connection left half done.
DenialsReturn ==
    running = "up" /\ loaded /\ ~late =>
      /\ ~Empty(maps)
      /\ link.connected /\ "ACCESS" \notin dirty =>
           \A g \in Group \ {"SYSTEM"}, m \in Mount, a \in Aspect :
             /\ groups[g] # None /\ items[g][m] # None /\ items[g][m][a] = "disable"
             /\ ~Refilling(g)
             => check_mount(maps, a, g, m) = {FALSE}

\* The node decides by what the store says.
Exact == /\ maps.groups = groups /\ maps.aliases = aliases
         /\ \A g \in Groups(maps) : maps.items[g] = items[g]

\* When every answer has arrived and nothing was edited since the node last
\* asked, its maps are those of the store, however refills overlapped and
\* connections were lost.
SettledIsExact ==
    /\ running = "up" /\ ~late /\ link.connected /\ dirty = {}
    /\ \A c \in Ctx : cmds[c] = <<>> /\ answers[c] = <<>>
    => Exact

\* Again and again the node decides by what the store says.
PolicyArrives == []<>Exact

\* Not true: an item that denies what its group allows is ignored while it is
\* refilled (see the README).
ItemDenialHolds ==
    running = "up" /\ loaded =>
      \A g \in Group \ {"SYSTEM"}, m \in Mount :
        /\ items[g][m] # None /\ items[g][m]["access"] = "disable"
        /\ maps.groups[g] # None /\ dirty = {} /\ api = "ready"
        => TRUE \notin check_mount(maps, "access", g, m)
=============================================================================
