------------------------------- MODULE RedisConn -------------------------------
(***************************************************************************)
(* How a node keeps its command connection to Redis (caster_internal.cpp:  *)
(* pubAttemptReconnect, check_redis_connection and the callbacks of the    *)
(* connection; the subscriber connection has a copy of the same code, that *)
(* of AUTH a copy without pings).                                          *)
(*                                                                         *)
(* _pub_context is a pointer to a context of hiredis.  A context whose     *)
(* pings Redis leaves unanswered is given up: another takes its place, but *)
(* it lives on until its last command is answered.  What it still answers  *)
(* is taken for answers of the present one, and in the end it calls back   *)
(* like one that failed, which clears the pointer to the present one.      *)
(***************************************************************************)
EXTENDS Naturals

CONSTANTS
    Ctx,         \* bound: contexts that may exist at a time, numbered from 1
    PingLimit,   \* more unanswered pings than this, and the node reconnects
    MaxBreaks,   \* bound: connections lost, refused or given up
    MaxLateBreaks \* the same bound after one was given up

Null == 0

ASSUME CtxAssumption == Ctx \subseteq Nat \ {Null} /\ 1 \in Ctx
ASSUME BoundsAssumption == {PingLimit, MaxBreaks, MaxLateBreaks} \subseteq Nat

VARIABLES
    running,    \* "up", "exited", or "undefined": a null context has been used
    link,       \* _pub_context, _is_pub_connected, and the contexts of hiredis
    fail,       \* _pub_ping_fail_count
    breaks,     \* connections lost, refused or given up so far
    late        \* history: this process has given up a context

connVars == <<running, link, fail, breaks, late>>

\* A context of hiredis; closing: redisAsyncDisconnect has been called.
Context == [phase : {"none", "connecting", "open"}, closing : BOOLEAN, pings : Nat]
NoContext == [phase |-> "none", closing |-> FALSE, pings |-> 0]
NewContext == [phase |-> "connecting", closing |-> FALSE, pings |-> 0]

Link == [context : Ctx \cup {Null}, connected : BOOLEAN, ctx : [Ctx -> Context]]

\* start(): the first context is being connected.
InitLink == [context |-> 1, connected |-> FALSE,
             ctx |-> [c \in Ctx |-> IF c = 1 THEN NewContext ELSE NoContext]]
ConnInit == /\ running = "up" /\ link = InitLink /\ fail = 0 /\ breaks = 0
            /\ late = FALSE

FreeCtx(l) == {c \in Ctx : l.ctx[c].phase = "none"}

\* redisAsyncDisconnect: a context with answers to come stays until they have.
redisAsyncDisconnect(l) ==
    IF l.context = Null THEN l ELSE [l EXCEPT !.ctx[l.context].closing = TRUE]

\* The present context, if any, is given up, and another takes its place.
pubAttemptReconnect(l) ==
    IF l.connected THEN l
    ELSE LET d == redisAsyncDisconnect(l)
             c == CHOOSE c \in FreeCtx(d) : TRUE
         IN [d EXCEPT !.context = c, !.ctx[c] = NewContext]

\* Redis_Pub_Disconnect_Cb, for whatever context: there is none any more.
\* hiredis frees c.
Redis_Pub_Disconnect_Cb(l, c, error) ==
    LET d == [l EXCEPT !.context = Null, !.connected = FALSE, !.ctx[c] = NoContext]
    IN IF error THEN pubAttemptReconnect(d) ELSE d

-----------------------------------------------------------------------------
(* Steps.  A use of the null context ends the process.                     *)

Use(l) == running' = IF l.context = Null THEN "undefined" ELSE "up"

\* A callback sends commands on the present context.
UseContext == running = "up" /\ Use(link) /\ UNCHANGED <<link, fail, breaks, late>>

\* bound: one more connection may be lost.
MayBreak == breaks < IF late THEN MaxLateBreaks ELSE MaxBreaks

\* Pings are missing.
Unanswered == fail > PingLimit

\* check_redis_connection: the count after a ping.
NextFail(f) == IF f > PingLimit THEN 1 ELSE f + 1

\* The timer, as far as the connection is concerned: commands on the present
\* context, which is then given up if pings are missing, and a ping.
check_redis_connection ==
    LET l == IF Unanswered THEN pubAttemptReconnect([link EXCEPT !.connected = FALSE])
             ELSE link
    IN /\ running = "up"
       /\ Unanswered => MayBreak /\ FreeCtx(link) # {}
       /\ Use(link)
       /\ IF link.context = Null THEN UNCHANGED <<link, fail, breaks, late>>
          ELSE /\ link' = [l EXCEPT !.ctx[l.context].pings = @ + 1]
               /\ fail' = NextFail(fail)
               /\ breaks' = IF Unanswered THEN breaks + 1 ELSE breaks
               /\ late' = (late \/ Unanswered)

\* Redis_Pub_Connect_Cb: connected, whatever the context; init_pub_context then
\* uses the present one.
Redis_Pub_Connect_Cb(c) ==
    LET l == pubAttemptReconnect([link EXCEPT !.connected = TRUE, !.ctx[c].phase = "open"])
    IN /\ running = "up" /\ link.ctx[c].phase = "connecting"
       /\ Use(l) /\ link' = l
       /\ UNCHANGED <<fail, breaks, late>>

\* A connection that is refused ends the process.
ConnectFailed(c) ==
    /\ running = "up" /\ link.ctx[c].phase = "connecting" /\ MayBreak
    /\ running' = "exited" /\ breaks' = breaks + 1
    /\ UNCHANGED <<link, fail, late>>

\* Redis_Pub_Ping_Callback, of whatever context.
Redis_Pub_Ping_Callback(c) ==
    /\ running = "up" /\ link.ctx[c].phase = "open" /\ link.ctx[c].pings > 0
    /\ fail' = 0
    /\ link' = [link EXCEPT !.ctx[c].pings = @ - 1]
    /\ UNCHANGED <<running, breaks, late>>

\* The last command of a context given up is answered (one that the timer sent
\* before it gave the context up, and whose answer nobody waits for): hiredis
\* disconnects it, which is no error.
Drain(c) ==
    /\ running = "up" /\ link.ctx[c].phase = "open"
    /\ link.ctx[c].closing /\ link.ctx[c].pings = 0
    /\ link' = Redis_Pub_Disconnect_Cb(link, c, FALSE)
    /\ UNCHANGED <<running, fail, breaks, late>>

\* Mistake: null answers to pings leave the count as it is.
BreakUncounted(c) ==
    /\ running = "up" /\ link.ctx[c].phase = "open" /\ MayBreak
    /\ link' = Redis_Pub_Disconnect_Cb(link, c, TRUE)
    /\ breaks' = breaks + 1 /\ UNCHANGED <<running, fail, late>>
\* A connection fails: the waiting callbacks run with null answers, that of a
\* ping like with any other, then the callback of the connection.
Break(c) ==
    /\ running = "up" /\ link.ctx[c].phase = "open" /\ MayBreak
    /\ link' = Redis_Pub_Disconnect_Cb(link, c, TRUE)
    /\ fail' = IF link.ctx[c].pings > 0 THEN 0 ELSE fail
    /\ breaks' = breaks + 1 /\ UNCHANGED <<running, late>>

\* The process is started again.
RestartConn ==
    /\ running # "up"
    /\ running' = "up" /\ link' = InitLink /\ fail' = 0 /\ late' = FALSE
    /\ UNCHANGED breaks

ConnNext ==
    \/ check_redis_connection \/ RestartConn \/ UseContext
    \/ \E c \in Ctx : \/ Redis_Pub_Connect_Cb(c) \/ ConnectFailed(c)
                      \/ Redis_Pub_Ping_Callback(c) \/ Drain(c) \/ Break(c)

ConnSpec == ConnInit /\ [][ConnNext]_connVars

-----------------------------------------------------------------------------

ConnTypeOK ==
    /\ running \in {"up", "exited", "undefined"}
    /\ link \in Link
    /\ fail \in Nat /\ breaks \in Nat
    /\ late \in BOOLEAN

\* The first context that a process gives up has left more than PingLimit of its
\* own pings unanswered: the count, which pongs of any context and the null
\* answers of a failed connection clear, and which outlives a reconnection, never
\* holds pings of an earlier connection against the present one.  (After the
\* first one it may: an older context fails without a ping waiting on it, the
\* pointer is cleared, and the next context starts with the count of the last.)
AnsweringIsKept ==
    [][~late => \A c \in Ctx :
         link'.ctx[c].closing /\ ~link.ctx[c].closing => link.ctx[c].pings > PingLimit]_connVars
=============================================================================
