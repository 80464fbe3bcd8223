--------------------------- MODULE AccessPolicyProofs ---------------------------
(***************************************************************************)
(* The connection to Redis: until a context is given up there is one, and  *)
(* only one whose own pings are missing is.  Groups, items and aliases:    *)
(* denials return, and settled maps are exact, however refills overlap and *)
(* connections are lost; the connection under the refills is RedisConn's.  *)
(***************************************************************************)
EXTENDS AccessPolicy, TLAPS, FiniteSetTheorems

-----------------------------------------------------------------------------
(* The connection.                                                         *)

\* The process has given no context up so far.
First == running = "up" /\ ~late

\* The present context is the only one.
OnlyOne(l) ==
    /\ l.context \in Ctx
    /\ \A c \in Ctx \ {l.context} : l.ctx[c] = NoContext
    /\ ~l.ctx[l.context].closing
    /\ l.ctx[l.context].phase \in {"connecting", "open"}
    /\ l.connected <=> l.ctx[l.context].phase = "open"

\* The count of missing pings is covered by pings that wait on it.
Covered(l, f) == f <= l.ctx[l.context].pings

ConnInv ==
    /\ ConnTypeOK
    /\ running = "undefined" => late
    /\ First => OnlyOne(link) /\ Covered(link, fail)

-----------------------------------------------------------------------------
(* What the functions on a link return.                                    *)

\* The link with which start() begins has its types and one context.
LEMMA InitLinkOne == InitLink \in Link /\ OnlyOne(InitLink) /\ Covered(InitLink, 0)
BY CtxAssumption
   DEF InitLink, Link, Context, NewContext, NoContext, OnlyOne, Covered, Null

\* redisAsyncDisconnect keeps the types and marks a context only.
LEMMA AsyncDisconnectEffect ==
    ASSUME NEW l \in Link
    PROVE  /\ redisAsyncDisconnect(l) \in Link
           /\ FreeCtx(redisAsyncDisconnect(l)) = FreeCtx(l)
<1>1. CASE l.context = Null
  BY <1>1 DEF redisAsyncDisconnect
<1>2. CASE l.context # Null
  <2> DEFINE d == [l EXCEPT !.ctx[l.context].closing = TRUE]
  <2>1. redisAsyncDisconnect(l) = d
    BY <1>2 DEF redisAsyncDisconnect
  <2>2. l.context \in Ctx
    BY <1>2 DEF Link
  <2>3. d \in Link
    BY <2>2 DEF Link, Context
  <2>4. \A c \in Ctx : d.ctx[c].phase = l.ctx[c].phase
    BY <2>2 DEF Link, Context
  <2> QED
    BY <2>1, <2>3, <2>4 DEF FreeCtx
<1> QED
  BY <1>1, <1>2

\* pubAttemptReconnect keeps the types where it finds a context to take.
LEMMA ReconnectType ==
    ASSUME NEW l \in Link, l.connected \/ FreeCtx(l) # {}
    PROVE  pubAttemptReconnect(l) \in Link
<1>1. CASE l.connected
  BY <1>1 DEF pubAttemptReconnect
<1>2. CASE ~l.connected
  <2> DEFINE d == redisAsyncDisconnect(l)
             c == CHOOSE c \in FreeCtx(d) : TRUE
  <2>1. d \in Link /\ FreeCtx(d) # {}
    BY <1>2, AsyncDisconnectEffect
  <2>2. c \in Ctx
    BY <2>1 DEF FreeCtx
  <2>3. pubAttemptReconnect(l) = [d EXCEPT !.context = c, !.ctx[c] = NewContext]
    BY <1>2 DEF pubAttemptReconnect
  <2>4. NewContext \in Context
    BY DEF NewContext, Context
  <2> HIDE DEF d, c
  <2>5. [d.ctx EXCEPT ![c] = NewContext] \in [Ctx -> Context]
    BY <2>1, <2>2, <2>4 DEF Link
  <2>6. [d EXCEPT !.context = c, !.ctx[c] = NewContext] \in Link
    BY <2>1, <2>2, <2>5 DEF Link
  <2> QED
    BY <2>3, <2>6
<1> QED
  BY <1>1, <1>2

\* Redis_Pub_Disconnect_Cb keeps the types.
LEMMA DisconnectCbType ==
    ASSUME NEW l \in Link, NEW c \in Ctx, NEW error \in BOOLEAN
    PROVE  Redis_Pub_Disconnect_Cb(l, c, error) \in Link
<1> DEFINE d == [l EXCEPT !.context = Null, !.connected = FALSE, !.ctx[c] = NoContext]
<1>1. d \in Link
  BY DEF Link, NoContext, Context
<1>2. d.ctx[c].phase = "none"
  BY DEF Link, NoContext
<1>3. FreeCtx(d) # {}
  BY <1>2 DEF FreeCtx
<1>4. pubAttemptReconnect(d) \in Link
  BY <1>1, <1>3, ReconnectType
<1> QED
  BY <1>1, <1>4 DEF Redis_Pub_Disconnect_Cb

\* Redis_Pub_Disconnect_Cb of the only context leaves another only one, with
\* nothing waiting on it.
LEMMA DisconnectCbOne ==
    ASSUME NEW l \in Link, OnlyOne(l)
    PROVE  LET r == Redis_Pub_Disconnect_Cb(l, l.context, TRUE)
           IN OnlyOne(r) /\ r.ctx[r.context].pings = 0
<1> DEFINE d == [l EXCEPT !.context = Null, !.connected = FALSE, !.ctx[l.context] = NoContext]
           c == CHOOSE c \in FreeCtx(d) : TRUE
           r == [d EXCEPT !.context = c, !.ctx[c] = NewContext]
<1>1. /\ d \in Link /\ d.context = Null /\ ~d.connected
      /\ \A k \in Ctx : d.ctx[k] = NoContext
      /\ l.context \in Ctx
  BY DEF OnlyOne, Link, NoContext, Context
<1>2. c \in Ctx
  BY <1>1 DEF FreeCtx, NoContext
<1>3. Redis_Pub_Disconnect_Cb(l, l.context, TRUE) = r
  BY <1>1 DEF Redis_Pub_Disconnect_Cb, pubAttemptReconnect, redisAsyncDisconnect
<1> HIDE DEF d, c
<1>4. /\ r.context = c /\ r.connected = d.connected /\ r.ctx[c] = NewContext
      /\ \A k \in Ctx \ {c} : r.ctx[k] = d.ctx[k]
  BY <1>1, <1>2 DEF Link
<1> HIDE DEF r
<1>5. /\ ~r.ctx[c].closing /\ r.ctx[c].phase = "connecting" /\ r.ctx[c].pings = 0
  BY <1>4 DEF NewContext
<1>6. OnlyOne(r)
  BY <1>1, <1>2, <1>4, <1>5 DEF OnlyOne
<1> QED
  BY <1>3, <1>4, <1>5, <1>6

-----------------------------------------------------------------------------

\* The invariant holds at first.
LEMMA ConnInvInit == ConnInit => ConnInv
<1> SUFFICES ASSUME ConnInit PROVE ConnInv
  OBVIOUS
<1>1. ConnTypeOK
  BY InitLinkOne DEF ConnInit, ConnTypeOK
<1>2. OnlyOne(link) /\ Covered(link, fail)
  BY InitLinkOne DEF ConnInit
<1> QED
  BY <1>1, <1>2 DEF ConnInit, ConnInv

\* A step keeps the types.
LEMMA TypeStep == ConnTypeOK /\ [ConnNext]_connVars => ConnTypeOK'
<1> SUFFICES ASSUME ConnTypeOK, [ConnNext]_connVars PROVE ConnTypeOK'
  OBVIOUS
<1> USE DEF ConnTypeOK
<1>1. CASE check_redis_connection
  <2> DEFINE l == IF Unanswered THEN pubAttemptReconnect([link EXCEPT !.connected = FALSE])
                  ELSE link
  <2>1. [link EXCEPT !.connected = FALSE] \in Link
    BY DEF Link
  <2>2. FreeCtx([link EXCEPT !.connected = FALSE]) = FreeCtx(link)
    BY DEF FreeCtx, Link
  <2>3. Unanswered => FreeCtx(link) # {}
    BY <1>1 DEF check_redis_connection
  <2>4. l \in Link
    BY <2>1, <2>2, <2>3, ReconnectType
  <2>5. link' = link \/ link' = [l EXCEPT !.ctx[l.context].pings = @ + 1]
    BY <1>1 DEF check_redis_connection
  <2>6. fail' \in Nat /\ breaks' \in Nat /\ running' \in {"up", "undefined"}
    BY <1>1 DEF check_redis_connection, NextFail, Use
  <2>8. late' = late \/ late' = (late \/ Unanswered)
    BY <1>1 DEF check_redis_connection
  <2>9. late' \in BOOLEAN
    BY <2>8
  <2> HIDE DEF l
  <2>7. [l EXCEPT !.ctx[l.context].pings = @ + 1] \in Link
    <3> DEFINE ping == [l.ctx EXCEPT ![l.context].pings = @ + 1]
    <3>1. l.ctx \in [Ctx -> Context]
      BY <2>4 DEF Link
    <3>2. \A c \in Ctx : [l.ctx[c] EXCEPT !.pings = @ + 1] \in Context
      BY <3>1 DEF Context
    <3>3. ping \in [Ctx -> Context]
      BY <3>1, <3>2
    <3> HIDE DEF ping
    <3>4. [l EXCEPT !.ctx = ping] \in Link
      BY <2>4, <3>3 DEF Link
    <3> QED
      BY <3>4 DEF ping
  <2> QED
    BY <2>5, <2>6, <2>7, <2>9
<1>2. CASE RestartConn
  BY <1>2, InitLinkOne DEF RestartConn
<1>3. ASSUME NEW c \in Ctx, Redis_Pub_Connect_Cb(c) PROVE ConnTypeOK'
  <2>1. [link EXCEPT !.connected = TRUE, !.ctx[c].phase = "open"] \in Link
    <3> DEFINE open == [link.ctx EXCEPT ![c].phase = "open"]
    <3>1. link.ctx[c] \in Context /\ link.ctx \in [Ctx -> Context]
      BY DEF Link
    <3>2. [link.ctx[c] EXCEPT !.phase = "open"] \in Context
      BY <3>1 DEF Context
    <3>3. open \in [Ctx -> Context]
      BY <3>1, <3>2
    <3> HIDE DEF open
    <3>4. [link EXCEPT !.connected = TRUE, !.ctx = open] \in Link
      BY <3>3 DEF Link
    <3> QED
      BY <3>4 DEF open
  <2>2. [link EXCEPT !.connected = TRUE, !.ctx[c].phase = "open"].connected
    BY DEF Link
  <2>3. link' \in Link
    BY <1>3, <2>1, <2>2, ReconnectType DEF Redis_Pub_Connect_Cb
  <2> QED
    BY <1>3, <2>3 DEF Redis_Pub_Connect_Cb, Use
<1>4. ASSUME NEW c \in Ctx, ConnectFailed(c) PROVE ConnTypeOK'
  BY <1>4 DEF ConnectFailed
<1>5. ASSUME NEW c \in Ctx, Redis_Pub_Ping_Callback(c) PROVE ConnTypeOK'
  <2>1. [link EXCEPT !.ctx[c].pings = @ - 1] \in Link
    BY <1>5 DEF Redis_Pub_Ping_Callback, Link, Context
  <2> QED
    BY <1>5, <2>1 DEF Redis_Pub_Ping_Callback
<1>6. ASSUME NEW c \in Ctx, Break(c) PROVE ConnTypeOK'
  <2>1. link' \in Link
    BY <1>6, DisconnectCbType DEF Break
  <2>2. fail' = 0 \/ fail' = fail
    BY <1>6 DEF Break
  <2>3. running' = running /\ breaks' = breaks + 1 /\ late' = late
    BY <1>6 DEF Break
  <2> QED
    BY <2>1, <2>2, <2>3
<1>7. CASE UNCHANGED connVars
  BY <1>7 DEF connVars
<1>8. ASSUME NEW c \in Ctx, Drain(c) PROVE ConnTypeOK'
  BY <1>8, DisconnectCbType DEF Drain
<1>9. CASE UseContext
  BY <1>9 DEF UseContext, Use
<1> QED
  BY <1>1, <1>2, <1>3, <1>4, <1>5, <1>6, <1>7, <1>8, <1>9 DEF ConnNext

\* A step that is not a restart and leaves the process without a context given up
\* found it so.
LEMMA StillFirst ==
    ASSUME [ConnNext]_connVars, ~RestartConn, First'
    PROVE  First
<1>1. CASE check_redis_connection
  BY <1>1 DEF check_redis_connection, First
<1>2. CASE UseContext
  BY <1>2 DEF UseContext, First
<1>3. ASSUME NEW c \in Ctx, \/ Redis_Pub_Connect_Cb(c) \/ ConnectFailed(c)
                            \/ Redis_Pub_Ping_Callback(c) \/ Drain(c) \/ Break(c)
      PROVE  First
  <2>1. running = "up" /\ late' = late
    BY <1>3 DEF Redis_Pub_Connect_Cb, ConnectFailed, Redis_Pub_Ping_Callback, Drain, Break
  <2> QED
    BY <2>1 DEF First
<1>4. CASE UNCHANGED connVars
  BY <1>4 DEF connVars, First
<1> QED
  BY <1>1, <1>2, <1>3, <1>4 DEF ConnNext

\* As long as no context is given up, a step keeps one and its count, and a use of
\* the null context needs one given up.
LEMMA ConnInvStep == ConnInv /\ [ConnNext]_connVars => ConnInv'
<1> DEFINE Goal == /\ running' = "undefined" => late'
                   /\ First' => OnlyOne(link') /\ Covered(link', fail')
<1> SUFFICES ASSUME ConnInv, [ConnNext]_connVars PROVE Goal
  BY TypeStep DEF ConnInv, OnlyOne, Covered
<1> USE DEF ConnInv, ConnTypeOK
<1>a. PingLimit \in Nat
  BY BoundsAssumption
<1>b. Null \notin Ctx
  BY CtxAssumption DEF Null
<1>c. First => link.context \in Ctx /\ link.context # Null /\ link.ctx[link.context] \in Context
  BY <1>b DEF OnlyOne, Link
<1>1. CASE check_redis_connection
  <2> DEFINE x == link.context
  <2>0. CASE late \/ Unanswered
    <3>1. running = "up"
      BY <1>1 DEF check_redis_connection
    <3>2. late'
      BY <1>1, <1>c, <2>0, <3>1 DEF check_redis_connection, First
    <3> QED
      BY <3>2 DEF First
  <2>x. CASE ~late /\ ~Unanswered
    <3>1. /\ running = "up" /\ OnlyOne(link) /\ Covered(link, fail)
          /\ x \in Ctx /\ x # Null /\ link.ctx[x] \in Context
      BY <1>1, <1>c, <2>x DEF check_redis_connection, First
    <3>2. ~(fail > PingLimit)
      BY <2>x DEF Unanswered
    <3>3. /\ running' = "up" /\ fail' = fail + 1
          /\ link' = [link EXCEPT !.ctx[x].pings = @ + 1]
      BY <1>1, <2>x, <3>1, <3>2 DEF check_redis_connection, Use, NextFail
    <3>4. /\ link'.context = x /\ link'.connected = link.connected
          /\ link'.ctx[x] = [link.ctx[x] EXCEPT !.pings = @ + 1]
          /\ \A k \in Ctx \ {x} : link'.ctx[k] = link.ctx[k]
      BY <3>1, <3>3 DEF Link
    <3>5. /\ link'.ctx[x].pings = link.ctx[x].pings + 1
          /\ link'.ctx[x].phase = link.ctx[x].phase
          /\ link'.ctx[x].closing = link.ctx[x].closing
      BY <3>1, <3>4 DEF Context
    <3>6. OnlyOne(link')
      BY <3>1, <3>4, <3>5 DEF OnlyOne
    <3>7. Covered(link', fail')
      BY <3>1, <3>3, <3>4, <3>5 DEF Covered, Context
    <3> QED
      BY <3>3, <3>6, <3>7
  <2> QED
    BY <2>0, <2>x
<1>2. CASE RestartConn
  BY <1>2, InitLinkOne DEF RestartConn
<1>3. ASSUME NEW c \in Ctx, Redis_Pub_Connect_Cb(c) PROVE Goal
  <2> DEFINE o == [link EXCEPT !.connected = TRUE, !.ctx[c].phase = "open"]
  <2>0. CASE late
    BY <1>3, <2>0 DEF Redis_Pub_Connect_Cb, First
  <2>x. CASE ~late
    <3>1. running = "up" /\ OnlyOne(link) /\ Covered(link, fail) /\ link.ctx[c].phase # "none"
      BY <1>3, <2>x DEF Redis_Pub_Connect_Cb, First
    <3>2. c = link.context
      BY <3>1 DEF OnlyOne, NoContext
    <3>3. o.connected /\ o.context = c
      BY <3>2 DEF Link
    <3>4. link' = o /\ fail' = fail
      BY <1>3, <3>3 DEF Redis_Pub_Connect_Cb, pubAttemptReconnect
    <3>5. running' = "up"
      BY <1>3, <1>b, <3>3, <3>4 DEF Redis_Pub_Connect_Cb, Use
    <3>6. /\ o.ctx[c] = [link.ctx[c] EXCEPT !.phase = "open"]
          /\ \A k \in Ctx \ {c} : o.ctx[k] = link.ctx[k]
      BY DEF Link
    <3>7. /\ o.ctx[c].phase = "open" /\ o.ctx[c].closing = link.ctx[c].closing
          /\ o.ctx[c].pings = link.ctx[c].pings
      BY <3>6 DEF Link, Context
    <3> HIDE DEF o
    <3>8. OnlyOne(o)
      BY <3>1, <3>2, <3>3, <3>6, <3>7 DEF OnlyOne
    <3>9. Covered(o, fail)
      BY <3>1, <3>2, <3>3, <3>7 DEF Covered
    <3> QED
      BY <3>4, <3>5, <3>8, <3>9
  <2> QED
    BY <2>0, <2>x
<1>4. ASSUME NEW c \in Ctx, ConnectFailed(c) PROVE Goal
  BY <1>4 DEF ConnectFailed, First
<1>5. ASSUME NEW c \in Ctx, Redis_Pub_Ping_Callback(c) PROVE Goal
  <2> DEFINE answered == [link EXCEPT !.ctx[c].pings = @ - 1]
  <2>0. CASE late
    BY <1>5, <2>0 DEF Redis_Pub_Ping_Callback, First
  <2>x. CASE ~late
    <3>1. running = "up" /\ OnlyOne(link) /\ Covered(link, fail) /\ link.ctx[c].phase = "open"
      BY <1>5, <2>x DEF Redis_Pub_Ping_Callback, First
    <3>2. c = link.context
      BY <3>1 DEF OnlyOne, NoContext
    <3>3. /\ answered.ctx[c] = [link.ctx[c] EXCEPT !.pings = @ - 1]
          /\ \A k \in Ctx \ {c} : answered.ctx[k] = link.ctx[k]
          /\ answered.context = c /\ answered.connected = link.connected
      BY <3>2 DEF Link
    <3>4. /\ answered.ctx[c].phase = link.ctx[c].phase
          /\ answered.ctx[c].closing = link.ctx[c].closing
          /\ answered.ctx[c].pings = link.ctx[c].pings - 1
      BY <3>3 DEF Link, Context
    <3>5. link' = answered /\ fail' = 0 /\ running' = "up"
      BY <1>5 DEF Redis_Pub_Ping_Callback
    <3>6. link.ctx[c].pings \in Nat /\ link.ctx[c].pings > 0
      BY <1>5 DEF Redis_Pub_Ping_Callback, Link, Context
    <3> HIDE DEF answered
    <3>7. OnlyOne(answered)
      BY <3>1, <3>2, <3>3, <3>4 DEF OnlyOne
    <3>8. Covered(answered, 0)
      <4>1. answered.ctx[answered.context].pings = link.ctx[c].pings - 1
        BY <3>3, <3>4
      <4> QED
        BY <3>6, <4>1 DEF Covered
    <3> QED
      BY <3>5, <3>7, <3>8
  <2> QED
    BY <2>0, <2>x
<1>6. ASSUME NEW c \in Ctx, Break(c) PROVE Goal
  <2>0. CASE late
    BY <1>6, <2>0 DEF Break, First
  <2>x. CASE ~late
    <3>1. /\ running = "up" /\ OnlyOne(link) /\ Covered(link, fail) /\ link.ctx[c].phase = "open"
          /\ link.ctx[c].pings \in Nat
      BY <1>6, <2>x DEF Break, Link, Context, First
    <3>2. c = link.context
      BY <3>1 DEF OnlyOne, NoContext
    <3>3. OnlyOne(link') /\ link'.ctx[link'.context].pings = 0
      BY <1>6, <3>1, <3>2, DisconnectCbOne DEF Break
    <3>4. fail' = 0
      BY <1>6, <3>1, <3>2 DEF Break, Covered
    <3>5. running' = "up"
      BY <1>6 DEF Break
    <3> QED
      BY <3>3, <3>4, <3>5 DEF Covered
  <2> QED
    BY <2>0, <2>x
<1>7. CASE UNCHANGED connVars
  BY <1>7 DEF connVars, First
<1>8. ASSUME NEW c \in Ctx, Drain(c) PROVE Goal
  <2>1. /\ running = "up" /\ running' = "up" /\ late' = late
        /\ link.ctx[c].phase = "open" /\ link.ctx[c].closing
    BY <1>8 DEF Drain
  <2>2. OnlyOne(link) => link.ctx[c].phase = "none" \/ ~link.ctx[c].closing
    BY DEF OnlyOne, NoContext
  <2>3. ~First
    BY <2>1, <2>2
  <2> QED
    BY <2>1, <2>3 DEF First
<1>9. CASE UseContext
  BY <1>9, <1>c DEF UseContext, Use, First
<1> QED
  BY <1>1, <1>2, <1>3, <1>4, <1>5, <1>6, <1>7, <1>8, <1>9 DEF ConnNext

\* Only a context that leaves more than PingLimit of its own pings unanswered is
\* the first to be given up.
LEMMA GivenUp ==
    ASSUME ConnInv, [ConnNext]_connVars, ~late,
           NEW c \in Ctx, link'.ctx[c].closing, ~link.ctx[c].closing
    PROVE  link.ctx[c].pings > PingLimit
<1> USE DEF ConnInv, ConnTypeOK
<1>1. CASE check_redis_connection
  <2> DEFINE x == link.context
             d == redisAsyncDisconnect([link EXCEPT !.connected = FALSE])
             n == CHOOSE n \in FreeCtx(d) : TRUE
             r == [d EXCEPT !.context = n, !.ctx[n] = NewContext]
  <2>1. /\ running = "up" /\ OnlyOne(link) /\ Covered(link, fail)
        /\ x \in Ctx /\ x # Null
    BY <1>1, CtxAssumption DEF check_redis_connection, First, OnlyOne, Null
  <2>2. CASE ~Unanswered
    <3>1. link' = [link EXCEPT !.ctx[x].pings = @ + 1]
      BY <1>1, <2>1, <2>2 DEF check_redis_connection
    <3>2. link'.ctx[c].closing = link.ctx[c].closing
      BY <2>1, <3>1 DEF Link, Context
    <3> QED
      BY <3>2
  <2>3. CASE Unanswered
    <3>1. fail > PingLimit
      BY <2>3 DEF Unanswered
    <3>2. link.ctx[x].pings > PingLimit
      <4>1. link.ctx[x].pings \in Nat /\ PingLimit \in Nat
        BY <2>1, BoundsAssumption DEF Link, Context
      <4> QED
        BY <2>1, <3>1, <4>1 DEF Covered
    <3>3. pubAttemptReconnect([link EXCEPT !.connected = FALSE]) = r
      BY DEF pubAttemptReconnect, Link
    <3>4. link' = [r EXCEPT !.ctx[r.context].pings = @ + 1]
      BY <1>1, <2>1, <2>3, <3>3 DEF check_redis_connection
    <3>5. /\ d \in Link /\ FreeCtx(d) # {}
          /\ \A k \in Ctx \ {x} : d.ctx[k] = link.ctx[k]
      <4>1. [link EXCEPT !.connected = FALSE] \in Link
        BY DEF Link
      <4>2. FreeCtx([link EXCEPT !.connected = FALSE]) # {}
        BY <1>1, <2>3 DEF check_redis_connection, FreeCtx, Link
      <4>3. d \in Link /\ FreeCtx(d) # {}
        BY <4>1, <4>2, AsyncDisconnectEffect
      <4>4. \A k \in Ctx \ {x} : d.ctx[k] = link.ctx[k]
        BY <2>1 DEF redisAsyncDisconnect, Link
      <4> QED
        BY <4>3, <4>4
    <3>6. n \in Ctx
      BY <3>5 DEF FreeCtx
    <3> HIDE DEF d, n
    <3>7. /\ r.context = n /\ r.ctx[n] = NewContext
          /\ \A k \in Ctx \ {n} : r.ctx[k] = d.ctx[k]
          /\ r.ctx \in [Ctx -> Context]
      BY <3>5, <3>6 DEF Link, NewContext, Context
    <3>8. r \in Link
      BY <3>5, <3>6, <3>7 DEF Link
    <3> HIDE DEF r
    <3>9. link'.ctx[c].closing = r.ctx[c].closing
      <4>1. r.ctx[n] \in Context /\ r.ctx[c] \in Context
        BY <3>6, <3>7
      <4>2. link'.ctx = [r.ctx EXCEPT ![n].pings = @ + 1]
        BY <3>4, <3>7, <3>8 DEF Link
      <4>3. link'.ctx[c] = IF c = n THEN [r.ctx[n] EXCEPT !.pings = @ + 1] ELSE r.ctx[c]
        BY <3>6, <3>7, <4>2
      <4> QED
        BY <4>1, <4>3 DEF Context
    <3>10. c = x
      BY <3>5, <3>7, <3>9 DEF NewContext
    <3> QED
      BY <3>2, <3>10
  <2> QED
    BY <2>2, <2>3
<1>2. CASE RestartConn
  BY <1>2 DEF RestartConn, InitLink, NewContext, NoContext
<1>3. CASE \E k \in Ctx : Redis_Pub_Connect_Cb(k)
  <2>1. PICK k \in Ctx : Redis_Pub_Connect_Cb(k)
    BY <1>3
  <2> DEFINE o == [link EXCEPT !.connected = TRUE, !.ctx[k].phase = "open"]
  <2>2. o.connected
    BY DEF Link
  <2>3. link' = o
    BY <2>1, <2>2 DEF Redis_Pub_Connect_Cb, pubAttemptReconnect
  <2>4. o.ctx[c].closing = link.ctx[c].closing
    BY DEF Link, Context
  <2> QED
    BY <2>3, <2>4
<1>4. CASE \E k \in Ctx : ConnectFailed(k)
  BY <1>4 DEF ConnectFailed
<1>5. CASE \E k \in Ctx : Redis_Pub_Ping_Callback(k)
  <2>1. PICK k \in Ctx : link' = [link EXCEPT !.ctx[k].pings = @ - 1]
    BY <1>5 DEF Redis_Pub_Ping_Callback
  <2>2. link'.ctx[c].closing = link.ctx[c].closing
    BY <2>1 DEF Link, Context
  <2> QED
    BY <2>2
<1>6. CASE \E k \in Ctx : Break(k)
  <2>1. PICK k \in Ctx : Break(k)
    BY <1>6
  <2>2. First /\ OnlyOne(link) /\ link.ctx[k].phase = "open"
    BY <2>1 DEF Break, First
  <2>3. k = link.context
    BY <2>2 DEF OnlyOne, NoContext
  <2>4. OnlyOne(link')
    BY <2>1, <2>2, <2>3, DisconnectCbOne DEF Break
  <2> QED
    BY <2>4 DEF OnlyOne, NoContext
<1>7. CASE UNCHANGED connVars
  BY <1>7 DEF connVars
<1>8. CASE \E k \in Ctx : Drain(k)
  BY <1>8 DEF Drain, First, OnlyOne, NoContext
<1>9. CASE UseContext
  BY <1>9 DEF UseContext
<1> QED
  BY <1>1, <1>2, <1>3, <1>4, <1>5, <1>6, <1>7, <1>8, <1>9 DEF ConnNext

-----------------------------------------------------------------------------

\* The state of the connection keeps its types, whatever is given up.
THEOREM ConnTypeCorrect == ConnSpec => []ConnTypeOK
<1>1. ConnInit => ConnTypeOK
  BY ConnInvInit DEF ConnInv
<1> QED
  BY <1>1, TypeStep, PTL DEF ConnSpec

\* The invariant of the following theorems.
LEMMA ConnInvAlways == ConnSpec => []ConnInv
  BY ConnInvInit, ConnInvStep, PTL DEF ConnSpec

\* The first context that a process gives up has left more than PingLimit of its
\* own pings unanswered: lost connections and reconnections before it leave no
\* count behind, and no callback meets a null context before.
THEOREM AnsweringIsKeptAlways == ConnSpec => AnsweringIsKept
<1> DEFINE A == ~late => \A c \in Ctx :
         link'.ctx[c].closing /\ ~link.ctx[c].closing => link.ctx[c].pings > PingLimit
<1>1. ConnInv /\ [ConnNext]_connVars => [A]_connVars
  BY GivenUp
<1>2. ConnSpec => [][A]_connVars
  BY <1>1, ConnInvAlways, PTL DEF ConnSpec
<1> QED
  BY <1>2 DEF AnsweringIsKept

-----------------------------------------------------------------------------
(* The rules.                                                              *)

\* Commands, and answers that carry what their callbacks expect.
GroupsType == [Group -> PolicyType \cup {None}]
ItemsType == [Mount -> Item \cup {None}]
Command == [op : {"alias", "group", "ping"}, group : {None}] \cup [op : {"item"}, group : Group]
Content == GroupsType \cup ItemsType \cup Aliases \cup {None}
Answer ==
    {a \in [cmd : Command, value : Content] :
        /\ a.cmd.op = "alias" => a.value \in Aliases
        /\ a.cmd.op = "group" => a.value \in GroupsType
        /\ a.cmd.op = "item" => a.value \in ItemsType}

StoreInv ==
    /\ groups \in GroupsType /\ items \in [Group -> ItemsType] /\ aliases \in Aliases
    /\ api \in Builtin \cup {"ready", "ACCESS", "ALIAS"}
    /\ api # "default" => groups["default"] # None
MapsType == [groups : GroupsType, items : [Group -> ItemsType \cup {None}],
             aliases : Aliases \cup {None}]
MapsInv == maps \in MapsType
PipeInv ==
    /\ cmds \in [Ctx -> Seq(Command)] /\ answers \in [Ctx -> Seq(Answer)]
    /\ notes \in Seq({"ACCESS", "ALIAS"}) /\ dirty \subseteq {"ACCESS", "ALIAS"}
    /\ loaded \in BOOLEAN

\* Once there are groups in what arrives, there are groups in what comes later.
Full(gs) == \E g \in Group : gs[g] # None
FullFrom(q) ==
    \A i, j \in 1 .. Len(q) :
        /\ i < j /\ q[i].cmd.op = "group" /\ Full(q[i].value) /\ q[j].cmd.op = "group"
        => Full(q[j].value)
OrderInv == First =>
    /\ \A c \in Ctx \ {link.context} : cmds[c] = <<>> /\ answers[c] = <<>>
    /\ FullFrom(answers[link.context])
    /\ \A i \in 1 .. Len(answers[link.context]) :
         answers[link.context][i].cmd.op = "group" =>
           /\ Full(answers[link.context][i].value) => Full(groups)
           /\ loaded => Full(answers[link.context][i].value)
    /\ loaded => Full(groups) /\ Full(maps.groups)

\* Answers of some kinds only as the store would give them now.
TrueAnswers(ops) ==
    {a \in [cmd : Command, value : Content] : a.cmd.op \in ops => a.value = Value(a.cmd)}
AccessAnswers == TrueAnswers({"group", "item"})
AliasAnswers == TrueAnswers({"alias"})

\* A command of some kind is under way; or its answer, true like all that follow.
Asked(k, op) == \E i \in 1 .. Len(k) : k[i].op = op
TrueAfter(q, i, T) == \A j \in 1 .. Len(q) : j > i => q[j] \in T
Told(q, op, T) == \E i \in 1 .. Len(q) : q[i].cmd.op = op /\ TrueAfter(q, i - 1, T)
\* The items of a group are still to come.
ToCome(k, q, g) ==
    \/ \E i \in 1 .. Len(k) : k[i] = Ask("item", g)
    \/ \E i \in 1 .. Len(q) : q[i].cmd = Ask("item", g)

\* Unless something was edited since the node last asked, its maps are those of the
\* store, or will be by what is under way.
Known(topic) == First /\ link.connected /\ topic \notin dirty
AccessFresh(k, q) ==
    \/ Asked(k, "group") \/ Told(q, "group", AccessAnswers)
    \/ /\ TrueAfter(q, 0, AccessAnswers) /\ maps.groups = groups
       /\ \A g \in Group : groups[g] # None => maps.items[g] = items[g] \/ ToCome(k, q, g)
AliasFresh(k, q) ==
    \/ Asked(k, "alias") \/ Told(q, "alias", AliasAnswers)
    \/ TrueAfter(q, 0, AliasAnswers) /\ maps.aliases = aliases
FreshInv ==
    /\ Known("ACCESS") => AccessFresh(cmds[link.context], answers[link.context])
    /\ Known("ALIAS") => AliasFresh(cmds[link.context], answers[link.context])

AccInv == ConnInv /\ StoreInv /\ MapsInv /\ PipeInv /\ OrderInv /\ FreshInv

-----------------------------------------------------------------------------
(* The operators of the model.                                             *)

\* The commands for the items of groups that are there; none only if none is.
LEMMA AskItemsEffect ==
    ASSUME NEW old, NEW new \in GroupsType
    PROVE  /\ AskItems(old, new) \in Seq(Command)
           /\ AskItems(old, new) # <<>> <=> Full(new)
           /\ \A g \in Group : new[g] # None =>
                \E i \in 1 .. Len(AskItems(old, new)) : AskItems(old, new)[i] = Ask("item", g)
<1> DEFINE gs == {g \in Group : new[g] # None}
           n == Cardinality(gs)
           f == SetToSeq(gs)
<1>1. IsFiniteSet(gs)
  BY PolicyAssumption, FS_Subset
<1>2. n \in Nat /\ (n = 0 <=> gs = {})
  BY <1>1, FS_CardinalityType, FS_EmptySet
<1>3. \E h \in [1..n -> gs] : IsInjective(h)
  <2>1. ExistsBijection(1..n, gs)
    BY <1>1, FS_CardinalityType
  <2> QED
    BY <2>1 DEF ExistsBijection, Bijection, Injection, IsInjective
<1>4. f \in [1..n -> gs] /\ IsInjective(f)
  BY <1>3 DEF SetToSeq
<1>s. \A g \in gs : \E i \in 1..n : f[i] = g
  <2> HIDE DEF f
  <2>1. f \in Injection(1..n, gs)
    BY <1>4 DEF Injection
  <2>2. Cardinality(1..n) = n
    BY <1>2, FS_Interval
  <2> HIDE DEF gs
  <2>3. f \in Surjection(1..n, gs)
    BY <1>1, <2>1, <2>2, FS_Injection DEF n
  <2> QED
    BY <2>3 DEF Surjection
<1>5. AskItems(old, new) = [i \in 1..n |-> Ask("item", f[i])]
  BY DEF AskItems
<1> HIDE DEF f, n
<1>6. \A i \in 1..n : Ask("item", f[i]) \in Command
  BY <1>4 DEF Ask, Command
<1>7. AskItems(old, new) \in Seq(Command) /\ Len(AskItems(old, new)) = n
  BY <1>2, <1>5, <1>6
<1>8. AskItems(old, new) # <<>> <=> n # 0
  BY <1>2, <1>7
<1>9. \A g \in gs : \E i \in 1 .. Len(AskItems(old, new)) : AskItems(old, new)[i] = Ask("item", g)
  <2> SUFFICES ASSUME NEW g \in gs
               PROVE  \E i \in 1 .. n : AskItems(old, new)[i] = Ask("item", g)
    BY <1>7
  <2>1. PICK i \in 1..n : f[i] = g
    BY <1>s
  <2>2. AskItems(old, new)[i] = Ask("item", f[i])
    BY <1>5
  <2> QED
    BY <2>1, <2>2
<1> QED
  BY <1>2, <1>7, <1>8, <1>9 DEF Full
-----------------------------------------------------------------------------
(* Steps.                                                                  *)

\* As long as no context is given up, the steps of the connection that do not end it
\* keep the present context.
LEMMA SameContext ==
    ASSUME ConnInv, First', check_redis_connection \/ UseContext
                             \/ \E c \in Ctx : Redis_Pub_Connect_Cb(c) \/ Redis_Pub_Ping_Callback(c)
    PROVE  /\ First /\ link'.context = link.context
           /\ link.context \in Ctx /\ link.context # Null
           /\ (\E c \in Ctx : Redis_Pub_Ping_Callback(c)) => link'.connected = link.connected
<1> USE DEF ConnInv, ConnTypeOK
<1>a. Null \notin Ctx
  BY CtxAssumption DEF Null
<1>b. First
  <2>1. CASE check_redis_connection
    BY <2>1 DEF check_redis_connection, First
  <2>2. CASE UseContext
    BY <2>2 DEF UseContext, First
  <2>3. CASE \E c \in Ctx : Redis_Pub_Connect_Cb(c)
    <3>1. running = "up" /\ late' = late
      BY <2>3 DEF Redis_Pub_Connect_Cb
    <3> QED
      BY <3>1 DEF First
  <2>4. CASE \E c \in Ctx : Redis_Pub_Ping_Callback(c)
    BY <2>4 DEF Redis_Pub_Ping_Callback, First
  <2> QED
    BY <2>1, <2>2, <2>3, <2>4
<1>1. OnlyOne(link) /\ link.context \in Ctx /\ link.context # Null
  BY <1>a, <1>b DEF OnlyOne
<1>2. ASSUME check_redis_connection PROVE link'.context = link.context
  <2>1. ~Unanswered
    BY <1>1, <1>2 DEF check_redis_connection, First
  <2>2. link' = [link EXCEPT !.ctx[link.context].pings = @ + 1]
    BY <1>1, <1>2, <2>1 DEF check_redis_connection
  <2> QED
    BY <1>1, <1>b, <2>2 DEF Link
<1>3. ASSUME NEW c \in Ctx, Redis_Pub_Connect_Cb(c) PROVE link'.context = link.context
  BY <1>3 DEF Redis_Pub_Connect_Cb, pubAttemptReconnect, Link
<1>4. ASSUME NEW c \in Ctx, Redis_Pub_Ping_Callback(c)
      PROVE  link'.context = link.context /\ link'.connected = link.connected
  BY <1>4 DEF Redis_Pub_Ping_Callback, Link
<1>5. ASSUME UseContext PROVE link'.context = link.context
  BY <1>5 DEF UseContext
<1>6. link'.context = link.context
  BY <1>2, <1>3, <1>4, <1>5
<1>7. ASSUME NEW c \in Ctx, Redis_Pub_Ping_Callback(c) PROVE link'.connected = link.connected
  BY <1>4, <1>7
<1> QED
  BY <1>1, <1>b, <1>6, <1>7

\* A connection that fails is not connected after it.
LEMMA BreakDisconnects ==
    ASSUME ConnInv, First, NEW c \in Ctx, Break(c)
    PROVE  c = link.context /\ ~link'.connected
<1> DEFINE d == [link EXCEPT !.context = Null, !.connected = FALSE, !.ctx[c] = NoContext]
           k == CHOOSE k \in FreeCtx(d) : TRUE
<1>1. c = link.context /\ link \in Link
  BY DEF Break, ConnInv, ConnTypeOK, OnlyOne, NoContext
<1>2. d.context = Null /\ d.connected = FALSE
  BY <1>1 DEF Link
<1>3. link' = [d EXCEPT !.context = k, !.ctx[k] = NewContext]
  BY <1>2 DEF Break, Redis_Pub_Disconnect_Cb, pubAttemptReconnect, redisAsyncDisconnect
<1>4. d \in Link
  BY <1>1 DEF Link, NoContext, Context
<1> HIDE DEF d, k
<1> QED
  BY <1>1, <1>2, <1>3, <1>4 DEF Link

\* Every step is one of the connection, or leaves the connection alone.
LEMMA ConnKept ==
    ASSUME [Next]_vars
    PROVE  [ConnNext]_connVars
<1>2. CASE TimeoutCallback
  BY <1>2 DEF TimeoutCallback, ConnNext
<1>3. CASE Restart
  BY <1>3 DEF Restart, ConnNext
<1>4. CASE Redis_ConfChange_Callback
  BY <1>4 DEF Redis_ConfChange_Callback, ConnNext
<1>5. CASE Publish
  BY <1>5 DEF Publish
<1>6. CASE Requests
  BY <1>6 DEF Requests, Write, handle_create_access_group, handle_update_access_group,
       handle_delete_access_group, handle_create_access_item, handle_update_access_item,
       handle_delete_access_item, EditAliases
<1>7. CASE \E g \in Builtin : EnsureBuiltin(g)
  BY <1>7 DEF EnsureBuiltin
<1>8. ASSUME NEW c \in Ctx, Connected(c) \/ Lose(c) \/ Refused(c) \/ Pong(c) \/ Drained(c)
      PROVE  ConnNext
  BY <1>8 DEF Connected, Lose, Refused, Pong, Drained, ConnNext
<1>9. ASSUME NEW c \in Ctx, \/ Execute(c)
                            \/ Redis_Update_Alias_Rule_Callback(c)
                            \/ Redis_Update_Access_Item_Callback(c)
      PROVE  UNCHANGED connVars
  BY <1>9 DEF Execute, Redis_Update_Alias_Rule_Callback, Redis_Update_Access_Item_Callback
<1>10. ASSUME NEW c \in Ctx, Redis_Update_Access_Group_Callback(c) PROVE [ConnNext]_connVars
  <2>1. UseContext \/ UNCHANGED connVars
    BY <1>10 DEF Redis_Update_Access_Group_Callback
  <2> QED
    BY <2>1 DEF ConnNext
<1>11. CASE UNCHANGED vars
  BY <1>11 DEF vars
<1> QED
  BY <1>2, <1>3, <1>4, <1>5, <1>6, <1>7, <1>8, <1>9, <1>10, <1>11 DEF Next, Callbacks

\* A request writes contents that have their types, and keeps the group "default".
LEMMA RequestEffect ==
    ASSUME StoreInv, Requests
    PROVE  \E gs \in GroupsType,
              is \in [Group -> ItemsType],
              as \in Aliases, topic \in {"ACCESS", "ALIAS"} :
             /\ gs["default"] # None /\ Write(gs, is, as, topic)
             /\ topic = "ACCESS" => as = aliases
             /\ topic = "ALIAS" => gs = groups /\ is = items
<1> DEFINE GT == GroupsType
           IT == [Group -> ItemsType]
           Goal == \E gs \in GT, is \in IT, as \in Aliases, topic \in {"ACCESS", "ALIAS"} :
                     /\ gs["default"] # None /\ Write(gs, is, as, topic)
                     /\ topic = "ACCESS" => as = aliases
                     /\ topic = "ALIAS" => gs = groups /\ is = items
<1>0. /\ groups \in GT /\ items \in IT /\ aliases \in Aliases
      /\ "default" \in Group /\ None \notin PolicyType
  BY PolicyAssumption DEF StoreInv, Builtin
<1>1. ASSUME NEW gs \in GT, NEW is \in IT, NEW as \in Aliases, NEW topic \in {"ACCESS", "ALIAS"},
             groups["default"] # None => gs["default"] # None, Write(gs, is, as, topic),
             topic = "ACCESS" => as = aliases, topic = "ALIAS" => gs = groups /\ is = items
      PROVE  Goal
  <2>1. groups["default"] # None
    BY <1>1 DEF StoreInv, Write
  <2> QED
    BY <1>1, <2>1
<1> HIDE DEF Goal
<1>2. ASSUME NEW g \in Edited, NEW p \in Policy,
             handle_create_access_group(g, p) \/ handle_update_access_group(g, p)
      PROVE  Goal
  <2>1. [groups EXCEPT ![g] = p] \in GT /\ p # None
    BY <1>0, PolicyAssumption DEF GroupsType
  <2>2. groups["default"] # None => [groups EXCEPT ![g] = p]["default"] # None
    BY <1>0, <2>1 DEF GroupsType
  <2>3. Write([groups EXCEPT ![g] = p], items, aliases, "ACCESS")
    BY <1>2 DEF handle_create_access_group, handle_update_access_group
  <2> QED
    BY <1>0, <1>1, <2>1, <2>2, <2>3
<1>3. ASSUME NEW g \in Edited, handle_delete_access_group(g) PROVE Goal
  <2>1. [groups EXCEPT ![g] = None] \in GT
    BY <1>0 DEF GroupsType
  <2>2. groups["default"] # None => [groups EXCEPT ![g] = None]["default"] # None
    BY <1>0, <1>3 DEF handle_delete_access_group, Builtin, GroupsType
  <2>3. Write([groups EXCEPT ![g] = None], items, aliases, "ACCESS")
    BY <1>3 DEF handle_delete_access_group
  <2> QED
    BY <1>0, <1>1, <2>1, <2>2, <2>3
<1>4. ASSUME NEW g \in Edited, NEW m \in Mount, NEW i \in ItemContent \cup {None},
             Write(groups, [items EXCEPT ![g][m] = i], aliases, "ACCESS")
      PROVE  Goal
  <2>1. i \in Item \cup {None} /\ g \in Group
    BY PolicyAssumption
  <2>2. [items[g] EXCEPT ![m] = i] \in ItemsType
    BY <1>0, <2>1 DEF ItemsType
  <2>3. [items EXCEPT ![g][m] = i] \in IT
    BY <1>0, <2>2
  <2> QED
    BY <1>0, <1>1, <1>4, <2>3
<1>5. ASSUME NEW as \in Aliases, EditAliases(as) PROVE Goal
  BY <1>0, <1>1, <1>5 DEF EditAliases
<1>6. Goal
  BY <1>2, <1>3, <1>4, <1>5
     DEF Requests, handle_create_access_item, handle_update_access_item, handle_delete_access_item
<1> QED
  BY <1>6 DEF Goal

\* What a write does to the store.
LEMMA WriteEffect ==
    ASSUME StoreInv,
           NEW gs \in GroupsType,
           NEW is \in [Group -> ItemsType],
           NEW as \in Aliases, NEW topic \in {"ACCESS", "ALIAS"},
           gs["default"] # None, Write(gs, is, as, topic)
    PROVE  StoreInv'
<1>1. groups' = gs /\ items' = is /\ aliases' = as /\ api' = topic
  BY DEF Write
<1> QED
  BY <1>1 DEF StoreInv

\* The store keeps its types, and once there are groups in it there are some.
LEMMA StoreStep ==
    ASSUME StoreInv, [Next]_vars
    PROVE  StoreInv' /\ (Full(groups) => Full(groups'))
<1> DEFINE Goal == StoreInv' /\ (Full(groups) => Full(groups'))
<1>0. "default" \in Group /\ "SYSTEM" \in Group
  BY PolicyAssumption DEF Builtin
<1>1. ASSUME UNCHANGED storeVars,
             api' = api \/ (api # "default" /\ api' = "ready")
      PROVE  Goal
  BY <1>1 DEF storeVars, StoreInv
<1> HIDE DEF Goal
<1>2. CASE Requests
  <2>1. PICK gs \in GroupsType,
             is \in [Group -> ItemsType],
             as \in Aliases, topic \in {"ACCESS", "ALIAS"} :
               gs["default"] # None /\ Write(gs, is, as, topic)
    BY <1>2, RequestEffect
  <2>2. StoreInv'
    BY <2>1, WriteEffect
  <2>3. groups' = gs
    BY <2>1 DEF Write
  <2> QED
    BY <1>0, <2>1, <2>2, <2>3 DEF Goal, Full
<1>3. ASSUME NEW g \in Builtin, EnsureBuiltin(g) PROVE Goal
  <2>1. /\ groups' = [groups EXCEPT ![g] = IF @ = None THEN OpenPolicy ELSE @]
        /\ items' = items /\ aliases' = aliases
        /\ api = g /\ api' = IF g = "default" THEN "SYSTEM" ELSE "ready"
    BY <1>3 DEF EnsureBuiltin
  <2>2. groups \in GroupsType /\ OpenPolicy \in PolicyType /\ OpenPolicy # None /\ g \in Group
    BY PolicyAssumption DEF StoreInv
  <2>3. groups' \in GroupsType /\ groups'["default"] # None
    BY <1>0, <2>1, <2>2 DEF StoreInv, Builtin, GroupsType
  <2>4. api' \in Builtin \cup {"ready"}
    BY <2>1 DEF Builtin
  <2> QED
    BY <1>0, <2>1, <2>3, <2>4 DEF Goal, StoreInv, Full
<1>4. CASE Publish
  BY <1>1, <1>4 DEF Publish, Goal
<1>5. CASE TimeoutCallback \/ Restart \/ Redis_ConfChange_Callback
  BY <1>1, <1>5 DEF TimeoutCallback, Restart, Redis_ConfChange_Callback, Goal
<1>6. ASSUME NEW c \in Ctx, Connected(c) \/ Lose(c) \/ Refused(c) \/ Callbacks(c) PROVE Goal
  BY <1>1, <1>6 DEF Connected, Lose, Refused, Callbacks, Pong, Drained, Execute, policyVars,
       Redis_Update_Alias_Rule_Callback, Redis_Update_Access_Group_Callback,
       Redis_Update_Access_Item_Callback
<1>7. CASE UNCHANGED vars
  BY <1>1, <1>7 DEF vars, policyVars, Goal
<1> QED
  BY <1>2, <1>3, <1>4, <1>5, <1>6, <1>7 DEF Next, Goal

\* The answer that Redis gives to a command.
LEMMA ValueIn ==
    ASSUME StoreInv, NEW cmd \in Command
    PROVE  [cmd |-> cmd, value |-> Value(cmd)] \in Answer
<1> DEFINE v == Value(cmd)
           a == [cmd |-> cmd, value |-> v]
<1>0. a.cmd = cmd /\ a.value = v /\ (v \in Content => a \in [cmd : Command, value : Content])
  OBVIOUS
<1> HIDE DEF a
<1>1. ASSUME cmd.op = "alias" PROVE a \in Answer
  <2>1. v \in Aliases /\ v \in Content
    BY <1>1 DEF StoreInv, Value, Content
  <2> HIDE DEF v
  <2> QED
    BY <1>0, <1>1, <2>1 DEF Answer
<1>2. ASSUME cmd.op = "group" PROVE a \in Answer
  <2>1. v \in GroupsType /\ v \in Content
    BY <1>2 DEF StoreInv, Value, Content
  <2> HIDE DEF v
  <2> QED
    BY <1>0, <1>2, <2>1 DEF Answer
<1>3. ASSUME cmd.op = "item" PROVE a \in Answer
  <2>1. cmd.group \in Group
    BY <1>3 DEF Command
  <2>2. v \in ItemsType /\ v \in Content
    BY <1>3, <2>1 DEF StoreInv, Value, Content
  <2> HIDE DEF v
  <2> QED
    BY <1>0, <1>3, <2>2 DEF Answer
<1>4. ASSUME cmd.op = "ping" PROVE a \in Answer
  <2>1. v \in Content
    BY <1>4 DEF Value, Content
  <2> HIDE DEF v
  <2> QED
    BY <1>0, <1>4, <2>1 DEF Answer
<1>5. a \in Answer
  BY <1>1, <1>2, <1>3, <1>4 DEF Command
<1> QED
  BY <1>5 DEF a

\* Pipelines stay pipelines when commands are added.
LEMMA Pipelines ==
    ASSUME NEW S
    PROVE  /\ [c \in Ctx |-> <<>>] \in [Ctx -> Seq(S)]
           /\ \A f \in [Ctx -> Seq(S)], s \in Seq(S) : \A x :
                [f EXCEPT ![x] = @ \o s] \in [Ctx -> Seq(S)]
<1>1. <<>> \in Seq(S)
  OBVIOUS
<1>2. ASSUME NEW f \in [Ctx -> Seq(S)], NEW s \in Seq(S), NEW x
      PROVE  [f EXCEPT ![x] = @ \o s] \in [Ctx -> Seq(S)]
  <2>1. \A c \in Ctx : f[c] \o s \in Seq(S)
    OBVIOUS
  <2> QED
    BY <2>1
<1> QED
  BY <1>1, <1>2

\* What the timer, a new connection and a notification send.
LEMMA SentCommands ==
    /\ {AskAlias, AskPolicy, Downloads, PingAndDownloads} \subseteq Seq(Command)
    /\ Asked(AskAlias, "alias") /\ Asked(AskPolicy, "group")
    /\ \A s \in {Downloads, PingAndDownloads} : Asked(s, "alias") /\ Asked(s, "group")
<1>1. Ask("alias", None) \in Command /\ Ask("group", None) \in Command /\ Ask("ping", None) \in Command
  BY DEF Ask, Command
<1>2. /\ Len(AskAlias) = 1 /\ AskAlias[1] = Ask("alias", None)
      /\ Len(AskPolicy) = 1 /\ AskPolicy[1] = Ask("group", None)
      /\ {AskAlias, AskPolicy} \subseteq Seq(Command)
  BY <1>1 DEF AskAlias, AskPolicy
<1>3. /\ Len(Downloads) = 2 /\ Downloads \in Seq(Command)
      /\ Downloads[1] = Ask("alias", None) /\ Downloads[2] = Ask("group", None)
  BY <1>1 DEF AskAlias, AskPolicy, Downloads
<1>4. /\ Len(PingAndDownloads) = 3 /\ PingAndDownloads \in Seq(Command)
      /\ PingAndDownloads[2] = Ask("alias", None) /\ PingAndDownloads[3] = Ask("group", None)
  BY <1>1 DEF PingAndDownloads, Downloads, AskAlias, AskPolicy
<1>5. 1 \in 1 .. 1 /\ 1 \in 1 .. 2 /\ 2 \in 1 .. 2 /\ 2 \in 1 .. 3 /\ 3 \in 1 .. 3
  OBVIOUS
<1>6. \A op : Ask(op, None).op = op
  BY DEF Ask
<1>7. Asked(AskAlias, "alias") /\ Asked(AskPolicy, "group")
  BY <1>2, <1>5, <1>6 DEF Asked
<1>8. Asked(Downloads, "alias") /\ Asked(Downloads, "group")
  BY <1>3, <1>5, <1>6 DEF Asked
<1>9. Asked(PingAndDownloads, "alias") /\ Asked(PingAndDownloads, "group")
  BY <1>4, <1>5, <1>6 DEF Asked
<1> QED
  BY <1>2, <1>3, <1>4, <1>7, <1>8, <1>9

\* Pipelines carry commands, and answers of their kinds.
LEMMA PipeStep ==
    ASSUME StoreInv, MapsInv, PipeInv, [Next]_vars
    PROVE  PipeInv'
<1> DEFINE Types == /\ cmds' \in [Ctx -> Seq(Command)]
                    /\ answers' \in [Ctx -> Seq(Answer)]
                    /\ notes' \in Seq({"ACCESS", "ALIAS"})
                    /\ dirty' \subseteq {"ACCESS", "ALIAS"} /\ loaded' \in BOOLEAN
<1>0. Types => PipeInv'
  BY DEF PipeInv
<1> USE DEF PipeInv
<1>a. {AskAlias, AskPolicy, Downloads, PingAndDownloads} \subseteq Seq(Command)
  BY SentCommands
<1>b. ASSUME NEW s \in Seq(Command) PROVE Sent(s) \in [Ctx -> Seq(Command)]
  BY <1>b, Pipelines DEF Sent
<1>c. ASSUME NEW c \in Ctx, NEW op, Answered(c, op)
      PROVE  /\ answers' \in [Ctx -> Seq(Answer)]
             /\ Head(answers[c]) \in Answer /\ Head(answers[c]).cmd.op = op
  BY <1>c DEF Answered
<1>1. CASE TimeoutCallback
  BY <1>0, <1>1, <1>a, <1>b DEF TimeoutCallback
<1>2. CASE Restart
  <2>1. /\ cmds' \in [Ctx -> Seq(Command)] /\ answers' \in [Ctx -> Seq(Answer)]
    BY <1>2, Pipelines DEF Restart
  <2>2. notes' = <<>> /\ dirty' = dirty /\ loaded' = FALSE
    BY <1>2 DEF Restart
  <2>3. \A T : <<>> \in Seq(T)
    OBVIOUS
  <2>4. notes' \in Seq({"ACCESS", "ALIAS"}) /\ loaded' \in BOOLEAN
    BY <2>2, <2>3
  <2> QED
    BY <1>0, <2>1, <2>2, <2>4
<1>3. CASE Redis_ConfChange_Callback
  <2>0. notes # <<>> /\ notes' = Tail(notes) /\ dirty' = dirty \ {Head(notes)}
    BY <1>3 DEF Redis_ConfChange_Callback
  <2>1. notes' \in Seq({"ACCESS", "ALIAS"}) /\ dirty' \subseteq {"ACCESS", "ALIAS"}
    <3> DEFINE T == {"ACCESS", "ALIAS"}
    <3>1. notes \in Seq(T)
      OBVIOUS
    <3> HIDE DEF T
    <3>2. Tail(notes) \in Seq(T)
      BY <2>0, <3>1
    <3> QED
      BY <2>0, <3>2 DEF T
  <2>2. PICK s \in Seq(Command) : cmds' = Sent(s)
    BY <1>3, <1>a DEF Redis_ConfChange_Callback
  <2>3. cmds' \in [Ctx -> Seq(Command)]
    BY <1>b, <2>2
  <2> QED
    BY <1>0, <1>3, <2>1, <2>3 DEF Redis_ConfChange_Callback
<1>4. CASE Publish
  <2>1. notes' \in Seq({"ACCESS", "ALIAS"})
    BY <1>4 DEF Publish
  <2> QED
    BY <1>0, <1>4, <2>1 DEF Publish
<1>5. CASE Requests
  <2>1. PICK gs \in GroupsType,
             is \in [Group -> ItemsType],
             as \in Aliases, topic \in {"ACCESS", "ALIAS"} :
               gs["default"] # None /\ Write(gs, is, as, topic)
    BY <1>5, RequestEffect
  <2> QED
    BY <1>0, <2>1 DEF Write
<1>6. ASSUME NEW g \in Builtin, EnsureBuiltin(g) PROVE PipeInv'
  BY <1>0, <1>6 DEF EnsureBuiltin
<1>7. ASSUME NEW c \in Ctx, Connected(c) PROVE PipeInv'
  BY <1>0, <1>7, <1>a, <1>b DEF Connected
<1>8. ASSUME NEW c \in Ctx, Lose(c) \/ Refused(c) \/ Drained(c) PROVE PipeInv'
  <2>1. UNCHANGED <<notes, dirty, loaded>>
    BY <1>8 DEF Lose, Refused, Drained, policyVars
  <2>2. \/ UNCHANGED <<cmds, answers>>
        \/ /\ cmds' = [cmds EXCEPT ![c] = <<>>]
           /\ answers' = [answers EXCEPT ![c] = <<>>]
    BY <1>8 DEF Lose, Refused, Drained, policyVars
  <2>b. <<>> \in Seq(Command) /\ <<>> \in Seq(Answer)
    OBVIOUS
  <2>3. cmds' \in [Ctx -> Seq(Command)]
    BY <2>2, <2>b
  <2>4. answers' \in [Ctx -> Seq(Answer)]
    BY <2>2, <2>b
  <2> QED
    BY <1>0, <2>1, <2>3, <2>4
<1>9. ASSUME NEW c \in Ctx, Execute(c) PROVE PipeInv'
  <2> DEFINE a == [cmd |-> Head(cmds[c]), value |-> Value(Head(cmds[c]))]
  <2>1. cmds[c] \in Seq(Command) /\ cmds[c] # <<>>
    BY <1>9 DEF Execute
  <2>2. Head(cmds[c]) \in Command /\ Tail(cmds[c]) \in Seq(Command)
    BY <2>1
  <2>3. a \in Answer
    BY <2>2, ValueIn
  <2>4. /\ answers' = [answers EXCEPT ![c] = Append(@, a)]
        /\ cmds' = [cmds EXCEPT ![c] = Tail(@)]
        /\ UNCHANGED <<notes, dirty, loaded>>
    BY <1>9 DEF Execute
  <2> HIDE DEF a
  <2>5. Append(answers[c], a) \in Seq(Answer)
    BY <2>3
  <2> QED
    BY <1>0, <2>2, <2>4, <2>5
<1>10. ASSUME NEW c \in Ctx, \/ Pong(c) \/ Redis_Update_Alias_Rule_Callback(c)
                             \/ Redis_Update_Access_Item_Callback(c)
       PROVE  PipeInv'
  BY <1>0, <1>c, <1>10 DEF Pong, Redis_Update_Alias_Rule_Callback, Redis_Update_Access_Item_Callback
<1>11. ASSUME NEW c \in Ctx, Redis_Update_Access_Group_Callback(c) PROVE PipeInv'
  <2> DEFINE new == Head(answers[c]).value
  <2>1. answers' \in [Ctx -> Seq(Answer)] /\ new \in GroupsType
    BY <1>c, <1>11 DEF Redis_Update_Access_Group_Callback, Answer
  <2>2. AskItems(maps.groups, new) \in Seq(Command)
    BY <2>1, AskItemsEffect
  <2>3. /\ cmds' = Sent(AskItems(maps.groups, new))
        /\ loaded' \in BOOLEAN /\ UNCHANGED <<notes, dirty>>
    BY <1>11 DEF Redis_Update_Access_Group_Callback
  <2>4. cmds' \in [Ctx -> Seq(Command)]
    BY <1>b, <2>2, <2>3
  <2> QED
    BY <1>0, <2>1, <2>3, <2>4
<1>12. CASE UNCHANGED vars
  BY <1>0, <1>12 DEF vars, policyVars
<1> QED
  BY <1>1, <1>2, <1>3, <1>4, <1>5, <1>6, <1>7, <1>8, <1>9, <1>10, <1>11, <1>12 DEF Next, Callbacks

\* The maps of a node keep their types.
LEMMA MapsStep ==
    ASSUME StoreInv, MapsInv, PipeInv, [Next]_vars
    PROVE  MapsInv'
<1> USE DEF MapsInv
<1>1. ASSUME UNCHANGED maps PROVE MapsInv'
  BY <1>1
<1>2. ASSUME NEW c \in Ctx, NEW op, Answered(c, op)
      PROVE  Head(answers[c]) \in Answer /\ Head(answers[c]).cmd.op = op
  BY <1>2 DEF Answered, PipeInv
<1>3. CASE Restart
  <2>1. NoMaps \in MapsType
    BY DEF NoMaps, MapsType, GroupsType
  <2> QED
    BY <1>3, <2>1 DEF Restart
<1>4. ASSUME NEW c \in Ctx, Redis_Update_Alias_Rule_Callback(c) PROVE MapsInv'
  <2>1. Head(answers[c]).value \in Aliases
    BY <1>2, <1>4 DEF Redis_Update_Alias_Rule_Callback, Answer
  <2>2. maps' = [maps EXCEPT !.aliases = Head(answers[c]).value]
    BY <1>4 DEF Redis_Update_Alias_Rule_Callback
  <2> QED
    BY <2>1, <2>2 DEF MapsType
<1>5. ASSUME NEW c \in Ctx, Redis_Update_Access_Group_Callback(c) PROVE MapsInv'
  <2> DEFINE new == Head(answers[c]).value
  <2>1. new \in GroupsType
    BY <1>2, <1>5 DEF Redis_Update_Access_Group_Callback, Answer
  <2>2. maps' = [maps EXCEPT !.groups = new, !.items = [g \in Group |-> None]]
    BY <1>5 DEF Redis_Update_Access_Group_Callback
  <2> HIDE DEF new
  <2> QED
    BY <2>1, <2>2 DEF MapsType
<1>6. ASSUME NEW c \in Ctx, Redis_Update_Access_Item_Callback(c) PROVE MapsInv'
  <2> DEFINE a == Head(answers[c])
  <2>1. a.cmd \in Command /\ a.cmd.op = "item" /\ a.value \in ItemsType
    BY <1>2, <1>6 DEF Redis_Update_Access_Item_Callback, Answer
  <2>2. maps' = [maps EXCEPT !.items[a.cmd.group] = a.value]
    BY <1>6 DEF Redis_Update_Access_Item_Callback
  <2>3. a.cmd.group \in Group
    BY <2>1 DEF Command
  <2> HIDE DEF a
  <2>4. [maps.items EXCEPT ![a.cmd.group] = a.value] \in [Group -> ItemsType \cup {None}]
    BY <2>1, <2>3 DEF MapsType
  <2> QED
    BY <2>2, <2>4 DEF MapsType
<1>7. CASE TimeoutCallback \/ Redis_ConfChange_Callback \/ Publish
  BY <1>1, <1>7 DEF TimeoutCallback, Redis_ConfChange_Callback, Publish
<1>8. CASE Requests
  BY <1>1, <1>8, RequestEffect DEF Write
<1>9. ASSUME NEW g \in Builtin, EnsureBuiltin(g) PROVE MapsInv'
  BY <1>1, <1>9 DEF EnsureBuiltin
<1>10. ASSUME NEW c \in Ctx, Connected(c) \/ Lose(c) \/ Refused(c) \/ Pong(c) \/ Drained(c) \/ Execute(c)
       PROVE  MapsInv'
  BY <1>1, <1>10 DEF Connected, Lose, Refused, Pong, Drained, Execute, policyVars
<1>11. CASE UNCHANGED vars
  BY <1>1, <1>11 DEF vars, policyVars
<1> QED
  BY <1>3, <1>4, <1>5, <1>6, <1>7, <1>8, <1>9, <1>10, <1>11 DEF Next, Callbacks

\* As long as no context is given up, none drains.
LEMMA DrainedLate ==
    ASSUME ConnInv, NEW c \in Ctx, Drain(c)
    PROVE  late
<1>1. running = "up" /\ link.ctx[c].phase = "open" /\ link.ctx[c].closing
  BY DEF Drain
<1>2. ~OnlyOne(link)
  BY <1>1 DEF OnlyOne, NoContext
<1> QED
  BY <1>1, <1>2 DEF ConnInv, First

\* What the callback of the groups does with the connection.
LEMMA GroupCallbackConn ==
    ASSUME First', NEW c \in Ctx, Redis_Update_Access_Group_Callback(c)
    PROVE  First /\ link' = link
<1>1. UseContext \/ UNCHANGED connVars
  BY DEF Redis_Update_Access_Group_Callback
<1>2. CASE UseContext
  BY <1>2 DEF UseContext, First
<1>3. CASE UNCHANGED connVars
  BY <1>3 DEF connVars, First
<1> QED
  BY <1>1, <1>2, <1>3

\* Answers come in the order in which Redis gave them, over one context, so a
\* node that has groups does not lose them again.
LEMMA OrderStep ==
    ASSUME ConnInv, StoreInv, MapsInv, PipeInv, OrderInv, [Next]_vars
    PROVE  OrderInv'
<1> SUFFICES ASSUME First' PROVE OrderInv'
  BY DEF OrderInv
<1> DEFINE x == link.context
<1>0. /\ First => x \in Ctx /\ x # Null
      /\ Full(groups) => Full(groups')
      /\ \A c \in Ctx : answers[c] \in Seq(Answer)
  BY CtxAssumption, StoreStep DEF ConnInv, OnlyOne, PipeInv
<1>1. ASSUME First, link'.context = x,
             UNCHANGED <<answers, loaded>>, maps'.groups = maps.groups,
             \A c \in Ctx \ {x} : cmds'[c] = cmds[c]
      PROVE  OrderInv'
  BY <1>0, <1>1 DEF OrderInv, FullFrom
<1>s. ASSUME First, link'.context = x, NEW s, cmds' = Sent(s)
      PROVE  \A c \in Ctx \ {x} : cmds'[c] = cmds[c]
  BY <1>0, <1>s DEF Sent, PipeInv
<1>2. CASE TimeoutCallback
  <2>1. First /\ link'.context = x
    BY <1>2, SameContext DEF TimeoutCallback
  <2>2. \A c \in Ctx \ {x} : cmds'[c] = cmds[c]
    BY <1>2, <1>s, <2>1 DEF TimeoutCallback
  <2> QED
    BY <1>1, <1>2, <2>1, <2>2 DEF TimeoutCallback
<1>3. ASSUME NEW c \in Ctx, Connected(c) PROVE OrderInv'
  <2>1. First /\ link'.context = x
    BY <1>3, SameContext DEF Connected
  <2>2. \A k \in Ctx \ {x} : cmds'[k] = cmds[k]
    BY <1>3, <1>s, <2>1 DEF Connected
  <2> QED
    BY <1>1, <1>3, <2>1, <2>2 DEF Connected
<1>5. CASE Redis_ConfChange_Callback
  <2>1. First /\ link'.context = x
    BY <1>5, SameContext DEF Redis_ConfChange_Callback
  <2>2. \A c \in Ctx \ {x} : cmds'[c] = cmds[c]
    BY <1>5, <1>s, <2>1 DEF Redis_ConfChange_Callback
  <2> QED
    BY <1>1, <1>5, <2>1, <2>2 DEF Redis_ConfChange_Callback
<1>6. ASSUME UNCHANGED connVars, UNCHANGED <<answers, loaded, maps, cmds>>
      PROVE  OrderInv'
  BY <1>1, <1>6 DEF First, connVars
<1>7. CASE Publish
  BY <1>6, <1>7 DEF Publish
<1>8. CASE Requests
  BY <1>6, <1>8, RequestEffect DEF Write
<1>9. ASSUME NEW g \in Builtin, EnsureBuiltin(g) PROVE OrderInv'
  BY <1>6, <1>9 DEF EnsureBuiltin
<1>10. CASE UNCHANGED vars
  BY <1>6, <1>10 DEF vars, policyVars
<1>11. ASSUME NEW c \in Ctx, Refused(c) PROVE OrderInv'
  BY <1>11 DEF Refused, ConnectFailed, First
<1>12. CASE Restart
  BY <1>12, CtxAssumption DEF Restart, RestartConn, OrderInv, FullFrom, InitLink
<1>13. ASSUME NEW c \in Ctx, Lose(c) PROVE OrderInv'
  <2>0. First
    BY <1>13 DEF Lose, Break, First
  <2>1. c = x
    BY <1>13, <2>0, BreakDisconnects DEF Lose
  <2>2. /\ \A k \in Ctx : cmds'[k] = <<>> /\ answers'[k] = <<>>
        /\ UNCHANGED <<groups, maps, loaded>>
    BY <1>13, <2>0, <2>1 DEF Lose, OrderInv, PipeInv, storeVars
  <2>3. link'.context \in Ctx
    <3>1. ConnInv'
      BY ConnKept, ConnInvStep
    <3> QED
      BY <3>1 DEF ConnInv, OnlyOne
  <2> QED
    BY <2>0, <2>2, <2>3 DEF OrderInv, FullFrom
<1>4. ASSUME NEW c \in Ctx, Drained(c) PROVE OrderInv'
  BY <1>4, DrainedLate DEF Drained, Drain, First
<1>14. ASSUME NEW c \in Ctx, Execute(c) PROVE OrderInv'
  <2> DEFINE a == [cmd |-> Head(cmds[c]), value |-> Value(Head(cmds[c]))]
  <2>1. First /\ link' = link /\ UNCHANGED <<groups, maps, loaded>>
    BY <1>14 DEF Execute, connVars, storeVars, First
  <2>2. c = x /\ cmds[c] # <<>>
    BY <1>14, <2>1 DEF Execute, OrderInv
  <2>3. /\ answers' = [answers EXCEPT ![x] = Append(@, a)]
        /\ cmds' = [cmds EXCEPT ![x] = Tail(@)]
    BY <1>14, <2>2 DEF Execute
  <2>4. a.cmd.op = "group" => a.value = groups
    BY DEF Value
  <2> HIDE DEF a
  <2>5. /\ answers'[x] = Append(answers[x], a)
        /\ \A k \in Ctx \ {x} : answers'[k] = answers[k] /\ cmds'[k] = cmds[k]
    BY <1>0, <2>1, <2>3 DEF PipeInv
  <2>6. /\ Len(answers'[x]) = Len(answers[x]) + 1
        /\ \A i \in 1 .. Len(answers[x]) : answers'[x][i] = answers[x][i]
        /\ answers'[x][Len(answers[x]) + 1] = a
    BY <1>0, <2>1, <2>5
  <2>7. /\ FullFrom(answers[x])
        /\ \A i \in 1 .. Len(answers[x]) : answers[x][i].cmd.op = "group" =>
             /\ Full(answers[x][i].value) => Full(groups)
             /\ loaded => Full(answers[x][i].value)
        /\ loaded => Full(groups) /\ Full(maps.groups)
    BY <2>1 DEF OrderInv
  <2>8. Len(answers[x]) \in Nat
    BY <1>0, <2>1
  <2> DEFINE n == Len(answers[x])
  <2>9. FullFrom(answers'[x])
    <3> SUFFICES ASSUME NEW i \in 1 .. Len(answers'[x]), NEW j \in 1 .. Len(answers'[x]), i < j,
                        answers'[x][i].cmd.op = "group", Full(answers'[x][i].value),
                        answers'[x][j].cmd.op = "group"
                 PROVE  Full(answers'[x][j].value)
      BY DEF FullFrom
    <3>1. i \in 1 .. n /\ answers'[x][i] = answers[x][i]
      BY <2>6, <2>8
    <3>2. CASE j = n + 1
      <4>1. Full(groups)
        BY <2>7, <3>1
      <4>2. answers'[x][j] = a
        BY <2>6, <3>2
      <4> QED
        BY <2>4, <4>1, <4>2
    <3>3. CASE j # n + 1
      <4>1. j \in 1 .. n /\ answers'[x][j] = answers[x][j]
        BY <2>6, <2>8, <3>3
      <4>2. /\ answers[x][i].cmd.op = "group" /\ Full(answers[x][i].value)
            /\ answers[x][j].cmd.op = "group"
        BY <3>1, <4>1
      <4>3. Full(answers[x][j].value)
        BY <2>7, <3>1, <4>1, <4>2 DEF FullFrom
      <4> QED
        BY <4>1, <4>3
    <3> QED
      BY <3>2, <3>3
  <2>10. \A i \in 1 .. Len(answers'[x]) : answers'[x][i].cmd.op = "group" =>
             /\ Full(answers'[x][i].value) => Full(groups)
             /\ loaded => Full(answers'[x][i].value)
    <3> SUFFICES ASSUME NEW i \in 1 .. Len(answers'[x]), answers'[x][i].cmd.op = "group"
                 PROVE  /\ Full(answers'[x][i].value) => Full(groups)
                        /\ loaded => Full(answers'[x][i].value)
      OBVIOUS
    <3>1. CASE i = n + 1
      BY <2>4, <2>6, <2>7, <3>1
    <3>2. CASE i # n + 1
      <4>1. i \in 1 .. n /\ answers'[x][i] = answers[x][i]
        BY <2>6, <2>8, <3>2
      <4> QED
        BY <2>7, <4>1
    <3> QED
      BY <3>1, <3>2
  <2> QED
    BY <2>1, <2>5, <2>7, <2>9, <2>10 DEF OrderInv
<1>15. ASSUME First, NEW c \in Ctx, NEW op, Answered(c, op)
       PROVE  /\ c = x
              /\ Head(answers[x]) = answers[x][1] /\ 1 \in 1 .. Len(answers[x])
              /\ Head(answers[x]).cmd.op = op
              /\ Len(answers'[x]) = Len(answers[x]) - 1
              /\ \A i \in 1 .. Len(answers'[x]) :
                   /\ i + 1 \in 1 .. Len(answers[x]) /\ answers'[x][i] = answers[x][i + 1]
              /\ \A k \in Ctx \ {x} : answers'[k] = answers[k]
  <2>1. answers[c] # <<>> /\ answers' = [answers EXCEPT ![c] = Tail(@)]
        /\ Head(answers[c]).cmd.op = op
    BY <1>15 DEF Answered
  <2>2. c = x
    BY <1>15, <2>1 DEF OrderInv
  <2>3. answers'[x] = Tail(answers[x]) /\ \A k \in Ctx \ {x} : answers'[k] = answers[k]
    BY <1>0, <2>1, <2>2 DEF PipeInv
  <2>4. answers[x] \in Seq(Answer) /\ answers[x] # <<>>
    BY <1>0, <2>1, <2>2
  <2>5. /\ Head(answers[x]) = answers[x][1] /\ 1 \in 1 .. Len(answers[x])
        /\ Len(answers'[x]) = Len(answers[x]) - 1
        /\ \A i \in 1 .. Len(answers'[x]) :
             i + 1 \in 1 .. Len(answers[x]) /\ answers'[x][i] = answers[x][i + 1]
    BY <2>3, <2>4
  <2> QED
    BY <2>1, <2>2, <2>3, <2>5
<1>16. ASSUME First, NEW c \in Ctx, NEW op, Answered(c, op)
       PROVE  /\ FullFrom(answers'[x])
              /\ \A i \in 1 .. Len(answers'[x]) : answers'[x][i].cmd.op = "group" =>
                   /\ Full(answers'[x][i].value) => Full(groups)
                   /\ loaded => Full(answers'[x][i].value)
                   /\ op = "group" /\ Full(Head(answers[x]).value) => Full(answers'[x][i].value)
  <2>1. /\ FullFrom(answers[x])
        /\ \A i \in 1 .. Len(answers[x]) : answers[x][i].cmd.op = "group" =>
             /\ Full(answers[x][i].value) => Full(groups)
             /\ loaded => Full(answers[x][i].value)
    BY <1>15, <1>16 DEF OrderInv
  <2>2. Len(answers[x]) \in Nat
    BY <1>0, <1>15, <1>16
  <2>3. /\ Head(answers[x]) = answers[x][1] /\ Head(answers[x]).cmd.op = op
        /\ 1 \in 1 .. Len(answers[x])
        /\ \A i \in 1 .. Len(answers'[x]) :
             /\ i + 1 \in 1 .. Len(answers[x]) /\ answers'[x][i] = answers[x][i + 1]
    BY <1>15, <1>16
  <2>4. FullFrom(answers'[x])
    <3> SUFFICES ASSUME NEW i \in 1 .. Len(answers'[x]), NEW j \in 1 .. Len(answers'[x]), i < j,
                        answers'[x][i].cmd.op = "group", Full(answers'[x][i].value),
                        answers'[x][j].cmd.op = "group"
                 PROVE  Full(answers'[x][j].value)
      BY DEF FullFrom
    <3>1. i + 1 < j + 1
      OBVIOUS
    <3> QED
      BY <2>1, <2>3, <3>1 DEF FullFrom
  <2>5. ASSUME NEW i \in 1 .. Len(answers'[x]), answers'[x][i].cmd.op = "group"
        PROVE  /\ Full(answers'[x][i].value) => Full(groups)
               /\ loaded => Full(answers'[x][i].value)
               /\ op = "group" /\ Full(Head(answers[x]).value) => Full(answers'[x][i].value)
    <3>1. 1 < i + 1
      OBVIOUS
    <3> QED
      BY <2>1, <2>3, <2>5, <3>1 DEF FullFrom
  <2> QED
    BY <2>4, <2>5
<1>17. ASSUME NEW c \in Ctx, \/ Pong(c) \/ Redis_Update_Alias_Rule_Callback(c)
                             \/ Redis_Update_Access_Item_Callback(c)
       PROVE  OrderInv'
  <2>1. PICK op : Answered(c, op)
    BY <1>17 DEF Pong, Redis_Update_Alias_Rule_Callback, Redis_Update_Access_Item_Callback
  <2>2. First /\ link'.context = x
    <3>1. CASE Pong(c)
      BY <3>1, SameContext DEF Pong
    <3>2. CASE Redis_Update_Alias_Rule_Callback(c) \/ Redis_Update_Access_Item_Callback(c)
      BY <3>2 DEF Redis_Update_Alias_Rule_Callback, Redis_Update_Access_Item_Callback, connVars, First
    <3> QED
      BY <1>17, <3>1, <3>2
  <2>3. UNCHANGED <<groups, cmds, loaded>> /\ maps'.groups = maps.groups
    BY <1>17
       DEF Pong, Redis_Update_Alias_Rule_Callback, Redis_Update_Access_Item_Callback, storeVars,
           MapsInv, MapsType
  <2> QED
    BY <1>15, <1>16, <2>1, <2>2, <2>3 DEF OrderInv
<1>18. ASSUME NEW c \in Ctx, Redis_Update_Access_Group_Callback(c) PROVE OrderInv'
  <2> DEFINE new == Head(answers[c]).value
             ask == AskItems(maps.groups, new)
  <2>1. Answered(c, "group")
    BY <1>18 DEF Redis_Update_Access_Group_Callback
  <2>0. First /\ link' = link
    BY <1>18, GroupCallbackConn
  <2>2. /\ c = x /\ answers[x][1].cmd.op = "group" /\ new = answers[x][1].value
        /\ 1 \in 1 .. Len(answers[x])
    BY <1>15, <2>0, <2>1
  <2>3. /\ UNCHANGED groups /\ cmds' = Sent(ask)
        /\ maps'.groups = new /\ loaded' = (loaded \/ ask # <<>>)
    BY <1>18 DEF Redis_Update_Access_Group_Callback, storeVars, MapsInv, MapsType
  <2>4. new \in GroupsType
    <3>1. Head(answers[x]) \in Answer
      BY <1>0, <1>15, <2>0, <2>1, <2>2
    <3> QED
      BY <2>0, <2>2, <3>1, <1>15, <2>1 DEF Answer
  <2>5. ask # <<>> <=> Full(new)
    BY <2>4, AskItemsEffect
  <2>6. /\ Full(new) => Full(groups)
        /\ loaded => Full(new)
    BY <2>0, <2>2 DEF OrderInv
  <2>7. \A k \in Ctx \ {x} : cmds'[k] = cmds[k]
    BY <1>s, <2>0, <2>3
  <2>8. loaded' <=> Full(new)
    BY <2>3, <2>5, <2>6
  <2>9. new = Head(answers[x]).value
    BY <2>2
  <2> HIDE DEF new, ask
  <2>10. /\ FullFrom(answers'[x])
         /\ \A i \in 1 .. Len(answers'[x]) : answers'[x][i].cmd.op = "group" =>
              /\ Full(answers'[x][i].value) => Full(groups)
              /\ Full(new) => Full(answers'[x][i].value)
    BY <1>16, <2>0, <2>1, <2>2, <2>3, <2>9
  <2>11. \A k \in Ctx \ {x} : cmds'[k] = <<>> /\ answers'[k] = <<>>
    BY <1>15, <2>0, <2>1, <2>2, <2>7 DEF OrderInv
  <2> QED
    BY <2>0, <2>3, <2>6, <2>8, <2>10, <2>11 DEF OrderInv
<1> QED
  BY <1>2, <1>3, <1>4, <1>5, <1>7, <1>8, <1>9, <1>10, <1>11, <1>12, <1>13, <1>14, <1>17, <1>18
     DEF Next, Callbacks

-----------------------------------------------------------------------------
(* What is under way.                                                      *)

\* Redis gives an answer, which is true when it is given.
LEMMA AnswerGiven ==
    ASSUME NEW A, NEW q \in Seq(A), NEW a \in A, NEW T, a \in T, NEW op
    PROVE  /\ TrueAfter(q, 0, T) => TrueAfter(Append(q, a), 0, T)
           /\ Told(q, op, T) \/ a.cmd.op = op => Told(Append(q, a), op, T)
<1> DEFINE r == Append(q, a)
<1>1. /\ Len(q) \in Nat /\ Len(r) = Len(q) + 1 /\ r[Len(q) + 1] = a
      /\ \A i \in 1 .. Len(q) : r[i] = q[i]
  OBVIOUS
<1> HIDE DEF r
<1>2. ASSUME NEW n \in Int, TrueAfter(q, n, T) PROVE TrueAfter(r, n, T)
  BY <1>1, <1>2 DEF TrueAfter
<1>3. ASSUME NEW i \in 1 .. Len(q), q[i].cmd.op = op, TrueAfter(q, i - 1, T) PROVE Told(r, op, T)
  <2>1. i \in 1 .. Len(r) /\ r[i].cmd.op = op /\ TrueAfter(r, i - 1, T)
    BY <1>1, <1>2, <1>3
  <2> QED
    BY <2>1 DEF Told
<1>4. ASSUME a.cmd.op = op PROVE Told(r, op, T)
  <2>1. Len(r) \in 1 .. Len(r) /\ r[Len(r)].cmd.op = op /\ TrueAfter(r, Len(r) - 1, T)
    BY <1>1, <1>4 DEF TrueAfter
  <2> QED
    BY <2>1 DEF Told
<1>5. TrueAfter(q, 0, T) => TrueAfter(r, 0, T)
  BY <1>2
<1> QED
  BY <1>3, <1>4, <1>5 DEF r, Told

\* The first answer is taken.
LEMMA AnswerTaken ==
    ASSUME NEW A, NEW q \in Seq(A), q # <<>>, NEW T, NEW op
    PROVE  /\ Head(q) = q[1]
           /\ TrueAfter(q, 0, T) => q[1] \in T /\ TrueAfter(Tail(q), 0, T)
           /\ Told(q, op, T) => \/ Told(Tail(q), op, T)
                                \/ q[1].cmd.op = op /\ TrueAfter(q, 0, T)
           /\ \A k, g : ToCome(k, q, g) => ToCome(k, Tail(q), g) \/ q[1].cmd = Ask("item", g)
<1> DEFINE r == Tail(q)
<1>1. /\ Len(q) \in Nat /\ Len(q) > 0 /\ Len(r) = Len(q) - 1 /\ Head(q) = q[1]
      /\ \A i \in 1 .. Len(r) : r[i] = q[i + 1]
  OBVIOUS
<1> HIDE DEF r
<1>2. ASSUME NEW n \in Int, TrueAfter(q, n + 1, T) PROVE TrueAfter(r, n, T)
  <2> SUFFICES ASSUME NEW j \in 1 .. Len(r), j > n PROVE r[j] \in T
    BY DEF TrueAfter
  <2>1. j + 1 \in 1 .. Len(q) /\ j + 1 > n + 1
    BY <1>1
  <2> QED
    BY <1>1, <1>2, <2>1 DEF TrueAfter
<1>3. ASSUME TrueAfter(q, 0, T) PROVE q[1] \in T /\ TrueAfter(r, 0, T)
  <2>1. TrueAfter(q, 0 + 1, T)
    BY <1>3 DEF TrueAfter
  <2>2. TrueAfter(r, 0, T)
    BY <1>2, <2>1
  <2> QED
    BY <1>1, <1>3, <2>2 DEF TrueAfter
<1>4. ASSUME NEW i \in 1 .. Len(q), q[i].cmd.op = op, TrueAfter(q, i - 1, T)
      PROVE  Told(r, op, T) \/ (q[1].cmd.op = op /\ TrueAfter(q, 0, T))
  <2>1. CASE i = 1
    BY <1>4, <2>1
  <2>2. CASE i # 1
    <3>1. i - 1 \in 1 .. Len(r) /\ r[i - 1] = q[i]
      BY <1>1, <2>2
    <3>2. TrueAfter(q, (i - 2) + 1, T)
      BY <1>4
    <3>3. TrueAfter(r, i - 2, T)
      BY <1>2, <3>2
    <3>4. (i - 1) - 1 = i - 2
      OBVIOUS
    <3> QED
      BY <1>4, <3>1, <3>3, <3>4 DEF Told
  <2> QED
    BY <2>1, <2>2
<1>5. ASSUME NEW k, NEW g, ToCome(k, q, g) PROVE ToCome(k, r, g) \/ q[1].cmd = Ask("item", g)
  <2>1. ASSUME NEW i \in 1 .. Len(q), i # 1 PROVE i - 1 \in 1 .. Len(r) /\ r[i - 1] = q[i]
    BY <1>1, <2>1
  <2> QED
    BY <1>5, <2>1 DEF ToCome
<1> QED
  BY <1>1, <1>3, <1>4, <1>5 DEF r, Told

\* Commands are added.
LEMMA CommandsAdded ==
    ASSUME NEW k \in Seq(Command), NEW s \in Seq(Command)
    PROVE  /\ \A op : Asked(k, op) \/ Asked(s, op) => Asked(k \o s, op)
           /\ \A q, g : ToCome(k, q, g) \/ (\E i \in 1 .. Len(s) : s[i] = Ask("item", g))
                => ToCome(k \o s, q, g)
<1>1. /\ Len(k) \in Nat /\ Len(s) \in Nat /\ Len(k \o s) = Len(k) + Len(s)
      /\ \A i \in 1 .. Len(k) : i \in 1 .. Len(k \o s) /\ (k \o s)[i] = k[i]
      /\ \A i \in 1 .. Len(s) : Len(k) + i \in 1 .. Len(k \o s) /\ (k \o s)[Len(k) + i] = s[i]
  OBVIOUS
<1> DEFINE r == k \o s
<1> HIDE DEF r
<1>2. ASSUME NEW op, Asked(k, op) \/ Asked(s, op) PROVE Asked(r, op)
  BY <1>1, <1>2 DEF Asked, r
<1>3. ASSUME NEW q, NEW g, ToCome(k, q, g) \/ (\E i \in 1 .. Len(s) : s[i] = Ask("item", g))
      PROVE  ToCome(r, q, g)
  BY <1>1, <1>3 DEF ToCome, r
<1> QED
  BY <1>2, <1>3 DEF r

\* A command is executed.
LEMMA CommandExecuted ==
    ASSUME NEW k \in Seq(Command), k # <<>>, NEW A, NEW q \in Seq(A), NEW a \in A, a.cmd = Head(k)
    PROVE  /\ \A op : Asked(k, op) => Asked(Tail(k), op) \/ a.cmd.op = op
           /\ \A g : ToCome(k, q, g) => ToCome(Tail(k), Append(q, a), g)
<1> DEFINE t == Tail(k)  r == Append(q, a)
<1>1. /\ \A i \in 1 .. Len(k) : i # 1 => i - 1 \in 1 .. Len(t) /\ t[i - 1] = k[i]
      /\ Head(k) = k[1]
  OBVIOUS
<1>2. /\ Len(q) + 1 \in 1 .. Len(r) /\ r[Len(q) + 1] = a
      /\ \A i \in 1 .. Len(q) : i \in 1 .. Len(r) /\ r[i] = q[i]
  OBVIOUS
<1> HIDE DEF t, r
<1>3. ASSUME NEW op, Asked(k, op) PROVE Asked(t, op) \/ a.cmd.op = op
  BY <1>1, <1>3 DEF Asked
<1>4. ASSUME NEW g, ToCome(k, q, g) PROVE ToCome(t, r, g)
  <2>1. ASSUME NEW i \in 1 .. Len(k), k[i] = Ask("item", g) PROVE ToCome(t, r, g)
    <3>1. CASE i = 1
      BY <1>1, <1>2, <2>1, <3>1 DEF ToCome
    <3>2. CASE i # 1
      BY <1>1, <2>1, <3>2 DEF ToCome
    <3> QED
      BY <3>1, <3>2
  <2>2. ASSUME NEW i \in 1 .. Len(q), q[i].cmd = Ask("item", g) PROVE ToCome(t, r, g)
    BY <1>2, <2>2 DEF ToCome
  <2> QED
    BY <1>4, <2>1, <2>2 DEF ToCome
<1> QED
  BY <1>3, <1>4 DEF t, r

\* What is true stays so as long as the store stays as it is.
LEMMA TrueAnswersKept ==
    /\ UNCHANGED <<groups, items>> => AccessAnswers' = AccessAnswers
    /\ UNCHANGED aliases => AliasAnswers' = AliasAnswers
<1>1. ASSUME UNCHANGED <<groups, items>> PROVE AccessAnswers' = AccessAnswers
  <2>1. ASSUME NEW a, a.cmd.op \in {"group", "item"} PROVE Value(a.cmd)' = Value(a.cmd)
    BY <1>1, <2>1 DEF Value
  <2> QED
    BY <2>1 DEF AccessAnswers, TrueAnswers
<1>2. ASSUME UNCHANGED aliases PROVE AliasAnswers' = AliasAnswers
  <2>1. ASSUME NEW a, a.cmd.op \in {"alias"} PROVE Value(a.cmd)' = Value(a.cmd)
    BY <1>2, <2>1 DEF Value
  <2> QED
    BY <2>1 DEF AliasAnswers, TrueAnswers
<1> QED
  BY <1>1, <1>2

\* Where nothing was edited since, the maps are, or will be, those of the store.
LEMMA FreshStep ==
    ASSUME AccInv, [Next]_vars
    PROVE  FreshInv'
<1> SUFFICES ASSUME First' PROVE FreshInv'
  BY DEF FreshInv, Known
<1> DEFINE x == link.context  k == cmds[x]  q == answers[x]
<1>0. /\ First => /\ x \in Ctx /\ x # Null
                  /\ k \in Seq(Command) /\ q \in Seq(Answer)
      /\ cmds \in [Ctx -> Seq(Command)] /\ answers \in [Ctx -> Seq(Answer)]
  BY CtxAssumption DEF AccInv, ConnInv, OnlyOne, PipeInv
<1>a. /\ FreshInv /\ StoreInv /\ MapsInv /\ PipeInv /\ ConnInv /\ OrderInv
      /\ Answer \subseteq [cmd : Command, value : Content]
  BY DEF AccInv, Answer
<1>b. /\ Asked(AskAlias, "alias") /\ Asked(AskPolicy, "group")
      /\ AskAlias \in Seq(Command) /\ AskPolicy \in Seq(Command)
  BY SentCommands
<1>1. ASSUME First, link'.context = x, link'.connected => link.connected,
             UNCHANGED <<maps, cmds, answers>>, dirty \subseteq dirty',
             "ACCESS" \in dirty' \/ UNCHANGED <<groups, items>>,
             "ALIAS" \in dirty' \/ UNCHANGED aliases
      PROVE  FreshInv'
  <2>1. ASSUME Known("ACCESS")' PROVE AccessFresh(cmds[link.context], answers[link.context])'
    <3>1. UNCHANGED <<groups, items>> /\ AccessFresh(k, q)
      BY <1>1, <1>a, <2>1 DEF Known, FreshInv
    <3> QED
      BY <1>1, <3>1, TrueAnswersKept DEF AccessFresh
  <2>2. ASSUME Known("ALIAS")' PROVE AliasFresh(cmds[link.context], answers[link.context])'
    <3>1. UNCHANGED aliases /\ AliasFresh(k, q)
      BY <1>1, <1>a, <2>2 DEF Known, FreshInv
    <3> QED
      BY <1>1, <3>1, TrueAnswersKept DEF AliasFresh
  <2> QED
    BY <2>1, <2>2 DEF FreshInv
<1>2. ASSUME ~link'.connected PROVE FreshInv'
  BY <1>2 DEF FreshInv, Known
<1>3. ASSUME First, link'.context = x, NEW s \in {Downloads, PingAndDownloads}, cmds' = Sent(s)
      PROVE  FreshInv'
  <2>1. cmds'[x] = k \o s
    BY <1>0, <1>3 DEF Sent
  <2>2. s \in Seq(Command) /\ Asked(s, "group") /\ Asked(s, "alias")
    BY <1>3, SentCommands
  <2>3. Asked(cmds'[x], "group") /\ Asked(cmds'[x], "alias")
    BY <1>0, <1>3, <2>1, <2>2, CommandsAdded
  <2> QED
    BY <1>3, <2>3 DEF FreshInv, AccessFresh, AliasFresh
<1>4. CASE TimeoutCallback
  BY <1>3, <1>4, <1>a, SameContext DEF TimeoutCallback
<1>5. ASSUME NEW c \in Ctx, Connected(c) PROVE FreshInv'
  BY <1>3, <1>5, <1>a, SameContext DEF Connected
<1>6. ASSUME NEW c \in Ctx, Drained(c) PROVE FreshInv'
  BY <1>6, <1>a, DrainedLate DEF Drained, Drain, First
<1>7. CASE Publish
  BY <1>1, <1>7 DEF Publish, connVars, storeVars, First
<1>8. CASE Requests
  <2>1. PICK gs \in GroupsType,
             is \in [Group -> ItemsType],
             as \in Aliases, topic \in {"ACCESS", "ALIAS"} :
               /\ gs["default"] # None /\ Write(gs, is, as, topic)
               /\ topic = "ACCESS" => as = aliases
               /\ topic = "ALIAS" => gs = groups /\ is = items
    BY <1>8, <1>a, RequestEffect
  <2>2. /\ UNCHANGED <<link, maps, cmds, answers>> /\ dirty' = dirty \cup {topic}
        /\ groups' = gs /\ items' = is /\ aliases' = as /\ First
    BY <2>1 DEF Write, connVars, First
  <2> QED
    BY <1>1, <2>1, <2>2
<1>9. ASSUME NEW g \in Builtin, EnsureBuiltin(g) PROVE FreshInv'
  BY <1>1, <1>9 DEF EnsureBuiltin, connVars, First
<1>10. CASE UNCHANGED vars
  BY <1>1, <1>10 DEF vars, connVars, storeVars, policyVars, First
<1>11. ASSUME NEW c \in Ctx, Refused(c) PROVE FreshInv'
  BY <1>11 DEF Refused, ConnectFailed, First
<1>12. CASE Restart
  BY <1>2, <1>12 DEF Restart, RestartConn, InitLink
<1>13. ASSUME NEW c \in Ctx, Lose(c) PROVE FreshInv'
  <2>1. First
    BY <1>13 DEF Lose, Break, First
  <2> QED
    BY <1>2, <1>13, <1>a, <2>1, BreakDisconnects DEF Lose
<1>14. ASSUME NEW s \in Seq(Command), First, link' = link, cmds' = Sent(s),
              UNCHANGED <<maps, answers, groups, items, aliases>>,
              "ACCESS" \notin dirty' => "ACCESS" \notin dirty \/ Asked(s, "group"),
              "ALIAS" \notin dirty' => "ALIAS" \notin dirty \/ Asked(s, "alias")
       PROVE  FreshInv'
  <2>1. cmds'[x] = k \o s
    BY <1>0, <1>14 DEF Sent
  <2>2. /\ \A op : Asked(k, op) \/ Asked(s, op) => Asked(cmds'[x], op)
        /\ \A g : ToCome(k, q, g) => ToCome(cmds'[x], q, g)
    BY <1>0, <1>14, <2>1, CommandsAdded
  <2>3. AccessAnswers' = AccessAnswers /\ AliasAnswers' = AliasAnswers
    BY <1>14, TrueAnswersKept
  <2>4. ASSUME Known("ACCESS")' PROVE AccessFresh(cmds[link.context], answers[link.context])'
    <3>1. AccessFresh(k, q) \/ Asked(s, "group")
      BY <1>14, <1>a, <2>4 DEF Known, FreshInv
    <3> QED
      BY <1>14, <2>2, <2>3, <3>1 DEF AccessFresh
  <2>5. ASSUME Known("ALIAS")' PROVE AliasFresh(cmds[link.context], answers[link.context])'
    <3>1. AliasFresh(k, q) \/ Asked(s, "alias")
      BY <1>14, <1>a, <2>5 DEF Known, FreshInv
    <3> QED
      BY <1>14, <2>2, <2>3, <3>1 DEF AliasFresh
  <2> QED
    BY <2>4, <2>5 DEF FreshInv
<1>15. CASE Redis_ConfChange_Callback
  <2>1. /\ First /\ link' = link /\ dirty' = dirty \ {Head(notes)}
        /\ UNCHANGED <<maps, answers, groups, items, aliases>>
        /\ cmds' = Sent(IF Head(notes) = "ALIAS" THEN AskAlias ELSE AskPolicy)
    BY <1>15 DEF Redis_ConfChange_Callback, UseContext, storeVars, First
  <2>2. Head(notes) \in {"ACCESS", "ALIAS"}
    <3>1. notes \in Seq({"ACCESS", "ALIAS"}) /\ notes # <<>>
      BY <1>15, <1>a DEF Redis_ConfChange_Callback, PipeInv
    <3>2. \A T : \A n \in Seq(T) : n # <<>> => Head(n) \in T
      OBVIOUS
    <3> QED
      BY <3>1, <3>2
  <2>3. CASE Head(notes) = "ALIAS"
    BY <1>14, <1>b, <2>1, <2>3
  <2>4. CASE Head(notes) # "ALIAS"
    BY <1>14, <1>b, <2>1, <2>2, <2>4
  <2> QED
    BY <2>3, <2>4
<1>16. ASSUME NEW c \in Ctx, Execute(c) PROVE FreshInv'
  <2> DEFINE a == [cmd |-> Head(cmds[c]), value |-> Value(Head(cmds[c]))]
  <2>1. /\ First /\ link' = link
        /\ UNCHANGED <<groups, items, aliases, maps, dirty>>
    BY <1>16 DEF Execute, connVars, storeVars, First
  <2>2. c = x /\ k # <<>>
    BY <1>16, <1>a, <2>1 DEF Execute, OrderInv
  <2>3. a \in Answer /\ a.cmd = Head(k) /\ a.value = Value(a.cmd)
    <3>1. Head(k) \in Command
      BY <1>0, <2>1, <2>2
    <3> QED
      BY <1>a, <2>2, <3>1, ValueIn
  <2>4. answers'[x] = Append(q, a) /\ cmds'[x] = Tail(k)
    BY <1>0, <1>16, <2>1, <2>2 DEF Execute
  <2> HIDE DEF a
  <2>5. a \in AccessAnswers /\ a \in AliasAnswers
    BY <1>a, <2>3 DEF AccessAnswers, AliasAnswers, TrueAnswers
  <2>6. AccessAnswers' = AccessAnswers /\ AliasAnswers' = AliasAnswers
    BY <2>1, TrueAnswersKept
  <2>7. /\ \A op : Asked(k, op) => Asked(Tail(k), op) \/ a.cmd.op = op
        /\ \A g : ToCome(k, q, g) => ToCome(Tail(k), Append(q, a), g)
    BY <1>0, <2>1, <2>2, <2>3, CommandExecuted
  <2>8. ASSUME NEW T, a \in T, NEW op
        PROVE  /\ TrueAfter(q, 0, T) => TrueAfter(Append(q, a), 0, T)
               /\ Told(q, op, T) \/ a.cmd.op = op => Told(Append(q, a), op, T)
    BY <1>0, <2>1, <2>3, <2>8, AnswerGiven
  <2>9. AccessFresh(k, q) => AccessFresh(cmds[link.context], answers[link.context])'
    BY <2>1, <2>4, <2>5, <2>6, <2>7, <2>8 DEF AccessFresh
  <2>10. AliasFresh(k, q) => AliasFresh(cmds[link.context], answers[link.context])'
    BY <2>1, <2>4, <2>5, <2>6, <2>7, <2>8 DEF AliasFresh
  <2> QED
    BY <1>a, <2>1, <2>9, <2>10 DEF FreshInv, Known
<1>17. ASSUME First, NEW c \in Ctx, NEW op, Answered(c, op)
       PROVE  /\ c = x /\ q[1].cmd.op = op /\ Head(q) = q[1]
              /\ q[1] \in Answer
              /\ answers'[x] = Tail(q)
              /\ \A T : /\ TrueAfter(q, 0, T) => q[1] \in T /\ TrueAfter(Tail(q), 0, T)
                        /\ \A o : Told(q, o, T) => \/ Told(Tail(q), o, T)
                                                   \/ o = op /\ TrueAfter(q, 0, T)
              /\ \A g : ToCome(k, q, g) => ToCome(k, Tail(q), g) \/ q[1].cmd = Ask("item", g)
  <2>1. /\ answers[c] # <<>> /\ Head(answers[c]).cmd.op = op
        /\ answers' = [answers EXCEPT ![c] = Tail(@)]
    BY <1>17 DEF Answered
  <2>2. c = x
    BY <1>17, <1>a, <2>1 DEF OrderInv
  <2>3. q \in Seq(Answer) /\ q # <<>> /\ Head(q) = q[1] /\ answers'[x] = Tail(q)
    BY <1>0, <1>17, <2>1, <2>2
  <2>4. q[1] \in Answer
    BY <2>3
  <2>5. ASSUME NEW T, NEW o
        PROVE  /\ TrueAfter(q, 0, T) => q[1] \in T /\ TrueAfter(Tail(q), 0, T)
               /\ Told(q, o, T) => \/ Told(Tail(q), o, T)
                                   \/ q[1].cmd.op = o /\ TrueAfter(q, 0, T)
    BY <2>3, AnswerTaken
  <2>6. \A g : ToCome(k, q, g) => ToCome(k, Tail(q), g) \/ q[1].cmd = Ask("item", g)
    BY <2>3, AnswerTaken
  <2> QED
    BY <2>1, <2>2, <2>3, <2>4, <2>5, <2>6
<1>18. /\ AccessAnswers \subseteq {a \in [cmd : Command, value : Content] :
                                     a.cmd.op \in {"group", "item"} => a.value = Value(a.cmd)}
       /\ AliasAnswers \subseteq {a \in [cmd : Command, value : Content] :
                                    a.cmd.op = "alias" => a.value = Value(a.cmd)}
  BY DEF AccessAnswers, AliasAnswers, TrueAnswers
<1>19. ASSUME NEW c \in Ctx, Redis_Update_Alias_Rule_Callback(c) PROVE FreshInv'
  <2>0. First /\ Answered(c, "alias")
    BY <1>19 DEF Redis_Update_Alias_Rule_Callback, connVars, First
  <2>1. Answered(c, "alias")
    BY <2>0
  <2>2. /\ UNCHANGED <<link, groups, items, aliases, cmds, dirty>>
        /\ maps'.aliases = q[1].value /\ maps'.groups = maps.groups /\ maps'.items = maps.items
    BY <1>17, <1>19, <1>a, <2>0 DEF Redis_Update_Alias_Rule_Callback, connVars, storeVars, MapsInv, MapsType
  <2>3. AccessAnswers' = AccessAnswers /\ AliasAnswers' = AliasAnswers
    BY <2>2, TrueAnswersKept
  <2>4. AccessFresh(k, q) => AccessFresh(cmds[link.context], answers[link.context])'
    <3>0. q[1].cmd.op = "alias"
      BY <1>17, <2>0, <2>1
    <3>1. \A g : q[1].cmd # Ask("item", g)
      BY <3>0 DEF Ask
    <3>2. Told(q, "group", AccessAnswers) => Told(Tail(q), "group", AccessAnswers)
      BY <1>17, <2>0, <2>1
    <3> QED
      BY <1>17, <2>0, <2>1, <2>2, <2>3, <3>1, <3>2 DEF AccessFresh
  <2>5. AliasFresh(k, q) => AliasFresh(cmds[link.context], answers[link.context])'
    <3>1. q[1] \in AliasAnswers => q[1].value = aliases
      BY <1>17, <1>18, <2>0, <2>1 DEF Value
    <3> QED
      BY <1>17, <2>0, <2>1, <2>2, <2>3, <3>1 DEF AliasFresh
  <2> QED
    BY <1>a, <2>0, <2>2, <2>4, <2>5 DEF FreshInv, Known
<1>20. ASSUME NEW c \in Ctx, Redis_Update_Access_Item_Callback(c) PROVE FreshInv'
  <2> DEFINE h == q[1].cmd.group
  <2>0. First /\ Answered(c, "item")
    BY <1>20 DEF Redis_Update_Access_Item_Callback, connVars, First
  <2>1. Answered(c, "item")
    BY <2>0
  <2>2. h \in Group /\ q[1].cmd = Ask("item", h)
    BY <1>17, <1>a, <2>0, <2>1 DEF Command, Ask
  <2>3. /\ UNCHANGED <<link, groups, items, aliases, cmds, dirty>>
        /\ maps' = [maps EXCEPT !.items[h] = q[1].value]
    BY <1>17, <1>20, <2>0 DEF Redis_Update_Access_Item_Callback, connVars, storeVars
  <2>4. /\ maps'.groups = maps.groups /\ maps'.aliases = maps.aliases
        /\ \A g \in Group : maps'.items[g] = IF g = h THEN q[1].value ELSE maps.items[g]
    BY <1>a, <2>2, <2>3 DEF MapsInv, MapsType
  <2>5. AccessAnswers' = AccessAnswers /\ AliasAnswers' = AliasAnswers
    BY <2>3, TrueAnswersKept
  <2>6. AccessFresh(k, q) => AccessFresh(cmds[link.context], answers[link.context])'
    <3>1. q[1] \in AccessAnswers => q[1].value = items[h]
      BY <1>17, <1>18, <2>0, <2>1 DEF Value
    <3>2. Told(q, "group", AccessAnswers) => Told(Tail(q), "group", AccessAnswers)
      BY <1>17, <2>0, <2>1
    <3>3. \A g : q[1].cmd = Ask("item", g) => g = h
      BY <2>2 DEF Ask
    <3> QED
      BY <1>17, <2>0, <2>1, <2>3, <2>4, <2>5, <3>1, <3>2, <3>3 DEF AccessFresh
  <2>7. AliasFresh(k, q) => AliasFresh(cmds[link.context], answers[link.context])'
    <3>1. Told(q, "alias", AliasAnswers) => Told(Tail(q), "alias", AliasAnswers)
      BY <1>17, <2>0, <2>1
    <3> QED
      BY <1>17, <2>0, <2>1, <2>3, <2>4, <2>5, <3>1 DEF AliasFresh
  <2> QED
    BY <1>a, <2>0, <2>3, <2>6, <2>7 DEF FreshInv, Known
<1>21. ASSUME NEW c \in Ctx, Redis_Update_Access_Group_Callback(c) PROVE FreshInv'
  <2> DEFINE new == q[1].value  ask == AskItems(maps.groups, new)
  <2>0. First /\ link' = link
    BY <1>21, GroupCallbackConn
  <2>1. Answered(c, "group")
    BY <1>21 DEF Redis_Update_Access_Group_Callback
  <2>2. new \in GroupsType
    BY <1>17, <2>0, <2>1 DEF Answer
  <2>3. /\ UNCHANGED <<groups, items, aliases, dirty>>
        /\ cmds' = Sent(ask)
        /\ maps'.groups = new /\ maps'.aliases = maps.aliases
    BY <1>17, <1>21, <1>a, <2>0, <2>1
       DEF Redis_Update_Access_Group_Callback, storeVars, MapsInv, MapsType
  <2>4. /\ ask \in Seq(Command)
        /\ \A g \in Group : new[g] # None => \E i \in 1 .. Len(ask) : ask[i] = Ask("item", g)
    BY <2>2, AskItemsEffect
  <2>5. AccessAnswers' = AccessAnswers /\ AliasAnswers' = AliasAnswers
    BY <2>3, TrueAnswersKept
  <2>6. q[1] \in AccessAnswers => new = groups
    BY <1>17, <1>18, <2>0, <2>1 DEF Value
  <2> HIDE DEF new, ask
  <2>7. cmds'[x] = k \o ask
    BY <1>0, <2>0, <2>3 DEF Sent
  <2>8. /\ \A op : Asked(k, op) => Asked(cmds'[x], op)
        /\ \A g \in Group : new[g] # None => ToCome(cmds'[x], Tail(q), g)
    BY <1>0, <2>0, <2>4, <2>7, CommandsAdded
  <2>9. AccessFresh(k, q) => AccessFresh(cmds[link.context], answers[link.context])'
    <3>1. TrueAfter(q, 0, AccessAnswers) => AccessFresh(cmds[link.context], answers[link.context])'
      BY <1>17, <2>0, <2>1, <2>3, <2>5, <2>6, <2>8 DEF AccessFresh
    <3>2. Told(q, "group", AccessAnswers) =>
            Told(Tail(q), "group", AccessAnswers) \/ TrueAfter(q, 0, AccessAnswers)
      BY <1>17, <2>0, <2>1
    <3> QED
      BY <1>17, <2>0, <2>1, <2>3, <2>5, <2>8, <3>1, <3>2 DEF AccessFresh
  <2>10. AliasFresh(k, q) => AliasFresh(cmds[link.context], answers[link.context])'
    <3>1. Told(q, "alias", AliasAnswers) => Told(Tail(q), "alias", AliasAnswers)
      BY <1>17, <2>0, <2>1
    <3> QED
      BY <1>17, <2>0, <2>1, <2>3, <2>5, <2>8, <3>1 DEF AliasFresh
  <2> QED
    BY <1>a, <2>0, <2>3, <2>9, <2>10 DEF FreshInv, Known
<1>22. ASSUME NEW c \in Ctx, Pong(c) PROVE FreshInv'
  <2>1. Answered(c, "ping")
    BY <1>22 DEF Pong
  <2>2. First /\ link'.context = x /\ link'.connected = link.connected
    BY <1>22, <1>a, SameContext DEF Pong
  <2>3. UNCHANGED <<groups, items, aliases, maps, cmds, dirty>>
    BY <1>22 DEF Pong, storeVars
  <2>4. AccessAnswers' = AccessAnswers /\ AliasAnswers' = AliasAnswers
    BY <2>3, TrueAnswersKept
  <2>5. /\ answers'[x] = Tail(q)
        /\ \A T : /\ TrueAfter(q, 0, T) => TrueAfter(Tail(q), 0, T)
                  /\ \A o \in {"group", "alias"} : Told(q, o, T) => Told(Tail(q), o, T)
    BY <1>17, <2>1, <2>2
  <2>6. \A g : ToCome(k, q, g) => ToCome(k, Tail(q), g)
    <3>0. q[1].cmd.op = "ping"
      BY <1>17, <2>1, <2>2
    <3>1. \A g : q[1].cmd # Ask("item", g)
      BY <3>0 DEF Ask
    <3> QED
      BY <1>17, <2>1, <2>2, <3>1
  <2>7. AccessFresh(k, q) => AccessFresh(cmds[link.context], answers[link.context])'
    BY <2>2, <2>3, <2>4, <2>5, <2>6 DEF AccessFresh
  <2>8. AliasFresh(k, q) => AliasFresh(cmds[link.context], answers[link.context])'
    BY <2>2, <2>3, <2>4, <2>5 DEF AliasFresh
  <2> QED
    BY <1>a, <2>2, <2>3, <2>7, <2>8 DEF FreshInv, Known
<1> QED
  BY <1>4, <1>5, <1>6, <1>7, <1>8, <1>9, <1>10, <1>11, <1>12, <1>13, <1>15, <1>16, <1>19, <1>20, <1>21, <1>22
     DEF Next, Callbacks

-----------------------------------------------------------------------------
(* The invariant, always.                                                  *)

\* It holds at first: nothing is under way, and nothing was asked for.
LEMMA AccInvInit == Init => AccInv
<1> SUFFICES ASSUME Init PROVE AccInv
  OBVIOUS
<1>1. ConnInv
  BY ConnInvInit DEF Init
<1>2. StoreInv
  <2>1. PICK old \in SUBSET Edited, p \in Policy, i \in ItemContent :
          /\ groups = [g \in Group |-> IF old # {} /\ g \in Builtin THEN OpenPolicy
                                       ELSE IF g \in old THEN p ELSE None]
          /\ items = [g \in Group |-> IF g \in old THEN [m \in Mount |-> i] ELSE NoItems]
    BY DEF Init
  <2>2. p \in PolicyType /\ OpenPolicy \in PolicyType /\ i \in Item
    BY PolicyAssumption
  <2>3. groups \in GroupsType
    BY <2>1, <2>2 DEF GroupsType
  <2>4. NoItems \in ItemsType /\ [m \in Mount |-> i] \in ItemsType
    BY <2>2 DEF NoItems, ItemsType
  <2>5. items \in [Group -> ItemsType]
    BY <2>1, <2>4
  <2>6. aliases \in Aliases /\ api = "default"
    BY DEF Init
  <2> QED
    BY <2>3, <2>5, <2>6 DEF StoreInv, Builtin
<1>3. MapsInv
  BY DEF Init, MapsInv, MapsType, GroupsType, NoMaps
<1>4. /\ cmds = [c \in Ctx |-> <<>>] /\ answers = [c \in Ctx |-> <<>>]
      /\ notes = <<>> /\ dirty = {"ACCESS", "ALIAS"} /\ ~loaded /\ loaded \in BOOLEAN
  BY DEF Init
<1>5. PipeInv
  <2>1. \A S : [c \in Ctx |-> <<>>] \in [Ctx -> Seq(S)]
    BY Pipelines
  <2>2. notes \in Seq({"ACCESS", "ALIAS"})
    BY <1>4
  <2> QED
    BY <1>4, <2>1, <2>2 DEF PipeInv
<1>6. OrderInv
  <2> SUFFICES ASSUME First PROVE OrderInv
    BY DEF OrderInv
  <2>1. link.context \in Ctx
    BY <1>1 DEF ConnInv, OnlyOne
  <2>2. answers[link.context] = <<>>
    BY <1>4, <2>1
  <2> QED
    BY <1>4, <2>1, <2>2 DEF OrderInv, FullFrom
<1>7. FreshInv
  BY <1>4 DEF FreshInv, Known
<1> QED
  BY <1>1, <1>2, <1>3, <1>5, <1>6, <1>7 DEF AccInv

\* The invariant of the following theorems.
LEMMA AccInvAlways == Spec => []AccInv
<1>1. AccInv /\ [Next]_vars => AccInv'
  <2> SUFFICES ASSUME AccInv, [Next]_vars PROVE AccInv'
    OBVIOUS
  <2> USE DEF AccInv
  <2>1. ConnInv'
    BY ConnKept, ConnInvStep
  <2>2. StoreInv'
    BY StoreStep
  <2>3. MapsInv'
    BY MapsStep
  <2>4. PipeInv'
    BY PipeStep
  <2>5. OrderInv'
    BY OrderStep
  <2>6. FreshInv'
    BY FreshStep
  <2> QED
    BY <2>1, <2>2, <2>3, <2>4, <2>5, <2>6
<1> QED
  BY <1>1, AccInvInit, PTL DEF Spec

-----------------------------------------------------------------------------

\* The store, the maps and the pipelines keep their types, whatever is lost or
\* given up: no answer ever meets a callback of another kind.
THEOREM PolicyTypeCorrect == Spec => []TypeOK
<1>1. AccInv => TypeOK
  <2> SUFFICES ASSUME AccInv PROVE TypeOK
    OBVIOUS
  <2> USE DEF AccInv
  <2>1. ConnTypeOK
    BY DEF ConnInv
  <2> QED
    BY <2>1 DEF TypeOK, StoreInv, MapsInv, MapsType, PipeInv, GroupsType, ItemsType
<1> QED
  BY <1>1, AccInvAlways, PTL

\* The refills do with the connection only what RedisConn says: every step of
\* this module is one of the connection, or leaves it alone, so what is proved of
\* the connection alone holds while callbacks send commands of their own.
THEOREM ImplementsConn == Spec => ConnSpec
<1>1. Init => ConnInit
  BY DEF Init
<1>2. [Next]_vars => [ConnNext]_connVars
  BY ConnKept
<1> QED
  BY <1>1, <1>2, PTL DEF Spec, ConnSpec

\* With refills under way, too, the first context that a process gives up has left
\* more than PingLimit of its own pings unanswered.
THEOREM AnsweringIsKeptHeld == Spec => AnsweringIsKept
BY ImplementsConn, AnsweringIsKeptAlways

\* Once loaded, a node never takes its maps for "no policy", which allows all; and
\* whatever an item denies is denied again as soon as no answer about its group is
\* under way, however refills overlapped and whatever a lost connection left half
\* done, unless the access rules were edited since the node last asked.
THEOREM DenialsReturnAlways == Spec => []DenialsReturn
<1>1. AccInv => DenialsReturn
  <2> SUFFICES ASSUME AccInv, First, loaded
               PROVE  /\ ~Empty(maps)
                      /\ link.connected /\ "ACCESS" \notin dirty =>
                           \A g \in Group \ {"SYSTEM"}, m \in Mount, a \in Aspect :
                             /\ groups[g] # None /\ items[g][m] # None /\ items[g][m][a] = "disable"
                             /\ ~Refilling(g)
                             => check_mount(maps, a, g, m) = {FALSE}
    BY DEF DenialsReturn, First
  <2>1. ~Empty(maps)
    BY DEF AccInv, OrderInv, Full, Empty, Groups
  <2> SUFFICES ASSUME link.connected, "ACCESS" \notin dirty,
                      NEW g \in Group \ {"SYSTEM"}, NEW m \in Mount, NEW a \in Aspect,
                      groups[g] # None, items[g][m] # None, items[g][m][a] = "disable",
                      ~Refilling(g)
               PROVE  check_mount(maps, a, g, m) = {FALSE}
    BY <2>1
  <2> DEFINE x == link.context  k == cmds[x]  q == answers[x]
  <2>2. x \in Ctx /\ k \in Seq(Command) /\ q \in Seq(Answer) /\ items[g] \in ItemsType
    BY DEF AccInv, ConnInv, OnlyOne, PipeInv, StoreInv
  <2>3. /\ \A i \in 1 .. Len(k) : k[i] \notin {Ask("group", None), Ask("item", g)}
        /\ \A i \in 1 .. Len(q) : q[i].cmd \notin {Ask("group", None), Ask("item", g)}
    <3>1. Waits(x) \cap {Ask("group", None), Ask("item", g)} = {}
      BY <2>2 DEF Refilling
    <3>2. DOMAIN k = 1 .. Len(k) /\ DOMAIN q = 1 .. Len(q)
      BY <2>2
    <3> QED
      BY <3>1, <3>2 DEF Waits
  <2>4. \A cmd \in Command : cmd.op = "group" => cmd = Ask("group", None)
    BY DEF Command, Ask
  <2>5. ~Asked(k, "group")
    BY <2>2, <2>3, <2>4 DEF Asked
  <2>6. ~Told(q, "group", AccessAnswers)
    <3>1. \A i \in 1 .. Len(q) : q[i].cmd \in Command
      BY <2>2 DEF Answer
    <3> QED
      BY <2>3, <2>4, <3>1 DEF Told
  <2>7. ~ToCome(k, q, g)
    BY <2>3 DEF ToCome
  <2>8. AccessFresh(k, q)
    BY DEF AccInv, FreshInv, Known
  <2>9. maps.groups = groups /\ maps.items[g] = items[g]
    BY <2>5, <2>6, <2>7, <2>8 DEF AccessFresh
  <2>10. ItemOf(maps, g, m) = items[g][m]
    BY <2>2, <2>9, PolicyAssumption DEF ItemOf, ItemsType
  <2> QED
    BY <2>1, <2>9, <2>10 DEF check_mount
<1> QED
  BY <1>1, AccInvAlways, PTL

\* However refills overlapped, and whichever of their answers were lost with a
\* connection: when every answer has arrived, and nothing was edited since the
\* node last asked, it decides by what the store says.
THEOREM SettledIsExactAlways == Spec => []SettledIsExact
<1>1. AccInv => SettledIsExact
  <2> SUFFICES ASSUME AccInv, First, link.connected, dirty = {},
                      \A c \in Ctx : cmds[c] = <<>> /\ answers[c] = <<>>
               PROVE  Exact
    BY DEF SettledIsExact, First
  <2>1. link.context \in Ctx
    BY DEF AccInv, ConnInv, OnlyOne
  <2>2. cmds[link.context] = <<>> /\ answers[link.context] = <<>>
    BY <2>1
  <2>3. AccessFresh(<<>>, <<>>) /\ AliasFresh(<<>>, <<>>)
    BY <2>2 DEF AccInv, FreshInv, Known
  <2>4. /\ \A op : ~Asked(<<>>, op) /\ \A T : ~Told(<<>>, op, T)
        /\ \A g : ~ToCome(<<>>, <<>>, g)
    BY DEF Asked, Told, ToCome
  <2>5. maps.groups = groups /\ \A g \in Group : groups[g] # None => maps.items[g] = items[g]
    BY <2>3, <2>4 DEF AccessFresh
  <2>6. maps.aliases = aliases
    BY <2>3, <2>4 DEF AliasFresh
  <2> QED
    BY <2>5, <2>6 DEF Exact, Groups
<1> QED
  BY <1>1, AccInvAlways, PTL

=============================================================================
