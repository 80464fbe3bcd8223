--------------------------- MODULE ConnHistoryProofs ---------------------------
(***************************************************************************)
(* The history of connections: as long as the expiry covers the time       *)
(* between two renewals that arrive and the difference of the clocks, no   *)
(* record is closed too early, wrongly, twice, or not at all.              *)
(***************************************************************************)
EXTENDS ConnHistory, TLAPS

\* What a renewal that is late, and l renewals that are lost, add to a record's age.
Gap == Beat + MaxDelay
Slack(l) == l * Gap

\* What the record says of the time at which its session was last there.
End(r) == IF r.disconnect_time = Open THEN r.last_update ELSE r.disconnect_time

HistTypes ==
    /\ now \in Nat \ {0} /\ lost \in 0..MaxLost
    /\ proc \in [Node -> {"down", "cleaning", "up"}]
    /\ timer \in [Node -> Int]
    /\ \A n \in Node : timer[n] \in -MaxDelay..Beat
    /\ owner \in [Session -> Node \cup {None}]
    /\ entry \in [Session -> Record \cup {None}] /\ log \in [Session -> Record \cup {None}]
    /\ sent \in [Session -> Seq(Record)]
    /\ began \in [Node -> Nat] /\ todo \in [Node -> SUBSET Session]
    /\ found \in [Node -> [session : Session, record : Record] \cup {None}]
    /\ left \in [Session -> Nat]

\* A session that nobody has seen has no record anywhere.
NewInv(s) == owner[s] = None => entry[s] = None /\ sent[s] = <<>> /\ log[s] = None

\* What is under way was sent in this unit of time; the closing record is the last.
SentInv(s) ==
    /\ \A i \in 1 .. Len(sent[s]) :
         /\ sent[s][i].last_update = Clock(owner[s])
         /\ i < Len(sent[s]) => sent[s][i].disconnect_time = Open
         /\ sent[s][i].disconnect_time # Open =>
              /\ entry[s] = None
              /\ sent[s][i].disconnect_time = left[s]
    /\ log[s] # None =>
         /\ log[s].last_update > 0
         /\ sent[s] # <<>> => log[s].disconnect_time = Open

\* The age of the record of a session that is online: renewals are late, or lost.
LeaseInv(s) == entry[s] # None =>
    /\ proc[owner[s]] = "up"
    /\ entry[s].disconnect_time = Open
    /\ log[s] # None =>
         /\ log[s].disconnect_time = Open
         /\ Clock(owner[s]) - log[s].last_update >= 0
         /\ Clock(owner[s]) - log[s].last_update
              <= (IF sent[s] = <<>> THEN Beat - timer[owner[s]] ELSE Gap) + Slack(lost)

\* The record of a session that has left.
LeftInv(s) == owner[s] # None /\ entry[s] = None =>
    /\ sent[s] # <<>> => left[s] = Clock(owner[s])
    /\ log[s] # None => left[s] - End(log[s]) \in 0..Renewal

\* What a cleanup has found stale has left for good.
FoundInv(n) == found[n] # None =>
    /\ proc[n] = "cleaning"
    /\ owner[found[n].session] # None
    /\ entry[found[n].session] = None /\ sent[found[n].session] = <<>>
    /\ found[n].record.disconnect_time = Open
    /\ log[found[n].session] \in {found[n].record, Closed(n, found[n].record)}

\* What a cleanup is done with is not stale.
DoneInv(n) == proc[n] = "cleaning" =>
    /\ began[n] <= Clock(n)
    /\ \A s \in Session \ todo[n] :
         /\ log[s] # None /\ log[s].disconnect_time = Open
         /\ found[n] # None => found[n].session # s
         => began[n] - log[s].last_update <= Expire

SessionInv(s) == NewInv(s) /\ SentInv(s) /\ LeaseInv(s) /\ LeftInv(s)
HistInv ==
    /\ HistTypes
    /\ \A s \in Session : SessionInv(s)
    /\ \A n \in Node : FoundInv(n) /\ DoneInv(n)

-----------------------------------------------------------------------------

\* What lost renewals add up to.
LEMMA Losses == ASSUME NEW l \in 0..MaxLost
                PROVE  /\ Gap \in Nat /\ Slack(l) \in Nat /\ Renewal \in Nat
                       /\ Slack(l + 1) = Slack(l) + Gap
                       /\ Gap + Slack(l) <= Renewal
<1> DEFINE d == MaxLost - l
<1>1. Gap \in Nat /\ MaxLost \in Nat /\ d \in Nat
  BY TimesAssumption DEF Gap
<1>2. /\ l * Gap \in Nat /\ d * Gap \in Nat
      /\ (l + 1) * Gap = l * Gap + Gap
  BY <1>1
<1>3. (MaxLost + 1) * Gap = (l + 1) * Gap + d * Gap
  BY <1>1
<1>4. Renewal = (MaxLost + 1) * Gap
  BY DEF Renewal, Gap
<1> HIDE DEF d
<1> QED
  BY <1>1, <1>2, <1>3, <1>4 DEF Slack

\* The clock of a node.
LEMMA Clocks == ASSUME HistTypes, NEW n \in Node
                PROVE  /\ Clock(n) \in Nat /\ Clock(n) > 0
                       /\ now <= Clock(n) /\ Clock(n) <= now + MaxSkew
BY TimesAssumption DEF HistTypes, Clock

\* Each step keeps the types.
LEMMA TypesStep == ASSUME HistTypes, \A s \in Session : entry[s] # None => owner[s] # None,
                          [HistNext]_histVars
                   PROVE  HistTypes'
<1> USE DEF HistTypes
<1>0. None \notin Record /\ None \notin Node
  BY TimesAssumption, NoneAssumption
<1>a. ASSUME NEW n \in Node, NEW t \in Nat
      PROVE  [last_update |-> Clock(n), disconnect_time |-> t] \in Record
  BY <1>a, Clocks DEF Record
<1>1. CASE Tick
  BY <1>1, TimesAssumption DEF Tick
<1>2. ASSUME NEW n \in Node, NEW S \in SUBSET Session, Close(n, S)
      PROVE  /\ entry' \in [Session -> Record \cup {None}]
             /\ sent' \in [Session -> Seq(Record)] /\ left' \in [Session -> Nat]
  <2> DEFINE r == [last_update |-> Clock(n), disconnect_time |-> Clock(n)]
  <2>1. r \in Record /\ Clock(n) \in Nat
    BY <1>a, Clocks
  <2>2. /\ left' = [s \in Session |-> IF s \in S THEN Clock(n) ELSE left[s]]
        /\ sent' = [s \in Session |-> IF s \in S THEN Append(sent[s], r) ELSE sent[s]]
        /\ entry' = [s \in Session |-> IF s \in S THEN None ELSE entry[s]]
    BY <1>2 DEF Close
  <2> HIDE DEF r
  <2>3. \A s \in Session : Append(sent[s], r) \in Seq(Record)
    BY <2>1
  <2> QED
    BY <2>1, <2>2, <2>3
<1>3. ASSUME NEW s \in Session, Withdraw(s) PROVE HistTypes'
  <2>1. owner[s] \in Node
    BY <1>3 DEF Withdraw
  <2> QED
    BY <1>2, <1>3, <2>1 DEF Withdraw
<1>4. ASSUME NEW s \in Session, Execute(s) PROVE HistTypes'
  <2>1. Head(sent[s]) \in Record /\ Tail(sent[s]) \in Seq(Record)
    BY <1>4 DEF Execute
  <2> QED
    BY <1>4, <2>1 DEF Execute
<1>5. ASSUME NEW n \in Node, stop(n) PROVE HistTypes'
  <2>1. Sessions(n) \in SUBSET Session
    BY DEF Sessions
  <2> QED
    BY <1>2, <1>5, <2>1, TimesAssumption DEF stop
<1>14. ASSUME NEW n \in Node, upload_record_item(n) PROVE HistTypes'
  <2> DEFINE r(s) == [entry[s] EXCEPT !.last_update = Clock(n)]
  <2>1. \A s \in Sessions(n) : r(s) \in Record
    BY Clocks DEF Record, Sessions
  <2>2. \A s \in Sessions(n) : Append(sent[s], r(s)) \in Seq(Record)
    <3> SUFFICES ASSUME NEW s \in Sessions(n) PROVE Append(sent[s], r(s)) \in Seq(Record)
      OBVIOUS
    <3>1. sent[s] \in Seq(Record) /\ r(s) \in Record
      BY <2>1 DEF Sessions
    <3> HIDE DEF r
    <3> QED
      BY <3>1
  <2> HIDE DEF r
  <2>3. /\ entry' = [s \in Session |-> IF s \in Sessions(n) THEN r(s) ELSE entry[s]]
        /\ sent' = [s \in Session |-> IF s \in Sessions(n) THEN Append(sent[s], r(s)) ELSE sent[s]]
    BY <1>14 DEF upload_record_item, r
  <2>4. /\ entry' \in [Session -> Record \cup {None}]
        /\ sent' \in [Session -> Seq(Record)]
    BY <2>1, <2>2, <2>3
  <2>5. timer' \in [Node -> Int] /\ \A k \in Node : timer'[k] \in -MaxDelay..Beat
    <3>1. Beat \in -MaxDelay..Beat /\ Beat \in Int
      BY TimesAssumption
    <3> QED
      BY <1>14, <3>1 DEF upload_record_item, Period
  <2> QED
    BY <1>14, <2>4, <2>5 DEF upload_record_item
<1>6. ASSUME NEW n \in Node, Crash(n) PROVE HistTypes'
  <2>1. /\ Clock(n) \in Nat /\ 0 \in -MaxDelay..Beat
        /\ Sessions(n) \in SUBSET Session
    <3>1. 0 \in -MaxDelay..Beat
      BY TimesAssumption
    <3> QED
      BY <3>1, Clocks DEF Sessions
  <2>2. entry' \in [Session -> Record \cup {None}] /\ left' \in [Session -> Nat]
    BY <1>6, <2>1 DEF Crash
  <2>3. /\ timer' \in [Node -> Int] /\ \A k \in Node : timer'[k] \in -MaxDelay..Beat
        /\ proc' \in [Node -> {"down", "cleaning", "up"}]
        /\ found' \in [Node -> [session : Session, record : Record] \cup {None}]
        /\ began' \in [Node -> Nat] /\ todo' \in [Node -> SUBSET Session]
    BY <1>6, <2>1 DEF Crash
  <2> QED
    BY <1>6, <2>2, <2>3 DEF Crash
<1>7. ASSUME NEW n \in Node, Lose(n) PROVE HistTypes'
  <2>1. sent' \in [Session -> Seq(Record)]
    BY <1>7 DEF Lose
  <2>2. lost' \in 0..MaxLost
    BY <1>7, TimesAssumption DEF Lose
  <2> QED
    BY <1>7, <2>1, <2>2 DEF Lose
<1>8. ASSUME NEW n \in Node, Start(n) PROVE HistTypes'
  BY <1>8, Clocks DEF Start
<1>9. ASSUME NEW n \in Node, HSET(n) PROVE HistTypes'
  <2>1. found[n].session \in Session /\ found[n].record \in Record
    BY <1>9 DEF HSET
  <2>2. Closed(n, found[n].record) \in Record
    BY <2>1 DEF Closed, Record
  <2> QED
    BY <1>9, <2>1, <2>2 DEF HSET
<1>10. ASSUME NEW n \in Node, Started(n) PROVE HistTypes'
  <2>1. Beat \in -MaxDelay..Beat /\ Beat \in Int
    BY TimesAssumption
  <2>2. timer' \in [Node -> Int] /\ \A k \in Node : timer'[k] \in -MaxDelay..Beat
    BY <1>10, <2>1 DEF Started, Period
  <2> QED
    BY <1>10, <2>2 DEF Started
<1>11. ASSUME NEW n \in Node, NEW s \in Session, Register(n, s) PROVE HistTypes'
  <2> DEFINE r == [last_update |-> Clock(n), disconnect_time |-> Open]
  <2>1. r \in Record
    BY <1>a DEF Open
  <2>2. /\ entry' = [entry EXCEPT ![s] = r]
        /\ sent' = [sent EXCEPT ![s] = Append(@, r)]
    BY <1>11 DEF Register
  <2> HIDE DEF r
  <2>3. Append(sent[s], r) \in Seq(Record)
    BY <2>1
  <2> QED
    BY <1>11, <2>1, <2>2, <2>3 DEF Register
<1>12. ASSUME NEW n \in Node, NEW s \in Session, HGETALL(n, s) PROVE HistTypes'
  BY <1>12 DEF HGETALL, Stale, IsOpen
<1>13. CASE UNCHANGED histVars
  BY <1>13 DEF histVars
<1> QED
  BY <1>1, <1>3, <1>4, <1>5, <1>6, <1>7, <1>8, <1>9, <1>10, <1>11, <1>12, <1>13, <1>14 DEF HistNext

-----------------------------------------------------------------------------
(* A step, seen by one session.                                            *)

\* Nothing of the session changes.
LEMMA Frame ==
    ASSUME HistTypes, NEW s \in Session, SessionInv(s), lost' \in 0..MaxLost, lost' \in {lost, lost + 1},
           now' = now, sent'[s] = sent[s], entry'[s] = entry[s], log'[s] = log[s],
           owner'[s] = owner[s], left'[s] = left[s],
           entry[s] # None => /\ proc'[owner[s]] = proc[owner[s]]
                              /\ timer'[owner[s]] = timer[owner[s]]
    PROVE  SessionInv(s)'
<1>1. Slack(lost) <= Slack(lost')
  BY Losses DEF HistTypes
<1>2. NewInv(s)' /\ SentInv(s)' /\ LeftInv(s)'
  BY DEF SessionInv, NewInv, SentInv, LeftInv, Clock, End
<1>3. LeaseInv(s)'
  <2> SUFFICES ASSUME entry[s] # None PROVE LeaseInv(s)'
    BY DEF LeaseInv
  <2>1. owner[s] \in Node /\ Slack(lost) \in Nat /\ Slack(lost') \in Nat
        /\ Clock(owner[s]) \in Nat /\ timer[owner[s]] \in Int /\ Gap \in Nat
        /\ (log[s] # None => log[s].last_update \in Nat) /\ Beat \in Nat
    BY Losses, Clocks, TimesAssumption DEF HistTypes, SessionInv, NewInv, Record
  <2>2. /\ proc[owner[s]] = "up" /\ entry[s].disconnect_time = Open
        /\ log[s] # None =>
             /\ log[s].disconnect_time = Open
             /\ Clock(owner[s]) - log[s].last_update >= 0
             /\ Clock(owner[s]) - log[s].last_update
                  <= (IF sent[s] = <<>> THEN Beat - timer[owner[s]] ELSE Gap) + Slack(lost)
    BY DEF SessionInv, LeaseInv
  <2>3. Clock(owner[s])' = Clock(owner[s])
    BY DEF Clock
  <2>4. (IF sent[s] = <<>> THEN Beat - timer[owner[s]] ELSE Gap) \in Int
    BY <2>1
  <2>5. log[s] # None => Clock(owner[s]) - log[s].last_update
                           <= (IF sent[s] = <<>> THEN Beat - timer[owner[s]] ELSE Gap) + Slack(lost')
    <3> DEFINE b == IF sent[s] = <<>> THEN Beat - timer[owner[s]] ELSE Gap
               age == Clock(owner[s]) - log[s].last_update
    <3>1. log[s] # None => age \in Int /\ age <= b + Slack(lost)
      BY <2>1, <2>2
    <3>2. b \in Int
      BY <2>4
    <3> HIDE DEF b, age
    <3>3. log[s] # None => age <= b + Slack(lost')
      BY <1>1, <2>1, <3>1, <3>2
    <3> QED
      BY <3>3 DEF b, age
  <2> QED
    BY <2>2, <2>3, <2>5 DEF LeaseInv
<1> QED
  BY <1>2, <1>3 DEF SessionInv

\* The session leaves: its record is closed and sent.
LEMMA Leave ==
    ASSUME HistTypes, NEW s \in Session, SessionInv(s), entry[s] # None,
           now' = now, log'[s] = log[s], owner'[s] = owner[s], entry'[s] = None,
           left'[s] = Clock(owner[s]),
           sent'[s] = sent[s] \/ sent'[s] = Append(sent[s],
                  [last_update |-> Clock(owner[s]), disconnect_time |-> Clock(owner[s])])
    PROVE  SessionInv(s)'
<1> DEFINE r == [last_update |-> Clock(owner[s]), disconnect_time |-> Clock(owner[s])]
<1>1. /\ owner[s] \in Node /\ Clock(owner[s]) \in Nat /\ Clock(owner[s]) > 0
      /\ sent[s] \in Seq(Record)
  BY Clocks DEF HistTypes, SessionInv, NewInv
<1>2. r \in Record
  BY <1>1 DEF Record
<1>3. Clock(owner[s])' = Clock(owner[s])
  BY DEF Clock
<1>4. NewInv(s)'
  BY <1>1, TimesAssumption DEF NewInv
<1>5. SentInv(s)'
  <2>1. log'[s] # None => log'[s].last_update > 0 /\ log'[s].disconnect_time = Open
    BY DEF SessionInv, SentInv, LeaseInv
  <2>2. \A i \in 1 .. Len(sent[s]) :
          sent[s][i].last_update = Clock(owner[s]) /\ sent[s][i].disconnect_time = Open
    BY DEF SessionInv, SentInv
  <2>3. CASE sent'[s] = sent[s]
    BY <1>3, <2>1, <2>2, <2>3 DEF SentInv
  <2>4. CASE sent'[s] = Append(sent[s], r)
    <3> HIDE DEF r
    <3>1. /\ Len(sent'[s]) = Len(sent[s]) + 1 /\ Len(sent[s]) \in Nat
          /\ sent'[s][Len(sent[s]) + 1] = r
          /\ \A i \in 1 .. Len(sent[s]) : sent'[s][i] = sent[s][i]
      BY <1>1, <1>2, <2>4
    <3>2. \A i \in 1 .. Len(sent'[s]) : i = Len(sent[s]) + 1 \/ i \in 1 .. Len(sent[s])
      BY <3>1
    <3>3. r.last_update = Clock(owner[s]) /\ r.disconnect_time = Clock(owner[s])
      BY DEF r
    <3> QED
      BY <1>3, <2>1, <2>2, <3>1, <3>2, <3>3 DEF SentInv
  <2> QED
    BY <2>3, <2>4
<1>6. LeaseInv(s)'
  BY DEF LeaseInv
<1>7. LeftInv(s)'
  <2>1. log[s] # None => Clock(owner[s]) - log[s].last_update \in 0..Renewal
    <3> SUFFICES ASSUME log[s] # None PROVE Clock(owner[s]) - log[s].last_update \in 0..Renewal
      OBVIOUS
    <3>1. Slack(lost) \in Nat /\ Gap \in Nat /\ Gap + Slack(lost) <= Renewal /\ Renewal \in Nat
      BY Losses DEF HistTypes
    <3>2. Beat - timer[owner[s]] <= Gap /\ timer[owner[s]] \in Int /\ Beat \in Nat
      BY <1>1, TimesAssumption DEF HistTypes, Gap
    <3>3. log[s].last_update \in Nat
      BY DEF HistTypes, Record
    <3> QED
      BY <1>1, <3>1, <3>2, <3>3 DEF SessionInv, LeaseInv
  <2> QED
    BY <1>3, <2>1 DEF SessionInv, LeaseInv, LeftInv, End
<1> QED
  BY <1>4, <1>5, <1>6, <1>7 DEF SessionInv

\* The next record that was sent reaches Redis.
LEMMA Arrive ==
    ASSUME HistTypes, NEW s \in Session, SessionInv(s), Execute(s)
    PROVE  SessionInv(s)'
<1> DEFINE q == sent[s]
<1>1. /\ q \in Seq(Record) /\ q # <<>> /\ Len(q) \in Nat \ {0}
      /\ log'[s] = q[1] /\ sent'[s] = Tail(q) /\ q[1] \in Record
      /\ Len(Tail(q)) = Len(q) - 1 /\ \A i \in 1 .. Len(Tail(q)) : Tail(q)[i] = q[i + 1]
  BY DEF Execute, HistTypes
<1>2. owner[s] \in Node /\ Clock(owner[s]) \in Nat /\ Clock(owner[s]) > 0
  BY <1>1, Clocks DEF HistTypes, SessionInv, NewInv
<1>3. /\ owner' = owner /\ entry' = entry /\ left' = left /\ now' = now /\ lost' = lost
      /\ proc' = proc /\ timer' = timer
      /\ Clock(owner[s])' = Clock(owner[s])
  BY DEF Execute, Clock
<1>4. \A i \in 1 .. Len(q) :
        /\ q[i].last_update = Clock(owner[s])
        /\ i < Len(q) => q[i].disconnect_time = Open
        /\ q[i].disconnect_time # Open => entry[s] = None /\ q[i].disconnect_time = left[s]
  BY DEF SessionInv, SentInv
<1> HIDE DEF q
<1>5. NewInv(s)'
  BY <1>2, <1>3, TimesAssumption DEF NewInv
<1>6. SentInv(s)'
  <2>1. q[1].last_update = Clock(owner[s]) /\ (Tail(q) # <<>> => q[1].disconnect_time = Open)
    BY <1>1, <1>4
  <2>2. \A i \in 1 .. Len(Tail(q)) : i + 1 \in 1 .. Len(q) /\ (i < Len(Tail(q)) <=> i + 1 < Len(q))
    BY <1>1
  <2>3. \A i \in 1 .. Len(Tail(q)) :
          /\ Tail(q)[i].last_update = Clock(owner[s])
          /\ i < Len(Tail(q)) => Tail(q)[i].disconnect_time = Open
          /\ Tail(q)[i].disconnect_time # Open =>
               entry[s] = None /\ Tail(q)[i].disconnect_time = left[s]
    BY <1>1, <1>4, <2>2
  <2> QED
    BY <1>1, <1>2, <1>3, <2>1, <2>3 DEF SentInv
<1>7. LeaseInv(s)'
  <2> SUFFICES ASSUME entry[s] # None PROVE LeaseInv(s)'
    BY <1>3 DEF LeaseInv
  <2>1. q[1].last_update = Clock(owner[s]) /\ q[1].disconnect_time = Open
    BY <1>1, <1>4
  <2>2. /\ Slack(lost) \in Nat /\ Gap \in Nat
        /\ timer[owner[s]] \in Int /\ Beat - timer[owner[s]] \in Nat
    <3>1. Slack(lost) \in Nat /\ Gap \in Nat
      BY Losses DEF HistTypes
    <3>2. timer[owner[s]] \in Int /\ Beat - timer[owner[s]] \in Nat
      BY <1>2, TimesAssumption DEF HistTypes
    <3> QED
      BY <3>1, <3>2
  <2>3. proc[owner[s]] = "up" /\ entry[s].disconnect_time = Open
    BY DEF SessionInv, LeaseInv
  <2>4. /\ Clock(owner[s])' - log'[s].last_update = 0
        /\ 0 <= (IF sent'[s] = <<>> THEN Beat - timer[owner[s]] ELSE Gap) + Slack(lost)
    BY <1>1, <1>2, <1>3, <2>1, <2>2
  <2> QED
    BY <1>1, <1>3, <2>1, <2>3, <2>4 DEF LeaseInv
<1>8. LeftInv(s)'
  <2> SUFFICES ASSUME entry[s] = None PROVE LeftInv(s)'
    BY <1>3 DEF LeftInv
  <2>1. left[s] = Clock(owner[s])
    BY <1>1, <1>2, TimesAssumption DEF SessionInv, LeftInv, q
  <2>2. End(q[1]) = left[s]
    BY <1>1, <1>4, <2>1 DEF End
  <2>3. 0 \in 0 .. Renewal
    BY Losses DEF HistTypes
  <2> QED
    BY <1>1, <1>2, <1>3, <2>1, <2>2, <2>3 DEF LeftInv
<1> QED
  BY <1>5, <1>6, <1>7, <1>8 DEF SessionInv

\* The timer renews the record of a session that is online, or it registers.
LEMMA Renew ==
    ASSUME HistTypes, NEW s \in Session, SessionInv(s), NEW n \in Node, NEW r \in Record,
           now' = now, lost' = lost, log'[s] = log[s], owner'[s] = n, left'[s] = left[s],
           entry'[s] = r, sent'[s] = Append(sent[s], r), proc'[n] = "up", timer'[n] \in -MaxDelay..Beat,
           r.last_update = Clock(n), r.disconnect_time = Open,
           entry[s] = None => owner[s] = None, entry[s] # None => owner[s] = n
    PROVE  SessionInv(s)'
<1>1. /\ Clock(n) \in Nat /\ Clock(n) > 0 /\ Clock(n)' = Clock(n) /\ sent[s] \in Seq(Record)
      /\ r # None /\ n # None
  BY Clocks, TimesAssumption, NoneAssumption DEF HistTypes, Clock
<1>2. \A i \in 1 .. Len(sent[s]) :
        sent[s][i].last_update = Clock(n) /\ sent[s][i].disconnect_time = Open
  BY <1>1 DEF SessionInv, SentInv, NewInv
<1>3. /\ Len(sent'[s]) = Len(sent[s]) + 1 /\ Len(sent[s]) \in Nat
      /\ sent'[s][Len(sent[s]) + 1] = r
      /\ \A i \in 1 .. Len(sent[s]) : sent'[s][i] = sent[s][i]
  BY <1>1
<1>4. \A i \in 1 .. Len(sent'[s]) : i = Len(sent[s]) + 1 \/ i \in 1 .. Len(sent[s])
  BY <1>3
<1>5. log[s] # None => log[s].disconnect_time = Open /\ log[s].last_update > 0
  BY DEF SessionInv, NewInv, SentInv, LeaseInv
<1>6. NewInv(s)' /\ LeftInv(s)'
  BY <1>1 DEF NewInv, LeftInv
<1>7. SentInv(s)'
  BY <1>1, <1>2, <1>3, <1>4, <1>5 DEF SentInv
<1>8. LeaseInv(s)'
  <2> SUFFICES ASSUME log[s] # None
               PROVE  /\ Clock(n) - log[s].last_update >= 0
                      /\ Clock(n) - log[s].last_update <= Gap + Slack(lost)
    BY <1>1, <1>3, <1>5 DEF LeaseInv
  <2>1. entry[s] # None /\ owner[s] = n
    BY DEF SessionInv, NewInv
  <2>2. Slack(lost) \in Nat /\ Gap \in Nat
    BY Losses DEF HistTypes
  <2>3. Beat - timer[n] <= Gap /\ timer[n] \in Int /\ Beat \in Nat
    BY TimesAssumption DEF HistTypes, Gap
  <2>4. log[s].last_update \in Nat
    BY DEF HistTypes, Record
  <2> QED
    BY <1>1, <2>1, <2>2, <2>3, <2>4 DEF SessionInv, LeaseInv
<1> QED
  BY <1>6, <1>7, <1>8 DEF SessionInv

\* A unit of time passes, with nothing under way.
LEMMA Pass ==
    ASSUME HistTypes, NEW s \in Session, SessionInv(s), Tick
    PROVE  SessionInv(s)'
<1>1. /\ sent[s] = <<>> /\ sent' = sent /\ now' = now + 1 /\ lost' = lost
      /\ owner' = owner /\ entry' = entry /\ log' = log /\ left' = left /\ proc' = proc
  BY DEF Tick
<1>2. NewInv(s)' /\ SentInv(s)' /\ LeftInv(s)'
  BY <1>1 DEF SessionInv, NewInv, SentInv, LeftInv, End
<1>3. LeaseInv(s)'
  <2> SUFFICES ASSUME entry[s] # None PROVE LeaseInv(s)'
    BY <1>1 DEF LeaseInv
  <2>1. owner[s] \in Node /\ proc[owner[s]] = "up"
    BY DEF HistTypes, SessionInv, NewInv, LeaseInv
  <2>2. timer'[owner[s]] = timer[owner[s]] - 1 /\ timer[owner[s]] \in Int /\ Beat \in Nat
    <3>1. timer[owner[s]] \in Int /\ timer'[owner[s]] = timer[owner[s]] - 1
      BY <2>1 DEF Tick, HistTypes
    <3> QED
      BY <3>1, TimesAssumption
  <2>3. Clock(owner[s])' = Clock(owner[s]) + 1 /\ Clock(owner[s]) \in Nat
    <3>1. Ahead[owner[s]] \in Nat /\ now \in Nat
      BY <2>1, TimesAssumption DEF HistTypes
    <3> QED
      BY <1>1, <3>1 DEF Clock
  <2>4. Slack(lost) \in Nat /\ (log[s] # None => log[s].last_update \in Nat)
    BY Losses DEF HistTypes, Record
  <2>5. /\ entry[s].disconnect_time = Open
        /\ log[s] # None =>
             /\ log[s].disconnect_time = Open
             /\ Clock(owner[s]) - log[s].last_update >= 0
             /\ Clock(owner[s]) - log[s].last_update <= (Beat - timer[owner[s]]) + Slack(lost)
    BY <1>1 DEF SessionInv, LeaseInv
  <2>6. log[s] # None =>
          /\ Clock(owner[s])' - log[s].last_update >= 0
          /\ Clock(owner[s])' - log[s].last_update <= (Beat - timer'[owner[s]]) + Slack(lost)
    BY <2>2, <2>3, <2>4, <2>5
  <2> QED
    BY <1>1, <2>1, <2>5, <2>6 DEF LeaseInv
<1> QED
  BY <1>2, <1>3 DEF SessionInv

\* What was under way of the session is lost.
LEMMA Lost ==
    ASSUME HistTypes, NEW s \in Session, SessionInv(s), Lose(owner[s]), owner[s] \in Node
    PROVE  SessionInv(s)'
<1>1. /\ sent'[s] = <<>> /\ now' = now /\ lost' \in 0..MaxLost
      /\ owner' = owner /\ entry' = entry /\ log' = log /\ left' = left /\ proc' = proc
      /\ timer' = timer
      /\ proc[owner[s]] = "up" => lost < MaxLost /\ lost' = lost + 1
  <2>1. lost' \in 0..MaxLost
    <3>1. lost \in 0..MaxLost
      BY DEF HistTypes
    <3>2. lost' = lost \/ (lost < MaxLost /\ lost' = lost + 1)
      BY DEF Lose
    <3> QED
      BY <3>1, <3>2, TimesAssumption
  <2>2. sent'[s] = <<>>
    BY DEF Lose
  <2> QED
    BY <2>1, <2>2 DEF Lose
<1>2. NewInv(s)' /\ SentInv(s)' /\ LeftInv(s)'
  BY <1>1 DEF SessionInv, NewInv, SentInv, LeftInv, End
<1>3. LeaseInv(s)'
  <2> SUFFICES ASSUME entry[s] # None PROVE LeaseInv(s)'
    BY <1>1 DEF LeaseInv
  <2>1. proc[owner[s]] = "up" /\ Clock(owner[s])' = Clock(owner[s]) /\ Clock(owner[s]) \in Nat
    BY <1>1, Clocks DEF SessionInv, LeaseInv, Clock
  <2>2. /\ Slack(lost') = Slack(lost) + Gap /\ Slack(lost) \in Nat /\ Gap \in Nat
    BY <1>1, <2>1, Losses DEF HistTypes
  <2>3. timer[owner[s]] \in Int /\ Beat - timer[owner[s]] \in 0 .. Gap
    BY TimesAssumption DEF HistTypes, Gap
  <2>4. log[s] # None => log[s].last_update \in Nat
    BY DEF HistTypes, Record
  <2> QED
    BY <1>1, <2>1, <2>2, <2>3, <2>4 DEF SessionInv, LeaseInv
<1> QED
  BY <1>2, <1>3 DEF SessionInv

\* A cleanup closes the record.
LEMMA CleanedUp ==
    ASSUME HistTypes, NEW n \in Node, NEW s \in Session, HSET(n), FoundInv(n), SessionInv(s),
           s = found[n].session
    PROVE  SessionInv(s)'
<1> DEFINE r == found[n].record
<1>1. /\ s \in Session /\ r \in Record /\ entry[s] = None /\ sent[s] = <<>> /\ owner[s] \in Node
      /\ r.disconnect_time = Open /\ log[s] \in {r, Closed(n, r)}
  BY NoneAssumption DEF HSET, FoundInv, HistTypes
<1>2. /\ log'[s] = Closed(n, r)
      /\ owner' = owner /\ entry' = entry /\ sent' = sent /\ left' = left
  BY DEF HSET, HistTypes
<1>3. /\ Closed(n, r) \in Record /\ Closed(n, r).last_update = r.last_update
      /\ Closed(n, r).disconnect_time = r.last_update
  BY <1>1 DEF Closed, Record
<1> HIDE DEF r
<1>4. log[s] # None /\ log[s].last_update = r.last_update
  BY <1>1, <1>3, NoneAssumption
<1>5. r.last_update > 0 /\ r.last_update # Open
  BY <1>1, <1>4 DEF SessionInv, SentInv, Record, Open
<1>6. End(log[s]) = r.last_update /\ End(log'[s]) = r.last_update
  BY <1>1, <1>2, <1>3, <1>5 DEF End
<1>7. owner[s] # None /\ log'[s] # None
  BY <1>1, <1>2, <1>3, TimesAssumption, NoneAssumption
<1>8. NewInv(s)' /\ SentInv(s)' /\ LeaseInv(s)'
  BY <1>1, <1>2, <1>3, <1>5, <1>7 DEF NewInv, SentInv, LeaseInv
<1>9. LeftInv(s)'
  BY <1>1, <1>2, <1>4, <1>6, <1>7 DEF SessionInv, LeftInv
<1> QED
  BY <1>8, <1>9 DEF SessionInv

\* Each step keeps what is said of each session.
LEMMA SessionStep ==
    ASSUME HistInv, [HistNext]_histVars, HistTypes', NEW s \in Session
    PROVE  SessionInv(s)'
<1>0. /\ HistTypes /\ SessionInv(s) /\ \A n \in Node : FoundInv(n)
      /\ entry[s] # None => owner[s] \in Node /\ proc[owner[s]] = "up"
      /\ lost' \in 0..MaxLost /\ lost \in Nat
  <2>1. HistTypes /\ SessionInv(s) /\ \A n \in Node : FoundInv(n)
    BY DEF HistInv
  <2>2. owner[s] \in Node \cup {None} /\ lost' \in 0..MaxLost /\ lost \in Nat
    BY <2>1 DEF HistTypes
  <2>3. entry[s] # None => owner[s] # None /\ proc[owner[s]] = "up"
    BY <2>1 DEF SessionInv, LeaseInv, NewInv
  <2> QED
    BY <2>1, <2>2, <2>3
<1> DEFINE Same == /\ sent'[s] = sent[s] /\ entry'[s] = entry[s] /\ log'[s] = log[s]
                   /\ owner'[s] = owner[s] /\ left'[s] = left[s]
<1>f. ASSUME now' = now, lost' \in {lost, lost + 1}, Same,
             entry[s] # None => /\ proc'[owner[s]] = proc[owner[s]]
                                /\ timer'[owner[s]] = timer[owner[s]]
      PROVE  SessionInv(s)'
  BY <1>f, <1>0, Frame
<1>1. CASE Tick
  BY <1>1, <1>0, Pass
<1>2. ASSUME NEW z \in Session, Withdraw(z) PROVE SessionInv(s)'
  <2>1. CASE z = s
    <3>1. entry[s] # None /\ owner[s] \in Node
      BY <1>0, <1>2, <2>1 DEF Withdraw
    <3>2. /\ now' = now /\ log' = log /\ owner' = owner /\ entry'[s] = None
          /\ left'[s] = Clock(owner[s])
          /\ sent'[s] = Append(sent[s],
                 [last_update |-> Clock(owner[s]), disconnect_time |-> Clock(owner[s])])
      BY <1>2, <2>1 DEF Withdraw, Close
    <3> QED
      BY <1>0, <3>1, <3>2, Leave
  <2>2. CASE z # s
    <3>1. Same
      BY <1>0, <1>2, <2>2 DEF Withdraw, Close, HistTypes
    <3> QED
      BY <1>2, <1>f, <3>1 DEF Withdraw
  <2> QED
    BY <2>1, <2>2
<1>3. ASSUME NEW z \in Session, Execute(z) PROVE SessionInv(s)'
  <2>1. CASE z = s
    BY <1>0, <1>3, <2>1, Arrive
  <2>2. CASE z # s
    BY <1>0, <1>3, <2>2, <1>f DEF Execute, HistTypes
  <2> QED
    BY <2>1, <2>2
<1>4. ASSUME NEW n \in Node, upload_record_item(n) PROVE SessionInv(s)'
  <2>1. CASE s \in Sessions(n)
    <3> DEFINE r == [entry[s] EXCEPT !.last_update = Clock(n)]
    <3>1. entry[s] \in Record /\ entry[s].disconnect_time = Open /\ owner[s] = n /\ entry[s] # None
      BY <1>0, <2>1 DEF Sessions, SessionInv, LeaseInv, HistTypes
    <3>2. r \in Record /\ r.last_update = Clock(n) /\ r.disconnect_time = Open
      BY <1>0, <3>1, Clocks DEF Record
    <3>3. entry'[s] = r /\ sent'[s] = Append(sent[s], r)
      BY <1>4, <2>1 DEF upload_record_item
    <3>4. proc'[n] = "up" /\ timer'[n] \in -MaxDelay..Beat
      BY <1>4 DEF upload_record_item, HistTypes
    <3> HIDE DEF r
    <3> QED
      BY <1>0, <1>4, <3>1, <3>2, <3>3, <3>4, Renew DEF upload_record_item
  <2>2. CASE s \notin Sessions(n)
    <3>1. Same
      BY <1>4, <2>2 DEF upload_record_item
    <3>2. entry[s] # None => owner[s] # n
      BY <2>2 DEF Sessions
    <3>3. entry[s] # None => /\ proc'[owner[s]] = proc[owner[s]] /\ timer'[owner[s]] = timer[owner[s]]
      BY <1>0, <1>4, <3>2 DEF upload_record_item, HistTypes
    <3> QED
      BY <1>4, <1>f, <3>1, <3>3 DEF upload_record_item
  <2> QED
    BY <2>1, <2>2
<1>5. ASSUME NEW n \in Node, stop(n) \/ Crash(n) PROVE SessionInv(s)'
  <2>1. CASE s \in Sessions(n)
    <3>1. owner[s] = n /\ entry[s] # None
      BY <2>1 DEF Sessions
    <3>2. /\ now' = now /\ log' = log /\ owner' = owner
          /\ entry'[s] = None /\ left'[s] = Clock(n)
          /\ sent'[s] = sent[s] \/ sent'[s] = Append(sent[s],
                 [last_update |-> Clock(n), disconnect_time |-> Clock(n)])
      BY <1>5, <2>1 DEF stop, Crash, Close
    <3> QED
      BY <1>0, <3>1, <3>2, Leave
  <2>2. CASE s \notin Sessions(n)
    <3>1. Same
      BY <1>5, <2>2 DEF stop, Crash, Close
    <3>2. entry[s] # None => owner[s] # n
      BY <2>2 DEF Sessions
    <3>3. entry[s] # None => /\ proc'[owner[s]] = proc[owner[s]] /\ timer'[owner[s]] = timer[owner[s]]
      BY <1>0, <1>5, <3>2 DEF stop, Crash, HistTypes
    <3> QED
      BY <1>5, <1>f, <3>1, <3>3 DEF stop, Crash
  <2> QED
    BY <2>1, <2>2
<1>7. ASSUME NEW n \in Node, Lose(n) PROVE SessionInv(s)'
  <2>1. CASE owner[s] = n
    BY <1>0, <1>7, <2>1, Lost
  <2>2. CASE owner[s] # n
    BY <1>0, <1>7, <2>2, <1>f DEF Lose
  <2> QED
    BY <2>1, <2>2
<1>8. ASSUME NEW n \in Node, Start(n) \/ Started(n) PROVE SessionInv(s)'
  <2>1. entry[s] # None => owner[s] # n
    BY <1>0, <1>8 DEF Start, Started
  <2>2. entry[s] # None => /\ proc'[owner[s]] = proc[owner[s]] /\ timer'[owner[s]] = timer[owner[s]]
    BY <1>0, <1>8, <2>1 DEF Start, Started, HistTypes
  <2> QED
    BY <1>8, <1>f, <2>2 DEF Start, Started
<1>9. ASSUME NEW n \in Node, HSET(n) PROVE SessionInv(s)'
  <2>1. CASE s = found[n].session
    BY <1>0, <1>9, <2>1, CleanedUp
  <2>2. CASE s # found[n].session
    BY <1>0, <1>9, <2>2, <1>f DEF HSET, HistTypes
  <2> QED
    BY <2>1, <2>2
<1>11. ASSUME NEW n \in Node, NEW z \in Session, Register(n, z) PROVE SessionInv(s)'
  <2>1. CASE z = s
    <3> DEFINE r == [last_update |-> Clock(n), disconnect_time |-> Open]
    <3>1. r \in Record /\ r.last_update = Clock(n) /\ r.disconnect_time = Open
      BY <1>0, Clocks DEF Record, Open
    <3>2. entry'[s] = r /\ sent'[s] = Append(sent[s], r) /\ owner'[s] = n /\ owner[s] = None
      BY <1>0, <1>11, <2>1 DEF Register, HistTypes
    <3>3. proc'[n] = "up" /\ timer'[n] \in -MaxDelay..Beat /\ entry[s] = None
      BY <1>0, <1>11, <3>2 DEF Register, HistTypes, SessionInv, NewInv
    <3> HIDE DEF r
    <3> QED
      BY <1>0, <1>11, <3>1, <3>2, <3>3, Renew DEF Register
  <2>2. CASE z # s
    BY <1>0, <1>11, <2>2, <1>f DEF Register, HistTypes
  <2> QED
    BY <2>1, <2>2
<1>12. ASSUME NEW n \in Node, NEW z \in Session, HGETALL(n, z) PROVE SessionInv(s)'
  BY <1>12, <1>f DEF HGETALL
<1>13. CASE UNCHANGED histVars
  BY <1>13, <1>f DEF histVars
<1> QED
  BY <1>1, <1>2, <1>3, <1>4, <1>5, <1>7, <1>8, <1>9, <1>11, <1>12, <1>13 DEF HistNext

-----------------------------------------------------------------------------
(* A step, seen by a node that cleans up.                                  *)

\* What a session that is there, or has something under way, has in Redis is
\* not stale for any node.
LEMMA Fresh ==
    ASSUME Timely, HistTypes, NEW s \in Session, SessionInv(s), NEW n \in Node, DoneInv(n),
           proc[n] = "cleaning", log[s] # None, log[s].disconnect_time = Open,
           entry[s] # None \/ sent[s] # <<>>
    PROVE  began[n] - log[s].last_update <= Expire
<1>1. owner[s] \in Node /\ log[s] \in Record /\ began[n] \in Nat
  BY DEF HistTypes, SessionInv, NewInv
<1>2. /\ Clock(owner[s]) \in Nat /\ now <= Clock(owner[s]) /\ now \in Nat
      /\ Clock(n) \in Nat /\ Clock(n) <= now + MaxSkew /\ began[n] <= Clock(n)
  BY <1>1, Clocks DEF HistTypes, DoneInv
<1>3. log[s].last_update \in Nat /\ Renewal \in Nat /\ Expire \in Nat /\ MaxSkew \in Nat
  BY <1>1, Losses, TimesAssumption DEF HistTypes, Record
<1>4. Clock(owner[s]) - log[s].last_update <= Renewal
  <2>1. CASE entry[s] # None
    <3>1. /\ Slack(lost) \in Nat /\ Gap \in Nat /\ Gap + Slack(lost) <= Renewal
      BY Losses DEF HistTypes
    <3>2. Beat - timer[owner[s]] <= Gap /\ timer[owner[s]] \in Int /\ Beat \in Nat
      <4>1. timer[owner[s]] \in Int /\ timer[owner[s]] \in -MaxDelay..Beat
        BY <1>1 DEF HistTypes
      <4> QED
        BY <4>1, TimesAssumption DEF Gap
    <3>3. Clock(owner[s]) - log[s].last_update
            <= (IF sent[s] = <<>> THEN Beat - timer[owner[s]] ELSE Gap) + Slack(lost)
      BY <2>1 DEF SessionInv, LeaseInv
    <3> DEFINE b == IF sent[s] = <<>> THEN Beat - timer[owner[s]] ELSE Gap
               age == Clock(owner[s]) - log[s].last_update
    <3>4. b \in Int /\ b <= Gap
      BY <3>1, <3>2
    <3>5. age \in Int /\ age <= b + Slack(lost)
      BY <1>2, <1>3, <3>3
    <3> HIDE DEF b, age
    <3>6. age <= Renewal
      BY <1>3, <3>1, <3>4, <3>5
    <3> QED
      BY <3>6 DEF age
  <2>2. CASE entry[s] = None
    <3>1. left[s] = Clock(owner[s]) /\ End(log[s]) = log[s].last_update
      BY <1>1, <2>2, TimesAssumption DEF SessionInv, LeftInv, End
    <3>2. left[s] - End(log[s]) \in 0..Renewal
      BY <1>1, <2>2, TimesAssumption DEF SessionInv, LeftInv
    <3> QED
      BY <1>2, <1>3, <3>1, <3>2
  <2> QED
    BY <2>1, <2>2
<1> QED
  BY <1>1, <1>2, <1>3, <1>4 DEF Timely

\* Nothing of what the cleanup of n goes by changes.
LEMMA NodeFrame ==
    ASSUME HistInv, HistTypes', NEW n \in Node, FoundInv(n), DoneInv(n),
           proc'[n] = proc[n], began'[n] = began[n], todo'[n] = todo[n], found'[n] = found[n],
           now' >= now, log' = log,
           \A s \in Session : owner[s] # None /\ entry[s] = None =>
              /\ owner'[s] # None /\ entry'[s] = None
              /\ sent[s] = <<>> => sent'[s] = <<>>
    PROVE  FoundInv(n)' /\ DoneInv(n)'
<1>1. FoundInv(n)'
  <2> SUFFICES ASSUME found[n] # None PROVE FoundInv(n)'
    BY DEF FoundInv
  <2>1. found[n].session \in Session
    BY DEF HistInv, HistTypes
  <2> QED
    BY <2>1 DEF FoundInv, Closed
<1>2. DoneInv(n)'
  <2>1. Clock(n)' >= Clock(n) /\ Clock(n) \in Nat /\ Clock(n)' \in Nat /\ began[n] \in Nat
    <3>1. Ahead[n] \in Nat
      BY TimesAssumption
    <3>2. now \in Nat /\ now' \in Nat /\ began[n] \in Nat
      BY DEF HistInv, HistTypes
    <3> QED
      BY <3>1, <3>2 DEF Clock
  <2> QED
    BY <2>1 DEF DoneInv
<1> QED
  BY <1>1, <1>2

\* A cleanup reads a record.
LEMMA Read ==
    ASSUME Timely, HistInv, HistTypes', NEW n \in Node, NEW s \in Session, HGETALL(n, s)
    PROVE  FoundInv(n)' /\ DoneInv(n)'
<1>1. /\ HistTypes /\ SessionInv(s) /\ DoneInv(n) /\ proc[n] = "cleaning" /\ found[n] = None
      /\ log' = log /\ began' = began /\ proc' = proc /\ Clock(n)' = Clock(n)
      /\ owner' = owner /\ entry' = entry /\ sent' = sent
      /\ todo'[n] = todo[n] \ {s}
      /\ found'[n] = IF Stale(n, log[s]) THEN [session |-> s, record |-> log[s]] ELSE None
  BY DEF HistInv, HGETALL, HistTypes, Clock
<1>2. CASE Stale(n, log[s])
  <2>1. /\ log[s] # None /\ log[s].disconnect_time = Open /\ log[s] \in Record
        /\ ~(began[n] - log[s].last_update <= Expire)
    <3>1. log[s] # None /\ log[s].disconnect_time = Open /\ log[s] \in Record
      BY <1>1, <1>2 DEF Stale, IsOpen, HistTypes
    <3>2. log[s].last_update \in Nat /\ began[n] \in Nat /\ Expire \in Nat
      BY <1>1, <3>1, TimesAssumption DEF HistTypes, Record
    <3> QED
      BY <1>2, <3>1, <3>2 DEF Stale
  <2>2. owner[s] # None /\ entry[s] = None /\ sent[s] = <<>>
    BY <1>1, <2>1, Fresh DEF SessionInv, NewInv
  <2>3. found'[n].session = s /\ found'[n].record = log[s]
    BY <1>1, <1>2
  <2>4. FoundInv(n)'
    BY <1>1, <2>1, <2>2, <2>3 DEF FoundInv
  <2>5. DoneInv(n)'
    <3>1. \A z \in Session \ todo'[n] : found'[n].session # z => z \in Session \ todo[n]
      BY <1>1, <2>3
    <3>2. found'[n] # None
      BY <1>1, <1>2, <2>1, NoneAssumption
    <3> QED
      BY <1>1, <3>1, <3>2 DEF DoneInv
  <2> QED
    BY <2>4, <2>5
<1>3. CASE ~Stale(n, log[s])
  <2>1. FoundInv(n)'
    BY <1>1, <1>3 DEF FoundInv
  <2>2. log[s] # None /\ log[s].disconnect_time = Open => began[n] - log[s].last_update <= Expire
    <3> SUFFICES ASSUME log[s] # None, log[s].disconnect_time = Open
                 PROVE  began[n] - log[s].last_update <= Expire
      OBVIOUS
    <3>1. log[s].last_update \in Nat /\ began[n] \in Nat /\ Expire \in Nat
      BY <1>1, TimesAssumption DEF HistTypes, Record
    <3> QED
      BY <1>3, <3>1 DEF Stale, IsOpen
  <2>3. \A z \in Session \ todo'[n] : z = s \/ z \in Session \ todo[n]
    BY <1>1
  <2>4. DoneInv(n)'
    BY <1>1, <2>2, <2>3 DEF DoneInv
  <2> QED
    BY <2>1, <2>4
<1> QED
  BY <1>2, <1>3

\* A cleanup, of m, closes a record.
LEMMA Written ==
    ASSUME HistInv, HistTypes', NEW n \in Node, NEW m \in Node, HSET(m)
    PROVE  FoundInv(n)' /\ DoneInv(n)'
<1> DEFINE s == found[m].session  r == found[m].record
<1>1. /\ HistTypes /\ FoundInv(m) /\ FoundInv(n) /\ DoneInv(n) /\ found[m] # None
      /\ s \in Session /\ r \in Record /\ SessionInv(s)
      /\ log' = [log EXCEPT ![s] = Closed(m, r)]
      /\ found' = [found EXCEPT ![m] = None]
      /\ proc' = proc /\ began' = began /\ todo' = todo /\ owner' = owner /\ entry' = entry
      /\ sent' = sent /\ Clock(n)' = Clock(n)
  BY DEF HistInv, HistTypes, HSET, Clock
<1> HIDE DEF s
<1>2. /\ log'[s] = Closed(m, r) /\ \A z \in Session \ {s} : log'[z] = log[z]
      /\ m # n => found'[n] = found[n]
      /\ m = n => found'[n] = None
  BY <1>1 DEF HistTypes
<1>3. /\ r.disconnect_time = Open /\ log[s] \in {r, Closed(m, r)}
      /\ Closed(m, r).disconnect_time = r.last_update /\ Closed(m, r).last_update = r.last_update
  BY <1>1 DEF FoundInv, Closed, Record, s
<1>4. r.last_update > 0 /\ r.last_update # Open
  <2>1. log[s] # None /\ log[s].last_update = r.last_update
    BY <1>1, <1>3, NoneAssumption DEF Closed, Record
  <2> QED
    BY <1>1, <2>1 DEF SessionInv, SentInv, Open, Record
<1>5. FoundInv(n)'
  <2> SUFFICES ASSUME m # n, found[n] # None PROVE FoundInv(n)'
    BY <1>2 DEF FoundInv
  <2>1. /\ found[n].session \in Session /\ found[n].record \in Record
        /\ found[n].record.disconnect_time = Open
        /\ log[found[n].session] \in {found[n].record, Closed(n, found[n].record)}
    BY <1>1 DEF HistTypes, FoundInv
  <2>2. Closed(n, found[n].record) = Closed(m, found[n].record)
    BY DEF Closed
  <2>3. CASE found[n].session = s
    <3>1. CASE log[s] = r
      BY <1>1, <1>2, <1>3, <2>1, <2>2, <2>3, <3>1 DEF FoundInv, Closed, Record
    <3>2. CASE log[s] = Closed(m, r)
      <4>1. log[s] = Closed(n, found[n].record)
        BY <1>3, <1>4, <2>1, <2>3, <3>2
      <4>2. log'[found'[n].session] = Closed(n, found'[n].record)
        BY <1>2, <2>3, <3>2, <4>1
      <4> QED
        BY <1>1, <1>2, <4>2 DEF FoundInv, Closed
    <3> QED
      BY <1>3, <3>1, <3>2
  <2>4. CASE found[n].session # s
    <3>1. log'[found[n].session] = log[found[n].session]
      BY <1>2, <2>1, <2>4
    <3> QED
      BY <1>1, <1>2, <3>1 DEF FoundInv, Closed
  <2> QED
    BY <2>3, <2>4
<1>6. DoneInv(n)'
  <2>1. log'[s].disconnect_time # Open
    BY <1>2, <1>3, <1>4
  <2>2. \A z \in Session \ {s} : found'[n] # None => found'[n] = found[n]
    BY <1>2
  <2>3. m = n => found[n].session = s
    BY DEF s
  <2> QED
    BY <1>1, <1>2, <2>1, <2>2, <2>3 DEF DoneInv
<1> QED
  BY <1>5, <1>6

\* A record that reaches Redis is not stale for any cleanup.
LEMMA ArriveDone ==
    ASSUME Timely, HistInv, HistTypes', NEW n \in Node, NEW s \in Session, Execute(s)
    PROVE  FoundInv(n)' /\ DoneInv(n)'
<1>1. /\ HistTypes /\ FoundInv(n) /\ DoneInv(n) /\ SessionInv(s)
      /\ sent[s] \in Seq(Record) /\ sent[s] # <<>>
      /\ log'[s] = sent[s][1] /\ sent'[s] = Tail(sent[s]) /\ sent[s][1] \in Record
      /\ \A z \in Session \ {s} : log'[z] = log[z] /\ sent'[z] = sent[z]
      /\ owner' = owner /\ entry' = entry /\ proc' = proc /\ began' = began /\ todo' = todo
      /\ found' = found /\ Clock(n)' = Clock(n)
  BY DEF HistInv, HistTypes, Execute, Clock
<1>2. FoundInv(n)'
  <2> SUFFICES ASSUME found[n] # None PROVE FoundInv(n)'
    BY <1>1 DEF FoundInv
  <2>1. found[n].session \in Session \ {s}
    BY <1>1 DEF HistTypes, FoundInv
  <2>2. log'[found[n].session] = log[found[n].session] /\ sent'[found[n].session] = sent[found[n].session]
    BY <1>1, <2>1
  <2> QED
    BY <1>1, <2>2 DEF FoundInv, Closed
<1>3. proc[n] = "cleaning" => began[n] - log'[s].last_update <= Expire
  <2>1. owner[s] \in Node
    BY <1>1 DEF HistTypes, SessionInv, NewInv
  <2>2. log'[s].last_update = Clock(owner[s])
    <3>1. 1 \in 1 .. Len(sent[s])
      BY <1>1
    <3> QED
      BY <1>1, <3>1 DEF SessionInv, SentInv
  <2>3. /\ Clock(owner[s]) \in Nat /\ now <= Clock(owner[s]) /\ now \in Nat
        /\ Clock(n) \in Nat /\ Clock(n) <= now + MaxSkew
    BY <1>1, <2>1, Clocks DEF HistTypes
  <2>4. Renewal \in Nat /\ MaxSkew \in Nat /\ Expire \in Nat /\ began[n] \in Nat
    BY <1>1, Losses, TimesAssumption DEF HistTypes
  <2> QED
    BY <1>1, <2>2, <2>3, <2>4 DEF DoneInv, Timely
<1>4. DoneInv(n)'
  BY <1>1, <1>3 DEF DoneInv
<1> QED
  BY <1>2, <1>4

\* Each step keeps what is said of each node.
LEMMA NodeStep ==
    ASSUME Timely, HistInv, [HistNext]_histVars, HistTypes', NEW n \in Node
    PROVE  FoundInv(n)' /\ DoneInv(n)'
<1>0. HistTypes /\ FoundInv(n) /\ DoneInv(n)
  BY DEF HistInv
<1> DEFINE Gone == \A s \in Session : owner[s] # None /\ entry[s] = None =>
                     /\ owner'[s] # None /\ entry'[s] = None
                     /\ sent[s] = <<>> => sent'[s] = <<>>
<1>f. ASSUME proc'[n] = proc[n], began'[n] = began[n], todo'[n] = todo[n], found'[n] = found[n],
             now' >= now, log' = log, Gone
      PROVE  FoundInv(n)' /\ DoneInv(n)'
  BY <1>f, <1>0, NodeFrame
<1>t. now \in Nat
  BY <1>0 DEF HistTypes
<1>1. CASE Tick
  BY <1>1, <1>f, <1>t DEF Tick
<1>2. ASSUME NEW s \in Session, Withdraw(s) PROVE FoundInv(n)' /\ DoneInv(n)'
  BY <1>2, <1>f, <1>t DEF Withdraw, Close
<1>3. ASSUME NEW s \in Session, Execute(s) PROVE FoundInv(n)' /\ DoneInv(n)'
  BY <1>3, ArriveDone
<1>4. ASSUME NEW m \in Node, upload_record_item(m) PROVE FoundInv(n)' /\ DoneInv(n)'
  BY <1>4, <1>f, <1>t DEF upload_record_item, Sessions
<1>5. ASSUME NEW m \in Node, stop(m) \/ Crash(m) PROVE FoundInv(n)' /\ DoneInv(n)'
  <2>1. CASE m = n
    <3>1. proc'[n] = "down" /\ found'[n] = None
      BY <1>0, <1>5, <2>1 DEF stop, Crash, FoundInv, HistTypes
    <3> QED
      BY <3>1 DEF FoundInv, DoneInv
  <2>2. CASE m # n
    <3>1. Gone
      BY <1>5 DEF stop, Crash, Close, Sessions
    <3>2. /\ proc'[n] = proc[n] /\ began'[n] = began[n] /\ todo'[n] = todo[n] /\ found'[n] = found[n]
      BY <1>0, <1>5, <2>2 DEF stop, Crash, HistTypes
    <3> QED
      BY <1>5, <1>f, <1>t, <3>1, <3>2 DEF stop, Crash
  <2> QED
    BY <2>1, <2>2
<1>7. ASSUME NEW m \in Node, Lose(m) PROVE FoundInv(n)' /\ DoneInv(n)'
  BY <1>7, <1>f, <1>t DEF Lose
<1>8. ASSUME NEW m \in Node, Start(m) PROVE FoundInv(n)' /\ DoneInv(n)'
  <2>1. CASE m = n
    <3>1. /\ found'[n] = None /\ log' = log /\ began'[n] = Clock(n) /\ Clock(n)' = Clock(n)
          /\ todo'[n] = {s \in Session : log[s] # None}
      BY <1>0, <1>8, <2>1 DEF Start, FoundInv, HistTypes, Clock
    <3>2. Clock(n) <= Clock(n)
      BY <1>0, Clocks
    <3> QED
      BY <3>1, <3>2 DEF FoundInv, DoneInv
  <2>2. CASE m # n
    BY <1>0, <1>8, <1>f, <1>t, <2>2 DEF Start, HistTypes
  <2> QED
    BY <2>1, <2>2
<1>9. ASSUME NEW m \in Node, HSET(m) PROVE FoundInv(n)' /\ DoneInv(n)'
  BY <1>9, Written
<1>10. ASSUME NEW m \in Node, Started(m) PROVE FoundInv(n)' /\ DoneInv(n)'
  <2>1. CASE m = n
    <3>1. proc'[n] = "up" /\ found'[n] = None
      BY <1>0, <1>10, <2>1 DEF Started, HistTypes
    <3> QED
      BY <3>1 DEF FoundInv, DoneInv
  <2>2. CASE m # n
    BY <1>0, <1>10, <1>f, <1>t, <2>2 DEF Started, HistTypes
  <2> QED
    BY <2>1, <2>2
<1>11. ASSUME NEW m \in Node, NEW s \in Session, Register(m, s) PROVE FoundInv(n)' /\ DoneInv(n)'
  <2>1. Gone
    BY <1>0, <1>11 DEF Register, HistTypes
  <2> QED
    BY <1>11, <1>f, <1>t, <2>1 DEF Register
<1>12. ASSUME NEW m \in Node, NEW s \in Session, HGETALL(m, s) PROVE FoundInv(n)' /\ DoneInv(n)'
  <2>1. CASE m = n
    BY <1>12, <2>1, Read
  <2>2. CASE m # n
    BY <1>0, <1>12, <1>f, <1>t, <2>2 DEF HGETALL, HistTypes
  <2> QED
    BY <2>1, <2>2
<1>13. CASE UNCHANGED histVars
  BY <1>13, <1>f, <1>t DEF histVars
<1> QED
  BY <1>1, <1>2, <1>3, <1>4, <1>5, <1>7, <1>8, <1>9, <1>10, <1>11, <1>12, <1>13 DEF HistNext

-----------------------------------------------------------------------------

\* At first there is nothing.
LEMMA HistInvInit == HistInit => HistInv
<1> SUFFICES ASSUME HistInit PROVE HistInv
  OBVIOUS
<1>1. HistTypes
  BY TimesAssumption DEF HistInit, HistTypes
<1>2. ASSUME NEW s \in Session PROVE SessionInv(s)
  BY <1>2 DEF HistInit, SessionInv, NewInv, SentInv, LeaseInv, LeftInv
<1>3. ASSUME NEW n \in Node PROVE FoundInv(n) /\ DoneInv(n)
  BY <1>3 DEF HistInit, FoundInv, DoneInv
<1> QED
  BY <1>1, <1>2, <1>3 DEF HistInv

LEMMA HistInvStep == ASSUME Timely, HistInv, [HistNext]_histVars PROVE HistInv'
<1>1. \A s \in Session : entry[s] # None => owner[s] # None
  BY DEF HistInv, SessionInv, NewInv
<1>2. HistTypes'
  BY <1>1, TypesStep DEF HistInv
<1> QED
  BY <1>2, SessionStep, NodeStep DEF HistInv

LEMMA HistInvAlways == Timely /\ HistSpec => []HistInv
<1>1. ASSUME Timely PROVE HistSpec => []HistInv
  <2>1. HistInv /\ [HistNext]_histVars => HistInv'
    BY <1>1, HistInvStep
  <2> QED
    BY <2>1, HistInvInit, PTL DEF HistSpec
<1> QED
  BY <1>1

\* Under the assumption on the expiry the variables keep their types, and a timer
\* is never later than MaxDelay.
THEOREM HistTypeCorrect == Timely /\ HistSpec => []HistTypeOK
<1>1. HistInv => HistTypeOK
  BY DEF HistInv, HistTypes, HistTypeOK
<1> QED
  BY <1>1, HistInvAlways, PTL

\* No cleanup closes the record of a session that is online, if the expiry covers
\* the time between two renewals that arrive and the difference of the clocks.
THEOREM LiveNotClosedAlways == Timely /\ HistSpec => []LiveNotClosed
<1>1. HistInv => LiveNotClosed
  BY DEF HistInv, SessionInv, LeaseInv, LiveNotClosed, IsOpen
<1> QED
  BY <1>1, HistInvAlways, PTL

\* The time a closed record gives is that of the session's end, or less than what
\* separates two renewals before.
THEOREM EndAccurateAlways == Timely /\ HistSpec => []EndAccurate
<1>1. HistInv => EndAccurate
  <2> SUFFICES ASSUME HistInv, NEW s \in Session, log[s] # None, ~IsOpen(log[s])
               PROVE  entry[s] = None /\ left[s] - log[s].disconnect_time \in 0..Renewal
    BY DEF EndAccurate
  <2>1. owner[s] # None /\ entry[s] = None
    BY DEF HistInv, SessionInv, NewInv, LeaseInv, IsOpen
  <2> QED
    BY <2>1 DEF HistInv, SessionInv, LeftInv, End, IsOpen
<1> QED
  BY <1>1, HistInvAlways, PTL

\* A closed record is final: two cleanups that have read it write the same, and
\* nothing that its session has sent comes after.
THEOREM FinalKeptAlways == Timely /\ HistSpec => FinalKept
<1>1. HistInv /\ [HistNext]_histVars =>
        [\A s \in Session : log[s] # None /\ ~IsOpen(log[s]) => log'[s] = log[s]]_histVars
  <2> SUFFICES ASSUME HistInv, HistNext, NEW s \in Session, log[s] # None, ~IsOpen(log[s])
               PROVE  log'[s] = log[s]
    OBVIOUS
  <2>1. sent[s] = <<>>
    BY DEF HistInv, SessionInv, SentInv, IsOpen
  <2>2. ASSUME NEW z \in Session, Execute(z) PROVE log'[s] = log[s]
    BY <2>1, <2>2 DEF Execute, HistInv, HistTypes
  <2>3. ASSUME NEW n \in Node, HSET(n) PROVE log'[s] = log[s]
    <3>1. CASE found[n].session = s
      <4>1. log'[s] = Closed(n, found[n].record)
        BY <2>3, <3>1 DEF HSET, HistInv, HistTypes
      <4>2. log[s] \in {found[n].record, Closed(n, found[n].record)}
            /\ found[n].record.disconnect_time = Open
        BY <2>3, <3>1 DEF HistInv, FoundInv, HSET
      <4> QED
        BY <4>1, <4>2 DEF IsOpen
    <3>2. CASE found[n].session # s
      BY <2>3, <3>2 DEF HSET, HistInv, HistTypes
    <3> QED
      BY <3>1, <3>2
  <2>4. CASE Tick
    BY <2>4 DEF Tick
  <2>5. ASSUME NEW z \in Session, Withdraw(z) PROVE log'[s] = log[s]
    BY <2>5 DEF Withdraw
  <2>6. ASSUME NEW n \in Node, \/ upload_record_item(n) \/ stop(n) \/ Crash(n) \/ Lose(n)
                               \/ Start(n) \/ Started(n)
        PROVE log'[s] = log[s]
    BY <2>6 DEF upload_record_item, stop, Crash, Lose, Start, Started
  <2>7. ASSUME NEW n \in Node, NEW z \in Session, Register(n, z) \/ HGETALL(n, z)
        PROVE log'[s] = log[s]
    BY <2>7 DEF Register, HGETALL
  <2> QED
    BY <2>2, <2>3, <2>4, <2>5, <2>6, <2>7 DEF HistNext
<1> QED
  BY <1>1, HistInvAlways, PTL DEF HistSpec, FinalKept

\* A cleanup that went through all records leaves none open that was stale when it
\* began, also if others were renewed, closed or added meanwhile.
THEOREM CleanupCompleteAlways == Timely /\ HistSpec => CleanupComplete
<1>1. HistInv /\ [HistNext]_histVars =>
        [\A n \in Node : proc[n] = "cleaning" /\ proc'[n] = "up" /\ todo[n] = {} =>
           \A s \in Session : IsOpen(log[s]) => began[n] - log[s].last_update <= Expire]_histVars
  <2> SUFFICES ASSUME HistInv, HistNext, NEW n \in Node, proc[n] = "cleaning", proc'[n] = "up",
                      todo[n] = {}, NEW s \in Session, IsOpen(log[s])
               PROVE  began[n] - log[s].last_update <= Expire
    OBVIOUS
  <2>1. found[n] = None
    <3>1. ASSUME NEW m \in Node, proc' = [proc EXCEPT ![m] = "up"], found[m] = None
          PROVE  found[n] = None
      BY <3>1 DEF HistInv, HistTypes
    <3>2. ASSUME NEW m \in Node, proc' = [proc EXCEPT ![m] = "down"] \/ proc' = [proc EXCEPT ![m] = "cleaning"]
          PROVE  FALSE
      BY <3>2 DEF HistInv, HistTypes
    <3>3. proc' = proc => FALSE
      OBVIOUS
    <3> QED
      BY <3>1, <3>2, <3>3 DEF HistNext, Tick, Withdraw, Execute, upload_record_item, stop, Crash, Lose,
                              Start, HSET, Started, Register, HGETALL
  <2> QED
    BY <2>1 DEF HistInv, DoneInv, IsOpen
<1> QED
  BY <1>1, HistInvAlways, PTL DEF HistSpec, CleanupComplete
=============================================================================
