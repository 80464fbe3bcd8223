------------------------------ MODULE DataStream ------------------------------
(***************************************************************************)
(* A chunked stream from a rover session (client_ntrip, client_near;       *)
(* relay_push writes the same, without a limit) to a session that takes it *)
(* apart again (relay_pull, and in the same words server_ntrip).  The      *)
(* network cuts the bytes into segments as it likes.                       *)
(*                                                                         *)
(* A byte is a member of Symbol; lengths of messages have one digit.       *)
(***************************************************************************)
EXTENDS Naturals, Sequences, SequencesExt

CONSTANTS
    Payload,     \* bytes of data: neither digits nor line ends
    Digit,       \* the length a digit stands for
    Limit,       \* unsend_byte_limit
    MaxMessages, \* bound: messages
    MaxBreaks    \* bound: connections lost

ASSUME StreamAssumption ==
    /\ Digit \in [DOMAIN Digit -> Nat \ {0}]
    /\ (Payload \cup {"cr", "lf"}) \cap DOMAIN Digit = {}
    /\ Payload \cap {"cr", "lf"} = {}
    /\ {Limit, MaxMessages, MaxBreaks} \subseteq Nat

Symbol == Payload \cup DOMAIN Digit \cup {"cr", "lf"}

VARIABLES
    alive,       \* the sending session runs
    out,         \* given to the connection, not arrived
    written,     \* data of the messages written to this connection
    state,       \* of the receiving session
    decoder,     \* what it keeps: _recv_evbuf, _chunked_size; what it has published
                 \* from this connection; ok is FALSE after a decoding error
    clean,       \* history: this connection began with _chunked_size = 0, and no
                 \* data came with the answer to its request
    messages, breaks

streamVars == <<alive, out, written, state, decoder, clean, messages, breaks>>

Decoder == [recv : Seq(Symbol), size : Nat, published : Seq(Symbol), ok : BOOLEAN]

StreamInit ==
    /\ alive = TRUE /\ out = <<>> /\ written = <<>> /\ state = "Handshaking"
    /\ decoder = [recv |-> <<>>, size |-> 0, published |-> <<>>, ok |-> TRUE]
    /\ clean = TRUE /\ messages = 0 /\ breaks = 0

-----------------------------------------------------------------------------
(* The sender.                                                             *)

chunk(digit, data) == <<digit, "cr", "lf">> \o data \o <<"cr", "lf">>
Message == {<<d, [i \in 1 .. Digit[d] |-> b]>> : d \in DOMAIN Digit, b \in Payload}

\* unsend_byte_limit, for the bytes that have not been sent.
BelowLimit == Len(out) <= Limit

\* A message for a session that does not get rid of its data ends it.
transfer_sub_raw_data(m) ==
    /\ alive /\ state # "WaitingRetry"
    /\ messages < MaxMessages /\ messages' = messages + 1
    /\ IF BelowLimit
       THEN /\ out' = out \o chunk(m[1], m[2]) /\ written' = written \o m[2] /\ UNCHANGED alive
       ELSE alive' = FALSE /\ UNCHANGED <<out, written>>
    /\ UNCHANGED <<state, decoder, clean, breaks>>

-----------------------------------------------------------------------------
(* The receiver.                                                           *)

\* sscanf, into the variable that holds the line's length.
Scanned(line) == IF line # <<>> /\ line[1] \in DOMAIN Digit THEN Digit[line[1]] ELSE Len(line)

\* Mistake: a line of which a part has arrived is taken for a header.
HeaderOfPart(d) == [d EXCEPT !.size = Scanned(d.recv), !.recv = SubSeq(@, 4, Len(@))]
\* evbuffer_readln: up to the first "lf", with the "cr" before it if there is one.
Header(d) ==
    LET ends == {i \in DOMAIN d.recv : d.recv[i] = "lf"} IN
    IF ends = {} THEN [d EXCEPT !.ok = FALSE]
    ELSE LET end  == CHOOSE i \in ends : \A j \in ends : i <= j
             last == IF end > 1 /\ d.recv[end - 1] = "cr" THEN end - 2 ELSE end - 1
         IN [d EXCEPT !.size = Scanned(SubSeq(d.recv, 1, last)),
                      !.recv = SubSeq(@, end + 1, Len(@))]

Complete(d) == d.size + 2 <= Len(d.recv)

Published(d) == [d EXCEPT !.published = @ \o SubSeq(d.recv, 1, d.size),
                          !.recv = SubSeq(@, d.size + 3, Len(@)),
                          !.size = 0]

\* Mistake: one chunk is published for each segment.
GoOnNever(d) == FALSE
GoOn(d) == d.recv # <<>>

publish_data_from_chunk[d \in Decoder] ==
    LET e == IF d.size = 0 THEN Header(d) ELSE d IN
    IF ~e.ok \/ ~Complete(e) THEN e
    ELSE IF GoOn(Published(e)) THEN publish_data_from_chunk[Published(e)] ELSE Published(e)

\* Neither the buffer nor _chunked_size is reset.
schedule_retry(d) == state' = "WaitingRetry" /\ decoder' = [d EXCEPT !.ok = TRUE]

\* A segment of k bytes arrives.  While the registration is under way it is only
\* put into the buffer.
ReadCallback(k) ==
    /\ k <= Len(out) /\ state \in {"Registering", "Running"}
    /\ out' = SubSeq(out, k + 1, Len(out))
    /\ LET d == [decoder EXCEPT !.recv = @ \o SubSeq(out, 1, k)]
           e == publish_data_from_chunk[d]
       IN IF state = "Registering" THEN decoder' = d /\ UNCHANGED state
          ELSE IF e.ok THEN decoder' = e /\ UNCHANGED state ELSE schedule_retry(e)
    /\ UNCHANGED <<alive, written, clean, messages, breaks>>

\* The answer is verified together with the bytes in the buffer, those left by the
\* last connection first; data that arrive with it are gone like the rest of the
\* buffer.
handle_handshake(k) ==
    /\ state = "Handshaking" /\ k <= Len(out) /\ out' = SubSeq(out, k + 1, Len(out))
    /\ clean' = (clean /\ k = 0)
    /\ state' = IF decoder.recv = <<>> THEN "Registering" ELSE "WaitingRetry"
    /\ decoder' = [decoder EXCEPT !.recv = <<>>]
    /\ UNCHANGED <<alive, written, messages, breaks>>

CasterRegisterCallback ==
    /\ state = "Registering" /\ state' = "Running"
    /\ UNCHANGED <<alive, out, written, decoder, clean, messages, breaks>>

\* The connection is lost, with what was under way, or closed by the sender.
EventCallback ==
    /\ state \in {"Handshaking", "Registering", "Running"}
    /\ IF alive THEN breaks < MaxBreaks /\ breaks' = breaks + 1 ELSE UNCHANGED breaks
    /\ schedule_retry(decoder)
    /\ UNCHANGED <<alive, out, written, clean, messages>>

\* A new connection, to a new session of the sender.
TimeoutCallback ==
    /\ state = "WaitingRetry" /\ state' = "Handshaking"
    /\ alive' = TRUE /\ out' = <<>> /\ written' = <<>>
    /\ decoder' = [decoder EXCEPT !.published = <<>>]
    /\ clean' = (decoder.size = 0)
    /\ UNCHANGED <<messages, breaks>>

StreamNext ==
    \/ \E m \in Message : transfer_sub_raw_data(m)
    \/ \E k \in 1 .. Len(out) : ReadCallback(k)
    \/ \E k \in 0 .. Len(out) : handle_handshake(k)
    \/ CasterRegisterCallback \/ EventCallback \/ TimeoutCallback

StreamSpec == StreamInit /\ [][StreamNext]_streamVars

-----------------------------------------------------------------------------

StreamTypeOK ==
    /\ {alive, clean} \subseteq BOOLEAN
    /\ out \in Seq(Symbol) /\ written \in Seq(Payload) /\ decoder \in Decoder
    /\ state \in {"Handshaking", "Registering", "Running", "WaitingRetry"}
    /\ messages \in 0 .. MaxMessages /\ breaks \in 0 .. MaxBreaks

\* However the stream is cut into segments, what is published is what was sent, in
\* its order and without the framing.  (Not so in a connection that finds
\* _chunked_size as the last one left it, or whose first data come with the answer
\* to its request, see the README.)
PublishedIsSent == clean => IsPrefix(decoder.published, written)

\* A segment that brings all the rest of the stream neither ends the session nor
\* leaves anything unpublished, what arrived while the registration was under way
\* included.  (One that ends within a header does end it, see the README.)
AllIsPublished ==
    [][state = "Running" /\ clean /\ out # <<>> /\ out' = <<>>
       => state' = "Running" /\ decoder'.published = written]_streamVars
=============================================================================
