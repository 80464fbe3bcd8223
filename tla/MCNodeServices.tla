---------------------------- MODULE MCNodeServices ----------------------------
(***************************************************************************)
(* Three services of a node that share no state: the history of            *)
(* connections, the HTTP thread, and the stream between two sessions.  A   *)
(* behaviour is about one of them; the others stay as they are.  Only the  *)
(* HTTP thread is required to make progress.                               *)
(***************************************************************************)
EXTENDS ConnHistory, HttpService, DataStream, TLC

VARIABLE part

MCDigit == "1" :> 1 @@ "2" :> 2
MCAhead == "n1" :> 0 @@ "n2" :> 1

ServicesInit ==
    /\ part \in {"history", "http", "stream"}
    /\ HistInit /\ HttpInit /\ StreamInit
    /\ part # "http" => data = Empty

ServicesNext ==
    \/ part = "history" /\ HistNext /\ UNCHANGED <<part, httpVars, streamVars>>
    \/ part = "http" /\ HttpNext /\ UNCHANGED <<part, histVars, streamVars>>
    \/ part = "stream" /\ StreamNext /\ UNCHANGED <<part, histVars, httpVars>>

ServicesSpec ==
    /\ ServicesInit /\ [][ServicesNext]_<<part, histVars, httpVars, streamVars>>
    /\ \A n \in Server : /\ WF_httpVars(part = "http" /\ Http_Gate_Callback(n))
                        /\ WF_httpVars(part = "http" /\ poll_and_broadcast(n))
                        /\ WF_httpVars(part = "http" /\ reconnect(n))

\* The types of the variables of all three.
ServicesTypeOK == HistTypeOK /\ HttpTypeOK /\ StreamTypeOK
=============================================================================
