---------------------------- MODULE MCAccessPolicy ----------------------------
EXTENDS AccessPolicy
Of(v, a, n) == [visible |-> v, access |-> a, nearby |-> n]
Open == [inside |-> Of(TRUE, TRUE, TRUE), outside |-> Of(TRUE, TRUE, TRUE), nearest |-> None]
\* A group with a mount point of its own, which is all it sees.
MCPolicy == {[inside |-> Of(TRUE, FALSE, TRUE), outside |-> Of(FALSE, FALSE, FALSE),
              nearest |-> m] : m \in Mount}
MCItem == {Of("disable", "enable", "default")}
=============================================================================
