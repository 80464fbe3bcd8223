---------------------------- MODULE MCSubscription ----------------------------
EXTENDS Subscription, TLC
CONSTANTS b1, b2, alias, here, there

\* One alias with a spare base; each base is the nearest somewhere.
Rules == alias :> <<b1, b2>>
Distances == here :> <<b1, b2>> @@ there :> <<b2, b1>>
=============================================================================
