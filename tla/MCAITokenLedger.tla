-------------------------- MODULE MCAITokenLedger --------------------------
EXTENDS AITokenLedger

CONSTANTS a1, a2, i1, i2, p1, x1, x2, x3, q1, q2

MCOwnerOne == [s \in Sources \cup Requests |-> a1]
\* The second redemption belongs to the other Account.
MCOwnerTwo == [s \in Sources \cup Requests |-> IF s = x2 THEN a2 ELSE a1]

\* The second publication enlarges the renewal and the rate.
MCRenewal == <<[code |-> "renewal_v1", quantity |-> 2], [code |-> "renewal_v1", quantity |-> 3]>>
MCRate == <<2, 3>>
\* One version of a campaign: the second publication admits more to an Account and
\* less in all.
MCCampaign ==
    <<[version |-> 1, quantity |-> 2, days |-> 1, perAccount |-> 1, cap |-> 3],
      [version |-> 1, quantity |-> 1, days |-> 2, perAccount |-> 2, cap |-> 2]>>
MCBundle == [p \in Payments |-> 2]
=============================================================================
