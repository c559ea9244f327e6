----------------------------- MODULE MCEventLog -----------------------------
EXTENDS EventLog

\* No data, data that looks like a magic, and data as long as a record.
MCPayloads == {<<>>, <<99>>, <<2, 2, 2, 2, 2, 2, 2, 2>>}

\* The same, for longer logs.
MCTwoPayloads == MCPayloads \ {<<>>}

\* Stamps that grow, and stamps that step back.
MCStamps == {<<1, 2, 4, 5>>, <<3, 1, 4>>}
=============================================================================
