---------------------------- MODULE MCAgentJobs ----------------------------
EXTENDS AgentJobs
CONSTANTS m1, m2, f1, f2, u1, j1, j2, k1, k2

\* Every request has a job id of its own.
OneJobEach ==
  [r \in Requests |-> CASE r = m1 -> j1 [] r = m2 -> j2 [] r = f1 -> k1 [] r = u1 -> k2]

\* The same occurrence fires twice (after a restart or a new schedule document)
\* beside a message of the stream.
FiredTwice == [r \in Requests |-> IF r \in {f1, f2} THEN k1 ELSE j1]
=============================================================================
