--------------------------- MODULE MCCredentials ---------------------------
EXTENDS Credentials, TLC
CONSTANTS t1, t2

\* The two transactions are alike.
Symmetry == Permutations({t1, t2})

\* What a transaction that is over once read or was shown is of no consequence.
Live(t) ==
  IF phase[t] = "idle" THEN "idle"
  ELSE <<phase[t], kind[t], shown[t], readCur[t], fresh[t], t \in overlapped>>
View == <<row, [t \in Tx |-> Live(t)], commands, life, disk,
          IF life = "down" THEN 0 ELSE mem, IF life = "up" THEN dialled ELSE 0,
          link, asking, waiting, excuse, faults>>

\* Explore no further once two things have gone wrong.
OneExcuse == Cardinality(excuse) <= 1
=============================================================================
