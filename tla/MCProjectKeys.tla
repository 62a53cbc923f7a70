-------------------------- MODULE MCProjectKeys --------------------------
(* Instances of ProjectKeys for TLC. *)
EXTENDS ProjectKeys

CONSTANTS p1, sys, s1, s2
OneProject  == {p1}
TwoSettings == {s1, s2}
OneSetting  == {s1}

\* A calm course of events: the CR is changed when the jobs that were made have
\* ended, and they do not fail.
CalmNext ==
    /\ Next
    /\ setting' # setting => \A v \in Versions : jobs[v] # "running"
    /\ \A v \in Versions : jobs'[v] # "failed"

CalmSpec == Init /\ [][CalmNext]_vars
==========================================================================
