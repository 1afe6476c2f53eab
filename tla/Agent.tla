------------------------------- MODULE Agent --------------------------------
(* The agent as the engines see it through a backend: a fixed MIB, and the   *)
(* answers to GET and GETNEXT about it.  NetworkBackend forwards these       *)
(* queries to a device; GETBULK is many GETNEXTs (see Engine).               *)
EXTENDS ObjectCache

CONSTANTS MIB             \* the agent's objects: a function from oid to value

ASSUME MIBAssumption ==
    /\ DOMAIN MIB \subseteq Oid \ {<< >>}
    /\ IsFiniteSet(DOMAIN MIB)
    /\ MIB \in [DOMAIN MIB -> Value]

After(o) == {k \in DOMAIN MIB : o \prec k}

\* k is the first object after o
IsNext(o, k) == k \in After(o) /\ \A j \in After(o) : k \preceq j

AgentGet(o) ==
    [oid |-> o, val |-> IF o \in DOMAIN MIB THEN MIB[o] ELSE NoSuchObject]

AgentNext(o) ==
    IF After(o) = {} THEN [oid |-> o, val |-> EndOfMibView]
    ELSE LET k == CHOOSE k \in After(o) : IsNext(o, k)
         IN  [oid |-> k, val |-> MIB[k]]
=============================================================================
