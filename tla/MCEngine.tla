------------------------------ MODULE MCEngine ------------------------------
(* Small agents for the engines.                                             *)
EXTENDS Engine

CONSTANTS v1, v2, v3    \* values

Setup(c, b, f) == [cache |-> c, bulk |-> b, fails |-> f]

\* Look-ahead on a device that answers, the four other stacks on one that may
\* fail at any query, and all of them.
MCAhead  == {Setup(TRUE, 2, FALSE)}
MCOthers == {Setup(c, b, TRUE) : c \in BOOLEAN, b \in {-1, 0}}
MCStacks == MCAhead \cup MCOthers
MCSticky == {Setup(TRUE, 0, TRUE)}
MCCrash  == {Setup(TRUE, 2, TRUE)}

\* A table with two rows and an object after it, as most walks meet them; the
\* queries start at the table, at its first row and at an absent second row.
MCMib == (<<1, 0>> :> v1) @@ (<<1, 2>> :> v2) @@ (<<3>> :> v3)
MCOids == {<<1>>, <<1, 0>>, <<1, 1>>, <<3>>}

\* prev_oid(<<1, 1>>) is <<1, 0>>, but <<1, 0, 5>> lies between the two.
MCGapMib == (<<1, 0>> :> v1) @@ (<<1, 0, 5>> :> v2) @@ (<<1, 1>> :> v3)
MCGapOids == {<<1>>, <<1, 0>>, <<1, 1>>, <<2>>}

\* The same with an object after the table; the last query is past the end.
MCEndMib  == MCGapMib @@ (<<3>> :> v2)
MCEndOids == {<<1>>, <<1, 0>>, <<1, 1>>, <<4>>}
=============================================================================
