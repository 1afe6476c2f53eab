---------------------------- MODULE MCWalkfilter ----------------------------
EXTENDS Walkfilter

CONSTANTS walk1, walk2, case1, case2

MCPaths == {walk1, walk2, case1, case2}

\* Two prefixes, objects below them and others.
MCOids == {<< 1, 2 >>, << 3 >>}

Plain   == << << 1, 2, 0 >>, << 1, 1 >>, << 3, 1 >> >>
Other   == << << 2 >>, << 3, 2 >> >>
Spoiled == << << 1, 2, 0 >>, Garbage, << 3, 1 >> >>
Old     == << << 3, 9 >> >>

To(dst, src) == [dst |-> dst, src |-> src]

\* An earlier run has died and left a temporary file.
Files(x, y)  == (walk1 :> x) @@ (walk2 :> y) @@ (case1 :> Old) @@ (case2 :> Absent)
                @@ (Tmp(case1) :> Plain) @@ [t \in Temps |-> Absent]

\* Independent rules, a rule whose source another one makes, a file filtered
\* in place, a syntax error after two rules, and two rules with one destination
\* beside one that has its own.
MCRules ==
    {<< To(case1, walk1), To(case2, walk2) >>,
     << To(case1, walk1), To(case2, case1), To(walk2, walk2) >>,
     << To(case1, walk1), To(walk1, case2), To(case2, walk2) >>,
     << To(case1, walk1), To(case2, walk2), Garbage >>,
     << To(case1, walk1), To(case1, walk2), To(case2, walk1) >>,
     << >>}

MCFiles == {Files(x, Other) : x \in {Plain, Spoiled, Absent}}

MCInputs == [rules : MCRules, mode : {"pool", "sync"}, files : MCFiles]
            \cup [rules : {r \in MCRules : Len(r) = 2}, mode : {"pool", "sync"},
                  files : {Files(Plain, Spoiled)}]
            \cup [rules : {<< To(case1, walk1) >>}, mode : {"filter"},
                  files : {Files(x, Other) : x \in {Plain, Spoiled, << >>}}]
=============================================================================
