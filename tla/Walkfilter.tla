----------------------------- MODULE Walkfilter -----------------------------
(* nssct.walkfilter: reduces recorded walks to the objects plugins query.    *)
(* With --transform the main process submits one job for each rule of the    *)
(* mapping file to a process pool and then waits for the results in order;   *)
(* without concurrent.futures a job is run when it is submitted.  A job      *)
(* filters a source into a temporary file and renames that.  Jobs share the  *)
(* file system, and the pool breaks when one of its processes dies.  Two     *)
(* rules may have one destination: nothing keeps their jobs from opening,    *)
(* renaming and unlinking one temporary file at the same time.               *)
EXTENDS Oids, SequencesExt

CONSTANTS Paths,       \* the files that rules name
          Stdout,      \* where --filter writes to
          Garbage,     \* a line that is no assignment, or a rule that is none
          Absent,      \* no file
          all_oids,    \* the prefixes of the objects plugins query
          Inputs,      \* what is checked: [rules, files, mode]
          Workers      \* the number of processes in the pool

Tmp(p) == << p, "tmp" >>
Temps  == {Tmp(p) : p \in Paths}

Content == Seq(Oid \cup {Garbage})

(* No rule names a temporary file.  Of these some may be there at the start, *)
(* left by an earlier run.  --filter is a rule from stdin.                   *)
ASSUME WalkfilterAssumption ==
    /\ Workers \in Nat \ {0}
    /\ all_oids \subseteq Oid
    /\ Garbage # Absent /\ {Garbage, Absent} \cap (Oid \cup Content) = {}
    /\ Temps \cap (Paths \cup {Stdout}) = {} /\ Stdout \notin Paths
    /\ Absent \notin Paths \cup Temps \cup {Stdout}
    /\ \A in \in Inputs :
          /\ in \in [rules : Seq([dst : Paths, src : Paths] \cup {Garbage}),
                     files : [Paths \cup Temps -> Content \cup {Absent}],
                     mode  : {"filter", "pool", "sync"}]
          /\ in.mode = "filter" =>
                /\ Len(in.rules) = 1 /\ in.rules[1] # Garbage
                /\ in.files[in.rules[1].src] # Absent

VARIABLES input,       \* the mapping file and the files at the start
          files,       \* the file system: the lines of a file
          ever,        \* for each path, what was ever in it
          jobs,        \* the submitted rules: [at, todo, out, pos, result]
          broken,      \* a process of the pool has died
          main         \* the main process: "submit", "collect", "ok" or "failed"

vars == <<input, files, ever, jobs, broken, main>>

Rule(j) == input.rules[j]
Dst(j)  == Rule(j).dst
Src(j)  == Rule(j).src

(* check_line                                                                *)
Queried(line) == \E o \in all_oids : StartsWith(line, o)

\* What check_stream has written after i of the lines.
Kept(lines) ==
    LET kept[i \in 0 .. Len(lines)] ==
            IF i = 0 THEN << >>
            ELSE IF Queried(lines[i]) THEN Append(kept[i - 1], lines[i]) ELSE kept[i - 1]
    IN  kept

Filtered(lines) == Kept(lines)[Len(lines)]

\* out is where the file is that the job has opened for writing, and pos how far
\* it has written.
NewJob == [at |-> "queued", todo |-> << >>, out |-> Absent, pos |-> 0, result |-> "pending"]

\* --filter: check_stream runs in the main process, from stdin to stdout.
FilterJob(lines) == [NewJob EXCEPT !.at = "lines", !.todo = lines, !.out = Stdout]

Init ==
    /\ input \in Inputs
    /\ files = [p \in Paths \cup Temps \cup {Stdout} |->
                  IF p = Stdout THEN << >> ELSE input.files[p]]
    /\ ever = [p \in Paths |-> {input.files[p]}]
    /\ jobs = IF input.mode = "filter" THEN << FilterJob(input.files[Src(1)]) >> ELSE << >>
    /\ broken = FALSE
    /\ main = IF input.mode = "filter" THEN "collect" ELSE "submit"

At(j, place)   == jobs[j].at = place
Goes(j, place) == jobs' = [jobs EXCEPT ![j].at = place]
Is(j, result)  == jobs[j].result = result

\* The result of a job, unless the pool has given it one.
With(job, result) == [job EXCEPT !.result = IF @ = "pending" THEN result ELSE @]

\* An exception leaves by way of the unlink.
Fails(job) == [With(job, "failed") EXCEPT !.at = "cleanup"]

Noted == ever' = [p \in Paths |-> ever[p] \cup {files'[p]}]
-----------------------------------------------------------------------------
(* transform, in a process of the pool.                                      *)
Running == {j \in DOMAIN jobs : jobs[j].at \notin {"queued", "done", "killed"}}

Takes(j) == /\ At(j, "queued") /\ ~ broken
            /\ \A k \in 1 .. j - 1 : ~ At(k, "queued")
            /\ Cardinality(Running) < Workers
            /\ Goes(j, "source")
            /\ UNCHANGED <<input, files, ever, broken, main>>

(* The source is read in one go, as its file does not change once it is open *)
(* unless it is the destination of two rules.                                *)
OpensSource(j) ==
    /\ At(j, "source")
    /\ jobs' = IF files[Src(j)] = Absent
               THEN [jobs EXCEPT ![j] = Fails(@)]
               ELSE [jobs EXCEPT ![j].at = "tmp", ![j].todo = files[Src(j)]]
    /\ UNCHANGED <<input, files, ever, broken, main>>

\* Mutation of Out: the destination is written in place.
OutInPlace(j) == IF input.mode = "filter" THEN Stdout ELSE Dst(j)

Out(j) == IF input.mode = "filter" THEN Stdout ELSE Tmp(Dst(j))

(* open(tmpfile, "w") truncates the file if it is there, or makes it.        *)
OpensTmp(j) == /\ At(j, "tmp")
               /\ files' = [files EXCEPT ![Out(j)] = << >>]
               /\ Noted
               /\ jobs' = [jobs EXCEPT ![j].at = "lines", ![j].out = Out(j)]
               /\ UNCHANGED <<input, broken, main>>

\* A write at position i.  Lines count as of one length, and a hole, which a
\* truncation by another job leaves, is left out.
Put(lines, i, line) == IF i <= Len(lines) THEN [lines EXCEPT ![i] = line] ELSE Append(lines, line)

\* Nobody sees what is written to a file that has no name any more.
Writes(j, line) ==
    /\ files' = IF jobs[j].out = Absent THEN files
                ELSE [files EXCEPT ![jobs[j].out] = Put(@, jobs[j].pos + 1, line)]
    /\ jobs' = [jobs EXCEPT ![j].todo = Tail(@), ![j].pos = @ + 1]
    /\ Noted

\* Mutation of FiltersLine: a line is written before it is looked at.
FiltersLineLate(j) ==
    LET line == Head(jobs[j].todo)
    IN  /\ At(j, "lines") /\ jobs[j].todo # << >>
        /\ IF line = Garbage THEN jobs' = [jobs EXCEPT ![j] = Fails(@)] /\ UNCHANGED <<files, ever>>
                             ELSE Writes(j, line)
        /\ UNCHANGED <<input, broken, main>>

(* One line of check_stream.                                                 *)
FiltersLine(j) ==
    LET line == Head(jobs[j].todo)
    IN  /\ At(j, "lines") /\ jobs[j].todo # << >>
        /\ IF line # Garbage /\ Queried(line) THEN Writes(j, line)
           ELSE /\ jobs' = IF line = Garbage THEN [jobs EXCEPT ![j] = Fails(@)]
                                             ELSE [jobs EXCEPT ![j].todo = Tail(@)]
                /\ UNCHANGED <<files, ever>>
        /\ UNCHANGED <<input, broken, main>>

FilterEnds(j) ==
    /\ At(j, "lines") /\ jobs[j].todo = << >> /\ input.mode = "filter"
    /\ jobs' = [jobs EXCEPT ![j] = [With(@, "ok") EXCEPT !.at = "done"]]
    /\ UNCHANGED <<input, files, ever, broken, main>>

\* Where an open file is after a rename.
Moved(out, from, to) == IF out = from THEN to ELSE IF out = to THEN Absent ELSE out

(* The rename takes what is in the temporary file, which may be another's;   *)
(* it fails if there is none, and the job as after any exception.            *)
Renames(j) ==
    LET tmp == Tmp(Dst(j))
    IN  /\ At(j, "lines") /\ jobs[j].todo = << >> /\ input.mode # "filter"
        /\ IF files[tmp] = Absent
           THEN jobs' = [jobs EXCEPT ![j] = Fails(@)] /\ UNCHANGED <<files, ever>>
           ELSE /\ files' = [files EXCEPT ![Dst(j)] = files[tmp], ![tmp] = Absent]
                /\ jobs' = [k \in DOMAIN jobs |->
                              [jobs[k] EXCEPT !.at = IF k = j THEN "cleanup" ELSE @,
                                              !.out = Moved(@, tmp, Dst(j))]]
                /\ Noted
        /\ UNCHANGED <<input, broken, main>>

(* OSError: a file cannot be opened, written, closed or renamed.             *)
Breaks(j) == /\ jobs[j].at \in {"source", "tmp", "lines"}
             /\ jobs' = [jobs EXCEPT ![j] = Fails(@)]
             /\ UNCHANGED <<input, files, ever, broken, main>>

Unlinks(j) == files' = IF input.mode = "filter" THEN files
                       ELSE [files EXCEPT ![Tmp(Dst(j))] = Absent]

\* The jobs once job has become that of j, and j's temporary file is unlinked.
Ended(j, job) ==
    jobs' = [k \in DOMAIN jobs |->
               [(IF k = j THEN job ELSE jobs[k]) EXCEPT
                   !.at  = IF k = j THEN "done" ELSE @,
                   !.out = IF @ = Tmp(Dst(j)) THEN Absent ELSE @]]

\* Mutation of Cleans: only a job that succeeds removes its temporary file.
CleansWhenDone(j) ==
    /\ At(j, "cleanup")
    /\ IF Is(j, "failed") THEN UNCHANGED files ELSE Unlinks(j)
    /\ Ended(j, With(jobs[j], "ok"))
    /\ UNCHANGED <<input, ever, broken, main>>

\* Mutation of Cleans: a job that returns nothing gets no result.
CleansUntold(j) ==
    /\ At(j, "cleanup")
    /\ Unlinks(j)
    /\ Ended(j, jobs[j])
    /\ UNCHANGED <<input, ever, broken, main>>

(* finally: unlink, whether or not there is a temporary file.  That the      *)
(* unlink of a file that is there fails, which nobody is told of, is left    *)
(* out.                                                                      *)
Cleans(j) ==
    /\ At(j, "cleanup")
    /\ Unlinks(j)
    /\ Ended(j, With(jobs[j], "ok"))
    /\ UNCHANGED <<input, ever, broken, main>>

(* A process dies.  The pool fails every job that has no result, queued or   *)
(* running, and kills the other processes, which happens a little later.     *)
Dies(j) ==
    /\ input.mode = "pool" /\ ~ broken /\ j \in Running
    /\ broken' = TRUE
    /\ jobs' = [k \in DOMAIN jobs |->
                  [With(jobs[k], "failed") EXCEPT !.at = IF k = j THEN "killed" ELSE @]]
    /\ UNCHANGED <<input, files, ever, main>>

IsKilled(j) == /\ broken /\ j \in Running
               /\ Goes(j, "killed")
               /\ UNCHANGED <<input, files, ever, broken, main>>
-----------------------------------------------------------------------------
(* The main process.                                                         *)
NextRule == Len(jobs) + 1

(* A syntax error ends main after earlier rules were submitted; a broken     *)
(* pool refuses jobs; without a pool, submit returns when the job is done.   *)
Submits ==
    /\ main = "submit" /\ NextRule <= Len(input.rules)
    /\ input.mode = "sync" => \A j \in DOMAIN jobs : At(j, "done")
    /\ IF Rule(NextRule) = Garbage \/ broken
       THEN main' = "failed" /\ UNCHANGED jobs
       ELSE jobs' = Append(jobs, NewJob) /\ UNCHANGED main
    /\ UNCHANGED <<input, files, ever, broken>>

AllSubmitted == /\ main = "submit" /\ NextRule > Len(input.rules)
                /\ input.mode = "sync" => \A j \in DOMAIN jobs : At(j, "done")
                /\ main' = "collect"
                /\ UNCHANGED <<input, files, ever, jobs, broken>>

\* Mutation of Collects: only the last result is looked at.
CollectsLast ==
    LET last == Len(jobs)
    IN  /\ main = "collect"
        /\ last > 0 => ~ Is(last, "pending")
        /\ main' = IF last > 0 /\ Is(last, "failed") THEN "failed" ELSE "ok"
        /\ UNCHANGED <<input, files, ever, jobs, broken>>

\* Mutation of Collects: a broken pool's results are waited for.
CollectsWaiting ==
    /\ main = "collect" /\ \A j \in DOMAIN jobs : At(j, "done")
    /\ main' = IF \E j \in DOMAIN jobs : Is(j, "failed") THEN "failed" ELSE "ok"
    /\ UNCHANGED <<input, files, ever, jobs, broken>>

(* The results are taken in order; the first exception ends main.            *)
Collects ==
    /\ main = "collect"
    /\ \/ /\ \A j \in DOMAIN jobs : Is(j, "ok")
          /\ main' = "ok"
       \/ /\ \E j \in DOMAIN jobs : Is(j, "failed") /\ \A k \in 1 .. j - 1 : Is(k, "ok")
          /\ main' = "failed"
    /\ UNCHANGED <<input, files, ever, jobs, broken>>

Works(j) == \/ Takes(j)       \/ OpensSource(j) \/ OpensTmp(j) \/ FiltersLine(j)
            \/ FilterEnds(j)  \/ Renames(j)     \/ Cleans(j)

Main == Submits \/ AllSubmitted \/ Collects

Next == \/ Main
        \/ \E j \in DOMAIN jobs : Works(j) \/ Breaks(j) \/ Dies(j) \/ IsKilled(j)

Jobs == UNION {DOMAIN in.rules : in \in Inputs}

Spec == Init /\ [][Next]_vars

(* Processes that live go on; at exit the interpreter waits for the pool.    *)
FairSpec == /\ Spec
            /\ WF_vars(Main)
            /\ \A j \in Jobs : WF_vars(j \in DOMAIN jobs /\ Works(j))
-----------------------------------------------------------------------------
TypeOK ==
    /\ \A j \in DOMAIN jobs :
          /\ jobs[j].at \in {"queued", "source", "tmp", "lines", "cleanup", "done", "killed"}
          /\ At(j, "done") => ~ Is(j, "pending")
    /\ Cardinality(Running) <= Workers
    /\ main \in {"submit", "collect", "ok", "failed"}

(* "A filtered walk should be safe for publishing even if the original walk  *)
(* contains confidential data" (walkfilter.py:5-7): nothing the program      *)
(* writes, temporary files that a dead process leaves included, has a line   *)
(* that no plugin queries.                                                   *)
NothingElseIsWritten ==
    \A p \in DOMAIN files :
        LET old == IF p = Stdout THEN << >> ELSE input.files[p]
        IN  files[p] \notin {old, Absent} => \A line \in Range(files[p]) : Queried(line)

\* The whole filters of what has been in the source of a rule.
Filters(j) ==
    LET whole == {l \in ever[Src(j)] \ {Absent} : Garbage \notin Range(l)}
    IN  {Filtered(l) : l \in whole}

(* What follows is of rules that do not meet in one file: main does not look *)
(* for rules with the same destination (walkfilter.py:75-84), and of two     *)
(* such jobs one may rename or unlink what the other is still writing.       *)
Rules    == {k \in DOMAIN input.rules : Rule(k) # Garbage}
Alone(j) == \A k \in Rules : Dst(k) = Dst(j) => k = j
Apart(j) == Alone(j) /\ \A k \in Rules : Dst(k) = Src(j) => Alone(k)

(* At every moment, whoever dies and whatever fails, a destination has its   *)
(* old lines or the whole filter of what was in its source, never a part;    *)
(* also when the source is another rule's destination, or the destination    *)
(* itself.  Of rules that have their files for themselves.                   *)
DestinationsAreWhole ==
    \A j \in DOMAIN jobs :
        Apart(j) /\ input.mode # "filter"
            => files[Dst(j)] \in {input.files[Dst(j)]} \cup Filters(j)

(* The program succeeds only when every rule's destination was made from its *)
(* source, if the rule has its files for itself, and with --filter only when *)
(* all of the input was filtered.                                            *)
SuccessIsComplete ==
    main = "ok" =>
        /\ Len(jobs) = Len(input.rules)
        /\ \A j \in DOMAIN jobs :
              Apart(j) => files[IF input.mode = "filter" THEN Stdout ELSE Dst(j)] \in Filters(j)

(* Only a process that died leaves a temporary file behind, if no other rule *)
(* has the same one.                                                         *)
NoLitter ==
    \A j \in DOMAIN jobs :
        At(j, "done") /\ Alone(j) /\ input.mode # "filter" => files[Tmp(Dst(j))] = Absent

(* The program ends, and a rule that fails stops no other: every submitted   *)
(* job ends or is killed with its pool.                                      *)
MainAndJobsEnd ==
    /\ <>(main \in {"ok", "failed"})
    /\ \A j \in Jobs :
          (j \in DOMAIN jobs) ~> (broken \/ (j \in DOMAIN jobs /\ At(j, "done")))
=============================================================================
