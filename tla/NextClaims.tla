----------------------------- MODULE NextClaims -----------------------------
(* What ObjectCache promises about getnext, without its list: for every oid  *)
(* the cache knows the next object's oid, knows that there is none, or knows *)
(* nothing.  It may forget at any time; it never invents, and nothing it     *)
(* keeps contradicts what it was told last.                                  *)
EXTENDS Oids

CONSTANTS OIDS, Unknown, End

VARIABLE next          \* what the cache knows follows each oid

\* "the next object after p is m" and "the next object after o is n"
\* cannot both be true.
Contradict(p, m, o, n) ==
    IF m = End THEN p \prec n
    ELSE \/ p \prec n /\ n \prec m
         \/ o \prec m /\ m \prec n

Init == next = [p \in OIDS |-> Unknown]

(* The rest relates the claims before a step, was, to those after it, now.   *)
KeepOrForget(was, now, p) == now[p] = was[p] \/ now[p] = Unknown

\* Told that n comes right after o: every oid from o up to n answers n.
Learn(was, now, o, n) ==
    /\ o \prec n
    /\ \A p \in OIDS :
         IF o \preceq p /\ p \prec n THEN now[p] = n
         ELSE /\ KeepOrForget(was, now, p)
              /\ now[p] # Unknown => ~ Contradict(p, now[p], o, n)

\* Told that nothing comes after o: every oid from o on answers so.
LearnEnd(was, now, o) ==
    \A p \in OIDS :
        IF o \preceq p THEN now[p] = End
        ELSE /\ KeepOrForget(was, now, p)
             /\ now[p] \notin {Unknown, End} => now[p] \preceq o

\* Told all objects at once, which are those that now follow some oid;
\* whether the end is known afterwards is open.
Rebuild(now, e) ==
    LET told == {now[p] : p \in OIDS} \ {Unknown, End}
    IN  \A p \in OIDS :
            LET later == {k \in told : p \prec k}
            IN  IF later = {} THEN now[p] = e
                ELSE now[p] \in later /\ \A k \in later : now[p] \preceq k

Forget(was, now) == \A p \in OIDS : KeepOrForget(was, now, p)

Next == LET was == next
            now == next'
        IN  /\ now \in [OIDS -> OIDS \cup {Unknown, End}]
            /\ \/ Forget(was, now)
               \/ \E o, n \in OIDS : Learn(was, now, o, n)
               \/ \E o \in OIDS : LearnEnd(was, now, o)
               \/ \E e \in {End, Unknown} : Rebuild(now, e)

Spec == Init /\ [][Next]_next
=============================================================================
