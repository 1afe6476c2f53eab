-------------------------------- MODULE Oids --------------------------------
(* Object identifiers.  The program holds them as Python tuples of           *)
(* non-negative integers and leaves their order to the tuple comparison of   *)
(* the language; that order, prev_oid and the prefix test of the plugins are *)
(* all the arithmetic the caches and engines do on them.                     *)
EXTENDS Integers, Sequences

Oid == Seq(Nat)

(* Tuple comparison: the first position that differs decides, and a proper   *)
(* prefix comes first.  n is that position, or one past the end of a.        *)
a \prec b ==
    \E n \in 1 .. Len(b) :
        /\ n <= Len(a) + 1
        /\ \A i \in 1 .. n - 1 : a[i] = b[i]
        /\ n <= Len(a) => a[n] < b[n]

a \preceq b == a \prec b \/ a = b

(* prev_oid asserts a non-empty oid.  Its result is smaller than oid, but    *)
(* other oids lie between the two: every extension of <<1, 0>> follows       *)
(* <<1, 0>> = PrevOid(<<1, 1>>) and precedes <<1, 1>>.                       *)
PrevOid(o) ==
    LET l == Len(o)
    IN  IF o[l] = 0 THEN SubSeq(o, 1, l - 1)
                    ELSE [o EXCEPT ![l] = @ - 1]

(* oid[:len(base)] == base                                                   *)
StartsWith(o, base) == /\ Len(base) <= Len(o)
                       /\ \A i \in 1 .. Len(base) : o[i] = base[i]
=============================================================================
