---------------------------- MODULE QueryService ----------------------------
(* What an engine promises (AbstractEngine): every get and getnext returns a *)
(* future that is completed once, with what the agent holds, or with an      *)
(* error only where there is a reason for one.  No queues, caches or steps.  *)
EXTENDS Agent

CONSTANTS OIDS, Pending, BackendError

VARIABLES service,      \* for every call, in order: what it asked, its answer
          failing       \* whether the device may fail to answer

Answer(o, v) == [oid |-> o, val |-> v]

(* Objects between prev_oid(o) and o hide o from a bulk query.               *)
Hidden(o) == \E k \in After(PrevOid(o)) : k \prec o

GetAnswers(o) ==
    {AgentGet(o)}
    \cup (IF After(o) = {} /\ o \notin DOMAIN MIB THEN {Answer(o, EndOfMibView)} ELSE {})
    \cup (IF failing \/ Hidden(o) THEN {Answer(o, BackendError)} ELSE {})

NextAnswers(o) ==
    {AgentNext(o)} \cup (IF failing THEN {Answer(o, BackendError)} ELSE {})

Answers(kind, o) == IF kind = "get" THEN GetAnswers(o) ELSE NextAnswers(o)

Open(c) == c.ans.val = Pending

Init == service = << >> /\ failing \in BOOLEAN

(* A call is appended; a cache may have its answer at once.                  *)
Ask ==
    LET s == service
        t == service'
        c == t[Len(t)]
    IN  /\ Len(t) = Len(s) + 1
        /\ SubSeq(t, 1, Len(s)) = s
        /\ c.kind \in {"get", "next"} /\ c.oid \in OIDS
        /\ c.ans \in Answers(c.kind, c.oid) \cup {Answer(c.oid, Pending)}

(* Open calls for the same thing may share a future: they are answered       *)
(* together.  An answer given stays.                                         *)
Reply ==
    LET s == service
        t == service'
    IN  /\ Len(t) = Len(s)
        /\ \E i \in DOMAIN s :
              /\ Open(s[i])
              /\ t[i] \in {[s[i] EXCEPT !.ans = a] :
                              a \in Answers(s[i].kind, s[i].oid)}
              /\ \A j \in DOMAIN s :
                    t[j] = s[j] \/ (s[j] = s[i] /\ t[j] = t[i])

Next == (Ask \/ Reply) /\ UNCHANGED failing

Spec == Init /\ [][Next]_<<service, failing>>
=============================================================================
