------------------------------ MODULE WantSets ------------------------------
(***************************************************************************)
(* Demand for speakers (internal/cascade wantset.go, and localDemand of    *)
(* internal/room cascade_api.go): all but some users, or only some.        *)
(***************************************************************************)

\* WantSet: except counts if all, include otherwise.
WantSet(uids) == [all : BOOLEAN, except : SUBSET uids, include : SUBSET uids]

WantNone == [all |-> FALSE, except |-> {}, include |-> {}]
WantAllExcept(uids) == [all |-> TRUE, except |-> uids, include |-> {}]
WantOnly(uids) == [all |-> FALSE, except |-> {}, include |-> uids]

Wants(w, u) == IF w.all THEN u \notin w.except ELSE u \in w.include

\* Mutant: the exceptions are added up.
UnionOfExceptions(a, b) ==
  IF a.all \/ b.all THEN WantAllExcept(a.except \cup b.except)
  ELSE WantOnly(a.include \cup b.include)

Union(a, b) ==
  IF a.all /\ b.all THEN WantAllExcept(a.except \cap b.except)
  ELSE IF a.all THEN WantAllExcept(a.except \ b.include)
  ELSE IF b.all THEN WantAllExcept(b.except \ a.include)
  ELSE WantOnly(a.include \cup b.include)

\* Union over a set of them.
UnionAll(ws) ==
  IF \E w \in ws : w.all
  THEN WantAllExcept({u \in UNION {w.except : w \in ws} : \A w \in ws : ~Wants(w, u)})
  ELSE WantOnly(UNION {w.include : w \in ws})

Equal(a, b) ==
  a.all = b.all /\ IF a.all THEN a.except = b.except ELSE a.include = b.include

\* toWire, wantFromWire.
ToWire(w) == [all |-> w.all, uids |-> IF w.all THEN w.except ELSE w.include]
FromWire(ww) == IF ww.all THEN WantAllExcept(ww.uids) ELSE WantOnly(ww.uids)

\* localDemand over the listeners of a node, each with its uid and the users it
\* has unsubscribed.  Only users that somebody unsubscribed can be excepted.
LocalDemand(listeners) ==
  LET candidates == UNION {l.unsub : l \in listeners}
      Wanted(u) == \E l \in listeners : l.uid # u /\ u \notin l.unsub
  IN  IF listeners = {} THEN WantNone
      ELSE WantAllExcept({u \in candidates : ~Wanted(u)})
=============================================================================
