------------------------------- MODULE Resolver -------------------------------
(***************************************************************************)
(* ContentDistributionIndex.resolve (distribution/packages.py): semantic   *)
(* versions and constraints, the loop that selects a release for every     *)
(* package a requirement or a selected release asks for, and the           *)
(* depth-first install order.  One iteration of each loop is one step; no  *)
(* other request runs meanwhile.  Packages are numbered in the order of    *)
(* their ids; a prerelease is a number, 0 for a release proper.            *)
(***************************************************************************)
EXTENDS Integers, Sequences

CONSTANTS
  Package,       \* the packages' numbers
  Version,       \* <<major, minor, patch, prerelease>>; an expression is a set of
                 \* clauses <<operator, version>>
  EngineVersion  \* engine_version of the requests

ASSUME PackageAssumption == Package \subseteq Nat
ASSUME VersionAssumption == Version \subseteq Nat \X Nat \X Nat \X Nat
ASSUME EngineAssumption == EngineVersion \in Version

\* What is asked for or needed has an expression for some of the packages.
Nothing == [p \in {} |-> {}]

\* SemanticVersion.__lt__: a prerelease comes before its release.
Older(v, w) ==
  \/ v[1] < w[1]
  \/ v[1] = w[1] /\ v[2] < w[2]
  \/ v[1] = w[1] /\ v[2] = w[2] /\ v[3] < w[3]
  \/ v[1] = w[1] /\ v[2] = w[2] /\ v[3] = w[3] /\ v[4] # 0 /\ (w[4] = 0 \/ v[4] < w[4])

NotOlder(v, w) == v = w \/ Older(w, v)

\* The first version a caret or a tilde excludes.
Above(operator, v) ==
  IF operator = "^" /\ v[1] # 0 THEN <<v[1] + 1, 0, 0, 0>> ELSE <<v[1], v[2] + 1, 0, 0>>

\* VersionConstraint._clause
Clause(v, clause) ==
  LET operator == clause[1]
      base == clause[2] IN
  CASE operator \in {"^", "~"} -> NotOlder(v, base) /\ Older(v, Above(operator, base))
    [] operator = ">=" -> NotOlder(v, base)
    [] operator = "<=" -> NotOlder(base, v)
    [] operator = ">"  -> Older(base, v)
    [] operator = "<"  -> Older(v, base)
    [] OTHER -> v = base

\* VersionConstraint.matches; "*" has no clause.
Matches(v, constraint) == \A clause \in constraint : Clause(v, clause)

VARIABLES
  releases,     \* distribution.release rows
  phase,        \* of the resolution: "idle", "selecting", "ordering", or its outcome
  catalog,      \* the index it has read
  requirements, \* what it was asked for
  constraints,  \* matchers collected for each package
  selected,     \* the release chosen for a package
  pending,      \* packages to look at, in order
  stack, order  \* the depth-first visit, packages done

resolution == <<phase, catalog, requirements, constraints, selected, pending, stack, order>>

NoResolution ==
  /\ phase = "idle" /\ catalog = {} /\ requirements = Nothing
  /\ constraints = [p \in Package |-> {}] /\ selected = Nothing /\ pending = {}
  /\ stack = <<>> /\ order = <<>>

Resolving == phase # "idle"
Least(S) == CHOOSE p \in S : \A q \in S : p <= q
Last(s) == s[Len(s)]
Members(s) == {s[i] : i \in 1..Len(s)}

\* resolve is called with the index just read.
Request(asked) ==
  /\ ~Resolving
  /\ phase' = "selecting" /\ catalog' = releases /\ requirements' = asked
  /\ constraints' = [p \in Package |-> IF p \in DOMAIN asked THEN {asked[p]} ELSE {}]
  /\ selected' = Nothing /\ pending' = DOMAIN asked
  /\ stack' = <<>> /\ order' = <<>>
  /\ UNCHANGED releases

Candidates(p) ==
  {r \in catalog :
     /\ r.id = p /\ Matches(EngineVersion, r.engine)
     /\ \A c \in constraints[p] : Matches(r.version, c)}

\* max of the candidates; the index holds a version once.
Newest(S) == {r \in S : \A other \in S : NotOlder(r.version, other.version)}

\* Slip: what the replaced release asked for is forgotten.
CollectAnew(p, r) ==
  [q \in Package |->
     (constraints[q] \ (IF p \in DOMAIN selected /\ q \in DOMAIN selected[p].needs
                        THEN {selected[p].needs[q]} ELSE {}))
     \cup (IF q \in DOMAIN r.needs THEN {r.needs[q]} ELSE {})]

\* The constraints of a chosen release join those there are, for good.
Collect(p, r) ==
  [q \in Package |-> constraints[q] \cup (IF q \in DOMAIN r.needs THEN {r.needs[q]} ELSE {})]

Choose(p, r) == [q \in DOMAIN selected \cup {p} |-> IF q = p THEN r ELSE selected[q]]

\* No release fits: ValueError.
Refuse ==
  /\ phase = "selecting" /\ pending # {}
  /\ Candidates(Least(pending)) = {}
  /\ phase' = "refused"
  /\ UNCHANGED <<releases, catalog, requirements, constraints, selected, pending, stack, order>>

\* Slip: a package that is selected is not looked at again.
SettledOnce(p, r) == p \in DOMAIN selected
Settled(p, r) == p \in DOMAIN selected /\ selected[p].version = r.version

\* One iteration: the newest candidate, unless it is selected already, and
\* whatever it depends on becomes pending.
Select ==
  /\ phase = "selecting" /\ pending # {}
  /\ LET p == Least(pending) IN
     \E r \in Newest(Candidates(p)) :
       IF Settled(p, r)
         THEN pending' = pending \ {p} /\ UNCHANGED <<constraints, selected>>
         ELSE /\ selected' = Choose(p, r)
              /\ constraints' = Collect(p, r)
              /\ pending' = (pending \ {p}) \cup DOMAIN r.needs
  /\ UNCHANGED <<releases, phase, catalog, requirements, stack, order>>

SelectionEnds ==
  /\ phase = "selecting" /\ pending = {}
  /\ phase' = "ordering"
  /\ UNCHANGED <<releases, catalog, requirements, constraints, selected, pending, stack, order>>

\* Slip: a package is done before what it needs.
BelowNothing(p) == {}
Below(p) == (DOMAIN selected[p].needs \cap DOMAIN selected) \ Members(order)

\* visit, of the next package that is not done.
VisitRoot ==
  /\ phase = "ordering" /\ stack = <<>> /\ DOMAIN selected # Members(order)
  /\ stack' = <<Least(DOMAIN selected \ Members(order))>>
  /\ UNCHANGED <<releases, phase, catalog, requirements, constraints, selected, pending, order>>

\* ... of what the package on top needs: a package under way closes a cycle.
VisitBelow ==
  LET p == Last(stack) IN
  /\ phase = "ordering" /\ stack # <<>> /\ Below(p) # {}
  /\ IF Least(Below(p)) \in Members(stack)
       THEN phase' = "cyclic" /\ UNCHANGED stack
       ELSE stack' = Append(stack, Least(Below(p))) /\ UNCHANGED phase
  /\ UNCHANGED <<releases, catalog, requirements, constraints, selected, pending, order>>

Visited ==
  LET p == Last(stack) IN
  /\ phase = "ordering" /\ stack # <<>> /\ Below(p) = {}
  /\ order' = Append(order, p)
  /\ stack' = SubSeq(stack, 1, Len(stack) - 1)
  /\ UNCHANGED <<releases, phase, catalog, requirements, constraints, selected, pending>>

Resolved ==
  /\ phase = "ordering" /\ stack = <<>> /\ DOMAIN selected = Members(order)
  /\ phase' = "done"
  /\ UNCHANGED <<releases, catalog, requirements, constraints, selected, pending, stack, order>>

\* The answer, or the error, leaves with the call's own variables.
Answer ==
  /\ phase \in {"refused", "cyclic", "done"}
  /\ phase' = "idle" /\ catalog' = {} /\ requirements' = Nothing
  /\ constraints' = [p \in Package |-> {}] /\ selected' = Nothing /\ pending' = {}
  /\ stack' = <<>> /\ order' = <<>>
  /\ UNCHANGED releases

Resolve ==
  \/ Answer
  \/ Refuse \/ Select \/ SelectionEnds
  \/ VisitRoot \/ VisitBelow \/ Visited \/ Resolved
=============================================================================
