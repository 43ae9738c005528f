--------------------------- MODULE ContentProofs ---------------------------
(* For all packages, catalogs, packs and numbers of requests: what has been      *)
(* resolved holds, and answered revisions keep their snapshots.                  *)
EXTENDS Content, FiniteSetTheorems, WellFoundedInduction, TLAPS

USE DEF Idle

\* Everything but the resolution leaves its variables alone.
LEMMA OthersLeaveResolution ==
  ASSUME Other
  PROVE  BeginResolution \/ UNCHANGED resolution
BY DEF Other, Crash, CreateProject, BeginEdit, BeginRestore, Start, ReadCurrent, WriteProject,
       WriteRevision, PublishProject, Upload, BeginPublish, PutRelease, PublishItem, PutPack, PutItem, Proceed

----------------------------------------------------------------------------
(* Types *)

\* The pack of an edit: one of the project's with a change, or an imported one.
LEMMA EditsArePacks ==
  ASSUME NEW pack \in Pack, NEW new \in Edits(pack)
  PROVE  new \in Pack
BY PackAssumption, ObjectAssumption DEF Edits, Sets, Drops, Renames, Pack

\* A publication starts with a pack, to be released or only listed.
LEMMA PublishesAPack ==
  ASSUME TypeOK, NEW e \in Editor, PublishProject(e) \/ Upload(e)
  PROVE  \E first \in {"release", "market"}, pack \in Pack : BeginPublish(e, first, pack)
<1>1. CASE PublishProject(e)
  <2>1. project.pack \in Pack
    BY <1>1 DEF PublishProject, TypeOK
  <2> QED
    BY <1>1, <2>1 DEF PublishProject
<1>2. CASE Upload(e)
  <2>1. PICK pack \in Drafts : BeginPublish(e, "market", pack)
    BY <1>2 DEF Upload
  <2> QED
    BY <2>1, PackAssumption
<1> QED
  BY <1>1, <1>2

\* A restoration under way has a current project to read.
TInv == TypeOK /\ \A e \in Editor : edit[e].stage = "current" => project # None

LEMMA TypesStart ==
  ASSUME Init
  PROVE  TInv
<1>1. \A r \in releases : r.id \in Package /\ DOMAIN r.needs \subseteq Package
  BY ReleaseAssumption DEF Init
<1>2. /\ catalog = {} /\ DOMAIN requirements = {} /\ DOMAIN history = {}
      /\ phase = "idle"
  BY DEF Init, NoResolution, Nothing, Empty
<1>3. \A e \in Editor : edit[e] = Idle
  BY DEF Init
<1> QED
  BY <1>1, <1>2, <1>3 DEF Init, TInv, TypeOK

LEMMA TypesKept ==
  ASSUME TInv, [Next]_vars
  PROVE  TInv'
<1>1. CASE ~Resolving /\ BeginResolution
  BY <1>1, ReleaseAssumption
  DEF TInv, TypeOK, BeginResolution, Request, Count, studio, registry
<1>2. CASE ~Resolving /\ Crash
  BY <1>2 DEF TInv, TypeOK, Crash, resolution
<1>3. ASSUME NEW e \in Editor, CreateProject(e) PROVE TInv'
  BY <1>3 DEF TInv, TypeOK, CreateProject, Start, Count, Pack, resolution, registry
<1>4. ASSUME NEW e \in Editor, BeginEdit(e) PROVE TInv'
  <2>1. PICK pack \in Edits(project.pack) :
          Start(e, [stage |-> "project", revision |-> project.revision + 1, pack |-> pack])
    BY <1>4 DEF BeginEdit
  <2>2. project.pack \in Pack /\ project.revision + 1 \in Nat
    BY <1>4 DEF TInv, TypeOK, BeginEdit
  <2>3. pack \in Pack
    BY <2>1, <2>2, EditsArePacks
  <2> QED
    BY <2>1, <2>2, <2>3 DEF TInv, TypeOK, Start, Count, resolution, registry
<1>5. ASSUME NEW e \in Editor, BeginRestore(e) PROVE TInv'
  BY <1>5 DEF TInv, TypeOK, BeginRestore, Start, Count, resolution, registry
<1>6. ASSUME NEW e \in Editor, ReadCurrent(e) PROVE TInv'
  <2>1. project.revision + 1 \in Nat
    BY <1>6 DEF TInv, TypeOK, ReadCurrent
  <2>2. edit[e] \in [stage : {"current", "project", "revision"}, revision : Nat, pack : Pack]
    BY <1>6 DEF TInv, TypeOK, ReadCurrent
  <2>3. project # None /\ UNCHANGED project
    BY <1>6 DEF TInv, ReadCurrent
  <2>4. edit' \in [Editor ->
          {Idle} \cup [stage : {"current", "project", "revision"}, revision : Nat, pack : Pack]]
    BY <1>6, <2>1, <2>2 DEF TInv, TypeOK, ReadCurrent, NextRevision
  <2> QED
    BY <1>6, <2>3, <2>4 DEF TInv, TypeOK, ReadCurrent, resolution, registry, counters
<1>7. ASSUME NEW e \in Editor, WriteProject(e) PROVE TInv'
  BY <1>7, PackAssumption DEF TInv, TypeOK, WriteProject, resolution, registry, counters
<1>8. ASSUME NEW e \in Editor, WriteRevision(e) PROVE TInv'
  BY <1>8 DEF TInv, TypeOK, WriteRevision, With, resolution, registry, counters
<1>9. ASSUME NEW e \in Editor, PublishProject(e) \/ Upload(e) PROVE TInv'
  <2>1. PICK first \in {"release", "market"}, pack \in Pack : BeginPublish(e, first, pack)
    BY <1>9, PublishesAPack DEF TInv
  <2> QED
    BY <2>1 DEF TInv, TypeOK, BeginPublish, Count, resolution, studio
<1>10. ASSUME NEW e \in Editor, PutRelease(e) PROVE TInv'
  <2>1. publish[e].pack.version \in Manifest
    BY <1>10 DEF TInv, TypeOK, PutRelease, Proceed, Pack
  <2> QED
    BY <1>10, <2>1, ReleaseAssumption
    DEF TInv, TypeOK, PutRelease, Proceed, ReleaseOf, resolution, studio, counters
<1>11. ASSUME NEW e \in Editor, PublishItem(e) \/ PutPack(e) \/ PutItem(e) PROVE TInv'
  BY <1>11 DEF TInv, TypeOK, PublishItem, PutPack, PutItem, Proceed, resolution, studio, counters
<1>12. CASE Resolve /\ UNCHANGED <<studio, registry, counters>>
  BY <1>12 DEF TInv, TypeOK, Resolve, Answer, Refuse, Select, SelectionEnds, VisitRoot, VisitBelow,
               Visited, Resolved, Nothing, studio, registry, counters
<1>13. CASE UNCHANGED vars
  BY <1>13 DEF TInv, TypeOK, vars, resolution, studio, registry, counters
<1> QED
  BY <1>1, <1>2, <1>3, <1>4, <1>5, <1>6, <1>7, <1>8, <1>9, <1>10, <1>11, <1>12, <1>13
  DEF Next, Other

\* Every reachable state of a project, its publications and a resolution is well
\* typed, for any packs, catalogs and bounds.
THEOREM TypeCorrect == Spec => []TypeOK
<1>1. TInv => TypeOK
  BY DEF TInv
<1> QED
  BY <1>1, TypesStart, TypesKept, PTL DEF Spec

----------------------------------------------------------------------------
(* What has been resolved *)

\* Requirements and needs are among the constraints of their package, and that
\* package is selected or still to be looked at.
Asks(needs) ==
  \A q \in DOMAIN needs :
    needs[q] \in constraints[q] /\ q \in DOMAIN selected \cup pending

\* A release that is selected and not to be looked at again answers every
\* constraint there is by now.
Suits(p) ==
  /\ selected[p] \in catalog /\ selected[p].id = p
  /\ Matches(EngineVersion, selected[p].engine)
  /\ Asks(selected[p].needs)
  /\ p \notin pending => \A c \in constraints[p] : Matches(selected[p].version, c)

RInv ==
  phase # "idle" =>
    /\ DOMAIN constraints = Package
    /\ Asks(requirements)
    /\ \A p \in DOMAIN selected : Suits(p)
    /\ phase \in {"ordering", "done"} => pending = {}

\* One iteration keeps it: constraints grow only for packages that become pending.
LEMMA SelectKeeps ==
  ASSUME TInv, RInv, Select
  PROVE  RInv'
<1> DEFINE p == Least(pending)
<1>1. PICK r \in Newest(Candidates(p)) :
        IF Settled(p, r)
          THEN pending' = pending \ {p} /\ UNCHANGED <<constraints, selected>>
          ELSE /\ selected' = Choose(p, r)
               /\ constraints' = Collect(p, r)
               /\ pending' = (pending \ {p}) \cup DOMAIN r.needs
  BY DEF Select
<1>2. /\ r \in catalog /\ r.id = p /\ Matches(EngineVersion, r.engine)
      /\ \A c \in constraints[p] : Matches(r.version, c)
      /\ p \in Package /\ DOMAIN r.needs \subseteq Package
  BY <1>1 DEF Newest, Candidates, TInv, TypeOK
<1>3. /\ phase = "selecting" /\ UNCHANGED <<phase, catalog, requirements>>
      /\ DOMAIN constraints = Package /\ Asks(requirements)
      /\ \A x \in DOMAIN selected : Suits(x)
      /\ DOMAIN requirements \subseteq Package
  BY DEF Select, RInv, TInv, TypeOK
<1>4. CASE Settled(p, r)
  <2>1. pending' = pending \ {p} /\ UNCHANGED <<constraints, selected>> /\ p \in DOMAIN selected
    BY <1>1, <1>4 DEF Settled
  <2>2. Asks(requirements)'
    BY <1>3, <2>1 DEF Asks
  <2>3. ASSUME NEW x \in DOMAIN selected PROVE Suits(x)'
    <3>1. Suits(x)
      BY <1>3
    <3>2. Asks(selected[x].needs)'
      BY <3>1, <2>1 DEF Suits, Asks
    <3>3. x \notin pending' => \A c \in constraints[x] : Matches(selected[x].version, c)
      BY <3>1, <2>1, <1>2, <1>4 DEF Suits, Settled
    <3> QED
      BY <3>1, <3>2, <3>3, <2>1, <1>3 DEF Suits
  <2> QED
    BY <2>1, <2>2, <2>3, <1>3 DEF RInv
<1>5. CASE ~Settled(p, r)
  <2>1. /\ selected' = Choose(p, r) /\ constraints' = Collect(p, r)
        /\ pending' = (pending \ {p}) \cup DOMAIN r.needs
    BY <1>1, <1>5
  <2>2. /\ DOMAIN selected' = DOMAIN selected \cup {p} /\ selected'[p] = r
        /\ \A x \in DOMAIN selected \ {p} : selected'[x] = selected[x]
    BY <2>1 DEF Choose
  <2>3. /\ DOMAIN constraints' = Package
        /\ \A q \in Package : constraints[q] \subseteq constraints'[q]
        /\ \A q \in DOMAIN r.needs : r.needs[q] \in constraints'[q]
        /\ \A q \in Package \ DOMAIN r.needs : constraints'[q] = constraints[q]
    BY <2>1, <1>2 DEF Collect
  <2>4. DOMAIN selected \cup pending \subseteq DOMAIN selected' \cup pending'
    BY <2>1, <2>2
  <2>5. Asks(requirements)'
    BY <1>3, <2>3, <2>4 DEF Asks
  <2>6. ASSUME NEW x \in DOMAIN selected' PROVE Suits(x)'
    <3>1. CASE x = p
      <4>1. Asks(selected[x].needs)'
        BY <3>1, <2>1, <2>2, <2>3 DEF Asks
      <4>2. x \notin pending' => \A c \in constraints'[x] : Matches(selected'[x].version, c)
        BY <3>1, <1>2, <2>1, <2>2, <2>3
      <4> QED
        BY <4>1, <4>2, <3>1, <1>2, <1>3, <2>2 DEF Suits
    <3>2. CASE x # p
      <4>1. x \in DOMAIN selected /\ selected'[x] = selected[x] /\ Suits(x)
        BY <3>2, <2>2, <1>3
      <4>2. x \in Package /\ DOMAIN selected[x].needs \subseteq Package
        BY <4>1 DEF Suits, TInv, TypeOK
      <4>3. Asks(selected[x].needs)'
        BY <4>1, <4>2, <2>3, <2>4 DEF Suits, Asks
      <4>4. x \notin pending' => \A c \in constraints'[x] : Matches(selected'[x].version, c)
        BY <4>1, <4>2, <3>2, <2>1, <2>3 DEF Suits
      <4> QED
        BY <4>1, <4>3, <4>4, <1>3 DEF Suits
    <3> QED
      BY <3>1, <3>2
  <2> QED
    BY <2>3, <2>5, <2>6, <1>3 DEF RInv
<1> QED
  BY <1>4, <1>5

\* The needs of what is selected are answered by what is selected, once nothing
\* is left to look at.
LEMMA SettledHolds ==
  ASSUME RInv
  PROVE  ResolutionHolds
<1> SUFFICES ASSUME phase \in {"ordering", "done"} PROVE ResolutionHolds
  BY DEF ResolutionHolds
<1>1. pending = {} /\ Asks(requirements) /\ \A p \in DOMAIN selected : Suits(p)
  BY DEF RInv
<1>2. ASSUME NEW needs, Asks(needs), NEW q \in DOMAIN needs
      PROVE  q \in DOMAIN selected /\ Matches(selected[q].version, needs[q])
  BY <1>1, <1>2 DEF Asks, Suits
<1> QED
  BY <1>1, <1>2 DEF ResolutionHolds, Suits

LEMMA ResolutionKeeps ==
  ASSUME TInv, RInv, [Next]_vars
  PROVE  RInv'
<1>1. CASE ~Resolving /\ BeginResolution
  <2>1. PICK asked \in Asked : Request(asked)
    BY <1>1 DEF BeginResolution
  <2>2. /\ DOMAIN constraints' = Package /\ DOMAIN asked \subseteq Package
        /\ requirements' = asked /\ pending' = DOMAIN asked
        /\ \A q \in DOMAIN asked : asked[q] \in constraints'[q]
        /\ DOMAIN selected' = {} /\ phase' = "selecting"
    BY <2>1, ReleaseAssumption DEF Request, Nothing
  <2> QED
    BY <2>2 DEF RInv, Asks
<1>2. CASE ~Resolving /\ UNCHANGED resolution
  BY <1>2 DEF RInv, Resolving, resolution
<1>3. CASE Select
  BY <1>3, SelectKeeps
<1>4. CASE Answer
  BY <1>4 DEF Answer, RInv
<1>5. CASE Refuse \/ SelectionEnds \/ VisitRoot \/ VisitBelow \/ Visited \/ Resolved
  BY <1>5 DEF Refuse, SelectionEnds, VisitRoot, VisitBelow, Visited, Resolved, RInv, Suits, Asks
<1>6. CASE UNCHANGED vars
  BY <1>6 DEF vars, resolution, RInv, Suits, Asks
<1> QED
  BY <1>1, <1>2, <1>3, <1>4, <1>5, <1>6, OthersLeaveResolution DEF Next, Resolve

\* What a resolution selects answers every requirement and every need, for any
\* catalog, versions and requests (ContentDistributionIndex.resolve).
THEOREM ResolutionIsSound == Spec => []ResolutionHolds
<1>1. Init => TInv /\ RInv
  BY TypesStart DEF Init, NoResolution, RInv
<1>2. TInv /\ RInv /\ [Next]_vars => TInv' /\ RInv'
  BY TypesKept, ResolutionKeeps
<1>3. RInv => ResolutionHolds
  BY SettledHolds
<1> QED
  BY <1>1, <1>2, <1>3, PTL DEF Spec

----------------------------------------------------------------------------
(* The install order *)

\* The least of some packages is one of them.
LEMMA LeastIsThere ==
  ASSUME NEW S \in SUBSET Package, S # {}
  PROVE  Least(S) \in S
<1> DEFINE Lesser(x) == {y \in S : y < x}
           T == {Lesser(x) : x \in S}
<1>0. S \subseteq Nat
  BY PackageAssumption
<1>1. IsWellFoundedOn(StrictSubsetOrdering(S), FiniteSubsetsOf(S))
  BY FS_StrictSubsetOrderingWellFounded
<1>2. T \subseteq FiniteSubsetsOf(S) /\ T # {}
  <2>1. ASSUME NEW x \in S PROVE IsFiniteSet(Lesser(x))
    <3>1. Lesser(x) \subseteq 0..x
      <4>1. \A y \in Lesser(x) : y \in Nat /\ x \in Nat /\ y < x
        BY <1>0
      <4> QED
        BY <4>1
    <3>2. IsFiniteSet(0..x)
      BY <1>0, FS_Interval
    <3> QED
      BY <3>1, <3>2, FS_Subset
  <2> QED
    BY <2>1 DEF FiniteSubsetsOf
<1> HIDE DEF T
<1>3. PICK A \in T : \A B \in T : ~ (<<B, A>> \in StrictSubsetOrdering(S))
  BY <1>1, <1>2, WFMin
<1> USE DEF T
<1>4. PICK x \in S : A = Lesser(x)
  BY <1>3
<1>5. ASSUME NEW y \in S, y < x PROVE FALSE
  <2>1. \A z \in S : z < y => z < x
    BY <1>0, <1>5
  <2>2. y \in Lesser(x) /\ y \notin Lesser(y)
    BY <1>0, <1>5
  <2>3. <<Lesser(y), Lesser(x)>> \in StrictSubsetOrdering(S)
    BY <2>1, <2>2 DEF StrictSubsetOrdering
  <2> QED
    BY <1>3, <1>4, <2>3
<1>6. \A y \in S : x <= y
  BY <1>0, <1>5
<1> QED
  BY <1>6 DEF Least

Injective(s) == \A i, j \in 1..Len(s) : i # j => s[i] # s[j]

\* The visit: packages under way and packages done are all different, each
\* under way is needed by the one below it, each done comes after all it needs.
Visit ==
  /\ stack \in Seq(DOMAIN selected) /\ order \in Seq(DOMAIN selected)
  /\ Injective(stack) /\ Injective(order)
  /\ \A i \in 1..Len(stack), j \in 1..Len(order) : stack[i] # order[j]
  /\ \A i \in 1..Len(order) : \A q \in DOMAIN selected[order[i]].needs \cap DOMAIN selected :
       \E j \in 1..(i - 1) : order[j] = q
  /\ \A i \in 1..(Len(stack) - 1) : stack[i + 1] \in DOMAIN selected[stack[i]].needs

OInv ==
  /\ phase \in {"idle", "selecting", "refused"} => stack = <<>> /\ order = <<>>
  /\ phase \in {"ordering", "cyclic", "done"} => Visit
  /\ phase = "done" => Members(order) = DOMAIN selected
  /\ phase = "cyclic" =>
       /\ stack # <<>>
       /\ \E k \in 1..Len(stack) : stack[k] \in DOMAIN selected[Last(stack)].needs

LEMMA SelectedArePackages ==
  ASSUME TInv, RInv, phase # "idle"
  PROVE  DOMAIN selected \subseteq Package
BY DEF RInv, Suits, TInv, TypeOK

\* A package that is neither under way nor done goes on the stack.
LEMMA Pushes ==
  ASSUME Visit, NEW p \in DOMAIN selected, p \notin Members(stack), p \notin Members(order),
         stack = <<>> \/ p \in DOMAIN selected[Last(stack)].needs,
         stack' = Append(stack, p), UNCHANGED <<selected, order>>
  PROVE  Visit'
<1>1. /\ stack' \in Seq(DOMAIN selected) /\ Len(stack') = Len(stack) + 1
      /\ \A i \in 1..Len(stack) : stack'[i] = stack[i]
      /\ stack'[Len(stack) + 1] = p
      /\ Len(stack) \in Nat
  BY DEF Visit
<1>2. \A i \in 1..Len(stack') : i \in 1..Len(stack) \/ i = Len(stack) + 1
  BY <1>1
<1>3. \A i \in 1..Len(stack) : stack[i] # p
  BY DEF Members
<1>4. \A i \in 1..Len(order) : order[i] # p
  BY DEF Members
<1>5. Injective(stack')
  BY <1>1, <1>2, <1>3 DEF Visit, Injective
<1>6. \A i \in 1..Len(stack'), j \in 1..Len(order) : stack'[i] # order[j]
  BY <1>1, <1>2, <1>4 DEF Visit
<1>7. ASSUME NEW i \in 1..(Len(stack') - 1) PROVE stack'[i + 1] \in DOMAIN selected[stack'[i]].needs
  <2>1. CASE i = Len(stack)
    BY <1>1, <1>7, <2>1 DEF Last
  <2>2. CASE i # Len(stack)
    BY <1>1, <1>7, <2>2 DEF Visit
  <2> QED
    BY <2>1, <2>2
<1> QED
  BY <1>1, <1>5, <1>6, <1>7 DEF Visit, Injective

\* The package on top, all it needs done, is done.
LEMMA Pops ==
  ASSUME Visit, Visited
  PROVE  Visit'
<1> DEFINE p == Last(stack)
<1>1. /\ stack' = SubSeq(stack, 1, Len(stack) - 1) /\ order' = Append(order, p)
      /\ UNCHANGED selected /\ stack # <<>> /\ Below(p) = {}
  BY DEF Visited
<1>2. /\ stack' \in Seq(DOMAIN selected) /\ Len(stack') = Len(stack) - 1
      /\ \A i \in 1..Len(stack') : i \in 1..Len(stack) /\ i # Len(stack) /\ stack'[i] = stack[i]
      /\ Len(stack) \in Nat \ {0}
  <2> DEFINE n == Len(stack) - 1
  <2>1. stack \in Seq(DOMAIN selected) /\ stack # <<>>
    BY <1>1 DEF Visit
  <2>2. Len(stack) \in Nat \ {0} /\ n \in Nat
    BY <2>1
  <2>3. SubSeq(stack, 1, n) = [i \in 1..n |-> stack[i]]
    BY <2>1, <2>2
  <2>4. \A i \in 1..n : i \in 1..Len(stack) /\ i # Len(stack) /\ stack[i] \in DOMAIN selected
    BY <2>1, <2>2
  <2>6. stack' = [i \in 1..n |-> stack[i]]
    BY <1>1, <2>3
  <2> HIDE DEF n
  <2>7. /\ stack' \in [1..n -> DOMAIN selected]
        /\ \A i \in 1..n : stack'[i] = stack[i]
    BY <2>4, <2>6
  <2>8. stack' \in Seq(DOMAIN selected) /\ Len(stack') = n
    BY <2>2, <2>7
  <2> QED
    BY <2>2, <2>4, <2>7, <2>8 DEF n
<1>3. p = stack[Len(stack)] /\ p \in DOMAIN selected
  BY <1>2 DEF Visit, Last
<1>4. /\ order' \in Seq(DOMAIN selected) /\ Len(order') = Len(order) + 1 /\ Len(order) \in Nat
      /\ \A i \in 1..Len(order) : order'[i] = order[i]
      /\ order'[Len(order) + 1] = p
  BY <1>1, <1>3 DEF Visit
<1>5. \A i \in 1..Len(order') : i \in 1..Len(order) \/ i = Len(order) + 1
  BY <1>4
<1>6. \A i \in 1..Len(order) : order[i] # p
  BY <1>2, <1>3 DEF Visit
<1>7. Injective(order')
  BY <1>4, <1>5, <1>6 DEF Visit, Injective
<1>8. Injective(stack')
  BY <1>2 DEF Visit, Injective
<1>9. \A i \in 1..Len(stack'), j \in 1..Len(order') : stack'[i] # order'[j]
  <2> TAKE i \in 1..Len(stack'), j \in 1..Len(order')
  <2>1. stack'[i] = stack[i] /\ i \in 1..Len(stack) /\ stack[i] # p
    BY <1>2, <1>3 DEF Visit, Injective
  <2>2. CASE j \in 1..Len(order)
    BY <1>4, <2>1, <2>2 DEF Visit
  <2>3. CASE j = Len(order) + 1
    BY <1>4, <2>1, <2>3
  <2> QED
    BY <1>5, <2>2, <2>3
<1>10. ASSUME NEW i \in 1..Len(order'), NEW q \in DOMAIN selected[order'[i]].needs \cap DOMAIN selected
       PROVE  \E j \in 1..(i - 1) : order'[j] = q
  <2>1. CASE i = Len(order) + 1
    <3>1. q \in Members(order)
      BY <1>1, <1>4, <1>10, <2>1 DEF Below
    <3> QED
      BY <3>1, <1>4, <2>1 DEF Members
  <2>2. CASE i \in 1..Len(order)
    <3>1. PICK j \in 1..(i - 1) : order[j] = q
      BY <1>4, <1>10, <2>2 DEF Visit
    <3> QED
      BY <1>4, <2>2, <3>1
  <2> QED
    BY <1>5, <2>1, <2>2
<1>11. \A i \in 1..(Len(stack') - 1) : stack'[i + 1] \in DOMAIN selected[stack'[i]].needs
  <2> TAKE i \in 1..(Len(stack') - 1)
  <2>1. i \in 1..Len(stack') /\ i + 1 \in 1..Len(stack') /\ i \in 1..(Len(stack) - 1)
    BY <1>2
  <2> QED
    BY <1>2, <2>1 DEF Visit
<1> QED
  BY <1>1, <1>2, <1>4, <1>7, <1>8, <1>9, <1>10, <1>11 DEF Visit, Injective

LEMMA OrderKeeps ==
  ASSUME TInv, RInv, OInv, [Next]_vars
  PROVE  OInv'
<1>1. CASE BeginResolution \/ Answer
  BY <1>1 DEF BeginResolution, Request, Answer, OInv
<1>2. CASE UNCHANGED resolution
  BY <1>2 DEF resolution, OInv, Visit, Injective, Members, Last
<1>3. CASE Refuse \/ Select
  BY <1>3 DEF Refuse, Select, OInv
<1>4. CASE SelectionEnds
  <2>1. stack' = <<>> /\ order' = <<>> /\ phase' = "ordering"
    BY <1>4 DEF SelectionEnds, OInv
  <2>2. Visit'
    BY <2>1 DEF Visit, Injective
  <2> QED
    BY <2>1, <2>2 DEF OInv
<1>5. CASE VisitRoot
  <2> DEFINE S == DOMAIN selected \ Members(order)
             p == Least(S)
  <2>1. /\ phase = "ordering" /\ stack = <<>> /\ stack' = <<p>> /\ S # {}
        /\ UNCHANGED <<phase, selected, order>>
    <3>1. Members(order) \subseteq DOMAIN selected
      BY <1>5 DEF VisitRoot, OInv, Visit, Members
    <3> QED
      BY <1>5, <3>1 DEF VisitRoot
  <2>2. S \subseteq Package
    BY <2>1, SelectedArePackages
  <2>3. p \in S
    BY <2>1, <2>2, LeastIsThere
  <2>4. Visit'
    <3>1. Visit /\ p \notin Members(stack) /\ stack' = Append(stack, p)
      BY <2>1 DEF OInv, Members
    <3> HIDE DEF p
    <3> QED
      BY <2>1, <2>3, <3>1, Pushes
  <2> QED
    BY <2>1, <2>4 DEF OInv
<1>6. CASE VisitBelow
  <2> DEFINE S == Below(Last(stack))
             p == Least(S)
  <2>1. /\ phase = "ordering" /\ stack # <<>> /\ S # {}
        /\ UNCHANGED <<selected, order>>
        /\ IF p \in Members(stack) THEN phase' = "cyclic" /\ UNCHANGED stack
                                   ELSE stack' = Append(stack, p) /\ UNCHANGED phase
    BY <1>6 DEF VisitBelow
  <2>2. S \subseteq Package
    BY <2>1, SelectedArePackages DEF Below
  <2>3. p \in S
    BY <2>1, <2>2, LeastIsThere
  <2>4. p \in DOMAIN selected /\ p \notin Members(order) /\ p \in DOMAIN selected[Last(stack)].needs
    BY <2>3 DEF Below
  <2>5. Visit
    BY <2>1 DEF OInv
  <2> HIDE DEF p
  <2>6. CASE p \in Members(stack)
    <3>1. phase' = "cyclic" /\ UNCHANGED <<stack, selected, order>>
      BY <2>1, <2>6
    <3>2. \E k \in 1..Len(stack) : stack[k] \in DOMAIN selected[Last(stack)].needs
      BY <2>4, <2>6 DEF Members
    <3>3. Visit'
      BY <2>5, <3>1 DEF Visit, Injective
    <3> QED
      BY <2>1, <3>1, <3>2, <3>3 DEF OInv, Last
  <2>7. CASE p \notin Members(stack)
    <3>1. Visit'
      BY <2>1, <2>4, <2>5, <2>7, Pushes
    <3> QED
      BY <2>1, <2>7, <3>1 DEF OInv
  <2> QED
    BY <2>6, <2>7
<1>7. CASE Visited
  <2>1. phase = "ordering" /\ UNCHANGED phase
    BY <1>7 DEF Visited
  <2>2. Visit'
    BY <1>7, <2>1, Pops DEF OInv
  <2> QED
    BY <2>1, <2>2 DEF OInv
<1>8. CASE Resolved
  BY <1>8 DEF Resolved, OInv, Visit, Injective, Members
<1>9. UNCHANGED vars => UNCHANGED resolution
  BY DEF vars
<1> QED
  BY <1>1, <1>2, <1>3, <1>4, <1>5, <1>6, <1>7, <1>8, <1>9, OthersLeaveResolution DEF Next, Resolve

\* A visit that came back to a package under way has found a circle: the packages
\* from there to the top of the stack.
LEMMA ClosesACircle ==
  ASSUME OInv, phase = "cyclic"
  PROVE  \E S \in SUBSET DOMAIN selected : Circle(S)
<1>1. Visit /\ stack # <<>>
  BY DEF OInv
<1>2. PICK k \in 1..Len(stack) : stack[k] \in DOMAIN selected[Last(stack)].needs
  BY DEF OInv
<1> DEFINE S == {stack[i] : i \in k..Len(stack)}
<1>3. Len(stack) \in Nat /\ stack \in [1..Len(stack) -> DOMAIN selected]
  BY <1>1 DEF Visit
<1>4. S \subseteq DOMAIN selected /\ stack[k] \in S
  BY <1>3
<1>5. ASSUME NEW i \in k..Len(stack) PROVE DOMAIN selected[stack[i]].needs \cap S # {}
  <2>1. CASE i = Len(stack)
    BY <1>2, <1>4, <2>1 DEF Last
  <2>2. CASE i # Len(stack)
    <3>1. i \in 1..(Len(stack) - 1) /\ i + 1 \in k..Len(stack)
      <4>1. Len(stack) \in Nat /\ k \in 1..Len(stack) /\ i \in k..Len(stack) /\ i # Len(stack)
        BY <1>3, <2>2
      <4> QED
        BY <4>1
    <3>2. stack[i + 1] \in DOMAIN selected[stack[i]].needs
      BY <1>1, <3>1 DEF Visit
    <3> QED
      BY <3>1, <3>2
  <2> QED
    BY <2>1, <2>2
<1>6. Circle(S)
  BY <1>4, <1>5 DEF Circle
<1> QED
  BY <1>4, <1>6

\* The install order has each selected package once, after all it needs, and a
\* refusal for a circle is right, for any catalog and any number of packages
\* (the visit of ContentDistributionIndex.resolve).
THEOREM OrderIsInstallable == Spec => []InstallOrder
<1>1. Init => TInv /\ RInv /\ OInv
  BY TypesStart DEF Init, NoResolution, RInv, OInv
<1>2. TInv /\ RInv /\ OInv /\ [Next]_vars => TInv' /\ RInv' /\ OInv'
  BY TypesKept, ResolutionKeeps, OrderKeeps
<1>3. OInv => InstallOrder
  <2>1. ASSUME OInv, phase = "done",
               NEW i \in 1..Len(order), NEW j \in 1..Len(order)
        PROVE  /\ i # j => order[i] # order[j]
               /\ order[j] \in DOMAIN selected[order[i]].needs => j < i
    <3>1. Visit /\ order[j] \in DOMAIN selected /\ Len(order) \in Nat
      BY <2>1 DEF OInv, Visit
    <3>2. i # j => order[i] # order[j]
      BY <3>1 DEF Visit, Injective
    <3>3. ASSUME order[j] \in DOMAIN selected[order[i]].needs PROVE j < i
      <4>1. PICK l \in 1..(i - 1) : order[l] = order[j]
        BY <3>1, <3>3 DEF Visit
      <4>2. l \in 1..Len(order)
        BY <3>1
      <4>3. l = j
        BY <3>1, <4>1, <4>2 DEF Visit, Injective
      <4> QED
        BY <4>3
    <3> QED
      BY <3>2, <3>3
  <2> QED
    BY <2>1, ClosesACircle DEF OInv, InstallOrder
<1> QED
  BY <1>1, <1>2, <1>3, PTL DEF Spec

----------------------------------------------------------------------------
(* The history of a project *)

\* While edits come one after the other, the edit in flight is about to write the
\* next revision, and rows go no further than the project.
Place(e) ==
  /\ edit[e].stage = "project" =>
       edit[e].revision = IF project = None THEN 0 ELSE project.revision + 1
  /\ edit[e].stage = "revision" =>
       project # None /\ edit[e].revision = project.revision /\ edit[e].revision \notin DOMAIN history

HInv ==
  ~overlapped =>
    /\ \A d, e \in Editor : edit[d] # Idle /\ edit[e] # Idle => d = e
    /\ \A e \in Editor : Place(e)
    /\ project = None => history = Empty
    /\ project # None => \A r \in DOMAIN history : r <= project.revision
    /\ \A a \in answered : a.revision \in DOMAIN history /\ history[a.revision] = a.pack

\* A request that starts while none is in flight is the only one.
LEMMA StartKeeps ==
  ASSUME TInv, HInv, NEW e \in Editor, NEW request, Start(e, request),
         request.stage = "current" \/
         /\ request.stage = "project"
         /\ request.revision = IF project = None THEN 0 ELSE project.revision + 1
  PROVE  HInv'
<1> SUFFICES ASSUME ~overlapped' PROVE HInv'
  BY DEF HInv
<1>1. ~overlapped /\ \A d \in Editor : edit[d] = Idle
  BY DEF Start, Busy, TInv, TypeOK
<1>2. edit' = [edit EXCEPT ![e] = request] /\ UNCHANGED <<project, history, answered>>
  BY DEF Start
<1>3. edit'[e] = request /\ \A d \in Editor \ {e} : edit'[d] = Idle
  BY <1>1, <1>2 DEF TInv, TypeOK
<1>4. \A d \in Editor : Place(d)'
  BY <1>2, <1>3 DEF Place
<1> QED
  BY <1>1, <1>2, <1>3, <1>4 DEF HInv

LEMMA WriteProjectKeeps ==
  ASSUME TInv, HInv, NEW e \in Editor, WriteProject(e)
  PROVE  HInv'
<1> SUFFICES ASSUME ~overlapped' PROVE HInv'
  BY DEF HInv
<1>1. ~overlapped /\ UNCHANGED <<history, answered>> /\ edit[e].stage = "project"
  BY DEF WriteProject
<1>2. /\ edit[e] \in [stage : {"project"}, revision : Nat, pack : Pack]
      /\ edit[e] # Idle /\ Place(e)
  BY <1>1 DEF TInv, TypeOK, HInv
<1>3. /\ project' = [revision |-> edit[e].revision, pack |-> edit[e].pack]
      /\ project'.revision = edit[e].revision
      /\ project' # None
  BY <1>2, PackAssumption DEF WriteProject
<1>4. \A d \in Editor \ {e} : edit[d] = Idle /\ edit'[d] = Idle
  BY <1>1, <1>2 DEF HInv, WriteProject, TInv, TypeOK
<1>5. edit'[e].stage = "revision" /\ edit'[e].revision = edit[e].revision
  BY <1>2 DEF WriteProject, TInv, TypeOK
<1>6. \A r \in DOMAIN history : r < edit[e].revision
  <2>1. CASE project = None
    BY <2>1, <1>1 DEF HInv, Empty
  <2>2. CASE project # None
    <3>1. edit[e].revision = project.revision + 1 /\ project.revision \in Nat
      BY <2>2, <1>1, <1>2 DEF Place, TInv, TypeOK
    <3>2. \A r \in DOMAIN history : r \in Nat /\ r <= project.revision
      BY <2>2, <1>1 DEF HInv, TInv, TypeOK
    <3> QED
      BY <3>1, <3>2
  <2> QED
    BY <2>1, <2>2
<1>7. \A r \in DOMAIN history : r \in Nat /\ r <= edit[e].revision /\ r # edit[e].revision
  BY <1>2, <1>6 DEF TInv, TypeOK
<1>8. Place(e)'
  BY <1>1, <1>3, <1>5, <1>7 DEF Place
<1>9. \A d \in Editor : Place(d)'
  BY <1>4, <1>8 DEF Place
<1> QED
  BY <1>1, <1>3, <1>4, <1>7, <1>9 DEF HInv

LEMMA WriteRevisionKeeps ==
  ASSUME TInv, HInv, NEW e \in Editor, WriteRevision(e)
  PROVE  HInv'
<1> SUFFICES ASSUME ~overlapped' PROVE HInv'
  BY DEF HInv
<1> DEFINE n == edit[e].revision
<1>1. /\ ~overlapped /\ UNCHANGED project
      /\ edit[e].stage = "revision" /\ edit[e] # Idle
  BY DEF WriteRevision
<1>2. project # None /\ n = project.revision /\ n \notin DOMAIN history /\ n \in Nat
  BY <1>1 DEF HInv, Place, TInv, TypeOK
<1>3. /\ DOMAIN history' = DOMAIN history \cup {n} /\ history'[n] = edit[e].pack
      /\ \A r \in DOMAIN history : history'[r] = history[r]
      /\ answered' = answered \cup {[revision |-> n, pack |-> edit[e].pack]}
  BY <1>2 DEF WriteRevision, With
<1>4. \A d \in Editor : edit'[d] = Idle
  BY <1>1 DEF WriteRevision, HInv, TInv, TypeOK
<1>5. \A a \in answered' : a.revision \in DOMAIN history' /\ history'[a.revision] = a.pack
  BY <1>1, <1>3 DEF HInv
<1>6. \A r \in DOMAIN history' : r <= project.revision
  BY <1>1, <1>2, <1>3 DEF HInv
<1> QED
  BY <1>1, <1>2, <1>4, <1>5, <1>6 DEF HInv, Place

LEMMA HistoryKept ==
  ASSUME TInv, HInv, [Next]_vars
  PROVE  HInv'
<1>1. ASSUME NEW e \in Editor, CreateProject(e) PROVE HInv'
  BY <1>1, StartKeeps DEF CreateProject
<1>2. ASSUME NEW e \in Editor, BeginEdit(e) PROVE HInv'
  BY <1>2, StartKeeps DEF BeginEdit
<1>3. ASSUME NEW e \in Editor, BeginRestore(e) PROVE HInv'
  BY <1>3, StartKeeps DEF BeginRestore
<1>4. ASSUME NEW e \in Editor, ReadCurrent(e) PROVE HInv'
  <2>1. edit[e] # Idle /\ project # None /\ UNCHANGED <<project, history, answered, overlapped>>
    BY <1>4 DEF ReadCurrent, TInv
  <2>2. edit'[e].stage = "project" /\ edit'[e].revision = project.revision + 1
    BY <1>4 DEF ReadCurrent, NextRevision, TInv, TypeOK
  <2>3. \A d \in Editor \ {e} : edit'[d] = edit[d]
    BY <1>4 DEF ReadCurrent, TInv, TypeOK
  <2>4. ~overlapped => \A d \in Editor \ {e} : edit[d] = Idle
    BY <2>1 DEF HInv
  <2>5. ~overlapped => \A d \in Editor : Place(d)'
    BY <2>1, <2>2, <2>3, <2>4 DEF Place
  <2> QED
    BY <2>1, <2>3, <2>4, <2>5 DEF HInv
<1>5. ASSUME NEW e \in Editor, WriteProject(e) \/ WriteRevision(e) PROVE HInv'
  BY <1>5, WriteProjectKeeps, WriteRevisionKeeps
<1>6. CASE Crash
  BY <1>6 DEF Crash, HInv, Place
<1>7. CASE UNCHANGED studio
  BY <1>7 DEF studio, HInv, Place
<1>8. ASSUME NEW e \in Editor,
             PublishProject(e) \/ Upload(e) \/ PutRelease(e) \/ PublishItem(e) \/ PutPack(e) \/ PutItem(e)
      PROVE  UNCHANGED studio
  BY <1>8 DEF PublishProject, Upload, BeginPublish, PutRelease, PublishItem, PutPack, PutItem, Proceed
<1>9. ASSUME BeginResolution \/ UNCHANGED vars PROVE UNCHANGED studio
  BY <1>9 DEF BeginResolution, vars
<1> QED
  BY <1>1, <1>2, <1>3, <1>4, <1>5, <1>6, <1>7, <1>8, <1>9 DEF Next, Other

\* A revision that was answered keeps its snapshot, for any number of editors,
\* packs and crashes, unless edits overlapped (CreatorStudio._commit, _persist).
THEOREM AnsweredHistory == Spec => []HistoryStands
<1>1. Init => TInv /\ HInv
  <2> SUFFICES ASSUME Init PROVE HInv
    BY TypesStart
  <2>1. \A e \in Editor : edit[e] = Idle
    BY DEF Init
  <2>2. project = None /\ history = Empty /\ answered = {}
    BY DEF Init
  <2>3. \A e \in Editor : Place(e)
    BY <2>1 DEF Place
  <2> QED
    BY <2>1, <2>2, <2>3 DEF HInv
<1>2. TInv /\ HInv /\ [Next]_vars => TInv' /\ HInv'
  BY TypesKept, HistoryKept
<1>3. HInv => HistoryStands
  BY DEF HInv, HistoryStands
<1> QED
  BY <1>1, <1>2, <1>3, PTL DEF Spec

----------------------------------------------------------------------------
(* The registries *)

Released(listing) ==
  \A v \in DOMAIN listing \ bare :
    \E r \in releases : r.id = ProjectId /\ r.version = v /\ r.hash = listing[v].objects

Same == market = rows.pack /\ market = rows.item

\* How far the publication in flight has got.
Stage(e) ==
  LET pack == publish[e].pack IN
  /\ publish[e].stage \in {"idle", "release"} => Same /\ Released(market)
  /\ publish[e].stage = "market" =>
       Same /\ Released(With(market, pack.version, pack))
  /\ publish[e].stage = "pack" =>
       /\ Released(market) /\ rows.pack = rows.item
       /\ market = With(rows.item, pack.version, pack)
  /\ publish[e].stage = "item" =>
       /\ Released(market) /\ rows.pack = market
       /\ market = With(rows.item, pack.version, pack)

GInv ==
  /\ rows = [pack |-> rows.pack, item |-> rows.item]
  /\ ~torn =>
       /\ \A d, e \in Editor : publish[d] # Idle /\ publish[e] # Idle => d = e
       /\ (\A e \in Editor : publish[e] = Idle) => Same /\ Released(market)
       /\ \A e \in Editor : publish[e] # Idle => Stage(e)

\* The step of a publication that goes on, alone.
LEMMA PublicationKeeps ==
  ASSUME TInv, GInv, NEW e \in Editor,
         PutRelease(e) \/ PublishItem(e) \/ PutPack(e) \/ PutItem(e)
  PROVE  GInv'
<1>1. publish[e] # Idle /\ torn' = torn
  BY DEF PutRelease, PublishItem, PutPack, PutItem, Proceed
<1>2. \A d \in Editor \ {e} : publish'[d] = publish[d]
  BY DEF PutRelease, PublishItem, PutPack, PutItem, Proceed, TInv, TypeOK
<1>3. rows' = [pack |-> rows'.pack, item |-> rows'.item]
  BY DEF PutRelease, PublishItem, PutPack, PutItem, GInv
<1> SUFFICES ASSUME ~torn PROVE GInv'
  BY <1>1, <1>3 DEF GInv
<1> DEFINE pack == publish[e].pack
           v == pack.version
<1>4. Stage(e) /\ \A d \in Editor \ {e} : publish'[d] = Idle
  BY <1>1, <1>2 DEF GInv
<1>5. publish[e] \in [stage : {"release", "market", "pack", "item"}, pack : Pack]
  BY <1>1 DEF TInv, TypeOK
<1>6. CASE PutRelease(e)
  <2>1. /\ publish[e].stage = "release"
        /\ publish'[e] = [stage |-> "market", pack |-> pack]
        /\ bare' = bare \ {v} /\ UNCHANGED <<market, rows>>
    BY <1>5, <1>6 DEF PutRelease, Proceed, TInv, TypeOK
  <2>2. Same /\ Released(market)
    BY <1>4, <2>1 DEF Stage
  <2>3. releases' = {r \in releases : r.id # ProjectId \/ r.version # v} \cup {ReleaseOf(pack)}
    BY <1>6 DEF PutRelease
  <2>4. ReleaseOf(pack) \in releases' /\ ReleaseOf(pack).id = ProjectId
        /\ ReleaseOf(pack).version = v /\ ReleaseOf(pack).hash = pack.objects
    BY <2>3 DEF ReleaseOf
  <2>5. /\ DOMAIN With(market, v, pack) = DOMAIN market \cup {v}
        /\ With(market, v, pack)[v] = pack
        /\ \A w \in DOMAIN market \ {v} : With(market, v, pack)[w] = market[w]
    BY DEF With
  <2>6. ASSUME NEW w \in (DOMAIN market \ bare) \ {v}
        PROVE  \E r \in releases' : r.id = ProjectId /\ r.version = w /\ r.hash = market[w].objects
    BY <2>2, <2>3 DEF Released
  <2>7. Released(With(market, v, pack))'
    BY <2>1, <2>4, <2>5, <2>6 DEF Released
  <2>8. Stage(e)'
    BY <2>1, <2>2, <2>7 DEF Stage, Same
  <2> QED
    BY <1>1, <1>3, <1>4, <2>1, <2>8 DEF GInv
<1>7. CASE PublishItem(e)
  <2>1. /\ publish[e].stage = "market"
        /\ publish'[e] = [stage |-> "pack", pack |-> pack]
        /\ market' = With(market, v, pack) /\ UNCHANGED <<releases, rows, bare>>
    BY <1>5, <1>7 DEF PublishItem, Proceed, Listing, TInv, TypeOK
  <2>2. Same /\ Released(market')
    BY <1>4, <2>1 DEF Stage
  <2>3. Stage(e)'
    BY <2>1, <2>2 DEF Stage, Same, Released
  <2> QED
    BY <1>1, <1>3, <1>4, <2>1, <2>3 DEF GInv
<1>8. CASE PutPack(e)
  <2>1. /\ publish[e].stage = "pack"
        /\ publish'[e] = [stage |-> "item", pack |-> pack]
        /\ rows'.pack = With(rows.pack, v, pack) /\ rows'.item = rows.item
        /\ UNCHANGED <<releases, market, bare>>
    BY <1>5, <1>8 DEF PutPack, Proceed, TInv, TypeOK, GInv
  <2>2. Released(market) /\ market = With(rows.item, v, pack) /\ rows.pack = rows.item
    BY <1>4, <2>1 DEF Stage
  <2>3. Stage(e)'
    BY <2>1, <2>2 DEF Stage, Released
  <2> QED
    BY <1>1, <1>3, <1>4, <2>1, <2>3 DEF GInv
<1>9. CASE PutItem(e)
  <2>1. /\ publish[e].stage = "item" /\ publish'[e] = Idle
        /\ rows'.item = With(rows.item, v, pack) /\ rows'.pack = rows.pack
        /\ UNCHANGED <<releases, market, bare>>
    BY <1>5, <1>9 DEF PutItem, Proceed, TInv, TypeOK, GInv
  <2>2. Released(market) /\ market = With(rows.item, v, pack) /\ rows.pack = market
    BY <1>4, <2>1 DEF Stage
  <2>3. Same' /\ Released(market)'
    BY <2>1, <2>2 DEF Same, Released
  <2> QED
    BY <1>1, <1>3, <1>4, <2>1, <2>3 DEF GInv
<1> QED
  BY <1>6, <1>7, <1>8, <1>9

LEMMA RegistriesKept ==
  ASSUME TInv, GInv, [Next]_vars
  PROVE  GInv'
<1>1. ASSUME NEW e \in Editor, PublishProject(e) \/ Upload(e) PROVE GInv'
  <2>1. PICK first \in {"release", "market"}, pack \in Pack : BeginPublish(e, first, pack)
    BY <1>1, PublishesAPack DEF TInv
  <2>2. UNCHANGED <<releases, market, rows>> /\ bare \subseteq bare'
        /\ torn' = (torn \/ \E d \in Editor : publish[d] # Idle)
    BY <2>1 DEF BeginPublish
  <2>3. /\ publish'[e] = [stage |-> first, pack |-> pack]
        /\ \A d \in Editor \ {e} : publish'[d] = publish[d]
    BY <2>1 DEF BeginPublish, TInv, TypeOK
  <2> SUFFICES ASSUME ~torn' PROVE GInv'
    BY <2>2 DEF GInv
  <2>4. ~torn /\ \A d \in Editor : publish[d] = Idle
    BY <2>2
  <2>5. Same /\ Released(market)
    BY <2>4 DEF GInv
  <2>6. Same' /\ Released(market)'
    BY <2>2, <2>5 DEF Same, Released
  <2>7. CASE first = "release"
    <3>1. Stage(e)'
      BY <2>3, <2>6, <2>7 DEF Stage
    <3> QED
      BY <2>2, <2>3, <2>4, <2>6, <3>1 DEF GInv
  <2>8. CASE first = "market"
    <3>1. pack.version \in bare'
      BY <2>1, <2>8 DEF BeginPublish
    <3>2. Released(With(market, pack.version, pack))'
      BY <2>2, <2>6, <3>1 DEF Released, With
    <3>3. Stage(e)'
      BY <2>2, <2>3, <2>6, <2>8, <3>2 DEF Stage
    <3> QED
      BY <2>2, <2>3, <2>4, <2>6, <3>3 DEF GInv
  <2> QED
    BY <2>7, <2>8
<1>2. ASSUME NEW e \in Editor, PutRelease(e) \/ PublishItem(e) \/ PutPack(e) \/ PutItem(e)
      PROVE  GInv'
  BY <1>2, PublicationKeeps
<1>3. CASE Crash
  <2>1. UNCHANGED <<releases, rows, bare>> /\ market' = rows.pack /\ \A e \in Editor : publish'[e] = Idle
    BY <1>3 DEF Crash
  <2>2. torn' = (torn \/ \E e \in Editor : publish[e] # Idle)
    BY <1>3 DEF Crash
  <2>3. ~torn' => Same /\ Released(market)
    BY <2>2 DEF GInv
  <2>4. ~torn' => Same' /\ Released(market)'
    BY <2>1, <2>3 DEF Same, Released
  <2> QED
    BY <2>1, <2>4 DEF GInv
<1>4. CASE UNCHANGED <<releases, registry>>
  BY <1>4 DEF registry, GInv, Stage, Same, Released
<1>5. ASSUME NEW e \in Editor, CreateProject(e) \/ BeginEdit(e) \/ BeginRestore(e) \/ ReadCurrent(e)
                               \/ WriteProject(e) \/ WriteRevision(e)
      PROVE  UNCHANGED <<releases, registry>>
  BY <1>5 DEF CreateProject, BeginEdit, BeginRestore, Start, ReadCurrent, WriteProject, WriteRevision
<1>6. ASSUME BeginResolution \/ UNCHANGED vars PROVE UNCHANGED <<releases, registry>>
  BY <1>6 DEF BeginResolution, Request, vars
<1>7. ASSUME Resolve, UNCHANGED <<studio, registry, counters>>
      PROVE  UNCHANGED <<releases, registry>>
  BY <1>7 DEF Resolve, Answer, Refuse, Select, SelectionEnds, VisitRoot, VisitBelow, Visited, Resolved
<1> QED
  BY <1>1, <1>2, <1>3, <1>4, <1>5, <1>6, <1>7 DEF Next, Other

\* The release index, the marketplace and its rows hold one content for a version,
\* whatever is published again, unless publications overlapped or were cut.
THEOREM OneContent == Spec => []RegistriesAgree
<1>1. Init => TInv /\ GInv
  <2> SUFFICES ASSUME Init PROVE GInv
    BY TypesStart
  <2>1. /\ market = Empty /\ rows = [pack |-> Empty, item |-> Empty]
        /\ \A e \in Editor : publish[e] = Idle
    BY DEF Init
  <2>2. Same /\ Released(market)
    BY <2>1 DEF Same, Released, Empty
  <2> QED
    BY <2>1, <2>2 DEF GInv
<1>2. TInv /\ GInv /\ [Next]_vars => TInv' /\ GInv'
  BY TypesKept, RegistriesKept
<1>3. GInv => RegistriesAgree
  BY DEF GInv, RegistriesAgree, Same, Released
<1> QED
  BY <1>1, <1>2, <1>3, PTL DEF Spec

=============================================================================
