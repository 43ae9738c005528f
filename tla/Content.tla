------------------------------- MODULE Content -------------------------------
(***************************************************************************)
(* A creator's project on its way to the content registries: the edits and *)
(* revisions of CreatorStudio (creator/studio.py), the validation of a     *)
(* pack (creator/content.py), its publication as a release and in the      *)
(* marketplace (distribution/service.py, creator/marketplace.py,           *)
(* api/distribution.py, api/studio.py), and the resolution of releases.    *)
(* Every awaited read or write of the store is a step, so that requests    *)
(* overlap; a crash may come between any two.                              *)
(***************************************************************************)
EXTENDS Resolver

CONSTANTS
  Editor,       \* requests that may be in flight together
  Object,       \* content objects: maps, nodes, edges, scenes, ...
  Edge,         \* map edges among them: edited where their nodes are
  Refers,       \* the objects an object refers to
  Manifest,     \* versions a manifest may name
  Drafts,       \* whole packs that are imported
  ProjectId, EngineOf, NeedsOf,  \* the project's package; its manifests' other fields, by version
  Catalogs, Asked,       \* releases published before; requirements
  None,
  MaxRequests, MaxCrashes  \* bounds

ASSUME ObjectAssumption ==
  /\ Refers \in [Object -> SUBSET Object] /\ Edge \subseteq Object
Pack == [version : Manifest, objects : SUBSET Object]

ASSUME PackAssumption ==
  /\ Drafts \subseteq Pack
  /\ None \notin [revision : Nat, pack : Pack]
ASSUME ReleaseAssumption ==
  /\ \A asked \in Asked : DOMAIN asked \subseteq Package
  /\ \A v \in Manifest : DOMAIN NeedsOf[v] \subseteq Package
  /\ ProjectId \in Package
  /\ \A C \in Catalogs : \A r \in C :
       r.id \in Package \ {ProjectId} /\ DOMAIN r.needs \subseteq Package
ASSUME BoundAssumption == MaxRequests \in Nat /\ MaxCrashes \in Nat

VARIABLES
  project,      \* studio.project row
  history,      \* studio.revision rows
  edit,         \* requests on the project in flight
  publish,      \* publications in flight
  market,       \* MarketplaceRegistry.packs, in memory
  rows,         \* marketplace.pack and marketplace.item rows
  bare,         \* history: versions listed last by a route that makes no release
  answered,     \* history: revisions whose request was answered
  overlapped,   \* history: two edits, two publications have been in flight at once
  torn,         \* history: or a crash has cut a publication
  requests, crashes  \* counted up to their bounds

studio == <<project, history, edit, answered, overlapped>>
registry == <<publish, market, rows, bare, torn>>
counters == <<requests, crashes>>
vars == <<releases, resolution, studio, registry, counters>>

Idle == [stage |-> "idle"]
Empty == [v \in {} |-> {}]

Init ==
  /\ releases \in Catalogs /\ NoResolution
  /\ project = None /\ history = Empty /\ edit = [e \in Editor |-> Idle]
  /\ publish = [e \in Editor |-> Idle] /\ market = Empty
  /\ rows = [pack |-> Empty, item |-> Empty]
  /\ bare = {} /\ answered = {} /\ overlapped = FALSE /\ torn = FALSE
  /\ requests = 0 /\ crashes = 0

With(f, key, value) == [k \in DOMAIN f \cup {key} |-> IF k = key THEN value ELSE f[k]]

----------------------------------------------------------------------------
(* CreatorStudio *)

\* A pack with an object set: upsert of a section, add_map_node of a new node,
\* move_map_node of one there is, connect_map_nodes with both ends there.
Sets(pack) ==
  {[pack EXCEPT !.objects = @ \cup {o}] :
     o \in {x \in Object : x \in Edge => Refers[x] \subseteq pack.objects}}

\* delete and disconnect_map_nodes, of what is there, and upsert of a map without
\* one of its nodes: what refers to it stays.
Drops(pack) == {[pack EXCEPT !.objects = @ \ {o}] : o \in pack.objects}

\* update_manifest
Renames(pack) == {[pack EXCEPT !.version = v] : v \in Manifest}

\* One edit; replace_pack takes any pack.
Edits(pack) == Sets(pack) \cup Drops(pack) \cup Renames(pack) \cup Drafts

\* Slip: a restored revision keeps its number.
RevisionOf(old, next) == old

\* _commit's revision number.
NextRevision(old, next) == next

\* Bound: a request is counted when it starts.
Count == requests < MaxRequests /\ requests' = requests + 1 /\ UNCHANGED crashes

Busy == \E e \in Editor : edit[e] # Idle

Start(e, request) ==
  /\ edit[e] = Idle
  /\ edit' = [edit EXCEPT ![e] = request]
  /\ overlapped' = (overlapped \/ Busy)
  /\ UNCHANGED <<releases, resolution, project, history, answered, registry>>
  /\ Count

\* create_project, of an empty pack.
CreateProject(e) ==
  /\ project = None
  /\ \E v \in Manifest :
       Start(e, [stage |-> "project", revision |-> 0, pack |-> [version |-> v, objects |-> {}]])

\* An edit: get_project, then the change of its own copy; _commit counts on.
BeginEdit(e) ==
  /\ project # None
  /\ \E pack \in Edits(project.pack) :
       Start(e, [stage |-> "project", revision |-> project.revision + 1, pack |-> pack])

\* restore_revision reads the old revision ...
BeginRestore(e) ==
  /\ project # None
  /\ \E r \in DOMAIN history :
       Start(e, [stage |-> "current", revision |-> r, pack |-> history[r]])

\* ... then the current project, which takes the old pack.
ReadCurrent(e) ==
  /\ edit[e].stage = "current"
  /\ edit' = [edit EXCEPT ![e] =
       [stage |-> "project", revision |-> NextRevision(edit[e].revision, project.revision + 1),
        pack |-> edit[e].pack]]
  /\ UNCHANGED <<releases, resolution, project, history, answered, overlapped, registry, counters>>

\* _persist: the project row ...
WriteProject(e) ==
  /\ edit[e].stage = "project"
  /\ project' = [revision |-> edit[e].revision, pack |-> edit[e].pack]
  /\ edit' = [edit EXCEPT ![e].stage = "revision"]
  /\ UNCHANGED <<releases, resolution, history, answered, overlapped, registry, counters>>

\* ... then the revision row, and the answer.
WriteRevision(e) ==
  /\ edit[e].stage = "revision"
  /\ history' = With(history, edit[e].revision, edit[e].pack)
  /\ answered' = answered \cup {[revision |-> edit[e].revision, pack |-> edit[e].pack]}
  /\ edit' = [edit EXCEPT ![e] = Idle]
  /\ UNCHANGED <<releases, resolution, project, overlapped, registry, counters>>

----------------------------------------------------------------------------
(* Publication *)

\* ContentValidator.validate finds no missing reference.
Valid(pack) == \A o \in pack.objects : Refers[o] \subseteq pack.objects

\* The distribution route publishes a release and lists it; the studio's own route,
\* and an upload to the marketplace, only list.
BeginPublish(e, first, pack) ==
  /\ publish[e] = Idle /\ Valid(pack)
  /\ publish' = [publish EXCEPT ![e] = [stage |-> first, pack |-> pack]]
  /\ bare' = IF first = "market" THEN bare \cup {pack.version} ELSE bare
  /\ torn' = (torn \/ \E d \in Editor : publish[d] # Idle)
  /\ UNCHANGED <<releases, resolution, studio, market, rows>>
  /\ Count

\* export_pack
PublishProject(e) ==
  /\ project # None
  /\ \E first \in {"release", "market"} : BeginPublish(e, first, project.pack)

Upload(e) == \E pack \in Drafts : BeginPublish(e, "market", pack)

Proceed(e, from, to) ==
  /\ publish[e].stage = from
  /\ publish' = [publish EXCEPT ![e] = IF to = "idle" THEN Idle ELSE [@ EXCEPT !.stage = to]]
  /\ UNCHANGED <<resolution, studio, torn, counters>>

\* The PackageRelease of a pack, from its manifest and its content_hash.
ReleaseOf(pack) ==
  [id |-> ProjectId, version |-> pack.version, engine |-> EngineOf[pack.version],
   needs |-> NeedsOf[pack.version], hash |-> pack.objects]

\* publish_pack: the row of this version, whatever it held.
PutRelease(e) ==
  /\ Proceed(e, "release", "market")
  /\ releases' = {r \in releases : r.id # ProjectId \/ r.version # publish[e].pack.version}
                 \cup {ReleaseOf(publish[e].pack)}
  /\ bare' = bare \ {publish[e].pack.version}
  /\ UNCHANGED <<market, rows>>

\* Slip: an item that is listed is left alone.
Listed(old, version, pack) == IF version \in DOMAIN old THEN old ELSE With(old, version, pack)
Listing(old, version, pack) == With(old, version, pack)

\* MarketplaceRegistry.publish
PublishItem(e) ==
  /\ Proceed(e, "market", "pack")
  /\ market' = Listing(market, publish[e].pack.version, publish[e].pack)
  /\ UNCHANGED <<releases, rows, bare>>

PutPack(e) ==
  /\ Proceed(e, "pack", "item")
  /\ rows' = [rows EXCEPT !.pack = With(@, publish[e].pack.version, publish[e].pack)]
  /\ UNCHANGED <<releases, market, bare>>

PutItem(e) ==
  /\ Proceed(e, "item", "idle")
  /\ rows' = [rows EXCEPT !.item = With(@, publish[e].pack.version, publish[e].pack)]
  /\ UNCHANGED <<releases, market, bare>>

\* The process dies; lifespan publishes the stored packs again.
Crash ==
  /\ crashes < MaxCrashes /\ crashes' = crashes + 1
  /\ market' = rows.pack
  /\ torn' = (torn \/ \E e \in Editor : publish[e] # Idle)
  /\ edit' = [e \in Editor |-> Idle] /\ publish' = [e \in Editor |-> Idle]
  /\ UNCHANGED <<releases, resolution, project, history, answered, overlapped, rows, bare, requests>>

\* POST /resolve: the index is read and resolved with no other request between.
BeginResolution ==
  /\ \E asked \in Asked : Request(asked)
  /\ Count
  /\ UNCHANGED <<studio, registry>>

----------------------------------------------------------------------------
Other ==
  \/ BeginResolution \/ Crash
  \/ \E e \in Editor :
       \/ CreateProject(e) \/ BeginEdit(e) \/ BeginRestore(e) \/ ReadCurrent(e)
       \/ WriteProject(e) \/ WriteRevision(e)
       \/ PublishProject(e) \/ Upload(e) \/ PutRelease(e) \/ PublishItem(e) \/ PutPack(e) \/ PutItem(e)

Next ==
  \/ ~Resolving /\ Other
  \/ Resolve /\ UNCHANGED <<studio, registry, counters>>

\* resolve is a loop of one call: it runs on by itself.
Spec == Init /\ [][Next]_vars /\ WF_vars(Resolve /\ UNCHANGED <<studio, registry, counters>>)

----------------------------------------------------------------------------
(* Properties *)

TypeOK ==
  /\ \A r \in releases \cup catalog : r.id \in Package /\ DOMAIN r.needs \subseteq Package
  /\ phase \in {"idle", "selecting", "ordering", "refused", "cyclic", "done"}
  /\ DOMAIN requirements \subseteq Package
  /\ project \in {None} \cup [revision : Nat, pack : Pack]
  /\ DOMAIN history \subseteq Nat /\ \A r \in DOMAIN history : history[r] \in Pack
  /\ edit \in [Editor ->
       {Idle} \cup [stage : {"current", "project", "revision"}, revision : Nat, pack : Pack]]
  /\ publish \in [Editor ->
       {Idle} \cup [stage : {"release", "market", "pack", "item"}, pack : Pack]]
  /\ overlapped \in BOOLEAN /\ torn \in BOOLEAN

\* A revision that was answered keeps its snapshot under its number, whatever is
\* edited, restored or cut by a crash later: unless two edits overlapped.
HistoryStands ==
  overlapped \/ \A a \in answered : history[a.revision] = a.pack

\* Release index, marketplace and its rows hold one content for a version, when
\* publications came one after the other and no crash cut one; the release index
\* may differ only where the last listing came without a release.
RegistriesAgree ==
  torn \/ (\E e \in Editor : publish[e] # Idle) \/
    /\ market = rows.pack /\ market = rows.item
    /\ \A v \in DOMAIN market \ bare :
         \E r \in releases : r.id = ProjectId /\ r.version = v /\ r.hash = market[v].objects

\* What has been selected answers every requirement, and the needs of every
\* selected release, with releases of the index that suit the engine.
ResolutionHolds ==
  phase \in {"ordering", "done"} =>
    /\ \A p \in DOMAIN requirements :
         p \in DOMAIN selected /\ Matches(selected[p].version, requirements[p])
    /\ \A p \in DOMAIN selected :
         /\ selected[p] \in catalog /\ selected[p].id = p
         /\ Matches(EngineVersion, selected[p].engine)
         /\ \A q \in DOMAIN selected[p].needs :
              q \in DOMAIN selected /\ Matches(selected[q].version, selected[p].needs[q])

\* The install order lists each selected package once, after all it needs; there
\* is one exactly when no packages need each other in a circle.
Circle(S) == S # {} /\ \A p \in S : DOMAIN selected[p].needs \cap S # {}
InstallOrder ==
  /\ phase = "done" =>
       /\ Members(order) = DOMAIN selected
       /\ \A i, j \in 1..Len(order) :
            /\ i # j => order[i] # order[j]
            /\ order[j] \in DOMAIN selected[order[i]].needs => j < i
  /\ phase = "cyclic" => \E S \in SUBSET DOMAIN selected : Circle(S)

\* Every resolution comes to an end: releases only ever give way to older ones.
ResolutionEnds == Resolving ~> ~Resolving
=============================================================================
