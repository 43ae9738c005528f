------------------------------ MODULE MCContent ------------------------------
(* A project of a map node, an edge and a scene edited by two requests; its     *)
(* package 3 needs core (1) and addon (2), whose releases make one catalog with *)
(* a choice to revise, one with a circle, one for other engines.                *)
EXTENDS Content, TLC

CONSTANTS node, edge, e1, e2

V(a, b, c, d) == <<a, b, c, d>>
AnyVersion == {}
Caret(v) == {<<"^", v>>}
Tilde(v) == {<<"~", v>>}
Range1(v, w) == {<<">=", v>>, <<"<", w>>}

R(id, version, engine, needs) ==
  [id |-> id, version |-> version, engine |-> engine, needs |-> needs, hash |-> {}]
None0 == [p \in {} |-> AnyVersion]

MCVersion == {V(1,0,0,0), V(1,0,0,1), V(1,1,0,0), V(2,0,0,0), V(2,0,0,1), V(4,0,0,0), V(0,1,0,0)}
MCEngine == V(4,0,0,0)
Platform == {<<">=", V(1,0,0,0)>>}

Core == {R(1, v, Platform, None0) : v \in {V(1,0,0,0), V(1,0,0,1), V(1,1,0,0), V(2,0,0,1)}}
        \cup {R(1, V(2,0,0,0), {<<"==", V(1,0,0,0)>>}, None0)}
Revised == Core \cup {R(2, V(1,0,0,0), Platform, 1 :> Tilde(V(1,0,0,0))),
                      R(2, V(0,1,0,0), Caret(V(4,0,0,0)), 1 :> {<<">", V(1,0,0,0)>>})}
Circular == {R(1, V(1,0,0,0), Platform, 2 :> AnyVersion), R(1, V(2,0,0,0), Platform, 2 :> {<<"<=", V(1,1,0,0)>>}),
             R(2, V(1,0,0,0), Platform, 1 :> {<<"<", V(2,0,0,0)>>}),
             R(2, V(2,0,0,0), Platform, 1 :> AnyVersion)}
MCCatalogs == {Revised, Circular}

MCEngineOf == V(1,0,0,0) :> Platform
MCNeedsOf == V(1,0,0,0) :> (1 :> Range1(V(1,0,0,1), V(2,0,0,0)) @@ 2 :> AnyVersion)
MCAsked == {3 :> AnyVersion, 1 :> AnyVersion @@ 2 :> AnyVersion, 2 :> Caret(V(0,1,0,0)) @@ 1 :> AnyVersion}
MCManifest == {V(1,0,0,0)}
MCRefers == node :> {} @@ edge :> {node}
MCDrafts == {[version |-> V(1,0,0,0), objects |-> {node}]}
=============================================================================
