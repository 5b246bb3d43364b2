-------------------------- MODULE DependencyClosure --------------------------
(***************************************************************************)
(* admitDependencyClosure (scripts/build.ts): what a build bundles, and    *)
(* what its notices name, is what the workspaces of the skills reach       *)
(* through the frozen lock.  A worklist walks from each of them; then every*)
(* package reached is held against the admission contract.                 *)
(*                                                                         *)
(* Which entry of the lock a required dependency resolves to is a function *)
(* of the lock alone; here it may be any.  The lock and every manifest are *)
(* taken to be readable and to declare no trustedDependencies: what the    *)
(* code refuses before it walks is left out.                               *)
(***************************************************************************)
EXTENDS FiniteSets, Naturals

CONSTANTS
  Workspace, \* the workspaces of the lock
  Named,     \* those that the skills name
  Package,   \* the other entries of the lock
  None,      \* a dependency that does not resolve
  MaxNeeds   \* the bound on the required dependencies of one entry

Entry == Workspace \cup Package

ASSUME ClosureAssumption == None \notin Entry /\ Named \subseteq Workspace /\ MaxNeeds \in Nat

VARIABLES
  needs,    \* what the required dependencies of each entry resolve to
  peers,    \* what the required peers of each package resolve to
  impure,   \* packages with a lifecycle script, a native addon, another license ...
  root,     \* the workspace the walk is from, or None
  pending,  \* the dependencies it has yet to look at
  graph,    \* what it has reached, by workspace
  phase

lock == <<needs, peers, impure>>
closureVars == <<lock, root, pending, graph, phase>>

Needs == {s \in SUBSET (Entry \cup {None}) : Cardinality(s) <= MaxNeeds}

ClosureTypeOK ==
  /\ needs \in [Entry -> Needs] /\ peers \in [Package -> Needs]
  /\ impure \subseteq Package
  /\ root \in Workspace \cup {None}
  /\ pending \subseteq Entry \cup {None}
  /\ graph \in [Workspace -> SUBSET Entry]
  /\ phase \in {"walk", "judge", "admitted", "refused"}

ClosureInit ==
  /\ needs \in [Entry -> Needs] /\ peers \in [Package -> Needs]
  /\ impure \in SUBSET Package
  /\ root = None /\ pending = {} /\ phase = "walk"
  /\ graph = [w \in Workspace |-> {}]

\* The graph of a workspace holds at least the workspace.
Walked(w) == graph[w] # {}

StartWalk(w) ==
  /\ phase = "walk" /\ root = None /\ w \in Named /\ ~Walked(w)
  /\ root' = w
  /\ graph' = [graph EXCEPT ![w] = {w}]
  /\ pending' = needs[w]
  /\ UNCHANGED <<lock, phase>>

\* What is there already is not walked again: workspaces and packages depend on
\* each other in circles.
Added_Shallow(e) == needs[e] \cap Workspace
Added(e) == IF e \in graph[root] THEN {} ELSE needs[e]

Take(e) ==
  /\ phase = "walk" /\ root # None /\ e \in pending
  /\ IF e = None THEN phase' = "refused" /\ UNCHANGED <<pending, graph>>
     ELSE /\ pending' = (pending \ {e}) \cup Added(e)
          /\ graph' = [graph EXCEPT ![root] = @ \cup {e}]
          /\ UNCHANGED phase
  /\ UNCHANGED <<lock, root>>

EndWalk ==
  /\ phase = "walk" /\ root # None /\ pending = {}
  /\ root' = None
  /\ UNCHANGED <<lock, pending, graph, phase>>

Judge ==
  /\ phase = "walk" /\ root = None /\ \A w \in Named : Walked(w)
  /\ phase' = "judge"
  /\ UNCHANGED <<lock, root, pending, graph>>

\* A required peer must be in every graph its package is in.
PeersReached_Anywhere ==
  \A w \in Named : \A p \in graph[w] \cap Package :
    peers[p] \subseteq UNION {graph[v] : v \in Named}
PeersReached ==
  \A w \in Named : \A p \in graph[w] \cap Package : peers[p] \subseteq graph[w]

Pure == \A w \in Named : graph[w] \cap impure = {}

Admit ==
  /\ phase = "judge"
  /\ phase' = IF PeersReached /\ Pure THEN "admitted" ELSE "refused"
  /\ UNCHANGED <<lock, root, pending, graph>>

ClosureNext ==
  \/ \E w \in Workspace : StartWalk(w)
  \/ \E e \in Entry \cup {None} : Take(e)
  \/ EndWalk \/ Judge \/ Admit

ClosureSpec == ClosureInit /\ [][ClosureNext]_closureVars
-----------------------------------------------------------------------------
(* Property.                                                               *)

\* What a workspace needs: what is in every set that holds it and, with an entry,
\* all that the entry depends on.
Needed(w) ==
  {e \in Entry : \A S \in SUBSET Entry :
     w \in S /\ (\A n \in S : needs[n] \cap Entry \subseteq S) => e \in S}

Admissible ==
  \A w \in Named : \A e \in Needed(w) :
    /\ None \notin needs[e]
    /\ e \in Package => e \notin impure /\ peers[e] \subseteq Needed(w)

\* Of a lock whose walk begins, the closure is refused exactly when something a skill
\* needs, directly or not, does not resolve, is not admissible, or has a peer that
\* its own graph does not reach; and the graphs, which the bundles and the notices are made from, are
\* exactly what each skill needs: in whatever order, and however circular, the
\* dependencies are walked.
ClosureExact ==
  /\ phase = "admitted" => Admissible /\ \A w \in Named : graph[w] = Needed(w)
  /\ phase = "refused" => ~Admissible
=============================================================================
