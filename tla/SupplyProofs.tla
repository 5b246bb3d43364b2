---------------------------- MODULE SupplyProofs ----------------------------
(***************************************************************************)
(* Theorems about the parts that lead from the sources to what users       *)
(* install: DependencyClosure, HostedCanary, PluginBuild, KitPackage,      *)
(* ReleasePublication and ReviewGate, each for every value of its          *)
(* constants, and about the instance that composes them.                   *)
(***************************************************************************)
EXTENDS MCSupply, TLAPS

USE ClosureAssumption

-----------------------------------------------------------------------------
(* What a workspace needs is the least set that holds it and is closed.    *)

\* A set that holds a workspace and all its members depend on.
Closed(w, S) ==
  /\ S \subseteq Entry /\ w \in S
  /\ \A n \in S : needs[n] \cap Entry \subseteq S

LEMMA NeededHolds ==
  ASSUME NEW w \in Workspace
  PROVE  w \in Needed(w) /\ Needed(w) \subseteq Entry
BY DEF Needed, Entry

LEMMA NeededClosed ==
  ASSUME NEW w \in Workspace, NEW e \in Needed(w), NEW n \in needs[e] \cap Entry
  PROVE  n \in Needed(w)
BY DEF Needed

LEMMA NeededLeast ==
  ASSUME NEW w, NEW S, Closed(w, S)
  PROVE  Needed(w) \subseteq S
BY DEF Needed, Closed

-----------------------------------------------------------------------------
(* Type correctness.                                                       *)

LEMMA ClosureInitTyped == ClosureInit => ClosureTypeOK
BY DEF ClosureInit, ClosureTypeOK

LEMMA ClosureStepTyped == ClosureTypeOK /\ [ClosureNext]_closureVars => ClosureTypeOK'
<1> SUFFICES ASSUME ClosureTypeOK, [ClosureNext]_closureVars
             PROVE  ClosureTypeOK'
  OBVIOUS
<1>1. ASSUME NEW w \in Workspace, StartWalk(w) PROVE ClosureTypeOK'
  BY <1>1 DEF ClosureTypeOK, StartWalk, lock, Needs, Entry
<1>2. ASSUME NEW e \in Entry \cup {None}, Take(e) PROVE ClosureTypeOK'
  <2>1. CASE e = None
    BY <1>2, <2>1 DEF ClosureTypeOK, Take, lock
  <2>2. CASE e # None
    <3>1. e \in Entry /\ root \in Workspace
      BY <1>2, <2>2 DEF ClosureTypeOK, Take
    <3>2. graph' \in [Workspace -> SUBSET Entry]
      BY <1>2, <2>2, <3>1 DEF ClosureTypeOK, Take
    <3>3. pending' \subseteq Entry \cup {None}
      BY <1>2, <2>2, <3>1 DEF ClosureTypeOK, Take, Added, Needs
    <3> QED BY <1>2, <2>2, <3>2, <3>3 DEF ClosureTypeOK, Take, lock
  <2> QED BY <2>1, <2>2
<1>3. CASE EndWalk  BY <1>3 DEF ClosureTypeOK, EndWalk, lock
<1>4. CASE Judge    BY <1>4 DEF ClosureTypeOK, Judge, lock
<1>5. CASE Admit    BY <1>5 DEF ClosureTypeOK, Admit, lock
<1>6. CASE UNCHANGED closureVars
  BY <1>6 DEF ClosureTypeOK, closureVars, lock
<1> QED BY <1>1, <1>2, <1>3, <1>4, <1>5, <1>6 DEF ClosureNext

\* Every variable keeps its type, for every lock.
THEOREM ClosureTypeCorrect == ClosureSpec => []ClosureTypeOK
<1>1. ClosureInit => ClosureTypeOK
  BY ClosureInitTyped
<1>2. ClosureTypeOK /\ [ClosureNext]_closureVars => ClosureTypeOK'
  BY ClosureStepTyped
<1> QED BY <1>1, <1>2, PTL DEF ClosureSpec

-----------------------------------------------------------------------------
(* The inductive invariant: a graph holds only what is needed, and all that *)
(* its members depend on but what the walk has yet to look at.              *)

Sound(w) == graph[w] \subseteq Needed(w) /\ (graph[w] # {} => w \in Named /\ w \in graph[w])

\* A workspace that is not being walked has been walked to the end, or not yet.
Complete(w) == w # root => \A n \in graph[w] : needs[n] \subseteq graph[w]

Walking ==
  root # None =>
    /\ graph[root] # {}
    /\ pending \cap Entry \subseteq Needed(root)
    /\ None \in pending => \E n \in graph[root] : None \in needs[n]
    /\ \A n \in graph[root] : needs[n] \subseteq graph[root] \cup pending

Judged ==
  /\ phase \in {"judge", "admitted"} => root = None /\ \A w \in Named : graph[w] # {}
  /\ phase = "admitted" => PeersReached /\ Pure
  /\ phase = "refused" => ~Admissible

ClosureInv ==
  /\ ClosureTypeOK
  /\ \A w \in Workspace : Sound(w) /\ Complete(w)
  /\ Walking
  /\ Judged

\* Once every walk has ended, each graph is what its workspace needs.
LEMMA GraphsExact ==
  ASSUME ClosureInv, root = None, \A w \in Named : graph[w] # {}
  PROVE  \A w \in Named : graph[w] = Needed(w) /\ (\A n \in graph[w] : None \notin needs[n])
<1> SUFFICES ASSUME NEW w \in Named
             PROVE  graph[w] = Needed(w) /\ (\A n \in graph[w] : None \notin needs[n])
  OBVIOUS
<1>1. w \in Workspace /\ w # root
  BY DEF Entry
<1>2. graph[w] \subseteq Needed(w) /\ w \in graph[w] /\ graph[w] \subseteq Entry
  BY <1>1 DEF ClosureInv, Sound, ClosureTypeOK
<1>3. \A n \in graph[w] : needs[n] \subseteq graph[w]
  BY <1>1 DEF ClosureInv, Complete
<1>4. Needed(w) \subseteq graph[w]
  BY <1>2, <1>3, NeededLeast DEF Closed
<1> QED BY <1>2, <1>3, <1>4

LEMMA LockFixed ==
  ASSUME UNCHANGED lock
  PROVE  (\A w : Needed(w)' = Needed(w)) /\ (Admissible' <=> Admissible)
<1>1. needs' = needs /\ peers' = peers /\ impure' = impure
  BY DEF lock
<1>2. \A w : Needed(w)' = Needed(w)
  BY <1>1 DEF Needed
<1> QED BY <1>1, <1>2 DEF Admissible

LEMMA StartInv ==
  ASSUME ClosureInv, NEW w \in Workspace, StartWalk(w), ClosureTypeOK'
  PROVE  ClosureInv'
<1>1. /\ root = None /\ root' = w /\ w \in Named /\ w # None
      /\ phase' = phase /\ phase = "walk" /\ UNCHANGED lock
      /\ needs' = needs /\ pending' = needs[w]
  BY DEF StartWalk, lock, Entry
<1>2. graph'[w] = {w} /\ (\A v \in Workspace \ {w} : graph'[v] = graph[v])
  BY DEF StartWalk, ClosureInv, ClosureTypeOK
<1>3. \A v \in Workspace : Sound(v)' /\ Complete(v)'
  <2> SUFFICES ASSUME NEW v \in Workspace PROVE Sound(v)' /\ Complete(v)'
    OBVIOUS
  <2>1. CASE v = w
    BY <1>1, <1>2, <2>1, LockFixed, NeededHolds DEF Sound, Complete
  <2>2. CASE v # w
    BY <1>1, <1>2, <2>2, LockFixed DEF ClosureInv, Sound, Complete, Entry
  <2> QED BY <2>1, <2>2
<1>4. needs[w] \cap Entry \subseteq Needed(w)
  BY NeededHolds, NeededClosed
<1>5. Walking'
  BY <1>1, <1>2, <1>4, LockFixed DEF Walking
<1>6. Judged'
  BY <1>1 DEF Judged
<1> QED BY <1>3, <1>5, <1>6 DEF ClosureInv

LEMMA TakeInv ==
  ASSUME ClosureInv, NEW e \in Entry \cup {None}, Take(e), ClosureTypeOK'
  PROVE  ClosureInv'
<1>1. /\ root # None /\ root \in Workspace /\ root' = root /\ e \in pending
      /\ phase = "walk" /\ UNCHANGED lock /\ needs' = needs
  BY DEF Take, lock, ClosureInv, ClosureTypeOK
<1>2. root \in Named
  BY <1>1 DEF ClosureInv, Sound, Walking
<1>3. CASE e = None
  <2>1. phase' = "refused" /\ graph' = graph /\ pending' = pending
    BY <1>3 DEF Take
  <2>2. PICK n \in graph[root] : None \in needs[n]
    BY <1>1, <1>3 DEF ClosureInv, Walking
  <2>3. n \in Needed(root)
    BY <1>1, <2>2 DEF ClosureInv, Sound
  <2>4. ~Admissible
    BY <1>2, <2>2, <2>3 DEF Admissible
  <2>5. Judged'
    BY <1>1, <2>1, <2>4, LockFixed DEF Judged
  <2>6. \A v \in Workspace : Sound(v)' /\ Complete(v)'
    BY <1>1, <2>1, LockFixed DEF ClosureInv, Sound, Complete
  <2>7. Walking'
    BY <1>1, <2>1, LockFixed DEF ClosureInv, Walking
  <2> QED BY <2>5, <2>6, <2>7 DEF ClosureInv
<1>4. CASE e # None
  <2>1. /\ e \in Entry /\ phase' = phase
        /\ pending' = (pending \ {e}) \cup Added(e)
        /\ graph'[root] = graph[root] \cup {e}
        /\ \A v \in Workspace \ {root} : graph'[v] = graph[v]
    BY <1>1, <1>4 DEF Take, ClosureInv, ClosureTypeOK
  <2>2. e \in Needed(root)
    BY <1>1, <2>1 DEF ClosureInv, Walking
  <2>3. needs[e] \cap Entry \subseteq Needed(root)
    BY <1>1, <2>2, NeededClosed
  <2>4. Added(e) \subseteq needs[e] /\ (e \notin graph[root] => Added(e) = needs[e])
    BY DEF Added
  <2>5. ASSUME NEW v \in Workspace PROVE Sound(v)' /\ Complete(v)'
    <3>1. CASE v = root
      BY <1>1, <1>2, <2>1, <2>2, <3>1, LockFixed DEF ClosureInv, Sound, Complete, Walking
    <3>2. CASE v # root
      BY <1>1, <2>1, <3>2, LockFixed DEF ClosureInv, Sound, Complete
    <3> QED BY <3>1, <3>2
  <2>6. pending' \cap Entry \subseteq Needed(root)
    BY <1>1, <2>1, <2>3, <2>4 DEF ClosureInv, Walking
  <2>7. None \in pending' => \E n \in graph'[root] : None \in needs[n]
    BY <1>1, <2>1, <2>4 DEF ClosureInv, Walking
  <2>8. \A n \in graph'[root] : needs[n] \subseteq graph'[root] \cup pending'
    <3> SUFFICES ASSUME NEW n \in graph'[root] PROVE needs[n] \subseteq graph'[root] \cup pending'
      OBVIOUS
    <3>1. CASE n \in graph[root]
      BY <1>1, <2>1, <3>1 DEF ClosureInv, Walking
    <3>2. CASE n = e /\ n \notin graph[root]
      BY <2>1, <2>4, <3>2
    <3> QED BY <2>1, <3>1, <3>2
  <2>9. Walking'
    BY <1>1, <2>1, <2>6, <2>7, <2>8, LockFixed DEF Walking
  <2>10. Judged'
    BY <1>1, <2>1 DEF Judged
  <2> QED BY <2>5, <2>9, <2>10 DEF ClosureInv
<1> QED BY <1>3, <1>4

LEMMA EndInv ==
  ASSUME ClosureInv, EndWalk, ClosureTypeOK'
  PROVE  ClosureInv'
<1>1. /\ root # None /\ root \in Workspace /\ root' = None /\ pending = {}
      /\ graph' = graph /\ phase' = phase /\ phase = "walk" /\ UNCHANGED lock /\ needs' = needs
  BY DEF EndWalk, lock, ClosureInv, ClosureTypeOK
<1>2. \A n \in graph[root] : needs[n] \subseteq graph[root]
  BY <1>1 DEF ClosureInv, Walking
<1>3. \A v \in Workspace : Sound(v)' /\ Complete(v)'
  BY <1>1, <1>2, LockFixed DEF ClosureInv, Sound, Complete
<1> QED BY <1>1, <1>3 DEF ClosureInv, Walking, Judged

LEMMA JudgeInv ==
  ASSUME ClosureInv, Judge, ClosureTypeOK'
  PROVE  ClosureInv'
<1>1. /\ root = None /\ root' = root /\ graph' = graph /\ pending' = pending
      /\ phase' = "judge" /\ UNCHANGED lock /\ needs' = needs
      /\ \A w \in Named : graph[w] # {}
  BY DEF Judge, Walked, lock
<1>2. \A v \in Workspace : Sound(v)' /\ Complete(v)'
  BY <1>1, LockFixed DEF ClosureInv, Sound, Complete
<1> QED BY <1>1, <1>2 DEF ClosureInv, Walking, Judged

LEMMA AdmitInv ==
  ASSUME ClosureInv, Admit, ClosureTypeOK'
  PROVE  ClosureInv'
<1>1. /\ phase = "judge" /\ root = None /\ \A w \in Named : graph[w] # {}
      /\ root' = root /\ graph' = graph /\ pending' = pending
      /\ UNCHANGED lock /\ needs' = needs /\ peers' = peers /\ impure' = impure
      /\ phase' = IF PeersReached /\ Pure THEN "admitted" ELSE "refused"
  BY DEF Admit, lock, ClosureInv, Judged
<1>2. \A w \in Named : graph[w] = Needed(w)
  BY <1>1, GraphsExact
<1>3. ~(PeersReached /\ Pure) => ~Admissible
  <2>1. impure \subseteq Package
    BY DEF ClosureInv, ClosureTypeOK
  <2>2. ~PeersReached => ~Admissible
    BY <1>2 DEF PeersReached, Admissible
  <2>3. ~Pure => ~Admissible
    BY <1>2, <2>1 DEF Pure, Admissible
  <2> QED BY <2>2, <2>3
<1>4. PeersReached' = PeersReached /\ Pure' = Pure
  BY <1>1 DEF PeersReached, Pure
<1>5. Judged'
  BY <1>1, <1>3, <1>4, LockFixed DEF Judged
<1>6. \A v \in Workspace : Sound(v)' /\ Complete(v)'
  BY <1>1, LockFixed DEF ClosureInv, Sound, Complete
<1> QED BY <1>1, <1>5, <1>6 DEF ClosureInv, Walking

LEMMA ClosureInductive == ClosureInv /\ [ClosureNext]_closureVars => ClosureInv'
<1> SUFFICES ASSUME ClosureInv, [ClosureNext]_closureVars
             PROVE  ClosureInv'
  OBVIOUS
<1>1. ClosureTypeOK'
  BY ClosureStepTyped DEF ClosureInv
<1>2. ASSUME NEW w \in Workspace, StartWalk(w) PROVE ClosureInv'
  BY <1>1, <1>2, StartInv
<1>3. ASSUME NEW e \in Entry \cup {None}, Take(e) PROVE ClosureInv'
  BY <1>1, <1>3, TakeInv
<1>4. CASE EndWalk  BY <1>1, <1>4, EndInv
<1>5. CASE Judge    BY <1>1, <1>5, JudgeInv
<1>6. CASE Admit    BY <1>1, <1>6, AdmitInv
<1>7. CASE UNCHANGED closureVars
  <2>1. /\ UNCHANGED lock /\ needs' = needs /\ peers' = peers /\ impure' = impure
        /\ root' = root /\ graph' = graph /\ pending' = pending /\ phase' = phase
    BY <1>7 DEF closureVars, lock
  <2>2. \A v \in Workspace : Sound(v)' /\ Complete(v)'
    BY <2>1, LockFixed DEF ClosureInv, Sound, Complete
  <2>3. Walking' /\ Judged'
    BY <2>1, LockFixed DEF ClosureInv, Walking, Judged, PeersReached, Pure
  <2> QED BY <1>1, <2>2, <2>3 DEF ClosureInv
<1> QED BY <1>2, <1>3, <1>4, <1>5, <1>6, <1>7 DEF ClosureNext

LEMMA ClosureInitInv == ClosureInit => ClosureInv
<1> SUFFICES ASSUME ClosureInit PROVE ClosureInv
  OBVIOUS
<1>1. \A w \in Workspace : graph[w] = {}
  BY DEF ClosureInit
<1> QED BY <1>1, ClosureInitTyped DEF ClosureInit, ClosureInv, Sound, Complete, Walking, Judged

LEMMA ClosureInvHolds == ClosureSpec => []ClosureInv
BY ClosureInitInv, ClosureInductive, PTL DEF ClosureSpec

\* Once its walk has begun, a closure is refused exactly when something a skill needs
\* is not admissible, and the graphs that are admitted are exactly what each skill
\* needs: for locks of any size, in whatever order the walks take their dependencies.
THEOREM ClosureIsExact == ClosureSpec => []ClosureExact
<1>1. ClosureInv => ClosureExact
  <2> SUFFICES ASSUME ClosureInv PROVE ClosureExact
    OBVIOUS
  <2>1. ASSUME phase = "admitted"
        PROVE  Admissible /\ \A w \in Named : graph[w] = Needed(w)
    <3>1. \A w \in Named : graph[w] = Needed(w) /\ (\A n \in graph[w] : None \notin needs[n])
      BY <2>1, GraphsExact DEF ClosureInv, Judged
    <3>2. PeersReached /\ Pure
      BY <2>1 DEF ClosureInv, Judged
    <3> QED BY <3>1, <3>2 DEF Admissible, PeersReached, Pure
  <2> QED BY <2>1 DEF ClosureExact, ClosureInv, Judged
<1> QED BY <1>1, ClosureInvHolds, PTL


-----------------------------------------------------------------------------
(* The steps of a qualification.                                           *)

LEMMA StageShape ==
  /\ \A n \in PerTarget, t \in Target : At(n, t) \in Stage
  /\ \A n, t : At(n, t) \notin {<<"idle">>, <<"wait">>, <<"bind">>, <<"qualified">>}
  /\ \A n, t, m, u : At(n, t) = At(m, u) => n = m /\ t = u
  /\ {<<"idle">>, <<"wait">>, <<"bind">>, <<"qualified">>} \subseteq Stage
  /\ <<"bind">> \notin {<<"idle">>, <<"wait">>} /\ <<"qualified">> \notin {<<"idle">>, <<"wait">>}
<1>1. \A a, b, c : <<a, b>> # <<c>>
  OBVIOUS
<1>2. \A a, b, c, d : <<a, b>> = <<c, d>> => a = c /\ b = d
  OBVIOUS
<1>3. \A a, c : <<a>> = <<c>> => a = c
  OBVIOUS
<1> QED BY <1>1, <1>2, <1>3 DEF At, Stage

Installing == {"clone", "claude", "codex", "package"}

\* The steps past the hosted proof, those past the public installs, and the last two.
AtLast(s) == s \in {<<"bind">>, <<"qualified">>}
AtPrivate(s) == AtLast(s) \/ \E n \in Installing : s = At(n, "private")
PastHosted(s) == AtLast(s) \/ \E n \in Installing, t \in Target : s = At(n, t)

LEMMA EarlyStages ==
  /\ ~PastHosted(<<"idle">>) /\ ~PastHosted(<<"wait">>)
  /\ \A n \in PerTarget \ Installing, t \in Target : ~PastHosted(At(n, t))
  /\ \A n \in Installing : ~AtPrivate(At(n, "public")) /\ ~AtLast(At(n, "private"))
  /\ \A s : (AtLast(s) => AtPrivate(s)) /\ (AtPrivate(s) => PastHosted(s))
BY StageShape DEF PastHosted, AtPrivate, AtLast, Installing, Target

LEMMA GoesTo ==
  ASSUME CanaryTypeOK, NEW q \in Qualification, NEW s \in Stage, Goes(q, s)
  PROVE  /\ stage' \in [Qualification -> Stage]
         /\ stage'[q] = s
         /\ \A r \in Qualification \ {q} : stage'[r] = stage[r]
BY DEF Goes, CanaryTypeOK

-----------------------------------------------------------------------------
(* The invariant.                                                          *)

\* What is known of a repository stays true of it.
Known ==
  \A q \in Qualification, t \in Target :
    found[q][t] \in {"missing", "current"} \/ stage[q] = At("ref", t) => repo[t] = "proper"

ProofAt(q) ==
  /\ PastHosted(stage[q]) => passed
  /\ AtPrivate(stage[q]) => \A c \in Client : got[q]["public"][c] = "source"
  /\ AtLast(stage[q]) => \A c \in Client : got[q]["private"][c] = "source"

CanaryInv ==
  /\ CanaryTypeOK
  /\ hosted = "success" => passed
  /\ Known
  /\ \A q \in Qualification : ProofAt(q)

\* A qualification that goes to a step short of the hosted proof.
LEMMA EarlyProof ==
  ASSUME CanaryInv, NEW q \in Qualification, NEW s \in Stage, ~PastHosted(s), Goes(q, s),
         got' = got, passed' = passed
  PROVE  \A r \in Qualification : ProofAt(r)'
BY GoesTo, EarlyStages DEF CanaryInv, ProofAt

\* One that starts over.
LEMMA AnewProof ==
  ASSUME CanaryInv, NEW q \in Qualification, NEW s \in Stage, ~PastHosted(s), Goes(q, s),
         \A t : s # At("ref", t),
         found' = [found EXCEPT ![q] = [t \in Target |-> "unknown"]],
         got' = [got EXCEPT ![q] = Nothing], UNCHANGED Remote
  PROVE  CanaryInv'
<1>1. /\ derived' = derived /\ repo' = repo /\ ref' = ref
      /\ hosted' = hosted /\ passed' = passed
  BY DEF Remote
<1>2. stage' \in [Qualification -> Stage] /\ stage'[q] = s
      /\ \A r \in Qualification \ {q} : stage'[r] = stage[r]
  BY GoesTo DEF CanaryInv
<1>3. /\ found' \in [Qualification -> [Target -> Found]]
      /\ found'[q] = [t \in Target |-> "unknown"]
      /\ \A r \in Qualification \ {q} : found'[r] = found[r]
  BY DEF CanaryInv, CanaryTypeOK, Found
<1>4. /\ got' \in [Qualification -> [Target -> [Client -> {"none"} \cup Payload]]]
      /\ \A r \in Qualification \ {q} : got'[r] = got[r]
  BY DEF CanaryInv, CanaryTypeOK, Nothing
<1>5. CanaryTypeOK'
  BY <1>1, <1>2, <1>3, <1>4 DEF CanaryInv, CanaryTypeOK
<1>6. Known'
  BY <1>1, <1>2, <1>3 DEF CanaryInv, Known
<1>7. \A r \in Qualification : ProofAt(r)'
  BY <1>1, <1>2, <1>4, EarlyStages DEF CanaryInv, ProofAt
<1> QED BY <1>1, <1>5, <1>6, <1>7 DEF CanaryInv

\* A step that changes nothing but where one qualification is.
LEMMA MovesOnly ==
  ASSUME CanaryInv, NEW q \in Qualification, NEW s \in Stage, Goes(q, s),
         UNCHANGED <<Remote, found, got>>, ProofAt(q)', \A t : s # At("ref", t)
  PROVE  CanaryInv'
<1>1. /\ stage' \in [Qualification -> Stage] /\ stage'[q] = s
      /\ \A r \in Qualification \ {q} : stage'[r] = stage[r]
  BY GoesTo DEF CanaryInv
<1>2. /\ derived' = derived /\ repo' = repo /\ ref' = ref /\ hosted' = hosted
      /\ passed' = passed /\ found' = found /\ got' = got
  BY DEF Remote
<1>3. CanaryTypeOK'
  BY <1>1, <1>2 DEF CanaryInv, CanaryTypeOK
<1>4. Known'
  BY <1>1, <1>2 DEF CanaryInv, Known
<1>5. \A r \in Qualification : ProofAt(r)'
  BY <1>1, <1>2 DEF CanaryInv, ProofAt
<1> QED BY <1>1, <1>2, <1>3, <1>4, <1>5 DEF CanaryInv

LEMMA FindsIt ==
  ASSUME CanaryTypeOK, NEW q \in Qualification, NEW t \in Target, NEW f \in Found, Finds(q, t, f)
  PROVE  /\ found' \in [Qualification -> [Target -> Found]]
         /\ found'[q][t] = f
         /\ \A r \in Qualification, u \in Target : r # q \/ u # t => found'[r][u] = found[r][u]
BY DEF Finds, CanaryTypeOK

\* A step that changes only where one qualification is and what it knows of a target.
LEMMA LearnsOnly ==
  ASSUME CanaryInv, NEW q \in Qualification, NEW s \in Stage, Goes(q, s), ~PastHosted(s),
         NEW t \in Target, NEW f \in Found, Finds(q, t, f),
         f \in {"missing", "current"} => repo[t] = "proper",
         \A u \in Target : s = At("ref", u) => repo[u] = "proper",
         UNCHANGED <<Remote, got>>
  PROVE  CanaryInv'
<1>1. /\ derived' = derived /\ repo' = repo /\ ref' = ref
      /\ hosted' = hosted /\ passed' = passed /\ got' = got
  BY DEF Remote
<1>2. Known'
  BY <1>1, FindsIt, GoesTo DEF CanaryInv, Known
<1>3. \A r \in Qualification : ProofAt(r)'
  BY <1>1, EarlyProof
<1>4. CanaryTypeOK'
  BY <1>1, FindsIt, GoesTo DEF CanaryInv, CanaryTypeOK
<1> QED BY <1>1, <1>2, <1>3, <1>4 DEF CanaryInv

-----------------------------------------------------------------------------
(* Every step keeps it.                                                    *)

LEMMA PublishStages ==
  /\ \A t \in Target : AfterPublish(t) \in Stage /\ ~PastHosted(AfterPublish(t))
  /\ \A n \in {"visibility", "ref", "publish"}, t \in Target :
       At(n, t) \in Stage /\ ~PastHosted(At(n, t))
BY StageShape, EarlyStages DEF AfterPublish, PerTarget, Installing, Target

LEMMA LookSteps ==
  ASSUME CanaryInv, NEW q \in Qualification, NEW t \in Target,
         ReadVisibility(q, t) \/ ReadRef(q, t)
  PROVE  CanaryInv'
<1> DEFINE next == IF t = "public" THEN At("visibility", "private") ELSE At("publish", "public")
<1>1. next \in Stage /\ ~PastHosted(next) /\ \A u : next # At("ref", u)
  BY PublishStages, StageShape DEF Target
<1>2. CASE repo[t] = "proper" /\ Finds(q, t, "missing") /\ Goes(q, At("ref", t))
           /\ UNCHANGED <<Remote, got>>
  <2>1. At("ref", t) \in Stage /\ ~PastHosted(At("ref", t))
    BY PublishStages
  <2>2. \A u \in Target : At("ref", t) = At("ref", u) => repo[u] = "proper"
    BY <1>2, StageShape
  <2>3. "missing" \in Found
    BY DEF Found
  <2> HIDE DEF next
  <2> QED BY <1>2, <2>1, <2>2, <2>3, LearnsOnly
<1>3. CASE ReadVisibility(q, t) /\ Finds(q, t, "repository-missing") /\ Goes(q, next)
  <2>1. "repository-missing" \in Found /\ UNCHANGED <<Remote, got>>
    BY <1>3 DEF Found, ReadVisibility
  <2> HIDE DEF next
  <2> QED BY <1>1, <1>3, <2>1, LearnsOnly
<1>4. CASE ReadRef(q, t)
  <2> DEFINE f == IF ref[t] = "none" THEN "missing" ELSE "current"
  <2>1. f \in Found /\ Finds(q, t, f) /\ Goes(q, next) /\ UNCHANGED <<Remote, got>>
    BY <1>4 DEF Found, ReadRef
  <2>2. repo[t] = "proper"
    BY <1>4 DEF ReadRef, CanaryInv, Known
  <2> HIDE DEF next, f
  <2> QED BY <1>1, <2>1, <2>2, LearnsOnly
<1> QED BY <1>2, <1>3, <1>4 DEF ReadVisibility

LEMMA PublishSteps ==
  ASSUME CanaryInv, NEW q \in Qualification, NEW t \in Target,
         AlreadyCurrent(q, t) \/ Raced(q, t) \/ CreateTarget(q, t) \/ Push(q, t)
  PROVE  CanaryInv'
<1> DEFINE next == AfterPublish(t)
<1>1. next \in Stage /\ ~PastHosted(next) /\ \A u : next # At("ref", u)
  BY PublishStages, StageShape DEF AfterPublish
<1>2. CASE AlreadyCurrent(q, t) \/ Raced(q, t)
  <2>1. Goes(q, next) /\ UNCHANGED <<Remote, found, got>>
    BY <1>2 DEF AlreadyCurrent, Raced
  <2>2. ProofAt(q)'
    BY <1>1, <2>1, EarlyProof DEF Remote
  <2> HIDE DEF next
  <2> QED BY <1>1, <2>1, <2>2, MovesOnly
<1>3. CASE CreateTarget(q, t)
  <2>1. /\ repo[t] = "absent" /\ repo' = [repo EXCEPT ![t] = "proper"]
        /\ derived' = derived /\ ref' = ref /\ hosted' = hosted /\ passed' = passed
        /\ got' = got
    BY <1>3 DEF CreateTarget, Creatable
  <2>2. repo' \in [Target -> {"absent", "proper", "wrong"}] /\ repo'[t] = "proper"
        /\ \A u \in Target \ {t} : repo'[u] = repo[u]
    BY <2>1 DEF CanaryInv, CanaryTypeOK
  <2>3. CASE Finds(q, t, "missing") /\ stage' = stage
    <3>1. "missing" \in Found
      BY DEF Found
    <3>2. Known'
      BY <2>2, <2>3, <3>1, FindsIt DEF CanaryInv, Known
    <3>3. \A r \in Qualification : ProofAt(r)'
      BY <2>1, <2>3 DEF CanaryInv, ProofAt
    <3> QED BY <2>1, <2>2, <2>3, <3>1, <3>2, <3>3, FindsIt DEF CanaryInv, CanaryTypeOK
  <2>4. CASE found' = found /\ Goes(q, <<"idle">>)
    <3>1. <<"idle">> \in Stage /\ ~PastHosted(<<"idle">>) /\ \A u : <<"idle">> # At("ref", u)
      BY StageShape, EarlyStages
    <3>2. \A r \in Qualification : ProofAt(r)'
      BY <2>1, <2>4, <3>1, EarlyProof
    <3>3. Known'
      BY <2>2, <2>4, <3>1, GoesTo DEF CanaryInv, Known
    <3> QED BY <2>1, <2>2, <2>4, <3>1, <3>2, <3>3, GoesTo DEF CanaryInv, CanaryTypeOK
  <2> QED BY <1>3, <2>3, <2>4 DEF CreateTarget
<1>4. CASE Push(q, t)
  <2>1. /\ derived' = derived /\ repo' = repo /\ passed' = passed
        /\ found' = found /\ got' = got
        /\ ref' = [ref EXCEPT ![t] = "candidate"]
        /\ hosted' = IF t = "public" THEN "running" ELSE hosted
    BY <1>4 DEF Push
  <2>2. ref' \in [Target -> {"none"} \cup Versions]
    BY <2>1 DEF CanaryInv, CanaryTypeOK, Versions
  <2>3. hosted' \in {"none", "running", "success", "failure"} /\ (hosted' = "success" => passed')
    BY <2>1 DEF CanaryInv, CanaryTypeOK
  <2>4. CASE stage' = stage
    <3>1. Known' /\ \A r \in Qualification : ProofAt(r)'
      BY <2>1, <2>4 DEF CanaryInv, Known, ProofAt
    <3> QED BY <2>1, <2>2, <2>3, <2>4, <3>1 DEF CanaryInv, CanaryTypeOK
  <2>5. CASE Goes(q, next)
    <3> HIDE DEF next
    <3>1. \A r \in Qualification : ProofAt(r)'
      BY <1>1, <2>1, <2>5, EarlyProof
    <3>2. Known'
      BY <1>1, <2>1, <2>5, GoesTo DEF CanaryInv, Known
    <3> QED BY <1>1, <2>1, <2>2, <2>3, <2>5, <3>1, <3>2, GoesTo DEF CanaryInv, CanaryTypeOK
  <2> QED BY <1>4, <2>4, <2>5 DEF Push
<1> QED BY <1>2, <1>3, <1>4

LEMMA InstallStages ==
  /\ \A n \in Installing, t \in Target :
       At(n, t) \in Stage /\ PastHosted(At(n, t)) /\ \A u : At(n, t) # At("ref", u)
  /\ \A n \in Installing : AtPrivate(At(n, "private")) /\ ~AtPrivate(At(n, "public"))
  /\ \A n \in Installing, t \in Target : ~AtLast(At(n, t))
  /\ "public" \in Target /\ "private" \in Target
BY StageShape DEF Installing, PerTarget, PastHosted, AtPrivate, AtLast, Target

LEMMA FetchStep ==
  ASSUME CanaryInv, NEW q \in Qualification, NEW t \in Target,
         NEW c \in Client, NEW then \in Installing, Fetch(q, t, c, then)
  PROVE  CanaryInv'
<1>0. c \in Installing
  BY DEF Client, Installing
<1>1. /\ stage[q] = At(c, t) /\ Goes(q, At(then, t))
      /\ got' = [got EXCEPT ![q][t][c] = Plugin(t, ref[t])]
      /\ derived' = derived /\ repo' = repo /\ ref' = ref /\ hosted' = hosted
      /\ passed' = passed /\ found' = found
  BY DEF Fetch, Remote
<1>c. Plugin(t, ref[t]) \in Payload
  BY DEF Plugin, Payload
<1>2. /\ got' \in [Qualification -> [Target -> [Client -> {"none"} \cup Payload]]]
      /\ \A r \in Qualification, u \in Target : r # q \/ u # t => got'[r][u] = got[r][u]
  BY <1>1, <1>c DEF CanaryInv, CanaryTypeOK
<1>3. /\ stage' \in [Qualification -> Stage] /\ stage'[q] = At(then, t)
      /\ \A r \in Qualification \ {q} : stage'[r] = stage[r]
  BY <1>1, GoesTo, InstallStages DEF CanaryInv
<1>4. Known'
  BY <1>0, <1>1, <1>3, InstallStages DEF CanaryInv, Known
<1>5. PastHosted(stage[q]) /\ PastHosted(stage'[q]) /\ ~AtLast(stage'[q])
      /\ (AtPrivate(stage'[q]) => AtPrivate(stage[q]))
  <2>1. CASE t = "public"
    BY <1>0, <1>1, <1>3, <2>1, InstallStages
  <2>2. CASE t = "private"
    BY <1>0, <1>1, <1>3, <2>2, InstallStages
  <2> QED BY <1>1, <1>3, <2>1, <2>2, InstallStages DEF Target
<1>6. ProofAt(q)'
  <2>1. passed'
    BY <1>1, <1>5 DEF CanaryInv, ProofAt
  <2>2. AtPrivate(stage'[q]) => t # "public"
    BY <1>0, <1>1, <1>5, InstallStages
  <2>3. AtPrivate(stage'[q]) => \A d \in Client : got'[q]["public"][d] = "source"
    <3>1. "public" \in Target
      BY DEF Target
    <3>2. AtPrivate(stage'[q]) => got'[q]["public"] = got[q]["public"]
      BY <1>2, <2>2, <3>1
    <3> QED BY <1>5, <3>2 DEF CanaryInv, ProofAt
  <2> QED BY <1>5, <2>1, <2>3 DEF ProofAt
<1>7. \A r \in Qualification \ {q} : ProofAt(r)'
  BY <1>1, <1>2, <1>3, InstallStages DEF CanaryInv, ProofAt
<1> QED BY <1>1, <1>2, <1>3, <1>4, <1>6, <1>7 DEF CanaryInv, CanaryTypeOK

LEMMA InstallSteps ==
  ASSUME CanaryInv, NEW q \in Qualification, NEW t \in Target,
         Clone(q, t) \/ FetchClaude(q, t) \/ FetchCodex(q, t) \/ ProvePackage(q, t)
  PROVE  CanaryInv'
<1>1. "clone" \in Installing /\ "claude" \in Installing /\ "codex" \in Installing
      /\ "package" \in Installing
  BY DEF Installing
<1>2. CASE Clone(q, t)
  <2>1. stage[q] = At("clone", t) /\ Goes(q, At("claude", t)) /\ UNCHANGED <<Remote, found, got>>
    BY <1>2 DEF Clone
  <2>2. stage'[q] = At("claude", t) /\ At("claude", t) \in Stage
    BY <1>1, <2>1, GoesTo, InstallStages DEF CanaryInv
  <2>3. AtPrivate(At("claude", t)) => AtPrivate(At("clone", t))
    BY <1>1, InstallStages DEF Target
  <2>4. ProofAt(q)'
    BY <1>1, <2>1, <2>2, <2>3, InstallStages DEF CanaryInv, ProofAt, Remote
  <2> QED BY <1>1, <2>1, <2>2, <2>4, MovesOnly, InstallStages
<1>3. CASE FetchClaude(q, t)
  BY <1>1, <1>3, FetchStep DEF FetchClaude, Client
<1>4. CASE FetchCodex(q, t)
  BY <1>1, <1>4, FetchStep DEF FetchCodex, Client
<1>5. CASE ProvePackage(q, t)
  <2>1. /\ stage[q] = At("package", t) /\ UNCHANGED <<Remote, found, got>>
        /\ \A c \in Client : got[q][t][c] = "source"
    BY <1>5 DEF ProvePackage, Packaged, Client
  <2>2. PastHosted(stage[q])
    BY <1>1, <2>1, InstallStages
  <2>3. CASE t = "public"
    <3>1. Goes(q, At("clone", "private")) /\ At("clone", "private") \in Stage
      BY <1>1, <1>5, <2>3, InstallStages DEF ProvePackage
    <3>2. ProofAt(q)'
      BY <1>1, <2>1, <2>2, <2>3, <3>1, GoesTo, InstallStages DEF CanaryInv, ProofAt, Remote
    <3> QED BY <1>1, <2>1, <3>1, <3>2, MovesOnly, InstallStages
  <2>4. CASE t = "private"
    <3>1. Goes(q, <<"bind">>) /\ <<"bind">> \in Stage /\ (\A u : <<"bind">> # At("ref", u))
      BY <1>5, <2>4, StageShape DEF ProvePackage
    <3>2. AtPrivate(stage[q])
      BY <1>1, <2>1, <2>4, InstallStages
    <3>3. ProofAt(q)'
      BY <2>1, <2>2, <2>4, <3>1, <3>2, GoesTo DEF CanaryInv, ProofAt, Remote
    <3> QED BY <2>1, <3>1, <3>3, MovesOnly
  <2> QED BY <2>3, <2>4 DEF Target
<1> QED BY <1>2, <1>3, <1>4, <1>5

LEMMA OwnSteps ==
  ASSUME CanaryInv, NEW q \in Qualification,
         Begins(q) \/ Stops(q) \/ WaitForRun(q) \/ Bind(q)
  PROVE  CanaryInv'
<1>1. CASE Begins(q)
  <2>1. At("visibility", "public") \in Stage /\ ~PastHosted(At("visibility", "public"))
        /\ \A t : At("visibility", "public") # At("ref", t)
    BY PublishStages, StageShape DEF Target
  <2> QED BY <1>1, <2>1, AnewProof DEF Begins
<1>2. CASE Stops(q)
  <2>1. <<"idle">> \in Stage /\ ~PastHosted(<<"idle">>) /\ \A t : <<"idle">> # At("ref", t)
    BY StageShape, EarlyStages
  <2> QED BY <1>2, <2>1, AnewProof DEF Stops
<1>3. CASE WaitForRun(q)
  <2>1. passed /\ Goes(q, At("clone", "public")) /\ UNCHANGED <<Remote, found, got>>
    BY <1>3 DEF WaitForRun, HostedSucceeded, CanaryInv
  <2>2. "clone" \in Installing
    BY DEF Installing
  <2>3. ProofAt(q)'
    BY <2>1, <2>2, GoesTo, InstallStages DEF CanaryInv, ProofAt, Remote
  <2> QED BY <2>1, <2>2, <2>3, MovesOnly, InstallStages
<1>4. CASE Bind(q)
  <2>1. stage[q] = <<"bind">> /\ Goes(q, <<"qualified">>) /\ UNCHANGED <<Remote, found, got>>
    BY <1>4 DEF Bind
  <2>2. <<"qualified">> \in Stage /\ (\A t : <<"qualified">> # At("ref", t)) /\ AtLast(stage[q])
    BY <2>1, StageShape DEF AtLast
  <2>3. ProofAt(q)'
    BY <2>1, <2>2, GoesTo, EarlyStages DEF CanaryInv, ProofAt, Remote
  <2> QED BY <2>1, <2>2, <2>3, MovesOnly
<1> QED BY <1>1, <1>2, <1>3, <1>4

LEMMA WorldSteps ==
  ASSUME CanaryInv, HostedRuns \/ \E t \in Target : SomebodyCreates(t) \/ SomebodyWrites(t)
  PROVE  CanaryInv'
<1>1. stage' = stage /\ found' = found /\ got' = got
  BY DEF HostedRuns, SomebodyCreates, SomebodyWrites, Runs
<1>2. CASE HostedRuns
  <2>1. derived' = derived /\ repo' = repo /\ ref' = ref /\ (passed => passed') /\ passed' \in BOOLEAN
        /\ hosted' \in {"running", "success", "failure"} /\ (hosted' = "success" => passed')
    BY <1>2 DEF HostedRuns
  <2> QED BY <1>1, <2>1 DEF CanaryInv, CanaryTypeOK, Known, ProofAt
<1>3. ASSUME NEW t \in Target, SomebodyCreates(t) PROVE CanaryInv'
  <2>1. /\ repo[t] = "absent" /\ derived' = derived /\ ref' = ref
        /\ hosted' = hosted /\ passed' = passed
        /\ repo' \in [Target -> {"absent", "proper", "wrong"}]
        /\ \A u \in Target \ {t} : repo'[u] = repo[u]
    BY <1>3 DEF SomebodyCreates, CanaryInv, CanaryTypeOK
  <2> QED BY <1>1, <2>1 DEF CanaryInv, CanaryTypeOK, Known, ProofAt
<1>4. ASSUME NEW t \in Target, SomebodyWrites(t) PROVE CanaryInv'
  <2>1. /\ derived' = derived /\ repo' = repo /\ hosted' = hosted /\ passed' = passed
        /\ ref' \in [Target -> {"none"} \cup Versions]
    BY <1>4 DEF SomebodyWrites, CanaryInv, CanaryTypeOK, Versions
  <2> QED BY <1>1, <2>1 DEF CanaryInv, CanaryTypeOK, Known, ProofAt
<1> QED BY <1>2, <1>3, <1>4

LEMMA CanaryInductive == CanaryInv /\ [CanaryNext]_canaryVars => CanaryInv'
<1> SUFFICES ASSUME CanaryInv, [CanaryNext]_canaryVars
             PROVE  CanaryInv'
  OBVIOUS
<1>1. ASSUME NEW q \in Qualification, Begins(q) \/ Stops(q) \/ WaitForRun(q) \/ Bind(q)
      PROVE  CanaryInv'
  BY <1>1, OwnSteps
<1>2. ASSUME NEW q \in Qualification, NEW t \in Target,
             ReadVisibility(q, t) \/ ReadRef(q, t)
      PROVE  CanaryInv'
  BY <1>2, LookSteps
<1>3. ASSUME NEW q \in Qualification, NEW t \in Target,
             AlreadyCurrent(q, t) \/ Raced(q, t) \/ CreateTarget(q, t) \/ Push(q, t)
      PROVE  CanaryInv'
  BY <1>3, PublishSteps
<1>4. ASSUME NEW q \in Qualification, NEW t \in Target,
             Clone(q, t) \/ FetchClaude(q, t) \/ FetchCodex(q, t) \/ ProvePackage(q, t)
      PROVE  CanaryInv'
  BY <1>4, InstallSteps
<1>5. CASE HostedRuns \/ \E t \in Target : SomebodyCreates(t) \/ SomebodyWrites(t)
  BY <1>5, WorldSteps
<1>6. CASE UNCHANGED canaryVars
  BY <1>6 DEF canaryVars, CanaryInv, CanaryTypeOK, Known, ProofAt
<1> QED BY <1>1, <1>2, <1>3, <1>4, <1>5, <1>6 DEF CanaryNext

LEMMA CanaryInitInv == CanaryInit => CanaryInv
<1> SUFFICES ASSUME CanaryInit PROVE CanaryInv
  OBVIOUS
<1>1. CanaryTypeOK
  BY StageShape DEF CanaryInit, CanaryTypeOK, Found, Versions, Nothing
<1>2. Known
  BY StageShape DEF CanaryInit, Known
<1>3. \A q \in Qualification : ProofAt(q)
  BY EarlyStages DEF CanaryInit, ProofAt
<1> QED BY <1>1, <1>2, <1>3 DEF CanaryInit, CanaryInv

LEMMA CanaryInvHolds == CanarySpec => []CanaryInv
BY CanaryInitInv, CanaryInductive, PTL DEF CanarySpec

\* Every variable keeps its type, for any number of qualifications.
THEOREM CanaryTypeCorrect == CanarySpec => []CanaryTypeOK
<1>1. CanaryInv => CanaryTypeOK
  BY DEF CanaryInv
<1> QED BY <1>1, CanaryInvHolds, PTL

\* A source is only reported qualified when its hosted proof has succeeded and both
\* clients installed, from both repositories, the plugin the source packages: however
\* many qualifications run at once, whoever writes to the refs meanwhile, and whatever
\* the derivation of the public commit did to the plugin.
THEOREM QualifiedIsProven == CanarySpec => []QualifiedProven
<1>1. CanaryInv => QualifiedProven
  BY EarlyStages DEF CanaryInv, ProofAt, QualifiedProven, AtLast, Target
<1> QED BY <1>1, CanaryInvHolds, PTL

\* No qualification changes a ref that is there, and it makes one only in a
\* repository of the visibility that was asked for.
THEOREM HistoryIsKept == CanarySpec => HistoryKept
<1>1. CanaryInv /\ [CanaryNext]_canaryVars => [KeepsHistory]_canaryVars
  <2> SUFFICES ASSUME CanaryInv, CanaryNext,
                      NEW t \in Target, ref'[t] # ref[t],
                      stage # stage' \/ found # found' \/ ref'[t] = "candidate"
               PROVE  ref[t] = "none" /\ ref'[t] = "candidate" /\ repo[t] = "proper"
    BY DEF KeepsHistory
  <2>0. ASSUME NEW u \in Target, SomebodyWrites(u) PROVE FALSE
    BY <2>0 DEF SomebodyWrites, Runs, CanaryInv, CanaryTypeOK
  <2>1. PICK q \in Qualification, u \in Target : Push(q, u)
    BY <2>0 DEF CanaryNext, Begins, Stops, WaitForRun, Bind, ReadVisibility, ReadRef,
       AlreadyCurrent,
           CreateTarget, Raced, Clone, FetchClaude, FetchCodex, Fetch, ProvePackage, HostedRuns,
           SomebodyCreates, Runs, Remote
  <2>2. u = t /\ ref[t] = "none" /\ ref'[t] = "candidate"
    BY <2>1 DEF Push, Leased, CanaryInv, CanaryTypeOK
  <2>3. repo[t] = "proper"
    BY <2>1, <2>2 DEF Push, CanaryInv, Known
  <2> QED BY <2>2, <2>3
<1> QED BY <1>1, CanaryInvHolds, PTL DEF CanarySpec, HistoryKept

-----------------------------------------------------------------------------
(* PluginBuild: what its receipt records and what it has validated is closed. *)

BuildInv ==
  /\ Build!BuildTypeOK
  /\ receipt # None /\ receipt.succeeded /\ receipt.digest # None => Build!Closed(receipt.digest)
  /\ at = "succeeded" => Build!Closed(payload)

LEMMA BuildInitInv == Build!BuildInit => BuildInv
<1> SUFFICES ASSUME Build!BuildInit PROVE BuildInv
  OBVIOUS
<1>1. Build!BuildTypeOK
  BY DEF Build!BuildInit, Build!BuildTypeOK, Build!NoFiles, Build!PluginPayload, Build!Rendered,
         Build!File, Build!Step
<1> QED BY <1>1 DEF Build!BuildInit, BuildInv

\* The files that are written, torn or removed leave a payload.
LEMMA WritesPayload ==
  ASSUME Build!BuildTypeOK
  PROVE  /\ \A S \in SUBSET Skill : Build!Cleared(S) \in Build!PluginPayload
         /\ \A s \in Skill, f \in Build!File : Build!Written(s, f) \in Build!PluginPayload
         /\ \A r \in Build!Rendered :
              /\ [payload EXCEPT !.notices = r] \in Build!PluginPayload
              /\ [payload EXCEPT !.inventory = r] \in Build!PluginPayload
              /\ [payload EXCEPT !.projection = r] \in Build!PluginPayload
         /\ \A s \in Skill, g \in Generation, f \in Build!File :
              [payload EXCEPT !.bundles[s][g] = f] \in Build!PluginPayload
<1> USE DEF Build!BuildTypeOK, Build!PluginPayload
<1>1. \A s \in Skill, g \in Generation, f \in Build!File :
        [payload.bundles EXCEPT ![s][g] = f] \in [Skill -> [Generation -> Build!File]]
  OBVIOUS
<1>2. \A s \in Skill, g \in Generation, f \in Build!File :
        [payload EXCEPT !.bundles[s][g] = f] \in Build!PluginPayload
  BY <1>1
<1>3. \A s \in Skill : made[s] \in Generation
  BY DEF Build!Sources
<1>4. \A s \in Skill, f \in Build!File : Build!Written(s, f) \in Build!PluginPayload
  BY <1>2, <1>3 DEF Build!Written
<1>5. \A S \in SUBSET Skill : Build!Cleared(S) \in Build!PluginPayload
  <2> TAKE S \in SUBSET Skill
  <2>1. "none" \in Build!File
    BY DEF Build!File
  <2> QED BY <2>1 DEF Build!Cleared
<1> QED BY <1>2, <1>4, <1>5

LEMMA BuildStep == BuildInv /\ [Build!BuildNext]_(Build!buildVars) => BuildInv'
<1> SUFFICES ASSUME BuildInv, [Build!BuildNext]_(Build!buildVars) PROVE BuildInv'
  OBVIOUS
<1> USE DEF BuildInv
<1>1. payload' \in Build!PluginPayload
  <2>1. Torn \in Build!Rendered /\ made \in Build!Rendered /\ {Torn, "whole", "none"} \subseteq Build!File
    BY DEF Build!Rendered, Build!File, Build!BuildTypeOK
  <2>2. \A s \in left : s \in Skill
    BY DEF Build!BuildTypeOK
  <2>3. CASE Build!Interrupted
    <3>1. Build!CutShort \subseteq Build!PluginPayload
      <4>1. \A S \in SUBSET Skill : Build!Cleared(S) \in Build!PluginPayload
        BY WritesPayload
      <4>2. \A s \in left : Build!Written(s, Torn) \in Build!PluginPayload
        BY <2>1, <2>2, WritesPayload
      <4>3. /\ [payload EXCEPT !.notices = Torn] \in Build!PluginPayload
            /\ [payload EXCEPT !.inventory = Torn] \in Build!PluginPayload
            /\ [payload EXCEPT !.projection = Torn] \in Build!PluginPayload
            /\ payload \in Build!PluginPayload
        BY <2>1, WritesPayload DEF Build!BuildTypeOK
      <4> QED BY <4>1, <4>2, <4>3, Zenon DEF Build!CutShort
    <3> QED BY <2>3, <3>1 DEF Build!Interrupted
  <2>4. CASE Build!EditsPayload
    <3>1. CASE payload' \in {[payload EXCEPT !.inventory = Torn], [payload EXCEPT !.notices = Torn]}
      BY <2>1, <3>1, WritesPayload
    <3>2. CASE \E s \in Skill, g \in Generation, f \in Build!File :
                 payload' = [payload EXCEPT !.bundles[s][g] = f]
      <4>1. PICK s \in Skill, g \in Generation, f \in Build!File :
              payload' = [payload EXCEPT !.bundles[s][g] = f]
        BY <3>2
      <4>2. [payload EXCEPT !.bundles[s][g] = f] \in Build!PluginPayload
        BY WritesPayload
      <4> QED BY <4>1, <4>2, Zenon
    <3> QED BY <2>4, <3>1, <3>2 DEF Build!EditsPayload
  <2> QED BY <2>1, <2>2, <2>3, <2>4, WritesPayload DEF Build!BuildNext, Build!buildVars,
             Build!Starts, Build!Check,
        Build!Bundle, Build!Clear, Build!WriteBundle, Build!WriteNotices, Build!WriteInventory,
        Build!WriteProjection, Build!Validate, Build!Report, Build!EditsSource, Build!BuildTypeOK
<1>2. /\ source' \in Build!Sources /\ at' \in Build!Step /\ made' \in Build!Sources /\ left' \subseteq Skill
  BY DEF Build!BuildNext, Build!buildVars, Build!Starts, Build!Check, Build!Interrupted,
     Build!EditsPayload,
        Build!Bundle, Build!Clear, Build!WriteBundle, Build!WriteNotices, Build!WriteInventory,
        Build!WriteProjection, Build!Validate, Build!Report, Build!EditsSource, Build!BuildTypeOK,
        Build!BuildGoes, Build!Step
<1>3. \/ receipt' = receipt
      \/ at \in {"succeeded", "failed"} /\ UNCHANGED payload
         /\ \E d \in IF at = "succeeded" THEN {payload, None} ELSE {None} :
              receipt' = [succeeded |-> at = "succeeded", digest |-> d]
  BY DEF Build!BuildNext, Build!buildVars, Build!Starts, Build!Check, Build!Interrupted,
     Build!EditsPayload,
        Build!Bundle, Build!Clear, Build!WriteBundle, Build!WriteNotices, Build!WriteInventory,
        Build!WriteProjection, Build!Validate, Build!Report, Build!EditsSource, Build!BuildGoes
<1>4. receipt' \in Build!Receipt \cup {None}
  <2>1. \A b \in BOOLEAN, d \in Build!PluginPayload \cup {None} :
          [succeeded |-> b, digest |-> d] \in Build!Receipt
    BY DEF Build!Receipt
  <2>2. payload \in Build!PluginPayload /\ receipt \in Build!Receipt \cup {None}
        /\ (at = "succeeded") \in BOOLEAN
    BY DEF Build!BuildTypeOK
  <2> QED BY <1>3, <2>1, <2>2, ZenonT(60)
<1>5. receipt' # None /\ receipt'.succeeded /\ receipt'.digest # None => Build!Closed(receipt'.digest)
  BY <1>3
<1>6. at' = "succeeded" => Build!Closed(payload')
  <2>1. at' = "succeeded" => \/ at = "succeeded" /\ UNCHANGED payload
                             \/ Build!Validates /\ UNCHANGED payload
    BY DEF Build!BuildNext, Build!buildVars, Build!Starts, Build!Check, Build!Interrupted,
       Build!EditsPayload,
        Build!Bundle, Build!Clear, Build!WriteBundle, Build!WriteNotices, Build!WriteInventory,
        Build!WriteProjection, Build!Validate, Build!Report, Build!EditsSource, Build!BuildGoes
  <2> QED BY <2>1 DEF Build!Validates
<1>7. Build!BuildTypeOK'
  BY <1>1, <1>2, <1>4 DEF Build!BuildTypeOK
<1>8. (receipt # None /\ receipt.succeeded /\ receipt.digest # None => Build!Closed(receipt.digest))'
  BY <1>5 DEF Build!Closed
<1>9. (at = "succeeded" => Build!Closed(payload))'
  BY <1>6 DEF Build!Closed
<1> QED BY <1>7, <1>8, <1>9

LEMMA FreshIsValidated == BuildInv => Build!FreshIsClosed
BY DEF BuildInv, Build!FreshIsClosed, Build!Freshness

\* A payload is reported fresh only while it is, file for file, what a build has
\* validated: for any skills and generations of their sources, whichever write a build
\* is interrupted at.
THEOREM FreshMeansClosed == Build!BuildSpec => []Build!FreshIsClosed
BY FreshIsValidated, BuildInitInv, BuildStep, PTL DEF Build!BuildSpec

-----------------------------------------------------------------------------
(* KitPackage: what an invocation knows, and what its Kit has published.   *)

\* Before the Kit is invoked an invocation knows its checkout and nothing is
\* published; a Kit that was admitted is the one its source pins, and publishes the
\* archive first.
KitJobInv(j) ==
  /\ j.at \notin {"invoke", "admitted", "told"} => j.place # None
  /\ j.at \notin {"admitted", "told"} => j.published = {}
  /\ j.at = "admitted" =>
       /\ j.by = pinned[j.source]
       /\ j.published \in {{}, {"archive"}, Kits!Artifact}
  /\ j.at = "told" =>
       /\ j.told = "packaged" => j.published = Kits!Artifact /\ j.by = pinned[j.source]
       /\ j.told = "partial" => j.published = {"archive"}
       /\ j.told \in {"not-admitted", "refused", "retry"} => j.published = {}

KitInv ==
  /\ Kits!KitTypeOK
  /\ \A r \in Packager : invocation[r] # None => invocation[r] \in Kits!KitJob /\ KitJobInv(invocation[r])

LEMMA KitInitInv == Kits!KitInit => KitInv
BY DEF Kits!KitInit, KitInv, Kits!KitTypeOK, Kits!Checkout

\* A step that gives one invocation a proper job, or none, and leaves the pins.
LEMMA JobStep ==
  ASSUME KitInv, NEW r \in Packager, NEW j, Kits!Becomes(r, j),
         j = None \/ (j \in Kits!KitJob /\ KitJobInv(j)), UNCHANGED <<pinned, head>>,
         checkout' \in [Kits!Place -> Kits!Checkout \cup {None}], link' \in Kits!Place \cup {None},
         dist' \subseteq Kits!Artifact
  PROVE  KitInv'
<1>1. invocation' \in [Packager -> Kits!KitJob \cup {None}]
  BY DEF Kits!Becomes, KitInv, Kits!KitTypeOK
<1>2. \A s \in Packager : invocation'[s] = IF s = r THEN j ELSE invocation[s]
  BY DEF Kits!Becomes, KitInv, Kits!KitTypeOK
<1>3. Kits!KitTypeOK'
  BY <1>1 DEF KitInv, Kits!KitTypeOK
<1>4. ASSUME NEW s \in Packager, invocation'[s] # None
      PROVE  invocation'[s] \in Kits!KitJob /\ KitJobInv(invocation'[s])
  BY <1>2, <1>4 DEF KitInv
<1>5. ASSUME NEW s \in Packager, invocation'[s] # None
      PROVE  KitJobInv(invocation[s])'
  BY <1>4, <1>5 DEF KitJobInv
<1> QED BY <1>3, <1>4, <1>5 DEF KitInv

\* A step that only moves an invocation on, before its Kit runs.
LEMMA Onward ==
  ASSUME KitInv, NEW r \in Packager, invocation[r] # None,
         invocation[r].at \notin {"invoke", "admitted", "told"}, NEW l, Kits!Proceeds(r, l),
         l \in {"clone", "cloned", "checkout", "inspect", "verify", "relink"},
         UNCHANGED <<pinned, head>>,
         checkout' \in [Kits!Place -> Kits!Checkout \cup {None}], link' \in Kits!Place \cup {None},
         dist' \subseteq Kits!Artifact
  PROVE  KitInv'
<1> DEFINE j == [invocation[r] EXCEPT !.at = l]
<1>1. invocation[r] \in Kits!KitJob /\ KitJobInv(invocation[r])
  BY DEF KitInv
<1>2. j \in Kits!KitJob /\ j.at = l /\ j.place = invocation[r].place /\ j.published = invocation[r].published
  BY <1>1 DEF Kits!KitJob
<1>3. KitJobInv(j)
  BY <1>1, <1>2 DEF KitJobInv
<1>4. Kits!Becomes(r, j)
  BY DEF Kits!Proceeds
<1> QED BY <1>2, <1>3, <1>4, JobStep

LEMMA Dropped ==
  ASSUME KitInv, NEW r \in Packager, Kits!Refuses(r), UNCHANGED <<pinned, head>>,
         checkout' \in [Kits!Place -> Kits!Checkout \cup {None}], link' \in Kits!Place \cup {None},
         dist' \subseteq Kits!Artifact
  PROVE  KitInv'
BY JobStep DEF Kits!Refuses

LEMMA KitPlace ==
  ASSUME KitInv, NEW r \in Packager, invocation[r] # None,
         invocation[r].at \notin {"invoke", "admitted", "told"}
  PROVE  invocation[r].place \in Kits!Place
BY DEF KitInv, KitJobInv, Kits!KitJob

\* The steps up to the checkout of the Kit.
LEMMA ObserveInv ==
  ASSUME KitInv, NEW r \in Packager,
         Kits!Invoked(r) \/ Kits!ResolveSource(r) \/ Kits!ReadPin(r) \/ Kits!LookForCheckout(r)
  PROVE  KitInv'
<1>0. /\ UNCHANGED <<pinned, head, checkout, link, dist>>
      /\ checkout \in [Kits!Place -> Kits!Checkout \cup {None}] /\ link \in Kits!Place \cup {None}
      /\ dist \subseteq Kits!Artifact /\ head \in Revision /\ pinned[head] \in Kit
  BY DEF Kits!Invoked, Kits!ResolveSource, Kits!ReadPin, Kits!LookForCheckout, KitInv,
     Kits!KitTypeOK
<1>1. CASE Kits!Invoked(r)
  <2>1. PICK p \in Kits!Place :
          Kits!Becomes(r, [place |-> p, at |-> "source", source |-> None, pin |-> None, by |-> None,
                           published |-> {}, told |-> None])
    BY <1>1 DEF Kits!Invoked
  <2> DEFINE j == [place |-> p, at |-> "source", source |-> None, pin |-> None, by |-> None,
                   published |-> {}, told |-> None]
  <2>2. j \in Kits!KitJob
    BY DEF Kits!KitJob
  <2>3. KitJobInv(j)
    BY NoneIsNothing DEF KitJobInv
  <2> QED BY <1>0, <2>1, <2>2, <2>3, JobStep
<1>2. CASE Kits!ResolveSource(r)
  <2> DEFINE j == [invocation[r] EXCEPT !.source = head, !.at = "pin"]
  <2>1. invocation[r] \in Kits!KitJob /\ KitJobInv(invocation[r]) /\ invocation[r].at = "source"
    BY <1>2 DEF Kits!ResolveSource, Kits!Does, KitInv
  <2>2. j \in Kits!KitJob /\ KitJobInv(j)
    BY <1>0, <2>1 DEF Kits!KitJob, KitJobInv
  <2> QED BY <1>0, <1>2, <2>2, JobStep, Dropped DEF Kits!ResolveSource
<1>3. CASE Kits!ReadPin(r)
  <2> DEFINE j == [invocation[r] EXCEPT !.pin = pinned[head], !.at = "look"]
  <2>1. invocation[r] \in Kits!KitJob /\ KitJobInv(invocation[r]) /\ invocation[r].at = "pin"
    BY <1>3 DEF Kits!ReadPin, Kits!Does, KitInv
  <2>2. j \in Kits!KitJob /\ KitJobInv(j)
    BY <1>0, <2>1 DEF Kits!KitJob, KitJobInv
  <2> QED BY <1>0, <1>3, <2>2, JobStep, Dropped DEF Kits!ReadPin
<1>4. CASE Kits!LookForCheckout(r)
  <2>1. invocation[r] # None /\ invocation[r].at = "look"
        /\ (Kits!Proceeds(r, "inspect") \/ Kits!Refuses(r) \/ Kits!Proceeds(r, "clone"))
    BY <1>4 DEF Kits!LookForCheckout, Kits!Does
  <2> QED BY <1>0, <2>1, Onward, Dropped
<1> QED BY <1>1, <1>2, <1>3, <1>4

LEMMA ProvisionInv ==
  ASSUME KitInv, NEW r \in Packager,
         Kits!StartClone(r) \/ Kits!FinishClone(r) \/ Kits!CheckoutCommit(r) \/ Kits!InspectCheckout(r)
  PROVE  KitInv'
<1>0. /\ UNCHANGED <<pinned, head, link, dist>> /\ invocation[r] # None
      /\ invocation[r].at \in {"clone", "cloned", "checkout", "inspect"}
      /\ checkout \in [Kits!Place -> Kits!Checkout \cup {None}] /\ link \in Kits!Place \cup {None}
      /\ dist \subseteq Kits!Artifact
  BY DEF Kits!StartClone, Kits!FinishClone, Kits!CheckoutCommit, Kits!InspectCheckout, KitInv,
         Kits!KitTypeOK, Kits!Does
<1>1. invocation[r].place \in Kits!Place /\ invocation[r].pin \in Kit \cup {None}
  BY <1>0, KitPlace DEF KitInv, Kits!KitJob
<1>a. \A h \in Kit \cup {None}, b \in BOOLEAN : [head |-> h, filled |-> b] \in Kits!Checkout
  BY DEF Kits!Checkout
<1>b. ASSUME NEW c \in Kits!Checkout \cup {None},
             checkout' = [checkout EXCEPT ![invocation[r].place] = c]
      PROVE  checkout' \in [Kits!Place -> Kits!Checkout \cup {None}]
  BY <1>0, <1>1, <1>b
<1>2. CASE Kits!StartClone(r)
  <2>1. checkout' \in [Kits!Place -> Kits!Checkout \cup {None}]
    BY <1>a, <1>b, <1>2 DEF Kits!StartClone
  <2> QED BY <1>0, <1>2, <2>1, Onward, Dropped DEF Kits!StartClone
<1>3. CASE Kits!FinishClone(r)
  <2>1. checkout' \in [Kits!Place -> Kits!Checkout \cup {None}]
    BY ZenonT(60), <1>0, <1>1, <1>3 DEF Kits!FinishClone, Kits!Checkout, Kits!Own
  <2> QED BY <1>0, <1>3, <2>1, Onward, Dropped DEF Kits!FinishClone
<1>4. CASE Kits!CheckoutCommit(r)
  <2>1. checkout' \in [Kits!Place -> Kits!Checkout \cup {None}]
    BY <1>0, <1>1, <1>a, <1>b, <1>4 DEF Kits!CheckoutCommit
  <2> QED BY <1>0, <1>4, <2>1, Onward, Dropped DEF Kits!CheckoutCommit
<1>5. CASE Kits!InspectCheckout(r)
  <2>1. UNCHANGED checkout
        /\ (Kits!Proceeds(r, "verify") \/ Kits!Refuses(r) \/ Kits!Proceeds(r, "checkout"))
    BY <1>5 DEF Kits!InspectCheckout, Kits!Inspects
  <2> QED BY <1>0, <2>1, Onward, Dropped
<1> QED BY <1>2, <1>3, <1>4, <1>5

LEMMA LinkInv ==
  ASSUME KitInv, NEW r \in Packager,
         Kits!VerifyCheckout(r) \/ Kits!ReadLink(r) \/ Kits!MakeLink(r)
  PROVE  KitInv'
<1>0. /\ UNCHANGED <<pinned, head, checkout, dist>> /\ invocation[r] # None
      /\ invocation[r].at \in {"verify", "link", "relink"}
      /\ invocation[r] \in Kits!KitJob /\ KitJobInv(invocation[r])
      /\ checkout \in [Kits!Place -> Kits!Checkout \cup {None}] /\ link \in Kits!Place \cup {None}
      /\ dist \subseteq Kits!Artifact
  BY DEF Kits!VerifyCheckout, Kits!ReadLink, Kits!MakeLink, KitInv, Kits!KitTypeOK, Kits!Does
<1>1. invocation[r].place \in Kits!Place
  BY <1>0, KitPlace
<1>2. link' \in Kits!Place \cup {None}
  BY <1>0, <1>1 DEF Kits!VerifyCheckout, Kits!ReadLink, Kits!MakeLink
<1>3. ASSUME Kits!Links(r) PROVE KitInv'
  <2> DEFINE j == [invocation[r] EXCEPT !.place = None, !.at = "invoke"]
  <2>1. j \in Kits!KitJob /\ KitJobInv(j)
    BY <1>0 DEF Kits!KitJob, KitJobInv
  <2> QED BY <1>0, <1>2, <1>3, <2>1, JobStep DEF Kits!Links
<1>4. CASE Kits!VerifyCheckout(r)
  <2> DEFINE j == [invocation[r] EXCEPT !.pin = None, !.at = "link"]
  <2>1. j \in Kits!KitJob /\ KitJobInv(j)
    BY <1>0 DEF Kits!KitJob, KitJobInv
  <2> QED BY <1>0, <1>2, <1>4, <2>1, JobStep, Dropped DEF Kits!VerifyCheckout
<1>5. CASE Kits!ReadLink(r) \/ Kits!MakeLink(r)
  <2>1. Kits!Links(r) \/ Kits!Proceeds(r, "relink") \/ Kits!Refuses(r)
    BY <1>5 DEF Kits!ReadLink, Kits!MakeLink
  <2> QED BY <1>0, <1>2, <1>3, <2>1, Onward, Dropped
<1> QED BY <1>4, <1>5

LEMMA ToldTrue ==
  ASSUME KitInv, NEW r \in Packager, invocation[r] # None, NEW e,
         \/ invocation[r].at = "invoke" /\ e \in {"failed", "not-admitted", "refused"}
         \/ invocation[r].at = "admitted" /\ e \in Kits!Exiting(r)
  PROVE  Kits!Told(r, e) \in Kits!KitJob /\ KitJobInv(Kits!Told(r, e))
<1> DEFINE told == Kits!ClassifyKitOutcome(e)
           j == Kits!Told(r, e)
<1>1. invocation[r] \in Kits!KitJob /\ KitJobInv(invocation[r])
  BY DEF KitInv
<1>2. /\ told \in Kits!Outcome
      /\ told = "packaged" => e = "ok" 
      /\ told = "partial" => e \in {"continuation"}
      /\ told \in {"not-admitted", "refused", "retry"} => e \in {"not-admitted", "refused", "retry"}
  BY DEF Kits!ClassifyKitOutcome, Kits!ClassifySuccess, Kits!OutcomeKind, Kits!Outcome
<1>3. /\ j \in Kits!KitJob /\ j.at = "told" /\ j.told = told /\ j.published = invocation[r].published
      /\ told = "packaged" => j.by = invocation[r].by /\ j.source = invocation[r].source
  <2> HIDE DEF told
  <2>1. j = [invocation[r] EXCEPT !.told = told, !.at = "told",
               !.source = IF told = "packaged" THEN @ ELSE None,
               !.by = IF told = "packaged" THEN @ ELSE None]
    BY DEF Kits!Told, told
  <2> HIDE DEF j
  <2> QED BY <1>1, <1>2, <2>1 DEF Kits!KitJob
<1>4. /\ told = "packaged" => invocation[r].at = "admitted" /\ invocation[r].published = Kits!Artifact
      /\ told = "partial" => invocation[r].published = {"archive"}
      /\ told \in {"not-admitted", "refused", "retry"} => invocation[r].published = {}
  <2> HIDE DEF told
  <2>1. CASE invocation[r].at = "invoke" /\ e \in {"failed", "not-admitted", "refused"}
    BY <1>1, <1>2, <2>1 DEF KitJobInv
  <2>2. CASE invocation[r].at = "admitted" /\ e \in Kits!Exiting(r)
    <3>1. invocation[r].published \in {{}, {"archive"}, Kits!Artifact}
      BY <1>1, <2>2 DEF KitJobInv
    <3>2. {"archive"} # Kits!Artifact /\ {"archive"} # {} /\ Kits!Artifact # {}
      BY DEF Kits!Artifact
    <3> QED BY <1>2, <2>2, <3>1, <3>2 DEF Kits!Exiting
  <2> QED BY <2>1, <2>2
<1> HIDE DEF told, j
<1>5. KitJobInv(j)
  BY <1>1, <1>3, <1>4 DEF KitJobInv
<1> QED BY <1>3, <1>5 DEF j

LEMMA ProcessInv ==
  ASSUME KitInv, NEW r \in Packager, Kits!StartKit(r) \/ Kits!Publish(r) \/ Kits!ExitKit(r)
  PROVE  KitInv'
<1>0. /\ UNCHANGED <<pinned, head, checkout, link>> /\ invocation[r] # None
      /\ invocation[r] \in Kits!KitJob /\ KitJobInv(invocation[r])
      /\ checkout \in [Kits!Place -> Kits!Checkout \cup {None}] /\ link \in Kits!Place \cup {None}
      /\ dist \subseteq Kits!Artifact /\ head \in Revision
  BY DEF Kits!StartKit, Kits!Publish, Kits!ExitKit, KitInv, Kits!KitTypeOK, Kits!Does
<1>1. CASE Kits!StartKit(r)
  <2> DEFINE j == [invocation[r] EXCEPT !.by = checkout[link].head, !.at = "admitted"]
  <2>1. invocation[r].at = "invoke" /\ UNCHANGED dist
    BY <1>1 DEF Kits!StartKit, Kits!Does
  <2>2. ASSUME Kits!Admits(r) PROVE j \in Kits!KitJob /\ KitJobInv(j)
    <3>1. checkout[link].head = pinned[invocation[r].source] /\ checkout[link].head \in Kit
      BY <1>0, <2>2 DEF Kits!Admits, KitInv, Kits!KitTypeOK
    <3>2. j \in Kits!KitJob /\ j.by = pinned[j.source] /\ j.published = {} /\ j.at = "admitted"
      BY <1>0, <2>1, <3>1 DEF Kits!KitJob, KitJobInv
    <3> QED BY <3>2 DEF KitJobInv
  <2>3. \A e \in {"failed", "not-admitted", "refused"} :
          Kits!Told(r, e) \in Kits!KitJob /\ KitJobInv(Kits!Told(r, e))
    BY <1>0, <2>1, ToldTrue
  <2>4. \/ \E e \in {"failed", "not-admitted", "refused"} : Kits!Becomes(r, Kits!Told(r, e))
        \/ Kits!Admits(r) /\ Kits!Becomes(r, j)
    BY <1>1 DEF Kits!StartKit
  <2> QED BY <1>0, <2>1, <2>2, <2>3, <2>4, JobStep
<1>2. CASE Kits!Publish(r)
  <2>1. PICK a \in Kits!Artifact :
          /\ a = "checksums" <=> "archive" \in invocation[r].published
          /\ a \notin dist \cup invocation[r].published
          /\ dist' = dist \cup {a}
          /\ Kits!Becomes(r, [invocation[r] EXCEPT !.published = @ \cup {a}])
    BY <1>2 DEF Kits!Publish
  <2> DEFINE j == [invocation[r] EXCEPT !.published = @ \cup {a}]
  <2>2. invocation[r].at = "admitted" /\ invocation[r].published \in {{}, {"archive"}, Kits!Artifact}
    BY <1>0, <1>2 DEF Kits!Publish, Kits!Does, KitJobInv
  <2>3. invocation[r].published \cup {a} \in {{"archive"}, Kits!Artifact}
    BY <2>1, <2>2 DEF Kits!Artifact
  <2>4. /\ j \in Kits!KitJob /\ j.at = "admitted" /\ j.by = invocation[r].by
        /\ j.source = invocation[r].source /\ j.published = invocation[r].published \cup {a}
    BY <1>0, <2>2 DEF Kits!KitJob
  <2>5. KitJobInv(j)
    BY <1>0, <2>2, <2>3, <2>4 DEF KitJobInv
  <2> QED BY <1>0, <2>1, <2>4, <2>5, JobStep
<1>3. CASE Kits!ExitKit(r)
  BY <1>0, <1>3, ToldTrue, JobStep DEF Kits!ExitKit, Kits!Does
<1> QED BY <1>1, <1>2, <1>3

LEMMA KitStep == KitInv /\ [Kits!KitNext]_(Kits!kitVars) => KitInv'
<1> SUFFICES ASSUME KitInv, [Kits!KitNext]_(Kits!kitVars) PROVE KitInv'
  OBVIOUS
<1>1. ASSUME NEW r \in Packager, Kits!Vanishes(r) PROVE KitInv'
  <2>1. Kits!Refuses(r) /\ UNCHANGED <<pinned, head, checkout, link, dist>>
    BY <1>1 DEF Kits!Vanishes, Kits!Refuses, Kits!Becomes
  <2>2. checkout \in [Kits!Place -> Kits!Checkout \cup {None}] /\ link \in Kits!Place \cup {None}
        /\ dist \subseteq Kits!Artifact
    BY DEF KitInv, Kits!KitTypeOK
  <2> QED BY <2>1, <2>2, Dropped
<1>2. CASE Kits!PeopleChange
  <2>1. Kits!KitTypeOK'
    BY <1>2 DEF Kits!PeopleChange, KitInv, Kits!KitTypeOK, Kits!Place, Kits!Checkout
  <2>2. UNCHANGED <<pinned, invocation>>
    BY <1>2 DEF Kits!PeopleChange
  <2> QED BY <2>1, <2>2 DEF KitInv, KitJobInv
<1>3. CASE UNCHANGED Kits!kitVars
  BY <1>3 DEF Kits!kitVars, KitInv, KitJobInv, Kits!KitTypeOK
<1> QED BY <1>1, <1>2, <1>3, ObserveInv, ProvisionInv, LinkInv, ProcessInv DEF Kits!KitNext

LEMMA PackagedIsTrue == KitInv => Kits!PackagedExact
BY DEF KitInv, KitJobInv, Kits!PackagedExact, Kits!Does

\* What an invocation tells is true of its own Kit process, for any number of them in
\* one repository, without a lock, and whoever moves HEAD, the link and the checkouts.
THEOREM PackagedMeansPinned == Kits!KitSpec => []Kits!PackagedExact
BY PackagedIsTrue, KitInitInv, KitStep, PTL DEF Kits!KitSpec

-----------------------------------------------------------------------------
(* ReleasePublication: what a run has done by each step of its release job. *)

\* The jobs before the release job.
Earlier == {"resolve", "persist", "candidate", "package"}

\* Whether a run is to have a candidate, and a package proven of it.
Resolved(r) ==
  \/ r.mode # "repair"
  \/ r.at \in {"candidate", "package", "queued"} \cup Publication!ReleaseStep
  \/ r.at = "failed" /\ r.from # "resolve"
Proven(r) ==
  \/ r.at \in {"queued"} \cup Publication!ReleaseStep
  \/ r.at = "failed" /\ r.from = "queued"
Unproven(r) == r.at \in Earlier \/ (r.at = "failed" /\ r.from # "queued")

RunKnows(r) ==
  /\ Resolved(r) => r.of \in Candidate
  /\ r.at = "persist" => r.mode # "repair"
  /\ Unproven(r) => r.proven = None
  /\ Proven(r) => r.proven \in Publication!Distribution /\ r.proven.commit = r.of

\* What the release job has done by each of its steps.
Tagging == {"create", "compare", "upload", "attest", "label", "unlabel", "completed"}
Targeting == Tagging \ {"create"}
Uploading == Targeting \ {"compare"}
Uploaded == Uploading \ {"upload"}

Tags(r) == tag = [commit |-> r.of, record |-> r.of]
Targets(r) == release # None /\ release.target = r.of
Carries(r) ==
  ~release.extra /\ \A a \in Publication!Asset : r.todo[a] = "keep" => release.asset[a] = r.proven

RunHasDone(r) ==
  /\ r.at \in Tagging => Tags(r)
  /\ r.at \in Targeting => Targets(r)
  /\ r.at \in Uploading => Carries(r)
  /\ r.at \in Uploaded => r.todo = Publication!NoActions
  /\ r.at = "completed" => labels[r.of] = "tagged"

PublicationInv ==
  /\ Publication!PublicationTypeOK
  /\ \A j \in Job : run[j] # None =>
       /\ RunKnows(run[j]) /\ RunHasDone(run[j])
       /\ run[j].at \in Publication!ReleaseStep => group = j

LEMMA PublicationInitInv == Publication!PublicationInit => PublicationInv
BY DEF Publication!PublicationInit, PublicationInv, Publication!PublicationTypeOK, Publication!Label

-----------------------------------------------------------------------------
LEMMA RunTyped ==
  ASSUME PublicationInv, NEW j \in Job, run[j] # None
  PROVE  run[j] \in Publication!Run /\ RunKnows(run[j]) /\ RunHasDone(run[j])
BY DEF PublicationInv, Publication!PublicationTypeOK

\* A step of one run, in the release job or not.  What it has done is asked of the
\* others only before the release job, where nothing is.
LEMMA RunStep ==
  ASSUME PublicationInv, NEW j \in Job, NEW r \in Publication!Run, Publication!Knows(j, r),
         RunKnows(r), RunHasDone(r)',
         tag' \in Publication!Tagged \cup {None}, records' \subseteq Candidate,
         release' \in Publication!Release \cup {None}, labels' \in [Candidate -> Publication!Label],
         tool' \in Toolchain, group' \in Job \cup {None},
         r.at \in Publication!ReleaseStep => group' = j,
         \A k \in Job \ {j} : group = k => UNCHANGED <<tag, release, labels, group>>
  PROVE  PublicationInv'
<1>1. run' \in [Job -> Publication!Run \cup {None}] /\ \A k \in Job : run'[k] = IF k = j THEN r ELSE run[k]
  BY DEF Publication!Knows, PublicationInv, Publication!PublicationTypeOK
<1>2. Publication!PublicationTypeOK'
  BY <1>1 DEF Publication!PublicationTypeOK
<1>3. ASSUME NEW k \in Job, run'[k] # None
      PROVE  (RunKnows(run[k]) /\ RunHasDone(run[k]) /\ (run[k].at \in Publication!ReleaseStep => group = k))'
  <2>1. CASE k = j
    <3>1. run'[k] = r
      BY <1>1, <2>1
    <3>2. RunKnows(run'[k]) /\ (run'[k].at \in Publication!ReleaseStep => group' = k)
      BY <2>1, <3>1
    <3>3. RunHasDone(run[k])'
      BY <3>1 DEF RunHasDone, Tags, Targets, Carries
    <3> QED BY <3>2, <3>3 DEF RunKnows, Resolved, Unproven, Proven
  <2>2. CASE k # j
    <3>1. run'[k] = run[k] /\ run[k] # None
      BY <1>1, <1>3, <2>2
    <3>2. RunKnows(run[k]) /\ RunHasDone(run[k]) /\ (run[k].at \in Publication!ReleaseStep => group = k)
      BY <3>1 DEF PublicationInv
    <3>3. RunKnows(run[k])'
      BY <3>1, <3>2 DEF RunKnows, Resolved, Unproven, Proven
    <3>4. CASE run[k].at \in Publication!ReleaseStep
      <4>1. UNCHANGED <<tag, release, labels, group>>
        BY <2>2, <3>2, <3>4
      <4> QED BY <3>1, <3>2, <3>3, <4>1 DEF RunHasDone, Tags, Targets, Carries
    <3>5. CASE run[k].at \notin Publication!ReleaseStep
      <4>1. run[k].at \notin Tagging
        BY <3>5 DEF Tagging, Publication!ReleaseStep
      <4> QED BY <3>1, <3>3, <3>5, <4>1 DEF RunHasDone, Tagging, Targeting, Uploading, Uploaded
    <3> QED BY <3>4, <3>5
  <2> QED BY <2>1, <2>2
<1> QED BY <1>2, <1>3 DEF PublicationInv

\* Whoever is in the release job holds the tag's group, so nobody else is.
LEMMA Alone ==
  ASSUME PublicationInv, NEW j \in Job, run[j] # None, run[j].at \in Publication!ReleaseStep
  PROVE  group = j /\ j # None /\ \A k \in Job \ {j} : group # k
BY NoneIsNothing DEF PublicationInv

-----------------------------------------------------------------------------
(* The steps.                                                              *)

World ==
  /\ tag \in Publication!Tagged \cup {None} /\ records \subseteq Candidate
  /\ release \in Publication!Release \cup {None} /\ labels \in [Candidate -> Publication!Label]
  /\ tool \in Toolchain /\ group \in Job \cup {None}

LEMMA WorldTyped == PublicationInv => World
BY DEF PublicationInv, Publication!PublicationTypeOK, World

\* A run that has not done anything yet: it is in no step of the release job past its
\* replay.
LEMMA NothingDone ==
  ASSUME NEW r, r.at \notin Tagging
  PROVE  RunHasDone(r) /\ RunHasDone(r)'
BY DEF RunHasDone, Tagging, Targeting, Uploading, Uploaded

\* A job that fails leaves the group, and what it has changed stays.
LEMMA FailsInv ==
  ASSUME PublicationInv, NEW j \in Job, run[j] # None, run[j].at \notin {"failed", "succeeded"},
         Publication!Fails(j), UNCHANGED <<records, tool>>,
         tag' \in Publication!Tagged \cup {None}, release' \in Publication!Release \cup {None},
         labels' \in [Candidate -> Publication!Label],
         ~Publication!Holds(j) => UNCHANGED <<tag, release, labels>>
  PROVE  PublicationInv'
<1> DEFINE from == CASE Publication!Holds(j) -> "queued" [] Publication!At(j, "persist") -> "resolve"
                     [] OTHER -> run[j].at
<1>1. run[j] \in Publication!Run /\ RunKnows(run[j])
  BY RunTyped
<1>2. from \in {"resolve", "candidate", "package", "queued"}
  BY <1>1 DEF Publication!Run, Publication!Step, Publication!Holds, Publication!At
<1>3. /\ from = "queued" <=> run[j].at \in {"queued"} \cup Publication!ReleaseStep
      /\ from = "resolve" <=> run[j].at \in {"resolve", "persist"}
      /\ from \in {"candidate", "package"} => run[j].at = from
  BY <1>1, <1>2 DEF Publication!Run, Publication!Step, Publication!Holds, Publication!At,
     Publication!ReleaseStep
<1> HIDE DEF from
<1> DEFINE d == [run[j] EXCEPT !.at = "failed", !.todo = Publication!NoActions, !.from = from]
<1>d. /\ d \in Publication!Run /\ d.at = "failed" /\ d.from = from /\ d.of = run[j].of
      /\ d.mode = run[j].mode /\ d.proven = run[j].proven
  BY <1>1, <1>2 DEF Publication!Run, Publication!NoActions
<1>e. PICK r \in Publication!Run : r = d
  BY <1>d
<1> HIDE DEF d
<1>4. /\ r.at = "failed" /\ r.from = from /\ r.of = run[j].of
      /\ r.mode = run[j].mode /\ r.proven = run[j].proven
  BY <1>d, <1>e
<1>5. RunKnows(r)
  <2>1. Resolved(r) => Resolved(run[j])
    <3>1. r.from # "resolve" => run[j].at \in {"candidate", "package", "queued"} \cup Publication!ReleaseStep
      BY <1>2, <1>3, <1>4
    <3>2. r.at \notin {"candidate", "package", "queued"} \cup Publication!ReleaseStep
      BY <1>4 DEF Publication!ReleaseStep
    <3> QED BY <1>4, <3>1, <3>2 DEF Resolved
  <2>2. Unproven(r) => Unproven(run[j])
    BY <1>1, <1>2, <1>3, <1>4 DEF Unproven, Earlier
  <2>3. Proven(r) => Proven(run[j])
    BY <1>1, <1>2, <1>3, <1>4 DEF Proven, Publication!ReleaseStep
  <2> QED BY <1>1, <1>4, <2>1, <2>2, <2>3 DEF RunKnows
<1>6. RunHasDone(r)'
  BY <1>4, NothingDone DEF Tagging
<1>7. Publication!Knows(j, r) /\ Publication!Leaves(j)
  BY <1>e DEF Publication!Fails, from, d
<1>8. \A k \in Job \ {j} : group = k => UNCHANGED <<tag, release, labels, group>>
  BY <1>7, Alone DEF Publication!Leaves, Publication!Holds
<1>9. group' \in Job \cup {None} /\ r.at \notin Publication!ReleaseStep
  BY <1>4, <1>7, WorldTyped DEF World, Publication!Leaves, Publication!ReleaseStep
<1> QED BY <1>4, <1>5, <1>6, <1>7, <1>8, <1>9, WorldTyped, RunStep DEF World

\* A step that leaves the world alone, outside the release job.
LEMMA Before ==
  ASSUME PublicationInv, NEW j \in Job, NEW r \in Publication!Run, Publication!Knows(j, r),
         RunKnows(r), r.at \notin Publication!ReleaseStep,
         UNCHANGED <<tag, release, labels, tool, group>>, records' \subseteq Candidate
  PROVE  PublicationInv'
<1>1. RunHasDone(r)'
  BY NothingDone DEF Tagging, Publication!ReleaseStep
<1> QED BY <1>1, WorldTyped, RunStep DEF World

LEMMA StartsInv ==
  ASSUME PublicationInv, NEW j \in Job, Publication!Starts(j)
  PROVE  PublicationInv'
<1>1. PICK m \in {"publish", "resume", "repair"}, c \in Candidate \cup {None}, b \in BOOLEAN, n \in BOOLEAN :
        /\ (c = None) <=> (m = "repair")
        /\ Publication!Knows(j, [mode |-> m, replace |-> b, narrowed |-> n, of |-> c,
                    built |-> None, proven |-> None, todo |-> Publication!NoActions,
                    at |-> "resolve", from |-> "resolve"])
  BY DEF Publication!Starts
<1> DEFINE r == [mode |-> m, replace |-> b, narrowed |-> n, of |-> c,
                 built |-> None, proven |-> None, todo |-> Publication!NoActions,
                 at |-> "resolve", from |-> "resolve"]
<1>2. r \in Publication!Run
  BY DEF Publication!Run, Publication!Step, Publication!NoActions
<1>3. RunKnows(r)
  BY <1>1 DEF RunKnows, Resolved, Unproven, Proven, Publication!ReleaseStep
<1>4. UNCHANGED <<tag, release, labels, tool, group, records>> /\ records \subseteq Candidate
  BY WorldTyped DEF Publication!Starts, Publication!world, World
<1> QED BY <1>1, <1>2, <1>3, <1>4, Before DEF Publication!ReleaseStep

\* What a run knows when it has gone on.
LEMMA GoneOn ==
  ASSUME NEW r \in Publication!Run, RunKnows(r), NEW s \in Publication!Step,
         \/ r.at = "resolve" /\ s \in {"persist", "candidate"} /\ r.mode # "repair"
         \/ r.at = "persist" /\ s = "candidate"
         \/ r.at \in {"queued"} \cup Publication!ReleaseStep /\ s \in Publication!ReleaseStep
  PROVE  /\ [r EXCEPT !.at = s] \in Publication!Run /\ RunKnows([r EXCEPT !.at = s])
         /\ [r EXCEPT !.at = s].at = s
<1> DEFINE n == [r EXCEPT !.at = s]
<1>1. n \in Publication!Run /\ n.at = s /\ n.of = r.of /\ n.mode = r.mode /\ n.proven = r.proven
      /\ n.todo = r.todo
  BY DEF Publication!Run
<1> HIDE DEF n
<1>2. RunKnows(n)
  <2>1. Resolved(n) => Resolved(r)
    <3>1. r.at \in {"resolve", "persist"} => r.mode # "repair"
      BY DEF RunKnows, Publication!ReleaseStep
    <3> QED BY <1>1, <3>1 DEF Resolved, Publication!ReleaseStep
  <2>2. Unproven(n) => Unproven(r)
    BY <1>1 DEF Unproven, Earlier, Publication!ReleaseStep
  <2>3. Proven(n) => Proven(r)
    BY <1>1 DEF Proven, Publication!ReleaseStep
  <2>4. n.at = "persist" => n.mode # "repair"
    BY <1>1 DEF Publication!ReleaseStep
  <2> QED BY <1>1, <2>1, <2>2, <2>3, <2>4 DEF RunKnows
<1> QED BY <1>1, <1>2 DEF n

LEMMA ResolveInv ==
  ASSUME PublicationInv, NEW j \in Job, Publication!Resolve(j)
  PROVE  PublicationInv'
<1>1. /\ run[j] # None /\ run[j].at = "resolve" /\ run[j] \in Publication!Run /\ RunKnows(run[j])
      /\ UNCHANGED <<tag, records, release, labels, tool>>
  BY RunTyped DEF Publication!Resolve, Publication!At, Publication!world
<1>2. ASSUME Publication!Fails(j) PROVE PublicationInv'
  BY <1>1, <1>2, WorldTyped, FailsInv DEF World
<1>3. ASSUME NEW s \in {"persist", "candidate"}, run[j].mode # "repair", Publication!Goes(j, s), UNCHANGED group
      PROVE  PublicationInv'
  <2>1. s \in Publication!Step /\ s \notin Publication!ReleaseStep
    BY DEF Publication!Step, Publication!ReleaseStep
  <2>2. PICK n \in Publication!Run : n = [run[j] EXCEPT !.at = s] /\ RunKnows(n) /\ n.at = s
    BY <1>1, <1>3, <2>1, GoneOn
  <2>3. Publication!Knows(j, n) /\ records \subseteq Candidate
    BY <1>3, <2>2, WorldTyped DEF Publication!Goes, World
  <2> QED BY <1>1, <1>3, <2>1, <2>2, <2>3, Before
<1>4. ASSUME NEW c \in Candidate, Publication!Knows(j, [run[j] EXCEPT !.of = c, !.at = "candidate"]),
             UNCHANGED group
      PROVE  PublicationInv'
  <2> DEFINE n == [run[j] EXCEPT !.of = c, !.at = "candidate"]
  <2>1. n \in Publication!Run /\ n.at = "candidate" /\ n.of = c /\ n.proven = run[j].proven
    BY <1>1 DEF Publication!Run, Publication!Step
  <2> HIDE DEF n
  <2>2. run[j].proven = None
    BY <1>1 DEF RunKnows, Unproven, Earlier
  <2>3. RunKnows(n) /\ n.at \notin Publication!ReleaseStep
    BY <2>1, <2>2 DEF RunKnows, Proven, Publication!ReleaseStep
  <2> QED BY <1>1, <1>4, <2>1, <2>3, WorldTyped, Before DEF World, n
<1>5. \/ Publication!Fails(j)
      \/ run[j].mode # "repair" /\ UNCHANGED group /\ \E s \in {"persist", "candidate"} : Publication!Goes(j, s)
      \/ UNCHANGED group
         /\ \E c \in Candidate : Publication!Knows(j, [run[j] EXCEPT !.of = c, !.at = "candidate"])
  <2>1. run[j].mode \in {"publish", "resume", "repair"}
    BY <1>1 DEF Publication!Run
  <2>2. CASE run[j].mode = "repair"
    BY <2>2 DEF Publication!Resolve
  <2>3. CASE run[j].mode = "publish"
    BY <2>3 DEF Publication!Resolve
  <2>4. CASE run[j].mode = "resume"
    BY <2>4 DEF Publication!Resolve
  <2> QED BY <2>1, <2>2, <2>3, <2>4
<1> QED BY <1>2, <1>3, <1>4, <1>5

LEMMA PersistInv ==
  ASSUME PublicationInv, NEW j \in Job, Publication!Persist(j)
  PROVE  PublicationInv'
<1>1. /\ run[j] # None /\ run[j].at = "persist" /\ run[j] \in Publication!Run /\ RunKnows(run[j])
      /\ UNCHANGED <<tag, release, labels, tool, group>> /\ Publication!Goes(j, "candidate")
      /\ records' = records \cup {run[j].of}
  BY RunTyped DEF Publication!Persist, Publication!At
<1>2. run[j].of \in Candidate
  BY <1>1 DEF RunKnows, Resolved
<1>3. records' \subseteq Candidate
  BY <1>1, <1>2, WorldTyped DEF World
<1>4. "candidate" \in Publication!Step /\ "candidate" \notin Publication!ReleaseStep
  BY DEF Publication!Step, Publication!ReleaseStep
<1>5. PICK n \in Publication!Run : n = [run[j] EXCEPT !.at = "candidate"] /\ RunKnows(n) /\ n.at = "candidate"
  BY <1>1, <1>4, GoneOn
<1>6. Publication!Knows(j, n)
  BY <1>1, <1>5 DEF Publication!Goes
<1> QED BY <1>1, <1>3, <1>4, <1>5, <1>6, Before

LEMMA PackageInv ==
  ASSUME PublicationInv, NEW j \in Job,
         Publication!BuildCandidate(j) \/ Publication!ProvePackage(j) \/ Publication!Converge(j)
  PROVE  PublicationInv'
<1>1. /\ run[j] # None /\ run[j] \in Publication!Run /\ RunKnows(run[j])
      /\ run[j].at \in {"candidate", "package", "completed"}
      /\ UNCHANGED <<tag, records, release, labels, tool>> /\ World
  BY RunTyped, WorldTyped
     DEF Publication!BuildCandidate, Publication!ProvePackage, Publication!Converge,
     Publication!At, Publication!world
<1>2. run[j].of \in Candidate
  BY <1>1 DEF RunKnows, Resolved, Publication!ReleaseStep
<1>3. Publication!Built(j) \in Publication!Distribution /\ Publication!Built(j).commit = run[j].of
  BY <1>1, <1>2 DEF Publication!Built, Publication!Distribution, World
<1>4. CASE Publication!BuildCandidate(j)
  <2> DEFINE d == [run[j] EXCEPT !.built = Publication!Built(j), !.at = "package"]
  <2>1. d \in Publication!Run /\ d.at = "package" /\ d.proven = run[j].proven /\ d.of = run[j].of
    BY <1>1, <1>3 DEF Publication!Run, Publication!Step
  <2>2. PICK n \in Publication!Run : n = d
    BY <2>1
  <2>3. Publication!Knows(j, n) /\ UNCHANGED group /\ run[j].at = "candidate"
    BY <1>4, <2>2 DEF Publication!BuildCandidate, Publication!At
  <2> HIDE DEF d
  <2>4. run[j].proven = None
    BY <1>1, <2>3 DEF RunKnows, Unproven, Earlier
  <2>5. RunKnows(n) /\ n.at \notin Publication!ReleaseStep
    BY <1>2, <2>1, <2>2, <2>4 DEF RunKnows, Proven, Publication!ReleaseStep
  <2> QED BY <1>1, <2>3, <2>5, Before DEF World
<1>5. CASE Publication!ProvePackage(j)
  <2> DEFINE d == [run[j] EXCEPT !.proven = run[j].built, !.built = None, !.at = "queued"]
  <2>0. run[j].at = "package"
    BY <1>5 DEF Publication!ProvePackage, Publication!At
  <2>1. CASE Publication!Built(j) = run[j].built
    <3>1. d \in Publication!Run /\ d.at = "queued" /\ d.proven = Publication!Built(j) /\ d.of = run[j].of
      BY <1>1, <1>3, <2>1 DEF Publication!Run, Publication!Step
    <3>2. PICK n \in Publication!Run : n = d
      BY <3>1
    <3>3. Publication!Knows(j, n) /\ UNCHANGED group
      BY <1>5, <2>1, <3>2 DEF Publication!ProvePackage
    <3> HIDE DEF d
    <3>4. RunKnows(n) /\ n.at \notin Publication!ReleaseStep
      BY <1>2, <1>3, <3>1, <3>2 DEF RunKnows, Unproven, Earlier, Publication!ReleaseStep
    <3> QED BY <1>1, <3>3, <3>4, Before DEF World
  <2>2. CASE Publication!Fails(j)
    BY <1>1, <2>0, <2>2, FailsInv DEF World
  <2> QED BY <1>5, <2>1, <2>2 DEF Publication!ProvePackage
<1>6. CASE Publication!Converge(j)
  <2> DEFINE d == [run[j] EXCEPT !.at = "succeeded", !.proven = None,
                                 !.of = IF Publication!Repairs(j) THEN None ELSE @]
  <2>1. /\ d \in Publication!Run /\ d.at = "succeeded" /\ d.proven = None /\ d.mode = run[j].mode
        /\ d.mode # "repair" => d.of = run[j].of
    BY <1>1 DEF Publication!Run, Publication!Repairs
  <2>2. PICK n \in Publication!Run : n = d
    BY <2>1
  <2>3. Publication!Knows(j, n) /\ run[j].at = "completed" /\ Publication!Leaves(j)
    BY <1>6, <2>2 DEF Publication!Converge, Publication!At
  <2> HIDE DEF d
  <2>4. RunKnows(n) /\ n.at \notin Publication!ReleaseStep
    BY <1>2, <2>1, <2>2 DEF RunKnows, Resolved, Unproven, Proven, Earlier, Publication!ReleaseStep
  <2>5. RunHasDone(n)'
    BY <2>1, <2>2, NothingDone DEF Tagging
  <2>6. \A k \in Job \ {j} : group # k
    BY <1>1, <2>3, Alone DEF Publication!ReleaseStep
  <2>7. group' \in Job \cup {None}
    BY <1>1, <2>3 DEF World, Publication!Leaves
  <2> QED BY <1>1, <2>3, <2>4, <2>5, <2>6, <2>7, RunStep DEF World
<1> QED BY <1>4, <1>5, <1>6

\* A step of the release job, which only the run that holds the group takes.
LEMMA Within ==
  ASSUME PublicationInv, NEW j \in Job, run[j] # None, run[j].at \in Publication!ReleaseStep,
         NEW r \in Publication!Run, Publication!Knows(j, r), RunKnows(r), RunHasDone(r)',
         UNCHANGED <<records, tool, group>>, tag' \in Publication!Tagged \cup {None},
         release' \in Publication!Release \cup {None}, labels' \in [Candidate -> Publication!Label]
  PROVE  PublicationInv'
BY Alone, WorldTyped, RunStep DEF World

\* The next step of the release job, its package and its actions as they were.
LEMMA NextStep ==
  ASSUME PublicationInv, NEW j \in Job, run[j] # None,
         run[j].at \in {"queued"} \cup Publication!ReleaseStep, NEW s \in Publication!ReleaseStep
  PROVE  \E n \in Publication!Run :
           /\ n = [run[j] EXCEPT !.at = s] /\ RunKnows(n) /\ n.at = s
           /\ n.of = run[j].of /\ n.proven = run[j].proven /\ n.todo = run[j].todo
<1>1. run[j] \in Publication!Run /\ RunKnows(run[j]) /\ s \in Publication!Step
  BY RunTyped DEF Publication!Step
<1> DEFINE d == [run[j] EXCEPT !.at = s]
<1>2. d \in Publication!Run /\ d.at = s /\ d.of = run[j].of /\ d.proven = run[j].proven /\ d.todo = run[j].todo
  BY <1>1 DEF Publication!Run
<1>3. RunKnows(d)
  BY <1>1, GoneOn
<1> QED BY <1>2, <1>3

LEMMA EnterInv ==
  ASSUME PublicationInv, NEW j \in Job, Publication!Enter(j)
  PROVE  PublicationInv'
<1>1. /\ run[j] # None /\ run[j].at = "queued" /\ group = None /\ group' = j
      /\ UNCHANGED <<tag, records, release, labels, tool>> /\ World /\ Publication!Goes(j, "replay")
  BY WorldTyped DEF Publication!Enter, Publication!Enters, Publication!At, Publication!world
<1>2. PICK n \in Publication!Run : n = [run[j] EXCEPT !.at = "replay"] /\ RunKnows(n) /\ n.at = "replay"
  BY <1>1, NextStep DEF Publication!ReleaseStep
<1>3. Publication!Knows(j, n)
  BY <1>1, <1>2 DEF Publication!Goes
<1>4. RunHasDone(n)'
  BY <1>2, NothingDone DEF Tagging
<1>5. \A k \in Job \ {j} : group # k
  BY <1>1, NoneIsNothing
<1> QED BY <1>1, <1>2, <1>3, <1>4, <1>5, RunStep DEF World

LEMMA TagInv ==
  ASSUME PublicationInv, NEW j \in Job, Publication!Replay(j) \/ Publication!CreateTag(j)
  PROVE  PublicationInv'
<1>1. /\ run[j] # None /\ run[j].at \in {"replay", "tag"} /\ run[j] \in Publication!Run /\ RunKnows(run[j])
      /\ UNCHANGED <<records, release, labels, tool>> /\ World
  BY RunTyped, WorldTyped DEF Publication!Replay, Publication!CreateTag, Publication!At,
     Publication!world
<1>2. run[j].of \in Candidate
  BY <1>1 DEF RunKnows, Resolved, Publication!ReleaseStep
<1>3. ASSUME Publication!Fails(j), tag' \in Publication!Tagged \cup {None} PROVE PublicationInv'
  BY <1>1, <1>3, FailsInv DEF World, Publication!Holds, Publication!ReleaseStep
<1>4. CASE Publication!Replay(j)
  <2>1. ASSUME Publication!Goes(j, "tag"), UNCHANGED group PROVE PublicationInv'
    <3>1. PICK n \in Publication!Run : n = [run[j] EXCEPT !.at = "tag"] /\ RunKnows(n) /\ n.at = "tag"
      BY <1>1, NextStep DEF Publication!ReleaseStep
    <3>2. Publication!Knows(j, n)
      BY <2>1, <3>1 DEF Publication!Goes
    <3>3. RunHasDone(n)'
      BY <3>1, NothingDone DEF Tagging
    <3> QED BY <1>1, <1>4, <2>1, <3>1, <3>2, <3>3, Within DEF World, Publication!Replay,
               Publication!world, Publication!ReleaseStep
  <2> QED BY <1>1, <1>3, <1>4, <2>1 DEF Publication!Replay, Publication!world, World
<1>5. CASE Publication!CreateTag(j)
  <2> DEFINE own == [commit |-> run[j].of, record |-> run[j].of]
  <2>1. own \in Publication!Tagged
    BY <1>2 DEF Publication!Tagged
  <2>2. ASSUME Publication!Goes(j, "create"), UNCHANGED group, tag' = own PROVE PublicationInv'
    <3>1. PICK n \in Publication!Run : n = [run[j] EXCEPT !.at = "create"] /\ RunKnows(n) /\ n.at = "create" /\ n.of = run[j].of
      BY <1>1, NextStep DEF Publication!ReleaseStep
    <3>2. Publication!Knows(j, n)
      BY <2>2, <3>1 DEF Publication!Goes
    <3>3. RunHasDone(n)'
      BY <2>2, <3>1 DEF RunHasDone, Tagging, Targeting, Uploading, Uploaded, Tags
    <3> QED BY <1>1, <2>1, <2>2, <3>1, <3>2, <3>3, Within DEF World, Publication!ReleaseStep
  <2>3. \/ Publication!Goes(j, "create") /\ UNCHANGED group /\ tag' = own
        \/ Publication!Fails(j) /\ UNCHANGED tag
    BY <1>5 DEF Publication!CreateTag
  <2> QED BY <1>1, <1>3, <2>1, <2>2, <2>3 DEF World
<1> QED BY <1>4, <1>5

\* A Release, by its parts.
LEMMA ReleaseIs ==
  ASSUME NEW r \in Publication!Release
  PROVE  /\ r = [target |-> r.target, asset |-> r.asset, extra |-> r.extra]
         /\ r.target \in Candidate /\ r.extra \in BOOLEAN
         /\ r.asset \in [Publication!Asset -> Publication!Distribution \cup {None}]
BY DEF Publication!Release

LEMMA CreateReleaseInv ==
  ASSUME PublicationInv, NEW j \in Job, Publication!CreateRelease(j)
  PROVE  PublicationInv'
<1>1. /\ run[j] # None /\ run[j].at = "create" /\ run[j] \in Publication!Run /\ RunKnows(run[j])
      /\ RunHasDone(run[j]) /\ UNCHANGED <<tag, records, labels, tool>> /\ World
  BY RunTyped, WorldTyped DEF Publication!CreateRelease, Publication!At
<1>2. run[j].of \in Candidate /\ Tags(run[j])
  BY <1>1 DEF RunKnows, Resolved, RunHasDone, Tagging, Publication!ReleaseStep
<1>3. release' \in Publication!Release /\ release' # None
  <2>1. Publication!EmptyRelease(run[j].of) \in Publication!Release
    BY <1>2 DEF Publication!EmptyRelease, Publication!Release
  <2> QED BY <1>1, <2>1, NoneIsNothing DEF Publication!CreateRelease, World
<1>4. CASE Publication!Fails(j)
  BY <1>1, <1>3, <1>4, FailsInv DEF World, Publication!Holds, Publication!ReleaseStep
<1>5. CASE Publication!Goes(j, "compare") /\ UNCHANGED group /\ release'.target = run[j].of
  <2>1. PICK n \in Publication!Run : n = [run[j] EXCEPT !.at = "compare"] /\ RunKnows(n) /\ n.at = "compare" /\ n.of = run[j].of
    BY <1>1, NextStep DEF Publication!ReleaseStep
  <2>2. Publication!Knows(j, n)
    BY <1>5, <2>1 DEF Publication!Goes
  <2>3. RunHasDone(n)'
    BY <1>1, <1>2, <1>3, <1>5, <2>1 DEF RunHasDone, Tagging, Targeting, Uploading, Uploaded,
       Tags, Targets
  <2> QED BY <1>1, <1>3, <1>5, <2>1, <2>2, <2>3, Within DEF World, Publication!ReleaseStep
<1> QED BY <1>4, <1>5 DEF Publication!CreateRelease

\* With the actions that are left, what the release job is to do next.
LEMMA ProceedsInv ==
  ASSUME PublicationInv, NEW j \in Job, run[j] # None, run[j].at \in {"compare", "upload"},
         NEW todo \in [Publication!Asset -> {"keep", "add", "replace"}], Publication!Proceeds(j, todo),
         UNCHANGED <<tag, records, labels, tool, group>>,
         release' \in Publication!Release, release' # None, release'.target = run[j].of, ~release'.extra,
         \A a \in Publication!Asset : todo[a] = "keep" => release'.asset[a] = run[j].proven
  PROVE  PublicationInv'
<1>1. run[j] \in Publication!Run /\ RunKnows(run[j]) /\ RunHasDone(run[j]) /\ World
  BY RunTyped, WorldTyped
<1>2. Tags(run[j])
  BY <1>1 DEF RunHasDone, Tagging
<1> DEFINE s == IF todo = Publication!NoActions THEN "attest" ELSE "upload"
           d == [run[j] EXCEPT !.todo = todo, !.at = s]
<1>3. s \in {"attest", "upload"} /\ (s = "attest" => todo = Publication!NoActions)
  OBVIOUS
<1>4. Publication!Knows(j, d)
  BY DEF Publication!Proceeds
<1> HIDE DEF s
<1>5. /\ d \in Publication!Run /\ d.at = s /\ d.of = run[j].of /\ d.mode = run[j].mode
      /\ d.proven = run[j].proven /\ d.todo = todo
  BY <1>1, <1>3 DEF Publication!Run, Publication!Step, Publication!ReleaseStep
<1>6. PICK n \in Publication!Run : n = d
  BY <1>5
<1> HIDE DEF d
<1>7. n.at = s /\ n.of = run[j].of /\ n.proven = run[j].proven /\ n.todo = todo
  BY <1>5, <1>6
<1>8. RunKnows(n)
  BY <1>1, <1>3, <1>7 DEF RunKnows, Resolved, Unproven, Proven, Earlier, Publication!ReleaseStep
<1>9. RunHasDone(n)'
  <2>1. Tags(n)' /\ Targets(n)' /\ Carries(n)'
    BY <1>2, <1>7 DEF Tags, Targets, Carries
  <2> QED BY <1>3, <1>7, <2>1 DEF RunHasDone, Uploaded, Uploading, Targeting, Tagging
<1> QED BY <1>1, <1>4, <1>6, <1>8, <1>9, Within DEF World, Publication!ReleaseStep

LEMMA CompareInv ==
  ASSUME PublicationInv, NEW j \in Job, Publication!CompareAssets(j)
  PROVE  PublicationInv'
<1>1. /\ run[j] # None /\ run[j].at = "compare" /\ RunKnows(run[j])
      /\ RunHasDone(run[j]) /\ UNCHANGED <<tag, records, release, labels, tool>> /\ World
  BY RunTyped, WorldTyped DEF Publication!CompareAssets, Publication!At, Publication!world
<1>2. Targets(run[j])
  BY <1>1 DEF RunHasDone, Targeting, Tagging
<1>3. CASE Publication!Fails(j)
  BY <1>1, <1>3, FailsInv DEF World
<1>4. CASE Publication!Compares(j) /\ Publication!Proceeds(j, Publication!AssetActions(j)) /\ UNCHANGED group
  <2>1. Publication!AssetActions(j) \in [Publication!Asset -> {"keep", "add", "replace"}]
    BY DEF Publication!AssetActions
  <2>2. ASSUME NEW a \in Publication!Asset, Publication!AssetActions(j)[a] = "keep"
        PROVE  release.asset[a] = run[j].proven
    BY <2>2 DEF Publication!AssetActions, Publication!Mismatched
  <2>3. release \in Publication!Release /\ ~release.extra
    BY <1>1, <1>2, <1>4 DEF World, Targets, Publication!Compares
  <2> QED BY <1>1, <1>2, <1>4, <2>1, <2>2, <2>3, ProceedsInv DEF Targets
<1> QED BY <1>3, <1>4 DEF Publication!CompareAssets

LEMMA UploadInv ==
  ASSUME PublicationInv, NEW j \in Job, Publication!UploadAsset(j)
  PROVE  PublicationInv'
<1>1. /\ run[j] # None /\ run[j].at = "upload" /\ run[j] \in Publication!Run /\ RunKnows(run[j])
      /\ RunHasDone(run[j]) /\ UNCHANGED <<tag, records, labels, tool, group>> /\ World
  BY RunTyped, WorldTyped DEF Publication!UploadAsset, Publication!At
<1>2. /\ release \in Publication!Release /\ release # None /\ release.target = run[j].of /\ ~release.extra
      /\ \A a \in Publication!Asset : run[j].todo[a] = "keep" => release.asset[a] = run[j].proven
  BY <1>1 DEF RunHasDone, Uploading, Targeting, Tagging, Targets, Carries, World
<1>3. run[j].proven \in Publication!Distribution /\ run[j].todo \in [Publication!Asset -> {"keep", "add", "replace"}]
  BY <1>1 DEF RunKnows, Proven, Publication!ReleaseStep, Publication!Run
<1> DEFINE up == Publication!Upcoming(j)
           todo == [run[j].todo EXCEPT ![up] = "keep"]
<1>4. up \in Publication!Asset
  BY DEF Publication!Upcoming, Publication!Asset
<1>5. release' = [release EXCEPT !.asset[up] = run[j].proven] /\ Publication!Proceeds(j, todo)
  BY DEF Publication!UploadAsset
<1> HIDE DEF up
<1>6. todo \in [Publication!Asset -> {"keep", "add", "replace"}]
      /\ \A a \in Publication!Asset : todo[a] = IF a = up THEN "keep" ELSE run[j].todo[a]
  BY <1>3, <1>4
<1>7. /\ release' \in Publication!Release /\ release'.target = release.target /\ release'.extra = release.extra
      /\ \A a \in Publication!Asset : release'.asset[a] = IF a = up THEN run[j].proven ELSE release.asset[a]
  <2>1. release.asset \in [Publication!Asset -> Publication!Distribution \cup {None}]
    BY <1>2, ReleaseIs
  <2>2. [release.asset EXCEPT ![up] = run[j].proven] \in [Publication!Asset -> Publication!Distribution \cup {None}]
    BY <1>3, <1>4, <2>1
  <2>3. release' = [release EXCEPT !.asset = [release.asset EXCEPT ![up] = run[j].proven]]
    BY <1>2, <1>5 DEF Publication!Release
  <2>4. \A x \in [Publication!Asset -> Publication!Distribution \cup {None}] :
          /\ [release EXCEPT !.asset = x] \in Publication!Release
          /\ [release EXCEPT !.asset = x].target = release.target
          /\ [release EXCEPT !.asset = x].extra = release.extra
          /\ [release EXCEPT !.asset = x].asset = x
    BY <1>2 DEF Publication!Release
  <2>5. \A a \in Publication!Asset :
          [release.asset EXCEPT ![up] = run[j].proven][a] = IF a = up THEN run[j].proven ELSE release.asset[a]
    BY <1>4, <2>1
  <2> QED BY <2>2, <2>3, <2>4, <2>5
<1> HIDE DEF todo
<1>8. release' # None
  BY <1>7, NoneIsNothing
<1>9. \A a \in Publication!Asset : todo[a] = "keep" => release'.asset[a] = run[j].proven
  BY <1>2, <1>6, <1>7
<1> QED BY <1>1, <1>2, <1>5, <1>6, <1>7, <1>8, <1>9, ProceedsInv

LEMMA LabelInv ==
  ASSUME PublicationInv, NEW j \in Job,
         Publication!Attest(j) \/ Publication!AddLabel(j) \/ Publication!RemoveLabel(j)
  PROVE  PublicationInv'
<1>1. /\ run[j] # None /\ run[j].at \in {"attest", "label", "unlabel"} /\ run[j] \in Publication!Run
      /\ RunKnows(run[j]) /\ RunHasDone(run[j]) /\ UNCHANGED <<tag, records, release, tool>> /\ World
  BY RunTyped, WorldTyped DEF Publication!Attest, Publication!AddLabel, Publication!RemoveLabel,
     Publication!At, Publication!world
<1>2. Tags(run[j]) /\ Targets(run[j]) /\ Carries(run[j]) /\ run[j].todo = Publication!NoActions
  BY <1>1 DEF RunHasDone, Uploaded, Uploading, Targeting, Tagging
<1>3. labels' \in [Candidate -> Publication!Label]
  BY <1>1 DEF Publication!Attest, Publication!AddLabel, Publication!RemoveLabel,
     Publication!world, World,
              Publication!Label
<1>4. CASE Publication!Fails(j)
  BY <1>1, <1>3, <1>4, FailsInv DEF World, Publication!Holds, Publication!ReleaseStep
<1>5. ASSUME NEW s \in {"label", "unlabel", "completed"}, Publication!Goes(j, s), UNCHANGED group,
             s = "completed" => labels'[run[j].of] = "tagged"
      PROVE  PublicationInv'
  <2>1. PICK n \in Publication!Run :
          /\ n = [run[j] EXCEPT !.at = s] /\ RunKnows(n) /\ n.at = s
          /\ n.of = run[j].of /\ n.proven = run[j].proven /\ n.todo = run[j].todo
    BY <1>1, NextStep DEF Publication!ReleaseStep
  <2>2. Publication!Knows(j, n)
    BY <1>5, <2>1 DEF Publication!Goes
  <2>3. RunHasDone(n)'
    <3>1. Tags(n)' /\ Targets(n)' /\ Carries(n)'
      BY <1>1, <1>2, <2>1 DEF Tags, Targets, Carries
    <3> QED BY <1>2, <1>5, <2>1, <3>1 DEF RunHasDone
  <2> QED BY <1>1, <1>3, <1>5, <2>1, <2>2, <2>3, Within DEF World, Publication!ReleaseStep
<1>6. \/ Publication!Fails(j)
      \/ UNCHANGED group /\ \E s \in {"label", "unlabel", "completed"} :
           Publication!Goes(j, s) /\ (s = "completed" => labels'[run[j].of] = "tagged")
  BY DEF Publication!Attest, Publication!AddLabel, Publication!RemoveLabel
<1> QED BY <1>4, <1>5, <1>6

LEMMA BreaksInv ==
  ASSUME PublicationInv, NEW j \in Job, Publication!Breaks(j)
  PROVE  PublicationInv'
<1>1. /\ run[j] # None /\ run[j].at \notin {"failed", "succeeded"} /\ Publication!Fails(j)
      /\ UNCHANGED <<tag, records, labels, tool>> /\ World
  BY WorldTyped DEF Publication!Breaks
<1>2. release' \in Publication!Release \cup {None}
  <2>1. ASSUME release # None, NEW a \in Publication!Asset
        PROVE  [release EXCEPT !.asset[a] = None] \in Publication!Release
    <3>1. release \in Publication!Release
      BY <1>1, <2>1 DEF World
    <3>2. [release.asset EXCEPT ![a] = None] \in [Publication!Asset -> Publication!Distribution \cup {None}]
      BY <3>1, ReleaseIs
    <3> QED BY <3>1, <3>2 DEF Publication!Release
  <2>2. Publication!Upcoming(j) \in Publication!Asset
    BY DEF Publication!Upcoming, Publication!Asset
  <2> QED BY <1>1, <2>1, <2>2 DEF Publication!Breaks, World
<1>3. ~Publication!Holds(j) => UNCHANGED release
  BY DEF Publication!Breaks, Publication!Holds, Publication!At, Publication!ReleaseStep
<1> QED BY <1>1, <1>2, <1>3, FailsInv DEF World

LEMMA RerunInv ==
  ASSUME PublicationInv, NEW j \in Job, Publication!Rerun(j)
  PROVE  PublicationInv'
<1>1. /\ run[j] # None /\ run[j].at \in {"failed", "succeeded"} /\ run[j] \in Publication!Run
      /\ RunKnows(run[j]) /\ UNCHANGED <<tag, records, release, labels, tool, group>> /\ World
  BY RunTyped, WorldTyped DEF Publication!Rerun, Publication!world
<1>2. CASE Publication!Knows(j, [run[j] EXCEPT !.at = "resolve", !.from = "resolve",
                                !.built = None, !.proven = None,
                                !.of = IF Publication!Repairs(j) THEN None ELSE @])
  <2> DEFINE d == [run[j] EXCEPT !.at = "resolve", !.from = "resolve", !.built = None, !.proven = None,
                                 !.of = IF Publication!Repairs(j) THEN None ELSE @]
  <2>1. /\ d \in Publication!Run /\ d.at = "resolve" /\ d.proven = None /\ d.mode = run[j].mode
        /\ d.mode # "repair" => d.of = run[j].of
    BY <1>1 DEF Publication!Run, Publication!Repairs, Publication!Step
  <2>2. PICK n \in Publication!Run : n = d
    BY <2>1
  <2>3. Publication!Knows(j, n)
    BY <1>2, <2>2
  <2> HIDE DEF d
  <2>4. RunKnows(n) /\ n.at \notin Publication!ReleaseStep
    BY <1>1, <2>1, <2>2 DEF RunKnows, Resolved, Proven, Publication!ReleaseStep
  <2> QED BY <1>1, <2>3, <2>4, Before DEF World
<1>3. CASE run[j].at = "failed"
           /\ Publication!Knows(j, [run[j] EXCEPT !.at = run[j].from, !.from = "resolve"])
  <2> DEFINE d == [run[j] EXCEPT !.at = run[j].from, !.from = "resolve"]
  <2>1. /\ d \in Publication!Run /\ d.at = run[j].from /\ d.proven = run[j].proven /\ d.mode = run[j].mode
        /\ d.of = run[j].of
    BY <1>1 DEF Publication!Run, Publication!Step
  <2>2. PICK n \in Publication!Run : n = d
    BY <2>1
  <2>3. Publication!Knows(j, n)
    BY <1>3, <2>2
  <2> HIDE DEF d
  <2>4. run[j].from \in {"resolve", "candidate", "package", "queued"}
    BY <1>1 DEF Publication!Run
  <2>5. RunKnows(n) /\ n.at \notin Publication!ReleaseStep
    BY <1>1, <1>3, <2>1, <2>2, <2>4
       DEF RunKnows, Resolved, Proven, Unproven, Earlier, Publication!ReleaseStep
  <2> QED BY <1>1, <2>3, <2>5, Before DEF World
<1> QED BY <1>2, <1>3 DEF Publication!Rerun

\* What people and time do between the steps of a release job.
LEMMA OutsideInv ==
  ASSUME PublicationInv, Publication!MakesTag \/ Publication!ChangesRelease \/ Publication!Passes
  PROVE  PublicationInv'
<1>1. UNCHANGED <<labels, run, group>> /\ World
  BY WorldTyped DEF Publication!MakesTag, Publication!ChangesRelease, Publication!Passes
<1>2. tag' \in Publication!Tagged \cup {None}
  BY <1>1 DEF Publication!MakesTag, Publication!ChangesRelease, Publication!Passes, World,
     Publication!Tagged
<1>3. release' \in Publication!Release \cup {None}
  <2>1. \A c \in Candidate : Publication!EmptyRelease(c) \in Publication!Release
    BY DEF Publication!EmptyRelease, Publication!Release
  <2>2. ASSUME release # None, NEW a \in Publication!Asset
        PROVE  [release EXCEPT !.asset[a] = None] \in Publication!Release
    <3>1. release \in Publication!Release
      BY <1>1, <2>2 DEF World
    <3>2. [release.asset EXCEPT ![a] = None] \in [Publication!Asset -> Publication!Distribution \cup {None}]
      BY <3>1, ReleaseIs
    <3> QED BY <3>1, <3>2 DEF Publication!Release
  <2>3. ASSUME release # None PROVE [release EXCEPT !.extra = ~@] \in Publication!Release
    <3>1. release \in Publication!Release
      BY <1>1, <2>3 DEF World
    <3>2. (~release.extra) \in BOOLEAN
      OBVIOUS
    <3> QED BY <3>1, <3>2 DEF Publication!Release
  <2>4. CASE Publication!ChangesRelease
    BY <2>1, <2>2, <2>3, <2>4, Zenon DEF Publication!ChangesRelease
  <2> QED BY <1>1, <2>4 DEF Publication!MakesTag, Publication!Passes, World
<1>4. records' \subseteq Candidate /\ tool' \in Toolchain
  BY <1>1 DEF Publication!MakesTag, Publication!ChangesRelease, Publication!Passes, World
<1>5. Publication!PublicationTypeOK'
  BY <1>1, <1>2, <1>3, <1>4 DEF PublicationInv, Publication!PublicationTypeOK
<1>6. ASSUME NEW k \in Job, run[k] # None
      PROVE  (RunKnows(run[k]) /\ RunHasDone(run[k]) /\ (run[k].at \in Publication!ReleaseStep => group = k))'
  <2>1. RunKnows(run[k]) /\ RunHasDone(run[k]) /\ (run[k].at \in Publication!ReleaseStep => group = k)
    BY <1>6 DEF PublicationInv
  <2>2. (RunKnows(run[k]) /\ (run[k].at \in Publication!ReleaseStep => group = k))'
    BY <1>1, <2>1 DEF RunKnows, Resolved, Unproven, Proven
  <2>3. CASE run[k].at \notin Tagging
    BY <1>1, <2>2, <2>3 DEF RunHasDone, Tagging, Targeting, Uploading, Uploaded
  <2>4. CASE run[k].at \in Tagging
    <3>1. group = k /\ k # None
      BY <2>1, <2>4, NoneIsNothing DEF Tagging, Publication!ReleaseStep
    <3>2. Tags(run[k]) /\ tag # None
      <4>1. run[k].of \in Candidate
        BY <2>1, <2>4 DEF RunKnows, Resolved, Tagging, Publication!ReleaseStep
      <4>2. Tags(run[k])
        BY <2>1, <2>4 DEF RunHasDone
      <4> QED BY <4>1, <4>2, NoneIsNothing DEF Tags, Publication!Tagged
    <3>3. UNCHANGED <<tag, release>>
      BY <3>1, <3>2 DEF Publication!MakesTag, Publication!ChangesRelease, Publication!Passes
    <3> QED BY <1>1, <2>1, <2>2, <3>3 DEF RunHasDone, Tags, Targets, Carries
  <2> QED BY <2>3, <2>4
<1> QED BY <1>1, <1>5, <1>6 DEF PublicationInv

LEMMA PublicationStep ==
  PublicationInv /\ [Publication!PublicationNext]_(Publication!publicationVars) => PublicationInv'
<1> SUFFICES ASSUME PublicationInv, [Publication!PublicationNext]_(Publication!publicationVars)
             PROVE  PublicationInv'
  OBVIOUS
<1>1. CASE UNCHANGED Publication!publicationVars
  BY <1>1 DEF Publication!publicationVars, PublicationInv, Publication!PublicationTypeOK,
     RunKnows, Resolved,
     Unproven, Proven, RunHasDone, Tags, Targets, Carries
<1> QED BY <1>1, StartsInv, ResolveInv, PersistInv, PackageInv, EnterInv, TagInv, CreateReleaseInv,
           CompareInv, UploadInv, LabelInv, BreaksInv, RerunInv, OutsideInv
           DEF Publication!PublicationNext

LEMMA PublishedIsExact == PublicationInv => Publication!PublishedExact
<1> SUFFICES ASSUME PublicationInv, NEW j \in Job, Publication!At(j, "completed")
             PROVE  /\ run[j].proven.commit = run[j].of
                    /\ tag = [commit |-> run[j].of, record |-> run[j].of]
                    /\ release = [target |-> run[j].of, asset |-> [a \in Publication!Asset |-> run[j].proven],
                                  extra |-> FALSE]
                    /\ labels[run[j].of] = "tagged"
  BY DEF Publication!PublishedExact
<1>1. run[j] # None /\ run[j].at = "completed" /\ RunKnows(run[j]) /\ RunHasDone(run[j]) /\ World
  BY RunTyped, WorldTyped DEF Publication!At
<1>2. /\ run[j].proven.commit = run[j].of /\ labels[run[j].of] = "tagged"
      /\ Tags(run[j]) /\ Targets(run[j]) /\ Carries(run[j]) /\ run[j].todo = Publication!NoActions
  BY <1>1 DEF RunKnows, Proven, Publication!ReleaseStep, RunHasDone, Uploaded, Uploading,
     Targeting, Tagging
<1>3. release \in Publication!Release
  BY <1>1, <1>2 DEF World, Targets
<1>4. \A a \in Publication!Asset : release.asset[a] = run[j].proven
  BY <1>2 DEF Carries, Publication!NoActions
<1>5. release.asset = [a \in Publication!Asset |-> run[j].proven] /\ release.extra = FALSE
  <2>1. release.asset \in [Publication!Asset -> Publication!Distribution \cup {None}] /\ release.extra \in BOOLEAN
    BY <1>3, ReleaseIs
  <2> QED BY <1>2, <1>4, <2>1 DEF Carries
<1> QED BY <1>2, <1>3, <1>5, ReleaseIs DEF Tags, Targets

\* A run of the workflow that completes has published what it proved and nothing else:
\* for any number of runs, candidates and toolchains.
THEOREM PublishedMeansProven == Publication!PublicationSpec => []Publication!PublishedExact
BY PublishedIsExact, PublicationInitInv, PublicationStep, PTL DEF Publication!PublicationSpec

-----------------------------------------------------------------------------
(* ReviewGate: what an approval has found out by each of its steps.        *)

\* Codex reviewed the commit and had found nothing in it before an approval began.
Clean(c) == c \in receipts /\ \A f \in findings : f.commit = c => ~f.early

\* What an approval has found out by each of its steps.
Approval(j) ==
  /\ j.step \in {"review", "inline", "attest"} => j.commit \in receipts
  /\ j.step \in {"inline", "attest"} =>
       \A f \in findings : f.commit = j.commit /\ f.surface = "review" => ~f.early
  /\ j.step = "attest" => \A f \in findings : f.commit = j.commit => ~f.early

GateInv ==
  /\ Gate!GateTypeOK
  /\ \A t \in Task : Approval(task[t])
  /\ \A c \in Commit : status[c] = "attested" => Clean(c)

\* What a job may be.
Jobs == {Gate!Idle, [step |-> "request", commit |-> None]} \cup
          [step : {"initialize", "arm", "approve", "receipt", "review", "inline", "attest"},
           commit : Commit]

LEMMA JobStepIs ==
  ASSUME NEW j \in Jobs
  PROVE  /\ j = [step |-> j.step, commit |-> j.commit]
         /\ j.step \notin {"idle", "request"} => j.commit \in Commit
         /\ j.step \in {"idle", "request", "initialize", "arm", "approve", "receipt", "review",
                        "inline", "attest"}
BY DEF Jobs, Gate!Idle

LEMMA GateInitInv == Gate!GateInit => GateInv
<1> SUFFICES ASSUME Gate!GateInit PROVE GateInv
  OBVIOUS
<1>1. PICK t \in Task :
        task = [u \in Task |-> IF u = t THEN [step |-> "initialize", commit |-> tip] ELSE Gate!Idle]
  BY DEF Gate!GateInit
<1>2. \A u \in Task : task[u] = Gate!Idle \/ task[u] = [step |-> "initialize", commit |-> tip]
  BY <1>1
<1>3. Gate!GateTypeOK
  BY <1>1 DEF Gate!GateInit, Gate!GateTypeOK, Gate!Status
<1>4. \A u \in Task : Approval(task[u])
  BY <1>2 DEF Approval, Gate!Idle
<1> QED BY <1>3, <1>4 DEF Gate!GateInit, GateInv

\* A step of one job that finds out what its next step says, and posts no status.
LEMMA GoesOn ==
  ASSUME GateInv, NEW t \in Task, NEW j \in Jobs, task' = [task EXCEPT ![t] = j], Approval(j),
         tip' \in pushed', pushed' \subseteq Commit, receipts \subseteq pushed',
         UNCHANGED <<status, receipts, findings>>
  PROVE  GateInv'
<1>1. task' \in [Task -> Jobs] /\ \A u \in Task : task'[u] = IF u = t THEN j ELSE task[u]
  BY DEF GateInv, Gate!GateTypeOK, Jobs
<1>2. Gate!GateTypeOK'
  BY <1>1 DEF GateInv, Gate!GateTypeOK, Jobs
<1>3. \A u \in Task : Approval(task'[u])
  BY <1>1 DEF GateInv
<1>4. \A u \in Task : Approval(task[u])'
  BY <1>3 DEF Approval
<1>5. \A c \in Commit : status'[c] = "attested" => Clean(c)'
  BY DEF GateInv, Clean
<1> QED BY <1>2, <1>4, <1>5 DEF GateInv

LEMMA Posts ==
  ASSUME GateInv, NEW t \in Task, NEW s \in Gate!Status, Gate!Post(t, s),
         task[t].step \in {"initialize", "arm", "attest"}, s = "attested" => task[t].step = "attest"
  PROVE  GateInv'
<1>1. task \in [Task -> Jobs] /\ Gate!Idle \in Jobs
  BY DEF GateInv, Gate!GateTypeOK, Jobs
<1>2. task' \in [Task -> Jobs] /\ \A u \in Task : task'[u] = IF u = t THEN Gate!Idle ELSE task[u]
  BY <1>1 DEF Gate!Post
<1>3. task[t].commit \in Commit
  BY <1>1, JobStepIs
<1>4. /\ status' \in [Commit -> Gate!Status]
      /\ \A c \in Commit : status'[c] = IF c = task[t].commit THEN s ELSE status[c]
  BY <1>3 DEF Gate!Post, GateInv, Gate!GateTypeOK
<1>5. UNCHANGED <<tip, pushed, receipts, findings>>
  BY DEF Gate!Post, Gate!Pull, Gate!Codex
<1>6. Gate!GateTypeOK'
  BY <1>2, <1>4, <1>5 DEF GateInv, Gate!GateTypeOK, Jobs
<1>7. \A u \in Task : Approval(task[u])'
  BY <1>2, <1>5 DEF GateInv, Approval, Gate!Idle
<1>8. ASSUME NEW c \in Commit, status'[c] = "attested" PROVE Clean(c)'
  <2>1. CASE c = task[t].commit
    <3>1. task[t].step = "attest"
      BY <1>4, <1>8, <2>1
    <3>2. Clean(c)
      BY <2>1, <3>1 DEF GateInv, Approval, Clean
    <3> QED BY <1>5, <3>2 DEF Clean
  <2>2. CASE c # task[t].commit
    BY <1>4, <1>5, <1>8, <2>2 DEF GateInv, Clean
  <2> QED BY <2>1, <2>2
<1> QED BY <1>6, <1>7, <1>8 DEF GateInv

\* The steps that begin a job.
LEMMA BeginsInv ==
  ASSUME GateInv, NEW t \in Task,
         Gate!Synchronized(t) \/ Gate!Reopened(t) \/ Gate!Asked(t) \/ Gate!Approved(t)
           \/ Gate!ReadHead(t) \/ Gate!Ends(t)
  PROVE  GateInv'
<1>1. PICK j \in {Gate!Idle, [step |-> "request", commit |-> None]} \cup
                   [step : {"initialize", "arm", "approve"}, commit : Commit] :
        task' = [task EXCEPT ![t] = j]
  <2>1. tip \in Commit /\ pushed \subseteq Commit
    BY DEF GateInv, Gate!GateTypeOK
  <2> QED BY <2>1 DEF Gate!Synchronized, Gate!Reopened, Gate!Asked, Gate!Approved, Gate!ReadHead,
             Gate!Ends,
                 Gate!Begins, Gate!Goto
<1>2. j \in Jobs
  BY DEF Jobs
<1>3. Approval(j)
  BY DEF Approval, Gate!Idle
<1>4. UNCHANGED <<status, receipts, findings>>
  BY DEF Gate!Synchronized, Gate!Reopened, Gate!Asked, Gate!Approved, Gate!ReadHead, Gate!Ends,
         Gate!Codex
<1>5. tip' \in pushed' /\ pushed' \subseteq Commit /\ receipts \subseteq pushed'
  BY DEF Gate!Synchronized, Gate!Reopened, Gate!Asked, Gate!Approved, Gate!ReadHead, Gate!Ends,
         Gate!Pull, GateInv, Gate!GateTypeOK
<1> QED BY <1>1, <1>2, <1>3, <1>4, <1>5, GoesOn

LEMMA ApproveInv ==
  ASSUME GateInv, NEW t \in Task, Gate!IsHead(t) \/ Gate!HasReceipt(t) \/ Gate!NoFinding(t)
  PROVE  GateInv'
<1>1. task[t] \in Jobs /\ Approval(task[t])
  BY DEF GateInv, Gate!GateTypeOK, Jobs
<1>2. /\ UNCHANGED <<tip, pushed, status, receipts, findings>>
      /\ task[t].step \in {"approve", "receipt", "review", "inline"}
  BY DEF Gate!IsHead, Gate!HasReceipt, Gate!NoFinding, Gate!Pull, Gate!Codex
<1>3. \A s \in {"receipt", "review", "inline", "attest"} : [step |-> s, commit |-> task[t].commit] \in Jobs
  BY <1>1, <1>2, JobStepIs DEF Jobs
<1>4. PICK s \in {"receipt", "review", "inline", "attest"} :
        /\ task' = [task EXCEPT ![t] = [step |-> s, commit |-> task[t].commit]]
        /\ s = "review" => task[t].commit \in receipts
        /\ s = "inline" => task[t].step = "review" /\ ~Gate!Found(t, "review")
        /\ s = "attest" => task[t].step = "inline" /\ ~Gate!Found(t, "inline")
  BY DEF Gate!IsHead, Gate!HasReceipt, Gate!NoFinding, Gate!Proceeds, Gate!Goto
<1>5. Approval([step |-> s, commit |-> task[t].commit])
  <2>1. \A f \in findings : f.surface \in {"review", "inline"}
    BY DEF GateInv, Gate!GateTypeOK, Gate!Finding, Gate!Surface
  <2> QED BY <1>1, <1>4, <2>1 DEF Approval, Gate!Found
<1>6. tip' \in pushed' /\ pushed' \subseteq Commit /\ receipts \subseteq pushed'
  BY <1>2 DEF GateInv, Gate!GateTypeOK
<1> QED BY <1>2, <1>3, <1>4, <1>5, <1>6, GoesOn

\* A finding is late for whatever is being approved or has been attested.
LEMMA AnswersInv ==
  ASSUME GateInv, Gate!CodexAnswers
  PROVE  GateInv'
<1>1. UNCHANGED <<tip, pushed, status, task>>
  BY DEF Gate!CodexAnswers, Gate!Pull
<1>2. receipts \subseteq receipts' /\ receipts' \subseteq pushed
  BY DEF Gate!CodexAnswers, GateInv, Gate!GateTypeOK
<1>3. findings' \subseteq Gate!Finding
  <2>1. CASE UNCHANGED findings
    BY <2>1 DEF GateInv, Gate!GateTypeOK
  <2>2. ASSUME NEW c \in pushed, NEW s \in Gate!Surface,
               findings' = findings \cup
                 {[commit |-> c, surface |-> s, early |-> ~Gate!Approving(c) /\ status[c] # "attested"]}
        PROVE  findings' \subseteq Gate!Finding
    <3>1. c \in Commit /\ findings \subseteq Gate!Finding
      BY DEF GateInv, Gate!GateTypeOK
    <3>2. \A b \in BOOLEAN : [commit |-> c, surface |-> s, early |-> b] \in Gate!Finding
      BY <3>1 DEF Gate!Finding
    <3>3. (~Gate!Approving(c) /\ status[c] # "attested") \in BOOLEAN
      OBVIOUS
    <3> QED BY <2>2, <3>1, <3>2, <3>3, Zenon
  <2> QED BY <2>1, <2>2 DEF Gate!CodexAnswers
<1>4. \A f \in findings' : f \in findings \/ (f.early => ~Gate!Approving(f.commit) /\ status[f.commit] # "attested")
  <2>1. CASE UNCHANGED findings
    BY <2>1
  <2>2. ASSUME NEW c \in pushed, NEW s \in Gate!Surface, NEW b \in BOOLEAN,
               b => ~Gate!Approving(c) /\ status[c] # "attested",
               findings' = findings \cup {[commit |-> c, surface |-> s, early |-> b]},
               NEW f \in findings'
        PROVE  f \in findings \/ (f.early => ~Gate!Approving(f.commit) /\ status[f.commit] # "attested")
    <3>1. f \in findings \/ (f.commit = c /\ (f.early => b))
      BY <2>2
    <3> QED BY <2>2, <3>1
  <2>3. UNCHANGED findings \/ \E c \in pushed, s \in Gate!Surface : findings' = findings \cup
          {[commit |-> c, surface |-> s, early |-> ~Gate!Approving(c) /\ status[c] # "attested"]}
    BY DEF Gate!CodexAnswers
  <2> QED BY <2>1, <2>2, <2>3, Zenon
<1>5. Gate!GateTypeOK'
  BY <1>1, <1>2, <1>3 DEF GateInv, Gate!GateTypeOK
<1>6. \A t \in Task : Approval(task[t])'
  <2> TAKE t \in Task
  <2>1. Approval(task[t])
    BY DEF GateInv
  <2>2. task[t].step \in {"inline", "attest"} => Gate!Approving(task[t].commit)
    BY DEF Gate!Approving
  <2>3. task[t].step \in {"inline", "attest"} =>
          \A f \in findings' : f.commit = task[t].commit /\ f.early => f \in findings
    BY <1>4, <2>2
  <2> QED BY <1>1, <1>2, <2>1, <2>3 DEF Approval
<1>7. \A c \in Commit : status'[c] = "attested" => Clean(c)'
  <2> SUFFICES ASSUME NEW c \in Commit, status'[c] = "attested" PROVE Clean(c)'
    OBVIOUS
  <2>1. Clean(c) /\ status[c] = "attested"
    BY <1>1 DEF GateInv
  <2>2. \A f \in findings' : f.commit = c /\ f.early => f \in findings
    BY <1>4, <2>1
  <2> QED BY <1>2, <2>1, <2>2 DEF Clean
<1> QED BY <1>5, <1>6, <1>7 DEF GateInv

LEMMA GateStep == GateInv /\ [Gate!GateNext]_(Gate!gateVars) => GateInv'
<1> SUFFICES ASSUME GateInv, [Gate!GateNext]_(Gate!gateVars) PROVE GateInv'
  OBVIOUS
<1>1. ASSUME NEW t \in Task, Gate!Initialize(t) \/ Gate!Arm(t) \/ Gate!Attest(t) PROVE GateInv'
  BY <1>1, Posts DEF Gate!Initialize, Gate!Arm, Gate!Attest, Gate!Status
<1>2. CASE UNCHANGED Gate!gateVars
  BY <1>2 DEF Gate!gateVars, GateInv, Gate!GateTypeOK, Approval, Clean
<1> QED BY <1>1, <1>2, BeginsInv, ApproveInv, AnswersInv DEF Gate!GateNext

LEMMA AttestedIsClean == GateInv => Gate!AttestedClean
BY DEF GateInv, Clean, Gate!AttestedClean

\* A commit shows an attested clean review only if Codex reviewed it and had found
\* nothing in it before the approval began: for any number of jobs, commits and findings.
THEOREM AttestedMeansClean == Gate!GateSpec => []Gate!AttestedClean
BY AttestedIsClean, GateInitInv, GateStep, PTL DEF Gate!GateSpec

-----------------------------------------------------------------------------
(* The instance that TLC checks, where one part moves and the others stay. *)

SupplyInv ==
  /\ part = "closure" => ClosureInv
  /\ part = "build" => BuildInv
  /\ part = "kit" => KitInv
  /\ part = "release" => PublicationInv
  /\ CanaryInv
  /\ part = "gate" => GateInv

LEMMA SupplyInitInv == SupplyInit => SupplyInv
BY ClosureInitInv, CanaryInitInv, BuildInitInv, KitInitInv, PublicationInitInv, GateInitInv
   DEF SupplyInit, SupplyInv

LEMMA SupplyStepInv ==
  SupplyInv /\ [SupplyNext]_<<part, closureVars, buildVars, kitVars, releaseVars, canaryVars, gateVars>>
    => SupplyInv'
<1> SUFFICES ASSUME SupplyInv,
                    [SupplyNext]_<<part, closureVars, buildVars, kitVars, releaseVars, canaryVars, gateVars>>
             PROVE  SupplyInv'
  OBVIOUS
<1>1. UNCHANGED part
  BY DEF SupplyNext
<1>2. part = "closure" => [ClosureNext]_closureVars
  BY DEF SupplyNext
<1>3. part = "build" => [Build!BuildNext]_(Build!buildVars)
  BY DEF SupplyNext, buildVars, Build!buildVars
<1>4. part = "kit" => [Kits!KitNext]_(Kits!kitVars)
  BY DEF SupplyNext, kitVars, Kits!kitVars
<1>5. part = "release" => [Publication!PublicationNext]_(Publication!publicationVars)
  BY DEF SupplyNext, releaseVars, Publication!publicationVars
<1>6. [CanaryNext]_canaryVars
  BY DEF SupplyNext
<1>7. part = "gate" => [Gate!GateNext]_(Gate!gateVars)
  BY DEF SupplyNext, gateVars, Gate!gateVars
<1>8. CanaryInv'
  BY <1>6, CanaryInductive DEF SupplyInv
<1>9. /\ part = "closure" => ClosureInv'
      /\ part = "build" => BuildInv'
      /\ part = "kit" => KitInv'
      /\ part = "release" => PublicationInv'
      /\ part = "gate" => GateInv'
  BY <1>2, <1>3, <1>4, <1>5, <1>7, ClosureInductive, BuildStep, KitStep, PublicationStep, GateStep
     DEF SupplyInv
<1> QED BY <1>1, <1>8, <1>9 DEF SupplyInv

\* Every variable of the part that moves keeps its type.
THEOREM SupplyTypeCorrect == SupplySpec => []SupplyTypeOK
<1>1. SupplyInv => SupplyTypeOK
  BY DEF SupplyInv, SupplyTypeOK, ClosureInv, BuildInv, KitInv, PublicationInv, CanaryInv, GateInv
<1> QED BY <1>1, SupplyInitInv, SupplyStepInv, PTL DEF SupplySpec

\* A payload is reported fresh, an archive packaged, a version published and a commit
\* reviewed only when it is exactly that, for any number of skills, invocations, runs
\* of the workflow and jobs of the gate.
THEOREM ArtifactsAreExact == SupplySpec => []ArtifactsExact
<1>1. SupplyInv => ArtifactsExact
  BY FreshIsValidated, PackagedIsTrue, PublishedIsExact, AttestedIsClean DEF SupplyInv,
     ArtifactsExact
<1> QED BY <1>1, SupplyInitInv, SupplyStepInv, PTL DEF SupplySpec
=============================================================================
