-------------------------- MODULE WarmSessionProofs --------------------------
(* Theorems about WarmSession and WarmPage, for every set of invocations.     *)
EXTENDS WarmPage, TLAPS

USE CmdAssumption, NoneAssumption, KindAssumption

-----------------------------------------------------------------------------
(* Type correctness.                                                         *)

\* Where an invocation works from a receipt it has one, and a page command has
\* that of a running session.
ViewInv ==
  \A p \in Cmd :
    /\ pc[p] \in (InspectPc \ {"load"}) \cup RemovePc \cup PagePc
                   \cup {"spawn", "confirm", "record", "prove", "publish", "undo"}
         => view[p] # None
    /\ pc[p] \in PagePc \cup {"verify", "replaced"} => view[p].phase = "running"
    /\ view[p] # None /\ view[p].snap # None => view[p].phase = "running"

PageTypeOK ==
  /\ doc \in [Cmd -> Nat]
  /\ seen \in [Cmd -> Page \cup {None}]
  /\ \A p \in Cmd : pc[p] \in {"read", "store"} => seen[p] # None

Typed == TypeOK /\ ViewInv

\* A receipt without its generation is one that any phase may write.
LEMMA WithoutSnapshotType ==
  ASSUME NEW r \in Receipt
  PROVE  /\ WithoutSnapshot(r) \in Receipt
         /\ WithoutSnapshot(r).snap = None
         /\ WithoutSnapshot(r).phase = r.phase
         /\ WithoutSnapshot(r).id = r.id
  BY DEF WithoutSnapshot, Receipt

LEMMA FreshType ==
  ASSUME NEW p \in Cmd
  PROVE  Fresh(p) \in Receipt /\ Fresh(p).snap = None /\ Fresh(p).id = p
         /\ Fresh(p).phase = "launching"
  BY DEF Fresh, Receipt, Phase

LEMMA PhaseType ==
  ASSUME NEW r \in Receipt, NEW ph \in Phase
  PROVE  /\ [r EXCEPT !.phase = ph] \in Receipt
         /\ [r EXCEPT !.phase = ph].phase = ph
         /\ [r EXCEPT !.phase = ph].snap = r.snap
         /\ [r EXCEPT !.phase = ph].id = r.id
  BY DEF Receipt

LEMMA InitTyped == PageInit => Typed /\ PageTypeOK
<1> SUFFICES ASSUME PageInit PROVE Typed /\ PageTypeOK
  OBVIOUS
<1>1. receipt = None \/ (receipt \in Receipt /\ receipt.snap = None /\ lock \in Fallen)
  <2>1. ASSUME NEW s \in Fallen, NEW ph \in Phase,
               lock = s, receipt = [Fresh(s) EXCEPT !.phase = ph]
        PROVE  receipt \in Receipt /\ receipt.snap = None /\ lock \in Fallen
    BY <2>1, FreshType, PhaseType
  <2> QED BY <2>1 DEF PageInit, Init
<1>2. TypeOK
  BY <1>1 DEF PageInit, Init, TypeOK, RestPc
<1>3. ViewInv /\ PageTypeOK
  BY DEF PageInit, Init, ViewInv, PageTypeOK, RestPc, InspectPc, RemovePc, PagePc
<1> QED BY <1>2, <1>3 DEF Typed

\* The age of a receipt is noted once.
LEMMA AgeType ==
  ASSUME aged \in [Cmd -> BOOLEAN], NEW s \in Cmd, aged' = [aged EXCEPT ![s] = TRUE]
  PROVE  aged' \in [Cmd -> BOOLEAN] /\ \A t \in Cmd : aged'[t] <=> (aged[t] \/ t = s)
<1>1. aged' = [t \in Cmd |-> IF t = s THEN TRUE ELSE aged[t]]
  OBVIOUS
<1>2. \A t \in Cmd : aged'[t] = IF t = s THEN TRUE ELSE aged[t]
  BY <1>1
<1>3. \A t \in Cmd : aged[t] \in BOOLEAN /\ (IF t = s THEN TRUE ELSE aged[t]) \in BOOLEAN
  BY Zenon
<1>4. aged' \in [Cmd -> BOOLEAN]
  BY <1>1, <1>3, Zenon
<1>5. \A t \in Cmd : aged'[t] <=> (aged[t] \/ t = s)
  BY <1>2, Zenon
<1> QED BY <1>4, <1>5

\* Every step of the session commands keeps the types.
LEMMA SessionTyped ==
  ASSUME Typed, SessionNext
  PROVE  Typed'
<1> USE DEF Typed, TypeOK, ViewInv, stateDir, Goto, End, RestPc, InspectPc, RemovePc,
            StartPc, PagePc
<1>1. ASSUME NEW p \in Cmd, NEW c \in Command, Begin(p, c) PROVE Typed'
  BY <1>1 DEF Begin
<1>2. ASSUME NEW p \in Cmd, Inspect(p) PROVE Typed'
  <2>1. CASE Load(p)       BY <2>1 DEF Load, Receipt
  <2>2. CASE Look(p)       BY <2>2 DEF Look, Receipt
  <2>3. CASE LookAgain(p)  BY <2>3 DEF LookAgain
  <2>4. CASE Find(p)       BY <2>4 DEF Find
  <2>5. CASE FindOwners(p) BY <2>5 DEF FindOwners
  <2>6. CASE Verify(p)     BY <2>6 DEF Verify, Status, Stop, RequireControlledPage, Receipt
  <2>7. CASE Replaced(p)
    <3>1. view[p] \in Receipt /\ view[p].phase = "running"
      BY <2>7 DEF Replaced
    <3>2. WithoutSnapshot(view[p]) \in Receipt /\ WithoutSnapshot(view[p]).phase = "running"
          /\ WithoutSnapshot(view[p]).snap = None
      BY <3>1, WithoutSnapshotType
    <3> QED BY <2>7, <3>2 DEF Replaced, Write, Writable, WriteFails
  <2> QED BY <1>2, <2>1, <2>2, <2>3, <2>4, <2>5, <2>6, <2>7 DEF Inspect
<1>3. ASSUME NEW p \in Cmd, Recover(p) PROVE Typed'
  <2>1. CASE Kill(p)    BY <2>1 DEF Kill
  <2>2. CASE Remove(p)  BY <2>2 DEF Remove, Detach, RemoveAdmits, Receipt
  <2>3. CASE Rename(p)  BY <2>3 DEF Rename, Detach, Receipt
  <2>4. CASE Dispose(p) BY <2>4 DEF Dispose
  <2> QED BY <1>3, <2>1, <2>2, <2>3, <2>4 DEF Recover
<1>4. ASSUME NEW p \in Cmd, StartStep(p) PROVE Typed'
  <2>1. CASE Precheck(p) BY <2>1 DEF Precheck
  <2>2. CASE Acquire(p)  BY <2>2 DEF Acquire
  <2>3. CASE Recheck(p)  BY <2>3 DEF Recheck, GiveBack
  <2>4. CASE Intend(p)   BY <2>4, FreshType DEF Intend, GiveBack, Write, Writable
  <2>5. CASE Spawn(p)    BY <2>5 DEF Spawn
  <2>6. CASE Confirm(p)  BY <2>6 DEF Confirm
  <2>7. CASE Record(p)   BY <2>7, FreshType DEF Record, Write, Writable, WriteFails, Receipt, Phase
  <2>8. CASE Prove(p)    BY <2>8 DEF Prove, Receipt, Phase
  <2>9. CASE Publish(p)  BY <2>9 DEF Publish, Write, Writable, WriteFails
  <2>10. CASE Undo(p)    BY <2>10 DEF Undo
  <2> QED BY <1>4, <2>1, <2>2, <2>3, <2>4, <2>5, <2>6, <2>7, <2>8, <2>9, <2>10 DEF StartStep
<1>5. ASSUME NEW p \in Cmd, GiveUp(p) PROVE Typed'
  BY <1>5 DEF GiveUp
<1>6. ASSUME NEW p \in Cmd, Crash(p) PROVE Typed'
  BY <1>6 DEF Crash
<1>7. ASSUME NEW s \in Cmd, Exit(s) \/ ReplacePage(s) \/ Age(s) PROVE Typed'
  <2>1. CASE Exit(s)        BY <2>1 DEF Exit
  <2>2. CASE ReplacePage(s) BY <2>2, TabAssumption DEF ReplacePage
  <2>3. CASE Age(s)         BY <2>3, AgeType DEF Age
  <2> QED BY <1>7, <2>1, <2>2, <2>3
<1> QED BY <1>1, <1>2, <1>3, <1>4, <1>5, <1>6, <1>7 DEF SessionNext

\* No step of the session commands begins a reading of a page.
LEMMA SessionPageTyped ==
  ASSUME Typed, PageTypeOK, SessionNext, UNCHANGED pageVars
  PROVE  PageTypeOK'
<1> USE DEF Goto, End, Typed, TypeOK
<1>1. \A p \in Cmd : pc'[p] \in {"read", "store"} => pc'[p] = pc[p]
  <2>1. ASSUME NEW p \in Cmd, NEW c \in Command, Begin(p, c)
        PROVE  \A q \in Cmd : pc'[q] \in {"read", "store"} => pc'[q] = pc[q]
    BY <2>1 DEF Begin
  <2>2. ASSUME NEW p \in Cmd, Inspect(p)
        PROVE  \A q \in Cmd : pc'[q] \in {"read", "store"} => pc'[q] = pc[q]
    BY <2>2 DEF Inspect, Load, Look, LookAgain, Find, FindOwners, Verify,
       Status, Stop, RequireControlledPage, Replaced
  <2>3. ASSUME NEW p \in Cmd, Recover(p)
        PROVE  \A q \in Cmd : pc'[q] \in {"read", "store"} => pc'[q] = pc[q]
    BY <2>3 DEF Recover, Kill, Remove, Detach, Rename, Dispose
  <2>4. ASSUME NEW p \in Cmd, StartStep(p)
        PROVE  \A q \in Cmd : pc'[q] \in {"read", "store"} => pc'[q] = pc[q]
    BY <2>4 DEF StartStep, Precheck, Acquire, Recheck, Intend, Spawn, Confirm, Record,
                Prove, Publish, Undo
  <2>5. ASSUME NEW p \in Cmd, GiveUp(p) \/ Crash(p)
        PROVE  \A q \in Cmd : pc'[q] \in {"read", "store"} => pc'[q] = pc[q]
    BY <2>5 DEF GiveUp, Crash
  <2>6. ASSUME NEW s \in Cmd, Exit(s) \/ ReplacePage(s) \/ Age(s)
        PROVE  pc' = pc
    BY <2>6 DEF Exit, ReplacePage, Age
  <2> QED BY <2>1, <2>2, <2>3, <2>4, <2>5, <2>6 DEF SessionNext
<1> QED BY <1>1 DEF PageTypeOK, pageVars

LEMMA ShownType ==
  ASSUME Typed, PageTypeOK, NEW s \in Cmd
  PROVE  Shown(s) \in Page /\ Shown(s) # None
BY DEF Typed, TypeOK, PageTypeOK, Shown, Page

\* What a page command writes back, instead of the receipt it works from.
LEMMA InvalidateTyped ==
  ASSUME Typed, NEW p \in Cmd, pc[p] \in PagePc, Invalidate(p)
  PROVE  /\ lock' = lock /\ tomb' = tomb
         /\ receipt' \in Receipt \cup {None}
         /\ receipt' # None => lock # None /\ (receipt'.snap # None => receipt'.phase = "running")
<1>1. view[p] \in Receipt
  BY DEF Typed, TypeOK, ViewInv
<1>2. WithoutSnapshot(view[p]) \in Receipt /\ WithoutSnapshot(view[p]).snap = None
  BY <1>1, WithoutSnapshotType
<1>3. CASE UNCHANGED stateDir
  BY <1>3 DEF stateDir, Typed, TypeOK
<1>4. CASE Write(WithoutSnapshot(view[p]))
  BY <1>4, <1>2 DEF Write, Writable
<1> QED BY <1>3, <1>4 DEF Invalidate, WriteFails

\* Every step of the page commands keeps the types.
LEMMA PageTyped ==
  ASSUME Typed, PageTypeOK, NEW p \in Cmd, PageStep(p)
  PROVE  Typed' /\ PageTypeOK'
<1> USE DEF Typed, TypeOK, ViewInv, PageTypeOK, stateDir, Untouched, pageVars, Goto, End,
            RestPc, InspectPc, RemovePc, StartPc, PagePc
<1>1. CASE Open(p)
  <2>1. view[p] \in Receipt
    BY <1>1 DEF Open
  <2>2. WithoutSnapshot(view[p]) \in Receipt /\ WithoutSnapshot(view[p]).snap = None
    BY <2>1, WithoutSnapshotType
  <2> QED BY <1>1, <2>2 DEF Open, Write, Writable, WriteFails
<1>2. CASE Navigate(p)
  BY <1>2 DEF Navigate, OpenControlledPage, Navigates, Receipt
<1>3. CASE Read(p)
  BY <1>3, ShownType DEF Read, Receipt
<1>4. CASE FinishRead(p)
  BY <1>4, InvalidateTyped DEF FinishRead, Reading, KeepReceipt
<1>5. CASE Store(p)
  <2> DEFINE r == [view[p] EXCEPT !.snap = [gen |-> p, page |-> seen[p]]]
  <2>1. view[p] \in Receipt /\ view[p].phase = "running" /\ seen[p] \in Page
    BY <1>5 DEF Store
  <2>2. r \in Receipt /\ r.phase = "running"
    BY <2>1 DEF Receipt, Snapshot
  <2> HIDE DEF r
  <2>3. CASE Write(r)
    BY <1>5, <2>2, <2>3 DEF Store, Write, Writable
  <2>4. CASE WriteFails
    BY <1>5, <2>4 DEF Store, WriteFails
  <2> QED BY <1>5, <2>3, <2>4 DEF Store, r
<1>6. CASE Resolve(p)
  BY <1>6 DEF Resolve
<1>7. CASE Aim(p)
  BY <1>7, InvalidateTyped DEF Aim, Unverified
<1>8. CASE Dispatch(p)
  BY SMTT(40), <1>8, InvalidateTyped DEF Dispatch, Unverified, Navigates, Receipt
<1>9. CASE After(p)
  BY <1>9, InvalidateTyped DEF After
<1> QED BY <1>1, <1>2, <1>3, <1>4, <1>5, <1>6, <1>7, <1>8, <1>9 DEF PageStep

LEMMA StepTyped == ASSUME Typed, PageTypeOK, [Next]_vars PROVE (Typed /\ PageTypeOK)'
<1>1. CASE SessionNext /\ UNCHANGED pageVars
  BY <1>1, SessionTyped, SessionPageTyped
<1>2. ASSUME NEW p \in Cmd, PageStep(p) PROVE (Typed /\ PageTypeOK)'
  BY <1>2, PageTyped
<1>3. ASSUME NEW s \in Cmd, Wander(s) PROVE (Typed /\ PageTypeOK)'
  BY <1>3 DEF Wander, Navigates, sessionVars, Typed, TypeOK, ViewInv, PageTypeOK
<1>4. CASE UNCHANGED vars
  BY <1>4 DEF vars, sessionVars, pageVars, Typed, TypeOK, ViewInv, PageTypeOK
<1> QED BY <1>1, <1>2, <1>3, <1>4 DEF Next

\* Every variable keeps its type under every command and fault: the receipt lies
\* in the lock, and only a running one ever holds a Snapshot Generation.
THEOREM WarmTypeCorrect == Spec => []TypeOK
<1>1. PageInit => Typed /\ PageTypeOK
  BY InitTyped
<1>2. Typed /\ PageTypeOK /\ [Next]_vars => (Typed /\ PageTypeOK)'
  BY StepTyped
<1>3. Typed => TypeOK
  BY DEF Typed
<1> QED BY <1>1, <1>2, <1>3, PTL DEF Spec

-----------------------------------------------------------------------------
(* The session.                                                              *)

Inv == Typed /\ SessionInv

LEMMA InitInv == PageInit => SessionInv
<1> SUFFICES ASSUME PageInit PROVE SessionInv
  OBVIOUS
<1>1. \/ receipt = None /\ lock = None
      \/ receipt # None /\ receipt.id \in Fallen /\ receipt.snap = None /\ lock = receipt.id
  <2>1. ASSUME NEW s \in Fallen, NEW ph \in Phase,
               lock = s, receipt = [Fresh(s) EXCEPT !.phase = ph]
        PROVE  receipt # None /\ receipt.id \in Fallen /\ receipt.snap = None /\ lock = receipt.id
    BY <2>1, FreshType, PhaseType
  <2> QED BY <2>1 DEF PageInit, Init
<1>2. Accounted /\ NoSecondOwner
  BY <1>1 DEF PageInit, Init, Accounted, NoSecondOwner, Live
<1>3. RecordInv
  BY <1>1 DEF PageInit, Init, RecordInv, Launched, Ended
<1>4. \A p \in Cmd : ViewAt(p)
  BY <1>1 DEF PageInit, Init, ViewAt, Launched, Ended
<1>5. \A p \in Cmd : StartAt(p) /\ RecoveryAt(p)
  BY DEF PageInit, Init, StartAt, RecoveryAt, PagePc, Active, RestPc
<1> QED BY <1>2, <1>3, <1>4, <1>5 DEF SessionInv

\* An invocation that looks at a session, or waits to start one, has none of
\* its own.
LEMMA OthersSession ==
  ASSUME Inv, NEW p \in Cmd, view[p] # None,
         pc[p] \in InspectPc \cup {"kill", "precheck", "acquire", "recheck", "intend"}
  PROVE  view[p].id \in Cmd /\ view[p].id # p /\ ~Own(p)
<1>1. Launched(view[p].id) /\ view[p].id \in Cmd
  BY DEF Inv, SessionInv, ViewAt, Typed, TypeOK, Receipt
<1> QED BY <1>1 DEF Launched, Ended, Own, InspectPc

\* What was launched, or has ended, stays so while p takes a step.
LEMMA Stable ==
  ASSUME Inv, NEW p \in Cmd, ~Ended(p),
         \A q \in Cmd \ {p} : pc'[q] = pc[q] /\ view'[q] = view[q],
         Launched(p) => Launched(p)'
  PROVE  /\ \A s \in Cmd : (Launched(s) => Launched(s)') /\ (Ended(s) => Ended(s)')
         /\ receipt # None => receipt.id \in Cmd
         /\ \A q \in Cmd : view[q] # None => view[q].id \in Cmd
<1>1. \A s \in Cmd : (Launched(s) => Launched(s)') /\ (Ended(s) => Ended(s)')
  BY DEF Launched, Own, Ended
<1>2. /\ receipt # None => receipt.id \in Cmd
      /\ \A q \in Cmd : view[q] # None => view[q].id \in Cmd
  BY DEF Inv, Typed, TypeOK, Receipt
<1> QED BY <1>1, <1>2

\* A step of p that leaves the receipt and the browsers alone.
LEMMA OwnStep ==
  ASSUME Inv, NEW p \in Cmd, ~Ended(p),
         UNCHANGED <<receipt, browser, aged>>,
         tomb' \subseteq tomb,
         lock' = lock \/ lock \in {None, p},
         \A q \in Cmd \ {p} : pc'[q] = pc[q] /\ view'[q] = view[q] /\ kind'[q] = kind[q],
         view'[p] \in {view[p], None, receipt},
         Launched(p) => Launched(p)',
         StartAt(p)', RecoveryAt(p)'
  PROVE  SessionInv'
<1> USE DEF Inv, SessionInv, Live
<1>1. /\ \A s \in Cmd : (Launched(s) => Launched(s)') /\ (Ended(s) => Ended(s)')
      /\ receipt # None => receipt.id \in Cmd
      /\ \A q \in Cmd : view[q] # None => view[q].id \in Cmd
  BY Stable
<1>2. Accounted' /\ NoSecondOwner'
  BY DEF Accounted, NoSecondOwner
<1>3. RecordInv'
  BY <1>1 DEF RecordInv
<1>4. \A q \in Cmd : ViewAt(q)'
  BY <1>1 DEF RecordInv, ViewAt, Own
<1>5. \A q \in Cmd \ {p} : StartAt(q)'
  BY DEF StartAt, Own
<1>6. \A q \in Cmd \ {p} : RecoveryAt(q)'
  BY <1>1 DEF RecoveryAt, Own, Typed, ViewInv, InspectPc, RemovePc, Active
<1> QED BY <1>2, <1>3, <1>4, <1>5, <1>6

\* A step of a start that holds the lock and leaves its own receipt there.
LEMMA OwnWrite ==
  ASSUME Inv, NEW p \in Cmd, ~Ended(p),
         lock = p, UNCHANGED <<lock, tomb, aged>>, tomb = {},
         browser[p] # "gone" \/ ~Launched(p),
         \A q \in Cmd \ {p} : browser'[q] = browser[q],
         browser'[p] \in {browser[p], "live", "gone"},
         receipt = None \/ receipt.id = p,
         \A q \in Cmd \ {p} : pc'[q] = pc[q] /\ view'[q] = view[q] /\ kind'[q] = kind[q],
         Launched(p) => Launched(p)',
         receipt' # None /\ receipt'.id = p,
         RecordInv', ViewAt(p)', StartAt(p)', RecoveryAt(p)'
  PROVE  SessionInv'
<1> USE DEF Inv, SessionInv, Live
<1>1. /\ \A s \in Cmd : (Launched(s) => Launched(s)') /\ (Ended(s) => Ended(s)')
      /\ \A q \in Cmd : view[q] # None => view[q].id \in Cmd
  BY Stable
<1>2. Accounted' /\ NoSecondOwner'
  BY DEF Accounted, NoSecondOwner
<1>3. \A q \in Cmd \ {p} : ViewAt(q)'
  BY <1>1 DEF ViewAt, Own
<1>4. \A q \in Cmd \ {p} : StartAt(q)'
  BY DEF StartAt, Own
<1>5. ASSUME NEW q \in Cmd \ {p} PROVE RecoveryAt(q)'
  <2>1. /\ pc[q] \in {"relook", "find", "refind", "owners", "verify", "stoplook", "kill",
                      "remove", "dispose"} /\ ~Own(q)
             => view[q] # None /\ view[q].id # p
    BY <1>1 DEF ViewAt, RecoveryAt, Typed, ViewInv, InspectPc, RemovePc
  <2>2. pc[q] \in {"remove", "dispose"} => view[q].id \in Cmd \ {p}
    BY <1>1, <2>1 DEF Own, Typed, ViewInv, RemovePc
  <2> QED BY <1>1, <2>1, <2>2 DEF RecoveryAt, Own, Active
<1> QED BY <1>2, <1>3, <1>4, <1>5

LEMMA BeginInv ==
  ASSUME Inv, Orderly, NEW p \in Cmd, NEW c \in Command, Begin(p, c)
  PROVE  SessionInv'
<1> USE DEF Inv, Typed, TypeOK, Begin, Orderly
<1>1. StartAt(p)' /\ RecoveryAt(p)'
  BY DEF StartAt, RecoveryAt, SessionCommand, PagePc, Active, RestPc
<1> QED BY <1>1, OwnStep DEF Launched, Ended, stateDir

\* A reading of the lock, the process table or the endpoint.
LEMMA InspectInv ==
  ASSUME Inv, Orderly, NEW p \in Cmd, Inspect(p)
  PROVE  SessionInv'
<1> USE DEF Typed, TypeOK, Goto, End
<1>1. CASE Load(p)
  <2>1. receipt # None => receipt.id \in Cmd /\ (aged[receipt.id] => Ended(receipt.id))
    BY DEF Inv, SessionInv, RecordInv, ViewAt, Receipt
  <2>2. StartAt(p)'
    BY <1>1 DEF Inv, Load, StartAt
  <2>3. RecoveryAt(p)'
    <3>1. CASE view' = [view EXCEPT ![p] = receipt] /\ receipt # None
      <4>1. \/ pc'[p] \in {"done", "precheck"}
            \/ pc'[p] = "find" /\ Ended(receipt.id)
            \/ pc'[p] = "look" /\ receipt.phase # "launching"
        BY <1>1, <2>1, <3>1 DEF Inv, Load, Stale
      <4>2. Ended(receipt.id) => Ended(receipt.id)'
        BY <1>1, <2>1, <3>1 DEF Inv, Load, Ended, stateDir
      <4>3. view'[p] = receipt /\ receipt' = receipt /\ kind'[p] = kind[p]
        BY <1>1, <3>1 DEF Inv, Load, stateDir
      <4>4. kind[p] \in SessionCommand
        BY <1>1 DEF Inv, SessionInv, Load, RecoveryAt, Active, RestPc
      <4>5. Ended(view[p].id)' <=> Ended(receipt.id)'
        BY <4>3 DEF Ended
      <4> QED
        BY <4>1, <4>2, <4>3, <4>4, <4>5 DEF RecoveryAt, PagePc, Active, RestPc
    <3>2. CASE pc' = [pc EXCEPT ![p] = "precheck"] \/ pc' = [pc EXCEPT ![p] = "done"]
      BY <1>1, <3>2 DEF Inv, SessionInv, Load, RecoveryAt, PagePc, Active, RestPc
    <3> QED BY <1>1, <3>1, <3>2 DEF Load
  <2> QED BY <1>1, <2>2, <2>3, OwnStep DEF Inv, Load, stateDir, Launched, Ended
<1>2. CASE Look(p)
  <2>1. view[p] \in Receipt /\ ~Own(p)
    BY <1>2, OthersSession DEF Inv, ViewInv, Look, InspectPc
  <2>2. /\ view[p].phase = "running" => Ended(view[p].id)
        /\ aged[view[p].id] => Ended(view[p].id)
        /\ view[p].phase # "launching" => browser[view[p].id] # "none"
    BY <2>1 DEF Inv, SessionInv, ViewAt, Receipt
  <2>3. view[p].phase # "launching"
    BY <1>2 DEF Inv, SessionInv, RecoveryAt, Look
  <2>4. StartAt(p)' /\ RecoveryAt(p)'
    BY <1>2, <2>1, <2>2, <2>3 DEF Inv, SessionInv, Look, Stale, StartAt, RecoveryAt, PagePc,
       Own, Ended, Live, Receipt, stateDir, Active, RestPc
  <2> QED BY <1>2, <2>4, OwnStep DEF Inv, Look, stateDir, Launched, Ended
<1>3. CASE LookAgain(p)
  <2>1. StartAt(p)' /\ RecoveryAt(p)'
    BY <1>3, OthersSession DEF Inv, SessionInv, ViewInv, LookAgain, StartAt, RecoveryAt,
       InspectPc, PagePc, Own, Ended, Live, Active, RestPc
  <2> QED BY <1>3, <2>1, OwnStep DEF Inv, LookAgain, stateDir, Launched, Ended
<1>4. CASE Find(p)
  <2>1. StartAt(p)' /\ RecoveryAt(p)'
    BY <1>4, OthersSession DEF Inv, SessionInv, ViewInv, Find, StartAt, RecoveryAt,
       InspectPc, PagePc, Own, Ended, Live, Active, RestPc
  <2> QED BY <1>4, <2>1, OwnStep DEF Inv, Find, stateDir, Launched, Ended
<1>5. CASE FindOwners(p)
  <2>1. StartAt(p)' /\ RecoveryAt(p)'
    BY <1>5, OthersSession DEF Inv, SessionInv, ViewInv, FindOwners, StartAt, RecoveryAt,
       InspectPc, PagePc, Own, Ended, Live, Active, RestPc
  <2> QED BY <1>5, <2>1, OwnStep DEF Inv, FindOwners, stateDir, Launched, Ended
<1>6. CASE Verify(p)
  <2>1. view[p] \in Receipt /\ ~Own(p) /\ view[p].snap = None /\ kind[p] \in SessionCommand
        /\ Ended(view[p].id)
    BY <1>6, OthersSession DEF Inv, SessionInv, ViewAt, RecoveryAt, ViewInv, Verify,
       Status, Stop, RequireControlledPage, InspectPc,
       Active, RestPc
  <2>2. Goto(p, "stoplook") \/ End(p)
    BY <1>6, <2>1 DEF Verify, Status, Stop, RequireControlledPage, SessionCommand, PageCommand
  <2>3. StartAt(p)' /\ RecoveryAt(p)'
    BY <1>6, <2>1, <2>2 DEF Inv, SessionInv, Verify, Status, Stop,
       RequireControlledPage, StartAt, RecoveryAt, PagePc, Own, Ended,
       Live, Active, RestPc, Receipt
  <2> QED BY <1>6, <2>2, <2>3, OwnStep DEF Inv, Verify, Status, Stop, RequireControlledPage,
       stateDir, Launched, Ended
<1>7. CASE Replaced(p)
  BY <1>7 DEF Inv, SessionInv, RecoveryAt, Replaced
<1> QED BY <1>1, <1>2, <1>3, <1>4, <1>5, <1>6, <1>7 DEF Inspect

\* A step that writes nothing and leaves the browsers alone: what it may break
\* is only what holds of the invocation itself.
LEMMA WaitInv ==
  ASSUME Inv, NEW p \in Cmd, Precheck(p) \/ Confirm(p) \/ GiveUp(p) \/ Crash(p)
  PROVE  SessionInv'
<1> USE DEF Typed, TypeOK, Goto, End
<1>1. CASE Precheck(p)
  <2>1. StartAt(p)' /\ RecoveryAt(p)'
    BY <1>1 DEF Inv, SessionInv, Precheck, StartAt, RecoveryAt, PagePc, Active, RestPc
  <2> QED BY <1>1, <2>1, OwnStep DEF Inv, Precheck, stateDir, Launched, Ended
<1>2. CASE Confirm(p)
  <2>1. StartAt(p)' /\ RecoveryAt(p)'
    BY <1>2 DEF Inv, SessionInv, Confirm, StartAt, RecoveryAt, PagePc, Active, RestPc, Live,
       Own, stateDir
  <2> QED BY <1>2, <2>1, OwnStep DEF Inv, Confirm, stateDir, Launched, Ended, Own
<1>3. CASE GiveUp(p)
  <2>1. StartAt(p)' /\ RecoveryAt(p)'
    BY <1>3 DEF Inv, SessionInv, GiveUp, StartAt, RecoveryAt, PagePc, Active, RestPc
  <2> QED BY <1>3, <2>1, OwnStep DEF Inv, GiveUp, stateDir, Launched, Ended, InspectPc
<1>4. CASE Crash(p)
  <2>1. StartAt(p)' /\ RecoveryAt(p)'
    BY <1>4 DEF Inv, SessionInv, Crash, StartAt, RecoveryAt, PagePc, Active, RestPc
  <2> QED BY <1>4, <2>1, OwnStep DEF Inv, Crash, stateDir, Launched, Ended, Active, RestPc
<1> QED BY <1>1, <1>2, <1>3, <1>4

\* A recovery only ever removes a session whose browser is not there.
LEMMA RecoverInv ==
  ASSUME Inv, Orderly, NEW p \in Cmd, Recover(p)
  PROVE  SessionInv'
<1> USE DEF Typed, TypeOK, Goto, End
<1>1. CASE Kill(p)
  <2> DEFINE s == view[p].id
  <2>1. s \in Cmd /\ s # p /\ ~Own(p) /\ view[p] # None
    BY <1>1, OthersSession DEF Inv, ViewInv, Kill, RemovePc
  <2>2. Ended(s) \/ browser[s] = "gone"
    BY <1>1, <2>1 DEF Inv, SessionInv, RecoveryAt, Kill
  <2>3. CASE ~Live(s)
    <3>1. StartAt(p)' /\ RecoveryAt(p)'
      BY <1>1, <2>3 DEF Inv, SessionInv, Kill, StartAt, RecoveryAt, PagePc, Active, RestPc
    <3> QED BY <1>1, <2>3, <3>1, OwnStep DEF Inv, Kill, stateDir, Launched, Ended
  <2>4. CASE Live(s)
    <3> USE DEF Inv, SessionInv, Kill, Live
    <3>1. Ended(s) /\ browser' = [browser EXCEPT ![s] = "gone"]
      BY <1>1, <2>2, <2>4
    <3>2. /\ \A t \in Cmd : (Launched(t) => Launched(t)') /\ (Ended(t) => Ended(t)')
          /\ receipt # None => receipt.id \in Cmd
          /\ \A q \in Cmd : view[q] # None => view[q].id \in Cmd
      BY <1>1, Stable DEF Launched, Ended
    <3> HIDE DEF s
    <3>3. Accounted' /\ NoSecondOwner'
      BY <1>1, <3>1 DEF Accounted, NoSecondOwner, stateDir
    <3>4. RecordInv'
      BY <1>1, <2>1, <3>1, <3>2 DEF RecordInv, stateDir
    <3>5. \A q \in Cmd : ViewAt(q)'
      BY <1>1, <2>1, <3>1, <3>2, <2>4 DEF ViewAt, Own
    <3>6. \A q \in Cmd : StartAt(q)'
      BY <1>1, <2>1, <3>1 DEF StartAt, Own, Ended, stateDir
    <3>7. \A q \in Cmd \ {p} : RecoveryAt(q)'
      BY <1>1, <2>1, <3>1, <3>2 DEF RecoveryAt, Own, ViewInv, InspectPc, RemovePc, Active
    <3>8. RecoveryAt(p)'
      BY <1>1, <2>1, <3>1, <3>2 DEF RecoveryAt, PagePc, Active, RestPc, s
    <3> QED BY <3>3, <3>4, <3>5, <3>6, <3>7, <3>8
  <2> QED BY <2>3, <2>4
<1>2. CASE Remove(p)
  <2>1. CASE End(p) /\ UNCHANGED stateDir
    <3>1. StartAt(p)' /\ RecoveryAt(p)'
      BY <1>2, <2>1 DEF Inv, SessionInv, Remove, StartAt, RecoveryAt, PagePc, Active, RestPc
    <3> QED BY <1>2, <2>1, <3>1, OwnStep DEF Inv, Remove, stateDir, Launched, Ended
  <2>2. CASE RemoveAdmits(p) /\ Detach(p)
    <3> USE DEF Inv, SessionInv, Remove, RemoveAdmits, Detach
    <3>1. /\ \A t \in Cmd : (Launched(t) => Launched(t)') /\ (Ended(t) => Ended(t)')
          /\ \A q \in Cmd : view[q] # None => view[q].id \in Cmd
      BY <1>2, <2>2, Stable DEF Launched, Ended, Own
    <3>2. view[p] # None /\ view[p].id \in Cmd /\ ~Live(view[p].id)
      BY <1>2, <2>2, <3>1 DEF RecoveryAt, ViewInv, RemovePc
    <3>3. Accounted' /\ NoSecondOwner'
      BY <1>2, <2>2, <3>2 DEF Accounted, NoSecondOwner, Live
    <3>4. RecordInv'
      BY <2>2 DEF RecordInv
    <3>5. \A q \in Cmd : ViewAt(q)'
      BY <1>2, <2>2, <3>1 DEF ViewAt, Own
    <3>6. \A q \in Cmd : StartAt(q)'
      <4>1. ASSUME NEW q \in Cmd \ {p} PROVE StartAt(q)'
        <5>1. pc[q] \notin {"recheck", "intend"}
          BY <2>2 DEF StartAt
        <5>2. pc[q] \notin {"spawn", "confirm", "record", "prove", "publish", "undo"}
          BY <1>2, <2>2 DEF StartAt, RecoveryAt, Ended, Own
        <5> QED BY <1>2, <2>2, <5>1, <5>2 DEF StartAt
      <4>2. StartAt(p)'
        BY <1>2, <2>2 DEF StartAt
      <4> QED BY <4>1, <4>2
    <3>7. \A q \in Cmd \ {p} : RecoveryAt(q)'
      BY <1>2, <2>2, <3>1 DEF RecoveryAt, Own, ViewInv, InspectPc, RemovePc, Active, Live
    <3>8. RecoveryAt(p)'
      BY <1>2, <2>2, <3>1, <3>2 DEF RecoveryAt, PagePc, Active, RestPc, Live, Own
    <3> QED BY <3>3, <3>4, <3>5, <3>6, <3>7, <3>8
  <2> QED BY <1>2, <2>1, <2>2 DEF Remove, Orderly
<1>3. CASE Rename(p)
  BY <1>3 DEF Inv, SessionInv, RecoveryAt, Rename
<1>4. CASE Dispose(p)
  <2>1. StartAt(p)' /\ RecoveryAt(p)'
    BY <1>4 DEF Inv, SessionInv, Dispose, StartAt, RecoveryAt, PagePc, Active, RestPc
  <2> QED BY <1>4, <2>1, OwnStep DEF Inv, Dispose, Launched, Ended, Own
<1> QED BY <1>1, <1>2, <1>3, <1>4 DEF Recover

\* A start that comes to the lock, and one that finds a cleanup in flight.
LEMMA AcquireInv ==
  ASSUME Inv, NEW p \in Cmd, Acquire(p) \/ Recheck(p)
  PROVE  SessionInv'
<1> USE DEF Typed, TypeOK, Goto, End
<1>1. CASE Acquire(p)
  <2>1. StartAt(p)' /\ RecoveryAt(p)'
    BY <1>1 DEF Inv, SessionInv, Acquire, StartAt, RecoveryAt, PagePc, Active, RestPc
  <2> QED BY <1>1, <2>1, OwnStep DEF Inv, Acquire, Launched, Ended
<1>2. CASE Recheck(p)
  <2>1. lock = p /\ receipt = None
    BY <1>2 DEF Inv, SessionInv, StartAt, Recheck
  <2>2. StartAt(p)' /\ RecoveryAt(p)'
    BY <1>2, <2>1 DEF Inv, SessionInv, Recheck, GiveBack, StartAt, RecoveryAt, PagePc, Active,
       RestPc
  <2> QED BY <1>2, <2>1, <2>2, OwnStep DEF Inv, Recheck, GiveBack, Launched, Ended
<1> QED BY <1>1, <1>2

LEMMA IntendInv ==
  ASSUME Inv, NEW p \in Cmd, Intend(p)
  PROVE  SessionInv'
<1> USE DEF Typed, TypeOK, Goto, End
<1>1. lock = p /\ receipt = None /\ tomb = {} /\ ~Launched(p) /\ browser[p] = "none"
      /\ kind[p] \in SessionCommand /\ ~aged[p]
  BY DEF Inv, SessionInv, Intend, StartAt, ViewAt, RecoveryAt, Launched, Ended, Active, RestPc
<1>2. CASE Write(Fresh(p)) /\ view' = [view EXCEPT ![p] = Fresh(p)]
           /\ pc' = [pc EXCEPT ![p] = "spawn"] /\ UNCHANGED kind
  <2>1. /\ receipt' = Fresh(p) /\ view'[p] = Fresh(p) /\ pc'[p] = "spawn"
        /\ UNCHANGED <<lock, tomb, browser, aged, kind>>
    BY <1>2 DEF Inv, Intend, Write
  <2>2. Launched(p)' /\ Own(p)'
    BY <2>1, FreshType DEF Launched, Own
  <2>3. RecordInv' /\ ViewAt(p)'
    BY <1>1, <2>1, <2>2, FreshType DEF RecordInv, ViewAt
  <2>4. StartAt(p)' /\ RecoveryAt(p)'
    BY <1>1, <2>1, <2>2, FreshType DEF StartAt, RecoveryAt, PagePc, Active
  <2>5. receipt' # None /\ receipt'.id = p
    BY <2>1, FreshType
  <2> QED BY <1>1, <1>2, <2>1, <2>2, <2>3, <2>4, <2>5, OwnWrite DEF Inv, Intend, Ended
<1>3. CASE GiveBack /\ End(p) /\ UNCHANGED <<receipt, tomb>>
  <2>1. StartAt(p)' /\ RecoveryAt(p)'
    BY <1>1, <1>3 DEF Inv, SessionInv, StartAt, RecoveryAt, PagePc, Active, RestPc
  <2> QED BY <1>1, <1>3, <2>1, OwnStep DEF Inv, Intend, GiveBack, Launched, Ended
<1> QED BY <1>2, <1>3 DEF Intend

\* What holds of a start that is past its launch intent.
LEMMA AtWork ==
  ASSUME Inv, NEW p \in Cmd,
         pc[p] \in {"spawn", "confirm", "record", "prove", "publish", "undo"}
  PROVE  /\ lock = p /\ tomb = {} /\ Own(p) /\ Launched(p) /\ ~Ended(p) /\ ~aged[p]
         /\ receipt \in Receipt /\ receipt # None /\ receipt.id = p /\ receipt.snap = None
         /\ receipt.phase # "running"
         /\ view[p] \in Receipt /\ view[p].id = p /\ view[p].snap = None
         /\ browser[p] = IF pc[p] = "spawn" THEN "none" ELSE "live"
         /\ kind[p] \in SessionCommand
<1>1. lock = p /\ Own(p) /\ receipt # None /\ receipt.id = p /\ Launched(p) /\ ~Ended(p)
      /\ browser[p] = IF pc[p] = "spawn" THEN "none" ELSE "live"
  BY DEF Inv, SessionInv, StartAt, Launched, Ended
<1>2. receipt \in Receipt /\ receipt.snap = None /\ receipt.phase # "running" /\ tomb = {}
  BY <1>1 DEF Inv, SessionInv, NoSecondOwner, RecordInv, Typed, TypeOK
<1>3. view[p] \in Receipt /\ view[p].id = p /\ view[p].snap = None /\ ~aged[p]
  BY <1>1 DEF Inv, SessionInv, ViewAt, Typed, TypeOK, Own
<1>4. kind[p] \in SessionCommand
  BY DEF Inv, SessionInv, RecoveryAt, Active, RestPc
<1> QED BY <1>1, <1>2, <1>3, <1>4

\* The steps of a start from its launch on.
LEMMA LaunchInv ==
  ASSUME Inv, NEW p \in Cmd,
         Spawn(p) \/ Record(p) \/ Prove(p) \/ Publish(p) \/ Undo(p)
  PROVE  SessionInv'
<1> USE DEF Typed, TypeOK, Goto, End
<1>1. CASE Spawn(p)
  <2>1. CASE browser' = [browser EXCEPT ![p] = "live"] /\ Goto(p, "confirm")
    <3>1. Launched(p)' /\ Own(p)'
      BY <1>1, <2>1, AtWork DEF Inv, Spawn, Launched, Own
    <3>2. RecordInv' /\ ViewAt(p)' /\ StartAt(p)' /\ RecoveryAt(p)'
      BY <1>1, <2>1, <3>1, AtWork DEF Inv, Spawn, RecordInv, ViewAt, StartAt, RecoveryAt, PagePc,
         Active, stateDir
    <3> QED BY <1>1, <2>1, <3>1, <3>2, AtWork, OwnWrite DEF Inv, Spawn, stateDir
  <2>2. CASE UNCHANGED browser /\ Goto(p, "remove")
    <3>1. Launched(p)' /\ Own(p)'
      BY <1>1, <2>2, AtWork DEF Inv, Spawn, Launched, Own
    <3>2. StartAt(p)' /\ RecoveryAt(p)'
      BY <1>1, <2>2, <3>1, AtWork DEF Inv, Spawn, StartAt, RecoveryAt, PagePc, Active, Live
    <3> QED BY <1>1, <2>2, <3>1, <3>2, AtWork, OwnStep DEF Inv, Spawn, stateDir
  <2> QED BY <1>1, <2>1, <2>2 DEF Spawn
<1>2. CASE Record(p)
  <2> DEFINE r == [Fresh(p) EXCEPT !.phase = "starting"]
  <2>1. r \in Receipt /\ r # None /\ r.id = p /\ r.snap = None /\ r.phase = "starting"
    <3>1. "starting" \in Phase
      BY DEF Phase
    <3> QED BY <3>1, FreshType, PhaseType
  <2> HIDE DEF r
  <2>2. CASE Write(r) /\ Goto(p, "prove")
    <3>1. Launched(p)' /\ Own(p)'
      BY <1>2, <2>2, AtWork DEF Inv, Record, Launched, Own
    <3>2. RecordInv' /\ ViewAt(p)' /\ StartAt(p)' /\ RecoveryAt(p)'
      BY <1>2, <2>1, <2>2, <3>1, AtWork DEF Inv, Record, Write, RecordInv, ViewAt, StartAt,
         RecoveryAt, PagePc, Active
    <3> QED BY <1>2, <2>1, <2>2, <3>1, <3>2, AtWork, OwnWrite DEF Inv, Record, Write
  <2>3. CASE WriteFails /\ Goto(p, "undo")
    <3>1. Launched(p)' /\ Own(p)'
      BY <1>2, <2>3, AtWork DEF Inv, Record, Launched, Own
    <3>2. StartAt(p)' /\ RecoveryAt(p)'
      BY <1>2, <2>3, <3>1, AtWork DEF Inv, Record, WriteFails, StartAt, RecoveryAt, PagePc,
         Active, stateDir
    <3> QED BY <1>2, <2>3, <3>1, <3>2, AtWork, OwnStep DEF Inv, Record, WriteFails, stateDir
  <2> QED BY <1>2, <2>2, <2>3 DEF Record, r
<1>3. CASE Prove(p)
  <2> DEFINE r == [id |-> p, phase |-> "running", tab |-> tab[p], snap |-> None]
  <2>1. CASE Live(p) /\ view' = [view EXCEPT ![p] = r]
             /\ pc' = [pc EXCEPT ![p] = "publish"] /\ UNCHANGED kind
    <3>1. view'[p] \in Receipt /\ view'[p] # None /\ view'[p].id = p /\ view'[p].snap = None
      <4>1. r \in Receipt /\ r.id = p /\ r.snap = None
        BY <1>3 DEF Inv, Prove, Receipt, Phase
      <4> QED BY <2>1, <4>1 DEF Inv
    <3>2. Launched(p)' /\ Own(p)'
      BY <1>3, <2>1, <3>1, AtWork DEF Inv, Prove, Launched, Own
    <3>3. RecordInv' /\ ViewAt(p)' /\ StartAt(p)' /\ RecoveryAt(p)'
      BY <1>3, <2>1, <3>1, <3>2, AtWork DEF Inv, SessionInv, Prove, RecordInv, ViewAt, StartAt,
         RecoveryAt, PagePc, Active, stateDir
    <3> QED BY <1>3, <2>1, <3>2, <3>3, AtWork, OwnWrite DEF Inv, Prove, stateDir
  <2>2. CASE Goto(p, "undo")
    <3>1. Launched(p)' /\ Own(p)'
      BY <1>3, <2>2, AtWork DEF Inv, Prove, Launched, Own
    <3>2. StartAt(p)' /\ RecoveryAt(p)'
      BY <1>3, <2>2, <3>1, AtWork DEF Inv, Prove, StartAt, RecoveryAt, PagePc, Active, stateDir
    <3> QED BY <1>3, <2>2, <3>1, <3>2, AtWork, OwnStep DEF Inv, Prove, stateDir
  <2> QED BY <1>3, <2>1, <2>2 DEF Prove
<1>4. CASE Publish(p)
  <2>1. CASE Write(view[p]) /\ End(p)
    <3>1. Launched(p)' /\ Ended(p)' /\ view'[p] = None /\ receipt' = view[p]
      BY <1>4, <2>1, AtWork DEF Inv, Publish, Write, Launched, Ended
    <3>2. RecordInv' /\ ViewAt(p)' /\ StartAt(p)' /\ RecoveryAt(p)'
      BY <1>4, <2>1, <3>1, AtWork DEF Inv, Publish, Write, RecordInv, ViewAt, StartAt,
         RecoveryAt, PagePc, Active, RestPc
    <3> QED BY <1>4, <2>1, <3>1, <3>2, AtWork, OwnWrite DEF Inv, Publish, Write
  <2>2. CASE WriteFails /\ Goto(p, "undo")
    <3>1. Launched(p)' /\ Own(p)'
      BY <1>4, <2>2, AtWork DEF Inv, Publish, Launched, Own
    <3>2. StartAt(p)' /\ RecoveryAt(p)'
      BY <1>4, <2>2, <3>1, AtWork DEF Inv, Publish, WriteFails, StartAt, RecoveryAt, PagePc,
         Active, stateDir
    <3> QED BY <1>4, <2>2, <3>1, <3>2, AtWork, OwnStep DEF Inv, Publish, WriteFails, stateDir
  <2> QED BY <1>4, <2>1, <2>2 DEF Publish
<1>5. CASE Undo(p)
  <2>1. browser' = [browser EXCEPT ![p] = "gone"] /\ Goto(p, "remove")
    BY <1>5, AtWork DEF Undo, Live
  <2>2. Launched(p)' /\ Own(p)'
    BY <1>5, <2>1, AtWork DEF Inv, Undo, Launched, Own
  <2>3. RecordInv' /\ ViewAt(p)' /\ StartAt(p)' /\ RecoveryAt(p)'
    BY <1>5, <2>1, <2>2, AtWork DEF Inv, Undo, RecordInv, ViewAt, StartAt, RecoveryAt, PagePc,
       Active, Live, stateDir
  <2> QED BY <1>5, <2>1, <2>2, <2>3, AtWork, OwnWrite DEF Inv, Undo, stateDir
<1> QED BY <1>1, <1>2, <1>3, <1>4, <1>5

\* What the world does: browsers that are quit, pages that are replaced, time.
LEMMA WorldInv ==
  ASSUME Inv, Orderly, NEW s \in Cmd, Exit(s) \/ ReplacePage(s) \/ Age(s)
  PROVE  SessionInv'
<1> USE DEF Inv, SessionInv, Typed, TypeOK, Orderly, FaultKind, stateDir
<1>1. CASE Exit(s)
  <2>1. ~Active(s) /\ browser' = [browser EXCEPT ![s] = "gone"] /\ Live(s)
    BY <1>1 DEF Exit
  <2>2. UNCHANGED <<lock, receipt, tomb, aged, kind, view, pc>>
    BY <1>1 DEF Exit
  <2>3. /\ receipt # None => receipt.id \in Cmd
        /\ \A q \in Cmd : view[q] # None => view[q].id \in Cmd
    BY DEF Receipt
  <2>4. Accounted' /\ NoSecondOwner' /\ RecordInv'
    BY <2>1, <2>2, <2>3 DEF Accounted, NoSecondOwner, RecordInv, Launched, Own, Ended, Live
  <2>5. \A q \in Cmd : ViewAt(q)'
    BY <2>1, <2>2, <2>3 DEF ViewAt, Launched, Own, Ended, Live
  <2>6. \A q \in Cmd : StartAt(q)'
    BY <2>1, <2>2 DEF StartAt, Own, Active, RestPc
  <2>7. \A q \in Cmd : RecoveryAt(q)'
    BY <2>1, <2>2, <2>3 DEF RecoveryAt, Own, Ended, Live, Active, ViewInv, InspectPc, RemovePc
  <2> QED BY <2>4, <2>5, <2>6, <2>7
<1>2. CASE ReplacePage(s)
  BY <1>2 DEF ReplacePage, Accounted, NoSecondOwner, RecordInv, ViewAt, StartAt, RecoveryAt,
     Launched, Own, Ended, Live, Active
<1>3. CASE Age(s)
  <2>1. UNCHANGED <<lock, receipt, tomb, browser, kind, view, pc>>
    BY <1>3 DEF Age
  <2>2. Ended(s)
    BY <1>3 DEF Age, RecordInv, Launched, Active, RestPc
  <2>3. \A q \in Cmd : aged'[q] <=> (aged[q] \/ q = s)
    BY <1>3, AgeType DEF Age
  <2>4. \A q \in Cmd : ViewAt(q)'
    BY <2>1, <2>2, <2>3 DEF ViewAt, Launched, Own, Ended
  <2> QED BY <2>1, <2>4 DEF Accounted, NoSecondOwner, RecordInv, StartAt, RecoveryAt,
             Launched, Own, Ended, Live, Active
<1> QED BY <1>1, <1>2, <1>3

\* For every number of starts, statuses and stops that interleave, die between
\* any two of their steps, fail to write and fail to read the process table:
\* the invariant that says who owns the lock, the receipt and the browser.
THEOREM SessionInductive == ASSUME Orderly PROVE Spec => []SessionInv
<1>1. PageInit => Inv
  BY InitTyped, InitInv DEF Inv
<1>2. Inv /\ [Next]_vars => Inv'
  <2> SUFFICES ASSUME Inv, [Next]_vars PROVE Inv'
    OBVIOUS
  <2>1. CASE SessionNext
    <3>1. Typed'
      BY <2>1, SessionTyped DEF Inv
    <3>2. SessionInv'
      BY <2>1, BeginInv, InspectInv, RecoverInv, WaitInv, AcquireInv, IntendInv, LaunchInv,
         WorldInv DEF SessionNext, StartStep
    <3> QED BY <3>1, <3>2 DEF Inv
  <2>2. ASSUME NEW p \in Cmd, PageStep(p) PROVE FALSE
    BY <2>2 DEF Inv, SessionInv, RecoveryAt, PagePc, PageStep, Open, Navigate, Read, FinishRead,
       Store, Resolve, Aim, Dispatch, After
  <2>3. CASE UNCHANGED sessionVars
    BY <2>3 DEF sessionVars, Inv, Typed, TypeOK, ViewInv, SessionInv, Accounted, NoSecondOwner,
       RecordInv, ViewAt, StartAt, RecoveryAt, Launched, Own, Ended, Live, Active
  <2> QED BY <2>1, <2>2, <2>3 DEF Next, Wander, vars
<1>3. Inv => SessionInv
  BY DEF Inv
<1> QED BY <1>1, <1>2, <1>3, PTL DEF Spec

\* No browser that Warm Browser launched lives without its receipt.
THEOREM SessionAccounted == ASSUME Orderly PROVE Spec => []Accounted
<1>1. SessionInv => Accounted
  BY DEF SessionInv
<1> QED BY <1>1, SessionInductive, PTL

\* Two starts never both have a browser.
THEOREM SessionOneBrowser == ASSUME Orderly PROVE Spec => []OneBrowser
<1>1. SessionInv => OneBrowser
  BY DEF SessionInv, Accounted, OneBrowser
<1> QED BY <1>1, SessionInductive, PTL

\* No session is on record beside an unfinished cleanup.
THEOREM SessionNoSecondOwner == ASSUME Orderly PROVE Spec => []NoSecondOwner
<1>1. SessionInv => NoSecondOwner
  BY DEF SessionInv
<1> QED BY <1>1, SessionInductive, PTL

\* No other command undoes a start that is at work.
THEOREM SessionLiveStartKept == ASSUME Orderly PROVE Spec => []LiveStartKept
<1>1. SessionInv => LiveStartKept
  BY DEF SessionInv, StartAt, LiveStartKept
<1> QED BY <1>1, SessionInductive, PTL

-----------------------------------------------------------------------------
(* The generations.                                                          *)

\* A receipt that holds a generation holds the page that was issued with it.
Genuine(r) == r # None /\ r.snap # None => issued[r.snap.gen] = r.snap.page

IssuedAt(p) ==
  /\ Genuine(view[p])
  /\ issued[p] # None => Ended(p)
  /\ pc[p] = "publish" => view[p].snap = None
  /\ pc[p] \in {"aim", "dispatch"} => view[p].snap # None /\ view[p].snap.gen = ref[p]
  /\ hit[p] # None =>
       /\ Ended(p) \/ pc[p] = "after"
       /\ ref[p] \in Cmd /\ hit[p] = issued[ref[p]]

IssueInv ==
  /\ issued \in [Cmd -> Page \cup {None}]
  /\ hit \in [Cmd -> Page \cup {None}]
  /\ ref \in [Cmd -> Cmd \cup {None}]
  /\ Genuine(receipt)
  /\ \A p \in Cmd : IssuedAt(p)

LEMMA InitIssued == PageInit => IssueInv
<1> SUFFICES ASSUME PageInit PROVE IssueInv
  OBVIOUS
<1>1. Genuine(receipt)
  <2>1. ASSUME NEW s \in Fallen, NEW ph \in Phase, receipt = [Fresh(s) EXCEPT !.phase = ph]
        PROVE  receipt.snap = None
    BY <2>1, FreshType, PhaseType
  <2> QED BY <2>1 DEF PageInit, Init, Genuine
<1>2. \A p \in Cmd : IssuedAt(p)
  BY DEF PageInit, Init, IssuedAt, Genuine, Ended
<1> QED BY <1>1, <1>2 DEF PageInit, IssueInv

\* What a step of the session commands does with receipts and generations: it puts
\* none that holds a generation in the lock, and an invocation has in view what it
\* had, what the receipt holds, or nothing of a generation.
Carries(p) ==
  /\ \/ view'[p] = view[p]
     \/ view'[p] = None
     \/ view'[p] = receipt
     \/ view'[p] # None /\ view[p] # None /\ view'[p].snap = view[p].snap
     \/ view'[p] # None /\ view'[p].snap = None
  /\ Ended(p) => pc'[p] = pc[p]
  /\ pc[p] = "after" => pc'[p] \in {"after", "done", "crashed"}
  /\ pc'[p] = "publish" => (pc[p] = "publish" /\ view'[p] = view[p]) \/ view'[p].snap = None
  /\ pc'[p] \in {"aim", "dispatch"} => pc'[p] = pc[p] /\ view'[p] = view[p]

CarriesAll ==
  /\ receipt' = receipt \/ receipt' = None \/ receipt'.snap = None
  /\ \A p \in Cmd : Carries(p)

LEMMA SessionCarries == ASSUME Typed, IssueInv, SessionNext PROVE CarriesAll
<1> USE DEF CarriesAll, Carries, Typed, TypeOK, stateDir, Goto, End, Ended
<1>1. ASSUME NEW p \in Cmd, NEW c \in Command, Begin(p, c) PROVE CarriesAll
  BY <1>1 DEF Begin
<1>2. ASSUME NEW p \in Cmd, Inspect(p) PROVE CarriesAll
  <2>1. CASE Load(p)       BY <2>1 DEF Load
  <2>2. CASE Look(p)       BY <2>2 DEF Look
  <2>3. CASE LookAgain(p)  BY <2>3 DEF LookAgain
  <2>4. CASE Find(p)       BY <2>4 DEF Find
  <2>5. CASE FindOwners(p) BY <2>5 DEF FindOwners
  <2>6. CASE Verify(p)
    BY <2>6 DEF Verify, Status, Stop, RequireControlledPage, Receipt, ViewInv, InspectPc
  <2>7. CASE Replaced(p)
    <3>1. view[p] \in Receipt
      BY <2>7 DEF Replaced, ViewInv, InspectPc
    <3>2. WithoutSnapshot(view[p]) \in Receipt /\ WithoutSnapshot(view[p]).snap = None
      BY <3>1, WithoutSnapshotType
    <3> QED BY <2>7, <3>2 DEF Replaced, Write, WriteFails
  <2> QED BY <1>2, <2>1, <2>2, <2>3, <2>4, <2>5, <2>6, <2>7 DEF Inspect
<1>3. ASSUME NEW p \in Cmd, Recover(p) PROVE CarriesAll
  <2>1. CASE Kill(p)    BY <2>1 DEF Kill
  <2>2. CASE Remove(p)  BY <2>2 DEF Remove, Detach
  <2>3. CASE Rename(p)  BY <2>3 DEF Rename, Detach
  <2>4. CASE Dispose(p) BY <2>4 DEF Dispose
  <2> QED BY <1>3, <2>1, <2>2, <2>3, <2>4 DEF Recover
<1>4. ASSUME NEW p \in Cmd, StartStep(p) PROVE CarriesAll
  <2>1. CASE Precheck(p) BY <2>1 DEF Precheck
  <2>2. CASE Acquire(p)  BY <2>2 DEF Acquire
  <2>3. CASE Recheck(p)  BY <2>3 DEF Recheck, GiveBack
  <2>4. CASE Intend(p)   BY <2>4, FreshType DEF Intend, GiveBack, Write
  <2>5. CASE Spawn(p)    BY <2>5 DEF Spawn
  <2>6. CASE Confirm(p)  BY <2>6 DEF Confirm
  <2>7. CASE Record(p)
    <3>1. [Fresh(p) EXCEPT !.phase = "starting"].snap = None
      BY FreshType, PhaseType DEF Phase
    <3> QED BY ZenonT(60), <2>7, <3>1 DEF Record, Write, WriteFails
  <2>8. CASE Prove(p)
    <3>1. [id |-> p, phase |-> "running", tab |-> tab[p], snap |-> None] # None
      BY DEF Receipt, Phase
    <3> QED BY <2>8, <3>1 DEF Prove
  <2>9. CASE Publish(p)
    <3>1. view[p].snap = None
      BY <2>9 DEF Publish, IssueInv, IssuedAt
    <3> QED BY <2>9, <3>1 DEF Publish, Write, WriteFails
  <2>10. CASE Undo(p)    BY <2>10 DEF Undo
  <2> QED BY <1>4, <2>1, <2>2, <2>3, <2>4, <2>5, <2>6, <2>7, <2>8, <2>9, <2>10 DEF StartStep
<1>5. ASSUME NEW p \in Cmd, GiveUp(p) PROVE CarriesAll
  BY <1>5 DEF GiveUp, InspectPc
<1>6. ASSUME NEW p \in Cmd, Crash(p) PROVE CarriesAll
  BY <1>6 DEF Crash, Active, RestPc
<1>7. ASSUME NEW s \in Cmd, Exit(s) \/ ReplacePage(s) \/ Age(s) PROVE CarriesAll
  BY <1>7 DEF Exit, ReplacePage, Age
<1> QED BY <1>1, <1>2, <1>3, <1>4, <1>5, <1>6, <1>7 DEF SessionNext

\* Which is enough for the generations, if the step of a page command issues none.
LEMMA CarriedIssued ==
  ASSUME IssueInv, CarriesAll, UNCHANGED <<issued, ref, hit>>
  PROVE  IssueInv'
<1>1. Genuine(receipt)' /\ \A p \in Cmd : Genuine(view[p])'
  BY DEF IssueInv, IssuedAt, Genuine, CarriesAll, Carries
<1>2. \A p \in Cmd : IssuedAt(p)'
  BY <1>1 DEF IssueInv, IssuedAt, CarriesAll, Carries, Ended
<1> QED BY <1>1, <1>2 DEF IssueInv

\* A page command works from a receipt; one that drops the references writes none.
LEMMA Invalidates ==
  ASSUME Typed, NEW p \in Cmd, pc[p] \in PagePc, Invalidate(p)
  PROVE  receipt' = receipt \/ (receipt' # None /\ receipt'.snap = None)
<1>1. view[p] \in Receipt
  BY DEF Typed, TypeOK, ViewInv
<1>2. WithoutSnapshot(view[p]) \in Receipt /\ WithoutSnapshot(view[p]).snap = None
  BY <1>1, WithoutSnapshotType
<1> QED BY <1>2 DEF Invalidate, Write, WriteFails, stateDir

\* A step of a page command that issues nothing, aims at nothing and acts on nothing.
LEMMA PageCarries ==
  ASSUME Typed, PageTypeOK, IssueInv, NEW p \in Cmd,
         Open(p) \/ Navigate(p) \/ Read(p) \/ FinishRead(p) \/ After(p)
  PROVE  CarriesAll /\ UNCHANGED <<issued, ref, hit>>
<1> USE DEF CarriesAll, Carries, Typed, TypeOK, stateDir, Goto, End, Ended, Untouched, pageVars
<1>1. CASE Open(p)
  <2>1. view[p] \in Receipt
    BY <1>1 DEF Open, ViewInv, PagePc
  <2>2. WithoutSnapshot(view[p]) \in Receipt /\ WithoutSnapshot(view[p]).snap = None
    BY <2>1, WithoutSnapshotType
  <2> QED BY <1>1, <2>2 DEF Open, Write, WriteFails
<1>2. CASE Navigate(p)
  BY <1>2 DEF Navigate
<1>3. CASE Read(p)
  BY <1>3 DEF Read
<1>4. CASE FinishRead(p)
  BY <1>4, Invalidates DEF FinishRead, KeepReceipt, PagePc
<1>5. CASE After(p)
  BY <1>5, Invalidates DEF After, PagePc
<1> QED BY <1>1, <1>2, <1>3, <1>4, <1>5

\* The generation stored is one nobody has issued or was given before.
LEMMA StoreIssues ==
  ASSUME Typed, PageTypeOK, IssueInv, NEW p \in Cmd, Store(p)
  PROVE  /\ IssueInv' /\ issued[p] = None
         /\ receipt' # receipt => receipt'.snap # None /\ receipt'.snap.gen = p
<1>1. issued[p] = None /\ pc[p] = "store" /\ seen[p] \in Page /\ view[p] \in Receipt
  BY DEF Store, IssueInv, IssuedAt, Ended, PageTypeOK, Typed, TypeOK, ViewInv, PagePc
<1>2. /\ pc' = [pc EXCEPT ![p] = "done"] /\ view' = [view EXCEPT ![p] = None]
      /\ UNCHANGED <<ref, hit>>
  BY DEF Store, End
<1> DEFINE r == [view[p] EXCEPT !.snap = [gen |-> p, page |-> seen[p]]]
<1>3. r # None /\ r.snap # None /\ r.snap.gen = p /\ r.snap.page = seen[p]
  <2>1. [gen |-> p, page |-> seen[p]] \in Snapshot
    BY <1>1 DEF Snapshot
  <2>2. r \in Receipt /\ r.snap = [gen |-> p, page |-> seen[p]]
    BY <1>1, <2>1 DEF Receipt
  <2> QED BY <2>1, <2>2
<1>4. \/ receipt' = r /\ issued' = [issued EXCEPT ![p] = seen[p]]
      \/ receipt' = receipt /\ issued' = issued
  BY DEF Store, Write, WriteFails, stateDir
<1> HIDE DEF r
<1>5. /\ issued' \in [Cmd -> Page \cup {None}]
      /\ \A g \in Cmd : issued[g] # None => issued'[g] = issued[g]
      /\ \A g \in Cmd \ {p} : issued'[g] = issued[g]
  BY <1>1, <1>4 DEF IssueInv
<1>6. \A q \in Cmd \ {p} : pc'[q] = pc[q] /\ view'[q] = view[q]
  BY <1>2 DEF Typed, TypeOK
<1>7. pc'[p] = "done" /\ view'[p] = None
  BY <1>2 DEF Typed, TypeOK
<1>8. ASSUME NEW x \in Receipt \cup {None}, Genuine(x)
      PROVE  x # None /\ x.snap # None => issued'[x.snap.gen] = x.snap.page
  <2> SUFFICES ASSUME x # None, x.snap # None PROVE issued'[x.snap.gen] = x.snap.page
    OBVIOUS
  <2>1. x.snap.gen \in Cmd /\ x.snap.page \in Page
    BY DEF Receipt, Snapshot
  <2>2. issued[x.snap.gen] = x.snap.page
    BY <1>8 DEF Genuine
  <2> QED BY <2>1, <2>2, <1>5
<1>9. Genuine(receipt)'
  <2>1. CASE receipt' = r /\ issued' = [issued EXCEPT ![p] = seen[p]]
    BY <1>3, <2>1 DEF Genuine, IssueInv
  <2>2. CASE receipt' = receipt
    BY <1>8, <2>2 DEF Genuine, IssueInv, Typed, TypeOK
  <2> QED BY <1>4, <2>1, <2>2
<1>10. ASSUME NEW q \in Cmd PROVE IssuedAt(q)'
  <2>1. IssuedAt(q) /\ view[q] \in Receipt \cup {None}
    BY DEF IssueInv, Typed, TypeOK
  <2>2. Genuine(view[q])'
    BY <1>6, <1>7, <1>8, <2>1 DEF Genuine, IssuedAt
  <2>3. issued'[q] # None => Ended(q)'
    BY <1>5, <1>6, <1>7, <2>1 DEF IssuedAt, Ended
  <2>4. /\ pc'[q] = "publish" => view'[q].snap = None
        /\ pc'[q] \in {"aim", "dispatch"} => view'[q].snap # None /\ view'[q].snap.gen = ref'[q]
    BY <1>2, <1>6, <1>7, <2>1 DEF IssuedAt
  <2>5. hit'[q] # None =>
          /\ Ended(q)' \/ pc'[q] = "after"
          /\ ref'[q] \in Cmd /\ hit'[q] = issued'[ref'[q]]
    <3> SUFFICES ASSUME hit[q] # None
                 PROVE  /\ Ended(q)' \/ pc'[q] = "after"
                        /\ ref[q] \in Cmd /\ hit[q] = issued'[ref[q]]
      BY <1>2
    <3>1. (Ended(q) \/ pc[q] = "after") /\ ref[q] \in Cmd /\ hit[q] = issued[ref[q]]
      BY <2>1 DEF IssuedAt
    <3>2. issued'[ref[q]] = issued[ref[q]]
      BY <1>5, <3>1
    <3> QED BY <1>6, <1>7, <3>1, <3>2 DEF Ended
  <2> QED BY <2>2, <2>3, <2>4, <2>5 DEF IssuedAt
<1>11. IssueInv'
  BY <1>2, <1>5, <1>9, <1>10 DEF IssueInv
<1>12. receipt' # receipt => receipt'.snap # None /\ receipt'.snap.gen = p
  BY <1>3, <1>4
<1> QED BY <1>1, <1>11, <1>12

\* An act aims at the page of its reference, and dispatches to no other.
LEMMA ActIssues ==
  ASSUME Typed, PageTypeOK, IssueInv, NEW p \in Cmd, Resolve(p) \/ Aim(p) \/ Dispatch(p)
  PROVE  IssueInv' /\ (receipt' = receipt \/ (receipt' # None /\ receipt'.snap = None))
<1>1. /\ pc[p] \in {"page", "aim", "dispatch"} /\ view[p] \in Receipt
      /\ issued' = issued
  BY DEF Resolve, Aim, Dispatch, Unverified, Typed, TypeOK, ViewInv, PagePc, pageVars
<1>2. receipt' = receipt \/ (receipt' # None /\ receipt'.snap = None)
  BY <1>1, Invalidates DEF Resolve, Aim, Dispatch, Unverified, PagePc, stateDir
<1>3. IssuedAt(p) /\ hit[p] = None
  BY <1>1 DEF IssueInv, IssuedAt, Ended
<1>4. \A q \in Cmd \ {p} : /\ pc'[q] = pc[q] /\ view'[q] = view[q]
                           /\ ref'[q] = ref[q] /\ hit'[q] = hit[q]
  BY DEF Resolve, Aim, Dispatch, Unverified, Goto, End, Typed, TypeOK, IssueInv, pageVars
<1>5. /\ view'[p] = view[p] \/ view'[p] = None
      /\ pc'[p] \in {"aim", "dispatch", "after", "done"}
      /\ pc'[p] # "done" => view'[p] = view[p]
  BY DEF Resolve, Aim, Dispatch, Unverified, Goto, End, Typed, TypeOK
<1>6. /\ hit' \in [Cmd -> Page \cup {None}] /\ ref' \in [Cmd -> Cmd \cup {None}]
  BY ShownType, <1>1 DEF Resolve, Aim, Dispatch, Unverified, IssueInv, pageVars, Receipt
<1>7. pc'[p] \in {"aim", "dispatch"} => view'[p].snap # None /\ view'[p].snap.gen = ref'[p]
  <2>1. CASE Resolve(p)
    BY <2>1, <1>5 DEF Resolve, Resolves, Goto, End, IssueInv, Typed, TypeOK
  <2>2. CASE Aim(p)
    BY <2>2, <1>3, <1>5 DEF Aim, Unverified, IssuedAt, pageVars
  <2>3. CASE Dispatch(p)
    BY <2>3 DEF Dispatch, Unverified, Goto, End, Typed, TypeOK
  <2> QED BY <2>1, <2>2, <2>3
<1>8. hit'[p] # None =>
        /\ pc'[p] = "after"
        /\ ref'[p] \in Cmd /\ hit'[p] = issued'[ref'[p]]
  <2> SUFFICES ASSUME hit'[p] # None
               PROVE  /\ pc'[p] = "after"
                      /\ ref'[p] \in Cmd /\ hit'[p] = issued'[ref'[p]]
    OBVIOUS
  <2>1. Dispatch(p) /\ hit' = [hit EXCEPT ![p] = Shown(view[p].id)] /\ DispatchAdmits(p)
        /\ Goto(p, "after")
    BY <1>3 DEF Resolve, Aim, Dispatch, Unverified, pageVars
  <2>2. hit'[p] = view[p].snap.page /\ ref' = ref /\ pc[p] = "dispatch" /\ pc'[p] = "after"
    BY <2>1 DEF Dispatch, Unverified, DispatchAdmits, SamePage, IssueInv, Goto, Typed, TypeOK
  <2>3. view[p].snap # None /\ view[p].snap.gen = ref[p] /\ Genuine(view[p])
    BY <2>2, <1>3 DEF IssuedAt
  <2>4. ref[p] \in Cmd /\ view[p] # None
    BY <1>1, <2>3 DEF Receipt, Snapshot
  <2> QED BY <1>1, <2>2, <2>3, <2>4 DEF Genuine
<1>9. Genuine(receipt)'
  BY <1>1, <1>2 DEF Genuine, IssueInv
<1>10. ASSUME NEW q \in Cmd PROVE IssuedAt(q)'
  <2>1. CASE q = p
    BY <1>1, <1>3, <1>5, <1>7, <1>8, <2>1 DEF IssuedAt, Genuine, Ended
  <2>2. CASE q # p
    BY <1>1, <1>4, <2>2 DEF IssueInv, IssuedAt, Genuine, Ended
  <2> QED BY <2>1, <2>2
<1> QED BY <1>1, <1>2, <1>6, <1>9, <1>10 DEF IssueInv

Known == Typed /\ PageTypeOK /\ IssueInv

\* A step puts no generation in the lock but one that was never issued.
LEMMA StepIssues ==
  ASSUME Known, [Next]_vars
  PROVE  IssueInv' /\ \A g \in Cmd : Holds(g)' /\ ~Holds(g) => issued[g] = None
<1>1. CASE SessionNext /\ UNCHANGED pageVars
  <2>1. CarriesAll /\ UNCHANGED <<issued, ref, hit>>
    BY <1>1, SessionCarries DEF Known, pageVars
  <2> QED BY <2>1, CarriedIssued DEF Known, CarriesAll, Holds
<1>2. ASSUME NEW p \in Cmd, PageStep(p)
      PROVE  IssueInv' /\ \A g \in Cmd : Holds(g)' /\ ~Holds(g) => issued[g] = None
  <2>1. CASE Open(p) \/ Navigate(p) \/ Read(p) \/ FinishRead(p) \/ After(p)
    <3>1. CarriesAll /\ UNCHANGED <<issued, ref, hit>>
      BY <2>1, PageCarries DEF Known
    <3> QED BY <3>1, CarriedIssued DEF Known, CarriesAll, Holds
  <2>2. CASE Store(p)
    BY <2>2, StoreIssues DEF Known, Holds
  <2>3. CASE Resolve(p) \/ Aim(p) \/ Dispatch(p)
    BY <2>3, ActIssues DEF Known, Holds
  <2> QED BY <1>2, <2>1, <2>2, <2>3 DEF PageStep
<1>3. ASSUME NEW s \in Cmd, Wander(s)
      PROVE  IssueInv' /\ \A g \in Cmd : Holds(g)' /\ ~Holds(g) => issued[g] = None
  BY <1>3 DEF Wander, sessionVars, stateDir, Known, IssueInv, IssuedAt, Genuine, Ended, Holds
<1>4. CASE UNCHANGED vars
  BY <1>4 DEF vars, sessionVars, stateDir, pageVars, Known, IssueInv, IssuedAt, Genuine, Ended,
              Holds
<1> QED BY <1>1, <1>2, <1>3, <1>4 DEF Next

LEMMA IssuedInductive == Spec => []Known
<1>1. PageInit => Known
  BY InitTyped, InitIssued DEF Known
<1>2. Known /\ [Next]_vars => Known'
  <2> SUFFICES ASSUME Known, [Next]_vars PROVE Known'
    OBVIOUS
  <2>1. Typed' /\ PageTypeOK'
    BY StepTyped DEF Known
  <2>2. IssueInv'
    BY StepIssues
  <2> QED BY <2>1, <2>2 DEF Known
<1> QED BY <1>1, <1>2, PTL DEF Spec

\* Input reaches the document its reference was issued for, or nothing: for any
\* number of invocations, of any commands, whatever crashes, fails or navigates.
THEOREM HitsOnlyIssuedPage == Spec => []HitsIssuedPage
<1>1. Known => HitsIssuedPage
  BY DEF Known, IssueInv, IssuedAt, HitsIssuedPage
<1> QED BY <1>1, IssuedInductive, PTL

\* The step that NoReturn asks of every step.
ReturnsNone == \A g \in Cmd : Holds(g)' /\ ~Holds(g) => issued[g] = None

\* A generation that was dropped is in no receipt ever again.
THEOREM GenerationsStayDropped == Spec => NoReturn
<1>1. Known /\ [Next]_vars => [ReturnsNone]_vars
  BY StepIssues DEF ReturnsNone
<1>2. [][ReturnsNone]_vars <=> NoReturn
  BY DEF NoReturn, ReturnsNone
<1> QED BY <1>1, <1>2, IssuedInductive, PTL DEF Spec
=============================================================================
