---------------------------- MODULE WarmSession ----------------------------
(***************************************************************************)
(* The Browser Session of Warm Browser (packages/agent-browser, modules/   *)
(* warm-browser): `start`, `status` and `stop`, each an invocation of the  *)
(* CLI in a process of its own, over one private state directory.  A       *)
(* session is owned by whoever made session.lock; its receipt,             *)
(* session.json inside the lock, says what is to be stopped and removed;   *)
(* a cleanup renames the lock to .cleanup-<id> before it empties it.       *)
(*                                                                         *)
(* Invocations interleave between any two steps that read or change the    *)
(* state directory or the process table, and may die there.  A start makes *)
(* at most one session, so a session and its browser are named by the      *)
(* invocation that started them.                                           *)
(***************************************************************************)
EXTENDS Naturals

CONSTANTS
  Cmd,      \* invocations of the CLI
  None,     \* no invocation, no receipt, no snapshot
  Command,  \* what they may be asked to do, a subset of CommandName
  Fallen,   \* the invocations that ended before the behaviour begins
  Faults,   \* what the environment may do, a subset of FaultKind
  MaxTab    \* the bound on how often a browser's page is replaced by another

SessionCommand == {"start", "status", "stop"}
PageCommand == {"open", "adopt", "snapshot", "screenshot", "click", "login"}
CommandName == SessionCommand \cup PageCommand
FaultKind == {"crash", "io", "exit", "early", "slow", "race"}

ASSUME CmdAssumption == None \notin Cmd /\ Fallen \subseteq Cmd
ASSUME KindAssumption == Command \subseteq CommandName /\ Faults \subseteq FaultKind
ASSUME TabAssumption == MaxTab \in Nat

VARIABLES
  lock,    \* who made the directory at session.lock, or None
  receipt, \* session.json inside it, or None
  tomb,    \* the sessions whose .cleanup-<id> exists
  browser, \* the Chrome each start launched
  tab,     \* the page target each browser exposes
  aged,    \* the receipts older than startingTimeoutMs
  kind,    \* the command of each invocation
  view,    \* the receipt each invocation works from
  pc       \* the next step of each invocation

stateDir == <<lock, receipt, tomb>>
sessionVars == <<lock, receipt, tomb, browser, tab, aged, kind, view, pc>>

Phase == {"launching", "starting", "running"}
RestPc == {"idle", "done", "crashed"}
InspectPc == {"load", "look", "relook", "find", "refind", "owners", "verify",
              "replaced", "stoplook"}
RemovePc == {"kill", "remove", "rename", "dispose"}
StartPc == {"precheck", "acquire", "recheck", "intend", "spawn", "confirm",
            "record", "prove", "publish", "undo"}
PagePc == {"page", "navigate", "read", "store", "aim", "dispatch", "after"}

Page == [tab : Nat, doc : Nat]
Snapshot == [gen : Cmd, page : Page]
Receipt == [id : Cmd, phase : Phase, tab : Nat, snap : Snapshot \cup {None}]

ASSUME NoneAssumption == None \notin Page \cup Snapshot \cup Receipt

Active(p) == pc[p] \notin RestPc

\* A receipt as writeSessionState accepts it: only a running one may hold a
\* Snapshot Generation.
Fresh(s) == [id |-> s, phase |-> "launching", tab |-> 0, snap |-> None]
WithoutSnapshot(r) == [r EXCEPT !.snap = None]

\* The start is taken for abandoned.
Stale_Always(r) == TRUE
Stale(r) == aged[r.id]

Live(s) == browser[s] = "live"

-----------------------------------------------------------------------------
(* What an earlier session may have left: a receipt of any phase, with or   *)
(* without its browser.                                                     *)
Init ==
  /\ \/ lock = None /\ receipt = None
     \/ \E s \in Fallen, ph \in Phase :
          /\ lock = s
          /\ receipt = [Fresh(s) EXCEPT !.phase = ph]
  /\ tomb = {}
  /\ browser \in [Cmd -> {"none", "live", "gone"}]
  /\ \A s \in Cmd : browser[s] # "none" => lock = s
  /\ receipt # None => (receipt.phase # "launching" => browser[receipt.id] # "none")
  /\ tab = [s \in Cmd |-> 0]
  /\ aged = [s \in Cmd |-> FALSE]
  /\ kind = [p \in Cmd |-> None]
  /\ view = [p \in Cmd |-> None]
  /\ pc = [p \in Cmd |-> IF p \in Fallen THEN "done" ELSE "idle"]

Goto(p, l) == pc' = [pc EXCEPT ![p] = l] /\ UNCHANGED <<kind, view>>

\* The command answers its caller, and the process ends.
End(p) ==
  /\ pc' = [pc EXCEPT ![p] = "done"]
  /\ view' = [view EXCEPT ![p] = None]
  /\ UNCHANGED kind

\* writeSessionState replaces the receipt by path: it asks only that there is
\* a lock, not whose.
Writable == lock # None
Write(r) == Writable /\ receipt' = r /\ UNCHANGED <<lock, tomb>>
WriteFails == (~Writable \/ "io" \in Faults) /\ UNCHANGED stateDir

-----------------------------------------------------------------------------
(* execute, inspectSession.                                                *)

\* ensurePrivateState refuses beside a cleanup that has not finished.
Begin(p, c) ==
  /\ pc[p] = "idle"
  /\ kind' = [kind EXCEPT ![p] = c]
  /\ pc' = [pc EXCEPT ![p] = IF tomb = {} THEN "load" ELSE "done"]
  /\ UNCHANGED <<stateDir, browser, tab, aged, view>>

\* The lock and the receipt are read; a start that may still be at work, and a
\* lock that has no receipt, are refused.
Load(p) ==
  /\ pc[p] = "load"
  /\ IF lock = None
       THEN IF kind[p] = "start" THEN Goto(p, "precheck") ELSE End(p)
       ELSE IF receipt = None \/ (receipt.phase = "launching" /\ ~Stale(receipt))
         THEN End(p)
         ELSE /\ view' = [view EXCEPT ![p] = receipt]
              /\ pc' = [pc EXCEPT ![p] = IF receipt.phase = "launching" THEN "find" ELSE "look"]
              /\ UNCHANGED kind
  /\ UNCHANGED <<stateDir, browser, tab, aged>>

\* inspectProcess, once for a running session and twice for an abandoned start.
Look(p) ==
  /\ pc[p] = "look"
  /\ LET r == view[p] IN
       IF ~Live(r.id) THEN Goto(p, "remove")
       ELSE IF r.phase = "running" THEN Goto(p, "verify")
       ELSE IF Stale(r) THEN Goto(p, "relook") ELSE End(p)
  /\ UNCHANGED <<stateDir, browser, tab, aged>>

LookAgain(p) ==
  /\ pc[p] \in {"relook", "stoplook"}
  /\ Goto(p, IF Live(view[p].id) THEN "kill" ELSE "remove")
  /\ UNCHANGED <<stateDir, browser, tab, aged>>

\* recoverLaunching looks for the launch marker, twice before it signals.
Find(p) ==
  /\ pc[p] \in {"find", "refind"}
  /\ Goto(p, IF ~Live(view[p].id) THEN "owners"
             ELSE IF pc[p] = "find" THEN "refind" ELSE "kill")
  /\ UNCHANGED <<stateDir, browser, tab, aged>>

\* recoverAbsentLaunch: nobody owns the profile either.
FindOwners(p) ==
  /\ pc[p] = "owners"
  /\ IF \E s \in Cmd : Live(s) THEN End(p) ELSE Goto(p, "remove")
  /\ UNCHANGED <<stateDir, browser, tab, aged>>

\* What the command asked for goes on from a running session: status, and a
\* start that finds one, answer; stop looks at the process once more; a page
\* command has its Controlled Page.
Status(p) == kind[p] \in {"start", "status"} /\ End(p)
Stop(p) == kind[p] = "stop" /\ Goto(p, "stoplook")
RequireControlledPage(p) == kind[p] \in PageCommand /\ Goto(p, "page")

\* A running session whose endpoint answers: the command it was inspected for
\* goes on, unless its page has been replaced by another.
Verify(p) ==
  /\ pc[p] = "verify"
  /\ LET r == view[p]
         same == tab[r.id] = r.tab IN
       /\ Live(r.id)
       /\ \/ same /\ (Status(p) \/ Stop(p) \/ RequireControlledPage(p))
          \/ /\ ~same /\ kind[p] = "adopt"
             /\ view' = [view EXCEPT ![p].tab = tab[r.id]]
             /\ pc' = [pc EXCEPT ![p] = "replaced"]
             /\ UNCHANGED kind
          \/ ~same /\ kind[p] # "adopt" /\ r.snap # None /\ Goto(p, "replaced")
          \/ ~same /\ kind[p] # "adopt" /\ r.snap = None /\ End(p)
  /\ UNCHANGED <<stateDir, browser, tab, aged>>

\* The page was replaced: adopt-page binds the new one, any other command is
\* refused; either way no reference survives.
Replaced(p) ==
  /\ pc[p] = "replaced"
  /\ LET r == WithoutSnapshot(view[p]) IN
       \/ /\ Write(r)
          /\ IF kind[p] = "adopt"
               THEN /\ view' = [view EXCEPT ![p] = r]
                    /\ pc' = [pc EXCEPT ![p] = "page"]
                    /\ UNCHANGED kind
               ELSE End(p)
       \/ WriteFails /\ End(p)
  /\ UNCHANGED <<browser, tab, aged>>

-----------------------------------------------------------------------------
(* Stopping a browser and removing its state.                              *)

\* terminateProcessGroup proves the process once more before it signals: one
\* that is no longer there is a failure.
Kill(p) ==
  /\ pc[p] = "kill"
  /\ LET s == view[p].id IN
       \/ Live(s) /\ browser' = [browser EXCEPT ![s] = "gone"] /\ Goto(p, "remove")
       \/ ~Live(s) /\ UNCHANGED browser /\ End(p)
  /\ UNCHANGED <<stateDir, tab, aged>>

RemoveAdmits_AnySession(p) == lock # None /\ receipt # None /\ view[p].id \notin tomb
RemoveAdmits(p) ==
  /\ lock # None /\ receipt # None
  /\ receipt.id = view[p].id
  /\ view[p].id \notin tomb

Detach(p) ==
  /\ tomb' = tomb \cup {view[p].id}
  /\ lock' = None
  /\ receipt' = None
  /\ Goto(p, "dispose")

\* removeOwnedState reads the receipt again and renames the lock away, by path;
\* under "race" another process may act between its read and its rename, and the
\* lock renamed may be that of a session which began meanwhile.
Remove(p) ==
  /\ pc[p] = "remove"
  /\ \/ ~RemoveAdmits(p) /\ End(p) /\ UNCHANGED stateDir
     \/ RemoveAdmits(p) /\ Detach(p)
     \/ RemoveAdmits(p) /\ "race" \in Faults /\ Goto(p, "rename") /\ UNCHANGED stateDir
  /\ UNCHANGED <<browser, tab, aged>>

Rename(p) ==
  /\ pc[p] = "rename"
  /\ \/ lock # None /\ Detach(p)
     \/ lock = None /\ End(p) /\ UNCHANGED stateDir
  /\ UNCHANGED <<browser, tab, aged>>

\* The detached directory is emptied and removed; one that cannot be stays for
\* a human to repair.  A start that recovered a session goes on.
Dispose(p) ==
  /\ pc[p] = "dispose"
  /\ \/ /\ tomb' = tomb \ {view[p].id}
        /\ IF kind[p] = "start" /\ view[p].id # p THEN Goto(p, "precheck") ELSE End(p)
     \/ "io" \in Faults /\ UNCHANGED tomb /\ End(p)
  /\ UNCHANGED <<lock, receipt, browser, tab, aged>>

-----------------------------------------------------------------------------
(* start.                                                                  *)

\* findProfileProcesses, inspectPort: a browser that lives is in the way.
Precheck(p) ==
  /\ pc[p] = "precheck"
  /\ IF \E s \in Cmd : Live(s) THEN End(p) ELSE Goto(p, "acquire")
  /\ UNCHANGED <<stateDir, browser, tab, aged>>

\* rmdir, which leaves a lock that has something in it.
GiveBack == lock' = IF receipt = None THEN None ELSE lock

\* acquireSessionLock: mkdir, and a look for tombstones after it.
Acquire_TakesOver(p) ==
  /\ pc[p] = "acquire"
  /\ lock' = p /\ Goto(p, "recheck")
  /\ UNCHANGED <<receipt, tomb, browser, tab, aged>>

Acquire(p) ==
  /\ pc[p] = "acquire"
  /\ \/ lock = None /\ lock' = p /\ Goto(p, "recheck")
     \/ lock # None /\ UNCHANGED lock /\ End(p)
  /\ UNCHANGED <<receipt, tomb, browser, tab, aged>>

Recheck_Skipped(p) ==
  /\ pc[p] = "recheck"
  /\ Goto(p, "intend")
  /\ UNCHANGED <<stateDir, browser, tab, aged>>

Recheck(p) ==
  /\ pc[p] = "recheck"
  /\ IF tomb = {} THEN Goto(p, "intend") /\ UNCHANGED lock
     ELSE GiveBack /\ End(p)
  /\ UNCHANGED <<receipt, tomb, browser, tab, aged>>

\* The launch is on record before it happens.
Intend(p) ==
  /\ pc[p] = "intend"
  /\ \/ /\ Write(Fresh(p))
        /\ view' = [view EXCEPT ![p] = Fresh(p)]
        /\ pc' = [pc EXCEPT ![p] = "spawn"]
        /\ UNCHANGED kind
     \/ /\ ~Writable \/ "io" \in Faults
        /\ GiveBack
        /\ End(p)
        /\ UNCHANGED <<receipt, tomb>>
  /\ UNCHANGED <<browser, tab, aged>>

Spawn(p) ==
  /\ pc[p] = "spawn"
  /\ \/ browser' = [browser EXCEPT ![p] = "live"] /\ Goto(p, "confirm")
     \/ "io" \in Faults /\ UNCHANGED browser /\ Goto(p, "remove")
  /\ UNCHANGED <<stateDir, tab, aged>>

\* A launch that cannot be confirmed is left for a recovery to prove.
Confirm(p) ==
  /\ pc[p] = "confirm"
  /\ IF Live(p) THEN Goto(p, "record") ELSE End(p)
  /\ UNCHANGED <<stateDir, browser, tab, aged>>

Record(p) ==
  /\ pc[p] = "record"
  /\ \/ Write([Fresh(p) EXCEPT !.phase = "starting"]) /\ Goto(p, "prove")
     \/ WriteFails /\ Goto(p, "undo")
  /\ UNCHANGED <<browser, tab, aged>>

\* verifyEndpoint: a browser that is not verified is rolled back.
Prove(p) ==
  /\ pc[p] = "prove"
  /\ \/ /\ Live(p)
        /\ view' = [view EXCEPT ![p] = [id |-> p, phase |-> "running", tab |-> tab[p],
                                        snap |-> None]]
        /\ pc' = [pc EXCEPT ![p] = "publish"]
        /\ UNCHANGED kind
     \/ (~Live(p) \/ "io" \in Faults) /\ Goto(p, "undo")
  /\ UNCHANGED <<stateDir, browser, tab, aged>>

Publish(p) ==
  /\ pc[p] = "publish"
  /\ \/ Write(view[p]) /\ End(p)
     \/ WriteFails /\ Goto(p, "undo")
  /\ UNCHANGED <<browser, tab, aged>>

\* The rollback stops what start itself launched, then removes its state.
Undo(p) ==
  /\ pc[p] = "undo"
  /\ \/ Live(p) /\ browser' = [browser EXCEPT ![p] = "gone"] /\ Goto(p, "remove")
     \/ ~Live(p) /\ UNCHANGED browser /\ End(p)
  /\ UNCHANGED <<stateDir, tab, aged>>

-----------------------------------------------------------------------------
(* The world.                                                              *)

\* A reading of the process table, the listener or the endpoint that proves
\* nothing, or a signal whose effect is not observed: refused, nothing written.
GiveUp(p) ==
  /\ "io" \in Faults
  /\ pc[p] \in (InspectPc \ {"replaced"}) \cup {"kill", "precheck", "acquire", "confirm", "prove", "undo"}
  /\ End(p)
  /\ UNCHANGED <<stateDir, browser, tab, aged>>

Crash(p) ==
  /\ "crash" \in Faults /\ Active(p)
  /\ pc' = [pc EXCEPT ![p] = "crashed"]
  /\ view' = [view EXCEPT ![p] = None]
  /\ UNCHANGED <<stateDir, browser, tab, aged, kind>>

\* The person at the machine quits the browser; under "early", also while its
\* start is still at work.
Exit(s) ==
  /\ Live(s)
  /\ (IF Active(s) THEN "early" ELSE "exit") \in Faults
  /\ browser' = [browser EXCEPT ![s] = "gone"]
  /\ UNCHANGED <<stateDir, tab, aged, kind, view, pc>>

\* The page is closed and another takes its place.
ReplacePage(s) ==
  /\ Live(s) /\ tab[s] < MaxTab
  /\ tab' = [tab EXCEPT ![s] = @ + 1]
  /\ UNCHANGED <<stateDir, browser, aged, kind, view, pc>>

\* startingTimeoutMs is twice what a start may take by its own bounds, so a
\* start that is still at work outlives it only when something those bounds do
\* not count is slow.
Age(s) ==
  /\ ~aged[s]
  /\ receipt # None /\ receipt.id = s /\ receipt.phase # "running"
  /\ Active(s) => "slow" \in Faults
  /\ aged' = [aged EXCEPT ![s] = TRUE]
  /\ UNCHANGED <<stateDir, browser, tab, kind, view, pc>>

Inspect(p) == Load(p) \/ Look(p) \/ LookAgain(p) \/ Find(p) \/ FindOwners(p)
                \/ Verify(p) \/ Replaced(p)
Recover(p) == Kill(p) \/ Remove(p) \/ Rename(p) \/ Dispose(p)
StartStep(p) == Precheck(p) \/ Acquire(p) \/ Recheck(p) \/ Intend(p) \/ Spawn(p)
                  \/ Confirm(p) \/ Record(p) \/ Prove(p) \/ Publish(p) \/ Undo(p)

SessionNext ==
  \/ \E p \in Cmd :
       \/ \E c \in Command : Begin(p, c)
       \/ Inspect(p) \/ Recover(p) \/ StartStep(p)
       \/ GiveUp(p) \/ Crash(p)
  \/ \E s \in Cmd : Exit(s) \/ ReplacePage(s) \/ Age(s)

SessionSpec == Init /\ [][SessionNext]_sessionVars
-----------------------------------------------------------------------------
(* Properties.                                                             *)

\* The type of every variable: the receipt lies in the lock, and only a running
\* one holds a Snapshot Generation (stateShape).
TypeOK ==
  /\ lock \in Cmd \cup {None}
  /\ receipt \in Receipt \cup {None}
  /\ receipt # None => lock # None /\ (receipt.snap # None => receipt.phase = "running")
  /\ tomb \subseteq Cmd
  /\ browser \in [Cmd -> {"none", "live", "gone"}]
  /\ tab \in [Cmd -> Nat]
  /\ aged \in [Cmd -> BOOLEAN]
  /\ kind \in [Cmd -> Command \cup {None}]
  /\ view \in [Cmd -> Receipt \cup {None}]
  /\ pc \in [Cmd -> RestPc \cup InspectPc \cup RemovePc \cup StartPc \cup PagePc]

\* No browser that Warm Browser launched is left "holding the Agent Chrome
\* Profile with nothing accounting for it" (recoverAbsentLaunch): whoever dies
\* and whatever fails, its receipt is in place for as long as it lives.
Accounted == \A s \in Cmd : Live(s) => receipt # None /\ receipt.id = s

\* Two starts, however they interleave with recoveries, never both launch.
OneBrowser == \A s, t \in Cmd : Live(s) /\ Live(t) => s = t

\* A starter never becomes "a second owner beside a session whose cleanup has
\* not finished" (acquireSessionLock).
NoSecondOwner == receipt # None => tomb = {}

\* "An active transaction" is never taken for abandoned and undone by another
\* command (bounds.ts): from its launch intent to its last receipt, and for as
\* long as its browser has not gone, a start finds its receipt in its lock.
LiveStartKept ==
  \A p \in Cmd :
    pc[p] \in {"spawn", "confirm", "record", "prove", "publish", "undo"} /\ browser[p] # "gone"
      => lock = p /\ receipt # None /\ receipt.id = p
-----------------------------------------------------------------------------
(* Why the session is safe: an inductive invariant, for session commands     *)
(* alone, starts that keep to their bounds, a browser that nobody quits      *)
(* while its start is at work, and removals whose read and rename are not    *)
(* interrupted.                                                              *)
Orderly == Command \subseteq SessionCommand /\ Faults \cap {"early", "slow", "race"} = {}

Ended(p) == pc[p] \in {"done", "crashed"}
Own(p) == view[p] # None /\ view[p].id = p

\* Past its launch intent, a start has its own session in view until it ends.
Launched(p) ==
  \/ pc[p] \in {"spawn", "confirm", "record", "prove", "publish", "undo"} /\ Own(p)
  \/ pc[p] \in {"remove", "dispose"} /\ Own(p)
  \/ Ended(p)

\* What is on record, or in view, was launched; and has ended once it is
\* running or old.
RecordInv ==
  receipt # None =>
    /\ Launched(receipt.id)
    /\ receipt.snap = None
    /\ receipt.phase = "running" => Ended(receipt.id)
    /\ receipt.phase # "launching" => browser[receipt.id] # "none"

ViewAt(p) ==
  /\ view[p] # None =>
       /\ Launched(view[p].id)
       /\ view[p].snap = None
       /\ view[p].phase = "running" /\ ~Own(p) => Ended(view[p].id)
       /\ view[p].phase # "launching" => browser[view[p].id] # "none"
  /\ aged[p] => Ended(p)
  /\ browser[p] # "none" => Launched(p)

\* A start owns the lock from its mkdir to its last write.
StartAt(p) ==
  /\ pc[p] \in {"recheck", "intend"} => lock = p /\ receipt = None
  /\ pc[p] = "intend" => tomb = {}
  /\ pc[p] \in {"spawn", "confirm", "record", "prove", "publish", "undo"} =>
       /\ Own(p)
       /\ lock = p
       /\ receipt # None
       /\ receipt.id = p
       /\ browser[p] = IF pc[p] = "spawn" THEN "none" ELSE "live"

\* A session is stopped or removed by others only once its start has ended, or
\* its browser has gone; and removed only then.
RecoveryAt(p) ==
  /\ pc[p] \in {"relook", "find", "refind", "owners", "verify", "stoplook", "kill",
                "remove", "dispose"} /\ ~Own(p)
       => Ended(view[p].id) \/ browser[view[p].id] = "gone"
  /\ pc[p] = "look" => view[p].phase # "launching"
  /\ pc[p] = "verify" => view[p].phase = "running"
  /\ pc[p] \in {"remove", "dispose"} => ~Live(view[p].id)
  /\ pc[p] \notin PagePc \cup {"replaced", "rename"}
  /\ Active(p) => kind[p] \in SessionCommand

\* The invariant the proofs of WarmSessionProofs are by induction on.
SessionInv ==
  /\ Accounted
  /\ NoSecondOwner
  /\ RecordInv
  /\ \A p \in Cmd : ViewAt(p) /\ StartAt(p) /\ RecoveryAt(p)
=============================================================================
