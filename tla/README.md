# Verification of my-second-brain-plugin

TLA+ models of the parts of this repository that run beside each other, die
half-way or keep state on disk; the TLC runs that check them on small
instances; and the TLAPS proofs of what holds for every instance. Paths are
relative to the repository root. `PROJECT.json` is the index: it maps every
definition to the lines it models and lists the runs, the hazards, the findings
and the theorems.

1. [The system](#1-the-system)
2. [Runtime custody](#2-runtime-custody)
3. [Frontier Runner](#3-frontier-runner)
4. [Warm Browser](#4-warm-browser)
5. [Claude development installation](#5-claude-development-installation)
6. [Codex production update](#6-codex-production-update)
7. [Private Delivery](#7-private-delivery)
8. [Codex development installation](#8-codex-development-installation)
9. [From the sources to what users install](#9-from-the-sources-to-what-users-install)
10. [The runs](#10-the-runs)
11. [The proofs](#11-the-proofs)
12. [Where the code and its documents disagree](#12-where-the-code-and-its-documents-disagree)
13. [What the models show besides](#13-what-the-models-show-besides)
14. [What is not modelled](#14-what-is-not-modelled)
15. [Plan](#15-plan)

## 1. The system

The plugin ships three programs and is built, installed and released by a
fourth group of scripts. None of them is a server: every operation is one
invocation of a command, and what makes the system concurrent is that several
invocations share private state on disk and outlive, interrupt or repeat each
other.

| Component | State it keeps | Operations | What is hard |
|---|---|---|---|
| **Runtime custody: repair** `plugin/runtime/runtime-exec` | one cache shared by all hosts' installations: lock directory, record, reclaim claims, staging, blob | `repair --apply`: acquire or reclaim the lock, download, verify, publish, release | contention, stale locks of dead runs and of other hosts, crashes between any two file operations, damaged caches |
| **Runtime custody: run** same file | none; reads the cache and the plugin payload | `run <skill>`: load projections, check the bundle, assess, probe, exec | no lock: the cache and the payload change between the check and the exec |
| **Frontier Runner** `packages/frontier-runner` | one private receipt per bounded run; panes and agents in Herdr | `run`, `respond`, `resume`, `review`, `decide`, `repair`, `cleanup` | answers that prove nothing, crashes around every effect, agents that act on their own, people at the terminal |
| **Warm Browser session** `packages/agent-browser/.../warm-browser` | `session.lock`, `session.json`, `.cleanup-<id>`, a Chrome process | `start`, `status`, `stop`, and the recovery each begins with | two starts, abandoned starts, cleanups that stop half-way, processes that vanish |
| **Warm Browser pages** same module | the Snapshot Generation in the receipt; the page in Chrome | `open`, `adopt-page`, `snapshot`, `screenshot`, `click`, `fill`, `login` | the page moves between the proof and the act; whole-receipt writes without a lock |
| **Private Delivery** `packages/agent-browser/.../private-delivery` | none; a disposable child with one credential | `login`'s delivery through the vault | what each partial failure may claim to have delivered |
| **Claude development installation** `scripts/claude-development-installation.ts` | the harness profile and a durable snapshot of it | `install`, `restore` | native mutations recorded after they are done; a capture over a capture |
| **Codex development installation** `scripts/codex-development-installation.ts` | the harness profile, staging in the checkout | `check`, `install` | several checkouts under one Marketplace name; drift between preview and apply |
| **Codex production update** `scripts/codex-production-update.ts` | the harness profile | `update` | four native mutations, and a restoration that may itself fail |
| **Harness install proofs** `scripts/prove-harness-install.ts` and helpers | a scratch profile | a proof with an injected failure | a client that succeeds without having done its work |
| **Build** `scripts/build.ts`, `build-receipt.ts` | `plugin/`, the build receipt | admission of the dependencies, bundling, materialization, freshness | a build that stops half-way; a lock that is circular |
| **Package** `scripts/package-adapter.ts` | the checkout of the Kit, its link, `dist/` | `package` | shared checkout and link, no lock; what a failed publication may claim |
| **Release automation** `.github/workflows/release*.yml`, `scripts/release-validate.ts` | tag, admission artifacts, Release, attestations, labels at GitHub | publish, resume, repair | jobs that fail anywhere and are run again beside other runs |
| **Hosted canary** `scripts/ship-canary.ts`, `canary.yml` | two canary repositories | `--execute` | races for the refs, hosted runs that are re-run |
| **Codex review gate** `.github/workflows/codex-review-gate.yml` | the status of each commit | initialize, request, approve | jobs, pushes and findings in any order |
| **Repository readiness**, **custody generation**, **native capability hook**, **portable command**, **scaffolding** | files they render | validate, classify, render | sequential transformations |

How they interact. A skill's entry point (`plugin/bin/*`) execs
`runtime-exec run`, which execs the pinned Bun runtime on the skill's bundle;
`repair --apply` is the only writer of that runtime. Frontier Runner and Warm
Browser are such skills. Frontier Runner drives Herdr (a terminal multiplexer
that also starts agents) by one call at a time and learns of the agents only
through what Herdr answers. Warm Browser drives Chrome over the DevTools
protocol and learns of it through the process table, the port and the
endpoint; for a `login` it hands the page to Private Delivery, whose child enters
the credential. The build, package and release scripts lead from the sources to
an archive; the installation scripts put its payload in place, which is what
`run` reads. None of them touches a program that runs.

What makes each correct, as far as it is modelled:

- **repair**: one writer at a time whatever dies; a live writer's lock and
  staging are never taken; a verified runtime is never removed by custody; a
  reported success is true; contention alone never makes everybody give up.
- **run**: what is started is what was verified.
- **Frontier Runner**: nothing is sent to an agent twice; what may have
  happened is on the receipt; a receipt can be read back; a decision or repair
  rests on proved bytes and on a matching verdict; a run reported cleaned is clean.
- **Claude development installation**: what an install took away can be put
  back, whatever died in between; another checkout's installation is left alone.
- **Codex production update**: nothing is removed that was not proved to come
  back; what is reported of the profile is true; what failed is restored exactly.
- **Private Delivery**: what is reported delivered was entered where it was
  asked for, and an unknown is never reported as unchanged.
- **Codex development installation**: what is reported installed is what was
  previewed, and a refusal has changed nothing.
- **Build, package, release, canary**: what is called fresh, packaged, published
  or qualified is exactly what was made, whoever else was at work.
- **Harness install proofs**: a client that misbehaves does not pass.
- **Warm Browser**: a browser that lives is accounted for, there is one of
  them, a start at work is not undone, input reaches the document its
  reference was issued for.

Each model is written the same way. A process is one invocation of a command;
an action is one operation that other invocations or a crash can tell apart (a
file-system operation, a write of the receipt, a call to Herdr, a reading of
the process table or of the page); `pc` says which operation comes next. Faults
are the members of a constant (`Faults`; in Frontier Runner a member of
`Settings`), so that a configuration says what the environment may do. A definition named `X_Y` beside a definition `X` is a
plausible mistake in `X`: replacing `X` by it must make a property fail, which
shows that the property depends on what the code does there.

## 2. Runtime custody

| Module | What it is |
|---|---|
| `RuntimeCustody` | `repair --apply`: the lock, its reclamation, staging, publication and release |
| `RuntimeStore` | what custody promises to everybody who shares the cache: a writer, and a blob only it changes |
| `RuntimeLaunch` | `run`, over `RuntimeStore` |
| `RuntimeCustodyProofs`, `HostProofs` | the theorems, of `repair` and of `run` |
| `MCRuntimeCustody`, `MCHost` | instances for TLC; `MCHost` holds `RuntimeLaunch` beside the installations (section 10) |

**State.** `lock` is the directory at `$lock_dir`. A run makes at most one lock
directory, so directories are named by their creators; what the script itself
sees is an inode (`ino`), the record inside (`record`), the reclaim claim
(`marker`, `.reclaim-claim`), the private claim records (`crec`,
`.reclaim-record-<nonce>`) and whether the directory's mtime is older than the
recordless grace (`old`; `Touch` is what any change of entries does to it).
`claimed` are the directories renamed to `reclaim-<nonce>`, `stage` the staging
directories, `blob` what `assess_blob` would say. `attempts`, `rec`, `erec` and
`eino` are the shell's variables: they are stale as soon as they are read,
which is where the hazards are. `out` is the code of the control object.

**Actions.** One per file-system operation of `acquire_lock`,
`reclaim_stale_lock`, `do_apply` and `release_lock`, in their order:
`MkdirOk`/`MkdirFails`, `PublishRecord`, `CheckExists`, `ReadRecord`,
`ReadIdentity`, `Judge`, `WriteClaim`, `Claim`/`ClaimFails`/`ClaimLost`,
`DropClaimRecord`, `RereadRecord`, `CompareIdentity`, `RemoveMarker`,
`AbandonClaim`, `Rename`, `SweepStaging`, `ScrapClaimed`; then `Recheck`,
`MakeStage`, `Download`, `Verify`, `ClearDestination`, `MoveStaged`,
`ReverifyBlob`, `UnlinkBlob`, `TidyStage`; then `ClearLock`, `RemoveLock`. The
environment: `Crash` (the shell installs no trap), `Age`, `Tamper`, and
`HumanRemovesMarker`, the approved removal that the skill's document describes.

**Faults.** `crash`; `io` (a file-system operation fails); `net` (the download
fails or is not what was pinned); `tamper` (the cached blob is damaged);
`slow` (a live writer stays recordless longer than the grace); `reuse` (the
file system hands out a freed inode again). `Age` is only constrained without
`slow`: the grace is longer than the windows in which a live lock has no
record. A foreign lock is reclaimed only by a run that a human approved, while
nobody on the other host is at work (`ForeignQuiet`, the premise under which
`--reclaim-foreign-lock` is offered).

**Launches.** `RuntimeLaunch` keeps `RuntimeStore`'s actions and adds launches
that read the payload's projections, check the bundle against the inventory,
assess the blob, probe its version and exec it, each a step, beside updates of
the payload and damage. What was verified and what is started are compared in
`LaunchedVerified`.

**A known limit.** A freed inode looks like the lock that was judged. The code
compares the inode number and, where there is one, the record
(`runtime-exec:637-646`, rename at 660); a lock without a record has only its
inode, and a file system may hand that number out again at once. With
`Faults = {"reuse"}`, one dead and two live runs, two inodes and three attempts
TLC finds `OnlyOwnerReleases` violated: the reclaimer renames the fresh lock of
a live writer that has not yet published its record. The theorems have this as
the premise `Steady`.

## 3. Frontier Runner

| Module | What it is |
|---|---|
| `FrontierReceipt` | the receipt, and `Readable`: `isReceipt` with `receiptStateInvariants` |
| `FrontierRunner` | the seven commands, Herdr, the agents and the people |
| `FrontierLedger` | what a receipt promises its operator: proved, judged once, one licensed act, closed |
| `FrontierRunnerProofs` | the theorems |
| `MCFrontierRunner` | instances for TLC |

**State.** `receipt` is the file, `mem` the copy a command read and works on:
commands write their whole copy back, so every write may undo another's. A
command is at `pc` with the effect `eff`; `reply` is what Herdr last told it.
Herdr's side is `panes`, `born`, `host` and `status`; the agents' side is
`work` (the bytes in the workspace), `printed` and `verdicts` (the markers they
printed). `sent` counts how often each effect that must not recur was handed to
Herdr; it is a history variable that no action reads.

**Actions.** `Create` and `Run` are `createReceipt`, which makes the file under its
own name and then writes it in place (`torn` in between); `Begin` starts any other command; `Check*` are its admission and
first observation; `Mark` writes "unknown" before an effect, `Call` is the
Herdr call, `Record*` write what came of it; `Observe`, `WaitSettles`,
`WaitTimesOut`, `LookAgain` and `Prove*` are the reconciliation with the
agents; `MarkDecision`, `ConfirmDecision`, `ConfirmRepair`, `ResumeDecision`,
`MarkClose`, `MarkCleaned`, `Complete` finish the others. `GiveUp` is a query
that fails or a check that refuses: the command ends and writes nothing.

**Abstractions.**
- A hash is what it is a hash of; a candidate hash is the whole workspace.
- Herdr's `idle` and `done` are one status (the code treats them alike); a
  status the code cannot read falls under `GiveUp`.
- A Herdr call with its retries is one call; a proof step reads the transcript,
  hashes and writes in one step, because only the write is visible to others and
  the reading is of append-only output; `Check*` takes the observation and the
  first write together for the same reason. Edits between hashing and the next
  write are covered by the steps that follow it.
- A verdict `cancelled` is a `reject`: the code tells neither from the other.
- People close panes (`close`) only in configurations where Herdr's calls may
  also lack effect (`dropped`), which is what a call to a closed pane is.
- `cleanup`'s refusal to close the caller's own pane is `GiveUp`.

**Receipts that cannot be read back.** `Readable` is what `readReceipt` demands
of a receipt; a command that leaves one which fails it has lost the run, since
`resume` and `cleanup` both refuse with `RECEIPT_INVALID`. `ReadableBesides`
says that a written receipt is refused in five shapes only, each named in the
module, and that the first two (`Halfway`) are left only by a command that was cut
short: no command leaves one by its last write. The other three (`DeadEnd`) are left
by commands that came to their end. The property does not deny the five; it says that
there is no other way to lose a run that was begun.

| Shape | How it comes about | Where (`main.ts`) |
|---|---|---|
| `WaitedAgain` | a wait timed out, a resumed wait succeeds, and the observation that would change the state fails | 1677 |
| `RepairPrompted` | the repair prompt is acknowledged and the same command cannot prove the worker | 2778 |
| `AskedAgain` | an agent asks again after its one answer (see section 12) | 1746, 2577 |
| `NeverPrompted` | a run that died between starting its worker and prompting it is resumed | 1773 |
| `Reopened` | a worker blocks during its repair before a resume has seen it, and `respond` takes it for the worker of the first run; or a resume completes a reviewed run anew | 1961, 2959 |

A sixth leftover is no receipt at all: `createReceipt` opens the final path
exclusively and writes in place (`main.ts:963`), where every later write goes
through a temporary file and a rename. A `run` that dies or fails in between leaves a
file that was not written to its end. No command can read it, and the same `run`
answers `RUN_ALREADY_EXISTS` from then on and advises the `resume` that cannot read
it either. `ReadableBesides` says what it costs: nothing had been handed to Herdr
and no pane was made.

## 4. Warm Browser

| Module | What it is |
|---|---|
| `WarmSession` | `start`, `status`, `stop`, the recovery every command begins with |
| `WarmPage` | the page commands, over `WarmSession` |
| `WarmSessionProofs` | the theorems |
| `MCWarmPage` | instances for TLC |

**State.** `lock`, `receipt` and `tomb` are `session.lock`, the `session.json`
inside it and the `.cleanup-<id>` directories. A start makes at most one
session, so a session and its Chrome are named by the invocation that started
them: `browser` is the process table, `tab` the page target the browser
exposes, `aged` whether the receipt is older than `startingTimeoutMs`. `view`
is the receipt an invocation loaded and works from. `WarmPage` adds the
document a page shows (`doc`), the page each published Snapshot Generation was
taken of (`issued`), what a reading saw before it began (`seen`), the
generation of an act's reference (`ref`) and the page that showed when its
input was dispatched (`hit`, a history variable).

**Actions.** `Load`, `Look`, `LookAgain`, `Find`, `FindOwners`, `Verify` are
`inspectSession` and its recoveries; `Kill`, `Remove`, `Rename`, `Dispose` are
`terminateProcessGroupWithEscalation` and `removeOwnedState`; `Precheck` to `Publish` and
`Undo` are `start`. The page commands are `Open`/`Navigate`,
`Read`/`FinishRead`/`Store`, `Resolve`/`Aim`/`Dispatch`/`After`. The world:
`GiveUp` (a reading that proves nothing), `Crash`, `Exit` (the browser is
quit), `ReplacePage`, `Wander` (the page navigates), `Age`.

**Abstractions and premises.**
- A pid names its process: the code compares start times and command lines.
- `verifyEndpoint`'s missing or ambiguous page is `GiveUp`. A `stop` of a session
  whose page was replaced is refused, as in the code.
- `click` stands for `fill`; `login` proves the page the same way and always
  drops the generation afterwards.
- `Dispatch` takes the last readings of the node and the input as one step: the
  DevTools protocol has no conditional input, so the code cannot close that window.
- `OpenControlledPage` is the page proof all commands share; `Reading` are those
  that take a new generation, `click` and `login` those that use one.
- Screenshot files, the identities of elements and the age of a reference are left out.
- Three faults are premises of the lifecycle run, because the code itself
  relies on them: no `slow` (a start outlives `startingTimeoutMs`; `bounds.ts`
  says nothing in a start waits without a bound, though the `ps` and `lsof`
  calls of `host-effects.ts` have none), no `early` (the browser is quit while
  its start is at work: the start's last write can then land in another
  session's lock, the same cause as the late write of section 12), and no `race`
  (another process acts between `removeOwnedState`'s read and its rename: section
  13 says what follows). `warm_pages` has `race`, but no start: it shows only that
  `HitsIssuedPage` and `NoReturn` do not depend on it.

**The late write.** `writeSessionState` asks that a lock is there, not whose it
is. Section 12 says what follows; `NoReturn` and `HitsIssuedPage` hold all the
same, because an act proves its page again before it sends anything.

## 5. Claude development installation

| Module | What it is |
|---|---|
| `ClaudeInstallation` | `install --apply` and `restore --apply` over one Claude Code profile |
| `ClaudeInstallationProofs` | the theorems |
| `MCHost` | instances for TLC |

**State.** `production` and `development` are what the profile holds of the two
sources: a Marketplace and its Plugin Installation each. The development
Marketplace is a checkout, its plugin says whether it is enabled and whether the
cached copy still links to all of the payload (`linked`); `cache` is the checkout
the cached copy links to, which outlives the registration since the plugin is
uninstalled with `--keep-data`. `snapshot` is the restore-state file of each
checkout, `offered` the version the production Marketplace has to offer.
`who`, `op`, `pc`, `out` are the invocation at work. `taken` and `disturbed` are
history: what production was when an install first took from it, and whether a
failure met the invocation.

**Actions.** `Begin`, `Refuse` and `Unreadable` are `inspectState` and the
refusals; `Capture` writes the snapshot; `UninstallProduction` to
`VerifyDevelopment` are `applyInstall`, one native command each;
`UninstallDevelopment` to `VerifyRestored` are `restore`, which an install that
fails enters by itself; `StopRestoring` is what it ends with when the profile is
not one it may change. `Crash` stands between any two; `Native` lets a command
fail with its effect or without it. People install production, add files to the
payload and clear the cache while nothing is at work.

**Abstractions and premises.**
- One invocation runs at a time, and people use `claude plugin` only while none
  does. The script takes no lock; two at once are listed as a hazard.
- `check`, `preview` and `watch` change nothing and have no action.
- Identities the script does not know, superseded cache versions, credentials
  and scopes only make it refuse before it changes anything; the refusal is not
  repeated for each.
- What the native commands do is taken from how the script uses them and from
  `scripts/fixtures/fake-claude.ts`, by which the repository's own tests stand
  in for them. A command that is killed half-way has had its effect or has not.
- The entries of the snapshot's history are left out: nothing reads them back.
- `again` is a fault: an install begun over an unfinished one. The theorems that
  need its absence say so, and `claude_again` shows why.

## 6. Codex production update

| Module | What it is |
|---|---|
| `CodexUpdate` | the update of one Codex home from one Release tag to another |
| `CodexProofs` | the theorems, of this module and of section 8's |
| `MCHost` | instances for TLC |

**State.** `market` is the commit that the home's Marketplace has checked out,
under its tag; `plugin` the Plugin Installation: a tag (which is its version),
its bytes, and whether it is enabled. `remote` is the commit each tag names at
the source. A commit has the payload's bytes and a `rest`: Releases differ in
what is not installed, too. `target`, `restoration` and `captured` are what the update
holds in memory: nothing is kept on disk, and what is to be restored is fetched
again from its tag. `step` is the next operation, `ended` the `transactionState`
reported. `moved`, `touched` and `spoiled` are history: a tag moved, somebody
else changed the profile, a command of the recovery did not do its work.

**Actions.** `Inspect`, `PreflightTarget`, `PreflightRestoration`,
`ProvePayload`, `BindTag`, `Revalidate` are everything before the first removal,
in the code's order. `RemovePlugin`, `RemoveMarketplace`, `AddTarget`,
`VerifySelectedMarketplace`, `InstallTarget`, `VerifyInstalled` are the mutation;
`UndoPlugin`, `UndoMarketplace`, `ReaddPrior`, `ReinstallPrior`, `VerifyPrior`
are `restorePriorRelease`. The world: `StepFails` (a step fails without effect),
`Codex` (a native command that may report failure with its effect), `Killed`,
`TagMoves`, `SomebodyChanges`.

**Abstractions and premises.**
- Any tag may be selected: asking for one and resolving the latest stable
  Release end in a tag that exists.
- Whether the invocation previews or applies is chosen where it is first read,
  after the proofs, which both go through.
- A Release whose manifest contradicts its tag is refused in preflight and is
  not modelled; so is a Marketplace that is configured but at no tag.
- The inspection is one step: the profile's two readings are compared again in
  `Revalidate`.
- Nobody else changes the profile among the native commands. A Codex home has no
  lock and the code only looks before them; what two updates at once would do is
  not modelled.
- The native commands are taken from how the script uses them and from the
  native stand-in of `scripts/update.test.ts`, which also has an add that succeeds
  and adds something else (`stale`).

## 7. Private Delivery

| Module | What it is |
|---|---|
| `PrivateDelivery` | one `login`: the gates, the two readings of the vault, the child that enters the value, and what the command reports |
| `PrivateDeliveryProofs` | the theorems |
| `MCHost` | instances for TLC; `delivery_timed_out` checks the module itself |

**State.** `page` is what the Controlled Page shows: a document (numbered; a
document never comes again), the field the reference names, whether it holds a
value and has the focus. `site` is the origin of each document, `items` the
Login items of the vault. `at` is the next step of the command, `child` the next
step of the disposable child, its answer, or how it ended. `entered` says where
the value went (which document, whose item); it is history. `outcome` is what is
reported, `kept` whether the receipt still has its references.

**Actions.** `ReadField`, `Approved`, `VaultConfigured`, `ChainTrusted`, `List`,
`Detail`, `Spawn` are the command up to the child, in the order of
`private-delivery.ts`; `CheckFrame`, `CheckField`, `CheckAgain`, `Focus`,
`Insert`, `CheckAfter` are the child's calls to the page, one action each;
`Unverified`, `ChildDies`, `Bound` are the ways it ends otherwise; `Conclude` is
`interpretDelivery` with what `login` makes of it. The world: `PageMoves`,
`FieldChanges`, `ItemEdited`.

**Abstractions.** Permissions, the configuration file and the wrapper's own
checks let the command through or end it (`Gate`). A reply that cannot be parsed
is one that proves nothing. The op CLI and the page are external.

## 8. Codex development installation

| Module | What it is |
|---|---|
| `CodexInstallation` | `check`, preview and `install --apply` of several checkouts over one Codex profile |
| `CodexProofs` | the theorems |
| `MCHost` | instances for TLC |

**State.** `staged` is the Marketplace staged in each checkout, `root` the
checkout whose Marketplace the profile names, `plug` the development Plugin
Installation, `old` whether the one under the superseded identity is there. Of
each checkout's invocation: its next step, whether it applies, the candidate
that its last preview approved, the Marketplace it read and the plan it made,
how it ended, and whether one of its native commands had an effect (history).

**Actions.** `Stage` is the build and the staging; `Markets` and `Plugins` are
the two native readings of `inspect`, `AddMarket`, `AddPlugin`, `DropSuperseded`
the plan's commands, `Remarkets` and `Verify` the second inspection; `Dies` kills
it anywhere, `People` remove or disable what is installed.

**Premise.** One invocation at a time in one checkout: staging is removed and
copied again without a lock, and two could mix their payloads. Nothing in the
code prevents that; it is a hazard of the list without a property.

## 9. From the sources to what users install

| Module | What it is |
|---|---|
| `DependencyClosure` | `admitDependencyClosure`: the worklist over the lock file |
| `PluginBuild` | the materialization of a build, its validation, its receipt, and the freshness a later session reads |
| `KitPackage` | `bun run package` around one process of the Agent Plugin Kit |
| `ReleasePublication` | the Release workflow: publish, resume, repair |
| `ReviewGate` | the Codex review gate of one pull request |
| `HostedCanary` | `ship:canary --execute` |
| `HarnessProof` | the two native proof scripts against a client that misbehaves |
| `MCSupply`, `SupplyProofs` | instances for TLC of all but `HarnessProof`, and the theorems about them, apart and as parts of one |
| `MCHost`, `HostProofs` | the same for `HarnessProof`, `RuntimeLaunch` and the parts of sections 5 to 8 |

**Dependency closure.** `needs`, `peers` and `impure` are the lock (any lock);
`pending` and `graph` the worklist. `ClosureExact` compares its result with the
least set closed under `needs`. What the code refuses before it walks (a lock or
manifest that cannot be read, `trustedDependencies`) is left out. Which entry a name resolves to is left open (the
code tries the parent's own entry, then the hoisted one, and nothing between).

**Build.** A bundle is named by its contents, so a file is a skill and the
generation of the sources it was made from. Every write into `plugin/` is an
action (`Clear`, `WriteBundle`, `WriteNotices`, `WriteInventory`,
`WriteProjection`), then `Validate` and `Report`; a build fails or is killed
before or during each, and people edit sources and payload. Premises: one build
at a time, and nobody touches the payload between the validation and the receipt.

**Package.** Two invocations share the checkout under `.dev`, the link in
`node_modules` and `dist/`: observation of the commit and its pin, clone,
checkout, inspection, link, the Kit's own admission, its two publications, its
exit. The Kit is not in the repository: it is assumed to admit only a clean
checkout at the pin of HEAD, to publish the archive before the checksums and to
overwrite neither. That a pin is not canonical or a checkout was edited are
among the reasons why a step may refuse. The maintenance mode is left out.

**Release.** Each run of the workflow resolves a candidate (`Resolve`, by the
bindings of `release-validate.ts`), persists its admission, builds and proves a
package, and enters the release job, which holds the tag's concurrency group:
`Replay`, `CreateTag`, `CreateRelease`, `CompareAssets`, `UploadAsset`,
`Attest`, the labels, `Converge`. `Breaks` stops a run at any of these steps;
`Rerun` runs it again, all its jobs or those that failed. People make tags by
hand and change the Release, records expire, the toolchain moves. Premises: the repository is
public; its ruleset forbids moving or deleting a version tag; nobody else changes
the Release during a release job; the admission record is a function of its
candidate. The compatibility jobs are part of `ProvePackage`. Which packages are
attested is not kept: attestations only add up and no other step reads one.

**Review gate.** `initialize`, `request` and `approve` are jobs that GitHub runs
beside each other; every call of one that reads or posts is an action. Pushes,
reopenings and the answers of Codex fall between them. A hash prefix names one
commit; parsing and the commenter's permission only end a job without effect
(`Ends`). Premise: what Codex found is not deleted.

**Canary.** Several qualifications of one source: the reading of each target's
repository and ref, creation, push, the second look after a rejected push, the
hosted run, the clone, two native fetches, and the package. Others write to the
repositories at any moment, among others a `twin`: another commit with the
candidate's plugin. The code compares commits at the look, the push and the clone,
and from then on bytes only (`comparePayload`, `bindCandidateQualificationLineage`),
so the model does the same: `got` is what each client installed, and `derived`
whether the sanitized commit still carries the plugin that the source packages (it
is made by `git add --all` in a new repository under the person's own Git
configuration, which can leave out or convert files). Premises: the source checkout is not touched while
it is qualified, and the visibility of a repository that exists does not change.

**Harness proofs.** Each line of `proveClaudeNative` and `proveCodexNative` is a
step against a client that tells any mix of six lies and reports success.
`ProofSound` says what a pass means, script by script: Claude's compares the
bytes of the first and the last installation only, and never whether an `enable`
enabled anything.

## 10. The runs

`CHECK_DEADLOCK FALSE` in every configuration: each has a finite set of
invocations, and when all have ended nothing is left to do. What "everybody
waits on everybody" would be is `RunsEnd` in `custody_contention`.

| Run | Instance | What it shows |
|---|---|---|
| `custody_contention` | two live runs; a dead run of this host and one of another; one live run approved to reclaim a foreign lock; one attempt each; no faults; weak fairness | Every initial lock, record and claim the dead may have left, every interleaving: `RenameConfirmed`, `OnlyOwnerReleases`, and `RunsEnd` and `RepairConverges`: all end, and the runtime is installed unless a person is needed |
| `custody_faults` | two live runs, one dead; one host; crash, failing file system, failing download, damaged cache; three attempts | `LockOwned`, `HonestSuccess`, `LiveStagingKept`, `ValidBlobKept`; `StoreSpec` |
| `host_parts` | six parts, apart from each other. Claude: two checkouts, sources and versions; crashes, failing commands, a Marketplace that moves on. Codex: two tags, two contents; crashes, failures, adds of something else, moving tags. Launch: two repairs, two launches, two payload versions, damage. Login: two items, origins and documents. Codex development: two checkouts, two contents. Proof: both clients, every mix of six lies | `TakenIsCaptured`, `RestoreRecovers`, `OthersKept`; `UpdateHonest`, `RestorationExact`, `RemovesOnlyProven`; `LaunchedVerified`: what is started is what was verified, unless something outside custody damaged it in between; `DeliveryExact`; `BlockedUnchanged`, `DevInstalledExact`; `ProofSound` |
| `supply_parts` | six parts, apart from each other. Closure: two workspaces and a package, two needs each, any lock. Build: one skill, two generations. Package: two invocations, two commits, two Kits. Release: two candidates, two workflow runs, two toolchains. Review gate: two commits, two jobs, two findings. Canary: two qualifications, two targets | `ClosureExact`; `ArtifactsExact`, which is `FreshIsClosed` of a build, `PackagedExact` of a package and `PublishedExact` of a release and `AttestedClean` of the review gate; `QualifiedProven`, `HistoryKept` |
| `claude_again` | an install that is killed, and another | a finding |
| `codex_unrestorable` | two tags, and commits that may differ in what is not installed; failing commands | a finding |
| `delivery_timed_out` | one item, one document | a finding |
| `runner_ledger` | five settings, one at a time. Authority: every command but cleanup; lost answers, calls without effect, refused input, crashes, agents that ask twice. Verdict: run, resume, review, decide, repair; lost answers, crashes, edits between any two steps, a Controller that restarts, a reviewer that changes what it reviews. Cleanup, in three: after run and review, and after run and resume, each with crashes, lost answers, calls without effect and panes closed by people; and after run, resume and review together, with crashes and lost answers | `WriteAhead`, `AtMostOnce`, `ReadableBesides`, `OutcomeBound` (a decision and a repair each rest on proved bytes and a matching verdict), `CleanedClosesAll`, `NothingTakenBack`; `LedgerSpec` |
| `runner_asked_again` | an agent that asks twice | a finding |
| `warm_lifecycle` | three starts, statuses or stops on what a fourth left; crash, failed write, failed reading, a browser quit; a removal reads and renames in one step | `Accounted`, `OneBrowser`, `NoSecondOwner`, `LiveStartKept` |
| `warm_pages` | three page commands or stops on a running session; the page navigates, is replaced, goes | `HitsIssuedPage`, `NoReturn` |
| `warm_late_write` | four live invocations on a session that an earlier one started: a snapshot of it, a stop, a start, one more command | a finding |

`FrontierRunner`, `MCHost` and `MCSupply` check their type invariants; those of
custody and of Warm Browser are theorems and are not checked again.

Every invariant that a proof is by induction on was an invariant of such a run
before it was proved.

**Why these bounds.**

- *Custody.* A lock is disputed between its holder and those who judge it. Two
  live runs and a dead one are the smallest instance in which a judged lock is
  reclaimed by one run and made anew by that run while another still acts on its
  old judgement. Three attempts are what the script allows (`_al_attempts`);
  `custody_contention` takes one, since an attempt beyond the first begins in a
  state the first attempt also reaches, and fair runs with three do not fit.
  The safety run uses symmetry of the live runs and of the inodes, and the view
  `Future`, which drops only shell variables that no later step reads before it
  writes them and the entries of directories that are gone. The liveness run
  uses neither.
- *Host and supply parts.* `MCHost` and `MCSupply` are sums of specifications that
  share no variable: `part` says which one moves, and the variables of the others stay
  as they are, at `None` or at an initial value. The parts share model values: in
  `MCHost`, `c1` and `c2` are checkouts of one part, processes and tags of others, and
  so on. That is sound for symmetry because the initial values of the others hold none
  of the values permuted, or all of them alike, and every part treats the members of
  each of its sets alike (`None` and the rest of the constants, `z` among them, are
  not permuted). Two payload versions are a version before and one after an update;
  two checkouts are one that installs and one whose installation must not be
  disturbed; two sources and two versions are what was captured and something else;
  two tags are the prior Release and the target, and two contents what was proved and
  something else. A second `Rest` only adds the case of `codex_unrestorable`, which
  has one. `LastDoc = 1` is the referenced document and a later one; two items are the
  one matched and a rival. In `MCSupply`, two of each are one at work and one that
  interferes: two qualifications race for a ref, a push and an approval for the head,
  two workflow runs for a tag, two packagers for the Kit's checkout. `MaxNeeds = 2`
  and three entries give every shape of a cycle and a diamond among three; the theorem
  covers the rest. Nothing bounds how many invocations follow each other.
- *Runner.* `Settings` says which commands are invoked beside which faults; a
  behaviour has one of its members from beginning to end, since all commands with all
  faults would be too large. Answers that are lost and crashes are in every
  setting of the passing run; refused input is where prompts and responses are counted, edits and
  breaches where verdicts are bound to bytes, closed panes where they are
  cleaned up. Decisions on panes that people have closed are left out: a
  decision makes no call. A run splits one pane each for editor, browser, worker
  and reviewer, so four are all there can be. `Result = 0..2` is the workspace at
  its base, with the worker's result and with something else. `MaxSent = 2` caps
  the history counter: twice is already once too often. One invocation at a
  time, because nothing in the code supports two (two invocations of `respond`
  are a hazard of the list).
- *Warm Browser.* Two commands that both found the same session dead, a start
  between them and the session found make four. `MaxTab = MaxDoc = 1` is a page
  before and a page after; a third differs from the second only by name.

**Fairness.** Only `custody_contention` has a property that needs any: weak
fairness of each live run's own operations. The operating system schedules a
process that runs, and every operation of the script either succeeds, fails or
waits for a bounded time. No fairness is assumed of crashes, of people or of
other programs.

The other properties are safety properties. That a `start`, a bounded run, a
qualification or a workflow ends is not stated: they wait on programs (Chrome,
an agent, GitHub) that need not answer, and end by their timeouts, which the
models take as steps.

## 11. The proofs

Everything here holds for every value of the constants that satisfies the
`ASSUME`s of the module and the hypotheses a theorem names; `tlapm` checks each
proof to its last leaf.

**Custody** (`RuntimeCustodyProofs`). `TypeCorrect` is unconditional. The others
assume `Steady`: no inode is handed out again, and a live writer publishes its
record within the grace. Section 2 says what a reused inode does.

That two runs never hold the lock is not inductive: it rests on what a
reclaimer knows between its judgement and its rename. `LockInv` says it:

- `LockOwned`: a run that believes it holds the lock made the directory there;
- `DirectoryInv`: a run makes at most one directory, under an inode of its own,
  and writes no name but its own into it;
- `GraceInv`: a lock without a record that is old enough to be judged is a dead
  run's, and the one whose inode the judge took down;
- `ForeignInv`: while an approved run is at work, nobody on another host is;
- `ClaimInv`: what a reclaimer judged dead has ended, and once it has claimed
  that very directory the claim stays its own;
- `RenameConfirmed`: the directory about to be renamed is a dead run's, under
  the renamer's own claim.

Each action that can disturb `LockInv` has its lemma (`...Safe`); the steps
that only move `pc` share `QuietMove`. `MutualExclusion`, `RenameIsConfirmed`
and `LiveWriterKept` follow. `StoreImplemented` is the refinement: the holder
of the abstract store is the run that is `Holding`, taking is `mkdir`, giving up
is the release or the crash, and every step that writes the blob is by the holder.

`SuccessIsHonest`, `LiveStagingIsKept` and `ValidBlobIsKept` rest on `LeavesInv`:
where a run may have something left (a directory it renamed away, staging), what
it knows at each step after it decided to report success, and that the owner of
the staging a reclaimer is about to sweep has ended. `StepAside` says what a step
of one run is to all others, so that each step is examined for its own run only.

`ContentionConverges` has one hypothesis, `Faults = {}`, the premise of its run:
nothing but contention stands in a repair's way. That everybody gave up is a
statement about the whole contention, so its invariants say who is responsible at
each moment. `UnhinderedAt` is how far a run has come that nothing failed for; it
never aborts, and past the rename its blob is verified. `SuccessorInv`: where there
is no lock and the runtime is missing, some run is between its reclamation and its
`mkdir`. `LeftInv`: as long as the lock is the one a dead run left, with its record,
whoever has claimed it is on the way to renaming it or is dead itself, each run still
knows the record and the inode it judged, and one that gave up did so because of a
claim it could not take over or of a host it was not approved for. `StepLeaves` is
what every step leaves alone in other runs. The proof found that the property needs
`MaxAttempts > 0`, which the module now assumes (the code has 3).

**Launches and native proofs** (`HostProofs`), unconditional, for every set of
launches, runs, payloads and lies. `LaunchIsVerified`: `LaunchKnows` says what a
launch has found out by each step and why it still holds, or is marked as damaged.
`PassedProofIsSound` follows the two scripts line by line: `ClaudeKnows` and
`CodexKnows` say what a proof that has come as far as a line knows of the lies it
was told. `HostTypeCorrect` puts the type invariants of all parts together.

**Frontier Runner** (`FrontierRunnerProofs`), for every setting of commands and
faults, any panes, sessions and contents. The one hypothesis is `Alone`: no two
commands of one run are under way at once. Any number follow each other, and each
may die anywhere. The code takes no lock on its receipt, and nothing in it or in its documents
supports two at once; with two, `AtMostOnce` fails at once, which is a hazard of
the list.

None of its properties is inductive: each is about a receipt, and what a command
does to it depends on how the receipt came to be. `Inv` says it in three layers.
- `Sound`, `Backed` and `Shape` are what any receipt satisfies that a command ever
  leaves, readable or not: which effects can be settled before which, that a verdict
  or a marker on it was printed by the agent, and that it is readable or has one of
  the five shapes. `Ends` is what the last write of a command adds: it is readable or
  a `DeadEnd`.
- `CommandAt` is what a command knows of the receipt at each of its steps, effect by
  effect (`RunAt`, `ReviewAt`, `DecisionAt`, `ResponseAt`, `CloseAt`); above all that
  the effect it is about to call is on disk as unknown and was never handed to Herdr.
- `WorkerBound` and `ReviewerBound` are about the agents: one that was not prompted
  has printed nothing, and until it is asked for a repair a worker prints one marker.

`TornInv` is the receipt file in the making: as long as it is not written there is no
receipt, and so (by `Inv`) nothing has been done.

A write is examined once (`WriteKeeps`): what is written is sane, and is what
it should be where the command goes on. `RunKeepsLedger` is the refinement.

**Warm Browser** (`WarmSessionProofs`). `WarmTypeCorrect`, `HitsOnlyIssuedPage` and
`GenerationsStayDropped` are unconditional and cover the page commands; so these
two hold in spite of the late write of section 12. The others assume `Orderly`: session commands alone,
starts that keep to their bounds, nobody quits a browser whose start is at
work, and removals whose read and rename are not interrupted. These are the
premises of section 4; `warm_late_write` shows that the first is needed, and
section 13 that the last is.

That a live browser is accounted for is not inductive either. `SessionInv` adds
the reason: a start owns the lock, the receipt and its browser from `mkdir` to
its last write (`StartAt`), and every other command reaches a step that stops or
removes a session only when that session's start has ended or its browser is
gone (`RecoveryAt`), both of which last. `RecordInv` and `ViewAt` tie a receipt,
on disk or in an invocation's view, to how far its start has come: a receipt
that says `running` belongs to a start that has ended, one that is old too. The
lemma `Stable` says that what is known of another session is not lost by a step
that leaves that session's start alone; `OwnStep` and `OwnWrite` are the two
shapes of a start's own steps.

Of the generations, `IssueInv` says that a receipt, on disk or in view, which holds
one holds the page that was issued with it, that nobody still at work has issued
any, and that an act at its last steps is looking at the generation it refers to.
`Carries` is what a step of any session command does with receipts, as far as
generations are concerned.

**Claude development installation** (`ClaudeInstallationProofs`).
`InstallationTypeCorrect` and `OthersUndisturbed` need nothing. `NothingLost` and
`RestoreBringsBack` assume that nobody installs over an unfinished install
(`"again" \notin Faults`); `claude_again` shows that they need it. `Working` is
what the type invariant rests on: from the first native command on the
invocation's checkout has a snapshot, and what its next step works on is there.
`Captured` is why nothing is lost: without `again` a capture finds nothing
taken, and what the first two native commands take is what it just wrote.
`Placed`: an install under way finds nothing developed and then develops its
own. That a restoration brings production back is about its whole course:
`Progress` says how far the profile has come at each of its steps, so that its
verification can only find the profile equal to the snapshot, and whatever stops
it earlier is a reason that `Superseded` names.

**Codex production update** (`CodexProofs`). All four need nothing. The
inductive invariant adds to `UpdateHonest` and `RestorationExact` why they hold:
`Found` (each preflight and each add has left what the later steps read),
`Known` (the captured installation is enabled and, from its proof on, the one
that the restoration's commit installs; it is there when the removals begin) and
`Recovering` (how much of the prior Release is back at each step of a recovery
that nothing spoiled). `RemovesOnlyProven` is an action property and follows
from `Known`.

**Dependency closure** (`SupplyProofs`), under `ClosureAssumption`
(`None` is not an entry, the skills name workspaces). `ClosureIsExact` is the
correctness of the worklist for locks of any size and shape: what a walk has
reached is in every closed set that holds its root, and what is reached and no
longer pending has all its needs reached or pending, so that a walk with nothing
pending has a closed set. No induction over the lock is needed, because the
reference definition is the least closed set rather than a path.

**Hosted canary** (`SupplyProofs`). Needs nothing, and holds for any number
of qualifications at once. `ProofAt` says how much of what is reported a
qualification has seen by each of its steps: that the two clients installed the same
bytes from a target, and that these are the package's, is known only past the
package step. `HistoryIsKept` is an action
property: the one step that makes a ref is the push of a qualification that read
the right visibility.

**Build, package, release, review gate** (`SupplyProofs`), under `NoneIsNothing`
(`None` is nothing it stands for the absence of), for any number of invocations,
commits, Kits, jobs and findings. `FreshMeansClosed`: what the receipt of a build
records was validated, and a payload with that digest is that payload.
`PackagedMeansPinned`: `KitInv` says what an invocation has observed, and that its
Kit admitted the commit before it published. `PublishedMeansProven`: `RunKnows` is
what a workflow run has resolved and proved, by the mode it is in and the job it
failed in; `RunHasDone` is what its release job has made true of the tag, the
Release and the labels by each step, which lasts because the job holds the tag's
concurrency group. `AttestedMeansClean`: `Approval` is what an approval has found out
before it posts. `ArtifactsAreExact` is their conjunction as `MCSupply` runs them.

**Codex development installation** (`CodexProofs`), under `NilAssumption`: `Nil` is
not one of the things it stands for the absence of. `InvocationAt` says what an
invocation knows at each step: from its approval on its plan is the one
previewed, and until its first native command it has changed nothing.

**Private Delivery** (`PrivateDeliveryProofs`), under `NothingAssumption`, the same
of `Nothing`. Documents never come again, so a child that found document 0 after it
entered the value entered it there (`ChildInv`); what is entered is of the item
that the command matched (`CommandInv`), and a conclusion reports accordingly
(`Reported`). `UnchangedHonest` is not a theorem: section 12.

**Only model-checked.** `RunsEnd`, since liveness is beyond the prover. The
properties that a run violates (section 12) are no theorems.

| Theorem | States |
|---|---|
| `TypeCorrect`, `WarmTypeCorrect` | the type invariants |
| `Inductive`, `SessionInductive`, `RunInductive` | the inductive invariants |
| `MutualExclusion` | `LockOwned` |
| `RenameIsConfirmed` | `RenameConfirmed` |
| `LiveWriterKept` | `OnlyOwnerReleases` |
| `StoreImplemented` | `StoreSpec` |
| `ContentionConverges` | `RepairConverges` |
| `SuccessIsHonest`, `LiveStagingIsKept`, `ValidBlobIsKept` | `HonestSuccess`, `LiveStagingKept`, `ValidBlobKept` |
| `LaunchIsVerified`, `PassedProofIsSound`, `HostTypeCorrect` | `LaunchedVerified`, `ProofSound`, `HostTypeOK` |
| `RunTyped`, `RunWriteAhead`, `RunAtMostOnce`, `RunReadableBesides` | `TypeOK` of `FrontierRunner`, `WriteAhead`, `AtMostOnce`, `ReadableBesides` |
| `RunOutcomeBound`, `RunCleanedClosesAll`, `RunNothingTakenBack` | `OutcomeBound`, `CleanedClosesAll`, `NothingTakenBack` |
| `RunKeepsLedger` | `LedgerSpec` |
| `HitsOnlyIssuedPage`, `GenerationsStayDropped` | `HitsIssuedPage`, `NoReturn` |
| `SessionAccounted`, `SessionOneBrowser`, `SessionNoSecondOwner`, `SessionLiveStartKept` | the properties of the same names |
| `InstallationTypeCorrect` | `TypeOK` of `ClaudeInstallation` |
| `NothingLost`, `OthersUndisturbed`, `RestoreBringsBack` | `TakenIsCaptured`, `OthersKept`, `RestoreRecovers` |
| `UpdateTypeCorrect`, `UpdateInductive` | `UpdateTypeOK` and the inductive invariant of `CodexUpdate` |
| `ReportsTruly`, `RestoresExactly`, `RemovalProven` | `UpdateHonest`, `RestorationExact`, `RemovesOnlyProven` |
| `ClosureTypeCorrect`, `CanaryTypeCorrect`, `DevTypeCorrect`, `DeliveryTypeCorrect` | the type invariants |
| `SupplyTypeCorrect`, `ArtifactsAreExact` | `SupplyTypeOK`, `ArtifactsExact` |
| `FreshMeansClosed`, `PackagedMeansPinned`, `PublishedMeansProven`, `AttestedMeansClean` | `FreshIsClosed`, `PackagedExact`, `PublishedExact`, `AttestedClean` |
| `ClosureIsExact` | `ClosureExact` |
| `QualifiedIsProven`, `HistoryIsKept` | `QualifiedProven`, `HistoryKept` |
| `BlockedIsUnchanged`, `InstalledIsPreviewed` | `BlockedUnchanged`, `DevInstalledExact` |
| `DeliveryIsExact` | `DeliveryExact` |

## 12. Where the code and its documents disagree

Each is a run that TLC must find violated.

1. **A worker that asks twice strands its run** (`runner_asked_again`,
   `packages/frontier-runner/src/main.ts:1746`). After `respond`, the command
   tells its user to `resume`. If the worker asks again, that `resume` writes
   `blocked` beside a response that was already dispatched, a receipt which
   `receiptStateInvariants` refuses: neither `resume` nor `cleanup` reads it again.
2. **A second install forgets what the first took away** (`claude_again`,
   `scripts/claude-development-installation.ts:1402`). The preview says, before
   production is removed, that "`bun run dev -- claude restore --apply` puts that
   production state back" (line 833). Each install captures anew into one file
   per profile and checkout. When one is killed after it removed production and
   before it linked the checkout, the profile inspects as an absence, another
   install is accepted, and its capture replaces the only record of production;
   `restore` then reports success. The `transactionState` of the snapshot that
   is replaced is not looked at.
3. **A late page command writes into the next session's lock**
   (`warm_late_write`, `packages/agent-browser/src/modules/warm-browser/state.ts:368`).
   `writeSessionState` accepts any lock. A snapshot taken before a `stop` and a
   `start` replaces the new receipt with the old one; the next command finds the
   old process absent, removes the lock, and the new Chrome is left "holding the
   Agent Chrome Profile with nothing accounting for it" (`warm-browser.ts:571-572`).
4. **An update begins that cannot be undone** (`codex_unrestorable`,
   `scripts/codex-production-update.ts:1246`). "The command blocks before mutation
   for unowned, ambiguous, sparse, disabled, non-stable, uncredentialed, unsafe, or
   unrestorable state" (`docs/installing.md:232`). The preflight of the restoration fetches the prior tag
   and compares its payload with the installed one, but does not compare its commit with
   the captured Marketplace's. If that tag now names another commit with the same
   payload, the update goes ahead; when it fails later, the restoration can only
   bring that other commit, its verification finds it not exact, and the update
   ends `unknown`.
5. **A child that is stopped is taken for one that never started**
   (`delivery_timed_out`, `packages/agent-browser/src/modules/private-delivery/private-delivery.ts:199`).
   A reading that failed means `vault_unverified`, which `login` reports as a
   page left alone with every reference kept, under the comment "A spawn that
   never started created no child, so nothing touched the page" (line 198). But
   `runBoundedProcess` (`credential-effects.ts:82-114`) marks a reading as failed
   also when its time or output bound ended the child, which may by then have
   entered the value. "Unknown is never reported as unchanged"
   (`warm-browser.ts:1765`).

## 13. What the models show besides

Not contradictions of a document that a run could show, but what a reader of the
code should know; each came up in translating it.

- **Harness proofs.** Claude's script never compares the bytes of the upgrade with
  the target release, only its version, and what its `enable` commands did is put in
  the report (`enabledAfterReview`) and compared with nothing (`ProofSound` claims no
  more).
- **Hosted canary.** The commits that the two clients fetch are not compared with the
  candidate, only their bytes and version. A ref that is moved after the clone to
  another commit with the same plugin qualifies; the plan asks to "compare version,
  commit, and cached payload"
  (`docs/plans/2026-08-05-001-fix-plugin-publishing-hardening-plan.md:392`), and the
  refusal speaks of the "candidate commit" (`ship-canary.ts:1445`). `QualifiedProven`
  is about the bytes.
- **Build.** The receipt's digest is taken from the disk after the build, not from
  what was written; when the receipt cannot be written the previous one stays
  (freshness holds, since a payload that differs has another digest).
- **Package.** A run killed between `clone --no-checkout` and the checkout, when
  the pin is the origin's HEAD, leaves a checkout that every later run refuses. The
  loser of two clones removes the winner's directory. The document of
  `ensureKitCheckout` says of a named checkout that "it is never mutated"
  (`package-adapter.ts:278-279`), though `bun install` runs there. `package.ts`
  prints a pin that it reads again after packaging.
- **Release.** The replay of a resume goes through `admitPublicationCandidate`
  with the current allowlist (`release.yml:988-996`), which
  `release-validate.ts:521-525` says "would reject a valid stranded admission
  whenever that policy moved on main -- the exact case resume exists to rescue".
  `validatePublicationBinding` (403-446) is used by tests only.
- **Review gate.** `initialize` may post its success after `request` has posted
  pending, and a reopened pull request makes a commit green whose review was
  requested: `pending` is not kept, and `AttestedClean` speaks only of an attested
  status.
- **Warm Browser.** `removeOwnedState` reads the receipt (`state.ts:485`) and renames
  the lock by its path (489), two synchronous calls with nothing between them. If
  another process acts there, the lock may be another's by then. Two starts both find
  an old session dead; the first reads its receipt; the second removes that session,
  takes the lock and writes its intent; the first renames the second's lock away. With
  `race` among the faults of `warm_lifecycle` TLC finds `Accounted`, `OneBrowser`,
  `NoSecondOwner` and `LiveStartKept` violated in this way. The run and the theorems
  have its absence as a premise.
- **Warm Browser, screenshots.** Two concurrent screenshots that clear, clear, write and write
  leave two artifacts, where a comment in `warm-browser.ts` has at most one; and a
  screenshot may be written into the next session's lock, as the receipt of the
  late write is.

## 14. What is not modelled

| Component | Why |
|---|---|
| Generated sources, runtime custody generation | sequential transformations of files, compared byte for byte by their tests |
| Repository readiness, native capability hook, portable command | keep no state; the portable command only execs `runtime-exec run` |
| Scaffolding, examples, generated bundles, skill documents | one-shot generators and prose |

Of the components that are modelled partly: the bundling itself and the archive's
format; the preparation of the harness fixtures, the compatibility probes and the
evidence files; the classification of sources and the derivation of the
sanitized commit; the release-impact gate, the projections and the comparison of
workflow texts (`release-workflow-parity.ts`); the maintenance mode of the package
adapter; screenshot files, element identities and the messages of the DevTools
conversation.

Inside the modelled components these are left out: flags, input files and paths
and their validation; the wording of results and repairs; permissions and
symbolic links (the code refuses what it does not own, which is `GiveUp` or a
failing operation here); parsing of process tables, transcripts and DevTools
messages (each answers what is so, or that it cannot tell); time, except where
an age or a timeout decides something.

## 15. Plan

1. Weaker hypotheses where a theorem has one: `ContentionConverges` with crashes (a
   new dead run's lock may be left at any step).
2. Screenshot files and the age of references in `WarmPage`.
3. Two invocations of one command in one checkout: the staging of
   `CodexInstallation`, the commands of `FrontierRunner`.

Room for new questions comes from sums: a component that keeps state of its own
becomes another `part` of `MCHost` or `MCSupply`, and another instance of one
module another of its `Settings`.
