---------------------------- MODULE HarnessProof ----------------------------
(***************************************************************************)
(* `prove:harness-install`: the scripts that install, upgrade, roll back   *)
(* and recover the plugin through a native client in an isolated home, and *)
(* pass only if what the client reports and has on disk is right.  The     *)
(* client is what is on trial: each of its commands may do less, or other  *)
(* things, than it should, and still succeed.                              *)
(***************************************************************************)
EXTENDS Naturals, Sequences

CONSTANTS
  None,
  Lies    \* what the client may do wrong, a subset of Lie

Release == {"base", "target"}
Client == {"claude", "codex"}

\* stale:   it installs under the right version what it had before
\* version: it installs, and reports, the release it had before
\* flips:   it enables or disables what it installs of its own accord
\* forgets: an uninstall drops the persistent data
\* keeps:   an uninstall leaves everything there
\* idle:    an enable enables nothing
Lie == {"stale", "version", "flips", "forgets", "keeps", "idle"}

VARIABLES
  client,   \* the client on trial
  line,     \* the line of its script that comes next; 0 when the script has failed
  cache,    \* the installed plugin: its version, its bytes, whether it is enabled
  last,     \* the bytes installed before
  data,     \* the persistent data are there
  prior,    \* what was captured before the first mutation
  told      \* history: the lies told so far

proofVars == <<client, line, cache, last, data, prior, told>>

Installation == [version : Release, bytes : Release, enabled : BOOLEAN]

\* What a freshly installed plugin is: Claude honours defaultEnabled = false.
Default == client = "codex"
-----------------------------------------------------------------------------
(* The scripts: what each line has the client do, and what is then compared*)
(* with the release.                                                       *)

Installs(r, checks) == [do |-> "install", release |-> r, checks |-> checks]
Removes == [do |-> "remove", release |-> "base", checks |-> {}]
Enables(r, checks) == [do |-> "enable", release |-> r, checks |-> checks]
Captures == [do |-> "capture", release |-> "base", checks |-> {}]

\* assertExactHarnessRecovery, over the fields a client has.
Recovered_Payload == {"version", "bytes"}
Recovered == {"version", "bytes", "prior", "data"}

\* replaceInstall: it must come disabled, and is then enabled.
Replaces(r, checks) == <<Removes, Installs(r, {"prior"}), Enables(r, {"version"} \cup checks)>>

\* proveClaudeNative, in one scope.
Claude ==
  <<Installs("base", {"bytes", "default"}), Captures>>
  \o Replaces("target", {}) \o Replaces("base", {"data"})
  \o <<Removes, Installs("base", Recovered), Enables("base", {"bytes"})>>

\* proveCodexNative.
Codex ==
  <<Installs("base", {"version", "bytes"}), Captures, Removes,
    Installs("target", {"version", "bytes"}), Removes,
    Installs("base", {"version", "bytes", "prior"}),
    Removes, Installs("base", Recovered \ {"data"})>>

Script == IF client = "claude" THEN Claude ELSE Codex
Passed == line = Len(Script) + 1

HarnessTypeOK ==
  /\ client \in Client
  /\ line \in 0..(Len(Script) + 1)
  /\ cache \in Installation \cup {None}
  /\ last \in Release
  /\ data \in BOOLEAN
  /\ prior \in {None} \cup BOOLEAN
  /\ told \subseteq Lie

HarnessInit ==
  /\ client \in Client
  /\ line = 1 /\ cache = None /\ last = "base" /\ data = FALSE /\ prior = None /\ told = {}
-----------------------------------------------------------------------------
\* What is compared after the line.
Holds(check, r) ==
  CASE check = "version" -> cache'.version = r
    [] check = "bytes" -> cache'.bytes = r
    [] check = "default" -> ~cache'.enabled
    [] check = "prior" -> cache'.enabled = prior
    [] check = "data" -> data'

Does(what) == line # 0 /\ ~Passed /\ Script[line].do = what

Compares ==
  line' = IF \A check \in Script[line].checks : Holds(check, Script[line].release)
            THEN line + 1 ELSE 0

Tells(l) == told' = told \cup l

\* marketplace add and plugin install.  With the plugin still there the client may
\* leave it as it is.
Install ==
  /\ Does("install")
  /\ \E l \in SUBSET (Lies \cap ({"flips"} \cup
                 IF last = Script[line].release THEN {} ELSE {"stale", "version"})) :
       /\ cache' = [version |-> IF "version" \in l THEN last ELSE Script[line].release,
                    bytes |-> IF l \cap {"stale", "version"} # {} THEN last ELSE Script[line].release,
                    enabled |-> IF "flips" \in l THEN ~Default ELSE Default]
       /\ Tells(l)
  /\ last' = cache'.bytes
  /\ UNCHANGED <<client, data, prior>>
  /\ Compares

\* The marker of the persistent data is written, and the state captured.
Capture ==
  /\ Does("capture")
  /\ data' = TRUE /\ prior' = cache.enabled
  /\ line' = line + 1
  /\ UNCHANGED <<client, cache, last, told>>

\* plugin uninstall and marketplace remove; only their success is looked at.  The
\* last of them is followed by the injected failure.
Remove ==
  /\ Does("remove")
  /\ \E l \in SUBSET (Lies \cap {"forgets", "keeps"}) :
       /\ cache' = IF "keeps" \in l THEN cache ELSE None
       /\ data' = (data /\ "forgets" \notin l)
       /\ Tells(l)
  /\ line' = line + 1
  /\ UNCHANGED <<client, last, prior>>

\* plugin enable: what it did to the plugin is read into the report, and compared
\* with nothing.
Enable ==
  /\ Does("enable")
  /\ \E l \in SUBSET (Lies \cap {"idle"}) :
       /\ cache' = [cache EXCEPT !.enabled = IF "idle" \in l THEN @ ELSE TRUE]
       /\ Tells(l)
  /\ UNCHANGED <<client, last, data, prior>>
  /\ Compares

\* A command fails.
Fails ==
  /\ line # 0 /\ ~Passed
  /\ line' = 0
  /\ UNCHANGED <<client, cache, last, data, prior, told>>

HarnessNext == Install \/ Capture \/ Remove \/ Enable \/ Fails
HarnessSpec == HarnessInit /\ [][HarnessNext]_proofVars
-----------------------------------------------------------------------------
(* Property.                                                               *)

\* A passed proof means that the client left, after the injected failure, exactly
\* the base release as it was before, and that nowhere in the script it installed
\* another version than it was asked for; that Claude enabled nothing of its own
\* accord and kept its persistent data throughout; and that Codex never kept the
\* bytes of another release (of Claude's installations only the first and the last
\* are compared).  It does not mean that Claude's plugin ended enabled: its script
\* enables it after each review, and looks at no enable's effect.
ProofSound ==
  Passed =>
    /\ cache.version = "base" /\ cache.bytes = "base"
    /\ "version" \notin told
    /\ client = "claude" => "flips" \notin told /\ data
    /\ client = "codex" => "stale" \notin told /\ cache.enabled = prior
=============================================================================
