----------------------------- MODULE HostProofs -----------------------------
(***************************************************************************)
(* Proofs about the parts that act in a user's profile or machine, as      *)
(* MCHost puts them together: for every set of launches, of repairs and of *)
(* payloads, and every set of lies a client may tell.  The invariants of   *)
(* the installations and of Private Delivery are proved in modules of      *)
(* their own.                                                              *)
(***************************************************************************)
EXTENDS MCHost, ClaudeInstallationProofs, CodexProofs, PrivateDeliveryProofs, Sequences, TLAPS

-----------------------------------------------------------------------------
(* HarnessProof: the two scripts, line by line. *)

ClaudeLine(i) ==
  CASE i = 1 -> Proof!Installs("base", {"bytes", "default"})
    [] i = 2 -> Proof!Captures
    [] i = 4 -> Proof!Installs("target", {"prior"})
    [] i = 5 -> Proof!Enables("target", {"version"})
    [] i = 7 -> Proof!Installs("base", {"prior"})
    [] i = 8 -> Proof!Enables("base", {"version", "data"})
    [] i = 10 -> Proof!Installs("base", {"version", "bytes", "prior", "data"})
    [] i = 11 -> Proof!Enables("base", {"bytes"})
    [] OTHER -> Proof!Removes

CodexLine(i) ==
  CASE i = 1 -> Proof!Installs("base", {"version", "bytes"})
    [] i = 2 -> Proof!Captures
    [] i = 4 -> Proof!Installs("target", {"version", "bytes"})
    [] i \in {6, 8} -> Proof!Installs("base", {"version", "bytes", "prior"})
    [] OTHER -> Proof!Removes

LEMMA ClaudeLines == Len(Proof!Claude) = 11 /\ \A i \in 1..11 : Proof!Claude[i] = ClaudeLine(i)
BY DEF Proof!Claude, Proof!Replaces, Proof!Recovered, ClaudeLine

LEMMA CodexLines == Len(Proof!Codex) = 8 /\ \A i \in 1..8 : Proof!Codex[i] = CodexLine(i)
<1>1. Proof!Recovered \ {"data"} = {"version", "bytes", "prior"}
  BY DEF Proof!Recovered
<1> QED BY <1>1 DEF Proof!Codex, CodexLine

\* A line of a script, by what it has the client do.
LEMMA LineIs ==
  ASSUME NEW i \in Nat
  PROVE  /\ ClaudeLine(i).do = "install" <=> i \in {1, 4, 7, 10}
         /\ ClaudeLine(i).do = "capture" <=> i = 2
         /\ ClaudeLine(i).do = "enable" <=> i \in {5, 8, 11}
         /\ CodexLine(i).do = "install" <=> i \in {1, 4, 6, 8}
         /\ CodexLine(i).do = "capture" <=> i = 2
         /\ CodexLine(i).do # "enable"
BY DEF ClaudeLine, CodexLine, Proof!Installs, Proof!Captures, Proof!Enables, Proof!Removes

\* What the proof knows by each line: of Claude, that nothing was enabled of its own
\* accord, that a wrong version is about to be found out, and whether the data are
\* there; of Codex, that neither version nor bytes were another release's.
ClaudeKnows ==
  /\ line # 0 => "flips" \notin told
  /\ line >= 3 => prior = FALSE
  /\ line \in {2, 5, 8, 11} => proofCache \in Proof!Installation /\ ~proofCache.enabled
  /\ line # 0 /\ "version" \in told =>
       \/ line = 5 /\ proofCache.version = "base"
       \/ line = 8 /\ proofCache.version = "target"
  /\ line \in {9, 11, 12} => data
  /\ line = 11 => proofCache.version = "base" /\ proofCache.bytes = "base"
  /\ line = 12 => proofCache.version = "base" /\ proofCache.bytes = "base"

CodexKnows ==
  /\ line # 0 => "version" \notin told /\ "stale" \notin told
  /\ line = 2 => proofCache \in Proof!Installation
  /\ line >= 3 => prior \in BOOLEAN
  /\ line = 9 => proofCache = [version |-> "base", bytes |-> "base", enabled |-> prior]

Lines == IF client = "claude" THEN 11 ELSE 8

HarnessInv ==
  /\ Proof!HarnessTypeOK /\ line \in 0..(Lines + 1)
  /\ client = "claude" => ClaudeKnows
  /\ client = "codex" => CodexKnows

LEMMA ScriptLines ==
  ASSUME client \in Proof!Client
  PROVE  /\ Len(Proof!Script) = Lines
         /\ \A i \in 1..Lines : Proof!Script[i] = IF client = "claude" THEN ClaudeLine(i) ELSE CodexLine(i)
BY ClaudeLines, CodexLines DEF Proof!Script, Lines

LEMMA HarnessInitInv == Proof!HarnessInit => HarnessInv
<1> SUFFICES ASSUME Proof!HarnessInit PROVE HarnessInv
  OBVIOUS
<1>1. client \in Proof!Client /\ Len(Proof!Script) = Lines /\ Lines \in {8, 11}
  BY ScriptLines DEF Proof!HarnessInit, Lines
<1>2. Proof!HarnessTypeOK /\ line \in 0..(Lines + 1)
  <2>1. line \in 0..(Len(Proof!Script) + 1) /\ line \in 0..(Lines + 1)
    BY <1>1 DEF Proof!HarnessInit
  <2>2. last \in Proof!Release /\ data \in BOOLEAN /\ told \subseteq Proof!Lie
    BY DEF Proof!HarnessInit, Proof!Release
  <2> QED BY <2>1, <2>2 DEF Proof!HarnessInit, Proof!HarnessTypeOK
<1> QED BY <1>2 DEF Proof!HarnessInit, HarnessInv, ClaudeKnows, CodexKnows

\* Where a step finds the script.
LEMMA AtLine ==
  ASSUME HarnessInv, NEW what, Proof!Does(what)
  PROVE  /\ client \in Proof!Client /\ Lines \in {8, 11} /\ line \in 1..Lines
         /\ Proof!Script[line] = IF client = "claude" THEN ClaudeLine(line) ELSE CodexLine(line)
         /\ Proof!Script[line].do = what
<1>1. client \in Proof!Client /\ Len(Proof!Script) = Lines /\ Lines \in {8, 11}
  BY ScriptLines DEF HarnessInv, Proof!HarnessTypeOK, Lines
<1>2. line \in 1..Lines
  BY <1>1 DEF HarnessInv, Proof!Does, Proof!Passed
<1> QED BY <1>1, <1>2, ScriptLines DEF Proof!Does

\* A step in which nothing the line compares has failed.
LEMMA Compared ==
  ASSUME Proof!Compares
  PROVE  \/ line' = 0
         \/ line' = line + 1 /\ \A c \in Proof!Script[line].checks : Proof!Holds(c, Proof!Script[line].release)
BY DEF Proof!Compares

\* What an installation of a release leaves, by the lies the client tells.
Leaves(l, r) ==
  /\ proofCache' \in Proof!Installation
  /\ told' = told \cup l
  /\ IF "version" \in l THEN last # r /\ proofCache'.version = last ELSE proofCache'.version = r
  /\ IF "version" \in l \/ "stale" \in l THEN last # r /\ proofCache'.bytes = last
     ELSE proofCache'.bytes = r
  /\ proofCache'.enabled <=> ("flips" \in l <=> client = "claude")

LEMMA InstallLeaves ==
  ASSUME HarnessInv, Proof!Install, NEW r \in Proof!Release, r = Proof!Script[line].release
  PROVE  /\ \/ line' = 0
            \/ line' = line + 1 /\ \A c \in Proof!Script[line].checks : Proof!Holds(c, r)
         /\ last' \in Proof!Release /\ UNCHANGED <<client, data, prior>>
         /\ \E l \in SUBSET Proof!Lie : Leaves(l, r)
<1>1. last \in Proof!Release /\ client \in Proof!Client
  BY DEF HarnessInv, Proof!HarnessTypeOK
<1>2. \E l \in SUBSET (Lies \cap ({"flips"} \cup IF last = r THEN {} ELSE {"stale", "version"})) :
       /\ proofCache' = [version |-> IF "version" \in l THEN last ELSE r,
                    bytes |-> IF l \cap {"stale", "version"} # {} THEN last ELSE r,
                    enabled |-> IF "flips" \in l THEN ~Proof!Default ELSE Proof!Default]
       /\ told' = told \cup l
  BY DEF Proof!Install, Proof!Tells
<1>3. Proof!Default \in BOOLEAN /\ (Proof!Default <=> client # "claude")
  BY <1>1 DEF Proof!Default, Proof!Client
<1>4. ASSUME NEW l \in SUBSET (Lies \cap ({"flips"} \cup IF last = r THEN {} ELSE {"stale", "version"})),
             proofCache' = [version |-> IF "version" \in l THEN last ELSE r,
                    bytes |-> IF l \cap {"stale", "version"} # {} THEN last ELSE r,
                    enabled |-> IF "flips" \in l THEN ~Proof!Default ELSE Proof!Default],
             told' = told \cup l
      PROVE  l \in SUBSET Proof!Lie /\ Leaves(l, r)
  <2>1. l \in SUBSET Proof!Lie /\ ("version" \in l \/ "stale" \in l => last # r)
    BY DEF Proof!Lie
  <2>2. l \cap {"stale", "version"} # {} <=> "version" \in l \/ "stale" \in l
    OBVIOUS
  <2>3. (IF "flips" \in l THEN ~Proof!Default ELSE Proof!Default) \in BOOLEAN
    BY <1>3
  <2>4. proofCache' \in Proof!Installation
    BY <1>1, <1>4, <2>3 DEF Proof!Installation
  <2>5. /\ proofCache'.version = IF "version" \in l THEN last ELSE r
        /\ proofCache'.bytes = IF "version" \in l \/ "stale" \in l THEN last ELSE r
        /\ proofCache'.enabled <=> ("flips" \in l <=> client = "claude")
    BY <1>4, <2>2, <1>3
  <2> QED BY <1>4, <2>1, <2>4, <2>5 DEF Leaves
<1>5. \E l \in SUBSET Proof!Lie : Leaves(l, r)
  BY <1>2, <1>4
<1>6. proofCache'.bytes \in Proof!Release
  BY <1>5 DEF Leaves, Proof!Installation
<1>7. last' = proofCache'.bytes /\ UNCHANGED <<client, data, prior>> /\ Proof!Compares
  BY DEF Proof!Install
<1> QED BY <1>5, <1>6, <1>7, Compared

\* An installation by Claude, which may be the first, or one of a replacement.
LEMMA ClaudeInstalls ==
  ASSUME HarnessInv, Proof!Install, client = "claude"
  PROVE  HarnessInv'
<1>1. /\ Lines = 11 /\ line \in {1, 4, 7, 10} /\ Proof!Script[line] = ClaudeLine(line)
      /\ last \in Proof!Release
  BY AtLine, LineIs DEF Proof!Install, Lines, HarnessInv, Proof!HarnessTypeOK
<1>2. ClaudeKnows /\ Proof!HarnessTypeOK
  BY DEF HarnessInv
<1> DEFINE r == IF line = 4 THEN "target" ELSE "base"
<1>3. r \in Proof!Release /\ r = Proof!Script[line].release
  BY <1>1 DEF ClaudeLine, Proof!Installs, Proof!Release
<1> HIDE DEF r
<1>4. /\ last' \in Proof!Release /\ client' = client /\ data' = data /\ prior' = prior
      /\ \/ line' = 0
         \/ line' = line + 1 /\ \A c \in Proof!Script[line].checks : Proof!Holds(c, r)
      /\ \E k \in SUBSET Proof!Lie : Leaves(k, r)
  BY <1>3, InstallLeaves
<1>5. PICK k \in SUBSET Proof!Lie : Leaves(k, r)
  BY <1>4
<1>6. told' \subseteq Proof!Lie /\ proofCache' \in Proof!Installation
  BY <1>2, <1>5 DEF Leaves, Proof!HarnessTypeOK
<1>7. line' \in 0..12 /\ Lines' = 11
  BY <1>1, <1>4 DEF Lines
<1>8. Proof!HarnessTypeOK'
  <2>1. Len(Proof!Script)' = 11
    BY <1>4, ClaudeLines DEF Proof!Script
  <2> QED BY <1>2, <1>4, <1>6, <1>7, <2>1 DEF Proof!HarnessTypeOK
<1>9. ASSUME line' # 0 PROVE ClaudeKnows'
  <2>1. line' = line + 1 /\ \A c \in Proof!Script[line].checks : Proof!Holds(c, r)
    BY <1>4, <1>9
  <2>2. ~proofCache'.enabled
    <3>1. CASE line = 1
      <4>1. "default" \in Proof!Script[line].checks
        BY <1>1, <3>1 DEF ClaudeLine, Proof!Installs
      <4> QED BY <2>1, <4>1 DEF Proof!Holds
    <3>2. CASE line # 1
      <4>1. "prior" \in Proof!Script[line].checks
        BY <1>1, <3>2 DEF ClaudeLine, Proof!Installs
      <4>2. prior = FALSE
        BY <1>1, <1>2, <3>2 DEF ClaudeKnows
      <4> QED BY <2>1, <4>1, <4>2 DEF Proof!Holds
    <3> QED BY <3>1, <3>2
  <2>3. "flips" \notin k /\ "flips" \notin told'
    BY <1>1, <1>2, <1>5, <2>2 DEF Leaves, ClaudeKnows
  <2>4. line >= 3 => prior' = FALSE
    BY <1>1, <1>2, <1>4 DEF ClaudeKnows
  <2>5. line' \in {2, 5, 8, 11} /\ line' # 1 /\ (line' >= 3 => line >= 3)
    BY <1>1, <2>1
  <2>6. ASSUME "version" \in told'
        PROVE  \/ line' = 5 /\ proofCache'.version = "base"
               \/ line' = 8 /\ proofCache'.version = "target"
    <3>1. "version" \notin told
      BY <1>1, <1>2 DEF ClaudeKnows
    <3>2. "version" \in k
      BY <1>5, <2>6, <3>1 DEF Leaves
    <3>3. last # r /\ proofCache'.version = last /\ proofCache'.bytes = last
      BY <1>5, <3>2 DEF Leaves
    <3>4. CASE line \in {1, 10}
      <4>1. "bytes" \in Proof!Script[line].checks
        BY <1>1, <3>4 DEF ClaudeLine, Proof!Installs
      <4> QED BY <2>1, <3>3, <4>1 DEF Proof!Holds
    <3>5. CASE line = 4
      BY <1>1, <2>1, <3>3, <3>5 DEF r, Proof!Release
    <3>6. CASE line = 7
      BY <1>1, <2>1, <3>3, <3>6 DEF r, Proof!Release
    <3> QED BY <1>1, <3>4, <3>5, <3>6
  <2>7. line' = 11 => data' /\ proofCache'.version = "base" /\ proofCache'.bytes = "base"
    <3> SUFFICES ASSUME line' = 11 PROVE data' /\ proofCache'.version = "base" /\ proofCache'.bytes = "base"
      OBVIOUS
    <3>1. line = 10 /\ r = "base"
      BY <1>1, <2>1 DEF r
    <3>2. {"version", "bytes", "data"} \subseteq Proof!Script[line].checks
      BY <1>1, <3>1 DEF ClaudeLine, Proof!Installs
    <3>3. /\ Proof!Holds("version", r) /\ Proof!Holds("bytes", r) /\ Proof!Holds("data", r)
      BY <2>1, <3>2
    <3> QED BY <3>1, <3>3 DEF Proof!Holds
  <2> QED BY <1>4, <2>1, <2>2, <2>3, <2>4, <2>5, <2>6, <2>7, <1>6 DEF ClaudeKnows
<1>10. client' = "claude"
  BY <1>4
<1>11. line' = 0 => ClaudeKnows'
  BY DEF ClaudeKnows
<1> QED BY <1>7, <1>8, <1>9, <1>10, <1>11 DEF HarnessInv

\* An installation by Codex: version and bytes are compared every time.
LEMMA CodexInstalls ==
  ASSUME HarnessInv, Proof!Install, client = "codex"
  PROVE  HarnessInv'
<1>1. /\ Lines = 8 /\ line \in {1, 4, 6, 8} /\ Proof!Script[line] = CodexLine(line)
      /\ last \in Proof!Release
  BY AtLine, LineIs DEF Proof!Install, Lines, HarnessInv, Proof!HarnessTypeOK
<1>2. CodexKnows /\ Proof!HarnessTypeOK
  BY DEF HarnessInv
<1> DEFINE r == IF line = 4 THEN "target" ELSE "base"
<1>3. r \in Proof!Release /\ r = Proof!Script[line].release
  BY <1>1 DEF CodexLine, Proof!Installs, Proof!Release
<1>4. line = 8 => r = "base"
  OBVIOUS
<1> HIDE DEF r
<1>5. /\ last' \in Proof!Release /\ client' = client /\ data' = data /\ prior' = prior
      /\ \/ line' = 0
         \/ line' = line + 1 /\ \A c \in Proof!Script[line].checks : Proof!Holds(c, r)
      /\ \E k \in SUBSET Proof!Lie : Leaves(k, r)
  BY <1>3, InstallLeaves
<1>6. PICK k \in SUBSET Proof!Lie : Leaves(k, r)
  BY <1>5
<1>7. told' \subseteq Proof!Lie /\ proofCache' \in Proof!Installation
  BY <1>2, <1>6 DEF Leaves, Proof!HarnessTypeOK
<1>8. line' \in 0..9 /\ Lines' = 8
  BY <1>1, <1>5 DEF Lines
<1>9. Proof!HarnessTypeOK'
  <2>1. Len(Proof!Script)' = 8
    BY <1>5, CodexLines DEF Proof!Script
  <2> QED BY <1>2, <1>5, <1>7, <1>8, <2>1 DEF Proof!HarnessTypeOK
<1>10. ASSUME line' # 0 PROVE CodexKnows'
  <2>1. line' = line + 1 /\ \A c \in Proof!Script[line].checks : Proof!Holds(c, r)
    BY <1>5, <1>10
  <2>2. {"version", "bytes"} \subseteq Proof!Script[line].checks
    BY <1>1 DEF CodexLine, Proof!Installs
  <2>3. proofCache'.version = r /\ proofCache'.bytes = r
    <3>1. Proof!Holds("version", r) /\ Proof!Holds("bytes", r)
      BY <2>1, <2>2
    <3> QED BY <3>1 DEF Proof!Holds
  <2>4. "version" \notin told' /\ "stale" \notin told'
    BY <1>1, <1>2, <1>6, <2>3 DEF Leaves, CodexKnows
  <2>5. line' >= 3 => prior' \in BOOLEAN
    BY <1>1, <1>2, <1>5, <2>1 DEF CodexKnows
  <2>6. ASSUME line' = 9
        PROVE  proofCache' = [version |-> "base", bytes |-> "base", enabled |-> prior']
    <3>1. line = 8 /\ r = "base"
      BY <1>1, <1>4, <2>1, <2>6
    <3>2. "prior" \in Proof!Script[line].checks
      BY <1>1, <3>1 DEF CodexLine, Proof!Installs
    <3>3. proofCache'.enabled = prior
      BY <2>1, <3>2 DEF Proof!Holds
    <3> QED BY <1>5, <1>7, <2>3, <3>1, <3>3 DEF Proof!Installation
  <2> QED BY <1>7, <2>4, <2>5, <2>6 DEF CodexKnows
<1>11. client' = "codex"
  BY <1>5
<1>12. line' = 0 => CodexKnows'
  BY DEF CodexKnows
<1> QED BY <1>8, <1>9, <1>10, <1>11, <1>12 DEF HarnessInv

\* What every other step leaves of the types.
LEMMA StillTyped ==
  ASSUME HarnessInv, client' = client, line' \in 0..(Lines + 1), last' = last, data' \in BOOLEAN,
         proofCache' \in Proof!Installation \cup {None}, prior' \in {None} \cup BOOLEAN,
         told' \subseteq Proof!Lie
  PROVE  Proof!HarnessTypeOK' /\ Lines' = Lines /\ line' \in 0..(Lines' + 1)
<1>1. client \in Proof!Client /\ last \in Proof!Release
  BY DEF HarnessInv, Proof!HarnessTypeOK
<1>2. Len(Proof!Script)' = Lines /\ Lines' = Lines
  <2>1. Len(Proof!Script) = Lines
    BY <1>1, ScriptLines
  <2> QED BY <2>1 DEF Proof!Script, Lines
<1> QED BY <1>1, <1>2 DEF Proof!HarnessTypeOK

LEMMA CaptureStep == ASSUME HarnessInv, Proof!Capture PROVE HarnessInv'
<1>1. Lines \in {8, 11} /\ line = 2 /\ client \in {"claude", "codex"}
  BY AtLine, LineIs DEF Proof!Capture, Proof!Client
<1>2. /\ Proof!HarnessTypeOK /\ proofCache \in Proof!Installation
      /\ client = "claude" => ClaudeKnows
      /\ client = "codex" => CodexKnows
  BY <1>1 DEF HarnessInv, ClaudeKnows, CodexKnows
<1>3. /\ data' = TRUE /\ prior' = proofCache.enabled /\ line' = 3
      /\ UNCHANGED <<client, proofCache, last, told>>
  BY <1>1 DEF Proof!Capture
<1>4. prior' \in BOOLEAN
  BY <1>2, <1>3 DEF Proof!Installation
<1>5. Proof!HarnessTypeOK' /\ line' \in 0..(Lines' + 1)
  BY <1>1, <1>2, <1>3, <1>4, StillTyped DEF Proof!HarnessTypeOK
<1>6. client = "claude" => ClaudeKnows'
  BY <1>1, <1>2, <1>3, <1>4 DEF ClaudeKnows
<1>7. client = "codex" => CodexKnows'
  BY <1>1, <1>2, <1>3, <1>4 DEF CodexKnows
<1> QED BY <1>3, <1>5, <1>6, <1>7 DEF HarnessInv

LEMMA RemoveStep == ASSUME HarnessInv, Proof!Remove PROVE HarnessInv'
<1>1. /\ client \in {"claude", "codex"} /\ Lines \in {8, 11} /\ line \in 1..Lines
      /\ client = "claude" => line \in {3, 6, 9}
      /\ client = "codex" => line \in {3, 5, 7}
  <2>1. /\ client \in {"claude", "codex"} /\ Lines \in {8, 11} /\ line \in 1..Lines
        /\ client = "claude" => ClaudeLine(line).do = "remove"
        /\ client = "codex" => CodexLine(line).do = "remove"
    BY AtLine DEF Proof!Remove, Proof!Client
  <2>2. client = "claude" => line \in 1..11 /\ line \notin {1, 4, 7, 10, 2, 5, 8, 11}
    BY <2>1, LineIs DEF Lines
  <2>3. client = "codex" => line \in 1..8 /\ line \notin {1, 4, 6, 8, 2}
    BY <2>1, LineIs DEF Lines
  <2> QED BY <2>1, <2>2, <2>3
<1>2. /\ Proof!HarnessTypeOK /\ line \in 0..(Lines + 1)
      /\ client = "claude" => ClaudeKnows
      /\ client = "codex" => CodexKnows
  BY DEF HarnessInv
<1>3. PICK k \in SUBSET (Lies \cap {"forgets", "keeps"}) :
        /\ proofCache' = IF "keeps" \in k THEN proofCache ELSE None
        /\ data' = (data /\ "forgets" \notin k)
        /\ told' = told \cup k
  BY DEF Proof!Remove, Proof!Tells
<1>4. line' = line + 1 /\ UNCHANGED <<client, last, prior>>
  BY DEF Proof!Remove
<1>5. /\ proofCache' \in Proof!Installation \cup {None} /\ data' \in BOOLEAN
      /\ told' \subseteq Proof!Lie
      /\ \A w \in {"flips", "version", "stale"} : w \in told' <=> w \in told
  BY <1>2, <1>3 DEF Proof!HarnessTypeOK, Proof!Lie
<1>6. Proof!HarnessTypeOK' /\ line' \in 0..(Lines' + 1)
  BY <1>1, <1>2, <1>4, <1>5, StillTyped DEF Proof!HarnessTypeOK
<1>7. client = "claude" => ClaudeKnows'
  BY <1>1, <1>2, <1>4, <1>5 DEF ClaudeKnows
<1>8. client = "codex" => CodexKnows'
  BY <1>1, <1>2, <1>4, <1>5 DEF CodexKnows
<1> QED BY <1>4, <1>6, <1>7, <1>8 DEF HarnessInv

\* Only Claude's script enables what it installed.
LEMMA EnableStep == ASSUME HarnessInv, Proof!Enable PROVE HarnessInv'
<1>1. /\ client = "claude" /\ Lines = 11 /\ line \in {5, 8, 11}
      /\ Proof!Script[line] = ClaudeLine(line)
  <2>1. /\ client \in {"claude", "codex"} /\ Lines \in {8, 11} /\ line \in 1..Lines
        /\ Proof!Script[line] = IF client = "claude" THEN ClaudeLine(line) ELSE CodexLine(line)
        /\ Proof!Script[line].do = "enable"
    BY AtLine DEF Proof!Enable, Proof!Client
  <2> QED BY <2>1, LineIs DEF Lines
<1>2. Proof!HarnessTypeOK /\ ClaudeKnows /\ proofCache \in Proof!Installation
  BY <1>1 DEF HarnessInv, ClaudeKnows
<1>3. /\ UNCHANGED <<client, last, data, prior>>
      /\ \E k \in SUBSET (Lies \cap {"idle"}) :
           /\ proofCache' = [proofCache EXCEPT !.enabled = IF "idle" \in k THEN @ ELSE TRUE]
           /\ told' = told \cup k
  BY DEF Proof!Enable, Proof!Tells
<1>4. \/ line' = 0
      \/ /\ line' = line + 1
         /\ \A c \in Proof!Script[line].checks : Proof!Holds(c, Proof!Script[line].release)
  BY Compared DEF Proof!Enable
<1>5. /\ proofCache'.version = proofCache.version /\ proofCache'.bytes = proofCache.bytes
      /\ proofCache' \in Proof!Installation
      /\ told' \subseteq Proof!Lie
      /\ \A w \in {"flips", "version", "stale"} : w \in told' <=> w \in told
  <2>1. PICK k \in SUBSET (Lies \cap {"idle"}) :
          /\ proofCache' = [proofCache EXCEPT !.enabled = IF "idle" \in k THEN @ ELSE TRUE]
          /\ told' = told \cup k
    BY <1>3
  <2>2. PICK e \in BOOLEAN : proofCache' = [proofCache EXCEPT !.enabled = e]
    <3>1. CASE "idle" \in k
      <4>1. proofCache.enabled \in BOOLEAN /\ proofCache' = [proofCache EXCEPT !.enabled = proofCache.enabled]
        BY <1>2, <2>1, <3>1 DEF Proof!Installation
      <4> QED BY <4>1
    <3>2. CASE "idle" \notin k
      BY <2>1, <3>2
    <3> QED BY <3>1, <3>2
  <2>3. /\ proofCache'.version = proofCache.version /\ proofCache'.bytes = proofCache.bytes
        /\ proofCache' \in Proof!Installation
    BY <1>2, <2>2 DEF Proof!Installation
  <2>4. told \subseteq Proof!Lie
    BY <1>2 DEF Proof!HarnessTypeOK
  <2>5. told' \subseteq Proof!Lie
    BY <2>1, <2>4 DEF Proof!Lie
  <2>6. \A w \in {"flips", "version", "stale"} : w \in told' <=> w \in told
    BY <2>1
  <2> QED BY <2>3, <2>5, <2>6
<1>6. Proof!HarnessTypeOK' /\ line' \in 0..(Lines' + 1) /\ Lines' = Lines
  <2>1. line' \in 0..(Lines + 1)
    BY <1>1, <1>4
  <2>2. /\ client' = client /\ last' = last /\ data' \in BOOLEAN
        /\ prior' \in {None} \cup BOOLEAN
    BY <1>2, <1>3 DEF Proof!HarnessTypeOK
  <2>3. proofCache' \in Proof!Installation \cup {None} /\ told' \subseteq Proof!Lie
    BY <1>5
  <2> QED BY <2>1, <2>2, <2>3, StillTyped
<1>7. ASSUME line' # 0 PROVE ClaudeKnows'
  <2>1. /\ line' = line + 1
        /\ \A c \in Proof!Script[line].checks : Proof!Holds(c, Proof!Script[line].release)
    BY <1>4, <1>7
  <2>2. /\ line \in {5, 8} => "version" \in Proof!Script[line].checks
        /\ line = 8 => "data" \in Proof!Script[line].checks
        /\ Proof!Script[line].release = IF line = 5 THEN "target" ELSE "base"
    BY <1>1 DEF ClaudeLine, Proof!Enables
  <2>3. line \in {5, 8} => proofCache'.version = IF line = 5 THEN "target" ELSE "base"
    BY <2>1, <2>2 DEF Proof!Holds
  <2>4. line = 8 => data'
    BY <2>1, <2>2 DEF Proof!Holds
  <2>5. "version" \notin told'
    BY <1>1, <1>2, <1>3, <1>5, <2>3 DEF ClaudeKnows
  <2>6. line' \in {6, 9, 12} /\ (line' = 9 <=> line = 8) /\ (line' = 12 <=> line = 11)
    BY <1>1, <2>1
  <2>7. line' \in {9, 12} => data'
    BY <1>2, <1>3, <2>4, <2>6 DEF ClaudeKnows
  <2>8. line' = 12 => proofCache'.version = "base" /\ proofCache'.bytes = "base"
    BY <1>2, <1>5, <2>6 DEF ClaudeKnows
  <2> QED BY <1>1, <1>2, <1>3, <2>5, <2>6, <2>7, <2>8 DEF ClaudeKnows
<1>8. line' = 0 => ClaudeKnows'
  BY DEF ClaudeKnows
<1> QED BY <1>1, <1>3, <1>6, <1>7, <1>8 DEF HarnessInv

LEMMA FailsStep == ASSUME HarnessInv, Proof!Fails PROVE HarnessInv'
<1>1. Proof!HarnessTypeOK /\ Lines \in {8, 11} /\ line' = 0
      /\ UNCHANGED <<client, proofCache, last, data, prior, told>>
  BY DEF HarnessInv, Proof!Fails, Lines
<1>2. Proof!HarnessTypeOK' /\ line' \in 0..(Lines' + 1)
  BY <1>1, StillTyped DEF Proof!HarnessTypeOK
<1>3. ClaudeKnows' /\ CodexKnows'
  BY <1>1 DEF ClaudeKnows, CodexKnows
<1> QED BY <1>2, <1>3 DEF HarnessInv

LEMMA HarnessStep ==
  ASSUME HarnessInv, Proof!HarnessNext \/ UNCHANGED proofVars PROVE HarnessInv'
<1>1. CASE Proof!Install
  <2>1. client \in {"claude", "codex"}
    BY DEF HarnessInv, Proof!HarnessTypeOK, Proof!Client
  <2> QED BY <1>1, <2>1, ClaudeInstalls, CodexInstalls
<1>2. CASE UNCHANGED proofVars
  BY <1>2 DEF HarnessInv, ClaudeKnows, CodexKnows, Lines, proofVars, Proof!HarnessTypeOK,
     Proof!Script
<1> QED BY <1>1, <1>2, CaptureStep, RemoveStep, EnableStep, FailsStep DEF Proof!HarnessNext

LEMMA HarnessSound == ASSUME HarnessInv PROVE Proof!ProofSound
<1>1. client \in {"claude", "codex"} /\ Len(Proof!Script) = Lines
  BY ScriptLines DEF HarnessInv, Proof!HarnessTypeOK, Proof!Client
<1> SUFFICES ASSUME Proof!Passed
             PROVE  /\ proofCache.version = "base" /\ proofCache.bytes = "base"
                    /\ "version" \notin told
                    /\ client = "claude" => "flips" \notin told /\ data
                    /\ client = "codex" => "stale" \notin told /\ proofCache.enabled = prior
  BY DEF Proof!ProofSound
<1>2. CASE client = "claude"
  <2>1. line = 12 /\ ClaudeKnows
    BY <1>1, <1>2 DEF Proof!Passed, Lines, HarnessInv
  <2> QED BY <1>2, <2>1 DEF ClaudeKnows
<1>3. CASE client = "codex"
  <2>1. line = 9 /\ CodexKnows
    BY <1>1, <1>3 DEF Proof!Passed, Lines, HarnessInv
  <2> QED BY <1>3, <2>1 DEF CodexKnows
<1> QED BY <1>1, <1>2, <1>3

-----------------------------------------------------------------------------
(* RuntimeLaunch. *)

\* What a launch knows by the operation it has come to: the bundle it has hashed is
\* still the inventory's, the runtime it has assessed is still a verified one, unless
\* it has been aware of damage since.
LaunchKnows ==
  \A r \in Run :
    /\ launchAt[r] \in {"assess", "probe", "exec"} => sawBad[r] \/ ~altered
    /\ launchAt[r] \in {"probe", "exec"} => sawBad[r] \/ blob = "valid"

LaunchInv == Host!LaunchTypeOK /\ LaunchKnows

LEMMA LaunchInitInv == Host!LaunchInit => LaunchInv
<1> SUFFICES ASSUME Host!LaunchInit PROVE LaunchInv
  OBVIOUS
<1>1. Host!LaunchTypeOK
  BY DEF Host!LaunchInit, Host!LaunchTypeOK, Host!Init, Host!At, Host!BlobState
<1>2. LaunchKnows
  BY DEF Host!LaunchInit, LaunchKnows
<1> QED BY <1>1, <1>2 DEF LaunchInv

\* One operation of a launch, and where it leads.
LEMMA LaunchMoves ==
  ASSUME LaunchInv, NEW r \in Run, Host!Launch(r)
  PROVE  /\ UNCHANGED <<holder, blob, payload, altered, sawBad>>
         /\ sourced' \in [Run -> Payload]
         /\ \E a \in Host!At :
              /\ launchAt' = [launchAt EXCEPT ![r] = a]
              /\ a = "assess" => ~altered
              /\ a = "probe" => launchAt[r] = "assess" /\ blob = "valid"
              /\ a = "exec" => launchAt[r] = "probe"
              /\ a = "launched" => launchAt[r] = "exec" /\ payload = sourced[r]
<1>1. Host!LaunchTypeOK
  BY DEF LaunchInv
<1>2. CASE Host!LoadProjections(r)
  <2>1. "bundle" \in Host!At
    BY DEF Host!At
  <2>2. sourced' \in [Run -> Payload]
    BY <1>1, <1>2 DEF Host!LoadProjections, Host!LaunchTypeOK
  <2> QED BY <1>2, <2>1, <2>2 DEF Host!LoadProjections, Host!GoTo
<1>3. CASE Host!CheckBundle(r)
  <2> DEFINE a == IF Host!BundlePresent(r) /\ ~altered THEN "assess" ELSE "refused"
  <2>1. a \in Host!At /\ a \in {"assess", "refused"} /\ (a = "assess" => ~altered)
    BY DEF Host!At
  <2>2. launchAt' = [launchAt EXCEPT ![r] = a]
    BY <1>3 DEF Host!CheckBundle, Host!GoTo
  <2> HIDE DEF a
  <2> QED BY <1>1, <1>3, <2>1, <2>2 DEF Host!CheckBundle, Host!LaunchTypeOK
<1>4. CASE Host!AssessRuntime(r)
  <2> DEFINE a == IF blob = "valid" THEN "probe" ELSE "refused"
  <2>1. a \in Host!At /\ a \in {"probe", "refused"} /\ (a = "probe" => blob = "valid")
    BY DEF Host!At
  <2>2. launchAt' = [launchAt EXCEPT ![r] = a]
    BY <1>4 DEF Host!AssessRuntime, Host!GoTo
  <2> HIDE DEF a
  <2> QED BY <1>1, <1>4, <2>1, <2>2 DEF Host!AssessRuntime, Host!LaunchTypeOK
<1>5. CASE Host!ProbeVersion(r)
  <2>1. PICK a \in {"exec", "refused"} : launchAt' = [launchAt EXCEPT ![r] = a]
    BY <1>5 DEF Host!ProbeVersion, Host!GoTo
  <2>2. a \in Host!At
    BY <2>1 DEF Host!At
  <2> QED BY <1>1, <1>5, <2>1, <2>2 DEF Host!ProbeVersion, Host!LaunchTypeOK
<1>6. CASE Host!Exec(r)
  <2> DEFINE a == IF blob \in {"valid", "corrupt"} /\ Host!BundlePresent(r)
                  THEN "launched" ELSE "refused"
  <2>1. a \in Host!At /\ a \in {"launched", "refused"} /\ (a = "launched" => payload = sourced[r])
    BY DEF Host!At, Host!BundlePresent
  <2>2. launchAt' = [launchAt EXCEPT ![r] = a]
    BY <1>6 DEF Host!Exec, Host!GoTo
  <2> HIDE DEF a
  <2> QED BY <1>1, <1>6, <2>1, <2>2 DEF Host!Exec, Host!LaunchTypeOK
<1> QED BY <1>2, <1>3, <1>4, <1>5, <1>6 DEF Host!Launch

LEMMA LaunchInvStep ==
  ASSUME LaunchInv, NEW r \in Run, Host!Launch(r) PROVE LaunchInv'
<1>1. Host!LaunchTypeOK /\ LaunchKnows
  BY DEF LaunchInv
<1>2. /\ UNCHANGED <<holder, blob, payload, altered, sawBad>>
      /\ sourced' \in [Run -> Payload]
      /\ \E a \in Host!At :
           /\ launchAt' = [launchAt EXCEPT ![r] = a]
           /\ a = "assess" => ~altered
           /\ a = "probe" => launchAt[r] = "assess" /\ blob = "valid"
           /\ a = "exec" => launchAt[r] = "probe"
           /\ a = "launched" => launchAt[r] = "exec" /\ payload = sourced[r]
  BY LaunchMoves
<1>3. PICK a \in Host!At :
           /\ launchAt' = [launchAt EXCEPT ![r] = a]
           /\ a = "assess" => ~altered
           /\ a = "probe" => launchAt[r] = "assess" /\ blob = "valid"
           /\ a = "exec" => launchAt[r] = "probe"
  BY <1>2
<1>4. launchAt' \in [Run -> Host!At] /\ \A x \in Run : launchAt'[x] = IF x = r THEN a ELSE launchAt[x]
  BY <1>1, <1>3 DEF Host!LaunchTypeOK
<1>5. Host!LaunchTypeOK'
  BY <1>1, <1>2, <1>4 DEF Host!LaunchTypeOK
<1>6. LaunchKnows'
  BY <1>1, <1>2, <1>3, <1>4 DEF LaunchKnows
<1> QED BY <1>5, <1>6 DEF LaunchInv

\* Whoever looks while damage is done is aware of it.
LEMMA Noticed ==
  ASSUME LaunchInv, Host!Notice
  PROVE  /\ sawBad' \in [Run -> BOOLEAN]
         /\ \A r \in Run : launchAt[r] \in {"assess", "probe", "exec"} => sawBad'[r]
BY DEF LaunchInv, Host!LaunchTypeOK, Host!Notice, Host!Looking

LEMMA LaunchNextInv == ASSUME LaunchInv, Host!LaunchNext \/ UNCHANGED hostVars PROVE LaunchInv'
<1>1. Host!LaunchTypeOK /\ LaunchKnows
  BY DEF LaunchInv
<1>2. ASSUME Host!RepairStep PROVE LaunchInv'
  <2>1. PICK p \in Proc : Host!Acquire(p) \/ Host!Release(p) \/ Host!Publish(p) \/ Host!Discard(p)
    BY <1>2 DEF Host!RepairStep
  <2>2. UNCHANGED <<payload, altered, launchAt, sourced, sawBad>>
    BY <1>2 DEF Host!RepairStep, Host!launchVars
  <2>3. /\ holder' \in Proc \cup {None} /\ blob' \in Host!BlobState
        /\ blob = "valid" => blob' = "valid"
    BY <1>1, <2>1 DEF Host!LaunchTypeOK, Host!Acquire, Host!Release, Host!Publish, Host!Discard,
                      Host!BlobState
  <2>4. Host!LaunchTypeOK'
    BY <1>1, <2>2, <2>3 DEF Host!LaunchTypeOK
  <2>5. LaunchKnows'
    BY <1>1, <2>2, <2>3 DEF LaunchKnows
  <2> QED BY <2>4, <2>5 DEF LaunchInv
<1>3. ASSUME Host!DamageRuntime PROVE LaunchInv'
  <2>1. UNCHANGED <<holder, payload, altered, launchAt, sourced>> /\ blob' \in Host!BlobState
    BY <1>3 DEF Host!DamageRuntime, Host!Damage
  <2>2. /\ sawBad' \in [Run -> BOOLEAN]
        /\ \A r \in Run : launchAt[r] \in {"assess", "probe", "exec"} => sawBad'[r]
    BY <1>3, Noticed DEF Host!DamageRuntime
  <2>3. Host!LaunchTypeOK'
    BY <1>1, <2>1, <2>2 DEF Host!LaunchTypeOK
  <2>4. LaunchKnows'
    BY <2>1, <2>2 DEF LaunchKnows
  <2> QED BY <2>3, <2>4 DEF LaunchInv
<1>4. ASSUME Host!AlterBundle PROVE LaunchInv'
  <2>1. UNCHANGED <<holder, blob, payload, launchAt, sourced>> /\ altered' \in BOOLEAN
    BY <1>4 DEF Host!AlterBundle
  <2>2. /\ sawBad' \in [Run -> BOOLEAN]
        /\ \A r \in Run : launchAt[r] \in {"assess", "probe", "exec"} => sawBad'[r]
    BY <1>4, Noticed DEF Host!AlterBundle
  <2>3. Host!LaunchTypeOK'
    BY <1>1, <2>1, <2>2 DEF Host!LaunchTypeOK
  <2>4. LaunchKnows'
    BY <2>1, <2>2 DEF LaunchKnows
  <2> QED BY <2>3, <2>4 DEF LaunchInv
<1>5. ASSUME Host!UpdatePayload PROVE LaunchInv'
  BY <1>1, <1>5 DEF Host!UpdatePayload, LaunchInv, Host!LaunchTypeOK, LaunchKnows
<1>6. ASSUME UNCHANGED hostVars PROVE LaunchInv'
  BY <1>1, <1>6 DEF hostVars, LaunchInv, Host!LaunchTypeOK, LaunchKnows
<1> QED BY <1>2, <1>3, <1>4, <1>5, <1>6, LaunchInvStep DEF Host!LaunchNext

\* A step that starts a skill starts it on what the launch has verified.
LEMMA LaunchNextVerified == ASSUME LaunchInv, Host!LaunchNext PROVE Host!LaunchesVerified
<1>1. Host!LaunchTypeOK /\ LaunchKnows
  BY DEF LaunchInv
<1> SUFFICES ASSUME NEW r \in Run, launchAt[r] # "launched", launchAt'[r] = "launched"
             PROVE  sawBad[r] \/ (blob = "valid" /\ ~altered /\ payload = sourced[r])
  BY DEF Host!LaunchesVerified
<1>2. PICK x \in Run : Host!Launch(x)
  BY DEF Host!LaunchNext, Host!RepairStep, Host!DamageRuntime, Host!UpdatePayload,
         Host!AlterBundle, Host!launchVars
<1>3. PICK a \in Host!At :
         /\ launchAt' = [launchAt EXCEPT ![x] = a]
         /\ a = "launched" => launchAt[x] = "exec" /\ payload = sourced[x]
  BY <1>2, LaunchMoves
<1>4. x = r /\ a = "launched"
  BY <1>1, <1>3 DEF Host!LaunchTypeOK
<1> QED BY <1>1, <1>3, <1>4 DEF LaunchKnows

-----------------------------------------------------------------------------
(* The parts together.                                                     *)

everything == <<part, vars, updateVars, hostVars, deliveryVars, devVars, proofVars>>

HostInv ==
  /\ part = "claude" => Typed
  /\ part = "codex" => Inductive
  /\ part = "launch" => LaunchInv
  /\ part = "login" => DeliveryInv
  /\ DevInv
  /\ part = "proof" => HarnessInv

LEMMA HostInitInv == HostInit => HostInv
<1> SUFFICES ASSUME HostInit PROVE HostInv
  OBVIOUS
<1>1. part = "claude" => Typed
  BY InitTyped DEF HostInit
<1>2. part = "codex" => Inductive
  BY InitInductive DEF HostInit
<1>3. part = "launch" => LaunchInv
  BY LaunchInitInv DEF HostInit
<1>4. part = "login" => DeliveryInv
  BY DeliveryInitInv DEF HostInit
<1>5. DevInv
  BY DevInitInv DEF HostInit
<1>6. part = "proof" => HarnessInv
  BY HarnessInitInv DEF HostInit
<1> QED BY <1>1, <1>2, <1>3, <1>4, <1>5, <1>6 DEF HostInv

\* One part moves, and the others stay as they are.
LEMMA PartsStep ==
  ASSUME [HostNext]_everything
  PROVE  /\ part' = part
         /\ [Next]_vars /\ [UpdateNext]_updateVars /\ [DeliveryNext]_deliveryVars
         /\ [DevNext]_devVars
         /\ Host!LaunchNext \/ UNCHANGED hostVars
         /\ Proof!HarnessNext \/ UNCHANGED proofVars
BY DEF HostNext, everything

LEMMA HostStep == ASSUME HostInv, [HostNext]_everything PROVE HostInv'
<1>1. /\ part' = part
      /\ [Next]_vars /\ [UpdateNext]_updateVars /\ [DeliveryNext]_deliveryVars
      /\ [DevNext]_devVars
      /\ Host!LaunchNext \/ UNCHANGED hostVars
      /\ Proof!HarnessNext \/ UNCHANGED proofVars
  BY PartsStep
<1>2. part = "claude" => Typed'
  BY <1>1, NextTyped DEF HostInv
<1>3. part = "codex" => Inductive'
  BY <1>1, StepKept DEF HostInv
<1>4. part = "launch" => LaunchInv'
  BY <1>1, LaunchNextInv DEF HostInv
<1>5. part = "login" => DeliveryInv'
  BY <1>1, DeliveryInductive DEF HostInv
<1>6. DevInv'
  BY <1>1, DevInductive DEF HostInv
<1>7. part = "proof" => HarnessInv'
  BY <1>1, HarnessStep DEF HostInv
<1> QED BY <1>1, <1>2, <1>3, <1>4, <1>5, <1>6, <1>7 DEF HostInv

LEMMA HostInductive == HostSpec => []HostInv
<1>1. HostInv /\ [HostNext]_everything => HostInv'
  BY HostStep
<1>2. HostSpec => HostInit /\ [][HostNext]_everything
  BY DEF HostSpec, everything
<1> QED BY <1>1, <1>2, HostInitInv, PTL

\* Every variable of every part keeps its type: for any checkouts, sources and
\* versions, vault, payloads and launches.
THEOREM HostTypeCorrect == HostSpec => []HostTypeOK
<1>1. HostInv => HostTypeOK
  BY DEF HostInv, HostTypeOK, Typed, Inductive, LaunchInv, DeliveryInv, DevInv, HarnessInv
<1> QED BY <1>1, HostInductive, PTL

\* A proof that passes has seen the client leave, after the injected failure, exactly
\* the base release as it was before, and would have failed had the client installed
\* another version anywhere in the script: whatever lies it may tell.  (That Claude's
\* plugin ended enabled it has not seen.)
THEOREM PassedProofIsSound == HostSpec => []ProofSound
<1>1. HostInv => ProofSound
  BY HarnessSound DEF HostInv, ProofSound
<1> QED BY <1>1, HostInductive, PTL

\* A skill starts only on a verified runtime and with the bundle its inventory
\* records, unless something outside custody damaged them after the launch had looked:
\* for any number of launches, repairs and payload updates beside each other.
THEOREM LaunchIsVerified == HostSpec => LaunchedVerified
<1>1. HostInv /\ [HostNext]_everything => [part = "launch" => Host!LaunchesVerified]_hostVars
  <2> SUFFICES ASSUME HostInv, HostNext, part = "launch" PROVE Host!LaunchesVerified \/ UNCHANGED hostVars
    BY DEF everything
  <2> QED BY LaunchNextVerified DEF HostNext, HostInv
<1>2. [][part = "launch" => Host!LaunchesVerified]_hostVars <=> LaunchedVerified
  BY DEF LaunchedVerified
<1>3. HostSpec => [][HostNext]_everything
  BY DEF HostSpec, everything
<1> QED BY <1>1, <1>2, <1>3, HostInductive, PTL
=============================================================================
