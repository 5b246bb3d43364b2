---------------------------- MODULE RuntimeStore ----------------------------
(***************************************************************************)
(* What `repair --apply` promises to everybody who shares the cache: one   *)
(* writer at a time, and a blob path that only its writer changes, from    *)
(* something unverified to a verified runtime.  RuntimeCustody implements  *)
(* it with directories, records and reclaim markers.                       *)
(***************************************************************************)
CONSTANTS Proc, None, Faults

VARIABLES
  holder,  \* the run that may write the store, or None
  blob     \* what verification would say of the blob path

BlobState == {"missing", "corrupt", "nonregular", "valid"}

Init == holder = None /\ blob \in BlobState

Acquire(p) == holder = None /\ holder' = p /\ UNCHANGED blob

\* The writer finishes, gives up or dies.
Release(p) == holder = p /\ holder' = None /\ UNCHANGED blob

\* Only verified bytes are published.
Publish(p) == holder = p /\ blob' = "valid" /\ UNCHANGED holder

\* Something at the path that is not a verified runtime is removed.
Discard(p) == holder = p /\ blob # "valid" /\ blob' = "missing" /\ UNCHANGED holder

Damage == "tamper" \in Faults /\ blob' \in BlobState \ {"valid"} /\ UNCHANGED holder

Next == (\E p \in Proc : Acquire(p) \/ Release(p) \/ Publish(p) \/ Discard(p)) \/ Damage

Spec == Init /\ [][Next]_<<holder, blob>>
=============================================================================
