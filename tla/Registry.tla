------------------------------ MODULE Registry ------------------------------
(***************************************************************************)
(* Signed plan artifacts and where they are kept: verification under a      *)
(* trusted policy (pkg/artifact), the managed registry with its tags over   *)
(* the local content-addressed store, and the customer-owned copy of        *)
(* pkg/backup with its verified fallback.                                   *)
(*                                                                          *)
(* An artifact is identified by its digest; the bytes of a file are "whole" *)
(* when they are the canonical bytes of that artifact and "part" otherwise. *)
(* Signatures are valid exactly for the artifact they were made for, so the *)
(* policy questions left are those about keys, time, bindings and edits.    *)
(***************************************************************************)
EXTENDS Integers, FiniteSets, Sequences

CONSTANTS
    Workers,     \* processes that use the registry and the backup
    Digests,     \* digests of the artifacts
    Artifact,    \* Artifact[d]: what the artifact with digest d says
    Required,    \* attestation stages the registry requires
    Scenes,      \* [jobs, faults, noEdits]: what each worker does, in order
    MaxTime, MaxStaleness,
    None

VARIABLES
    scene,    \* the instance, chosen once
    now,
    key,      \* status of the signing key in the policy
    inputs,   \* digest of the current project inputs
    file,     \* file[d]: the store's file for d: [bytes, links]
    lock,     \* holder of the store's lock
    tags,     \* history of the tag, oldest first
    backup,   \* backup[d]: bytes in the customer's store
    manifest, \* digests the replicator recorded
    acked,    \* digests a Put reported as stored
    worker    \* worker[w]: [pc, job, token, result, record]

rvars == <<scene, now, key, inputs, file, lock, tags, backup, manifest, acked, worker>>

Absent == [bytes |-> "none", links |-> 0]
On(w, pc) == worker[w].pc = pc
Job(w) == scene.jobs[w][worker[w].job]
To(w, pc) == worker' = [worker EXCEPT ![w].pc = pc]
Ends(w) == worker' = [worker EXCEPT ![w].pc = "next", ![w].job = @ + 1, ![w].token = None]
Starts(w, op) == On(w, "next") /\ worker[w].job <= Len(scene.jobs[w]) /\ Job(w).op = op

(***************************************************************************)
(* Verification                                                            *)
(***************************************************************************)

\* validateUnsigned and validateStored: an artifact may not be older than its
\* approval, expires after it is created, and names the plan it was made from.
validateStored(a) ==
    /\ a.approved <= a.created /\ a.created < a.expires
    /\ a.origin \in {"unattested", "generated", "edited"}
    /\ a.key # None
    /\ a.origin = "edited" => a.editChain
    /\ a.inputs # None => a.origin = "generated" /\ Cardinality(a.attested) = 3

\* verifyProjectInputs: the binding is to the inputs as they are now.
verifyProjectInputs(a) == a.inputs = inputs

\* verifyTrusted: authenticity first, lifetime last.
verifyTrusted(a) ==
    /\ verifyProjectInputs(a)
    /\ scene.noEdits => a.origin = "generated"
    /\ validateStored(a)
    /\ key = "active"
    /\ a.approved <= now
    /\ a.created <= now
    /\ now < a.expires

(***************************************************************************)
(* The local store                                                         *)
(***************************************************************************)

\* trustedFD refuses a file with more than one link; readFD reads at most 4 MiB,
\* while Parse and Put accept 8.
trustedFD(d) == file[d].links = 1
readFD(d) == Artifact[d].size = "small"

\* LocalRegistry.Get.
Get(d) ==
    IF trustedFD(d) /\ readFD(d) /\ file[d].bytes = "whole" THEN "whole" ELSE "none"

manifestVerify(d, listed) ==
    /\ Required \subseteq listed
    /\ listed \subseteq Artifact[d].attested

\* ManagedRegistry.Push as far as the store's lock: the caller verifies the
\* artifact, the manifest is checked against it.
Push(w) ==
    /\ Starts(w, "push")
    /\ LET d == Job(w).digest
           accepted == /\ verifyTrusted(Artifact[d])
                       /\ manifestVerify(d, Job(w).listed)
       IN  worker' = [worker EXCEPT ![w].pc = IF accepted THEN "lock" ELSE "next",
                                    ![w].job = IF accepted THEN @ ELSE @ + 1,
                                    ![w].result = "none",
                                    ![w].token = IF accepted THEN d ELSE None]
    /\ UNCHANGED <<scene, now, key, inputs, file, lock, tags, backup, manifest, acked>>

\* An existing file taken for the artifact without a look at its bytes.
SameTrusting(d) == TRUE
\* The comparison with the file that has the digest's name.
Same(d) == Get(d) = "whole"

\* LocalRegistry.Put: under the lock an existing file is compared,
PutLock(w) ==
    LET d == worker[w].token
    IN  /\ On(w, "lock") /\ lock = None
        /\ IF file[d] = Absent
           THEN To(w, "write") /\ lock' = w /\ UNCHANGED acked
           ELSE /\ Ends(w)
                /\ acked' = IF Same(d) THEN acked \cup {d} ELSE acked
                /\ UNCHANGED lock
        /\ UNCHANGED <<scene, now, key, inputs, file, tags, backup, manifest>>

\* or written to a temporary name, synchronised and linked to its digest.  A
\* write may store less than it was given and report no error.
Link(w) ==
    LET d == worker[w].token
    IN  /\ On(w, "write")
        /\ \E bytes \in {"whole"} \cup (IF "short" \in scene.faults THEN {"part"} ELSE {}) :
              file' = [file EXCEPT ![d] = [bytes |-> bytes, links |-> 2]]
        /\ To(w, "unlink")
        /\ UNCHANGED <<scene, now, key, inputs, lock, tags, backup, manifest, acked>>

\* The temporary name is removed and the directory synchronised.
Unlink(w) ==
    LET d == worker[w].token
    IN  /\ On(w, "unlink")
        /\ file' = [file EXCEPT ![d].links = 1]
        /\ lock' = None
        /\ acked' = acked \cup {d}
        /\ Ends(w)
        /\ UNCHANGED <<scene, now, key, inputs, tags, backup, manifest>>

Read(w) ==
    /\ Starts(w, "read")
    /\ worker' = [worker EXCEPT ![w].job = @ + 1, ![w].result = Get(Job(w).digest)]
    /\ UNCHANGED <<scene, now, key, inputs, file, lock, tags, backup, manifest, acked>>

(***************************************************************************)
(* Tags                                                                    *)
(***************************************************************************)
Pointer == IF tags = <<>> THEN None ELSE tags[Len(tags)].digest

\* Promote looks for the artifact before it takes the mutex.
Promote(w) ==
    /\ Starts(w, "promote")
    /\ LET found == Get(Job(w).digest) = "whole"
       IN  worker' = [worker EXCEPT ![w].pc = IF found THEN "tag" ELSE "next",
                                    ![w].job = IF found THEN @ ELSE @ + 1,
                                    ![w].record = [sequence |-> Len(tags) + 1,
                                                   previous |-> Pointer,
                                                   digest |-> Job(w).digest]]
    /\ UNCHANGED <<scene, now, key, inputs, file, lock, tags, backup, manifest, acked>>

\* The record, made under the mutex.
TagRecord(w) ==
    [sequence |-> Len(tags) + 1, previous |-> Pointer, digest |-> Job(w).digest]

RecordTag(w) ==
    /\ On(w, "tag")
    /\ tags' = Append(tags, TagRecord(w))
    /\ worker' = [worker EXCEPT ![w].pc = "next", ![w].job = @ + 1]
    /\ UNCHANGED <<scene, now, key, inputs, file, lock, backup, manifest, acked>>

\* ResolveTag reads the pointer, and then the store.
ResolveTag(w) ==
    /\ Starts(w, "resolve")
    /\ worker' = [worker EXCEPT ![w].job = @ + 1,
                                ![w].result = IF Pointer = None THEN "none" ELSE Get(Pointer)]
    /\ UNCHANGED <<scene, now, key, inputs, file, lock, tags, backup, manifest, acked>>

(***************************************************************************)
(* Backup                                                                  *)
(***************************************************************************)

\* Replicate verifies what it reads, stores it, and then records it.
Replicate(w) ==
    LET d == Job(w).digest
    IN  /\ Starts(w, "replicate")
        /\ IF Get(d) = "whole"
           THEN backup' = [backup EXCEPT ![d] = "whole"] /\ manifest' = manifest \cup {d}
           ELSE UNCHANGED <<backup, manifest, acked>>
        /\ worker' = [worker EXCEPT ![w].job = @ + 1, ![w].result = "none"]
        /\ UNCHANGED <<scene, now, key, inputs, file, lock, tags, acked>>

\* Fallback.Read: the primary when it answers with the verified bytes, then the
\* copy when it is verified and not too old.
Recover(w) ==
    LET d == Job(w).digest
        primary == Get(d) = "whole" /\ ~("outage" \in scene.faults)
        copy == backup[d] = "whole" /\ now - Artifact[d].created <= MaxStaleness
    IN  /\ Starts(w, "recover")
        /\ worker' = [worker EXCEPT ![w].job = @ + 1,
                                    ![w].result = IF primary \/ copy THEN "whole" ELSE "none"]
        /\ UNCHANGED <<scene, now, key, inputs, file, lock, tags, backup, manifest, acked>>

(***************************************************************************)
(* The rest of the world                                                   *)
(***************************************************************************)

\* A process stops: the kernel releases its lock, its files stay.
Stop(w) ==
    /\ "stop" \in scene.faults
    /\ worker[w].pc \in {"write", "unlink", "tag"}
    /\ lock' = IF lock = w THEN None ELSE lock
    /\ Ends(w)
    /\ UNCHANGED <<scene, now, key, inputs, file, tags, backup, manifest, acked>>

Pass ==
    /\ now < MaxTime /\ now' = now + 1
    /\ UNCHANGED <<scene, key, inputs, file, lock, tags, backup, manifest, acked, worker>>

Revoke ==
    /\ "revoke" \in scene.faults /\ key = "active" /\ key' = "revoked"
    /\ UNCHANGED <<scene, now, inputs, file, lock, tags, backup, manifest, acked, worker>>

RInit ==
    /\ scene \in Scenes
    /\ now = 0 /\ key = "active" /\ inputs = None
    /\ file = [d \in Digests |-> Absent]
    /\ lock = None /\ tags = <<>>
    /\ backup = [d \in Digests |-> "none"] /\ manifest = {} /\ acked = {}
    /\ worker = [w \in Workers |->
                   [pc |-> "next", job |-> 1, token |-> None, result |-> "none",
                    record |-> [sequence |-> 0, previous |-> None, digest |-> None]]]

RNext ==
    \/ \E w \in Workers : \/ Push(w) \/ PutLock(w) \/ Link(w) \/ Unlink(w) \/ Read(w)
                          \/ Promote(w) \/ RecordTag(w) \/ ResolveTag(w)
                          \/ Replicate(w) \/ Recover(w) \/ Stop(w)
    \/ Pass \/ Revoke

RSpec == RInit /\ [][RNext]_rvars

(***************************************************************************)
(* Properties                                                              *)
(***************************************************************************)

\* LocalRegistry: what a Put reported as stored is read back whole, whoever else
\* was putting it and wherever a process stopped; a recorded replica exists.
AckedReadable ==
    /\ \A d \in acked : Get(d) = "whole"
    /\ \A d \in manifest : backup[d] # "none"

\* ManagedRegistry: the records of a tag are numbered in order, each names the
\* digest the tag had before it, and every one of them can still be read.
TagsLinear ==
    \A i \in 1 .. Len(tags) :
        /\ tags[i].sequence = i
        /\ tags[i].previous = IF i = 1 THEN None ELSE tags[i - 1].digest
        /\ Get(tags[i].digest) = "whole"

=============================================================================
