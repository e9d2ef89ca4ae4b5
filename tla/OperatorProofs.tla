--------------------------- MODULE OperatorProofs ---------------------------
(***************************************************************************)
(* Proofs about the operator, for any number of replicas, artifacts,       *)
(* changes and faults.                                                     *)
(***************************************************************************)
EXTENDS Operator, TLAPS

-----------------------------------------------------------------------------
(* The inductive invariant.                                                *)

Positions == {"idle", "release", "resolve", "core", "observe", "probe", "pre", "applying",
              "publish", "update", "deny"}
StatusFields ==
    {"observed", "applied", "plan", "exec", "recovery", "window", "seen", "cond"}
InputFields  == {"obj", "ref", "status", "completion", "may"}
Objects == [uid : Nat \ {0}, gen : Nat \ {0}, art : Artifacts,
            needs : BOOLEAN, suspend : BOOLEAN, approved : BOOLEAN]

\* Every variable an argument below depends on stays in its domain.
Shapes ==
    /\ scene \in Scenes /\ obj \in Objects /\ ref \in Nat \ {0} /\ leader \in Replicas
    /\ pc \in [Replicas -> Positions] /\ stale \in [Replicas -> BOOLEAN]
    /\ DOMAIN cache = Replicas /\ DOMAIN in = Replicas /\ DOMAIN out = Replicas
    /\ DOMAIN work = Artifacts /\ DOMAIN lapsed = Artifacts
    /\ \A r \in Replicas :
          /\ DOMAIN in[r] = InputFields /\ in[r].ref \in Nat
          /\ pc[r] # "idle" => in[r].obj \in Objects

\* A status tells of an applied artifact only when its SQL is complete in w.
Told(st, w) ==
    /\ DOMAIN st = StatusFields
    /\ st.applied \in Artifacts \cup {None}
    /\ st.applied # None => w[st.applied] = "complete"
    /\ st.cond \in Ready => st.applied # None

\* So does a record, whose key and status name the same artifact.
Sound(rec, w) ==
    /\ Told(rec.st, w)
    /\ rec.applied \in Keys
    /\ ~rec.exists => rec.applied = NoKey
    /\ rec.applied # NoKey =>
          /\ rec.applied.art \in Artifacts /\ w[rec.applied.art] = "complete"
          /\ rec.st.applied = rec.applied.art

Truth ==
    /\ Told(status, work) /\ Sound(disk, work)
    /\ \A r \in Replicas :
          Sound(cache[r], work) /\ Told(in[r].status, work) /\ Told(out[r], work)

\* The references are read after the release is verified and before the core.
Resolved == \A r \in Replicas :
    /\ pc[r] = "release" => in[r].ref = 0
    /\ pc[r] \in {"observe", "probe", "pre", "applying"} => in[r].ref # 0
    /\ pc[r] = "core" /\ ~in[r].obj.suspend => in[r].ref # 0

\* A status that no other write has overtaken is that of the resource it was
\* compared with.
Compared == \A r \in Replicas :
    pc[r] = "update" /\ ~stale[r] => obj = in[r].obj

OperatorInv == Shapes /\ Truth /\ Resolved /\ Compared

\* Keys as they follow each other: uid, generation and references only grow,
\* and a generation has one artifact.
Follows(l, k) ==
    \/ k.uid < l.uid
    \/ k.uid = l.uid /\ k.gen < l.gen
    \/ k.uid = l.uid /\ k.gen = l.gen /\ k.art = l.art
NotAfter(k, l) == Follows(l, k) /\ k.ref <= l.ref

CurrentKey == [uid |-> obj.uid, gen |-> obj.gen, art |-> obj.art, ref |-> ref]

\* The leader alone reconciles; the recorded key is never behind, it is the one
\* that is published as applied, and Apply is approached for it only when its
\* approval has elapsed.
KeptBy(r) ==
    pc[r] # "idle" =>
          /\ r = leader
          /\ Follows(Key(r), disk.applied) /\ Follows(CurrentKey, Key(r))
          /\ in[r].ref # 0 => disk.applied.ref <= in[r].ref /\ in[r].ref <= ref
          /\ /\ pc[r] \in {"publish", "update", "deny"}
             /\ out[r].cond \in Ready /\ in[r].ref # 0
             => disk.applied = Key(r)
          /\ pc[r] \in {"probe", "pre"} /\ disk.applied = Key(r) => lapsed[Art(r)]

\* What the leader has saved is in its memory, and a key that was published is
\* the recorded one or before it.
Kept ==
    /\ disk = cache[leader]
    /\ readied \subseteq Keys
    /\ NotAfter(disk.applied, CurrentKey)
    /\ \A k \in readied : NotAfter(k, disk.applied)
    /\ \A r \in Replicas : KeptBy(r)

KeeperInv == OperatorInv /\ (OneKeeper => Kept)

-----------------------------------------------------------------------------
(* Statuses and records.                                                   *)

\* What has been told stays true as work goes on.
LEMMA ToldKept ==
    ASSUME NEW st, NEW v, NEW w, Told(st, v),
           \A a \in Artifacts : v[a] = "complete" => w[a] = "complete"
    PROVE  Told(st, w)
  BY Zenon DEF Told

\* Likewise for a record.
LEMMA SoundKept ==
    ASSUME NEW rec, NEW v, NEW w, Sound(rec, v),
           \A a \in Artifacts : v[a] = "complete" => w[a] = "complete"
    PROVE  Sound(rec, w)
  BY Zenon DEF Told, Sound

\* The empty status and the empty record tell nothing.
LEMMA NothingTold ==
    ASSUME NEW w
    PROVE  Told(NoStatus, w) /\ Sound(NoRecord, w)
  BY Zenon DEF Told, Sound, NoStatus, NoRecord, NoKey, Keys, StatusFields, Ready

\* A condition that is not ready tells nothing new.
LEMMA NotReady ==
    ASSUME NEW st, NEW w, Told(st, w), NEW c, c \notin Ready
    PROVE  Told([st EXCEPT !.cond = c], w)
  BY Zenon DEF Told, StatusFields

\* The record a reconciliation starts from.
LEMMA OldSound ==
    ASSUME Shapes, Truth, NEW r \in Replicas
    PROVE  Sound(Old(r), work)
<1>1. CASE cache[r].exists
  BY Zenon, <1>1 DEF Old, Truth
<1>2. CASE ~cache[r].exists
  <2>1. Old(r).st = in[r].status /\ Old(r).applied = NoKey
    BY Zenon, <1>2 DEF Old, NoRecord
  <2>2. Told(in[r].status, work) /\ NoKey \in Keys
    BY Zenon DEF Truth, NoKey, Keys
  <2> QED
    BY Zenon, <2>1, <2>2 DEF Sound
<1> QED
  BY Zenon, <1>1, <1>2

\* A checkpoint of a true record, written or not, leaves the store and the
\* statuses to be published true.
LEMMA CheckpointTold ==
    ASSUME Shapes, Truth, NEW r \in Replicas, NEW rec, NEW stage, NEW next,
           Checkpoint(r, rec, stage, next), Sound(rec, work)
    PROVE  /\ Sound(disk', work)
           /\ \A q \in Replicas : Sound(cache'[q], work) /\ Told(out'[q], work)
<1>1. CASE /\ disk' = rec
           /\ cache' = [cache EXCEPT ![r] = rec]
           /\ out' = [out EXCEPT ![r] = rec.st]
  <2>1. Told(rec.st, work)
    BY Zenon DEF Sound
  <2> QED
    BY Zenon, <1>1, <2>1 DEF Shapes, Truth
<1>2. CASE /\ \E p : out' = [out EXCEPT ![r] =
                 [rec.st EXCEPT
                     !.observed = Old(r).st.observed, !.applied = Old(r).st.applied,
                     !.window = Old(r).st.window, !.seen = Old(r).st.seen,
                     !.cond = "Failed", !.recovery = p]]
           /\ UNCHANGED store
  <2>1. PICK p : out' = [out EXCEPT ![r] =
                 [rec.st EXCEPT
                     !.observed = Old(r).st.observed, !.applied = Old(r).st.applied,
                     !.window = Old(r).st.window, !.seen = Old(r).st.seen,
                     !.cond = "Failed", !.recovery = p]]
    BY Zenon, <1>2
  <2>2. Told(Old(r).st, work) /\ DOMAIN rec.st = StatusFields
    BY Zenon, OldSound DEF Sound, Told
  <2>3. Told([rec.st EXCEPT
                     !.observed = Old(r).st.observed, !.applied = Old(r).st.applied,
                     !.window = Old(r).st.window, !.seen = Old(r).st.seen,
                     !.cond = "Failed", !.recovery = p], work)
    BY Zenon, <2>2 DEF Told, StatusFields, Ready
  <2> QED
    BY Zenon, <1>2, <2>1, <2>3 DEF Shapes, Truth, store
<1> QED
  BY Zenon, <1>1, <1>2 DEF Checkpoint, Save

\* A record that keeps the applied key of a true one, with a status that tells
\* of the same artifact.
LEMMA Restated ==
    ASSUME NEW rec, NEW w, Sound(rec, w), NEW st, NEW applying,
           DOMAIN st = StatusFields, st.applied = rec.st.applied,
           st.cond \in Ready => st.applied # None
    PROVE  Sound(Record(st, applying, rec.applied), w)
  BY Zenon DEF Sound, Told, Record

\* The record of a completed artifact.
LEMMA Succeeded ==
    ASSUME NEW w, NEW a \in Artifacts, w[a] = "complete", NEW st, NEW key \in Keys,
           DOMAIN st = StatusFields, st.applied = a, key.art = a
    PROVE  Sound(Record(st, key, key), w)
  BY Zenon, OperatorAssumption DEF Sound, Told, Record

\* A reconciliation that has begun has a key.
LEMMA KeyTyped ==
    ASSUME Shapes, NEW r \in Replicas, pc[r] # "idle"
    PROVE  /\ Art(r) \in Artifacts /\ Art(r) # None
           /\ Key(r) \in Keys /\ Key(r) # NoKey /\ Key(r).art = Art(r)
           /\ Key(r).uid = in[r].obj.uid /\ Key(r).gen = in[r].obj.gen
           /\ Key(r).ref = in[r].ref
  BY OperatorAssumption DEF Shapes, Objects, Key, Art, Keys, NoKey

\* The core leaves the store and the statuses to be published true.
LEMMA CoreTold ==
    ASSUME Shapes, Truth, NEW r \in Replicas, Core(r)
    PROVE  /\ Sound(disk', work)
           /\ \A q \in Replicas : Sound(cache'[q], work) /\ Told(out'[q], work)
<1> DEFINE Goal == /\ Sound(disk', work)
                   /\ \A q \in Replicas : Sound(cache'[q], work) /\ Told(out'[q], work)
<1>1. Sound(Old(r), work) /\ Told(Old(r).st, work) /\ DOMAIN Old(r).st = StatusFields
  BY Zenon, OldSound DEF Sound, Told
<1>2. ASSUME NEW st, DOMAIN st = StatusFields, st.applied = Old(r).st.applied,
             st.cond \notin Ready, NEW key, NEW stage, NEW next,
             Checkpoint(r, Record(st, key, Old(r).applied), stage, next)
      PROVE  Goal
  BY Zenon, <1>1, <1>2, Restated, CheckpointTold
<1>3. CASE UNCHANGED <<store, out>>
  BY Zenon, <1>3 DEF store, Truth
<1>4. CASE Suspended(r)
  <2> DEFINE st == [Old(r).st EXCEPT !.observed = in[r].obj.gen, !.cond = "Suspended"]
  <2>1. DOMAIN st = StatusFields /\ st.applied = Old(r).st.applied /\ st.cond \notin Ready
    BY Zenon, <1>1 DEF StatusFields, Ready
  <2>2. Checkpoint(r, Record(st, Old(r).applying, Old(r).applied), "pre", "publish")
    BY Zenon, <1>4 DEF Suspended
  <2> QED
    BY Zenon, <1>2, <2>1, <2>2
<1>5. CASE Stay(r)
  <2>1. Old(r).applied = Key(r) /\ Key(r) # NoKey /\ Art(r) # None /\ Key(r).art = Art(r)
    BY Zenon, <1>5, KeyTyped DEF Stay, Converged, Core
  <2>2. Old(r).st.applied # None
    BY Zenon, <1>1, <2>1 DEF Sound
  <2>3. CASE Old(r).st.cond \in {"Suspended", "Approval"}
    <3> DEFINE st == [Old(r).st EXCEPT !.cond = IF Old(r).st.seen THEN "Recovered"
                                                ELSE "Applied"]
    <3>1. DOMAIN st = StatusFields /\ st.applied = Old(r).st.applied
      BY Zenon, <1>1 DEF StatusFields
    <3>2. Checkpoint(r, Record(st, Old(r).applying, Old(r).applied), "pre", "publish")
      BY Zenon, <1>5, <2>3 DEF Stay
    <3>3. Sound(Record(st, Old(r).applying, Old(r).applied), work)
      BY Zenon, <1>1, <2>2, <3>1, Restated
    <3> QED
      BY Zenon, <3>2, <3>3, CheckpointTold
  <2>4. CASE Old(r).st.cond \notin {"Suspended", "Approval"}
    BY Zenon, <1>1, <1>5, <2>4 DEF Stay, store, Shapes, Truth
  <2> QED
    BY Zenon, <2>3, <2>4
<1>6. CASE Invalid(r)
  <2> DEFINE st == [Old(r).st EXCEPT !.cond = "Failed"]
  <2>1. DOMAIN st = StatusFields /\ st.applied = Old(r).st.applied /\ st.cond \notin Ready
    BY Zenon, <1>1 DEF StatusFields, Ready
  <2>2. Checkpoint(r, Record(st, Old(r).applying, Old(r).applied), "pre", "publish")
    BY Zenon, <1>6 DEF Invalid
  <2> QED
    BY Zenon, <1>2, <2>1, <2>2
<1>7. CASE AwaitApproval(r)
  <2> DEFINE st == [Old(r).st EXCEPT !.cond = "Approval"]
  <2>1. DOMAIN st = StatusFields /\ st.applied = Old(r).st.applied /\ st.cond \notin Ready
    BY Zenon, <1>1 DEF StatusFields, Ready
  <2>2. Checkpoint(r, Record(st, Key(r), Old(r).applied), "pre", "publish")
    BY Zenon, <1>7 DEF AwaitApproval
  <2> QED
    BY Zenon, <1>2, <2>1, <2>2
<1>8. CASE Decide(r)
  BY Zenon, <1>3, <1>8 DEF Decide, Proceed
<1> QED
  BY Zenon, <1>4, <1>5, <1>6, <1>7, <1>8 DEF Core

\* So do the accesses to the target: an artifact is recorded as applied when its
\* SQL is complete.
LEMMA AccessTold ==
    ASSUME Shapes, Truth, NEW r \in Replicas,
           Observe(r) \/ Probe(r) \/ PreApply(r) \/ Applied(r)
    PROVE  /\ Sound(disk', work)
           /\ \A q \in Replicas : Sound(cache'[q], work) /\ Told(out'[q], work)
<1> DEFINE Goal == /\ Sound(disk', work)
                   /\ \A q \in Replicas : Sound(cache'[q], work) /\ Told(out'[q], work)
<1>1. Sound(Old(r), work) /\ Told(Old(r).st, work) /\ DOMAIN Old(r).st = StatusFields
  BY Zenon, OldSound DEF Sound, Told
<1>2. ASSUME NEW st, DOMAIN st = StatusFields, st.applied = Old(r).st.applied,
             st.cond \notin Ready, NEW key, NEW stage, NEW next,
             Checkpoint(r, Record(st, key, Old(r).applied), stage, next)
      PROVE  Goal
  BY Zenon, <1>1, <1>2, Restated, CheckpointTold
<1>3. CASE UNCHANGED <<store, out>>
  BY Zenon, <1>3 DEF store, Truth
<1>4. ASSUME NEW st, DOMAIN st = StatusFields, st.applied = Art(r), pc[r] # "idle",
             work[Art(r)] = "complete", NEW stage, NEW next,
             Checkpoint(r, Record(st, Key(r), Key(r)), stage, next)
      PROVE  Goal
  BY Zenon, <1>4, KeyTyped, Succeeded, CheckpointTold
<1>5. CASE CompletionFailure(r)
  <2> DEFINE st == [Old(r).st EXCEPT !.cond = "Failed"]
  <2>1. DOMAIN st = StatusFields /\ st.applied = Old(r).st.applied /\ st.cond \notin Ready
    BY Zenon, <1>1 DEF StatusFields, Ready
  <2>2. Checkpoint(r, Record(st, Old(r).applying, Old(r).applied), "recovery", "publish")
    BY Zenon, <1>5 DEF CompletionFailure
  <2> QED
    BY Zenon, <1>2, <2>1, <2>2
<1>6. CASE Observe(r)
  <2> DEFINE a == Art(r)
             st == [Old(r).st EXCEPT
                      !.observed = in[r].obj.gen, !.applied = a, !.plan = a,
                      !.exec = a, !.recovery = "none", !.seen = TRUE,
                      !.window = TRUE, !.cond = "Recovered"]
  <2>1. DOMAIN st = StatusFields /\ st.applied = a
    BY Zenon, <1>1 DEF StatusFields
  <2>2. pc[r] # "idle" /\
        (\/ CompletionFailure(r)
         \/ /\ work[a] = "complete"
            /\ Checkpoint(r, Record(st, Key(r), Key(r)), "recovery", "publish"))
    BY Zenon, <1>6 DEF Observe
  <2> QED
    BY Zenon, <1>4, <1>5, <2>1, <2>2
<1>7. CASE Probe(r)
  BY Zenon, <1>3, <1>5, <1>7 DEF Probe
<1>8. CASE PreApply(r)
  <2> DEFINE st == Pending(r)
  <2>1. DOMAIN st = StatusFields /\ st.applied = Old(r).st.applied /\ st.cond \notin Ready
    BY Zenon, <1>1 DEF Pending, StatusFields, Ready
  <2>2. Checkpoint(r, Record(st, Key(r), Old(r).applied), "pre", "applying")
    BY Zenon, <1>8 DEF PreApply
  <2> QED
    BY Zenon, <1>2, <2>1, <2>2
<1>9. CASE Applied(r)
  <2> DEFINE a == Art(r)
             done == [Old(r).st EXCEPT !.observed = in[r].obj.gen, !.applied = a,
                         !.plan = a, !.exec = None, !.recovery = "none",
                         !.seen = FALSE, !.window = (Kind[a] = "bootstrap"),
                         !.cond = "Applied"]
             lost(p, e, o) == [Old(r).st EXCEPT !.plan = p, !.cond = "Failed", !.exec = e,
                                                !.recovery = o]
             refused == [Old(r).st EXCEPT !.plan = a, !.exec = None, !.cond = "Failed"]
  <2>1. DOMAIN done = StatusFields /\ done.applied = a
    BY Zenon, <1>1 DEF StatusFields
  <2>2. \A p, e, o : /\ DOMAIN lost(p, e, o) = StatusFields
                     /\ lost(p, e, o).applied = Old(r).st.applied
                     /\ lost(p, e, o).cond \notin Ready
    BY Zenon, <1>1 DEF StatusFields, Ready
  <2>3. /\ DOMAIN refused = StatusFields /\ refused.applied = Old(r).st.applied
        /\ refused.cond \notin Ready
    BY Zenon, <1>1 DEF StatusFields, Ready
  <2>4. pc[r] # "idle"
    BY Zenon, <1>9 DEF Applied
  <2>5. CASE /\ work[a] = "complete"
             /\ Checkpoint(r, Record(done, Key(r), Key(r)), "post", "publish")
    BY Zenon, <1>4, <2>1, <2>4, <2>5
  <2>6. CASE \E p, e, o :
                Checkpoint(r, Record(lost(p, e, o), Key(r), Old(r).applied), "post",
                   "publish")
    BY Zenon, <1>2, <2>2, <2>6
  <2>7. CASE Checkpoint(r, Record(refused, Key(r), Old(r).applied), "post", "publish")
    BY Zenon, <1>2, <2>3, <2>7
  <2> HIDE DEF refused, lost, done
  <2> QED
    BY Zenon, <1>9, <2>5, <2>6, <2>7 DEF Applied, refused, lost, done
<1> QED
  BY Zenon, <1>6, <1>7, <1>8, <1>9

\* Completed work stays completed.
LEMMA WorkGrows ==
    ASSUME Shapes, ONext
    PROVE  \A a \in Artifacts : work[a] = "complete" => work'[a] = "complete"
<1>1. ASSUME NEW r \in Replicas, Execute(r)
      PROVE  \A a \in Artifacts : work[a] = "complete" => work'[a] = "complete"
  BY Zenon, <1>1 DEF Execute, Shapes
<1>2. ASSUME NEW r \in Replicas, Step(r), ~Execute(r)
      PROVE  UNCHANGED work
  BY Zenon, <1>2 DEF Step, Get, Release, Resolve, Core, Observe, Probe, PreApply,
     Applied, Publish,
     Refresh, Update, target
<1>3. ASSUME Environment
      PROVE  UNCHANGED work
  BY Zenon, <1>3 DEF Environment, EditSpec, Approve, Replace, Rotate, Lapse,
     LoseAudit, Crash,
     LoseStore, Handover, Stop, target
<1> QED
  BY Zenon, <1>1, <1>2, <1>3 DEF ONext

\* A reconciliation that ends leaves nothing to publish.
LEMMA ResetTold ==
    ASSUME Shapes, UNCHANGED local \/ \E r \in Replicas : Reset(r), NEW w,
           \A q \in Replicas : Told(in[q].status, w) /\ Told(out[q], w)
    PROVE  \A q \in Replicas : Told(in'[q].status, w) /\ Told(out'[q], w)
<1>1. NoInput.status = NoStatus /\ Told(NoStatus, w)
  BY Zenon, NothingTold DEF NoInput
<1>2. CASE UNCHANGED local
  BY Zenon, <1>2 DEF local
<1>3. ASSUME NEW r \in Replicas, Reset(r)
      PROVE  \A q \in Replicas : Told(in'[q].status, w) /\ Told(out'[q], w)
  <2>1. \A q \in Replicas : in'[q] \in {in[q], NoInput} /\ out'[q] \in {out[q], NoStatus}
    BY Zenon, <1>3 DEF Reset, Shapes
  <2> QED
    BY Zenon, <1>1, <2>1
<1> QED
  BY Zenon, <1>2, <1>3

-----------------------------------------------------------------------------
(* The invariant is kept.                                                  *)

\* What is told of applied artifacts stays true.
LEMMA TruthStep ==
    ASSUME Shapes, Truth, ONext
    PROVE  Truth'
<1>1. /\ Told(status, work') /\ Sound(disk, work')
      /\ \A r \in Replicas :
            Sound(cache[r], work') /\ Told(in[r].status, work') /\ Told(out[r], work')
  BY WorkGrows, ToldKept, SoundKept DEF Truth
<1>2. Told(NoStatus, work') /\ Sound(NoRecord, work')
  BY Zenon, NothingTold
<1>3. ASSUME NEW r \in Replicas, Get(r) PROVE Truth'
  <2>1. \A q \in Replicas : Told(in'[q].status, work')
    BY Zenon, <1>1, <1>3 DEF Get, Shapes, NoInput
  <2> QED
    BY Zenon, <1>1, <1>3, <2>1 DEF Get, Truth, kube, store
<1>4. ASSUME NEW r \in Replicas, WriteFailure(r)
      PROVE  \A q \in Replicas : Told(in'[q].status, work') /\ Told(out'[q], work')
  <2>1. Told([in[r].status EXCEPT !.cond = "Failed"], work')
    BY Zenon, <1>1, NotReady DEF Ready
  <2> QED
    BY Zenon, <1>1, <1>4, <2>1 DEF WriteFailure, Shapes
<1>5. ASSUME NEW r \in Replicas, Release(r) PROVE Truth'
  <2>1. \A q \in Replicas : Told(in'[q].status, work') /\ Told(out'[q], work')
    <3>1. CASE VerifyBootstrapRelease(r)
      <4>1. CASE UNCHANGED local \/ WriteFailure(r)
        BY Zenon, <1>1, <1>4, <4>1 DEF local
      <4>2. CASE /\ HoldsConverged(r) /\ UNCHANGED in
                 /\ out' = [out EXCEPT ![r] = [in[r].status EXCEPT !.cond = "Applied"]]
        <5>1. in[r].status.applied # None
          BY Zenon, <1>5, <4>2, KeyTyped DEF HoldsConverged, Release
        <5>2. Told([in[r].status EXCEPT !.cond = "Applied"], work')
          BY Zenon, <1>1, <5>1 DEF Told, StatusFields
        <5> QED
          BY Zenon, <1>1, <4>2, <5>2 DEF Shapes
      <4> QED
        BY Zenon, <3>1, <4>1, <4>2 DEF VerifyBootstrapRelease
    <3>2. CASE VerifyOrdinaryRelease(r)
      <4>1. CASE WriteFailure(r)
        BY Zenon, <1>4, <4>1
      <4>2. CASE UNCHANGED out /\ \E required, may :
                    in' = [in EXCEPT ![r].completion = required, ![r].may = may]
        BY <1>1, <4>2 DEF Shapes, InputFields
      <4> QED
        BY Zenon, <3>2, <4>1, <4>2 DEF VerifyOrdinaryRelease
    <3>3. CASE UNCHANGED local
      BY Zenon, <1>1, <3>3 DEF local
    <3> QED
      BY Zenon, <1>5, <3>1, <3>2, <3>3 DEF Release
  <2> QED
    BY Zenon, <1>1, <1>5, <2>1 DEF Release, Truth, kube, store
<1>6. ASSUME NEW r \in Replicas, Resolve(r) PROVE Truth'
  <2>1. \A q \in Replicas : Told(in'[q].status, work') /\ Told(out'[q], work')
    BY Zenon, <1>1, <1>4, <1>6 DEF Resolve, Shapes, InputFields
  <2> QED
    BY Zenon, <1>1, <1>6, <2>1 DEF Resolve, Truth, kube, store
<1>7. ASSUME NEW r \in Replicas, Core(r) PROVE Truth'
  <2>1. UNCHANGED <<status, work>>
    BY Zenon, <1>7 DEF Core, kube, target
  <2>2. UNCHANGED in \/ \E may : in' = [in EXCEPT ![r].may = MayHaveStarted(r)]
    BY Zenon, <1>7 DEF Core, Suspended, Stay, Invalid, AwaitApproval, Decide, Proceed
  <2>3. \A q \in Replicas : in'[q].status = in[q].status
    BY <2>2 DEF Shapes, InputFields
  <2> QED
    BY Zenon, <1>1, <1>7, <2>1, <2>3, CoreTold DEF Truth
<1>8. ASSUME NEW r \in Replicas, Observe(r) \/ Probe(r) \/ PreApply(r) \/ Applied(r)
      PROVE  Truth'
  <2>1. UNCHANGED <<status, work, in>>
    BY Zenon, <1>8 DEF Observe, Probe, PreApply, Applied, kube, target
  <2> QED
    BY Zenon, <1>1, <1>8, <2>1, AccessTold DEF Truth
<1>9. ASSUME NEW r \in Replicas, Execute(r) PROVE Truth'
  BY Zenon, <1>1, <1>9 DEF Execute, Truth, kube, store, local
<1>10. ASSUME NEW r \in Replicas, Publish(r) \/ Refresh(r) \/ Update(r) PROVE Truth'
  <2>1. UNCHANGED <<disk, cache>>
    BY Zenon, <1>10 DEF Publish, Refresh, Update, store
  <2>2. UNCHANGED local \/ Reset(r)
    BY Zenon, <1>10 DEF Publish, Refresh, Update, Accepted, NotWritten
  <2>3. \A q \in Replicas : Told(in'[q].status, work') /\ Told(out'[q], work')
    BY Zenon, <1>1, <2>2, ResetTold
  <2>4. \/ UNCHANGED status \/ status' = out[r]
        \/ status' = [status EXCEPT !.cond = "Failed"]
    BY Zenon, <1>10 DEF Publish, Refresh, Update, Accepted, NotWritten, kube
  <2>5. Told([status EXCEPT !.cond = "Failed"], work')
    BY Zenon, <1>1, NotReady DEF Ready
  <2>6. Told(status', work')
    BY Zenon, <1>1, <2>4, <2>5
  <2> QED
    BY Zenon, <1>1, <2>1, <2>3, <2>6 DEF Truth
<1>11. ASSUME Environment PROVE Truth'
  <2>1. status' \in {status, NoStatus} /\ disk' \in {disk, NoRecord}
    BY Zenon, <1>11 DEF Environment, EditSpec, Approve, Replace, Rotate, Lapse,
       LoseAudit, Crash,
       LoseStore, Handover, Stop, kube, store
  <2>2. \A q \in Replicas : cache'[q] \in {cache[q], disk, NoRecord}
    BY Zenon, <1>11 DEF Environment, EditSpec, Approve, Replace, Rotate, Lapse,
       LoseAudit, Crash,
       LoseStore, Handover, Stop, store, Shapes
  <2>3. UNCHANGED local \/ \E r \in Replicas : Reset(r)
    BY Zenon, <1>11 DEF Environment, EditSpec, Approve, Replace, Rotate, Lapse,
       LoseAudit, Crash,
       LoseStore, Handover, Stop
  <2>4. \A q \in Replicas : Told(in'[q].status, work') /\ Told(out'[q], work')
    BY Zenon, <1>1, <2>3, ResetTold
  <2> QED
    BY Zenon, <1>1, <1>2, <2>1, <2>2, <2>4 DEF Truth
<1> QED
  BY Zenon, <1>3, <1>5, <1>6, <1>7, <1>8, <1>9, <1>10, <1>11 DEF ONext, Step

-----------------------------------------------------------------------------
(* What the steps of a replica do, in terms of the invariant.              *)

\* The replica moves, and only it.
Moves(r) ==
    /\ pc' \in [Replicas -> Positions]
    /\ \A q \in Replicas \ {r} : pc'[q] = pc[q] /\ in'[q] = in[q] /\ out'[q] = out[q]
    /\ DOMAIN cache' = Replicas /\ DOMAIN out' = Replicas /\ DOMAIN in' = Replicas

\* It goes on with the resource it has read.
GoesOn(r) ==
    /\ pc[r] # "idle" /\ pc'[r] # "idle"
    /\ DOMAIN in'[r] = InputFields /\ in'[r].obj = in[r].obj

\* It saves a record of the key recorded before or of its own.
Saves(r) ==
    \/ UNCHANGED store
    \/ /\ disk' = cache'[r] /\ disk'.applied \in {cache[r].applied, Key(r)}
       /\ \A q \in Replicas \ {r} : cache'[q] = cache[q]

\* A step of the core or an access to the target.
Works(r) ==
    /\ pc[r] \in {"core", "observe", "probe", "pre", "applying"}
    /\ pc'[r] \in {"observe", "probe", "pre", "applying", "publish"}
    /\ pc[r] = "core" /\ in[r].obj.suspend => pc'[r] = "publish"
    /\ Moves(r) /\ GoesOn(r) /\ in'[r].ref = in[r].ref
    /\ Saves(r)
    /\ pc[r] = "core" => cache'[r].applied = cache[r].applied
    /\ pc'[r] = "publish" /\ out'[r].cond \in Ready => cache'[r].applied = Key(r)
    /\ pc'[r] \in {"probe", "pre"} =>
          /\ UNCHANGED store
          /\ cache[r].applied = Key(r) => pc[r] = "probe" \/ lapsed[Art(r)]

\* The record a reconciliation starts from has the applied key of the cache.
LEMMA OldApplied ==
    ASSUME Truth, NEW r \in Replicas
    PROVE  Old(r).applied = cache[r].applied
  BY Zenon DEF Truth, Sound, Old, NoRecord

\* A checkpoint moves to its end or to the publication of its failure.
LEMMA CheckpointWorks ==
    ASSUME Shapes, NEW r \in Replicas, NEW st, DOMAIN st = StatusFields, NEW key, NEW
           applied,
           NEW stage, NEW next \in {"publish", "applying"},
           Checkpoint(r, Record(st, key, applied), stage, next), UNCHANGED in,
           applied \in {cache[r].applied, Key(r)},
           st.cond \in Ready => applied = Key(r),
           pc[r] \in {"core", "observe", "probe", "pre", "applying"},
           pc[r] = "core" => next = "publish" /\ applied = cache[r].applied
    PROVE  Works(r)
<1> DEFINE rec == Record(st, key, applied)
<1>1. rec.applied = applied /\ rec.st = st
  BY Zenon DEF Record
<1>2. DOMAIN in[r] = InputFields /\ pc[r] # "idle"
  BY Zenon DEF Shapes
<1> HIDE DEF rec
<1>3. CASE /\ disk' = rec
           /\ cache' = [cache EXCEPT ![r] = rec]
           /\ out' = [out EXCEPT ![r] = rec.st]
           /\ Goto(r, next)
  BY Zenon, <1>1, <1>2, <1>3 DEF Goto, Shapes, Works, Moves, GoesOn, Saves, Positions
<1>4. CASE /\ \E s : s.cond = "Failed" /\ out' = [out EXCEPT ![r] = s]
           /\ Goto(r, "publish")
           /\ UNCHANGED store
  BY Zenon, <1>2, <1>4 DEF Goto, Shapes, Works, Moves, GoesOn, Saves, Positions, store, Ready
<1> DEFINE failed ==
        [rec.st EXCEPT !.observed = Old(r).st.observed, !.applied = Old(r).st.applied,
                       !.window = Old(r).st.window, !.seen = Old(r).st.seen,
                       !.cond = "Failed",
                       !.recovery = IF stage = "pre" THEN @ ELSE "pending"]
<1>5. failed.cond = "Failed"
  BY Zenon, <1>1 DEF StatusFields
<1> HIDE DEF failed
<1>6. CASE /\ out' = [out EXCEPT ![r] = failed]
           /\ Goto(r, "publish")
           /\ UNCHANGED store
  BY Zenon, <1>4, <1>5, <1>6
<1> QED
  BY Zenon, <1>3, <1>6 DEF Checkpoint, Save, rec, failed

\* The core works.
LEMMA CoreWorks ==
    ASSUME Shapes, Truth, NEW r \in Replicas, Core(r)
    PROVE  Works(r)
<1>1. pc[r] = "core" /\ DOMAIN Old(r).st = StatusFields
      /\ Old(r).applied = cache[r].applied /\ Sound(Old(r), work)
  BY Zenon, OldSound, OldApplied DEF Core, Sound, Told
<1>2. ASSUME NEW st, DOMAIN st = StatusFields, NEW key, NEW stage, UNCHANGED in,
             st.cond \in Ready => Old(r).applied = Key(r),
             Checkpoint(r, Record(st, key, Old(r).applied), stage, "publish")
      PROVE  Works(r)
  BY Zenon, <1>1, <1>2, CheckpointWorks
<1>3. CASE Suspended(r)
  <2> DEFINE st == [Old(r).st EXCEPT !.observed = in[r].obj.gen, !.cond = "Suspended"]
  <2>1. DOMAIN st = StatusFields /\ st.cond \notin Ready
    BY Zenon, <1>1 DEF StatusFields, Ready
  <2>2. Checkpoint(r, Record(st, Old(r).applying, Old(r).applied), "pre", "publish")
        /\ UNCHANGED in
    BY Zenon, <1>3 DEF Suspended
  <2> QED
    BY Zenon, <1>2, <2>1, <2>2
<1>4. CASE Stay(r)
  <2>1. Old(r).applied = Key(r) /\ UNCHANGED in
    BY Zenon, <1>4 DEF Stay, Converged
  <2>2. CASE Old(r).st.cond \in {"Suspended", "Approval"}
    <3> DEFINE st == [Old(r).st EXCEPT !.cond = IF Old(r).st.seen THEN "Recovered"
                                                ELSE "Applied"]
    <3>1. DOMAIN st = StatusFields
      BY Zenon, <1>1 DEF StatusFields
    <3>2. Checkpoint(r, Record(st, Old(r).applying, Old(r).applied), "pre", "publish")
      BY Zenon, <1>4, <2>2 DEF Stay
    <3> QED
      BY Zenon, <1>2, <2>1, <3>1, <3>2
  <2>3. CASE Old(r).st.cond \notin {"Suspended", "Approval"}
    <3>1. /\ \E s : out' = [out EXCEPT ![r] = s]
          /\ Goto(r, "publish") /\ UNCHANGED store
      BY Zenon, <1>4, <2>3 DEF Stay
    <3> QED
      BY Zenon, <1>1, <2>1, <3>1 DEF Goto, Shapes, Works, Moves, GoesOn, Saves,
         Positions, store
  <2> QED
    BY Zenon, <2>2, <2>3
<1>5. CASE Invalid(r)
  <2> DEFINE st == [Old(r).st EXCEPT !.cond = "Failed"]
  <2>1. DOMAIN st = StatusFields /\ st.cond \notin Ready
    BY Zenon, <1>1 DEF StatusFields, Ready
  <2>2. Checkpoint(r, Record(st, Old(r).applying, Old(r).applied), "pre", "publish")
        /\ UNCHANGED in
    BY Zenon, <1>5 DEF Invalid
  <2> QED
    BY Zenon, <1>2, <2>1, <2>2
<1>6. CASE AwaitApproval(r)
  <2> DEFINE st == [Old(r).st EXCEPT !.cond = "Approval"]
  <2>1. DOMAIN st = StatusFields /\ st.cond \notin Ready
    BY Zenon, <1>1 DEF StatusFields, Ready
  <2>2. Checkpoint(r, Record(st, Key(r), Old(r).applied), "pre", "publish")
        /\ UNCHANGED in
    BY Zenon, <1>6 DEF AwaitApproval
  <2> QED
    BY Zenon, <1>2, <2>1, <2>2
<1>7. CASE Decide(r) /\ ~Converged(r) /\ Granted(r) /\ ~in[r].obj.suspend
  <2>1. PICK l \in {"observe", "probe", "pre"} : Proceed(r, l, MayHaveStarted(r)) /\
             (l \in {"probe", "pre"} => ~in[r].completion)
    BY Zenon, <1>7 DEF Decide
  <2>2. /\ Goto(r, l) /\ in' = [in EXCEPT ![r].may = MayHaveStarted(r)]
        /\ UNCHANGED <<store, out>>
    BY Zenon, <2>1 DEF Proceed
  <2>3. l \in {"probe", "pre"} /\ cache[r].applied = Key(r) => lapsed[Art(r)]
    <3>1. SUFFICES ASSUME l \in {"probe", "pre"}, Old(r).applied = Key(r)
                   PROVE  lapsed[Art(r)]
      BY Zenon, <1>1
    <3>2. Old(r).st.applied # None /\ lapsed[Old(r).st.applied]
      BY Zenon, <1>7, <2>1, <3>1 DEF Converged, Current
    <3>3. Key(r) # NoKey /\ Key(r).art = Art(r)
      BY Zenon, <1>1, KeyTyped
    <3>4. Old(r).st.applied = Art(r)
      BY Zenon, <1>1, <3>1, <3>3 DEF Sound
    <3> QED
      BY Zenon, <3>2, <3>4
  <2>4. Moves(r) /\ GoesOn(r) /\ in'[r].ref = in[r].ref /\ pc'[r] = l
    BY Zenon, <1>1, <2>2 DEF Goto, Shapes, Moves, GoesOn, Positions, store, InputFields
  <2> QED
    BY Zenon, <1>1, <1>7, <2>2, <2>3, <2>4 DEF Works, Saves, store
<1> QED
  BY Zenon, <1>3, <1>4, <1>5, <1>6, <1>7 DEF Core

\* The accesses to the target work.
LEMMA AccessWorks ==
    ASSUME Shapes, Truth, NEW r \in Replicas,
           Observe(r) \/ Probe(r) \/ PreApply(r) \/ Applied(r)
    PROVE  Works(r)
<1>1. /\ DOMAIN Old(r).st = StatusFields /\ Old(r).applied = cache[r].applied
      /\ pc[r] \in {"observe", "probe", "pre", "applying"} /\ UNCHANGED in
  BY Zenon, OldSound, OldApplied DEF Sound, Told, Observe, Probe, PreApply, Applied
<1>2. ASSUME NEW st, DOMAIN st = StatusFields, st.cond \notin Ready, NEW key, NEW stage,
             NEW next \in {"publish", "applying"},
             Checkpoint(r, Record(st, key, Old(r).applied), stage, next)
      PROVE  Works(r)
  BY SMTT(30), <1>1, <1>2, CheckpointWorks
<1>3. ASSUME NEW st, DOMAIN st = StatusFields, NEW stage,
             Checkpoint(r, Record(st, Key(r), Key(r)), stage, "publish")
      PROVE  Works(r)
  BY Zenon, <1>1, <1>3, CheckpointWorks
<1>4. CASE CompletionFailure(r)
  <2> DEFINE st == [Old(r).st EXCEPT !.cond = "Failed"]
  <2>1. DOMAIN st = StatusFields /\ st.cond \notin Ready
    BY Zenon, <1>1 DEF StatusFields, Ready
  <2>2. Checkpoint(r, Record(st, Old(r).applying, Old(r).applied), "recovery", "publish")
    BY Zenon, <1>4 DEF CompletionFailure
  <2> QED
    BY Zenon, <1>2, <2>1, <2>2
<1>5. CASE Observe(r)
  <2> DEFINE a == Art(r)
             st == [Old(r).st EXCEPT
                      !.observed = in[r].obj.gen, !.applied = a, !.plan = a,
                      !.exec = a, !.recovery = "none", !.seen = TRUE,
                      !.window = TRUE, !.cond = "Recovered"]
  <2>1. DOMAIN st = StatusFields
    BY Zenon, <1>1 DEF StatusFields
  <2>2. \/ CompletionFailure(r)
        \/ Checkpoint(r, Record(st, Key(r), Key(r)), "recovery", "publish")
    BY Zenon, <1>5 DEF Observe
  <2> QED
    BY Zenon, <1>3, <1>4, <2>1, <2>2
<1>6. CASE Probe(r)
  <2>1. pc[r] = "probe"
    BY Zenon, <1>6 DEF Probe
  <2>2. CASE \E l \in {"pre", "observe"} : Goto(r, l) /\ UNCHANGED <<store, out>>
    BY Zenon, <1>1, <2>1, <2>2 DEF Goto, Shapes, Works, Moves, GoesOn, Saves, Positions, store
  <2> QED
    BY Zenon, <1>4, <1>6, <2>2 DEF Probe
<1>7. CASE PreApply(r)
  <2>1. DOMAIN Pending(r) = StatusFields /\ Pending(r).cond \notin Ready
    BY Zenon, <1>1 DEF Pending, StatusFields, Ready
  <2>2. Checkpoint(r, Record(Pending(r), Key(r), Old(r).applied), "pre", "applying")
    BY Zenon, <1>7 DEF PreApply
  <2> QED
    BY Zenon, <1>2, <2>1, <2>2
<1>8. CASE Applied(r)
  <2> DEFINE a == Art(r)
             done == [Old(r).st EXCEPT !.observed = in[r].obj.gen, !.applied = a,
                         !.plan = a, !.exec = None, !.recovery = "none",
                         !.seen = FALSE, !.window = (Kind[a] = "bootstrap"),
                         !.cond = "Applied"]
             lost(p, e, o) == [Old(r).st EXCEPT !.plan = p, !.cond = "Failed", !.exec = e,
                                                !.recovery = o]
             refused == [Old(r).st EXCEPT !.plan = a, !.exec = None, !.cond = "Failed"]
  <2>1. DOMAIN done = StatusFields
    BY Zenon, <1>1 DEF StatusFields
  <2>2. \A p, e, o : DOMAIN lost(p, e, o) = StatusFields /\ lost(p, e, o).cond \notin
        Ready
    BY Zenon, <1>1 DEF StatusFields, Ready
  <2>3. DOMAIN refused = StatusFields /\ refused.cond \notin Ready
    BY Zenon, <1>1 DEF StatusFields, Ready
  <2>4. CASE Checkpoint(r, Record(done, Key(r), Key(r)), "post", "publish")
    BY Zenon, <1>3, <2>1, <2>4
  <2>5. CASE \E p, e, o :
                Checkpoint(r, Record(lost(p, e, o), Key(r), Old(r).applied), "post",
                   "publish")
    BY Zenon, <1>2, <2>2, <2>5
  <2>6. CASE Checkpoint(r, Record(refused, Key(r), Old(r).applied), "post", "publish")
    BY Zenon, <1>2, <2>3, <2>6
  <2> HIDE DEF refused, lost, done
  <2> QED
    BY Zenon, <1>8, <2>4, <2>5, <2>6 DEF Applied, refused, lost, done
<1> QED
  BY Zenon, <1>5, <1>6, <1>7, <1>8

\* The leader reads the resource.
Reads(r) ==
    /\ r = leader /\ pc[r] = "idle"
    /\ Moves(r) /\ pc'[r] = (IF obj.suspend THEN "core" ELSE "release")
    /\ DOMAIN in'[r] = InputFields /\ in'[r].obj = obj /\ in'[r].ref = 0

\* The controller prepares the core.
Prepares(r) ==
    /\ Moves(r) /\ GoesOn(r)
    /\ \/ pc[r] = "release" /\ pc'[r] \in {"resolve", "publish"} /\ in'[r].ref = in[r].ref
       \/ pc[r] = "resolve" /\ pc'[r] = "core" /\ in'[r].ref = ref
       \/ /\ pc[r] = "resolve" /\ pc'[r] = "publish" /\ in'[r].ref = in[r].ref
          /\ out'[r].cond \notin Ready

\* The controller publishes the result or gives it up.
Publishes(r) ==
    /\ pc[r] \in {"publish", "update", "deny"} /\ Moves(r)
    /\ \/ pc'[r] = "idle" /\ in'[r] = NoInput
       \/ /\ UNCHANGED local /\ pc'[r] \in {"publish", "update", "deny"}
          /\ pc'[r] = "update" => obj = in[r].obj
    /\ \/ UNCHANGED readied
       \/ readied' = readied \cup {Key(r)} /\ out[r].cond \in Ready /\ in[r].ref # 0

\* Get reads.
LEMMA GetReads ==
    ASSUME Shapes, NEW r \in Replicas, Get(r)
    PROVE  Reads(r) /\ UNCHANGED store
<1>1. /\ pc[r] = "idle" /\ r = leader /\ UNCHANGED <<store, out>>
      /\ in' = [in EXCEPT ![r] = [NoInput EXCEPT !.obj = obj, !.status = status]]
      /\ Goto(r, IF obj.suspend THEN "core" ELSE "release")
  BY Zenon DEF Get
<1>2. Moves(r) /\ pc'[r] = (IF obj.suspend THEN "core" ELSE "release")
  BY Zenon, <1>1 DEF Moves, Goto, Shapes, store, Positions
<1>3. DOMAIN in'[r] = InputFields /\ in'[r].obj = obj /\ in'[r].ref = 0
  BY Zenon, <1>1 DEF Shapes, NoInput, InputFields
<1> QED
  BY Zenon, <1>1, <1>2, <1>3 DEF Reads

\* Release and Resolve prepare.
LEMMA ControllerPrepares ==
    ASSUME Shapes, Truth, NEW r \in Replicas, Release(r) \/ Resolve(r)
    PROVE  Prepares(r) /\ UNCHANGED store
<1>1. UNCHANGED store /\ pc[r] \in {"release", "resolve"} /\ DOMAIN in[r] = InputFields
      /\ DOMAIN in[r].status = StatusFields
  BY Zenon DEF Release, Resolve, Shapes, Truth, Told
<1>2. ASSUME NEW l \in {"resolve", "publish"}, Goto(r, l), UNCHANGED in,
             UNCHANGED out \/ \E s : out' = [out EXCEPT ![r] = s]
      PROVE  Moves(r) /\ GoesOn(r) /\ in'[r].ref = in[r].ref /\ pc'[r] = l
  BY Zenon, <1>1, <1>2 DEF Moves, GoesOn, Goto, Shapes, Positions, store
<1>3. CASE WriteFailure(r)
  <2>1. [in[r].status EXCEPT !.cond = "Failed"].cond = "Failed"
    BY Zenon, <1>1 DEF StatusFields
  <2>2. out'[r].cond \notin Ready
    BY Zenon, <1>3, <2>1 DEF WriteFailure, Shapes, Ready
  <2>3. Moves(r) /\ GoesOn(r) /\ in'[r].ref = in[r].ref /\ pc'[r] = "publish"
    BY Zenon, <1>2, <1>3 DEF WriteFailure
  <2> QED
    BY Zenon, <1>1, <2>2, <2>3 DEF Prepares
<1>4. CASE Release(r) /\ UNCHANGED in /\ (Goto(r, "resolve") \/ Goto(r, "publish"))
           /\ (UNCHANGED out \/ \E s : out' = [out EXCEPT ![r] = s])
  BY Zenon, <1>1, <1>2, <1>4 DEF Prepares, Release
<1>5. CASE Release(r) /\ Goto(r, "resolve") /\ UNCHANGED out
           /\ \E c, m : in' = [in EXCEPT ![r].completion = c, ![r].may = m]
  <2>1. Moves(r)
    BY Zenon, <1>1, <1>5 DEF Moves, Goto, Shapes, Positions, store
  <2>2. GoesOn(r) /\ in'[r].ref = in[r].ref /\ pc'[r] = "resolve"
    BY <1>1, <1>5 DEF GoesOn, Goto, Shapes, InputFields
  <2> QED
    BY Zenon, <1>1, <1>5, <2>1, <2>2 DEF Prepares, Release
<1>6. CASE Resolve(r) /\ Goto(r, "core") /\ UNCHANGED out /\ in' = [in EXCEPT ![r].ref =
      ref]
  BY Zenon, <1>1, <1>6 DEF Prepares, Moves, GoesOn, Goto, Shapes, InputFields, Positions, store,
     Resolve
<1> QED
  BY Zenon, <1>1, <1>3, <1>4, <1>5, <1>6
     DEF Release, Resolve, VerifyBootstrapRelease, VerifyOrdinaryRelease, local

\* A status is published, or not.
LEMMA WriterPublishes ==
    ASSUME Shapes, Truth, NEW r \in Replicas, Publish(r) \/ Refresh(r) \/ Update(r)
    PROVE  Publishes(r) /\ UNCHANGED store
<1>1. UNCHANGED store /\ pc[r] \in {"publish", "update", "deny"}
  BY Zenon DEF Publish, Refresh, Update
<1>2. ASSUME Reset(r) PROVE Moves(r) /\ pc'[r] = "idle" /\ in'[r] = NoInput
  BY Zenon, <1>1, <1>2 DEF Reset, Moves, Goto, Shapes, Positions, store
<1>3. ASSUME NEW l \in {"publish", "update", "deny"}, Goto(r, l), UNCHANGED local
      PROVE  Moves(r) /\ pc'[r] = l
  BY Zenon, <1>1, <1>3 DEF Goto, Moves, Shapes, Positions, store, local
<1>4. \/ UNCHANGED readied
      \/ readied' = readied \cup {Key(r)} /\ out[r].cond \in Ready /\ in[r].ref # 0
  <2>1. [status EXCEPT !.cond = "Failed"].cond \notin Ready
    BY Zenon DEF Truth, Told, StatusFields, Ready
  <2> QED
    BY Zenon, <2>1 DEF Publish, Refresh, Update, Accepted, NotWritten, ghost
<1>5. \/ Reset(r)
      \/ UNCHANGED local /\ Goto(r, "publish")
      \/ UNCHANGED local /\ Goto(r, "deny")
      \/ UNCHANGED local /\ Goto(r, "update") /\ obj = in[r].obj
  BY Zenon DEF Publish, Refresh, Update, Accepted, NotWritten, SameResource
<1> QED
  BY Zenon, <1>1, <1>2, <1>3, <1>4, <1>5 DEF Publishes

\* Whatever a replica does, the resource, the leader and the approvals stay, and
\* the others see more writes at most.
LEMMA StepFrame ==
    ASSUME Shapes, NEW r \in Replicas, Step(r)
    PROVE  /\ UNCHANGED <<obj, ref, leader, lapsed>>
           /\ stale' \in [Replicas -> BOOLEAN]
           /\ \A q \in Replicas \ {r} : stale[q] => stale'[q]
<1>1. UNCHANGED <<obj, ref, leader, lapsed>>
  BY Zenon DEF Step, Get, Release, Resolve, Core, Observe, Probe, PreApply, Execute,
     Applied,
     Publish, Refresh, Update, kube, time
<1>2. \/ UNCHANGED stale \/ stale' = [stale EXCEPT ![r] = FALSE] \/ Touch(r)
  BY Zenon DEF Step, Get, Release, Resolve, Core, Observe, Probe, PreApply, Execute,
     Applied,
     Publish, Refresh, Update, Accepted, NotWritten
<1> QED
  BY Zenon, <1>1, <1>2 DEF Touch, Shapes

\* The kinds of steps.
LEMMA StepKinds ==
    ASSUME Shapes, Truth, NEW r \in Replicas, Step(r)
    PROVE  \/ Reads(r) /\ UNCHANGED <<store, readied>>
           \/ Prepares(r) /\ UNCHANGED <<store, readied>>
           \/ Works(r) /\ UNCHANGED readied
           \/ Publishes(r) /\ UNCHANGED store
           \/ UNCHANGED <<pc, local, store, readied>>
<1>1. CASE Get(r)
  BY Zenon, <1>1, GetReads DEF Get, ghost
<1>2. CASE Release(r) \/ Resolve(r)
  BY Zenon, <1>2, ControllerPrepares DEF Release, Resolve, ghost
<1>3. CASE Core(r)
  BY Zenon, <1>3, CoreWorks DEF Core, ghost
<1>4. CASE Observe(r) \/ Probe(r) \/ PreApply(r) \/ Applied(r)
  <2>1. UNCHANGED readied
    BY Zenon, <1>4 DEF Observe, Probe, PreApply, Applied, ghost
  <2> QED
    BY Zenon, <1>4, <2>1, AccessWorks
<1>5. CASE Execute(r)
  BY Zenon, <1>5 DEF Execute, ghost
<1>6. CASE Publish(r) \/ Refresh(r) \/ Update(r)
  BY Zenon, <1>6, WriterPublishes
<1> QED
  BY Zenon, <1>1, <1>2, <1>3, <1>4, <1>5, <1>6 DEF Step

\* What users and faults may do: keys only grow, a changed resource is noticed, a
\* reconciliation goes on or ends.
Disturbs ==
    /\ obj' \in Objects /\ ref' \in Nat \ {0} /\ ref <= ref' /\ leader' \in Replicas
    /\ Follows(CurrentKey', CurrentKey)
    /\ DOMAIN lapsed' = Artifacts /\ \A a \in Artifacts : lapsed[a] => lapsed'[a]
    /\ stale' \in [Replicas -> BOOLEAN]
    /\ obj' = obj \/ \A q \in Replicas : stale'[q]
    /\ \/ UNCHANGED <<pc, local>> /\ \A q \in Replicas : stale[q] => stale'[q]
       \/ \E r \in Replicas : Reset(r) /\ UNCHANGED obj
             /\ \A q \in Replicas \ {r} : stale[q] => stale'[q]
    /\ DOMAIN cache' = Replicas /\ UNCHANGED readied

\* They do no more.
LEMMA EnvironmentDisturbs ==
    ASSUME Shapes, Environment
    PROVE  Disturbs
<1>1. scene.arts \subseteq Artifacts /\ None \notin Replicas
  BY Zenon, OperatorAssumption DEF Shapes
<1>2. ASSUME obj' \in Objects, Follows(CurrentKey', CurrentKey), Touch(None),
             UNCHANGED <<ref, store, leader, pc, local, time, ghost>>
      PROVE  Disturbs
  <2>1. stale' = [q \in Replicas |-> TRUE]
    BY Zenon, <1>1, <1>2 DEF Touch, Shapes
  <2>2. \A q \in Replicas : stale'[q] /\ stale' \in [Replicas -> BOOLEAN]
    BY Zenon, <2>1
  <2> QED
    BY <1>2, <2>2 DEF Disturbs, Shapes, store, time, ghost
<1>8. CASE EditSpec
  <2>1. PICK a \in scene.arts, n \in BOOLEAN, s \in BOOLEAN :
           obj' = [obj EXCEPT !.gen = @ + 1, !.art = a, !.needs = n, !.suspend = s]
    BY Zenon, <1>8 DEF EditSpec
  <2>2. obj' = [uid |-> obj.uid, gen |-> obj.gen + 1, art |-> a, needs |-> n,
                suspend |-> s, approved |-> obj.approved]
    BY Zenon, <2>1 DEF Objects, Shapes
  <2>3. a \in Artifacts /\ obj \in Objects /\ obj.gen + 1 \in Nat \ {0}
    BY <1>1 DEF Objects, Shapes
  <2>4. obj' \in Objects /\ obj'.uid = obj.uid /\ obj'.gen = obj.gen + 1
    BY Zenon, <2>2, <2>3 DEF Objects
  <2>5. Follows(CurrentKey', CurrentKey)
    BY <2>4 DEF Follows, CurrentKey, Shapes, Objects
  <2> QED
    BY Zenon, <1>2, <1>8, <2>4, <2>5 DEF EditSpec
<1>9. CASE Approve
  <2>1. obj' = [obj EXCEPT !.approved = ~obj.approved]
    BY Zenon, <1>9 DEF Approve
  <2>2. /\ obj' \in Objects /\ obj'.uid = obj.uid /\ obj'.gen = obj.gen
        /\ obj'.art = obj.art
    BY Zenon, <2>1 DEF Objects, Shapes
  <2>3. Follows(CurrentKey', CurrentKey)
    BY Zenon, <2>2 DEF Follows, CurrentKey, Shapes, Objects
  <2> QED
    BY Zenon, <1>2, <1>9, <2>2, <2>3 DEF Approve
<1>10. CASE Replace
  <2>1. obj' \in Objects /\ obj'.uid = obj.uid + 1
    BY SMTT(30), <1>10 DEF Objects, Shapes, Replace, Object
  <2>2. Follows(CurrentKey', CurrentKey)
    BY SMTT(30), <2>1 DEF Follows, CurrentKey, Shapes, Objects
  <2> QED
    BY Zenon, <1>2, <1>10, <2>1, <2>2 DEF Replace
<1>3. ASSUME UNCHANGED obj, ref' \in {ref, ref + 1}
      PROVE  /\ obj' \in Objects /\ ref' \in Nat \ {0} /\ ref <= ref'
             /\ Follows(CurrentKey', CurrentKey)
  BY SMTT(30), <1>3 DEF Follows, CurrentKey, Shapes
<1>4. CASE Rotate
  BY Zenon, <1>3, <1>4 DEF Rotate, Disturbs, Shapes, store, time, ghost
<1>5. ASSUME NEW a \in Artifacts, Lapse(a) \/ LoseAudit(a) PROVE Disturbs
  <2>1. UNCHANGED <<obj, ref, leader, pc, local, stale, store, readied>>
    BY Zenon, <1>5 DEF Lapse, LoseAudit, kube, ghost
  <2>2. DOMAIN lapsed' = Artifacts /\ \A b \in Artifacts : lapsed[b] => lapsed'[b]
    BY Zenon, <1>5 DEF Lapse, LoseAudit, time, Shapes
  <2> QED
    BY Zenon, <1>3, <2>1, <2>2 DEF Disturbs, Shapes, store
<1>6. ASSUME NEW r \in Replicas, Crash(r) \/ LoseStore(r) PROVE Disturbs
  <2>1. Reset(r) /\ stale' = [stale EXCEPT ![r] = FALSE]
        /\ UNCHANGED <<obj, ref, leader, lapsed, readied>>
    BY Zenon, <1>6 DEF Crash, LoseStore, Stop, kube, time, ghost
  <2>2. DOMAIN cache' = Replicas
    BY Zenon, <1>6 DEF Crash, LoseStore, Shapes
  <2> QED
    BY Zenon, <1>3, <2>1, <2>2 DEF Disturbs, Shapes
<1>7. ASSUME NEW r \in Replicas, Handover(r) PROVE Disturbs
  BY Zenon, <1>3, <1>7 DEF Handover, Disturbs, Shapes, store, time, ghost, kube
<1> QED
  BY Zenon, <1>4, <1>5, <1>6, <1>7, <1>8, <1>9, <1>10 DEF Environment

-----------------------------------------------------------------------------
(* The invariant is inductive.                                             *)

\* An input that was reset names no reference.
LEMMA ResetInput == DOMAIN NoInput = InputFields /\ NoInput.ref = 0
  BY Zenon DEF NoInput, InputFields

\* A reset reconciliation is idle, and the others are where they were.
LEMMA ResetMoves ==
    ASSUME Shapes, NEW r \in Replicas, Reset(r)
    PROVE  /\ pc' \in [Replicas -> Positions] /\ pc'[r] = "idle" /\ in'[r] = NoInput
           /\ DOMAIN in' = Replicas /\ DOMAIN out' = Replicas
           /\ \A q \in Replicas \ {r} :
                 pc'[q] = pc[q] /\ in'[q] = in[q] /\ out'[q] = out[q]
  BY Zenon DEF Reset, Goto, Shapes, Positions

\* The domain of the target's progress.
LEMMA WorkDomain ==
    ASSUME Shapes, ONext
    PROVE  DOMAIN work' = Artifacts
<1>1. ASSUME NEW r \in Replicas, Step(r) PROVE DOMAIN work' = Artifacts
  BY Zenon, <1>1 DEF Step, Get, Release, Resolve, Core, Observe, Probe, PreApply,
     Execute, Applied,
     Publish, Refresh, Update, target, Shapes
<1>2. ASSUME Environment PROVE DOMAIN work' = Artifacts
  BY Zenon, <1>2 DEF Environment, EditSpec, Approve, Replace, Rotate, Lapse,
     LoseAudit, Crash,
     LoseStore, Handover, Stop, target, Shapes
<1> QED
  BY Zenon, <1>1, <1>2 DEF ONext

\* The domains are kept.
LEMMA ShapesStep ==
    ASSUME Shapes, Truth, ONext
    PROVE  Shapes'
<1>1. scene' \in Scenes /\ DOMAIN work' = Artifacts
  BY Zenon, WorkDomain DEF ONext, Shapes
<1>2. ASSUME NEW r \in Replicas, Step(r) PROVE Shapes'
  <2>1. /\ obj' \in Objects /\ ref' \in Nat \ {0} /\ leader' \in Replicas
        /\ DOMAIN lapsed' = Artifacts /\ stale' \in [Replicas -> BOOLEAN]
    BY Zenon, <1>2, StepFrame DEF Shapes
  <2>2. CASE UNCHANGED <<pc, local, store>>
    BY Zenon, <1>1, <2>1, <2>2 DEF Shapes, local, store
  <2>3. ASSUME Moves(r), UNCHANGED store \/ Works(r), DOMAIN in'[r] = InputFields,
               in'[r].ref \in Nat, pc'[r] # "idle" => in'[r].obj \in Objects
        PROVE  Shapes'
    BY Zenon, <1>1, <2>1, <2>3 DEF Shapes, Moves
  <2>4. CASE Reads(r) /\ UNCHANGED store
    BY <2>3, <2>4 DEF Reads, Shapes
  <2>5. CASE (Prepares(r) /\ UNCHANGED store) \/ Works(r)
    BY Zenon, <2>3, <2>5 DEF Prepares, Works, GoesOn, Shapes
  <2>6. CASE Publishes(r) /\ UNCHANGED store
    <3>1. DOMAIN in'[r] = InputFields /\ in'[r].ref \in Nat
      BY SMTT(30), <2>6, ResetInput DEF Publishes, local, Shapes
    <3>2. pc'[r] # "idle" => in'[r].obj \in Objects
      BY Zenon, <2>6 DEF Publishes, local, Shapes
    <3> QED
      BY Zenon, <2>3, <2>6, <3>1, <3>2 DEF Publishes
  <2> QED
    BY Zenon, <1>2, <2>2, <2>4, <2>5, <2>6, StepKinds
<1>3. ASSUME Environment PROVE Shapes'
  <2>1. Disturbs
    BY Zenon, <1>3, EnvironmentDisturbs
  <2>2. CASE UNCHANGED <<pc, local>>
    BY Zenon, <1>1, <2>1, <2>2 DEF Disturbs, Shapes, local
  <2>3. ASSUME NEW r \in Replicas, Reset(r) PROVE Shapes'
    BY <1>1, <2>1, <2>3, ResetMoves, ResetInput DEF Disturbs, Shapes
  <2> QED
    BY Zenon, <2>1, <2>2, <2>3 DEF Disturbs
<1> QED
  BY Zenon, <1>2, <1>3 DEF ONext

\* The references stay resolved.
LEMMA ResolvedStep ==
    ASSUME Shapes, Truth, Resolved, ONext
    PROVE  Resolved'
<1>1. ASSUME NEW r \in Replicas, Step(r) PROVE Resolved'
  <2>1. ref # 0
    BY Zenon DEF Shapes
  <2>2. CASE UNCHANGED <<pc, local>>
    BY Zenon, <2>2 DEF Resolved, local
  <2>3. CASE Reads(r)
    BY SMTT(30), <2>3 DEF Reads, Moves, Resolved
  <2>4. CASE Prepares(r)
    BY Zenon, <2>1, <2>4 DEF Prepares, Moves, GoesOn, Resolved
  <2>5. CASE Works(r)
    BY SMTT(30), <2>5 DEF Works, Moves, GoesOn, Resolved
  <2>6. CASE Publishes(r)
    BY Zenon, <2>6 DEF Publishes, Moves, Resolved
  <2> QED
    BY Zenon, <1>1, <2>2, <2>3, <2>4, <2>5, <2>6, StepKinds
<1>2. ASSUME Environment PROVE Resolved'
  <2>1. Disturbs
    BY Zenon, <1>2, EnvironmentDisturbs
  <2>2. CASE UNCHANGED <<pc, local>>
    BY Zenon, <2>2 DEF Resolved, local
  <2>3. ASSUME NEW r \in Replicas, Reset(r) PROVE Resolved'
    BY Zenon, <2>3, ResetMoves DEF Resolved
  <2> QED
    BY Zenon, <2>1, <2>2, <2>3 DEF Disturbs
<1> QED
  BY Zenon, <1>1, <1>2 DEF ONext

\* So does what was compared.
LEMMA ComparedStep ==
    ASSUME Shapes, Truth, Compared, ONext
    PROVE  Compared'
<1>1. ASSUME NEW r \in Replicas, Step(r) PROVE Compared'
  <2>1. obj' = obj /\ \A q \in Replicas \ {r} : stale[q] => stale'[q]
    BY Zenon, <1>1, StepFrame
  <2>2. CASE Execute(r)
    BY Zenon, <2>2 DEF Compared, Execute, local, kube
  <2>3. CASE Moves(r) /\ pc'[r] # "update"
    BY Zenon, <2>1, <2>3 DEF Moves, Compared
  <2>4. CASE Publishes(r)
    BY Zenon, <2>1, <2>4 DEF Publishes, Moves, Compared, local
  <2>5. CASE Reads(r) \/ Prepares(r) \/ Works(r)
    BY Zenon, <2>3, <2>5 DEF Reads, Prepares, Works
  <2>6. Execute(r) \/ Publishes(r) \/ Reads(r) \/ Prepares(r) \/ Works(r)
    BY Zenon, <1>1, GetReads, ControllerPrepares, CoreWorks, AccessWorks, WriterPublishes DEF
       Step
  <2> QED
    BY Zenon, <2>2, <2>4, <2>5, <2>6
<1>2. ASSUME Environment PROVE Compared'
  <2>1. Disturbs
    BY Zenon, <1>2, EnvironmentDisturbs
  <2>2. CASE UNCHANGED <<pc, local>> /\ \A q \in Replicas : stale[q] => stale'[q]
    BY Zenon, <2>1, <2>2 DEF Compared, Disturbs, local
  <2>3. ASSUME NEW r \in Replicas, Reset(r), UNCHANGED obj,
               \A q \in Replicas \ {r} : stale[q] => stale'[q]
        PROVE  Compared'
    BY Zenon, <2>3, ResetMoves DEF Compared
  <2> QED
    BY Zenon, <2>1, <2>2, <2>3 DEF Disturbs
<1> QED
  BY Zenon, <1>1, <1>2 DEF ONext

\* Keys are ordered.
LEMMA KeyOrder ==
    ASSUME NEW k \in Keys, NEW l \in Keys, NEW m \in Keys
    PROVE  /\ NotAfter(k, k)
           /\ Follows(l, k) /\ Follows(m, l) => Follows(m, k)
           /\ Follows(l, k) /\ Follows(k, l) =>
                 k.uid = l.uid /\ k.gen = l.gen /\ k.art = l.art
           /\ NotAfter(k, l) /\ NotAfter(l, m) => NotAfter(k, m)
<1>1. /\ k.uid \in Nat /\ k.gen \in Nat /\ k.ref \in Nat
      /\ l.uid \in Nat /\ l.gen \in Nat /\ l.ref \in Nat
      /\ m.uid \in Nat /\ m.gen \in Nat /\ m.ref \in Nat
  BY Zenon DEF Keys
<1> QED
  BY <1>1 DEF NotAfter, Follows

\* The keys the argument compares.
LEMMA KeysTyped ==
    ASSUME Shapes, Truth
    PROVE  /\ disk.applied \in Keys /\ CurrentKey \in Keys /\ ref \in Nat
           /\ \A r \in Replicas : in[r].ref \in Nat
           /\ \A r \in Replicas : pc[r] # "idle" => Key(r) \in Keys
  BY Zenon, KeyTyped DEF Shapes, Truth, Sound, CurrentKey, Keys, Objects

\* The one keeper of the state stays the leader and keeps the file.
LEMMA KeeperStays ==
    ASSUME Shapes, Kept, OneKeeper, Environment
    PROVE  UNCHANGED <<disk, leader>> /\ cache'[leader] = disk
<1>1. ~\E r \in Replicas : Handover(r) \/ LoseStore(r)
  BY Zenon DEF OneKeeper, Handover, LoseStore
<1>2. disk = cache[leader] /\ leader \in Replicas
  BY Zenon DEF Kept, Shapes
<1>3. CASE UNCHANGED <<disk, cache, leader>>
  BY Zenon, <1>2, <1>3
<1>4. ASSUME NEW r \in Replicas, Crash(r) PROVE UNCHANGED <<disk, leader>> /\
      cache'[leader] = disk
  BY Zenon, <1>2, <1>4 DEF Crash, Stop, Shapes
<1> QED
  BY Zenon, <1>1, <1>3, <1>4 DEF Environment, EditSpec, Approve, Replace, Rotate,
     Lapse, LoseAudit, store

\* When the reconciliation of the leader moves, the others are idle.
LEMMA OthersIdle ==
    ASSUME Kept, NEW r \in Replicas, r = leader, Moves(r), UNCHANGED leader
    PROVE  \A q \in Replicas \ {r} : KeptBy(q)'
  BY Zenon DEF Kept, KeptBy, Moves

\* Reading begins with the current key.
LEMMA KeptReads ==
    ASSUME Shapes, Truth, Kept, NEW r \in Replicas, Reads(r), UNCHANGED <<store,
           readied>>,
           UNCHANGED <<obj, ref, leader, lapsed>>
    PROVE  Kept'
<1>1. \A q \in Replicas \ {r} : KeptBy(q)'
  BY Zenon, OthersIdle DEF Reads
<1>2. /\ in'[r].ref = 0 /\ pc'[r] \notin {"probe", "pre"}
      /\ Key(r)'.uid = obj.uid /\ Key(r)'.gen = obj.gen /\ Key(r)'.art = obj.art
  BY Zenon DEF Reads, Key, Art
<1>3. Follows(Key(r)', disk.applied) /\ Follows(CurrentKey, Key(r)')
  BY Zenon, <1>2 DEF Follows, Kept, NotAfter, CurrentKey
<1>4. KeptBy(r)'
  BY Zenon, <1>2, <1>3 DEF KeptBy, store, CurrentKey, Reads
<1> QED
  BY Zenon, <1>1, <1>4 DEF Kept, store, CurrentKey

\* The prepared key is at least the recorded one.
LEMMA KeptPrepares ==
    ASSUME Shapes, Truth, Resolved, Kept, NEW r \in Replicas, Prepares(r),
           UNCHANGED <<store, readied>>, UNCHANGED <<obj, ref, leader, lapsed>>
    PROVE  Kept'
<1>1. KeptBy(r) /\ pc[r] # "idle" /\ r = leader
  BY Zenon DEF Kept, KeptBy, Prepares, GoesOn
<1>2. \A q \in Replicas \ {r} : KeptBy(q)'
  BY Zenon, <1>1, OthersIdle DEF Prepares
<1>3. /\ Key(r)'.uid = Key(r).uid /\ Key(r)'.gen = Key(r).gen /\ Key(r)'.art = Key(r).art
      /\ pc'[r] \in {"resolve", "core", "publish"}
  BY Zenon DEF Prepares, GoesOn, Key, Art
<1>4. Follows(Key(r)', disk.applied) /\ Follows(CurrentKey, Key(r)')
  BY Zenon, <1>1, <1>3 DEF Follows, KeptBy
<1>5. in'[r].ref # 0 => disk.applied.ref <= in'[r].ref /\ in'[r].ref <= ref
  <2>1. disk.applied.ref <= ref /\ ref <= ref
    BY SMTT(30), KeysTyped DEF Kept, NotAfter, CurrentKey
  <2>2. in'[r].ref \in {in[r].ref, ref}
    BY Zenon DEF Prepares
  <2> QED
    BY Zenon, <1>1, <2>1, <2>2 DEF KeptBy
<1>6. ~(pc'[r] = "publish" /\ out'[r].cond \in Ready /\ in'[r].ref # 0)
  BY Zenon DEF Prepares, Resolved
<1>7. KeptBy(r)'
  BY Zenon, <1>1, <1>3, <1>4, <1>5, <1>6 DEF KeptBy, store, CurrentKey
<1> QED
  BY Zenon, <1>2, <1>7 DEF Kept, store, CurrentKey

\* A record of the key of a reconciliation is at least the one before.
LEMMA KeptWorks ==
    ASSUME Shapes, Truth, Resolved, Kept, NEW r \in Replicas, Works(r), UNCHANGED readied,
           UNCHANGED <<obj, ref, leader, lapsed>>
    PROVE  Kept'
<1>1. KeptBy(r) /\ pc[r] # "idle" /\ r = leader /\ disk = cache[r]
  BY Zenon DEF Kept, KeptBy, Works, GoesOn
<1>2. \A q \in Replicas \ {r} : KeptBy(q)'
  BY Zenon, <1>1, OthersIdle DEF Works
<1>3. Key(r)' = Key(r) /\ Art(r)' = Art(r) /\ in'[r].ref = in[r].ref
  BY Zenon DEF Works, GoesOn, Key, Art
<1>4. disk' = cache'[r] /\ disk'.applied \in {disk.applied, Key(r)}
  BY Zenon, <1>1 DEF Works, Saves, store
<1>5. in[r].ref = 0 => disk'.applied = disk.applied
  BY Zenon, <1>1, <1>4 DEF Works, Resolved
<1>6. /\ disk.applied \in Keys /\ CurrentKey \in Keys /\ Key(r) \in Keys
      /\ Key(r).ref = in[r].ref
  BY Zenon, <1>1, KeysTyped, KeyTyped
<1>7. in[r].ref # 0 => NotAfter(disk.applied, Key(r)) /\ NotAfter(Key(r), CurrentKey)
  <2>1. CurrentKey.ref = ref
    BY Zenon DEF CurrentKey
  <2> QED
    BY Zenon, <1>1, <1>6, <2>1 DEF KeptBy, NotAfter
<1>8. NotAfter(disk'.applied, CurrentKey) /\ \A k \in readied : NotAfter(k, disk'.applied)
  BY <1>4, <1>5, <1>6, <1>7, KeyOrder DEF Kept
<1>9. KeptBy(r)'
  <2>1. Follows(Key(r), disk'.applied) /\ Follows(CurrentKey, Key(r))
    <3>1. Follows(Key(r), Key(r))
      BY Zenon DEF Follows
    <3>2. Follows(Key(r), disk.applied) /\ Follows(CurrentKey, Key(r))
      BY Zenon, <1>1 DEF KeptBy
    <3> QED
      BY Zenon, <1>4, <3>1, <3>2
  <2>2. in[r].ref # 0 => disk'.applied.ref <= in[r].ref /\ in[r].ref <= ref
    BY SMTT(30), <1>1, <1>4, <1>6, KeysTyped DEF KeptBy
  <2>3. pc'[r] \in {"publish", "update", "deny"} /\ out'[r].cond \in Ready =>
           disk'.applied = Key(r)
    BY Zenon, <1>4 DEF Works
  <2>4. pc'[r] \in {"probe", "pre"} /\ disk'.applied = Key(r) => lapsed[Art(r)]
    BY Zenon, <1>1, <1>4 DEF Works, KeptBy, store
  <2> QED
    BY Zenon, <1>1, <1>3, <2>1, <2>2, <2>3, <2>4 DEF KeptBy, CurrentKey
<1> QED
  BY Zenon, <1>1, <1>2, <1>4, <1>8, <1>9 DEF Kept, CurrentKey

\* What is published as applied is the recorded key.
LEMMA KeptPublishes ==
    ASSUME Shapes, Truth, Kept, NEW r \in Replicas, Publishes(r), UNCHANGED store,
           UNCHANGED <<obj, ref, leader, lapsed>>
    PROVE  Kept'
<1>1. KeptBy(r) /\ pc[r] # "idle" /\ r = leader
  BY Zenon DEF Kept, KeptBy, Publishes
<1>2. \A q \in Replicas \ {r} : KeptBy(q)'
  BY Zenon, <1>1, OthersIdle DEF Publishes
<1>3. disk.applied \in Keys /\ NotAfter(disk.applied, disk.applied)
  BY Zenon, KeysTyped, KeyOrder
<1>4. readied' \subseteq Keys /\ \A k \in readied' : NotAfter(k, disk.applied)
  BY Zenon, <1>1, <1>3 DEF Publishes, Kept, KeptBy
<1>5. KeptBy(r)'
  <2>1. CASE pc'[r] = "idle"
    BY Zenon, <2>1 DEF KeptBy
  <2>2. CASE UNCHANGED local /\ pc'[r] \in {"publish", "update", "deny"}
    BY Zenon, <1>1, <2>2 DEF KeptBy, Publishes, local, store, CurrentKey, Key, Art
  <2> QED
    BY Zenon, <2>1, <2>2 DEF Publishes
<1> QED
  BY Zenon, <1>2, <1>4, <1>5 DEF Kept, store, CurrentKey

\* Users and faults move the resource on, never the record.
LEMMA KeptDisturbs ==
    ASSUME Shapes, Truth, Kept, OneKeeper, Environment
    PROVE  Kept'
<1>1. Disturbs /\ UNCHANGED <<disk, leader>> /\ cache'[leader] = disk
  BY Zenon, EnvironmentDisturbs, KeeperStays
<1>2. CurrentKey \in Keys /\ CurrentKey' \in Keys /\ disk.applied \in Keys /\ ref \in Nat
      /\ ref' \in Nat
  BY Zenon, <1>1, KeysTyped DEF Disturbs, CurrentKey, Keys, Objects
<1>3. NotAfter(CurrentKey, CurrentKey')
  BY Zenon, <1>1, <1>2 DEF Disturbs, NotAfter, CurrentKey
<1>4. NotAfter(disk.applied, CurrentKey')
  BY Zenon, <1>2, <1>3, KeyOrder DEF Kept
<1>5. ASSUME NEW q \in Replicas, pc'[q] = pc[q], in'[q] = in[q], out'[q] = out[q]
      PROVE  KeptBy(q)'
  <2>1. SUFFICES ASSUME pc[q] # "idle" PROVE KeptBy(q)'
    BY Zenon, <1>5 DEF KeptBy
  <2>2. KeptBy(q) /\ Key(q) \in Keys /\ Art(q) \in Artifacts /\ in[q].ref \in Nat
    BY Zenon, <2>1, KeysTyped, KeyTyped DEF Kept
  <2>3. Key(q)' = Key(q) /\ Art(q)' = Art(q)
    BY Zenon, <1>5 DEF Key, Art
  <2>4. Follows(CurrentKey', Key(q))
    BY Zenon, <1>1, <1>2, <2>1, <2>2, KeyOrder DEF KeptBy, Disturbs
  <2>5. in[q].ref # 0 => in[q].ref <= ref'
    <3>1. in[q].ref # 0 => in[q].ref <= ref
      BY Zenon, <2>1, <2>2 DEF KeptBy
    <3>2. ref <= ref'
      BY Zenon, <1>1, <1>2 DEF Disturbs
    <3> QED
      BY <1>2, <2>2, <3>1, <3>2
  <2>6. lapsed[Art(q)] => lapsed'[Art(q)]
    BY Zenon, <1>1, <2>2 DEF Disturbs
  <2> QED
    BY Zenon, <1>1, <1>5, <2>1, <2>2, <2>3, <2>4, <2>5, <2>6 DEF KeptBy
<1>6. \A q \in Replicas : KeptBy(q)'
  <2>1. CASE UNCHANGED <<pc, local>>
    BY Zenon, <1>5, <2>1 DEF local
  <2>2. ASSUME NEW r \in Replicas, Reset(r) PROVE \A q \in Replicas : KeptBy(q)'
    <3>1. KeptBy(r)'
      BY Zenon, <2>2, ResetMoves DEF KeptBy
    <3> QED
      BY Zenon, <1>5, <2>2, <3>1, ResetMoves
  <2> QED
    BY Zenon, <1>1, <2>1, <2>2 DEF Disturbs
<1> QED
  BY Zenon, <1>1, <1>4, <1>6 DEF Kept, Disturbs

\* It holds at the start.
LEMMA KeeperInit ==
    ASSUME OInit
    PROVE  KeeperInv
<1>1. scene.arts \subseteq Artifacts /\ 1 \in Nat \ {0}
  BY SMTT(30), OperatorAssumption DEF OInit
<1>2. obj \in Objects /\ obj.uid = 1 /\ obj.gen = 1
  BY SMTT(30), <1>1 DEF OInit, Objects, Object
<1>3. Shapes
  <2>1. scene \in Scenes /\ ref \in Nat \ {0} /\ leader \in Replicas
    BY Zenon, <1>1 DEF OInit
  <2>2. pc \in [Replicas -> Positions] /\ stale \in [Replicas -> BOOLEAN]
    BY Zenon DEF OInit, Positions
  <2>3. /\ DOMAIN cache = Replicas /\ DOMAIN in = Replicas /\ DOMAIN out = Replicas
        /\ DOMAIN work = Artifacts /\ DOMAIN lapsed = Artifacts
    BY Zenon DEF OInit
  <2>4. \A r \in Replicas : in[r] = NoInput /\ pc[r] = "idle"
    BY Zenon DEF OInit
  <2> QED
    BY SMTT(30), <1>2, <2>1, <2>2, <2>3, <2>4, ResetInput DEF Shapes
<1>4. Truth
  <2>1. NoInput.status = NoStatus
    BY Zenon DEF NoInput
  <2> QED
    BY Zenon, <2>1, NothingTold DEF OInit, Truth
<1>5. Resolved /\ Compared
  BY Zenon DEF OInit, Resolved, Compared
<1>6. Kept
  <2>1. disk.applied = NoKey
    BY Zenon DEF OInit, NoRecord
  <2>2. NotAfter(NoKey, CurrentKey)
    <3>1. /\ NoKey.uid = 0 /\ NoKey.ref = 0 /\ CurrentKey.uid = 1 /\ CurrentKey.ref = 1
      BY Zenon, <1>2 DEF NoKey, CurrentKey, OInit
    <3> QED
      BY <3>1 DEF NotAfter, Follows
  <2>3. \A r \in Replicas : KeptBy(r)
    BY Zenon DEF OInit, KeptBy
  <2> QED
    BY Zenon, <2>1, <2>2, <2>3 DEF OInit, Kept
<1> QED
  BY Zenon, <1>3, <1>4, <1>5, <1>6 DEF KeeperInv, OperatorInv

\* Every step keeps it.
LEMMA KeeperStep ==
    ASSUME KeeperInv, [ONext]_ovars
    PROVE  KeeperInv'
<1>1. CASE UNCHANGED ovars
  BY Zenon, <1>1 DEF ovars, kube, store, local, target, time, ghost, KeeperInv,
     OperatorInv, Shapes,
     Truth, Resolved, Compared, OneKeeper, Kept, KeptBy, CurrentKey, Key, Art
<1>2. CASE ONext
  <2>1. OperatorInv'
    BY Zenon, <1>2, ShapesStep, TruthStep, ResolvedStep, ComparedStep DEF KeeperInv, OperatorInv
  <2>2. ASSUME OneKeeper' PROVE Kept'
    <3>1. Shapes /\ Truth /\ Resolved /\ Kept /\ OneKeeper
      BY Zenon, <1>2, <2>2 DEF KeeperInv, OperatorInv, ONext, OneKeeper
    <3>2. CASE Environment
      BY Zenon, <3>1, <3>2, KeptDisturbs
    <3>3. ASSUME NEW r \in Replicas, Step(r) PROVE Kept'
      <4>1. UNCHANGED <<obj, ref, leader, lapsed>>
        BY Zenon, <3>1, <3>3, StepFrame
      <4>2. CASE UNCHANGED <<pc, local, store, readied>>
        BY Zenon, <3>1, <4>1, <4>2 DEF local, store, Kept, KeptBy, CurrentKey, Key,
           Art
      <4> QED
        BY Zenon, <3>1, <3>3, <4>1, <4>2, StepKinds, KeptReads, KeptPrepares, KeptWorks,
           KeptPublishes
    <3> QED
      BY Zenon, <1>2, <3>2, <3>3 DEF ONext
  <2> QED
    BY Zenon, <2>1, <2>2 DEF KeeperInv
<1> QED
  BY Zenon, <1>1, <1>2

-----------------------------------------------------------------------------
(* Theorems.                                                               *)

\* A record or a published status that names an applied release tells the
\* truth, whatever is edited, interrupted, lost or handed over.
THEOREM AppliedTrue == OSpec => []AppliedIsTrue
<1>1. KeeperInv => AppliedIsTrue
  BY Zenon DEF KeeperInv, OperatorInv, Truth, Sound, Told, AppliedIsTrue
<1> QED
  BY <1>1, KeeperInit, KeeperStep, PTL DEF OSpec

\* Where one replica keeps the state file and the audit, Apply is not called for
\* a key that was published as applied while its authorization lasts.
THEOREM NoDuplicates == OSpec => NoDuplicateApply
<1>1. ASSUME KeeperInv, NEW r \in Replicas, OneKeeper PROVE ~Repeats(r)
  <2>1. SUFFICES ASSUME pc[r] = "pre", Key(r) \in readied, ~lapsed[Art(r)] PROVE FALSE
    BY Zenon DEF Repeats, Calls
  <2>2. Shapes /\ Truth /\ Kept /\ in[r].ref # 0
    <3>1. Shapes /\ Truth /\ Kept /\ Resolved
      BY Zenon, <1>1 DEF KeeperInv, OperatorInv
    <3> QED
      BY Zenon, <2>1, <3>1 DEF Resolved
  <2>3. KeptBy(r) /\ NotAfter(Key(r), disk.applied)
    BY Zenon, <2>1, <2>2 DEF Kept
  <2>4. Key(r) \in Keys /\ disk.applied \in Keys /\ Key(r).ref = in[r].ref
    BY Zenon, <2>1, <2>2, KeysTyped, KeyTyped
  <2>5. /\ disk.applied.uid = Key(r).uid /\ disk.applied.gen = Key(r).gen
        /\ disk.applied.art = Key(r).art /\ disk.applied.ref = Key(r).ref
    <3>1. Follows(Key(r), disk.applied) /\ Follows(disk.applied, Key(r))
      BY Zenon, <2>1, <2>3 DEF KeptBy, NotAfter
    <3>2. disk.applied.ref <= Key(r).ref /\ Key(r).ref <= disk.applied.ref
      BY Zenon, <2>1, <2>2, <2>3, <2>4 DEF KeptBy, NotAfter
    <3>3. disk.applied.ref \in Nat /\ Key(r).ref \in Nat
      BY Zenon, <2>4 DEF Keys
    <3> QED
      BY SMTT(30), <2>4, <3>1, <3>2, <3>3, KeyOrder
  <2>6. disk.applied = Key(r)
    BY <2>4, <2>5 DEF Keys
  <2> QED
    BY Zenon, <2>1, <2>3, <2>6 DEF KeptBy
<1>2. KeeperInv => [\A r \in Replicas : OneKeeper => ~Repeats(r)]_ovars
  BY Zenon, <1>1
<1> QED
  BY <1>2, KeeperInit, KeeperStep, PTL DEF OSpec, NoDuplicateApply

\* A recovered completion is published only for the resource it was observed for.
THEOREM RecoveredCurrent == OSpec => RecoveredIsCurrent
<1>1. ASSUME KeeperInv, [ONext]_ovars, NEW r \in Replicas,
             pc[r] = "update", pc'[r] = "idle", status' # status
      PROVE  obj = in[r].obj
  <2>1. Shapes /\ Truth /\ Compared
    BY Zenon, <1>1 DEF KeeperInv, OperatorInv
  <2>2. ONext
    BY Zenon, <1>1 DEF ovars, kube
  <2>3. ~Environment
    <3>1. ASSUME Environment PROVE UNCHANGED status \/ UNCHANGED pc
      BY Zenon, <3>1 DEF Environment, EditSpec, Approve, Replace, Rotate, Lapse,
         LoseAudit, Crash,
         LoseStore, Handover, Stop, kube
    <3> QED
      BY Zenon, <1>1, <3>1
  <2>4. PICK q \in Replicas : Step(q)
    BY Zenon, <2>2, <2>3 DEF ONext
  <2>5. q = r
    BY Zenon, <1>1, <2>1, <2>4, StepKinds DEF Reads, Prepares, Works, Publishes, Moves
  <2>6. Update(r)
    BY Zenon, <1>1, <2>4, <2>5 DEF Step, Get, Release, Resolve, Core, Observe,
       Probe, PreApply,
       Execute, Applied, Publish, Refresh
  <2>7. ~stale[r]
    BY Zenon, <1>1, <2>6 DEF Update, Accepted, NotWritten
  <2> QED
    BY Zenon, <1>1, <2>1, <2>7 DEF Compared
<1>2. KeeperInv /\ [ONext]_ovars =>
        [\A r \in Replicas :
            pc[r] = "update" /\ pc'[r] = "idle" /\ status' # status
              /\ status'.cond = "Recovered" => obj = in[r].obj]_ovars
  BY Zenon, <1>1
<1> QED
  BY <1>2, KeeperInit, KeeperStep, PTL DEF OSpec, RecoveredIsCurrent
=============================================================================
