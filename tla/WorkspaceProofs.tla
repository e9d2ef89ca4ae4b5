--------------------------- MODULE WorkspaceProofs ---------------------------
(* Proofs about the role leases of Workspace: a leased role stays, and runs  *)
(* do not wait for each other in a circle.                                    *)
EXTENDS Workspace, TLAPS, WellFoundedInduction


Roles(p) == normalizedRequiredRoles(p)

-----------------------------------------------------------------------------
(* The inductive invariant.                                                  *)
UnderLock == {"recheck", "create_role", "comment", "share_again", "unlock"}
Acquiring == {"lock_shared", "look", "marker", "unlock_shared", "lock"} \cup UnderLock
InUse     == {"create_database", "track", "use", "drop_database", "drop_tracked"}
Closing   == {"close", "try_lock", "drop_role", "close_unlock"}
Dropping  == {"drop_role", "close_unlock"}

EntryType == [name : Names, managed : BOOLEAN, created : BOOLEAN]
WsType == [pc : {"start", "done"} \cup Acquiring \cup InUse \cup Closing, at : Nat,
           lease : Seq(EntryType), tracked : SUBSET (UNION {Managed[p] : p \in Runs}),
           tries : Nat, failed : BOOLEAN]

Shapes ==
    /\ shared \in [Names -> SUBSET Runs]
    /\ exclusive \in [Names -> Runs \cup {Nobody}]
    /\ ws \in [Runs -> WsType]

(* Where a run is in the list of its roles, and what its lease lists.        *)
Positioned(p) ==
    /\ ws[p].pc = "start" => ws[p].lease = <<>> /\ ws[p].at = 1
    /\ ws[p].pc \in Acquiring => ws[p].at \in 1..Len(Roles(p))
    /\ ws[p].pc \in InUse => ws[p].at = Len(Roles(p)) + 1
    /\ ws[p].pc = "lock_shared" => Len(ws[p].lease) = ws[p].at - 1
    /\ ws[p].pc \in Acquiring \ {"lock_shared"} => Len(ws[p].lease) = ws[p].at
    /\ ws[p].pc \in {"try_lock"} \cup Dropping => ws[p].lease # <<>>
    /\ Len(ws[p].lease) <= Len(Roles(p))
    /\ \A k \in 1..Len(ws[p].lease) : ws[p].lease[k].name = Roles(p)[k]

(* The exclusive lock of a role excludes every other holder, and a run holds  *)
(* it exactly while it makes or removes the role.                             *)
Excluded == \A r \in Names : exclusive[r] # Nobody => shared[r] \subseteq {exclusive[r]}
Exclusive(p) ==
    \A r \in Names : exclusive[r] = p <=>
        \/ ws[p].pc \in UnderLock /\ r = Roles(p)[ws[p].at]
        \/ ws[p].pc \in Dropping /\ r = ws[p].lease[Len(ws[p].lease)].name

(* A run shares only roles of its lease, and not the one it gave up in order  *)
(* to lock it.                                                                *)
Shared(p) ==
    /\ \A r \in Names : p \in shared[r] =>
          /\ ws[p].pc \notin {"start", "done"}
          /\ \E k \in 1..Len(ws[p].lease) : r = ws[p].lease[k].name
    /\ ws[p].pc = "lock" => p \notin shared[Roles(p)[ws[p].at]]
    /\ ws[p].pc \in {"try_lock"} \cup Dropping => p \notin shared[ws[p].lease[Len(ws[p].lease)].name]

(* The roles behind it are shared and exist; so does the one at hand, once    *)
(* the run has seen or made it.                                               *)
Leased(p) ==
    /\ ws[p].pc \in Acquiring \cup InUse =>
          \A k \in 1..(ws[p].at - 1) : p \in shared[Roles(p)[k]] /\ Exists(Roles(p)[k])
    /\ ws[p].pc \in {"look", "marker", "unlock_shared"} => p \in shared[Roles(p)[ws[p].at]]
    /\ ws[p].pc = "unlock" /\ ~ws[p].failed => p \in shared[Roles(p)[ws[p].at]]
    /\ ws[p].pc \in {"marker", "comment", "share_again"} => Exists(Roles(p)[ws[p].at])
    /\ ws[p].pc = "unlock" /\ ~ws[p].failed => Exists(Roles(p)[ws[p].at])

(* What a run remembers to drop is none of its own roles.                    *)
Tracked(p) ==
    /\ ws[p].tracked \subseteq Managed[p]
    /\ \A k \in 1..Len(Roles(p)) : Roles(p)[k] \notin ws[p].tracked

LeaseInv ==
    /\ Shapes /\ Excluded
    /\ \A p \in Runs : Positioned(p) /\ Exclusive(p) /\ Shared(p) /\ Leased(p) /\ Tracked(p)

-----------------------------------------------------------------------------
(* The roles of a run are names; they are distinct.                          *)
LEMMA RolesAreNames ==
    ASSUME Normalized, NEW p \in Runs
    PROVE  /\ Len(Roles(p)) \in Nat
           /\ \A k \in 1..Len(Roles(p)) : Roles(p)[k] \in Names /\ Roles(p)[k] \in Nat
           /\ \A i, j \in 1..Len(Roles(p)) : Roles(p)[i] = Roles(p)[j] => i = j
           /\ \A i, j \in 1..Len(Roles(p)) : i < j => Roles(p)[i] < Roles(p)[j]
           /\ \A k \in 1..Len(Required[p]) : \E i \in 1..Len(Roles(p)) : Roles(p)[i] = Required[p][k]
           /\ \A i \in 1..Len(Roles(p)) : \E k \in 1..Len(Required[p]) : Roles(p)[i] = Required[p][k]
<1> DEFINE s == normalizedRequiredRoles(p)
<1>1. /\ s \in Seq(Nat)
      /\ \A i, j \in 1..Len(s) : i < j => s[i] < s[j]
      /\ {s[i] : i \in 1..Len(s)} = {Required[p][k] : k \in 1..Len(Required[p])}
  BY Zenon DEF Normalized
<1>2. Len(s) \in Nat /\ \A i \in 1..Len(s) : s[i] \in Nat
  BY <1>1
<1>3. \A i, j \in 1..Len(s) : s[i] = s[j] => i = j
  BY <1>1, <1>2
<1>4. \A k \in 1..Len(Required[p]) : \E i \in 1..Len(s) : s[i] = Required[p][k]
  BY Zenon, <1>1
<1>5. \A i \in 1..Len(s) : \E k \in 1..Len(Required[p]) : s[i] = Required[p][k]
  BY Zenon, <1>1
<1>6. \A i \in 1..Len(s) : s[i] \in Names
  BY <1>5 DEF Names
<1> QED
  BY Zenon, <1>1, <1>2, <1>3, <1>4, <1>5, <1>6 DEF Roles

(* What a step of run p leaves to the others: their state, their locks, and   *)
(* the roles they hold a lock on.                                             *)
Undisturbed(p) ==
    \A q \in Runs \ {p} :
        /\ ws'[q] = ws[q]
        /\ \A r \in Names :
              /\ q \in shared'[r] <=> q \in shared[r]
              /\ exclusive'[r] = q <=> exclusive[r] = q
              /\ r \in DOMAIN roles /\ (q \in shared[r] \/ exclusive[r] = q) => r \in DOMAIN roles'

(* Then the others keep their part of the invariant.                         *)
LEMMA OthersKept ==
    ASSUME LeaseInv, Normalized, NEW p \in Runs, Undisturbed(p), NEW q \in Runs, q # p
    PROVE  Positioned(q)' /\ Exclusive(q)' /\ Shared(q)' /\ Leased(q)' /\ Tracked(q)'
<1>1. ws'[q] = ws[q]
  BY Zenon DEF Undisturbed
<1>2. \A r \in Names : /\ q \in shared'[r] <=> q \in shared[r]
                       /\ exclusive'[r] = q <=> exclusive[r] = q
                       /\ Exists(r) /\ (q \in shared[r] \/ exclusive[r] = q) => Exists(r)'
  BY Zenon DEF Undisturbed, Exists
<1>3. Positioned(q) /\ Exclusive(q) /\ Shared(q) /\ Leased(q) /\ Tracked(q)
  BY Zenon DEF LeaseInv
<1>4. \A k \in 1..Len(Roles(q)) : Roles(q)[k] \in Names
  BY Zenon, RolesAreNames
<1>5. Len(Roles(q)) \in Nat /\ Len(ws[q].lease) \in Nat
  BY RolesAreNames DEF LeaseInv, Shapes, WsType
<1>6. ws[q].pc \in {"try_lock"} \cup Dropping => ws[q].lease[Len(ws[q].lease)].name \in Names
  <2>1. ws[q].lease # <<>> => Len(ws[q].lease) \in 1..Len(ws[q].lease)
    <3>1. ws[q].lease \in Seq(EntryType)
      BY Zenon DEF LeaseInv, Shapes, WsType
    <3> QED
      BY <1>5, <3>1
  <2> QED
    BY <1>3, <1>4, <1>5, <2>1 DEF Positioned
<1>7. Positioned(q)'
  BY Zenon, <1>1, <1>3 DEF Positioned, Roles
<1>8. Exclusive(q)'
  BY Zenon, <1>1, <1>2, <1>3 DEF Exclusive, Roles
<1>9. ws[q].pc \in Acquiring => Roles(q)[ws[q].at] \in Names
  BY Zenon, <1>3, <1>4 DEF Positioned
<1>10. Shared(q)'
  <2>1. \A r \in Names : q \in shared'[r] =>
          /\ ws'[q].pc \notin {"start", "done"}
          /\ \E k \in 1..Len(ws'[q].lease) : r = ws'[q].lease[k].name
    BY <1>1, <1>2, <1>3 DEF Shared
  <2>2. ws'[q].pc = "lock" => q \notin shared'[Roles(q)[ws'[q].at]]
    BY Zenon, <1>1, <1>2, <1>3, <1>9 DEF Shared, Acquiring
  <2>3. ws'[q].pc \in {"try_lock"} \cup Dropping => q \notin shared'[ws'[q].lease[Len(ws'[q].lease)].name]
    BY Zenon, <1>1, <1>2, <1>3, <1>6 DEF Shared
  <2> QED
    BY Zenon, <2>1, <2>2, <2>3 DEF Shared, Roles
<1>11. Leased(q)'
  <2>1. ws[q].pc \in Acquiring \cup InUse =>
          \A k \in 1..(ws[q].at - 1) : q \in shared'[Roles(q)[k]] /\ Exists(Roles(q)[k])'
    <3> SUFFICES ASSUME ws[q].pc \in Acquiring \cup InUse, NEW k \in 1..(ws[q].at - 1)
                 PROVE  q \in shared'[Roles(q)[k]] /\ Exists(Roles(q)[k])'
      BY Zenon
    <3>1. k \in 1..Len(Roles(q))
      BY <1>3, <1>5 DEF Positioned
    <3> QED
      BY Zenon, <3>1, <1>2, <1>3, <1>4 DEF Leased
  <2>2. ws[q].pc \in UnderLock => exclusive[Roles(q)[ws[q].at]] = q
    BY Zenon, <1>3, <1>9 DEF Exclusive, Acquiring
  <2>3. /\ ws[q].pc \in {"look", "marker", "unlock_shared"} => q \in shared'[Roles(q)[ws[q].at]]
        /\ ws[q].pc = "unlock" /\ ~ws[q].failed => q \in shared'[Roles(q)[ws[q].at]]
        /\ ws[q].pc \in {"marker", "comment", "share_again"} => Exists(Roles(q)[ws[q].at])'
        /\ ws[q].pc = "unlock" /\ ~ws[q].failed => Exists(Roles(q)[ws[q].at])'
    <3>1. CASE ws[q].pc \in {"look", "marker", "unlock_shared"}
      BY Zenon, <1>1, <1>2, <1>3, <1>9, <3>1 DEF Leased, Acquiring
    <3>2. CASE ws[q].pc \in {"comment", "share_again", "unlock"}
      BY Zenon, <1>1, <1>2, <1>3, <1>9, <2>2, <3>2 DEF Leased, Acquiring, UnderLock
    <3> QED
      BY Zenon, <3>1, <3>2
  <2> QED
    BY Zenon, <1>1, <2>1, <2>3 DEF Leased, Roles
<1>12. Tracked(q)'
  BY Zenon, <1>1, <1>3 DEF Tracked, Roles
<1> QED
  BY Zenon, <1>7, <1>8, <1>10, <1>11, <1>12

(* The invariant after a step of p, put together.                            *)
LEMMA Assembled ==
    ASSUME LeaseInv, Normalized, NEW p \in Runs, Shapes', Excluded', Undisturbed(p),
           Positioned(p)', Exclusive(p)', Shared(p)', Leased(p)', Tracked(p)'
    PROVE  LeaseInv'
<1>1. \A q \in Runs \ {p} : Positioned(q)' /\ Exclusive(q)' /\ Shared(q)' /\ Leased(q)' /\ Tracked(q)'
  BY Zenon, OthersKept
<1>2. \A q \in Runs : Positioned(q)' /\ Exclusive(q)' /\ Shared(q)' /\ Leased(q)' /\ Tracked(q)'
  BY Zenon, <1>1
<1> QED
  BY Zenon, <1>2 DEF LeaseInv

(* Types of what a run holds.                                                *)
LEMMA HeldTypes ==
    ASSUME LeaseInv, NEW p \in Runs
    PROVE  /\ ws[p].at \in Nat /\ Len(ws[p].lease) \in Nat /\ ws[p].failed \in BOOLEAN
           /\ ws[p].lease \in Seq(EntryType)
           /\ \A k \in 1..Len(ws[p].lease) : ws[p].lease[k].name \in Names
           /\ ws[p].lease # <<>> => Len(ws[p].lease) \in 1..Len(ws[p].lease)
<1>1. ws[p] \in WsType
  BY Zenon DEF LeaseInv, Shapes
<1>2. ws[p].lease \in Seq(EntryType)
  BY Zenon, <1>1 DEF WsType
<1>3. ws[p].at \in Nat /\ ws[p].failed \in BOOLEAN
  BY Zenon, <1>1 DEF WsType
<1>4. Len(ws[p].lease) \in Nat /\ \A k \in 1..Len(ws[p].lease) : ws[p].lease[k].name \in Names
  <2>1. Len(ws[p].lease) \in Nat
        /\ \A k \in 1..Len(ws[p].lease) : ws[p].lease[k] \in EntryType
    BY <1>2
  <2> QED
    BY Zenon, <2>1 DEF EntryType
<1>5. ws[p].lease # <<>> => Len(ws[p].lease) \in 1..Len(ws[p].lease)
  BY <1>2
<1> QED
  BY Zenon, <1>2, <1>3, <1>4, <1>5

(* A step that leaves it alone keeps what is remembered right.              *)
LEMMA TrackedKept ==
    ASSUME LeaseInv, NEW p \in Runs, ws'[p].tracked = ws[p].tracked
    PROVE  Tracked(p)'
<1>1. Tracked(p)
  BY Zenon DEF LeaseInv
<1> QED
  BY Zenon, <1>1 DEF Tracked, Roles

-----------------------------------------------------------------------------
(* Steps that touch no lock and drop no role, and move on at the same role.  *)
Moved(p) ==
    /\ UNCHANGED <<shared, exclusive>>
    /\ DOMAIN roles \subseteq DOMAIN roles'
    /\ ws' \in [Runs -> WsType]
    /\ \A q \in Runs \ {p} : ws'[q] = ws[q]
    /\ ws'[p].at = ws[p].at
    /\ Len(ws'[p].lease) = Len(ws[p].lease)
    /\ \A k \in 1..Len(ws[p].lease) : ws'[p].lease[k].name = ws[p].lease[k].name
    /\ ws'[p].pc \in UnderLock <=> ws[p].pc \in UnderLock
    /\ ws'[p].pc \in Dropping <=> ws[p].pc \in Dropping
    /\ ws'[p].pc \notin {"start", "done", "lock", "try_lock"}

\* Then only the position, the lease and the remembered roles are left to show.
LEMMA MovedKept ==
    ASSUME LeaseInv, Normalized, NEW p \in Runs, Moved(p), Positioned(p)', Leased(p)', Tracked(p)'
    PROVE  LeaseInv'
<1>1. Shapes' /\ Excluded'
  BY Zenon DEF Moved, LeaseInv, Shapes, Excluded
<1>2. Undisturbed(p)
  BY Zenon DEF Moved, Undisturbed
<1>3. Exclusive(p) /\ Shared(p) /\ Positioned(p)
  BY Zenon DEF LeaseInv
<1>4. ws[p].pc \in Dropping => ws'[p].lease[Len(ws'[p].lease)].name = ws[p].lease[Len(ws[p].lease)].name
  BY Zenon, <1>3, HeldTypes DEF Moved, Positioned
<1>5. Exclusive(p)'
  BY Zenon, <1>3, <1>4 DEF Exclusive, Moved, Roles
<1>6. Shared(p)'
  <2>1. \A r \in Names : p \in shared'[r] =>
          /\ ws'[p].pc \notin {"start", "done"}
          /\ \E k \in 1..Len(ws'[p].lease) : r = ws'[p].lease[k].name
    BY <1>3 DEF Shared, Moved
  <2>2. ws'[p].pc \in Dropping => p \notin shared'[ws'[p].lease[Len(ws'[p].lease)].name]
    BY Zenon, <1>3, <1>4 DEF Shared, Moved
  <2> QED
    BY Zenon, <2>1, <2>2 DEF Shared, Moved
<1> QED
  BY Zenon, <1>1, <1>2, <1>5, <1>6, Assembled

(* The fields of a run after Go.                                             *)
LEMMA Gone ==
    ASSUME LeaseInv, NEW p \in Runs, NEW pc \in {"start", "done"} \cup Acquiring \cup InUse \cup Closing,
           Go(p, pc)
    PROVE  /\ ws' \in [Runs -> WsType]
           /\ \A q \in Runs \ {p} : ws'[q] = ws[q]
           /\ ws'[p].pc = pc /\ ws'[p].at = ws[p].at /\ ws'[p].lease = ws[p].lease
           /\ ws'[p].tracked = ws[p].tracked /\ ws'[p].failed = ws[p].failed
BY Zenon DEF LeaseInv, Shapes, WsType, Go

(* Steps that change neither position, nor lease, nor locks.                 *)
Stayed(p) ==
    /\ UNCHANGED <<shared, exclusive>>
    /\ DOMAIN roles \subseteq DOMAIN roles'
    /\ ws' \in [Runs -> WsType]
    /\ \A q \in Runs \ {p} : ws'[q] = ws[q]
    /\ ws'[p].at = ws[p].at /\ ws'[p].lease = ws[p].lease

(* Use of the database, and the errors that lead to the cleanup.             *)
LEMMA OnwardKept ==
    ASSUME LeaseInv, Normalized, NEW p \in Runs, Stayed(p), ws'[p].tracked = ws[p].tracked,
           \/ ws[p].pc \in InUse /\ ws'[p].pc \in InUse
           \/ ws[p].pc \notin UnderLock \cup Dropping /\ ws'[p].pc = "close"
           \/ ws[p].pc = "drop_role" /\ ws'[p].pc = "close_unlock"
    PROVE  LeaseInv'
<1>1. Moved(p)
  BY Zenon DEF Stayed, Moved, InUse, UnderLock, Dropping
<1>2. Positioned(p) /\ Leased(p) /\ Tracked(p)
  BY Zenon DEF LeaseInv
<1>3. Positioned(p)'
  BY Zenon, <1>2 DEF Stayed, Positioned, Roles, Acquiring, UnderLock, InUse, Dropping
<1>4. Leased(p)'
  BY Zenon, <1>2 DEF Stayed, Leased, Roles, Exists, Acquiring, UnderLock, InUse
<1>5. Tracked(p)'
  BY Zenon, TrackedKept
<1> QED
  BY Zenon, <1>1, <1>3, <1>4, <1>5, MovedKept

\* CREATE DATABASE touches no role and no lock.
LEMMA CreateDatabaseStep ==
    ASSUME LeaseInv, Normalized, NEW p \in Runs, CreateDatabase(p)
    PROVE  LeaseInv'
<1>1. ws[p].pc = "create_database" /\ Go(p, "track") /\ UNCHANGED <<roles, shared, exclusive>>
  BY Zenon DEF CreateDatabase, At
<1> QED
  BY Zenon, <1>1, Gone, OnwardKept DEF Stayed, InUse

\* Neither does DROP DATABASE.
LEMMA cleanupDatabaseStep ==
    ASSUME LeaseInv, Normalized, NEW p \in Runs, cleanupDatabase(p)
    PROVE  LeaseInv'
<1>1. ws[p].pc = "drop_database" /\ Go(p, "drop_tracked") /\ UNCHANGED <<roles, shared, exclusive>>
  BY Zenon DEF cleanupDatabase, At
<1> QED
  BY Zenon, <1>1, Gone, OnwardKept DEF Stayed, InUse

\* The plan may create roles, and drops none.
LEMMA UseStep ==
    ASSUME LeaseInv, Normalized, NEW p \in Runs, Use(p)
    PROVE  LeaseInv'
<1>1. ws[p].pc = "use" /\ Go(p, "drop_database") /\ UNCHANGED <<shared, exclusive>>
  BY Zenon DEF Use, At
<1>2. DOMAIN roles \subseteq DOMAIN roles'
  BY Zenon DEF Use
<1> QED
  BY Zenon, <1>1, <1>2, Gone, OnwardKept DEF Stayed, InUse

\* An error after the lease leads to the cleanup.
LEMMA UseFailsStep ==
    ASSUME LeaseInv, Normalized, NEW p \in Runs, UseFails(p)
    PROVE  LeaseInv'
<1>1. /\ ws[p].pc \in {"create_database", "track", "use"} /\ Go(p, "drop_database")
      /\ UNCHANGED <<roles, shared, exclusive>>
  BY Zenon DEF UseFails
<1> QED
  BY Zenon, <1>1, Gone, OnwardKept DEF Stayed, InUse

\* A failed attempt to drop the database is tried again, or given up.
LEMMA cleanupAttemptFailsStep ==
    ASSUME LeaseInv, Normalized, NEW p \in Runs, NEW transient \in BOOLEAN, cleanupAttemptFails(p, transient)
    PROVE  LeaseInv'
<1>1. ws[p].pc = "drop_database" /\ UNCHANGED <<roles, shared, exclusive>>
  BY Zenon DEF cleanupAttemptFails, At
<1>2. CASE ws' = [ws EXCEPT ![p].tries = @ + 1]
  <2>1. Stayed(p) /\ ws'[p].tracked = ws[p].tracked /\ ws'[p].pc = "drop_database"
    <3>1. ws \in [Runs -> WsType] /\ ws[p] \in WsType
      BY Zenon DEF LeaseInv, Shapes
    <3>2. ws[p].tries + 1 \in Nat
      BY <3>1 DEF WsType
    <3>3. ws' \in [Runs -> WsType]
      BY Zenon, <1>2, <3>1, <3>2 DEF WsType
    <3> QED
      BY Zenon, <1>1, <1>2, <3>1, <3>3 DEF Stayed, WsType
  <2> QED
    BY Zenon, <1>1, <2>1, OnwardKept DEF InUse
<1>3. CASE Go(p, "drop_tracked")
  BY Zenon, <1>1, <1>3, Gone, OnwardKept DEF Stayed, InUse
<1> QED
  BY Zenon, <1>2, <1>3 DEF cleanupAttemptFails

\* A role that could not be dropped stays.
LEMMA CleanupFailsStep ==
    ASSUME LeaseInv, Normalized, NEW p \in Runs, CleanupFails(p)
    PROVE  LeaseInv'
<1>1. UNCHANGED <<roles, shared, exclusive>>
  BY Zenon DEF CleanupFails
<1>2. \/ ws[p].pc = "drop_role" /\ Go(p, "close_unlock")
      \/ ws[p].pc = "drop_tracked" /\ Go(p, "close")
  BY Zenon DEF CleanupFails, At
<1> QED
  BY Zenon, <1>1, <1>2, Gone, OnwardKept DEF Stayed, InUse, Closing, UnderLock, Dropping

\* An error without the exclusive lock closes the lease.
LEMMA AcquireFailsStep ==
    ASSUME LeaseInv, Normalized, NEW p \in Runs, AcquireFails(p)
    PROVE  LeaseInv'
<1>1. /\ ws[p].pc \in {"lock_shared", "look", "marker", "unlock_shared", "lock"}
      /\ ws' = [ws EXCEPT ![p].failed = TRUE, ![p].pc = "close"]
      /\ UNCHANGED <<roles, shared, exclusive>>
  BY Zenon DEF AcquireFails
<1>2. Stayed(p) /\ ws'[p].tracked = ws[p].tracked /\ ws'[p].pc = "close"
  BY ZenonT(30), <1>1 DEF Stayed, LeaseInv, Shapes, WsType, Closing
<1> QED
  BY Zenon, <1>1, <1>2, OnwardKept DEF UnderLock, Dropping

-----------------------------------------------------------------------------
(* Under the exclusive lock: a step that neither takes nor releases a lock   *)
(* keeps the invariant when the role it claims is there.                     *)
LEMMA UnderLockKept ==
    ASSUME LeaseInv, Normalized, NEW p \in Runs, Moved(p), ws'[p].tracked = ws[p].tracked,
           ws[p].pc \in UnderLock, ws'[p].pc \in UnderLock,
           ws'[p].pc \in {"comment", "share_again"} => Role(p) \in DOMAIN roles',
           ws'[p].pc = "unlock" => ws'[p].failed
    PROVE  LeaseInv'
<1>1. Positioned(p) /\ Leased(p)
  BY Zenon DEF LeaseInv
<1>2. Positioned(p)'
  BY Zenon, <1>1 DEF Moved, Positioned, Roles, Acquiring, UnderLock, InUse, Dropping
<1>3. Leased(p)'
  BY Zenon, <1>1 DEF Moved, Leased, Roles, Role, Exists, Acquiring, UnderLock, InUse
<1>4. Tracked(p)'
  BY Zenon, TrackedKept
<1> QED
  BY Zenon, <1>2, <1>3, <1>4, MovedKept

(* Setting the flags of the last entry of a lease leaves the names alone.    *)
LEMMA LastSet ==
    ASSUME NEW lease \in Seq(EntryType), NEW last, last \in EntryType,
           Len(lease) # 0 => last.name = lease[Len(lease)].name
    PROVE  LET set == [lease EXCEPT ![Len(lease)] = last]
           IN  /\ set \in Seq(EntryType) /\ Len(set) = Len(lease)
               /\ \A k \in 1..Len(lease) : set[k].name = lease[k].name
<1>1. Len(lease) \in Nat /\ \A k \in 1..Len(lease) : lease[k] \in EntryType
  OBVIOUS
<1>2. PICK set : set = [lease EXCEPT ![Len(lease)] = last]
  BY Zenon
<1>3. set = [k \in 1..Len(lease) |-> IF k = Len(lease) THEN last ELSE lease[k]]
  <2>1. DOMAIN lease = 1..Len(lease)
    OBVIOUS
  <2> QED
    BY Zenon, <1>2, <2>1
<1>4. \A k \in 1..Len(lease) : set[k] = (IF k = Len(lease) THEN last ELSE lease[k])
  BY Zenon, <1>3
<1>5. \A k \in 1..Len(lease) : set[k] \in EntryType
  BY Zenon, <1>1, <1>4
<1>6. \A k \in 1..Len(lease) : set[k].name = lease[k].name
  <2> TAKE k \in 1..Len(lease)
  <2>1. CASE k = Len(lease)
    BY <1>1, <1>4, <2>1
  <2>2. CASE k # Len(lease)
    BY Zenon, <1>4, <2>2
  <2> QED
    BY Zenon, <2>1, <2>2
<1>7. set \in [1..Len(lease) -> EntryType]
  BY Zenon, <1>3, <1>5
<1>8. set \in Seq(EntryType) /\ Len(set) = Len(lease)
  BY <1>1, <1>3, <1>7
<1> QED
  BY Zenon, <1>2, <1>6, <1>8

\* So do the entries that the acquisition writes.
LEMMA FlagsSet ==
    ASSUME LeaseInv, NEW p \in Runs, ws[p].lease # <<>>, NEW managed \in BOOLEAN,
           NEW lease, lease \in {Entry(p, managed), CreatedEntry(p)}
    PROVE  /\ lease \in Seq(EntryType) /\ Len(lease) = Len(ws[p].lease)
           /\ \A k \in 1..Len(ws[p].lease) : lease[k].name = ws[p].lease[k].name
<1> DEFINE n == Len(ws[p].lease)
<1>1. ws[p].lease \in Seq(EntryType) /\ n \in 1..n
  BY Zenon, HeldTypes
<1>2. ws[p].lease[n] \in EntryType
  BY <1>1
<1>3. PICK last \in EntryType : lease = [ws[p].lease EXCEPT ![n] = last] /\ last.name = ws[p].lease[n].name
  <2>1. CASE lease = Entry(p, managed)
    <3>1. [ws[p].lease[n] EXCEPT !.managed = managed] \in EntryType
          /\ [ws[p].lease[n] EXCEPT !.managed = managed].name = ws[p].lease[n].name
      BY Zenon, <1>2 DEF EntryType
    <3>2. lease = [ws[p].lease EXCEPT ![n] = [ws[p].lease[n] EXCEPT !.managed = managed]]
      BY Zenon, <1>1, <2>1 DEF Entry
    <3> QED
      BY Zenon, <3>1, <3>2
  <2>2. CASE lease = CreatedEntry(p)
    <3>1. [ws[p].lease[n] EXCEPT !.managed = TRUE, !.created = TRUE] \in EntryType
          /\ [ws[p].lease[n] EXCEPT !.managed = TRUE, !.created = TRUE].name = ws[p].lease[n].name
      BY Zenon, <1>2 DEF EntryType
    <3>2. lease = [ws[p].lease EXCEPT ![n] = [ws[p].lease[n] EXCEPT !.managed = TRUE, !.created = TRUE]]
      BY Zenon, <1>1, <2>2 DEF CreatedEntry
    <3> QED
      BY Zenon, <3>1, <3>2
  <2> QED
    BY Zenon, <2>1, <2>2
<1> QED
  BY <1>1, <1>3, LastSet

\* Under the lock the run looks again for the role.
LEMMA RecheckStep ==
    ASSUME LeaseInv, Normalized, NEW p \in Runs, Recheck(p)
    PROVE  LeaseInv'
<1>1. ws[p].pc = "recheck" /\ UNCHANGED <<roles, shared, exclusive>>
  BY Zenon DEF Recheck, At
<1>2. ws \in [Runs -> WsType] /\ ws[p] \in WsType
  BY Zenon DEF LeaseInv, Shapes
<1>3. CASE Exists(Role(p)) /\ ws' = [ws EXCEPT ![p].lease = Entry(p, Marked(Role(p))), ![p].pc = "share_again"]
  <2>1. PICK lease \in Seq(EntryType) :
          /\ ws' = [ws EXCEPT ![p].lease = lease, ![p].pc = "share_again"]
          /\ Len(lease) = Len(ws[p].lease)
          /\ \A k \in 1..Len(ws[p].lease) : lease[k].name = ws[p].lease[k].name
    <3>1. ws[p].lease # <<>>
      BY <1>1, HeldTypes DEF LeaseInv, Positioned, Acquiring, UnderLock
    <3>2. Marked(Role(p)) \in BOOLEAN
      BY Zenon DEF Marked
    <3> QED
      BY Zenon, <1>3, <3>1, <3>2, FlagsSet
  <2>2. ws' \in [Runs -> WsType]
    BY Zenon, <1>2, <2>1 DEF WsType, Acquiring, UnderLock
  <2>3. /\ \A q \in Runs \ {p} : ws'[q] = ws[q]
        /\ ws'[p].pc = "share_again" /\ ws'[p].at = ws[p].at /\ ws'[p].lease = lease
        /\ ws'[p].tracked = ws[p].tracked
    BY Zenon, <1>2, <2>1 DEF WsType
  <2> QED
    BY Zenon, <1>1, <1>3, <2>1, <2>2, <2>3, UnderLockKept DEF Moved, UnderLock, Dropping, Exists
<1>4. CASE Go(p, "create_role")
  BY <1>1, <1>4, Gone, UnderLockKept DEF Moved, UnderLock, Acquiring, Dropping
<1> QED
  BY Zenon, <1>3, <1>4 DEF Recheck

\* CREATE ROLE: the role exists from here on.
LEMMA CreateRoleStep ==
    ASSUME LeaseInv, Normalized, NEW p \in Runs, CreateRole(p)
    PROVE  LeaseInv'
<1>1. ws[p].pc = "create_role" /\ UNCHANGED <<shared, exclusive>>
  BY Zenon DEF CreateRole, At
<1>2. ws \in [Runs -> WsType] /\ ws[p] \in WsType
  BY Zenon DEF LeaseInv, Shapes
<1>3. CASE ws' = [ws EXCEPT ![p].failed = TRUE, ![p].pc = "unlock"] /\ UNCHANGED roles
  <2>1. ws' \in [Runs -> WsType]
    BY Zenon, <1>2, <1>3 DEF WsType, Acquiring, UnderLock
  <2>2. /\ \A q \in Runs \ {p} : ws'[q] = ws[q]
        /\ ws'[p].pc = "unlock" /\ ws'[p].failed /\ ws'[p].at = ws[p].at /\ ws'[p].lease = ws[p].lease
        /\ ws'[p].tracked = ws[p].tracked
    BY Zenon, <1>2, <1>3 DEF WsType
  <2> QED
    BY Zenon, <1>1, <1>3, <2>1, <2>2, UnderLockKept DEF Moved, UnderLock, Dropping
<1>4. CASE /\ roles' = With(Role(p), FALSE)
           /\ ws' = [ws EXCEPT ![p].pc = "comment", ![p].lease = CreatedEntry(p)]
  <2>1. PICK lease \in Seq(EntryType) :
          /\ ws' = [ws EXCEPT ![p].pc = "comment", ![p].lease = lease]
          /\ Len(lease) = Len(ws[p].lease)
          /\ \A k \in 1..Len(ws[p].lease) : lease[k].name = ws[p].lease[k].name
    <3>1. ws[p].lease # <<>>
      BY <1>1, HeldTypes DEF LeaseInv, Positioned, Acquiring, UnderLock
    <3> QED
      BY Zenon, <1>4, <3>1, FlagsSet
  <2>2. ws' \in [Runs -> WsType]
    BY Zenon, <1>2, <2>1 DEF WsType, Acquiring, UnderLock
  <2>3. /\ \A q \in Runs \ {p} : ws'[q] = ws[q]
        /\ ws'[p].pc = "comment" /\ ws'[p].at = ws[p].at /\ ws'[p].lease = lease
        /\ ws'[p].tracked = ws[p].tracked
    BY Zenon, <1>2, <2>1 DEF WsType
  <2>4. DOMAIN roles \subseteq DOMAIN roles' /\ Role(p) \in DOMAIN roles'
    BY Zenon, <1>4 DEF With
  <2> QED
    BY <1>1, <2>1, <2>2, <2>3, <2>4, UnderLockKept DEF Moved, UnderLock, Dropping
<1> QED
  BY Zenon, <1>3, <1>4 DEF CreateRole

\* COMMENT ON ROLE leaves the role in place.
LEMMA MarkRoleStep ==
    ASSUME LeaseInv, Normalized, NEW p \in Runs, MarkRole(p)
    PROVE  LeaseInv'
<1>1. ws[p].pc = "comment" /\ Go(p, "share_again") /\ UNCHANGED <<shared, exclusive>>
  BY Zenon DEF MarkRole, At
<1>2. DOMAIN roles' = DOMAIN roles
  BY Zenon DEF MarkRole
<1>3. Role(p) \in DOMAIN roles
  BY Zenon, <1>1 DEF LeaseInv, Leased, Role, Roles, Exists
<1> QED
  BY <1>1, <1>2, <1>3, Gone, UnderLockKept DEF Moved, UnderLock, Acquiring, Dropping

\* An error under the lock may leave the role, and is kept until the lock is released.
LEMMA CreateFailsStep ==
    ASSUME LeaseInv, Normalized, NEW p \in Runs, CreateFails(p)
    PROVE  LeaseInv'
<1>1. /\ ws[p].pc \in {"recheck", "create_role", "comment", "share_again"}
      /\ ws' = [ws EXCEPT ![p].failed = TRUE, ![p].pc = "unlock"] /\ UNCHANGED <<shared, exclusive>>
  BY Zenon DEF CreateFails
<1>2. ws \in [Runs -> WsType] /\ ws[p] \in WsType
  BY Zenon DEF LeaseInv, Shapes
<1>3. ws' \in [Runs -> WsType]
  BY Zenon, <1>1, <1>2 DEF WsType, Acquiring, UnderLock
<1>4. /\ \A q \in Runs \ {p} : ws'[q] = ws[q]
      /\ ws'[p].pc = "unlock" /\ ws'[p].failed /\ ws'[p].at = ws[p].at /\ ws'[p].lease = ws[p].lease
      /\ ws'[p].tracked = ws[p].tracked
  BY Zenon, <1>1, <1>2 DEF WsType
<1>5. DOMAIN roles \subseteq DOMAIN roles'
  BY Zenon DEF CreateFails, With
<1> QED
  BY Zenon, <1>1, <1>3, <1>4, <1>5, UnderLockKept DEF Moved, UnderLock, Dropping

-----------------------------------------------------------------------------
(* Acquisition.                                                              *)

\* A run without required roles goes on to its database.
LEMMA CreateWorkspaceStep ==
    ASSUME LeaseInv, Normalized, NEW p \in Runs, CreateWorkspace(p)
    PROVE  LeaseInv'
<1>1. ws[p].pc = "start" /\ UNCHANGED <<roles, shared, exclusive>>
  BY Zenon DEF CreateWorkspace, At
<1>2. PICK pc \in {"create_database", "lock_shared"} :
        Go(p, pc) /\ (pc = "create_database" <=> Required[p] = <<>>)
  BY Zenon DEF CreateWorkspace
<1>3. /\ ws' \in [Runs -> WsType] /\ \A q \in Runs \ {p} : ws'[q] = ws[q]
      /\ ws'[p].pc = pc /\ ws'[p].at = ws[p].at /\ ws'[p].lease = ws[p].lease
      /\ ws'[p].tracked = ws[p].tracked
  BY Zenon, <1>2, Gone DEF Acquiring, InUse
<1>4. Moved(p)
  BY Zenon, <1>1, <1>3 DEF Moved, UnderLock, Dropping
<1>5. ws[p].lease = <<>> /\ ws[p].at = 1
  BY Zenon, <1>1 DEF LeaseInv, Positioned
<1>6. Len(Roles(p)) \in Nat /\ (Len(Roles(p)) = 0 => Required[p] = <<>>)
  <2>1. Required[p] \in Seq(Nat)
    BY Zenon DEF Normalized
  <2>2. Len(Required[p]) = 0 => Required[p] = <<>>
    BY <2>1
  <2>3. Len(Required[p]) # 0 => 1 \in 1..Len(Required[p])
    BY <2>1
  <2> QED
    BY <2>2, <2>3, RolesAreNames
<1>10. pc = "create_database" => Len(Roles(p)) = 0
  <2>1. CASE Required[p] = <<>>
    <3>1. Len(Required[p]) = 0
      BY <2>1
    <3> QED
      BY <1>6, <3>1, RolesAreNames
  <2> QED
    BY Zenon, <1>2, <2>1
<1>7. Positioned(p)'
  BY <1>2, <1>3, <1>5, <1>6, <1>10 DEF Positioned, Roles, Acquiring, UnderLock, InUse, Dropping
<1>8. Leased(p)'
  BY <1>3, <1>5 DEF Leased, Roles, Acquiring, UnderLock, InUse
<1>9. Tracked(p)'
  BY Zenon, <1>3, TrackedKept
<1> QED
  BY Zenon, <1>4, <1>7, <1>8, <1>9, MovedKept

\* Under the shared lock the role that was seen stays.
LEMMA LookStep ==
    ASSUME LeaseInv, Normalized, NEW p \in Runs, Look(p)
    PROVE  LeaseInv'
<1>1. ws[p].pc = "look" /\ UNCHANGED <<roles, shared, exclusive>>
  BY Zenon DEF Look, At
<1>2. PICK pc \in {"marker", "unlock_shared"} : Go(p, pc) /\ (pc = "marker" => Exists(Role(p)))
  BY Zenon DEF Look
<1>3. /\ ws' \in [Runs -> WsType] /\ \A q \in Runs \ {p} : ws'[q] = ws[q]
      /\ ws'[p].pc = pc /\ ws'[p].at = ws[p].at /\ ws'[p].lease = ws[p].lease
  BY Zenon, <1>2, Gone DEF Acquiring
<1>4. Moved(p)
  BY Zenon, <1>1, <1>3 DEF Moved, UnderLock, Dropping
<1>5. Positioned(p) /\ Leased(p)
  BY Zenon DEF LeaseInv
<1>6. Positioned(p)'
  BY Zenon, <1>1, <1>3, <1>5 DEF Positioned, Roles, Acquiring, InUse, Dropping
<1>7. Leased(p)'
  BY Zenon, <1>1, <1>2, <1>3, <1>5 DEF Leased, Roles, Role, Exists, Acquiring, InUse
<1>8. Tracked(p)'
  BY Zenon, <1>2, Gone, TrackedKept DEF Acquiring
<1> QED
  BY Zenon, <1>4, <1>6, <1>7, <1>8, MovedKept

(* The shared lock of the role at hand is taken or given up.                 *)
LEMMA LockSharedStep ==
    ASSUME LeaseInv, Normalized, NEW p \in Runs, LockShared(p)
    PROVE  LeaseInv'
<1> DEFINE r == Role(p)
<1>1. /\ ws[p].pc = "lock_shared" /\ exclusive[r] \in {Nobody, p}
      /\ shared' = [shared EXCEPT ![r] = @ \cup {p}] /\ UNCHANGED <<roles, exclusive>>
      /\ ws' = [ws EXCEPT ![p].lease = Append(@, NewLease(r)), ![p].pc = "look"]
  BY Zenon DEF LockShared, At
<1>2. /\ ws \in [Runs -> WsType] /\ ws[p] \in WsType
      /\ shared \in [Names -> SUBSET Runs] /\ exclusive \in [Names -> Runs \cup {Nobody}]
  BY Zenon DEF LeaseInv, Shapes
<1>3. Positioned(p) /\ Exclusive(p) /\ Shared(p) /\ Leased(p) /\ Excluded
  BY Zenon DEF LeaseInv
<1>4. ws[p].at \in 1..Len(Roles(p)) /\ Len(ws[p].lease) = ws[p].at - 1
  BY Zenon, <1>1, <1>3 DEF Positioned, Acquiring
<1>5. r \in Names /\ r = Roles(p)[ws[p].at]
  BY Zenon, <1>4, RolesAreNames DEF Role, Roles
<1>6. PICK lease \in Seq(EntryType) :
        /\ ws' = [ws EXCEPT ![p].lease = lease, ![p].pc = "look"]
        /\ Len(lease) = Len(ws[p].lease) + 1 /\ lease[Len(lease)].name = r
        /\ \A k \in 1..Len(ws[p].lease) : lease[k] = ws[p].lease[k]
  <2>1. NewLease(r) \in EntryType /\ NewLease(r).name = r
    BY Zenon, <1>5 DEF NewLease, EntryType
  <2>2. ws[p].lease \in Seq(EntryType)
    BY Zenon, HeldTypes
  <2>3. PICK lease : lease = Append(ws[p].lease, NewLease(r))
    BY Zenon
  <2>4. PICK e \in EntryType : e.name = r /\ lease = Append(ws[p].lease, e)
    BY Zenon, <2>1, <2>3
  <2>5. /\ lease \in Seq(EntryType) /\ Len(lease) = Len(ws[p].lease) + 1
        /\ lease[Len(lease)] = e
        /\ \A k \in 1..Len(ws[p].lease) : lease[k] = ws[p].lease[k]
    BY <2>2, <2>4
  <2>6. ws' = [ws EXCEPT ![p].lease = lease, ![p].pc = "look"]
    BY Zenon, <1>1, <1>2, <2>3
  <2> QED
    BY Zenon, <2>4, <2>5, <2>6
<1>7. /\ \A q \in Runs \ {p} : ws'[q] = ws[q]
      /\ ws'[p].pc = "look" /\ ws'[p].at = ws[p].at /\ ws'[p].lease = lease
      /\ ws'[p].tracked = ws[p].tracked
      /\ ws' \in [Runs -> WsType]
  <2>1. /\ \A q \in Runs \ {p} : ws'[q] = ws[q]
        /\ ws'[p] = [ws[p] EXCEPT !.lease = lease, !.pc = "look"]
        /\ ws' = [ws EXCEPT ![p] = [ws[p] EXCEPT !.lease = lease, !.pc = "look"]]
    BY Zenon, <1>2, <1>6
  <2>2. [ws[p] EXCEPT !.lease = lease, !.pc = "look"] \in WsType
    BY Zenon, <1>2, <1>6 DEF WsType, Acquiring
  <2>3. /\ ws'[p].pc = "look" /\ ws'[p].at = ws[p].at /\ ws'[p].lease = lease
        /\ ws'[p].tracked = ws[p].tracked
    BY Zenon, <1>2, <2>1 DEF WsType
  <2> QED
    BY Zenon, <1>2, <2>1, <2>2, <2>3
<1>8. Shapes' /\ Undisturbed(p)
  BY Zenon, <1>1, <1>2, <1>5, <1>7 DEF Shapes, Undisturbed
<1>9. Excluded'
  <2> SUFFICES ASSUME NEW x \in Names, exclusive'[x] # Nobody PROVE shared'[x] \subseteq {exclusive'[x]}
    BY Zenon DEF Excluded
  <2>1. exclusive'[x] = exclusive[x] /\ shared[x] \subseteq {exclusive[x]}
    BY Zenon, <1>1, <1>3 DEF Excluded
  <2>2. CASE x = r
    BY Zenon, <1>1, <1>2, <1>5, <2>1, <2>2
  <2>3. CASE x # r
    BY Zenon, <1>1, <1>2, <1>5, <2>1, <2>3
  <2> QED
    BY Zenon, <2>2, <2>3
<1>10. \A k \in 1..Len(lease) : lease[k].name = Roles(p)[k]
  <2> TAKE k \in 1..Len(lease)
  <2>1. Len(ws[p].lease) \in Nat /\ Len(lease) = ws[p].at
    BY SMTT(30), <1>4, <1>6, HeldTypes
  <2>2. CASE k = Len(lease)
    BY Zenon, <1>5, <1>6, <2>1, <2>2
  <2>3. CASE k # Len(lease)
    <3>1. k \in 1..Len(ws[p].lease)
      BY <1>6, <2>1, <2>3
    <3>2. lease[k] = ws[p].lease[k] /\ ws[p].lease[k].name = Roles(p)[k]
      BY Zenon, <1>3, <1>6, <3>1 DEF Positioned
    <3> QED
      BY Zenon, <3>2
  <2> QED
    BY Zenon, <2>2, <2>3
<1>11. Len(lease) = ws[p].at
  BY <1>4, <1>6, RolesAreNames
<1>12. Positioned(p)'
  BY <1>4, <1>7, <1>10, <1>11 DEF Positioned, Roles, Acquiring, UnderLock, InUse, Dropping
<1>13. Exclusive(p)'
  BY Zenon, <1>1, <1>3, <1>7 DEF Exclusive, UnderLock, Dropping
<1>14. Shared(p)'
  <2>1. \A x \in Names : p \in shared'[x] => \E k \in 1..Len(lease) : x = lease[k].name
    <3> SUFFICES ASSUME NEW x \in Names, p \in shared'[x] PROVE \E k \in 1..Len(lease) : x = lease[k].name
      BY Zenon
    <3>1. CASE x = r
      BY <1>4, <1>6, <3>1
    <3>2. CASE x # r
      <4>1. PICK k \in 1..Len(ws[p].lease) : x = ws[p].lease[k].name
        BY Zenon, <1>1, <1>2, <1>3, <1>5, <3>2 DEF Shared
      <4> QED
        BY SMTT(30), <1>6, <4>1, HeldTypes
    <3> QED
      BY Zenon, <3>1, <3>2
  <2> QED
    BY Zenon, <1>7, <2>1 DEF Shared, Dropping
<1>15. Leased(p)'
  <2>1. \A k \in 1..(ws[p].at - 1) : p \in shared'[Roles(p)[k]] /\ Roles(p)[k] \in DOMAIN roles
    BY <1>1, <1>2, <1>3, <1>4, <1>5, RolesAreNames DEF Leased, Acquiring, Exists
  <2>2. p \in shared'[Roles(p)[ws[p].at]]
    BY Zenon, <1>1, <1>2, <1>5
  <2> QED
    BY Zenon, <1>1, <1>7, <2>1, <2>2 DEF Leased, Roles, Exists
<1>16. Tracked(p)'
  BY Zenon, <1>7, TrackedKept
<1> QED
  BY Zenon, <1>8, <1>9, <1>12, <1>13, <1>14, <1>15, <1>16, Assembled

(* The run moves on to its next role, or to its database.                    *)
LEMMA NextRoleKept ==
    ASSUME LeaseInv, Normalized, NEW p \in Runs, ws[p].pc \in {"marker", "unlock"},
           NEW lease \in Seq(EntryType), Len(lease) = Len(ws[p].lease),
           \A k \in 1..Len(ws[p].lease) : lease[k].name = ws[p].lease[k].name,
           NextRole(p, lease), UNCHANGED <<roles, shared>>,
           p \in shared[Roles(p)[ws[p].at]], Roles(p)[ws[p].at] \in DOMAIN roles
    PROVE  /\ ws' \in [Runs -> WsType] /\ \A q \in Runs \ {p} : ws'[q] = ws[q]
           /\ ws'[p].pc \in {"create_database", "lock_shared"}
           /\ Positioned(p)' /\ Shared(p)' /\ Leased(p)' /\ Tracked(p)'
<1>1. ws \in [Runs -> WsType] /\ ws[p] \in WsType
  BY Zenon DEF LeaseInv, Shapes
<1>2. Positioned(p) /\ Shared(p) /\ Leased(p)
  BY Zenon DEF LeaseInv
<1>3. PICK pc \in {"create_database", "lock_shared"} :
        /\ pc = "create_database" <=> ws[p].at = Len(Roles(p))
        /\ ws' = [ws EXCEPT ![p] = [@ EXCEPT !.lease = lease, !.at = ws[p].at + 1, !.pc = pc]]
  BY Zenon DEF NextRole, Roles
<1>4. ws'[p] = [ws[p] EXCEPT !.lease = lease, !.at = ws[p].at + 1, !.pc = pc]
      /\ \A q \in Runs \ {p} : ws'[q] = ws[q]
  BY Zenon, <1>1, <1>3
<1>5. /\ ws'[p] \in WsType
      /\ ws'[p].pc = pc /\ ws'[p].at = ws[p].at + 1 /\ ws'[p].lease = lease
      /\ ws'[p].tracked = ws[p].tracked
  <2>1. ws[p].at + 1 \in Nat /\ pc \in {"start", "done"} \cup Acquiring \cup InUse \cup Closing
    BY HeldTypes DEF Acquiring, InUse
  <2>2. PICK at \in Nat : at = ws[p].at + 1 /\ ws'[p] = [ws[p] EXCEPT !.lease = lease, !.at = at, !.pc = pc]
    BY Zenon, <1>4, <2>1
  <2>3. ws'[p].pc = pc /\ ws'[p].at = at /\ ws'[p].lease = lease /\ ws'[p].tracked = ws[p].tracked
    BY Zenon, <1>1, <2>2 DEF WsType
  <2>4. ws'[p] \in WsType
    BY Zenon, <1>1, <2>1, <2>2 DEF WsType
  <2> QED
    BY Zenon, <2>2, <2>3, <2>4
<1>6. /\ ws'[p].pc = pc /\ ws'[p].at = ws[p].at + 1 /\ ws'[p].lease = lease
      /\ ws'[p].tracked = ws[p].tracked
  BY Zenon, <1>5
<1>7. ws' \in [Runs -> WsType]
  BY Zenon, <1>1, <1>3, <1>4, <1>5
<1>8. ws[p].at \in 1..Len(Roles(p)) /\ Len(ws[p].lease) = ws[p].at /\ Len(Roles(p)) \in Nat
  BY Zenon, <1>2, RolesAreNames DEF Positioned, Acquiring, UnderLock
<1>9. Positioned(p)'
  BY SMTT(30), <1>2, <1>3, <1>6, <1>8 DEF Positioned, Roles, Acquiring, UnderLock, InUse, Dropping
<1>10. Shared(p)'
  BY <1>2, <1>6 DEF Shared, Dropping
<1>11. \A k \in 1..(ws'[p].at - 1) : p \in shared[Roles(p)[k]] /\ Roles(p)[k] \in DOMAIN roles
  <2> SUFFICES ASSUME NEW k \in 1..ws[p].at
               PROVE  p \in shared[Roles(p)[k]] /\ Roles(p)[k] \in DOMAIN roles
    BY <1>6, <1>8
  <2>1. CASE k = ws[p].at
    BY Zenon, <2>1
  <2>2. CASE k # ws[p].at
    <3>1. k \in 1..(ws[p].at - 1)
      BY SMTT(30), <1>8, <2>2
    <3> QED
      BY Zenon, <1>2, <3>1 DEF Leased, Exists, Acquiring, UnderLock
  <2> QED
    BY Zenon, <2>1, <2>2
<1>12. Leased(p)'
  BY Zenon, <1>6, <1>11 DEF Leased, Roles, Exists
<1>13. Tracked(p)'
  BY Zenon, <1>6, TrackedKept
<1> QED
  BY Zenon, <1>4, <1>6, <1>7, <1>9, <1>10, <1>12, <1>13

\* A role that was there needs no exclusive lock.
LEMMA ReadMarkerStep ==
    ASSUME LeaseInv, Normalized, NEW p \in Runs, ReadMarker(p)
    PROVE  LeaseInv'
<1>1. ws[p].pc = "marker" /\ UNCHANGED <<roles, shared, exclusive>>
  BY Zenon DEF ReadMarker, At
<1>2. Leased(p) /\ Positioned(p) /\ Exclusive(p)
  BY Zenon DEF LeaseInv
<1>3. p \in shared[Roles(p)[ws[p].at]] /\ Roles(p)[ws[p].at] \in DOMAIN roles
  BY Zenon, <1>1, <1>2 DEF Leased, Exists
<1>4. PICK lease \in Seq(EntryType) :
        /\ NextRole(p, lease) /\ Len(lease) = Len(ws[p].lease)
        /\ \A k \in 1..Len(ws[p].lease) : lease[k].name = ws[p].lease[k].name
  <2>1. ws[p].lease # <<>>
    BY <1>1, <1>2, HeldTypes DEF Positioned, Acquiring
  <2>2. Marked(Role(p)) \in BOOLEAN
    BY Zenon DEF Marked
  <2>3. PICK lease : lease = Entry(p, Marked(Role(p)))
    BY Zenon
  <2>4. NextRole(p, lease)
    BY Zenon, <2>3 DEF ReadMarker
  <2> QED
    BY Zenon, <2>1, <2>2, <2>3, <2>4, FlagsSet
<1>5. /\ ws' \in [Runs -> WsType] /\ \A q \in Runs \ {p} : ws'[q] = ws[q]
      /\ ws'[p].pc \in {"create_database", "lock_shared"}
      /\ Positioned(p)' /\ Shared(p)' /\ Leased(p)' /\ Tracked(p)'
  BY Zenon, <1>1, <1>3, <1>4, NextRoleKept
<1>6. Shapes' /\ Excluded' /\ Undisturbed(p)
  BY Zenon, <1>1, <1>5 DEF LeaseInv, Shapes, Excluded, Undisturbed
<1>7. Exclusive(p)'
  BY Zenon, <1>1, <1>2, <1>5 DEF Exclusive, UnderLock, Dropping
<1> QED
  BY Zenon, <1>5, <1>6, <1>7, Assembled

(* What holds of the role at hand while the run acquires.                    *)
LEMMA AtHand ==
    ASSUME LeaseInv, Normalized, NEW p \in Runs, ws[p].pc \in Acquiring
    PROVE  /\ Role(p) \in Names /\ Role(p) = Roles(p)[ws[p].at] /\ ws[p].at \in 1..Len(Roles(p))
           /\ \A k \in 1..(ws[p].at - 1) : Roles(p)[k] \in Names /\ Roles(p)[k] # Role(p)
           /\ ws[p].pc # "lock_shared" => \E k \in 1..Len(ws[p].lease) : Role(p) = ws[p].lease[k].name
<1>1. Positioned(p)
  BY Zenon DEF LeaseInv
<1>2. ws[p].at \in 1..Len(Roles(p))
  BY Zenon, <1>1 DEF Positioned
<1>3. ws[p].pc # "lock_shared" => ws[p].at \in 1..Len(ws[p].lease) /\ ws[p].lease[ws[p].at].name = Roles(p)[ws[p].at]
  BY <1>1, <1>2, HeldTypes DEF Positioned
<1>4. Role(p) = Roles(p)[ws[p].at]
  BY Zenon DEF Role, Roles
<1>5. \A k \in 1..(ws[p].at - 1) : k \in 1..Len(Roles(p)) /\ k # ws[p].at
  BY <1>2, RolesAreNames
<1>6. \A k \in 1..(ws[p].at - 1) : Roles(p)[k] \in Names /\ Roles(p)[k] # Role(p)
  BY <1>2, <1>4, <1>5, RolesAreNames
<1> QED
  BY <1>2, <1>3, <1>4, <1>6, RolesAreNames

\* The shared lock is given up before the exclusive one is asked for.
LEMMA UnlockSharedStep ==
    ASSUME LeaseInv, Normalized, NEW p \in Runs, UnlockShared(p)
    PROVE  LeaseInv'
<1>1. PICK r : /\ r = Role(p) /\ ws[p].pc = "unlock_shared"
      /\ shared' = [shared EXCEPT ![r] = @ \ {p}] /\ Go(p, "lock") /\ UNCHANGED <<roles, exclusive>>
  BY Zenon DEF UnlockShared, At
<1>2. /\ ws' \in [Runs -> WsType] /\ \A q \in Runs \ {p} : ws'[q] = ws[q]
      /\ ws'[p].pc = "lock" /\ ws'[p].at = ws[p].at /\ ws'[p].lease = ws[p].lease
      /\ ws'[p].tracked = ws[p].tracked
  BY Zenon, <1>1, Gone DEF Acquiring
<1>3. Positioned(p) /\ Exclusive(p) /\ Shared(p) /\ Leased(p) /\ Excluded
      /\ shared \in [Names -> SUBSET Runs] /\ exclusive \in [Names -> Runs \cup {Nobody}]
  BY Zenon DEF LeaseInv, Shapes
<1>4. /\ r \in Names /\ r = Roles(p)[ws[p].at] /\ ws[p].at \in 1..Len(Roles(p))
      /\ \A k \in 1..(ws[p].at - 1) : Roles(p)[k] \in Names /\ Roles(p)[k] # r
  BY Zenon, <1>1, AtHand DEF Acquiring
<1>5. /\ shared' \in [Names -> SUBSET Runs] /\ p \notin shared'[r]
      /\ \A x \in Names : shared'[x] \subseteq shared[x] /\ \A q \in Runs : q # p \/ x # r => (q \in shared'[x] <=> q \in shared[x])
  BY Zenon, <1>1, <1>3, <1>4
<1>6. Shapes' /\ Undisturbed(p)
  BY Zenon, <1>1, <1>2, <1>3, <1>5 DEF Shapes, Undisturbed
<1>7. Excluded'
  BY Zenon, <1>1, <1>3, <1>5 DEF Excluded
<1>8. Positioned(p)'
  BY Zenon, <1>1, <1>2, <1>3 DEF Positioned, Roles, Acquiring, UnderLock, InUse, Dropping
<1>9. Exclusive(p)'
  BY Zenon, <1>1, <1>2, <1>3 DEF Exclusive, UnderLock, Dropping
<1>10. Shared(p)'
  <2>1. \A x \in Names : p \in shared'[x] => \E k \in 1..Len(ws[p].lease) : x = ws[p].lease[k].name
    BY Zenon, <1>3, <1>5 DEF Shared
  <2> QED
    BY SMTT(30), <1>2, <1>4, <1>5, <2>1 DEF Shared, Roles, Dropping
<1>11. Leased(p)'
  <2>1. \A k \in 1..(ws[p].at - 1) : p \in shared'[Roles(p)[k]] /\ Roles(p)[k] \in DOMAIN roles
    BY Zenon, <1>1, <1>3, <1>4, <1>5 DEF Leased, Exists, Acquiring
  <2> QED
    BY Zenon, <1>1, <1>2, <2>1 DEF Leased, Roles, Exists
<1>12. Tracked(p)'
  BY Zenon, <1>2, TrackedKept
<1> QED
  BY Zenon, <1>6, <1>7, <1>8, <1>9, <1>10, <1>11, <1>12, Assembled

\* The exclusive lock is granted when nobody else holds the role.
LEMMA LockStep ==
    ASSUME LeaseInv, Normalized, Nobody \notin Runs, NEW p \in Runs, Lock(p)
    PROVE  LeaseInv'
<1>1. PICK r : /\ r = Role(p) /\ ws[p].pc = "lock" /\ exclusive[r] = Nobody /\ shared[r] \subseteq {p}
      /\ exclusive' = [exclusive EXCEPT ![r] = p] /\ Go(p, "recheck") /\ UNCHANGED <<roles, shared>>
  BY Zenon DEF Lock, At
<1>2. /\ ws' \in [Runs -> WsType] /\ \A q \in Runs \ {p} : ws'[q] = ws[q]
      /\ ws'[p].pc = "recheck" /\ ws'[p].at = ws[p].at /\ ws'[p].lease = ws[p].lease
      /\ ws'[p].tracked = ws[p].tracked
  BY Zenon, <1>1, Gone DEF Acquiring, UnderLock
<1>3. Positioned(p) /\ Exclusive(p) /\ Shared(p) /\ Leased(p) /\ Excluded
      /\ shared \in [Names -> SUBSET Runs] /\ exclusive \in [Names -> Runs \cup {Nobody}]
  BY Zenon DEF LeaseInv, Shapes
<1>4. r \in Names /\ r = Roles(p)[ws[p].at] /\ ws[p].at \in 1..Len(Roles(p))
  BY Zenon, <1>1, AtHand DEF Acquiring
<1>5. /\ exclusive' \in [Names -> Runs \cup {Nobody}] /\ exclusive'[r] = p
      /\ \A x \in Names : x # r => exclusive'[x] = exclusive[x]
  BY Zenon, <1>1, <1>3, <1>4
<1>6. Shapes'
  BY Zenon, <1>1, <1>2, <1>3, <1>5 DEF Shapes
<1>13. Undisturbed(p)
  BY SMTT(30), <1>1, <1>2, <1>4, <1>5, <1>3 DEF Undisturbed, Exclusive
<1>7. Excluded'
  BY Zenon, <1>1, <1>3, <1>5 DEF Excluded
<1>8. Positioned(p)'
  BY Zenon, <1>1, <1>2, <1>3 DEF Positioned, Roles, Acquiring, UnderLock, InUse, Dropping
<1>9. Exclusive(p)'
  <2>1. \A x \in Names : exclusive[x] # p
    BY Zenon, <1>1, <1>3 DEF Exclusive, UnderLock, Dropping
  <2> QED
    BY <1>2, <1>4, <1>5, <2>1 DEF Exclusive, Roles, UnderLock, Dropping
<1>10. Shared(p)'
  BY SMTT(30), <1>1, <1>2, <1>3 DEF Shared, Dropping
<1>11. Leased(p)'
  BY Zenon, <1>1, <1>2, <1>3 DEF Leased, Roles, Exists, Acquiring, UnderLock
<1>12. Tracked(p)'
  BY Zenon, <1>2, TrackedKept
<1> QED
  BY Zenon, <1>6, <1>13, <1>7, <1>8, <1>9, <1>10, <1>11, <1>12, Assembled


-----------------------------------------------------------------------------
(* The end of an acquisition.                                                *)

\* The shared lock is taken again before the exclusive one is released.
LEMMA ShareAgainStep ==
    ASSUME LeaseInv, Normalized, NEW p \in Runs, ShareAgain(p)
    PROVE  LeaseInv'
<1>1. PICK r : /\ r = Role(p) /\ ws[p].pc = "share_again"
      /\ shared' = [shared EXCEPT ![r] = @ \cup {p}] /\ Go(p, "unlock") /\ UNCHANGED <<roles, exclusive>>
  BY Zenon DEF ShareAgain, At
<1>2. /\ ws' \in [Runs -> WsType] /\ \A q \in Runs \ {p} : ws'[q] = ws[q]
      /\ ws'[p].pc = "unlock" /\ ws'[p].at = ws[p].at /\ ws'[p].lease = ws[p].lease
      /\ ws'[p].tracked = ws[p].tracked
  BY Zenon, <1>1, Gone DEF Acquiring, UnderLock
<1>3. Positioned(p) /\ Exclusive(p) /\ Shared(p) /\ Leased(p) /\ Excluded
      /\ shared \in [Names -> SUBSET Runs] /\ exclusive \in [Names -> Runs \cup {Nobody}]
  BY Zenon DEF LeaseInv, Shapes
<1>4. /\ r \in Names /\ r = Roles(p)[ws[p].at]
      /\ \A k \in 1..(ws[p].at - 1) : Roles(p)[k] \in Names
      /\ \E k \in 1..Len(ws[p].lease) : r = ws[p].lease[k].name
  BY Zenon, <1>1, AtHand DEF Acquiring, UnderLock
<1>5. /\ shared' \in [Names -> SUBSET Runs] /\ p \in shared'[r]
      /\ \A x \in Names : /\ shared[x] \subseteq shared'[x]
                          /\ \A q \in Runs : q # p \/ x # r => (q \in shared'[x] <=> q \in shared[x])
  BY Zenon, <1>1, <1>3, <1>4
<1>6. Shapes' /\ Undisturbed(p)
  BY Zenon, <1>1, <1>2, <1>3, <1>5 DEF Shapes, Undisturbed
<1>7. exclusive[r] = p
  BY Zenon, <1>1, <1>3, <1>4 DEF Exclusive, UnderLock
<1>8. Excluded'
  <2> SUFFICES ASSUME NEW x \in Names, exclusive[x] # Nobody PROVE shared'[x] \subseteq {exclusive[x]}
    BY Zenon, <1>1 DEF Excluded
  <2>1. shared[x] \subseteq {exclusive[x]}
    BY Zenon, <1>3 DEF Excluded
  <2> QED
    BY Zenon, <1>1, <1>3, <1>4, <1>7, <2>1
<1>9. Positioned(p)'
  BY Zenon, <1>1, <1>2, <1>3 DEF Positioned, Roles, Acquiring, UnderLock, InUse, Dropping
<1>10. Exclusive(p)'
  BY Zenon, <1>1, <1>2, <1>3 DEF Exclusive, Roles, UnderLock, Dropping
<1>11. Shared(p)'
  <2>1. \A x \in Names : p \in shared'[x] => \E k \in 1..Len(ws[p].lease) : x = ws[p].lease[k].name
    BY Zenon, <1>3, <1>4, <1>5 DEF Shared
  <2> QED
    BY SMTT(30), <1>2, <2>1 DEF Shared, Dropping
<1>12. Leased(p)'
  <2>1. \A k \in 1..(ws[p].at - 1) : p \in shared'[Roles(p)[k]] /\ Roles(p)[k] \in DOMAIN roles
    BY Zenon, <1>1, <1>3, <1>4, <1>5 DEF Leased, Exists, Acquiring, UnderLock
  <2>2. r \in DOMAIN roles
    BY Zenon, <1>1, <1>3, <1>4 DEF Leased, Exists
  <2> QED
    BY <1>1, <1>2, <1>4, <1>5, <2>1, <2>2 DEF Leased, Roles, Exists
<1>13. Tracked(p)'
  BY Zenon, <1>2, TrackedKept
<1> QED
  BY Zenon, <1>6, <1>8, <1>9, <1>10, <1>11, <1>12, <1>13, Assembled

\* Either the role is leased by now, or the error closes the lease.
LEMMA UnlockStep ==
    ASSUME LeaseInv, Normalized, Nobody \notin Runs, NEW p \in Runs, Unlock(p)
    PROVE  LeaseInv'
<1>1. PICK r : /\ r = Role(p) /\ ws[p].pc = "unlock"
      /\ exclusive' = [exclusive EXCEPT ![r] = Nobody] /\ UNCHANGED <<roles, shared>>
      /\ IF ws[p].failed THEN Go(p, "close") ELSE NextRole(p, ws[p].lease)
  BY Zenon DEF Unlock, At
<1>2. Positioned(p) /\ Exclusive(p) /\ Shared(p) /\ Leased(p) /\ Excluded
      /\ shared \in [Names -> SUBSET Runs] /\ exclusive \in [Names -> Runs \cup {Nobody}]
  BY Zenon DEF LeaseInv, Shapes
<1>3. r \in Names /\ r = Roles(p)[ws[p].at]
  BY Zenon, <1>1, AtHand DEF Acquiring, UnderLock
<1>4. /\ exclusive' \in [Names -> Runs \cup {Nobody}]
      /\ \A x \in Names : exclusive'[x] = exclusive[x] \/ (exclusive'[x] = Nobody /\ exclusive[x] = p)
      /\ \A x \in Names : exclusive'[x] # p
  <2>1. \A x \in Names : exclusive[x] = p <=> x = r
    BY Zenon, <1>1, <1>2, <1>3 DEF Exclusive, UnderLock, Dropping
  <2>2. /\ exclusive' \in [Names -> Runs \cup {Nobody}] /\ exclusive'[r] = Nobody
        /\ \A x \in Names : x # r => exclusive'[x] = exclusive[x]
    BY Zenon, <1>1, <1>2, <1>3
  <2>3. Nobody # p
    BY Zenon
  <2> QED
    BY Zenon, <2>1, <2>2, <2>3
<1>5. Excluded'
  BY Zenon, <1>1, <1>2, <1>4 DEF Excluded
<1>6. CASE Go(p, "close")
  <2>1. /\ ws' \in [Runs -> WsType] /\ \A q \in Runs \ {p} : ws'[q] = ws[q]
        /\ ws'[p].pc = "close" /\ ws'[p].at = ws[p].at /\ ws'[p].lease = ws[p].lease
        /\ ws'[p].tracked = ws[p].tracked
    BY Zenon, <1>6, Gone DEF Closing
  <2>2. Shapes' /\ Undisturbed(p)
    <3>1. Shapes'
      BY Zenon, <1>1, <1>2, <1>4, <2>1 DEF Shapes
    <3>2. Undisturbed(p)
      BY Zenon, <1>1, <1>4, <2>1 DEF Undisturbed
    <3> QED
      BY Zenon, <3>1, <3>2
  <2>3. Positioned(p)'
    BY Zenon, <1>1, <1>2, <2>1 DEF Positioned, Roles, Acquiring, UnderLock, InUse, Dropping
  <2>4. Exclusive(p)'
    BY Zenon, <1>4, <2>1 DEF Exclusive, UnderLock, Dropping
  <2>5. Shared(p)' /\ Leased(p)'
    <3>1. Shared(p)'
      BY <1>1, <1>2, <2>1 DEF Shared, UnderLock, Dropping
    <3>2. Leased(p)'
      BY Zenon, <2>1 DEF Leased, Acquiring, UnderLock, InUse
    <3> QED
      BY Zenon, <3>1, <3>2
  <2>6. Tracked(p)'
    BY Zenon, <2>1, TrackedKept
  <2> QED
    BY Zenon, <1>5, <2>2, <2>3, <2>4, <2>5, <2>6, Assembled
<1>7. CASE ~ws[p].failed /\ NextRole(p, ws[p].lease)
  <2>1. p \in shared[r] /\ r \in DOMAIN roles
    BY Zenon, <1>1, <1>2, <1>3, <1>7 DEF Leased, Exists
  <2>2. /\ ws' \in [Runs -> WsType] /\ \A q \in Runs \ {p} : ws'[q] = ws[q]
        /\ ws'[p].pc \in {"create_database", "lock_shared"}
        /\ Positioned(p)' /\ Shared(p)' /\ Leased(p)' /\ Tracked(p)'
    BY Zenon, <1>1, <1>3, <1>7, <2>1, HeldTypes, NextRoleKept
  <2>3. Shapes' /\ Undisturbed(p)
    <3>1. Shapes'
      BY Zenon, <1>1, <1>2, <1>4, <2>2 DEF Shapes
    <3>2. Undisturbed(p)
      BY Zenon, <1>1, <1>4, <2>2 DEF Undisturbed
    <3> QED
      BY Zenon, <3>1, <3>2
  <2>4. Exclusive(p)'
    BY Zenon, <1>4, <2>2 DEF Exclusive, UnderLock, Dropping
  <2> QED
    BY Zenon, <1>5, <2>2, <2>3, <2>4, Assembled
<1> QED
  BY Zenon, <1>1, <1>6, <1>7, HeldTypes

-----------------------------------------------------------------------------
(* The roles that the documents create: none of the leased ones is           *)
(* remembered, since each of them exists; and none that another run leases   *)
(* is dropped, since runs manage roles of their own (Apart).                 *)
LEMMA trackCreatedRolesStep ==
    ASSUME LeaseInv, Normalized, NEW p \in Runs, trackCreatedRoles(p)
    PROVE  LeaseInv'
<1>1. PICK tracked : /\ tracked = {r \in Managed[p] : ~Exists(r)} /\ ws[p].pc = "track"
      /\ ws' = [ws EXCEPT ![p].tracked = tracked, ![p].pc = "use"] /\ UNCHANGED <<roles, shared, exclusive>>
  BY Zenon DEF trackCreatedRoles, At
<1>2. ws \in [Runs -> WsType] /\ ws[p] \in WsType /\ Positioned(p) /\ Leased(p)
  BY Zenon DEF LeaseInv, Shapes
<1>3. tracked \in SUBSET (UNION {Managed[q] : q \in Runs})
  BY Zenon, <1>1
<1>4. ws'[p] = [ws[p] EXCEPT !.tracked = tracked, !.pc = "use"] /\ \A q \in Runs \ {p} : ws'[q] = ws[q]
  BY Zenon, <1>1, <1>2
<1>5. ws'[p].pc = "use" /\ ws'[p].at = ws[p].at /\ ws'[p].lease = ws[p].lease /\ ws'[p].tracked = tracked
  BY Zenon, <1>2, <1>4 DEF WsType
<1>6. ws'[p] \in WsType
  BY Zenon, <1>2, <1>3, <1>4 DEF WsType, InUse
<1>7. ws' \in [Runs -> WsType]
  BY Zenon, <1>1, <1>2, <1>6
<1>8. Moved(p)
  BY Zenon, <1>1, <1>4, <1>5, <1>7 DEF Moved, UnderLock, Dropping
<1>9. Positioned(p)'
  BY Zenon, <1>1, <1>2, <1>5 DEF Positioned, Roles, Acquiring, UnderLock, InUse, Dropping
<1>10. Leased(p)'
  BY Zenon, <1>1, <1>2, <1>5 DEF Leased, Roles, Exists, Acquiring, UnderLock, InUse
<1>11. Tracked(p)'
  <2>1. \A k \in 1..Len(Roles(p)) : Roles(p)[k] \in DOMAIN roles
    BY <1>1, <1>2, RolesAreNames DEF Leased, Positioned, Exists, InUse
  <2> QED
    BY Zenon, <1>1, <1>5, <2>1 DEF Tracked, Roles, Exists
<1> QED
  BY Zenon, <1>8, <1>9, <1>10, <1>11, MovedKept

\* Dropping what was remembered takes no leased role away.
LEMMA cleanupCreatedRolesStep ==
    ASSUME LeaseInv, Normalized, Apart, NEW p \in Runs, cleanupCreatedRoles(p)
    PROVE  LeaseInv'
<1>1. /\ ws[p].pc = "drop_tracked" /\ Go(p, "close") /\ UNCHANGED <<shared, exclusive>>
      /\ DOMAIN roles' = DOMAIN roles \ ws[p].tracked
  BY Zenon DEF cleanupCreatedRoles, At
<1>2. /\ ws' \in [Runs -> WsType] /\ \A q \in Runs \ {p} : ws'[q] = ws[q]
      /\ ws'[p].pc = "close" /\ ws'[p].at = ws[p].at /\ ws'[p].lease = ws[p].lease
      /\ ws'[p].tracked = ws[p].tracked
  BY Zenon, <1>1, Gone DEF Closing
<1>3. Positioned(p) /\ Exclusive(p) /\ Shared(p) /\ Tracked(p)
  BY Zenon DEF LeaseInv
<1>4. ASSUME NEW q \in Runs \ {p}, NEW r \in Names, q \in shared[r] \/ exclusive[r] = q
      PROVE  r \notin ws[p].tracked
  <2>1. \E i \in 1..Len(Roles(q)) : r = Roles(q)[i]
    <3>1. Positioned(q) /\ Exclusive(q) /\ Shared(q)
      BY Zenon DEF LeaseInv
    <3>2. \A k \in 1..Len(ws[q].lease) : k \in 1..Len(Roles(q)) /\ ws[q].lease[k].name = Roles(q)[k]
      <4>1. Len(ws[q].lease) \in Nat /\ Len(Roles(q)) \in Nat
        BY Zenon, HeldTypes, RolesAreNames
      <4>2. Len(ws[q].lease) <= Len(Roles(q)) /\ \A k \in 1..Len(ws[q].lease) : ws[q].lease[k].name = Roles(q)[k]
        BY Zenon, <3>1 DEF Positioned
      <4> QED
        BY <4>1, <4>2
    <3>3. CASE q \in shared[r]
      BY <3>1, <3>2, <3>3 DEF Shared
    <3>4. CASE exclusive[r] = q
      BY SMTT(30), <3>1, <3>2, <3>4, HeldTypes DEF Exclusive, Positioned, Acquiring
    <3> QED
      BY Zenon, <1>4, <3>3, <3>4
  <2>2. \E k \in 1..Len(Required[q]) : r = Required[q][k]
    BY <2>1, RolesAreNames
  <2>3. r \notin Managed[p]
    BY Zenon, <1>4, <2>2 DEF Apart
  <2> QED
    BY Zenon, <1>3, <2>3 DEF Tracked
<1>5. Undisturbed(p)
  BY Zenon, <1>1, <1>2, <1>4 DEF Undisturbed
<1>6. Shapes' /\ Excluded'
  BY Zenon, <1>1, <1>2 DEF LeaseInv, Shapes, Excluded
<1>7. Positioned(p)'
  BY Zenon, <1>1, <1>2, <1>3 DEF Positioned, Roles, Acquiring, UnderLock, InUse, Dropping
<1>8. Exclusive(p)'
  BY Zenon, <1>1, <1>2, <1>3 DEF Exclusive, UnderLock, Dropping
<1>9. Shared(p)' /\ Leased(p)'
  BY <1>1, <1>2, <1>3 DEF Shared, Leased, Acquiring, UnderLock, InUse, Dropping
<1>10. Tracked(p)'
  BY Zenon, <1>2, TrackedKept
<1> QED
  BY Zenon, <1>5, <1>6, <1>7, <1>8, <1>9, <1>10, Assembled

-----------------------------------------------------------------------------
(* postgresRoleLease.Close: the last entry is taken off the lease.          *)
LEMMA ShorterIs ==
    ASSUME LeaseInv, NEW p \in Runs, ws[p].lease # <<>>
    PROVE  /\ Shorter(p) \in Seq(EntryType) /\ Len(Shorter(p)) = Len(ws[p].lease) - 1
           /\ \A k \in 1..(Len(ws[p].lease) - 1) : Shorter(p)[k] = ws[p].lease[k]
           /\ LastEntry(p).name \in Names /\ Len(ws[p].lease) \in Nat \ {0}
<1>1. ws[p].lease \in Seq(EntryType)
  BY Zenon, HeldTypes
<1>2. PICK lease \in Seq(EntryType) : lease = ws[p].lease
  BY Zenon, <1>1
<1>3. Len(lease) \in Nat \ {0}
  BY <1>2
<1>4. PICK s : s = SubSeq(lease, 1, Len(lease) - 1)
  BY Zenon
<1>5. /\ s \in Seq(EntryType) /\ Len(s) = Len(lease) - 1
      /\ \A k \in 1..(Len(lease) - 1) : s[k] = lease[k]
  <2>1. PICK n \in Nat : n = Len(lease) - 1 /\ s = SubSeq(lease, 1, n) /\ n <= Len(lease)
    BY <1>3, <1>4
  <2>2. \A k \in 1..n : lease[k] \in EntryType /\ k \in 1..Len(lease)
    BY <1>3, <2>1
  <2>3. s = [k \in 1..n |-> lease[k]]
    BY <1>3, <2>1
  <2>4. s \in [1..n -> EntryType]
    BY Zenon, <2>2, <2>3
  <2>5. s \in Seq(EntryType) /\ Len(s) = n
    BY <2>3, <2>4
  <2> QED
    BY Zenon, <2>1, <2>3, <2>5
<1> QED
  BY Zenon, <1>2, <1>3, <1>4, <1>5, HeldTypes DEF Shorter, LastEntry

(* Closing a lease goes on with a shorter one.                               *)
LEMMA ShortenedKept ==
    ASSUME LeaseInv, Normalized, NEW p \in Runs, ws[p].lease # <<>>, ws[p].pc \in Closing,
           ws' = [ws EXCEPT ![p].lease = Shorter(p), ![p].pc = "close"],
           Shapes', Excluded', UNCHANGED roles,
           \A q \in Runs \ {p} : \A r \in Names :
              (q \in shared'[r] <=> q \in shared[r]) /\ (exclusive'[r] = q <=> exclusive[r] = q),
           \A r \in Names : exclusive'[r] # p,
           \A r \in Names : p \in shared'[r] => p \in shared[r] /\ r # LastEntry(p).name
    PROVE  LeaseInv'
<1>1. ws \in [Runs -> WsType] /\ ws[p] \in WsType /\ Positioned(p) /\ Shared(p)
  BY Zenon DEF LeaseInv, Shapes
<1>2. PICK lease \in Seq(EntryType) :
        /\ lease = Shorter(p) /\ Len(lease) = Len(ws[p].lease) - 1
        /\ \A k \in 1..(Len(ws[p].lease) - 1) : lease[k] = ws[p].lease[k]
  BY Zenon, ShorterIs
<1>3. ws'[p] = [ws[p] EXCEPT !.lease = lease, !.pc = "close"] /\ \A q \in Runs \ {p} : ws'[q] = ws[q]
  BY Zenon, <1>1, <1>2
<1>4. /\ ws'[p].pc = "close" /\ ws'[p].at = ws[p].at /\ ws'[p].lease = lease
      /\ ws'[p].tracked = ws[p].tracked
  BY Zenon, <1>1, <1>3 DEF WsType
<1>5. Undisturbed(p)
  BY Zenon, <1>3 DEF Undisturbed
<1>6. Len(ws[p].lease) \in Nat \ {0} /\ Len(Roles(p)) \in Nat
  BY Zenon, ShorterIs, RolesAreNames
<1>7. Positioned(p)'
  BY SMTT(30), <1>1, <1>2, <1>4, <1>6 DEF Positioned, Roles, Acquiring, UnderLock, InUse, Dropping
<1>8. Exclusive(p)' /\ Leased(p)'
  BY Zenon, <1>4 DEF Exclusive, Leased, Acquiring, UnderLock, InUse, Dropping
<1>9. Shared(p)'
  <2> SUFFICES ASSUME NEW r \in Names, p \in shared'[r] PROVE \E k \in 1..Len(lease) : r = lease[k].name
    BY Zenon, <1>4 DEF Shared, Dropping
  <2>1. PICK k \in 1..Len(ws[p].lease) : r = ws[p].lease[k].name
    BY Zenon, <1>1 DEF Shared
  <2>2. k # Len(ws[p].lease)
    BY Zenon, <2>1 DEF LastEntry
  <2>3. k \in 1..Len(lease) /\ lease[k] = ws[p].lease[k]
    BY <1>2, <1>6, <2>2
  <2> QED
    BY Zenon, <2>1, <2>3
<1>10. Tracked(p)'
  BY Zenon, <1>4, TrackedKept
<1> QED
  BY Zenon, <1>5, <1>7, <1>8, <1>9, <1>10, Assembled

\* The lease is closed from its last entry; without entries the run is over.
LEMMA CloseNextStep ==
    ASSUME LeaseInv, Normalized, Nobody \notin Runs, NEW p \in Runs, CloseNext(p)
    PROVE  LeaseInv'
<1>1. ws[p].pc = "close" /\ UNCHANGED <<roles, exclusive>>
  BY Zenon DEF CloseNext, At
<1>2. Positioned(p) /\ Exclusive(p) /\ Shared(p) /\ Excluded /\ Shapes
      /\ shared \in [Names -> SUBSET Runs] /\ ws \in [Runs -> WsType] /\ ws[p] \in WsType
  BY Zenon DEF LeaseInv, Shapes
<1>3. \A r \in Names : exclusive[r] # p
  BY Zenon, <1>1, <1>2 DEF Exclusive, UnderLock, Dropping
<1>4. CASE ws[p].lease = <<>>
  <2>1. ws' = [ws EXCEPT ![p] = [Fresh EXCEPT !.pc = "done"]] /\ UNCHANGED shared
    BY Zenon, <1>4 DEF CloseNext
  <2>2. PICK w : w = [Fresh EXCEPT !.pc = "done"]
    BY Zenon
  <2>3. w = [pc |-> "done", at |-> 1, lease |-> <<>>, tracked |-> {}, tries |-> 1, failed |-> FALSE]
    BY Zenon, <2>2 DEF Fresh
  <2>4. w \in WsType /\ w.pc = "done" /\ w.lease = <<>> /\ w.tracked = {}
    <3>1. <<>> \in Seq(EntryType)
      OBVIOUS
    <3> QED
      BY Zenon, <2>3, <3>1 DEF WsType
  <2>5. ws' \in [Runs -> WsType] /\ ws'[p] = w /\ \A q \in Runs \ {p} : ws'[q] = ws[q]
    BY Zenon, <1>2, <2>1, <2>2, <2>4
  <2>6. Shapes' /\ Excluded' /\ Undisturbed(p)
    BY Zenon, <1>1, <1>2, <2>1, <2>5 DEF Shapes, Excluded, Undisturbed
  <2>7. Len(ws'[p].lease) = 0 /\ Len(ws[p].lease) = 0
    BY <1>4, <2>4, <2>5
  <2>8. Positioned(p)'
    BY <2>4, <2>5, <2>7, RolesAreNames DEF Positioned, Roles, Acquiring, UnderLock, InUse, Dropping
  <2>9. Exclusive(p)' /\ Leased(p)'
    BY Zenon, <1>1, <1>3, <2>4, <2>5 DEF Exclusive, Leased, Acquiring, UnderLock, InUse, Dropping
  <2>10. Shared(p)'
    BY <1>2, <2>1, <2>4, <2>5, <2>7 DEF Shared, Dropping
  <2>11. Tracked(p)'
    BY Zenon, <2>4, <2>5 DEF Tracked
  <2> QED
    BY Zenon, <2>6, <2>8, <2>9, <2>10, <2>11, Assembled
<1>5. CASE ws[p].lease # <<>>
  <2>1. PICK r : /\ r = LastEntry(p).name /\ shared' = [shared EXCEPT ![r] = @ \ {p}]
                 /\ (IF LastEntry(p).managed THEN Go(p, "try_lock") ELSE ws' = [ws EXCEPT ![p].lease = Shorter(p)])
    BY Zenon, <1>5 DEF CloseNext
  <2>2. r \in Names /\ r = ws[p].lease[Len(ws[p].lease)].name
    BY Zenon, <1>5, <2>1, ShorterIs DEF LastEntry
  <2>3. /\ shared' \in [Names -> SUBSET Runs] /\ p \notin shared'[r]
        /\ \A x \in Names : /\ shared'[x] \subseteq shared[x]
                            /\ \A q \in Runs : q # p \/ x # r => (q \in shared'[x] <=> q \in shared[x])
    BY Zenon, <1>2, <2>1, <2>2
  <2>4. Excluded'
    BY Zenon, <1>1, <1>2, <2>3 DEF Excluded
  <2>5. CASE Go(p, "try_lock")
    <3>1. /\ ws' \in [Runs -> WsType] /\ \A q \in Runs \ {p} : ws'[q] = ws[q]
          /\ ws'[p].pc = "try_lock" /\ ws'[p].at = ws[p].at /\ ws'[p].lease = ws[p].lease
          /\ ws'[p].tracked = ws[p].tracked
      BY Zenon, <2>5, Gone DEF Closing
    <3>2. Shapes' /\ Undisturbed(p)
      BY Zenon, <1>1, <1>2, <2>3, <3>1 DEF Shapes, Undisturbed
    <3>3. Positioned(p)'
      BY Zenon, <1>1, <1>2, <1>5, <3>1 DEF Positioned, Roles, Acquiring, UnderLock, InUse, Dropping
    <3>4. Exclusive(p)' /\ Leased(p)'
      BY Zenon, <1>1, <1>3, <3>1 DEF Exclusive, Leased, Acquiring, UnderLock, InUse, Dropping
    <3>5. Shared(p)'
      BY <1>1, <1>2, <2>2, <2>3, <3>1 DEF Shared, Dropping
    <3>6. Tracked(p)'
      BY Zenon, <3>1, TrackedKept
    <3> QED
      BY Zenon, <2>4, <3>2, <3>3, <3>4, <3>5, <3>6, Assembled
  <2>6. CASE ws' = [ws EXCEPT ![p].lease = Shorter(p)]
    <3>1. PICK lease \in Seq(EntryType) : lease = Shorter(p)
      BY Zenon, <1>5, ShorterIs
    <3>2. ws' = [ws EXCEPT ![p].lease = lease, ![p].pc = "close"]
      BY Zenon, <1>1, <1>2, <2>6, <3>1 DEF WsType
    <3>3. ws' \in [Runs -> WsType]
      BY Zenon, <1>2, <3>1, <3>2 DEF WsType, Closing
    <3>4. Shapes'
      BY Zenon, <1>1, <1>2, <2>3, <3>3 DEF Shapes
    <3> QED
      BY Zenon, <1>1, <1>3, <1>5, <2>1, <2>3, <2>4, <3>1, <3>2, <3>4, ShortenedKept DEF Closing
  <2> QED
    BY Zenon, <2>1, <2>5, <2>6
<1> QED
  BY Zenon, <1>4, <1>5

\* Without the exclusive lock the role is left to the others.
LEMMA TryLockStep ==
    ASSUME LeaseInv, Normalized, Nobody \notin Runs, NEW p \in Runs, TryLock(p)
    PROVE  LeaseInv'
<1>1. ws[p].pc = "try_lock" /\ UNCHANGED <<roles, shared>>
  BY Zenon DEF TryLock, At
<1>2. Positioned(p) /\ Exclusive(p) /\ Shared(p) /\ Excluded /\ Shapes
      /\ exclusive \in [Names -> Runs \cup {Nobody}] /\ ws \in [Runs -> WsType] /\ ws[p] \in WsType
  BY Zenon DEF LeaseInv, Shapes
<1>3. \A r \in Names : exclusive[r] # p
  BY Zenon, <1>1, <1>2 DEF Exclusive, UnderLock, Dropping
<1>4. ws[p].lease # <<>>
  BY Zenon, <1>1, <1>2 DEF Positioned
<1>5. PICK r \in Names : r = LastEntry(p).name /\ r = ws[p].lease[Len(ws[p].lease)].name
  BY Zenon, <1>4, ShorterIs DEF LastEntry
<1>6. p \notin shared[r]
  BY Zenon, <1>1, <1>2, <1>5 DEF Shared
<1>7. CASE /\ shared[r] \subseteq {p} /\ exclusive[r] = Nobody
           /\ exclusive' = [exclusive EXCEPT ![r] = p] /\ Go(p, "drop_role")
  <2>1. /\ ws' \in [Runs -> WsType] /\ \A q \in Runs \ {p} : ws'[q] = ws[q]
        /\ ws'[p].pc = "drop_role" /\ ws'[p].at = ws[p].at /\ ws'[p].lease = ws[p].lease
        /\ ws'[p].tracked = ws[p].tracked
    BY Zenon, <1>7, Gone DEF Closing
  <2>2. /\ exclusive' \in [Names -> Runs \cup {Nobody}] /\ exclusive'[r] = p
        /\ \A x \in Names : x # r => exclusive'[x] = exclusive[x]
    BY Zenon, <1>2, <1>7
  <2>3. Shapes' /\ Excluded'
    BY Zenon, <1>1, <1>2, <1>7, <2>1, <2>2 DEF Shapes, Excluded
  <2>4. Undisturbed(p)
    BY Zenon, <1>1, <1>7, <2>1, <2>2 DEF Undisturbed
  <2>5. Positioned(p)'
    BY Zenon, <1>1, <1>2, <2>1 DEF Positioned, Roles, Acquiring, UnderLock, InUse, Dropping
  <2>6. Exclusive(p)'
    BY SMTT(30), <1>3, <1>5, <2>1, <2>2 DEF Exclusive, UnderLock, Dropping
  <2>7. Shared(p)' /\ Leased(p)'
    BY <1>1, <1>2, <2>1 DEF Shared, Leased, Acquiring, UnderLock, InUse, Dropping
  <2>8. Tracked(p)'
    BY Zenon, <2>1, TrackedKept
  <2> QED
    BY Zenon, <2>3, <2>4, <2>5, <2>6, <2>7, <2>8, Assembled
<1>8. CASE ws' = [ws EXCEPT ![p].lease = Shorter(p), ![p].pc = "close"] /\ UNCHANGED exclusive
  <2>1. PICK lease \in Seq(EntryType) : lease = Shorter(p)
    BY Zenon, <1>4, ShorterIs
  <2>2. ws' \in [Runs -> WsType]
    BY Zenon, <1>2, <1>8, <2>1 DEF WsType, Closing
  <2>3. Shapes' /\ Excluded'
    BY Zenon, <1>1, <1>2, <1>8, <2>2 DEF Shapes, Excluded
  <2> QED
    BY Zenon, <1>1, <1>3, <1>4, <1>5, <1>6, <1>8, <2>3, ShortenedKept DEF Closing
<1> QED
  BY Zenon, <1>5, <1>7, <1>8 DEF TryLock

(* A role is dropped under its exclusive lock, which nobody shares.          *)
LEMMA DropRoleStep ==
    ASSUME LeaseInv, Normalized, Nobody \notin Runs, NEW p \in Runs, DropRole(p)
    PROVE  LeaseInv'
<1>1. ws[p].pc = "drop_role" /\ Go(p, "close_unlock") /\ UNCHANGED <<shared, exclusive>>
  BY Zenon DEF DropRole, At
<1>2. /\ ws' \in [Runs -> WsType] /\ \A q \in Runs \ {p} : ws'[q] = ws[q]
      /\ ws'[p].pc = "close_unlock" /\ ws'[p].at = ws[p].at /\ ws'[p].lease = ws[p].lease
      /\ ws'[p].tracked = ws[p].tracked
  BY Zenon, <1>1, Gone DEF Closing
<1>3. Positioned(p) /\ Exclusive(p) /\ Shared(p) /\ Excluded
  BY Zenon DEF LeaseInv
<1>4. PICK r \in Names : r = LastEntry(p).name /\ r = ws[p].lease[Len(ws[p].lease)].name
  <2>1. ws[p].lease # <<>>
    BY Zenon, <1>1, <1>3 DEF Positioned, Dropping
  <2> QED
    BY Zenon, <2>1, ShorterIs DEF LastEntry
<1>5. DOMAIN roles \ {r} \subseteq DOMAIN roles'
  BY Zenon, <1>4 DEF DropRole, Without
<1>6. exclusive[r] = p /\ shared[r] \subseteq {p}
  <2>1. exclusive[r] = p
    BY Zenon, <1>1, <1>3, <1>4 DEF Exclusive, Dropping
  <2> QED
    BY Zenon, <1>3, <2>1 DEF Excluded
<1>7. Undisturbed(p)
  BY Zenon, <1>1, <1>2, <1>5, <1>6 DEF Undisturbed
<1>8. Shapes' /\ Excluded'
  BY Zenon, <1>1, <1>2 DEF LeaseInv, Shapes, Excluded
<1>9. Positioned(p)'
  BY Zenon, <1>1, <1>2, <1>3 DEF Positioned, Roles, Acquiring, UnderLock, InUse, Dropping
<1>10. Exclusive(p)' /\ Shared(p)' /\ Leased(p)'
  BY <1>1, <1>2, <1>3 DEF Exclusive, Shared, Leased, Acquiring, UnderLock, InUse, Dropping
<1>11. Tracked(p)'
  BY Zenon, <1>2, TrackedKept
<1> QED
  BY Zenon, <1>7, <1>8, <1>9, <1>10, <1>11, Assembled

\* The lock of a removed role is released.
LEMMA CloseUnlockStep ==
    ASSUME LeaseInv, Normalized, Nobody \notin Runs, NEW p \in Runs, CloseUnlock(p)
    PROVE  LeaseInv'
<1>1. PICK r : /\ r = LastEntry(p).name /\ ws[p].pc = "close_unlock" /\ UNCHANGED <<roles, shared>>
               /\ exclusive' = [exclusive EXCEPT ![r] = Nobody]
               /\ ws' = [ws EXCEPT ![p].lease = Shorter(p), ![p].pc = "close"]
  BY Zenon DEF CloseUnlock, At
<1>2. Positioned(p) /\ Exclusive(p) /\ Shared(p) /\ Excluded /\ Shapes
      /\ exclusive \in [Names -> Runs \cup {Nobody}] /\ ws \in [Runs -> WsType] /\ ws[p] \in WsType
  BY Zenon DEF LeaseInv, Shapes
<1>3. ws[p].lease # <<>>
  BY Zenon, <1>1, <1>2 DEF Positioned, Dropping
<1>4. r \in Names /\ r = ws[p].lease[Len(ws[p].lease)].name
  BY Zenon, <1>1, <1>3, ShorterIs DEF LastEntry
<1>5. \A x \in Names : exclusive[x] = p <=> x = r
  BY Zenon, <1>1, <1>2, <1>4 DEF Exclusive, UnderLock, Dropping
<1>6. /\ exclusive' \in [Names -> Runs \cup {Nobody}] /\ exclusive'[r] = Nobody
      /\ \A x \in Names : x # r => exclusive'[x] = exclusive[x]
  BY Zenon, <1>1, <1>2, <1>4
<1>7. PICK lease \in Seq(EntryType) : lease = Shorter(p)
  BY Zenon, <1>3, ShorterIs
<1>8. ws' \in [Runs -> WsType]
  BY Zenon, <1>1, <1>2, <1>7 DEF WsType, Closing
<1>9. Shapes' /\ Excluded'
  BY Zenon, <1>1, <1>2, <1>6, <1>8 DEF Shapes, Excluded
<1>10. \A x \in Names : exclusive'[x] # p
  BY Zenon, <1>5, <1>6
<1>11. \A q \in Runs \ {p} : \A x \in Names :
         (q \in shared'[x] <=> q \in shared[x]) /\ (exclusive'[x] = q <=> exclusive[x] = q)
  BY <1>1, <1>5, <1>6
<1>12. \A x \in Names : p \in shared'[x] => p \in shared[x] /\ x # LastEntry(p).name
  BY Zenon, <1>1, <1>2, <1>4 DEF Shared, Dropping
<1> QED
  BY Zenon, <1>1, <1>3, <1>9, <1>10, <1>11, <1>12, ShortenedKept DEF Closing

(* A killed process loses its sessions, and with them its locks.             *)
LEMMA KillStep ==
    ASSUME LeaseInv, Normalized, Nobody \notin Runs, NEW p \in Runs, Kill(p)
    PROVE  LeaseInv'
<1>1. /\ Go(p, "done") /\ UNCHANGED roles
      /\ shared' = [r \in Names |-> shared[r] \ {p}]
      /\ exclusive' = [r \in Names |-> IF exclusive[r] = p THEN Nobody ELSE exclusive[r]]
  BY Zenon DEF Kill
<1>2. /\ ws' \in [Runs -> WsType] /\ \A q \in Runs \ {p} : ws'[q] = ws[q]
      /\ ws'[p].pc = "done" /\ ws'[p].at = ws[p].at /\ ws'[p].lease = ws[p].lease
      /\ ws'[p].tracked = ws[p].tracked
  BY Zenon, <1>1, Gone
<1>3. Positioned(p) /\ Excluded /\ shared \in [Names -> SUBSET Runs]
      /\ exclusive \in [Names -> Runs \cup {Nobody}]
  BY Zenon DEF LeaseInv, Shapes
<1>4. Shapes' /\ Excluded'
  BY Zenon, <1>1, <1>2, <1>3 DEF Shapes, Excluded
<1>5. Undisturbed(p)
  BY SMTT(30), <1>1, <1>2, <1>3 DEF Undisturbed
<1>6. Positioned(p)'
  BY Zenon, <1>2, <1>3 DEF Positioned, Roles, Acquiring, UnderLock, InUse, Dropping
<1>7. \A r \in Names : p \notin shared'[r] /\ exclusive'[r] # p
  BY Zenon, <1>1, <1>3
<1>8. Exclusive(p)' /\ Shared(p)' /\ Leased(p)'
  BY Zenon, <1>2, <1>7 DEF Exclusive, Shared, Leased, Acquiring, UnderLock, InUse, Dropping
<1>9. Tracked(p)'
  BY Zenon, <1>2, TrackedKept
<1> QED
  BY Zenon, <1>4, <1>5, <1>6, <1>8, <1>9, Assembled

-----------------------------------------------------------------------------
(* Initially nobody holds anything.                                          *)
LEMMA LeaseInit ==
    ASSUME Normalized, Nobody \notin Runs, WorkspaceInit
    PROVE  LeaseInv
<1>1. /\ shared = [r \in Names |-> {}] /\ exclusive = [r \in Names |-> Nobody] /\ ws = [p \in Runs |-> Fresh]
  BY Zenon DEF WorkspaceInit
<1>2. Fresh \in WsType /\ Fresh.pc = "start" /\ Fresh.at = 1 /\ Fresh.lease = <<>> /\ Fresh.tracked = {}
  <2>1. <<>> \in Seq(EntryType)
    OBVIOUS
  <2> QED
    BY Zenon, <2>1 DEF Fresh, WsType
<1>3. Shapes /\ Excluded
  BY Zenon, <1>1, <1>2 DEF Shapes, Excluded
<1>4. ASSUME NEW p \in Runs
      PROVE  Positioned(p) /\ Exclusive(p) /\ Shared(p) /\ Leased(p) /\ Tracked(p)
  <2>1. ws[p].pc = "start" /\ ws[p].at = 1 /\ ws[p].lease = <<>> /\ ws[p].tracked = {} /\ Len(ws[p].lease) = 0
    BY Zenon, <1>1, <1>2
  <2>2. Positioned(p)
    BY <2>1, RolesAreNames DEF Positioned, Acquiring, UnderLock, InUse, Dropping
  <2>3. Exclusive(p) /\ Shared(p)
    BY Zenon, <1>1, <2>1 DEF Exclusive, Shared, UnderLock, Dropping
  <2>4. Leased(p) /\ Tracked(p)
    BY Zenon, <2>1 DEF Leased, Tracked, Acquiring, UnderLock, InUse
  <2> QED
    BY Zenon, <2>2, <2>3, <2>4
<1> QED
  BY Zenon, <1>3, <1>4 DEF LeaseInv

(* Every step keeps the invariant.                                           *)
LEMMA LeaseStep ==
    ASSUME Normalized, Apart, Nobody \notin Runs, LeaseInv, [WorkspaceNext]_workspaceVars
    PROVE  LeaseInv'
<1>1. CASE UNCHANGED workspaceVars
  <2>1. UNCHANGED <<roles, shared, exclusive, ws>>
    BY Zenon, <1>1 DEF workspaceVars
  <2>2. Shapes' /\ Excluded'
    BY Zenon, <2>1 DEF LeaseInv, Shapes, Excluded
  <2>3. ASSUME NEW p \in Runs
        PROVE  Positioned(p)' /\ Exclusive(p)' /\ Shared(p)' /\ Leased(p)' /\ Tracked(p)'
    <3>1. Positioned(p) /\ Exclusive(p) /\ Shared(p) /\ Leased(p) /\ Tracked(p)
      BY Zenon DEF LeaseInv
    <3>2. Positioned(p)' /\ Tracked(p)'
      BY Zenon, <2>1, <3>1 DEF Positioned, Tracked, Roles
    <3>3. Exclusive(p)' /\ Shared(p)'
      BY Zenon, <2>1, <3>1 DEF Exclusive, Shared, Roles
    <3>4. Leased(p)'
      BY Zenon, <2>1, <3>1 DEF Leased, Roles, Exists
    <3> QED
      BY Zenon, <3>2, <3>3, <3>4
  <2> QED
    BY Zenon, <2>2, <2>3 DEF LeaseInv
<1>2. CASE WorkspaceNext
  <2>1. PICK p \in Runs : \/ WorkspaceStep(p) \/ AcquireFails(p) \/ CreateFails(p) \/ UseFails(p)
                          \/ (\E transient \in BOOLEAN : cleanupAttemptFails(p, transient))
                          \/ CleanupFails(p) \/ Kill(p)
    BY Zenon, <1>2 DEF WorkspaceNext
  <2>2. CASE \/ CreateWorkspace(p) \/ LockShared(p) \/ Look(p) \/ ReadMarker(p) \/ UnlockShared(p)
             \/ Lock(p) \/ Recheck(p)
    BY Zenon, <2>2, CreateWorkspaceStep, LockSharedStep, LookStep, ReadMarkerStep, UnlockSharedStep, LockStep, RecheckStep
  <2>3. CASE \/ CreateRole(p) \/ MarkRole(p) \/ ShareAgain(p) \/ Unlock(p)
             \/ CreateDatabase(p) \/ trackCreatedRoles(p) \/ Use(p)
    BY Zenon, <2>3, CreateRoleStep, MarkRoleStep, ShareAgainStep, UnlockStep, CreateDatabaseStep, trackCreatedRolesStep, UseStep
  <2>4. CASE \/ cleanupDatabase(p) \/ cleanupCreatedRoles(p)
             \/ CloseNext(p) \/ TryLock(p) \/ DropRole(p) \/ CloseUnlock(p)
    BY Zenon, <2>4, cleanupDatabaseStep, cleanupCreatedRolesStep, CloseNextStep, TryLockStep, DropRoleStep, CloseUnlockStep
  <2>5. CASE AcquireFails(p) \/ CreateFails(p) \/ UseFails(p) \/ CleanupFails(p) \/ Kill(p)
    BY Zenon, <2>5, AcquireFailsStep, CreateFailsStep, UseFailsStep, CleanupFailsStep, KillStep
  <2>6. CASE \E transient \in BOOLEAN : cleanupAttemptFails(p, transient)
    BY Zenon, <2>6, cleanupAttemptFailsStep
  <2> QED
    BY Zenon, <2>1, <2>2, <2>3, <2>4, <2>5, <2>6 DEF WorkspaceStep
<1> QED
  BY Zenon, <1>1, <1>2

(* A run that has its lease finds every role it requires.                    *)
LEMMA LeasedStaysHolds ==
    ASSUME LeaseInv, Normalized
    PROVE  LeasedStays
<1> SUFFICES ASSUME NEW p \in Runs, ws[p].pc \in InUse, NEW k \in 1..Len(Required[p])
             PROVE  Exists(Required[p][k])
  BY Zenon DEF LeasedStays, InUse
<1>1. PICK i \in 1..Len(Roles(p)) : Roles(p)[i] = Required[p][k]
  BY Zenon, RolesAreNames
<1>2. ws[p].at = Len(Roles(p)) + 1 /\ Len(Roles(p)) \in Nat
  BY Zenon, RolesAreNames DEF LeaseInv, Positioned
<1>3. i \in 1..(ws[p].at - 1)
  BY <1>2
<1> QED
  BY Zenon, <1>1, <1>3 DEF LeaseInv, Leased

(* When every run that is not over waits, each waits for the exclusive lock   *)
(* of a role that a run shares which waits for a role further on in the       *)
(* common order.                                                              *)
LEMMA WaitsUpwards ==
    ASSUME LeaseInv, Normalized, Nobody \notin Runs,
           \A p \in Runs : At(p, "done") \/ Blocked(p), NEW p \in Runs, ~At(p, "done")
    PROVE  /\ Role(p) \in Names \cap Nat
           /\ \E q \in Runs : ~At(q, "done") /\ Role(q) \in Nat /\ Role(p) < Role(q)
<1>1. \A q \in Runs : ws[q].pc \in {"done", "lock_shared", "lock"}
  BY Zenon DEF At, Blocked
<1>2. \A r \in Names : exclusive[r] = Nobody
  <2> SUFFICES ASSUME NEW r \in Names, exclusive[r] # Nobody PROVE FALSE
    BY Zenon
  <2>1. PICK q \in Runs : exclusive[r] = q
    BY Zenon DEF LeaseInv, Shapes
  <2>2. Exclusive(q)
    BY Zenon DEF LeaseInv
  <2> QED
    BY Zenon, <1>1, <2>1, <2>2 DEF Exclusive, UnderLock, Dropping
<1>3. ws[p].pc \in Acquiring
  BY Zenon, <1>1 DEF At, Acquiring
<1>4. Role(p) \in Names /\ Role(p) = Roles(p)[ws[p].at] /\ ws[p].at \in 1..Len(Roles(p))
  BY Zenon, <1>3, AtHand
<1>5. ~(shared[Role(p)] \subseteq {p})
  BY Zenon, <1>2, <1>4 DEF Blocked, At
<1>6. PICK q \in Runs : q # p /\ q \in shared[Role(p)]
  BY Zenon, <1>4, <1>5 DEF LeaseInv, Shapes
<1>7. Shared(q) /\ Positioned(q)
  BY Zenon DEF LeaseInv
<1>8. PICK k \in 1..Len(ws[q].lease) : Role(p) = ws[q].lease[k].name /\ ws[q].pc # "done"
  BY Zenon, <1>4, <1>6, <1>7 DEF Shared
<1>9. /\ ws[q].pc \in Acquiring /\ Role(q) = Roles(q)[ws[q].at] /\ ws[q].at \in 1..Len(Roles(q))
  <2>1. ws[q].pc \in Acquiring
    BY Zenon, <1>1, <1>8 DEF Acquiring
  <2> QED
    BY Zenon, <2>1, AtHand
<1>10. Role(p) = Roles(q)[k]
  BY Zenon, <1>7, <1>8 DEF Positioned
<1>11. k < ws[q].at
  <2>1. CASE ws[q].pc = "lock_shared"
    BY <1>7, <1>9, <2>1, HeldTypes DEF Positioned
  <2>2. CASE ws[q].pc = "lock"
    <3>1. k <= ws[q].at
      BY SMTT(30), <1>7, <1>9, <2>2, HeldTypes DEF Positioned, Acquiring
    <3>2. k # ws[q].at
      BY Zenon, <1>6, <1>7, <1>10, <2>2 DEF Shared
    <3> QED
      BY SMTT(30), <3>1, <3>2, <1>9, HeldTypes
  <2> QED
    BY Zenon, <1>1, <1>8, <2>1, <2>2
<1>12. Role(p) < Role(q) /\ Role(q) \in Nat /\ Role(p) \in Nat
  <2>1. k \in 1..Len(Roles(q))
    BY SMTT(30), <1>7, HeldTypes, RolesAreNames DEF Positioned
  <2> QED
    BY SMTT(30), <1>9, <1>10, <1>11, <2>1, RolesAreNames
<1> QED
  BY Zenon, <1>4, <1>8, <1>12 DEF At

(* So with finitely many roles some run can go on.                           *)
LEMMA NoCircularWaitHolds ==
    ASSUME LeaseInv, Normalized, Nobody \notin Runs, NEW N \in Nat, Names \subseteq 0..N
    PROVE  NoCircularWait
<1> SUFFICES ASSUME \A p \in Runs : At(p, "done") \/ Blocked(p), NEW p0 \in Runs, ~At(p0, "done")
             PROVE  FALSE
  BY Zenon DEF NoCircularWait
<1>1. \A p \in Runs : ~At(p, "done") =>
        /\ Role(p) \in Names \cap Nat
        /\ \E q \in Runs : ~At(q, "done") /\ Role(q) \in Nat /\ Role(p) < Role(q)
  BY Zenon, WaitsUpwards
<1> DEFINE Left == {N - Role(p) : p \in {q \in Runs : ~At(q, "done")}}
<1>2. Left \subseteq Nat /\ Left # {}
  <2>1. \A p \in Runs : ~At(p, "done") => Role(p) \in 0..N
    BY Zenon, <1>1
  <2>2. N - Role(p0) \in Left
    BY Zenon
  <2> QED
    BY <2>1, <2>2
<1>3. PICK m \in Left : \A n \in Left : ~(n < m)
  <2> HIDE DEF Left
  <2>1. PICK m \in Left : \A n \in Left : ~(<<n, m>> \in OpToRel(<, Nat))
    BY Zenon, <1>2, NatLessThanWellFounded, WFMin
  <2>2. \A n \in Left : n < m => <<n, m>> \in OpToRel(<, Nat)
    BY Zenon, <1>2 DEF OpToRel
  <2> QED
    BY Zenon, <2>1, <2>2
<1>4. PICK p \in Runs : ~At(p, "done") /\ m = N - Role(p)
  BY Zenon, <1>3
<1>5. PICK q \in Runs : ~At(q, "done") /\ Role(q) \in Nat /\ Role(p) < Role(q)
  BY Zenon, <1>1, <1>4
<1>6. N - Role(q) \in Left /\ Role(p) \in Nat
  BY Zenon, <1>1, <1>4, <1>5
<1>7. N - Role(q) < N - Role(p)
  BY <1>5, <1>6
<1> QED
  BY Zenon, <1>3, <1>4, <1>6, <1>7

-----------------------------------------------------------------------------
(* Whatever the interleaving of the runs, whichever statements fail and        *)
(* whichever processes are killed: a leased role is there until the run that   *)
(* leased it closes the lease.                                                 *)
THEOREM LeaseHolds ==
    ASSUME Normalized, Apart, Nobody \notin Runs
    PROVE  WorkspaceSpec => []LeasedStays
<1>1. WorkspaceInit => LeaseInv
  BY Zenon, LeaseInit
<1>2. LeaseInv /\ [WorkspaceNext]_workspaceVars => LeaseInv'
  BY Zenon, LeaseStep
<1>3. LeaseInv => LeasedStays
  BY Zenon, LeasedStaysHolds
<1> QED
  BY <1>1, <1>2, <1>3, PTL DEF WorkspaceSpec

(* Runs that lock their roles in one order, and give up the shared lock        *)
(* before they ask for the exclusive one, never wait for each other in a       *)
(* circle, however many runs and roles there are.                              *)
THEOREM NeverInACircle ==
    ASSUME Normalized, Apart, Nobody \notin Runs, NEW N \in Nat, Names \subseteq 0..N
    PROVE  WorkspaceSpec => []NoCircularWait
<1>1. WorkspaceInit => LeaseInv
  BY Zenon, LeaseInit
<1>2. LeaseInv /\ [WorkspaceNext]_workspaceVars => LeaseInv'
  BY Zenon, LeaseStep
<1>3. LeaseInv => NoCircularWait
  BY Zenon, NoCircularWaitHolds
<1> QED
  BY <1>1, <1>2, <1>3, PTL DEF WorkspaceSpec
=============================================================================
