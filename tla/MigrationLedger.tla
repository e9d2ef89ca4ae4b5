---------------------------- MODULE MigrationLedger ----------------------------
(***************************************************************************)
(* What a versioned migration history promises: the schema is always at     *)
(* some level of one line of migrations, and the ledger either names that   *)
(* very level or declares itself Unknown.  Migrations run only from a       *)
(* ledger that is settled, or inside an attempt the ledger has announced by *)
(* becoming Unknown.  Versioned implements this specification.              *)
(***************************************************************************)
EXTENDS Naturals

CONSTANTS MaxLevel, Unknown

VARIABLES schema, torn, ledger

ledgerVars == <<schema, torn, ledger>>

LedgerInit ==
  /\ schema \in 0 .. MaxLevel
  /\ torn = FALSE
  /\ ledger \in {0, Unknown}
  /\ ledger = 0 => schema = 0

Settled == ledger = schema /\ ~torn

\* Whole files, each in one transaction with its record.
AdvanceLevel ==
  /\ Settled
  /\ schema' \in (schema + 1) .. MaxLevel
  /\ ledger' = schema'
  /\ UNCHANGED torn

\* An attempt is announced, or the evidence stops supporting the record.
Doubt ==
  /\ ledger' = Unknown
  /\ UNCHANGED <<schema, torn>>

\* Inside an announced attempt a file takes effect, or stops half way.
Attempt ==
  /\ ledger = Unknown
  /\ ~torn
  /\ \/ schema' = schema + 1 /\ schema' <= MaxLevel /\ UNCHANGED torn
     \/ torn' = TRUE /\ UNCHANGED schema
  /\ UNCHANGED ledger

\* The attempt's outcome is recorded.
Settle ==
  /\ ledger = Unknown
  /\ ~torn
  /\ ledger' = schema
  /\ UNCHANGED <<schema, torn>>

\* A controlled down lowers the level.
Lower ==
  /\ ~torn
  /\ schema' \in 0 .. schema
  /\ ledger' \in {schema', Unknown}
  /\ UNCHANGED torn

LedgerNext == AdvanceLevel \/ Doubt \/ Attempt \/ Settle \/ Lower

LedgerSpec == LedgerInit /\ [][LedgerNext]_ledgerVars
=============================================================================
