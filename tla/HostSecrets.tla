---------------------------- MODULE HostSecrets ----------------------------
(***************************************************************************)
(* The secret of a host: a column of its row in the database              *)
(* (crates/ops-ssh/src/hosts.rs) that holds nothing, a placeholder for a   *)
(* secret in the vault or, from older builds, the secret itself, which the *)
(* app moves into the vault after an unlock (ops-core/src/db/mod.rs).      *)
(* Saves, reads and deletes run on several threads beside that, and        *)
(* the process may end between any two of their writes.                    *)
(***************************************************************************)
EXTENDS Vault

CONSTANTS
    Threads,        \* the worker threads
    Born,           \* the hosts that exist at first; another is new or was
                    \* deleted, its secret left over if the vault was locked
    MaxCrashes      \* bound: times the process ends

ASSUME HostAssumption ==
    /\ Born \subseteq Accounts
    /\ MaxCrashes \in Nat

VARIABLES
    row,        \* the password column of each host's row
    items,      \* the hosts whose secret an old build left in the keychain
    op,         \* what each thread is doing
    moving,     \* the migration: rows not read, secrets read, rows to update
    crashes     \* how often the process ended

hostVars == <<vaultVars, row, items, op, moving, crashes>>
------------------------------------------------------------------------------
Columns == {"unborn", "none", "plain", "placeholder", "gone"}
Exists(a) == row[a] \notin {"unborn", "gone"}

Idle == [pc |-> "idle", account |-> 0, column |-> "none"]
Doing(pc, a, column) == [pc |-> pc, account |-> a, column |-> column]
NothingToMove == [rows |-> {}, read |-> {}, moved |-> {}]

HostInit ==
    /\ VaultInit
    /\ items \in SUBSET Born
    /\ row \in [Accounts -> Columns]
    /\ \A a \in Accounts :
          /\ a \in Born <=> row[a] \in {"none", "plain", "placeholder"}
          /\ row[a] = "placeholder" => a \in Used \cup items
          /\ row[a] \in {"unborn", "none", "plain"} => a \notin Used
    /\ op = [t \in Threads |-> Idle]
    /\ moving = NothingToMove
    /\ crashes = 0

Goes(t, from, to) ==
    /\ op[t].pc = from
    /\ op' = [op EXCEPT ![t] = to]

KeysStay == UNCHANGED <<keychain, keyfile, cached, unlocking, items, moving, crashes>>
------------------------------------------------------------------------------
(* add_host: the secret goes into the vault, then the row is inserted.  The *)
(* id is new.                                                               *)
AddSecret(t, a) ==
    /\ row[a] = "unborn" /\ entries[a] = NoKey
    /\ \A u \in Threads : op[u].account # a
    /\ Store(a)
    /\ Goes(t, "idle", Doing("insert", a, "placeholder"))
    /\ UNCHANGED row /\ KeysStay

Insert(t) ==
    /\ Goes(t, "insert", Idle)
    /\ row' = [row EXCEPT ![op[t].account] = op[t].column]
    /\ UNCHANGED fileVars /\ KeysStay

(* update_host: the row is read; a new secret is stored, or the one behind  *)
(* the placeholder must be readable; then the whole row is written.         *)
UpdateLook(t, a, new) ==
    /\ Exists(a)
    /\ Goes(t, "idle", IF new THEN Doing("store", a, "placeholder")
                       ELSE IF row[a] = "placeholder" THEN Doing("check", a, row[a])
                       ELSE Doing("write", a, row[a]))
    /\ UNCHANGED <<fileVars, row>> /\ KeysStay

UpdateStore(t) ==
    /\ Goes(t, "store", IF cached # NoKey THEN [op[t] EXCEPT !.pc = "write"] ELSE Idle)
    /\ IF cached # NoKey THEN Store(op[t].account) ELSE UNCHANGED fileVars
    /\ UNCHANGED row /\ KeysStay

UpdateWrite(t) ==
    /\ Goes(t, "write", Idle)
    /\ row' = [row EXCEPT ![op[t].account] = IF Exists(op[t].account) THEN op[t].column ELSE @]
    /\ UNCHANGED fileVars /\ KeysStay

(* resolve_host_password.                                                   *)
Read(t, a) ==
    /\ row[a] = "placeholder"
    /\ Goes(t, "idle", Doing("get", a, "none"))
    /\ UNCHANGED <<fileVars, row>> /\ KeysStay

(* get_secret_with_backends: without an entry and a delete marker, the item *)
(* of an old build is taken; another thread may write in between.  A read   *)
(* that is part of a save goes on with it.                                  *)
After(t) == IF op[t].pc = "check" THEN [op[t] EXCEPT !.pc = "write"] ELSE Idle
Get(t) ==
    LET a == op[t].account
    IN  /\ op[t].pc \in {"get", "check"}
        /\ \/ cached # NoKey /\ a \in Used /\ op' = [op EXCEPT ![t] = After(t)]
           \/ /\ cached # NoKey /\ a \notin Used /\ a \in items \ deleted
              /\ op' = [op EXCEPT ![t] = [@ EXCEPT !.pc =
                            IF op[t].pc = "check" THEN "adoptAndWrite" ELSE "adopt"]]
           \/ /\ cached = NoKey \/ a \notin Used \cup (items \ deleted)
              /\ op' = [op EXCEPT ![t] = Idle]
        /\ UNCHANGED <<fileVars, row>> /\ KeysStay

Adopt(t) ==
    /\ op[t].pc \in {"adopt", "adoptAndWrite"}
    /\ op' = [op EXCEPT ![t] = IF op[t].pc = "adopt" THEN Idle
                               ELSE [op[t] EXCEPT !.pc = "write"]]
    /\ Store(op[t].account)
    /\ UNCHANGED row /\ KeysStay

(* delete_host: the row, then the secret; a locked vault keeps it.          *)
DeleteRow(t, a) ==
    /\ Exists(a)
    /\ row' = [row EXCEPT ![a] = "gone"]
    /\ Goes(t, "idle", Doing("erase", a, "none"))
    /\ UNCHANGED fileVars /\ KeysStay

DeleteSecret(t) ==
    /\ Goes(t, "erase", Idle)
    /\ IF cached # NoKey THEN Erase(op[t].account) ELSE UNCHANGED fileVars
    /\ UNCHANGED row /\ KeysStay
------------------------------------------------------------------------------
MigrationStep(step) ==
    /\ unlocking.step = step
    /\ UNCHANGED <<keychain, keyfile, cached, items, op, crashes>>

(* migrate_plaintext_secrets_to_vault: every row is read, each secret found *)
(* is stored as its row is read, and at the end the rows are updated.       *)
MigrateBegin ==
    /\ MigrationStep("after")
    /\ moving = NothingToMove
    /\ moving' = [moving EXCEPT !.rows = {a \in Accounts : Exists(a)}]
    /\ unlocking' = [unlocking EXCEPT !.step = "migrate"]
    /\ UNCHANGED <<fileVars, row>>

MigrateRead(a) ==
    /\ MigrationStep("migrate")
    /\ moving.read = {} /\ a \in moving.rows
    /\ moving' = [moving EXCEPT !.rows = @ \ {a},
                                !.read = IF row[a] = "plain" THEN {a} ELSE {}]
    /\ UNCHANGED <<fileVars, row, unlocking>>

MigrateStore(a) ==
    /\ MigrationStep("migrate")
    /\ a \in moving.read
    /\ Store(a)
    /\ moving' = [moving EXCEPT !.read = {}, !.moved = @ \cup {a}]
    /\ UNCHANGED <<row, unlocking>>

(* Mutant: the rows are updated as they are read.                           *)
MigrateMarkEarly(a) ==
    /\ MigrationStep("migrate")
    /\ a \in moving.moved \cup moving.read
    /\ row' = [row EXCEPT ![a] = IF Exists(a) THEN "placeholder" ELSE @]
    /\ moving' = [moving EXCEPT !.moved = @ \ {a}]
    /\ UNCHANGED <<fileVars, unlocking>>

MigrateMark(a) ==
    /\ MigrationStep("migrate")
    /\ moving.rows = {} /\ moving.read = {} /\ a \in moving.moved
    /\ row' = [row EXCEPT ![a] = IF Exists(a) THEN "placeholder" ELSE @]
    /\ moving' = [moving EXCEPT !.moved = @ \ {a}]
    /\ UNCHANGED <<fileVars, unlocking>>

MigrateEnd ==
    /\ MigrationStep("migrate")
    /\ moving = NothingToMove
    /\ unlocking' = NotUnlocking
    /\ UNCHANGED <<fileVars, row, moving>>

(* A write fails; the dialog stays and the user tries again.                *)
MigrateFails ==
    /\ MigrationStep("migrate")
    /\ moving' = NothingToMove
    /\ unlocking' = [unlocking EXCEPT !.step = "failed"]
    /\ UNCHANGED <<fileVars, row>>

TryAgain ==
    /\ MigrationStep("failed")
    /\ unlocking' = [unlocking EXCEPT !.step = "after"]
    /\ UNCHANGED <<fileVars, row, moving>>

UnlockStep ==
    /\ Finishing
    /\ UNCHANGED <<row, items, op, moving, crashes>>

TryUnlock(p, working) ==
    /\ Unlock(p, working)
    /\ UNCHANGED <<row, items, op, moving, crashes>>

Crash ==
    /\ crashes < MaxCrashes
    /\ VaultCrash
    /\ op' = [t \in Threads |-> Idle]
    /\ moving' = NothingToMove
    /\ crashes' = crashes + 1
    /\ UNCHANGED <<row, items>>
------------------------------------------------------------------------------
Saves(t, a) == AddSecret(t, a) \/ \E new \in BOOLEAN : UpdateLook(t, a, new)
Asks(t, a) == Saves(t, a) \/ Read(t, a) \/ DeleteRow(t, a)
Works(t) ==
    \/ Insert(t) \/ UpdateStore(t) \/ UpdateWrite(t)
    \/ Get(t) \/ Adopt(t) \/ DeleteSecret(t)
Migrates ==
    \/ MigrateBegin \/ MigrateEnd \/ MigrateFails \/ TryAgain
    \/ \E a \in Accounts : MigrateRead(a) \/ MigrateStore(a) \/ MigrateMark(a)

HostNext ==
    \/ \E t \in Threads : Works(t) \/ \E a \in Accounts : Asks(t, a)
    \/ \E p \in Passwords, working \in BOOLEAN : TryUnlock(p, working)
    \/ UnlockStep
    \/ Migrates
    \/ Crash

HostSpec == HostInit /\ [][HostNext]_hostVars

------------------------------------------------------------------------------
OpPlaces == {"idle", "insert", "store", "check", "write", "get", "adopt",
             "adoptAndWrite", "erase"}

HostTypeOK ==
    /\ row \in [Accounts -> Columns]
    /\ items \subseteq Accounts
    /\ op \in [Threads -> [pc: OpPlaces, account: Accounts \cup {0}, column: Columns]]
    /\ \A t \in Threads : op[t].pc # "idle" => op[t].account \in Accounts

MovesBehindUnlock ==
    moving # NothingToMove => unlocking.step = "migrate" /\ cached # NoKey

(* The vault is consistent (VaultInv: one key, which is at hand whenever    *)
(* the process ends) under every use the hosts make of it, and the          *)
(* migration of old secrets runs only behind an unlock.                     *)
HostInv == VaultInv /\ HostTypeOK /\ MovesBehindUnlock

(* A row with a placeholder has its secret, in the vault or in an item the  *)
(* next read takes into it, whatever saves, deletes, reads and migrations   *)
(* ran beside each other and wherever one of them was cut off; otherwise    *)
(* the host can no longer be connected to (missing_host_secret_message).    *)
PlaceholdersHaveSecrets == \A a \in Accounts :
    row[a] = "placeholder" => a \in Used \cup (items \ deleted)

(* The next start takes password p, or needs none.                          *)
LetsIn(p) ==
    \/ KeychainOpens
    \/ SetupRequired /\ Opens(LegacyKey)
    \/ Opens(p)

(* The user gets in again: wherever an unlock was cut off or failed, and    *)
(* whatever was stored since, the next start finds the key in the keychain  *)
(* or lets one of the passwords in.                                         *)
OpensAgain ==
    cached = NoKey /\ unlocking = NotUnlocking => \E p \in Passwords : LetsIn(p)
==============================================================================
