------------------------- MODULE HostSecrets_proofs -------------------------
(***************************************************************************)
(* Proofs about the vault and the secrets of the hosts, for any accounts,  *)
(* passwords, threads and number of crashes.                               *)
(***************************************************************************)
EXTENDS HostSecrets, TLAPS, WellFoundedInduction

LEMMA SmallestAccount ==
  ASSUME NEW S, S \subseteq Accounts, S # {}
  PROVE  \E a \in S : \A b \in S : a <= b
<1>1. S \subseteq Nat
  BY VaultAssumption DEF Accounts
<1>2. PICK a \in S : \A b \in S : ~ (<<b, a>> \in OpToRel(<, Nat))
  <2> DEFINE R == OpToRel(<, Nat)
  <2>1. IsWellFoundedOn(R, Nat)
    BY NatLessThanWellFounded
  <2> HIDE DEF R
  <2>2. \E a \in S : \A b \in S : ~ (<<b, a>> \in R)
    BY <1>1, <2>1, WFMin, Zenon
  <2> QED
    BY <2>2, Zenon DEF R
<1>3. ASSUME NEW b \in S PROVE a <= b
  <2>1. ~ (<<b, a>> \in OpToRel(<, Nat))
    BY <1>2, <1>3
  <2>2. <<b, a>> \in Nat \X Nat
    BY <1>1, <1>2, <1>3
  <2>3. ~ (b < a)
    BY <2>1, <2>2 DEF OpToRel
  <2>4. a \in Nat /\ b \in Nat
    BY <2>2
  <2> QED
    BY <2>3, <2>4
<1> QED
  BY <1>2, <1>3

(* validate_vault_key tries one entry only; with one key for all that is    *)
(* enough.                                                                  *)
LEMMA OneOpensAll ==
  ASSUME OneKey, NEW k, Opens(k)
  PROVE  \A a \in Used : entries[a] = k
<1>1. CASE Used = {}
  BY <1>1
<1>2. CASE Used # {}
  <2>1. PICK a \in Used : \A b \in Used : a <= b
    BY <1>2, SmallestAccount DEF Used
  <2>2. entries[a] = k
    BY <2>1 DEF Opens
  <2> QED
    BY <2>1, <2>2 DEF OneKey
<1> QED
  BY <1>1, <1>2

LEMMA InitVault == VaultInit => VaultInv
<1> SUFFICES ASSUME VaultInit PROVE VaultInv
  OBVIOUS
<1>1. PICK k \in Keys :
        /\ entries \in [Accounts -> {k, NoKey}]
        /\ \/ k \in Passwords /\ keychain \in {k, NoKey, BadItem} /\ keyfile = FALSE
           \/ k = SystemKey /\ keychain = k /\ keyfile = FALSE
           \/ k = LegacyKey /\ keychain = NoKey /\ keyfile = TRUE
  BY DEF VaultInit
<1>2. \A a \in Used : entries[a] = k
  BY <1>1 DEF Used
<1>3. deleted = {} /\ cached = NoKey /\ unlocking = NotUnlocking
  BY DEF VaultInit
<1>4. VaultTypeOK
  BY <1>1, <1>3 DEF VaultTypeOK, NotUnlocking, Keys
<1>5. OneKey
  BY <1>2, <1>3 DEF OneKey, NotUnlocking
<1>6. UnlockRule
  BY <1>3 DEF UnlockRule, NotUnlocking
<1>7. KeyAtHand
  BY <1>1, <1>2 DEF KeyAtHand
<1> QED
  BY <1>4, <1>5, <1>6, <1>7 DEF VaultInv

USE VaultAssumption
USE DEF fileVars, At, NotUnlocking, Keys, Used, KeychainOpens, SetupRequired

(* An unlock begins; its key opens the vault or replaces the key file's. *)
LEMMA StartKeepsVault ==
  ASSUME VaultInv,
         NEW step \in {"reencrypt", "remember", "cache"}, NEW k \in Keys,
         NEW setup \in BOOLEAN, Starts(step, k, setup),
         step = "cache" => k = keychain,
         step # "cache" => k \in Passwords /\ (setup => keychain = NoKey),
         IF step = "reencrypt" THEN setup /\ keyfile /\ Opens(LegacyKey)
                               ELSE Opens(k)
  PROVE  VaultInv'
<1>0. VaultTypeOK /\ OneKey /\ UnlockRule /\ KeyAtHand
  BY DEF VaultInv
<1>1. unlocking' = [step |-> step, key |-> k, setup |-> setup]
  BY DEF Starts
<1>2. cached = NoKey /\ UNCHANGED <<entries, deleted, keychain, keyfile, cached>>
  BY DEF Starts
<1>3. step # "reencrypt" => \A a \in Used : entries[a] = k
  BY <1>0, OneOpensAll DEF Used
<1>4. VaultTypeOK'
  BY <1>0, <1>1, <1>2 DEF VaultTypeOK
<1>5. OneKey'
  BY <1>0, <1>1, <1>2, <1>3 DEF OneKey
<1>6. UnlockRule'
  BY <1>0, <1>1, <1>2 DEF UnlockRule, Opens
<1>7. KeyAtHand'
  BY <1>0, <1>2 DEF KeyAtHand
<1> QED
  BY <1>4, <1>5, <1>6, <1>7 DEF VaultInv

LEMMA UnlockKeepsVault ==
  ASSUME VaultInv, NEW p \in Passwords, NEW working \in BOOLEAN,
         Unlock(p, working)
  PROVE  VaultInv'
<1>1. CASE UnlockFromKeychain
  BY <1>1, StartKeepsVault DEF UnlockFromKeychain
<1>2. CASE UnlockSetup(p)
  <2>1. CASE Starts("reencrypt", p, TRUE)
    BY <1>2, <2>1, StartKeepsVault DEF UnlockSetup, Starts
  <2>2. CASE Opens(p) /\ Starts("remember", p, TRUE)
    BY <1>2, <2>2, StartKeepsVault DEF UnlockSetup
  <2> QED
    BY <1>2, <2>1, <2>2 DEF UnlockSetup
<1>3. CASE UnlockWithPassword(p)
  BY <1>3, StartKeepsVault DEF UnlockWithPassword
<1> QED
  BY <1>1, <1>2, <1>3 DEF Unlock

(* The unlock goes on, to the point where the key is cached. *)
LEMMA FinishingKeepsVault == VaultInv /\ Finishing => VaultInv'
<1> SUFFICES ASSUME VaultInv, Finishing PROVE VaultInv'
  OBVIOUS
<1>0. VaultTypeOK /\ OneKey /\ UnlockRule /\ KeyAtHand
  BY DEF VaultInv
<1>1. CASE Reencrypt
  <2>1. VaultTypeOK'
    BY <1>0, <1>1 DEF Reencrypt, VaultTypeOK, OneKey, UnlockRule, KeyAtHand
  <2>2. OneKey'
    BY <1>0, <1>1 DEF Reencrypt, VaultTypeOK, OneKey, UnlockRule, KeyAtHand
  <2>3. UnlockRule'
    BY <1>0, <1>1 DEF Reencrypt, VaultTypeOK, OneKey, UnlockRule, KeyAtHand
  <2>4. KeyAtHand'
    BY <1>0, <1>1 DEF Reencrypt, VaultTypeOK, OneKey, UnlockRule, KeyAtHand
  <2> QED
    BY <2>1, <2>2, <2>3, <2>4 DEF VaultInv
<1>2. ASSUME NEW taken \in BOOLEAN, Remember(taken) PROVE VaultInv'
  <2>1. VaultTypeOK'
    BY <1>0, <1>2 DEF Remember, VaultTypeOK, OneKey, UnlockRule, KeyAtHand
  <2>2. OneKey'
    BY <1>0, <1>2 DEF Remember, VaultTypeOK, OneKey, UnlockRule, KeyAtHand
  <2>3. UnlockRule'
    BY <1>0, <1>2 DEF Remember, VaultTypeOK, OneKey, UnlockRule, KeyAtHand
  <2>4. KeyAtHand'
    BY <1>0, <1>2 DEF Remember, VaultTypeOK, OneKey, UnlockRule, KeyAtHand
  <2> QED
    BY <2>1, <2>2, <2>3, <2>4 DEF VaultInv
<1>3. ASSUME NEW removed \in BOOLEAN, DropKeyFile(removed) PROVE VaultInv'
  <2>1. VaultTypeOK'
    BY <1>0, <1>3 DEF DropKeyFile, VaultTypeOK, OneKey, UnlockRule, KeyAtHand
  <2>2. OneKey'
    BY <1>0, <1>3 DEF DropKeyFile, VaultTypeOK, OneKey, UnlockRule, KeyAtHand
  <2>3. UnlockRule'
    BY <1>0, <1>3 DEF DropKeyFile, VaultTypeOK, OneKey, UnlockRule, KeyAtHand
  <2>4. KeyAtHand'
    BY <1>0, <1>3 DEF DropKeyFile, VaultTypeOK, OneKey, UnlockRule, KeyAtHand
  <2> QED
    BY <2>1, <2>2, <2>3, <2>4 DEF VaultInv
<1>4. CASE CacheKey
  <2>1. VaultTypeOK'
    BY <1>0, <1>4 DEF CacheKey, VaultTypeOK, OneKey, UnlockRule, KeyAtHand
  <2>2. OneKey'
    BY <1>0, <1>4 DEF CacheKey, VaultTypeOK, OneKey, UnlockRule, KeyAtHand
  <2>3. UnlockRule'
    BY <1>0, <1>4 DEF CacheKey, VaultTypeOK, OneKey, UnlockRule, KeyAtHand
  <2>4. KeyAtHand'
    BY <1>0, <1>4 DEF CacheKey, VaultTypeOK, OneKey, UnlockRule, KeyAtHand
  <2> QED
    BY <2>1, <2>2, <2>3, <2>4 DEF VaultInv
<1> QED
  BY <1>1, <1>2, <1>3, <1>4 DEF Finishing

(* Secrets are stored and deleted under the key in use. *)
LEMMA WritingKeepsVault ==
  ASSUME VaultInv, NEW a \in Accounts, Store(a) \/ Erase(a),
         UNCHANGED <<keychain, keyfile, cached, unlocking>>
  PROVE  VaultInv'
<1>0. VaultTypeOK /\ OneKey /\ UnlockRule /\ KeyAtHand
  BY DEF VaultInv
<1>1. VaultTypeOK'
  BY <1>0 DEF Store, Erase, VaultTypeOK, OneKey, UnlockRule, KeyAtHand
<1>2. OneKey'
  BY <1>0 DEF Store, Erase, VaultTypeOK, OneKey, UnlockRule, KeyAtHand
<1>3. UnlockRule'
  BY <1>0 DEF Store, Erase, VaultTypeOK, OneKey, UnlockRule, KeyAtHand
<1>4. KeyAtHand'
  BY <1>0 DEF Store, Erase, VaultTypeOK, OneKey, UnlockRule, KeyAtHand
<1> QED
  BY <1>1, <1>2, <1>3, <1>4 DEF VaultInv

(* The migration runs behind an unlock. *)
LEMMA MigratingKeepsVault ==
  ASSUME VaultInv, UNCHANGED <<entries, deleted, keychain, keyfile, cached>>,
         unlocking.step \in {"after", "migrate", "failed"},
         \/ unlocking' = unlocking \/ unlocking' = NotUnlocking
         \/ \E step \in {"after", "migrate", "failed"} :
               unlocking' = [unlocking EXCEPT !.step = step]
  PROVE  VaultInv'
<1>0. VaultTypeOK /\ OneKey /\ UnlockRule /\ KeyAtHand
  BY DEF VaultInv
<1>1. VaultTypeOK'
  <2>1. unlocking' \in [step: {"idle", "reencrypt", "remember", "dropKeyFile",
                               "cache", "after", "migrate", "failed"},
                        key: Keys \cup {NoKey}, setup: BOOLEAN]
    <3>1. CASE unlocking' = unlocking
      BY <1>0, <3>1 DEF VaultTypeOK
    <3>2. CASE unlocking' = NotUnlocking
      BY <3>2
    <3>3. ASSUME NEW step \in {"after", "migrate", "failed"},
                 unlocking' = [unlocking EXCEPT !.step = step]
          PROVE  unlocking' \in
                   [step: {"idle", "reencrypt", "remember", "dropKeyFile",
                           "cache", "after", "migrate", "failed"},
                    key: Keys \cup {NoKey}, setup: BOOLEAN]
      BY <1>0, <3>3 DEF VaultTypeOK
    <3> QED
      BY <3>1, <3>2, <3>3
  <2> QED
    BY <1>0, <2>1 DEF VaultTypeOK
<1>2. OneKey'
  BY <1>0 DEF VaultTypeOK, OneKey, UnlockRule, KeyAtHand
<1>3. UnlockRule'
  BY <1>0 DEF VaultTypeOK, OneKey, UnlockRule, KeyAtHand
<1>4. KeyAtHand'
  BY <1>0 DEF VaultTypeOK, OneKey, UnlockRule, KeyAtHand
<1> QED
  BY <1>1, <1>2, <1>3, <1>4 DEF VaultInv

LEMMA CrashKeepsVault == VaultInv /\ VaultCrash => VaultInv'
<1> SUFFICES ASSUME VaultInv, VaultCrash PROVE VaultInv'
  OBVIOUS
<1>0. VaultTypeOK /\ OneKey /\ UnlockRule /\ KeyAtHand
  BY DEF VaultInv
<1>1. VaultTypeOK'
  BY <1>0 DEF VaultCrash, VaultTypeOK, OneKey, UnlockRule, KeyAtHand
<1>2. OneKey'
  BY <1>0 DEF VaultCrash, VaultTypeOK, OneKey, UnlockRule, KeyAtHand
<1>3. UnlockRule'
  BY <1>0 DEF VaultCrash, VaultTypeOK, OneKey, UnlockRule, KeyAtHand
<1>4. KeyAtHand'
  BY <1>0 DEF VaultCrash, VaultTypeOK, OneKey, UnlockRule, KeyAtHand
<1> QED
  BY <1>1, <1>2, <1>3, <1>4 DEF VaultInv
-----------------------------------------------------------------------------
USE DEF Idle, Doing, NothingToMove, Goes, KeysStay, OpPlaces, Columns

LEMMA InitHost == HostInit => HostInv
<1> SUFFICES ASSUME HostInit PROVE HostInv
  OBVIOUS
<1>1. VaultInv
  BY InitVault DEF HostInit
<1>2. HostTypeOK
  BY HostAssumption DEF HostInit, HostTypeOK
<1>3. MovesBehindUnlock
  BY DEF HostInit, MovesBehindUnlock
<1> QED
  BY <1>1, <1>2, <1>3 DEF HostInv

(* What a thread does for a save, a read or a delete of a host. *)
LEMMA ThreadKeepsHost ==
  ASSUME HostInv, NEW t \in Threads,
         Works(t) \/ \E a \in Accounts : Asks(t, a)
  PROVE  HostInv'
<1>0. VaultInv /\ HostTypeOK /\ MovesBehindUnlock
  BY DEF HostInv
<1> USE DEF Works, Asks, Saves, AddSecret, UpdateLook, Read, DeleteRow, Insert,
            UpdateStore, UpdateWrite, Get, After, Adopt, DeleteSecret
<1>1. UNCHANGED <<keychain, keyfile, cached, unlocking, items, moving, crashes>>
  OBVIOUS
<1>2. UNCHANGED fileVars \/ \E a \in Accounts : Store(a) \/ Erase(a)
  BY <1>0 DEF HostTypeOK
<1>3. VaultInv'
  <2>1. CASE UNCHANGED fileVars
    BY <1>0, <1>1, <2>1
       DEF VaultInv, VaultTypeOK, OneKey, UnlockRule, KeyAtHand, Opens
  <2>2. CASE \E a \in Accounts : Store(a) \/ Erase(a)
    BY <1>0, <1>1, <2>2, WritingKeepsVault
  <2> QED
    BY <1>2, <2>1, <2>2
<1>4. HostTypeOK'
  <2>1. ASSUME NEW a \in Accounts, Asks(t, a) PROVE HostTypeOK'
    BY <1>0, <1>1, <2>1 DEF HostTypeOK
  <2>2. CASE Works(t)
    BY <1>0, <1>1, <2>2 DEF HostTypeOK
  <2> QED
    BY <2>1, <2>2
<1>5. MovesBehindUnlock'
  BY <1>0, <1>1 DEF MovesBehindUnlock
<1> QED
  BY <1>3, <1>4, <1>5 DEF HostInv

(* The migration after an unlock. *)
LEMMA MigratingKeepsHost == HostInv /\ Migrates => HostInv'
<1> SUFFICES ASSUME HostInv, Migrates PROVE HostInv'
  OBVIOUS
<1>0. VaultInv /\ HostTypeOK /\ MovesBehindUnlock
  BY DEF HostInv
<1> USE DEF Migrates, MigrationStep
<1>1. UNCHANGED <<keychain, keyfile, cached, items, op, crashes>>
  BY DEF MigrateBegin, MigrateEnd, MigrateFails, TryAgain, MigrateRead,
         MigrateStore, MigrateMark
<1>2. VaultInv'
  <2>1. ASSUME NEW a \in Accounts, MigrateStore(a) PROVE VaultInv'
    BY <1>0, <1>1, <2>1, WritingKeepsVault DEF MigrateStore
  <2>2. CASE ~ \E a \in Accounts : MigrateStore(a)
    BY <1>0, <1>1, <2>2, MigratingKeepsVault
       DEF MigrateBegin, MigrateEnd, MigrateFails, TryAgain, MigrateRead, MigrateMark
  <2> QED
    BY <2>1, <2>2
<1>3. HostTypeOK'
  BY <1>0, <1>1
     DEF HostTypeOK, MigrateBegin, MigrateEnd, MigrateFails, TryAgain,
         MigrateRead, MigrateStore, MigrateMark
<1>4. MovesBehindUnlock'
  <2>1. cached # NoKey
    BY <1>0 DEF VaultInv, UnlockRule, MigrateBegin, MigrateEnd, MigrateFails,
                TryAgain, MigrateRead, MigrateStore, MigrateMark
  <2> QED
    BY <1>0, <1>1, <2>1
       DEF MovesBehindUnlock, VaultInv, VaultTypeOK, MigrateBegin, MigrateEnd,
           MigrateFails, TryAgain, MigrateRead, MigrateStore, MigrateMark
<1> QED
  BY <1>2, <1>3, <1>4 DEF HostInv

LEMMA StepKeepsHost == HostInv /\ [HostNext]_hostVars => HostInv'
<1> SUFFICES ASSUME HostInv, [HostNext]_hostVars PROVE HostInv'
  OBVIOUS
<1>0. VaultInv /\ HostTypeOK /\ MovesBehindUnlock
  BY DEF HostInv
<1>1. ASSUME NEW t \in Threads, Works(t) \/ \E a \in Accounts : Asks(t, a)
      PROVE  HostInv'
  BY <1>1, ThreadKeepsHost
<1>2. ASSUME NEW p \in Passwords, NEW working \in BOOLEAN, TryUnlock(p, working)
      PROVE  HostInv'
  <2>1. VaultInv'
    BY <1>0, <1>2, UnlockKeepsVault DEF TryUnlock
  <2>2. moving = NothingToMove
    BY <1>0, <1>2
       DEF MovesBehindUnlock, TryUnlock, Unlock, UnlockFromKeychain, UnlockSetup,
           UnlockWithPassword, Starts
  <2> QED
    BY <1>0, <1>2, <2>1, <2>2 DEF HostInv, HostTypeOK, MovesBehindUnlock, TryUnlock
<1>3. CASE UnlockStep
  <2>1. VaultInv'
    BY <1>0, <1>3, FinishingKeepsVault DEF UnlockStep
  <2>2. moving = NothingToMove
    BY <1>0, <1>3
       DEF MovesBehindUnlock, UnlockStep, Finishing, Reencrypt, Remember,
           DropKeyFile, CacheKey
  <2> QED
    BY <1>0, <1>3, <2>1, <2>2 DEF HostInv, HostTypeOK, MovesBehindUnlock, UnlockStep
<1>4. CASE Migrates
  BY <1>4, MigratingKeepsHost
<1>5. CASE Crash
  <2>1. VaultInv'
    BY <1>0, <1>5, CrashKeepsVault DEF Crash
  <2>2. HostTypeOK'
    BY <1>0, <1>5 DEF HostTypeOK, Crash
  <2> QED
    BY <1>5, <2>1, <2>2 DEF HostInv, MovesBehindUnlock, Crash
<1>6. CASE UNCHANGED hostVars
  BY <1>0, <1>6
     DEF hostVars, vaultVars, HostInv, HostTypeOK, MovesBehindUnlock, VaultInv,
         VaultTypeOK, OneKey, UnlockRule, KeyAtHand, Opens
<1> QED
  BY <1>1, <1>2, <1>3, <1>4, <1>5, <1>6 DEF HostNext

(* Wherever an unlock, a save, a delete or the migration of old secrets is  *)
(* cut off, the secrets are encrypted under one key, and the next start     *)
(* finds that key in the keychain, in the key file while it still looks     *)
(* there, or derives it from a password (unlock_local_vault).               *)
THEOREM SecretsStayReadable == HostSpec => []HostInv
<1>1. HostInit => HostInv
  BY InitHost
<1>2. HostInv /\ [HostNext]_hostVars => HostInv'
  BY StepKeepsHost
<1> QED
  BY <1>1, <1>2, PTL DEF HostSpec
-----------------------------------------------------------------------------
(* Where a secret is when a row with a placeholder asks for it. *)
HasSecret(a) == a \in Used \cup (items \ deleted)

Has(t, a) == op[t].account = a

(* What a thread is about to write, and to erase: the id of a new host is   *)
(* nobody else's, a placeholder is written only over a secret, and a secret *)
(* is erased only when its row is gone for good.                            *)
SecretsRule ==
  /\ \A t \in Threads : op[t].pc = "insert" =>
       /\ row[op[t].account] = "unborn" /\ op[t].account \in Used
       /\ \A u \in Threads : op[u].pc = "insert" /\ Has(u, op[t].account) => u = t
  /\ \A t \in Threads : op[t].pc = "erase" => row[op[t].account] = "gone"
  /\ \A t \in Threads : op[t].pc \in {"store", "check", "adoptAndWrite", "write"} =>
       op[t].column \notin {"unborn", "gone"}
  /\ \A t \in Threads :
       op[t].pc \in {"check", "adoptAndWrite", "write"} /\ op[t].column = "placeholder" =>
         row[op[t].account] = "gone" \/ HasSecret(op[t].account)
  /\ moving.moved \subseteq Accounts /\ moving.read \subseteq Accounts
  /\ \A a \in moving.moved : row[a] = "gone" \/ a \in Used

SecretInv == HostInv /\ SecretsRule /\ PlaceholdersHaveSecrets

LEMMA InitSecrets == HostInit => SecretInv
<1> SUFFICES ASSUME HostInit PROVE SecretInv
  OBVIOUS
<1>1. HostInv
  BY InitHost
<1>2. SecretsRule
  BY DEF HostInit, SecretsRule
<1>3. PlaceholdersHaveSecrets
  BY DEF HostInit, VaultInit, PlaceholdersHaveSecrets
<1> QED
  BY <1>1, <1>2, <1>3 DEF SecretInv

(* What is stored is there, and nothing else changes. *)
LEMMA StoredIsThere ==
  ASSUME VaultInv, NEW a \in Accounts, Store(a)
  PROVE  Used' = Used \cup {a} /\ deleted' = deleted \ {a}
BY DEF VaultInv, VaultTypeOK, Store

LEMMA ErasedIsGone ==
  ASSUME VaultInv, NEW a \in Accounts, Erase(a)
  PROVE  Used' = Used \ {a} /\ deleted' = deleted \cup {a}
BY DEF VaultInv, VaultTypeOK, Erase

(* A host is asked for, saved or deleted. *)
LEMMA AskingKeepsSecrets ==
  ASSUME SecretInv, NEW t \in Threads, NEW a \in Accounts, Asks(t, a)
  PROVE  SecretsRule' /\ PlaceholdersHaveSecrets'
<1>0. VaultInv /\ HostTypeOK /\ SecretsRule /\ PlaceholdersHaveSecrets
  BY DEF SecretInv, HostInv
<1> USE DEF Has, HasSecret
<1>1. CASE AddSecret(t, a)
  <2>1. Used' = Used \cup {a} /\ deleted' = deleted \ {a}
    BY <1>0, <1>1, StoredIsThere DEF AddSecret
  <2>2. /\ op' = [op EXCEPT ![t] = [pc |-> "insert", account |-> a, column |-> "placeholder"]]
        /\ row[a] = "unborn" /\ UNCHANGED <<row, items, moving>>
        /\ \A u \in Threads : op[u].account # a
    BY <1>1 DEF AddSecret
  <2>3. SecretsRule'
    BY <1>0, <2>1, <2>2 DEF HostTypeOK, SecretsRule
  <2>4. PlaceholdersHaveSecrets'
    BY <1>0, <2>1, <2>2 DEF PlaceholdersHaveSecrets
  <2> QED
    BY <2>3, <2>4
<1>2. ASSUME NEW new \in BOOLEAN, UpdateLook(t, a, new)
      PROVE  SecretsRule' /\ PlaceholdersHaveSecrets'
  <2>1. UNCHANGED <<entries, deleted, row, items, moving>>
    BY <1>2 DEF UpdateLook
  <2>2. PICK pc \in {"store", "check", "write"}, column \in Columns \ {"unborn", "gone"} :
           /\ op' = [op EXCEPT ![t] = [pc |-> pc, account |-> a, column |-> column]]
           /\ pc # "store" /\ column = "placeholder" => row[a] = "placeholder"
    BY <1>0, <1>2 DEF UpdateLook, Exists, HostTypeOK
  <2>3. HasSecret(a) \/ row[a] # "placeholder"
    BY <1>0 DEF PlaceholdersHaveSecrets
  <2>4. SecretsRule'
    BY <1>0, <2>1, <2>2, <2>3 DEF HostTypeOK, SecretsRule
  <2> QED
    BY <1>0, <2>1, <2>4 DEF PlaceholdersHaveSecrets
<1>3. CASE Read(t, a)
  <2>1. SecretsRule'
    BY <1>0, <1>3 DEF Read, HostTypeOK, SecretsRule
  <2> QED
    BY <1>0, <1>3, <2>1 DEF Read, PlaceholdersHaveSecrets
<1>4. CASE DeleteRow(t, a)
  <2>1. /\ op' = [op EXCEPT ![t] = [pc |-> "erase", account |-> a, column |-> "none"]]
        /\ row' = [row EXCEPT ![a] = "gone"]
        /\ UNCHANGED <<entries, deleted, items, moving>>
        /\ row[a] # "unborn"
    BY <1>4 DEF DeleteRow, Exists
  <2>2. SecretsRule'
    BY <1>0, <2>1 DEF HostTypeOK, SecretsRule
  <2> QED
    BY <1>0, <2>1, <2>2 DEF HostTypeOK, PlaceholdersHaveSecrets
<1> QED
  BY <1>1, <1>2, <1>3, <1>4 DEF Asks, Saves

(* The steps of a save, a read and a delete. *)
LEMMA WorkingKeepsSecrets ==
  ASSUME SecretInv, NEW t \in Threads, Works(t)
  PROVE  SecretsRule' /\ PlaceholdersHaveSecrets'
<1>0. VaultInv /\ HostTypeOK /\ SecretsRule /\ PlaceholdersHaveSecrets
  BY DEF SecretInv, HostInv
<1> USE DEF Has, HasSecret
<1> DEFINE a == op[t].account
<1>a. a \in Accounts
  BY <1>0 DEF HostTypeOK, Works, Insert, UpdateStore, UpdateWrite, Get, Adopt, DeleteSecret
<1>i. UNCHANGED <<items, moving>>
  BY DEF Works, Insert, UpdateStore, UpdateWrite, Get, Adopt, DeleteSecret
<1>1. CASE Insert(t)
  <2>1. /\ op' = [op EXCEPT ![t] = Idle] /\ op[t].pc = "insert"
        /\ row' = [row EXCEPT ![a] = op[t].column]
        /\ UNCHANGED <<entries, deleted>>
    BY <1>1 DEF Insert
  <2>2. SecretsRule'
    BY <1>0, <1>a, <1>i, <2>1 DEF HostTypeOK, SecretsRule
  <2>3. PlaceholdersHaveSecrets'
    BY <1>0, <1>a, <1>i, <2>1 DEF HostTypeOK, SecretsRule, PlaceholdersHaveSecrets
  <2> QED
    BY <2>2, <2>3
<1>2. CASE UpdateStore(t)
  <2>1. CASE cached # NoKey
    <3>1. /\ op' = [op EXCEPT ![t] = [op[t] EXCEPT !.pc = "write"]]
          /\ Store(a) /\ UNCHANGED row
      BY <1>2, <2>1 DEF UpdateStore
    <3>2. Used' = Used \cup {a} /\ deleted' = deleted \ {a}
      BY <1>0, <1>a, <3>1, StoredIsThere
    <3>3. op' = [op EXCEPT ![t] =
                   [pc |-> "write", account |-> a, column |-> op[t].column]]
          /\ op[t].pc = "store"
      <4>1. [op[t] EXCEPT !.pc = "write"] =
              [pc |-> "write", account |-> a, column |-> op[t].column]
        BY <1>0 DEF HostTypeOK
      <4> QED
        BY <1>2, <3>1, <4>1 DEF UpdateStore
    <3>4. SecretsRule'
      BY <1>0, <1>a, <1>i, <3>1, <3>2, <3>3 DEF HostTypeOK, SecretsRule
    <3> QED
      BY <1>0, <1>i, <3>1, <3>2, <3>4 DEF PlaceholdersHaveSecrets
  <2>2. CASE cached = NoKey
    <3>1. op' = [op EXCEPT ![t] = Idle] /\ UNCHANGED <<entries, deleted, row>>
      BY <1>2, <2>2 DEF UpdateStore
    <3> QED
      BY <1>0, <1>i, <3>1 DEF HostTypeOK, SecretsRule, PlaceholdersHaveSecrets
  <2> QED
    BY <2>1, <2>2
<1>3. CASE UpdateWrite(t)
  <2>1. /\ op' = [op EXCEPT ![t] = Idle] /\ op[t].pc = "write"
        /\ row' = [row EXCEPT ![a] = IF Exists(a) THEN op[t].column ELSE @]
        /\ UNCHANGED <<entries, deleted>>
    BY <1>3 DEF UpdateWrite
  <2>2. row' \in [Accounts -> Columns]
    BY <1>0, <2>1 DEF HostTypeOK
  <2>3. \A b \in Accounts :
          /\ row'[b] = "unborn" <=> row[b] = "unborn"
          /\ row'[b] = "gone" <=> row[b] = "gone"
    BY <1>0, <2>1 DEF HostTypeOK, SecretsRule, Exists
  <2>4. SecretsRule'
    BY <1>0, <1>a, <1>i, <2>1, <2>2, <2>3 DEF HostTypeOK, SecretsRule
  <2>5. PlaceholdersHaveSecrets'
    BY <1>0, <1>a, <1>i, <2>1 DEF HostTypeOK, SecretsRule, PlaceholdersHaveSecrets, Exists
  <2> QED
    BY <2>4, <2>5
<1>4. CASE Get(t)
  <2>1. UNCHANGED <<entries, deleted, row>>
    BY <1>4 DEF Get
  <2>2. /\ op'[t] \in {Idle, [op[t] EXCEPT !.pc = "write"], [op[t] EXCEPT !.pc = "adopt"],
                      [op[t] EXCEPT !.pc = "adoptAndWrite"]}
        /\ op' = [op EXCEPT ![t] = op'[t]]
        /\ op'[t].pc \in {"write", "adoptAndWrite"} => op[t].pc = "check"
    BY <1>0, <1>4 DEF HostTypeOK, Get, After
  <2>3. SecretsRule'
    BY <1>0, <1>a, <1>i, <2>1, <2>2 DEF HostTypeOK, SecretsRule
  <2> QED
    BY <1>0, <1>i, <2>1, <2>3 DEF PlaceholdersHaveSecrets
<1>5. CASE Adopt(t)
  <2>1. Store(a) /\ UNCHANGED row
    BY <1>5 DEF Adopt
  <2>2. Used' = Used \cup {a} /\ deleted' = deleted \ {a}
    BY <1>0, <1>a, <2>1, StoredIsThere
  <2>3. SecretsRule'
    BY <1>0, <1>a, <1>i, <1>5, <2>1, <2>2 DEF HostTypeOK, SecretsRule, Adopt
  <2> QED
    BY <1>0, <1>i, <2>1, <2>2, <2>3 DEF PlaceholdersHaveSecrets
<1>6. CASE DeleteSecret(t)
  <2>1. op' = [op EXCEPT ![t] = Idle] /\ UNCHANGED row /\ row[a] = "gone"
    BY <1>0, <1>6 DEF DeleteSecret, SecretsRule
  <2>2. \/ UNCHANGED <<Used, deleted>>
        \/ Used' = Used \ {a} /\ deleted' = deleted \cup {a}
    BY <1>0, <1>a, <1>6, ErasedIsGone DEF DeleteSecret
  <2>3. SecretsRule'
    BY <1>0, <1>a, <1>i, <2>1, <2>2 DEF HostTypeOK, SecretsRule
  <2>4. PlaceholdersHaveSecrets'
    BY <1>0, <1>a, <1>i, <2>1, <2>2 DEF PlaceholdersHaveSecrets
  <2> QED
    BY <2>3, <2>4
<1> QED
  BY <1>1, <1>2, <1>3, <1>4, <1>5, <1>6 DEF Works

(* The migration stores before it marks. *)
LEMMA MigratingKeepsSecrets ==
  ASSUME SecretInv, Migrates
  PROVE  SecretsRule' /\ PlaceholdersHaveSecrets'
<1>0. VaultInv /\ HostTypeOK /\ SecretsRule /\ PlaceholdersHaveSecrets
  BY DEF SecretInv, HostInv
<1> USE DEF Has, HasSecret
<1>i. UNCHANGED <<items, op>>
  BY DEF Migrates, MigrationStep, MigrateBegin, MigrateEnd, MigrateFails, TryAgain,
         MigrateRead, MigrateStore, MigrateMark
<1>1. ASSUME UNCHANGED <<entries, deleted, row>>,
             moving'.moved = moving.moved \/ moving'.moved = {},
             moving'.read \subseteq Accounts
      PROVE  SecretsRule' /\ PlaceholdersHaveSecrets'
  BY <1>0, <1>i, <1>1 DEF SecretsRule, PlaceholdersHaveSecrets
<1>2. CASE MigrateBegin \/ MigrateEnd \/ MigrateFails \/ TryAgain
  BY <1>0, <1>1, <1>2 DEF MigrateBegin, MigrateEnd, MigrateFails, TryAgain, SecretsRule
<1>3. ASSUME NEW a \in Accounts, MigrateRead(a)
      PROVE  SecretsRule' /\ PlaceholdersHaveSecrets'
  BY <1>1, <1>3 DEF MigrateRead
<1>4. ASSUME NEW a \in Accounts, MigrateStore(a)
      PROVE  SecretsRule' /\ PlaceholdersHaveSecrets'
  <2>1. Used' = Used \cup {a} /\ deleted' = deleted \ {a}
    BY <1>0, <1>4, StoredIsThere DEF MigrateStore
  <2>2. UNCHANGED row /\ moving'.moved \subseteq moving.moved \cup {a} /\ moving'.read = {}
    BY <1>4 DEF MigrateStore
  <2> QED
    BY <1>0, <1>i, <2>1, <2>2 DEF SecretsRule, PlaceholdersHaveSecrets
<1>5. ASSUME NEW a \in Accounts, MigrateMark(a)
      PROVE  SecretsRule' /\ PlaceholdersHaveSecrets'
  <2>1. /\ UNCHANGED <<entries, deleted>> /\ a \in moving.moved
        /\ row' = [row EXCEPT ![a] = IF Exists(a) THEN "placeholder" ELSE @]
        /\ moving'.moved \subseteq moving.moved /\ moving'.read \subseteq Accounts
    BY <1>0, <1>5 DEF MigrateMark, SecretsRule
  <2>2. \A b \in Accounts :
          /\ row'[b] = "unborn" <=> row[b] = "unborn"
          /\ row'[b] = "gone" <=> row[b] = "gone"
    BY <1>0, <2>1 DEF HostTypeOK, Exists
  <2>3. SecretsRule'
    BY <1>0, <1>i, <2>1, <2>2 DEF HostTypeOK, SecretsRule
  <2>4. PlaceholdersHaveSecrets'
    BY <1>0, <1>i, <2>1 DEF HostTypeOK, SecretsRule, PlaceholdersHaveSecrets, Exists
  <2> QED
    BY <2>3, <2>4
<1> QED
  BY <1>2, <1>3, <1>4, <1>5 DEF Migrates

(* An unlock writes the same accounts under a new key. *)
LEMMA UnlockingKeepsUsed == VaultInv /\ Finishing => UNCHANGED <<Used, deleted>>
<1> SUFFICES ASSUME VaultInv, Finishing PROVE UNCHANGED <<Used, deleted>>
  OBVIOUS
<1>1. CASE Reencrypt
  <2>1. unlocking.key \in Passwords
    BY <1>1 DEF Reencrypt, VaultInv, UnlockRule
  <2>2. unlocking.key # NoKey
    BY <2>1
  <2>3. entries' = [a \in Accounts |-> IF a \in Used THEN unlocking.key ELSE NoKey]
    BY <1>1 DEF Reencrypt
  <2>4. Used' = Used
    BY <2>2, <2>3
  <2> QED
    BY <1>1, <2>4 DEF Reencrypt
<1>2. CASE ~Reencrypt
  BY <1>2 DEF Finishing, Remember, DropKeyFile, CacheKey
<1> QED
  BY <1>1, <1>2

LEMMA StepKeepsSecrets == SecretInv /\ [HostNext]_hostVars => SecretInv'
<1> SUFFICES ASSUME SecretInv, [HostNext]_hostVars PROVE SecretInv'
  OBVIOUS
<1>0. HostInv /\ SecretsRule /\ PlaceholdersHaveSecrets
  BY DEF SecretInv
<1>1. HostInv'
  BY <1>0, StepKeepsHost
<1>2. ASSUME UNCHANGED <<Used, deleted, row, items, op, moving>>
      PROVE  SecretsRule' /\ PlaceholdersHaveSecrets'
  BY <1>0, <1>2 DEF SecretsRule, PlaceholdersHaveSecrets, Has, HasSecret
<1>3. CASE \E t \in Threads : Works(t) \/ \E a \in Accounts : Asks(t, a)
  BY <1>1, <1>3, AskingKeepsSecrets, WorkingKeepsSecrets DEF SecretInv
<1>4. CASE \E p \in Passwords, working \in BOOLEAN : TryUnlock(p, working)
  <2>1. UNCHANGED <<entries, deleted, row, items, op, moving>>
    BY <1>4 DEF TryUnlock, Unlock, UnlockFromKeychain, UnlockSetup,
                UnlockWithPassword, Starts
  <2> QED
    BY <1>1, <1>2, <2>1 DEF SecretInv
<1>5. CASE UnlockStep
  <2>1. UNCHANGED <<Used, deleted, row, items, op, moving>>
    BY <1>0, <1>5, UnlockingKeepsUsed DEF UnlockStep, HostInv
  <2> QED
    BY <1>1, <1>2, <2>1 DEF SecretInv
<1>6. CASE Migrates
  BY <1>1, <1>6, MigratingKeepsSecrets DEF SecretInv
<1>7. CASE Crash
  <2>1. /\ UNCHANGED <<entries, deleted, row, items>>
        /\ op' = [t \in Threads |-> Idle] /\ moving' = NothingToMove
    BY <1>7 DEF Crash, VaultCrash
  <2> QED
    BY <1>0, <1>1, <2>1 DEF SecretInv, SecretsRule, PlaceholdersHaveSecrets, HasSecret
<1>8. CASE UNCHANGED hostVars
  BY <1>1, <1>2, <1>8 DEF SecretInv, hostVars, vaultVars
<1> QED
  BY <1>3, <1>4, <1>5, <1>6, <1>7, <1>8 DEF HostNext

(* No interleaving of saves, reads, deletes and the migration, cut off      *)
(* anywhere, leaves a row whose placeholder has no secret                   *)
(* (missing_host_secret_message).                                           *)
THEOREM NoSecretIsMissing == HostSpec => []PlaceholdersHaveSecrets
<1>1. HostInit => SecretInv
  BY InitSecrets
<1>2. SecretInv /\ [HostNext]_hostVars => SecretInv'
  BY StepKeepsSecrets
<1>3. SecretInv => PlaceholdersHaveSecrets
  BY DEF SecretInv
<1> QED
  BY <1>1, <1>2, <1>3, PTL DEF HostSpec

(* The first step of an unlock with password p that gets in.                *)
FirstStep(p) ==
  IF KeychainOpens THEN At("cache", keychain, FALSE)
  ELSE IF SetupRequired /\ Opens(LegacyKey) THEN At("reencrypt", p, TRUE)
  ELSE At("remember", p, SetupRequired)

(* LetsIn says when an unlock takes a step, and it leaves nothing out: the  *)
(* step is FirstStep (unlock_local_vault).                                  *)
LEMMA WhoIsLetIn ==
  ASSUME NEW p \in Passwords, TryUnlock(p, TRUE)
  PROVE  LetsIn(p)
BY DEF TryUnlock, Unlock, UnlockFromKeychain, UnlockSetup, UnlockWithPassword, LetsIn

LEMMA WhoIsLetInUnlocks ==
  ASSUME NEW p \in Passwords, LetsIn(p), cached = NoKey, unlocking = NotUnlocking,
         unlocking' = FirstStep(p),
         UNCHANGED <<fileVars, keychain, keyfile, cached, row, items, op, moving, crashes>>
  PROVE  TryUnlock(p, TRUE)
<1>1. unlocking.step = "idle"
  OBVIOUS
<1>2. Starts(FirstStep(p).step, FirstStep(p).key, FirstStep(p).setup)
  BY <1>1 DEF Starts, FirstStep
<1>3. CASE KeychainOpens
  BY <1>2, <1>3 DEF FirstStep, TryUnlock, Unlock, UnlockFromKeychain
<1>4. CASE ~KeychainOpens /\ SetupRequired
  <2>1. CASE Opens(LegacyKey)
    BY <1>2, <1>4, <2>1 DEF FirstStep, TryUnlock, Unlock, UnlockSetup
  <2>2. CASE ~Opens(LegacyKey)
    BY <1>2, <1>4, <2>2 DEF FirstStep, TryUnlock, Unlock, UnlockSetup, LetsIn
  <2> QED
    BY <2>1, <2>2
<1>5. CASE ~KeychainOpens /\ ~SetupRequired
  <2>1. Opens(p) /\ FirstStep(p) = At("remember", p, FALSE)
    BY <1>5 DEF LetsIn, FirstStep
  <2>2. Starts("remember", p, FALSE)
    BY <1>1, <2>1 DEF Starts
  <2>3. UnlockWithPassword(p)
    BY <2>1, <2>2 DEF UnlockWithPassword
  <2> QED
    BY <1>5, <2>3 DEF TryUnlock, Unlock
<1> QED
  BY <1>3, <1>4, <1>5

(* With one key for all entries, and that key at hand, somebody is let in.  *)
LEMMA AKeyOpens == VaultInv => \E p \in Passwords : LetsIn(p)
<1> SUFFICES ASSUME VaultInv PROVE \E p \in Passwords : LetsIn(p)
  OBVIOUS
<1>0. VaultTypeOK /\ OneKey /\ KeyAtHand
  BY DEF VaultInv
<1>1. CASE Used = {}
  BY <1>1 DEF LetsIn, Opens
<1>2. ASSUME NEW a \in Used PROVE \E p \in Passwords : LetsIn(p)
  <2>1. Opens(entries[a])
    BY <1>0, <1>2 DEF OneKey, Opens
  <2>2. entries[a] \in Keys
    BY <1>0, <1>2 DEF VaultTypeOK
  <2>3. CASE entries[a] \in Passwords
    BY <2>1, <2>3 DEF LetsIn
  <2>4. CASE entries[a] = keychain
    BY <2>1, <2>2, <2>4 DEF LetsIn
  <2>5. CASE entries[a] = LegacyKey /\ keyfile /\ keychain = NoKey
    BY <2>1, <2>5 DEF LetsIn
  <2> QED
    BY <1>0, <1>2, <2>3, <2>4, <2>5 DEF KeyAtHand
<1> QED
  BY <1>1, <1>2

(* Wherever an unlock was cut off or failed, and whatever was stored since, *)
(* the next start gets in (unlock_local_vault).                             *)
THEOREM TheNextStartOpens == HostSpec => []OpensAgain
<1>1. HostInv => OpensAgain
  BY AKeyOpens DEF HostInv, OpensAgain
<1> QED
  BY <1>1, SecretsStayReadable, PTL

=============================================================================
