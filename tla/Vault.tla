------------------------------- MODULE Vault -------------------------------
(***************************************************************************)
(* The encrypted vault (crates/ops-core/src/keychain_real.rs): a file of   *)
(* secrets, each encrypted under the master key; the master key in the     *)
(* system keychain, derived from the startup password, or, left by older   *)
(* builds, in a key file beside the vault.  The file is replaced in one    *)
(* rename under a lock.  An unlock is a sequence of writes to the file,    *)
(* the keychain and the key file, and the process may end between any two. *)
(*                                                                         *)
(* The key derived from a password is named by the password.  Of a secret  *)
(* the model keeps the key it is encrypted under.                          *)
(***************************************************************************)
EXTENDS Naturals

CONSTANTS
    NAccounts,      \* the accounts secrets are stored for, in the file's order
    Passwords,      \* the startup passwords the user may type
    LegacyKey,      \* the key of the key file
    SystemKey,      \* a key an older build made and put into the keychain
    NoKey,          \* no key, no entry, nothing typed
    BadItem         \* a keychain item that is not a key

ASSUME VaultAssumption ==
    /\ NAccounts \in Nat
    /\ Passwords # {}
    /\ LegacyKey # SystemKey /\ {LegacyKey, SystemKey} \cap Passwords = {}
    /\ NoKey \notin Passwords \cup {LegacyKey, SystemKey, BadItem}
    /\ BadItem \notin Passwords \cup {LegacyKey, SystemKey}

Accounts == 1 .. NAccounts
Keys == Passwords \cup {LegacyKey, SystemKey}

VARIABLES
    entries,    \* the key each account's secret is encrypted under, or NoKey
    deleted,    \* the accounts with a delete marker
    keychain,   \* the master-key item of the system keychain
    keyfile,    \* the key file exists
    cached,     \* VAULT_MASTER_KEY, NoKey while locked
    unlocking   \* the unlock under way: its next step, its key, whether it is
                \* the first with a password of a vault that had a key file

fileVars == <<entries, deleted>>
vaultVars == <<entries, deleted, keychain, keyfile, cached, unlocking>>
------------------------------------------------------------------------------
NotUnlocking == [step |-> "idle", key |-> NoKey, setup |-> FALSE]
At(step, k, setup) == [step |-> step, key |-> k, setup |-> setup]

Used == {a \in Accounts : entries[a] # NoKey}

(* What an earlier process left: one key, and that key at hand.             *)
VaultInit ==
    /\ \E k \in Keys :
          /\ entries \in [Accounts -> {k, NoKey}]
          /\ \/ k \in Passwords /\ keychain \in {k, NoKey, BadItem} /\ keyfile = FALSE
             \/ k = SystemKey /\ keychain = k /\ keyfile = FALSE
             \/ k = LegacyKey /\ keychain = NoKey /\ keyfile = TRUE
    /\ deleted = {}
    /\ cached = NoKey
    /\ unlocking = NotUnlocking

(* validate_vault_key: the first entry decrypts; an empty vault takes any.  *)
Opens(k) == \A a \in Used : (\A b \in Used : a <= b) => entries[a] = k

Starts(step, k, setup) ==
    /\ unlocking.step = "idle" /\ cached = NoKey
    /\ unlocking' = At(step, k, setup)
    /\ UNCHANGED <<fileVars, keychain, keyfile, cached>>

KeychainOpens == keychain \in Keys /\ Opens(keychain)
SetupRequired == keychain = NoKey /\ keyfile

(* unlock_local_vault: the keychain holds a key that opens the vault.       *)
UnlockFromKeychain ==
    /\ KeychainOpens
    /\ Starts("cache", keychain, FALSE)

(* The first unlock with a password of a vault with a key file.  The file's *)
(* key is replaced, unless an earlier attempt already did that.             *)
UnlockSetup(p) ==
    /\ SetupRequired
    /\ \/ Opens(LegacyKey) /\ Starts("reencrypt", p, TRUE)
       \/ ~Opens(LegacyKey) /\ Opens(p) /\ Starts("remember", p, TRUE)

(* unlock_with_passphrase: the keychain cannot be used at the moment, has   *)
(* no key or not the right one.                                             *)
UnlockWithPassword(p) ==
    /\ Opens(p)
    /\ Starts("remember", p, FALSE)

Unlock(p, working) ==
    IF working
    THEN \/ UnlockFromKeychain
         \/ UnlockSetup(p)
         \/ ~KeychainOpens /\ ~SetupRequired /\ UnlockWithPassword(p)
    ELSE UnlockWithPassword(p)

(* Mutant: only the entry that was validated is encrypted again.            *)
ReencryptFirst ==
    /\ unlocking.step = "reencrypt"
    /\ entries' = [a \in Accounts |->
           IF a \in Used /\ \A b \in Used : a <= b THEN unlocking.key ELSE entries[a]]
    /\ unlocking' = [unlocking EXCEPT !.step = "remember"]
    /\ UNCHANGED <<deleted, keychain, keyfile, cached>>

(* reencrypt_vault: one new file.                                           *)
Reencrypt ==
    /\ unlocking.step = "reencrypt"
    /\ entries' = [a \in Accounts |-> IF a \in Used THEN unlocking.key ELSE NoKey]
    /\ unlocking' = [unlocking EXCEPT !.step = "remember"]
    /\ UNCHANGED <<deleted, keychain, keyfile, cached>>

(* Mutant: the key is remembered before the vault is encrypted under it.    *)
RememberFirst(taken) ==
    /\ unlocking.step \in {"reencrypt", "remember"}
    /\ keychain' = IF taken THEN unlocking.key ELSE keychain
    /\ unlocking' = IF unlocking.step = "reencrypt" THEN unlocking
                    ELSE [unlocking EXCEPT !.step =
                              IF unlocking.setup THEN "dropKeyFile" ELSE "cache"]
    /\ UNCHANGED <<fileVars, keyfile, cached>>

(* remember_system_vault_master_key: the keychain may refuse.               *)
Remember(taken) ==
    /\ unlocking.step = "remember"
    /\ keychain' = IF taken THEN unlocking.key ELSE keychain
    /\ unlocking' = [unlocking EXCEPT !.step =
                         IF unlocking.setup THEN "dropKeyFile" ELSE "cache"]
    /\ UNCHANGED <<fileVars, keyfile, cached>>

(* delete_legacy_vault_key_file: an error ends the unlock.                  *)
DropKeyFile(removed) ==
    /\ unlocking.step = "dropKeyFile"
    /\ keyfile' = IF removed THEN FALSE ELSE keyfile
    /\ unlocking' = IF removed THEN [unlocking EXCEPT !.step = "cache"] ELSE NotUnlocking
    /\ UNCHANGED <<fileVars, keychain, cached>>

(* cache_vault_master_key: from here on secrets are read and written.  What *)
(* the app does after an unlock comes next.                                 *)
CacheKey ==
    /\ unlocking.step = "cache"
    /\ cached' = unlocking.key
    /\ unlocking' = [unlocking EXCEPT !.step = "after"]
    /\ UNCHANGED <<fileVars, keychain, keyfile>>

Finishing ==
    \/ Reencrypt
    \/ Remember(TRUE) \/ Remember(FALSE)
    \/ DropKeyFile(TRUE) \/ DropKeyFile(FALSE)
    \/ CacheKey

(* store and delete, for an account, while the vault is unlocked.           *)
Store(a) ==
    /\ cached # NoKey
    /\ entries' = [entries EXCEPT ![a] = cached]
    /\ deleted' = deleted \ {a}

Erase(a) ==
    /\ cached # NoKey
    /\ entries' = [entries EXCEPT ![a] = NoKey]
    /\ deleted' = deleted \cup {a}

(* The process ends: the file, the keychain and the key file stay.          *)
VaultCrash ==
    /\ cached' = NoKey
    /\ unlocking' = NotUnlocking
    /\ UNCHANGED <<fileVars, keychain, keyfile>>
------------------------------------------------------------------------------
VaultTypeOK ==
    /\ entries \in [Accounts -> Keys \cup {NoKey}]
    /\ deleted \subseteq Accounts
    /\ keychain \in Keys \cup {NoKey, BadItem}
    /\ keyfile \in BOOLEAN
    /\ cached \in Keys \cup {NoKey}
    /\ unlocking \in [step: {"idle", "reencrypt", "remember", "dropKeyFile",
                             "cache", "after", "migrate", "failed"},
                      key: Keys \cup {NoKey}, setup: BOOLEAN]

(* Every secret is encrypted under one key, and the vault is open with that *)
(* key only: what is stored with it can be read with what is remembered.    *)
OneKey ==
    /\ \A a, b \in Used : entries[a] = entries[b]
    /\ cached # NoKey => \A a \in Used : entries[a] = cached
    /\ unlocking.step \in {"remember", "dropKeyFile", "cache"} =>
           \A a \in Used : entries[a] = unlocking.key

(* The steps of an unlock know their key.                                   *)
UnlockRule ==
    /\ unlocking.step = "reencrypt" =>
           /\ unlocking.key \in Passwords /\ unlocking.setup /\ keyfile /\ keychain = NoKey
           /\ Opens(LegacyKey)
    /\ unlocking.step = "remember" =>
           unlocking.key \in Passwords /\ (unlocking.setup => keychain = NoKey)
    /\ unlocking.step = "dropKeyFile" =>
           /\ unlocking.key \in Passwords
           /\ keychain \in {unlocking.key, NoKey}
    /\ unlocking.step = "cache" =>
           unlocking.key \in (Passwords \cup {keychain}) \ {NoKey}
    /\ unlocking.step \in {"reencrypt", "remember", "dropKeyFile", "cache"} => cached = NoKey
    /\ unlocking.step = "idle" => ~unlocking.setup
    /\ unlocking.step \in {"after", "migrate", "failed"} => cached # NoKey
    /\ cached # NoKey => cached \in Passwords \cup {keychain}

(* Nobody is locked out of secrets he has: after every step, so whenever    *)
(* the process ends, the key of what is in the file is one a password gives *)
(* or one the next start finds in the place where it looks for it.          *)
KeyAtHand == \A a \in Used :
    \/ entries[a] \in Passwords \cup {keychain}
    \/ entries[a] = LegacyKey /\ keyfile /\ keychain = NoKey

(* The vault is consistent: types, one key, an unlock that knows what it    *)
(* does, and the key at hand.                                               *)
VaultInv == VaultTypeOK /\ OneKey /\ UnlockRule /\ KeyAtHand
==============================================================================
