------------------------------ MODULE MasterKeys ------------------------------
(***************************************************************************)
(* Where a hub's master key comes from (hub-core/src/config.ts             *)
(* resolveMasterKey and loadConfigAsync, keyring.ts and the keyring        *)
(* subcommands of index.ts) and what is sealed with it: the rows of the    *)
(* vault and of the credentials store, and the key a backup carries.       *)
(*                                                                         *)
(* No start compares its key with the one the rows were sealed with: a hub *)
(* started with another key runs, and fails at the first row it opens.     *)
(***************************************************************************)
EXTENDS Naturals, FiniteSetsExt

CONSTANTS
    Keys,            \* master keys
    Accounts,        \* keyring entries a hub may be pointed at
    DefaultAccount,  \* the one of a hub started without --keyring-account
    NoKey            \* no key

ASSUME KeysAssumption == NoKey \notin Keys /\ DefaultAccount \in Accounts

VARIABLES
    flags,     \* what the user passes to every command: [cli, passphrase, env]
    account,   \* the --keyring-account the hub is started with
    keyring,   \* [Accounts -> Keys \cup {NoKey}]
    daemon,    \* the keyring's daemon: "works" or "broken"
    hubKey,    \* the key of the running hub, NoKey when it is down
    sealed,    \* the keys that rows of the database were sealed with
    carried    \* the backup: its rows' keys and the key in its payload

keyVars == <<flags, account, keyring, daemon, hubKey, sealed, carried>>

Sources == {"cli", "passphrase", "env"}

Backup == [rows : SUBSET Keys, key : Keys \cup {NoKey}]

KeysTypeOK ==
    /\ flags \in [Sources -> Keys \cup {NoKey}]
    /\ account \in Accounts
    /\ keyring \in [Accounts -> Keys \cup {NoKey}]
    /\ daemon \in {"works", "broken"}
    /\ hubKey \in Keys \cup {NoKey}
    /\ sealed \subseteq Keys
    /\ carried \in Backup

\* A user keeps passing the same flags and, once rows are sealed, has no reason
\* to store another key: both keyring entries are what they were at first.
KeysInit ==
    /\ flags \in [Sources -> Keys \cup {NoKey}]
    /\ account \in Accounts
    /\ keyring \in [Accounts -> Keys \cup {NoKey}]
    /\ daemon = "works"
    /\ hubKey = NoKey
    /\ sealed = {}
    /\ carried = [rows |-> {}, key |-> NoKey]

-----------------------------------------------------------------------------

\* getMasterKey, when the keyring answers; an entry that is not there and a
\* daemon that fails come to the same.
FromKeyring(a) == IF daemon = "works" THEN keyring[a] ELSE NoKey

\* The first source of a chain that has a key; NoKey when none has: it throws.
FirstKey(chain) ==
    LET found == {i \in DOMAIN chain : chain[i] # NoKey}
    IN IF found = {} THEN NoKey ELSE chain[Min(found)]

\* (Wrong on purpose: the keyring is asked before the environment.)
ResolveKeyringFirst(a) ==
    FirstKey(<<flags["cli"], flags["passphrase"], FromKeyring(a), flags["env"]>>)

\* resolveMasterKey for a command other than the hub.
Resolve(a) ==
    FirstKey(<<flags["cli"], flags["passphrase"], flags["env"], FromKeyring(a)>>)

\* loadConfigAsync asks the same chain, for the account it was given.
HubResolves == Resolve(account)

StartsWithKey ==
    /\ hubKey = NoKey
    /\ HubResolves # NoKey
    /\ hubKey' = HubResolves
    /\ UNCHANGED <<flags, account, keyring, daemon, sealed, carried>>

StopsWithKey ==
    /\ hubKey # NoKey
    /\ hubKey' = NoKey
    /\ UNCHANGED <<flags, account, keyring, daemon, sealed, carried>>

\* TokenVault.store, PluginOAuthStore.set: the row is sealed with the hub's key.
Seals ==
    /\ hubKey # NoKey
    /\ sealed' = sealed \cup {hubKey}
    /\ UNCHANGED <<flags, account, keyring, daemon, hubKey, carried>>

\* backup: the key is resolved without the names of the keyring entry, and put
\* into the payload as it is.
BacksUp ==
    /\ Resolve(DefaultAccount) # NoKey
    /\ carried' = [rows |-> sealed, key |-> Resolve(DefaultAccount)]
    /\ UNCHANGED <<flags, account, keyring, daemon, hubKey, sealed>>

\* restore, on a stopped hub; it prints the key, and the user starts the hub
\* with it from now on, as a flag ...
RestoresToFlag ==
    /\ hubKey = NoKey
    /\ carried.key # NoKey
    /\ sealed' = carried.rows
    /\ flags' = [flags EXCEPT !["cli"] = carried.key]
    /\ UNCHANGED <<account, keyring, daemon, hubKey, carried>>

\* ... or stores it, as it recommends, and passes no key any more.
RestoresToKeyring ==
    /\ hubKey = NoKey
    /\ daemon = "works"
    /\ carried.key # NoKey
    /\ sealed' = carried.rows
    /\ flags' = [s \in Sources |-> NoKey]
    /\ keyring' = [keyring EXCEPT ![account] = carried.key]
    /\ UNCHANGED <<account, daemon, hubKey, carried>>

\* deleteMasterKey: nothing to do for an entry that is not there.
Deletes(a) ==
    /\ keyring[a] # NoKey
    /\ keyring' = [keyring EXCEPT ![a] = NoKey]

\* keyring clear, of an entry its user names; it refuses without a daemon.
ClearsKeyring ==
    /\ daemon = "works"
    /\ Deletes(account)
    /\ UNCHANGED <<flags, account, daemon, hubKey, sealed, carried>>

\* The daemon stops or comes back.
DaemonChanges ==
    /\ daemon' = IF daemon = "works" THEN "broken" ELSE "works"
    /\ UNCHANGED <<flags, account, keyring, hubKey, sealed, carried>>

KeysNext ==
    \/ StartsWithKey \/ StopsWithKey \/ Seals \/ BacksUp
    \/ RestoresToFlag \/ RestoresToKeyring \/ ClearsKeyring \/ DaemonChanges

KeysSpec == KeysInit /\ [][KeysNext]_keyVars

-----------------------------------------------------------------------------
(***************************************************************************)
(* Properties.                                                             *)
(***************************************************************************)

\* docs/cli-reference.md: restore prints the key the restored hub is started
\* with.  However the key is kept (a flag, the environment, the keyring) and
\* wherever it has moved since, a hub on the default keyring entry that starts
\* at all can open every row it finds, and so can one started from its backup.
OneKeyOpensAll ==
    account = DefaultAccount =>
        /\ hubKey # NoKey => sealed \subseteq {hubKey}
        /\ carried.rows \subseteq {carried.key}
=============================================================================
