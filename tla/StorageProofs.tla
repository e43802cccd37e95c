----------------------------- MODULE StorageProofs -----------------------------
(***************************************************************************)
(* Proofs about what is written down: Migrations, HubFiles, MasterKeys and *)
(* AuditLog.  The four share nothing; each has a part of its own below.    *)
(***************************************************************************)
EXTENDS Migrations, HubFiles, MasterKeys, AuditLog, FiniteSetTheorems, TLAPS

-----------------------------------------------------------------------------
(***************************************************************************)
(* The key, wherever it is kept.  OneKeyOpensAll speaks of a hub that runs; *)
(* KeysIInv adds the key that the next one would find, which is the one the *)
(* rows are sealed with even while no hub runs.                            *)
(***************************************************************************)

\* The first of four sources that has a key.
LEMMA FourSources ==
    ASSUME NEW a, NEW b, NEW c, NEW d
    PROVE  FirstKey(<<a, b, c, d>>) =
             IF a # NoKey THEN a ELSE IF b # NoKey THEN b ELSE IF c # NoKey THEN c ELSE d
<1> DEFINE chain == <<a, b, c, d>>
           found == {i \in 1 .. 4 : chain[i] # NoKey}
<1>1. ASSUME NEW i \in found, \A j \in found : i <= j PROVE FirstKey(chain) = chain[i]
  <2>1. Min(found) = i
    <3>1. \A j \in found : (\A k \in found : j <= k) => j = i
      BY <1>1
    <3> HIDE DEF found
    <3> QED BY <1>1, <3>1 DEF Min
  <2> QED BY <1>1, <2>1 DEF FirstKey
<1>2. CASE a # NoKey
  <2>1. 1 \in found /\ \A j \in found : 1 <= j
    BY <1>2
  <2> QED BY <1>1, <1>2, <2>1
<1>3. CASE a = NoKey /\ b # NoKey
  <2>1. 2 \in found /\ \A j \in found : 2 <= j
    BY <1>3
  <2> QED BY <1>1, <1>3, <2>1
<1>4. CASE a = NoKey /\ b = NoKey /\ c # NoKey
  <2>1. 3 \in found /\ \A j \in found : 3 <= j
    BY <1>4
  <2> QED BY <1>1, <1>4, <2>1
<1>5. CASE a = NoKey /\ b = NoKey /\ c = NoKey /\ d # NoKey
  <2>1. 4 \in found /\ \A j \in found : 4 <= j
    BY <1>5
  <2> QED BY <1>1, <1>5, <2>1
<1>6. CASE a = NoKey /\ b = NoKey /\ c = NoKey /\ d = NoKey
  <2>1. found = {}
    BY <1>6
  <2> QED BY <1>6, <2>1 DEF FirstKey
<1> QED BY <1>2, <1>3, <1>4, <1>5, <1>6

\* The key a hub on the default entry would start with, were the daemon up.
KeyAtHand ==
    FirstKey(<<flags["cli"], flags["passphrase"], flags["env"], keyring[DefaultAccount]>>)

\* Every key at hand is the one the rows are sealed with; where both a running
\* hub and its sources have one, it is the same.
KeysIInv ==
    /\ KeysTypeOK
    /\ account = DefaultAccount =>
        /\ hubKey # NoKey => sealed \subseteq {hubKey}
        /\ KeyAtHand # NoKey => sealed \subseteq {KeyAtHand}
        /\ hubKey # NoKey /\ KeyAtHand # NoKey => hubKey = KeyAtHand
        /\ carried.rows \subseteq {carried.key}

LEMMA KeysInvInit == KeysInit => KeysIInv
BY DEF KeysInit, KeysIInv, KeysTypeOK, Backup

\* A command on the default entry resolves the key at hand, or none.
LEMMA Resolves ==
    ASSUME KeysTypeOK
    PROVE  /\ \A a \in Accounts : Resolve(a) \in Keys \cup {NoKey}
           /\ Resolve(DefaultAccount) \in {NoKey, KeyAtHand}
<1>1. \A a \in Accounts : FromKeyring(a) \in {NoKey, keyring[a]}
  BY DEF FromKeyring
<1>2. \A s \in Sources : flags[s] \in Keys \cup {NoKey}
  BY DEF KeysTypeOK
<1>3. \A a \in Accounts : keyring[a] \in Keys \cup {NoKey}
  BY DEF KeysTypeOK
<1> QED BY <1>1, <1>2, <1>3, FourSources, KeysAssumption DEF Resolve, KeyAtHand, Sources

\* Flags and keyring at rest: the key at hand is the same.
LEMMA SameKeyAtHand ==
    ASSUME UNCHANGED <<flags, keyring>> PROVE KeyAtHand' = KeyAtHand
BY DEF KeyAtHand

LEMMA KeysInvStep == KeysIInv /\ [KeysNext]_keyVars => KeysIInv'
<1> SUFFICES ASSUME KeysIInv, [KeysNext]_keyVars PROVE KeysIInv'
  OBVIOUS
<1> USE KeysAssumption DEF KeysIInv
<1>a. /\ \A a \in Accounts : Resolve(a) \in Keys \cup {NoKey}
      /\ Resolve(DefaultAccount) \in {NoKey, KeyAtHand}
  BY Resolves
<1>1. CASE StartsWithKey
  BY <1>1, <1>a, SameKeyAtHand DEF StartsWithKey, HubResolves, KeysTypeOK
<1>2. CASE StopsWithKey
  BY <1>2, SameKeyAtHand DEF StopsWithKey, KeysTypeOK
<1>3. CASE Seals
  BY <1>3, SameKeyAtHand DEF Seals, KeysTypeOK
<1>4. CASE BacksUp
  BY <1>4, <1>a, SameKeyAtHand DEF BacksUp, KeysTypeOK, Backup
<1>5. CASE RestoresToFlag
  <2>1. KeysTypeOK'
    BY <1>5 DEF RestoresToFlag, KeysTypeOK, Backup, Sources
  <2>2. flags'["cli"] = carried.key /\ hubKey' = NoKey
    BY <1>5 DEF RestoresToFlag, KeysTypeOK, Sources
  <2>3. KeyAtHand' = carried.key
    BY <1>5, <2>2, FourSources DEF KeyAtHand, RestoresToFlag
  <2> QED BY <1>5, <2>1, <2>2, <2>3 DEF RestoresToFlag
<1>6. CASE RestoresToKeyring
  <2>1. KeysTypeOK'
    BY <1>6 DEF RestoresToKeyring, KeysTypeOK, Backup, Sources
  <2>2. account = DefaultAccount => keyring'[DefaultAccount] = carried.key
    BY <1>6 DEF RestoresToKeyring, KeysTypeOK
  <2>3. \A s \in Sources : flags'[s] = NoKey
    BY <1>6 DEF RestoresToKeyring
  <2>4. account = DefaultAccount => KeyAtHand' = carried.key
    BY <2>2, <2>3, FourSources DEF KeyAtHand, Sources
  <2> QED BY <1>6, <2>1, <2>4 DEF RestoresToKeyring
<1>7. CASE ClearsKeyring
  <2>1. KeysTypeOK'
    BY <1>7 DEF ClearsKeyring, Deletes, KeysTypeOK
  <2>2. account = DefaultAccount => keyring'[DefaultAccount] = NoKey
    BY <1>7 DEF ClearsKeyring, Deletes, KeysTypeOK
  <2>3. account = DefaultAccount => KeyAtHand' \in {NoKey, KeyAtHand}
    BY <1>7, <2>2, FourSources DEF KeyAtHand, ClearsKeyring, Deletes
  <2> QED BY <1>7, <2>1, <2>3 DEF ClearsKeyring
<1>8. CASE DaemonChanges
  BY <1>8, SameKeyAtHand DEF DaemonChanges, KeysTypeOK
<1>9. CASE UNCHANGED keyVars
  BY <1>9, SameKeyAtHand DEF keyVars, KeysTypeOK
<1> QED BY <1>1, <1>2, <1>3, <1>4, <1>5, <1>6, <1>7, <1>8, <1>9 DEF KeysNext

\* Nothing is sealed with a key that is not at hand, and a backup carries the
\* key of its rows.
THEOREM KeysInductive == KeysSpec => []KeysIInv
BY KeysInvInit, KeysInvStep, PTL DEF KeysSpec

\* A hub that starts on the default entry opens every row it finds, and so does
\* one started from its backup (resolveMasterKey, backup, restore).
THEOREM KeyTheorem == KeysSpec => []OneKeyOpensAll
<1>1. KeysIInv => OneKeyOpensAll
  BY DEF KeysIInv, OneKeyOpensAll
<1> QED BY <1>1, KeysInductive, PTL

-----------------------------------------------------------------------------
(***************************************************************************)
(* The audit log.  ReadsComeBeforeAnswers needs to know where the row of a *)
(* call is that is not written yet (StoryInv), and that rows of one call are *)
(* dated in the order of its steps (InOrder), for a purge goes by the date. *)
(***************************************************************************)

\* The order of the three kinds of rows.
LEMMA Orders ==
    /\ Range(Kinds) = {"token_rotation", "vault_access", "approved"}
    /\ Order("token_rotation") = 1 /\ Order("vault_access") = 2 /\ Order("approved") = 3
<1>1. Range(Kinds) = {"token_rotation", "vault_access", "approved"}
  BY DEF Range, Kinds
<1>2. ASSUME NEW i \in DOMAIN Kinds PROVE Order(Kinds[i]) = i
  BY DEF Order, Kinds
<1>3. /\ 1 \in DOMAIN Kinds /\ 2 \in DOMAIN Kinds /\ 3 \in DOMAIN Kinds
      /\ Kinds[1] = "token_rotation" /\ Kinds[2] = "vault_access" /\ Kinds[3] = "approved"
  BY DEF Kinds
<1> QED BY <1>1, <1>2, <1>3

Once(q) == \A i, j \in DOMAIN q : i # j => q[i] # q[j]

\* A queue without repetitions: its head is not in its tail.
LEMMA DueTaken ==
    ASSUME NEW q \in Seq(Reads), q # <<>>
    PROVE  /\ Tail(q) \in Seq(Reads) /\ Head(q) \in Reads /\ Head(q) \in Range(q)
           /\ Range(q) = Range(Tail(q)) \cup {Head(q)}
           /\ Once(q) => Head(q) \notin Range(Tail(q)) /\ Once(Tail(q))
<1> DEFINE r == Tail(q)
<1>1. /\ Len(q) \in Nat /\ Len(q) > 0 /\ DOMAIN q = 1 .. Len(q) /\ DOMAIN r = 1 .. Len(q) - 1
      /\ Head(q) = q[1] /\ q[1] \in Reads /\ r \in Seq(Reads)
  OBVIOUS
<1>a. \A i \in DOMAIN r : i \in Nat /\ i + 1 \in DOMAIN q /\ 1 # i + 1 /\ r[i] = q[i + 1]
  BY <1>1
<1>b. 1 \in DOMAIN q
  BY <1>1
<1> HIDE DEF r
<1>c. \A i \in DOMAIN q : i = 1 \/ (i - 1 \in DOMAIN r /\ r[i - 1] = q[i])
  <2> SUFFICES ASSUME NEW i \in DOMAIN q, i # 1 PROVE i - 1 \in DOMAIN r /\ r[i - 1] = q[i]
    OBVIOUS
  <2>1. i - 1 \in DOMAIN r /\ (i - 1) + 1 = i
    BY <1>1
  <2> QED BY <1>a, <2>1
<1>2. Range(q) = Range(r) \cup {Head(q)}
  <2>1. \A x \in Range(q) : x \in Range(r) \cup {Head(q)}
    BY <1>1, <1>c DEF Range
  <2>2. \A x \in Range(r) : x \in Range(q)
    BY <1>a DEF Range
  <2>3. Head(q) \in Range(q)
    BY <1>1, <1>b DEF Range
  <2> QED BY <2>1, <2>2, <2>3
<1>3. ASSUME \A i, j \in DOMAIN q : i # j => q[i] # q[j]
      PROVE  /\ Head(q) \notin Range(r)
             /\ \A i, j \in DOMAIN r : i # j => r[i] # r[j]
  <2>1. Head(q) \notin Range(r)
    BY <1>1, <1>a, <1>b, <1>3 DEF Range
  <2>2. ASSUME NEW i \in DOMAIN r, NEW j \in DOMAIN r, i # j PROVE r[i] # r[j]
    <3>1. i + 1 # j + 1
      BY <1>a, <2>2
    <3> QED BY <1>a, <1>3, <3>1
  <2> QED BY <2>1, <2>2
<1> QED BY <1>1, <1>2, <1>3 DEF r, Once

LEMMA DueAdded ==
    ASSUME NEW q \in Seq(Reads), NEW c \in Reads
    PROVE  /\ Append(q, c) \in Seq(Reads)
           /\ Range(Append(q, c)) = Range(q) \cup {c}
           /\ Once(q) /\ c \notin Range(q) => Once(Append(q, c))
<1> DEFINE r == Append(q, c)
<1>1. /\ DOMAIN q = 1 .. Len(q) /\ DOMAIN r = 1 .. Len(q) + 1 /\ Len(q) \in Nat
      /\ \A i \in 1 .. Len(q) : r[i] = q[i]
      /\ r[Len(q) + 1] = c
      /\ r \in Seq(Reads)
  OBVIOUS
<1> HIDE DEF r
<1>2. Range(r) = Range(q) \cup {c}
  <2>1. \A x \in Range(r) : x \in Range(q) \cup {c}
    BY <1>1 DEF Range
  <2>2. \A x \in Range(q) : x \in Range(r)
    BY <1>1 DEF Range
  <2>3. c \in Range(r)
    BY <1>1 DEF Range
  <2> QED BY <2>1, <2>2, <2>3
<1>3. ASSUME \A i, j \in DOMAIN q : i # j => q[i] # q[j], c \notin Range(q)
      PROVE  \A i, j \in DOMAIN r : i # j => r[i] # r[j]
  <2>1. \A i \in DOMAIN r : i \in DOMAIN q \/ i = Len(q) + 1
    BY <1>1
  <2>2. \A i \in DOMAIN q : q[i] # c
    BY <1>3 DEF Range
  <2> QED BY <1>1, <1>3, <2>1, <2>2
<1> QED BY <1>1, <1>2, <1>3 DEF r, Once

Told == rows \cup purged
ToldOf(c) == {r \in Told : r.call = c}

\* What is written of one call is written in order, and each thing once ...
InOrder ==
    \A r, s \in Told : r.call = s.call =>
        /\ Order(s.kind) < Order(r.kind) => s.at <= r.at
        /\ s.kind = r.kind => s = r

\* ... so that what goes by time goes from the front.
EndStays ==
    \A s \in purged, r \in rows : s.call = r.call => Order(s.kind) < Order(r.kind)

StoryInv(c) ==
    /\ story[c] = "idle" => ToldOf(c) = {}
    /\ story[c] = "refreshed" \/ c \in Range(due) => \A r \in ToldOf(c) : r.kind = "token_rotation"
    /\ story[c] \in {"idle", "refreshed", "over"} => c \notin Range(due)
    /\ story[c] # "over" => \A r \in ToldOf(c) : r.kind # "approved"
    /\ story[c] \in {"running", "over"} =>
         \/ c \in Range(due) \cup missing
         \/ \E r \in ToldOf(c) : r.kind = "vault_access"

PurgeInv ==
    purge # NoPurge =>
        /\ purge.cutoff + Retention <= moment
        /\ purge.matching = Cardinality(OlderThan(purge.cutoff))

AuditIInv ==
    /\ AuditTypeOK /\ IsFiniteSet(rows) /\ Once(due)
    /\ \A r \in Told : r.at <= moment
    /\ InOrder /\ EndStays /\ PurgeInv
    /\ \A c \in Reads : StoryInv(c)

LEMMA AuditInvInit == AuditInit => AuditIInv
<1> SUFFICES ASSUME AuditInit PROVE AuditIInv
  OBVIOUS
<1>1. IsFiniteSet(rows) /\ Told = {}
  BY FS_EmptySet DEF AuditInit, Told
<1>2. Range(due) = {} /\ Once(due)
  BY DEF AuditInit, Range, Once
<1>3. AuditTypeOK
  BY RetentionAssumption DEF AuditInit, AuditTypeOK, NoPurge
<1> QED BY <1>1, <1>2, <1>3 DEF AuditInit, AuditIInv, InOrder, EndStays, PurgeInv, StoryInv, ToldOf

\* A call's next row leaves the books in order.
LEMMA AppendedInOrder ==
    ASSUME AuditIInv, NEW c \in Reads, NEW kind \in Range(Kinds),
           rows' = Appended(c, kind), UNCHANGED <<moment, purge, purged>>,
           \A r \in ToldOf(c) : Order(r.kind) < Order(kind)
    PROVE  /\ rows' \subseteq LogRows /\ IsFiniteSet(rows')
           /\ \A r \in Told' : r.at <= moment'
           /\ InOrder' /\ EndStays' /\ PurgeInv'
           /\ \A b \in Reads \ {c} : ToldOf(b)' = ToldOf(b)
           /\ ToldOf(c)' = ToldOf(c) \cup {[call |-> c, kind |-> kind, at |-> moment]}
<1> DEFINE n == [call |-> c, kind |-> kind, at |-> moment]
<1>1. n \in LogRows /\ n.call = c /\ n.kind = kind /\ n.at = moment /\ moment \in Nat
  BY DEF AuditIInv, AuditTypeOK, LogRows
<1>2. rows' = rows \cup {n} /\ Told' = Told \cup {n} /\ Told \subseteq LogRows
  BY DEF Appended, Told, AuditIInv, AuditTypeOK
<1> HIDE DEF n
<1>3. IsFiniteSet(rows')
  BY <1>2, FS_AddElement DEF AuditIInv
<1>4. \A r \in Told' : r.at <= moment'
  BY <1>1, <1>2 DEF AuditIInv
<1>5. \A r \in Told : r.call = c => Order(r.kind) < Order(kind) /\ r.kind # kind /\ r.at <= moment
  <2>1. \A k \in Range(Kinds) : Order(k) \in Nat
    BY Orders
  <2> QED BY <1>2, <2>1 DEF ToldOf, AuditIInv, LogRows
<1>6. InOrder'
  <2> SUFFICES ASSUME NEW r \in Told', NEW s \in Told', r.call = s.call
               PROVE  /\ Order(s.kind) < Order(r.kind) => s.at <= r.at
                      /\ s.kind = r.kind => s = r
    BY DEF InOrder
  <2>0. \A k \in Range(Kinds) : Order(k) \in Nat
    BY Orders
  <2>1. CASE r \in Told /\ s \in Told
    BY <2>1 DEF AuditIInv, InOrder
  <2>2. CASE r = n /\ s \in Told
    BY <1>1, <1>5, <2>2
  <2>3. CASE r \in Told /\ s = n
    <3>1. Order(r.kind) < Order(kind) /\ r.kind # kind /\ Order(r.kind) \in Nat /\ Order(kind) \in Nat
      BY <1>1, <1>2, <1>5, <2>0, <2>3 DEF LogRows
    <3> QED BY <1>1, <2>3, <3>1
  <2>4. CASE r = n /\ s = n
    BY <1>1, <2>4
  <2> QED BY <1>2, <2>1, <2>2, <2>3, <2>4
<1>7. EndStays'
  BY <1>1, <1>2, <1>5 DEF AuditIInv, EndStays, Told
<1>8. PurgeInv'
  <2> SUFFICES ASSUME purge # NoPurge PROVE OlderThan(purge.cutoff)' = OlderThan(purge.cutoff)
    BY DEF PurgeInv, AuditIInv
  <2>1. purge.cutoff \in Nat /\ purge.cutoff + Retention <= moment /\ Retention \in Nat
    BY RetentionAssumption DEF AuditIInv, AuditTypeOK, PurgeInv
  <2>2. ~(n.at < purge.cutoff)
    BY <1>1, <2>1
  <2> QED BY <1>2, <2>2 DEF OlderThan
<1>9. /\ \A b \in Reads \ {c} : ToldOf(b)' = ToldOf(b)
      /\ ToldOf(c)' = ToldOf(c) \cup {n}
  BY <1>1, <1>2 DEF ToldOf
<1> QED BY <1>1, <1>2, <1>3, <1>4, <1>6, <1>7, <1>8, <1>9 DEF n, AuditIInv, AuditTypeOK

\* The books at rest: the order of what they hold as well.
LEMMA SameRows ==
    ASSUME AuditIInv, UNCHANGED <<moment, rows, purge, purged>>
    PROVE  /\ IsFiniteSet(rows') /\ \A r \in Told' : r.at <= moment'
           /\ InOrder' /\ EndStays' /\ PurgeInv'
           /\ \A b \in Reads : ToldOf(b)' = ToldOf(b)
BY DEF AuditIInv, Told, ToldOf, InOrder, EndStays, PurgeInv, OlderThan

LEMMA AuditInvStep == AuditIInv /\ [AuditNext]_auditVars => AuditIInv'
<1> SUFFICES ASSUME AuditIInv, [AuditNext]_auditVars PROVE AuditIInv'
  OBVIOUS
<1>t. AuditTypeOK /\ \A c \in Reads : StoryInv(c)
  BY DEF AuditIInv
<1>1. ASSUME NEW c \in Reads, RecordsRotation(c) PROVE AuditIInv'
  <2>1. /\ story[c] = "idle" /\ story'[c] = "refreshed"
        /\ \A b \in Reads \ {c} : story'[b] = story[b]
        /\ UNCHANGED <<moment, due, purge, purged, missing>>
        /\ rows' = Appended(c, "token_rotation") /\ "token_rotation" \in Range(Kinds)
    BY <1>1, <1>t, Orders DEF RecordsRotation, AuditTypeOK
  <2>2. ToldOf(c) = {} /\ c \notin Range(due)
    BY <1>t, <2>1 DEF StoryInv
  <2>3. /\ rows' \subseteq LogRows /\ IsFiniteSet(rows') /\ \A r \in Told' : r.at <= moment'
        /\ InOrder' /\ EndStays' /\ PurgeInv'
        /\ \A b \in Reads \ {c} : ToldOf(b)' = ToldOf(b)
        /\ ToldOf(c)' = {[call |-> c, kind |-> "token_rotation", at |-> moment]}
    BY <2>1, <2>2, AppendedInOrder
  <2>4. ASSUME NEW b \in Reads PROVE StoryInv(b)'
    <3>1. CASE b = c
      BY <2>1, <2>2, <2>3, <3>1 DEF StoryInv
    <3>2. CASE b # c
      BY <1>t, <2>1, <2>3, <3>2 DEF StoryInv
    <3> QED BY <3>1, <3>2
  <2>5. AuditTypeOK'
    BY <1>1, <1>t, <2>3 DEF RecordsRotation, AuditTypeOK
  <2> QED BY <2>1, <2>3, <2>4, <2>5 DEF AuditIInv
<1>2. ASSUME NEW c \in Reads, NEW next \in {"running", "failed"}, ReadsVault(c, next)
      PROVE  AuditIInv'
  <2>1. /\ story[c] \in {"idle", "refreshed"} /\ story'[c] = next
        /\ \A b \in Reads \ {c} : story'[b] = story[b]
        /\ UNCHANGED <<moment, rows, purge, purged, missing>>
        /\ due' = Append(due, c) /\ due \in Seq(Reads)
    BY <1>2, <1>t DEF ReadsVault, AuditTypeOK
  <2>2. c \notin Range(due) /\ \A r \in ToldOf(c) : r.kind = "token_rotation"
    BY <1>t, <2>1 DEF StoryInv
  <2>3. due' \in Seq(Reads) /\ Range(due') = Range(due) \cup {c} /\ Once(due')
    BY <2>1, <2>2, DueAdded DEF AuditIInv
  <2>4. ASSUME NEW b \in Reads PROVE StoryInv(b)'
    <3>1. CASE b = c
      BY <2>1, <2>2, <2>3, <3>1, SameRows DEF StoryInv
    <3>2. CASE b # c
      BY <1>t, <2>1, <2>3, <3>2, SameRows DEF StoryInv
    <3> QED BY <3>1, <3>2
  <2>5. AuditTypeOK'
    BY <1>2, <1>t, <2>3 DEF ReadsVault, AuditTypeOK
  <2> QED BY <2>1, <2>3, <2>4, <2>5, SameRows DEF AuditIInv
<1>3. CASE RecordsRead
  <2>1. /\ UNCHANGED <<moment, story, purge, purged, missing>>
        /\ due' = Tail(due) /\ due \in Seq(Reads) /\ due # <<>>
        /\ rows' = Appended(Head(due), "vault_access") /\ "vault_access" \in Range(Kinds)
    BY <1>3, <1>t, Orders DEF RecordsRead, AuditTypeOK
  <2>a. PICK c \in Reads :
          /\ due' \in Seq(Reads) /\ c \in Range(due)
          /\ Range(due) = Range(due') \cup {c} /\ c \notin Range(due') /\ Once(due')
          /\ rows' = Appended(c, "vault_access")
    <3>1. /\ Tail(due) \in Seq(Reads) /\ Head(due) \in Reads /\ Head(due) \in Range(due)
          /\ Range(due) = Range(Tail(due)) \cup {Head(due)}
          /\ Head(due) \notin Range(Tail(due)) /\ Once(Tail(due))
      BY <2>1, DueTaken DEF AuditIInv
    <3> QED BY <2>1, <3>1
  <2>2. /\ due' \in Seq(Reads) /\ c \in Range(due)
        /\ Range(due) = Range(due') \cup {c} /\ c \notin Range(due') /\ Once(due')
    BY <2>a
  <2>3. \A r \in ToldOf(c) : r.kind = "token_rotation"
    BY <1>t, <2>2 DEF StoryInv
  <2>4. \A r \in ToldOf(c) : Order(r.kind) < Order("vault_access")
    BY <2>3, Orders
  <2>5. /\ rows' \subseteq LogRows /\ IsFiniteSet(rows') /\ \A r \in Told' : r.at <= moment'
        /\ InOrder' /\ EndStays' /\ PurgeInv'
        /\ \A b \in Reads \ {c} : ToldOf(b)' = ToldOf(b)
        /\ ToldOf(c)' = ToldOf(c) \cup {[call |-> c, kind |-> "vault_access", at |-> moment]}
    BY <2>1, <2>a, <2>4, AppendedInOrder
  <2>6. ASSUME NEW b \in Reads PROVE StoryInv(b)'
    <3>1. CASE b = c
      <4>1. story[c] \notin {"idle", "refreshed", "over"}
        BY <1>t, <2>2 DEF StoryInv
      <4>2. \A r \in ToldOf(c)' : r.kind # "approved"
        BY <2>3, <2>5
      <4>3. \E r \in ToldOf(c)' : r.kind = "vault_access"
        <5>1. [call |-> c, kind |-> "vault_access", at |-> moment] \in ToldOf(c)'
          BY <2>5
        <5> QED BY <5>1
      <4> QED BY <2>1, <2>2, <3>1, <4>1, <4>2, <4>3 DEF StoryInv
    <3>2. CASE b # c
      BY <1>t, <2>1, <2>2, <2>5, <3>2 DEF StoryInv
    <3> QED BY <3>1, <3>2
  <2>7. AuditTypeOK'
    BY <2>1, <1>t, <2>2, <2>5 DEF AuditTypeOK
  <2> QED BY <2>1, <2>2, <2>5, <2>6, <2>7 DEF AuditIInv
<1>4. CASE RecordsReadFails
  <2> DEFINE c == Head(due)
  <2>1. /\ UNCHANGED <<moment, rows, story, purge, purged>>
        /\ due' = Tail(due) /\ due \in Seq(Reads) /\ due # <<>>
        /\ missing' = missing \cup {c}
    BY <1>4, <1>t DEF RecordsReadFails, AuditTypeOK
  <2>2. /\ due' \in Seq(Reads) /\ c \in Reads
        /\ Range(due) = Range(due') \cup {c} /\ Once(due')
    BY <2>1, DueTaken DEF AuditIInv
  <2>3. ASSUME NEW b \in Reads PROVE StoryInv(b)'
    BY <1>t, <2>1, <2>2, SameRows DEF StoryInv
  <2>4. AuditTypeOK'
    BY <2>1, <1>t, <2>2 DEF AuditTypeOK
  <2> QED BY <2>1, <2>2, <2>3, <2>4, SameRows DEF AuditIInv
<1>5. ASSUME NEW c \in Reads, CallAnswered(c) PROVE AuditIInv'
  <2>1. /\ story[c] = "running" /\ story'[c] = "over" /\ c \notin Range(due)
        /\ \A b \in Reads \ {c} : story'[b] = story[b]
        /\ UNCHANGED <<moment, due, purge, purged, missing>>
        /\ rows' = Appended(c, "approved") /\ "approved" \in Range(Kinds)
    BY <1>5, <1>t, Orders DEF CallAnswered, AuditTypeOK
  <2>2. /\ \A r \in ToldOf(c) : r.kind # "approved" /\ r.kind \in Range(Kinds)
        /\ c \in missing \/ \E r \in ToldOf(c) : r.kind = "vault_access"
    BY <1>t, <2>1 DEF StoryInv, ToldOf, Told, AuditTypeOK, LogRows
  <2>3. \A r \in ToldOf(c) : Order(r.kind) < Order("approved")
    BY <2>2, Orders
  <2>4. /\ rows' \subseteq LogRows /\ IsFiniteSet(rows') /\ \A r \in Told' : r.at <= moment'
        /\ InOrder' /\ EndStays' /\ PurgeInv'
        /\ \A b \in Reads \ {c} : ToldOf(b)' = ToldOf(b)
        /\ ToldOf(c)' = ToldOf(c) \cup {[call |-> c, kind |-> "approved", at |-> moment]}
    BY <2>1, <2>3, AppendedInOrder
  <2>5. ASSUME NEW b \in Reads PROVE StoryInv(b)'
    <3>1. CASE b = c
      BY <2>1, <2>2, <2>4, <3>1 DEF StoryInv
    <3>2. CASE b # c
      BY <1>t, <2>1, <2>4, <3>2 DEF StoryInv
    <3> QED BY <3>1, <3>2
  <2>6. AuditTypeOK'
    BY <1>5, <1>t, <2>4 DEF CallAnswered, AuditTypeOK
  <2> QED BY <2>1, <2>4, <2>5, <2>6 DEF AuditIInv
<1>6. CASE LogCut
  <2>1. /\ due' = <<>> /\ missing' = missing \cup Range(due)
        /\ UNCHANGED <<moment, rows, purge, purged>>
        /\ \A c \in Reads : story'[c] = IF story[c] \in {"refreshed", "running"} THEN "cut" ELSE story[c]
    BY <1>6 DEF LogCut
  <2>2. Range(due') = {} /\ Once(due') /\ due' \in Seq(Reads)
    BY <2>1 DEF Range, Once
  <2>3. Range(due) \subseteq Reads
    <3>1. \A i \in DOMAIN due : due[i] \in Reads
      BY <1>t DEF AuditTypeOK
    <3> QED BY <3>1 DEF Range
  <2>4. ASSUME NEW b \in Reads PROVE StoryInv(b)'
    BY <1>t, <2>1, <2>2, SameRows DEF StoryInv
  <2>5. AuditTypeOK'
    BY <1>6, <1>t, <2>1, <2>2, <2>3 DEF AuditTypeOK, LogCut
  <2> QED BY <2>1, <2>2, <2>4, <2>5, SameRows DEF AuditIInv
<1>7. CASE PurgeCounts
  <2>1. /\ moment > Retention /\ UNCHANGED <<moment, rows, due, story, purged, missing>>
        /\ purge' = [cutoff |-> Cutoff, matching |-> Cardinality(OlderThan(Cutoff))]
    BY <1>7 DEF PurgeCounts
  <2>2. Cutoff \in 0 .. MaxMoment /\ Cutoff + Retention = moment
    BY <1>t, <2>1, RetentionAssumption DEF Cutoff, AuditTypeOK
  <2>3. Cardinality(OlderThan(Cutoff)) \in Nat
    <3>1. OlderThan(Cutoff) \subseteq rows
      BY DEF OlderThan
    <3> QED BY <3>1, FS_Subset, FS_CardinalityType DEF AuditIInv
  <2>4. AuditTypeOK'
    BY <1>t, <2>1, <2>2, <2>3 DEF AuditTypeOK
  <2>5. PurgeInv'
    <3>1. purge'.cutoff = Cutoff /\ purge'.matching = Cardinality(OlderThan(Cutoff))
      BY <2>1
    <3>2. {r \in rows' : r.at < purge'.cutoff} = {r \in rows : r.at < Cutoff}
      BY <2>1, <3>1
    <3>3. purge'.cutoff + Retention <= moment'
      BY <1>t, <2>1, <2>2, <3>1 DEF AuditTypeOK
    <3>4. purge'.matching = Cardinality({r \in rows' : r.at < purge'.cutoff})
      BY <3>1, <3>2 DEF OlderThan
    <3> QED BY <3>3, <3>4 DEF PurgeInv, OlderThan
  <2>6. \A b \in Reads : StoryInv(b)'
    BY <1>t, <2>1 DEF StoryInv, ToldOf, Told
  <2> QED BY <2>1, <2>4, <2>5, <2>6 DEF AuditIInv, Told, InOrder, EndStays
<1>8. CASE PurgePreviews
  BY <1>8, RetentionAssumption
     DEF PurgePreviews, AuditIInv, AuditTypeOK, Told, ToldOf, InOrder, EndStays, PurgeInv, StoryInv, NoPurge
<1>9. CASE PurgeDeletes
  <2> DEFINE old == OlderThan(purge.cutoff)
  <2>1. /\ rows' = rows \ old /\ purged' = purged \cup old /\ purge' = NoPurge
        /\ UNCHANGED <<moment, due, story, missing>> /\ old \subseteq rows
        /\ \A r \in rows : r \in old <=> r.at < purge.cutoff
    BY <1>9 DEF PurgeDeletes, OlderThan
  <2> HIDE DEF old
  <2>2. Told' = Told
    BY <2>1 DEF Told
  <2>3. EndStays'
    <3> SUFFICES ASSUME NEW s \in purged', NEW r \in rows', s.call = r.call
                 PROVE  Order(s.kind) < Order(r.kind)
      BY DEF EndStays
    <3>1. CASE s \in purged
      BY <2>1, <3>1 DEF AuditIInv, EndStays
    <3>2. CASE s \in old
      <4>1. s \in Told /\ r \in Told /\ s \in LogRows /\ r \in LogRows /\ s # r
        BY <1>t, <2>1, <3>2 DEF Told, AuditTypeOK
      <4>2. s.at < purge.cutoff /\ ~(r.at < purge.cutoff) /\ s.at \in Nat /\ r.at \in Nat
            /\ purge.cutoff \in Nat
        BY <1>t, <2>1, <3>2, <4>1 DEF LogRows, AuditTypeOK
      <4>3. ~(r.at <= s.at)
        BY <4>2
      <4>4. ~(Order(r.kind) < Order(s.kind)) /\ s.kind # r.kind
        BY <4>1, <4>3 DEF AuditIInv, InOrder
      <4>5. s.kind \in Range(Kinds) /\ r.kind \in Range(Kinds)
        BY <4>1 DEF LogRows
      <4> QED BY <4>4, <4>5, Orders
    <3> QED BY <2>1, <3>1, <3>2
  <2>4. IsFiniteSet(rows')
    BY <2>1, FS_Subset DEF AuditIInv
  <2>5. AuditTypeOK'
    BY <1>t, <2>1, RetentionAssumption DEF AuditTypeOK, NoPurge
  <2>6. \A b \in Reads : StoryInv(b)'
    BY <1>t, <2>1, <2>2 DEF StoryInv, ToldOf
  <2> QED BY <2>1, <2>2, <2>3, <2>4, <2>5, <2>6 DEF AuditIInv, InOrder, PurgeInv
<1>10. CASE MomentPasses
  <2>1. moment' = moment + 1 /\ moment < MaxMoment /\ UNCHANGED <<rows, due, story, purge, purged, missing>>
    BY <1>10 DEF MomentPasses
  <2>2. AuditTypeOK'
    BY <1>t, <2>1, RetentionAssumption DEF AuditTypeOK
  <2>3. \A r \in Told' : r.at <= moment'
    <3>1. \A r \in Told : r.at \in Nat /\ r.at <= moment
      BY <1>t DEF AuditIInv, Told, AuditTypeOK, LogRows
    <3> QED BY <1>t, <2>1, <3>1 DEF Told, AuditTypeOK
  <2>4. PurgeInv'
    <3>1. purge.cutoff \in Nat /\ moment \in Nat /\ Retention \in Nat
      BY <1>t, RetentionAssumption DEF AuditTypeOK
    <3> QED BY <2>1, <3>1 DEF PurgeInv, AuditIInv, OlderThan
  <2> QED BY <2>1, <2>2, <2>3, <2>4 DEF AuditIInv, Told, ToldOf, InOrder, EndStays, StoryInv
<1>11. CASE UNCHANGED auditVars
  <2>1. AuditTypeOK' /\ \A b \in Reads : StoryInv(b)'
    BY <1>11, <1>t, SameRows DEF auditVars, AuditTypeOK, StoryInv
  <2> QED BY <1>11, <2>1, SameRows DEF auditVars, AuditIInv
<1> QED BY <1>1, <1>2, <1>3, <1>4, <1>5, <1>6, <1>7, <1>8, <1>9, <1>10, <1>11 DEF AuditNext

\* What a call writes is written in order and once, and a purge knows its cutoff.
THEOREM AuditInductive == AuditSpec => []AuditIInv
BY AuditInvInit, AuditInvStep, PTL DEF AuditSpec

\* An answered call has its read of the vault behind it, unless that row's write
\* failed, and of a call that a purge cut into the end is left.
THEOREM ReadsTheorem == AuditSpec => []ReadsComeBeforeAnswers
<1>1. AuditIInv => ReadsComeBeforeAnswers
  <2> SUFFICES ASSUME AuditIInv, NEW r \in rows
               PROVE  /\ r.kind = "approved" =>
                           \/ r.call \in missing
                           \/ \E s \in rows \cup purged :
                                s.call = r.call /\ s.kind = "vault_access" /\ s.at <= r.at
                      /\ \A s \in purged : s.call = r.call => Order(s.kind) < Order(r.kind)
    BY DEF ReadsComeBeforeAnswers
  <2>1. r \in Told /\ r.call \in Reads /\ r \in ToldOf(r.call)
    BY DEF AuditIInv, AuditTypeOK, LogRows, Told, ToldOf
  <2>2. ASSUME r.kind = "approved", r.call \notin missing
        PROVE  \E s \in rows \cup purged :
                 s.call = r.call /\ s.kind = "vault_access" /\ s.at <= r.at
    <3>1. story[r.call] = "over"
      BY <2>1, <2>2 DEF AuditIInv, StoryInv
    <3>2. PICK s \in ToldOf(r.call) : s.kind = "vault_access"
      BY <2>1, <2>2, <3>1 DEF AuditIInv, StoryInv
    <3>3. s \in Told /\ s.call = r.call /\ Order(s.kind) < Order(r.kind)
      BY <2>2, <3>2, Orders DEF ToldOf
    <3> QED BY <2>1, <3>2, <3>3 DEF AuditIInv, InOrder, Told
  <2> QED BY <2>2 DEF AuditIInv, EndStays
<1> QED BY <1>1, AuditInductive, PTL

\* A purge deletes what is older than it was told to, and as much as it counted.
THEOREM PurgeTheorem == AuditSpec => PurgeSparesTheYoung
<1> DEFINE Spares == rows \ rows' # {} =>
             /\ \A r \in rows \ rows' : r.at + Retention < moment
             /\ Cardinality(rows \ rows') = purge.matching
<1>1. AuditIInv /\ [AuditNext]_auditVars => [Spares]_auditVars
  <2> SUFFICES ASSUME AuditIInv, AuditNext, rows \ rows' # {}
               PROVE  /\ \A r \in rows \ rows' : r.at + Retention < moment
                      /\ Cardinality(rows \ rows') = purge.matching
    BY DEF auditVars
  <2>1. PurgeDeletes
    BY DEF AuditNext, RecordsRotation, CallAnswered, ReadsVault, RecordsRead, RecordsReadFails, LogCut,
       PurgeCounts, PurgePreviews, MomentPasses, Appended
  <2>2. rows \ rows' = OlderThan(purge.cutoff) /\ purge # NoPurge
    BY <2>1 DEF PurgeDeletes, OlderThan
  <2>3. /\ purge.cutoff + Retention <= moment /\ purge.matching = Cardinality(OlderThan(purge.cutoff))
        /\ purge.cutoff \in Nat /\ moment \in Nat /\ Retention \in Nat
    BY <2>2, RetentionAssumption DEF AuditIInv, PurgeInv, AuditTypeOK
  <2>4. ASSUME NEW r \in OlderThan(purge.cutoff) PROVE r.at + Retention < moment
    <3>1. r.at \in Nat /\ r.at < purge.cutoff
      BY <2>4 DEF OlderThan, AuditIInv, AuditTypeOK, LogRows
    <3> QED BY <2>3, <3>1
  <2> QED BY <2>2, <2>3, <2>4
<1> QED BY <1>1, AuditInductive, PTL DEF AuditSpec, PurgeSparesTheYoung

-----------------------------------------------------------------------------
(***************************************************************************)
(* Proofs about Migrations, for any number of processes and any list of    *)
(* migrations.  No statement is ever undone, so what a process has behind  *)
(* it stays in the schema whatever the others do; a stamp is written by a  *)
(* process that has the whole version behind it.                           *)
(***************************************************************************)

USE LatestAssumption, StepsAssumption, AltersAssumption

\* A place of the loop, taken apart.
LEMMA PlaceParts ==
    ASSUME NEW x \in Places
    PROVE  /\ x[1] \in Versions
           /\ x[2] \in 1 .. Steps[x[1]] + 1
           /\ x = <<x[1], x[2]>>
           /\ Steps[x[1]] \in Nat \ {0}
  BY DEF Places, Versions

\* ... and put together.
LEMMA PlaceMade ==
    ASSUME NEW v \in Versions, NEW i \in 1 .. Steps[v] + 1
    PROVE  <<v, i>> \in Places
  BY DEF Places, Versions

LEMMA FirstPlace ==
    ASSUME NEW v \in Versions
    PROVE  <<v, 1>> \in Places
  <1>1. Steps[v] \in Nat \ {0}
    BY DEF Versions
  <1>2. 1 \in 1 .. Steps[v] + 1
    BY <1>1
  <1> QED
    BY <1>2, PlaceMade

LEMMA InitInv == Init => IInv
  <1> SUFFICES ASSUME Init PROVE IInv
    OBVIOUS
  <1>1. <<1, 1>> \in Places
    BY FirstPlace DEF Versions
  <1>2. TypeOK
    BY <1>1 DEF Init, TypeOK, Stages
  <1> QED
    BY <1>2 DEF Init, IInv, SchemaCoversVersion, ReadyIsComplete, DoneInv

\* Going on with version v keeps the invariant if all before v is behind.
LEMMA ResumeInv ==
    ASSUME IInv, NEW p \in Procs, NEW v \in 1 .. Latest + 1, Resume(p, v),
           \A w \in 1 .. v - 1 : Statements(w) \subseteq schema,
           schema' = schema
    PROVE  /\ stage' \in [Procs -> Stages]
           /\ at' \in [Procs -> Places]
           /\ ReadyIsComplete'
           /\ DoneInv'
  <1> USE DEF IInv, TypeOK
  <1>1. CASE v > Latest
    <2>1. v = Latest + 1 /\ stage' = [stage EXCEPT ![p] = "ready"] /\ at' = at
      BY <1>1 DEF Resume
    <2>2. \A w \in Versions : Statements(w) \subseteq schema
      BY <2>1 DEF Versions
    <2>3. stage' \in [Procs -> Stages]
      BY <2>1 DEF Stages
    <2>4. ReadyIsComplete'
      BY <2>1, <2>2 DEF ReadyIsComplete, Statements
    <2>5. DoneInv'
      BY <2>1 DEF DoneInv, Statements
    <2> QED
      BY <2>1, <2>3, <2>4, <2>5
  <1>2. CASE v \in Versions
    <2>1. stage' = [stage EXCEPT ![p] = "migrating"] /\ at' = [at EXCEPT ![p] = <<v, 1>>]
      BY <1>2 DEF Resume, Versions
    <2>2. <<v, 1>> \in Places
      BY <1>2, FirstPlace
    <2>3. stage' \in [Procs -> Stages] /\ at' \in [Procs -> Places]
      BY <2>1, <2>2 DEF Stages
    <2>4. ReadyIsComplete'
      BY <2>1 DEF ReadyIsComplete, Statements
    <2>5. DoneInv'
      <3> SUFFICES ASSUME NEW q \in Procs, stage'[q] = "migrating"
                   PROVE  /\ \A w \in 1 .. at'[q][1] - 1 : Statements(w) \subseteq schema
                          /\ \A i \in 1 .. at'[q][2] - 1 : <<at'[q][1], i>> \in schema
        BY DEF DoneInv, Statements
      <3>1. CASE q = p
        BY <2>1, <3>1
      <3>2. CASE q # p
        BY <2>1, <3>2 DEF DoneInv
      <3> QED
        BY <3>1, <3>2
    <2> QED
      BY <2>3, <2>4, <2>5
  <1> QED
    BY <1>1, <1>2 DEF Versions

LEMMA StartInv ==
    ASSUME IInv, NEW p \in Procs, Start(p)
    PROVE  IInv'
  <1>1. version + 1 \in 1 .. Latest + 1
    BY DEF IInv, TypeOK
  <1>2. \A w \in 1 .. (version + 1) - 1 : Statements(w) \subseteq schema
    BY DEF IInv, TypeOK, SchemaCoversVersion
  <1>3. Resume(p, version + 1) /\ UNCHANGED <<version, schema, begun>>
    BY DEF Start, dbVars
  <1>4. /\ stage' \in [Procs -> Stages]
        /\ at' \in [Procs -> Places]
        /\ ReadyIsComplete'
        /\ DoneInv'
    BY <1>1, <1>2, <1>3, ResumeInv
  <1> QED
    BY <1>3, <1>4 DEF IInv, TypeOK, SchemaCoversVersion, Statements

LEMMA StampInv ==
    ASSUME IInv, NEW p \in Procs, Stamp(p)
    PROVE  IInv'
  <1> DEFINE v == at[p][1]
  <1>1. at[p] \in Places /\ stage[p] = "migrating" /\ at[p][2] = Steps[v] + 1
    BY DEF IInv, TypeOK, Stamp
  <1>2. v \in Versions /\ Steps[v] \in Nat \ {0}
    BY <1>1, PlaceParts
  <1>3. version' = v /\ schema' = schema /\ begun' = begun /\ Resume(p, v + 1)
    BY DEF Stamp
  <1>4. Statements(v) \subseteq schema
    <2>1. \A i \in 1 .. Steps[v] : <<v, i>> \in schema
      BY <1>1, <1>2 DEF IInv, DoneInv
    <2> QED
      BY <2>1 DEF Statements
  <1>5. \A w \in 1 .. v : Statements(w) \subseteq schema
    <2> SUFFICES ASSUME NEW w \in 1 .. v PROVE Statements(w) \subseteq schema
      OBVIOUS
    <2>1. w = v \/ w \in 1 .. v - 1
      BY <1>2 DEF Versions
    <2>2. \A u \in 1 .. v - 1 : Statements(u) \subseteq schema
      BY <1>1 DEF IInv, DoneInv
    <2> QED
      BY <1>4, <2>1, <2>2
  <1>6. v + 1 \in 1 .. Latest + 1 /\ (v + 1) - 1 = v
    BY <1>2 DEF Versions
  <1>7. /\ stage' \in [Procs -> Stages]
        /\ at' \in [Procs -> Places]
        /\ ReadyIsComplete'
        /\ DoneInv'
    <2> HIDE DEF v
    <2> QED
      BY <1>3, <1>5, <1>6, ResumeInv
  <1>8. SchemaCoversVersion'
    BY <1>3, <1>5 DEF SchemaCoversVersion, Statements
  <1> QED
    BY <1>2, <1>3, <1>7, <1>8 DEF IInv, TypeOK, Versions

LEMMA ExecuteInv ==
    ASSUME IInv, NEW p \in Procs, Execute(p)
    PROVE  IInv'
  <1> DEFINE v == at[p][1]
             i == at[p][2]
  <1>1. /\ at[p] \in Places
        /\ stage[p] = "migrating"
        /\ i <= Steps[v]
        /\ schema' = schema \cup {at[p]}
        /\ at' = [at EXCEPT ![p] = <<v, i + 1>>]
        /\ version' = version
        /\ stage' = stage
        /\ begun' = IF i = 1 /\ begun[v] < 2 THEN [begun EXCEPT ![v] = @ + 1] ELSE begun
    BY DEF IInv, TypeOK, Execute
  <1>2. v \in Versions /\ i \in 1 .. Steps[v] /\ at[p] = <<v, i>> /\ Steps[v] \in Nat \ {0}
    BY <1>1, PlaceParts
  <1> HIDE DEF v, i
  <1>3. TypeOK'
    <2>1. schema' \subseteq UNION {Statements(w) : w \in Versions}
      BY <1>1, <1>2 DEF IInv, TypeOK, Statements
    <2>2. <<v, i + 1>> \in Places
      BY <1>2, PlaceMade
    <2>3. at' \in [Procs -> Places]
      BY <1>1, <2>2 DEF IInv, TypeOK
    <2>4. begun' \in [Versions -> 0 .. 2]
      BY <1>1, <1>2 DEF IInv, TypeOK
    <2> QED
      BY <1>1, <2>1, <2>3, <2>4 DEF IInv, TypeOK, Statements
  <1>4. SchemaCoversVersion' /\ ReadyIsComplete'
    BY <1>1 DEF IInv, SchemaCoversVersion, ReadyIsComplete, Statements
  <1>5. DoneInv'
    <2> SUFFICES ASSUME NEW q \in Procs, stage[q] = "migrating"
                 PROVE  /\ \A w \in 1 .. at'[q][1] - 1 : Statements(w) \subseteq schema'
                        /\ \A j \in 1 .. at'[q][2] - 1 : <<at'[q][1], j>> \in schema'
      BY <1>1 DEF DoneInv, Statements
    <2>1. CASE q # p
      BY <1>1, <2>1 DEF IInv, DoneInv
    <2>2. CASE q = p
      <3>1. at'[q][1] = v /\ at'[q][2] = i + 1
        BY <1>1, <2>2 DEF IInv, TypeOK
      <3>2. \A w \in 1 .. v - 1 : Statements(w) \subseteq schema
        BY <1>1 DEF IInv, DoneInv, v
      <3>3. \A j \in 1 .. i - 1 : <<v, j>> \in schema
        BY <1>1 DEF IInv, DoneInv, v, i
      <3>4. \A j \in 1 .. (i + 1) - 1 : <<v, j>> \in schema'
        <4> SUFFICES ASSUME NEW j \in 1 .. (i + 1) - 1 PROVE <<v, j>> \in schema'
          OBVIOUS
        <4>1. j = i \/ j \in 1 .. i - 1
          BY <1>2
        <4> QED
          BY <1>1, <1>2, <3>3, <4>1
      <3> QED
        BY <1>1, <3>1, <3>2, <3>4
    <2> QED
      BY <2>1, <2>2
  <1> QED
    BY <1>3, <1>4, <1>5 DEF IInv

\* A failed ALTER and a process that ends touch neither schema nor version.
LEMMA DuplicateColumnInv ==
    ASSUME IInv, NEW p \in Procs, DuplicateColumn(p)
    PROVE  IInv'
  <1>1. /\ at[p] \in Places
        /\ version' = version /\ schema' = schema /\ at' = at
        /\ stage' = [stage EXCEPT ![p] = "failed"]
    BY DEF IInv, TypeOK, DuplicateColumn
  <1>2. at[p][1] \in Versions
    BY <1>1, PlaceParts
  <1>3. begun' \in [Versions -> 0 .. 2]
    BY <1>2 DEF IInv, TypeOK, DuplicateColumn
  <1>4. TypeOK'
    BY <1>1, <1>3 DEF IInv, TypeOK, Stages, Statements
  <1>5. SchemaCoversVersion' /\ ReadyIsComplete' /\ DoneInv'
    BY <1>1 DEF IInv, TypeOK, SchemaCoversVersion, ReadyIsComplete, DoneInv, Statements
  <1> QED
    BY <1>4, <1>5 DEF IInv

LEMMA StopInv ==
    ASSUME IInv, NEW p \in Procs, Stop(p)
    PROVE  IInv'
  <1>1. /\ version' = version /\ schema' = schema /\ begun' = begun /\ at' = at
        /\ stage' = [stage EXCEPT ![p] = "down"]
    BY DEF Stop, dbVars
  <1>2. TypeOK'
    BY <1>1 DEF IInv, TypeOK, Stages, Statements
  <1>3. SchemaCoversVersion' /\ ReadyIsComplete' /\ DoneInv'
    BY <1>1 DEF IInv, TypeOK, SchemaCoversVersion, ReadyIsComplete, DoneInv, Statements
  <1> QED
    BY <1>2, <1>3 DEF IInv

\* The invariant above holds of every behaviour of runMigrations.
THEOREM MigrationsInductive == Spec => []IInv
  <1>1. Init => IInv
    BY InitInv
  <1>2. IInv /\ [Next]_vars => IInv'
    <2> SUFFICES ASSUME IInv, [Next]_vars PROVE IInv'
      OBVIOUS
    <2>1. CASE UNCHANGED vars
      BY <2>1 DEF vars, IInv, TypeOK, SchemaCoversVersion, ReadyIsComplete, DoneInv, Statements
    <2>2. CASE Next
      BY <2>2, StartInv, ExecuteInv, DuplicateColumnInv, StampInv, StopInv DEF Next
    <2> QED
      BY <2>1, <2>2
  <1> QED
    BY <1>1, <1>2, PTL DEF Spec

\* user_version never runs ahead of the schema, for any processes, any crashes
\* and any list of migrations.
THEOREM SchemaTheorem == Spec => []SchemaCoversVersion
  <1>1. IInv => SchemaCoversVersion
    BY DEF IInv
  <1> QED
    BY <1>1, MigrationsInductive, PTL

\* A process that has come through runMigrations works on the whole schema.
THEOREM ReadyTheorem == Spec => []ReadyIsComplete
  <1>1. IInv => ReadyIsComplete
    BY DEF IInv
  <1> QED
    BY <1>1, MigrationsInductive, PTL

-----------------------------------------------------------------------------
(***************************************************************************)
(* The database keeps its last commit and a backup of a database at rest   *)
(* is that commit, for any pages and any number of commits.                *)
(*                                                                         *)
(* Neither property is inductive: a restore relies on the backup it writes *)
(* and on being alone, a backup on what it has read so far.  FilesIInv     *)
(* says what a command that is still alone with the file knows about it.   *)
(***************************************************************************)

USE PagesAssumption

\* Commits are counted from the first start on, and a backup is of one of them.
CountInv ==
    /\ Len(commits) \in 1 .. MaxCommits
    /\ backup # NoBackup => backup.at \in 1 .. Len(commits)
    /\ command.kind = "backup" => command.at \in 1 .. Len(commits)

\* A backup that is still alone with a database at rest has copied its pages.
BackupInv ==
    command.kind = "backup" /\ command.calm =>
        /\ process = "down" /\ wal = Empty /\ image = "own"
        /\ command.at = Len(commits)
        /\ \A p \in Pages \ command.left : command.bytes[p] = main[p]

\* A restore has the database to itself until it says that it is done, and has
\* written the pages of the backup.
RestoreInv ==
    command.kind = "restore" =>
        /\ image = "mixed"
        /\ backup # NoBackup
        /\ command.bytes = backup.bytes
        /\ command.calm =>
             /\ process = "down" /\ wal = Empty /\ Len(commits) < MaxCommits
             /\ \A p \in Pages \ command.left : main[p] = command.bytes[p]

CommandInv == command.kind = "none" => ~command.calm

FilesIInv ==
    /\ FilesTypeOK
    /\ CountInv
    /\ CommandInv
    /\ BackupInv
    /\ RestoreInv
    /\ LastCommitStands
    /\ BackupIsLatest

-----------------------------------------------------------------------------
\* What a connection reads is an image.
LEMMA SeenImage ==
    ASSUME FilesTypeOK
    PROVE  Seen \in Images
BY DEF FilesTypeOK, Seen, Images

\* A database without a -wal file is what its file is.
LEMMA SeenAtRest ==
    ASSUME FilesTypeOK, wal = Empty
    PROVE  Seen = main
BY DEF FilesTypeOK, Seen, Images, Empty

\* Appending a commit: what was there stays, the new one is last.
LEMMA AppendCommit ==
    ASSUME FilesTypeOK, CountInv, NEW i \in Images, Len(commits) < MaxCommits
    PROVE  /\ Append(commits, i) \in Seq(Images)
           /\ Len(Append(commits, i)) = Len(commits) + 1
           /\ Append(commits, i)[Len(commits) + 1] = i
           /\ \A n \in 1 .. Len(commits) : Append(commits, i)[n] = commits[n]
BY DEF FilesTypeOK, CountInv

\* Any commit is an image.
LEMMA CommitImage ==
    ASSUME FilesTypeOK, NEW n \in 1 .. Len(commits)
    PROVE  commits[n] \in Images
BY DEF FilesTypeOK

LEMMA EmptyImage == Empty \in Images /\ Nothing = 0
BY DEF Empty, Images, Nothing

\* The invariant holds at first.
LEMMA FilesInvInit == FilesInit => FilesIInv
<1> SUFFICES ASSUME FilesInit PROVE FilesIInv
  OBVIOUS
<1> DEFINE one == [p \in Pages |-> 1]
<1>1. one \in Images /\ Len(commits) = 1 /\ commits[1] = one /\ commits \in Seq(Images)
  BY DEF FilesInit, Images
<1>2. FilesTypeOK
  BY <1>1, EmptyImage DEF FilesInit, FilesTypeOK, Idle, Commands
<1>3. Seen = main
  BY <1>2, SeenAtRest DEF FilesInit
<1> QED
  BY <1>1, <1>2, <1>3
  DEF FilesInit, FilesIInv, CountInv, CommandInv, BackupInv, RestoreInv,
      LastCommitStands, LastCommit, BackupIsLatest, Idle

\* The types are kept by every step.
LEMMA FilesTypeStep ==
    FilesTypeOK /\ CountInv /\ RestoreInv /\ [FilesNext]_fileVars => FilesTypeOK'
<1> SUFFICES ASSUME FilesTypeOK, CountInv, RestoreInv, [FilesNext]_fileVars PROVE FilesTypeOK'
  OBVIOUS
<1>a. Seen \in Images /\ Empty \in Images
  BY SeenImage, EmptyImage
<1>b. ASSUME Disturb PROVE command' \in Commands
  BY <1>b DEF Disturb, FilesTypeOK, Commands
<1>1. CASE HubOpens \/ HubCrashes
  BY <1>1, <1>b DEF HubOpens, HubCrashes, FilesTypeOK
<1>2. CASE HubCloses \/ CommandReads
  BY <1>2, <1>a, <1>b DEF HubCloses, CommandReads, Closes, FilesTypeOK
<1>3. ASSUME NEW ps \in SUBSET Pages, HubCommits(ps) PROVE FilesTypeOK'
  <2> DEFINE after == [p \in Pages |-> IF p \in ps THEN Len(commits) + 1 ELSE Seen[p]]
  <2>a. after \in Images
    BY <1>3, <1>a DEF HubCommits, Writes, Images, CountInv
  <2>b. [p \in Pages |-> IF p \in ps THEN Len(commits) + 1 ELSE wal[p]] \in Images
    BY <1>3 DEF HubCommits, Writes, Images, FilesTypeOK, CountInv
  <2>1. after \in Images /\ wal' \in Images
    BY <1>3, <2>a, <2>b DEF HubCommits, Writes
  <2>2. commits' = Append(commits, after)
    BY <1>3 DEF HubCommits, Writes
  <2>3. commits' \in Seq(Images)
    BY <2>1, <2>2, <1>3, AppendCommit DEF HubCommits, Writes
  <2> QED BY <1>3, <2>1, <2>3 DEF HubCommits, FilesTypeOK
<1>4. ASSUME NEW p \in Pages, Checkpoints(p) PROVE FilesTypeOK'
  BY <1>4 DEF Checkpoints, FilesTypeOK, Images
<1>5. CASE LogStartsOver
  BY <1>5, <1>a DEF LogStartsOver, FilesTypeOK
<1>6. ASSUME NEW ps \in SUBSET Pages, CommandWrites(ps) PROVE FilesTypeOK'
  <2> DEFINE after == [p \in Pages |-> IF p \in ps THEN Len(commits) + 1 ELSE Seen[p]]
  <2>1. after \in Images
    BY <1>6, <1>a DEF CommandWrites, Images, CountInv
  <2>b. [p \in Pages |-> IF p \in ps THEN Len(commits) + 1 ELSE wal[p]] \in Images
    BY <1>6 DEF CommandWrites, Images, FilesTypeOK, CountInv
  <2>2. commits' = Append(commits, after)
    BY <1>6 DEF CommandWrites
  <2>3. commits' \in Seq(Images)
    BY <2>1, <2>2, <1>6, AppendCommit DEF CommandWrites
  <2>4. main' \in Images /\ wal' \in Images
    BY <1>6, <1>a, <2>1, <2>b DEF CommandWrites, FilesTypeOK
  <2> QED BY <1>6, <1>b, <2>3, <2>4 DEF CommandWrites, FilesTypeOK
<1>7. CASE BackupBegins
  BY <1>7, <1>a DEF BackupBegins, FilesTypeOK, Commands, CountInv
<1>8. ASSUME NEW p \in Pages, BackupReads(p) PROVE FilesTypeOK'
  BY <1>8 DEF BackupReads, FilesTypeOK, Commands, Images
<1>9. CASE RestoreBegins
  BY <1>9, <1>a DEF RestoreBegins, FilesTypeOK, Commands, Backups
<1>10. ASSUME NEW p \in Pages, RestoreWrites(p) PROVE FilesTypeOK'
  BY <1>10 DEF RestoreWrites, FilesTypeOK, Commands, Images
<1>11. CASE CommandDies
  BY <1>11, <1>a DEF CommandDies, FilesTypeOK, Idle, Commands
<1>12. CASE BackupWrites
  BY <1>12, <1>a DEF BackupWrites, FilesTypeOK, CountInv, Idle, Commands, Backups
<1>13. CASE RestoreEnds
  <2>1. command' \in Commands /\ image' \in {"own", "mixed"}
    BY <1>13, <1>a DEF RestoreEnds, Idle, Commands, FilesTypeOK
  <2>2. CASE command.calm /\ backup.calm
    <3>1. backup.at \in 1 .. Len(commits) /\ Len(commits) < MaxCommits
      BY <1>13, <2>2 DEF RestoreEnds, RestoreInv, CountInv
    <3>2. commits[backup.at] \in Images
      BY <3>1, CommitImage
    <3>3. commits' \in Seq(Images)
      BY <1>13, <2>2, <3>1, <3>2, AppendCommit DEF RestoreEnds
    <3> QED BY <1>13, <2>1, <3>3 DEF RestoreEnds, FilesTypeOK
  <2> QED BY <1>13, <2>1, <2>2 DEF RestoreEnds, FilesTypeOK
<1>14. CASE UNCHANGED fileVars
  BY <1>14 DEF fileVars, FilesTypeOK
<1> QED
  BY <1>1, <1>2, <1>3, <1>4, <1>5, <1>6, <1>7, <1>8, <1>9, <1>10, <1>11, <1>12, <1>13,
     <1>14 DEF FilesNext

\* A step that disturbs a running command leaves the rest of its record.
LEMMA Disturbed ==
    ASSUME FilesTypeOK, Disturb
    PROVE  /\ command'.kind = command.kind /\ command'.left = command.left
           /\ command'.bytes = command.bytes /\ command'.at = command.at
           /\ ~command'.calm
BY DEF FilesTypeOK, Disturb, Commands

\* A longer list of commits still has the one a backup or a command is of.
LEMMA LongerList ==
    ASSUME FilesTypeOK, CountInv, NEW i \in Images, Len(commits) < MaxCommits,
           commits' = Append(commits, i), UNCHANGED backup,
           command'.kind = "backup" => command.kind = "backup" /\ command'.at = command.at
    PROVE  /\ CountInv'
           /\ LastCommit' = i
           /\ BackupIsLatest => BackupIsLatest'
<1>1. Len(commits') = Len(commits) + 1 /\ commits'[Len(commits) + 1] = i
      /\ \A n \in 1 .. Len(commits) : commits'[n] = commits[n]
  BY AppendCommit
<1>2. CountInv'
  BY <1>1 DEF CountInv
<1>3. LastCommit' = i
  BY <1>1 DEF LastCommit
<1> QED
  BY <1>1, <1>2, <1>3 DEF CountInv, BackupIsLatest

\* Every step keeps the rest.
LEMMA FilesInvStep == FilesIInv /\ [FilesNext]_fileVars => FilesIInv'
<1> SUFFICES ASSUME FilesIInv, [FilesNext]_fileVars PROVE FilesIInv'
  OBVIOUS
<1> USE DEF FilesIInv
<1>0. FilesTypeOK'
  BY FilesTypeStep
<1>a. Seen \in Images /\ Nothing = 0
  BY SeenImage, EmptyImage
<1>1. CASE HubOpens \/ HubCrashes
  <2>1. Seen' = Seen /\ LastCommit' = LastCommit
    BY <1>1 DEF HubOpens, HubCrashes, Seen, LastCommit
  <2> QED
    BY <1>0, <1>1, <2>1, Disturbed
    DEF HubOpens, HubCrashes, CountInv, CommandInv, BackupInv, RestoreInv,
        LastCommitStands, BackupIsLatest
<1>2. CASE HubCloses \/ CommandReads
  <2>1. wal' = Empty /\ main' = Seen
    BY <1>2 DEF HubCloses, CommandReads, Closes
  <2>2. Seen' = Seen
    BY <1>a, <2>1 DEF Seen, Images, Empty
  <2>3. LastCommit' = LastCommit
    BY <1>2 DEF HubCloses, CommandReads, LastCommit
  <2> QED
    BY <1>0, <1>2, <2>2, <2>3, Disturbed
    DEF HubCloses, CommandReads, CountInv, CommandInv, BackupInv, RestoreInv,
        LastCommitStands, BackupIsLatest
<1>3. ASSUME NEW ps \in SUBSET Pages, HubCommits(ps) PROVE FilesIInv'
  <2> DEFINE after == [p \in Pages |-> IF p \in ps THEN Len(commits) + 1 ELSE Seen[p]]
  <2>1. after \in Images
    BY <1>3, <1>a DEF HubCommits, Writes, Images, FilesTypeOK, CountInv
  <2>2. commits' = Append(commits, after) /\ Len(commits) < MaxCommits
    BY <1>3 DEF HubCommits, Writes
  <2>3. CountInv' /\ LastCommit' = after /\ BackupIsLatest'
    BY <1>3, <2>1, <2>2, LongerList DEF HubCommits
  <2>4. Seen' = after
    <3>1. wal' = [p \in Pages |-> IF p \in ps THEN Len(commits) + 1 ELSE wal[p]] /\ main' = main
      BY <1>3 DEF HubCommits, Writes
    <3>2. Len(commits) + 1 # Nothing
      BY <1>a DEF CountInv
    <3> QED BY <3>1, <3>2 DEF Seen
  <2>5. process = "up" /\ process' = "up" /\ command' = command
    BY <1>3 DEF HubCommits
  <2> QED
    BY <1>0, <1>3, <2>3, <2>4, <2>5
    DEF HubCommits, CommandInv, BackupInv, RestoreInv, LastCommitStands
<1>4. ASSUME NEW p \in Pages, Checkpoints(p) PROVE FilesIInv'
  <2>1. Seen' = Seen /\ LastCommit' = LastCommit
    BY <1>4 DEF Checkpoints, Seen, LastCommit, FilesTypeOK, Images
  <2> QED
    BY <1>0, <1>4, <2>1
    DEF Checkpoints, CountInv, CommandInv, BackupInv, RestoreInv, LastCommitStands,
        BackupIsLatest
<1>5. CASE LogStartsOver
  <2>1. Seen' = main
    BY <1>5, <1>a DEF LogStartsOver, Seen, Empty, FilesTypeOK, Images
  <2>2. LastCommit' = LastCommit
    BY <1>5 DEF LogStartsOver, LastCommit
  <2> QED
    BY <1>0, <1>5, <2>1, <2>2
    DEF LogStartsOver, CountInv, CommandInv, BackupInv, RestoreInv, LastCommitStands,
        BackupIsLatest
<1>6. ASSUME NEW ps \in SUBSET Pages, CommandWrites(ps) PROVE FilesIInv'
  <2> DEFINE after == [p \in Pages |-> IF p \in ps THEN Len(commits) + 1 ELSE Seen[p]]
  <2>1. after \in Images
    BY <1>6, <1>a DEF CommandWrites, Images, FilesTypeOK, CountInv
  <2>2. commits' = Append(commits, after) /\ Len(commits) < MaxCommits
    BY <1>6 DEF CommandWrites
  <2>a. /\ command'.kind = command.kind /\ command'.at = command.at
        /\ command'.bytes = command.bytes /\ ~command'.calm
    BY <1>6, Disturbed DEF CommandWrites
  <2>3. CountInv' /\ LastCommit' = after /\ BackupIsLatest'
    BY <1>6, <2>1, <2>2, <2>a, LongerList DEF CommandWrites
  <2>4. Seen' = after
    <3>2. Len(commits) + 1 # Nothing
      BY <1>a DEF CountInv
    <3>3. CASE process = "up"
      BY <1>6, <3>2, <3>3 DEF CommandWrites, Seen
    <3>4. CASE process # "up"
      <4>1. main' = after /\ wal' = Empty
        BY <1>6, <3>4 DEF CommandWrites
      <4> QED BY <4>1 DEF Seen, Empty
    <3> QED BY <3>3, <3>4
  <2> QED
    BY <1>0, <1>6, <2>3, <2>4, <2>a
    DEF CommandWrites, CommandInv, BackupInv, RestoreInv, LastCommitStands
\* A backup that begins has read nothing yet.
<1>7. CASE BackupBegins
  <2>1. Seen' = Seen /\ LastCommit' = LastCommit
    BY <1>7 DEF BackupBegins, Seen, LastCommit
  <2>2. /\ command'.kind = "backup" /\ command'.left = Pages /\ command'.at = Len(commits)
        /\ command'.calm = (process = "down" /\ wal = Empty /\ image = "own")
        /\ UNCHANGED <<process, main, wal, commits, backup, image>>
    BY <1>7 DEF BackupBegins
  <2>3. BackupInv'
    BY <2>2 DEF BackupInv
  <2>4. CountInv' /\ BackupIsLatest'
    BY <2>2 DEF CountInv, BackupIsLatest
  <2> QED
    BY <1>0, <2>1, <2>2, <2>3, <2>4 DEF CommandInv, RestoreInv, LastCommitStands
<1>8. ASSUME NEW p \in Pages, BackupReads(p) PROVE FilesIInv'
  <2>1. Seen' = Seen /\ LastCommit' = LastCommit
    BY <1>8 DEF BackupReads, Seen, LastCommit
  <2>2. /\ command'.kind = "backup" /\ command'.calm = command.calm
        /\ command'.at = command.at /\ command'.left = command.left \ {p}
        /\ command'.bytes = [command.bytes EXCEPT ![p] = main[p]]
        /\ command.bytes \in Images
    BY <1>8 DEF BackupReads, FilesTypeOK, Commands
  <2>3. BackupInv'
    BY <1>8, <2>2 DEF BackupReads, BackupInv, Images
  <2> QED
    BY <1>0, <1>8, <2>1, <2>2, <2>3
    DEF BackupReads, CountInv, CommandInv, RestoreInv, LastCommitStands, BackupIsLatest
\* Still alone, it has read the file, which is the last commit.
<1>9. CASE BackupWrites
  <2>1. Seen' = Seen /\ LastCommit' = LastCommit
    BY <1>9 DEF BackupWrites, Seen, LastCommit
  <2>2. BackupIsLatest'
    <3> SUFFICES ASSUME command.calm
                 PROVE  command.bytes = commits[command.at]
      BY <1>9 DEF BackupWrites, BackupIsLatest
    <3>1. main = LastCommit
      BY <1>9, SeenAtRest DEF BackupWrites, BackupInv, LastCommitStands
    <3>2. command.bytes = main
      <4>1. command.bytes \in Images /\ main \in Images
        BY DEF FilesTypeOK, Commands
      <4>2. \A p \in Pages : command.bytes[p] = main[p]
        BY <1>9 DEF BackupWrites, BackupInv
      <4> QED BY <4>1, <4>2 DEF Images
    <3> QED BY <1>9, <3>1, <3>2 DEF BackupWrites, BackupInv, LastCommit
  <2> QED
    BY <1>0, <1>9, <2>1, <2>2
    DEF BackupWrites, Idle, CountInv, CommandInv, BackupInv, RestoreInv, LastCommitStands
<1>10. CASE RestoreBegins
  <2>1. CountInv' /\ BackupIsLatest'
    BY <1>10 DEF RestoreBegins, CountInv, BackupIsLatest
  <2> QED
    BY <1>0, <1>10, <2>1
    DEF RestoreBegins, CommandInv, BackupInv, RestoreInv, LastCommitStands
<1>11. ASSUME NEW p \in Pages, RestoreWrites(p) PROVE FilesIInv'
  <2>1. /\ command'.kind = "restore" /\ command'.calm = command.calm
        /\ command'.left = command.left \ {p} /\ command'.bytes = command.bytes
        /\ main \in Images
    BY <1>11 DEF RestoreWrites, FilesTypeOK, Commands
  <2>2. RestoreInv'
    BY <1>11, <2>1 DEF RestoreWrites, RestoreInv, Images
  <2> QED
    BY <1>0, <1>11, <2>1, <2>2
    DEF RestoreWrites, CountInv, CommandInv, BackupInv, RestoreInv, LastCommitStands,
        BackupIsLatest
\* Still alone, it has put back the commit that was backed up.
<1>12. CASE RestoreEnds
  <2>a. command' = Idle /\ UNCHANGED <<process, main, wal, backup>> /\ Seen' = Seen
    BY <1>12 DEF RestoreEnds, Seen
  <2>1. CASE command.calm /\ backup.calm
    <3>1. backup.at \in 1 .. Len(commits) /\ Len(commits) < MaxCommits
      BY <1>12, <2>1 DEF RestoreEnds, RestoreInv, CountInv
    <3>2. commits[backup.at] \in Images
      BY <3>1, CommitImage
    <3>3. CountInv' /\ LastCommit' = commits[backup.at] /\ BackupIsLatest'
      BY <1>12, <2>1, <2>a, <3>1, <3>2, LongerList DEF RestoreEnds, Idle
    <3>4. main = command.bytes
      <4>1. command.bytes \in Images /\ main \in Images
        BY DEF FilesTypeOK, Commands
      <4>2. \A p \in Pages : command.bytes[p] = main[p]
        BY <1>12, <2>1 DEF RestoreEnds, RestoreInv
      <4> QED BY <4>1, <4>2 DEF Images
    <3>5. Seen = commits[backup.at]
      BY <1>12, <2>1, <3>4, SeenAtRest DEF RestoreEnds, RestoreInv, BackupIsLatest
    <3> QED
      BY <1>0, <2>a, <3>3, <3>5
      DEF Idle, CommandInv, BackupInv, RestoreInv, LastCommitStands
  <2>2. CASE ~(command.calm /\ backup.calm)
    <3>1. UNCHANGED <<image, commits>> /\ LastCommit' = LastCommit
      BY <1>12, <2>2 DEF RestoreEnds, LastCommit
    <3> QED
      BY <1>0, <2>a, <3>1
      DEF Idle, CountInv, CommandInv, BackupInv, RestoreInv, LastCommitStands, BackupIsLatest
  <2> QED BY <2>1, <2>2
<1>13. CASE CommandDies \/ UNCHANGED fileVars
  <2>1. Seen' = Seen /\ LastCommit' = LastCommit
    BY <1>13 DEF CommandDies, fileVars, Seen, LastCommit
  <2> QED
    BY <1>0, <1>13, <2>1
    DEF CommandDies, fileVars, Idle, CountInv, CommandInv, BackupInv, RestoreInv,
        LastCommitStands, BackupIsLatest
<1> QED
  BY <1>1, <1>2, <1>3, <1>4, <1>5, <1>6, <1>7, <1>8, <1>9, <1>10, <1>11, <1>12, <1>13
  DEF FilesNext

-----------------------------------------------------------------------------
\* Types, counts and what a command that is alone knows of the file hold of
\* every behaviour of the hub, its subcommands, backup and restore.
THEOREM FilesInductive == FilesSpec => []FilesIInv
BY FilesInvInit, FilesInvStep, PTL DEF FilesSpec

\* The next connection sees the last commit, however the hub ended.
THEOREM CommitTheorem == FilesSpec => []LastCommitStands
<1>1. FilesIInv => LastCommitStands
  BY DEF FilesIInv
<1> QED BY <1>1, FilesInductive, PTL

\* A backup of a hub that was stopped, and stayed so, is its last commit.
THEOREM BackupTheorem == FilesSpec => []BackupIsLatest
<1>1. FilesIInv => BackupIsLatest
  BY DEF FilesIInv
<1> QED BY <1>1, FilesInductive, PTL
=============================================================================
