------------------------------ MODULE GrantStore ------------------------------
(***************************************************************************)
(* The hub's `grants` table (hub-core/src/grant-store.ts): who may call    *)
(* which tool, of which plugin, for which origin, and until when.          *)
(*                                                                         *)
(* Rows are never deleted.  `ttl` is expires_at - Date.now() floored at 0, *)
(* so the code's `expires_at > now` is ttl > 0, and one Tick of the clock  *)
(* takes one unit off every row.                                           *)
(***************************************************************************)
EXTENDS Naturals

CONSTANTS
    GrantIds,   \* the uuids randomUUID() may return
    Tools,      \* tool names
    Plugins,    \* plugin names
    Agents,     \* agent_id of an AI agent
    Peers,      \* verify_key of a peer hub, the origin of a federated call
    Local,      \* delegated_by = NULL: the origin of this hub's own calls
    GrantTTL    \* TOOL_GRANT_TTL_MS, in clock units

ASSUME GrantTTLAssumption == GrantTTL \in Nat \ {0}
ASSUME LocalAssumption == Local \notin Peers

VARIABLE grants  \* the table: a function from the ids in it to their rows

Origins == Peers \cup {Local}

\* The match key of findActive.
Keys == [tool : Tools, plugin : Plugins, agent : Agents, delegated_by : Origins]

Rows == [key : Keys, ttl : 0 .. GrantTTL, revoked : BOOLEAN]

GrantStoreTypeOK ==
    /\ DOMAIN grants \subseteq GrantIds
    /\ grants \in [DOMAIN grants -> Rows]

GrantStoreInit == grants = [g \in {} |-> 0]

-----------------------------------------------------------------------------

Active(g) == ~grants[g].revoked /\ grants[g].ttl > 0

\* (Wrong on purpose: a match key without the plugin.)
ActiveForTool(k) ==
    {g \in DOMAIN grants : [grants[g].key EXCEPT !.plugin = k.plugin] = k /\ Active(g)}

\* (Wrong on purpose: a match that forgets revoked and expires_at.)
AnyFor(k) == {g \in DOMAIN grants : grants[g].key = k}

\* (Wrong on purpose: a match key without delegated_by.)
ActiveForAnyOrigin(k) ==
    {g \in DOMAIN grants :
        [grants[g].key EXCEPT !.delegated_by = k.delegated_by] = k /\ Active(g)}

ActiveFor(k) == {g \in DOMAIN grants : grants[g].key = k /\ Active(g)}

\* findActive: the newest active row of the key.  Every row of a key gets the
\* same lifetime, so the newest is one with the most of it left.
FindActive(k) ==
    {g \in ActiveFor(k) : \A h \in ActiveFor(k) : grants[h].ttl <= grants[g].ttl}

\* create: a fresh uuid, never an id already in the table.
CreateGrant(g, k) ==
    /\ g \in GrantIds \ DOMAIN grants
    /\ grants' = [h \in DOMAIN grants \cup {g} |->
                    IF h = g THEN [key |-> k, ttl |-> GrantTTL, revoked |-> FALSE]
                             ELSE grants[h]]

\* revoke: an UPDATE with no condition on `revoked`, so it may be repeated.
RevokeRow(g) ==
    /\ g \in DOMAIN grants
    /\ grants' = [grants EXCEPT ![g].revoked = TRUE]

AgeGrants ==
    grants' = [g \in DOMAIN grants |->
                 [grants[g] EXCEPT !.ttl = IF @ = 0 THEN 0 ELSE @ - 1]]
=============================================================================
