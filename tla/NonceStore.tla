------------------------------ MODULE NonceStore ------------------------------
(***************************************************************************)
(* The `federation_nonces` table (hub-core/src/federation/nonces.ts): the  *)
(* request ids of accepted federated calls, swept lazily.                  *)
(***************************************************************************)
EXTENDS Naturals

CONSTANTS
    RequestIds,  \* the request_id of a federated call
    NonceTTL     \* NONCE_TTL_MS, in clock units

ASSUME NonceTTLAssumption == NonceTTL \in Nat

VARIABLE seen    \* [RequestIds -> Nat]: the age of the row, now - seen_at

\* No row, or a row old enough for the next record() to sweep.
Unseen == NonceTTL + 1

NonceTypeOK == seen \in [RequestIds -> 0 .. Unseen]

NonceInit == seen = [r \in RequestIds |-> Unseen]

\* (Wrong on purpose: a window that covers the skew on one side only.)
SeenWithinSkew(r) == seen[r] < NonceTTL \div 2

\* isSeenRecently: seen_at > now - NONCE_TTL_MS.
SeenRecently(r) == seen[r] < NonceTTL

\* record: rows with seen_at < now - NONCE_TTL_MS are deleted, then INSERT OR
\* IGNORE.  A row of exactly the window's age is not deleted, so it stays.
RecordNonce(r) == seen' = [seen EXCEPT ![r] = IF @ = Unseen THEN 0 ELSE @]

AgeNonces == seen' = [r \in RequestIds |-> IF seen[r] = Unseen THEN Unseen ELSE seen[r] + 1]
=============================================================================
