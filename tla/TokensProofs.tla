----------------------------- MODULE TokensProofs -----------------------------
(***************************************************************************)
(* Proofs about Tokens, for any number of calls, flows, reloads and        *)
(* refresh tokens and for both kinds of providers.                         *)
(*                                                                         *)
(* VaultStaysUsable speaks of moments at which nobody waits.  TokensIInv   *)
(* says what holds in between: with a provider that keeps its tokens all   *)
(* that was read stays accepted; with one that rotates them, every token   *)
(* that is under way is in one place only (Alone), so that a rotation,     *)
(* which ends the one that was sent, ends none of them, and a row that is  *)
(* no longer accepted has its successor on the way (Replaced).             *)
(*                                                                         *)
(* The last part takes the tokens together with the two hubs, as MCPeers   *)
(* does.                                                                   *)
(***************************************************************************)
EXTENDS MCPeers, FederationProofs, HubPairProofs, TLAPS

USE PoliciesAssumption, RefreshesAssumption

\* Tokens under way are accepted.
Accepted ==
    /\ \A u \in Users : answer[u] \in Refreshes => answer[u] \in valid
    /\ \A x \in Redirects : exchange[x] \in Refreshes => exchange[x] \in valid

\* An answer waits only for a call that is refreshing.
Awaited == \A u \in Users : user[u] # "refreshing" => answer[u] = NoRefresh

Kept ==
    policy = "keep" =>
        /\ row # NoToken => row.refresh \in valid \cup {NoRefresh}
        /\ \A u \in Users : answer[u] \in Refreshes => answer[u] = sent[u]

\* Who else could hold r: not the row, and nobody has sent it.
Fresh(r) == (row # NoToken => row.refresh # r) /\ \A u \in Users : sent[u] # r

Alone ==
    policy = "rotate" =>
        /\ \A u \in Users : answer[u] \in Refreshes =>
             /\ Fresh(answer[u])
             /\ \A v \in Users : v # u => answer[v] # answer[u]
             /\ \A x \in Redirects : exchange[x] # answer[u]
        /\ \A x \in Redirects : exchange[x] \in Refreshes =>
             Fresh(exchange[x]) /\ \A y \in Redirects : y # x => exchange[y] # exchange[x]

Rotated(u) == user[u] = "refreshing" /\ answer[u] \in Refreshes /\ answer[u] # sent[u]

Replaced ==
    row # NoToken /\ row.refresh \notin valid \cup {NoRefresh} =>
        lost \/ \E u \in Users : Rotated(u) /\ sent[u] = row.refresh

TokensIInv == TokensTypeOK /\ Accepted /\ Awaited /\ Kept /\ Alone /\ Replaced

-----------------------------------------------------------------------------

LEMMA TokensInvInit == TokensInit => TokensIInv
BY DEF TokensInit, TokensIInv, TokensTypeOK, Accepted, Awaited, Kept, Alone, Replaced

\* What the browser and the flow do besides: listeners, codes, states of flows.
LEMMA CleanupTyped ==
    ASSUME TokensTypeOK, NEW f \in Flows, Cleanup(f)
    PROVE  listening' \subseteq Flows /\ flow' \in [Flows -> {"none", "starting", "pending", "gone"}]
BY DEF TokensTypeOK, Cleanup

\* A step that touches no token keeps everything but, perhaps, the types.
LEMMA TokensRest ==
    ASSUME TokensIInv, TokensTypeOK', UNCHANGED <<policy, row, sent, answer, valid, lost>>,
           \A u \in Users : user'[u] # "refreshing" => answer[u] = NoRefresh,
           \A u \in Users : Rotated(u) => user'[u] = "refreshing",
           \A x \in Redirects : exchange'[x] \in Refreshes => exchange'[x] = exchange[x]
    PROVE  TokensIInv'
<1>1. Accepted' /\ Awaited' /\ Kept'
  BY DEF TokensIInv, TokensTypeOK, Accepted, Awaited, Kept
<1>2. Alone'
  <2> SUFFICES ASSUME policy = "rotate" PROVE Alone'
    BY DEF Alone
  <2>1. \A r : Fresh(r) => Fresh(r)'
    BY DEF Fresh
  <2>2. ASSUME NEW u \in Users, answer[u] \in Refreshes
        PROVE  /\ Fresh(answer[u])
               /\ \A v \in Users : v # u => answer[v] # answer[u]
               /\ \A x \in Redirects : exchange'[x] # answer[u]
    BY <2>2 DEF TokensIInv, Alone
  <2>3. ASSUME NEW x \in Redirects, exchange'[x] \in Refreshes
        PROVE  Fresh(exchange'[x]) /\ \A y \in Redirects : y # x => exchange'[y] # exchange'[x]
    BY <2>3 DEF TokensIInv, Alone
  <2> QED BY <2>1, <2>2, <2>3 DEF Alone
<1>3. Replaced'
  BY DEF TokensIInv, Replaced, Rotated
<1> QED BY <1>1, <1>2, <1>3 DEF TokensIInv

LEMMA RedeemStep ==
    ASSUME TokensIInv, UNCHANGED policy, NEW x \in Redirects, NEW r \in Refreshes, Redeem(x, r)
    PROVE  TokensIInv'
<1>1. /\ r \notin valid /\ valid' = valid \cup {r}
      /\ \A u \in Users : sent[u] # r /\ answer[u] # r
      /\ \A y \in Redirects : exchange[y] # r
      /\ row # NoToken => row.refresh # r
      /\ exchange'[x] = r /\ \A y \in Redirects \ {x} : exchange'[y] = exchange[y]
      /\ UNCHANGED <<policy, row, lost, user, sent, answer>>
  BY DEF Redeem, Unissued, userVars, TokensIInv, TokensTypeOK
<1>2. TokensTypeOK'
  BY DEF Redeem, userVars, TokensIInv, TokensTypeOK, Redirects
<1>3. Accepted' /\ Awaited' /\ Kept'
  BY <1>1 DEF TokensIInv, Accepted, Awaited, Kept
<1>4. Alone'
  <2> SUFFICES ASSUME policy = "rotate" PROVE Alone'
    BY <1>1 DEF Alone
  <2>1. \A s : Fresh(s) => Fresh(s)'
    BY <1>1 DEF Fresh
  <2>2. Fresh(r)
    BY <1>1 DEF Fresh
  <2>3. ASSUME NEW u \in Users, answer[u] \in Refreshes
        PROVE  /\ Fresh(answer[u])
               /\ \A v \in Users : v # u => answer[v] # answer[u]
               /\ \A y \in Redirects : exchange'[y] # answer[u]
    BY <1>1, <2>3 DEF TokensIInv, Alone
  <2>4. ASSUME NEW y \in Redirects, exchange'[y] \in Refreshes
        PROVE  Fresh(exchange'[y]) /\ \A z \in Redirects : z # y => exchange'[z] # exchange'[y]
    BY <1>1, <2>2, <2>4 DEF TokensIInv, Alone
  <2> QED BY <1>1, <2>1, <2>3, <2>4 DEF Alone
<1>5. Replaced'
  BY <1>1 DEF TokensIInv, Replaced, Rotated
<1> QED BY <1>2, <1>3, <1>4, <1>5 DEF TokensIInv

\* What comes back is alone until it is stored, and is not any more under way then.
LEMMA StoreStep ==
    ASSUME TokensIInv, UNCHANGED policy, NEW x \in Redirects, StoreTokens(x)
    PROVE  TokensIInv'
<1>1. /\ exchange[x] \in Refreshes /\ row' = [refresh |-> exchange[x], soon |-> FALSE]
      /\ exchange'[x] = "over" /\ \A y \in Redirects \ {x} : exchange'[y] = exchange[y]
      /\ UNCHANGED <<policy, valid, lost, user, sent, answer>>
      /\ row'.refresh = exchange[x]
  BY DEF StoreTokens, userVars, TokensIInv, TokensTypeOK
<1>2. TokensTypeOK'
  <2>1. x[1] \in Flows
    BY DEF Redirects
  <2>2. row' \in TokenRows
    BY <1>1 DEF TokenRows
  <2> QED BY <2>1, <2>2, CleanupTyped DEF StoreTokens, userVars, TokensIInv, TokensTypeOK
<1>3. Accepted' /\ Awaited' /\ Kept'
  BY <1>1 DEF TokensIInv, Accepted, Awaited, Kept
<1>4. Alone'
  <2> SUFFICES ASSUME policy = "rotate" PROVE Alone'
    BY <1>1 DEF Alone
  <2>1. \A s : Fresh(s) /\ s # exchange[x] => Fresh(s)'
    BY <1>1 DEF Fresh
  <2>2. ASSUME NEW u \in Users, answer[u] \in Refreshes
        PROVE  /\ Fresh(answer[u])'
               /\ \A v \in Users : v # u => answer[v] # answer[u]
               /\ \A y \in Redirects : exchange'[y] # answer[u]
    BY <1>1, <2>1, <2>2 DEF TokensIInv, Alone
  <2>3. ASSUME NEW y \in Redirects, exchange'[y] \in Refreshes
        PROVE  Fresh(exchange[y]) /\ y # x /\ exchange'[y] = exchange[y]
               /\ \A z \in Redirects : z # y => exchange[z] # exchange[y]
    BY <1>1, <2>3 DEF TokensIInv, Alone
  <2> QED BY <1>1, <2>1, <2>2, <2>3 DEF Alone
<1>5. Replaced'
  BY <1>1 DEF TokensIInv, Replaced, Accepted
<1> QED BY <1>2, <1>3, <1>4, <1>5 DEF TokensIInv

LEMMA ReturnsStep ==
    ASSUME TokensIInv, UNCHANGED policy, NEW u \in Users, RefreshReturns(u)
    PROVE  TokensIInv'
<1>1. /\ answer[u] \in Refreshes /\ row' = [refresh |-> answer[u], soon |-> FALSE]
      /\ sent'[u] = NoRefresh /\ answer'[u] = NoRefresh /\ user'[u] \in {"idle", "running"}
      /\ \A v \in Users \ {u} : user'[v] = user[v] /\ sent'[v] = sent[v] /\ answer'[v] = answer[v]
      /\ UNCHANGED <<policy, valid, lost, exchange>>
      /\ row'.refresh = answer[u]
  BY DEF RefreshReturns, ReadToken, Forget, flowVars, TokensIInv, TokensTypeOK
<1>2. TokensTypeOK'
  <2>1. row' \in TokenRows
    BY <1>1 DEF TokenRows
  <2> QED BY <1>1, <2>1 DEF RefreshReturns, ReadToken, Forget, flowVars, TokensIInv, TokensTypeOK
<1>3. Accepted' /\ Awaited' /\ Kept'
  BY <1>1 DEF TokensIInv, Accepted, Awaited, Kept
<1>4. Alone'
  <2> SUFFICES ASSUME policy = "rotate" PROVE Alone'
    BY <1>1 DEF Alone
  <2>1. \A s \in Refreshes : Fresh(s) /\ s # answer[u] => Fresh(s)'
    BY <1>1 DEF Fresh
  <2>2. ASSUME NEW v \in Users, answer'[v] \in Refreshes
        PROVE  /\ Fresh(answer[v])' /\ answer'[v] = answer[v]
               /\ \A w \in Users : w # v => answer'[w] # answer[v]
               /\ \A y \in Redirects : exchange[y] # answer[v]
    BY <1>1, <2>1, <2>2 DEF TokensIInv, Alone
  <2>3. ASSUME NEW y \in Redirects, exchange[y] \in Refreshes
        PROVE  Fresh(exchange[y]) /\ exchange[y] # answer[u]
               /\ \A z \in Redirects : z # y => exchange[z] # exchange[y]
    BY <1>1, <2>3 DEF TokensIInv, Alone
  <2> QED BY <1>1, <2>1, <2>2, <2>3 DEF Alone, Fresh
<1>5. Replaced'
  BY <1>1 DEF TokensIInv, Replaced, Accepted
<1> QED BY <1>2, <1>3, <1>4, <1>5 DEF TokensIInv

LEMMA FailedStep ==
    ASSUME TokensIInv, UNCHANGED policy, NEW u \in Users, RefreshFailed(u)
    PROVE  TokensIInv'
<1>1. /\ lost' = (lost \/ (answer[u] \in Refreshes /\ answer[u] # sent[u]))
      /\ sent'[u] = NoRefresh /\ answer'[u] = NoRefresh /\ user'[u] \in {"idle", "running"}
      /\ \A v \in Users \ {u} : user'[v] = user[v] /\ sent'[v] = sent[v] /\ answer'[v] = answer[v]
      /\ UNCHANGED <<policy, row, valid, exchange>>
  BY DEF RefreshFailed, ReadToken, Forget, flowVars, TokensIInv, TokensTypeOK
<1>2. TokensTypeOK'
  <2>1. lost' \in BOOLEAN
    BY <1>1
  <2> QED BY <1>1, <2>1 DEF RefreshFailed, ReadToken, Forget, flowVars, TokensIInv, TokensTypeOK
<1>3. Accepted' /\ Awaited' /\ Kept'
  BY <1>1 DEF TokensIInv, Accepted, Awaited, Kept
<1>4. Alone'
  BY <1>1 DEF TokensIInv, Alone, Fresh
<1>5. Replaced'
  BY <1>1 DEF TokensIInv, Replaced, Rotated
<1> QED BY <1>2, <1>3, <1>4, <1>5 DEF TokensIInv

LEMMA RotatesStep ==
    ASSUME TokensIInv, UNCHANGED policy, NEW u \in Users, NEW r \in Refreshes, ProviderRotates(u, r)
    PROVE  TokensIInv'
<1>1. /\ policy = "rotate" /\ user[u] = "refreshing" /\ answer[u] = NoRefresh /\ sent[u] \in valid
      /\ r \notin valid /\ valid' = (valid \ {sent[u]}) \cup {r}
      /\ \A v \in Users : sent[v] # r /\ answer[v] # r
      /\ \A y \in Redirects : exchange[y] # r
      /\ row # NoToken => row.refresh # r
      /\ answer'[u] = r /\ \A v \in Users \ {u} : answer'[v] = answer[v]
      /\ UNCHANGED <<policy, row, lost, user, sent, exchange>>
  BY DEF ProviderRotates, Unissued, flowVars, TokensIInv, TokensTypeOK
<1>2. TokensTypeOK'
  BY DEF ProviderRotates, flowVars, TokensIInv, TokensTypeOK
<1>3. Accepted'
  BY <1>1 DEF TokensIInv, Accepted, Alone, Fresh
<1>4. Awaited' /\ Kept'
  BY <1>1 DEF TokensIInv, Awaited, Kept
<1>5. Alone'
  <2>1. \A s : Fresh(s) => Fresh(s)'
    BY <1>1 DEF Fresh
  <2>2. Fresh(r)
    BY <1>1 DEF Fresh
  <2>3. ASSUME NEW v \in Users, answer'[v] \in Refreshes
        PROVE  /\ Fresh(answer'[v])
               /\ \A w \in Users : w # v => answer'[w] # answer'[v]
               /\ \A y \in Redirects : exchange[y] # answer'[v]
    BY <1>1, <2>2, <2>3 DEF TokensIInv, Alone
  <2>4. ASSUME NEW y \in Redirects, exchange[y] \in Refreshes
        PROVE  Fresh(exchange[y]) /\ \A z \in Redirects : z # y => exchange[z] # exchange[y]
    BY <1>1, <2>4 DEF TokensIInv, Alone
  <2> QED BY <1>1, <2>1, <2>3, <2>4 DEF Alone, Fresh
<1>6. Replaced'
  <2> SUFFICES ASSUME row # NoToken, row.refresh \notin valid' \cup {NoRefresh}, ~lost
               PROVE  \E v \in Users : Rotated(v)' /\ sent[v] = row.refresh
    BY <1>1 DEF Replaced
  <2>1. CASE row.refresh = sent[u]
    <3>1. Rotated(u)'
      BY <1>1 DEF Rotated
    <3> QED BY <2>1, <3>1
  <2>2. CASE row.refresh # sent[u]
    <3>1. PICK v \in Users : Rotated(v) /\ sent[v] = row.refresh
      BY <1>1, <2>2 DEF TokensIInv, Replaced
    <3> QED BY <1>1, <2>2, <3>1 DEF Rotated
  <2> QED BY <2>1, <2>2
<1> QED BY <1>2, <1>3, <1>4, <1>5, <1>6 DEF TokensIInv

LEMMA KeepsStep ==
    ASSUME TokensIInv, UNCHANGED policy, NEW u \in Users, ProviderKeeps(u)
    PROVE  TokensIInv'
<1>1. /\ policy = "keep" /\ sent[u] \in valid /\ user[u] = "refreshing" /\ answer[u] = NoRefresh
      /\ answer'[u] = sent[u] /\ \A v \in Users \ {u} : answer'[v] = answer[v]
      /\ UNCHANGED <<policy, row, lost, user, sent, exchange, valid>>
  BY DEF ProviderKeeps, flowVars, TokensIInv, TokensTypeOK
<1>2. TokensTypeOK'
  BY DEF ProviderKeeps, flowVars, TokensIInv, TokensTypeOK
<1>3. Accepted' /\ Awaited' /\ Kept' /\ Alone'
  BY <1>1 DEF TokensIInv, Accepted, Awaited, Kept, Alone
<1>4. Replaced'
  BY <1>1 DEF TokensIInv, Replaced, Kept
<1> QED BY <1>2, <1>3, <1>4 DEF TokensIInv

LEMMA RefusesStep ==
    ASSUME TokensIInv, UNCHANGED policy, NEW u \in Users, ProviderRefuses(u)
    PROVE  TokensIInv'
<1>1. /\ user[u] = "refreshing" /\ answer[u] = NoRefresh
      /\ answer'[u] = "refused" /\ \A v \in Users \ {u} : answer'[v] = answer[v]
      /\ UNCHANGED <<policy, row, lost, user, sent, exchange, valid>>
  BY DEF ProviderRefuses, flowVars, TokensIInv, TokensTypeOK
<1>2. TokensTypeOK'
  BY DEF ProviderRefuses, flowVars, TokensIInv, TokensTypeOK
<1>3. Accepted' /\ Awaited' /\ Kept'
  BY <1>1 DEF TokensIInv, Accepted, Awaited, Kept
<1>4. Alone'
  BY <1>1 DEF TokensIInv, Alone, Fresh
<1>5. Replaced'
  BY <1>1 DEF TokensIInv, Replaced, Rotated
<1> QED BY <1>2, <1>3, <1>4, <1>5 DEF TokensIInv

LEMMA BeginStep ==
    ASSUME TokensIInv, UNCHANGED policy, NEW u \in Users, BeginRefresh(u)
    PROVE  TokensIInv'
<1>1. /\ row # NoToken /\ row.refresh \in Refreshes /\ user[u] = "idle" /\ user'[u] = "refreshing"
      /\ sent'[u] = row.refresh
      /\ \A v \in Users \ {u} : user'[v] = user[v] /\ sent'[v] = sent[v]
      /\ UNCHANGED <<policy, row, lost, answer, exchange, valid>>
  BY DEF BeginRefresh, RefreshDue, flowVars, TokensIInv, TokensTypeOK, TokenRows
<1>2. TokensTypeOK'
  BY <1>1 DEF BeginRefresh, flowVars, TokensIInv, TokensTypeOK
<1>3. Accepted' /\ Awaited'
  BY <1>1 DEF TokensIInv, Accepted, Awaited
<1>4. answer[u] = NoRefresh
  BY <1>1 DEF TokensIInv, Awaited
<1>5. Kept'
  BY <1>1, <1>4 DEF TokensIInv, Kept
<1>6. Alone'
  BY <1>1 DEF TokensIInv, Alone, Fresh
<1>7. Replaced'
  BY <1>1 DEF TokensIInv, Replaced, Rotated
<1> QED BY <1>2, <1>3, <1>5, <1>6, <1>7 DEF TokensIInv

\* A row that goes, or comes nearer to its end.
LEMMA RowStep ==
    ASSUME TokensIInv, UNCHANGED policy, ExpiresSoon \/ DeleteToken
    PROVE  TokensIInv'
<1>1. /\ row' = NoToken \/ (row # NoToken /\ row' \in TokenRows /\ row'.refresh = row.refresh)
      /\ UNCHANGED <<policy, valid, lost, user, sent, answer, exchange>>
  BY DEF ExpiresSoon, DeleteToken, userVars, flowVars, TokensIInv, TokensTypeOK, TokenRows
<1>2. TokensTypeOK'
  BY <1>1 DEF ExpiresSoon, DeleteToken, userVars, flowVars, TokensIInv, TokensTypeOK
<1>3. Accepted' /\ Awaited' /\ Kept'
  BY <1>1 DEF TokensIInv, Accepted, Awaited, Kept
<1>4. Alone'
  BY <1>1 DEF TokensIInv, Alone, Fresh
<1>5. Replaced'
  BY <1>1 DEF TokensIInv, Replaced, Rotated
<1> QED BY <1>2, <1>3, <1>4, <1>5 DEF TokensIInv

LEMMA CutStep ==
    ASSUME TokensIInv, UNCHANGED policy, FlowsCut
    PROVE  TokensIInv'
<1>1. /\ \A x \in Redirects : exchange'[x] \in {"none", "over"}
      /\ \A u \in Users : sent'[u] = NoRefresh /\ answer'[u] = NoRefresh
      /\ (\E u \in Users : Rotated(u)) \/ lost => lost'
      /\ UNCHANGED <<policy, row, valid>>
  BY DEF FlowsCut, Rotated
<1>2. TokensTypeOK'
  <2>1. lost' \in BOOLEAN
    BY DEF FlowsCut, TokensIInv, TokensTypeOK
  <2> QED BY <2>1 DEF FlowsCut, TokensIInv, TokensTypeOK
<1>3. Accepted' /\ Awaited' /\ Kept' /\ Alone'
  BY <1>1 DEF TokensIInv, Accepted, Awaited, Kept, Alone
<1>4. Replaced'
  BY <1>1 DEF TokensIInv, Replaced
<1> QED BY <1>2, <1>3, <1>4 DEF TokensIInv

LEMMA TokensInvStep == TokensIInv /\ [TokensNext]_tokenVars => TokensIInv'
<1> SUFFICES ASSUME TokensIInv, [TokensNext]_tokenVars PROVE TokensIInv'
  OBVIOUS
<1>t. TokensTypeOK /\ Awaited
  BY DEF TokensIInv
<1>p. UNCHANGED policy
  BY DEF TokensNext, tokenVars
<1>1. CASE PutCredentials
  BY <1>1, <1>t, <1>p, TokensRest
     DEF PutCredentials, SetCredentials, userVars, flowVars, TokensTypeOK, Awaited, Rotated
<1>2. ASSUME NEW f \in Flows, StartFlow(f) \/ FlowPending(f) PROVE TokensIInv'
  <2>1. TokensTypeOK'
    BY <1>2, <1>t, <1>p DEF StartFlow, Listens, FlowPending, userVars, TokensTypeOK
  <2> QED BY <1>2, <1>t, <1>p, <2>1, TokensRest DEF StartFlow, FlowPending, userVars, Awaited, Rotated
<1>3. ASSUME NEW f \in Flows, CallbackError(f) \/ FlowTimesOut(f) PROVE TokensIInv'
  <2>1. TokensTypeOK'
    BY <1>3, <1>t, <1>p, CleanupTyped DEF CallbackError, FlowTimesOut, userVars, TokensTypeOK
  <2> QED BY <1>3, <1>t, <1>p, <2>1, TokensRest DEF CallbackError, FlowTimesOut, userVars, Awaited, Rotated
<1>4. ASSUME NEW x \in Redirects, Callback(x) PROVE TokensIInv'
  <2>1. TokensTypeOK'
    BY <1>4, <1>t, <1>p DEF Callback, userVars, TokensTypeOK, Redirects
  <2>2. \A y \in Redirects : exchange'[y] \in Refreshes => exchange'[y] = exchange[y]
    BY <1>4, <1>t DEF Callback, TokensTypeOK
  <2> QED BY <1>4, <1>t, <1>p, <2>1, <2>2, TokensRest DEF Callback, userVars, Awaited, Rotated
<1>5. ASSUME NEW x \in Redirects, ExchangeFails(x) PROVE TokensIInv'
  <2>1. x[1] \in Flows
    BY DEF Redirects
  <2>2. TokensTypeOK'
    BY <1>5, <1>t, <1>p, <2>1, CleanupTyped DEF ExchangeFails, userVars, TokensTypeOK
  <2>3. \A y \in Redirects : exchange'[y] \in Refreshes => exchange'[y] = exchange[y]
    BY <1>5, <1>t DEF ExchangeFails, TokensTypeOK
  <2> QED BY <1>5, <1>t, <1>p, <2>2, <2>3, TokensRest DEF ExchangeFails, userVars, Awaited, Rotated
<1>6. ASSUME NEW u \in Users, UseStoredToken(u) \/ CallEnds(u) PROVE TokensIInv'
  <2>1. /\ user[u] # "refreshing" /\ user'[u] \in {"idle", "running"}
        /\ \A v \in Users \ {u} : user'[v] = user[v]
        /\ UNCHANGED <<policy, row, stored, sent, answer, valid, lost, listening, flow, exchange, codes>>
    BY <1>6, <1>t, <1>p DEF UseStoredToken, ReadToken, CallEnds, flowVars, TokensTypeOK
  <2>2. TokensTypeOK'
    BY <1>6, <1>t, <2>1 DEF UseStoredToken, ReadToken, CallEnds, TokensTypeOK
  <2> QED BY <1>t, <2>1, <2>2, TokensRest DEF Awaited, Rotated
<1>7. CASE UNCHANGED tokenVars
  BY <1>7, <1>t, TokensRest DEF tokenVars, userVars, TokensTypeOK, Awaited, Rotated
<1> QED BY <1>p, <1>1, <1>2, <1>3, <1>4, <1>5, <1>6, <1>7, RedeemStep, StoreStep, ReturnsStep, FailedStep,
           RotatesStep, KeepsStep, RefusesStep, BeginStep, RowStep, CutStep DEF TokensNext

-----------------------------------------------------------------------------

\* Tokens under way are accepted and, where they rotate, each in one place only.
THEOREM TokensInductive == TokensSpec => []TokensIInv
BY TokensInvInit, TokensInvStep, PTL DEF TokensSpec

\* Rows, flows, exchanges and calls are what they are taken for.
THEOREM TokensTypes == TokensSpec => []TokensTypeOK
<1>1. TokensIInv => TokensTypeOK
  BY DEF TokensIInv
<1> QED BY <1>1, TokensInductive, PTL

\* Once nobody waits for the provider, the vault's refresh token is one that it
\* accepts, unless an answer that rotated it was lost (refreshAccessToken and
\* exchangeCode, which store what they have after an await).
THEOREM VaultTheorem == TokensSpec => []VaultStaysUsable
<1>1. TokensIInv => VaultStaysUsable
  BY DEF TokensIInv, Replaced, Rotated, VaultStaysUsable, Quiet
<1> QED BY <1>1, TokensInductive, PTL

-----------------------------------------------------------------------------
(***************************************************************************)
(* The serving hub, the pair of hubs and the vault, side by side as        *)
(* MCPeers puts them.                                                      *)
(***************************************************************************)

PeersIInv ==
    /\ FedIInv /\ HubTypes /\ BookTypes
    /\ PairIInv
    /\ TokensIInv

LEMMA PeersInvInit == MCInit => PeersIInv
BY FedInitInv, TypesInit, PairInvInit, TokensInvInit DEF MCInit, PeersIInv

LEMMA PeersInvStep == PeersIInv /\ [MCNext]_MCVars => PeersIInv'
<1> SUFFICES ASSUME PeersIInv, [MCNext]_MCVars PROVE PeersIInv'
  OBVIOUS
<1>1. [FedNext]_allVars /\ [PairNext]_pairVars /\ [TokensNext]_tokenVars
  BY DEF MCNext, MCVars
<1>2. FedIInv' /\ HubTypes' /\ BookTypes'
  BY <1>1, FedStep, TypesStep DEF PeersIInv, FedIInv
<1>3. PairIInv' /\ TokensIInv'
  BY <1>1, PairInvStep, TokensInvStep DEF PeersIInv
<1> QED BY <1>2, <1>3 DEF PeersIInv

\* The types of both hubs' tables, of the calls between them and of the vault
\* hold throughout.
THEOREM PeersTypes == MCSpec => []TypesOK
<1>1. PeersIInv => TypesOK
  BY TypesSpelled DEF PeersIInv, FedIInv, PairIInv, TokensIInv, TypesOK
<1> QED BY <1>1, PeersInvInit, PeersInvStep, PTL DEF MCSpec
===============================================================================
