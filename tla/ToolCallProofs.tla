---------------------------- MODULE ToolCallProofs ----------------------------
(***************************************************************************)
(* Proofs about ToolCall, for every set of calls, phones, tools, plugins   *)
(* and grants, and every lifetime and timeout.                             *)
(***************************************************************************)
EXTENDS ToolCall, FiniteSetTheorems, TLAPS

\* What the proofs use of the constants.
LEMMA Constants ==
    /\ GrantTTL \in Nat /\ GrantTTL # 0
    /\ ApprovalTimeout \in [Dialogs -> Nat]
    /\ \A d \in Dialogs : ApprovalTimeout[d] # 0
    /\ OAuthPlugins \subseteq Plugins
    /\ "grant" \in Dialogs
    /\ NoPlugin \notin Plugins
    /\ NoGrant \notin GrantIds
    /\ NoKey \notin Keys
  BY GrantTTLAssumption, ApprovalTimeoutAssumption, OAuthAssumption,
     DialogAssumption, NullsAssumption

LEMMA AskIsRequest == \A c \in Calls : Ask(c) \in Requests
  BY Constants DEF Ask, Requests

LEMMA AskIsInjective == \A c, d \in Calls : Ask(c) = Ask(d) => c = d
  BY DEF Ask

-----------------------------------------------------------------------------
(***************************************************************************)
(* Types.  The helpers first, then one step per action.                    *)
(***************************************************************************)

LEMMA InitType == Init => TypeOK
  BY Constants DEF Init, TypeOK, GrantStoreInit, GrantStoreTypeOK, StreamInit,
     StreamTypeOK, HubStates, TokenStates, PromiseStates, Stages, Requests

LEMMA CreateGrantType ==
    ASSUME GrantStoreTypeOK, NEW g, NEW k \in Keys, CreateGrant(g, k)
    PROVE  GrantStoreTypeOK'
  <1>1. \A h \in DOMAIN grants' : grants'[h] \in Rows
    BY Constants DEF GrantStoreTypeOK, CreateGrant, Rows
  <1> QED
    BY <1>1 DEF GrantStoreTypeOK, CreateGrant

LEMMA RevokeRowType ==
    ASSUME GrantStoreTypeOK, NEW g, RevokeRow(g)
    PROVE  GrantStoreTypeOK'
  BY DEF GrantStoreTypeOK, RevokeRow, Rows

LEMMA AgeGrantsType ==
    ASSUME GrantStoreTypeOK, AgeGrants
    PROVE  GrantStoreTypeOK'
  <1>1. \A h \in DOMAIN grants' : grants'[h] \in Rows
    BY Constants DEF GrantStoreTypeOK, AgeGrants, Rows
  <1> QED
    BY <1>1 DEF GrantStoreTypeOK, AgeGrants

LEMMA EnterType ==
    ASSUME pc \in [Calls -> Stages], NEW cs, NEW s \in Stages, Enter(cs, s)
    PROVE  pc' \in [Calls -> Stages]
  BY DEF Enter

LEMMA LogType ==
    ASSUME audit \in [Calls -> Seq(AuditRows)], held \in [Calls -> GrantIds \cup {NoGrant}],
           NEW cs, NEW d \in {"approved", "denied", "error"}, Log(cs, d)
    PROVE  audit' \in [Calls -> Seq(AuditRows)]
  <1>1. \A c \in Calls : [decision |-> d, grant |-> held[c]] \in AuditRows
    BY DEF AuditRows
  <1> QED
    BY <1>1 DEF Log

LEMMA RequestApprovalType ==
    ASSUME StreamTypeOK, NEW r \in Requests, RequestApproval(r)
    PROVE  StreamTypeOK'
  <1>1. ApprovalTimeout[r[2]] \in Nat
    BY Constants DEF Requests
  <1>2. promise' \in [Requests -> PromiseStates] /\ timer' \in [Requests -> Nat]
    BY <1>1 DEF RequestApproval, StreamTypeOK, PromiseStates
  <1>3. cards' \in [Phones -> SUBSET Requests]
    BY DEF RequestApproval, ShowCard, StreamTypeOK
  <1> QED
    BY <1>2, <1>3 DEF RequestApproval, StreamTypeOK

LEMMA SettleType ==
    ASSUME StreamTypeOK, NEW m, Settle(m)
    PROVE  StreamTypeOK'
  <1>1. m.request \in Requests /\ m.decision \in PromiseStates
    BY DEF Settle, StreamTypeOK, Messages, Decisions, PromiseStates
  <1> QED
    BY <1>1 DEF Settle, StreamTypeOK

LEMMA TimerFiresType ==
    ASSUME StreamTypeOK, NEW r, TimerFires(r)
    PROVE  StreamTypeOK'
  BY DEF TimerFires, StreamTypeOK, PromiseStates

LEMMA TapType ==
    ASSUME StreamTypeOK, NEW p \in Phones, NEW r \in Requests, NEW d \in Decisions, Tap(p, r, d)
    PROVE  StreamTypeOK'
  <1>1. cards' \in [Phones -> SUBSET Requests]
    BY DEF Tap, StreamTypeOK
  <1>2. wire' \subseteq Messages
    BY DEF Tap, StreamTypeOK, Messages
  <1> QED
    BY <1>1, <1>2 DEF Tap, StreamTypeOK

LEMMA StreamDownType ==
    ASSUME StreamTypeOK, NEW s \in {"closed", "lost"}, StreamDown(s)
    PROVE  StreamTypeOK'
  <1>1. promise' \in [Requests -> PromiseStates]
    BY DEF StreamDown, StreamTypeOK, PromiseStates
  <1> QED
    BY <1>1 DEF StreamDown, StreamTypeOK

LEMMA AgeTimersType ==
    ASSUME StreamTypeOK, AgeTimers
    PROVE  timer' \in [Requests -> Nat]
  BY DEF AgeTimers, StreamTypeOK

\* What AfterGrant may answer, and what Proceed does to the types.
LEMMA ProceedType ==
    ASSUME TypeOK, NEW c \in Calls, NEW g \in GrantIds, NEW p \in Plugins, Proceed(c, g, p)
    PROVE  /\ pc' \in [Calls -> Stages]
           /\ held' \in [Calls -> GrantIds \cup {NoGrant}]
           /\ orphaned' \subseteq Calls
           /\ ran' \subseteq Calls
           /\ audit' \in [Calls -> Seq(AuditRows)]
  <1>1. PICK s \in AfterGrant(p) : Enter({c}, s) /\ ran' = IF s = "running" THEN ran \cup {c} ELSE ran
    BY DEF Proceed
  <1>2. s \in Stages
    BY DEF AfterGrant, Stages, Waiting, Ended, TypeOK, TokenStates
  <1>3. pc' \in [Calls -> Stages]
    BY <1>1, <1>2, EnterType DEF TypeOK
  <1> QED
    BY <1>1, <1>3 DEF Proceed, TypeOK

LEMMA KeyOfType ==
    ASSUME TypeOK, NEW t \in Tools, NEW a \in Agents, owner[t] # NoPlugin
    PROVE  KeyOf(t, a) \in Keys
  BY DEF KeyOf, Keys, Origins, TypeOK

LEMMA FindActiveType ==
    ASSUME NEW k, NEW g \in FindActive(k)
    PROVE  g \in DOMAIN grants /\ grants[g].key = k /\ Active(g)
  BY DEF FindActive, ActiveFor

-----------------------------------------------------------------------------

\* Types are preserved: one step per action of Next.
LEMMA TypeStep ==
    ASSUME TypeOK, \A c \in Calls : CallInv(c), [Next]_vars
    PROVE  TypeOK'
<1> USE DEF GrantStoreTypeOK
<1>1. ASSUME NEW c \in Calls, NEW t \in Tools, CallUnknownTool(c, t)
      PROVE  TypeOK'
  <2>1. pc' \in [Calls -> Stages]
    BY <1>1, EnterType DEF CallUnknownTool, TypeOK, Stages, Ended
  <2> QED
    BY <1>1, <2>1 DEF CallUnknownTool, TypeOK, streamVars, StreamTypeOK
<1>2. ASSUME NEW c \in Calls, NEW t \in Tools, NEW a \in Agents, CallWithGrant(c, t, a)
      PROVE  TypeOK'
  <2>1. KeyOf(t, a) \in Keys /\ owner[t] \in Plugins
    BY <1>2, KeyOfType DEF CallWithGrant, TypeOK
  <2>2. PICK g \in FindActive(KeyOf(t, a)) : Proceed(c, g, owner[t])
    BY <1>2 DEF CallWithGrant
  <2>3. g \in GrantIds
    BY FindActiveType DEF TypeOK
  <2>4. /\ pc' \in [Calls -> Stages] /\ held' \in [Calls -> GrantIds \cup {NoGrant}]
        /\ orphaned' \subseteq Calls /\ ran' \subseteq Calls
        /\ audit' \in [Calls -> Seq(AuditRows)]
    BY <2>1, <2>2, <2>3, ProceedType
  <2> QED
    BY <1>2, <2>1, <2>4 DEF CallWithGrant, TypeOK, streamVars, StreamTypeOK
<1>3. ASSUME NEW c \in Calls, NEW t \in Tools, NEW a \in Agents, CallAsks(c, t, a)
      PROVE  TypeOK'
  <2>1. KeyOf(t, a) \in Keys
    BY <1>3, KeyOfType DEF CallAsks
  <2>2. StreamTypeOK'
    BY <1>3, AskIsRequest, RequestApprovalType DEF CallAsks, TypeOK
  <2>3. pc' \in [Calls -> Stages]
    BY <1>3, EnterType DEF CallAsks, TypeOK, Stages, Waiting
  <2> QED
    BY <1>3, <2>1, <2>2, <2>3 DEF CallAsks, TypeOK
<1>4. ASSUME NEW c \in Calls, NEW m, Approve(c, m)
      PROVE  TypeOK'
  <2>1. call[c] \in Keys /\ call[c].plugin \in Plugins
    BY <1>4 DEF Approve, CallInv, Keys
  <2>2. StreamTypeOK'
    BY <1>4, SettleType DEF Approve, TypeOK
  <2>3. PICK g \in GrantIds : CreateGrant(g, call[c]) /\ Proceed(c, g, call[c].plugin)
    BY <1>4 DEF Approve
  <2>4. GrantStoreTypeOK'
    BY <2>1, <2>3, CreateGrantType DEF TypeOK
  <2>5. /\ pc' \in [Calls -> Stages] /\ held' \in [Calls -> GrantIds \cup {NoGrant}]
        /\ orphaned' \subseteq Calls /\ ran' \subseteq Calls
        /\ audit' \in [Calls -> Seq(AuditRows)]
    BY <2>1, <2>3, ProceedType
  <2> QED
    BY <1>4, <2>2, <2>4, <2>5 DEF Approve, TypeOK
<1>5. ASSUME NEW cs, Refuse(cs)
      PROVE  pc' \in [Calls -> Stages] /\ audit' \in [Calls -> Seq(AuditRows)]
  BY <1>5, EnterType, LogType DEF Refuse, TypeOK, Stages, Ended
<1>6. ASSUME NEW c \in Calls, NEW m, Deny(c, m)
      PROVE  TypeOK'
  <2>1. StreamTypeOK'
    BY <1>6, SettleType DEF Deny, TypeOK
  <2> QED
    BY <1>5, <1>6, <2>1 DEF Deny, Refuse, TypeOK
<1>7. ASSUME NEW c \in Calls, TimeOut(c)
      PROVE  TypeOK'
  <2>1. StreamTypeOK'
    BY <1>7, TimerFiresType DEF TimeOut, TypeOK
  <2> QED
    BY <1>5, <1>7, <2>1 DEF TimeOut, Refuse, TypeOK
<1>8. ASSUME NEW c \in Calls, NEW s, UseToken(c, s)
      PROVE  pc' \in [Calls -> Stages] /\ ran' \subseteq Calls
  BY <1>8, EnterType DEF UseToken, TypeOK, Stages, Waiting, Ended
<1>9. ASSUME NEW c \in Calls, RefreshSucceeds(c) \/ RefreshFails(c)
      PROVE  TypeOK'
  <2>1. token' \in [OAuthPlugins -> TokenStates]
    BY <1>9 DEF RefreshSucceeds, RefreshFails, TypeOK, TokenStates
  <2> QED
    BY <1>8, <1>9, <2>1 DEF RefreshSucceeds, RefreshFails, UseToken, TypeOK, streamVars, StreamTypeOK
<1>10. ASSUME NEW c \in Calls, PluginSucceeds(c) \/ PluginFails(c)
       PROVE  TypeOK'
  <2>1. pc' \in [Calls -> Stages] /\ audit' \in [Calls -> Seq(AuditRows)]
    BY <1>10, EnterType, LogType DEF PluginSucceeds, PluginFails, TypeOK, Stages, Ended
  <2> QED
    BY <1>10, <2>1 DEF PluginSucceeds, PluginFails, TypeOK, streamVars, StreamTypeOK
<1>11. ASSUME NEW m, LateAnswer(m)
       PROVE  TypeOK'
  BY <1>11 DEF LateAnswer, IgnoreLateAnswer, callVars, TypeOK, StreamTypeOK
<1>12. ASSUME NEW p \in Plugins, NEW ts, Register(p, ts)
       PROVE  TypeOK'
  BY <1>12 DEF Register, callVars, streamVars, TypeOK, StreamTypeOK
<1>13. ASSUME NEW p \in Plugins, PluginExits(p)
       PROVE  TypeOK'
  <2> DEFINE cut == {c \in WaitingFor(p) : pc[c] = "running" /\ c \notin orphaned}
  <2>1. owner' \in [Tools -> Plugins \cup {NoPlugin}]
    BY <1>13 DEF PluginExits, TypeOK
  <2>2. pc' \in [Calls -> Stages]
    BY <1>13, EnterType DEF PluginExits, TypeOK, Stages, Ended
  <2>3. audit' \in [Calls -> Seq(AuditRows)]
    BY <1>13, LogType DEF PluginExits, TypeOK
  <2>4. orphaned' \subseteq Calls
    BY <1>13 DEF PluginExits, TypeOK, WaitingFor, WaitingCalls
  <2> QED
    BY <1>13, <2>1, <2>2, <2>3, <2>4 DEF PluginExits, TypeOK, streamVars, StreamTypeOK
<1>14. ASSUME NEW p \in OAuthPlugins, NEW s \in TokenStates, TokenChanges(p, s)
       PROVE  TypeOK'
  BY <1>14 DEF TokenChanges, callVars, streamVars, TypeOK, StreamTypeOK
<1>15. ASSUME NEW g, Revoke(g)
       PROVE  TypeOK'
  <2>1. GrantStoreTypeOK'
    BY <1>15, RevokeRowType DEF Revoke, TypeOK
  <2> QED
    BY <1>15, <2>1 DEF Revoke, callVars, streamVars, TypeOK, StreamTypeOK
<1>16. ASSUME NEW p \in Phones, PhoneConnects(p) \/ PhoneDisconnects(p)
       PROVE  TypeOK'
  BY <1>16 DEF PhoneConnects, Connect, PhoneDisconnects, Disconnect, callVars, TypeOK, StreamTypeOK
<1>17. ASSUME NEW p \in Phones, NEW r \in Requests, NEW d \in Decisions, UserTaps(p, r, d)
       PROVE  TypeOK'
  <2>1. StreamTypeOK'
    BY <1>17, TapType DEF UserTaps, TypeOK
  <2> QED
    BY <1>17, <2>1 DEF UserTaps, callVars, TypeOK
<1>18. CASE Tick
  <2>1. GrantStoreTypeOK'
    BY <1>18, AgeGrantsType DEF Tick, TypeOK
  <2>2. timer' \in [Requests -> Nat]
    BY <1>18, AgeTimersType DEF Tick, TypeOK
  <2> QED
    BY <1>18, <2>1, <2>2 DEF Tick, callVars, TypeOK, StreamTypeOK
<1>19. CASE BeginShutdown \/ Exit \/ Restart
  BY <1>19 DEF BeginShutdown, Exit, Restart, callVars, streamVars, TypeOK, StreamTypeOK, HubStates
<1>20. CASE StopServer
  <2>1. StreamTypeOK'
    BY <1>20, StreamDownType DEF StopServer, TypeOK
  <2> QED
    BY <1>5, <1>20, <2>1 DEF StopServer, Refuse, TypeOK, HubStates
<1>21. CASE Crash
  <2>1. StreamTypeOK'
    BY <1>21, StreamDownType DEF Crash, TypeOK
  <2>2. pc' \in [Calls -> Stages]
    BY <1>21, EnterType DEF Crash, TypeOK, Stages, Ended
  <2> QED
    BY <1>21, <2>1, <2>2 DEF Crash, TypeOK, HubStates
<1>22. CASE UNCHANGED vars
  BY <1>22 DEF vars, callVars, streamVars, TypeOK, StreamTypeOK
<1> QED
  BY <1>1, <1>2, <1>3, <1>4, <1>6, <1>7, <1>9, <1>10, <1>11, <1>12, <1>13, <1>14,
     <1>15, <1>16, <1>17, <1>18, <1>19, <1>20, <1>21, <1>22 DEF Next, Handler, Environment

-----------------------------------------------------------------------------
(***************************************************************************)
(* The inductive invariant.                                                *)
(***************************************************************************)

\* No row of the table is lost and no row changes its key.
GrantsKept ==
    \A g \in DOMAIN grants : g \in DOMAIN grants' /\ grants'[g].key = grants[g].key

LEMMA RevokeKeeps ==
    ASSUME GrantStoreTypeOK, NEW g, RevokeRow(g)
    PROVE  GrantsKept /\ DOMAIN grants' = DOMAIN grants
  <1>1. grants[g] \in Rows /\ DOMAIN grants' = DOMAIN grants
    BY DEF GrantStoreTypeOK, RevokeRow
  <1>2. grants'[g] = [grants[g] EXCEPT !.revoked = TRUE]
    BY DEF RevokeRow
  <1>3. grants'[g].key = grants[g].key
    BY <1>1, <1>2 DEF Rows
  <1>4. \A h \in DOMAIN grants : h # g => grants'[h] = grants[h]
    BY DEF RevokeRow
  <1> QED
    BY <1>1, <1>3, <1>4 DEF GrantsKept

LEMMA AgeKeeps ==
    ASSUME GrantStoreTypeOK, AgeGrants
    PROVE  GrantsKept /\ DOMAIN grants' = DOMAIN grants
  <1>1. DOMAIN grants' = DOMAIN grants /\ \A g \in DOMAIN grants : grants[g] \in Rows
    BY DEF GrantStoreTypeOK, AgeGrants
  <1>2. \A g \in DOMAIN grants : grants'[g].key = grants[g].key
    BY <1>1 DEF AgeGrants, Rows
  <1> QED
    BY <1>1, <1>2 DEF GrantsKept

LEMMA CreateKeeps ==
    ASSUME NEW g, NEW k, CreateGrant(g, k)
    PROVE  GrantsKept /\ DOMAIN grants' = DOMAIN grants \cup {g} /\ grants'[g].key = k
  BY DEF CreateGrant, GrantsKept

\* A call the step does not touch keeps its part of the invariant.
LEMMA OtherCall ==
    ASSUME NEW c \in Calls, CallInv(c), GrantsKept,
           pc'[c] = pc[c], call'[c] = call[c], held'[c] = held[c],
           promise'[Ask(c)] = promise[Ask(c)], c \in ran' => c \in ran
    PROVE  CallInv(c)'
  BY DEF CallInv, GrantsKept, Ask

\* A step that adds no row and leaves the approved calls alone keeps GrantInv.
LEMMA SameGrants ==
    ASSUME GrantInv, GrantsKept, DOMAIN grants' = DOMAIN grants,
           \A c \in Calls : promise[Ask(c)] = "approved" =>
                promise'[Ask(c)] = "approved" /\ call'[c] = call[c]
    PROVE  GrantInv'
  BY DEF GrantInv, GrantsKept, Ask

\* A step that approves nothing keeps ConsentInv.
LEMMA SameConsent ==
    ASSUME ConsentInv, wire' \subseteq wire, consents \subseteq consents',
           \A r \in Requests : promise'[r] = "approved" => promise[r] = "approved"
    PROVE  ConsentInv'
  BY DEF ConsentInv, Requests

SafeInv == (\A c \in Calls : CallInv(c)) /\ GrantInv /\ ConsentInv

LEMMA InitSafe == Init => SafeInv
  BY AskIsRequest DEF Init, SafeInv, CallInv, GrantInv, ConsentInv, GrantStoreInit, StreamInit

\* The steps that touch no call and settle nothing.
LEMMA Frame ==
    ASSUME SafeInv, GrantsKept, DOMAIN grants' = DOMAIN grants,
           UNCHANGED <<call, pc, held, ran, promise, consents>>, wire' \subseteq wire
    PROVE  SafeInv'
  <1>1. \A c \in Calls : CallInv(c)'
    BY OtherCall DEF SafeInv
  <1>2. GrantInv'
    BY SameGrants DEF SafeInv
  <1>3. ConsentInv'
    BY SameConsent DEF SafeInv
  <1> QED
    BY <1>1, <1>2, <1>3 DEF SafeInv, CallInv, Ask

\* The steps that settle nothing approved, and move some calls.
LEMMA FrameCalls ==
    ASSUME SafeInv, GrantsKept, DOMAIN grants' = DOMAIN grants,
           \A c \in Calls : CallInv(c)',
           \A r \in Requests : promise'[r] = "approved" <=> promise[r] = "approved",
           \A c \in Calls : promise[Ask(c)] = "approved" => call'[c] = call[c],
           wire' \subseteq wire, UNCHANGED consents
    PROVE  SafeInv'
  <1>1. GrantInv'
    BY SameGrants, AskIsRequest DEF SafeInv
  <1>2. ConsentInv'
    BY SameConsent DEF SafeInv
  <1> QED
    BY <1>1, <1>2 DEF SafeInv, CallInv, Ask

LEMMA SameStore == ASSUME UNCHANGED grants PROVE GrantsKept /\ DOMAIN grants' = DOMAIN grants
  BY DEF GrantsKept

LEMMA SafeStep ==
    ASSUME TypeOK, TypeOK', SafeInv, [Next]_vars
    PROVE  SafeInv'
<1> USE DEF StreamTypeOK
<1>1. ASSUME NEW c \in Calls, NEW t \in Tools, CallUnknownTool(c, t)
      PROVE  SafeInv'
  <2>1. GrantsKept /\ DOMAIN grants' = DOMAIN grants
    BY <1>1, SameStore DEF CallUnknownTool
  <2>2. CallInv(c)'
    BY <1>1 DEF CallUnknownTool, Enter, SafeInv, CallInv, TypeOK, streamVars, Ask
  <2>3. ASSUME NEW d \in Calls, d # c PROVE CallInv(d)'
    BY <1>1, <2>1, <2>3, OtherCall DEF CallUnknownTool, Enter, SafeInv, TypeOK, streamVars
  <2> QED
    BY <1>1, <2>1, <2>2, <2>3, FrameCalls DEF CallUnknownTool, streamVars
<1>2. ASSUME NEW c \in Calls, NEW t \in Tools, NEW a \in Agents, CallWithGrant(c, t, a)
      PROVE  SafeInv'
  <2>1. GrantsKept /\ DOMAIN grants' = DOMAIN grants
    BY <1>2, SameStore DEF CallWithGrant
  <2>2. PICK g \in FindActive(KeyOf(t, a)) : Proceed(c, g, owner[t])
    BY <1>2 DEF CallWithGrant
  <2>3. g \in DOMAIN grants /\ grants[g].key = KeyOf(t, a) /\ g # NoGrant
    BY FindActiveType, Constants DEF TypeOK, GrantStoreTypeOK
  <2>4. KeyOf(t, a) \in Keys
    BY <1>2, KeyOfType DEF CallWithGrant
  <2>5. PICK s \in AfterGrant(owner[t]) : Enter({c}, s)
    BY <2>2 DEF Proceed
  <2>6. s \in {"running", "refreshing", "failed"}
    BY <1>2, <2>5 DEF AfterGrant, TypeOK, TokenStates, CallWithGrant
  <2>7. call'[c] = KeyOf(t, a) /\ held'[c] = g /\ pc'[c] = s
    BY <1>2, <2>2, <2>5 DEF CallWithGrant, Proceed, Enter, TypeOK
  <2>8. promise'[Ask(c)] = "none" /\ promise[Ask(c)] = "none"
    BY <1>2 DEF CallWithGrant, streamVars, SafeInv, CallInv
  <2>9. CallInv(c)'
    BY <2>1, <2>3, <2>4, <2>6, <2>7, <2>8 DEF CallInv, GrantsKept, Ask
  <2>10. ASSUME NEW d \in Calls, d # c PROVE CallInv(d)'
    <3>1. /\ pc'[d] = pc[d] /\ call'[d] = call[d] /\ held'[d] = held[d]
          /\ promise'[Ask(d)] = promise[Ask(d)] /\ (d \in ran' => d \in ran)
      BY <1>2, <2>2, <2>5, <2>10 DEF CallWithGrant, Proceed, Enter, TypeOK, streamVars
    <3> QED
      BY <2>1, <3>1, OtherCall DEF SafeInv
  <2>11. \A d \in Calls : promise[Ask(d)] = "approved" => call'[d] = call[d]
    BY <1>2, <2>8 DEF CallWithGrant, TypeOK
  <2> QED
    BY <1>2, <2>1, <2>9, <2>10, <2>11, FrameCalls DEF CallWithGrant, streamVars
<1>3. ASSUME NEW c \in Calls, NEW t \in Tools, NEW a \in Agents, CallAsks(c, t, a)
      PROVE  SafeInv'
  <2>1. GrantsKept /\ DOMAIN grants' = DOMAIN grants
    BY <1>3, SameStore DEF CallAsks
  <2>2. KeyOf(t, a) \in Keys
    BY <1>3, KeyOfType DEF CallAsks
  <2>3. promise[Ask(c)] = "none" /\ held[c] = NoGrant /\ c \notin ran
    BY <1>3 DEF CallAsks, SafeInv, CallInv
  <2>4. promise' = [promise EXCEPT ![Ask(c)] = "pending"]
    BY <1>3 DEF CallAsks, RequestApproval
  <2>5. call'[c] = KeyOf(t, a) /\ held'[c] = NoGrant /\ pc'[c] = "asking"
        /\ promise'[Ask(c)] = "pending" /\ ran' = ran
    BY <1>3, <2>3, <2>4, AskIsRequest DEF CallAsks, Enter, TypeOK
  <2>6. CallInv(c)'
    BY <2>2, <2>3, <2>5 DEF CallInv, Ask
  <2>7. ASSUME NEW d \in Calls, d # c PROVE CallInv(d)'
    <3>1. /\ pc'[d] = pc[d] /\ call'[d] = call[d] /\ held'[d] = held[d]
          /\ promise'[Ask(d)] = promise[Ask(d)] /\ (d \in ran' => d \in ran)
      BY <1>3, <2>4, <2>7, AskIsRequest, AskIsInjective DEF CallAsks, Enter, TypeOK
    <3> QED
      BY <2>1, <3>1, OtherCall DEF SafeInv
  <2>8. \A d \in Calls : promise[Ask(d)] = "approved" => call'[d] = call[d]
    BY <1>3, <2>3 DEF CallAsks, TypeOK
  <2>9. \A r \in Requests : promise'[r] = "approved" <=> promise[r] = "approved"
    BY <2>3, <2>4, AskIsRequest DEF TypeOK
  <2> QED
    BY <1>3, <2>1, <2>6, <2>7, <2>8, <2>9, FrameCalls DEF CallAsks, RequestApproval
<1>4. ASSUME NEW c \in Calls, NEW m, Approve(c, m)
      PROVE  SafeInv'
  <2>1. PICK g \in GrantIds : CreateGrant(g, call[c]) /\ Proceed(c, g, call[c].plugin)
    BY <1>4 DEF Approve
  <2>2. GrantsKept /\ DOMAIN grants' = DOMAIN grants \cup {g} /\ grants'[g].key = call[c]
    BY <2>1, CreateKeeps
  <2>3. PICK s \in AfterGrant(call[c].plugin) : Enter({c}, s)
    BY <2>1 DEF Proceed
  <2>4. call[c] \in Keys /\ call[c].plugin \in Plugins /\ promise[Ask(c)] = "pending"
    BY <1>4 DEF Approve, SafeInv, CallInv, Keys
  <2>5. s \in {"running", "refreshing", "failed"}
    BY <2>3, <2>4 DEF AfterGrant, TypeOK, TokenStates
  <2>6. promise' = [promise EXCEPT ![Ask(c)] = "approved"] /\ m \in wire /\ UNCHANGED consents
    BY <1>4 DEF Approve, Settle
  <2>7. pc'[c] = s /\ held'[c] = g /\ call' = call /\ promise'[Ask(c)] = "approved"
    BY <1>4, <2>1, <2>3, <2>6, AskIsRequest DEF Approve, Proceed, Enter, TypeOK
  <2>8. CallInv(c)'
    BY <2>2, <2>4, <2>5, <2>7, Constants DEF CallInv, Ask
  <2>9. ASSUME NEW d \in Calls, d # c PROVE CallInv(d)'
    <3>1. /\ pc'[d] = pc[d] /\ held'[d] = held[d]
          /\ promise'[Ask(d)] = promise[Ask(d)] /\ (d \in ran' => d \in ran)
      BY <2>1, <2>3, <2>6, <2>9, AskIsRequest, AskIsInjective DEF Proceed, Enter, TypeOK
    <3> QED
      BY <2>2, <2>7, <3>1, OtherCall DEF SafeInv
  <2>10. GrantInv'
    <3> SUFFICES ASSUME NEW h \in DOMAIN grants'
                 PROVE  \E d \in Calls : call'[d] = grants'[h].key /\ promise'[Ask(d)] = "approved"
      BY DEF GrantInv, Ask
    <3>1. CASE h = g
      BY <2>2, <2>7, <3>1
    <3>2. CASE h # g
      <4>1. h \in DOMAIN grants /\ grants'[h].key = grants[h].key
        BY <2>2, <3>2 DEF GrantsKept
      <4>2. PICK d \in Calls : call[d] = grants[h].key /\ promise[Ask(d)] = "approved"
        BY <4>1 DEF SafeInv, GrantInv
      <4>3. promise'[Ask(d)] = "approved"
        BY <2>6, <4>2, AskIsRequest DEF TypeOK
      <4> QED
        BY <2>7, <4>1, <4>2, <4>3
    <3> QED
      BY <3>1, <3>2
  <2>11. ConsentInv'
    <3>1. Ask(c) \in consents
      BY <1>4 DEF Approve, Settle, SafeInv, ConsentInv
    <3>2. wire' \subseteq wire
      BY <1>4 DEF Approve, Settle
    <3>3. \A r \in Requests : promise'[r] = "approved" => r = Ask(c) \/ promise[r] = "approved"
      BY <2>6 DEF TypeOK
    <3> QED
      BY <2>6, <3>1, <3>2, <3>3 DEF SafeInv, ConsentInv, Requests
  <2> QED
    BY <2>8, <2>9, <2>10, <2>11 DEF SafeInv, CallInv, Ask
\* A call that was asking is refused, its promise settled as v.
<1>5. ASSUME NEW c \in Calls, NEW v \in {"denied", "timeout"}, pc[c] = "asking",
             promise' = [promise EXCEPT ![Ask(c)] = v], Refuse({c}),
             wire' \subseteq wire, UNCHANGED <<grants, consents>>
      PROVE  SafeInv'
  <2>1. GrantsKept /\ DOMAIN grants' = DOMAIN grants
    BY <1>5, SameStore
  <2>2. /\ promise[Ask(c)] = "pending" /\ held[c] = NoGrant /\ c \notin ran /\ call[c] \in Keys
    BY <1>5 DEF SafeInv, CallInv
  <2>3. pc'[c] = "denied" /\ held' = held /\ call' = call /\ ran' = ran /\ promise'[Ask(c)] = v
    BY <1>5, AskIsRequest DEF Refuse, Enter, TypeOK
  <2>4. CallInv(c)'
    BY <2>2, <2>3 DEF CallInv, Ask
  <2>5. ASSUME NEW d \in Calls, d # c PROVE CallInv(d)'
    <3>1. pc'[d] = pc[d] /\ promise'[Ask(d)] = promise[Ask(d)]
      BY <1>5, <2>5, AskIsRequest, AskIsInjective DEF Refuse, Enter, TypeOK
    <3> QED
      BY <2>1, <2>3, <3>1, OtherCall DEF SafeInv
  <2>6. \A r \in Requests : promise'[r] = "approved" <=> promise[r] = "approved"
    BY <1>5, <2>2, AskIsRequest DEF TypeOK
  <2> QED
    BY <1>5, <2>1, <2>3, <2>4, <2>5, <2>6, FrameCalls
<1>6. ASSUME NEW c \in Calls, NEW m, Deny(c, m)
      PROVE  SafeInv'
  BY <1>5, <1>6 DEF Deny, Settle
<1>7. ASSUME NEW c \in Calls, TimeOut(c)
      PROVE  SafeInv'
  BY <1>5, <1>7 DEF TimeOut, TimerFires
\* A call moves on under the grant it holds.
<1>8. ASSUME NEW c \in Calls, NEW s \in {"running", "failed", "ok", "error"},
             pc[c] \in {"refreshing", "running"}, Enter({c}, s),
             ran' \subseteq ran \cup {c}, UNCHANGED <<grants, streamVars, call, held>>
      PROVE  SafeInv'
  <2>1. GrantsKept /\ DOMAIN grants' = DOMAIN grants
    BY <1>8, SameStore
  <2>2. /\ held[c] # NoGrant /\ call[c] \in Keys
        /\ promise[Ask(c)] \notin {"pending", "denied", "timeout", "closed", "lost"}
    BY <1>8 DEF SafeInv, CallInv
  <2>3. pc'[c] = s /\ promise' = promise
    BY <1>8 DEF Enter, TypeOK, streamVars
  <2>4. CallInv(c)'
    BY <1>8, <2>2, <2>3 DEF SafeInv, CallInv, Ask
  <2>5. ASSUME NEW d \in Calls, d # c PROVE CallInv(d)'
    BY <1>8, <2>1, <2>3, <2>5, OtherCall DEF Enter, SafeInv, TypeOK
  <2> QED
    BY <1>8, <2>1, <2>3, <2>4, <2>5, FrameCalls DEF streamVars
<1>9. ASSUME NEW c \in Calls, RefreshSucceeds(c) \/ RefreshFails(c)
      PROVE  SafeInv'
  <2>1. PICK state : UseToken(c, state)
    BY <1>9 DEF RefreshSucceeds, RefreshFails
  <2>2. ran' \subseteq ran \cup {c} /\ UNCHANGED <<call, held>>
    BY <2>1 DEF UseToken
  <2>3. CASE state = "absent"
    BY <1>8, <1>9, <2>1, <2>2, <2>3 DEF UseToken, RefreshSucceeds, RefreshFails
  <2>4. CASE state # "absent"
    BY <1>8, <1>9, <2>1, <2>2, <2>4 DEF UseToken, RefreshSucceeds, RefreshFails
  <2> QED
    BY <2>3, <2>4
<1>10. ASSUME NEW c \in Calls, PluginSucceeds(c) \/ PluginFails(c)
       PROVE  SafeInv'
  BY <1>8, <1>10 DEF PluginSucceeds, PluginFails
<1>11. ASSUME NEW m, LateAnswer(m)
       PROVE  SafeInv'
  BY <1>11, SameStore, Frame DEF LateAnswer, IgnoreLateAnswer, callVars
<1>12. ASSUME NEW p, NEW ts, Register(p, ts)
       PROVE  SafeInv'
  BY <1>12, SameStore, Frame DEF Register, callVars, streamVars
<1>13. ASSUME NEW p, PluginExits(p)
       PROVE  SafeInv'
  <2>1. GrantsKept /\ DOMAIN grants' = DOMAIN grants
    BY <1>13, SameStore DEF PluginExits
  <2>2. UNCHANGED <<call, held, ran, promise, consents, wire>>
    BY <1>13 DEF PluginExits, streamVars
  <2>3. ASSUME NEW c \in Calls PROVE CallInv(c)'
    <3>1. pc'[c] = pc[c] \/ (pc[c] = "running" /\ pc'[c] = "error")
      BY <1>13 DEF PluginExits, Enter, TypeOK
    <3>2. CASE pc'[c] = pc[c]
      BY <2>1, <2>2, <3>2, OtherCall DEF SafeInv
    <3>3. CASE pc[c] = "running" /\ pc'[c] = "error"
      BY <2>1, <2>2, <3>3 DEF SafeInv, CallInv, GrantsKept, Ask
    <3> QED
      BY <3>1, <3>2, <3>3
  <2> QED
    BY <2>1, <2>2, <2>3, FrameCalls
<1>14. ASSUME NEW p, NEW s, TokenChanges(p, s)
       PROVE  SafeInv'
  BY <1>14, SameStore, Frame DEF TokenChanges, callVars, streamVars
<1>15. ASSUME NEW g, Revoke(g)
       PROVE  SafeInv'
  BY <1>15, RevokeKeeps, Frame DEF Revoke, callVars, streamVars, TypeOK
<1>16. ASSUME NEW p, PhoneConnects(p) \/ PhoneDisconnects(p)
       PROVE  SafeInv'
  BY <1>16, SameStore, Frame DEF PhoneConnects, Connect, PhoneDisconnects, Disconnect, callVars
\* The only step that adds to the wire: an approval on it is consented to.
<1>17. ASSUME NEW p, NEW r, NEW d, UserTaps(p, r, d)
       PROVE  SafeInv'
  <2>1. GrantsKept /\ DOMAIN grants' = DOMAIN grants
    BY <1>17, SameStore DEF UserTaps
  <2>2. UNCHANGED <<call, pc, held, ran, promise>>
    BY <1>17 DEF UserTaps, Tap, callVars
  <2>3. \A c \in Calls : CallInv(c)'
    BY <2>1, <2>2, OtherCall DEF SafeInv
  <2>4. GrantInv'
    BY <2>1, <2>2, SameGrants DEF SafeInv
  <2>5. ConsentInv'
    BY <1>17, <2>2 DEF UserTaps, Tap, SafeInv, ConsentInv, Requests
  <2> QED
    BY <2>3, <2>4, <2>5 DEF SafeInv, CallInv, Ask
<1>18. CASE Tick
  BY <1>18, AgeKeeps, Frame DEF Tick, callVars, TypeOK
<1>19. CASE BeginShutdown \/ Exit \/ Restart
  BY <1>19, SameStore, Frame DEF BeginShutdown, Exit, Restart, callVars, streamVars
\* The stream goes down: every call that was asking ends with its promise.
<1>20. ASSUME NEW v \in {"closed", "lost"}, StreamDown(v),
              UNCHANGED <<grants, call, held, ran>>,
              \A c \in Calls : pc[c] = "asking" =>
                                  pc'[c] = IF v = "closed" THEN "denied" ELSE "lost",
              \A c \in Calls : pc[c] # "asking" =>
                                  \/ pc'[c] = pc[c]
                                  \/ pc[c] \in Waiting /\ pc'[c] \in {"denied", "lost"}
       PROVE  SafeInv'
  <2>1. GrantsKept /\ DOMAIN grants' = DOMAIN grants
    BY <1>20, SameStore
  <2>2. \A r \in Requests : promise'[r] = IF promise[r] = "pending" THEN v ELSE promise[r]
    BY <1>20 DEF StreamDown
  <2>3. ASSUME NEW c \in Calls PROVE CallInv(c)'
    <3>1. promise'[Ask(c)] = IF promise[Ask(c)] = "pending" THEN v ELSE promise[Ask(c)]
      BY <2>2, AskIsRequest
    <3>2. CASE pc[c] = "asking"
      <4>1. promise[Ask(c)] = "pending" /\ call[c] \in Keys /\ held[c] = NoGrant /\ c \notin ran
        BY <3>2 DEF SafeInv, CallInv
      <4> QED
        BY <1>20, <3>1, <3>2, <4>1 DEF CallInv, Ask
    <3>3. CASE pc[c] # "asking" /\ pc'[c] = pc[c]
      BY <1>20, <2>1, <3>1, <3>3, OtherCall DEF SafeInv, CallInv
    <3>4. CASE pc[c] \in Waiting \ {"asking"} /\ pc'[c] \in {"denied", "lost"}
      <4>1. /\ promise[Ask(c)] \notin {"pending", "denied", "timeout", "closed", "lost"}
            /\ call[c] \in Keys
        BY <3>4 DEF SafeInv, CallInv, Waiting
      <4> QED
        BY <1>20, <2>1, <3>1, <3>4, <4>1 DEF SafeInv, CallInv, GrantsKept, Ask
    <3> QED
      BY <1>20, <3>2, <3>3, <3>4
  <2> QED
    BY <1>20, <2>1, <2>2, <2>3, FrameCalls DEF StreamDown
<1>21. CASE StopServer
  BY <1>20, <1>21 DEF StopServer, Refuse, Enter, Waiting, TypeOK
<1>22. CASE Crash
  BY <1>20, <1>22 DEF Crash, Enter, WaitingCalls, Waiting, TypeOK
<1>23. CASE UNCHANGED vars
  BY <1>23, SameStore, Frame DEF vars, callVars, streamVars
<1> QED
  BY <1>1, <1>2, <1>3, <1>4, <1>6, <1>7, <1>9, <1>10, <1>11, <1>12, <1>13, <1>14,
     <1>15, <1>16, <1>17, <1>18, <1>19, <1>21, <1>22, <1>23 DEF Next, Handler, Environment

\* The inductive invariant holds in every reachable state.
THEOREM Inductive == Spec => []IInv
<1>1. Init => IInv
  BY InitType, InitSafe DEF IInv, SafeInv
<1>2. IInv /\ [Next]_vars => IInv'
  <2> SUFFICES ASSUME IInv, [Next]_vars
               PROVE  IInv'
    OBVIOUS
  <2>1. TypeOK'
    BY TypeStep DEF IInv
  <2>2. SafeInv'
    BY <2>1, SafeStep DEF IInv, SafeInv
  <2> QED
    BY <2>1, <2>2 DEF IInv, SafeInv, CallInv, Ask
<1> QED
  BY <1>1, <1>2, PTL DEF Spec

\* Every variable keeps to its type, whatever the interleaving.
THEOREM TypeCorrect == Spec => []TypeOK
  BY Inductive, PTL DEF IInv

\* Whatever reached a plugin holds a grant of its own key, with a tap of the
\* user behind it.
THEOREM ConsentTheorem == Spec => []RunsOnConsent
<1>1. IInv => RunsOnConsent
  <2> SUFFICES ASSUME IInv, NEW c \in ran
               PROVE  /\ held[c] \in DOMAIN grants
                      /\ grants[held[c]].key = call[c]
                      /\ \E d \in Calls :
                           /\ call[d] = call[c]
                           /\ promise[Ask(d)] = "approved"
                           /\ Ask(d) \in consents
    BY DEF RunsOnConsent
  <2>1. c \in Calls
    BY DEF IInv, TypeOK
  <2>2. held[c] \in DOMAIN grants /\ grants[held[c]].key = call[c]
    BY <2>1 DEF IInv, CallInv
  <2>3. PICK d \in Calls : call[d] = call[c] /\ promise[Ask(d)] = "approved"
    BY <2>2 DEF IInv, GrantInv
  <2>4. Ask(d) \in consents
    BY <2>3, AskIsRequest DEF IInv, ConsentInv
  <2> QED
    BY <2>2, <2>3, <2>4
<1> QED
  BY <1>1, Inductive, PTL

\* A refused call never gets a grant and never reaches a plugin.
THEOREM RefusalTheorem == Spec => []RefusalIsFinal
<1>1. IInv => RefusalIsFinal
  BY DEF IInv, CallInv, RefusalIsFinal
<1> QED
  BY <1>1, Inductive, PTL

-----------------------------------------------------------------------------

\* A request is settled once, whoever answers next.
LEMMA StandsStep ==
    ASSUME IInv, [Next]_vars, NEW r \in Requests, promise[r] \notin {"none", "pending"}
    PROVE  promise'[r] = promise[r]
<1> USE DEF StreamTypeOK
<1>1. ASSUME NEW c \in Calls, Handler(c)
      PROVE  promise'[r] = promise[r]
  <2>1. ASSUME NEW t, CallUnknownTool(c, t) PROVE promise'[r] = promise[r]
    BY <2>1 DEF CallUnknownTool, streamVars
  <2>2. ASSUME NEW t, NEW a, CallWithGrant(c, t, a) PROVE promise'[r] = promise[r]
    BY <2>2 DEF CallWithGrant, streamVars
  <2>3. ASSUME NEW t, NEW a, CallAsks(c, t, a) PROVE promise'[r] = promise[r]
    <3>1. promise[Ask(c)] = "none"
      BY <2>3 DEF CallAsks, IInv, CallInv
    <3> QED
      BY <2>3, <3>1 DEF CallAsks, RequestApproval, IInv, TypeOK
  <2>4. ASSUME NEW m, Approve(c, m) \/ Deny(c, m) PROVE promise'[r] = promise[r]
    BY <2>4 DEF Approve, Deny, Settle, IInv, TypeOK
  <2>5. CASE TimeOut(c)
    BY <2>5 DEF TimeOut, TimerFires, IInv, TypeOK
  <2>6. CASE RefreshSucceeds(c) \/ RefreshFails(c) \/ PluginSucceeds(c) \/ PluginFails(c)
    BY <2>6 DEF RefreshSucceeds, RefreshFails, PluginSucceeds, PluginFails, streamVars
  <2> QED
    BY <1>1, <2>1, <2>2, <2>3, <2>4, <2>5, <2>6 DEF Handler
<1>2. CASE Environment \/ Tick \/ Exit \/ Crash
  <2>1. CASE StopServer \/ Crash
    BY <2>1 DEF StopServer, Crash, StreamDown
  <2>2. CASE ~(StopServer \/ Crash)
    BY <1>2, <2>2 DEF Environment, LateAnswer, IgnoreLateAnswer, Register, PluginExits,
       TokenChanges, Revoke, PhoneConnects, Connect, PhoneDisconnects, Disconnect,
       UserTaps, Tap, Tick, BeginShutdown, Exit, Restart, streamVars
  <2> QED
    BY <2>1, <2>2
<1>3. CASE UNCHANGED vars
  BY <1>3 DEF vars, streamVars
<1> QED
  BY <1>1, <1>2, <1>3 DEF Next

\* No step of any behaviour changes what a request was settled as.
THEOREM AnswerTheorem == Spec => AnswerStands
<1>1. IInv /\ [Next]_vars =>
        [\A r \in Requests : promise[r] \notin {"none", "pending"} => promise'[r] = promise[r]]_vars
  BY StandsStep
<1> QED
  BY <1>1, Inductive, PTL DEF Spec, AnswerStands

-----------------------------------------------------------------------------
(***************************************************************************)
(* The handler implements the gate.                                        *)
(***************************************************************************)

\* A step that leaves grants, call and held alone is a stutter of the gate.
LEMMA GateStutter ==
    ASSUME UNCHANGED <<grants, call, held>>
    PROVE  UNCHANGED Gate!vars
  BY DEF Gate!vars, Active

\* A step on the table alone that keeps its rows, and after which nothing is
\* active that was not, withdraws.
LEMMA GateWithdraw ==
    ASSUME GrantsKept, DOMAIN grants' = DOMAIN grants, UNCHANGED <<call, held>>,
           \A g \in DOMAIN grants : Active(g)' => Active(g)
    PROVE  Gate!Withdraw
  BY DEF Gate!Withdraw, GrantsKept, Active

LEMMA RevokeWithdraws ==
    ASSUME GrantStoreTypeOK, NEW g, RevokeRow(g)
    PROVE  \A h \in DOMAIN grants : Active(h)' => Active(h)
  <1>1. grants[g] \in Rows /\ grants'[g] = [grants[g] EXCEPT !.revoked = TRUE]
    BY DEF GrantStoreTypeOK, RevokeRow
  <1>2. grants'[g].revoked
    BY <1>1 DEF Rows
  <1>3. \A h \in DOMAIN grants : h # g => grants'[h] = grants[h]
    BY DEF RevokeRow
  <1> QED
    BY <1>2, <1>3 DEF Active

LEMMA AgeWithdraws ==
    ASSUME GrantStoreTypeOK, AgeGrants
    PROVE  \A h \in DOMAIN grants : Active(h)' => Active(h)
  <1> SUFFICES ASSUME NEW h \in DOMAIN grants, Active(h)'
               PROVE  Active(h)
    OBVIOUS
  <1>1. grants[h] \in Rows /\ grants'[h] = [grants[h] EXCEPT !.ttl = IF @ = 0 THEN 0 ELSE @ - 1]
    BY DEF GrantStoreTypeOK, AgeGrants
  <1>2. /\ grants'[h].revoked = grants[h].revoked
        /\ grants'[h].ttl = IF grants[h].ttl = 0 THEN 0 ELSE grants[h].ttl - 1
    BY <1>1 DEF Rows
  <1>3. grants[h].ttl \in Nat
    BY <1>1, Constants DEF Rows
  <1> QED
    BY <1>2, <1>3 DEF Active

LEMMA GateStep ==
    ASSUME IInv, [Next]_vars
    PROVE  Gate!Next \/ UNCHANGED Gate!vars
<1>0. GrantStoreTypeOK /\ held \in [Calls -> GrantIds \cup {NoGrant}] /\ call \in [Calls -> Keys \cup {NoKey}]
  BY DEF IInv, TypeOK
<1>1. ASSUME NEW c \in Calls, NEW t \in Tools, NEW a \in Agents, CallWithGrant(c, t, a)
      PROVE  Gate!Next
  <2> DEFINE k == KeyOf(t, a)
  <2>1. k \in Keys
    BY <1>1, KeyOfType DEF IInv, CallWithGrant
  <2>2. PICK g \in FindActive(k) : Proceed(c, g, owner[t])
    BY <1>1 DEF CallWithGrant
  <2>3. g \in DOMAIN grants /\ grants[g].key = k /\ Active(g) /\ g \in GrantIds
    BY <1>0, FindActiveType DEF GrantStoreTypeOK
  <2>4. call[c] = NoKey
    BY <1>1 DEF CallWithGrant, IInv, CallInv
  <2>5. call' = [call EXCEPT ![c] = k] /\ held' = [held EXCEPT ![c] = g] /\ UNCHANGED grants
    BY <1>1, <2>2 DEF CallWithGrant, Proceed
  <2>6. Gate!Reuse(c, k, g)
    BY <2>3, <2>4, <2>5 DEF Gate!Reuse, Active
  <2> QED
    BY <2>1, <2>3, <2>6 DEF Gate!Next
<1>2. ASSUME NEW c \in Calls, NEW t \in Tools, NEW a \in Agents, CallAsks(c, t, a)
      PROVE  Gate!Next
  <2>1. KeyOf(t, a) \in Keys
    BY <1>2, KeyOfType DEF IInv, CallAsks
  <2>2. call[c] = NoKey
    BY <1>2 DEF CallAsks, IInv, CallInv
  <2>3. Gate!Ask(c, KeyOf(t, a))
    BY <1>2, <2>2 DEF CallAsks, Gate!Ask, Active
  <2> QED
    BY <2>1, <2>3 DEF Gate!Next
<1>3. ASSUME NEW c \in Calls, NEW m, Approve(c, m)
      PROVE  Gate!Next
  <2>1. PICK g \in GrantIds : CreateGrant(g, call[c]) /\ Proceed(c, g, call[c].plugin)
    BY <1>3 DEF Approve
  <2>2. call[c] \in Keys /\ held[c] = NoGrant
    BY <1>3 DEF Approve, IInv, CallInv
  <2>3. call' = call /\ held' = [held EXCEPT ![c] = g]
    BY <1>3, <2>1 DEF Approve, Proceed
  <2>4. /\ g \notin DOMAIN grants /\ DOMAIN grants' = DOMAIN grants \cup {g}
        /\ grants'[g] = [key |-> call[c], ttl |-> GrantTTL, revoked |-> FALSE]
        /\ \A h \in DOMAIN grants : grants'[h] = grants[h]
    BY <2>1 DEF CreateGrant
  <2>5. Active(g)' /\ \A h \in DOMAIN grants : Active(h)' <=> Active(h)
    BY <2>4, Constants DEF Active
  <2>6. {h \in DOMAIN grants : Active(h)}' = {h \in DOMAIN grants : Active(h)} \cup {g}
    BY <2>4, <2>5
  <2>7. [h \in DOMAIN grants |-> grants[h].key]'
          = [h \in DOMAIN grants \cup {g} |-> IF h = g THEN call[c] ELSE grants[h].key]
    BY <2>4
  <2>8. Gate!Consent(c, g)
    BY <2>2, <2>3, <2>4, <2>6, <2>7 DEF Gate!Consent
  <2> QED
    BY <2>8 DEF Gate!Next
<1>4. ASSUME NEW c \in Calls, Handler(c)
      PROVE  Gate!Next \/ UNCHANGED Gate!vars
  <2>1. ASSUME NEW t, CallUnknownTool(c, t) PROVE UNCHANGED <<grants, call, held>>
    BY <2>1 DEF CallUnknownTool
  <2>2. ASSUME NEW m, Deny(c, m) PROVE UNCHANGED <<grants, call, held>>
    BY <2>2 DEF Deny, Refuse
  <2>3. TimeOut(c) => UNCHANGED <<grants, call, held>>
    BY DEF TimeOut, Refuse
  <2>4. RefreshSucceeds(c) \/ RefreshFails(c) => UNCHANGED <<grants, call, held>>
    BY DEF RefreshSucceeds, RefreshFails, UseToken
  <2>5. PluginSucceeds(c) \/ PluginFails(c) => UNCHANGED <<grants, call, held>>
    BY DEF PluginSucceeds, PluginFails
  <2> QED
    BY <1>1, <1>2, <1>3, <1>4, <2>1, <2>2, <2>3, <2>4, <2>5, GateStutter DEF Handler
<1>5. ASSUME NEW g, Revoke(g)
      PROVE  Gate!Next
  <2>1. UNCHANGED <<call, held>>
    BY <1>5 DEF Revoke, callVars
  <2> QED
    BY <1>0, <1>5, <2>1, RevokeKeeps, RevokeWithdraws, GateWithdraw DEF Revoke, Gate!Next
<1>6. CASE Tick
  <2>1. UNCHANGED <<call, held>>
    BY <1>6 DEF Tick, callVars
  <2> QED
    BY <1>0, <1>6, <2>1, AgeKeeps, AgeWithdraws, GateWithdraw DEF Tick, Gate!Next
<1>7. CASE Environment \/ Exit \/ Crash
  <2>1. CASE \E g \in GrantIds : Revoke(g)
    BY <1>5, <2>1
  <2>2. CASE ~(\E g \in GrantIds : Revoke(g))
    <3>1. UNCHANGED <<grants, call, held>>
      BY <1>7, <2>2 DEF Environment, LateAnswer, Register, PluginExits, TokenChanges,
         PhoneConnects, PhoneDisconnects, UserTaps, BeginShutdown, StopServer, Refuse,
         Exit, Crash, Restart, callVars
    <3> QED
      BY <3>1, GateStutter
  <2> QED
    BY <2>1, <2>2
<1>8. CASE UNCHANGED vars
  BY <1>8, GateStutter DEF vars, callVars
<1> QED
  BY <1>4, <1>6, <1>7, <1>8 DEF Next

\* Every behaviour of the handler is one of the gate: a call runs only under a
\* licence the user issued for it or that was still good, and none comes back.
THEOREM GateTheorem == Spec => GateHolds
<1>1. Init => Gate!Init
  BY DEF Init, GrantStoreInit, Gate!Init, Active
<1>2. IInv /\ [Next]_vars => [Gate!Next]_Gate!vars
  BY GateStep
<1> QED
  BY <1>1, <1>2, Inductive, PTL DEF Spec, GateHolds, Gate!Spec

-----------------------------------------------------------------------------
(***************************************************************************)
(* The audit log.                                                          *)
(***************************************************************************)

\* The stages of a call that has its row.
Told == {"ok", "error", "denied"}

\* A row fits what became of its call.
RowFits(c, row) ==
    IF row.decision = "denied"
      THEN row.grant = NoGrant /\ c \notin ran
      ELSE c \in ran /\ row.grant \in DOMAIN grants /\ grants[row.grant].key = call[c]

Story(c) ==
    /\ Len(audit[c]) = IF pc[c] \in Told THEN 1 ELSE 0
    /\ \A i \in DOMAIN audit[c] : RowFits(c, audit[c][i])
    /\ pc[c] = "running" => c \in ran
    /\ pc[c] # "consulting"

StoryInv == \A c \in Calls : Story(c)

\* A call the step does not touch.
LEMMA StoryKept ==
    ASSUME NEW c \in Calls, Story(c), GrantsKept,
           pc'[c] = pc[c], call'[c] = call[c], audit'[c] = audit[c], c \in ran' <=> c \in ran
    PROVE  Story(c)'
  BY DEF Story, RowFits, GrantsKept, Told

\* A call that has no row yet and gets none.
LEMMA StoryEmpty ==
    ASSUME TypeOK, NEW c \in Calls, Story(c), pc[c] \notin Told, audit'[c] = audit[c],
           pc'[c] \notin Told \cup {"consulting"}, pc'[c] = "running" => c \in ran'
    PROVE  Story(c)'
  <1>1. audit[c] \in Seq(AuditRows) /\ Len(audit[c]) = 0
    BY DEF TypeOK, Story
  <1>2. DOMAIN audit'[c] = {}
    BY <1>1
  <1> QED
    BY <1>1, <1>2 DEF Story, Told

\* A call that gets its row.
LEMMA StoryWritten ==
    ASSUME TypeOK, NEW c \in Calls, Story(c), pc[c] \notin Told, pc'[c] \in Told,
           NEW d \in {"approved", "denied", "error"}, NEW cs, c \in cs, Log(cs, d),
           IF d = "denied" THEN held[c] = NoGrant /\ c \notin ran'
           ELSE c \in ran' /\ held[c] \in DOMAIN grants' /\ grants'[held[c]].key = call'[c]
    PROVE  Story(c)'
  <1> DEFINE row == [decision |-> d, grant |-> held[c]]
  <1>1. audit[c] \in Seq(AuditRows) /\ Len(audit[c]) = 0 /\ row \in AuditRows
    BY DEF TypeOK, Story, AuditRows
  <1>2. audit'[c] = Append(audit[c], row)
    BY DEF Log
  <1>3. Len(audit'[c]) = 1 /\ DOMAIN audit'[c] = {1} /\ audit'[c][1] = row
    BY <1>1, <1>2
  <1>4. IF row.decision = "denied" THEN row.grant = NoGrant /\ c \notin ran'
        ELSE c \in ran' /\ row.grant \in DOMAIN grants' /\ grants'[row.grant].key = call'[c]
    OBVIOUS
  <1>5. pc'[c] \notin {"running", "consulting"}
    BY DEF Told
  <1> HIDE DEF row
  <1> QED
    BY <1>3, <1>4, <1>5 DEF Story, Told, RowFits

LEMMA InitStory == Init => StoryInv
  BY DEF Init, StoryInv, Story, Told

LEMMA StoryStep ==
    ASSUME IInv, StoryInv, [Next]_vars
    PROVE  StoryInv'
<1>0. TypeOK /\ \A c \in Calls : CallInv(c) /\ Story(c)
  BY DEF IInv, StoryInv
<1>1. ASSUME NEW c \in Calls, GrantsKept, Story(c)',
             \A d \in Calls : d # c => /\ pc'[d] = pc[d] /\ call'[d] = call[d]
                                       /\ audit'[d] = audit[d] /\ (d \in ran' <=> d \in ran)
      PROVE  StoryInv'
  <2>1. \A d \in Calls : Story(d)'
    BY <1>0, <1>1, StoryKept
  <2> QED
    BY <2>1 DEF StoryInv, Story, RowFits, Told
\* A call without a row moves on.
<1>2. ASSUME NEW c \in Calls, GrantsKept, NEW s, Enter({c}, s), pc[c] \notin Told, UNCHANGED audit,
             s \notin Told \cup {"consulting"}, s = "running" => c \in ran',
             \A d \in Calls : d # c => call'[d] = call[d] /\ (d \in ran' <=> d \in ran)
      PROVE  StoryInv'
  <2>1. pc'[c] = s /\ \A d \in Calls : d # c => pc'[d] = pc[d]
    BY <1>2 DEF Enter
  <2>2. Story(c)'
    BY <1>0, <1>2, <2>1, StoryEmpty
  <2> QED
    BY <1>1, <1>2, <2>1, <2>2
<1>p. ASSUME NEW c \in Calls, NEW g, NEW p \in Plugins, Proceed(c, g, p), GrantsKept,
             pc[c] \notin Told, \A d \in Calls : d # c => call'[d] = call[d]
      PROVE  StoryInv'
  <2>1. PICK s \in AfterGrant(p) : /\ Enter({c}, s)
                                   /\ ran' = IF s = "running" THEN ran \cup {c} ELSE ran
                                   /\ UNCHANGED audit
    BY <1>p DEF Proceed
  <2>2. s \in {"running", "refreshing", "failed"}
    BY <1>0, <2>1 DEF AfterGrant, TypeOK, TokenStates
  <2> QED
    BY <1>2, <1>p, <2>1, <2>2 DEF Told
<1>3. ASSUME NEW c \in Calls, NEW t, CallUnknownTool(c, t) PROVE StoryInv'
  BY <1>2, <1>3, SameStore DEF CallUnknownTool, Told
<1>4. ASSUME NEW c \in Calls, NEW t \in Tools, NEW a, CallWithGrant(c, t, a) PROVE StoryInv'
  <2>1. PICK g \in FindActive(KeyOf(t, a)) : Proceed(c, g, owner[t])
    BY <1>4 DEF CallWithGrant
  <2>2. /\ owner[t] \in Plugins /\ GrantsKept /\ pc[c] \notin Told
        /\ \A d \in Calls : d # c => call'[d] = call[d]
    BY <1>0, <1>4, SameStore DEF CallWithGrant, TypeOK, Told
  <2> QED
    BY <1>p, <2>1, <2>2
<1>5. ASSUME NEW c \in Calls, NEW t, NEW a, CallAsks(c, t, a) PROVE StoryInv'
  <2>1. \A d \in Calls : d # c => call'[d] = call[d]
    BY <1>0, <1>5 DEF CallAsks, TypeOK
  <2> QED
    BY <1>2, <1>5, <2>1, SameStore DEF CallAsks, Told
<1>6. ASSUME NEW c \in Calls, NEW m, Approve(c, m) PROVE StoryInv'
  <2>1. PICK g \in GrantIds : CreateGrant(g, call[c]) /\ Proceed(c, g, call[c].plugin)
    BY <1>6 DEF Approve
  <2>2. call[c].plugin \in Plugins /\ UNCHANGED call /\ pc[c] \notin Told
    BY <1>0, <1>6 DEF Approve, CallInv, Keys, Told
  <2> QED
    BY <1>p, <2>1, <2>2, CreateKeeps
<1>7. ASSUME NEW c \in Calls, pc[c] = "asking", Refuse({c}), UNCHANGED grants PROVE StoryInv'
  <2>1. held[c] = NoGrant /\ c \notin ran
    BY <1>0, <1>7 DEF CallInv
  <2>2. pc'[c] = "denied" /\ (\A d \in Calls : d # c => pc'[d] = pc[d]) /\ UNCHANGED <<call, ran>>
    BY <1>7 DEF Refuse, Enter
  <2>3. Log({c}, "denied") /\ \A d \in Calls : d # c => audit'[d] = audit[d]
    BY <1>7 DEF Refuse, Log
  <2>4. Story(c)'
    BY <1>0, <1>7, <2>1, <2>2, <2>3, StoryWritten DEF Told
  <2> QED
    BY <1>1, <1>7, <2>2, <2>3, <2>4, SameStore
<1>8. ASSUME NEW c \in Calls, NEW m, Deny(c, m) PROVE StoryInv'
  BY <1>7, <1>8 DEF Deny
<1>9. ASSUME NEW c \in Calls, TimeOut(c) PROVE StoryInv'
  BY <1>7, <1>9 DEF TimeOut
<1>10. ASSUME NEW c \in Calls, RefreshSucceeds(c) \/ RefreshFails(c) PROVE StoryInv'
  <2>1. PICK state : UseToken(c, state)
    BY <1>10 DEF RefreshSucceeds, RefreshFails
  <2>2. pc[c] \notin Told /\ GrantsKept
    BY <1>10, SameStore DEF RefreshSucceeds, RefreshFails, Told
  <2>3. PICK s \in {"failed", "running"} : /\ Enter({c}, s) /\ UNCHANGED <<call, audit>>
                                           /\ ran' = IF s = "running" THEN ran \cup {c} ELSE ran
    BY <2>1 DEF UseToken
  <2> QED
    BY <1>2, <2>2, <2>3 DEF Told
<1>11. ASSUME NEW c \in Calls, PluginSucceeds(c) \/ PluginFails(c) PROVE StoryInv'
  <2>1. PICK d \in {"approved", "error"} : Log({c}, d)
    BY <1>11 DEF PluginSucceeds, PluginFails
  <2>2. /\ pc[c] = "running" /\ pc'[c] \in {"ok", "error"}
        /\ (\A e \in Calls : e # c => pc'[e] = pc[e]) /\ UNCHANGED <<grants, call, ran>>
    BY <1>11 DEF PluginSucceeds, PluginFails, Enter
  <2>3. c \in ran /\ held[c] \in DOMAIN grants /\ grants[held[c]].key = call[c]
    BY <1>0, <2>2 DEF Story, CallInv
  <2>4. \A e \in Calls : e # c => audit'[e] = audit[e]
    BY <2>1 DEF Log
  <2>5. Story(c)'
    BY <1>0, <2>1, <2>2, <2>3, StoryWritten DEF Told
  <2> QED
    BY <1>1, <2>2, <2>4, <2>5, SameStore
\* Steps of several calls at once, each of which stays, is refused, is cut or
\* is lost.
<1>12. ASSUME NEW cs, NEW s \in {"error", "denied"}, Enter(cs, s), Log(cs, s), UNCHANGED <<grants, call, ran>>,
              \A c \in Calls : c \in cs => pc[c] = IF s = "error" THEN "running" ELSE "asking"
       PROVE  StoryInv'
  <2>1. ASSUME NEW c \in Calls PROVE Story(c)'
    <3>1. CASE c \in cs
      <4>1. pc'[c] = s /\ pc[c] = IF s = "error" THEN "running" ELSE "asking"
        BY <1>12, <3>1 DEF Enter
      <4>2. IF s = "denied" THEN held[c] = NoGrant /\ c \notin ran
            ELSE c \in ran /\ held[c] \in DOMAIN grants /\ grants[held[c]].key = call[c]
        BY <1>0, <4>1 DEF CallInv, Story
      <4> QED
        BY <1>0, <1>12, <3>1, <4>1, <4>2, StoryWritten DEF Told
    <3>2. CASE c \notin cs
      <4>1. pc'[c] = pc[c] /\ audit'[c] = audit[c]
        BY <1>12, <3>2 DEF Enter, Log
      <4> QED
        BY <1>0, <1>12, <4>1, SameStore, StoryKept
    <3> QED
      BY <3>1, <3>2
  <2> QED
    BY <2>1 DEF StoryInv, Story, RowFits, Told
<1>13. ASSUME NEW p, PluginExits(p) PROVE StoryInv'
  BY <1>12, <1>13 DEF PluginExits
<1>14. ASSUME StopServer PROVE StoryInv'
  <2>1. \A c \in Calls : pc[c] # "consulting"
    BY <1>0 DEF Story
  <2> QED
    BY <1>12, <1>14, <2>1 DEF StopServer, Refuse
<1>15. ASSUME Crash PROVE StoryInv'
  <2>1. UNCHANGED <<grants, call, ran, audit>> /\ \A c \in Calls : pc'[c] = IF pc[c] \in Waiting THEN "lost" ELSE pc[c]
    BY <1>15 DEF Crash, Enter, WaitingCalls
  <2>2. ASSUME NEW c \in Calls PROVE Story(c)'
    <3>1. CASE pc[c] \in Waiting
      BY <1>0, <2>1, <3>1, StoryEmpty DEF Waiting, Told
    <3>2. CASE pc[c] \notin Waiting
      BY <1>0, <2>1, <3>2, SameStore, StoryKept
    <3> QED
      BY <3>1, <3>2
  <2> QED
    BY <2>2 DEF StoryInv, Story, RowFits, Told
<1>16. ASSUME GrantsKept, UNCHANGED callVars PROVE StoryInv'
  <2>1. \A c \in Calls : Story(c)'
    BY <1>0, <1>16, StoryKept DEF callVars
  <2> QED
    BY <2>1 DEF StoryInv, Story, RowFits, Told
<1>17. ASSUME Environment PROVE StoryInv'
  <2>1. CASE \E g \in GrantIds : Revoke(g)
    BY <1>0, <1>16, <2>1, RevokeKeeps DEF Revoke, TypeOK
  <2>2. CASE \E p \in Plugins : PluginExits(p)
    BY <1>13, <2>2
  <2>3. CASE StopServer
    BY <1>14, <2>3
  <2>4. CASE /\ ~(\E g \in GrantIds : Revoke(g)) /\ ~(\E p \in Plugins : PluginExits(p))
             /\ ~StopServer
    <3>1. UNCHANGED <<grants, callVars>>
      BY <1>17, <2>4 DEF Environment, LateAnswer, Register, TokenChanges, PhoneConnects,
         PhoneDisconnects, UserTaps, BeginShutdown, Restart
    <3> QED
      BY <1>16, <3>1, SameStore
  <2> QED
    BY <2>1, <2>2, <2>3, <2>4
<1>18. ASSUME Tick PROVE StoryInv'
  BY <1>0, <1>16, <1>18, AgeKeeps DEF Tick, TypeOK
<1>19. ASSUME Exit \/ UNCHANGED vars PROVE StoryInv'
  BY <1>16, <1>19, SameStore DEF Exit, vars
<1> QED
  BY <1>3, <1>4, <1>5, <1>6, <1>8, <1>9, <1>10, <1>11, <1>15, <1>17, <1>18, <1>19 DEF Next, Handler

\* A call that was refused or that the plugin answered has one audit row that tells
\* what became of it; none has two (handleCallTool's appends).
THEOREM AuditTheorem == Spec => []AuditTellsTheStory
<1>1. Init => StoryInv
  BY InitStory
<1>2. IInv /\ StoryInv /\ [Next]_vars => StoryInv'
  BY StoryStep
<1>3. StoryInv => AuditTellsTheStory
  <2>1. ASSUME NEW c \in Calls, Story(c)
        PROVE  /\ Len(audit[c]) <= IF pc[c] \in Waiting THEN 0 ELSE 1
               /\ pc[c] \in {"ok", "error", "denied"} => Len(audit[c]) = 1
    <3>1. pc[c] \in Waiting => pc[c] \notin Told
      BY DEF Waiting, Told
    <3>2. Len(audit[c]) = IF pc[c] \in Told THEN 1 ELSE 0
      BY <2>1 DEF Story
    <3> QED BY <3>1, <3>2 DEF Told
  <2> QED BY <2>1 DEF StoryInv, Story, AuditTellsTheStory, RowFits
<1> QED
  BY <1>1, <1>2, <1>3, Inductive, PTL DEF Spec

-----------------------------------------------------------------------------
(***************************************************************************)
(* The grants table.  Of a key, every row has its own approved call; both  *)
(* sets grow by one in Approve and in no other step.                       *)
(***************************************************************************)

RowsOf(k) == {g \in DOMAIN grants : grants[g].key = k}

ApprovedOf(k) == {c \in Calls : call[c] = k /\ promise[Ask(c)] = "approved"}

EarnedInv == \A k \in Keys : Cardinality(RowsOf(k)) <= Cardinality(ApprovedOf(k))

\* Behaviours in which finitely many calls are made and uuids drawn.
Finitely == IsFiniteSet(Calls) /\ IsFiniteSet(GrantIds)

LEMMA CountsAreNumbers ==
    ASSUME Finitely, TypeOK, NEW k
    PROVE  /\ IsFiniteSet(RowsOf(k)) /\ IsFiniteSet(ApprovedOf(k))
           /\ Cardinality(RowsOf(k)) \in Nat /\ Cardinality(ApprovedOf(k)) \in Nat
  <1>1. RowsOf(k) \in SUBSET GrantIds /\ ApprovedOf(k) \in SUBSET Calls
    BY DEF RowsOf, ApprovedOf, TypeOK, GrantStoreTypeOK
  <1>2. IsFiniteSet(RowsOf(k)) /\ IsFiniteSet(ApprovedOf(k))
    BY <1>1, FS_Subset DEF Finitely
  <1> QED
    BY <1>2, FS_CardinalityType

\* An approved call stays the approved call it was.
ApprovedStay ==
    \A c \in Calls : promise[Ask(c)] = "approved" =>
                        promise'[Ask(c)] = "approved" /\ call'[c] = call[c]

\* A step that adds no row.
LEMMA EarnedSame ==
    ASSUME Finitely, TypeOK, TypeOK', EarnedInv, ApprovedStay,
           GrantsKept, DOMAIN grants' = DOMAIN grants
    PROVE  EarnedInv'
  <1> SUFFICES ASSUME NEW k \in Keys
               PROVE  Cardinality(RowsOf(k)') <= Cardinality(ApprovedOf(k)')
    BY DEF EarnedInv
  <1>1. RowsOf(k)' = RowsOf(k)
    BY DEF RowsOf, GrantsKept
  <1>2. ApprovedOf(k) \in SUBSET ApprovedOf(k)'
    BY DEF ApprovedOf, ApprovedStay, Ask
  <1>3. ApprovedOf(k)' \in SUBSET Calls
    BY DEF ApprovedOf
  <1>4. IsFiniteSet(ApprovedOf(k)') /\ Cardinality(ApprovedOf(k)') \in Nat
    BY <1>3, FS_Subset, FS_CardinalityType DEF Finitely
  <1>5. Cardinality(ApprovedOf(k)) <= Cardinality(ApprovedOf(k)')
    BY <1>2, <1>4, FS_Subset
  <1> QED
    BY <1>1, <1>4, <1>5, CountsAreNumbers DEF EarnedInv

\* The step that adds one, for a call that was not approved before.
LEMMA EarnedOne ==
    ASSUME Finitely, TypeOK, TypeOK', EarnedInv, ApprovedStay, NEW c \in Calls, NEW g,
           CreateGrant(g, call[c]), call' = call,
           promise[Ask(c)] # "approved", promise'[Ask(c)] = "approved"
    PROVE  EarnedInv'
  <1> SUFFICES ASSUME NEW k \in Keys
               PROVE  Cardinality(RowsOf(k)') <= Cardinality(ApprovedOf(k)')
    BY DEF EarnedInv
  <1>1. /\ g \notin DOMAIN grants /\ DOMAIN grants' = DOMAIN grants \cup {g}
        /\ grants'[g].key = call[c] /\ \A h \in DOMAIN grants : grants'[h].key = grants[h].key
    BY DEF CreateGrant
  <1>2. ApprovedOf(k)' \in SUBSET Calls
    BY DEF ApprovedOf
  <1>3. IsFiniteSet(ApprovedOf(k)') /\ Cardinality(ApprovedOf(k)') \in Nat
    BY <1>2, FS_Subset, FS_CardinalityType DEF Finitely
  <1>4. /\ Cardinality(RowsOf(k)) <= Cardinality(ApprovedOf(k))
        /\ Cardinality(RowsOf(k)) \in Nat /\ Cardinality(ApprovedOf(k)) \in Nat
        /\ IsFiniteSet(RowsOf(k)) /\ IsFiniteSet(ApprovedOf(k))
    BY CountsAreNumbers DEF EarnedInv
  <1>5. CASE call[c] = k
    <2>1. RowsOf(k)' = RowsOf(k) \cup {g} /\ g \notin RowsOf(k)
      BY <1>1, <1>5 DEF RowsOf
    <2>2. Cardinality(RowsOf(k)') = Cardinality(RowsOf(k)) + 1
      BY <1>4, <2>1, FS_AddElement
    <2>3. c \notin ApprovedOf(k) /\ ApprovedOf(k) \cup {c} \in SUBSET ApprovedOf(k)'
      BY <1>5 DEF ApprovedOf, ApprovedStay, Ask
    <2>4. Cardinality(ApprovedOf(k) \cup {c}) = Cardinality(ApprovedOf(k)) + 1
      BY <1>4, <2>3, FS_AddElement
    <2>5. Cardinality(ApprovedOf(k) \cup {c}) <= Cardinality(ApprovedOf(k)')
      BY <1>3, <2>3, FS_Subset
    <2> QED
      BY <1>3, <1>4, <2>2, <2>4, <2>5
  <1>6. CASE call[c] # k
    <2>1. RowsOf(k)' = RowsOf(k)
      BY <1>1, <1>6 DEF RowsOf
    <2>2. ApprovedOf(k) \in SUBSET ApprovedOf(k)'
      BY DEF ApprovedOf, ApprovedStay, Ask
    <2>3. Cardinality(ApprovedOf(k)) <= Cardinality(ApprovedOf(k)')
      BY <1>3, <2>2, FS_Subset
    <2> QED
      BY <1>3, <1>4, <2>1, <2>3
  <1> QED
    BY <1>5, <1>6

\* A call whose request is settled is past the steps that name its key.
LEMMA CallStays ==
    ASSUME IInv, [Next]_vars, NEW c \in Calls, promise[Ask(c)] = "approved"
    PROVE  call'[c] = call[c]
<1>0. pc[c] # "idle" /\ call \in [Calls -> Keys \cup {NoKey}]
  BY DEF IInv, CallInv, TypeOK
<1>1. ASSUME NEW d \in Calls, Handler(d) PROVE call'[c] = call[c]
  BY <1>0, <1>1 DEF Handler, CallUnknownTool, CallWithGrant, CallAsks, Approve, Deny, TimeOut,
     Refuse, RefreshSucceeds, RefreshFails, UseToken, PluginSucceeds, PluginFails
<1>2. Environment => UNCHANGED call
  BY DEF Environment, LateAnswer, Register, PluginExits, TokenChanges, Revoke, PhoneConnects,
     PhoneDisconnects, UserTaps, BeginShutdown, StopServer, Refuse, Restart, callVars
<1>3. Tick \/ Exit \/ Crash \/ UNCHANGED vars => UNCHANGED call
  BY DEF Tick, Exit, Crash, vars, callVars
<1> QED
  BY <1>1, <1>2, <1>3 DEF Next

LEMMA EarnedStep ==
    ASSUME Finitely, IInv, IInv', EarnedInv, [Next]_vars
    PROVE  EarnedInv'
<1>0. TypeOK /\ TypeOK'
  BY DEF IInv
<1>1. ApprovedStay
  BY CallStays, StandsStep, AskIsRequest DEF ApprovedStay
<1>2. ASSUME UNCHANGED grants PROVE EarnedInv'
  BY <1>0, <1>1, <1>2, SameStore, EarnedSame
<1>3. ASSUME NEW c \in Calls, NEW m, Approve(c, m) PROVE EarnedInv'
  <2>1. PICK g \in GrantIds : CreateGrant(g, call[c])
    BY <1>3 DEF Approve
  <2>2. promise[Ask(c)] = "pending" /\ promise'[Ask(c)] = "approved" /\ call' = call
    BY <1>0, <1>3, AskIsRequest DEF Approve, Settle, TypeOK, StreamTypeOK
  <2> QED
    BY <1>0, <1>1, <2>1, <2>2, EarnedOne
<1>4. ASSUME NEW c \in Calls, Handler(c) PROVE EarnedInv'
  <2>1. (\E m \in wire : Approve(c, m)) \/ UNCHANGED grants
    BY <1>4 DEF Handler, CallUnknownTool, CallWithGrant, CallAsks, Deny, TimeOut,
       RefreshSucceeds, RefreshFails, PluginSucceeds, PluginFails
  <2> QED
    BY <1>2, <1>3, <2>1
<1>5. ASSUME NEW g, Revoke(g) PROVE EarnedInv'
  BY <1>0, <1>1, <1>5, RevokeKeeps, EarnedSame DEF Revoke, TypeOK
<1>6. ASSUME Environment PROVE EarnedInv'
  <2>1. (\E g \in GrantIds : Revoke(g)) \/ UNCHANGED grants
    BY <1>6 DEF Environment, LateAnswer, Register, PluginExits, TokenChanges, PhoneConnects,
       PhoneDisconnects, UserTaps, BeginShutdown, StopServer, Restart
  <2> QED
    BY <1>2, <1>5, <2>1
<1>7. ASSUME Tick PROVE EarnedInv'
  BY <1>0, <1>1, <1>7, AgeKeeps, EarnedSame DEF Tick, TypeOK
<1>8. ASSUME Exit \/ Crash \/ UNCHANGED vars PROVE EarnedInv'
  BY <1>2, <1>8 DEF Exit, Crash, vars
<1> QED
  BY <1>4, <1>6, <1>7, <1>8 DEF Next

\* There are never more grants of a key than calls of it that the user approved.
THEOREM EarnedTheorem ==
    ASSUME Finitely
    PROVE  Spec => []GrantsAreEarned
<1>1. Init => EarnedInv
  <2> SUFFICES ASSUME Init, NEW k \in Keys
               PROVE  Cardinality(RowsOf(k)) <= Cardinality(ApprovedOf(k))
    BY DEF EarnedInv
  <2>1. RowsOf(k) = {}
    BY DEF Init, GrantStoreInit, RowsOf
  <2>2. ApprovedOf(k) \in SUBSET Calls
    BY DEF ApprovedOf
  <2>3. Cardinality(ApprovedOf(k)) \in Nat
    BY <2>2, FS_Subset, FS_CardinalityType DEF Finitely
  <2> QED
    BY <2>1, <2>3, FS_EmptySet
<1>2. IInv /\ IInv' /\ EarnedInv /\ [Next]_vars => EarnedInv'
  BY EarnedStep
<1>3. IInv /\ EarnedInv => GrantsAreEarned
  <2> SUFFICES ASSUME IInv, EarnedInv, NEW k \in {grants[g].key : g \in DOMAIN grants}
               PROVE  Cardinality(RowsOf(k)) <= Cardinality(ApprovedOf(k))
    BY DEF GrantsAreEarned, RowsOf, ApprovedOf
  <2>1. k \in Keys
    BY DEF IInv, TypeOK, GrantStoreTypeOK, Rows
  <2> QED
    BY <2>1 DEF EarnedInv
<1> QED
  BY <1>1, <1>2, <1>3, Inductive, PTL DEF Spec
=============================================================================
