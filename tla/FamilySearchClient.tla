------------------------- MODULE FamilySearchClient -------------------------
(***************************************************************************)
(* The FamilySearch adapter's request loop (FamilySearchAdapter.request)   *)
(* over the token provider its calls share (RefreshTokenProvider): calls   *)
(* overlap, join one refresh of the access token, retry after 401 and 429, *)
(* and, when they only read, after a 5xx or a lost answer.  Access and     *)
(* refresh tokens are numbered; the service rotates the refresh token with *)
(* every grant, so that the one before it is of no use.                    *)
(***************************************************************************)
EXTENDS Naturals, Sequences

CONSTANTS Query,           \* calls of request that may overlap
          Write,           \* those that post
          Retries,         \* config.retries
          MaxRateRetries,  \* maxRateLimitRetries
          MaxTokens        \* bound: access tokens the service grants

ASSUME ClientAssumption == Write \subseteq Query /\ Retries \in Nat /\ MaxRateRetries \in Nat

VARIABLES query,     \* per call: where it is, its token, what it has retried
          effects,   \* per write: how often it took effect
          access,    \* the provider's access token, 0 when it has none or it expired
          refresh,   \* the provider's refresh token
          asking,    \* refresh requests in flight: the refresh token each presents
          granted,   \* access tokens the service has granted
          valid,     \* the access token the service accepts, 0 for none
          chain,     \* the refresh token the service accepts
          grantLost, \* the answer to a grant was lost
          refused    \* the service refused a refresh

clientVars == <<query, effects, access, refresh, asking, granted, valid, chain, grantLost, refused>>
service == <<granted, valid, chain, grantLost, refused>>
provider == <<access, refresh, asking>>

Fresh == [at |-> "token", token |-> 0, auth |-> FALSE, rate |-> 0, transient |-> 0]

ClientInit ==
  /\ query = [q \in Query |-> [Fresh EXCEPT !.at = "idle"]]
  /\ effects = [q \in Query |-> 0]
  /\ access = 1
  /\ refresh = 1
  /\ asking = <<>>
  /\ granted = 1
  /\ valid = 1
  /\ chain = 1
  /\ grantLost = FALSE
  /\ refused = FALSE

Issue(q) ==
  /\ query[q].at = "idle"
  /\ query' = [query EXCEPT ![q] = Fresh]
  /\ effects' = [effects EXCEPT ![q] = 0]
  /\ UNCHANGED <<provider, service>>

(* Slip: every caller starts a refresh of its own. *)
AskAgain == Append(asking, refresh)
Ask == IF asking = <<>> THEN <<refresh>> ELSE asking

(* getToken: the token at hand, or the one refresh that is in flight. *)
GetToken(q) ==
  /\ query[q].at = "token"
  /\ IF access # 0
     THEN /\ query' = [query EXCEPT ![q].at = "send", ![q].token = access]
          /\ UNCHANGED asking
     ELSE /\ query' = [query EXCEPT ![q].at = "await"]
          /\ asking' = Ask
  /\ UNCHANGED <<effects, access, refresh, service>>

(* The callers that await the refresh go on with its token, or throw. *)
Resume(token) ==
  query' = [q \in Query |->
    IF query[q].at # "await" THEN query[q]
    ELSE IF token = 0 THEN [query[q] EXCEPT !.at = "failed"]
    ELSE [query[q] EXCEPT !.at = "send", !.token = token]]

(* The service answers a refresh: with new tokens when the token presented is the last of
   its chain; the answer may be lost. *)
Grant(lost) ==
  /\ asking # <<>> /\ Head(asking) = chain /\ granted < MaxTokens
  /\ granted' = granted + 1
  /\ valid' = granted'
  /\ chain' = granted'
  /\ IF lost THEN UNCHANGED <<access, refresh>> ELSE access' = granted' /\ refresh' = granted'
  /\ Resume(IF lost THEN 0 ELSE granted')
  /\ asking' = Tail(asking)
  /\ grantLost' = (grantLost \/ lost)
  /\ UNCHANGED <<effects, refused>>

Refuse ==
  /\ asking # <<>> /\ Head(asking) # chain
  /\ refused' = TRUE
  /\ Resume(0)
  /\ asking' = Tail(asking)
  /\ UNCHANGED <<effects, access, refresh, granted, valid, chain, grantLost>>

(* The request for a token gets no answer, and did not reach the service. *)
AskFails ==
  /\ asking # <<>>
  /\ Resume(0)
  /\ asking' = Tail(asking)
  /\ UNCHANGED <<effects, access, refresh, service>>

(* Tokens end by the provider's clock, or are withdrawn by the service before. *)
Expire == access # 0 /\ access' = 0 /\ UNCHANGED <<query, effects, refresh, asking, service>>
Withdraw == valid # 0 /\ valid' = 0 /\ UNCHANGED <<query, effects, provider, granted, chain, grantLost, refused>>

(* The answers of the service to a request with an accepted token. *)
Succeed(q) ==
  /\ query[q].at = "send" /\ query[q].token = valid
  /\ query' = [query EXCEPT ![q].at = "done"]
  /\ effects' = [effects EXCEPT ![q] = IF q \in Write THEN @ + 1 ELSE @]
  /\ UNCHANGED <<provider, service>>

Again(q, count) == [query EXCEPT ![q].at = "token", ![q][count] = @ + 1]
GiveUp(q) == [query EXCEPT ![q].at = "failed"]

RetryRead(q) ==
  IF q \notin Write /\ query[q].transient + 1 < Retries THEN Again(q, "transient") ELSE GiveUp(q)

(* No answer, or a 5xx, whether the request took effect or not. *)
Falter(q, effect) ==
  /\ query[q].at = "send"
  /\ effect => q \in Write /\ query[q].token = valid
  /\ query' = RetryRead(q)
  /\ effects' = [effects EXCEPT ![q] = IF effect THEN @ + 1 ELSE @]
  /\ UNCHANGED <<provider, service>>

(* 401: once per call the provider's token is dropped, whichever it is by now. *)
Unauthorized(q) ==
  /\ query[q].at = "send" /\ query[q].token # valid
  /\ IF query[q].auth
     THEN query' = GiveUp(q) /\ UNCHANGED access
     ELSE query' = [query EXCEPT ![q].at = "token", ![q].auth = TRUE] /\ access' = 0
  /\ UNCHANGED <<effects, refresh, asking, service>>

RateLimited(q) ==
  /\ query[q].at = "send"
  /\ query' = IF query[q].rate < MaxRateRetries THEN Again(q, "rate") ELSE GiveUp(q)
  /\ UNCHANGED <<effects, provider, service>>

(* 301, 410 and every other status. *)
Reject(q) ==
  /\ query[q].at = "send"
  /\ query' = GiveUp(q)
  /\ UNCHANGED <<effects, provider, service>>

(* A finished call's caller may call again. *)
Rest(q) ==
  /\ query[q].at \in {"done", "failed"}
  /\ query' = [query EXCEPT ![q] = [Fresh EXCEPT !.at = "idle"]]
  /\ effects' = [effects EXCEPT ![q] = 0]
  /\ UNCHANGED <<provider, service>>

ClientNext ==
  \/ \E q \in Query :
       \/ Issue(q) \/ GetToken(q) \/ Succeed(q) \/ Unauthorized(q) \/ RateLimited(q) \/ Reject(q) \/ Rest(q)
       \/ \E effect \in BOOLEAN : Falter(q, effect)
  \/ \E lost \in BOOLEAN : Grant(lost)
  \/ Refuse \/ AskFails \/ Expire \/ Withdraw

ClientSpec == ClientInit /\ [][ClientNext]_clientVars
-----------------------------------------------------------------------------
(* Nothing is spent twice.  A write takes effect at most once however often its call
   retries (FamilySearchAdapter.ts:308: not retried without an answer, to avoid duplicates),
   and the service refuses a refresh only after the answer to a grant was lost: callers that
   need a token at the same time share one refresh (tokenProvider.ts:92), and so never
   present a refresh token that was used up. *)
NothingSpentTwice == (\A q \in Query : effects[q] =< 1) /\ (refused => grantLost)
=============================================================================
