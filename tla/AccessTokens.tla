--------------------------- MODULE AccessTokens ---------------------------
(***************************************************************************)
(* The access tokens of WeChat.  Two providers call it, for phone numbers  *)
(* and for subscription messages, under the same account; each keeps a     *)
(* token of its own in memory.  A call whose token is refused drops the    *)
(* cached one, fetches another whatever the cache holds, and tries once    *)
(* more.                                                                   *)
(*                                                                         *)
(*   Callers    the calls under way, of the provider ProviderOf            *)
(*   MaxTokens  how many tokens WeChat issues (a bound of the model)       *)
(*                                                                         *)
(* External: a token WeChat issues may end those issued before, and a      *)
(* token may end at any time, before the cache expects it to.              *)
(***************************************************************************)
EXTENDS Naturals

CONSTANTS Callers, ProviderOf, MaxTokens

Providers == {"phone", "message"}

ASSUME CallersHaveProviders == ProviderOf \in [Callers -> Providers] /\ MaxTokens \in Nat

VARIABLES
  issued,   \* how many tokens were issued
  good,     \* the tokens WeChat accepts
  cached,   \* cachedToken and accessToken of the providers
  caller    \* where each call is, its token, is it the second try, was it disturbed?

tokenVars == <<issued, good, cached, caller>>

Tokens == 1..MaxTokens
NoToken == 0
NoCaller == [at |-> "idle", token |-> NoToken, again |-> FALSE, disturbed |-> FALSE]

TokensTypeOK ==
  /\ issued \in 0..MaxTokens
  /\ good \subseteq 1..issued
  /\ cached \in [Providers -> 0..MaxTokens]
  /\ caller \in [Callers ->
       [at : {"idle", "token", "fetch", "fetched", "request", "refused", "done", "failed"},
        token : 0..MaxTokens, again : BOOLEAN, disturbed : BOOLEAN]]

TokensInit ==
  /\ issued = 0 /\ good = {}
  /\ cached = [p \in Providers |-> NoToken]
  /\ caller = [c \in Callers |-> NoCaller]

Cache(c) == cached[ProviderOf[c]]
CallerAt(c, r) == caller' = [caller EXCEPT ![c] = r]

\* exchangeCode, send.
StartCall(c) ==
  /\ caller[c].at \in {"idle", "done", "failed"}
  /\ CallerAt(c, [NoCaller EXCEPT !.at = "token"])
  /\ UNCHANGED <<issued, good, cached>>

MutantAccessToken(c) ==
  /\ caller[c].at = "token"
  /\ CallerAt(c, IF Cache(c) # NoToken
                 THEN [caller[c] EXCEPT !.at = "request", !.token = Cache(c)]
                 ELSE [caller[c] EXCEPT !.at = "fetch"])
  /\ UNCHANGED <<issued, good, cached>>

\* accessToken(forceRefresh), getAccessToken(forceRefresh).  A cached token that has
\* expired by its own clock is as good as none (Expire).
AccessToken(c) ==
  /\ caller[c].at = "token"
  /\ CallerAt(c, IF ~caller[c].again /\ Cache(c) # NoToken
                 THEN [caller[c] EXCEPT !.at = "request", !.token = Cache(c)]
                 ELSE [caller[c] EXCEPT !.at = "fetch"])
  /\ UNCHANGED <<issued, good, cached>>

Expire(p) ==
  /\ cached[p] # NoToken
  /\ cached' = [cached EXCEPT ![p] = NoToken]
  /\ UNCHANGED <<issued, good, caller>>

\* Calls whose request has yet to be made rest on the tokens they hold.
Disturb(S) ==
  [c \in Callers |-> [caller[c] EXCEPT
     !.disturbed = @ \/ (caller[c].again /\ caller[c].token \in S)]]

\* WeChat issues the token a call has asked for; its answer is on the way.
IssueToken(c) ==
  LET t == issued + 1 IN
  /\ caller[c].at = "fetch"
  /\ issued < MaxTokens
  /\ issued' = t
  /\ \E S \in {{}, good} :
       /\ good' = (good \ S) \cup {t}
       /\ caller' = [Disturb(S) EXCEPT ![c].at = "fetched", ![c].token = t]
  /\ UNCHANGED cached

\* The answer arrives and is cached, over whatever another call has cached meanwhile.
TokenArrives(c) ==
  /\ caller[c].at = "fetched"
  /\ cached' = [cached EXCEPT ![ProviderOf[c]] = caller[c].token]
  /\ CallerAt(c, [caller[c] EXCEPT !.at = "request"])
  /\ UNCHANGED <<issued, good>>

\* Fetching fails: no network (before WeChat issued a token or after it), an answer that
\* is none, or WeChat's limit.
FetchFails(c) ==
  /\ caller[c].at \in {"fetch", "fetched"}
  /\ CallerAt(c, [NoCaller EXCEPT !.at = "done"])
  /\ UNCHANGED <<issued, good, cached>>

EndToken(t) ==
  /\ t \in good
  /\ good' = good \ {t}
  /\ caller' = Disturb({t})
  /\ UNCHANGED <<issued, cached>>

\* requestPhone, sendWithToken: refused for the token (40014, 42001), or not.
Request(c) ==
  /\ caller[c].at = "request"
  /\ CallerAt(c, IF caller[c].token \in good THEN [NoCaller EXCEPT !.at = "done"]
                 ELSE [caller[c] EXCEPT !.at = "refused"])
  /\ UNCHANGED <<issued, good, cached>>

\* The cache is dropped, also when another call has filled it since.
Refused(c) ==
  /\ caller[c].at = "refused"
  /\ IF caller[c].again
     THEN /\ CallerAt(c, [caller[c] EXCEPT !.at = "failed"])
          /\ UNCHANGED cached
     ELSE /\ cached' = [cached EXCEPT ![ProviderOf[c]] = NoToken]
          /\ CallerAt(c, [caller[c] EXCEPT !.at = "token", !.again = TRUE,
                                           !.token = NoToken])
  /\ UNCHANGED <<issued, good>>

TokensNext ==
  \/ \E c \in Callers : \/ StartCall(c) \/ AccessToken(c) \/ IssueToken(c)
                        \/ TokenArrives(c) \/ FetchFails(c) \/ Request(c) \/ Refused(c)
  \/ \E p \in Providers : Expire(p)
  \/ \E t \in Tokens : EndToken(t)

TokensSpec == TokensInit /\ [][TokensNext]_tokenVars

----------------------------------------------------------------------------
\* A call is refused for its token at the last only if that token, fetched for this very
\* try, was ended by another fetch or by WeChat before it was used: a token that was
\* stale in the cache, that a late answer put back there, or that the other provider's
\* fetch had ended, costs one retry
\* (wechat-phone.provider.ts exchangeCode, wechat-subscription.provider.ts sendWithToken).
LoneCallGetsThrough == \A c \in Callers : caller[c].at = "failed" => caller[c].disturbed
----------------------------------------------------------------------------
\* The token of a second try was fetched for it: WeChat takes it unless it was disturbed.
SecondTriesAreFresh ==
  \A c \in Callers : caller[c].again =>
    /\ caller[c].at \in {"fetched", "request"} =>
         caller[c].token \in good \/ caller[c].disturbed
    /\ caller[c].at \in {"refused", "failed"} => caller[c].disturbed

OnlySecondTriesFail == \A c \in Callers : caller[c].at = "failed" => caller[c].again

TokensIInv == TokensTypeOK /\ SecondTriesAreFresh /\ OnlySecondTriesFail
=============================================================================
