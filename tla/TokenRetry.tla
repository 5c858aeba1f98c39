------------------------------ MODULE TokenRetry ------------------------------
(***************************************************************************)
(* One request of ai-proxy with the callouts it waits for: those that a    *)
(* provider makes before it is sent (the images of gemini.go, the access   *)
(* token of vertex.go, the context file of context.go), and the retries    *)
(* with another token when it has failed (retry.go).  The client's         *)
(* response is paused while the retries run; their answer replaces it, or  *)
(* it is let through as it is.                                             *)
(*                                                                         *)
(* The list of tokens to try is captured when the request arrives and      *)
(* shrinks in the closures of the callouts.  With failover the token in    *)
(* use and the list are two reads of a list that other workers change.     *)
(***************************************************************************)
EXTENDS ApiTokens, FiniteSetsExt

CONSTANTS
  Failover,     \* whether the tokens come from the shared list
  MaxRetries,   \* maxRetries
  MaxCallouts,  \* bound on the callouts a request waits for before it is sent
  Changes       \* what ai-proxy may change in a request before the provider
                \* translates it: custom settings, the conversion from Claude,
                \* clean-up and merging, images in place of their URLs

ASSUME RetryAssumption ==
  /\ Token # {}
  /\ Failover \in BOOLEAN /\ MaxRetries \in Nat \ {0}
  /\ MaxCallouts \in Nat /\ IsFiniteSet(Changes)

VARIABLES
  avail,      \* the available tokens of failover, or all that are configured
  phase,      \* "new", "list", "body", "waiting", "upstream", "paused", then how
              \* the client was answered: "refused" before anything was sent,
              \* "passed", "resumed" or "replied"
  pending,    \* callouts without an answer
  spoiled,    \* whether one of them failed
  inUse,      \* ctxApiTokenInUse
  list,       \* the tokens left to try
  retryCount, \* ctxRetryCount
  streaming,  \* whether the client asked for a stream
  failed,     \* whether the original response has a status to retry on
  used,       \* history: how often the request was sent with each token
  changes,    \* the changes that this request calls for
  sent        \* history: the sets of changes that the requests sent had

waits == <<pending, spoiled>>
request == <<streaming, changes>>
retryVars == <<avail, phase, waits, inUse, list, retryCount, failed, used, request, sent>>

RetryInit ==
  /\ avail = Token
  /\ phase = "new"
  /\ pending = 0 /\ spoiled = FALSE
  /\ inUse = NoToken
  /\ list = {}
  /\ retryCount = 0
  /\ streaming \in BOOLEAN
  /\ failed = FALSE
  /\ used = [t \in Token |-> 0]
  /\ changes \in SUBSET Changes
  /\ sent = {}

Send(t, made) ==
  /\ used' = IF t = NoToken THEN used ELSE [used EXCEPT ![t] = @ + 1]
  /\ sent' = sent \cup {made}

\* No token when none is available.
SetApiTokenInUse ==
  /\ phase = "new"
  /\ inUse' \in IF avail = {} THEN {NoToken} ELSE avail
  /\ phase' = "list"
  /\ UNCHANGED <<avail, waits, list, retryCount, failed, used, request, sent>>

\* SetAvailableApiTokens
SetAvailableApiTokens ==
  /\ phase = "list"
  /\ list' = avail
  /\ phase' = "body"
  /\ UNCHANGED <<avail, waits, inUse, retryCount, failed, used, request, sent>>

\* onHttpRequestBody, of a request that is refused,
RefuseBody ==
  /\ phase = "body"
  /\ phase' = "refused"
  /\ UNCHANGED <<avail, waits, inUse, list, retryCount, failed, used, request, sent>>

\* that goes on at once,
SendBody ==
  /\ phase = "body"
  /\ phase' = "upstream"
  /\ Send(inUse, changes)
  /\ UNCHANGED <<avail, waits, inUse, list, retryCount, failed, request>>

\* or that waits for n callouts, d more of which could not be sent: they have
\* failed already, and a request that waits for no other is refused.
WaitForCallouts ==
  /\ phase = "body"
  /\ \E n \in 0..MaxCallouts, d \in 0..MaxCallouts :
       /\ n + d \in 1..MaxCallouts
       /\ pending' = n /\ spoiled' = (d > 0)
       /\ phase' = IF n = 0 THEN "refused" ELSE "waiting"
  /\ UNCHANGED <<avail, inUse, list, retryCount, failed, used, request, sent>>

Spoils(ok) == spoiled \/ ~ok

\* The answer of one of them, in any order, or its timeout; the last one goes on
\* with the request, or refuses it if any failed.
CalloutDone(ok) ==
  /\ phase = "waiting"
  /\ pending' = pending - 1 /\ spoiled' = Spoils(ok)
  /\ IF pending > 1 THEN UNCHANGED <<phase, used, sent>>
     ELSE IF Spoils(ok) THEN phase' = "refused" /\ UNCHANGED <<used, sent>>
     ELSE phase' = "upstream" /\ Send(inUse, changes)
  /\ UNCHANGED <<avail, inUse, list, retryCount, failed, request>>

\* A response that is not to be retried.
UpstreamOk ==
  /\ phase = "upstream"
  /\ phase' = "passed"
  /\ UNCHANGED <<avail, waits, inUse, list, retryCount, failed, used, request, sent>>

\* fault: the closure keeps the list it was called with
RemainingSame(tokens, t) == IF Cardinality(tokens) > 1 THEN tokens ELSE {}
Remaining(tokens, t) == tokens \ {t}   \* removeApiTokenFromRetryList

\* sendRetryRequest: what it sends is the body that the client sent, as the
\* provider translates it.  It fails without a token left, and when the request
\* cannot be transformed or sent, the token in use being replaced before that.
SendRetry ==
  /\ Remaining(list, inUse) # {}
  /\ \E t \in Remaining(list, inUse) : inUse' = t /\ Send(t, {})
  /\ list' = Remaining(list, inUse)

SendFails ==
  \/ Remaining(list, inUse) = {} /\ UNCHANGED inUse
  \/ inUse' \in Remaining(list, inUse)

\* OnRequestFailed: the response headers wait for the retry ...
RetryFailedRequest ==
  /\ phase = "upstream"
  /\ SendRetry
  /\ phase' = "paused"
  /\ retryCount' = 1
  /\ failed' = TRUE
  /\ UNCHANGED <<avail, waits, request>>

\* ... or go on at once if it was not sent.
RetryNotSent ==
  /\ phase = "upstream"
  /\ SendFails
  /\ phase' = "passed"
  /\ retryCount' = 1
  /\ failed' = TRUE
  /\ UNCHANGED <<avail, waits, list, used, request, sent>>

\* retryCall: status 200 answers the client,
RetrySucceeded ==
  /\ phase = "paused"
  /\ phase' = "replied"
  /\ UNCHANGED <<avail, waits, inUse, list, retryCount, failed, used, request, sent>>

MayRetry == retryCount + 1 <= MaxRetries

\* any other, and no answer in time, leads to the next retry
RetryAgain ==
  /\ phase = "paused" /\ MayRetry
  /\ SendRetry
  /\ retryCount' = retryCount + 1
  /\ UNCHANGED <<avail, phase, waits, failed, request>>

\* fault: the response is not resumed, and waits as for the upstream
ResumesStuck == SendFails /\ retryCount' = retryCount + 1 /\ phase' = "upstream"
Resumes ==
  /\ SendFails
  /\ retryCount' = retryCount + 1
  /\ phase' = "resumed"

\* ... or, if there is none, lets the original response through.
RetryGivesUp ==
  /\ phase = "paused"
  /\ \/ MayRetry /\ Resumes
     \/ ~MayRetry /\ phase' = "resumed" /\ UNCHANGED <<inUse, retryCount>>
  /\ UNCHANGED <<avail, waits, list, failed, used, request, sent>>

\* Failover on this and other workers.
Failovers ==
  /\ Failover /\ phase \in {"new", "list"}
  /\ avail' \in SUBSET Token
  /\ avail' # avail
  /\ UNCHANGED <<phase, waits, inUse, list, retryCount, failed, used, request, sent>>

Over == phase \in {"refused", "passed", "resumed", "replied"} /\ UNCHANGED retryVars

RetryCall == RetrySucceeded \/ RetryAgain \/ RetryGivesUp

RetryNext ==
  \/ SetApiTokenInUse \/ SetAvailableApiTokens
  \/ RefuseBody \/ SendBody \/ WaitForCallouts \/ (\E ok \in BOOLEAN : CalloutDone(ok))
  \/ UpstreamOk
  \/ RetryFailedRequest \/ RetryNotSent \/ RetryCall
  \/ Failovers \/ Over

\* A callout ends in an answer or in its timeout.
RetrySpec ==
  /\ RetryInit /\ [][RetryNext]_retryVars
  /\ WF_retryVars(RetryCall) /\ WF_retryVars(\E ok \in BOOLEAN : CalloutDone(ok))
-----------------------------------------------------------------------------
RetryTypeOK ==
  /\ avail \subseteq Token
  /\ phase \in {"new", "list", "body", "waiting", "upstream", "paused",
             "refused", "passed", "resumed", "replied"}
  /\ pending \in 0..MaxCallouts /\ spoiled \in BOOLEAN
  /\ inUse \in Token \union {NoToken}
  /\ list \subseteq Token
  /\ retryCount \in 0..MaxRetries
  /\ used \in [Token -> Nat]
  /\ changes \in SUBSET Changes /\ sent \subseteq SUBSET Changes

\* A request goes out once with a token: a retry never with one it has failed
\* with, even if the list was read after that token had been taken out of it or
\* put back, and no more than maxRetries follow the request itself.  It goes out
\* when the last of its callouts has succeeded, in whatever order they end, and
\* never when one has failed.
SentSoundly ==
  /\ \A t \in Token : used[t] <= 1
  /\ Cardinality({t \in Token : used[t] > 0}) <= MaxRetries + 1
  /\ sent # {} <=> phase \in {"upstream", "paused", "passed", "resumed", "replied"}
  /\ sent # {} => ~spoiled /\ pending = 0

\* Whatever becomes of its callouts, a paused request goes on, and a paused
\* response is released.
NeverParked ==
  /\ phase = "waiting" ~> phase \in {"upstream", "refused"}
  /\ phase = "paused" ~> phase \in {"resumed", "replied"}

\* README: a failed request is retried at once.
FailedIsRetried == phase = "passed" /\ failed => \E s, t \in Token : s # t /\ used[s] > 0 /\ used[t] > 0

\* main.go: a retry sends "the transformed body".
SameRequest == sent \subseteq {changes}

\* README: only requests that are not streaming are retried.
OnlyNonStreaming == phase \in {"paused", "replied"} => ~streaming
===============================================================================
