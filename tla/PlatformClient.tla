----------------------------- MODULE PlatformClient -----------------------------
(***************************************************************************)
(* PlatformApiClient and createTokenProvider of packages/genesys-platform, *)
(* and the download of a prompt's recording in packages/genesys-source.    *)
(*                                                                         *)
(* One client serves several callers at once (mapWithConcurrency).  A step *)
(* is what runs between two awaits.  Answers of the service and the clock  *)
(* come between macrotasks: while a settled promise has callers to resume  *)
(* nothing of the outside happens.                                         *)
(***************************************************************************)
EXTENDS Integers, FiniteSets

CONSTANTS
  Callers, None,
  MaxRequests, MaxRetries,   \* maxRequests, maxRetries
  EarlyRefresh,              \* earlyRefreshMs
  Lifetimes,                 \* expires_in of the tokens the login host grants
  MaxTime, MaxCalls          \* bounds

VARIABLES
  now,
  cached,        \* expiry of the cached token
  inFlight,      \* the shared refresh: none, pending, or what it settled with
  requestCount,
  pc, call, attempt,
  token,         \* per caller: expiry of the token it is about to send
  uri,           \* per caller: how often its media URI has been resolved
  result,        \* per caller: category its last request ended with
  issued,        \* history: requests handed to fetch
  calls

vars == <<now, cached, inFlight, requestCount, pc, call, attempt, token, uri, result,
          issued, calls>>
session == <<cached, inFlight>>
counts == <<requestCount, issued>>

IsApiHost(c) == call[c] \in {"get", "owner"}

NoRefresh == [state |-> "none", expires |-> None]
Pending == [state |-> "pending", expires |-> None]

Init ==
  /\ now = 0 /\ cached = None /\ inFlight = NoRefresh
  /\ requestCount = 0 /\ issued = 0 /\ calls = 0
  /\ pc = [c \in Callers |-> "idle"] /\ call = [c \in Callers |-> "get"]
  /\ attempt = [c \in Callers |-> 0] /\ token = [c \in Callers |-> None]
  /\ uri = [c \in Callers |-> 0]
  /\ result = [c \in Callers |-> "none"]

At(c, step) == pc[c] = step
Goto(c, step) == pc' = [pc EXCEPT ![c] = step]
Running == inFlight.state = "settled" \/ \E c \in Callers : At(c, "issue")

-----------------------------------------------------------------------------
(* The callers *)

Call(c) ==
  /\ At(c, "idle") /\ calls < MaxCalls /\ calls' = calls + 1
  /\ call' \in {[call EXCEPT ![c] = s] : s \in {"get", "first"}}
  /\ attempt' = [attempt EXCEPT ![c] = 0] /\ uri' = [uri EXCEPT ![c] = 0]
  /\ Goto(c, "send")
  /\ UNCHANGED <<now, session, counts, token, result>>

\* downloadWithExpiryRetry: a refused media URI is resolved anew, once, through the
\* prompt that owns it; any other end is the call's end (with an owner that no
\* longer has the language, too).
Ended(c, category) ==
  /\ result' = [result EXCEPT ![c] = category]
  /\ \/ /\ call[c] = "first" /\ category = "expired_asset_url"
        /\ Goto(c, "send") /\ attempt' = [attempt EXCEPT ![c] = 0]
        /\ call' = [call EXCEPT ![c] = "owner"] /\ UNCHANGED uri
     \/ /\ call[c] = "owner" /\ category = "ok"
        /\ Goto(c, "send") /\ attempt' = [attempt EXCEPT ![c] = 0]
        /\ call' = [call EXCEPT ![c] = "second"] /\ uri' = [uri EXCEPT ![c] = @ + 1]
     \/ /\ ~(call[c] = "first" /\ category = "expired_asset_url")
        /\ Goto(c, "idle") /\ UNCHANGED <<call, attempt, uri>>

-----------------------------------------------------------------------------
(* #send and getToken *)

Spent == requestCount >= MaxRequests

Usable == cached # None /\ cached - EarlyRefresh > now

\* The refresh under way is shared, or the first caller starts one.
Join ==
  \/ inFlight = NoRefresh /\ inFlight' = Pending
  \/ inFlight # NoRefresh /\ UNCHANGED inFlight

\* The request budget is checked here, and the request counted only once a token
\* is there; a media URI takes no token.
Send(c) ==
  /\ At(c, "send")
  /\ \/ Spent /\ Ended(c, "transport") /\ UNCHANGED <<session, counts, token>>
     \/ /\ ~Spent /\ ~IsApiHost(c)
        /\ requestCount' = requestCount + 1 /\ issued' = issued + 1
        /\ Goto(c, "fetch") /\ UNCHANGED <<session, token, call, attempt, uri, result>>
     \/ /\ ~Spent /\ IsApiHost(c) /\ Usable
        /\ token' = [token EXCEPT ![c] = cached] /\ Goto(c, "issue")
        /\ UNCHANGED <<session, counts, call, attempt, uri, result>>
     \/ /\ ~Spent /\ IsApiHost(c) /\ ~Usable
        /\ Join /\ Goto(c, "await") /\ UNCHANGED <<cached, counts, token, call, attempt, uri, result>>
  /\ UNCHANGED <<now, calls>>

\* refresh settles: a token with its lifetime, or a rejection (no secret, the
\* login host unreachable or refusing, a body that does not parse).
Settle ==
  /\ inFlight = Pending /\ ~Running
  /\ \E expires \in {now + l : l \in Lifetimes} \cup {None} :
       inFlight' = [state |-> "settled", expires |-> expires]
  /\ UNCHANGED <<now, cached, counts, pc, call, attempt, token, uri, result, calls>>

\* A caller that awaited the refresh goes on.
Resume(c) ==
  /\ At(c, "await") /\ inFlight.state = "settled"
  /\ IF inFlight.expires # None
       THEN /\ cached' = inFlight.expires /\ token' = [token EXCEPT ![c] = inFlight.expires]
            /\ Goto(c, "issue") /\ UNCHANGED <<call, attempt, uri, result>>
       ELSE /\ \E category \in {"auth", "transport"} : Ended(c, category)
            /\ UNCHANGED <<cached, token>>
  /\ UNCHANGED <<now, inFlight, counts, calls>>

Clear ==
  /\ inFlight.state = "settled" /\ ~\E c \in Callers : At(c, "await")
  /\ inFlight' = NoRefresh
  /\ UNCHANGED <<now, cached, counts, pc, call, attempt, token, uri, result, calls>>

\* Mutant: a retry is not counted against the budget.
Issue_FirstOnly(c) ==
  /\ At(c, "issue")
  /\ requestCount' = requestCount + (IF attempt[c] = 0 THEN 1 ELSE 0) /\ issued' = issued + 1
  /\ Goto(c, "fetch")
  /\ UNCHANGED <<now, session, call, attempt, token, uri, result, calls>>

Issue(c) ==
  /\ At(c, "issue")
  /\ requestCount' = requestCount + 1 /\ issued' = issued + 1
  /\ Goto(c, "fetch")
  /\ UNCHANGED <<now, session, call, attempt, token, uri, result, calls>>

-----------------------------------------------------------------------------
(* The answers *)

Answers == {"ok", "unreachable", "expired", "rate_limit", "wait_too_long", "server", "refusal"}

\* What ends a request, and with which category: success, a body that does not
\* parse, a rate limit with no or too long a Retry-After, and 400, 401, 403, 404.
Final(answer) ==
  CASE answer = "ok"            -> {"ok", "validation"}
    [] answer = "expired"       -> {"expired_asset_url"}
    [] answer = "wait_too_long" -> {"rate_limit"}
    [] answer = "refusal"       -> {"validation", "auth", "permission", "not_found", "transport"}
    [] OTHER                    -> {}
Exhausted(answer) ==
  CASE answer = "unreachable" -> "transport" [] answer = "server" -> "server"
    [] OTHER -> "rate_limit"

Respond(c) ==
  /\ At(c, "fetch") /\ ~Running
  /\ \E answer \in Answers :
       /\ answer = "expired" => ~IsApiHost(c)
       /\ \/ \E category \in Final(answer) : Ended(c, category)
          \/ /\ Final(answer) = {} /\ attempt[c] >= MaxRetries
             /\ Ended(c, Exhausted(answer))
          \/ /\ Final(answer) = {} /\ attempt[c] < MaxRetries
             /\ Goto(c, "sleep") /\ UNCHANGED <<call, attempt, uri, result>>
  /\ UNCHANGED <<now, session, counts, token, calls>>

\* The backoff or the Retry-After is over.
Wake(c) ==
  /\ At(c, "sleep") /\ ~Running
  /\ attempt' = [attempt EXCEPT ![c] = @ + 1] /\ Goto(c, "send")
  /\ UNCHANGED <<now, session, counts, call, token, uri, result, calls>>

Tick ==
  /\ ~Running /\ now < MaxTime /\ now' = now + 1
  /\ UNCHANGED <<session, counts, pc, call, attempt, token, uri, result, calls>>

Next ==
  \/ \E c \in Callers : Call(c) \/ Send(c) \/ Resume(c) \/ Issue(c) \/ Respond(c) \/ Wake(c)
  \/ Settle \/ Clear \/ Tick

Spec == Init /\ [][Next]_vars

-----------------------------------------------------------------------------
(* Properties *)

\* The request budget is checked before the wait for a token and charged after
\* it, so callers that wait together can overrun it; by no more than one each.
BudgetOverrunBounded ==
  issued <= MaxRequests + Cardinality(Callers) - 1

=============================================================================
