----------------------------- MODULE SessionClient -----------------------------
(***************************************************************************)
(* How the page keeps its session: requests with their CSRF header, the    *)
(* refresh that concurrent 401s share, one retry, timeouts, and a logout   *)
(* (frontend/src/api/core.ts), against the cookie jar of the browser and   *)
(* the session routes of the backend (api/auth.rs, api/deps.rs).           *)
(*                                                                         *)
(* fetch() returns before the browser attaches the cookies, and a response *)
(* changes the jar whenever it arrives: the jar is shared state.  A        *)
(* session is a number; its CSRF token and its refresh token carry the     *)
(* same one.                                                               *)
(***************************************************************************)
EXTENDS Naturals

CONSTANTS
    Reads,      \* requests without a CSRF header
    Writes,     \* requests with one
    Logouts     \* logout requests

ASSUME RequestsDisjoint ==
    Reads \cap Writes = {} /\ Reads \cap Logouts = {} /\ Writes \cap Logouts = {}

Requests == Reads \cup Writes \cup Logouts

VARIABLES
    jar,        \* the cookies: the session with its CSRF token, the refresh token
    fresh,      \* access tokens that have not expired
    renewable,  \* refresh tokens the server accepts
    made,       \* the last session made
    pc,         \* where each apiRequest is
    header,     \* the CSRF token it read
    cookie,     \* the session it was sent with
    retried,    \* requests in their second attempt
    server,     \* what the server has for it: nothing, a request or an answer
    refresh,    \* refreshInFlight
    renewal,    \* the refresh token it was sent with
    executed,   \* history: how often the server executed the request
    crossed,    \* history: the jar changed between a header and its cookie
    overlapped, \* history: a refresh was under way when the logout was answered
    loggedOut   \* history: a logout was answered

browser == <<jar, pc, header, cookie, retried, refresh, renewal>>
backend == <<fresh, renewable, made>>
history == <<executed, crossed, overlapped, loggedOut>>
vars == <<browser, backend, server, history>>

Outcomes == {"ok", "401", "403", "timeout"}
Stages == {"idle", "called", "sent", "awaiting"} \cup Outcomes

(* Signed in, with the first session; 0 is no cookie. *)
Init ==
    /\ jar = [session |-> 1, refresh |-> 1]
    /\ fresh = {1}
    /\ renewable = {1}
    /\ made = 1
    /\ pc = [r \in Requests |-> "idle"]
    /\ header = [r \in Requests |-> 0]
    /\ cookie = [r \in Requests |-> 0]
    /\ retried = {}
    /\ server = [r \in Requests |-> "none"]
    /\ refresh = "none"
    /\ renewal = 0
    /\ executed = [r \in Requests |-> 0]
    /\ crossed = {}
    /\ overlapped = FALSE
    /\ loggedOut = FALSE

--------------------------------------------------------------------------------
(* Requests. *)

(* History: the requests that have read their header and not yet their cookie. *)
Crossing == {r \in Requests \ Reads : pc[r] = "called"}

(* apiRequest up to fetch: the CSRF cookie is read. *)
Call(r) ==
    /\ pc[r] = "idle"
    /\ pc' = [pc EXCEPT ![r] = "called"]
    /\ header' = [header EXCEPT ![r] = jar.session]
    /\ UNCHANGED <<jar, cookie, retried, refresh, renewal, backend, server, history>>

(* The browser attaches the session cookie and sends the request. *)
Attach(r) ==
    /\ pc[r] = "called"
    /\ pc' = [pc EXCEPT ![r] = "sent"]
    /\ cookie' = [cookie EXCEPT ![r] = jar.session]
    /\ server' = [server EXCEPT ![r] = "asked"]
    /\ UNCHANGED <<jar, header, retried, refresh, renewal, backend, history>>

(* AuthUser, then Csrf, then the handler.  The client may have gone. *)
Handle(r) ==
    /\ server[r] = "asked"
    /\ LET answer == IF cookie[r] \notin fresh THEN "401"
                     ELSE IF r \notin Reads /\ header[r] # cookie[r] THEN "403"
                     ELSE "ok"
       IN  /\ server' = [server EXCEPT ![r] = answer]
           /\ executed' = [executed EXCEPT ![r] = IF answer = "ok" THEN @ + 1 ELSE @]
    /\ UNCHANGED <<browser, backend, crossed, overlapped, loggedOut>>

(* An answer that is not a first 401 is the outcome. *)
Arrive(r) ==
    /\ pc[r] = "sent"
    /\ server[r] \in {"ok", "401", "403"}
    /\ r \notin Logouts \/ server[r] # "ok"
    /\ server[r] = "401" => r \in retried
    /\ pc' = [pc EXCEPT ![r] = server[r]]
    /\ UNCHANGED <<jar, header, cookie, retried, refresh, renewal, backend, server, history>>

(* Variant: the refresh cookie, which has a path of its own, is not cleared. *)
ClearedJarKeepingRefresh == [session |-> 0, refresh |-> jar.refresh]

(* The answer of logout clears the three cookies. *)
ClearedJar == [session |-> 0, refresh |-> 0]

LogoutArrives(r) ==
    /\ r \in Logouts
    /\ pc[r] = "sent"
    /\ server[r] = "ok"
    /\ pc' = [pc EXCEPT ![r] = "ok"]
    /\ jar' = ClearedJar
    /\ loggedOut' = TRUE
    /\ overlapped' = (overlapped \/ refresh # "none")
    /\ crossed' = crossed \cup Crossing
    /\ UNCHANGED <<header, cookie, retried, refresh, renewal, backend, server, executed>>

(* A first 401: await refreshSession(), which is started unless one is in
   flight.  The timer has been cleared. *)
AwaitRefresh(r) ==
    /\ pc[r] = "sent"
    /\ server[r] = "401"
    /\ r \notin retried
    /\ pc' = [pc EXCEPT ![r] = "awaiting"]
    /\ refresh' = IF refresh = "none" THEN "called" ELSE refresh
    /\ UNCHANGED <<jar, header, cookie, retried, renewal, backend, server, history>>

(* Variant: a request that timed out is sent once more. *)
TimeoutRetrying(r) ==
    /\ pc[r] \in {"called", "sent"}
    /\ pc' = [pc EXCEPT ![r] = IF r \in retried THEN "timeout" ELSE "called"]
    /\ retried' = retried \cup {r}
    /\ UNCHANGED <<jar, header, cookie, refresh, renewal, backend, server, history>>

(* The controller aborts the fetch, or the network fails: the caller sees an
   error, whatever the server does. *)
Timeout(r) ==
    /\ pc[r] \in {"called", "sent"}
    /\ pc' = [pc EXCEPT ![r] = "timeout"]
    /\ UNCHANGED <<jar, header, cookie, retried, refresh, renewal, backend, server, history>>

--------------------------------------------------------------------------------
(* The refresh. *)

RefreshAttach ==
    /\ refresh = "called"
    /\ refresh' = "sent"
    /\ renewal' = jar.refresh
    /\ UNCHANGED <<jar, pc, header, cookie, retried, backend, server, history>>

(* auth.rs refresh: new cookies, the old tokens stay as good as they were. *)
RefreshGranted ==
    /\ refresh = "sent"
    /\ renewal \in renewable
    /\ made' = made + 1
    /\ fresh' = fresh \cup {made'}
    /\ renewable' = renewable \cup {made'}
    /\ refresh' = "ok"
    /\ UNCHANGED <<jar, pc, header, cookie, retried, renewal, server, history>>

(* Refused, or the fetch failed: false. *)
RefreshFails ==
    /\ refresh = "sent"
    /\ refresh' = "failed"
    /\ UNCHANGED <<jar, pc, header, cookie, retried, renewal, backend, server, history>>

Waiters == {r \in Requests : pc[r] = "awaiting"}

(* Variant: the retry sends the headers of the first attempt. *)
RefreshArrivesOldHeaders ==
    /\ refresh = "ok"
    /\ refresh' = "none"
    /\ jar' = [session |-> made, refresh |-> made]
    /\ pc' = [r \in Requests |-> IF r \in Waiters THEN "called" ELSE pc[r]]
    /\ header' = header
    /\ retried' = retried \cup Waiters
    /\ crossed' = crossed \cup Crossing
    /\ UNCHANGED <<cookie, renewal, backend, server, executed, overlapped, loggedOut>>

(* The cookies arrive, refreshInFlight is cleared, and everybody who awaited it
   calls apiRequest again, before the page does anything else. *)
RefreshArrives ==
    /\ refresh = "ok"
    /\ refresh' = "none"
    /\ jar' = [session |-> made, refresh |-> made]
    /\ pc' = [r \in Requests |-> IF r \in Waiters THEN "called" ELSE pc[r]]
    /\ header' = [r \in Requests |-> IF r \in Waiters THEN jar'.session ELSE header[r]]
    /\ retried' = retried \cup Waiters
    /\ crossed' = crossed \cup Crossing
    /\ UNCHANGED <<cookie, renewal, backend, server, executed, overlapped, loggedOut>>

(* Variant: the failure is not caught, nobody clears refreshInFlight. *)
RefreshRejectedUncaught ==
    /\ refresh = "failed"
    /\ UNCHANGED vars

(* false: the 401 is the outcome of all who awaited it. *)
RefreshRejected ==
    /\ refresh = "failed"
    /\ refresh' = "none"
    /\ pc' = [r \in Requests |-> IF r \in Waiters THEN "401" ELSE pc[r]]
    /\ UNCHANGED <<jar, header, cookie, retried, renewal, backend, server, history>>

--------------------------------------------------------------------------------
(* Time and administrators. *)

(* Tokens live equally long: the oldest expires first. *)
Expire(s) ==
    /\ s \in fresh
    /\ \A t \in fresh : s <= t
    /\ fresh' = fresh \ {s}
    /\ UNCHANGED <<browser, renewable, made, server, history>>

(* A password reset or a restore: no token made so far is accepted. *)
Revoke ==
    /\ renewable # {}
    /\ fresh' = {}
    /\ renewable' = {}
    /\ UNCHANGED <<browser, made, server, history>>

(* The page waits for its user. *)
Idle ==
    /\ \A r \in Requests : pc[r] \in Outcomes
    /\ UNCHANGED vars

--------------------------------------------------------------------------------

RequestStep(r) ==
    \/ Attach(r)
    \/ Handle(r)
    \/ Arrive(r)
    \/ LogoutArrives(r)
    \/ AwaitRefresh(r)
    \/ Timeout(r)

RefreshStep ==
    \/ RefreshAttach
    \/ RefreshGranted
    \/ RefreshFails
    \/ RefreshArrives
    \/ RefreshRejected

Next ==
    \/ \E r \in Requests : Call(r) \/ RequestStep(r)
    \/ RefreshStep
    \/ \E s \in fresh : Expire(s)
    \/ Revoke
    \/ Idle

(* The timer of a request fires; a refresh, which has no timer, is answered or
   fails in the end. *)
Fairness ==
    /\ \A r \in Requests : WF_vars(RequestStep(r))
    /\ WF_vars(RefreshStep)

Spec == Init /\ [][Next]_vars

FairSpec == Spec /\ Fairness

--------------------------------------------------------------------------------
(* Properties. *)

(* Every variable has its type; in particular a request is executed at most
   once, whatever is retried (core.ts apiRequest, _retried). *)
TypeOK ==
    /\ jar \in [session : Nat, refresh : Nat]
    /\ fresh \subseteq 1 .. made
    /\ renewable \subseteq 1 .. made
    /\ made \in Nat
    /\ pc \in [Requests -> Stages]
    /\ header \in [Requests -> Nat]
    /\ cookie \in [Requests -> Nat]
    /\ retried \in SUBSET Requests
    /\ server \in [Requests -> {"none", "asked", "ok", "401", "403"}]
    /\ refresh \in {"none", "called", "sent", "ok", "failed"}
    /\ renewal \in Nat
    /\ executed \in [Requests -> 0 .. 1]
    /\ crossed \in SUBSET Requests
    /\ overlapped \in BOOLEAN
    /\ loggedOut \in BOOLEAN

(* What is reported as done was executed, what is reported as refused was not,
   although a 401 is retried and a timeout may hide an execution. *)
OutcomesAreTrue ==
    \A r \in Requests :
        /\ pc[r] = "ok" => executed[r] = 1
        /\ pc[r] \in {"401", "403", "awaiting"} => executed[r] = 0

(* The CSRF header belongs to the session of the request, retries included,
   unless the cookies changed while the request was on its way out. *)
RefusedOnlyAcrossChange ==
    \A r \in Requests : server[r] = "403" => r \in crossed

(* After a logout nobody is signed in: no later refresh brings the session
   back, but one that was under way when the logout was answered may. *)
LogoutEndsSession ==
    loggedOut /\ ~overlapped => jar = [session |-> 0, refresh |-> 0]

(* However many requests share a refresh, each of them ends: a request is called
   once, so that all are at rest from some time on. *)
EveryRequestEnds == []<>(\A r \in Requests : pc[r] \in {"idle"} \cup Outcomes)

================================================================================
