---------------------------- MODULE TeslaTokens ----------------------------
(* The Tesla tokens of one user: the row of users, the requests that each   *)
(* hold a copy of it, and Tesla's token endpoint, whose refresh tokens work *)
(* once.  A grant is one answer of that endpoint: an access token, a        *)
(* refresh token and an expiry.  Grants are numbered in the order Tesla     *)
(* issues them, and 0 stands for nil.                                       *)
EXTENDS Naturals

CONSTANTS
  Requests,   \* web requests of this user, each on a thread of its own
  MaxGrants   \* bound: how many grants Tesla issues

ASSUME GrantsAssumption == MaxGrants \in Nat

VARIABLES
  user,      \* the row: tokens and tesla_status
  request,   \* each request: what it does, its copy of the row, Tesla's answer
  issued,    \* the last grant Tesla issued
  live,      \* the grants whose refresh token Tesla still accepts
  fresh,     \* the grants whose access token is good for more than a minute
  fleet,     \* the grants with the audience of the Fleet API
  lost,      \* history: grants that were spent for an answer that was never stored
  stale      \* history: a request saved a copy of a row that had changed since

vars == <<user, request, issued, live, fresh, fleet, lost, stale>>

nil == 0
Grants == 1..MaxGrants
Statuses == {"pending", "started", "verified"}
Users == [access_token : Grants \cup {nil}, refresh_token : Grants \cup {nil}, tesla_status : Statuses]

\* What a request is for: calling Tesla's API, connecting, verifying, disconnecting.
Kinds == {"call", "connect", "verify", "disconnect"}
Steps == {"idle", "loaded", "refreshing", "storing", "calling"}

Request(step, kind, base, copy, answer) ==
  [step |-> step, kind |-> kind, base |-> base, copy |-> copy, answer |-> answer]
NoUser == [access_token |-> nil, refresh_token |-> nil, tesla_status |-> "pending"]
Idle == Request("idle", "call", NoUser, NoUser, nil)
At(q, step) == Request(step, q.kind, q.base, q.copy, q.answer)

\* The types of the row, of the requests' copies and of Tesla's bookkeeping; a part of the
\* invariant that the proofs use.
TypeOK ==
  /\ user \in Users
  /\ request \in [Requests -> [step : Steps, kind : Kinds, base : Users, copy : Users, answer : Grants \cup {nil}]]
  /\ issued \in 0..MaxGrants
  /\ live \subseteq 1..issued /\ fresh \subseteq 1..issued /\ fleet \subseteq 1..issued /\ lost \subseteq 1..issued
  /\ stale \in BOOLEAN
  /\ user.access_token <= issued /\ user.refresh_token <= issued

Init ==
  /\ user = NoUser
  /\ request = [r \in Requests |-> Idle]
  /\ issued = 0
  /\ live = {} /\ fresh = {} /\ fleet = {} /\ lost = {}
  /\ stale = FALSE

\* The record's own view of its tokens, in the copy that a request loaded.
tesla_connected(u) == u.access_token # nil /\ u.tesla_status # "pending"
valid_access_token(u) == u.access_token # nil /\ u.access_token \in fresh

\* update! writes the attributes in which the copy differs from what was loaded.
Written(row, base, copy) == IF copy # base THEN copy ELSE row
Saved(row, base, copy) ==
  [access_token |-> Written(row.access_token, base.access_token, copy.access_token),
   refresh_token |-> Written(row.refresh_token, base.refresh_token, copy.refresh_token),
   tesla_status |-> Written(row.tesla_status, base.tesla_status, copy.tesla_status)]

\* The attributes that the updates assign.
Connected(u, g) == [access_token |-> g, refresh_token |-> g, tesla_status |-> "started"]
\* Fault: the tokens are cleared and the status is forgotten.
DisconnectedKeepsStatus(u) == [access_token |-> nil, refresh_token |-> nil, tesla_status |-> u.tesla_status]
Disconnected(u) == [access_token |-> nil, refresh_token |-> nil, tesla_status |-> "pending"]
\* Fault: the answer's refresh token is not kept, as if refresh tokens did not rotate.
RefreshedAccessOnly(u, kind, g) ==
  [access_token |-> g, refresh_token |-> u.refresh_token,
   tesla_status |-> IF kind = "call" THEN u.tesla_status ELSE "verified"]
Refreshed(u, kind, g) ==
  [access_token |-> g, refresh_token |-> g,
   tesla_status |-> IF kind = "call" THEN u.tesla_status ELSE "verified"]

-----------------------------------------------------------------------------
(* Requests. *)

\* Every request loads the user for itself (current_user).
Load(r, kind) ==
  /\ request[r].step = "idle"
  /\ request' = [request EXCEPT ![r] = Request("loaded", kind, user, user, nil)]
  /\ UNCHANGED <<user, issued, live, fresh, fleet, lost, stale>>

\* The OAuth callback comes with a grant; the user is loaded afterwards.
Callback(r) ==
  /\ request[r].step = "idle"
  /\ issued < MaxGrants
  /\ issued' = issued + 1
  /\ live' = live \cup {issued'} /\ fresh' = fresh \cup {issued'}
  /\ request' = [request EXCEPT ![r] = Request("loaded", "connect", user, user, issued')]
  /\ UNCHANGED <<user, fleet, lost, stale>>

\* A successful update! of the request's copy, which is then what it has loaded.
Save(r, copy, step) ==
  /\ user' = Saved(user, request[r].base, copy)
  /\ stale' = (stale \/ user # request[r].base)
  /\ request' = [request EXCEPT ![r] = IF step = "idle" THEN Idle
                                       ELSE Request(step, request[r].kind, copy, copy, nil)]

\* create stores the grant and goes on to ask for the audience of the Fleet API.
Connect(r) ==
  /\ request[r].step = "loaded" /\ request[r].kind = "connect"
  /\ Save(r, Connected(request[r].copy, request[r].answer), "refreshing")
  /\ UNCHANGED <<issued, live, fresh, fleet, lost>>

Disconnect(r) ==
  /\ request[r].step = "loaded" /\ request[r].kind = "disconnect"
  /\ Save(r, Disconnected(request[r].copy), "idle")
  /\ UNCHANGED <<issued, live, fresh, fleet, lost>>

\* ensure_valid_tesla_token, up to the call of Tesla's token endpoint.
EnsureValid(r) ==
  /\ request[r].step = "loaded" /\ request[r].kind = "call"
  /\ request' =
       [request EXCEPT ![r] =
          IF ~tesla_connected(@.copy) THEN Idle
          ELSE At(@, IF valid_access_token(@.copy) \/ @.copy.refresh_token = nil THEN "calling" ELSE "refreshing")]
  /\ UNCHANGED <<user, issued, live, fresh, fleet, lost, stale>>

\* refresh_fleet_token
Verify(r) ==
  /\ request[r].step = "loaded" /\ request[r].kind = "verify"
  /\ request' = [request EXCEPT ![r] = IF @.copy.refresh_token = nil THEN Idle ELSE At(@, "refreshing")]
  /\ UNCHANGED <<user, issued, live, fresh, fleet, lost, stale>>

\* The refresh returned false: ensure_valid_tesla_token ignores that, the others redirect.
Unrefreshed(q) == IF q.kind = "call" THEN Request("calling", "call", q.base, q.copy, nil) ELSE Idle

-----------------------------------------------------------------------------
(* Tesla's token endpoint: a refresh token is accepted once.  A refresh that *)
(* names no audience keeps the one of the grant it spends.                   *)
Grant(r) ==
  LET spent == request[r].copy.refresh_token IN
  /\ request[r].step = "refreshing"
  /\ spent \in live
  /\ issued < MaxGrants
  /\ issued' = issued + 1
  /\ live' = (live \ {spent}) \cup {issued'}
  /\ fresh' = fresh \cup {issued'}
  /\ fleet' = IF request[r].kind # "call" \/ spent \in fleet THEN fleet \cup {issued'} ELSE fleet

Granted(r) ==
  /\ Grant(r)
  /\ request' = [request EXCEPT ![r] = Request("storing", @.kind, @.base, @.copy, issued')]
  /\ UNCHANGED <<user, lost, stale>>

\* The answer never arrives; the refresh rescues and returns false.
AnswerLost(r) ==
  /\ Grant(r)
  /\ request' = [request EXCEPT ![r] = Unrefreshed(@)]
  /\ lost' = lost \cup {request[r].copy.refresh_token}
  /\ UNCHANGED <<user, stale>>

\* Tesla cannot be reached, is out of order, or refuses: the token was used, or there is no virtual key.
Refused(r) ==
  /\ request[r].step = "refreshing"
  /\ request' = [request EXCEPT ![r] = Unrefreshed(@)]
  /\ UNCHANGED <<user, issued, live, fresh, fleet, lost, stale>>

StoreRefresh(r) ==
  /\ request[r].step = "storing"
  /\ Save(r, Refreshed(request[r].copy, request[r].kind, request[r].answer),
          IF request[r].kind = "call" THEN "calling" ELSE "idle")
  /\ UNCHANGED <<issued, live, fresh, fleet, lost>>

\* update! raises: the copy has the new attributes, unsaved, and the row has the old ones.
StoreFails(r) ==
  /\ request[r].step = "storing"
  /\ request' = [request EXCEPT ![r] =
                   Unrefreshed(Request("storing", @.kind, @.base, Refreshed(@.copy, @.kind, @.answer), @.answer))]
  /\ lost' = lost \cup {request[r].copy.refresh_token}
  /\ UNCHANGED <<user, issued, live, fresh, fleet, stale>>

\* The call of Tesla's API is over; the request may need a token again.
Called(r) ==
  /\ request[r].step = "calling"
  /\ request' = [request EXCEPT ![r] = At(@, "loaded")]
  /\ UNCHANGED <<user, issued, live, fresh, fleet, lost, stale>>

\* The request is done, fails in an update! of its own, or its worker dies.
Finish(r) ==
  /\ request[r].step # "idle"
  /\ request' = [request EXCEPT ![r] = Idle]
  /\ lost' = IF request[r].step = "storing" THEN lost \cup {request[r].copy.refresh_token} ELSE lost
  /\ UNCHANGED <<user, issued, live, fresh, fleet, stale>>

\* An access token runs out, hours after its grant and not in the minute that
\* valid_access_token? leaves for a call.
Expire(g) ==
  /\ g \in fresh
  /\ \A r \in Requests : /\ request[r].step = "calling" => request[r].copy.access_token # g
                         /\ request[r].answer # g
  /\ fresh' = fresh \ {g}
  /\ UNCHANGED <<user, request, issued, live, fleet, lost, stale>>

Next ==
  \/ \E r \in Requests :
       \/ \E kind \in {"call", "verify", "disconnect"} : Load(r, kind)
       \/ Callback(r) \/ Connect(r) \/ Disconnect(r) \/ EnsureValid(r) \/ Verify(r)
       \/ Granted(r) \/ AnswerLost(r) \/ Refused(r) \/ StoreRefresh(r) \/ StoreFails(r)
       \/ Called(r) \/ Finish(r)
  \/ \E g \in Grants : Expire(g)

Spec == Init /\ [][Next]_vars

-----------------------------------------------------------------------------
(* Properties. *)

\* The refresh token in the row is one that Tesla accepts, or is being spent by
\* a request that has the answer and will store it, or was spent for an answer
\* that a failure kept from being stored.  However many requests refresh, connect
\* and disconnect at once, the row never ends up with a used token otherwise.
StoredTokenUsable ==
  user.refresh_token # nil =>
    \/ user.refresh_token \in live \cup lost
    \/ \E r \in Requests : request[r].step = "storing" /\ request[r].copy.refresh_token = user.refresh_token

\* The status and the tokens in the row belong together: pending means no tokens,
\* and verified means that Tesla gave them the audience of the Fleet API.  Only a
\* request that saves a copy of a row that has changed since can break this,
\* failures and refusals cannot.
StatusTellsTheTruth ==
  ~stale =>
    /\ user.tesla_status = "pending" <=> user.access_token = nil
    /\ user.tesla_status = "verified" => user.access_token \in fleet
    /\ user.access_token = user.refresh_token

\* "Get a valid access token, refreshing if necessary": a token that is handed
\* out for a call of Tesla's API is good for that call.
HandedOutIsValid ==
  \A r \in Requests : request[r].step = "calling" => request[r].copy.access_token \in fresh
=============================================================================
