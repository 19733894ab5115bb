------------------------- MODULE TeslaTokens_proofs -------------------------
(***************************************************************************)
(* Proofs about TeslaTokens, for any requests and any number of grants.    *)
(***************************************************************************)
EXTENDS TeslaTokens, TLAPS

-----------------------------------------------------------------------------
(***************************************************************************)
(* The inductive invariant.  A stored refresh token stays usable since the *)
(* grant that replaces it is known to one request only (Private): nobody   *)
(* else can spend it before it is stored.                                  *)
(***************************************************************************)
\* A copy of the row and a request that are possible when n grants have been issued.
Tokens(u, n) == u \in Users /\ u.access_token <= n /\ u.refresh_token <= n

RequestOK(q, n) ==
  /\ q \in [step : Steps, kind : Kinds, base : Users, copy : Users, answer : Grants \cup {nil}]
  /\ Tokens(q.base, n) /\ Tokens(q.copy, n) /\ q.answer <= n
  /\ q.step = "refreshing" => q.copy.refresh_token # nil /\ q.kind # "disconnect"
  /\ q.step = "storing" => q.copy.refresh_token # nil /\ q.kind # "disconnect"
  /\ q.step = "calling" => q.kind = "call"
  /\ q.answer # nil <=> q.step = "storing" \/ (q.step = "loaded" /\ q.kind = "connect")
  /\ q.step \in {"refreshing", "storing"} /\ q.kind = "call" => q.copy.tesla_status # "pending"

Requesting == \A r \in Requests : RequestOK(request[r], issued)

Private ==
  \A r \in Requests :
    request[r].answer # nil =>
      /\ request[r].answer \in live
      /\ user.refresh_token # request[r].answer
      /\ \A q \in Requests : /\ request[q].base.refresh_token # request[r].answer
                             /\ request[q].copy.refresh_token # request[r].answer
                             /\ q # r => request[q].answer # request[r].answer

Truthful(u) ==
  /\ u.tesla_status = "pending" <=> u.access_token = nil
  /\ u.tesla_status = "verified" => u.access_token \in fleet
  /\ u.access_token = u.refresh_token

Truth ==
  ~stale =>
    /\ Truthful(user)
    /\ \A r \in Requests :
         /\ Truthful(request[r].copy)
         /\ request[r].step = "storing" =>
              Truthful(Refreshed(request[r].copy, request[r].kind, request[r].answer))

IInv == TypeOK /\ Requesting /\ Private /\ StoredTokenUsable /\ Truth

LEMMA IdleOK == Truthful(NoUser) /\ \A n \in Nat : RequestOK(Idle, n)
<1>1. NoUser \in Users
  BY DEF NoUser, Users, Grants, Statuses, nil
<1>2. Truthful(NoUser)
  BY DEF Truthful, NoUser
<1>3. ASSUME NEW n \in Nat PROVE RequestOK(Idle, n)
  BY <1>1 DEF RequestOK, Tokens, Idle, Request, NoUser, Steps, Kinds, nil
<1>4. QED
  BY <1>2, <1>3

LEMMA InitInv == Init => IInv
<1> SUFFICES ASSUME Init PROVE IInv
  OBVIOUS
<1>1. RequestOK(Idle, issued) /\ Truthful(NoUser)
  BY IdleOK DEF Init
<1>2. \A r \in Requests : request[r] = Idle
  BY DEF Init
<1>3. Idle \in [step : Steps, kind : Kinds, base : Users, copy : Users, answer : Grants \cup {nil}]
  BY <1>1 DEF RequestOK
<1>4. NoUser \in Users /\ NoUser.access_token = nil /\ NoUser.refresh_token = nil
  BY DEF NoUser, Users, Grants, Statuses
<1>5. Idle.answer = nil /\ Idle.step = "idle" /\ Idle.copy = NoUser
  BY DEF Idle, Request
<1>6. request \in [Requests -> [step : Steps, kind : Kinds, base : Users, copy : Users, answer : Grants \cup {nil}]]
  BY <1>3 DEF Init
<1>7. TypeOK
  <2>1. user \in Users /\ issued \in 0..MaxGrants /\ user.access_token <= issued /\ user.refresh_token <= issued
    BY <1>4, GrantsAssumption DEF Init, nil
  <2>2. live \subseteq 1..issued /\ fresh \subseteq 1..issued /\ fleet \subseteq 1..issued /\ lost \subseteq 1..issued
    BY DEF Init
  <2>3. stale \in BOOLEAN
    BY DEF Init
  <2>4. QED
    BY <1>6, <2>1, <2>2, <2>3 DEF TypeOK
<1>8. Requesting /\ Private
  BY <1>1, <1>2, <1>5 DEF Requesting, Private
<1>9. StoredTokenUsable /\ Truth
  BY <1>1, <1>2, <1>4, <1>5 DEF Init, StoredTokenUsable, Truth
<1>10. QED
  BY <1>7, <1>8, <1>9 DEF IInv

-----------------------------------------------------------------------------
(* Lemmas about the parts. *)

\* A step of one request leaves the others what they were.
LEMMA OthersStay ==
  ASSUME TypeOK, Requesting, NEW r \in Requests, NEW q, RequestOK(q, issued'),
         issued' \in Nat, issued <= issued',
         request' = [request EXCEPT ![r] = q]
  PROVE  /\ Requesting'
         /\ request' \in [Requests -> [step : Steps, kind : Kinds, base : Users, copy : Users, answer : Grants \cup {nil}]]
         /\ request'[r] = q
         /\ \A p \in Requests \ {r} : request'[p] = request[p]
<1>1. request'[r] = q /\ \A p \in Requests \ {r} : request'[p] = request[p]
  BY DEF TypeOK
<1>2. ASSUME NEW p \in Requests \ {r} PROVE RequestOK(request[p], issued')
  BY DEF Requesting, RequestOK, Tokens, Users, Grants, nil, TypeOK
<1>3. q \in [step : Steps, kind : Kinds, base : Users, copy : Users, answer : Grants \cup {nil}]
  BY DEF RequestOK
<1>4. QED
  BY <1>1, <1>2, <1>3 DEF Requesting, TypeOK

\* Steps of one request that neither touch the row nor ask Tesla.
LEMMA QuietStep ==
  ASSUME IInv, NEW r \in Requests, NEW q, RequestOK(q, issued),
         request' = [request EXCEPT ![r] = q],
         UNCHANGED <<user, issued, live, fresh, fleet, stale>>,
         lost \subseteq lost', lost' \subseteq 1..issued,
         q.answer # nil => q = request[r],
         q.base.refresh_token \in {request[r].base.refresh_token, user.refresh_token, nil},
         q.copy.refresh_token \in {request[r].copy.refresh_token, request[r].answer, user.refresh_token, nil},
         request[r].step = "storing" => q = request[r] \/ request[r].copy.refresh_token \in lost',
         ~stale => Truthful(q.copy)
  PROVE  IInv'
<1>1. /\ Requesting'
      /\ request' \in [Requests -> [step : Steps, kind : Kinds, base : Users, copy : Users, answer : Grants \cup {nil}]]
      /\ request'[r] = q
      /\ \A p \in Requests \ {r} : request'[p] = request[p]
  <2>1. TypeOK /\ Requesting /\ issued \in Nat /\ issued' = issued
    BY GrantsAssumption DEF IInv, TypeOK
  <2>2. issued' \in Nat /\ issued <= issued' /\ RequestOK(q, issued')
    BY <2>1
  <2>3. QED
    BY <2>1, <2>2, OthersStay
<1>2. TypeOK'
  BY <1>1 DEF IInv, TypeOK
<1>3. Private'
  BY <1>1 DEF IInv, Private
<1>4. StoredTokenUsable'
  BY <1>1 DEF IInv, StoredTokenUsable
<1>5. Truth'
  <2>1. q.step = "storing" => q = request[r]
    BY DEF RequestOK, nil
  <2>2. \A u : Truthful(u)' <=> Truthful(u)
    BY DEF Truthful
  <2>3. QED
    BY <1>1, <2>1, <2>2 DEF IInv, Truth
<1>6. QED
  BY <1>1, <1>2, <1>3, <1>4, <1>5 DEF IInv

\* Tesla grants the refresh of request r, which becomes q.
LEMMA GrantStep ==
  ASSUME IInv, NEW r \in Requests, NEW q, Grant(r), RequestOK(q, issued'),
         request' = [request EXCEPT ![r] = q],
         UNCHANGED <<user, stale>>,
         lost \subseteq lost', lost' \subseteq 1..issued,
         q.answer \in {nil, issued'},
         q.base.refresh_token \in {request[r].base.refresh_token, nil},
         q.copy.refresh_token \in {request[r].copy.refresh_token, nil},
         \/ q.step = "storing" /\ q.copy.refresh_token = request[r].copy.refresh_token
         \/ request[r].copy.refresh_token \in lost',
         ~stale => Truthful(q.copy),
         ~stale /\ q.step = "storing" => q.copy = request[r].copy /\ q.kind = request[r].kind
  PROVE  IInv'
<1>1. /\ TypeOK /\ Requesting /\ issued \in Nat /\ issued' = issued + 1
      /\ issued' \in Nat /\ issued <= issued' /\ issued' \in Grants
  BY GrantsAssumption DEF IInv, TypeOK, Grant, Grants
<1>2. /\ Requesting'
      /\ request' \in [Requests -> [step : Steps, kind : Kinds, base : Users, copy : Users, answer : Grants \cup {nil}]]
      /\ request'[r] = q
      /\ \A p \in Requests \ {r} : request'[p] = request[p]
  BY <1>1, OthersStay
<1>3. TypeOK'
  <2>1. live' \subseteq 1..issued' /\ fresh' \subseteq 1..issued' /\ fleet' \subseteq 1..issued' /\ lost' \subseteq 1..issued'
    BY <1>1 DEF TypeOK, Grant
  <2>2. user' \in Users /\ user'.access_token <= issued' /\ user'.refresh_token <= issued' /\ issued' \in 0..MaxGrants
    BY <1>1, GrantsAssumption DEF TypeOK, Users, Grants, nil
  <2>3. stale' \in BOOLEAN
    BY <1>1 DEF TypeOK
  <2>4. QED
    BY <1>2, <2>1, <2>2, <2>3 DEF TypeOK
<1>4. Private'
  <2>1. /\ user.refresh_token # issued' /\ issued' # nil
        /\ \A p \in Requests : /\ request[p].base.refresh_token # issued'
                               /\ request[p].copy.refresh_token # issued'
                               /\ request[p].answer # issued'
    BY <1>1 DEF TypeOK, Requesting, RequestOK, Tokens, Users, Grants, nil
  <2>2. live' = (live \ {request[r].copy.refresh_token}) \cup {issued'}
    BY DEF Grant
  <2>3. Private
    BY DEF IInv
  <2>4. QED
    BY <1>2, <2>1, <2>2, <2>3 DEF Private
<1>5. StoredTokenUsable'
  BY <1>2 DEF IInv, StoredTokenUsable, Grant, RequestOK, Steps
<1>6. Truth'
  <2>1. \A u : Truthful(u) => Truthful(u)'
    BY DEF Truthful, Grant
  <2>2. ASSUME ~stale, q.step = "storing"
        PROVE  Truthful(Refreshed(q.copy, q.kind, q.answer))'
    <3>1. q.answer = issued' /\ issued' # nil
      BY <1>1, <2>2 DEF RequestOK, nil
    <3>2. q.kind # "call" \/ q.copy.refresh_token \in fleet => issued' \in fleet'
      BY <2>2 DEF Grant
    <3>3. q.kind = "call" => q.copy.tesla_status # "pending"
      BY <2>2 DEF RequestOK
    <3>4. Truthful(q.copy)
      BY <2>2
    <3>5. QED
      BY <3>1, <3>2, <3>3, <3>4 DEF Truthful, Refreshed
  <2>3. QED
    BY <1>2, <2>1, <2>2 DEF IInv, Truth
<1>7. QED
  BY <1>2, <1>3, <1>4, <1>5, <1>6 DEF IInv

\* Request r saves copy and becomes q, which knows no answer.
LEMMA SaveStep ==
  ASSUME IInv, NEW r \in Requests, NEW q, NEW copy \in Users,
         RequestOK(q, issued), Tokens(copy, issued),
         request' = [request EXCEPT ![r] = q],
         q.answer = nil,
         q.base.refresh_token \in {copy.refresh_token, nil},
         q.copy.refresh_token \in {copy.refresh_token, nil},
         user' = Saved(user, request[r].base, copy),
         stale' = (stale \/ user # request[r].base),
         UNCHANGED <<issued, live, fresh, fleet, lost>>,
         \/ copy.refresh_token = request[r].answer /\ request[r].answer # nil
         \/ copy.refresh_token = nil /\ request[r].step # "storing",
         ~stale => Truthful(copy) /\ Truthful(q.copy)
  PROVE  IInv'
<1>1. TypeOK /\ Requesting /\ issued \in Nat /\ issued' = issued /\ issued <= issued'
  BY GrantsAssumption DEF IInv, TypeOK
<1>2. /\ Requesting'
      /\ request' \in [Requests -> [step : Steps, kind : Kinds, base : Users, copy : Users, answer : Grants \cup {nil}]]
      /\ request'[r] = q
      /\ \A p \in Requests \ {r} : request'[p] = request[p]
  BY <1>1, OthersStay
<1>3. request[r].base \in Users /\ Tokens(request[r].base, issued)
  BY <1>1 DEF Requesting, RequestOK
<1>4. /\ user' \in Users /\ Tokens(user', issued)
      /\ user'.refresh_token \in {user.refresh_token, copy.refresh_token}
      /\ copy.refresh_token # request[r].base.refresh_token => user'.refresh_token = copy.refresh_token
  BY <1>1, <1>3 DEF Saved, Written, Users, Tokens, TypeOK
<1>5. user = request[r].base => user' = copy
  BY <1>3 DEF Saved, Written, Users
<1>6. TypeOK'
  <2>1. stale' \in BOOLEAN
    BY <1>1 DEF TypeOK
  <2>2. QED
    BY <1>1, <1>2, <1>4, <2>1 DEF TypeOK, Tokens
<1>7. Private'
  BY <1>2, <1>4 DEF IInv, Private
<1>8. StoredTokenUsable'
  <2>1. CASE copy.refresh_token = nil /\ request[r].step # "storing"
    BY <1>2, <1>4, <2>1 DEF IInv, StoredTokenUsable
  <2>2. CASE copy.refresh_token = request[r].answer /\ request[r].answer # nil
    <3>1. request[r].answer \in live /\ copy.refresh_token # request[r].base.refresh_token
      BY <2>2 DEF IInv, Private
    <3>2. QED
      BY <1>4, <2>2, <3>1 DEF StoredTokenUsable
  <2>3. QED
    BY <2>1, <2>2
<1>9. Truth'
  <2>1. \A u : Truthful(u)' <=> Truthful(u)
    BY DEF Truthful
  <2>2. q.step # "storing"
    BY DEF RequestOK, nil
  <2>3. ASSUME ~stale' PROVE ~stale /\ user' = copy
    BY <1>1, <1>5, <2>3 DEF TypeOK
  <2>4. QED
    BY <1>2, <2>1, <2>2, <2>3 DEF IInv, Truth
<1>10. QED
  BY <1>2, <1>6, <1>7, <1>8, <1>9 DEF IInv

-----------------------------------------------------------------------------
(* One lemma per action. *)

\* What a request holds is possible and, without stale copies, true.
LEMMA Held ==
  ASSUME IInv, NEW r \in Requests
  PROVE  /\ RequestOK(request[r], issued) /\ issued \in Nat /\ Tokens(user, issued)
         /\ issued \in 0..MaxGrants /\ lost \subseteq 1..issued
         /\ ~stale => Truthful(user) /\ Truthful(request[r].copy)
         /\ ~stale /\ request[r].step = "storing" =>
              Truthful(Refreshed(request[r].copy, request[r].kind, request[r].answer))
BY DEF IInv, TypeOK, Requesting, Truth, Tokens

\* The token that is being refreshed was issued.
LEMMA Spends ==
  ASSUME IInv, NEW r \in Requests, request[r].step \in {"refreshing", "storing"}
  PROVE  request[r].copy.refresh_token \in 1..issued
BY Held DEF RequestOK, Tokens, Users, Grants, nil

LEMMA LoadInv ==
  ASSUME IInv, NEW r \in Requests, NEW kind \in {"call", "verify", "disconnect"}, Load(r, kind)
  PROVE  IInv'
<1> DEFINE q == Request("loaded", kind, user, user, nil)
<1>1. RequestOK(q, issued)
  BY Held DEF RequestOK, Request, Tokens, Steps, Kinds, nil
<1>2. q.answer = nil /\ q.base = user /\ q.copy = user /\ q.step = "loaded"
  BY DEF Request
<1>3. request[r].step # "storing" /\ request' = [request EXCEPT ![r] = q] /\ lost' = lost
      /\ UNCHANGED <<user, issued, live, fresh, fleet, stale>>
  BY DEF Load
<1>4. QED
  BY <1>1, <1>2, <1>3, Held, QuietStep

LEMMA GoesIdle ==
  ASSUME IInv, NEW r \in Requests, request' = [request EXCEPT ![r] = Idle],
         UNCHANGED <<user, issued, live, fresh, fleet, stale>>,
         lost \subseteq lost', lost' \subseteq 1..issued,
         request[r].step = "storing" => request[r].copy.refresh_token \in lost'
  PROVE  IInv'
<1>1. RequestOK(Idle, issued) /\ Truthful(NoUser)
  BY Held, IdleOK
<1>2. Idle.answer = nil /\ Idle.base = NoUser /\ Idle.copy = NoUser /\ NoUser.refresh_token = nil
  BY DEF Idle, Request, NoUser
<1>3. QED
  BY <1>1, <1>2, QuietStep

LEMMA GoesOn ==
  ASSUME IInv, NEW r \in Requests, NEW step \in Steps, request' = [request EXCEPT ![r] = At(request[r], step)],
         RequestOK(At(request[r], step), issued), request[r].answer = nil,
         UNCHANGED <<user, issued, live, fresh, fleet, stale, lost>>
  PROVE  IInv'
<1> DEFINE q == At(request[r], step)
<1>1. q.answer = nil /\ q.base = request[r].base /\ q.copy = request[r].copy
  BY DEF At, Request
<1>2. request[r].step # "storing"
  BY Held DEF RequestOK
<1>3. QED
  BY <1>1, <1>2, Held, QuietStep

LEMMA EnsureValidInv ==
  ASSUME IInv, NEW r \in Requests, EnsureValid(r)
  PROVE  IInv'
<1>1. request[r].step = "loaded" /\ request[r].kind = "call" /\ request[r].answer = nil
      /\ UNCHANGED <<user, issued, live, fresh, fleet, stale, lost>>
  BY Held DEF EnsureValid, RequestOK
<1>2. CASE ~tesla_connected(request[r].copy)
  <2>1. request' = [request EXCEPT ![r] = Idle]
    BY <1>2 DEF EnsureValid
  <2>2. QED
    BY <1>1, <2>1, Held, GoesIdle
<1>3. CASE /\ tesla_connected(request[r].copy)
           /\ valid_access_token(request[r].copy) \/ request[r].copy.refresh_token = nil
  <2>1. request' = [request EXCEPT ![r] = At(request[r], "calling")]
    BY <1>3 DEF EnsureValid
  <2>2. RequestOK(At(request[r], "calling"), issued)
    BY <1>1, Held DEF RequestOK, At, Request, Steps, Kinds
  <2>3. QED
    BY <1>1, <2>1, <2>2, GoesOn DEF Steps
<1>4. CASE /\ tesla_connected(request[r].copy)
           /\ ~(valid_access_token(request[r].copy) \/ request[r].copy.refresh_token = nil)
  <2>1. request' = [request EXCEPT ![r] = At(request[r], "refreshing")]
    BY <1>4 DEF EnsureValid
  <2>2. RequestOK(At(request[r], "refreshing"), issued)
    BY <1>1, <1>4, Held DEF RequestOK, At, Request, Steps, Kinds, tesla_connected
  <2>3. QED
    BY <1>1, <2>1, <2>2, GoesOn DEF Steps
<1>5. QED
  BY <1>2, <1>3, <1>4

LEMMA VerifyInv ==
  ASSUME IInv, NEW r \in Requests, Verify(r)
  PROVE  IInv'
<1>1. request[r].step = "loaded" /\ request[r].kind = "verify" /\ request[r].answer = nil
      /\ UNCHANGED <<user, issued, live, fresh, fleet, stale, lost>>
  BY Held DEF Verify, RequestOK
<1>2. CASE request[r].copy.refresh_token = nil
  <2>1. request' = [request EXCEPT ![r] = Idle]
    BY <1>2 DEF Verify
  <2>2. QED
    BY <1>1, <2>1, Held, GoesIdle
<1>3. CASE request[r].copy.refresh_token # nil
  <2>1. request' = [request EXCEPT ![r] = At(request[r], "refreshing")]
    BY <1>3 DEF Verify
  <2>2. RequestOK(At(request[r], "refreshing"), issued)
    BY <1>1, <1>3, Held DEF RequestOK, At, Request, Steps, Kinds
  <2>3. QED
    BY <1>1, <2>1, <2>2, GoesOn DEF Steps
<1>4. QED
  BY <1>2, <1>3

LEMMA CalledInv ==
  ASSUME IInv, NEW r \in Requests, Called(r)
  PROVE  IInv'
<1>1. /\ request[r].step = "calling" /\ request[r].kind = "call" /\ request[r].answer = nil
      /\ request' = [request EXCEPT ![r] = At(request[r], "loaded")]
      /\ UNCHANGED <<user, issued, live, fresh, fleet, stale, lost>>
  BY Held DEF Called, RequestOK
<1>2. RequestOK(At(request[r], "loaded"), issued)
  BY <1>1, Held DEF RequestOK, At, Request, Steps, Kinds
<1>3. QED
  BY <1>1, <1>2, GoesOn DEF Steps

LEMMA FinishInv ==
  ASSUME IInv, NEW r \in Requests, Finish(r)
  PROVE  IInv'
<1>1. /\ request' = [request EXCEPT ![r] = Idle]
      /\ UNCHANGED <<user, issued, live, fresh, fleet, stale>>
      /\ lost \subseteq lost'
      /\ request[r].step = "storing" => request[r].copy.refresh_token \in lost'
  BY DEF Finish
<1>2. lost' \subseteq 1..issued
  BY Spends, Held DEF Finish
<1>3. QED
  BY <1>1, <1>2, GoesIdle

\* A call whose refresh has failed; its copy may hold unsaved tokens.
LEMMA FailedCallOK ==
  ASSUME IInv, NEW r \in Requests, NEW copy, request[r].step \in {"refreshing", "storing"},
         Tokens(copy, issued)
  PROVE  LET q == Request("calling", "call", request[r].base, copy, nil) IN
         RequestOK(q, issued) /\ q.answer = nil /\ q.base = request[r].base /\ q.copy = copy
BY Held DEF RequestOK, Tokens, Request, Steps, Kinds, nil

LEMMA RefusedInv ==
  ASSUME IInv, NEW r \in Requests, Refused(r)
  PROVE  IInv'
<1> DEFINE q == Unrefreshed(request[r])
<1>1. /\ request[r].step = "refreshing" /\ lost' = lost
      /\ request' = [request EXCEPT ![r] = q]
      /\ request[r].kind = "call" => q = Request("calling", "call", request[r].base, request[r].copy, nil)
      /\ request[r].kind # "call" => q = Idle
      /\ UNCHANGED <<user, issued, live, fresh, fleet, stale>>
  BY DEF Refused, Unrefreshed
<1>2. Tokens(request[r].copy, issued) /\ lost' \subseteq 1..issued /\ (~stale => Truthful(request[r].copy))
  BY <1>1, Held DEF RequestOK
<1>3. /\ request[r].step \in {"refreshing", "storing"} /\ lost \subseteq lost'
      /\ request[r].copy.refresh_token \in {request[r].copy.refresh_token, request[r].answer}
      /\ request[r].step = "storing" => request[r].copy.refresh_token \in lost'
  BY <1>1
<1>4. request[r].kind = "call" =>
        RequestOK(q, issued) /\ q.answer = nil /\ q.base = request[r].base /\ q.copy = request[r].copy
  BY <1>1, <1>2, <1>3, FailedCallOK
<1> HIDE DEF q
<1>5. CASE request[r].kind = "call"
  BY <1>1, <1>2, <1>3, <1>4, <1>5, QuietStep
<1>6. CASE request[r].kind # "call"
  BY <1>1, <1>2, <1>3, <1>6, GoesIdle
<1>7. QED
  BY <1>5, <1>6

LEMMA RefreshedOK ==
  ASSUME IInv, NEW r \in Requests, request[r].step = "storing"
  PROVE  LET copy == Refreshed(request[r].copy, request[r].kind, request[r].answer) IN
         /\ copy \in Users /\ Tokens(copy, issued) /\ copy.refresh_token = request[r].answer
         /\ request[r].answer # nil /\ (~stale => Truthful(copy))
         /\ copy.tesla_status # "pending"
BY Held DEF RequestOK, Tokens, Users, Statuses, Refreshed, nil

LEMMA StoreFailsInv ==
  ASSUME IInv, NEW r \in Requests, StoreFails(r)
  PROVE  IInv'
<1> DEFINE copy == Refreshed(request[r].copy, request[r].kind, request[r].answer)
           q == Unrefreshed(Request("storing", request[r].kind, request[r].base, copy, request[r].answer))
<1>1. /\ request[r].step = "storing" /\ lost' = lost \cup {request[r].copy.refresh_token}
      /\ request' = [request EXCEPT ![r] = q]
      /\ request[r].kind = "call" => q = Request("calling", "call", request[r].base, copy, nil)
      /\ request[r].kind # "call" => q = Idle
      /\ UNCHANGED <<user, issued, live, fresh, fleet, stale>>
  BY DEF StoreFails, Unrefreshed, Request
<1>2. /\ Tokens(copy, issued) /\ copy.refresh_token = request[r].answer /\ (~stale => Truthful(copy))
      /\ lost' \subseteq 1..issued
  BY <1>1, RefreshedOK, Spends, Held
<1>3. /\ request[r].step \in {"refreshing", "storing"} /\ lost \subseteq lost'
      /\ copy.refresh_token \in {request[r].copy.refresh_token, request[r].answer}
      /\ request[r].step = "storing" => request[r].copy.refresh_token \in lost'
  BY <1>1, <1>2
<1>4. request[r].kind = "call" =>
        RequestOK(q, issued) /\ q.answer = nil /\ q.base = request[r].base /\ q.copy = copy
  BY <1>1, <1>2, <1>3, FailedCallOK
<1> HIDE DEF copy, q
<1>5. CASE request[r].kind = "call"
  BY <1>1, <1>2, <1>3, <1>4, <1>5, QuietStep
<1>6. CASE request[r].kind # "call"
  BY <1>1, <1>2, <1>3, <1>6, GoesIdle
<1>7. QED
  BY <1>5, <1>6

LEMMA StoreRefreshInv ==
  ASSUME IInv, NEW r \in Requests, StoreRefresh(r)
  PROVE  IInv'
<1> DEFINE copy == Refreshed(request[r].copy, request[r].kind, request[r].answer)
           q == IF request[r].kind = "call" THEN Request("calling", "call", copy, copy, nil) ELSE Idle
<1>1. /\ request[r].step = "storing"
      /\ request' = [request EXCEPT ![r] = q]
      /\ user' = Saved(user, request[r].base, copy)
      /\ stale' = (stale \/ user # request[r].base)
      /\ UNCHANGED <<issued, live, fresh, fleet, lost>>
  BY DEF StoreRefresh, Save
<1>2. /\ copy \in Users /\ Tokens(copy, issued) /\ copy.refresh_token = request[r].answer
      /\ request[r].answer # nil /\ (~stale => Truthful(copy))
  BY <1>1, RefreshedOK
<1> HIDE DEF copy
<1>3. RequestOK(Idle, issued) /\ Truthful(NoUser)
  BY Held, IdleOK
<1>4. RequestOK(Request("calling", "call", copy, copy, nil), issued)
  BY <1>2, Held DEF RequestOK, Request, Tokens, Steps, Kinds, nil
<1>5. /\ RequestOK(q, issued) /\ q.answer = nil
      /\ q.base.refresh_token \in {copy.refresh_token, nil} /\ q.copy.refresh_token \in {copy.refresh_token, nil}
      /\ ~stale => Truthful(q.copy)
  BY <1>2, <1>3, <1>4 DEF Request, Idle, NoUser
<1> HIDE DEF q
<1>6. QED
  BY <1>1, <1>2, <1>5, SaveStep

LEMMA ConnectInv ==
  ASSUME IInv, NEW r \in Requests, Connect(r)
  PROVE  IInv'
<1> DEFINE copy == Connected(request[r].copy, request[r].answer)
           q == Request("refreshing", request[r].kind, copy, copy, nil)
<1>1. /\ request[r].step = "loaded" /\ request[r].kind = "connect"
      /\ request' = [request EXCEPT ![r] = q]
      /\ user' = Saved(user, request[r].base, copy)
      /\ stale' = (stale \/ user # request[r].base)
      /\ UNCHANGED <<issued, live, fresh, fleet, lost>>
  BY DEF Connect, Save
<1>2. /\ copy \in Users /\ Tokens(copy, issued) /\ copy.refresh_token = request[r].answer
      /\ request[r].answer # nil /\ Truthful(copy)
  BY <1>1, Held DEF RequestOK, Tokens, Users, Statuses, Connected, Truthful, nil
<1> HIDE DEF copy
<1>3. RequestOK(q, issued) /\ q.answer = nil /\ q.base = copy /\ q.copy = copy
  BY <1>1, <1>2, Held DEF RequestOK, Request, Tokens, Steps, Kinds, nil
<1> HIDE DEF q
<1>4. QED
  BY <1>1, <1>2, <1>3, SaveStep

LEMMA DisconnectInv ==
  ASSUME IInv, NEW r \in Requests, Disconnect(r)
  PROVE  IInv'
<1> DEFINE copy == Disconnected(request[r].copy)
<1>1. /\ request[r].step = "loaded"
      /\ request' = [request EXCEPT ![r] = Idle]
      /\ user' = Saved(user, request[r].base, copy)
      /\ stale' = (stale \/ user # request[r].base)
      /\ UNCHANGED <<issued, live, fresh, fleet, lost>>
  BY DEF Disconnect, Save
<1>2. copy \in Users /\ Tokens(copy, issued) /\ copy.refresh_token = nil /\ Truthful(copy)
  BY Held DEF Tokens, Users, Statuses, Disconnected, Truthful, nil
<1> HIDE DEF copy
<1>3. RequestOK(Idle, issued) /\ Truthful(NoUser)
  BY Held, IdleOK
<1>4. Idle.answer = nil /\ Idle.base = NoUser /\ Idle.copy = NoUser /\ NoUser.refresh_token = nil
  BY DEF Idle, Request, NoUser
<1>5. QED
  BY <1>1, <1>2, <1>3, <1>4, SaveStep

LEMMA CallbackInv ==
  ASSUME IInv, NEW r \in Requests, Callback(r)
  PROVE  IInv'
<1> DEFINE q == Request("loaded", "connect", user, user, issued')
<1>1. /\ request[r].step = "idle" /\ issued' = issued + 1 /\ issued' \in Grants /\ issued' # nil
      /\ request' = [request EXCEPT ![r] = q]
      /\ live' = live \cup {issued'} /\ fresh' = fresh \cup {issued'}
      /\ UNCHANGED <<user, fleet, lost, stale>>
  BY Held, GrantsAssumption DEF Callback, Grants, nil
<1>2. TypeOK /\ Requesting /\ issued \in Nat /\ issued' \in Nat /\ issued <= issued'
  BY <1>1, GrantsAssumption DEF IInv, TypeOK
<1>3. /\ RequestOK(q, issued') /\ q.answer = issued' /\ q.base = user /\ q.copy = user
      /\ q.step = "loaded"
  BY <1>1, <1>2, Held DEF RequestOK, Request, Tokens, Users, Grants, Steps, Kinds, nil
<1> HIDE DEF q
<1>4. /\ Requesting'
      /\ request' \in [Requests -> [step : Steps, kind : Kinds, base : Users, copy : Users, answer : Grants \cup {nil}]]
      /\ request'[r] = q
      /\ \A p \in Requests \ {r} : request'[p] = request[p]
  BY <1>1, <1>2, <1>3, OthersStay
<1>5. TypeOK'
  <2>1. live' \subseteq 1..issued' /\ fresh' \subseteq 1..issued' /\ fleet' \subseteq 1..issued' /\ lost' \subseteq 1..issued'
    BY <1>1, <1>2 DEF TypeOK
  <2>2. user' \in Users /\ user'.access_token <= issued' /\ user'.refresh_token <= issued' /\ issued' \in 0..MaxGrants
    BY <1>1, <1>2, GrantsAssumption DEF TypeOK, Users, Grants, nil
  <2>3. stale' \in BOOLEAN
    BY <1>1, <1>2 DEF TypeOK
  <2>4. QED
    BY <1>4, <2>1, <2>2, <2>3 DEF TypeOK
<1>6. Private'
  <2>1. /\ user.refresh_token # issued'
        /\ \A p \in Requests : /\ request[p].base.refresh_token # issued'
                               /\ request[p].copy.refresh_token # issued'
                               /\ request[p].answer # issued'
    BY <1>1, <1>2 DEF TypeOK, Requesting, RequestOK, Tokens, Users, Grants, nil
  <2>2. QED
    BY <1>1, <1>3, <1>4, <2>1 DEF IInv, Private
<1>7. StoredTokenUsable'
  BY <1>1, <1>4 DEF IInv, StoredTokenUsable
<1>8. Truth'
  <2>1. \A u : Truthful(u)' <=> Truthful(u)
    BY <1>1 DEF Truthful
  <2>2. QED
    BY <1>1, <1>3, <1>4, <2>1 DEF IInv, Truth
<1>9. QED
  BY <1>4, <1>5, <1>6, <1>7, <1>8 DEF IInv

LEMMA GrantedInv ==
  ASSUME IInv, NEW r \in Requests, Granted(r)
  PROVE  IInv'
<1> DEFINE q == Request("storing", request[r].kind, request[r].base, request[r].copy, issued')
<1>1. /\ Grant(r) /\ request[r].step = "refreshing" /\ issued' = issued + 1 /\ issued' \in Grants /\ issued' # nil
      /\ request' = [request EXCEPT ![r] = q]
      /\ UNCHANGED <<user, lost, stale>>
  BY Held, GrantsAssumption DEF Granted, Grant, Grants, nil
<1>2. /\ q.step = "storing" /\ q.answer = issued' /\ q.base = request[r].base
      /\ q.copy = request[r].copy /\ q.kind = request[r].kind
  BY DEF Request
<1>3. RequestOK(q, issued')
  BY <1>1, Held DEF RequestOK, Request, Tokens, Users, Grants, Steps, Kinds, nil
<1> HIDE DEF q
<1>4. lost' \subseteq 1..issued /\ (~stale => Truthful(q.copy))
  BY <1>1, <1>2, Held
<1>5. QED
  BY <1>1, <1>2, <1>3, <1>4, GrantStep

LEMMA AnswerLostInv ==
  ASSUME IInv, NEW r \in Requests, AnswerLost(r)
  PROVE  IInv'
<1> DEFINE q == Unrefreshed(request[r])
<1>1. /\ Grant(r) /\ request[r].step = "refreshing" /\ issued' = issued + 1 /\ issued' \in Grants /\ issued' # nil
      /\ request' = [request EXCEPT ![r] = q]
      /\ UNCHANGED <<user, stale>> /\ lost' = lost \cup {request[r].copy.refresh_token}
  BY Held, GrantsAssumption DEF AnswerLost, Grant, Grants, nil
<1>2. lost' \subseteq 1..issued /\ (~stale => Truthful(request[r].copy)) /\ issued \in Nat
  BY <1>1, Held, Spends
<1>3. RequestOK(Idle, issued') /\ Truthful(NoUser)
  BY <1>1, <1>2, IdleOK
<1>4. CASE request[r].kind = "call"
  <2>1. q = Request("calling", "call", request[r].base, request[r].copy, nil)
    BY <1>4 DEF Unrefreshed
  <2>2. q.step = "calling" /\ q.answer = nil /\ q.base = request[r].base /\ q.copy = request[r].copy
    BY <2>1 DEF Request
  <2>3. RequestOK(q, issued')
    BY <1>1, <2>1, Held DEF RequestOK, Request, Tokens, Users, Grants, Steps, Kinds, nil
  <2> HIDE DEF q
  <2>4. QED
    BY <1>1, <1>2, <2>2, <2>3, GrantStep
<1>5. CASE request[r].kind # "call"
  <2>1. q = Idle
    BY <1>5 DEF Unrefreshed
  <2>2. /\ q.step = "idle" /\ q.answer = nil /\ q.base.refresh_token = nil
        /\ q.copy = NoUser /\ q.copy.refresh_token = nil
    BY <2>1 DEF Idle, Request, NoUser
  <2> HIDE DEF q
  <2>3. QED
    BY <1>1, <1>2, <1>3, <2>1, <2>2, GrantStep
<1>6. QED
  BY <1>4, <1>5

LEMMA ExpireInv ==
  ASSUME IInv, NEW g \in Grants, Expire(g)
  PROVE  IInv'
<1>1. fresh' = fresh \ {g} /\ UNCHANGED <<user, request, issued, live, fleet, lost, stale>>
  BY DEF Expire
<1>2. TypeOK' /\ Requesting'
  BY <1>1 DEF IInv, TypeOK, Requesting
<1>3. Private' /\ StoredTokenUsable'
  BY <1>1 DEF IInv, Private, StoredTokenUsable
<1>4. Truth'
  BY <1>1 DEF IInv, Truth, Truthful
<1>5. QED
  BY <1>2, <1>3, <1>4 DEF IInv

LEMMA StutterInv == IInv /\ UNCHANGED vars => IInv'
<1> SUFFICES ASSUME IInv, UNCHANGED vars PROVE IInv'
  OBVIOUS
<1>1. UNCHANGED <<user, request, issued, live, fresh, fleet, lost, stale>>
  BY DEF vars
<1>2. TypeOK' /\ Requesting' /\ Private' /\ StoredTokenUsable'
  BY <1>1 DEF IInv, TypeOK, Requesting, Private, StoredTokenUsable
<1>3. Truth'
  BY <1>1 DEF IInv, Truth, Truthful
<1>4. QED
  BY <1>2, <1>3 DEF IInv

LEMMA NextInv == IInv /\ [Next]_vars => IInv'
BY StutterInv, LoadInv, CallbackInv, ConnectInv, DisconnectInv, EnsureValidInv, VerifyInv, GrantedInv,
   AnswerLostInv, RefusedInv, StoreRefreshInv, StoreFailsInv, CalledInv, FinishInv, ExpireInv DEF Next

-----------------------------------------------------------------------------
(* The theorems. *)

\* Every copy of the row that a request of authentication, connection or
\* disconnection holds, and the row itself, has tokens that were issued.
THEOREM TypesHold == Spec => []TypeOK
<1>1. IInv => TypeOK
  BY DEF IInv
<1>2. QED
  BY InitInv, NextInv, <1>1, PTL DEF Spec

\* However many requests refresh, connect and disconnect at once, the stored
\* refresh token works, or its successor is about to be stored, or a failure lost it.
THEOREM TokensStayUsable == Spec => []StoredTokenUsable
<1>1. IInv => StoredTokenUsable
  BY DEF IInv
<1>2. QED
  BY InitInv, NextInv, <1>1, PTL DEF Spec

\* Only the save of a stale copy makes the status lie about the tokens.
THEOREM StatusIsTrue == Spec => []StatusTellsTheTruth
<1>1. IInv => StatusTellsTheTruth
  BY DEF IInv, Truth, Truthful, StatusTellsTheTruth
<1>2. QED
  BY InitInv, NextInv, <1>1, PTL DEF Spec
=============================================================================
