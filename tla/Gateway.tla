------------------------------ MODULE Gateway ------------------------------
(***************************************************************************)
(* gateway: the way of a request from its route to the service behind it,  *)
(* and the two things the gateway remembers between requests: the signing  *)
(* keys of Keycloak and the employee of each account.                      *)
(*                                                                         *)
(* The gateway is one event loop, so that a request runs undisturbed from  *)
(* one await to the next: these stretches are the actions.  It may wait    *)
(* for the lock of the key store, for the keys, for a token, for core to   *)
(* name the employee, and for the service.  What it has read before is     *)
(* used after that.                                                        *)
(*                                                                         *)
(* The token is what its check tells apart: the key it names, whether its  *)
(* signature, term, issuer, audience, type and client are all right, and   *)
(* whom it stands for.                                                     *)
(***************************************************************************)
EXTENDS Integers, Sequences, FiniteSets, Functions

CONSTANTS
  Request,       \* requests that may be in flight at the same time
  Call,          \* what a request may ask: method, path and token
  Route,         \* the routing table
  Subject, Owner,      \* accounts, and the employee each belongs to once hired
  Kid, FirstKid, \* signing keys Keycloak may have, and the one it starts with
  Cooldown, RetryCooldown,     \* jwks_cooldown and retry_cooldown
  Ttl, MissingTtl, Capacity,   \* of the employee cache
  LookupTime,    \* how long an answer of core may take (the client's timeout)
  RefreshTime,   \* how long an answer of Keycloak may take
  MaxClock,      \* bound: the time of a behaviour
  Nobody, NoToken, Never

Roles == {"admin", "manager", "specialist"}
Token == [subject : Subject, kid : Kid, roles : SUBSET Roles, sound : BOOLEAN]

\* Paths of its own that the gateway answers itself: readyz and issue_token.
Probe == <<"readyz">>
LogIn == <<"auth", "token">>

\* Two routes that one path may match and neither of which is the more literal: the
\* order of the table would decide between them.
Literal(pattern) == { i \in DOMAIN pattern : pattern[i] # "*" }
Specificity(w) == Cardinality(Literal(w.pattern))
Ambiguous(v, w) ==
  /\ v.method = w.method /\ Len(v.pattern) = Len(w.pattern)
  /\ Specificity(v) = Specificity(w)
  /\ \A i \in Literal(v.pattern) \cap Literal(w.pattern) : v.pattern[i] = w.pattern[i]

ASSUME GatewayAssumption ==
  /\ \A c \in Call : /\ c.method \in {"GET", "POST", "PUT"} /\ c.path \in Seq(UNION {Range(d.path) : d \in Call})
                     /\ c.token \in Token \cup {NoToken}
  /\ \A w \in Route : w.roles \subseteq Roles /\ Len(w.pattern) > 0
  /\ \A v, w \in Route : Ambiguous(v, w) => v = w
  /\ FirstKid \in Kid
  /\ Owner \in [Subject -> Range(Owner)] /\ IsInjective(Owner)
  /\ {Cooldown, RetryCooldown, Ttl, MissingTtl, LookupTime, RefreshTime, MaxClock} \subseteq Nat
  /\ {Capacity, MissingTtl, Cooldown, RetryCooldown} \subseteq Nat \ {0} /\ MissingTtl <= Ttl
  /\ Nobody \notin Range(Owner) /\ Nobody \notin Request /\ Never \notin Nat
  /\ NoToken \notin Token

VARIABLES
  clock,
  hired,         \* when core bound each account to its employee
  published,     \* the keys Keycloak publishes
  keys, attemptedAt, failed, lock,     \* KeyStore
  cache,         \* EmployeeDirectory: what it remembers of some accounts
  request,
  ended          \* when the last attempt to fetch keys ended, and how (history)

keyStore == <<keys, attemptedAt, failed, lock, ended>>
outside == <<clock, hired, published>>
vars == <<clock, hired, published, keys, attemptedAt, failed, lock, cache, request, ended>>

HttpCode ==
  [UnauthenticatedError |-> 401, ForbiddenError |-> 403, UnknownRouteError |-> 404,
   MethodNotAllowedError |-> 405, UpstreamUnavailableError |-> 503,
   UpstreamTimeoutError |-> 504]

\* Of an answer it is remembered whether the caller got what was asked for.
Answered(code) == [step |-> "idle", served |-> code = 200]

\* waiting: for the lock; refreshing: holding it, since some time; granting: for a
\* token; asking: for core; told: core has found an employee, its answer is under
\* way; forwarded: to the service, for an employee learnt one way or another.
InFlight ==
  [step : {"waiting", "granting"}, call : Call]
  \cup [step : {"refreshing", "asking"}, call : Call, since : Nat]
  \cup [step : {"told"}, call : Call, since : Nat, employee : Range(Owner) \cup {Nobody}]
  \cup [step : {"forwarded"}, call : Call, employee : Range(Owner) \cup {Nobody},
        by : {"role", "directory", "failure"}]

Move(r, state) == request' = [request EXCEPT ![r] = state]

-----------------------------------------------------------------------------
(* Router.resolve.                                                         *)

Matches(pattern, path) ==
  /\ Len(pattern) = Len(path)
  /\ \A i \in DOMAIN path : pattern[i] \in {"*", path[i]}

Matched(c) == { w \in Route : Matches(w.pattern, c.path) }
Allowed(c) == { w \in Matched(c) : w.method = c.method }

\* The route with the most literal segments.
Resolve(c) ==
  LET allowed == Allowed(c) IN
  CHOOSE w \in allowed : \A v \in allowed : Specificity(v) <= Specificity(w)

-----------------------------------------------------------------------------
(* The rest of dispatch, once the key of the token is known.               *)

Privileged(roles) == roles \cap {"admin", "manager"} # {}

\* Mutant: the lifetimes are mixed up.
LifetimeSwapped(employee) == IF employee = Nobody THEN Ttl ELSE MissingTtl

Lifetime(employee) == IF employee = Nobody THEN MissingTtl ELSE Ttl

Fresh(entry) == clock - entry.at < Lifetime(entry.employee)

Forwarded(c, employee, by) ==
  [step |-> "forwarded", call |-> c, employee |-> employee, by |-> by]

\* verify with a known key, the role check, and employee_id up to its await.
Dispatch(r, c) ==
  LET t == c.token
      Admitted == t.sound /\ t.roles \cap Resolve(c).roles # {}
      Cached == t.subject \in DOMAIN cache /\ Fresh(cache[t.subject])
  IN
  \/ ~t.sound /\ Move(r, Answered(HttpCode.UnauthenticatedError))
  \/ t.sound /\ ~Admitted /\ Move(r, Answered(HttpCode.ForbiddenError))
  \/ Admitted /\ Privileged(t.roles) /\ Move(r, Forwarded(c, Nobody, "role"))
  \/ Admitted /\ ~Privileged(t.roles) /\ Cached
     /\ Move(r, Forwarded(c, cache[t.subject].employee, "directory"))
  \/ Admitted /\ ~Privileged(t.roles) /\ ~Cached
     /\ Move(r, [step |-> "asking", call |-> c, since |-> clock])

\* What follows a look into the keys: for the probe, for a token just issued and
\* for a request to be passed on.
Continue(r, c, known) ==
  \/ c.path = Probe
     /\ Move(r, Answered(IF known # {} THEN 200 ELSE HttpCode.UpstreamUnavailableError))
  \/ c.path # Probe /\ c.token.kid \notin known
     /\ Move(r, Answered(HttpCode.UnauthenticatedError))
  \/ c.path = LogIn /\ c.token.kid \in known
     /\ Move(r, Answered(IF c.token.sound THEN 200 ELSE HttpCode.UnauthenticatedError))
  \/ c.path \notin {Probe, LogIn} /\ c.token.kid \in known /\ Dispatch(r, c)

\* KeyStore.key and check_readiness: without the key, or without any, wait for the
\* lock to fetch them.
NeedsKeys(c) == IF c.path = Probe THEN keys = {} ELSE c.token.kid \notin keys

LookUpKey(r, c) ==
  \/ NeedsKeys(c) /\ Move(r, [step |-> "waiting", call |-> c])
  \/ ~NeedsKeys(c) /\ Continue(r, c, keys)

\* A sound token is signed with a key that Keycloak has.
Receive(r, c) ==
  /\ request[r].step = "idle"
  /\ c.token # NoToken /\ c.token.sound => c.token.kid \in published
  /\ UNCHANGED <<outside, keyStore, cache>>
  /\ \/ c.path = LogIn /\ Move(r, [step |-> "granting", call |-> c])
     \/ c.path = Probe /\ LookUpKey(r, c)
     \/ /\ c.path \notin {LogIn, Probe}
        /\ \/ Matched(c) = {} /\ Move(r, Answered(HttpCode.UnknownRouteError))
           \/ Matched(c) # {} /\ Allowed(c) = {}
              /\ Move(r, Answered(HttpCode.MethodNotAllowedError))
           \/ Allowed(c) # {} /\ c.token = NoToken
              /\ Move(r, Answered(HttpCode.UnauthenticatedError))
           \/ Allowed(c) # {} /\ c.token # NoToken /\ LookUpKey(r, c)

\* password_grant: Keycloak is not there, refuses, or issues the token.
Grant(r) ==
  /\ request[r].step = "granting"
  /\ \/ Move(r, Answered(HttpCode.UpstreamUnavailableError))
     \/ Move(r, Answered(HttpCode.UnauthenticatedError))
     \/ LookUpKey(r, request[r].call)
  /\ UNCHANGED <<outside, keyStore, cache>>

-----------------------------------------------------------------------------
(* KeyStore.refresh.                                                       *)

Pause == IF failed THEN RetryCooldown ELSE Cooldown

\* Too soon after the last attempt: the lock is released at once.
SkipRefresh(r) ==
  /\ request[r].step = "waiting" /\ lock = Nobody
  /\ clock - attemptedAt < Pause
  /\ Continue(r, request[r].call, keys)
  /\ UNCHANGED <<outside, keyStore, cache>>

BeginRefresh(r) ==
  /\ request[r].step = "waiting" /\ lock = Nobody
  /\ clock - attemptedAt >= Pause
  /\ lock' = r
  /\ Move(r, [step |-> "refreshing", call |-> request[r].call, since |-> clock])
  /\ UNCHANGED <<outside, keys, attemptedAt, failed, cache, ended>>

\* Mutant: the attempt is stamped with its start.
StampStart(r) ==
  /\ attemptedAt' = request[r].since
  /\ ended' = [at |-> clock, badly |-> failed']

\* The finally of the attempt.
Stamp(r) ==
  /\ attemptedAt' = clock
  /\ ended' = [at |-> clock, badly |-> failed']

\* The document may hold no key that signs with RSA: the store is then empty, though
\* nothing has failed.
EndRefresh(r) ==
  /\ request[r].step = "refreshing"
  /\ \/ keys' \in {published, {}} /\ failed' = FALSE
     \/ keys' = keys /\ failed' = TRUE
  /\ Stamp(r)
  /\ lock' = Nobody
  /\ Continue(r, request[r].call, IF failed' /\ request[r].call.path = Probe THEN {} ELSE keys')
  /\ UNCHANGED <<outside, cache>>

\* A document of another shape, a key without kid or one that does not load: the
\* exception is nobody's, the keys stay, and the attempt does not count as failed.
MisreadKeys(r) ==
  /\ request[r].step = "refreshing"
  /\ keys' = keys /\ failed' = FALSE
  /\ Stamp(r)
  /\ lock' = Nobody
  /\ Move(r, Answered(500))
  /\ UNCHANGED <<outside, cache>>

-----------------------------------------------------------------------------
(* EmployeeDirectory.employee_id after its await.                          *)

\* In core, an account without an employee is not found.
ResolveBySubject(s) == IF hired[s] = Never THEN Nobody ELSE Owner[s]

CoreAnswers(r) ==
  LET c == request[r].call IN
  /\ request[r].step = "asking"
  /\ Move(r, [step |-> "told", call |-> c, since |-> request[r].since,
              employee |-> ResolveBySubject(c.token.subject)])
  /\ UNCHANGED <<outside, keyStore, cache>>

\* No answer in time, no core, or an answer that is neither yes nor no.
LookupFails(r) ==
  /\ request[r].step \in {"asking", "told"}
  /\ Move(r, Forwarded(request[r].call, Nobody, "failure"))
  /\ UNCHANGED <<outside, keyStore, cache>>

\* _evict: entries that have had their time, and the oldest while there is no room.
Kept(oldest) ==
  LET live == { s \in DOMAIN cache : Fresh(cache[s]) } IN
  IF Cardinality(live) < Capacity THEN live ELSE live \ {oldest}

Oldest(s) == \A t \in DOMAIN cache : cache[s].at <= cache[t].at

\* Mutant: there is room for one more.
RoomTooMuch(s) == Cardinality(DOMAIN cache) <= Capacity \/ s \in DOMAIN cache

Room(s) == Cardinality(DOMAIN cache) < Capacity \/ s \in DOMAIN cache

With(s, entry, kept) ==
  [t \in kept \cup {s} |-> IF t = s THEN entry ELSE cache[t]]

Remember(s, employee) ==
  LET entry == [at |-> clock, employee |-> employee] IN
  \/ Room(s) /\ cache' = With(s, entry, DOMAIN cache)
  \/ ~Room(s) /\ \E o \in DOMAIN cache :
       Oldest(o) /\ cache' = With(s, entry, Kept(o))

LearnEmployee(r) ==
  /\ request[r].step = "told"
  /\ Remember(request[r].call.token.subject, request[r].employee)
  /\ Move(r, Forwarded(request[r].call, request[r].employee, "directory"))
  /\ UNCHANGED <<outside, keyStore>>

-----------------------------------------------------------------------------
(* Proxy.forward and the service behind it.                                *)

\* Three services answer for one employee, and check whose request it is.
ChecksOwner(c) == Head(c.path) = "employees"

\* Identity.parse: what the service makes of the headers that the gateway has set.  A
\* call without identity comes from inside, never through the gateway.
Caller(c, employee) == [roles |-> c.token.roles, employee |-> employee]

\* Mutant: an account without an employee is not restricted.
OwnerIfBound(caller, owner) ==
  Privileged(caller.roles) \/ caller.employee \in {owner, Nobody}

EnsureOwner(caller, owner) ==
  Privileged(caller.roles) \/ (caller.employee # Nobody /\ owner = caller.employee)

\* A handler that starts with ensure_owner.
ServeOwner(r, what) ==
  LET c == request[r].call IN
  /\ request[r].step = "forwarded" /\ ChecksOwner(c) /\ c.path[3] = what
  /\ Move(r, Answered(IF EnsureOwner(Caller(c, request[r].employee), c.path[2])
                        THEN 200 ELSE 403))
  /\ UNCHANGED <<outside, keyStore, cache>>

GetSchedule(r) == ServeOwner(r, "schedule")
GetCommission(r) == ServeOwner(r, "commission")
EmployeeWorkload(r) == ServeOwner(r, "workload")

Serve(r) ==
  /\ request[r].step = "forwarded" /\ ~ChecksOwner(request[r].call)
  /\ Move(r, Answered(200))
  /\ UNCHANGED <<outside, keyStore, cache>>

UpstreamFails(r) ==
  /\ request[r].step = "forwarded"
  /\ \E error \in {"UpstreamUnavailableError", "UpstreamTimeoutError"} :
       Move(r, Answered(HttpCode[error]))
  /\ UNCHANGED <<outside, keyStore, cache>>

-----------------------------------------------------------------------------
(* What happens around.                                                    *)

\* hire_employee in core: an account is bound once.
Hire(s) ==
  /\ hired[s] = Never
  /\ hired' = [hired EXCEPT ![s] = clock]
  /\ UNCHANGED <<clock, published, keyStore, cache, request>>

Rotate(k) ==
  /\ k \notin published
  /\ published' = published \cup {k}
  /\ UNCHANGED <<clock, hired, keyStore, cache, request>>

\* build_context: the process comes up with nothing but the first, forced refresh,
\* whose failure does not stop it.  (A document that cannot be read does: it does not
\* come up until there is another.)
Start ==
  /\ \/ keys' \in {published, {}} /\ failed' = FALSE
     \/ keys' = {} /\ failed' = TRUE
  /\ attemptedAt' = clock /\ ended' = [at |-> clock, badly |-> failed']
  /\ lock' = Nobody
  /\ cache' = << >>
  /\ request' = [r \in Request |-> Answered(0)]

\* The process dies and is started again.
Restart == Start /\ UNCHANGED outside

\* Time passes only where nobody is due: answers come or time out, and a free lock
\* does not stay free while somebody waits for it.
Tick ==
  /\ clock < MaxClock
  /\ \A r \in Request :
       /\ request[r].step = "waiting" => lock # Nobody
       /\ request[r].step \in {"asking", "told"} => clock - request[r].since < LookupTime
       /\ request[r].step = "refreshing" => clock - request[r].since < RefreshTime
  /\ clock' = clock + 1
  /\ UNCHANGED <<hired, published, keyStore, cache, request>>

Init ==
  /\ clock = 0
  /\ hired = [s \in Subject |-> Never]
  /\ published = {FirstKid}
  /\ \/ keys \in {published, {}} /\ failed = FALSE
     \/ keys = {} /\ failed = TRUE
  /\ attemptedAt = 0 /\ ended = [at |-> 0, badly |-> failed]
  /\ lock = Nobody
  /\ cache = << >>
  /\ request = [r \in Request |-> Answered(0)]

HandleRequest(r) ==
  \/ \E c \in Call : Receive(r, c)
  \/ Grant(r)
  \/ SkipRefresh(r) \/ BeginRefresh(r) \/ EndRefresh(r) \/ MisreadKeys(r)
  \/ CoreAnswers(r) \/ LookupFails(r) \/ LearnEmployee(r)
  \/ GetSchedule(r) \/ GetCommission(r) \/ EmployeeWorkload(r)
  \/ Serve(r) \/ UpstreamFails(r)

Next ==
  \/ \E r \in Request : HandleRequest(r)
  \/ \E s \in Subject : Hire(s)
  \/ \E k \in Kid : Rotate(k)
  \/ Restart
  \/ Tick

Spec == Init /\ [][Next]_vars

-----------------------------------------------------------------------------
(* Properties.                                                             *)

Entry == [at : Nat, employee : Range(Owner) \cup {Nobody}]

\* Every variable keeps its type; the cache stays within its capacity, and the lock
\* is held by the one request that is fetching keys.
TypeOK ==
  /\ clock \in 0 .. MaxClock
  /\ hired \in [Subject -> Nat \cup {Never}]
  /\ published \subseteq Kid /\ keys \subseteq Kid
  /\ attemptedAt \in Nat /\ failed \in BOOLEAN
  /\ ended \in [at : Nat, badly : BOOLEAN]
  /\ DOMAIN cache \subseteq Subject /\ Range(cache) \subseteq Entry
  /\ Cardinality(DOMAIN cache) <= Capacity
  /\ \A r \in Request :
       /\ request[r] \in InFlight \/ request[r].step = "idle"
       /\ request[r].step = "refreshing" <=> lock = r

\* "An absent binding lives in the cache far shorter than a found one": a specialist
\* just bound to an account is taken for nobody no longer than such an entry lives
\* and an answer of core takes, even where a slow answer overwrites a newer one.
StaleMissBounded ==
  [][\A r \in Request :
       request'[r] # request[r] /\ request'[r].step = "forwarded"
       /\ request'[r].by = "directory" /\ request'[r].employee = Nobody
         => LET s == request'[r].call.token.subject IN
            hired[s] # Never => clock - hired[s] < MissingTtl + LookupTime]_vars

\* However many requests wait for the lock, and whatever the attempts before came
\* to, one of them fetches keys exactly if the pause is over that the last attempt
\* calls for, counted from its end: nobody waits for one timeout after another, and
\* nobody is told that his key is unknown while it may be fetched.  (A restart, which
\* ends every request, is an attempt of its own.)
RefreshesAreSpaced ==
  [][\A r \in Request :
       request[r].step = "waiting" /\ request'[r].step # "waiting" /\ ended' = ended
         => (request'[r].step = "refreshing" <=>
               clock - ended.at >= (IF ended.badly THEN RetryCooldown ELSE Cooldown))]_vars

\* A specialist is served what belongs to one employee only if that employee is
\* bound to the account of the token; the cache, the headers and the check of the
\* service together see to that.
OwnObjectsOnly ==
  [][\A r \in Request :
       LET c == request[r].call IN
       request[r].step = "forwarded" /\ request'[r] = Answered(200)
       /\ ChecksOwner(c) /\ ~Privileged(c.token.roles)
         => hired[c.token.subject] # Never /\ c.path[2] = Owner[c.token.subject]]_vars

=============================================================================
