---------------------------- MODULE GatewayProofs ----------------------------
(***************************************************************************)
(* Theorems about the gateway, for any calls, accounts, keys, lifetimes    *)
(* and capacity: what a request knows of its employee across the awaits is *)
(* true, and not too old.                                                  *)
(***************************************************************************)
EXTENDS Gateway, FiniteSetTheorems, TLAPS

-----------------------------------------------------------------------------
(* The inductive invariant.                                                *)

Answer == [step : {"idle"}, served : BOOLEAN]

\* A binding that somebody remembers is there; only its absence may be out of date.
Bound(employee, s) == employee # Nobody => employee = Owner[s] /\ hired[s] # Never

\* What a request in flight knows.  Core's "not found" is from a time after the
\* question was asked.
RequestOK(state) ==
  /\ state \in InFlight \cup Answer
  /\ state.step # "idle" /\ state.call.path \notin {Probe, LogIn} => state.call.token \in Token
  /\ state.step \in {"asking", "told", "forwarded"} => state.call.token \in Token
  /\ state.step \in {"told", "forwarded"} => Bound(state.employee, state.call.token.subject)
  /\ state.step \in {"asking", "told"} => state.since <= clock /\ clock - state.since <= LookupTime
  /\ state.step = "told" /\ state.employee = Nobody =>
       LET s == state.call.token.subject IN hired[s] # Never => state.since <= hired[s]

RequestsOK ==
  /\ request \in [Request -> InFlight \cup Answer]
  /\ \A r \in Request : RequestOK(request[r])

\* What the cache remembers is as old as it says, and an absent binding was asked for
\* before the account was bound.
CacheOK ==
  /\ IsFiniteSet(DOMAIN cache)
  /\ cache \in [DOMAIN cache -> Entry]
  /\ \A s \in DOMAIN cache :
       /\ Bound(cache[s].employee, s)
       /\ cache[s].at <= clock
       /\ cache[s].employee = Nobody /\ hired[s] # Never => cache[s].at - hired[s] <= LookupTime

Stamped == ended = [at |-> attemptedAt, badly |-> failed]

IInv ==
  /\ TypeOK
  /\ lock \in Request \cup {Nobody}
  /\ RequestsOK
  /\ CacheOK
  /\ Stamped

-----------------------------------------------------------------------------
(* Lemmas.                                                                 *)

LEMMA Constants ==
  /\ {Cooldown, RetryCooldown, Ttl, MissingTtl, LookupTime, RefreshTime, MaxClock, Capacity}
       \subseteq Nat
  /\ MissingTtl > 0 /\ Capacity > 0 /\ Cooldown > 0 /\ RetryCooldown > 0
  /\ Owner \in [Subject -> Range(Owner)] /\ FirstKid \in Kid
  /\ Nobody \notin Range(Owner) /\ Nobody \notin Request /\ Never \notin Nat
  /\ \A s \in Subject : Owner[s] \in Range(Owner)
BY GatewayAssumption DEF Range

LEMMA CallTypes ==
  \A c \in Call : c.token \in Token \cup {NoToken}
BY GatewayAssumption

LEMMA TokenTypes ==
  \A t \in Token : t.subject \in Subject /\ t.kid \in Kid /\ t.roles \subseteq Roles
BY DEF Token

LEMMA Answers == \A code : Answered(code) \in Answer /\ Answered(code).step = "idle"
BY DEF Answered, Answer

\* The table has one part that concerns the memory of the directory.
CacheTyped ==
  /\ DOMAIN cache \subseteq Subject /\ Range(cache) \subseteq Entry
  /\ Cardinality(DOMAIN cache) <= Capacity

\* A request that learns "nobody" does so while that is not long out of date.
MissOK(state) ==
  state.step = "forwarded" /\ state.by = "directory" /\ state.employee = Nobody =>
    LET s == state.call.token.subject IN
    hired[s] # Never => clock - hired[s] < MissingTtl + LookupTime

\* A step of one request that leaves the rest in order.
LEMMA MoveKeeps ==
  ASSUME IInv, NEW r \in Request, NEW state, Move(r, state), RequestOK(state),
         UNCHANGED outside, CacheOK', CacheTyped',
         keys' \subseteq Kid, attemptedAt' \in Nat, failed' \in BOOLEAN,
         ended' = [at |-> attemptedAt', badly |-> failed'],
         lock' \in Request \cup {Nobody},
         state.step = "refreshing" <=> lock' = r,
         \A q \in Request \ {r} : lock' = q <=> lock = q
  PROVE  IInv'
<1>1. \A q \in Request : request'[q] = IF q = r THEN state ELSE request[q]
  BY DEF Move, IInv, RequestsOK
<1>2. \A q \in Request : RequestOK(request'[q])
  BY <1>1 DEF IInv, RequestsOK
<1>3. \A x : RequestOK(x) => RequestOK(x)'
  BY DEF RequestOK, outside, Bound
<1>4. RequestsOK'
  <2>1. request' \in [Request -> InFlight \cup Answer]
    BY DEF Move, IInv, RequestsOK, RequestOK
  <2>2. ASSUME NEW q \in Request PROVE RequestOK(request[q])'
    <3>1. PICK x : x = request'[q]
      OBVIOUS
    <3>2. RequestOK(x)'
      BY <1>2, <1>3, <3>1
    <3>. QED
      BY <3>1, <3>2 DEF RequestOK, Bound
  <2>. QED
    BY <2>1, <2>2 DEF RequestsOK
<1>5. TypeOK'
  <2>1. \A q \in Request : /\ request'[q] \in InFlight \/ request'[q].step = "idle"
                           /\ request'[q].step = "refreshing" <=> lock' = q
    <3>1. state \in InFlight \/ state.step = "idle"
      BY DEF RequestOK, Answer
    <3>. QED
      BY <1>1, <3>1 DEF IInv, TypeOK
  <2>2. ended' \in [at : Nat, badly : BOOLEAN]
    OBVIOUS
  <2>. QED
    BY <2>1, <2>2 DEF IInv, TypeOK, outside, CacheTyped
<1>. QED
  BY <1>4, <1>5 DEF IInv, Stamped

LEMMA SameCache ==
  ASSUME IInv, UNCHANGED <<outside, cache>>
  PROVE  CacheOK' /\ CacheTyped'
BY DEF IInv, CacheOK, outside, Bound, TypeOK, CacheTyped

LEMMA AnswerOK ==
  \A code : RequestOK(Answered(code)) /\ MissOK(Answered(code))
<1>. SUFFICES ASSUME NEW code PROVE RequestOK(Answered(code)) /\ MissOK(Answered(code))
  OBVIOUS
<1>1. Answered(code) \in Answer /\ Answered(code).step = "idle"
  BY Answers
<1>. QED
  BY <1>1 DEF RequestOK, MissOK

\* A request on its way to the service, for the employee named.
LEMMA ForwardedOK ==
  ASSUME NEW c \in Call, c.token \in Token, NEW by \in {"role", "directory", "failure"},
         NEW employee \in Range(Owner) \cup {Nobody}, Bound(employee, c.token.subject),
         by = "directory" /\ employee = Nobody /\ hired[c.token.subject] # Never =>
           clock - hired[c.token.subject] < MissingTtl + LookupTime
  PROVE  RequestOK(Forwarded(c, employee, by)) /\ MissOK(Forwarded(c, employee, by))
<1>. DEFINE f == Forwarded(c, employee, by)
<1>1. /\ f.step = "forwarded" /\ f.call = c /\ f.employee = employee /\ f.by = by
      /\ f \in InFlight
  BY DEF Forwarded, InFlight
<1>. QED
  BY <1>1 DEF RequestOK, MissOK

\* What the cache says may be passed on.
LEMMA CachedOK ==
  ASSUME IInv, NEW s \in Subject, s \in DOMAIN cache, Fresh(cache[s])
  PROVE  /\ cache[s].employee \in Range(Owner) \cup {Nobody}
         /\ Bound(cache[s].employee, s)
         /\ cache[s].employee = Nobody /\ hired[s] # Never =>
              clock - hired[s] < MissingTtl + LookupTime
<1>1. cache[s] \in Entry /\ cache[s].at \in Nat
  BY DEF IInv, CacheOK, Entry
<1>2. cache[s].employee \in Range(Owner) \cup {Nobody} /\ Bound(cache[s].employee, s)
  BY <1>1 DEF IInv, CacheOK, Entry
<1>3. ASSUME cache[s].employee = Nobody, hired[s] # Never
      PROVE  clock - hired[s] < MissingTtl + LookupTime
  <2>1. clock \in Nat /\ hired[s] \in Nat
    BY <1>3 DEF IInv, TypeOK
  <2>2. clock - cache[s].at < MissingTtl
    BY <1>3 DEF Fresh, Lifetime
  <2>3. cache[s].at - hired[s] <= LookupTime
    BY <1>3 DEF IInv, CacheOK
  <2>. QED
    BY <1>1, <2>1, <2>2, <2>3, Constants
<1>. QED
  BY <1>2, <1>3

\* What becomes of a request after a look into the keys.
LEMMA ContinueOK ==
  ASSUME IInv, NEW r \in Request, NEW c \in Call,
         c.path \notin {Probe, LogIn} => c.token \in Token,
         NEW known, Continue(r, c, known)
  PROVE  \E state : /\ Move(r, state) /\ RequestOK(state) /\ MissOK(state)
                    /\ state.step \notin {"refreshing", "waiting"}
<1>1. ASSUME NEW code, Move(r, Answered(code))
      PROVE  \E state : /\ Move(r, state) /\ RequestOK(state) /\ MissOK(state)
                        /\ state.step \notin {"refreshing", "waiting"}
  BY <1>1, AnswerOK, Answers
<1>2. CASE c.path \in {Probe, LogIn} \/ c.token.kid \notin known
  BY <1>1, <1>2 DEF Continue
<1>3. CASE c.path \notin {Probe, LogIn} /\ Dispatch(r, c)
  <2>. DEFINE t == c.token
              s == c.token.subject
  <2>1. t \in Token /\ s \in Subject
    BY <1>3, TokenTypes
  <2>2. \/ \E code : Move(r, Answered(code))
        \/ Move(r, Forwarded(c, Nobody, "role"))
        \/ s \in DOMAIN cache /\ Fresh(cache[s])
           /\ Move(r, Forwarded(c, cache[s].employee, "directory"))
        \/ Move(r, [step |-> "asking", call |-> c, since |-> clock])
    BY <1>3 DEF Dispatch
  <2>3. CASE Move(r, Forwarded(c, Nobody, "role"))
    <3>1. Bound(Nobody, s)
      BY DEF Bound
    <3>2. Forwarded(c, Nobody, "role").step = "forwarded"
      BY DEF Forwarded
    <3>. QED
      BY <2>1, <2>3, <3>1, <3>2, ForwardedOK
  <2>4. CASE s \in DOMAIN cache /\ Fresh(cache[s])
             /\ Move(r, Forwarded(c, cache[s].employee, "directory"))
    <3>1. Forwarded(c, cache[s].employee, "directory").step = "forwarded"
      BY DEF Forwarded
    <3>. QED
      BY <2>1, <2>4, <3>1, CachedOK, ForwardedOK
  <2>5. CASE Move(r, [step |-> "asking", call |-> c, since |-> clock])
    <3>. DEFINE state == [step |-> "asking", call |-> c, since |-> clock]
    <3>1. clock \in Nat /\ clock - clock <= LookupTime
      BY Constants DEF IInv, TypeOK
    <3>2. state \in InFlight
      BY <3>1 DEF InFlight
    <3>3. RequestOK(state)
      BY <2>1, <3>1, <3>2 DEF RequestOK
    <3>. QED
      BY <2>5, <3>3 DEF MissOK
  <2>. QED
    BY <1>1, <2>2, <2>3, <2>4, <2>5
<1>. QED
  BY <1>2, <1>3 DEF Continue

\* A request that waits for the lock.
LEMMA WaitingOK ==
  ASSUME NEW c \in Call, c.path \notin {Probe, LogIn} => c.token \in Token
  PROVE  LET state == [step |-> "waiting", call |-> c] IN RequestOK(state) /\ MissOK(state)
<1>. DEFINE state == [step |-> "waiting", call |-> c]
<1>1. state \in InFlight /\ state.step = "waiting" /\ state.call = c
  BY DEF InFlight
<1>. QED
  BY <1>1 DEF RequestOK, MissOK

LEMMA LookUpKeyOK ==
  ASSUME IInv, NEW r \in Request, NEW c \in Call,
         c.path \notin {Probe, LogIn} => c.token \in Token, LookUpKey(r, c)
  PROVE  \E state : /\ Move(r, state) /\ RequestOK(state) /\ MissOK(state)
                    /\ state.step # "refreshing"
<1>1. CASE Move(r, [step |-> "waiting", call |-> c])
  BY <1>1, WaitingOK DEF MissOK
<1>2. CASE Continue(r, c, keys)
  BY <1>2, ContinueOK
<1>. QED
  BY <1>1, <1>2 DEF LookUpKey

LEMMA ReceiveOK ==
  ASSUME IInv, NEW r \in Request, NEW c \in Call, Receive(r, c)
  PROVE  \E state : /\ Move(r, state) /\ RequestOK(state) /\ MissOK(state)
                    /\ state.step # "refreshing"
<1>1. ASSUME NEW code, Move(r, Answered(code))
      PROVE  \E state : /\ Move(r, state) /\ RequestOK(state) /\ MissOK(state)
                        /\ state.step # "refreshing"
  BY <1>1, AnswerOK, Answers
<1>2. CASE c.path = LogIn /\ Move(r, [step |-> "granting", call |-> c])
  <2>. DEFINE state == [step |-> "granting", call |-> c]
  <2>1. state \in InFlight /\ state.step = "granting" /\ state.call = c
    BY DEF InFlight
  <2>. QED
    BY <1>2, <2>1 DEF RequestOK, MissOK
<1>3. CASE c.path = Probe /\ LookUpKey(r, c)
  BY <1>3, LookUpKeyOK
<1>4. CASE c.token # NoToken /\ LookUpKey(r, c)
  BY <1>4, LookUpKeyOK, CallTypes
<1>. QED
  BY <1>1, <1>2, <1>3, <1>4 DEF Receive

LEMMA GrantOK ==
  ASSUME IInv, NEW r \in Request, Grant(r)
  PROVE  \E state : /\ Move(r, state) /\ RequestOK(state) /\ MissOK(state)
                    /\ state.step # "refreshing"
<1>1. ASSUME NEW code, Move(r, Answered(code))
      PROVE  \E state : /\ Move(r, state) /\ RequestOK(state) /\ MissOK(state)
                        /\ state.step # "refreshing"
  BY <1>1, AnswerOK, Answers
<1>2. CASE LookUpKey(r, request[r].call)
  <2>1. RequestOK(request[r]) /\ request[r].step = "granting"
    BY DEF IInv, RequestsOK, Grant
  <2>2. request[r] \in InFlight
    BY <2>1 DEF RequestOK, Answer
  <2>3. request[r].call \in Call
    BY <2>2 DEF InFlight
  <2>. QED
    BY <1>2, <2>1, <2>3, LookUpKeyOK DEF RequestOK
<1>. QED
  BY <1>1, <1>2 DEF Grant

\* What is known of a request in flight.
LEMMA AtWork ==
  ASSUME IInv, NEW r \in Request, request[r].step # "idle"
  PROVE  /\ request[r] \in InFlight /\ RequestOK(request[r]) /\ request[r].call \in Call
         /\ request[r].call.path \notin {Probe, LogIn} => request[r].call.token \in Token
<1>1. RequestOK(request[r]) /\ request[r] \in InFlight
  BY DEF IInv, RequestsOK, RequestOK, Answer
<1>2. request[r].call \in Call
  BY <1>1 DEF InFlight
<1>. QED
  BY <1>1, <1>2 DEF RequestOK

-----------------------------------------------------------------------------
(* The steps.                                                              *)

\* A step that touches neither keys nor cache.
LEMMA QuietStep ==
  ASSUME IInv, NEW r \in Request, UNCHANGED <<outside, keyStore, cache>>,
         request[r].step # "refreshing",
         \E state : Move(r, state) /\ RequestOK(state) /\ state.step # "refreshing"
  PROVE  IInv'
<1>1. PICK state : Move(r, state) /\ RequestOK(state) /\ state.step # "refreshing"
  OBVIOUS
<1>2. lock # r
  BY DEF IInv, TypeOK
<1>3. /\ UNCHANGED outside /\ CacheOK' /\ CacheTyped'
      /\ keys' \subseteq Kid /\ attemptedAt' \in Nat /\ failed' \in BOOLEAN
      /\ ended' = [at |-> attemptedAt', badly |-> failed']
      /\ lock' \in Request \cup {Nobody} /\ lock' = lock
  BY SameCache DEF IInv, TypeOK, keyStore, Stamped
<1>. QED
  BY <1>1, <1>2, <1>3, MoveKeeps

LEMMA SkipRefreshOK ==
  ASSUME IInv, NEW r \in Request, SkipRefresh(r)
  PROVE  \E state : /\ Move(r, state) /\ RequestOK(state) /\ MissOK(state)
                    /\ state.step # "refreshing"
BY AtWork, ContinueOK DEF SkipRefresh

LEMMA BeginRefreshKeeps ==
  ASSUME IInv, NEW r \in Request, BeginRefresh(r)
  PROVE  /\ IInv'
         /\ \E state : Move(r, state) /\ MissOK(state)
<1>. DEFINE c == request[r].call
            state == [step |-> "refreshing", call |-> c, since |-> clock]
<1>1. RequestOK(request[r]) /\ c \in Call
      /\ (c.path \notin {Probe, LogIn} => c.token \in Token)
  BY AtWork DEF BeginRefresh
<1>2. state \in InFlight /\ state.step = "refreshing" /\ state.call = c
  BY <1>1 DEF InFlight, IInv, TypeOK
<1>3. RequestOK(state) /\ MissOK(state)
  BY <1>1, <1>2 DEF RequestOK, MissOK
<1>4. Move(r, state) /\ lock = Nobody /\ lock' = r /\ Nobody \notin Request
  BY Constants DEF BeginRefresh
<1>5. UNCHANGED <<outside, keys, attemptedAt, failed, cache, ended>>
  BY DEF BeginRefresh
<1>6. CacheOK' /\ CacheTyped'
  BY <1>5, SameCache
<1>7. /\ keys' \subseteq Kid /\ attemptedAt' \in Nat /\ failed' \in BOOLEAN
      /\ ended' = [at |-> attemptedAt', badly |-> failed']
  BY <1>5 DEF IInv, TypeOK, Stamped
<1>. HIDE DEF state
<1>8. IInv'
  BY <1>2, <1>3, <1>4, <1>5, <1>6, <1>7, MoveKeeps
<1>. QED
  BY <1>3, <1>4, <1>8

LEMMA EndRefreshKeeps ==
  ASSUME IInv, NEW r \in Request, EndRefresh(r)
  PROVE  /\ IInv'
         /\ \E state : Move(r, state) /\ MissOK(state)
<1>. DEFINE c == request[r].call
            known == IF failed' /\ c.path = Probe THEN {} ELSE keys'
<1>1. c \in Call /\ (c.path \notin {Probe, LogIn} => c.token \in Token)
  BY AtWork DEF EndRefresh
<1>2. Continue(r, c, known)
  BY DEF EndRefresh
<1>3. PICK state : /\ Move(r, state) /\ RequestOK(state) /\ MissOK(state)
                   /\ state.step \notin {"refreshing", "waiting"}
  BY <1>1, <1>2, ContinueOK
<1>4. lock = r /\ lock' = Nobody /\ Nobody \notin Request
  BY Constants DEF EndRefresh, IInv, TypeOK
<1>5. /\ keys' \subseteq Kid /\ attemptedAt' \in Nat /\ failed' \in BOOLEAN
      /\ ended' = [at |-> attemptedAt', badly |-> failed']
  <2>1. keys' \subseteq Kid /\ failed' \in BOOLEAN
    BY DEF EndRefresh, IInv, TypeOK
  <2>2. attemptedAt' = clock /\ ended' = [at |-> clock, badly |-> failed']
    BY DEF EndRefresh, Stamp
  <2>3. clock \in Nat
    BY Constants DEF IInv, TypeOK
  <2>. QED
    BY <2>1, <2>2, <2>3
<1>6. CacheOK' /\ CacheTyped' /\ UNCHANGED outside
  BY SameCache DEF EndRefresh
<1>7. IInv'
  BY <1>3, <1>4, <1>5, <1>6, MoveKeeps
<1>. QED
  BY <1>3, <1>7

LEMMA MisreadKeysKeeps ==
  ASSUME IInv, NEW r \in Request, MisreadKeys(r)
  PROVE  /\ IInv'
         /\ \E state : Move(r, state) /\ MissOK(state)
<1>1. Move(r, Answered(500)) /\ RequestOK(Answered(500)) /\ MissOK(Answered(500))
      /\ Answered(500).step # "refreshing"
  BY AnswerOK, Answers DEF MisreadKeys
<1>2. lock = r /\ lock' = Nobody /\ Nobody \notin Request
  BY Constants DEF MisreadKeys, IInv, TypeOK
<1>3. /\ keys' \subseteq Kid /\ attemptedAt' \in Nat /\ failed' \in BOOLEAN
      /\ ended' = [at |-> attemptedAt', badly |-> failed']
  <2>1. keys' \subseteq Kid /\ failed' \in BOOLEAN
    BY DEF MisreadKeys, IInv, TypeOK
  <2>2. attemptedAt' = clock /\ ended' = [at |-> clock, badly |-> failed']
    BY DEF MisreadKeys, Stamp
  <2>3. clock \in Nat
    BY Constants DEF IInv, TypeOK
  <2>. QED
    BY <2>1, <2>2, <2>3
<1>4. CacheOK' /\ CacheTyped' /\ UNCHANGED outside
  BY SameCache DEF MisreadKeys
<1>5. IInv'
  BY <1>1, <1>2, <1>3, <1>4, MoveKeeps
<1>. QED
  BY <1>1, <1>5

LEMMA CoreAnswersOK ==
  ASSUME IInv, NEW r \in Request, CoreAnswers(r)
  PROVE  \E state : /\ Move(r, state) /\ RequestOK(state) /\ MissOK(state)
                    /\ state.step # "refreshing"
<1>. DEFINE c == request[r].call
            e == ResolveBySubject(c.token.subject)
            state == [step |-> "told", call |-> c, since |-> request[r].since, employee |-> e]
<1>1. /\ request[r].step = "asking" /\ Move(r, state)
      /\ request[r] \in InFlight /\ RequestOK(request[r]) /\ c \in Call
  BY AtWork DEF CoreAnswers
<1>2. c.token \in Token /\ c.token.subject \in Subject /\ request[r].since \in Nat
  BY <1>1, TokenTypes DEF RequestOK, InFlight
<1>3. e \in Range(Owner) \cup {Nobody} /\ Bound(e, c.token.subject)
  BY <1>2, Constants DEF ResolveBySubject, Bound
<1>4. state \in InFlight
  BY <1>1, <1>2, <1>3 DEF InFlight
<1>5. e = Nobody => hired[c.token.subject] = Never
  BY <1>2, Constants DEF ResolveBySubject
<1>6. request[r].since <= clock /\ clock - request[r].since <= LookupTime
  BY <1>1 DEF RequestOK
<1>7. /\ state.step = "told" /\ state.call = c /\ state.since = request[r].since
      /\ state.employee = e
  OBVIOUS
<1>. HIDE DEF state, e
<1>8. RequestOK(state) /\ MissOK(state)
  BY <1>1, <1>2, <1>3, <1>4, <1>5, <1>6, <1>7 DEF RequestOK, MissOK
<1>. QED
  BY <1>1, <1>7, <1>8

LEMMA LookupFailsOK ==
  ASSUME IInv, NEW r \in Request, LookupFails(r)
  PROVE  \E state : /\ Move(r, state) /\ RequestOK(state) /\ MissOK(state)
                    /\ state.step # "refreshing"
<1>. DEFINE c == request[r].call
<1>1. c \in Call /\ c.token \in Token /\ Bound(Nobody, c.token.subject)
  BY AtWork DEF LookupFails, RequestOK, Bound
<1>2. Move(r, Forwarded(c, Nobody, "failure"))
      /\ Forwarded(c, Nobody, "failure").step = "forwarded"
  BY DEF LookupFails, Forwarded
<1>. QED
  BY <1>1, <1>2, ForwardedOK

\* The service answers, or does not.
LEMMA ServedOK ==
  ASSUME IInv, NEW r \in Request,
         GetSchedule(r) \/ GetCommission(r) \/ EmployeeWorkload(r) \/ Serve(r) \/ UpstreamFails(r)
  PROVE  /\ request[r].step = "forwarded" /\ UNCHANGED <<outside, keyStore, cache>>
         /\ \E state : /\ Move(r, state) /\ RequestOK(state) /\ MissOK(state)
                       /\ state.step # "refreshing"
<1>1. \E code : Move(r, Answered(code))
  BY DEF GetSchedule, GetCommission, EmployeeWorkload, ServeOwner, Serve, UpstreamFails
<1>. QED
  BY <1>1, AnswerOK, Answers DEF GetSchedule, GetCommission, EmployeeWorkload, ServeOwner,
     Serve, UpstreamFails

\* _evict leaves room for what is to be remembered.
LEMMA EvictMakesRoom ==
  ASSUME IInv, NEW o \in DOMAIN cache
  PROVE  /\ Kept(o) \subseteq DOMAIN cache /\ IsFiniteSet(Kept(o))
         /\ Cardinality(Kept(o)) < Capacity
<1>. DEFINE live == { s \in DOMAIN cache : Fresh(cache[s]) }
<1>1. IsFiniteSet(DOMAIN cache) /\ Cardinality(DOMAIN cache) <= Capacity
  BY DEF IInv, CacheOK, TypeOK
<1>2. Kept(o) = IF Cardinality(live) < Capacity THEN live ELSE live \ {o}
  BY DEF Kept
<1>3. live \subseteq DOMAIN cache
  OBVIOUS
<1>. HIDE DEF live
<1>4. IsFiniteSet(live)
  BY <1>1, <1>3, FS_Subset
<1>5. CASE Cardinality(live) < Capacity
  BY <1>2, <1>3, <1>4, <1>5
<1>6. CASE ~(Cardinality(live) < Capacity)
  <2>. DEFINE others == DOMAIN cache \ {o}
  <2>1. /\ IsFiniteSet(others)
        /\ Cardinality(others) = Cardinality(DOMAIN cache) - 1
    BY <1>1, FS_RemoveElement
  <2>2. live \ {o} \subseteq others
    BY <1>3
  <2>. HIDE DEF others
  <2>3. IsFiniteSet(live \ {o}) /\ Cardinality(live \ {o}) <= Cardinality(others)
    BY <2>1, <2>2, FS_Subset
  <2>4. /\ Cardinality(live \ {o}) \in Nat /\ Cardinality(others) \in Nat
        /\ Cardinality(DOMAIN cache) \in Nat /\ Capacity \in Nat
    BY <1>1, <2>1, <2>3, FS_CardinalityType, Constants
  <2>5. Cardinality(live \ {o}) < Capacity
    BY <1>1, <2>1, <2>3, <2>4
  <2>. QED
    BY <1>2, <1>3, <1>6, <2>3, <2>5
<1>. QED
  BY <1>5, <1>6

\* One more entry, where there is room for it.
LEMMA AddingIsTyped ==
  ASSUME IInv, NEW s \in Subject, NEW entry \in Entry,
         NEW kept \in SUBSET DOMAIN cache, IsFiniteSet(kept),
         Cardinality(kept \cup {s}) <= Capacity, cache' = With(s, entry, kept)
  PROVE  /\ CacheTyped' /\ IsFiniteSet(DOMAIN cache') /\ cache' \in [DOMAIN cache' -> Entry]
         /\ \A t \in DOMAIN cache' : cache'[t] = IF t = s THEN entry ELSE cache[t]
         /\ DOMAIN cache' \subseteq DOMAIN cache \cup {s}
<1>1. DOMAIN cache' = kept \cup {s}
      /\ \A t \in DOMAIN cache' : cache'[t] = IF t = s THEN entry ELSE cache[t]
  BY DEF With
<1>2. cache' = [t \in DOMAIN cache' |-> cache'[t]]
  BY DEF With
<1>3. \A t \in DOMAIN cache' : cache'[t] \in Entry
  BY <1>1 DEF IInv, CacheOK
<1>4. cache' \in [DOMAIN cache' -> Entry]
  BY <1>2, <1>3
<1>5. IsFiniteSet(DOMAIN cache')
  BY <1>1, FS_AddElement
<1>6. DOMAIN cache' \subseteq Subject /\ Cardinality(DOMAIN cache') <= Capacity
  BY <1>1 DEF IInv, TypeOK
<1>7. \A x \in Range(cache') : x \in Entry
  BY <1>3 DEF Range
<1>8. CacheTyped'
  BY <1>6, <1>7 DEF CacheTyped, Entry
<1>. QED
  BY <1>1, <1>4, <1>5, <1>8

LEMMA RememberTyped ==
  ASSUME IInv, NEW s \in Subject, NEW employee \in Range(Owner) \cup {Nobody},
         Remember(s, employee)
  PROVE  LET entry == [at |-> clock, employee |-> employee] IN
         /\ CacheTyped' /\ IsFiniteSet(DOMAIN cache') /\ cache' \in [DOMAIN cache' -> Entry]
         /\ \A t \in DOMAIN cache' : cache'[t] = IF t = s THEN entry ELSE cache[t]
         /\ DOMAIN cache' \subseteq DOMAIN cache \cup {s}
<1>. DEFINE entry == [at |-> clock, employee |-> employee]
<1>1. entry \in Entry
  BY Constants DEF Entry, IInv, TypeOK
<1>2. /\ IsFiniteSet(DOMAIN cache) /\ Cardinality(DOMAIN cache) <= Capacity
      /\ Cardinality(DOMAIN cache) \in Nat /\ Capacity \in Nat
  BY FS_CardinalityType, Constants DEF IInv, CacheOK, TypeOK
<1>3. PICK kept \in SUBSET DOMAIN cache :
        /\ IsFiniteSet(kept) /\ Cardinality(kept \cup {s}) <= Capacity
        /\ cache' = With(s, entry, kept)
  <2>1. CASE Room(s) /\ cache' = With(s, entry, DOMAIN cache)
    <3>1. CASE s \in DOMAIN cache
      <4>1. DOMAIN cache \cup {s} = DOMAIN cache
        BY <3>1
      <4>. QED
        BY <1>2, <2>1, <4>1
    <3>2. CASE s \notin DOMAIN cache
      <4>1. Cardinality(DOMAIN cache) < Capacity
        BY <2>1, <3>2 DEF Room
      <4>2. Cardinality(DOMAIN cache \cup {s}) = Cardinality(DOMAIN cache) + 1
        BY <1>2, <3>2, FS_AddElement
      <4>3. Cardinality(DOMAIN cache \cup {s}) <= Capacity
        BY <1>2, <4>1, <4>2
      <4>. QED
        BY <1>2, <2>1, <4>3
    <3>. QED
      BY <3>1, <3>2
  <2>2. CASE ~Room(s) /\ \E o \in DOMAIN cache : Oldest(o) /\ cache' = With(s, entry, Kept(o))
    <3>1. PICK o \in DOMAIN cache : cache' = With(s, entry, Kept(o))
      BY <2>2
    <3>. DEFINE kept == Kept(o)
    <3>2. /\ kept \subseteq DOMAIN cache /\ IsFiniteSet(kept) /\ Cardinality(kept) < Capacity
          /\ s \notin kept
      BY <2>2, EvictMakesRoom DEF Room
    <3>3. cache' = With(s, entry, kept)
      BY <3>1
    <3>. HIDE DEF kept
    <3>4. Cardinality(kept \cup {s}) = Cardinality(kept) + 1 /\ Cardinality(kept) \in Nat
      BY <3>2, FS_AddElement, FS_CardinalityType
    <3>5. Cardinality(kept \cup {s}) <= Capacity
      BY <1>2, <3>2, <3>4
    <3>. QED
      BY <3>2, <3>3, <3>5
  <2>. QED
    BY <2>1, <2>2 DEF Remember
<1>. QED
  BY <1>1, <1>3, AddingIsTyped

\* What core has said is written down and passed on.
LEMMA LearnEmployeeKeeps ==
  ASSUME IInv, NEW r \in Request, LearnEmployee(r)
  PROVE  /\ IInv'
         /\ \E state : Move(r, state) /\ MissOK(state)
<1>. DEFINE c == request[r].call
            s == c.token.subject
            employee == request[r].employee
            since == request[r].since
            state == Forwarded(c, employee, "directory")
            entry == [at |-> clock, employee |-> employee]
<1>1. /\ request[r].step = "told" /\ Move(r, state) /\ Remember(s, employee)
      /\ UNCHANGED <<outside, keyStore>>
  BY DEF LearnEmployee
<1>2. /\ request[r] \in InFlight /\ RequestOK(request[r]) /\ c \in Call /\ c.token \in Token
      /\ s \in Subject
  BY <1>1, AtWork, TokenTypes DEF RequestOK
<1>3. since \in Nat /\ employee \in Range(Owner) \cup {Nobody}
  BY <1>1, <1>2 DEF InFlight
<1>4. /\ Bound(employee, s) /\ since <= clock /\ clock - since <= LookupTime
      /\ employee = Nobody /\ hired[s] # Never => since <= hired[s]
  BY <1>1, <1>2 DEF RequestOK
<1>5. clock \in Nat /\ LookupTime \in Nat /\ MissingTtl \in Nat /\ MissingTtl > 0
      /\ hired[s] \in Nat \cup {Never}
  BY <1>2, Constants DEF IInv, TypeOK
<1>6. employee = Nobody /\ hired[s] # Never => clock - hired[s] <= LookupTime
  BY <1>3, <1>4, <1>5
<1>7. RequestOK(state) /\ MissOK(state)
  <2>1. employee = Nobody /\ hired[s] # Never => clock - hired[s] < MissingTtl + LookupTime
    BY <1>5, <1>6
  <2>. QED
    BY <1>2, <1>3, <1>4, <2>1, ForwardedOK
<1>8. /\ CacheTyped' /\ IsFiniteSet(DOMAIN cache') /\ cache' \in [DOMAIN cache' -> Entry]
      /\ \A t \in DOMAIN cache' : cache'[t] = IF t = s THEN entry ELSE cache[t]
      /\ DOMAIN cache' \subseteq DOMAIN cache \cup {s}
  BY <1>1, <1>2, <1>3, RememberTyped
<1>9. CacheOK'
  <2>. SUFFICES ASSUME NEW t \in DOMAIN cache'
       PROVE  /\ Bound(cache'[t].employee, t) /\ cache'[t].at <= clock
              /\ cache'[t].employee = Nobody /\ hired[t] # Never =>
                   cache'[t].at - hired[t] <= LookupTime
    BY <1>1, <1>8 DEF CacheOK, outside, Bound, Entry
  <2>1. CASE t = s
    BY <1>4, <1>5, <1>6, <1>8, <2>1
  <2>2. CASE t # s
    BY <1>8, <2>2 DEF IInv, CacheOK
  <2>. QED
    BY <2>1, <2>2
<1>10. /\ keys' \subseteq Kid /\ attemptedAt' \in Nat /\ failed' \in BOOLEAN
       /\ ended' = [at |-> attemptedAt', badly |-> failed']
       /\ lock' \in Request \cup {Nobody} /\ lock' = lock
  BY <1>1 DEF IInv, TypeOK, keyStore, Stamped
<1>11. state.step = "forwarded" /\ lock # r
  BY <1>1 DEF Forwarded, IInv, TypeOK
<1>. HIDE DEF state
<1>12. IInv'
  BY <1>1, <1>7, <1>8, <1>9, <1>10, <1>11, MoveKeeps
<1>. QED
  BY <1>1, <1>7, <1>12

\* Whatever a request does next.
LEMMA RequestKeeps ==
  ASSUME IInv, NEW r \in Request, HandleRequest(r)
  PROVE  /\ IInv'
         /\ \E state : Move(r, state) /\ MissOK(state)
<1>1. CASE \E c \in Call : Receive(r, c)
  <2>1. UNCHANGED <<outside, keyStore, cache>> /\ request[r].step # "refreshing"
    BY <1>1 DEF Receive
  <2>. QED
    BY <1>1, <2>1, ReceiveOK, QuietStep
<1>2. CASE Grant(r)
  <2>1. UNCHANGED <<outside, keyStore, cache>> /\ request[r].step # "refreshing"
    BY <1>2 DEF Grant
  <2>. QED
    BY <1>2, <2>1, GrantOK, QuietStep
<1>3. CASE SkipRefresh(r)
  <2>1. UNCHANGED <<outside, keyStore, cache>> /\ request[r].step # "refreshing"
    BY <1>3 DEF SkipRefresh
  <2>. QED
    BY <1>3, <2>1, SkipRefreshOK, QuietStep
<1>4. CASE BeginRefresh(r)
  BY <1>4, BeginRefreshKeeps
<1>5. CASE EndRefresh(r) \/ MisreadKeys(r)
  BY <1>5, EndRefreshKeeps, MisreadKeysKeeps
<1>6. CASE CoreAnswers(r)
  <2>1. UNCHANGED <<outside, keyStore, cache>> /\ request[r].step # "refreshing"
    BY <1>6 DEF CoreAnswers
  <2>. QED
    BY <1>6, <2>1, CoreAnswersOK, QuietStep
<1>7. CASE LookupFails(r)
  <2>1. UNCHANGED <<outside, keyStore, cache>> /\ request[r].step # "refreshing"
    BY <1>7 DEF LookupFails
  <2>. QED
    BY <1>7, <2>1, LookupFailsOK, QuietStep
<1>8. CASE LearnEmployee(r)
  BY <1>8, LearnEmployeeKeeps
<1>9. CASE GetSchedule(r) \/ GetCommission(r) \/ EmployeeWorkload(r) \/ Serve(r)
           \/ UpstreamFails(r)
  <2>1. UNCHANGED <<outside, keyStore, cache>> /\ request[r].step # "refreshing"
    BY <1>9, ServedOK
  <2>. QED
    BY <1>9, <2>1, ServedOK, QuietStep
<1>. QED
  BY <1>1, <1>2, <1>3, <1>4, <1>5, <1>6, <1>7, <1>8, <1>9 DEF HandleRequest

LEMMA HireKeeps ==
  ASSUME IInv, NEW s \in Subject, Hire(s)
  PROVE  IInv'
<1>1. /\ hired[s] = Never /\ hired' = [hired EXCEPT ![s] = clock]
      /\ UNCHANGED <<clock, published, keyStore, cache, request>>
  BY DEF Hire
<1>2. clock \in Nat /\ clock # Never /\ LookupTime \in Nat
  BY Constants DEF IInv, TypeOK
<1>3. \A t \in Subject : hired'[t] = IF t = s THEN clock ELSE hired[t]
  BY <1>1 DEF IInv, TypeOK
<1>4. ASSUME NEW t \in Subject, NEW e, Bound(e, t)
      PROVE  Bound(e, t)'
  BY <1>2, <1>3, <1>4 DEF Bound
<1>5. CacheOK'
  <2>. SUFFICES ASSUME NEW t \in DOMAIN cache
       PROVE  /\ Bound(cache[t].employee, t)' /\ cache[t].at <= clock
              /\ cache[t].employee = Nobody /\ hired'[t] # Never =>
                   cache[t].at - hired'[t] <= LookupTime
    BY <1>1 DEF IInv, CacheOK, Entry, Bound
  <2>1. /\ t \in Subject /\ Bound(cache[t].employee, t) /\ cache[t].at <= clock
        /\ cache[t].at \in Nat
        /\ cache[t].employee = Nobody /\ hired[t] # Never => cache[t].at - hired[t] <= LookupTime
    BY DEF IInv, TypeOK, CacheOK, Entry
  <2>2. Bound(cache[t].employee, t)'
    BY <1>1, <1>2, <1>3, <2>1 DEF Bound
  <2>. QED
    BY <1>2, <1>3, <2>1, <2>2
<1>6. RequestsOK'
  <2>. SUFFICES ASSUME NEW q \in Request PROVE RequestOK(request[q])'
    BY <1>1 DEF IInv, RequestsOK, InFlight, Answer
  <2>. DEFINE x == request[q]
              t == x.call.token.subject
  <2>1. RequestOK(x) /\ x \in InFlight \cup Answer
    BY DEF IInv, RequestsOK, RequestOK
  <2>2. x.step \in {"asking", "told", "forwarded"} => t \in Subject
    BY <2>1, TokenTypes DEF RequestOK
  <2>3. x.step \in {"told", "forwarded"} => Bound(x.employee, t)'
    BY <1>1, <1>2, <1>3, <2>1, <2>2 DEF RequestOK, Bound
  <2>4. x.step = "told" /\ x.employee = Nobody /\ hired'[t] # Never => x.since <= hired'[t]
    BY <1>3, <2>1, <2>2 DEF RequestOK
  <2>. QED
    BY <1>1, <2>1, <2>3, <2>4 DEF RequestOK, Bound
<1>7. TypeOK'
  BY <1>1, <1>2 DEF IInv, TypeOK, keyStore
<1>. QED
  BY <1>1, <1>5, <1>6, <1>7 DEF IInv, keyStore, Stamped

LEMMA RotateKeeps ==
  ASSUME IInv, NEW k \in Kid, Rotate(k)
  PROVE  IInv'
<1>1. /\ published' = published \cup {k}
      /\ UNCHANGED <<clock, hired, keys, attemptedAt, failed, lock, ended, cache, request>>
  BY DEF Rotate, keyStore
<1>2. TypeOK'
  BY <1>1 DEF IInv, TypeOK
<1>3. CacheOK'
  BY <1>1 DEF IInv, CacheOK, Bound
<1>4. RequestsOK'
  BY <1>1 DEF IInv, RequestsOK, RequestOK, Bound
<1>. QED
  BY <1>1, <1>2, <1>3, <1>4 DEF IInv, Stamped

\* Everything that the process remembers is gone.
LEMMA StartKeeps ==
  ASSUME clock \in 0 .. MaxClock, hired \in [Subject -> Nat \cup {Never}],
         published \subseteq Kid, Start, UNCHANGED outside
  PROVE  IInv'
<1>1. /\ clock' \in 0 .. MaxClock /\ clock' \in Nat /\ clock \in Nat
      /\ hired' \in [Subject -> Nat \cup {Never}] /\ published' \subseteq Kid
  BY Constants DEF outside
<1>2. keys' \subseteq Kid /\ failed' \in BOOLEAN
  BY DEF Start
<1>3. attemptedAt' = clock /\ ended' = [at |-> clock, badly |-> failed'] /\ lock' = Nobody
  BY DEF Start
<1>4. cache' = << >> /\ DOMAIN cache' = {} /\ Range(cache') = {}
  BY DEF Start, Range
<1>5. request' = [r \in Request |-> Answered(0)]
  BY DEF Start
<1>6. \A r \in Request : request'[r] \in Answer /\ request'[r].step = "idle"
  BY <1>5, Answers
<1>7. RequestsOK'
  <2>1. request' \in [Request -> InFlight \cup Answer]
    BY <1>5, <1>6
  <2>2. ASSUME NEW r \in Request PROVE RequestOK(request[r])'
    BY <1>6 DEF RequestOK, InFlight, Answer
  <2>. QED
    BY <2>1, <2>2 DEF RequestsOK, InFlight, Answer
<1>8. IsFiniteSet(DOMAIN cache') /\ Cardinality(DOMAIN cache') = 0
  BY <1>4, FS_EmptySet
<1>9. CacheOK'
  BY <1>4, <1>8 DEF CacheOK
<1>10. TypeOK'
  <2>1. ended' \in [at : Nat, badly : BOOLEAN]
    BY <1>1, <1>2, <1>3
  <2>2. \A r \in Request : /\ request'[r] \in InFlight \/ request'[r].step = "idle"
                           /\ request'[r].step = "refreshing" <=> lock' = r
    BY <1>3, <1>6, Constants
  <2>3. DOMAIN cache' \subseteq Subject /\ Range(cache') \subseteq Entry
        /\ Cardinality(DOMAIN cache') <= Capacity
    BY <1>4, <1>8, Constants
  <2>. QED
    BY <1>1, <1>2, <1>3, <2>1, <2>2, <2>3 DEF TypeOK, Entry, InFlight
<1>. QED
  BY <1>3, <1>7, <1>9, <1>10 DEF IInv, Stamped

LEMMA TickKeeps ==
  ASSUME IInv, Tick
  PROVE  IInv'
<1>1. /\ clock < MaxClock /\ clock' = clock + 1
      /\ UNCHANGED <<hired, published, keys, attemptedAt, failed, lock, ended, cache, request>>
  BY DEF Tick, keyStore
<1>2. clock \in Nat /\ MaxClock \in Nat /\ LookupTime \in Nat
  BY Constants DEF IInv, TypeOK
<1>3. TypeOK'
  BY <1>1, <1>2 DEF IInv, TypeOK
<1>4. CacheOK'
  <2>. SUFFICES ASSUME NEW s \in DOMAIN cache PROVE cache[s].at <= clock'
    BY <1>1 DEF IInv, CacheOK, Bound
  <2>1. cache[s].at \in Nat /\ cache[s].at <= clock
    BY DEF IInv, CacheOK, Entry
  <2>. QED
    BY <1>1, <1>2, <2>1
<1>5. RequestsOK'
  <2>. SUFFICES ASSUME NEW q \in Request PROVE RequestOK(request[q])'
    BY <1>1 DEF IInv, RequestsOK
  <2>1. RequestOK(request[q]) /\ request[q] \in InFlight \cup Answer
    BY DEF IInv, RequestsOK, RequestOK
  <2>2. request[q].step \in {"asking", "told"} =>
          request[q].since \in Nat /\ request[q].since <= clock'
          /\ clock' - request[q].since <= LookupTime
    <3>. HAVE request[q].step \in {"asking", "told"}
    <3>1. request[q].since \in Nat
      BY <2>1 DEF InFlight, Answer
    <3>2. request[q].since <= clock /\ clock - request[q].since < LookupTime
      BY <2>1 DEF RequestOK, Tick
    <3>. QED
      BY <1>1, <1>2, <3>1, <3>2
  <2>. QED
    BY <1>1, <2>1, <2>2 DEF RequestOK, Bound
<1>. QED
  BY <1>1, <1>3, <1>4, <1>5 DEF IInv, Stamped

-----------------------------------------------------------------------------
(* The theorems.                                                           *)

LEMMA InvInitial == Init => IInv
<1>. SUFFICES ASSUME Init PROVE IInv
  OBVIOUS
<1>1. clock = 0 /\ hired = [s \in Subject |-> Never] /\ published = {FirstKid}
  BY DEF Init
<1>2. clock \in 0 .. MaxClock /\ hired \in [Subject -> Nat \cup {Never}]
      /\ published \subseteq Kid
  BY <1>1, Constants
<1>3. keys \subseteq Kid /\ failed \in BOOLEAN
  BY <1>2 DEF Init
<1>4. attemptedAt = 0 /\ ended = [at |-> 0, badly |-> failed] /\ lock = Nobody
  BY DEF Init
<1>5. cache = << >> /\ DOMAIN cache = {} /\ Range(cache) = {}
  BY DEF Init, Range
<1>6. request = [r \in Request |-> Answered(0)]
  BY DEF Init
<1>7. \A r \in Request : request[r] \in Answer /\ request[r].step = "idle"
  BY <1>6, Answers
<1>8. RequestsOK
  BY <1>6, <1>7 DEF RequestsOK, RequestOK
<1>9. IsFiniteSet(DOMAIN cache) /\ Cardinality(DOMAIN cache) = 0
  BY <1>5, FS_EmptySet
<1>10. CacheOK
  BY <1>5, <1>9 DEF CacheOK
<1>11. TypeOK
  <2>1. ended \in [at : Nat, badly : BOOLEAN]
    BY <1>3, <1>4
  <2>2. \A r \in Request : request[r].step = "refreshing" <=> lock = r
    BY <1>4, <1>7, Constants
  <2>. QED
    BY <1>2, <1>3, <1>4, <1>5, <1>7, <1>9, <2>1, <2>2, Constants DEF TypeOK
<1>. QED
  BY <1>4, <1>8, <1>10, <1>11 DEF IInv, Stamped

LEMMA InvStep == IInv /\ [Next]_vars => IInv'
<1>. SUFFICES ASSUME IInv, [Next]_vars PROVE IInv'
  OBVIOUS
<1>1. CASE \E r \in Request : HandleRequest(r)
  BY <1>1, RequestKeeps
<1>2. CASE \E s \in Subject : Hire(s)
  BY <1>2, HireKeeps
<1>3. CASE \E k \in Kid : Rotate(k)
  BY <1>3, RotateKeeps
<1>4. CASE Restart
  BY <1>4, StartKeeps DEF IInv, TypeOK, Restart
<1>5. CASE Tick
  BY <1>5, TickKeeps
<1>6. CASE UNCHANGED vars
  <2>1. UNCHANGED <<clock, hired, published, keys, attemptedAt, failed, lock, ended, cache, request>>
    BY <1>6 DEF vars
  <2>2. TypeOK' /\ CacheOK' /\ RequestsOK'
    BY <2>1 DEF IInv, TypeOK, CacheOK, RequestsOK, RequestOK, Bound
  <2>. QED
    BY <2>1, <2>2 DEF IInv, Stamped
<1>. QED
  BY <1>1, <1>2, <1>3, <1>4, <1>5, <1>6 DEF Next

\* What requests and cache know of employees is true and dated, in every state.
THEOREM Invariance == Spec => []IInv
BY InvInitial, InvStep, PTL DEF Spec

\* The key store, the cache and every request keep their type; the cache never holds
\* more than its capacity, and only the request that fetches keys holds the lock.
THEOREM TypeCorrect == Spec => []TypeOK
<1>1. IInv => TypeOK
  BY DEF IInv
<1>. QED
  BY <1>1, Invariance, PTL

\* In each of these steps exactly one request moves on, or none.
LEMMA OneMoves ==
  ASSUME IInv, [Next]_vars, NEW r \in Request, request'[r] # request[r]
  PROVE  HandleRequest(r) \/ (Restart /\ request'[r] = Answered(0))
<1>1. ASSUME NEW q \in Request, HandleRequest(q), q # r PROVE FALSE
  <2>1. PICK state : Move(q, state)
    BY <1>1, RequestKeeps
  <2>. QED
    BY <1>1, <2>1 DEF Move, IInv, RequestsOK
<1>2. CASE Restart
  BY <1>2, Answers DEF Restart, Start
<1>3. CASE \/ \E s \in Subject : Hire(s)
           \/ \E k \in Kid : Rotate(k)
           \/ Tick \/ UNCHANGED vars
  BY <1>3 DEF Hire, Rotate, Tick, vars
<1>. QED
  BY <1>1, <1>2, <1>3 DEF Next

\* An account just bound is taken for nobody no longer than the short lifetime of
\* such an entry and one answer of core, though a slow answer may overwrite a newer.
THEOREM MissesExpire == Spec => StaleMissBounded
<1>. DEFINE A(r) ==
       request'[r] # request[r] /\ request'[r].step = "forwarded"
       /\ request'[r].by = "directory" /\ request'[r].employee = Nobody
         => LET s == request'[r].call.token.subject IN
            hired[s] # Never => clock - hired[s] < MissingTtl + LookupTime
<1>1. ASSUME IInv, [Next]_vars, NEW r \in Request PROVE A(r)
  <2>. SUFFICES ASSUME request'[r] # request[r], request'[r].step = "forwarded" PROVE A(r)
    OBVIOUS
  <2>1. HandleRequest(r)
    BY <1>1, OneMoves, Answers
  <2>2. PICK state : Move(r, state) /\ MissOK(state)
    BY <1>1, <2>1, RequestKeeps
  <2>3. request'[r] = state
    BY <1>1, <2>2 DEF Move, IInv, RequestsOK
  <2>. QED
    BY <2>2, <2>3 DEF MissOK
<1>2. IInv /\ [Next]_vars => [\A r \in Request : A(r)]_vars
  BY <1>1
<1>. QED
  BY <1>2, Invariance, PTL DEF Spec, StaleMissBounded

\* Whoever gets past the lock fetches keys exactly if the pause is over that the last
\* attempt calls for, counted from the end of that attempt.
THEOREM KeysFetchedSpaced == Spec => RefreshesAreSpaced
<1>. DEFINE Due == clock - ended.at >= (IF ended.badly THEN RetryCooldown ELSE Cooldown)
<1>1. ASSUME IInv, [Next]_vars, NEW r \in Request,
             request[r].step = "waiting", request'[r].step # "waiting", ended' = ended
      PROVE  request'[r].step = "refreshing" <=> Due
  <2>1. Due <=> clock - attemptedAt >= Pause
    BY <1>1 DEF Pause, IInv, Stamped
  <2>2. {clock, attemptedAt, Pause} \subseteq Nat
    BY <1>1, Constants DEF Pause, IInv, TypeOK
  <2>3. CASE SkipRefresh(r)
    <3>1. PICK state : Move(r, state) /\ state.step # "refreshing"
      BY <1>1, <2>3, SkipRefreshOK
    <3>2. request'[r].step # "refreshing"
      BY <1>1, <3>1 DEF Move, IInv, RequestsOK
    <3>. QED
      BY <2>1, <2>2, <2>3, <3>2 DEF SkipRefresh
  <2>4. CASE BeginRefresh(r)
    <3>1. request'[r].step = "refreshing"
      BY <1>1, <2>4 DEF BeginRefresh, Move, IInv, RequestsOK
    <3>. QED
      BY <2>1, <2>4, <3>1 DEF BeginRefresh
  <2>5. CASE Restart /\ request'[r] = Answered(0)
    <3>1. request'[r].step # "refreshing"
      BY <2>5, Answers
    <3>2. ended.at = clock
      BY <1>1, <2>5 DEF Restart, Start
    <3>3. ~Due
      BY <2>2, <3>2, Constants
    <3>. QED
      BY <3>1, <3>3
  <2>6. HandleRequest(r) \/ (Restart /\ request'[r] = Answered(0))
    BY <1>1, OneMoves
  <2>7. HandleRequest(r) => SkipRefresh(r) \/ BeginRefresh(r)
    BY <1>1 DEF HandleRequest, Receive, Grant, EndRefresh, MisreadKeys, CoreAnswers, LookupFails,
       LearnEmployee, GetSchedule, GetCommission, EmployeeWorkload, ServeOwner, Serve,
       UpstreamFails
  <2>. QED
    BY <2>3, <2>4, <2>5, <2>6, <2>7
<1>2. IInv /\ [Next]_vars =>
        [\A r \in Request :
           request[r].step = "waiting" /\ request'[r].step # "waiting" /\ ended' = ended
             => (request'[r].step = "refreshing" <=> Due)]_vars
  BY <1>1
<1>. QED
  BY <1>2, Invariance, PTL DEF Spec, RefreshesAreSpaced

\* What a request for one employee's data is given when it gets to the service.
LEMMA ServedForward ==
  ASSUME IInv, NEW r \in Request, HandleRequest(r), request[r].step = "forwarded",
         request'[r] = Answered(200), ChecksOwner(request[r].call)
  PROVE  EnsureOwner(Caller(request[r].call, request[r].employee), request[r].call.path[2])
<1>. DEFINE Owns == EnsureOwner(Caller(request[r].call, request[r].employee),
                                request[r].call.path[2])
<1>1. \A x : Move(r, x) => x = Answered(200)
  BY DEF Move, IInv, RequestsOK
<1>2. Answered(200).served = TRUE /\ \A code : code # 200 => Answered(code).served = FALSE
  BY DEF Answered
<1>3. \/ \E what : ServeOwner(r, what)
      \/ \E error \in {"UpstreamUnavailableError", "UpstreamTimeoutError"} :
           Move(r, Answered(HttpCode[error]))
  BY DEF HandleRequest, Receive, Grant, SkipRefresh, BeginRefresh, EndRefresh, MisreadKeys, CoreAnswers,
     LookupFails, LearnEmployee, GetSchedule, GetCommission, EmployeeWorkload, Serve,
     UpstreamFails
<1>4. \A error \in {"UpstreamUnavailableError", "UpstreamTimeoutError"} : HttpCode[error] # 200
  BY DEF HttpCode
<1>5. \E what : ServeOwner(r, what)
  BY <1>1, <1>2, <1>3, <1>4
<1>6. Move(r, Answered(IF Owns THEN 200 ELSE 403))
  BY <1>5 DEF ServeOwner
<1>. QED
  BY <1>1, <1>2, <1>6

\* A specialist gets what belongs to one employee only if that employee is bound to
\* the account of the token.
THEOREM OwnDataOnly == Spec => OwnObjectsOnly
<1>1. ASSUME IInv, [Next]_vars, NEW r \in Request, request[r].step = "forwarded",
             request'[r] = Answered(200), ChecksOwner(request[r].call),
             ~Privileged(request[r].call.token.roles)
      PROVE  /\ hired[request[r].call.token.subject] # Never
             /\ request[r].call.path[2] = Owner[request[r].call.token.subject]
  <2>1. Answered(200) # Answered(0) /\ request'[r] # request[r]
    <3>1. Answered(200).served = TRUE /\ \A code : code # 200 => Answered(code).served = FALSE
      BY DEF Answered
    <3>2. Answered(0).served = FALSE
      BY <3>1
    <3>. QED
      BY <1>1, <3>1, <3>2, Answers
  <2>2. HandleRequest(r)
    BY <1>1, <2>1, OneMoves
  <2>3. EnsureOwner(Caller(request[r].call, request[r].employee), request[r].call.path[2])
    BY <1>1, <2>2, ServedForward
  <2>4. Bound(request[r].employee, request[r].call.token.subject)
    BY <1>1, AtWork DEF RequestOK
  <2>. QED
    BY <1>1, <2>3, <2>4 DEF EnsureOwner, Caller, Bound
<1>2. IInv /\ [Next]_vars =>
        [\A r \in Request :
           LET c == request[r].call IN
           request[r].step = "forwarded" /\ request'[r] = Answered(200)
           /\ ChecksOwner(c) /\ ~Privileged(c.token.roles)
             => hired[c.token.subject] # Never /\ c.path[2] = Owner[c.token.subject]]_vars
  BY <1>1
<1>. QED
  BY <1>2, Invariance, PTL DEF Spec, OwnObjectsOnly

=============================================================================
