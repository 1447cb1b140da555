------------------------- MODULE OrganizationProofs -------------------------
(***************************************************************************)
(* Theorems about registration, for any entries and any number of          *)
(* requests: what is unique stays unique, and no entry loses its event     *)
(* unnoticed.                                                              *)
(***************************************************************************)
EXTENDS Organization, FiniteSetTheorems, TLAPS

-----------------------------------------------------------------------------
(* The inductive invariant.                                                *)

\* The keys before the position of a request are its own, or materials that are there;
\* what it has inserted nobody has committed, and its entry is a row once it says so.
RequestOK(q) ==
  q # Idle =>
    /\ q.mine \subseteq Range(q.call.keys) /\ \A k \in q.mine : ~Taken(k)
    /\ q.step \in {"received", "committed"} => q.mine = {}
    /\ q.at >= 1 /\ (q.step = "received" => q.at = 1)
    /\ q.step = "inserting" => q.at \in DOMAIN q.call.keys
    /\ q.step \in {"looking", "inserting"} =>
         \A i \in DOMAIN q.call.keys : i < q.at =>
           \/ q.call.keys[i] \in q.mine
           \/ q.call.kind = "service" /\ Taken(q.call.keys[i])
    /\ q.step = "committed" <=> q.call \in rows

RequestsOK == \A r \in Request : RequestOK(request[r])

\* No two requests make one entry, and an INSERT waits for the key of another.
Apart ==
  \A q, r \in Request :
    q # r /\ request[q] # Idle /\ request[r] # Idle =>
      /\ request[q].call # request[r].call
      /\ request[q].mine \cap request[r].mine = {}

IndexOK ==
  /\ \A x, y \in index : x.key = y.key => x = y
  /\ \A x \in index : x.entry \in rows /\ x.key \in Range(x.entry.keys)
  /\ \A c \in rows : c.kind = "service" =>
       IsInjective(c.keys) /\ \A i \in DOMAIN c.keys : Taken(c.keys[i])
  /\ \A c \in rows : c.kind # "service" =>
       \A i \in DOMAIN c.keys : [key |-> c.keys[i], entry |-> c] \in index

\* Requests are at work only while the process holds everything open.
FrameOK ==
  /\ process \in {"serving", "draining"} => open = Resource
  /\ process \in {"down", "closing"} => \A r \in Request : request[r] = Idle

EventsOK ==
  /\ announced \subseteq rows
  /\ \A c \in rows : c.kind \in Announced =>
       \/ c \in announced \cup silenced
       \/ \E r \in Request : request[r].step = "committed" /\ request[r].call = c

ListingOK ==
  listing.step = "paging" =>
    listing = [x \in DOMAIN listing |-> listing[x]] /\ "step" \in DOMAIN listing

IInv ==
  /\ TypeOK
  /\ RequestsOK /\ Apart /\ IndexOK
  /\ FrameOK /\ EventsOK /\ ListingOK

-----------------------------------------------------------------------------
(* Lemmas.                                                                 *)

LEMMA CallTypes ==
  \A c \in Call : c.keys \in Seq(Key) /\ Len(c.keys) \in Nat /\ DOMAIN c.keys = 1 .. Len(c.keys)
<1>1. \A c \in Call : c.keys \in Seq(Key)
  BY OrganizationAssumption
<1>. QED
  BY <1>1

LEMMA ClientKeys == \A c \in Call : c.kind = "client" => Len(c.keys) = 1
BY OrganizationAssumption DEF Client

LEMMA KeyTypes == \A c \in Call : Range(c.keys) \subseteq Key
BY DEF Key

LEMMA IdleType == Idle.step = "idle" /\ Idle \notin Task
BY DEF Idle, Task

\* What is known of a request at work.
LEMMA AtWork ==
  ASSUME IInv, NEW r \in Request, request[r] # Idle
  PROVE  /\ request[r] \in Task /\ request[r].call \in Call /\ request[r].at \in Nat
         /\ request[r].mine \subseteq Key /\ RequestOK(request[r])
         /\ process \in {"serving", "draining"} /\ open = Resource
BY DEF IInv, TypeOK, Task, RequestsOK, FrameOK

\* A step of one request that leaves rows, events and process alone.
LEMMA MoveKeeps ==
  ASSUME IInv, NEW r \in Request, NEW state \in Task \cup {Idle},
         request' = [request EXCEPT ![r] = state],
         UNCHANGED <<frame, tables, announced, listing, silenced>>,
         failures' \in 0 .. MaxFailures,
         request[r] # Idle => request[r].step # "committed",
         RequestOK(state),
         state # Idle =>
           /\ (state.step # "committed" /\ process = "serving") \/ request[r] # Idle
           /\ \A q \in Request \ {r} : request[q] # Idle =>
                request[q].call # state.call /\ request[q].mine \cap state.mine = {}
  PROVE  IInv'
<1>1. \A q \in Request : request'[q] = IF q = r THEN state ELSE request[q]
  BY DEF IInv, TypeOK
<1>2. UNCHANGED <<service, process, open, rows, index, announced, listing, silenced>>
  BY DEF frame, tables
<1>3. TypeOK'
  BY <1>2 DEF IInv, TypeOK
<1>4. RequestsOK'
  BY <1>1, <1>2 DEF IInv, RequestsOK, RequestOK, Taken
<1>5. Apart'
  BY <1>1 DEF IInv, Apart
<1>6. IndexOK' /\ ListingOK'
  BY <1>2 DEF IInv, IndexOK, Taken, ListingOK
<1>7. FrameOK'
  BY <1>1, <1>2, AtWork DEF IInv, FrameOK
<1>8. EventsOK'
  <2>1. \A q \in Request : request[q].step = "committed" => q # r
    BY IdleType
  <2>. QED
    BY <1>1, <1>2, <2>1 DEF IInv, EventsOK
<1>. QED
  BY <1>3, <1>4, <1>5, <1>6, <1>7, <1>8 DEF IInv

\* A request that ends before its commit.
LEMMA LeaveKeeps ==
  ASSUME IInv, NEW r \in Request, Leave(r), request[r] # Idle => request[r].step # "committed",
         UNCHANGED <<frame, tables, announced, listing, silenced>>,
         failures' \in 0 .. MaxFailures
  PROVE  IInv'
BY MoveKeeps DEF Leave, RequestOK

LEMMA SameFailures == IInv /\ UNCHANGED history => UNCHANGED silenced /\ failures' \in 0 .. MaxFailures
BY DEF IInv, TypeOK, history

LEMMA OneMoreFailure == IInv /\ Failing => failures' \in 0 .. MaxFailures
BY OrganizationAssumption DEF IInv, TypeOK, Failing

-----------------------------------------------------------------------------
(* The steps of a request before its commit.                               *)

LEMMA AcceptKeeps ==
  ASSUME IInv, NEW r \in Request, NEW c \in Call, Accept(r, c)
  PROVE  IInv'
<1>. DEFINE state == [step |-> IF c.parent = Nothing THEN "looking" ELSE "received",
                      call |-> c, at |-> 1, mine |-> {}]
<1>1. /\ process = "serving" /\ request[r] = Idle /\ c \notin rows
      /\ \A q \in Request : request[q] # Idle => request[q].call # c
      /\ request' = [request EXCEPT ![r] = state]
      /\ UNCHANGED <<frame, tables, announced, listing, history>>
  BY DEF Accept
<1>2. state \in Task /\ state.step \in {"looking", "received"}
      /\ state.call = c /\ state.at = 1 /\ state.mine = {}
  BY DEF Task
<1>. HIDE DEF state
<1>3. RequestOK(state)
  BY <1>1, <1>2, CallTypes DEF RequestOK
<1>. QED
  BY <1>1, <1>2, <1>3, MoveKeeps, SameFailures

LEMMA CheckKeeps ==
  ASSUME IInv, NEW r \in Request, Check(r)
  PROVE  IInv'
<1>. DEFINE c == request[r].call
            stage == IF c.keys # << >> THEN "inserting" ELSE "looking"
            state == [request[r] EXCEPT !.step = stage]
<1>1. /\ request[r].step = "received"
      /\ Leave(r) \/ request' = [request EXCEPT ![r].step = stage]
      /\ UNCHANGED <<frame, tables, announced, listing, history>>
  BY DEF Check
<1>2. request[r] # Idle
  BY <1>1, IdleType
<1>3. CASE Leave(r)
  BY <1>1, <1>3, LeaveKeeps, SameFailures
<1>4. CASE request' = [request EXCEPT ![r].step = stage]
  <2>1. request[r] \in Task /\ c \in Call /\ RequestOK(request[r])
    BY <1>2, AtWork
  <2>2. /\ state \in Task /\ state.step = stage /\ state.call = c /\ state.at = request[r].at
        /\ state.mine = request[r].mine
    BY <2>1 DEF Task
  <2>3. request' = [request EXCEPT ![r] = state]
    BY <1>4 DEF IInv, TypeOK
  <2>4. request[r].at = 1 /\ request[r].mine = {} /\ c \notin rows
    BY <1>1, <1>2, <2>1 DEF RequestOK
  <2>5. stage = "inserting" => 1 \in DOMAIN c.keys
    BY <2>1, CallTypes
  <2>6. stage \in {"inserting", "looking"}
    OBVIOUS
  <2>. HIDE DEF state, stage
  <2>7. RequestOK(state)
    BY <2>1, <2>2, <2>4, <2>5, <2>6, CallTypes DEF RequestOK
  <2>8. \A q \in Request \ {r} : request[q] # Idle =>
          request[q].call # state.call /\ request[q].mine \cap state.mine = {}
    BY <1>2, <2>2 DEF IInv, Apart
  <2>. QED
    BY <1>1, <1>2, <2>2, <2>3, <2>6, <2>7, <2>8, MoveKeeps, SameFailures
<1>. QED
  BY <1>1, <1>3, <1>4

LEMMA LookKeeps ==
  ASSUME IInv, NEW r \in Request, Look(r)
  PROVE  IInv'
<1>. DEFINE c == request[r].call
            at == request[r].at
            k == c.keys[at]
<1>1. /\ request[r].step = "looking" /\ at <= Len(c.keys)
      /\ UNCHANGED <<frame, tables, announced, listing, history>>
  BY DEF Look
<1>2. request[r] # Idle
  BY <1>1, IdleType
<1>3. /\ request[r] \in Task /\ c \in Call /\ RequestOK(request[r]) /\ at \in Nat
      /\ at \in DOMAIN c.keys
  <2>1. request[r] \in Task /\ c \in Call /\ RequestOK(request[r]) /\ at \in Nat
    BY <1>2, AtWork
  <2>2. at >= 1
    BY <1>2, <2>1 DEF RequestOK
  <2>. QED
    BY <1>1, <2>1, <2>2, CallTypes
<1>4. CASE Leave(r)
  BY <1>1, <1>4, LeaveKeeps, SameFailures
<1>5. CASE request' = [request EXCEPT ![r].step = "inserting"]
  <2>. DEFINE state == [request[r] EXCEPT !.step = "inserting"]
  <2>1. /\ state \in Task /\ state.step = "inserting" /\ state.call = c /\ state.at = at
        /\ state.mine = request[r].mine
    BY <1>3 DEF Task
  <2>2. request' = [request EXCEPT ![r] = state]
    BY <1>5 DEF IInv, TypeOK
  <2>. HIDE DEF state
  <2>3. RequestOK(state)
    BY <1>1, <1>2, <1>3, <2>1 DEF RequestOK
  <2>4. \A q \in Request \ {r} : request[q] # Idle =>
          request[q].call # state.call /\ request[q].mine \cap state.mine = {}
    BY <1>2, <2>1 DEF IInv, Apart
  <2>. QED
    BY <1>1, <1>2, <2>1, <2>2, <2>3, <2>4, MoveKeeps, SameFailures
<1>6. CASE /\ Taken(k) \/ k \in request[r].mine
           /\ c.kind = "service"
           /\ request' = [request EXCEPT ![r].at = @ + 1]
  <2>. DEFINE state == [request[r] EXCEPT !.at = @ + 1]
  <2>1. /\ state \in Task /\ state.step = "looking" /\ state.call = c /\ state.at = at + 1
        /\ state.mine = request[r].mine
    BY <1>1, <1>3 DEF Task
  <2>2. request' = [request EXCEPT ![r] = state]
    BY <1>6 DEF IInv, TypeOK
  <2>3. \A i \in DOMAIN c.keys : i < at + 1 =>
          c.keys[i] \in request[r].mine \/ Taken(c.keys[i])
    <3>. TAKE i \in DOMAIN c.keys
    <3>. HAVE i < at + 1
    <3>1. i \in Nat
      BY <1>3, CallTypes
    <3>2. i < at \/ i = at
      BY <1>3, <3>1
    <3>. QED
      BY <1>1, <1>2, <1>3, <1>6, <3>2 DEF RequestOK
  <2>. HIDE DEF state
  <2>4. RequestOK(state)
    BY <1>1, <1>2, <1>3, <1>6, <2>1, <2>3 DEF RequestOK
  <2>5. \A q \in Request \ {r} : request[q] # Idle =>
          request[q].call # state.call /\ request[q].mine \cap state.mine = {}
    BY <1>2, <2>1 DEF IInv, Apart
  <2>. QED
    BY <1>1, <1>2, <2>1, <2>2, <2>4, <2>5, MoveKeeps, SameFailures
<1>. QED
  BY <1>4, <1>5, <1>6 DEF Look

LEMMA InsertKeeps ==
  ASSUME IInv, NEW r \in Request, Insert(r)
  PROVE  IInv'
<1>. DEFINE c == request[r].call
            at == request[r].at
            k == c.keys[at]
            state == [request[r] EXCEPT !.step = "looking", !.at = @ + 1, !.mine = @ \cup {k}]
<1>1. /\ request[r].step = "inserting" /\ ~ \E q \in Request : Waits(r, q)
      /\ UNCHANGED <<frame, tables, announced, listing, history>>
      /\ \/ Leave(r)
         \/ /\ ~Taken(k)
            /\ request' = [request EXCEPT ![r].step = "looking", ![r].at = @ + 1,
                                          ![r].mine = @ \cup {k}]
  BY DEF Insert
<1>2. request[r] # Idle
  BY <1>1, IdleType
<1>3. CASE Leave(r)
  BY <1>1, <1>3, LeaveKeeps, SameFailures
<1>4. CASE /\ ~Taken(k)
           /\ request' = [request EXCEPT ![r].step = "looking", ![r].at = @ + 1,
                                         ![r].mine = @ \cup {k}]
  <2>1. /\ request[r] \in Task /\ c \in Call /\ RequestOK(request[r]) /\ at \in Nat
        /\ at \in DOMAIN c.keys
    BY <1>1, <1>2, AtWork DEF RequestOK
  <2>2. k \in Key /\ k \in Range(c.keys)
    BY <2>1, KeyTypes DEF Range
  <2>3. /\ state \in Task /\ state.step = "looking" /\ state.call = c /\ state.at = at + 1
        /\ state.mine = request[r].mine \cup {k}
    <3>. DEFINE next == [request[r] EXCEPT !.step = "looking"]
                after == [next EXCEPT !.at = @ + 1]
    <3>1. /\ next \in Task /\ next.step = "looking" /\ next.call = c /\ next.at = at
          /\ next.mine = request[r].mine
      BY <2>1 DEF Task
    <3>2. state = [after EXCEPT !.mine = @ \cup {k}]
      OBVIOUS
    <3>. HIDE DEF next
    <3>3. /\ after \in Task /\ after.step = "looking" /\ after.call = c /\ after.at = at + 1
          /\ after.mine = request[r].mine
      BY <2>1, <3>1 DEF Task
    <3>. HIDE DEF after, state, k
    <3>4. [after EXCEPT !.mine = @ \cup {k}] \in Task
      BY <2>2, <3>3 DEF Task
    <3>5. /\ [after EXCEPT !.mine = @ \cup {k}].step = "looking"
          /\ [after EXCEPT !.mine = @ \cup {k}].call = c
          /\ [after EXCEPT !.mine = @ \cup {k}].at = at + 1
          /\ [after EXCEPT !.mine = @ \cup {k}].mine = request[r].mine \cup {k}
      BY <3>3 DEF Task
    <3>. QED
      BY <3>2, <3>4, <3>5
  <2>4. request' = [request EXCEPT ![r] = state]
    BY <1>4 DEF IInv, TypeOK
  <2>5. \A i \in DOMAIN c.keys : i < at + 1 =>
          \/ c.keys[i] \in state.mine
          \/ c.kind = "service" /\ Taken(c.keys[i])
    <3>. TAKE i \in DOMAIN c.keys
    <3>. HAVE i < at + 1
    <3>1. i \in Nat
      BY <2>1, CallTypes
    <3>2. i < at \/ i = at
      BY <2>1, <3>1
    <3>. QED
      BY <1>1, <1>2, <2>1, <2>3, <3>2 DEF RequestOK
  <2>. HIDE DEF state
  <2>6. RequestOK(state)
    <3>1. c \notin rows /\ at + 1 >= 1
      BY <1>1, <1>2, <2>1 DEF RequestOK
    <3>2. state.mine \subseteq Range(c.keys) /\ \A x \in state.mine : ~Taken(x)
      BY <1>2, <1>4, <2>1, <2>2, <2>3 DEF RequestOK
    <3>. QED
      BY <2>3, <2>5, <3>1, <3>2 DEF RequestOK
  <2>7. ASSUME NEW q \in Request \ {r}, request[q] # Idle
        PROVE  request[q].call # state.call /\ request[q].mine \cap state.mine = {}
    <3>1. request[q].call # c /\ request[q].mine \cap request[r].mine = {}
      BY <1>2, <2>7 DEF IInv, Apart
    <3>2. k \notin request[q].mine
      <4>1. CASE request[q].step \in {"looking", "inserting"}
        BY <1>1, <4>1 DEF Waits, Inserted
      <4>2. CASE request[q].step \notin {"looking", "inserting"}
        BY <2>7, <4>2, AtWork DEF RequestOK, Task
      <4>. QED
        BY <4>1, <4>2
    <3>. QED
      BY <2>3, <3>1, <3>2
  <2>. QED
    BY <1>1, <1>2, <2>3, <2>4, <2>6, <2>7, MoveKeeps, SameFailures
<1>. QED
  BY <1>1, <1>3, <1>4

LEMMA RefuseKeeps ==
  ASSUME IInv, NEW r \in Request, EndDeadlock(r) \/ RefuseTwice(r) \/ LoseTransaction(r)
  PROVE  IInv'
<1>1. Leave(r) /\ UNCHANGED <<frame, tables, announced, listing, silenced>>
  BY SameFailures DEF EndDeadlock, RefuseTwice, LoseTransaction
<1>2. request[r] # Idle => request[r].step # "committed"
  BY DEF EndDeadlock, RefuseTwice, LoseTransaction, Waits
<1>3. failures' \in 0 .. MaxFailures
  BY SameFailures, OneMoreFailure DEF EndDeadlock, RefuseTwice, LoseTransaction
<1>. QED
  BY <1>1, <1>2, <1>3, LeaveKeeps

-----------------------------------------------------------------------------
(* The commit, and what follows it.                                        *)

\* Row and keys become visible together; the event is still to come, or silenced.
LEMMA EnterKeeps ==
  ASSUME IInv, NEW r \in Request, Enter(r), ~Twice(request[r].call),
         NEW state, request' = [request EXCEPT ![r] = state],
         \/ state = Idle
         \/ /\ state \in Task /\ state.step = "committed" /\ state.call = request[r].call
            /\ state.at = request[r].at /\ state.mine = {},
         UNCHANGED <<frame, announced, listing>>,
         silenced \subseteq silenced', silenced' \subseteq Call,
         failures' \in 0 .. MaxFailures,
         request[r].call.kind \in Announced => state # Idle \/ request[r].call \in silenced'
  PROVE  IInv'
<1>. DEFINE c == request[r].call
            mine == request[r].mine
            new == { [key |-> k, entry |-> c] : k \in mine }
<1>1. /\ request[r].step = "looking" /\ request[r].at > Len(c.keys) /\ IsInjective(c.keys)
      /\ rows' = rows \cup {c} /\ index' = index \cup new
      /\ UNCHANGED <<service, process, open, announced, listing>>
  BY DEF Enter, Twice, frame
<1>2. request[r] # Idle
  BY <1>1, IdleType
<1>3. /\ c \in Call /\ request[r].at \in Nat /\ mine \subseteq Key /\ RequestOK(request[r])
      /\ process \in {"serving", "draining"} /\ open = Resource
  BY <1>2, AtWork
<1>4. /\ c \notin rows /\ mine \subseteq Range(c.keys) /\ \A k \in mine : ~Taken(k)
  BY <1>1, <1>2, <1>3 DEF RequestOK
<1>5. \A i \in DOMAIN c.keys : i < request[r].at
  BY <1>1, <1>3, CallTypes
<1>6. \A i \in DOMAIN c.keys : \/ c.keys[i] \in mine
                               \/ c.kind = "service" /\ Taken(c.keys[i])
  BY <1>1, <1>2, <1>3, <1>5 DEF RequestOK
<1>7. \A q \in Request : request'[q] = IF q = r THEN state ELSE request[q]
  BY DEF IInv, TypeOK
<1>8. \A q \in Request \ {r} : request[q] # Idle =>
        request[q].call # c /\ request[q].mine \cap mine = {}
  BY <1>2 DEF IInv, Apart
<1>9. \A k \in mine : [key |-> k, entry |-> c] \in index'
  BY <1>1
<1>. HIDE DEF c, mine
<1>10. \A x \in new : x.entry = c /\ x.key \in mine
  OBVIOUS
<1>11. \A k : Taken(k)' <=> Taken(k) \/ k \in mine
  BY <1>1, <1>9, <1>10 DEF Taken
<1>12. TypeOK'
  <2>1. new \subseteq [key : Key, entry : Call]
    BY <1>3
  <2>2. request' \in [Request -> Task \cup {Idle}]
    BY <1>7 DEF IInv, TypeOK
  <2>3. index' \subseteq [key : Key, entry : Call] /\ rows' \subseteq Call
    BY <1>1, <1>3, <2>1 DEF IInv, TypeOK
  <2>. QED
    BY <1>1, <2>2, <2>3 DEF IInv, TypeOK
<1>13. RequestsOK'
  <2>1. ASSUME NEW q \in Request, q # r PROVE RequestOK(request[q])'
    BY <1>1, <1>7, <1>8, <1>11, <2>1 DEF IInv, RequestsOK, RequestOK
  <2>2. RequestOK(request[r])'
    BY <1>1, <1>2, <1>3, <1>7 DEF RequestOK, c
  <2>. QED
    BY <2>1, <2>2 DEF RequestsOK
<1>14. Apart'
  <2>. SUFFICES ASSUME NEW p \in Request, NEW q \in Request, p # q,
                       request'[p] # Idle, request'[q] # Idle
       PROVE  request'[p].call # request'[q].call /\ request'[p].mine \cap request'[q].mine = {}
    BY DEF Apart
  <2>1. CASE p # r /\ q # r
    BY <1>7, <2>1 DEF IInv, Apart
  <2>2. CASE p = r \/ q = r
    BY <1>7, <1>8, <2>2 DEF c
  <2>. QED
    BY <2>1, <2>2
<1>15. IndexOK'
  <2>1. \A x, y \in index' : x.key = y.key => x = y
    <3>1. \A x \in index, y \in new : x.key # y.key
      BY <1>4, <1>10 DEF Taken
    <3>2. \A x, y \in new : x.key = y.key => x = y
      OBVIOUS
    <3>3. \A x, y \in index : x.key = y.key => x = y
      BY DEF IInv, IndexOK
    <3>. HIDE DEF new
    <3>. QED
      BY <1>1, <3>1, <3>2, <3>3
  <2>2. \A x \in index' : x.entry \in rows' /\ x.key \in Range(x.entry.keys)
    BY <1>1, <1>4, <1>10 DEF IInv, IndexOK
  <2>3. \A d \in rows' : d.kind = "service" =>
          IsInjective(d.keys) /\ \A i \in DOMAIN d.keys : Taken(d.keys[i])'
    BY <1>1, <1>6, <1>11 DEF IInv, IndexOK, c
  <2>4. \A d \in rows' : d.kind # "service" =>
          \A i \in DOMAIN d.keys : [key |-> d.keys[i], entry |-> d] \in index'
    BY <1>1, <1>6, <1>9 DEF IInv, IndexOK
  <2>. QED
    BY <2>1, <2>2, <2>3, <2>4 DEF IndexOK, Taken
<1>16. FrameOK' /\ ListingOK'
  BY <1>1, <1>3 DEF IInv, FrameOK, ListingOK
<1>17. EventsOK'
  <2>1. \A q \in Request : request[q].step = "committed" => q # r
    BY <1>1
  <2>2. c.kind \in Announced => c \in silenced' \/ (request'[r].step = "committed" /\ request'[r].call = c)
    BY <1>7 DEF c
  <2>. QED
    BY <1>1, <1>7, <2>1, <2>2 DEF IInv, EventsOK
<1>. QED
  BY <1>12, <1>13, <1>14, <1>15, <1>16, <1>17 DEF IInv

LEMMA CommitKeeps ==
  ASSUME IInv, NEW r \in Request, Commit(r)
  PROVE  IInv'
<1>. DEFINE state == [request[r] EXCEPT !.step = "committed", !.mine = {}]
<1>1. /\ Enter(r) /\ ~Twice(request[r].call) /\ request[r].step = "looking"
      /\ UNCHANGED <<frame, announced, listing, history>>
      /\ IF request[r].call.kind \in Announced
           THEN request' = [request EXCEPT ![r].step = "committed", ![r].mine = {}]
           ELSE request' = [request EXCEPT ![r] = Idle]
  BY DEF Commit, Leave, Enter
<1>2. UNCHANGED silenced /\ failures' \in 0 .. MaxFailures /\ silenced \subseteq Call
  BY <1>1, SameFailures DEF IInv, TypeOK
<1>3. CASE request[r].call.kind \notin Announced
  BY <1>1, <1>2, <1>3, EnterKeeps
<1>4. CASE request[r].call.kind \in Announced
  <2>1. request[r] \in Task
    BY <1>1, AtWork, IdleType
  <2>2. /\ state \in Task /\ state.step = "committed" /\ state.call = request[r].call
        /\ state.at = request[r].at /\ state.mine = {}
    <3>. DEFINE next == [request[r] EXCEPT !.step = "committed"]
    <3>1. /\ next \in Task /\ next.step = "committed" /\ next.call = request[r].call
          /\ next.at = request[r].at
      BY <2>1 DEF Task
    <3>2. state = [next EXCEPT !.mine = {}]
      OBVIOUS
    <3>. HIDE DEF next, state
    <3>. QED
      BY <3>1, <3>2 DEF Task
  <2>3. request' = [request EXCEPT ![r] = state]
    BY <1>1, <1>4 DEF IInv, TypeOK
  <2>. HIDE DEF state
  <2>4. state # Idle
    BY <2>2, IdleType
  <2>. QED
    BY <1>1, <1>2, <2>2, <2>3, <2>4, EnterKeeps
<1>. QED
  BY <1>3, <1>4

LEMMA LoseAnswerKeeps ==
  ASSUME IInv, NEW r \in Request, LoseAnswer(r)
  PROVE  IInv'
<1>1. /\ Enter(r) /\ ~Twice(request[r].call) /\ request[r].step = "looking"
      /\ silenced' = silenced \cup {request[r].call}
      /\ request' = [request EXCEPT ![r] = Idle]
      /\ UNCHANGED <<frame, announced, listing>>
  BY DEF LoseAnswer, Leave, Enter
<1>2. request[r].call \in Call
  BY <1>1, AtWork, IdleType
<1>3. silenced' \subseteq Call /\ failures' \in 0 .. MaxFailures
  BY <1>1, <1>2, OneMoreFailure DEF LoseAnswer, IInv, TypeOK
<1>. QED
  BY <1>1, <1>3, EnterKeeps

\* The event of a committed entry goes out, or is silenced.
LEMMA AnnounceKeeps ==
  ASSUME IInv, NEW r \in Request, request[r].step = "committed", Leave(r),
         UNCHANGED <<frame, tables, listing>>, failures' \in 0 .. MaxFailures,
         announced' \in {announced, announced \cup {request[r].call}},
         silenced' \in {silenced, silenced \cup {request[r].call}},
         request[r].call \in announced' \cup silenced'
  PROVE  IInv'
<1>1. request[r] # Idle
  BY IdleType
<1>2. request[r].call \in Call /\ request[r].call \in rows
  BY <1>1, AtWork DEF RequestOK
<1>3. \A q \in Request : request'[q] = IF q = r THEN Idle ELSE request[q]
  BY DEF Leave, IInv, TypeOK
<1>4. UNCHANGED <<service, process, open, rows, index, listing>>
  BY DEF frame, tables
<1>5. TypeOK'
  <2>1. request' \in [Request -> Task \cup {Idle}]
    BY DEF Leave, IInv, TypeOK
  <2>2. announced' \subseteq Call /\ silenced' \subseteq Call
    BY <1>2 DEF IInv, TypeOK
  <2>. QED
    BY <1>4, <2>1, <2>2 DEF IInv, TypeOK
<1>6. RequestsOK' /\ Apart'
  BY <1>3, <1>4 DEF IInv, RequestsOK, RequestOK, Apart, Taken
<1>7. IndexOK' /\ ListingOK'
  BY <1>4 DEF IInv, IndexOK, Taken, ListingOK
<1>8. FrameOK'
  BY <1>3, <1>4 DEF IInv, FrameOK
<1>9. EventsOK'
  BY <1>2, <1>3, <1>4 DEF IInv, EventsOK
<1>. QED
  BY <1>5, <1>6, <1>7, <1>8, <1>9 DEF IInv

LEMMA PublishKeeps ==
  ASSUME IInv, NEW r \in Request, Publish(r)
  PROVE  IInv'
<1>1. /\ request[r].step = "committed" /\ Leave(r)
      /\ UNCHANGED <<frame, tables, listing, history>>
  BY DEF Publish
<1>2. open = Resource
  BY <1>1, AtWork, IdleType
<1>3. announced' = announced \cup {request[r].call}
  BY <1>2 DEF Publish, Resource
<1>. QED
  BY <1>1, <1>3, AnnounceKeeps, SameFailures

LEMMA LoseEventKeeps ==
  ASSUME IInv, NEW r \in Request, LoseEvent(r)
  PROVE  IInv'
<1>1. /\ request[r].step = "committed" /\ Leave(r)
      /\ UNCHANGED <<frame, tables, announced, listing>>
      /\ silenced' = silenced \cup {request[r].call}
  BY DEF LoseEvent
<1>. QED
  BY <1>1, AnnounceKeeps, OneMoreFailure DEF LoseEvent

LEMMA RegisterKeeps ==
  ASSUME IInv, NEW r \in Request, Register(r)
  PROVE  IInv'
<1>1. CASE \E c \in Call : Accept(r, c)
  BY <1>1, AcceptKeeps
<1>2. CASE \/ Check(r) \/ Look(r) \/ Insert(r) \/ EndDeadlock(r) \/ RefuseTwice(r)
           \/ LoseTransaction(r)
  BY <1>2, CheckKeeps, LookKeeps, InsertKeeps, RefuseKeeps
<1>3. CASE Commit(r) \/ LoseAnswer(r) \/ Publish(r) \/ LoseEvent(r)
  BY <1>3, CommitKeeps, LoseAnswerKeeps, PublishKeeps, LoseEventKeeps
<1>. QED
  BY <1>1, <1>2, <1>3 DEF Register, CreateCompany, OpenBranch, HireEmployee, CreateService,
     RegisterClient

-----------------------------------------------------------------------------
(* The steps of the process and of the caller that lists employees.        *)

\* A step that touches neither requests nor tables.
LEMMA FrameStep ==
  ASSUME IInv, UNCHANGED <<service, rows, index, request, announced, silenced, failures>>,
         process' \in {"down", "serving", "draining", "closing"}, open' \subseteq Resource,
         FrameOK', ListingOK', listing'.step \in {"none", "paging", "done"}
  PROVE  IInv'
<1>1. TypeOK'
  BY DEF IInv, TypeOK
<1>2. RequestsOK' /\ Apart' /\ IndexOK' /\ EventsOK'
  BY DEF IInv, RequestsOK, RequestOK, Apart, IndexOK, EventsOK, Taken
<1>. QED
  BY <1>1, <1>2 DEF IInv

LEMMA ProcessKeeps ==
  ASSUME IInv, Start \/ Terminate \/ Drain \/ Close
  PROVE  IInv'
<1>1. UNCHANGED <<service, rows, index, request, announced, listing, silenced, failures>>
  BY DEF Start, Terminate, Drain, Close, tables, history
<1>2. ListingOK' /\ listing'.step \in {"none", "paging", "done"}
  BY <1>1 DEF IInv, TypeOK, ListingOK
<1>3. CASE Start
  BY <1>1, <1>2, <1>3, FrameStep DEF Start, FrameOK
<1>4. CASE Terminate
  BY <1>1, <1>2, <1>4, FrameStep DEF Terminate, IInv, TypeOK, FrameOK
<1>5. CASE Drain
  BY <1>1, <1>2, <1>5, FrameStep DEF Drain, IInv, TypeOK, FrameOK
<1>6. CASE Close
  <2>1. process' \in {"down", "closing"} /\ process = "closing" /\ open' \subseteq Resource
    BY <1>6 DEF Close, IInv, TypeOK
  <2>2. FrameOK'
    BY <1>1, <2>1 DEF IInv, FrameOK
  <2>. QED
    BY <1>1, <1>2, <2>1, <2>2, FrameStep
<1>. QED
  BY <1>3, <1>4, <1>5, <1>6

\* Whatever a crash interrupts, entries that are committed have said so or are silenced.
LEMMA CrashKeeps ==
  ASSUME IInv, Crash
  PROVE  IInv'
<1>. DEFINE lost == { request[r].call : r \in { q \in Request : request[q].step = "committed" } }
<1>1. /\ process' = "down" /\ open' = {} /\ silenced' = silenced \cup lost
      /\ \A r \in Request : request'[r] = Idle
      /\ request' \in [Request -> Task \cup {Idle}]
      /\ UNCHANGED <<service, rows, index, announced, listing>>
      /\ failures' \in 0 .. MaxFailures
  BY OneMoreFailure DEF Crash, tables
<1>2. lost \subseteq Call
  BY AtWork, IdleType
<1>3. TypeOK'
  BY <1>1, <1>2 DEF IInv, TypeOK
<1>4. RequestsOK' /\ Apart' /\ FrameOK'
  BY <1>1 DEF RequestsOK, RequestOK, Apart, FrameOK
<1>5. IndexOK' /\ ListingOK'
  BY <1>1 DEF IInv, IndexOK, Taken, ListingOK
<1>6. EventsOK'
  BY <1>1 DEF IInv, EventsOK
<1>. QED
  BY <1>3, <1>4, <1>5, <1>6 DEF IInv

LEMMA ListingKeeps ==
  ASSUME IInv, Page \/ \E branch \in rows, role \in {"specialist", Nothing} : Begin(branch, role)
  PROVE  IInv'
<1>1. UNCHANGED <<service, process, open, rows, index, request, announced, silenced, failures>>
  BY DEF Page, Begin, frame, tables, history
<1>2. ListingOK' /\ listing'.step \in {"none", "paging", "done"}
  <2>1. CASE \E branch \in rows, role \in {"specialist", Nothing} : Begin(branch, role)
    BY <2>1 DEF Begin, ListingOK
  <2>2. CASE Page
    <3>1. /\ listing.step = "paging" /\ "step" \in DOMAIN listing
          /\ listing = [x \in DOMAIN listing |-> listing[x]]
      BY <2>2 DEF Page, IInv, ListingOK
    <3>2. PICK seen, cursor :
            \/ listing' = [listing EXCEPT !.seen = seen, !.cursor = cursor]
            \/ listing' = [listing EXCEPT !.seen = seen, !.step = "done"]
      BY <2>2 DEF Page
    <3>. QED
      BY <3>1, <3>2 DEF ListingOK
  <2>. QED
    BY <2>1, <2>2
<1>3. FrameOK' /\ process' \in {"down", "serving", "draining", "closing"} /\ open' \subseteq Resource
  BY <1>1 DEF IInv, FrameOK, TypeOK
<1>. QED
  BY <1>1, <1>2, <1>3, FrameStep

-----------------------------------------------------------------------------
(* The order of a page.                                                    *)

Staff == { c \in Call : c.kind = "employee" }

\* Names may repeat and identifiers do not: any two employees have their order.
LEMMA BeforeOrders ==
  \A c, d, e \in Staff :
    /\ ~ Before(c, c)
    /\ Before(c, d) /\ Before(d, e) => Before(c, e)
    /\ c # d => Before(c, d) \/ Before(d, c)
<1>1. \A c \in Staff : c \in Call /\ c.name \in Nat /\ c.id \in Nat
  BY OrganizationAssumption DEF Staff, Employee
<1>2. \A c, d \in Staff : c.id = d.id => c = d
  BY <1>1, OrganizationAssumption
<1>. QED
  BY <1>1, <1>2 DEF Before

\* Any finite set of employees can be put in order: the place of each of them is the
\* number of those before it.
LEMMA OrderExists ==
  ASSUME NEW S, S \subseteq Staff, IsFiniteSet(S)
  PROVE  \E s \in SetToSeqs(S) : Ordered(s)
<1>. DEFINE n == Cardinality(S)
            Below(e) == { d \in S : Before(d, e) }
            place == [e \in S |-> Cardinality(Below(e)) + 1]
            s == [i \in 1 .. n |-> CHOOSE e \in S : place[e] = i]
<1>0. n \in Nat /\ IsFiniteSet(1 .. n) /\ Cardinality(1 .. n) = n
  <2>1. n \in Nat
    BY FS_CardinalityType
  <2>. QED
    BY <2>1, FS_Interval
<1>1. ASSUME NEW e \in S
      PROVE  IsFiniteSet(Below(e)) /\ Cardinality(Below(e)) \in Nat /\ Cardinality(Below(e)) < n
  <2>1. Below(e) \in SUBSET S /\ Below(e) # S
    BY BeforeOrders
  <2>. HIDE DEF Below
  <2>2. IsFiniteSet(Below(e)) /\ Cardinality(Below(e)) <= n /\ Cardinality(Below(e)) # n
    BY <2>1, FS_Subset
  <2>3. Cardinality(Below(e)) \in Nat
    BY <2>2, FS_CardinalityType
  <2>. HIDE DEF n
  <2>. QED
    BY <1>0, <2>2, <2>3
<1>2. ASSUME NEW d \in S, NEW e \in S, Before(d, e)
      PROVE  place[d] < place[e]
  <2>1. Below(d) \in SUBSET Below(e) /\ d \in Below(e) /\ d \notin Below(d)
    BY <1>2, BeforeOrders
  <2>2. IsFiniteSet(Below(e)) /\ Cardinality(Below(d)) \in Nat /\ Cardinality(Below(e)) \in Nat
    BY <1>1
  <2>3. place[d] = Cardinality(Below(d)) + 1 /\ place[e] = Cardinality(Below(e)) + 1
    OBVIOUS
  <2>. HIDE DEF Below, place
  <2>4. Cardinality(Below(d)) <= Cardinality(Below(e)) /\ Cardinality(Below(d)) # Cardinality(Below(e))
    BY <2>1, <2>2, FS_Subset
  <2>. QED
    BY <2>2, <2>3, <2>4
<1>3. place \in [S -> 1 .. n]
  <2>. SUFFICES ASSUME NEW e \in S PROVE Cardinality(Below(e)) + 1 \in 1 .. n
    OBVIOUS
  <2>1. Cardinality(Below(e)) \in Nat /\ Cardinality(Below(e)) < n
    BY <1>1
  <2>. HIDE DEF Below, n
  <2>. QED
    BY <1>0, <2>1
<1>. HIDE DEF Below, place, n
<1>4. \A d, e \in S : place[d] = place[e] => d = e
  <2>. SUFFICES ASSUME NEW d \in S, NEW e \in S, d # e PROVE place[d] # place[e]
    OBVIOUS
  <2>1. Before(d, e) \/ Before(e, d)
    BY BeforeOrders
  <2>2. place[d] < place[e] \/ place[e] < place[d]
    BY <1>2, <2>1
  <2>3. place[d] \in Int /\ place[e] \in Int
    BY <1>3
  <2>. QED
    BY <2>2, <2>3
<1>5. \A i \in 1 .. n : \E e \in S : place[e] = i
  <2>1. place \in Injection(S, 1 .. n)
    BY <1>3, <1>4 DEF Injection, IsInjective
  <2>2. place \in Surjection(S, 1 .. n)
    BY <1>0, <2>1, FS_Injection DEF n
  <2>. QED
    BY <2>2 DEF Surjection
<1>6. \A i \in 1 .. n : s[i] \in S /\ place[s[i]] = i
  BY <1>5
<1>7. s \in [1 .. n -> S] /\ DOMAIN s = 1 .. n
  BY <1>6
<1>. HIDE DEF s
<1>8. s \in SetToSeqs(S)
  BY <1>6, <1>7 DEF SetToSeqs, n
<1>9. Ordered(s)
  <2>. SUFFICES ASSUME NEW i \in 1 .. n, NEW j \in 1 .. n, i < j PROVE Before(s[i], s[j])
    BY <1>7 DEF Ordered
  <2>1. s[i] \in S /\ s[j] \in S /\ place[s[i]] = i /\ place[s[j]] = j
    BY <1>6
  <2>2. s[i] # s[j] /\ ~ Before(s[j], s[i])
    BY <1>0, <1>2, <2>1
  <2>. QED
    BY <2>1, <2>2, BeforeOrders
<1>. QED
  BY <1>8, <1>9

\* What the query of a page answers: each employee that is left, once and in order.
LEMMA FoundInOrder ==
  ASSUME Remaining \subseteq Staff, IsFiniteSet(Remaining)
  PROVE  /\ Found \in Seq(Remaining) /\ Ordered(Found)
         /\ \A e \in Remaining : \E i \in 1 .. Len(Found) : Found[i] = e
<1>. DEFINE n == Cardinality(Remaining)
<1>1. Found \in SetToSeqs(Remaining) /\ Ordered(Found)
  BY OrderExists DEF Found
<1>2. n \in Nat /\ Cardinality(1 .. n) = n
  <2>1. n \in Nat
    BY FS_CardinalityType
  <2>. QED
    BY <2>1, FS_Interval
<1>3. Found \in [1 .. n -> Remaining] /\ \A i, j \in 1 .. n : Found[i] = Found[j] => i = j
  BY <1>1 DEF SetToSeqs
<1>4. Found \in Injection(1 .. n, Remaining)
  BY <1>3 DEF Injection, IsInjective
<1>5. Found \in Surjection(1 .. n, Remaining)
  BY <1>2, <1>4, FS_Injection
<1>. HIDE DEF n
<1>6. Found \in Seq(Remaining) /\ Len(Found) = n
  BY <1>2, <1>3
<1>. QED
  BY <1>1, <1>5, <1>6 DEF Surjection

-----------------------------------------------------------------------------
(* The theorems.                                                           *)

LEMMA InvInitial == Init => IInv
<1>. SUFFICES ASSUME Init PROVE IInv
  OBVIOUS
<1>1. /\ \A r \in Request : request[r] = Idle
      /\ request \in [Request -> Task \cup {Idle}]
      /\ rows = {} /\ index = {} /\ announced = {} /\ listing = [step |-> "none"]
      /\ process = "down" /\ open = {} /\ silenced = {} /\ failures = 0
  BY DEF Init
<1>2. 0 \in 0 .. MaxFailures
  BY OrganizationAssumption
<1>3. TypeOK
  BY <1>1, <1>2 DEF Init, TypeOK
<1>. QED
  BY <1>1, <1>3 DEF IInv, RequestsOK, RequestOK, Apart, IndexOK, FrameOK, EventsOK, ListingOK

LEMMA InvStep == IInv /\ [Next]_vars => IInv'
<1>. SUFFICES ASSUME IInv, [Next]_vars PROVE IInv'
  OBVIOUS
<1>1. CASE \E r \in Request : Register(r)
  BY <1>1, RegisterKeeps
<1>2. CASE Page \/ \E branch \in rows, role \in {"specialist", Nothing} : Begin(branch, role)
  BY <1>2, ListingKeeps
<1>3. CASE Start \/ Terminate \/ Drain \/ Close
  BY <1>3, ProcessKeeps
<1>4. CASE Crash
  BY <1>4, CrashKeeps
<1>5. CASE UNCHANGED vars
  <2>1. UNCHANGED <<service, process, open, rows, index, request, announced, listing, silenced,
                    failures>>
    BY <1>5 DEF vars
  <2>. QED
    BY <2>1, FrameStep DEF IInv, TypeOK, FrameOK, ListingOK
<1>. QED
  BY <1>1, <1>2, <1>3, <1>4, <1>5 DEF Next

\* Requests, tables, events and process agree in every state.
THEOREM Invariance == Spec => []IInv
BY InvInitial, InvStep, PTL DEF Spec

\* Registration keeps every variable within its type.
THEOREM TypeCorrect == Spec => []TypeOK
<1>1. IInv => TypeOK
  BY DEF IInv
<1>. QED
  BY <1>1, Invariance, PTL

\* As many materials as a service has names.
LEMMA NormsCount ==
  ASSUME IInv, NEW c \in rows, c.kind = "service"
  PROVE  Cardinality(ConsumptionNorms(c)) = Len(c.keys)
<1>. DEFINE n == Len(c.keys)
            norms == ConsumptionNorms(c)
            f == [i \in 1 .. n |-> CHOOSE x \in index : x.key = c.keys[i]]
<1>1. c \in Call /\ n \in Nat /\ DOMAIN c.keys = 1 .. n
  BY CallTypes DEF IInv, TypeOK
<1>2. /\ \A x, y \in index : x.key = y.key => x = y
      /\ \A i, j \in 1 .. n : c.keys[i] = c.keys[j] => i = j
      /\ \A i \in 1 .. n : \E x \in index : x.key = c.keys[i]
  BY <1>1 DEF IInv, IndexOK, Taken, IsInjective
<1>3. norms = { x \in index : \E i \in 1 .. n : x.key = c.keys[i] }
  BY <1>1 DEF ConsumptionNorms, Range
<1>4. \A i \in 1 .. n : f[i] \in index /\ f[i].key = c.keys[i]
  BY <1>2
<1>5. f \in [1 .. n -> norms]
  BY <1>3, <1>4
<1>6. \A i, j \in 1 .. n : f[i] = f[j] => i = j
  BY <1>2, <1>4
<1>7. \A x \in norms : \E i \in 1 .. n : f[i] = x
  BY <1>2, <1>3, <1>4
<1>. HIDE DEF f, norms
<1>8. f \in Bijection(1 .. n, norms)
  BY <1>5, <1>6, <1>7 DEF Bijection, Injection, Surjection, IsInjective
<1>9. ExistsBijection(1 .. n, norms)
  BY <1>8 DEF ExistsBijection
<1>10. IsFiniteSet(1 .. n) /\ Cardinality(1 .. n) = n
  BY <1>1, FS_Interval
<1>11. Cardinality(norms) = n
  BY <1>9, <1>10, FS_Bijection
<1>. QED
  BY <1>11 DEF norms

\* Whatever overlaps between a look and its insert: a key is there once and for a
\* committed entry, every material of a service is there, and the phone finds its client.
THEOREM KeysStayUnique == Spec => []RegisteredOnce
<1>1. IInv => RegisteredOnce
  <2>. SUFFICES ASSUME IInv PROVE RegisteredOnce
    OBVIOUS
  <2>1. ASSUME NEW c \in rows, c.kind = "client" PROVE FindByPhone(c.keys[1]) = c
    <3>. DEFINE phone == c.keys[1]
                found == FindByPhone(phone)
    <3>1. \A d \in rows : d.kind = "client" => d.keys = <<d.keys[1]>> /\ 1 \in DOMAIN d.keys
      BY CallTypes, ClientKeys DEF IInv, TypeOK
    <3>2. found \in rows /\ found.kind = "client" /\ found.keys = <<phone>>
      BY <2>1, <3>1 DEF FindByPhone
    <3>. HIDE DEF found
    <3>3. /\ [key |-> phone, entry |-> found] \in index
          /\ [key |-> phone, entry |-> c] \in index
      BY <2>1, <3>1, <3>2 DEF IInv, IndexOK
    <3>4. [key |-> phone, entry |-> found] = [key |-> phone, entry |-> c]
      BY <3>3 DEF IInv, IndexOK
    <3>. QED
      BY <3>4 DEF found
  <2>. QED
    BY <2>1, NormsCount DEF IInv, IndexOK, RegisteredOnce
<1>. QED
  BY <1>1, Invariance, PTL

\* No stop, drain or start takes the event of an entry: only a failure or a crash does.
THEOREM EventsSurviveStop == Spec => []StopSilencesNobody
<1>1. IInv => StopSilencesNobody
  BY DEF IInv, TypeOK, FrameOK, EventsOK, StopSilencesNobody, Ready, Resource
<1>. QED
  BY <1>1, Invariance, PTL

-----------------------------------------------------------------------------
(* The listing of employees.                                               *)

Listing ==
  [step : {"paging", "done"}, branch : Call, role : Role \cup {Nothing},
   cursor : [name : Nat, id : Nat] \cup {Nothing},
   seen : Seq(Staff), present : SUBSET Call]

\* What is after the cursor is after everybody seen, and whoever was there from the
\* beginning is seen or after the cursor.
PagesOK ==
  listing.step # "none" =>
    /\ listing \in Listing
    /\ Ordered(listing.seen)
    /\ listing.present \subseteq Employees(listing.branch, listing.role)
    /\ \A e \in listing.present :
         \/ e \in Range(listing.seen)
         \/ listing.step = "paging" /\ After(e, listing.cursor)
    /\ listing.step = "paging" =>
         \A e \in Staff : After(e, listing.cursor) =>
           \A i \in DOMAIN listing.seen : Before(listing.seen[i], e)

\* However much may be entered, only finitely many entries are there.
FinitelyEntered == IsFiniteSet(rows)

\* A step adds one row at most, and the listing moves by its own two steps only.
LEMMA RowsGrow == [Next]_vars => rows' = rows \/ \E c : rows' = rows \cup {c}
BY DEF Next, vars, tables, Register, Accept, CreateCompany, OpenBranch, HireEmployee,
   CreateService, RegisterClient, LoseTransaction, LoseAnswer, LoseEvent, Check, Look, Insert,
   EndDeadlock, RefuseTwice, Commit, Enter, Publish, Begin, Page, Start, Terminate, Drain,
   Close, Crash

LEMMA ListingMoves ==
  [Next]_vars => \/ UNCHANGED listing \/ Page
                 \/ \E branch \in rows, role \in {"specialist", Nothing} : Begin(branch, role)
BY DEF Next, vars, Register, Accept, CreateCompany, OpenBranch, HireEmployee,
   CreateService, RegisterClient, LoseTransaction, LoseAnswer, LoseEvent, Check, Look, Insert,
   EndDeadlock, RefuseTwice, Commit, Publish, Start, Terminate, Drain, Close, Crash

LEMMA RowsAreFinite == Spec => []FinitelyEntered
<1>1. Init => FinitelyEntered
  BY FS_EmptySet DEF Init, FinitelyEntered
<1>2. FinitelyEntered /\ [Next]_vars => FinitelyEntered'
  <2>. SUFFICES ASSUME FinitelyEntered, [Next]_vars PROVE IsFiniteSet(rows')
    BY DEF FinitelyEntered
  <2>1. rows' = rows \/ \E c : rows' = rows \cup {c}
    BY RowsGrow
  <2>. QED
    BY <2>1, FS_AddElement DEF FinitelyEntered
<1>. QED
  BY <1>1, <1>2, PTL DEF Spec

LEMMA PageKeeps ==
  ASSUME IInv, FinitelyEntered, PagesOK, Page
  PROVE  PagesOK'
<1>. DEFINE n == Len(Found)
            k == IF n > Limit THEN Limit ELSE n
            page == SubSeq(Found, 1, k)
            seen == listing.seen
            cursor == [name |-> Found[k].name, id |-> Found[k].id]
<1>1. /\ listing.step = "paging" /\ listing \in Listing /\ UNCHANGED rows
      /\ seen \in Seq(Staff) /\ Ordered(seen)
  BY DEF Page, PagesOK, tables, Listing
<1>2. Remaining \subseteq Staff /\ IsFiniteSet(Remaining)
  <2>1. Remaining \in SUBSET rows /\ Remaining \subseteq Staff
    BY DEF Remaining, Employees, Staff, IInv, TypeOK
  <2>. QED
    BY <2>1, FS_Subset DEF FinitelyEntered
<1>3. /\ Found \in Seq(Remaining) /\ Ordered(Found)
      /\ \A e \in Remaining : \E i \in 1 .. n : Found[i] = e
  BY <1>2, FoundInOrder
<1>4. /\ n \in Nat /\ DOMAIN Found = 1 .. n /\ k \in Nat /\ k <= n
      /\ (n > Limit => k = Limit /\ k \in 1 .. n) /\ (n <= Limit => k = n)
  BY <1>3, OrganizationAssumption
<1>5. /\ \A i \in 1 .. n : Found[i] \in Remaining /\ Found[i] \in Staff
      /\ \A i, j \in 1 .. n : i < j => Before(Found[i], Found[j])
  BY <1>2, <1>3, <1>4 DEF Ordered
<1>6. page \in Seq(Staff) /\ Len(page) = k /\ \A i \in 1 .. k : page[i] = Found[i]
  <2>. HIDE DEF n, k
  <2>. QED
    BY <1>2, <1>3, <1>4, <1>5
<1>. HIDE DEF n, k
<1>. DEFINE more == seen \o page
            l == Len(seen)
<1>7. /\ l \in Nat /\ DOMAIN seen = 1 .. l /\ more \in Seq(Staff) /\ DOMAIN more = 1 .. l + k
      /\ \A i \in 1 .. l : more[i] = seen[i] /\ seen[i] \in Staff
      /\ \A i \in (l + 1) .. (l + k) : i - l \in 1 .. k /\ more[i] = Found[i - l]
  <2>. HIDE DEF page, seen
  <2>. QED
    BY <1>1, <1>4, <1>6
<1>8. /\ n > Limit => listing' = [listing EXCEPT !.seen = more, !.cursor = cursor]
      /\ n <= Limit => listing' = [listing EXCEPT !.seen = more, !.step = "done"]
  <2>1. n > Limit => Last(page) = Found[k]
    BY <1>4, <1>6 DEF Last
  <2>2. listing' = IF n > Limit
                     THEN [listing EXCEPT !.seen = more, !.cursor = [name |-> Last(page).name,
                                                                     id |-> Last(page).id]]
                     ELSE [listing EXCEPT !.seen = more, !.step = "done"]
    BY DEF Page, n, k
  <2>3. n <= Limit => ~ (n > Limit)
    BY <1>4, OrganizationAssumption
  <2>. HIDE DEF more
  <2>. QED
    BY <2>1, <2>2, <2>3
<1>9. /\ listing'.branch = listing.branch /\ listing'.role = listing.role
      /\ listing'.present = listing.present /\ listing'.seen = more
      /\ n > Limit => listing'.step = "paging" /\ listing'.cursor = cursor
      /\ n <= Limit => listing'.step = "done"
      /\ listing' \in Listing
  <2>1. n > Limit => cursor \in [name : Nat, id : Nat]
    <3>1. \A e \in Staff : e.name \in Nat /\ e.id \in Nat
      BY OrganizationAssumption DEF Staff, Employee
    <3>. QED
      BY <1>4, <1>5, <3>1
  <2>2. n > Limit \/ n <= Limit
    BY <1>4, OrganizationAssumption
  <2>. HIDE DEF more, cursor
  <2>. QED
    BY <1>1, <1>7, <1>8, <2>1, <2>2 DEF Listing
<1>10. \A i \in 1 .. l, j \in 1 .. n : Before(seen[i], Found[j])
  BY <1>1, <1>5, <1>7 DEF PagesOK, Remaining
<1>11. Ordered(more)
  <2>. SUFFICES ASSUME NEW i \in 1 .. l + k, NEW j \in 1 .. l + k, i < j
                PROVE  Before(more[i], more[j])
    BY <1>7 DEF Ordered
  <2>. HIDE DEF more, l, seen
  <2>1. CASE j <= l
    BY <1>1, <1>7, <2>1 DEF Ordered
  <2>2. CASE i <= l /\ j > l
    BY <1>4, <1>7, <1>10, <2>2
  <2>3. CASE i > l
    <3>1. i \in (l + 1) .. (l + k) /\ j \in (l + 1) .. (l + k)
      BY <1>4, <1>7, <2>3
    <3>2. more[i] = Found[i - l] /\ more[j] = Found[j - l]
      BY <1>7, <3>1
    <3>3. i - l \in 1 .. n /\ j - l \in 1 .. n /\ i - l < j - l
      BY <1>4, <1>7, <3>1
    <3>. QED
      BY <1>5, <3>2, <3>3
  <2>. QED
    BY <1>4, <1>7, <2>1, <2>2, <2>3
<1>12. Employees(listing.branch, listing.role)' = Employees(listing.branch, listing.role)
  BY <1>1, <1>9 DEF Employees
<1>13. ASSUME NEW e \in listing.present
       PROVE  e \in Range(more) \/ (n > Limit /\ \E j \in 1 .. n : j > k /\ e = Found[j])
  <2>1. CASE e \in Range(seen)
    <3>. HIDE DEF more, l, seen
    <3>. QED
      BY <1>4, <1>7, <2>1 DEF Range
  <2>2. CASE After(e, listing.cursor)
    <3>1. e \in Remaining
      BY <1>1, <2>2 DEF PagesOK, Remaining
    <3>2. PICK j \in 1 .. n : Found[j] = e
      BY <1>3, <3>1
    <3>3. CASE j <= k
      <4>. HIDE DEF more, l
      <4>1. l + j \in (l + 1) .. (l + k) /\ (l + j) - l = j /\ l + j \in 1 .. l + k
        BY <1>4, <1>7, <3>3
      <4>2. more[l + j] = e
        BY <1>7, <3>2, <4>1
      <4>. QED
        BY <1>7, <4>1, <4>2 DEF Range
    <3>4. CASE j > k
      BY <1>4, <3>2, <3>4, OrganizationAssumption
    <3>. QED
      BY <1>4, <3>3, <3>4
  <2>. QED
    BY <1>1, <2>1, <2>2 DEF PagesOK
<1>14. ASSUME n > Limit, NEW e \in Staff PROVE After(e, cursor) <=> Before(Found[k], e)
  <2>1. cursor # Nothing
    <3>1. Found[k] \in Staff
      BY <1>4, <1>5, <1>14
    <3>2. cursor \in [name : Nat, id : Nat]
      BY <3>1, OrganizationAssumption DEF Staff, Employee
    <3>. HIDE DEF cursor
    <3>. QED
      BY <3>2, OrganizationAssumption
  <2>2. Found[k] \in Staff /\ Found[k].name \in Nat /\ e.name \in Nat
        /\ Found[k].id \in Nat /\ e.id \in Nat
    BY <1>4, <1>5, <1>14, OrganizationAssumption DEF Staff, Employee
  <2>. QED
    BY <2>1, <2>2 DEF After, Before
<1>15. ASSUME n > Limit, NEW e \in Staff, After(e, cursor), NEW i \in 1 .. l + k
       PROVE  Before(more[i], e)
  <2>1. Before(Found[k], e) /\ k \in 1 .. n
    BY <1>4, <1>14, <1>15
  <2>. HIDE DEF more, l, seen, cursor
  <2>2. CASE i <= l
    BY <1>5, <1>7, <1>10, <1>15, <2>1, <2>2, BeforeOrders
  <2>3. CASE i > l
    <3>1. i - l \in 1 .. k /\ more[i] = Found[i - l] /\ i - l \in 1 .. n
      BY <1>4, <1>7, <2>3
    <3>2. i - l = k \/ Before(Found[i - l], Found[k])
      BY <1>4, <1>5, <2>1, <3>1
    <3>. QED
      BY <1>5, <2>1, <3>1, <3>2, BeforeOrders
  <2>. QED
    BY <1>7, <2>2, <2>3
<1>16. ASSUME NEW e \in listing.present
       PROVE  e \in Range(more) \/ (n > Limit /\ After(e, cursor))
  <2>1. CASE n > Limit /\ \E j \in 1 .. n : j > k /\ e = Found[j]
    BY <1>4, <1>5, <1>14, <2>1
  <2>. QED
    BY <1>13, <2>1
<1>17. n > Limit \/ n <= Limit
  BY <1>4, OrganizationAssumption
<1>. HIDE DEF more, cursor, l, page, seen
<1>. QED
  BY <1>1, <1>7, <1>9, <1>11, <1>12, <1>15, <1>16, <1>17 DEF PagesOK

\* Rows are only added, one at a time.
LEMMA PagesStep == IInv /\ FinitelyEntered /\ PagesOK /\ [Next]_vars => PagesOK'
<1>. SUFFICES ASSUME IInv, FinitelyEntered, PagesOK, [Next]_vars PROVE PagesOK'
  OBVIOUS
<1>1. CASE \E branch \in rows, role \in {"specialist", Nothing} : Begin(branch, role)
  <2>1. PICK branch \in rows, role \in {"specialist", Nothing} : Begin(branch, role)
    BY <1>1
  <2>2. /\ listing' = [step |-> "paging", branch |-> branch, role |-> role, cursor |-> Nothing,
                       seen |-> << >>, present |-> Employees(branch, role)]
        /\ UNCHANGED rows
    BY <2>1 DEF Begin, tables
  <2>3. branch \in Call /\ role \in Role \cup {Nothing} /\ Employees(branch, role) \subseteq Call
        /\ << >> \in Seq(Staff)
    BY <2>1 DEF IInv, TypeOK, Employees, Role
  <2>4. listing' \in Listing
    BY <2>2, <2>3 DEF Listing
  <2>5. Employees(branch, role)' = Employees(branch, role)
    BY <2>2 DEF Employees
  <2>6. Ordered(<< >>)
    BY DEF Ordered
  <2>. QED
    BY <2>2, <2>4, <2>5, <2>6 DEF PagesOK, After
<1>2. CASE Page
  BY <1>2, PageKeeps
<1>3. CASE UNCHANGED listing
  <2>1. rows \subseteq rows'
    BY RowsGrow
  <2>2. Employees(listing.branch, listing.role) \subseteq Employees(listing.branch, listing.role)'
    BY <1>3, <2>1 DEF Employees
  <2>. QED
    BY <1>3, <2>2 DEF PagesOK
<1>. QED
  BY <1>1, <1>2, <1>3, ListingMoves

\* A listing gives everybody who was there when it began, once and in order, whoever
\* is hired while it goes from page to page.
THEOREM ListingMissesNobody == Spec => []PagesAreComplete
<1>1. Init => PagesOK
  BY DEF Init, PagesOK
<1>2. PagesOK => PagesAreComplete
  BY DEF PagesOK, PagesAreComplete
<1>. QED
  BY <1>1, <1>2, PagesStep, Invariance, RowsAreFinite, PTL DEF Spec

=============================================================================
