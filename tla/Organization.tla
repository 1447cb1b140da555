---------------------------- MODULE Organization ----------------------------
(***************************************************************************)
(* Registration in core-, catalog- and client-service, the listing of      *)
(* employees page by page, and the life of the process that does it.       *)
(*                                                                         *)
(* Companies, branches, employees, services with their materials, and      *)
(* clients are entered once and keep a key that nobody else may have: a    *)
(* tax number, an account, the name of a material, a phone.  The code      *)
(* looks for the key and then inserts; between the two another request may *)
(* insert it, and the unique index decides.  A request that loses, or      *)
(* fails, leaves nothing.  What is committed is then announced.            *)
(*                                                                         *)
(* The three services run the same frame (build_context, serve), and a     *)
(* behaviour is that of one of them.                                       *)
(***************************************************************************)
EXTENDS Integers, Sequences, FiniteSets, SequencesExt

CONSTANTS
  Call,          \* what may be entered; a row is known by the call that made it
  Request,       \* requests that may be at work at the same time
  Limit,         \* rows of a page
  MaxFailures,   \* bound: failures of the database or the broker, and crashes
  Nothing        \* no parent, no cursor, any role

Service == {"core", "catalog", "client"}
Role == {"admin", "manager", "specialist"}

\* The service of each kind of entry, and the kinds whose entry is an event.
ServiceOf ==
  [company |-> "core", branch |-> "core", employee |-> "core",
   service |-> "catalog", client |-> "client"]
Announced == {"branch", "employee", "client"}

Key == UNION { Range(c.keys) : c \in Call }

\* What the commands let in, and the tables ask for: the tax number of a company,
\* the company of a branch, the branch and perhaps an account and shifts of an
\* employee, the materials of a service, the phone of a client.
Company(c) == c.parent = Nothing /\ Len(c.keys) = 1
Branch(c) == c.parent \in Call /\ Len(c.keys) = 0
Shift(s) == s.start \in Nat /\ s.end \in Nat /\ s.start < s.end
Employee(c) ==
  /\ c.parent \in Call /\ Len(c.keys) <= 1 /\ c.role \in Role /\ c.name \in Nat
  /\ \A i \in DOMAIN c.shifts : Shift(c.shifts[i])
CatalogService(c) == c.parent = Nothing
Client(c) == c.parent = Nothing /\ Len(c.keys) = 1

ASSUME OrganizationAssumption ==
  /\ \A c \in Call :
       \/ c.kind = "company" /\ Company(c)
       \/ c.kind = "branch" /\ Branch(c)
       \/ c.kind = "employee" /\ Employee(c)
       \/ c.kind = "service" /\ CatalogService(c)
       \/ c.kind = "client" /\ Client(c)
  /\ \A c \in Call : /\ c.id \in Nat /\ c.keys \in Seq(Key)
                     /\ c.kind # "employee" => c.shifts = << >>
  /\ \A c, d \in Call : c.id = d.id => c = d
  /\ Limit \in Nat \ {0} /\ MaxFailures \in Nat
  /\ Nothing \notin Call /\ Nothing \notin Role /\ Nothing \notin [name : Nat, id : Nat]

VARIABLES
  service,       \* whose behaviour this is
  process,       \* down, serving, draining or closing
  open,          \* what build_context holds open
  rows,          \* committed entries
  index,         \* committed keys, each with the entry that inserted it
  request,       \* what each request is at
  announced,     \* events published
  listing,       \* a caller going through the employees of a branch
  silenced,      \* entries whose event a failure or a crash took (history)
  failures

tables == <<rows, index>>
frame == <<service, process, open>>
history == <<silenced, failures>>
vars == <<service, process, open, rows, index, request, announced, listing, silenced, failures>>

Resource == {"engine", "publisher", "clients"}

\* received; looking for the key at a position, or inserting it; committed, with
\* the event still to come.  "mine" are the keys inserted in the open transaction.
Idle == [step |-> "idle"]
Task == [step : {"received", "looking", "inserting", "committed"}, call : Call,
         at : Nat, mine : SUBSET Key]

\* Mutant: a request that ends leaves its transaction open.
LeaveOpen(r) == request' = [request EXCEPT ![r].step = "idle"]

\* The request is answered and its session closed, which rolls back what is open.
Leave(r) == request' = [request EXCEPT ![r] = Idle]

-----------------------------------------------------------------------------
(* The steps that registrations are made of.                               *)

Accept(r, c) ==
  /\ process = "serving" /\ request[r] = Idle
  /\ ServiceOf[c.kind] = service
  /\ c \notin rows /\ \A q \in Request : request[q] # Idle => request[q].call # c
  /\ request' = [request EXCEPT ![r] =
                   [step |-> IF c.parent = Nothing THEN "looking" ELSE "received",
                    call |-> c, at |-> 1, mine |-> {}]]
  /\ UNCHANGED <<frame, tables, announced, listing, history>>

\* assign_shifts.
ShiftsClash(shifts) ==
  \E i, j \in DOMAIN shifts :
    /\ i # j
    /\ shifts[i].start <= shifts[j].start /\ shifts[j].start < shifts[i].end

\* The company of a branch and the branch of an employee have to be there.
Check(r) ==
  LET c == request[r].call IN
  /\ request[r].step = "received"
  /\ IF c.parent \notin rows \/ ShiftsClash(c.shifts)
       THEN Leave(r)
       ELSE request' = [request EXCEPT ![r].step =
                          IF c.keys # << >> THEN "inserting" ELSE "looking"]
  /\ UNCHANGED <<frame, tables, announced, listing, history>>

Taken(k) == \E entry \in index : entry.key = k

\* A material that is there is used; a company or a client that is there refuses.
\* An account is not looked for.
Look(r) ==
  LET c == request[r].call
      k == c.keys[request[r].at]
  IN
  /\ request[r].step = "looking" /\ request[r].at <= Len(c.keys)
  /\ \/ /\ ~Taken(k) /\ k \notin request[r].mine
        /\ request' = [request EXCEPT ![r].step = "inserting"]
     \/ /\ Taken(k) \/ k \in request[r].mine
        /\ IF c.kind = "service" THEN request' = [request EXCEPT ![r].at = @ + 1]
                                 ELSE Leave(r)
  /\ UNCHANGED <<frame, tables, announced, listing, history>>

Inserted(q) == IF request[q].step = "inserting" \/ request[q].step = "looking"
                 THEN request[q].mine ELSE {}

\* An INSERT waits for an open transaction that has inserted the same key.
Waits(r, q) ==
  /\ q # r /\ request[r].step = "inserting"
  /\ request[r].call.keys[request[r].at] \in Inserted(q)

\* Mutant: there is no unique index.
InsertAnyway(r) ==
  /\ request[r].step = "inserting"
  /\ request' = [request EXCEPT ![r].step = "looking", ![r].at = @ + 1,
                                ![r].mine = @ \cup {request[r].call.keys[request[r].at]}]
  /\ UNCHANGED <<frame, tables, announced, listing, history>>

\* The unique index refuses a key committed since it was looked for.
Insert(r) ==
  LET k == request[r].call.keys[request[r].at] IN
  /\ request[r].step = "inserting"
  /\ ~ \E q \in Request : Waits(r, q)
  /\ IF Taken(k)
       THEN Leave(r)
       ELSE request' = [request EXCEPT ![r].step = "looking", ![r].at = @ + 1,
                                       ![r].mine = @ \cup {k}]
  /\ UNCHANGED <<frame, tables, announced, listing, history>>

\* Requests that insert the same keys in opposite orders wait for each other, and
\* Postgres ends one of them.
EndDeadlock(r) ==
  /\ \E S \in SUBSET Request :
       r \in S /\ \A p \in S : \E q \in S : Waits(p, q)
  /\ Leave(r)
  /\ UNCHANGED <<frame, tables, announced, listing, history>>

\* set_norms refuses a material named twice.
Twice(c) == ~IsInjective(c.keys)

Enter(r) ==
  LET c == request[r].call IN
  /\ request[r].step = "looking" /\ request[r].at > Len(c.keys)
  /\ rows' = rows \cup {c}
  /\ index' = index \cup { [key |-> k, entry |-> c] : k \in request[r].mine }

Commit(r) ==
  LET c == request[r].call IN
  /\ Enter(r) /\ ~Twice(c)
  /\ IF c.kind \in Announced
       THEN request' = [request EXCEPT ![r].step = "committed", ![r].mine = {}]
       ELSE Leave(r)
  /\ UNCHANGED <<frame, announced, listing, history>>

RefuseTwice(r) ==
  LET c == request[r].call IN
  /\ request[r].step = "looking" /\ request[r].at > Len(c.keys) /\ Twice(c)
  /\ Leave(r)
  /\ UNCHANGED <<frame, tables, announced, listing, history>>

\* publish fails where the publisher is closed.
Publish(r) ==
  /\ request[r].step = "committed"
  /\ announced' = IF "publisher" \in open THEN announced \cup {request[r].call} ELSE announced
  /\ Leave(r)
  /\ UNCHANGED <<frame, tables, listing, history>>

Failing == failures < MaxFailures /\ failures' = failures + 1

\* The database fails before the commit; the commit is made and its answer lost;
\* the broker refuses.
LoseTransaction(r) ==
  /\ Failing
  /\ request[r].step \in {"received", "looking", "inserting"} /\ Leave(r)
  /\ UNCHANGED <<frame, tables, announced, listing, silenced>>

LoseAnswer(r) ==
  /\ Failing
  /\ Enter(r) /\ ~Twice(request[r].call)
  /\ silenced' = silenced \cup {request[r].call}
  /\ Leave(r)
  /\ UNCHANGED <<frame, announced, listing>>

LoseEvent(r) ==
  /\ Failing
  /\ request[r].step = "committed"
  /\ silenced' = silenced \cup {request[r].call}
  /\ Leave(r)
  /\ UNCHANGED <<frame, tables, announced, listing>>

-----------------------------------------------------------------------------
(* list_employees, asked for page after page over gRPC.                    *)

\* The row order of (full_name, id).
Before(e, f) == e.name < f.name \/ (e.name = f.name /\ e.id < f.id)

After(e, cursor) ==
  \/ cursor = Nothing
  \/ e.name > cursor.name
  \/ e.name = cursor.name /\ e.id > cursor.id

Employees(branch, role) ==
  { e \in rows : e.kind = "employee" /\ e.parent = branch /\ role \in {Nothing, e.role} }

Ordered(s) == \A i, j \in DOMAIN s : i < j => Before(s[i], s[j])

Remaining ==
  { e \in Employees(listing.branch, listing.role) : After(e, listing.cursor) }

\* Mutant: a page begins behind as many rows as have been seen.
FoundByOffset ==
  LET all == CHOOSE s \in SetToSeqs(Employees(listing.branch, listing.role)) : Ordered(s)
  IN  SubSeq(all, Len(listing.seen) + 1, Len(all))

Found == CHOOSE s \in SetToSeqs(Remaining) : Ordered(s)

Begin(branch, role) ==
  /\ service = "core" /\ listing.step # "paging"
  /\ branch \in rows /\ branch.kind = "branch"
  /\ listing' = [step |-> "paging", branch |-> branch, role |-> role, cursor |-> Nothing,
                 seen |-> << >>, present |-> Employees(branch, role)]
  /\ UNCHANGED <<frame, tables, request, announced, history>>

\* One row more than a page is read to know whether there is another page.
Page ==
  LET page == SubSeq(Found, 1, IF Len(Found) > Limit THEN Limit ELSE Len(Found)) IN
  /\ listing.step = "paging" /\ process \in {"serving", "draining"}
  /\ listing' =
       IF Len(Found) > Limit
         THEN [listing EXCEPT !.seen = @ \o page,
                              !.cursor = [name |-> Last(page).name, id |-> Last(page).id]]
         ELSE [listing EXCEPT !.seen = @ \o page, !.step = "done"]
  /\ UNCHANGED <<frame, tables, request, announced, history>>

-----------------------------------------------------------------------------
(* What the reception and the neighbours ask for.                          *)

\* find_by_phone takes a client with the phone, whichever comes first.
FindByPhone(phone) ==
  CHOOSE c \in rows : c.kind = "client" /\ c.keys = <<phone>>

\* consumption_norms of a service: its norms, each with the material's row.
ConsumptionNorms(c) == { x \in index : x.key \in Range(c.keys) }

-----------------------------------------------------------------------------
(* build_context and serve.                                                *)

Start ==
  /\ process = "down"
  /\ process' = "serving" /\ open' = Resource
  /\ UNCHANGED <<service, tables, request, announced, listing, history>>

\* check_readiness: the database answers, and the broker's channel is open.
Ready == {"engine", "publisher"} \subseteq open

Terminate ==
  /\ process = "serving"
  /\ process' = "draining"
  /\ UNCHANGED <<service, open, tables, request, announced, listing, history>>

\* Mutant: the servers are not waited for.
DrainAtOnce ==
  /\ process = "draining"
  /\ process' = "closing"
  /\ UNCHANGED <<service, open, tables, request, announced, listing, history>>

\* http.serve returns when the last request is answered; the gRPC server, which
\* only reads here, is stopped after it.
Drain ==
  /\ process = "draining"
  /\ \A r \in Request : request[r] = Idle
  /\ process' = "closing"
  /\ UNCHANGED <<service, open, tables, request, announced, listing, history>>

\* The finally of build_context: clients, publisher, engine.
Close ==
  /\ process = "closing"
  /\ open' = IF "clients" \in open THEN open \ {"clients"}
             ELSE IF "publisher" \in open THEN open \ {"publisher"} ELSE {}
  /\ process' = IF open' = {} THEN "down" ELSE process
  /\ UNCHANGED <<service, tables, request, announced, listing, history>>

\* The process dies: open transactions are rolled back, and nobody publishes.
Crash ==
  /\ Failing
  /\ process # "down"
  /\ process' = "down" /\ open' = {}
  /\ silenced' = silenced \cup { request[r].call :
                                   r \in { q \in Request : request[q].step = "committed" } }
  /\ request' = [r \in Request |-> Idle]
  /\ UNCHANGED <<service, tables, announced, listing>>

Init ==
  /\ service \in Service
  /\ process = "down" /\ open = {}
  /\ rows = {} /\ index = {} /\ announced = {}
  /\ request = [r \in Request |-> Idle]
  /\ listing = [step |-> "none"]
  /\ silenced = {} /\ failures = 0

Registers(r, kind) == request[r] # Idle /\ request[r].call.kind = kind

CreateCompany(r) ==
  Registers(r, "company") /\ (Look(r) \/ Insert(r) \/ Commit(r))

OpenBranch(r) ==
  Registers(r, "branch") /\ (Check(r) \/ Commit(r) \/ Publish(r))

HireEmployee(r) ==
  Registers(r, "employee") /\ (Check(r) \/ Insert(r) \/ Commit(r) \/ Publish(r))

CreateService(r) ==
  /\ Registers(r, "service")
  /\ Look(r) \/ Insert(r) \/ EndDeadlock(r) \/ RefuseTwice(r) \/ Commit(r)

RegisterClient(r) ==
  Registers(r, "client") /\ (Look(r) \/ Insert(r) \/ Commit(r) \/ Publish(r))

Register(r) ==
  \/ \E c \in Call : Accept(r, c)
  \/ CreateCompany(r) \/ OpenBranch(r) \/ HireEmployee(r)
  \/ CreateService(r) \/ RegisterClient(r)
  \/ LoseTransaction(r) \/ LoseAnswer(r) \/ LoseEvent(r)

Next ==
  \/ \E r \in Request : Register(r)
  \/ \E branch \in rows, role \in {"specialist", Nothing} : Begin(branch, role)
  \/ Page
  \/ Start \/ Terminate \/ Drain \/ Close \/ Crash

Spec == Init /\ [][Next]_vars

-----------------------------------------------------------------------------
(* Properties.                                                             *)

\* Every variable keeps its type; a request that is answered holds nothing.
TypeOK ==
  /\ service \in Service
  /\ process \in {"down", "serving", "draining", "closing"} /\ open \subseteq Resource
  /\ rows \subseteq Call /\ announced \subseteq Call /\ silenced \subseteq Call
  /\ index \subseteq [key : Key, entry : Call]
  /\ request \in [Request -> Task \cup {Idle}]
  /\ listing.step \in {"none", "paging", "done"}
  /\ failures \in 0 .. MaxFailures

\* No two companies have one tax number, no two employees one account, no two
\* clients one phone, no material is there twice: however requests overlap between
\* their look and their insert.  A key is there if and only if an entry that is
\* committed brought it, so that a request refused, failed or ended by a deadlock
\* leaves no material behind; every material of a service is there, once; and the
\* reception finds by a phone the client who was registered with it.
RegisteredOnce ==
  /\ \A x, y \in index : x.key = y.key => x = y
  /\ \A x \in index : x.entry \in rows /\ x.key \in Range(x.entry.keys)
  /\ \A c \in rows : c.kind = "service" =>
       Cardinality(ConsumptionNorms(c)) = Len(c.keys)
  /\ \A c \in rows : c.kind = "client" => FindByPhone(c.keys[1]) = c
  /\ \A c \in rows : c.kind # "service" =>
       \A i \in DOMAIN c.keys : [key |-> c.keys[i], entry |-> c] \in index

\* "Offsets are not used: lists grow while they are paged through, and an offset
\* begins to skip rows": a listing gives every employee that was there when it
\* began, nobody twice, and in order, whoever is hired in the meantime.
PagesAreComplete ==
  listing.step = "done" =>
    /\ listing.present \subseteq Range(listing.seen)
    /\ Ordered(listing.seen)

\* A stop that waits for its requests loses no event: while one is at work the
\* process is ready; an entry without its event is one whose request is still at
\* work, or that a failure or a crash has silenced; and an event is that of an entry.
StopSilencesNobody ==
  /\ (\E r \in Request : request[r] # Idle) => Ready
  /\ announced \subseteq rows
  /\ \A c \in rows : c.kind \in Announced =>
       \/ c \in announced \cup silenced
       \/ \E r \in Request : request[r].step = "committed" /\ request[r].call = c

=============================================================================
