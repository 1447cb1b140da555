----------------------------- MODULE MCGateway -----------------------------
(***************************************************************************)
(* Two specialists, one of whom manages at times, two requests at a time,  *)
(* a rotated key, a cache with room for one.  Each answer of the gateway   *)
(* is asked for.  Of its table, the routes that some of the calls match.   *)
(***************************************************************************)
EXTENDS Gateway, Routes, TLC

CONSTANTS ann, ben, zoe, max, old, new, one, two, nobody, notoken, never

MCSubject == {ann, ben}
MCOwner == (ann :> zoe) @@ (ben :> max)
MCKid == {old, new}
MCRequest == {one, two}

Signed(s, k, roles) == [subject |-> s, kid |-> k, roles |-> roles, sound |-> TRUE]
Ask(method, path, token) == [method |-> method, path |-> path, token |-> token]
Of(e, what) == <<"employees", e, what>>
Stock == <<"branches", "arbat", "stock">>

MCCall ==
  { Ask("GET", Of(zoe, "commission"), Signed(ann, new, {"specialist"})),
    Ask("GET", Of(zoe, "workload"), Signed(ben, old, {"specialist"})),
    Ask("GET", Of(zoe, "schedule"), Signed(ben, old, {"manager"})),
    Ask("GET", Of(zoe, "schedule"), [subject |-> ann, kid |-> old, roles |-> {"specialist"}, sound |-> FALSE]),
    Ask("GET", Stock, Signed(ann, old, {"specialist"})),
    Ask("GET", Stock, Signed(ben, old, {"manager"})),
    Ask("GET", Stock, NoToken),
    Ask("PUT", Stock, NoToken),
    Ask("GET", <<"nowhere">>, NoToken),
    Ask("POST", LogIn, Signed(ann, new, {"specialist"})),
    Ask("GET", Probe, NoToken) }

MCRoute ==
  { Way("GET", <<"employees", "*", "schedule">>, "core", Everyone),
    Way("GET", <<"employees", "*", "commission">>, "billing", Everyone),
    Way("GET", <<"employees", "*", "workload">>, "analytics", Everyone),
    Way("GET", <<"branches", "*", "stock">>, "inventory", Staff) }

ASSUME RoutesOfTheCalls ==
  MCRoute = { w \in Table : \E c \in MCCall : Matches(w.pattern, c.path) }
ASSUME TableIsClear == \A v, w \in Table : Ambiguous(v, w) => v = w

Symmetry == Permutations(MCRequest)

=============================================================================
