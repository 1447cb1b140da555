--------------------------- MODULE MCOrganization ---------------------------
(***************************************************************************)
(* core: two companies of one tax number, a branch, and five hirings: two  *)
(* of one name, before and behind them in the order of the list two of one *)
(* account, and one whose shifts clash.  Three of them can be in the list. *)
(* catalog: three services of the same two new materials, in both orders   *)
(* and with one named twice.  client: two of one phone, and another.       *)
(***************************************************************************)
EXTENDS Organization, TLC

CONSTANTS nothing, one, two

Entry(id, kind, keys, parent) ==
  [id |-> id, kind |-> kind, keys |-> keys, parent |-> parent, name |-> 0,
   role |-> nothing, shifts |-> << >>]
Work(a, b) == [start |-> a, end |-> b]
Person(id, name, keys, branch, role, shifts) ==
  [Entry(id, "employee", keys, branch) EXCEPT !.name = name, !.role = role, !.shifts = shifts]

Mirea == Entry(1, "company", <<"7700">>, nothing)
Arbat == Entry(3, "branch", << >>, Mirea)

MCCall ==
  { Mirea, Entry(2, "company", <<"7700">>, nothing), Arbat,
    Person(4, 1, << >>, Arbat, "specialist", <<Work(1, 3), Work(3, 5)>>),
    Person(5, 1, << >>, Arbat, "specialist", << >>),
    Person(6, 2, <<"account">>, Arbat, "manager", << >>),
    Person(7, 2, << >>, Arbat, "specialist", <<Work(2, 4), Work(1, 3)>>),
    Person(8, 0, <<"account">>, Arbat, "specialist", << >>),
    Entry(11, "service", <<"dye", "oil">>, nothing),
    Entry(12, "service", <<"oil", "dye">>, nothing),
    Entry(13, "service", <<"oil", "oil">>, nothing),
    Entry(21, "client", <<"phone">>, nothing),
    Entry(22, "client", <<"phone">>, nothing),
    Entry(23, "client", <<"mobile">>, nothing) }

MCRequest == {one, two}
Symmetry == Permutations(MCRequest)

=============================================================================
