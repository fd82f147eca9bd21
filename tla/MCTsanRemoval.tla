---------------------------- MODULE MCTsanRemoval ----------------------------
(***************************************************************************)
(* Small OpenMP programs for TLC.  A program is its nodes, in order.       *)
(***************************************************************************)
EXTENDS TsanRemoval, TLC

CONSTANTS t0, t1, t2
MCThread == {t0, t1, t2}
Team == Permutations({t1, t2})

MCFunction == {"main", "region", "helper", "setup"}

\* A node of fn and the nodes after it.
At_(fn, kind, what, succ) ==
  [fn |-> fn, kind |-> kind, what |-> what, succ |-> succ, direct |-> TRUE, loc |-> "loc"]
Access(fn, v, succ) == At_(fn, "access", v, succ)
AccessThroughPointer(fn, v, succ) == [Access(fn, v, succ) EXCEPT !.direct = FALSE]
Located(node, loc) == [node EXCEPT !.loc = loc]

FirstOf(nodes, f) == Min({n \in DOMAIN nodes : nodes[n].fn = f})
Named(nodes, f, kind) ==
  {nodes[n].what : n \in {m \in DOMAIN nodes : nodes[m].fn = f /\ nodes[m].kind = kind}}

Program(nodes) ==
  [nodes |-> nodes,
   entry |-> [f \in {nodes[n].fn : n \in DOMAIN nodes} |-> FirstOf(nodes, f)],
   calls |-> [f \in MCFunction |-> Named(nodes, f, "call")],
   regions |-> [f \in MCFunction |-> Named(nodes, f, "fork")],
   openmp_only |-> \A n \in DOMAIN nodes : nodes[n].kind # "create"]

-----------------------------------------------------------------------------
(* shared: a helper is called in sequential code first and in the region    *)
(* later, through another function; main accesses the same variables alone. *)
Shared == Program(<<
  At_("main", "call", "helper", {2}), At_("main", "call", "setup", {3}),
  At_("main", "fork", "region", {4}), At_("main", "join", "", {5}),
  Access("main", "x", {}),
  At_("setup", "plain", "", {7, 8}), Access("setup", "y", {8}), At_("setup", "plain", "", {}),
  Access("helper", "y", {10}), At_("helper", "plain", "", {}),
  Access("region", "x", {12}), At_("region", "call", "helper", {})>>)

(* critical: x is only accessed in the region A, around a branch and nested   *)
(* in B; y in different regions; z outside too.                               *)
Critical == Program(<<
  Access("main", "x", {2}), At_("main", "fork", "region", {3}), At_("main", "join", "", {}),
  Access("region", "z", {5}),
  At_("region", "critical", "A", {6}), At_("region", "plain", "", {7, 8}),
  Access("region", "x", {8}), Access("region", "y", {9}), Access("region", "z", {10}),
  At_("region", "end_critical", "A", {11}), At_("region", "call", "helper", {}),
  At_("helper", "critical", "B", {13}), Access("helper", "y", {14}),
  At_("helper", "critical", "A", {15}), Access("helper", "x", {16}),
  At_("helper", "end_critical", "A", {17}), At_("helper", "end_critical", "B", {18}),
  At_("helper", "plain", "", {})>>)

(* repeated: a loop enters the region A again and again, beside one that      *)
(* starts elsewhere in the source.                                            *)
Repeated == Program(<<
  At_("main", "fork", "region", {2}), At_("main", "join", "", {}),
  At_("region", "critical", "A", {4}), Access("region", "x", {5}),
  At_("region", "end_critical", "A", {3, 6}),
  Located(At_("region", "critical", "A", {7}), "below"), Access("region", "x", {8}),
  Located(At_("region", "end_critical", "A", {}), "below")>>)

(* created: the other thread is not OpenMP's.                                 *)
Created == Program(<<
  At_("main", "create", "region", {2}), Access("main", "x", {3}), At_("main", "plain", "", {}),
  Access("region", "x", {5}), At_("region", "plain", "", {})>>)

(* after: an access behind the end of the region.                             *)
After == Program(<<
  At_("main", "fork", "region", {2}), At_("main", "join", "", {}),
  At_("region", "critical", "A", {4}), Access("region", "x", {5}),
  At_("region", "end_critical", "A", {6}), Access("region", "x", {7}),
  At_("region", "plain", "", {})>>)

(* passed: the address of the variable is passed to a function.               *)
Passed == Program(<<
  At_("main", "fork", "region", {2}), At_("main", "join", "", {}),
  At_("region", "call", "helper", {4}),
  At_("region", "critical", "A", {5}), Access("region", "x", {6}),
  At_("region", "end_critical", "A", {}),
  AccessThroughPointer("helper", "x", {})>>)

CheckedPrograms == {Shared, Critical, Repeated, Created}

\* They are programs of the kind the pass is right about.
ASSUME CheckedAssumption == \A p \in CheckedPrograms : RegionsProtect(p)

JustAfter == {After}
JustPassed == {Passed}

=============================================================================
