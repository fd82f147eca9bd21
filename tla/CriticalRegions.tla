---------------------------- MODULE CriticalRegions ----------------------------
(***************************************************************************)
(* Which accesses are inside critical regions, and which tsan calls may go *)
(* for that: critical_region_cleanup.cpp.  A program p has a sequence of   *)
(* instructions (nodes); those of a function are in the order of its       *)
(* blocks.  A node has its function (fn), a kind, what it accesses, calls  *)
(* or enters, the source location it passes to the runtime (loc), whether  *)
(* an access names the variable itself (direct), and its successors.       *)
(***************************************************************************)
EXTENDS Integers, Sequences, FiniteSets, FiniteSetsExt

Node(p) == DOMAIN p.nodes
NodesOfKind(p, k) == {n \in Node(p) : p.nodes[n].kind = k}

\* The nodes that control reaches from the node from without passing avoid.
ReachedWithout(p, from, avoid) ==
  LET reach[k \in 0 .. Cardinality(Node(p))] ==
        IF k = 0 THEN {from} \ {avoid}
        ELSE reach[k - 1] \cup ((UNION {p.nodes[n].succ : n \in reach[k - 1]}) \ {avoid})
  IN  reach[Cardinality(Node(p))]

Dominates(p, a, b) ==
  a # b /\ b \notin ReachedWithout(p, p.entry[p.nodes[b].fn], a)

PostDominates(p, a, b) ==
  \A n \in ReachedWithout(p, b, a) : p.nodes[n].succ # {}

\* instBetweenTwoInst
InstBetweenTwoInst(p, inst, start, end) ==
  \/ /\ Dominates(p, start, inst) /\ ~ Dominates(p, inst, start)
     /\ ~ Dominates(p, end, inst) /\ Dominates(p, inst, end)
  \/ /\ ~ PostDominates(p, start, inst) /\ PostDominates(p, inst, start)
     /\ ~ PostDominates(p, end, inst) /\ PostDominates(p, inst, end)

\* The ends that may belong to a begin; addToRegionList takes the first.
EndsOf(p, begin) ==
  {e \in NodesOfKind(p, "end_critical") :
     /\ p.nodes[e].fn = p.nodes[begin].fn
     /\ p.nodes[e].what = p.nodes[begin].what
     /\ p.nodes[e].loc = p.nodes[begin].loc}
FirstEnd(p, begin) == Min(EndsOf(p, begin))

\* tsan_crit_map: the names of the critical regions around an access.
CriticalNames(p, access) ==
  {p.nodes[b].what :
     b \in {x \in NodesOfKind(p, "critical") :
              /\ p.nodes[x].fn = p.nodes[access].fn
              /\ InstBetweenTwoInst(p, access, x, FirstEnd(p, x))}}

\* The tsan calls among calls that use the variable v.
TsanUsers(p, calls, v) == {n \in calls : p.nodes[n].what = v /\ p.nodes[n].direct}

\* Mutant: some region is enough.
AnyRegions(p, calls, v) ==
  UNION {CriticalNames(p, n) : n \in TsanUsers(p, calls, v)}

\* The regions around all of them.
CommonRegions(p, calls, v) ==
  {name \in UNION {CriticalNames(p, n) : n \in TsanUsers(p, calls, v)} :
     \A n \in TsanUsers(p, calls, v) : name \in CriticalNames(p, n)}

\* remove_tsan_usages_to_var
RemovedUsages(p, calls, v) ==
  IF CommonRegions(p, calls, v) = {} THEN {} ELSE TsanUsers(p, calls, v)

\* remove_global_in_same_crit
RemovedInSameCritical(p, calls) ==
  UNION {RemovedUsages(p, calls, v) : v \in {p.nodes[n].what : n \in calls}}

-----------------------------------------------------------------------------
(* What a program has to be like for the pass to find the critical regions. *)

\* The nodes of the region that begins at b, its end included.
RegionFrom(p, b) ==
  LET e == FirstEnd(p, b)
  IN  {e} \cup UNION {ReachedWithout(p, n, e) : n \in p.nodes[b].succ}

\* A critical region is a structured block: control comes into it through its begin
\* only, and leaves it through its end.
StructuredRegions(p) ==
  /\ \A b \in NodesOfKind(p, "critical") :
       /\ FirstEnd(p, b) \in EndsOf(p, b)
       /\ \A f \in DOMAIN p.entry : p.entry[f] \notin RegionFrom(p, b)
       /\ \A n \in Node(p) \ (RegionFrom(p, b) \cup {b}) :
            p.nodes[n].succ \cap RegionFrom(p, b) = {}
       /\ p.nodes[FirstEnd(p, b)].succ \cap RegionFrom(p, b) = {}
  /\ \A e \in NodesOfKind(p, "end_critical") :
       \E b \in NodesOfKind(p, "critical") :
         FirstEnd(p, b) = e /\ p.nodes[b].what = p.nodes[e].what

\* The begins before and the ends behind every run through the access.
RegionsAround(p, access) ==
  {b \in NodesOfKind(p, "critical") :
     /\ p.nodes[b].fn = p.nodes[access].fn
     /\ Dominates(p, b, access)
     /\ Dominates(p, access, FirstEnd(p, b))}

\* No access counts as inside a region for the post-dominance alone, which holds
\* behind the region.
DominanceDecides(p) ==
  \A n \in NodesOfKind(p, "access") :
    CriticalNames(p, n) \subseteq {p.nodes[b].what : b \in RegionsAround(p, n)}

\* A variable is not used by its name here and through a pointer there.
NamedAlike(p) ==
  \A n, m \in NodesOfKind(p, "access") :
    p.nodes[n].what = p.nodes[m].what => p.nodes[n].direct = p.nodes[m].direct

RegionsProtect(p) == StructuredRegions(p) /\ DominanceDecides(p) /\ NamedAlike(p)

=============================================================================
