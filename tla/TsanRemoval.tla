------------------------------ MODULE TsanRemoval ------------------------------
(***************************************************************************)
(* The two passes of tsan_slicing_pass.cpp that remove tsan calls one      *)
(* after the other (remove_all_single_thread_regions,                      *)
(* eliminate_only_in_critical), and runs of the program they leave: a main *)
(* thread, the other threads of the team, calls, regions and critical      *)
(* regions.  Regions are not nested.                                       *)
(***************************************************************************)
EXTENDS ParallelFunctions, CriticalRegions

CONSTANTS Thread, Main, MainFunction

VARIABLES
  tsan_calls,   \* the accesses with a tsan call
  eliminated,   \* eliminate_only_in_critical has run
  position,     \* per thread, the nodes it is at, innermost call first
  inside        \* per thread, the critical regions it is in

runVars == <<position, inside>>
vars == <<parallelVars, tsan_calls, eliminated, runVars>>

ASSUME ThreadsAssumption ==
  /\ Main \in Thread
  /\ MainFunction \in Function

BeginsAtEntry(p, f) ==
  f \in DOMAIN p.entry /\ p.entry[f] \in Node(p) /\ p.nodes[p.entry[f]].fn = f

\* Control stays in its function; the call graph has the calls and regions of the
\* nodes; the runtime lets the team finish before the main thread goes on.
ASSUME ProgramsAssumption ==
  \A p \in Programs :
    /\ IsFiniteSet(Node(p))
    /\ BeginsAtEntry(p, MainFunction)
    /\ \A n \in Node(p) :
         LET node == p.nodes[n] IN
         /\ node.fn \in Function
         /\ BeginsAtEntry(p, node.fn)
         /\ \A m \in node.succ : m \in Node(p) /\ p.nodes[m].fn = node.fn
         /\ node.kind = "call" => node.what \in p.calls[node.fn]
         /\ node.kind = "fork" => /\ node.what \in p.regions[node.fn]
                                  /\ node.succ # {}
                                  /\ \A m \in node.succ : p.nodes[m].kind = "join"
         /\ node.kind = "create" => ~ p.openmp_only
         /\ node.kind \in {"call", "fork", "create"} => BeginsAtEntry(p, node.what)

Accesses(p) == NodesOfKind(p, "access")

-----------------------------------------------------------------------------
Init ==
  /\ ParallelInit
  /\ tsan_calls = Accesses(program)
  /\ eliminated = FALSE
  /\ position = [t \in Thread |->
                   IF t = Main THEN <<program.entry[MainFunction]>> ELSE <<>>]
  /\ inside = [t \in Thread |-> {}]

\* collect_and_cleanup leaves the tsan calls of the parallel functions.
CollectAndCleanup ==
  /\ Collected
  /\ tsan_calls' = {n \in tsan_calls : program.nodes[n].fn \in parallel_functions}
  /\ UNCHANGED <<eliminated, runVars>>

RemoveSequential ==
  \/ CollectAndCleanup
  \/ /\ \/ CheckModule
        \/ \E f \in Function :
             CollectFrom(f) \/ \E parallel \in BOOLEAN : CollectCallee(f, parallel)
     /\ UNCHANGED <<tsan_calls, eliminated, runVars>>

EliminateOnlyInCritical ==
  /\ phase \in {"collected", "refused"}
  /\ ~ eliminated
  /\ tsan_calls' = tsan_calls \ RemovedInSameCritical(program, tsan_calls)
  /\ eliminated' = TRUE
  /\ UNCHANGED <<parallelVars, runVars>>

-----------------------------------------------------------------------------
(* The compiled program runs.                                              *)

At(t, kind) ==
  /\ eliminated
  /\ position[t] # <<>>
  /\ program.nodes[Head(position[t])].kind = kind

Current(t) == program.nodes[Head(position[t])]
Idle(t) == position[t] = <<>>

\* The places where t continues after its node: the end of a function returns.
Continue(t) ==
  IF Current(t).succ = {} THEN {Tail(position[t])}
  ELSE {<<n>> \o Tail(position[t]) : n \in Current(t).succ}

Proceed(t, kind) ==
  /\ At(t, kind)
  /\ \E next \in Continue(t) : position' = [position EXCEPT ![t] = next]

Execute(t) ==
  /\ Proceed(t, "plain") \/ Proceed(t, "access")
  /\ UNCHANGED <<parallelVars, tsan_calls, eliminated, inside>>

Call(t) ==
  /\ At(t, "call")
  /\ \E next \in Continue(t) :
       position' = [position EXCEPT ![t] = <<program.entry[Current(t).what]>> \o next]
  /\ UNCHANGED <<parallelVars, tsan_calls, eliminated, inside>>

\* The main thread and its team run the region; the node after the fork waits
\* for the team.
Fork(t) ==
  /\ At(t, "fork")
  /\ t = Main
  /\ \A u \in Thread \ {t} : Idle(u)
  /\ \E next \in Continue(t) :
       position' = [u \in Thread |-> <<program.entry[Current(t).what]>>
                                     \o IF u = t THEN next ELSE <<>>]
  /\ UNCHANGED <<parallelVars, tsan_calls, eliminated, inside>>

Join(t) ==
  /\ \A u \in Thread \ {t} : Idle(u)
  /\ Proceed(t, "join")
  /\ UNCHANGED <<parallelVars, tsan_calls, eliminated, inside>>

\* A thread of another library.
Create(t, u) ==
  /\ At(t, "create")
  /\ Idle(u)
  /\ \E next \in Continue(t) :
       position' = [position EXCEPT ![t] = next,
                                    ![u] = <<program.entry[Current(t).what]>>]
  /\ UNCHANGED <<parallelVars, tsan_calls, eliminated, inside>>

EnterCritical(t) ==
  /\ Proceed(t, "critical")
  /\ \A u \in Thread : Current(t).what \notin inside[u]
  /\ inside' = [inside EXCEPT ![t] = @ \cup {Current(t).what}]
  /\ UNCHANGED <<parallelVars, tsan_calls, eliminated>>

LeaveCritical(t) ==
  /\ Proceed(t, "end_critical")
  /\ inside' = [inside EXCEPT ![t] = @ \ {Current(t).what}]
  /\ UNCHANGED <<parallelVars, tsan_calls, eliminated>>

Next ==
  \/ RemoveSequential
  \/ EliminateOnlyInCritical
  \/ \E t \in Thread :
       \/ Execute(t) \/ Call(t) \/ Fork(t) \/ Join(t)
       \/ EnterCritical(t) \/ LeaveCritical(t)
       \/ \E u \in Thread : Create(t, u)

Spec == Init /\ [][Next]_vars

-----------------------------------------------------------------------------
\* Two threads are about to access the same variable.
Racing(t, u) ==
  /\ t # u
  /\ At(t, "access") /\ At(u, "access")
  /\ Current(t).what = Current(u).what

\* The removals hide no race: an access that can happen at the same time as
\* another one still has its tsan call ("map TSAN calls to surrounding regions",
\* "non TSAN call are irrelevant for data race detection").
NoRaceHidden ==
  \A t, u \in Thread : Racing(t, u) => Head(position[t]) \in tsan_calls

=============================================================================
