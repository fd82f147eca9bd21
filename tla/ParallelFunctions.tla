--------------------------- MODULE ParallelFunctions ---------------------------
(***************************************************************************)
(* The functions that may run in an OpenMP parallel region:                *)
(* check_module and collectAllParallelFunctions of                         *)
(* openmp_sequential_removal.cpp.  The traversal is recursive; the calls   *)
(* of a function are taken in any order (they are a set, and the order of  *)
(* the functions and instructions of a module is arbitrary).               *)
(***************************************************************************)
EXTENDS Sequences

CONSTANTS
  Function,   \* the functions with a body, tsan's own excepted
  Programs    \* the modules that may be compiled

\* calls: the functions a function calls, indirect calls included; regions: the
\* functions it passes to the OpenMP runtime; openmp_only: there is a main and
\* no call of another thread library.
ASSUME CallsAssumption ==
  \A p \in Programs :
    /\ p.calls \in [Function -> SUBSET Function]
    /\ p.regions \in [Function -> SUBSET Function]
    /\ p.openmp_only \in BOOLEAN

VARIABLES
  program,
  phase,
  functions,            \* the functions the outer loop has not come to
  call_stack,           \* per call in progress, the calls it still has to follow
  call_graph,           \* visited from the current function, sequentially
  parallel_functions

parallelVars == <<program, phase, functions, call_stack, call_graph, parallel_functions>>

Phases == {"check", "collect", "collected", "refused"}

\* A function, and whether it is called in a parallel region.
Callee == Function \X BOOLEAN

ParallelTypeOK ==
  /\ program \in Programs
  /\ phase \in Phases
  /\ functions \subseteq Function
  /\ call_stack \in Seq(SUBSET Callee)
  /\ call_graph \subseteq Function
  /\ parallel_functions \subseteq Function

-----------------------------------------------------------------------------
ParallelInit ==
  /\ program \in Programs
  /\ phase = "check"
  /\ functions = Function
  /\ call_stack = <<>>
  /\ call_graph = {}
  /\ parallel_functions = {}

CheckModule ==
  /\ phase = "check"
  /\ phase' = IF program.openmp_only THEN "collect" ELSE "refused"
  /\ UNCHANGED <<program, functions, call_stack, call_graph, parallel_functions>>

\* Mutants: what a parallel function calls counts as sequential; what is called
\* next to a region counts as parallel.
CalleesSequential(f, parallel) ==
  (program.calls[f] \X {FALSE}) \cup (program.regions[f] \X {TRUE})

CalleesParallel(f, parallel) ==
  (program.calls[f] \X {parallel \/ program.regions[f] # {}})
  \cup (program.regions[f] \X {TRUE})

CalleesOf(f, parallel) ==
  (program.calls[f] \X {parallel}) \cup (program.regions[f] \X {TRUE})

\* A call with nothing to follow is over.
CallsToFollow(callees) == IF callees = {} THEN <<>> ELSE <<callees>>

\* collectAllParallelFunctions(graph, f, parallel), called by callers.
Collect(f, parallel, graph, callers) ==
  \/ /\ f \in parallel_functions \/ (~ parallel /\ f \in graph)
     /\ call_graph' = graph
     /\ call_stack' = callers
     /\ UNCHANGED parallel_functions
  \/ /\ f \notin parallel_functions
     /\ parallel \/ f \notin graph
     /\ parallel_functions' = parallel_functions \cup {x \in {f} : parallel}
     /\ call_graph' = graph \cup {x \in {f} : ~ parallel}
     /\ call_stack' = CallsToFollow(CalleesOf(f, parallel)) \o callers

\* The outer loop starts at f, with a new call graph.
CollectFrom(f) ==
  /\ phase = "collect"
  /\ call_stack = <<>>
  /\ f \in functions
  /\ functions' = functions \ {f}
  /\ Collect(f, FALSE, {}, <<>>)
  /\ UNCHANGED <<program, phase>>

CollectCallee(f, parallel) ==
  /\ call_stack # <<>>
  /\ <<f, parallel>> \in Head(call_stack)
  /\ Collect(f, parallel, call_graph,
             CallsToFollow(Head(call_stack) \ {<<f, parallel>>}) \o Tail(call_stack))
  /\ UNCHANGED <<program, phase, functions>>

Collected ==
  /\ phase = "collect"
  /\ functions = {}
  /\ call_stack = <<>>
  /\ phase' = "collected"
  /\ UNCHANGED <<program, functions, call_stack, call_graph, parallel_functions>>

ParallelNext ==
  \/ CheckModule
  \/ Collected
  \/ \E f \in Function :
       CollectFrom(f) \/ \E parallel \in BOOLEAN : CollectCallee(f, parallel)

ParallelSpec == ParallelInit /\ [][ParallelNext]_parallelVars

-----------------------------------------------------------------------------
\* A set of functions that holds every region and all that its functions call.
ClosedUnderCalls(S) ==
  /\ \A f \in Function : program.regions[f] \subseteq S
  /\ \A f \in S : program.calls[f] \subseteq S

\* When the traversal is over no function that may run in a region is missed,
\* also not one that was first reached from sequential code: its tsan calls
\* would be removed ("remove TSAN calls only in single-threaded functions").
NoneMissed == phase = "collected" => ClosedUnderCalls(parallel_functions)

\* Only what a region may reach is taken for parallel.
NoneExtra ==
  \A S \in SUBSET Function : ClosedUnderCalls(S) => parallel_functions \subseteq S

=============================================================================
