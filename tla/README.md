# Verification of program-skeleton

program-skeleton is a set of LLVM passes. From a program and a *request* (values
to precompute, instructions the execution has to pass) the library computes a
*slice*: the part of the program that has to run so that the requested values get
computed. The use case in `use-cases/thread-sanitizer` uses the slices, and some
passes of its own, to remove ThreadSanitizer calls that cannot report a race.

The modules here model the code, not its documentation. Every definition that
translates code is listed in `PROJECT.json` with the lines it stands for.

## 1. Inventory

### The library (`lib/precompute/compiler`)

| Component | State it keeps | Operations | Correct when |
|---|---|---|---|
| `PrecalculationAnalysis` (`precalculations.cpp`) | `tainted_values`, `function_analysis`, the request | `analyze`, `find_all_tainted_vals`, `visit_*`, `insert_tainted_value`, `include_value_in_precompute`, `insert_necessary_control_flow`, `insert_function_to_include` | the slice is closed (operands, control flow, callers, writes that are read), holds nothing without a reason, does not depend on the order of visits, and the rounds end |
| `TaintedValue` (`taintedValue.h`) | visited, included, reasons, `needs` / `needed_for` | set and clear flags | a value whose surroundings changed is visited again |
| `PtrUsageInfo` (`ptr_info.cpp`) | `loads`, `stores`, `merged_with`, users, members, info of the pointee | `merge_with`, `setIsReadFrom`, `setIsWrittenTo`, `setIsUsedDirectly`, `add_important_member` | one valid info per group of aliases; nothing refers to a merged info |
| `PrecalculationFunctionAnalysis` | call sites, callees, pointers read and written, `include_in_precompute`, `include_all_callsites`, `can_except_in_precompute` | `add_ptr_write`, `re_visit_callsites`, `getPtrWritten_recursive`, exception analysis | a call that leads to an important write, or to a request, is kept |
| Insertion (`Precompute_insertion.cpp`) | copies of the functions, value maps | copy, prune, rename calls, insert registration | the pruned copy is well formed and computes the values |
| `VtableManager`, devirtualisation | vtable copies, possible targets | lookup, registration | every virtual call of the slice finds a copy, and no original function |
| OpenMP regions | outlined function, captured values | mapping between serial and parallel values | each captured value maps to its origin |
| Tables of known functions, cached LLVM analyses, debug output | none of their own | lookups | - |

The components share state and call each other: a visit in the analysis changes
an info, the info puts the values that use it back on the worklist
(`propergate_changes`), and the function analysis does so for its call sites. The
call sites of a function make values of one function reach another.

### The runtime (`lib/precompute/runtime`) and allocation tracking

The library the slice calls: initialise, allocate, register values, finish, free.
Correct when the calls come in the order its status asserts expect, and memory
that was allocated for a precomputation is freed once.

### The use case (`use-cases/thread-sanitizer/pass`)

| Component | What it does | Correct when |
|---|---|---|
| `tsan_slicing_pass.cpp` | runs the steps, caches analyses | each step sees analyses of the present code |
| `pthread_mitigation.cpp` | counts POSIX threads, skips tsan calls while the count is zero | no call is skipped while another thread runs |
| `openmp_sequential_removal.cpp` | removes calls from code no parallel region reaches | what is reached from both stays |
| `critical_region_cleanup.cpp` | removes calls on data that one critical section protects | entries and exits pair on every path |
| `tsan_combine.cpp`, `loop_optimize.cpp` | merge neighbouring calls, move calls out of loops | what the calls covered is still covered |

`clang_wrapper.py`, the result scripts, the tests and sample applications have no
state worth a model.

### What is hard here

* The worklist: the passes are sequential, but each loop over a
  `std::set<std::shared_ptr<...>>` follows heap addresses, so the order of the
  visits differs between runs of the compiler. The tests shuffle the values
  (`SHUFFLE_VALUES_FOR_TESTING`) because "the order of visiting the values should
  make no difference". What a visit decides rests on what is known at that time,
  and what is learnt later has to bring the value back.
* The recursion: including a value includes what it needs and its control flow,
  which may include a function and its call sites, all in the middle of a visit.
* Merging infos that other objects refer to, inside sets ordered by them.
* The members of pointers: one merge leads to others, may merge the object it
  started from, and whether a change puts values back on the worklist is decided
  at each place on its own.
* Exceptions and virtual calls: which of them the slice needs is found bit by bit,
  and the copy is pruned, renamed and repaired with what was known at the end.
* The instrumented program: the threads race with the counter of the
  instrumentation, and the thread library may return errors.
* The passes that remove, combine and move tsan calls: whether a call still stands
  for an access depends on what the threads do at the same time.

`PROJECT.json` lists each hazard at its line with the properties that would catch it.

## 2. The modules

| Module | Models |
|---|---|
| `PrecalculationProgram` | the LLVM module the analysis reads: kinds, operands, parents, call graph, control predecessors, reachability. All constants. |
| `PrecalculationAnalysis` | the worklist with pointer infos and function analyses |
| `AliasGroups` | the abstract specification of the infos: pointers in groups |
| `PrecalculationSlice` | what the analysis promises: the properties, and that its infos implement `AliasGroups` |
| `MCPrograms`, `MCPrecalculation` | small programs, and the constants read off them |
| `PrecalculationAnalysis_proofs`, `PrecalculationSlice_proofs` | theorems about the analysis: types, references, control flow, the refinement of `AliasGroups` |
| `PrecalculationComplete_proofs` | theorems about what the finished slice holds, and why |
| `PtrUsageInfo` | the info objects in full: members of GEPs, padding, pointees, derived pointers (`ptr_info.cpp`) |
| `PtrAnalysis` | the visits that meet them: GEPs, loads and stores of pointers, calls of the standard library |
| `PtrRun`, `MCPtrRun` | the analysis and then a run of the program; small programs |
| `SliceCode` | the module that is sliced, with its invokes, handlers, phis and vtables |
| `ExceptAnalysis` | the recursion that finds which functions may throw |
| `SliceControl` | the analysis of control flow through invokes, exceptions and virtual calls |
| `SliceInsertion` | `Precompute_insertion.cpp` and `VtableManager.cpp` |
| `SliceRun`, `MCSliceRun` | analysis, insertion, then the slice and the program side by side |
| `SliceRun_proofs` | theorems about the exception analysis, the slice, the code of the copies and its run |
| `ThreadCounter`, `MCThreadCounter`, `ThreadCounter_proofs` | a POSIX thread program after `pthread_mitigation.cpp` |
| `ParallelFunctions` | the traversal of `openmp_sequential_removal.cpp` |
| `CriticalRegions` | `critical_region_cleanup.cpp`, an algorithm on a control flow graph |
| `TsanRemoval`, `MCTsanRemoval`, `TsanRemoval_proofs` | the two passes one after the other, then the program they leave, with its threads |
| `Iteration_proofs` | lemmas: induction over numbers, and what repeating a step over a finite set yields |
| `HappensBefore` | instrumented code, and which calls may order threads |
| `CombineTsan` | `tsan_combine.cpp` |
| `LoopOptimize`, `LoopOptimize_proofs` | `loop_optimize.cpp` |
| `TsanReduction`, `MCTsanReduction` | the two reducing passes, then the function they leave, run by a team |

`PrecalculationAnalysis`, `PtrAnalysis` and `SliceControl` are three views of the one
worklist of `precalculations.cpp`: values and functions, pointers with members, and
control flow with exceptions. Each leaves out what the others are about, because
their product is out of TLC's reach; what one abstracts is part of the program in
another (the functions in `PtrAnalysis` are in the slice from the start, the
branches of `SliceControl` need no memory).

### `PrecalculationAnalysis`

The variables carry the names of the source: `tainted_values`, `needs`
(`needed_for` is its inverse and left out), `include_in_precompute`,
`include_all_callsites`, `args_to_use`, `ptr_written`, `ptr_info`, `merged_with`,
`ptrs_with_this_info`, `loads`, `stores`, `is_used_directly`. `visited` and
`included` are the flags of `TaintedValue`. An info is named by the pointer it
was created for. `to_visit` is the rest of the round.

`call_stack` holds the calls in progress. A call is an operation, its subject and
the elements its loop still has to come to; each step takes one element in any
order and pushes the nested calls in the order of the source. So the nested
`include_value_in_precompute` runs at the point where the code calls it, and its
caller goes on with what it left.

| Action | Code |
|---|---|
| `AnalyzeValue`, `AnalyzedValue`, `AnalyzeCfg`, `AnalyzedCfg` | the two loops of `analyze`, before and after the inclusion |
| `NextRound`, `Visit*` | `find_all_tainted_vals` and the branches of `visit_val` |
| `IncludeValue`, `IncludeAgain`, `IncludeFunctionCallsite` | `include_value_in_precompute`, `insert_necessary_control_flow`, `insert_function_to_include` |
| `VisitStore`, `VisitLoad`, `VisitPhi(Incoming)`, `VisitSelect`, `VisitArg(Callsite)`, `VisitCall`, `CheckCall` | the functions of those names |
| `PtrStore`, `PtrPhi`, `PtrSelect`, `VisitCallFromPtr`, `PtrArg`, `PtrRet(Callsite)`, `PtrUsedPlainly` | one user in `visit_ptr_usages` |

Choices of the abstraction:

* Taint reasons are left out; they matter for invokes, which are in `SliceControl`.
* A pointer points to data without pointers; members and pointees are in
  `PtrAnalysis`.
* The recursion of `setIsReadFrom` / `setIsWrittenTo` over the callers is one
  step that adds all of them.
* `add_ptr_write` inserts into a `std::set` whose comparison follows
  `merged_with`. A merge changes the order of elements already in the set, so a
  lookup may miss an element: where the set holds an info merged into the new
  one, both outcomes are possible.
* `visit_ptr_store` sets flags that the nested `visit_store` sets again; the two
  are one.
* The last lines of `find_all_tainted_vals`, which erase MPI_Init from the set,
  are not modelled. They dereference the end iterator when there is none, a
  hazard in the list.

`AliasGroups` is what the infos stand for: a partition of the pointers, where a
merge joins two groups and knows what both knew, and a fact about one pointer is a
fact about its group. A select is the exception: it takes what it chooses out of the
groups they were in, and a pointer taken (`Taken`) may follow a later merge of its old
group, whose info still knows it as a user. `InfosActAsGroups` in `PrecalculationSlice` instantiates it
with the groups read off `ptr_info` and `merged_with`.

### `PtrUsageInfo`, `PtrAnalysis`, `PtrRun`

`info` says of each info object which members of GEPs it knows (`members`, from a
path of indices to an info), the type its GEPs count in, what is loaded from the
pointer (`direct`) and its flags. `call_stack` holds the calls in progress as above:
one merge pushes `setIsUsedDirectly` for the pointee and `merge_members`, and those
merge further; an info may be retired while a call on it is still to come, so each
operation forwards through `merged_with` where the code does, and
`MergeMembers` reads the flag of the object it started with where the code reads
`this`. `AddNewMember`, `WidenMember`, `MergeWithMember` and `AddToSelf` are the four
outcomes of `add_important_member`; `need_pad_for_gep` returns the changed info and
the pad.

The visits are those of `PrecalculationAnalysis` for the values that meet members.
The code is one function of the slice, so `include_value_in_precompute` comes down to
following `needs`. Calls of the standard library have one pointer argument and say
whether they read and write; `StdWrites`, `StdReads` and `StdIncludes` are the steps
`visit_call` and `visit_call_from_ptr` share. Reference counts are left out.

When the analysis is done, `PtrRun` runs the program: `address` and `memory` are
those of a real run, an index that is no constant takes any value, and a call of the
library reads or writes what it finds by following pointers. An access outside an
object is undefined and ends the run.

### `ExceptAnalysis`, `SliceControl`, `SliceInsertion`, `SliceRun`

`ExceptAnalysis` is `analyze_can_except_in_precompute`, called for every function in
any order (`to_analyze`): `except_stack` is the recursion with the callees each call
has still to come to. The code analyses a function again for each of its callers,
and so does the model.

`SliceControl` keeps the state of the worklist in the record `slice`; the functions
of the source are operators from a record to a record and one visit is one step.
`SliceInsertion` turns the module into `code`: `CopyFunctions` (with the vtables),
`ReplaceCalls` (invokes that cannot throw become calls, calls go to copies, indirect
calls get a check for null, which splits their block), `Prune` (what is not included
goes away, blocks are merged, phis repaired). `insertion` and `remaining` are the
progress of these loops.

`SliceRun` then runs the program and the slice. The slice runs ahead to the next
instruction where it decides something and waits until the program has come to the
same one in the same calls; then both take the same branch, find the same class and
meet the same exception. So each property is about one execution seen twice:
`RequestsReached` (the slice waits at a request whenever the program passes it),
`SliceEnds` (it does not wait for what never comes), `NoOriginalRuns`,
`NoNullCalled`; `PhisMatch` is about the code it is left with.

### `ThreadCounter`

`ThreadCounter` is the global the pass adds. `thread` is the life of each thread,
`at` its place in the instrumented code, `target` the thread it is creating or
joining. `Fork` is the increment `wrap_fork` puts before `pthread_create`,
`Create` or `CreateFails` the call itself, `Join` the call of `pthread_join` and
`AfterJoin` the decrement of `wrap_join`. `LoadCounter` is the volatile load and
the branch, `Access` the access behind it. All interleave. The calls of the thread
library are external. A thread is joined at most once, as POSIX requires.
`JoinFails`, a join that returns an error while its target runs, is in
`SpecWithJoinErrors` only.

### `TsanRemoval`

`program` is a module: a sequence of instructions with their successors, and its
call graph. `CheckModule`, `CollectFrom`, `CollectCallee` and `CollectAndCleanup`
are `check_module`, the outer loop, the recursion of `collectAllParallelFunctions`
and `collect_and_cleanup`; `call_stack` holds the callees each call in progress has
still to follow. `EliminateOnlyInCritical` is the third pass in one step; its
operators have the names of the functions in `critical_region_cleanup.cpp`.
Dominance comes from LLVM and is modelled by its definition on instructions.

Then the program runs: `position` is the stack of instructions of each thread,
`inside` the critical regions it is in. The OpenMP runtime and the threads are
external. `tsan_calls` are the accesses that still have their call. All accesses
are writes; a variable is a global without private linkage; parallel regions are
not nested at run time (the traversal follows nested ones). `wrap_non_openmp_tsan_calls`,
which runs between the two passes, removes nothing and is modelled in
`ThreadCounter`.

`NoRaceHidden` is what the passes owe to the user together: when two threads can be
at accesses of one variable at the same time, both still report to tsan.
`ProgramsAssumption` ties the instructions to the call graph and says what the runtime
guarantees: control stays in its function, calls and regions are in the graph, a fork is
followed by its join, and the program that creates other threads does not pass
`check_module`. `RegionsProtect` (`CriticalRegions`) is no assumption of the model: it says
what a program has to be like for the pass to be right, and the theorem needs it. The
programs of `removal` satisfy it (`CheckedAssumption`), `After` and `Passed` do not.

### `TsanReduction`

`body` is the function as a sequence of accesses, tsan calls, GEPs, calls and loop
ends. `modes` is any choice of MERGE and LOOP. `Combine` is one edit of one stage of
`combine_tsan_calls` in any order of the base pointers, `NextStage` goes on when a
stage has nothing left and starts again after a change, `OptimizeLoop` is one loop of
`processLoopsInFunc`, `Compiled` the end. Then each thread of the team runs the body:
`Access`, `TsanCall`, the iterations of the loops with the chunks the OpenMP runtime
(external) hands out. Threads meet at barriers only, so an access carries the number
of barriers before it and two accesses race if they carry the same number; that needs
no interleaving of the single accesses. What LLVM's scalar evolution and alias queries
answer (the area of a pointer, its offset and its step per iteration) is part of the
program.

`NothingLost` and `NothingInvented` compare what a thread accessed with what it
reported between two barriers; a function with a call that became the range of a static
chunk is left out of `NothingLost`, as the flag of the call is set at the entry of the
function and each thread reports its first chunk and no other. `RacesFound` is about
those: each access is
recorded with its chunk, and if two threads race in any two chunks less than a round
apart (a round gives one chunk to each thread), a race on the same area is reported. So
the first chunks do stand for the later ones, but only for neighbours of that kind: **a
race between chunks a round or more apart can be lost**. With three threads and
`schedule(static, 2)`, `a[i] = a[i+7]` races between chunks 0 and 4, the first chunks
write 0 to 5 and read 7 to 12, and tsan sees no race (`Distant`, where `EveryRaceFound`
does not hold). With two threads `a[i] = a[i+6]` does the same. No comment or test of
the repository says that such a race is found, so it is a limit of the pass and no
finding.

## 3. The runs

| Run | Expected | Shows |
|---|---|---|
| `slices` | pass | the invariants of the slice on seven programs, in every visiting order; the slice is the expected one |
| `rounds` | pass | `Termination`, `CalleesIncluded`, and that the infos implement `AliasGroups` |
| `ptr_members` | pass | `NoWriteLost`, `MembersShareInfo`, `VisitsEnd` on nine programs with members |
| `slice_copy` | pass | the exception analysis and the copied slice on eight programs |
| `thread_counter` | pass | `SkippedAlone`, `CounterSettles` with failing `pthread_create` |
| `removal` | pass | `NoRaceHidden`, `NoneMissed`, `NoneExtra` on four programs with three threads |
| `reduction` | pass | what is accessed is reported and nothing else, on thirteen functions run by three threads; races of static chunks less than a round apart stay visible, those further apart may be lost; the passes end |
| `reloaded` | violation | a field written through one load of a pointer and read through another is lost |
| `missed_branch` | violation | a branch in front of an invoke is left out |
| `phi_removal` | violation | two incoming values of a phi: the second index is stale |
| `after_critical` | violation | an access behind a critical region counts as inside |
| `nested_invariant` | violation | an address that moves with the outer loop is reported once |

The programs of `slices` and `rounds`, each small enough that all orders are explored:

* `Chain`: a requested value in a helper, its argument from a global written
  before the call, and again after it (which must stay out).
* `Writes`: the value is written two calls down; another call only reads and a
  third writes too late.
* `LoopProgram`: an instruction to pass, under a branch in a helper that a loop
  calls; the branches, the phi of the loop and the load of the condition belong.
* `AliasProgram`: a phi and a select of three pointers with stores through each,
  one of them after the load.
* `Joined`: the phi that makes a store and a load meet may be visited after both,
  and the pointer of the store is no operand of it.
* `Returned`: a function that returns its pointer argument.
* `Recursive`: a function that writes through its argument and calls itself.
* `Withdrawn` (only in `rounds`): a select takes a pointer whose old group merges later.

The programs of `ptr_members`: `Fields` and `Elements` (two objects behind a phi),
`Items` (an array by its items and by its elements), `Widened` (a constant index and
an unknown one), `List` (a list followed in a loop), `Filled` and `Whole` (the library
writes or reads behind a pointer whose members are known), `Handed` (a pointer stored
and loaded twice, also read by the library), `Steps` (a pointer and an element behind it
in one group, which an object joins later).

The programs of `slice_copy`: `Handler` (a request in a handler), `Loop`, `Objects`
(virtual calls), `SharedPad` (two invokes with one landing pad), `Cleanup` (a function
that resumes), `Decision` (a returned value decides), `Recursion` (with an exception
no one handles) and `Results` (what functions return decides on requests in them and
behind them).

The programs of `removal`: `Shared` (a helper reached from sequential code first
and from a region through another call), `Critical` (nested regions, a branch,
variables in one region, in different ones and in none), `Repeated` (a loop around
a region beside a second region of the name), `Created` (a thread that is not
OpenMP's). Each has at most 18 instructions; a race takes two threads, the third
keeps a region busy while main waits.

The functions of `reduction`: `Members`, `Inner` and `Array` for the three
replacements, with padding and a barrier in a callee; `Invariant` and `Nest` for calls
behind flags; `Elements` and `Descending` for ranges of structs and downwards. The others
are a[i] = a[i+d] in chunks of two: neighbouring chunks race (`AntiStatic`, `AntiDynamic`,
`LastHalf` with a last chunk that is not full), chunks two apart meet in one element
(`OneElement`), each chunk meets one of its own thread only (`ForcedThreadCount`), or
chunks three and four apart meet, which no first chunks do (`Distant`, where
`RacesFound` asks for nothing).

A run of the analysis picks one of its programs by the request, or as `program`.
`SliceIndependentOfOrder` compares the slice with the one worked out by hand for the
program, so it also says that nothing is missing or superfluous.

### Bounds

For a finite program the states are finite without a bound, except where recursion
is run: `MaxDepth = 5` calls deep in `SliceRun`, which is one more than the longest
chain of different functions and so includes a recursive call. The programs have at
most 14 values. What they have to show (a change after a visit, a merge after a
reference, an inclusion before an edge, a call chain of depth two, a cycle) takes two or
three functions and two or three pointers. Sizes are in units of an int; an unknown
index takes three values, more than the distance of two elements that meet. Two
threads are enough for a race; with three in `reduction` the chunks of a round are one
or two apart, and three to five chunks give one thread at least a second one. For the counter, four threads are main, two threads that race,
and one that is created by another thread than the one that joins it; the initial
thread is not interchangeable, the others are (symmetry, only in runs without
temporal properties). `Wildcard` is 2^16 where the code has the largest long: above
every index in use.

`CHECK_DEADLOCK FALSE` is set because the analysis ends and so does a program
whose threads have all exited.

### Fairness

`Termination` assumes weak fairness of the next-state relation, `ExceptTermination`
of the exception analysis, `VisitsEnd` of the analysis before the run. Each is one
sequential computation in the compiler process; nothing it waits for exists, so it
takes its next step as long as there is one. Nothing is assumed about which element a
loop takes. No liveness is claimed of the programs that run afterwards.

### Findings

The violation runs are disagreements between the code and what it says of itself;
`PROJECT.json` quotes both. In short: another load of a pointer is followed only if
the pointee itself is read, not one of its fields; the invoke in front of a normal
destination is tainted but not included, so nothing asks for what guards it; incoming
values of a phi are removed by ascending index; the second condition of
`instBetweenTwoInst` holds behind a region and never inside one; and the flag of a
tsan call in an inner loop is set once per function though the outer loop moves the
address.

Each is a program of its own, not one of those above, where the properties hold. The
MC modules keep more programs for which a property does not hold; to see one, set
`Programs` (or `Program`) in a copy of the configuration to the name in brackets.

| Program | What does not hold | Why |
|---|---|---|
| `Register` (`JustRegister`, `MCPrograms`) | `AllCallsitesIncluded` | `include_all_callsites` set late does not reach the callers of the caller |
| `LateLoad` (`JustLateLoad`) | `WritingCallsIncluded` | a store found important late does not bring its call back |
| `SelectArg` (`JustSelectArg`) | `OneInfoPerAliasGroup` | a select overwrites an info where others merge |
| `Reselected` (`JustReselected`) | `IncludedStoreMatters`, `IncludedForAReason` | a pointer that two selects choose leaves the group with the load that made a store important |
| `ReturnedLate` (`JustReturnedLate`) | `CalleesIncluded` | a result that is used after the visit of its call does not bring the call back |
| `ReturnedGlobal` (`JustReturnedGlobal`) | `CalleesIncluded` | a call is kept whose callee is not copied |
| `ComparedFunction` (`JustComparedFunction`) | `SliceIndependentOfOrder`, `CallersKnown` | a function used as a value is included without its calls |
| `SpecWithJoinErrors` (`ThreadCounter`) | `SkippedAlone` | a failed join counts as a join |
| `Passed` (`JustPassed`, `MCTsanRemoval`) | `NoRaceHidden` | accesses through a passed address are not seen |
| `Hidden` (`JustHidden`, `MCPtrRun`) | `NoWriteLost` | a pointee known after `setDerivedPtrIsRelevant` is not merged |
| `Iterated` (`JustIterated`) | `NoWriteLost` | the step of an iterator adds no member, so an item written by its number is not followed |
| `Bytes` (`JustBytes`) | `NoWriteLost` | `need_pad_for_gep` sets `whole_ptr_is_relevant` and tells nobody |
| `WidenedLate` (`JustWidenedLate`) | `NoWriteLost` | a wider member is not propagated |
| `Wildcards` (`JustWildcards`) | `MembersShareInfo` | of two members that match only the first is merged |
| `DeepHandler` (`DeepThrow`, `MCSliceRun`) | `NoOriginalRuns` | a function between a throw and its handler is called, not copied |
| `OneClass` (`OriginalVtable`) | `NoOriginalRuns` | a class none of whose functions is copied keeps its vtable |
| `LibraryMethod` (`NullResult`), `ReturnBehindInvoke` (`BehindReturn`), `NeverReturns` (`NoReturn`) | `NoNullCalled` | the result of a virtual call is used, but one function it can call has no body, no return that is found, or none at all, and so no copy |
| `InvokeAfterInvoke` (`PhiMerge`) | `PhisMatch` | a merged block stays in a phi |
| `HandlerCalls` (`LateHandler`) | `RequestsReached` | an invoke included before its landing pad is not visited again |
| `LateRequest` (`EarlyResult`) | `RequestsReached` | a function included for its result calls one that is found to send a request later; the call behind it is not visited again |
| `Swallowed` (`SwallowedException`) | `SliceEnds` | a pruned block returns normally where the program unwinds |
| `Before`, `Beside`, `Gap`, `Partial` (`JustBefore`, ..., `MCTsanReduction`) | `NothingLost` or `NothingInvented` | members computed in front of a barrier, members on both sides of a pointer or with a gap before the last ones, a last chunk that is not full |
| `Distant` (`JustDistant`, `MCTsanReduction`) | `EveryRaceFound` | of a static loop only the first chunk of each thread is reported: a race of later chunks a round or more apart is lost |

## 4. The proofs

The proofs hold for every value of the constants that satisfies the assumption of its
module: every program of `ProgramAssumption`, `StoreAssumption` and
`RequestAssumption` (the slice), of
`ProgramAssumption` and `WellFormedAssumption` of `ExceptAnalysis` (each instruction in one
place, a block ends with its only terminator, operands are in the function), of `CallsAssumption` (`ParallelFunctions`) and
`ProgramsAssumption` (`TsanRemoval`), and every finite set of threads (`ThreadsAssumption`, `ThreadAssumption`). The
assumptions say what LLVM's verifier guarantees of the constructs in the model, and no
more (a store yields no value, so it is nobody's operand, no terminator and no
argument one could request). TLC evaluates all of them on the programs of the runs.

### The slice at every moment (`PrecalculationAnalysis_proofs`, `PrecalculationSlice_proofs`)

* `TypeCorrect`: `Spec => []TypeOK`. `Frame` says for each operation what its
  subject and its remaining elements may be, so the theorem also says that no loop
  meets an element it cannot handle. One lemma per group of actions, on lemmas about
  the operators that build the stack.
* `ReferencesStayValid`: `Spec => []ReferencesAreValid`, inductive together with
  `TypeOK`. `InfoSteps` reduces all actions to four: no info changes, a pointer is
  read or written, two infos of pointers merge, or a select redirects.
* `InfosImplementGroups`: `Spec => InfosActAsGroups`, the refinement of `AliasGroups`,
  with one lemma per kind of step (`UsesIsLearn`, `MergeIsMerge`, `SelectIsTake`). A
  merge moves the users of an info, not the pointers that refer to it, so the proof
  needs to know who the users are: `UsersInv` says that they are the pointers that refer
  to the info and, beyond these, only pointers that a select has taken.
* `NoCallIsVisitedTwice`: `Spec => []NoCallVisitedTwice`. Not inductive alone: a
  frame of `analyze` for a requested instruction marks it as visited after its
  inclusion. `WorklistInv` adds that no such frame is on the stack and no request
  left while a round goes on.
* `ControlFlowStaysClosed`: `Spec => []ControlFlowClosed`. What is pending on the
  stack stays there until it is included (`PendingKept`).

### The finished slice (`PrecalculationComplete_proofs`)

A property at `Done` says that nothing was forgotten, so its invariant has to say for
each piece of work where it is: done, or waiting on the stack, or left to a visit that
is still to come. `Waiting(op, s, x)` is a call of `op` for `s` on the stack that has
still to come to `x`. `WaitingKept` (what waits is still waiting after a step, or the
step takes it) and `WaitingNew` (a step that makes something wait has one of the causes
in `StartCause`) account for all actions once; the theorems are then about the few
actions that matter to each. When the worklist is empty, nothing waits.

* `OperandsAreIncluded`: without any hypothesis. `OperandInv` says that the operands of
  a visited and included value are included or about to be. For a phi and an argument,
  whose visits are loops with nested inclusions, it says of each operand that the loop
  has still to come to it or that the edge is known *and* asked for once the value is
  included (`AskedWith`): the value may be included before, during or after its visit.
  Requested instructions are exempt, as `analyze` marks them visited without a visit.
* `ParentsAreIncluded`: from `ControlFlowClosed`, if every block is reachable
  (`BlocksReachable`; LLVM allows unreachable blocks, and the terminators before one
  lead to no entry block). No invariant mentions it: the instructions of the slice in
  one function are closed under `ControlledBy`, so one of them is in the entry block.
* `CallersAreKnown`: if no function is both called and used as a value
  (`ValuesNotCalled`; `ComparedFunction` is the counterexample).
* `CallsOfRequestsAreIncluded`, `AllCallsAreIncluded`: the copy comes to what is asked
  for from every call the program has. The mark of a function is set in `analyze`, and a
  call may be visited before or after, be included first or be requested itself:
  `RequestedCallInv` says that a visited call of a function with a request is asked for,
  or waits for its check with the mark set. At the end the function has a copy
  (`ParentsAreIncluded`), so its calls are known (`CallersAreKnown`) and visited. The first
  theorem is about the functions that hold a request, in every program with the two
  hypotheses above. The second is `AllCallsitesIncluded`, which is about every marked
  function; it also needs that a caller of such a function holds a request too or is
  called by nobody (`CallersHoldRequests`, true of all programs of `slices`), as a mark
  set on a function whose calls have been decided about does not travel on: `Register`,
  one call deeper, is the counterexample.
* `IncludedStoresMatter`, `IncludedForReasons`: `ReasonInv` gives a reason for what is
  included and for what waits to be; the work is that a reason stays one while infos
  merge (`InfosMove`: an info moves as a whole and keeps its loads; `MattersKept`).
* `StoresAreComplete`: `LoadInv` says that a load known to an info is one through a
  pointer of its group, and what `StoreInv` adds is that a store through a visited pointer is
  still to be looked at, or nothing reads what it writes, or it is asked for with
  its operands. An info that gains a load puts all its pointers back on the worklist,
  except the phi that is just being visited, which `LastIncoming` singles out: it is
  marked visited after its merges, but its uses are looked at next (`UsesLookedAt`).
* `OneInfoPerGroup`: `AliasInv` says of each pair of names of one address that the loop
  that merges them has still to come to it, or that they share an info; `SharedKept` that
  they go on to.

The last four assume that no select yields a pointer (`NoPointerSelects`): a select
takes pointers out of their group, and `Reselected` and `SelectArg` show that the
properties do not hold with selects in general (TLC checks them for `AliasProgram`, where they do). `StoresAreComplete` and `OneInfoPerGroup` also assume that an
instruction the slice only has to pass yields no pointer (`PassedYieldNoPointer`): the
use case asks for the tsan calls, which yield nothing (`collectCalls` in
`tsan_slicing_pass.cpp`), and `analyze` marks what it is asked to pass as visited, so
nobody would look at the uses of a pointer. All programs of `slices` and `rounds`
satisfy the hypotheses but `AliasProgram` and `Withdrawn`, which are there for their
selects.

### The slice that runs (`SliceRun_proofs`)

* `ThrowersKnown`, `SecondAnalysisAgrees`, `AnalyzedOnce`: from `ExceptInv`, the
  flags in progress are exactly the frames on the stack, and a function found not to
  throw has only callees found not to throw, or in progress below it. A set of
  functions found not to throw is then closed under calls, so no exception starts in
  it. `ExceptTypeCorrect` is part of the invariant.
* `SlicingAnalyzesExceptions` (`Spec => ExceptSpec`): the composition of `SliceRun`
  implements the exception analysis, its fairness included; `ThrowersStayKnown`
  carries `CanExceptSound` over.
* `SliceInvariant`: the slice holds what its instructions need, what guards them and the
  function they are the entry of (`IncludedClosed`); a visited instruction has what it
  uses, and a visited call the result of which is used has the returns of all it can call
  (`VisitsSound`). `RecursionCloses` is the lemma below all of it: the recursion of
  `include_value_in_precompute` goes as many levels deep as can still add something, so
  what it finds needs nothing more.
* `CodeInvariant`: in each phase of the insertion there is a set of blocks, with the
  entries of all copies, that control does not leave and in which each terminator has the
  successors it needs (`LiveBlocks`). The replaced invokes, the pruned terminators and the
  eliminated blocks each change it (`ReplaceOK`, `PruneOK`). `TargetsOK` and `ReplacedOK`
  say what a call of a copy can call.
* `RunInvariant`: the slice is always in these blocks, its callers wait at calls, and what
  can stop it otherwise is a call of null or of a function that was not copied.
* `NullNeverCalled`: `Spec => [](VirtualReturns(program) => NoNullCalled)`. A call is left
  without a check for null only if its result is needed; then the returns of all it can
  call are in the slice, with the branches in front of them up to the entry, so the
  functions are copied (`ResultsCopied`) and their entries are not null. This is the
  comment "if retval is used: the precompute vtable can not contain null"
  (`Precompute_insertion.cpp:371`), and `VirtualReturns` is what it takes for granted:
  what a virtual call with a used result can call has a body, and in it a return that is
  not reached through a handler or behind an invoke only. Programs where one of these
  does not hold call null: an external virtual function, a function that never returns,
  and a function the only return of which is behind an invoke (`LibraryMethod`,
  `NeverReturns`, `ReturnBehindInvoke`). All programs of the run `slice_copy` satisfy it
  (`MCVirtualReturns`).
* `OriginalNeverRuns`: `Spec => [](PlainProgram(program) => NoOriginalRuns)`, for programs
  with neither exceptions nor virtual calls, in which each block is reached and a function
  returns if its result is used. `PlainInvariant` says why: a call gets into the slice of
  such a program only with a function that is included, or for its result, and then
  the returns bring the function in; so what a copy calls is a copy, unless it has no
  body. Exceptions and virtual calls are the two ways to an original function
  (`DeepHandler`, `OneClass`): a call is included to find the handler, or as a virtual
  call of which another class is needed. `Loop` and `Results` are such programs
  (`MCPlainPrograms`).
* `RequestsPassed`, `SliceFinishes`: `Spec => [](PlainProgram(program) /\
  ResultsApart(program) => RequestsReached)`, and the same with `SliceEnds`. This is what
  the slice is for: it passes each requested instruction when the program does, in the
  same calls, and ends when the program ends.
  `ResultsApart` says that the result of a function that leads to a request, but holds
  none, is not used. It cannot be dropped: `LateRequest` is a plain program without it
  (`MCLateRequest`) and violates `RequestsReached`, as the call behind a function that was
  included for its result is not visited again when a request is found below of it.
  The argument has two parts. `LeadInvariant`: of each function a request can be below of,
  every call is in the slice once its worklist is empty, and so are their callers
  (`LeadDone`). `AheadInvariant`: at each moment the slice has a prefix of the program's
  calls in progress; from its last place (`Leads`) the program comes to where the slice
  waits, or never leaves, and passes nothing before that the slice decides at; and each
  call above either is of a function no request is below of, or is in code that nothing
  is included of (`Silent`). A step of the slice alone keeps this since an instruction it
  does not decide at has one successor, or is a branch that goes only to blocks nothing is
  included of (`QuietBranches`: a block in which something is included has the branches in
  front of it included); a step of the program alone since it is at nothing the slice
  decides at (`BehindIsQuiet`), so a function it calls is one no request is below of; and
  a common step since an included instruction is the same in both codes (`BothGoOn`).
  A program that is aborted by an exception is not compared any more. `Loop` and `Results`
  satisfy the hypotheses (`MCResultsApart`).

### The other components

* `SkippedOnlyAlone`, `CounterComesBack`: from `IInv`, whose core is that the
  counter is the number of threads counted and not joined, plus the number of
  decrements still to come, minus one for the initial thread. So a load of zero
  means that nobody else exists, and as only the thread itself could create one, that
  remains so until its access.
* `NoneIsMissed`, `NoneIsExtra`: the traversal of the call graph finds the least set
  closed under regions and calls. The invariant says of every callee of a parallel
  function, and of every region of a function the outer loop has come to, that it is
  parallel or pending as a parallel call on the stack; and of all these that they are
  in each closed set. `RemovalTraverses` (`Spec => ParallelSpec`) carries both over
  to the composition.
* `RacesStayVisible`: `Spec => [](RegionsProtect(program) => NoRaceHidden)`, for any
  number of threads, any call depth and any nesting of critical regions. `RInv` joins
  three arguments. `PositionsInv`: where the removal in sequential code was allowed,
  every frame of another thread is in a parallel function, and while one of them is busy
  the main thread is at or above a join with only parallel functions on top of it
  (from `NoneIsMissed`; a program that creates threads was refused). `InsideInv`: no two
  threads are in regions of one name, and what the frames of a thread are in, it has
  entered, each name once (`FramesHold`; without the last part a thread that leaves a
  region could lose one it is still in). `CallsInv` says which calls are left. What the
  pass reads off the dominance is then true of the runs (`DominatedInside`): every
  instruction of a frame is one that control reaches from the entry (`Visitable`), so it
  lies behind the begin and, before it, the region was not left. `ReachedWithout` is a
  recursive function; `ReachedClosed` and `ReachedLeast` say that it is the least closed
  set.
  The three conditions of `RegionsProtect`: regions are structured blocks, which OpenMP
  requires; a variable is used by its name or never (`Passed` is the counterexample);
  and no access counts as inside for the post-dominance alone (`After`: this is the
  second condition of `instBetweenTwoInst`, a finding above). Without that second
  condition the last one would always hold: the theorem says that the pass is right but
  for it.
* `ChunkIsCovered`, `ChunkIsExact`: for every chunk size, step and element size, the
  range a loop reports covers what a full chunk accesses, and is no larger if the step
  is the element.

Three refinements are proved (`InfosImplementGroups`, `RemovalTraverses`,
`SlicingAnalyzesExceptions`).

### Only model-checked

* `WritingCallsIncluded`, `CalleesIncluded`: they hold for the programs of the runs and
  not for all (`LateLoad`, `ReturnedGlobal`, `ReturnedLate`).
* `PhisMatch`, and `RequestsReached`, `SliceEnds` and `NoOriginalRuns` where there are
  exceptions or virtual calls: phis play no part in the proofs, which follow control only.
* The properties of a run of the program with members (`PtrRun`) and of
  what the reduced calls report (`TsanReduction`). Most of them fail for some program of
  the table above; what holds of all would have to say which.
* `SliceIndependentOfOrder` compares with a slice worked out by hand, which only a given
  program has.
* `Termination`, `ExceptTermination` and `VisitsEnd`: liveness under
  fairness is out of the prover's reach.

What a recursive function yields for every program is an induction, which the library
offers only with an operator as a parameter. `Iteration_proofs` states it with sets
instead (`NatSetInduction`), which is enough for a closure computed in rounds
(`ReachedWithout`). `CalleesWithin` is such a closure too; the proofs use of it only that
it yields functions.

## 5. Not modelled

* The runtime library and the tracking of allocations: the use case constructs
  `PrecomputeInsertion` without them (`tsan_slicing_pass.cpp:241`), so nothing in this
  repository calls the runtime.
* Devirtualisation: mostly taken over from LLVM's whole program devirtualisation
  (`devirt_analysis.cpp`), it reads type metadata of the module and keeps no state
  that changes later. The programs give the targets of their virtual calls.
* OpenMP regions (`Openmp_region.cpp`) and the tables of known functions: lookups by
  pattern or name. Their answers are part of the programs.
* In the analysis: aggregates, vectors and atomics, varargs, MPI calls (special cases
  for communication buffers the use case does not slice), pointers returned by the
  standard library, parallel regions as callees.
* In the insertion: the arguments that are registered, replaced allocations and
  debug output. In the thread counter: the search for the calls to instrument.
* The cached analyses of the pass pipeline, its statistics and its other options; the
  compiler wrapper, the scripts, tests and sample applications.
