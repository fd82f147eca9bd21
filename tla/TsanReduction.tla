----------------------------- MODULE TsanReduction -----------------------------
(***************************************************************************)
(* The two passes of tsan_slicing_pass.cpp that reduce the number of tsan  *)
(* calls, in the modes MERGE (combine_tsan_calls) and LOOP                 *)
(* (optimize_loops), and a run of the function they leave by a team of     *)
(* threads.  Threads meet at barriers only: what a thread does is labelled *)
(* with the number of barriers before it, and two accesses race if they    *)
(* carry the same number.                                                  *)
(***************************************************************************)
EXTENDS CombineTsan, LoopOptimize

CONSTANTS
  Program,   \* the programs to choose from
  Team       \* the threads, 0 .. n - 1

ASSUME TeamAssumption ==
  IsFiniteSet(Team) /\ Team # {} /\ Team = 0 .. Cardinality(Team) - 1

VARIABLES
  program,
  modes,        \* the passes that are enabled
  phase,        \* a stage of combine_tsan_calls, "loops" or "run"
  body,         \* the instrumented function
  changed,      \* combine_tsan_calls has replaced something since "same"
  loops_left,   \* the loops processLoopsInFunc still has to come to
  next_chunk,   \* the OpenMP runtime: chunks given away, per loop
  at,           \* per thread, its position in body
  value,        \* per thread, the iteration or chunk of each loop
  barriers,     \* per thread, the barriers it has passed
  fired,        \* per thread, the flags that runTSANonlyOnce has cleared
  executed,     \* per thread, the bytes accessed, each with the chunk it belongs to
  reported      \* per thread, the bytes reported to tsan

passVars == <<phase, body, changed, loops_left>>
runVars == <<next_chunk, at, value, barriers, fired, executed, reported>>
vars == <<program, modes, passVars, runVars>>

Loop == DOMAIN program.loop

-----------------------------------------------------------------------------
(* The passes.                                                              *)

\* Deepest first.
ByDepth(loops) ==
  {l \in loops : \A m \in loops : Cardinality(LoopsAround(program, m))
                                    <= Cardinality(LoopsAround(program, l))}

Init ==
  /\ program \in Program
  /\ modes \in SUBSET {"merge", "loop"}
  /\ phase = IF "merge" \in modes THEN CombineStages[1] ELSE "loops"
  /\ body = program.body
  /\ changed = FALSE
  /\ loops_left = IF "loop" \in modes THEN Loop ELSE {}
  /\ next_chunk = [l \in Loop |-> 0]
  /\ at = [t \in Team |-> 1]
  /\ value = [t \in Team |-> [l \in Loop |-> 0]]
  /\ barriers = [t \in Team |-> 0]
  /\ fired = [t \in Team |-> {}]
  /\ executed = [t \in Team |-> {}]
  /\ reported = [t \in Team |-> {}]

\* remove_wrapper has something to replace.
Combine ==
  /\ phase \in Range(CombineStages)
  /\ \E edit \in PossibleEdits(phase, program, body) : body' = Edited(body, edit)
  /\ changed' = TRUE
  /\ UNCHANGED <<program, modes, phase, loops_left, runVars>>

NextStage ==
  /\ phase \in Range(CombineStages)
  /\ NothingToReplace(phase, program, body)
  /\ LET k == CHOOSE n \in DOMAIN CombineStages : CombineStages[n] = phase
     IN  phase' = IF k < Len(CombineStages) THEN CombineStages[k + 1]
                  ELSE IF changed THEN CombineStages[1] ELSE "loops"
  /\ changed' = (changed /\ phase' # CombineStages[1])
  /\ UNCHANGED <<program, modes, body, loops_left, runVars>>

OptimizeLoop ==
  /\ phase = "loops"
  /\ \E l \in ByDepth(loops_left) :
       /\ body' = PerformTsanLicm(program, body, l)
       /\ loops_left' = IF RemovesCalls(program, body, l) THEN Loop ELSE loops_left \ {l}
  /\ UNCHANGED <<program, modes, phase, changed, runVars>>

Compiled ==
  /\ phase = "loops"
  /\ loops_left = {}
  /\ phase' = "run"
  /\ UNCHANGED <<program, modes, body, changed, loops_left, runVars>>

-----------------------------------------------------------------------------
(* The threads run the function.                                            *)

Running(t, op) == phase = "run" /\ at[t] \in Positions(body, op)
Finished(t) == phase = "run" /\ at[t] > Len(body)

\* Where q points when the loops are in the iterations v.
Address(q, v) ==
  program.pointer[q].off
    + MapThenSumSet(LAMBDA l : program.pointer[q].step[l] * v[l], Loop)

Bytes(t, item, address) ==
  {[barriers |-> barriers[t], kind |-> item.kind,
    area |-> program.pointer[item.ptr].area, byte |-> address + k] : k \in 0 .. item.size - 1}

\* Where the thread is in the static loops; only RacesFound looks at it.
StaticLoops == {l \in Loop : program.loop[l].schedule = "static"}
Chunk(t) == [l \in StaticLoops |-> value[t][l]]

Access(t) ==
  /\ Running(t, "access")
  /\ LET item == body[at[t]] IN
       executed' = [executed EXCEPT ![t] =
         @ \cup {[access |-> b, chunk |-> Chunk(t)] :
                   b \in Bytes(t, item, Address(item.ptr, value[t]))}]
  /\ at' = [at EXCEPT ![t] = @ + 1]
  /\ UNCHANGED <<program, modes, passVars, next_chunk, value, barriers, fired, reported>>

\* The iterations a range begins at: those at the start of its loop.
StartOf(t, item) ==
  [l \in Loop |-> IF l = item.from THEN 0 ELSE value[t][l]]

TsanCall(t) ==
  /\ Running(t, "tsan")
  /\ LET item == body[at[t]]
         address == Address(item.ptr, StartOf(t, item)) + item.shift
     IN  IF item.once /\ at[t] \in fired[t] THEN UNCHANGED <<fired, reported>>
         ELSE /\ reported' = [reported EXCEPT ![t] = @ \cup Bytes(t, item, address)]
              /\ fired' = [fired EXCEPT ![t] = IF item.once THEN @ \cup {at[t]} ELSE @]
  /\ at' = [at EXCEPT ![t] = @ + 1]
  /\ UNCHANGED <<program, modes, passVars, next_chunk, value, barriers, executed>>

\* The flags are set again before each call of __kmpc_dispatch_next.
FlagsAfter(flags, fns) == IF "__kmpc_dispatch_next" \in fns THEN {} ELSE flags

Call(t) ==
  /\ Running(t, "call")
  /\ LET fns == body[at[t]].fns IN
     /\ barriers' = [barriers EXCEPT ![t] =
          IF "__kmpc_barrier" \in Reach(program.callees, fns) THEN @ + 1 ELSE @]
     /\ fired' = [fired EXCEPT ![t] = FlagsAfter(@, fns)]
  /\ at' = [at EXCEPT ![t] = @ + 1]
  /\ UNCHANGED <<program, modes, passVars, next_chunk, value, executed, reported>>

ComputePointer(t) ==
  /\ Running(t, "gep")
  /\ at' = [at EXCEPT ![t] = @ + 1]
  /\ UNCHANGED <<program, modes, passVars, next_chunk, value, barriers, fired, executed, reported>>

\* The iterations of a loop; a loop over a chunk may find less than a full one.
Trips(t, l) ==
  LET loop == program.loop[l]
      before == MapThenSumSet(LAMBDA c : loop.count * value[t][c], loop.outer)
  IN  IF loop.of_chunk THEN Min({loop.count, loop.total - before}) ELSE loop.count

\* The loop goes on with iteration n, or ends.
Iterate(t, l, n) ==
  /\ value' = [value EXCEPT ![t][l] = IF n < Trips(t, l) THEN n ELSE 0]
  /\ at' = [at EXCEPT ![t] =
              (IF n < Trips(t, l) THEN LoopBegin(body, l) ELSE LoopEnd(body, l)) + 1]
  /\ next_chunk' = [next_chunk EXCEPT ![l] = IF program.loop[l].schedule = "dynamic"
                                               THEN @ + 1 ELSE @]
  /\ UNCHANGED <<program, modes, passVars, barriers, fired, executed, reported>>

EnterLoop(t) ==
  /\ Running(t, "loop")
  /\ LET l == body[at[t]].loop IN
       Iterate(t, l, CASE program.loop[l].schedule = "serial" -> 0
                       [] program.loop[l].schedule = "static" -> t
                       [] program.loop[l].schedule = "dynamic" -> next_chunk[l])

NextIteration(t) ==
  /\ Running(t, "end")
  /\ LET l == body[at[t]].loop IN
       Iterate(t, l, CASE program.loop[l].schedule = "serial" -> value[t][l] + 1
                       [] program.loop[l].schedule = "static" -> value[t][l] + Cardinality(Team)
                       [] program.loop[l].schedule = "dynamic" -> next_chunk[l])

Next ==
  \/ Combine \/ NextStage \/ OptimizeLoop \/ Compiled
  \/ \E t \in Team :
       Access(t) \/ TsanCall(t) \/ Call(t) \/ ComputePointer(t)
         \/ EnterLoop(t) \/ NextIteration(t)

Spec == Init /\ [][Next]_vars

-----------------------------------------------------------------------------
(* Properties                                                               *)

Accessed(t) == {e.access : e \in executed[t]}

Conflict(a, b) ==
  /\ a.barriers = b.barriers /\ a.area = b.area /\ a.byte = b.byte
  /\ "write" \in {a.kind, b.kind}

\* A static loop keeps the report of its first chunk only.
Sampled == \E i \in Positions(body, "tsan") :
             body[i].from # "" /\ program.loop[body[i].from].outer \cap StaticLoops # {}

\* "what is merged is still reported": between two barriers a thread reports all
\* that it accesses there, merged or behind a flag ("we flip a boolean on first use").
NothingLost ==
  ~ Sampled => \A t \in Team : Finished(t) => Accessed(t) \subseteq reported[t]

\* A range reports no byte that the thread does not access between the same
\* barriers: tsan would report races that do not exist.
NothingInvented ==
  \A t \in Team : Finished(t) => reported[t] \subseteq Accessed(t)

\* Less than a round of chunks apart: each thread of the team gets one chunk per round.
WithinRound(e, f) ==
  \A l \in StaticLoops : AbsInt(e.chunk[l] - f.chunk[l]) < Cardinality(Team)

RacesWithinRound(area) ==
  \E t, u \in Team : t # u /\ \E e \in executed[t], f \in executed[u] :
    Conflict(e.access, f.access) /\ e.access.area = area /\ WithinRound(e, f)
RacesReported(area) ==
  \E t, u \in Team : t # u /\ \E a \in reported[t], b \in reported[u] :
    Conflict(a, b) /\ a.area = area

\* The first chunks stand for the later ones ("we are reducing a[i] = a[i+1] to
\* a[0] = a[1]"): if threads race on an area, in any two chunks less than a round apart,
\* what they report has a race on that area.  A race of chunks a round or more apart may
\* be lost: Distant in MCTsanReduction, a[i] = a[i+7] with three threads.
RacesFound ==
  (\A t \in Team : Finished(t)) =>
    \A q \in DOMAIN program.pointer :
      LET area == program.pointer[q].area
      IN  RacesWithinRound(area) => RacesReported(area)

\* When structs are looked at, a pointer has one call of a kind in a segment
\* (assert(p2c.getSecond().size() == 1) in range_replace_struct).
OneCallPerPointer ==
  phase = "struct" =>
    \A segment \in Segments(program, body) :
      \A i, j \in segment :
        /\ body[i].ptr = body[j].ptr /\ body[i].kind = body[j].kind
        /\ program.pointer[body[i].ptr].kind = "gep"
        => i = j

PlainCalls(b) == {i \in Positions(b, "tsan") : ~ b[i].once}

\* combine_tsan_calls repeats its stages while something changes, and
\* processLoopsInFunc starts again after each range: both end, as each time fewer
\* calls are left that can be changed.
ReductionShrinks ==
  [][Combine \/ (OptimizeLoop /\ ~ (loops_left' \subseteq loops_left))
       => Cardinality(PlainCalls(body')) < Cardinality(PlainCalls(body))]_vars

=============================================================================
