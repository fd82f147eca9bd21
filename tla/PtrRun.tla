------------------------------- MODULE PtrRun -------------------------------
(***************************************************************************)
(* A run of the program after the analysis of its pointers: which store    *)
(* each load sees.  The run is external, it is what the slice has to       *)
(* reproduce; it says whether the infos stand for all addresses that may   *)
(* be the same.                                                            *)
(***************************************************************************)
EXTENDS PtrAnalysis

VARIABLES
  at,        \* position of the next instruction, 0 while the analysis runs
  address,   \* the address a pointer holds
  memory     \* per address, the last write to it and the pointer written

runVars == <<at, address, memory>>
vars == <<program, analysisVars, runVars>>

NoAddress == <<None, 0>>
Untouched == [by |-> None, pointer |-> NoAddress]

Cells(object) == {<<object, n>> : n \in 0 .. program.size[object] - 1}
Objects == {v \in Value : Op(v) = "object"}
Cell == UNION {Cells(v) : v \in Objects}

Init ==
  /\ program \in Programs
  /\ Start
  /\ at = 0
  /\ address = [p \in Pointer |-> IF Op(p) = "object" THEN <<p, 0>> ELSE NoAddress]
  /\ memory = [c \in Cell |-> Untouched]

Analyze ==
  /\ AnalysisStep
  /\ UNCHANGED <<program, runVars>>

StartRun ==
  /\ at = 0
  /\ Done
  /\ at' = 1
  /\ UNCHANGED <<program, analysisVars, address, memory>>

-----------------------------------------------------------------------------
(* One instruction.  An address outside of its object is undefined: the    *)
(* run does not go on.                                                     *)

Executes(ops) ==
  /\ at \in DOMAIN Code
  /\ Op(Code[at]) \in ops
  /\ at' \in {at + 1} \cup (IF program.loop # <<>> /\ at = program.loop[2]
                            THEN {program.loop[1]} ELSE {})
  /\ UNCHANGED <<program, analysisVars>>

Instr == Code[at]

\* The offsets of a GEP, where an index that is no constant has any value.
Offsets(idx, stride) ==
  LET sums[n \in 0 .. Len(idx)] ==
        IF n = 0 THEN {0}
        ELSE {s + i * stride[n] : s \in sums[n - 1],
                                  i \in IF idx[n] = Wildcard THEN 0 .. 2 ELSE {idx[n]}}
  IN  sums[Len(idx)]

RunGep ==
  /\ Executes({"gep"})
  /\ LET base == address[Arg(Instr)]
     IN  \E n \in Offsets(Desc(Instr).idx, Desc(Instr).stride) :
           /\ <<base[1], base[2] + n>> \in Cell
           /\ address' = [address EXCEPT ![Instr] = <<base[1], base[2] + n>>]
  /\ UNCHANGED memory

RunPhi ==
  /\ Executes({"phi"})
  /\ \E p \in Operands(Instr) :
       /\ address[p] \in Cell
       /\ address' = [address EXCEPT ![Instr] = address[p]]
  /\ UNCHANGED memory

RunLoad ==
  /\ Executes({"load"})
  /\ address[Arg(Instr)] \in Cell
  /\ address' = IF Instr \in Pointer
                THEN [address EXCEPT ![Instr] = memory[address[Arg(Instr)]].pointer]
                ELSE address
  /\ UNCHANGED memory

RunStore ==
  /\ Executes({"store"})
  /\ address[Arg(Instr)] \in Cell
  /\ LET stored == Desc(Instr).val
     IN  memory' = [memory EXCEPT ![address[Arg(Instr)]] =
                      [by |-> Instr, pointer |-> IF stored \in Pointer THEN address[stored]
                                                 ELSE NoAddress]]
  /\ UNCHANGED address

\* A call of the library reads and writes what it finds behind its argument.
CellsBehind(c) ==
  LET found[n \in 0 .. Cardinality(Objects)] ==
        IF n = 0 THEN Cells(address[c][1])
        ELSE UNION {{x} \cup (IF memory[x].pointer \in Cell THEN Cells(memory[x].pointer[1])
                              ELSE {}) : x \in found[n - 1]}
  IN  found[Cardinality(Objects)]

RunCall ==
  /\ Executes({"call"})
  /\ address[Arg(Instr)] \in Cell
  /\ \E c \in CellsBehind(Arg(Instr)) :
       memory' = IF Desc(Instr).writes THEN [memory EXCEPT ![c].by = Instr] ELSE memory
  /\ UNCHANGED address

RunPlain ==
  /\ Executes({"object", "plain"})
  /\ UNCHANGED <<address, memory>>

Run == RunGep \/ RunPhi \/ RunLoad \/ RunStore \/ RunCall \/ RunPlain

Next == Analyze \/ StartRun \/ Run
Spec == Init /\ [][Next]_vars

\* The analysis is a sequential computation that nothing suspends.
FairSpec == Spec /\ WF_vars(Analyze)

-----------------------------------------------------------------------------
(* Properties.                                                              *)

\* What the next instruction is going to read.
ReadNext ==
  IF at \notin DOMAIN Code THEN {}
  ELSE CASE Op(Instr) = "load" -> {address[Arg(Instr)]} \cap Cell
         [] Op(Instr) = "call" -> IF Desc(Instr).reads /\ address[Arg(Instr)] \in Cell
                                  THEN CellsBehind(Arg(Instr)) ELSE {}
         [] OTHER -> {}

\* "we need to include all 3: the ptr, the store, and the stored val": what an
\* instruction of the slice reads was written by an instruction of the slice, through
\* whatever members and pointers to pointers either of them gets there.
NoWriteLost ==
  at \in DOMAIN Code /\ Instr \in included
  => \A c \in ReadNext : memory[c].by \in included \cup {None}

\* "we need to combine all usages that match this wildcard": two ways from one address
\* to another one share an info, whether their indices are constants, as many as each
\* other, or of the array instead of its element.
MembersShareInfo ==
  at # 0 => \A g, h \in {v \in tainted_values : Op(v) = "gep"} :
              /\ address[Arg(g)] = address[Arg(h)]
              /\ address[g] = address[h]
              /\ address[g] \in Cell
              => InfoOf(g) = InfoOf(h)

\* The visits end, although each merge and each new member puts values back on the
\* worklist ("Possible endless loop visiting").
VisitsEnd == <>Done

=============================================================================
