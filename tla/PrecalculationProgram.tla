----------------------- MODULE PrecalculationProgram -----------------------
(***************************************************************************)
(* The LLVM module that the precalculation analysis reads: values, the     *)
(* functions they belong to, and the relations of the IR the analysis asks *)
(* about.  Nothing here changes while the analysis runs.                   *)
(*                                                                         *)
(* The kinds of value:                                                     *)
(*   constant   a constant or a global variable                            *)
(*   function   a function used as a value                                 *)
(*   plain      an instruction that only reads its operands: alloca,       *)
(*              arithmetic, compare, cast, branch, switch, ...             *)
(*   load, store, phi, select, ret                                         *)
(*   arg        a formal argument of a function                            *)
(*   call       a direct call of a function defined in the module          *)
(* Pointers point to data that holds no pointer.                           *)
(***************************************************************************)
EXTENDS Integers, Sequences, FiniteSets

CONSTANTS
  Function,          \* the functions defined in the module
  Value,             \* the values
  Kind,              \* [Value -> kind]
  Pointer,           \* the values of pointer type
  ParentOf,          \* [Value -> function of an instruction or an argument]
  Operands,          \* [Value -> SUBSET Value]
  PtrOperand,        \* [loads and stores -> pointer operand]
  CalledFunction,    \* [calls -> Function]
  ArgOperand,        \* [calls -> [formal argument -> actual operand]]
  ReadOnlyArg,       \* pointer arguments marked readonly, with no captures attribute
  ControlledBy,      \* [instructions -> terminators of the blocks before its block]
  EntryInst,         \* the instructions of the entry blocks
  ReachableFrom      \* [instruction -> instructions of its function it may reach]

Kinds == {"constant", "function", "plain", "load", "store", "phi", "select",
          "ret", "arg", "call"}

OfKind(k) == {v \in Value : Kind[v] = k}
Call == OfKind("call")
Inst == {v \in Value : Kind[v] \notin {"constant", "function", "arg"}}

ASSUME ProgramAssumption ==
  /\ Kind \in [Value -> Kinds]
  /\ Pointer \subseteq Value
  /\ \A v \in Value : Kind[v] # "constant" => ParentOf[v] \in Function
  /\ Operands \in [Value -> SUBSET Value]
  /\ \A v \in OfKind("load") \cup OfKind("store") :
       /\ v \notin Pointer
       /\ Operands[v] \cap Pointer = {PtrOperand[v]}
  /\ \A v \in OfKind("load") : Operands[v] = {PtrOperand[v]}
  /\ \A v \in OfKind("phi") \cap Pointer : Operands[v] \subseteq Pointer
  /\ \A v \in OfKind("select") \ Pointer : Operands[v] \cap Pointer = {}
  /\ CalledFunction \in [Call -> Function]
  /\ \A c \in Call : \A a \in OfKind("arg") :
       ParentOf[a] = CalledFunction[c] =>
         /\ ArgOperand[c][a] \in Operands[c]
         /\ ArgOperand[c][a] \in Pointer <=> a \in Pointer
  /\ \A c \in Call : \A r \in OfKind("ret") :
       ParentOf[r] = CalledFunction[c] /\ Operands[r] \cap Pointer # {} => c \in Pointer
  /\ ReadOnlyArg \subseteq OfKind("arg") \cap Pointer
  /\ ControlledBy \in [Inst -> SUBSET Inst]
  /\ EntryInst \subseteq Inst
  /\ ReachableFrom \in [Inst -> SUBSET Inst]

\* A store yields no value and is no terminator.
ASSUME StoreAssumption ==
  /\ \A v \in Value : Operands[v] \cap OfKind("store") = {}
  /\ \A i \in Inst : ControlledBy[i] \cap OfKind("store") = {}

FormalArgs(f) == {a \in OfKind("arg") : ParentOf[a] = f}
ReturnsOf(f) == {r \in OfKind("ret") : ParentOf[r] = f}

\* All call sites that can call f.
Callsites(f) == {c \in Call : CalledFunction[c] = f}

\* The users of a value.
Users(v) == {u \in Value : v \in Operands[u]}

-----------------------------------------------------------------------------
(* The call graph.                                                         *)

CallsFrom(f) == {c \in Call : ParentOf[c] = f}

\* The functions a function may reach through calls, itself included: the call
\* chains one call longer, as often as there are functions.
CalleesWithin ==
  LET reach[n \in 0 .. Cardinality(Function)] ==
        IF n = 0 THEN [f \in Function |-> {f}]
        ELSE LET shorter == reach[n - 1]
             IN  [f \in Function |->
                    shorter[f] \cup
                    UNION {shorter[CalledFunction[c]] : c \in CallsFrom(f)}]
  IN  [f \in Function |-> reach[Cardinality(Function)][f] \cap Function]

\* "if an instruction in foo is included in the set: the resulting set will
\* also include all calls to foo"
TransitiveInsts ==
  [i \in Inst |->
     {i} \cup {c \in Call : ParentOf[i] \in CalleesWithin[CalledFunction[c]]}]

=============================================================================
