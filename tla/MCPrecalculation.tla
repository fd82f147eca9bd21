--------------------------- MODULE MCPrecalculation ---------------------------
(***************************************************************************)
(* The constants of PrecalculationProgram, read off the programs of a run: *)
(* every name in a program is paired with the number of the program.       *)
(***************************************************************************)
EXTENDS MCPrograms, PrecalculationSlice

Number == DOMAIN Programs

\* The names of program n; <<n, x>> stands for its name x.
Named(n, names) == {<<n, x>> : x \in names}
AllNamed(NamesOf(_)) == UNION {Named(n, NamesOf(Programs[n])) : n \in Number}

\* What a table of each program says of the names in S.
OfPrograms(S, Table(_)) ==
  LET tables == [n \in Number |-> Table(Programs[n])]
  IN  [v \in S |-> tables[v[1]][v[2]]]
NamedOfPrograms(S, Table(_)) ==
  LET tables == [n \in Number |-> Table(Programs[n])]
  IN  [v \in S |-> Named(v[1], tables[v[1]][v[2]])]

-----------------------------------------------------------------------------
(* One program P.                                                          *)

InBlock(P, b) == LET code == P.blocks[b].code IN {code[k] : k \in DOMAIN code}
InBlocks(P) == UNION {InBlock(P, b) : b \in DOMAIN P.blocks}
BlocksOf(P) ==
  [x \in InBlocks(P) |-> CHOOSE b \in DOMAIN P.blocks : x \in InBlock(P, b)]
Terminator(P, b) == LET code == P.blocks[b].code IN code[Len(code)]

\* The blocks control may reach from the end of a block.
After(P) ==
  LET reach[k \in 0 .. Cardinality(DOMAIN P.blocks)] ==
        IF k = 0 THEN [b \in DOMAIN P.blocks |-> P.blocks[b].succ]
        ELSE LET shorter == reach[k - 1]
             IN  [b \in DOMAIN P.blocks |->
                    shorter[b] \cup UNION {P.blocks[x].succ : x \in shorter[b]}]
  IN  reach[Cardinality(DOMAIN P.blocks)]

\* The instructions an instruction may reach: those of the blocks after its
\* own, and the later ones of its own.
Reached(P) ==
  LET after == After(P)
      block == BlocksOf(P)
  IN  [x \in InBlocks(P) |->
         UNION {InBlock(P, b) : b \in after[block[x]]}
         \cup LET code == P.blocks[block[x]].code
              IN  {code[k] : k \in {j \in DOMAIN code : \E i \in 1 .. j - 1 : code[i] = x}}]

Controlling(P) ==
  [x \in InBlocks(P) |->
     {Terminator(P, b) :
        b \in {y \in DOMAIN P.blocks : BlocksOf(P)[x] \in P.blocks[y].succ}}]

FunctionOf(P) ==
  [x \in DOMAIN P.values |->
     IF x \in InBlocks(P) THEN P.blocks[BlocksOf(P)[x]].fn ELSE P.values[x].fn]

-----------------------------------------------------------------------------
(* All of them.                                                            *)

Insts == AllNamed(InBlocks)
Names(P) == DOMAIN P.values
Values == AllNamed(Names)
Descs == LET values(P) == P.values IN OfPrograms(Values, values)
OfKinds(kinds) == LET descs == Descs IN {v \in DOMAIN descs : descs[v].kind \in kinds}
Mem(S) == LET descs == Descs IN [v \in S |-> <<v[1], descs[v].mem>>]

MCFunction == LET functions(P) == {P.blocks[b].fn : b \in DOMAIN P.blocks}
              IN  AllNamed(functions)
MCValue == LET values == Values IN values
MCKind == LET kinds(P) == [x \in Names(P) |-> P.values[x].kind]
          IN  OfPrograms(Values, kinds)
MCPointer == LET descs == Descs IN {v \in DOMAIN descs : descs[v].ptr}
MCParentOf == LET fn == OfPrograms(Values, FunctionOf)
              IN  [v \in DOMAIN fn |-> <<v[1], fn[v]>>]
MCOperands == LET operands(P) == [x \in Names(P) |-> P.values[x].ops]
              IN  NamedOfPrograms(Values, operands)
MCPtrOperand == LET accesses == OfKinds({"load", "store"}) IN Mem(accesses)
MCCalledFunction == LET calls == OfKinds({"call"}) IN Mem(calls)
MCArgOperand ==
  LET descs == Descs
  IN  [c \in OfKinds({"call"}) |->
         [a \in Named(c[1], DOMAIN descs[c].args) |-> <<c[1], descs[c].args[a[2]]>>]]
MCReadOnlyArg == LET descs == Descs IN {v \in DOMAIN descs : descs[v].readonly}
MCControlledBy == LET insts == Insts IN NamedOfPrograms(insts, Controlling)
MCEntryInst ==
  LET entries(P) == {b \in DOMAIN P.blocks : P.blocks[b].entry}
      ofEntries(P) == UNION {InBlock(P, b) : b \in entries(P)}
  IN  AllNamed(ofEntries)
MCReachableFrom == LET insts == Insts IN NamedOfPrograms(insts, Reached)

RequestOf(n) == [value |-> Named(n, Programs[n].request), cfg |-> Named(n, Programs[n].cfg)]
MCRequests == LET requests == {RequestOf(n) : n \in Number} IN requests

-----------------------------------------------------------------------------
\* "the order of visiting the values should make no difference": every order
\* computes the slice the program should get.
SliceIndependentOfOrder ==
  Done => \A n \in Number :
            request = RequestOf(n) => included = Named(n, Programs[n].slice)

=============================================================================
