------------------------------ MODULE MCPtrRun ------------------------------
(***************************************************************************)
(* Small programs for PtrRun: the infos are found in any order of the      *)
(* visits, then the program runs.  MCPrograms has the ones all properties  *)
(* hold for, each of the others is one for which one does not.             *)
(***************************************************************************)
EXTENDS PtrRun

MCTypes ==
  [Pair |-> [kind |-> "struct", size |-> 2, element |-> None],
   Int  |-> [kind |-> "scalar", size |-> 1, element |-> None],
   Ints |-> [kind |-> "array", size |-> 4, element |-> "Int"],
   Grid |-> [kind |-> "array", size |-> 2, element |-> "Int"],
   Byte |-> [kind |-> "void", size |-> 1, element |-> None]]

Plain(op, ops) ==
  [op |-> op, is_pointer |-> FALSE, ptr |-> None, val |-> None, operands |-> ops,
   idx |-> <<>>, stride |-> <<>>, type |-> None, reads |-> FALSE, writes |-> FALSE]
Value_(ops) == Plain("plain", ops)
Object == [Plain("object", {}) EXCEPT !.is_pointer = TRUE]
Phi(ops) == [Plain("phi", ops) EXCEPT !.is_pointer = TRUE]
Load(p) == [Plain("load", {}) EXCEPT !.ptr = p]
LoadPtr(p) == [Load(p) EXCEPT !.is_pointer = TRUE]
Store(p, v) == [Plain("store", {}) EXCEPT !.ptr = p, !.val = v]
Gep(p, t, i, s) ==
  [Plain("gep", {}) EXCEPT !.is_pointer = TRUE, !.ptr = p, !.type = t, !.idx = i, !.stride = s]
Field(p, n) == Gep(p, "Pair", <<0, n>>, <<2, 1>>)
Element(p, n) == Gep(p, "Int", <<n>>, <<1>>)
Unknown == Wildcard
Item(p, n) == Gep(p, "Ints", <<0, n>>, <<4, 1>>)
Reads(p) == [Plain("call", {}) EXCEPT !.ptr = p, !.reads = TRUE]

Writes(p) == [Plain("call", {}) EXCEPT !.ptr = p, !.writes = TRUE]

\* Two pairs behind a phi: a field of one is read, both fields of each are written.
Fields ==
  [value |-> [a |-> Object, b |-> Object, k |-> Value_({}), p |-> Phi({"a", "b"}),
              a0 |-> Store("a", "k"), ga |-> Field("a", 1), a1 |-> Store("ga", "k"),
              gb |-> Field("b", 1), b1 |-> Store("gb", "k"),
              gp |-> Field("p", 1), l |-> Load("gp"), r |-> Value_({"l"})],
   code |-> <<"a", "b", "k", "a0", "ga", "a1", "gb", "b1", "p", "gp", "l", "r">>,
   loop |-> <<>>, request |-> {"r"}, size |-> [a |-> 2, b |-> 2]]

\* Any element is read first, so a constant index matches it.
Elements ==
  [value |-> [a |-> Object, b |-> Object, k |-> Value_({}), p |-> Phi({"a", "b"}),
              ga |-> Element("a", 1), a1 |-> Store("ga", "k"),
              gb |-> Element("b", 2), b2 |-> Store("gb", "k"),
              i |-> Value_({}), gp |-> [Element("p", Unknown) EXCEPT !.operands = {"i"}],
              l |-> Load("gp"), r |-> Value_({"l"})],
   code |-> <<"a", "b", "k", "ga", "a1", "gb", "b2", "p", "i", "gp", "l", "r">>,
   loop |-> <<>>, request |-> {"r"}, size |-> [a |-> 3, b |-> 3]]

\* The items of an array, by their number in the array and as integers.
Items ==
  [value |-> [a |-> Object, k |-> Value_({}), ga |-> Item("a", 1), s |-> Store("ga", "k"),
              e |-> Element("a", 1), t |-> Store("e", "k"), m |-> Load("ga"),
              u |-> Element("a", 1), l |-> Load("u"), r |-> Value_({"m", "l"})],
   code |-> <<"a", "k", "e", "t", "ga", "m", "s", "u", "l", "r">>,
   loop |-> <<>>, request |-> {"r"}, size |-> [a |-> 4]]

\* A constant index is known first, the program then uses any.
Widened ==
  [value |-> [a |-> Object, b |-> Object, k |-> Value_({}), p |-> Phi({"a", "b"}),
              gb |-> Element("b", 2), b2 |-> Store("gb", "k"),
              i |-> Value_({}), g0 |-> Element("p", 1), l0 |-> Load("g0"),
              gp |-> [Element("p", Unknown) EXCEPT !.operands = {"i"}],
              l |-> Load("gp"), r |-> Value_({"l", "l0"})],
   code |-> <<"a", "b", "k", "gb", "b2", "p", "i", "g0", "l0", "gp", "l", "r">>,
   loop |-> <<>>, request |-> {"r"}, size |-> [a |-> 3, b |-> 3]]

\* A list of two nodes: the second one is reached through the pointer of the first.
List ==
  [value |-> [a |-> Object, b |-> Object, k |-> Value_({}), ga |-> Field("a", 1),
              s |-> Store("ga", "b"), gb |-> Field("b", 0), w |-> Store("gb", "k"),
              p |-> Phi({"a", "n"}), gp |-> Field("p", 0), l |-> Load("gp"),
              gn |-> Field("p", 1), n |-> LoadPtr("gn"), r |-> Value_({"l"})],
   code |-> <<"a", "b", "k", "ga", "s", "gb", "w", "p", "gp", "l", "gn", "n", "r">>,
   loop |-> <<8, 12>>, request |-> {"r"}, size |-> [a |-> 2, b |-> 2]]

\* The library writes a pair whose fields are read.
Filled ==
  [value |-> [a |-> Object, c |-> Writes("a"), g |-> Field("a", 1), l |-> Load("g"),
              r |-> Value_({"l"})],
   code |-> <<"a", "c", "g", "l", "r">>,
   loop |-> <<>>, request |-> {"r"}, size |-> [a |-> 2]]

\* The library reads all behind p, the program a field of one of its objects.
Whole ==
  [value |-> [a |-> Object, b |-> Object, k |-> Value_({}), p |-> Phi({"a", "b"}),
              ga |-> Field("a", 1), w |-> Store("ga", "k"), l |-> Load("ga"),
              c |-> Reads("p"), r |-> Value_({"l", "c"})],
   code |-> <<"a", "b", "k", "ga", "w", "l", "p", "c", "r">>,
   loop |-> <<>>, request |-> {"r"}, size |-> [a |-> 2, b |-> 2]]

\* A pointer is stored and loaded twice; what is written through the second one is read
\* through the first one and by the library.
Handed ==
  [value |-> [a |-> Object, b |-> Object, k |-> Value_({}), s |-> Store("a", "b"),
              q |-> LoadPtr("a"), w |-> Store("q", "k"),
              p |-> LoadPtr("a"), same |-> Value_({"p"}), l |-> Load("p"),
              c |-> Reads("a"), r |-> Value_({"l", "c", "same"})],
   code |-> <<"a", "b", "k", "s", "q", "w", "p", "same", "l", "c", "r">>,
   loop |-> <<>>, request |-> {"r"}, size |-> [a |-> 1, b |-> 1]]

\* A pointer and an element behind it become one group; an object that is written later
\* joins it when the group is complete.
Steps ==
  [value |-> [a |-> Object, b |-> Object, k |-> Value_({}), g |-> Element("a", 1),
              w |-> Store("g", "k"), p |-> Phi({"a", "g"}), x |-> Phi({"p", "b"}),
              f |-> Load("b"), t |-> Store("b", "k"), m |-> Load("g"), l |-> Load("p"),
              n |-> Load("x"), z |-> Value_({"n"}), r |-> Value_({"m", "l", "f", "z"})],
   code |-> <<"a", "b", "k", "f", "t", "g", "w", "p", "x", "m", "l", "n", "z", "r">>,
   loop |-> <<>>, request |-> {"r"}, size |-> [a |-> 2, b |-> 1]]

MCPrograms == {Fields, Elements, Items, Widened, List, Filled, Whole, Handed, Steps}

-----------------------------------------------------------------------------
\* As in Handed, but a field is written and read.
Reloaded ==
  [value |-> [a |-> Object, b |-> Object, k |-> Value_({}), s |-> Store("a", "b"),
              p |-> LoadPtr("a"), gp |-> Field("p", 1), w |-> Store("gp", "k"),
              q |-> LoadPtr("a"), gq |-> Field("q", 1), l |-> Load("gq"), r |-> Value_({"l"})],
   code |-> <<"a", "b", "k", "s", "p", "gp", "w", "q", "gq", "l", "r">>,
   loop |-> <<>>, request |-> {"r"}, size |-> [a |-> 1, b |-> 2]]

\* The library reads a field of what its argument points to: nothing else does.
Hidden ==
  [value |-> [a |-> Object, b |-> Object, k |-> Value_({}), s |-> Store("a", "b"),
              gb |-> Field("b", 1), w |-> Store("gb", "k"), c |-> Reads("a"),
              r |-> Value_({"c"})],
   code |-> <<"a", "b", "k", "s", "gb", "w", "c", "r">>,
   loop |-> <<>>, request |-> {"r"}, size |-> [a |-> 1, b |-> 2]]

\* The first step of an iterator is a GEP of constant index: it adds no member, so an
\* item that is written by its number is not one.
Iterated ==
  [value |-> [a |-> Object, k |-> Value_({}), ga |-> Item("a", 2), s |-> Store("ga", "k"),
              e |-> Element("a", 1), t |-> Store("e", "k"),
              p |-> Phi({"a", "n"}), l |-> Load("p"), n |-> Element("p", 1),
              r |-> Value_({"l"})],
   code |-> <<"a", "k", "ga", "s", "e", "t", "p", "l", "n", "r">>,
   loop |-> <<7, 9>>, request |-> {"r"}, size |-> [a |-> 4]]

\* A field is accessed by its bytes.
Bytes ==
  [value |-> [a |-> Object, k |-> Value_({}), g |-> Gep("a", "Byte", <<1>>, <<1>>),
              w |-> Store("g", "k"), h |-> Field("a", 1), l |-> Load("h"), r |-> Value_({"l"})],
   code |-> <<"a", "k", "g", "w", "h", "l", "r">>,
   loop |-> <<>>, request |-> {"r"}, size |-> [a |-> 2]]

\* The unknown index is found a round later: the wider member is not propagated.
WidenedLate ==
  [Widened EXCEPT !.value = [v \in DOMAIN Widened.value \cup {"x", "y"} |->
     IF v = "x" THEN Value_({"y"}) ELSE IF v = "y" THEN Value_({"l"})
     ELSE IF v = "r" THEN Value_({"l0", "x"}) ELSE Widened.value[v]],
   !.code = <<"a", "b", "k", "gb", "b2", "p", "i", "g0", "l0", "gp", "l", "y", "x", "r">>]
\* One index unknown in the last place, then the first one: two members match.
Wildcards ==
  [value |-> [a |-> Object, b |-> Object, k |-> Value_({}), i |-> Value_({}), p |-> Phi({"a", "b"}),
              ga |-> [Gep("a", "Grid", <<0, Unknown>>, <<2, 1>>) EXCEPT !.operands = {"i"}],
              a1 |-> Store("ga", "k"),
              gb |-> [Gep("p", "Grid", <<1, Unknown>>, <<2, 1>>) EXCEPT !.operands = {"i"}],
              b1 |-> Store("gb", "k"),
              la |-> Load("ga"), lb |-> Load("gb"),
              g |-> [Gep("p", "Grid", <<Unknown, 0>>, <<2, 1>>) EXCEPT !.operands = {"i"}],
              l |-> Load("g"), x |-> Value_({"l"}), y |-> Value_({"x"}), r |-> Value_({"la", "lb", "y"})],
   code |-> <<"a", "b", "k", "p", "i", "ga", "a1", "gb", "b1", "la", "lb", "g", "l", "x", "y", "r">>,
   loop |-> <<>>, request |-> {"r"}, size |-> [a |-> 4, b |-> 4]]
JustWidenedLate == {WidenedLate}
JustReloaded == {Reloaded}
JustHidden == {Hidden}
JustIterated == {Iterated}
JustBytes == {Bytes}
JustWildcards == {Wildcards}
JustFields == {Fields}
JustElements == {Elements}
JustItems == {Items}
JustWidened == {Widened}
JustList == {List}
JustFilled == {Filled}
JustSteps == {Steps}
JustWhole == {Whole}
JustHanded == {Handed}

=============================================================================
