---------------------------- MODULE MCTsanReduction ----------------------------
(***************************************************************************)
(* Small functions for TLC, run by three threads.  One unit of size is the   *)
(* size of an int.  Each access has its tsan call in front of it, as the   *)
(* instrumentation of LLVM puts it.                                        *)
(***************************************************************************)
EXTENDS TsanReduction, TLC

MCTeam == {0, 1, 2}

MCCallees ==
  [f \in {"helper", "barrier_in_helper", "recursive"} |->
     CASE f = "helper" -> {"omp_get_thread_num", "recursive"}
       [] f = "recursive" -> {"recursive", "helper"}
       [] f = "barrier_in_helper" -> {"recursive", "__kmpc_barrier"}]

\* Struct layouts.
Plain(off) == [off |-> off, kind |-> "plain", inner |-> ""]
Pointer(off) == [off |-> off, kind |-> "pointer", inner |-> ""]
Nested(off, name) == [off |-> off, kind |-> "struct", inner |-> name]

MCStruct ==
  [s \in {"ints", "four", "five", "nested", "pair"} |->
     CASE s = "ints" -> [size |-> 3, members |-> <<Plain(0), Plain(1), Plain(2)>>]
       [] s = "four" -> [size |-> 4, members |-> <<Plain(0), Pointer(1), Plain(2), Plain(3)>>]
       [] s = "five" -> [size |-> 5,
                         members |-> <<Plain(0), Plain(1), Plain(2), Plain(3), Plain(4)>>]
       [] s = "nested" -> [size |-> 3, members |-> <<Plain(0), Nested(1, "pair")>>]
       [] s = "pair" -> [size |-> 2, members |-> <<Plain(0), Plain(1)>>]]

\* Pointers.
MCLoop == {"chunks", "iter", "outer", "sync"}
Still == [l \in MCLoop |-> 0]
Base(kind, area) ==
  [parent |-> {}, kind |-> kind, struct |-> "", constant |-> FALSE, area |-> area,
   off |-> 0, align |-> 1, step |-> Still]
Gep(parent, area, off) ==
  [Base("gep", area) EXCEPT !.parent = {parent}, !.off = off]
StructGep(parent, area, off, struct) == [Gep(parent, area, off) EXCEPT !.struct = struct]
Member(parent, area, off) == [Gep(parent, area, off) EXCEPT !.constant = TRUE]
Moving(pointer, step) == [pointer EXCEPT !.step = step @@ Still]

\* Items.
G(q) == [op |-> "gep", ptr |-> q]
Reads(q) == <<[RangeCall("read", q, 1) EXCEPT !.unaligned = FALSE],
              [op |-> "access", kind |-> "read", ptr |-> q, size |-> 1]>>
Writes(q) == <<RangeCall("write", q, 1), [op |-> "access", kind |-> "write", ptr |-> q, size |-> 1]>>
Unaligned(q) == <<[RangeCall("write", q, 1) EXCEPT !.unaligned = TRUE],
                  [op |-> "access", kind |-> "write", ptr |-> q, size |-> 1]>>
C(f) == <<[op |-> "call", fns |-> {f}]>>
Begin(l) == <<[op |-> "loop", loop |-> l]>>
End(l) == <<[op |-> "end", loop |-> l]>>

\* Loops.
Serial(outer, count) ==
  [outer |-> outer, schedule |-> "serial", count |-> count, of_chunk |-> FALSE, total |-> 0]
Chunks(schedule, count) ==
  [outer |-> {}, schedule |-> schedule, count |-> count, of_chunk |-> FALSE, total |-> 0]
OfChunk(count, total) ==
  [outer |-> {"chunks"}, schedule |-> "serial", count |-> count, of_chunk |-> TRUE, total |-> total]

Function_(items, pointer, loop, chunk) ==
  [body |-> items, pointer |-> pointer, loop |-> loop, chunk |-> chunk,
   struct |-> MCStruct, callees |-> MCCallees]
Straight(items, pointer) == Function_(items, pointer, [l \in {} |-> 0], 0)

-----------------------------------------------------------------------------
(* members: three members in one segment, two of them again behind a helper *)
(* that asks for the thread number, and behind one that has a barrier.      *)
Members == Straight(
  <<G("a"), G("b"), G("c")>> \o Writes("a") \o Writes("c") \o C("helper") \o Writes("b")
    \o Writes("a") \o Reads("g") \o C("barrier_in_helper")
    \o <<G("a2"), G("b2")>> \o Writes("b2") \o Reads("g") \o Writes("a2"),
  "g" :> Base("global", "g") @@ "s" :> Base("argument", "s") @@ "a" :> StructGep("s", "s", 0, "ints")
    @@ "b" :> Member("a", "s", 1) @@ "c" :> Member("a", "s", 2)
    @@ "a2" :> StructGep("s", "s", 0, "ints") @@ "b2" :> Member("a2", "s", 1))

(* inner: a member and the first one of the struct behind it; another struct *)
(* with a gap before its last member.                                        *)
Inner == Straight(
  <<G("a"), G("x")>> \o Writes("x") \o Writes("a")
    \o <<G("d"), G("e"), G("h")>> \o Reads("h") \o Reads("d") \o Unaligned("d") \o Reads("e"),
  "s" :> Base("argument", "s") @@ "a" :> StructGep("s", "s", 0, "nested")
    @@ "x" :> Member("a", "s", 1)
    @@ "d" :> StructGep("s", "s", 3, "five") @@ "e" :> Member("d", "s", 4)
    @@ "h" :> Member("d", "s", 7))

(* array: elements i, i+1, i+3, i+4 and k of an array, a global.             *)
Array == Straight(
  <<G("i0"), G("i1"), G("i3"), G("i4"), G("k")>>
    \o Writes("i4") \o Reads("i0") \o Writes("k") \o Writes("i3") \o Writes("i0")
    \o Writes("i1") \o Writes("g") \o Reads("g") \o Writes("g"),
  "v" :> Base("argument", "v") @@ "g" :> Base("global", "g")
    @@ "i0" :> Gep("v", "i", 0) @@ "i1" :> Gep("v", "i", 1) @@ "i3" :> Gep("v", "i", 3)
    @@ "i4" :> Gep("v", "i", 4) @@ "k" :> Gep("v", "k", 0))

(* invariant: a global read in each iteration of a loop over dynamic chunks, *)
(* an element written.                                                       *)
Invariant == Function_(
  Begin("chunks") \o C("__kmpc_dispatch_next") \o Begin("iter") \o <<G("e")>>
    \o Reads("g") \o Writes("e") \o End("iter") \o End("chunks"),
  "g" :> Base("global", "g") @@ "v" :> Base("argument", "v")
    @@ "e" :> Moving(Gep("v", "v", 0), "chunks" :> 2 @@ "iter" :> 1),
  "chunks" :> Chunks("dynamic", 2) @@ "iter" :> OfChunk(2, 4), 1)

(* nest: a loop around another one, with a barrier in a function it calls;   *)
(* the element is the same in all iterations of the inner loop only.         *)
Nest == Function_(
  Begin("outer") \o <<G("r")>> \o Begin("iter") \o Reads("g") \o End("iter") \o Writes("r")
    \o C("helper") \o End("outer") \o C("barrier_in_helper")
    \o Begin("sync") \o <<G("u")>> \o Writes("u") \o C("barrier_in_helper") \o End("sync"),
  "g" :> Base("global", "g") @@ "v" :> Base("argument", "v")
    @@ "r" :> Moving(Gep("v", "v", 0), "outer" :> 1) @@ "u" :> Moving(Gep("v", "v", 0), "sync" :> 1),
  "outer" :> Serial({}, 2) @@ "iter" :> Serial({"outer"}, 2) @@ "sync" :> Serial({}, 2), 2)

(* elements: both members of the structs of an array, in chunks of two.      *)
Elements == Function_(
  Begin("chunks") \o Begin("iter") \o <<G("e"), G("f")>>
    \o Writes("f") \o Writes("e") \o End("iter") \o End("chunks"),
  "v" :> Base("argument", "v")
    @@ "e" :> Moving(StructGep("v", "v", 0, "pair"), "chunks" :> 4 @@ "iter" :> 2)
    @@ "f" :> Moving(Member("e", "v", 1), "chunks" :> 4 @@ "iter" :> 2),
  "chunks" :> Chunks("static", 2) @@ "iter" :> OfChunk(2, 4), 2)

\* a[i] = a[i + distance] in chunks of two.
Dependence(schedule, head, chunks, total, distance) == Function_(
  Begin("chunks") \o head \o Begin("iter") \o <<G("e"), G("f")>>
    \o Reads("f") \o Writes("e") \o End("iter") \o End("chunks"),
  "v" :> Base("argument", "v")
    @@ "e" :> Moving(Gep("v", "v", 0), "chunks" :> 2 @@ "iter" :> 1)
    @@ "f" :> Moving(Gep("v", "v", distance), "chunks" :> 2 @@ "iter" :> 1),
  "chunks" :> Chunks(schedule, chunks) @@ "iter" :> OfChunk(2, total), 2)

(* Neighbouring chunks race; the last one is not full in LastHalf.            *)
AntiStatic == Dependence("static", <<>>, 3, 6, 1)
AntiDynamic == Dependence("dynamic", C("__kmpc_dispatch_next"), 3, 6, 1)
LastHalf == Dependence("static", <<>>, 4, 7, 1)

(* With three threads: chunks two apart meet in one element; a chunk meets     *)
(* one of its own thread; chunks four apart meet, but no first ones.           *)
OneElement == Dependence("static", <<>>, 3, 6, 5)
ForcedThreadCount == Dependence("static", <<>>, 4, 8, 6)
Distant == Dependence("static", <<>>, 5, 10, 7)

(* a[i] = a[i-1] downwards.                                                   *)
Descending == Function_(
  Begin("chunks") \o Begin("iter") \o <<G("e"), G("f")>>
    \o Reads("f") \o Writes("e") \o End("iter") \o End("chunks"),
  "v" :> Base("argument", "v")
    @@ "e" :> Moving(Gep("v", "v", 9), "chunks" :> -2 @@ "iter" :> -1)
    @@ "f" :> Moving(Gep("v", "v", 8), "chunks" :> -2 @@ "iter" :> -1),
  "chunks" :> Chunks("static", 2) @@ "iter" :> OfChunk(2, 4), 2)

(* before: the members are computed in front of a barrier.                    *)
Before == Straight(
  <<G("a"), G("b")>> \o Writes("a") \o Writes("b") \o C("__kmpc_barrier")
    \o Writes("a") \o Writes("b"),
  "s" :> Base("argument", "s") @@ "a" :> StructGep("s", "s", 0, "ints")
    @@ "b" :> Member("a", "s", 1))

(* beside: the members on both sides of a pointer.                            *)
Beside == Straight(
  <<G("a"), G("p"), G("c"), G("d")>> \o Writes("a") \o Writes("p") \o Writes("c") \o Writes("d"),
  "s" :> Base("argument", "s") @@ "a" :> StructGep("s", "s", 0, "four")
    @@ "p" :> Member("a", "s", 1) @@ "c" :> Member("a", "s", 2) @@ "d" :> Member("a", "s", 3))

(* row: what the inner loop writes differs from one outer iteration to the next. *)
Row == Function_(
  Begin("outer") \o <<G("r")>> \o Begin("iter") \o Writes("r") \o End("iter") \o End("outer"),
  "v" :> Base("argument", "v") @@ "r" :> Moving(Gep("v", "v", 0), "outer" :> 1),
  "outer" :> Serial({}, 2) @@ "iter" :> Serial({"outer"}, 2), 0)

(* gap: the member in the middle is not accessed.                             *)
Gap == Straight(
  <<G("a"), G("b"), G("d"), G("e")>> \o Writes("a") \o Writes("b") \o Writes("d") \o Writes("e"),
  "s" :> Base("argument", "s") @@ "a" :> StructGep("s", "s", 0, "five")
    @@ "b" :> Member("a", "s", 1) @@ "d" :> Member("a", "s", 3) @@ "e" :> Member("a", "s", 4))

(* partial: the last chunk has one iteration.                                 *)
Partial == Function_(
  Begin("chunks") \o Begin("iter") \o <<G("e")>> \o Writes("e") \o End("iter") \o End("chunks"),
  "v" :> Base("argument", "v")
    @@ "e" :> Moving(Gep("v", "v", 0), "chunks" :> 2 @@ "iter" :> 1),
  "chunks" :> Chunks("static", 2) @@ "iter" :> OfChunk(2, 3), 2)

CheckedFunctions ==
  {Members, Inner, Array, Invariant, Nest, Elements, AntiStatic, AntiDynamic,
   LastHalf, OneElement, ForcedThreadCount, Distant, Descending}

JustBefore == {Before}
JustBeside == {Beside}
JustRow == {Row}
JustGap == {Gap}
JustPartial == {Partial}
JustDistant == {Distant}

\* No race is lost, however far apart its chunks are.  The passes do not promise this:
\* it does not hold for Distant (loop_optimize.cpp:250, "only first iteration of chunk range").
EveryRaceFound ==
  (\A t \in Team : Finished(t)) =>
    \A t, u \in Team : t # u =>
      \A e \in executed[t], f \in executed[u] :
        Conflict(e.access, f.access) => RacesReported(e.access.area)

=============================================================================
