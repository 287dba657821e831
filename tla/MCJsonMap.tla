----------------------------- MODULE MCJsonMap -----------------------------
(***************************************************************************)
(* JsonContents with three threads: one that copies and dumps the first    *)
(* map, one that writes it, and one that reads. "good" stands for the      *)
(* samples of each kind of value that Set accepts, "bad" for those that it *)
(* refuses.                                                                *)
(***************************************************************************)
EXTENDS JsonContents, FiniteSets, TLC

CONSTANTS t1, t2, t3, m1, m2, good, bad, odd, ill, worse, mark

-----------------------------------------------------------------------------
(* The samples: at the bounds of each type, and of what floats can tell.   *)

Number(k, n) == Scalar(Type(k), n)

ScalarSamples ==
  {Number("int", n) : n \in {MinInt, -1, 5, Pow2[Double] + 1, MaxInt}}
    \cup {Number("int8", n) : n \in {-Pow2[Narrow - 1], Pow2[Narrow - 1] - 1}}
    \cup {Number("uint", n) : n \in {0, Pow2[Double] + 1, MaxInt + 1, MaxUint}}
    \cup {Number("uint8", Pow2[Narrow] - 1)}
    \cup {Number("float64", n) : n \in {-3 * One, (MaxInt + 1) * One, (MaxUint + 1) * One}}
    \cup {Number("float64", n) : n \in {2 * One + 1, -One - 1, -1}}
    \cup {Number("float32", n) : n \in {Pow2[Single] - 1, (MaxInt + 1) * One, -One - 1}}
    \cup {Number("float64", NaN), Number("float32", NaN), Number("bool", 1),
          Number("string", 1), Number("string", ill), Scalar([kind |-> "string", named |-> TRUE], 1)}

Slice(T, s) == Container(ListOf("slice", T), s)
Mapped(T, f) == Container(MapOf("string", T), f)
PointerTo(T, v) == Container(ListOf("ptr", T), <<v>>)
Whole(n) == Number("int", n)

\* v in the containers of its type, and in those of any type.
Boxed(v) ==
  {Slice(v.t, <<v, v>>), Slice(Untyped, <<v, Nil>>),
   Mapped(v.t, "k" :> v), Mapped(Untyped, "k" :> v),
   PointerTo(v.t, v), PointerTo(Untyped, v), Container(ArrayOf(1, v.t), <<v>>)}

Odd ==
  {Nil, Container(ListOf("ptr", Type("int")), <<>>), Mapped(Type("int"), odd :> Whole(5)),
   PointerTo(Untyped, Nil),
   Slice(Untyped, <<Mapped(Untyped, odd :> Nil)>>), Scalar(Type("chan"), 0),
   Slice(Untyped, <<Mapped(Untyped, (ill :> Whole(5)) @@ (worse :> Nil))>>),
   Mapped(MapOf("string", Type("int")), "k" :> Mapped(Type("int"), ill :> Whole(5))),
   Container(MapOf("named", Type("int")), "k" :> Whole(5)),
   Container(MapOf("named", Type("int")), <<>>),
   Slice(Type("chan"), <<Scalar(Type("chan"), 0)>>),
   Container(MapOf("int", Type("int")), "k" :> Whole(5))}

Samples ==
  LET boxes == UNION {Boxed(v) : v \in ScalarSamples}
      twice == UNION {Boxed(v) : v \in Boxed(Number("int8", 1)) \cup Boxed(Whole(MaxInt))}
  IN ScalarSamples \cup boxes \cup twice \cup Odd

MCStands == [w \in {good, bad} |-> {v \in Samples : (w = good) = Accepts(v)}]

-----------------------------------------------------------------------------
(* The values that there are: the samples, and what becomes of them.       *)

PartsOf(S) == UNION {Range(v.parts) : v \in S}

Normals(S) == LET normal[v \in S] == NormalizeStep(normal, v) IN {normal[v] : v \in S} \ {Fails}
Texts(S) == LET text[v \in S] == TextStep(text, v) IN {text[v] : v \in S}

MCGoValues ==
  LET raw == Samples \cup PartsOf(Samples) \cup PartsOf(PartsOf(Samples))
      once == Normals(raw)
      twice == Normals(once \cup PartsOf(once))
      kept == once \cup twice \cup Normals(twice)
  IN raw \cup kept \cup Texts(Normals(twice))

RECURSIVE DepthOf(_)
DepthOf(v) ==
  IF v.parts = <<>> THEN 0
  ELSE LET d == {DepthOf(e) : e \in Range(v.parts)}
       IN 1 + CHOOSE n \in d : \A m \in d : m <= n

MCDepth == [v \in MCGoValues |-> DepthOf(v)]

MCGoTypes ==
  LET Within(S) == S \cup {T.of : T \in {U \in S : U.kind \in Containers}}
  IN Within(Within(Within({v.t : v \in MCGoValues})))

MCReplaced == (ill :> mark) @@ (worse :> mark)

MCNormal == [w \in {good} |-> w]

-----------------------------------------------------------------------------
C(op, on) == [op |-> op, on |-> on, with |-> on, key |-> 1, value |-> good, all |-> Empty]

MCCalls ==
  (t1 :> {C("Dumps", m1), C("Values", m1), [C("Update", m1) EXCEPT !.with = m2],
          [C("Set", m1) EXCEPT !.value = bad], C("Copy", m1),
          [C("SetMap", m1) EXCEPT !.all = (1 :> good) @@ (2 :> good)],
          [C("Loads", m2) EXCEPT !.all = (1 :> good) @@ (2 :> bad)]})
  @@ (t2 :> {C("Set", m1), C("Delete", m1), [C("Set", m2) EXCEPT !.key = 2], C("Clear", m2),
             [C("Update", m2) EXCEPT !.with = m1], C("Update", m2)})
  @@ (t3 :> {C("Get", m1)})
=============================================================================
