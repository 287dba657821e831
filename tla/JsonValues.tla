----------------------------- MODULE JsonValues -----------------------------
(***************************************************************************)
(* The values of container/jsonmap.go: what a JsonMap accepts, what it     *)
(* keeps of it, how it is read back as a Go type, and what is left of it   *)
(* when the map has been written as JSON text and read again.              *)
(*                                                                         *)
(* A Go value is a record of its type t, of n, the number, boolean or text *)
(* that it is, and of parts: the elements of a slice, an array or a map,   *)
(* and what a pointer points to. The recursive functions of the code are   *)
(* recursive functions on the set of the values, and the step of one has   *)
(* the function as an argument. Integers and floats are scaled down: the   *)
(* wide integers have Wide bits, the narrow ones Narrow, and the float     *)
(* types a mantissa of Double and of Single bits. A float is counted in    *)
(* parts of 2^-Fraction, its smallest one; there are no infinities.        *)
(***************************************************************************)
EXTENDS Integers, Sequences, Functions

CONSTANTS
  Wide, Narrow, Double, Single, Fraction,
  GoTypes, GoValues, \* the types and the values that there are
  Depth,             \* how deep a value is: none contains itself
  NaN,               \* what a float may be instead of a number
  Unspecified,       \* what Go does not say: an integer that a float is too big for
  OddKeys,           \* the keys that the %q of package fmt does not write as JSON
  Replaced           \* what package json writes for a text, or a key, that is no UTF-8

ASSUME WidthsAssumption ==
  /\ {Wide, Narrow, Double, Single, Fraction} \subseteq Nat
  /\ 1 < Narrow /\ Narrow < Single /\ Single < Double /\ Double < Wide - 1

Type(k) == [kind |-> k]
ListOf(k, T) == [kind |-> k, of |-> T]      \* a slice, or a pointer
ArrayOf(n, T) == [kind |-> "array", of |-> T, len |-> n]
MapOf(key, T) == [kind |-> "map", key |-> key, of |-> T]
Untyped == Type("any")

Ints == {"int", "int8"}
Uints == {"uint", "uint8"}
Floats == {"float64", "float32"}
Numbers == Ints \cup Uints \cup Floats
Scalars == Numbers \cup {"string", "bool"}
Lists == {"slice", "array"}
Containers == Lists \cup {"map", "ptr"}
StringKeys == {"string", "named"}  \* the key types of the kind string

Scalar(T, n) == [t |-> T, n |-> n, parts |-> <<>>]
Container(T, parts) == [t |-> T, n |-> 0, parts |-> parts]

\* An error, or a panic of package reflect.
Fails == Scalar(Type("failure"), 0)

\* A container of what has become of its parts, or the failure of one.
Gathered(T, parts) == IF Fails \in Range(parts) THEN Fails ELSE Container(T, parts)

Nil == Scalar(Type("nil"), 0)
IsNil(v) == v = Nil \/ (v.t.kind = "ptr" /\ v.parts = <<>>)
IsNumber(v) == v.t.kind \in Numbers /\ v.n \in Int

\* What a variable of a type is at first: 0, "", false, nil. The parts of an array are left out.
Zero(T) == IF T = Untyped THEN Nil ELSE Scalar(T, 0)

-----------------------------------------------------------------------------
(* IsJSONCompatible and NormalizeValue.                                    *)

\* A pointer to an interface is refused, whatever is in it.
CompatibleStep(compatible, value) ==
  LET val == IF value.t.kind = "ptr" THEN value.parts[1] ELSE value IN
  \/ IsNil(value)
  \/ /\ value.t.kind = "ptr" => value.t.of # Untyped
     /\ \/ val.t.kind \in Scalars
        \/ /\ val.t.kind \in Lists \/ (val.t.kind = "map" /\ val.t.key \in StringKeys)
           /\ \A i \in DOMAIN val.parts : compatible[val.parts[i]]

IsJSONCompatible[value \in GoValues] == CompatibleStep(IsJSONCompatible, value)

NormalizeParts(normal, v) == [i \in DOMAIN v.parts |-> normal[v.parts[i]]]

\* Mutant: what a pointer points to is kept as it is.
NormalizePointerShallow(normal, v) == v.parts[1]

NormalizePointer(normal, v) == normal[v.parts[1]]

\* The plain type of the kind, and the widest: Val.String, Val.Int, Val.Uint, ...
Widest(k) ==
  Type(IF k \in Ints THEN "int" ELSE IF k \in Uints THEN "uint"
       ELSE IF k \in Floats THEN "float64" ELSE k)

NormalizeStep(normal, v) ==
  IF IsNil(v) THEN Nil
  ELSE IF v.t.kind = "ptr" THEN NormalizePointer(normal, v)
  ELSE IF v.t.kind \in Scalars THEN Scalar(Widest(v.t.kind), v.n)
  ELSE IF v.t.kind = "map" /\ v.t.key \in StringKeys
    THEN Gathered(MapOf("string", Untyped), NormalizeParts(normal, v))
  ELSE IF v.t.kind \in Lists
    THEN Gathered(ListOf("slice", Untyped), NormalizeParts(normal, v))
  ELSE Fails

NormalizeValue[v \in GoValues] == NormalizeStep(NormalizeValue, v)

\* Set and SetMap keep what NormalizeValue has made of the value.
Accepts(v) == IsJSONCompatible[v] /\ NormalizeValue[v] # Fails

-----------------------------------------------------------------------------
(* Numbers.                                                                *)

Pow2[e \in Nat] == IF e = 0 THEN 1 ELSE 2 * Pow2[e - 1]

Abs(n) == IF n < 0 THEN -n ELSE n

\* What the last bit of a mantissa of so many bits stands for.
Ulp(m, bits) ==
  CHOOSE u \in {Pow2[e] : e \in 0..(Wide + Fraction)} :
    m < Pow2[bits] * u /\ (u = 1 \/ Pow2[bits - 1] * u <= m)

\* The float of so many bits that is nearest, and even when two are.
Rounded(n, bits) ==
  LET u == Ulp(Abs(n), bits)
      q == Abs(n) \div u
      r == Abs(n) % u
      m == u * (IF 2 * r > u \/ (2 * r = u /\ q % 2 = 1) THEN q + 1 ELSE q)
  IN IF n < 0 THEN -m ELSE m

Bits(k) == IF k \in {"int", "uint"} THEN Wide ELSE IF k \in {"int8", "uint8"} THEN Narrow
           ELSE IF k = "float64" THEN Double ELSE Single

MaxInt == Pow2[Wide - 1] - 1
MinInt == -Pow2[Wide - 1]
MaxUint == Pow2[Wide] - 1

\* A float is counted in its smallest parts, an integer in ones.
One == Pow2[Fraction]
Units(v) == IF v.t.kind \in Floats THEN v.n ELSE v.n * One

\* float64(n) of an integer, and the integer that is left of a float.
AsFloat(n) == Rounded(n * One, Double)
WholePart(n) == IF n < 0 THEN -((-n) \div One) ELSE n \div One

\* SetInt, SetUint and SetFloat: the low bits, or the nearest float.
SetInt(T, n) ==
  LET M == Pow2[Bits(T.kind)]
      w == n % M
  IN Scalar(T, IF 2 * w >= M THEN w - M ELSE w)
SetUint(T, n) == Scalar(T, n % Pow2[Bits(T.kind)])
SetFloat(T, n) == Scalar(T, Rounded(n, Bits(T.kind)))

SetIntValue(T, n) ==
  IF T.kind \in Ints THEN SetInt(T, n)
  ELSE IF T.kind \in Uints THEN IF n < 0 THEN Fails ELSE SetUint(T, n)
  ELSE SetFloat(T, AsFloat(n))

\* Mutant: an integer too big for the signed type wraps.
SetUintValueWraps(T, n) ==
  IF T.kind \in Ints THEN SetInt(T, n)
  ELSE IF T.kind \in Uints THEN SetUint(T, n)
  ELSE SetFloat(T, AsFloat(n))

SetUintValue(T, n) ==
  IF T.kind \in Ints THEN IF n > MaxInt THEN Fails ELSE SetInt(T, n)
  ELSE IF T.kind \in Uints THEN SetUint(T, n)
  ELSE SetFloat(T, AsFloat(n))

\* The conversion of a float n to an integer type that has no number above max.
Truncated(T, n, max) ==
  IF WholePart(n) > max THEN Scalar(T, Unspecified)
  ELSE IF T.kind \in Ints THEN SetInt(T, WholePart(n)) ELSE SetUint(T, WholePart(n))

\* Mutant: the least integer is refused too.
SetFloatValueStrict(T, n) ==
  IF T.kind \in Floats THEN SetFloat(T, n)
  ELSE LET min == IF T.kind \in Ints THEN MinInt ELSE 0
           max == IF T.kind \in Ints THEN MaxInt ELSE MaxUint IN
       IF n <= AsFloat(min) \/ n > AsFloat(max) THEN Fails
       ELSE Truncated(T, n, max)

\* The bounds that a float is compared with are floats themselves: that of MaxInt is one
\* too many, and so is that of MaxUint.
SetFloatValue(T, n) ==
  IF T.kind \in Floats THEN SetFloat(T, n)
  ELSE LET min == IF T.kind \in Ints THEN MinInt ELSE 0
           max == IF T.kind \in Ints THEN MaxInt ELSE MaxUint IN
       IF n < AsFloat(min) \/ n > AsFloat(max) THEN Fails
       ELSE Truncated(T, n, max)

SetNumericValue(T, v) ==
  IF ~IsNumber(v) THEN Scalar(T, IF T.kind \in Floats THEN NaN ELSE Unspecified)
  ELSE IF v.t.kind \in Ints THEN SetIntValue(T, v.n)
  ELSE IF v.t.kind \in Uints THEN SetUintValue(T, v.n)
  ELSE SetFloatValue(T, v.n)

-----------------------------------------------------------------------------
(* ConvertToJsonSupportType, of Get and GetWithDefault.                    *)

ConvertParts(set, T, v) == [i \in DOMAIN v.parts |-> set[v.parts[i]][T]]

\* The keys are set as plain strings: reflect panics if those of the target are not.
ConvertToMap(set, T, v) ==
  IF /\ v.t.kind = "map" /\ T.key \in StringKeys
     /\ DOMAIN v.parts = {} \/ {v.t.key, T.key} = {"string"}
    THEN Gathered(T, ConvertParts(set, T.of, v)) ELSE Fails

\* Mutant: the elements are taken over as they are.
ConvertToSliceShallow(set, T, v) ==
  IF v.t.kind \in Lists /\ T.kind = "slice" THEN Container(T, v.parts) ELSE Fails

\* The slice that is made for the elements is no array: reflect panics.
ConvertToSlice(set, T, v) ==
  IF v.t.kind \in Lists /\ T.kind = "slice"
    THEN Gathered(T, ConvertParts(set, T.of, v)) ELSE Fails

SetStep(set, T, v) ==
  IF IsNil(v) THEN Zero(T)
  ELSE IF v.t.kind = "ptr" THEN set[v.parts[1]][T]
  ELSE IF v.t = T \/ T = Untyped THEN v
  ELSE IF T.kind = "map" THEN ConvertToMap(set, T, v)
  ELSE IF T.kind \in Lists THEN ConvertToSlice(set, T, v)
  ELSE IF T.kind \in Numbers /\ v.t.kind \in Numbers THEN SetNumericValue(T, v)
  ELSE Fails

SetValue[v \in GoValues] == [T \in GoTypes |-> SetStep(SetValue, T, v)]

\* The type of Get[any] is nil to package reflect, which panics.
Convert(T, v) ==
  IF v = Nil THEN Zero(T)
  ELSE IF T = Untyped THEN Fails
  ELSE IF T.kind = "ptr" THEN Gathered(T, [i \in {1} |-> SetValue[v][T.of]])
  ELSE SetValue[v][T]

-----------------------------------------------------------------------------
(* Dumps and Loads.                                                        *)

HasNaN[v \in GoValues] == v.n = NaN \/ \E i \in DOMAIN v.parts : HasNaN[v.parts[i]]

\* Texts that are no UTF-8.
IllFormed == DOMAIN Replaced

\* dumps writes the keys of maps within maps; below a list package json does.
HasOddKey[v \in GoValues] ==
  v.t.kind = "map" /\ \E k \in DOMAIN v.parts : k \in OddKeys \cup IllFormed \/ HasOddKey[v.parts[k]]

\* Package json writes UTF-8, whatever the text is.
Encoded(x) == IF x \in IllFormed THEN Replaced[x] ELSE x

\* The value of a key that is read: of the keys that are written alike, one.
TextOfKey(text, v, k) ==
  text[v.parts[CHOOSE i \in DOMAIN v.parts : Encoded(i) = k]]

\* Package json reads every number as a float64.
TextStep(text, v) ==
  IF IsNumber(v) THEN Scalar(Type("float64"), Rounded(Units(v), Double))
  ELSE IF v.t.kind = "string" THEN Scalar(v.t, Encoded(v.n))
  ELSE IF v.t.kind = "map"
    THEN Container(v.t, [k \in {Encoded(i) : i \in DOMAIN v.parts} |-> TextOfKey(text, v, k)])
  ELSE IF v.t.kind \in Containers
    THEN Container(v.t, [i \in DOMAIN v.parts |-> text[v.parts[i]]])
  ELSE v

FromText[v \in GoValues] == TextStep(FromText, v)

\* What a map holds after Dumps and Loads.
Reloaded(v) == IF HasNaN[v] \/ HasOddKey[v] THEN Fails ELSE NormalizeValue[FromText[v]]

-----------------------------------------------------------------------------
(* The values that there are.                                              *)

InRange(k, n) ==
  CASE k \in Ints -> n \in Int /\ -Pow2[Bits(k) - 1] <= n /\ n < Pow2[Bits(k) - 1]
    [] k \in Uints -> n \in Nat /\ n < Pow2[Bits(k)]
    [] k \in Floats -> n = NaN \/ (n \in Int /\ Rounded(n, Bits(k)) = n)
    [] OTHER -> n # NaN

\* The parts of a typed container have its type, and a pointer points to one value.
IsGoValue(v) ==
  /\ v = [t |-> v.t, n |-> v.n, parts |-> [i \in DOMAIN v.parts |-> v.parts[i]]]
  /\ v.t \in GoTypes
  /\ InRange(v.t.kind, v.n)
  /\ v.t.kind \in Containers => v.n = 0 /\ v.t.of \in GoTypes
  /\ v.t.kind \notin Containers => v.parts = <<>>
  /\ v.t.kind = "ptr" => v.parts = <<>> \/ DOMAIN v.parts = {1}
  /\ \A i \in DOMAIN v.parts :
       /\ v.parts[i] \in GoValues
       /\ Depth[v.parts[i]] < Depth[v]
       /\ v.t.of = Untyped \/ v.parts[i].t = v.t.of

\* What is kept of a value is a value, and so is what package json makes of that.
ASSUME ValuesAssumption ==
  /\ Depth \in [GoValues -> Nat]
  /\ NaN \notin Int
  /\ \A x \in IllFormed : Replaced[x] \notin IllFormed
  /\ Fails \notin GoValues
  /\ \A v \in GoValues :
       /\ IsGoValue(v)
       /\ NormalizeValue[v] \in GoValues \cup {Fails}
       /\ NormalizeValue[v] = v => FromText[v] \in GoValues

-----------------------------------------------------------------------------
\* A value that Get gives back in its type, as it was set: one without an array, a type
\* of the caller's, or a pointer below the top, whose untyped parts are normal already.
PlainStep(plain, v) ==
  LET Part(e) == IF v.t.of = Untyped THEN NormalizeValue[e] = e
                 ELSE plain[e] /\ e.t.kind # "ptr"
  IN /\ v.t.kind \in Scalars => v.t = Type(v.t.kind)
     /\ v.t.kind \in Scalars \cup {"slice", "map", "ptr"}
     /\ v.t.kind = "map" => v.t.key = "string"
     /\ \A i \in DOMAIN v.parts : Part(v.parts[i])

IsPlain[v \in GoValues] == PlainStep(IsPlain, v)

\* Text keeps a value if its texts and keys are UTF-8, and its numbers are floats, or are
\* to be read as numbers of their type and have a float of their own.
KeepsStep(keeps, v) ==
  LET Part(e) == IF v.t.of = Untyped THEN FromText[e] = e ELSE keeps[e]
  IN /\ IsNumber(v) => Rounded(Units(v), Double) = Units(v)
     /\ v.t.kind = "string" => v.n \notin IllFormed
     /\ v.t.kind = "map" => DOMAIN v.parts \cap IllFormed = {}
     /\ \A i \in DOMAIN v.parts : Part(v.parts[i])

TextKeeps[v \in GoValues] == KeepsStep(TextKeeps, v)
=============================================================================
