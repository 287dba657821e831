---------------------------- MODULE JsonContents ----------------------------
(***************************************************************************)
(* JsonMap with values of JsonValues in the maps. A caller's value is one  *)
(* of those that a name stands for: the maps treat them alike, and what    *)
(* they hold under the name is what NormalizeValue has made of the value.  *)
(***************************************************************************)
EXTENDS JsonMap, JsonValues

CONSTANT Stands  \* the values that a name stands for

ASSUME StandsAssumption ==
  /\ Stands \in [Inputs -> SUBSET GoValues]
  /\ Accepted = {w \in Inputs : \A v \in Stands[w] : Accepts(v)}
  /\ \A w \in Inputs \ Accepted : \A v \in Stands[w] : ~Accepts(v)
  /\ Normal = [w \in Accepted |-> w]

\* The maps hold nothing but the values of these names.
HasOnly(S) == \A m \in Maps : \A k \in DOMAIN content[m] : content[m][k] \in S

Storable ==
  {w \in Accepted : \A v \in Stands[w] :
     LET kept == NormalizeValue[v] IN Accepts(kept) /\ NormalizeValue[kept] = kept}

\* What a map holds, it can hold: GetMap and Copy, which normalise it again and panic
\* when that fails, find every value as Set has left it. (Get, Values and Delete hand out
\* the maps and slices within; a caller who writes to one of these is not modelled.)
StoredIsStorable == HasOnly(Storable)

ReadBack ==
  {w \in Accepted : \A v \in Stands[w] :
     v # Nil /\ IsPlain[v] => Convert(v.t, NormalizeValue[v]) = v}

\* Get gives a plain value back in its own type as it was before Set widened it.
PlainReadsBack == HasOnly(ReadBack)

ReadFromText ==
  {w \in Accepted : \A v \in Stands[w] :
     LET kept == NormalizeValue[v] IN
     v # Nil /\ IsPlain[v] /\ TextKeeps[v] /\ ~HasNaN[kept] /\ ~HasOddKey[kept]
       => Reloaded(kept) # Fails /\ Convert(v.t, Reloaded(kept)) = v}

\* So does Get after Dumps and Loads, for a value whose numbers are floats exactly and
\* whose texts and keys are UTF-8: package json changes the others, and does not say so.
TextReadsBack == HasOnly(ReadFromText)

Least(k) == IF k = "int" THEN MinInt ELSE 0
Greatest(k) == IF k = "int" THEN MaxInt ELSE MaxUint

\* What Get of an integer type may make of a number of so many units.
IsWholePart(r, k, x) ==
  \/ r = Scalar(Type(k), WholePart(x))
  \/ r = Fails /\ (x < Least(k) * One \/ x > Greatest(k) * One)
  \/ r = Scalar(Type(k), Unspecified) /\ x = (Greatest(k) + 1) * One

ReadAsNumber ==
  {w \in Accepted : \A v \in Stands[w], k \in {"int", "uint", "float64"} :
     LET r == SetNumericValue(Type(k), NormalizeValue[v]) IN
     IsNumber(v) =>
       IF k = "float64" THEN r = Scalar(Type(k), Rounded(Units(v), Double))
       ELSE IsWholePart(r, k, Units(v))}

\* Get[float64] gives the float nearest to the number that was set. Get of an integer type
\* of the same width gives the number without its fraction, which is lost unsaid, or
\* fails, which it does for no number within the bounds of the type; only for the one
\* float just above the largest integer does it give what Go does not specify.
NumbersOnlyLoseFractions == HasOnly(ReadAsNumber)
=============================================================================
