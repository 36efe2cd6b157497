---------------------------- MODULE ControlValues ----------------------------
(***************************************************************************)
(* The values of libcamera's controls and of the node's parameters: how    *)
(* one becomes the other (cv_to_pv, pv_to_cv), how a default is brought    *)
(* within its bounds (clamp), and when a value is out of them (the < and > *)
(* of clamp.cpp).                                                          *)
(*                                                                         *)
(* A control value is a record of its type, whether it is an array, and    *)
(* its elements: integers for the types in Plain (the bytes of a string    *)
(* and the fractions of a float play no part), tuples for the others.  A   *)
(* parameter value has a type and a sequence of integers.  A control is a  *)
(* record of its type, its extent (0 for a scalar), its bounds and its     *)
(* default.                                                                *)
(***************************************************************************)
EXTENDS Integers, Sequences, SequencesExt

Dynamic == -1 \* the extent of an array of any length

Integral == {"byte", "int32", "int64", "u16", "u32"}
Plain == Integral \cup {"bool", "float", "string"}
Sides == [rect |-> 4, size |-> 2, point |-> 2]
Geometric == DOMAIN Sides

None == [type |-> "none", array |-> FALSE, elems |-> <<>>]
NotSet == [type |-> "not_set", elems |-> <<>>]

ScalarOf(type, x) == [type |-> type, array |-> FALSE, elems |-> <<x>>]
ArrayOf(type, xs) == [type |-> type, array |-> TRUE, elems |-> xs]
Value(type, xs) == [type |-> type, elems |-> xs]

-----------------------------------------------------------------------------
(* Bounds *)

\* The order of libcamera's sizes: both sides, then the area, then the width.
SizeBelow(a, b) ==
  \/ a[1] < b[1] /\ a[2] < b[2]
  \/ /\ ~(a[1] >= b[1] /\ a[2] >= b[2])
     /\ \/ a[1] * a[2] < b[1] * b[2]
        \/ a[1] * a[2] = b[1] * b[2] /\ a[1] < b[1]

\* A rectangle is below another when it lies inside, touching no side.
Inside(a, b) == \A i \in 1 .. 2 : a[i] > b[i] /\ a[i] + a[i + 2] < b[i] + b[i + 2]

SquaredSum(p) == p[1] * p[1] + p[2] * p[2]

Below(type, a, b) == CASE type = "rect"  -> Inside(a, b)
                       [] type = "point" -> SquaredSum(a) < SquaredSum(b)
                       [] type = "size"  -> SizeBelow(a, b)
                       [] OTHER          -> a < b

Above(type, a, b) == CASE type = "rect"  -> Inside(b, a)
                       [] type = "point" -> SquaredSum(a) > SquaredSum(b)
                       [] type = "size"  -> SizeBelow(b, a)
                       [] OTHER          -> a > b

\* Element i, where a scalar stands for all the elements.
Element(cv, i) == cv.elems[IF cv.array THEN i ELSE 1]
Indices(cv, bound) == DOMAIN (IF cv.array \/ ~bound.array THEN cv ELSE bound).elems

less(cv, bound) == \E i \in Indices(cv, bound) : Below(cv.type, Element(cv, i), Element(bound, i))

\* Mutant: only the first element is compared.
GreaterFirst(cv, bound) == Above(cv.type, cv.elems[1], bound.elems[1])

greater(cv, bound) == \E i \in Indices(cv, bound) : Above(cv.type, Element(cv, i), Element(bound, i))

\* std::clamp under an order.
Clip(type, v, lo, hi) == IF Below(type, v, lo) THEN lo ELSE IF Below(type, hi, v) THEN hi ELSE v
ClipNumber(v, lo, hi) == Clip("int64", v, lo, hi)

\* Origin and opposite corner are clipped each to its own bounds.
ClipRect(v, lo, hi) ==
  LET o == [i \in 1 .. 2 |-> ClipNumber(v[i], lo[i], hi[i])]
  IN  o \o [i \in 1 .. 2 |-> ClipNumber(o[i] + v[i + 2], lo[i] + lo[i + 2], hi[i] + hi[i + 2]) - o[i]]

ClipElement(type, v, lo, hi) ==
  CASE type = "bool"  -> v
    [] type = "rect"  -> ClipRect(v, lo, hi)
    [] type = "point" -> [i \in 1 .. 2 |-> ClipNumber(v[i], lo[i], hi[i])]
    [] OTHER          -> Clip(type, v, lo, hi)

clamp(cv, min, max) ==
  [cv EXCEPT !.elems = [i \in DOMAIN cv.elems |->
      ClipElement(cv.type, cv.elems[i], Element(min, i), Element(max, i))]]

-----------------------------------------------------------------------------
(* Conversions *)

Unsupported == "unsupported"
ScalarTypes == [bool |-> "bool", float |-> "double", string |-> "string",
                rect |-> "integer_array", size |-> "integer_array", point |-> "integer_array"]
ArrayTypes == [bool |-> "bool_array", float |-> "double_array", string |-> "string_array"]

\* The type of the parameter a control is declared as.
cv_to_pv_type(control) ==
  IF control.extent = 0
  THEN IF control.type \in Integral THEN "integer" ELSE ScalarTypes[control.type]
  ELSE CASE control.type \in Integral  -> "integer_array"
         [] control.type \in Geometric -> Unsupported
         [] OTHER                      -> ArrayTypes[control.type]

\* The parameter value of one element: that of a rectangle, a size or a
\* point is an array of its numbers.
cv_to_pv_scalar(type, x) ==
  IF type \in Integral THEN Value("integer", <<x>>)
  ELSE Value(ScalarTypes[type], IF type \in Geometric THEN x ELSE <<x>>)

\* An array of bytes becomes a byte array, whatever the control's parameter
\* is declared as; there are no arrays of the unsigned and geometric types.
cv_to_pv_array(type, xs) ==
  CASE type = "byte"              -> Value("byte_array", xs)
    [] type \in {"int32", "int64"} -> Value("integer_array", xs)
    [] type \in DOMAIN ArrayTypes  -> Value(ArrayTypes[type], xs)
    [] OTHER                       -> Value(Unsupported, xs)

\* An array of one element is taken for a scalar.
cv_to_pv(cv) == CASE cv.elems = <<>>     -> NotSet
                  [] Len(cv.elems) = 1  -> cv_to_pv_scalar(cv.type, cv.elems[1])
                  [] OTHER              -> cv_to_pv_array(cv.type, cv.elems)

Invalid == [type |-> "invalid", array |-> FALSE, elems |-> <<>>]

\* A number keeps the bits its control has room for.
Narrow(type, x) == CASE type = "byte" -> x % 256
                     [] type = "u16"  -> x % 65536
                     [] OTHER         -> x

pv_to_cv_int_array(xs, type) ==
  CASE type \in {"bool", "byte", "string"} -> Invalid
    [] type \in Geometric -> IF Len(xs) # Sides[type] THEN Invalid ELSE ScalarOf(type, xs)
    [] OTHER              -> ArrayOf(type, [i \in DOMAIN xs |-> Narrow(type, xs[i])])

pv_to_cv(pv, type) ==
  CASE pv.type = "not_set"       -> None
    [] pv.type = "bool"          -> ScalarOf("bool", pv.elems[1])
    [] pv.type = "integer"       -> IF type \in Integral \cup {"bool", "float"}
                                    THEN ScalarOf(type, Narrow(type, pv.elems[1])) ELSE None
    [] pv.type = "double"        -> ScalarOf("float", pv.elems[1])
    [] pv.type = "string"        -> ScalarOf("string", pv.elems[1])
    [] pv.type = "byte_array"    -> ArrayOf("byte", pv.elems)
    [] pv.type = "bool_array"    -> Invalid
    [] pv.type = "integer_array" -> pv_to_cv_int_array(pv.elems, type)
    [] pv.type = "double_array"  -> ArrayOf("float", pv.elems)
    [] pv.type = "string_array"  -> ArrayOf("string", pv.elems)
=============================================================================
