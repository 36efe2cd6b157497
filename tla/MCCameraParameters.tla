------------------------- MODULE MCCameraParameters -------------------------
(***************************************************************************)
(* Cameras with the two controls of the exposure and one more control of   *)
(* each kind the conversions tell apart.                                   *)
(***************************************************************************)
EXTENDS CameraParameters, TLC

CONSTANTS w1, w2

MCWorkers == {w1, w2}

Control(type, extent, min, max, def, tries) ==
  [type |-> type, extent |-> extent, min |-> min, max |-> max, def |-> def, tries |-> tries]

Whole(x) == Value("integer", <<x>>)
Wholes(xs) == Value("integer_array", xs)
Fractions(xs) == Value("double_array", xs)

ModeControl(def) == Control("int32", 0, ScalarOf("int32", 0), ScalarOf("int32", 1), def, {ETM_Auto, ETM_Manual})
ExposureControl(def) ==
  Control("int32", 0, ScalarOf("int32", 1), ScalarOf("int32", 3), def, {Whole(2), Whole(3), Whole(9), Wholes(<<2>>)})

MCOthers == {
  Control("float", 0, ScalarOf("float", 1), ScalarOf("float", 4), ScalarOf("float", 0),
          {Value("double", <<2>>), Value("double", <<5>>), Whole(2)}),
  Control("byte", 0, ScalarOf("byte", 0), ScalarOf("byte", 9), ScalarOf("byte", 12), {Whole(3), Whole(261)}),
  Control("bool", 0, ScalarOf("bool", 0), ScalarOf("bool", 1), ScalarOf("bool", 1),
          {Value("bool", <<0>>), Value("string", <<1>>)}),
  Control("int64", Dynamic, ScalarOf("int64", 0), ScalarOf("int64", 3), None,
          {Wholes(<<1, 2>>), Wholes(<<1, 9>>), Whole(1)}),
  Control("int32", Dynamic, ScalarOf("int32", 0), ScalarOf("int32", 3), ScalarOf("int32", 2), {Wholes(<<1, 2>>)}),
  Control("float", 2, ScalarOf("float", 0), ScalarOf("float", 3), ScalarOf("float", 1),
          {Fractions(<<1, 2>>), Fractions(<<1, 9>>), Fractions(<<1, 1, 1>>)}),
  Control("u16", 2, ArrayOf("u16", <<0, 2>>), ArrayOf("u16", <<4, 6>>), None,
          {Wholes(<<1, 3>>), Wholes(<<1, 1>>), Wholes(<<65537, 3>>)}),
  Control("rect", 0, ScalarOf("rect", <<0, 0, 1, 1>>), ScalarOf("rect", <<0, 0, 4, 4>>),
          ScalarOf("rect", <<1, 0, 9, 2>>), {Wholes(<<1, 1, 2, 2>>), Wholes(<<1, 1, 2>>)}),
  Control("point", 0, ScalarOf("point", <<0, 0>>), ScalarOf("point", <<4, 4>>),
          ScalarOf("point", <<6, 1>>), {Wholes(<<2, 2>>), Wholes(<<9, 9>>)}),
  Control("size", 0, ScalarOf("size", <<1, 1>>), ScalarOf("size", <<4, 4>>),
          ScalarOf("size", <<5, 6>>), {Wholes(<<2, 3>>), Wholes(<<5, 5>>)}),
  Control("rect", Dynamic, ScalarOf("rect", <<0, 0, 1, 1>>), ScalarOf("rect", <<0, 0, 4, 4>>), None,
          {Wholes(<<1, 1, 2, 2>>)})}

CameraOf(mode, exposure, other) ==
  [n \in {Mode, ET, "Other"} |-> CASE n = Mode -> ModeControl(mode)
                                   [] n = ET -> ExposureControl(exposure)
                                   [] OTHER -> other]

Skipped == CHOOSE o \in MCOthers : o.type = "rect" /\ o.extent = Dynamic

\* Every other control beside a camera that starts with automatic exposure,
\* and every start of the exposure beside a control that is no parameter.
MCStarts ==
  {CameraOf(None, ScalarOf("int32", 0), o) : o \in MCOthers}
    \X {Nothing, ET :> Whole(3), "Other" :> Whole(2)}
  \cup
  {CameraOf(m, e, Skipped) : m \in {None, ScalarOf("int32", 1)}, e \in {None, ScalarOf("int32", 0)}}
    \X {Nothing, ET :> Whole(3), ET :> Whole(9), Mode :> ETM_Manual, (Mode :> ETM_Auto) @@ (ET :> Whole(2))}
=============================================================================
