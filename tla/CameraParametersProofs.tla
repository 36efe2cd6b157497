----------------------- MODULE CameraParametersProofs -----------------------
(***************************************************************************)
(* Proofs about CameraParameters, for every camera with controls and       *)
(* launch file the assumption describes, every number of workers and every *)
(* number of sets: no conflict between the exposures, no value outside its *)
(* control's bounds, and no exposure time lost.                            *)
(***************************************************************************)
EXTENDS CameraParameters, TLAPS, FiniteSetTheorems, WellFoundedInduction

-----------------------------------------------------------------------------
(* Conversions and bounds *)

\* A value for a control: of a parameter's type, and with the numbers that
\* type has if the control has numbers.
Typed(c, v) == v.type \in ParameterTypes /\ (c.type \in Numeric => IsParameterValue(v))

\* What the type of a valid value says of the converted one.
LEMMA NumbersConvert ==
  ASSUME NEW c, IsControl(c), NEW v, IsParameterValue(v), c.type \in Numeric,
         v.type = cv_to_pv_type(c), NEW cv, cv = pv_to_cv(v, c.type), cv # Invalid
  PROVE  /\ cv.type = c.type
         /\ IF c.extent = 0 THEN ~cv.array /\ DOMAIN cv.elems = {1} ELSE cv.array
         /\ DOMAIN cv.elems = 1 .. Len(cv.elems)
         /\ \A i \in DOMAIN cv.elems : cv.elems[i] \in Int
<1> USE DEF Numeric, Integral
<1>0. v.elems \in Seq(Int) /\ (v.type \in {"integer", "double"} => Len(v.elems) = 1)
  BY DEF IsParameterValue, SingleTypes
<1>1. CASE c.extent = 0 /\ c.type = "float"
  <2>1. v.type = "double"
    BY <1>1 DEF cv_to_pv_type, ScalarTypes
  <2>2. cv = ScalarOf("float", v.elems[1])
    BY <1>1, <2>1 DEF pv_to_cv
  <2>3. v.elems[1] \in Int
    BY <1>0, <2>1
  <2> QED BY <1>1, <2>2, <2>3 DEF ScalarOf
<1>2. CASE c.extent = 0 /\ c.type \in Integral
  <2>1. v.type = "integer"
    BY <1>2 DEF cv_to_pv_type
  <2>2. cv = ScalarOf(c.type, Narrow(c.type, v.elems[1]))
    BY <1>2, <2>1 DEF pv_to_cv
  <2>3. v.elems[1] \in Int
    BY <1>0, <2>1
  <2>4. Narrow(c.type, v.elems[1]) \in Int
    BY <1>2, <2>3 DEF Narrow
  <2> QED BY <1>2, <2>2, <2>4 DEF ScalarOf
<1>3. CASE c.extent # 0 /\ c.type = "float"
  <2>1. v.type = "double_array"
    BY <1>3 DEF cv_to_pv_type, ArrayTypes, Geometric, Sides
  <2>2. cv = ArrayOf("float", v.elems)
    BY <1>3, <2>1 DEF pv_to_cv
  <2> QED BY <1>0, <1>3, <2>2 DEF ArrayOf
<1>4. CASE c.extent # 0 /\ c.type \in Integral
  <2>1. v.type = "integer_array"
    BY <1>4 DEF cv_to_pv_type, Geometric, Sides
  <2>2. cv = pv_to_cv_int_array(v.elems, c.type)
    BY <2>1 DEF pv_to_cv
  <2>3. c.type # "byte"
    BY <2>2 DEF pv_to_cv_int_array, Geometric, Sides
  <2>4. c.type \notin Geometric /\ c.type \notin {"bool", "byte", "string"}
    BY <1>4, <2>3 DEF Geometric, Sides
  <2>5. cv = ArrayOf(c.type, [i \in DOMAIN v.elems |-> Narrow(c.type, v.elems[i])])
    BY <2>2, <2>4 DEF pv_to_cv_int_array
  <2>6. \A i \in DOMAIN v.elems : Narrow(c.type, v.elems[i]) \in Int
    <3> SUFFICES ASSUME NEW i \in DOMAIN v.elems PROVE Narrow(c.type, v.elems[i]) \in Int
      OBVIOUS
    <3>1. v.elems[i] \in Int
      BY <1>0
    <3> QED BY <1>4, <3>1 DEF Narrow
  <2>7. [i \in DOMAIN v.elems |-> Narrow(c.type, v.elems[i])] \in Seq(Int)
    BY <1>0, <2>6
  <2> QED BY <1>4, <2>5, <2>6, <2>7 DEF ArrayOf
<1> QED BY <1>1, <1>2, <1>3, <1>4

\* A value of a type without numbers becomes one of the control's type, too.
LEMMA OthersConvert ==
  ASSUME NEW c, IsControl(c), NEW v, c.type \notin Numeric,
         v.type = cv_to_pv_type(c), cv_to_pv_type(c) # Unsupported,
         NEW cv, cv = pv_to_cv(v, c.type), cv # Invalid
  PROVE  cv.type = c.type /\ (cv.array <=> c.extent # 0)
<1> USE DEF ScalarOf, ArrayOf
<1>0. c.type \in {"bool", "string", "rect", "size", "point"}
  BY DEF IsControl, Plain, Numeric, Geometric, Sides, Integral
<1>1. CASE c.type = "bool"
  BY <1>1 DEF cv_to_pv_type, pv_to_cv, ScalarTypes, ArrayTypes, Geometric, Sides, Integral
<1>2. CASE c.type = "string"
  BY <1>2 DEF cv_to_pv_type, pv_to_cv, ScalarTypes, ArrayTypes, Geometric, Sides, Integral
<1>3. CASE c.type \in Geometric
  <2>1. c.extent = 0
    BY <1>3 DEF cv_to_pv_type, Geometric, Sides, Integral
  <2>2. v.type = "integer_array"
    BY <1>3, <2>1 DEF cv_to_pv_type, ScalarTypes, Geometric, Sides, Integral
  <2>3. cv = ScalarOf(c.type, v.elems)
    BY <1>3, <2>2 DEF pv_to_cv, pv_to_cv_int_array, Geometric, Sides, Integral
  <2> QED BY <2>1, <2>3
<1> QED BY <1>0, <1>1, <1>2, <1>3 DEF Geometric, Sides

\* A bound has a number for every element of a valid value.
LEMMA BoundsAreNumbers ==
  ASSUME NEW c, NEW b, IsBound(c, b), NEW i \in Nat \ {0}, b.array => i <= c.extent
  PROVE  Element(b, i) \in Int
<1>1. b.elems \in Seq(Int) /\ c.extent = c.extent
  BY DEF IsBound
<1>2. CASE b.array
  <2>1. Len(b.elems) = c.extent /\ Len(b.elems) \in Nat
    BY <1>1, <1>2 DEF IsBound
  <2>2. i \in 1 .. Len(b.elems)
    BY <1>2, <2>1
  <2> QED BY <1>1, <1>2, <2>2 DEF Element
<1>3. CASE ~b.array
  BY <1>1, <1>3 DEF IsBound, Element
<1> QED BY <1>2, <1>3

\* What validate_new_parameters accepts is within the control's bounds.
LEMMA ValidIsWithin ==
  ASSUME NEW c, IsControl(c), NEW v, Typed(c, v), cv_to_pv_type(c) # Unsupported,
         ValidValue(c, v)
  PROVE  Within(c, pv_to_cv(v, c.type))
<1> DEFINE cv == pv_to_cv(v, c.type)
<1>1. /\ v.type = cv_to_pv_type(c) /\ cv # Invalid
      /\ cv.array /\ c.extent # Dynamic => Len(cv.elems) = c.extent
      /\ ~less(cv, c.min) /\ ~greater(cv, c.max)
  BY DEF ValidValue
<1>2. c.extent \in Nat \cup {-1}
  BY DEF IsControl, Dynamic
<1>3. CASE c.type \notin Numeric
  <2> HIDE DEF cv
  <2>1. cv.type = c.type /\ (cv.array <=> c.extent # 0)
    BY <1>1, <1>3, OthersConvert DEF cv
  <2> QED BY <1>1, <1>2, <1>3, <2>1 DEF Within, Dynamic, cv
<1>4. CASE c.type \in Numeric
  <2> HIDE DEF cv
  <2>0. IsParameterValue(v)
    BY <1>4 DEF Typed
  <2>1. /\ cv.type = c.type
        /\ IF c.extent = 0 THEN ~cv.array /\ DOMAIN cv.elems = {1} ELSE cv.array
        /\ DOMAIN cv.elems = 1 .. Len(cv.elems)
        /\ \A i \in DOMAIN cv.elems : cv.elems[i] \in Int
    BY <1>1, <1>4, <2>0, NumbersConvert DEF cv
  <2>2. c.extent > 0 => Len(cv.elems) = c.extent
    BY <1>1, <1>2, <2>1 DEF Dynamic
  <2>3. ASSUME NEW i \in DOMAIN cv.elems
        PROVE  cv.elems[i] \in Element(c.min, i) .. Element(c.max, i)
    <3>1. /\ IsBound(c, c.min) /\ IsBound(c, c.max)
          /\ (c.min.array \/ c.max.array) => c.extent > 0
      BY <1>4 DEF IsControl, IsBound
    <3>2. i \in Nat \ {0} /\ (c.extent > 0 => i <= c.extent)
      BY <2>1, <2>2
    <3>3. Element(c.min, i) \in Int /\ Element(c.max, i) \in Int
      BY <3>1, <3>2, BoundsAreNumbers
    <3>4. Element(cv, i) = cv.elems[i]
      BY <2>1 DEF Element
    <3>5. i \in Indices(cv, c.min) /\ i \in Indices(cv, c.max)
      BY <1>2, <2>1, <3>1 DEF Indices
    <3>6. ~Below(cv.type, cv.elems[i], Element(c.min, i)) /\ ~Above(cv.type, cv.elems[i], Element(c.max, i))
      BY <1>1, <3>4, <3>5 DEF less, greater
    <3>7. ~(cv.elems[i] < Element(c.min, i)) /\ ~(cv.elems[i] > Element(c.max, i))
      BY <1>4, <2>1, <3>6 DEF Below, Above, Numeric, Integral
    <3> QED BY <2>1, <3>3, <3>7
  <2> QED BY <1>2, <2>1, <2>2, <2>3 DEF Within, cv
<1> QED BY <1>3, <1>4

\* A set of places has a first and a last one.
LEMMA FirstPlace ==
  ASSUME NEW S \in SUBSET Nat, S # {}
  PROVE  Min(S) \in S /\ \A y \in S : Min(S) <= y
<1> DEFINE R == {ss \in Nat \X Nat : ss[1] < ss[2]}
<1>1. IsWellFoundedOn(R, Nat)
  BY NatLessThanWellFounded DEF OpToRel
<1>2. \A x, y \in Nat : <<y, x>> \in R <=> y < x
  OBVIOUS
<1> HIDE DEF R
<1>3. PICK x \in S : \A y \in S : ~(<<y, x>> \in R)
  BY <1>1, WFMin, Zenon
<1>4. ASSUME NEW y \in S PROVE x <= y
  <2>1. ~(y < x) /\ x \in Nat /\ y \in Nat
    BY <1>2, <1>3
  <2> QED BY <2>1
<1> QED BY <1>4 DEF Min

\* A non-empty set of places of a list has a largest one, and Max is it.
LEMMA LastPlace ==
  ASSUME NEW n \in Nat, NEW S \in SUBSET (1 .. n), S # {}
  PROVE  Max(S) \in S /\ \A y \in S : Max(S) >= y
<1> DEFINE T == {n - x : x \in S}
<1>1. T \in SUBSET Nat /\ T # {}
  <2>1. \A x \in S : n - x \in Nat
    OBVIOUS
  <2> QED BY <2>1
<1>2. PICK t \in T : \A u \in T : t <= u
  BY <1>1, FirstPlace
<1>3. PICK x \in S : t = n - x
  BY <1>2
<1>4. \A y \in S : x >= y
  <2> SUFFICES ASSUME NEW y \in S PROVE x >= y
    OBVIOUS
  <2>1. n - y \in T
    OBVIOUS
  <2>2. n - x <= n - y
    BY <1>2, <1>3, <2>1
  <2>3. x \in Int /\ y \in Int
    OBVIOUS
  <2> QED BY <2>2, <2>3
<1> QED BY <1>4 DEF Max

-----------------------------------------------------------------------------
(* Lists of names and values *)

\* A list that mentions no name twice.
Distinct(list) == \A i, j \in DOMAIN list : list[i].name = list[j].name => i = j

\* find returns NotSet only if the list sets the name to no value.
LEMMA FindFinds ==
  ASSUME NEW S, NEW list \in Seq(S), NEW name, Settings(list, name) # {}
  PROVE  is_set(list, name)
<1>1. Settings(list, name) \in SUBSET Nat
  BY DEF Settings, Mentions
<1>2. Min(Settings(list, name)) \in Settings(list, name)
  BY <1>1, FirstPlace
<1> QED BY <1>2 DEF find, is_set, Settings

\* A name is mentioned last at one of the places of the list that mention it.
LEMMA LastMention ==
  ASSUME NEW S, NEW list \in Seq(S), NEW name, NEW P, P \subseteq Mentions(list, name), P # {}
  PROVE  Max(P) \in P /\ \A i \in P : Max(P) >= i
<1>1. P \in SUBSET (1 .. Len(list)) /\ Len(list) \in Nat
  BY DEF Mentions
<1> QED BY <1>1, LastPlace

\* What restore adds to a list.
LEMMA Restored ==
  ASSUME NEW S, NEW wish \in Seq(S), NEW stored, NEW list, list = restore(wish, stored)
  PROVE  \/ list = wish /\ ~GivesBack(wish, stored) /\ ~(is_set(wish, Mode) /\ find(wish, Mode) # ETM_Manual)
         \/ /\ is_set(wish, Mode) /\ find(wish, Mode) # ETM_Manual /\ ~GivesBack(wish, stored)
            /\ list = Append(wish, Assign(ET, NotSet))
         \/ GivesBack(wish, stored) /\ list = Append(wish, Assign(ET, stored))
BY DEF restore, GivesBack

\* A list with one more entry.
LEMMA Appended ==
  ASSUME NEW S, NEW wish \in Seq(S), NEW a, NEW list, list = Append(wish, a)
  PROVE  /\ list \in Seq(S \cup {a}) /\ Len(list) = Len(wish) + 1
         /\ DOMAIN wish = 1 .. Len(wish) /\ DOMAIN list = 1 .. Len(list) /\ Len(wish) \in Nat
         /\ \A i \in DOMAIN wish : list[i] = wish[i]
         /\ list[Len(list)] = a
<1>1. wish \in Seq(S \cup {a})
  OBVIOUS
<1> QED BY <1>1

\* restore leaves the mode alone.
LEMMA RestoreKeepsMode ==
  ASSUME NEW S, NEW wish \in Seq(S), NEW stored, NEW list, list = restore(wish, stored)
  PROVE  /\ \E T : list \in Seq(T)
         /\ Mentions(list, Mode) = Mentions(wish, Mode)
         /\ \A i \in DOMAIN wish : i \in DOMAIN list /\ list[i] = wish[i]
         /\ Settings(list, Mode) = Settings(wish, Mode) /\ find(list, Mode) = find(wish, Mode)
<1>1. CASE list = wish
  BY <1>1
<1>2. ASSUME NEW v, list = Append(wish, Assign(ET, v))
      PROVE  /\ \E T : list \in Seq(T)
             /\ Mentions(list, Mode) = Mentions(wish, Mode)
             /\ \A i \in DOMAIN wish : i \in DOMAIN list /\ list[i] = wish[i]
             /\ Settings(list, Mode) = Settings(wish, Mode) /\ find(list, Mode) = find(wish, Mode)
  <2>1. /\ list \in Seq(S \cup {Assign(ET, v)}) /\ Len(list) = Len(wish) + 1
        /\ DOMAIN wish = 1 .. Len(wish) /\ DOMAIN list = 1 .. Len(list) /\ Len(wish) \in Nat
        /\ \A i \in DOMAIN wish : list[i] = wish[i]
        /\ list[Len(list)] = Assign(ET, v)
    BY <1>2, Appended
  <2>2. list[Len(list)].name # Mode
    BY <2>1 DEF Assign, ET, Mode
  <2>3. \A i : i \in DOMAIN list <=> i \in DOMAIN wish \/ i = Len(list)
    BY <2>1
  <2>4. Mentions(list, Mode) = Mentions(wish, Mode)
    BY <2>1, <2>2, <2>3 DEF Mentions
  <2>5. Mentions(wish, Mode) \subseteq DOMAIN wish
    BY DEF Mentions
  <2>6. Settings(list, Mode) = Settings(wish, Mode)
    BY <2>1, <2>4, <2>5 DEF Settings
  <2>7. CASE Settings(wish, Mode) = {}
    BY <2>1, <2>3, <2>4, <2>6, <2>7 DEF find
  <2>8. CASE Settings(wish, Mode) # {}
    <3>1. Settings(wish, Mode) \in SUBSET Nat /\ Settings(wish, Mode) \subseteq DOMAIN wish
      BY <2>1 DEF Settings, Mentions
    <3>2. Min(Settings(wish, Mode)) \in DOMAIN wish
      BY <2>8, <3>1, FirstPlace
    <3>3. find(list, Mode) = find(wish, Mode)
      BY <2>1, <2>6, <2>8, <3>2 DEF find
    <3> QED BY <2>1, <2>3, <2>4, <2>6, <3>3
  <2> QED BY <2>7, <2>8
<1>3. list = wish \/ \E v : list = Append(wish, Assign(ET, v))
  BY Restored
<1> QED BY <1>1, <1>2, <1>3
-----------------------------------------------------------------------------
(* Exposures *)

\* A list that has passed check and sets the mode to automatic sets no
\* exposure time, and one that leaves the mode sets none under automatic
\* exposure.
LEMMA CheckedMode ==
  ASSUME NEW S, NEW list \in Seq(S), NEW p, check(p, list), Settings(list, ET) # {}
  PROVE  IF is_set(list, Mode) THEN find(list, Mode) # ETM_Auto ELSE p[Mode] # ETM_Auto
<1>1. is_set(list, ET)
  BY FindFinds
<1> QED BY <1>1 DEF check

\* The only entry a wish has for the mode.
LEMMA ModeEntry ==
  ASSUME NEW S, NEW wish \in Seq(S), Distinct(wish), NEW stored, NEW list, list = restore(wish, stored),
         Mentions(list, Mode) # {}
  PROVE  /\ Max(Mentions(list, Mode)) \in DOMAIN wish
         /\ list[Max(Mentions(list, Mode))] = wish[Max(Mentions(list, Mode))]
         /\ wish[Max(Mentions(list, Mode))].name = Mode
         /\ Mentions(list, Mode) = {Max(Mentions(list, Mode))}
         /\ list[Max(Mentions(list, Mode))].value # NotSet =>
              /\ Settings(list, Mode) = {Max(Mentions(list, Mode))} /\ is_set(wish, Mode) /\ is_set(list, Mode)
              /\ find(list, Mode) = list[Max(Mentions(list, Mode))].value
              /\ find(wish, Mode) = list[Max(Mentions(list, Mode))].value
<1> DEFINE P == Mentions(list, Mode)
           m == Max(P)
<1>1. /\ P = Mentions(wish, Mode)
      /\ \A i \in DOMAIN wish : i \in DOMAIN list /\ list[i] = wish[i]
      /\ Settings(list, Mode) = Settings(wish, Mode) /\ find(list, Mode) = find(wish, Mode)
  BY RestoreKeepsMode
<1>2. m \in P
  BY <1>1, LastMention
<1> HIDE DEF P, m
<1>3. m \in DOMAIN wish /\ wish[m].name = Mode /\ list[m] = wish[m]
  BY <1>1, <1>2 DEF Mentions
<1>4. ASSUME list[m].value # NotSet
      PROVE  /\ Settings(wish, Mode) = {m} /\ find(wish, Mode) = list[m].value /\ is_set(wish, Mode)
  <2>1. Settings(wish, Mode) = {m}
    BY <1>3, <1>4 DEF Settings, Mentions, Distinct
  <2>2. {m} \in SUBSET Nat
    BY <1>3
  <2>3. Min({m}) = m
    BY <2>2, FirstPlace
  <2>4. find(wish, Mode) = list[m].value
    BY <1>3, <2>1, <2>3 DEF find
  <2> QED BY <1>4, <2>1, <2>4 DEF is_set
<1>5. list[m].value # NotSet => is_set(list, Mode)
  BY <1>1, <1>4 DEF is_set
<1>6. P = {m}
  BY <1>1, <1>2, <1>3 DEF Mentions, Distinct
<1> QED BY <1>1, <1>3, <1>4, <1>5, <1>6 DEF P, m

\* A list that has passed check leaves no conflict.
LEMMA AssignedNeverBoth ==
  ASSUME NEW S, NEW wish \in Seq(S), Distinct(wish), NEW stored, NEW list, list = restore(wish, stored),
         NEW p, ~Conflict(p), check(p, list),
         \A i \in DOMAIN wish : wish[i].value.type \in ParameterTypes,
         \A n \in DOMAIN p : p[n].type \in ParameterTypes
  PROVE  ~Conflict(Assigned(p, list))
<1> DEFINE q == Assigned(p, list)
<1>0. PICK T : list \in Seq(T)
  BY RestoreKeepsMode
<1>1. SUFFICES ASSUME Mode \in DOMAIN q, ET \in DOMAIN q, q[ET] # NotSet,
                      q[Mode] \in {ETM_Auto, pv_to_cv(ETM_Auto, "int32")}
               PROVE  FALSE
  BY DEF Conflict
<1>2. Mode \in DOMAIN p /\ ET \in DOMAIN p
  BY <1>1 DEF Assigned
<1>3. /\ q[Mode] = IF Mentions(list, Mode) = {} THEN p[Mode] ELSE list[Max(Mentions(list, Mode))].value
      /\ q[ET] = IF Mentions(list, ET) = {} THEN p[ET] ELSE list[Max(Mentions(list, ET))].value
  BY <1>1 DEF Assigned
<1> HIDE DEF q
<1>4. pv_to_cv(ETM_Auto, "int32").type = "int32"
  BY DEF pv_to_cv, ETM_Auto, Value, ScalarOf, Integral
<1>5. "int32" \notin ParameterTypes
  BY DEF ParameterTypes, SingleTypes, ArrayTypes
<1>6. q[Mode].type \in ParameterTypes
  <2>1. CASE Mentions(list, Mode) = {}
    BY <1>2, <1>3, <2>1
  <2>2. CASE Mentions(list, Mode) # {}
    BY <1>3, <2>2, ModeEntry
  <2> QED BY <2>1, <2>2
<1>7. q[Mode] = ETM_Auto /\ ETM_Auto # NotSet /\ ETM_Auto # ETM_Manual
  BY <1>1, <1>4, <1>5, <1>6 DEF ETM_Auto, ETM_Manual, NotSet, Value
<1>8. Mentions(list, ET) # {} => Max(Mentions(list, ET)) \in Mentions(list, ET)
  BY <1>0, LastMention
<1>9. CASE Mentions(list, Mode) = {}
  <2>1. p[Mode] = ETM_Auto /\ p[ET] = NotSet
    BY <1>2, <1>3, <1>7, <1>9 DEF Conflict
  <2>2. ~is_set(list, Mode)
    BY <1>9 DEF is_set, find, Settings
  <2>3. Settings(list, ET) = {}
    BY <1>0, <2>1, <2>2, CheckedMode
  <2> QED BY <1>1, <1>3, <1>8, <2>1, <2>3 DEF Settings
<1>10. CASE Mentions(list, Mode) # {}
  <2>1. is_set(wish, Mode) /\ find(wish, Mode) = ETM_Auto
    BY <1>3, <1>7, <1>10, ModeEntry
  <2>2. ~GivesBack(wish, stored)
    BY <1>7, <2>1 DEF GivesBack
  <2>3. list = Append(wish, Assign(ET, NotSet))
    BY <1>7, <2>1, <2>2, Restored
  <2>4. /\ DOMAIN list = 1 .. Len(list) /\ Len(list) \in Nat \ {0}
        /\ list[Len(list)] = Assign(ET, NotSet)
    BY <2>3, Appended
  <2>5. Len(list) \in Mentions(list, ET)
    BY <2>4 DEF Mentions, Assign
  <2>6. Max(Mentions(list, ET)) \in 1 .. Len(list) /\ Max(Mentions(list, ET)) >= Len(list)
    <3>1. Max(Mentions(list, ET)) \in Mentions(list, ET) /\ \A i \in Mentions(list, ET) : Max(Mentions(list, ET)) >= i
      BY <1>0, <2>5, LastMention
    <3>2. Mentions(list, ET) \subseteq 1 .. Len(list)
      BY <2>4 DEF Mentions
    <3> QED BY <2>5, <3>1, <3>2
  <2>7. Max(Mentions(list, ET)) = Len(list)
    BY <2>4, <2>6
  <2> QED BY <1>1, <1>3, <2>4, <2>5, <2>7 DEF Assign
<1> QED BY <1>9, <1>10

\* What a list that is neither refused nor rejected sets.
LEMMA AcceptedValues ==
  ASSUME NEW S, NEW list \in Seq(S), NEW p, DOMAIN p \subseteq Supported,
         ~Refused(p, list), validate_new_parameters(p, list), NEW n, NEW i \in Settings(list, n)
  PROVE  /\ i \in DOMAIN list /\ list[i].name = n /\ list[i].value # NotSet
         /\ n \in Supported /\ n \in DOMAIN controls /\ cv_to_pv_type(controls[n]) # Unsupported
         /\ ValidValue(controls[n], list[i].value)
BY DEF Refused, validate_new_parameters, Settings, Mentions, Supported

\* The values that go to the camera are within its controls' bounds.
LEMMA AppliedWithin ==
  ASSUME NEW S, NEW list \in Seq(S), NEW p, DOMAIN p \subseteq Supported,
         ~Refused(p, list), validate_new_parameters(p, list),
         \A n \in DOMAIN controls : IsControl(controls[n]),
         \A i \in DOMAIN list : list[i].name \in Supported => Typed(controls[list[i].name], list[i].value)
  PROVE  /\ DOMAIN Applied(list) \subseteq Supported
         /\ \A n \in DOMAIN Applied(list) : Within(controls[n], Applied(list)[n])
<1> SUFFICES ASSUME NEW n \in DOMAIN Applied(list)
             PROVE  n \in Supported /\ Within(controls[n], Applied(list)[n])
  OBVIOUS
<1> DEFINE m == Max(Settings(list, n))
<1>1. Settings(list, n) # {} /\ Applied(list)[n] = pv_to_cv(list[m].value, controls[n].type)
  BY DEF Applied
<1>2. m \in Settings(list, n)
  BY <1>1, LastMention DEF Settings
<1> HIDE DEF m
<1>3. /\ m \in DOMAIN list /\ list[m].name = n
      /\ n \in Supported /\ n \in DOMAIN controls /\ cv_to_pv_type(controls[n]) # Unsupported
      /\ ValidValue(controls[n], list[m].value)
  BY <1>2, AcceptedValues
<1>4. IsControl(controls[n]) /\ Typed(controls[n], list[m].value)
  BY <1>3
<1>5. Within(controls[n], pv_to_cv(list[m].value, controls[n].type))
  BY <1>3, <1>4, ValidIsWithin
<1> QED BY <1>1, <1>3, <1>5

\* Only the parameter's value "automatic" becomes the control's.
LEMMA OnlyAutoIsAutomatic ==
  ASSUME NEW c, IsControl(c), NEW v, Typed(c, v), v.type = cv_to_pv_type(c),
         cv_to_pv_type(c) # Unsupported, pv_to_cv(v, c.type) # Invalid,
         pv_to_cv(v, c.type) \in {ETM_Auto, pv_to_cv(ETM_Auto, "int32")}
  PROVE  v = ETM_Auto
<1> DEFINE cv == pv_to_cv(v, c.type)
<1>1. pv_to_cv(ETM_Auto, "int32") = [type |-> "int32", array |-> FALSE, elems |-> <<0>>]
  BY DEF pv_to_cv, ETM_Auto, Value, ScalarOf, Integral, Narrow
<1>2. ETM_Auto.type = "integer"
  BY DEF ETM_Auto, Value
<1>3. cv.type = c.type
  <2>1. CASE c.type \in Numeric
    BY <2>1, NumbersConvert DEF Typed
  <2>2. CASE c.type \notin Numeric
    BY <2>2, OthersConvert
  <2> QED BY <2>1, <2>2
<1>4. c.type # "integer"
  BY DEF IsControl, Plain, Geometric, Integral, Sides
<1>5. cv = [type |-> "int32", array |-> FALSE, elems |-> <<0>>] /\ c.type = "int32"
  <2>1. cv \in {ETM_Auto, [type |-> "int32", array |-> FALSE, elems |-> <<0>>]}
    BY <1>1
  <2> HIDE DEF cv
  <2> QED BY <1>2, <1>3, <1>4, <2>1
<1>6. c.type \in Numeric /\ IsParameterValue(v)
  BY <1>5 DEF Numeric, Integral, Typed
<1>7. c.extent = 0
  BY <1>5, <1>6, NumbersConvert
<1>8. v.type = "integer"
  BY <1>5, <1>7 DEF cv_to_pv_type, Integral
<1>9. cv = ScalarOf("int32", v.elems[1])
  BY <1>5, <1>8 DEF pv_to_cv, Integral, Narrow
<1>10. v.elems[1] = 0
  BY <1>5, <1>9 DEF ScalarOf
<1>11. v \in [type : ParameterTypes, elems : Seq(Int)] /\ Len(v.elems) = 1
  BY <1>6, <1>8 DEF IsParameterValue, SingleTypes
<1>12. v.elems = <<0>>
  BY <1>10, <1>11
<1>13. v = [type |-> v.type, elems |-> v.elems]
  BY <1>11
<1> QED BY <1>8, <1>12, <1>13 DEF ETM_Auto, Value

\* No list that is accepted tells the camera both.
LEMMA AppliedNeverBoth ==
  ASSUME NEW S, NEW wish \in Seq(S), Distinct(wish), NEW stored, NEW list, list = restore(wish, stored),
         NEW p, DOMAIN p \subseteq Supported,
         ~Refused(p, list), validate_new_parameters(p, list),
         \A n \in DOMAIN controls : IsControl(controls[n]),
         \A i \in DOMAIN list : list[i].name \in Supported => Typed(controls[list[i].name], list[i].value)
  PROVE  ~Conflict(Applied(list))
<1>0. PICK T : list \in Seq(T)
  BY RestoreKeepsMode
<1> SUFFICES ASSUME Mode \in DOMAIN Applied(list), ET \in DOMAIN Applied(list),
                    Applied(list)[Mode] \in {ETM_Auto, pv_to_cv(ETM_Auto, "int32")}
             PROVE  FALSE
  BY DEF Conflict
<1> DEFINE m == Max(Mentions(list, Mode))
<1>1. Settings(list, Mode) # {} /\ Settings(list, ET) # {}
      /\ Applied(list)[Mode] = pv_to_cv(list[Max(Settings(list, Mode))].value, controls[Mode].type)
  BY DEF Applied
<1>2. Mentions(list, Mode) # {}
  BY <1>1 DEF Settings
<1>3. Mentions(list, Mode) = {m}
  BY <1>2, ModeEntry
<1>4. m \in Settings(list, Mode)
  BY <1>1, <1>3 DEF Settings
<1>5. list[m].value # NotSet
  BY <1>4 DEF Settings
<1>6. Settings(list, Mode) = {m} /\ is_set(list, Mode) /\ find(list, Mode) = list[m].value
  BY <1>2, <1>5, ModeEntry
<1> HIDE DEF m
<1>7. Max(Settings(list, Mode)) = m
  <2>1. Settings(list, Mode) \subseteq Mentions(list, Mode)
    BY DEF Settings
  <2> QED BY <1>0, <1>6, <2>1, LastMention
<1>8. /\ m \in DOMAIN list /\ list[m].name = Mode
      /\ Mode \in Supported /\ Mode \in DOMAIN controls /\ cv_to_pv_type(controls[Mode]) # Unsupported
      /\ ValidValue(controls[Mode], list[m].value)
  BY <1>0, <1>4, AcceptedValues
<1>9. IsControl(controls[Mode]) /\ Typed(controls[Mode], list[m].value)
  BY <1>8
<1>10. pv_to_cv(list[m].value, controls[Mode].type) \in {ETM_Auto, pv_to_cv(ETM_Auto, "int32")}
  BY <1>1, <1>7
<1>11. list[m].value.type = cv_to_pv_type(controls[Mode]) /\ pv_to_cv(list[m].value, controls[Mode].type) # Invalid
  BY <1>8 DEF ValidValue
<1>12. list[m].value = ETM_Auto
  BY <1>8, <1>9, <1>10, <1>11, OnlyAutoIsAutomatic
<1>13. check(p, list)
  BY DEF validate_new_parameters
<1> QED BY <1>0, <1>1, <1>6, <1>12, <1>13, CheckedMode

-----------------------------------------------------------------------------
(* The defaults *)

\* The default of a control that can be a parameter is a value for it.
LEMMA DefaultTyped ==
  ASSUME NEW c, IsControl(c), DefaultParameter(c).type # Unsupported
  PROVE  Typed(c, DefaultParameter(c))
<1> DEFINE d == Default(c)
           e == clamp(d, c.min, c.max)
           v == cv_to_pv(e)
<1>1. d = None \/ (d = c.def /\ DOMAIN d = DOMAIN None /\ d.type = c.type /\ ~(c.extent > 0 /\ ~d.array))
  BY DEF Default, IsControl, IsDefault
<1>2. v = DefaultParameter(c)
  BY DEF DefaultParameter
<1>3. e.type = d.type /\ e.elems = [i \in DOMAIN d.elems |->
              ClipElement(d.type, d.elems[i], Element(c.min, i), Element(c.max, i))]
  <2>1. "type" \in DOMAIN d /\ "elems" \in DOMAIN d
    BY <1>1 DEF None
  <2> HIDE DEF d
  <2> QED BY <2>1 DEF clamp
<1>4. c.extent \in Nat \cup {-1}
  BY DEF IsControl, Dynamic
<1>5. c.type \in Numeric \cup {"bool", "string", "rect", "size", "point"}
  BY DEF IsControl, Plain, Numeric, Geometric, Sides
<1>6. Typed(c, NotSet)
  BY DEF Typed, NotSet, IsParameterValue, ParameterTypes, SingleTypes
<1>7. CASE d = None
  <2>1. e.type = "none" /\ e.elems = [i \in 1 .. 0 |->
              ClipElement("none", <<>>[i], Element(c.min, i), Element(c.max, i))]
    BY <1>3, <1>7 DEF None
  <2> HIDE DEF e
  <2>2. e.elems = <<>>
    BY <2>1
  <2> QED BY <1>2, <1>6, <2>2 DEF cv_to_pv
<1>8. CASE d # None /\ c.type \in Numeric
  <2>1. /\ d \in [type : {c.type}, array : BOOLEAN, elems : Seq(Int)]
        /\ d.array /\ c.extent > 0 => Len(d.elems) = c.extent
        /\ IsBound(c, c.min) /\ IsBound(c, c.max)
    BY <1>1, <1>8 DEF IsControl, IsDefault
  <2>2. ASSUME NEW i \in DOMAIN d.elems
        PROVE  ClipElement(d.type, d.elems[i], Element(c.min, i), Element(c.max, i)) \in Int
    <3> HIDE DEF d
    <3>1. i \in Nat \ {0} /\ i <= Len(d.elems) /\ d.elems[i] \in Int
      BY <2>1
    <3>2. (c.min.array \/ c.max.array) => c.extent > 0
      BY <2>1 DEF IsBound
    <3>3. c.extent > 0 => i <= c.extent
      BY <1>1, <1>8, <2>1, <3>1
    <3>4. Element(c.min, i) \in Int /\ Element(c.max, i) \in Int
      BY <2>1, <3>1, <3>2, <3>3, BoundsAreNumbers
    <3>5. d.type \notin {"bool", "rect", "point"}
      BY <1>8, <2>1 DEF Numeric, Integral
    <3> QED BY <3>1, <3>4, <3>5 DEF ClipElement, Clip
  <2>3. e.elems \in Seq(Int) /\ e.type = c.type
    <3>1. DOMAIN d.elems = 1 .. Len(d.elems) /\ Len(d.elems) \in Nat /\ d.type = c.type
      BY <2>1
    <3> HIDE DEF d, e
    <3>2. e.elems \in [1 .. Len(d.elems) -> Int]
      BY <1>3, <2>2, <3>1
    <3> QED BY <1>3, <3>1, <3>2
  <2> HIDE DEF d, e
  <2>4. CASE e.elems = <<>>
    BY <1>2, <1>6, <2>4 DEF cv_to_pv
  <2>5. CASE Len(e.elems) = 1
    <3>1. v = cv_to_pv_scalar(c.type, e.elems[1]) /\ e.elems[1] \in Int
      BY <2>3, <2>5 DEF cv_to_pv
    <3>2. v = Value("integer", <<e.elems[1]>>) \/ v = Value("double", <<e.elems[1]>>)
      BY <1>8, <3>1 DEF cv_to_pv_scalar, Numeric, ScalarTypes, Geometric, Sides
    <3> HIDE DEF v
    <3>3. <<e.elems[1]>> \in Seq(Int) /\ Len(<<e.elems[1]>>) = 1
      BY <3>1
    <3>4. \/ v = [type |-> "integer", elems |-> <<e.elems[1]>>]
          \/ v = [type |-> "double", elems |-> <<e.elems[1]>>]
      BY <3>2 DEF Value
    <3>5. v \in [type : {"integer", "double"}, elems : Seq(Int)] /\ Len(v.elems) = 1
      BY <3>3, <3>4
    <3>6. IsParameterValue(v)
      BY <3>5 DEF IsParameterValue, ParameterTypes, SingleTypes
    <3> QED BY <1>2, <3>5, <3>6 DEF Typed, ParameterTypes, SingleTypes
  <2>6. CASE e.elems # <<>> /\ Len(e.elems) # 1
    <3>1. v = cv_to_pv_array(c.type, e.elems)
      BY <2>3, <2>6 DEF cv_to_pv
    <3>2. v.type # Unsupported
      BY <1>2
    <3> HIDE DEF v
    <3>3. \/ v = Value("byte_array", e.elems) \/ v = Value("integer_array", e.elems)
          \/ v = Value("double_array", e.elems)
      BY <1>8, <3>1, <3>2 DEF cv_to_pv_array, Numeric, Integral, ArrayTypes, Value
    <3> QED BY <1>2, <2>3, <3>3
            DEF Typed, IsParameterValue, ParameterTypes, SingleTypes, ArrayTypes, Value
  <2> QED BY <2>4, <2>5, <2>6
<1>9. CASE d # None /\ c.type \notin Numeric
  <2>1. d.type = c.type /\ e.type = c.type
    BY <1>1, <1>3, <1>9
  <2> HIDE DEF d, e
  <2>2. CASE e.elems = <<>>
    BY <1>2, <1>6, <2>2 DEF cv_to_pv
  <2>3. CASE Len(e.elems) = 1 /\ e.elems # <<>>
    <3>1. v = cv_to_pv_scalar(c.type, e.elems[1])
      BY <2>1, <2>3 DEF cv_to_pv
    <3>2. v.type = ScalarTypes[c.type]
      BY <1>5, <1>9, <3>1 DEF cv_to_pv_scalar, Numeric, Integral, Value
    <3> HIDE DEF v
    <3>3. v.type \in ParameterTypes
      BY <1>5, <1>9, <3>2 DEF ScalarTypes, ParameterTypes, SingleTypes
    <3> QED BY <1>2, <1>9, <3>3 DEF Typed
  <2>4. CASE e.elems # <<>> /\ Len(e.elems) # 1
    <3>1. v = cv_to_pv_array(c.type, e.elems) /\ v.type # Unsupported
      BY <1>2, <2>1, <2>4 DEF cv_to_pv
    <3> HIDE DEF v
    <3>2. v.type = "bool_array" \/ v.type = "string_array"
      BY <1>5, <1>9, <3>1 DEF cv_to_pv_array, Numeric, Integral, ArrayTypes, Value
    <3>3. v.type \in ParameterTypes
      BY <3>2 DEF ParameterTypes, ArrayTypes
    <3> QED BY <1>2, <1>9, <3>3 DEF Typed
  <2> QED BY <2>2, <2>3, <2>4
<1> QED BY <1>7, <1>8, <1>9

-----------------------------------------------------------------------------
(* The invariant *)

\* The parameters are of supported controls and not in conflict.
SoundParameters(p) ==
  /\ DOMAIN p \subseteq Supported
  /\ \A n \in DOMAIN p : p[n].type \in ParameterTypes
  /\ ~Conflict(p)

\* The exposure time set aside is a value for the control.
SoundStore(stored) == stored # NotSet => ET \in Supported /\ Typed(controls[ET], stored)

\* What waits for the camera is within its controls' bounds, not in conflict.
SoundPending(values) ==
  /\ DOMAIN values \subseteq Supported
  /\ ~Conflict(values)
  /\ \A n \in DOMAIN values : Within(controls[n], values[n])

HandlerInv == SoundParameters(param) /\ SoundStore(store) /\ SoundPending(pending)

Given == \E start \in Starts : controls = start[1] /\ overrides = start[2]

\* A worker that has found a parameter missing is at a control; before the
\* constructor has declared the controls there is none.
WorkersInv ==
  /\ at \in [Workers -> Nat] /\ missing \in [Workers -> BOOLEAN]
  /\ camera_controls \in Seq(Supported)
  /\ \A w \in Workers : missing[w] => up /\ at[w] \in DOMAIN camera_controls
  /\ ~up => camera_controls = <<>>

ParametersInv == Given /\ HandlerInv /\ WorkersInv

\* What the assumption on the constants gives the proofs about the tables of controls.
LEMMA GivenControls ==
  ASSUME Given
  PROVE  /\ IsFiniteSet(DOMAIN controls) /\ IsFiniteSet(Supported)
         /\ \A n \in DOMAIN controls : IsControl(controls[n])
         /\ \A n \in DOMAIN overrides : IsParameterValue(overrides[n])
<1>1. /\ IsFiniteSet(DOMAIN controls)
      /\ \A n \in DOMAIN controls : IsControl(controls[n])
      /\ \A n \in DOMAIN overrides : IsParameterValue(overrides[n])
  BY ParametersAssumption DEF Given
<1>2. Supported \subseteq DOMAIN controls
  BY DEF Supported
<1> QED BY <1>1, <1>2, FS_Subset

\* Every value a client may give is a value for every control.
LEMMA ParameterValuesAreTyped ==
  ASSUME NEW c, NEW v, IsParameterValue(v) \/ v \in {NotSet, ETM_Auto, ETM_Manual}
  PROVE  Typed(c, v)
<1>1. CASE IsParameterValue(v)
  BY <1>1 DEF Typed, IsParameterValue
<1>2. CASE v = NotSet
  <2>1. v = [type |-> "not_set", elems |-> <<>>]
    BY <1>2 DEF NotSet
  <2>2. v \in [type : ParameterTypes, elems : Seq(Int)] /\ v.type \notin SingleTypes
    BY <2>1 DEF ParameterTypes, SingleTypes
  <2> QED BY <2>2 DEF Typed, IsParameterValue
<1>3. ASSUME NEW x \in Int, v = [type |-> "integer", elems |-> <<x>>] PROVE Typed(c, v)
  <2>1. v \in [type : ParameterTypes, elems : Seq(Int)] /\ Len(v.elems) = 1
    BY <1>3 DEF ParameterTypes, SingleTypes
  <2> QED BY <2>1 DEF Typed, IsParameterValue
<1>4. v = ETM_Auto \/ v = ETM_Manual => \E x \in Int : v = [type |-> "integer", elems |-> <<x>>]
  BY DEF ETM_Auto, ETM_Manual, Value
<1> QED BY <1>1, <1>2, <1>3, <1>4

-----------------------------------------------------------------------------
(* A set of parameters *)

\* What a list sets a name to is a value for its control.
TypedList(list) ==
  \A i \in DOMAIN list : /\ list[i].value.type \in ParameterTypes
                         /\ list[i].name \in Supported => Typed(controls[list[i].name], list[i].value)

\* restore() puts back values of the right types: the wish and the store both hold only such.
LEMMA RestoreTyped ==
  ASSUME NEW S, NEW wish \in Seq(S), TypedList(wish), NEW stored, SoundStore(stored),
         NEW list, list = restore(wish, stored)
  PROVE  TypedList(list)
<1>1. ASSUME NEW v, list = Append(wish, Assign(ET, v)), v.type \in ParameterTypes,
             ET \in Supported => Typed(controls[ET], v)
      PROVE  TypedList(list)
  <2>1. /\ Len(list) = Len(wish) + 1 /\ DOMAIN wish = 1 .. Len(wish) /\ DOMAIN list = 1 .. Len(list)
        /\ Len(wish) \in Nat /\ \A i \in DOMAIN wish : list[i] = wish[i]
        /\ list[Len(list)] = Assign(ET, v)
    BY <1>1, Appended
  <2>2. list[Len(list)].name = ET /\ list[Len(list)].value = v
    BY <2>1 DEF Assign
  <2>3. \A i \in DOMAIN list : i \in DOMAIN wish \/ i = Len(list)
    BY <2>1
  <2> QED BY <1>1, <2>1, <2>2, <2>3 DEF TypedList
<1>2. CASE list = wish
  BY <1>2
<1>3. CASE list = Append(wish, Assign(ET, NotSet))
  <2>1. Typed(controls[ET], NotSet)
    BY ParameterValuesAreTyped
  <2> QED BY <1>1, <1>3, <2>1 DEF Typed
<1>4. CASE GivesBack(wish, stored) /\ list = Append(wish, Assign(ET, stored))
  <2>1. Typed(controls[ET], stored)
    BY <1>4 DEF GivesBack, SoundStore
  <2> QED BY <1>1, <1>4, <2>1 DEF Typed
<1> QED BY <1>2, <1>3, <1>4, Restored

\* The parameters after a list is set are of supported controls and have
\* values of parameters.
LEMMA AssignedTyped ==
  ASSUME NEW S, NEW list \in Seq(S), TypedList(list), NEW p, SoundParameters(p)
  PROVE  /\ DOMAIN Assigned(p, list) \subseteq Supported
         /\ \A n \in DOMAIN Assigned(p, list) : Assigned(p, list)[n].type \in ParameterTypes
<1>1. DOMAIN Assigned(p, list) \subseteq DOMAIN p
  BY DEF Assigned
<1>2. ASSUME NEW n \in DOMAIN Assigned(p, list)
      PROVE  Assigned(p, list)[n].type \in ParameterTypes
  <2>1. Assigned(p, list)[n] = IF Mentions(list, n) = {} THEN p[n] ELSE list[Max(Mentions(list, n))].value
    BY DEF Assigned
  <2>2. CASE Mentions(list, n) = {}
    BY <1>1, <2>1, <2>2 DEF SoundParameters
  <2>3. CASE Mentions(list, n) # {}
    <3>1. Max(Mentions(list, n)) \in DOMAIN list
      <4>1. Max(Mentions(list, n)) \in Mentions(list, n)
        BY <2>3, LastMention
      <4> QED BY <4>1 DEF Mentions
    <3> QED BY <2>1, <2>3, <3>1 DEF TypedList
  <2> QED BY <2>2, <2>3
<1> QED BY <1>1, <1>2 DEF SoundParameters

\* However a set of parameters ends, it leaves the parameters, the store and
\* what waits for the camera sound.
LEMMA SetKeepsSound ==
  ASSUME NEW S, NEW wish \in Seq(S), Distinct(wish), TypedList(wish),
         NEW p, SoundParameters(p), NEW kept, SoundStore(kept), SoundPending(pending),
         \A n \in DOMAIN controls : IsControl(controls[n]),
         SetAtomically(p, kept, wish)
  PROVE  SoundParameters(param') /\ SoundStore(store') /\ SoundPending(pending')
<1> DEFINE list == restore(wish, kept)
           left == IF GivesBack(wish, kept) THEN NotSet ELSE kept
<1>1. \/ param' = p /\ store' = kept /\ pending' = pending
      \/ /\ ~Refused(p, list) /\ validate_new_parameters(p, list)
         /\ param' = Assigned(p, list) /\ store' = left /\ pending' = Applied(list)
  BY DEF SetAtomically, store_commit_or_revert
<1>2. CASE param' = p /\ store' = kept /\ pending' = pending
  BY <1>2
<1>3. CASE /\ ~Refused(p, list) /\ validate_new_parameters(p, list)
           /\ param' = Assigned(p, list) /\ store' = left /\ pending' = Applied(list)
  <2>1. TypedList(list) /\ \E T : list \in Seq(T)
    BY RestoreTyped, RestoreKeepsMode
  <2>2. PICK T : list \in Seq(T)
    BY <2>1
  <2>3. SoundStore(left)
    BY DEF SoundStore
  <2> HIDE DEF list, left
  <2>4. check(p, list)
    BY <1>3 DEF validate_new_parameters
  <2>5. ~Conflict(Assigned(p, list))
    <3>1. \A i \in DOMAIN wish : wish[i].value.type \in ParameterTypes
      BY DEF TypedList
    <3>2. ~Conflict(p) /\ \A n \in DOMAIN p : p[n].type \in ParameterTypes
      BY DEF SoundParameters
    <3> QED BY <2>4, <3>1, <3>2, AssignedNeverBoth DEF list
  <2>6. SoundParameters(Assigned(p, list))
    BY <2>1, <2>2, <2>5, AssignedTyped DEF SoundParameters
  <2>7. DOMAIN p \subseteq Supported
    BY DEF SoundParameters
  <2>8. \A i \in DOMAIN list : list[i].name \in Supported => Typed(controls[list[i].name], list[i].value)
    BY <2>1 DEF TypedList
  <2>9. ~Conflict(Applied(list))
    BY <1>3, <2>7, <2>8, AppliedNeverBoth DEF list
  <2>10. SoundPending(Applied(list))
    BY <1>3, <2>2, <2>7, <2>8, <2>9, AppliedWithin DEF SoundPending
  <2> QED BY <1>3, <2>3, <2>6, <2>10
<1> QED BY <1>1, <1>2, <1>3

-----------------------------------------------------------------------------
(* The constructor *)

\* A finite set as a list has each of its elements once.
LEMMA ListOfSet ==
  ASSUME NEW T, IsFiniteSet(T)
  PROVE  SetToSeq(T) \in Seq(T) /\ IsInjective(SetToSeq(T))
<1>1. Cardinality(T) \in Nat /\ ExistsBijection(1 .. Cardinality(T), T)
  BY FS_CardinalityType
<1>2. \E f \in [1 .. Cardinality(T) -> T] : IsInjective(f)
  BY <1>1 DEF ExistsBijection, Bijection, Injection
<1>3. SetToSeq(T) \in [1 .. Cardinality(T) -> T] /\ IsInjective(SetToSeq(T))
  BY <1>2 DEF SetToSeq
<1> QED BY <1>1, <1>3

\* Values of all controls, each for its control.
TypedValues(p) == DOMAIN p = Supported /\ \A n \in Supported : Typed(controls[n], p[n])

\* Resolving the conflicts of the defaults leaves typed parameters and a sound store.
LEMMA ResolveDefaultsTyped ==
  ASSUME NEW p, TypedValues(p)
  PROVE  TypedValues(resolve_defaults(p)[1]) /\ SoundStore(resolve_defaults(p)[2])
<1> DEFINE q == IF Mode \in DOMAIN p /\ p[Mode] = NotSet THEN [p EXCEPT ![Mode] = ETM_Auto] ELSE p
<1>1. \A n \in Supported : Typed(controls[n], ETM_Auto) /\ Typed(controls[n], NotSet)
  BY ParameterValuesAreTyped
<1>2. TypedValues(q)
  BY <1>1 DEF TypedValues
<1>3. resolve_defaults(p) = IF conflict_exposure(q) THEN <<[q EXCEPT ![ET] = NotSet], q[ET]>> ELSE <<q, NotSet>>
  BY DEF resolve_defaults
<1> HIDE DEF q
<1>4. CASE conflict_exposure(q)
  <2>1. ET \in DOMAIN q
    BY <1>4 DEF conflict_exposure, IsSet
  <2>2. TypedValues([q EXCEPT ![ET] = NotSet])
    BY <1>1, <1>2 DEF TypedValues
  <2>3. SoundStore(q[ET])
    BY <1>2, <2>1 DEF TypedValues, SoundStore
  <2> QED BY <1>3, <1>4, <2>2, <2>3
<1>5. CASE ~conflict_exposure(q)
  BY <1>2, <1>3, <1>5 DEF SoundStore
<1> QED BY <1>4, <1>5

\* Resolving the conflicts of the overrides leaves typed parameters and a sound store.
LEMMA ResolveOverridesTyped ==
  ASSUME NEW p, TypedValues(p), NEW stored, SoundStore(stored)
  PROVE  TypedValues(resolve_overrides(p, stored)[1]) /\ SoundStore(resolve_overrides(p, stored)[2])
<1> DEFINE q == IF conflict_exposure(p) THEN [p EXCEPT ![Mode] = ETM_Manual] ELSE p
           Back == IsSet(q, Mode) /\ q[Mode] = ETM_Manual /\ ~IsSet(q, ET) /\ stored # NotSet
<1>1. \A n \in Supported : Typed(controls[n], ETM_Manual)
  BY ParameterValuesAreTyped
<1>2. TypedValues(q)
  BY <1>1 DEF TypedValues
<1>3. resolve_overrides(p, stored) = IF Back THEN <<[q EXCEPT ![ET] = stored], NotSet>> ELSE <<q, stored>>
  BY DEF resolve_overrides
<1> HIDE DEF q
<1>4. CASE Back
  <2>1. Typed(controls[ET], stored)
    BY <1>4 DEF SoundStore
  <2>2. TypedValues([q EXCEPT ![ET] = stored])
    BY <1>2, <2>1 DEF TypedValues
  <2> QED BY <1>3, <1>4, <2>2 DEF SoundStore
<1>5. CASE ~Back
  BY <1>2, <1>3, <1>5
<1> QED BY <1>4, <1>5

\* The elements of a sequence over a set belong to the set.
LEMMA ElementsAreIn ==
  ASSUME NEW T, NEW list \in Seq(T)
  PROVE  \A i \in DOMAIN list : list[i] \in T
OBVIOUS

\* The list of all values mentions no name twice.
LEMMA DeclaredList ==
  ASSUME NEW p, TypedValues(p), IsFiniteSet(Supported),
         NEW T, T = {Assign(n, p[n]) : n \in Supported}, NEW list, list = SetToSeq(T)
  PROVE  list \in Seq(T) /\ Distinct(list) /\ TypedList(list)
<1> DEFINE f == [n \in Supported |-> Assign(n, p[n])]
<1>1. f \in Surjection(Supported, T)
  BY DEF Surjection
<1>2. IsFiniteSet(T)
  BY <1>1, FS_Surjection
<1>3. list \in Seq(T) /\ IsInjective(list)
  BY <1>2, ListOfSet
<1>4. \A a, b \in T : a.name = b.name => a = b
  BY DEF Assign
<1>5. \A i \in DOMAIN list : list[i] \in T
  BY <1>3, ElementsAreIn
<1>6. Distinct(list)
  BY <1>3, <1>4, <1>5 DEF Distinct, IsInjective
<1>7. \A a \in T : /\ a.name \in Supported /\ Typed(controls[a.name], a.value)
                   /\ a.value.type \in ParameterTypes
  BY DEF Assign, TypedValues, Typed
<1> QED BY <1>3, <1>5, <1>6, <1>7 DEF TypedList

\* The constructor's set of parameters starts from undecided parameters.
LEMMA DeclareKeepsSound ==
  ASSUME Given, HandlerInv, declare
  PROVE  SoundParameters(param') /\ SoundStore(store') /\ SoundPending(pending')
<1> DEFINE p0 == [n \in Supported |-> DefaultParameter(controls[n])]
           defaults == resolve_defaults(p0)
           configured == [n \in Supported |-> IF n \in DOMAIN overrides THEN overrides[n] ELSE defaults[1][n]]
           resolved == resolve_overrides(configured, defaults[2])
           T == {Assign(n, resolved[1][n]) : n \in Supported}
           none == [n \in Supported |-> NotSet]
<1>1. /\ IsFiniteSet(Supported)
      /\ \A n \in DOMAIN controls : IsControl(controls[n])
      /\ \A n \in DOMAIN overrides : IsParameterValue(overrides[n])
  BY GivenControls
<1>2. TypedValues(p0)
  <2>1. ASSUME NEW n \in Supported PROVE Typed(controls[n], DefaultParameter(controls[n]))
    <3>1. IsControl(controls[n]) /\ DefaultParameter(controls[n]).type # Unsupported
      BY <1>1 DEF Supported
    <3> QED BY <3>1, DefaultTyped
  <2> QED BY <2>1 DEF TypedValues
<1> HIDE DEF p0
<1>3. TypedValues(defaults[1]) /\ SoundStore(defaults[2])
  BY <1>2, ResolveDefaultsTyped
<1> HIDE DEF defaults
<1>4. TypedValues(configured)
  <2>1. ASSUME NEW n \in Supported, n \in DOMAIN overrides PROVE Typed(controls[n], overrides[n])
    BY <1>1, <2>1, ParameterValuesAreTyped
  <2> QED BY <1>3, <2>1 DEF TypedValues
<1> HIDE DEF configured
<1>5. TypedValues(resolved[1]) /\ SoundStore(resolved[2])
  BY <1>3, <1>4, ResolveOverridesTyped
<1>6. SetAtomically(none, resolved[2], SetToSeq(T))
  BY DEF declare, p0, defaults, configured
<1> HIDE DEF resolved
<1>7. SetToSeq(T) \in Seq(T) /\ Distinct(SetToSeq(T)) /\ TypedList(SetToSeq(T))
  BY <1>1, <1>5, DeclaredList
<1>8. SoundParameters(none)
  BY DEF SoundParameters, Conflict, NotSet, ParameterTypes
<1>9. SoundPending(pending)
  BY DEF HandlerInv
<1> HIDE DEF T, none
<1> QED BY <1>1, <1>5, <1>6, <1>7, <1>8, <1>9, SetKeepsSound

-----------------------------------------------------------------------------
(* Steps *)

\* What a client sets: one or two parameters, each once, to values of
\* parameters or to nothing.
LEMMA WishIsList ==
  ASSUME Given, NEW wish \in Wishes
  PROVE  (\E S : wish \in Seq(S)) /\ Distinct(wish) /\ TypedList(wish)
<1> DEFINE to(n) == {Assign(n, v) : v \in controls[n].tries \cup {NotSet}}
           Sound(a) == /\ a.value.type \in ParameterTypes
                       /\ a.name \in Supported => Typed(controls[a.name], a.value)
<1>1. ASSUME NEW n \in DOMAIN controls, NEW a \in to(n) PROVE Sound(a)
  <2>1. PICK v \in controls[n].tries \cup {NotSet} : a = Assign(n, v)
    OBVIOUS
  <2>2. IsControl(controls[n])
    BY GivenControls
  <2>3. IsParameterValue(v) \/ v = NotSet
    BY <2>2 DEF IsControl
  <2>4. Typed(controls[n], v)
    BY <2>3, ParameterValuesAreTyped
  <2> QED BY <2>1, <2>4 DEF Assign, Typed
<1>2. \/ \E n \in DOMAIN controls : \E a \in to(n) : wish = <<a>>
      \/ \E n \in DOMAIN controls : \E a \in to(n) :
           \E m \in DOMAIN controls : \E b \in to(m) : wish = <<a, b>> /\ a.name # b.name
  BY DEF Wishes
<1> HIDE DEF to
<1>3. ASSUME NEW a, wish = <<a>>, Sound(a)
      PROVE  (\E S : wish \in Seq(S)) /\ Distinct(wish) /\ TypedList(wish)
  <2>1. wish \in Seq({a})
    BY <1>3
  <2>2. DOMAIN wish = {1} /\ wish[1] = a
    BY <1>3
  <2> QED BY <1>3, <2>1, <2>2 DEF Distinct, TypedList
<1>4. ASSUME NEW a, NEW b, wish = <<a, b>>, a.name # b.name, Sound(a), Sound(b)
      PROVE  (\E S : wish \in Seq(S)) /\ Distinct(wish) /\ TypedList(wish)
  <2>1. wish \in Seq({a, b})
    BY <1>4
  <2>2. DOMAIN wish = {1, 2} /\ wish[1] = a /\ wish[2] = b
    BY <1>4
  <2> QED BY <1>4, <2>1, <2>2 DEF Distinct, TypedList
<1> HIDE DEF Sound
<1> QED BY <1>1, <1>2, <1>3, <1>4

\* The invariant holds before the constructor has declared anything.
LEMMA InitInv == Init => ParametersInv
<1> SUFFICES ASSUME Init PROVE ParametersInv
  OBVIOUS
<1>1. Given
  BY DEF Init, Given
<1>2. HandlerInv
  <2>1. DOMAIN Nothing = {}
    BY DEF Nothing
  <2>2. param = Nothing /\ store = NotSet /\ pending = Nothing
    BY DEF Init
  <2> QED BY <2>1, <2>2 DEF HandlerInv, SoundParameters, SoundStore, SoundPending, Conflict
<1>3. WorkersInv
  BY DEF Init, WorkersInv
<1> QED BY <1>1, <1>2, <1>3 DEF ParametersInv

\* What the invariant says depends on no other variable.
LEMMA SoundStays ==
  ASSUME UNCHANGED controls, SoundParameters(param'), SoundStore(store'), SoundPending(pending')
  PROVE  HandlerInv'
<1>1. Supported' = Supported /\ controls' = controls
  BY DEF Supported
<1>2. SoundParameters(param)'
  BY <1>1 DEF SoundParameters, Conflict
<1>3. SoundStore(store)'
  BY <1>1 DEF SoundStore, Typed
<1>4. SoundPending(pending)'
  BY <1>1 DEF SoundPending, Conflict, Within
<1> QED BY <1>2, <1>3, <1>4 DEF HandlerInv

\* The constructor keeps the invariant.
LEMMA ConstructStep ==
  ASSUME ParametersInv, Construct
  PROVE  ParametersInv'
<1>1. declare /\ UNCHANGED <<controls, overrides, at, missing>> /\ up' = TRUE /\ ~up
      /\ camera_controls' = SetToSeq(Supported)
  BY DEF Construct
<1>2. Given' /\ Supported' = Supported
  BY <1>1 DEF ParametersInv, Given, Supported
<1>3. HandlerInv'
  <2>1. SoundParameters(param') /\ SoundStore(store') /\ SoundPending(pending')
    BY <1>1, DeclareKeepsSound DEF ParametersInv
  <2> QED BY <1>1, <2>1, SoundStays
<1>4. camera_controls' \in Seq(Supported)
  BY <1>1, GivenControls, ListOfSet DEF ParametersInv
<1>5. WorkersInv'
  BY <1>1, <1>2, <1>4 DEF ParametersInv, WorkersInv
<1> QED BY <1>2, <1>3, <1>5 DEF ParametersInv

\* A request to set parameters, accepted or refused, keeps the invariant.
LEMMA SetStep ==
  ASSUME ParametersInv, NEW wish \in Wishes, SetParameters(wish)
  PROVE  ParametersInv'
<1>1. UNCHANGED <<controls, overrides, camera_controls, up, at, missing>>
  BY DEF SetParameters, given, workers
<1>2. Given' /\ Supported' = Supported
  BY <1>1 DEF ParametersInv, Given, Supported
<1>3. SoundParameters(param) /\ SoundStore(store) /\ SoundPending(pending)
  BY DEF ParametersInv, HandlerInv
<1>4. CASE tmp_store # NotSet
  <2>1. UNCHANGED <<param, store, pending>>
    BY <1>4 DEF SetParameters, handler
  <2> QED BY <1>1, <1>2, <1>3, <2>1, SoundStays DEF ParametersInv, WorkersInv
<1>5. CASE tmp_store = NotSet
  <2>1. SetAtomically(param, store, wish)
    BY <1>5 DEF SetParameters
  <2>2. PICK S : wish \in Seq(S)
    BY WishIsList DEF ParametersInv
  <2>3. Distinct(wish) /\ TypedList(wish)
    BY WishIsList DEF ParametersInv
  <2>4. \A n \in DOMAIN controls : IsControl(controls[n])
    BY GivenControls DEF ParametersInv
  <2>5. SoundParameters(param') /\ SoundStore(store') /\ SoundPending(pending')
    BY <1>3, <2>1, <2>2, <2>3, <2>4, SetKeepsSound
  <2>6. HandlerInv'
    BY <1>1, <2>5, SoundStays
  <2> QED BY <1>1, <1>2, <2>6 DEF ParametersInv, WorkersInv
<1> QED BY <1>4, <1>5

\* A worker that passes the waiting controls to the camera keeps the invariant.
LEMMA WorkerStep ==
  ASSUME ParametersInv, NEW w \in Workers, Worker(w)
  PROVE  ParametersInv'
<1>0. /\ UNCHANGED <<controls, overrides, camera_controls, up, store>>
      /\ SoundParameters(param) /\ SoundStore(store) /\ SoundPending(pending)
  BY DEF ParametersInv, HandlerInv, Worker, Complete, HasParameter, DeclareParameter, move_control_values,
         given, handler
<1>1. Given' /\ Supported' = Supported
  BY <1>0 DEF ParametersInv, Given, Supported
<1>2. camera_controls \in Seq(Supported) /\ 0 \notin DOMAIN camera_controls
      /\ Len(camera_controls) + 1 \notin DOMAIN camera_controls
      /\ Len(camera_controls) + 1 \in Nat
  BY DEF ParametersInv, WorkersInv
<1>3. CASE Complete(w)
  <2>1. WorkersInv'
    BY <1>0, <1>1, <1>2, <1>3 DEF ParametersInv, WorkersInv, Complete
  <2>2. HandlerInv'
    BY <1>0, <1>3, SoundStays DEF Complete, handler
  <2> QED BY <1>1, <2>1, <2>2 DEF ParametersInv
<1>4. CASE HasParameter(w)
  <2>1. at[w] \in Nat /\ at[w] + 1 \in Nat
    BY DEF ParametersInv, WorkersInv
  <2>2. camera_controls # <<>>
    BY <1>4 DEF HasParameter
  <2>3. WorkersInv'
    <3>1. at \in [Workers -> Nat] /\ missing \in [Workers -> BOOLEAN]
      BY DEF ParametersInv, WorkersInv
    <3>2. at' \in [Workers -> Nat] /\ missing' \in [Workers -> BOOLEAN]
      BY <1>4, <2>1, <3>1 DEF HasParameter
    <3>3. up /\ at[w] \in DOMAIN camera_controls
      BY <1>4, <2>2 DEF ParametersInv, WorkersInv, HasParameter
    <3>4. ASSUME NEW v \in Workers, missing'[v] PROVE at'[v] \in DOMAIN camera_controls
      <4>1. CASE v = w
        BY <1>4, <3>1, <3>3, <3>4, <4>1 DEF HasParameter
      <4>2. CASE v # w
        BY <1>4, <3>1, <3>4, <4>2 DEF HasParameter, ParametersInv, WorkersInv
      <4> QED BY <4>1, <4>2
    <3> QED BY <1>0, <1>1, <1>2, <3>2, <3>3, <3>4 DEF WorkersInv
  <2>4. HandlerInv'
    BY <1>0, <1>4, SoundStays DEF HasParameter, handler
  <2> QED BY <1>1, <2>3, <2>4 DEF ParametersInv
<1>5. CASE DeclareParameter(w)
  <2>1. at[w] \in Nat /\ at[w] + 1 \in Nat
    BY DEF ParametersInv, WorkersInv
  <2>2. WorkersInv'
    <3>1. at \in [Workers -> Nat] /\ missing \in [Workers -> BOOLEAN]
      BY DEF ParametersInv, WorkersInv
    <3>2. at' \in [Workers -> Nat] /\ missing' \in [Workers -> BOOLEAN]
      BY <1>5, <2>1, <3>1 DEF DeclareParameter
    <3>3. up
      BY <1>5 DEF ParametersInv, WorkersInv, DeclareParameter
    <3>4. ASSUME NEW v \in Workers, missing'[v] PROVE at'[v] \in DOMAIN camera_controls
      <4>1. missing[v] /\ at'[v] = at[v]
        BY <1>5, <3>1, <3>4 DEF DeclareParameter
      <4> QED BY <4>1 DEF ParametersInv, WorkersInv
    <3> QED BY <1>0, <1>1, <1>2, <3>2, <3>3, <3>4 DEF WorkersInv
  <2>3. camera_controls[at[w]] \in Supported
    BY <1>2, <1>5 DEF ParametersInv, WorkersInv, DeclareParameter
  <2>4. SoundParameters(param')
    <3>1. CASE param' = param
      BY <1>0, <3>1
    <3>2. CASE param' = [n \in DOMAIN param \cup {camera_controls[at[w]]} |->
                           IF n \in DOMAIN param THEN param[n] ELSE NotSet]
      <4>1. NotSet.type \in ParameterTypes /\ NotSet # ETM_Auto /\ NotSet # pv_to_cv(ETM_Auto, "int32")
        BY DEF NotSet, ParameterTypes, ETM_Auto, Value, pv_to_cv, ScalarOf, Integral
      <4>2. /\ DOMAIN param' = DOMAIN param \cup {camera_controls[at[w]]}
            /\ \A n \in DOMAIN param' : param'[n] = IF n \in DOMAIN param THEN param[n] ELSE NotSet
        BY <3>2
      <4>3. ~Conflict(param')
        BY <1>0, <4>1, <4>2 DEF SoundParameters, Conflict
      <4> QED BY <1>0, <2>3, <4>1, <4>2, <4>3 DEF SoundParameters
    <3> QED BY <1>5, <3>1, <3>2 DEF DeclareParameter
  <2>5. HandlerInv'
    BY <1>0, <1>5, <2>4, SoundStays DEF DeclareParameter
  <2> QED BY <1>1, <2>2, <2>5 DEF ParametersInv
<1>6. CASE move_control_values(w)
  <2>1. WorkersInv'
    BY <1>0, <1>1, <1>2, <1>6 DEF ParametersInv, WorkersInv, move_control_values
  <2>2. SoundPending(pending') /\ param' = param
    <3>1. DOMAIN Nothing = {} /\ pending' = Nothing /\ param' = param
      BY <1>6 DEF Nothing, move_control_values
    <3> QED BY <3>1 DEF SoundPending, Conflict
  <2>3. HandlerInv'
    BY <1>0, <2>2, SoundStays
  <2> QED BY <1>1, <2>1, <2>3 DEF ParametersInv
<1> QED BY <1>3, <1>4, <1>5, <1>6 DEF Worker

\* The inductive invariant of the parameters, for every camera, launch file,
\* number of workers and number of sets.
THEOREM ParametersStaySound == Spec => []ParametersInv
<1>1. Init => ParametersInv
  BY InitInv
<1>2. ParametersInv /\ [Next]_vars => ParametersInv'
  <2> SUFFICES ASSUME ParametersInv, [Next]_vars PROVE ParametersInv'
    OBVIOUS
  <2>1. CASE UNCHANGED vars
    <3>1. UNCHANGED <<controls, overrides, camera_controls, up, at, missing, param, store, pending>>
      BY <2>1 DEF vars, given, workers, handler
    <3>2. HandlerInv'
      BY <3>1, SoundStays DEF ParametersInv, HandlerInv
    <3>3. Given' /\ Supported' = Supported
      BY <3>1 DEF ParametersInv, Given, Supported
    <3> QED BY <3>1, <3>2, <3>3 DEF ParametersInv, WorkersInv
  <2> QED BY <2>1, ConstructStep, SetStep, WorkerStep DEF Next
<1> QED BY <1>1, <1>2, PTL DEF Spec

\* Automatic exposure and an exposure time are never set together, neither
\* in the parameters nor in what the camera is given.
THEOREM ExposuresNeverBoth == Spec => []NeverBothExposures
<1>1. ParametersInv => NeverBothExposures
  BY DEF ParametersInv, HandlerInv, SoundParameters, SoundPending, NeverBothExposures
<1> QED BY <1>1, ParametersStaySound, PTL

\* What the camera is given has its control's type and length and is within
\* its bounds.
THEOREM CameraValuesAreValid == Spec => []CameraGetsValidValues
<1>1. ParametersInv => CameraGetsValidValues
  BY DEF ParametersInv, HandlerInv, SoundPending, CameraGetsValidValues
<1> QED BY <1>1, ParametersStaySound, PTL

\* The exposure time set aside leaves the store only when it is given back,
\* and then the camera is given it.
THEOREM StoreIsKept == Spec => SetAsideIsKept
<1> DEFINE Kept == up /\ store' # store =>
                     /\ store' = NotSet
                     /\ ET \in DOMAIN pending' /\ pending'[ET] = pv_to_cv(store, controls[ET].type)
<1>1. ASSUME ParametersInv, [Next]_vars PROVE Kept
  <2>1. SUFFICES ASSUME up, store' # store
                 PROVE  /\ store' = NotSet /\ ET \in DOMAIN pending'
                        /\ pending'[ET] = pv_to_cv(store, controls[ET].type)
    OBVIOUS
  <2>2. PICK wish \in Wishes : SetParameters(wish)
    BY <1>1, <2>1 DEF Next, Construct, Worker, Complete, HasParameter, DeclareParameter, move_control_values,
                      vars, handler
  <2>3. SetAtomically(param, store, wish)
    BY <2>1, <2>2 DEF SetParameters, handler
  <2> DEFINE list == restore(wish, store)
  <2>4. /\ GivesBack(wish, store) /\ store' = NotSet /\ pending' = Applied(list)
        /\ ~Refused(param, list)
    BY <2>1, <2>3 DEF SetAtomically, store_commit_or_revert
  <2>5. PICK S : wish \in Seq(S)
    BY <1>1, WishIsList DEF ParametersInv
  <2>6. list = Append(wish, Assign(ET, store))
    BY <2>4, <2>5, Restored
  <2> HIDE DEF list
  <2>7. /\ list \in Seq(S \cup {Assign(ET, store)}) /\ DOMAIN list = 1 .. Len(list)
        /\ Len(list) \in Nat \ {0} /\ list[Len(list)] = Assign(ET, store)
    BY <2>5, <2>6, Appended
  <2>8. Len(list) \in Settings(list, ET)
    BY <2>4, <2>7 DEF Settings, Mentions, Assign, GivesBack
  <2>9. Max(Settings(list, ET)) = Len(list)
    <3>1. Settings(list, ET) \subseteq Mentions(list, ET) /\ Settings(list, ET) \subseteq 1 .. Len(list)
      BY <2>7 DEF Settings, Mentions
    <3>2. Max(Settings(list, ET)) \in Settings(list, ET) /\ Max(Settings(list, ET)) >= Len(list)
      BY <2>7, <2>8, <3>1, LastMention
    <3> QED BY <2>7, <3>1, <3>2
  <2>10. ET \in DOMAIN controls
    <3>1. list[Len(list)].name \in DOMAIN param
      BY <2>4, <2>7 DEF Refused
    <3> QED BY <1>1, <2>7, <3>1
            DEF ParametersInv, HandlerInv, SoundParameters, Supported, Assign
  <2>11. ET \in DOMAIN Applied(list) /\ Applied(list)[ET] = pv_to_cv(list[Len(list)].value, controls[ET].type)
    BY <2>8, <2>9, <2>10 DEF Applied
  <2> QED BY <2>4, <2>7, <2>11 DEF Assign
<1>2. ParametersInv /\ [Next]_vars => [Kept]_vars
  BY <1>1
<1> HIDE DEF Kept
<1>3. Spec => [][Kept]_vars
  BY <1>2, ParametersStaySound, PTL DEF Spec
<1> QED BY <1>3 DEF SetAsideIsKept, Kept
=============================================================================
