-------------------------- MODULE CameraParameters --------------------------
(***************************************************************************)
(* The camera's controls as parameters of the node: the defaults and the   *)
(* overrides the constructor declares and sets (ParameterHandler::declare),*)
(* the three callbacks around every set of parameters, the handling of the *)
(* conflict between automatic and manual exposure                          *)
(* (ParameterConflictHandler), and the workers that declare again what an  *)
(* unset removed and carry the values to the camera (CameraNode::process). *)
(*                                                                         *)
(* The switch between automatic and manual exposure is ExposureTimeMode,   *)
(* 0 or 1 (AeEnable plays the part of 0 in an older libcamera).  A set of  *)
(* parameters is one action: rclcpp holds the lock of the parameters from  *)
(* the first callback to the last, and has_parameter and declare_parameter *)
(* take it.                                                                *)
(***************************************************************************)
EXTENDS ControlValues

CONSTANTS
  Workers, \* the workers, one per request
  Starts,  \* the pairs of camera and overrides the node may start with: the
           \* camera's controls and the overrides' values by name; a control
           \* has the values that are given to its parameter later, too
  MaxSets  \* bound: sets of parameters after the constructor's

Numeric == Integral \cup {"float"}

\* The types of parameter values with one element.
SingleTypes == {"bool", "integer", "double", "string"}
ParameterTypes == SingleTypes \cup {"not_set", "byte_array", "integer_array"}
                  \cup {ArrayTypes[t] : t \in DOMAIN ArrayTypes}

IsParameterValue(v) ==
  /\ v \in [type : ParameterTypes, elems : Seq(Int)]
  /\ v.type \in SingleTypes => Len(v.elems) = 1

\* One bound for every element, or one for each of a fixed number.
IsBound(c, b) ==
  /\ b.elems \in Seq(Int)
  /\ IF b.array THEN c.extent > 0 /\ Len(b.elems) = c.extent ELSE Len(b.elems) = 1

IsDefault(c, d) ==
  \/ d = None
  \/ /\ DOMAIN d = DOMAIN None /\ d.type = c.type
     /\ c.type \in Numeric => /\ d \in [type : {c.type}, array : BOOLEAN, elems : Seq(Int)]
                              /\ d.array /\ c.extent > 0 => Len(d.elems) = c.extent

\* A control of libcamera.
IsControl(c) ==
  /\ c.type \in Plain \cup Geometric /\ c.extent \in Nat \cup {Dynamic}
  /\ c.type \in Numeric => IsBound(c, c.min) /\ IsBound(c, c.max)
  /\ IsDefault(c, c.def)
  /\ \A v \in c.tries : IsParameterValue(v)

ASSUME ParametersAssumption ==
  /\ IsFiniteSet(Workers) /\ MaxSets \in Nat
  /\ \A start \in Starts :
       /\ IsFiniteSet(DOMAIN start[1]) /\ \A n \in DOMAIN start[1] : IsControl(start[1][n])
       /\ \A n \in DOMAIN start[2] : IsParameterValue(start[2][n])

VARIABLES
  controls,  \* the camera's controls by name
  overrides, \* the parameter overrides the node is started with
  up,        \* the constructor has returned
  sets,      \* sets of parameters so far
  camera_controls, \* the controls that are parameters, in the map's order
  param,     \* the parameters that are declared, and their values
  store,     \* ParameterConflictHandler::store: the exposure time set aside
  tmp_store, \* the same, until a set of parameters is decided
  pending,   \* ParameterHandler::control_values
  at,        \* where each worker is
  missing,   \* the worker found its parameter undeclared
  down       \* what ended the process

handler == <<param, store, tmp_store, pending>>
workers == <<at, missing>>
given == <<controls, overrides, camera_controls>>
vars == <<given, up, sets, handler, workers, down>>

Mode == "ExposureTimeMode"
ET == "ExposureTime"
ETM_Auto == Value("integer", <<0>>)
ETM_Manual == Value("integer", <<1>>)
Nothing == <<>> \* the empty map

IsSet(p, name) == name \in DOMAIN p /\ p[name] # NotSet

-----------------------------------------------------------------------------
(* Declaring the controls *)

\* A scalar default of an array of fixed length is ignored.
Default(c) == IF c.extent > 0 /\ ~c.def.array THEN None ELSE c.def

DefaultParameter(c) == cv_to_pv(clamp(Default(c), c.min, c.max))

\* The controls that can be parameters.
Supported ==
  {n \in DOMAIN controls : /\ cv_to_pv_type(controls[n]) # Unsupported
                           /\ DefaultParameter(controls[n]).type # Unsupported}

conflict_exposure(p) == IsSet(p, Mode) /\ p[Mode] = ETM_Auto /\ IsSet(p, ET)

\* Prefers automatic exposure; returns the parameters and the store.
resolve_defaults(p) ==
  LET q == IF Mode \in DOMAIN p /\ p[Mode] = NotSet THEN [p EXCEPT ![Mode] = ETM_Auto] ELSE p
  IN  IF conflict_exposure(q) THEN <<[q EXCEPT ![ET] = NotSet], q[ET]>> ELSE <<q, NotSet>>

\* Prefers a given exposure time, or gives back the one set aside.
resolve_overrides(p, stored) ==
  LET q == IF conflict_exposure(p) THEN [p EXCEPT ![Mode] = ETM_Manual] ELSE p
  IN  IF IsSet(q, Mode) /\ q[Mode] = ETM_Manual /\ ~IsSet(q, ET) /\ stored # NotSet
      THEN <<[q EXCEPT ![ET] = stored], NotSet>> ELSE <<q, stored>>

-----------------------------------------------------------------------------
(* A set of parameters: a list of names and values *)

Assign(name, value) == [name |-> name, value |-> value]

\* Where the list mentions a name, and where it sets it to a value.
Mentions(list, name) == {i \in DOMAIN list : list[i].name = name}
Settings(list, name) == {i \in Mentions(list, name) : list[i].value # NotSet}

\* find: the first value the list sets for the name.
find(list, name) == IF Settings(list, name) = {} THEN NotSet ELSE list[Min(Settings(list, name))].value
is_set(list, name) == find(list, name) # NotSet

\* restore (PreSetResolve): automatic exposure unsets the exposure time,
\* manual exposure gives it back.
GivesBack(list, stored) == find(list, Mode) = ETM_Manual /\ stored # NotSet /\ ~is_set(list, ET)
restore(list, stored) ==
  CASE is_set(list, Mode) /\ find(list, Mode) # ETM_Manual -> Append(list, Assign(ET, NotSet))
    [] GivesBack(list, stored)                         -> Append(list, Assign(ET, stored))
    [] OTHER                                           -> list

\* rclcpp refuses a list before it calls OnSetValidate: a name is not
\* declared, or a number is out of its descriptor's range.
InRange(p) ==
  LET c == controls[p.name]
  IN  \/ p.value.type \notin {"integer", "double"} \/ c.type \in {"bool", "byte", "string"} \cup Geometric
      \/ (p.value.type = "integer") # (c.type \in Integral)
      \/ \A i \in DOMAIN c.min.elems, j \in DOMAIN c.max.elems :
           c.min.elems[i] <= p.value.elems[1] /\ p.value.elems[1] <= c.max.elems[j]
Refused(p, list) == \E i \in DOMAIN list : list[i].name \notin DOMAIN p \/ ~InRange(list[i])

\* Mutant: asks the list only, not the parameters it is merged with.
CheckListOnly(p, list) == ~(find(list, Mode) = ETM_Auto /\ is_set(list, ET))

\* check: the list merged with the old parameters does not set the exposure
\* time under automatic exposure.
check(p, list) ==
  LET mode == IF is_set(list, Mode) THEN find(list, Mode) ELSE p[Mode]
  IN  ~(mode = ETM_Auto /\ is_set(list, ET))

ValidValue(c, value) ==
  LET cv == pv_to_cv(value, c.type)
  IN  /\ value.type = cv_to_pv_type(c)
      /\ cv # Invalid
      /\ cv.array /\ c.extent # Dynamic => Len(cv.elems) = c.extent
      /\ ~less(cv, c.min) /\ ~greater(cv, c.max)

validate_new_parameters(p, list) ==
  /\ check(p, list)
  /\ \A i \in DOMAIN list : list[i].value # NotSet => ValidValue(controls[list[i].name], list[i].value)

\* The parameters after the list is set.  One that had a value and is unset
\* is undeclared.
Assigned(p, list) ==
  LET undeclared == {n \in DOMAIN p : p[n] # NotSet /\ Contains(list, Assign(n, NotSet))}
  IN  [n \in DOMAIN p \ undeclared |->
        IF Mentions(list, n) = {} THEN p[n] ELSE list[Max(Mentions(list, n))].value]

\* PostSetApply: the values of this list alone.
Applied(list) ==
  [n \in {m \in DOMAIN controls : Settings(list, m) # {}} |->
    pv_to_cv(list[Max(Settings(list, n))].value, controls[n].type)]

\* Mutant: a list that is rejected commits the store, too.
CommitAlways(commit, stored, kept) == stored

store_commit_or_revert(commit, stored, kept) == IF commit THEN stored ELSE kept

\* set_parameters_atomically, from the parameters p and the store kept.
\* restore asserts that no earlier set has left a temporary store; a refusal
\* leaves one, and so does the exception that validate_new_parameters meets
\* when it reads a parameter that is not declared.
SetAtomically(p, kept, wish) ==
  LET list == restore(wish, kept)
      left == IF GivesBack(wish, kept) THEN NotSet ELSE kept
      Ends(now, committed, temporary, values) ==
        /\ param' = now /\ store' = committed
        /\ tmp_store' = temporary /\ pending' = values
  IN  IF Refused(p, list) \/ ~(Range(camera_controls) \subseteq DOMAIN p)
      THEN Ends(p, kept, left, pending)
      ELSE IF validate_new_parameters(p, list)
      THEN Ends(Assigned(p, list), store_commit_or_revert(TRUE, left, kept), NotSet, Applied(list))
      ELSE Ends(p, store_commit_or_revert(FALSE, left, kept), NotSet, pending)

-----------------------------------------------------------------------------
Init ==
  /\ \E start \in Starts : controls = start[1] /\ overrides = start[2]
  /\ up = FALSE /\ sets = 0
  /\ camera_controls = <<>> /\ param = Nothing /\ store = NotSet /\ tmp_store = NotSet /\ pending = Nothing
  /\ at = [w \in Workers |-> 0] /\ missing = [w \in Workers |-> FALSE]
  /\ down = "no"

\* declare: every control without a value, then all values in one set.
declare ==
  LET defaults == resolve_defaults([n \in Supported |-> DefaultParameter(controls[n])])
      configured == [n \in Supported |-> IF n \in DOMAIN overrides THEN overrides[n] ELSE defaults[1][n]]
      resolved == resolve_overrides(configured, defaults[2])
      list == SetToSeq({Assign(n, resolved[1][n]) : n \in Supported})
  IN  SetAtomically([n \in Supported |-> NotSet], resolved[2], list)

\* The constructor, up to the start of the camera with the initial controls,
\* which stay pending.
Construct ==
  /\ ~up /\ up' = TRUE
  /\ declare
  /\ camera_controls' = SetToSeq(Supported)
  /\ UNCHANGED <<controls, overrides, sets, at, missing, down>>

\* What a client sets: one parameter, or two together.
Wishes ==
  LET to(n) == {Assign(n, v) : v \in controls[n].tries \cup {NotSet}}
      one == UNION {to(n) : n \in DOMAIN controls}
      first == one \ to(ET)
      second == UNION {to(n) : n \in {ET, Mode} \cap DOMAIN controls}
  IN  {<<a>> : a \in one} \cup {p \in {<<a, b>> : a \in first, b \in second} : p[1].name # p[2].name}

SetParameters(wish) ==
  /\ up /\ down = "no" /\ sets < MaxSets
  /\ sets' = sets + 1
  /\ IF tmp_store # NotSet
     THEN down' = "assert" /\ UNCHANGED handler
     ELSE SetAtomically(param, store, wish) /\ UNCHANGED down
  /\ UNCHANGED <<given, up, workers>>

-----------------------------------------------------------------------------
(* A worker, when its request has completed *)

Complete(w) ==
  /\ up /\ down = "no" /\ at[w] = 0
  /\ at' = [at EXCEPT ![w] = 1]
  /\ UNCHANGED <<given, up, sets, handler, missing, down>>

\* redeclare: has_parameter, and then declare_parameter.
HasParameter(w) ==
  /\ down = "no" /\ at[w] \in DOMAIN camera_controls /\ ~missing[w]
  /\ IF camera_controls[at[w]] \in DOMAIN param
     THEN at' = [at EXCEPT ![w] = @ + 1] /\ UNCHANGED missing
     ELSE missing' = [missing EXCEPT ![w] = TRUE] /\ UNCHANGED at
  /\ UNCHANGED <<given, up, sets, handler, down>>

\* Declaring a parameter that is declared throws, and no one catches it.
DeclareParameter(w) ==
  /\ down = "no" /\ missing[w]
  /\ IF camera_controls[at[w]] \in DOMAIN param
     THEN down' = "redeclared" /\ UNCHANGED <<param, at, missing>>
     ELSE /\ param' = [n \in DOMAIN param \cup {camera_controls[at[w]]} |->
                         IF n \in DOMAIN param THEN param[n] ELSE NotSet]
          /\ at' = [at EXCEPT ![w] = @ + 1]
          /\ missing' = [missing EXCEPT ![w] = FALSE]
          /\ UNCHANGED down
  /\ UNCHANGED <<given, up, sets, store, tmp_store, pending>>

\* The values go with the request, which is queued for the next frame.
move_control_values(w) ==
  /\ down = "no" /\ at[w] = Len(camera_controls) + 1
  /\ pending' = Nothing
  /\ at' = [at EXCEPT ![w] = 0]
  /\ UNCHANGED <<given, up, sets, param, store, tmp_store, missing, down>>

Worker(w) == \/ Complete(w) \/ HasParameter(w) \/ DeclareParameter(w) \/ move_control_values(w)

Next == \/ Construct
        \/ \E wish \in Wishes : SetParameters(wish)
        \/ \E w \in Workers : Worker(w)

Spec == Init /\ [][Next]_vars

\* Requests go on being completed, and the workers run.
FairSpec == Spec /\ \A w \in Workers : WF_vars(Worker(w))

-----------------------------------------------------------------------------
(* What the parameters promise *)

Conflict(values) == /\ {Mode, ET} \subseteq DOMAIN values
                    /\ values[Mode] \in {ETM_Auto, pv_to_cv(ETM_Auto, "int32")}
                    /\ values[ET] # NotSet

\* "ExposureTime must not be set while" automatic exposure is on: whatever
\* sets, refusals and declarations went before, the parameters never say
\* both, and no list of controls tells the camera both.
NeverBothExposures == ~Conflict(param) /\ ~Conflict(pending)

\* The exposure time set aside for automatic exposure is kept until it is
\* given back: a set that fails, for whatever reason, does not lose it.
SetAsideIsKept ==
  [][up /\ store' # store =>
       /\ store' = NotSet
       /\ ET \in DOMAIN pending' /\ pending'[ET] = pv_to_cv(store, controls[ET].type)]_vars

Within(c, cv) ==
  /\ cv.type = c.type
  /\ c.extent = 0 => ~cv.array
  /\ c.extent > 0 => Len(cv.elems) = c.extent
  /\ c.type \in Numeric =>
       \A i \in DOMAIN cv.elems : cv.elems[i] \in Element(c.min, i) .. Element(c.max, i)

\* Every value the camera is given, by a set or by the start, has its
\* control's type and length, and its numbers are within the bounds.
CameraGetsValidValues == \A n \in DOMAIN pending : Within(controls[n], pending[n])

\* The defaults, clamped and freed of conflicts, with overrides that are
\* valid one by one, pass the checks they are set through: the node starts
\* with the exposure mode decided and with the values the launch file gives.
WellFormed(n) == \/ Default(controls[n]) = None
                 \/ DefaultParameter(controls[n]).type = cv_to_pv_type(controls[n])
Overridden == DOMAIN overrides \cap Range(camera_controls)
StartsAsConfigured ==
  /\ up /\ sets = 0
  /\ \A n \in Range(camera_controls) : WellFormed(n)
  /\ \A n \in Overridden : ValidValue(controls[n], overrides[n])
  => IsSet(param, Mode) /\ \A n \in Overridden \ {Mode} : param[n] = overrides[n]

\* A parameter that was unset "implicitly" and so undeclared can be set
\* again soon: some worker declares it, as long as the process lives.
DeclaredAgain ==
  \A n \in {Mode, ET} : (up /\ n \notin DOMAIN param) ~> (n \in DOMAIN param \/ down # "no")

\* assert(tmp_store.empty()): every set of parameters decides what becomes
\* of the temporary store.  The code breaks it.
NoAssertFails == down # "assert"
=============================================================================
