---------------------------------- MODULE Wire ----------------------------------
(***************************************************************************)
(* The vocabulary the two schemas are written in: what the type of a field *)
(* writes in a JSON document, or reads from one.  A field is a scalar, one *)
(* structure or a list of structures, and says when it may be missing or   *)
(* null.                                                                    *)
(***************************************************************************)
Field(shape, t) == [shape |-> shape, of |-> t, when |-> "always"]

Scalar(t) == Field("scalar", t)
One(name) == Field("one", name)
Many(name) == Field("many", name)

Num == Scalar("Num")           \* f64
Count == Scalar("Count")       \* u32, u64, usize
Bool == Scalar("Bool")
Text == Scalar("Text")
Instant == Scalar("Instant")   \* RFC 3339

Maybe(t) == [t EXCEPT !.when = "maybe"]          \* Option, skip_serializing_if
Nullable(t) == [t EXCEPT !.when = "nullable"]    \* Option, always written
Optional(t) == [t EXCEPT !.when = "optional"]    \* Option: missing and null are None
Defaulted(t) == [t EXCEPT !.when = "defaulted"]  \* serde(default), not an Option
PresentOption(t) == [t EXCEPT !.when = "present"] \* Option read by `with`: null is None, missing an error

(* The fields of names, all of the type t; and the fields of two structures *)
(* (flattened, or listed one after the other).                               *)
Each(names, t) == [f \in names |-> t]
r @@ s == [f \in DOMAIN r \cup DOMAIN s |-> IF f \in DOMAIN r THEN r[f] ELSE s[f]]

(* What a field of a document holds. *)
Missing == [json |-> "missing", is |-> "missing"]
Null == [json |-> "null", is |-> "null"]
=============================================================================
