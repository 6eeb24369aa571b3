---------------------------- MODULE SettingKinds ----------------------------
(***************************************************************************)
(* What the section parsers of the configuration do with one key, and the  *)
(* forms in which config_save decides to write one.                        *)
(*                                                                         *)
(* A kind says which values of the document a parser takes and what it     *)
(* assigns for them; a value it does not take leaves the setting alone.    *)
(* Numbers that the code keeps as double are in thousandths; a flag is 0   *)
(* or 1; Wrong is a value of a JSON type the key does not have.            *)
(***************************************************************************)
EXTENDS Integers

CONSTANT Wrong

ASSUME WrongAssumption == Wrong \notin Int

Flag == <<"flag">>                        \* cJSON_IsBool
Truth == <<"truth">>                      \* any value, by cJSON_IsTrue
Number == <<"number">>                    \* any number
Switch == <<"switch">>                    \* any number, on unless it is 0
AtLeast(lo) == <<"atleast", lo>>          \* a number not under lo
Positive == AtLeast(1)
NonNegative == AtLeast(0)
Within(lo, hi) == <<"within", lo, hi>>    \* a number in lo..hi
Clamped(lo, hi) == <<"clamped", lo, hi>>  \* any number, forced into lo..hi
Text == <<"text">>                        \* a non-empty string
AnyText == <<"anytext">>                  \* a string, empty or not
OneOf(names) == <<"oneof", names>>        \* one of the strings the parser knows
Unread == <<"unread">>                    \* no parser reads it
Named(names, other) == <<"named", names, other>> \* any string, other if unknown

IsText(kind) == kind[1] \in {"text", "anytext", "oneof", "named"}

\* A field of a numeric type.
IsNumber(kind) ==
  kind[1] \in {"flag", "truth", "number", "switch", "atleast", "within", "clamped"}

\* The parser assigns the setting when it meets v.
Accepts(kind, v) ==
  \/ kind[1] = "truth"
  \/ v # Wrong /\ CASE kind[1] = "flag" -> v \in {0, 1}
                    [] kind[1] = "atleast" -> v >= kind[2]
                    [] kind[1] = "within" -> v \in kind[2]..kind[3]
                    [] kind[1] = "unread" -> FALSE
                    [] kind[1] = "text" -> v # ""
                    [] kind[1] = "oneof" -> v \in kind[2]
                    [] OTHER -> TRUE

\* Mutant: a number above the range goes through.
AssignedUncapped(kind, v) ==
  IF kind[1] = "clamped" /\ v < kind[2] THEN kind[2] ELSE v

\* What it assigns for a value it accepts.
Assigned(kind, v) ==
  CASE kind[1] = "clamped" /\ v < kind[2] -> kind[2]
    [] kind[1] = "clamped" /\ v > kind[3] -> kind[3]
    [] kind[1] = "named" /\ v \notin kind[2] -> kind[3]
    [] kind[1] = "truth" -> IF v = 1 THEN 1 ELSE 0
    [] kind[1] = "switch" -> IF v = 0 THEN 0 ELSE 1
    [] OTHER -> v

\* Mutant: a flag is written the wrong way round.
RenderedInverted(kind, v) == IF kind[1] = "flag" /\ v \in {0, 1} THEN 1 - v ELSE v

\* What config_save writes for a field that holds v: a flag as "v ? 1 : 0", a
\* mode by its name.
Rendered(kind, v) ==
  CASE kind[1] \in {"flag", "truth"} -> IF v = 0 THEN 0 ELSE 1
    [] kind[1] = "named" /\ v \notin kind[2] -> kind[3]
    [] OTHER -> v

\* One function over another, and a single entry, as in TLC.tla, whose definitions the
\* provers do not expand.
f @@ g == [k \in DOMAIN f \cup DOMAIN g |-> IF k \in DOMAIN f THEN f[k] ELSE g[k]]
k :> v == [j \in {k} |-> v]

\* The loader starts from a zeroed structure; nonzero are the fields that
\* config_set_defaults then fills.
Filled(kinds, nonzero) ==
  [k \in DOMAIN kinds |->
     IF k \in DOMAIN nonzero THEN nonzero[k]
     ELSE IF IsText(kinds[k]) THEN "" ELSE 0]

\* No field is given a default other than zero.
Zeroed == [k \in {} |-> 0]

\* A table of settings that share a kind or a default.
All(value, names) == [k \in names |-> value]

\* One section: what its parser reads, its defaults, and the settings that have
\* a generated setter.
Row(reads, nonzero, setters) ==
  [reads |-> reads, defaults |-> Filled(reads, nonzero), setters |-> setters]

\* The conditions and the choices config_save is made of, over the settings c.
When(condition, names) == IF condition THEN names ELSE {}
On(c, names) == {k \in names : c[k] # 0}
Above0(c, names) == {k \in names : c[k] > 0}
Below0(c, names) == {k \in names : c[k] < 0}
NonEmpty(c, names) == {k \in names : c[k] # ""}
Differing(c, defaults) == {k \in DOMAIN defaults : c[k] # defaults[k]}

\* An object that opens on a condition or for a size above 0, and then carries
\* its flags whatever they are and the sizes above 0.
Block(c, opens, flags, sizes) ==
  When(opens \/ Above0(c, sizes) # {}, flags \cup Above0(c, sizes))
=============================================================================
