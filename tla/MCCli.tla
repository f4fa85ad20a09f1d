-------------------------------- MODULE MCCli --------------------------------
(* Small instances of the commands for TLC.                                *)
EXTENDS Cli

(* Three directories, each in the one before, with a file in each; the     *)
(* kustomizations may skip levels, refer back up, or list files.           *)
MC_Dir == {"r", "a", "b"}
MC_File == {"f0", "f1", "f2"}
MC_Entries == [r |-> <<"f0", "a">>, a |-> <<"f1", "b">>, b |-> <<"f2">>]
MC_Trees ==
  [given : {<<"r">>, <<"b", "r">>},
   kust : [r : {NoKustomization, <<"a">>, <<"b">>, <<"a", "b">>, <<"b", "f0">>},
           a : {NoKustomization, <<"b">>, <<"f1">>, <<"r">>},
           b : {NoKustomization, BadKustomization, <<"f2">>, <<"a">>}],
   kind : [f0 : {"crossplane", "text"}, f1 : {"crossplane", "other", "broken"},
           f2 : {"crossplane", "other", "missing"}]]
MC_XrsIn == [f0 |-> {"x1"}, f1 |-> {"x2"}, f2 |-> {"claim"}]

(* x4 has the type of x1.  A claim without a composition, chains of one,   *)
(* two and three composites, a circle.                                     *)
MC_Rendered == {"x1", "x2", "x3", "x4", "claim", "m1", "m2"}
MC_TypeOf == [x1 |-> "X", x2 |-> "Y", x3 |-> "Z", x4 |-> "X", claim |-> "C", m1 |-> "M", m2 |-> "M"]
MC_Output == [x1 |-> {"x1", "x2", "m1"}, x2 |-> {"x2", "m2"}, x3 |-> {"x3", "m2"},
              x4 |-> {"x4"}, claim |-> {}, m1 |-> {}, m2 |-> {}]
MC_Builtin == [x1 |-> {"x2", "m1"}, x2 |-> {}, x3 |-> {"m2"},
               x4 |-> {}, claim |-> {}, m1 |-> {}, m2 |-> {}]
MC_Graphs ==
  {[output |-> o, builtin |-> MC_Builtin, found |-> {"x1", "x2", "x3", "x4"},
    nested |-> {"x1", "x2", "x3", "x4"}] :
     o \in {MC_Output,
            [MC_Output EXCEPT !.x2 = @ \cup {"x3"}],
            [MC_Output EXCEPT !.x2 = @ \cup {"x1"}],
            [MC_Output EXCEPT !.x2 = @ \cup {"x4"}, !.x1 = {"x1", "x4", "m1"}]}}

(* Two resources; one way to index the schema gives both the same address. *)
MC_Managed == {"p", "q"}
MC_AddressOf == [p |-> [s |-> "t_p", u |-> "u_p", derived |-> "d_p"],
                 q |-> [s |-> "t_q", u |-> "u_p", derived |-> "d_q"]]

Prim(t, v) == [t |-> t, v |-> v, f |-> <<>>, e |-> {}]
Object(f) == [t |-> "object", v |-> "map", f |-> f, e |-> {}]
Array(e) == [t |-> "array", v |-> "list", f |-> <<>>, e |-> e]
One == Prim("integer", "1")
OneString == Prim("string", "1")
On == Prim("string", "on")
Null == Prim("null", "<nil>")
MC_Leaf == {OneString, On, One, Prim("number", "0.5"), Prim("whole", "1e+20"),
            Prim("boolean", "true"), Null}
MC_Array == {Array({}), Array({One}), Array({On, One})}
MC_Inner == {Object([b |-> y]) : y \in MC_Leaf}
MC_Specs ==
  {Object([a |-> x]) : x \in MC_Leaf \cup MC_Array \cup MC_Inner}
    \cup {Object([a |-> x, b |-> y]) : x \in MC_Leaf \cup {Array({On, One})}, y \in MC_Leaf}
    \cup {Object([c |-> x]) : x \in {On, Null, One}}
MC_Value == MC_Specs \cup MC_Leaf \cup MC_Array \cup MC_Inner
MC_Height ==
  [v \in MC_Value |->
     IF v \in MC_Leaf THEN 0 ELSE IF v \in MC_Array \cup MC_Inner THEN 1 ELSE 2]

(* A field of any primitive type; enums of values that print alike; an     *)
(* object in an object; elements and other fields; a required field with a *)
(* default, one that has no schema, one that may be null.                  *)
Typed(t) == [type |-> t, enum |-> AnyValue, required |-> {}, props |-> <<>>, items |-> None,
             others |-> None, refuses |-> {}, nullable |-> FALSE, default |-> FALSE]
Fields(required, props) == [Typed("object") EXCEPT !.required = required, !.props = props]
MC_Schemas ==
  {Fields({"a"}, [a |-> [Typed("string") EXCEPT !.refuses = {On}]]),
   Fields({"a", "b"}, [a |-> Typed("number"), b |-> [Typed("integer") EXCEPT !.enum = {One}]]),
   Fields({}, [a |-> Fields({"b"}, [b |-> [Typed("string") EXCEPT !.enum = {On}]])]),
   Fields({}, [a |-> [Typed("any") EXCEPT !.enum = {OneString}]]),
   Fields({"b"}, [a |-> [Typed("array") EXCEPT !.items = Typed("integer")],
                  b |-> [Typed("boolean") EXCEPT !.default = TRUE]]),
   [Fields({"c"}, [a |-> [Typed("string") EXCEPT !.nullable = TRUE]]) EXCEPT !.others = Typed("string")],
   Fields({"c"}, [a |-> Typed("any")]),
   Fields({}, [a |-> Typed("integer")])}
MC_Schema ==
  LET props == {s.props[k] : <<s, k>> \in {<<t, k>> \in MC_Schemas \X {"a", "b"} : k \in DOMAIN t.props}}
  IN MC_Schemas \cup props \cup {[Typed("string") EXCEPT !.enum = {On}], Typed("integer"), Typed("string")}
Version(n, served, s) == [name |-> n, served |-> served, schema |-> s]
MC_Xrds ==
  {[type |-> "X", claim |-> "C", versions |-> v] :
     v \in {<<Version("v1", TRUE, s)>> : s \in MC_Schemas \cup {NoSpec}}
           \cup {<<Version("v1", FALSE, s), Version("v2", TRUE, t)>> : s, t \in MC_Schemas}
           \cup {<<Version("v1", TRUE, s), Version("v2", TRUE, t)>> : s \in {None, NoSpec}, t \in MC_Schemas}}
MC_Resources ==
  [class : {"xr", "claim"}, type : {"X"}, version : {"v1", "v2"}, spec : MC_Specs, config : {None}]
    \cup [class : {"xr"}, type : {"X", "Other"}, version : {"v1"}, spec : {None, On}, config : {"default"}]
    \cup [class : {"mr"}, type : {"M"}, version : {"v1"}, spec : {None}, config : {"default", None}]
=============================================================================
