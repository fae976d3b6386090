------------------------------- MODULE Inputs -------------------------------
(* How the values that a user gives become the inputs of a pipeline: flags *)
(* behind "--" and -i name=text (internal/run/inputs.go), the types that   *)
(* parameters have or get (pkg/apis/core/v1beta1/param_types.go) and the   *)
(* check of both against each other (internal/pipeline/build.go).  A text  *)
(* is one of a few shapes that the decoder tells apart.                    *)
EXTENDS Naturals, Sequences, SequencesExt

\* A word, a string in quotes, a JSON array of strings, one that holds
\* something else, a JSON object of strings, and nothing.
Text == {"word", "quoted", "array", "mixed", "object", "empty"}
NoDefault == [type |-> "none"]
Value(type, texts) == [type |-> type, texts |-> texts]

(* UnmarshalJSON: what cannot be decoded as it looks is a string.          *)
UnmarshalJSON(text) ==
    Value(CASE text = "array" -> "array" [] text = "object" -> "object"
            [] OTHER -> "string", <<text>>)

(* SetDefaults of a declared parameter [name, type, properties, default].  *)
TypeOf(param) ==
    CASE param.type # "" -> param.type
      [] param.type = "" /\ param.properties -> "object"
      [] OTHER -> IF param.default = NoDefault THEN "string" ELSE param.default.type

Declared(params) == {params[i].name : i \in DOMAIN params}
Param(params, name) == params[CHOOSE i \in DOMAIN params : params[i].name = name]

(* A flag is declared with the type of its parameter: what is set has it.  *)
Flag(params, flags, name) == Value(TypeOf(Param(params, name)), <<flags[name]>>)

(* parseInputsFromFlags: -i of a name that no parameter has is passed over *)
(* in silence; one text is decoded, several are an array; flags win.       *)
ParseInputs(params, given, flags) ==
    [name \in (DOMAIN given \cap Declared(params)) \cup DOMAIN flags |->
        IF name \in DOMAIN flags THEN Flag(params, flags, name)
        ELSE IF Len(given[name]) = 1 THEN UnmarshalJSON(given[name][1])
        ELSE Value("array", given[name])]

(* mapInputs: a parameter without a default is required, a value has the   *)
(* type of its parameter, and a default any type.                          *)
Missing(params, inputs) ==
    \E i \in DOMAIN params :
        params[i].default = NoDefault /\ params[i].name \notin DOMAIN inputs
WrongType(params, inputs) ==
    \E i \in DOMAIN params :
        params[i].name \in DOMAIN inputs /\ inputs[params[i].name].type # TypeOf(params[i])
Unknown(params, inputs) == ~(DOMAIN inputs \subseteq Declared(params))

Accepted(params, inputs) ==
    ~Missing(params, inputs) /\ ~WrongType(params, inputs) /\ ~Unknown(params, inputs)

=============================================================================
