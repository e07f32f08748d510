----------------------------- MODULE ToolSchemas -----------------------------
(***************************************************************************)
(* Tool definitions and calls on their way through the formats of several  *)
(* providers (abstractions/tool_calling.py).  A JSON object is a function  *)
(* from its keys; a property of a schema is reduced to its type, its enum  *)
(* (a description goes the same way) and the keys outside these; the order *)
(* of names is left out, and so are the names of the tools.                *)
(***************************************************************************)
EXTENDS Integers, Sequences, FiniteSets

CONSTANT Names  \* of parameters

VARIABLES
  tool,     \* the ToolDefinition, as a set of at most one
  written,  \* history: the parameters, or the schema, that it began with
  call,     \* the ToolCallResult, as a set of at most one
  asked     \* history: the call that the model made

vars == <<tool, written, call, asked>>

Init == tool = {} /\ written = {} /\ call = {} /\ asked = {}

Providers == {"openai", "anthropic", "gemini"}
Types == {"string", "integer"}
Enums == {{}, {"x"}}

\* An object with one key, one without any, and the second updated by the first.
Only(key, value) == [k \in {key} |-> value]
NoKeys == [k \in {} |-> k]
Over(first, second) ==
  [k \in DOMAIN first \cup DOMAIN second |-> IF k \in DOMAIN first THEN first[k] ELSE second[k]]

Extras == {NoKeys, Only("default", "x"), Only("type", "array")}

Key(object, key, default) == IF key \in DOMAIN object THEN object[key] ELSE default
Without(object, keys) == [k \in DOMAIN object \ keys |-> object[k]]
Present(key, value) == IF value = {} THEN NoKeys ELSE Only(key, value)
The(set) == CHOOSE x \in set : TRUE
PartialFunctions(S, T) == UNION {[D -> T] : D \in SUBSET S}

Defaults == {"none", "x"}

Parameters ==
  [type : Types, enum : Enums, default : Defaults, extra : Extras, required : BOOLEAN]

\* __post_init__: an empty list of required parameters is inferred.
Definition(provider, params, required, raw) ==
  [provider |-> provider, params |-> params, raw |-> raw,
   required |-> IF required = {} THEN {n \in DOMAIN params : params[n].required} ELSE required]

-----------------------------------------------------------------------------
(* Rendering: no format has a place for the default of a parameter *)

Property(p) == Over(p.extra, Over(Present("enum", p.enum), Only("type", p.type)))

\* minLength is a sentinel, on parameters of any type.
CustomProperty(p) ==
  Over(p.extra,
       Over(Present("enum", p.enum),
            Over(IF p.required THEN Only("minLength", 1) ELSE NoKeys, Only("type", p.type))))

Built(d, properties) == [properties |-> properties, required |-> d.required]

\* to_openai, to_anthropic and to_gemini: a schema that was given stays as it is
\* until the definition has been through a provider.
Render(d) ==
  IF d.raw # {} /\ d.provider = "custom"
    THEN The(d.raw)
    ELSE Built(d, [n \in DOMAIN d.params |-> Property(d.params[n])])

RenderCustom(d) ==
  IF d.raw # {}
    THEN The(d.raw)
    ELSE Built(d, [n \in DOMAIN d.params |-> CustomProperty(d.params[n])])

\* Mutated form of Import: each parameter has the default, required.
ImportRequired(provider, schema) ==
  Definition(provider,
    [n \in DOMAIN schema.properties |->
       [type |-> Key(schema.properties[n], "type", "string"),
        enum |-> Key(schema.properties[n], "enum", {}),
        default |-> "none",
        extra |-> Without(schema.properties[n], {"type", "enum"}),
        required |-> TRUE]],
    schema.required, {schema})

\* from_openai, from_anthropic and from_gemini.
Import(provider, schema) ==
  Definition(provider,
    [n \in DOMAIN schema.properties |->
       [type |-> Key(schema.properties[n], "type", "string"),
        enum |-> Key(schema.properties[n], "enum", {}),
        default |-> "none",
        extra |-> Without(schema.properties[n], {"type", "enum"}),
        required |-> n \in schema.required]],
    schema.required, {schema})

-----------------------------------------------------------------------------
(* Calls: what a model sends, and what the library makes of it *)

Native(provider, c) ==
  CASE provider = "openai" -> [function |-> [name |-> c.name, arguments |-> c.arguments]]
    [] provider = "anthropic" -> [name |-> c.name, input |-> c.arguments]
    [] provider = "gemini" -> [functionCall |-> [name |-> c.name, args |-> c.arguments]]

\* unwrap_results, for one of the calls.
Unwrap(provider, item) ==
  LET inner == CASE provider = "openai" -> Key(item, "function", item)
                 [] provider = "anthropic" -> item
                 [] provider = "gemini" -> Key(item, "functionCall", item)
  IN  CASE provider = "openai" ->
             [name |-> inner["name"], arguments |-> Key(inner, "arguments", "none")]
        [] provider = "anthropic" ->
             [name |-> Key(inner, "name", Key(inner, "tool", "")),
              arguments |-> Key(inner, "input", Key(inner, "parameters", "none"))]
        [] provider = "gemini" ->
             [name |-> Key(inner, "name", ""),
              arguments |-> Key(inner, "args", Key(inner, "arguments", "none"))]

\* to_openai, to_anthropic and to_gemini of ToolCallResult.
RenderCall(provider, c) ==
  CASE provider = "openai" -> [function |-> [name |-> c.name, arguments |-> c.arguments]]
    [] provider = "anthropic" -> [tool |-> c.name, input |-> c.arguments]
    [] provider = "gemini" -> [name |-> c.name, args |-> c.arguments]

-----------------------------------------------------------------------------
Define ==
  /\ tool = {} /\ call = {}
  /\ \E params \in PartialFunctions(Names, Parameters), required \in SUBSET Names :
       /\ tool' = {Definition("custom", params, required, {})}
       /\ written' = {[params |-> params, required |-> required]}
  /\ UNCHANGED <<call, asked>>

\* A schema in the caller's hands or in a provider's payload; a property need
\* not have a type.
Schemas ==
  [properties : PartialFunctions(Names,
                  {Over(Present("enum", e), t) : e \in Enums,
                      t \in {NoKeys} \cup {Only("type", type) : type \in Types}}),
   required : SUBSET Names]

Take ==
  /\ tool = {} /\ call = {}
  /\ \E schema \in Schemas :
       /\ written' = {schema}
       /\ \/ tool' = {Definition("custom", NoKeys, {}, {schema})}
          \/ \E p \in Providers : tool' = {Import(p, schema)}
  /\ UNCHANGED <<call, asked>>

\* Rendered for a provider, and read back from its format.
Hop(provider) ==
  /\ tool # {}
  /\ tool' = {Import(provider, Render(The(tool)))}
  /\ UNCHANGED <<written, call, asked>>

Ask(provider) ==
  /\ tool = {} /\ call = {}
  /\ \E arguments \in {"x", "none"} :
       /\ asked' = {[name |-> "tool", arguments |-> arguments]}
       /\ call' = {Unwrap(provider, Native(provider, The(asked')))}
  /\ UNCHANGED <<tool, written>>

Relay(provider) ==
  /\ call # {}
  /\ call' = {Unwrap(provider, RenderCall(provider, The(call)))}
  /\ UNCHANGED <<tool, written, asked>>

Next ==
  \/ Define \/ Take
  \/ \E p \in Providers : Hop(p) \/ Ask(p) \/ Relay(p)

-----------------------------------------------------------------------------
\* A property in a schema says what its author wrote, and nothing else but the
\* sentinel: schema_extra overrides, an empty enum is none, and a default is
\* not said unless schema_extra says it.
SameParameter(q, p) ==
  /\ q["type"] = Key(p.extra, "type", p.type)
  /\ Key(q, "enum", {}) = p.enum
  /\ \A k \in DOMAIN p.extra : q[k] = p.extra[k]
  /\ DOMAIN q \subseteq {"type", "enum", "minLength"} \cup DOMAIN p.extra

RequiredAsWritten(w) ==
  IF w.required # {} \/ "properties" \in DOMAIN w
    THEN w.required
    ELSE {n \in DOMAIN w.params : w.params[n].required}

SameSchema(schema, w) ==
  /\ schema.required = RequiredAsWritten(w)
  /\ IF "params" \in DOMAIN w
       THEN /\ DOMAIN schema.properties = DOMAIN w.params
            /\ \A n \in DOMAIN w.params : SameParameter(schema.properties[n], w.params[n])
       ELSE /\ DOMAIN schema.properties = DOMAIN w.properties
            /\ \A n \in DOMAIN w.properties :
                 "type" \in DOMAIN w.properties[n] => schema.properties[n] = w.properties[n]

\* "Tools defined once work with any supported provider" (tool_calling.py): by
\* whatever chain of providers a definition came, each of them is shown the
\* parameters, types, values and the required names that its author wrote, and
\* a call arrives with the name and arguments that the model gave it.  Of a
\* schema, only the properties that name their type; of a parameter, all but the
\* default, which every format loses.
MeaningKept ==
  /\ \A d \in tool, w \in written : SameSchema(Render(d), w) /\ SameSchema(RenderCustom(d), w)
  /\ call = asked

=============================================================================
