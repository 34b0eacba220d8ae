----------------------------- MODULE ToolSchema -----------------------------
(***************************************************************************)
(* The input schema of a tool: what ToolRegistry derives from a protobuf   *)
(* message type (src/mcp/tool_registry.cpp) and how McpServer writes it as *)
(* JSON Schema (src/mcp/mcp_server.cpp).  Descriptions are left out, an    *)
(* enum has one value.                                                     *)
(***************************************************************************)
EXTENDS JsonText

CONSTANT Fields  \* message type -> its fields, in order

Messages == DOMAIN Fields

(* buildSchema has no guard against a message type that contains itself,    *)
(* directly or not, other than through a map: such types are left out.      *)
Nests(m, n) == \E i \in DOMAIN Fields[m] : ~Fields[m][i].map /\ Fields[m][i].message = n
ASSUME NoRecursiveMessage ==
  \A S \in SUBSET Messages \ {{}} : \E m \in S : \A n \in S : ~Nests(m, n)

-----------------------------------------------------------------------------
(* ToolRegistry.  A field has a kind, the message type of a message     *)
(* field, and is repeated, a map, or neither (a map is also repeated).      *)

Wrappers == [m \in {"Timestamp", "Duration", "StringValue", "Int64Value", "DoubleValue", "BoolValue"} |->
               CASE m = "Int64Value" -> "integer" [] m = "DoubleValue" -> "number"
                 [] m = "BoolValue" -> "boolean" [] OTHER -> "string"]

(* Mutant: 64-bit integers are listed as strings, as protobuf prints them. *)
MutMapScalarType(f) ==
  CASE f.kind = "message" -> IF f.message \in DOMAIN Wrappers THEN Wrappers[f.message] ELSE "object"
    [] f.kind = "double" -> "number"
    [] OTHER -> "string"

mapScalarType(f) ==
  CASE f.kind = "message" -> IF f.message \in DOMAIN Wrappers THEN Wrappers[f.message] ELSE "object"
    [] f.kind = "double" -> "number"
    [] f.kind = "int" -> "integer"
    [] f.kind = "bool" -> "boolean"
    [] OTHER -> "string"   \* string, bytes, enum

mapFieldType(f) ==
  IF f.map THEN "object" ELSE IF f.repeated THEN "array" ELSE mapScalarType(f)

(* buildSchema of the field's message is wanted *)
Expands(f) == ~f.map /\ f.kind = "message" /\ mapScalarType(f) = "object"

(* the element schema of a repeated field; it gets no content encoding *)
buildItem(f, nested) ==
  [name |-> <<>>, required |-> FALSE, type |-> mapScalarType(f), enum |-> f.kind = "enum", base64 |-> FALSE,
   properties |-> nested, items |-> <<>>]

(* nested: buildSchema of the field's message if it is expanded, else empty *)
buildParameter(f, nested) ==
  [name |-> f.name, required |-> f.required, type |-> mapFieldType(f),
   enum |-> f.kind = "enum" /\ ~f.repeated,
   base64 |-> f.kind = "bytes" /\ ~f.repeated,
   properties |-> IF f.repeated THEN <<>> ELSE nested,
   items |-> IF f.repeated /\ ~f.map THEN <<buildItem(f, nested)>> ELSE <<>>]

buildSchemaOf[m \in Messages] ==
  <<>> \o [i \in DOMAIN Fields[m] |->
     LET f == Fields[m][i]
     IN  buildParameter(f, IF Expands(f) THEN buildSchemaOf[f.message] ELSE <<>>)]
buildSchema(m) == buildSchemaOf[m]

-----------------------------------------------------------------------------
(* McpServer *)

(* members that are not set are left out *)
Present(cond, key, value) == IF cond THEN << << <<key>>, value>> >> ELSE <<>>

RECURSIVE propertyMembers(_), buildPropertySchema(_)

(* "properties" and "required" of a list of parameters *)
propertyMembers(params) ==
  LET required == SelectSeq(params, LAMBDA p : p.required)
      member(i) == <<params[i].name, buildPropertySchema(params[i])>>
  IN  Present(TRUE, "properties", Obj(<<>> \o [i \in DOMAIN params |-> member(i)]))
      \o Present(required # <<>>, "required",
                 Arr(<<>> \o [i \in DOMAIN required |-> Str(required[i].name)]))

buildPropertySchema(p) ==
  Obj(Present(TRUE, "type", Str(<<p.type>>))
      \o Present(p.base64, "contentEncoding", Str(<<"base64">>))
      \o Present(p.enum, "enum", Arr(<<Str(<<"VALUE">>)>>))
      \o (IF p.properties # <<>> THEN propertyMembers(p.properties) ELSE <<>>)
      \o (IF p.items # <<>> THEN Present(TRUE, "items", buildPropertySchema(p.items[1])) ELSE <<>>))

buildToolSchema(d) ==
  LET schema == Present(TRUE, "type", Str(<<"object">>)) \o propertyMembers(d.input_schema)
  IN  Obj(Present(TRUE, "name", Str(d.name)) \o Present(TRUE, "inputSchema", Obj(schema)))
=============================================================================
