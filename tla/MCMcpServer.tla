---------------------------- MODULE MCMcpServer -----------------------------
(* An instance of McpServer for TLC, over the JSON codec of JsonText.       *)
EXTENDS McpServer, ToolSchema, TLC

(* A Sum(Point p, repeated Point ps, ...) service with two methods whose    *)
(* names come to the same tool name, and one that is switched off.          *)
Field(name, kind, message, required) ==
  [name |-> <<name>>, kind |-> kind, message |-> message, required |-> required,
   repeated |-> FALSE, map |-> FALSE]
Repeated(f) == [f EXCEPT !.repeated = TRUE]

MCFields ==
  "Point" :> <<Field("x", "int", "", TRUE), Field("y", "double", "", FALSE)>> @@
  "Arguments" :>
    <<Field("at", "message", "Point", TRUE), Repeated(Field("path", "message", "Point", FALSE)),
      Field("when", "message", "Timestamp", FALSE), Field("count", "message", "Int64Value", FALSE),
      Field("flag", "bool", "", FALSE), Field("mode", "enum", "", FALSE),
      Repeated(Field("modes", "enum", "", FALSE)), Field("raw", "bytes", "", FALSE),
      [Repeated(Field("tags", "message", "", FALSE)) EXCEPT !.map = TRUE]>> @@
  "Empty" :> <<>>

Method(name, enabled, message) ==
  [service |-> <<"A">>, method |-> name, enabled |-> enabled, request |-> message, response |-> "Empty"]
MCMethods ==
  {Method(<<"A", "b", "C">>, TRUE, "Point"), Method(<<"A", "b", "_", "c">>, TRUE, "Arguments"),
   Method(<<"B">>, FALSE, "Empty")}
MCDescriptors ==
  {[name |-> <<"raw">>, service |-> <<"a">>, method |-> <<"B">>, request |-> "none", response |-> "none",
    input_schema |-> <<>>],
   [name |-> <<>>, service |-> <<"a">>, method |-> <<"C">>, request |-> "Empty", response |-> "Empty",
    input_schema |-> <<>>]}

-----------------------------------------------------------------------------
(* Lines *)

M(key, value) == <<Key(key), value>>
Envelope(method, rest) ==
  serialize(Obj(<<M("jsonrpc", Text("2.0")), M("method", Str(method))>> \o rest))
Call(id, rest) == Envelope(<<"tools/call">>, <<M("id", id), M("params", Obj(rest))>>)
ToolName == M("name", Str(<<"a", ".", "a", "b", "_", "c">>))
Raw(members) == <<"{">> \o members \o <<"}">>

MCLines ==
  {<<>>,
   Envelope(<<"initialize">>, <<M("id", Integer("1"))>>),
   Envelope(<<"notifications/initialized">>, <<>>),
   Raw(<<"\"", "jsonrpc", "\"", ":", "\"", "2.0", "\"", ",", "\"", "method", "\"", ":", "\"", "ping", "\"", ",",
         "\"", "id", "\"", ":", "\"", "\\", "n", "\\", "\"", "\\", "\\", "\\", "u", "0001", "\"">>),
   Envelope(<<"ping">>, <<>>),                                     \* no id
   Envelope(<<"tools/list">>, <<M("id", Double("1"))>>),
   Envelope(<<"x", "\n">>, <<M("id", Double("1.5"))>>),            \* unknown, quoted back
   Call(Integer("7"), <<ToolName>>),
   Call(Null, <<ToolName, M("arguments", Obj(<<M("x", Integer("1"))>>))>>),
   Call(Integer("7"), <<ToolName, M("arguments", Obj(<<M("z", Null)>>))>>),
   Call(Integer("2"), <<M("name", Str(<<"raw">>))>>),
   Call(Integer("2"), <<M("name", Integer("2"))>>),
   Call(Integer("2"), <<M("name", Str(<<"x", "\"", "\n">>))>>),    \* no tool, quoted back
   Call(Integer("2"), <<>>),
   Raw(<<" ", "\"", "jsonrpc", "\"", " ", ":", "\"", "2.0", "\"", ",", "\"", "method", "\"", ":",
         "\"", "x", "\"", ",", "\t", "\"", "method", "\"", ":", " ", "\"", "ping", "\"", ",",
         "\"", "id", "\"", ":", "\"", "\\", "u", "0061", "\\", "u", "d83d", "\\", "/", "\"">>),
   Envelope(<<"ping">>, <<M("id", Double("99999999999999999999"))>>),
   Envelope(<<"ping">>, <<M("id", Double("1e999"))>>),
   Envelope(<<"ping">>, <<M("id", Double("-inf"))>>),              \* no JSON, and taken
   <<"[", "]">>, <<"{">>, <<"{", "}", "x">>,
   Envelope(<<"ping">>, <<M("id", Bool(TRUE))>>),
   Envelope(<<"ping">>, <<M("params", Integer("1"))>>)}

MCOutcomes ==
  {[status |-> s, code |-> "", json |-> <<>>] :
     s \in {"kNotFound", "kInvalidArgument", "kDeadlineExceeded", "kUnavailable", "kInternal"}} \cup
  {[status |-> "kOk", code |-> "5", json |-> <<>>],
   [status |-> "kOk", code |-> "0", json |-> <<>>],
   [status |-> "kOk", code |-> "0", json |-> <<"[", "]">>],
   [status |-> "kOk", code |-> "", json |-> serialize(Obj(<<M("a", Str(<<"\"", "\n">>)), M("b", Arr(<<Null, Bool(TRUE)>>))>>))]}

-----------------------------------------------------------------------------
(* protobuf's JSON mapping: every member names a field and has its type *)
RECURSIVE Readable(_, _), FieldReads(_, _)
FieldReads(f, v) ==
  CASE f.map -> v[1] = "object"
    [] f.repeated /\ ~f.map ->
         v[1] = "array" /\ \A i \in DOMAIN v[2] : FieldReads([f EXCEPT !.repeated = FALSE], v[2][i])
    [] ~f.repeated /\ f.kind = "message" /\ f.message \in Messages -> Readable(f.message, v)
    [] ~f.repeated /\ (f.kind = "int" \/ f.message = "Int64Value") -> v[1] = "int"
    [] ~f.repeated /\ f.kind = "double" -> v[1] \in {"int", "double"}
    [] ~f.repeated /\ f.kind = "bool" -> v[1] = "bool"
    [] OTHER -> v[1] = "string"
Readable(m, v) ==
  /\ v[1] = "object"
  /\ \A i \in DOMAIN v[2] : \E j \in DOMAIN Fields[m] :
       Fields[m][j].name = v[2][i][1] /\ FieldReads(Fields[m][j], v[2][i][2])

ProtobufReads(text, m) == parse(text).ok /\ Readable(m, parse(text).val)

-----------------------------------------------------------------------------
(* arguments as a client would make them up from a JSON schema *)
RECURSIVE Conforming(_)
Conforming(schema) ==
  LET type == At(schema, "type")[2][1]
      members == IF Has(schema, "properties") THEN At(schema, "properties")[2] ELSE <<>>
  IN  CASE type = "object" -> Obj([i \in DOMAIN members |-> <<members[i][1], Conforming(members[i][2])>>])
        [] type = "array" -> Arr(<<Conforming(At(schema, "items"))>>)
        [] type = "string" -> IF Has(schema, "enum") THEN At(schema, "enum")[2][1] ELSE Str(<<"s">>)
        [] type = "integer" -> Integer("1")
        [] type = "number" -> Double("1.5")
        [] type = "boolean" -> Bool(TRUE)

(* What tools/list advertises can be called: arguments of the types the      *)
(* listed schema asks for, nested and repeated ones included, are not        *)
(* refused by tools/call, whatever was registered between the two requests.  *)
(* A tool without a request type is listed too, and can never be called.     *)
AdvertisedIsCallable ==
  pc = "top" /\ request.method = Key("tools/list") /\ session = "kInitialized" =>
    LET listed == At(At(Parse(response).val, "result"), "tools")[2]
    IN  \A i \in DOMAIN listed :
          LET name == At(listed[i], "name")
          IN  tools[name[2]].request # NoMessage =>
                refusal(Obj(<<M("name", name), M("arguments", Conforming(At(listed[i], "inputSchema")))>>)) = ""
=============================================================================
