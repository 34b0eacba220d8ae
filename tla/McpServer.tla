----------------------------- MODULE McpServer ------------------------------
(***************************************************************************)
(* nexus::mcp::McpServer (src/mcp/mcp_server.cpp): the loop that reads     *)
(* JSON-RPC requests line by line from stdin and answers them on stdout,   *)
(* forwarding tools/call to an RPC backend.                                *)
(*                                                                         *)
(* One thread is in run(); others may call stop() and register tools.  The *)
(* JSON codec is a parameter (JsonText), as is protobuf's conversion of    *)
(* JSON.  RpcClient::call is a step of its own: what the backend returns   *)
(* is one of Outcomes.                                                     *)
(***************************************************************************)
EXTENDS ToolRegistry

CONSTANTS
  Parse(_),       \* a text -> [ok, val]
  Serialize(_),   \* a value -> its text
  BuildToolSchema(_),  \* a descriptor -> its entry in tools/list
  JsonStringToMessage(_, _),  \* protobuf: may this text be read as that message?
  Lines,          \* what a client may send as a line
  Outcomes        \* what RpcClient::call may return

(* An outcome: status of the call; nexus.status_code in the response's      *)
(* metadata ("" if absent); the response printed as JSON by protobuf, empty *)
(* if it cannot be parsed or printed.                                       *)
ASSUME McpAssumption == \A o \in Outcomes : DOMAIN o = {"status", "code", "json"}

VARIABLES
  pc,       \* run(): "top" of the loop, "getline", "dispatch", "calling", "returned"
  session,  \* impl_->session.state
  stopped,  \* impl_->stopped
  eof,      \* the client closed stdin
  request,  \* run(): the request the last line was parsed into
  response, \* run(): the line written for it; <<>> for none
  tool,     \* handleToolsCall: what findTool points to, by name; <<>> for none
  called,   \* handleToolsCall: the descriptor the backend was called with
  greeted,  \* history: an initialize request was read before the last line
  owed,     \* history: lines read that call for an answer, less their answers
  late      \* history: lines read since stop()

vars == <<tools, pc, session, stopped, eof, request, response, tool, called, greeted, owed, late>>
local == <<request, response, tool, called>>
history == <<greeted, owed, late>>

-----------------------------------------------------------------------------
(* JSON-RPC: the request parser and the responses *)

Key(s) == <<s>>
Text(s) == <<"string", <<s>>>>
Number(n) == <<"int", n>>
Object(members) == <<"object", members>>
Array(elements) == <<"array", <<>> \o elements>>
NullId == <<"null">>

Has(v, key) == v[1] = "object" /\ \E i \in DOMAIN v[2] : v[2][i][1] = Key(key)
At(v, key) == v[2][CHOOSE i \in DOMAIN v[2] : v[2][i][1] = Key(key)][2]

NoRequest == [valid |-> FALSE, method |-> <<>>, id |-> NullId, params |-> NullId]

(* JsonRpcParser::parseRequest.  A missing id is a null id, missing params  *)
(* are null.                                                                *)
parseRequest(text) ==
  LET root == Parse(text).val
      id == IF Has(root, "id") THEN At(root, "id") ELSE NullId
      params == IF Has(root, "params") THEN At(root, "params") ELSE NullId
  IN  IF /\ Parse(text).ok /\ root[1] = "object"
         /\ Has(root, "jsonrpc") /\ At(root, "jsonrpc") = Text("2.0")
         /\ Has(root, "method") /\ At(root, "method")[1] = "string"
         /\ id[1] \in {"null", "string", "int", "double"}
         /\ Has(root, "params") => params[1] \in {"object", "array"}
      THEN [valid |-> TRUE, method |-> At(root, "method")[2], id |-> id, params |-> params]
      ELSE NoRequest

Response(id, key, value) ==
  Serialize(Object(<< <<Key("jsonrpc"), Text("2.0")>>, <<Key("id"), id>>, <<Key(key), value>> >>))
serializeResponse(id, result) == Response(id, "result", result)
serializeError(id, code, message) ==
  Response(id, "error", Object(<< <<Key("code"), Number(code)>>, <<Key("message"), message>> >>))
serializeParseError == serializeError(NullId, "-32700", Text("Parse error"))

(* what the handlers put in; serverInfo and capabilities are left out *)
initializeResult == Object(<< <<Key("protocolVersion"), Text("2024-11-05")>> >>)
toolsListResult(listed) ==
  Object(<< <<Key("tools"), Array([i \in DOMAIN listed |-> BuildToolSchema(listed[i])])>> >>)
unknownMethod(method) == <<"string", <<"Unknown method: ">> \o method>>
toolNotFound(name) == <<"string", <<"Tool not found: ">> \o name>>

-----------------------------------------------------------------------------
(* tools/call *)

(* protobuf's printed response, put into a request of its own to reuse      *)
(* parseRequest; only an object is taken                                    *)
wrapped(json) ==
  LET hole == Serialize(Object(<< <<Key("jsonrpc"), Text("2.0")>>, <<Key("method"), Text("_")>>,
                                  <<Key("id"), Number("1")>>, <<Key("params"), NullId>> >>))
  IN  SubSeq(hole, 1, Len(hole) - 2) \o json \o <<"}">>

protobufToJson(json) ==
  LET r == parseRequest(wrapped(json))
  IN  IF json # <<>> /\ r.valid /\ r.params[1] = "object" THEN r.params ELSE NullId

(* params["name"].toString(): empty when it is not a string *)
toolName(params) ==
  LET name == At(params, "name") IN IF name[1] = "string" THEN name[2] ELSE <<>>

(* "arguments" that are not an object count as none *)
arguments(params) ==
  IF Has(params, "arguments") /\ At(params, "arguments")[1] = "object"
  THEN At(params, "arguments") ELSE Object(<<>>)

jsonToProtobuf(args, message) ==
  message # NoMessage /\ JsonStringToMessage(Serialize(args), message)

(* why a call is refused before it reaches the backend; "" if it is not *)
refusal(params) ==
  IF ~Has(params, "name") THEN "-32602"
  ELSE IF ~findTool(toolName(params)) THEN "-32601"
  ELSE IF ~jsonToProtobuf(arguments(params), tools[toolName(params)].request) THEN "-32602"
  ELSE ""

refusalMessage(params) ==
  IF ~Has(params, "name") THEN Text("params must include 'name'")
  ELSE IF ~findTool(toolName(params)) THEN toolNotFound(toolName(params))
  ELSE Text("Failed to convert arguments")

statusToError(status) ==
  CASE status = "kNotFound" -> "-32601"
    [] status = "kInvalidArgument" -> "-32602"
    [] status = "kDeadlineExceeded" -> "-32001"
    [] status = "kUnavailable" -> "-32002"
    [] OTHER -> "-32603"

(* content[0].text carries the serialised object, structuredContent the     *)
(* object itself                                                            *)
callResult(json) ==
  Object(<< <<Key("content"),
              Array(<< Object(<< <<Key("type"), Text("text")>>,
                                 <<Key("text"), <<"string", Serialize(json)>>>> >>) >>)>>,
            <<Key("structuredContent"), json>> >>)

callReply(id, o, message) ==
  IF o.status # "kOk" THEN serializeError(id, statusToError(o.status), Text("RPC call failed"))
  ELSE IF o.code \notin {"", "0"} THEN serializeError(id, "-32603", Text("handler error"))
  ELSE IF message = NoMessage \/ protobufToJson(o.json) = NullId
  THEN serializeError(id, "-32603", Text("Failed to convert response"))
  ELSE serializeResponse(id, callResult(protobufToJson(o.json)))
-----------------------------------------------------------------------------
Init ==
  /\ tools = [n \in {} |-> <<>>]
  /\ pc = "top" /\ session = "kUninitialized" /\ stopped = FALSE /\ eof = FALSE
  /\ request = NoRequest /\ response = <<>> /\ tool = <<>> /\ called = <<>>
  /\ greeted = FALSE /\ owed = 0 /\ late = 0

(* Mutant: the loop does not look at stopped. *)
MutContinue ==
  /\ pc = "top" /\ pc' = "getline"
  /\ UNCHANGED <<tools, session, stopped, eof, local, history>>

(* run(): the loop condition, then getline, which blocks *)
Continue ==
  /\ pc = "top" /\ ~stopped /\ pc' = "getline"
  /\ UNCHANGED <<tools, session, stopped, eof, local, history>>

(* Mutant: end of input is not taken as the end. *)
MutReturn ==
  /\ pc = "top" /\ stopped
  /\ pc' = "returned" /\ stopped' = TRUE
  /\ UNCHANGED <<tools, session, eof, local, history>>

Return ==
  /\ \/ pc = "top" /\ stopped
     \/ pc = "getline" /\ eof
  /\ pc' = "returned" /\ stopped' = TRUE
  /\ UNCHANGED <<tools, session, eof, local, history>>

(* Whether JSON-RPC asks for an answer: to a line that is no request, and   *)
(* to a request with an id.  One without is a notification (isNotification) *)
(* and may go unanswered, like the notification dispatch() knows of.        *)
CallsForAnswer(l, r) ==
  IF r.valid THEN r.id # NullId /\ r.method # Key("notifications/initialized") ELSE l # <<>>

(* a blank line is skipped, one that is no request refused *)
GetLine(l) ==
  /\ pc = "getline" /\ ~eof
  /\ request' = parseRequest(l)
  /\ response' = (IF l # <<>> /\ ~request'.valid THEN serializeParseError ELSE <<>>)
  /\ pc' = (IF request'.valid THEN "dispatch" ELSE "top")
  /\ greeted' = (greeted \/ request.method = Key("initialize"))
  /\ owed' = (IF CallsForAnswer(l, request') /\ response' = <<>> THEN owed + 1 ELSE owed)
  /\ late' = (IF stopped THEN late + 1 ELSE late)
  /\ UNCHANGED <<tools, session, stopped, eof, tool, called>>

(* Mutant: nothing is written any more once stop() was called. *)
MutReply(text) ==
  /\ response' = (IF stopped THEN <<>> ELSE text)
  /\ owed' = (IF stopped \/ text = <<>> \/ request.id = NullId THEN owed ELSE owed - 1)
  /\ pc' = "top" /\ tool' = <<>> /\ called' = <<>>
  /\ UNCHANGED <<tools, stopped, eof, request, greeted, late>>

(* dispatch() returned a response, which is written if it is not empty *)
Reply(text) ==
  /\ response' = text
  /\ owed' = (IF text = <<>> \/ request.id = NullId THEN owed ELSE owed - 1)
  /\ pc' = "top" /\ tool' = <<>> /\ called' = <<>>
  /\ UNCHANGED <<tools, stopped, eof, request, greeted, late>>

Dispatching(method) ==
  /\ pc = "dispatch" /\ request.method = Key(method)
  /\ method \in {"initialize", "notifications/initialized"} \/ session = "kInitialized"

NotInitialized ==
  /\ pc = "dispatch" /\ session # "kInitialized"
  /\ request.method \notin {Key("initialize"), Key("notifications/initialized")}
  /\ Reply(serializeError(request.id, "-32002", Text("Server not initialized")))
  /\ UNCHANGED session

(* Mutant: a second initialize is accepted. *)
MutInitialize ==
  /\ Dispatching("initialize")
  /\ Reply(serializeResponse(request.id, initializeResult))
  /\ session' = "kInitialized"

Initialize ==
  /\ Dispatching("initialize")
  /\ IF session = "kUninitialized"
     THEN Reply(serializeResponse(request.id, initializeResult))
     ELSE Reply(serializeError(request.id, "-32600", Text("Server is already initialized")))
  /\ session' = "kInitialized"

Initialized ==
  /\ Dispatching("notifications/initialized")
  /\ Reply(<<>>) /\ UNCHANGED session

Ping ==
  /\ Dispatching("ping")
  /\ Reply(serializeResponse(request.id, Object(<<>>))) /\ UNCHANGED session

ToolsList ==
  /\ Dispatching("tools/list")
  /\ Reply(serializeResponse(request.id, toolsListResult(listTools)))
  /\ UNCHANGED session

CallRefused ==
  /\ Dispatching("tools/call")
  /\ refusal(request.params) # ""
  /\ Reply(serializeError(request.id, refusal(request.params), refusalMessage(request.params)))
  /\ UNCHANGED session

(* the backend is called with the descriptor findTool points to *)
CallBackend ==
  /\ Dispatching("tools/call")
  /\ refusal(request.params) = ""
  /\ tool' = toolName(request.params) /\ called' = tools[toolName(request.params)]
  /\ pc' = "calling"
  /\ UNCHANGED <<tools, session, stopped, eof, request, response, history>>

(* RpcClient::call returned; the tool's response type is read through the   *)
(* pointer only now                                                         *)
BackendReturns(o) ==
  /\ pc = "calling"
  /\ Reply(callReply(request.id, o, tools[tool].response)) /\ UNCHANGED session

UnknownMethod ==
  /\ pc = "dispatch" /\ session = "kInitialized"
  /\ request.method \notin {Key(m) : m \in {"initialize", "notifications/initialized",
                                            "ping", "tools/list", "tools/call"}}
  /\ Reply(serializeError(request.id, "-32601", unknownMethod(request.method)))
  /\ UNCHANGED session

(* other threads *)
Stop ==
  /\ ~stopped /\ stopped' = TRUE
  /\ UNCHANGED <<tools, pc, session, eof, local, history>>

RegisterTool ==
  /\ \/ \E m \in Methods : RegisterMethod(m)
     \/ \E d \in Descriptors : RegisterDescriptor(d)
  /\ UNCHANGED <<pc, session, stopped, eof, local, history>>

ClientCloses ==
  /\ ~eof /\ eof' = TRUE
  /\ UNCHANGED <<tools, pc, session, stopped, local, history>>

Handle ==
  \/ NotInitialized \/ Initialize \/ Initialized \/ Ping \/ ToolsList
  \/ CallRefused \/ CallBackend \/ UnknownMethod
  \/ \E o \in Outcomes : BackendReturns(o)

Next ==
  \/ Continue \/ Return \/ Handle \/ \E l \in Lines : GetLine(l)
  \/ Stop \/ RegisterTool \/ ClientCloses

(* The thread in run() keeps running, and RpcClient::call returns by its    *)
(* deadline; the client owes nothing.  Leaves says of Handle, which is      *)
(* enabled in every such state, all that fairness needs: that it moves pc.  *)
Leaves == pc \in {"dispatch", "calling"} /\ pc' \in {"calling", "top"}

Spec == Init /\ [][Next]_vars /\ WF_vars(Continue) /\ WF_vars(Return) /\ WF_pc(Leaves)

-----------------------------------------------------------------------------
(* Properties *)

(* JSON does not tell 1.0 from 1: numbers are the same if they print alike *)
SameId(a, b) ==
  \/ a = b
  \/ {a[1], b[1]} \subseteq {"int", "double"} /\ a[2] = b[2]

(* a line of stdout answers the request: it has no line break inside,       *)
(* parses, carries the request's id, and either a result or an error        *)
Answers(text) ==
  LET r == Parse(text)
  IN  /\ \A i \in DOMAIN text : text[i] # "\n"
      /\ r.ok
      /\ SameId(At(r.val, "id"), request.id)
      /\ Has(r.val, "result") # Has(r.val, "error")

(* a text is one line, parses, carries the id, and is of that kind *)
ReadsBack(text, id, kind) ==
  LET r == Parse(text)
  IN  /\ text # <<>> /\ \A i \in DOMAIN text : text[i] # "\n"
      /\ r.ok /\ SameId(At(r.val, "id"), id)
      /\ \A k \in {"result", "error"} : Has(r.val, k) <=> (k = kind)

ErrorReads(code, message) == ReadsBack(serializeError(request.id, code, message), request.id, "error")
ResultReads(value) == ReadsBack(serializeResponse(request.id, value), request.id, "result")

(* content[0].text of a result parses to its structuredContent *)
SaysItTwice(text) ==
  LET result == At(Parse(text).val, "result")
      inner == Parse(At(At(result, "content")[2][1], "text")[2])
  IN  inner.ok /\ inner.val = At(result, "structuredContent")

(* Whatever a handler may have to say on the request it has, the codec can  *)
(* say: each error and each result comes out of JsonValue's serialiser as   *)
(* one line that the parser reads back with its id and its kind, although   *)
(* ids, methods and tool names are the client's characters, schemas nest,   *)
(* and results were printed by protobuf; an object that callResult quotes   *)
(* inside the reply is the one beside it.  An empty text is no request.     *)
RepliesReadBack ==
  /\ ~Parse(<<>>).ok /\ ReadsBack(serializeParseError, NullId, "error")
  /\ pc \in {"dispatch", "calling"} =>
       /\ ErrorReads("-32002", Text("Server not initialized"))
       /\ ErrorReads("-32600", Text("Server is already initialized"))
       /\ ErrorReads("-32601", unknownMethod(request.method))
       /\ LET code == refusal(request.params)
          IN  code # "" => ErrorReads(code, refusalMessage(request.params))
       /\ \A o \in Outcomes : ErrorReads(statusToError(o.status), Text("RPC call failed"))
       /\ \A t \in {"handler error", "Failed to convert response"} : ErrorReads("-32603", Text(t))
       /\ ResultReads(initializeResult) /\ ResultReads(Object(<<>>))
       /\ ResultReads(toolsListResult(listTools))
       /\ \A o \in Outcomes :
            LET result == callResult(protobufToJson(o.json))
            IN  ResultReads(result) /\ SaysItTwice(serializeResponse(request.id, result))

(* Every request with an id, and every line that is no request, gets        *)
(* exactly one answer before the next line is read, and whatever is written *)
(* is a line of its own that parses and carries the id of the request just  *)
(* read, whatever characters the request made the server quote, and         *)
(* although stop(), registrations and the backend come in between.  Whether *)
(* a request without an id is answered is left open.                        *)
AnsweredInOrder ==
  pc = "top" => owed = 0 /\ (response # <<>> => Answers(response))

(* Nothing succeeds before the handshake, and it succeeds once: a line is   *)
(* answered with a result only if an initialize request was read before it, *)
(* or is the first one itself.                                              *)
OneHandshake ==
  LET succeeds == Has(Parse(response).val, "result")
  IN  pc = "top" /\ response # <<>> =>
        IF request.method = Key("initialize") THEN succeeds <=> ~greeted ELSE succeeds => greeted

(* The tool a call was looked up as, whose request type encoded the         *)
(* arguments, is still the tool whose response type decodes the answer,     *)
(* although findTool's pointer is used long after its lock was released and *)
(* tools of the same name are registered meanwhile.                         *)
CallUsesOneTool == pc = "calling" => findTool(tool) /\ tools[tool] = called

(* stop() lets at most one more line be read: the one getline was already   *)
(* waiting for.                                                             *)
StopTakesOneLine == late <= 1

(* run() returns once the client closes stdin, or once it is stopped and    *)
(* getline comes back.                                                      *)
RunReturns == (eof \/ late = 1) ~> pc = "returned"
=============================================================================
