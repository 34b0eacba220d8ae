--------------------------- MODULE McpServerProofs ---------------------------
(***************************************************************************)
(* Proofs about McpServer, for any lines, tools and outcomes.              *)
(*                                                                         *)
(* What the server says is put together here and printed by a codec that   *)
(* is a parameter.  RepliesReadBack is all that is asked of the codec: TLC *)
(* checks it for JsonText, the recursive model of the code's own.  What is *)
(* proved is the rest: which request a reply belongs to, how many replies  *)
(* there are, and which of them may be results.                            *)
(***************************************************************************)
EXTENDS McpServer, TLAPS

(* A request that calls for an answer is owed one while it is handled.      *)
OwedInv ==
  owed = IF /\ pc \in {"dispatch", "calling"}
            /\ request.id # NullId /\ request.method # Key("notifications/initialized")
         THEN 1 ELSE 0

(* The handshake took place if an initialize request was handled: one that  *)
(* was read before the last line, or the last line itself.                  *)
HandshakeInv ==
  /\ session \in {"kUninitialized", "kInitialized"}
  /\ pc \in {"top", "getline", "dispatch", "calling", "returned"}
  /\ session = "kInitialized" <=>
       (greeted \/ (pc \notin {"dispatch", "calling"} /\ request.method = Key("initialize")))
  /\ pc = "calling" => session = "kInitialized" /\ request.method = Key("tools/call")

(* What was written for the last line: nothing, an error, or a result that  *)
(* the handshake allows.                                                    *)
WrittenInv ==
  pc = "top" =>
    \/ response = <<>>
    \/ ReadsBack(response, request.id, "error")
       /\ (request.method = Key("initialize") => greeted)
    \/ ReadsBack(response, request.id, "result")
       /\ (IF request.method = Key("initialize") THEN ~greeted ELSE greeted)

AnswerInv == OwedInv /\ HandshakeInv /\ WrittenInv

-----------------------------------------------------------------------------
(* Methods are told apart by their names.                                   *)
LEMMA MethodNames ==
  /\ Key("initialize") # Key("notifications/initialized")
  /\ Key("initialize") # Key("tools/call") /\ Key("initialize") # Key("tools/list")
  /\ Key("initialize") # Key("ping")
  /\ Key("tools/call") # Key("ping") /\ Key("tools/call") # Key("tools/list")
  /\ Key("notifications/initialized") # Key("tools/call")
  /\ Key("notifications/initialized") # Key("tools/list")
  /\ Key("notifications/initialized") # Key("ping")
  /\ <<>> # Key("initialize") /\ <<>> # Key("notifications/initialized")
  BY DEF Key

(* The reply of a handler: none to the notification, an error, or a result. *)
GoodReply(text) ==
  IF request.method = Key("notifications/initialized") THEN text = <<>>
  ELSE \/ /\ ReadsBack(text, request.id, "error")
          /\ request.method = Key("initialize") => greeted
       \/ /\ ReadsBack(text, request.id, "result")
          /\ IF request.method = Key("initialize") THEN ~greeted ELSE greeted

(* A handler that ends with such a reply keeps the invariant.               *)
LEMMA ReplyStep ==
  ASSUME AnswerInv, pc \in {"dispatch", "calling"}, NEW text, Reply(text), GoodReply(text),
         session' \in {"kUninitialized", "kInitialized"},
         session' = "kInitialized" <=> (greeted \/ request.method = Key("initialize"))
  PROVE  AnswerInv'
<1>1. /\ response' = text /\ pc' = "top" /\ UNCHANGED <<tools, request, greeted>>
      /\ owed' = IF text = <<>> \/ request.id = NullId THEN owed ELSE owed - 1
  BY DEF Reply
<1>2. HandshakeInv'
  BY <1>1 DEF HandshakeInv
<1>3. OwedInv'
  <2>1. request.method # Key("notifications/initialized") => text # <<>>
    BY DEF GoodReply, ReadsBack
  <2>2. owed' = 0
    BY <1>1, <2>1 DEF AnswerInv, OwedInv, GoodReply
  <2>. QED
    BY <1>1, <2>2 DEF OwedInv
<1>4. WrittenInv'
  <2>. SUFFICES \/ text = <<>>
                \/ ReadsBack(text, request.id, "error")
                   /\ (request.method = Key("initialize") => greeted)
                \/ ReadsBack(text, request.id, "result")
                   /\ (IF request.method = Key("initialize") THEN ~greeted ELSE greeted)
    BY <1>1 DEF WrittenInv, ReadsBack, SameId
  <2>. QED
    BY DEF GoodReply
<1>. QED
  BY <1>2, <1>3, <1>4 DEF AnswerInv

(* The server before the first line.                                        *)
LEMMA AnswerInit == Init => AnswerInv
<1>. SUFFICES ASSUME Init PROVE AnswerInv
  OBVIOUS
<1>1. NoRequest.method # Key("initialize")
  BY MethodNames DEF NoRequest
<1>2. OwedInv /\ HandshakeInv /\ WrittenInv
  BY <1>1 DEF Init, OwedInv, HandshakeInv, WrittenInv
<1>. QED
  BY <1>2 DEF AnswerInv

(* Reading a line: a blank one is skipped, one that is no request refused,  *)
(* and a request with an id is owed an answer.                              *)
LEMMA LineStep ==
  ASSUME AnswerInv, RepliesReadBack, NEW l \in Lines, GetLine(l)
  PROVE  AnswerInv'
<1>0. OwedInv /\ HandshakeInv
  BY DEF AnswerInv
<1>. DEFINE r == parseRequest(l)
<1>1. /\ pc = "getline" /\ request' = r /\ UNCHANGED <<tools, session>>
      /\ response' = (IF l # <<>> /\ ~r.valid THEN serializeParseError ELSE <<>>)
      /\ pc' = (IF r.valid THEN "dispatch" ELSE "top")
      /\ greeted' = (greeted \/ request.method = Key("initialize"))
      /\ owed' = IF CallsForAnswer(l, r) /\ response' = <<>> THEN owed + 1 ELSE owed
  BY DEF GetLine
<1>3. ~r.valid => r.id = NullId /\ r.method = <<>>
  BY DEF parseRequest, NoRequest
<1>4. ReadsBack(serializeParseError, NullId, "error")
  BY DEF RepliesReadBack
<1>5. serializeParseError # <<>>
  BY <1>4 DEF ReadsBack
<1>. HIDE DEF r
<1>6. HandshakeInv'
  BY <1>0, <1>1, <1>3, MethodNames DEF HandshakeInv
<1>7. OwedInv'
  <2>1. owed = 0
    BY <1>0, <1>1 DEF OwedInv
  <2>2. r.valid => owed' = IF r.id # NullId /\ r.method # Key("notifications/initialized")
                          THEN 1 ELSE 0
    BY <1>1, <2>1 DEF CallsForAnswer
  <2>3. ~r.valid => owed' = 0
    BY <1>1, <1>5, <2>1 DEF CallsForAnswer
  <2>. QED
    BY <1>1, <2>2, <2>3 DEF OwedInv
<1>8. WrittenInv'
  <2>. SUFFICES ASSUME ~r.valid
                PROVE  \/ response' = <<>>
                       \/ ReadsBack(response', r.id, "error") /\ r.method # Key("initialize")
    BY <1>1 DEF WrittenInv, ReadsBack, SameId
  <2>. QED
    BY <1>1, <1>3, <1>4, MethodNames
<1>. QED
  BY <1>6, <1>7, <1>8 DEF AnswerInv

(* Every handler that answers ends with a good reply; session only changes  *)
(* in initialize.                                                           *)
LEMMA HandlerStep ==
  ASSUME AnswerInv, RepliesReadBack,
         \/ NotInitialized \/ Initialize \/ Initialized \/ Ping \/ ToolsList
         \/ CallRefused \/ UnknownMethod \/ \E o \in Outcomes : BackendReturns(o)
  PROVE  AnswerInv'
<1>0. HandshakeInv
  BY DEF AnswerInv
<1>1. pc \in {"dispatch", "calling"}
  BY DEF NotInitialized, Initialize, Initialized, Ping, ToolsList, CallRefused, UnknownMethod,
         BackendReturns, Dispatching
<1>2. session \in {"kUninitialized", "kInitialized"} /\ (session = "kInitialized" <=> greeted)
  BY <1>0, <1>1 DEF HandshakeInv
(* the handlers that need the handshake *)
<1>3. ASSUME NEW text, Reply(text), session = "kInitialized", session' = session,
             request.method # Key("initialize"),
             request.method # Key("notifications/initialized"),
             ReadsBack(text, request.id, "error") \/ ReadsBack(text, request.id, "result")
      PROVE  AnswerInv'
  <2>1. GoodReply(text)
    BY <1>2, <1>3 DEF GoodReply
  <2>. QED
    BY <1>1, <1>2, <1>3, <2>1, ReplyStep
<1>4. CASE NotInitialized
  <2>. DEFINE text == serializeError(request.id, "-32002", Text("Server not initialized"))
  <2>1. /\ session # "kInitialized" /\ Reply(text) /\ session' = session
        /\ request.method # Key("initialize")
        /\ request.method # Key("notifications/initialized")
    BY <1>4 DEF NotInitialized
  <2>2. ReadsBack(text, request.id, "error")
    BY <1>1 DEF RepliesReadBack, ErrorReads
  <2>. HIDE DEF text
  <2>3. GoodReply(text)
    BY <2>1, <2>2 DEF GoodReply
  <2>. QED
    BY <1>1, <1>2, <2>1, <2>3, ReplyStep
<1>5. CASE Initialize
  <2>1. request.method = Key("initialize") /\ session' = "kInitialized"
    BY <1>5 DEF Initialize, Dispatching
  <2>2. CASE session = "kUninitialized"
    <3>. DEFINE text == serializeResponse(request.id, initializeResult)
    <3>1. Reply(text)
      BY <1>5, <2>2 DEF Initialize
    <3>2. ReadsBack(text, request.id, "result")
      BY <1>1 DEF RepliesReadBack, ResultReads
    <3>. HIDE DEF text
    <3>3. GoodReply(text)
      BY <1>2, <2>1, <2>2, <3>2, MethodNames DEF GoodReply
    <3>. QED
      BY <1>1, <2>1, <3>1, <3>3, ReplyStep
  <2>3. CASE session # "kUninitialized"
    <3>. DEFINE text == serializeError(request.id, "-32600", Text("Server is already initialized"))
    <3>1. Reply(text)
      BY <1>5, <2>3 DEF Initialize
    <3>2. ReadsBack(text, request.id, "error")
      BY <1>1 DEF RepliesReadBack, ErrorReads
    <3>. HIDE DEF text
    <3>3. GoodReply(text)
      BY <1>2, <2>1, <2>3, <3>2, MethodNames DEF GoodReply
    <3>. QED
      BY <1>1, <2>1, <3>1, <3>3, ReplyStep
  <2>. QED
    BY <2>2, <2>3
<1>6. CASE Initialized
  <2>1. /\ request.method = Key("notifications/initialized") /\ session' = session
        /\ Reply(<<>>)
    BY <1>6 DEF Initialized, Dispatching
  <2>2. GoodReply(<<>>)
    BY <2>1 DEF GoodReply
  <2>. QED
    BY <1>1, <1>2, <2>1, <2>2, MethodNames, ReplyStep
<1>7. CASE Ping
  <2>. DEFINE text == serializeResponse(request.id, Object(<<>>))
  <2>1. /\ session = "kInitialized" /\ session' = session
        /\ request.method = Key("ping") /\ Reply(text)
    BY <1>7 DEF Ping, Dispatching
  <2>2. ReadsBack(text, request.id, "result")
    BY <1>1 DEF RepliesReadBack, ResultReads
  <2>. QED
    BY <1>3, <2>1, <2>2, MethodNames
<1>8. CASE ToolsList
  <2>. DEFINE text == serializeResponse(request.id, toolsListResult(listTools))
  <2>1. /\ session = "kInitialized" /\ session' = session
        /\ request.method = Key("tools/list") /\ Reply(text)
    BY <1>8 DEF ToolsList, Dispatching
  <2>2. ReadsBack(text, request.id, "result")
    BY <1>1 DEF RepliesReadBack, ResultReads
  <2>. QED
    BY <1>3, <2>1, <2>2, MethodNames
<1>9. CASE CallRefused
  <2>. DEFINE code == refusal(request.params)
              text == serializeError(request.id, code, refusalMessage(request.params))
  <2>1. /\ session = "kInitialized" /\ session' = session
        /\ request.method = Key("tools/call") /\ code # "" /\ Reply(text)
    BY <1>9 DEF CallRefused, Dispatching
  <2>2. ReadsBack(text, request.id, "error")
    BY <1>1, <2>1 DEF RepliesReadBack, ErrorReads
  <2>. HIDE DEF text
  <2>. QED
    BY <1>3, <2>1, <2>2, MethodNames
<1>10. CASE UnknownMethod
  <2>. DEFINE text == serializeError(request.id, "-32601", unknownMethod(request.method))
  <2>1. /\ session = "kInitialized" /\ session' = session
        /\ request.method # Key("initialize")
        /\ request.method # Key("notifications/initialized") /\ Reply(text)
    BY <1>10 DEF UnknownMethod
  <2>2. ReadsBack(text, request.id, "error")
    BY <1>1 DEF RepliesReadBack, ErrorReads
  <2>. QED
    BY <1>3, <2>1, <2>2
<1>11. ASSUME NEW o \in Outcomes, BackendReturns(o)
       PROVE  AnswerInv'
  <2>. DEFINE text == callReply(request.id, o, tools[tool].response)
  <2>1. pc = "calling" /\ Reply(text) /\ session' = session
    BY <1>11 DEF BackendReturns
  <2>2. request.method = Key("tools/call") /\ session = "kInitialized"
    BY <1>0, <2>1 DEF HandshakeInv
  <2>3. /\ ErrorReads(statusToError(o.status), Text("RPC call failed"))
        /\ ErrorReads("-32603", Text("handler error"))
        /\ ErrorReads("-32603", Text("Failed to convert response"))
        /\ ResultReads(callResult(protobufToJson(o.json)))
    BY <1>1 DEF RepliesReadBack
  <2>4. ReadsBack(text, request.id, "result") \/ ReadsBack(text, request.id, "error")
    BY <2>3 DEF callReply, ErrorReads, ResultReads
  <2>. HIDE DEF text
  <2>. QED
    BY <1>3, <2>1, <2>2, <2>4, MethodNames
<1>. QED
  BY <1>4, <1>5, <1>6, <1>7, <1>8, <1>9, <1>10, <1>11

(* Registering a tool adds one and changes no other.                        *)
LEMMA RegisterEffect ==
  ASSUME RegisterTool
  PROVE  /\ UNCHANGED <<pc, session, stopped, eof, local, history>>
         /\ DOMAIN tools \subseteq DOMAIN tools'
         /\ \A n \in DOMAIN tools : tools'[n] = tools[n]
<1>1. PICK d : RegisterDescriptor(d)
  BY DEF RegisterTool, RegisterMethod
<1>2. /\ d.name \notin DOMAIN tools
      /\ tools' = [n \in DOMAIN tools \cup {d.name} |-> IF n = d.name THEN d ELSE tools[n]]
  BY <1>1 DEF RegisterDescriptor
<1>. QED
  BY <1>2 DEF RegisterTool

(* The invariant is inductive, given the codec.                             *)
LEMMA AnswerStep == AnswerInv /\ RepliesReadBack /\ [Next]_vars => AnswerInv'
<1>. SUFFICES ASSUME AnswerInv, RepliesReadBack, [Next]_vars PROVE AnswerInv'
  OBVIOUS
<1>0. OwedInv /\ HandshakeInv /\ WrittenInv
  BY DEF AnswerInv
<1>1. CASE /\ UNCHANGED <<session, request, response, greeted, owed>>
           /\ \/ pc' = pc
              \/ pc = "top" /\ pc' \in {"getline", "returned"}
              \/ pc = "getline" /\ pc' = "returned"
              \/ /\ pc = "dispatch" /\ pc' = "calling" /\ session = "kInitialized"
                 /\ request.method = Key("tools/call")
  <2>1. OwedInv'
    BY <1>0, <1>1 DEF OwedInv
  <2>2. HandshakeInv'
    BY <1>0, <1>1 DEF HandshakeInv
  <2>3. WrittenInv'
    BY <1>0, <1>1 DEF WrittenInv, ReadsBack, SameId
  <2>. QED
    BY <2>1, <2>2, <2>3 DEF AnswerInv
<1>2. CASE Continue \/ Return \/ Stop \/ ClientCloses \/ RegisterTool \/ UNCHANGED vars
  BY <1>1, <1>2 DEF Continue, Return, Stop, ClientCloses, RegisterTool, vars, local, history
<1>3. CASE CallBackend
  BY <1>1, <1>3 DEF CallBackend, Dispatching, history
<1>4. ASSUME NEW l \in Lines, GetLine(l)
      PROVE  AnswerInv'
  BY <1>4, LineStep
<1>5. CASE Handle
  BY <1>3, <1>5, HandlerStep DEF Handle
<1>. QED
  BY <1>2, <1>4, <1>5 DEF Next

(* It holds in every state, if the codec always does its part.              *)
LEMMA AnswerInvariant == Spec /\ []RepliesReadBack => []AnswerInv
  BY AnswerInit, AnswerStep, PTL DEF Spec

-----------------------------------------------------------------------------
(* The tool in use, and stop().                                             *)
ServeInv ==
  /\ CallUsesOneTool
  /\ late = 0 \/ (late = 1 /\ stopped /\ pc # "getline")

(* Tools are added and never replaced, so the pointer stays good; a line    *)
(* read after stop() takes run() to the top of its loop, which it leaves.   *)
LEMMA ServeStep == ServeInv /\ [Next]_vars => ServeInv'
<1>. SUFFICES ASSUME ServeInv, [Next]_vars PROVE ServeInv'
  OBVIOUS
<1>1. CASE Continue \/ Return \/ Stop \/ ClientCloses \/ UNCHANGED vars
  <2>1. /\ UNCHANGED <<tools, tool, called, late>>
        /\ pc' = "calling" => pc = "calling"
        /\ stopped => stopped'
        /\ pc' = "getline" => pc = "getline" \/ ~stopped
    BY <1>1 DEF Continue, Return, Stop, ClientCloses, vars, local, history
  <2>. QED
    BY <2>1 DEF ServeInv, CallUsesOneTool, findTool
<1>2. ASSUME NEW text, Reply(text)
      PROVE  ServeInv'
  BY <1>2 DEF Reply, ServeInv, CallUsesOneTool
<1>3. CASE CallBackend
  <2>1. refusal(request.params) = "" => findTool(toolName(request.params))
    BY DEF refusal
  <2>. QED
    BY <1>3, <2>1 DEF CallBackend, ServeInv, CallUsesOneTool, findTool, history
<1>4. CASE Handle
  BY <1>2, <1>3, <1>4 DEF Handle, NotInitialized, Initialize, Initialized, Ping, ToolsList,
                          CallRefused, UnknownMethod, BackendReturns
<1>5. ASSUME NEW l \in Lines, GetLine(l)
      PROVE  ServeInv'
  BY <1>5 DEF GetLine, ServeInv, CallUsesOneTool
<1>6. CASE RegisterTool
  BY <1>6, RegisterEffect DEF ServeInv, CallUsesOneTool, findTool, local, history
<1>. QED
  BY <1>1, <1>4, <1>5, <1>6 DEF Next

(* It holds in every state.                                                 *)
LEMMA ServeInvariant == Spec => []ServeInv
<1>1. Init => ServeInv
  BY DEF Init, ServeInv, CallUsesOneTool
<1>. QED
  BY <1>1, ServeStep, PTL DEF Spec

-----------------------------------------------------------------------------
(* Every request with an id gets one answer before the next line is read,   *)
(* and whatever is written carries the id of the request just read,         *)
(* whatever is registered, stopped or returned by the backend meanwhile, if *)
(* the codec reads back what it prints.                                     *)
THEOREM EveryLineIsAnswered == Spec /\ []RepliesReadBack => []AnsweredInOrder
<1>1. AnswerInv => AnsweredInOrder
  <2>. SUFFICES ASSUME AnswerInv, pc = "top"
                PROVE  owed = 0 /\ (response # <<>> => Answers(response))
    BY DEF AnsweredInOrder
  <2>1. owed = 0
    BY DEF AnswerInv, OwedInv
  <2>2. \A kind \in {"result", "error"} :
          ReadsBack(response, request.id, kind) => Answers(response)
    BY DEF ReadsBack, Answers
  <2>. QED
    BY <2>1, <2>2 DEF AnswerInv, WrittenInv
<1>. QED
  BY <1>1, AnswerInvariant, PTL

(* Nothing but the first initialize succeeds before the handshake, and the  *)
(* handshake succeeds once, if the codec reads back what it prints.         *)
THEOREM HandshakeIsFirst == Spec /\ []RepliesReadBack => []OneHandshake
<1>1. AnswerInv => OneHandshake
  <2>. SUFFICES ASSUME AnswerInv, pc = "top", response # <<>>
                PROVE  LET succeeds == Has(Parse(response).val, "result")
                       IN  IF request.method = Key("initialize") THEN succeeds <=> ~greeted
                           ELSE succeeds => greeted
    BY DEF OneHandshake
  <2>1. /\ ReadsBack(response, request.id, "error") => ~Has(Parse(response).val, "result")
        /\ ReadsBack(response, request.id, "result") => Has(Parse(response).val, "result")
    BY DEF ReadsBack
  <2>. QED
    BY <2>1 DEF AnswerInv, WrittenInv
<1>. QED
  BY <1>1, AnswerInvariant, PTL

(* The descriptor a call was encoded with is the one its answer is decoded  *)
(* with, although findTool's pointer is used after its lock was released.   *)
THEOREM PointerStaysGood == Spec => []CallUsesOneTool
<1>1. ServeInv => CallUsesOneTool
  BY DEF ServeInv
<1>. QED
  BY <1>1, ServeInvariant, PTL

(* At most the line getline was waiting for is read after stop().           *)
THEOREM StopIsPrompt == Spec => []StopTakesOneLine
<1>1. ServeInv => StopTakesOneLine
  BY DEF ServeInv, StopTakesOneLine
<1>. QED
  BY <1>1, ServeInvariant, PTL
=============================================================================
