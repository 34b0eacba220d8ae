---------------------------- MODULE ToolRegistry ----------------------------
(***************************************************************************)
(* nexus::mcp::ToolRegistry (src/mcp/tool_registry.cpp): the table of      *)
(* tools, and what registerTool derives from protobuf descriptors.         *)
(*                                                                         *)
(* Identifiers are sequences of characters, because two of them may come   *)
(* to the same snake_case name.  Descriptions are left out; the input      *)
(* schema is a parameter (ToolSchema).                                     *)
(***************************************************************************)
EXTENDS Naturals, Sequences, SequencesExt

CONSTANTS
  Methods,         \* protobuf methods that may be registered
  Descriptors,     \* ToolDescriptors handed to registerTool as they are
  BuildSchema(_),  \* message type -> the parameters of its fields
  NoMessage        \* a null Descriptor*

VARIABLE tools  \* tools_, from name to descriptor; guarded by mutex_

-----------------------------------------------------------------------------
(* Names *)

ToLower == [c \in {"A", "B", "C"} |-> CASE c = "A" -> "a" [] c = "B" -> "b" [] c = "C" -> "c"]
Upper == DOMAIN ToLower
Lower == {ToLower[c] : c \in Upper}
Decimal == {"1", "2"}

(* an underscore before a capital that follows a lower-case letter or a     *)
(* digit, or that begins a capitalised word                                 *)
toSnakeCase(s) ==
  LET begins(i) == /\ i > 1
                   /\ \/ s[i - 1] \in Lower \cup Decimal
                      \/ i < Len(s) /\ s[i + 1] \in Lower
      char(i) == IF s[i] \notin Upper THEN <<s[i]>>
                 ELSE (IF begins(i) THEN <<"_">> ELSE <<>>) \o <<ToLower[s[i]]>>
  IN  FlattenSeq([i \in DOMAIN s |-> char(i)])

-----------------------------------------------------------------------------
(* The table *)

(* The service is addressed by its normalised name, the method by its own *)
toolDescriptor(m) ==
  [name |-> toSnakeCase(m.service) \o <<".">> \o toSnakeCase(m.method),
   service |-> toSnakeCase(m.service), method |-> m.method,
   request |-> m.request, response |-> m.response, input_schema |-> BuildSchema(m.request)]

(* Mutant: the last registration of a name wins. *)
MutOverwrites(d) == tools' = [n \in DOMAIN tools \cup {d.name} |->
                                IF n = d.name THEN d ELSE tools[n]]

(* registerTool(ToolDescriptor): refused without a name, or when it is taken *)
RegisterDescriptor(d) ==
  /\ d.name # <<>> /\ d.name \notin DOMAIN tools
  /\ tools' = [n \in DOMAIN tools \cup {d.name} |-> IF n = d.name THEN d ELSE tools[n]]

(* registerTool(service, method): nothing to do for a disabled tool *)
RegisterMethod(m) == m.enabled /\ RegisterDescriptor(toolDescriptor(m))

findTool(name) == name \in DOMAIN tools
listTools == SetToSeq({tools[n] : n \in DOMAIN tools})
=============================================================================
