------------------------------ MODULE JsonText ------------------------------
(***************************************************************************)
(* JsonValue, its serialiser and the recursive-descent parser of           *)
(* src/mcp/json_rpc.cpp.                                                   *)
(*                                                                         *)
(* A text is a sequence of symbols.  A symbol is a character, or a run of  *)
(* characters the parser only ever takes as a whole: a number, a literal,  *)
(* the four digits of a \u escape, a stretch of letters in a string.  A    *)
(* value is a pair of its type and its contents; an object keeps its       *)
(* members in order, as the code does.                                     *)
(***************************************************************************)
EXTENDS Naturals, Sequences, SequencesExt

Null == <<"null">>
Bool(b) == <<"bool", b>>
Integer(n) == <<"int", n>>    \* n: the number as it is printed
Double(n) == <<"double", n>>  \* n: what "%.17g" prints for it
Str(s) == <<"string", s>>     \* s: a sequence of symbols
Obj(members) == <<"object", members>>
Arr(elements) == <<"array", elements>>

hasMember(v, key) == v[1] = "object" /\ \E i \in DOMAIN v[2] : v[2][i][1] = key

(* set(): overwrite the member where it stands, or add it at the end *)
set(v, key, value) ==
  IF hasMember(v, key)
  THEN Obj([i \in DOMAIN v[2] |-> IF v[2][i][1] = key THEN <<key, value>> ELSE v[2][i]])
  ELSE Obj(Append(v[2], <<key, value>>))

-----------------------------------------------------------------------------
(* Characters and numbers *)

Whitespace == {" ", "\t", "\n", "\r"}
Letter == [c \in {"\"", "\\", "\n", "\r", "\t"} |->      \* two-character escapes
             CASE c = "\n" -> "n" [] c = "\r" -> "r" [] c = "\t" -> "t" [] OTHER -> c]
Unescaped == [l \in Range(Letter) \cup {"/"} |->
                IF l = "/" THEN l ELSE CHOOSE c \in DOMAIN Letter : Letter[c] = l]
Digits == [c \in {"<01>"} |-> "0001"]                    \* other control characters
Control == {"\n", "\r", "\t"} \cup DOMAIN Digits

(* what a \u escape adds: the UTF-8 form of the code point.  The two halves *)
(* of a surrogate pair are encoded one by one                               *)
CodePoint == [d \in {"0001", "0061", "4e2d", "d83d", "de00"} |->
                CASE d = "0001" -> "<01>" [] d = "0061" -> "a" [] OTHER -> d]

(* strtoll takes the whole literal; strtod does, and prints as shown, be it *)
(* a fraction, a whole number or out of the range of int64_t, or one of the *)
(* words it takes after a minus sign; any other literal is out of the range *)
(* of a double and refused                                                  *)
Integers64 == {"1", "2", "7", "-32700", "-32600", "-32601", "-32602", "-32603",
               "-32001", "-32002"}
Doubles == [l \in {"1.5", "1.0", "1e20", "99999999999999999999"} |->
              CASE l = "1.5" -> "1.5" [] l = "1.0" -> "1" [] OTHER -> "1e+20"]
Reprinted == {"1e+20", "-inf", "-nan"}  \* printed forms that strtod reads as the same double
Numbers == Integers64 \cup DOMAIN Doubles \cup Reprinted \cup {"1e999"}

-----------------------------------------------------------------------------
(* serialize() *)

(* Mutant: control characters are written as they are. *)
MutNoEscape(s) == <<"\"">> \o s \o <<"\"">>

serializeString(s) ==
  LET escape(c) == IF c \in DOMAIN Letter THEN <<"\\", Letter[c]>>
                   ELSE IF c \in DOMAIN Digits THEN <<"\\", "u", Digits[c]>> ELSE <<c>>
  IN  <<"\"">> \o FlattenSeq([i \in DOMAIN s |-> escape(s[i])]) \o <<"\"">>

(* the parts with a comma between two of them *)
Separated(parts) ==
  FlattenSeq([i \in DOMAIN parts |-> (IF i = 1 THEN <<>> ELSE <<",">>) \o parts[i]])

RECURSIVE serialize(_)
serialize(v) ==
  CASE v[1] = "null" -> <<"null">>
    [] v[1] = "bool" -> <<IF v[2] THEN "true" ELSE "false">>
    [] v[1] \in {"int", "double"} -> <<v[2]>>
    [] v[1] = "string" -> serializeString(v[2])
    [] v[1] = "array" ->
         <<"[">> \o Separated([i \in DOMAIN v[2] |-> serialize(v[2][i])]) \o <<"]">>
    [] v[1] = "object" ->
         <<"{">> \o Separated([i \in DOMAIN v[2] |->
                      serializeString(v[2][i][1]) \o <<":">> \o serialize(v[2][i][2])])
         \o <<"}">>

-----------------------------------------------------------------------------
(* JsonParserImpl.  Each function takes a text and a position and returns   *)
(* what it read and the position after it; the first error ends the parse.  *)

Read(v, p) == [ok |-> TRUE, val |-> v, pos |-> p]
Error == [ok |-> FALSE, val |-> Null, pos |-> 0]
peek(t, p) == IF p <= Len(t) THEN t[p] ELSE "\\0"

RECURSIVE skipWhitespace(_, _)
skipWhitespace(t, p) == IF peek(t, p) \in Whitespace THEN skipWhitespace(t, p + 1) ELSE p

(* the rest of a string, after its opening quote *)
RECURSIVE parseString(_, _, _)
parseString(t, p, s) ==
  LET c == peek(t, p)
      e == peek(t, p + 1)
  IN  IF p > Len(t) THEN Error
      ELSE IF c = "\"" THEN Read(Str(s), p + 1)
      ELSE IF c = "\\" /\ e \in DOMAIN Unescaped THEN
        parseString(t, p + 2, Append(s, Unescaped[e]))
      ELSE IF c = "\\" /\ e = "u" /\ peek(t, p + 2) \in DOMAIN CodePoint THEN
        parseString(t, p + 3, Append(s, CodePoint[t[p + 2]]))
      ELSE IF c \in Control \cup {"\\"} THEN Error
      ELSE parseString(t, p + 1, Append(s, c))

parseNumber(t, p) ==
  LET l == t[p]
  IN  IF l \in Integers64 THEN Read(Integer(l), p + 1)
      ELSE IF l \in DOMAIN Doubles THEN Read(Double(Doubles[l]), p + 1)
      ELSE IF l \in Reprinted THEN Read(Double(l), p + 1) ELSE Error

RECURSIVE parseValue(_, _), parseMembers(_, _, _), parseElements(_, _, _)
parseValue(t, start) ==
  LET p == skipWhitespace(t, start)
      c == peek(t, p)
      q == skipWhitespace(t, p + 1)
  IN  CASE c = "{" -> IF peek(t, q) = "}" THEN Read(Obj(<<>>), q + 1)
                      ELSE parseMembers(t, q, Obj(<<>>))
        [] c = "[" -> IF peek(t, q) = "]" THEN Read(Arr(<<>>), q + 1)
                      ELSE parseElements(t, q, <<>>)
        [] c = "\"" -> parseString(t, p + 1, <<>>)
        [] c \in {"true", "false"} -> Read(Bool(c = "true"), p + 1)
        [] c = "null" -> Read(Null, p + 1)
        [] c \in Numbers -> parseNumber(t, p)
        [] OTHER -> Error

(* the loop of parseObject; p is past the white space *)
parseMembers(t, p, obj) ==
  LET key == parseString(t, p + 1, <<>>)
      colon == skipWhitespace(t, key.pos)
      value == parseValue(t, colon + 1)
      grown == set(obj, key.val[2], value.val)
      next == skipWhitespace(t, value.pos)
  IN  IF peek(t, p) # "\"" \/ ~key.ok THEN Error
      ELSE IF peek(t, colon) # ":" \/ ~value.ok THEN Error
      ELSE IF peek(t, next) = "}" THEN Read(grown, next + 1)
      ELSE IF peek(t, next) = "," THEN parseMembers(t, skipWhitespace(t, next + 1), grown)
      ELSE Error

(* the loop of parseArray *)
parseElements(t, p, elements) ==
  LET value == parseValue(t, p)
      next == skipWhitespace(t, value.pos)
  IN  IF ~value.ok THEN Error
      ELSE IF peek(t, next) = "]" THEN Read(Arr(Append(elements, value.val)), next + 1)
      ELSE IF peek(t, next) = "," THEN parseElements(t, next + 1, Append(elements, value.val))
      ELSE Error

(* parse(): one value, and nothing after it but white space *)
parse(t) ==
  LET r == parseValue(t, 1)
  IN  IF r.ok /\ skipWhitespace(t, r.pos) > Len(t) THEN r ELSE Error
=============================================================================
