--------------------------- MODULE MCFrameParser ---------------------------
(* Instances of FrameParser for TLC.  Base 4 gives the varints of entries    *)
(* two bytes.                                                                *)
EXTENDS FrameParser

Fields(type, total, meta, body) ==
  [common |-> TRUE, type |-> type, total |-> total, meta |-> meta, body |-> body]

Service == <<ServiceKey, <<3>>>>
Method == <<MethodKey, <<5>>>>

(* encodeFrame *)
Encoded(type, meta, body) ==
  LET m == encodeMetadata(meta)
  IN  [header |-> Fields(type, HeaderSize + Len(m) + Len(body), Len(m), Len(body)),
       payload |-> m \o body, wellFormed |-> TRUE, says |-> AsMap(meta)]

(* a frame whose metadata was written by another encoder, or by none *)
Frame(m, wellFormed) ==
  [header |-> Fields("request", HeaderSize + Len(m) + 1, Len(m), 1),
   payload |-> m \o <<7>>, wellFormed |-> wellFormed, says |-> AsMap(<<Service, Method>>)]

Entry(fields) == Delimited(EntryTag, fields)
Key(k) == Delimited(KeyTag, k)
Value(v) == Delimited(ValueTag, v)

Good == Encoded("request", <<Service, Method>>, <<>>)

(* Requests, among them ones with an empty value, with an unknown field,     *)
(* with the value first and with a key twice; frames that are no request or  *)
(* name no service.                                                          *)
WellFormed ==
  {Good,
   Encoded("request", << <<<<>>, <<>>>>, Service, Method>>, <<9, 9>>),
   Frame(Entry(Value(<<3>>) \o Key(ServiceKey) \o Delimited(26, <<1>>))
           \o Entry(Key(MethodKey) \o Value(<<5, 5, 5, 5>>)) \o Entry(Key(MethodKey) \o Value(<<5>>)),
         TRUE),
   Encoded("request", <<>>, <<>>), Encoded("request", <<Service, <<MethodKey, <<>>>>>>, <<9>>),
   Encoded("other", <<Service, Method>>, <<>>), Encoded("other", <<>>, <<>>)}

(* Metadata that decodeMetadata refuses, once for each of its error returns. *)
Malformed ==
  {Frame(<<18, 1, 0>>, FALSE),                        \* not an entry
   Frame(<<10, 4>>, FALSE),                           \* length cut short
   Frame(<<10, 3, 10>>, FALSE),                       \* entry too long
   Frame(<<10, 2, 8, 1>>, FALSE),                     \* not length-delimited
   Frame(<<10, 3, 10, 3, 1>>, FALSE),                 \* field too long
   Frame(Entry(Value(<<3>>)), FALSE)}                 \* no key

(* Metadata it takes although a length reaches past what contains it, by no  *)
(* more than the length's own varint: the last entry ends in the body, or    *)
(* the last field ends after its entry.  The body is long enough: a length   *)
(* that reaches past the whole payload is left out.                          *)
Overrunning ==
  LET method == Entry(Key(MethodKey) \o Value(<<5>>))
  IN  {Frame(Entry(Key(ServiceKey) \o Value(<<3>>)) \o SubSeq(method, 1, Len(method) - 1), FALSE),
       Frame(method \o Entry(Key(ServiceKey) \o <<ValueTag, 2, 3>>), FALSE)}

(* Each way a header can be wrong. *)
WrongHeader ==
  LET wrong(h) == [Good EXCEPT !.header = h]
      size == Len(Good.payload)
  IN  {wrong([Good.header EXCEPT !.common = FALSE]),
       wrong([Good.header EXCEPT !.type = "unknown"]),
       wrong(Fields("request", HeaderSize + MaxMeta + 1, MaxMeta + 1, 0)),
       wrong(Fields("request", HeaderSize + MaxBody + 1, 0, MaxBody + 1)),
       wrong(Fields("request", HeaderSize + MaxMeta + MaxBody + 1, MaxMeta, MaxBody)),
       wrong(Fields("request", HeaderSize + size, size, 1))}   \* sum does not match

AllFrames == WellFormed \cup Malformed \cup Overrunning \cup WrongHeader

(* What the proofs ask of decodeMetadata, on these frames, and what it makes *)
(* of the frames that are not well-formed.                                   *)
ASSUME DecoderAssumption ==
  /\ MetadataReadsBack
  /\ \A f \in Malformed : ~Decoded(f).ok
  /\ \A f \in Overrunning : Decoded(f).ok /\ Named(AsMap(Decoded(f).items))
=============================================================================
