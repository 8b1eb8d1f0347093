--------------------------- MODULE SettlementWire ---------------------------
(***************************************************************************)
(* The TypeScript client of the settlement service: the three messages as  *)
(* protobuf records and as JSON, and the table that binds each method to   *)
(* its codecs.  A stream is a sequence of wire records (field number, wire *)
(* type, value); the decoder reads it one tag at a time.  A peer built     *)
(* from another version of the schema may add records this one does not    *)
(* know, repeat a field, or use another wire type for it.                  *)
(***************************************************************************)
EXTENDS Naturals, Sequences, FiniteSets

CONSTANTS
  SafeMax,    \* Number.MAX_SAFE_INTEGER
  MaxSet,     \* bound: fields set in a message, unless all are
  MaxExtra    \* bound: records a peer adds to a stream

ASSUME WireAssumption == SafeMax \in Nat \ {0}

VARIABLES
  method,    \* "execute" or "query", and which half of the call it is
  sent,      \* the message the sender encoded
  stream,    \* the wire records
  extras,    \* records added by the peer
  position,  \* records consumed
  message,   \* the message being decoded
  reader     \* "sending", "reading", "done" or "refused"

wireVars == <<method, sent, stream, extras, position, message, reader>>

(* Field tables: name, number, kind.  Strings and bytes travel with wire   *)
(* type 2, int64 and bool with wire type 0.                                *)
SettlementRequestFields ==
  << <<"intentId", "text">>, <<"idempotencyKey", "text">>, <<"tenantId", "text">>,
     <<"direction", "text">>, <<"asset", "text">>, <<"fiat", "text">>, <<"amountMinor", "int64">>,
     <<"destination", "text">>, <<"canonicalPayload", "text">>, <<"payloadSha256", "text">>,
     <<"expiresAtRfc3339", "text">> >>

SettlementQueryRequestFields ==
  << <<"intentId", "text">>, <<"idempotencyKey", "text">>, <<"tenantId", "text">>,
     <<"asset", "text">>, <<"fiat", "text">>, <<"payloadSha256", "text">> >>

SettlementResponseFields ==
  << <<"state", "text">>, <<"reference", "text">>, <<"blockchainTx", "text">>, <<"reason", "text">>,
     <<"retryableWithoutEffect", "bool">>, <<"payloadSha256", "text">>, <<"attestationId", "text">> >>

WireType(kind) == IF kind = "text" THEN 2 ELSE 0

(* 0 is the default of every kind ("", 0, false, no bytes); values of text *)
(* and bool fields are told apart only by being set.                       *)
Values(kind) == IF kind = "int64" THEN 0..(SafeMax + 2) ELSE {0, 1}

Names(fields) == {fields[n][1] : n \in DOMAIN fields}
NumberOf(fields, name) == CHOOSE n \in DOMAIN fields : fields[n][1] = name
KindOf(fields, name) == fields[NumberOf(fields, name)][2]
Base(fields) == [name \in Names(fields) |-> 0]

CreateBaseSettlementRequest == Base(SettlementRequestFields)
CreateBaseSettlementQueryRequest == Base(SettlementQueryRequestFields)
CreateBaseSettlementResponse == Base(SettlementResponseFields)

-----------------------------------------------------------------------------
(* Encoding: in field order, defaults left out.                            *)

Encode(fields, m) ==
  LET written == {n \in DOMAIN fields : m[fields[n][1]] # 0}
      record(n) == [number |-> n, wire |-> WireType(fields[n][2]), value |-> m[fields[n][1]]]
      place(n) == Cardinality({k \in written : k <= n})
  IN  [p \in 1..Cardinality(written) |-> record(CHOOSE n \in written : place(n) = p)]

EncodeSettlementRequest(m) == Encode(SettlementRequestFields, m)
EncodeSettlementQueryRequest(m) == Encode(SettlementQueryRequestFields, m)
EncodeSettlementResponse(m) == Encode(SettlementResponseFields, m)

(* longToNumber: what a JavaScript number cannot hold exactly is refused.  *)
LongToNumber(v) == IF v > SafeMax THEN "unsafe" ELSE "exact"

(* Plausible bug: the wire type of a known field is not looked at.         *)
DecodeRecordLoose(fields, m, record) ==
  IF record.number \in DOMAIN fields THEN
    IF fields[record.number][2] = "int64" /\ LongToNumber(record.value) = "unsafe"
    THEN [act |-> "refuse", message |-> m]
    ELSE [act |-> "continue", message |-> [m EXCEPT ![fields[record.number][1]] = record.value]]
  ELSE [act |-> "continue", message |-> m]

(* One turn of the decoding loop: take the record into its field, or skip  *)
(* it, or stop at a zero tag or an end-group tag.                          *)
DecodeRecord(fields, m, record) ==
  LET known == record.number \in DOMAIN fields
      takes == known /\ record.wire = WireType(fields[record.number][2])
  IN  IF takes /\ fields[record.number][2] = "int64" /\ LongToNumber(record.value) = "unsafe"
      THEN [act |-> "refuse", message |-> m]
      ELSE IF takes
      THEN [act |-> "continue", message |-> [m EXCEPT ![fields[record.number][1]] = record.value]]
      ELSE IF record.wire = 4 \/ (record.number = 0 /\ record.wire = 0)
      THEN [act |-> "stop", message |-> m]
      ELSE [act |-> "continue", message |-> m]

DecodeSettlementRequest(m, record) == DecodeRecord(SettlementRequestFields, m, record)
DecodeSettlementQueryRequest(m, record) == DecodeRecord(SettlementQueryRequestFields, m, record)
DecodeSettlementResponse(m, record) == DecodeRecord(SettlementResponseFields, m, record)

(* SettlementService: the codec of each half of each method; both methods  *)
(* answer with a SettlementResponse.                                       *)
Deserialize(m, record) ==
  CASE method = "execute" -> DecodeSettlementRequest(m, record)
    [] method = "query"   -> DecodeSettlementQueryRequest(m, record)
    [] OTHER              -> DecodeSettlementResponse(m, record)

MethodFields(meth) ==
  CASE meth = "execute" -> SettlementRequestFields
    [] meth = "query"   -> SettlementQueryRequestFields
    [] OTHER            -> SettlementResponseFields

EmptyMessage(meth) ==
  CASE meth = "execute" -> CreateBaseSettlementRequest
    [] meth = "query"   -> CreateBaseSettlementQueryRequest
    [] OTHER            -> CreateBaseSettlementResponse

Serialize(m) ==
  CASE method = "execute" -> EncodeSettlementRequest(m)
    [] method = "query"   -> EncodeSettlementQueryRequest(m)
    [] OTHER              -> EncodeSettlementResponse(m)

-----------------------------------------------------------------------------
(* JSON: an object holds the names that differ from their default; the     *)
(* payload's bytes travel as base64, which loses nothing.                  *)

ToJSON(m) == [name \in {x \in DOMAIN m : m[x] # 0} |-> m[name]]

FromJSON(fields, object) ==
  [name \in Names(fields) |-> IF name \in DOMAIN object THEN object[name] ELSE 0]

SettlementRequestToJSON(m) == ToJSON(m)
SettlementQueryRequestToJSON(m) == ToJSON(m)
SettlementResponseToJSON(m) == ToJSON(m)
SettlementRequestFromJSON(o) == FromJSON(SettlementRequestFields, o)

SettlementQueryRequestFromJSON(o) == FromJSON(SettlementQueryRequestFields, o)
SettlementResponseFromJSON(o) == FromJSON(SettlementResponseFields, o)

ThroughJSON(m) ==
  CASE method = "execute" -> SettlementRequestFromJSON(SettlementRequestToJSON(m))
    [] method = "query"   -> SettlementQueryRequestFromJSON(SettlementQueryRequestToJSON(m))
    [] OTHER              -> SettlementResponseFromJSON(SettlementResponseToJSON(m))

-----------------------------------------------------------------------------
(* create: the fields the caller gives, the others at their default.       *)
FromPartial(base, object) ==
  [name \in DOMAIN base |-> IF name \in DOMAIN object THEN object[name] ELSE base[name]]
SettlementRequestFromPartial(o) == FromPartial(CreateBaseSettlementRequest, o)
SettlementQueryRequestFromPartial(o) == FromPartial(CreateBaseSettlementQueryRequest, o)
SettlementResponseFromPartial(o) == FromPartial(CreateBaseSettlementResponse, o)

(* What a caller gives: few fields, or all of them.                        *)
Given(fields) ==
  LET few == {S \in SUBSET Names(fields) : Cardinality(S) <= MaxSet} \cup {Names(fields)}
  IN  {[name \in S |-> IF KindOf(fields, name) = "int64" THEN v ELSE 1] :
         S \in few, v \in Values("int64") \ {0}}

Messages(meth) ==
  LET given == Given(MethodFields(meth))
  IN  CASE meth = "execute" -> {SettlementRequestFromPartial(o) : o \in given}
        [] meth = "query"   -> {SettlementQueryRequestFromPartial(o) : o \in given}
        [] OTHER            -> {SettlementResponseFromPartial(o) : o \in given}

WireInit ==
  /\ method \in {"execute", "query", "answer"}
  /\ sent \in Messages(method)
  /\ stream = <<>>
  /\ extras = 0
  /\ position = 0
  /\ message = EmptyMessage(method)
  /\ reader = "sending"

SendRecord ==
  /\ reader = "sending" /\ extras = 0 /\ stream = <<>>
  /\ stream' = Serialize(sent)
  /\ stream' # <<>>
  /\ UNCHANGED <<method, sent, extras, position, message, reader>>

(* A record of another version of the schema lands in the stream.          *)
PeerAdds(p, record) ==
  /\ reader = "sending" /\ stream # <<>> /\ extras < MaxExtra
  /\ p \in 0..Len(stream)
  /\ stream' = SubSeq(stream, 1, p) \o <<record>> \o SubSeq(stream, p + 1, Len(stream))
  /\ extras' = extras + 1
  /\ UNCHANGED <<method, sent, position, message, reader>>

(* An unknown number, or a known one with another wire type.               *)
UnknownRecords ==
  {[number |-> 15, wire |-> w, value |-> 1] : w \in {0, 2}}
  \cup {[number |-> n, wire |-> 2 - WireType(MethodFields(method)[n][2]), value |-> 1] :
          n \in {1, Len(MethodFields(method))}}

(* A zero tag or an end-group tag can only follow a whole message.         *)
ClosingRecords == {[number |-> 0, wire |-> 0, value |-> 0], [number |-> 15, wire |-> 4, value |-> 0]}

DeliverRecord ==
  /\ reader = "sending"
  /\ stream # <<>> \/ sent = EmptyMessage(method)
  /\ reader' = "reading"
  /\ UNCHANGED <<method, sent, stream, extras, position, message>>

Decode ==
  /\ reader = "reading" /\ position < Len(stream)
  /\ LET turn == Deserialize(message, stream[position + 1]) IN
     /\ position' = position + 1
     /\ message' = turn.message
     /\ reader' = CASE turn.act = "continue" -> "reading"
                    [] turn.act = "stop"     -> "done"
                    [] turn.act = "refuse"   -> "refused"
  /\ UNCHANGED <<method, sent, stream, extras>>

DecodeEnds ==
  /\ reader = "reading" /\ position = Len(stream)
  /\ reader' = "done"
  /\ UNCHANGED <<method, sent, stream, extras, position, message>>

WireNext ==
  \/ SendRecord \/ DeliverRecord \/ Decode \/ DecodeEnds
  \/ \E p \in 0..12, record \in UnknownRecords : PeerAdds(p, record)
  \/ \E record \in ClosingRecords : PeerAdds(Len(stream), record)

WireSpec == WireInit /\ [][WireNext]_wireVars

-----------------------------------------------------------------------------
(* Types of a call in transit.                                             *)
WireTypeOK ==
  /\ method \in {"execute", "query", "answer"}
  /\ DOMAIN message = DOMAIN sent
  /\ position \in 0..Len(stream) /\ extras \in 0..MaxExtra
  /\ reader \in {"sending", "reading", "done", "refused"}

(* What was encoded is what is decoded, field by field, whatever records   *)
(* of another version are mixed in; an amount that a JavaScript number     *)
(* cannot hold is refused and never altered (decode, longToNumber).        *)
DecodedIsSent ==
  /\ reader = "done" => message = sent
  /\ reader = "refused" => "amountMinor" \in DOMAIN sent /\ sent.amountMinor > SafeMax

(* A message survives its JSON form (toJSON, fromJSON).                    *)
JsonRoundTrip == ThroughJSON(sent) = sent

\* A message survives both encodings, between versions of the schema (settlement.ts).
WireSafety ==
  /\ WireTypeOK
  /\ DecodedIsSent
  /\ JsonRoundTrip
=============================================================================
