---------------------------- MODULE MessageCodec ----------------------------
(***************************************************************************)
(* The messages of RocketSpeed on the wire and in the log (messages.h,     *)
(* messages.cc): each class's Serialize writes its fields one by one and   *)
(* its DeSerialize, written separately, reads them back; CreateNewInstance *)
(* picks the class by the first byte.  A message is a record of its        *)
(* fields.  Between publisher and subscriber a payload is encoded three    *)
(* times: in MessageData to the pilot, as the storage slice in the log and *)
(* in MessageDeliverData to the subscriber.                                *)
(***************************************************************************)
EXTENDS Coding, TLC

CONSTANTS
  MsgIdSize,       \* sizeof(MsgId)
  Samples,        \* the messages senders make
  Tenants,         \* the tenants of subscribers
  Subscriptions,   \* the ids of the subscriptions a record is delivered on
  Positions        \* the pairs of sequence numbers log and tower assign

mPing == 1
mPublish == 2
mDataAck == 4
mGap == 5
mDeliver == 6
mGoodbye == 7
mSubscribe == 8
mUnsubscribe == 9
mDeliverGap == 10
mDeliverData == 11
mFindTailSeqno == 12
mTailSeqno == 13
mDeliverBatch == 14
mHeartbeat == 15
MessageType == mPing .. mHeartbeat

\* The enumerations with the bounds of their ValidateEnum.
PingType == 1 .. 2
GapType == 0 .. 2
AckStatus == 0 .. 1
Code == 0 .. 1
OriginType == 0 .. 1
Reason == 0 .. 2

-----------------------------------------------------------------------------
(* The classes: what an object of each of them holds.                      *)

Slice == Seq(Byte)
MsgId == [1 .. MsgIdSize -> Byte]
SequenceNumber == Uint(Bytes64)
TenantID == Uint(Bytes16)
SubscriptionID == Uint(Bytes64)

MessagePing == [type : {mPing}, tenant : TenantID, pingtype : PingType, cookie : Slice]
MessageData ==
  [type : {mPublish, mDeliver}, tenant : TenantID, prev : SequenceNumber, seqno : SequenceNumber,
   ns : Slice, topic : Slice, msgid : MsgId, payload : Slice]
Ack == [status : AckStatus, msgid : MsgId, seqno : SequenceNumber]
MessageDataAck == [type : {mDataAck}, tenant : TenantID, acks : Seq(Ack)]
MessageGap ==
  [type : {mGap}, tenant : TenantID, ns : Slice, topic : Slice, gaptype : GapType,
   from : SequenceNumber, to : SequenceNumber]
MessageGoodbye == [type : {mGoodbye}, tenant : TenantID, code : Code, origin : OriginType]
MessageFindTailSeqno == [type : {mFindTailSeqno}, tenant : TenantID, ns : Slice, topic : Slice]
MessageTailSeqno ==
  [type : {mTailSeqno}, tenant : TenantID, ns : Slice, topic : Slice, seqno : SequenceNumber]
MessageSubscribe ==
  [type : {mSubscribe}, tenant : TenantID, ns : Slice, topic : Slice, start : SequenceNumber,
   sub : SubscriptionID]
MessageUnsubscribe == [type : {mUnsubscribe}, tenant : TenantID, sub : SubscriptionID, reason : Reason]

\* SetSequenceNumbers asserts the order of the two numbers.
MessageDeliver(m) == m.sub \in SubscriptionID /\ m.prev \in SequenceNumber /\ m.prev <= m.seqno
MessageDeliverGap ==
  [type : {mDeliverGap}, tenant : TenantID, sub : SubscriptionID, prev : SequenceNumber,
   seqno : SequenceNumber, gaptype : GapType]
MessageDeliverData ==
  [type : {mDeliverData}, tenant : TenantID, sub : SubscriptionID, prev : SequenceNumber,
   seqno : SequenceNumber, msgid : MsgId, payload : Slice]
MessageDeliverBatch == [type : {mDeliverBatch}, tenant : TenantID, messages : Seq(MessageDeliverData)]
MessageHeartbeat ==
  [type : {mHeartbeat}, tenant : TenantID, timestamp : Uint(Bytes64), streams : SUBSET Uint(Bytes32)]

\* The object is one of the class its type stands for.
Message(m) ==
  CASE m.type = mPing -> m \in MessagePing
    [] m.type \in {mPublish, mDeliver} -> m \in MessageData
    [] m.type = mDataAck -> m \in MessageDataAck
    [] m.type = mGap -> m \in MessageGap
    [] m.type = mGoodbye -> m \in MessageGoodbye
    [] m.type = mSubscribe -> m \in MessageSubscribe
    [] m.type = mUnsubscribe -> m \in MessageUnsubscribe
    [] m.type = mDeliverGap -> m \in MessageDeliverGap /\ MessageDeliver(m)
    [] m.type = mDeliverData -> m \in MessageDeliverData /\ MessageDeliver(m)
    [] m.type = mFindTailSeqno -> m \in MessageFindTailSeqno
    [] m.type = mTailSeqno -> m \in MessageTailSeqno
    [] m.type = mDeliverBatch ->
         m \in MessageDeliverBatch /\ \A i \in DOMAIN m.messages : MessageDeliver(m.messages[i])
    [] m.type = mHeartbeat -> m \in MessageHeartbeat

-----------------------------------------------------------------------------
(* Serialize.                                                              *)

Header(m) == PutFixed8(m.type) \o PutFixed16(m.tenant)
Concat(ss) == FoldLeft(LAMBDA acc, s : acc \o s, <<>>, ss)

SerializePing(m) == Header(m) \o PutFixed8(m.pingtype) \o PutLengthPrefixedSlice(m.cookie)

SerializeInternal(m) ==
  PutFixed16(m.tenant) \o PutTopicID(m.ns, m.topic)
    \o PutLengthPrefixedSlice(m.msgid) \o PutLengthPrefixedSlice(m.payload)
SerializeData(m) ==
  PutFixed8(m.type) \o PutVarint64(m.prev) \o PutVarint64(m.seqno) \o SerializeInternal(m)

SerializeDataAck(m) ==
  Header(m) \o PutVarint32(Len(m.acks))
    \o Concat([i \in 1 .. Len(m.acks) |->
                 PutFixed8(m.acks[i].status) \o m.acks[i].msgid \o PutVarint64(m.acks[i].seqno)])

SerializeGap(m) ==
  Header(m) \o PutTopicID(m.ns, m.topic) \o PutFixed8(m.gaptype)
    \o PutVarint64(m.from) \o PutVarint64(m.to)

SerializeGoodbye(m) == Header(m) \o PutFixed8(m.code) \o PutFixed8(m.origin)

SerializeFindTailSeqno(m) == Header(m) \o PutTopicID(m.ns, m.topic)
SerializeTailSeqno(m) == Header(m) \o PutTopicID(m.ns, m.topic) \o PutVarint64(m.seqno)

EncodeSubscriptionID(id) == PutVarint64(id)
SerializeSubscribe(m) ==
  Header(m) \o PutTopicID(m.ns, m.topic) \o PutVarint64(m.start) \o EncodeSubscriptionID(m.sub)
SerializeUnsubscribe(m) == Header(m) \o EncodeSubscriptionID(m.sub) \o PutFixed8(m.reason)

\* The second sequence number goes as its distance from the first.
SerializeDeliver(m) ==
  Header(m) \o EncodeSubscriptionID(m.sub) \o PutVarint64(m.prev) \o PutVarint64(m.seqno - m.prev)
SerializeDeliverGap(m) == SerializeDeliver(m) \o PutFixed8(m.gaptype)
SerializeDeliverData(m) ==
  SerializeDeliver(m) \o PutLengthPrefixedSlice(m.msgid) \o PutLengthPrefixedSlice(m.payload)

SerializeDeliverBatch(m) ==
  Header(m) \o PutVarint64(Len(m.messages))
    \o Concat([i \in 1 .. Len(m.messages) |-> SerializeDeliverData(m.messages[i])])

\* The unordered set of streams is written in some order.
SerializeHeartbeat(m) ==
  LET streams == SetToSeq(m.streams) IN
  Header(m) \o PutFixed64(m.timestamp)
    \o Concat([i \in 1 .. Len(streams) |-> PutVarint32(streams[i])])

Serialize(m) ==
  CASE m.type = mPing -> SerializePing(m)
    [] m.type \in {mPublish, mDeliver} -> SerializeData(m)
    [] m.type = mDataAck -> SerializeDataAck(m)
    [] m.type = mGap -> SerializeGap(m)
    [] m.type = mGoodbye -> SerializeGoodbye(m)
    [] m.type = mSubscribe -> SerializeSubscribe(m)
    [] m.type = mUnsubscribe -> SerializeUnsubscribe(m)
    [] m.type = mDeliverGap -> SerializeDeliverGap(m)
    [] m.type = mDeliverData -> SerializeDeliverData(m)
    [] m.type = mFindTailSeqno -> SerializeFindTailSeqno(m)
    [] m.type = mTailSeqno -> SerializeTailSeqno(m)
    [] m.type = mDeliverBatch -> SerializeDeliverBatch(m)
    [] m.type = mHeartbeat -> SerializeHeartbeat(m)

-----------------------------------------------------------------------------
(* DeSerialize.  A layout lists the fields of a class with the Get routine *)
(* that reads each of them; the first failure ends the reading.            *)

\* The length-prefixed message id: at least sizeof(MsgId) long, the first bytes are copied.
GetMsgId(in) ==
  Then(GetLengthPrefixedSlice(in),
       LAMBDA g : IF Len(g.val) >= MsgIdSize THEN [g EXCEPT !.val = SubSeq(@, 1, MsgIdSize)] ELSE Bad)

Read(kind, in) ==
  CASE kind[1] = "enum" -> GetFixedEnum8(kind[2], in)
    [] kind[1] = "fixed16" -> GetFixed16(in)
    [] kind[1] = "fixed32" -> GetFixed32(in)
    [] kind[1] = "fixed64" -> GetFixed64(in)
    [] kind[1] = "varint32" -> GetVarint32(in)
    [] kind[1] = "varint64" -> GetVarint64(in)
    [] kind[1] = "slice" -> GetLengthPrefixedSlice(in)
    [] kind[1] = "id" -> GetMsgId(in)
    [] kind[1] = "bytes" -> GetBytes(kind[2], in)

ReadField(acc, f) ==
  Then(acc, LAMBDA a :
    Then(Read(f[2], a.rest), LAMBDA g :
      [ok |-> TRUE, val |-> a.val @@ (f[1] :> g.val), rest |-> g.rest]))
Fields(layout, in) == FoldLeft(ReadField, [ok |-> TRUE, val |-> <<>>, rest |-> in], layout)

RECURSIVE Repeat(_, _, _)
Repeat(n, layout, in) ==
  IF n = 0 THEN [ok |-> TRUE, val |-> <<>>, rest |-> in]
  ELSE Then(Fields(layout, in), LAMBDA g :
         Then(Repeat(n - 1, layout, g.rest), LAMBDA r : [r EXCEPT !.val = <<g.val>> \o @]))

Var64 == <<"varint64">>
Sized == <<"slice">>
TypeField == <<"type", <<"enum", MessageType>>>>
TopicID == <<<<"ns", Sized>>, <<"topic", Sized>>>>
HeaderFields == <<TypeField, <<"tenant", <<"fixed16">>>>>>

PingFields == HeaderFields \o <<<<"pingtype", <<"enum", PingType>>>>, <<"cookie", Sized>>>>
StorageFields ==
  <<<<"tenant", <<"fixed16">>>>>> \o TopicID \o <<<<"msgid", <<"id">>>>, <<"payload", Sized>>>>
DataFields == <<TypeField, <<"prev", Var64>>, <<"seqno", Var64>>>>
AckFields ==
  <<<<"status", <<"enum", AckStatus>>>>, <<"msgid", <<"bytes", MsgIdSize>>>>, <<"seqno", Var64>>>>
GapFields ==
  HeaderFields \o TopicID
    \o <<<<"gaptype", <<"enum", GapType>>>>, <<"from", Var64>>, <<"to", Var64>>>>
GoodbyeFields == HeaderFields \o <<<<"code", <<"enum", Code>>>>, <<"origin", <<"enum", OriginType>>>>>>
FindTailSeqnoFields == HeaderFields \o TopicID
TailSeqnoFields == HeaderFields \o TopicID \o <<<<"seqno", Var64>>>>
SubscribeFields == HeaderFields \o TopicID \o <<<<"start", Var64>>, <<"sub", Var64>>>>
UnsubscribeFields == HeaderFields \o <<<<"sub", Var64>>, <<"reason", <<"enum", Reason>>>>>>
DeliverFields == HeaderFields \o <<<<"sub", Var64>>, <<"prev", Var64>>, <<"diff", Var64>>>>
DeliverGapFields == DeliverFields \o <<<<"gaptype", <<"enum", GapType>>>>>>
DeliverDataFields == DeliverFields \o <<<<"msgid", <<"id">>>>, <<"payload", Sized>>>>

\* Mutant: the difference is taken for the sequence number.
AddDiffNot(m) ==
  [f \in (DOMAIN m \ {"diff"}) \cup {"seqno"} |-> IF f = "seqno" THEN m.diff ELSE m[f]]

\* seqno_ = seqno_prev_ + seqno_diff, in 64 bits.
AddDiff(m) ==
  [f \in (DOMAIN m \ {"diff"}) \cup {"seqno"} |->
     IF f = "seqno" THEN (m.prev + m.diff) % Base ^ Bytes64 ELSE m[f]]

Undiff(g) == Then(g, LAMBDA d : [d EXCEPT !.val = AddDiff(@)])

\* A count, then that many elements, under the name of the vector.
Counted(kind, layout, name, in) ==
  Then(Fields(HeaderFields \o <<<<"count", kind>>>>, in), LAMBDA h :
    Then(Repeat(h.val.count, layout, h.rest), LAMBDA r :
      [r EXCEPT !.val = [type |-> h.val.type, tenant |-> h.val.tenant] @@ (name :> @)]))

DeSerializeDataAck(in) == Counted(<<"varint32">>, AckFields, "acks", in)

DeSerializeDeliverBatch(in) ==
  Then(Counted(Var64, DeliverDataFields, "messages", in), LAMBDA g :
    [g EXCEPT !.val = [@ EXCEPT !.messages = [i \in 1 .. Len(@) |-> AddDiff(@[i])]]])

\* The streams follow up to the end of the frame, or to what is no varint.
RECURSIVE HealthyStreams(_)
HealthyStreams(in) ==
  LET g == GetVarint32(in) IN IF g.ok THEN {g.val} \cup HealthyStreams(g.rest) ELSE {}

DeSerializeHeartbeat(in) ==
  Then(Fields(HeaderFields, in), LAMBDA h :
    IF h.rest = <<>> THEN [h EXCEPT !.val = @ @@ [timestamp |-> 0, streams |-> {}]]
    ELSE Then(GetFixed64(h.rest), LAMBDA t :
           [ok |-> TRUE, rest |-> <<>>,
            val |-> h.val @@ [timestamp |-> t.val, streams |-> HealthyStreams(t.rest)]]))

DeSerializeStorage(in) == Fields(StorageFields, in)

\* What MessageData::DeSerialize remembers for GetStorageSlice.
StorageSlice(in) == Fields(DataFields, in).rest
DeSerializeData(in) ==
  Then(Fields(DataFields, in), LAMBDA h :
    Then(DeSerializeStorage(h.rest), LAMBDA s : [s EXCEPT !.val = h.val @@ @]))

CreateNewInstance(in) ==
  LET type == IF in = <<>> THEN 0 ELSE in[1] IN
  CASE type = mPing -> Fields(PingFields, in)
    [] type \in {mPublish, mDeliver} -> DeSerializeData(in)
    [] type = mDataAck -> DeSerializeDataAck(in)
    [] type = mGap -> Fields(GapFields, in)
    [] type = mGoodbye -> Fields(GoodbyeFields, in)
    [] type = mSubscribe -> Fields(SubscribeFields, in)
    [] type = mUnsubscribe -> Fields(UnsubscribeFields, in)
    [] type = mDeliverGap -> Undiff(Fields(DeliverGapFields, in))
    [] type = mDeliverData -> Undiff(Fields(DeliverDataFields, in))
    [] type = mFindTailSeqno -> Fields(FindTailSeqnoFields, in)
    [] type = mTailSeqno -> Fields(TailSeqnoFields, in)
    [] type = mDeliverBatch -> DeSerializeDeliverBatch(in)
    [] type = mHeartbeat -> DeSerializeHeartbeat(in)
    [] OTHER -> Bad

-----------------------------------------------------------------------------
(* The file of a client's saved subscriptions: one record after another,   *)
(* without a count.                                                        *)

\* SubscriptionParameters
SubscriptionParameters(m) == [tenant |-> m.tenant, start |-> m.start, ns |-> m.ns, topic |-> m.topic]

\* Snapshot::Append
AppendRecord(m) ==
  LET topicId == PutTopicID(m.ns, m.topic) IN
  PutFixed16(m.tenant) \o PutFixed64(m.start) \o PutFixed32(Len(topicId)) \o topicId

RecordFields == <<<<"tenant", <<"fixed16">>>>, <<"start", <<"fixed64">>>>, <<"size", <<"fixed32">>>>>>
RecordHeader == Bytes16 + Bytes64 + Bytes32

\* SequentialFile::Read: up to n bytes.
Chunk(n, in) == SubSeq(in, 1, Min({n, Len(in)}))

\* The buffer of RestoreSubscriptions once name was read into it: what it held before stays behind.
Refill(buffer, name) == name \o SubSeq(buffer, Len(name) + 1, Len(buffer))

\* RestoreSubscriptions from the rest of the file; the topic is parsed out of the whole buffer.
RECURSIVE RestoreSubscriptions(_, _)
RestoreSubscriptions(in, buffer) ==
  IF in = <<>> THEN [ok |-> TRUE, val |-> <<>>]
  ELSE Then(Fields(RecordFields, Chunk(RecordHeader, in)), LAMBDA h :
         LET after == SubSeq(in, RecordHeader + 1, Len(in))
             name == Chunk(h.val.size, after)
             filled == Refill(Refill(buffer, Chunk(RecordHeader, in)), name)
         IN  IF Len(name) # h.val.size THEN Bad
             ELSE Then(Fields(TopicID, filled), LAMBDA t :
                    Then(RestoreSubscriptions(SubSeq(after, h.val.size + 1, Len(after)), filled), LAMBDA r :
                      [r EXCEPT !.val = <<SubscriptionParameters(h.val @@ t.val)>> \o @])))

-----------------------------------------------------------------------------
(* The path of a message: an object of the sender, bytes of a frame, an    *)
(* object of the receiver; and, for what is published, the record in the   *)
(* log and the object the tower reads from it.                             *)

VARIABLES
  msg,        \* the message object, at the sender or the receiver
  bytes,      \* its encoding, in a frame or in the log
  at,         \* "sender", "wire", "receiver", "log", "tower", "file" or "refused"
  original    \* the message that was sent first
vars == <<msg, bytes, at, original>>

Init == msg \in Samples /\ bytes = <<>> /\ at = "sender" /\ original = msg

\* SerializeToString into the frame of a stream.
Send == at = "sender" /\ bytes' = Serialize(msg) /\ at' = "wire" /\ UNCHANGED <<msg, original>>

\* SocketEvent::ReadCallback on the body of a frame.
Receive ==
  /\ at = "wire"
  /\ \E g \in {CreateNewInstance(bytes)} :
       IF g.ok THEN msg' = g.val /\ at' = "receiver" ELSE msg' = msg /\ at' = "refused"
  /\ UNCHANGED <<bytes, original>>

\* A message that is no publication is sent on as it is (Message::Copy).
Forward ==
  /\ at = "receiver" /\ msg.type # mPublish
  /\ at' = "sender" /\ UNCHANGED <<msg, bytes, original>>

\* Pilot::ProcessPublish: the storage slice is appended to the log.
ProcessPublish ==
  /\ at = "receiver" /\ msg.type = mPublish
  /\ bytes' = StorageSlice(bytes) /\ at' = "log"
  /\ UNCHANGED <<msg, original>>

\* LogRecordMessageData: a record of the log becomes a message with the numbers of the log.
ReadLog ==
  /\ at = "log"
  /\ \E g \in {DeSerializeStorage(bytes)} :
     IF g.ok THEN \E pos \in Positions :
                    /\ msg' = g.val @@ [type |-> mDeliver, prev |-> pos[1], seqno |-> pos[2]]
                    /\ at' = "tower"
             ELSE msg' = msg /\ at' = "refused"
  /\ UNCHANGED <<bytes, original>>

DeliverData(m, tenant, sub) ==
  [type |-> mDeliverData, tenant |-> tenant, sub |-> sub, prev |-> m.prev, seqno |-> m.seqno,
   msgid |-> m.msgid, payload |-> m.payload]

\* ControlRoom::ProcessDeliver to one recipient.
ProcessDeliver(sub) ==
  /\ at = "tower"
  /\ msg' = DeliverData(msg, msg.tenant, sub) /\ at' = "sender"
  /\ UNCHANGED <<bytes, original>>

\* CopilotWorker::ProcessDeliver to one subscriber, with its tenant and its id.
Redeliver(tenant, sub) ==
  /\ at = "receiver" /\ msg.type = mDeliverData
  /\ msg' = DeliverData(msg, tenant, sub) /\ at' = "sender"
  /\ UNCHANGED <<bytes, original>>

\* The subscriptions a client may have besides the one of msg.
Others == {SubscriptionParameters(m) : m \in {m \in Samples : m.type = mSubscribe}}

\* The client saves the subscription and another one.
SaveSubscriptions(other) ==
  /\ at = "sender" /\ msg.type = mSubscribe
  /\ bytes' = AppendRecord(msg) \o AppendRecord(other) /\ at' = "file"
  /\ UNCHANGED <<msg, original>>

Next ==
  \/ Send
  \/ \E other \in Others : SaveSubscriptions(other)
  \/ Receive
  \/ Forward
  \/ ProcessPublish
  \/ ReadLog
  \/ \E sub \in Subscriptions : ProcessDeliver(sub)
  \/ \E sub \in Subscriptions, tenant \in Tenants : Redeliver(tenant, sub)

Spec == Init /\ [][Next]_vars

-----------------------------------------------------------------------------

\* The encodings are made of bytes, the places are the ones of the path, and the object is one of the
\* class of its type, with fields in their widths and, in a delivery, the numbers in order.
TypeInv ==
  /\ bytes \in Seq(Byte)
  /\ at \in {"sender", "wire", "receiver", "log", "tower", "file", "refused"}
  /\ Message(msg) /\ original \in Samples

\* No message a sender makes is refused by a receiver, and every field arrives as it was sent; of a
\* publication that went through the log and was delivered, the id and the payload do.
Faithful ==
  /\ at # "refused"
  /\ at \in {"sender", "receiver"} =>
       CASE original.type = mDeliverData -> msg.payload = original.payload /\ msg.msgid = original.msgid
                                              /\ msg.prev = original.prev /\ msg.seqno = original.seqno
         [] original.type = mPublish /\ msg.type = mDeliverData ->
              msg.payload = original.payload /\ msg.msgid = original.msgid /\ msg.prev <= msg.seqno
         [] OTHER -> msg = original

\* The record in the log holds what was published: tenant, topic, id and payload.
LogFaithful ==
  at = "tower" => \A f \in {"tenant", "ns", "topic", "msgid", "payload"} : msg[f] = original[f]

\* A frame that was cut short is never taken for a message, except for a heartbeat, whose streams
\* may be fewer but never others.
SelfDelimiting ==
  at = "wire" =>
    \A n \in 0 .. Len(bytes) - 1 :
      \A g \in {CreateNewInstance(SubSeq(bytes, 1, n))} :
      g.ok => msg.type = mHeartbeat /\ g.val.streams \subseteq msg.streams

\* The receiver reads a frame to its end, and would write the same bytes again.
Canonical ==
  at = "receiver" => CreateNewInstance(bytes).rest = <<>> /\ Serialize(msg) = bytes

\* A client that restores its subscriptions from the file finds every one of them as it was saved; of
\* a file that was cut short it finds the first ones as they were saved, or it is told of the loss.
Restored ==
  at = "file" =>
    \A n \in 0 .. Len(bytes) : \A g \in {RestoreSubscriptions(SubSeq(bytes, 1, n), <<>>)} :
      IF n = Len(bytes)
        THEN g.ok /\ Len(g.val) = 2 /\ AppendRecord(g.val[1]) \o AppendRecord(g.val[2]) = bytes
                  /\ g.val[1] = SubscriptionParameters(msg)
        ELSE g.ok => g.val \in {<<>>, <<SubscriptionParameters(msg)>>}

\* What the encodings promise to every message on its way.
CodecSafe == TypeInv /\ Faithful /\ LogFaithful /\ SelfDelimiting /\ Canonical /\ Restored
=============================================================================
