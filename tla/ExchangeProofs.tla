----------------------------- MODULE ExchangeProofs ----------------------------
(* Theorems about Exchange, whatever the dictionary, the payloads and the      *)
(* files: what the browser shows of a request that is read as a whole, where   *)
(* the server keeps to its memory, and what the decoders make of what is sent. *)
EXTENDS Exchange, CodecProofs

\* What a client means, and what its payload is before anybody compresses it
Plain == Prefix(request.type, request.header) \o request.meant

Flags == [type : Types, compressed : BOOLEAN, requires : BOOLEAN, whole : BOOLEAN,
          header : Headers \cup {ProxyHeader}, meant : Payloads \cup {<<>>}]

RequestInv ==
  /\ server \in {"default", "optimized"} /\ dict \in DictFiles
  /\ request \in Flags
  /\ stage = "sent" => buffer = IF request.compressed THEN Compress(Plain, Codes) ELSE Plain

LEMMA RequestInit == Init => RequestInv
<1> SUFFICES ASSUME Init PROVE RequestInv
  OBVIOUS
<1>1. request \in Flags
  BY DEF Init, Flags, Types
<1> QED BY <1>1 DEF Init, RequestInv

\* Only a client makes a request; from then on it stays as it is.
LEMMA RequestStep == RequestInv /\ [Next]_vars => RequestInv'
<1> SUFFICES ASSUME RequestInv, [Next]_vars PROVE RequestInv'
  OBVIOUS
<1>1. CASE Send
  <2>1. stage' = "sent" /\ UNCHANGED <<server, dict>>
    BY <1>1 DEF Send, Stage
  <2>2. buffer' = IF request'.compressed THEN Compress(Plain', Codes') ELSE Plain'
    BY <1>1, <2>1 DEF Send, Plain, Codes
  <2>3. request' \in Flags
    <3>1. ASSUME NEW type \in Types, NEW text \in Payloads, NEW compress \in BOOLEAN, NEW whole \in BOOLEAN
          PROVE  HandleClientMessage(type, text, compress, whole) \in Flags
      <4>1. (type # "list" /\ compress) \in BOOLEAN
        OBVIOUS
      <4> QED BY <4>1 DEF HandleClientMessage, Flags
    <3>2. ASSUME NEW r \in Requests PROVE r \in Flags
      <4>1. \/ r \in [type : Types \ {"file"}, compressed : BOOLEAN, requires : BOOLEAN, whole : BOOLEAN,
                      header : {ProxyHeader}, meant : Payloads]
            \/ r \in [type : {"file"}, compressed : BOOLEAN, requires : BOOLEAN, whole : BOOLEAN,
                      header : Headers, meant : Payloads]
        BY <3>2 DEF Requests
      <4> QED BY <4>1 DEF Flags, Types
    <3> QED BY <1>1, <3>1, <3>2 DEF Send
  <2> QED BY <2>1, <2>2, <2>3 DEF RequestInv
<1>2. CASE UNCHANGED vars
  BY <1>2 DEF vars, RequestInv, Plain, Codes
<1>3. CASE GetDescription \/ Echo \/ DirectorySend \/ FileSizeResponse \/ FileRetrieval \/ ErrorSend
           \/ LoseReply \/ ReadAstray \/ OpenDirectory \/ HandleTCPResponse
  <2>1. UNCHANGED <<server, dict, request>> /\ stage # "idle" /\ stage' # "sent"
    BY <1>3 DEF GetDescription, Echo, DirectorySend, FileSizeResponse, FileRetrieval, ErrorSend,
       LoseReply, ReadAstray, OpenDirectory, HandleTCPResponse, Answer, Stage
  <2> QED BY <2>1 DEF RequestInv
<1> QED BY <1>1, <1>2, <1>3 DEF Next
--------------------------------------------------------------------------------
(* What the browser shows                                                      *)

Replying(type, data) == [type |-> type, compressed |-> request.requires,
                         data |-> IF request.requires THEN Compress(data, Codes) ELSE data]

\* What get_description leaves in the buffer
ReadInv == stage = "received" /\ Readable =>
             buffer = IF request.type = "echo" /\ request.compressed /\ request.requires
                      THEN Compress(Plain, Codes) ELSE Plain

\* The file, if it is one, holds the range that is asked for.
There == request.type = "file" => InFile(request.header)

\* The reply that the request calls for
FitReply ==
  CASE request.type = "echo" -> reply = Replying("echo", request.meant)
    [] request.type = "list" -> reply = Replying("list", Listing)
    [] OTHER ->
         \/ /\ MayBeName(request.meant) /\ There
            /\ reply = IF request.type = "size" THEN Replying("size", Size)
                       ELSE Replying("file", request.header \o SegmentBytes(request.header))
         \/ ~(IsName(request.meant) /\ There) /\ reply = Error

ReplyInv == stage = "replied" /\ Readable => FitReply

FitInv == RequestInv /\ ReadInv /\ ReplyInv /\ RepliesFit

\* What the dictionary file holds can be told apart, and both sides read the same.
LEMMA Dictionary ==
  ASSUME NEW file \in DictFiles
  PROVE  PrefixCode(CreateMap(file)) /\ LoadDictionary(file) = CreateMap(file)
<1>1. file \in Seq(Bytes) /\ IsDictionary(file, CreateMap(file))
  BY DataAssumption, DictionaryAssumption
<1> QED BY <1>1, DictionaryReadBack DEF IsDictionary

\* Whatever is compressed with the codes of the dictionary comes back as it was from
\* the decoder of either side.
LEMMA CodecsInvert ==
  ASSUME NEW file \in DictFiles, NEW data \in Seq(Bytes)
  PROVE  Inverts(file, data)
BY Dictionary, CompressionLosesNothing DEF Inverts

LEMMA SentData == {Listing, Size, Content} \subseteq Seq(Bytes)
BY DataAssumption

\* A header is three bytes.
LEMMA HeaderType ==
  ASSUME NEW header \in Headers \cup {ProxyHeader}
  PROVE  /\ header \in [1..HeaderSize -> Bytes]
         /\ header \in Seq(Bytes) /\ Len(header) = HeaderSize
<1>1. header \in [1..HeaderSize -> Bytes]
  BY DataAssumption
<1>2. HeaderSize \in Nat
  BY DEF HeaderSize
<1>3. header \in Seq(Bytes)
  BY <1>1, <1>2, SeqDef
<1>4. DOMAIN header = 1..HeaderSize
  BY <1>1
<1>5. Len(header) = HeaderSize
  BY <1>2, <1>3, <1>4, LenProperties
<1> QED BY <1>1, <1>3, <1>5

LEMMA HeaderFacts ==
  ASSUME RequestInv
  PROVE  /\ request.header \in [1..HeaderSize -> Bytes]
         /\ request.header \in Seq(Bytes) /\ Len(request.header) = HeaderSize
<1>1. request.header \in Headers \cup {ProxyHeader}
  BY DEF RequestInv, Flags
<1> QED BY <1>1, HeaderType

\* What there is of a range in the file is bytes.
LEMMA SegmentType ==
  ASSUME NEW header \in [1..HeaderSize -> Bytes], InFile(header)
  PROVE  SegmentBytes(header) \in Seq(Bytes)
<1>1. header[2] \in Nat /\ header[3] \in Nat
  BY WidthAssumption, Powers DEF HeaderSize, Bytes
<1>2. Content \in Seq(Bytes)
  BY SentData
<1>3. \A i \in header[2] + 1..header[2] + header[3] : i \in 1..Len(Content)
  BY <1>1, <1>2 DEF InFile
<1>4. \A i \in header[2] + 1..header[2] + header[3] : Content[i] \in Bytes
  BY <1>2, <1>3, ElementOfSeq
<1>5. header[2] + 1 \in Int /\ header[2] + header[3] \in Int
  BY <1>1
<1>6. SubSeq(Content, header[2] + 1, header[2] + header[3]) \in Seq(Bytes)
  BY <1>4, <1>5, SubSeqProperties
<1> QED BY <1>6 DEF SegmentBytes

\* Behind the first sequence is the second.
LEMMA BehindPrefix ==
  ASSUME NEW S, NEW p \in Seq(S), NEW q \in Seq(S)
  PROVE  p \o q \in Seq(S) /\ SubSeq(p \o q, Len(p) + 1, Len(p \o q)) = q
<1>1. p \o q \in Seq(S) /\ Len(p \o q) = Len(p) + Len(q)
  BY ConcatProperties
<1>2. PICK m, n : m = Len(p) /\ n = Len(q)
  OBVIOUS
<1>3. m \in Nat /\ n \in Nat
  BY <1>2
<1>4. CASE n = 0
  <2>1. q = <<>>
    BY <1>2, <1>4, EmptySeq
  <2>2. m + n = m /\ m < m + 1
    BY <1>3, <1>4
  <2>3. SubSeq(p \o q, m + 1, m) = <<>>
    BY <1>3, <2>2, SubSeqEmpty
  <2> QED BY <1>1, <1>2, <2>1, <2>2, <2>3
<1>5. CASE n # 0
  <2>1. m + 1 \in m + 1..m + n /\ m + n \in m + 1..m + n /\ m + 1 - m = 1 /\ m + n - m = n
    BY <1>3, <1>5
  <2>2. SubSeq(p \o q, m + 1, m + n) = SubSeq(q, m + 1 - m, m + n - m)
    BY <1>2, <2>1, SubSeqOfConcat2
  <2>3. SubSeq(q, 1, n) = q
    BY <1>2, SubSeqFull
  <2> QED BY <1>1, <1>2, <2>1, <2>2, <2>3
<1> QED BY <1>4, <1>5

\* And in front of the second is the first.
LEMMA InFront ==
  ASSUME NEW S, NEW p \in Seq(S), NEW q \in Seq(S), p # <<>>
  PROVE  SubSeq(p \o q, 1, Len(p)) = p
<1>1. Len(p) \in Nat /\ Len(p) # 0
  BY EmptySeq
<1>2. 1 \in 1..Len(p) /\ Len(p) \in 1..Len(p)
  BY <1>1
<1>3. SubSeq(p \o q, 1, Len(p)) = SubSeq(p, 1, Len(p))
  BY <1>2, SubSeqOfConcat1
<1> QED BY <1>3, SubSeqFull

\* The payload of a request, and what the codecs make of it
LEMMA PayloadFacts ==
  ASSUME RequestInv
  PROVE  /\ Plain \in Seq(Bytes) /\ request.meant \in Seq(Bytes)
         /\ request.type # "file" => Plain = request.meant
         /\ request.meant # <<>> => Plain # <<>>
         /\ SubSeq(Plain, Len(Prefix(request.type, request.header)) + 1, Len(Plain)) = request.meant
         /\ request.type = "file" => SubSeq(Plain, 1, HeaderSize) = request.header
         /\ request.type = "file" => Len(Plain) >= HeaderSize
         /\ Inverts(dict, Plain)
<1>1. /\ request.meant \in Seq(Bytes) /\ dict \in DictFiles /\ request.type \in Types
      /\ request.header \in Seq(Bytes) /\ Len(request.header) = HeaderSize
  BY DataAssumption, EmptySeq, HeaderFacts DEF RequestInv, Flags
<1>2. Prefix(request.type, request.header) \in Seq(Bytes)
  BY <1>1, EmptySeq DEF Prefix
<1>3. /\ Plain \in Seq(Bytes)
      /\ SubSeq(Plain, Len(Prefix(request.type, request.header)) + 1, Len(Plain)) = request.meant
  BY <1>1, <1>2, BehindPrefix DEF Plain
<1>4. request.type # "file" => Plain = request.meant
  BY <1>1, ConcatEmptySeq DEF Plain, Prefix
<1>5. request.meant # <<>> => Plain # <<>>
  BY <1>1, <1>2, ConcatEqualIffEmpty DEF Plain
<1>6. Inverts(dict, Plain)
  BY <1>1, <1>3, CodecsInvert
<1>7. request.type = "file" => /\ SubSeq(Plain, 1, HeaderSize) = request.header
                              /\ Len(Plain) >= HeaderSize
  <2> HAVE request.type = "file"
  <2>1. Plain = request.header \o request.meant
    BY DEF Plain, Prefix
  <2>2. Len(Plain) = HeaderSize + Len(request.meant)
    BY <1>1, <2>1, ConcatProperties
  <2>3. SubSeq(Plain, 1, HeaderSize) = request.header
    <3>1. request.header # <<>>
      <4>1. Len(request.header) # Len(<<>>)
        BY <1>1, EmptySeq DEF HeaderSize
      <4> QED BY <4>1
    <3>2. SubSeq(request.header \o request.meant, 1, Len(request.header)) = request.header
      BY <1>1, <3>1, InFront
    <3> QED BY <1>1, <2>1, <3>2
  <2>4. Len(request.meant) \in Nat
    BY <1>1
  <2> QED BY <2>2, <2>3, <2>4 DEF HeaderSize
<1> QED BY <1>1, <1>3, <1>4, <1>5, <1>6, <1>7

\* get_description undoes what the client did, except for an echo that goes back
\* as it came.
LEMMA ReadStep ==
  ASSUME RequestInv, GetDescription
  PROVE  ReadInv'
<1> SUFFICES ASSUME Readable'
             PROVE  buffer' = (IF request.type = "echo" /\ request.compressed /\ request.requires
                               THEN Compress(Plain, Codes) ELSE Plain)'
  BY DEF ReadInv
<1>1. stage = "sent" /\ UNCHANGED <<server, dict, request>>
  BY DEF GetDescription, Stage
<1>2. Plain' = Plain /\ Codes' = Codes /\ Readable
  BY <1>1 DEF Plain, Codes, Readable
<1>3. buffer = IF request.compressed THEN Compress(Plain, Codes) ELSE Plain
  BY <1>1 DEF RequestInv
<1>4. Received = {buffer}
  BY <1>2 DEF Received, ReadsOnce, Readable
<1>5. buffer' = IF request.compressed /\ ~(request.type = "echo" /\ request.requires)
                THEN Decompress(buffer, Codes) ELSE buffer
  BY <1>4 DEF GetDescription
<1>6. request.compressed => Decompress(Compress(Plain, Codes), Codes) = Plain
  BY <1>1, <1>2, PayloadFacts DEF Readable, Inverts, Codes
<1>7. request.compressed \in BOOLEAN /\ request.requires \in BOOLEAN
  BY DEF RequestInv, Flags
<1> QED BY <1>1, <1>2, <1>3, <1>5, <1>6, <1>7

\* What is read of a size or file request is what the client means.
LEMMA ReadFacts ==
  ASSUME RequestInv, ReadInv, stage = "received", Readable, request.type # "echo"
  PROVE  buffer = Plain /\ Asked = request.meant /\ (request.type = "file" => Sent = request.header)
<1>1. buffer = Plain
  BY DEF ReadInv
<1> QED BY <1>1, PayloadFacts DEF Asked, Sent

\* Every handler answers what it was asked.
LEMMA AnswerStep ==
  ASSUME RequestInv, ReadInv, stage = "received", Readable,
         Echo \/ DirectorySend \/ FileSizeResponse \/ FileRetrieval \/ ErrorSend
  PROVE  FitReply'
<1>1. UNCHANGED <<request, dict>> /\ Codes' = Codes
  BY DEF Echo, DirectorySend, FileSizeResponse, FileRetrieval, ErrorSend, Answer, Codes
<1>10. UNCHANGED server
  BY DEF Echo, DirectorySend, FileSizeResponse, FileRetrieval, ErrorSend, Answer
<1>2. request.compressed \in BOOLEAN /\ request.requires \in BOOLEAN /\ request.type \in Types
  BY DEF RequestInv, Flags
<1>3. request.type # "echo" =>
        buffer = Plain /\ Asked = request.meant /\ (request.type = "file" => Sent = request.header)
  BY ReadFacts
<1>9. There' = There /\ SegmentBytes(request.header)' = SegmentBytes(request.header)
  BY <1>1, <1>10 DEF There, InFile, SegmentBytes
<1>4. CASE Echo
  <2>1. request.type = "echo" /\ Plain = request.meant
    BY <1>4, PayloadFacts DEF Echo, Answer
  <2>2. reply' = [type |-> "echo", compressed |-> request.requires,
                  data |-> IF request.requires /\ ~request.compressed THEN Compress(buffer, Codes) ELSE buffer]
    BY <1>4 DEF Echo, Answer
  <2>3. buffer = IF request.compressed /\ request.requires THEN Compress(Plain, Codes) ELSE Plain
    BY <2>1 DEF ReadInv
  <2>4. reply' = Replying("echo", request.meant)
    BY <1>2, <2>1, <2>2, <2>3 DEF Replying
  <2> QED BY <1>1, <2>1, <2>4 DEF FitReply, Replying
<1>5. CASE DirectorySend
  <2>1. request.type = "list" /\ reply' = Replying("list", Listing)
    BY <1>5 DEF DirectorySend, Answer, Replying
  <2> QED BY <1>1, <2>1 DEF FitReply, Replying
<1>6. CASE FileSizeResponse
  <2>1. request.type = "size" /\ reply' = Replying("size", Size) /\ MayBeName(request.meant)
    BY <1>3, <1>6 DEF FileSizeResponse, Answer, Replying
  <2> QED BY <1>1, <1>9, <2>1 DEF FitReply, Replying, There
<1>7. CASE FileRetrieval
  <2>1. /\ request.type = "file" /\ MayBeName(request.meant) /\ InFile(request.header)
        /\ reply' = Replying("file", request.header \o SegmentBytes(request.header))
    BY <1>3, <1>7 DEF FileRetrieval, Answer, Replying
  <2> QED BY <1>1, <1>9, <2>1 DEF FitReply, Replying, There
<1>8. CASE ErrorSend
  <2>1. /\ request.type \in {"size", "file"} /\ reply' = Error
        /\ ~(IsName(request.meant) /\ There)
    BY <1>3, <1>8 DEF ErrorSend, Named, There
  <2> QED BY <1>1, <1>9, <2>1 DEF FitReply
<1> QED BY <1>4, <1>5, <1>6, <1>7, <1>8

\* The proxy undoes what the server did, and cuts off what is in front of a file.
LEMMA ShowStep ==
  ASSUME RequestInv, ReplyInv, HandleTCPResponse
  PROVE  RepliesFit'
<1> DEFINE payload == IF reply.compressed THEN DecompressJS(reply.data, LoadDictionary(dict)) ELSE reply.data
           from == IF reply.type = "file" THEN HeaderSize + 1 ELSE 1
<1>1. stage = "replied" /\ UNCHANGED <<server, dict, request>>
      /\ shown' = Shown(reply.type, SubSeq(payload, from, Len(payload)))
  BY DEF HandleTCPResponse, Stage
<1>2. /\ request.compressed \in BOOLEAN /\ request.requires \in BOOLEAN /\ request.type \in Types
      /\ dict \in DictFiles /\ request.meant \in Seq(Bytes)
  BY <1>1, PayloadFacts DEF RequestInv, Flags
<1>3. ASSUME NEW type, NEW data, reply = Replying(type, data), Inverts(dict, data)
      PROVE  payload = data /\ reply.type = type
  BY <1>2, <1>3 DEF Replying, Inverts, Codes
<1>4. /\ {Listing, Size, Content} \subseteq Seq(Bytes)
      /\ Inverts(dict, Listing) /\ Inverts(dict, Size)
  BY <1>2, SentData, CodecsInvert
<1> DEFINE data == IF request.type = "size" THEN Size ELSE SegmentBytes(request.header)
<1>9. /\ data' = data /\ There' = There
  BY <1>1 DEF There, InFile, SegmentBytes
<1> SUFFICES ASSUME Readable
             PROVE  CASE request.type = "echo" -> shown' = Shown("echo", request.meant)
                      [] request.type = "list" -> shown' = Shown("list", Listing)
                      [] OTHER ->
                           \/ MayBeName(request.meant) /\ There /\ shown' = Shown(request.type, data)
                           \/ ~(IsName(request.meant) /\ There) /\ shown' = Shown("error", <<>>)
  BY <1>1, <1>9 DEF RepliesFit, Readable, There
<1>5. FitReply
  BY <1>1 DEF ReplyInv
<1>6. CASE request.type = "echo"
  <2>1. reply = Replying("echo", request.meant) /\ Inverts(dict, request.meant)
    BY <1>1, <1>5, <1>6, PayloadFacts DEF FitReply
  <2>2. payload = request.meant /\ reply.type = "echo"
    BY <1>3, <2>1
  <2>3. SubSeq(request.meant, 1, Len(request.meant)) = request.meant
    BY <1>2, SubSeqFull
  <2> HIDE DEF payload
  <2> QED BY <1>1, <1>6, <2>2, <2>3
<1>7. CASE request.type = "list"
  <2>1. reply = Replying("list", Listing)
    BY <1>5, <1>7 DEF FitReply
  <2>2. payload = Listing /\ reply.type = "list"
    BY <1>3, <1>4, <2>1
  <2>3. SubSeq(Listing, 1, Len(Listing)) = Listing
    BY <1>4, SubSeqFull
  <2> HIDE DEF payload
  <2> QED BY <1>1, <1>7, <2>2, <2>3
<1>8. CASE request.type \notin {"echo", "list"}
  <2>1. /\ request.type \in {"size", "file"}
        /\ \/ /\ MayBeName(request.meant) /\ There
              /\ reply = IF request.type = "size" THEN Replying("size", Size)
                         ELSE Replying("file", request.header \o SegmentBytes(request.header))
           \/ ~(IsName(request.meant) /\ There) /\ reply = Error
    BY <1>2, <1>5, <1>8 DEF FitReply, Types
  <2>2. CASE ~(IsName(request.meant) /\ There) /\ reply = Error
    <3>1. payload = <<>> /\ reply.type = "error"
      BY <2>2 DEF Error
    <3>2. SubSeq(<<>>, 1, Len(<<>>)) = <<>>
      BY SubSeqEmpty
    <3> HIDE DEF payload
    <3>3. shown' = Shown("error", <<>>)
      BY <1>1, <3>1, <3>2
    <3> QED BY <1>8, <2>2, <3>3
  <2>3. CASE /\ request.type = "size" /\ MayBeName(request.meant) /\ There
             /\ reply = Replying("size", Size)
    <3>1. payload = Size /\ reply.type = "size"
      BY <1>3, <1>4, <2>3
    <3>2. SubSeq(Size, 1, Len(Size)) = Size
      BY <1>4, SubSeqFull
    <3> HIDE DEF payload
    <3>3. shown' = Shown("size", Size)
      BY <1>1, <3>1, <3>2
    <3> QED BY <2>3, <3>3
  <2>4. CASE /\ request.type = "file" /\ MayBeName(request.meant) /\ There
             /\ reply = Replying("file", request.header \o SegmentBytes(request.header))
    <3>1. /\ SegmentBytes(request.header) \in Seq(Bytes) /\ request.header \in Seq(Bytes)
          /\ Len(request.header) = HeaderSize
      BY <2>4, HeaderFacts, SegmentType DEF There
    <3>2. /\ request.header \o SegmentBytes(request.header) \in Seq(Bytes)
          /\ SubSeq(request.header \o SegmentBytes(request.header), HeaderSize + 1,
                    Len(request.header \o SegmentBytes(request.header))) = SegmentBytes(request.header)
      <4>1. PICK h, q : h = request.header /\ q = SegmentBytes(request.header)
        OBVIOUS
      <4>2. h \in Seq(Bytes) /\ q \in Seq(Bytes) /\ Len(h) = HeaderSize
        BY <3>1, <4>1
      <4>3. h \o q \in Seq(Bytes) /\ SubSeq(h \o q, Len(h) + 1, Len(h \o q)) = q
        BY <4>2, BehindPrefix
      <4> QED BY <4>1, <4>2, <4>3
    <3>3. Inverts(dict, request.header \o SegmentBytes(request.header))
      BY <1>2, <3>2, CodecsInvert
    <3>4. payload = request.header \o SegmentBytes(request.header) /\ reply.type = "file"
      BY <1>3, <2>4, <3>3
    <3> HIDE DEF payload
    <3>5. shown' = Shown("file", SegmentBytes(request.header))
      BY <1>1, <3>2, <3>4
    <3> QED BY <2>4, <3>5
  <2> QED BY <2>1, <2>2, <2>3, <2>4
<1> QED BY <1>6, <1>7, <1>8

LEMMA FitStep == FitInv /\ [Next]_vars => FitInv'
<1> SUFFICES ASSUME FitInv, [Next]_vars PROVE FitInv'
  OBVIOUS
<1>1. RequestInv /\ RequestInv'
  BY RequestStep DEF FitInv
<1>2. CASE Send
  <2>1. stage' = "sent"
    BY <1>2 DEF Send, Stage
  <2> QED BY <1>1, <2>1 DEF FitInv, ReadInv, ReplyInv, RepliesFit
<1>3. CASE GetDescription
  <2>1. stage' = "received"
    BY <1>3 DEF GetDescription, Stage
  <2> QED BY <1>1, <1>3, <2>1, ReadStep DEF FitInv, ReplyInv, RepliesFit
<1>4. CASE Echo \/ DirectorySend \/ FileSizeResponse \/ FileRetrieval \/ ErrorSend
  <2>1. stage = "received" /\ stage' = "replied" /\ UNCHANGED <<server, request>>
    BY <1>4 DEF Echo, DirectorySend, FileSizeResponse, FileRetrieval, ErrorSend, Answer, Stage
  <2>2. Readable' = Readable
    BY <2>1 DEF Readable
  <2>3. Readable => FitReply'
    BY <1>1, <1>4, <2>1, AnswerStep DEF FitInv
  <2> QED BY <1>1, <2>1, <2>2, <2>3 DEF FitInv, ReadInv, ReplyInv, RepliesFit
<1>5. CASE LoseReply \/ ReadAstray \/ OpenDirectory
  <2>1. stage' = "lost"
    BY <1>5 DEF LoseReply, ReadAstray, OpenDirectory, Stage
  <2> QED BY <1>1, <2>1 DEF FitInv, ReadInv, ReplyInv, RepliesFit
<1>6. CASE HandleTCPResponse
  <2>1. stage' = "shown"
    BY <1>6 DEF HandleTCPResponse, Stage
  <2>2. RepliesFit'
    BY <1>1, <1>6, ShowStep DEF FitInv
  <2> QED BY <1>1, <2>1, <2>2 DEF FitInv, ReadInv, ReplyInv
<1>7. CASE UNCHANGED vars
  <2>1. UNCHANGED <<server, dict, stage, request, buffer, reply, shown>>
    BY <1>7 DEF vars
  <2>2. ReadInv' = ReadInv
    BY <2>1 DEF ReadInv, Readable, Plain, Codes
  <2>3. ReplyInv' = ReplyInv
    BY <2>1 DEF ReplyInv, FitReply, Replying, Readable, Codes, There, InFile, SegmentBytes
  <2>4. RepliesFit' = RepliesFit
    BY <2>1 DEF RepliesFit, Readable, InFile, SegmentBytes
  <2> QED BY <1>1, <2>2, <2>3, <2>4 DEF FitInv
<1> QED BY <1>2, <1>3, <1>4, <1>5, <1>6, <1>7 DEF Next

\* A request whose payload is read as a whole, in pieces too by the optimized
\* server, gets the browser what was asked for or the error that it calls for,
\* whichever sides compress and whatever was sent: no flag is lost on the way, no
\* payload compressed twice or not at all, no byte lost in a codec, and no range
\* shown with its header.  Of a name without its 0, as the proxy sends them, it
\* says that it gets no other file than one it begins.
THEOREM RepliesAreRight == Spec => []RepliesFit
<1>1. Init => FitInv
  BY RequestInit DEF Init, FitInv, ReadInv, ReplyInv, RepliesFit
<1>2. FitInv /\ [Next]_vars => FitInv'
  BY FitStep
<1>3. FitInv => RepliesFit
  BY DEF FitInv
<1> QED BY <1>1, <1>2, <1>3, PTL DEF Spec
--------------------------------------------------------------------------------
(* Memory                                                                      *)

MemoryInv == /\ stage \in {"idle", "sent", "received"} => process = "up"
             /\ MemoryKept

\* The server has nothing to compress, and is sent what it can read.
Served == /\ ~request.requires \/ (request.type = "echo" /\ request.compressed)
          /\ request.type \in {"size", "file"} => Readable /\ Terminated(request.meant)

\* A name with its 0, read as a whole, is read no further than its block.
LEMMA ServedReads ==
  ASSUME RequestInv, ReadInv, stage = "received", Served, request.type \in {"size", "file"}
  PROVE  Named /\ Terminated(Asked)
<1>1. /\ Readable /\ Terminated(request.meant) /\ buffer = Plain /\ Asked = request.meant
  BY ReadFacts DEF Served
<1>2. request.meant # <<>>
  <2> SUFFICES ASSUME request.meant = <<>> PROVE FALSE
    OBVIOUS
  <2>1. DOMAIN <<>> = {}
    OBVIOUS
  <2>2. Range(<<>>) = {}
    BY <2>1 DEF Range
  <2> QED BY <1>1, <2>2 DEF Terminated
<1> QED BY <1>1, <1>2, PayloadFacts DEF Named

\* Where nothing is compressed an echo is as long as its block.
LEMMA MemoryStep == RequestInv /\ ReadInv /\ MemoryInv /\ [Next]_vars => MemoryInv'
<1> SUFFICES ASSUME RequestInv, ReadInv, MemoryInv, [Next]_vars PROVE MemoryInv'
  OBVIOUS
<1>1. CASE Send
  BY <1>1 DEF Send, Stage, MemoryInv, MemoryKept
<1>2. CASE GetDescription
  BY <1>2 DEF GetDescription, Stage, MemoryInv, MemoryKept
<1>3. CASE Echo
  <2>1. /\ stage = "received" /\ stage' = "replied" /\ process = "up" /\ request.type = "echo"
        /\ UNCHANGED <<request, server>>
    BY <1>3 DEF Echo, Answer, Stage, MemoryInv
  <2>2. CASE ~request.requires \/ request.compressed
    <3>1. ~(request.requires /\ ~request.compressed)
      BY <2>2
    <3>2. reply'.data = buffer
      BY <1>3, <3>1 DEF Echo, Answer
    <3>3. process' = process
      BY <1>3, <3>2 DEF Echo, Allocated
    <3> QED BY <2>1, <3>3 DEF MemoryInv, MemoryKept
  <2>3. CASE ~(~request.requires \/ request.compressed)
    BY <2>1, <2>3 DEF MemoryInv, MemoryKept
  <2> QED BY <2>2, <2>3
<1>4. CASE DirectorySend \/ FileSizeResponse \/ FileRetrieval \/ ErrorSend
           \/ LoseReply \/ ReadAstray \/ OpenDirectory
  <2>1. /\ stage = "received" /\ stage' \in {"replied", "lost"} /\ process = "up"
        /\ UNCHANGED <<request, server>>
    BY <1>4 DEF DirectorySend, FileSizeResponse, FileRetrieval, ErrorSend, LoseReply, ReadAstray,
       OpenDirectory, Answer, Stage, MemoryInv
  <2>2. Readable' = Readable
    BY <2>1 DEF Readable
  <2>3. CASE ~Served
    BY <2>1, <2>2, <2>3 DEF Served, MemoryInv, MemoryKept
  <2>4. ASSUME Served
        PROVE  process' \in {"up"} \cup IF server = "default" /\ request.type = "size"
                                       THEN {"double free"} ELSE {}
    <3>1. CASE DirectorySend
      BY <2>1, <3>1 DEF DirectorySend
    <3>2. CASE LoseReply
      BY <2>4, <3>2 DEF LoseReply, WrongPointer, Served
    <3>3. CASE ReadAstray
      <4>1. request.type \in {"size", "file"} /\ ~Named
        BY <3>3 DEF ReadAstray
      <4> QED BY <2>1, <2>4, <4>1, ServedReads
    <3>4. CASE FileSizeResponse \/ FileRetrieval \/ ErrorSend \/ OpenDirectory
      <4>1. Named /\ request.type \in {"size", "file"}
        BY <3>4 DEF FileSizeResponse, FileRetrieval, ErrorSend, OpenDirectory, Named
      <4>2. Terminated(Asked)
        BY <2>1, <2>4, <4>1, ServedReads
      <4>3. CASE FileSizeResponse
        BY <2>1, <4>2, <4>3 DEF FileSizeResponse, Answer, FreePath, ReadName
      <4>4. CASE FileRetrieval \/ ErrorSend
        BY <2>1, <4>2, <4>4 DEF FileRetrieval, ErrorSend, ReadName
      <4>5. CASE OpenDirectory
        <5>1. ~WrongPointer
          BY <2>4, <4>1 DEF WrongPointer, Served
        <5> QED BY <2>1, <4>1, <4>2, <4>5, <5>1 DEF OpenDirectory, FreePath, ReadName
      <4> QED BY <3>4, <4>3, <4>4, <4>5
    <3> QED BY <1>4, <3>1, <3>2, <3>3, <3>4
  <2>5. CASE Served
    BY <2>1, <2>4, <2>5 DEF MemoryInv, MemoryKept
  <2> QED BY <2>3, <2>5
<1>5. CASE HandleTCPResponse
  BY <1>5 DEF HandleTCPResponse, Stage, MemoryInv, MemoryKept, Readable
<1>6. CASE UNCHANGED vars
  BY <1>6 DEF vars, MemoryInv, MemoryKept, Readable
<1> QED BY <1>1, <1>2, <1>3, <1>4, <1>5, <1>6 DEF Next

\* A server that has nothing to compress reads and writes no block it does not have,
\* uses no wrong pointer and frees nothing twice but the path of a file whose size
\* the default build reports, whatever the codes and whatever is compressed by the
\* client.  For an echo and a list that is so however the payload comes; for a size
\* and a file it takes a name with its 0 in a payload that is read as a whole.
THEOREM PlainRepliesKeepMemory == Spec => []MemoryKept
<1>1. Init => FitInv /\ MemoryInv
  BY RequestInit DEF Init, FitInv, ReadInv, ReplyInv, RepliesFit, MemoryInv, MemoryKept
<1>2. FitInv /\ MemoryInv /\ [Next]_vars => (FitInv /\ MemoryInv)'
  BY FitStep, MemoryStep DEF FitInv
<1>3. MemoryInv => MemoryKept
  BY DEF MemoryInv
<1> QED BY <1>1, <1>2, <1>3, PTL DEF Spec
--------------------------------------------------------------------------------
(* What is sent                                                                *)

\* Where the decoders differ, on no byte at all, there is nothing to decode.
CodedInv ==
  /\ stage = "received" /\ request.type = "echo" /\ request.compressed /\ request.requires => buffer # <<>>
  /\ stage = "replied" /\ reply.compressed => reply.data # <<>>

SentInv == RequestInv /\ TypeOK /\ CodedInv

LEMMA CodesFacts ==
  ASSUME dict \in DictFiles
  PROVE  PrefixCode(Codes) /\ IsTable(Codes) /\ LoadDictionary(dict) = Codes
BY Dictionary, TableOf DEF Codes

\* A payload read from a socket, as a whole or with the last byte as it was in memory
LEMMA ReceivedType ==
  ASSUME buffer \in Seq(Bytes), NEW payload \in Received
  PROVE  payload \in Seq(Bytes) /\ (buffer # <<>> => payload # <<>>)
<1>1. CASE Len(buffer) > 1 /\ payload \in {Append(Front(buffer), byte) : byte \in Junk}
  <2>1. PICK byte \in Junk : payload = Append(Front(buffer), byte)
    BY <1>1
  <2>2. byte \in Bytes
    BY DataAssumption
  <2>3. Front(buffer) \in Seq(Bytes)
    <3>1. \A k \in 1..Len(buffer) - 1 : k \in 1..Len(buffer)
      OBVIOUS
    <3> QED BY <1>1, <3>1 DEF Front
  <2>4. payload \in Seq(Bytes) /\ payload # <<>>
    BY <2>1, <2>2, <2>3, AppendProperties
  <2> QED BY <2>4
<1>2. CASE payload = buffer
  BY <1>2
<1> QED BY <1>1, <1>2 DEF Received

\* A reply carries bytes, and some where it is compressed.
LEMMA AnswerType ==
  ASSUME RequestInv, NEW type \in Types, NEW data \in Seq(Bytes), NEW compress \in BOOLEAN,
         Answer(type, data, compress)
  PROVE  /\ stage' = "replied" /\ UNCHANGED <<server, dict, request, buffer, shown>>
         /\ reply'.type \in Types /\ reply'.compressed = request.requires
         /\ reply'.data \in Seq(Bytes) /\ (compress \/ data # <<>> => reply'.data # <<>>)
<1>1. /\ stage' = "replied" /\ UNCHANGED <<server, dict, request, buffer, shown>>
      /\ reply' = [type |-> type, compressed |-> request.requires,
                   data |-> IF compress THEN Compress(data, Codes) ELSE data]
  BY DEF Answer, Stage
<1>2. reply'.type = type /\ reply'.compressed = request.requires
      /\ reply'.data = IF compress THEN Compress(data, Codes) ELSE data
  BY <1>1
<1>3. dict \in DictFiles
  BY DEF RequestInv
<1>4. Compress(data, Codes) \in Seq(Bytes) /\ Compress(data, Codes) # <<>>
  BY <1>3, CodesFacts, CompressionLosesNothing
<1> QED BY <1>1, <1>2, <1>4

LEMMA SentInit == Init => SentInv
<1> SUFFICES ASSUME Init PROVE SentInv
  OBVIOUS
<1>1. <<>> \in Seq(Bytes)
  BY EmptySeq
<1>2. TypeOK
  BY <1>1 DEF Init, TypeOK, Types, Error, Shown
<1> QED BY <1>2, RequestInit DEF SentInv, CodedInv, Init

LEMMA SentSend ==
  ASSUME SentInv, RequestInv', Send
  PROVE  SentInv'
<1>1. /\ stage' = "sent" /\ UNCHANGED <<server, dict, reply, shown, process>>
      /\ buffer' = IF request'.compressed THEN Compress(Plain', Codes') ELSE Plain'
  BY DEF Send, Stage, Plain, Codes
<1>2. request'.type \in Types /\ {request'.compressed, request'.requires, request'.whole} \subseteq BOOLEAN
      /\ request'.meant \in Seq(Bytes) /\ dict' \in DictFiles
  BY <1>1, DataAssumption, EmptySeq DEF RequestInv, Flags
<1>3. Plain' \in Seq(Bytes)
  <2>1. request'.header \in Headers \cup {ProxyHeader}
    BY DEF RequestInv, Flags
  <2>4. request'.header \in Seq(Bytes)
    BY <2>1, HeaderType
  <2>2. Prefix(request'.type, request'.header) \in Seq(Bytes)
    BY <2>4, EmptySeq DEF Prefix
  <2>3. Plain' = Prefix(request'.type, request'.header) \o request'.meant
    BY DEF Plain, Prefix
  <2> QED BY <1>2, <2>2, <2>3, ConcatProperties
<1>4. PrefixCode(Codes')
  BY <1>2, Dictionary DEF Codes
<1>5. Compress(Plain', Codes') \in Seq(Bytes)
  BY <1>3, <1>4, CompressionLosesNothing
<1>6. buffer' \in Seq(Bytes)
  BY <1>1, <1>3, <1>5
<1> QED BY <1>1, <1>2, <1>6 DEF SentInv, TypeOK, CodedInv

LEMMA SentRead ==
  ASSUME SentInv, RequestInv', GetDescription
  PROVE  SentInv'
<1>1. /\ stage = "sent" /\ stage' = "received"
      /\ UNCHANGED <<server, dict, request, reply, shown, process>>
  BY DEF GetDescription, Stage
<1>2. PICK payload \in Received :
        buffer' = IF request.compressed /\ ~(request.type = "echo" /\ request.requires)
                  THEN Decompress(payload, Codes) ELSE payload
  BY DEF GetDescription
<1>3. payload \in Seq(Bytes) /\ (buffer # <<>> => payload # <<>>)
  BY ReceivedType DEF SentInv, TypeOK
<1>4. dict \in DictFiles /\ IsTable(Codes) /\ PrefixCode(Codes)
  BY CodesFacts DEF SentInv, RequestInv
<1>5. buffer' \in Seq(Bytes)
  BY <1>2, <1>3, <1>4, DecompressType
<1>6. request.compressed => buffer # <<>>
  BY <1>1, <1>4, PayloadFacts, CompressionLosesNothing DEF SentInv, RequestInv
<1>7. CodedInv'
  BY <1>1, <1>2, <1>3, <1>6 DEF CodedInv
<1>8. TypeOK'
  BY <1>1, <1>5 DEF SentInv, TypeOK
<1> QED BY <1>7, <1>8 DEF SentInv

LEMMA SentAnswer ==
  ASSUME SentInv, RequestInv', Echo \/ DirectorySend \/ FileSizeResponse \/ FileRetrieval
  PROVE  SentInv'
<1>1. RequestInv /\ TypeOK /\ CodedInv
  BY DEF SentInv
<1>2. request.compressed \in BOOLEAN /\ request.requires \in BOOLEAN /\ buffer \in Seq(Bytes)
  BY <1>1 DEF TypeOK
<1>3. \E type \in Types, data \in Seq(Bytes), compress \in BOOLEAN :
        Answer(type, data, compress) /\ (request.requires => compress \/ data # <<>>)
  <2>1. CASE Echo
    <3>1. Answer("echo", buffer, request.requires /\ ~request.compressed)
      BY <2>1 DEF Echo
    <3>2. request.requires => (request.requires /\ ~request.compressed) \/ buffer # <<>>
      BY <1>1, <1>2, <3>1 DEF CodedInv, Answer, Stage
    <3>3. (request.requires /\ ~request.compressed) \in BOOLEAN /\ "echo" \in Types
      BY DEF Types
    <3> QED BY <1>2, <3>1, <3>2, <3>3
  <2>2. CASE DirectorySend
    <3>1. Answer("list", Listing, request.requires) /\ "list" \in Types
      BY <2>2 DEF DirectorySend, Types
    <3> QED BY <1>2, <3>1, SentData
  <2>3. CASE FileSizeResponse
    <3>1. Answer("size", Size, request.requires) /\ "size" \in Types
      BY <2>3 DEF FileSizeResponse, Types
    <3> QED BY <1>2, <3>1, SentData
  <2>4. CASE FileRetrieval
    <3>1. Answer("file", Sent \o SegmentBytes(Sent), request.requires) /\ "file" \in Types
      BY <2>4 DEF FileRetrieval, Types
    <3>2. InFile(Sent) /\ Len(buffer) >= HeaderSize
      BY <2>4 DEF FileRetrieval, Named
    <3>3. \A i \in 1..HeaderSize : i \in 1..Len(buffer)
      BY <1>2, <3>2 DEF HeaderSize
    <3>4. \A i \in 1..HeaderSize : buffer[i] \in Bytes
      BY <1>2, <3>3, ElementOfSeq
    <3>5. Sent \in Seq(Bytes) /\ Len(Sent) = HeaderSize
      BY <3>4, SubSeqProperties DEF Sent, HeaderSize
    <3>6. Sent \in [1..HeaderSize -> Bytes]
      BY <3>5
    <3>7. SegmentBytes(Sent) \in Seq(Bytes)
      BY <3>2, <3>6, SegmentType
    <3>8. Sent \o SegmentBytes(Sent) \in Seq(Bytes) /\ Sent \o SegmentBytes(Sent) # <<>>
      BY <3>5, <3>7, ConcatProperties DEF HeaderSize
    <3> QED BY <1>2, <3>1, <3>8
  <2> QED BY <2>1, <2>2, <2>3, <2>4
<1>4. PICK type \in Types, data \in Seq(Bytes), compress \in BOOLEAN :
        Answer(type, data, compress) /\ (request.requires => compress \/ data # <<>>)
  BY <1>3
<1>5. /\ stage' = "replied" /\ UNCHANGED <<server, dict, request, buffer, shown>>
      /\ reply'.type \in Types /\ reply'.compressed = request.requires
      /\ reply'.data \in Seq(Bytes) /\ (compress \/ data # <<>> => reply'.data # <<>>)
  BY <1>1, <1>4, AnswerType
<1>6. process' \in {"up", "null", "overread", "double free", "overrun", "wild pointer"}
  BY <1>1 DEF Echo, Allocated, DirectorySend, FileSizeResponse, FileRetrieval, FreePath, ReadName, TypeOK
<1>7. TypeOK'
  BY <1>1, <1>2, <1>5, <1>6 DEF TypeOK
<1>8. CodedInv'
  BY <1>4, <1>5 DEF CodedInv
<1> QED BY <1>7, <1>8 DEF SentInv

LEMMA SentShow ==
  ASSUME SentInv, RequestInv', HandleTCPResponse
  PROVE  SentInv'
<1> DEFINE payload == IF reply.compressed THEN DecompressJS(reply.data, LoadDictionary(dict)) ELSE reply.data
           from == IF reply.type = "file" THEN HeaderSize + 1 ELSE 1
<1>1. /\ stage' = "shown" /\ UNCHANGED <<server, dict, request, buffer, reply, process>>
      /\ shown' = Shown(reply.type, SubSeq(payload, from, Len(payload)))
  BY DEF HandleTCPResponse, Stage
<1>2. RequestInv /\ TypeOK /\ reply.data \in Seq(Bytes) /\ dict \in DictFiles
  BY DEF SentInv, TypeOK
<1>3. payload \in Seq(Bytes)
  BY <1>2, CodesFacts, DecompressType
<1>4. from \in Nat \ {0}
  BY DEF HeaderSize
<1> HIDE DEF payload, from
<1>5. SubSeq(payload, from, Len(payload)) \in Seq(Bytes)
  <2>1. \A k \in from..Len(payload) : k \in 1..Len(payload)
    BY <1>3, <1>4
  <2>2. \A k \in from..Len(payload) : payload[k] \in Bytes
    BY <1>3, <2>1, ElementOfSeq
  <2> QED BY <1>3, <1>4, <2>2
<1>6. shown'.type = reply.type /\ shown'.data \in Seq(Bytes)
  BY <1>1, <1>5 DEF Shown
<1>7. TypeOK'
  BY <1>1, <1>2, <1>6 DEF TypeOK
<1> QED BY <1>1, <1>7 DEF SentInv, CodedInv

LEMMA SentStep == SentInv /\ [Next]_vars => SentInv'
<1> SUFFICES ASSUME SentInv, [Next]_vars PROVE SentInv'
  OBVIOUS
<1>1. RequestInv'
  BY RequestStep DEF SentInv
<1>2. CASE Send
  BY <1>1, <1>2, SentSend
<1>3. CASE GetDescription
  BY <1>1, <1>3, SentRead
<1>4. CASE Echo \/ DirectorySend \/ FileSizeResponse \/ FileRetrieval
  BY <1>1, <1>4, SentAnswer
<1>5. CASE LoseReply \/ ReadAstray \/ OpenDirectory
  <2>1. /\ stage' = "lost" /\ UNCHANGED <<server, dict, request, buffer, reply, shown>>
        /\ process' \in {process, "null", "overread", "double free", "wild pointer"}
    BY <1>5 DEF LoseReply, ReadAstray, OpenDirectory, FreePath, ReadName, Stage
  <2> QED BY <1>1, <2>1 DEF SentInv, TypeOK, CodedInv
<1>6. CASE ErrorSend
  <2>1. /\ stage' = "replied" /\ reply' = Error
        /\ UNCHANGED <<server, dict, request, buffer, shown>> /\ process' \in {process, "overread"}
    BY <1>6 DEF ErrorSend, ReadName, Stage
  <2>2. reply'.type = "error" /\ reply'.compressed = FALSE /\ reply'.data = <<>> /\ <<>> \in Seq(Bytes)
    BY <2>1, EmptySeq DEF Error
  <2> QED BY <1>1, <2>1, <2>2 DEF SentInv, TypeOK, CodedInv
<1>7. CASE HandleTCPResponse
  BY <1>1, <1>7, SentShow
<1>8. CASE UNCHANGED vars
  BY <1>1, <1>8 DEF vars, SentInv, TypeOK, CodedInv
<1> QED BY <1>2, <1>3, <1>4, <1>5, <1>6, <1>7, <1>8 DEF Next

\* Each side only ever has bytes to send, to read and to show, whatever compress and
\* the decoders are given: also a payload that came in part, decoded with the
\* bytes that were in memory behind it.
THEOREM TypeCorrect == Spec => []TypeOK
<1>1. SentInv => TypeOK
  BY DEF SentInv
<1> QED BY <1>1, SentInit, SentStep, PTL DEF Spec

\* What either decoder of the deployed code, the table or the trie makes of bytes
LEMMA Agreement ==
  ASSUME dict \in DictFiles, NEW data \in Seq(Bytes), data # <<>>
  PROVE  /\ TotalBits(data) > 0 =>
              Decompress(data, Codes) = DecompressJS(data, LoadDictionary(dict))
         /\ Complete(Codes) => DecompressTrie(data, Trie(Codes)) = DecompressAll(data, Codes)
BY CodesFacts, DecodersSame, TrieFindsTheSame

LEMMA SentAgree == SentInv => DecodersAgree
<1> SUFFICES ASSUME SentInv PROVE DecodersAgree
  OBVIOUS
<1>1. RequestInv /\ TypeOK /\ CodedInv /\ dict \in DictFiles
  BY DEF SentInv, RequestInv
<1>2. buffer \in Seq(Bytes) /\ reply.data \in Seq(Bytes)
  BY <1>1 DEF TypeOK
<1>3. stage = "sent" /\ request.compressed => buffer # <<>>
  BY <1>1, CodesFacts, PayloadFacts, CompressionLosesNothing DEF RequestInv
<1>4. stage = "replied" /\ reply.compressed => reply.data # <<>>
  BY <1>1 DEF CodedInv
<1>5. Inverts(dict, Prefix(request.type, request.header) \o request.meant)
  BY <1>1, PayloadFacts DEF Plain
<1>6. \A data \in {Listing, Size, request.header \o Content} : Inverts(dict, data)
  BY <1>1, SentData, HeaderFacts, ConcatProperties, CodecsInvert
<1> QED BY <1>1, <1>2, <1>3, <1>4, <1>5, <1>6, Agreement DEF DecodersAgree

\* For any dictionary whose codes can be told apart, and payloads of any length:
\* with the dictionary as each of them loads it, and with its own test for an empty
\* payload, the server decodes what is sent compressed as the proxy does (the search
\* for the codes is the same in both and has one definition), and to what it was
\* before.  Of the trie it says less: where the codes are complete, its walk through
\* all the bits finds what a search through the table finds in all of them.
THEOREM DecodersAreOne == Spec => []DecodersAgree
<1> QED BY SentInit, SentStep, SentAgree, PTL DEF Spec

LEMMA RequestKept == RequestInv => CodecsKeepPayload
<1> SUFFICES ASSUME RequestInv, stage = "sent" PROVE CodecsKeepPayload
  BY DEF CodecsKeepPayload
<1>1. request.meant \in Seq(Bytes) /\ PrefixCode(Codes)
  BY PayloadFacts, CodesFacts DEF RequestInv
<1> QED BY <1>1, ShorterKeepsPayload, CountingKeepsPayload, IdentityIsExact DEF CodecsKeepPayload

\* Of the codecs that do not send the number of padding bits, the one with the table
\* gives every payload back with at most padding behind it; the one with the trie does
\* so for payloads that it makes shorter, under codes that are complete.  What it
\* leaves as it is, and its decoder takes for codes, is not given back.
THEOREM CodecsKeep == Spec => []CodecsKeepPayload
<1> QED BY RequestInit, RequestStep, RequestKept, PTL DEF Spec
================================================================================
