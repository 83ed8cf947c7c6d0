-------------------------------- MODULE Exchange -------------------------------
(* A request and its reply between a client and one worker: get_description    *)
(* reads the message and decompresses the payload where the header asks for    *)
(* it, one of echo, directory_send, file_size_response and (with a single      *)
(* connection) the file retrieval answers, compressed or not, and              *)
(* proxy-server.js turns the reply into what the browser shows.  Nothing of an *)
(* exchange is left to the next one, so a behaviour is one exchange.  The      *)
(* server runs the functions of message_handling.c or those of the same names  *)
(* in message_handling_optimized.c.                                            *)
EXTENDS CodecOptimized

CONSTANTS
  DictFiles,  \* contents of the dictionary file
  Payloads,   \* what clients send
  Name,        \* the name of the file in the directory, and the 0 at its end
  Size,        \* its size, as the bytes of the reply
  Content,     \* its bytes
  Listing,     \* the names of the directory
  Headers,     \* session id, offset and length of the ranges that clients ask for
  ProxyHeader, \* those of the proxy: the same for all files of a name unknown to it
  Junk         \* bytes that fresh memory may hold

\* Session id, offset and length take a byte each (4, 8 and 8 in the code).
HeaderSize == 3

ASSUME DataAssumption ==
  /\ DictFiles \cup Payloads \cup {Name, Size, Content, Listing} \subseteq Seq(Bytes)
  /\ Headers \cup {ProxyHeader} \subseteq [1..HeaderSize -> Bytes]
  /\ Junk \subseteq Bytes

\* The dictionary file is complete, and its codes can be told apart.
ASSUME DictionaryAssumption == \A file \in DictFiles : IsDictionary(file, CreateMap(file))

Types == {"echo", "list", "size", "file"}

VARIABLES
  server,   \* "default" or "optimized"
  dict,     \* the dictionary file both sides have read
  stage,    \* "idle", "sent", "received", "replied", "shown" or "lost"
  request,  \* type and flags of the message, the range and the name (or the data)
            \* that the client means by it, and whether its payload is there when
            \* it is read
  buffer,   \* msg->buffer: the payload as it is on the wire, then as it was read
  reply,    \* type, compression flag and payload of the reply
  shown,    \* type and data of the reply in the browser
  process   \* "up", or what it did: "null" (a read through NULL), "overread",
            \* "double free", "overrun", "wild pointer"

vars == <<server, dict, stage, request, buffer, reply, shown, process>>

\* What error_send sends, and what the browser is told
Error == [type |-> "error", compressed |-> FALSE, data |-> <<>>]
Shown(type, data) == [type |-> type, data |-> data]

Init ==
  /\ server \in {"default", "optimized"}
  /\ dict \in DictFiles
  /\ stage = "idle"
  /\ request = [type |-> "echo", compressed |-> FALSE, requires |-> FALSE, whole |-> TRUE,
                header |-> ProxyHeader, meant |-> <<>>]
  /\ buffer = <<>> /\ reply = Error /\ shown = Shown("error", <<>>)
  /\ process = "up"

Codes == CreateMap(dict)

Stage(from, to) == stage = from /\ stage' = to
--------------------------------------------------------------------------------
\* What is in front of the name in the payload of a request
Prefix(type, header) == IF type = "file" THEN header ELSE <<>>

\* What clients ask for, with or without the 0 that ends a name; a range goes with
\* the file alone.
Requests ==
  LET Of(types, headers) == [type : types, compressed : BOOLEAN, requires : BOOLEAN,
                             whole : BOOLEAN, header : headers, meant : Payloads]
  IN  Of(Types \ {"file"}, {ProxyHeader}) \cup Of({"file"}, Headers)

\* handleClientMessage: the proxy compresses nothing, asks for the same range
\* whatever the length of the file, and sends a name as it was typed in.
HandleClientMessage(type, text, compress, whole) ==
  [type |-> type, compressed |-> FALSE, requires |-> type # "list" /\ compress, whole |-> whole,
   header |-> ProxyHeader, meant |-> IF type = "list" THEN <<>> ELSE text]

\* The proxy sends what a browser wants, and other clients a payload as it is or
\* compressed.
Send ==
  /\ Stage("idle", "sent")
  /\ \/ \E type \in Types, text \in Payloads, compress, whole \in BOOLEAN :
          request' = HandleClientMessage(type, text, compress, whole)
     \/ request' \in Requests
  /\ LET payload == Prefix(request'.type, request'.header) \o request'.meant
     IN  buffer' = IF request'.compressed THEN Compress(payload, Codes) ELSE payload
  /\ UNCHANGED <<server, dict, reply, shown, process>>

\* Seeded fault: read_full is content with what one read() returns.
ReadsAlwaysOnce == TRUE

\* get_description reads the payload with one read(), get_description_optimized
\* with read_full.
ReadsOnce == server = "default"

\* The payload in its block: a single read() returns what has arrived (here all
\* but the last byte, if it comes in pieces), and the block is fresh memory.
Received == IF ReadsOnce /\ ~request.whole /\ Len(buffer) > 1
            THEN {Append(Front(buffer), byte) : byte \in Junk} ELSE {buffer}

\* A payload that an echo sends back compressed is left as it is.
GetDescription ==
  /\ Stage("sent", "received")
  /\ \E payload \in Received :
       buffer' = IF request.compressed /\ ~(request.type = "echo" /\ request.requires)
                 THEN Decompress(payload, Codes) ELSE payload
  /\ UNCHANGED <<server, dict, request, reply, shown, process>>

\* message_handling_optimized.c hands compress the message where it expects a
\* pointer to a pointer to it.
WrongPointer == server = "optimized" /\ request.type # "echo" /\ request.requires

\* The reply to a request of the given type, compressed where the header asks
Answer(type, data, compress) ==
  /\ Stage("received", "replied") /\ request.type = type /\ ~WrongPointer
  /\ reply' = [type |-> type, compressed |-> request.requires,
               data |-> IF compress THEN Compress(data, Codes) ELSE data]
  /\ UNCHANGED <<server, dict, request, buffer, shown>>

\* The block of an echo is allocated for the payload as it was read: what
\* compress makes longer is copied over its end, which the process may survive.
Allocated(data) == process' \in IF reply'.data # data /\ Len(reply'.data) > Len(data)
                               THEN {process, "overrun"} ELSE {process}

\* Seeded fault: a payload that came compressed is compressed again.
EchoTwice == Answer("echo", buffer, request.requires) /\ Allocated(buffer)

Echo == Answer("echo", buffer, request.requires /\ ~request.compressed) /\ Allocated(buffer)

DirectorySend == Answer("list", Listing, request.requires) /\ UNCHANGED process

\* What the server takes for the header and for the name in the buffer
Sent == SubSeq(buffer, 1, HeaderSize)
Asked == SubSeq(buffer, Len(Prefix(request.type, request.header)) + 1, Len(buffer))

\* A name ends with its first 0, and without one with whatever is behind the block:
\* it is the name of the file, it is not, or it may be.  The empty name is that of
\* the directory.
Terminated(name) == 0 \in Range(name)
IsName(name) == IsPrefix(Name, name)
MayBeName(name) == IsName(name) \/ (~Terminated(name) /\ IsPrefix(name, Name))
NoName(name) == name # <<>> /\ Head(name) = 0

\* A name without its 0 is read on behind its block.
ReadName == process' = IF Terminated(Asked) THEN process ELSE "overread"

\* A size or a file is asked for, and the payload is long enough to hold a name.
Named == /\ stage = "received" /\ request.type \in {"size", "file"}
         /\ buffer # <<>> /\ (request.type = "file" => Len(buffer) >= HeaderSize)

\* The range is in the file: parent_send compares it with the size, and
\* parent_send_optimized what read() returns with the length.
InFile(header) ==
  \/ header[2] + header[3] <= Len(Content)
  \/ server = "optimized" /\ header[3] = 0

SegmentBytes(header) == SubSeq(Content, header[2] + 1, header[2] + header[3])

\* The block that held the path is freed a second time after the size, where the
\* path is in a block.
FreePath == IF server = "default" THEN process' = "double free" ELSE ReadName

FileSizeResponse ==
  /\ Named /\ MayBeName(Asked)
  /\ Answer("size", Size, request.requires)
  /\ FreePath

\* dissect_file_request and parent_send, with no other connection
FileRetrieval ==
  /\ Named /\ request.type = "file" /\ MayBeName(Asked) /\ InFile(Sent)
  /\ Answer("file", Sent \o SegmentBytes(Sent), request.requires)
  /\ ReadName

\* error_send: there is no such file, or it does not hold the range.
ErrorSend ==
  /\ Stage("received", "replied") /\ Named /\ ~NoName(Asked)
  /\ ~IsName(Asked) \/ (request.type = "file" /\ ~InFile(Sent))
  /\ reply' = Error /\ ReadName
  /\ UNCHANGED <<server, dict, request, buffer, shown>>

\* The wrong pointer: no reply, or none that is complete.
LoseReply ==
  /\ Stage("received", "lost") /\ WrongPointer
  /\ request.type # "list" => Named /\ MayBeName(Asked)
  /\ request.type = "file" => InFile(Sent)
  /\ process' = "wild pointer"
  /\ UNCHANGED <<server, dict, request, buffer, reply, shown>>

\* A payload of no bytes, or one that decompress makes nothing of, leaves the
\* buffer NULL, and file_size_response and dissect_file_request read through it;
\* a header that is too short is read on behind its block, and what is done with
\* that is not followed.
ReadAstray ==
  /\ Stage("received", "lost") /\ request.type \in {"size", "file"} /\ ~Named
  /\ process' = IF buffer = <<>> THEN "null" ELSE "overread"
  /\ UNCHANGED <<server, dict, request, buffer, reply, shown>>

\* The directory is opened in place of a file; what is sent of it is not followed.
OpenDirectory ==
  /\ Stage("received", "lost") /\ Named /\ (NoName(Asked) \/ Asked = <<>>)
  /\ IF request.type = "file" THEN ReadName
     ELSE IF WrongPointer THEN process' = "wild pointer" ELSE FreePath
  /\ UNCHANGED <<server, dict, request, buffer, reply, shown>>

\* handleTCPResponse: decompress, and cut the header off a file segment.
HandleTCPResponse ==
  /\ Stage("replied", "shown")
  /\ LET payload == IF reply.compressed THEN DecompressJS(reply.data, LoadDictionary(dict))
                                        ELSE reply.data
         from == IF reply.type = "file" THEN HeaderSize + 1 ELSE 1
     IN  shown' = Shown(reply.type, SubSeq(payload, from, Len(payload)))
  /\ UNCHANGED <<server, dict, request, buffer, reply, process>>
--------------------------------------------------------------------------------
Next == \/ Send \/ GetDescription \/ Echo \/ DirectorySend \/ FileSizeResponse
        \/ FileRetrieval \/ ErrorSend \/ LoseReply \/ ReadAstray \/ OpenDirectory
        \/ HandleTCPResponse

Spec == Init /\ [][Next]_vars
--------------------------------------------------------------------------------
TypeOK ==
  /\ server \in {"default", "optimized"} /\ dict \in DictFiles
  /\ stage \in {"idle", "sent", "received", "replied", "shown", "lost"}
  /\ request.type \in Types
  /\ {request.compressed, request.requires, request.whole, reply.compressed} \subseteq BOOLEAN
  /\ {buffer, reply.data, shown.data} \subseteq Seq(Bytes)
  /\ {reply.type, shown.type} \subseteq Types \cup {"error"}
  /\ process \in {"up", "null", "overread", "double free", "overrun", "wild pointer"}

\* The server reads all of the payload, and it is none that decompress does not
\* recognise, which is that of no data.
Readable == /\ request.whole \/ server = "optimized"
            /\ ~(request.compressed /\ request.meant = <<>>)

\* Where all of the payload is read, in pieces too where that is done by read_full,
\* the browser is shown what was asked for, whichever side compresses: the payload
\* of an echo, the names of the directory, the size of the file or the range of it
\* that was asked for, without its header; and an error where the file is not there
\* or does not hold the range.  A name that comes without its 0, as the proxy sends
\* them, may get the file that it begins or an error, and never another.
RepliesFit ==
  LET name == request.meant
      there == request.type = "file" => InFile(request.header)
      data == IF request.type = "size" THEN Size ELSE SegmentBytes(request.header)
  IN  (stage = "shown" /\ Readable) =>
        CASE request.type = "echo" -> shown = Shown("echo", request.meant)
          [] request.type = "list" -> shown = Shown("list", Listing)
          [] OTHER -> \/ MayBeName(name) /\ there /\ shown = Shown(request.type, data)
                      \/ ~(IsName(name) /\ there) /\ shown = Shown("error", <<>>)

\* Compressed with the codes of a dictionary file, data comes back as it was from
\* each of the two decoders, but for nothing at all, which decompress leaves as it is.
Inverts(file, data) ==
  LET compressed == Compress(data, CreateMap(file))
  IN  /\ DecompressJS(compressed, LoadDictionary(file)) = data
      /\ data # <<>> => Decompress(compressed, CreateMap(file)) = data

\* Where the server has nothing to compress it keeps to its memory, whatever the
\* client compresses and however the payload comes, but for the path that the
\* default build frees twice after the size of a file.  A size or a file takes a
\* payload that is read as a whole, and a name with its 0.
MemoryKept ==
  /\ ~request.requires \/ (request.type = "echo" /\ request.compressed)
  /\ request.type \in {"size", "file"} => Readable /\ Terminated(request.meant)
  => process \in {"up"} \cup IF server = "default" /\ request.type = "size" THEN {"double free"} ELSE {}

\* With the dictionaries that each of them has loaded, the server and the proxy
\* decode alike everything that either side compresses, save an empty payload (both
\* search the codes in the same way, one Decode here); and where the codes are
\* complete the trie finds in all the bits of it, the padding and its number too,
\* what a search through the table finds.
DecodersAgree ==
  LET Agree(data) ==
        /\ TotalBits(data) > 0 =>
             Decompress(data, Codes) = DecompressJS(data, LoadDictionary(dict))
        /\ Complete(Codes) => DecompressTrie(data, Trie(Codes)) = DecompressAll(data, Codes)
  IN  /\ stage = "sent" /\ request.compressed => Agree(buffer)
      /\ stage = "replied" /\ reply.compressed => Agree(reply.data)
      /\ stage = "shown" /\ request.compressed =>
           Inverts(dict, Prefix(request.type, request.header) \o request.meant)
      /\ stage = "shown" /\ request.requires /\ request.type # "echo" =>
           \A data \in {Listing, Size, request.header \o Content} : Inverts(dict, data)

\* The codecs that do not send the number of padding bits give the payload back,
\* perhaps with bytes behind it that were padding: what is written over the last
\* byte never reaches a code, and no padding comes before one.  Nothing is added
\* where each byte is its own code.  The trie keeps payloads it cannot shorten,
\* and may not follow the padding where codes are missing.
CodecsKeepPayload ==
  (stage = "sent" /\ request.type = "echo") =>
    LET data == request.meant
        shorter == CompressShorter(data, Codes)
    IN  /\ shorter # data /\ Complete(Codes) => IsPrefix(data, DecompressTrie(shorter, Trie(Codes)))
        /\ IsPrefix(data, DecompressAll(CompressCounting(data, Codes), Codes))
        /\ DecompressAll(CompressCounting(data, Identity), Identity) = data
================================================================================
