--------------------------------- MODULE Proxy ---------------------------------
(* The page of client.js, the WebSocket proxy of proxy-server.js and, seen     *)
(* through its replies, one server: one step is one event that the page or the *)
(* proxy handles from its first statement to its last.                         *)
(* The network keeps the order of each direction of each connection; a stream  *)
(* of TCP is cut into data events anywhere.  Bytes are counted in units, a     *)
(* header being HeaderUnits of them.                                           *)
EXTENDS Integers, Sequences, SequencesExt

CONSTANTS
  NumSockets,   \* bound: how many WebSockets the page opens
  NumTcp,       \* bound: how many connections the proxy opens
  NumRequests,  \* bound: how many requests the user makes
  Kinds,        \* what the user asks for: a subset of RequestKinds
  HeaderUnits   \* the units of a header (9 bytes)

\* "text" is an echo, a size or a listing, "wide" an echo or a size whose text is
\* not all ASCII, and "retrieve" a file.
RequestKinds == {"text", "wide", "retrieve"}

ASSUME ProxyAssumption == /\ {NumSockets, NumTcp, NumRequests} \subseteq Nat
                          /\ Kinds \subseteq RequestKinds /\ HeaderUnits \in Nat \ {0}

Sockets == 1..NumSockets
Tcp == 1..NumTcp
Requests == 1..NumRequests
None == 0

VARIABLES
  (* the page *)
  socket,       \* this.socket
  status,       \* this.connected, with the buttons and the panel that follow it
  pendingName,  \* this.pendingFileName: the request whose file is named
  ws,           \* the state of each WebSocket, as the page sees it
  kind, on,     \* of each request: its kind and the WebSocket it was sent on
  outstanding,  \* the requests that were sent and had no reply
  saved,        \* the files saved, each as <<its request, the request named>>
  overlapped,   \* a file was asked for while another was outstanding
  seen,         \* the messages from each connection that the page has handled
  (* the WebSockets: what is under way to the proxy and to the page *)
  up, down,
  (* the proxy *)
  gone,         \* the WebSockets whose 'close' it has handled
  connections,  \* the map from WebSockets to TCP connections
  tcp, wsOf,    \* the state of each TCP connection and the WebSocket it is for
  buffer,       \* its incomplete message
  (* the server *)
  log, served,  \* what it is sent on each connection and how much it has read
  out,          \* what it has sent
  serve         \* its state: "serving", "astray" (it reads the rest of a text as a
                \* header), "left" (nobody reads it, or not in step) or "closed"

page == <<socket, status, pendingName, ws, kind, on, outstanding, saved, overlapped, seen>>
proxy == <<gone, connections, tcp, wsOf, buffer>>
server == <<log, served, out, serve>>
vars == <<page, up, down, proxy, server>>

Init ==
  /\ socket = None /\ status = FALSE /\ pendingName = None /\ ws = [w \in Sockets |-> "new"]
  /\ kind = [r \in Requests |-> "none"] /\ on = [r \in Requests |-> None]
  /\ outstanding = {} /\ saved = {} /\ overlapped = FALSE /\ seen = [t \in Tcp |-> <<>>]
  /\ up = [w \in Sockets |-> <<>>] /\ down = [w \in Sockets |-> <<>>]
  /\ gone = {} /\ connections = [w \in Sockets |-> None]
  /\ tcp = [t \in Tcp |-> "new"] /\ wsOf = [t \in Tcp |-> None] /\ buffer = [t \in Tcp |-> <<>>]
  /\ log = [t \in Tcp |-> <<>>] /\ served = [t \in Tcp |-> 0] /\ out = [t \in Tcp |-> <<>>]
  /\ serve = [t \in Tcp |-> "serving"]
--------------------------------------------------------------------------------
(* Replies, in units: <<answer, position>>                                     *)

Answer(request, what) == [to |-> request, what |-> what]
Size(answer) == HeaderUnits + (IF answer.what = "error" THEN 0 ELSE 1)
Reply(answer) == [k \in 1..Size(answer) |-> <<answer, k>>]
Answered(message) == message.units[1][1]

\* An error message of the proxy itself, about a request or about none
Trouble(request) == [via |-> None, units |-> Reply(Answer(request, "error"))]
--------------------------------------------------------------------------------
(* client.js                                                                   *)

\* The button is enabled until some WebSocket is open: there may be several.
Connect(w) ==
  /\ ~status /\ ws[w] = "new" /\ \A v \in 1..w - 1 : ws[v] # "new"
  /\ socket' = w /\ ws' = [ws EXCEPT ![w] = "connecting"]
  /\ UNCHANGED <<status, pendingName, kind, on, outstanding, saved, overlapped, seen,
                 up, down, proxy, server>>

\* A message goes out on an open WebSocket; on none or a connecting one send()
\* throws, on a closing one it does nothing.
Send(w, message) == up' = IF w # None /\ ws'[w] = "open"
                          THEN [up EXCEPT ![w] = Append(@, message)] ELSE up

\* onopen sends by this.socket, which may be another one.
Opened(w) ==
  /\ ws[w] = "connecting"
  /\ ws' = [ws EXCEPT ![w] = "open"] /\ status' = TRUE
  /\ Send(socket, <<"connect", None>>)
  /\ UNCHANGED <<socket, pendingName, kind, on, outstanding, saved, overlapped, seen,
                 down, proxy, server>>

\* What arrives on a WebSocket that is closing is not handled.
Disconnect ==
  /\ status /\ socket # None
  /\ ws' = [ws EXCEPT ![socket] = "closing"] /\ up' = [up EXCEPT ![socket] = Append(@, <<"close", None>>)]
  /\ down' = [down EXCEPT ![socket] = <<>>] /\ socket' = None
  /\ UNCHANGED <<status, pendingName, kind, on, outstanding, saved, overlapped, seen,
                 proxy, server>>

\* The onclose of any WebSocket, the current one or not
Closed(w) ==
  /\ ws[w] = "closing" /\ w \in gone
  /\ ws' = [ws EXCEPT ![w] = "closed"] /\ status' = FALSE
  /\ UNCHANGED <<socket, pendingName, kind, on, outstanding, saved, overlapped, seen,
                 up, down, proxy, server>>

\* sendEcho, getFileSize, listDirectory and retrieveFile, which keeps the name
\* before it sends
Ask(r) ==
  /\ status /\ kind[r] = "none" /\ \A q \in 1..r - 1 : kind[q] # "none"
  /\ \E what \in Kinds :
       /\ kind' = [kind EXCEPT ![r] = what]
       /\ pendingName' = IF what = "retrieve" THEN r ELSE pendingName
       /\ overlapped' = (overlapped \/ (what = "retrieve" /\ \E q \in outstanding :
                                          kind[q] = "retrieve" /\ ws[on[q]] = "open"))
  /\ UNCHANGED ws /\ Send(socket, <<"request", r>>)
  /\ IF up' # up THEN on' = [on EXCEPT ![r] = socket] /\ outstanding' = outstanding \cup {r}
                 ELSE UNCHANGED <<on, outstanding>>
  /\ UNCHANGED <<socket, status, saved, seen, down, proxy, server>>

\* Seeded fault: every reply takes the name away.
TakesNameAlways(answer) == TRUE

TakesName(answer) == answer.what = "file"

\* handleMessage: a file is saved under the name that is pending.
Receive(w) ==
  LET message == Head(down[w])
      answer == Answered(message)
  IN  /\ ws[w] = "open" /\ down[w] # <<>>
      /\ down' = [down EXCEPT ![w] = Tail(@)]
      /\ outstanding' = outstanding \ {answer.to}
      /\ saved' = IF answer.what = "file" THEN saved \cup {<<answer.to, pendingName>>} ELSE saved
      /\ pendingName' = IF TakesName(answer) THEN None ELSE pendingName
      /\ seen' = IF message.via = None THEN seen
                 ELSE [seen EXCEPT ![message.via] = Append(@, message.units)]
      /\ UNCHANGED <<socket, status, ws, kind, on, overlapped, up, proxy, server>>
--------------------------------------------------------------------------------
(* proxy-server.js                                                             *)

\* ws.send; the page does not handle what it gets after it has closed the WebSocket.
Tell(w, messages) == down' = IF ws[w] = "open" THEN [down EXCEPT ![w] = @ \o messages] ELSE down

Live == {t \in Tcp : tcp[t] \in {"connected", "late"}}

Take(w) == up[w] # <<>> /\ up' = [up EXCEPT ![w] = Tail(@)]

\* connectToTCPServer: the map is not changed yet.
OpenTcp(w, t) ==
  /\ Take(w) /\ Head(up[w])[1] = "connect"
  /\ tcp[t] = "new" /\ \A u \in 1..t - 1 : tcp[u] # "new"
  /\ tcp' = [tcp EXCEPT ![t] = "connecting"] /\ wsOf' = [wsOf EXCEPT ![t] = w]
  /\ UNCHANGED <<page, down, gone, connections, buffer, server>>

\* handleClientMessage, by the connection that the map leads to
Forward(w) ==
  /\ Take(w) /\ Head(up[w])[1] = "request" /\ connections[w] \in Live
  /\ log' = [log EXCEPT ![connections[w]] = Append(@, Head(up[w])[2])]
  /\ UNCHANGED <<page, down, proxy, served, out, serve>>

NotConnected(w) ==
  /\ Take(w) /\ Head(up[w])[1] = "request" /\ connections[w] \notin Live
  /\ Tell(w, <<Trouble(Head(up[w])[2])>>)
  /\ UNCHANGED <<page, proxy, server>>

\* Seeded fault: the entry of the map is left.
SocketClosedKeeping(w) ==
  /\ Take(w) /\ Head(up[w])[1] = "close"
  /\ gone' = gone \cup {w}
  /\ tcp' = IF connections[w] = None THEN tcp ELSE [tcp EXCEPT ![connections[w]] = "destroyed"]
  /\ UNCHANGED <<page, down, connections, wsOf, buffer, server>>

\* The 'close' of a WebSocket: a connection that is still being made is not found.
SocketClosed(w) ==
  /\ Take(w) /\ Head(up[w])[1] = "close"
  /\ gone' = gone \cup {w}
  /\ tcp' = IF connections[w] = None THEN tcp ELSE [tcp EXCEPT ![connections[w]] = "destroyed"]
  /\ connections' = [connections EXCEPT ![w] = None]
  /\ UNCHANGED <<page, down, wsOf, buffer, server>>

\* The callback of connect(); it is late when its WebSocket has closed meanwhile.
TcpConnected(t) ==
  /\ tcp[t] = "connecting" /\ serve[t] # "closed"
  /\ tcp' = [tcp EXCEPT ![t] = IF wsOf[t] \in gone THEN "late" ELSE "connected"]
  /\ connections' = [connections EXCEPT ![wsOf[t]] = t]
  /\ UNCHANGED <<page, up, down, gone, wsOf, buffer, server>>

\* The 'close' of a connection takes away the entry of its WebSocket, whatever
\* connection it leads to.  What has not arrived is lost.
EndTcp(t) == /\ tcp' = [tcp EXCEPT ![t] = "closed"]
             /\ connections' = [connections EXCEPT ![wsOf[t]] = None]
             /\ buffer' = [buffer EXCEPT ![t] = <<>>] /\ out' = [out EXCEPT ![t] = <<>>]
             /\ UNCHANGED <<gone, wsOf, log, served, serve>>

TcpClosed(t) ==
  /\ \/ tcp[t] = "destroyed"
     \/ t \in Live /\ serve[t] = "closed" /\ out[t] = <<>>
  /\ EndTcp(t)
  /\ UNCHANGED <<page, up, down>>

\* 'error', which 'close' follows: the server is not there, or has closed the
\* connection with a request unread.
TcpFails(t) ==
  /\ \/ tcp[t] = "connecting" /\ serve[t] = "closed"
     \/ t \in Live /\ serve[t] = "closed" /\ served[t] < Len(log[t])
  /\ EndTcp(t) /\ Tell(wsOf[t], <<Trouble(None)>>)
  /\ UNCHANGED <<page, up>>

\* Seeded fault: what one data event brings is one message.
CutNowhere(units) == <<units, <<>>>>

\* A whole message begins with the unit at the given place.
Whole(units, from) == LET rest == Len(units) - from + 1
                      IN  rest >= HeaderUnits /\ rest >= Size(units[from][1])

\* The place behind that message
After(units, from) == from + Size(units[from][1])

\* Seeded fault: one message is taken out of each data event.
CutOnce(units) ==
  IF ~Whole(units, 1) THEN <<units>>
  ELSE <<SubSeq(units, 1, After(units, 1) - 1), SubSeq(units, After(units, 1), Len(units))>>

\* The complete messages at the front of the buffer, and what remains
Cut(units) ==
  LET cut[from \in 1..Len(units) + 1] ==
        IF Whole(units, from)
        THEN <<SubSeq(units, from, After(units, from) - 1)>> \o cut[After(units, from)]
        ELSE <<SubSeq(units, from, Len(units))>>
  IN  cut[1]

\* The 'data' of a connection; handleTCPResponse sends one message for each reply.
Data(t) ==
  /\ t \in Live
  /\ \E n \in 1..Len(out[t]) :
       LET pieces == Cut(buffer[t] \o SubSeq(out[t], 1, n))
       IN  /\ out' = [out EXCEPT ![t] = SubSeq(@, n + 1, Len(@))]
           /\ buffer' = [buffer EXCEPT ![t] = Last(pieces)]
           /\ Tell(wsOf[t], [i \in 1..Len(pieces) - 1 |-> [via |-> t, units |-> pieces[i]]])
  /\ UNCHANGED <<page, up, gone, connections, tcp, wsOf, log, served, serve>>
--------------------------------------------------------------------------------
(* The server                                                                  *)

\* Seeded fault: the header of a retrieve counts the name alone.
OverrunsHeaderless(what) == what \in {"wide", "retrieve"}

\* The header announces less than follows it: it counts the UTF-16 units of a text
\* that is sent in UTF-8.
Overruns(what) == what = "wide"

\* How the server answers and what becomes of the connection: all retrieves bear
\* the session id 1, so that one may join the transfer of another page, after which
\* the connection is closed, or differ from it, after which nobody reads it.  One
\* that joins too late has no outcome: see JoinLate.
Outcomes(what) ==
  IF what = "retrieve"
  THEN {"file", "error"} \X {"serving", "closed"} \cup {<<"error", "left">>}
  ELSE {"text", "error"} \X {"serving"}

Serve(t) ==
  LET r == log[t][served[t] + 1]
  IN  /\ t \in Live /\ serve[t] = "serving" /\ served[t] < Len(log[t])
      /\ \E outcome \in Outcomes(kind[r]) :
           /\ out' = [out EXCEPT ![t] = @ \o Reply(Answer(r, outcome[1]))]
           /\ serve' = [serve EXCEPT ![t] = IF outcome[2] = "serving" /\ Overruns(kind[r])
                                            THEN "astray" ELSE outcome[2]]
      /\ served' = [served EXCEPT ![t] = @ + 1]
      /\ UNCHANGED <<page, up, down, proxy, log>>

\* A retrieve joins a transfer whose parts have been given out: the worker waits for
\* its own at the pipe, answers nothing, and reads the connection no more.
JoinLate(t) ==
  /\ t \in Live /\ serve[t] = "serving" /\ served[t] < Len(log[t])
  /\ kind[log[t][served[t] + 1]] = "retrieve"
  /\ serve' = [serve EXCEPT ![t] = "left"] /\ served' = [served EXCEPT ![t] = @ + 1]
  /\ UNCHANGED <<page, up, down, proxy, log, out>>

\* The rest of a text is of an unknown type (an error, and the connection is
\* closed), of a type whose length the next request is taken for, or a shutdown.
Stray(t) ==
  /\ t \in Live /\ serve[t] = "astray"
  /\ \/ /\ out' = [out EXCEPT ![t] = @ \o Reply(Answer(None, "error"))]
        /\ serve' = [serve EXCEPT ![t] = "closed"]
     \/ serve' = [serve EXCEPT ![t] = "left"] /\ UNCHANGED out
  /\ UNCHANGED <<page, up, down, proxy, log, served>>

\* A shutdown, by this page's stray text or by somebody else, ends the process and
\* with it every connection, present and future.
ServerStops ==
  /\ \E t \in Tcp : serve[t] # "closed"
  /\ serve' = [t \in Tcp |-> "closed"]
  /\ UNCHANGED <<page, up, down, proxy, log, served, out>>
--------------------------------------------------------------------------------
User == \/ \E w \in Sockets : Connect(w)
        \/ \E r \in Requests : Ask(r)
        \/ Disconnect

SocketEvent(w) ==
  \/ Opened(w) \/ Closed(w) \/ Receive(w)
  \/ Forward(w) \/ NotConnected(w) \/ SocketClosed(w) \/ \E t \in Tcp : OpenTcp(w, t)

TcpEvent(t) == TcpConnected(t) \/ TcpFails(t) \/ TcpClosed(t) \/ Data(t)

Next == \/ User
        \/ \E w \in Sockets : SocketEvent(w)
        \/ \E t \in Tcp : TcpEvent(t) \/ Serve(t) \/ JoinLate(t) \/ Stray(t)
        \/ ServerStops

Spec == Init /\ [][Next]_vars

\* Events under way arrive and are handled; the user and the server are under no
\* obligation.
FairSpec ==
  /\ Spec
  /\ \A w \in Sockets : WF_vars(Opened(w)) /\ WF_vars(Closed(w)) /\ WF_vars(Receive(w))
       /\ WF_vars(Forward(w) \/ NotConnected(w) \/ SocketClosed(w) \/ \E t \in Tcp : OpenTcp(w, t))
  /\ \A t \in Tcp : WF_vars(TcpConnected(t) \/ TcpFails(t)) /\ WF_vars(TcpClosed(t))
                      /\ WF_vars(Data(t))

\* The server reads what it is sent: a worker is free for each connection, which
\* twenty clients that stay connected and say nothing can prevent for ever.
WorkersFree == \A t \in Tcp : WF_vars(Serve(t) \/ JoinLate(t))
--------------------------------------------------------------------------------
SocketStates == {"new", "connecting", "open", "closing", "closed"}
TcpStates == {"new", "connecting", "connected", "late", "destroyed", "closed"}
Answers == {Answer(r, what) : r \in Requests, what \in {"text", "file", "error"}}
             \cup {Answer(None, "error")}
Units == Answers \X (1..HeaderUnits + 1)
Notes == ({"connect", "close"} \X {None}) \cup ({"request"} \X Requests)
Messages == [via : Tcp \cup {None}, units : {units \in Seq(Units) : Len(units) >= HeaderUnits}]

\* Every variable stays in its type; a message to the page has a whole header, and
\* a buffer keeps less than a message.
TypeOK ==
  /\ socket \in Sockets \cup {None} /\ {status, overlapped} \subseteq BOOLEAN
  /\ pendingName \in Requests \cup {None} /\ ws \in [Sockets -> SocketStates]
  /\ kind \in [Requests -> RequestKinds \cup {"none"}] /\ on \in [Requests -> Sockets \cup {None}]
  /\ outstanding \subseteq Requests /\ saved \subseteq Requests \X (Requests \cup {None})
  /\ seen \in [Tcp -> Seq(Seq(Units))]
  /\ up \in [Sockets -> Seq(Notes)]
  /\ down \in [Sockets -> Seq(Messages)]
  /\ gone \subseteq Sockets /\ connections \in [Sockets -> Tcp \cup {None}]
  /\ tcp \in [Tcp -> TcpStates] /\ wsOf \in [Tcp -> Sockets \cup {None}]
  /\ buffer \in [Tcp -> {units \in Seq(Units) : Len(units) <= HeaderUnits}]
  /\ log \in [Tcp -> Seq(Requests)] /\ served \in [Tcp -> Nat] /\ out \in [Tcp -> Seq(Units)]
  /\ \A t \in Tcp : served[t] <= Len(log[t])
  /\ serve \in [Tcp -> {"serving", "astray", "left", "closed"}]

\* However a stream is cut into data events, what the page handles from one
\* connection is, whole and in order, the replies to the requests that were sent on
\* it, up to the first text that is not all ASCII.
AnsweredInOrder ==
  \A t \in Tcp : \A i \in DOMAIN seen[t] :
    (\A j \in 1..i - 1 : j \in DOMAIN log[t] => kind[log[t][j]] # "wide") =>
      /\ i \in DOMAIN log[t]
      /\ \E what \in {"text", "file", "error"} : seen[t][i] = Reply(Answer(log[t][i], what))

\* The map leads to connections that live and are its WebSocket's.  One that lives
\* and is not led to, or outlives its WebSocket, was made by one of two connects on
\* that WebSocket, or its callback came after the WebSocket was closed.
MapLeadsToLive ==
  LET Twin(t) == \E u \in Tcp \ {t} : tcp[u] # "new" /\ wsOf[u] = wsOf[t]
  IN  /\ \A w \in Sockets : connections[w] # None =>
           connections[w] \in Live /\ wsOf[connections[w]] = w
      /\ \A t \in Live : connections[wsOf[t]] # t => Twin(t)
      /\ \A t \in Tcp : tcp[t] = "connected" /\ wsOf[t] \in gone => Twin(t)

\* If files are asked for one after the other, each is saved under its own name,
\* whatever other requests, errors, reconnections and exceptions come between.
SavedUnderItsName == overlapped \/ \A file \in saved : file[1] = file[2]

\* If the server has workers for its connections, a request that was sent has a reply
\* in the end, unless its WebSocket or its connection is closed, or the server has
\* left the connection or is out of step on it: after a text that is not all ASCII,
\* and after a retrieve that joined another page's transfer too late or differs from
\* it.  The user who asks again on the same connection waits for ever then.
EveryRequestAnswered ==
  WorkersFree => \A r \in Requests :
    r \in outstanding ~>
      \/ r \notin outstanding \/ ws[on[r]] # "open"
      \/ \E t \in Tcp : r \in ToSet(log[t]) /\ (t \notin Live \/ serve[t] # "serving")
================================================================================
