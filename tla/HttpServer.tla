----------------------------- MODULE HttpServer -----------------------------
(***************************************************************************)
(* The HTTP server of yhs.c on the path rcoind uses: one thread that       *)
(* accepts a connection, reads a request byte by byte, calls the handler,  *)
(* sends the response and closes.  It shares the table of file descriptors *)
(* of the process with the miner, whose writes to the database open and    *)
(* close a journal (the database library is external).                     *)
(***************************************************************************)
EXTENDS Integers, Sequences, Functions

CONSTANTS
  Client,       \* connections; a client that comes again is another one
  Fd,           \* file descriptors left for sockets and journals
  MaxRequest,   \* MAX_REQUEST_SIZE (8192)
  MaxContent,   \* bound: Content-Length of a request
  NoClient, Journal, Listener   \* what else a descriptor may belong to

ASSUME HttpAssumption ==
  /\ Fd \subseteq Nat
  /\ MaxRequest \in Nat /\ MaxContent \in Nat \ {0}
  /\ {NoClient, Journal, Listener} \cap Client = {} /\ Journal # Listener

INVALID_SOCKET == -1

VARIABLES
  place,        \* what the server thread does next
  listen_sock,  \* server->listen_sock
  sock,         \* re->sock
  serving,      \* the client whose request is handled
  size,         \* bytes read so far, of the header or of the content
  content,      \* Content-Length; 0 for a handler that reads none
  owner,        \* the descriptor table: fd |-> what is open there
  backlog,      \* clients that have connected and are not accepted
  gone,         \* clients that have hung up
  status,       \* client |-> "new", "waiting" until a response is sent, "sent"
  journal,      \* the descriptor of the miner's journal, or INVALID_SOCKET
  crossed       \* history: the miner got the number of a closed connection
                \* that the server was going to close again

vars == <<place, listen_sock, sock, serving, size, content, owner, backlog, gone,
          status, journal, crossed>>
env == <<backlog, gone, journal, crossed>>
request == <<listen_sock, sock, serving, size, content>>

Goto(l) == place' = l

\* accept and open return the lowest number that is free.
IsNext(f) ==
  /\ f \in Fd \ DOMAIN owner
  /\ \A g \in Fd \ DOMAIN owner : f <= g

Open(f, what) == owner' = [g \in DOMAIN owner \cup {f} |-> IF g = f THEN what ELSE owner[g]]

\* close(2) of a number that is not open does nothing.
Close(f) == owner' = [g \in DOMAIN owner \ {f} |-> owner[g]]

\* The descriptor is the connection of the client that is served.
Connected == sock \in DOMAIN owner /\ owner[sock] = serving

CanReceive == Connected /\ serving \notin gone
-----------------------------------------------------------------------------
(* accept_new_connections *)

\* create_listen_socket returns the socket, INVALID_SOCKET for a failure:
\* yhs_update takes both for success.
Listen ==
  /\ place = "start"
  /\ \/ \E f \in Fd : IsNext(f) /\ listen_sock' = f /\ Open(f, Listener)
     \/ listen_sock' = INVALID_SOCKET /\ UNCHANGED owner
  /\ Goto("accept")
  /\ UNCHANGED <<sock, serving, size, content, status, env>>

Accept ==
  /\ place = "accept"
  /\ backlog # <<>>
  /\ \E f \in Fd : IsNext(f) /\ sock' = f /\ Open(f, Head(backlog))
  /\ serving' = Head(backlog) /\ backlog' = Tail(backlog)
  /\ size' = 0 /\ content' = 0
  /\ Goto("header")
  /\ UNCHANGED <<listen_sock, status, gone, journal, crossed>>

\* Mutant: behind the end of the buffer reading goes on at its start.
ReadByte_Wrap ==
  /\ place = "header" /\ CanReceive
  /\ size' = (size + 1) % MaxRequest
  /\ UNCHANGED <<place, listen_sock, sock, serving, content, owner, status, env>>

ReadByte ==
  /\ place = "header" /\ CanReceive
  /\ size < MaxRequest
  /\ size' = size + 1
  /\ UNCHANGED <<place, listen_sock, sock, serving, content, owner, status, env>>

\* The byte was the last of an empty line.
HeaderEnd ==
  /\ place = "header" /\ CanReceive
  /\ size < MaxRequest
  /\ size' = 0
  /\ Goto("route")
  /\ UNCHANGED <<listen_sock, sock, serving, content, owner, status, env>>

\* Mutant: the connection is closed without a response.
HeaderFail_Silent ==
  /\ place = "header"
  /\ Goto("close")
  /\ UNCHANGED <<request, owner, status, env>>

\* No byte for ten seconds, too many bytes, the end of the stream, or an
\* error of select or recv.
HeaderFail ==
  /\ place = "header"
  /\ Goto("error500")
  /\ UNCHANGED <<request, owner, status, env>>

\* process_request_header and find_handler_for_res_path: no handler for the
\* path and the method; one that is done with what it has; or one that
\* reads a form.
Route ==
  /\ place = "route"
  /\ \E n \in 0 .. MaxContent :
       /\ content' = n
       /\ Goto(IF n = 0 THEN "handler" ELSE "content")
  /\ UNCHANGED <<listen_sock, sock, serving, size, owner, status, env>>

RouteFail ==
  /\ place = "route"
  /\ Goto("error404")
  /\ UNCHANGED <<request, owner, status, env>>

ReadContent ==
  /\ place = "content" /\ CanReceive /\ size < content
  /\ size' = size + 1
  /\ Goto(IF size' = content THEN "handler" ELSE "content")
  /\ UNCHANGED <<listen_sock, sock, serving, content, owner, status, env>>

\* yhs_get_content: no byte for ten seconds, or the client is gone.
ContentFail ==
  /\ place = "content"
  /\ Goto("error404")
  /\ UNCHANGED <<request, owner, status, env>>

\* The handler fills the buffer, or returns without a response: the request
\* is not local, or a field is missing.
Handle ==
  /\ place = "handler"
  /\ Goto("send") \/ Goto("error404")
  /\ UNCHANGED <<request, owner, status, env>>

\* The handler is that of /status or /getblocktemplate, which read no form,
\* and spins in read_block for ever: it met the miner there (module ReadLock).
Hang ==
  /\ place = "handler" /\ content = 0
  /\ Goto("hung")
  /\ UNCHANGED <<request, owner, status, env>>

Error ==
  /\ place \in {"error500", "error404"}
  /\ Goto("send")
  /\ UNCHANGED <<request, owner, status, env>>

\* flush_data, send_unbuffered_bytes.
Send ==
  /\ place = "send" /\ Connected
  /\ status' = [status EXCEPT ![serving] = "sent"]
  /\ Goto("close")
  /\ UNCHANGED <<request, owner, env>>

\* A response longer than the kernel buffers, a block template: send waits
\* for the client, without a timeout.
Stall ==
  /\ place = "send" /\ Connected
  /\ Goto("stalled")
  /\ UNCHANGED <<request, owner, status, env>>

\* Mutant: re->sock keeps the number.
SendFail_Keep ==
  /\ place \in {"send", "stalled"} /\ (~Connected \/ serving \in gone)
  /\ Close(sock)
  /\ Goto("close")
  /\ UNCHANGED <<request, status, env>>

\* close_connection_forcibly within the send.
SendFail ==
  /\ place \in {"send", "stalled"} /\ (~Connected \/ serving \in gone)
  /\ Close(sock) /\ sock' = INVALID_SOCKET
  /\ Goto("close")
  /\ UNCHANGED <<listen_sock, serving, size, content, status, env>>

\* close_connection_cleanly closes the socket first (yhs.c:1626), ...
CloseCleanly ==
  /\ place = "close"
  /\ Close(sock)
  /\ Goto("drain")
  /\ UNCHANGED <<request, status, env>>

\* ... then reads from its number until that fails, which it does at once: a
\* closed descriptor and a journal are no sockets, ...
Drain ==
  /\ place = "drain"
  /\ Goto("forcibly")
  /\ UNCHANGED <<request, owner, status, env>>

\* ... then closes what has the number now (close_connection_forcibly).
CloseForcibly ==
  /\ place = "forcibly"
  /\ Close(sock) /\ sock' = INVALID_SOCKET
  /\ serving' = NoClient /\ size' = 0 /\ content' = 0
  /\ Goto("accept")
  /\ UNCHANGED <<listen_sock, status, env>>

Server ==
  \/ Listen \/ Accept \/ ReadByte \/ HeaderEnd \/ HeaderFail \/ Route \/ RouteFail
  \/ ReadContent \/ ContentFail \/ Handle \/ Hang \/ Error \/ Send \/ Stall
  \/ SendFail \/ CloseCleanly \/ Drain \/ CloseForcibly
-----------------------------------------------------------------------------
(* The clients and the miner *)

Connect(x) ==
  /\ listen_sock \in DOMAIN owner /\ status[x] = "new"
  /\ backlog' = Append(backlog, x)
  /\ status' = [status EXCEPT ![x] = "waiting"]
  /\ UNCHANGED <<place, request, owner, gone, journal, crossed>>

\* The client of a long response reads on.
ReadOn ==
  /\ place = "stalled" /\ serving \notin gone
  /\ Goto("send")
  /\ UNCHANGED <<request, owner, status, env>>

HangUp(x) ==
  /\ status[x] = "waiting" /\ x \notin gone
  /\ gone' = gone \cup {x}
  /\ UNCHANGED <<place, request, owner, backlog, status, journal, crossed>>

OpenJournal ==
  /\ journal = INVALID_SOCKET
  /\ \E f \in Fd : IsNext(f) /\ journal' = f /\ Open(f, Journal)
  /\ crossed' = (crossed \/ (place \in {"drain", "forcibly"} /\ journal' = sock))
  /\ UNCHANGED <<place, request, backlog, gone, status>>

CloseJournal ==
  /\ journal # INVALID_SOCKET
  /\ Close(journal) /\ journal' = INVALID_SOCKET
  /\ UNCHANGED <<place, request, backlog, gone, status, crossed>>

Init ==
  /\ place = "start" /\ listen_sock = INVALID_SOCKET /\ sock = INVALID_SOCKET
  /\ serving = NoClient /\ size = 0 /\ content = 0
  /\ owner = <<>> /\ backlog = <<>> /\ gone = {}
  /\ status = [x \in Client |-> "new"]
  /\ journal = INVALID_SOCKET /\ crossed = FALSE

Next ==
  \/ Server \/ ReadOn \/ OpenJournal \/ CloseJournal
  \/ \E x \in Client : Connect(x) \/ HangUp(x)

Spec == Init /\ [][Next]_vars

\* The server thread goes on, unless its handler hangs; the miner closes a
\* journal it has opened; no client ever has to do anything.
FairSpec == Spec /\ WF_vars(Server) /\ WF_vars(CloseJournal)
-----------------------------------------------------------------------------
\* A thread works on its own descriptor: the journal the miner writes is the
\* file it opened, the connection the server reads and answers is that of
\* the client, and requests keep coming in.  The one exception begins where
\* the server closes a connection twice and the miner opens its journal in
\* between: the second close hits the journal, and from then on each may
\* close what the other one has opened.
DescriptorsAreOwn ==
  ~crossed =>
    /\ journal # INVALID_SOCKET => journal \in DOMAIN owner /\ owner[journal] = Journal
    /\ place \notin {"drain", "forcibly"} /\ sock # INVALID_SOCKET => Connected
    /\ listen_sock # INVALID_SOCKET =>
         listen_sock \in DOMAIN owner /\ owner[listen_sock] = Listener

\* A client the server is done with has its response, the failed request
\* too, unless it hung up or its descriptor was lost.
NobodyIsForgotten ==
  \A x \in Client :
    status[x] = "waiting" /\ x # serving /\ x \notin Range(backlog) => x \in gone \/ crossed

\* However slowly a client sends, and whatever becomes of its descriptor, its
\* connection is over some time and those that wait get their turn.  Two
\* things stop the server: a client that does not read a long response, and a
\* handler that met the miner in read_block.
EverybodyGetsATurn ==
  \A x \in Client :
    x \in Range(backlog) ~>
      (x \notin Range(backlog) /\ serving # x) \/ place \in {"stalled", "hung"}
=============================================================================
