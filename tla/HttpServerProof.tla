-------------------------- MODULE HttpServerProof --------------------------
(***************************************************************************)
(* The descriptors and the clients of the HTTP server, for any number of   *)
(* clients and descriptors and requests of any length.                     *)
(***************************************************************************)
EXTENDS HttpServer, TLAPS

\* The connection has been, or is about to be, closed.
Closing == {"close", "drain", "forcibly"}
Serving == {"header", "route", "content", "handler", "error500", "error404",
            "hung", "send", "stalled"} \cup Closing

Number == Fd \cup {INVALID_SOCKET}

HttpTypes ==
  /\ place \in {"start", "accept"} \cup Serving
  /\ DOMAIN owner \subseteq Fd
  /\ listen_sock \in Number /\ sock \in Number /\ journal \in Number
  /\ backlog \in Seq(Client) /\ gone \subseteq Client
  /\ status \in [Client -> {"new", "waiting", "sent"}]
  /\ crossed \in BOOLEAN

Phases ==
  /\ place = "start" => listen_sock = INVALID_SOCKET
  /\ place \in {"start", "accept"} => sock = INVALID_SOCKET /\ serving = NoClient
  /\ place \in Serving => serving \in Client
  /\ place \in Serving \ Closing => sock \in Fd

\* Between its two closes the server's number is free.
FirstCloseHolds ==
  ~crossed /\ place \in {"drain", "forcibly"} => sock \notin DOMAIN owner

\* A connection that is being closed has its response, or never will.
ClosingIsDone ==
  place \in Closing => status[serving] # "waiting" \/ serving \in gone \/ crossed

\* Only a client that has connected is waiting or served.
ConnectedOnce ==
  /\ \A x \in Range(backlog) : status[x] # "new"
  /\ place \in Serving => status[serving] # "new"

HttpInv ==
  /\ HttpTypes /\ Phases /\ DescriptorsAreOwn /\ FirstCloseHolds
  /\ NobodyIsForgotten /\ ClosingIsDone /\ ConnectedOnce

\* Nothing is open, and nobody has connected.
LEMMA HttpInit == Init => HttpInv
<1> SUFFICES ASSUME Init PROVE HttpInv
  OBVIOUS
<1>1. /\ owner = <<>> /\ backlog = <<>> /\ gone = {} /\ crossed = FALSE /\ place = "start"
      /\ listen_sock = INVALID_SOCKET /\ sock = INVALID_SOCKET /\ journal = INVALID_SOCKET
      /\ serving = NoClient /\ status = [x \in Client |-> "new"]
  BY DEF Init
<1>2. DOMAIN owner = {} /\ backlog \in Seq(Client)
  BY <1>1
<1>3. HttpTypes
  BY <1>1, <1>2 DEF HttpTypes, Number
<1>4. Phases /\ DescriptorsAreOwn /\ FirstCloseHolds /\ NobodyIsForgotten /\ ClosingIsDone
  BY <1>1 DEF Phases, DescriptorsAreOwn, FirstCloseHolds, NobodyIsForgotten, ClosingIsDone,
              Serving, Closing
<1>5. ConnectedOnce
  BY <1>1 DEF ConnectedOnce, Range, Serving, Closing
<1>6. QED
  BY <1>3, <1>4, <1>5 DEF HttpInv

\* The number that stands for no descriptor is none.
LEMMA InvalidIsNone == INVALID_SOCKET \notin Fd
  BY HttpAssumption DEF HttpAssumption, INVALID_SOCKET

\* What Open does to the table.
LEMMA Opened ==
  ASSUME NEW f \in Fd, NEW what, IsNext(f), Open(f, what)
  PROVE  /\ f \notin DOMAIN owner
         /\ DOMAIN owner' = DOMAIN owner \cup {f}
         /\ owner'[f] = what
         /\ \A g \in DOMAIN owner : owner'[g] = owner[g]
  BY DEF IsNext, Open

\* What Close does to the table.
LEMMA Closed ==
  ASSUME NEW f, Close(f)
  PROVE  /\ DOMAIN owner' = DOMAIN owner \ {f}
         /\ \A g \in DOMAIN owner \ {f} : owner'[g] = owner[g]
  BY DEF Close

\* A step that goes from one place of a request to another, and changes
\* neither a descriptor nor what anybody waits for.
LEMMA QuietStep ==
  ASSUME HttpInv, place \in Serving \ {"drain", "forcibly"}, place' \in Serving \ Closing,
         place \notin Closing,
         UNCHANGED <<listen_sock, sock, serving, owner, status, env>>
  PROVE  HttpInv'
  BY DEF HttpInv, HttpTypes, Phases, DescriptorsAreOwn, FirstCloseHolds, NobodyIsForgotten,
         ClosingIsDone, ConnectedOnce, Serving, Closing, Connected, env

\* The server's step into the listening state.
LEMMA ListenStep == ASSUME HttpInv, Listen PROVE HttpInv'
<1> USE DEF HttpInv, HttpTypes, Phases, DescriptorsAreOwn, FirstCloseHolds, NobodyIsForgotten,
            ClosingIsDone, ConnectedOnce, Serving, Closing, Connected, env, Number, Goto
<1>1. CASE \E f \in Fd : IsNext(f) /\ listen_sock' = f /\ Open(f, Listener)
  BY <1>1, Opened DEF Listen
<1>2. CASE listen_sock' = INVALID_SOCKET /\ UNCHANGED owner
  BY <1>2 DEF Listen
<1>3. QED
  BY <1>1, <1>2 DEF Listen

\* The first client in the queue is served, the others stay in it.
LEMMA AcceptStep == ASSUME HttpInv, Accept PROVE HttpInv'
<1>1. PICK f \in Fd : IsNext(f) /\ sock' = f /\ Open(f, Head(backlog))
  BY DEF Accept
<1>2. /\ Head(backlog) \in Client /\ Tail(backlog) \in Seq(Client)
      /\ Range(backlog) = {Head(backlog)} \cup Range(Tail(backlog))
  <2>1. backlog \in Seq(Client) /\ backlog # <<>>
    BY DEF HttpInv, HttpTypes, Accept
  <2>2. \A i \in 1 .. Len(Tail(backlog)) : Tail(backlog)[i] = backlog[i + 1]
    BY <2>1
  <2>3. /\ DOMAIN backlog = 1 .. Len(backlog) /\ DOMAIN Tail(backlog) = 1 .. (Len(backlog) - 1)
        /\ Len(backlog) \in Nat \ {0} /\ Head(backlog) = backlog[1]
    BY <2>1
  <2>4. ASSUME NEW x \in Range(backlog) PROVE x \in {Head(backlog)} \cup Range(Tail(backlog))
    <3>1. PICK i \in 1 .. Len(backlog) : x = backlog[i]
      BY <2>3, <2>4 DEF Range
    <3>2. CASE i = 1
      BY <3>1, <3>2, <2>3
    <3>3. CASE i # 1
      <4>1. i - 1 \in DOMAIN Tail(backlog) /\ Tail(backlog)[i - 1] = x
        BY <3>1, <3>3, <2>1, <2>3
      <4>2. QED
        BY <4>1 DEF Range
    <3>4. QED
      BY <3>2, <3>3
  <2>5. ASSUME NEW x \in Range(Tail(backlog)) PROVE x \in Range(backlog)
    <3>1. PICK i \in 1 .. (Len(backlog) - 1) : x = Tail(backlog)[i]
      BY <2>3, <2>5 DEF Range
    <3>2. i + 1 \in DOMAIN backlog /\ backlog[i + 1] = x
      BY <3>1, <2>1, <2>3
    <3>3. QED
      BY <3>2 DEF Range
  <2>6. Head(backlog) \in Range(backlog)
    BY <2>3 DEF Range
  <2>7. QED
    BY <2>1, <2>4, <2>5, <2>6
<1>3. /\ place = "accept" /\ place' = "header" /\ backlog' = Tail(backlog)
      /\ serving' = Head(backlog)
      /\ UNCHANGED <<listen_sock, status, gone, journal, crossed>>
  BY DEF Accept, Goto
<1>4. HttpTypes' /\ Phases'
  BY <1>1, <1>2, <1>3, Opened DEF HttpInv, HttpTypes, Phases, Serving, Closing, Number
<1>5. DescriptorsAreOwn' /\ FirstCloseHolds' /\ ClosingIsDone'
  BY <1>1, <1>3, Opened
  DEF HttpInv, DescriptorsAreOwn, FirstCloseHolds, ClosingIsDone, Connected, Closing
<1>6. NobodyIsForgotten' /\ ConnectedOnce'
  BY <1>2, <1>3, HttpAssumption DEF HttpInv, Phases, NobodyIsForgotten, ConnectedOnce, HttpAssumption
<1>7. QED
  BY <1>4, <1>5, <1>6 DEF HttpInv

\* The response goes out.
LEMMA SendStep == ASSUME HttpInv, Send PROVE HttpInv'
<1>1. /\ place = "send" /\ place' = "close" /\ serving \in Client
      /\ status' = [status EXCEPT ![serving] = "sent"]
      /\ UNCHANGED <<listen_sock, sock, serving, owner, backlog, gone, journal, crossed>>
  BY DEF Send, Goto, request, env, HttpInv, Phases, Serving
<1>2. HttpTypes' /\ Phases' /\ ClosingIsDone'
  BY <1>1 DEF HttpInv, HttpTypes, Phases, ClosingIsDone, Serving, Closing
<1>3. DescriptorsAreOwn' /\ FirstCloseHolds'
  BY <1>1 DEF HttpInv, DescriptorsAreOwn, FirstCloseHolds, Connected
<1>4. NobodyIsForgotten' /\ ConnectedOnce'
  BY <1>1 DEF HttpInv, HttpTypes, NobodyIsForgotten, ConnectedOnce, Serving, Closing
<1>5. QED
  BY <1>2, <1>3, <1>4 DEF HttpInv

\* A descriptor of the server's own is closed: the listener's and the
\* journal's are others.
LEMMA OthersStayOpen ==
  ASSUME HttpInv, ~crossed, Close(sock), sock = INVALID_SOCKET \/ sock \notin DOMAIN owner \/ Connected,
         serving \in Client \cup {NoClient}, sock \in DOMAIN owner => serving \in Client,
         UNCHANGED <<listen_sock, journal>>
  PROVE  /\ journal # INVALID_SOCKET => journal \in DOMAIN owner' /\ owner'[journal] = Journal
         /\ listen_sock # INVALID_SOCKET =>
              listen_sock \in DOMAIN owner' /\ owner'[listen_sock] = Listener
<1>1. /\ DOMAIN owner' = DOMAIN owner \ {sock}
      /\ \A g \in DOMAIN owner \ {sock} : owner'[g] = owner[g]
  BY Closed
<1>2. ASSUME NEW g \in DOMAIN owner, owner[g] \in {Journal, Listener} PROVE g # sock
  BY <1>2, InvalidIsNone, HttpAssumption DEF HttpInv, HttpTypes, Connected, HttpAssumption
<1>3. QED
  BY <1>1, <1>2 DEF HttpInv, DescriptorsAreOwn

\* The send failed: whose descriptor it was is clear, unless two were mixed
\* up before.
LEMMA SendFailStep == ASSUME HttpInv, SendFail PROVE HttpInv'
<1>1. /\ place \in {"send", "stalled"} /\ place' = "close" /\ serving \in Client
      /\ sock' = INVALID_SOCKET /\ Close(sock)
      /\ UNCHANGED <<listen_sock, serving, status, backlog, gone, journal, crossed>>
  BY DEF SendFail, Goto, env, HttpInv, Phases, Serving
<1>2. ~crossed => sock = INVALID_SOCKET \/ Connected
  BY <1>1 DEF HttpInv, DescriptorsAreOwn
<1>3. HttpTypes' /\ Phases'
  BY <1>1, Closed DEF HttpInv, HttpTypes, Phases, Serving, Closing, Number
<1>4. DescriptorsAreOwn'
  BY <1>1, <1>2, OthersStayOpen DEF DescriptorsAreOwn
<1>5. FirstCloseHolds' /\ NobodyIsForgotten' /\ ConnectedOnce'
  BY <1>1 DEF HttpInv, FirstCloseHolds, NobodyIsForgotten, ConnectedOnce, Serving
<1>6. ClosingIsDone'
  <2>1. crossed \/ serving \in gone
    BY <1>1, InvalidIsNone DEF SendFail, HttpInv, Phases, DescriptorsAreOwn, Serving, Closing
  <2>2. QED
    BY <1>1, <2>1 DEF ClosingIsDone
<1>7. QED
  BY <1>3, <1>4, <1>5, <1>6 DEF HttpInv

\* The first close: the number is free from now on.
LEMMA CloseStep == ASSUME HttpInv, CloseCleanly PROVE HttpInv'
<1>1. /\ place = "close" /\ place' = "drain" /\ serving \in Client /\ Close(sock)
      /\ UNCHANGED <<listen_sock, sock, serving, status, backlog, gone, journal, crossed>>
  BY DEF CloseCleanly, Goto, request, env, HttpInv, Phases, Serving, Closing
<1>2. ~crossed => sock = INVALID_SOCKET \/ Connected
  BY <1>1 DEF HttpInv, DescriptorsAreOwn
<1>3. HttpTypes' /\ Phases'
  BY <1>1, Closed DEF HttpInv, HttpTypes, Phases, Serving, Closing
<1>4. DescriptorsAreOwn' /\ FirstCloseHolds'
  BY <1>1, <1>2, OthersStayOpen, Closed DEF DescriptorsAreOwn, FirstCloseHolds
<1>5. NobodyIsForgotten' /\ ClosingIsDone' /\ ConnectedOnce'
  BY <1>1 DEF HttpInv, NobodyIsForgotten, ClosingIsDone, ConnectedOnce, Serving, Closing
<1>6. QED
  BY <1>3, <1>4, <1>5 DEF HttpInv

\* Reading from the number.
LEMMA DrainStep == ASSUME HttpInv, Drain PROVE HttpInv'
  BY DEF Drain, Goto, request, env, HttpInv, HttpTypes, Phases, DescriptorsAreOwn, FirstCloseHolds,
         NobodyIsForgotten, ClosingIsDone, ConnectedOnce, Connected, Serving, Closing

\* The second close: it hits nothing, unless the number was given away.
LEMMA ForciblyStep == ASSUME HttpInv, CloseForcibly PROVE HttpInv'
<1>1. /\ place = "forcibly" /\ place' = "accept" /\ serving \in Client /\ serving' = NoClient
      /\ Close(sock) /\ sock' = INVALID_SOCKET
      /\ UNCHANGED <<listen_sock, status, backlog, gone, journal, crossed>>
  BY DEF CloseForcibly, Goto, env, HttpInv, Phases, Serving, Closing
<1>2. ~crossed => sock \notin DOMAIN owner
  BY <1>1 DEF HttpInv, FirstCloseHolds
<1>3. HttpTypes' /\ Phases'
  BY <1>1, Closed DEF HttpInv, HttpTypes, Phases, Serving, Closing, Number
<1>4. DescriptorsAreOwn'
  BY <1>1, <1>2, OthersStayOpen DEF DescriptorsAreOwn
<1>5. FirstCloseHolds' /\ ClosingIsDone'
  BY <1>1 DEF FirstCloseHolds, ClosingIsDone, Closing
<1>6. NobodyIsForgotten' /\ ConnectedOnce'
  BY <1>1 DEF HttpInv, NobodyIsForgotten, ClosingIsDone, ConnectedOnce, Serving, Closing
<1>7. QED
  BY <1>3, <1>4, <1>5, <1>6 DEF HttpInv

\* The server thread.
LEMMA ServerStep == ASSUME HttpInv, Server PROVE HttpInv'
<1>1. CASE ReadByte \/ HeaderEnd \/ HeaderFail \/ Route \/ RouteFail \/ ReadContent
           \/ ContentFail \/ Handle \/ Hang \/ Error \/ Stall
  <2>1. /\ place \in Serving \ Closing /\ place' \in Serving \ Closing
        /\ UNCHANGED <<listen_sock, sock, serving, owner, status, env>>
    BY <1>1 DEF ReadByte, HeaderEnd, HeaderFail, Route, RouteFail, ReadContent, ContentFail,
                Handle, Hang, Error, Stall, Goto, request, Serving, Closing
  <2>2. QED
    BY <2>1, QuietStep DEF Closing
<1>2. CASE Listen \/ Accept \/ Send \/ SendFail
  BY <1>2, ListenStep, AcceptStep, SendStep, SendFailStep
<1>3. CASE CloseCleanly \/ Drain \/ CloseForcibly
  BY <1>3, CloseStep, DrainStep, ForciblyStep
<1>4. QED
  BY <1>1, <1>2, <1>3 DEF Server

\* A client joins the queue.
LEMMA ConnectStep == ASSUME HttpInv, NEW x \in Client, Connect(x) PROVE HttpInv'
<1>1. /\ status[x] = "new" /\ backlog' = Append(backlog, x)
      /\ status' = [status EXCEPT ![x] = "waiting"]
      /\ UNCHANGED <<place, listen_sock, sock, serving, owner, gone, journal, crossed>>
  BY DEF Connect, request
<1>2. Range(backlog') = Range(backlog) \cup {x}
  <2>1. backlog \in Seq(Client)
    BY DEF HttpInv, HttpTypes
  <2>2. /\ DOMAIN backlog' = 1 .. (Len(backlog) + 1) /\ DOMAIN backlog = 1 .. Len(backlog)
        /\ Len(backlog) \in Nat /\ backlog'[Len(backlog) + 1] = x
        /\ \A i \in 1 .. Len(backlog) : backlog'[i] = backlog[i]
    BY <1>1, <2>1
  <2>3. QED
    BY <2>2 DEF Range
<1>3. HttpTypes' /\ Phases' /\ DescriptorsAreOwn' /\ FirstCloseHolds'
  BY <1>1 DEF HttpInv, HttpTypes, Phases, DescriptorsAreOwn, FirstCloseHolds, Connected
<1>4. NobodyIsForgotten'
  BY <1>1, <1>2 DEF HttpInv, HttpTypes, NobodyIsForgotten
<1>5. ConnectedOnce'
  <2>1. \A y \in Client : status[y] # "new" => status'[y] # "new"
    BY <1>1 DEF HttpInv, HttpTypes
  <2>2. Range(backlog) \subseteq Client
    BY DEF HttpInv, HttpTypes, Range
  <2>3. status'[x] # "new"
    BY <1>1 DEF HttpInv, HttpTypes
  <2>4. QED
    BY <1>1, <1>2, <2>1, <2>2, <2>3 DEF HttpInv, Phases, ConnectedOnce
<1>6. ClosingIsDone'
  <2>1. ASSUME place \in Closing PROVE serving # x /\ serving \in Client
    BY <1>1, <2>1 DEF HttpInv, ConnectedOnce, Phases, Serving
  <2>2. place \in Closing => status'[serving] = status[serving]
    BY <1>1, <2>1 DEF HttpInv, HttpTypes
  <2>3. QED
    BY <1>1, <2>2 DEF HttpInv, ClosingIsDone
<1>7. QED
  BY <1>3, <1>4, <1>5, <1>6 DEF HttpInv

\* A client hangs up.
LEMMA HangUpStep == ASSUME HttpInv, NEW x \in Client, HangUp(x) PROVE HttpInv'
  BY DEF HangUp, request, HttpInv, HttpTypes, Phases, DescriptorsAreOwn, FirstCloseHolds,
         NobodyIsForgotten, ClosingIsDone, ConnectedOnce, Connected

\* The client of a long response reads on.
LEMMA ReadOnStep == ASSUME HttpInv, ReadOn PROVE HttpInv'
<1>1. /\ place \in Serving \ Closing /\ place' \in Serving \ Closing
      /\ UNCHANGED <<listen_sock, sock, serving, owner, status, env>>
  BY DEF ReadOn, Goto, request, Serving, Closing
<1>2. QED
  BY <1>1, QuietStep DEF Closing

\* The miner opens its journal: under a number that is nobody's, or under
\* that of the connection the server closes again.
LEMMA OpenJournalStep == ASSUME HttpInv, OpenJournal PROVE HttpInv'
<1>1. PICK f \in Fd : IsNext(f) /\ journal' = f /\ Open(f, Journal)
  BY DEF OpenJournal
<1>2. UNCHANGED <<place, listen_sock, sock, serving, backlog, gone, status>>
  BY DEF OpenJournal, request
<1>3. crossed' \in BOOLEAN /\ (crossed => crossed')
  BY DEF OpenJournal, HttpInv, HttpTypes
<1>4. HttpTypes' /\ Phases'
  BY <1>1, <1>2, <1>3, Opened DEF HttpInv, HttpTypes, Phases, Number
<1>5. DescriptorsAreOwn'
  BY <1>1, <1>2, <1>3, Opened DEF HttpInv, DescriptorsAreOwn, Connected
<1>6. ~crossed' /\ place \in {"drain", "forcibly"} => sock # f
  BY <1>1 DEF OpenJournal
<1>7. FirstCloseHolds'
  BY <1>1, <1>2, <1>3, <1>6, Opened DEF HttpInv, FirstCloseHolds
<1>8. NobodyIsForgotten' /\ ClosingIsDone' /\ ConnectedOnce'
  BY <1>2, <1>3 DEF HttpInv, NobodyIsForgotten, ClosingIsDone, ConnectedOnce
<1>9. QED
  BY <1>4, <1>5, <1>7, <1>8 DEF HttpInv

\* The miner closes its journal, which is the file it opened.
LEMMA CloseJournalStep == ASSUME HttpInv, CloseJournal PROVE HttpInv'
<1>1. /\ journal # INVALID_SOCKET /\ journal' = INVALID_SOCKET /\ Close(journal)
      /\ UNCHANGED <<place, listen_sock, sock, serving, backlog, gone, status, crossed>>
  BY DEF CloseJournal, request
<1>2. /\ DOMAIN owner' = DOMAIN owner \ {journal}
      /\ \A g \in DOMAIN owner \ {journal} : owner'[g] = owner[g]
  BY <1>1, Closed
<1>3. HttpTypes' /\ Phases'
  BY <1>1, <1>2 DEF HttpInv, HttpTypes, Phases, Number
<1>4. ~crossed => owner[journal] = Journal
  BY <1>1 DEF HttpInv, DescriptorsAreOwn
<1>5. DescriptorsAreOwn'
  <2>1. ASSUME ~crossed, place \notin {"drain", "forcibly"}, sock # INVALID_SOCKET
        PROVE  Connected'
    <3>1. serving \in Client /\ Connected
      BY <2>1 DEF HttpInv, HttpTypes, Phases, DescriptorsAreOwn
    <3>2. sock # journal
      BY <1>4, <2>1, <3>1, HttpAssumption DEF Connected, HttpAssumption
    <3>3. QED
      BY <1>1, <1>2, <3>1, <3>2 DEF Connected
  <2>2. ASSUME ~crossed, listen_sock # INVALID_SOCKET
        PROVE  listen_sock \in DOMAIN owner' /\ owner'[listen_sock] = Listener
    BY <1>2, <1>4, <2>2, HttpAssumption DEF HttpInv, DescriptorsAreOwn, HttpAssumption
  <2>3. QED
    BY <1>1, <2>1, <2>2 DEF DescriptorsAreOwn
<1>6. FirstCloseHolds' /\ NobodyIsForgotten' /\ ClosingIsDone' /\ ConnectedOnce'
  BY <1>1, <1>2 DEF HttpInv, FirstCloseHolds, NobodyIsForgotten, ClosingIsDone, ConnectedOnce
<1>7. QED
  BY <1>3, <1>5, <1>6 DEF HttpInv

\* Every step, and the step that changes nothing.
LEMMA HttpStep == HttpInv /\ [Next]_vars => HttpInv'
<1> SUFFICES ASSUME HttpInv, [Next]_vars PROVE HttpInv'
  OBVIOUS
<1>1. CASE Server
  BY <1>1, ServerStep
<1>2. CASE ReadOn \/ OpenJournal \/ CloseJournal
  BY <1>2, ReadOnStep, OpenJournalStep, CloseJournalStep
<1>3. CASE \E x \in Client : Connect(x) \/ HangUp(x)
  BY <1>3, ConnectStep, HangUpStep
<1>4. CASE UNCHANGED vars
  BY <1>4 DEF vars, HttpInv, HttpTypes, Phases, DescriptorsAreOwn, FirstCloseHolds,
              NobodyIsForgotten, ClosingIsDone, ConnectedOnce, Connected
<1>5. QED
  BY <1>1, <1>2, <1>3, <1>4 DEF Next

\* The server and the miner close nothing of each other's, and no client the
\* server is done with lacks a response, until the miner opens its journal
\* between the two closes of a connection (yhs.c:1626, yhs.c:1640).
THEOREM HttpSafe == Spec => [](DescriptorsAreOwn /\ NobodyIsForgotten)
<1>1. HttpInv => DescriptorsAreOwn /\ NobodyIsForgotten
  BY DEF HttpInv
<1>2. QED
  BY <1>1, HttpInit, HttpStep, PTL DEF Spec
=============================================================================
