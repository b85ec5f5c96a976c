---------------------------- MODULE Connections ----------------------------
(***************************************************************************)
(* Connections of AS2: main of wbs379.c accepts them and starts a thread   *)
(* for each, which reads requests and writes replies (thread_connections); *)
(* at the other end is wbc379.c, which asks and waits by turns.            *)
(*                                                                         *)
(* What a request asks for and a reply says is EntryLock's business: here  *)
(* a reply is the number of the request it answers, 0 for the greeting.  A *)
(* message is written and read whole, but one read of the client may take  *)
(* several replies at once.  The kernel's part is modelled as Linux does   *)
(* it: accept gives the lowest free descriptor; a read holds on to the     *)
(* connection it was called on although the descriptor is closed meanwhile;*)
(* the first write to a connection whose client has closed it is lost and  *)
(* may bring a reset, after which a write may raise SIGPIPE.               *)
(***************************************************************************)
EXTENDS Integers, Sequences, FiniteSets, FiniteSetsExt

CONSTANTS
  Clients,       \* the runs of wbc379
  NoClient,      \* a free descriptor's connection
  MaxRequests    \* bound: MaxRequests[c] is how many requests client c makes

ASSUME ClientsAssumption == IsFiniteSet(Clients) /\ NoClient \notin Clients
ASSUME RequestsAssumption == MaxRequests \in [Clients -> Nat]

Fds     == 1 .. Cardinality(Clients)
Threads == 1 .. Cardinality(Clients)

VARIABLES
  patient,    \* whether clients connect one at a time: set once
  mainPc,     \* where main is: "accept" or "create"
  snew,       \* the descriptor accept has returned last
  table,      \* table[fd]: the connection behind descriptor fd, or NoClient
  backlog,    \* the connections not accepted yet
  thread,     \* thread[t]: its pc, socket, request and the connection it reads from
  conn,       \* conn[c]: the connection, as the server's kernel knows it
  toServer,   \* toServer[c]: the requests not read yet
  toClient,   \* toClient[c]: the replies not read yet
  client,     \* client[c]: what the client does
  asked,      \* asked[c]: how many requests the client has made
  shown,      \* shown[c]: the reply the client has shown last
  alive       \* whether the server runs

server  == <<patient, mainPc, snew, table, backlog, thread, alive>>
streams == <<conn, toServer, toClient>>
clients == <<client, asked, shown>>
vars    == <<server, streams, clients>>

NoRequest == [op |-> "none", number |-> 0]
Requests  == [op : {"?", "@"}, number : Nat]

Init ==
  /\ patient \in BOOLEAN
  /\ mainPc = "accept"
  /\ snew = 0
  /\ table = [fd \in Fds |-> NoClient]
  /\ backlog = <<>>
  /\ thread = [t \in Threads |-> [pc |-> "none", sock |-> 0, req |-> NoRequest,
                                  from |-> NoClient]]
  /\ conn = [c \in Clients |-> "none"]
  /\ toServer = [c \in Clients |-> <<>>]
  /\ toClient = [c \in Clients |-> <<>>]
  /\ client = [c \in Clients |-> "away"]
  /\ asked = [c \in Clients |-> 0]
  /\ shown = [c \in Clients |-> 0]
  /\ alive = TRUE

----------------------------------------------------------------------------
(* main *)

\* Mutant of Accept: an accept that fails is taken for a connection.
AcceptUnchecked ==
  /\ alive /\ mainPc = "accept"
  /\ snew' = -1
  /\ mainPc' = "create"
  /\ UNCHANGED <<patient, table, backlog, thread, alive, streams, clients>>

Accept ==
  /\ alive /\ mainPc = "accept" /\ backlog # <<>>
  /\ LET fd == Min({f \in Fds : table[f] = NoClient})
     IN  /\ snew' = fd
         /\ table' = [table EXCEPT ![fd] = Head(backlog)]
  /\ backlog' = Tail(backlog)
  /\ mainPc' = "create"
  /\ UNCHANGED <<patient, thread, alive, streams, clients>>

Unused == {t \in Threads : thread[t].pc = "none"}

\* Mutant of Create: main may go on without another accept.
CreateAgain ==
  /\ alive /\ mainPc = "create" /\ Unused # {}
  /\ thread' = [thread EXCEPT ![Min(Unused)].pc = "created"]
  /\ mainPc' \in {"accept", "create"}
  /\ UNCHANGED <<patient, snew, table, backlog, alive, streams, clients>>

\* pthread_create hands the thread the address of snew, not its value.
Create ==
  /\ alive /\ mainPc = "create" /\ Unused # {}
  /\ thread' = [thread EXCEPT ![Min(Unused)].pc = "created"]
  /\ mainPc' = "accept"
  /\ UNCHANGED <<patient, snew, table, backlog, alive, streams, clients>>

----------------------------------------------------------------------------
(* thread_connections *)

Moves(t, from, to) ==
  /\ alive
  /\ thread[t].pc = from
  /\ thread' = [thread EXCEPT ![t].pc = to]

Start(t) ==
  /\ alive /\ thread[t].pc = "created"
  /\ thread' = [thread EXCEPT ![t].pc = "greet", ![t].sock = snew]
  /\ UNCHANGED <<patient, mainPc, snew, table, backlog, alive, streams, clients>>

\* write of message m to the thread's socket; what it returns is not looked at,
\* or only to end a loop that ends on an error too.
Sends(t, m) ==
  LET c == table[thread[t].sock]
  IN  \/ /\ c = NoClient
         /\ UNCHANGED <<conn, toClient, alive>>
      \/ /\ c # NoClient /\ conn[c] = "open"
         /\ toClient' = [toClient EXCEPT ![c] = Append(@, m)]
         /\ UNCHANGED <<conn, alive>>
      \/ /\ c # NoClient /\ conn[c] = "closed"
         /\ \E s \in {"closed", "reset"} : conn' = [conn EXCEPT ![c] = s]
         /\ UNCHANGED <<toClient, alive>>
      \/ /\ c # NoClient /\ conn[c] = "reset"
         /\ alive' \in BOOLEAN
         /\ UNCHANGED <<conn, toClient>>

Greet(t) ==
  /\ Moves(t, "greet", "call")
  /\ Sends(t, 0)
  /\ UNCHANGED <<patient, mainPc, snew, table, backlog, toServer, clients>>

\* read is called on whatever the socket is at that time.
Call(t) ==
  /\ alive /\ thread[t].pc = "call"
  /\ thread' = [thread EXCEPT ![t].pc = "read", ![t].from = table[thread[t].sock]]
  /\ UNCHANGED <<patient, mainPc, snew, table, backlog, alive, streams, clients>>

\* A request is read.  The reply to a query is written twice, in "first" and in
\* "second", that to an update once.
Request(t) ==
  LET c == thread[t].from
  IN  /\ alive /\ thread[t].pc = "read"
      /\ c # NoClient /\ toServer[c] # <<>>
      /\ thread' = [thread EXCEPT ![t].req = Head(toServer[c]),
           ![t].pc = IF Head(toServer[c]).op = "?" THEN "first" ELSE "second"]
      /\ toServer' = [toServer EXCEPT ![c] = Tail(@)]
      /\ UNCHANGED <<patient, mainPc, snew, table, backlog, alive, conn, toClient, clients>>

Reply(t) ==
  /\ Moves(t, "first", "second")
  /\ Sends(t, thread[t].req.number)
  /\ UNCHANGED <<patient, mainPc, snew, table, backlog, toServer, clients>>

\* Mutant of ReplyAgain: the reply to an update is not written.
ReplyToQueries(t) ==
  /\ Moves(t, "second", "call")
  /\ IF thread[t].req.op = "?" THEN Sends(t, thread[t].req.number)
                               ELSE UNCHANGED <<conn, toClient, alive>>
  /\ UNCHANGED <<patient, mainPc, snew, table, backlog, toServer, clients>>

ReplyAgain(t) ==
  /\ Moves(t, "second", "call")
  /\ Sends(t, thread[t].req.number)
  /\ UNCHANGED <<patient, mainPc, snew, table, backlog, toServer, clients>>

\* read fails, or finds the end of a connection the client has closed.
AtEnd(t) == LET c == thread[t].from
            IN  c # NoClient => toServer[c] = <<>> /\ conn[c] # "open"

\* close(sock): whatever is behind the descriptor by now.
Closes(fd) ==
  LET c == table[fd]
  IN  /\ table' = [table EXCEPT ![fd] = NoClient]
      /\ conn' = [d \in Clients |-> IF d = c /\ conn[d] = "open" THEN "shut" ELSE conn[d]]

HangUp(t) ==
  /\ Moves(t, "read", "ended")
  /\ AtEnd(t)
  /\ Closes(thread[t].sock)
  /\ UNCHANGED <<patient, mainPc, snew, backlog, alive, toServer, toClient, clients>>

----------------------------------------------------------------------------
(* wbc379 *)

\* The server has returned to accept and every thread has read its socket.
Settled == /\ mainPc = "accept" /\ backlog = <<>>
           /\ \A t \in Threads : thread[t].pc # "created"

Connect(c) ==
  /\ alive /\ client[c] = "away"
  /\ patient => Settled
  /\ client' = [client EXCEPT ![c] = "greeting"]
  /\ conn' = [conn EXCEPT ![c] = "open"]
  /\ backlog' = Append(backlog, c)
  /\ UNCHANGED <<patient, mainPc, snew, table, thread, alive, toServer, toClient, asked, shown>>

Ask(c) ==
  /\ alive /\ client[c] = "menu" /\ conn[c] = "open"
  /\ asked[c] < MaxRequests[c]
  /\ asked' = [asked EXCEPT ![c] = @ + 1]
  /\ \E op \in {"?", "@"} :
       toServer' = [toServer EXCEPT ![c] = Append(@, [op |-> op, number |-> asked[c] + 1])]
  /\ client' = [client EXCEPT ![c] = "waiting"]
  /\ UNCHANGED <<server, conn, toClient, shown>>

\* One read takes one reply or more that have come, and the first one counts.
Reads(c) ==
  /\ client[c] \in {"greeting", "waiting"}
  /\ \E k \in 1 .. Len(toClient[c]) :
       toClient' = [toClient EXCEPT ![c] = SubSeq(@, k + 1, Len(@))]
  /\ shown' = [shown EXCEPT ![c] = Head(toClient[c])]
  /\ client' = [client EXCEPT ![c] = "menu"]
  /\ UNCHANGED <<server, conn, toServer, asked>>

\* The server has closed the connection: without a greeting the client gives up.
ReadsEnd(c) ==
  /\ client[c] \in {"greeting", "waiting"}
  /\ conn[c] = "shut" /\ toClient[c] = <<>>
  /\ client' = [client EXCEPT ![c] = IF @ = "greeting" THEN "left" ELSE "menu"]
  /\ UNCHANGED <<server, streams, asked, shown>>

\* Option 2 of the menu.
Exit(c) ==
  /\ client[c] = "menu"
  /\ client' = [client EXCEPT ![c] = "left"]
  /\ conn' = [conn EXCEPT ![c] = IF @ = "open" THEN "closed" ELSE @]
  /\ toClient' = [toClient EXCEPT ![c] = <<>>]
  /\ UNCHANGED <<server, toServer, asked, shown>>

----------------------------------------------------------------------------
ThreadStep(t) == \/ Start(t) \/ Greet(t) \/ Call(t) \/ Request(t)
                 \/ Reply(t) \/ ReplyAgain(t) \/ HangUp(t)

ClientStep(c) == Connect(c) \/ Ask(c) \/ Reads(c) \/ ReadsEnd(c) \/ Exit(c)

Next == \/ Accept \/ Create
        \/ \E t \in Threads : ThreadStep(t)
        \/ \E c \in Clients : ClientStep(c)

Spec == Init /\ [][Next]_vars

\* main and the threads keep being scheduled, and a client reads what has come;
\* nobody has to connect, to ask or to leave.
Fairness == /\ WF_vars(Accept \/ Create)
            /\ \A t \in Threads : WF_vars(ThreadStep(t))
            /\ \A c \in Clients : WF_vars(Reads(c) \/ ReadsEnd(c))

FairSpec == Spec /\ Fairness

----------------------------------------------------------------------------
(* Properties *)

Serving == {t \in Threads : thread[t].pc \notin {"none", "created", "ended"}}

TypeOK ==
  /\ patient \in BOOLEAN
  /\ mainPc \in {"accept", "create"}
  /\ snew \in Fds \cup {0}
  /\ table \in [Fds -> Clients \cup {NoClient}]
  /\ backlog \in Seq(Clients)
  /\ thread \in [Threads ->
       [pc : {"none", "created", "greet", "call", "read", "first", "second", "ended"},
        sock : Fds \cup {0}, req : Requests \cup {NoRequest}, from : Clients \cup {NoClient}]]
  /\ conn \in [Clients -> {"none", "open", "closed", "reset", "shut"}]
  /\ toServer \in [Clients -> Seq(Requests)]
  /\ toClient \in [Clients -> Seq(Nat)]
  /\ client \in [Clients -> {"away", "greeting", "menu", "waiting", "left"}]
  /\ asked \in [Clients -> Nat] /\ \A c \in Clients : asked[c] <= MaxRequests[c]
  /\ shown \in [Clients -> Nat]
  /\ alive \in BOOLEAN

\* If clients connect one at a time, no two threads serve the same socket, no request
\* is answered on another connection than the one it came from, and none is closed
\* whose client is still there: descriptors that are closed and given out again do
\* not mix clients up.
OneThreadEach ==
  patient =>
    /\ \A t, u \in Serving : thread[t].sock = thread[u].sock => t = u
    /\ \A t \in Serving : thread[t].pc \in {"first", "second"}
                            => table[thread[t].sock] = thread[t].from
    /\ \A c \in Clients : conn[c] # "shut"

\* "The server should only exit upon receiving the SIGTERM signal"
\* (AS2/README.txt:15): no client that asks, reads an answer and leaves by its
\* menu takes the server with it.
ServerStays == alive

Waits(c) == client[c] \in {"greeting", "waiting"}

\* If clients connect one at a time, every client that waits for its greeting or
\* for a reply gets one, unless the server has died.
PatientAnswered ==
  \A c \in Clients : patient /\ Waits(c) ~> client[c] = "menu" \/ ~ alive

\* Clients that connect at the same time get theirs too ("Upon opening the
\* client, the server will tell you how many entries are in the whiteboard",
\* AS2/README.txt:20-21).
AlwaysAnswered == \A c \in Clients : Waits(c) ~> client[c] = "menu" \/ ~ alive

\* What the client shows for its last request is the reply to it ("This will
\* return the entry number and size as well as the information that is stored
\* in the selected entry", AS2/README.txt:24-25).
AnswersMatch == \A c \in Clients : client[c] = "menu" => shown[c] = asked[c]
=============================================================================
