------------------------- MODULE ConnectionsProofs -------------------------
(***************************************************************************)
(* Proofs about Connections, for any number of clients and requests: the   *)
(* types, and that clients which connect one at a time have a thread each. *)
(***************************************************************************)
EXTENDS Connections, FiniteSetTheorems, WellFoundedInduction, TLAPS

\* A connection is behind one descriptor at most, or waits to be accepted.
Placed ==
  /\ \A fd, gd \in Fds : table[fd] = table[gd] /\ table[fd] # NoClient => fd = gd
  /\ \A j, k \in 1 .. Len(backlog) : backlog[j] = backlog[k] => j = k
  /\ \A k \in 1 .. Len(backlog), fd \in Fds : table[fd] # backlog[k]
  /\ \A c \in Clients : client[c] = "away" =>
       /\ \A fd \in Fds : table[fd] # c
       /\ \A k \in 1 .. Len(backlog) : backlog[k] # c

NoneCreated == \A t \in Threads : thread[t].pc # "created"

\* Whoever reads snew, main for a new thread or the thread, finds a descriptor there.
Sockets ==
  /\ mainPc = "create" \/ (\E t \in Threads : thread[t].pc # "none") => snew \in Fds
  /\ \A t \in Serving : thread[t].sock \in Fds

\* One connection is on its way from the backlog to a thread, and nobody else's
\* descriptor is in snew meanwhile.
OneComes ==
  /\ Len(backlog) <= 1
  /\ backlog # <<>> => mainPc = "accept" /\ NoneCreated
  /\ mainPc = "create" => NoneCreated
  /\ \A t, u \in Threads : thread[t].pc = "created" /\ thread[u].pc = "created" => t = u
  /\ mainPc = "create" \/ ~ NoneCreated =>
       table[snew] # NoClient /\ \A t \in Serving : thread[t].sock # snew

\* A thread's descriptor is its own, and stays that of the connection it reads from.
OwnSockets ==
  /\ \A t, u \in Serving : thread[t].sock = thread[u].sock => t = u
  /\ \A t \in Serving :
       /\ table[thread[t].sock] # NoClient
       /\ thread[t].pc \in {"read", "first", "second"} => thread[t].from = table[thread[t].sock]
  /\ \A c \in Clients : conn[c] # "shut"

IInv == TypeOK /\ Placed /\ Sockets /\ (patient => OneComes /\ OwnSockets)

----------------------------------------------------------------------------

LEMMA Counts == Cardinality(Clients) \in Nat /\ Fds \subseteq Nat \ {0} /\ Threads \subseteq Nat \ {0}
<1>1. Cardinality(Clients) \in Nat
  BY ClientsAssumption, FS_CardinalityType
<1> QED
  BY <1>1 DEF Fds, Threads

LEMMA MinIsLeast ==
  ASSUME NEW S \in SUBSET Nat, S # {}
  PROVE  Min(S) \in S
<1>1. PICK x \in S : \A y \in S : <<y, x>> \notin OpToRel(<, Nat)
  BY NatLessThanWellFounded, WFMin, Zenon
<1>2. ASSUME NEW y \in S, y < x PROVE FALSE
  <2>1. <<y, x>> \in Nat \X Nat /\ <<y, x>>[1] < <<y, x>>[2]
    BY <1>2
  <2>2. <<y, x>> \in OpToRel(<, Nat)
    BY <2>1, Zenon DEF OpToRel
  <2> QED
    BY <1>1, <2>2
<1>3. \A y \in S : x <= y
  BY <1>2
<1> QED
  BY <1>3 DEF Min

\* As a connection that waits has no descriptor, there is a free one for it.
LEMMA FreeDescriptor ==
  ASSUME TypeOK, Placed, backlog # <<>>
  PROVE  Min({f \in Fds : table[f] = NoClient}) \in {f \in Fds : table[f] = NoClient}
<1> DEFINE c == Head(backlog)
           Others == Clients \ {c}
<1>1. c \in Clients /\ c = backlog[1] /\ 1 \in 1 .. Len(backlog)
  BY DEF TypeOK
<1>2. /\ IsFiniteSet(Others) /\ Cardinality(Others) = Cardinality(Clients) - 1
  BY <1>1, ClientsAssumption, FS_RemoveElement
<1>3. IsFiniteSet(Fds) /\ Cardinality(Fds) = Cardinality(Clients)
  <2>1. Cardinality(Clients) \in Nat
    BY Counts
  <2>2. /\ IsFiniteSet(1 .. Cardinality(Clients))
        /\ Cardinality(1 .. Cardinality(Clients))
             = IF 1 > Cardinality(Clients) THEN 0 ELSE Cardinality(Clients) - 1 + 1
    BY <2>1, FS_Interval
  <2> QED
    BY <2>1, <2>2 DEF Fds
<1>4. ASSUME \A f \in Fds : table[f] # NoClient PROVE FALSE
  <2>1. table \in [Fds -> Others]
    BY <1>1, <1>4 DEF TypeOK, Placed
  <2>2. Cardinality(Others) < Cardinality(Fds)
    BY <1>2, <1>3, Counts
  <2>3. \E f, g \in Fds : f # g /\ table[f] = table[g]
    BY <2>1, <2>2, <1>2, <1>3, FS_PigeonHole
  <2> QED
    BY <2>3, <1>4 DEF Placed
<1> QED
  BY <1>4, MinIsLeast, Counts

LEMMA Initially == Init => IInv
<1> SUFFICES ASSUME Init PROVE IInv
  OBVIOUS
<1>1. TypeOK
  BY RequestsAssumption DEF Init, TypeOK, NoRequest
<1>2. Placed /\ Sockets
  BY ClientsAssumption DEF Init, Placed, Sockets, Serving
<1>3. OneComes /\ OwnSockets
  BY DEF Init, OneComes, OwnSockets, NoneCreated, Serving
<1> QED
  BY <1>1, <1>2, <1>3 DEF IInv

----------------------------------------------------------------------------
(* main *)

LEMMA AcceptKeeps == IInv /\ Accept => IInv'
<1> SUFFICES ASSUME IInv, Accept PROVE IInv'
  OBVIOUS
<1> DEFINE fd == Min({f \in Fds : table[f] = NoClient})
           c == Head(backlog)
<1>1. /\ mainPc = "accept" /\ mainPc' = "create" /\ backlog # <<>>
      /\ snew' = fd /\ table' = [table EXCEPT ![fd] = c] /\ backlog' = Tail(backlog)
      /\ thread' = thread /\ conn' = conn /\ client' = client /\ patient' = patient
  BY DEF Accept, streams, clients
<1>2. fd \in Fds /\ table[fd] = NoClient
  BY <1>1, FreeDescriptor DEF IInv
<1> HIDE DEF fd
<1>3. /\ c \in Clients /\ c = backlog[1] /\ Len(backlog) \in Nat /\ Len(backlog) >= 1
      /\ Len(backlog') = Len(backlog) - 1
      /\ \A k \in 1 .. Len(backlog') : backlog'[k] = backlog[k + 1]
  BY <1>1 DEF IInv, TypeOK
<1> HIDE DEF c
<1>4. /\ table' \in [Fds -> Clients \cup {NoClient}] /\ table'[fd] = c
      /\ \A g \in Fds \ {fd} : table'[g] = table[g]
  BY <1>1, <1>2, <1>3 DEF IInv, TypeOK
<1>5. TypeOK'
  BY <1>1, <1>2, <1>4 DEF IInv, TypeOK, Accept, streams, clients
<1>6. Placed'
  <2>1. \A k \in 1 .. Len(backlog') : backlog'[k] # c /\ k + 1 \in 1 .. Len(backlog)
    BY <1>3 DEF IInv, Placed
  <2>2. \A g \in Fds : table[g] # c
    BY <1>3 DEF IInv, Placed
  <2>3. \A f, g \in Fds : table'[f] = table'[g] /\ table'[f] # NoClient => f = g
    BY <2>2, <1>4 DEF IInv, Placed
  <2>4. \A j, k \in 1 .. Len(backlog') : backlog'[j] = backlog'[k] => j = k
    BY <2>1, <1>3 DEF IInv, Placed
  <2>5. \A k \in 1 .. Len(backlog'), f \in Fds : table'[f] # backlog'[k]
    BY <2>1, <1>3, <1>4 DEF IInv, Placed
  <2>6. \A d \in Clients : client[d] = "away" => d # c
    BY <1>3 DEF IInv, Placed
  <2>7. \A d \in Clients : client'[d] = "away" =>
          /\ \A f \in Fds : table'[f] # d
          /\ \A k \in 1 .. Len(backlog') : backlog'[k] # d
    BY <2>1, <2>6, <1>1, <1>3, <1>4 DEF IInv, Placed
  <2> QED
    BY <2>3, <2>4, <2>5, <2>7 DEF Placed
<1>7. Sockets'
  BY <1>1, <1>2 DEF IInv, Sockets, Serving
<1>8. ASSUME patient PROVE OneComes' /\ OwnSockets'
  <2>1. OneComes /\ OwnSockets /\ NoneCreated
    BY <1>1, <1>8 DEF IInv, OneComes
  <2>2. backlog' = <<>> /\ Len(backlog') = 0
    BY <2>1, <1>1, <1>3 DEF OneComes, IInv, TypeOK
  <2>3. \A t \in Serving : thread[t].sock \in Fds /\ thread[t].sock # fd
    BY <2>1, <1>2 DEF OwnSockets, IInv, Sockets
  <2>4. OneComes'
    BY <2>1, <2>2, <2>3, <1>1, <1>3, <1>4, <1>2, ClientsAssumption
       DEF OneComes, NoneCreated, Serving
  <2>5. OwnSockets'
    BY <2>1, <2>3, <1>1, <1>4 DEF OwnSockets, Serving
  <2> QED
    BY <2>4, <2>5
<1> QED
  BY <1>1, <1>5, <1>6, <1>7, <1>8 DEF IInv

LEMMA CreateKeeps == IInv /\ Create => IInv'
<1> SUFFICES ASSUME IInv, Create PROVE IInv'
  OBVIOUS
<1> DEFINE t == Min(Unused)
<1>1. /\ mainPc = "create" /\ mainPc' = "accept" /\ Unused # {}
      /\ thread' = [thread EXCEPT ![t].pc = "created"]
      /\ snew' = snew /\ table' = table /\ backlog' = backlog
      /\ conn' = conn /\ client' = client /\ patient' = patient
  BY DEF Create, streams, clients
<1>2. t \in Threads /\ thread[t].pc = "none"
  <2>1. Unused \in SUBSET Nat
    BY Counts DEF Unused
  <2>2. t \in Unused
    BY <2>1, <1>1, MinIsLeast
  <2> QED
    BY <2>2 DEF Unused
<1> HIDE DEF t
<1>3. /\ thread'[t].pc = "created" /\ thread'[t].sock = thread[t].sock
      /\ \A u \in Threads \ {t} : thread'[u] = thread[u]
  BY <1>1, <1>2 DEF IInv, TypeOK
<1>4. TypeOK'
  BY <1>1, <1>2, ZenonT(30) DEF IInv, TypeOK, Create, streams, clients
<1>5. Serving' = Serving
  BY <1>2, <1>3 DEF Serving
<1>6. t \notin Serving
  BY <1>2 DEF Serving
<1>7. \A u \in Serving : thread'[u] = thread[u]
  BY <1>3, <1>6 DEF Serving
<1>8. Placed' /\ Sockets'
  BY <1>1, <1>5, <1>7 DEF IInv, Placed, Sockets
<1>9. ASSUME patient PROVE OneComes' /\ OwnSockets'
  <2>1. OneComes /\ OwnSockets /\ NoneCreated
    BY <1>1, <1>9 DEF IInv, OneComes
  <2>2. backlog = <<>>
    BY <2>1, <1>1 DEF OneComes
  <2>3. \A u \in Threads : thread'[u].pc = "created" => u = t
    BY <2>1, <1>3 DEF NoneCreated
  <2>4. OneComes'
    BY <2>1, <2>2, <2>3, <1>1, <1>5, <1>7 DEF OneComes
  <2>5. OwnSockets'
    BY <2>1, <1>1, <1>5, <1>7 DEF OwnSockets
  <2> QED
    BY <2>4, <2>5
<1> QED
  BY <1>1, <1>4, <1>8, <1>9 DEF IInv

----------------------------------------------------------------------------
(* thread_connections *)

LEMMA StartKeeps ==
  ASSUME IInv, NEW t \in Threads, Start(t)
  PROVE  IInv'
<1>1. /\ thread[t].pc = "created"
      /\ mainPc' = mainPc /\ snew' = snew /\ table' = table /\ backlog' = backlog
      /\ conn' = conn /\ client' = client /\ patient' = patient
  BY DEF Start, streams, clients
<1>2. /\ thread'[t].pc = "greet" /\ thread'[t].sock = snew
      /\ \A u \in Threads \ {t} : thread'[u] = thread[u]
  BY DEF Start, IInv, TypeOK
<1>3. snew \in Fds
  BY <1>1 DEF IInv, Sockets
<1>4. TypeOK'
  BY <1>3, ZenonT(30) DEF IInv, TypeOK, Start, streams, clients
<1>5. Serving' = Serving \cup {t} /\ t \notin Serving
  BY <1>1, <1>2 DEF Serving
<1>6. \A u \in Serving : thread'[u] = thread[u]
  BY <1>2, <1>5 DEF Serving
<1>7. Placed' /\ Sockets'
  BY <1>1, <1>2, <1>3, <1>5, <1>6 DEF IInv, Placed, Sockets
<1>8. ASSUME patient PROVE OneComes' /\ OwnSockets'
  <2>1. /\ OneComes /\ OwnSockets /\ mainPc # "create" /\ backlog = <<>>
        /\ table[snew] # NoClient /\ \A u \in Serving : thread[u].sock # snew
    BY <1>1, <1>8 DEF IInv, OneComes, NoneCreated
  <2>2. NoneCreated'
    BY <2>1, <1>1, <1>2 DEF OneComes, NoneCreated
  <2>3. OneComes'
    BY <2>1, <2>2, <1>1 DEF OneComes, NoneCreated
  <2>4. OwnSockets'
    BY <2>1, <1>1, <1>2, <1>5, <1>6 DEF OwnSockets
  <2> QED
    BY <2>3, <2>4
<1> QED
  BY <1>1, <1>4, <1>7, <1>8 DEF IInv

\* A step of a thread that keeps its socket, and reads from where that leads.
LEMMA TalkKeeps ==
  ASSUME IInv, TypeOK', NEW t \in Serving,
         UNCHANGED <<patient, mainPc, snew, table, backlog, client>>,
         \A u \in Threads \ {t} : thread'[u] = thread[u],
         thread'[t].pc \notin {"none", "created", "ended"},
         thread'[t].sock = thread[t].sock,
         patient /\ thread'[t].pc \in {"read", "first", "second"}
           => thread'[t].from = table[thread[t].sock],
         \A c \in Clients : conn'[c] = "shut" => conn[c] = "shut"
  PROVE  IInv'
<1>1. Serving' = Serving
  BY DEF Serving
<1>2. \A u \in Serving : thread'[u].sock = thread[u].sock
  BY DEF Serving
<1>3. Placed' /\ Sockets'
  <2>1. Placed'
    BY DEF IInv, Placed
  <2>2. Sockets'
    BY <1>1, <1>2 DEF IInv, Sockets, Serving
  <2> QED
    BY <2>1, <2>2
<1>4. ASSUME patient PROVE OneComes' /\ OwnSockets'
  <2>1. OneComes /\ OwnSockets
    BY <1>4 DEF IInv
  <2>2. \A u \in Threads : thread'[u].pc = "created" <=> thread[u].pc = "created"
    BY DEF Serving
  <2>3. OneComes'
    BY <2>1, <2>2, <1>1, <1>2 DEF OneComes, NoneCreated
  <2>4. \A u \in Serving : thread'[u].pc \in {"read", "first", "second"}
                             => thread'[u].from = table[thread'[u].sock]
    BY <2>1, <1>4 DEF OwnSockets, Serving
  <2>5. OwnSockets'
    BY <2>1, <2>4, <1>1, <1>2 DEF OwnSockets
  <2> QED
    BY <2>3, <2>5
<1> QED
  BY <1>3, <1>4 DEF IInv

\* What a write leaves behind.
LEMMA SendsKeeps ==
  ASSUME TypeOK, NEW t \in Serving, thread[t].sock \in Fds, NEW m \in Nat, Sends(t, m)
  PROVE  /\ conn' \in [Clients -> {"none", "open", "closed", "reset", "shut"}]
         /\ toClient' \in [Clients -> Seq(Nat)]
         /\ alive' \in BOOLEAN
         /\ \A c \in Clients : conn'[c] = "shut" => conn[c] = "shut"
<1> DEFINE c == table[thread[t].sock]
<1>1. c \in Clients \cup {NoClient}
  BY DEF TypeOK
<1> HIDE DEF c
<1>2. CASE UNCHANGED <<conn, toClient, alive>>
  BY <1>2 DEF TypeOK
<1>3. CASE c # NoClient /\ toClient' = [toClient EXCEPT ![c] = Append(@, m)]
           /\ UNCHANGED <<conn, alive>>
  BY <1>1, <1>3 DEF TypeOK
<1>4. CASE c # NoClient /\ (\E s \in {"closed", "reset"} : conn' = [conn EXCEPT ![c] = s])
           /\ UNCHANGED <<toClient, alive>>
  BY <1>1, <1>4 DEF TypeOK
<1>5. CASE alive' \in BOOLEAN /\ UNCHANGED <<conn, toClient>>
  BY <1>5 DEF TypeOK
<1> QED
  BY <1>2, <1>3, <1>4, <1>5 DEF Sends, c

LEMMA RepliesKeep ==
  ASSUME IInv, NEW t \in Threads, Greet(t) \/ Reply(t) \/ ReplyAgain(t)
  PROVE  IInv'
<1>1. PICK m \in Nat, p \in {"call", "second"} :
        /\ thread' = [thread EXCEPT ![t].pc = p] /\ Sends(t, m)
        /\ p = "second" => thread[t].pc = "first"
  <2>1. thread[t].req.number \in Nat
    BY DEF IInv, TypeOK, Requests, NoRequest
  <2>2. CASE Greet(t)
    BY <2>2 DEF Greet, Moves
  <2>3. CASE Reply(t)
    BY <2>1, <2>3 DEF Reply, Moves
  <2>4. CASE ReplyAgain(t)
    BY <2>1, <2>4 DEF ReplyAgain, Moves
  <2> QED
    BY <2>2, <2>3, <2>4
<1>2. UNCHANGED <<patient, mainPc, snew, table, backlog, toServer, client, asked, shown>>
  BY DEF Greet, Reply, ReplyAgain, clients
<1>3. t \in Serving /\ thread[t].sock \in Fds
  BY DEF Greet, Reply, ReplyAgain, Moves, Serving, IInv, Sockets
<1>4. /\ conn' \in [Clients -> {"none", "open", "closed", "reset", "shut"}]
      /\ toClient' \in [Clients -> Seq(Nat)]
      /\ alive' \in BOOLEAN
      /\ \A c \in Clients : conn'[c] = "shut" => conn[c] = "shut"
  BY <1>1, <1>3, SendsKeeps DEF IInv
<1>5. /\ thread'[t].pc = p /\ thread'[t].sock = thread[t].sock /\ thread'[t].from = thread[t].from
      /\ \A u \in Threads \ {t} : thread'[u] = thread[u]
  BY <1>1 DEF IInv, TypeOK
<1>6. TypeOK'
  BY <1>1, <1>2, <1>4 DEF IInv, TypeOK
<1>7. patient /\ p = "second" => thread[t].from = table[thread[t].sock]
  BY <1>1, <1>3 DEF IInv, OwnSockets
<1> QED
  BY <1>2, <1>3, <1>4, <1>5, <1>6, <1>7, TalkKeeps

LEMMA ReadsKeep ==
  ASSUME IInv, NEW t \in Threads, Call(t) \/ Request(t)
  PROVE  IInv'
<1>1. t \in Serving /\ thread[t].sock \in Fds
  BY DEF Call, Request, Serving, IInv, Sockets
<1>2. UNCHANGED <<patient, mainPc, snew, table, backlog, conn, client>>
  BY DEF Call, Request, streams, clients
<1>3. CASE Call(t)
  <2>1. /\ thread'[t].pc = "read" /\ thread'[t].sock = thread[t].sock
        /\ thread'[t].from = table[thread[t].sock]
        /\ \A u \in Threads \ {t} : thread'[u] = thread[u]
    BY <1>3 DEF Call, IInv, TypeOK
  <2>2. TypeOK'
    BY <1>1, <1>3, ZenonT(30) DEF Call, IInv, TypeOK, streams, clients
  <2> QED
    BY <2>1, <2>2, <1>1, <1>2, TalkKeeps
<1>4. CASE Request(t)
  <2> DEFINE c == thread[t].from
             r == Head(toServer[c])
             p == IF r.op = "?" THEN "first" ELSE "second"
  <2>1. c \in Clients /\ r \in Requests /\ Tail(toServer[c]) \in Seq(Requests)
        /\ p \in {"first", "second"}
    BY <1>4 DEF Request, IInv, TypeOK
  <2>2. /\ thread' = [thread EXCEPT ![t].req = r, ![t].pc = p]
        /\ thread[t].pc = "read"
    BY <1>4 DEF Request
  <2>3. /\ toServer' = [toServer EXCEPT ![c] = Tail(toServer[c])]
        /\ UNCHANGED <<alive, toClient, asked, shown>>
    BY <1>4 DEF Request, clients
  <2> HIDE DEF c, r, p
  <2>4. /\ thread'[t].pc = p /\ thread'[t].sock = thread[t].sock
        /\ thread'[t].from = thread[t].from
        /\ \A u \in Threads \ {t} : thread'[u] = thread[u]
    BY <2>2 DEF IInv, TypeOK
  <2>5. TypeOK'
    <3>1. thread' \in [Threads ->
            [pc : {"none", "created", "greet", "call", "read", "first", "second", "ended"},
             sock : Fds \cup {0}, req : Requests \cup {NoRequest}, from : Clients \cup {NoClient}]]
      <4> DEFINE Pcs  == {"none", "created", "greet", "call", "read", "first", "second", "ended"}
                 Recs == [pc : Pcs, sock : Fds \cup {0}, req : Requests \cup {NoRequest},
                          from : Clients \cup {NoClient}]
      <4>1. thread[t] \in Recs
        BY DEF IInv, TypeOK
      <4>2. p \in Pcs
        BY <2>1
      <4> HIDE DEF Pcs
      <4>3. [thread[t] EXCEPT !.req = r] \in Recs
        BY <4>1, <2>1
      <4>4. [[thread[t] EXCEPT !.req = r] EXCEPT !.pc = p] \in Recs
        BY <4>2, <4>3
      <4> HIDE DEF Recs
      <4>5. thread \in [Threads -> Recs]
        BY DEF IInv, TypeOK, Recs, Pcs
      <4>6. thread' = [thread EXCEPT ![t] = [[thread[t] EXCEPT !.req = r] EXCEPT !.pc = p]]
        BY <2>2, <4>5
      <4>7. thread' \in [Threads -> Recs]
        BY <4>4, <4>5, <4>6
      <4> QED
        BY <4>7 DEF Recs, Pcs
    <3>2. toServer' \in [Clients -> Seq(Requests)]
      BY <2>1, <2>3 DEF IInv, TypeOK
    <3> QED
      BY <3>1, <3>2, <2>3, <1>2 DEF IInv, TypeOK
  <2>6. patient => thread[t].from = table[thread[t].sock]
    BY <2>2, <1>1 DEF IInv, OwnSockets
  <2> QED
    BY <2>1, <2>4, <2>5, <2>6, <1>1, <1>2, TalkKeeps
<1> QED
  BY <1>3, <1>4

LEMMA HangUpKeeps ==
  ASSUME IInv, NEW t \in Threads, HangUp(t)
  PROVE  IInv'
<1> DEFINE fd == thread[t].sock
           c == table[fd]
<1>1. /\ thread[t].pc = "read" /\ AtEnd(t)
      /\ thread' = [thread EXCEPT ![t].pc = "ended"]
      /\ table' = [table EXCEPT ![fd] = NoClient]
      /\ conn' = [d \in Clients |-> IF d = c /\ conn[d] = "open" THEN "shut" ELSE conn[d]]
      /\ UNCHANGED <<patient, mainPc, snew, backlog, client>>
  BY DEF HangUp, Moves, Closes, clients
<1>2. t \in Serving /\ fd \in Fds
  BY <1>1 DEF Serving, IInv, Sockets
<1>3. /\ thread'[t].pc = "ended"
      /\ \A u \in Threads \ {t} : thread'[u] = thread[u]
  BY <1>1 DEF IInv, TypeOK
<1>4. table'[fd] = NoClient /\ \A g \in Fds \ {fd} : table'[g] = table[g]
  BY <1>1, <1>2 DEF IInv, TypeOK
<1>5. TypeOK'
  <2>1. table' \in [Fds -> Clients \cup {NoClient}]
    BY <1>1 DEF IInv, TypeOK
  <2>2. conn' \in [Clients -> {"none", "open", "closed", "reset", "shut"}]
    BY <1>1 DEF IInv, TypeOK
  <2> QED
    BY <2>1, <2>2, <1>1, ZenonT(30) DEF IInv, TypeOK, HangUp, clients
<1>6. Serving' = Serving \ {t}
  BY <1>2, <1>3 DEF Serving
<1>7. \A u \in Serving \ {t} : thread'[u] = thread[u]
  BY <1>3 DEF Serving
<1>8. Placed'
  BY <1>1, <1>4, ClientsAssumption DEF IInv, TypeOK, Placed
<1>9. Sockets'
  BY <1>1, <1>3, <1>6, <1>7 DEF IInv, Sockets
<1>10. ASSUME patient PROVE OneComes' /\ OwnSockets'
  <2>1. OneComes /\ OwnSockets
    BY <1>10 DEF IInv
  <2>2. \A u \in Threads : thread'[u].pc = "created" <=> thread[u].pc = "created"
    BY <1>1, <1>3
  <2>3. mainPc = "create" \/ ~ NoneCreated => snew \in Fds /\ snew # fd
    BY <2>1, <1>2 DEF OneComes, NoneCreated, IInv, Sockets
  <2>4. OneComes'
    BY <2>1, <2>2, <2>3, <1>1, <1>4, <1>6, <1>7 DEF OneComes, NoneCreated
  <2>5. \A u \in Serving \ {t} : thread[u].sock \in Fds \ {fd}
    BY <2>1, <1>2 DEF OwnSockets, IInv, Sockets
  <2>6. \A d \in Clients : conn'[d] # "shut"
    BY <2>1, <1>1, <1>2 DEF OwnSockets, AtEnd
  <2>7. OwnSockets'
    BY <2>1, <2>5, <2>6, <1>4, <1>6, <1>7 DEF OwnSockets
  <2> QED
    BY <2>4, <2>7
<1> QED
  BY <1>1, <1>5, <1>8, <1>9, <1>10 DEF IInv

----------------------------------------------------------------------------
(* wbc379 *)

LEMMA ConnectKeeps ==
  ASSUME IInv, NEW c \in Clients, Connect(c)
  PROVE  IInv'
<1>1. /\ client[c] = "away" /\ (patient => Settled)
      /\ client' = [client EXCEPT ![c] = "greeting"]
      /\ conn' = [conn EXCEPT ![c] = "open"]
      /\ backlog' = Append(backlog, c)
      /\ UNCHANGED <<patient, mainPc, snew, table, thread>>
  BY DEF Connect
<1>2. /\ Len(backlog) \in Nat /\ Len(backlog') = Len(backlog) + 1
      /\ backlog'[Len(backlog) + 1] = c
      /\ \A k \in 1 .. Len(backlog) : backlog'[k] = backlog[k]
  BY <1>1 DEF IInv, TypeOK
<1>3. TypeOK'
  BY <1>1 DEF IInv, TypeOK, Connect
<1>4. Placed'
  <2>1. \A k \in 1 .. Len(backlog') : k \in 1 .. Len(backlog) \/ k = Len(backlog) + 1
    BY <1>2
  <2>2. \A k \in 1 .. Len(backlog) : backlog[k] # c
    BY <1>1 DEF IInv, Placed
  <2>3. \A j, k \in 1 .. Len(backlog') : backlog'[j] = backlog'[k] => j = k
    BY <2>1, <2>2, <1>2 DEF IInv, Placed
  <2>4. \A k \in 1 .. Len(backlog'), fd \in Fds : table'[fd] # backlog'[k]
    BY <2>1, <1>1, <1>2 DEF IInv, Placed
  <2>5. \A d \in Clients : client'[d] = "away" => client[d] = "away" /\ d # c
    BY <1>1 DEF IInv, TypeOK
  <2>6. \A d \in Clients : client'[d] = "away" =>
          /\ \A fd \in Fds : table'[fd] # d
          /\ \A k \in 1 .. Len(backlog') : backlog'[k] # d
    BY <2>1, <2>5, <1>1, <1>2 DEF IInv, Placed
  <2>7. \A fd, gd \in Fds : table'[fd] = table'[gd] /\ table'[fd] # NoClient => fd = gd
    BY <1>1 DEF IInv, Placed
  <2> QED
    BY <2>3, <2>4, <2>6, <2>7 DEF Placed
<1>5. Sockets'
  BY <1>1 DEF IInv, Sockets, Serving
<1>6. ASSUME patient PROVE OneComes' /\ OwnSockets'
  <2>1. OneComes /\ OwnSockets /\ mainPc = "accept" /\ backlog = <<>> /\ NoneCreated
    BY <1>1, <1>6 DEF IInv, Settled, NoneCreated
  <2>2. Len(backlog') = 1
    BY <2>1, <1>2
  <2>3. OneComes'
    BY <2>1, <2>2, <1>1 DEF OneComes, NoneCreated, Serving
  <2>4. OwnSockets'
    BY <2>1, <1>1 DEF IInv, TypeOK, OwnSockets, Serving
  <2> QED
    BY <2>3, <2>4
<1> QED
  BY <1>1, <1>3, <1>4, <1>5, <1>6 DEF IInv

\* A step of a client that is connected, or a step that changes nothing.
LEMMA OthersKeep ==
  ASSUME IInv, TypeOK',
         UNCHANGED <<patient, mainPc, snew, table, backlog, thread>>,
         \A c \in Clients : client'[c] = "away" => client[c] = "away",
         \A c \in Clients : conn'[c] = "shut" => conn[c] = "shut"
  PROVE  IInv'
<1>1. Placed'
  BY DEF IInv, Placed
<1>2. Sockets'
  BY DEF IInv, Sockets, Serving
<1>3. patient => OneComes' /\ OwnSockets'
  <2>1. patient /\ OneComes => OneComes'
    BY DEF OneComes, NoneCreated, Serving
  <2>2. patient /\ OwnSockets => OwnSockets'
    BY DEF OwnSockets, Serving
  <2> QED
    BY <2>1, <2>2 DEF IInv
<1> QED
  BY <1>1, <1>2, <1>3 DEF IInv

LEMMA ClientsKeep ==
  ASSUME IInv, NEW c \in Clients, Ask(c) \/ Reads(c) \/ ReadsEnd(c) \/ Exit(c)
  PROVE  IInv'
<1>1. UNCHANGED server
  BY DEF Ask, Reads, ReadsEnd, Exit
<1>2. TypeOK'
  <2>1. CASE Ask(c)
    <3>1. PICK op \in {"?", "@"} :
            toServer' = [toServer EXCEPT ![c] = Append(@, [op |-> op, number |-> asked[c] + 1])]
      BY <2>1 DEF Ask
    <3>2. [op |-> op, number |-> asked[c] + 1] \in Requests
      BY DEF Requests, IInv, TypeOK
    <3>3. toServer' \in [Clients -> Seq(Requests)]
      BY <3>1, <3>2 DEF IInv, TypeOK
    <3>4. asked' \in [Clients -> Nat] /\ \A d \in Clients : asked'[d] <= MaxRequests[d]
      <4>1. asked' = [asked EXCEPT ![c] = asked[c] + 1] /\ asked[c] < MaxRequests[c]
        BY <2>1 DEF Ask
      <4>2. asked \in [Clients -> Nat] /\ \A d \in Clients : asked[d] <= MaxRequests[d]
        BY DEF IInv, TypeOK
      <4>3. asked' \in [Clients -> Nat]
        BY <4>1, <4>2
      <4>4. ASSUME NEW d \in Clients PROVE asked'[d] <= MaxRequests[d]
        BY <4>1, <4>2, RequestsAssumption
      <4> QED
        BY <4>3, <4>4
    <3> QED
      BY <3>3, <3>4, <2>1, <1>1 DEF Ask, IInv, TypeOK, server
  <2>2. CASE Reads(c)
    <3>1. PICK k \in 1 .. Len(toClient[c]) :
            toClient' = [toClient EXCEPT ![c] = SubSeq(@, k + 1, Len(@))]
      BY <2>2 DEF Reads
    <3>2. /\ toClient[c] \in Seq(Nat) /\ toClient[c] # <<>>
          /\ \A j \in k + 1 .. Len(toClient[c]) : toClient[c][j] \in Nat
      BY DEF IInv, TypeOK
    <3>3. Head(toClient[c]) \in Nat /\ SubSeq(toClient[c], k + 1, Len(toClient[c])) \in Seq(Nat)
      BY <3>2
    <3> QED
      BY <3>1, <3>3, <2>2, <1>1 DEF Reads, IInv, TypeOK, server
  <2>3. CASE ReadsEnd(c)
    BY <2>3, <1>1 DEF ReadsEnd, IInv, TypeOK, server, streams
  <2>4. CASE Exit(c)
    BY <2>4, <1>1 DEF Exit, IInv, TypeOK, server
  <2> QED
    BY <2>1, <2>2, <2>3, <2>4
<1>3. \A d \in Clients : client'[d] = "away" => client[d] = "away"
  BY DEF Ask, Reads, ReadsEnd, Exit, IInv, TypeOK
<1>4. \A d \in Clients : conn'[d] = "shut" => conn[d] = "shut"
  BY DEF Ask, Reads, ReadsEnd, Exit, IInv, TypeOK, streams
<1> QED
  BY <1>1, <1>2, <1>3, <1>4, OthersKeep DEF server

----------------------------------------------------------------------------

LEMMA NextKeeps == IInv /\ [Next]_vars => IInv'
<1> SUFFICES ASSUME IInv, [Next]_vars PROVE IInv'
  OBVIOUS
<1>1. CASE Accept
  BY <1>1, AcceptKeeps
<1>2. CASE Create
  BY <1>2, CreateKeeps
<1>3. ASSUME NEW t \in Threads, ThreadStep(t) PROVE IInv'
  BY <1>3, StartKeeps, RepliesKeep, ReadsKeep, HangUpKeeps DEF ThreadStep
<1>4. ASSUME NEW c \in Clients, ClientStep(c) PROVE IInv'
  BY <1>4, ConnectKeeps, ClientsKeep DEF ClientStep
<1>5. CASE UNCHANGED vars
  <2>1. TypeOK'
    BY <1>5 DEF IInv, TypeOK, vars, server, streams, clients
  <2> QED
    BY <2>1, <1>5, OthersKeep DEF vars, server, streams, clients
<1> QED
  BY <1>1, <1>2, <1>3, <1>4, <1>5 DEF Next

THEOREM Invariant == Spec => []IInv
<1> QED
  BY Initially, NextKeeps, PTL DEF Spec

\* Every variable keeps its type for any number of clients: accept finds a free
\* descriptor, and no thread reads snew before accept has set it.
THEOREM TypesHold == Spec => []TypeOK
<1>1. IInv => TypeOK
  BY DEF IInv
<1> QED
  BY <1>1, Invariant, PTL

\* For any number of clients and requests, clients that connect one at a time are
\* served by a thread each, on their own socket, until they leave themselves.
THEOREM OneThreadForEach == Spec => []OneThreadEach
<1>1. IInv => OneThreadEach
  BY DEF IInv, OwnSockets, OneThreadEach
<1> QED
  BY <1>1, Invariant, PTL
============================================================================
