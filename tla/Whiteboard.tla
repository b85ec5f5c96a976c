----------------------------- MODULE Whiteboard -----------------------------
(***************************************************************************)
(* What the whiteboard promises its clients (AS2/README.txt:15-32): a board of *)
(* messages on which every query and every update takes effect at one      *)
(* moment between its request and its answer, whatever the number of       *)
(* connections served at the same time.                                    *)
(***************************************************************************)
EXTENDS Integers

CONSTANTS Threads, WHITEBOARD_SIZE, QueryEntries, Values, Blank

Entries == 1 .. WHITEBOARD_SIZE

VARIABLES
  board,    \* board[e]: the message in entry e
  request,  \* request[t]: the request connection t is serving
  answer    \* answer[t]: its answer, not yet sent

vars == <<board, request, answer>>

Query     == [op : {"?"}, entry : QueryEntries]
Update    == [op : {"@"}, entry : Entries, value : Values]
NoRequest == [op |-> "none", entry |-> 1]

\* An answer is a status message or an entry: its number, mode, length and text.
Status(s, n)   == [status |-> s, number |-> n,
                   mode |-> Blank, length |-> Blank, text |-> Blank]
Whole(n, m)    == [status |-> "entry", number |-> n,
                   mode |-> m, length |-> m, text |-> m]
NoAnswer       == Status("none", 0)

Init ==
  /\ board = [e \in Entries |-> Blank]
  /\ request = [t \in Threads |-> NoRequest]
  /\ answer = [t \in Threads |-> NoAnswer]

Ask(t) ==
  /\ request[t] = NoRequest
  /\ \E r \in Query \cup Update : request' = [request EXCEPT ![t] = r]
  /\ UNCHANGED <<board, answer>>

Answer(t, a) ==
  /\ answer[t] = NoAnswer
  /\ answer' = [answer EXCEPT ![t] = a]
  /\ UNCHANGED request

Read(t) ==
  /\ request[t] \in Query
  /\ request[t].entry \in Entries
  /\ Answer(t, Whole(request[t].entry, board[request[t].entry]))
  /\ UNCHANGED board

\* A query fails for want of memory, or because the board has no such entry; the
\* text of the second answer is not reliable.
Fail(t) ==
  /\ request[t] \in Query
  /\ \E s \in IF request[t].entry \in Entries
              THEN {"no_memory"} ELSE {"no_such_entry", "junk"} :
        Answer(t, Status(s, request[t].entry))
  /\ UNCHANGED board

Write(t) ==
  /\ request[t] \in Update
  /\ board' = [board EXCEPT ![request[t].entry] = request[t].value]
  /\ Answer(t, Status("updated", request[t].entry))

Deliver(t) ==
  /\ answer[t] # NoAnswer
  /\ request' = [request EXCEPT ![t] = NoRequest]
  /\ answer' = [answer EXCEPT ![t] = NoAnswer]
  /\ UNCHANGED board

Next == \E t \in Threads : Ask(t) \/ Read(t) \/ Fail(t) \/ Write(t) \/ Deliver(t)

Spec == Init /\ [][Next]_vars
=============================================================================
