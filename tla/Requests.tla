------------------------------ MODULE Requests ------------------------------
(***************************************************************************)
(* How a thread of the server cuts the stream from its client into         *)
(* requests (thread_connections of wbs379.c): a header byte by byte up to  *)
(* its new line, then the text of an update with one read, which may find  *)
(* a part of it only; what is left of the text is then taken for headers.  *)
(*                                                                         *)
(* A stream, a text or a buffer is a sequence of cells: a header, a new    *)
(* line, a word, a ciphertext, or bytes nobody has written.  A cell has    *)
(* the width it takes in characters, which may be one.  Only a read that   *)
(* asks for less breaks it: a text that comes in pieces does so between    *)
(* its cells, of which a text may have as many as it has characters.       *)
(***************************************************************************)
EXTENDS Integers, Sequences, SequencesExt, FiniteSetsExt

CONSTANTS
  WHITEBOARD_SIZE,
  Entries,    \* the entries clients ask for and update
  Boards,     \* what the entries may hold when the client comes
  Tails       \* what an unterminated text may be followed by

ASSUME EntriesAssumption ==
  WHITEBOARD_SIZE \in 1 .. 999 /\ Entries \subseteq 1 .. WHITEBOARD_SIZE
ASSUME BoardsAssumption == \A b \in Boards : DOMAIN b = Entries

VARIABLES
  whole,      \* whether what is written in one write comes in one piece: set once
  open,       \* whether the client's end of the connection is open
  toServer,   \* what the server has not read yet
  toClient,   \* the writes the client has not read yet
  board,      \* the entries
  thread,     \* where the thread is, its request, the text read and the reply
  made,       \* history: the client's requests the server has not understood yet
  cut         \* history: a read has left behind a part of a text that reads like a header

serverVars == <<whole, open, toServer, toClient, board, thread, made, cut>>

Digits(n) == IF n < 10 THEN 1 ELSE IF n < 100 THEN 2 ELSE 3

NL == [is |-> "nl", w |-> 1]

\* "?%d", and "!%d%c%d" or "@%d%c%d"
Query(n) == [is |-> "?", w |-> 1 + Digits(n), entry |-> n]
Header(op, n, mode, length) ==
  [is |-> op, w |-> 2 + Digits(n) + Digits(length), entry |-> n, mode |-> mode, length |-> length]

\* The width of the first k cells of s.
Until(s, k) == LET sum[j \in 0 .. k] == IF j = 0 THEN 0 ELSE sum[j - 1] + s[j].w IN sum[k]
Width(s)    == Until(s, Len(s))

\* The cells of s within its first n characters, and what is behind those.
Cells(s, n)  == CHOOSE k \in 0 .. Len(s) : /\ Until(s, k) <= n
                                           /\ k < Len(s) => Until(s, k + 1) > n
Upto(s, n)   == SubSeq(s, 1, Cells(s, n))
Beyond(s, n) ==
  LET k == Cells(s, n)
      rest == SubSeq(s, k + 2, Len(s))
  IN  IF k = Len(s) THEN <<>>
      ELSE IF Until(s, k) = n THEN <<s[k + 1]>> \o rest
      ELSE <<[is |-> "junk", w |-> Until(s, k + 1) - n]>> \o rest

Idle == [pc |-> "header", req |-> Query(1), text |-> <<>>, reply |-> <<>>]

RequestsInit ==
  /\ whole \in BOOLEAN
  /\ open = TRUE
  /\ toServer = <<>>
  /\ toClient = <<>>
  /\ board \in Boards
  /\ thread = [Idle EXCEPT !.pc = "greet"]
  /\ made = <<>>
  /\ cut = FALSE

----------------------------------------------------------------------------
(* thread_connections *)

\* A write to a client that has left is lost.
Writes(m) == toClient' = IF open THEN Append(toClient, m) ELSE toClient

\* The first line with the size of the board, and the zero byte behind it.
Greet ==
  /\ thread.pc = "greet" /\ thread' = Idle
  /\ Writes(<<[is |-> "greeting", w |-> 32 + Digits(WHITEBOARD_SIZE)]>>)
  /\ UNCHANGED <<whole, open, toServer, board, made, cut>>

\* The next line of the stream, without its end.
Line == SubSeq(toServer, 1, SelectInSeq(toServer, LAMBDA c : c = NL) - 1)

ReadsLine(new) ==
  /\ thread.pc = "header" /\ Contains(toServer, NL)
  /\ thread' = new
  /\ toServer' = SubSeq(toServer, Len(Line) + 2, Len(toServer))
  /\ UNCHANGED <<whole, open, board, cut>>

\* The line fits its array of 20 characters and is not empty.
Fits == Line # <<>> /\ Width(Line) < 20

ReplyOf(n) == LET e == board[n]
              IN  <<Header("!", n, e.mode, e.length), NL>> \o e.text \o <<NL>>

\* The reply is printed into as many bytes as a struct Entry has.  What the thread does
\* when it takes more is undefined: it may go on, or be lost.
Overruns(reply) == Width(reply) + 1 > 24

ReadQuery ==
  /\ Fits /\ Line[1].is = "?"
  /\ LET reply == ReplyOf(Line[1].entry)
     IN  \E pc \in {"first", "lost"} :
           /\ pc = "lost" => Overruns(reply)
           /\ ReadsLine([Idle EXCEPT !.pc = pc, !.req = Line[1], !.reply = reply])
  /\ made' = SubSeq(made, 2, Len(made))
  /\ UNCHANGED toClient

ReadUpdate ==
  /\ Fits /\ Line[1].is = "@"
  /\ ReadsLine([Idle EXCEPT !.pc = "text", !.req = Line[1]])
  /\ UNCHANGED <<toClient, made>>

\* Neither "?" nor "@": the line is dropped.
IgnoreLine ==
  /\ Fits /\ Line[1].is \notin {"?", "@"}
  /\ ReadsLine(thread)
  /\ UNCHANGED <<toClient, made>>

\* A line too long for its array; an empty one, behind whose end the loop that looks
\* for it starts.  What the thread does from there on is undefined.
RunOff ==
  /\ ~Fits
  /\ ReadsLine([thread EXCEPT !.pc = "lost"])
  /\ UNCHANGED <<toClient, made>>

\* updateEntry, which leaves the text unterminated.
Updates(text, tail) ==
  LET req == thread.req
  IN  /\ board' = [board EXCEPT ![req.entry] =
           [mode |-> req.mode, length |-> req.length, text |-> text \o tail]]
      /\ thread' = [thread EXCEPT !.pc = "second", !.text = text,
                                  !.reply = <<Header("!", req.entry, "e", 0), NL, NL>>]

\* read(sock, client_message, n): some cells, or n characters that end within one.
TakesText(n, tail) ==
  /\ thread.pc = "text" /\ toServer # <<>>
  /\ LET came   == Upto(toServer, n)
         breaks == Len(came) < Len(toServer) /\ Width(came) < n
     IN  \/ \E k \in 1 .. Len(came) :
              /\ whole => k = Len(came) /\ ~breaks
              /\ Updates(SubSeq(came, 1, k), tail)
              /\ toServer' = SubSeq(toServer, k + 1, Len(toServer))
              /\ cut' = (cut \/ \E j \in k + 1 .. Len(came) : came[j].is \in {"?", "@"})
         \/ /\ breaks
            /\ Updates(Append(came, [is |-> "junk", w |-> n - Width(came)]), tail)
            /\ toServer' = Beyond(toServer, n)
            /\ cut' = cut
  /\ made' = SubSeq(made, 2, Len(made))
  /\ UNCHANGED <<whole, open, toClient>>

\* Mutant of ReadText: the new line behind the text is left in the stream.
ReadTextOnly(tail) == TakesText(thread.req.length, tail)

ReadText(tail) == TakesText(thread.req.length + 1, tail)

\* A reply to a query is written twice, in "first" and in "second".
Reply ==
  /\ thread.pc \in {"first", "second"}
  /\ thread' = IF thread.pc = "first" THEN [thread EXCEPT !.pc = "second"] ELSE Idle
  /\ Writes(thread.reply)
  /\ UNCHANGED <<whole, open, toServer, board, made, cut>>

HangUp ==
  /\ thread.pc = "header" /\ ~open /\ ~Contains(toServer, NL)
  /\ thread' = [thread EXCEPT !.pc = "ended"]
  /\ UNCHANGED <<whole, open, toServer, toClient, board, made, cut>>

\* read finds the end where it looks for a text: the entry is what the buffer happens
\* to hold.
HangUpInText(tail) ==
  /\ thread.pc = "text" /\ ~open /\ toServer = <<>>
  /\ board' = [board EXCEPT ![thread.req.entry] =
       [mode |-> thread.req.mode, length |-> thread.req.length, text |-> tail]]
  /\ thread' = [thread EXCEPT !.pc = "ended"]
  /\ UNCHANGED <<whole, open, toServer, toClient, made, cut>>

Serve == \/ Greet \/ ReadQuery \/ ReadUpdate \/ IgnoreLine \/ RunOff
         \/ \E tail \in Tails : ReadText(tail) \/ HangUpInText(tail)
         \/ Reply \/ HangUp
============================================================================
