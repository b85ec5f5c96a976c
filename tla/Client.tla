------------------------------- MODULE Client -------------------------------
(***************************************************************************)
(* The client (wbc379.c) and the thread that serves it: the menu, views    *)
(* and updates with the buffer they share, encryption and decryption with  *)
(* the key file.  A key is the sequence of the characters of its line;     *)
(* AES and base64 are OpenSSL's and modelled by what they do here: a key   *)
(* opens what it has closed, and a text in base64 is decoded unless a new  *)
(* line precedes it.                                                       *)
(***************************************************************************)
EXTENDS Requests

CONSTANTS
  Typed,      \* what a user may type as a text
  KeyFiles,   \* the key files, sequences of characters and "nl"; <<>> for none
  MaxAsks     \* bound: how often the client asks

\* A text may read like requests for entries of the board; other requests are not looked
\* for on the board.
LooksRight(c) ==
  /\ c.is = "?" => c.entry \in Entries /\ c = Query(c.entry)
  /\ c.is = "@" => /\ c.entry \in Entries /\ c.mode \in {"p", "c"} /\ c.length \in Nat
                  /\ c = Header("@", c.entry, c.mode, c.length)
ASSUME TypedAssumption ==
  \A t \in Typed : /\ t \in Seq(ToSet(t))
                   /\ \A c \in ToSet(t) : c.w \in Nat \ {0} /\ LooksRight(c)
ASSUME TailsAssumption ==
  \A t \in Tails : t \in Seq(ToSet(t)) /\ \A c \in ToSet(t) : c.w \in Nat \ {0}
\* No key is too long for its array.
ASSUME KeyFilesAssumption ==
  \A f \in KeyFiles : /\ f \in Seq(ToSet(f))
                      /\ \A n \in 1 .. Len(f) - 127 : \E m \in n .. n + 127 : f[m] = "nl"

\* An entry holds a text of the length it tells, and a new line behind it unless it ends
\* there: what an update in one piece leaves.
Terminated(e) ==
  \E k \in 0 .. Len(e.text) : /\ Until(e.text, k) = e.length
                              /\ k < Len(e.text) => e.text[k + 1] = NL
ASSUME EntriesTerminated ==
  \A b \in Boards : \A n \in Entries :
    /\ b[n].text \in Seq(ToSet(b[n].text)) /\ \A c \in ToSet(b[n].text) : c.w \in Nat \ {0}
    /\ b[n].length \in Nat /\ Terminated(b[n])

VARIABLES
  client,     \* where the client is: "menu", or what it waits for
  keyfile,    \* the contents of its key file, <<>> without one: set once
  buf,        \* what main's buffer holds
  outlen,     \* the length of the last encryption
  i,          \* the global i, which decrypt fills testkey by
  asks,       \* how often the client has asked
  shown,      \* what was printed since the client has asked last, and by what
  came,       \* history: the writes it has read since then
  tried       \* history: the keys decrypt has tried since then

vars == <<serverVars, client, keyfile, buf, outlen, i, asks, shown, came, tried>>

Nothing == [by |-> "none", text |-> <<>>]

Init ==
  /\ RequestsInit
  /\ client = "greeting"
  /\ keyfile \in KeyFiles
  /\ buf = <<>>
  /\ outlen = 0 /\ i = 0
  /\ shown = Nothing
  /\ asks = 0 /\ came = <<>> /\ tried = <<>>

Overlay(new, old) == new \o Beyond(old, Width(new))

Sends(request) ==
  /\ toServer' = toServer \o request
  /\ made' = Append(made, request) /\ asks' = asks + 1
  /\ shown' = Nothing /\ came' = <<>> /\ tried' = <<>>
  /\ UNCHANGED <<whole, open, toClient, board, thread, cut, keyfile, i>>

MayAsk == client = "menu" /\ asks < MaxAsks

----------------------------------------------------------------------------
(* encrypt *)

addon == 33    \* the length of encryption_addon

\* The first line of the key file.
FirstKey ==
  LET end == SelectInSeq(keyfile, LAMBDA c : c = "nl")
  IN  IF end = 0 THEN <<"unknown">> ELSE SubSeq(keyfile, 1, end - 1)

\* What AES makes of n characters, padded, and base64 of n bytes.
Padded(n)   == 16 * (n \div 16 + 1)
base64encode(n) == 4 * ((n + 2) \div 3)

encrypt(text) ==
  LET n == Padded(addon + Width(text))
  IN  <<[is |-> "cipher", w |-> base64encode(n), key |-> FirstKey, text |-> text]>>

----------------------------------------------------------------------------
(* decrypt *)

\* A leading new line makes the decoder give up.
base64decode(s) == SelectSeq(IF s # <<>> /\ s[1] = NL THEN <<>> ELSE s,
                             LAMBDA c : c.is = "cipher")

\* EVP_DecryptUpdate is given as many bytes as were encrypted last.
Decrypted(s, key) ==
  IF s # <<>> /\ s[1].key = key /\ outlen >= Padded(addon + Width(s[1].text))
    THEN s[1].text ELSE <<>>

\* testkey up to its first zero byte; what has not been set is zero.
Key(testkey) ==
  LET strlen == CHOOSE n \in 0 .. 127 : n \notin DOMAIN testkey /\ 0 .. n - 1 \subseteq DOMAIN testkey
  IN  [n \in 1 .. strlen |-> testkey[n - 1]]

Set(testkey, n, c) == [m \in DOMAIN testkey \cup {n} |-> IF m = n THEN c ELSE testkey[m]]

\* Mutant of TryKeys: i is not set back behind a key.
TryKeysOn ==
  LET loop[n \in 0 .. Len(keyfile)] ==
        IF n = 0 THEN [i |-> i, testkey |-> <<>>, tried |-> <<>>]
        ELSE LET a == loop[n - 1] c == keyfile[n]
             IN  IF c = "nl" THEN [i |-> a.i, testkey |-> <<>>, tried |-> Append(a.tried, Key(a.testkey))]
                 ELSE [i |-> a.i + 1, testkey |-> Set(a.testkey, a.i, c), tried |-> a.tried]
  IN  loop[Len(keyfile)]

\* The loop over the characters of the key file: a key is tried at the end of its
\* line, whether an earlier one has been the right one or not.
TryKeys ==
  LET loop[n \in 0 .. Len(keyfile)] ==
        IF n = 0 THEN [i |-> i, testkey |-> <<>>, tried |-> <<>>]
        ELSE LET a == loop[n - 1] c == keyfile[n]
             IN  IF c = "nl" THEN [i |-> 0, testkey |-> <<>>, tried |-> Append(a.tried, Key(a.testkey))]
                 ELSE [i |-> a.i + 1, testkey |-> Set(a.testkey, a.i, c), tried |-> a.tried]
  IN  loop[Len(keyfile)]

\* From behind the characters main takes for the header, up to the end of the text.
decpoint(b) == LET d == Digits(b[1].entry) + Digits(b[1].length)
               IN  Upto(Beyond(b, 2 + d), d + b[1].length - 2)

decrypt(b) ==
  LET s == base64decode(decpoint(b))
      end == TryKeys
  IN  /\ i' = end.i /\ tried' = end.tried
      /\ shown' = [by |-> "decrypt",
                   text |-> FlattenSeq([n \in DOMAIN end.tried |-> Decrypted(s, end.tried[n])])]

----------------------------------------------------------------------------
(* main *)

\* The query is built in buf, sent, and cleared up to its end.
View(n) ==
  /\ MayAsk /\ client' = "view"
  /\ Sends(<<Query(n), NL>>)
  /\ buf' = Overlay(<<[is |-> "zero", w |-> Width(<<Query(n), NL>>) + 1]>>, buf)
  /\ UNCHANGED outlen

\* The last character typed is dropped; a text that begins with NULL is none.
tempstring(typed) == IF typed[1].is = "NULL" THEN <<>> ELSE Front(typed)

Update(n, mode, text) == <<Header("@", n, mode, Width(text)), NL>> \o text \o <<NL>>

\* Mutant of UpdatePlain: the buffer is not cleared.
UpdatePlainOver(n, typed) ==
  /\ MayAsk /\ typed # <<>> /\ client' = "plain"
  /\ Sends(Update(n, "p", tempstring(typed)))
  /\ UNCHANGED <<buf, outlen>>

\* Mutant of UpdatePlain: the text is sent without a new line behind it.
UpdatePlainUnended(n, typed) ==
  /\ MayAsk /\ typed # <<>> /\ client' = "plain"
  /\ Sends(Front(Update(n, "p", tempstring(typed))))
  /\ buf' = <<>>
  /\ UNCHANGED outlen

UpdatePlain(n, typed) ==
  /\ MayAsk /\ typed # <<>> /\ client' = "plain"
  /\ Sends(Update(n, "p", tempstring(typed)))
  /\ buf' = <<>>
  /\ UNCHANGED outlen

\* Mutant of UpdateCipher: the length of the text is kept, not that of its encryption.
UpdateCipherUnpadded(n, typed) ==
  /\ MayAsk /\ typed # <<>> /\ typed[1].is # "NULL" /\ keyfile # <<>>
  /\ client' = "cipher"
  /\ Sends(Update(n, "c", encrypt(tempstring(typed))))
  /\ outlen' = addon + Width(tempstring(typed))
  /\ buf' \in {buf, <<>>}

\* The buffer is not cleared: another one is, further than it is long, which may
\* clear this one all the same.
UpdateCipher(n, typed) ==
  /\ MayAsk /\ typed # <<>> /\ typed[1].is # "NULL" /\ keyfile # <<>>
  /\ client' = "cipher"
  /\ Sends(Update(n, "c", encrypt(tempstring(typed))))
  /\ outlen' = Padded(addon + Width(tempstring(typed)))
  /\ buf' \in {buf, <<>>}

\* The client ends: by its menu; because it has no key file to encrypt with, or no
\* text (Front of nothing is a copy of nearly all memory); because of what
\* clearing too much or decrypt's wild pointers have destroyed.
Leaves(where) ==
  /\ client' = where /\ open' = FALSE /\ toClient' = <<>>
  /\ buf' = <<>> /\ outlen' = 0 /\ i' = 0
  /\ shown' = Nothing /\ came' = <<>> /\ tried' = <<>>
  /\ UNCHANGED <<whole, toServer, board, thread, made, cut, keyfile, asks>>

Exit == client = "menu" /\ Leaves("left")
Dies == \/ MayAsk /\ (keyfile = <<>> \/ <<>> \in Typed) /\ Leaves("dead")
        \/ client \in {"cipher", "decrypt"} /\ Leaves("dead")

\* One read, which takes the writes that have come.
Receives(k) ==
  /\ came' = SubSeq(toClient, 1, k)
  /\ toClient' = SubSeq(toClient, k + 1, Len(toClient))
  /\ UNCHANGED <<whole, open, toServer, board, thread, made, cut, keyfile, outlen, asks>>

Got(k) == FlattenSeq(SubSeq(toClient, 1, k))

\* The greeting must have 33 characters.
Greeted(k) ==
  /\ client = "greeting"
  /\ client' = IF Width(Got(k)) < 33 THEN "refused" ELSE "menu"
  /\ Receives(k)
  /\ buf' = <<>>
  /\ UNCHANGED <<i, shown, tried>>

\* The reply to an update is printed as it is in the buffer.
Updated(k) ==
  /\ client \in {"plain", "cipher"}
  /\ Receives(k)
  /\ buf' = Overlay(Got(k), buf)
  /\ shown' = [by |-> client, text |-> buf']
  /\ client' = "menu"
  /\ UNCHANGED <<i, tried>>

\* buf[2] is the mode if the number of the entry has one digit.
IsCipher(b) == b[1].mode = "c" /\ Digits(b[1].entry) = 1

\* The characters of a reply, counted from the two numbers of its header; a length
\* of 0 counts as no digit.
premessage(b) == LET h == b[1]
                 IN  5 + Digits(h.entry) + (IF h.length = 0 THEN 0 ELSE Digits(h.length) + h.length - 1)

Viewed(k) ==
  /\ client = "view"
  /\ Receives(k)
  /\ buf' = Overlay(Got(k), buf)
  /\ \/ /\ ~IsCipher(buf')
        /\ shown' = [by |-> "view", text |-> Upto(buf', premessage(buf'))]
        /\ client' = "menu"
     \/ /\ IsCipher(buf') /\ keyfile = <<>>
        /\ shown' = Nothing
        /\ client' = "menu"
     \/ /\ IsCipher(buf') /\ keyfile # <<>>
        /\ shown' = Nothing
        /\ client' = "decrypt"
  /\ UNCHANGED <<i, tried>>

Decrypts ==
  /\ client = "decrypt" /\ client' = "menu"
  /\ decrypt(buf)
  /\ UNCHANGED <<serverVars, keyfile, buf, outlen, asks, came>>

Ask == \E n \in Entries :
         \/ View(n)
         \/ \E typed \in Typed : UpdatePlain(n, typed) \/ UpdateCipher(n, typed)

Receive == \/ \E k \in 1 .. Len(toClient) : Greeted(k) \/ Updated(k) \/ Viewed(k)
           \/ Decrypts

ServerSteps == Serve /\ UNCHANGED <<client, keyfile, buf, outlen, i, asks, shown, came, tried>>

Next == ServerSteps \/ Ask \/ Receive \/ Exit \/ Dies

Spec == Init /\ [][Next]_vars

\* The thread is scheduled, and the client reads what has come.
FairSpec == Spec /\ WF_vars(ServerSteps) /\ WF_vars(Receive)

----------------------------------------------------------------------------
(* Properties *)

TypeOK ==
  /\ {whole, open, cut} \subseteq BOOLEAN
  /\ \A n \in Entries : board[n].mode \in {"p", "c"} /\ board[n].length \in Nat
  /\ thread.pc \in {"greet", "header", "text", "first", "second", "lost", "ended"}
  /\ client \in {"greeting", "menu", "view", "plain", "cipher", "decrypt", "left", "dead", "refused"}
  /\ keyfile \in KeyFiles
  /\ outlen % 16 = 0 /\ i \in 0 .. 127
  /\ \A s \in {buf, shown.text, toServer} : \A k \in DOMAIN s : s[k].w \in Nat \ {0}

\* The thread has the request's header and, for an update, its text, if it came
\* whole, or a beginning of it.
Understood(request, t) ==
  LET text == SubSeq(request, 3, Len(request))
  IN  /\ t.req = request[1]
      /\ t.req.is = "@" => IF whole THEN t.text = text ELSE IsPrefix(t.text, text)

\* The server understands the requests the client has made, one after the other:
\* none is taken out of the text of another, though texts hold new lines and are
\* not searched for their end, and none is left out.  Texts that come in one piece
\* may hold anything, requests too.  Texts that come in pieces are cut, but the
\* headers behind them are still found, as long as no read has left a part behind
\* that reads like a header and the thread has not met an empty line, or a long one,
\* where it looks for a header.
RequestsUnderstood ==
  [][/\ ~cut /\ (ReadQuery \/ (\E tail \in Tails : ReadText(tail)))
          => made # <<>> /\ Understood(made[1], thread')
     /\ whole => ~RunOff /\ ~cut']_vars

\* "The other option is to update an entry which will ask you to select a entry, input some
\* information that you wish to store" (AS2/README.txt:24-26): the information is stored,
\* and what the server does is what the client has asked for, whatever it reads like.
NoTextIsRequest ==
  [][ReadQuery \/ (\E tail \in Tails : ReadText(tail))
       => made # <<>> /\ Understood(made[1], thread')]_vars

\* The header, the text of the length it tells, and the new line.
Wanted(reply) == SubSeq(reply, 1, 2) \o Upto(SubSeq(reply, 3, Len(reply)), reply[1].length) \o <<NL>>

\* What the client prints for a view is a reply as the server has meant it: not what the
\* buffer holds of earlier ones, nor the second copy, nor what follows a text that is
\* not terminated.  For an update that is not encrypted it is what has come.
ShowsWhatCame ==
  whole => /\ shown.by = "view" => shown.text = Wanted(came[1])
           /\ shown.by = "plain" => shown.text = FlattenSeq(came)

\* Every call of decrypt tries every line of the key file, whatever the calls before
\* have left in the global i, if the last line is ended.
KeysTriedWhole ==
  shown.by = "decrypt" /\ Last(keyfile) = "nl" =>
    /\ FlattenSeq([n \in DOMAIN tried |-> Append(tried[n], "nl")]) = keyfile
    /\ \A n \in DOMAIN tried : ~Contains(tried[n], "nl")

\* Whatever the client asks and whatever text it sends, it is not left waiting, unless
\* the thread has run off its line.
Waits == client \in {"greeting", "view", "plain", "cipher", "decrypt"}
AnswerComes == Waits ~> client \in {"menu", "left", "dead"} \/ thread.pc = "lost"

\* "In order to encrypt and decrypt, you must execute the client by providing a keyfile or
\* else the client will fail to view and update an entry that is encrypted"
\* (AS2/README.txt:27-29): with the key in its key file the client shows the text.
KeyholderReads ==
  shown.by = "decrypt" /\ whole /\ came[1][3].key \in ToSet(tried)
    => shown.text = came[1][3].text
============================================================================
