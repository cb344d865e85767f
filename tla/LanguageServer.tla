---------------------------- MODULE LanguageServer ----------------------------
(***************************************************************************)
(* src/myxo-lsp.js on its wire: an editor opens, changes, closes and asks  *)
(* about documents; what it sends arrives in chunks cut anywhere; serve    *)
(* finds the messages in them and handle keeps the documents.              *)
(*                                                                         *)
(* Diagnostics, hover, completion and formatting are functions of a text:  *)
(* what stands for them is the text they are of.  The client may also send *)
(* what is no message (a header without a length, a body that is no JSON), *)
(* a message that lacks its parameters, or one the server does not know.   *)
(***************************************************************************)
EXTENDS Naturals, Sequences, FiniteSets

CONSTANTS
    Uri, Texts,
    NoText,       \* the empty text, which the server has for want of another
    MaxMessages   \* bound: messages sent

ASSUME LanguageServerAssumption == NoText \in Texts /\ MaxMessages \in Nat

VARIABLES
    editor,       \* the texts of the documents the editor has open
    sent,         \* history: messages, with what the editor then showed
    wire,         \* on their way
    buf,          \* received and not yet taken
    docs,         \* the server's documents
    shuttingDown,
    exited,       \* none, or its code
    replied,      \* answers written: [to, with]
    shown         \* per document, the text the diagnostics it published last are of

clientVars == <<editor, sent>>
sessionVars == <<clientVars, wire, buf, docs, shuttingDown, exited, replied, shown>>

Empty == [u \in {} |-> NoText]
SessionInit ==
    /\ editor = Empty /\ sent = << >> /\ wire = << >> /\ buf = << >>
    /\ docs = Empty /\ shuttingDown = FALSE /\ exited = "none" /\ replied = << >> /\ shown = Empty

With(f, u, t) == [v \in DOMAIN f \cup {u} |-> IF v = u THEN t ELSE f[v]]
Without(f, u) == [v \in DOMAIN f \ {u} |-> f[v]]
TextOf(f, u) == IF u \in DOMAIN f THEN f[u] ELSE NoText

-----------------------------------------------------------------------------
(* The client.  A message is a header, its end, and a body.                *)
Piece(is, i) == [is |-> is, of |-> i]
Body(i) == <<Piece("body", i), Piece("body", i)>>
Framed(i, header) == <<Piece(header, i), Piece("blank line", i)>> \o Body(i)

Sends(message, header) ==
    /\ Len(sent) < MaxMessages
    /\ sent' = Append(sent, message)
    /\ wire' = wire \o Framed(Len(sent) + 1, header)
    /\ UNCHANGED <<buf, docs, shuttingDown, exited, replied, shown>>
Message(method, u, texts) == [method |-> method, uri |-> u, texts |-> texts]

Opens(u, t) ==
    /\ u \notin DOMAIN editor
    /\ editor' = With(editor, u, t)
    /\ Sends(Message("didOpen", u, <<t>>), "length")

(* Several changes, of which the last is the whole text; or none.          *)
Changes(u, ts) ==
    /\ u \in DOMAIN editor
    /\ editor' = IF ts = << >> THEN editor ELSE With(editor, u, ts[Len(ts)])
    /\ Sends(Message("didChange", u, ts), "length")

Closes(u) ==
    /\ u \in DOMAIN editor
    /\ editor' = Without(editor, u)
    /\ Sends(Message("didClose", u, << >>), "length")

Asks(u) ==
    /\ Sends(Message("ask", u, <<TextOf(editor, u)>>), "length")
    /\ UNCHANGED editor

(* The rest: requests, notifications, and what is neither.                 *)
Misshapen == {"bad request", "bad notification"}
Others == {"unknown", "ignored", "shutdown", "exit", "no json"} \cup Misshapen
SendsOther(method) ==
    /\ Sends(Message(method, CHOOSE u \in Uri : TRUE, << >>), "length")
    /\ UNCHANGED editor
SendsHeadless ==
    /\ Sends(Message("headless", CHOOSE u \in Uri : TRUE, << >>), "no length")
    /\ UNCHANGED editor

-----------------------------------------------------------------------------
(* The server: the loop takes what it can, then waits for a chunk.         *)
Ends == {p \in DOMAIN buf : buf[p].is = "blank line"}
HeaderEnd == CHOOSE p \in Ends : \A q \in Ends : p <= q
HasLength == \E p \in 1..HeaderEnd : buf[p].is = "length"
After == HeaderEnd + 2
Serving == exited = "none"
CanSkip == Ends # {} /\ ~HasLength
CanTake == Ends # {} /\ HasLength /\ Len(buf) >= After

(* Operators named ..._Bug are what a plausible mistake would make of the  *)
(* definition that follows; no action uses them.                           *)

(* Bug: the chunk takes the place of what is held.                         *)
Arrives_Bug(k) ==
    /\ Serving /\ ~CanSkip /\ ~CanTake
    /\ buf' = SubSeq(wire, 1, k)
    /\ wire' = SubSeq(wire, k + 1, Len(wire))
    /\ UNCHANGED <<clientVars, docs, shuttingDown, exited, replied, shown>>

Arrives(k) ==
    /\ Serving /\ ~CanSkip /\ ~CanTake
    /\ buf' = buf \o SubSeq(wire, 1, k)
    /\ wire' = SubSeq(wire, k + 1, Len(wire))
    /\ UNCHANGED <<clientVars, docs, shuttingDown, exited, replied, shown>>

(* A header without a length is dropped; its body, when that comes, stands *)
(* before the next header and is dropped with it.                          *)
SkipHeader ==
    /\ Serving /\ CanSkip
    /\ buf' = SubSeq(buf, HeaderEnd + 1, Len(buf))
    /\ UNCHANGED <<clientVars, wire, docs, shuttingDown, exited, replied, shown>>

Taken(methods) ==
    /\ Serving /\ CanTake
    /\ SubSeq(buf, HeaderEnd + 1, After) = Body(buf[HeaderEnd].of)
    /\ sent[buf[HeaderEnd].of].method \in methods
    /\ buf' = SubSeq(buf, After + 1, Len(buf))
    /\ UNCHANGED <<clientVars, wire>>
Msg == sent[buf[HeaderEnd].of]

Replies(with) == replied' = Append(replied, [to |-> buf[HeaderEnd].of, with |-> with])
Publish(u, t) == docs' = With(docs, u, t) /\ shown' = With(shown, u, t)

DidOpen ==
    /\ Taken({"didOpen"})
    /\ Publish(Msg.uri, Msg.texts[1])
    /\ UNCHANGED <<shuttingDown, exited, replied>>

(* Bug: the first change is taken for the text.                            *)
DidChange_Bug ==
    /\ Taken({"didChange"})
    /\ Publish(Msg.uri, IF Msg.texts = << >> THEN TextOf(docs, Msg.uri) ELSE Msg.texts[1])
    /\ UNCHANGED <<shuttingDown, exited, replied>>

DidChange ==
    /\ Taken({"didChange"})
    /\ Publish(Msg.uri, IF Msg.texts = << >> THEN TextOf(docs, Msg.uri) ELSE Msg.texts[Len(Msg.texts)])
    /\ UNCHANGED <<shuttingDown, exited, replied>>

(* What was published of the document stays.                               *)
DidClose ==
    /\ Taken({"didClose"})
    /\ docs' = Without(docs, Msg.uri)
    /\ UNCHANGED <<shuttingDown, exited, replied, shown>>

Answer ==
    /\ Taken({"ask"})
    /\ Replies(TextOf(docs, Msg.uri))
    /\ UNCHANGED <<docs, shuttingDown, exited, shown>>

Shutdown ==
    /\ Taken({"shutdown"})
    /\ shuttingDown' = TRUE /\ Replies("null")
    /\ UNCHANGED <<docs, exited, shown>>

Exit ==
    /\ Taken({"exit"})
    /\ exited' = IF shuttingDown THEN "0" ELSE "1"
    /\ UNCHANGED <<docs, shuttingDown, replied, shown>>

(* Whatever handle throws is an answer, if one is owed; nothing else is.   *)
Refuse ==
    /\ Taken({"unknown", "bad request"})
    /\ Replies("error")
    /\ UNCHANGED <<docs, shuttingDown, exited, shown>>
Ignore ==
    /\ Taken({"no json", "ignored", "bad notification"})
    /\ UNCHANGED <<docs, shuttingDown, exited, replied, shown>>

Client ==
    \/ \E u \in Uri, t \in Texts : Opens(u, t) \/ Changes(u, <<t>>)
    \/ \E u \in Uri : Changes(u, << >>) \/ Closes(u) \/ Asks(u)
    \/ \E u \in Uri, t1, t2 \in Texts : Changes(u, <<t1, t2>>)
    \/ SendsHeadless \/ \E method \in Others : SendsOther(method)
Handle == DidOpen \/ DidChange \/ DidClose \/ Answer \/ Shutdown \/ Exit \/ Refuse \/ Ignore
SessionNext == Client \/ (\E k \in DOMAIN wire : Arrives(k)) \/ SkipHeader \/ Handle

SessionSpec == SessionInit /\ [][SessionNext]_sessionVars
-----------------------------------------------------------------------------
Idle == Serving /\ wire = << >> /\ ~CanSkip /\ ~CanTake

(* However the messages were cut and what stood between them: when all     *)
(* have come, the server has the texts the editor shows, and the           *)
(* diagnostics beside each open document are of the text it shows.         *)
EditorMirrored == Idle =>
    /\ docs = editor
    /\ \A u \in DOMAIN editor : u \in DOMAIN shown /\ shown[u] = editor[u]

(* Every request is answered once, in turn, about the text its document    *)
(* had in the editor when it was sent (lsp.test.js:112-123): the answers   *)
(* are what is owed, later ones are to later requests, and no request is   *)
(* passed over or, when all have come, left.                               *)
Owed == {i \in DOMAIN sent : sent[i].method \in {"ask", "shutdown", "unknown", "bad request"}}
Owing(m) == CASE m.method = "ask" -> m.texts[1]
              [] m.method = "shutdown" -> "null"
              [] OTHER -> "error"
AnsweredAsAsked ==
    /\ \A p \in DOMAIN replied :
         LET to == replied[p].to IN to \in Owed /\ replied[p].with = Owing(sent[to])
    /\ \A p, q \in DOMAIN replied : p < q => replied[p].to < replied[q].to
    /\ \A i \in Owed :
         Idle \/ (\E p \in DOMAIN replied : i < replied[p].to) => \E p \in DOMAIN replied : replied[p].to = i
=============================================================================
