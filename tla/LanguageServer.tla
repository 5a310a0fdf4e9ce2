--------------------------- MODULE LanguageServer ---------------------------
(* The language server (src/toolchain/language_server): one process that    *)
(* reads JSON-RPC messages from an editor, handles each to its end and      *)
(* writes notifications and responses back, over a pair of pipes.           *)
(*                                                                          *)
(* A text is the number of the edit that made it: no two are alike, and     *)
(* what is computed from a text (diagnostics, the answer to a query) is     *)
(* named by it.  Texts in TooLarge do not fit a source buffer.  The editor  *)
(* is external: it keeps to the protocol the server declares (a change is   *)
(* the whole text, and nothing follows exit).  A pipe holds at most Capacity *)
(* messages, so that both sides may have to wait.                           *)
EXTENDS Naturals, Sequences, SequencesExt

CONSTANTS
  Uris,          \* documents
  TooLarge,      \* the texts that do not fit a source buffer
  MaxEdits,      \* bound: edits of the editor
  MaxRequests,   \* bound: requests of the editor
  Capacity       \* bound: messages in a pipe

ASSUME BoundsAssumption ==
  /\ MaxEdits \in Nat /\ MaxRequests \in Nat
  /\ Capacity \in Nat \ {0}
  /\ TooLarge \subseteq 1 .. MaxEdits

Nothing == 0                     \* no text: closed document, empty result
NoUri == "no uri"

ASSUME UriAssumption == NoUri \notin Uris

Texts == 0 .. MaxEdits

Queries == {"definition", "hover", "completion"}
Requests == Queries \cup {"initialize", "shutdown", "unknown"}
Unanswered == {"initialized", "exit", "not an object", "not JSON"}
Updates == {"didOpen", "didChange", "didClose"}

Messages ==
  [kind : Requests \cup Unanswered \cup Updates, uri : Uris \cup {NoUri},
   text : Texts, id : 0 .. MaxRequests]
Replies ==
  [kind : {"publish", "answer"}, uri : Uris \cup {NoUri},
   text : Texts, id : 0 .. MaxRequests]

VARIABLES
  \* the editor
  text,          \* the text of each document, Nothing when it is closed
  shown,         \* the diagnostics it shows: those of a text, or Nothing
  edits,         \* edits so far
  wanted,        \* for each request, the text it was about when it was sent
  answered,      \* the ids of the answers received, in order
  input,         \* "open", "exiting" (exit is sent) or "closed"
  asked,         \* shutdown has been sent
  garbled,       \* something that is not JSON has been sent
  \* the pipes
  inbox, outbox,
  \* the server
  documents,     \* for each document, the state kept, or NoState
  shutdownRequested,
  phase          \* "running", then "clean" or "unclean"

editorVars == <<text, shown, edits, wanted, answered, input, asked, garbled>>
serverVars == <<documents, shutdownRequested, phase>>
vars == <<editorVars, inbox, outbox, serverVars>>

NoState == [open |-> FALSE, tokens |-> FALSE, text |-> Nothing]
States == [open : BOOLEAN, tokens : BOOLEAN, text : Texts]

Init ==
  /\ text = [u \in Uris |-> Nothing]
  /\ shown = [u \in Uris |-> Nothing]
  /\ edits = 0 /\ wanted = <<>> /\ answered = <<>>
  /\ input = "open" /\ asked = FALSE /\ garbled = FALSE
  /\ inbox = <<>> /\ outbox = <<>>
  /\ documents = [u \in Uris |-> NoState]
  /\ shutdownRequested = FALSE
  /\ phase = "running"

-----------------------------------------------------------------------------
(* The editor.                                                              *)

Send(m) ==
  /\ input = "open"
  /\ Len(inbox) < Capacity
  /\ inbox' = Append(inbox, m)
  /\ UNCHANGED <<outbox, serverVars, shown, answered>>

Message(kind, u, t, i) == [kind |-> kind, uri |-> u, text |-> t, id |-> i]

SendUpdate(kind, u, t) ==
  /\ Send(Message(kind, u, t, 0))
  /\ text' = [text EXCEPT ![u] = t]
  /\ UNCHANGED <<wanted, input, asked, garbled>>

\* A document is opened or changed: the message carries the whole text.
EditText(kind, u) ==
  /\ edits < MaxEdits
  /\ edits' = edits + 1
  /\ SendUpdate(kind, u, edits + 1)

OpenDocument(u) == text[u] = Nothing /\ EditText("didOpen", u)
ChangeDocument(u) == text[u] # Nothing /\ EditText("didChange", u)

CloseDocument(u) ==
  /\ text[u] # Nothing
  /\ SendUpdate("didClose", u, Nothing)
  /\ UNCHANGED edits

\* A change notification whose list of changes is empty.
SendNoChange(u) ==
  /\ text[u] # Nothing
  /\ Send(Message("didChange", u, Nothing, 0))
  /\ UNCHANGED <<text, edits, wanted, input, asked, garbled>>

SendRequest(kind, u) ==
  /\ Len(wanted) < MaxRequests
  /\ Send(Message(kind, u, Nothing, Len(wanted) + 1))
  /\ wanted' = Append(wanted, IF u = NoUri THEN Nothing ELSE text[u])
  /\ asked' = (asked \/ kind = "shutdown")
  /\ UNCHANGED <<text, edits, input, garbled>>

Query(u) == \E kind \in Queries : SendRequest(kind, u)

\* A request about no document, a query without parameters among them.
Request == \E kind \in Requests : SendRequest(kind, NoUri)

SendUnanswered ==
  \E kind \in Unanswered :
    /\ Send(Message(kind, NoUri, Nothing, 0))
    /\ input' = IF kind = "exit" THEN "exiting" ELSE input
    /\ garbled' = (garbled \/ kind = "not JSON")
    /\ UNCHANGED <<text, edits, wanted, asked>>

CloseInput ==
  /\ input # "closed"
  /\ input' = "closed"
  /\ UNCHANGED <<text, shown, edits, wanted, answered, asked, garbled,
                 inbox, outbox, serverVars>>

\* The editor takes the next message of the server.
Receive ==
  /\ outbox # <<>>
  /\ LET m == Head(outbox) IN
       IF m.kind = "publish"
       THEN /\ shown' = [shown EXCEPT ![m.uri] = m.text]
            /\ UNCHANGED answered
       ELSE /\ answered' = Append(answered, m.id)
            /\ UNCHANGED shown
  /\ outbox' = Tail(outbox)
  /\ UNCHANGED <<text, edits, wanted, input, asked, garbled, inbox,
                 serverVars>>

-----------------------------------------------------------------------------
(* The server.                                                              *)

Diagnostics(t) == IF t \in TooLarge THEN Nothing ELSE t

\* The next message is of this kind, and is taken from the pipe.
ReadMessage(kind) ==
  /\ phase = "running"
  /\ inbox # <<>> /\ Head(inbox).kind = kind
  /\ inbox' = Tail(inbox)
  /\ UNCHANGED editorVars

WriteMessage(m) ==
  /\ Len(outbox) < Capacity
  /\ outbox' = Append(outbox, m)

SendResponse(m, t) == WriteMessage(Message("answer", m.uri, t, m.id))
Publish(u, t) == WriteMessage(Message("publish", u, t, 0))

\* Mutant: nothing is published for a text without a buffer.
CompileOrReturn(u, t) ==
  /\ documents' = [documents EXCEPT
       ![u] = [open |-> TRUE, tokens |-> t \notin TooLarge, text |-> t]]
  /\ IF t \in TooLarge THEN UNCHANGED outbox ELSE Publish(u, t)
  /\ UNCHANGED <<shutdownRequested, phase>>

\* The state is stored first; one without a buffer has no tokens.
CompileAndPublishDiagnostics(u, t) ==
  /\ documents' = [documents EXCEPT
       ![u] = [open |-> TRUE, tokens |-> t \notin TooLarge, text |-> t]]
  /\ Publish(u, Diagnostics(t))
  /\ UNCHANGED <<shutdownRequested, phase>>

HandleDidOpen ==
  /\ ReadMessage("didOpen")
  /\ CompileAndPublishDiagnostics(Head(inbox).uri, Head(inbox).text)

\* Mutant: a change publishes, and the compilation is not kept.
ChangeNotKept ==
  /\ ReadMessage("didChange")
  /\ Head(inbox).text # Nothing
  /\ Publish(Head(inbox).uri, Diagnostics(Head(inbox).text))
  /\ UNCHANGED serverVars

HandleDidChange ==
  /\ ReadMessage("didChange")
  /\ Head(inbox).text # Nothing
  /\ CompileAndPublishDiagnostics(Head(inbox).uri, Head(inbox).text)

\* The list of changes is empty.
IgnoreDidChange ==
  /\ ReadMessage("didChange")
  /\ Head(inbox).text = Nothing
  /\ UNCHANGED <<outbox, serverVars>>

\* Mutant: closing a document does not clear what is shown for it.
CloseSilently ==
  /\ ReadMessage("didClose")
  /\ documents' = [documents EXCEPT ![Head(inbox).uri] = NoState]
  /\ UNCHANGED <<outbox, shutdownRequested, phase>>

HandleDidClose ==
  /\ ReadMessage("didClose")
  /\ documents' = [documents EXCEPT ![Head(inbox).uri] = NoState]
  /\ Publish(Head(inbox).uri, Nothing)
  /\ UNCHANGED <<shutdownRequested, phase>>

\* What is known of a document: nothing without its tokens.
Known(u) ==
  IF u # NoUri /\ documents[u].open /\ documents[u].tokens
  THEN documents[u].text ELSE Nothing

\* The position may hold no token, or one without an instruction or a scope;
\* otherwise the place, the type or the names found are those of the text t.
FoundIn(t) == {t, Nothing}

\* Mutant: a query about an unknown document returns without an answer.
QueryOrReturn(kind) ==
  /\ ReadMessage(kind)
  /\ IF Known(Head(inbox).uri) = Nothing THEN UNCHANGED outbox
     ELSE SendResponse(Head(inbox), Known(Head(inbox).uri))
  /\ UNCHANGED serverVars

HandleQuery(kind) ==
  /\ ReadMessage(kind)
  /\ \E t \in FoundIn(Known(Head(inbox).uri)) : SendResponse(Head(inbox), t)
  /\ UNCHANGED serverVars

HandleDefinition == HandleQuery("definition")
HandleHover == HandleQuery("hover")
HandleCompletion == HandleQuery("completion")

HandleInitialize ==
  /\ ReadMessage("initialize")
  /\ SendResponse(Head(inbox), Nothing)
  /\ UNCHANGED serverVars

\* Mutant: shutdown is answered and not remembered.
ShutdownForgotten ==
  /\ ReadMessage("shutdown")
  /\ SendResponse(Head(inbox), Nothing)
  /\ UNCHANGED serverVars

HandleShutdown ==
  /\ ReadMessage("shutdown")
  /\ shutdownRequested' = TRUE
  /\ SendResponse(Head(inbox), Nothing)
  /\ UNCHANGED <<documents, phase>>

\* Mutant: an unknown method is ignored.
IgnoreUnknown == ReadMessage("unknown") /\ UNCHANGED <<outbox, serverVars>>

\* A request of an unknown method is answered with an error.
HandleUnknown ==
  /\ ReadMessage("unknown")
  /\ SendResponse(Head(inbox), Nothing)
  /\ UNCHANGED serverVars

\* A message that is not an object is skipped; initialized does nothing.
Skip ==
  /\ \E kind \in {"initialized", "not an object"} : ReadMessage(kind)
  /\ UNCHANGED <<outbox, serverVars>>

Return ==
  /\ phase' = IF shutdownRequested THEN "clean" ELSE "unclean"
  /\ UNCHANGED <<outbox, documents, shutdownRequested>>

HandleExit == ReadMessage("exit") /\ Return

\* A body that does not parse ends the loop as the end of the input does.
ReadError == ReadMessage("not JSON") /\ Return

\* No header can be read: there is no content length.
EndOfInput ==
  /\ phase = "running"
  /\ input = "closed" /\ inbox = <<>>
  /\ Return
  /\ UNCHANGED <<editorVars, inbox>>

HandleMessage ==
  \/ HandleInitialize \/ HandleDidOpen \/ HandleDidChange
  \/ IgnoreDidChange \/ HandleDidClose \/ HandleDefinition
  \/ HandleHover \/ HandleCompletion \/ HandleShutdown \/ HandleUnknown

Run == HandleMessage \/ Skip \/ HandleExit \/ ReadError \/ EndOfInput

-----------------------------------------------------------------------------

Editor ==
  \/ \E u \in Uris : \/ OpenDocument(u) \/ ChangeDocument(u)
                     \/ CloseDocument(u) \/ SendNoChange(u) \/ Query(u)
  \/ Request \/ SendUnanswered \/ CloseInput

\* The server has returned, and the editor has read everything.
Terminated ==
  /\ phase # "running" /\ outbox = <<>>
  /\ UNCHANGED vars

Next == Editor \/ Receive \/ Run \/ Terminated

Spec == Init /\ [][Next]_vars

\* The loop of the server goes on while it has a message, and the editor
\* reads what the server writes.
FairSpec == Spec /\ WF_vars(Run) /\ WF_vars(Receive)

-----------------------------------------------------------------------------
(* Properties.                                                              *)

\* Every variable has its type: the queues hold messages and replies.
TypeOK ==
  /\ text \in [Uris -> Texts] /\ shown \in [Uris -> Texts]
  /\ edits \in Texts
  /\ wanted \in Seq(Texts) /\ Len(wanted) <= MaxRequests
  /\ answered \in Seq(1 .. MaxRequests)
  /\ input \in {"open", "exiting", "closed"}
  /\ asked \in BOOLEAN /\ garbled \in BOOLEAN
  /\ inbox \in Seq(Messages) /\ Len(inbox) <= Capacity
  /\ outbox \in Seq(Replies) /\ Len(outbox) <= Capacity
  /\ documents \in [Uris -> States]
  /\ shutdownRequested \in BOOLEAN
  /\ phase \in {"running", "clean", "unclean"}

Ids(queue) == {queue[i].id : i \in DOMAIN queue} \ {0}
Ascending(queue) ==
  \A i, j \in DOMAIN queue :
    i < j /\ queue[i].id # 0 /\ queue[j].id # 0 => queue[i].id < queue[j].id

\* Every request that was sent is answered, on its way as an answer or still
\* waiting, once, and the answers keep the order of the requests: each
\* handler answers on all of its early returns (server.cpp:527-1013).
AnsweredInOrder ==
  /\ answered = [i \in 1 .. Len(answered) |-> i]
  /\ \E n \in Len(answered) .. Len(wanted) :
       /\ Ids(outbox) = Len(answered) + 1 .. n
       /\ Ids(inbox) = n + 1 .. Len(wanted)
  /\ Ascending(outbox) /\ Ascending(inbox)

\* An answer that found something found it in the text the document had when
\* the editor asked, not in one compiled before or after (server.cpp:552).
AnswersAreCurrent ==
  \A i \in DOMAIN outbox :
    LET m == outbox[i]
    IN  m.kind = "answer" /\ m.text # Nothing => m.text = wanted[m.id]

\* When all messages are handled and read, the editor shows the diagnostics
\* of the text it holds, and none for a closed document or one without buffer.
ShownIsFresh ==
  phase = "running" /\ inbox = <<>> /\ outbox = <<>>
    => \A u \in Uris : shown[u] = Diagnostics(text[u])

\* What the server tells the editor is right: each request is answered once,
\* in its turn and from the text it was about, and what is shown is that of
\* the text the editor holds.
RepliesAreRight ==
  TypeOK /\ AnsweredInOrder /\ AnswersAreCurrent /\ ShownIsFresh

IsUpdate(m) ==
  \/ m.kind \in {"didOpen", "didClose"}
  \/ m.kind = "didChange" /\ m.text # Nothing

\* The results of the messages of a queue at the given places, in order.
ResultsOf(queue, places) ==
  LET results[n \in 0 .. Len(queue)] ==
        IF n = 0 THEN <<>>
        ELSE IF n \in places
             THEN Append(results[n - 1], Diagnostics(queue[n].text))
             ELSE results[n - 1]
  IN  results[Len(queue)]

Published(u) ==
  {i \in DOMAIN outbox : outbox[i].kind = "publish" /\ outbox[i].uri = u}
Updating(u) == {i \in DOMAIN inbox : IsUpdate(inbox[i]) /\ inbox[i].uri = u}

\* The results that are due for a document: those on their way to the editor,
\* then those of the updates on their way to the server.
Due(u) == ResultsOf(outbox, Published(u)) \o ResultsOf(inbox, Updating(u))

Feed == INSTANCE DiagnosticsFeed WITH
  Results <- Texts, unseen <- [u \in Uris |-> Due(u)]

\* The editor is shown the diagnostics of every state of a document, in the
\* order of its edits: none is skipped, repeated or shown for another document.
ImplementsFeed == Feed!FeedSpec

\* Every request is answered, or the server returns before its turn.
RequestsAreAnswered ==
  \A i \in 1 .. MaxRequests :
    Len(wanted) >= i ~> Len(answered) >= i \/ phase # "running"

\* The server returns once the editor has sent exit or closed its input, and
\* returns success if the editor has sent shutdown before and nothing that is
\* not JSON, and only if it has sent shutdown.
ServerEnds ==
  input # "open" ~>
    \/ phase = "clean" /\ asked
    \/ phase = "unclean" /\ (~asked \/ garbled)

\* The server neither leaves a request nor stays for ever.
ServesAndEnds == RequestsAreAnswered /\ ServerEnds
=============================================================================
