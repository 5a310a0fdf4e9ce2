------------------------ MODULE LanguageServerProofs ------------------------
(***************************************************************************)
(* What the language server tells the editor is right, for any documents,  *)
(* any texts too large for a buffer, any numbers of edits and requests and *)
(* pipes of any capacity.                                                  *)
(*                                                                         *)
(* The argument follows a text from the editor, through one pipe, into the *)
(* server, and what was computed from it back through the other pipe.      *)
(* Last comes the promise about diagnostics, DiagnosticsFeed.              *)
(***************************************************************************)
EXTENDS LanguageServer, SequenceTheorems, WellFoundedInduction, TLAPS

-----------------------------------------------------------------------------
(* The invariant.                                                          *)

\* Only requests and answers have a number, and what is about a document
\* names it.
MessageIsSound(m) ==
  /\ m.kind \in Requests <=> m.id # 0
  /\ m.kind \in Updates => m.uri \in Uris
  /\ m.kind \in {"didOpen", "didClose"} => IsUpdate(m)
  /\ m.kind = "didOpen" => m.text # Nothing
  /\ m.kind = "didClose" => m.text = Nothing

ReplyIsSound(m) ==
  /\ m.kind = "answer" <=> m.id # 0
  /\ m.kind = "publish" => m.uri \in Uris

MessagesAreSound ==
  /\ \A i \in 1 .. Len(inbox) : MessageIsSound(inbox[i])
  /\ \A i \in 1 .. Len(outbox) : ReplyIsSound(outbox[i])

\* The texts that reach the server come from updates, the diagnostics that
\* reach the editor from what the server publishes.
UpdateAt(queue, i, u) == IsUpdate(queue[i]) /\ queue[i].uri = u
ResultAt(queue, i, u) == queue[i].kind = "publish" /\ queue[i].uri = u

\* t is the text of u when the server has handled the next n messages.
TextAfter(docs, queue, u, n, t) ==
  \/ docs[u].text = t /\ \A k \in 1 .. n : ~UpdateAt(queue, k, u)
  \/ \E j \in 1 .. n :
       /\ UpdateAt(queue, j, u) /\ queue[j].text = t
       /\ \A k \in j + 1 .. n : ~UpdateAt(queue, k, u)

\* The editor shows t for u when it has received all replies.
ShownAfter(seen, queue, u, t) ==
  \/ seen[u] = t /\ \A k \in 1 .. Len(queue) : ~ResultAt(queue, k, u)
  \/ \E j \in 1 .. Len(queue) :
       /\ ResultAt(queue, j, u) /\ queue[j].text = t
       /\ \A k \in j + 1 .. Len(queue) : ~ResultAt(queue, k, u)

\* The server is going to have the text of the editor, and to have, when it
\* comes to a query, the text of the editor at that time; the editor is going
\* to show the diagnostics of the text the server has.
TextsArrive ==
  \A u \in Uris : TextAfter(documents, inbox, u, Len(inbox), text[u])
QueriesAreTimely ==
  \A i \in 1 .. Len(inbox) :
    inbox[i].kind \in Queries /\ inbox[i].uri \in Uris
      => TextAfter(documents, inbox, inbox[i].uri, i - 1, wanted[inbox[i].id])
ResultsArrive ==
  \A u \in Uris :
    ShownAfter(shown, outbox, u, Diagnostics(documents[u].text))

Flow == TextsArrive /\ QueriesAreTimely /\ ResultsArrive

IInv == TypeOK /\ AnsweredInOrder /\ MessagesAreSound /\ Flow
          /\ AnswersAreCurrent

-----------------------------------------------------------------------------
(* What a step does to texts, requests and pipes.                          *)

Read == inbox # <<>> /\ inbox' = Tail(inbox) /\ UNCHANGED editorVars

\* The server takes up a text and says so.
TakesUpdate(m) ==
  /\ Read /\ IsUpdate(m)
  /\ outbox' = Append(outbox, Message("publish", m.uri, Diagnostics(m.text), 0))
  /\ \E d \in States : /\ d.text = m.text
                       /\ documents' = [documents EXCEPT ![m.uri] = d]

\* The server answers, from the text it has if from any.
TakesRequest(m) ==
  /\ Read /\ m.kind \in Requests
  /\ \E t \in Texts :
       /\ outbox' = Append(outbox, Message("answer", m.uri, t, m.id))
       /\ t # Nothing => /\ m.kind \in Queries /\ m.uri # NoUri
                         /\ t = documents[m.uri].text
  /\ UNCHANGED documents

TakesOther(m) ==
  /\ Read /\ ~IsUpdate(m) /\ m.kind \notin Requests
  /\ UNCHANGED <<outbox, documents>>

Sent(m) ==
  /\ m \in Messages /\ MessageIsSound(m)
  /\ inbox' = Append(inbox, m)
  /\ UNCHANGED <<outbox, documents, shown, answered>>

SendsUpdate(m) ==
  /\ Sent(m) /\ IsUpdate(m) /\ m.uri \in Uris /\ m.id = 0
  /\ text' = [text EXCEPT ![m.uri] = m.text]
  /\ UNCHANGED wanted

SendsRequest(m) ==
  /\ Sent(m) /\ m.kind \in Requests /\ m.id = Len(wanted) + 1
  /\ \E t \in Texts : /\ wanted' = Append(wanted, t)
                      /\ m.uri \in Uris => t = text[m.uri]
  /\ UNCHANGED text

SendsOther(m) ==
  /\ Sent(m) /\ ~IsUpdate(m) /\ m.kind \notin Requests /\ m.id = 0
  /\ m.kind \in Updates => m.kind = "didChange" /\ m.uri \in Uris
  /\ UNCHANGED <<text, wanted>>

\* Neither side has touched a pipe.
Rests == UNCHANGED <<text, shown, wanted, answered, inbox, outbox, documents>>

LEMMA UpdateKinds == \A m : IsUpdate(m) => m.kind \in Updates /\ m.kind \notin Requests
  BY DEF IsUpdate, Updates, Requests, Queries

\* Every message the editor makes is one.
LEMMA MessageType ==
  ASSUME NEW kind \in Requests \cup Unanswered \cup Updates,
         NEW u \in Uris \cup {NoUri}, NEW t \in Texts, NEW i \in 0 .. MaxRequests
  PROVE  Message(kind, u, t, i) \in Messages
  BY DEF Message, Messages

LEMMA UpdateType ==
  ASSUME NEW kind \in {"didOpen", "didChange", "didClose"}, NEW u \in Uris,
         NEW t \in Texts
  PROVE  Message(kind, u, t, 0) \in Messages
  <1>1. kind \in Updates /\ 0 \in 0 .. MaxRequests
    BY BoundsAssumption DEF Updates
  <1> QED BY <1>1, MessageType

\* Every action of the editor sends one message of the three sorts, or none.
LEMMA EditorSteps ==
  ASSUME TypeOK, Editor
  PROVE  \/ \E m \in Messages : SendsUpdate(m) \/ SendsRequest(m) \/ SendsOther(m)
         \/ Rests
  <1> USE DEF TypeOK, Sent, Send, serverVars, Nothing
  <1>1. ASSUME NEW u \in Uris, OpenDocument(u) \/ ChangeDocument(u)
        PROVE  \E m \in Messages : SendsUpdate(m)
    <2>1. PICK kind \in {"didOpen", "didChange"} : EditText(kind, u)
      BY <1>1 DEF OpenDocument, ChangeDocument
    <2> DEFINE m == Message(kind, u, edits + 1, 0)
    <2>2. edits + 1 \in Texts /\ edits + 1 # 0
      BY <2>1, BoundsAssumption DEF EditText, Texts
    <2>3. m \in Messages
      BY <2>2, UpdateType
    <2>4. SendsUpdate(m)
      BY <2>1, <2>2, <2>3
         DEF EditText, SendUpdate, SendsUpdate, IsUpdate, Message,
             MessageIsSound, Updates, Requests, Queries
    <2> QED BY <2>3, <2>4
  <1>2. ASSUME NEW u \in Uris, CloseDocument(u)
        PROVE  \E m \in Messages : SendsUpdate(m)
    <2> DEFINE m == Message("didClose", u, Nothing, 0)
    <2>1. m \in Messages
      BY UpdateType, BoundsAssumption DEF Texts
    <2>2. SendsUpdate(m)
      BY <1>2, <2>1
         DEF CloseDocument, SendUpdate, SendsUpdate, IsUpdate, Message,
             MessageIsSound, Updates, Requests, Queries
    <2> QED BY <2>1, <2>2
  <1>3. ASSUME NEW u \in Uris, SendNoChange(u)
        PROVE  \E m \in Messages : SendsOther(m)
    <2> DEFINE m == Message("didChange", u, Nothing, 0)
    <2>1. m \in Messages
      BY UpdateType, BoundsAssumption DEF Texts
    <2>2. SendsOther(m)
      BY <1>3, <2>1 DEF SendNoChange, SendsOther, IsUpdate, Message, Updates,
                        Requests, Queries, MessageIsSound
    <2> QED BY <2>1, <2>2
  <1>4. ASSUME NEW kind \in Requests, NEW u \in Uris \cup {NoUri},
               SendRequest(kind, u)
        PROVE  \E m \in Messages : SendsRequest(m)
    <2> DEFINE m == Message(kind, u, Nothing, Len(wanted) + 1)
               t == IF u = NoUri THEN Nothing ELSE text[u]
    <2>1. Len(wanted) + 1 \in 0 .. MaxRequests
      BY <1>4, BoundsAssumption DEF SendRequest
    <2>2. Nothing \in Texts
      BY BoundsAssumption DEF Texts
    <2>2a. m \in Messages
      BY <2>1, <2>2, MessageType
    <2>3. t \in Texts
      BY <2>2
    <2>4. SendsRequest(m)
      BY <1>4, <2>2a, <2>3, UriAssumption DEF SendRequest, SendsRequest, Message,
                   MessageIsSound, IsUpdate, Updates, Requests, Queries
    <2> QED BY <2>2a, <2>4
  <1>5. ASSUME SendUnanswered
        PROVE  \E m \in Messages : SendsOther(m)
    <2>1. PICK kind \in Unanswered : Send(Message(kind, NoUri, Nothing, 0))
      BY <1>5 DEF SendUnanswered
    <2> DEFINE m == Message(kind, NoUri, Nothing, 0)
    <2>1a. Nothing \in Texts /\ 0 \in 0 .. MaxRequests
      BY BoundsAssumption DEF Texts
    <2>2. m \in Messages
      BY <2>1a, MessageType
    <2>3. kind \notin Updates \cup Requests
      BY DEF Unanswered, Updates, Requests, Queries
    <2>4. SendsOther(m)
      BY <1>5, <2>1, <2>2, <2>3
         DEF SendUnanswered, SendsOther, IsUpdate, Message, Updates,
             MessageIsSound
    <2> QED BY <2>2, <2>4
  <1>6. ASSUME CloseInput
        PROVE  Rests
    BY <1>6 DEF CloseInput, Rests
  <1>7. Queries \subseteq Requests
    BY DEF Requests
  <1> QED
    BY <1>1, <1>2, <1>3, <1>4, <1>5, <1>6, <1>7 DEF Editor, Query, Request

\* Every action of the server takes the next message, of one of the three
\* sorts, or none.
LEMMA ServerSteps ==
  ASSUME TypeOK, MessagesAreSound, Run
  PROVE  \/ TakesUpdate(Head(inbox)) \/ TakesRequest(Head(inbox))
         \/ TakesOther(Head(inbox)) \/ Rests
  <1> DEFINE m == Head(inbox)
  <1>1. inbox # <<>> => m \in Messages /\ MessageIsSound(m)
    BY DEF TypeOK, MessagesAreSound
  <1>2. ASSUME NEW kind, ReadMessage(kind)
        PROVE  Read /\ m.kind = kind /\ m \in Messages /\ MessageIsSound(m)
    BY <1>1, <1>2 DEF ReadMessage, Read
  <1>3. ASSUME Read, IsUpdate(m), m.uri \in Uris, m.text \in Texts,
               CompileAndPublishDiagnostics(m.uri, m.text)
        PROVE  TakesUpdate(m)
    <2> DEFINE d == [open |-> TRUE, tokens |-> m.text \notin TooLarge,
                     text |-> m.text]
    <2>1. d \in States
      BY <1>3 DEF States
    <2> QED
      BY <1>3, <2>1 DEF CompileAndPublishDiagnostics, TakesUpdate, Publish,
                        WriteMessage
  <1>4. CASE HandleDidOpen
    BY <1>2, <1>3, <1>4
       DEF HandleDidOpen, MessageIsSound, Updates, Messages
  <1>5. CASE HandleDidChange
    BY <1>2, <1>3, <1>5
       DEF HandleDidChange, MessageIsSound, Updates, Messages, IsUpdate
  <1>6. CASE HandleDidClose
    <2>1. Read /\ IsUpdate(m) /\ m.text = Nothing
      BY <1>2, <1>6 DEF HandleDidClose, MessageIsSound
    <2>2. NoState \in States /\ NoState.text = Nothing
      BY BoundsAssumption DEF NoState, States, Texts, Nothing
    <2>3. Diagnostics(m.text) = Nothing
      BY <2>1 DEF Diagnostics
    <2>4. documents' = [documents EXCEPT ![m.uri] = NoState]
      BY <1>6 DEF HandleDidClose
    <2>5. outbox' = Append(outbox, Message("publish", m.uri, Nothing, 0))
      BY <1>6 DEF HandleDidClose, Publish, WriteMessage
    <2> QED
      BY <2>1, <2>2, <2>3, <2>4, <2>5 DEF TakesUpdate
  <1>7. CASE IgnoreDidChange
    BY <1>2, <1>7 DEF IgnoreDidChange, TakesOther, IsUpdate, serverVars,
                      Requests, Queries
  <1>8. ASSUME NEW kind \in Queries, HandleQuery(kind)
        PROVE  TakesRequest(m)
    <2>1. Read /\ m.kind = kind /\ m \in Messages
      BY <1>2, <1>8 DEF HandleQuery
    <2>2. PICK t \in FoundIn(Known(m.uri)) : SendResponse(m, t)
      BY <1>8 DEF HandleQuery
    <2>3. /\ t \in Texts
          /\ t # Nothing => m.uri # NoUri /\ t = documents[m.uri].text
      BY <2>1, BoundsAssumption
         DEF FoundIn, Known, TypeOK, States, Texts, Nothing, Messages
    <2> QED
      BY <1>8, <2>1, <2>2, <2>3 DEF HandleQuery, TakesRequest, SendResponse,
                                   WriteMessage, serverVars, Requests
  <1>9. ASSUME ReadMessage("initialize") \/ ReadMessage("shutdown")
                 \/ ReadMessage("unknown"),
               SendResponse(m, Nothing), UNCHANGED documents
        PROVE  TakesRequest(m)
    <2>1. Read /\ m.kind \in Requests
      BY <1>2, <1>9 DEF Requests
    <2> QED
      BY <1>9, <2>1, BoundsAssumption
         DEF TakesRequest, SendResponse, WriteMessage, Texts, Nothing
  <1>10. ASSUME NEW kind \in Unanswered, ReadMessage(kind),
                UNCHANGED <<outbox, documents>>
         PROVE  TakesOther(m)
    BY <1>2, <1>10 DEF TakesOther, IsUpdate, Unanswered, Requests, Queries
  <1>11. CASE Skip \/ HandleExit \/ ReadError
    BY <1>10, <1>11 DEF Skip, HandleExit, ReadError, Return, Unanswered,
                        serverVars
  <1>12. CASE EndOfInput
    BY <1>12 DEF EndOfInput, Return, Rests, editorVars
  <1>13. CASE HandleInitialize \/ HandleShutdown \/ HandleUnknown
    BY <1>9, <1>13 DEF HandleInitialize, HandleShutdown, HandleUnknown,
                       serverVars
  <1>14. CASE HandleDefinition \/ HandleHover \/ HandleCompletion
    BY <1>8, <1>14 DEF HandleDefinition, HandleHover, HandleCompletion, Queries
  <1> QED
    BY <1>4, <1>5, <1>6, <1>7, <1>11, <1>12, <1>13, <1>14 DEF Run, HandleMessage

-----------------------------------------------------------------------------
(* What sending and receiving do to the numbers in a pipe, whatever it      *)
(* holds.                                                                   *)

LEMMA AppendFacts ==
  ASSUME NEW S, NEW q \in Seq(S), NEW m \in S
  PROVE  /\ Append(q, m) \in Seq(S) /\ Len(Append(q, m)) = Len(q) + 1
         /\ DOMAIN q = 1 .. Len(q) /\ Len(q) \in Nat
         /\ DOMAIN Append(q, m) = 1 .. Len(q) + 1
         /\ \A i \in 1 .. Len(q) : Append(q, m)[i] = q[i]
         /\ Append(q, m)[Len(q) + 1] = m
  OBVIOUS

LEMMA TailFacts ==
  ASSUME NEW S, NEW q \in Seq(S), q # <<>>
  PROVE  /\ Tail(q) \in Seq(S) /\ Len(Tail(q)) = Len(q) - 1
         /\ DOMAIN q = 1 .. Len(q) /\ Len(q) \in Nat \ {0}
         /\ DOMAIN Tail(q) = 1 .. Len(q) - 1
         /\ \A i \in 1 .. Len(q) - 1 : Tail(q)[i] = q[i + 1]
         /\ Head(q) = q[1] /\ Head(q) \in S
  OBVIOUS

LEMMA AppendIds ==
  ASSUME NEW S, NEW q \in Seq(S), NEW m \in S,
         \A r \in S : r.id \in Nat,
         Ascending(q), m.id # 0 => \A x \in Ids(q) : x < m.id
  PROVE  /\ m.id = 0 => Ids(Append(q, m)) = Ids(q)
         /\ m.id # 0 => Ids(Append(q, m)) = Ids(q) \cup {m.id}
         /\ Ascending(Append(q, m))
  <1> DEFINE a == Append(q, m)
             n == Len(q)
  <1>1. /\ DOMAIN q = 1 .. n /\ n \in Nat /\ DOMAIN a = 1 .. n + 1
        /\ \A i \in 1 .. n : a[i] = q[i]
        /\ a[n + 1] = m
    BY AppendFacts
  <1> HIDE DEF a, n
  <1>2. Ids(a) = Ids(q) \cup ({m.id} \ {0})
    <2>1. 1 .. n + 1 = 1 .. n \cup {n + 1}
      BY <1>1
    <2> QED BY <1>1, <2>1 DEF Ids
  <1>2a. m.id \in Nat
    OBVIOUS
  <1>3. Ascending(a)
    <2> SUFFICES ASSUME NEW i \in DOMAIN a, NEW j \in DOMAIN a, i < j,
                        a[i].id # 0, a[j].id # 0
                 PROVE  a[i].id < a[j].id
      BY DEF Ascending
    <2>1. i \in 1 .. n
      BY <1>1
    <2>2. CASE j \in 1 .. n
      BY <1>1, <2>1, <2>2 DEF Ascending
    <2>3. CASE j = n + 1
      BY <1>1, <2>1, <2>3 DEF Ids
    <2> QED BY <1>1, <2>2, <2>3
  <1> QED BY <1>2, <1>2a, <1>3 DEF a

LEMMA TailIds ==
  ASSUME NEW S, NEW q \in Seq(S), q # <<>>,
         \A r \in S : r.id \in Nat, Ascending(q)
  PROVE  /\ Ids(Tail(q)) = Ids(q) \ {Head(q).id}
         /\ Ascending(Tail(q))
         /\ Head(q).id # 0 => /\ Head(q).id \in Ids(q)
                              /\ \A x \in Ids(q) : Head(q).id <= x
  <1> DEFINE t == Tail(q)
             n == Len(q)
  <1>1. /\ DOMAIN q = 1 .. n /\ n \in Nat \ {0} /\ DOMAIN t = 1 .. n - 1
        /\ \A i \in 1 .. n - 1 : t[i] = q[i + 1]
        /\ Head(q) = q[1] /\ \A i \in 1 .. n : q[i].id \in Nat
    BY TailFacts
  <1> HIDE DEF t, n
  <1>2. \A i \in 2 .. n : q[1].id # 0 /\ q[i].id # 0 => q[1].id < q[i].id
    BY <1>1 DEF Ascending
  <1>3. Ids(t) = Ids(q) \ {q[1].id}
    <2>1. ASSUME NEW x \in Ids(t) PROVE x \in Ids(q) /\ x # q[1].id
      <3>1. PICK i \in 1 .. n - 1 : x = t[i].id /\ x # 0
        BY <1>1 DEF Ids
      <3>2. /\ i + 1 \in 2 .. n /\ i + 1 \in DOMAIN q
            /\ x = q[i + 1].id /\ x \notin {0}
        BY <1>1, <3>1
      <3>3. x \in Ids(q)
        BY <3>2, Zenon DEF Ids
      <3>4. x # q[1].id
        BY <1>1, <1>2, <3>1, <3>2
      <3> QED BY <3>3, <3>4
    <2>2. ASSUME NEW x \in Ids(q), x # q[1].id PROVE x \in Ids(t)
      <3>1. PICK i \in 1 .. n : x = q[i].id /\ x # 0
        BY <1>1 DEF Ids
      <3>2. i - 1 \in 1 .. n - 1 /\ t[i - 1] = q[i]
        BY <1>1, <2>2, <3>1
      <3> QED BY <1>1, <3>1, <3>2 DEF Ids
    <2> QED BY <2>1, <2>2
  <1>4. Ascending(t)
    <2> SUFFICES ASSUME NEW i \in DOMAIN t, NEW j \in DOMAIN t, i < j,
                        t[i].id # 0, t[j].id # 0
                 PROVE  t[i].id < t[j].id
      BY DEF Ascending
    <2>1. /\ i + 1 \in DOMAIN q /\ j + 1 \in DOMAIN q /\ i + 1 < j + 1
          /\ t[i] = q[i + 1] /\ t[j] = q[j + 1]
      BY <1>1
    <2> QED BY <2>1 DEF Ascending
  <1>5. ASSUME q[1].id # 0
        PROVE  q[1].id \in Ids(q) /\ \A x \in Ids(q) : q[1].id <= x
    <2>1. q[1].id \in Ids(q)
      BY <1>1, <1>5 DEF Ids
    <2>2. ASSUME NEW x \in Ids(q) PROVE q[1].id <= x
      <3>1. PICK i \in 1 .. n : x = q[i].id /\ x # 0
        BY <1>1 DEF Ids
      <3>2. i = 1 \/ i \in 2 .. n
        OBVIOUS
      <3> QED BY <1>1, <1>2, <1>5, <3>1, <3>2
    <2> QED BY <2>1, <2>2
  <1> QED BY <1>1, <1>3, <1>4, <1>5 DEF t

-----------------------------------------------------------------------------
(* What they do to the texts on their way.                                  *)

LEMMA AppendText ==
  ASSUME NEW S, NEW q \in Seq(S), NEW m \in S, NEW docs, NEW u, NEW t,
         NEW n \in 0 .. Len(q), TextAfter(docs, q, u, n, t)
  PROVE  TextAfter(docs, Append(q, m), u, n, t)
  <1>1. \A i \in 1 .. n : Append(q, m)[i] = q[i]
    BY AppendFacts
  <1>2. \A k \in 1 .. n : UpdateAt(Append(q, m), k, u) <=> UpdateAt(q, k, u)
    BY <1>1 DEF UpdateAt
  <1> QED BY <1>1, <1>2 DEF TextAfter

LEMMA AppendOther ==
  ASSUME NEW S, NEW q \in Seq(S), NEW m \in S, NEW docs, NEW u, NEW t,
         ~(IsUpdate(m) /\ m.uri = u), TextAfter(docs, q, u, Len(q), t)
  PROVE  TextAfter(docs, Append(q, m), u, Len(q) + 1, t)
  <1> DEFINE a == Append(q, m)
             n == Len(q)
  <1>1. /\ n \in Nat /\ \A i \in 1 .. n : a[i] = q[i]
        /\ a[n + 1] = m
    BY AppendFacts
  <1>2. TextAfter(docs, a, u, n, t)
    BY AppendText, <1>1
  <1>3. ~UpdateAt(a, n + 1, u)
    BY <1>1 DEF UpdateAt
  <1> HIDE DEF a, n
  <1>4. ASSUME docs[u].text = t, \A k \in 1 .. n : ~UpdateAt(a, k, u)
        PROVE  TextAfter(docs, a, u, n + 1, t)
    <2>1. \A k \in 1 .. n + 1 : ~UpdateAt(a, k, u)
      BY <1>1, <1>3, <1>4
    <2> QED BY <1>4, <2>1 DEF TextAfter
  <1>5. ASSUME NEW j \in 1 .. n, UpdateAt(a, j, u), a[j].text = t,
               \A k \in j + 1 .. n : ~UpdateAt(a, k, u)
        PROVE  TextAfter(docs, a, u, n + 1, t)
    <2>1. j \in 1 .. n + 1 /\ \A k \in j + 1 .. n + 1 : ~UpdateAt(a, k, u)
      BY <1>1, <1>3, <1>5
    <2> QED BY <1>5, <2>1 DEF TextAfter
  <1>6. TextAfter(docs, a, u, n + 1, t)
    BY <1>2, <1>4, <1>5, Zenon DEF TextAfter
  <1> QED BY <1>6 DEF a, n

LEMMA AppendUpdate ==
  ASSUME NEW S, NEW q \in Seq(S), NEW m \in S, NEW docs, NEW u,
         IsUpdate(m), m.uri = u
  PROVE  TextAfter(docs, Append(q, m), u, Len(q) + 1, m.text)
  <1> DEFINE a == Append(q, m)
             n == Len(q)
  <1>1. n \in Nat /\ a[n + 1] = m
    BY AppendFacts
  <1>2. UpdateAt(a, n + 1, u)
    BY <1>1 DEF UpdateAt
  <1> HIDE DEF a, n
  <1>3. n + 1 \in 1 .. n + 1 /\ \A k \in n + 1 + 1 .. n + 1 : FALSE
    BY <1>1
  <1>4. TextAfter(docs, a, u, n + 1, m.text)
    BY <1>1, <1>2, <1>3 DEF TextAfter
  <1> QED BY <1>4 DEF a, n

\* The server takes the next message, and the text with it if it is an update.
LEMMA TailText ==
  ASSUME NEW S, NEW q \in Seq(S), q # <<>>, NEW docs, NEW next, NEW u, NEW t,
         NEW n \in 1 .. Len(q), TextAfter(docs, q, u, n, t),
         UpdateAt(q, 1, u) => next[u].text = q[1].text,
         ~UpdateAt(q, 1, u) => next[u].text = docs[u].text
  PROVE  TextAfter(next, Tail(q), u, n - 1, t)
  <1> DEFINE r == Tail(q)
  <1>1. \A i \in 1 .. n - 1 : r[i] = q[i + 1]
    BY TailFacts
  <1> HIDE DEF r
  <1>2. \A i \in 1 .. n - 1 : UpdateAt(r, i, u) <=> UpdateAt(q, i + 1, u)
    BY <1>1 DEF UpdateAt
  <1>3. ASSUME docs[u].text = t, \A k \in 1 .. n : ~UpdateAt(q, k, u)
        PROVE  TextAfter(next, r, u, n - 1, t)
    <2>1. \A k \in 1 .. n - 1 : ~UpdateAt(r, k, u)
      BY <1>2, <1>3
    <2>2. next[u].text = t
      BY <1>3
    <2> QED BY <2>1, <2>2 DEF TextAfter
  <1>4. ASSUME NEW j \in 1 .. n, UpdateAt(q, j, u), q[j].text = t,
               \A k \in j + 1 .. n : ~UpdateAt(q, k, u)
        PROVE  TextAfter(next, r, u, n - 1, t)
    <2>1. \A k \in j .. n - 1 : k \in 1 .. n - 1 => ~UpdateAt(r, k, u)
      <3>1. ASSUME NEW k \in j .. n - 1, k \in 1 .. n - 1
            PROVE  ~UpdateAt(q, k + 1, u)
        <4>1. k + 1 \in j + 1 .. n
          BY <1>4, <3>1
        <4> QED BY <1>4, <4>1
      <3> QED BY <1>2, <3>1
    <2>2. CASE j = 1
      BY <1>4, <2>1, <2>2 DEF TextAfter
    <2>3. CASE j # 1
      <3>1. j - 1 \in 1 .. n - 1
        <4>1. j \in Nat /\ n \in Nat /\ 1 <= j /\ j <= n
          BY <1>4
        <4> QED BY <2>3, <4>1
      <3>2. UpdateAt(r, j - 1, u) /\ r[j - 1].text = t
        BY <1>1, <1>2, <1>4, <3>1
      <3>3. \A k \in (j - 1) + 1 .. n - 1 : ~UpdateAt(r, k, u)
        BY <2>1
      <3> QED BY <3>1, <3>2, <3>3 DEF TextAfter
    <2> QED BY <2>2, <2>3
  <1>5. TextAfter(next, r, u, n - 1, t)
    BY <1>3, <1>4, Zenon DEF TextAfter
  <1> QED BY <1>5 DEF r

-----------------------------------------------------------------------------
(* And to the results on their way back.                                    *)

LEMMA AppendNoResult ==
  ASSUME NEW S, NEW q \in Seq(S), NEW m \in S, NEW seen, NEW u, NEW t,
         ~(m.kind = "publish" /\ m.uri = u), ShownAfter(seen, q, u, t)
  PROVE  ShownAfter(seen, Append(q, m), u, t)
  <1> DEFINE a == Append(q, m)
             n == Len(q)
  <1>1. /\ n \in Nat /\ \A i \in 1 .. n : a[i] = q[i]
        /\ a[n + 1] = m /\ Len(a) = n + 1
    BY AppendFacts
  <1>2. /\ \A i \in 1 .. n : ResultAt(a, i, u) <=> ResultAt(q, i, u)
        /\ ~ResultAt(a, n + 1, u)
    BY <1>1 DEF ResultAt
  <1> HIDE DEF a
  <1>3. ASSUME seen[u] = t, \A k \in 1 .. n : ~ResultAt(q, k, u)
        PROVE  ShownAfter(seen, a, u, t)
    <2>1. \A k \in 1 .. Len(a) : ~ResultAt(a, k, u)
      BY <1>1, <1>2, <1>3
    <2> QED BY <1>3, <2>1 DEF ShownAfter
  <1>4. ASSUME NEW j \in 1 .. n, ResultAt(q, j, u), q[j].text = t,
               \A k \in j + 1 .. n : ~ResultAt(q, k, u)
        PROVE  ShownAfter(seen, a, u, t)
    <2>1. j \in 1 .. Len(a) /\ \A k \in j + 1 .. Len(a) : ~ResultAt(a, k, u)
      BY <1>1, <1>2, <1>4
    <2>2. ResultAt(a, j, u) /\ a[j].text = t
      BY <1>1, <1>2, <1>4
    <2> QED BY <2>1, <2>2 DEF ShownAfter
  <1>5. ShownAfter(seen, a, u, t)
    BY <1>3, <1>4, Zenon DEF ShownAfter
  <1> QED BY <1>5 DEF a

LEMMA AppendResult ==
  ASSUME NEW S, NEW q \in Seq(S), NEW m \in S, NEW seen, NEW u,
         m.kind = "publish", m.uri = u
  PROVE  ShownAfter(seen, Append(q, m), u, m.text)
  <1> DEFINE a == Append(q, m)
             n == Len(q)
  <1>1. n \in Nat /\ a[n + 1] = m /\ Len(a) = n + 1
    BY AppendFacts
  <1>2. ResultAt(a, n + 1, u)
    BY <1>1 DEF ResultAt
  <1> HIDE DEF a, n
  <1>3. n + 1 \in 1 .. Len(a) /\ \A k \in n + 1 + 1 .. Len(a) : FALSE
    BY <1>1
  <1>4. ShownAfter(seen, a, u, m.text)
    BY <1>1, <1>2, <1>3 DEF ShownAfter
  <1> QED BY <1>4 DEF a

\* The editor takes the next reply, and shows it if it is a result.
LEMMA TailResult ==
  ASSUME NEW S, NEW q \in Seq(S), q # <<>>, NEW seen, NEW next, NEW u, NEW t,
         ShownAfter(seen, q, u, t),
         ResultAt(q, 1, u) => next[u] = q[1].text,
         ~ResultAt(q, 1, u) => next[u] = seen[u]
  PROVE  ShownAfter(next, Tail(q), u, t)
  <1> DEFINE r == Tail(q)
             n == Len(q)
  <1>1. /\ n \in Nat \ {0} /\ Len(r) = n - 1
        /\ \A i \in 1 .. n - 1 : r[i] = q[i + 1]
    BY TailFacts
  <1> HIDE DEF r, n
  <1>2. \A i \in 1 .. n - 1 : ResultAt(r, i, u) <=> ResultAt(q, i + 1, u)
    BY <1>1 DEF ResultAt
  <1>3. ASSUME seen[u] = t, \A k \in 1 .. n : ~ResultAt(q, k, u)
        PROVE  ShownAfter(next, r, u, t)
    <2>1. \A k \in 1 .. Len(r) : ~ResultAt(r, k, u)
      BY <1>1, <1>2, <1>3
    <2>2. next[u] = t
      BY <1>1, <1>3
    <2> QED BY <2>1, <2>2 DEF ShownAfter
  <1>4. ASSUME NEW j \in 1 .. n, ResultAt(q, j, u), q[j].text = t,
               \A k \in j + 1 .. n : ~ResultAt(q, k, u)
        PROVE  ShownAfter(next, r, u, t)
    <2>1. \A k \in j .. n - 1 : ~ResultAt(r, k, u)
      <3>1. \A k \in j .. n - 1 : k \in 1 .. n - 1 /\ k + 1 \in j + 1 .. n
        BY <1>1
      <3> QED BY <1>2, <1>4, <3>1
    <2>2. CASE j = 1
      <3>1. \A k \in 1 .. Len(r) : ~ResultAt(r, k, u)
        BY <1>1, <2>1, <2>2
      <3>2. next[u] = t
        BY <1>4, <2>2
      <3> QED BY <3>1, <3>2 DEF ShownAfter
    <2>3. CASE j # 1
      <3>1. j - 1 \in 1 .. Len(r)
        BY <1>1, <2>3
      <3>2. ResultAt(r, j - 1, u) /\ r[j - 1].text = t
        BY <1>1, <1>2, <1>4, <3>1
      <3>3. (j - 1) + 1 = j /\ \A k \in j .. Len(r) : ~ResultAt(r, k, u)
        BY <1>1, <2>1
      <3> QED BY <3>1, <3>2, <3>3 DEF ShownAfter
    <2> QED BY <2>2, <2>3
  <1>5. ShownAfter(next, r, u, t)
    BY <1>3, <1>4, Zenon DEF ShownAfter, n
  <1> QED BY <1>5 DEF r

-----------------------------------------------------------------------------
(* Every variable keeps its type.                                           *)

LEMMA SendTypes ==
  ASSUME TypeOK, NEW m \in Messages, Send(m)
  PROVE  /\ inbox' \in Seq(Messages) /\ Len(inbox') <= Capacity
         /\ outbox' \in Seq(Replies) /\ Len(outbox') <= Capacity
         /\ shown' \in [Uris -> Texts] /\ answered' \in Seq(1 .. MaxRequests)
         /\ documents' \in [Uris -> States] /\ shutdownRequested' \in BOOLEAN
         /\ phase' \in {"running", "clean", "unclean"}
  <1>1. Append(inbox, m) \in Seq(Messages) /\ Len(Append(inbox, m)) = Len(inbox) + 1
        /\ Len(inbox) \in Nat
    BY AppendFacts DEF TypeOK
  <1>2. Len(inbox) + 1 <= Capacity
    BY <1>1, BoundsAssumption DEF Send
  <1> QED BY <1>1, <1>2 DEF Send, TypeOK, serverVars

LEMMA EditorTypes ==
  ASSUME TypeOK, Editor
  PROVE  TypeOK'
  <1>1. /\ Nothing \in Texts /\ 0 \in 0 .. MaxRequests
        /\ edits < MaxEdits => edits + 1 \in Texts
        /\ Queries \subseteq Requests
    BY BoundsAssumption DEF Texts, Nothing, TypeOK, Requests
  <1>2. ASSUME NEW kind \in {"didOpen", "didChange", "didClose"}, NEW u \in Uris,
               NEW t \in Texts, SendUpdate(kind, u, t), edits' \in Texts
        PROVE  TypeOK'
    <2>1. Message(kind, u, t, 0) \in Messages
      BY UpdateType
    <2>2. text' \in [Uris -> Texts]
      BY <1>2 DEF SendUpdate, TypeOK
    <2> QED BY <1>2, <2>1, <2>2, SendTypes DEF SendUpdate, TypeOK
  <1>3. ASSUME NEW u \in Uris, OpenDocument(u) \/ ChangeDocument(u)
        PROVE  TypeOK'
    <2>1. PICK kind \in {"didOpen", "didChange", "didClose"} : EditText(kind, u)
      BY <1>3 DEF OpenDocument, ChangeDocument
    <2> QED BY <1>1, <1>2, <2>1 DEF EditText
  <1>4. ASSUME NEW u \in Uris, CloseDocument(u)
        PROVE  TypeOK'
    BY <1>1, <1>2, <1>4 DEF CloseDocument, TypeOK
  <1>5. ASSUME NEW u \in Uris, SendNoChange(u)
        PROVE  TypeOK'
    <2>1. Message("didChange", u, Nothing, 0) \in Messages
      BY <1>1, UpdateType
    <2> QED BY <1>5, <2>1, SendTypes DEF SendNoChange, TypeOK
  <1>6. ASSUME NEW kind \in Requests, NEW u \in Uris \cup {NoUri},
               SendRequest(kind, u)
        PROVE  TypeOK'
    <2> DEFINE i == Len(wanted) + 1
               t == IF u = NoUri THEN Nothing ELSE text[u]
    <2>1. i \in 0 .. MaxRequests
      BY <1>6, BoundsAssumption DEF SendRequest, TypeOK
    <2>2. Message(kind, u, Nothing, i) \in Messages
      BY <1>1, <2>1, MessageType
    <2>3. t \in Texts
      BY <1>1 DEF TypeOK
    <2>4. Append(wanted, t) \in Seq(Texts) /\ Len(Append(wanted, t)) = i
      BY <2>3, AppendFacts DEF TypeOK
    <2>5. wanted' \in Seq(Texts) /\ Len(wanted') <= MaxRequests
      BY <1>6, <2>1, <2>4 DEF SendRequest
    <2>6. /\ asked' \in BOOLEAN /\ Send(Message(kind, u, Nothing, i))
          /\ UNCHANGED <<text, edits, input, garbled>>
      BY <1>6 DEF SendRequest
    <2> HIDE DEF i
    <2> QED BY <2>2, <2>5, <2>6, SendTypes DEF TypeOK
  <1>7. ASSUME SendUnanswered
        PROVE  TypeOK'
    <2>1. PICK kind \in Unanswered :
            /\ Send(Message(kind, NoUri, Nothing, 0))
            /\ input' = IF kind = "exit" THEN "exiting" ELSE input
            /\ garbled' = (garbled \/ kind = "not JSON")
            /\ UNCHANGED <<text, edits, wanted, asked>>
      BY <1>7 DEF SendUnanswered
    <2>2. Message(kind, NoUri, Nothing, 0) \in Messages
      BY <1>1, MessageType
    <2>3. input' \in {"open", "exiting", "closed"} /\ garbled' \in BOOLEAN
      BY <2>1 DEF TypeOK
    <2> QED BY <2>1, <2>2, <2>3, SendTypes DEF TypeOK
  <1>8. ASSUME CloseInput
        PROVE  TypeOK'
    BY <1>8 DEF CloseInput, TypeOK, serverVars
  <1> QED
    BY <1>1, <1>3, <1>4, <1>5, <1>6, <1>7, <1>8 DEF Editor, Query, Request

LEMMA ReceiveTypes ==
  ASSUME TypeOK, MessagesAreSound, Receive
  PROVE  TypeOK'
  <1> DEFINE m == Head(outbox)
  <1>1. /\ Tail(outbox) \in Seq(Replies) /\ Len(Tail(outbox)) <= Capacity
        /\ m \in Replies /\ ReplyIsSound(m)
    <2>1. outbox # <<>>
      BY DEF Receive
    <2>2. /\ Tail(outbox) \in Seq(Replies) /\ Len(Tail(outbox)) = Len(outbox) - 1
          /\ Len(outbox) \in Nat \ {0} /\ m = outbox[1] /\ m \in Replies
      BY <2>1, TailFacts DEF TypeOK
    <2>3. 1 \in 1 .. Len(outbox)
      BY <2>2
    <2> QED BY <2>2, <2>3, BoundsAssumption DEF TypeOK, MessagesAreSound
  <1>2. CASE m.kind = "publish"
    <2>1. shown' \in [Uris -> Texts]
      BY <1>1, <1>2 DEF Receive, TypeOK, Replies
    <2> QED BY <1>1, <1>2, <2>1 DEF Receive, TypeOK, serverVars
  <1>3. CASE m.kind # "publish"
    <2>1. m.id \in 1 .. MaxRequests
      BY <1>1, <1>3, BoundsAssumption DEF Replies, ReplyIsSound
    <2>2. answered' = Append(answered, m.id)
      BY <1>3 DEF Receive
    <2>3. answered' \in Seq(1 .. MaxRequests)
      BY <2>1, <2>2 DEF TypeOK
    <2> QED BY <1>1, <1>3, <2>3 DEF Receive, TypeOK, serverVars
  <1> QED BY <1>2, <1>3

\* What the server writes is a reply, and there is room for it.
LEMMA WriteTypes ==
  ASSUME TypeOK, NEW m \in Replies, WriteMessage(m)
  PROVE  outbox' \in Seq(Replies) /\ Len(outbox') <= Capacity
  <1>1. /\ Append(outbox, m) \in Seq(Replies) /\ Len(outbox) \in Nat
        /\ Len(Append(outbox, m)) = Len(outbox) + 1
    BY AppendFacts DEF TypeOK
  <1> QED BY <1>1, BoundsAssumption DEF WriteMessage

LEMMA RunTypes ==
  ASSUME TypeOK, MessagesAreSound, Run
  PROVE  TypeOK'
  <1> DEFINE m == Head(inbox)
  <1>1. ASSUME NEW kind, ReadMessage(kind)
        PROVE  /\ m \in Messages /\ UNCHANGED editorVars
               /\ inbox' \in Seq(Messages) /\ Len(inbox') <= Capacity
    <2>1. inbox # <<>>
      BY <1>1 DEF ReadMessage
    <2>2. /\ Tail(inbox) \in Seq(Messages) /\ Len(Tail(inbox)) = Len(inbox) - 1
          /\ Len(inbox) \in Nat \ {0} /\ m \in Messages
      BY <2>1, TailFacts DEF TypeOK
    <2> QED BY <1>1, <2>2, BoundsAssumption DEF ReadMessage, TypeOK
  <1>2. ASSUME NEW kind, ReadMessage(kind),
               outbox' \in Seq(Replies), Len(outbox') <= Capacity,
               documents' \in [Uris -> States], shutdownRequested' \in BOOLEAN,
               phase' \in {"running", "clean", "unclean"}
        PROVE  TypeOK'
    BY <1>1, <1>2 DEF TypeOK, editorVars
  <1>3. ASSUME NEW t \in Texts, SendResponse(m, t), m \in Messages
        PROVE  outbox' \in Seq(Replies) /\ Len(outbox') <= Capacity
    <2>1. Message("answer", m.uri, t, m.id) \in Replies
      BY <1>3 DEF Message, Messages, Replies
    <2> QED BY <1>3, <2>1, WriteTypes DEF SendResponse
  <1>4. ASSUME NEW u \in Uris \cup {NoUri}, NEW t \in Texts, Publish(u, t)
        PROVE  outbox' \in Seq(Replies) /\ Len(outbox') <= Capacity
    <2>1. Message("publish", u, t, 0) \in Replies
      BY BoundsAssumption DEF Message, Replies
    <2> QED BY <1>4, <2>1, WriteTypes DEF Publish
  <1>5. Nothing \in Texts /\ NoState \in States
    BY BoundsAssumption DEF Texts, Nothing, NoState, States
  <1>6. CASE HandleDidOpen \/ HandleDidChange
    <2>1. /\ ReadMessage("didOpen") \/ ReadMessage("didChange")
          /\ CompileAndPublishDiagnostics(m.uri, m.text)
      BY <1>6 DEF HandleDidOpen, HandleDidChange
    <2>2. m.uri \in Uris \cup {NoUri} /\ m.text \in Texts
      BY <1>1, <2>1 DEF Messages
    <2>3. Diagnostics(m.text) \in Texts
      BY <1>5, <2>2 DEF Diagnostics
    <2>4. documents' \in [Uris -> States]
      BY <2>1, <2>2 DEF CompileAndPublishDiagnostics, TypeOK, States
    <2> QED BY <1>2, <1>4, <2>1, <2>2, <2>3, <2>4
            DEF CompileAndPublishDiagnostics, TypeOK
  <1>7. CASE HandleDidClose
    <2>1. m.uri \in Uris \cup {NoUri}
      BY <1>1, <1>7 DEF HandleDidClose, Messages
    <2>2. documents' \in [Uris -> States]
      BY <1>5, <1>7 DEF HandleDidClose, TypeOK
    <2> QED BY <1>2, <1>4, <1>5, <1>7, <2>1, <2>2 DEF HandleDidClose, TypeOK
  <1>8. ASSUME NEW kind, HandleQuery(kind)
        PROVE  TypeOK'
    <2>1. PICK t \in FoundIn(Known(m.uri)) : SendResponse(m, t)
      BY <1>8 DEF HandleQuery
    <2>2. m \in Messages
      BY <1>1, <1>8 DEF HandleQuery
    <2>3. t \in Texts
      BY <1>5, <2>2 DEF FoundIn, Known, TypeOK, States, Messages
    <2> QED BY <1>2, <1>3, <1>8, <2>1, <2>2, <2>3
            DEF HandleQuery, TypeOK, serverVars
  <1>9. CASE HandleInitialize \/ HandleUnknown
    BY <1>1, <1>2, <1>3, <1>5, <1>9
       DEF HandleInitialize, HandleUnknown, TypeOK, serverVars
  <1>10. CASE HandleShutdown
    BY <1>1, <1>2, <1>3, <1>5, <1>10 DEF HandleShutdown, TypeOK
  <1>11. CASE IgnoreDidChange \/ Skip \/ HandleExit \/ ReadError
    BY <1>2, <1>11 DEF IgnoreDidChange, Skip, HandleExit, ReadError, Return,
                       TypeOK, serverVars
  <1>12. CASE EndOfInput
    BY <1>12 DEF EndOfInput, Return, TypeOK, editorVars
  <1> QED
    BY <1>6, <1>7, <1>8, <1>9, <1>10, <1>11, <1>12
       DEF Run, HandleMessage, HandleDefinition, HandleHover, HandleCompletion

-----------------------------------------------------------------------------
(* Every step keeps the invariant.                                          *)

LEMMA Steps ==
  ASSUME TypeOK, MessagesAreSound, Next
  PROVE  \/ \E m \in Messages : SendsUpdate(m) \/ SendsRequest(m) \/ SendsOther(m)
         \/ Receive
         \/ TakesUpdate(Head(inbox)) \/ TakesRequest(Head(inbox))
         \/ TakesOther(Head(inbox))
         \/ Rests
  <1>1. Terminated => Rests
    BY DEF Terminated, vars, Rests, editorVars, serverVars
  <1> QED BY <1>1, EditorSteps, ServerSteps DEF Next

\* The next message, when the server reads it.
LEMMA ReadFacts ==
  ASSUME TypeOK, MessagesAreSound, Read
  PROVE  /\ inbox # <<>> /\ Head(inbox) = inbox[1] /\ 1 \in 1 .. Len(inbox)
         /\ Head(inbox) \in Messages /\ MessageIsSound(Head(inbox))
         /\ inbox' = Tail(inbox)
         /\ Len(inbox) \in Nat \ {0} /\ Len(inbox') = Len(inbox) - 1
         /\ \A i \in 1 .. Len(inbox') : i + 1 \in 1 .. Len(inbox)
                                        /\ inbox'[i] = inbox[i + 1]
         /\ UNCHANGED <<text, shown, wanted, answered>>
  <1>1. inbox # <<>> /\ inbox' = Tail(inbox)
    BY DEF Read
  <1>2. /\ Head(inbox) = inbox[1] /\ Head(inbox) \in Messages
        /\ Len(inbox) \in Nat \ {0} /\ Len(inbox') = Len(inbox) - 1
        /\ \A i \in 1 .. Len(inbox) - 1 : inbox'[i] = inbox[i + 1]
    BY <1>1, TailFacts DEF TypeOK
  <1> QED BY <1>1, <1>2 DEF Read, editorVars, MessagesAreSound

\* The next reply, when the editor receives it.
LEMMA ReceiveFacts ==
  ASSUME TypeOK, MessagesAreSound, Receive
  PROVE  /\ outbox # <<>> /\ Head(outbox) = outbox[1] /\ 1 \in 1 .. Len(outbox)
         /\ Head(outbox) \in Replies /\ ReplyIsSound(Head(outbox))
         /\ outbox' = Tail(outbox)
         /\ Len(outbox) \in Nat \ {0} /\ Len(outbox') = Len(outbox) - 1
         /\ \A i \in 1 .. Len(outbox') : i + 1 \in 1 .. Len(outbox)
                                         /\ outbox'[i] = outbox[i + 1]
         /\ UNCHANGED <<text, wanted, inbox, documents>>
         /\ IF Head(outbox).kind = "publish"
            THEN /\ shown' = [shown EXCEPT ![Head(outbox).uri] = Head(outbox).text]
                 /\ answered' = answered
            ELSE answered' = Append(answered, Head(outbox).id) /\ shown' = shown
  <1>1. outbox # <<>> /\ outbox' = Tail(outbox)
    BY DEF Receive
  <1>2. /\ Head(outbox) = outbox[1] /\ Head(outbox) \in Replies
        /\ Len(outbox) \in Nat \ {0} /\ Len(outbox') = Len(outbox) - 1
        /\ \A i \in 1 .. Len(outbox) - 1 : outbox'[i] = outbox[i + 1]
    BY <1>1, TailFacts DEF TypeOK
  <1> QED BY <1>1, <1>2 DEF Receive, serverVars, MessagesAreSound

\* The reply the server writes for a message.
LEMMA ReplyFacts ==
  ASSUME TypeOK, MessagesAreSound, NEW r, r \in Replies,
         outbox' = Append(outbox, r)
  PROVE  /\ Len(outbox) \in Nat /\ Len(outbox') = Len(outbox) + 1
         /\ \A i \in 1 .. Len(outbox) : outbox'[i] = outbox[i]
         /\ outbox'[Len(outbox) + 1] = r
  BY AppendFacts DEF TypeOK

LEMMA PublishIsReply ==
  ASSUME TypeOK, MessagesAreSound, TakesUpdate(Head(inbox))
  PROVE  LET m == Head(inbox)
             r == Message("publish", m.uri, Diagnostics(m.text), 0)
         IN  /\ Read /\ m \in Messages /\ m.uri \in Uris /\ m.id = 0
             /\ r \in Replies /\ ReplyIsSound(r)
             /\ r.kind = "publish" /\ r.uri = m.uri /\ r.id = 0
             /\ r.text = Diagnostics(m.text)
  <1> DEFINE m == Head(inbox)
             r == Message("publish", m.uri, Diagnostics(m.text), 0)
  <1>1. Read /\ IsUpdate(m)
    BY DEF TakesUpdate
  <1>2. m \in Messages /\ MessageIsSound(m)
    BY <1>1, ReadFacts
  <1>3. m.uri \in Uris /\ m.id = 0
    BY <1>1, <1>2, UpdateKinds DEF MessageIsSound
  <1>4. Diagnostics(m.text) \in Texts
    BY <1>2, BoundsAssumption DEF Diagnostics, Messages, Texts, Nothing
  <1>5. /\ r \in Replies /\ r.kind = "publish" /\ r.uri = m.uri /\ r.id = 0
        /\ r.text = Diagnostics(m.text)
    BY <1>3, <1>4, BoundsAssumption DEF Message, Replies
  <1> QED BY <1>1, <1>2, <1>3, <1>5 DEF ReplyIsSound

LEMMA AnswerIsReply ==
  ASSUME TypeOK, MessagesAreSound, TakesRequest(Head(inbox)), NEW t \in Texts
  PROVE  LET m == Head(inbox)
             r == Message("answer", m.uri, t, m.id)
         IN  /\ Read /\ m \in Messages /\ m.id # 0 /\ m.kind \in Requests
             /\ r \in Replies /\ ReplyIsSound(r)
             /\ r.kind = "answer" /\ r.id = m.id /\ r.text = t
  <1> DEFINE m == Head(inbox)
             r == Message("answer", m.uri, t, m.id)
  <1>1. Read /\ m.kind \in Requests
    BY DEF TakesRequest
  <1>2. m \in Messages /\ m.id # 0
    BY <1>1, ReadFacts DEF MessageIsSound
  <1>3. r \in Replies /\ r.kind = "answer" /\ r.id = m.id /\ r.text = t
    BY <1>2 DEF Message, Messages, Replies
  <1> QED BY <1>1, <1>2, <1>3 DEF ReplyIsSound

LEMMA SoundStep ==
  ASSUME TypeOK, MessagesAreSound, Next
  PROVE  MessagesAreSound'
  <1>1. ASSUME NEW m \in Messages, Sent(m)
        PROVE  MessagesAreSound'
    <2>1. /\ Len(inbox') = Len(inbox) + 1 /\ Len(inbox) \in Nat
          /\ \A i \in 1 .. Len(inbox) : inbox'[i] = inbox[i]
          /\ inbox'[Len(inbox) + 1] = m
      BY <1>1, AppendFacts DEF Sent, TypeOK
    <2>2. \A i \in 1 .. Len(inbox') : i \in 1 .. Len(inbox) \/ i = Len(inbox) + 1
      BY <2>1
    <2>3. \A i \in 1 .. Len(inbox') : MessageIsSound(inbox'[i])
      BY <1>1, <2>1, <2>2 DEF Sent, MessagesAreSound
    <2> QED BY <1>1, <2>3 DEF Sent, MessagesAreSound
  <1>2. ASSUME Read
        PROVE  \A i \in 1 .. Len(inbox') : MessageIsSound(inbox'[i])
    BY <1>2, ReadFacts DEF MessagesAreSound
  <1>3. ASSUME NEW r \in Replies, ReplyIsSound(r), outbox' = Append(outbox, r)
        PROVE  \A i \in 1 .. Len(outbox') : ReplyIsSound(outbox'[i])
    <2>1. /\ Len(outbox') = Len(outbox) + 1 /\ Len(outbox) \in Nat
          /\ \A i \in 1 .. Len(outbox) : outbox'[i] = outbox[i]
          /\ outbox'[Len(outbox) + 1] = r
      BY <1>3, ReplyFacts
    <2>2. \A i \in 1 .. Len(outbox') : i \in 1 .. Len(outbox) \/ i = Len(outbox) + 1
      BY <2>1
    <2> QED BY <1>3, <2>1, <2>2 DEF MessagesAreSound
  <1>4. CASE TakesUpdate(Head(inbox))
    <2> DEFINE r == Message("publish", Head(inbox).uri, Diagnostics(Head(inbox).text), 0)
    <2>1. Read /\ r \in Replies /\ ReplyIsSound(r)
      BY <1>4, PublishIsReply
    <2>2. outbox' = Append(outbox, r)
      BY <1>4 DEF TakesUpdate
    <2> HIDE DEF r
    <2> QED BY <1>2, <1>3, <2>1, <2>2 DEF MessagesAreSound
  <1>5. CASE TakesRequest(Head(inbox))
    <2>1. PICK t \in Texts :
            outbox' = Append(outbox, Message("answer", Head(inbox).uri, t, Head(inbox).id))
      BY <1>5 DEF TakesRequest
    <2> DEFINE r == Message("answer", Head(inbox).uri, t, Head(inbox).id)
    <2>2. Read /\ r \in Replies /\ ReplyIsSound(r)
      BY <1>5, AnswerIsReply
    <2>3. outbox' = Append(outbox, r)
      BY <2>1
    <2> HIDE DEF r
    <2> QED BY <1>2, <1>3, <2>2, <2>3 DEF MessagesAreSound
  <1>6. CASE TakesOther(Head(inbox))
    BY <1>2, <1>6 DEF TakesOther, MessagesAreSound
  <1>7. CASE Receive
    BY <1>7, ReceiveFacts DEF MessagesAreSound
  <1>8. CASE Rests
    BY <1>8 DEF Rests, MessagesAreSound
  <1> QED
    BY <1>1, <1>4, <1>5, <1>6, <1>7, <1>8, Steps
       DEF SendsUpdate, SendsRequest, SendsOther

\* Numbers stay in order: a request takes the next number, the server takes
\* the lowest that waits and answers with it, the editor receives the lowest.
LEMMA AnsweredStep ==
  ASSUME TypeOK, MessagesAreSound, AnsweredInOrder, Next
  PROVE  AnsweredInOrder'
  <1> DEFINE A == Len(answered)
             L == Len(wanted)
  <1>1. PICK n \in A .. L : Ids(outbox) = A + 1 .. n /\ Ids(inbox) = n + 1 .. L
    BY DEF AnsweredInOrder
  <1>2. A \in Nat /\ L \in Nat
    BY DEF TypeOK
  <1>3. /\ answered = [i \in 1 .. A |-> i]
        /\ Ascending(outbox) /\ Ascending(inbox)
    BY DEF AnsweredInOrder
  <1>4. /\ inbox \in Seq(Messages) /\ outbox \in Seq(Replies)
        /\ \A r \in Messages : r.id \in Nat
        /\ \A r \in Replies : r.id \in Nat
    BY BoundsAssumption DEF TypeOK, Messages, Replies
  <1> HIDE DEF A, L
  <1>5. ASSUME NEW m \in Messages, Sent(m), m.id = 0, wanted' = wanted
        PROVE  AnsweredInOrder'
    <2>1. Ids(Append(inbox, m)) = Ids(inbox) /\ Ascending(Append(inbox, m))
      BY <1>3, <1>4, <1>5, AppendIds
    <2>2. /\ inbox' = Append(inbox, m) /\ outbox' = outbox
          /\ answered' = answered
      BY <1>5 DEF Sent
    <2> QED BY <1>1, <1>3, <1>5, <2>1, <2>2 DEF AnsweredInOrder, A, L
  <1>6. ASSUME NEW m \in Messages, SendsRequest(m)
        PROVE  AnsweredInOrder'
    <2>1. m.id = L + 1 /\ \A x \in Ids(inbox) : x < m.id
      BY <1>1, <1>2, <1>6 DEF SendsRequest, L
    <2>2. /\ Ids(Append(inbox, m)) = Ids(inbox) \cup {m.id}
          /\ Ascending(Append(inbox, m))
      BY <1>2, <1>3, <1>4, <2>1, AppendIds
    <2>3. Ids(Append(inbox, m)) = n + 1 .. L + 1
      BY <1>1, <1>2, <2>1, <2>2
    <2>4. /\ inbox' = Append(inbox, m) /\ outbox' = outbox
          /\ answered' = answered
      BY <1>6 DEF SendsRequest, Sent
    <2>5. Len(wanted') = L + 1
      BY <1>6, AppendFacts DEF SendsRequest, TypeOK, L
    <2>6. n \in A .. L + 1
      BY <1>1, <1>2
    <2> QED BY <1>1, <1>3, <2>2, <2>3, <2>4, <2>5, <2>6 DEF AnsweredInOrder, A
  <1>7. ASSUME Read
        PROVE  /\ inbox' = Tail(inbox) /\ Ascending(inbox')
               /\ Head(inbox).id = 0 => Ids(inbox') = n + 1 .. L
               /\ Head(inbox).id # 0 => /\ Head(inbox).id = n + 1 /\ n < L
                                        /\ Ids(inbox') = n + 1 + 1 .. L
               /\ UNCHANGED <<wanted, answered>>
    <2>1. inbox # <<>> /\ inbox' = Tail(inbox) /\ UNCHANGED <<wanted, answered>>
      BY <1>7, ReadFacts
    <2>2. /\ Ids(Tail(inbox)) = Ids(inbox) \ {Head(inbox).id}
          /\ Ascending(Tail(inbox))
          /\ Head(inbox).id # 0 => /\ Head(inbox).id \in Ids(inbox)
                                   /\ \A x \in Ids(inbox) : Head(inbox).id <= x
      BY <1>3, <1>4, <2>1, TailIds
    <2> DEFINE h == Head(inbox).id
    <2>2a. /\ Ids(inbox') = (n + 1 .. L) \ {h}
           /\ h # 0 => h \in n + 1 .. L /\ \A x \in n + 1 .. L : h <= x
      BY <1>1, <2>1, <2>2
    <2> HIDE DEF h
    <2>2b. \A x \in n + 1 .. L : x # 0
      BY <1>1, <1>2
    <2>3. CASE h = 0
      <3>1. Ids(inbox') = n + 1 .. L
        BY <2>2a, <2>2b, <2>3
      <3> QED BY <2>1, <2>2, <2>3, <3>1 DEF h
    <2>4. CASE h # 0
      <3>1. h = n + 1 /\ n < L
        BY <1>1, <1>2, <2>2a, <2>4
      <3>2. (n + 1 .. L) \ {n + 1} = n + 1 + 1 .. L
        BY <1>1, <1>2
      <3>3. Ids(inbox') = n + 1 + 1 .. L
        BY <2>2a, <3>1, <3>2
      <3> QED BY <2>1, <2>2, <2>4, <3>1, <3>3 DEF h
    <2> QED BY <2>3, <2>4
  <1>8. CASE TakesUpdate(Head(inbox))
    <2> DEFINE r == Message("publish", Head(inbox).uri, Diagnostics(Head(inbox).text), 0)
    <2>1. Read /\ Head(inbox).id = 0 /\ r \in Replies /\ r.id = 0
      BY <1>8, PublishIsReply
    <2>2. outbox' = Append(outbox, r)
      BY <1>8 DEF TakesUpdate
    <2> HIDE DEF r
    <2>3. Ids(Append(outbox, r)) = Ids(outbox) /\ Ascending(Append(outbox, r))
      BY <1>3, <1>4, <2>1, AppendIds
    <2>4. Ids(inbox') = n + 1 .. L
      BY <1>7, <2>1
    <2> QED BY <1>1, <1>3, <1>7, <2>1, <2>2, <2>3, <2>4 DEF AnsweredInOrder, A, L
  <1>9. CASE TakesRequest(Head(inbox))
    <2>1. PICK t \in Texts :
            outbox' = Append(outbox, Message("answer", Head(inbox).uri, t, Head(inbox).id))
      BY <1>9 DEF TakesRequest
    <2> DEFINE r == Message("answer", Head(inbox).uri, t, Head(inbox).id)
    <2>2. Read /\ Head(inbox).id # 0 /\ r \in Replies /\ r.id = Head(inbox).id
      BY <1>9, AnswerIsReply
    <2>3. outbox' = Append(outbox, r)
      BY <2>1
    <2> HIDE DEF r
    <2>4. r.id = n + 1 /\ n < L
      BY <1>7, <2>2
    <2>5. \A x \in Ids(outbox) : x < r.id
      BY <1>1, <1>2, <2>4
    <2>6. /\ Ids(Append(outbox, r)) = Ids(outbox) \cup {r.id}
          /\ Ascending(Append(outbox, r))
      BY <1>2, <1>3, <1>4, <2>2, <2>5, AppendIds
    <2>7. Ids(Append(outbox, r)) = A + 1 .. n + 1 /\ n + 1 \in A .. L
      BY <1>1, <1>2, <2>4, <2>6
    <2>8. Ids(inbox') = n + 1 + 1 .. L
      BY <1>7, <2>2
    <2> QED BY <1>3, <1>7, <2>2, <2>3, <2>6, <2>7, <2>8 DEF AnsweredInOrder, A, L
  <1>10. CASE TakesOther(Head(inbox))
    <2>1. Read /\ Head(inbox).id = 0 /\ outbox' = outbox
      <3>1. Read /\ Head(inbox).kind \notin Requests /\ outbox' = outbox
        BY <1>10 DEF TakesOther
      <3> QED BY <3>1, ReadFacts DEF MessageIsSound
    <2>2. Ids(inbox') = n + 1 .. L
      BY <1>7, <2>1
    <2> QED BY <1>1, <1>3, <1>7, <2>1, <2>2 DEF AnsweredInOrder, A, L
  <1>11. CASE Receive
    <2> DEFINE h == Head(outbox).id
    <2>1. /\ outbox # <<>> /\ outbox' = Tail(outbox)
          /\ UNCHANGED <<wanted, inbox>> /\ ReplyIsSound(Head(outbox))
          /\ answered' = IF Head(outbox).kind = "publish" THEN answered
                         ELSE Append(answered, h)
          /\ Head(outbox) \in Replies
      BY <1>11, ReceiveFacts
    <2>2. /\ Ids(outbox') = Ids(outbox) \ {h} /\ Ascending(outbox')
          /\ h # 0 => h \in Ids(outbox) /\ \A x \in Ids(outbox) : h <= x
      BY <1>3, <1>4, <2>1, TailIds
    <2>3. CASE Head(outbox).kind = "publish"
      <3>1. h = 0 /\ answered' = answered
        BY <2>1, <2>3 DEF ReplyIsSound
      <3>2. Ids(outbox') = A + 1 .. n
        BY <1>1, <1>2, <2>2, <3>1
      <3> QED BY <1>1, <1>3, <2>1, <2>2, <3>1, <3>2 DEF AnsweredInOrder, A, L
    <2>4. CASE Head(outbox).kind # "publish"
      <3>1. h # 0
        BY <2>1, <2>4 DEF Replies, ReplyIsSound
      <3> HIDE DEF h
      <3>2. h = A + 1 /\ A < n
        BY <1>1, <1>2, <2>2, <3>1
      <3>3. Ids(outbox') = A + 1 + 1 .. n
        BY <1>1, <1>2, <2>2, <3>2
      <3>4. Len(answered') = A + 1 /\ answered' = [i \in 1 .. A + 1 |-> i]
        <4>1. answered' = Append(answered, A + 1)
          BY <2>1, <2>4, <3>2 DEF h
        <4> QED BY <1>2, <1>3, <4>1 DEF TypeOK, A
      <3>5. n \in A + 1 .. L
        BY <1>1, <1>2, <3>2
      <3> QED BY <1>1, <1>3, <2>1, <2>2, <3>3, <3>4, <3>5 DEF AnsweredInOrder, L
    <2> QED BY <2>3, <2>4
  <1>12. CASE Rests
    BY <1>1, <1>3, <1>12 DEF Rests, AnsweredInOrder, A, L
  <1> QED
    BY <1>5, <1>6, <1>8, <1>9, <1>10, <1>11, <1>12, Steps
       DEF SendsUpdate, SendsOther

\* The requests that wait, and the answers on their way, have numbers of
\* requests that were made.
LEMMA IdsAreRequests ==
  ASSUME TypeOK, AnsweredInOrder
  PROVE  /\ \A i \in 1 .. Len(inbox) : inbox[i].id # 0 => inbox[i].id \in 1 .. Len(wanted)
         /\ \A i \in 1 .. Len(outbox) : outbox[i].id # 0 => outbox[i].id \in 1 .. Len(wanted)
  <1>1. PICK n \in Len(answered) .. Len(wanted) :
          /\ Ids(outbox) = Len(answered) + 1 .. n
          /\ Ids(inbox) = n + 1 .. Len(wanted)
    BY DEF AnsweredInOrder
  <1>2. Len(answered) \in Nat /\ Len(wanted) \in Nat
    BY DEF TypeOK
  <1>3. ASSUME NEW i \in 1 .. Len(inbox), inbox[i].id # 0
        PROVE  inbox[i].id \in 1 .. Len(wanted)
    <2>1. inbox[i].id \in Ids(inbox)
      BY <1>3 DEF Ids, TypeOK
    <2>2. inbox[i].id \in n + 1 .. Len(wanted)
      BY <1>1, <2>1
    <2> QED BY <1>2, <2>2
  <1>4. ASSUME NEW i \in 1 .. Len(outbox), outbox[i].id # 0
        PROVE  outbox[i].id \in 1 .. Len(wanted)
    <2>1. outbox[i].id \in Ids(outbox)
      BY <1>4 DEF Ids, TypeOK
    <2>2. outbox[i].id \in Len(answered) + 1 .. n
      BY <1>1, <2>1
    <2> QED BY <1>2, <2>2
  <1> QED BY <1>3, <1>4

\* What a request was about stays known.
LEMMA WantedStays ==
  ASSUME TypeOK, NEW m, SendsRequest(m)
  PROVE  /\ \A i \in 1 .. Len(wanted) : wanted'[i] = wanted[i]
         /\ m.uri \in Uris => wanted'[m.id] = text[m.uri]
  <1>1. PICK t \in Texts : /\ wanted' = Append(wanted, t)
                          /\ m.uri \in Uris => t = text[m.uri]
    BY DEF SendsRequest
  <1>2. wanted \in Seq(Texts)
    BY DEF TypeOK
  <1>3. /\ \A i \in 1 .. Len(wanted) : Append(wanted, t)[i] = wanted[i]
        /\ Append(wanted, t)[Len(wanted) + 1] = t
    BY <1>2, AppendFacts
  <1> QED BY <1>1, <1>3 DEF SendsRequest

\* What the server knows of a document changes with its updates alone.
LEMMA TextTaken ==
  ASSUME TypeOK, MessagesAreSound, NEW u \in Uris,
         \/ TakesUpdate(Head(inbox)) \/ TakesRequest(Head(inbox))
         \/ TakesOther(Head(inbox))
  PROVE  /\ UpdateAt(inbox, 1, u) => documents'[u].text = inbox[1].text
         /\ ~UpdateAt(inbox, 1, u) => documents'[u].text = documents[u].text
  <1>1. Read
    BY DEF TakesUpdate, TakesRequest, TakesOther
  <1>2. Head(inbox) = inbox[1] /\ Head(inbox) \in Messages
    BY <1>1, ReadFacts
  <1>3. CASE TakesUpdate(Head(inbox))
    <2>1. PICK d \in States : /\ d.text = Head(inbox).text
                             /\ documents' = [documents EXCEPT ![Head(inbox).uri] = d]
      BY <1>3 DEF TakesUpdate
    <2>2. IsUpdate(Head(inbox))
      BY <1>3 DEF TakesUpdate
    <2> QED BY <1>2, <2>1, <2>2 DEF UpdateAt, TypeOK
  <1>4. CASE TakesRequest(Head(inbox)) \/ TakesOther(Head(inbox))
    <2>1. documents' = documents /\ ~IsUpdate(Head(inbox))
      BY <1>4, UpdateKinds DEF TakesRequest, TakesOther
    <2> QED BY <1>2, <2>1 DEF UpdateAt
  <1> QED BY <1>3, <1>4

LEMMA TextsStep ==
  ASSUME TypeOK, MessagesAreSound, TextsArrive, Next
  PROVE  TextsArrive'
  <1> SUFFICES ASSUME NEW u \in Uris
               PROVE  TextAfter(documents', inbox', u, Len(inbox'), text'[u])
    BY DEF TextsArrive
  <1>1. TextAfter(documents, inbox, u, Len(inbox), text[u])
    BY DEF TextsArrive
  <1>2. ASSUME NEW m \in Messages, Sent(m)
        PROVE  /\ inbox' = Append(inbox, m) /\ Len(inbox') = Len(inbox) + 1
               /\ documents' = documents
    BY <1>2, AppendFacts DEF Sent, TypeOK
  <1>3. ASSUME NEW m \in Messages, Sent(m), ~(IsUpdate(m) /\ m.uri = u),
               text'[u] = text[u]
        PROVE  TextAfter(documents', inbox', u, Len(inbox'), text'[u])
    <2>1. TextAfter(documents, Append(inbox, m), u, Len(inbox) + 1, text[u])
      BY <1>1, <1>3, AppendOther DEF TypeOK
    <2> QED BY <1>2, <1>3, <2>1
  <1>4. ASSUME NEW m \in Messages, SendsUpdate(m)
        PROVE  TextAfter(documents', inbox', u, Len(inbox'), text'[u])
    <2>1. Sent(m) /\ IsUpdate(m) /\ text' = [text EXCEPT ![m.uri] = m.text]
      BY <1>4 DEF SendsUpdate
    <2>2. CASE m.uri = u
      <3>1. TextAfter(documents, Append(inbox, m), u, Len(inbox) + 1, m.text)
        BY <2>1, <2>2, AppendUpdate DEF TypeOK
      <3>2. text'[u] = m.text
        BY <2>1, <2>2 DEF TypeOK
      <3> QED BY <1>2, <2>1, <3>1, <3>2
    <2>3. CASE m.uri # u
      BY <1>3, <2>1, <2>3 DEF TypeOK
    <2> QED BY <2>2, <2>3
  <1>5. ASSUME NEW m \in Messages, SendsRequest(m) \/ SendsOther(m)
        PROVE  TextAfter(documents', inbox', u, Len(inbox'), text'[u])
    <2>1. Sent(m) /\ ~IsUpdate(m) /\ text' = text
      BY <1>5, UpdateKinds DEF SendsRequest, SendsOther
    <2> QED BY <1>3, <2>1
  <1>6. ASSUME \/ TakesUpdate(Head(inbox)) \/ TakesRequest(Head(inbox))
               \/ TakesOther(Head(inbox))
        PROVE  TextAfter(documents', inbox', u, Len(inbox'), text'[u])
    <2>1. Read
      BY <1>6 DEF TakesUpdate, TakesRequest, TakesOther
    <2>2. /\ inbox # <<>> /\ inbox' = Tail(inbox) /\ Len(inbox) \in Nat \ {0}
          /\ Len(inbox') = Len(inbox) - 1 /\ text' = text
      BY <2>1, ReadFacts
    <2>3. Len(inbox) \in 1 .. Len(inbox) /\ inbox \in Seq(Messages)
      BY <2>2 DEF TypeOK
    <2>4. /\ UpdateAt(inbox, 1, u) => documents'[u].text = inbox[1].text
          /\ ~UpdateAt(inbox, 1, u) => documents'[u].text = documents[u].text
      BY <1>6, TextTaken
    <2>5. TextAfter(documents', Tail(inbox), u, Len(inbox) - 1, text[u])
      BY <1>1, <2>2, <2>3, <2>4, TailText
    <2> QED BY <2>2, <2>5
  <1>7. CASE Receive
    BY <1>1, <1>7, ReceiveFacts
  <1>8. CASE Rests
    BY <1>1, <1>8 DEF Rests
  <1> QED BY <1>4, <1>5, <1>6, <1>7, <1>8, Steps

LEMMA QueriesStep ==
  ASSUME TypeOK, MessagesAreSound, AnsweredInOrder, TextsArrive,
         QueriesAreTimely, Next
  PROVE  QueriesAreTimely'
  <1> SUFFICES ASSUME NEW i \in 1 .. Len(inbox'),
                      inbox'[i].kind \in Queries, inbox'[i].uri \in Uris
               PROVE  TextAfter(documents', inbox', inbox'[i].uri, i - 1,
                                wanted'[inbox'[i].id])
    BY DEF QueriesAreTimely
  <1>1. ASSUME NEW k \in 1 .. Len(inbox),
               inbox[k].kind \in Queries, inbox[k].uri \in Uris
        PROVE  /\ TextAfter(documents, inbox, inbox[k].uri, k - 1,
                            wanted[inbox[k].id])
               /\ inbox[k].id \in 1 .. Len(wanted)
    <2>1. inbox[k].id # 0
      BY <1>1 DEF MessagesAreSound, MessageIsSound, Requests
    <2> QED BY <1>1, <2>1, IdsAreRequests DEF QueriesAreTimely
  <1>2. inbox \in Seq(Messages) /\ Len(inbox) \in Nat
    BY DEF TypeOK
  <1>3. ASSUME NEW m \in Messages, Sent(m),
               SendsUpdate(m) \/ SendsRequest(m) \/ SendsOther(m)
        PROVE  TextAfter(documents', inbox', inbox'[i].uri, i - 1,
                         wanted'[inbox'[i].id])
    <2>1. /\ inbox' = Append(inbox, m) /\ Len(inbox') = Len(inbox) + 1
          /\ \A k \in 1 .. Len(inbox) : inbox'[k] = inbox[k]
          /\ inbox'[Len(inbox) + 1] = m
          /\ documents' = documents
      BY <1>2, <1>3, AppendFacts DEF Sent
    <2>2. CASE i \in 1 .. Len(inbox)
      <3>1. inbox'[i] = inbox[i] /\ i - 1 \in 0 .. Len(inbox)
        BY <1>2, <2>1, <2>2
      <3>2. /\ TextAfter(documents, inbox, inbox[i].uri, i - 1,
                         wanted[inbox[i].id])
            /\ inbox[i].id \in 1 .. Len(wanted)
        BY <1>1, <2>2, <3>1
      <3>3. wanted'[inbox[i].id] = wanted[inbox[i].id]
        BY <1>3, <3>2, WantedStays DEF SendsUpdate, SendsOther
      <3>4. TextAfter(documents, Append(inbox, m), inbox[i].uri, i - 1,
                      wanted[inbox[i].id])
        BY <1>2, <3>1, <3>2, AppendText
      <3> QED BY <2>1, <3>1, <3>3, <3>4
    <2>3. CASE i = Len(inbox) + 1
      <3>1. inbox'[i] = m /\ m.kind \in Requests /\ m.uri \in Uris
        BY <2>1, <2>3 DEF Requests
      <3>2. SendsRequest(m)
        BY <1>3, <3>1, UpdateKinds DEF SendsUpdate, SendsOther
      <3>3. wanted'[m.id] = text[m.uri]
        BY <3>1, <3>2, WantedStays
      <3>4. TextAfter(documents, inbox, m.uri, Len(inbox), text[m.uri])
        BY <3>1 DEF TextsArrive
      <3>5. Len(inbox) \in 0 .. Len(inbox) /\ i - 1 = Len(inbox)
        BY <1>2, <2>3
      <3>6. TextAfter(documents, Append(inbox, m), m.uri, Len(inbox), text[m.uri])
        BY <1>2, <3>4, <3>5, AppendText
      <3> QED BY <2>1, <3>1, <3>3, <3>5, <3>6
    <2> QED BY <1>2, <2>1, <2>2, <2>3
  <1>4. ASSUME \/ TakesUpdate(Head(inbox)) \/ TakesRequest(Head(inbox))
               \/ TakesOther(Head(inbox))
        PROVE  TextAfter(documents', inbox', inbox'[i].uri, i - 1,
                         wanted'[inbox'[i].id])
    <2>1. Read
      BY <1>4 DEF TakesUpdate, TakesRequest, TakesOther
    <2>2. /\ inbox # <<>> /\ inbox' = Tail(inbox) /\ wanted' = wanted
          /\ Len(inbox') = Len(inbox) - 1
          /\ i + 1 \in 1 .. Len(inbox) /\ inbox'[i] = inbox[i + 1]
      BY <2>1, ReadFacts
    <2> DEFINE u == inbox[i + 1].uri
               t == wanted[inbox[i + 1].id]
    <2>3. TextAfter(documents, inbox, u, i + 1 - 1, t)
      BY <1>1, <2>2
    <2>4. i \in 1 .. Len(inbox) /\ i + 1 - 1 = i
      BY <1>2, <2>2
    <2>5. TextAfter(documents, inbox, u, i, t)
      BY <2>3, <2>4
    <2>6. /\ UpdateAt(inbox, 1, u) => documents'[u].text = inbox[1].text
          /\ ~UpdateAt(inbox, 1, u) => documents'[u].text = documents[u].text
      BY <1>4, <2>2, TextTaken
    <2> HIDE DEF u, t
    <2>7. TextAfter(documents', Tail(inbox), u, i - 1, t)
      BY <1>2, <2>2, <2>4, <2>5, <2>6, TailText
    <2> QED BY <2>2, <2>7 DEF u, t
  <1>5. CASE Receive
    <2>1. UNCHANGED <<inbox, wanted, documents>>
      BY <1>5, ReceiveFacts
    <2> QED BY <1>1, <2>1
  <1>6. CASE Rests
    BY <1>1, <1>6 DEF Rests
  <1> QED
    BY <1>3, <1>4, <1>5, <1>6, Steps DEF SendsUpdate, SendsRequest, SendsOther

LEMMA ResultsStep ==
  ASSUME TypeOK, MessagesAreSound, ResultsArrive, Next
  PROVE  ResultsArrive'
  <1> SUFFICES ASSUME NEW u \in Uris
               PROVE  ShownAfter(shown', outbox', u, Diagnostics(documents'[u].text))
    BY DEF ResultsArrive
  <1> DEFINE t == Diagnostics(documents[u].text)
  <1>1. ShownAfter(shown, outbox, u, t)
    BY DEF ResultsArrive
  <1>2. outbox \in Seq(Replies)
    BY DEF TypeOK
  <1> HIDE DEF t
  <1>3. CASE TakesUpdate(Head(inbox))
    <2> DEFINE m == Head(inbox)
               r == Message("publish", m.uri, Diagnostics(m.text), 0)
    <2>1. /\ Read /\ r \in Replies /\ r.kind = "publish" /\ r.uri = m.uri
          /\ r.text = Diagnostics(m.text)
      BY <1>3, PublishIsReply
    <2>2. /\ outbox' = Append(outbox, r)
          /\ \E d \in States : /\ d.text = m.text
                               /\ documents' = [documents EXCEPT ![m.uri] = d]
      BY <1>3 DEF TakesUpdate
    <2>3. shown' = shown
      BY <2>1, ReadFacts
    <2> HIDE DEF r, m
    <2>4. CASE m.uri = u
      <3>1. documents'[u].text = m.text
        BY <2>2, <2>4 DEF TypeOK
      <3>2. ShownAfter(shown, Append(outbox, r), u, r.text)
        BY <1>2, <2>1, <2>4, AppendResult
      <3> QED BY <2>1, <2>2, <2>3, <3>1, <3>2
    <2>5. CASE m.uri # u
      <3>1. documents'[u] = documents[u]
        BY <2>2, <2>5 DEF TypeOK
      <3>2. ShownAfter(shown, Append(outbox, r), u, t)
        BY <1>1, <1>2, <2>1, <2>5, AppendNoResult
      <3> QED BY <2>2, <2>3, <3>1, <3>2 DEF t
    <2> QED BY <2>4, <2>5
  <1>4. CASE TakesRequest(Head(inbox))
    <2>1. PICK a \in Texts :
            outbox' = Append(outbox, Message("answer", Head(inbox).uri, a, Head(inbox).id))
      BY <1>4 DEF TakesRequest
    <2> DEFINE r == Message("answer", Head(inbox).uri, a, Head(inbox).id)
    <2>2. Read /\ r \in Replies /\ r.kind = "answer"
      BY <1>4, AnswerIsReply
    <2>3. outbox' = Append(outbox, r) /\ documents' = documents /\ shown' = shown
      BY <1>4, <2>1, <2>2, ReadFacts DEF TakesRequest
    <2> HIDE DEF r
    <2>4. ShownAfter(shown, Append(outbox, r), u, t)
      BY <1>1, <1>2, <2>2, AppendNoResult
    <2> QED BY <2>3, <2>4 DEF t
  <1>5. CASE Receive
    <2>1. /\ outbox # <<>> /\ Head(outbox) = outbox[1] /\ outbox' = Tail(outbox)
          /\ Head(outbox) \in Replies /\ documents' = documents
          /\ IF Head(outbox).kind = "publish"
             THEN shown' = [shown EXCEPT ![Head(outbox).uri] = Head(outbox).text]
             ELSE shown' = shown
      BY <1>5, ReceiveFacts
    <2>2. /\ ResultAt(outbox, 1, u) => shown'[u] = outbox[1].text
          /\ ~ResultAt(outbox, 1, u) => shown'[u] = shown[u]
      BY <2>1 DEF ResultAt, TypeOK
    <2>3. ShownAfter(shown', Tail(outbox), u, t)
      BY <1>1, <1>2, <2>1, <2>2, TailResult
    <2> QED BY <2>1, <2>3 DEF t
  <1>6. ASSUME UNCHANGED <<outbox, documents, shown>>
        PROVE  ShownAfter(shown', outbox', u, Diagnostics(documents'[u].text))
    BY <1>1, <1>6 DEF t
  <1>7. CASE TakesOther(Head(inbox))
    BY <1>6, <1>7, ReadFacts DEF TakesOther
  <1>8. ASSUME NEW m \in Messages, Sent(m)
        PROVE  UNCHANGED <<outbox, documents, shown>>
    BY <1>8 DEF Sent
  <1>9. CASE Rests
    BY <1>6, <1>9 DEF Rests
  <1> QED
    BY <1>3, <1>4, <1>5, <1>6, <1>7, <1>8, <1>9, Steps
       DEF SendsUpdate, SendsRequest, SendsOther

\* An answer is made from the text the server has when it comes to the query.
LEMMA CurrentStep ==
  ASSUME TypeOK, MessagesAreSound, AnsweredInOrder, QueriesAreTimely,
         AnswersAreCurrent, Next
  PROVE  AnswersAreCurrent'
  <1> SUFFICES ASSUME NEW i \in 1 .. Len(outbox'),
                      outbox'[i].kind = "answer", outbox'[i].text # Nothing
               PROVE  outbox'[i].text = wanted'[outbox'[i].id]
    <2>1. outbox' \in Seq(Replies)
      BY EditorTypes, RunTypes, ReceiveTypes DEF Next, Terminated, vars, TypeOK
    <2>2. DOMAIN outbox' = 1 .. Len(outbox')
      BY <2>1
    <2> QED BY <2>2 DEF AnswersAreCurrent
  <1>1. ASSUME NEW k \in 1 .. Len(outbox),
               outbox[k].kind = "answer", outbox[k].text # Nothing
        PROVE  /\ outbox[k].text = wanted[outbox[k].id]
               /\ outbox[k].id \in 1 .. Len(wanted)
    <2>1. outbox[k].id # 0
      BY <1>1 DEF MessagesAreSound, ReplyIsSound
    <2>2. k \in DOMAIN outbox
      BY DEF TypeOK
    <2> QED BY <1>1, <2>1, <2>2, IdsAreRequests DEF AnswersAreCurrent
  <1>2. ASSUME NEW m \in Messages, SendsUpdate(m) \/ SendsRequest(m) \/ SendsOther(m)
        PROVE  outbox'[i].text = wanted'[outbox'[i].id]
    <2>1. outbox' = outbox
      BY <1>2 DEF SendsUpdate, SendsRequest, SendsOther, Sent
    <2>2. outbox[i].text = wanted[outbox[i].id] /\ outbox[i].id \in 1 .. Len(wanted)
      BY <1>1, <2>1
    <2>3. wanted'[outbox[i].id] = wanted[outbox[i].id]
      BY <1>2, <2>2, WantedStays DEF SendsUpdate, SendsOther
    <2> QED BY <2>1, <2>2, <2>3
  <1>3. ASSUME UNCHANGED <<outbox, wanted>>
        PROVE  outbox'[i].text = wanted'[outbox'[i].id]
    BY <1>1, <1>3
  <1>4. ASSUME NEW r \in Replies, outbox' = Append(outbox, r), wanted' = wanted,
               r.kind = "answer" /\ r.text # Nothing => r.text = wanted[r.id]
        PROVE  outbox'[i].text = wanted'[outbox'[i].id]
    <2>1. /\ Len(outbox') = Len(outbox) + 1 /\ Len(outbox) \in Nat
          /\ \A k \in 1 .. Len(outbox) : outbox'[k] = outbox[k]
          /\ outbox'[Len(outbox) + 1] = r
      BY <1>4, ReplyFacts
    <2>2. i \in 1 .. Len(outbox) \/ i = Len(outbox) + 1
      BY <2>1
    <2> QED BY <1>1, <1>4, <2>1, <2>2
  <1>5. CASE TakesUpdate(Head(inbox))
    <2> DEFINE r == Message("publish", Head(inbox).uri, Diagnostics(Head(inbox).text), 0)
    <2>1. Read /\ r \in Replies /\ r.kind = "publish"
      BY <1>5, PublishIsReply
    <2>2. outbox' = Append(outbox, r)
      BY <1>5 DEF TakesUpdate
    <2> HIDE DEF r
    <2> QED BY <1>4, <2>1, <2>2, ReadFacts
  <1>6. CASE TakesRequest(Head(inbox))
    <2> DEFINE m == Head(inbox)
    <2>1. PICK t \in Texts :
            /\ outbox' = Append(outbox, Message("answer", m.uri, t, m.id))
            /\ t # Nothing => /\ m.kind \in Queries /\ m.uri # NoUri
                              /\ t = documents[m.uri].text
      BY <1>6 DEF TakesRequest
    <2> DEFINE r == Message("answer", m.uri, t, m.id)
    <2>2. Read /\ m \in Messages /\ r \in Replies /\ r.id = m.id /\ r.text = t
      BY <1>6, AnswerIsReply
    <2>3. outbox' = Append(outbox, r) /\ wanted' = wanted
          /\ m = inbox[1] /\ 1 \in 1 .. Len(inbox)
      BY <2>1, <2>2, ReadFacts
    <2>4. ASSUME t # Nothing PROVE t = wanted[m.id]
      <3>1. m.kind \in Queries /\ m.uri \in Uris /\ t = documents[m.uri].text
        BY <2>1, <2>2, <2>4 DEF Messages
      <3>2. TextAfter(documents, inbox, m.uri, 1 - 1, wanted[m.id])
        BY <2>3, <3>1 DEF QueriesAreTimely
      <3>3. documents[m.uri].text = wanted[m.id]
        BY <3>2 DEF TextAfter
      <3> QED BY <3>1, <3>3
    <2> HIDE DEF r
    <2> QED BY <1>4, <2>2, <2>3, <2>4
  <1>7. CASE TakesOther(Head(inbox))
    BY <1>3, <1>7, ReadFacts DEF TakesOther
  <1>8. CASE Receive
    <2>1. /\ i + 1 \in 1 .. Len(outbox) /\ outbox'[i] = outbox[i + 1]
          /\ wanted' = wanted
      BY <1>8, ReceiveFacts
    <2> QED BY <1>1, <2>1
  <1>9. CASE Rests
    BY <1>3, <1>9 DEF Rests
  <1> QED BY <1>2, <1>5, <1>6, <1>7, <1>8, <1>9, Steps

-----------------------------------------------------------------------------
(* The theorems.                                                            *)

LEMMA InitInvariant == Init => IInv
  <1> SUFFICES ASSUME Init PROVE IInv
    OBVIOUS
  <1>1. TypeOK
    <2>1. Nothing \in Texts /\ 0 \in Texts /\ NoState \in States
      BY BoundsAssumption DEF Texts, Nothing, NoState, States
    <2>2. /\ text \in [Uris -> Texts] /\ shown \in [Uris -> Texts]
          /\ documents \in [Uris -> States]
      BY <2>1 DEF Init
    <2>3. /\ Len(wanted) <= MaxRequests /\ Len(inbox) <= Capacity
          /\ Len(outbox) <= Capacity
      BY BoundsAssumption DEF Init
    <2>4. /\ edits \in Texts /\ wanted \in Seq(Texts)
          /\ answered \in Seq(1 .. MaxRequests)
          /\ inbox \in Seq(Messages) /\ outbox \in Seq(Replies)
      BY <2>1 DEF Init
    <2>5. /\ input \in {"open", "exiting", "closed"}
          /\ asked \in BOOLEAN /\ garbled \in BOOLEAN
          /\ shutdownRequested \in BOOLEAN
          /\ phase \in {"running", "clean", "unclean"}
      BY DEF Init
    <2> QED BY <2>2, <2>3, <2>4, <2>5 DEF TypeOK
  <1>2. MessagesAreSound
    BY DEF Init, MessagesAreSound
  <1>3. AnsweredInOrder
    <2>1. Ids(<<>>) = {} /\ Ascending(<<>>)
      BY DEF Ids, Ascending
    <2>2. 0 \in 0 .. 0 /\ {} = 0 + 1 .. 0 /\ <<>> = [i \in 1 .. 0 |-> i]
      OBVIOUS
    <2>3. Len(answered) = 0 /\ Len(wanted) = 0 /\ answered = <<>>
          /\ inbox = <<>> /\ outbox = <<>>
      BY DEF Init
    <2> QED BY <2>1, <2>2, <2>3 DEF AnsweredInOrder
  <1>4. TextsArrive /\ QueriesAreTimely
    BY DEF Init, TextsArrive, TextAfter, QueriesAreTimely, NoState
  <1>5. ResultsArrive
    BY DEF Init, ResultsArrive, ShownAfter, NoState, Diagnostics
  <1>6. AnswersAreCurrent
    BY DEF Init, AnswersAreCurrent
  <1> QED BY <1>1, <1>2, <1>3, <1>4, <1>5, <1>6 DEF IInv, Flow

LEMMA NextInvariant == IInv /\ [Next]_vars => IInv'
  <1>1. ASSUME IInv, Next PROVE IInv'
    <2>1. TypeOK'
      <3>1. Terminated => TypeOK'
        BY <1>1 DEF IInv, TypeOK, Terminated, vars, editorVars, serverVars
      <3> QED BY <1>1, <3>1, EditorTypes, RunTypes, ReceiveTypes DEF IInv, Next
    <2>2. /\ AnsweredInOrder' /\ MessagesAreSound' /\ TextsArrive'
          /\ QueriesAreTimely' /\ ResultsArrive' /\ AnswersAreCurrent'
      BY <1>1, AnsweredStep, SoundStep, TextsStep, QueriesStep, ResultsStep,
         CurrentStep DEF IInv, Flow
    <2> QED BY <2>1, <2>2 DEF IInv, Flow
  <1>2. ASSUME IInv, UNCHANGED vars PROVE IInv'
    BY <1>2 DEF IInv, Flow, TypeOK, AnsweredInOrder, MessagesAreSound,
       TextsArrive, QueriesAreTimely, ResultsArrive, AnswersAreCurrent,
       vars, editorVars, serverVars
  <1> QED BY <1>1, <1>2

\* Once both pipes are empty, no text and no result is on its way.
LEMMA InvariantGivesReplies == IInv => RepliesAreRight
  <1> SUFFICES ASSUME IInv, inbox = <<>>, outbox = <<>>, NEW u \in Uris
               PROVE  shown[u] = Diagnostics(text[u])
    BY DEF IInv, RepliesAreRight, ShownIsFresh
  <1>1. documents[u].text = text[u]
    BY DEF IInv, Flow, TextsArrive, TextAfter
  <1>2. shown[u] = Diagnostics(documents[u].text)
    BY DEF IInv, Flow, ResultsArrive, ShownAfter
  <1> QED BY <1>1, <1>2

\* In every reachable state the variables have their types.
THEOREM TypeCorrect == Spec => []TypeOK
  <1>1. IInv => TypeOK
    BY DEF IInv
  <1> QED BY <1>1, InitInvariant, NextInvariant, PTL DEF Spec

\* In every reachable state each request has been answered once, in its turn
\* and from the text it was about, or waits, and what the editor shows is
\* that of the text it holds once the pipes are empty.
THEOREM RepliesCorrect == Spec => []RepliesAreRight
  BY InitInvariant, NextInvariant, InvariantGivesReplies, PTL DEF Spec

-----------------------------------------------------------------------------
(* The feed of diagnostics.                                                 *)

LEMMA Least ==
  ASSUME NEW T \in SUBSET Nat, T # {}
  PROVE  \E n \in T : \A m \in T : n <= m
  <1> DEFINE R == {pair \in Nat \X Nat : pair[1] < pair[2]}
  <1>1. IsWellFoundedOn(R, Nat)
    BY NatLessThanWellFounded DEF OpToRel
  <1> HIDE DEF R
  <1>2. PICK n \in T : \A m \in T : <<m, n>> \notin R
    BY <1>1, WFMin
  <1>3. \A m \in T : ~(m < n)
    BY <1>2 DEF R
  <1> QED BY <1>3

\* f lists the results of the places among the first n, for each n up to c.
Lists(f, queue, places, c) ==
  /\ f = [n \in 0 .. c |-> f[n]]
  /\ f[0] = <<>>
  /\ \A n \in 1 .. c :
       f[n] = IF n \in places
              THEN Append(f[n - 1], Diagnostics(queue[n].text)) ELSE f[n - 1]

LEMMA ListsExist ==
  ASSUME NEW queue, NEW places, NEW c \in Nat
  PROVE  \E f : Lists(f, queue, places, c)
  <1> DEFINE T == {n \in Nat : ~\E f : Lists(f, queue, places, n)}
  <1> SUFFICES ASSUME T # {} PROVE FALSE
    OBVIOUS
  <1>1. PICK m \in T : \A x \in T : m <= x
    BY Least
  <1>2. m # 0
    <2>1. Lists([n \in 0 .. 0 |-> <<>>], queue, places, 0)
      BY DEF Lists
    <2> QED BY <1>1, <2>1
  <1>3. m - 1 \in Nat /\ m - 1 \notin T
    BY <1>1, <1>2
  <1>4. PICK f : Lists(f, queue, places, m - 1)
    BY <1>3
  <1>5. PICK last : last = IF m \in places
                           THEN Append(f[m - 1], Diagnostics(queue[m].text))
                           ELSE f[m - 1]
    OBVIOUS
  <1> DEFINE g == [n \in 0 .. m |-> IF n = m THEN last ELSE f[n]]
  <1>6. Lists(g, queue, places, m)
    <2>1. g = [n \in 0 .. m |-> g[n]] /\ g[0] = <<>>
      BY <1>2, <1>3, <1>4 DEF Lists
    <2>2. ASSUME NEW n \in 1 .. m
          PROVE  g[n] = IF n \in places
                        THEN Append(g[n - 1], Diagnostics(queue[n].text))
                        ELSE g[n - 1]
      <3>1. n - 1 \in 0 .. m /\ n - 1 # m /\ n \in 0 .. m
        BY <1>1
      <3>2. g[n - 1] = f[n - 1]
        BY <3>1
      <3>3. CASE n = m
        BY <1>5, <3>1, <3>2, <3>3
      <3>4. CASE n # m
        <4>1. n \in 1 .. m - 1
          BY <1>1, <3>4
        <4>2. f[n] = IF n \in places
                     THEN Append(f[n - 1], Diagnostics(queue[n].text))
                     ELSE f[n - 1]
          BY <1>4, <4>1 DEF Lists
        <4> QED BY <3>1, <3>2, <3>4, <4>2
      <3> QED BY <3>3, <3>4
    <2> QED BY <2>1, <2>2 DEF Lists
  <1> QED BY <1>1, <1>6

LEMMA ResultsAreListed ==
  ASSUME NEW queue, NEW places, NEW c \in Nat, Len(queue) = c
  PROVE  \E f : Lists(f, queue, places, c) /\ ResultsOf(queue, places) = f[c]
  <1> DEFINE body(f) == [n \in 0 .. c |->
               IF n = 0 THEN <<>>
               ELSE IF n \in places
                    THEN Append(f[n - 1], Diagnostics(queue[n].text))
                    ELSE f[n - 1]]
             results == CHOOSE f : f = body(f)
  <1>1. PICK f : Lists(f, queue, places, c)
    BY ListsExist
  <1>2. f = body(f)
    <2>1. ASSUME NEW n \in 0 .. c
          PROVE  f[n] = IF n = 0 THEN <<>>
                        ELSE IF n \in places
                        THEN Append(f[n - 1], Diagnostics(queue[n].text))
                        ELSE f[n - 1]
      <3>1. CASE n = 0
        BY <1>1, <3>1 DEF Lists
      <3>2. CASE n # 0
        <4>1. n \in 1 .. c
          BY <3>2
        <4> QED BY <1>1, <3>2, <4>1 DEF Lists
      <3> QED BY <3>1, <3>2
    <2> QED BY <1>1, <2>1 DEF Lists
  <1>3. results = body(results)
    BY <1>2
  <1>4. ResultsOf(queue, places) = results[c]
    BY DEF ResultsOf
  <1> HIDE DEF results
  <1>5. Lists(results, queue, places, c)
    <2>1. results = [n \in 0 .. c |-> results[n]]
      BY <1>3
    <2>2. results[0] = <<>>
      BY <1>3
    <2>3. ASSUME NEW n \in 1 .. c
          PROVE  results[n] = IF n \in places
                              THEN Append(results[n - 1], Diagnostics(queue[n].text))
                              ELSE results[n - 1]
      <3>1. n \in 0 .. c /\ n # 0
        OBVIOUS
      <3> QED BY <1>3, <3>1
    <2> QED BY <2>1, <2>2, <2>3 DEF Lists
  <1> QED BY <1>4, <1>5

LEMMA OneElement ==
  ASSUME NEW S, NEW e \in S
  PROVE  <<e>> \in Seq(S)
  OBVIOUS

LEMMA ConcatAppend ==
  ASSUME NEW s \in Seq(Texts), NEW t \in Seq(Texts), NEW e \in Texts
  PROVE  Append(s \o t, e) = s \o Append(t, e)
  <1>1. s \o t \in Seq(Texts)
    BY ConcatProperties
  <1>2. Append(s \o t, e) = (s \o t) \o <<e>>
    BY <1>1, AppendIsConcat
  <1>3. Append(t, e) = t \o <<e>> /\ <<e>> \in Seq(Texts)
    BY AppendIsConcat, OneElement
  <1>4. PICK u \in Seq(Texts) : u = <<e>>
    BY <1>3
  <1>5. (s \o t) \o u = s \o (t \o u)
    BY ConcatAssociative
  <1> QED BY <1>2, <1>3, <1>4, <1>5

LEMMA DiagnosticsType ==
  ASSUME NEW t \in Texts
  PROVE  Diagnostics(t) \in Texts /\ Diagnostics(Diagnostics(t)) = Diagnostics(t)
  BY BoundsAssumption DEF Diagnostics, Texts, Nothing

\* The lists that are listed are sequences of texts.
LEMMA ListsType ==
  ASSUME NEW S, NEW queue \in Seq(S), NEW places, NEW c \in Nat, c = Len(queue),
         \A m \in S : m.text \in Texts, NEW f, Lists(f, queue, places, c)
  PROVE  \A n \in 0 .. c : f[n] \in Seq(Texts)
  <1> DEFINE T == {n \in 0 .. c : f[n] \notin Seq(Texts)}
  <1> SUFFICES ASSUME T # {} PROVE FALSE
    OBVIOUS
  <1>0. T \in SUBSET Nat
    OBVIOUS
  <1>1. PICK m \in T : \A x \in T : m <= x
    BY <1>0, Least
  <1>2. m # 0
    BY <1>1 DEF Lists
  <1>3. m \in 1 .. c /\ m - 1 \in 0 .. c /\ m - 1 \notin T
    BY <1>1, <1>2
  <1>4. f[m - 1] \in Seq(Texts)
    BY <1>3
  <1>5. queue[m] \in S
    BY <1>3
  <1>6. Diagnostics(queue[m].text) \in Texts
    BY <1>5, DiagnosticsType
  <1>7. f[m] \in Seq(Texts)
    <2>1. f[m] = IF m \in places
                 THEN Append(f[m - 1], Diagnostics(queue[m].text)) ELSE f[m - 1]
      BY <1>3 DEF Lists
    <2>2. PICK d \in Texts : d = Diagnostics(queue[m].text)
      BY <1>6
    <2> QED BY <1>4, <2>1, <2>2
  <1> QED BY <1>1, <1>7

LEMMA ResultsType ==
  ASSUME NEW S, NEW queue \in Seq(S), NEW places, \A m \in S : m.text \in Texts
  PROVE  ResultsOf(queue, places) \in Seq(Texts)
  <1>1. PICK c \in Nat : c = Len(queue)
    OBVIOUS
  <1>2. PICK f : Lists(f, queue, places, c) /\ ResultsOf(queue, places) = f[c]
    BY <1>1, ResultsAreListed
  <1>3. c \in 0 .. c
    BY <1>1
  <1> QED BY <1>1, <1>2, <1>3, ListsType

\* A message at the end of a queue comes last.
LEMMA AppendedResult ==
  ASSUME NEW S, NEW queue \in Seq(S), NEW m \in S, NEW places, NEW after,
         \A n \in 1 .. Len(queue) : n \in places <=> n \in after
  PROVE  ResultsOf(Append(queue, m), after)
           = IF Len(queue) + 1 \in after
             THEN Append(ResultsOf(queue, places), Diagnostics(m.text))
             ELSE ResultsOf(queue, places)
  <1>1. PICK c \in Nat : c = Len(queue)
    OBVIOUS
  <1>1a. PICK q : q = Append(queue, m)
    OBVIOUS
  <1>2. /\ Len(q) = c + 1 /\ c + 1 \in Nat /\ q[c + 1] = m
        /\ \A n \in 1 .. c : q[n] = queue[n]
    BY <1>1, <1>1a, AppendFacts
  <1>3. PICK f : Lists(f, queue, places, c) /\ ResultsOf(queue, places) = f[c]
    BY <1>1, ResultsAreListed
  <1>4. PICK g : Lists(g, q, after, c + 1) /\ ResultsOf(q, after) = g[c + 1]
    BY <1>2, ResultsAreListed
  <1> DEFINE T == {n \in 0 .. c : f[n] # g[n]}
  <1>5. T = {}
    <2> SUFFICES ASSUME T # {} PROVE FALSE
      OBVIOUS
    <2>0. T \in SUBSET Nat
      OBVIOUS
    <2>1. PICK n \in T : \A x \in T : n <= x
      BY <2>0, Least
    <2>2. n # 0
      BY <1>3, <1>4, <2>1 DEF Lists
    <2>3. n \in 1 .. c /\ n \in 1 .. c + 1 /\ n - 1 \in 0 .. c /\ n - 1 \notin T
      BY <2>1, <2>2
    <2>4. f[n - 1] = g[n - 1]
      BY <2>3
    <2>5. f[n] = g[n]
      BY <1>1, <1>2, <1>3, <1>4, <2>3, <2>4 DEF Lists
    <2> QED BY <2>1, <2>5
  <1>6. f[c] = g[c]
    BY <1>5
  <1>7. g[c + 1] = IF c + 1 \in after THEN Append(g[c], Diagnostics(m.text))
                   ELSE g[c]
    <2>1. c + 1 \in 1 .. c + 1 /\ (c + 1) - 1 = c
      BY <1>1
    <2> QED BY <1>2, <1>4, <2>1 DEF Lists
  <1> QED BY <1>1, <1>1a, <1>3, <1>4, <1>6, <1>7

\* A message at the head of a queue comes first.
LEMMA NextResult ==
  ASSUME NEW S, NEW queue \in Seq(S), queue # <<>>, NEW places, NEW after,
         \A m \in S : m.text \in Texts,
         \A n \in 1 .. Len(queue) - 1 : n + 1 \in places <=> n \in after
  PROVE  ResultsOf(queue, places)
           = IF 1 \in places
             THEN <<Diagnostics(queue[1].text)>> \o ResultsOf(Tail(queue), after)
             ELSE ResultsOf(Tail(queue), after)
  <1>1. PICK c \in Nat : c + 1 = Len(queue)
    <2>1. Len(queue) - 1 \in Nat /\ (Len(queue) - 1) + 1 = Len(queue)
      OBVIOUS
    <2> QED BY <2>1
  <1>1a. PICK q : q = Tail(queue)
    OBVIOUS
  <1>2. /\ Len(q) = c /\ c + 1 \in Nat /\ q \in Seq(S)
        /\ \A n \in 1 .. c : q[n] = queue[n + 1]
    BY <1>1, <1>1a, TailFacts
  <1>3. PICK g : Lists(g, queue, places, c + 1)
                 /\ ResultsOf(queue, places) = g[c + 1]
    BY <1>1, <1>2, ResultsAreListed
  <1>4. PICK f : Lists(f, q, after, c) /\ ResultsOf(q, after) = f[c]
    BY <1>1, <1>2, ResultsAreListed
  <1>5. PICK first : first = IF 1 \in places
                             THEN <<Diagnostics(queue[1].text)>> ELSE <<>>
    OBVIOUS
  <1>6. Diagnostics(queue[1].text) \in Texts
    BY DiagnosticsType
  <1>7. first \in Seq(Texts)
    BY <1>5, <1>6
  <1>8. \A n \in 0 .. c : f[n] \in Seq(Texts)
    BY <1>2, <1>4, ListsType
  <1>9. g[1] = first
    <2>1. 1 \in 1 .. c + 1
      BY <1>1
    <2>2. g[1] = IF 1 \in places THEN Append(g[0], Diagnostics(queue[1].text))
                 ELSE g[0]
      <3>1. 1 - 1 = 0
        OBVIOUS
      <3> QED BY <1>3, <2>1, <3>1 DEF Lists
    <2>3. g[0] = <<>>
      BY <1>3 DEF Lists
    <2> QED BY <1>5, <1>6, <2>2, <2>3
  <1> DEFINE T == {n \in 0 .. c : g[n + 1] # first \o f[n]}
  <1>10. T = {}
    <2> SUFFICES ASSUME T # {} PROVE FALSE
      OBVIOUS
    <2>0. T \in SUBSET Nat
      OBVIOUS
    <2>1. PICK n \in T : \A x \in T : n <= x
      BY <2>0, Least
    <2>2. n # 0
      <3>1. g[0 + 1] = first \o f[0]
        <4>1. f[0] = <<>> /\ 0 + 1 = 1
          BY <1>4 DEF Lists
        <4>2. first \o <<>> = first
          BY <1>7, ConcatEmptySeq
        <4> QED BY <1>9, <4>1, <4>2
      <3>2. g[n + 1] # first \o f[n]
        BY <2>1
      <3> QED BY <3>1, <3>2
    <2>3. /\ n \in 1 .. c /\ n + 1 \in 1 .. c + 1 /\ n - 1 \in 0 .. c
          /\ n - 1 \notin T
      BY <2>1, <2>2
    <2>4. g[n] = first \o f[n - 1] /\ f[n - 1] \in Seq(Texts)
      <3>1. (n - 1) + 1 = n
        BY <2>1
      <3>2. g[(n - 1) + 1] = first \o f[n - 1]
        BY <2>3
      <3> QED BY <1>8, <2>3, <3>1, <3>2
    <2>5. PICK d : d = Diagnostics(queue[n + 1].text)
      OBVIOUS
    <2>6. d \in Texts
      BY <1>1, <2>3, <2>5, DiagnosticsType
    <2>7. g[n + 1] = IF n + 1 \in places THEN Append(g[n], d) ELSE g[n]
      <3>1. (n + 1) - 1 = n
        BY <2>1
      <3> QED BY <1>3, <2>3, <2>5, <3>1 DEF Lists
    <2>8. f[n] = IF n \in after THEN Append(f[n - 1], d) ELSE f[n - 1]
      BY <1>2, <1>4, <2>3, <2>5 DEF Lists
    <2>9. n + 1 \in places <=> n \in after
      BY <1>1, <2>3
    <2>10. Append(first \o f[n - 1], d) = first \o Append(f[n - 1], d)
      <3>1. PICK rest \in Seq(Texts) : rest = f[n - 1]
        BY <2>4
      <3>2. Append(first \o rest, d) = first \o Append(rest, d)
        BY ONLY <1>7, <2>6, <3>1, ConcatAppend
      <3> QED BY <3>1, <3>2
    <2>11. g[n + 1] = first \o f[n]
      BY <2>4, <2>7, <2>8, <2>9, <2>10
    <2> QED BY <2>1, <2>11
  <1>11. g[c + 1] = first \o f[c] /\ f[c] \in Seq(Texts)
    <2>1. c \in 0 .. c
      BY <1>1
    <2> QED BY <1>8, <1>10, <2>1
  <1>12. PICK rest \in Seq(Texts) : rest = f[c]
    BY <1>11
  <1>13. <<>> \o rest = rest
    OBVIOUS
  <1> QED BY <1>1, <1>1a, <1>3, <1>4, <1>5, <1>11, <1>12, <1>13

\* What is published is a result.
PublishedAreResults ==
  \A i \in 1 .. Len(outbox) :
    outbox[i].kind = "publish" => Diagnostics(outbox[i].text) = outbox[i].text

LEMMA TextsOfQueues ==
  /\ \A m \in Messages : m.text \in Texts
  /\ \A m \in Replies : m.text \in Texts
  BY DEF Messages, Replies

LEMMA PlacesAre ==
  ASSUME TypeOK, NEW u
  PROVE  /\ \A i \in 1 .. Len(inbox) : i \in Updating(u) <=> UpdateAt(inbox, i, u)
         /\ \A i \in 1 .. Len(outbox) : i \in Published(u) <=> ResultAt(outbox, i, u)
  BY DEF TypeOK, Updating, Published, UpdateAt, ResultAt

\* A message at the end of the server's pipe.
LEMMA SentDue ==
  ASSUME TypeOK, NEW m \in Messages, inbox' = Append(inbox, m),
         UNCHANGED outbox, NEW u
  PROVE  /\ ResultsOf(outbox, Published(u))' = ResultsOf(outbox, Published(u))
         /\ ResultsOf(inbox, Updating(u))'
              = IF IsUpdate(m) /\ m.uri = u
                THEN Append(ResultsOf(inbox, Updating(u)), Diagnostics(m.text))
                ELSE ResultsOf(inbox, Updating(u))
  <1>1. inbox \in Seq(Messages)
    BY DEF TypeOK
  <1>2. PICK after : after = Updating(u)'
    OBVIOUS
  <1>3. /\ DOMAIN inbox' = 1 .. Len(inbox) + 1 /\ inbox'[Len(inbox) + 1] = m
        /\ \A i \in 1 .. Len(inbox) : inbox'[i] = inbox[i]
        /\ Len(inbox) \in Nat /\ DOMAIN inbox = 1 .. Len(inbox)
    BY <1>1, AppendFacts
  <1>4. Len(inbox) + 1 \in after <=> IsUpdate(m) /\ m.uri = u
    BY <1>2, <1>3 DEF Updating, IsUpdate
  <1>5. \A i \in 1 .. Len(inbox) : i \in Updating(u) <=> i \in after
    BY <1>2, <1>3 DEF Updating, IsUpdate
  <1>6. ResultsOf(Append(inbox, m), after)
          = IF Len(inbox) + 1 \in after
            THEN Append(ResultsOf(inbox, Updating(u)), Diagnostics(m.text))
            ELSE ResultsOf(inbox, Updating(u))
    BY <1>1, <1>5, AppendedResult
  <1>7. ResultsOf(inbox, Updating(u))' = ResultsOf(inbox', after)
    BY <1>2
  <1>8. Published(u)' = Published(u)
    BY DEF Published
  <1>9. ResultsOf(outbox, Published(u))' = ResultsOf(outbox, Published(u))
    BY <1>8 DEF ResultsOf
  <1> QED BY <1>4, <1>6, <1>7, <1>9

LEMMA ReadDue ==
  ASSUME TypeOK, inbox # <<>>, inbox' = Tail(inbox), NEW u
  PROVE  ResultsOf(inbox, Updating(u))
           = IF IsUpdate(Head(inbox)) /\ Head(inbox).uri = u
             THEN <<Diagnostics(Head(inbox).text)>>
                    \o ResultsOf(inbox, Updating(u))'
             ELSE ResultsOf(inbox, Updating(u))'
  <1>1. inbox \in Seq(Messages)
    BY DEF TypeOK
  <1>2. PICK after : after = Updating(u)'
    OBVIOUS
  <1>3. /\ DOMAIN inbox' = 1 .. Len(inbox) - 1 /\ Head(inbox) = inbox[1]
        /\ \A i \in 1 .. Len(inbox) - 1 : inbox'[i] = inbox[i + 1]
        /\ Len(inbox) \in Nat \ {0} /\ DOMAIN inbox = 1 .. Len(inbox)
    BY <1>1, TailFacts
  <1>4. 1 \in Updating(u) <=> IsUpdate(Head(inbox)) /\ Head(inbox).uri = u
    BY <1>3 DEF Updating
  <1>5. ASSUME NEW i \in 1 .. Len(inbox) - 1
        PROVE  i + 1 \in Updating(u) <=> i \in after
    <2>1. i + 1 \in DOMAIN inbox /\ i \in DOMAIN inbox' /\ inbox'[i] = inbox[i + 1]
      BY <1>3
    <2> QED BY <1>2, <2>1 DEF Updating, IsUpdate
  <1>6. ResultsOf(inbox, Updating(u))
          = IF 1 \in Updating(u)
            THEN <<Diagnostics(inbox[1].text)>> \o ResultsOf(Tail(inbox), after)
            ELSE ResultsOf(Tail(inbox), after)
    BY <1>1, <1>5, TextsOfQueues, NextResult
  <1>7. ResultsOf(inbox, Updating(u))' = ResultsOf(Tail(inbox), after)
    BY <1>2
  <1> QED BY <1>3, <1>4, <1>6, <1>7

LEMMA WrittenDue ==
  ASSUME TypeOK, NEW m \in Replies, outbox' = Append(outbox, m), NEW u
  PROVE  ResultsOf(outbox, Published(u))'
           = IF m.kind = "publish" /\ m.uri = u
             THEN Append(ResultsOf(outbox, Published(u)), Diagnostics(m.text))
             ELSE ResultsOf(outbox, Published(u))
  <1>1. outbox \in Seq(Replies)
    BY DEF TypeOK
  <1>2. PICK after : after = Published(u)'
    OBVIOUS
  <1>3. /\ DOMAIN outbox' = 1 .. Len(outbox) + 1 /\ outbox'[Len(outbox) + 1] = m
        /\ \A i \in 1 .. Len(outbox) : outbox'[i] = outbox[i]
        /\ Len(outbox) \in Nat /\ DOMAIN outbox = 1 .. Len(outbox)
    BY <1>1, AppendFacts
  <1>4. Len(outbox) + 1 \in after <=> m.kind = "publish" /\ m.uri = u
    BY <1>2, <1>3 DEF Published
  <1>5. \A i \in 1 .. Len(outbox) : i \in Published(u) <=> i \in after
    BY <1>2, <1>3 DEF Published
  <1>6. ResultsOf(Append(outbox, m), after)
          = IF Len(outbox) + 1 \in after
            THEN Append(ResultsOf(outbox, Published(u)), Diagnostics(m.text))
            ELSE ResultsOf(outbox, Published(u))
    BY <1>1, <1>5, AppendedResult
  <1>7. ResultsOf(outbox, Published(u))' = ResultsOf(outbox', after)
    BY <1>2
  <1> QED BY <1>4, <1>6, <1>7

LEMMA ReceivedDue ==
  ASSUME TypeOK, outbox # <<>>, outbox' = Tail(outbox), NEW u
  PROVE  ResultsOf(outbox, Published(u))
           = IF Head(outbox).kind = "publish" /\ Head(outbox).uri = u
             THEN <<Diagnostics(Head(outbox).text)>>
                    \o ResultsOf(outbox, Published(u))'
             ELSE ResultsOf(outbox, Published(u))'
  <1>1. outbox \in Seq(Replies)
    BY DEF TypeOK
  <1>2. PICK after : after = Published(u)'
    OBVIOUS
  <1>3. /\ DOMAIN outbox' = 1 .. Len(outbox) - 1 /\ Head(outbox) = outbox[1]
        /\ \A i \in 1 .. Len(outbox) - 1 : outbox'[i] = outbox[i + 1]
        /\ Len(outbox) \in Nat \ {0} /\ DOMAIN outbox = 1 .. Len(outbox)
    BY <1>1, TailFacts
  <1>4. 1 \in Published(u) <=> Head(outbox).kind = "publish" /\ Head(outbox).uri = u
    BY <1>3 DEF Published
  <1>5. ASSUME NEW i \in 1 .. Len(outbox) - 1
        PROVE  i + 1 \in Published(u) <=> i \in after
    <2>1. i + 1 \in DOMAIN outbox /\ i \in DOMAIN outbox' /\ outbox'[i] = outbox[i + 1]
      BY <1>3
    <2> QED BY <1>2, <2>1 DEF Published
  <1>6. ResultsOf(outbox, Published(u))
          = IF 1 \in Published(u)
            THEN <<Diagnostics(outbox[1].text)>> \o ResultsOf(Tail(outbox), after)
            ELSE ResultsOf(Tail(outbox), after)
    BY <1>1, <1>5, TextsOfQueues, NextResult
  <1>7. ResultsOf(outbox, Published(u))' = ResultsOf(Tail(outbox), after)
    BY <1>2
  <1> QED BY <1>3, <1>4, <1>6, <1>7

-----------------------------------------------------------------------------
(* What a step does to the results that are due.                            *)

LEMMA DueParts ==
  ASSUME TypeOK, NEW u
  PROVE  /\ ResultsOf(outbox, Published(u)) \in Seq(Texts)
         /\ ResultsOf(inbox, Updating(u)) \in Seq(Texts)
         /\ Due(u) \in Seq(Texts)
  <1>1. ResultsOf(outbox, Published(u)) \in Seq(Texts)
    BY ResultsType, TextsOfQueues DEF TypeOK
  <1>2. ResultsOf(inbox, Updating(u)) \in Seq(Texts)
    BY ResultsType, TextsOfQueues DEF TypeOK
  <1> QED BY <1>1, <1>2, ConcatProperties DEF Due

\* An update of a document makes its result due, and no other.
LEMMA UpdateIsDue ==
  ASSUME TypeOK, NEW m \in Messages, SendsUpdate(m), NEW u
  PROVE  Due(u)' = IF m.uri = u THEN Append(Due(u), Diagnostics(m.text))
                   ELSE Due(u)
  <1>1. PICK out \in Seq(Texts) : out = ResultsOf(outbox, Published(u))
    BY DueParts
  <1>2. PICK in \in Seq(Texts) : in = ResultsOf(inbox, Updating(u))
    BY DueParts
  <1>3. PICK d \in Texts : d = Diagnostics(m.text)
    BY TextsOfQueues, DiagnosticsType
  <1>4. /\ IsUpdate(m) /\ inbox' = Append(inbox, m) /\ outbox' = outbox
    BY DEF SendsUpdate, Sent
  <1>5. /\ ResultsOf(outbox, Published(u))' = out
        /\ ResultsOf(inbox, Updating(u))'
             = IF m.uri = u THEN Append(in, d) ELSE in
    BY <1>1, <1>2, <1>3, <1>4, SentDue
  <1>6. Append(out \o in, d) = out \o Append(in, d)
    BY ConcatAppend
  <1> QED BY <1>1, <1>2, <1>3, <1>5, <1>6 DEF Due

\* Nothing becomes due by another message, and nothing ceases to be.
LEMMA MessageIsNotDue ==
  ASSUME TypeOK, NEW m \in Messages, SendsRequest(m) \/ SendsOther(m), NEW u
  PROVE  Due(u)' = Due(u)
  <1>1. ~IsUpdate(m) /\ inbox' = Append(inbox, m) /\ outbox' = outbox
    BY UpdateKinds DEF SendsRequest, SendsOther, Sent
  <1> QED BY <1>1, SentDue DEF Due

\* What the server publishes was due when the update was on its way.
LEMMA PublishedStaysDue ==
  ASSUME TypeOK, MessagesAreSound, TakesUpdate(Head(inbox)), NEW u
  PROVE  Due(u)' = Due(u)
  <1> DEFINE m == Head(inbox)
             r == Message("publish", m.uri, Diagnostics(m.text), 0)
  <1>1. /\ Read /\ m \in Messages /\ r \in Replies /\ r.kind = "publish"
        /\ r.uri = m.uri /\ r.text = Diagnostics(m.text)
    BY PublishIsReply
  <1>2. /\ IsUpdate(m) /\ outbox' = Append(outbox, r)
        /\ inbox # <<>> /\ inbox' = Tail(inbox)
    BY DEF TakesUpdate, Read
  <1>3. Diagnostics(m.text) \in Texts /\ Diagnostics(r.text) = Diagnostics(m.text)
    BY <1>1, TextsOfQueues, DiagnosticsType
  <1>4. PICK d \in Texts : d = Diagnostics(m.text)
    BY <1>3
  <1>5. PICK out \in Seq(Texts) : out = ResultsOf(outbox, Published(u))
    BY DueParts
  <1>6. PICK in : in = ResultsOf(inbox, Updating(u))'
    OBVIOUS
  <1>7. PICK before \in Seq(Texts) : before = ResultsOf(inbox, Updating(u))
    BY DueParts
  <1>8. ResultsOf(outbox, Published(u))' = IF m.uri = u THEN Append(out, d) ELSE out
    <2> HIDE DEF r, m
    <2> QED BY <1>1, <1>2, <1>3, <1>4, <1>5, WrittenDue
  <1>9. before = IF m.uri = u THEN <<d>> \o in ELSE in
    BY <1>2, <1>4, <1>6, <1>7, ReadDue
  <1>10. in \in Seq(Texts)
    <2>1. inbox' \in Seq(Messages)
      BY <1>2, TailFacts DEF TypeOK
    <2>2. PICK places : places = Updating(u)'
      OBVIOUS
    <2>3. ResultsOf(inbox', places) \in Seq(Texts)
      BY <2>1, TextsOfQueues, ResultsType
    <2>4. in = ResultsOf(inbox', places)
      BY <1>6, <2>2
    <2> QED BY <2>3, <2>4
  <1>11. Append(out, d) = out \o <<d>> /\ <<d>> \in Seq(Texts)
    BY AppendIsConcat, OneElement
  <1>12. PICK one \in Seq(Texts) : one = <<d>>
    BY <1>11
  <1>13. (out \o one) \o in = out \o (one \o in)
    BY ONLY <1>10, <1>12, ConcatAssociative
  <1>14. Due(u) = out \o before
    BY <1>5, <1>7 DEF Due
  <1>15. Due(u)' = (IF m.uri = u THEN Append(out, d) ELSE out) \o in
    BY <1>6, <1>8 DEF Due
  <1> HIDE DEF m
  <1> QED BY <1>9, <1>11, <1>12, <1>13, <1>14, <1>15

LEMMA OthersStayDue ==
  ASSUME TypeOK, MessagesAreSound, NEW u,
         TakesRequest(Head(inbox)) \/ TakesOther(Head(inbox)) \/ Rests
  PROVE  Due(u)' = Due(u)
  <1>1. CASE TakesRequest(Head(inbox))
    <2>1. PICK a \in Texts :
            outbox' = Append(outbox, Message("answer", Head(inbox).uri, a, Head(inbox).id))
      BY <1>1 DEF TakesRequest
    <2> DEFINE r == Message("answer", Head(inbox).uri, a, Head(inbox).id)
    <2>2. r \in Replies /\ r.kind = "answer"
      BY <1>1, AnswerIsReply
    <2>3. outbox' = Append(outbox, r)
      BY <2>1
    <2> HIDE DEF r
    <2>4. ResultsOf(outbox, Published(u))' = ResultsOf(outbox, Published(u))
      BY <2>2, <2>3, WrittenDue
    <2>5. ~IsUpdate(Head(inbox)) /\ inbox # <<>> /\ inbox' = Tail(inbox)
      BY <1>1, UpdateKinds DEF TakesRequest, Read
    <2>6. ResultsOf(inbox, Updating(u)) = ResultsOf(inbox, Updating(u))'
      BY <2>5, ReadDue
    <2> QED BY <2>4, <2>6 DEF Due
  <1>2. CASE TakesOther(Head(inbox))
    <2>1. ~IsUpdate(Head(inbox)) /\ inbox # <<>> /\ inbox' = Tail(inbox)
      BY <1>2 DEF TakesOther, Read
    <2>2. ResultsOf(inbox, Updating(u)) = ResultsOf(inbox, Updating(u))'
      BY <2>1, ReadDue
    <2>3. outbox' = outbox
      BY <1>2 DEF TakesOther
    <2>4. ResultsOf(outbox, Published(u))' = ResultsOf(outbox, Published(u))
      BY <2>3 DEF Published, ResultsOf
    <2> QED BY <2>2, <2>4 DEF Due
  <1>3. CASE Rests
    BY <1>3 DEF Rests, Due, Published, Updating, ResultsOf, IsUpdate
  <1> QED BY <1>1, <1>2, <1>3

\* What the editor takes from its pipe is what is due first.
LEMMA ReceivedIsDue ==
  ASSUME TypeOK, PublishedAreResults, MessagesAreSound, Receive, NEW u
  PROVE  IF Head(outbox).kind = "publish" /\ Head(outbox).uri = u
         THEN /\ Due(u) # <<>> /\ Head(Due(u)) = Head(outbox).text
              /\ Due(u)' = Tail(Due(u))
         ELSE Due(u)' = Due(u)
  <1>1. /\ outbox # <<>> /\ outbox' = Tail(outbox) /\ inbox' = inbox
        /\ Head(outbox) = outbox[1] /\ 1 \in 1 .. Len(outbox)
        /\ Head(outbox) \in Replies
    BY ReceiveFacts
  <1>2. ResultsOf(inbox, Updating(u))' = ResultsOf(inbox, Updating(u))
    BY <1>1 DEF Updating, ResultsOf, IsUpdate
  <1>3. PICK in \in Seq(Texts) : in = ResultsOf(inbox, Updating(u))
    BY DueParts
  <1>4. PICK out : out = ResultsOf(outbox, Published(u))'
    OBVIOUS
  <1>5. out \in Seq(Texts)
    <2>1. outbox' \in Seq(Replies)
      BY <1>1, TailFacts DEF TypeOK
    <2>2. PICK places : places = Published(u)'
      OBVIOUS
    <2>3. ResultsOf(outbox', places) \in Seq(Texts)
      BY <2>1, TextsOfQueues, ResultsType
    <2>4. out = ResultsOf(outbox', places)
      BY <1>4, <2>2
    <2> QED BY <2>3, <2>4
  <1>6. Due(u)' = out \o in
    BY <1>2, <1>3, <1>4 DEF Due
  <1>7. CASE Head(outbox).kind = "publish" /\ Head(outbox).uri = u
    <2>1. PICK t \in Texts : t = Head(outbox).text
      BY <1>1, TextsOfQueues
    <2>2. Diagnostics(Head(outbox).text) = t
      BY <1>1, <1>7, <2>1 DEF PublishedAreResults
    <2>3. ResultsOf(outbox, Published(u)) = <<t>> \o out
      BY <1>1, <1>4, <1>7, <2>2, ReceivedDue
    <2>4. PICK one \in Seq(Texts) : one = <<t>>
      <3>1. <<t>> \in Seq(Texts)
        BY <2>1, OneElement
      <3> QED BY <3>1
    <2>5. (one \o out) \o in = one \o (out \o in)
      BY ONLY <1>3, <1>5, <2>4, ConcatAssociative
    <2>6. PICK later \in Seq(Texts) : later = out \o in
      BY <1>3, <1>5, ConcatProperties
    <2>7. Due(u) = <<t>> \o later
      BY <1>3, <2>3, <2>4, <2>5, <2>6 DEF Due
    <2>8. /\ <<t>> \o later # <<>> /\ Head(<<t>> \o later) = t
          /\ Tail(<<t>> \o later) = later
      OBVIOUS
    <2> QED BY <1>6, <1>7, <2>1, <2>6, <2>7, <2>8
  <1>8. CASE ~(Head(outbox).kind = "publish" /\ Head(outbox).uri = u)
    <2>1. ResultsOf(outbox, Published(u)) = out
      BY <1>1, <1>4, <1>8, ReceivedDue
    <2> QED BY <1>3, <1>6, <1>8, <2>1 DEF Due
  <1> QED BY <1>7, <1>8

-----------------------------------------------------------------------------
(* The refinement.                                                          *)

FeedInv == IInv /\ PublishedAreResults

LEMMA PublishedStep ==
  ASSUME TypeOK, MessagesAreSound, PublishedAreResults, Next
  PROVE  PublishedAreResults'
  <1>1. ASSUME UNCHANGED outbox PROVE PublishedAreResults'
    BY <1>1 DEF PublishedAreResults
  <1>2. ASSUME NEW r \in Replies, outbox' = Append(outbox, r),
               r.kind = "publish" => Diagnostics(r.text) = r.text
        PROVE  PublishedAreResults'
    <2> SUFFICES ASSUME NEW i \in 1 .. Len(outbox'), outbox'[i].kind = "publish"
                 PROVE  Diagnostics(outbox'[i].text) = outbox'[i].text
      BY DEF PublishedAreResults, Diagnostics
    <2>1. /\ Len(outbox') = Len(outbox) + 1 /\ Len(outbox) \in Nat
          /\ \A k \in 1 .. Len(outbox) : outbox'[k] = outbox[k]
          /\ outbox'[Len(outbox) + 1] = r
      BY <1>2, ReplyFacts
    <2>2. i \in 1 .. Len(outbox) \/ i = Len(outbox) + 1
      BY <2>1
    <2> QED BY <1>2, <2>1, <2>2 DEF PublishedAreResults
  <1>3. CASE TakesUpdate(Head(inbox))
    <2> DEFINE r == Message("publish", Head(inbox).uri, Diagnostics(Head(inbox).text), 0)
    <2>1. r \in Replies /\ r.text = Diagnostics(Head(inbox).text)
          /\ Head(inbox) \in Messages
      BY <1>3, PublishIsReply
    <2>2. outbox' = Append(outbox, r)
      BY <1>3 DEF TakesUpdate
    <2>3. Diagnostics(r.text) = r.text
      BY <2>1, TextsOfQueues, DiagnosticsType
    <2> HIDE DEF r
    <2> QED BY <1>2, <2>1, <2>2, <2>3
  <1>4. CASE TakesRequest(Head(inbox))
    <2>1. PICK a \in Texts :
            outbox' = Append(outbox, Message("answer", Head(inbox).uri, a, Head(inbox).id))
      BY <1>4 DEF TakesRequest
    <2> DEFINE r == Message("answer", Head(inbox).uri, a, Head(inbox).id)
    <2>2. r \in Replies /\ r.kind = "answer"
      BY <1>4, AnswerIsReply
    <2>3. outbox' = Append(outbox, r)
      BY <2>1
    <2> HIDE DEF r
    <2> QED BY <1>2, <2>2, <2>3
  <1>5. CASE Receive
    <2>1. /\ \A i \in 1 .. Len(outbox') : i + 1 \in 1 .. Len(outbox)
                                          /\ outbox'[i] = outbox[i + 1]
      BY <1>5, ReceiveFacts
    <2> QED BY <2>1 DEF PublishedAreResults, Diagnostics
  <1>6. CASE TakesOther(Head(inbox))
    BY <1>1, <1>6 DEF TakesOther
  <1>7. CASE Rests
    BY <1>1, <1>7 DEF Rests
  <1>8. ASSUME NEW m \in Messages, SendsUpdate(m) \/ SendsRequest(m) \/ SendsOther(m)
        PROVE  PublishedAreResults'
    BY <1>1, <1>8 DEF SendsUpdate, SendsRequest, SendsOther, Sent
  <1> QED BY <1>3, <1>4, <1>5, <1>6, <1>7, <1>8, Steps

LEMMA FeedInductive ==
  /\ Init => FeedInv
  /\ FeedInv /\ [Next]_vars => FeedInv'
  <1>1. Init => PublishedAreResults
    BY DEF Init, PublishedAreResults
  <1>2. ASSUME FeedInv, Next PROVE PublishedAreResults'
    BY <1>2, PublishedStep DEF FeedInv, IInv
  <1>3. ASSUME FeedInv, UNCHANGED vars PROVE PublishedAreResults'
    BY <1>3 DEF FeedInv, PublishedAreResults, Diagnostics, vars
  <1> QED BY <1>1, <1>2, <1>3, InitInvariant, NextInvariant DEF FeedInv

\* What is due, of all documents.
TheDue == [u \in Uris |-> Due(u)]

LEMMA InitFeed == Init => Feed!FeedInit
  <1> SUFFICES ASSUME Init PROVE Feed!FeedInit
    OBVIOUS
  <1>1. TypeOK
    BY InitInvariant DEF IInv
  <1>2. ASSUME NEW places PROVE ResultsOf(<<>>, places) = <<>>
    <2>1. PICK f : Lists(f, <<>>, places, 0) /\ ResultsOf(<<>>, places) = f[0]
      BY ResultsAreListed
    <2> QED BY <2>1 DEF Lists
  <1>3. inbox = <<>> /\ outbox = <<>>
    BY DEF Init
  <1>4. \A u \in Uris : Due(u) = <<>>
    BY <1>2, <1>3 DEF Due
  <1> QED BY <1>1, <1>4 DEF Feed!FeedInit, TypeOK

LEMMA StepFeed ==
  ASSUME FeedInv, [Next]_vars
  PROVE  [Feed!FeedNext]_<<TheDue, shown>>
  <1> USE DEF FeedInv, IInv
  <1>1. ASSUME \A u \in Uris : Due(u)' = Due(u), shown' = shown
        PROVE  UNCHANGED <<TheDue, shown>>
    BY <1>1 DEF TheDue
  <1>2. ASSUME NEW m \in Messages, SendsUpdate(m)
        PROVE  Feed!FeedNext
    <2>1. m.uri \in Uris /\ shown' = shown
      BY <1>2 DEF SendsUpdate, Sent
    <2>2. PICK d \in Texts : d = Diagnostics(m.text)
      BY TextsOfQueues, DiagnosticsType
    <2>3. \A u \in Uris : Due(u)' = IF m.uri = u THEN Append(Due(u), d) ELSE Due(u)
      BY <1>2, <2>2, UpdateIsDue
    <2>4. TheDue' = [TheDue EXCEPT ![m.uri] = Append(@, d)]
      BY <2>1, <2>3 DEF TheDue
    <2>5. Feed!Edit(m.uri)
      BY <2>1, <2>2, <2>4 DEF Feed!Edit, TheDue
    <2> QED BY <2>1, <2>5 DEF Feed!FeedNext
  <1>3. ASSUME NEW m \in Messages, SendsRequest(m) \/ SendsOther(m)
        PROVE  UNCHANGED <<TheDue, shown>>
    <2>1. shown' = shown
      BY <1>3 DEF SendsRequest, SendsOther, Sent
    <2> QED BY <1>1, <1>3, <2>1, MessageIsNotDue
  <1>4. CASE TakesUpdate(Head(inbox))
    <2>1. shown' = shown
      BY <1>4, ReadFacts DEF TakesUpdate
    <2> QED BY <1>1, <1>4, <2>1, PublishedStaysDue
  <1>5. CASE TakesRequest(Head(inbox)) \/ TakesOther(Head(inbox)) \/ Rests
    <2>1. shown' = shown
      BY <1>5, ReadFacts DEF TakesRequest, TakesOther, Rests
    <2> QED BY <1>1, <1>5, <2>1, OthersStayDue
  <1>6. CASE Receive
    <2>1. CASE Head(outbox).kind = "publish"
      <3>1. PICK v : v = Head(outbox).uri
        OBVIOUS
      <3>2. PICK t : t = Head(outbox).text
        OBVIOUS
      <3>3. v \in Uris /\ shown' = [shown EXCEPT ![v] = t]
        BY <1>6, <2>1, <3>1, <3>2, ReceiveFacts DEF ReplyIsSound
      <3>4. /\ Due(v) # <<>> /\ Head(Due(v)) = t /\ Due(v)' = Tail(Due(v))
            /\ \A u \in Uris : u # v => Due(u)' = Due(u)
        BY <1>6, <2>1, <3>1, <3>2, ReceivedIsDue
      <3>5. TheDue' = [TheDue EXCEPT ![v] = Tail(@)]
        BY <3>3, <3>4 DEF TheDue
      <3>6. TheDue[v] # <<>> /\ t = Head(TheDue[v])
        BY <3>3, <3>4 DEF TheDue
      <3>7. Feed!Show(v)
        BY <3>3, <3>5, <3>6 DEF Feed!Show, TheDue
      <3> QED BY <3>3, <3>7 DEF Feed!FeedNext
    <2>2. CASE Head(outbox).kind # "publish"
      <3>1. shown' = shown
        BY <1>6, <2>2, ReceiveFacts
      <3> QED BY <1>1, <1>6, <2>2, <3>1, ReceivedIsDue
    <2> QED BY <2>1, <2>2
  <1>7. CASE UNCHANGED vars
    <2>1. Rests
      BY <1>7 DEF vars, editorVars, serverVars, Rests
    <2> QED BY <1>5, <2>1
  <1> QED BY <1>2, <1>3, <1>4, <1>5, <1>6, <1>7, Steps

\* The editor is shown the diagnostics of every state of every document, in
\* the order of its edits: none is skipped, repeated or shown for another.
THEOREM FeedCorrect == Spec => ImplementsFeed
  <1>1. ImplementsFeed <=> Feed!FeedInit /\ [][Feed!FeedNext]_<<TheDue, shown>>
    BY DEF ImplementsFeed, Feed!FeedSpec, Feed!feedVars, TheDue
  <1>2. FeedInv /\ [Next]_vars => [Feed!FeedNext]_<<TheDue, shown>>
    BY StepFeed
  <1> QED BY <1>1, <1>2, FeedInductive, InitFeed, PTL DEF Spec
=============================================================================
