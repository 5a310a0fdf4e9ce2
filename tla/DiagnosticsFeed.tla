-------------------------- MODULE DiagnosticsFeed --------------------------
(* What the language server promises about diagnostics: the editor is shown *)
(* the diagnostics of each state of a document, none left out, in the order *)
(* in which the document took those states.  Documents do not wait for one  *)
(* another, and the server may stop.                                        *)
EXTENDS Naturals, Sequences

CONSTANTS
  Uris,       \* the documents
  Results     \* what can be shown for a document

VARIABLES
  unseen,     \* for each document, the results that are due, oldest first
  shown       \* for each document, the result the editor shows

feedVars == <<unseen, shown>>

FeedInit ==
  /\ unseen = [u \in Uris |-> <<>>]
  /\ shown \in [Uris -> Results]

\* The document takes a state, whose result is due from now on.
Edit(u) ==
  /\ \E r \in Results : unseen' = [unseen EXCEPT ![u] = Append(@, r)]
  /\ UNCHANGED shown

\* The oldest result that is due is shown.
Show(u) ==
  /\ unseen[u] # <<>>
  /\ shown' = [shown EXCEPT ![u] = Head(unseen[u])]
  /\ unseen' = [unseen EXCEPT ![u] = Tail(@)]

FeedNext == \E u \in Uris : Edit(u) \/ Show(u)

FeedSpec == FeedInit /\ [][FeedNext]_feedVars
=============================================================================
