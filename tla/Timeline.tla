------------------------------- MODULE Timeline -------------------------------
(***************************************************************************)
(* The activity timeline of a request, and one page that shows it.  The        *)
(* server answers a fetch from three tables, and pushes what happens to the     *)
(* page's event stream; the page keeps what it was pushed until the next answer  *)
(* replaces it.  Fetches may overlap and be answered out of order.              *)
(***************************************************************************)
EXTENDS Naturals, Sequences, FiniteSets, SequencesExt

CONSTANTS
  Remarks,    \* the comments that are written
  Papers,     \* the attachments that are uploaded, and may be deleted
  Steps,      \* the number of status changes of the request
  Fetches,    \* the fetches in flight at one time
  MaxFetches  \* bound on the fetches

\* 0 stands for an id that is missing.
ASSUME TimelineAssumption ==
  /\ Steps \in Nat /\ MaxFetches \in Nat
  /\ Remarks \cap Papers = {} /\ 0 \notin Remarks \cup Papers

VARIABLES
  stored,    \* the comments and attachments with a row
  removed,   \* the attachments deleted
  step,      \* how many status changes are committed
  logged,    \* those whose audit row is written; the write is not awaited
  unsent,    \* what the handlers have still to push, in no order
  wire,      \* what is under way on the stream
  stream,    \* "open" or "closed"
  fetch,     \* the fetches
  begun,     \* how many there have been
  shown,     \* the page's list of events
  owed       \* history: the comments the page has been given, by the last answer or since

timelineVars == <<stored, removed, step, logged, unsent, wire, stream, fetch, begun, shown, owed>>
serverVars   == <<stored, removed, step, logged, unsent>>
pageVars     == <<fetch, begun, shown, owed>>

Posts   == Remarks \cup Papers
NoFetch == [pc |-> "none"]

\* The action of a comment's event, and of an attachment's.
ActionOf(p)  == IF p \in Remarks THEN "COMMENT" ELSE "UPLOAD"
Event(p, a)  == [id |-> p, action |-> a]
\* The way of a transfer.  Both approvals are pushed as APPROVE; a fetch finds no entry of
\* STATUS_TO_ACTION for their statuses and takes the action of the audit row.
StepAction(n) == CASE n = 1 -> "SUBMIT" [] n \in {2, 3} -> "APPROVE" [] OTHER -> "FINALIZE"
\* A pushed status change has no id (0 here); a fetched one has its audit row's.
PushedStep(n)  == [id |-> 0, action |-> StepAction(n)]
FetchedStep(n) == [id |-> n, action |-> IF n \in {2, 3} THEN "STATUS_CHANGE" ELSE StepAction(n)]

-----------------------------------------------------------------------------
(* The server. *)

\* createComment, uploadAttachment: the row, then the event.
Post(p) ==
  /\ p \notin stored \cup removed
  /\ stored' = stored \cup {p}
  /\ unsent' = unsent \cup {Event(p, ActionOf(p))}
  /\ UNCHANGED <<removed, step, logged, wire, stream, pageVars>>

DeletePaper(p) ==
  /\ p \in stored \cap Papers
  /\ stored' = stored \ {p} /\ removed' = removed \cup {p}
  /\ unsent' = unsent \cup {Event(p, "DELETE")}
  /\ UNCHANGED <<step, logged, wire, stream, pageVars>>

\* An operation of the workflow: committed, the audit row begun, the event pushed.
Move ==
  /\ step < Steps
  /\ step' = step + 1
  /\ unsent' = unsent \cup {PushedStep(step + 1)}
  /\ UNCHANGED <<stored, removed, logged, wire, stream, pageVars>>

WriteAudit(n) ==
  /\ n <= step /\ n \notin logged
  /\ logged' = logged \cup {n}
  /\ UNCHANGED <<stored, removed, step, unsent, wire, stream, pageVars>>

\* emitTimelineEvent: written to the clients registered now.
Emit(e) ==
  /\ e \in unsent
  /\ unsent' = unsent \ {e}
  /\ wire' = IF stream = "open" THEN Append(wire, e) ELSE wire
  /\ UNCHANGED <<stored, removed, step, logged, stream, pageVars>>

\* onerror closes the stream for good; so do a restart of the server and an expired token.
Break ==
  /\ stream = "open"
  /\ stream' = "closed" /\ wire' = <<>>
  /\ UNCHANGED <<serverVars, pageVars>>

-----------------------------------------------------------------------------
(* The page. *)

\* On opening, and after an own comment is written, edited or deleted.
BeginFetch(f) ==
  /\ fetch[f] = NoFetch /\ begun < MaxFetches
  /\ begun' = begun + 1
  /\ fetch' = [fetch EXCEPT ![f] = [pc |-> "asked", before |-> stored]]
  /\ UNCHANGED <<serverVars, wire, stream, shown, owed>>

\* getTimeline reads the audit rows, and then the comments and attachments.
ReadAudit(f) ==
  /\ fetch[f].pc = "asked"
  /\ fetch' = [fetch EXCEPT ![f] = [pc |-> "audited", before |-> fetch[f].before, audit |-> logged]]
  /\ UNCHANGED <<serverVars, wire, stream, begun, shown, owed>>

ReadRows(f) ==
  /\ fetch[f].pc = "audited"
  /\ fetch' = [fetch EXCEPT ![f] = [pc |-> "read", before |-> fetch[f].before,
                                    audit |-> fetch[f].audit, rows |-> stored]]
  /\ UNCHANGED <<serverVars, wire, stream, begun, shown, owed>>

\* A query of getTimeline fails: its catch answers with an empty list, as a success.
FailRead(f) ==
  /\ fetch[f].pc \in {"asked", "audited"}
  /\ fetch' = [fetch EXCEPT ![f] = [pc |-> "failed"]]
  /\ UNCHANGED <<serverVars, wire, stream, begun, shown, owed>>

\* The call itself fails, on its way or at a middleware: the page keeps its list.
LoseFetch(f) ==
  /\ fetch[f] # NoFetch
  /\ fetch' = [fetch EXCEPT ![f] = NoFetch]
  /\ UNCHANGED <<serverVars, wire, stream, begun, shown, owed>>

\* setEvents: the answer replaces the list, whatever was pushed since it was read.
ApplyFetch(f) ==
  /\ fetch[f].pc = "read"
  /\ shown' = SetToSeq({Event(p, ActionOf(p)) : p \in fetch[f].rows})
              \o SetToSeq({FetchedStep(n) : n \in fetch[f].audit})
  /\ owed' = fetch[f].before \cap Remarks
  /\ fetch' = [fetch EXCEPT ![f] = NoFetch]
  /\ UNCHANGED <<serverVars, wire, stream, begun>>

\* The empty answer of a failed query replaces the list too.
ApplyFailed(f) ==
  /\ fetch[f].pc = "failed"
  /\ shown' = <<>> /\ owed' = {}
  /\ fetch' = [fetch EXCEPT ![f] = NoFetch]
  /\ UNCHANGED <<serverVars, wire, stream, begun>>

\* Mutant: a pushed event is never looked for in the list.
Never(e) == FALSE

\* The list holds an event with this id and action.
Known(e) == \E i \in DOMAIN shown : shown[i].id = e.id /\ shown[i].action = e.action

\* onmessage: a new event goes to the front.
Receive ==
  /\ wire # <<>>
  /\ wire' = Tail(wire)
  /\ shown' = IF Known(Head(wire)) THEN shown ELSE <<Head(wire)>> \o shown
  /\ owed' = owed \cup ({Head(wire).id} \cap Remarks)
  /\ UNCHANGED <<serverVars, stream, fetch, begun>>

-----------------------------------------------------------------------------
TimelineInit ==
  /\ stored = {} /\ removed = {} /\ step = 0 /\ logged = {} /\ unsent = {}
  /\ wire = <<>> /\ stream = "open"
  /\ fetch = [f \in Fetches |-> NoFetch] /\ begun = 0
  /\ shown = <<>> /\ owed = {}

TimelineNext ==
  \/ \E p \in Posts : Post(p) \/ DeletePaper(p)
  \/ Move \/ Break \/ Receive
  \/ \E n \in 1..Steps : WriteAudit(n)
  \/ \E e \in unsent : Emit(e)
  \/ \E f \in Fetches : \/ BeginFetch(f) \/ ReadAudit(f) \/ ReadRows(f) \/ FailRead(f)
                        \/ LoseFetch(f) \/ ApplyFetch(f) \/ ApplyFailed(f)

TimelineSpec == TimelineInit /\ [][TimelineNext]_timelineVars

-----------------------------------------------------------------------------
\* The shape of the tables and of the list.
TimelineTypeOK ==
  /\ stored \subseteq Posts /\ removed \subseteq Papers
  /\ step \in 0..Steps /\ logged \subseteq 1..step
  /\ stream \in {"open", "closed"}

Copies(p) == {i \in DOMAIN shown : shown[i].id = p /\ shown[i].action = ActionOf(p)}

\* A comment comes over the stream and in the answers, in any order: the page shows it at
\* most once, and once if it was pushed since the last answer came or was there when that
\* answer was asked for -- unless that answer was the empty one of a failed query, which
\* promises nothing and takes everything off the page until it is pushed or fetched again.
ShownOnce ==
  /\ \A p \in Posts : Cardinality(Copies(p)) <= 1
  /\ \A p \in owed : Copies(p) # {}
=============================================================================
