------------------------------- MODULE Records --------------------------------
(***************************************************************************)
(* A comment and an attachment of a request.  A comment is read, tested and    *)
(* then written without a condition; an attachment is a row and a file on the   *)
(* server's disk, written and removed one after the other.  A call may die      *)
(* between two of its steps.                                                   *)
(***************************************************************************)
EXTENDS Naturals

CONSTANTS
  Tabs,     \* the tabs its author has the comment open in: one call of each at a time
  Uploads,  \* the uploads of the attachment's name, each a file of its own
  Removers, \* the calls that delete attachments
  MaxDeaths \* bound on the calls that die

ASSUME RecordsAssumption == MaxDeaths \in Nat

VARIABLES
  comment,  \* the row of the comment
  speech,   \* the call of each tab
  rows,     \* Attachment: the uploads with a row
  files,    \* the uploads with a file
  upload,   \* where each upload is
  removal,  \* the calls that delete
  broken,   \* history: the uploads a call died on
  deaths

commentVars    == <<comment, speech>>
attachmentVars == <<rows, files, upload, removal, broken, deaths>>
recordVars     == <<commentVars, attachmentVars>>

MaxEdits == 3
Quiet    == [pc |-> "none"]

-----------------------------------------------------------------------------
\* What editComment tests of the row it read; the author asks.
Editable == ~comment.deleted /\ comment.edits < MaxEdits

\* editComment and deleteComment up to their write: a refused call changes nothing.
ReadComment(t, op) ==
  /\ speech[t] = Quiet
  /\ IF op = "edit" THEN Editable ELSE ~comment.deleted
  /\ speech' = [speech EXCEPT ![t] = [pc |-> op]]
  /\ UNCHANGED <<comment, attachmentVars>>

\* update of the row by its id; the count is incremented in the database.
WriteEdit(t) ==
  /\ speech[t].pc = "edit"
  /\ comment' = [comment EXCEPT !.message = "text", !.edited = TRUE, !.edits = @ + 1]
  /\ speech' = [speech EXCEPT ![t] = Quiet]
  /\ UNCHANGED attachmentVars

WriteDeletion(t) ==
  /\ speech[t].pc = "delete"
  /\ comment' = [comment EXCEPT !.deleted = TRUE, !.edited = FALSE, !.message = "notice"]
  /\ speech' = [speech EXCEPT ![t] = Quiet]
  /\ UNCHANGED attachmentVars

-----------------------------------------------------------------------------
(* uploadAttachment: the file, then the row. *)

WriteFile(f) ==
  /\ upload[f] = "asked"
  /\ files' = files \cup {f}
  /\ upload' = [upload EXCEPT ![f] = "written"]
  /\ UNCHANGED <<commentVars, rows, removal, broken, deaths>>

InsertRow(f) ==
  /\ upload[f] = "written"
  /\ rows' = rows \cup {f}
  /\ upload' = [upload EXCEPT ![f] = "stored"]
  /\ UNCHANGED <<commentVars, files, removal, broken, deaths>>

(* deleteAttachment: the row is read, the file removed if it is there, the row deleted. *)

FindRow(c, f) ==
  /\ removal[c] = Quiet /\ f \in rows
  /\ removal' = [removal EXCEPT ![c] = [pc |-> "unlink", of |-> f]]
  /\ UNCHANGED <<commentVars, rows, files, upload, broken, deaths>>

\* Mutant: the file is left.
KeepFile(c) ==
  /\ removal[c].pc = "unlink"
  /\ removal' = [removal EXCEPT ![c].pc = "delete"]
  /\ UNCHANGED <<commentVars, rows, files, upload, broken, deaths>>

Unlink(c) ==
  /\ removal[c].pc = "unlink"
  /\ files' = files \ {removal[c].of}
  /\ removal' = [removal EXCEPT ![c].pc = "delete"]
  /\ UNCHANGED <<commentVars, rows, upload, broken, deaths>>

\* A row another call has deleted is not found: this call fails, and nothing is left.
DeleteRow(c) ==
  /\ removal[c].pc = "delete"
  /\ rows' = rows \ {removal[c].of}
  /\ removal' = [removal EXCEPT ![c] = Quiet]
  /\ UNCHANGED <<commentVars, files, upload, broken, deaths>>

\* The server stops, or a query fails: the steps done stay done.
Die ==
  /\ deaths < MaxDeaths
  /\ deaths' = deaths + 1
  /\ \/ \E f \in Uploads :
          /\ upload[f] = "written"
          /\ upload' = [upload EXCEPT ![f] = "failed"]
          /\ broken' = broken \cup {f}
          /\ UNCHANGED removal
     \/ \E c \in Removers :
          /\ removal[c].pc = "delete"
          /\ removal' = [removal EXCEPT ![c] = Quiet]
          /\ broken' = broken \cup {removal[c].of}
          /\ UNCHANGED upload
  /\ UNCHANGED <<commentVars, rows, files>>

-----------------------------------------------------------------------------
RecordsInit ==
  /\ comment = [message |-> "text", deleted |-> FALSE, edited |-> FALSE, edits |-> 0]
  /\ speech = [t \in Tabs |-> Quiet]
  /\ rows = {} /\ files = {} /\ upload = [f \in Uploads |-> "asked"]
  /\ removal = [c \in Removers |-> Quiet]
  /\ broken = {} /\ deaths = 0

RecordsNext ==
  \/ \E t \in Tabs : ReadComment(t, "edit") \/ ReadComment(t, "delete")
                     \/ WriteEdit(t) \/ WriteDeletion(t)
  \/ \E f \in Uploads : WriteFile(f) \/ InsertRow(f)
  \/ \E c \in Removers : (\E f \in Uploads : FindRow(c, f)) \/ Unlink(c) \/ DeleteRow(c)
  \/ Die

RecordsSpec == RecordsInit /\ [][RecordsNext]_recordVars

-----------------------------------------------------------------------------
\* The shape of the rows and calls; only a stored upload has a row.
RecordsTypeOK ==
  /\ comment.message \in {"text", "notice"} /\ comment.edits \in Nat
  /\ files \subseteq Uploads
  /\ \A f \in rows : upload[f] = "stored"

\* A comment is edited at most three times, as its documentation says (comments.md).  Two
\* edits that read the count together pass the test together.
EditedThrice == comment.edits <= MaxEdits

Removing(f) == \E c \in Removers : removal[c].pc = "delete" /\ removal[c].of = f

\* A row without its file, which cannot be downloaded, is one being deleted, and a file
\* without a row, which nobody finds, one being uploaded: any other a call died on.
FilesBehindRows ==
  /\ \A f \in rows \ files : Removing(f) \/ f \in broken
  /\ \A f \in files \ rows : upload[f] = "written" \/ f \in broken
=============================================================================
