------------------------------ MODULE Application ------------------------------
(***************************************************************************)
(* What is shown of the database, beside each other: reports, one request's    *)
(* page and counters, its comments, attachments and timeline, the browser's     *)
(* session, and a tab's query cache.  They share no variable; a behaviour runs  *)
(* one of them ("part") and leaves the others as they begin.                    *)
(***************************************************************************)
EXTENDS Reports, Desk, Records, Timeline, Session, Client

VARIABLE part

applicationVars ==
  <<reportVars, deskVars, recordVars, timelineVars, sessionVars, clientVars, part>>

ApplicationInit ==
  /\ part \in {"reports", "desk", "records", "timeline", "session", "client"}
  /\ ReportsInit /\ DeskInit /\ RecordsInit /\ TimelineInit /\ SessionInit /\ ClientInit

ApplicationNext ==
  \/ part = "reports" /\ ReportsNext
       /\ UNCHANGED <<deskVars, recordVars, timelineVars, sessionVars, clientVars, part>>
  \/ part = "desk" /\ DeskNext
       /\ UNCHANGED <<reportVars, recordVars, timelineVars, sessionVars, clientVars, part>>
  \/ part = "records" /\ RecordsNext
       /\ UNCHANGED <<reportVars, deskVars, timelineVars, sessionVars, clientVars, part>>
  \/ part = "timeline" /\ TimelineNext
       /\ UNCHANGED <<reportVars, deskVars, recordVars, sessionVars, clientVars, part>>
  \/ part = "session" /\ SessionNext
       /\ UNCHANGED <<reportVars, deskVars, recordVars, timelineVars, clientVars, part>>
  \/ part = "client" /\ ClientNext
       /\ UNCHANGED <<reportVars, deskVars, recordVars, timelineVars, sessionVars, part>>

ApplicationSpec == ApplicationInit /\ [][ApplicationNext]_applicationVars

-----------------------------------------------------------------------------
\* The shape of every part.
ApplicationTypeOK ==
  ReportsTypeOK /\ DeskTypeOK /\ RecordsTypeOK /\ TimelineTypeOK /\ SessionTypeOK /\ ClientTypeOK
=============================================================================
