---------------------------- MODULE MCApplication -----------------------------
(***************************************************************************)
(* A small instance of Application.  What a part begins with is chosen only    *)
(* in the behaviours that run it.                                              *)
(***************************************************************************)
EXTENDS Application

CONSTANTS A, B, src, dst, tab1, tab2, f1, f2, c1, c2, r1, a1, x, y, u, v

MCInit ==
  /\ ApplicationInit
  /\ part # "desk" => /\ kind = "transfer" /\ lines = {src}
                      /\ ~me.admin /\ ~me.creator /\ Mine = {}
  /\ part # "client" => table = "users"

\* A behaviour with a report ends with its answer.
ReportAnswered == report # NoReport /\ report.pc = "done"

\* A transaction under way has room for its rows in the ledger.
RoomInLedger == Len(entries') + Cardinality({l \in Stores : draft'[l] # NoDraft}) <= MaxEntries

\* Beside the comment, a behaviour has a status change or an attachment: the page looks at
\* each event by itself.
StepOrPaper == step' = 0 \/ Papers \cap (stored' \cup removed') = {}

MCNext == ApplicationNext /\ ~ReportAnswered /\ RoomInLedger /\ StepOrPaper

MCSpec == MCInit /\ [][MCNext]_applicationVars

-----------------------------------------------------------------------------
\* A user of one location; the opname report is of both.
OneReader == {[assigned |-> {A}, admin |-> FALSE]}
NoFilter  == {{}}
\* The current stock, a day with what was before it, and all until a day.
SomePeriods == {<<NoDay, NoDay>>, <<1, 1>>, <<NoDay, 0>>}
LineSets == {{src}, {src, dst}}
\* A server ahead of UTC.
Ahead == {1}

\* Most tables are on a few pages; the transfers are on the first one, where they are seen
\* again after a turn to another page.
TurnsFor == [t \in Tracked |-> IF t = "transfers" THEN 2 ELSE 3]

Sym == Permutations(Fetches)
=============================================================================
