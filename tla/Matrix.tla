-------------------------------- MODULE Matrix --------------------------------
(***************************************************************************)
(* Products, locations and the table of their pairs (ProductLocation), one  *)
(* row for every product at every location.  A product and a location are   *)
(* each created in a transaction that also inserts the rows for what it     *)
(* reads of the other table.  Products also come from uploaded sheets, one  *)
(* transaction per sheet row.                                               *)
(*                                                                          *)
(* The rows' active flags are in Guards.  SKUs are compared as the database *)
(* collation compares them, regardless of case.                             *)
(***************************************************************************)
EXTENDS Naturals, FiniteSets, Sequences

CONSTANTS
  Wares,        \* ids of the products ever created
  Sites,        \* ids (and codes) of the locations ever created
  Skus,
  NoSku,
  Clerks,       \* the calls in flight at one time, the upload apart
  Uploader,     \* the one upload
  Sheets        \* the uploaded sheets: sequences of rows

ASSUME MatrixAssumption ==
  /\ NoSku \notin Skus /\ Uploader \notin Clerks
  /\ Sheets \subseteq Seq([sku : Skus \cup {NoSku}, ok : BOOLEAN])

VARIABLES
  sku,       \* SKU of a product; NoSku: no such product
  retired,   \* products with lifecycleStatus RETIRED
  site,      \* the locations
  pairs,     \* the ProductLocation rows
  job,       \* calls in flight
  upload,    \* the upload
  overlap    \* history: pairs whose two creating transactions were open together

matrixVars == <<sku, retired, site, pairs, job, upload, overlap>>

Workers == Clerks \cup {Uploader}
Idle    == [op |-> "none"]
Doing(c, op, pc) == job[c] # Idle /\ job[c].op = op /\ job[c].pc = pc

Stocked == {p \in Wares : sku[p] # NoSku}
NewWare(p) == sku[p] = NoSku /\ \A d \in Workers : job[d] # Idle => job[d].id # p

\* What findUnique by SKU, and the unique index, see of committed rows.
SkuInUse(s) == \E p \in Stocked : sku[p] = s

\* An open transaction that has inserted the SKU holds its index entry.
SkuHeld(s) == \E d \in Workers : Doing(d, "product", "inserted") /\ job[d].sku = s

-----------------------------------------------------------------------------
\* A sheet row: its SKU, and whether its other four cells are filled and name
\* known references.
BlankRow == [sku |-> NoSku, ok |-> FALSE]
NoUpload == [pc |-> "none", sheet |-> <<>>, todo |-> <<>>, errors |-> {}, made |-> {}]

\* Mutant: rows are numbered after the empty ones were skipped.
ParsedByPosition(sheet) == 1 .. Cardinality({n \in DOMAIN sheet : sheet[n] # BlankRow})

\* parseBulkUpload: the rows of the sheet that hold something, by row number.
ParsedRows(sheet) == {n \in DOMAIN sheet : sheet[n] # BlankRow}

\* validateBulkRows: a SKU twice in the sheet makes every row that has it invalid.
ValidRow(sheet, n) ==
  /\ sheet[n].ok
  /\ sheet[n].sku # NoSku
  /\ ~SkuInUse(sheet[n].sku)
  /\ \A m \in ParsedRows(sheet) \ {n} : sheet[m].sku # sheet[n].sku

Ascending(S) == CHOOSE s \in [1 .. Cardinality(S) -> S] :
                  \A i, j \in DOMAIN s : i < j => s[i] < s[j]

\* processBulkUpload up to its first insert.
StartUpload(sheet) ==
  LET parsed == ParsedRows(sheet)
      valid  == {n \in parsed : ValidRow(sheet, n)}
  IN
  /\ upload.pc = "none"
  /\ upload' = [pc |-> "inserting", sheet |-> sheet, todo |-> Ascending(valid),
                errors |-> parsed \ valid, made |-> {}]
  /\ UNCHANGED <<sku, retired, site, pairs, job, overlap>>

\* annotateWorkbook: column F of the rows with errors; the rest went in.
FinishUpload ==
  /\ upload.pc = "inserting" /\ upload.todo = <<>>
  /\ upload' = [upload EXCEPT !.pc = "done"]
  /\ UNCHANGED <<sku, retired, site, pairs, job, overlap>>

\* processBulkInsert: one row of the upload has succeeded or thrown.
RowDone(ok) ==
  LET n == Head(upload.todo) IN
  upload' = [upload EXCEPT !.todo = Tail(@),
                           !.errors = IF ok THEN @ ELSE @ \cup {n},
                           !.made = IF ok THEN @ \cup {n} ELSE @]

\* A call returns; for the uploader the loop goes on.
Answer(c, ok) ==
  /\ job' = [job EXCEPT ![c] = Idle]
  /\ IF c = Uploader THEN RowDone(ok) ELSE UNCHANGED upload

-----------------------------------------------------------------------------
\* The tests of create, for a request body or the next row of the upload.
TestSku(c, p, s) ==
  /\ job[c] = Idle
  /\ NewWare(p)
  /\ c = Uploader => upload.pc = "inserting" /\ upload.todo # <<>>
                       /\ s = upload.sheet[Head(upload.todo)].sku
  /\ IF SkuInUse(s) THEN c = Uploader /\ Answer(c, FALSE)
     ELSE job' = [job EXCEPT ![c] = [op |-> "product", pc |-> "tested", id |-> p, sku |-> s,
                                     seen |-> {}]] /\ UNCHANGED upload
  /\ UNCHANGED <<sku, retired, site, pairs, overlap>>

\* The pairs of p with the locations that open transactions are creating.
CrossedBy(p) == {p} \X {job[d].id : d \in {e \in Workers : Doing(e, "site", "inserted")}}

\* create: inside the transaction the product is inserted and the locations read.
InsertProduct(c) ==
  LET s == job[c].sku IN
  /\ Doing(c, "product", "tested")
  /\ ~SkuHeld(s)
  /\ IF SkuInUse(s)
     THEN Answer(c, FALSE) /\ UNCHANGED overlap
     ELSE /\ job' = [job EXCEPT ![c].pc = "inserted", ![c].seen = site]
          /\ overlap' = overlap \cup CrossedBy(job[c].id)
          /\ UNCHANGED upload
  /\ UNCHANGED <<sku, retired, site, pairs>>

\* Mutant: the rows are only created for active products.
BackfillInUse(c) == IF job[c].op = "product" THEN {job[c].id} \X job[c].seen
                    ELSE (job[c].seen \ retired) \X {job[c].id}

\* The rows a creating transaction inserts besides its own.
Backfill(c) == IF job[c].op = "product" THEN {job[c].id} \X job[c].seen
               ELSE job[c].seen \X {job[c].id}

CommitProduct(c) ==
  /\ Doing(c, "product", "inserted")
  /\ sku' = [sku EXCEPT ![job[c].id] = job[c].sku]
  /\ pairs' = pairs \cup Backfill(c)
  /\ Answer(c, TRUE)
  /\ UNCHANGED <<retired, site, overlap>>

\* adminCreate of a location; the code is tested first, and unique.
InsertSite(c, l) ==
  /\ c # Uploader
  /\ job[c] = Idle
  /\ l \notin site
  /\ \A d \in Workers : Doing(d, "site", "inserted") => job[d].id # l
  /\ job' = [job EXCEPT ![c] = [op |-> "site", pc |-> "inserted", id |-> l, sku |-> NoSku,
                                seen |-> Stocked]]
  /\ overlap' = overlap \cup
       ({job[d].id : d \in {e \in Workers : Doing(e, "product", "inserted")}} \X {l})
  /\ UNCHANGED <<sku, retired, site, pairs, upload>>

CommitSite(c) ==
  /\ Doing(c, "site", "inserted")
  /\ site' = site \cup {job[c].id}
  /\ pairs' = pairs \cup Backfill(c)
  /\ Answer(c, TRUE)
  /\ UNCHANGED <<sku, retired, overlap>>

-----------------------------------------------------------------------------
\* renameSku: tested against the SKUs of all products, then written.
BeginRenameSku(c, p, s) ==
  /\ c # Uploader
  /\ job[c] = Idle
  /\ p \in Stocked /\ ~SkuInUse(s)
  /\ job' = [job EXCEPT ![c] = [op |-> "rename", pc |-> "tested", id |-> p, sku |-> s,
                                seen |-> {}]]
  /\ UNCHANGED <<sku, retired, site, pairs, upload, overlap>>

\* Mutant: the unique index of the SKU is missing.
CollidesNever(c, s) == FALSE

\* The unique index refuses the write of s for the product of c.
Collides(c, s) == \E p \in Stocked \ {job[c].id} : sku[p] = s

RenameSku(c) ==
  /\ Doing(c, "rename", "tested")
  /\ ~SkuHeld(job[c].sku)
  /\ sku' = IF Collides(c, job[c].sku) THEN sku ELSE [sku EXCEPT ![job[c].id] = job[c].sku]
  /\ Answer(c, TRUE)
  /\ UNCHANGED <<retired, site, pairs, overlap>>

\* retireProduct; nothing brings a product back.
Retire(p) ==
  /\ p \in Stocked \ retired
  /\ retired' = retired \cup {p}
  /\ UNCHANGED <<sku, site, pairs, job, upload, overlap>>

\* create of a registration: the missing row of a pair.
Register(p, l) ==
  /\ p \in Stocked /\ l \in site /\ <<p, l>> \notin pairs
  /\ pairs' = pairs \cup {<<p, l>>}
  /\ UNCHANGED <<sku, retired, site, job, upload, overlap>>

\* A transaction that fails is rolled back; a failing row does not stop the upload.
RollBack(c) ==
  /\ job[c] # Idle
  /\ Answer(c, FALSE)
  /\ UNCHANGED <<sku, retired, site, pairs, overlap>>

-----------------------------------------------------------------------------
MatrixInit ==
  /\ sku = [p \in Wares |-> NoSku]
  /\ retired = {}
  /\ site = {}
  /\ pairs = {}
  /\ job = [c \in Workers |-> Idle]
  /\ upload = NoUpload
  /\ overlap = {}

MatrixNext ==
  \/ \E sheet \in Sheets : StartUpload(sheet)
  \/ FinishUpload
  \/ \E c \in Workers :
       \/ \E p \in Wares, s \in Skus : TestSku(c, p, s) \/ BeginRenameSku(c, p, s)
       \/ InsertProduct(c) \/ CommitProduct(c)
       \/ \E l \in Sites : InsertSite(c, l)
       \/ CommitSite(c)
       \/ RenameSku(c)
       \/ RollBack(c)
  \/ \E p \in Wares : Retire(p)
  \/ \E p \in Wares, l \in Sites : Register(p, l)

MatrixSpec == MatrixInit /\ [][MatrixNext]_matrixVars

-----------------------------------------------------------------------------
\* The shape of the tables.
MatrixTypeOK ==
  /\ sku \in [Wares -> Skus \cup {NoSku}]
  /\ retired \subseteq Stocked
  /\ site \subseteq Sites
  /\ pairs \subseteq Stocked \X site
  /\ overlap \subseteq Wares \X Sites

\* Every product has its row at every location, except where the transactions that
\* created the two overlapped: each has read before the other committed.
MatrixComplete == Stocked \X site \subseteq pairs \cup overlap

\* A SKU identifies a product, whatever creates, renames and uploads do at once.
SkusIdentify == \A p, q \in Stocked : sku[p] = sku[q] => p = q

\* The sheet sent back tells the truth: the filled rows without an error are the rows
\* whose product this upload created.
BulkReportTruthful ==
  upload.pc = "done" =>
    {n \in DOMAIN upload.sheet : upload.sheet[n] # BlankRow} \ upload.errors = upload.made
=============================================================================
