------------------------------ MODULE MasterData ------------------------------
(***************************************************************************)
(* The tables whose rows are created and changed one at a time and carry a   *)
(* key: categories (name), vendors (name), units (code), users (username,    *)
(* and e-mail and phone alike).  A key is tested, then written; the test and  *)
(* the write are separate queries.  No row of these tables is ever deleted.   *)
(* The tables share nothing: a behaviour of the module is one of them.        *)
(***************************************************************************)
EXTENDS Naturals, FiniteSets

CONSTANTS
  Entries,   \* ids of the rows ever created
  Keys, NoKey,
  Editors    \* the calls in flight at one time

ASSUME MasterDataAssumption == NoKey \notin Keys

VARIABLES
  table,    \* which of the tables
  key,      \* key of a row; NoKey: no such row
  edit      \* calls that have tested the key they will write

dataVars == <<table, key, edit>>

Tables  == {"category", "vendor", "uom", "user"}
NoEdit  == [row |-> "none", key |-> NoKey]
Rows    == {e \in Entries : key[e] # NoKey}
Taken(k, e) == \E f \in Rows \ {e} : key[f] = k

\* Mutant: the column has no unique index, as the name of a vendor has none.
UniqueNowhere(t) == FALSE

Unique(t) == t # "vendor"

\* What the service goes on to write: an entry of its own, or e.
Write(c, e, k) ==
  /\ edit[c] = NoEdit
  /\ edit' = [edit EXCEPT ![c] = [row |-> e, key |-> k]]
  /\ UNCHANGED <<table, key>>

NewRow(e) == key[e] = NoKey /\ \A c \in Editors : edit[c].row # e

CreateCategory(c, e, k) == table = "category" /\ NewRow(e) /\ ~Taken(k, e) /\ Write(c, e, k)

\* The name of another category; writing the same name again needs no test.
UpdateCategory(c, e, k) ==
  table = "category" /\ e \in Rows /\ (k = key[e] \/ ~Taken(k, e)) /\ Write(c, e, k)

CreateVendor(c, e, k) == table = "vendor" /\ NewRow(e) /\ Write(c, e, k)
UpdateVendor(c, e, k) == table = "vendor" /\ e \in Rows /\ Write(c, e, k)

\* Units are never updated.
CreateUom(c, e, k) == table = "uom" /\ NewRow(e) /\ ~Taken(k, e) /\ Write(c, e, k)

CreateUser(c, e, k) == table = "user" /\ NewRow(e) /\ ~Taken(k, e) /\ Write(c, e, k)

UpdateUser(c, e, k) ==
  table = "user" /\ e \in Rows /\ (k = key[e] \/ ~Taken(k, e)) /\ Write(c, e, k)

\* The INSERT or UPDATE; a unique index refuses a key that has been taken meanwhile.
Store(c) ==
  LET e == edit[c].row  k == edit[c].key IN
  /\ edit[c] # NoEdit
  /\ key' = IF Unique(table) /\ Taken(k, e) THEN key ELSE [key EXCEPT ![e] = k]
  /\ edit' = [edit EXCEPT ![c] = NoEdit]
  /\ UNCHANGED table

DataInit ==
  /\ table \in Tables
  /\ key = [e \in Entries |-> NoKey]
  /\ edit = [c \in Editors |-> NoEdit]

DataNext ==
  \E c \in Editors :
    \/ \E e \in Entries, k \in Keys :
         \/ CreateCategory(c, e, k) \/ UpdateCategory(c, e, k)
         \/ CreateVendor(c, e, k) \/ UpdateVendor(c, e, k)
         \/ CreateUom(c, e, k)
         \/ CreateUser(c, e, k) \/ UpdateUser(c, e, k)
    \/ Store(c)

DataSpec == DataInit /\ [][DataNext]_dataVars

\* The names an upload resolves: buildLookupMap throws when two rows share one.
LookupRefuses == \E e, f \in Rows : e # f /\ key[e] = key[f]

\* The shape of the table.
DataTypeOK == table \in Tables /\ key \in [Entries -> Keys \cup {NoKey}]

\* Whatever edits overlap, a key identifies its row, so that the lookup of a sheet's
\* names is never refused; the names of vendors carry no such promise.
KeysIdentify == table # "vendor" => ~LookupRefuses
=============================================================================
