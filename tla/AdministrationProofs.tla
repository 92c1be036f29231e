------------------------- MODULE AdministrationProofs -------------------------
(***************************************************************************)
(* Proofs about the parts of the administration: the roles of a user, the   *)
(* numbers of requests, the product-location matrix with its SKUs and the    *)
(* uploads of products, the guards of deactivations, the keys of the master  *)
(* data, and all of them beside each other.                                  *)
(***************************************************************************)
EXTENDS Administration, ListingsProofs

-----------------------------------------------------------------------------
(* Accounts. *)

Task == [pc : {"create", "assign"}, user : People,
         asked : SUBSET (Places \cup {NoPlace}), role : RoleNames]

\* The role assignments of every user name one role.
SingleRole ==
  \A u \in People : \A l, m \in Assigned(u) : roles[u][l] = roles[u][m]

AccountInv ==
  /\ AccountTypeOK
  /\ task \in [Managers -> Task \cup {NoTask}]
  /\ \A c \in Managers : task[c] # NoTask /\ task[c].pc = "assign" => task[c].user \in present
  /\ SingleRole

\* The tables start with no user and no call.
LEMMA AccountInvInit == AccountInit => AccountInv
  BY DEF AccountInit, AccountInv, AccountTypeOK, SingleRole, Assigned, RoleNames, NoTask, Task

\* A replacement deletes every old assignment, so that the one role of the call is left.
LEMMA AccountInvNext == AccountInv /\ [AccountNext]_accountVars => AccountInv'
<1> SUFFICES ASSUME AccountInv, [AccountNext]_accountVars
             PROVE  AccountInv'
  OBVIOUS
<1> USE DEF AccountInv, AccountTypeOK
<1>0. NoTask \notin Task
  BY DEF NoTask, Task
<1>1. ASSUME NEW c \in Managers, NEW t \in Task, Receive(c, t),
             t.pc = "assign" => t.user \in present
      PROVE  AccountInv'
  BY <1>1 DEF Receive, SingleRole, Assigned
<1>2. CASE UNCHANGED accountVars
  BY <1>2 DEF accountVars, SingleRole, Assigned
<1>3. ASSUME NEW c \in Managers, NEW u \in People,
             NEW asked \in SUBSET (Places \cup {NoPlace}), NEW role \in RoleNames,
             BeginCreateUser(c, u, asked, role)
      PROVE  AccountInv'
  <2> DEFINE t == [pc |-> "create", user |-> u, asked |-> asked, role |-> role]
  <2>1. t \in Task /\ t.pc = "create"
    BY DEF Task
  <2> QED BY <1>1, <1>3, <2>1 DEF BeginCreateUser
<1>4. ASSUME NEW c \in Managers, NEW u \in People,
             NEW asked \in SUBSET (Places \cup {NoPlace}), NEW named \in RoleNames \cup {"NONE"},
             BeginUpdateUser(c, u, asked, named)
      PROVE  AccountInv'
  <2>1. PICK role \in RoleNames :
          Receive(c, [pc |-> "assign", user |-> u, asked |-> asked, role |-> role])
    BY <1>4 DEF BeginUpdateUser
  <2> DEFINE t == [pc |-> "assign", user |-> u, asked |-> asked, role |-> role]
  <2>2. t \in Task /\ t.user = u
    BY DEF Task
  <2> QED BY <1>1, <1>4, <2>1, <2>2 DEF BeginUpdateUser
<1>5. ASSUME NEW c \in Managers, InsertUser(c)
      PROVE  AccountInv'
  <2> DEFINE a == [task[c] EXCEPT !.pc = "assign"]
             t == IF task[c].asked = {} THEN NoTask ELSE a
  <2>1. task[c] \in Task /\ present' = present \cup {task[c].user} /\ roles' = roles
        /\ task' = [task EXCEPT ![c] = t]
    BY <1>5 DEF InsertUser
  <2>2. a \in Task /\ a.user = task[c].user /\ task[c].user \in People
    BY <2>1 DEF Task
  <2>3. (task \in [Managers -> Task \cup {NoTask}])'
    BY <2>1, <2>2
  <2>4. \A d \in Managers : task'[d] # NoTask /\ task'[d].pc = "assign" => task'[d].user \in present'
    BY <2>1, <2>2
  <2>5. SingleRole' /\ AccountTypeOK'
    BY <2>1, <2>2 DEF SingleRole, Assigned
  <2> QED BY <2>3, <2>4, <2>5
<1>6. ASSUME NEW c \in Managers, AssignRoles(c)
      PROVE  AccountInv'
  <2>1. task[c] \in Task /\ present' = present /\ task' = [task EXCEPT ![c] = NoTask]
        /\ task[c].user \in present /\ task[c].user \in People /\ task[c].role \in RoleNames
    BY <1>6 DEF AssignRoles, Task
  <2>2. /\ (task \in [Managers -> Task \cup {NoTask}])'
        /\ \A d \in Managers : task'[d] # NoTask /\ task'[d].pc = "assign" => task'[d].user \in present'
    BY <2>1
  <2>3. CASE roles' = roles
    BY <2>1, <2>2, <2>3 DEF SingleRole, Assigned
  <2>4. CASE roles' = [roles EXCEPT ![task[c].user] = Replaced(task[c].user, task[c].asked, task[c].role)]
    <3> DEFINE u == task[c].user
               r == [l \in Places |-> IF l \in task[c].asked THEN task[c].role ELSE "NONE"]
    <3>1. roles' = [roles EXCEPT ![u] = r] /\ r \in [Places -> RoleNames \cup {"NONE"}]
      BY <2>1, <2>4 DEF Replaced
    <3>2. \A l, m \in Places : r[l] # "NONE" /\ r[m] # "NONE" => r[l] = r[m]
      OBVIOUS
    <3> HIDE DEF r
    <3>3. SingleRole'
      BY <2>1, <3>1, <3>2 DEF SingleRole, Assigned
    <3>4. AccountTypeOK'
      BY <2>1, <3>1 DEF Assigned
    <3> QED BY <2>2, <3>3, <3>4
  <2> QED BY <1>6, <2>3, <2>4 DEF AssignRoles
<1>7. ASSUME NEW c \in Managers, LoseTask(c)
      PROVE  AccountInv'
  BY <1>7 DEF LoseTask, SingleRole, Assigned
<1> QED BY <1>2, <1>3, <1>4, <1>5, <1>6, <1>7 DEF AccountNext

\* What is assigned is one role, so the set of a user's roles has at most one member.
LEMMA OneRole == AccountInv => OneRoleEach
<1> SUFFICES ASSUME AccountInv, NEW u \in present
             PROVE  Cardinality(RoleBefore(u)) <= 1
  BY DEF OneRoleEach
<1>1. CASE Assigned(u) = {}
  BY <1>1, FS_EmptySet DEF RoleBefore
<1>2. ASSUME NEW l \in Assigned(u)
      PROVE  Cardinality(RoleBefore(u)) <= 1
  <2>1. RoleBefore(u) = {roles[u][l]}
    BY <1>2 DEF RoleBefore, AccountInv, AccountTypeOK, SingleRole
  <2>2. Cardinality({roles[u][l]}) = 1
    BY FS_Singleton
  <2> QED BY <2>1, <2>2
<1> QED BY <1>1, <1>2

\* A user has one role at all locations, whatever updates overlap and wherever a call
\* dies between its two writes: what the update of a user takes from the first location
\* is the role at all of them.
THEOREM RolesCorrect == AccountSpec => []OneRoleEach
<1>1. AccountSpec => []AccountInv
  BY AccountInvInit, AccountInvNext, PTL DEF AccountSpec
<1> QED BY <1>1, OneRole, PTL

-----------------------------------------------------------------------------
(* RequestNumbers. *)

Attempt == [tried : Nat, next : Nat]

\* As long as nothing was deleted, the numbers in use do not exceed their count, and every
\* attempt a create has lost was lost to a number that has come into use since.
CountKeepsUp ==
  ~deleted =>
    /\ \A r \in InUse : number[r] <= Cardinality(InUse)
    /\ \A c \in Creators :
         /\ creating[c].tried <= Cardinality(InUse)
         /\ creating[c].next # 0 => /\ creating[c].tried < creating[c].next
                                    /\ creating[c].next <= Cardinality(InUse) + 1

NumbersInv ==
  /\ number \in [Drafts -> Nat]
  /\ creating \in [Creators -> Attempt]
  /\ deleted \in BOOLEAN /\ gaveUp \in BOOLEAN
  /\ NumbersIdentify
  /\ CountKeepsUp
  /\ GivesUpOnlyWhenOutrun

\* The requests in use are finitely many.
LEMMA InUseFinite == IsFiniteSet(InUse) /\ Cardinality(InUse) \in Nat
  BY FS_Subset, FS_CardinalityType, NumbersAssumption DEF InUse

\* No request exists at the start, so the count and the numbers agree.
LEMMA NumbersInvInit == NumbersInit => NumbersInv
<1> SUFFICES ASSUME NumbersInit PROVE NumbersInv
  OBVIOUS
<1>1. InUse = {}
  BY DEF NumbersInit, InUse
<1>2. Cardinality(InUse) = 0
  BY <1>1, FS_EmptySet
<1>3. NumbersIdentify /\ GivesUpOnlyWhenOutrun
  BY <1>1 DEF NumbersInit, NumbersIdentify, GivesUpOnlyWhenOutrun
<1>4. CountKeepsUp
  BY <1>1, <1>2 DEF NumbersInit, CountKeepsUp, Resting
<1> QED BY <1>3, <1>4 DEF NumbersInit, NumbersInv, Attempt, Resting

\* An insertion adds one to the count; a refusal shows that the number was taken after the
\* create had counted, because the count was one below it.
LEMMA NumbersInvNext == NumbersInv /\ [NumbersNext]_numberVars => NumbersInv'
<1> SUFFICES ASSUME NumbersInv, [NumbersNext]_numberVars
             PROVE  NumbersInv'
  OBVIOUS
<1> USE DEF NumbersInv
<1> DEFINE k == Cardinality(InUse)
<1>0. IsFiniteSet(InUse) /\ k \in Nat /\ IsFiniteSet(InUse)' /\ k' \in Nat
  <2>1. IsFiniteSet(InUse)' /\ k' \in Nat
    BY FS_Subset, FS_CardinalityType, NumbersAssumption DEF InUse
  <2> QED BY <2>1, InUseFinite
<1>1. CASE UNCHANGED numberVars
  BY <1>1 DEF numberVars, NumbersIdentify, CountKeepsUp, GivesUpOnlyWhenOutrun, InUse
<1>2. ASSUME NEW c \in Creators, Count(c)
      PROVE  NumbersInv'
  <2>1. InUse' = InUse /\ k' = k
    BY <1>2 DEF Count, InUse
  <2>2. creating[c] \in Attempt /\ creating' = [creating EXCEPT ![c] = [creating[c] EXCEPT !.next = k + 1]]
    BY <1>2 DEF Count
  <2>3. creating' \in [Creators -> Attempt]
    BY <2>2, <1>0 DEF Attempt
  <2>4. NumbersIdentify' /\ GivesUpOnlyWhenOutrun'
    BY <1>2, <2>1 DEF Count, NumbersIdentify, GivesUpOnlyWhenOutrun
  <2>5. CountKeepsUp'
    <3> SUFFICES ASSUME ~deleted
                 PROVE  CountKeepsUp'
      BY <1>2 DEF Count, CountKeepsUp
    <3>1. \A d \in Creators : creating'[d] = IF d = c THEN [tried |-> creating[c].tried, next |-> k + 1]
                                            ELSE creating[d]
      BY <2>2 DEF Attempt
    <3>2. number' = number
      BY <1>2 DEF Count
    <3> HIDE DEF k
    <3> QED BY <2>1, <2>2, <3>1, <3>2, <1>0 DEF CountKeepsUp, Attempt, k
  <2> QED BY <1>2, <2>3, <2>4, <2>5 DEF Count
<1>3. ASSUME NEW c \in Creators, NEW r \in Drafts, InsertNumbered(c, r), Free(creating[c].next)
      PROVE  NumbersInv'
  <2> DEFINE n == creating[c].next
  <2>1. /\ n \in Nat \ {0} /\ number[r] = 0
        /\ number' = [number EXCEPT ![r] = n]
        /\ creating' = [creating EXCEPT ![c] = Resting]
        /\ UNCHANGED <<gaveUp, deleted>>
    BY <1>3 DEF InsertNumbered, Attempt
  <2> HIDE DEF n
  <2>2. r \notin InUse /\ InUse' = InUse \cup {r}
    BY <2>1 DEF InUse
  <2>3. k' = k + 1
    BY <2>2, <1>0, FS_AddElement
  <2>4. NumbersIdentify'
    BY <1>3, <2>1, <2>2 DEF NumbersIdentify, Free, InUse, n
  <2>5. CountKeepsUp'
    <3> SUFFICES ASSUME ~deleted
                 PROVE  CountKeepsUp'
      BY <2>1 DEF CountKeepsUp
    <3>1. n <= k + 1
      BY <2>1 DEF CountKeepsUp, n
    <3>2. \A q \in InUse' : number'[q] <= k'
      BY <2>1, <2>2, <2>3, <3>1, <1>0 DEF CountKeepsUp, InUse
    <3>3. \A d \in Creators : creating'[d] = IF d = c THEN Resting ELSE creating[d]
      BY <2>1
    <3>4. \A d \in Creators : /\ creating'[d].tried <= k'
                              /\ creating'[d].next # 0 => /\ creating'[d].tried < creating'[d].next
                                                          /\ creating'[d].next <= k' + 1
      <4> SUFFICES ASSUME NEW d \in Creators
                   PROVE  /\ creating'[d].tried <= k'
                          /\ creating'[d].next # 0 => /\ creating'[d].tried < creating'[d].next
                                                      /\ creating'[d].next <= k' + 1
        OBVIOUS
      <4>1. CASE d = c
        BY <4>1, <3>3, <1>0 DEF Resting
      <4>2. CASE d # c
        <5>1. creating'[d] = creating[d] /\ creating[d].tried \in Nat /\ creating[d].next \in Nat
          BY <4>2, <3>3 DEF Attempt
        <5>2. /\ creating[d].tried <= k
              /\ creating[d].next # 0 => /\ creating[d].tried < creating[d].next
                                         /\ creating[d].next <= k + 1
          BY DEF CountKeepsUp
        <5> HIDE DEF k
        <5> QED BY <5>1, <5>2, <2>3, <1>0
      <4> QED BY <4>1, <4>2
    <3> QED BY <3>2, <3>4 DEF CountKeepsUp
  <2>6. GivesUpOnlyWhenOutrun'
    <3> HIDE DEF k
    <3>1. gaveUp => deleted \/ k >= Attempts
      BY DEF GivesUpOnlyWhenOutrun, k
    <3>2. gaveUp' => deleted' \/ k' >= Attempts
      BY <2>1, <2>3, <3>1, <1>0, NumbersAssumption
    <3> QED BY <3>2 DEF GivesUpOnlyWhenOutrun, k
  <2> QED BY <2>1, <2>4, <2>5, <2>6 DEF Attempt, Resting
<1>4. ASSUME NEW c \in Creators, NEW r \in Drafts, InsertNumbered(c, r), ~Free(creating[c].next)
      PROVE  NumbersInv'
  <2> DEFINE n == creating[c].next
             t == creating[c].tried
  <2>1. n \in Nat /\ t \in Nat /\ n # 0
    BY <1>4 DEF InsertNumbered, Attempt
  <2>2. InUse' = InUse /\ k' = k /\ number' = number /\ deleted' = deleted
    BY <1>4 DEF InsertNumbered, InUse
  <2>3. ~deleted => t + 1 <= k
    <3>1. PICK q \in InUse : number[q] = n
      BY <1>4 DEF Free
    <3>2. ~deleted => n <= k /\ t < n
      BY <2>1, <3>1 DEF CountKeepsUp
    <3> HIDE DEF k, n, t
    <3> QED BY <2>1, <3>2, <1>0
  <2>4. /\ creating' = [creating EXCEPT ![c] =
                IF MayRetry(t) THEN [tried |-> t + 1, next |-> 0] ELSE Resting]
        /\ gaveUp' = (gaveUp \/ ~MayRetry(t))
    BY <1>4 DEF InsertNumbered
  <2> HIDE DEF n, t
  <2>5. creating' \in [Creators -> Attempt]
    BY <2>1, <2>4 DEF Attempt, Resting
  <2>6. GivesUpOnlyWhenOutrun'
    <3> HIDE DEF k
    <3>1. gaveUp => deleted \/ k >= Attempts
      BY DEF GivesUpOnlyWhenOutrun, k
    <3>2. ~MayRetry(t) => t + 1 >= Attempts
      BY <2>1, NumbersAssumption DEF MayRetry
    <3>3. ~MayRetry(t) => deleted \/ k >= Attempts
      BY <2>1, <2>3, <3>2, <1>0, NumbersAssumption
    <3>4. gaveUp' => deleted' \/ k' >= Attempts
      BY <2>2, <2>4, <3>1, <3>3
    <3> QED BY <3>4 DEF GivesUpOnlyWhenOutrun, k
  <2>7. CountKeepsUp'
    <3> SUFFICES ASSUME ~deleted
                 PROVE  CountKeepsUp'
      BY <2>2 DEF CountKeepsUp
    <3>1. \A d \in Creators : creating'[d] =
            IF d # c THEN creating[d]
            ELSE IF MayRetry(t) THEN [tried |-> t + 1, next |-> 0] ELSE Resting
      BY <2>4
    <3>2. /\ creating'[c].tried <= k /\ creating'[c].next = 0
      <4> HIDE DEF k
      <4> QED BY <2>1, <2>3, <3>1, <1>0 DEF Resting
    <3>3. \A d \in Creators \ {c} : creating'[d] = creating[d]
      BY <3>1
    <3> QED BY <2>2, <3>2, <3>3 DEF CountKeepsUp
  <2>8. NumbersIdentify'
    BY <2>2 DEF NumbersIdentify
  <2> QED BY <2>2, <2>4, <2>5, <2>6, <2>7, <2>8
<1>5. ASSUME NEW r \in Drafts, DeleteNumbered(r)
      PROVE  NumbersInv'
  <2>1. InUse' = InUse \ {r}
    BY <1>5 DEF DeleteNumbered, InUse
  <2> QED BY <1>5, <2>1 DEF DeleteNumbered, NumbersIdentify, CountKeepsUp, GivesUpOnlyWhenOutrun, InUse
<1> QED BY <1>1, <1>2, <1>3, <1>4, <1>5 DEF NumbersNext

\* As long as no draft is deleted, a create ends in the error of the unique index only
\* after as many other requests have got their numbers as it has tries, and no two
\* requests share a number, for any number of concurrent creates and of tries.
THEOREM NumbersCorrect == NumbersSpec => [](GivesUpOnlyWhenOutrun /\ NumbersIdentify)
<1>1. NumbersSpec => []NumbersInv
  BY NumbersInvInit, NumbersInvNext, PTL DEF NumbersSpec
<1>2. NumbersInv => GivesUpOnlyWhenOutrun /\ NumbersIdentify
  BY DEF NumbersInv
<1> QED BY <1>1, <1>2, PTL

-----------------------------------------------------------------------------
(* Matrix. *)

Job == [op : {"product", "rename", "site"}, pc : {"tested", "inserted"},
        id : Wares \cup Sites, sku : Skus \cup {NoSku}, seen : SUBSET (Wares \cup Sites)]

Creates(c) == Doing(c, "product", "inserted")
Opens(c)   == Doing(c, "site", "inserted")

\* A product is inserted with a SKU of its own under an id of its own.
JobsOK ==
  /\ job \in [Workers -> Job \cup {Idle}]
  /\ \A c \in Workers : job[c] # Idle =>
       /\ job[c].op = "product" => job[c].id \in Wares /\ job[c].sku \in Skus
       /\ job[c].op = "rename"  => job[c].id \in Stocked /\ job[c].sku \in Skus
       /\ job[c].op = "site"    => job[c].id \in Sites

\* Whatever a creating transaction has not seen overlaps with it.
SeesOrOverlaps ==
  /\ \A c \in Workers : Creates(c) =>
       \A l \in site : l \in job[c].seen \/ <<job[c].id, l>> \in overlap
  /\ \A d \in Workers : Opens(d) =>
       \A p \in Stocked : p \in job[d].seen \/ <<p, job[d].id>> \in overlap
  /\ \A c, d \in Workers : Creates(c) /\ Opens(d) => <<job[c].id, job[d].id>> \in overlap

MatrixInv ==
  /\ sku \in [Wares -> Skus \cup {NoSku}]
  /\ site \subseteq Sites
  /\ JobsOK
  /\ SeesOrOverlaps
  /\ MatrixComplete

\* The matrix starts empty: there is no product and no location to pair.
LEMMA MatrixInvInit == MatrixInit => MatrixInv
  BY DEF MatrixInit, MatrixInv, JobsOK, SeesOrOverlaps, MatrixComplete, Stocked, Doing,
     Creates, Opens

\* A call that returns, or one about another operation, leaves the others as they are.
LEMMA LessWork ==
  ASSUME MatrixInv, NEW c \in Workers, job' = [job EXCEPT ![c] = Idle],
         UNCHANGED <<sku, site, overlap>>, pairs \subseteq pairs'
  PROVE  MatrixInv'
<1>1. /\ Stocked' = Stocked
      /\ \A d \in Workers : job'[d] = IF d = c THEN Idle ELSE job[d]
  BY DEF Stocked, MatrixInv, JobsOK
<1>2. JobsOK'
  BY <1>1 DEF MatrixInv, JobsOK
<1>3. SeesOrOverlaps'
  BY <1>1 DEF MatrixInv, SeesOrOverlaps, Creates, Opens, Doing
<1> QED BY <1>1, <1>2, <1>3 DEF MatrixInv, MatrixComplete

\* A call that only tests keeps the matrix.
LEMMA TestingWork ==
  ASSUME MatrixInv, NEW c \in Workers, NEW j \in Job, job' = [job EXCEPT ![c] = j],
         j.op \in {"product", "rename"}, j.pc = "tested", j.sku \in Skus,
         j.id \in Wares, j.op = "rename" => j.id \in Stocked,
         UNCHANGED <<sku, site, pairs, overlap>>
  PROVE  MatrixInv'
<1>1. /\ Stocked' = Stocked
      /\ \A d \in Workers : job'[d] = IF d = c THEN j ELSE job[d]
  BY DEF Stocked, MatrixInv, JobsOK
<1>2. JobsOK'
  BY <1>1 DEF MatrixInv, JobsOK
<1>3. ~Creates(c)' /\ ~Opens(c)'
  BY <1>1 DEF Creates, Opens, Doing
<1>4. \A d \in Workers \ {c} : (Creates(d)' <=> Creates(d)) /\ (Opens(d)' <=> Opens(d)) /\ job'[d] = job[d]
  BY <1>1 DEF Creates, Opens, Doing
<1>5. SeesOrOverlaps'
  BY <1>1, <1>3, <1>4 DEF MatrixInv, SeesOrOverlaps
<1> QED BY <1>1, <1>2, <1>5 DEF MatrixInv, MatrixComplete

\* A transaction that has inserted a row and read the other table has seen all of it, and
\* overlaps with the transactions that are open.
LEMMA OpenedWork ==
  ASSUME MatrixInv, NEW c \in Workers, NEW j \in Job, job' = [job EXCEPT ![c] = j],
         j.pc = "inserted", j # Idle,
         \/ /\ j.op = "product" /\ j.id \in Wares /\ j.sku \in Skus
            /\ j.seen = site
            /\ overlap' = overlap \cup CrossedBy(j.id)
            /\ ~Opens(c)
         \/ /\ j.op = "site" /\ j.id \in Sites
            /\ j.seen = Stocked
            /\ overlap' = overlap \cup
                 ({job[d].id : d \in {e \in Workers : Doing(e, "product", "inserted")}} \X {j.id})
            /\ ~Creates(c),
         UNCHANGED <<sku, site, pairs>>
  PROVE  MatrixInv'
<1>1. /\ Stocked' = Stocked
      /\ \A d \in Workers : job'[d] = IF d = c THEN j ELSE job[d]
  BY DEF Stocked, MatrixInv, JobsOK
<1>2. JobsOK'
  BY <1>1 DEF MatrixInv, JobsOK
<1>3. overlap \subseteq overlap'
  OBVIOUS
<1>4. \A d \in Workers \ {c} : (Creates(d)' <=> Creates(d)) /\ (Opens(d)' <=> Opens(d)) /\ job'[d] = job[d]
  BY <1>1 DEF Creates, Opens, Doing
<1>5. CASE j.op = "product"
  <2>1. ~Opens(c)'
    BY <1>1, <1>5 DEF Opens, Doing
  <2>2. \A d \in Workers : Opens(d)' => d # c /\ <<j.id, job[d].id>> \in overlap'
    BY <1>4, <1>5, <2>1 DEF CrossedBy, Opens
  <2>3. \A l \in site' : l \in job'[c].seen
    BY <1>1, <1>5
  <2>4. \A d, e \in Workers : Creates(d)' /\ Opens(e)' => <<job'[d].id, job'[e].id>> \in overlap'
    BY <1>1, <1>3, <1>4, <2>2 DEF MatrixInv, SeesOrOverlaps
  <2>5. SeesOrOverlaps'
    BY <1>1, <1>3, <1>4, <2>1, <2>3, <2>4 DEF MatrixInv, SeesOrOverlaps
  <2> QED BY <1>1, <1>2, <1>3, <2>5 DEF MatrixInv, MatrixComplete
<1>6. CASE j.op = "site"
  <2>1. ~Creates(c)'
    BY <1>1, <1>6 DEF Creates, Doing
  <2>2. \A d \in Workers : Creates(d)' => d # c /\ <<job[d].id, j.id>> \in overlap'
    BY <1>4, <1>6, <2>1 DEF Creates
  <2>3. \A p \in Stocked' : p \in job'[c].seen
    BY <1>1, <1>6
  <2>4. \A d, e \in Workers : Creates(d)' /\ Opens(e)' => <<job'[d].id, job'[e].id>> \in overlap'
    BY <1>1, <1>3, <1>4, <2>2 DEF MatrixInv, SeesOrOverlaps
  <2>5. SeesOrOverlaps'
    BY <1>1, <1>3, <1>4, <2>1, <2>3, <2>4 DEF MatrixInv, SeesOrOverlaps
  <2> QED BY <1>1, <1>2, <1>3, <2>5 DEF MatrixInv, MatrixComplete
<1> QED BY <1>5, <1>6

\* The rows a product's transaction inserts are those of the locations it has seen; the
\* others are of overlapping transactions.
LEMMA ProductCommitted ==
  ASSUME MatrixInv, NEW c \in Workers, CommitProduct(c)
  PROVE  MatrixInv'
<1> DEFINE p == job[c].id
<1>1. /\ Creates(c) /\ p \in Wares /\ job[c].sku \in Skus /\ job[c].op = "product"
      /\ sku' = [sku EXCEPT ![p] = job[c].sku]
      /\ pairs' = pairs \cup ({p} \X job[c].seen)
      /\ job' = [job EXCEPT ![c] = Idle]
      /\ UNCHANGED <<site, overlap>>
  BY DEF MatrixInv, JobsOK, CommitProduct, Backfill, Answer, Creates, Doing
<1>2. \A l \in site : l \in job[c].seen \/ <<p, l>> \in overlap
  BY <1>1 DEF MatrixInv, SeesOrOverlaps
<1>3. \A d \in Workers : Opens(d) => <<p, job[d].id>> \in overlap
  BY <1>1 DEF MatrixInv, SeesOrOverlaps
<1> HIDE DEF p
<1>4. Stocked' = Stocked \cup {p}
  BY <1>1, MatrixAssumption DEF Stocked, MatrixInv
<1>5. \A d \in Workers : job'[d] = IF d = c THEN Idle ELSE job[d]
  BY <1>1 DEF MatrixInv, JobsOK
<1>6. JobsOK'
  BY <1>1, <1>4, <1>5 DEF MatrixInv, JobsOK
<1>7. SeesOrOverlaps'
  <2>1. ~Creates(c)' /\ ~Opens(c)'
    BY <1>5 DEF Creates, Opens, Doing
  <2>2. \A d \in Workers \ {c} : (Creates(d)' <=> Creates(d)) /\ (Opens(d)' <=> Opens(d)) /\ job'[d] = job[d]
    BY <1>5 DEF Creates, Opens, Doing
  <2> QED BY <1>1, <1>3, <1>4, <2>1, <2>2 DEF MatrixInv, SeesOrOverlaps
<1>8. MatrixComplete'
  BY <1>1, <1>2, <1>4 DEF MatrixInv, MatrixComplete
<1> QED BY <1>1, <1>6, <1>7, <1>8 DEF MatrixInv

\* The same for a location.
LEMMA SiteCommitted ==
  ASSUME MatrixInv, NEW c \in Workers, CommitSite(c)
  PROVE  MatrixInv'
<1> DEFINE l == job[c].id
<1>1. /\ Opens(c) /\ l \in Sites /\ job[c].op = "site"
      /\ site' = site \cup {l}
      /\ pairs' = pairs \cup (job[c].seen \X {l})
      /\ job' = [job EXCEPT ![c] = Idle]
      /\ UNCHANGED <<sku, overlap>>
  BY DEF MatrixInv, JobsOK, CommitSite, Backfill, Answer, Opens, Doing
<1>2. \A p \in Stocked : p \in job[c].seen \/ <<p, l>> \in overlap
  BY <1>1 DEF MatrixInv, SeesOrOverlaps
<1>3. \A d \in Workers : Creates(d) => <<job[d].id, l>> \in overlap
  BY <1>1 DEF MatrixInv, SeesOrOverlaps
<1> HIDE DEF l
<1>4. Stocked' = Stocked
  BY <1>1 DEF Stocked
<1>5. \A d \in Workers : job'[d] = IF d = c THEN Idle ELSE job[d]
  BY <1>1 DEF MatrixInv, JobsOK
<1>6. JobsOK'
  BY <1>1, <1>4, <1>5 DEF MatrixInv, JobsOK
<1>7. SeesOrOverlaps'
  <2>1. ~Creates(c)' /\ ~Opens(c)'
    BY <1>5 DEF Creates, Opens, Doing
  <2>2. \A d \in Workers \ {c} : (Creates(d)' <=> Creates(d)) /\ (Opens(d)' <=> Opens(d)) /\ job'[d] = job[d]
    BY <1>5 DEF Creates, Opens, Doing
  <2> QED BY <1>1, <1>3, <1>4, <2>1, <2>2 DEF MatrixInv, SeesOrOverlaps
<1>8. MatrixComplete'
  BY <1>1, <1>2, <1>4 DEF MatrixInv, MatrixComplete
<1> QED BY <1>1, <1>6, <1>7, <1>8 DEF MatrixInv

\* A product that gets another SKU is still a product.
LEMMA Renamed ==
  ASSUME MatrixInv, NEW c \in Workers, RenameSku(c)
  PROVE  MatrixInv'
<1>1. /\ job[c].id \in Stocked /\ job[c].sku \in Skus
      /\ sku' \in {sku, [sku EXCEPT ![job[c].id] = job[c].sku]}
      /\ job' = [job EXCEPT ![c] = Idle]
      /\ UNCHANGED <<site, pairs, overlap>>
  BY DEF MatrixInv, JobsOK, RenameSku, Answer, Doing
<1>2. Stocked' = Stocked /\ (sku \in [Wares -> Skus \cup {NoSku}])'
  BY <1>1, MatrixAssumption DEF Stocked, MatrixInv
<1>3. \A d \in Workers : job'[d] = IF d = c THEN Idle ELSE job[d]
  BY <1>1 DEF MatrixInv, JobsOK
<1>4. JobsOK'
  BY <1>1, <1>2, <1>3 DEF MatrixInv, JobsOK
<1>5. SeesOrOverlaps'
  BY <1>1, <1>2, <1>3 DEF MatrixInv, SeesOrOverlaps, Creates, Opens, Doing
<1> QED BY <1>1, <1>2, <1>4, <1>5 DEF MatrixInv, MatrixComplete

\* Every operation on products and locations, committed or rolled back, keeps the invariant.
LEMMA MatrixInvNext == MatrixInv /\ [MatrixNext]_matrixVars => MatrixInv'
<1> SUFFICES ASSUME MatrixInv, [MatrixNext]_matrixVars
             PROVE  MatrixInv'
  OBVIOUS
<1>1. ASSUME UNCHANGED <<sku, site, job, overlap>>, pairs \subseteq pairs'
      PROVE  MatrixInv'
  BY <1>1 DEF MatrixInv, JobsOK, SeesOrOverlaps, MatrixComplete, Stocked, Doing, Creates, Opens
<1>2. CASE UNCHANGED matrixVars
  BY <1>1, <1>2 DEF matrixVars
<1>3. ASSUME NEW sheet \in Sheets, StartUpload(sheet)
      PROVE  MatrixInv'
  BY <1>1, <1>3 DEF StartUpload
<1>4. CASE FinishUpload
  BY <1>1, <1>4 DEF FinishUpload
<1>5. ASSUME NEW c \in Workers, NEW p \in Wares, NEW s \in Skus, TestSku(c, p, s)
      PROVE  MatrixInv'
  <2> DEFINE j == [op |-> "product", pc |-> "tested", id |-> p, sku |-> s, seen |-> {}]
  <2>1. CASE job' = [job EXCEPT ![c] = Idle]
    BY <1>5, <2>1, LessWork DEF TestSku
  <2>2. CASE job' = [job EXCEPT ![c] = j]
    <3>1. j \in Job /\ j.op = "product" /\ j.pc = "tested" /\ j.sku \in Skus /\ j.id \in Wares
      BY DEF Job
    <3>2. UNCHANGED <<sku, site, pairs, overlap>>
      BY <1>5 DEF TestSku
    <3> HIDE DEF j
    <3> QED BY <2>2, <3>1, <3>2, TestingWork
  <2> QED BY <1>5, <2>1, <2>2 DEF TestSku, Answer
<1>6. ASSUME NEW c \in Workers, NEW p \in Wares, NEW s \in Skus, BeginRenameSku(c, p, s)
      PROVE  MatrixInv'
  <2> DEFINE j == [op |-> "rename", pc |-> "tested", id |-> p, sku |-> s, seen |-> {}]
  <2>1. job' = [job EXCEPT ![c] = j] /\ p \in Stocked /\ UNCHANGED <<sku, site, pairs, overlap>>
    BY <1>6 DEF BeginRenameSku
  <2>2. j \in Job /\ j.op = "rename" /\ j.pc = "tested" /\ j.sku \in Skus /\ j.id = p
    BY DEF Job
  <2> HIDE DEF j
  <2> QED BY <2>1, <2>2, TestingWork
<1>7. ASSUME NEW c \in Workers, InsertProduct(c)
      PROVE  MatrixInv'
  <2>1. CASE job' = [job EXCEPT ![c] = Idle] /\ UNCHANGED overlap
    BY <1>7, <2>1, LessWork DEF InsertProduct
  <2>2. CASE /\ job' = [job EXCEPT ![c].pc = "inserted", ![c].seen = site]
             /\ overlap' = overlap \cup CrossedBy(job[c].id)
    <3> DEFINE j == [job[c] EXCEPT !.pc = "inserted", !.seen = site]
    <3>1. /\ job[c] \in Job /\ job[c].op = "product" /\ job[c].pc = "tested"
          /\ job[c].id \in Wares /\ job[c].sku \in Skus
      BY <1>7 DEF InsertProduct, Doing, MatrixInv, JobsOK
    <3>2. /\ j \in Job /\ j.op = "product" /\ j.pc = "inserted" /\ j.id = job[c].id
          /\ j.sku = job[c].sku /\ j.seen = site /\ j # Idle
      BY <3>1 DEF Job, MatrixInv, Idle
    <3>3. job' = [job EXCEPT ![c] = j] /\ ~Opens(c) /\ UNCHANGED <<sku, site, pairs>>
      BY <1>7, <2>2, <3>1 DEF InsertProduct, Opens, Doing
    <3> HIDE DEF j
    <3> QED BY <2>2, <3>1, <3>2, <3>3, OpenedWork
  <2> QED BY <1>7, <2>1, <2>2 DEF InsertProduct, Answer
<1>8. ASSUME NEW c \in Workers, NEW l \in Sites, InsertSite(c, l)
      PROVE  MatrixInv'
  <2> DEFINE j == [op |-> "site", pc |-> "inserted", id |-> l, sku |-> NoSku, seen |-> Stocked]
  <2>1. /\ j \in Job /\ j.op = "site" /\ j.pc = "inserted" /\ j.id = l /\ j.seen = Stocked /\ j # Idle
    BY DEF Job, Stocked, Idle
  <2>2. /\ job' = [job EXCEPT ![c] = j] /\ ~Creates(c) /\ UNCHANGED <<sku, site, pairs>>
        /\ overlap' = overlap \cup
             ({job[d].id : d \in {e \in Workers : Doing(e, "product", "inserted")}} \X {l})
    BY <1>8 DEF InsertSite, Creates, Doing
  <2> HIDE DEF j
  <2> QED BY <2>1, <2>2, OpenedWork
<1>9. ASSUME NEW c \in Workers, CommitProduct(c)
      PROVE  MatrixInv'
  BY <1>9, ProductCommitted
<1>10. ASSUME NEW c \in Workers, CommitSite(c)
       PROVE  MatrixInv'
  BY <1>10, SiteCommitted
<1>11. ASSUME NEW c \in Workers, RenameSku(c)
       PROVE  MatrixInv'
  BY <1>11, Renamed
<1>12. ASSUME NEW c \in Workers, RollBack(c)
       PROVE  MatrixInv'
  BY <1>12, LessWork DEF RollBack, Answer
<1>13. ASSUME NEW p \in Wares, Retire(p)
       PROVE  MatrixInv'
  BY <1>1, <1>13 DEF Retire
<1>14. ASSUME NEW p \in Wares, NEW l \in Sites, Register(p, l)
       PROVE  MatrixInv'
  BY <1>1, <1>14 DEF Register
<1> QED BY <1>2, <1>3, <1>4, <1>5, <1>6, <1>7, <1>8, <1>9, <1>10, <1>11, <1>12, <1>13, <1>14
        DEF MatrixNext

\* The product-location matrix has a hole only where the transactions that created the
\* product and the location overlapped, for any number of concurrent creations, uploads,
\* renamings and failures.
THEOREM MatrixCorrect == MatrixSpec => []MatrixComplete
<1>1. MatrixSpec => []MatrixInv
  BY MatrixInvInit, MatrixInvNext, PTL DEF MatrixSpec
<1>2. MatrixInv => MatrixComplete
  BY DEF MatrixInv
<1> QED BY <1>1, <1>2, PTL

\* An open transaction holds the index entry of its SKU: nobody else has it.
SkuInv ==
  /\ SkusIdentify
  /\ \A c \in Workers : Creates(c) => ~SkuInUse(job[c].sku)
  /\ \A c, d \in Workers : Creates(c) /\ Creates(d) /\ c # d => job[c].sku # job[d].sku

\* No product has a SKU at the start, and no transaction is open.
LEMMA SkuInvInit == MatrixInit => SkuInv
  BY DEF MatrixInit, SkuInv, SkusIdentify, Stocked, Creates, Doing

\* No transaction more, and no SKU written.
LEMMA NoSkuWritten ==
  ASSUME SkuInv, sku' = sku,
         \A d \in Workers : Creates(d)' => Creates(d) /\ job'[d].sku = job[d].sku
  PROVE  SkuInv'
  BY DEF SkuInv, SkusIdentify, SkuInUse, Stocked

\* A SKU that nobody else has or holds is written for one product.
LEMMA SkuWritten ==
  ASSUME MatrixInv, SkuInv, NEW c \in Workers, NEW p \in Wares, NEW s \in Skus,
         sku' = [sku EXCEPT ![p] = s],
         \A q \in Stocked \ {p} : sku[q] # s,
         \A d \in Workers \ {c} : Creates(d) => job[d].sku # s,
         job' = [job EXCEPT ![c] = Idle]
  PROVE  SkuInv'
<1>1. \A q \in Wares : sku'[q] = IF q = p THEN s ELSE sku[q]
  BY DEF MatrixInv
<1>2. Stocked' = Stocked \cup {p}
  BY <1>1, MatrixAssumption DEF Stocked
<1>3. \A d \in Workers : job'[d] = IF d = c THEN Idle ELSE job[d]
  BY DEF MatrixInv, JobsOK
<1>4. \A d \in Workers : Creates(d)' => d # c /\ Creates(d) /\ job'[d] = job[d]
  BY <1>3 DEF Creates, Doing
<1>5. SkusIdentify'
  BY <1>1, <1>2 DEF SkuInv, SkusIdentify, Stocked
<1>6. \A d \in Workers : Creates(d)' => ~SkuInUse(job[d].sku)'
  BY <1>1, <1>2, <1>4 DEF SkuInv, SkuInUse, Stocked
<1> QED BY <1>4, <1>5, <1>6 DEF SkuInv, SkuInUse

\* A SKU is written where nobody has it: the create holds its index entry from the insertion
\* to the commit, and the index refuses a rename to a SKU that is had or held.
LEMMA SkuInvNext == MatrixInv /\ SkuInv /\ [MatrixNext]_matrixVars => SkuInv'
<1> SUFFICES ASSUME MatrixInv, SkuInv, [MatrixNext]_matrixVars
             PROVE  SkuInv'
  OBVIOUS
<1>1. ASSUME UNCHANGED <<sku, job>>
      PROVE  SkuInv'
  BY <1>1, NoSkuWritten DEF Creates, Doing
<1>2. ASSUME NEW c \in Workers, NEW j \in Job \cup {Idle}, job' = [job EXCEPT ![c] = j], sku' = sku,
             j # Idle => ~(j.op = "product" /\ j.pc = "inserted")
      PROVE  SkuInv'
  <2>1. \A d \in Workers : job'[d] = IF d = c THEN j ELSE job[d]
    BY <1>2 DEF MatrixInv, JobsOK
  <2> QED BY <1>2, <2>1, NoSkuWritten DEF Creates, Doing
<1>3. ASSUME NEW c \in Workers, NEW p \in Wares, NEW s \in Skus,
             TestSku(c, p, s) \/ BeginRenameSku(c, p, s)
      PROVE  SkuInv'
  <2> DEFINE t(o) == [op |-> o, pc |-> "tested", id |-> p, sku |-> s, seen |-> {}]
  <2>1. sku' = sku
    BY <1>3 DEF TestSku, BeginRenameSku
  <2>2. CASE job' = [job EXCEPT ![c] = Idle]
    BY <1>2, <2>1, <2>2
  <2>3. ASSUME NEW o \in {"product", "rename"}, job' = [job EXCEPT ![c] = t(o)]
        PROVE  SkuInv'
    <3>1. t(o) \in Job /\ t(o).pc = "tested"
      BY DEF Job
    <3> HIDE DEF t
    <3> QED BY <1>2, <2>1, <2>3, <3>1
  <2> QED BY <1>3, <2>2, <2>3 DEF TestSku, BeginRenameSku, Answer
<1>4. ASSUME NEW c \in Workers, InsertProduct(c)
      PROVE  SkuInv'
  <2>1. CASE job' = [job EXCEPT ![c] = Idle]
    BY <1>2, <1>4, <2>1 DEF InsertProduct
  <2>2. CASE job' = [job EXCEPT ![c].pc = "inserted", ![c].seen = site] /\ ~SkuInUse(job[c].sku)
    <3>1. sku' = sku /\ ~SkuHeld(job[c].sku) /\ job[c] \in Job
      BY <1>4 DEF InsertProduct, Doing, MatrixInv, JobsOK
    <3>2. \A d \in Workers : job'[d] = IF d = c THEN [job[c] EXCEPT !.pc = "inserted", !.seen = site]
                                       ELSE job[d]
      BY <2>2 DEF MatrixInv, JobsOK
    <3>3. \A d \in Workers : job'[d].sku = job[d].sku
      BY <3>1, <3>2 DEF Job
    <3>4. \A d \in Workers \ {c} : Creates(d)' => Creates(d) /\ job[d].sku # job[c].sku
      BY <3>1, <3>2 DEF Creates, Doing, SkuHeld
    <3>5. Stocked' = Stocked /\ SkusIdentify'
      BY <3>1 DEF Stocked, SkuInv, SkusIdentify
    <3>6. \A d \in Workers : Creates(d)' => ~SkuInUse(job[d].sku)
      BY <2>2, <3>4 DEF SkuInv
    <3>7. \A d \in Workers : Creates(d)' => ~SkuInUse(job[d].sku)'
      <4>1. ASSUME NEW d \in Workers, Creates(d)'
            PROVE  \A q \in Stocked' : sku'[q] # job'[d].sku
        BY <3>1, <3>3, <3>5, <3>6, <4>1 DEF SkuInUse
      <4> QED BY <4>1 DEF SkuInUse
    <3>8. \A d, e \in Workers : Creates(d)' /\ Creates(e)' /\ d # e => job'[d].sku # job'[e].sku
      BY <3>3, <3>4 DEF SkuInv
    <3> QED BY <3>5, <3>7, <3>8 DEF SkuInv
  <2> QED BY <1>4, <2>1, <2>2 DEF InsertProduct, Answer
<1>5. ASSUME NEW c \in Workers, CommitProduct(c)
      PROVE  SkuInv'
  <2>1. /\ Creates(c) /\ job[c].id \in Wares /\ job[c].sku \in Skus
        /\ sku' = [sku EXCEPT ![job[c].id] = job[c].sku]
        /\ job' = [job EXCEPT ![c] = Idle]
    BY <1>5 DEF CommitProduct, Answer, Creates, Doing, MatrixInv, JobsOK
  <2>2. \A q \in Stocked \ {job[c].id} : sku[q] # job[c].sku
    BY <2>1 DEF SkuInv, SkuInUse
  <2>3. \A d \in Workers \ {c} : Creates(d) => job[d].sku # job[c].sku
    BY <2>1 DEF SkuInv
  <2> QED BY <2>1, <2>2, <2>3, SkuWritten
<1>6. ASSUME NEW c \in Workers, RenameSku(c)
      PROVE  SkuInv'
  <2>1. /\ job[c].id \in Stocked /\ job[c].sku \in Skus
        /\ job' = [job EXCEPT ![c] = Idle]
    BY <1>6 DEF RenameSku, Answer, Doing, MatrixInv, JobsOK
  <2>2. CASE sku' = sku
    BY <1>2, <2>1, <2>2
  <2>3. CASE sku' = [sku EXCEPT ![job[c].id] = job[c].sku] /\ ~Collides(c, job[c].sku)
    <3>1. \A d \in Workers \ {c} : Creates(d) => job[d].sku # job[c].sku
      BY <1>6 DEF RenameSku, SkuHeld, Creates
    <3> QED BY <2>1, <2>3, <3>1, SkuWritten DEF Collides, Stocked
  <2> QED BY <1>6, <2>2, <2>3 DEF RenameSku
<1>7. ASSUME NEW c \in Workers, CommitSite(c) \/ RollBack(c)
      PROVE  SkuInv'
  BY <1>2, <1>7 DEF CommitSite, RollBack, Answer
<1>8. ASSUME NEW c \in Workers, NEW l \in Sites, InsertSite(c, l)
      PROVE  SkuInv'
  <2> DEFINE j == [op |-> "site", pc |-> "inserted", id |-> l, sku |-> NoSku, seen |-> Stocked]
  <2>1. j \in Job /\ j.op = "site"
    BY DEF Job, Stocked
  <2> QED BY <1>2, <1>8, <2>1 DEF InsertSite
<1>9. CASE \/ \E sheet \in Sheets : StartUpload(sheet)
           \/ FinishUpload
           \/ \E p \in Wares : Retire(p)
           \/ \E p \in Wares, l \in Sites : Register(p, l)
           \/ UNCHANGED matrixVars
  BY <1>1, <1>9 DEF StartUpload, FinishUpload, Retire, Register, matrixVars
<1> QED BY <1>3, <1>4, <1>5, <1>6, <1>7, <1>8, <1>9 DEF MatrixNext

\* A SKU identifies a product, whatever creates, renames and uploads do at once and
\* wherever one of them fails.
THEOREM SkusCorrect == MatrixSpec => []SkusIdentify
<1>1. MatrixSpec => [](MatrixInv /\ SkuInv)
  BY MatrixInvInit, MatrixInvNext, SkuInvInit, SkuInvNext, PTL DEF MatrixSpec
<1>2. MatrixInv /\ SkuInv => SkusIdentify
  BY DEF SkuInv
<1> QED BY <1>1, <1>2, PTL

-----------------------------------------------------------------------------
(* The uploaded sheet. *)

Rising(s) == \A i, j \in DOMAIN s : i < j => s[i] < s[j]

\* A finite set of naturals can be counted off upwards: the least first, then the others.
LEMMA CanRise ==
  ASSUME NEW T \in SUBSET Nat, IsFiniteSet(T)
  PROVE  \E s \in [1 .. Cardinality(T) -> T] : Rising(s)
<1> DEFINE Fine(n) == \A S \in SUBSET Nat : IsFiniteSet(S) /\ Cardinality(S) = n =>
                        \E s \in [1 .. n -> S] : Rising(s)
           Bad == {n \in Nat : ~Fine(n)}
<1>1. Bad = {}
  <2> SUFFICES ASSUME Bad # {} PROVE FALSE
    OBVIOUS
  <2>1. PICK n \in Bad : \A k \in Bad : n <= k
    <3>1. Bad \in SUBSET Nat
      OBVIOUS
    <3> HIDE DEF Bad
    <3> QED BY <3>1, LeastElement
  <2>2. n \in Nat /\ ~Fine(n)
    OBVIOUS
  <2>3. PICK S \in SUBSET Nat : /\ IsFiniteSet(S) /\ Cardinality(S) = n
                                /\ ~\E s \in [1 .. n -> S] : Rising(s)
    BY <2>2
  <2>4. n # 0
    <3> SUFFICES ASSUME n = 0 PROVE FALSE
      OBVIOUS
    <3>1. 1 .. n = {}
      OBVIOUS
    <3>2. [i \in 1 .. n |-> 0] \in [1 .. n -> S] /\ Rising([i \in 1 .. n |-> 0])
      BY <3>1 DEF Rising
    <3> QED BY <2>3, <3>2
  <2>5. PICK m \in S : \A k \in S : m <= k
    <3>1. S # {}
      BY <2>3, <2>4, FS_EmptySet
    <3> QED BY <3>1, LeastElement
  <2>6. IsFiniteSet(S \ {m}) /\ Cardinality(S \ {m}) = n - 1
    BY <2>3, FS_RemoveElement
  <2>7. n - 1 \in Nat /\ n - 1 \notin Bad
    BY <2>1, <2>2, <2>4
  <2>8. Fine(n - 1)
    BY <2>7
  <2>9. PICK r \in [1 .. n - 1 -> S \ {m}] : Rising(r)
    <3>1. S \ {m} \in SUBSET Nat
      OBVIOUS
    <3> HIDE DEF Bad
    <3> QED BY <2>6, <2>8, <3>1
  <2> DEFINE s == [i \in 1 .. n |-> IF i = 1 THEN m ELSE r[i - 1]]
  <2>10. \A i \in 1 .. n : i # 1 => i - 1 \in 1 .. n - 1
    BY <2>2
  <2>11. s \in [1 .. n -> S]
    BY <2>9, <2>10
  <2>12. Rising(s)
    <3> SUFFICES ASSUME NEW i \in 1 .. n, NEW j \in 1 .. n, i < j
                 PROVE  s[i] < s[j]
      BY DEF Rising
    <3>1. j # 1 /\ j - 1 \in 1 .. n - 1 /\ s[j] = r[j - 1] /\ r[j - 1] \in S \ {m}
      BY <2>2, <2>9, <2>10
    <3>2. CASE i = 1
      <4>1. m <= r[j - 1] /\ m # r[j - 1] /\ m \in Nat /\ r[j - 1] \in Nat
        BY <2>5, <3>1
      <4> QED BY <3>1, <3>2, <4>1
    <3>3. CASE i # 1
      <4>1. i - 1 \in 1 .. n - 1 /\ s[i] = r[i - 1] /\ i - 1 < j - 1
        BY <2>2, <2>10, <3>3
      <4> QED BY <2>9, <3>1, <4>1 DEF Rising
    <3> QED BY <3>2, <3>3
  <2> HIDE DEF s, Bad, Fine
  <2> QED BY <2>3, <2>11, <2>12
<1>2. Cardinality(T) \in Nat
  BY FS_CardinalityType
<1>3. Fine(Cardinality(T))
  BY <1>1, <1>2
<1> QED BY <1>3

\* Ascending lists the elements of a finite set, each once.
LEMMA AscendingLists ==
  ASSUME NEW S \in SUBSET Nat, IsFiniteSet(S)
  PROVE  /\ Ascending(S) \in Seq(S)
         /\ \A i, j \in DOMAIN Ascending(S) : i # j => Ascending(S)[i] # Ascending(S)[j]
         /\ \A n \in S : \E i \in DOMAIN Ascending(S) : Ascending(S)[i] = n
<1> DEFINE a == Ascending(S)
           n == Cardinality(S)
<1>1. n \in Nat
  BY FS_CardinalityType
<1>2. \E s \in [1 .. n -> S] : \A i, j \in DOMAIN s : i < j => s[i] < s[j]
  BY CanRise DEF Rising
<1>3. a \in [1 .. n -> S] /\ \A i, j \in DOMAIN a : i < j => a[i] < a[j]
  BY <1>2 DEF Ascending
<1> HIDE DEF a
<1>4. \A i, j \in DOMAIN a : i # j => a[i] # a[j]
  <2> SUFFICES ASSUME NEW i \in 1 .. n, NEW j \in 1 .. n, i # j
               PROVE  a[i] # a[j]
    BY <1>3
  <2>1. i < j \/ j < i
    BY <1>1
  <2>2. a[i] \in Nat /\ a[j] \in Nat
    BY <1>3
  <2> QED BY <1>3, <2>1, <2>2
<1>5. a \in Injection(1 .. n, S)
  BY <1>3, <1>4 DEF Injection, IsInjective
<1>6. Cardinality(1 .. n) = n
  BY <1>1, FS_Interval
<1>7. a \in Surjection(1 .. n, S)
  BY <1>5, <1>6, FS_Injection
<1>8. a \in Seq(S)
  BY <1>1, <1>3
<1>9. \A k \in S : \E i \in DOMAIN a : a[i] = k
  BY <1>3, <1>7 DEF Surjection
<1> QED BY <1>4, <1>8, <1>9 DEF a

SheetRow == [sku : Skus \cup {NoSku}, ok : BOOLEAN]
Upload   == [pc : {"none", "inserting", "done"}, sheet : Seq(SheetRow), todo : Seq(Nat),
             errors : SUBSET Nat, made : SUBSET Nat]

\* The rows that are still to be inserted.
Left == {upload.todo[i] : i \in DOMAIN upload.todo}

\* Every filled row of the sheet is in exactly one place: still to be inserted, refused,
\* or made.  The uploader is busy only with the first of those to be inserted.
ReportInv ==
  /\ upload \in Upload
  /\ job[Uploader] # Idle => upload.pc = "inserting" /\ upload.todo # <<>>
  /\ upload.pc = "done" => upload.todo = <<>>
  /\ \A i, j \in DOMAIN upload.todo : i # j => upload.todo[i] # upload.todo[j]
  /\ upload.pc # "none" => ParsedRows(upload.sheet) = Left \cup upload.errors \cup upload.made
  /\ Left \cap (upload.errors \cup upload.made) = {} /\ upload.errors \cap upload.made = {}

\* No sheet has been uploaded at first.
LEMMA ReportInvInit == MatrixInit => ReportInv
<1> SUFFICES ASSUME MatrixInit PROVE ReportInv
  OBVIOUS
<1>1. upload = NoUpload /\ job[Uploader] = Idle
  BY DEF MatrixInit, Workers
<1>2. NoUpload \in Upload
  BY DEF NoUpload, Upload
<1>3. upload.todo = <<>> /\ upload.pc = "none" /\ upload.errors = {} /\ upload.made = {}
  BY <1>1 DEF NoUpload
<1>4. DOMAIN upload.todo = {} /\ Left = {}
  BY <1>3 DEF Left
<1> QED BY <1>1, <1>2, <1>3, <1>4 DEF ReportInv

\* A sheet is read: its valid rows are to be inserted, the other filled ones are errors.
LEMMA SheetRead ==
  ASSUME ReportInv, NEW sheet \in Sheets, StartUpload(sheet)
  PROVE  ReportInv'
<1> DEFINE parsed == ParsedRows(sheet)
           valid  == {n \in parsed : ValidRow(sheet, n)}
<1>1. /\ upload.pc = "none" /\ UNCHANGED job
      /\ upload' = [pc |-> "inserting", sheet |-> sheet, todo |-> Ascending(valid),
                    errors |-> parsed \ valid, made |-> {}]
  BY DEF StartUpload
<1>2. sheet \in Seq(SheetRow)
  BY MatrixAssumption DEF SheetRow
<1>3. parsed \in SUBSET Nat /\ parsed \subseteq 1 .. Len(sheet) /\ Len(sheet) \in Nat
  BY <1>2 DEF ParsedRows
<1>4. valid \in SUBSET Nat /\ valid \subseteq parsed /\ IsFiniteSet(valid)
  <2>1. valid \subseteq 1 .. Len(sheet)
    BY <1>3
  <2>2. IsFiniteSet(1 .. Len(sheet))
    BY <1>3, FS_Interval
  <2>3. IsFiniteSet(valid)
    BY <2>1, <2>2, FS_Subset
  <2> QED BY <1>3, <2>3
<1> DEFINE a == Ascending(valid)
<1> HIDE DEF parsed, valid
<1>5. /\ a \in Seq(valid)
      /\ \A i, j \in DOMAIN a : i # j => a[i] # a[j]
      /\ \A n \in valid : \E i \in DOMAIN a : a[i] = n
  BY <1>4, AscendingLists
<1> HIDE DEF a
<1>6. /\ upload'.pc = "inserting" /\ upload'.sheet = sheet /\ upload'.todo = a
      /\ upload'.errors = parsed \ valid /\ upload'.made = {}
  BY <1>1 DEF a
<1>7. a \in Seq(Nat) /\ \A i \in DOMAIN a : a[i] \in valid
  <2>1. Len(a) \in Nat /\ DOMAIN a = 1 .. Len(a) /\ a = [i \in 1 .. Len(a) |-> a[i]]
    BY <1>5
  <2>2. \A i \in 1 .. Len(a) : a[i] \in valid
    BY <1>5
  <2>3. a \in [1 .. Len(a) -> Nat]
    BY <1>4, <2>1, <2>2
  <2> QED BY <2>1, <2>2, <2>3
<1>8. Left' = valid
  BY <1>5, <1>6, <1>7 DEF Left
<1>9. upload' \in Upload
  <2>1. upload' = [pc |-> "inserting", sheet |-> sheet, todo |-> a,
                   errors |-> parsed \ valid, made |-> {}]
    BY <1>1 DEF a
  <2> QED BY <1>2, <1>3, <1>7, <2>1 DEF Upload
<1>10. job'[Uploader] = Idle
  BY <1>1 DEF ReportInv
<1>11. ParsedRows(upload'.sheet) = parsed
  BY <1>6 DEF parsed
<1> QED BY <1>4, <1>5, <1>6, <1>8, <1>9, <1>10, <1>11 DEF ReportInv, ParsedRows

\* A row has succeeded or thrown: it is made or an error, and no longer to be inserted.
LEMMA RowMoves ==
  ASSUME ReportInv, upload.pc = "inserting", upload.todo # <<>>, NEW ok \in BOOLEAN, RowDone(ok),
         job'[Uploader] = Idle
  PROVE  ReportInv'
<1> DEFINE t == upload.todo
           n == Head(upload.todo)
<1>1. /\ upload' = [upload EXCEPT !.todo = Tail(@),
                                  !.errors = IF ok THEN @ ELSE @ \cup {n},
                                  !.made = IF ok THEN @ \cup {n} ELSE @]
  BY DEF RowDone
<1>2. upload \in Upload /\ t \in Seq(Nat)
  BY DEF ReportInv, Upload
<1>3. /\ upload'.pc = "inserting" /\ upload'.sheet = upload.sheet /\ upload'.todo = Tail(t)
      /\ upload'.errors = IF ok THEN upload.errors ELSE upload.errors \cup {n}
      /\ upload'.made = IF ok THEN upload.made \cup {n} ELSE upload.made
  BY <1>1, <1>2 DEF Upload
<1>4. upload' \in Upload
  <2>1. n \in Nat /\ Tail(t) \in Seq(Nat)
    BY <1>2
  <2> QED BY <1>1, <1>2, <2>1 DEF Upload
<1> HIDE DEF t, n
<1>5. /\ DOMAIN t = 1 .. Len(t) /\ Len(t) \in Nat \ {0} /\ n = t[1]
      /\ DOMAIN Tail(t) = 1 .. Len(t) - 1
      /\ \A i \in 1 .. Len(t) - 1 : Tail(t)[i] = t[i + 1]
  <2>1. t # <<>> /\ n = Head(t)
    BY DEF t, n
  <2> QED BY <1>2, <2>1
<1>6. \A i, j \in DOMAIN t : i # j => t[i] # t[j]
  BY DEF ReportInv, t
<1>7. \A i, j \in DOMAIN Tail(t) : i # j => Tail(t)[i] # Tail(t)[j]
  <2> SUFFICES ASSUME NEW i \in 1 .. Len(t) - 1, NEW j \in 1 .. Len(t) - 1, i # j
               PROVE  t[i + 1] # t[j + 1]
    BY <1>5
  <2>1. i + 1 \in DOMAIN t /\ j + 1 \in DOMAIN t /\ i + 1 # j + 1
    BY <1>5
  <2> QED BY <1>6, <2>1
<1>8. Left = {t[i] : i \in 1 .. Len(t)} /\ Left' = {Tail(t)[i] : i \in 1 .. Len(t) - 1}
  BY <1>3, <1>5 DEF Left, t
<1>9. Left' = Left \ {n}
  <2>1. ASSUME NEW i \in 1 .. Len(t) - 1
        PROVE  Tail(t)[i] \in Left /\ Tail(t)[i] # n
    <3>1. i + 1 \in 1 .. Len(t) /\ i + 1 # 1 /\ 1 \in 1 .. Len(t) /\ Tail(t)[i] = t[i + 1]
      BY <1>5
    <3> QED BY <1>5, <1>6, <1>8, <3>1
  <2>2. ASSUME NEW i \in 1 .. Len(t), t[i] # n
        PROVE  t[i] \in Left'
    <3>1. i - 1 \in 1 .. Len(t) - 1
      BY <1>5, <2>2
    <3>2. Tail(t)[i - 1] = t[i]
      BY <1>5, <3>1
    <3> QED BY <1>8, <3>1, <3>2
  <2> QED BY <1>8, <2>1, <2>2
<1>10. n \in Left
  BY <1>5, <1>8
<1>11. ParsedRows(upload'.sheet) = ParsedRows(upload.sheet)
  BY <1>3
<1>12. ParsedRows(upload'.sheet) = Left' \cup upload'.errors \cup upload'.made
  BY <1>3, <1>9, <1>10, <1>11 DEF ReportInv
<1>13. Left' \cap (upload'.errors \cup upload'.made) = {} /\ upload'.errors \cap upload'.made = {}
  BY <1>3, <1>9, <1>10 DEF ReportInv
<1> QED BY <1>3, <1>4, <1>7, <1>12, <1>13 DEF ReportInv, ParsedRows

\* Every operation keeps the account of the sheet's rows.
LEMMA ReportInvNext == MatrixInv /\ ReportInv /\ [MatrixNext]_matrixVars => ReportInv'
<1> SUFFICES ASSUME MatrixInv, ReportInv, [MatrixNext]_matrixVars
             PROVE  ReportInv'
  OBVIOUS
<1> USE DEF Workers
<1>1. ASSUME UNCHANGED upload, job'[Uploader] = job[Uploader] \/ job'[Uploader] = Idle
      PROVE  ReportInv'
  BY <1>1 DEF ReportInv, Left, ParsedRows
<1>2. ASSUME UNCHANGED upload, upload.pc = "inserting", upload.todo # <<>>
      PROVE  ReportInv'
  BY <1>2 DEF ReportInv, Left, ParsedRows
<1>3. ASSUME NEW c \in Workers, NEW ok \in BOOLEAN, Answer(c, ok), job[c] # Idle
      PROVE  ReportInv'
  <2>1. CASE c = Uploader
    <3>1. upload.pc = "inserting" /\ upload.todo # <<>>
      BY <1>3, <2>1 DEF ReportInv
    <3>2. RowDone(ok) /\ job'[Uploader] = Idle
      BY <1>3, <2>1 DEF Answer, MatrixInv, JobsOK
    <3> QED BY <3>1, <3>2, RowMoves
  <2>2. CASE c # Uploader
    BY <1>1, <1>3, <2>2 DEF Answer, MatrixInv, JobsOK
  <2> QED BY <2>1, <2>2
<1>4. ASSUME NEW c \in Workers, NEW p \in Wares, NEW s \in Skus, TestSku(c, p, s)
      PROVE  ReportInv'
  <2>1. CASE c = Uploader
    <3>1. upload.pc = "inserting" /\ upload.todo # <<>>
      BY <1>4, <2>1 DEF TestSku
    <3>2. CASE Answer(c, FALSE)
      <4>1. RowDone(FALSE) /\ job'[Uploader] = Idle
        BY <2>1, <3>2 DEF Answer, MatrixInv, JobsOK
      <4> QED BY <3>1, <4>1, RowMoves
    <3>3. CASE UNCHANGED upload
      BY <1>2, <3>1, <3>3
    <3> QED BY <1>4, <3>2, <3>3 DEF TestSku
  <2>2. CASE c # Uploader
    <3>1. UNCHANGED upload /\ \E j : job' = [job EXCEPT ![c] = j]
      BY <1>4, <2>2 DEF TestSku
    <3> QED BY <1>1, <2>2, <3>1 DEF MatrixInv, JobsOK
  <2> QED BY <2>1, <2>2
<1>5. ASSUME NEW c \in Workers, NEW p \in Wares, NEW s \in Skus, BeginRenameSku(c, p, s)
      PROVE  ReportInv'
  BY <1>1, <1>5 DEF BeginRenameSku, MatrixInv, JobsOK
<1>6. ASSUME NEW c \in Workers, NEW l \in Sites, InsertSite(c, l)
      PROVE  ReportInv'
  BY <1>1, <1>6 DEF InsertSite, MatrixInv, JobsOK
<1>7. ASSUME NEW c \in Workers, InsertProduct(c)
      PROVE  ReportInv'
  <2>1. job[c] # Idle
    BY <1>7 DEF InsertProduct, Doing
  <2>2. CASE Answer(c, FALSE)
    BY <1>3, <2>1, <2>2
  <2>3. CASE UNCHANGED upload /\ job' = [job EXCEPT ![c].pc = "inserted", ![c].seen = site]
    <3>1. CASE c = Uploader
      BY <1>2, <2>1, <2>3, <3>1 DEF ReportInv
    <3>2. CASE c # Uploader
      BY <1>1, <2>3, <3>2 DEF MatrixInv, JobsOK
    <3> QED BY <3>1, <3>2
  <2> QED BY <1>7, <2>2, <2>3 DEF InsertProduct
<1>8. ASSUME NEW c \in Workers, CommitProduct(c) \/ CommitSite(c) \/ RenameSku(c) \/ RollBack(c)
      PROVE  ReportInv'
  BY <1>3, <1>8 DEF CommitProduct, CommitSite, RenameSku, RollBack, Doing
<1>9. ASSUME NEW sheet \in Sheets, StartUpload(sheet)
      PROVE  ReportInv'
  BY <1>9, SheetRead
<1>10. CASE FinishUpload
  <2>1. /\ upload' = [upload EXCEPT !.pc = "done"] /\ UNCHANGED job
        /\ upload.pc = "inserting" /\ upload.todo = <<>> /\ upload \in Upload
    BY <1>10 DEF FinishUpload, ReportInv
  <2>2. /\ upload'.pc = "done" /\ upload'.sheet = upload.sheet /\ upload'.todo = upload.todo
        /\ upload'.errors = upload.errors /\ upload'.made = upload.made /\ upload' \in Upload
    BY <2>1 DEF Upload
  <2>3. Left' = Left /\ ParsedRows(upload'.sheet) = ParsedRows(upload.sheet)
    BY <2>2 DEF Left
  <2> QED BY <2>1, <2>2, <2>3 DEF ReportInv, ParsedRows
<1>11. CASE \/ \E p \in Wares : Retire(p)
            \/ \E p \in Wares, l \in Sites : Register(p, l)
            \/ UNCHANGED matrixVars
  BY <1>1, <1>11 DEF Retire, Register, matrixVars
<1> QED BY <1>4, <1>5, <1>6, <1>7, <1>8, <1>9, <1>10, <1>11 DEF MatrixNext

\* Theorem: the sheet sent back marks exactly the filled rows whose product was not made,
\* for every sheet and whatever other creates and renames come between its rows.
THEOREM ReportTruthful == MatrixSpec => []BulkReportTruthful
<1>1. MatrixSpec => [](MatrixInv /\ ReportInv)
  BY MatrixInvInit, MatrixInvNext, ReportInvInit, ReportInvNext, PTL DEF MatrixSpec
<1>2. ReportInv => BulkReportTruthful
  <2> SUFFICES ASSUME ReportInv, upload.pc = "done"
               PROVE  ParsedRows(upload.sheet) \ upload.errors = upload.made
    BY DEF BulkReportTruthful, ParsedRows
  <2>1. Left = {}
    <3>1. upload.todo = <<>>
      BY DEF ReportInv
    <3>2. DOMAIN upload.todo = {}
      BY <3>1
    <3> QED BY <3>2 DEF Left
  <2> QED BY <2>1 DEF ReportInv
<1> QED BY <1>1, <1>2, PTL

-----------------------------------------------------------------------------
(* Guards. *)

LocationCall == [op : {"toggleLocation"}, pc : {"counted"}, on : Locations, active : BOOLEAN]
PairCall     == [op : {"toggleRegistration"}, pc : {"counted"}, on : Pairs, active : BOOLEAN]
UserCall     == [op : {"toggleUser"}, pc : {"tested"}, on : Users, active : BOOLEAN,
                 alone : BOOLEAN]
CreateCall   == [op : {"create"}, pc : {"read"}, on : Requests, arg : {"none"},
                 clear : {TRUE}]
LineCall     == [op : {"addItem", "updateItem"}, pc : {"read"}, on : Requests, arg : Pairs,
                 clear : {TRUE}]
StepCall     == [op : Steps, pc : {"read"}, on : Requests, arg : States, clear : {TRUE}]
WorkCall     == CreateCall \cup LineCall \cup StepCall
AnyCall      == LocationCall \cup PairCall \cup UserCall \cup WorkCall

\* What the calls in flight know: a create of a request that does not exist, anything
\* else one that does; the line of a transfer is looked up at its source.
KnownCalls ==
  /\ call \in [Calls -> AnyCall \cup {Quiet}]
  /\ \A c \in Calls :
       /\ call[c] \in CreateCall => state[call[c].on] = "ABSENT"
       /\ call[c] \in LineCall \cup StepCall => state[call[c].on] # "ABSENT"
       /\ call[c] \in LineCall /\ call[c].on \in Transfers
            => call[c].op = "addItem" /\ call[c].arg[2] = route[call[c].on][1]
  /\ \A c, d \in Calls : call[c] \in CreateCall /\ call[d] \in CreateCall /\ c # d
                           => call[c].on # call[d].on

\* A request has lines once it exists, a transfer's at its source.
LinesPlaced ==
  \A q \in Requests :
    /\ state[q] = "ABSENT" => items[q] = {}
    /\ q \in Transfers => \A x \in items[q] : x[2] = route[q][1]

\* A location or a registration that a call has found unused is still unused by what
\* is not excused.
CountsHold ==
  \A c \in Calls, q \in Requests \ excused : Pending(q) =>
    /\ call[c] \in LocationCall /\ ~call[c].active => ~Touches(q, call[c].on)
    /\ call[c] \in PairCall /\ ~call[c].active => call[c].on \notin items[q]

\* A user found not needed is not needed while nobody else writes.
TestsHold ==
  \A c \in Calls : call[c] \in UserCall /\ ~call[c].active /\ call[c].alone =>
    \A q \in Requests : call[c].on \notin EligibleFor(q, state[q])

GuardInv == GuardTypeOK /\ KnownCalls /\ LinesPlaced /\ CountsHold /\ NoneStranded /\ TestsHold

\* The kinds of calls are told apart by their operation.
LEMMA CallKinds ==
  /\ \A k \in AnyCall : k # Quiet
  /\ \A k \in LocationCall : k.op = "toggleLocation" /\ k.pc = "counted"
  /\ \A k \in PairCall : k.op = "toggleRegistration" /\ k.pc = "counted"
  /\ \A k \in UserCall : k.op = "toggleUser" /\ k.pc = "tested"
  /\ \A k \in CreateCall : k.op = "create" /\ k.pc = "read"
  /\ \A k \in LineCall : k.op \in {"addItem", "updateItem"} /\ k.pc = "read"
  /\ \A k \in StepCall : k.op \in Steps /\ k.pc = "read"
  BY DEF AnyCall, WorkCall, Quiet, Steps, LocationCall, PairCall, UserCall, CreateCall, LineCall,
         StepCall

\* Nothing exists at first, and no call is in flight.
LEMMA GuardInvInit == GuardInit => GuardInv
<1> SUFFICES ASSUME GuardInit PROVE GuardInv
  OBVIOUS
<1> \A c \in Calls : call[c] = Quiet
  BY DEF GuardInit
<1> \A c \in Calls : call[c] \notin AnyCall
  BY CallKinds
<1> \A q \in Requests : ~Pending(q)
  BY DEF GuardInit, Pending, PendingStates
<1>1. GuardTypeOK
  BY GuardsAssumption DEF GuardInit, GuardTypeOK, States
<1>2. KnownCalls
  BY DEF KnownCalls, GuardInit, AnyCall, WorkCall
<1>3. LinesPlaced
  BY DEF LinesPlaced, GuardInit
<1>4. CountsHold /\ NoneStranded
  BY DEF CountsHold, NoneStranded
<1>5. TestsHold
  BY DEF TestsHold, AnyCall
<1> QED BY <1>1, <1>2, <1>3, <1>4, <1>5 DEF GuardInv

\* The operation of a call says what the call is about.
LEMMA KindOfCall ==
  \A k \in AnyCall :
    /\ k.op = "toggleLocation" => k \in LocationCall
    /\ k.op = "toggleRegistration" => k \in PairCall
    /\ k.op = "toggleUser" => k \in UserCall
    /\ k.op = "create" => k \in CreateCall
    /\ k.op \in {"addItem", "updateItem"} => k \in LineCall
    /\ k.op \in Steps => k \in StepCall
<1> SUFFICES ASSUME NEW k \in AnyCall
             PROVE /\ k.op = "toggleLocation" => k \in LocationCall
                   /\ k.op = "toggleRegistration" => k \in PairCall
                   /\ k.op = "toggleUser" => k \in UserCall
                   /\ k.op = "create" => k \in CreateCall
                   /\ k.op \in {"addItem", "updateItem"} => k \in LineCall
                   /\ k.op \in Steps => k \in StepCall
  OBVIOUS
<1> USE CallKinds DEF Steps
<1>1. CASE k \in LocationCall  BY <1>1
<1>2. CASE k \in PairCall      BY <1>2
<1>3. CASE k \in UserCall      BY <1>3
<1>4. CASE k \in CreateCall    BY <1>4
<1>5. CASE k \in LineCall      BY <1>5
<1>6. CASE k \in StepCall      BY <1>6
<1> QED BY <1>1, <1>2, <1>3, <1>4, <1>5, <1>6 DEF AnyCall, WorkCall

\* One call ends; of the others, those that test a user may learn that somebody wrote.
Ends(c) ==
  /\ call' \in [Calls -> AnyCall \cup {Quiet}]
  /\ call'[c] = Quiet
  /\ \A d \in Calls \ {c} :
       \/ call'[d] = call[d]
       \/ /\ call[d] \in UserCall
          /\ call'[d] = [call[d] EXCEPT !.alone = FALSE]

\* A call that returns is over, and the others go on as they were.
LEMMA ReturnEnds ==
  ASSUME KnownCalls, NEW c \in Calls, Return(c)
  PROVE  Ends(c)
  BY DEF KnownCalls, Return, Ends

\* A call that returns with a write is over, and no test of a user runs undisturbed beside it.
LEMMA WriteEnds ==
  ASSUME KnownCalls, NEW c \in Calls, ReturnWriting(c)
  PROVE  Ends(c) /\ \A d \in Calls : call'[d] \in UserCall => ~call'[d].alone
<1> DEFINE after(d) == IF d # c /\ call[d] # Quiet /\ call[d].op = "toggleUser"
                       THEN [call[d] EXCEPT !.alone = FALSE] ELSE call[d]
<1>1. call' = [[d \in Calls |-> after(d)] EXCEPT ![c] = Quiet]
  BY DEF ReturnWriting, Disturbed
<1>2. ASSUME NEW d \in Calls, d # c
      PROVE  \/ call[d] \notin UserCall /\ after(d) = call[d]
             \/ call[d] \in UserCall /\ after(d) = [call[d] EXCEPT !.alone = FALSE]
  BY <1>2, CallKinds, KindOfCall DEF KnownCalls, AnyCall
<1>3. \A k \in UserCall : [k EXCEPT !.alone = FALSE] \in UserCall
                          /\ ~[k EXCEPT !.alone = FALSE].alone
  BY DEF UserCall
<1> HIDE DEF after
<1>4. call'[c] = Quiet /\ \A d \in Calls \ {c} : call'[d] = after(d)
  BY <1>1
<1>5. \A d \in Calls \ {c} : after(d) \in AnyCall \cup {Quiet}
  BY <1>2, <1>3 DEF KnownCalls, AnyCall
<1>6. call' \in [Calls -> AnyCall \cup {Quiet}]
  BY <1>1, <1>4, <1>5
<1>7. Quiet \notin UserCall
  BY CallKinds DEF AnyCall
<1>8. ASSUME NEW d \in Calls, call'[d] \in UserCall
      PROVE  ~call'[d].alone
  <2>1. d # c /\ call'[d] = after(d)
    BY <1>4, <1>7, <1>8
  <2>2. call[d] \in UserCall /\ after(d) = [call[d] EXCEPT !.alone = FALSE]
    BY <1>2, <1>8, <2>1
  <2> QED BY <1>3, <2>1, <2>2
<1> QED BY <1>2, <1>4, <1>6, <1>8 DEF Ends

\* A call that is not about users and is in flight after a call ended was so before.
LEMMA StillThere ==
  ASSUME KnownCalls, NEW c \in Calls, Ends(c), NEW d \in Calls, call'[d] \in AnyCall
  PROVE  /\ d # c
         /\ call[d] \in AnyCall
         /\ call'[d] \notin UserCall => call'[d] = call[d]
         /\ call'[d] \in UserCall =>
              call[d] \in UserCall /\ (call'[d].alone => call'[d] = call[d])
<1>1. d # c
  BY CallKinds DEF Ends
<1>2. \A k \in UserCall : [k EXCEPT !.alone = FALSE] \in UserCall
                          /\ ~[k EXCEPT !.alone = FALSE].alone
  BY DEF UserCall
<1> QED BY <1>1, <1>2 DEF Ends, AnyCall

\* What the calls know survives a step that ends one of them and creates nothing but
\* what it may have been about.
LEMMA CallsKept ==
  ASSUME GuardInv, NEW c \in Calls, Ends(c), UNCHANGED route,
         \A q \in Requests : state[q] # "ABSENT" => state'[q] # "ABSENT",
         \A q \in Requests : state[q] = "ABSENT" /\ state'[q] # "ABSENT"
           => call[c] \in CreateCall /\ call[c].on = q
  PROVE  KnownCalls'
<1> USE DEF GuardInv
<1> \A k \in CreateCall \cup LineCall \cup StepCall :
      k \in AnyCall /\ k \notin UserCall /\ k.on \in Requests
  BY CallKinds DEF AnyCall, WorkCall, CreateCall, LineCall, StepCall, Steps
<1>1. \A d \in Calls : call'[d] \in CreateCall \cup LineCall \cup StepCall
        => d # c /\ call'[d] = call[d]
  BY StillThere
<1>2. call' \in [Calls -> AnyCall \cup {Quiet}]
  BY DEF Ends
<1>3. ASSUME NEW d \in Calls, call'[d] \in CreateCall
      PROVE  state'[call'[d].on] = "ABSENT"
  BY <1>1, <1>3 DEF KnownCalls
<1>4. ASSUME NEW d \in Calls, call'[d] \in LineCall \cup StepCall
      PROVE  state'[call'[d].on] # "ABSENT"
  BY <1>1, <1>4 DEF KnownCalls
<1>5. ASSUME NEW d \in Calls, call'[d] \in LineCall, call'[d].on \in Transfers
      PROVE  call'[d].op = "addItem" /\ call'[d].arg[2] = route'[call'[d].on][1]
  BY <1>1, <1>5 DEF KnownCalls
<1>6. ASSUME NEW d \in Calls, NEW e \in Calls, call'[d] \in CreateCall, call'[e] \in CreateCall,
             d # e
      PROVE  call'[d].on # call'[e].on
  BY <1>1, <1>6 DEF KnownCalls
<1> QED BY <1>2, <1>3, <1>4, <1>5, <1>6 DEF KnownCalls

\* What the tests of others found stays true when nobody is newly needed, or is marked
\* as disturbed.
LEMMA TestsKept ==
  ASSUME GuardInv, NEW c \in Calls, Ends(c),
         \/ \A d \in Calls : call'[d] \in UserCall => ~call'[d].alone
         \/ UNCHANGED <<userActive, roleAt, state, route, items>>
  PROVE  TestsHold'
<1> SUFFICES ASSUME NEW d \in Calls, (call'[d] \in UserCall /\ ~call'[d].active /\ call'[d].alone),
                    NEW q \in Requests
             PROVE  call'[d].on \notin EligibleFor(q, state[q])'
  BY DEF TestsHold
<1>1. call'[d] = call[d]
  BY StillThere DEF GuardInv, AnyCall
<1>2. UNCHANGED <<userActive, roleAt, state, route, items>>
  OBVIOUS
<1>3. EligibleFor(q, state[q])' = EligibleFor(q, state[q])
  BY <1>2 DEF EligibleFor, TransferEligible, AdjustmentEligible, LineLocations
<1> QED BY <1>1, <1>3 DEF TestsHold, GuardInv

\* What the counts of others found stays true when each pending request that is not
\* excused afterwards was one before with the same places and lines, or does not touch
\* what is closing.
LEMMA CountsKept ==
  ASSUME GuardInv, NEW c \in Calls, Ends(c),
         \A q \in Requests \ excused' : Pending(q)' =>
           /\ \A l \in Locations : Touches(q, l)' =>
                (q \notin excused /\ Pending(q) /\ Touches(q, l)) \/ ~LocationClosing(l)
           /\ \A x \in items'[q] :
                (q \notin excused /\ Pending(q) /\ x \in items[q]) \/ ~PairClosing(x)
  PROVE  CountsHold'
<1> SUFFICES ASSUME NEW d \in Calls, NEW q \in Requests \ excused', Pending(q)'
             PROVE  /\ call'[d] \in LocationCall /\ ~call'[d].active => ~Touches(q, call[d].on)'
                    /\ call'[d] \in PairCall /\ ~call'[d].active => call'[d].on \notin items'[q]
  BY StillThere, CallKinds DEF CountsHold, GuardInv, AnyCall
<1>1. ASSUME call'[d] \in LocationCall, ~call'[d].active
      PROVE  ~Touches(q, call[d].on)'
  <2>1. call'[d] = call[d] /\ call[d].on \in Locations
    BY <1>1, StillThere, CallKinds DEF GuardInv, AnyCall, LocationCall
  <2>2. LocationClosing(call[d].on)
    BY <1>1, <2>1, CallKinds DEF LocationClosing, At, AnyCall
  <2> QED BY <1>1, <2>1, <2>2 DEF CountsHold, GuardInv
<1>2. ASSUME call'[d] \in PairCall, ~call'[d].active
      PROVE  call'[d].on \notin items'[q]
  <2>1. call'[d] = call[d]
    BY <1>2, StillThere, CallKinds DEF GuardInv, AnyCall
  <2>2. PairClosing(call[d].on)
    BY <1>2, <2>1, CallKinds DEF PairClosing, At, AnyCall
  <2> QED BY <1>2, <2>1, <2>2 DEF CountsHold, GuardInv
<1> QED BY <1>1, <1>2

\* A call that begins with what it has read of the tables keeps the invariant.
LEMMA CallBegins ==
  ASSUME GuardInv, NEW c \in Calls, NEW n \in AnyCall,
         call' = [call EXCEPT ![c] = n], UNCHANGED <<registryVars, workVars>>,
         n \in CreateCall => /\ state[n.on] = "ABSENT"
                             /\ \A d \in Calls \ {c} : call[d] \in CreateCall => call[d].on # n.on,
         n \in LineCall \cup StepCall => state[n.on] # "ABSENT",
         n \in LineCall /\ n.on \in Transfers => n.op = "addItem" /\ n.arg[2] = route[n.on][1],
         n \in LocationCall /\ ~n.active =>
           \A q \in Requests : Pending(q) => ~Touches(q, n.on),
         n \in PairCall /\ ~n.active =>
           \A q \in Requests \ excused : Pending(q) => n.on \notin items[q],
         n \in UserCall /\ ~n.active => \A q \in Requests : n.on \notin EligibleFor(q, state[q])
  PROVE  GuardInv'
<1>1. UNCHANGED <<userActive, roleAt, open, registered, state, route, items, excused>>
  BY DEF registryVars, workVars
<1>2. call'[c] = n /\ \A d \in Calls \ {c} : call'[d] = call[d]
  BY DEF GuardInv, KnownCalls
<1>3. GuardTypeOK'
  BY <1>1 DEF GuardInv, GuardTypeOK
<1>4. KnownCalls'
  <2>1. call' \in [Calls -> AnyCall \cup {Quiet}]
    BY DEF GuardInv, KnownCalls
  <2>2. ASSUME NEW d \in Calls
        PROVE  /\ call'[d] \in CreateCall => state'[call'[d].on] = "ABSENT"
               /\ call'[d] \in LineCall \cup StepCall => state'[call'[d].on] # "ABSENT"
               /\ call'[d] \in LineCall /\ call'[d].on \in Transfers
                    => call'[d].op = "addItem" /\ call'[d].arg[2] = route'[call'[d].on][1]
    BY <1>1, <1>2 DEF GuardInv, KnownCalls
  <2>3. ASSUME NEW d \in Calls, NEW e \in Calls, call'[d] \in CreateCall, call'[e] \in CreateCall,
               d # e
        PROVE  call'[d].on # call'[e].on
    <3>1. CASE d = c  BY <3>1, <2>3, <1>2
    <3>2. CASE e = c  BY <3>2, <2>3, <1>2
    <3>3. CASE d # c /\ e # c  BY <3>3, <2>3, <1>2 DEF GuardInv, KnownCalls
    <3> QED BY <3>1, <3>2, <3>3
  <2> QED BY <2>1, <2>2, <2>3 DEF KnownCalls
<1>5. LinesPlaced'
  BY <1>1 DEF GuardInv, LinesPlaced
<1>6. \A q \in Requests : /\ Pending(q)' = Pending(q)
                          /\ \A l : Touches(q, l)' = Touches(q, l)
                          /\ EligibleFor(q, state[q])' = EligibleFor(q, state[q])
  BY <1>1 DEF Pending, Touches, LineLocations, EligibleFor, TransferEligible, AdjustmentEligible
<1>7. CountsHold'
  BY <1>1, <1>2, <1>6 DEF GuardInv, CountsHold
<1>8. NoneStranded'
  BY <1>1, <1>6 DEF GuardInv, NoneStranded
<1>9. TestsHold'
  BY <1>2, <1>6 DEF GuardInv, TestsHold
<1> QED BY <1>3, <1>4, <1>5, <1>7, <1>8, <1>9 DEF GuardInv

\* The test of a location, of a registration and of a user.
LEMMA TestsBegin ==
  ASSUME GuardInv, NEW c \in Calls,
         \/ \E l \in Locations : CountAtLocation(c, l)
         \/ \E x \in Pairs, active \in BOOLEAN : CountAtPair(c, x, active)
         \/ \E u \in Users : TestUser(c, u)
  PROVE  GuardInv'
<1>1. ASSUME NEW l \in Locations, CountAtLocation(c, l)
      PROVE  GuardInv'
  <2> DEFINE n == [op |-> "toggleLocation", pc |-> "counted", on |-> l, active |-> ~open[l]]
  <2>1. n \in LocationCall /\ n.on = l /\ n.active = ~open[l]
    BY DEF LocationCall, GuardInv, GuardTypeOK
  <2>2. n.op = "toggleLocation" /\ call' = [call EXCEPT ![c] = n]
    BY <1>1 DEF CountAtLocation
  <2> HIDE DEF n
  <2>3. n \in AnyCall /\ n \notin PairCall \cup UserCall \cup WorkCall
    BY <2>1, <2>2, CallKinds DEF AnyCall, WorkCall, Steps
  <2>4. ~n.active => \A q \in Requests : Pending(q) => ~Touches(q, n.on)
    BY <1>1, <2>1 DEF CountAtLocation, PendingAtLocation
  <2>5. UNCHANGED <<registryVars, workVars>>
    BY <1>1 DEF CountAtLocation
  <2> QED BY <2>2, <2>3, <2>4, <2>5, CallBegins DEF WorkCall
<1>2. ASSUME NEW x \in Pairs, NEW active \in BOOLEAN, CountAtPair(c, x, active)
      PROVE  GuardInv'
  <2> DEFINE n == [op |-> "toggleRegistration", pc |-> "counted", on |-> x, active |-> active]
  <2>1. n \in PairCall /\ n.on = x /\ n.active = active
    BY DEF PairCall
  <2>2. n.op = "toggleRegistration" /\ call' = [call EXCEPT ![c] = n]
    BY <1>2 DEF CountAtPair
  <2> HIDE DEF n
  <2>3. n \in AnyCall /\ n \notin LocationCall \cup UserCall \cup WorkCall
    BY <2>1, <2>2, CallKinds DEF AnyCall, WorkCall, Steps
  <2>4. ASSUME ~n.active, NEW q \in Requests, Pending(q), x \in items[q]
        PROVE  FALSE
    <3>1. registered[x]
      BY <1>2, <2>1, <2>4 DEF CountAtPair, GuardInv, GuardTypeOK
    <3>2. ~Names(q, x[1], x[2])
      BY <1>2, <2>1, <2>4, <3>1 DEF CountAtPair, PendingAtPair
    <3>3. <<x[1], x[2]>> = x
      BY DEF Pairs
    <3>4. q \in Transfers => x[2] = route[q][1]
      BY <2>4 DEF GuardInv, LinesPlaced
    <3> QED BY <2>4, <3>2, <3>3, <3>4 DEF Names
  <2>5. UNCHANGED <<registryVars, workVars>>
    BY <1>2 DEF CountAtPair
  <2> QED BY <2>1, <2>2, <2>3, <2>4, <2>5, CallBegins DEF WorkCall
<1>3. ASSUME NEW u \in Users, TestUser(c, u)
      PROVE  GuardInv'
  <2> DEFINE n == [op |-> "toggleUser", pc |-> "tested", on |-> u, active |-> ~userActive[u],
                   alone |-> TRUE]
  <2>1. n \in UserCall /\ n.on = u /\ n.active = ~userActive[u]
    BY DEF UserCall, GuardInv, GuardTypeOK
  <2>2. n.op = "toggleUser" /\ call' = [call EXCEPT ![c] = n]
    BY <1>3 DEF TestUser
  <2> HIDE DEF n
  <2>3. n \in AnyCall /\ n \notin LocationCall \cup PairCall \cup WorkCall
    BY <2>1, <2>2, CallKinds DEF AnyCall, WorkCall, Steps
  <2>4. ASSUME ~n.active, NEW q \in Requests
        PROVE  u \notin EligibleFor(q, state[q])
    <3>1. Listed(q) => u \notin EligibleFor(q, state[q])
      BY <1>3, <2>1, <2>4 DEF TestUser, GuardInv, GuardTypeOK
    <3>2. ~Listed(q) => EligibleFor(q, state[q]) = {}
      BY DEF Listed, EligibleFor, TransferEligible, AdjustmentEligible
    <3> QED BY <3>1, <3>2
  <2>5. UNCHANGED <<registryVars, workVars>>
    BY <1>3 DEF TestUser
  <2> QED BY <2>1, <2>2, <2>3, <2>4, <2>5, CallBegins DEF WorkCall
<1> QED BY <1>1, <1>2, <1>3

\* The reads of an operation on a request: it exists, unless the operation creates it.
LEMMA WorkBegins ==
  ASSUME GuardInv, NEW c \in Calls,
         \/ \E q \in Transfers : BeginTransfer(c, q)
         \/ \E q \in Adjustments : BeginAdjustment(c, q)
         \/ \E q \in Requests, x \in Pairs : BeginAddItem(c, q, x) \/ BeginMoveItem(c, q, x)
         \/ \E q \in Requests, op \in Steps : BeginStep(c, q, op)
  PROVE  GuardInv'
<1>1. ASSUME NEW q \in Requests, Fresh(q), BeginWork(c, "create", q, "none", TRUE)
      PROVE  GuardInv'
  <2> DEFINE n == [op |-> "create", pc |-> "read", on |-> q, arg |-> "none", clear |-> TRUE]
  <2>1. n \in CreateCall /\ n.on = q
    BY DEF CreateCall
  <2>2. n.op = "create" /\ call' = [call EXCEPT ![c] = n] /\ UNCHANGED <<registryVars, workVars>>
    BY <1>1 DEF BeginWork
  <2> HIDE DEF n
  <2>3. n \in AnyCall /\ n \notin LocationCall \cup PairCall \cup UserCall \cup LineCall \cup StepCall
    BY <2>1, <2>2, CallKinds DEF AnyCall, WorkCall, Steps
  <2>4. state[q] = "ABSENT" /\ \A d \in Calls : call[d] \in CreateCall => call[d].on # q
    BY <1>1, CallKinds DEF Fresh, Coming, At, AnyCall, WorkCall
  <2> QED BY <2>1, <2>2, <2>3, <2>4, CallBegins
<1>2. ASSUME NEW q \in Requests, NEW x \in Pairs, NEW op \in {"addItem", "updateItem"},
             BeginWork(c, op, q, x, TRUE), state[q] # "ABSENT",
             q \in Transfers => op = "addItem" /\ x[2] = route[q][1]
      PROVE  GuardInv'
  <2> DEFINE n == [op |-> op, pc |-> "read", on |-> q, arg |-> x, clear |-> TRUE]
  <2>1. n \in LineCall /\ n.on = q /\ n.arg = x
    BY DEF LineCall
  <2>2. n.op = op /\ call' = [call EXCEPT ![c] = n] /\ UNCHANGED <<registryVars, workVars>>
    BY <1>2 DEF BeginWork
  <2> HIDE DEF n
  <2>3. n \in AnyCall /\ n \notin LocationCall \cup PairCall \cup UserCall \cup CreateCall \cup StepCall
    BY <2>1, <2>2, CallKinds DEF AnyCall, WorkCall, Steps
  <2> QED BY <1>2, <2>1, <2>2, <2>3, CallBegins
<1>3. ASSUME NEW q \in Requests, NEW op \in Steps, BeginStep(c, q, op)
      PROVE  GuardInv'
  <2> DEFINE n == [op |-> op, pc |-> "read", on |-> q, arg |-> state[q], clear |-> TRUE]
  <2>1. n \in StepCall /\ n.on = q
    BY DEF StepCall, GuardInv, GuardTypeOK
  <2>2. n.op = op /\ call' = [call EXCEPT ![c] = n] /\ UNCHANGED <<registryVars, workVars>>
    BY <1>3 DEF BeginStep, BeginWork
  <2>3. PICK u \in Actors : Step(u, q, op)
    BY <1>3 DEF BeginStep, Someone
  <2>4. state[q] # "ABSENT"
    BY <2>3 DEF Step, MaySubmit, MayApproveOrigin, MayApproveDestination, MayApprove, MayReject,
                MayFinalize, MayCancel, Cancellable, PendingStates
  <2> HIDE DEF n
  <2>5. n \in AnyCall /\ n \notin LocationCall \cup PairCall \cup UserCall \cup CreateCall \cup LineCall
    BY <2>1, <2>2, CallKinds DEF AnyCall, WorkCall, Steps
  <2> QED BY <2>1, <2>2, <2>4, <2>5, CallBegins
<1>4. ASSUME NEW q \in Transfers, BeginTransfer(c, q)
      PROVE  GuardInv'
  <2>1. AllOpen({route[q][1], route[q][2]}) = TRUE
    BY <1>4 DEF BeginTransfer, AllOpen
  <2>2. Fresh(q) /\ BeginWork(c, "create", q, "none", TRUE)
    BY <1>4, <2>1 DEF BeginTransfer
  <2> QED BY <1>1, <2>2 DEF Requests
<1>5. ASSUME NEW q \in Adjustments, BeginAdjustment(c, q)
      PROVE  GuardInv'
  BY <1>1, <1>5 DEF BeginAdjustment, Requests
<1>6. ASSUME NEW q \in Requests, NEW x \in Pairs, BeginAddItem(c, q, x)
      PROVE  GuardInv'
  <2>3. (registered[x] /\ (q \in Transfers \/ open[x[2]])) = TRUE
    BY <1>6 DEF BeginAddItem
  <2>1. BeginWork(c, "addItem", q, x, TRUE) /\ state[q] # "ABSENT"
    BY <1>6, <2>3 DEF BeginAddItem
  <2>2. q \in Transfers => x[2] = route[q][1]
    BY <1>6 DEF BeginAddItem
  <2> QED BY <1>2, <2>1, <2>2
<1>7. ASSUME NEW q \in Requests, NEW x \in Pairs, BeginMoveItem(c, q, x)
      PROVE  GuardInv'
  <2>1. BeginWork(c, "updateItem", q, x, TRUE) /\ state[q] # "ABSENT" /\ q \notin Transfers
    BY <1>7, GuardsAssumption DEF BeginMoveItem
  <2> QED BY <1>2, <2>1
<1> QED BY <1>3, <1>4, <1>5, <1>6, <1>7

\* A location, a registration or a user is switched.
LEMMA SwitchWrites ==
  ASSUME GuardInv, NEW c \in Calls, ToggleLocation(c) \/ ToggleRegistration(c) \/ ToggleUser(c)
  PROVE  GuardInv'
<1> UNCHANGED <<state, route, items, excused>>
  BY DEF ToggleLocation, ToggleRegistration, ToggleUser, workVars
<1>1. Ends(c)
  BY ReturnEnds, WriteEnds DEF ToggleLocation, ToggleRegistration, ToggleUser, GuardInv
<1>2. KnownCalls'
  BY <1>1, CallsKept
<1>3. LinesPlaced'
  BY DEF GuardInv, LinesPlaced
<1>4. \A q : Pending(q)' = Pending(q) /\ \A l : Touches(q, l)' = Touches(q, l)
  BY DEF Pending, Touches, LineLocations
<1>5. CountsHold'
  <2> SUFFICES ASSUME NEW d \in Calls, NEW q \in Requests \ excused, Pending(q)
               PROVE  /\ call'[d] \in LocationCall /\ ~call'[d].active => ~Touches(q, call'[d].on)
                      /\ call'[d] \in PairCall /\ ~call'[d].active => call'[d].on \notin items[q]
    BY <1>4 DEF CountsHold
  <2>1. call'[d] \in LocationCall \cup PairCall => call'[d] = call[d]
    BY <1>1, StillThere, CallKinds DEF GuardInv, AnyCall
  <2> QED BY <2>1 DEF GuardInv, CountsHold
<1>6. CASE ToggleLocation(c)
  <2>1. call[c] \in LocationCall
    BY <1>6, KindOfCall DEF ToggleLocation, At, GuardInv, KnownCalls
  <2> DEFINE l == call[c].on
  <2>2. l \in Locations /\ call[c].active \in BOOLEAN
    BY <2>1 DEF LocationCall
  <2>3. open' = [open EXCEPT ![l] = call[c].active] /\ UNCHANGED <<userActive, roleAt, registered>>
    BY <1>6 DEF ToggleLocation
  <2>4. GuardTypeOK'
    BY <2>2, <2>3 DEF GuardInv, GuardTypeOK
  <2>5. NoneStranded'
    <3> SUFFICES ASSUME NEW q \in Requests \ excused, Pending(q)
                 PROVE  /\ \A k \in Locations : Touches(q, k) => open'[k]
                        /\ \A x \in items[q] : registered'[x]
      BY <1>4 DEF NoneStranded
    <3>1. Touches(q, l) => call[c].active
      BY <2>1, <2>2 DEF GuardInv, CountsHold
    <3> QED BY <2>2, <2>3, <3>1 DEF GuardInv, NoneStranded, GuardTypeOK
  <2>6. TestsHold'
    BY <1>1, <2>3, TestsKept
  <2> QED BY <1>2, <1>3, <1>5, <2>4, <2>5, <2>6 DEF GuardInv
<1>7. CASE ToggleRegistration(c)
  <2>1. call[c] \in PairCall
    BY <1>7, KindOfCall DEF ToggleRegistration, At, GuardInv, KnownCalls
  <2> DEFINE p == call[c].on
  <2>2. p \in Pairs /\ call[c].active \in BOOLEAN
    BY <2>1 DEF PairCall
  <2>3. registered' = [registered EXCEPT ![p] = call[c].active]
        /\ UNCHANGED <<userActive, roleAt, open>>
    BY <1>7 DEF ToggleRegistration
  <2>4. GuardTypeOK'
    BY <2>2, <2>3 DEF GuardInv, GuardTypeOK
  <2>5. NoneStranded'
    <3> SUFFICES ASSUME NEW q \in Requests \ excused, Pending(q)
                 PROVE  /\ \A k \in Locations : Touches(q, k) => open'[k]
                        /\ \A x \in items[q] : registered'[x]
      BY <1>4 DEF NoneStranded
    <3>1. p \in items[q] => call[c].active
      BY <2>1, <2>2 DEF GuardInv, CountsHold
    <3>2. items[q] \subseteq Pairs
      BY DEF GuardInv, GuardTypeOK
    <3> QED BY <2>2, <2>3, <3>1, <3>2 DEF GuardInv, NoneStranded, GuardTypeOK
  <2>6. TestsHold'
    BY <1>1, <2>3, TestsKept
  <2> QED BY <1>2, <1>3, <1>5, <2>4, <2>5, <2>6 DEF GuardInv
<1>8. CASE ToggleUser(c)
  <2>1. call[c] \in UserCall
    BY <1>8, KindOfCall DEF ToggleUser, At, GuardInv, KnownCalls
  <2>2. call[c].on \in Users /\ call[c].active \in BOOLEAN
    BY <2>1 DEF UserCall
  <2>3. userActive' = [userActive EXCEPT ![call[c].on] = call[c].active]
        /\ UNCHANGED <<roleAt, open, registered>>
    BY <1>8 DEF ToggleUser
  <2>4. GuardTypeOK'
    BY <2>2, <2>3 DEF GuardInv, GuardTypeOK
  <2>5. NoneStranded'
    BY <1>4, <2>3 DEF GuardInv, NoneStranded
  <2>6. TestsHold'
    BY <1>1, <1>8, WriteEnds, TestsKept DEF ToggleUser, GuardInv
  <2> QED BY <1>2, <1>3, <1>5, <2>4, <2>5, <2>6 DEF GuardInv
<1> QED BY <1>6, <1>7, <1>8

\* A request is inserted: a transfer between doors that are neither closed nor closing,
\* or excused; an adjustment, without lines.
LEMMA InsertWrites ==
  ASSUME GuardInv, NEW c \in Calls, Insert(c)
  PROVE  GuardInv'
<1> DEFINE q == call[c].on
<1>1. call[c] \in CreateCall
  BY KindOfCall DEF Insert, At, GuardInv, KnownCalls
<1>2. q \in Requests /\ state[q] = "ABSENT" /\ items[q] = {}
  BY <1>1 DEF CreateCall, GuardInv, KnownCalls, LinesPlaced
<1>3. /\ state' = [state EXCEPT ![q] = "DRAFT"]
      /\ excused' = IF q \in Transfers /\ \E l \in Locations : Touches(q, l) /\ LocationShut(c, l)
                    THEN excused \cup {q} ELSE excused
      /\ UNCHANGED <<userActive, roleAt, open, registered, route, items>>
  BY DEF Insert, registryVars
<1>4. Ends(c) /\ \A d \in Calls : call'[d] \in UserCall => ~call'[d].alone
  BY WriteEnds DEF Insert, GuardInv
<1>5. GuardTypeOK'
  BY <1>2, <1>3 DEF GuardInv, GuardTypeOK, States, PendingStates
<1>6. KnownCalls'
  BY <1>1, <1>2, <1>3, <1>4, CallsKept DEF GuardInv, GuardTypeOK
<1>7. LinesPlaced'
  BY <1>2, <1>3 DEF GuardInv, LinesPlaced, GuardTypeOK
<1>8. ASSUME NEW r \in Requests \ excused', Pending(r)'
      PROVE  /\ \A l \in Locations : Touches(r, l)' =>
                  /\ (r \notin excused /\ Pending(r) /\ Touches(r, l)) \/ ~LocationClosing(l)
                  /\ open[l]
             /\ \A x \in items[r] : r \notin excused /\ Pending(r)
  <2>1. r \notin excused /\ \A l : Touches(r, l)' = Touches(r, l)
    BY <1>3, <1>8 DEF Touches, LineLocations
  <2>2. CASE r # q
    <3>1. Pending(r)
      BY <1>2, <1>3, <1>8, <2>2 DEF Pending, GuardInv, GuardTypeOK
    <3> QED BY <2>1, <3>1 DEF GuardInv, NoneStranded
  <2>3. CASE r = q
    <3>1. q \in Transfers => \A l \in Locations : Touches(q, l) => ~LocationShut(c, l)
      BY <1>3, <1>8, <2>3
    <3>3. call[c].clear = TRUE
      BY <1>1 DEF CreateCall
    <3>2. q \notin Transfers => \A l : ~Touches(q, l)
      BY <1>2 DEF Touches, LineLocations
    <3> QED BY <1>2, <2>1, <2>3, <3>1, <3>2, <3>3 DEF LocationShut
  <2> QED BY <2>2, <2>3
<1>9. CountsHold'
  BY <1>3, <1>4, <1>8, CountsKept
<1>10. NoneStranded'
  <2> SUFFICES ASSUME NEW r \in Requests \ excused', Pending(r)'
               PROVE  /\ \A l \in Locations : Touches(r, l)' => open[l]
                      /\ \A x \in items[r] : registered[x]
    BY <1>3 DEF NoneStranded
  <2> QED BY <1>8 DEF GuardInv, NoneStranded
<1>11. TestsHold'
  BY <1>4, TestsKept
<1> QED BY <1>5, <1>6, <1>7, <1>9, <1>10, <1>11 DEF GuardInv

\* A line is added where neither the location nor the registration is closed or closing,
\* or its request is excused.
LEMMA AddItemWrites ==
  ASSUME GuardInv, NEW c \in Calls, AddItem(c)
  PROVE  GuardInv'
<1> DEFINE q == call[c].on
           x == call[c].arg
<1>1. call[c] \in LineCall /\ call[c].op = "addItem"
  BY KindOfCall DEF AddItem, At, GuardInv, KnownCalls
<1>2. q \in Requests /\ x \in Pairs /\ state[q] # "ABSENT"
      /\ (q \in Transfers => x[2] = route[q][1])
  BY <1>1 DEF LineCall, GuardInv, KnownCalls
<1>3. /\ items' = [items EXCEPT ![q] = @ \cup {x}]
      /\ excused' = IF (q \in Adjustments /\ LocationShut(c, x[2])) \/ PairShut(c, x)
                    THEN excused \cup {q} ELSE excused
      /\ UNCHANGED <<userActive, roleAt, open, registered, route, state>>
  BY DEF AddItem, registryVars
<1>4. Ends(c) /\ \A d \in Calls : call'[d] \in UserCall => ~call'[d].alone
  BY WriteEnds DEF AddItem, GuardInv
<1> HIDE DEF q, x
<1>5. items' \in [Requests -> SUBSET Pairs] /\ items'[q] = items[q] \cup {x}
      /\ \A r \in Requests : r # q => items'[r] = items[r]
  BY <1>2, <1>3 DEF GuardInv, GuardTypeOK
<1>6. GuardTypeOK'
  BY <1>2, <1>3, <1>5 DEF GuardInv, GuardTypeOK
<1>7. KnownCalls'
  BY <1>3, <1>4, CallsKept
<1>8. LinesPlaced'
  BY <1>2, <1>3, <1>5 DEF GuardInv, LinesPlaced
<1>9. ASSUME NEW r \in Requests \ excused', Pending(r)'
      PROVE  /\ r \notin excused /\ Pending(r)
             /\ \A l \in Locations : Touches(r, l)' =>
                  Touches(r, l) \/ (~LocationClosing(l) /\ open[l])
             /\ \A y \in items'[r] : y \in items[r] \/ (~PairClosing(y) /\ registered[y])
  <2>1. r \notin excused /\ Pending(r)
    BY <1>3, <1>9 DEF Pending
  <2>2. CASE r # q
    BY <1>3, <1>5, <2>1, <2>2 DEF Touches, LineLocations
  <2>3. CASE r = q
    <3>0. call[c].clear = TRUE
      BY <1>1 DEF LineCall
    <3>1. /\ q \in Adjustments => open[x[2]] /\ ~LocationClosing(x[2])
          /\ registered[x] /\ ~PairClosing(x)
      BY <1>3, <1>9, <2>3, <3>0 DEF LocationShut, PairShut
    <3>2. \A l : Touches(r, l)' => Touches(r, l) \/ (l = x[2] /\ q \in Adjustments)
      BY <1>2, <1>3, <1>5, <2>3 DEF Touches, LineLocations, Requests
    <3> QED BY <1>5, <2>1, <2>3, <3>1, <3>2
  <2> QED BY <2>2, <2>3
<1>10. CountsHold'
  BY <1>4, <1>9, CountsKept
<1>11. NoneStranded'
  <2> SUFFICES ASSUME NEW r \in Requests \ excused', Pending(r)'
               PROVE  /\ \A l \in Locations : Touches(r, l)' => open[l]
                      /\ \A y \in items'[r] : registered[y]
    BY <1>3 DEF NoneStranded
  <2> QED BY <1>9 DEF GuardInv, NoneStranded
<1>12. TestsHold'
  BY <1>4, TestsKept
<1> QED BY <1>6, <1>7, <1>8, <1>10, <1>11, <1>12 DEF GuardInv

\* An adjustment's line is moved, and the adjustment excused.
LEMMA MoveItemWrites ==
  ASSUME GuardInv, NEW c \in Calls, NEW y \in Pairs, MoveItem(c, y)
  PROVE  GuardInv'
<1> DEFINE q == call[c].on
<1>1. call[c] \in LineCall /\ call[c].op = "updateItem"
  BY KindOfCall DEF MoveItem, At, GuardInv, KnownCalls
<1>2. q \in Requests /\ state[q] # "ABSENT" /\ q \notin Transfers
  BY <1>1 DEF LineCall, GuardInv, KnownCalls
<1>3. /\ items' = [items EXCEPT ![q] = (@ \ {call[c].arg}) \cup {y}]
      /\ excused' = excused \cup {q}
      /\ UNCHANGED <<userActive, roleAt, open, registered, route, state>>
  BY DEF MoveItem, registryVars
<1>4. Ends(c) /\ \A d \in Calls : call'[d] \in UserCall => ~call'[d].alone
  BY WriteEnds DEF MoveItem, GuardInv
<1> HIDE DEF q
<1>5. items' \in [Requests -> SUBSET Pairs] /\ \A r \in Requests : r # q => items'[r] = items[r]
  BY <1>2, <1>3 DEF GuardInv, GuardTypeOK
<1>6. GuardTypeOK'
  BY <1>2, <1>3, <1>5 DEF GuardInv, GuardTypeOK
<1>7. KnownCalls'
  BY <1>3, <1>4, CallsKept
<1>8. LinesPlaced'
  BY <1>2, <1>3, <1>5 DEF GuardInv, LinesPlaced
<1>9. \A r \in Requests \ excused' :
        /\ r \notin excused /\ Pending(r)' = Pending(r) /\ items'[r] = items[r]
        /\ \A l : Touches(r, l)' = Touches(r, l)
  BY <1>3, <1>5 DEF Pending, Touches, LineLocations
<1>10. CountsHold'
  BY <1>4, <1>9, CountsKept
<1>11. NoneStranded'
  BY <1>3, <1>9 DEF GuardInv, NoneStranded
<1>12. TestsHold'
  BY <1>4, TestsKept
<1> QED BY <1>6, <1>7, <1>8, <1>10, <1>11, <1>12 DEF GuardInv

\* A step of a request: one that is over is excused when the write brings it back.
LEMMA StepWrites ==
  ASSUME GuardInv, NEW c \in Calls, TakeStep(c)
  PROVE  GuardInv'
<1> DEFINE q == call[c].on
           op == call[c].op
<1>1. call[c] \in StepCall /\ op \in Steps
  BY KindOfCall DEF TakeStep, GuardInv, KnownCalls
<1>2. q \in Requests /\ state[q] # "ABSENT"
  BY <1>1 DEF StepCall, GuardInv, KnownCalls
<1>3. UNCHANGED <<userActive, roleAt, open, registered, route, items>>
  BY DEF TakeStep, registryVars
<1>4. \/ /\ state' = [state EXCEPT ![q] = Outcome(op)]
         /\ excused' = IF ~Pending(q) THEN excused \cup {q} ELSE excused
         /\ ReturnWriting(c)
      \/ UNCHANGED <<state, excused>> /\ Return(c)
  BY DEF TakeStep
<1>5. Outcome(op) \in States \ {"ABSENT"}
  BY <1>1 DEF Outcome, Steps, States, TerminalStates, PendingStates
<1>6. Ends(c)
  BY <1>4, ReturnEnds, WriteEnds DEF GuardInv
<1> HIDE DEF q, op
<1>7. GuardTypeOK'
  BY <1>2, <1>3, <1>4, <1>5 DEF GuardInv, GuardTypeOK
<1>8. \A r \in Requests : r # q => state'[r] = state[r]
  BY <1>4 DEF GuardInv, GuardTypeOK
<1>9. \A r \in Requests : state'[r] = "ABSENT" <=> state[r] = "ABSENT"
  BY <1>2, <1>4, <1>5, <1>8 DEF GuardInv, GuardTypeOK
<1>10. KnownCalls'
  BY <1>3, <1>6, <1>9, CallsKept
<1>11. LinesPlaced'
  BY <1>3, <1>9 DEF GuardInv, LinesPlaced
<1>12. \A r \in Requests \ excused' :
        /\ r \notin excused /\ (Pending(r)' => Pending(r))
        /\ \A l : Touches(r, l)' = Touches(r, l)
  BY <1>3, <1>4, <1>8 DEF Pending, Touches, LineLocations
<1>13. CountsHold'
  BY <1>3, <1>6, <1>12, CountsKept
<1>14. NoneStranded'
  BY <1>3, <1>12 DEF GuardInv, NoneStranded
<1>15. TestsHold'
  BY <1>3, <1>4, <1>6, WriteEnds, TestsKept DEF GuardInv
<1> QED BY <1>7, <1>10, <1>11, <1>13, <1>14, <1>15 DEF GuardInv

\* New roles of a user: every call that tests users is disturbed.
LEMMA RolesReplaced ==
  ASSUME GuardInv, NEW u \in Users, NEW as \in Assignments, ReplaceRoles(u, as)
  PROVE  GuardInv'
<1>1. roleAt' = [roleAt EXCEPT ![u] = as]
      /\ UNCHANGED <<userActive, open, registered, state, route, items, excused>>
  BY DEF ReplaceRoles, workVars
<1> DEFINE after(d) == IF call[d] # Quiet /\ call[d].op = "toggleUser"
                       THEN [call[d] EXCEPT !.alone = FALSE] ELSE call[d]
<1>2. call' = [d \in Calls |-> after(d)] /\ \A d \in Calls : call'[d] = after(d)
  BY DEF ReplaceRoles
<1>3. \A k \in UserCall : [k EXCEPT !.alone = FALSE] \in UserCall
                          /\ ~[k EXCEPT !.alone = FALSE].alone
  BY DEF UserCall
<1>4. ASSUME NEW d \in Calls
      PROVE  \/ call[d] \notin UserCall /\ after(d) = call[d]
             \/ call[d] \in UserCall /\ after(d) \in UserCall /\ ~after(d).alone
  <2>1. CASE call[d] \in UserCall
    BY <2>1, <1>3, CallKinds DEF AnyCall
  <2>2. CASE call[d] \notin UserCall
    BY <2>2, KindOfCall DEF GuardInv, KnownCalls
  <2> QED BY <2>1, <2>2
<1> HIDE DEF after
<1>5. \A d \in Calls :
        \/ call[d] \notin UserCall /\ call'[d] = call[d]
        \/ call[d] \in UserCall /\ call'[d] \in UserCall /\ ~call'[d].alone
  BY <1>2, <1>4
<1>6. \A k \in UserCall : k \notin LocationCall \cup PairCall \cup WorkCall
  BY CallKinds DEF WorkCall, Steps
<1>7. call' \in [Calls -> AnyCall \cup {Quiet}]
  <2>1. \A d \in Calls : after(d) \in AnyCall \cup {Quiet}
    BY <1>2, <1>5 DEF AnyCall, GuardInv, KnownCalls
  <2> QED BY <1>2, <2>1
<1>8. GuardTypeOK'
  BY <1>1 DEF GuardInv, GuardTypeOK
<1>9. \A d \in Calls : call'[d] \in LocationCall \cup PairCall \cup WorkCall => call'[d] = call[d]
  BY <1>5, <1>6
<1>10. KnownCalls'
  <2>1. ASSUME NEW d \in Calls
        PROVE  /\ call'[d] \in CreateCall => state'[call'[d].on] = "ABSENT"
               /\ call'[d] \in LineCall \cup StepCall => state'[call'[d].on] # "ABSENT"
               /\ call'[d] \in LineCall /\ call'[d].on \in Transfers
                    => call'[d].op = "addItem" /\ call'[d].arg[2] = route'[call'[d].on][1]
    BY <1>1, <1>9 DEF GuardInv, KnownCalls, WorkCall
  <2>2. \A d, e \in Calls : call'[d] \in CreateCall /\ call'[e] \in CreateCall /\ d # e
                              => call'[d].on # call'[e].on
    BY <1>9 DEF GuardInv, KnownCalls, WorkCall
  <2> QED BY <1>7, <2>1, <2>2 DEF KnownCalls
<1>11. LinesPlaced'
  BY <1>1 DEF GuardInv, LinesPlaced
<1>12. \A q : Pending(q)' = Pending(q) /\ \A l : Touches(q, l)' = Touches(q, l)
  BY <1>1 DEF Pending, Touches, LineLocations
<1>13. CountsHold'
  BY <1>1, <1>9, <1>12 DEF GuardInv, CountsHold
<1>14. NoneStranded'
  BY <1>1, <1>12 DEF GuardInv, NoneStranded
<1>15. TestsHold'
  BY <1>5 DEF TestsHold
<1> QED BY <1>8, <1>10, <1>11, <1>13, <1>14, <1>15 DEF GuardInv

\* Every step of the administrators and of the requests keeps the invariant.
LEMMA GuardInvNext == GuardInv /\ [GuardNext]_guardVars => GuardInv'
<1> SUFFICES ASSUME GuardInv, [GuardNext]_guardVars
             PROVE  GuardInv'
  OBVIOUS
<1>1. ASSUME NEW c \in Calls, AdminNext(c)
      PROVE  GuardInv'
  BY <1>1, TestsBegin, SwitchWrites DEF AdminNext
<1>2. ASSUME NEW c \in Calls, WorkNext(c)
      PROVE  GuardInv'
  <2>1. CASE call[c] = Quiet /\
             (\/ \E q \in Transfers : BeginTransfer(c, q)
              \/ \E q \in Adjustments : BeginAdjustment(c, q)
              \/ \E q \in Requests, x \in Pairs : BeginAddItem(c, q, x) \/ BeginMoveItem(c, q, x)
              \/ \E q \in Requests, op \in Steps : BeginStep(c, q, op))
    BY <2>1, WorkBegins
  <2>2. CASE Insert(c)    BY <2>2, InsertWrites
  <2>3. CASE AddItem(c)   BY <2>3, AddItemWrites
  <2>4. CASE \E y \in Pairs : MoveItem(c, y)  BY <2>4, MoveItemWrites
  <2>5. CASE TakeStep(c)  BY <2>5, StepWrites
  <2> QED BY <1>2, <2>1, <2>2, <2>3, <2>4, <2>5 DEF WorkNext
<1>3. ASSUME NEW u \in Users, NEW as \in Assignments, ReplaceRoles(u, as)
      PROVE  GuardInv'
  BY <1>3, RolesReplaced
<1>4. CASE UNCHANGED guardVars
  <2>1. UNCHANGED <<userActive, roleAt, open, registered, state, route, items, excused, call>>
    BY <1>4 DEF guardVars, registryVars, workVars
  <2>2. GuardTypeOK' /\ KnownCalls' /\ LinesPlaced'
    BY <2>1 DEF GuardInv, GuardTypeOK, KnownCalls, LinesPlaced
  <2>3. \A q : /\ Pending(q)' = Pending(q) /\ \A l : Touches(q, l)' = Touches(q, l)
               /\ EligibleFor(q, state[q])' = EligibleFor(q, state[q])
    BY <2>1 DEF Pending, Touches, LineLocations, EligibleFor, TransferEligible, AdjustmentEligible
  <2> QED BY <2>1, <2>2, <2>3 DEF GuardInv, CountsHold, NoneStranded, TestsHold
<1> QED BY <1>1, <1>2, <1>3, <1>4 DEF GuardNext

\* Theorem: a pending request that is not excused names no closed location and no closed
\* registration, however the administrators' tests and writes and the requests' interleave.
THEOREM NothingStranded == GuardSpec => []NoneStranded
<1>1. GuardInv => NoneStranded
  BY DEF GuardInv
<1> QED BY <1>1, GuardInvInit, GuardInvNext, PTL DEF GuardSpec

\* Theorem: the tables of roles, locations, registrations and requests keep their shape.
THEOREM GuardsTyped == GuardSpec => []GuardTypeOK
<1>1. GuardInv => GuardTypeOK
  BY DEF GuardInv
<1> QED BY <1>1, GuardInvInit, GuardInvNext, PTL DEF GuardSpec

\* Theorem: toggleActive deactivates nobody a request under way waits for, unless another
\* call wrote since it tested.
THEOREM DeactivationSafe == GuardSpec => DeactivatedNotNeeded
<1> DEFINE Safe == \A c \in Calls :
             (At(c, "toggleUser", "tested") /\ ToggleUser(c) /\ ~call[c].active /\ call[c].alone)
               => \A q \in Requests : call[c].on \notin EligibleFor(q, state[q])
<1>1. GuardInv => Safe
  <2> SUFFICES ASSUME GuardInv, NEW c \in Calls, At(c, "toggleUser", "tested"), ~call[c].active,
                      call[c].alone, NEW q \in Requests
               PROVE  call[c].on \notin EligibleFor(q, state[q])
    OBVIOUS
  <2>1. call[c] \in UserCall
    BY KindOfCall DEF At, GuardInv, KnownCalls
  <2> QED BY <2>1 DEF GuardInv, TestsHold
<1>2. GuardInv /\ [GuardNext]_guardVars => [Safe]_guardVars
  BY <1>1
<1> QED BY <1>2, GuardInvInit, GuardInvNext, PTL DEF GuardSpec, DeactivatedNotNeeded

\* What the readiness of an end says of its users: an active one with the role.
LEMMA ReadyGivesUsers ==
  ASSUME NEW q \in Transfers, ~Warns(q)
  PROVE  /\ \E u \in Users : userActive[u] /\ IsManager(u, route[q][1])
         /\ \E u \in Users : /\ userActive[u] /\ HasAccess(u, route[q][2])
                             /\ roleAt[u][route[q][2]] # "NONE"
<1> USE GuardsAssumption DEF RoleOf, HasAccess, IsManager
<1>1. PICK u \in Users : userActive[u] /\ roleAt[u][route[q][1]] = "MANAGER"
  BY DEF Warns, OutboundReady, HasRole
<1>2. PICK v \in Users : userActive[v] /\ roleAt[v][route[q][2]] \in {"OPERATOR", "MANAGER"}
  BY DEF Warns, InboundReady, HasRole
<1>3. u # Admin /\ v # Admin
  OBVIOUS
<1> QED BY <1>1, <1>2, <1>3

\* Theorem: where the readiness of both ends promises users, an active one can take the
\* transfer's next step.
THEOREM ReadinessKept == GuardSpec => []ReadyMeansServed
<1>1. ReadyMeansServed
  <2> SUFFICES ASSUME NEW q \in Transfers, items[q] # {}, ~Warns(q),
                      AllOpen({route[q][1], route[q][2]})
               PROVE  /\ state[q] = "SUBMITTED" => Served(MayApproveOrigin, q)
                      /\ state[q] = "ORIGIN_MANAGER_APPROVED" => Served(MayApproveDestination, q)
                      /\ state[q] = "READY_TO_FINALIZE"
                           /\ (\A x \in items[q] : registered[<<x[1], route[q][2]>>])
                             => Served(MayFinalize, q)
    BY DEF ReadyMeansServed
  <2>1. PICK u \in Users : userActive[u] /\ IsManager(u, route[q][1])
    BY ReadyGivesUsers
  <2>2. PICK v \in Users : /\ userActive[v] /\ HasAccess(v, route[q][2])
                           /\ roleAt[v][route[q][2]] # "NONE"
    BY ReadyGivesUsers
  <2>3. open[route[q][1]] /\ open[route[q][2]]
    BY DEF AllOpen
  <2>4. state[q] = "SUBMITTED" => MayApproveOrigin(u, q)
    BY <2>1, <2>3 DEF MayApproveOrigin
  <2>5. state[q] = "ORIGIN_MANAGER_APPROVED" => MayApproveDestination(v, q)
    BY <2>2, <2>3 DEF MayApproveDestination
  <2>6. ASSUME state[q] = "READY_TO_FINALIZE",
               \A x \in items[q] : registered[<<x[1], route[q][2]>>]
        PROVE  MayFinalize(v, q)
    <3>1. v \in EligibleFor(q, state[q])
      BY <2>2, <2>6 DEF EligibleFor, TransferEligible
    <3> QED BY <2>2, <2>6, <3>1 DEF MayFinalize
  <2> QED BY <2>1, <2>2, <2>4, <2>5, <2>6 DEF Served
<1> QED BY <1>1, PTL

-----------------------------------------------------------------------------
(* Master data. *)

Edit == [row : Entries, key : Keys]

\* What a call goes on to write is a row and a key; where the column has a unique index,
\* a key is a row's alone.
DataInv ==
  /\ DataTypeOK
  /\ edit \in [Editors -> Edit \cup {NoEdit}]
  /\ KeysIdentify

\* The table starts empty.
LEMMA DataInvInit == DataInit => DataInv
  BY DEF DataInit, DataInv, DataTypeOK, KeysIdentify, LookupRefuses, Rows

\* Whatever was tested, the write is refused where the key has been taken meanwhile.
LEMMA DataInvNext == DataInv /\ [DataNext]_dataVars => DataInv'
<1> SUFFICES ASSUME DataInv, [DataNext]_dataVars
             PROVE  DataInv'
  OBVIOUS
<1>1. ASSUME NEW c \in Editors, NEW e \in Entries, NEW k \in Keys, Write(c, e, k)
      PROVE  DataInv'
  <2>1. [row |-> e, key |-> k] \in Edit
    BY DEF Edit
  <2> QED BY <1>1, <2>1 DEF Write, DataInv, DataTypeOK, KeysIdentify, LookupRefuses, Rows
<1>2. ASSUME NEW c \in Editors, Store(c)
      PROVE  DataInv'
  <2> DEFINE e == edit[c].row
             k == edit[c].key
  <2>1. e \in Entries /\ k \in Keys /\ k # NoKey
    BY <1>2, MasterDataAssumption DEF Store, DataInv, Edit
  <2>2. /\ key' = IF Unique(table) /\ Taken(k, e) THEN key ELSE [key EXCEPT ![e] = k]
        /\ edit' = [edit EXCEPT ![c] = NoEdit]
        /\ table' = table
    BY <1>2 DEF Store
  <2> HIDE DEF e, k
  <2>3. DataTypeOK' /\ (edit \in [Editors -> Edit \cup {NoEdit}])'
    BY <2>1, <2>2 DEF DataInv, DataTypeOK
  <2>4. KeysIdentify'
    <3> SUFFICES ASSUME table # "vendor", NEW f \in Entries, NEW g \in Entries, f # g,
                        key'[f] = key'[g], key'[f] # NoKey
                 PROVE  FALSE
      BY <2>2 DEF KeysIdentify, LookupRefuses, Rows
    <3>1. ~(key' = key)
      BY DEF DataInv, KeysIdentify, LookupRefuses, Rows
    <3>2. ~Taken(k, e) /\ \A h \in Entries : key'[h] = IF h = e THEN k ELSE key[h]
      BY <2>2, <3>1 DEF Unique, DataInv, DataTypeOK
    <3> QED BY <2>1, <3>2 DEF Taken, Rows, DataInv, KeysIdentify, LookupRefuses
  <2> QED BY <2>3, <2>4 DEF DataInv
<1>3. CASE UNCHANGED dataVars
  BY <1>3 DEF dataVars, DataInv, DataTypeOK, KeysIdentify, LookupRefuses, Rows
<1>4. ASSUME NEW c \in Editors, NEW e \in Entries, NEW k \in Keys,
             \/ CreateCategory(c, e, k) \/ UpdateCategory(c, e, k)
             \/ CreateVendor(c, e, k) \/ UpdateVendor(c, e, k)
             \/ CreateUom(c, e, k)
             \/ CreateUser(c, e, k) \/ UpdateUser(c, e, k)
      PROVE  DataInv'
  BY <1>1, <1>4 DEF CreateCategory, UpdateCategory, CreateVendor, UpdateVendor, CreateUom,
                    CreateUser, UpdateUser
<1> QED BY <1>2, <1>3, <1>4 DEF DataNext

\* Theorem: the key of a category, a unit or a user identifies its row, however many calls
\* test and write at once.
THEOREM KeysCorrect == DataSpec => []KeysIdentify
<1>1. DataInv => KeysIdentify
  BY DEF DataInv
<1> QED BY <1>1, DataInvInit, DataInvNext, PTL DEF DataSpec

-----------------------------------------------------------------------------
(* The shapes of the numbers and of the matrix. *)

\* Theorem: no number exceeds the requests there can be by more than the one a create counts
\* past them, and no create tries more often than it may.
THEOREM NumbersTyped == NumbersSpec => []NumbersTypeOK
<1> DEFINE n == Cardinality(Drafts)
<1>1. n \in Nat
  BY FS_CardinalityType, NumbersAssumption
<1>2. Cardinality(InUse) \in Nat /\ Cardinality(InUse) <= n
  BY FS_Subset, FS_CardinalityType, NumbersAssumption DEF InUse
<1>3. NumbersInit => NumbersTypeOK
  <2> HIDE DEF n
  <2>1. 0 \in 0 .. n + 1 /\ 0 \in 0 .. Attempts - 1
    BY <1>1, NumbersAssumption
  <2>2. Resting \in [tried : 0 .. Attempts - 1, next : 0 .. n + 1]
    BY <2>1 DEF Resting
  <2>3. ASSUME NumbersInit
        PROVE  /\ number \in [Drafts -> 0 .. n + 1]
               /\ creating \in [Creators -> [tried : 0 .. Attempts - 1, next : 0 .. n + 1]]
               /\ deleted \in BOOLEAN /\ gaveUp \in BOOLEAN
    BY <2>1, <2>2, <2>3 DEF NumbersInit
  <2> QED BY <2>3 DEF NumbersTypeOK, n
<1>4. ASSUME NumbersTypeOK, [NumbersNext]_numberVars
      PROVE  NumbersTypeOK'
  <2> DEFINE Tries == [tried : 0 .. Attempts - 1, next : 0 .. n + 1]
  <2>1. /\ number \in [Drafts -> 0 .. n + 1] /\ creating \in [Creators -> Tries]
        /\ deleted \in BOOLEAN /\ gaveUp \in BOOLEAN
    BY <1>4 DEF NumbersTypeOK
  <2>2. SUFFICES /\ number' \in [Drafts -> 0 .. n + 1] /\ creating' \in [Creators -> Tries]
                 /\ deleted' \in BOOLEAN /\ gaveUp' \in BOOLEAN
    BY DEF NumbersTypeOK
  <2>3. Resting \in Tries
    <3> HIDE DEF n
    <3>1. 0 \in 0 .. n + 1 /\ 0 \in 0 .. Attempts - 1
      BY <1>1, NumbersAssumption
    <3> QED BY <3>1 DEF Resting
  <2>4. ASSUME NEW c \in Creators, Count(c)
        PROVE  creating' \in [Creators -> Tries]
    <3>1. Cardinality(InUse) + 1 \in 0 .. n + 1
      <4> HIDE DEF n
      <4> QED BY <1>1, <1>2
    <3>2. PICK m : m = Cardinality(InUse) + 1
      OBVIOUS
    <3>3. creating' = [creating EXCEPT ![c].next = m] /\ m \in 0 .. n + 1
      BY <2>4, <3>1, <3>2 DEF Count
    <3> HIDE DEF n
    <3> QED BY <2>1, <3>3
  <2>5. ASSUME NEW c \in Creators, NEW r \in Drafts, InsertNumbered(c, r)
        PROVE  /\ number' \in [Drafts -> 0 .. n + 1] /\ creating' \in [Creators -> Tries]
               /\ gaveUp' \in BOOLEAN
    <3> HIDE DEF n
    <3>1. creating[c].tried \in 0 .. Attempts - 1 /\ creating[c].next \in 0 .. n + 1
      BY <2>1
    <3>2. ASSUME MayRetry(creating[c].tried)
          PROVE  [tried |-> creating[c].tried + 1, next |-> 0] \in Tries
      <4>1. creating[c].tried + 1 \in 0 .. Attempts - 1 /\ 0 \in 0 .. n + 1
        BY <1>1, <3>1, <3>2, NumbersAssumption DEF MayRetry
      <4> QED BY <4>1
    <3> HIDE DEF Tries
    <3>3. number' \in [Drafts -> 0 .. n + 1]
      BY <2>1, <2>5, <3>1 DEF InsertNumbered
    <3>4. creating' \in [Creators -> Tries]
      BY <2>1, <2>3, <2>5, <3>2 DEF InsertNumbered
    <3>5. gaveUp' \in BOOLEAN
      BY <2>1, <2>5 DEF InsertNumbered
    <3> QED BY <3>3, <3>4, <3>5
  <2>6. ASSUME NEW r \in Drafts, DeleteNumbered(r)
        PROVE  number' \in [Drafts -> 0 .. n + 1]
    <3> HIDE DEF n
    <3>1. 0 \in 0 .. n + 1
      BY <1>1
    <3> QED BY <2>1, <2>6, <3>1 DEF DeleteNumbered
  <2> HIDE DEF n, Tries
  <2>7. CASE UNCHANGED numberVars
    BY <2>1, <2>7 DEF numberVars
  <2> QED BY <1>4, <2>1, <2>4, <2>5, <2>6, <2>7 DEF NumbersNext, Count, InsertNumbered, DeleteNumbered
<1> QED BY <1>3, <1>4, PTL DEF NumbersSpec

\* What a creating transaction inserts is of a product that exists by then and of locations
\* it has read, and the other way round.
MatrixShape ==
  /\ retired \subseteq Stocked
  /\ pairs \subseteq Stocked \X site
  /\ overlap \subseteq Wares \X Sites
  /\ \A c \in Workers : /\ Creates(c) => job[c].seen \subseteq site
                        /\ Opens(c) => job[c].seen \subseteq Stocked

\* Products and locations only come, so that what was read stays true.
LEMMA ShapeKept ==
  ASSUME MatrixInv, MatrixShape, NEW c \in Workers, job' = [job EXCEPT ![c] = Idle],
         UNCHANGED <<retired, overlap>>, Stocked \subseteq Stocked', site \subseteq site',
         pairs' \subseteq Stocked' \X site'
  PROVE  MatrixShape'
<1>1. \A d \in Workers : job'[d] = IF d = c THEN Idle ELSE job[d]
  BY DEF MatrixInv, JobsOK
<1>2. ASSUME NEW d \in Workers
      PROVE  /\ Creates(d)' => job'[d].seen \subseteq site'
             /\ Opens(d)' => job'[d].seen \subseteq Stocked'
  <2>1. (Creates(d)' => Creates(d) /\ job'[d] = job[d]) /\ (Opens(d)' => Opens(d) /\ job'[d] = job[d])
    BY <1>1 DEF Creates, Opens, Doing
  <2> QED BY <2>1 DEF MatrixShape
<1> QED BY <1>2 DEF MatrixShape

\* A call that begins or goes on, and has read what is there.
LEMMA ShapeOpened ==
  ASSUME MatrixInv, MatrixShape, NEW c \in Workers, NEW j, job' = [job EXCEPT ![c] = j],
         UNCHANGED <<sku, retired, site, pairs>>, overlap' \subseteq Wares \X Sites,
         j.op = "product" /\ j.pc = "inserted" => j.seen \subseteq site,
         j.op = "site" => j.seen \subseteq Stocked
  PROVE  MatrixShape'
<1>1. \A d \in Workers : job'[d] = IF d = c THEN j ELSE job[d]
  BY DEF MatrixInv, JobsOK
<1>2. Stocked' = Stocked
  BY DEF Stocked
<1>3. ASSUME NEW d \in Workers
      PROVE  /\ Creates(d)' => job'[d].seen \subseteq site'
             /\ Opens(d)' => job'[d].seen \subseteq Stocked'
  <2>1. CASE d = c
    BY <1>1, <1>2, <2>1 DEF Creates, Opens, Doing
  <2>2. CASE d # c
    <3>1. (Creates(d)' => Creates(d)) /\ (Opens(d)' => Opens(d)) /\ job'[d] = job[d]
      BY <1>1, <2>2 DEF Creates, Opens, Doing
    <3> QED BY <1>2, <3>1 DEF MatrixShape
  <2> QED BY <2>1, <2>2
<1> QED BY <1>2, <1>3 DEF MatrixShape

\* Every operation on products and locations keeps the shape of the matrix.
LEMMA MatrixShapeNext == MatrixInv /\ MatrixShape /\ [MatrixNext]_matrixVars => MatrixShape'
<1> SUFFICES ASSUME MatrixInv, MatrixShape, [MatrixNext]_matrixVars
             PROVE  MatrixShape'
  OBVIOUS
<1>0. ASSUME NEW c \in Workers, job' = [job EXCEPT ![c] = Idle],
             UNCHANGED <<sku, retired, site, pairs, overlap>>
      PROVE  MatrixShape'
  <2>1. Stocked' = Stocked
    BY <1>0 DEF Stocked
  <2>2. pairs' \subseteq Stocked' \X site'
    BY <1>0, <2>1 DEF MatrixShape
  <2> QED BY <1>0, <2>1, <2>2, ShapeKept
<1>1. ASSUME UNCHANGED <<sku, site, job, overlap>>, retired' \subseteq Stocked, pairs' \subseteq Stocked \X site
      PROVE  MatrixShape'
  BY <1>1 DEF MatrixShape, Stocked, Doing, Creates, Opens
<1>2. CASE UNCHANGED matrixVars
  BY <1>1, <1>2 DEF matrixVars, MatrixShape
<1>3. ASSUME NEW sheet \in Sheets, StartUpload(sheet)
      PROVE  MatrixShape'
  BY <1>1, <1>3 DEF StartUpload, MatrixShape
<1>4. CASE FinishUpload
  BY <1>1, <1>4 DEF FinishUpload, MatrixShape
<1>5. ASSUME NEW c \in Workers, NEW p \in Wares, NEW s \in Skus,
             TestSku(c, p, s) \/ BeginRenameSku(c, p, s)
      PROVE  MatrixShape'
  <2>1. CASE job' = [job EXCEPT ![c] = Idle]
    BY <1>0, <1>5, <2>1 DEF TestSku, BeginRenameSku
  <2>2. ASSUME NEW o \in {"product", "rename"},
               job' = [job EXCEPT ![c] = [op |-> o, pc |-> "tested", id |-> p, sku |-> s, seen |-> {}]]
        PROVE  MatrixShape'
    <3> DEFINE j == [op |-> o, pc |-> "tested", id |-> p, sku |-> s, seen |-> {}]
    <3>1. j.pc = "tested" /\ j.op # "site"
      OBVIOUS
    <3>2. UNCHANGED <<sku, retired, site, pairs>> /\ overlap' \subseteq Wares \X Sites
      BY <1>5 DEF TestSku, BeginRenameSku, MatrixShape
    <3>3. job' = [job EXCEPT ![c] = j]
      BY <2>2
    <3> HIDE DEF j
    <3> QED BY <3>1, <3>2, <3>3, ShapeOpened
  <2> QED BY <1>5, <2>1, <2>2 DEF TestSku, BeginRenameSku, Answer
<1>6. ASSUME NEW c \in Workers, InsertProduct(c)
      PROVE  MatrixShape'
  <2>1. CASE job' = [job EXCEPT ![c] = Idle] /\ UNCHANGED overlap
    BY <1>0, <1>6, <2>1 DEF InsertProduct
  <2>2. CASE /\ job' = [job EXCEPT ![c].pc = "inserted", ![c].seen = site]
             /\ overlap' = overlap \cup CrossedBy(job[c].id)
    <3> DEFINE j == [job[c] EXCEPT !.pc = "inserted", !.seen = site]
    <3>1. job[c] \in Job /\ job[c].op = "product" /\ job[c].id \in Wares
      BY <1>6 DEF InsertProduct, Doing, MatrixInv, JobsOK
    <3>2. j.seen = site /\ j.op = "product"
      BY <3>1 DEF Job
    <3>3. job' = [job EXCEPT ![c] = j] /\ UNCHANGED <<sku, retired, site, pairs>>
      BY <1>6, <2>2 DEF InsertProduct
    <3>4. \A d \in Workers : Doing(d, "site", "inserted") => job[d].id \in Sites
      BY DEF Doing, MatrixInv, JobsOK
    <3>5. CrossedBy(job[c].id) \subseteq Wares \X Sites
      BY <3>1, <3>4 DEF CrossedBy
    <3>6. overlap' \subseteq Wares \X Sites
      BY <2>2, <3>5 DEF MatrixShape
    <3> HIDE DEF j
    <3> QED BY <3>2, <3>3, <3>6, ShapeOpened
  <2> QED BY <1>6, <2>1, <2>2 DEF InsertProduct, Answer
<1>7. ASSUME NEW c \in Workers, NEW l \in Sites, InsertSite(c, l)
      PROVE  MatrixShape'
  <2> DEFINE j == [op |-> "site", pc |-> "inserted", id |-> l, sku |-> NoSku, seen |-> Stocked]
  <2>1. job' = [job EXCEPT ![c] = j] /\ UNCHANGED <<sku, retired, site, pairs>>
    BY <1>7 DEF InsertSite
  <2>2. \A d \in Workers : Doing(d, "product", "inserted") => job[d].id \in Wares
    BY DEF Doing, MatrixInv, JobsOK
  <2>3. overlap' \subseteq Wares \X Sites
    BY <1>7, <2>2 DEF InsertSite, MatrixShape
  <2>4. j.op = "site" /\ j.seen = Stocked
    OBVIOUS
  <2> HIDE DEF j
  <2> QED BY <2>1, <2>3, <2>4, ShapeOpened
<1>8. ASSUME NEW c \in Workers, CommitProduct(c)
      PROVE  MatrixShape'
  <2>1. PICK p : p = job[c].id
    OBVIOUS
  <2>2. /\ Creates(c) /\ p \in Wares /\ job[c].sku \in Skus
        /\ sku' = [sku EXCEPT ![p] = job[c].sku]
        /\ pairs' = pairs \cup ({p} \X job[c].seen)
        /\ job' = [job EXCEPT ![c] = Idle]
        /\ UNCHANGED <<site, overlap, retired>>
    BY <1>8, <2>1 DEF MatrixInv, JobsOK, CommitProduct, Backfill, Answer, Creates, Doing
  <2>3. Stocked' = Stocked \cup {p}
    BY <2>2, MatrixAssumption DEF Stocked, MatrixInv
  <2>4. pairs' \subseteq Stocked' \X site'
    BY <2>2, <2>3 DEF MatrixShape
  <2> QED BY <2>2, <2>3, <2>4, ShapeKept
<1>9. ASSUME NEW c \in Workers, CommitSite(c)
      PROVE  MatrixShape'
  <2>1. PICK l : l = job[c].id
    OBVIOUS
  <2>2. /\ Opens(c)
        /\ site' = site \cup {l}
        /\ pairs' = pairs \cup (job[c].seen \X {l})
        /\ job' = [job EXCEPT ![c] = Idle]
        /\ UNCHANGED <<sku, overlap, retired>>
    BY <1>9, <2>1 DEF MatrixInv, JobsOK, CommitSite, Backfill, Answer, Opens, Doing
  <2>3. Stocked' = Stocked
    BY <2>2 DEF Stocked
  <2>4. pairs' \subseteq Stocked' \X site'
    BY <2>2, <2>3 DEF MatrixShape
  <2> QED BY <2>2, <2>3, <2>4, ShapeKept
<1>10. ASSUME NEW c \in Workers, RenameSku(c)
       PROVE  MatrixShape'
  <2>1. /\ job[c].id \in Stocked /\ job[c].sku \in Skus
        /\ sku' \in {sku, [sku EXCEPT ![job[c].id] = job[c].sku]}
        /\ job' = [job EXCEPT ![c] = Idle]
        /\ UNCHANGED <<site, pairs, overlap, retired>>
    BY <1>10 DEF MatrixInv, JobsOK, RenameSku, Answer, Doing
  <2>2. Stocked' = Stocked
    BY <2>1, MatrixAssumption DEF Stocked, MatrixInv
  <2>3. pairs' \subseteq Stocked' \X site'
    BY <2>1, <2>2 DEF MatrixShape
  <2> QED BY <2>1, <2>2, <2>3, ShapeKept
<1>11. ASSUME NEW c \in Workers, RollBack(c)
       PROVE  MatrixShape'
  BY <1>0, <1>11 DEF RollBack, Answer
<1>12. ASSUME NEW p \in Wares, Retire(p)
       PROVE  MatrixShape'
  BY <1>1, <1>12 DEF Retire, MatrixShape
<1>13. ASSUME NEW p \in Wares, NEW l \in Sites, Register(p, l)
       PROVE  MatrixShape'
  BY <1>1, <1>13 DEF Register, MatrixShape
<1> QED BY <1>2, <1>3, <1>4, <1>5, <1>6, <1>7, <1>8, <1>9, <1>10, <1>11, <1>12, <1>13
        DEF MatrixNext

\* Theorem: the matrix holds only pairs of a product and a location that exist, and only
\* products that exist are retired.
THEOREM MatrixTyped == MatrixSpec => []MatrixTypeOK
<1>1. MatrixInit => MatrixShape
  BY DEF MatrixInit, MatrixShape, Stocked, Doing, Creates, Opens
<1>2. MatrixInv /\ MatrixShape => MatrixTypeOK
  BY DEF MatrixInv, MatrixShape, MatrixTypeOK
<1> QED BY <1>1, <1>2, MatrixInvInit, MatrixInvNext, MatrixShapeNext, PTL DEF MatrixSpec

-----------------------------------------------------------------------------
(* All parts beside each other. *)

\* A behaviour of the administration is a behaviour of each of its parts.
LEMMA PartsBeside ==
  AdministrationSpec =>
    GuardSpec /\ MatrixSpec /\ NumbersSpec /\ DataSpec /\ AccountSpec /\ ListSpec
<1>1. AdministrationInit =>
        GuardInit /\ MatrixInit /\ NumbersInit /\ DataInit /\ AccountInit /\ ListInit
  BY DEF AdministrationInit
<1>2. [AdministrationNext]_administrationVars =>
        /\ [GuardNext]_guardVars /\ [MatrixNext]_matrixVars /\ [NumbersNext]_numberVars
        /\ [DataNext]_dataVars /\ [AccountNext]_accountVars /\ [ListNext]_listVars
  BY DEF AdministrationNext, administrationVars
<1> QED BY <1>1, <1>2, PTL DEF AdministrationSpec, GuardSpec, MatrixSpec, NumbersSpec, DataSpec,
                               AccountSpec, ListSpec

\* Theorem: every table, page, upload and call of the administration keeps its shape.
THEOREM AdministrationTyped == AdministrationSpec => []AdministrationTypeOK
<1>1. DataSpec => []DataTypeOK
  <2>1. DataInv => DataTypeOK
    BY DEF DataInv
  <2> QED BY <2>1, DataInvInit, DataInvNext, PTL DEF DataSpec
<1>2. AccountSpec => []AccountTypeOK
  <2>1. AccountInv => AccountTypeOK
    BY DEF AccountInv
  <2> QED BY <2>1, AccountInvInit, AccountInvNext, PTL DEF AccountSpec
<1>3. GuardTypeOK /\ MatrixTypeOK /\ NumbersTypeOK /\ DataTypeOK /\ AccountTypeOK /\ ListTypeOK
        => AdministrationTypeOK
  BY DEF AdministrationTypeOK
<1> QED BY <1>1, <1>2, <1>3, PartsBeside, GuardsTyped, MatrixTyped, NumbersTyped, ReadThroughCorrect, PTL

\* Theorem: no two requests share a number, no two products a SKU and no two rows their key,
\* in the administration as a whole.
THEOREM IdentifiersUnique == AdministrationSpec => []IdentifiersAreUnique
<1>1. NumbersIdentify /\ SkusIdentify /\ KeysIdentify => IdentifiersAreUnique
  BY DEF IdentifiersAreUnique
<1> QED BY <1>1, PartsBeside, NumbersCorrect, SkusCorrect, KeysCorrect, PTL

\* Theorem: in the administration as a whole, deactivations strand no request, readiness is
\* kept, a bulk registration leaves and reports what it says, everyone has one role at a
\* location, and a reader of a list misses no more than was disturbed.
THEOREM AdministrationCorrect ==
  AdministrationSpec => [](/\ NoneStranded /\ ReadyMeansServed /\ MatrixComplete /\ BulkReportTruthful
                           /\ IdentifiersAreUnique /\ GivesUpOnlyWhenOutrun /\ OneRoleEach
                           /\ ReadThroughMissesFew)
  BY PartsBeside, NothingStranded, ReadinessKept, MatrixCorrect, ReportTruthful, IdentifiersUnique,
     NumbersCorrect, RolesCorrect, ReadThroughCorrect, PTL
=============================================================================
