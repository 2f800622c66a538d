--------------------------- MODULE AccountsProofs ---------------------------
(***************************************************************************)
(* The promises of Accounts, for any number of accounts, handsets,         *)
(* requests and notices: a complete erasure, a consent that is current, a  *)
(* handset that stays let go, and no ping purged uncounted.                *)
(*                                                                         *)
(* Each of them is broken, if at all, by a request that commits what it    *)
(* read before others committed.  The invariant therefore says what a      *)
(* request still knows: that the id it drew is its own, which of the       *)
(* standing consents it found, which of the old pings it counted, and that *)
(* one who wants rid of the row of a handset will remove that row.         *)
(***************************************************************************)
EXTENDS Accounts, SequenceTheorems, WellFoundedInduction, TLAPS

Erasing == {"erase pings", "erase feedback", "erase devices", "erase consents", "erase user"}
Ops == {"free", "register", "grant", "withdraw", "token", "untoken", "push", "purge", "purged"}
         \cup Tables \cup Erasing

\* The shape of a request, and what its commit will index the tables with.
Held(s) ==
  /\ DOMAIN s = {"op", "id", "nic", "handset", "row", "found", "gone"}
  /\ s.op \in Ops
  /\ s.op \in {"register", "grant", "withdraw", "token", "untoken"} \cup Tables \cup Erasing
       => s.id \in Ids
  /\ s.op = "register" => s.nic \in Nics
  /\ s.op \in {"token", "untoken", "push"} => s.handset \in Handsets
  /\ s.op \in {"token"} \cup Tables => s.row \in Rows
  /\ s.op = "token" => s.found \in Device \cup {None}
  /\ s.op = "withdraw" => s.row \in Nat
  /\ s.op \in Tables => s.found \in BOOLEAN

TablesOK ==
  /\ user \in [Ids -> Nics \cup {None}]
  /\ consent \in [Ids -> Seq(Consent)]
  /\ device \in [Handsets -> Device \cup {None}]
  /\ entries \subseteq Entry
  /\ version \in 0..MaxVersion
  /\ begun \in 0..MaxRequests
  /\ drawn \subseteq Ids
  /\ withdrawn \in [Ids -> Nat]
  /\ uncounted \subseteq Entry /\ late \subseteq Entry
  /\ letGo \in [Handsets -> SUBSET Ids]

\* What the session of a request knows, which the commits of others leave true: its
\* id is an account's, or its own to register; a withdrawal has found the records
\* that stood when it began, and a purge the old pings that were there to count.
KnowsId(s) ==
  /\ s.id \in drawn \cup {None}
  /\ s.op = "register" => ~Exists(s.id)

KnowsConsents(s) ==
  s.op = "withdraw" /\ Exists(s.id) =>
    /\ s.row <= Len(consent[s.id])
    /\ \A i \in Standing(s.id) : i <= s.row => i \in s.found

KnowsPings(s) ==
  /\ s.op = "purge" => Pings(Old(entries)) \subseteq s.found \cup late
  /\ s.op = "purged" =>
       \A e \in Entry : <<"entry", e>> \in s.gone =>
         e.old /\ (e.table = "pings" => e \in s.found \cup late)

Knows(s) == Held(s) /\ KnowsId(s) /\ KnowsConsents(s) /\ KnowsPings(s)

\* No two sessions have drawn the id that one of them registers.
IdsDistinct ==
  \A r, q \in Requests :
    request[r].op = "register" /\ q # r => request[q].id # request[r].id

DrawnBefore == \A u \in Ids : Exists(u) => u \in drawn

\* The records that stand came after the last withdrawal.
ConsentInOrder ==
  \A u \in Ids :
    /\ withdrawn[u] <= Len(consent[u])
    /\ \A i \in Standing(u) : i > withdrawn[u]

\* The account of a handset that asked to let it go is about to remove its row.
LettingGoRow(h) ==
  device[h] # None /\ device[h].user \in letGo[h] =>
    \E r \in Requests :
      /\ request[r].op = "untoken" /\ request[r].id = device[h].user
      /\ request[r].handset = h /\ request[r].found.row = device[h].row

AccountsInv ==
  /\ TablesOK
  /\ DOMAIN request = Requests
  /\ \A r \in Requests : Knows(request[r])
  /\ IdsDistinct /\ DrawnBefore
  /\ ErasureComplete
  /\ ConsentInOrder
  /\ \A h \in Handsets : LettingGoRow(h)
  /\ PurgedAreCounted

-----------------------------------------------------------------------------
(* The largest of some positions, and of two numbers.                      *)

LEMMA LargestOf ==
  ASSUME NEW n \in Nat, NEW S, S \subseteq 1..n, S # {}
  PROVE  Max(S) \in S
<1> DEFINE From == {n - x : x \in S}
<1>1. From \subseteq Nat /\ From # {}
  <2>1. PICK x : x \in S
    OBVIOUS
  <2>2. n - x \in From
    BY <2>1
  <2> QED BY <2>2
<1> DEFINE R == OpToRel(<, Nat)
<1>2. IsWellFoundedOn(R, Nat)
  BY NatLessThanWellFounded
<1>3. PICK m \in From : \A k \in From : ~(<<k, m>> \in R)
  <2> HIDE DEF From, R
  <2> QED BY <1>1, <1>2, WFMin
<1>4. \A k \in From : ~(k < m)
  <2> HIDE DEF From
  <2> QED BY <1>1, <1>3 DEF R, OpToRel
<1> HIDE DEF R
<1>5. PICK x \in S : m = n - x
  OBVIOUS
<1>6. \A y \in S : x >= y
  <2> TAKE y \in S
  <2>1. n - y \in From
    OBVIOUS
  <2> QED BY <1>4, <1>5, <2>1
<1> QED BY <1>6 DEF Max

LEMMA LargerOf ==
  ASSUME NEW a \in Nat, NEW b \in Nat
  PROVE  Max({a, b}) \in {a, b} /\ Max({a, b}) >= a /\ Max({a, b}) >= b
<1>1. \E x \in {a, b} : \A y \in {a, b} : x >= y
  <2>1. CASE a >= b
    BY <2>1
  <2>2. CASE b >= a
    BY <2>2
  <2> QED BY <2>1, <2>2
<1> QED BY <1>1 DEF Max

-----------------------------------------------------------------------------
(* What a request holds.                                                   *)

LEMMA FreeIs ==
  /\ DOMAIN Free = {"op", "id", "nic", "handset", "row", "found", "gone"}
  /\ Free.op = "free" /\ Free.id = None /\ Free.row = 0 /\ Free.found = None /\ Free.gone = {}
BY DEF Free

LEMMA FreeKnows == Knows(Free) /\ Free.op = "free" /\ Free.id = None
BY DEF Knows, Held, KnowsId, KnowsConsents, KnowsPings, Free, Ops, Tables, Erasing

LEMMA OneRequest ==
  ASSUME DOMAIN request = Requests, NEW r \in Requests, NEW held, Becomes(r, held)
  PROVE  /\ DOMAIN request' = Requests
         /\ request'[r] = held
         /\ \A q \in Requests \ {r} : request'[q] = request[q]
BY DEF Becomes

\* The account a request is of, and the handset.
LEMMA HeldIn ==
  ASSUME AccountsInv, NEW r \in Requests
  PROVE  /\ Held(request[r]) /\ Knows(request[r]) /\ TablesOK /\ DOMAIN request = Requests
         /\ request[r].op \in {"register", "grant", "withdraw", "token", "untoken"}
                                 \cup Tables \cup Erasing => request[r].id \in Ids
         /\ request[r].op \in {"token", "untoken", "push"} => request[r].handset \in Handsets
BY DEF AccountsInv, Knows, Held

\* A step that leaves the tables as they are, and of which nobody lets go.
LEMMA LetGoKept ==
  ASSUME AccountsInv, NEW r \in Requests, NEW held, Becomes(r, held),
         request[r].op # "untoken", UNCHANGED <<device, letGo>>, NEW h \in Handsets
  PROVE  LettingGoRow(h)'
<1>1. /\ request'[r] = held
      /\ \A q \in Requests \ {r} : request'[q] = request[q]
  BY OneRequest DEF AccountsInv
<1>2. LettingGoRow(h)
  BY DEF AccountsInv
<1> QED BY <1>1, <1>2 DEF LettingGoRow

LEMMA HoldStep ==
  ASSUME AccountsInv, NEW r \in Requests, NEW held, Becomes(r, held),
         UNCHANGED <<tables, version, withdrawn, uncounted, late>>,
         begun' \in 0..MaxRequests, drawn \subseteq drawn', drawn' \subseteq Ids,
         letGo' \in [Handsets -> SUBSET Ids], \A h \in Handsets : LettingGoRow(h)',
         Held(held), KnowsId(held)', KnowsConsents(held), KnowsPings(held),
         \A q \in Requests \ {r} :
           held.op = "register" \/ request[q].op = "register" => request[q].id # held.id
  PROVE  AccountsInv'
<1>1. /\ DOMAIN request' = Requests
      /\ request'[r] = held
      /\ \A q \in Requests \ {r} : request'[q] = request[q]
  BY OneRequest DEF AccountsInv
<1>2. TablesOK'
  BY DEF AccountsInv, TablesOK, tables
<1>3. Held(held)' /\ KnowsConsents(held)' /\ KnowsPings(held)'
  BY DEF tables, Held, KnowsConsents, KnowsPings, Exists, Standing
<1>4. ASSUME NEW q \in Requests \ {r}
      PROVE  Knows(request[q])'
  BY <1>1, <1>4 DEF AccountsInv, tables, Knows, Held, KnowsId, KnowsConsents, KnowsPings,
                    Exists, Standing
<1>5. \A q \in Requests : Knows(request[q])'
  BY <1>1, <1>3, <1>4 DEF Knows
<1>6. IdsDistinct'
  BY <1>1 DEF AccountsInv, IdsDistinct
<1>7. DrawnBefore'
  BY DEF AccountsInv, DrawnBefore, tables, Exists
<1>8. ErasureComplete'
  BY DEF AccountsInv, ErasureComplete, tables, Exists
<1>9. ConsentInOrder'
  BY DEF AccountsInv, ConsentInOrder, tables, Standing
<1>10. PurgedAreCounted'
  BY DEF AccountsInv, PurgedAreCounted
<1> QED BY <1>1, <1>2, <1>5, <1>6, <1>7, <1>8, <1>9, <1>10 DEF AccountsInv

-----------------------------------------------------------------------------
(* Requests begin and go on; no table changes.                             *)

\* A request of an account that is there.
LEMMA BeginAsStep ==
  ASSUME AccountsInv, NEW r \in Requests, NEW u \in Ids, NEW held,
         BeginAs(r, u, held), UNCHANGED letGo,
         Held(held), held.id = u, held.op # "register",
         KnowsConsents(held), KnowsPings(held)
  PROVE  AccountsInv'
<1>1. /\ Becomes(r, held) /\ request[r].op = "free" /\ Exists(u)
      /\ UNCHANGED <<tables, version, withdrawn, uncounted, late, letGo, drawn>>
      /\ begun' \in 0..MaxRequests
  BY AccountsAssumption DEF BeginAs, Begin, Becomes, ghosts, AccountsInv, TablesOK
<1>2. u \in drawn /\ u # None
  BY <1>1, AccountsAssumption DEF AccountsInv, DrawnBefore
<1>3. KnowsId(held)'
  BY <1>1, <1>2 DEF KnowsId
<1>4. \A q \in Requests : request[q].op = "register" => request[q].id # u
  BY <1>1 DEF AccountsInv, Knows, KnowsId
<1>5. \A h \in Handsets : LettingGoRow(h)'
  BY <1>1, LetGoKept DEF tables
<1>6. drawn \subseteq Ids /\ letGo \in [Handsets -> SUBSET Ids]
  BY DEF AccountsInv, TablesOK
<1> QED BY <1>1, <1>3, <1>4, <1>5, <1>6, HoldStep

LEMMA GrantBeginStep ==
  ASSUME AccountsInv, NEW r \in Requests, NEW u \in Ids, GrantBegin(r, u)
  PROVE  AccountsInv'
<1> DEFINE held == [Free EXCEPT !.op = "grant", !.id = u, !.found = version]
<1>1. Held(held) /\ held.id = u /\ held.op = "grant"
  BY FreeIs DEF Held, Ops, Tables, Erasing
<1>2. BeginAs(r, u, held) /\ UNCHANGED letGo
  BY DEF GrantBegin, BeginAs, ghosts
<1> HIDE DEF held
<1> QED BY <1>1, <1>2, BeginAsStep DEF KnowsConsents, KnowsPings

LEMMA WithdrawBeginStep ==
  ASSUME AccountsInv, NEW r \in Requests, NEW u \in Ids, WithdrawBegin(r, u)
  PROVE  AccountsInv'
<1> DEFINE held == [Free EXCEPT !.op = "withdraw", !.id = u, !.row = Len(consent[u]),
                                !.found = Closing(u)]
<1>1. Len(consent[u]) \in Nat
  BY LenProperties DEF AccountsInv, TablesOK
<1>2. /\ Held(held) /\ held.id = u /\ held.op = "withdraw"
      /\ held.row = Len(consent[u]) /\ held.found = Standing(u)
  BY <1>1, FreeIs DEF Held, Ops, Tables, Erasing, Closing
<1>3. BeginAs(r, u, held) /\ UNCHANGED letGo
  BY DEF WithdrawBegin, BeginAs, ghosts
<1> HIDE DEF held
<1>4. KnowsConsents(held) /\ KnowsPings(held)
  BY <1>1, <1>2 DEF KnowsConsents, KnowsPings
<1> QED BY <1>2, <1>3, <1>4, BeginAsStep

LEMMA EraseBeginStep ==
  ASSUME AccountsInv, NEW r \in Requests, NEW u \in Ids, EraseBegin(r, u)
  PROVE  AccountsInv'
<1> DEFINE held == [Free EXCEPT !.op = "erase pings", !.id = u]
<1>1. Held(held) /\ held.id = u /\ held.op = "erase pings"
  BY FreeIs DEF Held, Ops, Tables, Erasing
<1>2. BeginAs(r, u, held) /\ UNCHANGED letGo
  BY DEF EraseBegin, BeginAs, ghosts
<1> HIDE DEF held
<1> QED BY <1>1, <1>2, BeginAsStep DEF KnowsConsents, KnowsPings

\* The row that the request will make has a number that no other has.
LEMMA NextRow ==
  ASSUME AccountsInv, NEW r \in Requests, NEW held, Begin(r, held)
  PROVE  begun + 1 \in Rows
BY AccountsAssumption DEF Begin, AccountsInv, TablesOK, Rows

LEMMA TokenReadStep ==
  ASSUME AccountsInv, NEW r \in Requests, NEW u \in Ids, NEW h \in Handsets, TokenRead(r, u, h)
  PROVE  AccountsInv'
<1> DEFINE held == [Free EXCEPT !.op = "token", !.id = u, !.handset = h,
                                !.row = begun + 1, !.found = device[h]]
<1>1. BeginAs(r, u, held) /\ UNCHANGED letGo
  BY DEF TokenRead, BeginAs, ghosts
<1>2. begun + 1 \in Rows /\ device[h] \in Device \cup {None}
  <2> HIDE DEF held
  <2> QED BY <1>1, NextRow DEF BeginAs, AccountsInv, TablesOK
<1>3. Held(held) /\ held.id = u /\ held.op = "token"
  BY <1>2, FreeIs DEF Held, Ops, Tables, Erasing
<1> HIDE DEF held
<1> QED BY <1>1, <1>3, BeginAsStep DEF KnowsConsents, KnowsPings

LEMMA EntryBeginStep ==
  ASSUME AccountsInv, NEW r \in Requests, NEW u \in Ids, NEW t \in Tables, NEW old \in BOOLEAN,
         EntryBegin(r, u, t, old)
  PROVE  AccountsInv'
<1> DEFINE held == [Free EXCEPT !.op = t, !.id = u, !.row = begun + 1, !.found = old]
<1>1. BeginAs(r, u, held) /\ UNCHANGED letGo
  BY DEF EntryBegin, BeginAs, ghosts
<1>2. begun + 1 \in Rows
  <2> HIDE DEF held
  <2> QED BY <1>1, NextRow DEF BeginAs
<1>3. Held(held) /\ held.id = u /\ held.op = t
  BY <1>2, FreeIs DEF Held, Ops, Tables, Erasing
<1> HIDE DEF held
<1>4. t \notin {"register", "withdraw", "purge", "purged"}
  BY DEF Tables
<1> QED BY <1>1, <1>3, <1>4, BeginAsStep DEF KnowsConsents, KnowsPings

\* The id a registration draws is nobody's.
LEMMA RegisterReadStep ==
  ASSUME AccountsInv, NEW r \in Requests, NEW n \in Nics, NEW u \in Ids, RegisterRead(r, n, u)
  PROVE  AccountsInv'
<1> DEFINE held == [Free EXCEPT !.op = "register", !.nic = n, !.id = u]
<1>1. Held(held) /\ held.id = u /\ held.op = "register"
  BY FreeIs DEF Held, Ops, Tables, Erasing
<1>2. /\ Becomes(r, held) /\ request[r].op = "free"
      /\ UNCHANGED <<tables, version, withdrawn, uncounted, late, letGo>>
      /\ u \notin drawn /\ drawn' = drawn \cup {u} /\ begun' \in 0..MaxRequests
  BY AccountsAssumption DEF RegisterRead, Begin, Becomes, ghosts, AccountsInv, TablesOK
<1> HIDE DEF held
<1>3. KnowsId(held)'
  BY <1>1, <1>2 DEF KnowsId, AccountsInv, DrawnBefore, Exists, tables
<1>4. \A q \in Requests : request[q].id # u
  BY <1>2, AccountsAssumption DEF AccountsInv, Knows, KnowsId
<1>5. \A h \in Handsets : LettingGoRow(h)'
  BY <1>2, LetGoKept DEF tables
<1>6. drawn' \subseteq Ids /\ letGo \in [Handsets -> SUBSET Ids]
  BY <1>2 DEF AccountsInv, TablesOK
<1>7. KnowsConsents(held) /\ KnowsPings(held)
  BY <1>1 DEF KnowsConsents, KnowsPings
<1> QED BY <1>1, <1>2, <1>3, <1>4, <1>5, <1>6, <1>7, HoldStep

\* A request that is of no account, and one that goes on with its transaction.
LEMMA GoOnStep ==
  ASSUME AccountsInv, NEW r \in Requests, NEW held, Becomes(r, held),
         request[r].op # "untoken", held.op # "register",
         held.id = None \/ (held.id = request[r].id /\ request[r].op # "register"),
         UNCHANGED <<tables, version, drawn, ghosts>>, begun' \in 0..MaxRequests,
         Held(held), KnowsConsents(held), KnowsPings(held)
  PROVE  AccountsInv'
<1>1. UNCHANGED <<tables, version, withdrawn, uncounted, late, letGo, drawn>>
  BY DEF ghosts
<1>2. KnowsId(held)'
  BY <1>1 DEF KnowsId, AccountsInv, Knows
<1>3. \A q \in Requests \ {r} : request[q].op = "register" => request[q].id # held.id
  <2> TAKE q \in Requests \ {r}
  <2>1. Held(request[q])
    BY HeldIn
  <2>2. request[q].op = "register" => request[q].id \in Ids
    BY <2>1, HeldIn
  <2> QED BY <2>2, AccountsAssumption DEF AccountsInv, IdsDistinct
<1>4. \A h \in Handsets : LettingGoRow(h)'
  BY <1>1, LetGoKept DEF tables
<1>5. drawn \subseteq Ids /\ letGo \in [Handsets -> SUBSET Ids]
  BY DEF AccountsInv, TablesOK
<1> QED BY <1>1, <1>2, <1>3, <1>4, <1>5, HoldStep

LEMMA PushReadStep ==
  ASSUME AccountsInv, NEW r \in Requests, NEW h \in Handsets, PushRead(r, h)
  PROVE  AccountsInv'
<1> DEFINE held == [Free EXCEPT !.op = "push", !.handset = h, !.found = device[h]]
<1>1. Held(held) /\ held.id = None /\ held.op = "push"
  BY FreeIs DEF Held, Ops, Tables, Erasing
<1>2. /\ Becomes(r, held) /\ request[r].op = "free" /\ begun' \in 0..MaxRequests
      /\ UNCHANGED <<tables, version, drawn, ghosts>>
  BY AccountsAssumption DEF PushRead, Begin, Becomes, AccountsInv, TablesOK
<1> HIDE DEF held
<1>3. KnowsConsents(held) /\ KnowsPings(held)
  BY <1>1 DEF KnowsConsents, KnowsPings
<1> QED BY <1>1, <1>2, <1>3, GoOnStep

LEMMA CountStep ==
  ASSUME AccountsInv, NEW r \in Requests, Count(r)
  PROVE  AccountsInv'
<1> DEFINE found == {e \in Pings(entries) : e.old}
           held == [Free EXCEPT !.op = "purge", !.found = found]
<1>1. found = Pings(Old(entries))
  BY DEF Pings, Old
<1>2. /\ Becomes(r, held) /\ request[r].op = "free" /\ begun' \in 0..MaxRequests
      /\ UNCHANGED <<tables, version, drawn, ghosts>>
  BY AccountsAssumption DEF Count, Begin, Becomes, AccountsInv, TablesOK
<1> HIDE DEF found
<1>3. Held(held) /\ held.id = None /\ held.op = "purge" /\ held.found = found
  BY FreeIs DEF Held, Ops, Tables, Erasing
<1> HIDE DEF held
<1>4. KnowsConsents(held) /\ KnowsPings(held)
  BY <1>1, <1>3 DEF KnowsConsents, KnowsPings
<1> QED BY <1>2, <1>3, <1>4, GoOnStep

\* What the delete finds has been counted, or came after the count.
LEMMA PurgeStep ==
  ASSUME AccountsInv, NEW r \in Requests, Purge(r)
  PROVE  AccountsInv'
<1> DEFINE rows == {<<"entry", e>> : e \in Old(entries)}
           held == [request[r] EXCEPT !.op = "purged", !.gone = rows]
<1>1. /\ Becomes(r, held) /\ request[r].op = "purge"
      /\ UNCHANGED <<tables, version, drawn, begun, ghosts>>
  BY DEF Purge
<1>2. Held(request[r]) /\ Knows(request[r])
  BY HeldIn
<1>3. \A e : <<"entry", e>> \in rows => e \in Old(entries)
  OBVIOUS
<1> HIDE DEF rows
<1>4. /\ Held(held) /\ held.id = request[r].id /\ held.op = "purged"
      /\ held.found = request[r].found /\ held.gone = rows
  BY <1>2 DEF Held, Ops, Tables, Erasing
<1> HIDE DEF held
<1>5. KnowsConsents(held) /\ KnowsPings(held)
  BY <1>1, <1>2, <1>3, <1>4 DEF Knows, KnowsConsents, KnowsPings, Pings, Old
<1>6. begun' \in 0..MaxRequests
  BY <1>1 DEF AccountsInv, TablesOK
<1> QED BY <1>1, <1>4, <1>5, <1>6, GoOnStep

LEMMA EraseRowsStep ==
  ASSUME AccountsInv, NEW r \in Requests, EraseRows(r)
  PROVE  AccountsInv'
<1> DEFINE op == request[r].op
           gone == request[r].gone \cup Found(request[r].id, op)
           held == [request[r] EXCEPT !.op = NextErase[op], !.gone = gone]
<1>1. /\ op \in DOMAIN NextErase /\ Becomes(r, held)
      /\ UNCHANGED <<tables, version, drawn, begun, ghosts>>
  BY DEF EraseRows
<1>2. op \in Erasing /\ NextErase[op] \in Erasing
  BY <1>1 DEF NextErase, Erasing
<1>3. Held(request[r])
  BY HeldIn
<1> HIDE DEF gone
<1>4. /\ Held(held) /\ held.id = request[r].id /\ held.op \in Erasing
  BY <1>2, <1>3 DEF Held, Ops, Tables, Erasing
<1> HIDE DEF held
<1>5. KnowsConsents(held) /\ KnowsPings(held)
  BY <1>4 DEF KnowsConsents, KnowsPings, Erasing
<1>6. begun' \in 0..MaxRequests
  BY <1>1 DEF AccountsInv, TablesOK
<1>7. op \notin {"register", "untoken"} /\ held.op # "register"
  BY <1>2, <1>4 DEF Erasing
<1> QED BY <1>1, <1>4, <1>5, <1>6, <1>7, GoOnStep

-----------------------------------------------------------------------------
(* Handsets: letting go, moving and removing their rows.                   *)

LEMMA UntokenReadStep ==
  ASSUME AccountsInv, NEW r \in Requests, NEW u \in Ids, NEW h \in Handsets,
         UntokenRead(r, u, h)
  PROVE  AccountsInv'
<1> DEFINE own == device[h] # None /\ device[h].user = u
           mine == [Free EXCEPT !.op = "untoken", !.id = u, !.handset = h, !.found = device[h]]
<1>0. PICK held : held = IF own THEN mine ELSE Free
  OBVIOUS
<1>1. /\ Becomes(r, held) /\ request[r].op = "free" /\ Exists(u)
      /\ UNCHANGED <<tables, version, withdrawn, uncounted, late, drawn>>
      /\ begun' \in 0..MaxRequests
  BY <1>0, AccountsAssumption DEF UntokenRead, TokenOf, Begin, Becomes, AccountsInv, TablesOK
<1>2. letGo' = letGo \/ letGo' = [letGo EXCEPT ![h] = @ \cup {u}]
  BY DEF UntokenRead
<1>3. /\ Held(mine) /\ mine.op = "untoken" /\ mine.id = u /\ mine.handset = h
      /\ mine.found = device[h]
  BY FreeIs DEF Held, Ops, Tables, Erasing
<1>4. letGo \in [Handsets -> SUBSET Ids] /\ drawn \subseteq Ids
  BY DEF AccountsInv, TablesOK
<1>5. letGo' \in [Handsets -> SUBSET Ids]
  BY <1>2, <1>4
<1> HIDE DEF mine
<1>6. Held(held) /\ held.id \in {u, None} /\ held.op # "register"
  BY <1>0, <1>3, FreeIs, FreeKnows DEF Knows
<1>7. KnowsConsents(held) /\ KnowsPings(held)
  BY <1>0, <1>3, FreeIs DEF KnowsConsents, KnowsPings
<1>8. KnowsId(held)' /\ u # None
  <2>1. u \in drawn
    BY <1>1 DEF AccountsInv, DrawnBefore
  <2> QED BY <2>1, <1>1, <1>6, AccountsAssumption DEF KnowsId
<1>9. \A q \in Requests \ {r} : request[q].op = "register" => request[q].id # held.id
  <2> TAKE q \in Requests \ {r}
  <2>1. request[q].op = "register" => request[q].id \in Ids /\ ~Exists(request[q].id)
    BY HeldIn DEF Knows, KnowsId
  <2> QED BY <2>1, <1>1, <1>6, AccountsAssumption
<1>10. ASSUME NEW g \in Handsets, device[g] # None, device[g].user \in letGo'[g]
       PROVE  \E q \in Requests :
                /\ request'[q].op = "untoken" /\ request'[q].id = device[g].user
                /\ request'[q].handset = g /\ request'[q].found.row = device[g].row
  <2>1. /\ request'[r] = held
        /\ \A q \in Requests \ {r} : request'[q] = request[q]
    BY <1>1, OneRequest DEF AccountsInv
  <2>2. CASE device[g].user \in letGo[g]
    BY <2>1, <2>2, <1>1, <1>10 DEF AccountsInv, LettingGoRow
  <2>3. CASE device[g].user \notin letGo[g]
    <3>1. g = h /\ device[g].user = u
      BY <2>3, <1>2, <1>4, <1>10
    <3>2. held = mine
      BY <3>1, <1>0, <1>10
    <3> QED BY <2>1, <3>1, <3>2, <1>3
  <2> QED BY <2>2, <2>3
<1>11. \A g \in Handsets : LettingGoRow(g)'
  BY <1>1, <1>10 DEF LettingGoRow, tables
<1> QED BY <1>1, <1>4, <1>5, <1>6, <1>7, <1>8, <1>9, <1>11, HoldStep

\* The commit of a request: the others know what they knew if the tables, as the
\* commit leaves them, let them.
LEMMA EndStep ==
  ASSUME AccountsInv, NEW r \in Requests, Ends(r), TablesOK',
         \A q \in Requests \ {r} : \A s :
           s = request[q] => KnowsId(s)' /\ KnowsConsents(s)' /\ KnowsPings(s)',
         DrawnBefore', ErasureComplete', ConsentInOrder', PurgedAreCounted',
         \A h \in Handsets : LettingGoRow(h)'
  PROVE  AccountsInv'
<1>1. /\ DOMAIN request' = Requests
      /\ request'[r] = Free
      /\ \A q \in Requests \ {r} : request'[q] = request[q]
  BY OneRequest DEF AccountsInv, Ends
<1>2. ASSUME NEW q \in Requests \ {r}
      PROVE  Knows(request[q])'
  <2>1. PICK s : s = request[q]
    OBVIOUS
  <2>2. Held(s) /\ KnowsId(s)' /\ KnowsConsents(s)' /\ KnowsPings(s)'
    BY <2>1, HeldIn
  <2>3. Knows(s)'
    BY <2>2 DEF Knows, Held
  <2> QED BY <2>1, <2>3, <1>1
<1>3. Knows(request[r])'
  <2>1. Knows(Free)'
    BY DEF Knows, Held, KnowsId, KnowsConsents, KnowsPings, Free, Ops, Tables, Erasing
  <2> QED BY <2>1, <1>1
<1>4. IdsDistinct'
  <2>1. ASSUME NEW p \in Requests, NEW q \in Requests, request'[p].op = "register", q # p
        PROVE  request'[q].id # request'[p].id
    <3>1. p # r /\ request'[p] = request[p]
      BY <1>1, <2>1, FreeIs
    <3>2. request[p].id # None
      BY <2>1, <3>1, HeldIn, AccountsAssumption
    <3> QED BY <1>1, <2>1, <3>1, <3>2, FreeIs DEF AccountsInv, IdsDistinct
  <2> QED BY <2>1 DEF IdsDistinct
<1> QED BY <1>1, <1>2, <1>3, <1>4 DEF AccountsInv

\* What stays known while the columns it is about stay.
LEMMA StillKnown ==
  ASSUME AccountsInv, NEW q \in Requests, NEW s, s = request[q]
  PROVE  /\ UNCHANGED <<user, drawn>> => KnowsId(s)'
         /\ UNCHANGED <<user, consent>> => KnowsConsents(s)'
         /\ entries' \subseteq entries /\ late \subseteq late' => KnowsPings(s)'
<1>1. KnowsId(s) /\ KnowsConsents(s) /\ KnowsPings(s)
  BY HeldIn DEF Knows
<1>2. UNCHANGED <<user, drawn>> => KnowsId(s)'
  BY <1>1 DEF KnowsId, Exists
<1>3. UNCHANGED <<user, consent>> => KnowsConsents(s)'
  BY <1>1 DEF KnowsConsents, Exists, Standing
<1>4. entries' \subseteq entries /\ late \subseteq late' => KnowsPings(s)'
  BY <1>1 DEF KnowsPings, Pings, Old
<1> QED BY <1>2, <1>3, <1>4

\* A handset's row is moved to the account that registers it, or put there.
LEMMA TokenCommitStep ==
  ASSUME AccountsInv, NEW r \in Requests, TokenCommit(r)
  PROVE  AccountsInv'
<1>1. /\ Ends(r) /\ UNCHANGED <<user, consent, entries, version, begun, drawn>>
      /\ UNCHANGED <<withdrawn, uncounted, late>> /\ request[r].op = "token"
  BY DEF TokenCommit
<1>2. PICK u \in Ids, h \in Handsets, held \in Device \cup {None}, row \in Rows :
        u = request[r].id /\ h = request[r].handset /\ held = request[r].found
        /\ row = request[r].row
  BY <1>1, HeldIn DEF Held
<1>3. PICK new \in Device : new = [user |-> u, row |-> IF held = None THEN row ELSE held.row]
  BY DEF Device
<1>0. PICK lost \in SUBSET Ids : lost = {v \in Ids : TokenOf(v, h)}
  OBVIOUS
<1>4. \/ UNCHANGED <<device, letGo>>
      \/ /\ Exists(u) /\ new.user = u
         /\ device' = [device EXCEPT ![h] = new]
         /\ letGo' = [letGo EXCEPT ![h] = (@ \cup lost) \ {u}]
  BY <1>0, <1>2, <1>3 DEF TokenCommit, Holder
<1>5. TablesOK
  BY HeldIn
<1>6. TablesOK'
  <2>1. device' \in [Handsets -> Device \cup {None}]
    BY <1>3, <1>4, <1>5 DEF TablesOK
  <2>2. letGo' \in [Handsets -> SUBSET Ids]
    BY <1>4, <1>5 DEF TablesOK
  <2> QED BY <1>1, <1>5, <2>1, <2>2 DEF TablesOK
<1>7. DrawnBefore' /\ ConsentInOrder' /\ PurgedAreCounted'
  BY <1>1 DEF AccountsInv, DrawnBefore, Exists, ConsentInOrder, Standing, PurgedAreCounted
<1>8. ErasureComplete'
  BY <1>1, <1>4, <1>5 DEF AccountsInv, ErasureComplete, Exists, TablesOK
<1>9. ASSUME NEW g \in Handsets
      PROVE  LettingGoRow(g)'
  <2>1. \A q \in Requests \ {r} : request'[q] = request[q]
    BY <1>1, OneRequest DEF AccountsInv, Ends
  <2>2. LettingGoRow(g)
    BY DEF AccountsInv
  <2>3. CASE device'[g] = device[g] /\ letGo'[g] = letGo[g]
    BY <2>1, <2>2, <2>3, <1>1 DEF LettingGoRow
  <2>4. CASE ~(device'[g] = device[g] /\ letGo'[g] = letGo[g])
    BY <2>4, <1>4, <1>5 DEF LettingGoRow, TablesOK
  <2> QED BY <2>3, <2>4
<1> QED BY <1>1, <1>6, <1>7, <1>8, <1>9, StillKnown, EndStep

\* A row is removed by its primary key, by the one who lets go or by the prune.
LEMMA RemoveStep ==
  ASSUME AccountsInv, NEW r \in Requests, UntokenCommit(r) \/ Prune(r)
  PROVE  AccountsInv'
<1>1. /\ Ends(r) /\ UNCHANGED <<user, consent, entries, version, begun, drawn, ghosts>>
      /\ request[r].op \in {"untoken", "push"}
  BY DEF UntokenCommit, Prune
<1>2. PICK h \in Handsets : h = request[r].handset
  BY <1>1, HeldIn
<1>0. PICK held : held = request[r].found
  OBVIOUS
<1>3. /\ Removes(h, held) => device' = [device EXCEPT ![h] = None]
      /\ ~Removes(h, held) => device' = device
  BY <1>0, <1>2 DEF UntokenCommit, Prune
<1>4. TablesOK
  BY HeldIn
<1>5. TablesOK'
  <2>1. device' \in [Handsets -> Device \cup {None}]
    BY <1>3, <1>4 DEF TablesOK
  <2> QED BY <1>1, <1>4, <2>1 DEF TablesOK, ghosts
<1>6. DrawnBefore' /\ ConsentInOrder' /\ PurgedAreCounted'
  BY <1>1 DEF ghosts, AccountsInv, DrawnBefore, Exists, ConsentInOrder, Standing,
              PurgedAreCounted
<1>7. ErasureComplete'
  BY <1>1, <1>3, <1>4 DEF AccountsInv, ErasureComplete, Exists, TablesOK
<1>8. ASSUME NEW g \in Handsets
      PROVE  LettingGoRow(g)'
  <2>1. \A q \in Requests \ {r} : request'[q] = request[q]
    BY <1>1, OneRequest DEF AccountsInv, Ends
  <2>2. LettingGoRow(g) /\ letGo' = letGo
    BY <1>1 DEF AccountsInv, ghosts
  <2>3. device'[g] = device[g] \/ device'[g] = None
    BY <1>3, <1>4 DEF TablesOK
  <2>4. CASE device'[g] = device[g] /\ device[g] # None
    <3>1. ASSUME request[r].handset = g, request[r].found.row = device[g].row
          PROVE  FALSE
      BY <3>1, <2>4, <1>0, <1>2, <1>3, <1>4 DEF Removes, TablesOK
    <3> QED BY <3>1, <2>1, <2>2, <2>4 DEF LettingGoRow
  <2>5. CASE device'[g] = None
    BY <2>5 DEF LettingGoRow
  <2> QED BY <2>3, <2>4, <2>5
<1> QED BY <1>1, <1>5, <1>6, <1>7, <1>8, StillKnown, EndStep DEF ghosts

\* What a commit leaves of the handsets when it does not touch them.
LEMMA HandsetsKept ==
  ASSUME AccountsInv, NEW r \in Requests, Ends(r), request[r].op # "untoken",
         UNCHANGED <<device, letGo>>
  PROVE  \A h \in Handsets : LettingGoRow(h)'
BY LetGoKept DEF Ends

-----------------------------------------------------------------------------
(* Accounts and consents.                                                  *)

LEMMA RegisterCommitStep ==
  ASSUME AccountsInv, NEW r \in Requests, RegisterCommit(r)
  PROVE  AccountsInv'
<1>1. /\ Ends(r) /\ request[r].op = "register"
      /\ UNCHANGED <<device, entries, version, begun, drawn, withdrawn, uncounted, late, letGo>>
  BY DEF RegisterCommit, ghosts
<1>2. PICK u \in Ids, n \in Nics : u = request[r].id /\ n = request[r].nic
  BY <1>1, HeldIn DEF Held
<1>3. u \in drawn /\ ~Exists(u) /\ consent[u] = <<>> /\ n # None
  BY <1>1, <1>2, AccountsAssumption DEF AccountsInv, Knows, KnowsId, ErasureComplete
<1>4. \/ UNCHANGED <<user, consent>>
      \/ /\ user' = [user EXCEPT ![u] = n]
         /\ consent' = [consent EXCEPT ![u] = <<Placeholder>>]
  BY <1>2 DEF RegisterCommit
<1>5. TablesOK
  BY HeldIn
<1>6. /\ Placeholder \in Consent /\ <<Placeholder>> \in Seq(Consent)
      /\ Len(<<Placeholder>>) = 1 /\ DOMAIN <<Placeholder>> = 1..1
      /\ <<Placeholder>>[1].standing = FALSE
  <2>1. Placeholder \in Consent
    BY AccountsAssumption DEF Placeholder, Consent
  <2> QED BY <2>1 DEF Placeholder
<1>7. TablesOK'
  <2>1. user' \in [Ids -> Nics \cup {None}] /\ consent' \in [Ids -> Seq(Consent)]
    BY <1>4, <1>5, <1>6 DEF TablesOK
  <2> QED BY <1>1, <1>5, <2>1 DEF TablesOK
<1>8. \A v \in Ids \ {u} : user'[v] = user[v] /\ consent'[v] = consent[v]
  BY <1>4, <1>5 DEF TablesOK
<1>9. DrawnBefore'
  BY <1>1, <1>3, <1>8 DEF AccountsInv, DrawnBefore, Exists
<1>10. ErasureComplete'
  BY <1>1, <1>3, <1>4, <1>5, <1>8 DEF AccountsInv, ErasureComplete, Exists, TablesOK
<1>11. ConsentInOrder'
  <2>1. ASSUME NEW v \in Ids
        PROVE  /\ withdrawn[v] <= Len(consent'[v])
               /\ \A i \in DOMAIN consent'[v] : consent'[v][i].standing => i > withdrawn[v]
    <3>1. CASE v # u \/ UNCHANGED consent
      BY <3>1, <1>8 DEF AccountsInv, ConsentInOrder, Standing
    <3>2. CASE v = u /\ consent'[u] = <<Placeholder>>
      <4>1. withdrawn[u] = 0
        BY <1>3, <1>5 DEF AccountsInv, ConsentInOrder, TablesOK
      <4> QED BY <3>2, <4>1, <1>6
    <3> QED BY <3>1, <3>2, <1>4, <1>5 DEF TablesOK
  <2> QED BY <2>1, <1>1 DEF ConsentInOrder, Standing
<1>12. PurgedAreCounted'
  BY <1>1 DEF AccountsInv, PurgedAreCounted
<1>13. ASSUME NEW q \in Requests \ {r}, NEW s, s = request[q]
       PROVE  KnowsId(s)' /\ KnowsConsents(s)' /\ KnowsPings(s)'
  <2>1. s.id # u /\ (s.op \in {"register", "withdraw"} => s.id \in Ids)
    BY <1>1, <1>2, <1>13, HeldIn DEF AccountsInv, IdsDistinct
  <2>2. KnowsId(s) /\ KnowsConsents(s)
    BY <1>13, HeldIn DEF Knows
  <2>3. KnowsId(s)'
    BY <2>1, <2>2, <1>1, <1>8 DEF KnowsId, Exists
  <2>4. KnowsConsents(s)'
    BY <2>1, <2>2, <1>8 DEF KnowsConsents, Exists, Standing
  <2>5. KnowsPings(s)'
    BY <1>1, <1>13, StillKnown
  <2> QED BY <2>3, <2>4, <2>5
<1> QED BY <1>1, <1>7, <1>9, <1>10, <1>11, <1>12, <1>13, HandsetsKept, EndStep

\* The records of one account change; those that stand are still in order, and a
\* withdrawal under way still knows those that stood when it began.
LEMMA ConsentStep ==
  ASSUME AccountsInv, NEW r \in Requests, Ends(r), request[r].op # "untoken",
         UNCHANGED <<user, device, entries, version, begun, drawn, uncounted, late, letGo>>,
         NEW u \in Ids, Exists(u), NEW records \in Seq(Consent), NEW floor \in Nat,
         consent' = [consent EXCEPT ![u] = records],
         withdrawn' = [withdrawn EXCEPT ![u] = floor],
         Len(consent[u]) <= Len(records), floor <= Len(records),
         \A i \in DOMAIN records : records[i].standing =>
           i > floor /\ (i <= Len(consent[u]) => i \in Standing(u))
  PROVE  AccountsInv'
<1>1. TablesOK
  BY HeldIn
<1>2. /\ consent'[u] = records /\ withdrawn'[u] = floor
      /\ \A v \in Ids \ {u} : consent'[v] = consent[v] /\ withdrawn'[v] = withdrawn[v]
  BY <1>1 DEF TablesOK
<1>3. TablesOK'
  <2>1. consent' \in [Ids -> Seq(Consent)] /\ withdrawn' \in [Ids -> Nat]
    BY <1>1 DEF TablesOK
  <2> QED BY <1>1, <2>1 DEF TablesOK
<1>4. DrawnBefore' /\ PurgedAreCounted'
  BY DEF AccountsInv, DrawnBefore, Exists, PurgedAreCounted
<1>5. ErasureComplete'
  BY <1>2 DEF AccountsInv, ErasureComplete, Exists
<1>6. ConsentInOrder'
  BY <1>2 DEF AccountsInv, ConsentInOrder, Standing
<1>7. ASSUME NEW q \in Requests \ {r}, NEW s, s = request[q]
      PROVE  KnowsId(s)' /\ KnowsConsents(s)' /\ KnowsPings(s)'
  <2>1. Held(s) /\ KnowsConsents(s)
    BY <1>7, HeldIn DEF Knows
  <2>2. KnowsConsents(s)'
    <3>1. CASE s.op = "withdraw" /\ Exists(s.id) /\ s.id = u
      <4>1. Len(consent[u]) \in Nat /\ Len(records) \in Nat /\ DOMAIN records = 1..Len(records)
        BY <1>1, LenProperties DEF TablesOK
      <4>2. s.row \in Nat /\ s.row <= Len(consent[u])
        BY <3>1, <2>1 DEF Held, KnowsConsents
      <4>3. \A i \in DOMAIN records : records[i].standing /\ i <= s.row => i \in s.found
        BY <3>1, <4>1, <4>2, <2>1 DEF KnowsConsents
      <4> QED BY <3>1, <4>1, <4>2, <4>3, <1>2 DEF KnowsConsents, Standing
    <3>2. CASE s.op = "withdraw" /\ Exists(s.id) /\ s.id # u
      <4>1. s.id \in Ids
        BY <3>2, <2>1 DEF Held
      <4> QED BY <3>2, <4>1, <2>1, <1>2 DEF KnowsConsents, Standing
    <3>3. CASE ~(s.op = "withdraw" /\ Exists(s.id))
      BY <3>3 DEF KnowsConsents, Exists
    <3> QED BY <3>1, <3>2, <3>3
  <2>3. KnowsId(s)' /\ KnowsPings(s)'
    BY <1>7, StillKnown
  <2> QED BY <2>2, <2>3
<1> QED BY <1>3, <1>4, <1>5, <1>6, <1>7, HandsetsKept, EndStep

\* A commit that fails.
LEMMA NothingStep ==
  ASSUME AccountsInv, NEW r \in Requests, Ends(r), request[r].op # "untoken",
         UNCHANGED <<tables, version, begun, drawn, ghosts>>
  PROVE  AccountsInv'
<1>1. PICK held : held = Free
  OBVIOUS
<1>2. Becomes(r, held) /\ begun' \in 0..MaxRequests
  BY <1>1, HeldIn DEF Ends, TablesOK
<1>3. /\ Held(held) /\ held.op # "register" /\ held.id = None
      /\ KnowsConsents(held) /\ KnowsPings(held)
  BY <1>1, FreeKnows DEF Knows
<1>4. UNCHANGED <<tables, version, drawn, ghosts>>
  BY DEF tables, ghosts
<1> QED BY <1>2, <1>3, <1>4, GoOnStep

LEMMA GrantCommitStep ==
  ASSUME AccountsInv, NEW r \in Requests, GrantCommit(r)
  PROVE  AccountsInv'
<1>1. /\ Ends(r) /\ request[r].op = "grant"
      /\ UNCHANGED <<user, device, entries, version, begun, drawn, ghosts>>
  BY DEF GrantCommit
<1>2. PICK u \in Ids : u = request[r].id
  BY <1>1, HeldIn
<1>3. CASE request[r].found = version /\ Exists(u)
  <2>1. PICK new \in Consent : new = [version |-> version, standing |-> TRUE]
    BY HeldIn DEF TablesOK, Consent
  <2>2. PICK old \in Seq(Consent) : old = consent[u]
    BY HeldIn DEF TablesOK
  <2>3. PICK records : records = Append(old, new)
    OBVIOUS
  <2>4. consent' = [consent EXCEPT ![u] = records]
    BY <1>2, <1>3, <2>1, <2>2, <2>3 DEF GrantCommit
  <2>5. /\ records \in Seq(Consent) /\ Len(old) \in Nat
        /\ Len(records) = Len(old) + 1 /\ DOMAIN records = 1..(Len(old) + 1)
        /\ DOMAIN old = 1..Len(old)
        /\ \A i \in 1..Len(old) : records[i] = old[i]
    BY <2>3, AppendProperties, LenProperties
  <2>6. PICK floor \in Nat : floor = withdrawn[u]
    BY HeldIn DEF TablesOK
  <2>7. floor <= Len(old) /\ \A i \in Standing(u) : i > floor
    BY <2>2, <2>6 DEF AccountsInv, ConsentInOrder
  <2>8. withdrawn' = [withdrawn EXCEPT ![u] = floor]
    BY <1>1, <2>6, HeldIn DEF TablesOK, ghosts
  <2>9. \A i \in DOMAIN records : records[i].standing =>
          i > floor /\ (i <= Len(consent[u]) => i \in Standing(u))
    BY <2>2, <2>5, <2>7 DEF Standing
  <2>10. UNCHANGED <<user, device, entries, version, begun, drawn, uncounted, late, letGo>>
    BY <1>1 DEF ghosts
  <2>11. Len(consent[u]) <= Len(records) /\ floor <= Len(records)
    BY <2>2, <2>5, <2>7
  <2>12. request[r].op # "untoken"
    BY <1>1
  <2> QED BY <1>1, <1>3, <2>4, <2>5, <2>8, <2>9, <2>10, <2>11, <2>12, ConsentStep
<1>4. CASE ~(request[r].found = version /\ Exists(u))
  <2>1. UNCHANGED consent
    BY <1>2, <1>4 DEF GrantCommit
  <2> QED BY <1>1, <2>1, NothingStep DEF tables
<1> QED BY <1>3, <1>4

\* The records that a withdrawal found stand no longer; others may.
LEMMA ClosedIs ==
  ASSUME NEW old \in Seq(Consent), NEW found
  PROVE  LET records == Closed(old, found)
         IN  /\ records \in Seq(Consent) /\ Len(records) = Len(old)
             /\ DOMAIN records = 1..Len(old)
             /\ \A i \in 1..Len(old) : records[i].standing <=> old[i].standing /\ i \notin found
<1> DEFINE closed(i) == [old[i] EXCEPT !.standing = @ /\ i \notin found]
           records == [i \in DOMAIN old |-> closed(i)]
<1>1. Len(old) \in Nat /\ DOMAIN old = 1..Len(old) /\ \A i \in 1..Len(old) : old[i] \in Consent
  BY LenProperties
<1>2. ASSUME NEW i \in 1..Len(old)
      PROVE  closed(i) \in Consent /\ (closed(i).standing <=> old[i].standing /\ i \notin found)
  <2>1. old[i] \in Consent /\ old[i].standing \in BOOLEAN
    BY <1>1 DEF Consent
  <2>2. PICK still \in BOOLEAN : still = (old[i].standing /\ i \notin found)
    OBVIOUS
  <2>3. closed(i) = [old[i] EXCEPT !.standing = still]
    BY <2>2, Zenon
  <2>4. [old[i] EXCEPT !.standing = still] \in Consent
        /\ [old[i] EXCEPT !.standing = still].standing = still
    BY <2>1 DEF Consent
  <2> HIDE DEF closed, Closed
  <2> QED BY <2>2, <2>3, <2>4
<1> HIDE DEF closed, Closed
<1>3. records \in [1..Len(old) -> Consent]
  BY <1>1, <1>2
<1>4. records \in Seq(Consent) /\ Len(records) = Len(old)
  BY <1>1, <1>3, SeqDef
<1> QED BY <1>1, <1>2, <1>4 DEF closed, Closed

LEMMA WithdrawCommitStep ==
  ASSUME AccountsInv, NEW r \in Requests, WithdrawCommit(r)
  PROVE  AccountsInv'
<1>1. /\ Ends(r) /\ request[r].op = "withdraw"
      /\ UNCHANGED <<user, device, entries, version, begun, drawn, uncounted, late, letGo>>
  BY DEF WithdrawCommit
<1>2. PICK u \in Ids, row \in Nat : u = request[r].id /\ row = request[r].row
  BY <1>1, HeldIn DEF Held
<1>0. PICK found : found = request[r].found
  OBVIOUS
<1>3. CASE Exists(u)
  <2>1. PICK old \in Seq(Consent) : old = consent[u]
    BY HeldIn DEF TablesOK
  <2>2. PICK records : records = Closed(old, found)
    OBVIOUS
  <2>3. /\ records \in Seq(Consent) /\ Len(records) = Len(old)
        /\ DOMAIN records = 1..Len(old) /\ DOMAIN old = 1..Len(old) /\ Len(old) \in Nat
        /\ \A i \in 1..Len(old) : records[i].standing <=> old[i].standing /\ i \notin found
    BY <2>2, ClosedIs, LenProperties
  <2>4. consent' = [consent EXCEPT ![u] = records]
    BY <1>0, <1>2, <1>3, <2>1, <2>2 DEF WithdrawCommit
  <2>5. withdrawn[u] \in Nat
    BY HeldIn DEF TablesOK
  <2>6. PICK floor \in Nat : floor = Max({withdrawn[u], row})
    BY <2>5, LargerOf
  <2>7. withdrawn' = [withdrawn EXCEPT ![u] = floor]
    BY <1>2, <1>3, <2>6 DEF WithdrawCommit
  <2>8. floor \in {withdrawn[u], row} /\ floor >= withdrawn[u] /\ floor >= row
    BY <2>5, <2>6, LargerOf
  <2>9. /\ withdrawn[u] <= Len(old) /\ \A i \in Standing(u) : i > withdrawn[u]
        /\ row <= Len(old) /\ \A i \in Standing(u) : i <= row => i \in found
    BY <1>0, <1>1, <1>2, <1>3, <2>1, HeldIn DEF AccountsInv, ConsentInOrder, Knows, KnowsConsents
  <2>10. floor <= Len(records) /\ Len(consent[u]) <= Len(records)
    BY <2>1, <2>3, <2>8, <2>9
  <2>11. \A i \in DOMAIN records : records[i].standing =>
           i > floor /\ (i <= Len(consent[u]) => i \in Standing(u))
    BY <2>1, <2>3, <2>5, <2>8, <2>9 DEF Standing
  <2> QED BY <1>1, <1>3, <2>3, <2>4, <2>7, <2>10, <2>11, ConsentStep
<1>4. CASE ~Exists(u)
  <2>1. UNCHANGED <<tables, version, begun, drawn, ghosts>>
    BY <1>1, <1>2, <1>4 DEF WithdrawCommit, tables, ghosts
  <2> QED BY <1>1, <2>1, NothingStep
<1> QED BY <1>3, <1>4

-----------------------------------------------------------------------------
(* Pings and answers come, and are purged.                                 *)

\* What came in while someone purges is late; whoever counted it earlier has it.
LEMMA EntryCommitStep ==
  ASSUME AccountsInv, NEW r \in Requests, EntryCommit(r)
  PROVE  AccountsInv'
<1>1. /\ Ends(r) /\ request[r].op \in Tables
      /\ UNCHANGED <<user, consent, device, version, begun, drawn, withdrawn, uncounted, letGo>>
  BY DEF EntryCommit
<1>2. PICK u \in Ids, row \in Rows, old \in BOOLEAN :
        u = request[r].id /\ row = request[r].row /\ old = request[r].found
  BY <1>1, HeldIn DEF Held
<1>3. PICK entry \in Entry :
        entry = [table |-> request[r].op, user |-> u, row |-> row, old |-> old]
  BY <1>1 DEF Entry
<1>4. CASE Exists(u)
  <2>1. /\ entries' = entries \cup {entry} /\ entry.user = u
        /\ late \subseteq late' /\ late' \subseteq late \cup {entry}
        /\ (\E q \in Requests : request[q].op = "purge") => entry \in late'
    BY <1>2, <1>3, <1>4 DEF EntryCommit
  <2>2. TablesOK'
    BY <1>1, <2>1, HeldIn DEF TablesOK
  <2>3. DrawnBefore' /\ ConsentInOrder'
    BY <1>1 DEF AccountsInv, DrawnBefore, Exists, ConsentInOrder, Standing
  <2>4. ErasureComplete'
    BY <1>1, <1>4, <2>1 DEF AccountsInv, ErasureComplete, Exists
  <2>5. PurgedAreCounted'
    BY <1>1, <2>1 DEF AccountsInv, PurgedAreCounted
  <2>6. ASSUME NEW q \in Requests \ {r}, NEW s, s = request[q]
        PROVE  KnowsPings(s)'
    <3>1. KnowsPings(s)
      BY <2>6, HeldIn DEF Knows
    <3> QED BY <2>1, <2>6, <3>1 DEF KnowsPings, Pings, Old
  <2>7. request[r].op # "untoken"
    BY <1>1 DEF Tables
  <2> QED BY <1>1, <2>2, <2>3, <2>4, <2>5, <2>6, <2>7, StillKnown, HandsetsKept, EndStep
<1>5. CASE ~Exists(u)
  <2>1. UNCHANGED <<tables, version, begun, drawn, ghosts>>
    BY <1>1, <1>2, <1>5 DEF EntryCommit, tables, ghosts
  <2>2. request[r].op # "untoken"
    BY <1>1 DEF Tables
  <2> QED BY <1>1, <2>1, <2>2, NothingStep
<1> QED BY <1>4, <1>5

LEMMA PurgeCommitStep ==
  ASSUME AccountsInv, NEW r \in Requests, PurgeCommit(r)
  PROVE  AccountsInv'
<1>1. PICK gone, found : gone = request[r].gone /\ found = request[r].found
  OBVIOUS
<1>2. PICK purged : purged = {e \in entries : <<"entry", e>> \in gone}
  OBVIOUS
<1>3. /\ Ends(r) /\ request[r].op = "purged"
      /\ UNCHANGED <<user, consent, device, version, begun, drawn, withdrawn, late, letGo>>
      /\ entries' = entries \ purged
      /\ uncounted' = uncounted \cup (Pings(purged) \ found)
  BY <1>1, <1>2 DEF PurgeCommit
<1>4. purged \subseteq Entry
  BY <1>2, HeldIn DEF TablesOK
<1>5. \A e \in purged : e.old /\ (e.table = "pings" => e \in found \cup late)
  BY <1>1, <1>2, <1>3, <1>4, HeldIn DEF Knows, KnowsPings
<1>6. TablesOK'
  BY <1>3, <1>4, HeldIn DEF TablesOK, Pings
<1>7. PurgedAreCounted'
  BY <1>3, <1>5 DEF AccountsInv, PurgedAreCounted, Pings
<1>8. DrawnBefore' /\ ConsentInOrder'
  BY <1>3 DEF AccountsInv, DrawnBefore, Exists, ConsentInOrder, Standing
<1>9. ErasureComplete'
  BY <1>3 DEF AccountsInv, ErasureComplete, Exists
<1> QED BY <1>3, <1>6, <1>7, <1>8, <1>9, StillKnown, HandsetsKept, EndStep

-----------------------------------------------------------------------------
(* Erasure, and the end of the process.                                    *)

\* Whatever reached a table behind its statement goes with the account.
LEMMA EraseCommitStep ==
  ASSUME AccountsInv, NEW r \in Requests, EraseCommit(r)
  PROVE  AccountsInv'
<1>1. /\ Ends(r) /\ request[r].op = "erase user"
      /\ UNCHANGED <<version, begun, drawn, uncounted, late, letGo>>
  BY DEF EraseCommit
<1>2. PICK u \in Ids : u = request[r].id
  BY <1>1, HeldIn DEF Erasing
<1>3. /\ user' = [user EXCEPT ![u] = None]
      /\ consent' = [consent EXCEPT ![u] = <<>>]
      /\ withdrawn' = [withdrawn EXCEPT ![u] = 0]
      /\ entries' \subseteq entries /\ \A e \in entries' : e.user # u
  BY <1>2 DEF EraseCommit, Cascade
<1>4. \A h \in Handsets :
        /\ device'[h] \in {device[h], None}
        /\ device[h] # None /\ device[h].user = u => device'[h] = None
  BY <1>2 DEF EraseCommit, Cascade
<1>5. TablesOK
  BY HeldIn
<1>6. TablesOK'
  <2>1. DOMAIN device' = Handsets /\ device' = [h \in Handsets |-> device'[h]]
    BY DEF EraseCommit
  <2>2. \A h \in Handsets : device'[h] \in Device \cup {None}
    BY <1>4, <1>5 DEF TablesOK
  <2>3. device' \in [Handsets -> Device \cup {None}]
    BY <2>1, <2>2
  <2>4. <<>> \in Seq(Consent)
    BY EmptySeq
  <2>5. user' \in [Ids -> Nics \cup {None}] /\ withdrawn' \in [Ids -> Nat]
    BY <1>3, <1>5 DEF TablesOK
  <2>6. consent' \in [Ids -> Seq(Consent)]
    BY <1>3, <1>5, <2>4 DEF TablesOK
  <2> QED BY <1>1, <1>3, <1>5, <2>3, <2>5, <2>6 DEF TablesOK
<1>7. /\ user'[u] = None /\ consent'[u] = <<>> /\ withdrawn'[u] = 0
      /\ \A v \in Ids \ {u} : /\ user'[v] = user[v] /\ consent'[v] = consent[v]
                              /\ withdrawn'[v] = withdrawn[v]
  BY <1>3, <1>5 DEF TablesOK
<1>8. DrawnBefore'
  BY <1>1, <1>7 DEF AccountsInv, DrawnBefore, Exists
<1>9. ErasureComplete'
  BY <1>3, <1>4, <1>7 DEF AccountsInv, ErasureComplete, Exists
<1>10. ConsentInOrder'
  BY <1>7 DEF AccountsInv, ConsentInOrder, Standing
<1>11. PurgedAreCounted'
  BY <1>1 DEF AccountsInv, PurgedAreCounted
<1>12. ASSUME NEW q \in Requests \ {r}, NEW s, s = request[q]
       PROVE  KnowsId(s)' /\ KnowsConsents(s)' /\ KnowsPings(s)'
  <2>1. KnowsId(s) /\ KnowsConsents(s) /\ (s.op \in {"register", "withdraw"} => s.id \in Ids)
    BY <1>12, HeldIn DEF Knows
  <2>2. KnowsId(s)'
    BY <2>1, <1>1, <1>7 DEF KnowsId, Exists
  <2>3. KnowsConsents(s)'
    BY <2>1, <1>7 DEF KnowsConsents, Exists, Standing
  <2> QED BY <1>1, <1>3, <1>12, <2>2, <2>3, StillKnown
<1>13. ASSUME NEW h \in Handsets
       PROVE  LettingGoRow(h)'
  <2>1. LettingGoRow(h) /\ \A q \in Requests \ {r} : request'[q] = request[q]
    BY <1>1, OneRequest DEF AccountsInv, Ends
  <2> QED BY <2>1, <1>1, <1>4 DEF LettingGoRow
<1> QED BY <1>1, <1>6, <1>8, <1>9, <1>10, <1>11, <1>12, <1>13, EndStep

LEMMA RestartStep ==
  ASSUME AccountsInv, Restart
  PROVE  AccountsInv'
<1>1. /\ request' = [r \in Requests |-> Free]
      /\ letGo' = [h \in Handsets |-> {u \in letGo[h] : ~LettingGo(u, h)}]
      /\ version' \in 0..MaxVersion
      /\ UNCHANGED <<user, consent, device, entries, begun, drawn, withdrawn, uncounted, late>>
  BY HeldIn, AccountsAssumption DEF Restart, tables, AccountsInv, TablesOK
<1>2. TablesOK
  BY DEF AccountsInv
<1>3. TablesOK'
  BY <1>1, <1>2 DEF TablesOK
<1>4. \A r \in Requests : Knows(request[r])'
  BY <1>1 DEF Knows, Held, KnowsId, KnowsConsents, KnowsPings, Free, Ops, Tables, Erasing
<1>5. IdsDistinct'
  BY <1>1, FreeIs DEF IdsDistinct
<1>6. DrawnBefore' /\ ErasureComplete' /\ ConsentInOrder' /\ PurgedAreCounted'
  BY <1>1 DEF AccountsInv, DrawnBefore, Exists, ErasureComplete, ConsentInOrder, Standing,
              PurgedAreCounted
<1>7. ASSUME NEW h \in Handsets, device[h] # None
      PROVE  device[h].user \notin letGo'[h]
  BY <1>1, <1>7 DEF AccountsInv, LettingGoRow, LettingGo
<1>8. \A h \in Handsets : LettingGoRow(h)'
  BY <1>1, <1>7 DEF LettingGoRow
<1> QED BY <1>1, <1>3, <1>4, <1>5, <1>6, <1>8 DEF AccountsInv

LEMMA StutterStep ==
  ASSUME AccountsInv, UNCHANGED vars
  PROVE  AccountsInv'
<1>1. UNCHANGED <<user, consent, device, entries, version, request, begun, drawn>>
  BY DEF vars, tables
<1>2. UNCHANGED <<withdrawn, uncounted, late, letGo>>
  BY DEF vars, ghosts
<1>3. TablesOK' /\ IdsDistinct' /\ DrawnBefore' /\ ErasureComplete' /\ PurgedAreCounted'
  BY <1>1, <1>2 DEF AccountsInv, TablesOK, IdsDistinct, DrawnBefore, Exists, ErasureComplete,
                    PurgedAreCounted
<1>4. ConsentInOrder' /\ \A h \in Handsets : LettingGoRow(h)'
  BY <1>1, <1>2 DEF AccountsInv, ConsentInOrder, Standing, LettingGoRow
<1>5. \A r \in Requests : Knows(request[r])'
  BY <1>1, <1>2 DEF AccountsInv, Knows, Held, KnowsId, KnowsConsents, KnowsPings, Exists, Standing
<1> QED BY <1>1, <1>3, <1>4, <1>5 DEF AccountsInv

-----------------------------------------------------------------------------
(* The theorems.                                                           *)

LEMMA AccountsInit ==
  ASSUME Init
  PROVE  AccountsInv
<1>1. <<>> \in Seq(Consent) /\ Len(<<>>) = 0 /\ DOMAIN <<>> = {}
  BY EmptySeq
<1>2. TablesOK
  BY <1>1, AccountsAssumption DEF Init, TablesOK
<1>3. \A r \in Requests : Knows(request[r])
  BY FreeKnows DEF Init
<1>4. IdsDistinct /\ DrawnBefore /\ ErasureComplete /\ PurgedAreCounted
  BY FreeIs DEF Init, IdsDistinct, DrawnBefore, Exists, ErasureComplete, PurgedAreCounted
<1>5. ConsentInOrder /\ \A h \in Handsets : LettingGoRow(h)
  BY <1>1 DEF Init, ConsentInOrder, Standing, LettingGoRow
<1> QED BY <1>2, <1>3, <1>4, <1>5 DEF AccountsInv, Init

LEMMA AccountsStep ==
  ASSUME AccountsInv, [Next]_vars
  PROVE  AccountsInv'
<1>1. CASE \E r \in Requests : Commit(r)
  BY <1>1, RegisterCommitStep, GrantCommitStep, WithdrawCommitStep, TokenCommitStep,
     RemoveStep, EntryCommitStep, EraseRowsStep, EraseCommitStep, PurgeStep, PurgeCommitStep
     DEF Commit
<1>2. CASE \E r \in Requests, u \in Ids :
             \/ \E n \in Nics : RegisterRead(r, n, u)
             \/ GrantBegin(r, u) \/ WithdrawBegin(r, u) \/ EraseBegin(r, u)
  BY <1>2, RegisterReadStep, GrantBeginStep, WithdrawBeginStep, EraseBeginStep
<1>3. CASE \E r \in Requests, u \in Ids :
             \/ \E h \in Handsets : TokenRead(r, u, h) \/ UntokenRead(r, u, h)
             \/ \E t \in Tables, old \in BOOLEAN : EntryBegin(r, u, t, old)
  BY <1>3, TokenReadStep, UntokenReadStep, EntryBeginStep
<1>4. CASE \E r \in Requests : Count(r) \/ \E h \in Handsets : PushRead(r, h)
  BY <1>4, CountStep, PushReadStep
<1> QED BY <1>1, <1>2, <1>3, <1>4, RestartStep, StutterStep DEF Next

LEMMA AccountsInvariant == Spec => []AccountsInv
BY AccountsInit, AccountsStep, PTL DEF Spec

\* account.py: nothing is keyed to an account that is not there, although pings,
\* answers, tokens and consents of it reach their tables before, between and after
\* the statements of the erasure (delete_account).
THEOREM ErasureIsComplete == Spec => []ErasureComplete
<1>1. AccountsInv => ErasureComplete
  BY DEF AccountsInv
<1> QED BY <1>1, AccountsInvariant, PTL

\* Consent in force is consent to the current notice, of an account that is there,
\* given after every withdrawal that went through (record_consent, consent_status).
THEOREM ConsentAlwaysCurrent == Spec => []ConsentIsCurrent
<1>1. ASSUME AccountsInv, NEW u \in Ids, Granted(u)
      PROVE  /\ Exists(u)
             /\ \E i \in DOMAIN consent[u] : i > withdrawn[u] /\ consent[u][i].version = version
  <2>1. Standing(u) # {} /\ consent[u][Max(Standing(u))].version = version
    BY <1>1 DEF Granted
  <2>2. Len(consent[u]) \in Nat /\ DOMAIN consent[u] = 1..Len(consent[u])
    BY <1>1, LenProperties DEF AccountsInv, TablesOK
  <2>3. Standing(u) \subseteq 1..Len(consent[u])
    BY <2>2 DEF Standing
  <2>4. Max(Standing(u)) \in Standing(u)
    BY <2>1, <2>2, <2>3, LargestOf
  <2>5. consent[u] # <<>>
    BY <2>1, <2>2, <2>3
  <2> QED BY <1>1, <2>1, <2>3, <2>4, <2>5, <2>2 DEF AccountsInv, ErasureComplete, ConsentInOrder
<1>2. AccountsInv => ConsentIsCurrent
  BY <1>1 DEF ConsentIsCurrent
<1> QED BY <1>2, AccountsInvariant, PTL

\* devices.py: a handset that its account has let go does not stay with it, whoever
\* registers the token, prunes it or erases an account (unregister_token).
THEOREM LetGoAlwaysStaysLetGo == Spec => []LetGoStaysLetGo
<1>1. AccountsInv => LetGoStaysLetGo
  BY DEF AccountsInv, LettingGoRow, LetGoStaysLetGo, LettingGo
<1> QED BY <1>1, AccountsInvariant, PTL

\* retention.py: no ping is purged that its run had not counted, but for those that
\* were stored between the count and the delete, and none that is not old.
THEOREM PurgedAlwaysCounted == Spec => []PurgedAreCounted
<1>1. AccountsInv => PurgedAreCounted
  BY DEF AccountsInv
<1> QED BY <1>1, AccountsInvariant, PTL
=============================================================================
