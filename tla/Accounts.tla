------------------------------ MODULE Accounts ------------------------------
(***************************************************************************)
(* Accounts on the server: registration (routers/auth.py), the request's   *)
(* user (deps.py), consent and erasure (routers/account.py), push tokens   *)
(* (routers/devices.py, push.py), the rows that pings and answers add      *)
(* under an account (routers/locations.py, routers/feedback.py), and the   *)
(* purge of the old ones (retention.py).                                   *)
(*                                                                         *)
(* A request is one session of a READ COMMITTED database: what it read may *)
(* be stale when it writes, a row that another transaction has deleted     *)
(* stays locked until that one commits, and the foreign keys of models.py  *)
(* (ON DELETE CASCADE) hold at every commit.                               *)
(***************************************************************************)
EXTENDS Integers, Sequences, FiniteSetsExt

CONSTANTS
  Nics,         \* national identity card numbers, normalised
  Ids,          \* what new_user_id may draw; no id is drawn twice
  Handsets,     \* FCM tokens
  Requests,     \* requests under way at once
  MaxVersion,   \* bound: notice versions deployed
  MaxRequests,  \* bound: requests begun
  None

ASSUME AccountsAssumption ==
  /\ MaxVersion \in Nat \ {0}
  /\ MaxRequests \in Nat
  /\ None \notin Ids \cup Nics

Tables == {"pings", "feedback"}
Rows == 1..MaxRequests      \* primary keys: the number of the request that made the row

\* ConsentRecord, the rows of pings and feedback, and Device.  An entry is old
\* when its device dates it before the cutoff of the retention, however late it came.
Consent == [version : 0..MaxVersion, standing : BOOLEAN]
Entry == [table : Tables, user : Ids, row : Rows, old : BOOLEAN]
Device == [user : Ids, row : Rows]

\* Version 0 stands for "not-collected".
Placeholder == [version |-> 0, standing |-> FALSE]

VARIABLES
  user,      \* users: the nic of an id, or None
  consent,   \* consent_records of an id, in the order they were granted
  device,    \* devices: who gets the pushes of a handset
  entries,   \* location_pings and feedback
  version,   \* settings.consent_notice_version
  request,   \* what each session holds
  begun,     \* requests begun so far
  drawn,     \* ids drawn so far
  withdrawn, \* how many records of an id a withdrawal that went through had found
  uncounted, \* pings purged by a run that had not rolled them up
  late,      \* pings stored between the count and the purge of some run
  letGo      \* accounts that unregistered a handset, or lost it to another, since they registered it

tables == <<user, consent, device, entries>>
ghosts == <<withdrawn, uncounted, late, letGo>>
vars == <<tables, version, request, begun, drawn, ghosts>>

Free == [op |-> "free", id |-> None, nic |-> None, handset |-> None, row |-> 0,
         found |-> None, gone |-> {}]

Init ==
  /\ user = [u \in Ids |-> None]
  /\ consent = [u \in Ids |-> <<>>]
  /\ device = [h \in Handsets |-> None]
  /\ entries = {}
  /\ version = 1
  /\ request = [r \in Requests |-> Free]
  /\ begun = 0
  /\ drawn = {}
  /\ withdrawn = [u \in Ids |-> 0]
  /\ uncounted = {} /\ late = {}
  /\ letGo = [h \in Handsets |-> {}]

Exists(u) == user[u] # None

\* current_user lets a request in when its token's account is there.
Begin(r, held) ==
  /\ request[r].op = "free" /\ begun < MaxRequests
  /\ begun' = begun + 1
  /\ request' = [request EXCEPT ![r] = held]

BeginAs(r, u, held) ==
  /\ Exists(u)
  /\ Begin(r, held)
  /\ UNCHANGED <<tables, version, drawn, ghosts>>

Becomes(r, held) == request' = [request EXCEPT ![r] = held]
Ends(r) == Becomes(r, Free)

\* The rows that an erasure under way has deleted, and nobody else may write.
Deleted == UNION {request[r].gone : r \in Requests}

-----------------------------------------------------------------------------
(* register.                                                               *)

RegisterRead(r, n, u) ==
  /\ u \notin drawn
  /\ \A v \in Ids : user[v] # n
  /\ Begin(r, [Free EXCEPT !.op = "register", !.nic = n, !.id = u])
  /\ drawn' = drawn \cup {u}
  /\ UNCHANGED <<tables, version, ghosts>>

RegisterCommit(r) ==
  /\ request[r].op = "register"
  /\ IF \E v \in Ids : user[v] = request[r].nic   \* IntegrityError: 409
     THEN UNCHANGED <<user, consent>>
     ELSE /\ user' = [user EXCEPT ![request[r].id] = request[r].nic]
          /\ consent' = [consent EXCEPT ![request[r].id] = <<Placeholder>>]
  /\ Ends(r)
  /\ UNCHANGED <<device, entries, version, begun, drawn, ghosts>>

-----------------------------------------------------------------------------
(* record_consent, consent_status.                                         *)

GrantBegin(r, u) == BeginAs(r, u, [Free EXCEPT !.op = "grant", !.id = u, !.found = version])

\* A notice that is out of date is refused; an account that is gone is an
\* IntegrityError.
GrantCommit(r) ==
  LET u == request[r].id IN
  /\ request[r].op = "grant"
  /\ consent' = IF request[r].found = version /\ Exists(u)
                THEN [consent EXCEPT ![u] =
                        Append(@, [version |-> version, standing |-> TRUE])]
                ELSE consent
  /\ Ends(r)
  /\ UNCHANGED <<user, device, entries, version, begun, drawn, ghosts>>

Standing(u) == {i \in DOMAIN consent[u] : consent[u][i].standing}

\* Slip: only the record that consent_status shows is closed.
Latest(u) == IF Standing(u) = {} THEN {} ELSE {Max(Standing(u))}

\* The records that a withdrawal closes.
Closing(u) == Standing(u)

WithdrawBegin(r, u) ==
  BeginAs(r, u, [Free EXCEPT !.op = "withdraw", !.id = u, !.row = Len(consent[u]),
                             !.found = Closing(u)])

\* The records of an account once those are closed.
Closed(records, found) ==
  [i \in DOMAIN records |-> [records[i] EXCEPT !.standing = @ /\ i \notin found]]

\* Rows that are no longer there make the UPDATE fail.
WithdrawCommit(r) ==
  LET u == request[r].id IN
  /\ request[r].op = "withdraw"
  /\ request[r].found # {} => <<"consents", u>> \notin Deleted
  /\ IF Exists(u)
     THEN /\ consent' = [consent EXCEPT ![u] = Closed(@, request[r].found)]
          /\ withdrawn' = [withdrawn EXCEPT ![u] = Max({@, request[r].row})]
     ELSE UNCHANGED <<consent, withdrawn>>
  /\ Ends(r)
  /\ UNCHANGED <<user, device, entries, version, begun, drawn, uncounted, late, letGo>>

\* consent_status: the latest standing record must be of the current notice.
Granted(u) ==
  Standing(u) # {} /\ consent[u][Max(Standing(u))].version = version

-----------------------------------------------------------------------------
(* register_token, unregister_token; _prune_stale_tokens.                  *)

TokenRead(r, u, h) ==
  BeginAs(r, u, [Free EXCEPT !.op = "token", !.id = u, !.handset = h,
                             !.row = begun + 1, !.found = device[h]])

\* Slip: a token that is known keeps its account.
HolderKept(u, held) == IF held = None THEN u ELSE held.user

\* "Move it, do not duplicate it."
Holder(u, held) == u

TokenOf(v, h) == device[h] # None /\ device[h].user = v

\* Moves the row that was found, or inserts one.  A row found that is gone by now
\* raises StaleDataError; a token or an account that is not what it was raises
\* IntegrityError, and the answer is "accepted" all the same.
TokenCommit(r) ==
  LET u == request[r].id
      h == request[r].handset
      held == request[r].found
      new == [user |-> Holder(u, held), row |-> IF held = None THEN request[r].row ELSE held.row]
      stored == Exists(u) /\ IF held = None THEN device[h] = None
                             ELSE device[h] # None /\ device[h].row = held.row
  IN
  /\ request[r].op = "token"
  /\ <<"device", h>> \notin Deleted
  /\ device' = IF stored THEN [device EXCEPT ![h] = new] ELSE device
  /\ letGo' = IF stored THEN [letGo EXCEPT ![h] = (@ \cup {v \in Ids : TokenOf(v, h)}) \ {u}]
              ELSE letGo
  /\ Ends(r)
  /\ UNCHANGED <<user, consent, entries, version, begun, drawn, withdrawn, uncounted, late>>

Registering(u, h) ==
  \E r \in Requests : request[r].op = "token" /\ request[r].id = u /\ request[r].handset = h

LettingGo(u, h) ==
  \E r \in Requests : request[r].op = "untoken" /\ request[r].id = u /\ request[r].handset = h

\* An own token only; another's, or none, is a success as well, at once.
UntokenRead(r, u, h) ==
  LET own == TokenOf(u, h) IN
  /\ Exists(u)
  /\ Begin(r, IF own THEN [Free EXCEPT !.op = "untoken", !.id = u, !.handset = h,
                                       !.found = device[h]]
              ELSE Free)
  /\ letGo' = IF Registering(u, h) THEN letGo ELSE [letGo EXCEPT ![h] = @ \cup {u}]
  /\ UNCHANGED <<tables, version, drawn, withdrawn, uncounted, late>>

\* The DELETE is by primary key, whosever row it is by now.
Removes(h, held) == device[h] # None /\ device[h].row = held.row

UntokenCommit(r) ==
  LET h == request[r].handset IN
  /\ request[r].op = "untoken"
  /\ <<"device", h>> \notin Deleted
  /\ device' = IF Removes(h, request[r].found) THEN [device EXCEPT ![h] = None] ELSE device
  /\ Ends(r)
  /\ UNCHANGED <<user, consent, entries, version, begun, drawn, ghosts>>

\* tokens_for_alert takes the devices of the users seen in the regions; those that
\* FCM no longer knows are deleted after the send.
PushRead(r, h) ==
  /\ device[h] # None
  /\ \E e \in entries : e.table = "pings" /\ e.user = device[h].user /\ ~e.old
  /\ Begin(r, [Free EXCEPT !.op = "push", !.handset = h, !.found = device[h]])
  /\ UNCHANGED <<tables, version, drawn, ghosts>>

Prune(r) ==
  LET h == request[r].handset IN
  /\ request[r].op = "push"
  /\ <<"device", h>> \notin Deleted
  /\ device' = IF Removes(h, request[r].found) THEN [device EXCEPT ![h] = None] ELSE device
  /\ Ends(r)
  /\ UNCHANGED <<user, consent, entries, version, begun, drawn, ghosts>>

-----------------------------------------------------------------------------
(* ingest_location, submit_feedback: one insert under the account.  (The   *)
(* last ping that an answer without a fix takes its place from is data.)   *)

EntryBegin(r, u, t, old) ==
  BeginAs(r, u, [Free EXCEPT !.op = t, !.id = u, !.row = begun + 1, !.found = old])

EntryCommit(r) ==
  LET u == request[r].id
      entry == [table |-> request[r].op, user |-> u, row |-> request[r].row,
                old |-> request[r].found]
  IN
  /\ request[r].op \in Tables
  /\ IF Exists(u)   \* the foreign key; a ping that fails on it is answered 201
     THEN /\ entries' = entries \cup {entry}
          /\ late' = IF \E q \in Requests : request[q].op = "purge"
                     THEN late \cup {entry} ELSE late
     ELSE UNCHANGED <<entries, late>>
  /\ Ends(r)
  /\ UNCHANGED <<user, consent, device, version, begun, drawn, withdrawn, uncounted, letGo>>

-----------------------------------------------------------------------------
(* rollup_and_purge: the count, the delete, the commit of both.            *)

\* Slip: the cutoff is left out of the delete.
OldAny(es) == es

\* The pings recorded, and the answers given, before their cutoffs.
Old(es) == {e \in es : e.old}

Pings(es) == {e \in es : e.table = "pings"}

Count(r) ==
  /\ Begin(r, [Free EXCEPT !.op = "purge", !.found = {e \in Pings(entries) : e.old}])
  /\ UNCHANGED <<tables, version, drawn, ghosts>>

Purge(r) ==
  LET rows == {<<"entry", e>> : e \in Old(entries)} IN
  /\ request[r].op = "purge"
  /\ rows \cap Deleted = {}
  /\ Becomes(r, [request[r] EXCEPT !.op = "purged", !.gone = rows])
  /\ UNCHANGED <<tables, version, begun, drawn, ghosts>>

PurgeCommit(r) ==
  LET purged == {e \in entries : <<"entry", e>> \in request[r].gone} IN
  /\ request[r].op = "purged"
  /\ entries' = entries \ purged
  /\ uncounted' = uncounted \cup (Pings(purged) \ request[r].found)
  /\ Ends(r)
  /\ UNCHANGED <<user, consent, device, version, begun, drawn, withdrawn, late, letGo>>

-----------------------------------------------------------------------------
(* delete_account: a statement per table, then the commit.                 *)

EraseBegin(r, u) == BeginAs(r, u, [Free EXCEPT !.op = "erase pings", !.id = u])

NextErase == [op \in {"erase pings", "erase feedback", "erase devices", "erase consents"} |->
  CASE op = "erase pings"    -> "erase feedback"
    [] op = "erase feedback" -> "erase devices"
    [] op = "erase devices"  -> "erase consents"
    [] op = "erase consents" -> "erase user"]

\* What the statement deletes: the rows that are there and that it does not have
\* to wait for.
Found(u, op) ==
  LET own(t) == {<<"entry", e>> : e \in {f \in entries : f.table = t /\ f.user = u}} IN
  CASE op = "erase pings"    -> own("pings")
    [] op = "erase feedback" -> own("feedback")
    [] op = "erase devices"  -> {<<"device", h>> : h \in {g \in Handsets :
                                   device[g] # None /\ device[g].user = u}}
    [] op = "erase consents" -> {<<"consents", u>>}

EraseRows(r) ==
  LET u == request[r].id
      op == request[r].op
  IN
  /\ op \in DOMAIN NextErase
  /\ Found(u, op) \cap Deleted = {}
  /\ Becomes(r, [request[r] EXCEPT !.op = NextErase[op], !.gone = @ \cup Found(u, op)])
  /\ UNCHANGED <<tables, version, begun, drawn, ghosts>>

\* Slip: nothing but the explicit deletes.
CascadeNever(u, e) == FALSE

\* ON DELETE CASCADE: what came in after its table's statement goes with the user.
Cascade(u, e) == e.user = u

\* The last statement and the commit, nothing of the erasure being visible before.
EraseCommit(r) ==
  LET u == request[r].id
      gone == request[r].gone
  IN
  /\ request[r].op = "erase user"
  /\ user' = [user EXCEPT ![u] = None]
  /\ entries' = {e \in entries : <<"entry", e>> \notin gone /\ ~Cascade(u, e)}
  /\ device' = [h \in Handsets |->
       IF device[h] # None /\ (<<"device", h>> \in gone \/ Cascade(u, device[h]))
       THEN None ELSE device[h]]
  /\ consent' = [consent EXCEPT ![u] = <<>>]
  /\ withdrawn' = [withdrawn EXCEPT ![u] = 0]
  /\ Ends(r)
  /\ UNCHANGED <<version, begun, drawn, uncounted, late, letGo>>

-----------------------------------------------------------------------------
\* A restart, with the same notice or the next one; open transactions are lost.
Restart ==
  /\ \E v \in {version, version + 1} : v <= MaxVersion /\ version' = v
  /\ request' = [r \in Requests |-> Free]
  /\ letGo' = [h \in Handsets |-> {u \in letGo[h] : ~LettingGo(u, h)}]
  /\ UNCHANGED <<tables, begun, drawn, withdrawn, uncounted, late>>

Commit(r) ==
  \/ RegisterCommit(r) \/ GrantCommit(r) \/ WithdrawCommit(r)
  \/ TokenCommit(r) \/ UntokenCommit(r) \/ Prune(r) \/ EntryCommit(r)
  \/ EraseRows(r) \/ EraseCommit(r) \/ Purge(r) \/ PurgeCommit(r)

Next ==
  \/ \E r \in Requests :
       \/ \E n \in Nics, u \in Ids : RegisterRead(r, n, u)
       \/ \E u \in Ids :
            \/ GrantBegin(r, u) \/ WithdrawBegin(r, u) \/ EraseBegin(r, u)
            \/ \E h \in Handsets : TokenRead(r, u, h) \/ UntokenRead(r, u, h)
            \/ \E t \in Tables, old \in BOOLEAN : EntryBegin(r, u, t, old)
       \/ Count(r)
       \/ \E h \in Handsets : PushRead(r, h)
       \/ Commit(r)
  \/ Restart

Spec == Init /\ [][Next]_vars

-----------------------------------------------------------------------------
(* Properties.                                                             *)

\* account.py: "Irreversible erasure of the participant and everything keyed to
\* them."  Nothing is keyed to an account that is not there, although pings,
\* answers, tokens and consents of it may be on their way when it is erased and
\* reach their table before, between or after the statements of the erasure.
ErasureComplete ==
  \A u \in Ids : ~Exists(u) =>
    /\ consent[u] = <<>>
    /\ \A e \in entries : e.user # u
    /\ \A h \in Handsets : device[h] # None => device[h].user # u

\* Consent in force is consent to the current notice, given after every withdrawal
\* that went through: a record that a withdrawal found never counts again, however
\* often consent was given before, whatever is deployed in between, and with a
\* grant and a withdrawal under way at once.
ConsentIsCurrent ==
  \A u \in Ids : Granted(u) =>
    /\ Exists(u)
    /\ \E i \in DOMAIN consent[u] : i > withdrawn[u] /\ consent[u][i].version = version

\* devices.py: no account keeps getting alerts for a phone it has let go, or that
\* another account has registered since ("otherwise the previous user keeps getting
\* alerts for a phone they no longer use"), whoever else registers the phone's
\* token, prunes it or erases an account meanwhile.
LetGoStaysLetGo ==
  \A h \in Handsets :
    device[h] # None /\ device[h].user \in letGo[h] => LettingGo(device[h].user, h)

\* retention.py: "Before pings are deleted they are rolled up".  No ping is purged
\* that the run had not counted, with erasures, late pings and another run at
\* work, but for those that were stored between a run's count and its delete; a
\* ping that is not old is never purged.
PurgedAreCounted ==
  /\ uncounted \subseteq late
  /\ \A e \in uncounted : e.old
=============================================================================
