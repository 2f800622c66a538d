--------------------------- MODULE LocationQueue ----------------------------
(***************************************************************************)
(* Location pings on their way from the phone to the server: the upload,   *)
(* retry queue and session guards of services/location_service.dart, the   *)
(* session teardown of main.dart and home_provider.dart, and the ping      *)
(* table behind POST /locations.                                           *)
(*                                                                         *)
(* Dart runs one step at a time and switches tasks only at an await that   *)
(* waits: for the network, or for stored preferences.  A step here is what *)
(* runs from one such await to the next.  An upload is a task: it drains   *)
(* the queue if no other task does, posts its own ping, and queues it if   *)
(* the failure can be retried.                                             *)
(*                                                                         *)
(* A ping is its place in the order of capture, which stands for           *)
(* (recorded_at, source); owner[n] is who was signed in when n was taken,  *)
(* NoUser if the position stream ran without a session: requestAccess may  *)
(* open it after the session that asked for the permission has ended.      *)
(***************************************************************************)
EXTENDS Integers, Sequences, FiniteSets

CONSTANTS
  Users,        \* the accounts used on this phone
  NoUser,       \* no token
  Tasks,        \* uploads that can be in progress at once
  Cap,          \* Config.maxQueuedPings
  Invalid,      \* pings the server's validation refuses
  MaxPings,     \* bound: captures
  MaxSessions,  \* bound: teardowns
  MaxCrashes    \* bound: times the process is killed

ASSUME QueueAssumption ==
  /\ NoUser \notin Users
  /\ Cap \in Nat \ {0} /\ MaxPings \in Nat /\ MaxSessions \in Nat
  /\ MaxCrashes \in Nat
  /\ Invalid \subseteq 1..MaxPings

VARIABLES
  owner,     \* who recorded each ping
  user,      \* whose token ApiClient holds
  saved,     \* whose token secure storage holds
  queue,     \* _queue
  disk,      \* the stored queue
  loading,   \* the load memo: none, reading or done
  flushing,  \* _isFlushing
  stream,    \* _subscription is not null
  session,   \* _session
  wipe,      \* how far resetForLostSession is: none, cancel or remove
  task,      \* the state of each upload
  net,       \* requests sent and not yet handled, <<user, ping>>
  rows,      \* table location_pings: rows per (user, ping)
  crashes,   \* kills so far
  owed,      \* history: pings that must still be delivered
  crossed,   \* history: pings queued while another task drained the queue
  late,      \* history: pings taken once their session had ended
  stranded   \* history: a kill left a queue without a session behind

client == <<owner, user, saved, queue, disk, loading, flushing, stream, session, wipe, task>>
history == <<owed, crossed, late, stranded>>
vars == <<client, net, rows, crashes, history>>

Pings == 1..MaxPings

Elements(s) == {s[i] : i \in DOMAIN s}

Idle == [pc |-> "idle", ping |-> 0, session |-> 0, as |-> NoUser, rest |-> <<>>, moved |-> FALSE]

Init ==
  /\ owner = <<>>
  /\ user = NoUser /\ saved = NoUser
  /\ queue = <<>> /\ disk = <<>> /\ loading = "none" /\ flushing = FALSE
  /\ stream = FALSE /\ session = 0 /\ wipe = "none"
  /\ task = [t \in Tasks |-> Idle]
  /\ net = {}
  /\ rows = [m \in Users \X Pings |-> 0]
  /\ crashes = 0
  /\ owed = {} /\ crossed = {} /\ late = {} /\ stranded = FALSE

-----------------------------------------------------------------------------
(* Fragments of an upload's steps.                                         *)

\* Slip: a request is made out to nobody when there is no token.
RequestAlways(who, n) == {<<who, n>>}

\* ApiClient._send: a request goes out with the token of this moment; without
\* one it can only come back with 401.
Request(who, n) == IF who = NoUser THEN {} ELSE {<<who, n>>}

\* _upload's own post.
PostOwn(t, s, who) ==
  /\ task' = [task EXCEPT ![t] =
       [s EXCEPT !.pc = "own", !.as = who, !.rest = <<>>, !.moved = FALSE]]
  /\ net' = net \cup Request(who, s.ping)

\* The loop of _flushQueue posts the oldest of what remains.
PostHead(t, s, rest, moved, who) ==
  /\ task' = [task EXCEPT ![t] =
       [s EXCEPT !.pc = "drain", !.as = who, !.rest = rest, !.moved = moved]]
  /\ net' = net \cup Request(who, Head(rest))

\* _flushQueue from its first look at the queue.
Drain(t, s) ==
  IF queue = <<>>
  THEN flushing' = FALSE /\ PostOwn(t, s, user)
  ELSE flushing' = TRUE /\ PostHead(t, s, queue, FALSE, user)

\* Slip: what the loop leaves is kept without asking whose session it is.
EndDrainUnguarded(t, rest, moved, who) ==
  LET s == task[t]
  IN  IF ~moved
      THEN flushing' = FALSE /\ PostOwn(t, s, who) /\ UNCHANGED queue
      ELSE /\ queue' = rest
           /\ task' = [task EXCEPT ![t] = [s EXCEPT !.pc = "save", !.rest = <<>>]]
           /\ UNCHANGED <<flushing, net>>

\* After the loop: what is left becomes the queue, unless nothing went or the
\* session ended meanwhile; then the task's own post follows.
EndDrain(t, rest, moved, who) ==
  LET s == task[t]
  IN  IF s.session # session \/ ~moved
      THEN flushing' = FALSE /\ PostOwn(t, s, who) /\ UNCHANGED queue
      ELSE /\ queue' = rest
           /\ task' = [task EXCEPT ![t] = [s EXCEPT !.pc = "save", !.rest = <<>>]]
           /\ UNCHANGED <<flushing, net>>

\* Slip: nothing is dropped when the queue is full.
CappedNever(s) == s

\* The queue with its oldest entries dropped beyond the cap.
Capped(s) == IF Len(s) > Cap THEN SubSeq(s, Len(s) - Cap + 1, Len(s)) ELSE s

\* _enqueue once the queue is loaded.
Enqueue(t) ==
  LET next == Capped(Append(queue, task[t].ping))
  IN  /\ queue' = next
      /\ task' = [task EXCEPT ![t].pc = "keep"]
      /\ owed' = owed \ (Elements(queue) \ Elements(next))
      /\ crossed' = IF flushing THEN crossed \cup {task[t].ping} ELSE crossed

-----------------------------------------------------------------------------
(* An upload.                                                              *)

\* _upload starts with the session of this moment, and drains the queue unless
\* another task is at it.
Upload(t, n) ==
  LET s == [Idle EXCEPT !.ping = n, !.session = session]
  IN  \/ /\ flushing
         /\ PostOwn(t, s, user)
         /\ UNCHANGED <<flushing, loading>>
      \/ /\ ~flushing /\ loading = "done"
         /\ Drain(t, s)
         /\ UNCHANGED loading
      \/ /\ ~flushing /\ loading # "done"
         /\ flushing' = TRUE /\ loading' = "reading"
         /\ task' = [task EXCEPT ![t] = [s EXCEPT !.pc = "load"]]
         /\ UNCHANGED net

\* start() opens the position stream once the queue is loaded: on sign-in, or
\* when a permission dialog is answered, in whatever session it then is.  Only
\* the cancelling of an open stream takes stop() any time, and start() leaves an
\* open stream alone.
StreamStarts ==
  /\ ~stream /\ loading = "done" /\ wipe # "cancel"
  /\ stream' = TRUE
  /\ UNCHANGED <<owner, user, saved, queue, disk, loading, flushing, session, wipe, task, net, rows, crashes, history>>

\* _onPosition, when an upload is due, whoever is signed in, if anybody.  Any
\* tick may be due: an upload that drains a long queue over a slow network
\* outlasts the ten minutes of the throttle.
Position(t) ==
  /\ task[t].pc = "idle" /\ stream
  /\ Len(owner) < MaxPings
  /\ owner' = Append(owner, user)
  /\ IF wipe = "remove"
     THEN late' = late \cup {Len(owner) + 1} /\ UNCHANGED owed
     ELSE /\ owed' = IF user = NoUser THEN owed ELSE owed \cup {Len(owner) + 1}
          /\ UNCHANGED late
  /\ Upload(t, Len(owner) + 1)
  /\ UNCHANGED <<user, saved, queue, disk, stream, session, wipe, rows, crashes, crossed, stranded>>

\* "Send My Location Now": sendNow asks for a fix, for up to 15 seconds.
Press(t) ==
  /\ task[t].pc = "idle" /\ user # NoUser /\ wipe = "none"
  /\ Len(owner) < MaxPings
  /\ owner' = Append(owner, user)
  /\ task' = [task EXCEPT ![t] =
       [Idle EXCEPT !.pc = "fix", !.ping = Len(owner) + 1, !.session = session]]
  /\ UNCHANGED <<user, saved, queue, disk, loading, flushing, stream, session, wipe, net, rows, crashes, history>>

\* The fix comes, in whatever session it now is, or does not.
Fix(t) ==
  /\ task[t].pc = "fix"
  /\ IF task[t].session = session
     THEN owed' = owed \cup {task[t].ping} /\ UNCHANGED late
     ELSE late' = late \cup {task[t].ping} /\ UNCHANGED owed
  /\ Upload(t, task[t].ping)
  /\ UNCHANGED <<owner, user, saved, queue, disk, stream, session, wipe, rows, crashes, crossed, stranded>>

NoFix(t) ==
  /\ task[t].pc = "fix"
  /\ task' = [task EXCEPT ![t] = Idle]
  /\ UNCHANGED <<owner, user, saved, queue, disk, loading, flushing, stream, session, wipe, net, rows, crashes, history>>

\* start() on sign-in loads the queue too.
StartLoad ==
  /\ user # NoUser /\ loading = "none"
  /\ loading' = "reading"
  /\ UNCHANGED <<owner, user, saved, queue, disk, flushing, stream, session, wipe, task, net, rows, crashes, history>>

\* The stored queue has been read.  A teardown since has resolved the memo,
\* and then the read has no effect.
FinishRead ==
  /\ loading = "reading"
  /\ loading' = "done" /\ queue' = disk
  /\ UNCHANGED <<owner, user, saved, disk, flushing, stream, session, wipe, task, net, rows, crashes, history>>

Loaded(t) ==
  /\ task[t].pc = "load" /\ loading = "done"
  /\ Drain(t, task[t])
  /\ UNCHANGED <<owner, user, saved, queue, disk, loading, stream, session, wipe, rows, crashes, history>>

\* The queue the task left is stored as it is by then; the upload goes on.
Save(t) ==
  /\ task[t].pc = "save"
  /\ disk' = queue /\ flushing' = FALSE
  /\ PostOwn(t, task[t], user)
  /\ UNCHANGED <<owner, user, saved, queue, loading, stream, session, wipe, rows, crashes, history>>

\* Likewise after _enqueue, and the upload is over.
Keep(t) ==
  /\ task[t].pc = "keep"
  /\ disk' = queue
  /\ task' = [task EXCEPT ![t] = Idle]
  /\ UNCHANGED <<owner, user, saved, queue, loading, flushing, stream, session, wipe, net, rows, crashes, history>>

\* _enqueue after waiting for the load.
EnqueueLate(t) ==
  /\ task[t].pc = "enqueue" /\ loading = "done"
  /\ IF task[t].session # session
     THEN task' = [task EXCEPT ![t] = Idle] /\ UNCHANGED <<queue, owed, crossed>>
     ELSE Enqueue(t)
  /\ UNCHANGED <<owner, user, saved, disk, loading, flushing, stream, session, wipe, net, rows, crashes, late, stranded>>

-----------------------------------------------------------------------------
(* Answers.                                                                *)

InFlight(t) == IF task[t].pc = "drain" THEN Head(task[t].rest) ELSE task[t].ping

\* The post is over and its ping will not be tried again: on with the loop, or
\* the upload ends.  `who' is whose token the next post carries.
Finished(t, who) ==
  \/ /\ task[t].pc = "drain"
     /\ LET rest == Tail(task[t].rest)
        IN  IF rest = <<>> THEN EndDrain(t, rest, TRUE, who)
            ELSE PostHead(t, task[t], rest, TRUE, who) /\ UNCHANGED <<queue, flushing>>
  \/ /\ task[t].pc = "own"
     /\ task' = [task EXCEPT ![t] = Idle]
     /\ UNCHANGED <<queue, flushing, net>>

\* 201: the server has the row.
Accepted(t) ==
  /\ task[t].pc \in {"drain", "own"} /\ task[t].as # NoUser
  /\ rows[<<task[t].as, InFlight(t)>>] > 0
  /\ Finished(t, user)
  /\ UNCHANGED <<owner, user, saved, disk, loading, stream, session, wipe, rows, crashes, history>>

\* 4xx: the server refuses this payload, and the client drops it.
Refused(t) ==
  /\ task[t].pc \in {"drain", "own"} /\ task[t].as # NoUser
  /\ InFlight(t) \in Invalid
  /\ owed' = owed \ {InFlight(t)}
  /\ Finished(t, user)
  /\ UNCHANGED <<owner, user, saved, disk, loading, stream, session, wipe, rows, crashes, crossed, late, stranded>>

\* 200 with a page that is not JSON, from a captive portal: an ApiException
\* with a status below 500, so the ping is dropped like a refused one.
Portal(t) ==
  /\ task[t].pc \in {"drain", "own"}
  /\ owed' = owed \ {InFlight(t)}
  /\ Finished(t, user)
  /\ UNCHANGED <<owner, user, saved, disk, loading, stream, session, wipe, rows, crashes, crossed, late, stranded>>

\* 401: no token went out, or it is no longer good.  onUnauthorized starts the
\* teardown and drops the token at once, whoever is signed in by now; the deletes
\* of the stored one are not waited for (handleUnauthorized).
Unauthorized(t) ==
  /\ task[t].pc \in {"drain", "own"} /\ session < MaxSessions
  /\ wipe' = "cancel" /\ user' = NoUser /\ saved' \in {saved, NoUser}
  /\ owed' = owed \ {InFlight(t)}
  /\ Finished(t, NoUser)
  /\ UNCHANGED <<owner, disk, loading, stream, session, rows, crashes, crossed, late, stranded>>

\* Slip: the loop takes a ping off its copy before the post succeeds.
DrainDropsHead(t) ==
  /\ task[t].pc = "drain"
  /\ EndDrain(t, Tail(task[t].rest), TRUE, user)
  /\ UNCHANGED <<owner, user, saved, disk, loading, stream, session, wipe, rows, crashes, history>>

\* A timeout, no network, or 5xx is worth a retry: the drain stops here, and
\* keeps the ping at the head of its copy.
DrainFailed(t) ==
  /\ task[t].pc = "drain"
  /\ EndDrain(t, task[t].rest, task[t].moved, user)
  /\ UNCHANGED <<owner, user, saved, disk, loading, stream, session, wipe, rows, crashes, history>>

\* The upload's own post failed like that: the ping is queued.
PostFailed(t) ==
  /\ task[t].pc = "own"
  /\ IF task[t].session # session
     THEN task' = [task EXCEPT ![t] = Idle] /\ UNCHANGED <<queue, owed, crossed>>
     ELSE IF loading = "done" THEN Enqueue(t)
     ELSE task' = [task EXCEPT ![t].pc = "enqueue"] /\ UNCHANGED <<queue, owed, crossed>>
  /\ UNCHANGED <<owner, user, saved, disk, loading, flushing, stream, session, wipe, net, rows, crashes, late, stranded>>

-----------------------------------------------------------------------------
(* The session, the process and the server.                                *)

\* Login or registration: AuthService._persist.  By the time someone has typed
\* credentials and the server has answered, what waited for the phone's own
\* storage is over; what waits for the network or a fix need not be.
LogIn(u) ==
  /\ user = NoUser /\ wipe = "none"
  /\ \A t \in Tasks : task[t].pc \in {"idle", "fix", "drain", "own"}
  /\ user' = u /\ saved' = u
  /\ UNCHANGED <<owner, queue, disk, loading, flushing, stream, session, wipe, task, net, rows, crashes, history>>

\* ProfileScreen._logout: the teardown, then the token.
LogOut ==
  /\ user # NoUser /\ wipe = "none" /\ session < MaxSessions
  /\ wipe' = "cancel"
  /\ UNCHANGED <<owner, user, saved, queue, disk, loading, flushing, stream, session, task, net, rows, crashes, history>>

\* The stream is cancelled: stop() and the first half of clearQueue.
WipeMemory ==
  /\ wipe = "cancel"
  /\ wipe' = "remove" /\ stream' = FALSE /\ session' = session + 1
  /\ queue' = <<>> /\ loading' = "done"
  /\ owed' = {}
  /\ UNCHANGED <<owner, user, saved, disk, flushing, task, net, rows, crashes, crossed, late, stranded>>

\* The stored queue is removed; a logout then drops the token, and after a 401
\* the stored one is deleted by now.
WipeDisk ==
  /\ wipe = "remove"
  /\ wipe' = "none" /\ disk' = <<>> /\ queue' = <<>>
  /\ user' = NoUser /\ saved' = NoUser
  /\ owed' = {}
  /\ UNCHANGED <<owner, loading, flushing, stream, session, task, net, rows, crashes, crossed, late, stranded>>

\* The process is killed and started again: memory is lost, restoreSession
\* takes up the stored token.  No task is left to compare _session with, so it
\* need not start again at 0.
Crash ==
  /\ crashes < MaxCrashes
  /\ crashes' = crashes + 1
  /\ user' = saved /\ queue' = <<>> /\ loading' = "none" /\ flushing' = FALSE
  /\ stream' = FALSE /\ wipe' = "none"
  /\ task' = [t \in Tasks |-> Idle]
  /\ owed' = IF saved = NoUser THEN {} ELSE owed \cap Elements(disk)
  /\ stranded' = (stranded \/ (saved = NoUser /\ disk # <<>>))
  /\ UNCHANGED <<owner, saved, disk, session, net, rows, crossed, late>>

\* Slip: no unique index on (user_id, recorded_at, source).
StoredAgain(m) == rows[m] + 1

\* The rows for a ping after an insert: the unique index keeps one, and
\* ingest_location answers the replay 201.
Stored(m) == IF rows[m] = 0 THEN 1 ELSE rows[m]

\* POST /locations reaches the server, possibly long after the client gave up.
Ingest ==
  /\ \E m \in net :
       /\ net' = net \ {m}
       /\ rows' = [rows EXCEPT ![m] = IF m[2] \in Invalid THEN @ ELSE Stored(m)]
  /\ UNCHANGED <<client, crashes, history>>

Next ==
  \/ \E t \in Tasks :
       \/ Position(t) \/ Press(t) \/ Fix(t) \/ NoFix(t) \/ Loaded(t) \/ Save(t) \/ Keep(t) \/ EnqueueLate(t)
       \/ Accepted(t) \/ Refused(t) \/ Portal(t) \/ Unauthorized(t)
       \/ DrainFailed(t) \/ PostFailed(t)
  \/ StartLoad \/ FinishRead \/ StreamStarts
  \/ \E u \in Users : LogIn(u)
  \/ LogOut \/ WipeMemory \/ WipeDisk \/ Crash \/ Ingest

Spec == Init /\ [][Next]_vars

-----------------------------------------------------------------------------
(* What the code promises.                                                 *)

TaskState ==
  [pc : {"idle", "fix", "load", "drain", "save", "own", "enqueue", "keep"},
   ping : 0..MaxPings, session : 0..MaxSessions, as : Users \cup {NoUser},
   rest : Seq(Pings), moved : BOOLEAN]

\* Every variable has its shape.
TypeOK ==
  /\ owner \in Seq(Users \cup {NoUser}) /\ Len(owner) <= MaxPings
  /\ user \in Users \cup {NoUser} /\ saved \in Users \cup {NoUser}
  /\ queue \in Seq(Pings) /\ disk \in Seq(Pings)
  /\ loading \in {"none", "reading", "done"} /\ flushing \in BOOLEAN
  /\ stream \in BOOLEAN /\ session \in 0..MaxSessions /\ wipe \in {"none", "cancel", "remove"}
  /\ task \in [Tasks -> TaskState]
  /\ net \subseteq Users \X Pings
  /\ rows \in [Users \X Pings -> Nat]
  /\ crashes \in 0..MaxCrashes
  /\ owed \subseteq Pings /\ crossed \subseteq Pings /\ late \subseteq Pings
  /\ stranded \in BOOLEAN

\* The queue keeps to its cap and never holds a ping twice, in memory and as
\* stored, though two uploads may change it in turns (_enqueue, _flushQueue); and
\* however often a ping is sent, after lost answers, overlapping drains, kills
\* and late requests, the server keeps one row of it per account.
QueueSound ==
  /\ \A q \in {queue, disk} :
       Len(q) <= Cap /\ Cardinality(Elements(q)) = Len(q)
  /\ \A m \in Users \X Pings : rows[m] <= 1

\* No ping that one account recorded waits for another to send it, in memory or as
\* stored: no upload of an ended session writes to the queue (the session guards of
\* _upload, _enqueue and _flushQueue), however late its answers, and whatever a 401, a
\* logout or a kill leaves of the stored token.  Two exceptions are the code's: a
\* ping taken once its session had ended, and what a kill in mid-teardown leaves
\* behind.  A ping that was taken with nobody signed in may wait for anybody.
NoOthersPings ==
  user # NoUser /\ ~stranded =>
    \A n \in (Elements(queue) \cup Elements(disk)) \ late : owner[n] \in {user, NoUser}

\* home_provider.dart: "Queued pings belong to the user who recorded them, not to
\* whoever logs in on this device next."  What a drain takes from the queue goes
\* out with the token of the account that recorded it.  The code does not keep this:
\* a stream that runs signed out leaves pings to the next account, and the loop of
\* _flushQueue asks for the token at every post, but for the session only when it
\* ends.  (A ping taken once its session had ended is left out.)
DrainSendsOwn ==
  \A t \in Tasks : task[t].pc = "drain" /\ task[t].as # NoUser =>
    Head(task[t].rest) \in late \/ owner[Head(task[t].rest)] = task[t].as

\* What a task has in hand: the ping it will still post or queue.
InHand(n) == \E t \in Tasks : task[t].pc \notin {"idle", "fix", "keep"} /\ task[t].ping = n

\* A ping whose failures could all be retried is on the server, in the queue,
\* in the stored queue that is yet to be read, or in an upload's hands.
Held(n) ==
  \/ rows[<<owner[n], n>>] > 0
  \/ n \in Elements(queue)
  \/ loading # "done" /\ n \in Elements(disk)
  \/ InHand(n)

\* No ping is forgotten, except one that was queued while another upload was
\* draining the queue.
NothingForgotten == \A n \in owed \ crossed : Held(n)

=============================================================================
