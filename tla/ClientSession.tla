--------------------------- MODULE ClientSession ---------------------------
(***************************************************************************)
(* The app's session: who is signed in (auth_service.dart,                 *)
(* auth_provider.dart), the consent gate (consent_service.dart,            *)
(* consent_provider.dart, app_router.dart), and what Home starts and a     *)
(* teardown stops (home_provider.dart, alert_service.dart, start and stop  *)
(* of location_service.dart).                                              *)
(*                                                                         *)
(* An async function that waits is a flow: what runs from one await that   *)
(* waits to the next is a step.  Any 401 calls onUnauthorized, whose       *)
(* teardown is a flow of its own.  A frame is what AuthGate draws; between *)
(* two frames providers may change more than once.                         *)
(*                                                                         *)
(* _session and _alertRequest are counters that are only ever compared     *)
(* with a copy, so a flow keeps the outcome of that comparison instead:    *)
(* valid is FALSE once the counter has moved on.  _loadedFor is left out:  *)
(* AuthGate calls loadFor only while the status is unknown, when its guard *)
(* never holds.                                                            *)
(***************************************************************************)
EXTENDS Integers

CONSTANTS
  Users,        \* the accounts used on this phone
  NoUser,       \* nobody signed in, no token
  Flows,        \* bound: async functions waiting at once
  MaxExpired,   \* bound: 401 answers to a token
  MaxNews,      \* bound: states of the server's alerts
  MaxRestarts   \* bound: times the process is killed

ASSUME SessionAssumption ==
  /\ NoUser \notin Users
  /\ MaxExpired \in Nat /\ MaxNews \in Nat \ {0} /\ MaxRestarts \in Nat

VARIABLES
  token,      \* ApiClient._token
  shown,      \* AuthProvider._user; NoUser is AuthStatus.unauthenticated
  signing,    \* the login whose session is being stored
  status,     \* ConsentProvider._status
  record,     \* the stored consent record of each account
  unsynced,   \* the stored list consent_unsynced
  home,       \* HomeScreen is mounted
  stream,     \* _subscription # null
  starting,   \* LocationService._starting
  banner,     \* HomeProvider._alert: the state of the alerts it shows, 0 for none
  flow,       \* the async functions that wait
  news,       \* the server's alerts: the number of their state
  expired,    \* 401 answers to a token so far
  restarts,   \* kills so far
  cut         \* history: accounts whose consent push a kill cut off

auth == <<token, shown, signing>>
consent == <<status, record, unsynced>>
tracking == <<stream, starting>>
world == <<news, expired, restarts, cut>>
vars == <<auth, consent, home, tracking, banner, flow, world>>

Idle == [pc |-> "idle", kind |-> "none", user |-> NoUser, authorized |-> FALSE,
         valid |-> TRUE, got |-> 0]

Free(f) == flow[f].pc = "idle"

\* People are slower than the phone's own storage; frames are not.
Settled == \A f \in Flows : flow[f].pc \notin {"read", "mark", "stop", "clear", "forget"}

Init ==
  /\ token = NoUser /\ shown = NoUser /\ signing = NoUser
  /\ status = "unknown"
  /\ record = [u \in Users |-> "none"] /\ unsynced = {}
  /\ home = FALSE
  /\ stream = FALSE /\ starting = FALSE /\ banner = 0
  /\ flow = [f \in Flows |-> Idle]
  /\ news = 1 /\ expired = 0 /\ restarts = 0 /\ cut = {}

-----------------------------------------------------------------------------
(* Teardown.                                                               *)

\* _alertRequest++, and _session++ in stop().
VoidRequests(F) == [f \in Flows |-> IF F[f].kind = "refresh" THEN [F[f] EXCEPT !.valid = FALSE] ELSE F[f]]
VoidStarts(F) == [f \in Flows |-> IF F[f].pc = "starting" THEN [F[f] EXCEPT !.valid = FALSE] ELSE F[f]]

\* resetForLostSession up to its first wait: the pending banner requests are
\* void, and stop() cancels the stream; with no stream it goes straight on.  The
\* flow knows whose session it was.
ResetBegins(F, f, kind) ==
  LET G == [VoidRequests(F) EXCEPT ![f] =
             [Idle EXCEPT !.pc = IF stream THEN "stop" ELSE "clear", !.kind = kind, !.user = shown]]
  IN  IF stream THEN G ELSE VoidStarts(G)

\* The stream is cancelled, for every stop() that waits for it.
Cancelled ==
  /\ \E f \in Flows : flow[f].pc = "stop"
  /\ stream' = FALSE
  /\ flow' = [f \in Flows |->
       IF flow[f].pc = "stop" THEN [flow[f] EXCEPT !.pc = "clear"] ELSE VoidStarts(flow)[f]]
  /\ UNCHANGED <<auth, consent, home, starting, banner, world>>

\* clearQueue and FeedbackService.clear are through.  A logout goes on with
\* consent.reset and auth.logout, a withdrawal with auth.logout alone.
Cleared(f) ==
  /\ flow[f].pc = "clear"
  /\ banner' = 0
  /\ \/ /\ flow[f].kind = "lost"
        /\ flow' = [flow EXCEPT ![f] = Idle]
        /\ UNCHANGED <<token, status>>
     \/ /\ flow[f].kind \in {"logout", "withdraw"}
        /\ token' = NoUser
        /\ status' = IF flow[f].kind = "logout" THEN "unknown" ELSE status
        /\ flow' = [flow EXCEPT ![f].pc = "forget"]
  /\ UNCHANGED <<shown, signing, record, unsynced, home, tracking, world>>

\* The stored session is deleted: the tail of AuthProvider.logout.
Forgotten(f) ==
  /\ flow[f].pc = "forget"
  /\ shown' = NoUser
  /\ flow' = [flow EXCEPT ![f] = Idle]
  /\ UNCHANGED <<token, signing, consent, home, tracking, banner, world>>

-----------------------------------------------------------------------------
(* Requests.                                                               *)

Requests == {"consent", "device", "get"}

\* The state of a flow whose request ended in an ApiException, which every
\* caller catches: a consent push is marked, the others go on without.
Caught(s) ==
  CASE s.pc = "consent" -> [s EXCEPT !.pc = "mark"]
    [] s.pc = "device"  -> [s EXCEPT !.pc = "next"]
    [] s.pc = "get"     -> Idle

\* POST /consent is always refused: ConsentRecord.toJson has no noticeVersion.
\* A device request has no effect here, whether it succeeds or not.
Answered(f) ==
  /\ flow[f].pc \in Requests
  /\ flow' = [flow EXCEPT ![f] = Caught(@)]
  /\ UNCHANGED <<auth, consent, home, tracking, banner, world>>

\* Slip: the session is dropped "exactly once", and a 401 with nobody signed in
\* is ignored.
TornDownOnce(F, g) == IF shown = NoUser THEN F ELSE ResetBegins(F, g, "lost")

\* The network-free teardown begins, whoever is signed in.
TornDown(F, g) == ResetBegins(F, g, "lost")

\* A 401 costs the session unless there was no token: onUnauthorized and what
\* it calls, up to the first wait, with the other flows as F says.
\* handleUnauthorized returns early when nobody is signed in, also while a login
\* is being stored.
OnUnauthorized(authorized, F, g) ==
  /\ authorized => expired < MaxExpired
  /\ expired' = IF authorized THEN expired + 1 ELSE expired
  /\ Free(g)
  /\ flow' = TornDown(F, g)
  /\ status' = "unknown"
  /\ shown' = NoUser
  /\ token' = IF shown = NoUser THEN token ELSE NoUser
  /\ UNCHANGED <<signing, record, unsynced, home, tracking, banner, news, restarts, cut>>

Unauthorized(f, g) ==
  /\ flow[f].pc \in Requests /\ f # g
  /\ OnUnauthorized(flow[f].authorized, [flow EXCEPT ![f] = Caught(@)], g)

\* A ping of the position stream gets a 401.
PingUnauthorized(g) ==
  /\ stream
  /\ OnUnauthorized(token # NoUser, flow, g)

-----------------------------------------------------------------------------
(* Consent.                                                                *)

\* Slip: only a consent that is there changes the status.
GateOnlyOpens(granted) == IF granted THEN "granted" ELSE status

\* The status for a record that grants consent, and for one that does not.
Gate(granted) == IF granted THEN "granted" ELSE "needed"

\* loadFor has read the stored record.  A grant that the server never received
\* is pushed again (syncPending).
Loaded(f) ==
  /\ flow[f].pc = "read"
  /\ LET granted == record[flow[f].user] = "granted"
     IN  /\ status' = Gate(granted)
         /\ flow' = [flow EXCEPT ![f] =
              IF granted /\ flow[f].user \in unsynced
              THEN [@ EXCEPT !.pc = "consent", !.authorized = token # NoUser] ELSE Idle]
  /\ UNCHANGED <<auth, record, unsynced, home, tracking, banner, world>>

\* ConsentProvider._isBusy: the screen's buttons are off.
Busy == \E f \in Flows : flow[f].kind \in {"grant", "withdraw"} /\ flow[f].pc \in {"consent", "mark"}

\* "I agree": the record is stored, then pushed.
Grant(f) ==
  /\ Free(f) /\ Settled /\ ~home /\ shown # NoUser /\ status = "needed" /\ ~Busy
  /\ record' = [record EXCEPT ![shown] = "granted"]
  /\ flow' = [flow EXCEPT ![f] =
       [Idle EXCEPT !.pc = "consent", !.kind = "grant", !.user = shown, !.authorized = token # NoUser]]
  /\ UNCHANGED <<auth, status, unsynced, home, tracking, banner, world>>

\* "Withdraw consent" on the profile: the same, the teardown comes after it.
Withdraw(f) ==
  /\ Free(f) /\ Settled /\ home /\ shown # NoUser
  /\ record' = [record EXCEPT ![shown] = "withdrawn"]
  /\ flow' = [flow EXCEPT ![f] =
       [Idle EXCEPT !.pc = "consent", !.kind = "withdraw", !.user = shown, !.authorized = token # NoUser]]
  /\ UNCHANGED <<auth, status, unsynced, home, tracking, banner, world>>

\* Slip: a push that fails with the session is not noted.
MarkedWhileSignedIn(u) == IF token = NoUser THEN unsynced ELSE unsynced \cup {u}

\* _markUnsynced.
MarkedUnsynced(u) == unsynced \cup {u}

\* The push failed and is noted.  ConsentProvider takes over what was recorded;
\* a withdrawal goes on with onSignOut.
Marked(f) ==
  /\ flow[f].pc = "mark"
  /\ unsynced' = MarkedUnsynced(flow[f].user)
  /\ \/ /\ flow[f].kind = "load"
        /\ flow' = [flow EXCEPT ![f] = Idle]
        /\ UNCHANGED status
     \/ /\ flow[f].kind = "grant"
        /\ status' = "granted"
        /\ flow' = [flow EXCEPT ![f] = Idle]
     \/ /\ flow[f].kind = "withdraw"
        /\ status' = "needed"
        /\ flow' = [flow EXCEPT ![f].pc = "fcm"]
  /\ UNCHANGED <<auth, record, home, tracking, banner, world>>

-----------------------------------------------------------------------------
(* Sign-in and sign-out.                                                   *)

\* The answer to a login or registration: _persist sets the token...
LogIn(u) ==
  /\ shown = NoUser /\ signing = NoUser
  /\ Settled /\ ~home
  /\ token' = u /\ signing' = u
  /\ UNCHANGED <<shown, consent, home, tracking, banner, flow, world>>

\* ...and stores the session.
Persisted ==
  /\ signing # NoUser
  /\ shown' = signing /\ signing' = NoUser
  /\ UNCHANGED <<token, consent, home, tracking, banner, flow, world>>

\* "Log out" on the profile: onSignOut asks FCM for the token to unregister.
LogOut(f) ==
  /\ Free(f) /\ Settled /\ home /\ shown # NoUser
  /\ flow' = [flow EXCEPT ![f] = [Idle EXCEPT !.pc = "fcm", !.kind = "logout"]]
  /\ UNCHANGED <<auth, consent, home, tracking, banner, world>>

\* "No thanks" on the consent screen: no teardown, there is nothing to stop.
Decline(f) ==
  /\ Free(f) /\ Settled /\ ~home /\ shown # NoUser /\ status = "needed" /\ ~Busy
  /\ status' = "unknown" /\ token' = NoUser
  /\ flow' = [flow EXCEPT ![f] = [Idle EXCEPT !.pc = "forget", !.kind = "decline"]]
  /\ UNCHANGED <<shown, signing, record, unsynced, home, tracking, banner, world>>

-----------------------------------------------------------------------------
(* What AuthGate draws.                                                    *)

AtHome == shown # NoUser /\ status = "granted"

\* Anything but Home: HomeScreen is gone.
FrameLeave ==
  /\ home /\ ~AtHome
  /\ home' = FALSE
  /\ UNCHANGED <<auth, consent, tracking, banner, flow, world>>

\* The splash: loadFor is called for the account.
FrameLoad(f) ==
  /\ Free(f) /\ ~home /\ shown # NoUser /\ status = "unknown"
  /\ \A g \in Flows : ~(flow[g].pc = "read" /\ flow[g].user = shown)
  /\ flow' = [flow EXCEPT ![f] = [Idle EXCEPT !.pc = "read", !.kind = "load", !.user = shown]]
  /\ UNCHANGED <<auth, status, record, unsynced, home, tracking, banner, world>>

\* Home: onSignedIn is called.
FrameHome(f) ==
  /\ Free(f) /\ ~home /\ AtHome
  /\ home' = TRUE
  /\ flow' = [flow EXCEPT ![f] = [Idle EXCEPT !.pc = "access", !.kind = "open"]]
  /\ UNCHANGED <<auth, consent, tracking, banner, world>>

-----------------------------------------------------------------------------
(* Home.                                                                   *)

\* The permission warning's button: requestAccess.
Ask(f) ==
  /\ Free(f) /\ Settled /\ home /\ AtHome
  /\ flow' = [flow EXCEPT ![f] = [Idle EXCEPT !.pc = "access", !.kind = "ask"]]
  /\ UNCHANGED <<auth, consent, home, tracking, banner, world>>

\* Where onSignedIn and requestAccess go on after start(): registerDevice asks
\* for permission and the FCM token.
Started(s) == IF s.kind = "open" THEN [s EXCEPT !.pc = "fcm"] ELSE Idle

\* Permission is read, and asked for if need be, perhaps for long; with it,
\* start() is called.
CallStart(f) ==
  /\ flow[f].pc = "access"
  /\ \/ flow' = [flow EXCEPT ![f] = Started(@)] /\ UNCHANGED starting
     \/ /\ ~stream /\ ~starting
        /\ starting' = TRUE
        /\ flow' = [flow EXCEPT ![f].pc = "starting", ![f].valid = TRUE]
  /\ UNCHANGED <<auth, consent, home, stream, banner, world>>

\* Slip: the return after a stop() misses the finally.
GuardKept(f) == ~flow[f].valid

\* _starting after start(), on every path.
GuardAfter(f) == FALSE

\* start() has loaded the queue and read the permission once more.
StartEnds(f) ==
  /\ flow[f].pc = "starting"
  /\ starting' = GuardAfter(f)
  /\ \/ UNCHANGED stream
     \/ flow[f].valid /\ ~stream /\ stream' = TRUE
  /\ flow' = [flow EXCEPT ![f] = Started(@)]
  /\ UNCHANGED <<auth, consent, home, banner, world>>

\* FCM has given its token, and the device request leaves.
SendDevice(f) ==
  /\ flow[f].pc = "fcm"
  /\ flow' = [flow EXCEPT ![f].pc = "device", ![f].authorized = token # NoUser]
  /\ UNCHANGED <<auth, consent, home, tracking, banner, world>>

\* refreshAlert up to the wait for a position.
Refreshing(f) ==
  [VoidRequests(flow) EXCEPT ![f] = [Idle EXCEPT !.pc = "position", !.kind = "refresh"]]

\* After the device request onSignedIn refreshes the banner, and onSignOut
\* begins the teardown.
AfterDevice(f) ==
  /\ flow[f].pc = "next"
  /\ \/ flow[f].kind = "open" /\ flow' = Refreshing(f)
     \/ flow[f].kind \in {"logout", "withdraw"} /\ flow' = ResetBegins(flow, f, flow[f].kind)
  /\ UNCHANGED <<auth, consent, home, tracking, banner, world>>

\* A push, at any time, or a pull: refreshAlert.
Refresh(f) ==
  /\ Free(f)
  /\ flow' = Refreshing(f)
  /\ UNCHANGED <<auth, consent, home, tracking, banner, world>>

\* There is a position, or none in time: GET /alerts/active.
SendGet(f) ==
  /\ flow[f].pc = "position"
  /\ flow' = [flow EXCEPT ![f].pc = "get", ![f].authorized = token # NoUser]
  /\ UNCHANGED <<auth, consent, home, tracking, banner, world>>

\* The server answers with its alerts as they are now.
Serve(f) ==
  /\ flow[f].pc = "get" /\ flow[f].authorized
  /\ flow' = [flow EXCEPT ![f].pc = "served", ![f].got = news]
  /\ UNCHANGED <<auth, consent, home, tracking, banner, world>>

\* Slip: every answer is shown.
ShownAlways(f) == flow[f].got

\* The banner after an answer.
ShownNow(f) == IF flow[f].valid THEN flow[f].got ELSE banner

\* The answer is here, and shown if no newer request was made.
Show(f) ==
  /\ flow[f].pc = "served"
  /\ banner' = ShownNow(f)
  /\ flow' = [flow EXCEPT ![f] = Idle]
  /\ UNCHANGED <<auth, consent, home, tracking, world>>

-----------------------------------------------------------------------------
(* The server and the process.                                             *)

\* An alert is issued, retracted or over.
AlertsChange ==
  /\ news < MaxNews
  /\ news' = news + 1
  /\ UNCHANGED <<auth, consent, home, tracking, banner, flow, expired, restarts, cut>>

Pushing(u) == \E f \in Flows : flow[f].pc \in {"consent", "mark"} /\ flow[f].user = u

\* handleUnauthorized does not wait for the deletes of the stored session; they
\* may be outstanding for as long as the teardown beside them is.
BeingDeleted ==
  {flow[f].user : f \in {g \in Flows : token = NoUser /\ flow[g].kind = "lost"}}

\* The process is killed, and restoreSession takes up what is stored: the
\* session of the token, or of an account being stored or deleted.
Restart ==
  /\ restarts < MaxRestarts
  /\ restarts' = restarts + 1
  /\ \E u \in {token, shown} \cup BeingDeleted : token' = u /\ shown' = u
  /\ signing' = NoUser
  /\ status' = "unknown"
  /\ home' = FALSE
  /\ stream' = FALSE /\ starting' = FALSE /\ banner' = 0
  /\ flow' = [f \in Flows |-> Idle]
  /\ cut' = cut \cup {u \in Users : Pushing(u)}
  /\ UNCHANGED <<record, unsynced, news, expired>>

-----------------------------------------------------------------------------

\* What a waiting function does next, a 401 aside.
FlowStep(f) ==
  \/ Cleared(f) \/ Forgotten(f) \/ Answered(f) \/ Loaded(f) \/ Marked(f)
  \/ CallStart(f) \/ StartEnds(f) \/ SendDevice(f) \/ AfterDevice(f)
  \/ SendGet(f) \/ Serve(f) \/ Show(f)

\* What people, pushes and the position stream do.
Call(f) ==
  \/ Grant(f) \/ Withdraw(f) \/ LogOut(f) \/ Decline(f) \/ Ask(f) \/ Refresh(f)
  \/ PingUnauthorized(f) \/ \E g \in Flows : Unauthorized(f, g)

Frame == FrameLeave \/ \E f \in Flows : FrameLoad(f) \/ FrameHome(f)

Next ==
  \/ \E f \in Flows : FlowStep(f) \/ Call(f)
  \/ Frame \/ Cancelled
  \/ \E u \in Users : LogIn(u)
  \/ Persisted \/ AlertsChange \/ Restart

Spec == Init /\ [][Next]_vars

\* Frames are drawn, storage and the platform answer, a request is answered or
\* times out; the position stream ticks every minute, and one of its pings gets
\* through to the server and its answer.  Strong fairness makes up for the bound
\* Flows, which pushes could otherwise use up; the code has no such limit.
FairSpec ==
  /\ Spec
  /\ SF_vars(token = NoUser /\ \E g \in Flows : PingUnauthorized(g))
  /\ SF_vars(Frame) /\ WF_vars(Cancelled) /\ WF_vars(Persisted)
  /\ \A f \in Flows : WF_vars(FlowStep(f))

-----------------------------------------------------------------------------
(* What the code promises.                                                 *)

FlowState ==
  [pc : {"idle", "read", "consent", "mark", "fcm", "device", "next", "access", "starting",
         "position", "get", "served", "stop", "clear", "forget"},
   kind : {"none", "load", "grant", "withdraw", "logout", "decline", "lost", "open", "ask", "refresh"},
   user : Users \cup {NoUser}, authorized : BOOLEAN, valid : BOOLEAN, got : 0..MaxNews]

\* Types; and start()'s guard is up exactly while a start() waits, so that it
\* never keeps tracking off for good (start, its finally).
TypeOK ==
  /\ {token, shown, signing} \subseteq Users \cup {NoUser}
  /\ status \in {"unknown", "granted", "needed"}
  /\ record \in [Users -> {"none", "granted", "withdrawn"}]
  /\ unsynced \subseteq Users /\ cut \subseteq Users
  /\ home \in BOOLEAN /\ stream \in BOOLEAN
  /\ starting = (\E f \in Flows : flow[f].pc = "starting")
  /\ banner \in 0..MaxNews /\ news \in 1..MaxNews
  /\ flow \in [Flows -> FlowState]
  /\ expired \in 0..MaxExpired /\ restarts \in 0..MaxRestarts

\* Within a session the banner never goes back to an older state of the
\* banner, however slow and reordered the answers (refreshAlert).
BannerNeverGoesBack == [][banner' >= banner \/ banner' = 0]_banner

\* A consent record the server has not taken is on the retry list or being
\* pushed, unless a kill cut the push off (_push, _markUnsynced).
NoRecordForgotten ==
  \A u \in Users : record[u] # "none" => u \in unsynced \/ Pushing(u) \/ u \in cut

\* Nobody stays on the splash: an account that is signed in gets its consent
\* read, whatever is torn down meanwhile (AuthGate, loadFor).
SplashEnds ==
  \A u \in Users : (shown = u /\ status = "unknown") ~> (shown # u \/ status # "unknown")

\* A start() that ends after its session did leaves a stream behind without a
\* session; the 401 to one of its pings stops it, though nobody is signed in
\* (onUnauthorized).
OrphanStreamStops == (stream /\ token = NoUser) ~> (~stream \/ token # NoUser)

-----------------------------------------------------------------------------
(* What a comment says and the code does not keep.                         *)

\* ConsentProvider: "a different user signing in on the same device is never
\* let through on someone else's consent".
OwnConsentOnly == [][home' /\ ~home => record[shown] = "granted"]_vars

=============================================================================
