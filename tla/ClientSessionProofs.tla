------------------------ MODULE ClientSessionProofs ------------------------
(***************************************************************************)
(* Theorems about ClientSession, for every set of accounts, every number   *)
(* of functions waiting at once and every bound.                           *)
(*                                                                         *)
(* A step rewrites the states of a few flows and may void others, as       *)
(* _alertRequest++ and _session++ do.  What that leaves of a state is      *)
(* Left, proved once for VoidRequests, VoidStarts and ResetBegins; each    *)
(* action is then a matter of the one or two flows it moves.               *)
(***************************************************************************)
EXTENDS ClientSession, TLAPS

-----------------------------------------------------------------------------
(* The states of flows.                                                    *)

\* What a flow that waits at a point is about.
Shaped(s) ==
  /\ s.pc \in {"idle"} => s.kind = "none"
  /\ s.pc \in {"read", "consent", "mark"} => s.user \in Users
  /\ s.pc = "read" => s.kind = "load"
  /\ s.pc \in {"consent", "mark"} => s.kind \in {"load", "grant", "withdraw"}
  /\ s.pc \in {"fcm", "device", "next"} => s.kind \in {"open", "logout", "withdraw"}
  /\ s.pc \in {"access", "starting"} => s.kind \in {"open", "ask"}
  /\ s.pc \in {"position", "get", "served"} => s.kind = "refresh"
  /\ s.pc \in {"stop", "clear"} => s.kind \in {"lost", "logout", "withdraw"}
  /\ s.pc = "forget" => s.kind \in {"logout", "withdraw", "decline"}

\* The states flows can be in.
State == {s \in FlowState : Shaped(s)}

\* At most one start() waits: its guard _starting keeps the second one out.
OneStart ==
  \A f, g \in Flows : flow[f].pc = "starting" /\ flow[g].pc = "starting" => f = g

TypeInv == TypeOK /\ flow \in [Flows -> State] /\ OneStart

\* t is the state s, perhaps void by now.
Left(s, t) ==
  /\ t.pc = s.pc /\ t.kind = s.kind /\ t.user = s.user /\ t.got = s.got
  /\ t.valid => s.valid

LEMMA IdleIsState == Idle \in State
BY SessionAssumption DEF Idle, State, FlowState, Shaped

\* A new state of a flow.
Made(p, k) == [Idle EXCEPT !.pc = p, !.kind = k]

LEMMA FreshIs ==
  ASSUME NEW p \in {"stop", "clear", "read", "consent", "access", "fcm", "forget", "position"},
         NEW k \in {"none", "load", "grant", "withdraw", "logout", "decline", "lost",
                   "open", "ask", "refresh"}
  PROVE  /\ Made(p, k) \in FlowState /\ Made(p, k).pc = p /\ Made(p, k).kind = k
         /\ Made(p, k).user = NoUser /\ Made(p, k).valid = TRUE /\ Made(p, k).got = 0
<1> DEFINE a == [Idle EXCEPT !.pc = p]
<1>1. /\ a \in FlowState /\ a.pc = p
      /\ a.user = NoUser /\ a.valid = TRUE /\ a.got = 0
  <2>1. Idle \in FlowState /\ Idle.user = NoUser /\ Idle.valid = TRUE /\ Idle.got = 0
    BY SessionAssumption DEF Idle, FlowState
  <2> QED
    BY <2>1 DEF FlowState
<1>2. Made(p, k) = [a EXCEPT !.kind = k]
  BY DEF Made
<1> HIDE DEF a
<1> QED
  BY <1>1, <1>2 DEF FlowState

\* A push of the record of the account shown, and the read of it.
PushOf(k) == [Idle EXCEPT !.pc = "consent", !.kind = k, !.user = shown, !.authorized = token # NoUser]

LoadOf == [Idle EXCEPT !.pc = "read", !.kind = "load", !.user = shown]

LEMMA PushIs ==
  ASSUME shown \in Users, NEW k \in {"grant", "withdraw"}
  PROVE  /\ PushOf(k) \in State /\ PushOf(k).pc = "consent"
         /\ PushOf(k).kind = k /\ PushOf(k).user = shown
<1> DEFINE v == [Made("consent", k) EXCEPT !.user = shown]
<1>1. /\ Made("consent", k) \in FlowState
      /\ Made("consent", k).pc = "consent" /\ Made("consent", k).kind = k
  BY FreshIs
<1>2. v \in FlowState /\ v.pc = "consent" /\ v.kind = k /\ v.user = shown
  BY <1>1 DEF FlowState
<1>3. PushOf(k) = [v EXCEPT !.authorized = token # NoUser]
  BY DEF PushOf, Made
<1> HIDE DEF v
<1> QED
  BY <1>2, <1>3 DEF State, FlowState, Shaped

LEMMA LoadIs ==
  ASSUME shown \in Users
  PROVE  LoadOf \in State /\ LoadOf.pc = "read" /\ LoadOf.kind = "load"
<1>1. /\ Made("read", "load") \in FlowState
      /\ Made("read", "load").pc = "read" /\ Made("read", "load").kind = "load"
  BY FreshIs
<1>2. LoadOf = [Made("read", "load") EXCEPT !.user = shown]
  BY DEF LoadOf, Made
<1> QED
  BY <1>1, <1>2 DEF State, FlowState, Shaped

LEMMA Voided ==
  ASSUME NEW s \in State
  PROVE  [s EXCEPT !.valid = FALSE] \in State /\ Left(s, [s EXCEPT !.valid = FALSE])
BY DEF State, FlowState, Shaped, Left

LEMMA VoidRequestsIs ==
  ASSUME NEW F \in [Flows -> State]
  PROVE  /\ VoidRequests(F) \in [Flows -> State]
         /\ \A x \in Flows : /\ Left(F[x], VoidRequests(F)[x])
                             /\ F[x].kind = "refresh" => ~VoidRequests(F)[x].valid
<1>1. \A x \in Flows : /\ [F[x] EXCEPT !.valid = FALSE] \in State
                       /\ Left(F[x], [F[x] EXCEPT !.valid = FALSE])
                       /\ ~[F[x] EXCEPT !.valid = FALSE].valid
  BY Voided DEF State, FlowState
<1>2. \A x \in Flows : Left(F[x], F[x])
  BY DEF Left
<1> QED
  BY <1>1, <1>2 DEF VoidRequests

LEMMA VoidStartsIs ==
  ASSUME NEW F \in [Flows -> State]
  PROVE  /\ VoidStarts(F) \in [Flows -> State]
         /\ \A x \in Flows : Left(F[x], VoidStarts(F)[x])
<1>1. \A x \in Flows : /\ [F[x] EXCEPT !.valid = FALSE] \in State
                       /\ Left(F[x], [F[x] EXCEPT !.valid = FALSE])
  BY Voided
<1>2. \A x \in Flows : Left(F[x], F[x])
  BY DEF Left
<1> QED
  BY <1>1, <1>2 DEF VoidStarts

\* The first stretch of a teardown takes one flow and leaves the others,
\* with every banner request void.
LEMMA ResetBeginsIs ==
  ASSUME shown \in Users \cup {NoUser}, NEW F \in [Flows -> State], NEW f \in Flows,
         NEW kind \in {"lost", "logout", "withdraw"}
  PROVE  /\ ResetBegins(F, f, kind) \in [Flows -> State]
         /\ ResetBegins(F, f, kind)[f].pc \in {"stop", "clear"}
         /\ \A x \in Flows \ {f} :
              /\ Left(F[x], ResetBegins(F, f, kind)[x])
              /\ F[x].kind = "refresh" => ~ResetBegins(F, f, kind)[x].valid
<1> DEFINE t == [Idle EXCEPT !.pc = IF stream THEN "stop" ELSE "clear", !.kind = kind,
                             !.user = shown]
           G == [VoidRequests(F) EXCEPT ![f] = t]
<1>1. t \in State /\ t.pc \in {"stop", "clear"}
  <2>1. \A p \in {"stop", "clear"} :
          Made(p, kind) \in FlowState /\ Made(p, kind).pc = p /\ Made(p, kind).kind = kind
    BY FreshIs
  <2>2. PICK s \in FlowState : /\ s = Made(IF stream THEN "stop" ELSE "clear", kind)
                               /\ s.pc \in {"stop", "clear"} /\ s.kind = kind
    BY <2>1
  <2>3. t = [s EXCEPT !.user = shown]
    BY <2>2 DEF Made
  <2>4. t \in FlowState /\ t.pc = s.pc /\ t.kind = s.kind
    BY <2>3 DEF FlowState
  <2> HIDE DEF t
  <2> QED
    BY <2>2, <2>4 DEF State, Shaped
<1>2. /\ VoidRequests(F) \in [Flows -> State]
      /\ \A x \in Flows : /\ Left(F[x], VoidRequests(F)[x])
                          /\ F[x].kind = "refresh" => ~VoidRequests(F)[x].valid
  BY VoidRequestsIs
<1> HIDE DEF t
<1>3. /\ G \in [Flows -> State] /\ G[f] = t
      /\ \A x \in Flows \ {f} : G[x] = VoidRequests(F)[x]
  BY <1>1, <1>2
<1>4. ResetBegins(F, f, kind) = IF stream THEN G ELSE VoidStarts(G)
  BY DEF ResetBegins, t
<1> HIDE DEF G
<1>5. /\ VoidStarts(G) \in [Flows -> State]
      /\ \A x \in Flows : Left(G[x], VoidStarts(G)[x])
  BY <1>3, VoidStartsIs
<1>6. CASE stream
  BY <1>1, <1>2, <1>3, <1>4, <1>6
<1>7. CASE ~stream
  BY <1>1, <1>2, <1>3, <1>4, <1>5, <1>7 DEF Left
<1> QED
  BY <1>6, <1>7

\* What every caller makes of a failed request.
LEMMA CaughtIs ==
  ASSUME NEW s \in State, s.pc \in Requests
  PROVE  /\ Caught(s) \in State
         /\ s.pc = "consent" => Caught(s).pc = "mark" /\ Caught(s).user = s.user
         /\ s.pc = "device" => Caught(s).pc = "next"
         /\ s.pc = "get" => Caught(s).pc = "idle"
BY IdleIsState DEF Caught, Requests, State, FlowState, Shaped, Idle

-----------------------------------------------------------------------------
(* Types: a lemma for every action.                                        *)

\* The part of TypeOK that is not about flows.
Scalars ==
  /\ {token, shown, signing} \subseteq Users \cup {NoUser}
  /\ status \in {"unknown", "granted", "needed"}
  /\ record \in [Users -> {"none", "granted", "withdrawn"}]
  /\ unsynced \subseteq Users /\ cut \subseteq Users
  /\ home \in BOOLEAN /\ stream \in BOOLEAN
  /\ banner \in 0..MaxNews /\ news \in 1..MaxNews
  /\ expired \in 0..MaxExpired /\ restarts \in 0..MaxRestarts

LEMMA TypeInvParts ==
  ASSUME TypeInv
  PROVE  Scalars /\ flow \in [Flows -> State]
BY DEF TypeInv, TypeOK, Scalars

LEMMA ResetIs ==
  ASSUME TypeInv, NEW F \in [Flows -> State], NEW f \in Flows,
         NEW kind \in {"lost", "logout", "withdraw"}
  PROVE  /\ ResetBegins(F, f, kind) \in [Flows -> State]
         /\ ResetBegins(F, f, kind)[f].pc \in {"stop", "clear"}
         /\ \A x \in Flows \ {f} :
              /\ Left(F[x], ResetBegins(F, f, kind)[x])
              /\ F[x].kind = "refresh" => ~ResetBegins(F, f, kind)[x].valid
<1>1. shown \in Users \cup {NoUser}
  BY TypeInvParts DEF Scalars
<1> QED
  BY <1>1, ResetBeginsIs

\* A step keeps TypeInv if it keeps the scalars in their types and leaves which
\* flows wait for a start().
LEMMA TypesKept ==
  ASSUME TypeInv, Scalars', starting' = starting, flow' \in [Flows -> State],
         \A x \in Flows : flow'[x].pc = "starting" <=> flow[x].pc = "starting"
  PROVE  TypeInv'
<1>1. flow' \in [Flows -> FlowState]
  BY DEF State
<1>2. starting' = (\E f \in Flows : flow'[f].pc = "starting")
  BY DEF TypeInv, TypeOK
<1>3. OneStart'
  BY DEF TypeInv, OneStart
<1> QED
  BY <1>1, <1>2, <1>3 DEF TypeInv, TypeOK, Scalars

\* The same of a step that moves one flow.
LEMMA MoveTypes ==
  ASSUME TypeInv, Scalars', starting' = starting,
         NEW f \in Flows, flow[f].pc # "starting",
         NEW t \in State, t.pc # "starting", flow' = [flow EXCEPT ![f] = t]
  PROVE  TypeInv'
<1>1. flow \in [Flows -> State]
  BY DEF TypeInv
<1> QED
  BY <1>1, TypesKept

\* The same of a step that leaves the flows alone.
LEMMA StillTypes ==
  ASSUME TypeInv, Scalars', UNCHANGED <<starting, flow>>
  PROVE  TypeInv'
BY TypesKept DEF TypeInv

LEMMA TypeInit ==
  ASSUME Init
  PROVE  TypeInv
<1>1. flow \in [Flows -> State] /\ \A f \in Flows : flow[f].pc = "idle"
  BY IdleIsState DEF Init, Idle
<1>2. flow \in [Flows -> FlowState]
  BY <1>1 DEF State
<1>3. starting = (\E f \in Flows : flow[f].pc = "starting")
  BY <1>1 DEF Init
<1>4. Scalars
  <2>1. 0 \in 0..MaxNews /\ 1 \in 1..MaxNews /\ 0 \in 0..MaxExpired /\ 0 \in 0..MaxRestarts
    BY SessionAssumption
  <2> QED
    BY <2>1 DEF Init, Scalars
<1>5. OneStart
  BY <1>1 DEF OneStart
<1> QED
  BY <1>1, <1>2, <1>3, <1>4, <1>5 DEF TypeInv, TypeOK, Scalars

LEMMA ClearedTypes ==
  ASSUME TypeInv, NEW f \in Flows, Cleared(f)
  PROVE  TypeInv'
<1>1. Scalars /\ flow \in [Flows -> State] /\ flow[f] \in State
  BY TypeInvParts
<1>2. Scalars'
  BY <1>1, SessionAssumption DEF Cleared, auth, consent, tracking, world, Scalars
<1>3. PICK t \in State : t.pc # "starting" /\ flow' = [flow EXCEPT ![f] = t]
  <2>1. [flow[f] EXCEPT !.pc = "forget"] \in FlowState
    BY <1>1 DEF State, FlowState
  <2>2. CASE flow[f].kind = "lost"
    BY <2>2, IdleIsState DEF Cleared, Idle
  <2>3. CASE flow[f].kind \in {"logout", "withdraw"}
    BY <1>1, <2>1, <2>3 DEF Cleared, State, Shaped, FlowState
  <2> QED
    BY <2>2, <2>3 DEF Cleared
<1>4. flow[f].pc # "starting" /\ starting' = starting
  BY DEF Cleared, tracking, Free, Requests
<1> QED
  BY <1>2, <1>3, <1>4, MoveTypes

LEMMA ForgottenTypes ==
  ASSUME TypeInv, NEW f \in Flows, Forgotten(f)
  PROVE  TypeInv'
<1>1. Scalars /\ flow \in [Flows -> State] /\ flow[f] \in State
  BY TypeInvParts
<1>2. Scalars'
  BY <1>1, SessionAssumption DEF Forgotten, Scalars, auth, consent, tracking, world
<1>3. PICK t \in State : t.pc # "starting" /\ flow' = [flow EXCEPT ![f] = t]
  BY IdleIsState DEF Forgotten, Idle
<1>4. flow[f].pc # "starting" /\ starting' = starting
  BY DEF Forgotten, tracking, Free, Requests
<1> QED
  BY <1>2, <1>3, <1>4, MoveTypes

LEMMA AnsweredTypes ==
  ASSUME TypeInv, NEW f \in Flows, Answered(f)
  PROVE  TypeInv'
<1>1. Scalars /\ flow \in [Flows -> State] /\ flow[f] \in State
  BY TypeInvParts
<1>2. Scalars'
  BY <1>1, SessionAssumption DEF Answered, Scalars, auth, consent, tracking, world
<1>3. PICK t \in State : t.pc # "starting" /\ flow' = [flow EXCEPT ![f] = t]
  <2>1. Caught(flow[f]) \in State /\ Caught(flow[f]).pc # "starting"
    BY <1>1, CaughtIs DEF Answered, Requests
  <2> QED
    BY <2>1 DEF Answered
<1>4. flow[f].pc # "starting" /\ starting' = starting
  BY DEF Answered, tracking, Free, Requests
<1> QED
  BY <1>2, <1>3, <1>4, MoveTypes

LEMMA LoadedTypes ==
  ASSUME TypeInv, NEW f \in Flows, Loaded(f)
  PROVE  TypeInv'
<1>1. Scalars /\ flow \in [Flows -> State] /\ flow[f] \in State
  BY TypeInvParts
<1>2. Scalars'
  BY <1>1, SessionAssumption DEF Loaded, Scalars, Gate, auth, consent, tracking, world
<1>3. PICK t \in State : t.pc # "starting" /\ flow' = [flow EXCEPT ![f] = t]
  <2> DEFINE u == [flow[f] EXCEPT !.pc = "consent"]
  <2>1. u \in FlowState /\ u.pc = "consent" /\ u.kind = flow[f].kind /\ u.user = flow[f].user
    BY <1>1 DEF Loaded, State, FlowState
  <2>2. \/ flow' = [flow EXCEPT ![f] = [u EXCEPT !.authorized = token # NoUser]]
        \/ flow' = [flow EXCEPT ![f] = Idle]
    BY <1>1 DEF Loaded
  <2> HIDE DEF u
  <2>3. /\ [u EXCEPT !.authorized = token # NoUser] \in State
        /\ [u EXCEPT !.authorized = token # NoUser].pc = u.pc
    BY <1>1, <2>1 DEF Loaded, State, FlowState, Shaped
  <2> QED
    BY <2>1, <2>2, <2>3, IdleIsState DEF Idle
<1>4. flow[f].pc # "starting" /\ starting' = starting
  BY DEF Loaded, tracking, Free, Requests
<1> QED
  BY <1>2, <1>3, <1>4, MoveTypes

LEMMA MarkedTypes ==
  ASSUME TypeInv, NEW f \in Flows, Marked(f)
  PROVE  TypeInv'
<1>1. Scalars /\ flow \in [Flows -> State] /\ flow[f] \in State
  BY TypeInvParts
<1>2. Scalars'
  BY <1>1, SessionAssumption DEF Marked, Scalars, MarkedUnsynced, State, Shaped, auth, consent, tracking, world
<1>3. PICK t \in State : t.pc # "starting" /\ flow' = [flow EXCEPT ![f] = t]
  <2>1. flow[f].kind = "withdraw" =>
          [flow[f] EXCEPT !.pc = "fcm"] \in State /\ [flow[f] EXCEPT !.pc = "fcm"].pc # "starting"
    BY <1>1 DEF Marked, State, FlowState, Shaped
  <2> QED
    BY <2>1, IdleIsState DEF Marked, Idle
<1>4. flow[f].pc # "starting" /\ starting' = starting
  BY DEF Marked, tracking, Free, Requests
<1> QED
  BY <1>2, <1>3, <1>4, MoveTypes

LEMMA SendDeviceTypes ==
  ASSUME TypeInv, NEW f \in Flows, SendDevice(f)
  PROVE  TypeInv'
<1>1. Scalars /\ flow \in [Flows -> State] /\ flow[f] \in State
  BY TypeInvParts
<1>2. Scalars'
  BY <1>1, SessionAssumption DEF SendDevice, Scalars, auth, consent, tracking, world
<1>3. PICK t \in State : t.pc # "starting" /\ flow' = [flow EXCEPT ![f] = t]
  <2> DEFINE u == [flow[f] EXCEPT !.pc = "device"]
  <2>1. u \in FlowState /\ u.pc = "device" /\ u.kind = flow[f].kind
    BY <1>1 DEF SendDevice, State, FlowState
  <2>2. flow' = [flow EXCEPT ![f] = [u EXCEPT !.authorized = token # NoUser]]
    BY <1>1 DEF SendDevice
  <2> HIDE DEF u
  <2>3. /\ [u EXCEPT !.authorized = token # NoUser] \in State
        /\ [u EXCEPT !.authorized = token # NoUser].pc = u.pc
    BY <1>1, <2>1 DEF SendDevice, State, FlowState, Shaped
  <2> QED
    BY <2>1, <2>2, <2>3
<1>4. flow[f].pc # "starting" /\ starting' = starting
  BY DEF SendDevice, tracking, Free, Requests
<1> QED
  BY <1>2, <1>3, <1>4, MoveTypes

LEMMA SendGetTypes ==
  ASSUME TypeInv, NEW f \in Flows, SendGet(f)
  PROVE  TypeInv'
<1>1. Scalars /\ flow \in [Flows -> State] /\ flow[f] \in State
  BY TypeInvParts
<1>2. Scalars'
  BY <1>1, SessionAssumption DEF SendGet, Scalars, auth, consent, tracking, world
<1>3. PICK t \in State : t.pc # "starting" /\ flow' = [flow EXCEPT ![f] = t]
  <2> DEFINE u == [flow[f] EXCEPT !.pc = "get"]
  <2>1. u \in FlowState /\ u.pc = "get" /\ u.kind = flow[f].kind
    BY <1>1 DEF SendGet, State, FlowState
  <2>2. flow' = [flow EXCEPT ![f] = [u EXCEPT !.authorized = token # NoUser]]
    BY <1>1 DEF SendGet
  <2> HIDE DEF u
  <2>3. /\ [u EXCEPT !.authorized = token # NoUser] \in State
        /\ [u EXCEPT !.authorized = token # NoUser].pc = u.pc
    BY <1>1, <2>1 DEF SendGet, State, FlowState, Shaped
  <2> QED
    BY <2>1, <2>2, <2>3
<1>4. flow[f].pc # "starting" /\ starting' = starting
  BY DEF SendGet, tracking, Free, Requests
<1> QED
  BY <1>2, <1>3, <1>4, MoveTypes

LEMMA ServeTypes ==
  ASSUME TypeInv, NEW f \in Flows, Serve(f)
  PROVE  TypeInv'
<1>1. Scalars /\ flow \in [Flows -> State] /\ flow[f] \in State
  BY TypeInvParts
<1>2. Scalars'
  BY <1>1, SessionAssumption DEF Serve, Scalars, auth, consent, tracking, world
<1>3. PICK t \in State : t.pc # "starting" /\ flow' = [flow EXCEPT ![f] = t]
  <2> DEFINE u == [flow[f] EXCEPT !.pc = "served"]
  <2>1. u \in FlowState /\ u.pc = "served" /\ u.kind = flow[f].kind
    BY <1>1 DEF Serve, State, FlowState
  <2>2. flow' = [flow EXCEPT ![f] = [u EXCEPT !.got = news]]
    BY <1>1 DEF Serve
  <2> HIDE DEF u
  <2>3. [u EXCEPT !.got = news] \in State /\ [u EXCEPT !.got = news].pc = u.pc
    BY <1>1, <2>1, SessionAssumption DEF Serve, State, FlowState, Shaped, Scalars
  <2> QED
    BY <2>1, <2>2, <2>3
<1>4. flow[f].pc # "starting" /\ starting' = starting
  BY DEF Serve, tracking, Free, Requests
<1> QED
  BY <1>2, <1>3, <1>4, MoveTypes

LEMMA ShowTypes ==
  ASSUME TypeInv, NEW f \in Flows, Show(f)
  PROVE  TypeInv'
<1>1. Scalars /\ flow \in [Flows -> State] /\ flow[f] \in State
  BY TypeInvParts
<1>2. Scalars'
  BY <1>1, SessionAssumption DEF Show, Scalars, ShownNow, State, FlowState, auth, consent, tracking, world
<1>3. PICK t \in State : t.pc # "starting" /\ flow' = [flow EXCEPT ![f] = t]
  BY IdleIsState DEF Show, Idle
<1>4. flow[f].pc # "starting" /\ starting' = starting
  BY DEF Show, tracking, Free, Requests
<1> QED
  BY <1>2, <1>3, <1>4, MoveTypes

LEMMA LogOutTypes ==
  ASSUME TypeInv, NEW f \in Flows, LogOut(f)
  PROVE  TypeInv'
<1>1. Scalars /\ flow \in [Flows -> State] /\ flow[f] \in State
  BY TypeInvParts
<1>2. Scalars'
  BY <1>1, SessionAssumption DEF LogOut, Scalars, auth, consent, tracking, world
<1>3. PICK t \in State : t.pc # "starting" /\ flow' = [flow EXCEPT ![f] = t]
  <2>1. Made("fcm", "logout") \in FlowState /\ Made("fcm", "logout").pc = "fcm"
          /\ Made("fcm", "logout").kind = "logout"
    BY FreshIs
  <2>2. flow' = [flow EXCEPT ![f] = Made("fcm", "logout")]
    BY DEF LogOut, Made
  <2> QED
    BY <2>1, <2>2 DEF State, Shaped
<1>4. flow[f].pc # "starting" /\ starting' = starting
  BY DEF LogOut, tracking, Free, Requests
<1> QED
  BY <1>2, <1>3, <1>4, MoveTypes

LEMMA DeclineTypes ==
  ASSUME TypeInv, NEW f \in Flows, Decline(f)
  PROVE  TypeInv'
<1>1. Scalars /\ flow \in [Flows -> State] /\ flow[f] \in State
  BY TypeInvParts
<1>2. Scalars'
  BY <1>1, SessionAssumption DEF Decline, Scalars, auth, consent, tracking, world
<1>3. PICK t \in State : t.pc # "starting" /\ flow' = [flow EXCEPT ![f] = t]
  <2>1. Made("forget", "decline") \in FlowState /\ Made("forget", "decline").pc = "forget"
          /\ Made("forget", "decline").kind = "decline"
    BY FreshIs
  <2>2. flow' = [flow EXCEPT ![f] = Made("forget", "decline")]
    BY DEF Decline, Made
  <2> QED
    BY <2>1, <2>2 DEF State, Shaped
<1>4. flow[f].pc # "starting" /\ starting' = starting
  BY DEF Decline, tracking, Free, Requests
<1> QED
  BY <1>2, <1>3, <1>4, MoveTypes

LEMMA AskTypes ==
  ASSUME TypeInv, NEW f \in Flows, Ask(f)
  PROVE  TypeInv'
<1>1. Scalars /\ flow \in [Flows -> State] /\ flow[f] \in State
  BY TypeInvParts
<1>2. Scalars'
  BY <1>1, SessionAssumption DEF Ask, Scalars, auth, consent, tracking, world
<1>3. PICK t \in State : t.pc # "starting" /\ flow' = [flow EXCEPT ![f] = t]
  <2>1. Made("access", "ask") \in FlowState /\ Made("access", "ask").pc = "access"
          /\ Made("access", "ask").kind = "ask"
    BY FreshIs
  <2>2. flow' = [flow EXCEPT ![f] = Made("access", "ask")]
    BY DEF Ask, Made
  <2> QED
    BY <2>1, <2>2 DEF State, Shaped
<1>4. flow[f].pc # "starting" /\ starting' = starting
  BY DEF Ask, tracking, Free, Requests
<1> QED
  BY <1>2, <1>3, <1>4, MoveTypes

LEMMA FrameHomeTypes ==
  ASSUME TypeInv, NEW f \in Flows, FrameHome(f)
  PROVE  TypeInv'
<1>1. Scalars /\ flow \in [Flows -> State] /\ flow[f] \in State
  BY TypeInvParts
<1>2. Scalars'
  BY <1>1, SessionAssumption DEF FrameHome, Scalars, auth, consent, tracking, world
<1>3. PICK t \in State : t.pc # "starting" /\ flow' = [flow EXCEPT ![f] = t]
  <2>1. Made("access", "open") \in FlowState /\ Made("access", "open").pc = "access"
          /\ Made("access", "open").kind = "open"
    BY FreshIs
  <2>2. flow' = [flow EXCEPT ![f] = Made("access", "open")]
    BY DEF FrameHome, Made
  <2> QED
    BY <2>1, <2>2 DEF State, Shaped
<1>4. flow[f].pc # "starting" /\ starting' = starting
  BY DEF FrameHome, tracking, Free, Requests
<1> QED
  BY <1>2, <1>3, <1>4, MoveTypes

LEMMA GrantTypes ==
  ASSUME TypeInv, NEW f \in Flows, Grant(f)
  PROVE  TypeInv'
<1>1. Scalars /\ flow \in [Flows -> State] /\ flow[f] \in State
  BY TypeInvParts
<1>2. Scalars'
  BY <1>1, SessionAssumption DEF Grant, Scalars, auth, consent, tracking, world
<1>3. PICK t \in State : t.pc # "starting" /\ flow' = [flow EXCEPT ![f] = t]
  <2>1. PushOf("grant") \in State /\ PushOf("grant").pc = "consent"
    BY <1>1, PushIs DEF Grant, Scalars
  <2> QED
    BY <2>1 DEF Grant, PushOf
<1>4. flow[f].pc # "starting" /\ starting' = starting
  BY DEF Grant, tracking, Free, Requests
<1> QED
  BY <1>2, <1>3, <1>4, MoveTypes

LEMMA WithdrawTypes ==
  ASSUME TypeInv, NEW f \in Flows, Withdraw(f)
  PROVE  TypeInv'
<1>1. Scalars /\ flow \in [Flows -> State] /\ flow[f] \in State
  BY TypeInvParts
<1>2. Scalars'
  BY <1>1, SessionAssumption DEF Withdraw, Scalars, auth, consent, tracking, world
<1>3. PICK t \in State : t.pc # "starting" /\ flow' = [flow EXCEPT ![f] = t]
  <2>1. PushOf("withdraw") \in State /\ PushOf("withdraw").pc = "consent"
    BY <1>1, PushIs DEF Withdraw, Scalars
  <2> QED
    BY <2>1 DEF Withdraw, PushOf
<1>4. flow[f].pc # "starting" /\ starting' = starting
  BY DEF Withdraw, tracking, Free, Requests
<1> QED
  BY <1>2, <1>3, <1>4, MoveTypes

LEMMA FrameLoadTypes ==
  ASSUME TypeInv, NEW f \in Flows, FrameLoad(f)
  PROVE  TypeInv'
<1>1. Scalars /\ flow \in [Flows -> State] /\ flow[f] \in State
  BY TypeInvParts
<1>2. Scalars'
  BY <1>1, SessionAssumption DEF FrameLoad, Scalars, auth, consent, tracking, world
<1>3. PICK t \in State : t.pc # "starting" /\ flow' = [flow EXCEPT ![f] = t]
  <2>1. LoadOf \in State /\ LoadOf.pc = "read"
    BY <1>1, LoadIs DEF FrameLoad, Scalars
  <2> QED
    BY <2>1 DEF FrameLoad, LoadOf
<1>4. flow[f].pc # "starting" /\ starting' = starting
  BY DEF FrameLoad, tracking, Free, Requests
<1> QED
  BY <1>2, <1>3, <1>4, MoveTypes

\* The flows that wait for the stream's end go on; start() is void.
LEMMA CancelledTypes ==
  ASSUME TypeInv, Cancelled
  PROVE  TypeInv'
<1>1. Scalars /\ flow \in [Flows -> State]
  BY TypeInvParts
<1>2. Scalars'
  BY <1>1 DEF Cancelled, Scalars, auth, consent, world
<1>3. \A x \in Flows : flow[x].pc = "stop" =>
        /\ [flow[x] EXCEPT !.pc = "clear"] \in State
        /\ [flow[x] EXCEPT !.pc = "clear"].pc = "clear"
  BY <1>1 DEF State, FlowState, Shaped
<1>4. /\ VoidStarts(flow) \in [Flows -> State]
      /\ \A x \in Flows : VoidStarts(flow)[x].pc = flow[x].pc
  BY <1>1, VoidStartsIs DEF Left
<1>5. /\ flow' \in [Flows -> State]
      /\ \A x \in Flows : flow'[x].pc = "starting" <=> flow[x].pc = "starting"
  BY <1>3, <1>4 DEF Cancelled
<1> QED
  BY <1>2, <1>5, TypesKept DEF Cancelled

\* Where onSignedIn and requestAccess go on.
LEMMA StartedIs ==
  ASSUME NEW s \in State, s.kind \in {"open", "ask"}
  PROVE  Started(s) \in State /\ Started(s).pc \in {"fcm", "idle"}
<1>1. [s EXCEPT !.pc = "fcm"] \in FlowState /\ [s EXCEPT !.pc = "fcm"].pc = "fcm"
      /\ [s EXCEPT !.pc = "fcm"].kind = s.kind
  BY DEF State, FlowState
<1>2. Idle \in State /\ Idle.pc = "idle"
  BY IdleIsState DEF Idle
<1> QED
  BY <1>1, <1>2 DEF Started, State, Shaped

LEMMA CallStartTypes ==
  ASSUME TypeInv, NEW f \in Flows, CallStart(f)
  PROVE  TypeInv'
<1>1. Scalars /\ flow \in [Flows -> State] /\ flow[f] \in State
  BY TypeInvParts
<1>2. Scalars'
  BY <1>1 DEF CallStart, Scalars, auth, consent, world
<1>3. flow[f].pc = "access" /\ flow[f].kind \in {"open", "ask"}
  BY <1>1 DEF CallStart, State, Shaped
<1>4. CASE flow' = [flow EXCEPT ![f] = Started(@)] /\ UNCHANGED starting
  BY <1>1, <1>2, <1>3, <1>4, StartedIs, MoveTypes
<1>5. CASE /\ ~stream /\ ~starting
           /\ starting' = TRUE
           /\ flow' = [flow EXCEPT ![f].pc = "starting", ![f].valid = TRUE]
  <2> DEFINE u == [flow[f] EXCEPT !.pc = "starting"]
             t == [u EXCEPT !.valid = TRUE]
  <2>1. u \in FlowState /\ u.pc = "starting" /\ u.kind = flow[f].kind
    BY <1>1 DEF State, FlowState
  <2>2. flow' = [flow EXCEPT ![f] = t]
    BY <1>1, <1>5
  <2> HIDE DEF u
  <2>3. t \in State /\ t.pc = "starting"
    BY <1>3, <2>1 DEF State, FlowState, Shaped
  <2> HIDE DEF t
  <2>4. \A x \in Flows : flow[x].pc # "starting"
    BY <1>5 DEF TypeInv, TypeOK
  <2>5. /\ flow' \in [Flows -> State] /\ flow'[f].pc = "starting"
        /\ \A x \in Flows : flow'[x].pc = "starting" => x = f
    BY <1>1, <2>2, <2>3, <2>4
  <2>6. flow' \in [Flows -> FlowState] /\ OneStart'
    BY <2>5 DEF State, OneStart
  <2>7. (\E x \in Flows : flow'[x].pc = "starting") = TRUE
    BY <2>5
  <2> QED
    BY <1>2, <1>5, <2>5, <2>6, <2>7 DEF TypeInv, TypeOK, Scalars
<1> QED
  BY <1>4, <1>5 DEF CallStart

\* The only start() that waited has ended, and its guard is down.
LEMMA StartEndsTypes ==
  ASSUME TypeInv, NEW f \in Flows, StartEnds(f)
  PROVE  TypeInv'
<1>1. Scalars /\ flow \in [Flows -> State] /\ flow[f] \in State
  BY TypeInvParts
<1>2. Scalars'
  BY <1>1 DEF StartEnds, Scalars, auth, consent, world
<1>3. flow[f].pc = "starting" /\ flow[f].kind \in {"open", "ask"}
  BY <1>1 DEF StartEnds, State, Shaped
<1>4. \A x \in Flows : flow[x].pc = "starting" => x = f
  BY <1>3 DEF TypeInv, OneStart
<1>5. /\ flow' \in [Flows -> State]
      /\ \A x \in Flows : flow'[x].pc # "starting"
  BY <1>1, <1>3, <1>4, StartedIs DEF StartEnds
<1>6. flow' \in [Flows -> FlowState] /\ OneStart'
  BY <1>5 DEF State, OneStart
<1>7. (\E x \in Flows : flow'[x].pc = "starting") = FALSE
  BY <1>5
<1> QED
  BY <1>2, <1>5, <1>6, <1>7 DEF TypeInv, TypeOK, Scalars, StartEnds, GuardAfter

\* A new banner request: the ones before it are void, one flow is at it.
LEMMA RefreshingIs ==
  ASSUME flow \in [Flows -> State], NEW f \in Flows
  PROVE  /\ Refreshing(f) \in [Flows -> State]
         /\ Refreshing(f)[f].pc = "position"
         /\ \A x \in Flows \ {f} :
              /\ Left(flow[x], Refreshing(f)[x])
              /\ flow[x].kind = "refresh" => ~Refreshing(f)[x].valid
<1>1. /\ Made("position", "refresh") \in FlowState
      /\ Made("position", "refresh").pc = "position"
      /\ Made("position", "refresh").kind = "refresh"
  BY FreshIs
<1>2. Made("position", "refresh") \in State
  BY <1>1 DEF State, Shaped
<1>3. Refreshing(f) = [VoidRequests(flow) EXCEPT ![f] = Made("position", "refresh")]
  BY DEF Refreshing, Made
<1> QED
  BY <1>1, <1>2, <1>3, VoidRequestsIs

LEMMA RefreshTypes ==
  ASSUME TypeInv, NEW f \in Flows, Refresh(f)
  PROVE  TypeInv'
<1>1. Scalars /\ flow \in [Flows -> State]
  BY TypeInvParts
<1>2. Scalars'
  BY <1>1 DEF Refresh, Scalars, auth, consent, tracking, world
<1>3. /\ flow' \in [Flows -> State]
      /\ \A x \in Flows : flow'[x].pc = "starting" <=> flow[x].pc = "starting"
  BY <1>1, RefreshingIs DEF Refresh, Free, Left
<1> QED
  BY <1>2, <1>3, TypesKept DEF Refresh, tracking

LEMMA AfterDeviceTypes ==
  ASSUME TypeInv, NEW f \in Flows, AfterDevice(f)
  PROVE  TypeInv'
<1>1. Scalars /\ flow \in [Flows -> State]
  BY TypeInvParts
<1>2. Scalars'
  BY <1>1 DEF AfterDevice, Scalars, auth, consent, tracking, world
<1>3. /\ flow' \in [Flows -> State]
      /\ \A x \in Flows : flow'[x].pc = "starting" <=> flow[x].pc = "starting"
  <2>1. CASE flow' = Refreshing(f)
    BY <1>1, <2>1, RefreshingIs DEF AfterDevice, Left
  <2>2. CASE /\ flow[f].kind \in {"logout", "withdraw"}
             /\ flow' = ResetBegins(flow, f, flow[f].kind)
    <3>1. /\ flow' \in [Flows -> State] /\ flow'[f].pc \in {"stop", "clear"}
          /\ \A x \in Flows \ {f} : Left(flow[x], flow'[x])
      BY <1>1, <2>2, ResetIs
    <3> QED
      BY <3>1 DEF AfterDevice, Left
  <2> QED
    BY <2>1, <2>2 DEF AfterDevice
<1> QED
  BY <1>2, <1>3, TypesKept DEF AfterDevice, tracking

\* What a 401 makes of the flows, F being what the one it answers has become.
LEMMA OnUnauthorizedTypes ==
  ASSUME TypeInv, NEW authorized, NEW F \in [Flows -> State], NEW g \in Flows,
         OnUnauthorized(authorized, F, g), F[g] = flow[g],
         \A x \in Flows : F[x].pc = "starting" <=> flow[x].pc = "starting"
  PROVE  TypeInv'
<1>1. Scalars
  BY TypeInvParts
<1>2. Scalars'
  BY <1>1, SessionAssumption DEF OnUnauthorized, Scalars, tracking
<1>3. /\ flow' \in [Flows -> State] /\ flow'[g].pc \in {"stop", "clear"}
      /\ \A x \in Flows \ {g} : Left(F[x], flow'[x])
  BY ResetIs DEF OnUnauthorized, TornDown
<1>4. \A x \in Flows : flow'[x].pc = "starting" <=> flow[x].pc = "starting"
  BY <1>3 DEF OnUnauthorized, Free, Left
<1> QED
  BY <1>2, <1>3, <1>4, TypesKept DEF OnUnauthorized, tracking

\* The flow that a 401 answers, as Unauthorized hands it on.
LEMMA AnsweredIs ==
  ASSUME flow \in [Flows -> State], NEW f \in Flows, flow[f].pc \in Requests
  PROVE  /\ [flow EXCEPT ![f] = Caught(@)] \in [Flows -> State]
         /\ [flow EXCEPT ![f] = Caught(@)][f] = Caught(flow[f])
         /\ \A x \in Flows \ {f} : [flow EXCEPT ![f] = Caught(@)][x] = flow[x]
<1>1. Caught(flow[f]) \in State
  BY CaughtIs
<1> QED
  BY <1>1

LEMMA UnauthorizedTypes ==
  ASSUME TypeInv, NEW f \in Flows, NEW g \in Flows, Unauthorized(f, g)
  PROVE  TypeInv'
<1> DEFINE F == [flow EXCEPT ![f] = Caught(@)]
<1>1. flow \in [Flows -> State] /\ flow[f] \in State /\ flow[f].pc \in Requests /\ f # g
  BY TypeInvParts DEF Unauthorized
<1>2. OnUnauthorized(flow[f].authorized, F, g)
  BY DEF Unauthorized
<1>3. /\ F \in [Flows -> State] /\ F[f] = Caught(flow[f])
      /\ \A x \in Flows \ {f} : F[x] = flow[x]
  BY <1>1, AnsweredIs
<1> HIDE DEF F
<1>4. flow[f].pc # "starting" /\ Caught(flow[f]).pc # "starting"
  BY <1>1, CaughtIs DEF Requests
<1>5. F[g] = flow[g] /\ \A x \in Flows : F[x].pc = "starting" <=> flow[x].pc = "starting"
  BY <1>1, <1>3, <1>4
<1> QED
  BY <1>2, <1>3, <1>5, OnUnauthorizedTypes

LEMMA PingUnauthorizedTypes ==
  ASSUME TypeInv, NEW g \in Flows, PingUnauthorized(g)
  PROVE  TypeInv'
<1>1. flow \in [Flows -> State]
  BY TypeInvParts
<1>2. OnUnauthorized(token # NoUser, flow, g)
  BY DEF PingUnauthorized
<1> QED
  BY <1>1, <1>2, OnUnauthorizedTypes

LEMMA RestartTypes ==
  ASSUME TypeInv, Restart
  PROVE  TypeInv'
<1>1. Scalars
  BY TypeInvParts
<1>2. Scalars'
  <2>1. {token', shown', signing'} \subseteq Users \cup {NoUser}
    <3>1. BeingDeleted \subseteq Users \cup {NoUser}
      BY TypeInvParts DEF BeingDeleted, State, FlowState
    <3> QED
      BY <1>1, <3>1 DEF Restart, Scalars
  <2>2. cut' \subseteq Users
    BY <1>1 DEF Restart, Scalars
  <2>3. banner' \in 0..MaxNews /\ restarts' \in 0..MaxRestarts
    BY <1>1, SessionAssumption DEF Restart, Scalars
  <2> QED
    BY <1>1, <2>1, <2>2, <2>3 DEF Restart, Scalars
<1>3. flow' \in [Flows -> State] /\ \A f \in Flows : flow'[f].pc = "idle"
  BY IdleIsState DEF Restart, Idle
<1>4. flow' \in [Flows -> FlowState] /\ OneStart'
  BY <1>3 DEF State, OneStart
<1>5. (\E f \in Flows : flow'[f].pc = "starting") = FALSE
  BY <1>3
<1> QED
  BY <1>2, <1>3, <1>4, <1>5 DEF TypeInv, TypeOK, Scalars, Restart

LEMMA TypeStep ==
  ASSUME TypeInv, [Next]_vars
  PROVE  TypeInv'
<1>1. Scalars
  BY TypeInvParts
<1>2. ASSUME UNCHANGED vars
      PROVE  TypeInv'
  <2>1. Scalars'
    BY <1>1, <1>2 DEF vars, Scalars, auth, consent, tracking, world
  <2> QED
    BY <1>2, <2>1, StillTypes DEF vars, tracking
<1>3. ASSUME NEW f \in Flows, FlowStep(f)
      PROVE  TypeInv'
  BY <1>3, ClearedTypes, ForgottenTypes, AnsweredTypes, LoadedTypes, MarkedTypes,
     CallStartTypes, StartEndsTypes, SendDeviceTypes, AfterDeviceTypes,
     SendGetTypes, ServeTypes, ShowTypes DEF FlowStep
<1>4. ASSUME NEW f \in Flows, Call(f)
      PROVE  TypeInv'
  BY <1>4, GrantTypes, WithdrawTypes, LogOutTypes, DeclineTypes, AskTypes,
     RefreshTypes, PingUnauthorizedTypes, UnauthorizedTypes DEF Call
<1>5. ASSUME Frame
      PROVE  TypeInv'
  <2>1. CASE FrameLeave
    <3>1. Scalars'
      BY <1>1, <2>1 DEF FrameLeave, Scalars, auth, consent, tracking, world
    <3> QED
      BY <2>1, <3>1, StillTypes DEF FrameLeave, tracking
  <2> QED
    BY <1>5, <2>1, FrameLoadTypes, FrameHomeTypes DEF Frame
<1>6. ASSUME NEW u \in Users, LogIn(u)
      PROVE  TypeInv'
  <2>1. Scalars'
    BY <1>1, <1>6 DEF LogIn, Scalars, consent, tracking, world
  <2> QED
    BY <1>6, <2>1, StillTypes DEF LogIn, tracking
<1>7. ASSUME Persisted
      PROVE  TypeInv'
  <2>1. Scalars'
    BY <1>1, <1>7 DEF Persisted, Scalars, consent, tracking, world
  <2> QED
    BY <1>7, <2>1, StillTypes DEF Persisted, tracking
<1>8. ASSUME AlertsChange
      PROVE  TypeInv'
  <2>1. Scalars'
    BY <1>1, <1>8, SessionAssumption DEF AlertsChange, Scalars, auth, consent, tracking
  <2> QED
    BY <1>8, <2>1, StillTypes DEF AlertsChange, tracking
<1> QED
  BY <1>2, <1>3, <1>4, <1>5, <1>6, <1>7, <1>8, CancelledTypes, RestartTypes DEF Next

LEMMA TypeInvariance == Spec => []TypeInv
BY TypeInit, TypeStep, PTL DEF Spec

\* Every variable keeps its type, and start()'s guard is up exactly while a
\* start() waits: it never keeps tracking off for good (start, its finally).
THEOREM TypeCorrect == Spec => []TypeOK
<1>1. TypeInv => TypeOK
  BY DEF TypeInv
<1> QED
  BY <1>1, TypeInvariance, PTL

-----------------------------------------------------------------------------
(* Who moves a flow.                                                       *)

\* A step leaves a flow alone, or voids it, unless the flow was free or the step
\* is its own, the answer to its request or the end of the stream it waits for.
Moved(x) ==
  \/ Left(flow[x], flow'[x])
  \/ Free(x) /\ (flow'[x].kind # "refresh" \/ flow' = Refreshing(x))
  \/ FlowStep(x)
  \/ flow[x].pc \in Requests /\ Left(Caught(flow[x]), flow'[x])
  \/ /\ flow[x].pc = "stop" /\ flow'[x].pc = "clear"
     /\ flow'[x].kind = flow[x].kind

LEMMA SameIsLeft ==
  ASSUME NEW s
  PROVE  Left(s, s)
BY DEF Left

LEMMA FlowStepMoves ==
  ASSUME TypeInv, NEW f \in Flows, FlowStep(f), NEW x \in Flows
  PROVE  Moved(x)
<1>1. flow \in [Flows -> State]
  BY TypeInvParts
<1>2. CASE x = f
  BY <1>2 DEF Moved
<1>3. CASE x # f
  <2>1. CASE AfterDevice(f)
    <3>1. CASE flow' = Refreshing(f)
      BY <1>1, <1>3, <3>1, RefreshingIs DEF Moved
    <3>2. CASE /\ flow[f].kind \in {"logout", "withdraw"}
               /\ flow' = ResetBegins(flow, f, flow[f].kind)
      <4>1. \A y \in Flows \ {f} : Left(flow[y], flow'[y])
        BY <1>1, <3>2, ResetIs
      <4> QED
        BY <1>3, <4>1 DEF Moved
    <3> QED
      BY <2>1, <3>1, <3>2 DEF AfterDevice
  <2>2. CASE ~AfterDevice(f)
    <3>1. flow'[x] = flow[x]
      <4>1. CASE Cleared(f) \/ Forgotten(f) \/ Answered(f) \/ Loaded(f)
        BY <1>1, <1>3, <4>1 DEF Cleared, Forgotten, Answered, Loaded
      <4>2. CASE Marked(f) \/ CallStart(f) \/ StartEnds(f) \/ SendDevice(f)
        BY <1>1, <1>3, <4>2 DEF Marked, CallStart, StartEnds, SendDevice
      <4>3. CASE SendGet(f) \/ Serve(f) \/ Show(f)
        BY <1>1, <1>3, <4>3 DEF SendGet, Serve, Show
      <4> QED
        BY <2>2, <4>1, <4>2, <4>3 DEF FlowStep
    <3> QED
      BY <3>1, SameIsLeft DEF Moved
  <2> QED
    BY <2>1, <2>2
<1> QED
  BY <1>2, <1>3

LEMMA UnauthorizedMoves ==
  ASSUME TypeInv, NEW f \in Flows, NEW g \in Flows, Unauthorized(f, g), NEW x \in Flows
  PROVE  Moved(x)
<1> DEFINE F == [flow EXCEPT ![f] = Caught(@)]
<1>1. flow \in [Flows -> State] /\ flow[f] \in State /\ flow[f].pc \in Requests /\ f # g
  BY TypeInvParts DEF Unauthorized
<1>2. OnUnauthorized(flow[f].authorized, F, g)
  BY DEF Unauthorized
<1>3. /\ F \in [Flows -> State] /\ F[f] = Caught(flow[f])
      /\ \A y \in Flows \ {f} : F[y] = flow[y]
  BY <1>1, AnsweredIs
<1> HIDE DEF F
<1>4. \A y \in Flows \ {g} : Left(F[y], flow'[y])
  BY <1>2, <1>3, ResetIs DEF OnUnauthorized, TornDown
<1>5. Free(g) /\ flow'[g].kind # "refresh"
  <2>1. flow'[g].pc \in {"stop", "clear"} /\ flow'[g] \in State
    BY <1>2, <1>3, ResetIs DEF OnUnauthorized, TornDown
  <2> QED
    BY <1>2, <2>1 DEF OnUnauthorized, State, Shaped
<1> QED
  BY <1>1, <1>3, <1>4, <1>5 DEF Moved

LEMMA CallMoves ==
  ASSUME TypeInv, NEW f \in Flows, Call(f), NEW x \in Flows
  PROVE  Moved(x)
<1>1. flow \in [Flows -> State]
  BY TypeInvParts
<1>2. CASE Grant(f) \/ Withdraw(f) \/ LogOut(f) \/ Decline(f) \/ Ask(f)
  <2>1. Free(f) /\ (x # f => flow'[x] = flow[x])
    BY <1>1, <1>2 DEF Grant, Withdraw, LogOut, Decline, Ask
  <2>2. flow'[f].kind # "refresh"
    <3>1. CASE Grant(f) \/ Withdraw(f)
      <4>1. shown \in Users
        BY <3>1, TypeInvParts DEF Grant, Withdraw, Scalars
      <4>2. PICK k \in {"grant", "withdraw"} : flow' = [flow EXCEPT ![f] = PushOf(k)]
        BY <3>1 DEF Grant, Withdraw, PushOf
      <4> QED
        BY <1>1, <4>1, <4>2, PushIs
    <3>2. CASE LogOut(f) \/ Decline(f) \/ Ask(f)
      <4>1. \/ flow' = [flow EXCEPT ![f] = Made("fcm", "logout")]
            \/ flow' = [flow EXCEPT ![f] = Made("forget", "decline")]
            \/ flow' = [flow EXCEPT ![f] = Made("access", "ask")]
        BY <3>2 DEF LogOut, Decline, Ask, Made
      <4>2. /\ Made("fcm", "logout").kind = "logout"
            /\ Made("forget", "decline").kind = "decline"
            /\ Made("access", "ask").kind = "ask"
        BY FreshIs
      <4> QED
        BY <1>1, <4>1, <4>2
    <3> QED
      BY <1>2, <3>1, <3>2
  <2> QED
    BY <2>1, <2>2, SameIsLeft DEF Moved
<1>3. CASE Refresh(f)
  BY <1>1, <1>3, RefreshingIs DEF Refresh, Moved
<1>4. CASE PingUnauthorized(f)
  <2>1. Free(f) /\ flow' = ResetBegins(flow, f, "lost")
    BY <1>4 DEF PingUnauthorized, OnUnauthorized, TornDown
  <2>2. /\ flow'[f].pc \in {"stop", "clear"} /\ flow'[f] \in State
        /\ \A y \in Flows \ {f} : Left(flow[y], flow'[y])
    BY <1>1, <2>1, ResetIs
  <2> QED
    BY <2>1, <2>2 DEF Moved, State, Shaped
<1> QED
  BY <1>2, <1>3, <1>4, UnauthorizedMoves DEF Call

LEMMA Moves ==
  ASSUME TypeInv, [Next]_vars, ~Restart, NEW x \in Flows
  PROVE  Moved(x)
<1>1. flow \in [Flows -> State]
  BY TypeInvParts
<1>2. ASSUME UNCHANGED flow
      PROVE  Moved(x)
  BY <1>2, SameIsLeft DEF Moved
<1>3. CASE UNCHANGED vars
  BY <1>2, <1>3 DEF vars
<1>4. CASE Frame
  <2>1. CASE FrameLeave
    BY <1>2, <2>1 DEF FrameLeave
  <2>2. ASSUME NEW f \in Flows, FrameLoad(f) \/ FrameHome(f)
        PROVE  Moved(x)
    <3>1. Free(f) /\ (x # f => flow'[x] = flow[x])
      BY <1>1, <2>2 DEF FrameLoad, FrameHome
    <3>2. CASE FrameLoad(f)
      <4>1. flow' = [flow EXCEPT ![f] = LoadOf] /\ shown \in Users
        BY <3>2, TypeInvParts DEF FrameLoad, LoadOf, Scalars
      <4> QED
        BY <1>1, <3>1, <4>1, LoadIs, SameIsLeft DEF Moved
    <3>3. CASE FrameHome(f)
      <4>1. flow' = [flow EXCEPT ![f] = Made("access", "open")]
        BY <3>3 DEF FrameHome, Made
      <4>2. Made("access", "open").kind = "open"
        BY FreshIs
      <4> QED
        BY <1>1, <3>1, <4>1, <4>2, SameIsLeft DEF Moved
    <3> QED
      BY <2>2, <3>2, <3>3
  <2> QED
    BY <1>4, <2>1, <2>2 DEF Frame
<1>5. CASE Cancelled
  <2>1. CASE flow[x].pc = "stop"
    <3>1. flow[x] \in FlowState
      BY <1>1 DEF State
    <3>2. flow'[x] = [flow[x] EXCEPT !.pc = "clear"]
      BY <1>5, <2>1 DEF Cancelled
    <3> QED
      BY <2>1, <3>1, <3>2 DEF Moved, FlowState
  <2>2. CASE flow[x].pc # "stop"
    BY <1>1, <1>5, <2>2, VoidStartsIs DEF Cancelled, Moved
  <2> QED
    BY <2>1, <2>2
<1>6. CASE Persisted \/ AlertsChange \/ \E u \in Users : LogIn(u)
  BY <1>2, <1>6 DEF Persisted, AlertsChange, LogIn
<1> QED
  BY <1>3, <1>4, <1>5, <1>6, FlowStepMoves, CallMoves DEF Next

-----------------------------------------------------------------------------
(* Consent records.                                                        *)

\* A flow that pushes a record goes on pushing it, except the one that has just
\* noted the failure.
LEMMA PushesKept ==
  ASSUME TypeInv, [Next]_vars, NEW f \in Flows, flow[f].pc \in {"consent", "mark"}
  PROVE  \/ flow'[f].pc \in {"consent", "mark"} /\ flow'[f].user = flow[f].user
         \/ Marked(f)
         \/ Restart
<1>1. flow \in [Flows -> State] /\ flow[f] \in State
  BY TypeInvParts
<1>2. CASE Left(flow[f], flow'[f])
  BY <1>2 DEF Left
<1>3. CASE flow[f].pc \in Requests /\ Left(Caught(flow[f]), flow'[f])
  BY <1>1, <1>3, CaughtIs DEF Left, Requests
<1>4. CASE FlowStep(f)
  <2>1. Answered(f) \/ Marked(f)
    BY <1>4 DEF FlowStep, Cleared, Forgotten, Loaded, CallStart, StartEnds, SendDevice,
                AfterDevice, SendGet, Serve, Show
  <2>2. CASE Answered(f)
    BY <1>1, <2>2, CaughtIs DEF Answered, Requests
  <2> QED
    BY <2>1, <2>2
<1> QED
  BY <1>2, <1>3, <1>4, Moves DEF Moved, Free

\* The writers of the record and of the lists.
LEMMA RecordWriters ==
  ASSUME TypeInv, [Next]_vars
  PROVE  /\ unsynced \subseteq unsynced' /\ cut \subseteq cut'
         /\ \/ UNCHANGED record
            \/ \E f \in Flows : Grant(f) \/ Withdraw(f)
<1>1. ASSUME NEW f \in Flows, FlowStep(f)
      PROVE  unsynced \subseteq unsynced' /\ UNCHANGED <<cut, record>>
  BY <1>1 DEF FlowStep, Cleared, Forgotten, Answered, Loaded, Marked, MarkedUnsynced,
     CallStart, StartEnds, SendDevice, AfterDevice, SendGet, Serve, Show, consent, world
<1>2. ASSUME NEW f \in Flows, Call(f)
      PROVE  /\ UNCHANGED <<unsynced, cut>>
             /\ UNCHANGED record \/ Grant(f) \/ Withdraw(f)
  BY <1>2 DEF Call, Grant, Withdraw, LogOut, Decline, Ask, Refresh, PingUnauthorized,
     Unauthorized, OnUnauthorized, consent, world
<1>3. ASSUME Frame
      PROVE  UNCHANGED <<unsynced, cut, record>>
  BY <1>3 DEF Frame, FrameLeave, FrameLoad, FrameHome, consent, world
<1>4. ASSUME Cancelled \/ Persisted \/ AlertsChange \/ UNCHANGED vars \/ (\E u \in Users : LogIn(u))
      PROVE  UNCHANGED <<unsynced, cut, record>>
  BY <1>4 DEF Cancelled, Persisted, AlertsChange, LogIn, vars, consent, world
<1>5. ASSUME Restart
      PROVE  cut \subseteq cut' /\ UNCHANGED <<unsynced, record>>
  BY <1>5 DEF Restart
<1> QED
  BY <1>1, <1>2, <1>3, <1>4, <1>5 DEF Next

LEMMA RecordStep ==
  ASSUME TypeInv, NoRecordForgotten, [Next]_vars
  PROVE  NoRecordForgotten'
<1> SUFFICES ASSUME NEW u \in Users, record'[u] # "none"
             PROVE  u \in unsynced' \/ Pushing(u)' \/ u \in cut'
  BY DEF NoRecordForgotten
<1>1. Scalars /\ flow \in [Flows -> State]
  BY TypeInvParts
<1>2. unsynced \subseteq unsynced' /\ cut \subseteq cut'
  BY RecordWriters
<1>3. ASSUME record[u] # "none"
      PROVE  u \in unsynced' \/ Pushing(u)' \/ u \in cut'
  <2>1. CASE u \in unsynced \/ u \in cut
    BY <1>2, <2>1
  <2>2. ASSUME NEW f \in Flows, flow[f].pc \in {"consent", "mark"}, flow[f].user = u
        PROVE  u \in unsynced' \/ Pushing(u)' \/ u \in cut'
    <3>1. CASE Marked(f)
      BY <2>2, <3>1 DEF Marked, MarkedUnsynced
    <3>2. CASE Restart
      BY <2>2, <3>2 DEF Restart, Pushing
    <3> QED
      BY <2>2, <3>1, <3>2, PushesKept DEF Pushing
  <2> QED
    BY <1>3, <2>1, <2>2 DEF NoRecordForgotten, Pushing
<1>4. ASSUME NEW f \in Flows, Grant(f) \/ Withdraw(f), u = shown
      PROVE  Pushing(u)'
  <2>1. PICK k \in {"grant", "withdraw"} : flow' = [flow EXCEPT ![f] = PushOf(k)]
    BY <1>4 DEF Grant, Withdraw, PushOf
  <2>2. PushOf(k).pc = "consent" /\ PushOf(k).user = u
    BY <1>4, PushIs
  <2>3. flow'[f].pc = "consent" /\ flow'[f].user = u
    BY <1>1, <2>1, <2>2
  <2> QED
    BY <2>3 DEF Pushing
<1>5. ASSUME NEW f \in Flows, Grant(f) \/ Withdraw(f), u # shown
      PROVE  record'[u] = record[u]
  BY <1>1, <1>5 DEF Grant, Withdraw, Scalars
<1> QED
  BY <1>3, <1>4, <1>5, RecordWriters

\* A consent record the server has not taken is on the retry list or being
\* pushed, unless a kill cut the push off: no 401, sign-out, switch of accounts
\* or overlapping push loses one (_push, _markUnsynced, syncPending).
THEOREM RecordsAreKept == Spec => []NoRecordForgotten
<1>1. Init => NoRecordForgotten
  BY DEF Init, NoRecordForgotten
<1>2. TypeInv /\ NoRecordForgotten /\ [Next]_vars => NoRecordForgotten'
  BY RecordStep
<1> QED
  BY <1>1, <1>2, TypeInvariance, PTL DEF Spec

-----------------------------------------------------------------------------
(* The banner.  Of the requests that have not been overtaken there is at   *)
(* most one, so that the banner cannot have changed, other than to 0,      *)
(* since the server answered it.                                           *)

BannerInv ==
  /\ banner <= news
  /\ \A f, g \in Flows :
       /\ flow[f].kind = "refresh" /\ flow[f].valid
       /\ flow[g].kind = "refresh" /\ flow[g].valid
       => f = g
  /\ \A f \in Flows : flow[f].pc = "served" =>
       flow[f].got <= news /\ (flow[f].valid => banner <= flow[f].got)

\* What asking and answering leave of a banner request.
LEMMA Asked ==
  ASSUME flow \in [Flows -> State], NEW f \in Flows, SendGet(f)
  PROVE  /\ flow'[f].pc = "get" /\ flow[f].kind = "refresh"
         /\ flow'[f].valid = flow[f].valid
<1> DEFINE u == [flow[f] EXCEPT !.pc = "get"]
<1>1. u \in FlowState /\ u.pc = "get" /\ u.valid = flow[f].valid
  BY DEF State, FlowState
<1>2. flow' = [flow EXCEPT ![f] = [u EXCEPT !.authorized = token # NoUser]]
  BY DEF SendGet
<1> HIDE DEF u
<1> QED
  BY <1>1, <1>2 DEF SendGet, State, FlowState, Shaped

LEMMA ServedIs ==
  ASSUME flow \in [Flows -> State], NEW f \in Flows, Serve(f)
  PROVE  /\ flow'[f].pc = "served" /\ flow'[f].got = news /\ flow[f].kind = "refresh"
         /\ flow'[f].valid = flow[f].valid
<1> DEFINE u == [flow[f] EXCEPT !.pc = "served"]
<1>1. u \in FlowState /\ u.pc = "served" /\ u.valid = flow[f].valid
  BY DEF State, FlowState
<1>2. flow' = [flow EXCEPT ![f] = [u EXCEPT !.got = news]]
  BY DEF Serve
<1> HIDE DEF u
<1> QED
  BY <1>1, <1>2 DEF Serve, State, FlowState, Shaped

\* Where a banner request can wait.
LEMMA RequestWaits ==
  ASSUME NEW s \in State
  PROVE  s.kind = "refresh" <=> s.pc \in {"position", "get", "served"}
BY DEF State, FlowState, Shaped

\* A banner request is an old one, no less void than before, or the new one.
LEMMA RequestsKept ==
  ASSUME TypeInv, [Next]_vars, NEW x \in Flows, flow'[x].kind = "refresh"
  PROVE  \/ /\ flow[x].kind = "refresh"
            /\ flow'[x].valid => flow[x].valid
            /\ flow'[x].pc = "served" =>
                 \/ flow[x].pc = "served" /\ flow'[x].got = flow[x].got
                 \/ flow'[x].got = news
         \/ flow' = Refreshing(x)
<1>1. flow \in [Flows -> State] /\ flow[x] \in State
  BY TypeInvParts
<1>2. flow' \in [Flows -> State] /\ flow'[x] \in State
  BY TypeStep DEF TypeInv
<1>3. ~Restart
  BY DEF Restart, Idle
<1>4. flow'[x].pc \in {"position", "get", "served"}
  BY <1>2, RequestWaits
<1>5. CASE Left(flow[x], flow'[x])
  BY <1>5 DEF Left
<1>6. CASE flow[x].pc \in Requests /\ Left(Caught(flow[x]), flow'[x])
  BY <1>1, <1>4, <1>6, CaughtIs DEF Left, Requests
<1>7. CASE FlowStep(x)
  <2>1. CASE SendGet(x)
    BY <1>1, <2>1, Asked
  <2>2. CASE Serve(x)
    BY <1>1, <2>2, ServedIs
  <2>3. CASE AfterDevice(x)
    <3>1. CASE /\ flow[x].kind \in {"logout", "withdraw"}
               /\ flow' = ResetBegins(flow, x, flow[x].kind)
      <4>1. flow'[x].pc \in {"stop", "clear"}
        BY <1>1, <3>1, ResetIs
      <4> QED
        BY <1>4, <4>1
    <3> QED
      BY <2>3, <3>1 DEF AfterDevice
  <2>4. CASE Answered(x)
    BY <1>1, <1>4, <2>4, CaughtIs DEF Answered, Requests
  <2>5. CASE CallStart(x) \/ StartEnds(x)
    <3>1. flow'[x].pc = "starting" \/ flow'[x] = Started(flow[x])
      BY <1>1, <2>5 DEF CallStart, StartEnds, State, FlowState
    <3>2. flow[x].kind \in {"open", "ask"}
      BY <1>1, <2>5 DEF CallStart, StartEnds, State, Shaped
    <3> QED
      BY <1>1, <1>4, <3>1, <3>2, StartedIs
  <2>6. CASE Cleared(x) \/ Forgotten(x) \/ Marked(x) \/ Show(x)
    <3>1. flow'[x].pc \in {"idle", "forget", "fcm"}
      BY <1>1, <2>6 DEF Cleared, Forgotten, Marked, Show, Idle, State, FlowState
    <3> QED
      BY <1>4, <3>1
  <2>7. CASE Loaded(x) \/ SendDevice(x)
    <3>1. flow'[x].pc \in {"idle", "consent", "device"}
      <4> DEFINE u(pc) == [flow[x] EXCEPT !.pc = pc]
      <4>1. \A pc \in {"consent", "device"} :
              /\ u(pc).pc = pc
              /\ [u(pc) EXCEPT !.authorized = token # NoUser].pc = u(pc).pc
        BY <1>1 DEF State, FlowState
      <4>2. \/ flow'[x] = Idle
            \/ \E pc \in {"consent", "device"} :
                 flow'[x] = [u(pc) EXCEPT !.authorized = token # NoUser]
        BY <1>1, <2>7 DEF Loaded, SendDevice
      <4>3. Idle.pc = "idle"
        BY DEF Idle
      <4> HIDE DEF u
      <4> QED
        BY <4>1, <4>2, <4>3
    <3> QED
      BY <1>4, <3>1
  <2> QED
    BY <1>7, <2>1, <2>2, <2>3, <2>4, <2>5, <2>6, <2>7 DEF FlowStep
<1> QED
  BY <1>3, <1>4, <1>5, <1>6, <1>7, Moves DEF Moved

\* The writers of the banner and of the server's alerts.
LEMMA BannerWriters ==
  ASSUME [Next]_vars
  PROVE  /\ \/ UNCHANGED banner
            \/ banner' = 0
            \/ \E f \in Flows : Show(f)
         /\ news' = news \/ news' = news + 1
<1>1. ASSUME NEW f \in Flows, FlowStep(f)
      PROVE  UNCHANGED news /\ (UNCHANGED banner \/ banner' = 0 \/ Show(f))
  BY <1>1 DEF FlowStep, Cleared, Forgotten, Answered, Loaded, Marked, CallStart,
     StartEnds, SendDevice, AfterDevice, SendGet, Serve, Show, world
<1>2. ASSUME NEW f \in Flows, Call(f)
      PROVE  UNCHANGED <<news, banner>>
  BY <1>2 DEF Call, Grant, Withdraw, LogOut, Decline, Ask, Refresh, PingUnauthorized,
     Unauthorized, OnUnauthorized, world
<1>3. ASSUME Frame
      PROVE  UNCHANGED <<news, banner>>
  BY <1>3 DEF Frame, FrameLeave, FrameLoad, FrameHome, world
<1>4. ASSUME Cancelled \/ Persisted \/ UNCHANGED vars \/ (\E u \in Users : LogIn(u))
      PROVE  UNCHANGED <<news, banner>>
  BY <1>4 DEF Cancelled, Persisted, LogIn, vars, world
<1>5. ASSUME AlertsChange \/ Restart
      PROVE  /\ UNCHANGED banner \/ banner' = 0
             /\ news' = news \/ news' = news + 1
  BY <1>5 DEF AlertsChange, Restart
<1> QED
  BY <1>1, <1>2, <1>3, <1>4, <1>5 DEF Next

\* What is shown is the answer to the only request that is not void.
LEMMA ShowIs ==
  ASSUME TypeInv, BannerInv, NEW f \in Flows, Show(f)
  PROVE  /\ UNCHANGED banner \/ (flow[f].valid /\ banner' = flow[f].got)
         /\ banner <= banner' /\ banner' <= news
         /\ flow[f].kind = "refresh" /\ flow'[f].kind = "none"
<1>1. flow \in [Flows -> State] /\ flow[f] \in State /\ flow[f].pc = "served" /\ Scalars
  BY TypeInvParts DEF Show
<1>2. flow[f].kind = "refresh"
  BY <1>1, RequestWaits
<1>3. flow'[f].kind = "none"
  BY <1>1 DEF Show, Idle
<1>4. banner \in Int /\ news \in Int
  BY <1>1, SessionAssumption DEF Scalars
<1>5. flow[f].valid => banner <= flow[f].got /\ flow[f].got <= news
  BY <1>1 DEF BannerInv
<1>6. banner <= news
  BY DEF BannerInv
<1> QED
  BY <1>1, <1>2, <1>3, <1>4, <1>5, <1>6 DEF Show, ShownNow

LEMMA BannerStep ==
  ASSUME TypeInv, BannerInv, [Next]_vars
  PROVE  BannerInv' /\ (banner' >= banner \/ banner' = 0)
<1>1. Scalars /\ flow \in [Flows -> State]
  BY TypeInvParts
<1>2. /\ banner \in Nat /\ news \in Nat
      /\ \A f \in Flows : flow[f].got \in Nat
  BY <1>1, SessionAssumption DEF Scalars, State, FlowState
<1>3. flow' \in [Flows -> State] /\ Scalars'
  <2>1. TypeInv'
    BY TypeStep
  <2> QED
    BY <2>1 DEF TypeInv, TypeOK, Scalars
<1>4. news <= news'
  BY <1>2, BannerWriters
<1>5. /\ banner' <= news'
      /\ banner <= banner' \/ banner' = 0
  <2>1. CASE \E f \in Flows : Show(f)
    BY <1>2, <2>1, <1>4, ShowIs DEF Show, world
  <2>2. CASE UNCHANGED banner \/ banner' = 0
    BY <1>2, <2>2, <1>4, BannerWriters DEF BannerInv
  <2> QED
    BY <2>1, <2>2, BannerWriters
<1>6. ASSUME NEW f \in Flows, NEW g \in Flows, f # g,
             flow'[f].kind = "refresh", flow'[f].valid,
             flow'[g].kind = "refresh", flow'[g].valid
      PROVE  FALSE
  <2>1. ASSUME NEW x \in Flows, NEW y \in Flows, x # y, flow' = Refreshing(x),
               flow'[y].kind = "refresh", flow'[y].valid
        PROVE  FALSE
    <3>1. Left(flow[y], flow'[y]) /\ (flow[y].kind = "refresh" => ~flow'[y].valid)
      BY <1>1, <2>1, RefreshingIs
    <3> QED
      BY <2>1, <3>1 DEF Left
  <2>2. /\ flow[f].kind = "refresh" /\ flow[f].valid
        /\ flow[g].kind = "refresh" /\ flow[g].valid
    BY <1>6, <2>1, RequestsKept
  <2> QED
    BY <1>6, <2>2 DEF BannerInv
<1>7. ASSUME NEW f \in Flows, flow'[f].pc = "served"
      PROVE  flow'[f].got <= news' /\ (flow'[f].valid => banner' <= flow'[f].got)
  <2>1. flow'[f] \in State /\ flow'[f].kind = "refresh"
    BY <1>3, <1>7, RequestWaits
  <2>2. flow' # Refreshing(f)
    BY <1>1, <1>7, RefreshingIs
  <2>3. /\ flow[f].kind = "refresh"
        /\ flow'[f].valid => flow[f].valid
        /\ \/ flow[f].pc = "served" /\ flow'[f].got = flow[f].got
           \/ flow'[f].got = news
    BY <1>7, <2>1, <2>2, RequestsKept
  <2>4. flow'[f].got <= news
    BY <1>2, <2>3 DEF BannerInv
  <2>5. flow'[f].valid => banner <= flow'[f].got
    BY <1>2, <2>3 DEF BannerInv
  <2>6. flow'[f].valid => UNCHANGED banner \/ banner' = 0
    <3>1. ASSUME NEW g \in Flows, Show(g), flow'[f].valid
          PROVE  UNCHANGED banner
      <4>1. g # f
        BY <2>1, <3>1, ShowIs
      <4>2. ~flow[g].valid
        BY <2>3, <3>1, <4>1, ShowIs DEF BannerInv
      <4> QED
        BY <3>1, <4>2, ShowIs
    <3> QED
      BY <3>1, BannerWriters
  <2>7. flow'[f].got \in Nat /\ news' \in Nat
    BY <1>3, <2>1, SessionAssumption DEF State, FlowState, Scalars
  <2> QED
    BY <1>2, <1>4, <2>4, <2>5, <2>6, <2>7
<1>8. BannerInv'
  BY <1>5, <1>6, <1>7 DEF BannerInv
<1>9. banner' >= banner \/ banner' = 0
  BY <1>2, <1>3, <1>5, SessionAssumption DEF Scalars
<1> QED
  BY <1>8, <1>9

\* Within a session the banner never goes back to an older state of the alerts,
\* however many requests are under way and in whatever order they are answered
\* (refreshAlert and its _alertRequest).
THEOREM BannerIsMonotone == Spec => BannerNeverGoesBack
<1>1. Init => BannerInv
  BY SessionAssumption DEF Init, BannerInv, Idle
<1>2. TypeInv /\ BannerInv /\ [Next]_vars => BannerInv' /\ (banner' >= banner \/ banner' = 0)
  BY BannerStep
<1> QED
  BY <1>1, <1>2, TypeInvariance, PTL DEF Spec, BannerNeverGoesBack
=============================================================================
