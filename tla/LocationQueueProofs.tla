------------------------ MODULE LocationQueueProofs ------------------------
(***************************************************************************)
(* Theorems about LocationQueue, for every set of accounts, every number   *)
(* of uploads at once, every cap of the queue and every bound.             *)
(***************************************************************************)
EXTENDS LocationQueue, FiniteSetTheorems, SequenceTheorems, TLAPS

-----------------------------------------------------------------------------
(* The lists.  A ping is in hand until it is queued, or its upload is over *)
(* (the pc of Idle and keep); until then no list holds it, so that queueing *)
(* it cannot put it there twice.                                           *)

\* Pings taken so far.
Taken == 1..Len(owner)

\* A list of pings from T: no longer than the cap, each at most once.
Good(q, T) ==
  /\ q \in Seq(Pings) /\ Len(q) <= Cap
  /\ \A i, j \in 1..Len(q) : q[i] = q[j] => i = j
  /\ \A i \in 1..Len(q) : q[i] \in T

\* The state of an upload, when the pings of T have been taken and k is the
\* session.
Carries(s, T, k) ==
  /\ s \in TaskState
  /\ s.pc # "idle" => s.ping \in T
  /\ s.session <= k
  /\ IF s.pc = "drain" THEN s.rest # <<>> /\ Good(s.rest, T) ELSE s.rest = <<>>

Holding(t) == task[t].pc \notin {"idle", "keep"}

\* What a list holds.
Listed == UNION {Elements(q) : q \in {queue, disk} \cup {task[t].rest : t \in Tasks}}

Fresh ==
  /\ \A t \in Tasks : Holding(t) => task[t].ping \notin Listed
  /\ \A t, x \in Tasks : Holding(t) /\ Holding(x) /\ task[t].ping = task[x].ping => t = x

Scalars ==
  /\ owner \in Seq(Users \cup {NoUser}) /\ Len(owner) <= MaxPings
  /\ user \in Users \cup {NoUser} /\ saved \in Users \cup {NoUser}
  /\ user # NoUser \/ wipe = "none" => saved = user
  /\ loading \in {"none", "reading", "done"} /\ flushing \in BOOLEAN
  /\ stream \in BOOLEAN /\ session \in 0..MaxSessions /\ wipe \in {"none", "cancel", "remove"}
  /\ wipe = "cancel" => session < MaxSessions
  /\ net \subseteq Users \X Pings
  /\ rows \in [Users \X Pings -> {0, 1}]
  /\ crashes \in 0..MaxCrashes
  /\ owed \subseteq Pings /\ crossed \subseteq Pings /\ late \subseteq Pings
  /\ stranded \in BOOLEAN

ListInv ==
  /\ Scalars
  /\ task \in [Tasks -> TaskState] /\ \A t \in Tasks : Carries(task[t], Taken, session)
  /\ Good(queue, Taken) /\ Good(disk, Taken)
  /\ Fresh

-----------------------------------------------------------------------------
(* One upload drains at a time, and only once the queue is loaded.         *)

Flusher(t) == task[t].pc \in {"load", "drain", "save"}

FlushInv ==
  /\ flushing <=> \E t \in Tasks : Flusher(t)
  /\ \A t, x \in Tasks : Flusher(t) /\ Flusher(x) => t = x
  /\ loading # "done" =>
       /\ queue = <<>> /\ wipe # "remove"
       /\ \A t \in Tasks : task[t].pc \notin {"drain", "save", "keep"}

-----------------------------------------------------------------------------
(* Whose pings wait.  Once the queue is wiped from memory, only a ping     *)
(* taken since can get there before the stored queue is wiped too.         *)

Current(t) == task[t].session = session

\* Nobody's: taken with nobody signed in, or once its session had ended.
Stray(n) == n \in late \/ owner[n] = NoUser

\* The account whose token is stored is the one signed in, or just was.
OwnStored(n) == Stray(n) \/ (saved # NoUser /\ owner[n] = saved)
Own(n) == Stray(n) \/ (saved # NoUser /\ wipe # "remove" /\ owner[n] = saved)

\* What an upload of the current session has, and may leave in the queue.
Mine(t) == IF Holding(t) /\ Current(t) THEN {task[t].ping} \cup Elements(task[t].rest) ELSE {}

FixInv ==
  \A t \in Tasks : task[t].pc = "fix" /\ Current(t) =>
    /\ wipe # "remove" /\ (wipe = "none" => user # NoUser)
    /\ owner[task[t].ping] # NoUser /\ (saved # NoUser => owner[task[t].ping] = saved)

OwnInv ==
  /\ FixInv
  /\ ~stranded /\ (saved # NoUser \/ wipe = "none") => \A n \in Elements(disk) : OwnStored(n)
  /\ ~stranded /\ (saved # NoUser \/ wipe # "cancel") =>
       /\ \A n \in Elements(queue) : Own(n)
       /\ \A t \in Tasks : \A n \in Mine(t) : Own(n)

-----------------------------------------------------------------------------
(* What is owed belongs to the session, and what a drain has taken from    *)
(* its copy of the queue and is still owed is on the server.               *)

Delivered(n) == rows[<<owner[n], n>>] > 0

OwedScalars ==
  /\ owed \subseteq Taken /\ late \subseteq Taken /\ owed \cap late = {}
  /\ wipe = "remove" \/ (user = NoUser /\ wipe = "none") => owed = {}
  /\ \A n \in owed : owner[n] # NoUser /\ (saved # NoUser => owner[n] = saved)
  /\ user # NoUser => saved = user

Awaited == (owed \ crossed) \cap Elements(queue)

AccountsFor(t) ==
  /\ task[t].pc = "fix" => task[t].ping \notin owed \cup late
  /\ Holding(t) /\ task[t].ping \in owed => Current(t)
  /\ task[t].pc \in {"drain", "own"} /\ task[t].as # NoUser /\ InFlight(t) \in owed
       => task[t].as = owner[InFlight(t)]
  /\ task[t].pc = "drain" /\ Current(t) =>
       \A n \in Awaited : n \in Elements(task[t].rest) \/ Delivered(n)

OwedInv == OwedScalars /\ (\A t \in Tasks : AccountsFor(t)) /\ NothingForgotten

-----------------------------------------------------------------------------
(* The states an upload is put in.                                         *)

Begun(n) == [Idle EXCEPT !.ping = n, !.session = session]
OwnOf(s, who) == [s EXCEPT !.pc = "own", !.as = who, !.rest = <<>>, !.moved = FALSE]
HeadOf(s, who, rest, moved) ==
  [s EXCEPT !.pc = "drain", !.as = who, !.rest = rest, !.moved = moved]
SaveOf(s) == [s EXCEPT !.pc = "save", !.rest = <<>>]
At(s, pc) == [s EXCEPT !.pc = pc]
Asked(n) == [Idle EXCEPT !.pc = "fix", !.ping = n, !.session = session]

\* What the assumptions on the constants give, unfolded.
LEMMA Constants ==
  /\ NoUser \notin Users /\ Cap \in Nat /\ Cap > 0
  /\ MaxPings \in Nat /\ MaxSessions \in Nat /\ MaxCrashes \in Nat
BY QueueAssumption DEF QueueAssumption

LEMMA IdleIs ==
  /\ Idle \in TaskState /\ Idle.pc = "idle" /\ Idle.ping = 0 /\ Idle.session = 0
  /\ Idle.as = NoUser /\ Idle.rest = <<>>
BY Constants DEF Idle, TaskState

LEMMA BegunIs ==
  ASSUME NEW n \in Pings, session \in 0..MaxSessions
  PROVE  /\ Begun(n) \in TaskState /\ Begun(n).pc = "idle" /\ Begun(n).ping = n
         /\ Begun(n).session = session /\ Begun(n).rest = <<>>
<1> DEFINE a == [Idle EXCEPT !.ping = n]
<1>1. n \in 0..MaxPings
  BY Constants DEF Pings
<1>2. /\ a \in TaskState /\ a.pc = "idle" /\ a.ping = n /\ a.rest = <<>>
  BY <1>1, IdleIs DEF TaskState
<1>3. Begun(n) = [a EXCEPT !.session = session]
  BY DEF Begun
<1> HIDE DEF a
<1> QED
  BY <1>2, <1>3 DEF TaskState

LEMMA AtIs ==
  ASSUME NEW s \in TaskState, NEW p \in {"fix", "load", "enqueue", "keep"}
  PROVE  /\ At(s, p) \in TaskState /\ At(s, p).pc = p /\ At(s, p).ping = s.ping
         /\ At(s, p).session = s.session /\ At(s, p).rest = s.rest
BY DEF At, TaskState

LEMMA AskedIs ==
  ASSUME NEW n \in Pings, session \in 0..MaxSessions
  PROVE  /\ Asked(n) \in TaskState /\ Asked(n).pc = "fix" /\ Asked(n).ping = n
         /\ Asked(n).session = session /\ Asked(n).rest = <<>>
<1> DEFINE a == [Idle EXCEPT !.pc = "fix"]
           b == [a EXCEPT !.ping = n]
<1>1. n \in 0..MaxPings
  BY Constants DEF Pings
<1>2. a \in TaskState /\ a.pc = "fix" /\ a.rest = <<>>
  BY IdleIs DEF TaskState
<1>3. Asked(n) = [b EXCEPT !.session = session]
  BY DEF Asked
<1> HIDE DEF a
<1>4. b \in TaskState /\ b.pc = "fix" /\ b.ping = n /\ b.rest = <<>>
  BY <1>1, <1>2 DEF TaskState
<1> HIDE DEF b
<1> QED
  BY <1>3, <1>4 DEF TaskState

LEMMA SaveOfIs ==
  ASSUME NEW s \in TaskState
  PROVE  /\ SaveOf(s) \in TaskState /\ SaveOf(s).pc = "save" /\ SaveOf(s).ping = s.ping
         /\ SaveOf(s).session = s.session /\ SaveOf(s).rest = <<>>
<1> DEFINE a == [s EXCEPT !.pc = "save"]
<1>1. a \in TaskState /\ a.pc = "save" /\ a.ping = s.ping /\ a.session = s.session
  BY DEF TaskState
<1>2. SaveOf(s) = [a EXCEPT !.rest = <<>>] /\ <<>> \in Seq(Pings)
  BY DEF SaveOf
<1> HIDE DEF a
<1> QED
  BY <1>1, <1>2 DEF TaskState

LEMMA HeadOfIs ==
  ASSUME NEW s \in TaskState, NEW who \in Users \cup {NoUser},
         NEW rest \in Seq(Pings), NEW moved \in BOOLEAN
  PROVE  LET h == HeadOf(s, who, rest, moved)
         IN  /\ h \in TaskState /\ h.pc = "drain" /\ h.ping = s.ping
             /\ h.session = s.session /\ h.rest = rest /\ h.as = who
<1> DEFINE a == [s EXCEPT !.pc = "drain"]
           b == [a EXCEPT !.as = who]
           c == [b EXCEPT !.rest = rest]
<1>1. a \in TaskState /\ a.pc = "drain" /\ a.ping = s.ping /\ a.session = s.session
  BY DEF TaskState
<1>2. HeadOf(s, who, rest, moved) = [c EXCEPT !.moved = moved]
  BY DEF HeadOf
<1> HIDE DEF a
<1>3. b \in TaskState /\ b.pc = "drain" /\ b.ping = s.ping /\ b.session = s.session /\ b.as = who
  BY <1>1 DEF TaskState
<1> HIDE DEF b
<1>4. /\ c \in TaskState /\ c.pc = "drain" /\ c.ping = s.ping /\ c.session = s.session
      /\ c.as = who /\ c.rest = rest
  BY <1>3 DEF TaskState
<1> HIDE DEF c
<1> QED
  BY <1>2, <1>4 DEF TaskState

LEMMA OwnOfIs ==
  ASSUME NEW s \in TaskState, NEW who \in Users \cup {NoUser}
  PROVE  /\ OwnOf(s, who) \in TaskState /\ OwnOf(s, who).pc = "own"
         /\ OwnOf(s, who).ping = s.ping /\ OwnOf(s, who).session = s.session
         /\ OwnOf(s, who).rest = <<>> /\ OwnOf(s, who).as = who
<1> DEFINE a == [s EXCEPT !.pc = "own"]
           b == [a EXCEPT !.as = who]
           c == [b EXCEPT !.rest = <<>>]
<1>1. a \in TaskState /\ a.pc = "own" /\ a.ping = s.ping /\ a.session = s.session
  BY DEF TaskState
<1>2. OwnOf(s, who) = [c EXCEPT !.moved = FALSE] /\ <<>> \in Seq(Pings)
  BY DEF OwnOf
<1> HIDE DEF a
<1>3. b \in TaskState /\ b.pc = "own" /\ b.ping = s.ping /\ b.session = s.session /\ b.as = who
  BY <1>1 DEF TaskState
<1> HIDE DEF b
<1>4. /\ c \in TaskState /\ c.pc = "own" /\ c.ping = s.ping /\ c.session = s.session
      /\ c.as = who /\ c.rest = <<>>
  BY <1>2, <1>3 DEF TaskState
<1> HIDE DEF c
<1> QED
  BY <1>2, <1>4 DEF TaskState

-----------------------------------------------------------------------------
(* What the queue's operations do to a good list.                          *)

LEMMA EmptyGood ==
  ASSUME NEW T
  PROVE  Good(<<>>, T) /\ Elements(<<>>) = {}
BY Constants DEF Good, Elements

LEMMA GoodElements ==
  ASSUME NEW q, NEW T, Good(q, T)
  PROVE  /\ Elements(q) \subseteq T /\ Elements(q) \subseteq Pings
         /\ q = <<>> <=> Elements(q) = {}
<1>1. q \in Seq(Pings) /\ DOMAIN q = 1..Len(q) /\ Len(q) \in Nat
  BY DEF Good
<1>2. q # <<>> => q[1] \in Elements(q)
  BY <1>1 DEF Elements
<1>3. Elements(q) \subseteq T
  BY <1>1 DEF Good, Elements
<1>4. Elements(q) \subseteq Pings
  BY <1>1 DEF Elements
<1> QED
  BY <1>2, <1>3, <1>4, EmptyGood

LEMMA GoodTail ==
  ASSUME NEW q, NEW T, Good(q, T), q # <<>>
  PROVE  /\ Good(Tail(q), T) /\ Head(q) \in Elements(q)
         /\ Elements(Tail(q)) \subseteq Elements(q)
         /\ Elements(q) \subseteq Elements(Tail(q)) \cup {Head(q)}
<1>1. /\ q \in Seq(Pings) /\ Len(q) \in Nat \ {0} /\ DOMAIN q = 1..Len(q)
      /\ Head(q) = q[1]
  BY DEF Good
<1>2. /\ Tail(q) \in Seq(Pings) /\ Len(Tail(q)) = Len(q) - 1
      /\ \A i \in 1..Len(Tail(q)) : Tail(q)[i] = q[i + 1]
      /\ DOMAIN Tail(q) = 1..Len(Tail(q))
  BY <1>1, HeadTailProperties
<1>3. Good(Tail(q), T)
  BY <1>1, <1>2, Constants DEF Good
<1>4. \A i \in 2..Len(q) : i - 1 \in 1..Len(Tail(q)) /\ Tail(q)[i - 1] = q[i]
  BY <1>1, <1>2
<1>5. Elements(q) \subseteq Elements(Tail(q)) \cup {Head(q)}
  <2> SUFFICES ASSUME NEW i \in 1..Len(q)
               PROVE  q[i] \in Elements(Tail(q)) \cup {Head(q)}
    BY <1>1 DEF Elements
  <2>1. CASE i = 1
    BY <1>1, <2>1
  <2>2. CASE i # 1
    <3>1. i \in 2..Len(q)
      BY <1>1, <2>2
    <3>2. i - 1 \in DOMAIN Tail(q) /\ Tail(q)[i - 1] = q[i]
      BY <1>2, <1>4, <3>1
    <3> QED
      BY <3>2 DEF Elements
  <2> QED
    BY <2>1, <2>2
<1>6. Head(q) \in Elements(q)
  BY <1>1 DEF Elements
<1>7. Elements(Tail(q)) \subseteq Elements(q)
  <2> SUFFICES ASSUME NEW i \in 1..Len(Tail(q))
               PROVE  Tail(q)[i] \in Elements(q)
    BY <1>2 DEF Elements
  <2>1. i + 1 \in DOMAIN q /\ Tail(q)[i] = q[i + 1]
    BY <1>1, <1>2
  <2> QED
    BY <2>1 DEF Elements
<1> QED
  BY <1>3, <1>5, <1>6, <1>7

\* Queueing a ping the queue does not hold.
LEMMA GoodNext ==
  ASSUME NEW q, NEW T, Good(q, T), NEW n \in T \cap Pings, n \notin Elements(q)
  PROVE  LET next == Capped(Append(q, n))
         IN  /\ Good(next, T) /\ n \in Elements(next)
             /\ Elements(next) \subseteq Elements(q) \cup {n}
<1> DEFINE a == Append(q, n)
           k == Len(a) - Cap
           next == SubSeq(a, k + 1, Len(a))
<1>1. q \in Seq(Pings) /\ Len(q) \in Nat /\ DOMAIN q = 1..Len(q) /\ Len(q) <= Cap
  BY DEF Good
<1>2. /\ a \in Seq(Pings) /\ Len(a) = Len(q) + 1 /\ a[Len(a)] = n
      /\ \A i \in 1..Len(q) : a[i] = q[i]
      /\ DOMAIN a = 1..Len(a)
  BY <1>1, AppendProperties
<1> HIDE DEF a
<1>3. \A i, j \in 1..Len(a) : a[i] = a[j] => i = j
  BY <1>1, <1>2 DEF Good, Elements
<1>4. \A i \in 1..Len(a) : a[i] \in Elements(q) \cup {n} /\ a[i] \in T
  BY <1>1, <1>2 DEF Good, Elements
<1>5. CASE Len(a) <= Cap
  <2>1. Capped(a) = a
    BY <1>1, <1>2, <1>5, Constants DEF Capped
  <2>2. Good(a, T)
    BY <1>2, <1>3, <1>4, <1>5 DEF Good
  <2>3. n \in Elements(a) /\ Elements(a) \subseteq Elements(q) \cup {n}
    BY <1>1, <1>2, <1>4 DEF Elements
  <2> QED
    BY <2>1, <2>2, <2>3 DEF a
<1>6. CASE Len(a) > Cap
  <2>1. Capped(a) = next /\ k = 1 /\ Len(a) = Cap + 1
    BY <1>1, <1>2, <1>6, Constants DEF Capped
  <2>2. /\ next \in Seq(Pings) /\ Len(next) = Cap
        /\ \A i \in 1..Cap : next[i] = a[i + 1]
        /\ DOMAIN next = 1..Len(next)
    BY <1>2, <2>1, Constants, SubSeqProperties
  <2> HIDE DEF next, k
  <2>3. Good(next, T)
    <3>1. \A i \in 1..Cap : i + 1 \in 1..Len(a) /\ next[i] = a[i + 1] /\ next[i] \in T
      BY <1>4, <2>1, <2>2, Constants
    <3>2. \A i, j \in 1..Cap : next[i] = next[j] => i + 1 = j + 1
      BY <1>3, <3>1
    <3>3. \A i, j \in 1..Cap : next[i] = next[j] => i = j
      BY <3>2, Constants
    <3> QED
      BY <2>2, <3>1, <3>3, Constants DEF Good
  <2>4. n \in Elements(next)
    BY <1>2, <2>1, <2>2, Constants DEF Elements
  <2>5. Elements(next) \subseteq Elements(q) \cup {n}
    BY <1>4, <2>1, <2>2, Constants DEF Elements
  <2> QED
    BY <2>1, <2>3, <2>4, <2>5 DEF a
<1> QED
  BY <1>1, <1>2, <1>5, <1>6, Constants

\* A list without repetitions has as many elements as places.
LEMMA GoodCounts ==
  ASSUME NEW q, NEW T, Good(q, T)
  PROVE  Cardinality(Elements(q)) = Len(q)
<1>1. q \in Seq(Pings) /\ Len(q) \in Nat /\ DOMAIN q = 1..Len(q)
  BY DEF Good
<1>2. q \in [1..Len(q) -> Elements(q)]
  BY <1>1 DEF Elements
<1>3. q \in Bijection(1..Len(q), Elements(q))
  BY <1>1, <1>2 DEF Good, Elements, Bijection, Injection, Surjection, IsInjective
<1> QED
  BY <1>1, <1>3, FS_CountingElements DEF ExistsBijection

LEMMA GoodStays ==
  ASSUME NEW q, NEW T, NEW U, Good(q, T), T \subseteq U
  PROVE  Good(q, U)
BY DEF Good

LEMMA CarriesStays ==
  ASSUME NEW s, NEW T, NEW U, NEW k \in Nat, NEW l \in Nat,
         Carries(s, T, k), T \subseteq U, k <= l
  PROVE  Carries(s, U, l)
<1>1. s.session \in Nat
  BY DEF Carries, TaskState
<1>2. s.rest = <<>> \/ (Good(s.rest, T) /\ Good(s.rest, U))
  BY GoodStays DEF Carries
<1> QED
  BY <1>1, <1>2 DEF Carries

-----------------------------------------------------------------------------
(* What an upload's steps do, whoever takes them.                          *)

\* Only upload t is at another point.
Alone(t) ==
  /\ task' \in [Tasks -> TaskState]
  /\ \A x \in Tasks \ {t} : task'[x] = task[x]

\* It goes on with its ping, for the session it began in.
GoesOn(t, n, in) == task'[t].ping = n /\ task'[t].session = in

\* It posts its own ping.
Posts(t, who) == task'[t].pc = "own" /\ task'[t].as = who /\ task'[t].rest = <<>>

\* It drains the list r.
Drains(t, r, who) ==
  task'[t].pc = "drain" /\ task'[t].as = who /\ task'[t].rest = r /\ r # <<>>

NetOK == net' \subseteq Users \X Pings

\* Drain(t, s).
StartsDrain(t) ==
  \/ /\ queue = <<>> /\ flushing' = FALSE
     /\ Posts(t, user)
  \/ /\ queue # <<>> /\ flushing' = TRUE
     /\ Drains(t, queue, user)

\* Upload(t, n).
Starts(t, n) ==
  /\ Alone(t) /\ GoesOn(t, n, session) /\ NetOK
  /\ \/ /\ flushing' = flushing /\ UNCHANGED loading
        /\ Posts(t, user)
     \/ /\ ~flushing /\ flushing' = TRUE /\ loading = "done" /\ UNCHANGED loading
        /\ Drains(t, queue, user)
     \/ /\ ~flushing /\ flushing' = TRUE /\ loading # "done" /\ loading' = "reading"
        /\ task'[t].pc = "load" /\ task'[t].rest = <<>>

\* EndDrain(t, r, moved, who).
EndsDrain(t, r, who) ==
  /\ Alone(t) /\ GoesOn(t, task[t].ping, task[t].session) /\ NetOK
  /\ \/ /\ flushing' = FALSE /\ UNCHANGED queue
        /\ Posts(t, who)
     \/ /\ Current(t) /\ queue' = r /\ UNCHANGED flushing
        /\ task'[t].pc = "save" /\ task'[t].rest = <<>>

\* Finished(t, who).
Finishes(t, who) ==
  \/ /\ task[t].pc = "own" /\ Alone(t) /\ task'[t] = Idle
     /\ UNCHANGED <<queue, flushing, net>>
  \/ /\ task[t].pc = "drain" /\ Alone(t) /\ NetOK
     /\ GoesOn(t, task[t].ping, task[t].session)
     /\ Drains(t, Tail(task[t].rest), who) /\ UNCHANGED <<queue, flushing>>
  \/ /\ task[t].pc = "drain" /\ EndsDrain(t, Tail(task[t].rest), who)

\* Enqueue(t).
Enqueues(t) ==
  /\ Alone(t) /\ GoesOn(t, task[t].ping, task[t].session)
  /\ task'[t].pc = "keep" /\ task'[t].rest = task[t].rest
  /\ queue' = Capped(Append(queue, task[t].ping))
  /\ owed' = owed \ (Elements(queue) \ Elements(queue'))
  /\ crossed' = IF flushing THEN crossed \cup {task[t].ping} ELSE crossed

LEMMA ListParts ==
  ASSUME ListInv
  PROVE  /\ task \in [Tasks -> TaskState] /\ user \in Users \cup {NoUser}
         /\ session \in 0..MaxSessions /\ net \subseteq Users \X Pings
         /\ Good(queue, Taken) /\ Good(disk, Taken)
         /\ queue \in Seq(Pings) /\ disk \in Seq(Pings)
         /\ Taken \subseteq Pings
         /\ \A t \in Tasks : Carries(task[t], Taken, session)
<1>1. Taken \subseteq Pings
  BY Constants DEF ListInv, Scalars, Taken, Pings
<1> QED
  BY <1>1 DEF ListInv, Scalars, Good

LEMMA RequestIs ==
  ASSUME NEW who \in Users \cup {NoUser}, NEW n \in Pings
  PROVE  Request(who, n) \subseteq Users \X Pings
BY DEF Request

LEMMA PutIs ==
  ASSUME ListInv, NEW t \in Tasks, NEW X \in TaskState, task' = [task EXCEPT ![t] = X]
  PROVE  Alone(t) /\ task'[t] = X
BY ListParts DEF Alone

LEMMA PostOwnIs ==
  ASSUME ListInv, NEW t \in Tasks, NEW s \in TaskState, s.ping \in Pings,
         NEW who \in Users \cup {NoUser}, PostOwn(t, s, who)
  PROVE  Alone(t) /\ GoesOn(t, s.ping, s.session) /\ Posts(t, who) /\ NetOK
<1>1. task' = [task EXCEPT ![t] = OwnOf(s, who)]
  BY DEF PostOwn, OwnOf
<1>2. Alone(t) /\ task'[t] = OwnOf(s, who)
  BY <1>1, OwnOfIs, PutIs
<1>3. NetOK
  BY ListParts, RequestIs DEF PostOwn, NetOK
<1> QED
  BY <1>2, <1>3, OwnOfIs DEF GoesOn, Posts

LEMMA PostHeadIs ==
  ASSUME ListInv, NEW t \in Tasks, NEW s \in TaskState, NEW rest, Good(rest, Taken), rest # <<>>,
         NEW moved \in BOOLEAN, NEW who \in Users \cup {NoUser},
         PostHead(t, s, rest, moved, who)
  PROVE  Alone(t) /\ GoesOn(t, s.ping, s.session) /\ Drains(t, rest, who) /\ NetOK
<1>1. task' = [task EXCEPT ![t] = HeadOf(s, who, rest, moved)]
  BY DEF PostHead, HeadOf
<1>2. rest \in Seq(Pings) /\ Head(rest) \in Pings
  BY GoodTail, GoodElements DEF Good
<1>3. /\ HeadOf(s, who, rest, moved) \in TaskState
      /\ HeadOf(s, who, rest, moved).pc = "drain"
      /\ HeadOf(s, who, rest, moved).ping = s.ping
      /\ HeadOf(s, who, rest, moved).session = s.session
      /\ HeadOf(s, who, rest, moved).rest = rest
      /\ HeadOf(s, who, rest, moved).as = who
  BY <1>2, HeadOfIs
<1>4. Alone(t) /\ task'[t] = HeadOf(s, who, rest, moved)
  BY <1>1, <1>3, PutIs
<1>5. NetOK
  BY <1>2, ListParts, RequestIs DEF PostHead, NetOK
<1> QED
  BY <1>3, <1>4, <1>5 DEF GoesOn, Drains

LEMMA DrainIs ==
  ASSUME ListInv, NEW t \in Tasks, NEW s \in TaskState, s.ping \in Pings, Drain(t, s)
  PROVE  Alone(t) /\ GoesOn(t, s.ping, s.session) /\ NetOK /\ StartsDrain(t)
<1>1. CASE queue = <<>>
  BY <1>1, ListParts, PostOwnIs DEF Drain, StartsDrain
<1>2. CASE queue # <<>>
  BY <1>2, ListParts, PostHeadIs DEF Drain, StartsDrain
<1> QED
  BY <1>1, <1>2

LEMMA UploadIs ==
  ASSUME ListInv, NEW t \in Tasks, NEW n \in Pings, Upload(t, n)
  PROVE  Starts(t, n)
<1> DEFINE s == Begun(n)
<1>1. s \in TaskState /\ s.ping = n /\ s.session = session /\ s.rest = <<>>
  BY ListParts, BegunIs
<1>2. \/ /\ flushing
         /\ PostOwn(t, s, user)
         /\ UNCHANGED <<flushing, loading>>
      \/ /\ ~flushing /\ loading = "done"
         /\ Drain(t, s)
         /\ UNCHANGED loading
      \/ /\ ~flushing /\ loading # "done"
         /\ flushing' = TRUE /\ loading' = "reading"
         /\ task' = [task EXCEPT ![t] = At(s, "load")]
         /\ UNCHANGED net
  BY DEF Upload, Begun, At
<1>3. flushing \in BOOLEAN
  BY DEF ListInv, Scalars
<1> HIDE DEF s
<1>4. CASE flushing /\ PostOwn(t, s, user) /\ UNCHANGED <<flushing, loading>>
  BY <1>1, <1>4, ListParts, PostOwnIs DEF Starts
<1>5. CASE ~flushing /\ loading = "done" /\ Drain(t, s) /\ UNCHANGED loading
  BY <1>1, <1>3, <1>5, DrainIs DEF Starts, StartsDrain
<1>6. CASE /\ ~flushing /\ loading # "done"
           /\ flushing' = TRUE /\ loading' = "reading"
           /\ task' = [task EXCEPT ![t] = At(s, "load")]
           /\ UNCHANGED net
  <2>1. Alone(t) /\ task'[t] = At(s, "load")
    BY <1>1, <1>6, AtIs, PutIs
  <2>2. NetOK
    BY <1>6, ListParts DEF NetOK
  <2>3. GoesOn(t, n, session) /\ task'[t].pc = "load" /\ task'[t].rest = <<>>
    BY <1>1, <2>1, AtIs DEF GoesOn
  <2> QED
    BY <1>6, <2>1, <2>2, <2>3 DEF Starts
<1> QED
  BY <1>2, <1>4, <1>5, <1>6

LEMMA EndDrainIs ==
  ASSUME ListInv, NEW t \in Tasks, task[t].pc = "drain", NEW r, NEW moved,
         NEW who \in Users \cup {NoUser}, EndDrain(t, r, moved, who)
  PROVE  EndsDrain(t, r, who)
<1>1. task[t] \in TaskState /\ task[t].ping \in Pings
  BY ListParts DEF Carries
<1>2. CASE task[t].session # session \/ ~moved
  BY <1>1, <1>2, PostOwnIs DEF EndDrain, EndsDrain
<1>3. CASE ~(task[t].session # session \/ ~moved)
  <2>1. task' = [task EXCEPT ![t] = SaveOf(task[t])]
    BY <1>3 DEF EndDrain, SaveOf
  <2>2. Alone(t) /\ task'[t] = SaveOf(task[t])
    BY <1>1, <2>1, SaveOfIs, PutIs
  <2>3. NetOK
    BY <1>3, ListParts DEF EndDrain, NetOK
  <2> QED
    BY <1>1, <1>3, <2>2, <2>3, SaveOfIs DEF EndDrain, EndsDrain, GoesOn, Current
<1> QED
  BY <1>2, <1>3

LEMMA FinishedIs ==
  ASSUME ListInv, NEW t \in Tasks, NEW who \in Users \cup {NoUser}, Finished(t, who)
  PROVE  Finishes(t, who)
<1>1. task[t] \in TaskState /\ Carries(task[t], Taken, session)
  BY ListParts
<1>2. CASE task[t].pc = "own"
  BY <1>2, IdleIs, PutIs DEF Finished, Finishes
<1>3. CASE task[t].pc = "drain"
  <2> DEFINE r == Tail(task[t].rest)
  <2>1. Good(r, Taken)
    BY <1>1, <1>3, GoodTail DEF Carries
  <2>2. CASE r = <<>>
    BY <1>3, <2>2, EndDrainIs DEF Finished, Finishes
  <2>3. CASE r # <<>>
    BY <1>1, <1>3, <2>1, <2>3, PostHeadIs DEF Finished, Finishes
  <2> QED
    BY <2>2, <2>3
<1> QED
  BY <1>2, <1>3 DEF Finished

LEMMA EnqueueIs ==
  ASSUME ListInv, NEW t \in Tasks, Enqueue(t)
  PROVE  Enqueues(t)
<1>1. task[t] \in TaskState
  BY ListParts
<1>2. task' = [task EXCEPT ![t] = At(task[t], "keep")]
  BY <1>1 DEF Enqueue, At
<1>3. Alone(t) /\ task'[t] = At(task[t], "keep")
  BY <1>1, <1>2, AtIs, PutIs
<1> QED
  BY <1>1, <1>3, AtIs DEF Enqueue, Enqueues, GoesOn

-----------------------------------------------------------------------------
(* ListInv is kept.                                                        *)

LEMMA ListedIs ==
  ASSUME ListInv
  PROVE  /\ Listed \subseteq Taken
         /\ Elements(queue) \subseteq Listed /\ Elements(disk) \subseteq Listed
         /\ \A t \in Tasks : Elements(task[t].rest) \subseteq Listed
<1>1. Elements(queue) \subseteq Taken /\ Elements(disk) \subseteq Taken
  BY GoodElements DEF ListInv
<1>2. \A t \in Tasks : Elements(task[t].rest) \subseteq Taken
  BY GoodElements, EmptyGood DEF ListInv, Carries
<1> QED
  BY <1>1, <1>2 DEF Listed

\* A list in the next state is one that was there, an empty one, or one with
\* the ping that its upload has queued.
LEMMA ListMove ==
  ASSUME ListInv, NEW t \in Tasks, Alone(t), Scalars',
         Taken \subseteq Taken', session <= session',
         Good(queue', Taken'), Good(disk', Taken'), Carries(task'[t], Taken', session'),
         NEW E, E = {} \/ (Holding(t) /\ E = {task[t].ping} /\ ~Holding(t)'),
         Elements(queue') \subseteq Listed \cup E, Elements(disk') \subseteq Listed,
         Elements(task'[t].rest) \subseteq Listed,
         Holding(t)' => \/ Holding(t) /\ task'[t].ping = task[t].ping
                        \/ task'[t].ping \notin Taken
  PROVE  ListInv'
<1>1. \A x \in Tasks : Carries(task'[x], Taken', session')
  <2>1. session \in Nat /\ session' \in Nat
    BY ListParts DEF Scalars
  <2>2. \A x \in Tasks : Carries(task[x], Taken', session')
    BY <2>1, ListParts, CarriesStays
  <2> QED
    BY <2>2 DEF Alone
<1>2. Listed' \subseteq Listed \cup E
  BY ListedIs DEF Listed, Alone
<1>3. \A x \in Tasks : Holding(x)' => \/ Holding(x) /\ task'[x].ping = task[x].ping
                                      \/ x = t /\ task'[t].ping \notin Taken
  BY DEF Alone, Holding
<1>4. \A x \in Tasks : Holding(x) => task[x].ping \in Taken
  BY ListParts DEF Carries, Holding
<1>5. \A x \in Tasks : Holding(x)' => task'[x].ping \notin Listed'
  <2> SUFFICES ASSUME NEW x \in Tasks, Holding(x)'
               PROVE  task'[x].ping \notin Listed \cup E
    BY <1>2
  <2>1. task'[x].ping \notin Listed
    BY <1>3, ListedIs DEF ListInv, Fresh
  <2>2. task'[x].ping \notin E
    BY <1>3, <1>4 DEF ListInv, Fresh
  <2> QED
    BY <2>1, <2>2
<1>6. \A x, y \in Tasks : Holding(x)' /\ Holding(y)' /\ task'[x].ping = task'[y].ping => x = y
  BY <1>3, <1>4 DEF ListInv, Fresh
<1>7. Fresh'
  BY <1>5, <1>6 DEF Fresh
<1> QED
  BY <1>1, <1>7 DEF ListInv, Alone

LEMMA ListShift ==
  ASSUME ListInv, NEW t \in Tasks, Alone(t), Scalars',
         Taken \subseteq Taken', session <= session',
         Good(queue', Taken'), Good(disk', Taken'), Carries(task'[t], Taken', session'),
         Elements(queue') \subseteq Listed, Elements(disk') \subseteq Listed,
         Elements(task'[t].rest) \subseteq Listed,
         Holding(t)' => \/ Holding(t) /\ task'[t].ping = task[t].ping
                        \/ task'[t].ping \notin Taken
  PROVE  ListInv'
<1> DEFINE E == {}
<1>1. /\ E = {} \/ (Holding(t) /\ E = {task[t].ping} /\ ~Holding(t)')
      /\ Elements(queue') \subseteq Listed \cup E
  OBVIOUS
<1> HIDE DEF E
<1> QED
  BY <1>1, ListMove

\* A step that moves no upload.
LEMMA ListStill ==
  ASSUME ListInv, Scalars', UNCHANGED <<owner, task>>, session <= session',
         queue' \in {queue, disk, <<>>}, disk' \in {queue, disk, <<>>}
  PROVE  ListInv'
<1>1. Taken' = Taken
  BY DEF Taken
<1>2. Good(queue', Taken') /\ Good(disk', Taken')
  BY <1>1, EmptyGood DEF ListInv
<1>3. \A x \in Tasks : Carries(task'[x], Taken', session')
  <2>1. session \in Nat /\ session' \in Nat
    BY ListParts DEF Scalars
  <2> QED
    BY <1>1, <2>1, ListParts, CarriesStays
<1>4. Listed' \subseteq Listed
  BY ListedIs, EmptyGood DEF Listed
<1>5. Fresh'
  BY <1>4 DEF ListInv, Fresh, Holding
<1> QED
  BY <1>2, <1>3, <1>5, ListParts DEF ListInv

LEMMA StartsList ==
  ASSUME ListInv, Scalars', NEW t \in Tasks, NEW n, Starts(t, n),
         UNCHANGED <<queue, disk, session>>, Taken \subseteq Taken', n \in Taken',
         (Holding(t) /\ task[t].ping = n) \/ n \notin Taken
  PROVE  ListInv'
<1>1. Good(queue', Taken') /\ Good(disk', Taken')
  BY ListParts, GoodStays
<1>2. task'[t] \in TaskState /\ session' \in Nat /\ session <= session' /\ Alone(t)
  BY ListParts DEF Starts, Alone, Scalars
<1>3. Carries(task'[t], Taken', session')
  BY <1>1, <1>2 DEF Starts, GoesOn, Posts, Drains, Carries
<1>4. Elements(task'[t].rest) \subseteq Listed
  BY ListedIs, EmptyGood DEF Starts, Posts, Drains
<1>5. /\ Elements(queue') \subseteq Listed /\ Elements(disk') \subseteq Listed
      /\ task'[t].ping = n
  BY ListedIs DEF Starts, GoesOn
<1> QED
  BY <1>1, <1>2, <1>3, <1>4, <1>5, ListShift

LEMMA EndsList ==
  ASSUME ListInv, Scalars', NEW t \in Tasks, task[t].pc = "drain", NEW who,
         NEW r \in {task[t].rest, Tail(task[t].rest)}, EndsDrain(t, r, who),
         UNCHANGED <<owner, disk, session>>
  PROVE  ListInv'
<1>1. Carries(task[t], Taken, session) /\ Taken' = Taken
  BY ListParts DEF Taken
<1>2. Good(r, Taken) /\ Elements(r) \subseteq Listed
  BY <1>1, ListedIs, GoodTail DEF Carries
<1>3. /\ Good(queue', Taken') /\ Good(disk', Taken')
      /\ Elements(queue') \subseteq Listed /\ Elements(disk') \subseteq Listed
  BY <1>1, <1>2, ListParts, ListedIs DEF EndsDrain
<1>4. task'[t] \in TaskState /\ session' \in Nat /\ session <= session' /\ Alone(t)
  BY ListParts DEF EndsDrain, Alone, Scalars
<1>5. Carries(task'[t], Taken', session') /\ Elements(task'[t].rest) = {}
  BY <1>1, <1>4, EmptyGood DEF EndsDrain, GoesOn, Posts, Carries
<1>6. Holding(t) /\ task'[t].ping = task[t].ping
  BY DEF EndsDrain, GoesOn, Holding
<1> QED
  BY <1>1, <1>3, <1>4, <1>5, <1>6, ListShift

\* An upload is over.
LEMMA OverList ==
  ASSUME ListInv, Scalars', NEW t \in Tasks, Alone(t), task'[t] = Idle,
         UNCHANGED <<owner, session, queue>>, disk' \in {queue, disk}
  PROVE  ListInv'
<1>1. Taken' = Taken /\ session' \in Nat /\ session <= session'
  BY ListParts DEF Taken, Scalars
<1>2. /\ Good(queue', Taken') /\ Good(disk', Taken')
      /\ Elements(queue') \subseteq Listed /\ Elements(disk') \subseteq Listed
  BY <1>1, ListParts, ListedIs
<1>3. Carries(task'[t], Taken', session') /\ Elements(task'[t].rest) = {} /\ ~Holding(t)'
  BY <1>1, IdleIs, EmptyGood DEF Carries, Holding
<1> QED
  BY <1>1, <1>2, <1>3, ListShift

LEMMA FinishesList ==
  ASSUME ListInv, Scalars', NEW t \in Tasks, NEW who, Finishes(t, who),
         UNCHANGED <<owner, disk, session>>
  PROVE  ListInv'
<1>1. CASE /\ task[t].pc = "own" /\ Alone(t) /\ task'[t] = Idle
           /\ UNCHANGED <<queue, flushing, net>>
  BY <1>1, OverList
<1>2. CASE task[t].pc = "drain" /\ EndsDrain(t, Tail(task[t].rest), who)
  BY <1>2, EndsList
<1>3. CASE /\ task[t].pc = "drain" /\ Alone(t) /\ NetOK
           /\ GoesOn(t, task[t].ping, task[t].session)
           /\ Drains(t, Tail(task[t].rest), who) /\ UNCHANGED <<queue, flushing>>
  <2>1. /\ Carries(task[t], Taken, session) /\ Taken' = Taken
        /\ session' \in Nat /\ session <= session'
    BY ListParts DEF Taken, Scalars
  <2>2. /\ Good(queue', Taken') /\ Good(disk', Taken')
        /\ Elements(queue') \subseteq Listed /\ Elements(disk') \subseteq Listed
    BY <1>3, <2>1, ListParts, ListedIs
  <2>3. Good(Tail(task[t].rest), Taken) /\ Elements(Tail(task[t].rest)) \subseteq Listed
    BY <1>3, <2>1, ListedIs, GoodTail DEF Carries
  <2>4. task'[t] \in TaskState
    BY <1>3 DEF Alone
  <2>5. Carries(task'[t], Taken', session')
    BY <1>3, <2>1, <2>3, <2>4 DEF GoesOn, Drains, Carries
  <2>6. /\ Alone(t) /\ Elements(task'[t].rest) \subseteq Listed
        /\ Holding(t) /\ task'[t].ping = task[t].ping
    BY <1>3, <2>3 DEF GoesOn, Drains, Holding
  <2> QED
    BY <2>1, <2>2, <2>5, <2>6, ListShift
<1> QED
  BY <1>1, <1>2, <1>3 DEF Finishes

LEMMA EnqueuesList ==
  ASSUME ListInv, Scalars', NEW t \in Tasks, task[t].pc \in {"own", "enqueue"}, Enqueues(t),
         UNCHANGED <<owner, disk, session>>
  PROVE  ListInv'
<1> DEFINE n == task[t].ping
<1>1. /\ Carries(task[t], Taken, session) /\ Taken' = Taken /\ session' \in Nat
      /\ Holding(t) /\ Taken \subseteq Pings /\ session <= session'
  BY ListParts DEF Taken, Scalars, Holding
<1>2. n \in Taken \cap Pings /\ n \notin Elements(queue)
  BY <1>1, ListedIs DEF Carries, ListInv, Fresh
<1>3. /\ Good(queue', Taken)
      /\ Elements(queue') \subseteq Elements(queue) \cup {n}
  BY <1>2, ListParts, GoodNext DEF Enqueues
<1>4. task'[t] \in TaskState /\ ~Holding(t)'
  BY DEF Enqueues, Alone, Holding
<1>5. Carries(task'[t], Taken', session') /\ Elements(task'[t].rest) = {}
  BY <1>1, <1>4, EmptyGood DEF Enqueues, GoesOn, Carries
<1> DEFINE E == {n}
<1>6. /\ Alone(t) /\ Good(disk', Taken') /\ Elements(disk') \subseteq Listed
      /\ E = {} \/ (Holding(t) /\ E = {task[t].ping} /\ ~Holding(t)')
      /\ Elements(queue') \subseteq Listed \cup E
  BY <1>1, <1>3, <1>4, ListParts, ListedIs DEF Enqueues
<1> HIDE DEF E
<1> QED
  BY <1>1, <1>3, <1>4, <1>5, <1>6, ListMove

LEMMA ListInit ==
  ASSUME Init
  PROVE  ListInv
<1>1. Scalars
  <2>1. 0 \in 0..MaxSessions /\ 0 \in 0..MaxCrashes /\ 0 <= MaxPings
    BY Constants
  <2>2. rows \in [Users \X Pings -> {0, 1}]
    BY DEF Init
  <2>3. owner \in Seq(Users \cup {NoUser}) /\ Len(owner) <= MaxPings
    BY <2>1 DEF Init
  <2>4. session \in 0..MaxSessions /\ crashes \in 0..MaxCrashes
    BY <2>1 DEF Init
  <2>5. wipe \in {"none", "cancel", "remove"} /\ wipe # "cancel" /\ stream \in BOOLEAN
    BY DEF Init
  <2>6. /\ user = NoUser /\ saved = NoUser
        /\ loading \in {"none", "reading", "done"} /\ flushing \in BOOLEAN
        /\ net \subseteq Users \X Pings /\ stranded \in BOOLEAN
        /\ owed \subseteq Pings /\ crossed \subseteq Pings /\ late \subseteq Pings
    BY DEF Init
  <2> QED
    BY <2>2, <2>3, <2>4, <2>5, <2>6 DEF Scalars
<1>2. task \in [Tasks -> TaskState] /\ \A t \in Tasks : task[t] = Idle
  BY IdleIs DEF Init
<1>3. \A t \in Tasks : Carries(task[t], Taken, session) /\ ~Holding(t)
  BY <1>2, IdleIs DEF Init, Carries, Holding
<1>4. Good(queue, Taken) /\ Good(disk, Taken)
  BY EmptyGood DEF Init
<1> QED
  BY <1>1, <1>2, <1>3, <1>4 DEF ListInv, Fresh

\* A capture takes the next number.
LEMMA CaptureIs ==
  ASSUME ListInv, Len(owner) < MaxPings, owner' = Append(owner, user)
  PROVE  /\ owner' \in Seq(Users \cup {NoUser}) /\ Len(owner') <= MaxPings
         /\ Len(owner) + 1 \in Pings /\ Len(owner) + 1 \in Taken'
         /\ Len(owner) + 1 \notin Taken /\ Taken \subseteq Taken'
         /\ owner'[Len(owner) + 1] = user
         /\ \A n \in Taken : owner'[n] = owner[n]
<1>1. owner \in Seq(Users \cup {NoUser}) /\ user \in Users \cup {NoUser} /\ Len(owner) \in Nat
  BY DEF ListInv, Scalars
<1>2. /\ owner' \in Seq(Users \cup {NoUser}) /\ Len(owner') = Len(owner) + 1
      /\ owner'[Len(owner) + 1] = user
      /\ \A n \in 1..Len(owner) : owner'[n] = owner[n]
  BY <1>1, AppendProperties
<1> QED
  BY <1>1, <1>2, Constants DEF Taken, Pings

LEMMA PositionList ==
  ASSUME ListInv, NEW t \in Tasks, Position(t)
  PROVE  ListInv' /\ Starts(t, Len(owner) + 1)
<1> DEFINE n == Len(owner) + 1
<1>1. /\ owner' \in Seq(Users \cup {NoUser}) /\ Len(owner') <= MaxPings
      /\ n \in Pings /\ n \in Taken' /\ n \notin Taken /\ Taken \subseteq Taken'
  BY CaptureIs DEF Position
<1>2. Upload(t, n)
  BY DEF Position
<1>3. Starts(t, n)
  BY <1>1, <1>2, UploadIs
<1>4. Scalars'
  <2>1. loading' \in {"none", "reading", "done"} /\ flushing' \in BOOLEAN /\ NetOK
    BY <1>3 DEF Starts, ListInv, Scalars
  <2>2. owed' \subseteq Pings /\ late' \subseteq Pings
    BY <1>1 DEF Position, ListInv, Scalars
  <2> QED
    BY <1>1, <2>1, <2>2 DEF Position, ListInv, Scalars, NetOK
<1> HIDE DEF n
<1> QED
  BY <1>1, <1>3, <1>4, StartsList DEF Position, n

LEMMA PressList ==
  ASSUME ListInv, NEW t \in Tasks, Press(t)
  PROVE  ListInv' /\ Alone(t) /\ task'[t] = Asked(Len(owner) + 1)
<1> DEFINE n == Len(owner) + 1
<1>1. /\ owner' \in Seq(Users \cup {NoUser}) /\ Len(owner') <= MaxPings
      /\ n \in Pings /\ n \in Taken' /\ n \notin Taken /\ Taken \subseteq Taken'
  BY CaptureIs DEF Press
<1>2. task' = [task EXCEPT ![t] = Asked(n)]
  BY DEF Press, Asked
<1> HIDE DEF n
<1>3. /\ Asked(n) \in TaskState /\ Asked(n).pc = "fix" /\ Asked(n).ping = n
      /\ Asked(n).session = session /\ Asked(n).rest = <<>>
  BY <1>1, ListParts, AskedIs
<1>4. Alone(t) /\ task'[t] = Asked(n)
  BY <1>2, <1>3, PutIs
<1>5. Scalars'
  BY <1>1 DEF Press, ListInv, Scalars, history
<1>6. session' = session /\ session \in Nat
  BY ListParts DEF Press
<1>7. Carries(task'[t], Taken', session')
  BY <1>1, <1>3, <1>4, <1>6 DEF Carries
<1>8. Good(queue', Taken') /\ Good(disk', Taken')
  BY <1>1, ListParts, GoodStays DEF Press
<1>9. /\ Elements(queue') \subseteq Listed /\ Elements(disk') \subseteq Listed
      /\ Elements(task'[t].rest) \subseteq Listed
  BY <1>3, <1>4, EmptyGood, ListedIs DEF Press
<1> QED
  BY <1>1, <1>3, <1>4, <1>5, <1>6, <1>7, <1>8, <1>9, ListShift DEF n

LEMMA FixList ==
  ASSUME ListInv, NEW t \in Tasks, Fix(t)
  PROVE  ListInv' /\ Starts(t, task[t].ping)
<1> DEFINE n == task[t].ping
<1>1. n \in Taken /\ n \in Pings /\ Holding(t) /\ Taken' = Taken
  BY ListParts DEF Fix, Carries, Holding, Taken
<1>2. Upload(t, n)
  BY DEF Fix
<1>3. Starts(t, n)
  BY <1>1, <1>2, UploadIs
<1>4. Scalars'
  <2>1. loading' \in {"none", "reading", "done"} /\ flushing' \in BOOLEAN /\ NetOK
    BY <1>3 DEF Starts, ListInv, Scalars
  <2>2. owed' \subseteq Pings /\ late' \subseteq Pings
    BY <1>1 DEF Fix, ListInv, Scalars
  <2> QED
    BY <2>1, <2>2 DEF Fix, ListInv, Scalars, NetOK
<1> HIDE DEF n
<1> QED
  BY <1>1, <1>3, <1>4, StartsList DEF Fix, n

LEMMA NoFixList ==
  ASSUME ListInv, NEW t \in Tasks, NoFix(t)
  PROVE  ListInv' /\ Alone(t) /\ task'[t] = Idle
<1>1. Alone(t) /\ task'[t] = Idle
  BY IdleIs, PutIs DEF NoFix
<1>2. Scalars'
  BY DEF NoFix, ListInv, Scalars, history
<1> QED
  BY <1>1, <1>2, OverList DEF NoFix

LEMMA LoadedList ==
  ASSUME ListInv, NEW t \in Tasks, Loaded(t)
  PROVE  /\ ListInv' /\ Alone(t) /\ GoesOn(t, task[t].ping, task[t].session)
         /\ StartsDrain(t)
<1>1. /\ task[t] \in TaskState /\ task[t].ping \in Taken /\ task[t].ping \in Pings
      /\ Carries(task[t], Taken, session) /\ Holding(t) /\ Taken' = Taken
  BY ListParts DEF Loaded, Carries, Holding, Taken
<1>2. Alone(t) /\ GoesOn(t, task[t].ping, task[t].session) /\ StartsDrain(t) /\ NetOK
  BY <1>1, DrainIs DEF Loaded
<1>3. Scalars'
  <2>1. flushing' \in BOOLEAN
    BY <1>2 DEF StartsDrain
  <2> QED
    BY <1>2, <2>1 DEF Loaded, ListInv, Scalars, history, NetOK
<1>4. session' = session /\ session \in Nat /\ task'[t] \in TaskState
  BY <1>2, ListParts DEF Loaded, Alone
<1>5. Carries(task'[t], Taken', session')
  BY <1>1, <1>2, <1>4, ListParts DEF GoesOn, StartsDrain, Posts, Drains, Carries
<1>6. Good(queue', Taken') /\ Good(disk', Taken')
  BY <1>1, ListParts DEF Loaded
<1>7. /\ Elements(queue') \subseteq Listed /\ Elements(disk') \subseteq Listed
      /\ Elements(task'[t].rest) \subseteq Listed
  BY <1>2, EmptyGood, ListedIs DEF Loaded, StartsDrain, Posts, Drains
<1>8. task'[t].ping = task[t].ping
  BY <1>2 DEF GoesOn
<1> QED
  BY <1>1, <1>2, <1>3, <1>4, <1>5, <1>6, <1>7, <1>8, ListShift

LEMMA SaveList ==
  ASSUME ListInv, NEW t \in Tasks, Save(t)
  PROVE  /\ ListInv' /\ Alone(t) /\ GoesOn(t, task[t].ping, task[t].session)
         /\ Posts(t, user)
<1>1. /\ task[t] \in TaskState /\ task[t].ping \in Taken /\ task[t].ping \in Pings
      /\ Carries(task[t], Taken, session) /\ Holding(t) /\ Taken' = Taken
  BY ListParts DEF Save, Carries, Holding, Taken
<1>2. Alone(t) /\ GoesOn(t, task[t].ping, task[t].session) /\ Posts(t, user) /\ NetOK
  BY <1>1, ListParts, PostOwnIs DEF Save
<1>3. Scalars'
  BY <1>2 DEF Save, ListInv, Scalars, history, NetOK
<1>4. session' = session /\ session \in Nat /\ task'[t] \in TaskState
  BY <1>2, ListParts DEF Save, Alone
<1>5. Carries(task'[t], Taken', session')
  BY <1>1, <1>2, <1>4 DEF GoesOn, Posts, Carries
<1>6. Good(queue', Taken') /\ Good(disk', Taken')
  BY <1>1, ListParts DEF Save
<1>7. /\ Elements(queue') \subseteq Listed /\ Elements(disk') \subseteq Listed
      /\ Elements(task'[t].rest) \subseteq Listed
  BY <1>2, EmptyGood, ListedIs DEF Save, Posts
<1>8. task'[t].ping = task[t].ping
  BY <1>2 DEF GoesOn
<1> QED
  BY <1>1, <1>2, <1>3, <1>4, <1>5, <1>6, <1>7, <1>8, ListShift

LEMMA KeepList ==
  ASSUME ListInv, NEW t \in Tasks, Keep(t)
  PROVE  ListInv' /\ Alone(t) /\ task'[t] = Idle
<1>1. Alone(t) /\ task'[t] = Idle
  BY IdleIs, PutIs DEF Keep
<1>2. Scalars'
  BY DEF Keep, ListInv, Scalars, history
<1> QED
  BY <1>1, <1>2, OverList DEF Keep

\* An answer that ends the post.
LEMMA AnswerList ==
  ASSUME ListInv, NEW t \in Tasks, Accepted(t) \/ Refused(t) \/ Portal(t) \/ Unauthorized(t)
  PROVE  /\ ListInv' /\ task[t].pc \in {"drain", "own"}
         /\ Finishes(t, IF Unauthorized(t) THEN NoUser ELSE user)
<1> DEFINE who == IF Unauthorized(t) THEN NoUser ELSE user
<1>1. who \in Users \cup {NoUser} /\ Finished(t, who) /\ task[t].pc \in {"drain", "own"}
  BY ListParts DEF Accepted, Refused, Portal, Unauthorized
<1> HIDE DEF who
<1>2. Finishes(t, who)
  BY <1>1, FinishedIs
<1>3. flushing' \in BOOLEAN /\ net' \subseteq Users \X Pings
  BY <1>2 DEF Finishes, EndsDrain, NetOK, ListInv, Scalars
<1>4. Scalars'
  <2>1. CASE Accepted(t)
    BY <1>3, <2>1 DEF Accepted, ListInv, Scalars, history
  <2>2. CASE Refused(t)
    BY <1>3, <2>2 DEF Refused, ListInv, Scalars
  <2>3. CASE Portal(t)
    BY <1>3, <2>3 DEF Portal, ListInv, Scalars
  <2>4. CASE Unauthorized(t)
    BY <1>3, <2>4 DEF Unauthorized, ListInv, Scalars
  <2> QED
    BY <2>1, <2>2, <2>3, <2>4
<1>5. UNCHANGED <<owner, disk, session>>
  BY DEF Accepted, Refused, Portal, Unauthorized
<1> QED
  BY <1>1, <1>2, <1>4, <1>5, FinishesList DEF who

LEMMA DrainFailedList ==
  ASSUME ListInv, NEW t \in Tasks, DrainFailed(t)
  PROVE  ListInv' /\ EndsDrain(t, task[t].rest, user)
<1>1. EndsDrain(t, task[t].rest, user)
  BY ListParts, EndDrainIs DEF DrainFailed
<1>2. flushing' \in BOOLEAN /\ net' \subseteq Users \X Pings
  BY <1>1 DEF EndsDrain, NetOK, ListInv, Scalars
<1>3. Scalars'
  BY <1>2 DEF DrainFailed, ListInv, Scalars, history
<1> QED
  BY <1>1, <1>3, EndsList DEF DrainFailed

\* What becomes of a ping whose post failed, or whose wait for the queue is
\* over: dropped, queued, or left to wait.
Retries(t) ==
  \/ ~Current(t) /\ Alone(t) /\ task'[t] = Idle /\ UNCHANGED <<queue, owed, crossed>>
  \/ Current(t) /\ loading = "done" /\ Enqueues(t)
  \/ /\ Current(t) /\ loading # "done"
     /\ Alone(t) /\ GoesOn(t, task[t].ping, task[t].session)
     /\ task'[t].pc = "enqueue" /\ task'[t].rest = task[t].rest
     /\ UNCHANGED <<queue, owed, crossed>>

LEMMA RetryList ==
  ASSUME ListInv, NEW t \in Tasks, PostFailed(t) \/ EnqueueLate(t)
  PROVE  ListInv' /\ task[t].pc \in {"own", "enqueue"} /\ Retries(t)
<1>1. /\ task[t] \in TaskState /\ task[t].pc \in {"own", "enqueue"}
      /\ Carries(task[t], Taken, session) /\ Taken' = Taken
  BY ListParts DEF PostFailed, EnqueueLate, Taken
<1>2. UNCHANGED <<owner, disk, session>>
  BY DEF PostFailed, EnqueueLate
<1>3. ASSUME owed' \subseteq Pings, crossed' \subseteq Pings
      PROVE  Scalars'
  BY <1>3 DEF PostFailed, EnqueueLate, ListInv, Scalars
<1>4. CASE /\ ~Current(t) /\ task' = [task EXCEPT ![t] = Idle]
           /\ UNCHANGED <<queue, owed, crossed>>
  <2>1. Alone(t) /\ task'[t] = Idle
    BY <1>4, IdleIs, PutIs
  <2>2. Scalars'
    BY <1>3, <1>4 DEF ListInv, Scalars
  <2> QED
    BY <1>1, <1>2, <1>4, <2>1, <2>2, OverList DEF Retries
<1>5. CASE Current(t) /\ loading = "done" /\ Enqueue(t)
  <2>1. Enqueues(t)
    BY <1>5, EnqueueIs
  <2>2. task[t].ping \in Pings
    BY <1>1, ListParts DEF Carries
  <2>3. owed' \subseteq Pings /\ crossed' \subseteq Pings
    BY <2>1, <2>2 DEF Enqueues, ListInv, Scalars
  <2> QED
    BY <1>1, <1>2, <1>3, <1>5, <2>1, <2>3, EnqueuesList DEF Retries
<1>6. CASE /\ Current(t) /\ loading # "done"
           /\ task' = [task EXCEPT ![t].pc = "enqueue"]
           /\ UNCHANGED <<queue, owed, crossed>>
  <2>1. task' = [task EXCEPT ![t] = At(task[t], "enqueue")]
    BY <1>1, <1>6 DEF At
  <2>2. Alone(t) /\ task'[t] = At(task[t], "enqueue")
    BY <1>1, <2>1, AtIs, PutIs
  <2>3. /\ GoesOn(t, task[t].ping, task[t].session)
        /\ task'[t].pc = "enqueue" /\ task'[t].rest = task[t].rest
    BY <1>1, <2>2, AtIs DEF GoesOn
  <2>4. Scalars'
    BY <1>3, <1>6 DEF ListInv, Scalars
  <2>5. session' = session /\ session \in Nat /\ task'[t] \in TaskState
    BY <1>2, <2>2, ListParts DEF Alone
  <2>6. Carries(task'[t], Taken', session')
    BY <1>1, <2>3, <2>5 DEF GoesOn, Carries
  <2>7. Good(queue', Taken') /\ Good(disk', Taken')
    BY <1>1, <1>2, <1>6, ListParts
  <2>8. /\ Elements(queue') \subseteq Listed /\ Elements(disk') \subseteq Listed
        /\ Elements(task'[t].rest) \subseteq Listed
    BY <1>2, <1>6, <2>3, ListedIs
  <2>9. Holding(t) /\ task'[t].ping = task[t].ping
    BY <1>1, <2>3 DEF Holding, GoesOn
  <2>10. ListInv'
    BY <1>1, <2>2, <2>4, <2>5, <2>6, <2>7, <2>8, <2>9, ListShift
  <2> QED
    BY <1>1, <1>6, <2>2, <2>3, <2>10 DEF Retries
<1> QED
  BY <1>4, <1>5, <1>6 DEF PostFailed, EnqueueLate, Current

LEMMA CrashList ==
  ASSUME ListInv, Crash
  PROVE  ListInv' /\ \A t \in Tasks : task'[t] = Idle
<1>1. task' \in [Tasks -> TaskState] /\ \A t \in Tasks : task'[t] = Idle
  BY IdleIs DEF Crash
<1>2. Scalars'
  <2>1. owed' \subseteq Pings /\ stranded' \in BOOLEAN
    BY DEF Crash, ListInv, Scalars
  <2>2. {user', saved'} \subseteq Users \cup {NoUser} /\ (user' # NoUser \/ wipe' = "none" => saved' = user') /\ crashes' \in 0..MaxCrashes
    BY Constants DEF Crash, ListInv, Scalars
  <2>3. /\ wipe' = "none" /\ loading' = "none" /\ flushing' = FALSE
        /\ stream' = FALSE /\ UNCHANGED <<owner, session, net, rows, crossed, late>>
    BY DEF Crash
  <2> QED
    BY <2>1, <2>2, <2>3 DEF ListInv, Scalars
<1>3. Taken' = Taken /\ session' \in Nat
  BY <1>2 DEF Crash, Taken, Scalars
<1>4. \A t \in Tasks : Carries(task'[t], Taken', session') /\ ~Holding(t)'
  BY <1>1, <1>3, IdleIs DEF Carries, Holding
<1>5. Good(queue', Taken') /\ Good(disk', Taken')
  BY <1>3, ListParts, EmptyGood DEF Crash
<1> QED
  BY <1>1, <1>2, <1>4, <1>5 DEF ListInv, Fresh

\* The steps that move no upload, but a crash.
Aside ==
  \/ StartLoad \/ FinishRead \/ StreamStarts \/ LogOut \/ WipeMemory \/ WipeDisk \/ Ingest
  \/ (\E u \in Users : LogIn(u)) \/ UNCHANGED vars

LEMMA AsideList ==
  ASSUME ListInv, Aside
  PROVE  ListInv' /\ UNCHANGED task
<1>1. UNCHANGED <<owner, task>>
  BY DEF Aside, StartLoad, FinishRead, StreamStarts, LogOut, WipeMemory, WipeDisk, Ingest, LogIn, vars, client
<1>2. queue' \in {queue, disk, <<>>} /\ disk' \in {queue, disk, <<>>}
  BY DEF Aside, StartLoad, FinishRead, StreamStarts, LogOut, WipeMemory, WipeDisk, Ingest, LogIn, vars, client
<1>3. Scalars' /\ session <= session'
  <2>1. CASE StartLoad \/ FinishRead \/ LogOut \/ (\E u \in Users : LogIn(u))
    BY <2>1, Constants DEF StartLoad, FinishRead, LogOut, LogIn, ListInv, Scalars, history
  <2>5. CASE StreamStarts
    BY <2>5, Constants DEF StreamStarts, ListInv, Scalars, history
  <2>2. CASE WipeMemory \/ WipeDisk
    <3>0. /\ session \in 0..MaxSessions /\ (wipe = "cancel" => session < MaxSessions)
          /\ stream \in BOOLEAN /\ loading \in {"none", "reading", "done"}
      BY DEF ListInv, Scalars
    <3>1. /\ session' \in 0..MaxSessions /\ session <= session' /\ stream' \in BOOLEAN
          /\ wipe' \in {"none", "remove"} /\ loading' \in {"none", "reading", "done"}
      <4>1. CASE WipeMemory
        <5>1. /\ wipe = "cancel" /\ wipe' = "remove" /\ stream' = FALSE
              /\ session' = session + 1 /\ loading' = "done"
          BY <4>1 DEF WipeMemory
        <5>2. session + 1 \in 0..MaxSessions /\ session <= session + 1
          BY <3>0, <5>1, Constants
        <5> QED
          BY <5>1, <5>2
      <4>2. CASE WipeDisk
        BY <3>0, <4>2, Constants DEF WipeDisk
      <4> QED
        BY <2>2, <4>1, <4>2
    <3>2. {user', saved'} \subseteq Users \cup {NoUser} /\ (user' # NoUser \/ wipe' = "none" => saved' = user') /\ owed' \subseteq Pings
      BY <2>2 DEF WipeMemory, WipeDisk, ListInv, Scalars
    <3>3. UNCHANGED <<owner, flushing, net, rows, crashes, crossed, late, stranded>>
      BY <2>2 DEF WipeMemory, WipeDisk
    <3> QED
      BY <3>1, <3>2, <3>3 DEF ListInv, Scalars
  <2>3. CASE Ingest
    <3>1. rows' \in [Users \X Pings -> {0, 1}] /\ net' \subseteq Users \X Pings
      BY <2>3 DEF Ingest, Stored, ListInv, Scalars
    <3> QED
      BY <2>3, <3>1, Constants DEF Ingest, client, history, ListInv, Scalars
  <2>4. CASE UNCHANGED vars
    BY <2>4, Constants DEF vars, client, history, ListInv, Scalars
  <2> QED
    BY <2>1, <2>2, <2>3, <2>4, <2>5 DEF Aside
<1> QED
  BY <1>1, <1>2, <1>3, ListStill

\* The steps of an upload.
Turn(t) ==
  \/ Position(t) \/ Press(t) \/ Fix(t) \/ NoFix(t) \/ Loaded(t) \/ Save(t) \/ Keep(t)
  \/ Accepted(t) \/ Refused(t) \/ Portal(t) \/ Unauthorized(t)
  \/ DrainFailed(t) \/ PostFailed(t) \/ EnqueueLate(t)

LEMMA Steps ==
  ASSUME [Next]_vars
  PROVE  Aside \/ Crash \/ \E t \in Tasks : Turn(t)
BY DEF Next, Aside, Turn

LEMMA ListStep ==
  ASSUME ListInv, [Next]_vars
  PROVE  ListInv'
<1>1. ASSUME NEW t \in Tasks, Turn(t)
      PROVE  ListInv'
  BY <1>1, PositionList, PressList, FixList, NoFixList, LoadedList, SaveList, KeepList,
     AnswerList, DrainFailedList, RetryList DEF Turn
<1> QED
  BY <1>1, AsideList, CrashList, Steps

LEMMA ListsHold == Spec => []ListInv
BY ListInit, ListStep, PTL DEF Spec

\* Every variable keeps its type.
THEOREM QueueTypesCorrect == Spec => []TypeOK
<1>1. ListInv => TypeOK
  BY DEF ListInv, Scalars, TypeOK, Good
<1> QED
  BY <1>1, ListsHold, PTL

\* The queue keeps to its cap and never holds a ping twice, in memory and as
\* stored, whatever uploads change it in turns (_enqueue, _flushQueue), and the
\* server keeps one row of a ping per account, however often it is sent.
THEOREM QueueAlwaysSound == Spec => []QueueSound
<1>1. ListInv => QueueSound
  <2> SUFFICES ASSUME ListInv
               PROVE  QueueSound
    OBVIOUS
  <2>1. \A q \in {queue, disk} : Len(q) <= Cap /\ Cardinality(Elements(q)) = Len(q)
    BY ListParts, GoodCounts DEF Good
  <2>2. \A m \in Users \X Pings : rows[m] <= 1
    BY DEF ListInv, Scalars
  <2> QED
    BY <2>1, <2>2 DEF QueueSound
<1> QED
  BY <1>1, ListsHold, PTL
-----------------------------------------------------------------------------
(* FlushInv is kept.                                                       *)

\* Only upload t moves: it starts to drain, ends its drain, or neither.
LEMMA FlushMove ==
  ASSUME FlushInv, NEW t \in Tasks, Alone(t),
         \/ (flushing' <=> flushing) /\ (Flusher(t)' <=> Flusher(t))
         \/ ~flushing /\ flushing' /\ Flusher(t)'
         \/ Flusher(t) /\ ~flushing' /\ ~Flusher(t)',
         loading' # "done" =>
           /\ loading # "done" /\ queue' = <<>> /\ wipe' # "remove"
           /\ task'[t].pc \notin {"drain", "save", "keep"}
  PROVE  FlushInv'
<1>1. \A x \in Tasks \ {t} : task'[x].pc = task[x].pc /\ (Flusher(x)' <=> Flusher(x))
  BY DEF Alone, Flusher
<1>2. /\ flushing' <=> \E x \in Tasks : Flusher(x)'
      /\ \A x, y \in Tasks : Flusher(x)' /\ Flusher(y)' => x = y
  BY <1>1 DEF FlushInv
<1>3. loading' # "done" => \A x \in Tasks : task'[x].pc \notin {"drain", "save", "keep"}
  BY <1>1 DEF FlushInv
<1> QED
  BY <1>2, <1>3 DEF FlushInv, Flusher

LEMMA StartsFlush ==
  ASSUME FlushInv, NEW t \in Tasks, task[t].pc \in {"idle", "fix"}, NEW n, Starts(t, n),
         UNCHANGED <<queue, wipe>>
  PROVE  FlushInv'
<1>1. ~Flusher(t) /\ Alone(t)
  BY DEF Flusher, Starts
<1>2. CASE flushing' = flushing /\ loading' = loading /\ Posts(t, user)
  BY <1>1, <1>2, FlushMove DEF FlushInv, Posts, Flusher
<1>3. CASE /\ ~flushing /\ flushing' = TRUE /\ loading = "done" /\ UNCHANGED loading
           /\ Drains(t, queue, user)
  BY <1>1, <1>3, FlushMove DEF Drains, Flusher
<1>4. CASE /\ ~flushing /\ flushing' = TRUE /\ loading # "done" /\ loading' = "reading"
           /\ task'[t].pc = "load" /\ task'[t].rest = <<>>
  BY <1>1, <1>4, FlushMove DEF FlushInv, Flusher
<1> QED
  BY <1>2, <1>3, <1>4 DEF Starts

\* An upload that neither drains nor queues goes to a state of the same kind.
LEMMA ByFlush ==
  ASSUME FlushInv, NEW t \in Tasks, Alone(t), ~Flusher(t), ~Flusher(t)', UNCHANGED flushing,
         loading' # "done" =>
           loading # "done" /\ queue' = queue /\ wipe' # "remove" /\ task'[t].pc # "keep"
  PROVE  FlushInv'
BY FlushMove DEF FlushInv, Flusher

LEMMA EndsFlush ==
  ASSUME FlushInv, NEW t \in Tasks, task[t].pc = "drain", NEW r, NEW who, EndsDrain(t, r, who),
         UNCHANGED loading
  PROVE  FlushInv'
<1>1. Alone(t) /\ Flusher(t) /\ loading' = "done"
  BY DEF FlushInv, EndsDrain, Flusher
<1>2. CASE flushing' = FALSE /\ Posts(t, who)
  BY <1>1, <1>2, FlushMove DEF Posts, Flusher
<1>3. CASE flushing' = flushing /\ task'[t].pc = "save"
  BY <1>1, <1>3, FlushMove DEF Flusher
<1> QED
  BY <1>2, <1>3 DEF EndsDrain

LEMMA FlushTurn ==
  ASSUME ListInv, FlushInv, NEW t \in Tasks, Turn(t)
  PROVE  FlushInv'
<1>1. CASE Position(t)
  BY <1>1, PositionList, StartsFlush DEF Position
<1>2. CASE Press(t)
  <2>1. Len(owner) + 1 \in Pings
    BY <1>2, CaptureIs DEF Press
  <2>2. task'[t].pc = "fix" /\ task[t].pc = "idle" /\ Alone(t)
    BY <1>2, <2>1, ListParts, PressList, AskedIs DEF Press
  <2>3. UNCHANGED <<flushing, loading, queue, wipe>>
    BY <1>2 DEF Press
  <2> QED
    BY <2>2, <2>3, ByFlush DEF FlushInv, Flusher
<1>3. CASE Fix(t)
  BY <1>3, FixList, StartsFlush DEF Fix
<1>4. CASE NoFix(t)
  <2>1. task'[t].pc = "idle" /\ task[t].pc = "fix" /\ Alone(t)
    BY <1>4, NoFixList, IdleIs DEF NoFix
  <2>2. UNCHANGED <<flushing, loading, queue, wipe>>
    BY <1>4 DEF NoFix
  <2> QED
    BY <2>1, <2>2, ByFlush DEF FlushInv, Flusher
<1>5. CASE Loaded(t)
  <2>1. Alone(t) /\ StartsDrain(t) /\ Flusher(t) /\ loading' = "done"
    BY <1>5, LoadedList DEF Loaded, Flusher
  <2>2. flushing
    BY <2>1 DEF FlushInv
  <2>3. CASE flushing' = FALSE /\ Posts(t, user)
    BY <2>1, <2>3, FlushMove DEF Posts, Flusher
  <2>4. CASE flushing' = TRUE /\ Drains(t, queue, user)
    BY <2>1, <2>2, <2>4, FlushMove DEF Drains, Flusher
  <2> QED
    BY <2>1, <2>3, <2>4 DEF StartsDrain
<1>6. CASE Save(t)
  <2>1. Alone(t) /\ Posts(t, user) /\ Flusher(t) /\ flushing' = FALSE /\ loading' = "done"
    BY <1>6, SaveList DEF Save, FlushInv, Flusher
  <2> QED
    BY <2>1, FlushMove DEF Posts, Flusher
<1>7. CASE Keep(t)
  <2>1. task'[t].pc = "idle" /\ task[t].pc = "keep" /\ Alone(t)
    BY <1>7, KeepList, IdleIs DEF Keep
  <2>2. UNCHANGED <<flushing, loading, queue, wipe>>
    BY <1>7 DEF Keep
  <2> QED
    BY <2>1, <2>2, ByFlush DEF FlushInv, Flusher
<1>8. CASE Accepted(t) \/ Refused(t) \/ Portal(t) \/ Unauthorized(t)
  <2>1. loading' = loading /\ (wipe' = wipe \/ wipe' = "cancel")
    BY <1>8 DEF Accepted, Refused, Portal, Unauthorized
  <2>2. PICK who : Finishes(t, who)
    BY <1>8, AnswerList
  <2>3. CASE /\ task[t].pc = "own" /\ Alone(t) /\ task'[t] = Idle
             /\ UNCHANGED <<queue, flushing, net>>
    BY <2>1, <2>3, ByFlush, IdleIs DEF FlushInv, Flusher
  <2>4. CASE task[t].pc = "drain" /\ EndsDrain(t, Tail(task[t].rest), who)
    BY <2>1, <2>4, EndsFlush
  <2>5. CASE /\ task[t].pc = "drain" /\ Alone(t)
             /\ Drains(t, Tail(task[t].rest), who) /\ UNCHANGED <<queue, flushing>>
    <3>1. loading' = "done" /\ Flusher(t) /\ Flusher(t)'
      BY <2>1, <2>5 DEF FlushInv, Flusher, Drains
    <3> QED
      BY <2>5, <3>1, FlushMove
  <2> QED
    BY <2>2, <2>3, <2>4, <2>5 DEF Finishes
<1>9. CASE DrainFailed(t)
  BY <1>9, DrainFailedList, EndsFlush DEF DrainFailed
<1>10. CASE PostFailed(t) \/ EnqueueLate(t)
  <2>1. task[t].pc \in {"own", "enqueue"} /\ Retries(t) /\ UNCHANGED <<flushing, loading, wipe>>
    BY <1>10, RetryList DEF PostFailed, EnqueueLate
  <2>2. /\ Alone(t) /\ task'[t].pc \in {"idle", "enqueue", "keep"}
        /\ loading' # "done" => queue' = queue /\ task'[t].pc # "keep"
    BY <2>1, IdleIs DEF Retries, Enqueues
  <2> QED
    BY <2>1, <2>2, ByFlush DEF FlushInv, Flusher
<1> QED
  BY <1>1, <1>2, <1>3, <1>4, <1>5, <1>6, <1>7, <1>8, <1>9, <1>10 DEF Turn

LEMMA FlushStep ==
  ASSUME ListInv, FlushInv, [Next]_vars
  PROVE  FlushInv'
<1>1. CASE Crash
  <2>1. \A t \in Tasks : task'[t].pc = "idle"
    BY <1>1, CrashList, IdleIs
  <2>2. flushing' = FALSE /\ queue' = <<>> /\ wipe' = "none"
    BY <1>1 DEF Crash
  <2> QED
    BY <2>1, <2>2 DEF FlushInv, Flusher
<1>2. CASE Aside
  <2>1. task' = task
    BY <1>2, AsideList
  <2>2. /\ flushing' = flushing
        /\ loading' # "done" =>
             loading # "done" /\ (queue' = queue \/ queue' = <<>>) /\ (wipe' # "remove" \/ wipe' = wipe)
    BY <1>2 DEF Aside, StartLoad, FinishRead, StreamStarts, LogOut, WipeMemory, WipeDisk, Ingest, LogIn,
                vars, client
  <2> QED
    BY <2>1, <2>2 DEF FlushInv, Flusher
<1> QED
  BY <1>1, <1>2, FlushTurn, Steps

LEMMA FlushInit ==
  ASSUME Init
  PROVE  FlushInv
<1>1. \A t \in Tasks : task[t] = Idle
  BY DEF Init
<1> QED
  BY <1>1, IdleIs DEF Init, FlushInv, Flusher
-----------------------------------------------------------------------------
(* OwnInv is kept.                                                         *)

LEMMA MineIs ==
  ASSUME ListInv
  PROVE  \A t \in Tasks : Mine(t) \subseteq Taken
<1>1. \A t \in Tasks : Elements(task[t].rest) \subseteq Taken
  BY ListedIs
<1>2. \A t \in Tasks : Holding(t) => task[t].ping \in Taken
  BY ListParts DEF Holding, Carries
<1> QED
  BY <1>1, <1>2 DEF Mine

LEMMA EnqueuesElements ==
  ASSUME ListInv, NEW t \in Tasks, task[t].pc \in {"own", "enqueue"}, Enqueues(t)
  PROVE  /\ task[t].ping \in Elements(queue')
         /\ Elements(queue') \subseteq Elements(queue) \cup {task[t].ping}
<1>1. Carries(task[t], Taken, session) /\ Holding(t) /\ Taken \subseteq Pings
  BY ListParts DEF Holding
<1>2. task[t].ping \in Taken \cap Pings /\ task[t].ping \notin Elements(queue)
  BY <1>1, ListedIs DEF Carries, ListInv, Fresh
<1> QED
  BY <1>2, ListParts, GoodNext DEF Enqueues

\* The session goes on, or a teardown begins.
Steady ==
  /\ UNCHANGED <<saved, session, stranded>>
  /\ wipe' = "cancel" \/ UNCHANGED <<user, wipe>>

\* Only upload t moves, in one session.
LEMMA OwnMove ==
  ASSUME ListInv, OwnInv, NEW t \in Tasks, Alone(t), Steady,
         late \subseteq late', \A n \in Taken : owner'[n] = owner[n],
         task'[t].pc = "fix" /\ Current(t)' =>
           /\ wipe' # "remove" /\ (wipe' = "none" => user' # NoUser)
           /\ owner'[task'[t].ping] # NoUser /\ (saved # NoUser => owner'[task'[t].ping] = saved),
         disk' \in {disk, queue},
         Elements(queue') \subseteq Elements(queue) \cup Mine(t),
         \A n \in Mine(t)' : n \in Elements(queue) \cup Mine(t) \/ Own(n)'
  PROVE  OwnInv'
<1>1. FixInv'
  <2> SUFFICES ASSUME NEW x \in Tasks, task'[x].pc = "fix", Current(x)'
               PROVE  /\ wipe' # "remove" /\ (wipe' = "none" => user' # NoUser)
                      /\ owner'[task'[x].ping] # NoUser
                      /\ saved # NoUser => owner'[task'[x].ping] = saved
    BY DEF FixInv, Steady
  <2>1. CASE x = t
    BY <2>1
  <2>2. CASE x # t
    <3>1. task'[x] = task[x] /\ Current(x) /\ task[x].ping \in Taken
      BY <2>2, ListParts DEF Alone, Current, Carries, Steady
    <3> QED
      BY <3>1 DEF OwnInv, FixInv, Steady
  <2> QED
    BY <2>1, <2>2
<1>2. \A n \in Taken : (Own(n) => Own(n)') /\ (OwnStored(n) => OwnStored(n)') /\ (Own(n) => OwnStored(n)')
  BY DEF Own, OwnStored, Stray, Steady
<1>3. Elements(queue) \subseteq Taken /\ Elements(disk) \subseteq Taken /\ Mine(t) \subseteq Taken
  BY ListedIs, MineIs
<1>0. Steady
  OBVIOUS
<1>4. ~stranded' /\ (saved' # NoUser \/ wipe' = "none") => \A n \in Elements(disk') : OwnStored(n)'
  BY <1>0, <1>2, <1>3 DEF OwnInv, Steady
<1>5. ASSUME ~stranded', saved' # NoUser \/ wipe' # "cancel"
      PROVE  \A n \in Elements(queue') : Own(n)'
  BY <1>0, <1>2, <1>3, <1>5 DEF OwnInv, Steady
<1>6. ASSUME ~stranded', saved' # NoUser \/ wipe' # "cancel", NEW x \in Tasks
      PROVE  \A n \in Mine(x)' : Own(n)'
  <2>1. CASE x = t
    BY <1>0, <1>2, <1>3, <1>6, <2>1 DEF OwnInv, Steady
  <2>2. CASE x # t
    <3>1. Mine(x)' = Mine(x) /\ Mine(x) \subseteq Taken
      BY <1>0, <2>2, MineIs DEF Alone, Mine, Holding, Current, Steady
    <3> QED
      BY <1>0, <1>2, <1>6, <3>1 DEF OwnInv, Steady
  <2> QED
    BY <2>1, <2>2
<1> QED
  BY <1>1, <1>4, <1>5, <1>6 DEF OwnInv

LEMMA StartsOwn ==
  ASSUME ListInv, OwnInv, NEW t \in Tasks, NEW n, Starts(t, n), Steady,
         UNCHANGED <<disk, queue>>,
         late \subseteq late', \A m \in Taken : owner'[m] = owner[m],
         n \in Mine(t) \/ Own(n)'
  PROVE  OwnInv'
<1>1. Alone(t) /\ task'[t].ping = n /\ task'[t].pc # "fix"
  BY DEF Starts, GoesOn, Posts, Drains
<1>2. Elements(task'[t].rest) \subseteq Elements(queue)
  BY EmptyGood DEF Starts, Posts, Drains
<1>3. Mine(t)' \subseteq {n} \cup Elements(queue)
  BY <1>1, <1>2 DEF Mine
<1> QED
  BY <1>1, <1>3, OwnMove

\* An upload that goes on with less than it had.
LEMMA LessOwn ==
  ASSUME ListInv, OwnInv, NEW t \in Tasks, Alone(t), Steady,
         UNCHANGED <<owner, late>>,
         disk' \in {disk, queue}, Elements(queue') \subseteq Elements(queue) \cup Mine(t),
         \/ task'[t] = Idle
         \/ /\ GoesOn(t, task[t].ping, task[t].session) /\ Holding(t) /\ task'[t].pc # "fix"
            /\ Elements(task'[t].rest) \subseteq Elements(queue) \cup Elements(task[t].rest)
  PROVE  OwnInv'
<1>1. task'[t].pc # "fix"
  BY IdleIs
<1>2. CASE task'[t] = Idle
  <2>1. Mine(t)' = {}
    BY <1>2, IdleIs DEF Mine, Holding
  <2> QED
    BY <1>1, <2>1, OwnMove
<1>3. CASE /\ GoesOn(t, task[t].ping, task[t].session) /\ Holding(t)
           /\ Elements(task'[t].rest) \subseteq Elements(queue) \cup Elements(task[t].rest)
  <2>1. Mine(t)' \subseteq Elements(queue) \cup Mine(t)
    BY <1>3 DEF Mine, GoesOn, Current, Steady
  <2> QED
    BY <1>1, <2>1, OwnMove
<1> QED
  BY <1>2, <1>3

LEMMA EndsOwn ==
  ASSUME ListInv, OwnInv, NEW t \in Tasks, task[t].pc = "drain", NEW who,
         NEW r, Elements(r) \subseteq Elements(task[t].rest), EndsDrain(t, r, who),
         Steady, UNCHANGED <<owner, late, disk>>
  PROVE  OwnInv'
<1>1. /\ Alone(t) /\ GoesOn(t, task[t].ping, task[t].session) /\ Holding(t)
      /\ task'[t].pc # "fix"
  BY DEF EndsDrain, Posts, Holding
<1>2. Elements(task'[t].rest) = {}
  BY EmptyGood DEF EndsDrain, Posts
<1>3. Elements(queue') \subseteq Elements(queue) \cup Mine(t)
  BY <1>1 DEF EndsDrain, Mine
<1> QED
  BY <1>1, <1>2, <1>3, LessOwn

LEMMA OwnTurn ==
  ASSUME ListInv, OwnInv, NEW t \in Tasks, Turn(t)
  PROVE  OwnInv'
<1>1. CASE Position(t)
  <2>0. PICK n : n = Len(owner) + 1
    OBVIOUS
  <2>1. \A m \in Taken : owner'[m] = owner[m]
    BY <1>1, CaptureIs DEF Position, Steady
  <2>2. owner'[n] = user
    BY <1>1, <2>0, CaptureIs DEF Position, Steady
  <2>3. /\ Starts(t, n) /\ Steady /\ UNCHANGED <<user, saved, wipe, session, disk, queue>>
        /\ late \subseteq late' /\ (wipe = "remove" => n \in late')
    BY <1>1, <2>0, PositionList DEF Position, Steady
  <2>4. Own(n)'
    BY <2>2, <2>3 DEF Own, Stray, ListInv, Scalars
  <2> QED
    BY <2>1, <2>2, <2>3, <2>4, StartsOwn
<1>2. CASE Press(t)
  <2>0. PICK n : n = Len(owner) + 1
    OBVIOUS
  <2>1. /\ \A m \in Taken : owner'[m] = owner[m]
        /\ n \in Pings /\ owner'[n] = user
    BY <1>2, <2>0, CaptureIs DEF Press
  <2>2. /\ Steady /\ UNCHANGED <<user, saved, wipe, session, disk, queue, late>>
        /\ wipe = "none" /\ user # NoUser /\ Alone(t) /\ task'[t] = Asked(n)
    BY <1>2, <2>0, PressList DEF Press, history, Steady
  <2>3. task'[t].ping = n /\ task'[t].rest = <<>>
    BY <2>1, <2>2, ListParts, AskedIs
  <2>4. saved = user /\ Own(n)'
    BY <2>1, <2>2 DEF Own, ListInv, Scalars
  <2>5. Mine(t)' \subseteq {n}
    BY <2>3, EmptyGood DEF Mine
  <2> QED
    BY <2>1, <2>2, <2>3, <2>4, <2>5, OwnMove
<1>3. CASE Fix(t)
  <2>1. Starts(t, task[t].ping) /\ Steady /\ UNCHANGED <<session, disk, queue, owner>>
    BY <1>3, FixList DEF Fix, Steady
  <2>2. late \subseteq late' /\ (Current(t) \/ task[t].ping \in late')
    BY <1>3 DEF Fix, Current
  <2>3. task[t].ping \in Mine(t) \/ task[t].ping \in late'
    BY <1>3, <2>2 DEF Fix, Mine, Holding
  <2>4. task[t].ping \in Mine(t) \/ (\A n : n = task[t].ping => Own(n)')
    BY <2>3 DEF Own, Stray
  <2> QED
    BY <2>1, <2>2, <2>4, StartsOwn
<1>4. CASE NoFix(t)
  <2>1. /\ Steady /\ UNCHANGED <<owner, late, disk, queue>>
        /\ Alone(t) /\ task'[t] = Idle
    BY <1>4, NoFixList DEF NoFix, history, Steady
  <2> QED
    BY <2>1, LessOwn
<1>5. CASE Loaded(t)
  <2>1. /\ Steady /\ UNCHANGED <<owner, late, disk, queue>>
        /\ Alone(t) /\ GoesOn(t, task[t].ping, task[t].session) /\ Holding(t) /\ StartsDrain(t)
    BY <1>5, LoadedList DEF Loaded, history, Holding, Steady
  <2>2. task'[t].pc # "fix" /\ Elements(task'[t].rest) \subseteq Elements(queue)
    BY <2>1, EmptyGood DEF StartsDrain, Posts, Drains
  <2> QED
    BY <2>1, <2>2, LessOwn
<1>6. CASE Save(t)
  <2>1. /\ Steady /\ UNCHANGED <<owner, late, queue>> /\ disk' = queue
        /\ Alone(t) /\ GoesOn(t, task[t].ping, task[t].session) /\ Holding(t) /\ Posts(t, user)
    BY <1>6, SaveList DEF Save, history, Holding, Steady
  <2>2. task'[t].pc # "fix" /\ Elements(task'[t].rest) = {}
    BY <2>1, EmptyGood DEF Posts
  <2> QED
    BY <2>1, <2>2, LessOwn
<1>7. CASE Keep(t)
  <2>1. /\ Steady /\ UNCHANGED <<owner, late, queue>> /\ disk' = queue
        /\ Alone(t) /\ task'[t] = Idle
    BY <1>7, KeepList DEF Keep, history, Steady
  <2> QED
    BY <2>1, LessOwn
<1>8. CASE Unauthorized(t) /\ saved' = NoUser
  <2>1. wipe' = "cancel" /\ UNCHANGED <<owner, session>>
    BY <1>8 DEF Unauthorized
  <2>2. PICK who : Finishes(t, who)
    BY <1>8, AnswerList
  <2>3. Alone(t) /\ task'[t].pc # "fix"
    BY <2>2, IdleIs DEF Finishes, EndsDrain, Drains, Posts
  <2>4. \A x \in Tasks : task'[x].pc = "fix" /\ Current(x)' => owner'[task'[x].ping] # NoUser
    BY <2>1, <2>3 DEF OwnInv, FixInv, Alone, Current
  <2> QED
    BY <1>8, <2>1, <2>4 DEF OwnInv, FixInv
<1>9. CASE Accepted(t) \/ Refused(t) \/ Portal(t) \/ (Unauthorized(t) /\ saved' = saved)
  <2>1. Steady /\ UNCHANGED <<owner, late, disk>>
    BY <1>9 DEF Accepted, Refused, Portal, Unauthorized, history, Steady
  <2>2. PICK who : Finishes(t, who)
    BY <1>9, AnswerList
  <2>3. CASE /\ task[t].pc = "own" /\ Alone(t) /\ task'[t] = Idle
             /\ UNCHANGED <<queue, flushing, net>>
    BY <2>1, <2>3, LessOwn
  <2>4. task[t].pc = "drain" => Elements(Tail(task[t].rest)) \subseteq Elements(task[t].rest)
    BY ListParts, GoodTail DEF Carries
  <2>5. CASE task[t].pc = "drain" /\ EndsDrain(t, Tail(task[t].rest), who)
    BY <2>1, <2>4, <2>5, EndsOwn
  <2>6. CASE /\ task[t].pc = "drain" /\ Alone(t) /\ GoesOn(t, task[t].ping, task[t].session)
             /\ Drains(t, Tail(task[t].rest), who) /\ UNCHANGED <<queue, flushing>>
    <3>1. Holding(t) /\ task'[t].pc # "fix" /\ task'[t].rest = Tail(task[t].rest)
      BY <2>6 DEF Drains, Holding
    <3> QED
      BY <2>1, <2>4, <2>6, <3>1, LessOwn
  <2> QED
    BY <2>2, <2>3, <2>5, <2>6 DEF Finishes
<1>10. CASE DrainFailed(t)
  <2>1. Steady /\ UNCHANGED <<owner, late, disk>> /\ task[t].pc = "drain"
    BY <1>10 DEF DrainFailed, history, Steady
  <2> QED
    BY <1>10, <2>1, DrainFailedList, EndsOwn
<1>11. CASE PostFailed(t) \/ EnqueueLate(t)
  <2>1. /\ Steady /\ UNCHANGED <<owner, late, disk>>
        /\ task[t].pc \in {"own", "enqueue"} /\ Retries(t) /\ Holding(t)
    BY <1>11, RetryList DEF PostFailed, EnqueueLate, Holding, Steady
  <2>2. CASE Alone(t) /\ task'[t] = Idle /\ UNCHANGED queue
    BY <2>1, <2>2, LessOwn
  <2>3. CASE Current(t) /\ Enqueues(t)
    <3>1. Elements(queue') \subseteq Elements(queue) \cup Mine(t)
      BY <2>1, <2>3, EnqueuesElements DEF Mine
    <3> QED
      BY <2>1, <2>3, <3>1, LessOwn DEF Enqueues
  <2>4. CASE /\ Alone(t) /\ GoesOn(t, task[t].ping, task[t].session)
             /\ task'[t].pc = "enqueue" /\ task'[t].rest = task[t].rest /\ UNCHANGED queue
    BY <2>1, <2>4, LessOwn
  <2> QED
    BY <2>1, <2>2, <2>3, <2>4 DEF Retries
<1>12. Unauthorized(t) => saved' \in {saved, NoUser}
  BY DEF Unauthorized
<1> QED
  BY <1>1, <1>2, <1>3, <1>4, <1>5, <1>6, <1>7, <1>8, <1>9, <1>10, <1>11, <1>12 DEF Turn

\* A teardown leaves nothing in the queue, and no upload in the session.
LEMMA OwnAside ==
  ASSUME ListInv, FlushInv, OwnInv, Aside
  PROVE  OwnInv'
<1>1. task' = task
  BY AsideList
<1>2. CASE StartLoad \/ StreamStarts \/ Ingest \/ LogOut \/ UNCHANGED vars
  <2>1. /\ UNCHANGED <<owner, user, saved, session, stranded, late, queue, disk>>
        /\ wipe' = wipe \/ (wipe = "none" /\ wipe' = "cancel" /\ user # NoUser)
    BY <1>2 DEF StartLoad, StreamStarts, Ingest, LogOut, vars, client, history
  <2>2. /\ FixInv'
        /\ \A n : (Own(n) => Own(n)') /\ (OwnStored(n) => OwnStored(n)')
        /\ \A t : Mine(t)' = Mine(t)
    BY <1>1, <2>1 DEF OwnInv, FixInv, Current, Own, OwnStored, Stray, Mine, Holding
  <2> QED
    BY <2>1, <2>2 DEF OwnInv
<1>3. CASE FinishRead
  <2>1. /\ UNCHANGED <<owner, user, saved, wipe, session, stranded, late, disk>>
        /\ queue' = disk /\ wipe # "remove"
    BY <1>3 DEF FinishRead, history, FlushInv
  <2>2. /\ FixInv'
        /\ \A n : (Own(n) => Own(n)') /\ (OwnStored(n) => OwnStored(n)') /\ (OwnStored(n) => Own(n)')
        /\ \A t : Mine(t)' = Mine(t)
    BY <1>1, <2>1 DEF OwnInv, FixInv, Current, Own, OwnStored, Stray, Mine, Holding
  <2>3. saved # NoUser \/ wipe # "cancel" => saved # NoUser \/ wipe = "none"
    BY <2>1 DEF ListInv, Scalars
  <2> QED
    BY <2>1, <2>2, <2>3 DEF OwnInv
<1>4. CASE \E u \in Users : LogIn(u)
  <2>1. /\ UNCHANGED <<owner, wipe, session, stranded, late, queue, disk>>
        /\ user = NoUser /\ wipe = "none" /\ saved = NoUser
    BY <1>4 DEF LogIn, history, ListInv, Scalars
  <2>2. /\ FixInv'
        /\ \A n : (Own(n) => Own(n)') /\ (OwnStored(n) => OwnStored(n)')
        /\ \A t : Mine(t)' = Mine(t)
    BY <1>1, <2>1 DEF OwnInv, FixInv, Current, Own, OwnStored, Stray, Mine, Holding
  <2> QED
    BY <2>1, <2>2 DEF OwnInv
<1>5. CASE WipeMemory
  <2>1. /\ UNCHANGED <<owner, user, saved, stranded, late, disk>> /\ queue' = <<>>
        /\ wipe' = "remove" /\ session' = session + 1
    BY <1>5 DEF WipeMemory
  <2>2. \A t \in Tasks : ~Current(t)' /\ Mine(t)' = {}
    <3>1. \A t \in Tasks : task[t].session <= session /\ task[t].session \in Nat /\ session \in Nat
      BY ListParts DEF Carries, TaskState
    <3> QED
      BY <1>1, <2>1, <3>1 DEF Current, Mine
  <2>3. \A n : OwnStored(n) => OwnStored(n)'
    BY <2>1 DEF OwnStored, Stray
  <2> QED
    BY <2>1, <2>2, <2>3, EmptyGood DEF OwnInv, FixInv
<1>6. CASE WipeDisk
  <2>1. /\ UNCHANGED <<owner, session, stranded, late>> /\ queue' = <<>> /\ disk' = <<>>
        /\ wipe = "remove" /\ wipe' = "none"
    BY <1>6 DEF WipeDisk
  <2>2. /\ FixInv'
        /\ \A n : Own(n) => Own(n)'
        /\ \A t : Mine(t)' = Mine(t)
    BY <1>1, <2>1 DEF OwnInv, FixInv, Current, Own, Stray, Mine, Holding
  <2> QED
    BY <2>1, <2>2, EmptyGood DEF OwnInv
<1> QED
  BY <1>2, <1>3, <1>4, <1>5, <1>6 DEF Aside

LEMMA OwnCrash ==
  ASSUME ListInv, OwnInv, Crash
  PROVE  OwnInv'
<1>1. /\ UNCHANGED <<owner, late, disk>> /\ queue' = <<>> /\ saved' = saved
      /\ ~stranded' => ~stranded /\ (saved # NoUser \/ disk = <<>>)
  BY DEF Crash, ListInv, Scalars
<1>2. \A t \in Tasks : Mine(t)' = {} /\ task'[t].pc # "fix"
  BY CrashList, IdleIs DEF Mine, Holding
<1>3. \A n : OwnStored(n) => OwnStored(n)'
  BY <1>1 DEF OwnStored, Stray
<1> QED
  BY <1>1, <1>2, <1>3, EmptyGood DEF OwnInv, FixInv

LEMMA OwnInit ==
  ASSUME Init
  PROVE  OwnInv
<1>1. \A t \in Tasks : Mine(t) = {} /\ task[t].pc # "fix"
  BY IdleIs DEF Init, Mine, Holding
<1>2. Elements(queue) = {} /\ Elements(disk) = {}
  BY EmptyGood DEF Init
<1> QED
  BY <1>1, <1>2 DEF OwnInv, FixInv

LEMMA OwnStep ==
  ASSUME ListInv, FlushInv, OwnInv, [Next]_vars
  PROVE  OwnInv'
BY OwnTurn, OwnAside, OwnCrash, Steps

\* No ping that one account recorded waits for another to send it: no upload of
\* an ended session writes to the queue (the guards of _upload, _enqueue and
\* _flushQueue), save a ping taken once its session had ended, and what a kill
\* in mid-teardown leaves behind.  A stream that runs with nobody signed in can
\* still leave its own pings for whoever signs in next.
THEOREM QueueKeepsAccountsApart == Spec => []NoOthersPings
<1>1. ListInv /\ OwnInv => NoOthersPings
  BY DEF ListInv, Scalars, OwnInv, Own, OwnStored, Stray, NoOthersPings
<1> QED
  BY <1>1, ListInit, ListStep, FlushInit, FlushStep, OwnInit, OwnStep, PTL DEF Spec
-----------------------------------------------------------------------------
(* OwedInv is kept.                                                        *)

Working(t) == task[t].pc \notin {"idle", "fix", "keep"}

LEMMA InFlightIs ==
  ASSUME ListInv, NEW t \in Tasks, task[t].pc \in {"drain", "own"}
  PROVE  /\ InFlight(t) \in Taken
         /\ InFlight(t) \in Listed \/ InFlight(t) = task[t].ping
         /\ task[t].pc = "drain" =>
              \A n \in Elements(task[t].rest) : n = InFlight(t) \/ n \in Elements(Tail(task[t].rest))
<1>1. Carries(task[t], Taken, session) /\ Elements(task[t].rest) \subseteq Listed /\ Listed \subseteq Taken
  BY ListParts, ListedIs
<1>2. CASE task[t].pc = "drain"
  BY <1>1, <1>2, GoodTail DEF Carries, InFlight
<1>3. CASE task[t].pc = "own"
  BY <1>1, <1>3 DEF Carries, InFlight
<1> QED
  BY <1>2, <1>3

\* An upload that stays where it is, while pings of N become owed.
LEMMA AccountsStay ==
  ASSUME ListInv, OwedInv, NEW x \in Tasks, task'[x] = task[x], session' = session,
         \A n \in Taken : owner'[n] = owner[n] /\ (Delivered(n) => Delivered(n)'),
         NEW N, owed' \subseteq owed \cup N, late' \subseteq late \cup N,
         Holding(x) => task[x].ping \notin N, N \cap Listed = {},
         task[x].pc = "drain" => Awaited' \subseteq Awaited
  PROVE  AccountsFor(x)'
<1>1. /\ AccountsFor(x) /\ (task[x].pc \in {"drain", "own"} => InFlight(x)' = InFlight(x))
      /\ Current(x)' <=> Current(x)
      /\ Holding(x)' <=> Holding(x)
  BY DEF OwedInv, InFlight, Current, Holding
<1>2. task[x].pc = "fix" => task'[x].ping \notin owed' \cup late'
  BY <1>1 DEF AccountsFor, Holding
<1>3. Holding(x)' /\ task'[x].ping \in owed' => Current(x)'
  BY <1>1 DEF AccountsFor
<1>4. ASSUME task[x].pc \in {"drain", "own"}, task[x].as # NoUser, InFlight(x) \in owed'
      PROVE  task'[x].as = owner'[InFlight(x)]
  <2>1. InFlight(x) \in Taken /\ InFlight(x) \notin N
    BY <1>4, InFlightIs DEF Holding
  <2> QED
    BY <1>1, <1>4, <2>1 DEF AccountsFor
<1>5. ASSUME task[x].pc = "drain", Current(x), NEW n \in Awaited'
      PROVE  n \in Elements(task[x].rest) \/ Delivered(n)'
  <2>1. n \in Awaited /\ Awaited \subseteq Taken
    BY <1>5 DEF Awaited, OwedInv, OwedScalars
  <2> QED
    BY <1>1, <1>5, <2>1 DEF AccountsFor
<1> QED
  BY <1>1, <1>2, <1>3, <1>4, <1>5 DEF AccountsFor

\* An upload that has just sent something, or has nothing to send.
LEMMA AccountsNow ==
  ASSUME OwedScalars', NEW t \in Tasks, task'[t].pc # "fix",
         Holding(t)' /\ task'[t].ping \in owed' => Current(t)',
         task'[t].pc \in {"drain", "own"} => task'[t].as \in {user', NoUser},
         task'[t].pc = "drain" /\ Current(t)' =>
           \A n \in Awaited' : n \in Elements(task'[t].rest) \/ Delivered(n)'
  PROVE  AccountsFor(t)'
BY DEF AccountsFor, OwedScalars

LEMMA HeldStays ==
  ASSUME NEW t \in Tasks, Alone(t), NEW n, Held(n), rows' = rows, owner'[n] = owner[n],
         n \in Elements(queue) => Held(n)',
         loading # "done" => loading' # "done" /\ disk' = disk,
         Working(t) /\ task[t].ping = n => Held(n)'
  PROVE  Held(n)'
<1>1. CASE rows[<<owner[n], n>>] > 0
  BY <1>1 DEF Held
<1>2. CASE loading # "done" /\ n \in Elements(disk)
  BY <1>2 DEF Held
<1>3. ASSUME NEW x \in Tasks, Working(x), task[x].ping = n
      PROVE  Held(n)'
  <2>1. CASE x = t
    BY <1>3, <2>1
  <2>2. CASE x # t
    <3>1. task'[x] = task[x]
      BY <2>2 DEF Alone
    <3>2. InHand(n)'
      BY <1>3, <3>1 DEF InHand, Working
    <3> QED
      BY <3>2 DEF Held
  <2> QED
    BY <2>1, <2>2
<1> QED
  BY <1>1, <1>2, <1>3 DEF Held, InHand, Working

\* Only upload t moves, and nothing becomes owed but pings it has in hand.
LEMMA OwedMove ==
  ASSUME ListInv, OwedInv, NEW t \in Tasks, Alone(t), UNCHANGED <<session, rows>>,
         \A n \in Taken : owner'[n] = owner[n],
         NEW N, owed' \subseteq owed \cup N, late' \subseteq late \cup N, N \cap Listed = {},
         \A x \in Tasks \ {t} : Holding(x) => task[x].ping \notin N,
         crossed \subseteq crossed', OwedScalars', AccountsFor(t)',
         \A x \in Tasks \ {t} : task[x].pc = "drain" => Awaited' \subseteq Awaited,
         loading # "done" => loading' # "done" /\ disk' = disk,
         \A n \in owed' \cap N : Held(n)',
         \A n \in (owed' \ crossed') \cap Elements(queue) : Held(n)',
         Working(t) /\ task[t].ping \in owed' \ crossed' =>
           \A n : n = task[t].ping => Held(n)'
  PROVE  OwedInv'
<1>1. \A n \in Taken : Delivered(n) => Delivered(n)'
  BY DEF Delivered
<1>2. ASSUME NEW x \in Tasks
      PROVE  AccountsFor(x)'
  <2>1. CASE x = t
    BY <2>1
  <2>2. CASE x # t
    <3>1. task'[x] = task[x]
      BY <2>2 DEF Alone
    <3> QED
      BY <1>1, <2>2, <3>1, AccountsStay
  <2> QED
    BY <2>1, <2>2
<1>3. ASSUME NEW n \in owed' \ crossed'
      PROVE  Held(n)'
  <2>1. CASE n \in N
    BY <1>3, <2>1
  <2>2. CASE n \notin N
    <3>1. n \in owed \ crossed /\ n \in Taken
      BY <1>3, <2>2 DEF OwedInv, OwedScalars
    <3>2. Held(n)
      BY <3>1 DEF OwedInv, NothingForgotten
    <3>3. n \in Elements(queue) => Held(n)'
      BY <1>3
    <3>4. Working(t) /\ task[t].ping = n => Held(n)'
      BY <1>3
    <3> QED
      BY <3>1, <3>2, <3>3, <3>4, HeldStays
  <2> QED
    BY <2>1, <2>2
<1> QED
  BY <1>2, <1>3 DEF OwedInv, NothingForgotten

\* The same when nothing becomes owed.
LEMMA OwedLess ==
  ASSUME ListInv, OwedInv, NEW t \in Tasks, Alone(t), UNCHANGED <<session, rows, owner, late>>,
         owed' \subseteq owed, crossed \subseteq crossed', OwedScalars', AccountsFor(t)',
         \A x \in Tasks \ {t} : task[x].pc = "drain" => Awaited' \subseteq Awaited,
         loading # "done" => loading' # "done" /\ disk' = disk,
         \A n \in (owed' \ crossed') \cap Elements(queue) : Held(n)',
         Working(t) /\ task[t].ping \in owed' \ crossed' =>
           \A n : n = task[t].ping => Held(n)'
  PROVE  OwedInv'
<1> DEFINE N == {}
<1>1. /\ owed' \subseteq owed \cup N /\ late' \subseteq late \cup N /\ N \cap Listed = {}
      /\ \A x \in Tasks \ {t} : Holding(x) => task[x].ping \notin N
      /\ \A n \in owed' \cap N : Held(n)'
  OBVIOUS
<1>2. \A n \in Taken : owner'[n] = owner[n]
  OBVIOUS
<1> HIDE DEF N
<1> QED
  BY <1>1, <1>2, OwedMove

\* A ping in the hands of an upload that goes on is held.
LEMMA WorkingHolds ==
  ASSUME NEW t \in Tasks, task'[t].pc \notin {"idle", "fix", "keep"}, NEW n, n = task'[t].ping
  PROVE  Held(n)'
BY DEF Held, InHand
LEMMA StartsOwed ==
  ASSUME ListInv, OwedInv, NEW t \in Tasks, task[t].pc \in {"idle", "fix"}, NEW n, Starts(t, n),
         UNCHANGED <<session, rows, queue, disk, crossed, user, saved>>,
         \A m \in Taken : owner'[m] = owner[m], n \notin Listed,
         \A x \in Tasks \ {t} : Holding(x) => task[x].ping # n,
         owed' \subseteq owed \cup {n}, late' \subseteq late \cup {n}, OwedScalars'
  PROVE  OwedInv'
<1>1. /\ Alone(t) /\ task'[t].ping = n /\ task'[t].session = session'
      /\ task'[t].pc \in {"own", "drain", "load"} /\ (loading # "done" => loading' # "done")
  BY DEF Starts, GoesOn, Posts, Drains
<1>2. Held(n)'
  BY <1>1, WorkingHolds
<1>3. AccountsFor(t)'
  <2>1. task'[t].pc \in {"drain", "own"} => task'[t].as \in {user', NoUser}
    BY DEF Starts, Posts, Drains
  <2>2. task'[t].pc = "drain" => \A m \in Awaited' : m \in Elements(task'[t].rest) \/ Delivered(m)'
    BY DEF Starts, Posts, Drains, Awaited
  <2> QED
    BY <1>1, <2>1, <2>2, AccountsNow DEF Current
<1>4. Awaited' \subseteq Awaited
  BY ListedIs DEF Awaited
<1>5. \A m \in (owed' \ crossed') \cap Elements(queue) : Held(m)'
  BY DEF Held
<1> DEFINE N == {n}
<1>6. /\ owed' \subseteq owed \cup N /\ late' \subseteq late \cup N /\ N \cap Listed = {}
      /\ \A x \in Tasks \ {t} : Holding(x) => task[x].ping \notin N
      /\ \A m \in owed' \cap N : Held(m)'
  BY <1>2
<1>7. ~Working(t)
  BY DEF Working
<1> HIDE DEF N
<1> QED
  BY <1>1, <1>3, <1>4, <1>5, <1>6, <1>7, OwedMove

LEMMA PositionOwed ==
  ASSUME ListInv, OwedInv, NEW t \in Tasks, Position(t)
  PROVE  OwedInv'
<1>1. PICK n : n = Len(owner) + 1
  OBVIOUS
<1>2. /\ n \in Taken' /\ n \notin Taken /\ Taken \subseteq Taken' /\ owner'[n] = user
      /\ \A m \in Taken : owner'[m] = owner[m]
  BY <1>1, CaptureIs DEF Position
<1>3. /\ Starts(t, n) /\ task[t].pc = "idle"
      /\ UNCHANGED <<session, rows, queue, disk, crossed, user, saved, wipe>>
      /\ \/ owed' = owed \cup {n} /\ late' = late /\ user # NoUser /\ wipe # "remove"
         \/ owed' = owed /\ (late' = late \/ late' = late \cup {n})
  BY <1>1, PositionList DEF Position
<1>4. n \notin Listed /\ \A x \in Tasks \ {t} : Holding(x) => task[x].ping # n
  BY <1>2, ListedIs, ListParts DEF Holding, Carries
<1>5. OwedScalars'
  BY <1>2, <1>3 DEF OwedInv, OwedScalars
<1> QED
  BY <1>2, <1>3, <1>4, <1>5, StartsOwed

LEMMA FixOwed ==
  ASSUME ListInv, OwnInv, OwedInv, NEW t \in Tasks, Fix(t)
  PROVE  OwedInv'
<1>1. PICK n : n = task[t].ping
  OBVIOUS
<1>2. /\ Starts(t, n) /\ task[t].pc = "fix"
      /\ UNCHANGED <<owner, session, rows, queue, disk, crossed, user, saved, wipe>>
  BY <1>1, FixList DEF Fix
<1>3. n \in Taken /\ n \notin owed /\ n \notin late /\ Taken' = Taken
  BY <1>1, <1>2, ListParts DEF Carries, OwedInv, AccountsFor, Taken
<1>4. n \notin Listed /\ \A x \in Tasks \ {t} : Holding(x) => task[x].ping # n
  BY <1>1, <1>2 DEF ListInv, Fresh, Holding
<1>5. CASE Current(t)
  <2>1. owed' = owed \cup {n} /\ late' = late
    BY <1>1, <1>5 DEF Fix, Current
  <2>2. /\ wipe # "remove" /\ (wipe = "none" => user # NoUser)
        /\ owner[n] # NoUser /\ (saved # NoUser => owner[n] = saved)
    BY <1>1, <1>2, <1>5 DEF OwnInv, FixInv
  <2>3. OwedScalars'
    BY <1>2, <1>3, <2>1, <2>2 DEF OwedInv, OwedScalars
  <2> QED
    BY <1>2, <1>4, <2>1, <2>3, StartsOwed
<1>6. CASE ~Current(t)
  <2>1. owed' = owed /\ late' = late \cup {n}
    BY <1>1, <1>6 DEF Fix, Current
  <2>2. OwedScalars'
    BY <1>2, <1>3, <2>1 DEF OwedInv, OwedScalars
  <2> QED
    BY <1>2, <1>4, <2>1, <2>2, StartsOwed
<1> QED
  BY <1>5, <1>6

LEMMA PressOwed ==
  ASSUME ListInv, OwedInv, NEW t \in Tasks, Press(t)
  PROVE  OwedInv'
<1>1. PICK n : n = Len(owner) + 1
  OBVIOUS
<1>2. /\ n \in Pings /\ n \notin Taken /\ Taken \subseteq Taken'
      /\ \A m \in Taken : owner'[m] = owner[m]
  BY <1>1, CaptureIs DEF Press
<1>3. /\ Alone(t) /\ task'[t] = Asked(n) /\ task[t].pc = "idle"
      /\ UNCHANGED <<session, rows, queue, disk, loading, crossed, owed, late, user, saved, wipe>>
  BY <1>1, PressList DEF Press, history
<1>4. task'[t].pc = "fix" /\ task'[t].ping = n
  BY <1>2, <1>3, ListParts, AskedIs
<1>5. OwedScalars'
  BY <1>2, <1>3 DEF OwedInv, OwedScalars
<1>6. AccountsFor(t)'
  BY <1>2, <1>3, <1>4 DEF AccountsFor, OwedInv, OwedScalars
<1>7. Awaited' = Awaited /\ \A m \in (owed' \ crossed') \cap Elements(queue) : Held(m)'
  BY <1>3 DEF Awaited, Held
<1>8. ~Working(t)
  BY <1>3 DEF Working
<1> DEFINE N == {}
<1>9. /\ owed' \subseteq owed \cup N /\ late' \subseteq late \cup N /\ N \cap Listed = {}
      /\ \A x \in Tasks \ {t} : Holding(x) => task[x].ping \notin N
      /\ \A m \in owed' \cap N : Held(m)'
  BY <1>3
<1> HIDE DEF N
<1> QED
  BY <1>2, <1>3, <1>5, <1>6, <1>7, <1>8, <1>9, OwedMove

\* The session goes on, or a 401 begins to end it.
Loosened ==
  \/ UNCHANGED <<user, saved, wipe>>
  \/ wipe' = "cancel" /\ user' = NoUser /\ saved' \in {saved, NoUser}

\* Fewer pings are owed, by the same account.
LEMMA ScalarsLess ==
  ASSUME OwedInv, UNCHANGED <<owner, late>>, owed' \subseteq owed,
         Loosened
  PROVE  OwedScalars'
<1>1. Taken' = Taken
  BY DEF Taken
<1> QED
  BY <1>1 DEF OwedInv, OwedScalars, Loosened

\* A task is over whose ping is not owed.
LEMMA OverOwed ==
  ASSUME ListInv, FlushInv, OwedInv, NEW t \in Tasks, Alone(t), task'[t] = Idle,
         UNCHANGED <<session, rows, owner, late, crossed, queue, loading>>, owed' \subseteq owed,
         loading # "done" => disk' = disk,
         Loosened,
         Working(t) /\ task[t].ping \in owed' => Delivered(task[t].ping)
  PROVE  OwedInv'
<1>1. OwedScalars'
  BY ScalarsLess
<1>2. AccountsFor(t)'
  BY <1>1, IdleIs, AccountsNow DEF Holding
<1>3. Awaited' \subseteq Awaited /\ \A n \in (owed' \ crossed') \cap Elements(queue) : Held(n)'
  BY DEF Awaited, Held
<1>4. Working(t) /\ task[t].ping \in owed' \ crossed' =>
        \A n : n = task[t].ping => Held(n)'
  BY DEF Held, Delivered
<1> QED
  BY <1>1, <1>2, <1>3, <1>4, OwedLess
\* An upload goes on with its ping.
LEMMA OnwardOwed ==
  ASSUME ListInv, OwedInv, NEW t \in Tasks, Alone(t),
         GoesOn(t, task[t].ping, task[t].session), Holding(t),
         task'[t].pc \notin {"idle", "fix", "keep"},
         UNCHANGED <<session, rows, owner, late, crossed, loading>>,
         disk' = disk \/ loading = "done",
         owed' \subseteq owed,
         Loosened,
         task'[t].pc \in {"drain", "own"} => task'[t].as \in {user', NoUser},
         task'[t].pc = "drain" /\ Current(t) =>
           \A n \in Awaited' : n \in Elements(task'[t].rest) \/ Delivered(n),
         \A x \in Tasks \ {t} : task[x].pc = "drain" => queue' = queue,
         \A n \in (owed' \ crossed') \cap Elements(queue) : n \in Elements(queue') \/ Delivered(n)
  PROVE  OwedInv'
<1>1. OwedScalars'
  BY ScalarsLess
<1>2. /\ task'[t].ping = task[t].ping
      /\ Current(t)' <=> Current(t)
      /\ \A n : Delivered(n) => Delivered(n)'
  BY DEF GoesOn, Current, Delivered
<1>3. Holding(t)' /\ task'[t].ping \in owed' => Current(t)'
  BY <1>2 DEF OwedInv, AccountsFor
<1>4. AccountsFor(t)'
  BY <1>1, <1>2, <1>3, AccountsNow
<1>5. \A x \in Tasks \ {t} : task[x].pc = "drain" => Awaited' \subseteq Awaited
  BY DEF Awaited
<1>6. \A n \in (owed' \ crossed') \cap Elements(queue) : Held(n)'
  BY DEF Held, Delivered
<1>7. \A n : n = task[t].ping => Held(n)'
  BY <1>2, WorkingHolds
<1> QED
  BY <1>1, <1>4, <1>5, <1>6, <1>7, OwedLess

\* The drain ends, and keeps what it has not delivered.
LEMMA EndsOwed ==
  ASSUME ListInv, FlushInv, OwedInv, NEW t \in Tasks, task[t].pc = "drain", NEW r,
         NEW who \in {user', NoUser}, EndsDrain(t, r, who),
         UNCHANGED <<session, rows, owner, late, crossed, loading, disk>>, owed' \subseteq owed,
         Loosened,
         \A n \in owed' \cap Elements(task[t].rest) : n \in Elements(r) \/ Delivered(n)
  PROVE  OwedInv'
<1>1. /\ Alone(t) /\ GoesOn(t, task[t].ping, task[t].session) /\ Holding(t)
      /\ task'[t].pc \in {"own", "save"}
      /\ task'[t].pc = "own" => task'[t].as = who
  BY DEF EndsDrain, Posts, Holding
<1>2. \A x \in Tasks \ {t} : task[x].pc # "drain"
  BY DEF FlushInv, Flusher
<1>3. \A n \in (owed' \ crossed') \cap Elements(queue) : n \in Elements(queue') \/ Delivered(n)
  <2>1. CASE queue' = queue
    BY <2>1
  <2>2. CASE Current(t) /\ queue' = r
    <3> SUFFICES ASSUME NEW n \in (owed' \ crossed') \cap Elements(queue)
                 PROVE  n \in Elements(r) \/ Delivered(n)
      BY <2>2
    <3>1. n \in Awaited
      BY DEF Awaited
    <3>2. n \in Elements(task[t].rest) \/ Delivered(n)
      BY <2>2, <3>1 DEF OwedInv, AccountsFor
    <3> QED
      BY <3>2
  <2> QED
    BY <2>1, <2>2 DEF EndsDrain
<1> QED
  BY <1>1, <1>2, <1>3, OnwardOwed

\* What an answer settles is on the server, or no longer owed.
LEMMA AnswerSettles ==
  ASSUME ListInv, OwedInv, NEW t \in Tasks,
         Accepted(t) \/ Refused(t) \/ Portal(t) \/ Unauthorized(t)
  PROVE  /\ owed' \subseteq owed /\ (InFlight(t) \in owed' => Delivered(InFlight(t)))
         /\ UNCHANGED <<session, rows, owner, late, crossed, loading, disk>>
         /\ Loosened
         /\ (IF Unauthorized(t) THEN NoUser ELSE user) \in {user', NoUser}
<1>1. CASE Accepted(t)
  <2>1. /\ owed' = owed /\ task[t].pc \in {"drain", "own"} /\ task[t].as # NoUser
        /\ rows[<<task[t].as, InFlight(t)>>] > 0
        /\ UNCHANGED <<session, rows, owner, late, crossed, loading, disk, user, saved, wipe>>
    BY <1>1 DEF Accepted, history
  <2>2. InFlight(t) \in owed => task[t].as = owner[InFlight(t)]
    BY <2>1 DEF OwedInv, AccountsFor
  <2> QED
    BY <2>1, <2>2 DEF Delivered, Loosened
<1>2. CASE Refused(t)
  BY <1>2 DEF Refused, Loosened
<1>3. CASE Portal(t)
  BY <1>3 DEF Portal, Loosened
<1>4. CASE Unauthorized(t)
  BY <1>4 DEF Unauthorized, Loosened
<1> QED
  BY <1>1, <1>2, <1>3, <1>4

LEMMA AnswerOwed ==
  ASSUME ListInv, FlushInv, OwedInv, NEW t \in Tasks,
         Accepted(t) \/ Refused(t) \/ Portal(t) \/ Unauthorized(t)
  PROVE  OwedInv'
<1>1. PICK who : who = (IF Unauthorized(t) THEN NoUser ELSE user)
  OBVIOUS
<1>2. /\ owed' \subseteq owed /\ (InFlight(t) \in owed' => Delivered(InFlight(t)))
      /\ UNCHANGED <<session, rows, owner, late, crossed, loading, disk>>
      /\ Loosened
      /\ who \in {user', NoUser}
  BY <1>1, AnswerSettles
<1>3. Finishes(t, who) /\ task[t].pc \in {"drain", "own"}
  BY <1>1, AnswerList
<1>4. CASE /\ task[t].pc = "own" /\ Alone(t) /\ task'[t] = Idle
           /\ UNCHANGED <<queue, flushing, net>>
  <2>1. InFlight(t) = task[t].ping
    BY <1>4 DEF InFlight
  <2>2. task[t].ping \in owed' => Delivered(task[t].ping)
    BY <1>2, <2>1
  <2> QED
    BY <1>2, <1>4, <2>2, OverOwed
<1>5. ASSUME task[t].pc = "drain"
      PROVE  \A n \in owed' \cap Elements(task[t].rest) :
               n \in Elements(Tail(task[t].rest)) \/ Delivered(n)
  <2>1. \A n \in Elements(task[t].rest) : n = InFlight(t) \/ n \in Elements(Tail(task[t].rest))
    BY <1>5, InFlightIs
  <2> QED
    BY <1>2, <2>1
<1>6. CASE task[t].pc = "drain" /\ EndsDrain(t, Tail(task[t].rest), who)
  BY <1>2, <1>5, <1>6, EndsOwed
<1>7. CASE /\ task[t].pc = "drain" /\ Alone(t) /\ NetOK
           /\ GoesOn(t, task[t].ping, task[t].session)
           /\ Drains(t, Tail(task[t].rest), who) /\ UNCHANGED <<queue, flushing>>
  <2>1. /\ Holding(t) /\ task'[t].pc = "drain" /\ task'[t].as = who
        /\ task'[t].rest = Tail(task[t].rest)
    BY <1>7 DEF Holding, Drains
  <2>2. ASSUME Current(t), NEW n \in Awaited'
        PROVE  n \in Elements(task'[t].rest) \/ Delivered(n)
    <3>1. n \in Awaited /\ n \in owed'
      BY <1>2, <1>7, <2>2 DEF Awaited
    <3>2. n \in Elements(task[t].rest) \/ Delivered(n)
      BY <1>7, <2>2, <3>1 DEF OwedInv, AccountsFor
    <3> QED
      BY <1>5, <1>7, <2>1, <3>1, <3>2
  <2> QED
    BY <1>2, <1>7, <2>1, <2>2, OnwardOwed
<1> QED
  BY <1>3, <1>4, <1>6, <1>7 DEF Finishes

\* A failed post: the ping is queued, or waits, unless its session is over.
LEMMA RetryOwed ==
  ASSUME ListInv, FlushInv, OwedInv, NEW t \in Tasks, PostFailed(t) \/ EnqueueLate(t)
  PROVE  OwedInv'
<1>1. /\ task[t].pc \in {"own", "enqueue"} /\ Retries(t) /\ Holding(t)
      /\ UNCHANGED <<session, rows, owner, late, loading, disk, user, saved, wipe, flushing>>
  BY RetryList DEF PostFailed, EnqueueLate, Holding
<1>2. CASE ~Current(t) /\ Alone(t) /\ task'[t] = Idle /\ UNCHANGED <<queue, owed, crossed>>
  <2>1. task[t].ping \notin owed
    BY <1>1, <1>2 DEF OwedInv, AccountsFor
  <2> QED
    BY <1>1, <1>2, <2>1, OverOwed DEF Loosened
<1>3. CASE /\ Current(t) /\ loading # "done"
           /\ Alone(t) /\ GoesOn(t, task[t].ping, task[t].session)
           /\ task'[t].pc = "enqueue" /\ task'[t].rest = task[t].rest
           /\ UNCHANGED <<queue, owed, crossed>>
  BY <1>1, <1>3, OnwardOwed DEF Loosened
<1>4. CASE Current(t) /\ loading = "done" /\ Enqueues(t)
  <2>1. /\ Alone(t) /\ task'[t].pc = "keep" /\ owed' = owed \ (Elements(queue) \ Elements(queue'))
        /\ crossed' = IF flushing THEN crossed \cup {task[t].ping} ELSE crossed
        /\ task'[t].ping = task[t].ping
    BY <1>4 DEF Enqueues, GoesOn
  <2>2. /\ task[t].ping \in Elements(queue')
        /\ Elements(queue') \subseteq Elements(queue) \cup {task[t].ping}
    BY <1>1, <1>4, EnqueuesElements
  <2>3. OwedScalars' /\ owed' \subseteq owed /\ crossed \subseteq crossed'
    BY <1>1, <2>1, ScalarsLess DEF Loosened
  <2>4. AccountsFor(t)'
    BY <2>1, <2>3, AccountsNow DEF Holding
  <2>5. \A x \in Tasks : task[x].pc = "drain" => Awaited' \subseteq Awaited
    <3>1. \A x \in Tasks : task[x].pc = "drain" => flushing
      BY DEF FlushInv, Flusher
    <3> QED
      BY <2>1, <2>2, <2>3, <3>1 DEF Awaited
  <2>6. \A n \in (owed' \ crossed') \cap Elements(queue) : Held(n)'
    BY <2>1 DEF Held
  <2>7. \A n : n = task[t].ping => Held(n)'
    BY <2>2 DEF Held
  <2> QED
    BY <1>1, <1>4, <2>1, <2>3, <2>4, <2>5, <2>6, <2>7, OwedLess
<1> QED
  BY <1>1, <1>2, <1>3, <1>4 DEF Retries
LEMMA OwedTurn ==
  ASSUME ListInv, FlushInv, OwnInv, OwedInv, NEW t \in Tasks, Turn(t)
  PROVE  OwedInv'
<1>1. CASE NoFix(t)
  <2>1. /\ UNCHANGED <<session, rows, owner, late, crossed, queue, loading, disk, owed, user, saved, wipe>>
        /\ Alone(t) /\ task'[t] = Idle /\ ~Working(t)
    BY <1>1, NoFixList DEF NoFix, history, Working
  <2> QED
    BY <2>1, OverOwed DEF Loosened
<1>2. CASE Loaded(t)
  <2>1. /\ UNCHANGED <<session, rows, owner, late, crossed, queue, loading, disk, owed, user, saved, wipe>>
        /\ Alone(t) /\ GoesOn(t, task[t].ping, task[t].session) /\ StartsDrain(t) /\ Holding(t)
    BY <1>2, LoadedList DEF Loaded, history, Holding
  <2>2. /\ task'[t].pc \in {"own", "drain"} /\ task'[t].as = user
        /\ task'[t].pc = "drain" => task'[t].rest = queue'
    BY <2>1 DEF StartsDrain, Posts, Drains
  <2>3. task'[t].pc = "drain" => \A n \in Awaited' : n \in Elements(task'[t].rest)
    BY <2>2 DEF Awaited
  <2> QED
    BY <2>1, <2>2, <2>3, OnwardOwed DEF Loosened
<1>3. CASE Save(t)
  <2>1. /\ UNCHANGED <<session, rows, owner, late, crossed, queue, loading, owed, user, saved, wipe>>
        /\ Alone(t) /\ GoesOn(t, task[t].ping, task[t].session) /\ Posts(t, user) /\ Holding(t)
        /\ loading = "done"
    BY <1>3, SaveList DEF Save, history, Holding, FlushInv
  <2>2. task'[t].pc = "own" /\ task'[t].as = user
    BY <2>1 DEF Posts
  <2> QED
    BY <2>1, <2>2, OnwardOwed DEF Loosened
<1>4. CASE Keep(t)
  <2>1. /\ UNCHANGED <<session, rows, owner, late, crossed, queue, loading, owed, user, saved, wipe>>
        /\ Alone(t) /\ task'[t] = Idle /\ ~Working(t) /\ loading = "done"
    BY <1>4, KeepList DEF Keep, history, Working, FlushInv
  <2> QED
    BY <2>1, OverOwed DEF Loosened
<1>5. CASE DrainFailed(t)
  <2>1. /\ UNCHANGED <<session, rows, owner, late, crossed, loading, disk, owed, user, saved, wipe>>
        /\ EndsDrain(t, task[t].rest, user) /\ task[t].pc = "drain"
    BY <1>5, DrainFailedList DEF DrainFailed, history
  <2> QED
    BY <2>1, EndsOwed DEF Loosened
<1> QED
  BY <1>1, <1>2, <1>3, <1>4, <1>5, PositionOwed, PressOwed, FixOwed, AnswerOwed, RetryOwed
  DEF Turn

LEMMA OwedCrash ==
  ASSUME ListInv, OwedInv, Crash
  PROVE  OwedInv'
<1>1. /\ UNCHANGED <<owner, late, disk, rows, saved>> /\ user' = saved /\ wipe' = "none"
      /\ loading' = "none" /\ owed' \subseteq owed \cap Elements(disk)
      /\ saved = NoUser => owed' = {}
  BY DEF Crash, ListInv, Scalars
<1>2. \A t \in Tasks : task'[t].pc = "idle"
  BY CrashList, IdleIs
<1>3. OwedScalars' /\ Taken' = Taken
  BY <1>1 DEF OwedInv, OwedScalars, Taken
<1>4. \A t \in Tasks : AccountsFor(t)'
  BY <1>2 DEF AccountsFor, Holding
<1>5. NothingForgotten'
  BY <1>1 DEF NothingForgotten, Held
<1> QED
  BY <1>3, <1>4, <1>5 DEF OwedInv

\* A teardown leaves nothing owed; a late request only adds to the server.
LEMMA OwedAside ==
  ASSUME ListInv, FlushInv, OwedInv, Aside
  PROVE  OwedInv'
<1>1. task' = task /\ owner' = owner /\ late' = late /\ Taken' = Taken
  BY AsideList DEF Aside, StartLoad, FinishRead, StreamStarts, LogOut, WipeMemory, WipeDisk, Ingest, LogIn,
                   vars, client, history, Taken
<1>2. ASSUME owed' = {}, user' # NoUser => saved' = user'
      PROVE  OwedInv'
  <2>1. OwedScalars'
    BY <1>1, <1>2 DEF OwedInv, OwedScalars
  <2>2. \A t \in Tasks : AccountsFor(t)'
    BY <1>1, <1>2 DEF OwedInv, AccountsFor, Awaited
  <2>3. NothingForgotten'
    BY <1>2 DEF NothingForgotten
  <2> QED
    BY <2>1, <2>2, <2>3 DEF OwedInv
<1>3. ASSUME UNCHANGED <<user, saved, session, owed, crossed, disk>>,
             wipe' = wipe \/ wipe' = "cancel",
             \A n \in owed : Delivered(n) => Delivered(n)',
             \/ queue' = queue /\ (loading # "done" => loading' # "done")
             \/ queue' = disk /\ loading # "done"
      PROVE  OwedInv'
  <2>1. OwedScalars' /\ owed \subseteq Taken
    BY <1>1, <1>3 DEF OwedInv, OwedScalars
  <2>2. ASSUME NEW t \in Tasks
        PROVE  AccountsFor(t)'
    <3>1. /\ AccountsFor(t) /\ task'[t] = task[t]
          /\ Current(t)' <=> Current(t)
          /\ Holding(t)' <=> Holding(t)
          /\ InFlight(t)' = InFlight(t)
      BY <1>1, <1>3 DEF OwedInv, Current, Holding, InFlight
    <3>2. task[t].pc = "drain" => Awaited' = Awaited /\ Awaited \subseteq owed
      BY <1>3, <2>1 DEF FlushInv, Awaited
    <3> QED
      BY <1>1, <1>3, <3>1, <3>2 DEF AccountsFor
  <2>3. ASSUME NEW n \in owed' \ crossed'
        PROVE  Held(n)'
    <3>1. Held(n) /\ n \in Taken
      BY <1>3, <2>1, <2>3 DEF OwedInv, NothingForgotten
    <3>2. InHand(n)' <=> InHand(n)
      BY <1>1 DEF InHand
    <3>3. loading # "done" => Elements(queue) = {}
      BY EmptyGood DEF FlushInv
    <3> QED
      BY <1>3, <3>1, <3>2, <3>3 DEF Held, Delivered
  <2> QED
    BY <2>1, <2>2, <2>3 DEF OwedInv, NothingForgotten
<1>4. CASE StartLoad \/ StreamStarts \/ LogOut \/ FinishRead \/ UNCHANGED vars
  <2>1. /\ UNCHANGED <<user, saved, session, owed, crossed, disk, rows>>
        /\ wipe' = wipe \/ wipe' = "cancel"
        /\ \/ queue' = queue /\ (loading # "done" => loading' # "done")
           \/ queue' = disk /\ loading # "done"
    BY <1>4 DEF StartLoad, StreamStarts, LogOut, FinishRead, vars, client, history
  <2>2. \A n \in owed : Delivered(n) => Delivered(n)'
    BY <1>1, <2>1 DEF Delivered
  <2> QED
    BY <1>3, <2>1, <2>2
<1>5. CASE Ingest
  <2>1. UNCHANGED <<user, saved, session, owed, crossed, disk, wipe, queue, loading>>
    BY <1>5 DEF Ingest, client, history
  <2>2. ASSUME NEW n \in owed, Delivered(n)
        PROVE  Delivered(n)'
    <3>1. rows \in [Users \X Pings -> {0, 1}]
      BY DEF ListInv, Scalars
    <3>2. PICK m \in net : rows' = [rows EXCEPT ![m] = IF m[2] \in Invalid THEN @ ELSE Stored(m)]
      BY <1>5 DEF Ingest
    <3>3. owner[n] \in Users /\ n \in Pings
      <4>1. n \in Taken /\ owner[n] # NoUser /\ Taken \subseteq Pings
        BY <2>2, ListParts DEF OwedInv, OwedScalars
      <4>2. owner[n] \in Users \cup {NoUser}
        BY <4>1 DEF ListInv, Scalars, Taken
      <4> QED
        BY <4>1, <4>2
    <3>4. <<owner[n], n>> \in Users \X Pings
      BY <3>3
    <3> QED
      BY <1>1, <2>2, <3>1, <3>2, <3>4 DEF Delivered, Stored
  <2> QED
    BY <1>3, <2>1, <2>2
<1>6. CASE WipeMemory \/ WipeDisk
  BY <1>2, <1>6 DEF WipeMemory, WipeDisk, OwedInv, OwedScalars
<1>7. CASE \E u \in Users : LogIn(u)
  <2>1. owed' = owed /\ user = NoUser /\ wipe = "none" /\ saved' = user'
    BY <1>7 DEF LogIn, history
  <2> QED
    BY <1>2, <2>1 DEF OwedInv, OwedScalars
<1> QED
  BY <1>4, <1>5, <1>6, <1>7 DEF Aside

LEMMA OwedInit ==
  ASSUME Init
  PROVE  OwedInv
<1>1. \A t \in Tasks : task[t] = Idle
  BY DEF Init
<1>2. owed = {} /\ late = {}
  BY DEF Init
<1>3. \A t \in Tasks : AccountsFor(t)
  BY <1>1, IdleIs DEF AccountsFor, Holding
<1> QED
  BY <1>2, <1>3 DEF Init, OwedInv, OwedScalars, NothingForgotten

LEMMA OwedStep ==
  ASSUME ListInv, FlushInv, OwnInv, OwedInv, [Next]_vars
  PROVE  OwedInv'
BY OwedTurn, OwedAside, OwedCrash, Steps

\* A ping whose failures could all be retried is on the server, in the queue, in
\* the stored queue that is yet to be read, or in an upload's hands, through
\* teardowns, sign-ins, kills and lost answers, except one that was queued while
\* another upload was draining the queue (_flushQueue replaces the queue by its
\* copy).
THEOREM NothingIsForgotten == Spec => []NothingForgotten
<1>1. OwedInv => NothingForgotten
  BY DEF OwedInv
<1> QED
  BY <1>1, ListInit, ListStep, FlushInit, FlushStep, OwnInit, OwnStep, OwedInit, OwedStep, PTL
  DEF Spec
=============================================================================
