----------------------------- MODULE FloorLock -----------------------------
(***************************************************************************)
(* The edit lock of a floor: table floor_locks (internal/store/layouts.go),*)
(* its handlers and janitor (internal/handler/layouts.go, handler.go), and *)
(* the broker that tells subscribers about it (internal/handler/broker.go).*)
(*                                                                         *)
(* A lock is a row with an expiry.  Acquiring one is a transaction that    *)
(* holds the floor's row; releasing, expiring and cleaning up are          *)
(* statements of their own, and every broadcast comes after the commit, so *)
(* handlers overlap between any two of these steps.  The floors here exist *)
(* throughout.                                                             *)
(***************************************************************************)
EXTENDS Integers, Sequences

CONSTANTS Floor, User,
          Handler,    \* requests the server answers at the same time
          Viewer,     \* open event streams
          TTL,        \* FloorLockTTL
          MaxTime,    \* bound: the clock stops here
          Capacity,   \* of a subscriber's channel
          Deletable,  \* users an administrator may delete
          NoFloor, NoUser

ASSUME LockAssumption ==
    /\ NoFloor \notin Floor
    /\ NoUser \notin User
    /\ TTL \in Nat \ {0}
    /\ MaxTime \in Nat
    /\ Capacity \in Nat \ {0}
    /\ Deletable \subseteq User

VARIABLES clock,     \* the server's time
          users,     \* the accounts that exist
          locks,     \* the floor_locks table
          handling,  \* the requests in progress
          janitor,   \* the janitor's goroutine
          grants,    \* history: until when a user may believe to hold a lock
          streams    \* the subscribers of the broker and what they know

vars == <<clock, users, locks, handling, janitor, grants, streams>>

Time == 0..(MaxTime + TTL)

LockRow == [holder: User \cup {NoUser}, expires: Time]
NoLock == [holder |-> NoUser, expires |-> 0]

LockEvent == [locked: BOOLEAN, user: User \cup {NoUser}]
Unlocked == [locked |-> FALSE, user |-> NoUser]
LockedBy(u) == [locked |-> TRUE, user |-> u]

Task == [step: {"idle", "acquire", "release", "expire", "broadcast"},
         user: User \cup {NoUser},
         floor: Floor \cup {NoFloor},
         now: Time,
         event: LockEvent]

NoTask == [step |-> "idle", user |-> NoUser, floor |-> NoFloor, now |-> 0,
           event |-> Unlocked]

\* told is what a viewer that knew the lock when it subscribed makes of the
\* events; blurred is history, explained at EventsExplained.
Stream == [floor: Floor \cup {NoFloor}, channel: Seq(LockEvent),
           told: LockEvent, blurred: BOOLEAN]

NoStream == [floor |-> NoFloor, channel |-> <<>>, told |-> Unlocked,
             blurred |-> FALSE]

LockTypeOK ==
    /\ clock \in 0..MaxTime
    /\ users \subseteq User
    /\ locks \in [Floor -> LockRow]
    /\ handling \in [Handler -> Task]
    /\ janitor \in [step: {"idle", "delete", "broadcast"}, now: Time,
                    found: SUBSET Floor]
    /\ grants \in [User -> [Floor -> Time]]
    /\ streams \in [Viewer -> Stream]
    /\ \A w \in Viewer : Len(streams[w].channel) <= Capacity

-----------------------------------------------------------------------------
Held(f) == locks[f].holder # NoUser

\* ExpiresAt.After(now)
Fresh(lock, now) == lock.expires > now

LockState(f) == IF Held(f) THEN LockedBy(locks[f].holder) ELSE Unlocked

\* An announcement about f is on its way to the broker.
Announcing(f) ==
    \/ \E h \in Handler : handling[h].step = "broadcast" /\ handling[h].floor = f
    \/ f \in janitor.found

\* History: the viewers of the floors fs can no longer rely on the events.
Blur(fs) ==
    streams' = [w \in Viewer |->
        IF streams[w].floor \in fs THEN [streams[w] EXCEPT !.blurred = TRUE]
        ELSE streams[w]]

\* Broadcast to one subscriber: a full channel loses the event.
Sent(s, event) ==
    IF Len(s.channel) < Capacity
    THEN [s EXCEPT !.channel = Append(@, event)]
    ELSE [s EXCEPT !.blurred = TRUE]

Broadcast(f, event) ==
    streams' = [w \in Viewer |->
        IF streams[w].floor = f THEN Sent(streams[w], event) ELSE streams[w]]

Goto(h, task) == handling' = [handling EXCEPT ![h] = task]

-----------------------------------------------------------------------------
Init ==
    /\ clock = 0
    /\ users = User
    /\ locks = [f \in Floor |-> NoLock]
    /\ handling = [h \in Handler |-> NoTask]
    /\ janitor = [step |-> "idle", now |-> 0, found |-> {}]
    /\ grants = [u \in User |-> [f \in Floor |-> 0]]
    /\ streams = [w \in Viewer |-> NoStream]

Tick ==
    /\ clock < MaxTime
    /\ clock' = clock + 1
    /\ UNCHANGED <<users, locks, handling, janitor, grants, streams>>

\* POST /floors/{id}/lock: the transaction gets the floor's row, which one
\* request has at a time, and reads the clock.
AcquireBegin(h, u, f) ==
    /\ handling[h].step = "idle"
    /\ u \in users
    /\ ~\E g \in Handler : handling[g].step = "acquire" /\ handling[g].floor = f
    /\ Goto(h, [step |-> "acquire", user |-> u, floor |-> f, now |-> clock,
                event |-> LockedBy(u)])
    /\ UNCHANGED <<clock, users, locks, janitor, grants, streams>>

\* GetLockForUpdate: somebody else's lock counts until it expires.
Refused(task) ==
    LET lock == locks[task.floor] IN
    /\ lock.holder \notin {NoUser, task.user}
    /\ Fresh(lock, task.now)

\* A release of u's that has been sent but not carried out yet.
Releasing(u, f) ==
    \E g \in Handler : /\ handling[g].step = "release"
                       /\ handling[g].user = u
                       /\ handling[g].floor = f

\* AcquireLock ends: with LockHeldError, with a failed foreign key when the user
\* is gone, or with the row inserted or overwritten.
AcquireCommit(h) ==
    LET task == handling[h]
        lock == [holder |-> task.user, expires |-> task.now + TTL]
    IN
    /\ task.step = "acquire"
    /\ IF Refused(task) \/ task.user \notin users
       THEN /\ Goto(h, NoTask)
            /\ UNCHANGED <<locks, grants, streams>>
       ELSE /\ locks' = [locks EXCEPT ![task.floor] = lock]
            /\ Goto(h, [task EXCEPT !.step = "broadcast", !.now = 0])
            /\ IF Announcing(task.floor) THEN Blur({task.floor})
               ELSE UNCHANGED streams
            /\ IF Releasing(task.user, task.floor) THEN UNCHANGED grants
               ELSE grants' = [grants EXCEPT ![task.user][task.floor] = lock.expires]
    /\ UNCHANGED <<clock, users, janitor>>

\* DELETE /floors/{id}/lock is sent: from now on u does not count on the lock.
ReleaseBegin(h, u, f) ==
    /\ handling[h].step = "idle"
    /\ u \in users
    /\ Goto(h, [NoTask EXCEPT !.step = "release", !.user = u, !.floor = f])
    /\ grants' = [grants EXCEPT ![u][f] = 0]
    /\ UNCHANGED <<clock, users, locks, janitor, streams>>

\* A mutant of ReleaseCommit: DELETE without AND locked_by = $2.
ReleaseAnybodys(h) ==
    LET task == handling[h] IN
    /\ task.step = "release"
    /\ locks' = [locks EXCEPT ![task.floor] = NoLock]
    /\ Goto(h, [task EXCEPT !.step = "broadcast"])
    /\ IF Announcing(task.floor) THEN Blur({task.floor}) ELSE UNCHANGED streams
    /\ UNCHANGED <<clock, users, janitor, grants>>

\* A mutant of ReleaseCommit: the unlock event is forgotten.
ReleaseSilently(h) ==
    LET task == handling[h]
        mine == locks[task.floor].holder = task.user
    IN
    /\ task.step = "release"
    /\ locks' = IF mine THEN [locks EXCEPT ![task.floor] = NoLock] ELSE locks
    /\ Goto(h, NoTask)
    /\ IF Announcing(task.floor) \/ (Held(task.floor) /\ ~mine)
       THEN Blur({task.floor}) ELSE UNCHANGED streams
    /\ UNCHANGED <<clock, users, janitor, grants>>

\* ReleaseLock deletes the row if it is the user's; the handler goes on to
\* announce an unlocked floor in either case.
ReleaseCommit(h) ==
    LET task == handling[h]
        mine == locks[task.floor].holder = task.user
    IN
    /\ task.step = "release"
    /\ locks' = IF mine THEN [locks EXCEPT ![task.floor] = NoLock] ELSE locks
    /\ Goto(h, [task EXCEPT !.step = "broadcast"])
    /\ IF Announcing(task.floor) \/ (Held(task.floor) /\ ~mine)
       THEN Blur({task.floor}) ELSE UNCHANGED streams
    /\ UNCHANGED <<clock, users, janitor, grants>>

\* The handler tells the broker, after the commit.
Announce(h) ==
    /\ handling[h].step = "broadcast"
    /\ Broadcast(handling[h].floor, handling[h].event)
    /\ Goto(h, NoTask)
    /\ UNCHANGED <<clock, users, locks, janitor, grants>>

\* GET /floors/{id}/lock finds an expired lock: it is answered as none, and ...
GetExpired(h, f) ==
    /\ handling[h].step = "idle"
    /\ Held(f)
    /\ ~Fresh(locks[f], clock)
    /\ Goto(h, [NoTask EXCEPT !.step = "expire", !.floor = f, !.now = clock])
    /\ UNCHANGED <<clock, users, locks, janitor, grants, streams>>

\* ... deleted if it is still expired, which is announced to nobody.
DeleteExpired(h) ==
    LET f == handling[h].floor
        gone == Held(f) /\ ~Fresh(locks[f], handling[h].now)
    IN
    /\ handling[h].step = "expire"
    /\ locks' = IF gone THEN [locks EXCEPT ![f] = NoLock] ELSE locks
    /\ IF gone THEN Blur({f}) ELSE UNCHANGED streams
    /\ Goto(h, NoTask)
    /\ UNCHANGED <<clock, users, janitor, grants>>

-----------------------------------------------------------------------------
\* GetAndCleanupExpiredLocks: the floors whose lock has expired.  A tick of the
\* janitor that finds none changes nothing.
JanitorRead ==
    LET expired == {f \in Floor : Held(f) /\ ~Fresh(locks[f], clock)} IN
    /\ janitor.step = "idle"
    /\ expired # {}
    /\ janitor' = [step |-> "delete", now |-> clock, found |-> expired]
    /\ UNCHANGED <<clock, users, locks, handling, grants, streams>>

\* A mutant of JanitorDelete: it deletes the locks of the floors it has read.
JanitorDeleteFound ==
    /\ janitor.step = "delete"
    /\ locks' = [f \in Floor |-> IF f \in janitor.found THEN NoLock ELSE locks[f]]
    /\ Blur({f \in Floor : Announcing(f)})
    /\ janitor' = [janitor EXCEPT !.step = "broadcast"]
    /\ UNCHANGED <<clock, users, handling, grants>>

\* DeleteExpiredLocks: whatever had expired when the janitor read the clock.
JanitorDelete ==
    LET gone == {f \in Floor : Held(f) /\ ~Fresh(locks[f], janitor.now)} IN
    /\ janitor.step = "delete"
    /\ locks' = [f \in Floor |-> IF f \in gone THEN NoLock ELSE locks[f]]
    /\ Blur({f \in gone \cup janitor.found :
               \/ f \notin gone \cap janitor.found
               \/ \E h \in Handler : /\ handling[h].step = "broadcast"
                                     /\ handling[h].floor = f})
    /\ janitor' = [janitor EXCEPT !.step = "broadcast"]
    /\ UNCHANGED <<clock, users, handling, grants>>

\* A mutant of JanitorAnnounce: the goroutine does not come back for more.
JanitorAnnounceAndStop(f) ==
    /\ janitor.step = "broadcast"
    /\ f \in janitor.found
    /\ Broadcast(f, Unlocked)
    /\ janitor' = [janitor EXCEPT !.found = @ \ {f}]
    /\ UNCHANGED <<clock, users, locks, handling, grants>>

\* The janitor announces the floors one by one, then waits for the next tick.
JanitorAnnounce(f) ==
    /\ janitor.step = "broadcast"
    /\ f \in janitor.found
    /\ Broadcast(f, Unlocked)
    /\ janitor' = IF janitor.found = {f}
                  THEN [step |-> "idle", now |-> 0, found |-> {}]
                  ELSE [janitor EXCEPT !.found = @ \ {f}]
    /\ UNCHANGED <<clock, users, locks, handling, grants>>

\* DELETE FROM users takes the user's locks along (ON DELETE CASCADE).
DeleteUser(u) ==
    LET freed == {f \in Floor : locks[f].holder = u} IN
    /\ u \in users \cap Deletable
    /\ users' = users \ {u}
    /\ locks' = [f \in Floor |-> IF f \in freed THEN NoLock ELSE locks[f]]
    /\ grants' = [grants EXCEPT ![u] = [f \in Floor |-> 0]]
    /\ Blur(freed)
    /\ UNCHANGED <<clock, handling, janitor>>

-----------------------------------------------------------------------------
\* GET /floors/{id}/events
Subscribe(w, f) ==
    /\ streams[w].floor = NoFloor
    /\ streams' = [streams EXCEPT ![w] =
           [floor |-> f, channel |-> <<>>, told |-> LockState(f),
            blurred |-> Announcing(f)]]
    /\ UNCHANGED <<clock, users, locks, handling, janitor, grants>>

\* The handler's loop writes the next event to the connection.
Deliver(w) ==
    /\ streams[w].channel # <<>>
    /\ streams' = [streams EXCEPT ![w].told = Head(streams[w].channel),
                                  ![w].channel = Tail(@)]
    /\ UNCHANGED <<clock, users, locks, handling, janitor, grants>>

\* The client has gone: the channel is closed and forgotten.
Unsubscribe(w) ==
    /\ streams[w].floor # NoFloor
    /\ streams' = [streams EXCEPT ![w] = NoStream]
    /\ UNCHANGED <<clock, users, locks, handling, janitor, grants>>

Request(h) ==
    \/ \E u \in User, f \in Floor : AcquireBegin(h, u, f) \/ ReleaseBegin(h, u, f)
    \/ \E f \in Floor : GetExpired(h, f)
    \/ AcquireCommit(h)
    \/ ReleaseCommit(h)
    \/ DeleteExpired(h)
    \/ Announce(h)

Janitor == JanitorRead \/ JanitorDelete \/ \E f \in Floor : JanitorAnnounce(f)

Next ==
    \/ Tick
    \/ \E h \in Handler : Request(h)
    \/ Janitor
    \/ \E u \in User : DeleteUser(u)
    \/ \E w \in Viewer : \/ \E f \in Floor : Subscribe(w, f)
                         \/ Deliver(w)
                         \/ Unsubscribe(w)

Spec == Init /\ [][Next]_vars

\* The ticker fires every 15 s for as long as the server runs.
FairSpec == Spec /\ WF_vars(Janitor)

-----------------------------------------------------------------------------
\* Whoever was told to have a lock and has not sent a release since has it
\* until the time he was told, and nobody else was told the same: neither the
\* janitor nor a reader that found an older lock expired takes it away.
GrantsExclusive ==
    \A f \in Floor, u, v \in User :
        (u # v /\ grants[u][f] > clock) => grants[v][f] <= clock

\* Who may count on a lock has it, until exactly then.
GrantsBacked ==
    \A u \in User, f \in Floor : grants[u][f] > clock =>
        locks[f].holder = u /\ locks[f].expires = grants[u][f]

\* Who has sent a release counts on nothing until it is carried out.
ReleasersForfeit ==
    \A u \in User, f \in Floor : Releasing(u, f) => grants[u][f] = 0

\* Whoever decides by a clock he read decides by a time that is past.
ClocksRead ==
    /\ \A h \in Handler : handling[h].now <= clock
    /\ janitor.now <= clock

\* A request in progress is about a floor, and of a user unless it is a reader's.
TasksAddressed ==
    \A h \in Handler :
        /\ handling[h].step # "idle" => handling[h].floor \in Floor
        /\ handling[h].step \in {"acquire", "release"} => handling[h].user \in User

\* The inductive invariant behind GrantsExclusive and LockRespected.
LockInvariant ==
    LockTypeOK /\ TasksAddressed /\ ClocksRead /\ ReleasersForfeit /\ GrantsBacked

\* A lock that has not expired only changes hands when its holder asks for it
\* or is deleted.
LockRespected ==
    [][\A f \in Floor :
          (Held(f) /\ Fresh(locks[f], clock) /\ locks'[f].holder # locks[f].holder)
          => \/ Releasing(locks[f].holder, f)
             \/ locks[f].holder \notin users']_vars

\* An abandoned lock does not outlive its expiry for ever, even if no user
\* touches the floor again: the janitor deletes it.
ExpiredLockGoes ==
    \A f \in Floor :
        (Held(f) /\ ~Fresh(locks[f], clock)) ~> (~Held(f) \/ Fresh(locks[f], clock))

\* Nothing about f is under way, to the broker or to viewer w.
Settled(w, f) ==
    streams[w].floor = f /\ streams[w].channel = <<>> /\ ~Announcing(f)

\* What a viewer makes of the events is the state of the lock, unless one of
\* these happened while it watched: two announcements overlapped; its channel
\* was full; a release came from somebody who did not hold the lock; a reader of
\* an expired lock or the deletion of its holder removed it; the janitor found
\* a lock expired that was renewed before it deleted it.
EventsExplained ==
    \A w \in Viewer, f \in Floor :
        (Settled(w, f) /\ ~streams[w].blurred) => streams[w].told = LockState(f)

\* The last that viewer w has been sent.
Latest(w) ==
    LET s == streams[w] IN
    IF s.channel = <<>> THEN s.told ELSE s.channel[Len(s.channel)]

Broadcasting(h, f) == handling[h].step = "broadcast" /\ handling[h].floor = f

JanitorTells(f) == janitor.step = "broadcast" /\ f \in janitor.found

\* An announcement says what the request that makes it did.
EventsMeant ==
    \A h \in Handler :
        /\ handling[h].step = "acquire" => handling[h].event = LockedBy(handling[h].user)
        /\ handling[h].step = "release" => handling[h].event = Unlocked

\* Viewer w has been sent the state of the lock of f, or will be by the only
\* announcement under way.
Informed(w, f) ==
    /\ \A h \in Handler : Broadcasting(h, f) =>
           /\ handling[h].event = LockState(f)
           /\ ~JanitorTells(f)
           /\ \A g \in Handler : Broadcasting(g, f) => g = h
    /\ JanitorTells(f) => ~Held(f)
    /\ \/ \E h \in Handler : Broadcasting(h, f)
       \/ JanitorTells(f)
       \/ Latest(w) = LockState(f)

ViewersInformed ==
    \A w \in Viewer, f \in Floor :
        (streams[w].floor = f /\ ~streams[w].blurred) => Informed(w, f)

\* The inductive invariant behind EventsExplained.
EventsInvariant == LockInvariant /\ EventsMeant /\ ViewersInformed
=============================================================================
