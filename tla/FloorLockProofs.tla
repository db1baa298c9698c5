--------------------------- MODULE FloorLockProofs ---------------------------
(***************************************************************************)
(* Proofs about FloorLock, for every set of floors, users, concurrent      *)
(* requests and viewers, every life time of a lock and every channel size. *)
(***************************************************************************)
EXTENDS FloorLock, TLAPS

-----------------------------------------------------------------------------
\* The channels of the broker: what subscribers hold is well formed.
StreamsOK ==
    /\ streams \in [Viewer -> Stream]
    /\ \A w \in Viewer : Len(streams[w].channel) <= Capacity

\* Marking viewers in the history leaves the channels alone.
LEMMA BlurStreams ==
    ASSUME StreamsOK, NEW fs, Blur(fs)
    PROVE  StreamsOK'
<1>1. ASSUME NEW w \in Viewer
      PROVE  /\ streams'[w] \in Stream
             /\ streams'[w].channel = streams[w].channel
  <2>1. streams[w] \in Stream
    BY DEF StreamsOK
  <2>2. streams'[w] = IF streams[w].floor \in fs
                      THEN [streams[w] EXCEPT !.blurred = TRUE] ELSE streams[w]
    BY DEF Blur
  <2>3. QED
    BY <2>1, <2>2 DEF Stream
<1>2. streams' \in [Viewer -> Stream]
  BY <1>1 DEF Blur
<1>3. \A w \in Viewer : Len(streams'[w].channel) <= Capacity
  BY <1>1 DEF StreamsOK
<1>4. QED
  BY <1>2, <1>3 DEF StreamsOK

\* Broadcast sends to channels with room and to no others.
LEMMA BroadcastStreams ==
    ASSUME StreamsOK, NEW f, NEW event \in LockEvent, Broadcast(f, event)
    PROVE  StreamsOK'
<1>1. ASSUME NEW w \in Viewer
      PROVE  streams'[w] \in Stream /\ Len(streams'[w].channel) <= Capacity
  <2>1. streams[w] \in Stream /\ Len(streams[w].channel) <= Capacity
    BY DEF StreamsOK
  <2>2. streams[w].channel \in Seq(LockEvent)
    BY <2>1 DEF Stream
  <2>3. CASE streams[w].floor = f /\ Len(streams[w].channel) < Capacity
    <3>1. streams'[w] = [streams[w] EXCEPT !.channel = Append(streams[w].channel, event)]
      BY <2>3 DEF Broadcast, Sent
    <3>2. Append(streams[w].channel, event) \in Seq(LockEvent)
      BY <2>2
    <3>3. Len(Append(streams[w].channel, event)) = Len(streams[w].channel) + 1
      BY <2>2
    <3>4. Len(streams[w].channel) \in Nat
      BY <2>2
    <3>5. streams'[w] \in Stream
      BY <2>1, <3>1, <3>2 DEF Stream
    <3>6. streams'[w].channel = Append(streams[w].channel, event)
      BY <2>1, <3>1 DEF Stream
    <3>7. QED
      BY <2>3, <3>3, <3>4, <3>5, <3>6, LockAssumption
  <2>4. CASE streams[w].floor = f /\ ~(Len(streams[w].channel) < Capacity)
    <3>1. streams'[w] = [streams[w] EXCEPT !.blurred = TRUE]
      BY <2>4 DEF Broadcast, Sent
    <3>2. QED
      BY <2>1, <3>1 DEF Stream
  <2>5. CASE streams[w].floor # f
    BY <2>1, <2>5 DEF Broadcast
  <2>6. QED
    BY <2>3, <2>4, <2>5
<1>2. streams' \in [Viewer -> Stream]
  BY <1>1 DEF Broadcast
<1>3. QED
  BY <1>1, <1>2 DEF StreamsOK

\* Subscribing, delivering and unsubscribing.
LEMMA ViewerStreams ==
    ASSUME LockTypeOK, NEW w \in Viewer,
           (\E f \in Floor : Subscribe(w, f)) \/ Deliver(w) \/ Unsubscribe(w)
    PROVE  StreamsOK'
<1>1. StreamsOK
  BY DEF LockTypeOK, StreamsOK
<1>2. streams[w] \in Stream /\ streams[w].channel \in Seq(LockEvent)
  BY <1>1 DEF StreamsOK, Stream
<1>3. <<>> \in Seq(LockEvent) /\ Len(<<>>) = 0
  OBVIOUS
<1>4. ASSUME NEW f \in Floor, Subscribe(w, f) PROVE StreamsOK'
  <2>1. LockState(f) \in LockEvent
    BY DEF LockState, Held, LockedBy, Unlocked, LockEvent, LockTypeOK, LockRow
  <2>2. DEFINE s == [floor |-> f, channel |-> <<>>, told |-> LockState(f),
                     blurred |-> Announcing(f)]
  <2>3. Announcing(f) \in BOOLEAN
    BY DEF Announcing
  <2>4. s \in Stream /\ Len(s.channel) = 0
    BY <1>3, <2>1, <2>3 DEF Stream
  <2>5. streams' = [streams EXCEPT ![w] = s]
    BY <1>4 DEF Subscribe
  <2>6. QED
    BY <1>1, <2>4, <2>5, LockAssumption DEF StreamsOK
<1>5. CASE Deliver(w)
  <2>1. streams[w].channel # <<>>
    BY <1>5 DEF Deliver
  <2>2. DEFINE s == [streams[w] EXCEPT !.told = Head(streams[w].channel),
                                       !.channel = Tail(streams[w].channel)]
  <2>3. /\ Head(streams[w].channel) \in LockEvent
        /\ Tail(streams[w].channel) \in Seq(LockEvent)
        /\ Len(Tail(streams[w].channel)) = Len(streams[w].channel) - 1
        /\ Len(streams[w].channel) \in Nat
    BY <1>2, <2>1
  <2>4. s \in Stream /\ s.channel = Tail(streams[w].channel)
    BY <1>2, <2>3 DEF Stream
  <2>5. streams' = [streams EXCEPT ![w] = s]
    BY <1>5 DEF Deliver
  <2>6. Len(s.channel) <= Capacity
    BY <1>1, <2>3, <2>4, LockAssumption DEF StreamsOK
  <2>7. QED
    BY <1>1, <2>4, <2>5, <2>6 DEF StreamsOK
<1>6. CASE Unsubscribe(w)
  <2>1. NoStream \in Stream /\ Len(NoStream.channel) = 0
    BY <1>3 DEF NoStream, Stream, Unlocked, LockEvent
  <2>2. streams' = [streams EXCEPT ![w] = NoStream]
    BY <1>6 DEF Unsubscribe
  <2>3. QED
    BY <1>1, <2>1, <2>2, LockAssumption DEF StreamsOK
<1>7. QED
  BY <1>4, <1>5, <1>6
-----------------------------------------------------------------------------
\* A request goes on with task; the other requests stay where they are.
LEMMA GotoTask ==
    ASSUME handling \in [Handler -> Task], NEW h \in Handler, NEW task \in Task,
           Goto(h, task)
    PROVE  /\ handling' \in [Handler -> Task]
           /\ handling'[h] = task
           /\ \A g \in Handler : g # h => handling'[g] = handling[g]
BY DEF Goto

\* Rows of the lock table, and the requests that are about none.
LEMMA LockConstants ==
    /\ NoLock \in LockRow
    /\ NoLock.holder = NoUser
    /\ NoTask \in Task
    /\ NoTask.step = "idle"
    /\ NoTask.now = 0
    /\ 0 \in Time
BY LockAssumption DEF NoLock, LockRow, NoTask, Task, Time, Unlocked, LockEvent

\* Deleting rows of floor_locks frees their floors and no others.
LEMMA LocksDeleted ==
    ASSUME LockTypeOK, NEW gone \in SUBSET Floor,
           locks' = [f \in Floor |-> IF f \in gone THEN NoLock ELSE locks[f]]
    PROVE  /\ locks' \in [Floor -> LockRow]
           /\ \A f \in Floor : f \notin gone => locks'[f] = locks[f]
           /\ \A f \in gone : locks'[f].holder = NoUser
BY LockConstants DEF LockTypeOK

\* The invariant's parts that only depend on the requests in progress.
LEMMA RequestGoesOn ==
    ASSUME LockInvariant, NEW h \in Handler, NEW task \in Task, Goto(h, task),
           task.now <= clock, UNCHANGED <<clock, janitor>>,
           task.step # "idle" => task.floor \in Floor,
           task.step \in {"acquire", "release"} => task.user \in User,
           \A u \in User, f \in Floor :
               (task.step = "release" /\ task.user = u /\ task.floor = f) =>
                   grants'[u][f] = 0,
           \A u \in User, f \in Floor :
               grants'[u][f] # grants[u][f] => grants'[u][f] = 0 \/ ~Releasing(u, f)
    PROVE  TasksAddressed' /\ ClocksRead' /\ ReleasersForfeit'
<1>1. /\ handling' \in [Handler -> Task]
      /\ handling'[h] = task
      /\ \A g \in Handler : g # h => handling'[g] = handling[g]
  BY GotoTask DEF LockInvariant, LockTypeOK
<1>2. TasksAddressed'
  BY <1>1 DEF TasksAddressed, LockInvariant
<1>3. ClocksRead'
  BY <1>1 DEF ClocksRead, LockInvariant
<1>4. ReleasersForfeit'
  <2>1. SUFFICES ASSUME NEW u \in User, NEW f \in Floor, Releasing(u, f)'
                 PROVE  grants'[u][f] = 0
    BY DEF ReleasersForfeit
  <2>2. PICK g \in Handler : /\ handling'[g].step = "release"
                             /\ handling'[g].user = u
                             /\ handling'[g].floor = f
    BY <2>1 DEF Releasing
  <2>3. CASE g = h
    BY <1>1, <2>2, <2>3
  <2>4. CASE g # h
    <3>1. Releasing(u, f)
      BY <1>1, <2>2, <2>4 DEF Releasing
    <3>2. grants[u][f] = 0
      BY <3>1 DEF LockInvariant, ReleasersForfeit
    <3>3. QED
      BY <3>1, <3>2
  <2>5. QED
    BY <2>3, <2>4
<1>5. QED
  BY <1>2, <1>3, <1>4

-----------------------------------------------------------------------------
\* POST and DELETE of a lock, step by step.
LEMMA AcquireBeginKeeps ==
    ASSUME LockInvariant, NEW h \in Handler, NEW u \in User, NEW f \in Floor,
           AcquireBegin(h, u, f)
    PROVE  LockInvariant'
<1>1. DEFINE task == [step |-> "acquire", user |-> u, floor |-> f, now |-> clock,
                      event |-> LockedBy(u)]
<1>2. task \in Task
  BY LockAssumption DEF LockInvariant, LockTypeOK, Task, Time, LockedBy, LockEvent
<1>3. Goto(h, task) /\ UNCHANGED <<clock, users, locks, janitor, grants, streams>>
  BY DEF AcquireBegin
<1>4. clock \in Int
  BY LockAssumption DEF LockInvariant, LockTypeOK
<1>5. TasksAddressed' /\ ClocksRead' /\ ReleasersForfeit'
  <2>1. task.now <= clock /\ task.floor \in Floor /\ task.user \in User
        /\ task.step = "acquire"
    BY <1>4
  <2>2. HIDE DEF task
  <2>3. QED
    BY <1>2, <1>3, <2>1, RequestGoesOn
<1>6. LockTypeOK'
  <2>1. handling' \in [Handler -> Task]
    BY <1>2, <1>3, GotoTask DEF LockInvariant, LockTypeOK
  <2>2. QED
    BY <1>3, <2>1 DEF LockInvariant, LockTypeOK
<1>7. GrantsBacked'
  BY <1>3 DEF LockInvariant, GrantsBacked
<1>8. QED
  BY <1>5, <1>6, <1>7 DEF LockInvariant

\* An acquisition that is not refused overrides nobody's grant.
LEMMA AcquireCommitKeeps ==
    ASSUME LockInvariant, NEW h \in Handler, AcquireCommit(h)
    PROVE  LockInvariant'
<1>1. DEFINE task == handling[h]
             u == task.user
             f == task.floor
             lock == [holder |-> u, expires |-> task.now + TTL]
             next == [task EXCEPT !.step = "broadcast", !.now = 0]
<1>2. /\ task \in Task /\ task.step = "acquire"
      /\ UNCHANGED <<clock, users, janitor>>
  BY DEF AcquireCommit, LockInvariant, LockTypeOK
<1>3. u \in User /\ f \in Floor /\ task.now <= clock
  BY <1>2 DEF LockInvariant, TasksAddressed, ClocksRead
<1>4. clock \in 0..MaxTime /\ task.now \in Nat /\ TTL \in Nat \ {0} /\ MaxTime \in Nat
  BY <1>2, LockAssumption DEF LockInvariant, LockTypeOK, Task, Time
<1>5. CASE Refused(task) \/ u \notin users
  <2>1. Goto(h, NoTask) /\ UNCHANGED <<locks, grants, streams>>
    BY <1>5 DEF AcquireCommit
  <2>2. TasksAddressed' /\ ClocksRead' /\ ReleasersForfeit'
    BY <1>2, <1>4, <2>1, LockConstants, RequestGoesOn
  <2>3. handling' \in [Handler -> Task]
    BY <2>1, LockConstants, GotoTask DEF LockInvariant, LockTypeOK
  <2>4. LockTypeOK'
    BY <1>2, <2>1, <2>3 DEF LockInvariant, LockTypeOK
  <2>5. GrantsBacked'
    BY <1>2, <2>1 DEF LockInvariant, GrantsBacked
  <2>6. QED
    BY <2>2, <2>4, <2>5 DEF LockInvariant
<1>6. CASE ~Refused(task) /\ u \in users
  <2>1. /\ locks' = [locks EXCEPT ![f] = lock]
        /\ Goto(h, next)
        /\ Blur({f}) \/ UNCHANGED streams
        /\ IF Releasing(u, f) THEN UNCHANGED grants
           ELSE grants' = [grants EXCEPT ![u][f] = task.now + TTL]
    BY <1>6 DEF AcquireCommit
  <2>2. next \in Task /\ next.step = "broadcast" /\ next.now = 0 /\ next.floor = f
    BY <1>2, LockConstants DEF Task
  <2>3. task.now + TTL \in Time /\ 0 <= clock
    BY <1>3, <1>4 DEF Time
  <2>4. /\ grants \in [User -> [Floor -> Time]]
        /\ locks \in [Floor -> LockRow]
    BY DEF LockInvariant, LockTypeOK
  <2>5. lock \in LockRow
    BY <1>3, <2>3 DEF LockRow
  <2>6. /\ locks' \in [Floor -> LockRow]
        /\ locks'[f].holder = u /\ locks'[f].expires = task.now + TTL
        /\ \A g \in Floor : g # f => locks'[g] = locks[g]
    BY <1>3, <2>1, <2>4, <2>5
  <2>7. /\ grants' \in [User -> [Floor -> Time]]
        /\ \A v \in User, g \in Floor :
               (v # u \/ g # f) => grants'[v][g] = grants[v][g]
        /\ Releasing(u, f) => grants'[u][f] = grants[u][f]
        /\ ~Releasing(u, f) => grants'[u][f] = task.now + TTL
    <3>1. CASE Releasing(u, f)
      BY <2>1, <2>4, <3>1
    <3>2. CASE ~Releasing(u, f)
      BY <1>3, <2>1, <2>3, <2>4, <3>2
    <3>3. QED
      BY <3>1, <3>2
  <2>8. TasksAddressed' /\ ClocksRead' /\ ReleasersForfeit'
    <3>1. \A v \in User, g \in Floor :
              grants'[v][g] # grants[v][g] => ~Releasing(v, g)
      BY <2>7
    <3>2. HIDE DEF next
    <3>3. QED
      BY <1>2, <1>3, <2>1, <2>2, <2>3, <3>1, RequestGoesOn
  <2>9. LockTypeOK'
    <3>1. handling' \in [Handler -> Task]
      <4>1. HIDE DEF next
      <4>2. QED
        BY <2>1, <2>2, GotoTask DEF LockInvariant, LockTypeOK
    <3>2. StreamsOK
      BY DEF LockInvariant, LockTypeOK, StreamsOK
    <3>3. StreamsOK'
      BY <2>1, <3>2, BlurStreams DEF StreamsOK
    <3>4. QED
      BY <1>2, <2>6, <2>7, <3>1, <3>3 DEF LockInvariant, LockTypeOK, StreamsOK
  <2>10. GrantsBacked'
    <3>1. SUFFICES ASSUME NEW v \in User, NEW g \in Floor, grants'[v][g] > clock
                   PROVE  locks'[g].holder = v /\ locks'[g].expires = grants'[v][g]
      BY <1>2 DEF GrantsBacked
    <3>2. CASE g # f
      BY <2>6, <2>7, <3>1, <3>2 DEF LockInvariant, GrantsBacked
    <3>3. CASE g = f /\ v = u
      <4>1. CASE Releasing(u, f)
        <5>1. grants[u][f] = 0
          BY <1>3, <4>1 DEF LockInvariant, ReleasersForfeit
        <5>2. QED
          BY <1>4, <2>7, <3>1, <3>3, <4>1, <5>1
      <4>2. CASE ~Releasing(u, f)
        BY <2>6, <2>7, <3>3, <4>2
      <4>3. QED
        BY <4>1, <4>2
    <3>4. CASE g = f /\ v # u
      <4>1. locks[f].holder = v /\ locks[f].expires > clock
        BY <2>7, <3>1, <3>4 DEF LockInvariant, GrantsBacked
      <4>2. locks[f].expires \in Int
        BY <1>3, <1>4, <2>4 DEF LockRow, Time
      <4>3. Refused(task)
        BY <1>3, <1>4, <3>4, <4>1, <4>2, LockAssumption DEF Refused, Fresh
      <4>4. QED
        BY <1>6, <4>3
    <3>5. QED
      BY <3>2, <3>3, <3>4
  <2>11. QED
    BY <2>8, <2>9, <2>10 DEF LockInvariant
<1>7. QED
  BY <1>5, <1>6

\* Locks that have expired, by a clock read earlier, back no grant.
LEMMA ExpiredBacksNothing ==
    ASSUME LockInvariant, NEW f \in Floor, NEW now \in Int, now <= clock,
           ~Fresh(locks[f], now), NEW u \in User
    PROVE  ~(grants[u][f] > clock)
<1>1. clock \in Int /\ locks[f].expires \in Int
  BY LockAssumption DEF LockInvariant, LockTypeOK, LockRow, Time
<1>2. grants[u][f] > clock => locks[f].expires > clock
  BY DEF LockInvariant, GrantsBacked
<1>3. QED
  BY <1>1, <1>2 DEF Fresh

\* Deleting locks that back no grant, while grants only go away, leaves every
\* grant that is left backed.
LEMMA DeletionKeepsGrants ==
    ASSUME LockInvariant, NEW gone \in SUBSET Floor,
           locks' = [f \in Floor |-> IF f \in gone THEN NoLock ELSE locks[f]],
           \A u \in User, f \in Floor :
               grants'[u][f] = grants[u][f] \/ ~(grants'[u][f] > clock),
           \A u \in User, f \in gone : ~(grants'[u][f] > clock),
           UNCHANGED clock
    PROVE  GrantsBacked'
<1>1. \A f \in Floor : f \notin gone => locks'[f] = locks[f]
  BY LocksDeleted DEF LockInvariant
<1>2. QED
  BY <1>1 DEF LockInvariant, GrantsBacked

\* Sending a release gives up what one may count on.
LEMMA ReleaseBeginKeeps ==
    ASSUME LockInvariant, NEW h \in Handler, NEW u \in User, NEW f \in Floor,
           ReleaseBegin(h, u, f)
    PROVE  LockInvariant'
<1>1. DEFINE task == [NoTask EXCEPT !.step = "release", !.user = u, !.floor = f]
<1>2. /\ task \in Task /\ task.step = "release" /\ task.user = u
      /\ task.floor = f /\ task.now = 0
  BY LockConstants DEF NoTask, Task
<1>3. /\ Goto(h, task) /\ UNCHANGED <<clock, users, locks, janitor, streams>>
      /\ grants' = [grants EXCEPT ![u][f] = 0]
  BY DEF ReleaseBegin
<1>4. clock \in Nat
  BY LockAssumption DEF LockInvariant, LockTypeOK
<1>5. /\ grants' \in [User -> [Floor -> Time]]
      /\ grants'[u][f] = 0
      /\ \A v \in User, g \in Floor : grants'[v][g] \in {grants[v][g], 0}
  BY <1>3, LockConstants DEF LockInvariant, LockTypeOK
<1>6. HIDE DEF task
<1>7. TasksAddressed' /\ ClocksRead' /\ ReleasersForfeit'
  BY <1>2, <1>3, <1>4, <1>5, RequestGoesOn
<1>8. LockTypeOK'
  <2>1. handling' \in [Handler -> Task]
    BY <1>2, <1>3, GotoTask DEF LockInvariant, LockTypeOK
  <2>2. QED
    BY <1>3, <1>5, <2>1 DEF LockInvariant, LockTypeOK
<1>9. GrantsBacked'
  BY <1>3, <1>4, <1>5 DEF LockInvariant, GrantsBacked
<1>10. QED
  BY <1>7, <1>8, <1>9 DEF LockInvariant

\* DELETE removes the lock of somebody who does not count on it any more.
LEMMA ReleaseCommitKeeps ==
    ASSUME LockInvariant, NEW h \in Handler, ReleaseCommit(h)
    PROVE  LockInvariant'
<1>1. DEFINE task == handling[h]
             u == task.user
             f == task.floor
             next == [task EXCEPT !.step = "broadcast"]
             gone == IF locks[f].holder = u THEN {f} ELSE {}
<1>2. /\ task \in Task /\ task.step = "release"
      /\ UNCHANGED <<clock, users, janitor, grants>>
      /\ Goto(h, next)
      /\ locks' = IF locks[f].holder = u THEN [locks EXCEPT ![f] = NoLock] ELSE locks
      /\ Blur({f}) \/ UNCHANGED streams
  BY DEF ReleaseCommit, LockInvariant, LockTypeOK
<1>3. u \in User /\ f \in Floor /\ task.now <= clock
  BY <1>2 DEF LockInvariant, TasksAddressed, ClocksRead
<1>4. clock \in Nat /\ grants[u][f] = 0
  BY <1>2, <1>3, LockAssumption
  DEF LockInvariant, LockTypeOK, ReleasersForfeit, Releasing
<1>5. next \in Task /\ next.step = "broadcast" /\ next.now = task.now /\ next.floor = f
  BY <1>2 DEF Task
<1>6. locks' = [g \in Floor |-> IF g \in gone THEN NoLock ELSE locks[g]]
  BY <1>2, <1>3 DEF LockInvariant, LockTypeOK
<1>7. TasksAddressed' /\ ClocksRead' /\ ReleasersForfeit'
  <2>1. HIDE DEF next
  <2>2. QED
    BY <1>2, <1>3, <1>5, RequestGoesOn
<1>8. LockTypeOK'
  <2>1. handling' \in [Handler -> Task]
    <3>1. HIDE DEF next
    <3>2. QED
      BY <1>2, <1>5, GotoTask DEF LockInvariant, LockTypeOK
  <2>2. locks' \in [Floor -> LockRow]
    BY <1>3, <1>6, LocksDeleted DEF LockInvariant
  <2>3. StreamsOK'
    BY <1>2, BlurStreams DEF LockInvariant, LockTypeOK, StreamsOK
  <2>4. QED
    BY <1>2, <2>1, <2>2, <2>3 DEF LockInvariant, LockTypeOK, StreamsOK
<1>9. GrantsBacked'
  <2>1. \A v \in User, g \in gone : ~(grants[v][g] > clock)
    <3>1. SUFFICES ASSUME NEW v \in User, locks[f].holder = u, grants[v][f] > clock
                   PROVE  FALSE
      OBVIOUS
    <3>2. v = u
      BY <1>3, <3>1 DEF LockInvariant, GrantsBacked
    <3>3. QED
      BY <1>4, <3>1, <3>2
  <2>2. gone \in SUBSET Floor
    BY <1>3
  <2>3. HIDE DEF gone
  <2>4. QED
    BY <1>2, <1>6, <2>1, <2>2, DeletionKeepsGrants
<1>10. QED
  BY <1>7, <1>8, <1>9 DEF LockInvariant

\* The broadcast after the commit reaches channels only.
LEMMA AnnounceKeeps ==
    ASSUME LockInvariant, NEW h \in Handler, Announce(h)
    PROVE  LockInvariant'
<1>1. /\ handling[h] \in Task /\ handling[h].event \in LockEvent
      /\ Broadcast(handling[h].floor, handling[h].event)
      /\ Goto(h, NoTask)
      /\ UNCHANGED <<clock, users, locks, janitor, grants>>
  BY DEF Announce, LockInvariant, LockTypeOK, Task
<1>2. clock \in Nat
  BY LockAssumption DEF LockInvariant, LockTypeOK
<1>3. TasksAddressed' /\ ClocksRead' /\ ReleasersForfeit'
  BY <1>1, <1>2, LockConstants, RequestGoesOn
<1>4. LockTypeOK'
  <2>1. handling' \in [Handler -> Task]
    BY <1>1, LockConstants, GotoTask DEF LockInvariant, LockTypeOK
  <2>2. StreamsOK
    BY DEF LockInvariant, LockTypeOK, StreamsOK
  <2>3. StreamsOK'
    BY <1>1, <2>2, BroadcastStreams
  <2>4. QED
    BY <1>1, <2>1, <2>3 DEF LockInvariant, LockTypeOK, StreamsOK
<1>5. GrantsBacked'
  BY <1>1 DEF LockInvariant, GrantsBacked
<1>6. QED
  BY <1>3, <1>4, <1>5 DEF LockInvariant

-----------------------------------------------------------------------------
\* A reader that finds an expired lock remembers the time it read.
LEMMA GetExpiredKeeps ==
    ASSUME LockInvariant, NEW h \in Handler, NEW f \in Floor, GetExpired(h, f)
    PROVE  LockInvariant'
<1>1. DEFINE task == [NoTask EXCEPT !.step = "expire", !.floor = f, !.now = clock]
<1>2. clock \in Time /\ clock \in Nat
  BY LockAssumption DEF LockInvariant, LockTypeOK, Time
<1>3. task \in Task /\ task.step = "expire" /\ task.floor = f /\ task.now = clock
  BY <1>2, LockConstants DEF NoTask, Task
<1>4. Goto(h, task) /\ UNCHANGED <<clock, users, locks, janitor, grants, streams>>
  BY DEF GetExpired
<1>5. HIDE DEF task
<1>6. TasksAddressed' /\ ClocksRead' /\ ReleasersForfeit'
  BY <1>2, <1>3, <1>4, RequestGoesOn
<1>7. LockTypeOK'
  <2>1. handling' \in [Handler -> Task]
    BY <1>3, <1>4, GotoTask DEF LockInvariant, LockTypeOK
  <2>2. QED
    BY <1>4, <2>1 DEF LockInvariant, LockTypeOK
<1>8. GrantsBacked'
  BY <1>4 DEF LockInvariant, GrantsBacked
<1>9. QED
  BY <1>6, <1>7, <1>8 DEF LockInvariant

\* The reader's DELETE spares a lock renewed in the meantime.
LEMMA DeleteExpiredKeeps ==
    ASSUME LockInvariant, NEW h \in Handler, DeleteExpired(h)
    PROVE  LockInvariant'
<1>1. DEFINE f == handling[h].floor
             now == handling[h].now
             gone == IF Held(f) /\ ~Fresh(locks[f], now) THEN {f} ELSE {}
<1>2. /\ handling[h] \in Task /\ handling[h].step = "expire"
      /\ locks' = IF Held(f) /\ ~Fresh(locks[f], now)
                  THEN [locks EXCEPT ![f] = NoLock] ELSE locks
      /\ Blur({f}) \/ UNCHANGED streams
      /\ Goto(h, NoTask)
      /\ UNCHANGED <<clock, users, janitor, grants>>
  BY DEF DeleteExpired, LockInvariant, LockTypeOK
<1>3. f \in Floor /\ now \in Int /\ now <= clock /\ clock \in Nat
  <2>1. f \in Floor /\ now <= clock
    BY <1>2 DEF LockInvariant, TasksAddressed, ClocksRead
  <2>2. now \in Int
    BY <1>2, LockAssumption DEF Task, Time
  <2>3. clock \in Nat
    BY LockAssumption DEF LockInvariant, LockTypeOK
  <2>4. QED
    BY <2>1, <2>2, <2>3
<1>4. locks' = [g \in Floor |-> IF g \in gone THEN NoLock ELSE locks[g]]
  BY <1>2, <1>3 DEF LockInvariant, LockTypeOK
<1>5. TasksAddressed' /\ ClocksRead' /\ ReleasersForfeit'
  BY <1>2, <1>3, LockConstants, RequestGoesOn
<1>6. LockTypeOK'
  <2>1. handling' \in [Handler -> Task]
    BY <1>2, LockConstants, GotoTask DEF LockInvariant, LockTypeOK
  <2>2. locks' \in [Floor -> LockRow]
    BY <1>3, <1>4, LocksDeleted DEF LockInvariant
  <2>3. StreamsOK'
    BY <1>2, BlurStreams DEF LockInvariant, LockTypeOK, StreamsOK
  <2>4. QED
    BY <1>2, <2>1, <2>2, <2>3 DEF LockInvariant, LockTypeOK, StreamsOK
<1>7. GrantsBacked'
  <2>1. \A u \in User, g \in gone : ~(grants[u][g] > clock)
    BY <1>3, ExpiredBacksNothing
  <2>2. gone \in SUBSET Floor
    BY <1>3
  <2>3. HIDE DEF gone
  <2>4. QED
    BY <1>2, <1>4, <2>1, <2>2, DeletionKeepsGrants
<1>8. QED
  BY <1>5, <1>6, <1>7 DEF LockInvariant

\* The janitor reads the clock and the floors, announces or deletes; the
\* requests go on as they were.
LEMMA JanitorKeepsRequests ==
    ASSUME LockInvariant, UNCHANGED <<clock, users, handling, grants>>,
           janitor'.now <= clock
    PROVE  TasksAddressed' /\ ClocksRead' /\ ReleasersForfeit'
<1>1. TasksAddressed' /\ ClocksRead'
  BY DEF LockInvariant, TasksAddressed, ClocksRead
<1>2. ReleasersForfeit'
  BY DEF LockInvariant, ReleasersForfeit, Releasing
<1>3. QED
  BY <1>1, <1>2

\* The janitor's three statements: its DELETE spares what was renewed.
LEMMA JanitorKeeps ==
    ASSUME LockInvariant, Janitor
    PROVE  LockInvariant'
<1>1. DEFINE State == [step: {"idle", "delete", "broadcast"}, now: Time,
                       found: SUBSET Floor]
<1>2. /\ janitor \in State /\ janitor.now \in Int /\ janitor.now <= clock
      /\ clock \in Time /\ clock \in Nat
  BY LockAssumption DEF LockInvariant, LockTypeOK, ClocksRead, Time
<1>3. CASE JanitorRead
  <2>1. DEFINE expired == {f \in Floor : Held(f) /\ ~Fresh(locks[f], clock)}
  <2>2. /\ janitor' = [step |-> "delete", now |-> clock, found |-> expired]
        /\ UNCHANGED <<clock, users, locks, handling, grants, streams>>
    BY <1>3 DEF JanitorRead
  <2>3. janitor' \in State /\ janitor'.now <= clock
    BY <1>2, <2>2
  <2>4. TasksAddressed' /\ ClocksRead' /\ ReleasersForfeit'
    BY <2>2, <2>3, JanitorKeepsRequests
  <2>5. LockTypeOK' /\ GrantsBacked'
    BY <2>2, <2>3 DEF LockInvariant, LockTypeOK, GrantsBacked
  <2>6. QED
    BY <2>4, <2>5 DEF LockInvariant
<1>4. CASE JanitorDelete
  <2>1. DEFINE gone == {f \in Floor : Held(f) /\ ~Fresh(locks[f], janitor.now)}
               fs == {f \in gone \cup janitor.found :
                         \/ f \notin gone \cap janitor.found
                         \/ \E h \in Handler : /\ handling[h].step = "broadcast"
                                               /\ handling[h].floor = f}
  <2>2. /\ locks' = [f \in Floor |-> IF f \in gone THEN NoLock ELSE locks[f]]
        /\ Blur(fs)
        /\ janitor' = [janitor EXCEPT !.step = "broadcast"]
        /\ UNCHANGED <<clock, users, handling, grants>>
    BY <1>4 DEF JanitorDelete
  <2>3. janitor' \in State /\ janitor'.now <= clock
    BY <1>2, <2>2
  <2>4. TasksAddressed' /\ ClocksRead' /\ ReleasersForfeit'
    BY <2>2, <2>3, JanitorKeepsRequests
  <2>5. locks' \in [Floor -> LockRow]
    BY <2>2, LocksDeleted DEF LockInvariant
  <2>6. StreamsOK'
    <3>1. StreamsOK
      BY DEF LockInvariant, LockTypeOK, StreamsOK
    <3>2. HIDE DEF fs
    <3>3. QED
      BY <2>2, <3>1, BlurStreams
  <2>7. LockTypeOK'
    BY <2>2, <2>3, <2>5, <2>6 DEF LockInvariant, LockTypeOK, StreamsOK
  <2>8. GrantsBacked'
    <3>1. \A u \in User, f \in gone : ~(grants[u][f] > clock)
      BY <1>2, ExpiredBacksNothing
    <3>2. gone \in SUBSET Floor
      OBVIOUS
    <3>3. HIDE DEF gone
    <3>4. QED
      BY <2>2, <3>1, <3>2, DeletionKeepsGrants
  <2>9. QED
    BY <2>4, <2>7, <2>8 DEF LockInvariant
<1>5. ASSUME NEW f \in Floor, JanitorAnnounce(f) PROVE LockInvariant'
  <2>1. /\ Broadcast(f, Unlocked)
        /\ UNCHANGED <<clock, users, locks, handling, grants>>
    BY <1>5 DEF JanitorAnnounce
  <2>2. janitor' \in State /\ janitor'.now <= clock
    <3>1. CASE janitor.found = {f}
      <4>1. janitor' = [step |-> "idle", now |-> 0, found |-> {}]
        BY <1>5, <3>1 DEF JanitorAnnounce
      <4>2. QED
        BY <1>2, <4>1, LockConstants
    <3>2. CASE janitor.found # {f}
      <4>1. janitor' = [janitor EXCEPT !.found = @ \ {f}]
        BY <1>5, <3>2 DEF JanitorAnnounce
      <4>2. QED
        BY <1>2, <4>1
    <3>3. QED
      BY <3>1, <3>2
  <2>3. TasksAddressed' /\ ClocksRead' /\ ReleasersForfeit'
    BY <2>1, <2>2, JanitorKeepsRequests
  <2>4. StreamsOK'
    <3>1. StreamsOK /\ Unlocked \in LockEvent
      BY DEF LockInvariant, LockTypeOK, StreamsOK, Unlocked, LockEvent
    <3>2. QED
      BY <2>1, <3>1, BroadcastStreams
  <2>5. LockTypeOK'
    BY <2>1, <2>2, <2>4 DEF LockInvariant, LockTypeOK, StreamsOK
  <2>6. GrantsBacked'
    BY <2>1 DEF LockInvariant, GrantsBacked
  <2>7. QED
    BY <2>3, <2>5, <2>6 DEF LockInvariant
<1>6. QED
  BY <1>3, <1>4, <1>5 DEF Janitor

\* Deleting an account deletes its locks and what it may count on.
LEMMA DeleteUserKeeps ==
    ASSUME LockInvariant, NEW u \in User, DeleteUser(u)
    PROVE  LockInvariant'
<1>1. DEFINE freed == {f \in Floor : locks[f].holder = u}
<1>2. /\ users' = users \ {u}
      /\ locks' = [f \in Floor |-> IF f \in freed THEN NoLock ELSE locks[f]]
      /\ grants' = [grants EXCEPT ![u] = [f \in Floor |-> 0]]
      /\ Blur(freed)
      /\ UNCHANGED <<clock, handling, janitor>>
  BY DEF DeleteUser
<1>3. clock \in Nat
  BY LockAssumption DEF LockInvariant, LockTypeOK
<1>4. /\ grants' \in [User -> [Floor -> Time]]
      /\ \A f \in Floor : grants'[u][f] = 0
      /\ \A v \in User, f \in Floor : v # u => grants'[v][f] = grants[v][f]
  BY <1>2, LockConstants DEF LockInvariant, LockTypeOK
<1>5. TasksAddressed' /\ ClocksRead'
  BY <1>2 DEF LockInvariant, TasksAddressed, ClocksRead
<1>6. ReleasersForfeit'
  BY <1>2, <1>4 DEF LockInvariant, ReleasersForfeit, Releasing
<1>7. LockTypeOK'
  <2>1. locks' \in [Floor -> LockRow]
    BY <1>2, LocksDeleted DEF LockInvariant
  <2>2. StreamsOK'
    <3>1. StreamsOK
      BY DEF LockInvariant, LockTypeOK, StreamsOK
    <3>2. HIDE DEF freed
    <3>3. QED
      BY <1>2, <3>1, BlurStreams
  <2>3. QED
    BY <1>2, <1>4, <2>1, <2>2 DEF LockInvariant, LockTypeOK, StreamsOK
<1>8. GrantsBacked'
  <2>1. \A v \in User, f \in freed : ~(grants'[v][f] > clock)
    BY <1>3, <1>4 DEF LockInvariant, GrantsBacked
  <2>2. \A v \in User, f \in Floor :
            grants'[v][f] = grants[v][f] \/ ~(grants'[v][f] > clock)
    BY <1>3, <1>4
  <2>3. freed \in SUBSET Floor
    OBVIOUS
  <2>4. HIDE DEF freed
  <2>5. QED
    BY <1>2, <2>1, <2>2, <2>3, DeletionKeepsGrants
<1>9. QED
  BY <1>5, <1>6, <1>7, <1>8 DEF LockInvariant

-----------------------------------------------------------------------------
\* The server starts without locks and requests.
LEMMA LockInit == Init => LockInvariant
<1>1. SUFFICES ASSUME Init PROVE LockInvariant
  OBVIOUS
<1>2. LockTypeOK
  <2>1. NoStream \in Stream /\ Len(NoStream.channel) = 0
    BY DEF NoStream, Stream, Unlocked, LockEvent
  <2>2. streams \in [Viewer -> Stream] /\ \A w \in Viewer : Len(streams[w].channel) <= Capacity
    BY <1>1, <2>1, LockAssumption DEF Init
  <2>3. clock \in 0..MaxTime /\ 0 \in Time
    BY <1>1, LockAssumption DEF Init, Time
  <2>4. handling \in [Handler -> Task] /\ locks \in [Floor -> LockRow]
    BY <1>1, LockConstants DEF Init
  <2>5. QED
    BY <1>1, <2>2, <2>3, <2>4 DEF Init, LockTypeOK
<1>3. TasksAddressed /\ ClocksRead
  BY <1>1, LockConstants DEF Init, TasksAddressed, ClocksRead
<1>4. ReleasersForfeit /\ GrantsBacked
  BY <1>1 DEF Init, ReleasersForfeit, GrantsBacked
<1>5. QED
  BY <1>2, <1>3, <1>4 DEF LockInvariant

\* What viewers do concerns nobody's lock.
LEMMA ViewerKeeps ==
    ASSUME LockInvariant, NEW w \in Viewer,
           (\E f \in Floor : Subscribe(w, f)) \/ Deliver(w) \/ Unsubscribe(w)
    PROVE  LockInvariant'
<1>1. UNCHANGED <<clock, users, locks, handling, janitor, grants>>
  BY DEF Subscribe, Deliver, Unsubscribe
<1>2. StreamsOK'
  BY ViewerStreams DEF LockInvariant
<1>3. LockTypeOK'
  BY <1>1, <1>2 DEF LockInvariant, LockTypeOK, StreamsOK
<1>4. TasksAddressed' /\ ClocksRead' /\ GrantsBacked'
  BY <1>1 DEF LockInvariant, TasksAddressed, ClocksRead, GrantsBacked
<1>5. ReleasersForfeit'
  BY <1>1 DEF LockInvariant, ReleasersForfeit, Releasing
<1>6. QED
  BY <1>3, <1>4, <1>5 DEF LockInvariant

\* Time passes: grants run out, and what was read becomes older.
LEMMA TickKeeps ==
    ASSUME LockInvariant, Tick
    PROVE  LockInvariant'
<1>1. /\ clock < MaxTime /\ clock' = clock + 1
      /\ UNCHANGED <<users, locks, handling, janitor, grants, streams>>
  BY DEF Tick
<1>2. clock \in Nat /\ MaxTime \in Nat
  BY LockAssumption DEF LockInvariant, LockTypeOK
<1>3. LockTypeOK'
  BY <1>1, <1>2 DEF LockInvariant, LockTypeOK
<1>4. ClocksRead'
  <2>1. \A h \in Handler : handling[h].now \in Int
    BY LockAssumption DEF LockInvariant, LockTypeOK, Task, Time
  <2>2. janitor.now \in Int
    BY LockAssumption DEF LockInvariant, LockTypeOK, Time
  <2>3. QED
    BY <1>1, <1>2, <2>1, <2>2 DEF LockInvariant, ClocksRead
<1>5. GrantsBacked'
  <2>1. \A u \in User, f \in Floor : grants[u][f] \in Int
    BY LockAssumption DEF LockInvariant, LockTypeOK, Time
  <2>2. QED
    BY <1>1, <1>2, <2>1 DEF LockInvariant, GrantsBacked
<1>6. TasksAddressed' /\ ReleasersForfeit'
  BY <1>1 DEF LockInvariant, TasksAddressed, ReleasersForfeit, Releasing
<1>7. QED
  BY <1>3, <1>4, <1>5, <1>6 DEF LockInvariant

\* The invariant survives every step.
LEMMA LockStep == LockInvariant /\ [Next]_vars => LockInvariant'
<1> SUFFICES ASSUME LockInvariant, [Next]_vars PROVE LockInvariant'
  OBVIOUS
<1>1. CASE Tick
  BY <1>1, TickKeeps
<1>2. ASSUME NEW h \in Handler, Request(h) PROVE LockInvariant'
  BY <1>2, AcquireBeginKeeps, ReleaseBeginKeeps, GetExpiredKeeps, AcquireCommitKeeps,
     ReleaseCommitKeeps, DeleteExpiredKeeps, AnnounceKeeps DEF Request
<1>3. CASE Janitor
  BY <1>3, JanitorKeeps
<1>4. ASSUME NEW u \in User, DeleteUser(u) PROVE LockInvariant'
  BY <1>4, DeleteUserKeeps
<1>5. ASSUME NEW w \in Viewer,
             (\E f \in Floor : Subscribe(w, f)) \/ Deliver(w) \/ Unsubscribe(w)
      PROVE  LockInvariant'
  BY <1>5, ViewerKeeps
<1>6. CASE UNCHANGED vars
  <2>1. UNCHANGED <<clock, users, locks, handling, janitor, grants, streams>>
    BY <1>6 DEF vars
  <2>2. LockTypeOK' /\ TasksAddressed' /\ ClocksRead' /\ GrantsBacked'
    BY <2>1 DEF LockInvariant, LockTypeOK, TasksAddressed, ClocksRead, GrantsBacked
  <2>3. ReleasersForfeit'
    BY <2>1 DEF LockInvariant, ReleasersForfeit, Releasing
  <2>4. QED
    BY <2>2, <2>3 DEF LockInvariant
<1>7. QED
  BY <1>1, <1>2, <1>3, <1>4, <1>5, <1>6 DEF Next

\* LockInvariant holds in every reachable state.
THEOREM LockInvariantAlways == Spec => []LockInvariant
BY LockInit, LockStep, PTL DEF Spec

\* The rows, requests, grants and channels keep their types; in particular no
\* channel ever holds more than its capacity (the broker drops instead).
THEOREM LockTypeCorrect == Spec => []LockTypeOK
<1>1. LockInvariant => LockTypeOK
  BY DEF LockInvariant
<1>2. QED
  BY <1>1, LockInvariantAlways, PTL

\* Two grants of one floor never overlap, however the requests, the readers and
\* the janitor interleave: both would be backed by the same row.
THEOREM GrantsAlwaysExclusive == Spec => []GrantsExclusive
<1>1. LockInvariant => GrantsExclusive
  <2>1. SUFFICES ASSUME LockInvariant, NEW f \in Floor, NEW u \in User, NEW v \in User,
                        grants[u][f] > clock, ~(grants[v][f] <= clock)
                 PROVE  u = v
    BY DEF GrantsExclusive
  <2>2. grants[v][f] \in Int
    BY <2>1, LockAssumption DEF LockInvariant, LockTypeOK, Time
  <2>3. clock \in Int
    BY <2>1, LockAssumption DEF LockInvariant, LockTypeOK
  <2>4. grants[v][f] > clock
    BY <2>1, <2>2, <2>3
  <2>5. QED
    BY <2>1, <2>4 DEF LockInvariant, GrantsBacked
<1>2. QED
  BY <1>1, LockInvariantAlways, PTL

-----------------------------------------------------------------------------
\* A lock that is fresh now was fresh at every time read before.
LEMMA FreshBefore ==
    ASSUME LockInvariant, NEW f \in Floor, Fresh(locks[f], clock),
           NEW now \in Int, now <= clock
    PROVE  Fresh(locks[f], now)
<1>1. clock \in Int /\ locks[f].expires \in Int
  BY LockAssumption DEF LockInvariant, LockTypeOK, LockRow, Time
<1>2. QED
  BY <1>1 DEF Fresh

\* No step takes a fresh lock from its holder unless he releases it or is deleted.
LEMMA FreshLockStays ==
    ASSUME LockInvariant, Next, NEW f \in Floor, Held(f), Fresh(locks[f], clock),
           locks'[f].holder # locks[f].holder
    PROVE  Releasing(locks[f].holder, f) \/ locks[f].holder \notin users'
<1>1. /\ locks \in [Floor -> LockRow] /\ locks[f].holder \in User
      /\ \A h \in Handler : handling[h].now \in Int /\ handling[h].now <= clock
      /\ janitor.now \in Int /\ janitor.now <= clock
  <2>1. locks \in [Floor -> LockRow] /\ locks[f].holder \in User
    BY DEF LockInvariant, LockTypeOK, LockRow, Held
  <2>2. \A h \in Handler : handling[h].now \in Int
    BY LockAssumption DEF LockInvariant, LockTypeOK, Task, Time
  <2>3. janitor.now \in Int
    BY LockAssumption DEF LockInvariant, LockTypeOK, Time
  <2>4. QED
    BY <2>1, <2>2, <2>3 DEF LockInvariant, ClocksRead
<1>2. CASE UNCHANGED locks
  BY <1>2
<1>3. ASSUME NEW h \in Handler, AcquireCommit(h) PROVE FALSE
  <2>1. handling[h].floor = f /\ ~Refused(handling[h])
    BY <1>1, <1>3 DEF AcquireCommit
  <2>2. locks'[f].holder = handling[h].user
    BY <1>1, <1>3, <2>1 DEF AcquireCommit
  <2>3. Fresh(locks[f], handling[h].now)
    BY <1>1, FreshBefore
  <2>4. locks[f].holder \in {NoUser, handling[h].user}
    BY <2>1, <2>3 DEF Refused
  <2>5. QED
    BY <2>2, <2>4 DEF Held
<1>4. ASSUME NEW h \in Handler, ReleaseCommit(h)
      PROVE  Releasing(locks[f].holder, f)
  <2>1. /\ handling[h].step = "release" /\ handling[h].floor = f
        /\ locks[f].holder = handling[h].user
    BY <1>1, <1>4 DEF ReleaseCommit
  <2>2. QED
    BY <2>1 DEF Releasing
<1>5. ASSUME NEW h \in Handler, DeleteExpired(h) PROVE FALSE
  <2>1. Fresh(locks[f], handling[h].now)
    BY <1>1, FreshBefore
  <2>2. QED
    BY <1>1, <1>5, <2>1 DEF DeleteExpired
<1>6. ASSUME JanitorDelete PROVE FALSE
  <2>1. Fresh(locks[f], janitor.now)
    BY <1>1, FreshBefore
  <2>2. QED
    BY <1>6, <2>1 DEF JanitorDelete
<1>7. ASSUME NEW u \in User, DeleteUser(u) PROVE locks[f].holder \notin users'
  BY <1>7 DEF DeleteUser
<1>8. QED
  <2>1. CASE Tick
    BY <1>2, <2>1 DEF Tick
  <2>2. ASSUME NEW h \in Handler, Request(h)
        PROVE  Releasing(locks[f].holder, f) \/ locks[f].holder \notin users'
    BY <1>2, <1>3, <1>4, <1>5, <2>2
    DEF Request, AcquireBegin, ReleaseBegin, GetExpired, Announce
  <2>3. CASE Janitor
    BY <1>2, <1>6, <2>3 DEF Janitor, JanitorRead, JanitorAnnounce
  <2>4. ASSUME NEW w \in Viewer,
               (\E g \in Floor : Subscribe(w, g)) \/ Deliver(w) \/ Unsubscribe(w)
        PROVE  FALSE
    BY <1>2, <2>4 DEF Subscribe, Deliver, Unsubscribe
  <2>5. QED
    BY <1>7, <2>1, <2>2, <2>3, <2>4 DEF Next

\* A lock that has not expired only changes hands when its holder asks for it or
\* is deleted.
THEOREM LockAlwaysRespected == Spec => LockRespected
<1>1. ASSUME LockInvariant, [Next]_vars
      PROVE  [\A f \in Floor :
                 (Held(f) /\ Fresh(locks[f], clock) /\ locks'[f].holder # locks[f].holder)
                 => \/ Releasing(locks[f].holder, f)
                    \/ locks[f].holder \notin users']_vars
  BY <1>1, FreshLockStays DEF vars
<1>2. QED
  BY <1>1, LockInvariantAlways, PTL DEF Spec, LockRespected

-----------------------------------------------------------------------------
(***************************************************************************)
(* What viewers know.  EventsExplained speaks of settled viewers only; what *)
(* is inductive says of every viewer what it has been sent last and what is *)
(* still to come.                                                          *)
(***************************************************************************)

\* A step says nothing new about f: the announcements of f under way and the lock
\* are what they were.
Undisturbed(f) ==
    /\ \A h \in Handler : Broadcasting(h, f)' <=> Broadcasting(h, f)
    /\ \A h \in Handler : Broadcasting(h, f) => handling'[h].event = handling[h].event
    /\ JanitorTells(f)' <=> JanitorTells(f)
    /\ locks'[f] = locks[f]

\* Viewers stay informed through steps that say nothing new.
LEMMA UndisturbedInformed ==
    ASSUME NEW w \in Viewer, NEW f \in Floor, Informed(w, f), Undisturbed(f),
           Latest(w)' = Latest(w)
    PROVE  Informed(w, f)'
<1>1. LockState(f)' = LockState(f) /\ (Held(f)' <=> Held(f))
  BY DEF Undisturbed, LockState, Held
<1>2. \A h \in Handler : Broadcasting(h, f)' <=> Broadcasting(h, f)
  BY DEF Undisturbed
<1>3. \A h \in Handler : Broadcasting(h, f) => handling'[h].event = handling[h].event
  BY DEF Undisturbed
<1>4. JanitorTells(f)' <=> JanitorTells(f)
  BY DEF Undisturbed
<1>5. ASSUME NEW h \in Handler, Broadcasting(h, f)'
      PROVE  /\ handling'[h].event = LockState(f)'
             /\ ~JanitorTells(f)'
             /\ \A g \in Handler : Broadcasting(g, f)' => g = h
  BY <1>1, <1>2, <1>3, <1>4, <1>5 DEF Informed
<1>6. JanitorTells(f)' => ~Held(f)'
  BY <1>1, <1>4 DEF Informed
<1>7. \/ \E h \in Handler : Broadcasting(h, f)'
      \/ JanitorTells(f)'
      \/ Latest(w)' = LockState(f)'
  BY <1>1, <1>2, <1>4 DEF Informed
<1>8. QED
  BY <1>5, <1>6, <1>7 DEF Informed

\* Whoever can still rely on the events after others were marked was left alone.
LEMMA BlurSpares ==
    ASSUME LockInvariant, NEW fs, Blur(fs), NEW w \in Viewer, ~streams'[w].blurred
    PROVE  streams'[w] = streams[w] /\ streams[w].floor \notin fs
<1>1. streams[w] \in Stream
  BY DEF LockInvariant, LockTypeOK
<1>2. streams'[w] = IF streams[w].floor \in fs
                    THEN [streams[w] EXCEPT !.blurred = TRUE] ELSE streams[w]
  BY DEF Blur
<1>3. QED
  BY <1>1, <1>2 DEF Stream

\* Who is sent an event and can still rely on the events has it as its latest.
LEMMA BroadcastReaches ==
    ASSUME LockInvariant, NEW f, NEW event \in LockEvent, Broadcast(f, event),
           NEW w \in Viewer, ~streams'[w].blurred
    PROVE  /\ streams'[w].floor = streams[w].floor
           /\ ~streams[w].blurred
           /\ streams[w].floor = f => Latest(w)' = event
           /\ streams[w].floor # f => Latest(w)' = Latest(w)
<1>1. streams[w] \in Stream /\ streams[w].channel \in Seq(LockEvent)
  BY DEF LockInvariant, LockTypeOK, Stream
<1>2. CASE streams[w].floor # f
  <2>1. streams'[w] = streams[w]
    BY <1>2 DEF Broadcast
  <2>2. QED
    BY <1>2, <2>1 DEF Latest
<1>3. CASE streams[w].floor = f
  <2>1. Len(streams[w].channel) < Capacity
    <3>1. ASSUME ~(Len(streams[w].channel) < Capacity) PROVE FALSE
      <4>1. streams'[w] = [streams[w] EXCEPT !.blurred = TRUE]
        BY <1>3, <3>1 DEF Broadcast, Sent
      <4>2. QED
        BY <1>1, <4>1 DEF Stream
    <3>2. QED
      BY <3>1
  <2>2. streams'[w] = [streams[w] EXCEPT !.channel = Append(streams[w].channel, event)]
    BY <1>3, <2>1 DEF Broadcast, Sent
  <2>3. /\ streams'[w].channel = Append(streams[w].channel, event)
        /\ streams'[w].floor = streams[w].floor
        /\ streams'[w].blurred = streams[w].blurred
    BY <1>1, <2>2 DEF Stream
  <2>4. /\ Append(streams[w].channel, event) # <<>>
        /\ Append(streams[w].channel, event)[Len(Append(streams[w].channel, event))] = event
    BY <1>1
  <2>5. Latest(w)' = event
    BY <2>3, <2>4 DEF Latest
  <2>6. QED
    BY <1>3, <2>3, <2>5
<1>4. QED
  BY <1>2, <1>3

\* Requests go on meaning what they announce.
LEMMA GotoMeant ==
    ASSUME LockInvariant, EventsMeant, NEW h \in Handler, NEW task \in Task,
           Goto(h, task),
           task.step = "acquire" => task.event = LockedBy(task.user),
           task.step = "release" => task.event = Unlocked
    PROVE  EventsMeant'
<1>1. /\ handling'[h] = task
      /\ \A g \in Handler : g # h => handling'[g] = handling[g]
  BY GotoTask DEF LockInvariant, LockTypeOK
<1>2. QED
  BY <1>1 DEF EventsMeant

\* A request that was not announcing and does not begin to says nothing new.
LEMMA GotoQuietly ==
    ASSUME LockInvariant, NEW h \in Handler, NEW task \in Task, Goto(h, task),
           handling[h].step # "broadcast", task.step # "broadcast",
           UNCHANGED janitor, NEW f \in Floor, locks'[f] = locks[f]
    PROVE  Undisturbed(f)
<1>1. /\ handling'[h] = task
      /\ \A g \in Handler : g # h => handling'[g] = handling[g]
  BY GotoTask DEF LockInvariant, LockTypeOK
<1>2. ASSUME NEW g \in Handler
      PROVE  /\ Broadcasting(g, f)' <=> Broadcasting(g, f)
             /\ Broadcasting(g, f) => handling'[g].event = handling[g].event
  <2>1. CASE g = h
    BY <1>1, <2>1 DEF Broadcasting
  <2>2. CASE g # h
    BY <1>1, <2>2 DEF Broadcasting
  <2>3. QED
    BY <2>1, <2>2
<1>3. QED
  BY <1>2 DEF Undisturbed, JanitorTells

\* Steps that leave streams alone and say nothing new keep everybody informed.
LEMMA QuietStepInforms ==
    ASSUME ViewersInformed, UNCHANGED streams, \A f \in Floor : Undisturbed(f)
    PROVE  ViewersInformed'
<1>1. SUFFICES ASSUME NEW w \in Viewer, NEW f \in Floor,
                      streams[w].floor = f, ~streams[w].blurred
               PROVE  Informed(w, f)'
  BY DEF ViewersInformed
<1>2. Informed(w, f) /\ Undisturbed(f)
  BY <1>1 DEF ViewersInformed
<1>3. Latest(w)' = Latest(w)
  BY DEF Latest
<1>4. QED
  BY <1>2, <1>3, UndisturbedInformed

\* Steps that mark the viewers of every floor they say something new about.
LEMMA BlurringStepInforms ==
    ASSUME LockInvariant, ViewersInformed, NEW fs, Blur(fs),
           \A f \in Floor : f \notin fs => Undisturbed(f)
    PROVE  ViewersInformed'
<1>1. SUFFICES ASSUME NEW w \in Viewer, NEW f \in Floor,
                      streams'[w].floor = f, ~streams'[w].blurred
               PROVE  Informed(w, f)'
  BY DEF ViewersInformed
<1>2. streams'[w] = streams[w] /\ f \notin fs
  BY <1>1, BlurSpares
<1>3. Informed(w, f) /\ Undisturbed(f)
  BY <1>1, <1>2 DEF ViewersInformed
<1>4. Latest(w)' = Latest(w)
  BY <1>2 DEF Latest
<1>5. QED
  BY <1>3, <1>4, UndisturbedInformed

\* A request begins to announce: either it is the only one, with the state of the
\* lock, or the viewers of its floor are marked.
LEMMA AnnouncementBegins ==
    ASSUME LockInvariant, ViewersInformed, NEW h \in Handler, NEW f \in Floor,
           NEW next \in Task, Goto(h, next), handling[h].step # "broadcast",
           next.step = "broadcast", next.floor = f, UNCHANGED janitor,
           \A g \in Floor : g # f => locks'[g] = locks[g],
           \/ Blur({f})
           \/ UNCHANGED streams /\ ~Announcing(f) /\ next.event = LockState(f)'
    PROVE  ViewersInformed'
<1>1. /\ handling'[h] = next
      /\ \A g \in Handler : g # h => handling'[g] = handling[g]
  BY GotoTask DEF LockInvariant, LockTypeOK
<1>2. ASSUME NEW e \in Floor, e # f PROVE Undisturbed(e)
  <2>1. ASSUME NEW g \in Handler
        PROVE  /\ Broadcasting(g, e)' <=> Broadcasting(g, e)
               /\ Broadcasting(g, e) => handling'[g].event = handling[g].event
    <3>1. CASE g = h
      BY <1>1, <1>2, <3>1 DEF Broadcasting
    <3>2. CASE g # h
      BY <1>1, <3>2 DEF Broadcasting
    <3>3. QED
      BY <3>1, <3>2
  <2>2. QED
    BY <1>2, <2>1 DEF Undisturbed, JanitorTells
<1>3. CASE Blur({f})
  BY <1>2, <1>3, BlurringStepInforms
<1>4. CASE UNCHANGED streams /\ ~Announcing(f) /\ next.event = LockState(f)'
  <2>1. SUFFICES ASSUME NEW w \in Viewer, NEW e \in Floor,
                        streams[w].floor = e, ~streams[w].blurred
                 PROVE  Informed(w, e)'
    BY <1>4 DEF ViewersInformed
  <2>2. CASE e # f
    <3>1. Informed(w, e) /\ Undisturbed(e) /\ Latest(w)' = Latest(w)
      BY <1>2, <1>4, <2>1, <2>2 DEF ViewersInformed, Latest
    <3>2. QED
      BY <3>1, UndisturbedInformed
  <2>3. CASE e = f
    <3>1. ~JanitorTells(f)'
      BY <1>4 DEF Announcing, JanitorTells
    <3>2. \A g \in Handler : Broadcasting(g, f)' <=> g = h
      BY <1>1, <1>4 DEF Announcing, Broadcasting
    <3>3. QED
      BY <1>1, <1>4, <2>3, <3>1, <3>2 DEF Informed
  <2>4. QED
    BY <2>2, <2>3
<1>5. QED
  BY <1>3, <1>4

\* POST of a lock, begun and committed.
LEMMA AcquireInforms ==
    ASSUME EventsInvariant, NEW h \in Handler,
           (\E u \in User, f \in Floor : AcquireBegin(h, u, f)) \/ AcquireCommit(h)
    PROVE  EventsMeant' /\ ViewersInformed'
<1>1. LockInvariant /\ EventsMeant /\ ViewersInformed
  BY DEF EventsInvariant
<1>2. ASSUME NEW u \in User, NEW f \in Floor, AcquireBegin(h, u, f)
      PROVE  EventsMeant' /\ ViewersInformed'
  <2>1. DEFINE task == [step |-> "acquire", user |-> u, floor |-> f, now |-> clock,
                        event |-> LockedBy(u)]
  <2>2. task \in Task
    BY <1>1, LockAssumption DEF LockInvariant, LockTypeOK, Task, Time, LockedBy, LockEvent
  <2>3. /\ Goto(h, task) /\ UNCHANGED <<clock, users, locks, janitor, grants, streams>>
        /\ handling[h].step # "broadcast"
    BY <1>2 DEF AcquireBegin
  <2>4. /\ task.step = "acquire" /\ task.event = LockedBy(task.user)
        /\ task.step # "broadcast"
    OBVIOUS
  <2>5. HIDE DEF task
  <2>6. EventsMeant'
    BY <1>1, <2>2, <2>3, <2>4, GotoMeant
  <2>7. \A g \in Floor : Undisturbed(g)
    BY <1>1, <2>2, <2>3, <2>4, GotoQuietly
  <2>8. QED
    BY <1>1, <2>3, <2>6, <2>7, QuietStepInforms
<1>3. CASE AcquireCommit(h)
  <2>f. PICK f \in Floor : f = handling[h].floor
    BY <1>1, <1>3 DEF AcquireCommit, LockInvariant, TasksAddressed
  <2>1. DEFINE task == handling[h]
               lock == [holder |-> task.user, expires |-> task.now + TTL]
               next == [task EXCEPT !.step = "broadcast", !.now = 0]
  <2>2. /\ task \in Task /\ task.step = "acquire" /\ UNCHANGED <<clock, users, janitor>>
        /\ task.user \in User /\ task.event = LockedBy(task.user)
    BY <1>1, <1>3
    DEF AcquireCommit, LockInvariant, LockTypeOK, TasksAddressed, EventsMeant
  <2>3. CASE Refused(task) \/ task.user \notin users
    <3>1. Goto(h, NoTask) /\ UNCHANGED <<locks, grants, streams>>
      BY <1>3, <2>3 DEF AcquireCommit
    <3>2. EventsMeant'
      BY <1>1, <3>1, LockConstants, GotoMeant
    <3>3. \A g \in Floor : Undisturbed(g)
      BY <1>1, <2>2, <3>1, LockConstants, GotoQuietly
    <3>4. QED
      BY <1>1, <3>1, <3>2, <3>3, QuietStepInforms
  <2>4. CASE ~Refused(task) /\ task.user \in users
    <3>1. /\ locks' = [locks EXCEPT ![f] = lock]
          /\ Goto(h, next)
          /\ IF Announcing(f) THEN Blur({f}) ELSE UNCHANGED streams
      BY <1>3, <2>f, <2>4 DEF AcquireCommit
    <3>2. /\ next \in Task /\ next.step = "broadcast" /\ next.floor = f
          /\ next.event = LockedBy(task.user)
      BY <2>f, <2>2, LockConstants DEF Task
    <3>3. /\ locks'[f].holder = task.user
          /\ \A g \in Floor : g # f => locks'[g] = locks[g]
      BY <1>1, <2>2, <3>1 DEF LockInvariant, LockTypeOK
    <3>4. next.event = LockState(f)'
      BY <2>2, <3>2, <3>3, LockAssumption DEF LockState, Held
    <3>5. HIDE DEF next
    <3>6. EventsMeant'
      BY <1>1, <3>1, <3>2, GotoMeant
    <3>7. ViewersInformed'
      BY <1>1, <2>2, <3>1, <3>2, <3>3, <3>4, AnnouncementBegins
    <3>8. QED
      BY <3>6, <3>7
  <2>5. QED
    BY <2>3, <2>4
<1>4. QED
  BY <1>2, <1>3

\* DELETE of a lock: a release by who does not hold the lock marks the viewers,
\* for it is announced all the same.
LEMMA ReleaseInforms ==
    ASSUME EventsInvariant, NEW h \in Handler,
           (\E u \in User, f \in Floor : ReleaseBegin(h, u, f)) \/ ReleaseCommit(h)
    PROVE  EventsMeant' /\ ViewersInformed'
<1>1. LockInvariant /\ EventsMeant /\ ViewersInformed
  BY DEF EventsInvariant
<1>2. ASSUME NEW u \in User, NEW f \in Floor, ReleaseBegin(h, u, f)
      PROVE  EventsMeant' /\ ViewersInformed'
  <2>1. DEFINE task == [NoTask EXCEPT !.step = "release", !.user = u, !.floor = f]
  <2>2. task \in Task /\ task.step = "release" /\ task.event = Unlocked
    BY LockConstants DEF NoTask, Task
  <2>3. /\ Goto(h, task) /\ UNCHANGED <<clock, users, locks, janitor, streams>>
        /\ handling[h].step # "broadcast"
    BY <1>2 DEF ReleaseBegin
  <2>4. HIDE DEF task
  <2>5. EventsMeant'
    BY <1>1, <2>2, <2>3, GotoMeant
  <2>6. \A g \in Floor : Undisturbed(g)
    BY <1>1, <2>2, <2>3, GotoQuietly
  <2>7. QED
    BY <1>1, <2>3, <2>5, <2>6, QuietStepInforms
<1>3. CASE ReleaseCommit(h)
  <2>f. PICK f \in Floor : f = handling[h].floor
    BY <1>1, <1>3 DEF ReleaseCommit, LockInvariant, TasksAddressed
  <2>1. DEFINE task == handling[h]
               mine == locks[f].holder = task.user
               next == [task EXCEPT !.step = "broadcast"]
  <2>2. /\ task \in Task /\ task.step = "release" /\ UNCHANGED janitor
        /\ task.event = Unlocked
        /\ Goto(h, next)
        /\ locks' = IF mine THEN [locks EXCEPT ![f] = NoLock] ELSE locks
        /\ IF Announcing(f) \/ (Held(f) /\ ~mine) THEN Blur({f}) ELSE UNCHANGED streams
    BY <1>1, <1>3, <2>f
    DEF ReleaseCommit, LockInvariant, LockTypeOK, TasksAddressed, EventsMeant
  <2>3. /\ next \in Task /\ next.step = "broadcast" /\ next.floor = f
        /\ next.event = Unlocked
    BY <2>f, <2>2 DEF Task
  <2>4. /\ \A g \in Floor : g # f => locks'[g] = locks[g]
        /\ mine => locks'[f] = NoLock
        /\ ~mine => locks'[f] = locks[f]
    BY <1>1, <2>2 DEF LockInvariant, LockTypeOK
  <2>5. ~(Held(f) /\ ~mine) => next.event = LockState(f)'
    BY <2>3, <2>4, LockConstants DEF LockState, Held
  <2>6. EventsMeant'
    <3>1. HIDE DEF next
    <3>2. QED
      BY <1>1, <2>2, <2>3, GotoMeant
  <2>7. ViewersInformed'
    <3>1. \/ Blur({f})
          \/ UNCHANGED streams /\ ~Announcing(f) /\ next.event = LockState(f)'
      BY <2>2, <2>5
    <3>2. HIDE DEF next, mine
    <3>3. QED
      BY <1>1, <2>2, <2>3, <2>4, <3>1, AnnouncementBegins
  <2>8. QED
    BY <2>6, <2>7
<1>4. QED
  BY <1>2, <1>3

\* A reader that finds an expired lock deletes it without a word, so the viewers
\* of its floor are marked.
LEMMA ExpiryInforms ==
    ASSUME EventsInvariant, NEW h \in Handler,
           (\E f \in Floor : GetExpired(h, f)) \/ DeleteExpired(h)
    PROVE  EventsMeant' /\ ViewersInformed'
<1>1. LockInvariant /\ EventsMeant /\ ViewersInformed
  BY DEF EventsInvariant
<1>2. ASSUME NEW f \in Floor, GetExpired(h, f)
      PROVE  EventsMeant' /\ ViewersInformed'
  <2>1. DEFINE task == [NoTask EXCEPT !.step = "expire", !.floor = f, !.now = clock]
  <2>2. task \in Task /\ task.step = "expire"
    <3>1. clock \in Time
      BY <1>1, LockAssumption DEF LockInvariant, LockTypeOK, Time
    <3>2. QED
      BY <3>1, LockConstants DEF NoTask, Task
  <2>3. /\ Goto(h, task) /\ UNCHANGED <<clock, users, locks, janitor, streams>>
        /\ handling[h].step # "broadcast"
    BY <1>2 DEF GetExpired
  <2>4. HIDE DEF task
  <2>5. EventsMeant'
    BY <1>1, <2>2, <2>3, GotoMeant
  <2>6. \A g \in Floor : Undisturbed(g)
    BY <1>1, <2>2, <2>3, GotoQuietly
  <2>7. QED
    BY <1>1, <2>3, <2>5, <2>6, QuietStepInforms
<1>3. CASE DeleteExpired(h)
  <2>1. DEFINE f == handling[h].floor
               gone == Held(f) /\ ~Fresh(locks[f], handling[h].now)
  <2>2. /\ handling[h].step = "expire" /\ f \in Floor
        /\ locks' = IF gone THEN [locks EXCEPT ![f] = NoLock] ELSE locks
        /\ IF gone THEN Blur({f}) ELSE UNCHANGED streams
        /\ Goto(h, NoTask)
        /\ UNCHANGED janitor
    BY <1>1, <1>3 DEF DeleteExpired, LockInvariant, TasksAddressed
  <2>3. EventsMeant'
    BY <1>1, <2>2, LockConstants, GotoMeant
  <2>4. CASE gone
    <3>1. \A g \in Floor : g # f => locks'[g] = locks[g]
      BY <1>1, <2>2, <2>4 DEF LockInvariant, LockTypeOK
    <3>2. \A g \in Floor : g # f => Undisturbed(g)
      BY <1>1, <2>2, <3>1, LockConstants, GotoQuietly
    <3>3. QED
      BY <1>1, <2>2, <2>3, <2>4, <3>2, BlurringStepInforms
  <2>5. CASE ~gone
    <3>1. \A g \in Floor : Undisturbed(g)
      BY <1>1, <2>2, <2>5, LockConstants, GotoQuietly
    <3>2. QED
      BY <1>1, <2>2, <2>3, <2>5, <3>1, QuietStepInforms
  <2>6. QED
    BY <2>4, <2>5
<1>4. QED
  BY <1>2, <1>3

\* The handler's broadcast brings who can still rely on the events up to date.
LEMMA AnnounceInforms ==
    ASSUME EventsInvariant, NEW h \in Handler, Announce(h)
    PROVE  EventsMeant' /\ ViewersInformed'
<1>1. LockInvariant /\ EventsMeant /\ ViewersInformed
  BY DEF EventsInvariant
<1>2. DEFINE f == handling[h].floor
             event == handling[h].event
<1>3. /\ event \in LockEvent /\ f \in Floor /\ Broadcasting(h, f)
      /\ Broadcast(f, event) /\ Goto(h, NoTask)
      /\ UNCHANGED <<locks, janitor>>
  BY <1>1 DEF Announce, LockInvariant, LockTypeOK, TasksAddressed, Task, Broadcasting
<1>4. EventsMeant'
  BY <1>1, <1>3, LockConstants, GotoMeant
<1>5. /\ handling'[h] = NoTask
      /\ \A g \in Handler : g # h => handling'[g] = handling[g]
  BY <1>1, <1>3, LockConstants, GotoTask DEF LockInvariant, LockTypeOK
<1>6. HIDE DEF f, event
<1>7. ViewersInformed'
  <2>1. SUFFICES ASSUME NEW w \in Viewer, NEW e \in Floor,
                        streams'[w].floor = e, ~streams'[w].blurred
                 PROVE  Informed(w, e)'
    BY DEF ViewersInformed
  <2>2. /\ streams[w].floor = e /\ ~streams[w].blurred
        /\ e = f => Latest(w)' = event
        /\ e # f => Latest(w)' = Latest(w)
    BY <1>1, <1>3, <2>1, BroadcastReaches
  <2>3. Informed(w, e)
    BY <1>1, <2>2 DEF ViewersInformed
  <2>4. LockState(e)' = LockState(e) /\ JanitorTells(e)' = JanitorTells(e)
    BY <1>3 DEF LockState, Held, JanitorTells
  <2>5. CASE e = f
    <3>1. event = LockState(f) /\ ~JanitorTells(f)
      BY <1>3, <2>3, <2>5 DEF Informed, event
    <3>2. \A g \in Handler : ~Broadcasting(g, e)'
      <4>1. \A g \in Handler : Broadcasting(g, e) => g = h
        BY <1>3, <2>3, <2>5 DEF Informed
      <4>2. QED
        BY <1>5, <4>1, LockConstants DEF Broadcasting
    <3>3. QED
      BY <2>2, <2>4, <2>5, <3>1, <3>2 DEF Informed
  <2>6. CASE e # f
    <3>1. \A g \in Handler : /\ Broadcasting(g, e)' <=> Broadcasting(g, e)
                             /\ Broadcasting(g, e) => handling'[g].event = handling[g].event
      BY <1>3, <1>5, <2>6, LockConstants DEF Broadcasting
    <3>2. Undisturbed(e)
      BY <1>3, <2>4, <3>1 DEF Undisturbed
    <3>3. QED
      BY <2>2, <2>3, <2>6, <3>2, UndisturbedInformed
  <2>7. QED
    BY <2>5, <2>6
<1>8. QED
  BY <1>4, <1>7

\* The janitor: it marks the viewers of every floor whose lock it has deleted
\* without having found it, or has found and not deleted.
LEMMA JanitorInforms ==
    ASSUME EventsInvariant, Janitor
    PROVE  EventsMeant' /\ ViewersInformed'
<1>1. LockInvariant /\ EventsMeant /\ ViewersInformed
  BY DEF EventsInvariant
<1>2. UNCHANGED handling
  BY DEF Janitor, JanitorRead, JanitorDelete, JanitorAnnounce
<1>3. EventsMeant'
  BY <1>1, <1>2 DEF EventsMeant
<1>4. \A h \in Handler, f \in Floor : Broadcasting(h, f)' <=> Broadcasting(h, f)
  BY <1>2 DEF Broadcasting
<1>5. CASE JanitorRead
  <2>1. /\ janitor.step = "idle" /\ janitor'.step = "delete"
        /\ UNCHANGED <<locks, streams>>
    BY <1>5 DEF JanitorRead
  <2>2. \A f \in Floor : Undisturbed(f)
    BY <1>2, <1>4, <2>1 DEF Undisturbed, JanitorTells
  <2>3. QED
    BY <1>1, <1>3, <2>1, <2>2, QuietStepInforms
<1>6. CASE JanitorDelete
  <2>1. DEFINE gone == {f \in Floor : Held(f) /\ ~Fresh(locks[f], janitor.now)}
               fs == {f \in gone \cup janitor.found :
                         \/ f \notin gone \cap janitor.found
                         \/ \E h \in Handler : /\ handling[h].step = "broadcast"
                                               /\ handling[h].floor = f}
  <2>2. /\ janitor.step = "delete"
        /\ locks' = [f \in Floor |-> IF f \in gone THEN NoLock ELSE locks[f]]
        /\ Blur(fs)
        /\ janitor' = [janitor EXCEPT !.step = "broadcast"]
    BY <1>6 DEF JanitorDelete
  <2>3. janitor'.step = "broadcast" /\ janitor'.found = janitor.found
    BY <1>1, <2>2 DEF LockInvariant, LockTypeOK
  <2>4. \A f \in Floor : /\ f \in gone => locks'[f] = NoLock
                         /\ f \notin gone => locks'[f] = locks[f]
    BY <2>2
  <2>5. \A f \in Floor : f \notin fs =>
            \/ f \in gone /\ f \in janitor.found /\ \A h \in Handler : ~Broadcasting(h, f)
            \/ f \notin gone /\ f \notin janitor.found
    BY DEF Broadcasting
  <2>6. HIDE DEF gone, fs
  <2>7. SUFFICES ASSUME NEW w \in Viewer, NEW f \in Floor,
                        streams'[w].floor = f, ~streams'[w].blurred
                 PROVE  Informed(w, f)'
    BY <1>3 DEF ViewersInformed
  <2>8. /\ streams'[w] = streams[w] /\ f \notin fs
    BY <1>1, <2>2, <2>7, BlurSpares
  <2>9. Informed(w, f) /\ Latest(w)' = Latest(w)
    BY <1>1, <2>7, <2>8 DEF ViewersInformed, Latest
  <2>10. CASE f \in gone /\ f \in janitor.found /\ \A h \in Handler : ~Broadcasting(h, f)
    <3>1. JanitorTells(f)' /\ ~Held(f)'
      BY <2>3, <2>4, <2>10, LockConstants DEF JanitorTells, Held
    <3>2. QED
      BY <1>4, <2>10, <3>1 DEF Informed
  <2>11. CASE f \notin gone /\ f \notin janitor.found
    <3>1. Undisturbed(f)
      BY <1>2, <1>4, <2>2, <2>3, <2>4, <2>11 DEF Undisturbed, JanitorTells
    <3>2. QED
      BY <2>9, <3>1, UndisturbedInformed
  <2>12. QED
    BY <2>5, <2>8, <2>10, <2>11
<1>7. ASSUME NEW f \in Floor, JanitorAnnounce(f) PROVE ViewersInformed'
  <2>1. /\ JanitorTells(f) /\ Broadcast(f, Unlocked) /\ UNCHANGED locks
        /\ Unlocked \in LockEvent
    BY <1>7 DEF JanitorAnnounce, JanitorTells, Unlocked, LockEvent
  <2>2. \A e \in Floor : JanitorTells(e)' <=> JanitorTells(e) /\ e # f
    <3>1. CASE janitor.found = {f}
      <4>1. janitor'.step = "idle"
        BY <1>7, <3>1 DEF JanitorAnnounce
      <4>2. QED
        BY <3>1, <4>1 DEF JanitorTells
    <3>2. CASE janitor.found # {f}
      <4>1. janitor' = [janitor EXCEPT !.found = @ \ {f}]
        BY <1>7, <3>2 DEF JanitorAnnounce
      <4>2. janitor'.step = janitor.step /\ janitor'.found = janitor.found \ {f}
        BY <1>1, <4>1 DEF LockInvariant, LockTypeOK
      <4>3. QED
        BY <4>2 DEF JanitorTells
    <3>3. QED
      BY <3>1, <3>2
  <2>3. SUFFICES ASSUME NEW w \in Viewer, NEW e \in Floor,
                        streams'[w].floor = e, ~streams'[w].blurred
                 PROVE  Informed(w, e)'
    BY DEF ViewersInformed
  <2>4. /\ streams[w].floor = e /\ ~streams[w].blurred
        /\ e = f => Latest(w)' = Unlocked
        /\ e # f => Latest(w)' = Latest(w)
    BY <1>1, <2>1, <2>3, BroadcastReaches
  <2>5. Informed(w, e)
    BY <1>1, <2>4 DEF ViewersInformed
  <2>6. CASE e = f
    <3>1. ~Held(f) /\ LockState(f)' = Unlocked /\ \A h \in Handler : ~Broadcasting(h, f)
      BY <2>1, <2>5, <2>6 DEF Informed, LockState, Held
    <3>2. QED
      BY <1>4, <2>2, <2>4, <2>6, <3>1 DEF Informed
  <2>7. CASE e # f
    <3>1. Undisturbed(e)
      BY <1>2, <1>4, <2>1, <2>2, <2>7 DEF Undisturbed
    <3>2. QED
      BY <2>4, <2>5, <2>7, <3>1, UndisturbedInformed
  <2>8. QED
    BY <2>6, <2>7
<1>8. QED
  BY <1>3, <1>5, <1>6, <1>7 DEF Janitor

\* Deleting an account marks the viewers of the floors it had locked.
LEMMA DeleteUserInforms ==
    ASSUME EventsInvariant, NEW u \in User, DeleteUser(u)
    PROVE  EventsMeant' /\ ViewersInformed'
<1>1. LockInvariant /\ EventsMeant /\ ViewersInformed
  BY DEF EventsInvariant
<1>2. DEFINE freed == {f \in Floor : locks[f].holder = u}
<1>3. /\ locks' = [f \in Floor |-> IF f \in freed THEN NoLock ELSE locks[f]]
      /\ Blur(freed)
      /\ UNCHANGED <<handling, janitor>>
  BY DEF DeleteUser
<1>4. EventsMeant'
  BY <1>1, <1>3 DEF EventsMeant
<1>5. \A f \in Floor : f \notin freed => Undisturbed(f)
  BY <1>3 DEF Undisturbed, Broadcasting, JanitorTells
<1>6. HIDE DEF freed
<1>7. QED
  BY <1>1, <1>3, <1>4, <1>5, BlurringStepInforms

\* The empty sequence is the only one without elements.
LEMMA EmptyHasNone ==
    ASSUME NEW S, NEW s \in Seq(S)
    PROVE  s = <<>> <=> Len(s) = 0
OBVIOUS

\* A sequence without its head ends as it did, unless the head was all.
LEMMA TailEndsAlike ==
    ASSUME NEW S, NEW c \in Seq(S), c # <<>>
    PROVE  IF Tail(c) = <<>> THEN Head(c) = c[Len(c)]
           ELSE Tail(c)[Len(Tail(c))] = c[Len(c)]
<1>1. Len(c) \in Nat \ {0} /\ Tail(c) \in Seq(S) /\ Len(Tail(c)) = Len(c) - 1
  OBVIOUS
<1>2. CASE Len(c) = 1
  <2>1. Tail(c) = <<>>
    <3>1. Len(Tail(c)) = 0
      BY <1>1, <1>2
    <3>2. QED
      BY <1>1, <3>1, EmptyHasNone
  <2>2. Head(c) = c[1]
    OBVIOUS
  <2>3. QED
    BY <1>2, <2>1, <2>2
<1>3. CASE Len(c) # 1
  <2>1. Tail(c) # <<>>
    <3>1. Len(Tail(c)) # 0
      BY <1>1, <1>3
    <3>2. QED
      BY <1>1, <3>1, EmptyHasNone
  <2>2. Len(c) - 1 \in 1..Len(Tail(c))
    BY <1>1, <1>3
  <2>3. Tail(c)[Len(c) - 1] = c[Len(c)]
    BY <1>1, <2>2
  <2>4. QED
    BY <1>1, <2>1, <2>3
<1>4. QED
  BY <1>2, <1>3

\* A viewer subscribes, is sent the next event, or goes.
LEMMA ViewerInformed ==
    ASSUME EventsInvariant, NEW v \in Viewer,
           (\E f \in Floor : Subscribe(v, f)) \/ Deliver(v) \/ Unsubscribe(v)
    PROVE  EventsMeant' /\ ViewersInformed'
<1>1. LockInvariant /\ EventsMeant /\ ViewersInformed
  BY DEF EventsInvariant
<1>2. UNCHANGED <<locks, handling, janitor>> /\ streams \in [Viewer -> Stream]
  BY <1>1 DEF Subscribe, Deliver, Unsubscribe, LockInvariant, LockTypeOK
<1>3. EventsMeant'
  BY <1>1, <1>2 DEF EventsMeant
<1>4. \A f \in Floor : Undisturbed(f)
  BY <1>2 DEF Undisturbed, Broadcasting, JanitorTells
<1>5. \A w \in Viewer : w # v => streams'[w] = streams[w]
  BY <1>2 DEF Subscribe, Deliver, Unsubscribe
<1>6. SUFFICES ASSUME NEW w \in Viewer, NEW e \in Floor,
                      streams'[w].floor = e, ~streams'[w].blurred
               PROVE  Informed(w, e)'
  BY <1>3 DEF ViewersInformed
<1>7. CASE w # v
  <2>1. Informed(w, e) /\ Undisturbed(e) /\ Latest(w)' = Latest(w)
    BY <1>1, <1>4, <1>5, <1>6, <1>7 DEF ViewersInformed, Latest
  <2>2. QED
    BY <2>1, UndisturbedInformed
<1>8. ASSUME w = v, NEW f \in Floor, Subscribe(v, f) PROVE Informed(w, e)'
  <2>1. DEFINE s == [floor |-> f, channel |-> <<>>, told |-> LockState(f),
                     blurred |-> Announcing(f)]
  <2>2. streams'[w] = s
    BY <1>2, <1>8 DEF Subscribe
  <2>3. /\ e = f /\ ~Announcing(f)
        /\ Latest(w)' = LockState(f)
    BY <1>6, <2>2 DEF Latest
  <2>4. (\A h \in Handler : ~Broadcasting(h, e)') /\ ~JanitorTells(e)'
    BY <1>2, <2>3 DEF Announcing, Broadcasting, JanitorTells
  <2>5. LockState(e)' = LockState(e)
    BY <1>2 DEF LockState, Held
  <2>6. QED
    BY <2>3, <2>4, <2>5 DEF Informed
<1>9. ASSUME w = v, Deliver(v) PROVE Informed(w, e)'
  <2>1. DEFINE c == streams[w].channel
  <2>2. c \in Seq(LockEvent) /\ c # <<>> /\ streams[w] \in Stream
    BY <1>2, <1>9 DEF Deliver, Stream
  <2>3. streams'[w] = [streams[w] EXCEPT !.told = Head(c), !.channel = Tail(c)]
    BY <1>2, <1>9 DEF Deliver
  <2>4. /\ streams'[w].told = Head(c) /\ streams'[w].channel = Tail(c)
        /\ streams'[w].floor = streams[w].floor
        /\ streams'[w].blurred = streams[w].blurred
    BY <2>2, <2>3 DEF Stream
  <2>5. IF Tail(c) = <<>> THEN Head(c) = c[Len(c)] ELSE Tail(c)[Len(Tail(c))] = c[Len(c)]
    BY <2>2, TailEndsAlike
  <2>6. HIDE DEF c
  <2>7. Latest(w)' = Latest(w)
    BY <2>2, <2>4, <2>5 DEF Latest, c
  <2>8. Informed(w, e)
    BY <1>1, <1>6, <2>4 DEF ViewersInformed
  <2>9. QED
    BY <1>4, <2>7, <2>8, UndisturbedInformed
<1>10. ASSUME w = v, Unsubscribe(v) PROVE Informed(w, e)'
  <2>1. streams'[w] = NoStream
    BY <1>2, <1>10 DEF Unsubscribe
  <2>2. QED
    BY <1>6, <2>1, LockAssumption DEF NoStream
<1>11. QED
  BY <1>7, <1>8, <1>9, <1>10

\* Nobody watches and nothing is announced at first.
LEMMA EventsInit == Init => EventsInvariant
<1>1. SUFFICES ASSUME Init PROVE EventsMeant /\ ViewersInformed
  BY LockInit DEF EventsInvariant
<1>2. EventsMeant
  BY <1>1, LockConstants DEF Init, EventsMeant
<1>3. ViewersInformed
  BY <1>1, LockAssumption DEF Init, ViewersInformed, NoStream
<1>4. QED
  BY <1>2, <1>3

\* Every step keeps the viewers informed.
LEMMA EventsStep == EventsInvariant /\ [Next]_vars => EventsInvariant'
<1> SUFFICES ASSUME EventsInvariant, [Next]_vars PROVE EventsMeant' /\ ViewersInformed'
  BY LockStep DEF EventsInvariant
<1>1. EventsMeant /\ ViewersInformed
  BY DEF EventsInvariant
<1>2. CASE Tick \/ UNCHANGED vars
  <2>1. UNCHANGED <<locks, handling, janitor, streams>>
    BY <1>2 DEF Tick, vars
  <2>2. EventsMeant'
    BY <1>1, <2>1 DEF EventsMeant
  <2>3. \A f \in Floor : Undisturbed(f)
    BY <2>1 DEF Undisturbed, Broadcasting, JanitorTells
  <2>4. QED
    BY <1>1, <2>1, <2>2, <2>3, QuietStepInforms
<1>3. ASSUME NEW h \in Handler, Request(h) PROVE EventsMeant' /\ ViewersInformed'
  BY <1>3, AcquireInforms, ReleaseInforms, ExpiryInforms, AnnounceInforms DEF Request
<1>4. CASE Janitor
  BY <1>4, JanitorInforms
<1>5. ASSUME NEW u \in User, DeleteUser(u) PROVE EventsMeant' /\ ViewersInformed'
  BY <1>5, DeleteUserInforms
<1>6. ASSUME NEW w \in Viewer,
             (\E f \in Floor : Subscribe(w, f)) \/ Deliver(w) \/ Unsubscribe(w)
      PROVE  EventsMeant' /\ ViewersInformed'
  BY <1>6, ViewerInformed
<1>7. QED
  BY <1>2, <1>3, <1>4, <1>5, <1>6 DEF Next

\* A viewer's picture of the lock is wrong only for the reasons the history
\* names, whatever the number of requests, viewers and the size of channels.
THEOREM EventsAlwaysExplained == Spec => []EventsExplained
<1>1. EventsInvariant => EventsExplained
  <2>1. SUFFICES ASSUME EventsInvariant, NEW w \in Viewer, NEW f \in Floor,
                        Settled(w, f), ~streams[w].blurred
                 PROVE  streams[w].told = LockState(f)
    BY DEF EventsExplained
  <2>2. Informed(w, f)
    BY <2>1 DEF EventsInvariant, ViewersInformed, Settled
  <2>3. (\A h \in Handler : ~Broadcasting(h, f)) /\ ~JanitorTells(f)
    BY <2>1 DEF Settled, Announcing, Broadcasting, JanitorTells
  <2>4. Latest(w) = LockState(f)
    BY <2>2, <2>3 DEF Informed
  <2>5. QED
    BY <2>1, <2>4 DEF Settled, Latest
<1>2. QED
  BY <1>1, EventsInit, EventsStep, PTL DEF Spec
=============================================================================
