--------------------------- MODULE AutoLock_proofs ---------------------------
(***************************************************************************)
(* What holds of AutoLock for every set of workers, every choice of        *)
(* timeouts and every poll interval.                                       *)
(***************************************************************************)
EXTENDS AutoLock, SequenceTheorems, TLAPS

\* While the watchdog sleeps, an open vault has been idle for less than the
\* timeout when the sleep began.
ClockOK ==
    unlocked /\ ~BeingOpened /\ watchdog = "asleep" => idle < limit + wake

IInv == TypeOK /\ ItemKeepsVault /\ ClockOK

----------------------------------------------------------------------------
(* Types of the pieces the actions share *)

\* Whatever the file holds, the settings loaded from it are within the clamp.
LEMMA LoadType == \A file : Load(file) \in Timeouts
BY TimeoutsAssumption DEF Load

\* An idle worker's task is typed.
LEMMA NoTaskType ==
    NoTask \in [cmd : Command \cup {"none"}, step : Step, val : Timeouts]
BY TimeoutsAssumption DEF NoTask, Step

\* A clock that advances stays within its bound and advances by at most one.
LEMMA LaterType ==
    ASSUME NEW clock \in 0 .. Cap
    PROVE  Later(clock) \in 0 .. Cap /\ Later(clock) <= clock + 1
BY BoundsAssumption DEF Later

\* Mounting the vault screen appends two commands to the queue.
LEMMA MountType ==
    ASSUME TypeOK, MountVault
    PROVE  queue' \in Seq(Command) /\ screen' = "vault" /\ uiTimeout' \in Timeouts /\ away' = 0
<1>1. <<"item", "get">> \in Seq(Command)
  BY DEF Command
<1>2. queue' \in Seq(Command)
  BY <1>1, ConcatProperties DEF TypeOK, MountVault
<1>3. QED
  BY <1>2, TimeoutsAssumption DEF MountVault

\* A worker that takes, finishes or moves on in its task opens no other session.
LEMMA NobodyElseOpens ==
    ASSUME TypeOK, NEW w \in Workers, NEW t, task' = [task EXCEPT ![w] = t],
           ~At(w, Opening, "touch"), ~BeingOpened'
    PROVE  ~BeingOpened
BY DEF BeingOpened, At, TypeOK

----------------------------------------------------------------------------
(* The invariant holds initially *)

\* Every program start satisfies the invariant.
LEMMA InitInvariant == Init => IInv
<1> SUFFICES ASSUME Init PROVE IInv
  OBVIOUS
<1>1. TypeOK
  <2>1. timeout \in Timeouts
    BY LoadType DEF Init
  <2>2. queue \in Seq(Command) /\ replies \in Seq([cmd : Command, val : Timeouts])
    BY DEF Init
  <2>3. task \in [Workers -> [cmd : Command \cup {"none"}, step : Step, val : Timeouts]]
    BY NoTaskType DEF Init
  <2>4. idle \in 0 .. Cap /\ away \in 0 .. Cap /\ wake \in 0 .. Poll
    BY BoundsAssumption DEF Init
  <2>5. limit \in Timeouts /\ uiTimeout \in Timeouts
    BY <2>1, TimeoutsAssumption DEF Init
  <2>6. QED
    BY <2>1, <2>2, <2>3, <2>4, <2>5 DEF Init, TypeOK
<1>2. ItemKeepsVault
  BY DEF Init, ItemKeepsVault, At, NoTask
<1>3. ClockOK
  BY DEF Init, ClockOK
<1>4. QED
  BY <1>1, <1>2, <1>3 DEF IInv

----------------------------------------------------------------------------
(* Every step preserves the invariant *)

\* Commands preserve the types.
LEMMA WorkerType ==
    ASSUME TypeOK, NEW w \in Workers, Worker(w)
    PROVE  TypeOK'
<1> USE TimeoutsAssumption, BoundsAssumption, NoTaskType DEF TypeOK
<1> DEFINE Task == [cmd : Command \cup {"none"}, step : Step, val : Timeouts]
<1>0. ASSUME NEW c \in Command \cup {"none"}, NEW step \in Step, NEW v \in Timeouts,
             Enter(w, c, step, v)
      PROVE  task' \in [Workers -> Task]
  BY <1>0 DEF Enter
<1>1. CASE Start(w)
  <2>1. Head(queue) \in Command /\ Tail(queue) \in Seq(Command)
    BY <1>1, HeadTailProperties DEF Start
  <2>2. QED
    BY <1>0, <1>1, <2>1 DEF Start, Step, sessionVars, settingsVars, watchdogVars, uiVars
<1>2. ASSUME NEW step \in Step, Goto(w, step)
      PROVE  task' \in [Workers -> Task]
  BY <1>0, <1>2 DEF Goto
<1>3. ASSUME Finish(w)
      PROVE  /\ task' \in [Workers -> Task]
             /\ replies' \in Seq([cmd : Command, val : Timeouts])
  BY <1>3 DEF Finish
<1>4. ASSUME NEW val \in Timeouts, Answer(w, val), task[w].cmd \in Command
      PROVE  /\ task' \in [Workers -> Task]
             /\ replies' \in Seq([cmd : Command, val : Timeouts])
  BY <1>4 DEF Answer
<1>5. CASE ItemTouch(w)
  BY <1>5, <1>2 DEF ItemTouch, Step, settingsVars, watchdogVars, uiVars
<1>6. CASE ItemAcquire(w)
  BY <1>6, <1>2 DEF ItemAcquire, Step, settingsVars, watchdogVars, uiVars
<1>7. CASE ItemRefused(w)
  BY <1>7, <1>3 DEF ItemRefused, sessionVars, settingsVars, watchdogVars, uiVars
<1>8. CASE ItemReturn(w)
  BY <1>8, <1>3 DEF ItemReturn, settingsVars, watchdogVars, uiVars
<1>9. CASE LoginCalls(w)
  BY <1>9, <1>2, <1>3 DEF LoginCalls, Step, sessionVars, settingsVars, watchdogVars, uiVars
<1>10. CASE OpenSession(w)
  BY <1>10, <1>2 DEF OpenSession, Step, settingsVars, watchdogVars, uiVars
<1>11. CASE LoginTouch(w)
  <2>1. task[w].cmd \in Command /\ Answer(w, DefaultTimeout)
    BY <1>11 DEF LoginTouch, At, Command
  <2>2. task' \in [Workers -> Task] /\ replies' \in Seq([cmd : Command, val : Timeouts])
    BY <1>4, <2>1
  <2>3. idle' \in 0 .. Cap
    BY <1>11 DEF LoginTouch
  <2>4. QED
    BY <1>11, <2>2, <2>3 DEF LoginTouch, settingsVars, watchdogVars, uiVars
<1>12. CASE Lock(w)
  BY <1>12, <1>4 DEF Lock, At, Command, settingsVars, watchdogVars, uiVars
<1>13. CASE GetSettings(w)
  BY <1>13, <1>4 DEF GetSettings, At, Command, sessionVars, settingsVars, watchdogVars, uiVars
<1>14. CASE SaveStart(w)
  BY <1>14, <1>0, <1>3 DEF SaveStart, Step, Command, sessionVars, watchdogVars, uiVars
<1>15. CASE SaveWrite(w)
  BY <1>15, <1>2, <1>3 DEF SaveWrite, Step, sessionVars, watchdogVars, uiVars
<1>16. CASE SaveCache(w)
  BY <1>16, <1>4 DEF SaveCache, At, Command, sessionVars, watchdogVars, uiVars
<1>17. QED
  BY <1>1, <1>5, <1>6, <1>7, <1>8, <1>9, <1>10, <1>11, <1>12, <1>13, <1>14, <1>15, <1>16
     DEF Worker

\* The other steps preserve the types.
LEMMA OtherType ==
    ASSUME TypeOK, [Next]_vars, ~(\E w \in Workers : Worker(w))
    PROVE  TypeOK'
<1> USE TimeoutsAssumption, BoundsAssumption
        DEF TypeOK, sessionVars, settingsVars, watchdogVars, uiVars
<1>1. CASE WatchdogWake
  BY <1>1 DEF WatchdogWake
<1>12. CASE WatchdogMeasure
  <2>1. wake' \in 0 .. Poll /\ watchdog' \in {"asleep", "measure", "expired"}
    BY <1>12 DEF WatchdogMeasure
  <2>2. QED
    BY <1>12, <2>1 DEF WatchdogMeasure
<1>13. CASE WatchdogLock
  <2>1. wake' \in 0 .. Poll
    BY <1>13 DEF WatchdogLock
  <2>2. QED
    BY <1>13, <2>1 DEF WatchdogLock
<1>2. ASSUME NEW c \in Command, UserCalls(c)
      PROVE  TypeOK'
  BY <1>2 DEF UserCalls
<1>3. CASE UserMoves
  <2>1. away' \in 0 .. Cap
    BY <1>3 DEF UserMoves
  <2>2. QED
    BY <1>3, <2>1 DEF UserMoves
<1>4. CASE AutoLocks
  BY <1>4 DEF AutoLocks, Command
<1>5. CASE Continue
  BY <1>5, MountType DEF Continue
<1>6. CASE Resolve
  <2>1. /\ Head(replies).cmd \in Command
        /\ Head(replies).val \in Timeouts
        /\ Tail(replies) \in Seq([cmd : Command, val : Timeouts])
    <3>1. replies # <<>> /\ replies \in Seq([cmd : Command, val : Timeouts])
      BY <1>6 DEF Resolve
    <3>2. /\ Head(replies) \in [cmd : Command, val : Timeouts]
          /\ Tail(replies) \in Seq([cmd : Command, val : Timeouts])
      BY <3>1, HeadTailProperties
    <3>3. QED
      BY <3>2
  <2>2. CASE MountVault
    BY <1>6, <2>1, <2>2, MountType DEF Resolve
  <2>3. CASE ~MountVault
    BY <1>6, <2>1, <2>3 DEF Resolve
  <2>4. QED
    BY <2>2, <2>3
<1>7. CASE Leave \/ Freeze
  BY <1>7 DEF Leave, Freeze
<1>8. CASE Restart
  <2>1. timeout' \in Timeouts /\ limit' \in Timeouts
    BY <1>8, LoadType DEF Restart, Started
  <2>2. task' \in [Workers -> [cmd : Command \cup {"none"}, step : Step, val : Timeouts]]
    BY <1>8, NoTaskType DEF Restart, Started
  <2>3. queue' \in Seq(Command) /\ replies' \in Seq([cmd : Command, val : Timeouts])
    BY <1>8 DEF Restart, Started
  <2>4. idle' \in 0 .. Cap /\ away' \in 0 .. Cap /\ wake' \in 0 .. Poll
    BY <1>8 DEF Restart, Started
  <2>5. disk' \in Timeouts \cup {Unreadable} /\ uiTimeout' \in Timeouts
    BY <1>8 DEF Restart, Started
  <2>6. QED
    BY <1>8, <2>1, <2>2, <2>3, <2>4, <2>5 DEF Restart, Started
<1>9. CASE Tick
  <2>1. Later(idle) \in 0 .. Cap /\ Later(away) \in 0 .. Cap
    BY LaterType
  <2>2. wake' \in 0 .. Poll
    BY <1>9 DEF Tick
  <2>3. QED
    BY <1>9, <2>1, <2>2 DEF Tick
<1>10. CASE UNCHANGED vars
  BY <1>10 DEF vars
<1>11. QED
  BY <1>1, <1>2, <1>3, <1>4, <1>5, <1>6, <1>7, <1>8, <1>9, <1>10, <1>12, <1>13 DEF Next, Watchdog

\* No step takes the vault from a command that holds it.
LEMMA KeepStep ==
    ASSUME TypeOK, ItemKeepsVault, [Next]_vars
    PROVE  ItemKeepsVault'
<1> USE WorkersAssumption DEF ItemKeepsVault, TypeOK, At, Enter, Goto, Finish, Answer
<1>1. ASSUME NEW w \in Workers, Worker(w)
      PROVE  ItemKeepsVault'
  <2>1. CASE Start(w)
    BY <2>1 DEF Start, NoTask, sessionVars
  <2>2. CASE ItemTouch(w) \/ ItemRefused(w)
    BY <2>2 DEF ItemTouch, ItemRefused, NoTask, sessionVars
  <2>3. CASE ItemAcquire(w)
    BY <2>3 DEF ItemAcquire
  <2>4. CASE ItemReturn(w)
    BY <2>4 DEF ItemReturn, NoTask
  <2>5. CASE LoginCalls(w) \/ OpenSession(w) \/ LoginTouch(w)
    BY <2>5 DEF LoginCalls, OpenSession, LoginTouch, NoTask, Opening, sessionVars
  <2>6. CASE Lock(w)
    BY <2>6 DEF Lock, NoTask
  <2>7. CASE GetSettings(w) \/ SaveStart(w) \/ SaveWrite(w) \/ SaveCache(w)
    BY <2>7 DEF GetSettings, SaveStart, SaveWrite, SaveCache, NoTask, sessionVars
  <2>8. QED
    BY <1>1, <2>1, <2>2, <2>3, <2>4, <2>5, <2>6, <2>7 DEF Worker
<1>2. CASE WatchdogLock
  BY <1>2 DEF WatchdogLock
<1>3. CASE Restart
  BY <1>3 DEF Restart, Started, NoTask
<1>4. CASE UNCHANGED <<task, unlocked, mutex>>
  BY <1>4
<1>5. CASE ~(\E w \in Workers : Worker(w)) /\ ~WatchdogLock /\ ~Restart
  BY <1>4, <1>5
     DEF Next, vars, sessionVars, Watchdog, WatchdogWake, WatchdogMeasure, UserCalls, UserMoves,
         AutoLocks, Continue, Resolve, Leave, Freeze, Tick
<1>6. QED
  BY <1>1, <1>2, <1>3, <1>5

\* No step lets an open vault stay idle beyond what the sleeping watchdog allows.
LEMMA ClockStep ==
    ASSUME TypeOK, ClockOK, [Next]_vars
    PROVE  ClockOK'
<1> USE DEF TypeOK, ClockOK
<1>1. ASSUME NEW w \in Workers, Worker(w)
      PROVE  ClockOK'
  <2>1. CASE idle' = 0 /\ UNCHANGED watchdogVars
    BY <2>1, TimeoutsAssumption, BoundsAssumption DEF watchdogVars
  <2>2. CASE OpenSession(w)
    BY <2>2 DEF OpenSession, BeingOpened, At, Enter, Goto
  <2>3. CASE Lock(w)
    BY <2>3 DEF Lock
  <2>4. CASE ItemTouch(w) \/ LoginTouch(w)
    BY <2>1, <2>4 DEF ItemTouch, LoginTouch
  <2>5. ASSUME ~At(w, Opening, "touch"), UNCHANGED <<unlocked, idle, watchdogVars>>,
               NEW t, task' = [task EXCEPT ![w] = t]
        PROVE  ClockOK'
    BY <2>5, NobodyElseOpens DEF watchdogVars
  <2>6. CASE \/ Start(w) \/ ItemAcquire(w) \/ ItemRefused(w) \/ ItemReturn(w) \/ LoginCalls(w)
             \/ GetSettings(w) \/ SaveStart(w) \/ SaveWrite(w) \/ SaveCache(w)
    <3>1. ~At(w, Opening, "touch") /\ UNCHANGED <<unlocked, idle, watchdogVars>>
      BY <2>6
         DEF Start, ItemAcquire, ItemRefused, ItemReturn, LoginCalls, GetSettings, SaveStart,
             SaveWrite, SaveCache, At, Opening, NoTask, sessionVars
    <3>2. PICK t : task' = [task EXCEPT ![w] = t]
      BY <2>6
         DEF Start, ItemAcquire, ItemRefused, ItemReturn, LoginCalls, GetSettings, SaveStart,
             SaveWrite, SaveCache, Enter, Goto, Finish, Answer
    <3>3. QED
      BY <2>5, <3>1, <3>2
  <2>7. QED
    BY <1>1, <2>2, <2>3, <2>4, <2>6 DEF Worker
<1>2. CASE WatchdogWake
  BY <1>2 DEF WatchdogWake
<1>3. CASE WatchdogMeasure
  BY <1>3, TimeoutsAssumption DEF WatchdogMeasure, BeingOpened, At, sessionVars
<1>4. CASE WatchdogLock
  BY <1>4 DEF WatchdogLock
<1>5. CASE Restart
  BY <1>5 DEF Restart, Started
<1>6. CASE Tick
  <2>1. Later(idle) <= idle + 1
    BY LaterType
  <2>2. UNCHANGED BeingOpened
    BY <1>6 DEF Tick, BeingOpened, At
  <2>3. Later(idle) \in 0 .. Cap /\ limit \in Nat
    BY LaterType, TimeoutsAssumption
  <2>4. QED
    BY <1>6, <2>1, <2>2, <2>3, BoundsAssumption DEF Tick
<1>7. CASE UNCHANGED <<unlocked, idle, watchdogVars, task>>
  BY <1>7 DEF watchdogVars, BeingOpened, At
<1>8. CASE /\ ~(\E w \in Workers : Worker(w))
           /\ ~Watchdog /\ ~Restart /\ ~Tick
  BY <1>7, <1>8
     DEF Next, vars, sessionVars, UserCalls, UserMoves, AutoLocks, Continue, Resolve, Leave, Freeze
<1>9. QED
  BY <1>1, <1>2, <1>3, <1>4, <1>5, <1>6, <1>8 DEF Watchdog

\* The invariant is inductive.
LEMMA StepInvariant == IInv /\ [Next]_vars => IInv'
BY WorkerType, OtherType, KeepStep, ClockStep DEF IInv

\* The invariant holds in every behaviour.
LEMMA Invariance == Spec => []IInv
BY InitInvariant, StepInvariant, PTL DEF Spec

----------------------------------------------------------------------------
(* What every behaviour of AutoLock satisfies *)

\* Types: settings stay within the clamp, clocks within their bounds.
THEOREM TypeCorrect == Spec => []TypeOK
BY Invariance, PTL DEF IInv

\* The vault is never taken from a command that is using it (items.rs:198-207,
\* lib.rs:82).
THEOREM ItemKeepsVaultCorrect == Spec => []ItemKeepsVault
BY Invariance, PTL DEF IInv

\* An open vault outlives the timeout and a poll interval only while the
\* watchdog is past its sleep, waiting for the mutex (lib.rs:70-87).
THEOREM BackstopCorrect == Spec => []BackstopInTime
<1>1. IInv => BackstopInTime
  BY TimeoutsAssumption, BoundsAssumption DEF IInv, TypeOK, ClockOK, BackstopInTime
<1>2. QED
  BY <1>1, Invariance, PTL

----------------------------------------------------------------------------
(* Settings, with one worker *)

\* A save between its write and its cache update has its value in the file;
\* otherwise the file holds the settings in use or nothing.
SaveOK ==
    \A w \in Workers :
        /\ At(w, {"save"}, "cache") => disk = task[w].val
        /\ ~(task[w].cmd = "save" /\ task[w].step \in {"write", "cache"})
            => disk \in {timeout, Unreadable}

\* Every program start reads what the file holds, if it can.
LEMMA SaveInit == Init => SaveOK
BY DEF Init, SaveOK, At, NoTask, Load

\* With one worker no step but a save touches the file or the cache.
LEMMA SaveStep ==
    ASSUME NEW m, Workers = {m}, TypeOK, SaveOK, [Next]_vars
    PROVE  SaveOK'
<1> USE DEF SaveOK, TypeOK, At
<1>1. CASE Start(m)
  BY <1>1 DEF Start, Enter, NoTask, settingsVars
<1>2. CASE ItemTouch(m) \/ ItemAcquire(m) \/ ItemRefused(m) \/ ItemReturn(m)
  BY <1>2 DEF ItemTouch, ItemAcquire, ItemRefused, ItemReturn, Goto, Enter, Finish, NoTask,
              settingsVars
<1>3. CASE LoginCalls(m) \/ OpenSession(m) \/ LoginTouch(m)
  BY <1>3 DEF LoginCalls, OpenSession, LoginTouch, Opening, Goto, Enter, Finish, Answer, NoTask,
              settingsVars
<1>4. CASE Lock(m) \/ GetSettings(m)
  BY <1>4 DEF Lock, GetSettings, Answer, NoTask, settingsVars
<1>5. CASE SaveStart(m)
  BY <1>5 DEF SaveStart, Enter, Finish, NoTask
<1>6. CASE SaveWrite(m)
  BY <1>6 DEF SaveWrite, Goto, Enter, Finish, NoTask
<1>7. CASE SaveCache(m)
  BY <1>7 DEF SaveCache, Answer, NoTask
<1>8. CASE Restart
  BY <1>8 DEF Restart, Started, NoTask, Load
<1>9. CASE UNCHANGED <<task, settingsVars>>
  BY <1>9 DEF settingsVars
<1>10. CASE ~(\E w \in Workers : Worker(w)) /\ ~Restart
  BY <1>9, <1>10
     DEF Next, vars, Watchdog, WatchdogWake, WatchdogMeasure, WatchdogLock, UserCalls, UserMoves,
         AutoLocks, Continue, Resolve, Leave, Freeze, Tick
<1>11. QED
  BY <1>1, <1>2, <1>3, <1>4, <1>5, <1>6, <1>7, <1>8, <1>10 DEF Worker

\* On one worker, Tauri's main thread, no failed save and no crash leaves other
\* valid settings in the file than those in use (settings.rs:80-91); a file that
\* cannot be read it may leave.
THEOREM SettingsCorrect ==
    ASSUME NEW m, Workers = {m}
    PROVE  Spec => []SettingsOnDisk
<1>1. SaveOK => SettingsOnDisk
  BY DEF SaveOK, SettingsOnDisk
<1>2. TypeOK /\ SaveOK /\ [Next]_vars => SaveOK'
  BY SaveStep
<1>3. QED
  BY <1>1, <1>2, SaveInit, TypeCorrect, PTL DEF Spec

----------------------------------------------------------------------------
(* What the user interface shows, with any number of workers *)

Ran(i) == replies[i].cmd \in Opening

\* An open vault whose login has answered has that answer among the replies as
\* long as the login form is shown, or will be by a lock that answered before.
LoginOK ==
    unlocked /\ ~BeingOpened =>
        /\ screen = "login" => \E j \in DOMAIN replies : Ran(j)
        /\ \A i \in DOMAIN replies :
             replies[i].cmd = "lock" => \E j \in DOMAIN replies : i < j /\ Ran(j)

Told(i) == replies[i].cmd \in {"get", "save"}
Asked == \/ \E w \in Workers : task[w].cmd = "get"
         \/ \E i \in DOMAIN queue : queue[i] = "get"

\* The last reply with settings carries those in the cache; the vault screen
\* has them when there is neither such a reply nor a request for one.
FreshOK ==
    /\ \A i \in DOMAIN replies :
         Told(i) /\ (\A j \in DOMAIN replies : i < j => ~Told(j)) => replies[i].val = timeout
    /\ screen = "vault" /\ ~Asked /\ (\A i \in DOMAIN replies : ~Told(i)) => uiTimeout = timeout

\* No vault and no reply when the program starts.
LEMMA ScreenInit == Init => LoginOK /\ FreshOK
BY DEF Init, LoginOK, FreshOK

\* Replies resolve in the order they were given.
LEMMA ReplyOrder ==
    ASSUME TypeOK
    PROVE  /\ \A e : replies' = Append(replies, e) =>
                /\ DOMAIN replies' = DOMAIN replies \cup {Len(replies) + 1}
                /\ replies'[Len(replies) + 1] = e
                /\ \A i \in DOMAIN replies : i < Len(replies) + 1 /\ replies'[i] = replies[i]
           /\ replies # <<>> /\ replies' = Tail(replies) =>
                /\ 1 \in DOMAIN replies /\ Head(replies) = replies[1]
                /\ \A i \in DOMAIN replies' : i + 1 \in DOMAIN replies /\ replies'[i] = replies[i + 1]
                /\ \A i \in DOMAIN replies : i # 1 => i - 1 \in DOMAIN replies' /\ replies'[i - 1] = replies[i]
           /\ DOMAIN replies \subseteq Nat
<1> DEFINE T == [cmd : Command, val : Timeouts]
<1>1. replies \in Seq(T)
  BY DEF TypeOK
<1> HIDE DEF T
<1>2. DOMAIN replies = 1 .. Len(replies) /\ Len(replies) \in Nat
  BY <1>1, LenProperties
<1>3. ASSUME NEW e, replies' = Append(replies, e)
      PROVE  /\ DOMAIN replies' = 1 .. (Len(replies) + 1)
             /\ replies'[Len(replies) + 1] = e
             /\ \A i \in 1 .. Len(replies) : replies'[i] = replies[i]
  <2> DEFINE S == T \cup {e}
  <2>1. replies \in Seq(S) /\ e \in S
    BY <1>1, <1>2
  <2> HIDE DEF S
  <2>2. /\ Append(replies, e) \in Seq(S) /\ Len(Append(replies, e)) = Len(replies) + 1
        /\ \A i \in 1 .. Len(replies) : Append(replies, e)[i] = replies[i]
        /\ Append(replies, e)[Len(replies) + 1] = e
    BY <2>1, AppendProperties
  <2>3. DOMAIN Append(replies, e) = 1 .. (Len(replies) + 1)
    BY <2>2, LenProperties
  <2> QED
    BY <1>3, <2>2, <2>3
<1>4. ASSUME replies # <<>>, replies' = Tail(replies)
      PROVE  /\ 1 \in DOMAIN replies /\ Head(replies) = replies[1]
             /\ DOMAIN replies' = 1 .. (Len(replies) - 1)
             /\ \A i \in 1 .. (Len(replies) - 1) : replies'[i] = replies[i + 1]
  <2>1. /\ Tail(replies) \in Seq(T) /\ Len(Tail(replies)) = Len(replies) - 1
        /\ \A i \in 1 .. Len(Tail(replies)) : Tail(replies)[i] = replies[i + 1]
    BY <1>1, <1>4, HeadTailProperties
  <2>2. DOMAIN Tail(replies) = 1 .. (Len(replies) - 1)
    BY <2>1, LenProperties
  <2>3. Len(replies) # 0 /\ Head(replies) = replies[1]
    BY <1>1, <1>4, EmptySeq
  <2> QED
    BY <1>2, <1>4, <2>1, <2>2, <2>3
<1> DEFINE n == Len(replies)
<1>5. n \in Nat /\ DOMAIN replies = 1 .. n
  BY <1>2
<1>6. ASSUME NEW e, replies' = Append(replies, e)
      PROVE  /\ DOMAIN replies' = DOMAIN replies \cup {n + 1}
             /\ replies'[n + 1] = e
             /\ \A i \in DOMAIN replies : i < n + 1 /\ replies'[i] = replies[i]
  <2>1. /\ DOMAIN replies' = 1 .. (n + 1) /\ replies'[n + 1] = e
        /\ \A i \in 1 .. n : replies'[i] = replies[i]
    BY <1>3, <1>6
  <2> HIDE DEF n
  <2>2. 1 .. (n + 1) = (1 .. n) \cup {n + 1} /\ \A i \in 1 .. n : i < n + 1
    BY <1>5
  <2> QED
    BY <1>5, <2>1, <2>2
<1>7. ASSUME replies # <<>>, replies' = Tail(replies)
      PROVE  /\ 1 \in DOMAIN replies /\ Head(replies) = replies[1]
             /\ \A i \in DOMAIN replies' : i + 1 \in DOMAIN replies /\ replies'[i] = replies[i + 1]
             /\ \A i \in DOMAIN replies : i # 1 => i - 1 \in DOMAIN replies' /\ replies'[i - 1] = replies[i]
  <2>1. /\ 1 \in DOMAIN replies /\ Head(replies) = replies[1] /\ DOMAIN replies' = 1 .. (n - 1)
        /\ \A i \in 1 .. (n - 1) : replies'[i] = replies[i + 1]
    BY <1>4, <1>7
  <2> HIDE DEF n
  <2>2. \A i \in 1 .. (n - 1) : i + 1 \in 1 .. n
    BY <1>5
  <2>3. \A i \in 1 .. n : i # 1 => i - 1 \in 1 .. (n - 1) /\ (i - 1) + 1 = i
    BY <1>5
  <2> QED
    BY <1>5, <2>1, <2>2, <2>3
<1>8. DOMAIN replies \subseteq Nat
  BY <1>5
<1> QED
  BY <1>6, <1>7, <1>8

\* The login form and the vault agree after every step: a lock answers with the
\* vault closed, and only a login opens it again.
LEMMA LoginStep ==
    ASSUME TypeOK, LoginOK, [Next]_vars
    PROVE  LoginOK'
<1> DEFINE Opener == {w \in Workers : At(w, Opening, "touch")}
<1>1. ASSUME replies' = replies, screen' = "login" => screen = "login",
             unlocked' /\ ~BeingOpened' => unlocked /\ ~BeingOpened
      PROVE  LoginOK'
  BY <1>1 DEF LoginOK, Ran
<1>2. ASSUME NEW w \in Workers, Worker(w)
      PROVE  LoginOK'
  <2>1. CASE OpenSession(w)
    <3>1. BeingOpened'
      BY <2>1 DEF OpenSession, Goto, Enter, BeingOpened, At, TypeOK
    <3> QED
      BY <3>1 DEF LoginOK
  <2>2. CASE Lock(w)
    BY <2>2 DEF Lock, LoginOK
  <2>3. CASE LoginTouch(w)
    <3> DEFINE e == [cmd |-> task[w].cmd, val |-> DefaultTimeout]
    <3>1. replies' = Append(replies, e) /\ e.cmd \in Opening
      BY <2>3 DEF LoginTouch, Answer, At
    <3> HIDE DEF e
    <3>2. /\ DOMAIN replies' = DOMAIN replies \cup {Len(replies) + 1}
          /\ replies'[Len(replies) + 1] = e
          /\ \A i \in DOMAIN replies : i < Len(replies) + 1
      BY <3>1, ReplyOrder
    <3>3. e.cmd # "lock"
      BY <3>1 DEF Opening
    <3> QED
      BY <3>1, <3>2, <3>3 DEF LoginOK, Ran
  <2>4. CASE /\ ~At(w, Opening, "touch") /\ UNCHANGED <<unlocked, screen>>
             /\ \E t : task' = [task EXCEPT ![w] = t]
             /\ \/ replies' = replies
                \/ \E e : e.cmd # "lock" /\ replies' = Append(replies, e)
    <3>1. unlocked' /\ ~BeingOpened' => unlocked /\ ~BeingOpened
      BY <2>4, NobodyElseOpens
    <3>2. CASE replies' = replies
      BY <1>1, <2>4, <3>1, <3>2
    <3>3. ASSUME NEW e, e.cmd # "lock", replies' = Append(replies, e)
          PROVE  LoginOK'
      <4>1. /\ DOMAIN replies' = DOMAIN replies \cup {Len(replies) + 1}
            /\ replies'[Len(replies) + 1] = e
            /\ \A i \in DOMAIN replies : i < Len(replies) + 1 /\ replies'[i] = replies[i]
        BY <3>3, ReplyOrder
      <4> QED
        BY <2>4, <3>1, <3>3, <4>1 DEF LoginOK, Ran
    <3> QED
      BY <2>4, <3>2, <3>3
  <2>5. CASE \/ Start(w) \/ ItemTouch(w) \/ ItemAcquire(w) \/ ItemRefused(w) \/ ItemReturn(w)
             \/ LoginCalls(w) \/ SaveStart(w) \/ SaveWrite(w)
    <3>1. /\ ~At(w, Opening, "touch") /\ UNCHANGED <<unlocked, screen>>
          /\ replies' = replies
      BY <2>5 DEF Start, ItemTouch, ItemAcquire, ItemRefused, ItemReturn, LoginCalls, SaveStart,
                  SaveWrite, At, Opening, NoTask, sessionVars, uiVars, Finish
    <3>2. \E t : task' = [task EXCEPT ![w] = t]
      BY <2>5 DEF Start, ItemTouch, ItemAcquire, ItemRefused, ItemReturn, LoginCalls, SaveStart,
                  SaveWrite, Enter, Goto, Finish
    <3> QED
      BY <2>4, <3>1, <3>2
  <2>6. CASE GetSettings(w) \/ SaveCache(w)
    <3>1. PICK v : Answer(w, v)
      BY <2>6 DEF GetSettings, SaveCache
    <3>2. /\ ~At(w, Opening, "touch") /\ UNCHANGED <<unlocked, screen>>
          /\ task[w].cmd # "lock"
      BY <2>6 DEF GetSettings, SaveCache, At, Opening, sessionVars, uiVars
    <3> DEFINE e == [cmd |-> task[w].cmd, val |-> v]
    <3>3. e.cmd # "lock" /\ replies' = Append(replies, e) /\ task' = [task EXCEPT ![w] = NoTask]
      BY <3>1, <3>2 DEF Answer
    <3> HIDE DEF e
    <3> QED
      BY <2>4, <3>2, <3>3
  <2> QED
    BY <1>2, <2>1, <2>2, <2>3, <2>5, <2>6 DEF Worker
<1>3. CASE WatchdogLock
  BY <1>3 DEF WatchdogLock, LoginOK
<1>4. CASE Restart
  BY <1>4 DEF Restart, Started, LoginOK
<1>5. CASE Resolve
  <2> DEFINE r == Head(replies)
  <2>1. /\ replies # <<>> /\ replies' = Tail(replies) /\ UNCHANGED <<unlocked, task>>
        /\ screen' = "login" => (screen = "login" /\ r.cmd \notin Opening) \/ r.cmd = "lock"
    <3> DEFINE T == [cmd : Command, val : Timeouts]
    <3>0. replies \in Seq(T) /\ replies # <<>>
      BY <1>5 DEF Resolve, TypeOK
    <3>1. Head(replies).cmd \in Command
      <4>1. Head(replies) \in T
        <5> HIDE DEF T
        <5> QED
          BY <3>0, HeadTailProperties
      <4> QED
        BY <4>1
    <3> QED
      BY <1>5, <3>1 DEF Resolve, MountVault, Opening, Command, sessionVars
  <2>2. UNCHANGED BeingOpened
    BY <2>1 DEF BeingOpened, At
  <2>3. /\ 1 \in DOMAIN replies /\ r = replies[1] /\ DOMAIN replies \subseteq Nat
        /\ \A i \in DOMAIN replies' : i + 1 \in DOMAIN replies /\ replies'[i] = replies[i + 1]
        /\ \A i \in DOMAIN replies : i # 1 => i - 1 \in DOMAIN replies' /\ replies'[i - 1] = replies[i]
    BY <2>1, ReplyOrder
  <2> HIDE DEF r
  <2>4. SUFFICES ASSUME unlocked', ~BeingOpened'
                 PROVE  /\ screen' = "login" => \E j \in DOMAIN replies' : Ran(j)'
                        /\ \A i \in DOMAIN replies' : replies'[i].cmd = "lock" =>
                             \E j \in DOMAIN replies' : i < j /\ Ran(j)'
    BY DEF LoginOK, Ran
  <2>5. /\ screen = "login" => \E j \in DOMAIN replies : Ran(j)
        /\ \A i \in DOMAIN replies :
             replies[i].cmd = "lock" => \E j \in DOMAIN replies : i < j /\ Ran(j)
    BY <2>1, <2>2, <2>4 DEF LoginOK
  <2>6. ASSUME NEW j \in DOMAIN replies, Ran(j), j # 1 PROVE j - 1 \in DOMAIN replies' /\ Ran(j - 1)'
    BY <2>3, <2>6 DEF Ran
  <2>7. screen' = "login" => \E j \in DOMAIN replies' : Ran(j)'
    <3>1. CASE r.cmd = "lock"
      <4>1. PICK j \in DOMAIN replies : 1 < j /\ Ran(j)
        BY <2>3, <2>5, <3>1
      <4> QED
        BY <2>3, <2>6, <4>1
    <3>2. CASE screen = "login" /\ r.cmd \notin Opening
      <4>1. PICK j \in DOMAIN replies : Ran(j)
        BY <2>5, <3>2
      <4>2. j # 1
        BY <2>3, <3>2, <4>1 DEF Ran
      <4> QED
        BY <2>6, <4>1, <4>2
    <3> QED
      BY <2>1, <3>1, <3>2 DEF r
  <2>8. ASSUME NEW i \in DOMAIN replies', replies'[i].cmd = "lock"
        PROVE  \E j \in DOMAIN replies' : i < j /\ Ran(j)'
    <3>1. i + 1 \in DOMAIN replies /\ replies[i + 1].cmd = "lock" /\ i + 1 \in Nat
      BY <2>3, <2>8
    <3>2. PICK j \in DOMAIN replies : i + 1 < j /\ Ran(j)
      BY <2>5, <3>1
    <3>3. j \in Nat /\ i + 1 \in Nat /\ i \in DOMAIN replies'
      BY <2>3, <3>1
    <3>4. replies' \in Seq([cmd : Command, val : Timeouts])
      BY <2>1, HeadTailProperties DEF TypeOK
    <3>5. i \in Nat /\ i # 0
      BY <3>4, LenProperties
    <3>6. j # 1 /\ i < j - 1
      BY <3>2, <3>3, <3>5
    <3> QED
      BY <2>6, <3>2, <3>6
  <2> QED
    BY <2>7, <2>8
<1>6. CASE UNCHANGED <<unlocked, task, replies>> /\ (screen' = "login" => screen = "login")
  <2>1. UNCHANGED BeingOpened
    BY <1>6 DEF BeingOpened, At
  <2> QED
    BY <1>1, <1>6, <2>1
<1>7. CASE ~(\E w \in Workers : Worker(w)) /\ ~WatchdogLock /\ ~Restart /\ ~Resolve
  BY <1>6, <1>7
     DEF Next, vars, sessionVars, uiVars, Watchdog, WatchdogWake, WatchdogMeasure, UserCalls,
         UserMoves, AutoLocks, Continue, MountVault, Leave, Freeze, Tick
<1> QED
  BY <1>2, <1>3, <1>4, <1>5, <1>7

\* The commands in the queue stay in it until one is started; a vault screen
\* that is mounted leaves a request for the settings.
LEMMA QueueOrder ==
    ASSUME TypeOK
    PROVE  /\ \A c \in Command : queue' = Append(queue, c) =>
                \A i \in DOMAIN queue : i \in DOMAIN queue' /\ queue'[i] = queue[i]
           /\ MountVault => \E i \in DOMAIN queue' : queue'[i] = "get"
           /\ queue # <<>> /\ queue' = Tail(queue) =>
                \A i \in DOMAIN queue :
                  queue[i] = Head(queue) \/ \E j \in DOMAIN queue' : queue'[j] = queue[i]
<1>1. queue \in Seq(Command)
  BY DEF TypeOK
<1>2. DOMAIN queue = 1 .. Len(queue) /\ Len(queue) \in Nat
  BY <1>1, LenProperties
<1>3. ASSUME NEW c \in Command, queue' = Append(queue, c), NEW i \in DOMAIN queue
      PROVE  i \in DOMAIN queue' /\ queue'[i] = queue[i]
  <2>1. /\ Append(queue, c) \in Seq(Command) /\ Len(Append(queue, c)) = Len(queue) + 1
        /\ \A k \in 1 .. Len(queue) : Append(queue, c)[k] = queue[k]
    BY <1>1, AppendProperties
  <2>2. DOMAIN Append(queue, c) = 1 .. (Len(queue) + 1)
    BY <2>1, LenProperties
  <2> QED
    BY <1>2, <1>3, <2>1, <2>2
<1>4. ASSUME MountVault PROVE \E i \in DOMAIN queue' : queue'[i] = "get"
  <2> DEFINE two == <<"item", "get">>
  <2>1. two \in Seq(Command) /\ Len(two) = 2 /\ two[2] = "get"
    BY DEF Command
  <2>2. queue' = queue \o two
    BY <1>4 DEF MountVault
  <2> HIDE DEF two
  <2>3. /\ queue \o two \in Seq(Command) /\ Len(queue \o two) = Len(queue) + Len(two)
        /\ \A k \in 1 .. (Len(queue) + Len(two)) :
             (queue \o two)[k] = IF k <= Len(queue) THEN queue[k] ELSE two[k - Len(queue)]
    BY <1>1, <2>1, ConcatProperties
  <2>4. /\ queue' \in Seq(Command) /\ Len(queue') = Len(queue) + 2
        /\ \A k \in 1 .. (Len(queue) + 2) :
             queue'[k] = IF k <= Len(queue) THEN queue[k] ELSE two[k - Len(queue)]
    BY <2>1, <2>2, <2>3
  <2>5. DOMAIN queue' = 1 .. (Len(queue) + 2)
    BY <2>4, LenProperties
  <2>6. Len(queue) + 2 \in 1 .. (Len(queue) + 2) /\ queue'[Len(queue) + 2] = two[2]
    BY <1>2, <2>4
  <2> QED
    BY <2>1, <2>5, <2>6
<1>5. ASSUME queue # <<>>, queue' = Tail(queue), NEW i \in DOMAIN queue, queue[i] # Head(queue)
      PROVE  \E j \in DOMAIN queue' : queue'[j] = queue[i]
  <2>1. /\ queue' \in Seq(Command) /\ Len(queue') = Len(queue) - 1
        /\ \A k \in 1 .. Len(queue') : queue'[k] = queue[k + 1]
        /\ Head(queue) = queue[1]
    BY <1>1, <1>5, HeadTailProperties
  <2>2. DOMAIN queue' = 1 .. (Len(queue) - 1)
    BY <2>1, LenProperties
  <2>3. i # 1
    BY <1>5, <2>1
  <2>4. i - 1 \in 1 .. (Len(queue) - 1) /\ (i - 1) + 1 = i
    BY <1>2, <1>5, <2>3
  <2>5. queue'[i - 1] = queue[i]
    BY <2>1, <2>4
  <2> QED
    BY <2>2, <2>4, <2>5
<1> QED
  BY <1>3, <1>4, <1>5

\* Settings that were requested stay so until they are answered, whatever the
\* command that is taken from the queue.
LEMMA StartAsks ==
    ASSUME TypeOK, NEW w \in Workers, Start(w), Asked
    PROVE  Asked'
<1>1. /\ task[w] = NoTask /\ queue # <<>> /\ queue' = Tail(queue)
      /\ Enter(w, Head(queue), "start", DefaultTimeout)
  BY DEF Start
<1>2. /\ task'[w].cmd = Head(queue)
      /\ \A v \in Workers : v # w => task'[v] = task[v]
  BY <1>1 DEF Enter, TypeOK
<1>3. CASE \E v \in Workers : task[v].cmd = "get"
  BY <1>1, <1>2, <1>3 DEF Asked, NoTask
<1>4. ASSUME NEW i \in DOMAIN queue, queue[i] = "get" PROVE Asked'
  <2>1. queue[i] = Head(queue) \/ \E j \in DOMAIN queue' : queue'[j] = queue[i]
    BY <1>1, QueueOrder
  <2> QED
    BY <1>2, <1>4, <2>1 DEF Asked
<1> QED
  BY <1>3, <1>4 DEF Asked

\* The settings the user interface runs with are fresh after every step: those
\* of the last reply are the ones in the cache, and a vault screen that is
\* mounted anew asks for them.
LEMMA FreshStep ==
    ASSUME TypeOK, FreshOK, [Next]_vars
    PROVE  FreshOK'
<1>1. ASSUME UNCHANGED <<replies, timeout, uiTimeout>>, Asked => Asked',
             screen' = "vault" => screen = "vault"
      PROVE  FreshOK'
  BY <1>1 DEF FreshOK, Told
<1>2. ASSUME NEW w \in Workers, NEW t, task' = [task EXCEPT ![w] = t],
             task[w].cmd # "get" \/ t.cmd = "get", UNCHANGED queue, Asked
      PROVE  Asked'
  BY <1>2 DEF Asked, TypeOK
<1>3. ASSUME NEW w \in Workers, Worker(w)
      PROVE  FreshOK'
  <2>1. CASE Start(w)
    BY <1>1, <2>1, StartAsks DEF Start, settingsVars, uiVars
  <2>2. CASE \/ ItemTouch(w) \/ ItemAcquire(w) \/ ItemRefused(w) \/ ItemReturn(w)
             \/ LoginCalls(w) \/ OpenSession(w) \/ SaveStart(w) \/ SaveWrite(w)
    <3>1. /\ UNCHANGED <<replies, timeout, uiTimeout, screen, queue>> /\ task[w].cmd # "get"
          /\ \E t : task' = [task EXCEPT ![w] = t]
      BY <2>2 DEF ItemTouch, ItemAcquire, ItemRefused, ItemReturn, LoginCalls, OpenSession,
                  SaveStart, SaveWrite, At, Opening, Enter, Goto, Finish, settingsVars, uiVars
    <3> QED
      BY <1>1, <1>2, <3>1
  <2>3. CASE LoginTouch(w) \/ Lock(w)
    <3> DEFINE e == [cmd |-> task[w].cmd, val |-> DefaultTimeout]
    <3>1. /\ replies' = Append(replies, e) /\ task' = [task EXCEPT ![w] = NoTask]
          /\ UNCHANGED <<timeout, uiTimeout, screen, queue>>
          /\ e.cmd \notin {"get", "save"} /\ task[w].cmd # "get"
      BY <2>3 DEF LoginTouch, Lock, Answer, At, Opening, settingsVars, uiVars
    <3> HIDE DEF e
    <3>2. PICK n : /\ DOMAIN replies' = DOMAIN replies \cup {n}
                   /\ replies'[n] = e
                   /\ \A i \in DOMAIN replies : i < n /\ replies'[i] = replies[i]
      BY <3>1, ReplyOrder
    <3>3. Asked => Asked'
      BY <1>2, <3>1
    <3>4. \A i \in DOMAIN replies : Told(i)' <=> Told(i)
      BY <3>2 DEF Told
    <3>5. ~Told(n)'
      BY <3>1, <3>2 DEF Told
    <3>6. ASSUME NEW i \in DOMAIN replies', Told(i)',
                 \A j \in DOMAIN replies' : i < j => ~Told(j)'
          PROVE  replies'[i].val = timeout'
      <4>1. i \in DOMAIN replies /\ Told(i)
        BY <3>2, <3>4, <3>5, <3>6
      <4>2. \A j \in DOMAIN replies : i < j => ~Told(j)
        BY <3>2, <3>4, <3>6
      <4> QED
        BY <3>1, <3>2, <4>1, <4>2 DEF FreshOK
    <3>7. screen' = "vault" /\ ~Asked' /\ (\A i \in DOMAIN replies' : ~Told(i)') =>
            uiTimeout' = timeout'
      BY <3>1, <3>2, <3>3, <3>4 DEF FreshOK
    <3> QED
      BY <3>6, <3>7 DEF FreshOK, Told, Asked
  <2>4. CASE GetSettings(w) \/ SaveCache(w)
    <3> DEFINE e == [cmd |-> task[w].cmd, val |-> timeout']
    <3>1. replies' = Append(replies, e) /\ e.cmd \in {"get", "save"} /\ e.val = timeout'
      BY <2>4 DEF GetSettings, SaveCache, Answer, At, settingsVars
    <3> HIDE DEF e
    <3>2. PICK n : /\ DOMAIN replies' = DOMAIN replies \cup {n}
                   /\ replies'[n] = e
                   /\ \A i \in DOMAIN replies : i < n
      BY <3>1, ReplyOrder
    <3>3. Told(n)' /\ n \in DOMAIN replies'
      BY <3>1, <3>2 DEF Told
    <3>4. ASSUME NEW i \in DOMAIN replies', \A j \in DOMAIN replies' : i < j => ~Told(j)'
          PROVE  replies'[i].val = timeout'
      BY <3>1, <3>2, <3>3, <3>4
    <3> QED
      BY <3>3, <3>4 DEF FreshOK, Told
  <2> QED
    BY <1>3, <2>1, <2>2, <2>3, <2>4 DEF Worker
<1>4. CASE Restart
  BY <1>4 DEF Restart, Started, FreshOK
<1>5. CASE Continue
  <2>1. Asked' /\ UNCHANGED <<replies, timeout>>
    BY <1>5, QueueOrder DEF Continue, Asked, settingsVars
  <2> QED
    BY <2>1 DEF FreshOK, Told
<1>6. CASE Resolve
  <2> DEFINE r == Head(replies)
  <2>1. /\ replies # <<>> /\ replies' = Tail(replies) /\ UNCHANGED <<timeout, task>>
        /\ screen' = "vault" =>
             \/ MountVault
             \/ /\ screen = "vault" /\ UNCHANGED queue
                /\ uiTimeout' = IF r.cmd \in {"get", "save"} THEN r.val ELSE uiTimeout
    <3> DEFINE T == [cmd : Command, val : Timeouts]
    <3>0. replies \in Seq(T) /\ replies # <<>>
      BY <1>6 DEF Resolve, TypeOK
    <3>1. Head(replies).cmd \in Command
      <4>1. Head(replies) \in T
        <5> HIDE DEF T
        <5> QED
          BY <3>0, HeadTailProperties
      <4> QED
        BY <4>1
    <3> QED
      BY <1>6, <3>1 DEF Resolve, Command, Opening, settingsVars
  <2>2. /\ 1 \in DOMAIN replies /\ r = replies[1] /\ DOMAIN replies \subseteq Nat
        /\ \A i \in DOMAIN replies' : i + 1 \in DOMAIN replies /\ replies'[i] = replies[i + 1]
        /\ \A i \in DOMAIN replies : i # 1 => i - 1 \in DOMAIN replies' /\ replies'[i - 1] = replies[i]
    BY <2>1, ReplyOrder
  <2> HIDE DEF r
  <2>3. replies' \in Seq([cmd : Command, val : Timeouts])
    BY <2>1, HeadTailProperties DEF TypeOK
  <2>4. DOMAIN replies' \subseteq Nat
    BY <2>3, LenProperties
  <2>5. /\ \A i \in DOMAIN replies' : Told(i)' <=> Told(i + 1)
        /\ \A i \in DOMAIN replies : i # 1 => (Told(i - 1)' <=> Told(i))
    BY <2>2 DEF Told
  <2>6. ASSUME NEW i \in DOMAIN replies', Told(i)',
               \A j \in DOMAIN replies' : i < j => ~Told(j)'
        PROVE  replies'[i].val = timeout'
    <3>1. i + 1 \in DOMAIN replies /\ Told(i + 1) /\ i \in Nat /\ i # 0
      BY <2>2, <2>3, <2>4, <2>5, <2>6, LenProperties
    <3>2. ASSUME NEW j \in DOMAIN replies, i + 1 < j PROVE ~Told(j)
      <4>1. j \in Nat /\ j # 1 /\ i < j - 1
        BY <2>2, <3>1, <3>2
      <4> QED
        BY <2>2, <2>5, <2>6, <4>1
    <3> QED
      BY <2>1, <2>2, <3>1, <3>2 DEF FreshOK
  <2>7. ASSUME screen' = "vault", ~Asked', \A i \in DOMAIN replies' : ~Told(i)'
        PROVE  uiTimeout' = timeout'
    <3>1. ~MountVault
      <4>1. ASSUME MountVault PROVE FALSE
        BY <2>7, <4>1, QueueOrder DEF Asked
      <4> QED
        BY <4>1
    <3>2. /\ screen = "vault" /\ UNCHANGED queue
          /\ uiTimeout' = IF r.cmd \in {"get", "save"} THEN r.val ELSE uiTimeout
      BY <2>1, <2>7, <3>1
    <3>3. ~Asked
      BY <2>1, <2>7, <3>2 DEF Asked
    <3>4. \A j \in DOMAIN replies : j # 1 => ~Told(j)
      BY <2>2, <2>5, <2>7
    <3>5. CASE Told(1)
      <4>1. \A j \in DOMAIN replies : 1 < j => ~Told(j)
        BY <2>2, <3>4
      <4>2. replies[1].val = timeout
        BY <2>2, <3>5, <4>1 DEF FreshOK
      <4> QED
        BY <2>1, <2>2, <3>2, <3>5, <4>2 DEF Told
    <3>6. CASE ~Told(1)
      <4>1. uiTimeout = timeout
        BY <2>7, <3>2, <3>3, <3>4, <3>6 DEF FreshOK
      <4> QED
        BY <2>1, <2>2, <3>2, <3>6, <4>1 DEF Told
    <3> QED
      BY <3>5, <3>6
  <2> QED
    BY <2>6, <2>7 DEF FreshOK, Told, Asked
<1>7. CASE (\E c \in Command : UserCalls(c)) \/ AutoLocks
  <2>1. PICK c \in Command : queue' = Append(queue, c)
    BY <1>7 DEF UserCalls, AutoLocks, Command
  <2>2. UNCHANGED <<replies, timeout, uiTimeout, task, screen>>
    BY <1>7 DEF UserCalls, AutoLocks, settingsVars, uiVars
  <2>3. Asked => Asked'
    BY <2>1, <2>2, QueueOrder DEF Asked
  <2> QED
    BY <1>1, <2>2, <2>3
<1>8. CASE UNCHANGED <<replies, timeout, uiTimeout, task, screen, queue>>
  <2>1. Asked => Asked'
    BY <1>8 DEF Asked
  <2> QED
    BY <1>1, <1>8, <2>1
<1>9. CASE /\ ~(\E w \in Workers : Worker(w)) /\ ~(\E c \in Command : UserCalls(c))
           /\ ~AutoLocks /\ ~Restart /\ ~Resolve /\ ~Continue
  BY <1>8, <1>9
     DEF Next, vars, settingsVars, uiVars, Watchdog, WatchdogWake, WatchdogMeasure, WatchdogLock,
         UserMoves, Leave, Freeze, Tick
<1> QED
  BY <1>3, <1>4, <1>5, <1>6, <1>7, <1>9

\* The login form is shown over an open vault only while the login that opened
\* it is about to answer (AppShell.tsx:19-25, App.tsx:44-69): a reply is never
\* overtaken by a later one.
THEOREM LoginScreenCorrect == Spec => []LoginScreenMeansLocked
<1>1. LoginOK => LoginScreenMeansLocked
  BY DEF LoginOK, LoginScreenMeansLocked, Ran
<1>2. TypeOK /\ LoginOK /\ [Next]_vars => LoginOK'
  BY LoginStep
<1> QED
  BY <1>1, <1>2, ScreenInit, TypeCorrect, PTL DEF Spec

\* With no settings command in flight the idle timer of the user interface runs
\* with the timeout of the watchdog (VaultScreen.tsx:203-216, settings.rs:80-97),
\* after any saves, failed saves, locks and logins.
THEOREM UiTimeoutCorrect == Spec => []UiTimeoutFresh
<1>1. FreshOK => UiTimeoutFresh
  BY DEF FreshOK, UiTimeoutFresh, Asked, Told, Busy
<1>2. TypeOK /\ FreshOK /\ [Next]_vars => FreshOK'
  BY FreshStep
<1> QED
  BY <1>1, <1>2, ScreenInit, TypeCorrect, PTL DEF Spec
===============================================================================
