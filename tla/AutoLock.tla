------------------------------- MODULE AutoLock -------------------------------
(***************************************************************************)
(* The unlocked vault of one desktop process, and what locks it again: the *)
(* lock command of the user interface (useAutoLock.ts, AppShell.tsx) and   *)
(* the watchdog thread of lib.rs.  Commands run on Workers: Tauri runs     *)
(* commands that are not async on its main thread, one worker, while       *)
(* api.rs:2 speaks of a pool.  Time is counted in steps of one check of    *)
(* the user interface; a thread that can run does so within a step, a      *)
(* command that waits for the network may take any number of steps.        *)
(*                                                                         *)
(*   unlocked   session.unlocked holds a vault                             *)
(*   mutex      the worker that holds session.unlocked locked, or Free     *)
(*   idle       time since last_activity                                   *)
(*   timeout    auto_lock_minutes in the cache of settings.rs              *)
(*   disk       the same in settings.json, Unreadable when the file is     *)
(*              absent or cut short                                        *)
(*   watchdog   where the thread is; limit, the timeout it last read;      *)
(*   wake       how long it has slept                                      *)
(*   task       the command a worker runs, its step, the value it saves    *)
(*   queue      invocations no worker has taken; replies, the promises to  *)
(*              resolve                                                    *)
(*   screen     "login" stands for both forms, "reveal" shows the Secret   *)
(*              Key, "vault" is the AppShell                               *)
(*   uiTimeout  auto_lock_minutes in the state of VaultScreen              *)
(*   away       time since the last DOM event                              *)
(*   present    somebody uses the program; frozen, the renderer hangs      *)
(***************************************************************************)
EXTENDS Naturals, Sequences, FiniteSets

CONSTANTS
    Workers,
    Free,            \* no worker
    Timeouts,        \* the values the clamp of settings.rs lets through
    DefaultTimeout,
    Unreadable,      \* no settings can be read from the file
    Poll,            \* WATCHDOG_POLL_INTERVAL
    Cap,             \* bound: clocks stop counting here
    MaxCalls         \* bound: no call is made with this many in flight

ASSUME WorkersAssumption == Free \notin Workers
ASSUME TimeoutsAssumption ==
    /\ Timeouts \subseteq Nat \ {0}
    /\ DefaultTimeout \in Timeouts
    /\ Unreadable \notin Timeouts
ASSUME BoundsAssumption == Poll \in Nat \ {0} /\ Cap \in Nat /\ MaxCalls \in Nat

VARIABLES
    unlocked, mutex, idle, timeout, disk, watchdog, limit, wake, task,
    queue, replies, screen, uiTimeout, away, present, frozen

sessionVars == <<unlocked, mutex, idle>>
settingsVars == <<timeout, disk>>
watchdogVars == <<watchdog, limit, wake>>
uiVars == <<screen, uiTimeout, away, present, frozen>>
vars == <<sessionVars, settingsVars, watchdogVars, task, queue, replies, uiVars>>

Opening == {"login", "register"}
Command == Opening \cup {"item", "lock", "get", "save"}
Step == {"start", "acquire", "calls", "open", "touch", "write", "cache"}
NoTask == [cmd |-> "none", step |-> "start", val |-> DefaultTimeout]

TypeOK ==
    /\ unlocked \in BOOLEAN
    /\ mutex \in Workers \cup {Free}
    /\ idle \in 0 .. Cap
    /\ timeout \in Timeouts
    /\ disk \in Timeouts \cup {Unreadable}
    /\ watchdog \in {"asleep", "measure", "expired"}
    /\ limit \in Timeouts
    /\ wake \in 0 .. Poll
    /\ task \in [Workers -> [cmd : Command \cup {"none"}, step : Step, val : Timeouts]]
    /\ queue \in Seq(Command)
    /\ replies \in Seq([cmd : Command, val : Timeouts])
    /\ screen \in {"login", "reveal", "vault"}
    /\ uiTimeout \in Timeouts
    /\ away \in 0 .. Cap
    /\ present \in BOOLEAN
    /\ frozen \in BOOLEAN

\* Mutant: an unreadable file is not replaced by the default.
LoadRaw(file) == file

\* SettingsStore::load, with the clamp that Timeouts stands for.
Load(file) == IF file \in Timeouts THEN file ELSE DefaultTimeout

\* A process that has just started: nothing but the file is kept.
Started(file) ==
    /\ unlocked' = FALSE /\ mutex' = Free /\ idle' = 0
    /\ timeout' = Load(file) /\ disk' = file
    /\ watchdog' = "asleep" /\ limit' = Load(file) /\ wake' = 0
    /\ task' = [w \in Workers |-> NoTask]
    /\ queue' = <<>> /\ replies' = <<>>
    /\ screen' = "login" /\ uiTimeout' = DefaultTimeout /\ away' = 0
    /\ present' = TRUE /\ frozen' = FALSE

Init ==
    /\ unlocked = FALSE /\ mutex = Free /\ idle = 0
    /\ disk \in Timeouts \cup {Unreadable} /\ timeout = Load(disk)
    /\ watchdog = "asleep" /\ limit = timeout /\ wake = 0
    /\ task = [w \in Workers |-> NoTask]
    /\ queue = <<>> /\ replies = <<>>
    /\ screen = "login" /\ uiTimeout = DefaultTimeout /\ away = 0
    /\ present = TRUE /\ frozen = FALSE

----------------------------------------------------------------------------
(* Commands *)

At(w, cmds, step) == task[w].cmd \in cmds /\ task[w].step = step
Enter(w, cmd, step, val) ==
    task' = [task EXCEPT ![w] = [cmd |-> cmd, step |-> step, val |-> val]]
Goto(w, step) == Enter(w, task[w].cmd, step, task[w].val)

\* The command returns an error, or a result that changes no screen.
Finish(w) == task' = [task EXCEPT ![w] = NoTask] /\ UNCHANGED replies

\* The command returns Ok(val).
Answer(w, val) ==
    /\ task' = [task EXCEPT ![w] = NoTask]
    /\ replies' = Append(replies, [cmd |-> task[w].cmd, val |-> val])

Start(w) ==
    /\ task[w] = NoTask /\ queue # <<>>
    /\ Enter(w, Head(queue), "start", DefaultTimeout)
    /\ queue' = Tail(queue)
    /\ UNCHANGED <<sessionVars, settingsVars, watchdogVars, replies, uiVars>>

\* list_items, create_item, update_item, delete_item
ItemTouch(w) ==
    /\ At(w, {"item"}, "start")
    /\ idle' = 0
    /\ Goto(w, "acquire")
    /\ UNCHANGED <<unlocked, mutex, settingsVars, watchdogVars, queue, replies, uiVars>>

ItemAcquire(w) ==
    /\ At(w, {"item"}, "acquire")
    /\ mutex = Free /\ unlocked
    /\ mutex' = w
    /\ Goto(w, "calls")
    /\ UNCHANGED <<unlocked, idle, settingsVars, watchdogVars, queue, replies, uiVars>>

\* "vault bloccato"
ItemRefused(w) ==
    /\ At(w, {"item"}, "acquire")
    /\ mutex = Free /\ ~unlocked
    /\ Finish(w)
    /\ UNCHANGED <<sessionVars, settingsVars, watchdogVars, queue, uiVars>>

\* The calls of the command have been answered, or one of them has failed.
ItemReturn(w) ==
    /\ At(w, {"item"}, "calls")
    /\ mutex' = Free
    /\ Finish(w)
    /\ UNCHANGED <<unlocked, idle, settingsVars, watchdogVars, queue, uiVars>>

\* The calls of login and register, made without the mutex.
LoginCalls(w) ==
    /\ At(w, Opening, "start")
    /\ \/ Goto(w, "open") /\ UNCHANGED replies
       \/ Finish(w)
    /\ UNCHANGED <<sessionVars, settingsVars, watchdogVars, queue, uiVars>>

OpenSession(w) ==
    /\ At(w, Opening, "open")
    /\ mutex = Free
    /\ unlocked' = TRUE
    /\ Goto(w, "touch")
    /\ UNCHANGED <<mutex, idle, settingsVars, watchdogVars, queue, replies, uiVars>>

LoginTouch(w) ==
    /\ At(w, Opening, "touch")
    /\ idle' = 0
    /\ Answer(w, DefaultTimeout)
    /\ UNCHANGED <<unlocked, mutex, settingsVars, watchdogVars, queue, uiVars>>

Lock(w) ==
    /\ At(w, {"lock"}, "start")
    /\ mutex = Free
    /\ unlocked' = FALSE
    /\ Answer(w, DefaultTimeout)
    /\ UNCHANGED <<mutex, idle, settingsVars, watchdogVars, queue, uiVars>>

GetSettings(w) ==
    /\ At(w, {"get"}, "start")
    /\ Answer(w, timeout)
    /\ UNCHANGED <<sessionVars, settingsVars, watchdogVars, queue, uiVars>>

\* Mutant: the cache is updated first.
SaveCacheFirst(w) ==
    /\ At(w, {"save"}, "start")
    /\ \E t \in Timeouts :
        /\ timeout' = t
        /\ \/ Finish(w) /\ UNCHANGED disk
           \/ /\ Enter(w, "save", "write", t)
              /\ disk' = Unreadable
              /\ UNCHANGED replies
    /\ UNCHANGED <<sessionVars, watchdogVars, queue, uiVars>>

\* create_dir_all fails, or fs::write has emptied the file.
SaveStart(w) ==
    /\ At(w, {"save"}, "start")
    /\ \/ Finish(w) /\ UNCHANGED disk
       \/ \E t \in Timeouts :
            /\ Enter(w, "save", "write", t)
            /\ disk' = Unreadable
            /\ UNCHANGED replies
    /\ UNCHANGED <<sessionVars, timeout, watchdogVars, queue, uiVars>>

\* fs::write writes the bytes, or fails and leaves the file cut short.
SaveWrite(w) ==
    /\ At(w, {"save"}, "write")
    /\ \/ disk' = task[w].val /\ Goto(w, "cache") /\ UNCHANGED replies
       \/ disk' = Unreadable /\ Finish(w)
    /\ UNCHANGED <<sessionVars, timeout, watchdogVars, queue, uiVars>>

SaveCache(w) ==
    /\ At(w, {"save"}, "cache")
    /\ timeout' = task[w].val
    /\ Answer(w, task[w].val)
    /\ UNCHANGED <<sessionVars, disk, watchdogVars, queue, uiVars>>

Worker(w) ==
    \/ Start(w)
    \/ ItemTouch(w) \/ ItemAcquire(w) \/ ItemRefused(w) \/ ItemReturn(w)
    \/ LoginCalls(w) \/ OpenSession(w) \/ LoginTouch(w)
    \/ Lock(w)
    \/ GetSettings(w) \/ SaveStart(w) \/ SaveWrite(w) \/ SaveCache(w)

----------------------------------------------------------------------------
(* The watchdog *)

WatchdogWake ==
    /\ watchdog = "asleep" /\ wake = Poll
    /\ limit' = timeout
    /\ watchdog' = "measure"
    /\ UNCHANGED <<sessionVars, settingsVars, wake, task, queue, replies, uiVars>>

\* Mutant: the vault may be idle for the whole timeout.
MeasureLate ==
    /\ watchdog = "measure"
    /\ IF idle <= limit
       THEN watchdog' = "asleep" /\ wake' = 0
       ELSE watchdog' = "expired" /\ UNCHANGED wake
    /\ UNCHANGED <<sessionVars, settingsVars, limit, task, queue, replies, uiVars>>

\* Mutant: a tick that has nothing to lock ends the thread.
MeasureOnce ==
    /\ watchdog = "measure"
    /\ watchdog' = IF idle < limit THEN "ended" ELSE "expired"
    /\ UNCHANGED <<sessionVars, settingsVars, limit, wake, task, queue, replies, uiVars>>

WatchdogMeasure ==
    /\ watchdog = "measure"
    /\ IF idle < limit
       THEN watchdog' = "asleep" /\ wake' = 0
       ELSE watchdog' = "expired" /\ UNCHANGED wake
    /\ UNCHANGED <<sessionVars, settingsVars, limit, task, queue, replies, uiVars>>

\* Mutant: the vault is taken whoever holds the mutex.
WatchdogSeizes ==
    /\ watchdog = "expired"
    /\ unlocked' = FALSE
    /\ watchdog' = "asleep" /\ wake' = 0
    /\ UNCHANGED <<mutex, idle, settingsVars, limit, task, queue, replies, uiVars>>

WatchdogLock ==
    /\ watchdog = "expired"
    /\ mutex = Free
    /\ unlocked' = FALSE
    /\ watchdog' = "asleep" /\ wake' = 0
    /\ UNCHANGED <<mutex, idle, settingsVars, limit, task, queue, replies, uiVars>>

Watchdog == WatchdogWake \/ WatchdogMeasure \/ WatchdogLock

----------------------------------------------------------------------------
(* The user interface *)

InFlight == Len(queue) + Cardinality({w \in Workers : task[w] # NoTask}) + Len(replies)
MayCall == ~frozen /\ InFlight < MaxCalls

Offered == IF screen = "login" THEN Opening
           ELSE IF screen = "vault" THEN {"item", "lock", "save"} ELSE {}

\* Mutant: AppShell shows the login form without waiting for lock.
UserCallsAtOnce(c) ==
    /\ present /\ MayCall /\ c \in Offered
    /\ queue' = Append(queue, c)
    /\ away' = 0
    /\ screen' = IF c = "lock" THEN "login" ELSE screen
    /\ UNCHANGED <<sessionVars, settingsVars, watchdogVars, task, replies, uiTimeout, present, frozen>>

UserCalls(c) ==
    /\ present /\ MayCall /\ c \in Offered
    /\ queue' = Append(queue, c)
    /\ away' = 0
    /\ UNCHANGED <<sessionVars, settingsVars, watchdogVars, task, replies, screen, uiTimeout, present, frozen>>

\* markActive
UserMoves ==
    /\ present /\ ~frozen /\ screen = "vault"
    /\ away' = 0
    /\ UNCHANGED <<sessionVars, settingsVars, watchdogVars, task, queue, replies, screen, uiTimeout, present, frozen>>

\* The idle timer has run out, or the window is hidden.
IdleDue == screen = "vault" /\ away >= uiTimeout
AutoLocks ==
    /\ MayCall /\ screen = "vault"
    /\ IdleDue \/ present
    /\ queue' = Append(queue, "lock")
    /\ UNCHANGED <<sessionVars, settingsVars, watchdogVars, task, replies, uiVars>>

\* Mutant: the settings are not asked for.
MountWithDefaults ==
    /\ screen' = "vault"
    /\ uiTimeout' = DefaultTimeout
    /\ away' = 0
    /\ queue' = Append(queue, "item")

\* VaultScreen is mounted: it lists the items and asks for the settings.
MountVault ==
    /\ screen' = "vault"
    /\ uiTimeout' = DefaultTimeout
    /\ away' = 0
    /\ queue' = queue \o <<"item", "get">>

Continue ==
    /\ present /\ ~frozen /\ screen = "reveal"
    /\ MountVault
    /\ UNCHANGED <<sessionVars, settingsVars, watchdogVars, task, replies, present, frozen>>

\* The promise of the oldest reply resolves.
Resolve ==
    /\ ~frozen /\ replies # <<>>
    /\ replies' = Tail(replies)
    /\ LET r == Head(replies) IN
        \/ /\ r.cmd = "login" /\ screen # "vault"
           /\ MountVault
        \/ /\ r.cmd \in {"register", "lock"}
           /\ screen' = IF r.cmd = "lock" THEN "login" ELSE "reveal"
           /\ UNCHANGED <<uiTimeout, away, queue>>
        \/ /\ r.cmd \in {"get", "save"} /\ screen = "vault"
           /\ uiTimeout' = r.val
           /\ UNCHANGED <<screen, away, queue>>
        \/ /\ \/ r.cmd = "login" /\ screen = "vault"
              \/ r.cmd \in {"get", "save"} /\ screen # "vault"
           /\ UNCHANGED <<screen, uiTimeout, away, queue>>
    /\ UNCHANGED <<sessionVars, settingsVars, watchdogVars, task, present, frozen>>

Leave ==
    /\ present /\ present' = FALSE
    /\ UNCHANGED <<sessionVars, settingsVars, watchdogVars, task, queue, replies, screen, uiTimeout, away, frozen>>

Freeze ==
    /\ ~frozen /\ frozen' = TRUE
    /\ UNCHANGED <<sessionVars, settingsVars, watchdogVars, task, queue, replies, screen, uiTimeout, away, present>>

----------------------------------------------------------------------------

\* The process ends, at any point, and is started again.
Restart == present /\ Started(disk)

Later(clock) == IF clock < Cap THEN clock + 1 ELSE Cap

\* Time passes while nothing that does not wait is left to do.
Tick ==
    /\ \/ watchdog = "asleep" /\ wake < Poll
       \/ watchdog = "expired" /\ mutex # Free
    /\ ~(IdleDue /\ MayCall)
    /\ idle' = Later(idle)
    /\ away' = Later(away)
    /\ wake' = IF watchdog = "asleep" THEN wake + 1 ELSE wake
    /\ UNCHANGED <<unlocked, mutex, settingsVars, watchdog, limit, task, queue, replies,
                   screen, uiTimeout, present, frozen>>

Next ==
    \/ \E w \in Workers : Worker(w)
    \/ Watchdog
    \/ \E c \in Command : UserCalls(c)
    \/ UserMoves \/ AutoLocks \/ Continue \/ Resolve \/ Leave \/ Freeze
    \/ Restart
    \/ Tick

Spec == Init /\ [][Next]_vars

\* Threads are scheduled, time passes, a call of a command returns, and a
\* renderer that does not hang runs its callbacks.
Fairness ==
    /\ \A w \in Workers : WF_vars(Worker(w))
    /\ WF_vars(Watchdog) /\ WF_vars(Tick)
    /\ WF_vars(Resolve) /\ WF_vars(AutoLocks /\ IdleDue)

FairSpec == Spec /\ Fairness

----------------------------------------------------------------------------
(* Properties *)

Busy(cmds) ==
    \/ \E w \in Workers : task[w].cmd \in cmds
    \/ \E i \in DOMAIN queue : queue[i] \in cmds
    \/ \E i \in DOMAIN replies : replies[i].cmd \in cmds

\* The vault is open and login has not touched the activity clock yet
\* (commands.rs:204-216).
BeingOpened == \E w \in Workers : At(w, Opening, "touch")

\* The watchdog closes a vault no command has used for the timeout within one
\* poll interval; it is later only while it waits for the mutex.  The timeout is
\* the one its last round read (lib.rs:70-87).
BackstopInTime ==
    unlocked /\ ~BeingOpened /\ idle >= limit + Poll => watchdog # "asleep"

\* A command that has found the vault open keeps it until it returns, whatever
\* the watchdog measured before the command touched the clock (items.rs:198-207,
\* lib.rs:75-82).
ItemKeepsVault ==
    \A w \in Workers : At(w, {"item"}, "calls") => unlocked /\ mutex = w

\* Whoever sees the login form knows that the vault is closed, unless a login
\* that has just opened it is about to answer (AppShell.tsx:19-25, App.tsx:44-69).
LoginScreenMeansLocked ==
    screen = "login" /\ unlocked =>
        \/ BeingOpened
        \/ \E i \in DOMAIN replies : replies[i].cmd \in Opening

\* With no settings command in flight the idle timer of the user interface runs
\* with the timeout of the watchdog (VaultScreen.tsx:203-216, settings.rs:80-97).
UiTimeoutFresh ==
    screen = "vault" /\ ~Busy({"get", "save"}) => uiTimeout = timeout

\* Outside a save, a file that can be read holds the settings in use: no failed
\* save and no crash leaves other valid settings (settings.rs:80-91).  It may leave
\* a file that cannot be read, see SettingsInStep.
SettingsOnDisk ==
    (\A w \in Workers : task[w].cmd # "save") => disk \in {timeout, Unreadable}

\* What settings.rs:48-50 says: the cache changes only when the file has been
\* written, so the two never disagree.  Settings other than the default come from
\* the file or from a save; outside a save they should be in the file.
SettingsInStep ==
    (\A w \in Workers : task[w].cmd # "save") /\ timeout # DefaultTimeout
        => disk = timeout

\* Once the user has gone the vault is closed for good, by the watchdog even if
\* the renderer hangs, and a renderer that works shows it no more (lib.rs:64-69).
EventuallyLocked ==
    /\ ~present ~> []~unlocked
    /\ ~present ~> frozen \/ screen # "vault"

\* What lib.rs:64-66 says: with no command for the whole timeout the watchdog
\* locks all the same.  A poll interval is allowed for.
BackstopAnyway ==
    ~BeingOpened /\ (\A t \in Timeouts : idle > t + Poll) => ~unlocked
===============================================================================
