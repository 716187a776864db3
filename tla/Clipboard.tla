------------------------------- MODULE Clipboard -------------------------------
(***************************************************************************)
(* The copies that clear themselves (shared-ui/clipboard.ts) and the       *)
(* clipboard of the system, which is not part of the program: it answers   *)
(* the calls in any order and may refuse one.                              *)
(*                                                                         *)
(*   clip     what the clipboard holds                                     *)
(*   calls    the calls to it under way: op, the text they are about, and  *)
(*            the delay of a copy                                          *)
(*   timers   the timers of setTimeout: the copy that set it (a number),   *)
(*            its text and the time that is left                           *)
(*   pending  pendingClear: the timer to cancel, 0 for null                *)
(*   copied   the number of copies made so far                             *)
(*   warned   a clear has failed, which the console says                   *)
(*   running  the window is open: its timers die with it                   *)
(***************************************************************************)
EXTENDS Naturals, Sequences, SequencesExt

CONSTANTS
    Delays,      \* clipboard_clear_seconds
    MaxCopies    \* bound: copies made

ASSUME ClipboardAssumption == Delays \subseteq Nat \ {0} /\ MaxCopies \in Nat

VARIABLES clip, calls, timers, pending, copied, warned, running
clipVars == <<clip, calls, timers, pending, copied, warned, running>>

Empty == <<>>
Other == <<-1>>      \* what another program copies

ClipboardInit ==
    /\ clip = Other /\ calls = <<>> /\ timers = {} /\ pending = 0
    /\ copied = 0 /\ warned = FALSE /\ running = TRUE

WriteText(text, delay) == [op |-> "copy", text |-> text, delay |-> delay]
Check(op, text) == [op |-> op, text |-> text, delay |-> 0]

\* Mutant: the timer of the copy before goes on.
NotCancelled == timers

\* clearTimeout of pendingClear.
NotPending == {t \in timers : t.copy # pending}

\* writeText is done, and `then` sets the timer.
CopyDone(k) ==
    LET call == calls[k]
        timer == [copy |-> copied + 1, text |-> call.text, left |-> call.delay]
    IN  /\ call.op = "copy" /\ copied < MaxCopies
        /\ clip' = call.text
        /\ timers' = NotPending \cup {timer}
        /\ pending' = copied + 1 /\ copied' = copied + 1
        /\ calls' = RemoveAt(calls, k)
        /\ UNCHANGED warned

\* readText is done: the text is cleared if the clipboard still holds it.
ReadDone(k) ==
    LET call == calls[k]
    IN  /\ call.op = "read"
        /\ calls' = IF clip = call.text
                    THEN Append(RemoveAt(calls, k), Check("clear", call.text))
                    ELSE RemoveAt(calls, k)
        /\ UNCHANGED <<clip, timers, pending, copied, warned>>

\* writeText("") is done.
ClearDone(k) ==
    /\ calls[k].op = "clear"
    /\ clip' = Empty
    /\ calls' = RemoveAt(calls, k)
    /\ UNCHANGED <<timers, pending, copied, warned>>

\* Mutant: a read that fails ends the clearing.
RefusedOpen(k) ==
    /\ calls' = RemoveAt(calls, k)
    /\ warned' = (warned \/ calls[k].op = "clear")
    /\ UNCHANGED <<clip, timers, pending, copied>>

\* A call is refused: no copy is made; a read that fails clears all the same;
\* a clear that fails is not tried again.
Refused(k) ==
    LET call == calls[k]
    IN  /\ calls' = IF call.op = "read"
                    THEN Append(RemoveAt(calls, k), Check("clear", call.text))
                    ELSE RemoveAt(calls, k)
        /\ warned' = (warned \/ call.op = "clear")
        /\ UNCHANGED <<clip, timers, pending, copied>>

AnswerCall(op) ==
    /\ running
    /\ \E k \in DOMAIN calls :
         /\ calls[k].op = op
         /\ CopyDone(k) \/ ReadDone(k) \/ ClearDone(k) \/ Refused(k)
    /\ UNCHANGED running

\* The time of a timer is up.
Fire ==
    /\ running
    /\ \E t \in timers :
         /\ t.left = 0
         /\ timers' = timers \ {t}
         /\ pending' = 0
         /\ calls' = Append(calls, Check("read", t.text))
    /\ UNCHANGED <<clip, copied, warned, running>>

\* A timer that is due fires before time goes on.
Tick ==
    /\ running /\ timers # {} /\ \A t \in timers : t.left > 0
    /\ timers' = {[copy |-> t.copy, text |-> t.text, left |-> t.left - 1] : t \in timers}
    /\ UNCHANGED <<clip, calls, pending, copied, warned, running>>

OtherCopy ==
    /\ clip # Other /\ clip' = Other
    /\ UNCHANGED <<calls, timers, pending, copied, warned, running>>

\* The window is closed.
Quit ==
    /\ running /\ running' = FALSE
    /\ calls' = <<>> /\ timers' = {} /\ pending' = 0
    /\ UNCHANGED <<clip, copied, warned>>

Ops == {"copy", "read", "clear"}
ClipboardNext == (\E op \in Ops : AnswerCall(op)) \/ Fire \/ Tick \/ OtherCopy \/ Quit

\* The system answers every call, a timer that is due fires, time goes on.
ClipboardFairness ==
    /\ \A op \in Ops : WF_clipVars(AnswerCall(op))
    /\ WF_clipVars(Fire) /\ WF_clipVars(Tick)
=============================================================================
