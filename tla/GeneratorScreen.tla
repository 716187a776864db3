--------------------------- MODULE GeneratorScreen ---------------------------
(***************************************************************************)
(* The screen of the generator (GeneratorScreen.tsx) over the commands of  *)
(* Generator and the copies of Clipboard.                                  *)
(*                                                                         *)
(*   policy        the inputs of the screen                                *)
(*   value, error  what it shows                                           *)
(*   queue         its commands on their way, which the main thread takes  *)
(*                 in order: "generate" with the policy of the effect,     *)
(*                 "settings" with the text that is to be copied           *)
(*   edits         the changes and new draws made so far                   *)
(***************************************************************************)
EXTENDS Generator, Clipboard

CONSTANTS
    DefaultPolicy,   \* the inputs that useState starts with
    Classes, Lengths,
    MaxEdits         \* bound: edits made

ASSUME ScreenAssumption == Lengths \subseteq Nat /\ MaxEdits \in Nat

VARIABLES policy, value, error, queue, edits
screenVars == <<policy, value, error, queue, edits>>
vars == <<screenVars, clipVars>>

Policies == [tab : {"password", "passphrase"}, length : Lengths, words : Lengths,
             classes : SUBSET Classes, excludeAmbiguous : BOOLEAN, lang : DOMAIN Wordlist]

\* No symbol and no word is there twice, which the tests of generator/mod.rs
\* say of the wordlists, and there are fewer than u32 can count.
ASSUME PolicyAssumption ==
    /\ DefaultPolicy \in Policies
    /\ \A p \in Policies :
         LET entries == Entries(p)
         IN  /\ entries \in Seq(Int) /\ Len(entries) <= WordMax
             /\ \A k, l \in DOMAIN entries : entries[k] = entries[l] => k = l

GenerateCommand(p) == [cmd |-> "generate", policy |-> p]
SettingsCommand(text) == [cmd |-> "settings", text |-> text]
Generating == \E k \in DOMAIN queue : queue[k].cmd = "generate"

\* The screen is mounted: the effect asks for a first value.
Init ==
    /\ ClipboardInit
    /\ policy = DefaultPolicy /\ value = Empty /\ error = FALSE
    /\ queue = <<GenerateCommand(DefaultPolicy)>> /\ edits = 0

\* Mutant: the language is not among the dependencies of the effect.
EffectWithoutLang(p) ==
    IF p.lang # policy.lang THEN queue ELSE Append(queue, GenerateCommand(p))

\* The effect runs after every change of an input and of the tick.
Effect(p) == Append(queue, GenerateCommand(p))

\* One input is changed, or the user asks for a new draw.
Edits ==
    {policy} \cup
    {[policy EXCEPT !.tab = tab] : tab \in {"password", "passphrase"}} \cup
    {[policy EXCEPT !.length = n] : n \in Lengths} \cup
    {[policy EXCEPT !.words = n] : n \in Lengths} \cup
    {[policy EXCEPT !.classes = (@ \cup {c}) \ (@ \cap {c})] : c \in Classes} \cup
    {[policy EXCEPT !.excludeAmbiguous = ~@]} \cup
    {[policy EXCEPT !.lang = lang] : lang \in DOMAIN Wordlist}

Edit ==
    /\ running /\ edits < MaxEdits /\ edits' = edits + 1
    /\ \E p \in Edits : policy' = p /\ queue' = Effect(p)
    /\ UNCHANGED <<value, error, clipVars>>

\* The command is run and its promise settles: a failure keeps the value.
AnswerGenerate ==
    /\ running /\ queue # <<>> /\ Head(queue).cmd = "generate"
    /\ LET drawn == Generated(Head(queue).policy)
       IN  IF drawn = {} THEN error' = TRUE /\ UNCHANGED value
           ELSE error' = FALSE /\ value' \in drawn
    /\ queue' = Tail(queue)
    /\ UNCHANGED <<policy, edits, clipVars>>

\* copy of useCopyFeedback, on the value that is shown.
ClickCopy ==
    LET waiting == SelectSeq(queue, LAMBDA c : c.cmd = "settings")
                   \o SelectSeq(calls, LAMBDA c : c.op = "copy")
    IN  /\ running /\ copied + Len(waiting) < MaxCopies
        /\ queue' = Append(queue, SettingsCommand(value))
        /\ UNCHANGED <<policy, value, error, edits, clipVars>>

\* getSettings answers with the delay, or fails and nothing is copied.
AnswerSettings ==
    /\ running /\ queue # <<>> /\ Head(queue).cmd = "settings"
    /\ queue' = Tail(queue)
    /\ \/ \E delay \in Delays : calls' = Append(calls, WriteText(Head(queue).text, delay))
       \/ UNCHANGED calls
    /\ UNCHANGED <<clip, timers, pending, copied, warned, running>>
    /\ UNCHANGED <<policy, value, error, edits>>

Next ==
    \/ Edit \/ AnswerGenerate \/ ClickCopy \/ AnswerSettings
    \/ ClipboardNext /\ UNCHANGED screenVars

Spec == Init /\ [][Next]_vars /\ ClipboardFairness

----------------------------------------------------------------------------
(* Properties *)

Texts == Seq(Int)

\* The types, and that there is never a timer but the one that pendingClear
\* remembers.
TypeOK ==
    /\ policy \in Policies /\ value \in Texts /\ error \in BOOLEAN
    /\ edits \in 0 .. MaxEdits
    /\ \A k \in DOMAIN queue :
         IF queue[k].cmd = "generate" THEN queue[k].policy \in Policies ELSE queue[k].text \in Texts
    /\ clip \in Texts /\ copied \in 0 .. MaxCopies
    /\ warned \in BOOLEAN /\ running \in BOOLEAN
    /\ \A k \in DOMAIN calls : calls[k].op \in Ops /\ calls[k].text \in Texts
    /\ \A t \in timers : t.text \in Texts /\ t.left \in Nat
    /\ {t.copy : t \in timers} = IF pending = 0 THEN {} ELSE {pending}

\* Every symbol of the charset, or word of the list, comes from equally many
\* of the values that random_index accepts, and one of them at least
\* (generator/mod.rs:118).
EntriesEquallyLikely ==
    LET entries == Entries(policy)
        drawnBy(s) == {val \in Accepted(Len(entries)) : entries[(val % Len(entries)) + 1] = s}
    IN  \A k, l \in DOMAIN entries :
          /\ drawnBy(entries[k]) # {}
          /\ Cardinality(drawnBy(entries[k])) = Cardinality(drawnBy(entries[l]))

\* Once the commands are answered the screen shows a value of the policy its
\* inputs say, or the error of a policy that has none; no answer to an earlier
\* policy is left standing (GeneratorScreen.tsx:49).
ValueFitsPolicy ==
    running /\ ~Generating =>
        /\ error <=> Generated(policy) = {}
        /\ ~error => value \in Generated(policy)

\* The timer that goes off is that of the last copy, never of an earlier one
\* (clipboard.ts:4).
TimerFollowsLastCopy ==
    [][\A t \in timers : Fire /\ t \notin timers' => t.copy = copied]_vars

\* What was copied and is still in the clipboard has its clearing before it: a
\* timer with this text, or the check or clear that a timer has begun, however
\* many copies, refusals and other programs there are (clipboard.ts:15-45).
CopyAttended ==
    running /\ ~warned /\ clip \notin {Empty, Other} =>
        \/ \E t \in timers : t.text = clip
        \/ \E k \in DOMAIN calls : calls[k].op \in {"read", "clear"} /\ calls[k].text = clip

\* A value that was copied leaves the clipboard, unless the clear was refused,
\* which the console says, or the window was closed first (clipboard.ts:1).
SecretLeaves ==
    \A text \in UNION {Generated(p) : p \in Policies} :
        clip = text ~> clip # text \/ warned \/ ~running
=============================================================================
