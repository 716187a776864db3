------------------------- MODULE GeneratorScreen_proofs -------------------------
(***************************************************************************)
(* Theorems about the values and the copies of GeneratorScreen, for every  *)
(* charset, wordlist, delay and number of edits and copies.                *)
(***************************************************************************)
EXTENDS GeneratorScreen, SequenceTheorems, FiniteSetTheorems, TLAPS

----------------------------------------------------------------------------
(* Copies *)

\* There is one timer at most; it is the one pendingClear remembers, and that
\* of the last copy.
TimerInv ==
    /\ copied \in Nat
    /\ pending \in {0, copied}
    /\ \A t \in timers : t.copy = pending /\ pending # 0
    /\ \A t, u \in timers : t = u

\* At first there is no timer.
LEMMA TimerInit == Init => TimerInv
BY DEF Init, ClipboardInit, TimerInv

\* What the steps leave alone.
LEMMA TimerUnchanged ==
    ASSUME TimerInv, UNCHANGED <<timers, pending, copied>> PROVE TimerInv'
BY DEF TimerInv

\* A copy replaces the timer there was, and firing leaves none.
LEMMA TimerStep == TimerInv /\ [Next]_vars => TimerInv'
<1> SUFFICES ASSUME TimerInv, [Next]_vars PROVE TimerInv'
  OBVIOUS
<1>1. ASSUME NEW op \in Ops, AnswerCall(op) PROVE TimerInv'
  <2> PICK k \in DOMAIN calls : CopyDone(k) \/ ReadDone(k) \/ ClearDone(k) \/ Refused(k)
    BY <1>1 DEF AnswerCall
  <2>1. CASE CopyDone(k)
    <3> DEFINE timer == [copy |-> copied + 1, text |-> calls[k].text, left |-> calls[k].delay]
    <3>1. timers' = NotPending \cup {timer} /\ pending' = copied + 1 /\ copied' = copied + 1
      BY <2>1 DEF CopyDone
    <3>2. NotPending = {}
      BY DEF NotPending, TimerInv
    <3>3. timer.copy = copied + 1
      OBVIOUS
    <3> HIDE DEF timer
    <3> QED
      BY <3>1, <3>2, <3>3 DEF TimerInv
  <2>2. CASE ReadDone(k) \/ ClearDone(k) \/ Refused(k)
    BY <2>2, TimerUnchanged DEF ReadDone, ClearDone, Refused
  <2> QED
    BY <2>1, <2>2
<1>2. CASE Fire
  <2>1. timers' = {} /\ pending' = 0 /\ copied' = copied
    BY <1>2 DEF Fire, TimerInv
  <2> QED
    BY <2>1 DEF TimerInv
<1>3. CASE Tick
  <2>1. /\ timers' = {[copy |-> t.copy, text |-> t.text, left |-> t.left - 1] : t \in timers}
        /\ pending' = pending /\ copied' = copied
    BY <1>3 DEF Tick
  <2> QED
    BY <2>1 DEF TimerInv
<1>4. CASE Quit
  BY <1>4 DEF Quit, TimerInv
<1>5. CASE OtherCopy \/ Edit \/ AnswerGenerate \/ ClickCopy \/ AnswerSettings \/ UNCHANGED vars
  BY <1>5, TimerUnchanged DEF OtherCopy, Edit, AnswerGenerate, ClickCopy, AnswerSettings, vars,
                              clipVars
<1> QED
  BY <1>1, <1>2, <1>3, <1>4, <1>5 DEF Next, ClipboardNext

\* The timer that goes off is that of the last copy, for any delays and in any
\* order of the clipboard's answers.
THEOREM TimerFollowsLastCopyCorrect == Spec => TimerFollowsLastCopy
<1>1. TimerInv /\ [Next]_vars =>
        [\A t \in timers : Fire /\ t \notin timers' => t.copy = copied]_vars
  BY DEF TimerInv
<1> QED
  BY <1>1, TimerInit, TimerStep, PTL DEF Spec, TimerFollowsLastCopy

----------------------------------------------------------------------------
(* Draws *)

\* Division leaves a remainder.
LEMMA Division ==
    ASSUME NEW b \in Nat \ {0}, NEW a \in Nat
    PROVE  a % b \in 0 .. (b - 1) /\ \E q \in Nat : a = b * q + (a % b)
<1>1. a % b \in 0 .. (b - 1)
  OBVIOUS
<1>2. a \div b \in Int /\ a \div b >= 0
  OBVIOUS
<1>3. a \div b \in Nat
  BY <1>2
<1>4. a = b * (a \div b) + (a % b)
  OBVIOUS
<1> QED
  BY <1>1, <1>3, <1>4

\* random_index accepts as many values for one index as for any other, and at
\* least one.
LEMMA IndexEquallyLikely ==
    ASSUME NEW b \in 1 .. WordMax
    PROVE  \E n \in Nat \ {0} : \A r \in 0 .. (b - 1) :
             /\ IsFiniteSet({val \in Accepted(b) : val % b = r})
             /\ Cardinality({val \in Accepted(b) : val % b = r}) = n
<1>1. WordMax \in Nat /\ b \in Nat \ {0} /\ b <= WordMax
  BY GeneratorAssumption
<1>2. PICK q \in Nat : WordMax = b * q + (WordMax % b) /\ WordMax % b \in 0 .. (b - 1)
  BY <1>1, Division
<1>3. q # 0
  BY <1>1, <1>2
<1>4. Limit(b) = b * q
  BY <1>1, <1>2 DEF Limit
<1>5. ASSUME NEW r \in 0 .. (b - 1)
      PROVE  /\ IsFiniteSet({val \in Accepted(b) : val % b = r})
             /\ Cardinality({val \in Accepted(b) : val % b = r}) = q
  <2> DEFINE C == {val \in Accepted(b) : val % b = r}
             f == [j \in 0 .. (q - 1) |-> b * j + r]
  <2>1. ASSUME NEW j \in 0 .. (q - 1) PROVE b * j + r \in C
    <3>1. b * j + b <= b * q
      BY <1>1
    <3>2. (b * j + r) % b = r
      BY <1>1
    <3>3. b * j \in Nat
      BY <1>1
    <3>4. b * q <= WordMax
      BY <1>1, <1>2
    <3>5. b * j + r \in 0 .. WordMax /\ b * j + r < b * q
      BY <1>1, <3>1, <3>3, <3>4
    <3> QED
      BY <1>4, <3>2, <3>5 DEF Accepted
  <2>2. \A i, j \in 0 .. (q - 1) : f[i] = f[j] => i = j
    <3>1. ASSUME NEW i \in 0 .. (q - 1), NEW j \in 0 .. (q - 1), b * i + r = b * j + r
          PROVE  i = j
      BY <1>1, <3>1
    <3> QED
      BY <3>1
  <2>3. ASSUME NEW val \in C PROVE \E j \in 0 .. (q - 1) : f[j] = val
    <3>1. val \in Nat /\ val < b * q /\ val % b = r
      BY <1>1, <1>4 DEF Accepted
    <3>2. PICK j \in Nat : val = b * j + r
      BY <1>1, <3>1, Division
    <3>3. b * j < b * q
      BY <1>1, <3>1, <3>2
    <3>4. j < q
      BY <1>1, <3>3
    <3>5. j \in 0 .. (q - 1)
      BY <3>4
    <3> QED
      BY <3>2, <3>5
  <2>4. f \in [0 .. (q - 1) -> C]
    BY <2>1
  <2>5. f \in Bijection(0 .. (q - 1), C)
    <3> HIDE DEF C, f
    <3> QED
      BY <2>2, <2>3, <2>4 DEF Bijection, Injection, Surjection, IsInjective
  <2>6. IsFiniteSet(0 .. (q - 1)) /\ Cardinality(0 .. (q - 1)) = q
    BY <1>3, FS_Interval
  <2> HIDE DEF C, f
  <2>7. IsFiniteSet(C) /\ Cardinality(C) = q
    BY <2>5, <2>6, FS_Bijection DEF ExistsBijection
  <2> QED
    BY <2>7 DEF C
<1> QED
  BY <1>3, <1>5

----------------------------------------------------------------------------
(* Types *)

Commands == [cmd : {"generate"}, policy : Policies] \cup [cmd : {"settings"}, text : Texts]
Calls == [op : Ops, text : Texts, delay : Nat]
Timers == [copy : Nat, text : Texts, left : Nat]

\* What the sequences and the timers consist of.
Shapes ==
    /\ queue \in Seq(Commands)
    /\ calls \in Seq(Calls)
    /\ timers \subseteq Timers
    /\ pending # 0 => timers # {}

IInv == TypeOK /\ Shapes /\ TimerInv

\* The two commands and the calls to the clipboard.
LEMMA CommandTypes ==
    /\ \A p \in Policies : GenerateCommand(p) \in Commands
    /\ \A text \in Texts : SettingsCommand(text) \in Commands
    /\ \A text \in Texts, op \in Ops : Check(op, text) \in Calls
    /\ \A text \in Texts, delay \in Delays : WriteText(text, delay) \in Calls
<1>1. ASSUME NEW p \in Policies PROVE GenerateCommand(p) \in Commands
  BY DEF GenerateCommand, Commands
<1>2. ASSUME NEW text \in Texts PROVE SettingsCommand(text) \in Commands
  BY DEF SettingsCommand, Commands
<1>3. ASSUME NEW text \in Texts, NEW op \in Ops PROVE Check(op, text) \in Calls
  BY DEF Check, Calls
<1>4. ASSUME NEW text \in Texts, NEW delay \in Delays PROVE WriteText(text, delay) \in Calls
  <2>1. delay \in Nat
    BY ClipboardAssumption
  <2> QED
    BY <2>1 DEF WriteText, Calls, Ops
<1> QED
  BY <1>1, <1>2, <1>3, <1>4

\* What is drawn for a policy is a text.
LEMMA GeneratedType ==
    ASSUME NEW p \in Policies
    PROVE  Generated(p) \subseteq Texts
<1> DEFINE entries == Entries(p)
           n == Size(p)
<1>1. entries \in Seq(Int)
  BY PolicyAssumption
<1>2. n \in Nat
  <2>1. p.length \in Lengths /\ p.words \in Lengths
    BY DEF Policies
  <2> QED
    BY <2>1, ScreenAssumption DEF Size
<1>3. SUFFICES ASSUME NEW text \in Generated(p) PROVE text \in Texts
  OBVIOUS
<1>4. n # 0 /\ entries # <<>>
  BY <1>3 DEF Generated
<1>5. PICK index \in [1 .. n -> RandomIndex(Len(entries))] :
        text = [k \in 1 .. n |-> entries[index[k] + 1]]
  BY <1>3, <1>4 DEF Generated
<1> HIDE DEF entries, n
<1>6. DOMAIN entries = 1 .. Len(entries) /\ Len(entries) \in Nat \ {0}
  BY <1>1, <1>4, LenProperties, EmptySeq
<1>7. ASSUME NEW k \in 1 .. n PROVE entries[index[k] + 1] \in Int
  <2>1. index[k] \in RandomIndex(Len(entries))
    BY <1>5
  <2>2. PICK val \in 0 .. WordMax : index[k] = val % Len(entries)
    BY <2>1 DEF RandomIndex, Accepted
  <2>3. val \in Nat
    BY GeneratorAssumption
  <2>4. val % Len(entries) \in 0 .. (Len(entries) - 1)
    BY <1>6, <2>3, Division
  <2>5. index[k] + 1 \in 1 .. Len(entries)
    BY <1>6, <2>2, <2>4
  <2> QED
    BY <1>1, <2>5, ElementOfSeq
<1>8. text \in [1 .. n -> Int]
  BY <1>5, <1>7
<1> QED
  BY <1>2, <1>8, IsASeq DEF Texts

\* A sequence that loses an element keeps its type.
LEMMA RemoveAtType ==
    ASSUME NEW T, NEW s \in Seq(T), NEW k \in DOMAIN s
    PROVE  RemoveAt(s, k) \in Seq(T)
<1>1. DOMAIN s = 1 .. Len(s) /\ Len(s) \in Nat
  BY LenProperties
<1>2. k \in Int /\ k - 1 \in Int /\ k + 1 \in Int
  BY <1>1
<1>3. \A i \in 1 .. (k - 1) : s[i] \in T
  BY <1>1, ElementOfSeq
<1>4. \A i \in (k + 1) .. Len(s) : s[i] \in T
  BY <1>1, ElementOfSeq
<1>5. SubSeq(s, 1, k - 1) \in Seq(T)
  BY <1>2, <1>3, SubSeqProperties
<1>6. SubSeq(s, k + 1, Len(s)) \in Seq(T)
  BY <1>1, <1>2, <1>4, SubSeqProperties
<1> QED
  BY <1>5, <1>6, ConcatProperties DEF RemoveAt

\* Each edit makes a policy.
LEMMA EditTypes ==
    ASSUME policy \in Policies, NEW p \in Edits
    PROVE  p \in Policies
<1>1. CASE p = policy \/ \E tab \in {"password", "passphrase"} : p = [policy EXCEPT !.tab = tab]
  BY <1>1 DEF Policies
<1>2. CASE \E n \in Lengths : p = [policy EXCEPT !.length = n] \/ p = [policy EXCEPT !.words = n]
  BY <1>2 DEF Policies
<1>3. ASSUME NEW c \in Classes, p = [policy EXCEPT !.classes = (@ \cup {c}) \ (@ \cap {c})]
      PROVE  p \in Policies
  BY <1>3 DEF Policies
<1>4. CASE p = [policy EXCEPT !.excludeAmbiguous = ~@]
  <2>1. PICK b \in BOOLEAN : p = [policy EXCEPT !.excludeAmbiguous = b]
    BY <1>4
  <2> QED
    BY <2>1 DEF Policies
<1>5. CASE \E lang \in DOMAIN Wordlist : p = [policy EXCEPT !.lang = lang]
  BY <1>5 DEF Policies
<1> QED
  BY <1>1, <1>2, <1>3, <1>4, <1>5 DEF Edits

\* The clauses of the type invariant that are about sequences and timers.
PartTypes ==
    /\ \A k \in DOMAIN queue :
         IF queue[k].cmd = "generate" THEN queue[k].policy \in Policies ELSE queue[k].text \in Texts
    /\ \A k \in DOMAIN calls : calls[k].op \in Ops /\ calls[k].text \in Texts
    /\ \A t \in timers : t.text \in Texts /\ t.left \in Nat
    /\ {t.copy : t \in timers} = IF pending = 0 THEN {} ELSE {pending}

\* They follow from the shapes.
LEMMA ShapesGiveTypes == Shapes /\ TimerInv => PartTypes
<1> SUFFICES ASSUME Shapes, TimerInv PROVE PartTypes
  OBVIOUS
<1>1. \A k \in DOMAIN queue : queue[k] \in Commands
  BY ElementOfSeq, LenProperties DEF Shapes
<1>2. \A k \in DOMAIN calls : calls[k] \in Calls
  BY ElementOfSeq, LenProperties DEF Shapes
<1>3. \A c \in Commands : IF c.cmd = "generate" THEN c.policy \in Policies ELSE c.text \in Texts
  BY DEF Commands
<1>4. \A c \in Calls : c.op \in Ops /\ c.text \in Texts
  BY DEF Calls
<1>5. \A t \in timers : t.text \in Texts /\ t.left \in Nat
  BY DEF Shapes, Timers
<1>6. {t.copy : t \in timers} = IF pending = 0 THEN {} ELSE {pending}
  <2>1. CASE pending = 0
    BY <2>1 DEF TimerInv
  <2>2. CASE pending # 0
    <3>1. PICK t \in timers : TRUE
      BY <2>2 DEF Shapes
    <3> QED
      BY <2>2, <3>1 DEF TimerInv
  <2> QED
    BY <2>1, <2>2
<1> QED
  BY <1>1, <1>2, <1>3, <1>4, <1>5, <1>6 DEF PartTypes

\* The screen starts with its default policy and the commands for it.
LEMMA TypeInit == Init => IInv
<1> SUFFICES ASSUME Init PROVE IInv
  OBVIOUS
<1>1. /\ clip = Other /\ calls = <<>> /\ timers = {} /\ pending = 0 /\ copied = 0
      /\ warned = FALSE /\ running = TRUE
      /\ policy = DefaultPolicy /\ value = Empty /\ error = FALSE /\ edits = 0
      /\ queue = <<GenerateCommand(DefaultPolicy)>>
  BY DEF Init, ClipboardInit
<1>2. Other \in Texts /\ Empty \in Texts /\ DefaultPolicy \in Policies
  BY PolicyAssumption DEF Other, Empty, Texts
<1>3. GenerateCommand(DefaultPolicy) \in Commands
  BY <1>2, CommandTypes
<1>4. Shapes
  <2> DEFINE c == GenerateCommand(DefaultPolicy)
  <2>1. queue = <<c>> /\ c \in Commands
    BY <1>1, <1>3
  <2> HIDE DEF c
  <2> QED
    BY <1>1, <2>1 DEF Shapes
<1>5. edits \in 0 .. MaxEdits /\ copied \in 0 .. MaxCopies
  BY <1>1, ScreenAssumption, ClipboardAssumption
<1>6. TimerInv
  BY TimerInit
<1>7. TypeOK
  BY <1>1, <1>2, <1>4, <1>5, <1>6, ShapesGiveTypes DEF TypeOK, PartTypes
<1> QED
  BY <1>4, <1>6, <1>7 DEF IInv

\* A clipboard call that is answered leaves calls and timers of their types.
LEMMA AnswerTypes ==
    ASSUME IInv, NEW op \in Ops, AnswerCall(op), UNCHANGED screenVars
    PROVE  Shapes' /\ clip' \in Texts /\ copied' \in 0 .. MaxCopies /\ warned' \in BOOLEAN
<1>1. PICK k \in DOMAIN calls : CopyDone(k) \/ ReadDone(k) \/ ClearDone(k) \/ Refused(k)
  BY DEF AnswerCall
<1>2. /\ TypeOK /\ Shapes /\ TimerInv /\ calls[k] \in Calls
      /\ calls[k].op \in Ops /\ calls[k].text \in Texts /\ calls[k].delay \in Nat
  <2>1. calls[k] \in Calls
    BY ElementOfSeq, LenProperties DEF IInv, Shapes
  <2> QED
    BY <2>1 DEF IInv, Calls
<1>3. RemoveAt(calls, k) \in Seq(Calls)
  BY <1>2, RemoveAtType DEF Shapes
<1>4. Append(RemoveAt(calls, k), Check("clear", calls[k].text)) \in Seq(Calls)
  <2>1. Check("clear", calls[k].text) \in Calls
    BY <1>2, CommandTypes DEF Ops
  <2> QED
    BY <1>3, <2>1, AppendProperties
<1>5. CASE CopyDone(k)
  <2> DEFINE timer == [copy |-> copied + 1, text |-> calls[k].text, left |-> calls[k].delay]
  <2>1. /\ timers' = NotPending \cup {timer} /\ calls' = RemoveAt(calls, k)
        /\ copied < MaxCopies /\ copied' = copied + 1 /\ clip' = calls[k].text
        /\ UNCHANGED warned
    BY <1>5 DEF CopyDone
  <2>2. timer \in Timers
    BY <1>2 DEF Timers, TimerInv
  <2> HIDE DEF timer
  <2>3. timers' \subseteq Timers /\ timers' # {}
    BY <1>2, <2>1, <2>2 DEF NotPending, Shapes
  <2>4. copied' \in 0 .. MaxCopies
    BY <1>2, <2>1, ClipboardAssumption DEF TypeOK
  <2>5. queue' = queue
    BY DEF screenVars
  <2> QED
    BY <1>2, <1>3, <2>1, <2>3, <2>4, <2>5 DEF Shapes, TypeOK
<1>6. CASE ReadDone(k) \/ ClearDone(k) \/ Refused(k)
  <2>1. calls' \in {RemoveAt(calls, k), Append(RemoveAt(calls, k), Check("clear", calls[k].text))}
    BY <1>6 DEF ReadDone, ClearDone, Refused
  <2>2. UNCHANGED <<timers, pending, copied, queue>> /\ clip' \in {clip, Empty}
    BY <1>6 DEF ReadDone, ClearDone, Refused, screenVars
  <2>3. warned' \in BOOLEAN
    BY <1>2, <1>6 DEF ReadDone, ClearDone, Refused, TypeOK
  <2>4. Empty \in Texts
    BY DEF Empty, Texts
  <2> QED
    BY <1>2, <1>3, <1>4, <2>1, <2>2, <2>3, <2>4 DEF Shapes, TypeOK
<1> QED
  BY <1>1, <1>5, <1>6

\* Every step keeps the types.
LEMMA TypeStep == IInv /\ [Next]_vars => IInv'
<1> SUFFICES ASSUME IInv, [Next]_vars PROVE IInv'
  OBVIOUS
<1>0. TypeOK /\ Shapes /\ TimerInv
  BY DEF IInv
<1>1. TimerInv'
  BY <1>0, TimerStep
<1>2. ASSUME policy' \in Policies, value' \in Texts, error' \in BOOLEAN, edits' \in 0 .. MaxEdits,
             clip' \in Texts, copied' \in 0 .. MaxCopies, warned' \in BOOLEAN,
             running' \in BOOLEAN, Shapes'
      PROVE  IInv'
  <2>1. (Shapes /\ TimerInv => PartTypes)'
    BY ShapesGiveTypes, PTL
  <2>2. TypeOK'
    BY <1>1, <1>2, <2>1 DEF TypeOK, PartTypes
  <2> QED
    BY <1>1, <1>2, <2>2 DEF IInv
<1>3. CASE Edit
  <2>1. PICK p \in Edits : policy' = p /\ queue' = Append(queue, GenerateCommand(p))
    BY <1>3 DEF Edit, Effect
  <2>2. p \in Policies /\ GenerateCommand(p) \in Commands
    BY <1>0, <2>1, EditTypes, CommandTypes DEF TypeOK
  <2>3. queue' \in Seq(Commands)
    BY <1>0, <2>1, <2>2, AppendProperties DEF Shapes
  <2>4. edits' \in 0 .. MaxEdits /\ UNCHANGED <<value, error, clipVars>>
    BY <1>0, <1>3, ScreenAssumption DEF Edit, TypeOK
  <2> QED
    BY <1>0, <1>2, <2>1, <2>2, <2>3, <2>4 DEF Shapes, TypeOK, clipVars
<1>4. CASE AnswerGenerate
  <2>1. /\ queue # <<>> /\ Head(queue).cmd = "generate" /\ queue' = Tail(queue)
        /\ UNCHANGED <<policy, edits, clipVars>>
    BY <1>4 DEF AnswerGenerate
  <2>2. Head(queue) \in Commands /\ queue' \in Seq(Commands)
    BY <1>0, <2>1, HeadTailProperties DEF Shapes
  <2>3. Head(queue).policy \in Policies
    BY <2>1, <2>2 DEF Commands
  <2>4. Generated(Head(queue).policy) \subseteq Texts
    BY <2>3, GeneratedType
  <2>5. value' \in Texts /\ error' \in BOOLEAN
    BY <1>0, <1>4, <2>4 DEF AnswerGenerate, TypeOK
  <2> QED
    BY <1>0, <1>2, <2>1, <2>2, <2>5 DEF Shapes, TypeOK, clipVars
<1>5. CASE ClickCopy
  <2>1. queue' = Append(queue, SettingsCommand(value)) /\ UNCHANGED <<policy, value, error, edits, clipVars>>
    BY <1>5 DEF ClickCopy
  <2>2. SettingsCommand(value) \in Commands
    BY <1>0, CommandTypes DEF TypeOK
  <2>3. queue' \in Seq(Commands)
    BY <1>0, <2>1, <2>2, AppendProperties DEF Shapes
  <2> QED
    BY <1>0, <1>2, <2>1, <2>3 DEF Shapes, TypeOK, clipVars
<1>6. CASE AnswerSettings
  <2>1. /\ queue # <<>> /\ Head(queue).cmd = "settings" /\ queue' = Tail(queue)
        /\ UNCHANGED <<clip, timers, pending, copied, warned, running>>
        /\ UNCHANGED <<policy, value, error, edits>>
        /\ \/ \E delay \in Delays : calls' = Append(calls, WriteText(Head(queue).text, delay))
           \/ UNCHANGED calls
    BY <1>6 DEF AnswerSettings
  <2>2. Head(queue) \in Commands /\ queue' \in Seq(Commands)
    BY <1>0, <2>1, HeadTailProperties DEF Shapes
  <2>3. Head(queue).text \in Texts
    BY <2>1, <2>2 DEF Commands
  <2>4. calls' \in Seq(Calls)
    BY <1>0, <2>1, <2>3, CommandTypes, AppendProperties DEF Shapes
  <2> QED
    BY <1>0, <1>2, <2>1, <2>2, <2>4 DEF Shapes, TypeOK
<1>7. ASSUME NEW op \in Ops, AnswerCall(op), UNCHANGED screenVars PROVE IInv'
  <2>1. Shapes' /\ clip' \in Texts /\ copied' \in 0 .. MaxCopies /\ warned' \in BOOLEAN
    BY <1>7, AnswerTypes
  <2>2. UNCHANGED <<policy, value, error, edits, running>>
    BY <1>7 DEF AnswerCall, screenVars
  <2> QED
    BY <1>0, <1>2, <2>1, <2>2 DEF TypeOK
<1>8. CASE Fire /\ UNCHANGED screenVars
  <2>1. PICK t \in timers : /\ timers' = timers \ {t} /\ pending' = 0
                           /\ calls' = Append(calls, Check("read", t.text))
    BY <1>8 DEF Fire
  <2>2. UNCHANGED <<clip, copied, warned, running, policy, value, error, edits, queue>>
    BY <1>8 DEF Fire, screenVars
  <2>3. t.text \in Texts
    BY <1>0 DEF TypeOK
  <2>4. Check("read", t.text) \in Calls
    BY <2>3, CommandTypes DEF Ops
  <2>5. calls' \in Seq(Calls)
    BY <1>0, <2>1, <2>4, AppendProperties DEF Shapes
  <2> QED
    BY <1>0, <1>2, <2>1, <2>2, <2>5 DEF Shapes, TypeOK
<1>9. CASE Tick /\ UNCHANGED screenVars
  <2>1. /\ timers # {} /\ \A t \in timers : t.left > 0
        /\ timers' = {[copy |-> t.copy, text |-> t.text, left |-> t.left - 1] : t \in timers}
        /\ UNCHANGED <<clip, calls, pending, copied, warned, running>>
        /\ UNCHANGED <<policy, value, error, edits, queue>>
    BY <1>9 DEF Tick, screenVars
  <2>2. ASSUME NEW t \in timers
        PROVE  [copy |-> t.copy, text |-> t.text, left |-> t.left - 1] \in Timers
    <3>1. t \in Timers /\ t.left > 0
      BY <1>0, <2>1 DEF Shapes
    <3>2. t.left - 1 \in Nat /\ t.copy \in Nat /\ t.text \in Texts
      BY <3>1 DEF Timers
    <3> QED
      BY <3>2 DEF Timers
  <2>3. timers' \subseteq Timers /\ timers' # {}
    BY <2>1, <2>2
  <2> QED
    BY <1>0, <1>2, <2>1, <2>3 DEF Shapes, TypeOK
<1>10. CASE OtherCopy /\ UNCHANGED screenVars
  <2>1. Other \in Texts
    BY DEF Other, Texts
  <2> QED
    BY <1>0, <1>2, <1>10, <2>1 DEF OtherCopy, screenVars, Shapes, TypeOK
<1>11. CASE Quit /\ UNCHANGED screenVars
  <2>1. /\ running' = FALSE /\ calls' = <<>> /\ timers' = {} /\ pending' = 0
        /\ UNCHANGED <<clip, copied, warned, policy, value, error, edits, queue>>
    BY <1>11 DEF Quit, screenVars
  <2>2. Shapes'
    BY <1>0, <2>1 DEF Shapes
  <2> QED
    BY <1>0, <1>2, <2>1, <2>2 DEF TypeOK
<1>12. CASE UNCHANGED vars
  BY <1>0, <1>2, <1>12 DEF vars, clipVars, screenVars, Shapes, TypeOK
<1> QED
  BY <1>3, <1>4, <1>5, <1>6, <1>7, <1>8, <1>9, <1>10, <1>11, <1>12 DEF Next, ClipboardNext

\* The types hold throughout.
LEMMA Invariance == Spec => []IInv
BY TypeInit, TypeStep, PTL DEF Spec

\* Policies, values, timers and clipboard calls have their types, and there is
\* never a timer but the one pendingClear remembers (clipboard.ts:4).
THEOREM TypeCorrect == Spec => []TypeOK
BY Invariance, PTL DEF IInv

\* Every symbol of every charset and word of every list is drawn for equally
\* many of the values that random_index accepts (generator/mod.rs:118).
THEOREM EntriesEquallyLikelyCorrect == Spec => []EntriesEquallyLikely
<1>1. TypeOK => EntriesEquallyLikely
  <2> SUFFICES ASSUME TypeOK PROVE EntriesEquallyLikely
    OBVIOUS
  <2> DEFINE entries == Entries(policy)
             b == Len(entries)
             class(r) == {val \in Accepted(b) : val % b = r}
             drawnBy(s) == {val \in Accepted(b) : entries[(val % b) + 1] = s}
  <2>1. /\ entries \in Seq(Int) /\ b <= WordMax
        /\ \A k, l \in DOMAIN entries : entries[k] = entries[l] => k = l
    BY PolicyAssumption DEF TypeOK
  <2>2. DOMAIN entries = 1 .. b /\ b \in Nat
    BY <2>1, LenProperties
  <2> SUFFICES ASSUME NEW k \in DOMAIN entries, NEW l \in DOMAIN entries
               PROVE  /\ drawnBy(entries[k]) # {}
                      /\ Cardinality(drawnBy(entries[k])) = Cardinality(drawnBy(entries[l]))
    BY DEF EntriesEquallyLikely
  <2>3. b \in 1 .. WordMax /\ WordMax \in Nat
    BY <2>1, <2>2, GeneratorAssumption
  <2> HIDE DEF entries, b
  <2>4. ASSUME NEW m \in DOMAIN entries PROVE drawnBy(entries[m]) = class(m - 1)
    <3>1. ASSUME NEW val \in Accepted(b)
          PROVE  entries[(val % b) + 1] = entries[m] <=> val % b = m - 1
      <4>1. val \in Nat /\ b \in Nat \ {0}
        BY <2>3 DEF Accepted
      <4>2. val % b \in 0 .. (b - 1)
        BY <4>1, Division
      <4>3. (val % b) + 1 \in DOMAIN entries
        BY <2>2, <4>2
      <4>4. entries[(val % b) + 1] = entries[m] <=> (val % b) + 1 = m
        BY <2>1, <4>3
      <4> QED
        BY <2>2, <4>2, <4>4
    <3> QED
      BY <3>1
  <2>5. PICK n \in Nat \ {0} : \A r \in 0 .. (b - 1) :
          IsFiniteSet(class(r)) /\ Cardinality(class(r)) = n
    BY <2>3, IndexEquallyLikely
  <2>6. k - 1 \in 0 .. (b - 1) /\ l - 1 \in 0 .. (b - 1)
    BY <2>2
  <2> HIDE DEF class, drawnBy
  <2>7. Cardinality(class(k - 1)) = n /\ Cardinality(class(l - 1)) = n
    BY <2>5, <2>6
  <2>8. class(k - 1) # {}
    BY <2>7, FS_EmptySet
  <2> QED
    BY <2>4, <2>7, <2>8
<1> QED
  BY <1>1, TypeCorrect, PTL

----------------------------------------------------------------------------
(* The value and the policy it was drawn for *)

Draws(k) == queue[k].cmd = "generate"

Fits ==
    /\ error <=> Generated(policy) = {}
    /\ ~error => value \in Generated(policy)

\* The last command to draw a value is for the policy of the inputs; with none
\* on its way, the value or the error is.
FitInv ==
    /\ \A k \in DOMAIN queue :
         Draws(k) /\ (\A j \in DOMAIN queue : k < j => ~Draws(j)) => queue[k].policy = policy
    /\ (\A k \in DOMAIN queue : ~Draws(k)) => Fits

\* The first command is for the default policy.
LEMMA FitInit == Init => FitInv
<1> SUFFICES ASSUME Init PROVE FitInv
  OBVIOUS
<1> DEFINE c == GenerateCommand(DefaultPolicy)
<1>1. queue = <<c>> /\ policy = DefaultPolicy
  BY DEF Init
<1>2. c.cmd = "generate" /\ c.policy = DefaultPolicy
  BY DEF GenerateCommand
<1> HIDE DEF c
<1>3. DOMAIN queue = {1} /\ queue[1] = c
  BY <1>1
<1> QED
  BY <1>1, <1>2, <1>3 DEF FitInv, Draws

\* A command that is added comes after all others.
LEMMA CommandAdded ==
    ASSUME Shapes, NEW c \in Commands, queue' = Append(queue, c)
    PROVE  \E n : /\ DOMAIN queue' = DOMAIN queue \cup {n} /\ queue'[n] = c
                  /\ \A k \in DOMAIN queue : k < n /\ ~(n < k) /\ queue'[k] = queue[k]
<1>1. queue \in Seq(Commands)
  BY DEF Shapes
<1> HIDE DEF Commands
<1>2. DOMAIN queue = 1 .. Len(queue) /\ Len(queue) \in Nat
  BY <1>1, LenProperties
<1>3. /\ queue' \in Seq(Commands) /\ Len(queue') = Len(queue) + 1
      /\ \A k \in 1 .. Len(queue) : queue'[k] = queue[k]
      /\ queue'[Len(queue) + 1] = c
  BY <1>1, AppendProperties
<1>4. DOMAIN queue' = 1 .. (Len(queue) + 1)
  BY <1>3, LenProperties
<1>5. PICK n : n = Len(queue) + 1
  OBVIOUS
<1>6. DOMAIN queue' = DOMAIN queue \cup {n} /\ \A k \in DOMAIN queue : k < n /\ ~(n < k)
  BY <1>2, <1>4, <1>5
<1> QED
  BY <1>2, <1>3, <1>5, <1>6

\* The commands that are left keep their order.
LEMMA CommandTaken ==
    ASSUME Shapes, queue # <<>>, queue' = Tail(queue)
    PROVE  /\ 1 \in DOMAIN queue /\ Head(queue) = queue[1]
           /\ DOMAIN queue \subseteq Nat \ {0} /\ DOMAIN queue' \subseteq Nat \ {0}
           /\ \A k \in DOMAIN queue' : k + 1 \in DOMAIN queue /\ queue'[k] = queue[k + 1]
           /\ \A k \in DOMAIN queue : k # 1 => k - 1 \in DOMAIN queue' /\ queue'[k - 1] = queue[k]
<1>1. queue \in Seq(Commands)
  BY DEF Shapes
<1> HIDE DEF Commands
<1>2. DOMAIN queue = 1 .. Len(queue) /\ Len(queue) \in Nat \ {0} /\ Head(queue) = queue[1]
  BY <1>1, LenProperties, EmptySeq
<1>3. /\ queue' \in Seq(Commands) /\ Len(queue') = Len(queue) - 1
      /\ \A k \in 1 .. Len(queue') : queue'[k] = queue[k + 1]
  BY <1>1, HeadTailProperties
<1>4. DOMAIN queue' = 1 .. (Len(queue) - 1)
  BY <1>3, LenProperties
<1>5. PICK n \in Nat \ {0} : n = Len(queue)
  BY <1>2
<1>6. \A k \in 1 .. (n - 1) : k + 1 \in 1 .. n
  BY <1>5
<1>7. \A k \in 1 .. n : k # 1 => k - 1 \in 1 .. (n - 1) /\ (k - 1) + 1 = k
  BY <1>5
<1>8. 1 \in 1 .. n /\ 1 .. n \subseteq Nat \ {0} /\ 1 .. (n - 1) \subseteq Nat \ {0}
  BY <1>5
<1> QED
  BY <1>2, <1>3, <1>4, <1>5, <1>6, <1>7, <1>8

\* A command that draws nothing leaves or joins the queue.
LEMMA FitKept ==
    ASSUME Shapes, FitInv, UNCHANGED <<policy, value, error>>
    PROVE  /\ \A c \in Commands : c.cmd = "settings" /\ queue' = Append(queue, c) => FitInv'
           /\ queue # <<>> /\ Head(queue).cmd = "settings" /\ queue' = Tail(queue) => FitInv'
<1>1. ASSUME NEW c \in Commands, c.cmd = "settings", queue' = Append(queue, c) PROVE FitInv'
  <2>1. PICK n : /\ DOMAIN queue' = DOMAIN queue \cup {n} /\ queue'[n] = c
                 /\ \A k \in DOMAIN queue : k < n /\ ~(n < k) /\ queue'[k] = queue[k]
    BY <1>1, CommandAdded
  <2>2. ~Draws(n)' /\ \A k \in DOMAIN queue : Draws(k)' <=> Draws(k)
    BY <1>1, <2>1 DEF Draws
  <2>3. ASSUME NEW k \in DOMAIN queue', Draws(k)', \A j \in DOMAIN queue' : k < j => ~Draws(j)'
        PROVE  queue'[k].policy = policy'
    <3>1. k \in DOMAIN queue /\ Draws(k) /\ \A j \in DOMAIN queue : k < j => ~Draws(j)
      BY <2>1, <2>2, <2>3
    <3> QED
      BY <2>1, <3>1 DEF FitInv
  <2>4. (\A k \in DOMAIN queue' : ~Draws(k)') => Fits'
    BY <2>1, <2>2 DEF FitInv, Fits
  <2> QED
    BY <2>3, <2>4 DEF FitInv, Draws
<1>2. ASSUME queue # <<>>, Head(queue).cmd = "settings", queue' = Tail(queue) PROVE FitInv'
  <2>1. /\ 1 \in DOMAIN queue /\ Head(queue) = queue[1]
        /\ DOMAIN queue \subseteq Nat \ {0} /\ DOMAIN queue' \subseteq Nat \ {0}
        /\ \A k \in DOMAIN queue' : k + 1 \in DOMAIN queue /\ queue'[k] = queue[k + 1]
        /\ \A k \in DOMAIN queue : k # 1 => k - 1 \in DOMAIN queue' /\ queue'[k - 1] = queue[k]
    BY <1>2, CommandTaken
  <2>2. /\ ~Draws(1) /\ \A k \in DOMAIN queue' : Draws(k)' <=> Draws(k + 1)
        /\ \A k \in DOMAIN queue : k # 1 => (Draws(k - 1)' <=> Draws(k))
    BY <1>2, <2>1 DEF Draws
  <2>3. ASSUME NEW k \in DOMAIN queue', Draws(k)', \A j \in DOMAIN queue' : k < j => ~Draws(j)'
        PROVE  queue'[k].policy = policy'
    <3>1. \A j \in DOMAIN queue : k + 1 < j => ~Draws(j)
      <4>1. ASSUME NEW j \in DOMAIN queue, k + 1 < j PROVE ~Draws(j)
        <5>1. j # 1 /\ k < j - 1
          BY <2>1, <4>1
        <5> QED
          BY <2>1, <2>2, <2>3, <5>1
      <4> QED
        BY <4>1
    <3> QED
      BY <2>1, <2>2, <2>3, <3>1 DEF FitInv
  <2>4. (\A k \in DOMAIN queue' : ~Draws(k)') => Fits'
    <3>1. ASSUME \A k \in DOMAIN queue' : ~Draws(k)', NEW k \in DOMAIN queue PROVE ~Draws(k)
      BY <2>1, <2>2, <3>1
    <3> QED
      BY <3>1 DEF FitInv, Fits
  <2> QED
    BY <2>3, <2>4 DEF FitInv, Draws
<1> QED
  BY <1>1, <1>2

\* Every edit sends a command that comes after those for earlier policies, and
\* the last answer is the one that stands.
LEMMA FitStep == IInv /\ FitInv /\ [Next]_vars => FitInv'
<1> SUFFICES ASSUME IInv, FitInv, [Next]_vars PROVE FitInv'
  OBVIOUS
<1>0. TypeOK /\ Shapes
  BY DEF IInv
<1>1. CASE Edit
  <2>1. PICK p \in Edits : policy' = p /\ queue' = Append(queue, GenerateCommand(p))
    BY <1>1 DEF Edit, Effect
  <2> DEFINE c == GenerateCommand(p)
  <2>2. c \in Commands
    BY <1>0, <2>1, EditTypes, CommandTypes DEF TypeOK
  <2>3. c.cmd = "generate" /\ c.policy = policy'
    BY <2>1 DEF GenerateCommand
  <2> HIDE DEF c
  <2>4. PICK n : /\ DOMAIN queue' = DOMAIN queue \cup {n} /\ queue'[n] = c
                 /\ \A k \in DOMAIN queue : k < n /\ ~(n < k)
    BY <1>0, <2>1, <2>2, CommandAdded DEF c
  <2>5. Draws(n)' /\ n \in DOMAIN queue'
    BY <2>3, <2>4 DEF Draws
  <2>6. ASSUME NEW k \in DOMAIN queue', \A j \in DOMAIN queue' : k < j => ~Draws(j)'
        PROVE  queue'[k].policy = policy'
    BY <2>3, <2>4, <2>5, <2>6
  <2> QED
    BY <2>5, <2>6 DEF FitInv, Draws
<1>2. CASE AnswerGenerate
  <2>1. /\ queue # <<>> /\ Head(queue).cmd = "generate" /\ queue' = Tail(queue)
        /\ UNCHANGED policy
        /\ LET drawn == Generated(Head(queue).policy)
           IN  IF drawn = {} THEN error' = TRUE /\ UNCHANGED value
               ELSE error' = FALSE /\ value' \in drawn
    BY <1>2 DEF AnswerGenerate
  <2>2. /\ 1 \in DOMAIN queue /\ Head(queue) = queue[1]
        /\ DOMAIN queue \subseteq Nat \ {0} /\ DOMAIN queue' \subseteq Nat \ {0}
        /\ \A k \in DOMAIN queue' : k + 1 \in DOMAIN queue /\ queue'[k] = queue[k + 1]
        /\ \A k \in DOMAIN queue : k # 1 => k - 1 \in DOMAIN queue' /\ queue'[k - 1] = queue[k]
    BY <1>0, <2>1, CommandTaken
  <2>3. /\ Draws(1) /\ \A k \in DOMAIN queue' : Draws(k)' <=> Draws(k + 1)
        /\ \A k \in DOMAIN queue : k # 1 => (Draws(k - 1)' <=> Draws(k))
    BY <2>1, <2>2 DEF Draws
  <2>4. ASSUME NEW k \in DOMAIN queue', Draws(k)', \A j \in DOMAIN queue' : k < j => ~Draws(j)'
        PROVE  queue'[k].policy = policy'
    <3>1. \A j \in DOMAIN queue : k + 1 < j => ~Draws(j)
      <4>1. ASSUME NEW j \in DOMAIN queue, k + 1 < j PROVE ~Draws(j)
        <5>1. j # 1 /\ k < j - 1
          BY <2>2, <4>1
        <5> QED
          BY <2>2, <2>3, <2>4, <5>1
      <4> QED
        BY <4>1
    <3> QED
      BY <2>1, <2>2, <2>3, <2>4, <3>1 DEF FitInv
  <2>5. ASSUME \A k \in DOMAIN queue' : ~Draws(k)' PROVE Fits'
    <3>1. \A k \in DOMAIN queue : 1 < k => ~Draws(k)
      BY <2>2, <2>3, <2>5
    <3>2. Head(queue).policy = policy
      BY <2>2, <2>3, <3>1 DEF FitInv
    <3> QED
      BY <2>1, <3>2 DEF Fits
  <2> QED
    BY <2>4, <2>5 DEF FitInv, Draws
<1>3. CASE ClickCopy
  <2>1. SettingsCommand(value) \in Commands /\ SettingsCommand(value).cmd = "settings"
    BY <1>0, CommandTypes DEF TypeOK, SettingsCommand
  <2> QED
    BY <1>0, <1>3, <2>1, FitKept DEF ClickCopy
<1>4. CASE AnswerSettings
  BY <1>0, <1>4, FitKept DEF AnswerSettings
<1>5. CASE UNCHANGED screenVars
  BY <1>5 DEF screenVars, FitInv, Fits, Draws
<1> QED
  BY <1>1, <1>2, <1>3, <1>4, <1>5 DEF Next, vars

\* Once the commands are answered the screen shows a value of the policy its
\* inputs say, or the error of a policy that has none (GeneratorScreen.tsx:49),
\* for any number of edits while commands are on their way.
THEOREM ValueFitsPolicyCorrect == Spec => []ValueFitsPolicy
<1>1. FitInv => ValueFitsPolicy
  BY DEF FitInv, Fits, Draws, ValueFitsPolicy, Generating
<1> QED
  BY <1>1, Invariance, FitInit, FitStep, PTL DEF Spec

----------------------------------------------------------------------------
(* Clearing *)

\* What stays in a sequence that loses an element.
LEMMA RemoveAtKeeps ==
    ASSUME NEW T, NEW s \in Seq(T), NEW k \in DOMAIN s, NEW j \in DOMAIN s, j # k
    PROVE  \E i \in DOMAIN RemoveAt(s, k) : RemoveAt(s, k)[i] = s[j]
<1> DEFINE front == SubSeq(s, 1, k - 1)
           back == SubSeq(s, k + 1, Len(s))
<1>1. /\ DOMAIN s = 1 .. Len(s) /\ Len(s) \in Nat
      /\ k \in 1 .. Len(s) /\ j \in 1 .. Len(s)
  BY LenProperties
<1>2. \A i \in 1 .. Len(s) : s[i] \in T
  BY <1>1, ElementOfSeq
<1>3. /\ front \in Seq(T) /\ Len(front) = k - 1
      /\ \A i \in 1 .. (k - 1) : front[i] = s[i]
  <2>1. 1 \in Int /\ k - 1 \in Int /\ \A i \in 1 .. (k - 1) : s[i] \in T
    BY <1>1, <1>2
  <2>2. (IF 1 <= k - 1 THEN (k - 1) - 1 + 1 ELSE 0) = k - 1
    BY <1>1
  <2>3. \A i \in 1 .. (k - 1) : i \in 1 .. ((k - 1) - 1 + 1) /\ 1 + i - 1 = i
    BY <1>1
  <2> QED
    BY <2>1, <2>2, <2>3, SubSeqProperties
<1>4. /\ back \in Seq(T) /\ Len(back) = Len(s) - k
      /\ \A i \in 1 .. (Len(s) - k) : back[i] = s[k + i]
  <2>1. k + 1 \in Int /\ Len(s) \in Int /\ \A i \in (k + 1) .. Len(s) : s[i] \in T
    BY <1>1, <1>2
  <2>2. (IF k + 1 <= Len(s) THEN Len(s) - (k + 1) + 1 ELSE 0) = Len(s) - k
    BY <1>1
  <2>3. \A i \in 1 .. (Len(s) - k) :
          i \in 1 .. (Len(s) - (k + 1) + 1) /\ (k + 1) + i - 1 = k + i
    BY <1>1
  <2> QED
    BY <2>1, <2>2, <2>3, SubSeqProperties
<1> HIDE DEF front, back
<1>5. /\ front \o back \in Seq(T) /\ Len(front \o back) = Len(s) - 1
      /\ \A i \in 1 .. (Len(s) - 1) :
           (front \o back)[i] = IF i <= k - 1 THEN front[i] ELSE back[i - (k - 1)]
  <2>1. /\ front \o back \in Seq(T)
        /\ Len(front \o back) = Len(front) + Len(back)
        /\ \A i \in 1 .. (Len(front) + Len(back)) :
             (front \o back)[i] = IF i <= Len(front) THEN front[i] ELSE back[i - Len(front)]
    BY <1>3, <1>4, ConcatProperties
  <2>2. Len(front) = k - 1 /\ Len(front) + Len(back) = Len(s) - 1
    BY <1>1, <1>3, <1>4
  <2> QED
    BY <2>1, <2>2
<1>6. DOMAIN (front \o back) = 1 .. (Len(s) - 1)
  BY <1>5, LenProperties
<1>7. CASE j < k
  <2>1. j \in 1 .. (Len(s) - 1) /\ j <= k - 1 /\ j \in 1 .. (k - 1)
    BY <1>1, <1>7
  <2>2. (front \o back)[j] = s[j]
    BY <1>3, <1>5, <2>1
  <2> QED
    BY <1>6, <2>1, <2>2 DEF RemoveAt, front, back
<1>8. CASE j > k
  <2>1. /\ j - 1 \in 1 .. (Len(s) - 1) /\ ~(j - 1 <= k - 1)
        /\ j - k \in 1 .. (Len(s) - k) /\ (j - 1) - (k - 1) = j - k /\ k + (j - k) = j
    BY <1>1, <1>8
  <2>2. (front \o back)[j - 1] = s[j]
    BY <1>4, <1>5, <2>1
  <2> QED
    BY <1>6, <2>1, <2>2 DEF RemoveAt, front, back
<1> QED
  BY <1>1, <1>7, <1>8

\* A call that clears this text is under way.
Clearing(cs, text) ==
    \E k \in DOMAIN cs : cs[k].op \in {"read", "clear"} /\ cs[k].text = text

\* One more call hides none.
LEMMA ClearingAppend ==
    ASSUME NEW cs \in Seq(Calls), NEW call \in Calls, NEW text
    PROVE  /\ Clearing(cs, text) => Clearing(Append(cs, call), text)
           /\ call.op \in {"read", "clear"} /\ call.text = text
                => Clearing(Append(cs, call), text)
<1>1. /\ DOMAIN cs = 1 .. Len(cs) /\ Len(cs) \in Nat
      /\ DOMAIN Append(cs, call) = 1 .. (Len(cs) + 1)
  BY LenProperties, AppendProperties
<1>2. /\ \A i \in 1 .. Len(cs) : Append(cs, call)[i] = cs[i]
      /\ Append(cs, call)[Len(cs) + 1] = call
  BY AppendProperties
<1>3. Len(cs) + 1 \in DOMAIN Append(cs, call) /\ \A i \in DOMAIN cs : i \in DOMAIN Append(cs, call)
  BY <1>1
<1> QED
  BY <1>1, <1>2, <1>3 DEF Clearing

\* An answer takes its own call only.
LEMMA ClearingRemove ==
    ASSUME NEW cs \in Seq(Calls), NEW k \in DOMAIN cs, NEW text,
           Clearing(cs, text), ~(cs[k].op \in {"read", "clear"} /\ cs[k].text = text)
    PROVE  Clearing(RemoveAt(cs, k), text)
<1>1. PICK j \in DOMAIN cs : cs[j].op \in {"read", "clear"} /\ cs[j].text = text
  BY DEF Clearing
<1>2. j # k
  BY <1>1
<1>3. PICK i \in DOMAIN RemoveAt(cs, k) : RemoveAt(cs, k)[i] = cs[j]
  BY <1>2, RemoveAtKeeps
<1> QED
  BY <1>1, <1>3 DEF Clearing

\* Every answer of the clipboard, of a call of any kind.
LEMMA AnswerAttended ==
    ASSUME IInv, CopyAttended, NEW k \in DOMAIN calls, running' = running,
           CopyDone(k) \/ ReadDone(k) \/ ClearDone(k) \/ Refused(k)
    PROVE  CopyAttended'
<1> DEFINE call == calls[k]
<1> SUFFICES ASSUME running, ~warned', clip' \notin {Empty, Other}
             PROVE  \/ \E t \in timers' : t.text = clip'
                    \/ Clearing(calls', clip')
  BY DEF CopyAttended, Clearing, Empty, Other
<1>a. calls \in Seq(Calls) /\ call \in Calls
  BY ElementOfSeq, LenProperties DEF IInv, Shapes
<1>b. call.text \in Texts /\ call.op \in Ops
  BY <1>a DEF Calls
<1>c. RemoveAt(calls, k) \in Seq(Calls) /\ Check("clear", call.text) \in Calls
  BY <1>a, <1>b, RemoveAtType, CommandTypes DEF Ops
<1>d. /\ Check("clear", call.text).op = "clear"
      /\ Check("clear", call.text).text = call.text
  BY DEF Check
<1>e. ASSUME warned' = warned, clip' = clip
      PROVE  (\E t \in timers : t.text = clip) \/ Clearing(calls, clip)
  BY <1>e DEF CopyAttended, Clearing
<1>1. CASE CopyDone(k)
  <2>1. /\ [copy |-> copied + 1, text |-> call.text, left |-> call.delay] \in timers'
        /\ clip' = call.text
    BY <1>1 DEF CopyDone
  <2> QED
    BY <2>1
<1>2. CASE ReadDone(k)
  <2>1. clip' = clip /\ timers' = timers /\ warned' = warned
    BY <1>2 DEF ReadDone
  <2>2. CASE clip = call.text
    <3>1. calls' = Append(RemoveAt(calls, k), Check("clear", call.text))
      BY <1>2, <2>2 DEF ReadDone
    <3> QED
      BY <1>c, <1>d, <2>1, <2>2, <3>1, ClearingAppend
  <2>3. CASE clip # call.text
    <3>1. calls' = RemoveAt(calls, k)
      BY <1>2, <2>3 DEF ReadDone
    <3>2. Clearing(calls, clip) => Clearing(RemoveAt(calls, k), clip)
      BY <1>a, <2>3, ClearingRemove
    <3> QED
      BY <1>e, <2>1, <3>1, <3>2
  <2> QED
    BY <2>2, <2>3
<1>3. CASE ClearDone(k)
  BY <1>3 DEF ClearDone, Empty
<1>4. CASE Refused(k)
  <2>1. /\ clip' = clip /\ timers' = timers
        /\ warned' = (warned \/ call.op = "clear")
    BY <1>4 DEF Refused
  <2>2. warned \in BOOLEAN
    BY DEF IInv, TypeOK
  <2>3. warned' = warned /\ call.op # "clear"
    BY <2>1, <2>2
  <2>4. CASE call.op = "read"
    <3>1. calls' = Append(RemoveAt(calls, k), Check("clear", call.text))
      BY <1>4, <2>4 DEF Refused
    <3>2. CASE call.text = clip
      BY <1>c, <1>d, <2>1, <3>1, <3>2, ClearingAppend
    <3>3. CASE call.text # clip
      <4>1. Clearing(calls, clip) => Clearing(RemoveAt(calls, k), clip)
        BY <1>a, <3>3, ClearingRemove
      <4>2. Clearing(calls, clip) => Clearing(calls', clip)
        BY <1>c, <3>1, <4>1, ClearingAppend
      <4> QED
        BY <1>e, <2>1, <2>3, <4>2
    <3> QED
      BY <3>2, <3>3
  <2>5. CASE call.op # "read"
    <3>1. calls' = RemoveAt(calls, k)
      BY <1>4, <2>5 DEF Refused
    <3>2. Clearing(calls, clip) => Clearing(RemoveAt(calls, k), clip)
      BY <1>a, <2>3, <2>5, ClearingRemove
    <3> QED
      BY <1>e, <2>1, <2>3, <3>1, <3>2
  <2> QED
    BY <2>4, <2>5
<1> QED
  BY <1>1, <1>2, <1>3, <1>4

\* No step leaves a copy unattended.
LEMMA AttendedStep == IInv /\ CopyAttended /\ [Next]_vars => CopyAttended'
<1> SUFFICES ASSUME IInv, CopyAttended, [Next]_vars PROVE CopyAttended'
  OBVIOUS
<1>a. calls \in Seq(Calls) /\ \A t \in timers : t.text \in Texts
  BY DEF IInv, Shapes, Timers
<1>b. ASSUME UNCHANGED <<clip, calls, timers, warned, running>> PROVE CopyAttended'
  BY <1>b DEF CopyAttended, Empty, Other
<1>1. CASE Edit \/ AnswerGenerate \/ ClickCopy \/ UNCHANGED vars
  BY <1>1, <1>b DEF Edit, AnswerGenerate, ClickCopy, clipVars, vars
<1>2. CASE AnswerSettings
  <2>1. UNCHANGED <<clip, timers, warned, running>>
    BY <1>2 DEF AnswerSettings
  <2>2. CASE UNCHANGED calls
    BY <1>b, <2>1, <2>2
  <2>3. CASE \E delay \in Delays : calls' = Append(calls, WriteText(Head(queue).text, delay))
    <3>1. PICK delay \in Delays : calls' = Append(calls, WriteText(Head(queue).text, delay))
      BY <2>3
    <3>2. WriteText(Head(queue).text, delay) \in Calls
      <4>1. queue \in Seq(Commands) /\ queue # <<>> /\ Head(queue).cmd = "settings"
        BY <1>2 DEF AnswerSettings, IInv, Shapes
      <4>2. Head(queue) \in Commands
        BY <4>1, HeadTailProperties
      <4>3. Head(queue).text \in Texts
        BY <4>1, <4>2 DEF Commands
      <4> QED
        BY <4>3, CommandTypes
    <3>3. Clearing(calls, clip) => Clearing(calls', clip)
      BY <1>a, <3>1, <3>2, ClearingAppend
    <3> QED
      BY <2>1, <3>3 DEF CopyAttended, Clearing, Empty, Other
  <2> QED
    BY <1>2, <2>2, <2>3 DEF AnswerSettings
<1>3. ASSUME NEW op \in Ops, AnswerCall(op) PROVE CopyAttended'
  BY <1>3, AnswerAttended DEF AnswerCall
<1>4. CASE Fire
  <2>1. PICK u \in timers : timers' = timers \ {u} /\ calls' = Append(calls, Check("read", u.text))
    BY <1>4 DEF Fire
  <2>2. UNCHANGED <<clip, warned, running>>
    BY <1>4 DEF Fire
  <2>3. /\ Check("read", u.text) \in Calls
        /\ Check("read", u.text).op = "read" /\ Check("read", u.text).text = u.text
    BY <1>a, CommandTypes DEF Ops, Check
  <2>4. Clearing(calls, clip) \/ u.text = clip => Clearing(calls', clip)
    BY <1>a, <2>1, <2>3, ClearingAppend
  <2>5. \A t \in timers : t = u \/ t \in timers'
    BY <2>1
  <2> QED
    BY <2>2, <2>4, <2>5 DEF CopyAttended, Clearing, Empty, Other
<1>5. CASE Tick
  <2>1. UNCHANGED <<clip, calls, warned, running>>
    BY <1>5 DEF Tick
  <2>2. \A t \in timers : \E u \in timers' : u.text = t.text
    <3> TAKE t \in timers
    <3> DEFINE u == [copy |-> t.copy, text |-> t.text, left |-> t.left - 1]
    <3>1. u \in timers' /\ u.text = t.text
      BY <1>5 DEF Tick
    <3> QED
      BY <3>1
  <2> QED
    BY <2>1, <2>2 DEF CopyAttended, Empty, Other
<1>6. CASE OtherCopy \/ Quit
  BY <1>6 DEF OtherCopy, Quit, CopyAttended, Other
<1> QED
  BY <1>1, <1>2, <1>3, <1>4, <1>5, <1>6 DEF Next, ClipboardNext

\* While the window is open, a copy that is still in the clipboard is on its
\* way out (clipboard.ts:15-45), for any delays and any number of copies.
THEOREM CopyAttendedCorrect == Spec => []CopyAttended
<1>1. Init => CopyAttended
  BY DEF Init, ClipboardInit, CopyAttended
<1> QED
  BY <1>1, Invariance, AttendedStep, PTL DEF Spec
=============================================================================
